SPECIFICATION FairSpec
CONSTANTS
  Scans = {"s1", "s2"}
  Inserting = {"s2"}
  Tuples = {"t1", "d1", "t2", "d2"}
  Dead = {"d1", "d2"}
  BlockOf <- MCBlockOf
  Segments = {"g1", "g2"}
  DocsOf <- MCDocsOf
INVARIANT CountedAreVisible
PROPERTY VacuumReturns
PROPERTY ScansEnd
CHECK_DEADLOCK FALSE
