--------------------------- MODULE MCLinkedItems ---------------------------
(* Instances of LinkedItems: a full start page, a page of garbage, a page   *)
(* that keeps an entry.                                                     *)
EXTENDS LinkedItems

CONSTANTS a1, a2, m1, r1, r2

MCPages   == <<{"s1", "s2"}, {"g1", "g2"}, {"k1"}, {"g3", "g4"}>>
MCGarbage == {"g1", "g2", "g3", "g4"}

MCCreated == [p \in Writers |->
  IF p = a1 THEN <<"x1", "x2">> ELSE IF p = a2 THEN <<"y1", "y2">> ELSE <<"z1">>]

MCModified == {<<>>, <<"k1">>, <<"s1">>, <<"k1", "s1">>, <<"s1", "k1">>}
MCNoModify == {<<>>}

\* INSERTs that add entries at the same time, or one merge or VACUUM.
MCTogether    == {Adders \cup {r1}, Maintainers \cup Readers}
MCAllTogether == {Proc}
=============================================================================
