---------------------------- MODULE FreezeLimit ----------------------------
(***************************************************************************)
(* vacuum_get_freeze_limit (storage/utils.rs) and the freezing of a        *)
(* SegmentMetaEntry's xmin or xmax, with transaction ids that wrap around  *)
(* as PostgreSQL's 32-bit ids do, after 2 * Half of them.                  *)
(*                                                                         *)
(* SegmentMetas counts transactions from the first one on and decides by   *)
(* plain arithmetic what to freeze.  Here its states are shifted: the      *)
(* cluster has used up `offset` ids before the index was created, and      *)
(* everything the code reads of an id is its remainder.                    *)
(***************************************************************************)
EXTENDS SegmentMetas, Integers

CONSTANT Half   \* half the number of TransactionIds: 2^31

Modulus == 2 * Half

FirstNormalTransactionId == 3

ASSUME HalfAssumption ==
  /\ Half \in Nat /\ Half > FirstNormalTransactionId
  /\ FreezeMinAge < Half /\ MaxXid + 1 < Half

Low(x)      == x % Modulus                                  \* as TransactionId
AsSigned(x) == IF x >= Half THEN x - Modulus ELSE x         \* as i32

TransactionIdIsNormal(x) == x >= FirstNormalTransactionId

TransactionIdPrecedes(x, y) ==
  IF TransactionIdIsNormal(x) /\ TransactionIdIsNormal(y)
  THEN AsSigned((x - y) % Modulus) < 0
  ELSE x < y

\* Mutant of VacuumGetFreezeLimit: the cap at oldest_xmin is forgotten.
UncappedFreezeLimit(next_xid, oldest_xmin) ==
  LET age == (next_xid - FreezeMinAge) % Modulus
  IN  IF FreezeMinAge > AsSigned(next_xid) THEN FirstNormalTransactionId
      ELSE IF TransactionIdIsNormal(age) THEN age ELSE FirstNormalTransactionId

VacuumGetFreezeLimit(next_xid, oldest_xmin) ==
  LET age   == (next_xid - FreezeMinAge) % Modulus
      limit == IF TransactionIdIsNormal(age) THEN age ELSE FirstNormalTransactionId
  IN  IF FreezeMinAge > AsSigned(next_xid) THEN FirstNormalTransactionId
      ELSE IF TransactionIdPrecedes(oldest_xmin, limit) THEN oldest_xmin ELSE limit

\* xmin_needs_freeze, xmax_needs_freeze
XidNeedsFreeze(x, freeze_limit) ==
  TransactionIdIsNormal(x) /\ TransactionIdPrecedes(x, freeze_limit)

\* GetOldestNonRemovableTransactionId
OldestNonRemovable == CHOOSE x \in Xid \cup {nextXid} :
  /\ ~PrecedesHorizon(x)
  /\ \A y \in Xid : y < x => PrecedesHorizon(y)

-----------------------------------------------------------------------------
\* What garbage_collect freezes, by the wrapping arithmetic, is what
\* SegmentMetas freezes: the ids behind the horizon of every snapshot and
\* older than the minimum age, and no other, wherever in the first half of
\* the id space the cluster is.  (From Half on `next_xid as i32` is
\* negative and the limit is FirstNormalTransactionId for good.)
FreezeExact ==
  LET ids    == BuildXid..(nextXid - 1)
      oldest == OldestNonRemovable
      frozen == {x \in ids : NeedsFreeze(x)}
  IN
  \A offset \in FirstNormalTransactionId - BuildXid .. Half - 1 - nextXid :
    LET limit == VacuumGetFreezeLimit(Low(nextXid + offset), Low(oldest + offset))
    IN  frozen = {x \in ids : XidNeedsFreeze(Low(x + offset), limit)}
=============================================================================
