---------------------------- MODULE ParallelScan ----------------------------
(***************************************************************************)
(* ParallelScanState: how the leader and the workers of a parallel query   *)
(* share out the segments of an index, in the custom scan                  *)
(* (customscan/pdbscan/parallel.rs, exec_methods/*.rs) and in the index    *)
(* access method (postgres/parallel.rs, postgres/scan.rs).                 *)
(*                                                                         *)
(* The two differ in when segments are claimed and assigned: the custom    *)
(* scan checks one out whenever it has no rows left and assigns them once, *)
(* the access method also claims in amrescan, and assigns them in every    *)
(* amrescan of the leader.  Segment s of the model is element s - 1 of     *)
(* segment_uuids.  The spinlock makes an assignment or a claim one step.   *)
(*                                                                         *)
(* The executor (Gather) is external: it may launch any number of workers, *)
(* the leader may not run the plan, and a node may be scanned again before *)
(* it was read to its end.  Then the workers are stopped, new ones are     *)
(* launched, and the leader's own amrescan runs when it first asks for a   *)
(* row, concurrently with theirs: amparallelrescan does nothing.           *)
(***************************************************************************)
EXTENDS Integers

CONSTANTS
  Workers, Leader,
  NumSegments,         \* segments the leader's reader opened
  Methods,             \* "custom": custom scan, "index": index access method
  MaxScans             \* bound: how often the node is (re)scanned

Proc    == Workers \cup {Leader}
Segment == 1..NumSegments
None    == 0

ASSUME ParallelAssumption ==
  /\ Leader \notin Workers
  /\ NumSegments \in Nat \ {0}
  /\ Methods \subseteq {"custom", "index"}
  /\ MaxScans \in Nat

VARIABLES
  method,     \* the kind of scan
  leads,      \* parallel_leader_participation: "on" or "off"
  remaining,  \* ParallelScanState.remaining_segments
  hand,       \* hand[p]: the segment p is to return rows from
  pc,         \* pc[p]: off, starting, claiming (leader), running or done
  scan,       \* how often the node has been scanned, this time included
  left,       \* history: remaining when this scan's workers were launched, 0 in the first
  scanned     \* scanned[s]: how often s was returned in this scan, up to 2

vars == <<method, leads, remaining, hand, pc, scan, left, scanned>>

Idle(p) == pc[p] \in {"off", "done"}
Ended   == \A p \in Proc : Idle(p)

Init ==
  /\ method \in Methods
  /\ leads \in {"on", "off"}
  /\ remaining = 0
  /\ hand = [p \in Proc |-> None]
  /\ pc = [p \in Proc |-> "off"]
  /\ scan = 0
  /\ left = 0
  /\ scanned = [s \in Segment |-> 0]

\* Gather launches workers, and runs the plan itself if it participates or
\* has no worker.  A leader that is late still has to run amrescan.
Launched(launched, late) ==
  pc' = [p \in Proc |->
           IF p \in launched THEN "starting"
           ELSE IF p = Leader /\ (leads = "on" \/ launched = {})
                THEN IF late THEN "starting" ELSE "running"
           ELSE "off"]

\* The first scan.  initialize_dsm_custom_scan assigns the segment ids before
\* the launch; so does the leader's amrescan, which goes on to claim the last,
\* unless a scan key is only known at run time (late): amrescan is then left
\* to the first fetch, and the shared memory is still zero.
FirstScan ==
  /\ scan = 0 /\ scan < MaxScans
  /\ scan' = 1
  /\ \E launched \in SUBSET Workers, late \in BOOLEAN :
       /\ late => method = "index"
       /\ Launched(launched, late)
       /\ remaining' = IF late THEN 0
                       ELSE IF method = "index" THEN NumSegments - 1 ELSE NumSegments
       /\ hand' = IF method = "index" /\ ~late
                  THEN [hand EXCEPT ![Leader] = NumSegments] ELSE hand
  /\ UNCHANGED <<method, leads, left, scanned>>

\* A rescan, at any time: reinitialize_dsm_custom_scan and amparallelrescan
\* change nothing.  The leader's exec method keeps its rows (rescan_custom_scan
\* only calls init); amrescan will replace them.
Rescan ==
  /\ scan > 0 /\ scan < MaxScans
  /\ scan' = scan + 1
  /\ \E launched \in SUBSET Workers : Launched(launched, method = "index")
  /\ hand' = [p \in Proc |-> IF p = Leader /\ method = "custom" THEN hand[p] ELSE None]
  /\ left' = remaining
  /\ scanned' = [s \in Segment |-> 0]
  /\ UNCHANGED <<method, leads, remaining>>

\* Mutants of Claim: remaining_segments is not decremented; it is decremented
\* twice.
ClaimStale(p) ==
  /\ hand' = [hand EXCEPT ![p] = remaining]
  /\ UNCHANGED remaining

ClaimSkips(p) ==
  /\ hand' = [hand EXCEPT ![p] = remaining]
  /\ remaining' = IF remaining <= 1 THEN 0 ELSE remaining - 2

\* checkout_segment, maybe_claim_segment: None when nothing remains.
Claim(p) ==
  /\ hand' = [hand EXCEPT ![p] = remaining]
  /\ remaining' = IF remaining = 0 THEN 0 ELSE remaining - 1

\* A worker comes up: initialize_worker_custom_scan, or its own amrescan.
StartWorker(p) ==
  /\ pc[p] = "starting" /\ p # Leader
  /\ pc' = [pc EXCEPT ![p] = "running"]
  /\ IF method = "index" THEN Claim(p) ELSE UNCHANGED <<hand, remaining>>
  /\ UNCHANGED <<method, leads, scan, left, scanned>>

\* maybe_init_parallel_scan, in the leader's late amrescan.
AssignSegmentIds ==
  /\ pc[Leader] = "starting"
  /\ remaining' = NumSegments
  /\ pc' = [pc EXCEPT ![Leader] = "claiming"]
  /\ UNCHANGED <<method, leads, hand, scan, left, scanned>>

\* The same amrescan, once it has the spinlock again.
LeaderClaims ==
  /\ pc[Leader] = "claiming"
  /\ Claim(Leader)
  /\ pc' = [pc EXCEPT ![Leader] = "running"]
  /\ UNCHANGED <<method, leads, scan, left, scanned>>

\* The rows of the segment in hand are returned.
ReturnRows(p) ==
  /\ pc[p] = "running" /\ hand[p] # None
  /\ scanned' = [scanned EXCEPT ![hand[p]] = IF @ < 2 THEN @ + 1 ELSE 2]
  /\ hand' = [hand EXCEPT ![p] = None]
  /\ UNCHANGED <<method, leads, remaining, pc, scan, left>>

\* ExecMethod::query, search_next_segment: no rows left, so claim again; with
\* nothing to claim the process has reached the end of its scan.
QuerySegment(p) ==
  /\ pc[p] = "running" /\ hand[p] = None
  /\ Claim(p)
  /\ pc' = [pc EXCEPT ![p] = IF remaining = 0 THEN "done" ELSE "running"]
  /\ UNCHANGED <<method, leads, scan, left, scanned>>

LeaderRescan == AssignSegmentIds \/ LeaderClaims

ProcStep(p) == StartWorker(p) \/ ReturnRows(p) \/ QuerySegment(p)

Next == FirstScan \/ Rescan \/ LeaderRescan \/ \E p \in Proc : ProcStep(p)

Spec == Init /\ [][Next]_vars

\* Every process of a query keeps running until it is done.
FairSpec == Spec /\ WF_vars(LeaderRescan) /\ \A p \in Proc : WF_vars(ProcStep(p))

-----------------------------------------------------------------------------
\* Types; remaining_segments never leaves the range of the segment array.
TypeOK ==
  /\ method \in Methods
  /\ remaining \in 0..NumSegments
  /\ hand \in [Proc -> 0..NumSegments]
  /\ pc \in [Proc -> {"off", "starting", "claiming", "running", "done"}]
  /\ scan \in 0..MaxScans
  /\ left \in 0..NumSegments
  /\ scanned \in [Segment -> 0..2]

\* A segment's rows are never returned twice in one scan, by one process or
\* by two (maybe_claim_segment, checkout_segment under the spinlock), however
\* the workers' claims and the leader's assignment in amrescan interleave.
\* Only when a scan of the access method is started again before its segments
\* were all claimed can those that were left over come twice: a worker claims
\* one before the leader assigns them anew.
NeverTwice == \A s \in Segment : scanned[s] > 1 => method = "index" /\ s <= left

\* When every process has reached the end of its scan, the rows of every
\* segment were returned: in the first scan of a custom scan node, and in
\* every scan of the access method in which the leader, who alone assigns
\* segments in amrescan and claims one there, takes part.
ScanComplete ==
  /\ Ended /\ scan > 0
  /\ method = "custom" => scan = 1
  /\ method = "index" => pc[Leader] = "done"
  => \A s \in Segment : scanned[s] >= 1

\* Every scan ends: no process claims segments for ever.
ScansEnd == []<>Ended

-----------------------------------------------------------------------------
(* The inductive invariant behind NeverTwice: a segment that was not left   *)
(* over is unclaimed, in one process's hand, or returned; until the leader  *)
(* assigns the segments anew only the ones left over can be claimed.        *)
Fresh(s) == method = "index" => s > left

Unscanned ==
  /\ remaining = 0 /\ left = 0
  /\ \A p \in Proc : pc[p] = "off" /\ hand[p] = None
  /\ \A s \in Segment : scanned[s] = 0

ClaimInv ==
  /\ \A p \in Proc : pc[p] \in {"starting", "claiming"} => hand[p] = None
  /\ \A p \in Proc : hand[p] # None /\ Fresh(hand[p]) => hand[p] > remaining /\ scanned[hand[p]] = 0
  /\ \A p, q \in Proc : hand[p] # None /\ hand[p] = hand[q] /\ Fresh(hand[p]) => p = q
  /\ \A s \in Segment : s <= remaining /\ Fresh(s) => scanned[s] = 0
  /\ pc[Leader] = "starting" => /\ method = "index" /\ remaining <= left
                                /\ \A p \in Proc : hand[p] <= left
                                /\ \A s \in Segment : s > left => scanned[s] = 0
  /\ scan = 0 => Unscanned
  /\ NeverTwice

(* The inductive invariant behind ScanComplete: in a scan whose segments    *)
(* were assigned afresh, a segment is unclaimed, in the hand of a process   *)
(* that is running, or returned.                                            *)
Covers ==
  \/ method = "custom" /\ scan = 1
  \/ method = "index" /\ pc[Leader] \in {"claiming", "running", "done"}

CoverInv ==
  /\ \A p \in Proc : pc[p] = "done" => hand[p] = None
  /\ \A p \in Proc : pc[p] = "off" /\ hand[p] # None => p = Leader /\ ~Covers
  /\ method = "custom" => \A p \in Proc : pc[p] = "done" => remaining = 0
  /\ pc[Leader] = "done" => remaining = 0
  /\ scan > 0 => \E p \in Proc : pc[p] # "off"
  /\ Covers => \A s \in Segment : s > remaining => scanned[s] >= 1 \/ \E p \in Proc : hand[p] = s
=============================================================================
