------------------------- MODULE ParallelScanProofs -------------------------
(***************************************************************************)
(* NeverTwice and ScanComplete for any number of workers, segments and     *)
(* rescans, in the custom scan and in the index access method.             *)
(***************************************************************************)
EXTENDS ParallelScan, TLAPS

PCs == {"off", "starting", "claiming", "running", "done"}

LEMMA InitClaim == Init => TypeOK /\ ClaimInv
BY ParallelAssumption DEF Init, TypeOK, ClaimInv, Unscanned, NeverTwice, Fresh, Segment, None, Proc

\* A process that claims was launched and has nothing in hand; only a leader
\* in amrescan is still to assign or to claim, and it is not the claimer.
ClaimStepOf(p) ==
  /\ hand[p] = None /\ pc[p] # "off"
  /\ Claim(p)
  /\ UNCHANGED <<method, scan, left, scanned>>
  /\ pc' \in [Proc -> PCs]
  /\ \A q \in Proc : pc'[q] \in {"starting", "claiming"} => q # p /\ pc[q] = pc'[q]

\* Claiming the highest unclaimed segment keeps the shares disjoint.
LEMMA ClaimStep ==
  ASSUME TypeOK, ClaimInv, NEW p \in Proc, ClaimStepOf(p)
  PROVE  TypeOK' /\ ClaimInv'
<1>1. /\ remaining \in 0..NumSegments /\ NumSegments \in Nat
      /\ left \in 0..NumSegments
      /\ \A q \in Proc : hand[q] \in 0..NumSegments
  BY ParallelAssumption DEF TypeOK
<1>2. /\ hand[p] = None /\ pc[p] # "off" /\ Claim(p)
      /\ UNCHANGED <<method, scan, left, scanned>>
      /\ pc' \in [Proc -> PCs]
      /\ \A q \in Proc : pc'[q] \in {"starting", "claiming"} => q # p /\ pc[q] = pc'[q]
  BY DEF ClaimStepOf
<1>3. /\ remaining' \in 0..NumSegments
      /\ hand' \in [Proc -> 0..NumSegments]
      /\ remaining' <= remaining
      /\ hand'[p] = remaining
      /\ \A q \in Proc : q # p => hand'[q] = hand[q]
      /\ remaining # 0 => remaining' < remaining
  BY <1>1, <1>2 DEF Claim, TypeOK
<1>4. TypeOK'
  BY <1>2, <1>3 DEF TypeOK, PCs
<1>5. /\ \A q \in Proc : Fresh(hand[q])' <=> Fresh(hand'[q])
      /\ \A s \in Segment : Fresh(s)' <=> Fresh(s)
  BY <1>2 DEF Fresh
<1>6. ASSUME NEW q \in Proc, hand'[q] # None, Fresh(hand'[q])
      PROVE  hand'[q] > remaining' /\ scanned'[hand'[q]] = 0
  <2>1. CASE q = p
    <3>1. remaining \in Segment /\ Fresh(remaining)
      BY <1>1, <1>3, <1>5, <1>6, <2>1 DEF Segment, None
    <3> QED BY <1>1, <1>2, <1>3, <1>6, <2>1, <3>1 DEF ClaimInv, None
  <2>2. CASE q # p
    <3>1. hand'[q] = hand[q] /\ Fresh(hand[q])
      BY <1>1, <1>3, <1>5, <1>6, <2>2
    <3> QED BY <1>1, <1>2, <1>3, <1>6, <3>1 DEF ClaimInv
  <2> QED BY <2>1, <2>2
<1>7. ASSUME NEW q \in Proc, NEW r \in Proc, hand'[q] # None, hand'[q] = hand'[r], Fresh(hand'[q])
      PROVE  q = r
  <2>1. CASE q = p /\ r # p
    <3>1. hand[r] = remaining /\ Fresh(hand[r]) /\ hand[r] # None
      BY <1>1, <1>3, <1>5, <1>7, <2>1
    <3> QED BY <1>1, <3>1 DEF ClaimInv
  <2>2. CASE r = p /\ q # p
    <3>1. hand[q] = remaining /\ Fresh(hand[q]) /\ hand[q] # None
      BY <1>1, <1>3, <1>5, <1>7, <2>2
    <3> QED BY <1>1, <3>1 DEF ClaimInv
  <2>3. CASE q # p /\ r # p
    <3>1. hand[q] = hand[r] /\ Fresh(hand[q]) /\ hand[q] # None
      BY <1>1, <1>3, <1>5, <1>7, <2>3
    <3> QED BY <3>1 DEF ClaimInv
  <2> QED BY <2>1, <2>2, <2>3
<1>8. ASSUME NEW s \in Segment, s <= remaining', Fresh(s)' PROVE scanned'[s] = 0
  <2>1. Fresh(s) /\ s <= remaining
    BY <1>1, <1>3, <1>5, <1>8 DEF Segment
  <2> QED BY <1>2, <2>1 DEF ClaimInv
<1>9. \A q \in Proc : pc'[q] \in {"starting", "claiming"} => hand'[q] = None
  BY <1>2, <1>3 DEF ClaimInv
<1>10. ASSUME pc'[Leader] = "starting"
       PROVE  /\ method' = "index" /\ remaining' <= left'
              /\ \A q \in Proc : hand'[q] <= left'
              /\ \A s \in Segment : s > left' => scanned'[s] = 0
  <2>1. pc[Leader] = "starting"
    BY <1>2, <1>10 DEF Proc
  <2>2. remaining <= left /\ method = "index" /\ (\A q \in Proc : hand[q] <= left)
    BY <2>1 DEF ClaimInv
  <2>3. remaining' <= left
    BY <1>1, <1>3, <2>2
  <2>4. \A q \in Proc : hand'[q] <= left
    BY <1>1, <1>3, <2>2
  <2> QED BY <1>2, <2>1, <2>2, <2>3, <2>4 DEF ClaimInv
<1>11. scan' # 0
  BY <1>2 DEF ClaimInv, Unscanned
<1>12. NeverTwice'
  BY <1>2 DEF ClaimInv, NeverTwice
<1> QED BY <1>4, <1>5, <1>6, <1>7, <1>8, <1>9, <1>10, <1>11, <1>12 DEF ClaimInv

\* With nothing returned, and nobody but the leader's hand above what remains,
\* the shares are disjoint.
LEMMA LaunchClaim ==
  ASSUME TypeOK', scan' # 0,
         \A p \in Proc : pc'[p] \in {"starting", "claiming"} => hand'[p] = None,
         \A p \in Proc : hand'[p] # None => p = Leader /\ hand'[p] > remaining',
         \A s \in Segment : scanned'[s] = 0,
         pc'[Leader] = "starting" => /\ method' = "index" /\ remaining' <= left'
                                     /\ \A p \in Proc : hand'[p] = None
  PROVE  ClaimInv'
<1>1. \A p \in Proc : hand'[p] # None => hand'[p] \in Segment
  BY ParallelAssumption DEF TypeOK, Segment, None
<1>2. pc'[Leader] = "starting" => \A p \in Proc : hand'[p] <= left'
  BY ParallelAssumption DEF TypeOK, None
<1>3. NeverTwice'
  BY DEF NeverTwice
<1> QED BY <1>1, <1>2, <1>3 DEF ClaimInv

LEMMA NextClaim == TypeOK /\ ClaimInv /\ [Next]_vars => TypeOK' /\ ClaimInv'
<1> SUFFICES ASSUME TypeOK, ClaimInv, [Next]_vars PROVE TypeOK' /\ ClaimInv'
  OBVIOUS
<1>0. /\ NumSegments \in Nat \ {0} /\ remaining \in 0..NumSegments /\ MaxScans \in Nat
      /\ left \in 0..NumSegments /\ scan \in 0..MaxScans
  BY ParallelAssumption DEF TypeOK
<1>1. CASE FirstScan
  <2>1. /\ scan = 0 /\ scan < MaxScans /\ scan' = 1
        /\ UNCHANGED <<method, leads, left, scanned>>
    BY <1>1 DEF FirstScan
  <2>2. PICK launched \in SUBSET Workers, late \in BOOLEAN :
          /\ late => method = "index"
          /\ Launched(launched, late)
          /\ remaining' = IF late THEN 0
                          ELSE IF method = "index" THEN NumSegments - 1 ELSE NumSegments
          /\ hand' = IF method = "index" /\ ~late
                     THEN [hand EXCEPT ![Leader] = NumSegments] ELSE hand
    BY <1>1 DEF FirstScan
  <2>3. Unscanned
    BY <2>1 DEF ClaimInv
  <2>4. pc' \in [Proc -> PCs]
    BY <2>2 DEF Launched, PCs
  <2>5. remaining' \in 0..NumSegments
    BY <1>0, <2>2
  <2>6. /\ hand' \in [Proc -> 0..NumSegments]
        /\ \A p \in Proc : hand'[p] # None =>
             p = Leader /\ hand'[p] > remaining' /\ method = "index" /\ ~late
    <3>1. CASE method = "index" /\ ~late
      <4>1. hand' = [hand EXCEPT ![Leader] = NumSegments] /\ remaining' = NumSegments - 1
        BY <2>2, <3>1
      <4>2. /\ hand' \in [Proc -> 0..NumSegments]
            /\ \A p \in Proc : hand'[p] # None => p = Leader /\ hand'[p] > remaining'
        <5>0. hand \in [Proc -> 0..NumSegments] /\ NumSegments \in 0..NumSegments
          BY <1>0 DEF TypeOK
        <5>1. /\ hand' \in [Proc -> 0..NumSegments]
              /\ \A p \in Proc : hand'[p] = IF p = Leader THEN NumSegments ELSE hand[p]
          BY <4>1, <5>0
        <5>2. \A p \in Proc : hand[p] = None
          BY <2>3 DEF Unscanned
        <5>3. NumSegments > remaining'
          BY <1>0, <4>1
        <5> QED BY <5>1, <5>2, <5>3
      <4> QED BY <3>1, <4>2
    <3>2. CASE ~(method = "index" /\ ~late)
      <4>1. hand' = hand
        BY <2>2, <3>2
      <4> QED BY <2>3, <4>1 DEF Unscanned, TypeOK
    <3> QED BY <3>1, <3>2
  <2>7. TypeOK'
    BY <1>0, <2>1, <2>4, <2>5, <2>6 DEF TypeOK, PCs
  <2>8. Leader \in Proc /\ Leader \notin launched
    BY ParallelAssumption DEF Proc
  <2>9. /\ \A p \in Proc : pc'[p] \in {"starting", "claiming"} => p # Leader \/ late
        /\ pc'[Leader] = "starting" => late
    BY <2>2, <2>8 DEF Launched
  <2>10. \A p \in Proc : pc'[p] \in {"starting", "claiming"} => hand'[p] = None
    BY <2>6, <2>9
  <2>11. pc'[Leader] = "starting" => /\ method' = "index" /\ remaining' <= left'
                                     /\ \A p \in Proc : hand'[p] = None
    BY <1>0, <2>1, <2>2, <2>6, <2>9
  <2>12. \A s \in Segment : scanned'[s] = 0
    BY <2>1, <2>3 DEF Unscanned
  <2> QED BY <2>1, <2>6, <2>7, <2>10, <2>11, <2>12, LaunchClaim
<1>2. CASE Rescan
  <2>1. /\ scan > 0 /\ scan < MaxScans /\ scan' = scan + 1
        /\ hand' = [p \in Proc |-> IF p = Leader /\ method = "custom" THEN hand[p] ELSE None]
        /\ left' = remaining
        /\ scanned' = [s \in Segment |-> 0]
        /\ UNCHANGED <<method, leads, remaining>>
    BY <1>2 DEF Rescan
  <2>2. PICK launched \in SUBSET Workers : Launched(launched, method = "index")
    BY <1>2 DEF Rescan
  <2>3. pc' \in [Proc -> PCs]
    BY <2>2 DEF Launched, PCs
  <2>4. hand' \in [Proc -> 0..NumSegments]
    BY <1>0, <2>1 DEF TypeOK, None
  <2>5. TypeOK' /\ scan' # 0
    BY <1>0, <2>1, <2>3, <2>4 DEF TypeOK, PCs
  <2>6. Leader \in Proc /\ Leader \notin launched
    BY ParallelAssumption DEF Proc
  <2>7. /\ \A p \in Proc : pc'[p] \in {"starting", "claiming"} => p # Leader \/ method = "index"
        /\ pc'[Leader] = "starting" => method = "index"
    BY <2>2, <2>6 DEF Launched
  <2>8. \A p \in Proc : hand'[p] # None => p = Leader /\ method = "custom" /\ hand'[p] = hand[p]
    BY <2>1
  <2>9. \A p \in Proc : hand'[p] # None => p = Leader /\ hand'[p] > remaining'
    <3> SUFFICES ASSUME NEW p \in Proc, hand'[p] # None
                 PROVE  p = Leader /\ hand'[p] > remaining'
      OBVIOUS
    <3>1. Fresh(hand[p])
      BY <2>8 DEF Fresh
    <3> QED BY <2>1, <2>8, <3>1 DEF ClaimInv
  <2>10. \A p \in Proc : pc'[p] \in {"starting", "claiming"} => hand'[p] = None
    BY <2>7, <2>8
  <2>11. pc'[Leader] = "starting" => /\ method' = "index" /\ remaining' <= left'
                                     /\ \A p \in Proc : hand'[p] = None
    BY <1>0, <2>1, <2>7, <2>8
  <2>12. \A s \in Segment : scanned'[s] = 0
    BY <2>1
  <2> QED BY <2>5, <2>9, <2>10, <2>11, <2>12, LaunchClaim
<1>3. CASE AssignSegmentIds
  <2>1. /\ pc[Leader] = "starting" /\ remaining' = NumSegments
        /\ pc' = [pc EXCEPT ![Leader] = "claiming"]
        /\ UNCHANGED <<method, leads, hand, scan, left, scanned>>
        /\ Leader \in Proc
    BY <1>3 DEF AssignSegmentIds, Proc
  <2>2. TypeOK'
    BY <1>0, <2>1 DEF TypeOK
  <2>3. /\ \A p \in Proc : hand[p] <= left
        /\ \A s \in Segment : s > left => scanned[s] = 0
        /\ method = "index" /\ scan # 0
    BY <2>1 DEF ClaimInv, Unscanned
  <2>4. \A p \in Proc : ~Fresh(hand[p])
    BY <1>0, <2>3 DEF Fresh, TypeOK
  <2>5. \A i : Fresh(i)' <=> Fresh(i)
    BY <2>1 DEF Fresh
  <2>6. \A s \in Segment : Fresh(s) => scanned[s] = 0
    BY <2>3 DEF Fresh
  <2>7. pc'[Leader] # "starting" /\ \A p \in Proc : pc'[p] \in {"starting", "claiming"} => hand'[p] = None
    BY <2>1 DEF ClaimInv, TypeOK
  <2>8. NeverTwice'
    BY <2>1 DEF ClaimInv, NeverTwice
  <2> QED BY <2>1, <2>2, <2>3, <2>4, <2>5, <2>6, <2>7, <2>8 DEF ClaimInv
<1>4. CASE LeaderClaims
  <2>1. ClaimStepOf(Leader) /\ Leader \in Proc
    BY <1>4 DEF LeaderClaims, ClaimStepOf, ClaimInv, TypeOK, Proc, PCs
  <2> QED BY <2>1, ClaimStep
<1>5. ASSUME NEW p \in Proc, StartWorker(p) PROVE TypeOK' /\ ClaimInv'
  <2>1. /\ hand[p] = None /\ pc[p] # "off" /\ UNCHANGED <<method, scan, left, scanned>>
        /\ pc' \in [Proc -> PCs]
        /\ \A q \in Proc : pc'[q] \in {"starting", "claiming"} => q # p /\ pc[q] = pc'[q]
    BY <1>5 DEF StartWorker, ClaimInv, TypeOK, PCs
  <2>2. CASE method = "index"
    BY <1>5, <2>1, <2>2, ClaimStep DEF StartWorker, ClaimStepOf
  <2>3. CASE method # "index"
    <3>1. UNCHANGED <<hand, remaining>>
      BY <1>5, <2>3 DEF StartWorker
    <3>2. scan # 0
      BY <2>1 DEF ClaimInv, Unscanned
    <3> QED BY <2>1, <2>3, <3>1, <3>2 DEF TypeOK, ClaimInv, NeverTwice, Fresh, PCs, Proc
  <2> QED BY <2>2, <2>3
<1>6. ASSUME NEW p \in Proc, ReturnRows(p) PROVE TypeOK' /\ ClaimInv'
  <2>1. hand[p] \in Segment /\ pc[p] = "running"
    BY <1>0, <1>6 DEF ReturnRows, TypeOK, Segment, None
  <2>2. /\ scanned' = [scanned EXCEPT ![hand[p]] = IF @ < 2 THEN @ + 1 ELSE 2]
        /\ hand' = [hand EXCEPT ![p] = None]
        /\ UNCHANGED <<method, remaining, pc, scan, left>>
    BY <1>6 DEF ReturnRows
  <2>3. /\ scanned' \in [Segment -> 0..2]
        /\ \A s \in Segment : s # hand[p] => scanned'[s] = scanned[s]
        /\ scanned[hand[p]] = 0 => scanned'[hand[p]] = 1
    BY <2>1, <2>2 DEF TypeOK
  <2>4. TypeOK'
    BY <1>0, <2>2, <2>3 DEF TypeOK, None
  <2>5. \A i : Fresh(i)' <=> Fresh(i)
    BY <2>2 DEF Fresh
  <2>6. Fresh(hand[p]) => scanned[hand[p]] = 0 /\ hand[p] > remaining
    BY <1>6 DEF ReturnRows, ClaimInv
  <2>7. \A q \in Proc : hand'[q] # None => q # p /\ hand'[q] = hand[q]
    BY <2>2 DEF TypeOK
  <2>8. \A q \in Proc : hand'[q] # None /\ Fresh(hand'[q]) => hand[q] # hand[p] /\ hand[q] \in Segment
    BY <1>0, <1>6, <2>7 DEF ReturnRows, ClaimInv, TypeOK, Segment, None
  <2>9. \A q \in Proc : hand'[q] # None /\ Fresh(hand'[q]) => hand'[q] > remaining' /\ scanned'[hand'[q]] = 0
    BY <2>2, <2>3, <2>7, <2>8 DEF ClaimInv
  <2>10. \A q, r \in Proc : hand'[q] # None /\ hand'[q] = hand'[r] /\ Fresh(hand'[q]) => q = r
    BY <2>7 DEF ClaimInv
  <2>11. ASSUME NEW s \in Segment, s <= remaining', Fresh(s) PROVE scanned'[s] = 0
    <3>1. s # hand[p]
      BY <1>0, <2>1, <2>2, <2>6, <2>11 DEF Segment
    <3> QED BY <2>2, <2>3, <2>11, <3>1 DEF ClaimInv
  <2>12. ASSUME NEW s \in Segment, scanned'[s] > 1 PROVE method' = "index" /\ s <= left'
    <3>1. CASE s # hand[p]
      BY <2>2, <2>3, <2>12, <3>1 DEF ClaimInv, NeverTwice
    <3>2. CASE s = hand[p]
      <4>1. ~Fresh(s)
        BY <2>3, <2>6, <2>12, <3>2
      <4> QED BY <1>0, <2>2, <4>1 DEF Fresh, Segment
    <3> QED BY <3>1, <3>2
  <2>13. \A q \in Proc : pc'[q] \in {"starting", "claiming"} => hand'[q] = None
    BY <2>2, <2>7 DEF ClaimInv
  <2>14. scan' # 0
    BY <2>1, <2>2 DEF ClaimInv, Unscanned
  <2>15. ASSUME pc'[Leader] = "starting"
         PROVE  /\ method' = "index" /\ remaining' <= left'
                /\ \A q \in Proc : hand'[q] <= left'
                /\ \A s \in Segment : s > left' => scanned'[s] = 0
    <3>1. /\ method = "index" /\ remaining <= left
          /\ \A q \in Proc : hand[q] <= left
          /\ \A s \in Segment : s > left => scanned[s] = 0
      BY <2>2, <2>15 DEF ClaimInv
    <3>2. \A s \in Segment : s > left => s # hand[p]
      BY <1>0, <2>1, <3>1 DEF Segment
    <3>3. \A q \in Proc : hand'[q] <= left
      BY <1>0, <2>2, <3>1 DEF TypeOK, None
    <3> QED BY <2>2, <2>3, <3>1, <3>2, <3>3
  <2>16. NeverTwice'
    BY <2>12 DEF NeverTwice
  <2> QED BY <2>4, <2>5, <2>9, <2>10, <2>11, <2>13, <2>14, <2>15, <2>16 DEF ClaimInv
<1>7. ASSUME NEW p \in Proc, QuerySegment(p) PROVE TypeOK' /\ ClaimInv'
  <2>1. ClaimStepOf(p)
    BY <1>7 DEF QuerySegment, ClaimStepOf, TypeOK, PCs
  <2> QED BY <2>1, ClaimStep
<1>8. CASE UNCHANGED vars
  BY <1>8 DEF vars, TypeOK, ClaimInv, Unscanned, NeverTwice, Fresh
<1> QED BY <1>1, <1>2, <1>3, <1>4, <1>5, <1>6, <1>7, <1>8 DEF Next, ProcStep, LeaderRescan

\* However many processes share a parallel scan, whichever of them start, and
\* whenever it is rescanned, no segment's rows are returned twice in one scan,
\* but for the segments an unfinished scan of the access method left over
\* (checkout_segment, maybe_claim_segment, maybe_init_parallel_scan).
THEOREM SegmentsClaimedOnce == Spec => []NeverTwice
<1>1. ClaimInv => NeverTwice
  BY DEF ClaimInv
<1> QED BY <1>1, InitClaim, NextClaim, PTL DEF Spec

-----------------------------------------------------------------------------
Covered == \A s \in Segment : s > remaining => scanned[s] >= 1 \/ \E q \in Proc : hand[q] = s

\* Claiming covers the highest unclaimed segment by the claimer's hand, which
\* was empty.
LEMMA ClaimCovers ==
  ASSUME TypeOK, NEW p \in Proc, hand[p] = None, Claim(p), UNCHANGED scanned, Covered
  PROVE  Covered'
<1>1. /\ remaining \in Nat /\ NumSegments \in Nat
      /\ remaining' = IF remaining = 0 THEN 0 ELSE remaining - 1
      /\ hand'[p] = remaining
      /\ \A q \in Proc : q # p => hand'[q] = hand[q]
  BY ParallelAssumption DEF Claim, TypeOK
<1> SUFFICES ASSUME NEW s \in Segment, s > remaining'
             PROVE  scanned'[s] >= 1 \/ \E q \in Proc : hand'[q] = s
  BY DEF Covered
<1>2. s \in Nat /\ s # None
  BY DEF Segment, None
<1>3. CASE s = remaining
  BY <1>1, <1>3
<1>4. CASE s # remaining
  <2>1. s > remaining
    BY <1>1, <1>2, <1>4
  <2>2. CASE scanned[s] >= 1
    BY <2>2
  <2>3. CASE \E q \in Proc : hand[q] = s
    <3>1. PICK q \in Proc : hand[q] = s
      BY <2>3
    <3> QED BY <1>1, <1>2, <3>1
  <2> QED BY <2>1, <2>2, <2>3 DEF Covered
<1> QED BY <1>3, <1>4

\* A claim keeps the cover; a process that claims does not go off.
LEMMA ClaimKeepsCover ==
  ASSUME TypeOK, CoverInv, NEW p \in Proc, ClaimStepOf(p), Covers' => Covers,
         \A q \in Proc : q # p => pc'[q] = pc[q],
         pc'[p] \in {"running", "done"},
         pc'[p] = "done" => remaining = 0
  PROVE  CoverInv'
<1>1. /\ hand[p] = None /\ Claim(p) /\ UNCHANGED <<method, scan, scanned>>
  BY DEF ClaimStepOf
<1>2. /\ remaining = 0 => remaining' = 0
      /\ hand'[p] = remaining
      /\ \A q \in Proc : q # p => hand'[q] = hand[q]
  BY <1>1 DEF Claim, TypeOK
<1>3. Covers' => Covered'
  BY <1>1, ClaimCovers DEF CoverInv, Covered
<1>4. \A q \in Proc : pc'[q] = "done" => hand'[q] = None
  BY <1>2 DEF CoverInv, None
<1>5. \A q \in Proc : pc'[q] = "off" /\ hand'[q] # None => q = Leader /\ ~Covers'
  BY <1>2 DEF CoverInv
<1>6. \E q \in Proc : pc'[q] # "off"
  OBVIOUS
<1>7. pc'[Leader] = "done" => remaining' = 0
  BY <1>2 DEF CoverInv, Proc
<1>8. method' = "custom" => \A q \in Proc : pc'[q] = "done" => remaining' = 0
  BY <1>1, <1>2 DEF CoverInv
<1> QED BY <1>3, <1>4, <1>5, <1>6, <1>7, <1>8 DEF CoverInv, Covered

\* A launch leaves someone to run the plan.
LEMMA LaunchRuns ==
  ASSUME NEW launched \in SUBSET Workers, NEW late, Launched(launched, late)
  PROVE  /\ \E p \in Proc : pc'[p] # "off"
         /\ \A p \in Proc : pc'[p] # "done"
<1>1. \A p \in Proc : pc'[p] # "done"
  BY DEF Launched
<1>2. CASE launched = {}
  BY <1>1, <1>2 DEF Launched, Proc
<1>3. CASE launched # {}
  <2>1. PICK w \in launched : TRUE
    BY <1>3
  <2>2. w \in Proc /\ pc'[w] = "starting"
    BY <2>1 DEF Launched, Proc
  <2> QED BY <1>1, <2>2
<1> QED BY <1>2, <1>3

LEMMA NextCovers ==
  TypeOK /\ ClaimInv /\ CoverInv /\ [Next]_vars => CoverInv'
<1> SUFFICES ASSUME TypeOK, ClaimInv, CoverInv, [Next]_vars PROVE CoverInv'
  OBVIOUS
<1>0. /\ NumSegments \in Nat \ {0} /\ remaining \in 0..NumSegments /\ scan \in Nat
      /\ Leader \in Proc
  BY ParallelAssumption DEF TypeOK, Proc
<1>1. CASE FirstScan
  <2>1. scan = 0 /\ scan' = 1 /\ UNCHANGED <<method, scanned>>
    BY <1>1 DEF FirstScan
  <2>2. PICK launched \in SUBSET Workers, late \in BOOLEAN :
          /\ late => method = "index"
          /\ Launched(launched, late)
          /\ remaining' = IF late THEN 0
                          ELSE IF method = "index" THEN NumSegments - 1 ELSE NumSegments
          /\ hand' = IF method = "index" /\ ~late
                     THEN [hand EXCEPT ![Leader] = NumSegments] ELSE hand
    BY <1>1 DEF FirstScan
  <2>3. /\ \E p \in Proc : pc'[p] # "off"
        /\ \A p \in Proc : pc'[p] # "done"
    BY <2>2, LaunchRuns
  <2>4. \A p \in Proc : hand[p] = None
    BY <2>1 DEF ClaimInv, Unscanned
  <2>5. Leader \notin launched
    BY ParallelAssumption
  <2>6. /\ \A p \in Proc : hand'[p] # None => p = Leader /\ method = "index"
        /\ Covers' => Covered'
    <3>1. CASE method = "index" /\ ~late
      <4>1. hand' = [hand EXCEPT ![Leader] = NumSegments] /\ remaining' = NumSegments - 1
        BY <2>2, <3>1
      <4>2. hand'[Leader] = NumSegments
        BY <1>0, <4>1 DEF TypeOK
      <4>3. \A s \in Segment : s > remaining' => s = NumSegments
        BY <1>0, <4>1 DEF Segment
      <4>4. Covered'
        BY <1>0, <4>2, <4>3 DEF Covered
      <4>5. \A p \in Proc : hand'[p] # None => p = Leader
        BY <2>4, <4>1 DEF TypeOK
      <4> QED BY <3>1, <4>4, <4>5
    <3>2. CASE method = "index" /\ late
      <4>1. hand' = hand
        BY <2>2, <3>2
      <4>2. pc'[Leader] \in {"starting", "off"}
        BY <1>0, <2>2, <2>5, <3>2 DEF Launched
      <4>3. ~Covers'
        BY <2>1, <3>2, <4>2 DEF Covers
      <4> QED BY <2>4, <4>1, <4>3
    <3>3. CASE method # "index"
      <4>1. hand' = hand /\ remaining' = NumSegments
        BY <2>2, <3>3
      <4>2. Covered'
        BY <1>0, <4>1 DEF Covered, Segment
      <4> QED BY <2>4, <4>1, <4>2
    <3> QED BY <3>1, <3>2, <3>3
  <2>7. \A p \in Proc : pc'[p] = "off" /\ hand'[p] # None => p = Leader /\ ~Covers'
    BY <2>1, <2>6 DEF Covers
  <2> QED BY <1>0, <2>3, <2>6, <2>7 DEF CoverInv, Covered
<1>2. CASE Rescan
  <2>1. /\ scan > 0 /\ scan' = scan + 1 /\ method' = method
        /\ hand' = [p \in Proc |-> IF p = Leader /\ method = "custom" THEN hand[p] ELSE None]
    BY <1>2 DEF Rescan
  <2>2. PICK launched \in SUBSET Workers : Launched(launched, method = "index")
    BY <1>2 DEF Rescan
  <2>3. /\ \E p \in Proc : pc'[p] # "off"
        /\ \A p \in Proc : pc'[p] # "done"
    BY <2>2, LaunchRuns
  <2>4. Leader \notin launched
    BY ParallelAssumption
  <2>5. method = "index" => pc'[Leader] \in {"starting", "off"}
    BY <1>0, <2>2, <2>4 DEF Launched
  <2>6. ~Covers'
    BY <1>0, <2>1, <2>5 DEF Covers
  <2>7. \A p \in Proc : hand'[p] # None => p = Leader
    BY <2>1
  <2> QED BY <1>0, <2>3, <2>6, <2>7 DEF CoverInv
<1>3. CASE AssignSegmentIds
  <2>1. /\ pc[Leader] = "starting" /\ remaining' = NumSegments
        /\ pc' = [pc EXCEPT ![Leader] = "claiming"]
        /\ UNCHANGED <<method, hand, scan, scanned>>
    BY <1>3 DEF AssignSegmentIds
  <2>2. method = "index"
    BY <2>1 DEF ClaimInv
  <2>3. Covered'
    BY <1>0, <2>1 DEF Covered, Segment
  <2>4. /\ pc'[Leader] = "claiming"
        /\ \A p \in Proc : p # Leader => pc'[p] = pc[p]
    BY <1>0, <2>1 DEF TypeOK
  <2> QED BY <1>0, <2>1, <2>2, <2>3, <2>4 DEF CoverInv, Covered
<1>4. CASE LeaderClaims
  <2>1. /\ pc[Leader] = "claiming" /\ Claim(Leader)
        /\ pc' = [pc EXCEPT ![Leader] = "running"]
        /\ UNCHANGED <<method, scan, left, scanned>>
    BY <1>4 DEF LeaderClaims
  <2>2. ClaimStepOf(Leader)
    BY <1>0, <2>1 DEF ClaimStepOf, ClaimInv, TypeOK, PCs
  <2>3. /\ pc'[Leader] = "running"
        /\ \A q \in Proc : q # Leader => pc'[q] = pc[q]
    BY <1>0, <2>1 DEF TypeOK
  <2>4. Covers' => Covers
    BY <2>1 DEF Covers
  <2> QED BY <1>0, <2>2, <2>3, <2>4, ClaimKeepsCover
<1>5. ASSUME NEW p \in Proc, StartWorker(p) PROVE CoverInv'
  <2>1. /\ pc[p] = "starting" /\ pc' = [pc EXCEPT ![p] = "running"] /\ hand[p] = None
        /\ p # Leader /\ UNCHANGED <<method, scan, left, scanned>>
    BY <1>5 DEF StartWorker, ClaimInv
  <2>2. /\ pc'[p] = "running"
        /\ \A q \in Proc : q # p => pc'[q] = pc[q]
    BY <2>1 DEF TypeOK
  <2>3. Covers' => Covers
    BY <1>0, <2>1, <2>2 DEF Covers
  <2>4. CASE method = "index"
    <3>1. ClaimStepOf(p)
      BY <1>5, <2>1, <2>4 DEF StartWorker, ClaimStepOf, TypeOK, PCs
    <3> QED BY <2>2, <2>3, <3>1, ClaimKeepsCover
  <2>5. CASE method # "index"
    <3>1. UNCHANGED <<hand, remaining>>
      BY <1>5, <2>5 DEF StartWorker
    <3>2. Covered' <=> Covered
      BY <2>1, <3>1 DEF Covered
    <3> QED BY <1>0, <2>1, <2>2, <2>3, <3>1, <3>2 DEF CoverInv, Covered
  <2> QED BY <2>4, <2>5
<1>6. ASSUME NEW p \in Proc, ReturnRows(p) PROVE CoverInv'
  <2>1. hand[p] \in Segment
    BY <1>0, <1>6 DEF ReturnRows, TypeOK, Segment, None
  <2>2. /\ scanned' = [scanned EXCEPT ![hand[p]] = IF @ < 2 THEN @ + 1 ELSE 2]
        /\ hand' = [hand EXCEPT ![p] = None]
        /\ UNCHANGED <<method, remaining, pc, scan>>
    BY <1>6 DEF ReturnRows
  <2>3. /\ scanned'[hand[p]] >= 1
        /\ \A s \in Segment : s # hand[p] => scanned'[s] = scanned[s]
    BY <2>1, <2>2 DEF TypeOK
  <2>4. \A q \in Proc : /\ hand'[q] # None => hand'[q] = hand[q]
                        /\ hand[q] = None => hand'[q] = None
                        /\ hand[q] # hand[p] => hand'[q] = hand[q]
    BY <2>2 DEF TypeOK
  <2>5. Covered => Covered'
    <3> SUFFICES ASSUME Covered, NEW s \in Segment, s > remaining
                 PROVE  scanned'[s] >= 1 \/ \E q \in Proc : hand'[q] = s
      BY <2>2 DEF Covered
    <3>1. CASE s = hand[p]
      BY <2>3, <3>1
    <3>2. CASE s # hand[p]
      <4>1. CASE scanned[s] >= 1
        BY <2>3, <3>2, <4>1
      <4>2. CASE \E q \in Proc : hand[q] = s
        <5>1. PICK q \in Proc : hand[q] = s
          BY <4>2
        <5>2. hand'[q] = s
          BY <2>4, <3>2, <5>1
        <5> QED BY <5>2
      <4> QED BY <4>1, <4>2 DEF Covered
    <3> QED BY <3>1, <3>2
  <2>6. Covers' <=> Covers
    BY <2>2 DEF Covers
  <2> QED BY <2>2, <2>4, <2>5, <2>6 DEF CoverInv, Covered
<1>7. ASSUME NEW p \in Proc, QuerySegment(p) PROVE CoverInv'
  <2>1. /\ pc[p] = "running" /\ UNCHANGED <<method, scan>>
        /\ pc' = [pc EXCEPT ![p] = IF remaining = 0 THEN "done" ELSE "running"]
    BY <1>7 DEF QuerySegment
  <2>2. ClaimStepOf(p)
    BY <1>7 DEF QuerySegment, ClaimStepOf, TypeOK, PCs
  <2>3. /\ pc'[p] = IF remaining = 0 THEN "done" ELSE "running"
        /\ \A q \in Proc : q # p => pc'[q] = pc[q]
    BY <2>1 DEF TypeOK
  <2>4. Covers' => Covers
    BY <1>0, <2>1, <2>3 DEF Covers
  <2> QED BY <2>2, <2>3, <2>4, ClaimKeepsCover
<1>8. CASE UNCHANGED vars
  BY <1>8 DEF vars, CoverInv, Covers
<1> QED BY <1>1, <1>2, <1>3, <1>4, <1>5, <1>6, <1>7, <1>8 DEF Next, ProcStep, LeaderRescan

\* When every process of a parallel scan has reached its end, every segment's
\* rows were returned: whichever workers start and whenever, in the first scan
\* of a custom scan node (checkout_segment) and in every scan of the access
\* method in which the leader takes part (maybe_init_parallel_scan,
\* maybe_claim_segment), even one that interrupted another.
THEOREM NoSegmentMissed == Spec => []ScanComplete
<1>1. Init => CoverInv
  BY ParallelAssumption DEF Init, CoverInv, Covers, None, Proc
<1>2. TypeOK /\ CoverInv => ScanComplete
  <2> SUFFICES ASSUME TypeOK, CoverInv, Ended, scan > 0, method = "custom" => scan = 1,
                      method = "index" => pc[Leader] = "done",
                      NEW s \in Segment
               PROVE  scanned[s] >= 1
    BY DEF ScanComplete
  <2>1. Covers
    BY ParallelAssumption DEF Covers, TypeOK
  <2>2. remaining = 0
    BY ParallelAssumption DEF CoverInv, Ended, Idle, TypeOK
  <2>3. \A p \in Proc : hand[p] = None
    <3>1. method = "index" => pc[Leader] # "off"
      OBVIOUS
    <3> QED BY <2>1, <3>1 DEF CoverInv, Ended, Idle
  <2>4. s > remaining /\ s # None
    BY <2>2 DEF Segment, None
  <2> QED BY <2>1, <2>3, <2>4 DEF CoverInv
<1> QED BY <1>1, <1>2, InitClaim, NextClaim, NextCovers, PTL DEF Spec
=============================================================================
