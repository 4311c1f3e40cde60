------------------------ MODULE ChannelHandlerProofs ------------------------
(***************************************************************************)
(* Nothing of a segment is missing when its SaveMetas is handled, and      *)
(* commit returns with every SaveMetas handled, for every number of        *)
(* indexing threads and pages and every length of the channel.             *)
(***************************************************************************)
EXTENDS ChannelHandler, FiniteSetTheorems, TLAPS

\* The backend handles, or will handle, what is in the channel.
Live == backend \notin {"dropping", "dropped", "committed"}

\* The commit has not begun.
Fresh == doing # "commit" \/ action = "commit"

(* The channel and the scripts.                                             *)

\* As many positions after the first message is gone.
LEMMA ShiftedCount ==
  ASSUME NEW n \in Nat, NEW S \in SUBSET (1..n), NEW T,
         T = {k \in 1..n : k + 1 \in S}
  PROVE  /\ IsFiniteSet(S) /\ IsFiniteSet(T)
         /\ Cardinality(S) \in Nat /\ Cardinality(T) \in Nat
         /\ Cardinality(T) = IF 1 \in S THEN Cardinality(S) - 1 ELSE Cardinality(S)
<1>1. IsFiniteSet(S) /\ Cardinality(S) \in Nat
  <2>1. IsFiniteSet(1..n)
    BY FS_Interval
  <2> QED BY <2>1, FS_Subset, FS_CardinalityType
<1> PICK U : U = S \ {1}
  OBVIOUS
<1>2. IsFiniteSet(U) /\ Cardinality(U) = IF 1 \in S THEN Cardinality(S) - 1 ELSE Cardinality(S)
  BY <1>1, FS_RemoveElement
<1>3. \A k \in U : k \in 2..n
  OBVIOUS
<1>4. ExistsBijection(U, T)
  <2> DEFINE g == [k \in U |-> k - 1]
  <2>1. \A k \in U : k - 1 \in T
    <3> SUFFICES ASSUME NEW k \in U PROVE k - 1 \in T
      OBVIOUS
    <3>1. k \in 2..n /\ k \in S
      BY <1>3
    <3>2. k - 1 \in 1..n /\ (k - 1) + 1 = k
      BY <3>1
    <3> QED BY <3>1, <3>2
  <2>2. \A j, k \in U : j - 1 = k - 1 => j = k
    BY <1>3
  <2>3. \A k \in T : k + 1 \in U /\ (k + 1) - 1 = k
    OBVIOUS
  <2>4. g \in [U -> T]
    BY <2>1
  <2>5. \A k \in T : \E j \in U : g[j] = k
    BY <2>3
  <2>6. \A j, k \in U : g[j] = g[k] => j = k
    BY <2>2
  <2> HIDE DEF g
  <2>7. g \in Bijection(U, T)
    BY <2>4, <2>5, <2>6 DEF Bijection, Injection, Surjection, IsInjective
  <2> QED BY <2>7 DEF ExistsBijection
<1>5. IsFiniteSet(T) /\ Cardinality(T) = Cardinality(U)
  BY <1>2, <1>4, FS_Bijection
<1>6. Cardinality(T) \in Nat
  BY <1>5, FS_CardinalityType
<1> QED BY <1>1, <1>2, <1>5, <1>6

\* A request is sent.
LEMMA AppendIs ==
  ASSUME TypeInv, NEW r \in Request, queue' = Append(queue, r)
  PROVE  /\ queue' \in Seq(Request) /\ Len(queue) \in Nat
         /\ DOMAIN queue = 1..Len(queue) /\ DOMAIN queue' = 1..(Len(queue) + 1)
         /\ \A k \in DOMAIN queue : queue'[k] = queue[k]
         /\ queue'[Len(queue) + 1] = r
         /\ \A op, f : Queued(op, f)' = Queued(op, f) \cup
              IF r.op = op /\ f \in r.files THEN {Len(queue) + 1} ELSE {}
<1>1. queue' \in Seq(Request) /\ Len(queue) \in Nat /\ DOMAIN queue = 1..Len(queue)
      /\ DOMAIN queue' = 1..(Len(queue) + 1)
  BY DEF TypeInv
<1>2. (\A k \in DOMAIN queue : queue'[k] = queue[k]) /\ queue'[Len(queue) + 1] = r
  BY DEF TypeInv
<1>3. 1..(Len(queue) + 1) = 1..Len(queue) \cup {Len(queue) + 1}
  BY <1>1
<1>4. Len(queue) + 1 \notin 1..Len(queue)
  BY <1>1
<1> QED BY <1>1, <1>2, <1>3, <1>4 DEF Queued

\* The first request is taken from the channel.
LEMMA TailIs ==
  ASSUME TypeInv, queue # <<>>, queue' = Tail(queue)
  PROVE  /\ queue' \in Seq(Request) /\ Len(queue) \in Nat \ {0}
         /\ DOMAIN queue = 1..Len(queue) /\ DOMAIN queue' = 1..(Len(queue) - 1)
         /\ Head(queue) = queue[1] /\ Head(queue) \in Request
         /\ \A k \in DOMAIN queue' : k + 1 \in DOMAIN queue /\ queue'[k] = queue[k + 1]
         /\ \A k \in DOMAIN queue : k = 1 \/ k - 1 \in DOMAIN queue'
         /\ \A op, f : \A k \in Nat : k \in Queued(op, f)' <=> k # 0 /\ k + 1 \in Queued(op, f)
<1>1. queue' \in Seq(Request) /\ Len(queue) \in Nat \ {0} /\ DOMAIN queue = 1..Len(queue)
      /\ DOMAIN queue' = 1..(Len(queue) - 1) /\ Head(queue) = queue[1] /\ Head(queue) \in Request
  BY DEF TypeInv
<1>2. \A k \in DOMAIN queue' : k + 1 \in DOMAIN queue /\ queue'[k] = queue[k + 1]
  BY <1>1 DEF TypeInv
<1>3. \A k \in DOMAIN queue : k = 1 \/ k - 1 \in DOMAIN queue'
  BY <1>1
<1>4. \A k \in Nat : k # 0 /\ k + 1 \in DOMAIN queue => k \in DOMAIN queue'
  BY <1>1
<1>5. \A k \in DOMAIN queue' : k # 0
  BY <1>1
<1> QED BY <1>1, <1>2, <1>3, <1>4, <1>5 DEF Queued

\* A thread has sent the first request of its script.
LEMMA SentIs ==
  ASSUME TypeInv, NEW t \in Threads, todo[t] # <<>>,
         todo' = [todo EXCEPT ![t] = Tail(@)]
  PROVE  /\ todo' \in [Threads -> Seq(Task)]
         /\ \A u \in Threads : u # t => todo'[u] = todo[u]
         /\ Head(todo[t]) = todo[t][1] /\ Head(todo[t]) \in Task
         /\ 1 \in DOMAIN todo[t] /\ \A k \in DOMAIN todo[t] : k \in Nat /\ k >= 1
         /\ \A k \in DOMAIN todo'[t] : k \in Nat /\ k + 1 \in DOMAIN todo[t]
                                       /\ todo'[t][k] = todo[t][k + 1]
         /\ \A k \in DOMAIN todo[t] : k = 1 \/ k - 1 \in DOMAIN todo'[t]
         /\ \A op : \A k \in Nat : k \in ToSend(t, op)' <=> k # 0 /\ k + 1 \in ToSend(t, op)
         /\ \A op : \A u \in Threads : u # t => ToSend(u, op)' = ToSend(u, op)
<1>1. todo[t] \in Seq(Task) /\ todo'[t] = Tail(todo[t]) /\ todo' \in [Threads -> Seq(Task)]
  BY DEF TypeInv
<1>2. \A u \in Threads : u # t => todo'[u] = todo[u]
  BY DEF TypeInv
<1> PICK q \in Seq(Task) : q = todo[t]
  BY <1>1
<1> PICK p : p = todo'[t]
  OBVIOUS
<1>3. p = Tail(q) /\ q # <<>>
  BY <1>1
<1>4. /\ p \in Seq(Task) /\ Len(q) \in Nat \ {0} /\ DOMAIN q = 1..Len(q)
      /\ DOMAIN p = 1..(Len(q) - 1) /\ Head(q) = q[1] /\ Head(q) \in Task
  BY <1>3
<1>5. \A k \in DOMAIN p : k + 1 \in DOMAIN q /\ p[k] = q[k + 1]
  BY <1>3, <1>4
<1>6. \A k \in DOMAIN q : k = 1 \/ k - 1 \in DOMAIN p
  BY <1>4
<1>7. \A k \in Nat : k # 0 /\ k + 1 \in DOMAIN q => k \in DOMAIN p
  BY <1>4
<1>8. \A k \in DOMAIN p : k # 0 /\ k \in Nat
  BY <1>4
<1>9. 1 \in DOMAIN q /\ \A k \in DOMAIN q : k \in Nat /\ k >= 1
  BY <1>4
<1>10. \A op : \A k \in Nat : k \in ToSend(t, op)' <=> k # 0 /\ k + 1 \in ToSend(t, op)
  BY <1>5, <1>7, <1>8 DEF ToSend
<1>11. \A op : \A u \in Threads : u # t => ToSend(u, op)' = ToSend(u, op)
  BY <1>2 DEF ToSend
<1> QED BY <1>1, <1>2, <1>4, <1>5, <1>6, <1>8, <1>9, <1>10, <1>11

\* The facts about a request that is sent.
LEMMA SendIs ==
  ASSUME ChannelInv, NEW t \in Threads, SendRequest(t)
  PROVE  /\ TypeInv'
         /\ \E r, m :
              /\ r = Head(todo[t]) /\ r \in Task /\ r = todo[t][1] /\ m \in Nat
              /\ 1 \in ToSend(t, r.op) /\ \A op : 1 \in ToSend(t, op) => op = r.op
              /\ \A k \in DOMAIN queue : k \in Nat /\ k < m
              /\ DOMAIN queue' = DOMAIN queue \cup {m}
              /\ queue'[m] = [from |-> t, op |-> r.op, files |-> r.files]
              /\ \A k \in DOMAIN queue : queue'[k] = queue[k]
              /\ \A op, g : Queued(op, g)' = Queued(op, g) \cup
                   IF r.op = op /\ g \in r.files THEN {m} ELSE {}
              /\ \A op : \A k \in Nat : k \in ToSend(t, op)' <=> k # 0 /\ k + 1 \in ToSend(t, op)
              /\ \A op : \A u \in Threads : u # t => ToSend(u, op)' = ToSend(u, op)
              /\ \A g \in File : pages'[g] = IF r.op = "write" /\ g \in r.files
                                             THEN pages[g] + 1 ELSE pages[g]
<1> PICK r : r = Head(todo[t])
  OBVIOUS
<1> PICK m : m = Len(queue) + 1
  OBVIOUS
<1>1. TypeInv /\ todo[t] # <<>> /\ todo' = [todo EXCEPT ![t] = Tail(@)]
  BY DEF ChannelInv, SendRequest, Send
<1>2. /\ todo' \in [Threads -> Seq(Task)]
      /\ Head(todo[t]) = todo[t][1] /\ Head(todo[t]) \in Task /\ 1 \in DOMAIN todo[t]
      /\ \A op : \A k \in Nat : k \in ToSend(t, op)' <=> k # 0 /\ k + 1 \in ToSend(t, op)
      /\ \A op : \A u \in Threads : u # t => ToSend(u, op)' = ToSend(u, op)
  BY <1>1, SentIs
<1>3. r \in Task /\ r = todo[t][1] /\ r.op \in Ops /\ r.files \subseteq File
  BY <1>2 DEF Task
<1>4. 1 \in ToSend(t, r.op) /\ \A op : 1 \in ToSend(t, op) => op = r.op
  BY <1>2, <1>3 DEF ToSend
<1>5. PICK q : q = [from |-> t, op |-> r.op, files |-> r.files]
  OBVIOUS
<1>6. q \in Request /\ q.op = r.op /\ q.files = r.files
  BY <1>3, <1>5 DEF Request, Ops
<1>7. queue' = Append(queue, q)
  BY <1>5 DEF SendRequest, Send
<1>8. /\ queue' \in Seq(Request) /\ Len(queue) \in Nat
      /\ DOMAIN queue = 1..Len(queue) /\ DOMAIN queue' = 1..(Len(queue) + 1)
      /\ \A k \in DOMAIN queue : queue'[k] = queue[k]
      /\ queue'[Len(queue) + 1] = q
      /\ \A op, f : Queued(op, f)' = Queued(op, f) \cup
           IF q.op = op /\ f \in q.files THEN {Len(queue) + 1} ELSE {}
  BY <1>1, <1>6, <1>7, AppendIs
<1>9. m \in Nat /\ DOMAIN queue' = DOMAIN queue \cup {m} /\ \A k \in DOMAIN queue : k \in Nat /\ k < m
  BY <1>8
<1>10. pages' = [f \in File |-> IF r.op = "write" /\ f \in r.files THEN pages[f] + 1 ELSE pages[f]]
  BY DEF SendRequest, Send
<1>11. pages' \in [File -> Nat]
  BY <1>1, <1>10 DEF TypeInv
<1>12. awaiting' \subseteq Threads /\ asked' \subseteq File
  BY <1>1, <1>3 DEF TypeInv, SendRequest, Send
<1>13. TypeInv'
  BY <1>1, <1>2, <1>8, <1>11, <1>12 DEF TypeInv, SendRequest, Send, handlerVars
<1> QED BY <1>2, <1>3, <1>4, <1>5, <1>6, <1>8, <1>9, <1>10, <1>13

\* A message sent keeps the order of what is sent for its file.
LEMMA SendKeepsFile ==
  ASSUME ChannelInv, Live, NEW t \in Threads, SendRequest(t), NEW f \in File
  PROVE  FileInv(f)'
<1>1. OwnInv /\ FileInv(f) /\ TypeInv
  BY DEF ChannelInv, Live
<1>2. PICK r, m :
        /\ r = Head(todo[t]) /\ r \in Task /\ r = todo[t][1] /\ m \in Nat
        /\ 1 \in ToSend(t, r.op) /\ \A op : 1 \in ToSend(t, op) => op = r.op
        /\ \A k \in DOMAIN queue : k \in Nat /\ k < m
        /\ DOMAIN queue' = DOMAIN queue \cup {m}
        /\ queue'[m] = [from |-> t, op |-> r.op, files |-> r.files]
        /\ \A k \in DOMAIN queue : queue'[k] = queue[k]
        /\ \A op, g : Queued(op, g)' = Queued(op, g) \cup
             IF r.op = op /\ g \in r.files THEN {m} ELSE {}
        /\ \A op : \A k \in Nat : k \in ToSend(t, op)' <=> k # 0 /\ k + 1 \in ToSend(t, op)
        /\ \A op : \A u \in Threads : u # t => ToSend(u, op)' = ToSend(u, op)
        /\ \A g \in File : pages'[g] = IF r.op = "write" /\ g \in r.files
                                       THEN pages[g] + 1 ELSE pages[g]
  BY SendIs
<1>3. entries' = entries /\ writers' = writers
  BY DEF SendRequest, Send, handlerVars
<1>4. r.op \in {"write", "terminate"} => r.files = {t}
  <2>1. 1 \in DOMAIN todo[t]
    BY <1>2 DEF ToSend
  <2> QED BY <1>1, <1>2, <2>1 DEF OwnInv
<1>5. \A op : \A k \in Queued(op, f) : k \in Nat /\ k < m
  BY <1>2 DEF Queued
<1>6. \A op : \A k \in ToSend(t, op) : k \in Nat /\ k >= 1 /\ k - 1 \in Nat
  <2>1. todo[t] \in Seq(Task)
    BY <1>1 DEF TypeInv
  <2>2. \A k \in DOMAIN todo[t] : k \in Nat /\ k >= 1 /\ k - 1 \in Nat
    BY <2>1
  <2> QED BY <2>2 DEF ToSend
<1>7. \A op : \A k \in ToSend(t, op)' : k \in Nat
  <2>1. todo'[t] \in Seq(Task)
    BY SendIs DEF TypeInv
  <2>2. \A k \in DOMAIN todo'[t] : k \in Nat
    BY <2>1
  <2> QED BY <2>2 DEF ToSend
<1>8. \A op : \A k \in ToSend(t, op) : k = 1 \/ k - 1 \in ToSend(t, op)'
  <2> SUFFICES ASSUME NEW op, NEW k \in ToSend(t, op), k # 1
               PROVE  k - 1 \in ToSend(t, op)'
    OBVIOUS
  <2>1. k - 1 \in Nat /\ k - 1 # 0 /\ (k - 1) + 1 = k
    BY <1>6
  <2> QED BY <1>2, <2>1
<1>9. pages[f] \in Nat /\ entries[f] \in Nat /\ writers[f] \in Nat
  BY <1>1 DEF TypeInv
<1>10. CASE f # t
  <2>1. /\ Queued("write", f)' = Queued("write", f)
        /\ Queued("terminate", f)' = Queued("terminate", f)
        /\ ToSend(f, "write")' = ToSend(f, "write")
        /\ ToSend(f, "terminate")' = ToSend(f, "terminate")
        /\ pages'[f] = pages[f]
    BY <1>2, <1>4, <1>10 DEF File
  <2> QED BY <1>1, <1>3, <2>1 DEF FileInv, NoneToSend
<1>11. CASE f = t /\ r.op \notin {"write", "terminate"}
  <2>1. /\ Queued("write", f)' = Queued("write", f)
        /\ Queued("terminate", f)' = Queued("terminate", f)
        /\ pages'[f] = pages[f]
    BY <1>2, <1>11
  <2>2. ASSUME NEW op \in {"write", "terminate"}
        PROVE  \A k \in Nat : k \in ToSend(f, op)' <=> k + 1 \in ToSend(f, op)
    BY <1>2, <1>11
  <2>3. ASSUME NEW op \in {"write", "terminate"}, NEW k \in ToSend(f, op)
        PROVE  k - 1 \in ToSend(f, op)'
    BY <1>2, <1>8, <1>11
  <2>4. NoneToSend(f) => NoneToSend(f)'
    BY <2>2, <1>7, <1>11 DEF NoneToSend
  <2>5. \A k \in ToSend(f, "write")' : \E j \in ToSend(f, "terminate")' : j > k
    <3> SUFFICES ASSUME NEW k \in ToSend(f, "write")'
                 PROVE  \E j \in ToSend(f, "terminate")' : j > k
      OBVIOUS
    <3>1. k \in Nat /\ k + 1 \in ToSend(f, "write")
      BY <1>7, <1>11, <2>2
    <3>2. PICK j \in ToSend(f, "terminate") : j > k + 1
      BY <1>1, <3>1 DEF FileInv
    <3>3. j - 1 \in ToSend(f, "terminate")' /\ j \in Nat
      BY <1>6, <1>11, <2>3
    <3> QED BY <3>1, <3>2, <3>3
  <2>6. ASSUME NEW k \in ToSend(f, "terminate")'
        PROVE  /\ pages[f] > 0 \/ ToSend(f, "write")' # {}
               /\ \A j \in ToSend(f, "write")' \cup ToSend(f, "terminate")' : j <= k
    <3>1. k \in Nat /\ k + 1 \in ToSend(f, "terminate")
      BY <1>7, <1>11, <2>2
    <3>2. pages[f] > 0 \/ ToSend(f, "write")' # {}
      BY <1>1, <2>3, <3>1 DEF FileInv
    <3>3. ASSUME NEW j \in ToSend(f, "write")' \cup ToSend(f, "terminate")'
          PROVE  j <= k
      <4>1. j \in Nat /\ j + 1 \in ToSend(f, "write") \cup ToSend(f, "terminate")
        BY <1>7, <1>11, <2>2
      <4>2. j + 1 <= k + 1
        BY <1>1, <3>1, <4>1 DEF FileInv
      <4> QED BY <3>1, <4>1, <4>2
    <3> QED BY <3>2, <3>3
  <2>7. ToSend(f, "terminate") # {} => ToSend(f, "terminate")' # {}
    BY <2>3
  <2> QED BY <1>1, <1>3, <2>1, <2>4, <2>5, <2>6, <2>7 DEF FileInv
<1>12. CASE f = t /\ r.op = "write"
  <2>1. 1 \in ToSend(f, "write")
    BY <1>2, <1>12
  <2>2. entries[f] = 0 /\ Queued("terminate", f) = {}
    BY <1>1, <2>1 DEF FileInv, NoneToSend
  <2>3. /\ Queued("write", f)' = Queued("write", f) \cup {m}
        /\ Queued("terminate", f)' = {}
        /\ pages'[f] = pages[f] + 1
    BY <1>2, <1>4, <1>12, <2>2
  <2>4. pages'[f] = writers[f] + Cardinality(Queued("write", f)')
    <3>1. IsFiniteSet(Queued("write", f))
      <4>1. IsFiniteSet(DOMAIN queue)
        <5>1. queue \in Seq(Request)
          BY <1>1 DEF TypeInv
        <5>2. DOMAIN queue = 1..Len(queue) /\ Len(queue) \in Nat
          BY <5>1
        <5> QED BY <5>2, FS_Interval
      <4>2. Queued("write", f) \in SUBSET DOMAIN queue
        BY DEF Queued
      <4> QED BY <4>1, <4>2, FS_Subset
    <3>2. m \notin Queued("write", f)
      BY <1>2, <1>5
    <3>3. Cardinality(Queued("write", f)) \in Nat
      BY <3>1, FS_CardinalityType
    <3>4. Cardinality(Queued("write", f) \cup {m}) = Cardinality(Queued("write", f)) + 1
      BY <3>1, <3>2, FS_AddElement
    <3>5. pages[f] = writers[f] + Cardinality(Queued("write", f))
      BY <1>1, <2>2 DEF FileInv
    <3>6. pages[f] + 1 = writers[f] + (Cardinality(Queued("write", f)) + 1)
      BY <1>9, <3>3, <3>5
    <3> QED BY <2>3, <3>4, <3>6
  <2>5. pages'[f] > 0
    BY <1>9, <2>3
  <2>6. \A k \in ToSend(f, "write")' : \E j \in ToSend(f, "terminate")' : j > k
    <3> SUFFICES ASSUME NEW k \in ToSend(f, "write")'
                 PROVE  \E j \in ToSend(f, "terminate")' : j > k
      OBVIOUS
    <3>1. k \in Nat /\ k + 1 \in ToSend(f, "write")
      BY <1>2, <1>7, <1>12
    <3>2. PICK j \in ToSend(f, "terminate") : j > k + 1
      BY <1>1, <3>1 DEF FileInv
    <3>3. j \in Nat /\ j # 1
      BY <1>6, <1>12, <3>1, <3>2
    <3>4. j - 1 \in ToSend(f, "terminate")'
      BY <1>8, <1>12, <3>3
    <3> QED BY <3>1, <3>2, <3>3, <3>4
  <2>7. ASSUME NEW k \in ToSend(f, "terminate")',
               NEW j \in ToSend(f, "write")' \cup ToSend(f, "terminate")'
        PROVE  j <= k
    <3>1. k \in Nat /\ k + 1 \in ToSend(f, "terminate")
      BY <1>2, <1>7, <1>12
    <3>2. j \in Nat /\ j + 1 \in ToSend(f, "write") \cup ToSend(f, "terminate")
      BY <1>2, <1>7, <1>12
    <3>3. j + 1 <= k + 1
      BY <1>1, <3>1, <3>2 DEF FileInv
    <3> QED BY <3>1, <3>2, <3>3
  <2>8. ToSend(f, "terminate")' # {}
    <3>1. PICK j \in ToSend(f, "terminate") : j > 1
      BY <1>1, <2>1 DEF FileInv
    <3>2. j # 1
      BY <3>1
    <3> QED BY <1>8, <1>12, <3>2
  <2> QED BY <1>3, <2>2, <2>3, <2>4, <2>5, <2>6, <2>7, <2>8 DEF FileInv
<1>13. CASE f = t /\ r.op = "terminate"
  <2>1. 1 \in ToSend(f, "terminate")
    BY <1>2, <1>13
  <2>2. entries[f] = 0 /\ Queued("terminate", f) = {}
    BY <1>1, <2>1 DEF FileInv, NoneToSend
  <2>3. \A j \in ToSend(f, "write") \cup ToSend(f, "terminate") : j <= 1
    BY <1>1, <2>1 DEF FileInv
  <2>4. ASSUME NEW op \in {"write", "terminate"} PROVE ToSend(f, op)' = {}
    <3> SUFFICES ASSUME NEW k \in ToSend(f, op)' PROVE FALSE
      OBVIOUS
    <3>1. k \in Nat /\ k # 0 /\ k + 1 \in ToSend(f, op)
      BY <1>2, <1>7, <1>13
    <3>2. k + 1 <= 1
      BY <2>3, <3>1
    <3> QED BY <3>1, <3>2
  <2>5. ToSend(f, "write") = {}
    <3> SUFFICES ASSUME NEW j \in ToSend(f, "write") PROVE FALSE
      OBVIOUS
    <3>1. j = 1
      BY <1>6, <1>13, <2>3
    <3> QED BY <1>2, <1>13, <3>1
  <2>6. pages[f] > 0
    BY <1>1, <2>1, <2>5 DEF FileInv
  <2>7. /\ Queued("write", f)' = Queued("write", f)
        /\ Queued("terminate", f)' = {m}
        /\ pages'[f] = pages[f]
    <3>1. f \in r.files
      BY <1>4, <1>13
    <3>2. Queued("terminate", f)' = Queued("terminate", f) \cup {m}
      BY <1>2, <1>13, <3>1
    <3>3. Queued("write", f)' = Queued("write", f) /\ pages'[f] = pages[f]
      BY <1>2, <1>13
    <3> QED BY <2>2, <3>2, <3>3
  <2>8. \A j \in Queued("write", f)' \cup Queued("terminate", f)' : j <= m
    BY <1>2, <1>5, <2>7
  <2>9. pages[f] = writers[f] + Cardinality(Queued("write", f)')
    BY <1>1, <2>2, <2>7 DEF FileInv
  <2>10. NoneToSend(f)'
    BY <2>4 DEF NoneToSend
  <2> QED BY <1>3, <2>2, <2>4, <2>6, <2>7, <2>8, <2>9, <2>10 DEF FileInv
<1> QED BY <1>10, <1>11, <1>12, <1>13

\* It is its sender's, and the only one its sender waits for.
LEMMA SendKeepsOwn ==
  ASSUME ChannelInv, Live, NEW t \in Threads, SendRequest(t)
  PROVE  OwnInv'
<1>1. PICK r, m :
        /\ r = Head(todo[t]) /\ r \in Task /\ r = todo[t][1] /\ m \in Nat
        /\ 1 \in ToSend(t, r.op) /\ \A op : 1 \in ToSend(t, op) => op = r.op
        /\ \A k \in DOMAIN queue : k \in Nat /\ k < m
        /\ DOMAIN queue' = DOMAIN queue \cup {m}
        /\ queue'[m] = [from |-> t, op |-> r.op, files |-> r.files]
        /\ \A k \in DOMAIN queue : queue'[k] = queue[k]
        /\ \A op, g : Queued(op, g)' = Queued(op, g) \cup
             IF r.op = op /\ g \in r.files THEN {m} ELSE {}
        /\ \A op : \A k \in Nat : k \in ToSend(t, op)' <=> k # 0 /\ k + 1 \in ToSend(t, op)
        /\ \A op : \A u \in Threads : u # t => ToSend(u, op)' = ToSend(u, op)
        /\ \A g \in File : pages'[g] = IF r.op = "write" /\ g \in r.files
                                       THEN pages[g] + 1 ELSE pages[g]
  BY SendIs
<1>2. OwnInv /\ TypeInv
  BY DEF ChannelInv, Live
<1>3. /\ todo[t] # <<>> /\ todo' = [todo EXCEPT ![t] = Tail(@)] /\ t \notin awaiting
      /\ awaiting' = IF r.op \in {"ask"} THEN awaiting \cup {t} ELSE awaiting
  BY <1>1 DEF SendRequest, Send
<1>4. 1 \in DOMAIN todo[t]
  BY <1>1 DEF ToSend
<1>5. /\ r.op \in {"write", "terminate"} => r.files = {t}
      /\ r.op = "save" => t = Worker
  BY <1>1, <1>2, <1>4 DEF OwnInv
<1>6. ASSUME NEW u \in Threads, NEW k \in DOMAIN todo'[u]
      PROVE  /\ todo'[u][k].op \in {"write", "terminate"} => todo'[u][k].files = {u}
             /\ todo'[u][k].op = "save" => u = Worker
  <2>1. CASE u = t
    <3>1. k + 1 \in DOMAIN todo[t] /\ todo'[t][k] = todo[t][k + 1]
      BY <1>2, <1>3, <2>1, SentIs
    <3> QED BY <1>2, <2>1, <3>1 DEF OwnInv
  <2>2. CASE u # t
    <3>1. todo'[u] = todo[u]
      BY <1>2, <1>3, <2>2, SentIs
    <3> QED BY <1>2, <3>1 DEF OwnInv
  <2> QED BY <2>1, <2>2
<1>7. queue'[m].op = r.op /\ queue'[m].from = t /\ queue'[m].files = r.files
  BY <1>1
<1>8. ASSUME NEW k \in DOMAIN queue'
      PROVE  /\ queue'[k].op \in {"write", "terminate"} => queue'[k].files = {queue'[k].from}
             /\ queue'[k].op = "ask" => queue'[k].from \in awaiting'
  <2>1. CASE k = m
    BY <1>3, <1>5, <1>7, <2>1
  <2>2. CASE k # m
    <3>1. k \in DOMAIN queue /\ queue'[k] = queue[k]
      BY <1>1, <2>2
    <3> QED BY <1>2, <1>3, <3>1 DEF OwnInv
  <2> QED BY <2>1, <2>2
<1>9. ASSUME NEW j \in DOMAIN queue', NEW k \in DOMAIN queue',
             queue'[j].op = "ask", queue'[k].op = "ask", queue'[j].from = queue'[k].from
      PROVE  j = k
  <2>1. \A i \in DOMAIN queue' : i = m \/ (i \in DOMAIN queue /\ queue'[i] = queue[i])
    BY <1>1
  <2>2. \A i \in DOMAIN queue : queue[i].op = "ask" => queue[i].from # t
    BY <1>2, <1>3 DEF OwnInv
  <2> QED BY <1>2, <1>7, <1>9, <2>1, <2>2 DEF OwnInv
<1> QED BY <1>6, <1>8, <1>9 DEF OwnInv

\* A SaveMetas is sent after the terminate of its files.
LEMMA SendKeepsSave ==
  ASSUME ChannelInv, Live, NEW t \in Threads, SendRequest(t)
  PROVE  SaveInv'
<1>1. PICK r, m :
        /\ r = Head(todo[t]) /\ r \in Task /\ r = todo[t][1] /\ m \in Nat
        /\ 1 \in ToSend(t, r.op) /\ \A op : 1 \in ToSend(t, op) => op = r.op
        /\ \A k \in DOMAIN queue : k \in Nat /\ k < m
        /\ DOMAIN queue' = DOMAIN queue \cup {m}
        /\ queue'[m] = [from |-> t, op |-> r.op, files |-> r.files]
        /\ \A k \in DOMAIN queue : queue'[k] = queue[k]
        /\ \A op, g : Queued(op, g)' = Queued(op, g) \cup
             IF r.op = op /\ g \in r.files THEN {m} ELSE {}
        /\ \A op : \A k \in Nat : k \in ToSend(t, op)' <=> k # 0 /\ k + 1 \in ToSend(t, op)
        /\ \A op : \A u \in Threads : u # t => ToSend(u, op)' = ToSend(u, op)
        /\ \A g \in File : pages'[g] = IF r.op = "write" /\ g \in r.files
                                       THEN pages[g] + 1 ELSE pages[g]
  BY SendIs
<1>2. OwnInv /\ TypeInv /\ SaveInv
  BY DEF ChannelInv, Live
<1>3. /\ todo[t] # <<>> /\ todo' = [todo EXCEPT ![t] = Tail(@)]
      /\ asked' = IF r.op = "save" THEN asked \cup r.files ELSE asked
      /\ entries' = entries /\ saved' = saved /\ doing' = doing /\ action' = action
  BY <1>1 DEF SendRequest, Send, handlerVars, backendVars
<1>4. 1 \in DOMAIN todo[t]
  BY <1>1 DEF ToSend
<1>5. /\ r.op \in {"write", "terminate"} => r.files = {t}
      /\ r.op = "save" => t = Worker
  BY <1>1, <1>2, <1>4 DEF OwnInv
<1>6. /\ \A op : \A k \in ToSend(t, op) : k \in Nat /\ k >= 1
      /\ \A op : \A k \in ToSend(t, op) : k = 1 \/ k - 1 \in ToSend(t, op)'
      /\ \A op : \A k \in ToSend(t, op)' : /\ k \in Nat /\ k # 0 /\ k + 1 \in ToSend(t, op)
                                           /\ todo'[t][k] = todo[t][k + 1]
  <2>1. /\ \A k \in DOMAIN todo[t] : k \in Nat /\ k >= 1
        /\ \A k \in DOMAIN todo'[t] : k \in Nat /\ k + 1 \in DOMAIN todo[t]
                                      /\ todo'[t][k] = todo[t][k + 1]
    BY <1>2, <1>3, SentIs
  <2>2. \A op : \A k \in ToSend(t, op) : k \in Nat /\ k >= 1
    BY <2>1 DEF ToSend
  <2>3. \A op : \A k \in ToSend(t, op)' : k \in Nat /\ todo'[t][k] = todo[t][k + 1]
    BY <2>1 DEF ToSend
  <2>4. ASSUME NEW op, NEW k \in ToSend(t, op), k # 1
        PROVE  k - 1 \in ToSend(t, op)'
    <3>1. k - 1 \in Nat /\ k - 1 # 0 /\ (k - 1) + 1 = k
      BY <2>2, <2>4
    <3> QED BY <1>1, <3>1
  <2> QED BY <1>1, <2>2, <2>3, <2>4
<1>7. Worker \in Threads
  BY DEF Threads
<1>8. \A op : ToSend(Worker, op) # {} => ToSend(Worker, op)' # {} \/ (t = Worker /\ op = r.op)
  BY <1>1, <1>6, <1>7
<1>9. ASSUME doing # "commit" \/ action = "commit"
      PROVE  /\ pages'[Worker] = 0 /\ NoneToSend(Worker)'
             /\ ToSend(Worker, "save")' = {} /\ saved' = {}
             /\ \A f \in File : Queued("save", f)' = {}
  <2>1. /\ pages[Worker] = 0 /\ NoneToSend(Worker)
        /\ ToSend(Worker, "save") = {} /\ saved = {}
        /\ \A f \in File : Queued("save", f) = {}
    BY <1>2, <1>9 DEF SaveInv
  <2>2. CASE t = Worker
    <3>1. r.op # "write" /\ r.op # "terminate" /\ r.op # "save"
      BY <1>1, <2>1, <2>2 DEF NoneToSend
    <3>2. \A op : ToSend(Worker, op) = {} => ToSend(Worker, op)' = {}
      BY <1>6, <2>2
    <3>3. pages'[Worker] = 0
      BY <1>1, <1>7, <2>1, <3>1 DEF File
    <3>4. \A f \in File : Queued("save", f)' = {}
      BY <1>1, <2>1, <3>1
    <3> QED BY <1>3, <2>1, <3>2, <3>3, <3>4 DEF NoneToSend
  <2>3. CASE t # Worker
    <3>1. r.op # "save"
      BY <1>5, <2>3
    <3>2. \A op : ToSend(Worker, op)' = ToSend(Worker, op)
      BY <1>1, <1>7, <2>3
    <3>3. pages'[Worker] = 0
      BY <1>1, <1>5, <1>7, <2>1, <2>3 DEF File
    <3>4. \A f \in File : Queued("save", f)' = {}
      BY <1>1, <2>1, <3>1
    <3> QED BY <1>3, <2>1, <3>2, <3>3, <3>4 DEF NoneToSend
  <2> QED BY <2>2, <2>3
<1>10. ASSUME NEW f \in File, NEW k \in Queued("save", f)'
       PROVE  /\ entries'[f] # 0 \/ \E j \in Queued("terminate", f)' : j < k
              /\ \/ \E j \in DOMAIN queue' : j > k /\ queue'[j].op = "ask" /\ queue'[j].from = Worker
                 \/ ToSend(Worker, "ask")' # {}
  <2>1. CASE k \in Queued("save", f)
    <3>1. entries'[f] # 0 \/ \E j \in Queued("terminate", f)' : j < k
      BY <1>1, <1>2, <1>3, <2>1 DEF SaveInv
    <3>2. k \in DOMAIN queue /\ k \in Nat /\ m > k
      BY <1>1, <2>1 DEF Queued
    <3>3. CASE \E j \in DOMAIN queue : j > k /\ queue[j].op = "ask" /\ queue[j].from = Worker
      BY <1>1, <3>1, <3>3
    <3>4. CASE ToSend(Worker, "ask") # {} /\ t = Worker /\ r.op = "ask"
      <4>1. queue'[m].op = "ask" /\ queue'[m].from = Worker /\ m \in DOMAIN queue'
        BY <1>1, <3>4
      <4> QED BY <3>1, <3>2, <4>1
    <3>5. CASE ToSend(Worker, "ask") # {} /\ ~(t = Worker /\ r.op = "ask")
      BY <1>8, <3>1, <3>5
    <3> QED BY <1>2, <2>1, <3>3, <3>4, <3>5 DEF SaveInv
  <2>2. CASE k \notin Queued("save", f)
    <3>1. k = m /\ r.op = "save" /\ f \in r.files
      BY <1>1, <1>10, <2>2
    <3>2. t = Worker
      BY <1>5, <3>1
    <3>3. 1 \in ToSend(Worker, "save") /\ todo[Worker][1] = r
      BY <1>1, <3>1, <3>2
    <3>4. /\ \/ entries[f] # 0 \/ Queued("terminate", f) # {}
             \/ f = Worker /\ \E j \in ToSend(Worker, "terminate") : j < 1
          /\ \E j \in ToSend(Worker, "ask") : j > 1
      BY <1>2, <3>1, <3>3 DEF SaveInv
    <3>5. ~ \E j \in ToSend(Worker, "terminate") : j < 1
      BY <1>6, <3>2
    <3>6. entries[f] # 0 \/ Queued("terminate", f) # {}
      BY <3>4, <3>5
    <3>7. \A j \in Queued("terminate", f) : j < m /\ j \in Queued("terminate", f)'
      BY <1>1 DEF Queued
    <3>8. ToSend(Worker, "ask")' # {}
      <4>1. PICK j \in ToSend(Worker, "ask") : j > 1
        BY <3>4
      <4>2. j # 1
        BY <4>1
      <4> QED BY <1>6, <3>2, <4>2
    <3> QED BY <1>3, <3>1, <3>6, <3>7, <3>8
  <2> QED BY <2>1, <2>2
<1>11. \A f : Queued("terminate", f) # {} => Queued("terminate", f)' # {}
  BY <1>1
<1>12. ASSUME NEW k \in ToSend(Worker, "save")'
       PROVE  /\ \A f \in todo'[Worker][k].files :
                   \/ entries'[f] # 0 \/ Queued("terminate", f)' # {}
                   \/ f = Worker /\ \E j \in ToSend(Worker, "terminate")' : j < k
              /\ \E j \in ToSend(Worker, "ask")' : j > k
  <2>1. CASE t # Worker
    <3>1. \A op : ToSend(Worker, op)' = ToSend(Worker, op)
      BY <1>1, <1>7, <2>1
    <3>2. todo'[Worker] = todo[Worker]
      BY <1>2, <1>3, <1>7, <2>1, SentIs
    <3> QED BY <1>2, <1>3, <1>11, <1>12, <3>1, <3>2 DEF SaveInv
  <2>2. CASE t = Worker
    <3>1. k \in Nat /\ k # 0 /\ k + 1 \in ToSend(Worker, "save")
          /\ todo'[Worker][k] = todo[Worker][k + 1]
      BY <1>6, <1>12, <2>2
    <3>2. ASSUME NEW f \in todo'[Worker][k].files, entries'[f] = 0, Queued("terminate", f)' = {}
          PROVE  f = Worker /\ \E j \in ToSend(Worker, "terminate")' : j < k
      <4>1. entries[f] = 0 /\ Queued("terminate", f) = {} /\ f \in todo[Worker][k + 1].files
        BY <1>3, <1>11, <3>1, <3>2
      <4>2. PICK j \in ToSend(Worker, "terminate") : f = Worker /\ j < k + 1
        BY <1>2, <3>1, <4>1 DEF SaveInv
      <4>3. j # 1
        <5> SUFFICES ASSUME j = 1 PROVE FALSE
          OBVIOUS
        <5>1. r.op = "terminate" /\ r.files = {Worker}
          BY <1>1, <1>5, <2>2
        <5>2. m \in Queued("terminate", f)'
          BY <1>1, <4>2, <5>1
        <5> QED BY <3>2, <5>2
      <4>4. j - 1 \in ToSend(Worker, "terminate")' /\ j \in Nat
        BY <1>6, <2>2, <4>3
      <4>5. j - 1 < k
        BY <3>1, <4>2, <4>4
      <4> QED BY <4>2, <4>4, <4>5
    <3>3. PICK j \in ToSend(Worker, "ask") : j > k + 1
      BY <1>2, <3>1 DEF SaveInv
    <3>4. j \in Nat
      BY <1>6, <2>2
    <3>5. j # 1 /\ j - 1 > k
      BY <3>1, <3>3, <3>4
    <3>6. j - 1 \in ToSend(Worker, "ask")'
      BY <1>6, <2>2, <3>5
    <3> QED BY <3>2, <3>5, <3>6
  <2> QED BY <2>1, <2>2
<1>13. ASSUME NEW f \in asked' PROVE Queued("save", f)' # {} \/ \E s \in saved' : s[1] = f
  <2>1. CASE f \in asked
    <3>1. Queued("save", f) # {} \/ \E s \in saved : s[1] = f
      BY <1>2, <2>1 DEF SaveInv
    <3>2. Queued("save", f) \subseteq Queued("save", f)'
      BY <1>1
    <3> QED BY <1>3, <3>1, <3>2
  <2>2. CASE f \notin asked
    <3>1. r.op = "save" /\ f \in r.files
      BY <1>3, <2>2
    <3>2. m \in Queued("save", f)'
      BY <1>1, <3>1
    <3> QED BY <3>2
  <2> QED BY <2>1, <2>2
<1> QED BY <1>3, <1>9, <1>10, <1>12, <1>13 DEF SaveInv

LEMMA SendKeeps ==
  ASSUME ChannelInv, NEW t \in Threads, SendRequest(t)
  PROVE  ChannelInv'
<1>1. PICK r, m :
        /\ r = Head(todo[t]) /\ r \in Task /\ r = todo[t][1] /\ m \in Nat
        /\ 1 \in ToSend(t, r.op) /\ \A op : 1 \in ToSend(t, op) => op = r.op
        /\ \A k \in DOMAIN queue : k \in Nat /\ k < m
        /\ DOMAIN queue' = DOMAIN queue \cup {m}
        /\ queue'[m] = [from |-> t, op |-> r.op, files |-> r.files]
        /\ \A k \in DOMAIN queue : queue'[k] = queue[k]
        /\ \A op, g : Queued(op, g)' = Queued(op, g) \cup
             IF r.op = op /\ g \in r.files THEN {m} ELSE {}
        /\ \A op : \A k \in Nat : k \in ToSend(t, op)' <=> k # 0 /\ k + 1 \in ToSend(t, op)
        /\ \A op : \A u \in Threads : u # t => ToSend(u, op)' = ToSend(u, op)
        /\ \A g \in File : pages'[g] = IF r.op = "write" /\ g \in r.files
                                       THEN pages[g] + 1 ELSE pages[g]
  BY SendIs
<1>2. /\ TypeInv /\ ControlInv /\ connected = "yes" /\ todo[t] # <<>>
      /\ UNCHANGED <<connected, action, replied, backend, doing, writers, entries, saved>>
      /\ todo' = [todo EXCEPT ![t] = Tail(@)]
      /\ t = Worker \/ Worker \notin awaiting' \/ Worker \in awaiting
  BY DEF ChannelInv, SendRequest, Send, handlerVars, backendVars
<1>3. TypeInv'
  BY SendIs
<1>4. ControlInv'
  <2>1. action # "working" => IsDone(Worker)'
    <3> SUFFICES ASSUME action # "working" PROVE IsDone(Worker)'
      OBVIOUS
    <3>1. IsDone(Worker)
      BY <1>2 DEF ControlInv
    <3>2. t # Worker /\ Worker \in Threads
      BY <1>2, <3>1 DEF IsDone, Threads
    <3>3. todo'[Worker] = todo[Worker]
      BY <1>2, <3>2, SentIs
    <3> QED BY <1>2, <3>1, <3>2, <3>3 DEF IsDone
  <2> QED BY <1>2, <2>1 DEF ControlInv
<1>5. ASSUME NEW s \in saved' PROVE entries'[s[1]] # 0 /\ s[2] = pages'[s[1]]
  <2>1. s \in saved /\ s[1] \in File /\ entries[s[1]] # 0 /\ s[2] = pages[s[1]]
    BY <1>2 DEF ChannelInv, TypeInv
  <2>2. Live
    BY <1>2, <2>1 DEF Live, ControlInv
  <2>3. FileInv(s[1]) /\ OwnInv
    BY <2>1, <2>2 DEF ChannelInv, Live
  <2>4. NoneToSend(s[1])
    BY <2>1, <2>3 DEF FileInv
  <2>5. ~(r.op = "write" /\ s[1] \in r.files)
    <3> SUFFICES ASSUME r.op = "write", s[1] \in r.files PROVE FALSE
      OBVIOUS
    <3>1. 1 \in DOMAIN todo[t]
      BY <1>1 DEF ToSend
    <3>2. r.files = {t}
      BY <1>1, <2>3, <3>1 DEF OwnInv
    <3>3. 1 \in ToSend(s[1], "write")
      BY <1>1, <3>2
    <3> QED BY <2>4, <3>3 DEF NoneToSend
  <2> QED BY <1>1, <1>2, <2>1, <2>5
<1>6. CommitIsSaved'
  BY <1>2 DEF ControlInv, CommitIsSaved
<1>7. Live' => Live
  BY <1>2 DEF Live
<1> QED BY <1>2, <1>3, <1>4, <1>5, <1>6, <1>7, SendKeepsOwn, SendKeepsSave, SendKeepsFile
        DEF ChannelInv, Live

\* The facts about a request that is handled.
LEMMA HandleIs ==
  ASSUME ChannelInv, HandleMessage
  PROVE  /\ TypeInv'
         /\ \E r :
              /\ r = queue[1] /\ r \in Request /\ 1 \in DOMAIN queue
              /\ \A k \in DOMAIN queue : k \in Nat /\ k >= 1
              /\ \A k \in DOMAIN queue' : k \in Nat /\ k >= 1 /\ k + 1 \in DOMAIN queue
                                          /\ queue'[k] = queue[k + 1]
              /\ \A k \in DOMAIN queue : k = 1 \/ k - 1 \in DOMAIN queue'
              /\ \A op, g : 1 \in Queued(op, g) <=> op = r.op /\ g \in r.files
              /\ \A op, g : \A k \in Queued(op, g) : k \in Nat /\ k >= 1
              /\ \A op, g : \A k \in Queued(op, g)' : k \in Nat /\ k + 1 \in Queued(op, g)
              /\ \A op, g : \A k \in Queued(op, g) : k = 1 \/ k - 1 \in Queued(op, g)'
              /\ \A g \in File : writers'[g] = IF g \notin r.files THEN writers[g]
                                               ELSE IF r.op = "write" THEN writers[g] + 1
                                               ELSE IF r.op = "terminate" THEN 0 ELSE writers[g]
              /\ \A g \in File : entries'[g] = IF r.op = "terminate" /\ g \in r.files
                                               THEN writers[g] ELSE entries[g]
              /\ saved' = IF r.op = "save" THEN saved \cup {<<g, entries[g]>> : g \in r.files} ELSE saved
              /\ awaiting' = IF r.op = "ask" THEN awaiting \ {r.from} ELSE awaiting
<1> PICK r : r = Head(queue)
  OBVIOUS
<1>1. TypeInv /\ queue # <<>> /\ queue' = Tail(queue) /\ ProcessMessage(r)
      /\ UNCHANGED <<todo, pages, asked>>
  BY DEF ChannelInv, HandleMessage
<1>2. /\ queue' \in Seq(Request) /\ Len(queue) \in Nat \ {0}
      /\ DOMAIN queue = 1..Len(queue) /\ DOMAIN queue' = 1..(Len(queue) - 1)
      /\ Head(queue) = queue[1] /\ Head(queue) \in Request
      /\ \A k \in DOMAIN queue' : k + 1 \in DOMAIN queue /\ queue'[k] = queue[k + 1]
      /\ \A k \in DOMAIN queue : k = 1 \/ k - 1 \in DOMAIN queue'
      /\ \A op, f : \A k \in Nat : k \in Queued(op, f)' <=> k # 0 /\ k + 1 \in Queued(op, f)
  BY <1>1, TailIs
<1>3. /\ \A k \in DOMAIN queue : k \in Nat /\ k >= 1
      /\ \A k \in DOMAIN queue' : k \in Nat /\ k >= 1
      /\ 1 \in DOMAIN queue /\ r = queue[1] /\ r \in Request
  BY <1>2
<1>4. \A op, g : 1 \in Queued(op, g) <=> op = r.op /\ g \in r.files
  BY <1>3 DEF Queued
<1>5. \A op, g : \A k \in Queued(op, g) : k \in Nat /\ k >= 1
  BY <1>3 DEF Queued
<1>6. \A op, g : \A k \in Queued(op, g)' : k \in Nat /\ k + 1 \in Queued(op, g)
  <2>1. \A op, g : \A k \in Queued(op, g)' : k \in Nat
    BY <1>3 DEF Queued
  <2> QED BY <1>2, <2>1
<1>7. ASSUME NEW op, NEW g, NEW k \in Queued(op, g), k # 1
      PROVE  k - 1 \in Queued(op, g)'
  <2>1. k - 1 \in Nat /\ k - 1 # 0 /\ (k - 1) + 1 = k
    BY <1>5, <1>7
  <2> QED BY <1>2, <2>1
<1>8. r.op \in Ops /\ r.files \subseteq File /\ r.from \in Threads
  BY <1>3 DEF Request, Ops
<1>9. \A g \in File : writers'[g] = IF g \notin r.files THEN writers[g]
                                    ELSE IF r.op = "write" THEN writers[g] + 1
                                    ELSE IF r.op = "terminate" THEN 0 ELSE writers[g]
  BY <1>1 DEF ProcessMessage, Process
<1>10. \A g \in File : entries'[g] = IF r.op = "terminate" /\ g \in r.files
                                     THEN writers[g] ELSE entries[g]
  <2>1. \A g \in File : writers[g] - 0 = writers[g]
    BY <1>1 DEF TypeInv
  <2> QED BY <1>1, <2>1 DEF ProcessMessage, Process
<1>11. /\ saved' = IF r.op = "save" THEN saved \cup {<<g, entries[g]>> : g \in r.files} ELSE saved
       /\ awaiting' = IF r.op = "ask" THEN awaiting \ {r.from} ELSE awaiting
  BY <1>1 DEF ProcessMessage, Process
<1>12. writers' \in [File -> Nat]
  BY <1>1 DEF ProcessMessage, Process, TypeInv
<1>13. entries' \in [File -> Nat]
  <2>1. entries' = [g \in File |-> entries'[g]]
    BY <1>1 DEF ProcessMessage, Process
  <2>2. \A g \in File : entries'[g] \in Nat
    BY <1>1, <1>10 DEF TypeInv
  <2> QED BY <2>1, <2>2
<1>14. saved' \subseteq File \X Nat /\ awaiting' \subseteq Threads
  BY <1>1, <1>8, <1>11 DEF TypeInv
<1>15. TypeInv'
  BY <1>1, <1>2, <1>12, <1>13, <1>14 DEF TypeInv
<1> QED BY <1>2, <1>3, <1>4, <1>5, <1>6, <1>7, <1>9, <1>10, <1>11, <1>15

\* The terminate of a file records all its pages.
LEMMA HandleKeepsFile ==
  ASSUME ChannelInv, HandleMessage, NEW f \in File
  PROVE  /\ FileInv(f)'
         /\ 1 \in Queued("terminate", f) => entries'[f] # 0
         /\ entries[f] # 0 => entries'[f] = entries[f]
<1>1. PICK r :
        /\ r = queue[1] /\ r \in Request /\ 1 \in DOMAIN queue
        /\ \A k \in DOMAIN queue : k \in Nat /\ k >= 1
        /\ \A k \in DOMAIN queue' : k \in Nat /\ k >= 1 /\ k + 1 \in DOMAIN queue
                                    /\ queue'[k] = queue[k + 1]
        /\ \A k \in DOMAIN queue : k = 1 \/ k - 1 \in DOMAIN queue'
        /\ \A op, g : 1 \in Queued(op, g) <=> op = r.op /\ g \in r.files
        /\ \A op, g : \A k \in Queued(op, g) : k \in Nat /\ k >= 1
        /\ \A op, g : \A k \in Queued(op, g)' : k \in Nat /\ k + 1 \in Queued(op, g)
        /\ \A op, g : \A k \in Queued(op, g) : k = 1 \/ k - 1 \in Queued(op, g)'
        /\ \A g \in File : writers'[g] = IF g \notin r.files THEN writers[g]
                                         ELSE IF r.op = "write" THEN writers[g] + 1
                                         ELSE IF r.op = "terminate" THEN 0 ELSE writers[g]
        /\ \A g \in File : entries'[g] = IF r.op = "terminate" /\ g \in r.files
                                         THEN writers[g] ELSE entries[g]
        /\ saved' = IF r.op = "save" THEN saved \cup {<<g, entries[g]>> : g \in r.files} ELSE saved
        /\ awaiting' = IF r.op = "ask" THEN awaiting \ {r.from} ELSE awaiting
  BY HandleIs
<1>2. TypeInv /\ FileInv(f)
  BY DEF ChannelInv, HandleMessage
<1>3. /\ pages' = pages /\ todo' = todo
      /\ \A op : ToSend(f, op)' = ToSend(f, op)
  BY DEF HandleMessage, ToSend
<1>4. pages[f] \in Nat /\ entries[f] \in Nat /\ writers[f] \in Nat
  BY <1>2 DEF TypeInv
<1>5. NoneToSend(f)' = NoneToSend(f)
  BY <1>3 DEF NoneToSend
<1>6. \A op : Queued(op, f) = {} => Queued(op, f)' = {}
  BY <1>1
<1>7. ASSUME NEW k \in Queued("terminate", f)',
             NEW j \in Queued("write", f)' \cup Queued("terminate", f)'
      PROVE  j <= k
  <2>1. k \in Nat /\ k + 1 \in Queued("terminate", f)
    BY <1>1
  <2>2. j \in Nat /\ j + 1 \in Queued("write", f) \cup Queued("terminate", f)
    BY <1>1
  <2>3. j + 1 <= k + 1
    BY <1>2, <2>1, <2>2 DEF FileInv
  <2> QED BY <2>1, <2>2, <2>3
<1>8. \A k \in Queued("terminate", f)' : pages[f] > 0 /\ NoneToSend(f)
  BY <1>1, <1>2 DEF FileInv
<1>9. LET old == Cardinality(Queued("write", f))
      IN  /\ old \in Nat
          /\ Cardinality(Queued("write", f)') = IF 1 \in Queued("write", f) THEN old - 1 ELSE old
  <2>1. PICK n \in Nat : DOMAIN queue = 1..n
    <3>1. queue \in Seq(Request)
      BY <1>2 DEF TypeInv
    <3> QED BY <3>1
  <2>2. PICK S : S = Queued("write", f)
    OBVIOUS
  <2>3. PICK T : T = Queued("write", f)'
    OBVIOUS
  <2>4. S \in SUBSET (1..n)
    BY <2>1, <2>2 DEF Queued
  <2>5. T = {k \in 1..n : k + 1 \in S}
    <3>1. \A k \in T : k \in 1..n /\ k + 1 \in S
      <4> SUFFICES ASSUME NEW k \in T PROVE k \in 1..n /\ k + 1 \in S
        OBVIOUS
      <4>1. k \in Nat /\ k + 1 \in S
        BY <1>1, <2>2, <2>3
      <4>2. k \in DOMAIN queue'
        BY <2>3 DEF Queued
      <4>3. k >= 1 /\ k + 1 \in 1..n
        BY <1>1, <2>1, <4>2
      <4> QED BY <4>1, <4>3
    <3>2. \A k \in 1..n : k + 1 \in S => k \in T
      <4> SUFFICES ASSUME NEW k \in 1..n, k + 1 \in S PROVE k \in T
        OBVIOUS
      <4>1. k + 1 # 1 /\ (k + 1) - 1 = k
        OBVIOUS
      <4>2. k + 1 = 1 \/ (k + 1) - 1 \in T
        BY <1>1, <2>2, <2>3
      <4> QED BY <4>1, <4>2
    <3> QED BY <3>1, <3>2
  <2>6. /\ Cardinality(S) \in Nat
        /\ Cardinality(T) = IF 1 \in S THEN Cardinality(S) - 1 ELSE Cardinality(S)
    BY <2>4, <2>5, ShiftedCount
  <2> QED BY <2>2, <2>3, <2>6
<1>10. CASE f \notin r.files \/ r.op \notin {"write", "terminate"}
  <2>1. 1 \notin Queued("write", f) /\ 1 \notin Queued("terminate", f)
    BY <1>1, <1>10
  <2>2. entries'[f] = entries[f] /\ writers'[f] = writers[f]
    BY <1>1, <1>10
  <2>3. Queued("terminate", f) # {} => Queued("terminate", f)' # {}
    BY <1>1, <2>1
  <2>4. Cardinality(Queued("write", f)') = Cardinality(Queued("write", f))
    BY <1>9, <2>1
  <2> QED BY <1>2, <1>3, <1>5, <1>6, <1>7, <1>8, <2>1, <2>2, <2>3, <2>4 DEF FileInv
<1>11. CASE f \in r.files /\ r.op = "write"
  <2>1. 1 \in Queued("write", f) /\ 1 \notin Queued("terminate", f)
    BY <1>1, <1>11
  <2>2. entries[f] = 0
    BY <1>2, <2>1 DEF FileInv
  <2>3. entries'[f] = 0 /\ writers'[f] = writers[f] + 1
    BY <1>1, <1>11, <2>2
  <2>4. Queued("terminate", f) # {} => Queued("terminate", f)' # {}
    BY <1>1, <2>1
  <2>5. pages[f] = writers'[f] + Cardinality(Queued("write", f)')
    <3>1. pages[f] = writers[f] + Cardinality(Queued("write", f))
      BY <1>2, <2>2 DEF FileInv
    <3>2. /\ Cardinality(Queued("write", f)') = Cardinality(Queued("write", f)) - 1
          /\ Cardinality(Queued("write", f)) \in Nat
      BY <1>9, <2>1
    <3> QED BY <1>4, <2>3, <3>1, <3>2
  <2> QED BY <1>2, <1>3, <1>5, <1>6, <1>7, <1>8, <2>1, <2>2, <2>3, <2>4, <2>5 DEF FileInv
<1>12. CASE f \in r.files /\ r.op = "terminate"
  <2>1. 1 \in Queued("terminate", f) /\ 1 \notin Queued("write", f)
    BY <1>1, <1>12
  <2>2. /\ pages[f] > 0 /\ NoneToSend(f)
        /\ \A j \in Queued("write", f) \cup Queued("terminate", f) : j <= 1
    BY <1>2, <2>1 DEF FileInv
  <2>3. entries[f] = 0
    BY <1>2, <2>1 DEF FileInv
  <2>4. Queued("write", f) = {}
    <3> SUFFICES ASSUME NEW j \in Queued("write", f) PROVE FALSE
      OBVIOUS
    <3>1. j \in Nat /\ j >= 1 /\ j <= 1
      BY <1>1, <2>2
    <3>2. j = 1
      BY <3>1
    <3> QED BY <2>1, <3>2
  <2>5. Queued("terminate", f)' = {}
    <3> SUFFICES ASSUME NEW j \in Queued("terminate", f)' PROVE FALSE
      OBVIOUS
    <3>1. j \in Nat /\ j + 1 \in Queued("terminate", f)
      BY <1>1
    <3>2. j + 1 <= 1 /\ j \in DOMAIN queue'
      BY <2>2, <3>1 DEF Queued
    <3>3. j >= 1
      BY <1>1, <3>2
    <3> QED BY <3>1, <3>2, <3>3
  <2>6. Cardinality(Queued("write", f)) = 0
    BY <2>4, FS_EmptySet
  <2>7. writers[f] = pages[f]
    BY <1>2, <1>4, <2>3, <2>6 DEF FileInv
  <2>8. entries'[f] = pages[f] /\ pages[f] # 0
    BY <1>1, <1>4, <1>12, <2>2, <2>7
  <2> QED BY <1>2, <1>3, <1>5, <1>6, <2>2, <2>3, <2>4, <2>5, <2>8 DEF FileInv, NoneToSend
<1> QED BY <1>10, <1>11, <1>12

LEMMA HandleKeepsOwn ==
  ASSUME ChannelInv, HandleMessage
  PROVE  OwnInv'
<1>1. PICK r :
        /\ r = queue[1] /\ r \in Request /\ 1 \in DOMAIN queue
        /\ \A k \in DOMAIN queue : k \in Nat /\ k >= 1
        /\ \A k \in DOMAIN queue' : k \in Nat /\ k >= 1 /\ k + 1 \in DOMAIN queue
                                    /\ queue'[k] = queue[k + 1]
        /\ \A k \in DOMAIN queue : k = 1 \/ k - 1 \in DOMAIN queue'
        /\ \A op, g : 1 \in Queued(op, g) <=> op = r.op /\ g \in r.files
        /\ \A op, g : \A k \in Queued(op, g) : k \in Nat /\ k >= 1
        /\ \A op, g : \A k \in Queued(op, g)' : k \in Nat /\ k + 1 \in Queued(op, g)
        /\ \A op, g : \A k \in Queued(op, g) : k = 1 \/ k - 1 \in Queued(op, g)'
        /\ \A g \in File : writers'[g] = IF g \notin r.files THEN writers[g]
                                         ELSE IF r.op = "write" THEN writers[g] + 1
                                         ELSE IF r.op = "terminate" THEN 0 ELSE writers[g]
        /\ \A g \in File : entries'[g] = IF r.op = "terminate" /\ g \in r.files
                                         THEN writers[g] ELSE entries[g]
        /\ saved' = IF r.op = "save" THEN saved \cup {<<g, entries[g]>> : g \in r.files} ELSE saved
        /\ awaiting' = IF r.op = "ask" THEN awaiting \ {r.from} ELSE awaiting
  BY HandleIs
<1>2. OwnInv /\ todo' = todo
  BY DEF ChannelInv, HandleMessage
<1>3. ASSUME NEW k \in DOMAIN queue'
      PROVE  /\ queue'[k].op \in {"write", "terminate"} => queue'[k].files = {queue'[k].from}
             /\ queue'[k].op = "ask" => queue'[k].from \in awaiting'
  <2>1. k \in Nat /\ k >= 1 /\ k + 1 \in DOMAIN queue /\ queue'[k] = queue[k + 1]
    BY <1>1
  <2>2. k + 1 # 1
    BY <2>1
  <2>3. r.op = "ask" /\ queue[k + 1].op = "ask" => queue[k + 1].from # r.from
    BY <1>1, <1>2, <2>1, <2>2 DEF OwnInv
  <2>4. queue[k + 1].op = "ask" => queue[k + 1].from \in awaiting
    BY <1>2, <2>1 DEF OwnInv
  <2>5. queue'[k].op = "ask" => queue'[k].from \in awaiting'
    BY <1>1, <2>1, <2>3, <2>4
  <2> QED BY <1>2, <2>1, <2>5 DEF OwnInv
<1>4. ASSUME NEW j \in DOMAIN queue', NEW k \in DOMAIN queue',
             queue'[j].op = "ask", queue'[k].op = "ask", queue'[j].from = queue'[k].from
      PROVE  j = k
  <2>1. /\ j \in Nat /\ j + 1 \in DOMAIN queue /\ queue'[j] = queue[j + 1]
        /\ k \in Nat /\ k + 1 \in DOMAIN queue /\ queue'[k] = queue[k + 1]
    BY <1>1
  <2>2. j + 1 = k + 1
    BY <1>2, <1>4, <2>1 DEF OwnInv
  <2> QED BY <2>1, <2>2
<1> QED BY <1>2, <1>3, <1>4 DEF OwnInv

\* The SaveMetas that is handled finds its files recorded.
LEMMA HandleKeepsSave ==
  ASSUME ChannelInv, HandleMessage
  PROVE  /\ SaveInv'
         /\ \A s \in saved' : entries'[s[1]] # 0 /\ s[2] = pages'[s[1]]
<1>1. PICK r :
        /\ r = queue[1] /\ r \in Request /\ 1 \in DOMAIN queue
        /\ \A k \in DOMAIN queue : k \in Nat /\ k >= 1
        /\ \A k \in DOMAIN queue' : k \in Nat /\ k >= 1 /\ k + 1 \in DOMAIN queue
                                    /\ queue'[k] = queue[k + 1]
        /\ \A k \in DOMAIN queue : k = 1 \/ k - 1 \in DOMAIN queue'
        /\ \A op, g : 1 \in Queued(op, g) <=> op = r.op /\ g \in r.files
        /\ \A op, g : \A k \in Queued(op, g) : k \in Nat /\ k >= 1
        /\ \A op, g : \A k \in Queued(op, g)' : k \in Nat /\ k + 1 \in Queued(op, g)
        /\ \A op, g : \A k \in Queued(op, g) : k = 1 \/ k - 1 \in Queued(op, g)'
        /\ \A g \in File : writers'[g] = IF g \notin r.files THEN writers[g]
                                         ELSE IF r.op = "write" THEN writers[g] + 1
                                         ELSE IF r.op = "terminate" THEN 0 ELSE writers[g]
        /\ \A g \in File : entries'[g] = IF r.op = "terminate" /\ g \in r.files
                                         THEN writers[g] ELSE entries[g]
        /\ saved' = IF r.op = "save" THEN saved \cup {<<g, entries[g]>> : g \in r.files} ELSE saved
        /\ awaiting' = IF r.op = "ask" THEN awaiting \ {r.from} ELSE awaiting
  BY HandleIs
<1>2. /\ OwnInv /\ TypeInv /\ SaveInv /\ \A f \in File : FileInv(f)
      /\ \A s \in saved : entries[s[1]] # 0 /\ s[2] = pages[s[1]]
  BY DEF ChannelInv, HandleMessage
<1>3. /\ todo' = todo /\ pages' = pages /\ asked' = asked
      /\ doing' = doing /\ action' = action
      /\ \A u, op : ToSend(u, op)' = ToSend(u, op)
      /\ \A u : NoneToSend(u)' = NoneToSend(u)
  BY DEF HandleMessage, ToSend, NoneToSend, backendVars
<1>4. \A f \in File : /\ 1 \in Queued("terminate", f) => entries'[f] # 0
                      /\ entries[f] # 0 => entries'[f] = entries[f]
  BY HandleKeepsFile
<1>5. r.files \subseteq File /\ r.op \in Ops
  BY <1>1 DEF Request, Ops
<1>6. \A f \in File : entries[f] # 0 \/ Queued("terminate", f) # {} =>
                        entries'[f] # 0 \/ Queued("terminate", f)' # {}
  BY <1>1, <1>4
<1>7. ASSUME NEW f \in r.files, r.op = "save" PROVE entries[f] # 0 /\ entries[f] = pages[f]
  <2>1. 1 \in Queued("save", f) /\ f \in File
    BY <1>1, <1>5, <1>7
  <2>2. entries[f] # 0 \/ \E j \in Queued("terminate", f) : j < 1
    BY <1>2, <2>1 DEF SaveInv
  <2>3. ~ \E j \in Queued("terminate", f) : j < 1
    BY <1>1
  <2>4. entries[f] # 0
    BY <2>2, <2>3
  <2> QED BY <1>2, <2>1, <2>4 DEF FileInv
<1>8. ASSUME NEW s \in saved' PROVE entries'[s[1]] # 0 /\ s[2] = pages'[s[1]]
  <2>1. CASE s \in saved
    <3>1. s[1] \in File
      BY <1>2, <2>1 DEF TypeInv
    <3> QED BY <1>2, <1>3, <1>4, <2>1, <3>1
  <2>2. CASE s \notin saved
    <3>1. r.op = "save" /\ \E f \in r.files : s = <<f, entries[f]>>
      BY <1>1, <2>2
    <3>2. PICK f \in r.files : s = <<f, entries[f]>>
      BY <3>1
    <3>3. s[1] = f /\ s[2] = entries[f]
      BY <3>2
    <3> QED BY <1>3, <1>4, <1>5, <1>7, <3>1, <3>3
  <2> QED BY <2>1, <2>2
<1>9. ASSUME doing # "commit" \/ action = "commit"
      PROVE  /\ pages'[Worker] = 0 /\ NoneToSend(Worker)'
             /\ ToSend(Worker, "save")' = {} /\ saved' = {}
             /\ \A f \in File : Queued("save", f)' = {}
  <2>1. /\ pages[Worker] = 0 /\ NoneToSend(Worker)
        /\ ToSend(Worker, "save") = {} /\ saved = {}
        /\ \A f \in File : Queued("save", f) = {}
    BY <1>2, <1>9 DEF SaveInv
  <2>2. \A f \in File : Queued("save", f)' = {}
    BY <1>1, <2>1
  <2>3. r.op = "save" => r.files = {}
    BY <1>1, <1>5, <2>1
  <2>4. saved' = {}
    BY <1>1, <2>1, <2>3
  <2> QED BY <1>3, <2>1, <2>2, <2>4
<1>10. ASSUME NEW f \in File, NEW k \in Queued("save", f)'
       PROVE  /\ entries'[f] # 0 \/ \E j \in Queued("terminate", f)' : j < k
              /\ \/ \E j \in DOMAIN queue' : j > k /\ queue'[j].op = "ask" /\ queue'[j].from = Worker
                 \/ ToSend(Worker, "ask")' # {}
  <2>1. k \in Nat /\ k + 1 \in Queued("save", f)
    BY <1>1
  <2>2. ASSUME entries'[f] = 0 PROVE \E j \in Queued("terminate", f)' : j < k
    <3>1. entries[f] = 0
      BY <1>4, <2>2
    <3>2. PICK j \in Queued("terminate", f) : j < k + 1
      BY <1>2, <2>1, <3>1 DEF SaveInv
    <3>3. j # 1 /\ j \in Nat
      BY <1>1, <1>4, <2>2
    <3>4. j - 1 \in Queued("terminate", f)'
      BY <1>1, <3>3
    <3>5. j - 1 < k
      BY <2>1, <3>2, <3>3
    <3> QED BY <3>4, <3>5
  <2>3. CASE ToSend(Worker, "ask") # {}
    BY <1>3, <2>2, <2>3
  <2>4. CASE ToSend(Worker, "ask") = {}
    <3>1. PICK j \in DOMAIN queue : j > k + 1 /\ queue[j].op = "ask" /\ queue[j].from = Worker
      BY <1>2, <2>1, <2>4 DEF SaveInv
    <3>2. j \in Nat /\ j # 1 /\ j - 1 > k /\ (j - 1) + 1 = j
      BY <1>1, <2>1, <3>1
    <3>3. j - 1 \in DOMAIN queue' /\ queue'[j - 1] = queue[j]
      <4>1. j - 1 \in DOMAIN queue'
        BY <1>1, <3>2
      <4>2. queue'[j - 1] = queue[(j - 1) + 1]
        BY <1>1, <4>1
      <4> QED BY <3>2, <4>1, <4>2
    <3> QED BY <2>2, <3>1, <3>2, <3>3
  <2> QED BY <2>3, <2>4
<1>11. ASSUME NEW k \in ToSend(Worker, "save")'
       PROVE  /\ \A f \in todo'[Worker][k].files :
                   \/ entries'[f] # 0 \/ Queued("terminate", f)' # {}
                   \/ f = Worker /\ \E j \in ToSend(Worker, "terminate")' : j < k
              /\ \E j \in ToSend(Worker, "ask")' : j > k
  <2>1. k \in ToSend(Worker, "save")
    BY <1>3
  <2>2. \A f \in todo[Worker][k].files : f \in File
    <3>1. k \in DOMAIN todo[Worker] /\ Worker \in Threads
      BY <2>1 DEF ToSend, Threads
    <3>2. todo[Worker] \in Seq(Task)
      BY <1>2, <3>1 DEF TypeInv
    <3>3. todo[Worker][k] \in Task
      BY <3>1, <3>2
    <3> QED BY <3>3 DEF Task
  <2> QED BY <1>2, <1>3, <1>6, <2>1, <2>2 DEF SaveInv
<1>12. ASSUME NEW f \in asked' PROVE Queued("save", f)' # {} \/ \E s \in saved' : s[1] = f
  <2>1. CASE \E s \in saved : s[1] = f
    BY <1>1, <2>1
  <2>2. CASE 1 \in Queued("save", f)
    <3>1. <<f, entries[f]>> \in saved'
      BY <1>1, <2>2
    <3>2. <<f, entries[f]>>[1] = f
      OBVIOUS
    <3> QED BY <3>1, <3>2
  <2>3. CASE Queued("save", f) # {} /\ 1 \notin Queued("save", f)
    BY <1>1, <2>3
  <2> QED BY <1>2, <1>3, <2>1, <2>2, <2>3 DEF SaveInv
<1> QED BY <1>3, <1>8, <1>9, <1>10, <1>11, <1>12 DEF SaveInv

LEMMA HandleKeeps ==
  ASSUME ChannelInv, HandleMessage
  PROVE  ChannelInv'
<1>1. /\ ControlInv /\ connected' = "yes" /\ connected = "yes"
      /\ UNCHANGED <<connected, action, replied, backend, doing, todo>>
      /\ backend = "handle" /\ awaiting' \subseteq awaiting
  BY DEF ChannelInv, ControlInv, HandleMessage, ProcessMessage, Process, backendVars
<1>2. ControlInv'
  BY <1>1 DEF ControlInv, IsDone
<1>3. CommitIsSaved'
  BY <1>1 DEF CommitIsSaved
<1>4. TypeInv'
  BY HandleIs
<1> QED BY <1>2, <1>3, <1>4, HandleKeepsFile, HandleKeepsOwn, HandleKeepsSave DEF ChannelInv

(* The worker's actions.                                                    *)

LEMMA FileScriptIs ==
  ASSUME NEW f \in File, NEW n \in Nat
  PROVE  /\ FileScript(f, n) \in Seq(Task) /\ Len(FileScript(f, n)) = n + 1
         /\ \A k \in 1..n : FileScript(f, n)[k] = [op |-> "write", files |-> {f}]
         /\ FileScript(f, n)[n + 1] = [op |-> "terminate", files |-> {f}]
<1>1. PICK w : w = [op |-> "write", files |-> {f}]
  OBVIOUS
<1>2. PICK z : z = [op |-> "terminate", files |-> {f}]
  OBVIOUS
<1>3. w \in Task /\ z \in Task
  BY <1>1, <1>2 DEF Task, Ops
<1>4. PICK a : a = [k \in 1..n |-> w]
  OBVIOUS
<1>5. a \in Seq(Task) /\ Len(a) = n /\ \A k \in 1..n : a[k] = w
  BY <1>3, <1>4
<1>6. FileScript(f, n) = a \o <<z>>
  BY <1>1, <1>2, <1>4 DEF FileScript
<1>7. a \o <<z>> \in Seq(Task) /\ Len(a \o <<z>>) = n + 1
      /\ (\A k \in 1..n : (a \o <<z>>)[k] = w) /\ (a \o <<z>>)[n + 1] = z
  BY <1>3, <1>5
<1> QED BY <1>1, <1>2, <1>6, <1>7

LEMMA RunScriptIs ==
  ASSUME NEW f \in File, NEW n \in Nat, NEW first \in {<<>>, <<Step("ask")>>}
  PROVE  \E q :
           /\ q = first \o FileScript(f, n) /\ q \in Seq(Task)
           /\ \E o \in Nat :
                /\ DOMAIN q = 1..(o + n + 1)
                /\ \A k \in 1..o : q[k].op = "ask"
                /\ \A k \in (o + 1)..(o + n) : q[k] = [op |-> "write", files |-> {f}]
                /\ q[o + n + 1] = [op |-> "terminate", files |-> {f}]
<1> PICK q : q = first \o FileScript(f, n)
  OBVIOUS
<1> SUFFICES /\ q \in Seq(Task)
             /\ \E o \in Nat :
                  /\ DOMAIN q = 1..(o + n + 1)
                  /\ \A k \in 1..o : q[k].op = "ask"
                  /\ \A k \in (o + 1)..(o + n) : q[k] = [op |-> "write", files |-> {f}]
                  /\ q[o + n + 1] = [op |-> "terminate", files |-> {f}]
  OBVIOUS
<1>1. PICK a : a = FileScript(f, n)
  OBVIOUS
<1>2. PICK w : w = [op |-> "write", files |-> {f}]
  OBVIOUS
<1>3. PICK z : z = [op |-> "terminate", files |-> {f}]
  OBVIOUS
<1>4. a \in Seq(Task) /\ Len(a) = n + 1 /\ (\A k \in 1..n : a[k] = w) /\ a[n + 1] = z
  BY <1>1, <1>2, <1>3, FileScriptIs
<1>5. CASE first = <<>>
  <2>1. q = a
    BY <1>1, <1>4, <1>5
  <2>2. DOMAIN q = 1..(0 + n + 1)
    BY <1>4, <2>1
  <2>3. \A k \in 1..0 : q[k].op = "ask"
    OBVIOUS
  <2>4. \A k \in (0 + 1)..(0 + n) : q[k] = w
    BY <1>4, <2>1
  <2>5. q[0 + n + 1] = z
    BY <1>4, <2>1
  <2> QED BY <1>2, <1>3, <1>4, <2>1, <2>2, <2>3, <2>4, <2>5
<1>6. CASE first = <<Step("ask")>>
  <2>1. PICK x : x = Step("ask")
    OBVIOUS
  <2>2. x \in Task /\ x.op = "ask"
    BY <2>1 DEF Step, Task, Ops
  <2>3. q = <<x>> \o a
    BY <1>1, <1>6, <2>1
  <2>4. q \in Seq(Task) /\ Len(q) = n + 2 /\ q[1] = x /\ \A k \in 2..(n + 2) : q[k] = a[k - 1]
    BY <1>4, <2>2, <2>3
  <2>5. DOMAIN q = 1..(1 + n + 1)
    BY <2>4
  <2>6. \A k \in 1..1 : q[k].op = "ask"
    BY <2>2, <2>4
  <2>7. ASSUME NEW k \in (1 + 1)..(1 + n) PROVE q[k] = w
    <3>1. k \in 2..(n + 2) /\ k - 1 \in 1..n
      OBVIOUS
    <3> QED BY <1>4, <2>4, <3>1
  <2>8. q[1 + n + 1] = z
    <3>1. 1 + n + 1 \in 2..(n + 2) /\ (1 + n + 1) - 1 = n + 1
      OBVIOUS
    <3> QED BY <1>4, <2>4, <3>1
  <2> QED BY <1>2, <1>3, <2>4, <2>5, <2>6, <2>7, <2>8
<1> QED BY <1>5, <1>6

\* Two scripts, one after the other.
LEMMA ConcatIs ==
  ASSUME NEW S, NEW p \in Seq(S), NEW q \in Seq(S)
  PROVE  /\ p \o q \in Seq(S) /\ Len(p \o q) = Len(p) + Len(q)
         /\ \A k \in 1..Len(p) : (p \o q)[k] = p[k]
         /\ \A k \in 1..Len(q) : (p \o q)[Len(p) + k] = q[k]
OBVIOUS

LEMMA DomainIs ==
  ASSUME NEW S, NEW q \in Seq(S)
  PROVE  DOMAIN q = 1..Len(q)
OBVIOUS

LEMMA CommitScriptIs ==
  ASSUME NEW S \in SUBSET File, NEW merge \in {<<>>, MergeScript}
  PROVE  \E q :
           /\ q = CommitScript(S) \o merge /\ q \in Seq(Task)
           /\ q[1] = Save(S) /\ q[2].op = "ask" /\ q[3].op = "ask"
           /\ \/ DOMAIN q = 1..3
              \/ /\ DOMAIN q = 1..8 /\ q[4].op = "ask"
                 /\ q[5].op = "write" /\ q[5].files = {Worker}
                 /\ q[6].op = "terminate" /\ q[6].files = {Worker}
                 /\ q[7] = Save({Worker}) /\ q[8].op = "ask"
<1> PICK q : q = CommitScript(S) \o merge
  OBVIOUS
<1> SUFFICES /\ q \in Seq(Task)
             /\ q[1] = Save(S) /\ q[2].op = "ask" /\ q[3].op = "ask"
             /\ \/ DOMAIN q = 1..3
                \/ /\ DOMAIN q = 1..8 /\ q[4].op = "ask"
                   /\ q[5].op = "write" /\ q[5].files = {Worker}
                   /\ q[6].op = "terminate" /\ q[6].files = {Worker}
                   /\ q[7] = Save({Worker}) /\ q[8].op = "ask"
  OBVIOUS
<1>1. PICK x : x = Step("ask")
  OBVIOUS
<1>2. x \in Task /\ x.op = "ask"
  BY <1>1 DEF Step, Task, Ops
<1>3. Worker \in File
  BY DEF File, Threads
<1>4. PICK v : v = Save(S)
  OBVIOUS
<1>5. PICK y : y = Save({Worker})
  OBVIOUS
<1>6. v \in Task /\ y \in Task
  BY <1>3, <1>4, <1>5 DEF Save, Task, Ops
<1>7. CommitScript(S) = <<v, x, x>>
  BY <1>1, <1>4 DEF CommitScript
<1>8. CASE merge = <<>>
  <2>1. q = <<v, x, x>>
    BY <1>2, <1>6, <1>7, <1>8
  <2> QED BY <1>2, <1>4, <1>6, <2>1
<1>9. CASE merge = MergeScript
  <2>1. PICK a : a = FileScript(Worker, 1)
    OBVIOUS
  <2>2. /\ a \in Seq(Task) /\ Len(a) = 2
        /\ a[1] = [op |-> "write", files |-> {Worker}]
        /\ a[2] = [op |-> "terminate", files |-> {Worker}]
    <3>1. /\ a \in Seq(Task) /\ Len(a) = 1 + 1
          /\ \A k \in 1..1 : a[k] = [op |-> "write", files |-> {Worker}]
          /\ a[1 + 1] = [op |-> "terminate", files |-> {Worker}]
      BY <1>3, <2>1, FileScriptIs
    <3>2. 1 + 1 = 2 /\ 1 \in 1..1
      OBVIOUS
    <3> QED BY <3>1, <3>2
  <2>3. PICK c : c = <<x>> \o a
    OBVIOUS
  <2>4. PICK d : d = <<y, x>>
    OBVIOUS
  <2>5. merge = c \o d
    BY <1>1, <1>5, <1>9, <2>1, <2>3, <2>4 DEF MergeScript
  <2>6. c \in Seq(Task) /\ Len(c) = 3 /\ c[1] = x /\ c[2] = a[1] /\ c[3] = a[2]
    <3>1. PICK h : h = <<x>>
      OBVIOUS
    <3>2. h \in Seq(Task) /\ Len(h) = 1 /\ h[1] = x
      BY <1>2, <3>1
    <3>3. c = h \o a
      BY <2>3, <3>1
    <3>4. /\ c \in Seq(Task) /\ Len(c) = Len(h) + Len(a)
          /\ \A k \in 1..Len(h) : c[k] = h[k]
          /\ \A k \in 1..Len(a) : c[Len(h) + k] = a[k]
      <4>1. h \in Seq(Task) /\ a \in Seq(Task)
        BY <2>2, <3>2
      <4>2. /\ h \o a \in Seq(Task) /\ Len(h \o a) = Len(h) + Len(a)
            /\ \A k \in 1..Len(h) : (h \o a)[k] = h[k]
            /\ \A k \in 1..Len(a) : (h \o a)[Len(h) + k] = a[k]
        BY <4>1, ConcatIs
      <4> QED BY <3>3, <4>2
    <3>5. c \in Seq(Task) /\ Len(c) = 1 + 2 /\ c[1] = x /\ c[1 + 1] = a[1] /\ c[1 + 2] = a[2]
      BY <2>2, <3>2, <3>4
    <3> QED BY <3>5
  <2>7. d \in Seq(Task) /\ Len(d) = 2 /\ d[1] = y /\ d[2] = x
    BY <1>2, <1>6, <2>4
  <2>8. /\ merge \in Seq(Task) /\ Len(merge) = 5
        /\ merge[1] = x /\ merge[2] = a[1] /\ merge[3] = a[2] /\ merge[4] = y /\ merge[5] = x
    <3>1. /\ merge \in Seq(Task) /\ Len(merge) = Len(c) + Len(d)
          /\ \A k \in 1..Len(c) : merge[k] = c[k]
          /\ \A k \in 1..Len(d) : merge[Len(c) + k] = d[k]
      <4>1. c \in Seq(Task) /\ d \in Seq(Task)
        BY <2>6, <2>7
      <4>2. /\ c \o d \in Seq(Task) /\ Len(c \o d) = Len(c) + Len(d)
            /\ \A k \in 1..Len(c) : (c \o d)[k] = c[k]
            /\ \A k \in 1..Len(d) : (c \o d)[Len(c) + k] = d[k]
        BY <4>1, ConcatIs
      <4> QED BY <2>5, <4>2
    <3>2. merge[1] = c[1] /\ merge[2] = c[2] /\ merge[3] = c[3]
      BY <2>6, <3>1
    <3>3. Len(merge) = 3 + 2 /\ merge[3 + 1] = d[1] /\ merge[3 + 2] = d[2]
      BY <2>6, <2>7, <3>1
    <3> QED BY <2>6, <2>7, <3>1, <3>2, <3>3
  <2>9. PICK e : e = <<v, x, x>>
    OBVIOUS
  <2>10. e \in Seq(Task) /\ Len(e) = 3 /\ e[1] = v /\ e[2] = x /\ e[3] = x
    BY <1>2, <1>6, <2>9
  <2>11. q = e \o merge
    BY <1>7, <2>9
  <2>12. /\ q \in Seq(Task) /\ Len(q) = Len(e) + Len(merge)
         /\ \A k \in 1..Len(e) : q[k] = e[k]
         /\ \A k \in 1..Len(merge) : q[Len(e) + k] = merge[k]
    <3>1. e \in Seq(Task) /\ merge \in Seq(Task)
      BY <2>8, <2>10
    <3>2. /\ e \o merge \in Seq(Task) /\ Len(e \o merge) = Len(e) + Len(merge)
          /\ \A k \in 1..Len(e) : (e \o merge)[k] = e[k]
          /\ \A k \in 1..Len(merge) : (e \o merge)[Len(e) + k] = merge[k]
      BY <3>1, ConcatIs
    <3> QED BY <2>11, <3>2
  <2>13. q[1] = v /\ q[2] = x /\ q[3] = x
    BY <2>10, <2>12
  <2>14. /\ Len(q) = 3 + 5 /\ q[3 + 1] = x /\ q[3 + 2] = a[1]
         /\ q[3 + 3] = a[2] /\ q[3 + 4] = y /\ q[3 + 5] = x
    <3>1. Len(e) = 3 /\ Len(merge) = 5
      BY <2>8, <2>10
    <3>2. Len(q) = 3 + 5 /\ \A k \in 1..5 : q[3 + k] = merge[k]
      BY <2>12, <3>1
    <3>3. 1 \in 1..5 /\ 2 \in 1..5 /\ 3 \in 1..5 /\ 4 \in 1..5 /\ 5 \in 1..5
      OBVIOUS
    <3> QED BY <2>8, <3>2, <3>3
  <2>15. q[4] = x /\ q[5] = a[1] /\ q[6] = a[2] /\ q[7] = y /\ q[8] = x
    BY <2>14
  <2>16. DOMAIN q = 1..8
    <3>1. q \in Seq(Task) /\ Len(q) = 8
      BY <2>12, <2>14
    <3>2. DOMAIN q = 1..Len(q)
      BY <3>1, DomainIs
    <3> QED BY <3>1, <3>2
  <2> QED BY <1>2, <1>4, <1>5, <2>2, <2>12, <2>13, <2>15, <2>16
<1> QED BY <1>8, <1>9

\* No SaveMetas is in the channel when the worker has finished what it did.
LEMMA NoSaveQueued ==
  ASSUME ChannelInv, Live, IsDone(Worker)
  PROVE  \A f \in File : Queued("save", f) = {}
<1> SUFFICES ASSUME NEW f \in File, NEW k \in Queued("save", f) PROVE FALSE
  OBVIOUS
<1>1. OwnInv /\ SaveInv
  BY DEF ChannelInv, Live
<1>2. ToSend(Worker, "ask") = {}
  BY DEF IsDone, ToSend
<1>3. PICK j \in DOMAIN queue : queue[j].op = "ask" /\ queue[j].from = Worker
  BY <1>1, <1>2 DEF SaveInv
<1> QED BY <1>1, <1>3 DEF OwnInv, IsDone

\* A file whose thread has as much to do for it as before.
LEMMA SameFile ==
  ASSUME NEW f, FileInv(f), UNCHANGED <<queue, pages, writers, entries>>,
         ToSend(f, "write")' = ToSend(f, "write"),
         ToSend(f, "terminate")' = ToSend(f, "terminate")
  PROVE  FileInv(f)'
<1>1. \A op : Queued(op, f)' = Queued(op, f)
  BY DEF Queued
<1> QED BY <1>1 DEF FileInv, NoneToSend

\* What the actions of the worker have in common.
LEMMA WorkerBegins ==
  ASSUME ChannelInv, action \in {"open", "run", "commit"}, action' = "working",
         UNCHANGED <<queue, connected, pages, awaiting, asked, replied, backendVars, handlerVars>>
  PROVE  /\ ControlInv' /\ CommitIsSaved' /\ todo[Worker] = <<>>
         /\ \A s \in saved' : entries'[s[1]] # 0 /\ s[2] = pages'[s[1]]
         /\ \A op, f : Queued(op, f)' = Queued(op, f)
         /\ Live' => Live /\ OwnInv /\ SaveInv /\ \A f \in File : FileInv(f) /\ Queued("save", f) = {}
<1>1. UNCHANGED <<queue, connected, pages, asked, replied, backend, doing, writers, entries, saved>>
  BY DEF backendVars, handlerVars
<1>2. ControlInv /\ CommitIsSaved
  BY DEF ChannelInv
<1>3. ControlInv' /\ IsDone(Worker)
  BY <1>1, <1>2 DEF ControlInv
<1>4. CommitIsSaved'
  BY <1>1, <1>2 DEF CommitIsSaved
<1>5. \A s \in saved' : entries'[s[1]] # 0 /\ s[2] = pages'[s[1]]
  BY <1>1 DEF ChannelInv
<1>6. \A op, f : Queued(op, f)' = Queued(op, f)
  BY <1>1 DEF Queued
<1>7. Live' => Live
  BY <1>1 DEF Live
<1>8. Live => OwnInv /\ SaveInv /\ \A f \in File : FileInv(f)
  BY DEF ChannelInv, Live
<1>9. Live => \A f \in File : Queued("save", f) = {}
  BY <1>3, NoSaveQueued
<1> QED BY <1>3, <1>4, <1>5, <1>6, <1>7, <1>8, <1>9 DEF IsDone

LEMMA OpenKeeps ==
  ASSUME ChannelInv, WorkOpen
  PROVE  ChannelInv'
<1>1. PICK x : x = Step("ask")
  OBVIOUS
<1>2. x \in Task /\ x.op = "ask"
  BY <1>1 DEF Step, Task, Ops
<1>3. PICK q : q = <<x>>
  OBVIOUS
<1>4. q \in Seq(Task) /\ DOMAIN q = {1} /\ q[1] = x
  BY <1>2, <1>3
<1>5. TypeInv /\ todo' = [todo EXCEPT ![Worker] = q] /\ Worker \in Threads
  BY <1>1, <1>3 DEF ChannelInv, WorkOpen, Threads
<1>6. /\ todo' \in [Threads -> Seq(Task)] /\ todo'[Worker] = q
      /\ \A t \in Threads : t # Worker => todo'[t] = todo[t]
  BY <1>4, <1>5 DEF TypeInv
<1>7. /\ UNCHANGED <<queue, pages, awaiting, asked, backend, doing, writers, entries, saved>>
      /\ action = "open"
  BY DEF WorkOpen, backendVars, handlerVars
<1>8. TypeInv'
  BY <1>5, <1>6, <1>7 DEF TypeInv
<1>9. /\ ControlInv' /\ CommitIsSaved' /\ todo[Worker] = <<>>
      /\ \A s \in saved' : entries'[s[1]] # 0 /\ s[2] = pages'[s[1]]
      /\ \A op, f : Queued(op, f)' = Queued(op, f)
      /\ Live' => Live /\ OwnInv /\ SaveInv /\ \A f \in File : FileInv(f) /\ Queued("save", f) = {}
  BY WorkerBegins DEF WorkOpen
<1>10. ASSUME NEW op, op # "ask" PROVE \A t \in Threads : ToSend(t, op)' = ToSend(t, op)
  <2>1. ToSend(Worker, op)' = {} /\ ToSend(Worker, op) = {}
    BY <1>2, <1>4, <1>6, <1>9, <1>10 DEF ToSend
  <2> QED BY <1>6, <2>1 DEF ToSend
<1>11. ASSUME Live' PROVE OwnInv' /\ SaveInv' /\ \A f \in File : FileInv(f)'
  <2>1. OwnInv /\ SaveInv /\ \A f \in File : FileInv(f) /\ Queued("save", f) = {}
    BY <1>9, <1>11
  <2>2. \A f \in File : FileInv(f)'
    BY <1>7, <1>10, <2>1, SameFile DEF File
  <2>3. OwnInv'
    <3>1. ASSUME NEW t \in Threads, NEW k \in DOMAIN todo'[t]
          PROVE  /\ todo'[t][k].op \in {"write", "terminate"} => todo'[t][k].files = {t}
                 /\ todo'[t][k].op = "save" => t = Worker
      <4>1. CASE t = Worker
        BY <1>2, <1>4, <1>6, <4>1
      <4>2. CASE t # Worker
        BY <1>6, <2>1, <4>2 DEF OwnInv
      <4> QED BY <4>1, <4>2
    <3> QED BY <1>7, <2>1, <3>1 DEF OwnInv
  <2>4. doing # "commit"
    BY <1>7 DEF ChannelInv, ControlInv
  <2>5. ToSend(Worker, "save") = {} /\ NoneToSend(Worker) /\ NoneToSend(Worker)'
        /\ ToSend(Worker, "save")' = {}
    BY <1>5, <1>10, <2>1, <2>4 DEF SaveInv, NoneToSend
  <2>6. SaveInv'
    BY <1>7, <1>9, <2>1, <2>4, <2>5 DEF SaveInv
  <2> QED BY <2>2, <2>3, <2>6
<1> QED BY <1>8, <1>9, <1>11 DEF ChannelInv, Live

LEMMA RunKeeps ==
  ASSUME ChannelInv, NEW S \in SUBSET Indexers, NEW n \in 1..MaxPages,
         NEW first \in {<<>>, <<Step("ask")>>}, WorkRun(S, n, first)
  PROVE  ChannelInv'
<1>1. TypeInv /\ Worker \in Threads /\ Worker \notin S /\ S \subseteq Threads /\ S \subseteq File
      /\ n \in Nat /\ n >= 1
  BY ChannelAssumption DEF ChannelInv, Threads, File
<1>2. todo' = [t \in Threads |-> IF t \in S THEN first \o FileScript(t, n) ELSE todo[t]]
  BY DEF WorkRun
<1>3. \A t \in Threads : t \notin S => todo'[t] = todo[t]
  BY <1>2
<1>4. ASSUME NEW t \in S
      PROVE  /\ todo'[t] \in Seq(Task)
             /\ \E o \in Nat :
                  /\ DOMAIN todo'[t] = 1..(o + n + 1)
                  /\ \A k \in 1..o : todo'[t][k].op = "ask"
                  /\ \A k \in (o + 1)..(o + n) : todo'[t][k] = [op |-> "write", files |-> {t}]
                  /\ todo'[t][o + n + 1] = [op |-> "terminate", files |-> {t}]
  <2>1. todo'[t] = first \o FileScript(t, n)
    BY <1>1, <1>2
  <2>2. t \in File
    BY <1>1
  <2>3. n \in Nat
    BY <1>1
  <2>4. PICK q :
          /\ q = first \o FileScript(t, n) /\ q \in Seq(Task)
          /\ \E o \in Nat :
               /\ DOMAIN q = 1..(o + n + 1)
               /\ \A k \in 1..o : q[k].op = "ask"
               /\ \A k \in (o + 1)..(o + n) : q[k] = [op |-> "write", files |-> {t}]
               /\ q[o + n + 1] = [op |-> "terminate", files |-> {t}]
    BY <2>2, <2>3, RunScriptIs
  <2>5. q = todo'[t]
    BY <2>1, <2>4
  <2> QED BY <2>4, <2>5
<1>5. todo' \in [Threads -> Seq(Task)]
  <2>1. \A t \in Threads : todo'[t] \in Seq(Task)
    BY <1>1, <1>3, <1>4 DEF TypeInv
  <2> QED BY <1>2, <2>1
<1>6. /\ UNCHANGED <<queue, pages, awaiting, asked, backend, doing, writers, entries, saved>>
      /\ action = "run" /\ action' = "working"
  BY DEF WorkRun, backendVars, handlerVars
<1>7. TypeInv'
  BY <1>1, <1>5, <1>6 DEF TypeInv
<1>8. /\ ControlInv' /\ CommitIsSaved' /\ todo[Worker] = <<>>
      /\ \A s \in saved' : entries'[s[1]] # 0 /\ s[2] = pages'[s[1]]
      /\ \A op, f : Queued(op, f)' = Queued(op, f)
      /\ Live' => Live /\ OwnInv /\ SaveInv /\ \A f \in File : FileInv(f) /\ Queued("save", f) = {}
  BY WorkerBegins DEF WorkRun
<1>9. \A t \in Threads : t \notin S => \A op : ToSend(t, op)' = ToSend(t, op)
  BY <1>3 DEF ToSend
<1>10. ASSUME Live', NEW f \in S
       PROVE  /\ FileInv(f)'
              /\ \A k \in DOMAIN todo'[f] :
                   /\ todo'[f][k].op \in {"write", "terminate"} => todo'[f][k].files = {f}
                   /\ todo'[f][k].op # "save"
  <2>1. PICK o \in Nat :
          /\ DOMAIN todo'[f] = 1..(o + n + 1)
          /\ \A k \in 1..o : todo'[f][k].op = "ask"
          /\ \A k \in (o + 1)..(o + n) : todo'[f][k] = [op |-> "write", files |-> {f}]
          /\ todo'[f][o + n + 1] = [op |-> "terminate", files |-> {f}]
    BY <1>4
  <2>2. \A k \in (o + 1)..(o + n) : todo'[f][k].op = "write" /\ todo'[f][k].files = {f}
    BY <2>1
  <2>3. todo'[f][o + n + 1].op = "terminate" /\ todo'[f][o + n + 1].files = {f}
    BY <2>1
  <2>4. 1..(o + n + 1) = 1..o \cup (o + 1)..(o + n) \cup {o + n + 1}
    BY <1>1
  <2>5. ToSend(f, "write")' = (o + 1)..(o + n)
    BY <2>1, <2>2, <2>3, <2>4 DEF ToSend
  <2>6. ToSend(f, "terminate")' = {o + n + 1}
    BY <2>1, <2>2, <2>3, <2>4 DEF ToSend
  <2>7. pages[f] = 0 /\ FileInv(f) /\ f \in File
    BY <1>1, <1>8, <1>10 DEF WorkRun
  <2>8. entries[f] = 0 /\ Queued("terminate", f) = {}
    BY <2>7 DEF FileInv
  <2>9. pages[f] = writers[f] + Cardinality(Queued("write", f))
    BY <2>7, <2>8 DEF FileInv
  <2>10. ToSend(f, "write")' # {}
    BY <1>1, <2>5
  <2>11. \A k \in (o + 1)..(o + n) : o + n + 1 > k
    BY <1>1
  <2>12. \A j \in (o + 1)..(o + n) \cup {o + n + 1} : j <= o + n + 1
    BY <1>1
  <2>13. FileInv(f)'
    <3>1. pages'[f] = 0 /\ entries'[f] = 0 /\ writers'[f] = writers[f]
      BY <1>6, <2>7, <2>8
    <3>2. pages'[f] = writers'[f] + Cardinality(Queued("write", f)')
      BY <1>8, <2>7, <2>9, <3>1
    <3>3. Queued("terminate", f)' = {}
      BY <1>8, <2>8
    <3>4. \A k \in ToSend(f, "write")' : \E j \in ToSend(f, "terminate")' : j > k
      BY <2>5, <2>6, <2>11
    <3>5. \A k \in ToSend(f, "terminate")' :
            \A j \in ToSend(f, "write")' \cup ToSend(f, "terminate")' : j <= k
      BY <2>5, <2>6, <2>12
    <3>6. ~(pages'[f] > 0)
      BY <3>1
    <3> QED BY <2>10, <3>1, <3>2, <3>3, <3>4, <3>5, <3>6 DEF FileInv
  <2>14. ASSUME NEW k \in DOMAIN todo'[f]
         PROVE  /\ todo'[f][k].op \in {"write", "terminate"} => todo'[f][k].files = {f}
                /\ todo'[f][k].op # "save"
    <3>1. k \in 1..o \/ k \in (o + 1)..(o + n) \/ k = o + n + 1
      BY <2>1, <2>4
    <3> QED BY <2>1, <2>2, <2>3, <3>1
  <2> QED BY <2>13, <2>14
<1>11. ASSUME Live' PROVE OwnInv' /\ SaveInv' /\ \A f \in File : FileInv(f)'
  <2>1. OwnInv /\ SaveInv /\ \A f \in File : FileInv(f) /\ Queued("save", f) = {}
    BY <1>8, <1>11
  <2>2. ASSUME NEW f \in File PROVE FileInv(f)'
    <3>1. CASE f \in S
      BY <1>10, <1>11, <3>1
    <3>2. CASE f \notin S
      BY <1>6, <1>9, <2>1, <3>2, SameFile DEF File
    <3> QED BY <3>1, <3>2
  <2>3. ASSUME NEW t \in Threads, NEW k \in DOMAIN todo'[t]
        PROVE  /\ todo'[t][k].op \in {"write", "terminate"} => todo'[t][k].files = {t}
               /\ todo'[t][k].op = "save" => t = Worker
    <3>1. CASE t \in S
      BY <1>10, <1>11, <3>1
    <3>2. CASE t \notin S
      BY <1>3, <2>1, <3>2 DEF OwnInv
    <3> QED BY <3>1, <3>2
  <2>4. OwnInv'
    BY <1>6, <2>1, <2>3 DEF OwnInv
  <2>5. doing # "commit"
    BY <1>6 DEF ChannelInv, ControlInv
  <2>6. \A op : ToSend(Worker, op)' = ToSend(Worker, op)
    BY <1>1, <1>9
  <2>7. ToSend(Worker, "save")' = {} /\ NoneToSend(Worker)'
    BY <2>1, <2>5, <2>6 DEF SaveInv, NoneToSend
  <2>8. SaveInv'
    BY <1>6, <1>8, <2>1, <2>5, <2>7 DEF SaveInv
  <2> QED BY <2>2, <2>4, <2>8
<1> QED BY <1>7, <1>8, <1>11 DEF ChannelInv, Live

LEMMA CommitKeeps ==
  ASSUME ChannelInv, WorkCommit
  PROVE  ChannelInv'
<1>1. PICK P : P = {i \in Indexers : pages[i] > 0}
  OBVIOUS
<1>2. PICK merge \in {<<>>, MergeScript} :
        todo' = [todo EXCEPT ![Worker] = CommitScript(P) \o merge]
  BY <1>1 DEF WorkCommit
<1>3. merge \in {<<>>, MergeScript}
  BY <1>2
<1>4. P \in SUBSET File /\ Worker \in Threads /\ Worker \in File /\ Worker \notin P /\ TypeInv
  BY <1>1, ChannelAssumption DEF File, Threads, ChannelInv
<1>5. PICK q :
        /\ q = CommitScript(P) \o merge /\ q \in Seq(Task)
        /\ q[1] = Save(P) /\ q[2].op = "ask" /\ q[3].op = "ask"
        /\ \/ DOMAIN q = 1..3
           \/ /\ DOMAIN q = 1..8 /\ q[4].op = "ask"
              /\ q[5].op = "write" /\ q[5].files = {Worker}
              /\ q[6].op = "terminate" /\ q[6].files = {Worker}
              /\ q[7] = Save({Worker}) /\ q[8].op = "ask"
  BY <1>3, <1>4, CommitScriptIs
<1>6. \A R : Save(R).op = "save" /\ Save(R).files = R
  BY DEF Save
<1>7. /\ todo' \in [Threads -> Seq(Task)] /\ todo'[Worker] = q
      /\ \A t \in Threads : t # Worker => todo'[t] = todo[t]
  BY <1>2, <1>4, <1>5 DEF TypeInv
<1>8. /\ UNCHANGED <<queue, pages, awaiting, asked, backend, doing, writers, entries, saved>>
      /\ action = "commit" /\ action' = "working"
  BY DEF WorkCommit, backendVars, handlerVars
<1>9. TypeInv'
  BY <1>4, <1>7, <1>8 DEF TypeInv
<1>10. /\ ControlInv' /\ CommitIsSaved' /\ todo[Worker] = <<>>
       /\ \A s \in saved' : entries'[s[1]] # 0 /\ s[2] = pages'[s[1]]
       /\ \A op, f : Queued(op, f)' = Queued(op, f)
       /\ Live' => Live /\ OwnInv /\ SaveInv /\ \A f \in File : FileInv(f) /\ Queued("save", f) = {}
  BY WorkerBegins DEF WorkCommit
<1>11. doing' = "commit"
  BY <1>8 DEF ChannelInv, ControlInv
<1>12. \A t \in Threads : t # Worker => \A op : ToSend(t, op)' = ToSend(t, op)
  BY <1>7 DEF ToSend
<1>13. \/ /\ ToSend(Worker, "save")' = {1} /\ ToSend(Worker, "ask")' = {2, 3}
          /\ ToSend(Worker, "write")' = {} /\ ToSend(Worker, "terminate")' = {}
       \/ /\ ToSend(Worker, "save")' = {1, 7} /\ ToSend(Worker, "ask")' = {2, 3, 4, 8}
          /\ ToSend(Worker, "write")' = {5} /\ ToSend(Worker, "terminate")' = {6}
          /\ todo'[Worker][7].files = {Worker}
  <2>1. CASE DOMAIN q = 1..3
    <3>1. DOMAIN q = {1, 2, 3}
      BY <2>1
    <3>2. q[1].op = "save" /\ q[2].op = "ask" /\ q[3].op = "ask"
      BY <1>5, <1>6
    <3> QED BY <1>7, <3>1, <3>2 DEF ToSend
  <2>2. CASE /\ DOMAIN q = 1..8 /\ q[4].op = "ask"
             /\ q[5].op = "write" /\ q[6].op = "terminate"
             /\ q[7] = Save({Worker}) /\ q[8].op = "ask"
    <3>1. DOMAIN q = {1, 2, 3, 4, 5, 6, 7, 8}
      BY <2>2
    <3>2. /\ q[1].op = "save" /\ q[2].op = "ask" /\ q[3].op = "ask" /\ q[4].op = "ask"
          /\ q[5].op = "write" /\ q[6].op = "terminate" /\ q[7].op = "save" /\ q[8].op = "ask"
          /\ q[7].files = {Worker}
      BY <1>5, <1>6, <2>2
    <3> QED BY <1>7, <3>1, <3>2 DEF ToSend
  <2> QED BY <1>5, <2>1, <2>2
<1>14. todo'[Worker][1].files = P
  <2>1. q[1] = Save(P)
    BY <1>5
  <2>2. q[1].files = P
    BY <1>6, <2>1
  <2> QED BY <1>7, <2>2
<1>15. ASSUME Live' PROVE OwnInv' /\ SaveInv' /\ \A f \in File : FileInv(f)'
  <2>1. OwnInv /\ SaveInv /\ \A f \in File : FileInv(f) /\ Queued("save", f) = {}
    BY <1>10, <1>15
  <2>2. pages[Worker] = 0
    BY <1>8, <2>1 DEF SaveInv
  <2>3. ASSUME NEW f \in File PROVE FileInv(f)'
    <3>1. CASE f # Worker
      BY <1>8, <1>12, <2>1, <3>1, SameFile DEF File
    <3>2. CASE f = Worker
      <4>1. FileInv(f) /\ pages[f] = 0
        BY <2>1, <2>2, <3>2
      <4>2. entries[f] = 0 /\ Queued("terminate", f) = {}
        BY <4>1 DEF FileInv
      <4>3. pages[f] = writers[f] + Cardinality(Queued("write", f))
        BY <4>1, <4>2 DEF FileInv
      <4>4. /\ entries'[f] = 0 /\ Queued("terminate", f)' = {} /\ ~(pages'[f] > 0)
            /\ pages'[f] = writers'[f] + Cardinality(Queued("write", f)')
        BY <1>8, <1>10, <4>1, <4>2, <4>3
      <4>5. /\ \A k \in ToSend(f, "write")' : \E j \in ToSend(f, "terminate")' : j > k
            /\ \A k \in ToSend(f, "terminate")' :
                 /\ ToSend(f, "write")' # {}
                 /\ \A j \in ToSend(f, "write")' \cup ToSend(f, "terminate")' : j <= k
        <5>1. CASE ToSend(Worker, "write")' = {} /\ ToSend(Worker, "terminate")' = {}
          BY <3>2, <5>1
        <5>2. CASE ToSend(Worker, "write")' = {5} /\ ToSend(Worker, "terminate")' = {6}
          BY <3>2, <5>2
        <5> QED BY <1>13, <5>1, <5>2
      <4> QED BY <4>4, <4>5 DEF FileInv
    <3> QED BY <3>1, <3>2
  <2>4. ASSUME NEW t \in Threads, NEW k \in DOMAIN todo'[t]
        PROVE  /\ todo'[t][k].op \in {"write", "terminate"} => todo'[t][k].files = {t}
               /\ todo'[t][k].op = "save" => t = Worker
    <3>1. CASE t # Worker
      BY <1>7, <2>1, <3>1 DEF OwnInv
    <3>2. CASE t = Worker
      <4>1. k \in DOMAIN q /\ todo'[t][k] = q[k]
        BY <1>7, <3>2
      <4>2. CASE DOMAIN q = 1..3
        <5>1. k \in {1, 2, 3}
          BY <4>1, <4>2
        <5>2. q[1].op = "save" /\ q[2].op = "ask" /\ q[3].op = "ask"
          BY <1>5, <1>6
        <5>3. q[k].op \in {"save", "ask"}
          BY <5>1, <5>2
        <5> QED BY <3>2, <4>1, <5>3
      <4>3. CASE /\ DOMAIN q = 1..8 /\ q[4].op = "ask"
                 /\ q[5].files = {Worker} /\ q[6].files = {Worker}
                 /\ q[7] = Save({Worker}) /\ q[8].op = "ask"
        <5>1. k \in {1, 2, 3, 4, 5, 6, 7, 8}
          BY <4>1, <4>3
        <5>2. q[k].op \in {"write", "terminate"} => q[k].files = {Worker}
          BY <1>5, <1>6, <4>3, <5>1
        <5> QED BY <3>2, <4>1, <5>2
      <4> QED BY <1>5, <4>2, <4>3
    <3> QED BY <3>1, <3>2
  <2>5. OwnInv'
    BY <1>8, <2>1, <2>4 DEF OwnInv
  <2>6. ASSUME NEW f \in P PROVE entries'[f] # 0 \/ Queued("terminate", f)' # {}
    <3>1. f \in Indexers /\ pages[f] > 0 /\ f \in File
      BY <1>1, <1>4
    <3>2. todo[f] = <<>>
      BY <3>1 DEF WorkCommit, IsDone
    <3>3. ToSend(f, "terminate") = {}
      BY <3>2 DEF ToSend
    <3>4. entries[f] # 0 \/ Queued("terminate", f) # {}
      BY <2>1, <3>1, <3>3 DEF FileInv
    <3> QED BY <1>8, <1>10, <3>4
  <2>7. ASSUME NEW k \in ToSend(Worker, "save")'
        PROVE  /\ \A f \in todo'[Worker][k].files :
                    \/ entries'[f] # 0 \/ Queued("terminate", f)' # {}
                    \/ f = Worker /\ \E j \in ToSend(Worker, "terminate")' : j < k
               /\ \E j \in ToSend(Worker, "ask")' : j > k
    <3>1. \E j \in ToSend(Worker, "ask")' : j > k
      <4>1. CASE ToSend(Worker, "save")' = {1} /\ ToSend(Worker, "ask")' = {2, 3}
        <5>1. k = 1 /\ 2 \in ToSend(Worker, "ask")'
          BY <4>1
        <5> QED BY <5>1
      <4>2. CASE ToSend(Worker, "save")' = {1, 7} /\ ToSend(Worker, "ask")' = {2, 3, 4, 8}
        <5>1. (k = 1 \/ k = 7) /\ 8 \in ToSend(Worker, "ask")'
          BY <4>2
        <5> QED BY <5>1
      <4> QED BY <1>13, <4>1, <4>2
    <3>2. CASE k = 1
      BY <1>14, <2>6, <3>1, <3>2
    <3>3. CASE k # 1
      <4>1. k = 7 /\ todo'[Worker][k].files = {Worker} /\ ToSend(Worker, "terminate")' = {6}
        BY <1>13, <3>3
      <4>2. 6 \in ToSend(Worker, "terminate")' /\ 6 < k
        BY <4>1
      <4> QED BY <3>1, <4>1, <4>2
    <3> QED BY <3>2, <3>3
  <2>8. SaveInv'
    BY <1>8, <1>10, <1>11, <2>1, <2>7 DEF SaveInv
  <2> QED BY <2>3, <2>5, <2>8
<1> QED BY <1>9, <1>10, <1>15 DEF ChannelInv, Live

(* The backend.                                                             *)

\* A step that leaves what the threads and the handler have.
LEMMA Unmoved ==
  ASSUME ChannelInv, UNCHANGED <<threadVars, handlerVars>>,
         queue' \in Seq(Request), ControlInv', CommitIsSaved',
         Live' => Live /\ queue' = queue /\ (Fresh' => Fresh)
  PROVE  ChannelInv'
<1>1. UNCHANGED <<todo, pages, awaiting, asked, writers, entries, saved>>
  BY DEF threadVars, handlerVars
<1>2. TypeInv' /\ \A s \in saved' : entries'[s[1]] # 0 /\ s[2] = pages'[s[1]]
  BY <1>1 DEF ChannelInv, TypeInv
<1>3. ASSUME Live' PROVE OwnInv' /\ SaveInv' /\ \A f \in File : FileInv(f)'
  <2>1. OwnInv /\ SaveInv /\ queue' = queue /\ \A f \in File : FileInv(f)
    BY <1>3 DEF ChannelInv, Live
  <2>2. /\ \A op, f : Queued(op, f)' = Queued(op, f)
        /\ \A f, op : ToSend(f, op)' = ToSend(f, op)
        /\ \A f : NoneToSend(f)' = NoneToSend(f)
    BY <1>1, <2>1 DEF Queued, ToSend, NoneToSend
  <2>3. OwnInv'
    BY <1>1, <2>1 DEF OwnInv
  <2>4. \A f \in File : FileInv(f)'
    BY <1>1, <2>1, <2>2, SameFile
  <2>5. doing' # "commit" \/ action' = "commit" => doing # "commit" \/ action = "commit"
    BY <1>3 DEF Fresh
  <2>6. SaveInv'
    BY <1>1, <2>1, <2>2, <2>5 DEF SaveInv
  <2> QED BY <2>3, <2>4, <2>6
<1> QED BY <1>2, <1>3 DEF ChannelInv, Live

\* The steps of wait_for, of its callers and of its failures.
LEMMA BackendKeeps ==
  ASSUME ChannelInv,
         \/ WorkEnds \/ Open \/ DrainInsertQueue \/ Commit \/ PollReply \/ Return \/ QueueEmpty
         \/ Abort \/ EndDrop \/ MessageFails
  PROVE  ChannelInv'
<1> USE DEF threadVars, handlerVars, backendVars, Leave, WaitFor
<1>1. TypeInv /\ ControlInv /\ queue \in Seq(Request) /\ <<>> \in Seq(Request)
  BY DEF ChannelInv, TypeInv
<1>2. IsDone(Worker) /\ UNCHANGED threadVars => IsDone(Worker)'
  BY DEF IsDone
<1>3. CASE WorkEnds
  <2>1. ControlInv'
    BY <1>1, <1>2, <1>3 DEF WorkEnds, ControlInv
  <2>2. CommitIsSaved' /\ (Live' => Live) /\ (Fresh' => Fresh)
    BY <1>3 DEF WorkEnds, ChannelInv, CommitIsSaved, Live, Fresh
  <2> QED BY <1>1, <1>3, <2>1, <2>2, Unmoved DEF WorkEnds
<1>4. CASE Open \/ DrainInsertQueue \/ Commit
  <2>1. /\ UNCHANGED <<queue, connected, replied, todo, pages, awaiting, asked, writers, entries, saved>>
        /\ backend \in {"closed", "open"} /\ backend' = "poll" /\ doing' # "commit"
        /\ action' \in {"open", "run"}
    BY <1>4 DEF Open, DrainInsertQueue, Commit
  <2>2. ControlInv' /\ doing # "commit"
    BY <1>1, <1>2, <2>1 DEF ControlInv
  <2>3. CommitIsSaved' /\ Live /\ Fresh
    BY <2>1, <2>2 DEF CommitIsSaved, Live, Fresh
  <2> QED BY <1>1, <2>1, <2>2, <2>3, Unmoved
<1>5. CASE PollReply \/ QueueEmpty
  <2>1. /\ UNCHANGED <<queue, connected, action, doing, replied, todo, pages, awaiting, asked>>
        /\ UNCHANGED <<writers, entries, saved>>
        /\ backend \in {"poll", "handle"} /\ backend' \in {"poll", "handle"}
    BY <1>5 DEF PollReply, QueueEmpty
  <2>2. ControlInv'
    BY <1>1, <1>2, <2>1 DEF ControlInv
  <2>3. CommitIsSaved' /\ Live /\ (Fresh' => Fresh)
    BY <2>1 DEF CommitIsSaved, Live, Fresh
  <2> QED BY <1>1, <2>1, <2>2, <2>3, Unmoved
<1>6. CASE Return
  <2>1. backend = "poll" /\ replied = 1 /\ replied' = 0 /\ action = "none" /\ IsDone(Worker)
    BY <1>1, <1>6 DEF Return, ControlInv
  <2>2. CASE doing \in {"open", "run"} /\ backend' = "open" /\ Leave /\ UNCHANGED <<action, doing>>
    <3>1. ControlInv'
      BY <1>1, <1>2, <2>1, <2>2 DEF ControlInv
    <3>2. CommitIsSaved' /\ Live /\ (Fresh' => Fresh)
      BY <2>1, <2>2 DEF CommitIsSaved, Live, Fresh
    <3> QED BY <1>1, <2>2, <3>1, <3>2, Unmoved
  <2>3. CASE doing = "drain" /\ WaitFor("commit") /\ Leave
    <3>1. ControlInv'
      BY <1>1, <1>2, <2>1, <2>3 DEF ControlInv
    <3>2. CommitIsSaved' /\ Live /\ Fresh
      BY <2>1, <2>3 DEF CommitIsSaved, Live, Fresh
    <3> QED BY <1>1, <2>3, <3>1, <3>2, Unmoved
  <2>4. CASE /\ doing = "commit" /\ backend' = "committed"
             /\ queue' = <<>> /\ connected' = "no"
             /\ UNCHANGED <<action, doing, threadVars, handlerVars>>
    <3>1. ControlInv'
      BY <1>1, <1>2, <2>1, <2>4 DEF ControlInv
    <3>2. ASSUME NEW f \in asked PROVE <<f, pages[f]>> \in saved
      <4>1. Live /\ SaveInv /\ f \in File
        BY <1>1, <2>1 DEF Live, ChannelInv, TypeInv
      <4>2. Queued("save", f) = {}
        BY <2>1, <4>1, NoSaveQueued
      <4>3. PICK s \in saved : s[1] = f
        BY <4>1, <4>2 DEF SaveInv
      <4>4. s[2] = pages[f] /\ s \in File \X Nat
        BY <1>1, <4>3 DEF ChannelInv, TypeInv
      <4>5. s = <<f, pages[f]>>
        BY <4>3, <4>4
      <4> QED BY <4>3, <4>5
    <3>3. CommitIsSaved' /\ ~Live'
      BY <2>4, <3>2 DEF CommitIsSaved, Live
    <3> QED BY <1>1, <2>4, <3>1, <3>3, Unmoved
  <2> QED BY <1>6, <2>2, <2>3, <2>4 DEF Return
<1>7. CASE Abort
  <2>1. backend = "open" /\ Live /\ doing # "commit"
    BY <1>1, <1>7 DEF Abort, ControlInv, Live
  <2>2. saved = {}
    BY <2>1 DEF ChannelInv, SaveInv, Live
  <2>3. ControlInv'
    BY <1>1, <1>2, <1>7, <2>1, <2>2 DEF Abort, ControlInv
  <2>4. CommitIsSaved' /\ ~Live'
    BY <1>7 DEF Abort, CommitIsSaved, Live
  <2> QED BY <1>1, <1>7, <2>3, <2>4, Unmoved DEF Abort
<1>8. CASE MessageFails
  <2>1. /\ backend = "handle" /\ queue # <<>> /\ Live
        /\ UNCHANGED <<todo, pages, awaiting, asked, action, replied, doing, writers, entries, saved>>
    BY <1>8 DEF MessageFails, Live
  <2>2. CASE doing # "commit" /\ replied = 1
    <3>1. backend' = "dropping" /\ queue' = Tail(queue) /\ connected' = connected
      BY <1>8, <2>2 DEF MessageFails
    <3>2. saved = {}
      BY <2>1, <2>2 DEF ChannelInv, SaveInv, Live
    <3>3. ControlInv'
      BY <1>1, <1>2, <2>1, <2>2, <3>1, <3>2 DEF ControlInv
    <3>4. CommitIsSaved' /\ ~Live'
      BY <3>1 DEF CommitIsSaved, Live
    <3>5. queue' \in Seq(Request)
      BY <1>1, <2>1, <3>1
    <3> QED BY <2>1, <3>3, <3>4, <3>5, Unmoved
  <2>3. CASE ~(doing # "commit" /\ replied = 1)
    <3>1. backend' = "dropped" /\ queue' = <<>> /\ connected' = "no"
      BY <1>8, <2>3 DEF MessageFails
    <3>2. ControlInv'
      BY <1>1, <1>2, <2>1, <3>1 DEF ControlInv
    <3>3. CommitIsSaved' /\ ~Live'
      BY <3>1 DEF CommitIsSaved, Live
    <3> QED BY <1>1, <2>1, <3>1, <3>2, <3>3, Unmoved
  <2> QED BY <2>2, <2>3
<1>9. CASE EndDrop
  <2>1. ControlInv'
    BY <1>1, <1>2, <1>9 DEF EndDrop, ControlInv
  <2>2. CommitIsSaved' /\ ~Live'
    BY <1>9 DEF EndDrop, CommitIsSaved, Live
  <2> QED BY <1>1, <1>9, <2>1, <2>2, Unmoved DEF EndDrop
<1> QED BY <1>3, <1>4, <1>5, <1>6, <1>7, <1>8, <1>9

\* A thread finds that the channel is gone.
LEMMA FailKeeps ==
  ASSUME ChannelInv, NEW t \in Threads, SendFails(t)
  PROVE  ChannelInv'
<1>1. TypeInv /\ ControlInv /\ CommitIsSaved
  BY DEF ChannelInv
<1>2. /\ UNCHANGED <<queue, connected, pages, asked, action, replied, backend, doing>>
      /\ UNCHANGED <<writers, entries, saved>>
      /\ connected = "no" /\ todo' = [todo EXCEPT ![t] = <<>>] /\ awaiting' = awaiting \ {t}
  BY DEF SendFails, backendVars, handlerVars
<1>3. todo' \in [Threads -> Seq(Task)] /\ \A u \in Threads : todo'[u] = IF u = t THEN <<>> ELSE todo[u]
  <2>1. <<>> \in Seq(Task)
    OBVIOUS
  <2> QED BY <1>1, <1>2, <2>1 DEF TypeInv
<1>4. TypeInv'
  BY <1>1, <1>2, <1>3 DEF TypeInv
<1>5. IsDone(Worker) => IsDone(Worker)'
  BY <1>2, <1>3 DEF IsDone, Threads
<1>6. ControlInv' /\ ~Live'
  BY <1>1, <1>2, <1>5 DEF ControlInv, Live
<1>7. CommitIsSaved'
  BY <1>1, <1>2 DEF CommitIsSaved
<1> QED BY <1>2, <1>4, <1>6, <1>7 DEF ChannelInv, Live

LEMMA ChannelInvariant == Spec => []ChannelInv
<1>1. Init => ChannelInv
  <2> SUFFICES ASSUME Init PROVE ChannelInv
    OBVIOUS
  <2>1. TypeInv
    BY DEF Init, TypeInv
  <2>2. ControlInv
    BY DEF Init, ControlInv, IsDone, Threads
  <2>3. \A op, f : Queued(op, f) = {}
    BY DEF Init, Queued
  <2>4. \A op : \A f \in Threads : ToSend(f, op) = {}
    BY DEF Init, ToSend
  <2>5. OwnInv
    BY DEF Init, OwnInv
  <2>6. \A f \in File : FileInv(f)
    <3>1. Cardinality({}) = 0
      BY FS_EmptySet
    <3> SUFFICES ASSUME NEW f \in File PROVE FileInv(f)
      OBVIOUS
    <3>2. Queued("write", f) = {} /\ Queued("terminate", f) = {}
      BY <2>3
    <3>3. ToSend(f, "write") = {} /\ ToSend(f, "terminate") = {}
      BY <2>4 DEF File
    <3>4. pages[f] = 0 /\ entries[f] = 0 /\ writers[f] = 0
      BY DEF Init
    <3>5. pages[f] = writers[f] + Cardinality(Queued("write", f)) /\ ~(pages[f] > 0)
      BY <3>1, <3>2, <3>4
    <3> QED BY <3>2, <3>3, <3>4, <3>5 DEF FileInv
  <2>7. SaveInv
    BY <2>3, <2>4 DEF Init, SaveInv, NoneToSend, File, Threads
  <2> QED BY <2>1, <2>2, <2>5, <2>6, <2>7 DEF Init, ChannelInv, CommitIsSaved
<1>2. ChannelInv /\ [Next]_vars => ChannelInv'
  <2> SUFFICES ASSUME ChannelInv, [Next]_vars PROVE ChannelInv'
    OBVIOUS
  <2>1. CASE UNCHANGED vars
    <3>1. /\ UNCHANGED <<threadVars, handlerVars>>
          /\ UNCHANGED <<queue, connected, action, replied, backend, doing>>
      BY <2>1 DEF vars, backendVars
    <3>2. ControlInv' /\ CommitIsSaved' /\ (Live' => Live) /\ (Fresh' => Fresh)
      BY <3>1 DEF ChannelInv, ControlInv, CommitIsSaved, Live, Fresh, IsDone, threadVars, handlerVars
    <3>3. queue' \in Seq(Request)
      BY <3>1 DEF ChannelInv, TypeInv
    <3> QED BY <3>1, <3>2, <3>3, Unmoved
  <2>2. CASE WorkerStep
    BY <2>2, OpenKeeps, RunKeeps, CommitKeeps, BackendKeeps DEF WorkerStep
  <2>3. CASE \E t \in Threads : ThreadStep(t)
    BY <2>3, SendKeeps, FailKeeps DEF ThreadStep
  <2>4. CASE WaitStep
    BY <2>4, HandleKeeps, BackendKeeps DEF WaitStep
  <2>5. CASE Open \/ DrainInsertQueue \/ Commit \/ Abort \/ MessageFails
    BY <2>5, BackendKeeps
  <2> QED BY <2>1, <2>2, <2>3, <2>4, <2>5 DEF Next
<1> QED BY <1>1, <1>2, PTL DEF Spec

\* Whatever the order in which the threads' requests come through the channel,
\* a SaveMetas finds every file it names terminated, with all its pages.
THEOREM SavedSegmentsAreComplete == Spec => []SavedAreComplete
<1>1. ChannelInv => SavedAreComplete
  BY DEF ChannelInv, SavedAreComplete
<1> QED BY <1>1, ChannelInvariant, PTL

\* No SaveMetas is left in the channel that commit drops when it returns.
THEOREM CommitSavesEverything == Spec => []CommitIsSaved
<1>1. ChannelInv => CommitIsSaved
  BY DEF ChannelInv
<1> QED BY <1>1, ChannelInvariant, PTL
=============================================================================
