--------------------------- MODULE ChannelHandler ---------------------------
(***************************************************************************)
(* The channel between Tantivy's threads and the backend, and the          *)
(* SearchIndexWriter on top of it (index/directory/channel.rs,             *)
(* index/writer/channel.rs, index/reader/channel.rs,                       *)
(* index/writer/index.rs).                                                 *)
(*                                                                         *)
(* PostgreSQL can be called from the backend's own thread only.  Tantivy's *)
(* threads send their requests through a bounded channel; the backend      *)
(* handles them while it is inside wait_for, which runs one action on the  *)
(* handler's worker thread.  Some requests are answered, and their senders *)
(* wait; the others (writes, terminate, save_metas) are sent and forgotten.*)
(*                                                                         *)
(* Tantivy is external: what its threads ask for is given by the scripts.  *)
(***************************************************************************)
EXTENDS Naturals, Sequences, FiniteSets

CONSTANTS
  Indexers,    \* Tantivy's indexing threads; each writes the file of its name
  Worker,      \* the handler's worker thread; merges write the file of its name
  MaxPages,    \* bound: SegmentWrites an indexing thread makes for its file
  MaxRuns,     \* bound: how often the insert queue is drained
  QueueLen     \* CHANNEL_QUEUE_LEN

Threads == Indexers \cup {Worker}
File    == Threads

ASSUME ChannelAssumption ==
  /\ Worker \notin Indexers /\ IsFiniteSet(Indexers)
  /\ MaxPages \in Nat \ {0} /\ MaxRuns \in Nat /\ QueueLen \in Nat \ {0}

VARIABLES
  queue,      \* the request channel
  connected,  \* "yes" while the receiver of the request channel exists
  todo,       \* todo[t]: what thread t has still to do for its current work
  pages,      \* pages[f]: the SegmentWrites sent for file f
  awaiting,   \* the threads that wait for an answer
  backend,    \* where the backend is
  doing,      \* the call it is in: "open", "run", or "drain" and "commit" of commit
  action,     \* the action given to the worker, "none" between two
  replied,    \* the replies in the reply channel: 0 or 1
  runs,       \* how often the insert queue was drained
  writers,    \* writers[f]: pages written through the open writer, 0 if none
  entries,    \* entries[f]: the pages recorded in file_entries, 0 if none
  asked,      \* the files of the SaveMetas that were sent
  saved       \* the files of the SaveMetas that were handled, with the pages recorded then

handlerVars == <<writers, entries, saved>>
threadVars  == <<todo, pages, awaiting, asked>>
backendVars == <<backend, doing, runs>>
vars == <<queue, connected, action, replied, backendVars, handlerVars, threadVars>>

Request == [from : Threads, op : {"write", "terminate", "save", "ask"}, files : SUBSET File]

Step(op) == [op |-> op, files |-> {}]

\* A file: its pages, and terminate.
FileScript(f, n) ==
  [k \in 1..n |-> [op |-> "write", files |-> {f}]] \o <<[op |-> "terminate", files |-> {f}]>>

Save(S) == [op |-> "save", files |-> S]

\* Before it is done, Tantivy's segment updater collects garbage, for which it
\* asks for the managed files.
CommitScript(S) == <<Save(S), Step("ask"), Step("ask")>>

\* The merge reads its segments, writes one and saves it.
MergeScript == <<Step("ask")>> \o FileScript(Worker, 1) \o <<Save({Worker}), Step("ask")>>

Init ==
  /\ queue = <<>> /\ connected = "yes"
  /\ todo = [t \in Threads |-> <<>>]
  /\ pages = [f \in File |-> 0]
  /\ awaiting = {}
  /\ backend = "closed" /\ doing = "open" /\ action = "none" /\ replied = 0 /\ runs = 0
  /\ writers = [f \in File |-> 0]
  /\ entries = [f \in File |-> 0]
  /\ asked = {}
  /\ saved = {}

-----------------------------------------------------------------------------
(* Tantivy's threads: ChannelDirectory, ChannelWriter, ChannelReader        *)

\* sender.send() waits for room in the channel; a request with a oneshot
\* channel is followed by the wait for its answer.
Send(t, answered, room) ==
  LET r == Head(todo[t]) IN
  /\ t \notin awaiting /\ todo[t] # <<>>
  /\ connected = "yes" /\ Len(queue) < room
  /\ queue' = Append(queue, [from |-> t, op |-> r.op, files |-> r.files])
  /\ todo' = [todo EXCEPT ![t] = Tail(@)]
  /\ awaiting' = IF r.op \in answered THEN awaiting \cup {t} ELSE awaiting
  /\ pages' = [f \in File |-> IF r.op = "write" /\ f \in r.files THEN pages[f] + 1 ELSE pages[f]]
  /\ asked' = IF r.op = "save" THEN asked \cup r.files ELSE asked
  /\ UNCHANGED <<connected, action, replied, backendVars, handlerVars>>

\* Mutant of SendRequest: reconsider_merge_policy and list_managed_files
\* return before the answer is there.
SendWithoutWaiting(t) == Send(t, {}, QueueLen)

SendRequest(t) == Send(t, {"ask"}, QueueLen)

\* The channel is gone: sending fails, and so does waiting for an answer,
\* whose sender was dropped with the request.
SendFails(t) ==
  /\ connected = "no" /\ (todo[t] # <<>> \/ t \in awaiting)
  /\ todo' = [todo EXCEPT ![t] = <<>>]
  /\ awaiting' = awaiting \ {t}
  /\ UNCHANGED <<queue, connected, pages, asked, action, replied, backendVars, handlerVars>>

IsDone(t) == todo[t] = <<>> /\ t \notin awaiting

-----------------------------------------------------------------------------
(* The worker thread runs the action it was given                           *)

\* Index::open and writer_with_num_threads load the metas.
WorkOpen ==
  /\ action = "open"
  /\ todo' = [todo EXCEPT ![Worker] = <<Step("ask")>>]
  /\ action' = "working"
  /\ UNCHANGED <<queue, connected, pages, awaiting, asked, replied, backendVars, handlerVars>>

\* writer.run: the documents go to the indexing threads, which may fill a
\* segment and write it at any time, and may have to read before they do.
WorkRun(S, n, first) ==
  /\ action = "run"
  /\ S \subseteq {i \in Indexers : pages[i] = 0 /\ IsDone(i)}
  /\ todo' = [t \in Threads |-> IF t \in S THEN first \o FileScript(t, n) ELSE todo[t]]
  /\ action' = "working"
  /\ UNCHANGED <<queue, connected, pages, awaiting, asked, replied, backendVars, handlerVars>>

\* writer.commit: when the indexing threads have finished their segments.
WorkCommit ==
  /\ action = "commit" /\ \A i \in Indexers : IsDone(i)
  /\ \E merge \in {<<>>, MergeScript} :
       todo' = [todo EXCEPT ![Worker] =
                  CommitScript({i \in Indexers : pages[i] > 0}) \o merge]
  /\ action' = "working"
  /\ UNCHANGED <<queue, connected, pages, awaiting, asked, replied, backendVars, handlerVars>>

\* The action has returned.
WorkEnds ==
  /\ action = "working" /\ IsDone(Worker)
  /\ action' = "none"
  /\ replied' = 1
  /\ UNCHANGED <<queue, connected, threadVars, backendVars, handlerVars>>

-----------------------------------------------------------------------------
(* The backend: SearchIndexWriter and wait_for                              *)

\* wait_for gives the worker an action and polls.
WaitFor(call) ==
  /\ action' = IF call = "drain" THEN "run" ELSE call
  /\ doing' = call
  /\ backend' = "poll"

Leave == UNCHANGED <<queue, connected, threadVars, handlerVars>>

\* SearchIndexWriter::open
Open == backend = "closed" /\ WaitFor("open") /\ Leave /\ UNCHANGED <<replied, runs>>

\* insert, delete_term: the insert queue is full and is drained.
DrainInsertQueue ==
  /\ backend = "open" /\ runs < MaxRuns
  /\ WaitFor("run")
  /\ runs' = runs + 1
  /\ Leave /\ UNCHANGED replied

\* commit drains what is left and then commits, with the IndexWriter moved
\* into the action.
Commit ==
  /\ backend = "open"
  /\ WaitFor("drain")
  /\ Leave /\ UNCHANGED <<replied, runs>>

\* wait_for_internal: is there a reply?  If not, handle what has been sent.
PollReply ==
  /\ backend = "poll" /\ replied = 0
  /\ backend' = "handle"
  /\ Leave /\ UNCHANGED <<action, replied, doing, runs>>

\* There is: wait_for returns it, and commit goes on, or drops the handler.
Return ==
  /\ backend = "poll" /\ replied = 1
  /\ replied' = 0
  /\ \/ doing \in {"open", "run"} /\ backend' = "open" /\ Leave /\ UNCHANGED <<action, doing>>
     \/ doing = "drain" /\ WaitFor("commit") /\ Leave
     \/ /\ doing = "commit" /\ backend' = "committed"
        /\ queue' = <<>> /\ connected' = "no"
        /\ UNCHANGED <<action, doing, threadVars, handlerVars>>
  /\ UNCHANGED runs

\* try_iter has come to an empty channel.
QueueEmpty ==
  /\ backend = "handle" /\ queue = <<>>
  /\ backend' = "poll"
  /\ Leave /\ UNCHANGED <<action, replied, doing, runs>>

\* The writer of a file lives from its first SegmentWrite to its terminate,
\* which records the length of the file (all its pages, uncounted = 0); the
\* requests in answered are answered.
Process(r, answered, uncounted) ==
  /\ writers' = [f \in File |-> IF f \notin r.files THEN writers[f]
                                ELSE IF r.op = "write" THEN writers[f] + 1
                                ELSE IF r.op = "terminate" THEN 0 ELSE writers[f]]
  /\ entries' = [f \in File |-> IF r.op = "terminate" /\ f \in r.files
                                THEN writers[f] - uncounted ELSE entries[f]]
  /\ saved' = IF r.op = "save" THEN saved \cup {<<f, entries[f]>> : f \in r.files} ELSE saved
  /\ awaiting' = IF r.op \in answered THEN awaiting \ {r.from} ELSE awaiting

\* Mutant of ProcessMessage: the answer to a request is forgotten.
ProcessWithoutAnswer(r) == Process(r, {}, 0)

\* Mutant of ProcessMessage: the last, partly filled page is not counted.
ProcessShort(r) == Process(r, {"ask"}, 1)

ProcessMessage(r) == Process(r, {"ask"}, 0)

HandleMessage ==
  /\ backend = "handle" /\ queue # <<>>
  /\ ProcessMessage(Head(queue))
  /\ queue' = Tail(queue)
  /\ UNCHANGED <<connected, todo, pages, asked, action, replied, backendVars>>

\* Mutant of MessageFails: a clone of the receiver outlives the handler.
FailKeepsReceiver ==
  /\ backend = "handle" /\ queue # <<>>
  /\ backend' = "dropped"
  /\ UNCHANGED <<queue, connected, threadVars, action, replied, doing, runs, handlerVars>>

\* An ERROR while a message is handled: wait_for panics.  If the action is
\* still running, or is the commit, it has the IndexWriter, and the handler
\* goes, with the receiver; if not, the IndexWriter is dropped first.
MessageFails ==
  /\ backend = "handle" /\ queue # <<>>
  /\ IF doing # "commit" /\ replied = 1
     THEN /\ backend' = "dropping"
          /\ queue' = Tail(queue)
          /\ UNCHANGED connected
     ELSE /\ backend' = "dropped"
          /\ queue' = <<>> /\ connected' = "no"
  /\ UNCHANGED <<threadVars, action, replied, doing, runs, handlerVars>>

\* The statement is aborted between two calls: IndexWriter's Drop joins the
\* indexing threads, and nobody handles their messages any more.
Abort ==
  /\ backend = "open"
  /\ backend' = "dropping"
  /\ Leave /\ UNCHANGED <<action, replied, doing, runs>>

\* The threads are joined, and the handler is dropped.
EndDrop ==
  /\ backend = "dropping" /\ \A i \in Indexers : IsDone(i)
  /\ backend' = "dropped"
  /\ queue' = <<>> /\ connected' = "no"
  /\ UNCHANGED <<threadVars, action, replied, doing, runs, handlerVars>>

-----------------------------------------------------------------------------
WorkerStep ==
  \/ WorkOpen \/ WorkCommit \/ WorkEnds
  \/ \E S \in SUBSET Indexers, n \in 1..MaxPages, first \in {<<>>, <<Step("ask")>>} :
       WorkRun(S, n, first)

ThreadStep(t) == SendRequest(t) \/ SendFails(t)

WaitStep == PollReply \/ Return \/ QueueEmpty \/ HandleMessage \/ EndDrop

Next ==
  \/ WorkerStep
  \/ \E t \in Threads : ThreadStep(t)
  \/ WaitStep
  \/ Open \/ DrainInsertQueue \/ Commit \/ Abort \/ MessageFails

Spec == Init /\ [][Next]_vars

\* The threads and the backend's loop keep running; whether the statement goes
\* on to its next call is up to PostgreSQL.
FairSpec ==
  /\ Spec
  /\ WF_vars(WaitStep) /\ WF_vars(WorkerStep)
  /\ \A t \in Threads : WF_vars(ThreadStep(t))

-----------------------------------------------------------------------------
(* Properties                                                               *)

\* Types of the variables, and the capacity of the request channel.
TypeOK ==
  /\ queue \in Seq(Request) /\ Len(queue) <= QueueLen
  /\ awaiting \subseteq Threads
  /\ pages \in [File -> Nat] /\ writers \in [File -> Nat]
  /\ entries \in [File -> Nat] /\ saved \subseteq File \X Nat
  /\ replied \in 0..1

\* A SaveMetas that names a file is handled after the file was terminated,
\* with all its pages: save_new_metas finds it in file_entries, although the
\* threads only send their writes and do not wait for them.
SavedAreComplete == \A s \in saved : s[2] = pages[s[1]]

\* When commit returns, and drops what is left in the channel, every SaveMetas
\* that was sent, by the commit and by its merge, has been handled, although
\* nobody waits for one and wait_for looks for the reply before it looks for
\* messages.
CommitIsSaved == backend = "committed" => \A f \in asked : <<f, pages[f]>> \in saved

\* wait_for returns, or fails: the backend handles every request the action
\* waits for, whatever is in the channel before it.
WaitReturns ==
  backend = "poll" ~> backend \in {"open", "committed", "dropping", "dropped"}

\* The threads of a writer that is gone stop, whatever they waited for.
ThreadsStop == backend \in {"dropped", "committed"} ~> \A t \in Threads : IsDone(t)

-----------------------------------------------------------------------------
(* The inductive invariant behind SavedAreComplete and CommitIsSaved        *)
(* (ChannelHandlerProofs).                                                  *)

Ops  == {"write", "terminate", "save", "ask"}
Task == [op : Ops, files : SUBSET File]

TypeInv ==
  /\ queue \in Seq(Request) /\ todo \in [Threads -> Seq(Task)]
  /\ awaiting \subseteq Threads
  /\ pages \in [File -> Nat] /\ writers \in [File -> Nat] /\ entries \in [File -> Nat]
  /\ asked \subseteq File /\ saved \subseteq File \X Nat

\* What the backend does decides what the worker may be doing.
ControlInv ==
  /\ connected = IF backend \in {"dropped", "committed"} THEN "no" ELSE "yes"
  /\ connected = "no" => queue = <<>>
  /\ replied = 1 => action = "none"
  /\ action # "working" => IsDone(Worker)
  /\ backend \in {"open", "closed"} => action = "none" /\ replied = 0
  /\ action = "commit" => doing = "commit"
  /\ backend = "dropping" => saved = {}
  /\ doing = "commit" => /\ action \in {"commit", "working", "none"}
                         /\ backend \notin {"open", "closed", "dropping"}

\* The requests about file f in the channel, and the file operations thread f
\* has still to ask for.
Queued(op, f) == {k \in DOMAIN queue : queue[k].op = op /\ f \in queue[k].files}
ToSend(f, op) == {k \in DOMAIN todo[f] : todo[f][k].op = op}
NoneToSend(f) == ToSend(f, "write") = {} /\ ToSend(f, "terminate") = {}

\* Who sends what, and that whoever waits has one request in the channel.
OwnInv ==
  /\ \A t \in Threads : \A k \in DOMAIN todo[t] :
       /\ todo[t][k].op \in {"write", "terminate"} => todo[t][k].files = {t}
       /\ todo[t][k].op = "save" => t = Worker
  /\ \A k \in DOMAIN queue :
       /\ queue[k].op \in {"write", "terminate"} => queue[k].files = {queue[k].from}
       /\ queue[k].op = "ask" => queue[k].from \in awaiting
  /\ \A j, k \in DOMAIN queue :
       queue[j].op = "ask" /\ queue[k].op = "ask" /\ queue[j].from = queue[k].from => j = k

\* The life of file f: its pages are sent before its terminate, they are all
\* in the writer or in the channel until it is handled, and are all recorded
\* after it.
FileInv(f) ==
  /\ entries[f] = 0 => pages[f] = writers[f] + Cardinality(Queued("write", f))
  /\ entries[f] # 0 =>
       /\ entries[f] = pages[f] /\ NoneToSend(f)
       /\ Queued("write", f) = {} /\ Queued("terminate", f) = {}
  /\ \A k \in Queued("terminate", f) :
       /\ pages[f] > 0 /\ NoneToSend(f)
       /\ \A j \in Queued("write", f) \cup Queued("terminate", f) : j <= k
  /\ \A k \in ToSend(f, "write") : \E j \in ToSend(f, "terminate") : j > k
  /\ \A k \in ToSend(f, "terminate") :
       /\ pages[f] > 0 \/ ToSend(f, "write") # {}
       /\ \A j \in ToSend(f, "write") \cup ToSend(f, "terminate") : j <= k
  /\ pages[f] > 0 =>
       entries[f] # 0 \/ Queued("terminate", f) # {} \/ ToSend(f, "terminate") # {}

\* The worker writes and saves nothing before the commit; a SaveMetas comes after the
\* terminate of its files, and before a request the worker waits for.
SaveInv ==
  /\ doing # "commit" \/ action = "commit" =>
       /\ pages[Worker] = 0 /\ NoneToSend(Worker)
       /\ ToSend(Worker, "save") = {} /\ saved = {}
       /\ \A f \in File : Queued("save", f) = {}
  /\ \A f \in File : \A k \in Queued("save", f) :
       /\ entries[f] # 0 \/ \E j \in Queued("terminate", f) : j < k
       /\ \/ \E j \in DOMAIN queue : j > k /\ queue[j].op = "ask" /\ queue[j].from = Worker
          \/ ToSend(Worker, "ask") # {}
  /\ \A k \in ToSend(Worker, "save") :
       /\ \A f \in todo[Worker][k].files :
            \/ entries[f] # 0 \/ Queued("terminate", f) # {}
            \/ f = Worker /\ \E j \in ToSend(Worker, "terminate") : j < k
       /\ \E j \in ToSend(Worker, "ask") : j > k
  /\ \A f \in asked : Queued("save", f) # {} \/ \E s \in saved : s[1] = f

ChannelInv ==
  /\ TypeInv /\ ControlInv
  /\ \A s \in saved : entries[s[1]] # 0 /\ s[2] = pages[s[1]]
  /\ backend \notin {"dropping", "dropped", "committed"} =>
       OwnInv /\ SaveInv /\ \A f \in File : FileInv(f)
  /\ CommitIsSaved
=============================================================================
