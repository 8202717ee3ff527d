-------------------------- MODULE SubscriberChain --------------------------
(***************************************************************************)
(* The publish/subscribe chain a record goes through (publisher.h,         *)
(* subscriber.h, processsubject.h): the acquisition publisher "ap" feeds   *)
(* the ProcessSubject "ps", which turns a record into a frame and feeds    *)
(* the ZMQ publisher "zmq" and, for frames that have a file, the UIMF      *)
(* writer "fw".  Every subscriber has a queue and a thread of its own.     *)
(*                                                                         *)
(* The initial state is the chain as the "acquire" command registers it.   *)
(* On its own, this module lets "ap" notify and complete at any time, from *)
(* two threads; AcquirePublisher.tla says when it really does.             *)
(***************************************************************************)
EXTENDS Naturals, Sequences

CONSTANT MaxRecords     \* bound: how many records "ap" publishes

ASSUME ChainAssumption == MaxRecords \in Nat

VARIABLES
    protected_queue,    \* per subscriber, filled by update() under queue_sync
    items,              \* per subscriber, private to its thread
    pc,                 \* per subscriber, where its thread is in the loop
    completed,          \* per publisher, its completed_signal is set
    sent,               \* history: what update() was given, per subscriber
    handled             \* history: what on_notify() was given, per subscriber

chainVars == <<protected_queue, items, pc, completed, sent, handled>>

Subscriber == {"ps", "zmq", "fw"}
Downstream == {"zmq", "fw"}
Publisher == {"ap", "ps"}

\* The publisher whose completed_future a subscriber has as its stop_fut.
UpstreamOf(s) == IF s = "ps" THEN "ap" ELSE "ps"

\* A record or the frame made of it: which one, and whether it has a file.
Record == [n : 1..MaxRecords, file : BOOLEAN]

ChainInit ==
    /\ protected_queue = [s \in Subscriber |-> <<>>]
    /\ items = [s \in Subscriber |-> <<>>]
    /\ pc = [s \in Subscriber |-> "loop"]
    /\ completed = [p \in Publisher |-> FALSE]
    /\ sent = [s \in Subscriber |-> <<>>]
    /\ handled = [s \in Subscriber |-> <<>>]

-----------------------------------------------------------------------------
(* Publisher<T> *)

\* notify() calls update() of every subscriber in S.  Each queue has a lock of
\* its own and one reader, so the order in S is of no consequence.
Notify(S, r) ==
    /\ protected_queue' = [s \in Subscriber |->
           IF s \in S THEN Append(protected_queue[s], r) ELSE protected_queue[s]]
    /\ sent' = [s \in Subscriber |->
           IF s \in S THEN Append(sent[s], r) ELSE sent[s]]

\* Mutant of NotifyRecord: the records are numbered from zero.
NotifyRecordFromZero(file) ==
    /\ Len(sent["ps"]) < MaxRecords
    /\ Notify({"ps"}, [n |-> Len(sent["ps"]), file |-> file])
    /\ UNCHANGED <<items, pc, completed, handled>>

\* The acquisition thread publishes the next record, of a frame with a file or
\* of the continuous acquisition, whatever has become of the chain.
NotifyRecord(file) ==
    /\ Len(sent["ps"]) < MaxRecords
    /\ Notify({"ps"}, [n |-> Len(sent["ps"]) + 1, file |-> file])
    /\ UNCHANGED <<items, pc, completed, handled>>

\* completed_signal.set_value(); a second one throws and changes nothing.
NotifyCompleted ==
    /\ ~completed["ap"]
    /\ completed' = [completed EXCEPT !["ap"] = TRUE]
    /\ UNCHANGED <<protected_queue, items, pc, sent, handled>>

-----------------------------------------------------------------------------
(* The thread Subscriber<T>::setup starts *)

Goto(s, from, to) == pc[s] = from /\ pc' = [pc EXCEPT ![s] = to]

\* The inner loop has emptied items and stop_fut, the first part of the loop
\* condition, is not ready: go round again.
CheckRunning(s) ==
    /\ items[s] = <<>>
    /\ ~completed[UpstreamOf(s)]
    /\ Goto(s, "loop", "wait")
    /\ UNCHANGED <<protected_queue, items, completed, sent, handled>>

\* The same with stop_fut ready: the rest of the condition is looked at next.
CheckStopped(s) ==
    /\ items[s] = <<>>
    /\ completed[UpstreamOf(s)]
    /\ Goto(s, "loop", "empty?")
    /\ UNCHANGED <<protected_queue, items, completed, sent, handled>>

\* Mutant of NothingLeft: the queue that update() fills is not looked at.
NothingLeftItemsOnly(s) == items[s] = <<>>

\* Second part of the loop condition, read without the lock.
NothingLeft(s) == items[s] = <<>> /\ protected_queue[s] = <<>>

CheckLeft(s) ==
    /\ ~NothingLeft(s)
    /\ Goto(s, "empty?", "wait")
    /\ UNCHANGED <<protected_queue, items, completed, sent, handled>>

CheckDrained(s) ==
    /\ NothingLeft(s)
    /\ Goto(s, "empty?", "completing")
    /\ UNCHANGED <<protected_queue, items, completed, sent, handled>>

\* for (i = 0; i < size(); i++) pop_front(): the size shrinks as i grows, so
\* the loop moves the first half of n items, rounded up.
Half(n) == (n + 1) \div 2

\* Mutant of Drain: the items moved stay in the queue.
DrainNoPop(s) ==
    /\ Goto(s, "wait", "loop")
    /\ items' = [items EXCEPT ![s] =
           @ \o SubSeq(protected_queue[s], 1, Half(Len(protected_queue[s])))]
    /\ UNCHANGED <<protected_queue, completed, sent, handled>>

\* Mutant of Drain: the wait has no time limit, only update() ends it.
DrainOnSignal(s) ==
    LET q == protected_queue[s]
        k == Half(Len(q))
    IN  /\ Goto(s, "wait", "loop")
        /\ q # <<>>
        /\ items' = [items EXCEPT ![s] = @ \o SubSeq(q, 1, k)]
        /\ protected_queue' = [protected_queue EXCEPT ![s] = SubSeq(q, k + 1, Len(q))]
        /\ UNCHANGED <<completed, sent, handled>>

\* sig.wait_for(10 ms) ends, by a notification, spuriously or by its limit, and
\* half of the queue moves to items under queue_sync.
Drain(s) ==
    LET q == protected_queue[s]
        k == Half(Len(q))
    IN  /\ Goto(s, "wait", "loop")
        /\ items' = [items EXCEPT ![s] = @ \o SubSeq(q, 1, k)]
        /\ protected_queue' = [protected_queue EXCEPT ![s] = SubSeq(q, k + 1, Len(q))]
        /\ UNCHANGED <<completed, sent, handled>>

\* The head of items is popped and given to on_notify().
Pop(s) ==
    /\ pc[s] = "loop"
    /\ items[s] # <<>>
    /\ items' = [items EXCEPT ![s] = Tail(@)]
    /\ handled' = [handled EXCEPT ![s] = Append(@, Head(items[s]))]
    /\ UNCHANGED <<pc, completed>>

\* ProcessSubject::on_notify: to_frame() and notify(), ACQUIRE for a record
\* without a file name and BOTH for one with it.
OnNotifyProcess ==
    /\ Pop("ps")
    /\ Notify({"zmq"} \cup (IF Head(items["ps"]).file THEN {"fw"} ELSE {}),
              Head(items["ps"]))

\* ProcessSubject::on_notify catches what to_frame() throws: no frame.
OnNotifyThrows ==
    /\ Pop("ps")
    /\ UNCHANGED <<protected_queue, sent>>

\* The subscribers at the end of the chain publish and write; what they throw
\* is caught in their on_notify.
OnNotifyDownstream(s) ==
    /\ Pop(s)
    /\ UNCHANGED <<protected_queue, sent>>

\* has_completed.set_value() of a subscriber with no subscribers of its own.
Complete(s) ==
    /\ Goto(s, "completing", "done")
    /\ UNCHANGED <<protected_queue, items, completed, sent, handled>>

\* ProcessSubject::on_completed: its own completed_signal, ...
OnCompletedSignal ==
    /\ Goto("ps", "completing", "waiting")
    /\ completed' = [completed EXCEPT !["ps"] = TRUE]
    /\ UNCHANGED <<protected_queue, items, sent, handled>>

\* ... the wait for the futures of both its subscribers, and has_completed.
OnCompletedWait ==
    /\ \A s \in Downstream : pc[s] = "done"
    /\ Goto("ps", "waiting", "done")
    /\ UNCHANGED <<protected_queue, items, completed, sent, handled>>

\* A step of the thread of subscriber s.
LoopStep(s) ==
    \/ CheckRunning(s)
    \/ CheckStopped(s)
    \/ CheckLeft(s)
    \/ CheckDrained(s)
    \/ Drain(s)

ProcessStep ==
    \/ LoopStep("ps")
    \/ OnNotifyProcess
    \/ OnNotifyThrows
    \/ OnCompletedSignal
    \/ OnCompletedWait

DownstreamStep(s) ==
    \/ LoopStep(s)
    \/ OnNotifyDownstream(s)
    \/ Complete(s)

ThreadStep == ProcessStep \/ \E s \in Downstream : DownstreamStep(s)

ChainNext ==
    \/ \E file \in BOOLEAN : NotifyRecord(file)
    \/ NotifyCompleted
    \/ ThreadStep

\* The threads are scheduled; nothing is assumed of the publisher.
ChainFairness ==
    /\ WF_chainVars(ProcessStep)
    /\ \A s \in Downstream : WF_chainVars(DownstreamStep(s))

ChainSafety == ChainInit /\ [][ChainNext]_chainVars

ChainSpec == ChainSafety /\ ChainFairness

-----------------------------------------------------------------------------
(* Properties *)

ChainTypeOK ==
    /\ protected_queue \in [Subscriber -> Seq(Record)]
    /\ items \in [Subscriber -> Seq(Record)]
    /\ pc \in [Subscriber -> {"loop", "empty?", "wait", "completing", "waiting", "done"}]
    /\ completed \in [Publisher -> BOOLEAN]
    /\ sent \in [Subscriber -> Seq(Record)]
    /\ handled \in [Subscriber -> Seq(Record)]

\* Every subscriber is a FIFO: what it has handled, holds and has queued is
\* what update() was given, each item once and in order, although the drain
\* of subscriber.h:77 takes only half of the queue at a time.
InOrderExactlyOnce ==
    \A s \in Subscriber : handled[s] \o items[s] \o protected_queue[s] = sent[s]

\* The end of the chain loses nothing: a zmq or writer thread that has ended
\* has handled every frame it was sent and is sent no more.  It rests on the
\* order of the loop condition of subscriber.h:68 (stop_fut, then the queue)
\* and on ProcessSubject signalling from the thread that notifies.
DownstreamDrained ==
    \A s \in Downstream :
        pc[s] = "done" => handled[s] = sent[s] /\ pc["ps"] \in {"waiting", "done"}

\* notify_completed_and_wait() waits for the whole chain: once the future of
\* the ProcessSubject is set, every frame it made is published and written.
CompletedMeansHandled ==
    pc["ps"] = "done" => \A s \in Downstream : handled[s] = sent[s]

\* Why the two hold.  The order of the checks: a thread reads the queue as empty
\* only after its publisher has signalled, and nothing is sent after that.
StopSeenFirst ==
    \A s \in Downstream :
        /\ pc[s] \in {"empty?", "completing", "done"} => completed["ps"]
        /\ pc[s] \in {"completing", "done"} =>
               items[s] = <<>> /\ protected_queue[s] = <<>>

ChainInv ==
    /\ ChainTypeOK
    /\ InOrderExactlyOnce
    /\ StopSeenFirst
    /\ completed["ps"] <=> pc["ps"] \in {"waiting", "done"}
    /\ pc["ps"] = "done" => \A s \in Downstream : pc[s] = "done"

\* Signalling completion ends the chain, with records queued or not, because
\* the wait of subscriber.h:72 is bounded and the drain makes progress.
CompletionEndsChain == completed["ap"] ~> pc["ps"] = "done"

\* The chain implements Delivery: to zmq and the writer it is a channel that the
\* ProcessSubject submits frames to, closes from on_completed() and that has
\* finished when its future is set; nothing is lost, doubled, reordered, sent
\* after the close or left undelivered, whatever the three threads interleave.
Downstreams == INSTANCE Delivery WITH
    Consumer <- Downstream,
    Item <- Record,
    submitted <- [s \in Downstream |-> sent[s]],
    delivered <- [s \in Downstream |-> handled[s]],
    closed <- completed["ps"],
    finished <- (pc["ps"] = "done")

ImplementsDelivery == Downstreams!Spec

=============================================================================
