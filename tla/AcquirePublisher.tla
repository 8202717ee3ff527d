------------------------- MODULE AcquirePublisher --------------------------
(***************************************************************************)
(* One acquisition chain under its controller (acquirepublisher.cpp): the  *)
(* server's thread calls start() and stop(), start() spawns the thread     *)
(* that acquires a frame and publishes its records, and the records go     *)
(* down the chain of SubscriberChain.tla.                                  *)
(*                                                                         *)
(* The commands "acquire frame", "stop frame", "stop acquire" and "tof     *)
(* width" come in any order, as the handler of aqmd3_console.cpp passes    *)
(* them on.  The last one measures the pusher period on the same card,     *)
(* which the server's thread and the acquisition thread share unlocked.    *)
(* The card is external: a call on it succeeds or throws.  Sends on the    *)
(* status topic are assumed to get their lock within their limit.          *)
(***************************************************************************)
EXTENDS SubscriberChain

CONSTANTS
    Lengths,    \* frame lengths a client asks for, in batches of one record
    MaxStarts,  \* bound: "acquire frame" commands
    MaxStops,   \* bound: "stop" commands
    MaxMeasures \* bound: "tof width" commands

ASSUME PublisherAssumption ==
    /\ Lengths \subseteq Nat
    /\ MaxStarts \in Nat
    /\ MaxStops \in Nat
    /\ MaxMeasures \in Nat

VARIABLES
    state,          \* AcquisitionControl::state
    should_stop,
    joinable,       \* worker_handle holds a thread that was not joined
    worker,         \* where the acquisition thread is
    frame,          \* the parameters the thread was started with
    left,           \* batches the thread has still to acquire
    has_errored,    \* local of the thread: acquire() has thrown
    server,         \* where the server's thread is in its command
    card,           \* external: the card is "idle" or "acquiring"
    mode,           \* external: the data reduction applied to it, "zs" or "cst"
    status,         \* history: messages on the status topic, with their frame
    fault,          \* why the process has died, if it has
    starts,         \* "acquire frame" commands so far
    stops,
    measures,
    sinceStop,      \* history: records published since stop() set its flag
    reused,         \* history: a frame was started on a completed chain
    racing          \* history: the thread was running when the chain completed

flags == <<state, should_stop, joinable>>
locals == <<frame, left, has_errored>>
device == <<card, mode>>
commands == <<starts, stops, measures>>
history == <<sinceStop, reused, racing>>

ctrlVars == <<flags, worker, locals, server, device, status, fault, commands,
              history>>

vars == <<chainVars, ctrlVars>>

\* The parameters "acquire frame" gives and, for the status messages, the
\* number of the command.
Frame == [file : BOOLEAN, length : Lengths, n : 1..MaxStarts]

\* create_inf_params(): no file, and more batches than there are records.
Continuous == [file |-> FALSE, length |-> MaxRecords + 1, n |-> 0]

\* What keeps a thread of the process from stepping: std::terminate was called.
Alive == fault = "none"

\* The state "acquire" leaves: a new chain, the card set up for zero
\* suppression, and the continuous acquisition started on it.
Init ==
    /\ ChainInit
    /\ state = "UNKNOWN"
    /\ should_stop = FALSE
    /\ joinable = TRUE
    /\ worker = "spawned"
    /\ frame = Continuous
    /\ left = Continuous.length
    /\ has_errored = FALSE
    /\ server = "ready"
    /\ card = "idle"
    /\ mode = "zs"
    /\ status = <<>>
    /\ fault = "none"
    /\ starts = 0
    /\ stops = 0
    /\ measures = 0
    /\ sinceStop = 0
    /\ reused = FALSE
    /\ racing = FALSE

\* publish_status(): one message on the status topic.
Publish(message, n) == status' = Append(status, <<message, n>>)

-----------------------------------------------------------------------------
(* AcquirePublisher::start *)

\* Refused with a log line only; the client gets its ack.
StartRefused ==
    /\ Alive /\ server = "ready" /\ starts < MaxStarts
    /\ state = "ACQUIRING"
    /\ starts' = starts + 1
    /\ UNCHANGED <<chainVars, flags, worker, locals, server, device, status,
                   fault, stops, measures, history>>

\* std::thread cannot be made: caught, reported, and no thread.
StartThrows ==
    /\ Alive /\ server = "ready" /\ starts < MaxStarts
    /\ state # "ACQUIRING"
    /\ starts' = starts + 1
    /\ should_stop' = FALSE
    /\ Publish("error", starts + 1)
    /\ UNCHANGED <<chainVars, state, joinable, worker, locals, server, device,
                   fault, stops, measures, history>>

\* Mutant of StartSpawn: the completion promise is renewed with the thread.
StartRenewed(f) ==
    /\ Alive /\ server = "ready" /\ starts < MaxStarts
    /\ state # "ACQUIRING" /\ ~joinable
    /\ f.n = starts + 1 /\ starts' = starts + 1
    /\ should_stop' = FALSE
    /\ joinable' = TRUE /\ worker' = "spawned"
    /\ frame' = f /\ left' = f.length /\ has_errored' = FALSE
    /\ sinceStop' = 0
    /\ reused' = (reused \/ completed["ap"])
    /\ completed' = [completed EXCEPT !["ap"] = FALSE]
    /\ UNCHANGED <<protected_queue, items, pc, sent, handled, state, server,
                   device, status, fault, stops, measures, racing>>

\* A thread is spawned for frame f.
StartSpawn(f) ==
    /\ Alive /\ server = "ready" /\ starts < MaxStarts
    /\ state # "ACQUIRING" /\ ~joinable
    /\ f.n = starts + 1 /\ starts' = starts + 1
    /\ should_stop' = FALSE
    /\ joinable' = TRUE /\ worker' = "spawned"
    /\ frame' = f /\ left' = f.length /\ has_errored' = FALSE
    /\ sinceStop' = 0
    /\ reused' = (reused \/ completed["ap"])
    /\ UNCHANGED <<chainVars, state, server, device, status, fault, stops,
                   measures, racing>>

\* A thread is spawned although the last one was not joined: assigning
\* worker_handle destroys a joinable std::thread.
StartOverThread ==
    /\ Alive /\ server = "ready" /\ starts < MaxStarts
    /\ state # "ACQUIRING" /\ joinable
    /\ starts' = starts + 1
    /\ should_stop' = FALSE
    /\ fault' = "joinable thread destroyed"
    /\ UNCHANGED <<chainVars, state, joinable, worker, locals, server, device,
                   status, stops, measures, history>>

-----------------------------------------------------------------------------
(* The acquisition thread *)

WorkerGoto(from, to) == Alive /\ worker = from /\ worker' = to

\* A step of the thread that only moves it on.
WorkerMoves(from, to) ==
    /\ WorkerGoto(from, to)
    /\ UNCHANGED <<chainVars, flags, locals, server, device, status, fault,
                   commands, history>>

\* The thread, not start(), is what makes is_acquiring() true.
WorkerBegin ==
    /\ WorkerGoto("spawned", "starting")
    /\ state' = "ACQUIRING"
    /\ UNCHANGED <<chainVars, should_stop, joinable, locals, server, device,
                   status, fault, commands, history>>

\* get_is_acquiring() says no ...
WorkerCheckIdle ==
    /\ card = "idle"
    /\ WorkerMoves("starting", "start")

\* ... or yes: the frame is over with a log line.
WorkerCheckBusy ==
    /\ card = "acquiring"
    /\ WorkerGoto("starting", "stopping")
    /\ state' = "STOPPED"
    /\ UNCHANGED <<chainVars, should_stop, joinable, locals, server, device,
                   status, fault, commands, history>>

\* digitizer->start() succeeds.
WorkerStart ==
    /\ card = "idle"
    /\ WorkerGoto("start", "loop")
    /\ card' = "acquiring"
    /\ UNCHANGED <<chainVars, flags, locals, server, mode, status, fault,
                   commands, history>>

\* get_is_acquiring(), start() and stop() are called outside the try block: an
\* exception leaves the thread's function.  start() throws, for one, when the
\* card has been started by the other thread.
WorkerDriverThrows ==
    /\ Alive
    /\ worker \in {"starting", "start", "stopping"}
    /\ fault' = "exception left the thread"
    /\ UNCHANGED <<chainVars, flags, worker, locals, server, device, status,
                   commands, history>>

\* Mutant of LoopEnds: the loop does not look at should_stop.
LoopEndsWithFrame == left = 0 \/ has_errored

\* The loop's condition and the break at its head.
LoopEnds == left = 0 \/ has_errored \/ should_stop

WorkerLoop ==
    /\ ~LoopEnds
    /\ WorkerMoves("loop", "acquire")

\* The thread marks the frame as over, before it stops the card.
WorkerEnd ==
    /\ LoopEnds
    /\ WorkerGoto("loop", "stopping")
    /\ state' = "STOPPED"
    /\ UNCHANGED <<chainVars, should_stop, joinable, locals, server, device,
                   status, fault, commands, history>>

\* acquire() returns data (as long as the model has records left) ...
WorkerAcquired ==
    /\ Len(sent["ps"]) < MaxRecords
    /\ WorkerMoves("acquire", "notify")

\* Mutant of WorkerThrows: has_errored is not set, the loop goes on.
WorkerThrowsGoesOn ==
    /\ WorkerGoto("acquire", "loop")
    /\ Publish("error", frame.n)
    /\ UNCHANGED <<chainVars, flags, locals, server, device, fault, commands,
                   history>>

\* ... or throws, which is reported: "error data: ..." for FrameDamaged and
\* "error ..." for the rest, both "error" here.
WorkerThrows ==
    /\ WorkerGoto("acquire", "loop")
    /\ Publish("error", frame.n)
    /\ has_errored' = TRUE
    /\ UNCHANGED <<chainVars, flags, frame, left, server, device, fault,
                   commands, history>>

\* The record is published; should_stop is not looked at again before.
WorkerNotify ==
    /\ WorkerGoto("notify", "loop")
    /\ NotifyRecord(frame.file)
    /\ left' = left - 1
    /\ sinceStop' = IF should_stop THEN sinceStop + 1 ELSE sinceStop
    /\ UNCHANGED <<flags, frame, has_errored, server, device, status, fault,
                   commands, reused, racing>>

\* digitizer->stop() succeeds.
WorkerStopCard ==
    /\ WorkerGoto("stopping", "finishing")
    /\ card' = "idle"
    /\ UNCHANGED <<chainVars, flags, locals, server, mode, status, fault,
                   commands, history>>

\* Every end of a frame is announced, a short or failed one too.
WorkerFinish ==
    /\ WorkerGoto("finishing", "ended")
    /\ Publish("finished", frame.n)
    /\ UNCHANGED <<chainVars, flags, locals, server, device, fault, commands,
                   history>>

WorkerStep ==
    \/ WorkerBegin
    \/ WorkerCheckIdle
    \/ WorkerCheckBusy
    \/ WorkerStart
    \/ WorkerDriverThrows
    \/ WorkerLoop
    \/ WorkerEnd
    \/ WorkerAcquired
    \/ WorkerThrows
    \/ WorkerNotify
    \/ WorkerStopCard
    \/ WorkerFinish

-----------------------------------------------------------------------------
(* AcquirePublisher::stop *)

\* The call, terminate_acquisition_chain being true for "stop acquire".
Stop(terminate) ==
    /\ Alive /\ server = "ready" /\ stops < MaxStops
    /\ stops' = stops + 1
    /\ should_stop' = TRUE
    /\ server' = IF terminate THEN "complete" ELSE "join"
    /\ UNCHANGED <<chainVars, state, joinable, worker, locals, device, status,
                   fault, starts, measures, history>>

\* notify_completed() of the chain's first publisher.
StopComplete ==
    /\ Alive /\ server = "complete"
    /\ NotifyCompleted
    /\ racing' = (worker \notin {"none", "ended"})
    /\ server' = "await"
    /\ UNCHANGED <<flags, worker, locals, device, status, fault, commands,
                   sinceStop, reused>>

\* The promise was kept before: set_value() throws, stop() logs and returns.
StopTwice ==
    /\ Alive /\ server = "complete"
    /\ completed["ap"]
    /\ server' = "ready"
    /\ UNCHANGED <<chainVars, flags, worker, locals, device, status, fault,
                   commands, history>>

\* Mutant of StopAwait: the chain is told to complete but not waited for.
StopNoWait ==
    /\ Alive /\ server = "await"
    /\ Publish("finished acquire", 0)
    /\ server' = "join"
    /\ UNCHANGED <<chainVars, flags, worker, locals, device, fault, commands,
                   history>>

\* notify_completed_and_wait() returns and the end of the chain is announced.
StopAwait ==
    /\ Alive /\ server = "await"
    /\ pc["ps"] = "done"
    /\ Publish("finished acquire", 0)
    /\ server' = "join"
    /\ UNCHANGED <<chainVars, flags, worker, locals, device, fault, commands,
                   history>>

\* The thread, if there is one, is joined and the command answered.
StopJoin ==
    /\ Alive /\ server = "join"
    /\ joinable => worker = "ended"
    /\ joinable' = FALSE
    /\ worker' = "none"
    /\ server' = "ready"
    /\ UNCHANGED <<chainVars, state, should_stop, locals, device, status, fault,
                   commands, history>>

-----------------------------------------------------------------------------
(* The "tof width" command: get_trigger_period_samples *)

\* A step of the server's thread that only has to do with the card.
MeasureGoto(from, to) ==
    /\ Alive /\ server = from /\ server' = to
    /\ UNCHANGED <<chainVars, flags, worker, locals, status, fault, starts,
                   stops, history>>

\* configure_cst() turns data reduction off and applies it to an idle card.
Measure ==
    /\ measures < MaxMeasures /\ measures' = measures + 1
    /\ card = "idle"
    /\ mode' = "cst"
    /\ MeasureGoto("ready", "measure")
    /\ UNCHANGED card

\* apply_setup() throws while an acquisition is running: an error reply.
MeasureRefused ==
    /\ measures < MaxMeasures /\ measures' = measures + 1
    /\ card = "acquiring"
    /\ MeasureGoto("ready", "ready")
    /\ UNCHANGED device

\* The context is started.
MeasureStart(from, to) ==
    /\ card = "idle"
    /\ card' = "acquiring"
    /\ MeasureGoto(from, to)
    /\ UNCHANGED <<mode, measures>>

\* The first acquire() throws: the context is stopped, to be started again.
MeasureRetry ==
    /\ card' = "idle"
    /\ MeasureGoto("measuring", "retry")
    /\ UNCHANGED <<mode, measures>>

\* Mutant of MeasureEnd: without StopOnLeaving, only the second try stops.
MeasureEndNoGuard ==
    /\ server \in {"measure", "measuring", "retry", "remeasuring"}
    /\ card' = IF server = "remeasuring" THEN "idle" ELSE card
    /\ MeasureGoto(server, "ready")
    /\ UNCHANGED <<mode, measures>>

\* start() throws, as it does when the other thread has started the card, or
\* the measurement returns or throws for good: StopOnLeaving aborts what the
\* card is doing, for whomever, and the command is answered.
MeasureEnd ==
    /\ server \in {"measure", "measuring", "retry", "remeasuring"}
    /\ card' = "idle"
    /\ MeasureGoto(server, "ready")
    /\ UNCHANGED <<mode, measures>>

\* What the server's thread does within a command.
ServerStep ==
    \/ StopComplete
    \/ StopTwice
    \/ StopAwait
    \/ StopJoin
    \/ MeasureStart("measure", "measuring")
    \/ MeasureStart("retry", "remeasuring")
    \/ MeasureRetry
    \/ MeasureEnd

-----------------------------------------------------------------------------

\* The threads of the chain run on as long as the process does.
ChainStep == Alive /\ ThreadStep /\ UNCHANGED ctrlVars

Next ==
    \/ StartRefused
    \/ StartThrows
    \/ \E f \in Frame : StartSpawn(f)
    \/ StartOverThread
    \/ WorkerStep
    \/ \E terminate \in BOOLEAN : Stop(terminate)
    \/ Measure
    \/ MeasureRefused
    \/ ServerStep
    \/ ChainStep

\* Every thread of the process is scheduled, and acquire() returns or throws
\* within its time limit.  No command need ever come.
Fairness ==
    /\ WF_vars(WorkerStep)
    /\ WF_vars(ServerStep)
    /\ WF_vars(Alive /\ ProcessStep /\ UNCHANGED ctrlVars)
    /\ \A s \in Downstream : WF_vars(Alive /\ DownstreamStep(s) /\ UNCHANGED ctrlVars)

Spec == Init /\ [][Next]_vars /\ Fairness

-----------------------------------------------------------------------------
(* Properties *)

\* A stop is not lost, however early it comes: after stop() has set its flag
\* the thread publishes at most the record it was acquiring, also when the
\* flag is set before the new thread has run its first instruction.
StopTakesEffect == sinceStop <= 1

\* Which records a terminated chain never handles: those whose acquire() was
\* under way when stop(true) completed the chain (acquirepublisher.cpp:210 runs
\* before the join of line 214), so at most one, and none when the frame was
\* over or stopped before.  A frame started on the dead chain is set apart.
OnlyTheRacingRecordIsLost ==
    pc["ps"] = "done" /\ ~reused =>
        Len(sent["ps"]) - Len(handled["ps"]) <= (IF racing THEN 1 ELSE 0)

\* "finished acquire" is truthful: when a client reads it, every frame the
\* chain made of its records is on the wire and in its file.
FinishedAcquireMeansHandled ==
    (\E k \in DOMAIN status : status[k][1] = "finished acquire") =>
        \A s \in Downstream : handled[s] = sent[s]

\* A frame has at most two status messages, an error and then its one
\* "finished": a client that has read "finished" hears no more of that frame.
FinishedIsLast ==
    \A j, k \in DOMAIN status :
        /\ j < k /\ status[j][2] = status[k][2]
        /\ "finished acquire" \notin {status[j][1], status[k][1]}
        => status[j][1] = "error" /\ status[k][1] = "finished"

\* Nothing is left running on the card when no command and no frame is under
\* way, however the measurement and the acquisition thread got in each other's
\* way: a card left initiated makes apply_setup refuse "for as long as the
\* process lives" (toftiminginformation.cpp:55).
CardAtRest ==
    Alive /\ server = "ready" /\ worker \in {"none", "ended"} => card = "idle"

\* Every command is answered, unless the process dies: the waits of stop() for
\* the chain and for the thread both end, and so does a measurement.
CommandReturns == server # "ready" ~> (server = "ready" \/ ~Alive)

\* uimfacquisitionrecord.h:24 "Should not be called if the data was acquired
\* without data-reduction enabled": the records of the chain, which process()
\* is called on, are acquired in the mode that "acquire" has set.
AcquiresReduced == worker = "acquire" => mode = "zs"

\* acquirepublisher.cpp:85 "Acquisition has not been stopped before attempting
\* to acquire again" and server.cpp:130 "the server stays up": starting a frame
\* again without a stop is refused, it does not end the process.
StartNeverDestroysThread == fault # "joinable thread destroyed"

\* Why they hold.  A thread that is between its first instruction and the end of
\* its loop has state ACQUIRING, so start() cannot clear its should_stop.
ThreadInv ==
    /\ frame \in [file : BOOLEAN, length : Nat, n : Nat] /\ starts \in Nat
    /\ should_stop \in BOOLEAN
    /\ ~joinable => worker = "none"
    /\ worker \in {"starting", "start", "loop", "acquire", "notify"} => state = "ACQUIRING"
    /\ server \in {"complete", "await", "join"} => should_stop

\* The thread looks at should_stop before it acquires, and acquires one record.
StopInv ==
    /\ sinceStop \in {0, 1}
    /\ worker \in {"spawned", "starting", "start", "acquire", "notify"} => sinceStop = 0
    /\ worker = "loop" /\ sinceStop = 1 => should_stop

\* Whoever has started the card has still to stop it.
CardInv ==
    \/ card = "idle"
    \/ server \in {"measuring", "remeasuring"}
    \/ worker \in {"loop", "acquire", "notify", "stopping"}

\* The end of the chain is announced after its future was set, and stays.
AnnouncedInv ==
    /\ status \in Seq({"error", "finished", "finished acquire"} \X Nat)
    /\ (\E k \in DOMAIN status : status[k][1] = "finished acquire") => pc["ps"] = "done"

InFlight == IF worker \in {"acquire", "notify"} THEN 1 ELSE 0

\* On a completed chain the thread has been told to stop and has at most the
\* record it was acquiring when the chain was completed.
RacingInv ==
    /\ pc["ps"] \in {"empty?", "completing", "waiting", "done"} => completed["ap"]
    /\ completed["ap"] /\ ~reused =>
        /\ server \in {"await", "join"} \/ worker = "none"
        /\ InFlight = 1 => racing
        /\ pc["ps"] \in {"completing", "waiting", "done"} =>
               Len(items["ps"]) + Len(protected_queue["ps"]) + InFlight
                   <= (IF racing THEN 1 ELSE 0)

\* The messages of a frame, while its thread runs, are its one error if it has
\* had one; numbers that are still to come have no messages.
StatusInv ==
    /\ frame.n <= starts
    /\ \A k \in DOMAIN status : status[k][2] <= starts
    /\ worker \in {"acquire", "notify"} => ~has_errored
    /\ worker \notin {"none", "ended"} =>
           \A k \in DOMAIN status :
               status[k][2] = frame.n /\ status[k][1] # "finished acquire" =>
                   has_errored /\ status[k][1] = "error"
    /\ FinishedIsLast

PublisherInv == ThreadInv /\ StopInv /\ CardInv /\ AnnouncedInv /\ RacingInv

=============================================================================
