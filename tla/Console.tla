------------------------------ MODULE Console -------------------------------
(***************************************************************************)
(* The console as a whole, from its start on (main of aqmd3_console.cpp):  *)
(* it takes its settings from config.txt, opens the card and then serves   *)
(* commands that keep their state in main's variables: the controller, the *)
(* buffer pool, the sampling rate, and the attributes of the card.         *)
(*                                                                         *)
(* A command is one step.  What makes it long is a sequence of calls of    *)
(* the driver, any of which can throw: the calls before it have happened   *)
(* and the rest of the command has not.  The acquisition thread is seen    *)
(* only as far as the handler depends on it; AcquirePublisher.tla has its  *)
(* races with the commands, Server.tla the replies of a payload.           *)
(***************************************************************************)
EXTENDS Config, Messages, FiniteSets

CONSTANTS
    ConfigFiles,    \* contents config.txt may have
    Periods,        \* the pusher periods there can be, in samples
    PostTrigger,    \* the post-trigger delay, in samples
    Rearm,          \* the trigger rearm time, in samples
    Requests,       \* the values of the requests for frames
    MaxCommands     \* bound: commands that change state

ASSUME ConsoleAssumption ==
    /\ Periods \subseteq Nat
    /\ PostTrigger \in Nat
    /\ Rearm \in Nat
    /\ \A p \in Periods : p > PostTrigger + Rearm /\ p < 2^Bits64
    /\ MaxCommands \in Nat

\* A line is words and numbers; without a file there are none.
ASSUME ConfigFilesAssumption ==
    \A f \in ConfigFiles :
        /\ f.exists \in BOOLEAN
        /\ ~f.exists => f.lines = <<>>
        /\ f.lines \in Seq(Seq([word : STRING, number : Int]))
        /\ \A i \in DOMAIN f.lines : \A j \in DOMAIN f.lines[i] :
               f.lines[i][j].word # "" => f.lines[i][j].number = 0

VARIABLES
    pc,             \* "start", "serving", "exited", or "dead"
    config,         \* external: config.txt, or <<>> with exists FALSE
    settings,       \* the configuration variables
    trigger_rising,
    session,        \* external: the driver has opened the card
    card,           \* external: the card's attributes, as set and as applied
    sampling_rate,  \* whether "horizontal" has set one
    avg_tof_period_samples,
    buffer_pool,    \* samples_per_trigger of its buffers, 0 without a pool
    controller,     \* the controller in place; none before the first "acquire"
    frame,          \* the parameters its thread was last started with
    commands,       \* commands so far
    reply,          \* history: the last reply to the client
    sent,           \* history: the request the frame was started by, <<>> for
                    \* the continuous one or one that did not arrive as it was sent
    shortest,       \* history: the shortest period "acquire" has taken over
    remeasured,     \* history: a measurement has set the card up since "acquire"
    protocol        \* history: where the client is in its conversation

setupVars == <<config, settings, trigger_rising, session>>
mainVars == <<sampling_rate, avg_tof_period_samples, buffer_pool, controller, frame>>
historyVars == <<sent, shortest, remeasured, protocol>>
vars == <<pc, setupVars, card, mainVars, commands, reply, historyVars>>

\* The attributes of the card the console sets.
Attributes == {"trigger", "slope", "rate", "channel", "inversion", "port",
               "streaming", "reduction", "hysteresis", "threshold", "record_size"}

Unset == [a \in Attributes |-> -1]

\* Values of the enumerated ones.
Triggered == 1
Disabled == 0
ZeroSuppress == 1

NoController == [exists |-> FALSE, thread |-> "none", joinable |-> FALSE, completed |-> FALSE,
                 record_size |-> 0, tof_width |-> 0]

\* create_inf_params(): the longest frame there can be, without a file.
create_inf_params ==
    [start_trigger |-> 0, nbr_samples |-> 0, nbr_accumulations |-> 0,
     frame_length |-> 2^Bits64 - 1, frame_number |-> 1, offset_bins |-> 20000, file_name |-> ""]

Init ==
    /\ pc = "start"
    /\ config \in ConfigFiles
    /\ settings = Defaults
    /\ trigger_rising = TRUE
    /\ session \in BOOLEAN
    /\ card = [set |-> Unset, applied |-> Unset]
    /\ sampling_rate = FALSE
    /\ avg_tof_period_samples = 0
    /\ buffer_pool = 0
    /\ controller = NoController
    /\ frame = create_inf_params
    /\ commands = 0
    /\ reply = <<>>
    /\ sent = <<>>
    /\ shortest = 0
    /\ remeasured = FALSE
    /\ protocol = "closed"

-----------------------------------------------------------------------------
(* main, up to server->run() *)

\* Settings are taken over as they are read, before the last of them is checked.
\* A file that is refused ends the process; without one the defaults hold.
configure_settings ==
    LET s == Settings(read(config.lines))
    IN  /\ pc = "start"
        /\ pc' = IF config.exists /\ s.throws THEN "exited" ELSE "serving"
        /\ settings' = IF config.exists THEN s.value ELSE settings
        /\ trigger_rising' = (config.exists => s.trigger_rising)
        /\ UNCHANGED <<config, session, card, mainVars, commands, reply,
                       historyVars>>

-----------------------------------------------------------------------------
(* The driver, through Digitizer and SA220 *)

Set(attribute, value) == <<[call |-> attribute, value |-> value]>>
Other(call) == <<[call |-> call, value |-> 0]>>

\* The last of the first n calls that is this one, or 0.
Latest(calls, call, n) == Max({0} \cup {j \in 1..n : calls[j].call = call})

\* What the calls make of the card, if none throws: an attribute has the value
\* it was last set to, and the last apply_setup() has applied those set by then.
After(c, calls) ==
    LET setBy(n) == [a \in Attributes |->
            LET j == Latest(calls, a, n) IN IF j = 0 THEN c.set[a] ELSE calls[j].value]
        applied == Latest(calls, "apply_setup", Len(calls))
    IN  [set |-> setBy(Len(calls)),
         applied |-> IF applied = 0 THEN c.applied ELSE setBy(applied)]

Busy == controller.thread = "acquiring"

\* How many of the calls may succeed before check_and_throw_on_error() throws,
\* or all: none without a card, no apply_setup() while it acquires.
Succeed(calls) ==
    IF session
    THEN {n \in 0..Len(calls) : \A j \in 1..n : calls[j].call = "apply_setup" => ~Busy}
    ELSE {0}

\* SA220::set_trigger_parameters.
SetTrigger ==
    Set("trigger", settings.PassedOn) \o Set("slope", IF trigger_rising THEN 1 ELSE 0)

\* SA220::configure_cst, without and with zero suppression.
ConfigureCst ==
    Set("streaming", Triggered) \o Set("reduction", Disabled) \o Other("apply_setup")
        \o Other("calibrate")

\* Mutant of ConfigureZs: the setup is applied before the threshold is set.
ConfigureZsEarly ==
    Set("streaming", Triggered) \o Set("reduction", ZeroSuppress)
        \o Set("hysteresis", settings.ZeroSuppressHysteresis)
        \o Other("apply_setup")
        \o Set("threshold", settings.ZeroSuppressThreshold)
        \o Other("calibrate")

ConfigureZs ==
    Set("streaming", Triggered) \o Set("reduction", ZeroSuppress)
        \o Set("hysteresis", settings.ZeroSuppressHysteresis)
        \o Set("threshold", settings.ZeroSuppressThreshold)
        \o Other("apply_setup") \o Other("calibrate")

\* create_timing_information(): without a sampling rate the delays have no
\* samples.  PusherPeriod.tla has the measurement.
Timing(period) ==
    [record_size |-> IF sampling_rate THEN period - PostTrigger - Rearm ELSE period,
     post |-> IF sampling_rate THEN PostTrigger ELSE 0,
     tof_width |-> period]

MeasurePeriod == ConfigureCst \o Other("measure")

-----------------------------------------------------------------------------
(* Commands *)

Command == pc = "serving" /\ commands < MaxCommands /\ commands' = commands + 1

\* A command that only calls the driver, and is answered with ack or error.
CallDriver(calls) ==
    \E n \in Succeed(calls) :
        /\ card' = After(card, SubSeq(calls, 1, n))
        /\ reply' = IF n = Len(calls) THEN <<"ack">> ELSE <<"error">>

DriverCommand(calls) ==
    /\ Command
    /\ CallDriver(calls)
    /\ UNCHANGED <<pc, setupVars, mainVars, historyVars>>

init == DriverCommand(SetTrigger)

vertical == DriverCommand(Set("channel", settings.FullScaleRange))

invert(on) == DriverCommand(Set("inversion", IF on THEN 1 ELSE 0))

\* control_io_port_name(): the one port of the configuration, whatever number
\* the client sends; "disable io port" sets it to no signal.
io_port(enable) ==
    DriverCommand(Set("port", IF enable THEN settings.ControlIoPort ELSE 0))

\* The rate is taken over before the driver is asked to take it.
horizontal ==
    /\ Command
    /\ sampling_rate' = TRUE
    /\ CallDriver(Set("rate", 1))
    /\ UNCHANGED <<pc, setupVars, avg_tof_period_samples, buffer_pool, controller,
                   frame, historyVars>>

\* Mutant of TofWidthReply: the samples of the record, without those before it.
TofWidthReplyRecord(t) ==
    <<"width", TofWidthSerialize(
        [TofWidthClear EXCEPT !.value = <<t.tof_width, t.record_size>>])>>

\* The reply of "acquire" and "tof width": a serialized message and its hash.
TofWidthReply(t) ==
    <<"width", TofWidthSerialize(
        [TofWidthClear EXCEPT !.value = <<t.tof_width, t.record_size + t.post>>])>>

\* The period is measured and the record size set, whatever controller is in
\* place; nothing but the card changes.
tof_width(period) ==
    LET t == Timing(period)
        calls == MeasurePeriod \o Set("record_size", t.record_size)
    IN  /\ Command
        /\ \E n \in Succeed(calls) :
               /\ card' = After(card, SubSeq(calls, 1, n))
               /\ reply' = IF n = Len(calls) THEN TofWidthReply(t) ELSE <<"error">>
        /\ remeasured' = TRUE
        /\ UNCHANGED <<pc, setupVars, mainVars, sent, shortest, protocol>>

-----------------------------------------------------------------------------
(* "acquire" *)

\* The calls up to the new controller.
AcquireCalls(t) ==
    MeasurePeriod \o Set("record_size", t.record_size) \o Other("get_publisher") \o ConfigureZs

\* The calls before the period is taken over, and before there is a pool.
Measured == Len(MeasurePeriod) + 1
Published == Measured + 1

\* Mutant of PoolSize: the pool is made before the period is taken over.
PoolSizeBefore(t) == avg_tof_period_samples

\* samples_per_trigger of the pool, which is made once.
PoolSize(t) == IF buffer_pool = 0 THEN t.tof_width ELSE buffer_pool

\* The controller with its chain and the context it acquires from, its thread
\* started on the frame without an end.
NewController(t) ==
    [exists |-> TRUE, thread |-> "spawned", joinable |-> TRUE, completed |-> FALSE,
     record_size |-> t.record_size,
     tof_width |-> t.tof_width]

\* Mutant of ControllerAfter: the old one goes before the new one is ready.
ControllerAfterReset(ok, t) == IF ok THEN NewController(t) ELSE NoController

\* The old controller stays until the new one is ready to take its place.
ControllerAfter(ok, t) == IF ok THEN NewController(t) ELSE controller

\* A controller is destroyed with a thread that was not joined.
Destroys(ok) == ok /\ controller.joinable

acquire(period) ==
    LET t == Timing(period)
        calls == AcquireCalls(t)
    IN  /\ Command
        /\ \E n \in Succeed(calls) : LET ok == n = Len(calls) IN
               /\ card' = After(card, SubSeq(calls, 1, n))
               /\ avg_tof_period_samples' =
                      IF n >= Measured THEN t.tof_width ELSE avg_tof_period_samples
               /\ buffer_pool' = IF n >= Published THEN PoolSize(t) ELSE buffer_pool
               /\ controller' = ControllerAfter(ok, t)
               /\ frame' = IF ok THEN create_inf_params ELSE frame
               /\ pc' = IF Destroys(ok) THEN "dead" ELSE pc
               /\ reply' = IF ok THEN TofWidthReply(t) ELSE <<"error">>
               /\ sent' = IF ok THEN <<>> ELSE sent
               /\ shortest' = IF n >= Measured /\ (shortest = 0 \/ period < shortest)
                              THEN period ELSE shortest
               /\ remeasured' = ~ok
               /\ protocol' = IF ~ok THEN protocol
                              ELSE IF protocol \in {"closed", "stopped"} THEN "running"
                              ELSE "broken"
        /\ UNCHANGED <<setupVars, sampling_rate>>

-----------------------------------------------------------------------------
(* "acquire frame" and "stop" *)

\* The values of the client's message.
RequestValues(r) ==
    <<r.start_trigger, r.nbr_samples, r.frame_length, r.nbr_accumulations,
      r.frame_number, r.offset_bins, r.file_name, 0>>

\* A number is one that its field holds.
ASSUME RequestsAssumption ==
    \A r \in Requests :
        /\ r \in [start_trigger : Nat, nbr_samples : Nat, nbr_accumulations : Nat,
                  frame_length : Nat, frame_number : Nat, offset_bins : Nat, file_name : STRING]
        /\ \A f \in DOMAIN UimfRequestFields :
               Cast(UimfRequestFields[f].type, RequestValues(r)[f]) = RequestValues(r)[f]

\* The client writes its request; uncompressed it reaches the console as it
\* was, without its end, or not at all.
ClientWrites(r) ==
    UimfRequestSerialize([UimfRequestClear EXCEPT !.value = RequestValues(r)])

Arrivals(wire) ==
    {wire, <<>>} \cup
    {Append(SubSeq(wire, 1, i), [field |-> 0, type |-> "bad", value |-> ""]) :
        i \in 0..Len(wire) - 1}

\* AcquirePublisher::start refuses while the thread acquires, and assigns over
\* a thread that was not joined.
Refuses == controller.thread = "acquiring"
Overwrites == controller.joinable /\ ~Refuses

\* Neither Uncompress() nor MergeFromString() is asked whether it succeeded, and
\* start() is called whether there is a controller or not.
acquire_frame(request) ==
    /\ Command
    /\ \E wire \in Arrivals(ClientWrites(request)) :
           IF Refuses THEN UNCHANGED <<frame, sent>>
           ELSE /\ frame' = uimf_message_to_parameters(UimfRequestParse(wire).message)
                /\ sent' = IF wire = ClientWrites(request) THEN <<request>> ELSE <<>>
    /\ IF ~controller.exists \/ Overwrites
          THEN pc' = "dead" /\ UNCHANGED controller
          ELSE /\ controller' = IF Refuses THEN controller
                                ELSE [controller EXCEPT !.thread = "spawned", !.joinable = TRUE]
               /\ UNCHANGED pc
    /\ reply' = <<"ack">>
    /\ protocol' = IF protocol = "stopped" THEN "running" ELSE "broken"
    /\ UNCHANGED <<setupVars, card, sampling_rate, avg_tof_period_samples, buffer_pool,
                   shortest, remeasured>>

\* stop() throws before it gets to the thread when the chain was completed before.
Joins(terminate) == ~(terminate /\ controller.completed)

\* "stop frame" joins the thread; "stop acquire" ends the chain before.
stop(terminate) ==
    /\ Command
    /\ controller' =
           IF ~controller.exists THEN controller
           ELSE [controller EXCEPT
                    !.completed = @ \/ terminate,
                    !.thread = IF Joins(terminate) THEN "none" ELSE @,
                    !.joinable = @ /\ ~Joins(terminate)]
    /\ reply' = <<"ack">>
    /\ protocol' = IF protocol \in {"closed", "broken"} THEN protocol
                   ELSE IF terminate THEN "closed" ELSE "stopped"
    /\ UNCHANGED <<pc, setupVars, card, sampling_rate, avg_tof_period_samples, buffer_pool,
                   frame, sent, shortest, remeasured>>

-----------------------------------------------------------------------------
(* The acquisition thread, as far as start() and the card can tell *)

ThreadStep(from, to) ==
    /\ pc = "serving"
    /\ controller.thread = from
    /\ controller' = [controller EXCEPT !.thread = to]
    /\ UNCHANGED <<pc, setupVars, card, sampling_rate, avg_tof_period_samples, buffer_pool,
                   frame, commands, reply, historyVars>>

ThreadBegins == ThreadStep("spawned", "acquiring")
ThreadEnds == ThreadStep("acquiring", "ended")

DriverCommands == init \/ vertical \/ horizontal \/ \E b \in BOOLEAN : invert(b) \/ io_port(b)

Next ==
    \/ configure_settings
    \/ DriverCommands
    \/ \E p \in Periods : acquire(p) \/ tof_width(p)
    \/ \E r \in Requests : acquire_frame(r)
    \/ \E terminate \in BOOLEAN : stop(terminate)
    \/ ThreadBegins
    \/ ThreadEnds

Spec == Init /\ [][Next]_vars

-----------------------------------------------------------------------------
(* Properties *)

\* The first line of the file that sets the key, of those that are well formed.
Decides(i, key) ==
    LET sets(j) == Len(config.lines[j]) = 2 /\ config.lines[j][1] = Word(key)
    IN  sets(i) /\ \A j \in 1..i - 1 : ~sets(j)

\* A console that serves does so with what the first line for each key says, a
\* number within the card's documented limits, and with the source's literals
\* for the keys no line sets; a file that says anything else for one of them is
\* not served with (configure_settings, reject_bad_settings, main's return).
ServesAsConfigured ==
    pc = "serving" =>
        /\ \A key \in DOMAIN Defaults :
               \/ \E i \in DOMAIN config.lines :
                      Decides(i, key) /\ config.lines[i][2] = Number(settings[key])
               \/ settings[key] = Defaults[key] /\ ~\E i \in DOMAIN config.lines : Decides(i, key)
        /\ settings.ZeroSuppressThreshold \in -32768..32767
        /\ settings.ZeroSuppressHysteresis \in 100..1023
        /\ settings.FullScaleRange \in {5, 25}
        /\ settings.ControlIoPort \in 1..3

\* The handler takes the process down only on a client that starts a frame
\* before an "acquire" was answered with a width or after "stop acquire", or
\* starts anything over a frame that it has not stopped: a command that fails
\* in the middle, and any retry of it, leaves a console that serves
\* ("acquire" replacing the controller, start()'s thread, controller->start).
DiesOnlyByProtocol == pc = "dead" => protocol = "broken"

\* What the card applied when it was last set up is what the controller in
\* place counts on: zero suppression with the configured threshold and
\* hysteresis, and the record size of its period, unless a later measurement,
\* or an "acquire" that failed, has set the card up for itself.
CardMatchesController ==
    controller.exists /\ ~remeasured =>
        /\ card.applied.streaming = Triggered
        /\ card.applied.reduction = ZeroSuppress
        /\ card.applied.threshold = settings.ZeroSuppressThreshold
        /\ card.applied.hysteresis = settings.ZeroSuppressHysteresis
        /\ card.applied.record_size = controller.record_size

\* The buffers hold a record of the controller's triggers, whichever "acquire"
\* made the pool and however far the ones since got, unless an earlier one
\* measured a shorter period (buffer_pool, made once).
PoolFits ==
    controller.exists => controller.tof_width <= buffer_pool \/ shortest < controller.tof_width

\* What the client reads in a reply with a width is a period, and the samples
\* from the trigger to the end of the record the card was set to, which leave
\* the card the time to rearm when a sampling rate was set before (the replies
\* of "acquire" and "tof width").
ReplyDescribesCard ==
    reply # <<>> /\ reply[1] = "width" =>
        LET width == TofWidthParse(reply[2]).message.value
        IN  \/ /\ width[2] = card.set.record_size + PostTrigger
               /\ width[2] + Rearm = width[1]
            \/ width[2] = card.set.record_size /\ width[2] = width[1]

\* A frame that is started by a request that arrived as it was sent has the
\* parameters the client wrote into it, by name (uimf_message_to_parameters and
\* the generated parser).
FrameIsAsAsked == sent # <<>> => frame = sent[1]

\* Why they hold.  A client that has kept to the protocol has joined the thread
\* before it starts another, and has completed the chain only to get a new one.
ProtocolInv ==
    /\ pc \in {"start", "serving", "exited", "dead"}
    /\ protocol \in {"closed", "stopped", "running", "broken"}
    /\ controller \in [exists : BOOLEAN, thread : {"none", "spawned", "acquiring", "ended"},
                       joinable : BOOLEAN, completed : BOOLEAN,
                       record_size : Int, tof_width : Nat]
    /\ protocol \in {"closed", "stopped"} => ~controller.joinable
    /\ protocol \in {"stopped", "running"} => controller.exists /\ ~controller.completed
    /\ DiesOnlyByProtocol

\* The pool is of a period that "acquire" has taken over, and comes before the
\* controller.
PoolInv ==
    /\ buffer_pool \in Nat /\ shortest \in Nat
    /\ controller.exists => buffer_pool # 0
    /\ buffer_pool # 0 => shortest \in 1..buffer_pool
    /\ PoolFits

\* The settings change with the file only, before any command.
SetupInv ==
    /\ config \in ConfigFiles
    /\ pc = "start" => settings = Defaults /\ ~controller.exists
    /\ ServesAsConfigured
    /\ CardMatchesController

ConsoleInv == ProtocolInv /\ PoolInv /\ SetupInv

=============================================================================
