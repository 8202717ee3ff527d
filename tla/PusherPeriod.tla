---------------------------- MODULE PusherPeriod ----------------------------
(***************************************************************************)
(* The measurement of the pusher period: TofTimingInformation on top of    *)
(* CstContext::acquire, which looks for the trigger markers in a stream    *)
(* that may still hold the markers of an acquisition that ended early.     *)
(*                                                                         *)
(* The card (external) appends markers while it runs.  A marker is a       *)
(* trigger with its timestamp or something else (a gate of an earlier      *)
(* acquisition); HunkSize elements each (16 in the code).  Timestamps have *)
(* TsBits bits and differences WordBits (64 in the code).  The clock of    *)
(* the host is there as the one fact the code asks for: the limit of this  *)
(* attempt has passed.                                                     *)
(***************************************************************************)
EXTENDS Integers, Sequences, SequencesExt, FiniteSets

CONSTANTS
    Triggers,               \* triggers_to_read, 20 in the code
    Periods,                \* the pusher periods to look at, in samples
    Leftovers,              \* markers in the stream before: how many, from when
    Gaps,                   \* clock ticks that pass between two acquisitions
    MinPeriod, MaxPeriod,   \* the believable band, in samples
    Delay, Rearm,           \* post-trigger delay and rearm time, in samples
    Align,                  \* a record is a multiple of it, 32 in the code
    HunkSize, TsBits, WordBits,
    MaxMultiplier,          \* markers_multiplier_max, 16 in the code
    MaxHunks                \* bound: markers the card produces

ASSUME PeriodAssumption ==
    /\ Triggers \in Nat \ {0, 1}
    /\ Periods \subseteq Nat \ {0} /\ Gaps \subseteq Nat \ {0}
    /\ HunkSize \in Nat \ {0} /\ Align \in Nat \ {0} /\ MaxMultiplier \in Nat \ {0}
    /\ Delay \in Nat /\ Rearm \in Nat /\ MaxHunks \in Nat

\* What an acquisition that ended early left: where not 0, the k-th trigger after
\* a time, none left out between two; where 0, a gate.
ASSUME LeftoversAssumption ==
    \A l \in Leftovers :
        /\ l.from \in Nat /\ l.markers \in Seq(Nat)
        /\ \A i \in DOMAIN l.markers :
               l.markers[i] # 0 => l.markers[i] = Cardinality({k \in 1..i : l.markers[k] # 0})

\* Differences that are not the period are a minority: there is one where each of
\* the two attempts begins, and one where the counter wraps.
ASSUME MinorityAssumption == 2 * 3 < Triggers - 1

\* An acquisition begins after the triggers of the one before; the counter of the
\* card runs through its range once at most while a period is measured; and a
\* period fits a difference of time stamps.
ASSUME TimeAssumption ==
    /\ 2^TsBits \in Nat \ {0} /\ 2^WordBits \in Nat
    /\ \A p \in Periods : p < 2^WordBits
    /\ \A p \in Periods, g \in Gaps :
           /\ \A l \in Leftovers : \A i \in DOMAIN l.markers : l.markers[i] * p < g
           /\ \A h \in Gaps : g + h + MaxHunks * p < 2^TsBits

VARIABLES
    period,     \* of the pusher
    clock,      \* timestamp of the next trigger
    stream,     \* markers the card has and the console has not fetched
    tail,       \* elements of a marker the card is still writing
    made,       \* markers the card has produced
    pc,         \* where the measurement is
    attempt,    \* 1, or 2 after the restart
    available,  \* available_elements_markers, as the last fetch said
    stamps,     \* timestamps collected by this attempt
    late,       \* now() > finish
    reply       \* the timing information, or that the command fails

card == <<period, clock, stream, tail, made>>
vars == <<card, pc, attempt, available, stamps, late, reply>>

Marker(ts) == [trigger |-> TRUE, ts |-> ts]
NoTrigger == [trigger |-> FALSE, ts |-> 0]

Wrap(n) == n % 2^TsBits

None == [ok |-> FALSE, period |-> 0, record_size |-> 0]

Init ==
    /\ period \in Periods
    /\ \E l \in Leftovers, g \in Gaps :
        /\ stream = [i \in DOMAIN l.markers |->
               IF l.markers[i] = 0 THEN NoTrigger
               ELSE Marker(Wrap(l.from + l.markers[i] * period))]
        /\ clock = Wrap(l.from + g)
    /\ tail = 0
    /\ made = 0
    /\ pc = "start"
    /\ attempt = 1
    /\ available = 0
    /\ stamps = <<>>
    /\ late = FALSE
    /\ reply = None

-----------------------------------------------------------------------------
(* The card and the clock *)

Running == pc \in {"markers", "samples"}

\* The pusher fires: a marker goes into the stream, or only a part of it.
Fire(part) ==
    /\ Running
    /\ made < MaxHunks
    /\ made' = made + 1
    /\ stream' = Append(stream, Marker(clock))
    /\ clock' = Wrap(clock + period)
    /\ tail' = part
    /\ UNCHANGED <<period, pc, attempt, available, stamps, late, reply>>

\* The time limit of the attempt passes.
Expire ==
    /\ Running
    /\ ~late
    /\ late' = TRUE
    /\ UNCHANGED <<card, pc, attempt, available, stamps, reply>>

-----------------------------------------------------------------------------
(* CstContext::acquire *)

\* start() and the call: what acquire() knows of the stream is its own.
Start ==
    /\ pc = "start"
    /\ pc' = "markers"
    /\ available' = 0
    /\ stamps' = <<>>
    /\ late' = FALSE
    /\ UNCHANGED <<card, attempt, reply>>

markers_to_acquire == Triggers * HunkSize
markers_request_max == markers_to_acquire * MaxMultiplier

\* Mutant of NextRequest: what is available is asked for as it is.
NextRequestAsIs ==
    IF available > markers_to_acquire
    THEN IF available < markers_request_max THEN available ELSE markers_request_max
    ELSE markers_to_acquire

\* More is asked for when more is waiting, in whole markers.
NextRequest ==
    IF available > markers_to_acquire
    THEN LET most == IF available < markers_request_max THEN available ELSE markers_request_max
         IN  most - (most % HunkSize)
    ELSE markers_to_acquire

\* check_fetch_alignment
Aligned(elements) == elements > 0 /\ elements % HunkSize = 0

\* The trigger hunks of a fetch, until there are enough; the rest is gone.
Collect(hunks) ==
    LET after[k \in 0..Len(hunks)] ==
            IF k = 0 THEN stamps
            ELSE IF hunks[k].trigger /\ Len(after[k - 1]) < Triggers
                 THEN Append(after[k - 1], hunks[k].ts)
                 ELSE after[k - 1]
    IN  after[Len(hunks)]

\* Mutant of AfterFetch: the loop only ends when there are enough triggers.
AfterFetchNoLimit(got) == IF Len(got) >= Triggers THEN "samples" ELSE "markers"

\* The limit is looked at after every fetch, one that was enough included.
AfterFetch(got) ==
    IF late THEN "failed" ELSE IF Len(got) >= Triggers THEN "samples" ELSE "markers"

\* A round of the loop: a request that is not of whole markers is refused before
\* the driver sees it; the driver gives what there is of the request, or none of
\* it yet, and says what is left.
FetchMarkers(given) ==
    LET there == IF Len(stream) * HunkSize < NextRequest THEN Len(stream)
                 ELSE NextRequest \div HunkSize
        n == IF given THEN there ELSE 0
        got == Collect(SubSeq(stream, 1, n))
    IN  /\ pc = "markers"
        /\ stamps' = got
        /\ stream' = SubSeq(stream, n + 1, Len(stream))
        /\ available' = (Len(stream) - n) * HunkSize + tail
        /\ pc' = IF Aligned(NextRequest) THEN AfterFetch(got) ELSE "failed"
        /\ UNCHANGED <<period, clock, tail, made, attempt, late, reply>>

\* The samples fetch: until one call gives them all, or the limit passes.
FetchSamples(enough) ==
    /\ pc = "samples"
    /\ pc' = IF late THEN "failed" ELSE IF enough THEN "acquired" ELSE "samples"
    /\ UNCHANGED <<card, attempt, available, stamps, late, reply>>

\* stream_fetch_data fails: acquire() throws as it does for the limit.
FetchFails ==
    /\ pc \in {"markers", "samples"}
    /\ pc' = "failed"
    /\ UNCHANGED <<card, attempt, available, stamps, late, reply>>

-----------------------------------------------------------------------------
(* TofTimingInformation *)

\* get_trigger_period_samples: one restart, after which the card may have lost
\* or kept what was in the stream.
Restart(kept, g) ==
    /\ pc = "failed"
    /\ attempt = 1
    /\ attempt' = 2
    /\ pc' = "start"
    /\ stream' = IF kept THEN stream ELSE <<>>
    /\ tail' = 0
    /\ clock' = Wrap(clock + g)
    /\ UNCHANGED <<period, made, available, stamps, late, reply>>

\* The second failure is reported.
GiveUp ==
    /\ pc = "failed"
    /\ attempt = 2
    /\ pc' = "replied"
    /\ UNCHANGED <<card, attempt, available, stamps, late, reply>>

\* Differences of consecutive timestamps, in unsigned arithmetic.
Differences(ts) ==
    [i \in 1..(Len(ts) - 1) |-> (ts[i + 1] - ts[i]) % 2^WordBits]

\* Mutant of MiddleOf: the mean, as it was upstream.
MiddleOfMean(ds) ==
    FoldLeft(LAMBDA a, b : a + b, 0, ds) \div Len(ds)

\* nth_element at size() / 2, the upper median: the one that as many places come
\* before, in any order by size.
MiddleOf(ds) ==
    LET before == Len(ds) \div 2
    IN  CHOOSE v \in Range(ds) :
            /\ Cardinality({i \in DOMAIN ds : ds[i] < v}) <= before
            /\ before < Cardinality({i \in DOMAIN ds : ds[i] <= v})

\* get_optimal_record_size: what the delay and the rearm time leave, rounded down.
RecordSize(width) ==
    LET rest == width - Delay - Rearm
    IN  IF width <= Delay + Rearm THEN [ok |-> FALSE, size |-> 0]
        ELSE [ok |-> TRUE, size |-> rest - (rest % Align)]

\* create_timing_information: a period out of the band, or one that leaves no
\* record, fails the command.
CreateTimingInformation ==
    /\ pc = "acquired"
    /\ pc' = "replied"
    /\ LET measured == MiddleOf(Differences(stamps))
           record == RecordSize(measured)
       IN  reply' = IF measured < MinPeriod \/ measured > MaxPeriod \/ ~record.ok
                    THEN None
                    ELSE [ok |-> TRUE, period |-> measured, record_size |-> record.size]
    /\ UNCHANGED <<card, attempt, available, stamps, late>>

AcquireStep ==
    \/ \E given \in BOOLEAN : FetchMarkers(given)
    \/ \E enough \in BOOLEAN : FetchSamples(enough)
    \/ FetchFails

TimingStep ==
    \/ Start
    \/ \E kept \in BOOLEAN, g \in Gaps : Restart(kept, g)
    \/ GiveUp
    \/ CreateTimingInformation

Next ==
    \/ AcquireStep
    \/ TimingStep
    \/ \E part \in 0..(HunkSize - 1) : Fire(part)
    \/ Expire

\* The thread of the server runs, a fetch comes back, with nothing at the worst,
\* and time passes; the card owes nothing.
Fairness ==
    /\ WF_vars(FetchMarkers(FALSE) \/ FetchSamples(FALSE) \/ TimingStep)
    /\ WF_vars(Expire)

Spec == Init /\ [][Next]_vars /\ Fairness

-----------------------------------------------------------------------------
(* Properties *)

\* What is replied is the pusher's period, although the stream may start with
\* markers of an earlier acquisition, gates among them, although time is missing
\* where one acquisition ends and the next begins, and the counter wraps once
\* (toftiminginformation.cpp:93, "a median rides out any minority of those"); and
\* delay, record and rearm time fit into it, with nothing that wraps below zero
\* on the way to the driver (toftiminginformation.cpp:123).
ReplyIsThePushers ==
    reply.ok =>
        /\ reply.period = period
        /\ reply.record_size % Align = 0
        /\ Delay + reply.record_size + Rearm <= period

\* acquire() never fails on its own alignment check: the request that follows
\* the backlog stays in whole markers, although the backlog is not, and fits the
\* buffer.
RequestIsSound ==
    pc = "markers" => Aligned(NextRequest) /\ NextRequest <= markers_request_max

\* Why it holds: what the last fetch said is left counts the elements of whole
\* markers and of the one that is being written.
BacklogInv ==
    /\ Len(stream) \in Nat
    /\ stream = [i \in 1..Len(stream) |-> stream[i]]
    /\ tail \in 0..HunkSize - 1
    /\ available \in Nat

\* A measurement comes to an end, whether the pusher runs or not: both loops of
\* cstcontext.cpp look at the limit, and there is one retry.
MeasurementEnds == <>(pc = "replied")

=============================================================================
