--------------------------- MODULE CstZs1Context ---------------------------
(***************************************************************************)
(* The zero-suppressed streaming context (libaqmd3 CstZs1Context): how     *)
(* acquire() puts a record together from two streams of the card.  The     *)
(* markers stream says which triggers came and which gates, stretches of   *)
(* samples above the threshold, each of them has; the samples stream holds *)
(* the samples of the gates and nothing that says whose they are.          *)
(*                                                                         *)
(* A hunk of the markers stream is <<"trigger", t>> or <<"gate", t, j>>,   *)
(* where t is also the trigger's timestamp, and <<t, j>> in the samples    *)
(* stream stands for the samples of the j-th gate of trigger t.  The card  *)
(* is external.  Starting it empties both streams; the fault the code is   *)
(* written against, markers of a frame before read a second time, is a     *)
(* start that leaves such markers in the stream.                           *)
(***************************************************************************)
EXTENDS Naturals, Sequences

CONSTANTS
    Reads,          \* values of triggers_to_read
    MaxGates,       \* bound: gates of a trigger
    MaxTriggers,    \* bound: triggers of the card
    MaxFrames       \* bound: start() calls

ASSUME ContextAssumption ==
    /\ Reads \subseteq Nat \ {0}
    /\ MaxGates \in Nat
    /\ MaxTriggers \in Nat
    /\ MaxFrames \in Nat

VARIABLES
    markers,        \* external: the card's markers stream
    samples,        \* external: the card's samples stream
    made,           \* external: made[t] is the number of gates of trigger t
    pc,             \* where the context is
    markers_buffer, \* hunks fetched and not yet walked
    triggers_to_read,
    trig_count,
    stamps,         \* the triggers of the record
    gates,          \* the gates of the record: the trigger each was put
                    \* under, and which gate of its trigger the marker is of
    fetched,        \* the content of samples_buffer
    last_trigger,           \* 0 as long as it is not valid
    frame_last_trigger,
    frame_first_trigger_checked,
    frames,         \* start() calls so far
    walked,         \* history: the hunks walked so far
    returned        \* history: last trigger of the frame's last record

card == <<markers, samples, made>>
record == <<triggers_to_read, trig_count, stamps, gates, fetched>>
frame == <<last_trigger, frame_last_trigger, frame_first_trigger_checked, frames>>

vars == <<card, pc, markers_buffer, record, frame, walked, returned>>

Init ==
    /\ markers = <<>> /\ samples = <<>> /\ made = <<>>
    /\ pc = "stopped"
    /\ markers_buffer = <<>>
    /\ triggers_to_read = 0 /\ trig_count = 0
    /\ stamps = <<>> /\ gates = <<>> /\ fetched = <<>>
    /\ last_trigger = 0 /\ frame_last_trigger = 0
    /\ frame_first_trigger_checked = FALSE
    /\ frames = 0
    /\ walked = <<>>
    /\ returned = 0

-----------------------------------------------------------------------------
(* The card *)

\* A trigger with g gates, while the card is running.
Trigger(g) ==
    LET t == Len(made) + 1 IN
    /\ pc # "stopped"
    /\ t <= MaxTriggers
    /\ made' = Append(made, g)
    /\ markers' = markers \o <<<<"trigger", t>>>> \o [j \in 1..g |-> <<"gate", t, j>>]
    /\ samples' = samples \o [j \in 1..g |-> <<t, j>>]
    /\ UNCHANGED <<pc, markers_buffer, record, frame, walked, returned>>

-----------------------------------------------------------------------------
(* start() and stop() *)

\* The card is started, with the last r hunks walked before in its markers
\* stream; what was seen until now is frozen.
Start(r) ==
    /\ pc = "stopped"
    /\ frames < MaxFrames
    /\ r \in 0..Len(walked)
    /\ markers' = SubSeq(walked, Len(walked) - r + 1, Len(walked))
    /\ samples' = <<>>
    /\ pc' = "ready"
    /\ frame_last_trigger' = last_trigger
    /\ frame_first_trigger_checked' = FALSE
    /\ frames' = frames + 1
    /\ returned' = 0
    /\ UNCHANGED <<made, markers_buffer, record, last_trigger, walked>>

\* Mutant of Stop: the markers not yet walked are kept.
StopKeepsMarkers ==
    /\ pc \in {"ready", "failed"}
    /\ pc' = "stopped"
    /\ UNCHANGED <<card, markers_buffer, record, frame, walked, returned>>

\* The card is stopped and the markers not yet walked are dropped.
Stop ==
    /\ pc \in {"ready", "failed"}
    /\ pc' = "stopped"
    /\ markers_buffer' = <<>>
    /\ UNCHANGED <<card, record, frame, walked, returned>>

-----------------------------------------------------------------------------
(* acquire() *)

Acquire(n) ==
    /\ pc = "ready"
    /\ pc' = "walk"
    /\ triggers_to_read' = n
    /\ trig_count' = 0
    /\ stamps' = <<>> /\ gates' = <<>> /\ fetched' = <<>>
    /\ UNCHANGED <<card, markers_buffer, frame, walked, returned>>

Hunk == Head(markers_buffer)

Walk(kind) == pc = "walk" /\ markers_buffer # <<>> /\ Hunk[1] = kind

\* markers_buffer.advance_processed(16)
Advance ==
    /\ markers_buffer' = Tail(markers_buffer)
    /\ walked' = Append(walked, Hunk)

\* The frame's first trigger is not past the last of the frame before.
IsReplay(timestamp) ==
    /\ ~frame_first_trigger_checked
    /\ frame_last_trigger # 0
    /\ timestamp <= frame_last_trigger

\* Mutant of LastTrigger: the walk goes one trigger too far.
LastTriggerLate == trig_count + 1 > triggers_to_read + 1

\* The trigger at hand is the one after the last one wanted.
LastTrigger == trig_count + 1 >= triggers_to_read + 1

\* Mutant of WalkLast: the hunk that ends the walk is passed over too.
WalkLastConsumes ==
    /\ Walk("trigger")
    /\ LastTrigger
    /\ trig_count' = trig_count + 1
    /\ pc' = "samples"
    /\ Advance
    /\ UNCHANGED <<card, triggers_to_read, stamps, gates, fetched, frame,
                   returned>>

\* That trigger ends the walk and stays in markers_buffer for the next call.
WalkLast ==
    /\ Walk("trigger")
    /\ LastTrigger
    /\ trig_count' = trig_count + 1
    /\ pc' = "samples"
    /\ UNCHANGED <<card, markers_buffer, triggers_to_read, stamps, gates,
                   fetched, frame, walked, returned>>

\* Mutant of WalkTrigger: a replay is logged and the walk goes on.
WalkTriggerAnyway ==
    LET t == Hunk[2] IN
    /\ Walk("trigger")
    /\ ~LastTrigger
    /\ trig_count' = trig_count + 1
    /\ stamps' = Append(stamps, t)
    /\ frame_first_trigger_checked' = TRUE
    /\ last_trigger' = IF t > last_trigger THEN t ELSE last_trigger
    /\ Advance
    /\ UNCHANGED <<card, pc, triggers_to_read, gates, fetched,
                   frame_last_trigger, frames, returned>>

\* A trigger of the record, and note_trigger() finds nothing wrong.
WalkTrigger ==
    LET t == Hunk[2] IN
    /\ Walk("trigger")
    /\ ~LastTrigger
    /\ ~IsReplay(t)
    /\ trig_count' = trig_count + 1
    /\ stamps' = Append(stamps, t)
    /\ frame_first_trigger_checked' = TRUE
    /\ last_trigger' = IF t > last_trigger THEN t ELSE last_trigger
    /\ Advance
    /\ UNCHANGED <<card, pc, triggers_to_read, gates, fetched,
                   frame_last_trigger, frames, returned>>

\* note_trigger() throws FrameDamaged: the frame ends, and the code lets the
\* client start another, although it says a client should restart the console.
WalkReplayed ==
    LET t == Hunk[2] IN
    /\ Walk("trigger")
    /\ ~LastTrigger
    /\ IsReplay(t)
    /\ trig_count' = trig_count + 1
    /\ stamps' = Append(stamps, t)
    /\ frame_first_trigger_checked' = TRUE
    /\ pc' = "failed"
    /\ UNCHANGED <<card, markers_buffer, triggers_to_read, gates, fetched,
                   last_trigger, frame_last_trigger, frames, walked, returned>>

\* A gate goes under the last trigger walked.
WalkGate ==
    /\ Walk("gate")
    /\ stamps # <<>>
    /\ gates' = Append(gates, <<stamps[Len(stamps)], Hunk[3]>>)
    /\ Advance
    /\ UNCHANGED <<card, pc, triggers_to_read, trig_count, stamps, fetched,
                   frame, returned>>

\* A gate before the first trigger is skipped and its samples are not fetched.
WalkOrphan ==
    /\ Walk("gate")
    /\ stamps = <<>>
    /\ Advance
    /\ UNCHANGED <<card, pc, record, frame, returned>>

\* The buffer is walked through: the next m hunks are fetched.  How many are
\* asked for at a time is left open.
FetchMarkers(m) ==
    /\ pc = "walk"
    /\ markers_buffer = <<>>
    /\ m \in 1..Len(markers)
    /\ markers_buffer' = SubSeq(markers, 1, m)
    /\ markers' = SubSeq(markers, m + 1, Len(markers))
    /\ UNCHANGED <<samples, made, pc, record, frame, walked, returned>>

\* A part of the samples outstanding is fetched.
FetchSamples(m) ==
    /\ pc = "samples"
    /\ m \in 1..Len(samples)
    /\ m <= Len(gates) - Len(fetched)
    /\ fetched' = fetched \o SubSeq(samples, 1, m)
    /\ samples' = SubSeq(samples, m + 1, Len(samples))
    /\ UNCHANGED <<markers, made, pc, markers_buffer, triggers_to_read,
                   trig_count, stamps, gates, frame, walked, returned>>

\* The record is complete.
Return ==
    /\ pc = "samples"
    /\ Len(fetched) = Len(gates)
    /\ pc' = "ready"
    /\ returned' = stamps[Len(stamps)]
    /\ UNCHANGED <<card, markers_buffer, record, frame, walked>>

\* A fetch fails or the time is up, also when it has just brought markers, or
\* a hunk has an unknown header.  The caller ends the frame.
Throws ==
    /\ pc \in {"walk", "samples"}
    /\ pc' = "failed"
    /\ UNCHANGED <<card, markers_buffer, record, frame, walked, returned>>

Next ==
    \/ \E g \in 0..MaxGates : Trigger(g)
    \/ \E r \in 0..Len(walked) : Start(r)
    \/ Stop
    \/ \E n \in Reads : Acquire(n)
    \/ WalkLast
    \/ WalkTrigger
    \/ WalkReplayed
    \/ WalkGate
    \/ WalkOrphan
    \/ \E m \in 1..Len(markers) : FetchMarkers(m)
    \/ \E m \in 1..Len(samples) : FetchSamples(m)
    \/ Return
    \/ Throws

Spec == Init /\ [][Next]_vars

-----------------------------------------------------------------------------
(* Properties *)

\* The last call of acquire() has returned.
HasRecord == pc = "ready" /\ stamps # <<>> /\ returned # 0

\* The two streams stay in step: however the markers are split over fetches
\* and calls, and whatever failed in the frames before, a record holds all the
\* samples of its triggers, each under its own gate, and no others.
RecordIsWhole ==
    HasRecord =>
        /\ fetched = gates
        /\ {gates[q] : q \in DOMAIN gates} =
               UNION {{stamps[p]} \X (1..made[stamps[p]]) : p \in DOMAIN stamps}

\* The triggers of a record are as many as were asked for and follow on each
\* other: none is skipped or read twice at the seam of two calls, where the
\* extra trigger that ends one call is left for the next.
TriggersFollowOn ==
    HasRecord =>
        /\ Len(stamps) = triggers_to_read
        /\ \A p \in 1..(Len(stamps) - 1) : stamps[p + 1] = stamps[p] + 1

\* The same from one record of a frame to the next.
NoTriggerBetweenRecords ==
    [][Return /\ returned # 0 => stamps[1] = returned + 1]_vars

\* cstzs1context.cpp:79: not a single sample is fetched against markers that
\* are replayed: every gate whose samples are asked for is of a trigger that
\* no earlier frame has walked, also in the frames after a damaged one.
NothingFetchedAgainstReplay ==
    pc = "samples" => \A q \in DOMAIN gates : gates[q][1] > frame_last_trigger

-----------------------------------------------------------------------------
(* Why they hold: the inductive invariant *)

\* The hunks of the card: a trigger, or the j-th gate of a trigger.
Hunks == ({"trigger"} \X Nat) \cup ({"gate"} \X Nat \X Nat)

TypeOK ==
    /\ markers \in Seq(Hunks) /\ markers_buffer \in Seq(Hunks)
    /\ walked \in Seq(Hunks)
    /\ samples \in Seq(Nat \X Nat)
    /\ gates \in Seq(Nat \X Nat) /\ fetched \in Seq(Nat \X Nat)
    /\ made \in Seq(Nat) /\ stamps \in Seq(Nat)
    /\ pc \in {"stopped", "ready", "walk", "samples", "failed"}
    /\ triggers_to_read \in Nat /\ trig_count \in Nat
    /\ last_trigger \in Nat /\ frame_last_trigger \in Nat
    /\ frame_first_trigger_checked \in BOOLEAN
    /\ frames \in Nat /\ returned \in Nat

\* What was walked and what is to be walked.
Stream == walked \o (markers_buffer \o markers)

\* Which of the trigger's hunks it is: 0 is the trigger itself.
Place(h) == IF h[1] = "gate" THEN h[3] ELSE 0

Fresh(h) == h[2] > frame_last_trigger

\* k is the hunk the card writes after h.
Follows(h, k) ==
    IF Place(h) < made[h[2]] THEN k = <<"gate", h[2], Place(h) + 1>>
                             ELSE k = <<"trigger", h[2] + 1>>

\* The order in which the card writes, of samples and of <<t, Place>> alike.
Before(a, b) == a[1] < b[1] \/ (a[1] = b[1] /\ a[2] < b[2])

\* A frame is under way and not damaged.
Sound == pc \in {"ready", "walk", "samples"}

\* No hunk is of a trigger the card has not made.
IsMade(h) == h[2] \in 1..Len(made) /\ Place(h) \in 0..made[h[2]]

HunksAreMade == \A p \in DOMAIN Stream : IsMade(Stream[p])

\* What was walked, and so what can be replayed, is old for the next frame.
WalkedIsOld ==
    /\ \A p \in DOMAIN walked :
           IsMade(walked[p]) /\ walked[p][2] <= last_trigger
    /\ frame_last_trigger <= last_trigger
    /\ last_trigger <= Len(made)
    /\ pc = "stopped" => markers_buffer = <<>>

\* Old hunks come first, and the fresh ones are all the card has written from
\* some trigger on.
StreamFollowsOn ==
    /\ \A p \in 1..(Len(Stream) - 1) :
           IF Fresh(Stream[p]) THEN Follows(Stream[p], Stream[p + 1])
           ELSE Fresh(Stream[p + 1]) => Stream[p + 1][1] = "trigger"
    /\ \A p, q \in DOMAIN Stream :
           Fresh(Stream[p]) /\ p < q =>
               Before(<<Stream[p][2], Place(Stream[p])>>,
                      <<Stream[q][2], Place(Stream[q])>>)
    /\ Stream # <<>> /\ Fresh(Stream[Len(Stream)]) =>
           /\ Stream[Len(Stream)][2] = Len(made)
           /\ Place(Stream[Len(Stream)]) = made[Len(made)]

\* The gates walked whose samples are still to be fetched.
Owed == IF pc \in {"walk", "samples"} THEN Len(gates) - Len(fetched) ELSE 0

\* The samples stream holds what is owed and then the samples of the gates
\* that are still to be walked.
StreamsInStep ==
    /\ Owed \in 0..Len(samples)
    /\ \A i \in 1..Owed : samples[i] = gates[Len(fetched) + i]
    /\ \A p \in (Len(walked) + 1)..Len(Stream) :
           Fresh(Stream[p]) /\ Stream[p][1] = "gate" =>
               \E i \in (Owed + 1)..Len(samples) :
                   samples[i] = <<Stream[p][2], Stream[p][3]>>
    /\ \A i \in (Owed + 1)..Len(samples) :
           \E p \in (Len(walked) + 1)..Len(Stream) :
               Fresh(Stream[p]) /\ Stream[p] = <<"gate", samples[i][1], samples[i][2]>>
    /\ \A i, k \in (Owed + 1)..Len(samples) :
           i < k => Before(samples[i], samples[k])

\* Between two records, and before the first trigger of one, a trigger is next
\* unless the hunk is old; in a frame with a record it is the very next one.
SeamIsTrigger ==
    /\ frame_first_trigger_checked =>
           walked # <<>> /\ Fresh(walked[Len(walked)])
    /\ (pc = "ready" \/ (pc = "walk" /\ stamps = <<>>)) =>
           /\ Len(walked) < Len(Stream) /\ Fresh(Stream[Len(walked) + 1]) =>
                  Stream[Len(walked) + 1][1] = "trigger"
           /\ returned # 0 =>
                  markers_buffer # <<>> /\ Hunk = <<"trigger", returned + 1>>
    /\ pc = "samples" => markers_buffer # <<>> /\ Hunk[1] = "trigger"

InRecord == pc \in {"walk", "samples"} \/ (pc = "ready" /\ returned # 0)

\* The triggers of the record follow on each other, from the last one returned,
\* and the last of them is the one being walked.
RecordFollowsOn ==
    /\ IF pc = "walk"
       THEN trig_count = Len(stamps) /\ Len(stamps) <= triggers_to_read
       ELSE Len(stamps) = triggers_to_read
    /\ triggers_to_read > 0
    /\ \A p \in 1..(Len(stamps) - 1) : stamps[p + 1] = stamps[p] + 1
    /\ \A p \in DOMAIN stamps :
           stamps[p] > frame_last_trigger /\ stamps[p] <= Len(made)
    /\ stamps # <<>> =>
           /\ frame_first_trigger_checked
           /\ walked # <<>> /\ walked[Len(walked)][2] = stamps[Len(stamps)]
           /\ pc # "ready" /\ returned # 0 => stamps[1] = returned + 1

\* The gates of the record are those walked of its triggers; what was fetched
\* is theirs.
RecordHasItsGates ==
    /\ \A q \in DOMAIN gates : \E p \in DOMAIN stamps :
           gates[q][1] = stamps[p] /\ gates[q][2] \in 1..made[stamps[p]]
    /\ \A p \in DOMAIN stamps : \A j \in 1..made[stamps[p]] :
           (p < Len(stamps) \/ j <= Place(walked[Len(walked)])) =>
               \E q \in DOMAIN gates : gates[q] = <<stamps[p], j>>
    /\ pc # "walk" =>
           Place(walked[Len(walked)]) = made[walked[Len(walked)][2]]
    /\ pc = "walk" => fetched = <<>>
    /\ pc = "ready" => Len(fetched) = Len(gates)
    /\ Len(fetched) <= Len(gates)
    /\ \A k \in DOMAIN fetched : fetched[k] = gates[k]

ContextInv ==
    /\ TypeOK
    /\ WalkedIsOld
    /\ Sound => HunksAreMade /\ StreamFollowsOn /\ StreamsInStep /\ SeamIsTrigger
    /\ InRecord => RecordFollowsOn /\ RecordHasItsGates

=============================================================================
