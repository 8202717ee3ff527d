------------------------ MODULE CstZs1ContextProofs ------------------------
(***************************************************************************)
(* What is proved about the zero-suppressed streaming context for all      *)
(* bounds, whatever is asked for at a time and whatever is replayed: the   *)
(* four properties the run of MCCstZs1Context checks, from ContextInv.     *)
(***************************************************************************)
EXTENDS CstZs1Context, SequenceTheorems, TLAPS

-----------------------------------------------------------------------------
(* Streams of hunks *)

\* advance_processed(): a hunk goes from what is to be walked to what was
\* walked, and the stream as a whole stays what it is.
LEMMA AdvanceKeepsStream ==
    ASSUME NEW S, NEW w \in Seq(S), NEW b \in Seq(S), NEW m \in Seq(S), b # <<>>
    PROVE  Append(w, Head(b)) \o (Tail(b) \o m) = w \o (b \o m)
<1>1. Append(w, Head(b)) = w \o <<Head(b)>>
  BY AppendIsConcat, HeadTailProperties
<1>2. <<Head(b)>> \o Tail(b) = b
  BY HeadTailProperties
<1>3. <<Head(b)>> \in Seq(S) /\ Tail(b) \in Seq(S)
  BY HeadTailProperties
<1>4. <<Head(b)>> \o (Tail(b) \o m) = b \o m
  BY <1>2, <1>3, ConcatAssociative, SMTT(60)
<1>5. Tail(b) \o m \in Seq(S)
  BY <1>3, ConcatProperties, SMTT(60)
<1> QED
  BY <1>1, <1>3, <1>4, <1>5, ConcatAssociative, SMTT(60)

\* read_markers(): what is fetched was next.
LEMMA FetchKeepsStream ==
    ASSUME NEW S, NEW m \in Seq(S), NEW k \in 1..Len(m)
    PROVE  /\ SubSeq(m, 1, k) \in Seq(S) /\ SubSeq(m, 1, k) # <<>>
           /\ SubSeq(m, k + 1, Len(m)) \in Seq(S)
           /\ SubSeq(m, 1, k) \o SubSeq(m, k + 1, Len(m)) = m
<1>1. SubSeq(m, 1, k) \in Seq(S) /\ Len(SubSeq(m, 1, k)) = k
  BY SubSeqProperties
<1>2. SubSeq(m, k + 1, Len(m)) \in Seq(S)
  BY SubSeqProperties
<1>3. SubSeq(m, 1, k) \o SubSeq(m, k + 1, Len(m)) = SubSeq(m, 1, Len(m))
  <2>1. 1 \in 1..(Len(m) + 1) /\ k \in (1 - 1)..Len(m) /\ Len(m) \in k..Len(m)
    BY LenProperties
  <2> QED
    BY <2>1, ConcatAdjacentSubSeq
<1>4. SubSeq(m, 1, Len(m)) = m
  BY SubSeqFull
<1>5. SubSeq(m, 1, k) # <<>>
  BY <1>1, EmptySeq
<1> QED
  BY <1>1, <1>2, <1>3, <1>4, <1>5

\* Where a hunk is found in a stream.
LEMMA StreamPlaces ==
    ASSUME NEW S, NEW w \in Seq(S), NEW b \in Seq(S), NEW m \in Seq(S)
    PROVE  LET s == w \o (b \o m) IN
           /\ s \in Seq(S)
           /\ Len(s) = Len(w) + Len(b) + Len(m)
           /\ \A p \in DOMAIN w : s[p] = w[p]
           /\ b # <<>> => Len(w) < Len(s) /\ s[Len(w) + 1] = Head(b)
           /\ b = <<>> => b \o m = m
<1>1. b \o m \in Seq(S) /\ Len(b \o m) = Len(b) + Len(m)
  BY ConcatProperties
<1>2. b # <<>> => Len(b) > 0 /\ (b \o m)[1] = Head(b)
  BY ConcatProperties, HeadTailProperties
<1>3. b = <<>> => b \o m = m
  OBVIOUS
<1> DEFINE c == b \o m
<1>4. w \o c \in Seq(S) /\ Len(w \o c) = Len(w) + Len(c)
  BY <1>1, ConcatProperties
<1>5. \A p \in DOMAIN w : (w \o c)[p] = w[p]
  BY <1>1, ConcatProperties
<1>6. Len(c) > 0 => (w \o c)[Len(w) + 1] = c[1]
  BY <1>1, ConcatProperties
<1> QED
  BY <1>1, <1>2, <1>3, <1>4, <1>5, <1>6

\* The card writes at the end.
LEMMA WrittenAtEnd ==
    ASSUME NEW S, NEW w \in Seq(S), NEW b \in Seq(S), NEW m \in Seq(S), NEW n \in Seq(S)
    PROVE  LET s == w \o (b \o m)  t == w \o (b \o (m \o n)) IN
           /\ t \in Seq(S)
           /\ Len(t) = Len(s) + Len(n)
           /\ \A p \in 1..Len(s) : t[p] = s[p]
           /\ \A p \in 1..Len(n) : t[Len(s) + p] = n[p]
<1> DEFINE s == w \o (b \o m)
<1>1. b \o m \in Seq(S) /\ m \o n \in Seq(S) /\ s \in Seq(S)
  BY ConcatProperties
<1>2. w \o (b \o (m \o n)) = s \o n
  <2>1. b \o (m \o n) = (b \o m) \o n
    BY ConcatAssociative, SMTT(60)
  <2>2. w \o ((b \o m) \o n) = (w \o (b \o m)) \o n
    BY <1>1, ConcatAssociative, SMTT(60)
  <2> QED
    BY <2>1, <2>2
<1> HIDE DEF s
<1>3. s \o n \in Seq(S) /\ Len(s \o n) = Len(s) + Len(n)
  BY <1>1, ConcatProperties
<1>4. \A p \in 1..Len(s) : (s \o n)[p] = s[p]
  BY <1>1, ConcatProperties
<1>5. \A p \in 1..Len(n) : (s \o n)[Len(s) + p] = n[p]
  BY <1>1, ConcatProperties
<1> QED
  BY <1>2, <1>3, <1>4, <1>5 DEF s

-----------------------------------------------------------------------------
(* The invariant, action by action *)

\* Where the hunks walked, and the next one, are in the stream.
LEMMA StreamOfState ==
    ASSUME TypeOK
    PROVE  /\ Stream \in Seq(Hunks)
           /\ Len(Stream) \in Nat
           /\ Len(Stream) = Len(walked) + Len(markers_buffer) + Len(markers)
           /\ \A p \in DOMAIN Stream : Stream[p] \in Hunks
           /\ \A p \in DOMAIN walked : p \in DOMAIN Stream /\ Stream[p] = walked[p]
           /\ DOMAIN Stream = 1..Len(Stream)
           /\ markers_buffer # <<>> =>
                  /\ Hunk \in Hunks
                  /\ Len(walked) < Len(Stream)
                  /\ Stream[Len(walked) + 1] = Hunk
<1>0. walked \in Seq(Hunks) /\ markers_buffer \in Seq(Hunks) /\ markers \in Seq(Hunks)
  BY DEF TypeOK
<1>1. /\ Stream \in Seq(Hunks)
      /\ Len(Stream) = Len(walked) + Len(markers_buffer) + Len(markers)
      /\ \A p \in DOMAIN walked : Stream[p] = walked[p]
      /\ markers_buffer # <<>> =>
             Len(walked) < Len(Stream) /\ Stream[Len(walked) + 1] = Hunk
  BY <1>0, StreamPlaces, SMTT(60) DEF Stream, Hunk
<1>2. markers_buffer # <<>> => Hunk \in Hunks
  BY <1>0, HeadTailProperties DEF Hunk
<1>3. Len(Stream) \in Nat /\ DOMAIN Stream = 1..Len(Stream)
  BY <1>1, LenProperties
<1>4. \A p \in DOMAIN Stream : Stream[p] \in Hunks
  BY <1>1, <1>3, ElementOfSeq
<1>5. \A p \in DOMAIN walked : p \in DOMAIN Stream
  BY <1>0, <1>1, <1>3, LenProperties
<1> QED
  BY <1>1, <1>2, <1>3, <1>4, <1>5

\* The hunk at hand is walked: what is known of the stream after it.
LEMMA AdvanceInv ==
    ASSUME TypeOK, HunksAreMade, markers_buffer # <<>>, Advance,
           UNCHANGED <<markers, made, frame_last_trigger>>
    PROVE  /\ Stream' = Stream
           /\ walked' \in Seq(Hunks) /\ markers_buffer' \in Seq(Hunks)
           /\ walked' # <<>> /\ Len(walked') = Len(walked) + 1
           /\ walked'[Len(walked')] = Hunk
           /\ \A p \in DOMAIN walked : walked'[p] = walked[p]
           /\ HunksAreMade'
           /\ StreamFollowsOn => StreamFollowsOn'
<1>0. walked \in Seq(Hunks) /\ markers_buffer \in Seq(Hunks) /\ markers \in Seq(Hunks)
  BY DEF TypeOK
<1>a. markers_buffer' = Tail(markers_buffer) /\ walked' = Append(walked, Head(markers_buffer))
  BY DEF Advance, Hunk
<1>1. Stream' = Stream
  BY <1>0, <1>a, AdvanceKeepsStream, SMTT(60) DEF Stream
<1>2. Hunk \in Hunks /\ markers_buffer' \in Seq(Hunks)
  BY <1>0, <1>a, HeadTailProperties DEF Hunk
<1>3. /\ walked' \in Seq(Hunks) /\ walked' # <<>>
      /\ Len(walked') = Len(walked) + 1
      /\ walked'[Len(walked')] = Hunk
      /\ \A p \in DOMAIN walked : walked'[p] = walked[p]
  <2>1. walked' = Append(walked, Hunk)
    BY <1>a DEF Hunk
  <2>2. DOMAIN walked = 1..Len(walked)
    BY <1>0, LenProperties
  <2> QED
    BY <1>0, <1>2, <2>1, <2>2, AppendProperties
<1>4. HunksAreMade'
  BY <1>1 DEF HunksAreMade, IsMade, Place
<1>5. StreamFollowsOn => StreamFollowsOn'
  BY <1>1 DEF StreamFollowsOn, Fresh, Follows, Place, Before
<1> QED
  BY <1>1, <1>2, <1>3, <1>4, <1>5

\* Nothing is in the streams, in hand or in a record at first.
LEMMA InitInv == Init => ContextInv
<1> SUFFICES ASSUME Init PROVE ContextInv
  OBVIOUS
<1>1. TypeOK
  BY EmptySeq DEF Init, TypeOK
<1> QED
  BY <1>1 DEF Init, ContextInv, WalkedIsOld, Sound, InRecord

\* stop(): the markers not yet walked are dropped.
LEMMA StopInv == ASSUME ContextInv, Stop PROVE ContextInv'
<1>1. TypeOK'
  BY EmptySeq DEF ContextInv, TypeOK, Stop, card, record, frame
<1>2. WalkedIsOld'
  BY DEF ContextInv, WalkedIsOld, IsMade, Place, Stop, card, record, frame
<1> QED
  BY <1>1, <1>2 DEF ContextInv, Stop, Sound, InRecord

\* start(): what is replayed was walked, and is old now.
LEMMA StartInv ==
    ASSUME ContextInv, NEW r \in 0..Len(walked), Start(r) PROVE ContextInv'
<1>0. TypeOK /\ WalkedIsOld /\ walked \in Seq(Hunks) /\ pc = "stopped"
  BY DEF ContextInv, TypeOK, Start
<1> DEFINE old == SubSeq(walked, Len(walked) - r + 1, Len(walked))
<1>1. /\ old \in Seq(Hunks)
      /\ Len(old) = r
      /\ \A i \in 1..r : old[i] = walked[Len(walked) - r + i]
  <2>1. Len(walked) \in Nat /\ Len(walked) - r + 1 \in Int
    BY <1>0, LenProperties
  <2>2. \A i \in (Len(walked) - r + 1)..Len(walked) : walked[i] \in Hunks
    BY <1>0, <2>1, ElementOfSeq
  <2> QED
    BY <2>1, <2>2, SubSeqProperties
<1>2. /\ markers' = old /\ markers_buffer' = <<>> /\ walked' = walked
      /\ made' = made /\ frame_last_trigger' = last_trigger
      /\ last_trigger' = last_trigger /\ samples' = <<>> /\ pc' = "ready"
      /\ returned' = 0 /\ frame_first_trigger_checked' = FALSE
      /\ stamps' = stamps /\ gates' = gates /\ fetched' = fetched
  BY <1>0 DEF Start, WalkedIsOld, record
<1> HIDE DEF old
<1>3. TypeOK'
  <2>1. markers_buffer' \in Seq(Hunks) /\ samples' \in Seq(Nat \X Nat)
    BY <1>2, EmptySeq
  <2>2. frames' \in Nat /\ UNCHANGED record
    BY <1>0 DEF Start, TypeOK
  <2> QED
    BY <1>0, <1>1, <1>2, <2>1, <2>2 DEF TypeOK, record
<1>4. WalkedIsOld'
  BY <1>0, <1>2 DEF TypeOK, WalkedIsOld, IsMade, Place
<1>5. \A p \in DOMAIN Stream' : \E k \in DOMAIN walked : Stream'[p] = walked[k]
  <2>1. Stream' = walked \o old
    <3>1. markers_buffer' \o markers' = old
      BY <1>1, <1>2, ConcatEmptySeq
    <3> QED
      BY <1>2, <3>1 DEF Stream
  <2>2. Len(walked \o old) = Len(walked) + r /\ walked \o old \in Seq(Hunks)
    BY <1>0, <1>1, ConcatProperties
  <2> TAKE p \in DOMAIN Stream'
  <2>3. p \in 1..(Len(walked) + r) /\ DOMAIN walked = 1..Len(walked) /\ Len(walked) \in Nat
    BY <1>0, <2>1, <2>2, LenProperties
  <2>4. Stream'[p] = IF p <= Len(walked) THEN walked[p] ELSE old[p - Len(walked)]
    BY <1>0, <1>1, <2>1, <2>3, ConcatProperties
  <2>5. CASE p <= Len(walked)
    BY <2>3, <2>4, <2>5
  <2>6. CASE p > Len(walked)
    <3>1. p - Len(walked) \in 1..r
      BY <2>3, <2>6
    <3>2. Stream'[p] = walked[Len(walked) - r + (p - Len(walked))]
      BY <1>1, <2>3, <2>4, <2>6, <3>1
    <3>3. Len(walked) - r + (p - Len(walked)) \in DOMAIN walked
      BY <2>3, <3>1
    <3> QED
      BY <3>2, <3>3
  <2> QED
    BY <2>3, <2>5, <2>6
<1>6. HunksAreMade'
  BY <1>0, <1>2, <1>5 DEF WalkedIsOld, HunksAreMade, IsMade, Place
<1>7. \A p \in DOMAIN Stream' : ~Fresh(Stream[p])'
  <2> TAKE p \in DOMAIN Stream'
  <2>1. PICK k \in DOMAIN walked : Stream'[p] = walked[k]
    BY <1>5
  <2>2. walked[k][2] <= last_trigger /\ walked[k][2] \in Int /\ last_trigger \in Nat
    BY <1>0 DEF WalkedIsOld, IsMade, TypeOK
  <2> QED
    BY <1>2, <2>1, <2>2 DEF Fresh
<1>8. DOMAIN Stream' = 1..Len(Stream') /\ Len(Stream') \in Nat
  <2>1. Stream' \in Seq(Hunks)
    BY <1>3, StreamPlaces DEF TypeOK, Stream
  <2> QED
    BY <2>1, LenProperties
<1>9. StreamFollowsOn'
  <2>1. Stream' # <<>> => Len(Stream') \in DOMAIN Stream'
    <3>1. Stream' \in Seq(Hunks)
      BY <1>3, StreamPlaces DEF TypeOK, Stream
    <3> QED
      BY <1>8, <3>1, EmptySeq
  <2> QED
    BY <1>7, <1>8, <2>1 DEF StreamFollowsOn, Fresh
<1>10. StreamsInStep'
  <2>1. Owed' = 0 /\ Len(samples') = 0 /\ Len(walked') \in Nat
    BY <1>0, <1>2, LenProperties DEF Owed
  <2> QED
    BY <1>7, <1>8, <2>1 DEF StreamsInStep
<1>11. SeamIsTrigger'
  <2>1. Len(walked') < Len(Stream') => Len(walked') + 1 \in DOMAIN Stream'
    BY <1>0, <1>2, <1>8, LenProperties
  <2> QED
    BY <1>2, <1>7, <2>1 DEF SeamIsTrigger, Fresh
<1> QED
  BY <1>2, <1>3, <1>4, <1>6, <1>9, <1>10, <1>11 DEF ContextInv, Sound, InRecord

\* A step that leaves the stream as it is.
LEMMA SameStream ==
    ASSUME Stream' = Stream, UNCHANGED <<made, frame_last_trigger>>
    PROVE  /\ HunksAreMade => HunksAreMade'
           /\ StreamFollowsOn => StreamFollowsOn'
<1>1. HunksAreMade => HunksAreMade'
  BY DEF HunksAreMade, IsMade, Place
<1>2. StreamFollowsOn => StreamFollowsOn'
  BY DEF StreamFollowsOn, Fresh, Follows, Place, Before
<1> QED
  BY <1>1, <1>2

\* A step that leaves the streams alone, and what is owed of them.
LEMMA SameStreams ==
    ASSUME StreamsInStep, Stream' = Stream, Owed' = Owed,
           UNCHANGED <<walked, samples, frame_last_trigger>>,
           Owed = 0 \/ UNCHANGED <<gates, fetched>>
    PROVE  StreamsInStep'
<1>1. \A i \in 1..Owed' : samples'[i] = gates'[Len(fetched') + i]
  <2>1. CASE Owed = 0
    BY <2>1
  <2>2. CASE UNCHANGED <<gates, fetched>>
    BY <2>2 DEF StreamsInStep
  <2> QED
    BY <2>1, <2>2
<1>2. (Owed \in 0..Len(samples))'
  BY DEF StreamsInStep
<1>3. (\A p \in (Len(walked) + 1)..Len(Stream) :
           Fresh(Stream[p]) /\ Stream[p][1] = "gate" =>
               \E i \in (Owed + 1)..Len(samples) :
                   samples[i] = <<Stream[p][2], Stream[p][3]>>)'
  BY DEF StreamsInStep, Fresh
<1>4. (\A i \in (Owed + 1)..Len(samples) :
           \E p \in (Len(walked) + 1)..Len(Stream) :
               Fresh(Stream[p]) /\ Stream[p] = <<"gate", samples[i][1], samples[i][2]>>)'
  BY DEF StreamsInStep, Fresh
<1>5. (\A i, k \in (Owed + 1)..Len(samples) :
           i < k => Before(samples[i], samples[k]))'
  BY DEF StreamsInStep, Before
<1> QED
  BY <1>1, <1>2, <1>3, <1>4, <1>5 DEF StreamsInStep

\* acquire() begins: an empty record, and nothing owed as before.
LEMMA AcquireInv ==
    ASSUME ContextInv, NEW n \in Reads, Acquire(n) PROVE ContextInv'
<1>0. TypeOK /\ WalkedIsOld /\ HunksAreMade /\ StreamFollowsOn /\ StreamsInStep
      /\ SeamIsTrigger /\ pc = "ready" /\ n \in Nat /\ n > 0
  BY ContextAssumption DEF ContextInv, Sound, Acquire
<1>1. /\ pc' = "walk" /\ triggers_to_read' = n /\ trig_count' = 0
      /\ stamps' = <<>> /\ gates' = <<>> /\ fetched' = <<>>
      /\ UNCHANGED <<markers, samples, made, markers_buffer, walked, returned>>
      /\ UNCHANGED <<last_trigger, frame_last_trigger, frame_first_trigger_checked, frames>>
  BY DEF Acquire, card, frame
<1>2. Stream' = Stream /\ Hunk' = Hunk
  BY <1>1 DEF Stream, Hunk
<1>3. TypeOK'
  <2>1. stamps' \in Seq(Nat) /\ gates' \in Seq(Nat \X Nat) /\ fetched' \in Seq(Nat \X Nat)
    BY <1>1, EmptySeq
  <2> QED
    BY <1>0, <1>1, <2>1 DEF TypeOK
<1>4. WalkedIsOld'
  BY <1>0, <1>1 DEF WalkedIsOld, IsMade, Place
<1>5. HunksAreMade' /\ StreamFollowsOn'
  BY <1>0, <1>1, <1>2, SameStream
<1>6. StreamsInStep'
  <2>1. Owed = 0 /\ Owed' = 0
    BY <1>0, <1>1 DEF Owed
  <2> QED
    BY <1>0, <1>1, <1>2, <2>1, SameStreams
<1>7. SeamIsTrigger'
  BY <1>0, <1>1, <1>2 DEF SeamIsTrigger, Fresh
<1>8. RecordFollowsOn'
  BY <1>0, <1>1 DEF RecordFollowsOn
<1>9. RecordHasItsGates'
  BY <1>0, <1>1 DEF RecordHasItsGates
<1> QED
  BY <1>3, <1>4, <1>5, <1>6, <1>7, <1>8, <1>9 DEF ContextInv

\* A hunk is fetched and not yet walked: the stream is the same.
LEMMA FetchMarkersInv ==
    ASSUME ContextInv, NEW m \in 1..Len(markers), FetchMarkers(m) PROVE ContextInv'
<1>0. TypeOK /\ WalkedIsOld /\ HunksAreMade /\ StreamFollowsOn /\ StreamsInStep
      /\ SeamIsTrigger /\ RecordFollowsOn /\ RecordHasItsGates
      /\ pc = "walk" /\ markers_buffer = <<>>
      /\ walked \in Seq(Hunks) /\ markers \in Seq(Hunks)
  BY DEF ContextInv, TypeOK, Sound, InRecord, FetchMarkers
<1>1. /\ markers_buffer' = SubSeq(markers, 1, m)
      /\ markers' = SubSeq(markers, m + 1, Len(markers))
      /\ UNCHANGED <<samples, made, pc, walked, returned>>
      /\ UNCHANGED <<triggers_to_read, trig_count, stamps, gates, fetched>>
      /\ UNCHANGED <<last_trigger, frame_last_trigger, frame_first_trigger_checked, frames>>
  BY DEF FetchMarkers, record, frame
<1>2. /\ markers_buffer' \in Seq(Hunks) /\ markers_buffer' # <<>>
      /\ markers' \in Seq(Hunks)
      /\ markers_buffer' \o markers' = markers
  BY <1>0, <1>1, FetchKeepsStream
<1>3. Stream' = Stream
  <2>1. markers_buffer \o markers = markers
    BY <1>0, ConcatEmptySeq
  <2> QED
    BY <1>1, <1>2, <2>1 DEF Stream
<1>4. TypeOK'
  BY <1>0, <1>1, <1>2 DEF TypeOK
<1>5. WalkedIsOld'
  BY <1>0, <1>1 DEF WalkedIsOld, IsMade, Place
<1>6. HunksAreMade' /\ StreamFollowsOn'
  BY <1>0, <1>1, <1>3, SameStream
<1>7. StreamsInStep'
  <2>1. Owed' = Owed
    BY <1>1 DEF Owed
  <2> QED
    BY <1>0, <1>1, <1>3, <2>1, SameStreams
<1>8. SeamIsTrigger'
  BY <1>0, <1>1, <1>3 DEF SeamIsTrigger, Fresh
<1>9. RecordFollowsOn' /\ RecordHasItsGates'
  BY <1>0, <1>1 DEF RecordFollowsOn, RecordHasItsGates, Place
<1> QED
  BY <1>4, <1>5, <1>6, <1>7, <1>8, <1>9 DEF ContextInv

\* The frame is damaged: nothing but what was walked matters any more.
LEMMA ThrowsInv == ASSUME ContextInv, Throws PROVE ContextInv'
<1>1. TypeOK'
  BY DEF ContextInv, TypeOK, Throws, card, record, frame
<1>2. WalkedIsOld'
  BY DEF ContextInv, WalkedIsOld, IsMade, Place, Throws, card, record, frame
<1> QED
  BY <1>1, <1>2 DEF ContextInv, Throws, Sound, InRecord

\* A replayed marker ends the walk with a throw.
LEMMA WalkReplayedInv == ASSUME ContextInv, WalkReplayed PROVE ContextInv'
<1>1. TypeOK'
  <2>1. Hunk[2] \in Nat
    BY StreamOfState DEF ContextInv, WalkReplayed, Walk, Hunks
  <2>2. stamps' \in Seq(Nat)
    BY <2>1, AppendProperties DEF ContextInv, TypeOK, WalkReplayed
  <2> QED
    BY <2>2 DEF ContextInv, TypeOK, WalkReplayed, card
<1>2. WalkedIsOld'
  BY DEF ContextInv, WalkedIsOld, IsMade, Place, WalkReplayed, card
<1> QED
  BY <1>1, <1>2 DEF ContextInv, WalkReplayed, Sound, InRecord

\* The two forms of a hunk.
LEMMA HunkForms ==
    ASSUME NEW h \in Hunks
    PROVE  /\ h[2] \in Nat /\ Place(h) \in Nat
           /\ h[1] \in {"trigger", "gate"}
           /\ h[1] = "trigger" => h = <<"trigger", h[2]>> /\ Place(h) = 0
           /\ h[1] = "gate" => h = <<"gate", h[2], h[3]>> /\ Place(h) = h[3]
  BY DEF Hunks, Place

\* The hunk at hand is the one that follows the last one walked.
LEMMA NextFollows ==
    ASSUME TypeOK, StreamFollowsOn, walked # <<>>, markers_buffer # <<>>
    PROVE  /\ Len(walked) \in DOMAIN walked
           /\ walked[Len(walked)] \in Hunks /\ Hunk \in Hunks
           /\ IF Fresh(walked[Len(walked)])
              THEN /\ Follows(walked[Len(walked)], Hunk)
                   /\ Hunk[2] >= walked[Len(walked)][2] /\ Fresh(Hunk)
              ELSE Fresh(Hunk) => Hunk[1] = "trigger"
<1> DEFINE w == Len(walked)
<1>1. w \in DOMAIN walked /\ w \in Nat /\ w > 0
  BY LenProperties, EmptySeq DEF TypeOK
<1>2. w < Len(Stream) /\ Stream[w + 1] = Hunk /\ Stream[w] = walked[w]
      /\ Len(Stream) \in Nat /\ walked[w] \in Hunks /\ Hunk \in Hunks
  BY <1>1, StreamOfState
<1>3. w \in 1..(Len(Stream) - 1)
  BY <1>1, <1>2
<1>4. IF Fresh(walked[w]) THEN Follows(walked[w], Hunk)
      ELSE Fresh(Hunk) => Hunk[1] = "trigger"
  BY <1>2, <1>3 DEF StreamFollowsOn
<1>5. Follows(walked[w], Hunk) => Hunk[2] >= walked[w][2]
  <2>1. walked[w][2] \in Nat
    BY <1>2, HunkForms
  <2> QED
    BY <2>1 DEF Follows
<1>6. walked[w][2] \in Nat /\ Hunk[2] \in Nat /\ frame_last_trigger \in Nat
  BY <1>2, HunkForms DEF TypeOK
<1> QED
  BY <1>1, <1>2, <1>4, <1>5, <1>6 DEF Fresh

\* The trigger after the last gate of a trigger ends it.
LEMMA TriggerComplete ==
    ASSUME TypeOK, WalkedIsOld, StreamFollowsOn, walked # <<>>,
           markers_buffer # <<>>, Hunk[1] = "trigger",
           Fresh(walked[Len(walked)])
    PROVE  /\ Hunk = <<"trigger", walked[Len(walked)][2] + 1>>
           /\ Place(walked[Len(walked)]) = made[walked[Len(walked)][2]]
<1> DEFINE last == walked[Len(walked)]
<1>1. Follows(last, Hunk) /\ Len(walked) \in DOMAIN walked /\ last \in Hunks
  BY NextFollows
<1>2. IsMade(last)
  BY <1>1 DEF WalkedIsOld
<1>3. ~(Place(last) < made[last[2]])
  BY <1>1 DEF Follows
<1>4. last[2] \in 1..Len(made) /\ Place(last) \in 0..made[last[2]]
  BY <1>2 DEF IsMade
<1>5. made[last[2]] \in Nat
  BY <1>4, ElementOfSeq DEF TypeOK
<1> QED
  BY <1>1, <1>3, <1>4, <1>5 DEF Follows

\* acquire() returns: all that was owed has been fetched.
LEMMA ReturnInv == ASSUME ContextInv, Return PROVE ContextInv'
<1>0. TypeOK /\ WalkedIsOld /\ HunksAreMade /\ StreamFollowsOn /\ StreamsInStep
      /\ SeamIsTrigger /\ RecordFollowsOn /\ RecordHasItsGates
      /\ pc = "samples" /\ Len(fetched) = Len(gates)
      /\ stamps \in Seq(Nat) /\ gates \in Seq(Nat \X Nat)
  BY DEF ContextInv, TypeOK, Sound, InRecord, Return
<1>1. /\ pc' = "ready" /\ returned' = stamps[Len(stamps)]
      /\ UNCHANGED <<markers, samples, made, markers_buffer, walked>>
      /\ UNCHANGED <<triggers_to_read, trig_count, stamps, gates, fetched>>
      /\ UNCHANGED <<last_trigger, frame_last_trigger, frame_first_trigger_checked, frames>>
  BY DEF Return, card, record, frame
<1>2. Stream' = Stream /\ Hunk' = Hunk
  BY <1>1 DEF Stream, Hunk
<1>3. stamps # <<>> /\ Len(stamps) \in DOMAIN stamps
  BY <1>0, LenProperties, EmptySeq DEF RecordFollowsOn
<1>4. returned' \in Nat /\ returned' > frame_last_trigger
  BY <1>0, <1>1, <1>3, ElementOfSeq, LenProperties DEF RecordFollowsOn
<1>5. TypeOK'
  BY <1>0, <1>1, <1>4 DEF TypeOK
<1>6. WalkedIsOld'
  BY <1>0, <1>1 DEF WalkedIsOld, IsMade, Place
<1>7. HunksAreMade' /\ StreamFollowsOn'
  BY <1>0, <1>1, <1>2, SameStream
<1>8. StreamsInStep'
  <2>1. Owed = 0 /\ Owed' = 0
    BY <1>0, <1>1, LenProperties DEF Owed
  <2> QED
    BY <1>0, <1>1, <1>2, <2>1, SameStreams
\* The hunk the walk ended at is the one that follows the last one walked.
<1>9. Hunk = <<"trigger", stamps[Len(stamps)] + 1>>
  <2>1. markers_buffer # <<>> /\ Hunk[1] = "trigger"
    BY <1>0 DEF SeamIsTrigger
  <2>2. /\ walked # <<>> /\ Fresh(walked[Len(walked)])
        /\ walked[Len(walked)][2] = stamps[Len(stamps)]
    BY <1>0, <1>3 DEF RecordFollowsOn, Fresh
  <2> QED
    BY <1>0, <2>1, <2>2, TriggerComplete
<1>10. SeamIsTrigger'
  BY <1>0, <1>1, <1>2, <1>9, StreamOfState DEF SeamIsTrigger, Fresh
<1>11. RecordFollowsOn'
  BY <1>0, <1>1 DEF RecordFollowsOn
<1>12. RecordHasItsGates'
  BY <1>0, <1>1 DEF RecordHasItsGates, Place
<1> QED
  BY <1>5, <1>6, <1>7, <1>8, <1>10, <1>11, <1>12 DEF ContextInv

\* The walk ends at the trigger after the last one wanted, which stays.
LEMMA WalkLastInv == ASSUME ContextInv, WalkLast PROVE ContextInv'
<1>0. TypeOK /\ WalkedIsOld /\ HunksAreMade /\ StreamFollowsOn /\ StreamsInStep
      /\ SeamIsTrigger /\ RecordFollowsOn /\ RecordHasItsGates
      /\ pc = "walk" /\ markers_buffer # <<>> /\ Hunk[1] = "trigger"
      /\ trig_count + 1 >= triggers_to_read + 1
  BY DEF ContextInv, Sound, InRecord, WalkLast, Walk, LastTrigger
<1>1. /\ pc' = "samples" /\ trig_count' = trig_count + 1
      /\ UNCHANGED <<markers, samples, made, markers_buffer, walked, returned>>
      /\ UNCHANGED <<triggers_to_read, stamps, gates, fetched>>
      /\ UNCHANGED <<last_trigger, frame_last_trigger, frame_first_trigger_checked, frames>>
  BY DEF WalkLast, card, frame
<1>2. Stream' = Stream /\ Hunk' = Hunk
  BY <1>1 DEF Stream, Hunk
<1>3. TypeOK'
  BY <1>0, <1>1 DEF TypeOK
<1>4. WalkedIsOld'
  BY <1>0, <1>1 DEF WalkedIsOld, IsMade, Place
<1>5. HunksAreMade' /\ StreamFollowsOn'
  BY <1>0, <1>1, <1>2, SameStream
<1>6. StreamsInStep'
  <2>1. Owed' = Owed
    BY <1>0, <1>1 DEF Owed
  <2> QED
    BY <1>0, <1>1, <1>2, <2>1, SameStreams
<1>7. SeamIsTrigger'
  BY <1>0, <1>1, <1>2 DEF SeamIsTrigger, Fresh
<1>8. Len(stamps) = triggers_to_read /\ stamps # <<>>
  <2>1. Len(stamps) \in Nat /\ (stamps = <<>> => Len(stamps) = 0)
    BY <1>0, LenProperties, EmptySeq DEF TypeOK
  <2> QED
    BY <1>0, <2>1 DEF RecordFollowsOn, TypeOK
<1>9. RecordFollowsOn'
  BY <1>0, <1>1, <1>8 DEF RecordFollowsOn
<1>10. Place(walked[Len(walked)]) = made[walked[Len(walked)][2]]
  <2>1. walked # <<>> /\ Fresh(walked[Len(walked)])
    BY <1>0, <1>8 DEF RecordFollowsOn, SeamIsTrigger
  <2> QED
    BY <1>0, <2>1, TriggerComplete
<1>11. RecordHasItsGates'
  BY <1>0, <1>1, <1>10 DEF RecordHasItsGates, Place
<1> QED
  BY <1>3, <1>4, <1>5, <1>6, <1>7, <1>9, <1>11 DEF ContextInv

\* A hunk is walked that no fresh samples belong to.
LEMMA AdvanceStreams ==
    ASSUME TypeOK, StreamsInStep, markers_buffer # <<>>,
           ~(Fresh(Hunk) /\ Hunk[1] = "gate"),
           Stream' = Stream, Len(walked') = Len(walked) + 1, Owed' = Owed,
           UNCHANGED <<samples, gates, fetched, frame_last_trigger>>
    PROVE  StreamsInStep'
<1>1. Len(walked) \in Nat /\ Len(Stream) \in Nat /\ Stream[Len(walked) + 1] = Hunk
  BY StreamOfState, LenProperties DEF TypeOK
<1>2. \A p \in (Len(walked') + 1)..Len(Stream') : p \in (Len(walked) + 1)..Len(Stream)
  BY <1>1
<1>3. \A p \in (Len(walked) + 1)..Len(Stream) :
          Fresh(Stream[p]) /\ Stream[p][1] = "gate" =>
              p \in (Len(walked') + 1)..Len(Stream')
  BY <1>1
<1>4. (\A p \in (Len(walked) + 1)..Len(Stream) :
           Fresh(Stream[p]) /\ Stream[p][1] = "gate" =>
               \E i \in (Owed + 1)..Len(samples) :
                   samples[i] = <<Stream[p][2], Stream[p][3]>>)'
  BY <1>2 DEF StreamsInStep, Fresh
<1>5. (\A i \in (Owed + 1)..Len(samples) :
           \E p \in (Len(walked) + 1)..Len(Stream) :
               Fresh(Stream[p]) /\ Stream[p] = <<"gate", samples[i][1], samples[i][2]>>)'
  <2> SUFFICES ASSUME NEW i \in (Owed + 1)..Len(samples)
               PROVE  \E p \in (Len(walked') + 1)..Len(Stream') :
                          Fresh(Stream[p]) /\ Stream[p] = <<"gate", samples[i][1], samples[i][2]>>
    BY DEF Fresh
  <2>1. PICK p \in (Len(walked) + 1)..Len(Stream) :
            Fresh(Stream[p]) /\ Stream[p] = <<"gate", samples[i][1], samples[i][2]>>
    BY DEF StreamsInStep
  <2>2. Stream[p][1] = "gate"
    BY <2>1
  <2> QED
    BY <1>3, <2>1, <2>2
<1>6. (\A i, k \in (Owed + 1)..Len(samples) :
           i < k => Before(samples[i], samples[k]))'
  BY DEF StreamsInStep, Before
<1>7. (/\ Owed \in 0..Len(samples)
       /\ \A i \in 1..Owed : samples[i] = gates[Len(fetched) + i])'
  BY DEF StreamsInStep
<1> QED
  BY <1>4, <1>5, <1>6, <1>7 DEF StreamsInStep

\* A gate before the first trigger is of a trigger walked in an earlier frame:
\* its samples are not in the stream.
LEMMA WalkOrphanInv == ASSUME ContextInv, WalkOrphan PROVE ContextInv'
<1>0. TypeOK /\ WalkedIsOld /\ HunksAreMade /\ StreamFollowsOn /\ StreamsInStep
      /\ SeamIsTrigger /\ RecordFollowsOn /\ RecordHasItsGates
      /\ pc = "walk" /\ markers_buffer # <<>> /\ Hunk[1] = "gate"
      /\ stamps = <<>> /\ Advance
  BY DEF ContextInv, Sound, InRecord, WalkOrphan, Walk
<1>1. /\ UNCHANGED <<markers, samples, made, pc, returned>>
      /\ UNCHANGED <<triggers_to_read, trig_count, stamps, gates, fetched>>
      /\ UNCHANGED <<last_trigger, frame_last_trigger, frame_first_trigger_checked, frames>>
  BY DEF WalkOrphan, card, record, frame
<1>2. /\ Stream' = Stream
      /\ walked' \in Seq(Hunks) /\ markers_buffer' \in Seq(Hunks)
      /\ walked' # <<>> /\ Len(walked') = Len(walked) + 1
      /\ walked'[Len(walked')] = Hunk
      /\ \A p \in DOMAIN walked : walked'[p] = walked[p]
      /\ HunksAreMade' /\ StreamFollowsOn'
  BY <1>0, <1>1, AdvanceInv
<1>3. /\ Len(walked) \in Nat /\ Len(Stream) \in Nat
      /\ Len(walked) < Len(Stream) /\ Stream[Len(walked) + 1] = Hunk
      /\ Hunk \in Hunks /\ IsMade(Hunk)
      /\ DOMAIN walked' = 1..(Len(walked) + 1) /\ DOMAIN walked = 1..Len(walked)
  BY <1>0, <1>2, StreamOfState, LenProperties DEF TypeOK, HunksAreMade
<1>4. ~Fresh(Hunk) /\ returned = 0
  BY <1>0, <1>3 DEF SeamIsTrigger
<1>5. ~frame_first_trigger_checked
  BY <1>0, <1>4, NextFollows DEF SeamIsTrigger
<1>6. TypeOK'
  BY <1>0, <1>1, <1>2 DEF TypeOK
<1>7. WalkedIsOld'
  <2>1. Hunk[2] <= last_trigger
    BY <1>0, <1>3, <1>4, HunkForms, SMTT(60) DEF WalkedIsOld, Fresh, TypeOK
  <2>2. \A p \in DOMAIN walked' : IsMade(walked'[p]) /\ walked'[p][2] <= last_trigger
    BY <1>0, <1>2, <1>3, <2>1 DEF WalkedIsOld
  <2> QED
    BY <1>0, <1>1, <2>2 DEF WalkedIsOld, IsMade, Place
<1>8. StreamsInStep'
  <2>1. Owed' = Owed
    BY <1>1 DEF Owed
  <2> QED
    BY <1>0, <1>1, <1>2, <1>4, <2>1, AdvanceStreams
<1>9. SeamIsTrigger'
  <2>1. Len(walked') < Len(Stream') /\ Fresh(Stream'[Len(walked') + 1]) =>
            Stream'[Len(walked') + 1][1] = "trigger"
    <3>1. Len(walked) + 1 < Len(Stream) => Len(walked) + 1 \in 1..(Len(Stream) - 1)
      BY <1>3
    <3> QED
      BY <1>0, <1>2, <1>3, <1>4, <3>1 DEF StreamFollowsOn
  <2> QED
    BY <1>0, <1>1, <1>4, <1>5, <2>1 DEF SeamIsTrigger, Fresh
<1>10. RecordFollowsOn'
  BY <1>0, <1>1 DEF RecordFollowsOn
<1>11. RecordHasItsGates'
  BY <1>0, <1>1 DEF RecordHasItsGates
<1> QED
  BY <1>2, <1>6, <1>7, <1>8, <1>9, <1>10, <1>11 DEF ContextInv

\* A trigger of the record: the one before it is complete, and it follows on.
LEMMA WalkTriggerInv == ASSUME ContextInv, WalkTrigger PROVE ContextInv'
<1> DEFINE t == Hunk[2]
<1>0. TypeOK /\ WalkedIsOld /\ HunksAreMade /\ StreamFollowsOn /\ StreamsInStep
      /\ SeamIsTrigger /\ RecordFollowsOn /\ RecordHasItsGates
      /\ pc = "walk" /\ markers_buffer # <<>> /\ Hunk[1] = "trigger"
      /\ ~(trig_count + 1 >= triggers_to_read + 1) /\ ~IsReplay(t) /\ Advance
  BY DEF ContextInv, Sound, InRecord, WalkTrigger, Walk, LastTrigger
<1>1. /\ UNCHANGED <<markers, samples, made, pc, returned>>
      /\ UNCHANGED <<triggers_to_read, gates, fetched, frame_last_trigger, frames>>
      /\ trig_count' = trig_count + 1 /\ stamps' = Append(stamps, t)
      /\ frame_first_trigger_checked' = TRUE
      /\ last_trigger' = IF t > last_trigger THEN t ELSE last_trigger
  BY DEF WalkTrigger, card
<1>2. /\ Stream' = Stream
      /\ walked' \in Seq(Hunks) /\ markers_buffer' \in Seq(Hunks)
      /\ walked' # <<>> /\ Len(walked') = Len(walked) + 1
      /\ walked'[Len(walked')] = Hunk
      /\ \A p \in DOMAIN walked : walked'[p] = walked[p]
      /\ HunksAreMade' /\ StreamFollowsOn'
  BY <1>0, <1>1, AdvanceInv
<1>3. /\ Len(walked) \in Nat /\ Len(Stream) \in Nat
      /\ Len(walked) < Len(Stream) /\ Stream[Len(walked) + 1] = Hunk
      /\ Hunk \in Hunks /\ IsMade(Hunk) /\ Place(Hunk) = 0
      /\ t \in Nat /\ t > 0 /\ t <= Len(made) /\ Len(made) \in Nat
      /\ DOMAIN walked' = 1..(Len(walked) + 1) /\ DOMAIN walked = 1..Len(walked)
  <2>1. /\ Len(walked) < Len(Stream) /\ Stream[Len(walked) + 1] = Hunk
        /\ Hunk \in Hunks /\ Len(Stream) \in Nat /\ Len(walked) \in Nat
        /\ DOMAIN walked' = 1..(Len(walked) + 1) /\ DOMAIN walked = 1..Len(walked)
        /\ DOMAIN Stream = 1..Len(Stream)
    BY <1>0, <1>2, StreamOfState, LenProperties DEF TypeOK
  <2>2. IsMade(Hunk)
    BY <1>0, <2>1 DEF HunksAreMade
  <2>3. t \in Nat /\ Place(Hunk) = 0
    BY <1>0, <2>1, HunkForms
  <2>4. Len(made) \in Nat
    BY <1>0, LenProperties DEF TypeOK
  <2> QED
    BY <2>1, <2>2, <2>3, <2>4 DEF IsMade
\* note_trigger() has looked at the first trigger of the frame, and those
\* after it are past it.
<1>4. Fresh(Hunk)
  <2>1. CASE frame_first_trigger_checked
    BY <1>0, <2>1, NextFollows DEF SeamIsTrigger
  <2>2. CASE ~frame_first_trigger_checked
    BY <1>0, <1>3, <2>2, SMTT(60) DEF IsReplay, Fresh, TypeOK
  <2> QED
    BY <2>1, <2>2
<1>5. /\ stamps \in Seq(Nat) /\ Len(stamps) \in Nat /\ DOMAIN stamps = 1..Len(stamps)
      /\ stamps' \in Seq(Nat) /\ stamps' # <<>> /\ Len(stamps') = Len(stamps) + 1
      /\ DOMAIN stamps' = 1..(Len(stamps) + 1)
      /\ \A p \in DOMAIN stamps : stamps'[p] = stamps[p]
      /\ stamps'[Len(stamps) + 1] = t
      /\ stamps # <<>> => Len(stamps) > 0
  <2>1. stamps \in Seq(Nat)
    BY <1>0 DEF TypeOK
  <2>2. Len(stamps) \in Nat /\ DOMAIN stamps = 1..Len(stamps) /\ (stamps # <<>> => Len(stamps) > 0)
    BY <2>1, LenProperties, EmptySeq
  <2> QED
    BY <1>1, <1>3, <2>1, <2>2, AppendProperties, LenProperties
<1>6. stamps # <<>> =>
          /\ t = stamps[Len(stamps)] + 1
          /\ Place(walked[Len(walked)]) = made[stamps[Len(stamps)]]
  <2> SUFFICES ASSUME stamps # <<>>
               PROVE  /\ t = stamps[Len(stamps)] + 1
                      /\ Place(walked[Len(walked)]) = made[stamps[Len(stamps)]]
    OBVIOUS
  <2>1. walked # <<>> /\ walked[Len(walked)][2] = stamps[Len(stamps)] /\ Fresh(walked[Len(walked)])
    BY <1>0 DEF RecordFollowsOn, SeamIsTrigger
  <2>2. /\ Hunk = <<"trigger", walked[Len(walked)][2] + 1>>
        /\ Place(walked[Len(walked)]) = made[walked[Len(walked)][2]]
    BY <1>0, <2>1, TriggerComplete
  <2> QED
    BY <2>1, <2>2
<1>7. TypeOK'
  BY <1>0, <1>1, <1>2, <1>3, <1>5 DEF TypeOK
<1>8. WalkedIsOld'
  <2>1. /\ last_trigger \in Nat /\ last_trigger' \in Nat /\ last_trigger <= last_trigger'
        /\ t <= last_trigger' /\ last_trigger' <= Len(made) /\ frame_last_trigger \in Nat
    <3>1. /\ last_trigger \in Nat /\ frame_last_trigger \in Nat
          /\ last_trigger <= Len(made)
      BY <1>0 DEF WalkedIsOld, TypeOK
    <3>2. CASE t > last_trigger
      BY <1>1, <1>3, <3>1, <3>2
    <3>3. CASE ~(t > last_trigger)
      BY <1>1, <1>3, <3>1, <3>3
    <3> QED
      BY <3>2, <3>3
  <2>2. \A p \in DOMAIN walked' : IsMade(walked'[p]) /\ walked'[p][2] <= last_trigger'
    <3> TAKE p \in DOMAIN walked'
    <3>1. CASE p \in DOMAIN walked
      <4>1. walked'[p] = walked[p] /\ IsMade(walked[p]) /\ walked[p][2] <= last_trigger
        BY <1>0, <1>2, <3>1 DEF WalkedIsOld
      <4>2. walked[p][2] \in Nat
        BY <4>1 DEF IsMade
      <4> QED
        BY <2>1, <4>1, <4>2
    <3>2. CASE p = Len(walked) + 1
      BY <1>2, <1>3, <2>1, <3>2
    <3> QED
      BY <1>3, <3>1, <3>2
  <2> QED
    BY <1>0, <1>1, <2>1, <2>2 DEF WalkedIsOld, IsMade, Place
<1>9. StreamsInStep'
  <2>1. Owed' = Owed
    BY <1>1 DEF Owed
  <2> QED
    BY <1>0, <1>1, <1>2, <2>1, AdvanceStreams
<1>10. SeamIsTrigger'
  BY <1>0, <1>1, <1>2, <1>4, <1>5 DEF SeamIsTrigger, Fresh
<1>11. RecordFollowsOn'
  <2>1. trig_count' = Len(stamps') /\ Len(stamps') <= triggers_to_read
    BY <1>0, <1>1, <1>5 DEF RecordFollowsOn, TypeOK
  <2>2. \A p \in 1..(Len(stamps') - 1) : stamps'[p + 1] = stamps'[p] + 1
    <3> TAKE p \in 1..(Len(stamps') - 1)
    <3>0. p \in 1..Len(stamps)
      BY <1>5
    <3>1. CASE p < Len(stamps)
      <4>1. p \in 1..(Len(stamps) - 1) /\ p + 1 \in DOMAIN stamps /\ p \in DOMAIN stamps
        BY <1>5, <3>0, <3>1
      <4>2. stamps[p + 1] = stamps[p] + 1
        BY <1>0, <4>1 DEF RecordFollowsOn
      <4> QED
        BY <1>5, <4>1, <4>2
    <3>2. CASE p = Len(stamps)
      <4>1. stamps # <<>>
        BY <3>0, <3>2, EmptySeq
      <4>2. stamps'[p + 1] = t /\ stamps'[p] = stamps[Len(stamps)]
        BY <1>5, <3>0, <3>2
      <4> QED
        BY <1>6, <4>1, <4>2
    <3>3. p < Len(stamps) \/ p = Len(stamps)
      <4>1. Len(stamps) \in Nat
        BY <1>5
      <4> QED
        BY <3>0, <4>1
    <3> QED
      BY <3>1, <3>2, <3>3
  <2>3. \A p \in DOMAIN stamps' :
            stamps'[p] > frame_last_trigger /\ stamps'[p] <= Len(made)
    <3> TAKE p \in DOMAIN stamps'
    <3>1. CASE p \in DOMAIN stamps
      <4>1. stamps[p] > frame_last_trigger /\ stamps[p] <= Len(made)
        BY <1>0, <3>1 DEF RecordFollowsOn
      <4> QED
        BY <1>5, <3>1, <4>1
    <3>2. CASE p = Len(stamps) + 1
      BY <1>3, <1>4, <1>5, <3>2 DEF Fresh
    <3> QED
      BY <1>5, <3>1, <3>2
  <2>4. returned # 0 => stamps'[1] = returned + 1
    <3>1. CASE stamps = <<>>
      <4>1. returned # 0 => t = returned + 1
        BY <1>0, <3>1 DEF SeamIsTrigger
      <4>2. stamps'[1] = t
        BY <1>5, <3>1, EmptySeq
      <4> QED
        BY <4>1, <4>2
    <3>2. CASE stamps # <<>>
      <4>1. 1 \in DOMAIN stamps
        BY <1>5, <3>2
      <4> QED
        BY <1>0, <1>5, <3>2, <4>1 DEF RecordFollowsOn
    <3> QED
      BY <3>1, <3>2
  <2> QED
    BY <1>0, <1>1, <1>2, <1>5, <2>1, <2>2, <2>3, <2>4 DEF RecordFollowsOn
<1>12. RecordHasItsGates'
  <2>1. \A q \in DOMAIN gates : \E p \in DOMAIN stamps' :
            gates[q][1] = stamps'[p] /\ gates[q][2] \in 1..made[stamps'[p]]
    <3> TAKE q \in DOMAIN gates
    <3>1. PICK p \in DOMAIN stamps :
              gates[q][1] = stamps[p] /\ gates[q][2] \in 1..made[stamps[p]]
      BY <1>0 DEF RecordHasItsGates
    <3>2. p \in DOMAIN stamps' /\ stamps'[p] = stamps[p]
      BY <1>5
    <3> QED
      BY <3>1, <3>2
  <2>2. \A p \in DOMAIN stamps' : \A j \in 1..made[stamps'[p]] :
            (p < Len(stamps') \/ j <= Place(Hunk)) =>
                \E q \in DOMAIN gates : gates[q] = <<stamps'[p], j>>
    <3> SUFFICES ASSUME NEW p \in DOMAIN stamps', NEW j \in 1..made[stamps'[p]],
                        p < Len(stamps') \/ j <= Place(Hunk)
                 PROVE  \E q \in DOMAIN gates : gates[q] = <<stamps'[p], j>>
      OBVIOUS
    <3>1. p \in DOMAIN stamps /\ stamps'[p] = stamps[p]
      BY <1>3, <1>5, SMTT(60)
    <3>2. p < Len(stamps) \/ j <= Place(walked[Len(walked)])
      <4>1. CASE p = Len(stamps)
        BY <1>5, <1>6, <3>1, <4>1, EmptySeq
      <4> QED
        BY <1>5, <3>1, <4>1
    <3> QED
      BY <1>0, <3>1, <3>2 DEF RecordHasItsGates
  <2>3. Place(walked'[Len(walked')]) = Place(Hunk)
    BY <1>2
  <2> QED
    BY <1>0, <1>1, <2>1, <2>2, <2>3, ZenonT(60) DEF RecordHasItsGates, Place
<1> QED
  BY <1>2, <1>7, <1>8, <1>9, <1>10, <1>11, <1>12 DEF ContextInv

\* A gate is fresh once its trigger is: the next samples of the stream that
\* are not owed yet are its own.
LEMMA WalkGateInv == ASSUME ContextInv, WalkGate PROVE ContextInv'
<1> DEFINE last == walked[Len(walked)]
           t == Hunk[2]
           j == Hunk[3]
<1>0. TypeOK /\ WalkedIsOld /\ HunksAreMade /\ StreamFollowsOn /\ StreamsInStep
      /\ SeamIsTrigger /\ RecordFollowsOn /\ RecordHasItsGates
      /\ pc = "walk" /\ markers_buffer # <<>> /\ Hunk[1] = "gate"
      /\ stamps # <<>> /\ Advance
  BY DEF ContextInv, Sound, InRecord, WalkGate, Walk
<1>1. /\ UNCHANGED <<markers, samples, made, pc, returned>>
      /\ UNCHANGED <<triggers_to_read, trig_count, stamps, fetched>>
      /\ UNCHANGED <<last_trigger, frame_last_trigger, frame_first_trigger_checked, frames>>
      /\ gates' = Append(gates, <<stamps[Len(stamps)], j>>)
  BY DEF WalkGate, card, frame
<1>2. /\ Stream' = Stream
      /\ walked' \in Seq(Hunks) /\ markers_buffer' \in Seq(Hunks)
      /\ walked' # <<>> /\ Len(walked') = Len(walked) + 1
      /\ walked'[Len(walked')] = Hunk
      /\ \A p \in DOMAIN walked : walked'[p] = walked[p]
      /\ HunksAreMade' /\ StreamFollowsOn'
  BY <1>0, <1>1, AdvanceInv
\* Whose gate it is.
<1>3. /\ walked # <<>> /\ Fresh(last) /\ last[2] = stamps[Len(stamps)]
      /\ last \in Hunks /\ Hunk \in Hunks /\ Len(walked) \in DOMAIN walked
      /\ IsMade(last) /\ Fresh(Hunk)
      /\ Hunk = <<"gate", last[2], Place(last) + 1>>
  <2>1. walked # <<>> /\ last[2] = stamps[Len(stamps)] /\ Fresh(last)
    BY <1>0 DEF RecordFollowsOn, SeamIsTrigger
  <2>2. Follows(last, Hunk) /\ Fresh(Hunk) /\ Len(walked) \in DOMAIN walked
        /\ last \in Hunks /\ Hunk \in Hunks
    BY <1>0, <2>1, NextFollows
  <2>3. Hunk = <<"gate", last[2], Place(last) + 1>>
    BY <1>0, <2>2 DEF Follows
  <2>4. IsMade(last)
    BY <1>0, <2>2 DEF WalkedIsOld
  <2> QED
    BY <2>1, <2>2, <2>3, <2>4
<1>4. /\ t = stamps[Len(stamps)] /\ j = Place(last) + 1
      /\ Place(Hunk) = j /\ Hunk = <<"gate", t, j>>
      /\ t \in Nat /\ j \in Nat /\ j > 0
  <2>1. Place(last) \in Nat /\ last[2] \in Nat
    BY <1>3, HunkForms
  <2> QED
    BY <1>3, <2>1 DEF Place
<1>5. /\ Len(walked) \in Nat /\ Len(Stream) \in Nat /\ Len(samples) \in Nat
      /\ Len(walked) < Len(Stream) /\ Stream[Len(walked) + 1] = Hunk
      /\ DOMAIN Stream = 1..Len(Stream)
      /\ DOMAIN walked' = 1..(Len(walked) + 1) /\ DOMAIN walked = 1..Len(walked)
  BY <1>0, <1>2, StreamOfState, LenProperties DEF TypeOK
<1>6. IsMade(Hunk)
  BY <1>0, <1>5 DEF HunksAreMade
<1>7. /\ gates \in Seq(Nat \X Nat) /\ Len(gates) \in Nat /\ DOMAIN gates = 1..Len(gates)
      /\ gates' \in Seq(Nat \X Nat) /\ Len(gates') = Len(gates) + 1
      /\ DOMAIN gates' = 1..(Len(gates) + 1)
      /\ \A q \in DOMAIN gates : gates'[q] = gates[q]
      /\ gates'[Len(gates) + 1] = <<t, j>>
  <2>1. gates \in Seq(Nat \X Nat) /\ <<t, j>> \in Nat \X Nat
    BY <1>0, <1>4 DEF TypeOK
  <2>2. gates' = Append(gates, <<t, j>>)
    BY <1>1, <1>4
  <2> QED
    BY <2>1, <2>2, AppendProperties, LenProperties
<1>8. /\ stamps \in Seq(Nat) /\ Len(stamps) \in Nat /\ DOMAIN stamps = 1..Len(stamps)
      /\ Len(stamps) \in DOMAIN stamps
  BY <1>0, LenProperties, EmptySeq DEF TypeOK
<1>9. TypeOK'
  BY <1>0, <1>1, <1>2, <1>7 DEF TypeOK
<1>10. WalkedIsOld'
  <2>1. t <= last_trigger
    BY <1>0, <1>3, <1>4 DEF WalkedIsOld
  <2>2. \A p \in DOMAIN walked' : IsMade(walked'[p]) /\ walked'[p][2] <= last_trigger
    BY <1>0, <1>2, <1>5, <1>6, <2>1 DEF WalkedIsOld
  <2> QED
    BY <1>0, <1>1, <2>2 DEF WalkedIsOld, IsMade, Place
<1>11. SeamIsTrigger'
  BY <1>0, <1>1, <1>2, <1>3 DEF SeamIsTrigger, Fresh
<1>12. RecordFollowsOn'
  BY <1>0, <1>1, <1>2, <1>4 DEF RecordFollowsOn
<1>13. RecordHasItsGates'
  <2>1. \A q \in DOMAIN gates' : \E p \in DOMAIN stamps :
            gates'[q][1] = stamps[p] /\ gates'[q][2] \in 1..made[stamps[p]]
    <3> TAKE q \in DOMAIN gates'
    <3>1. CASE q \in DOMAIN gates
      BY <1>0, <1>7, <3>1 DEF RecordHasItsGates
    <3>2. CASE q = Len(gates) + 1
      <4>1. gates'[q][1] = stamps[Len(stamps)] /\ gates'[q][2] = j
        BY <1>4, <1>7, <3>2, SMTT(60)
      <4>2. j \in 1..made[t]
        BY <1>4, <1>6 DEF IsMade
      <4> QED
        BY <1>4, <1>8, <4>1, <4>2
    <3> QED
      BY <1>7, <3>1, <3>2
  <2>2. \A p \in DOMAIN stamps : \A i \in 1..made[stamps[p]] :
            (p < Len(stamps) \/ i <= j) =>
                \E q \in DOMAIN gates' : gates'[q] = <<stamps[p], i>>
    <3> SUFFICES ASSUME NEW p \in DOMAIN stamps, NEW i \in 1..made[stamps[p]],
                        p < Len(stamps) \/ i <= j
                 PROVE  \E q \in DOMAIN gates' : gates'[q] = <<stamps[p], i>>
      OBVIOUS
    <3>1. CASE p < Len(stamps) \/ i <= Place(last)
      <4>1. PICK q \in DOMAIN gates : gates[q] = <<stamps[p], i>>
        BY <1>0, <3>1 DEF RecordHasItsGates
      <4>2. q \in DOMAIN gates' /\ gates'[q] = gates[q]
        BY <1>7
      <4> QED
        BY <4>1, <4>2
    <3>2. CASE p = Len(stamps) /\ i = j
      <4>1. Len(gates) + 1 \in DOMAIN gates' /\ gates'[Len(gates) + 1] = <<t, j>>
        BY <1>7
      <4>2. <<stamps[p], i>> = <<t, j>>
        BY <1>4, <3>2
      <4> QED
        BY <4>1, <4>2
    <3>3. p < Len(stamps) \/ i <= Place(last) \/ (p = Len(stamps) /\ i = j)
      <4>1. Place(last) \in Nat /\ i \in Int
        BY <1>3, HunkForms
      <4> QED
        BY <1>4, <1>8, <4>1
    <3> QED
      BY <3>1, <3>2, <3>3
  <2>3. Place(walked'[Len(walked')]) = j
    BY <1>2, <1>4
  <2>4. fetched' = <<>> /\ Len(fetched') = 0 /\ pc' = "walk"
    BY <1>0, <1>1 DEF RecordHasItsGates
  <2>5. (\A p \in DOMAIN stamps : \A i \in 1..made[stamps[p]] :
             (p < Len(stamps) \/ i <= Place(walked[Len(walked)])) =>
                 \E q \in DOMAIN gates : gates[q] = <<stamps[p], i>>)'
    <3> DEFINE place == Place(walked[Len(walked)])
    <3>1. place' = j
      BY <2>3 DEF Place
    <3> HIDE DEF place
    <3>2. (\A p \in DOMAIN stamps : \A i \in 1..made[stamps[p]] :
               (p < Len(stamps) \/ i <= place) =>
                   \E q \in DOMAIN gates : gates[q] = <<stamps[p], i>>)'
      BY <1>1, <2>2, <3>1
    <3> QED
      BY <3>2 DEF place
  <2>6. (\A q \in DOMAIN gates : \E p \in DOMAIN stamps :
             gates[q][1] = stamps[p] /\ gates[q][2] \in 1..made[stamps[p]])'
    BY <1>1, <2>1
  <2>7. Len(fetched') <= Len(gates') /\ \A k \in DOMAIN fetched' : fetched'[k] = gates'[k]
    BY <1>7, <2>4
  <2> QED
    BY <2>4, <2>5, <2>6, <2>7 DEF RecordHasItsGates
<1> HIDE DEF t, j
\* The samples that come after those owed are of this gate.
<1>14. Owed' = Owed + 1 /\ Owed \in Nat /\ Owed <= Len(samples) /\ Owed = Len(gates)
       /\ Len(fetched) = 0
  <2>1. Len(fetched) = 0
    BY <1>0 DEF RecordHasItsGates
  <2> QED
    BY <1>0, <1>1, <1>5, <1>7, <2>1 DEF Owed, StreamsInStep
<1>15. Owed + 1 \in (Owed + 1)..Len(samples) /\ samples[Owed + 1] = <<t, j>>
  <2>1. Len(walked) + 1 \in (Len(walked) + 1)..Len(Stream)
    BY <1>5
  <2>2. PICK i \in (Owed + 1)..Len(samples) : samples[i] = <<t, j>>
    BY <1>0, <1>3, <1>5, <2>1 DEF StreamsInStep, t, j
  <2>3. Owed + 1 \in (Owed + 1)..Len(samples)
    BY <1>5, <1>14, <2>2
  <2>4. PICK p \in (Len(walked) + 1)..Len(Stream) :
            Fresh(Stream[p]) /\ Stream[p] = <<"gate", samples[Owed + 1][1], samples[Owed + 1][2]>>
    BY <1>0, <2>3 DEF StreamsInStep
  <2>5. samples[Owed + 1] \in Nat \X Nat
    BY <1>0, <1>5, <1>14, <2>3, ElementOfSeq, SMTT(60) DEF TypeOK
  <2> DEFINE a == samples[Owed + 1][1]
             b == samples[Owed + 1][2]
  <2>6. samples[Owed + 1] = <<a, b>> /\ a \in Nat /\ b \in Nat
    BY <2>5
  <2>7. CASE i = Owed + 1
    BY <2>2, <2>3, <2>7
  <2>8. CASE i # Owed + 1
    <3>1. Before(<<a, b>>, <<t, j>>)
      <4>1. Owed + 1 < i
        BY <1>14, <2>2, <2>8
      <4> QED
        BY <1>0, <2>2, <2>3, <2>6, <4>1 DEF StreamsInStep
    <3>2. CASE p = Len(walked) + 1
      <4>1. a = t /\ b = j
        BY <1>4, <1>5, <2>4, <3>2
      <4> QED
        BY <1>4, <3>1, <4>1 DEF Before
    <3>3. CASE p # Len(walked) + 1
      <4>1. Place(Stream[p]) = b /\ Stream[p][2] = a
        BY <2>4 DEF Place
      <4>2. Before(<<t, j>>, <<a, b>>)
        <5>1. Len(walked) + 1 \in DOMAIN Stream /\ p \in DOMAIN Stream
              /\ Len(walked) + 1 < p
          BY <1>5, <3>3
        <5>2. Place(Hunk) = j /\ Hunk[2] = t
          BY <1>4 DEF t
        <5> QED
          BY <1>0, <1>3, <1>5, <4>1, <5>1, <5>2 DEF StreamFollowsOn
      <4> QED
        BY <1>4, <2>6, <3>1, <4>2, SMTT(60) DEF Before
    <3> QED
      BY <3>2, <3>3
  <2> QED
    BY <2>7, <2>8
<1>16. StreamsInStep'
  <2>1. Owed' \in 0..Len(samples')
    BY <1>1, <1>14, <1>15
  <2>2. \A i \in 1..Owed' : samples'[i] = gates'[Len(fetched') + i]
    <3> TAKE i \in 1..Owed'
    <3>1. CASE i \in 1..Owed
      <4>1. samples[i] = gates[Len(fetched) + i]
        BY <1>0, <3>1 DEF StreamsInStep
      <4>2. i \in DOMAIN gates /\ Len(fetched) + i = i
        BY <1>7, <1>14, <3>1
      <4> QED
        BY <1>1, <1>7, <4>1, <4>2
    <3>2. CASE i = Owed + 1
      <4>1. i = Len(gates) + 1 /\ Len(fetched) + i = i
        BY <1>7, <1>14, <3>2
      <4> QED
        BY <1>1, <1>7, <1>15, <3>2, <4>1
    <3> QED
      BY <1>14, <3>1, <3>2
  <2>3. \A p \in (Len(walked') + 1)..Len(Stream) :
            Fresh(Stream[p]) /\ Stream[p][1] = "gate" =>
                \E i \in (Owed' + 1)..Len(samples) :
                    samples[i] = <<Stream[p][2], Stream[p][3]>>
    <3> SUFFICES ASSUME NEW p \in (Len(walked') + 1)..Len(Stream),
                        Fresh(Stream[p]), Stream[p][1] = "gate"
                 PROVE  \E i \in (Owed' + 1)..Len(samples) :
                            samples[i] = <<Stream[p][2], Stream[p][3]>>
      OBVIOUS
    <3>1. p \in (Len(walked) + 1)..Len(Stream) /\ p \in DOMAIN Stream
          /\ Len(walked) + 1 \in DOMAIN Stream /\ Len(walked) + 1 < p
      BY <1>2, <1>5
    <3>2. PICK i \in (Owed + 1)..Len(samples) : samples[i] = <<Stream[p][2], Stream[p][3]>>
      BY <1>0, <3>1 DEF StreamsInStep
    <3>3. Before(<<t, j>>, <<Stream[p][2], Stream[p][3]>>)
      <4>1. Place(Hunk) = j /\ Hunk[2] = t /\ Place(Stream[p]) = Stream[p][3]
        BY <1>4 DEF t, Place
      <4> QED
        BY <1>0, <1>3, <1>5, <3>1, <4>1 DEF StreamFollowsOn
    <3>4. i # Owed + 1
      BY <1>4, <1>15, <3>2, <3>3 DEF Before
    <3>5. i \in (Owed' + 1)..Len(samples)
      BY <1>5, <1>14, <3>4
    <3> QED
      BY <3>2, <3>5
  <2>4. \A i \in (Owed' + 1)..Len(samples) :
            \E p \in (Len(walked') + 1)..Len(Stream) :
                Fresh(Stream[p]) /\ Stream[p] = <<"gate", samples[i][1], samples[i][2]>>
    <3> TAKE i \in (Owed' + 1)..Len(samples)
    <3>1. i \in (Owed + 1)..Len(samples) /\ Owed + 1 < i
      BY <1>5, <1>14
    <3>2. PICK p \in (Len(walked) + 1)..Len(Stream) :
              Fresh(Stream[p]) /\ Stream[p] = <<"gate", samples[i][1], samples[i][2]>>
      BY <1>0, <3>1 DEF StreamsInStep
    <3>3. p # Len(walked) + 1
      <4>1. Before(<<t, j>>, samples[i])
        BY <1>0, <1>15, <3>1 DEF StreamsInStep
      <4> QED
        BY <1>4, <1>5, <3>2, <4>1 DEF Before
    <3>4. p \in (Len(walked') + 1)..Len(Stream)
      BY <1>2, <1>5, <3>3
    <3> QED
      BY <3>2, <3>4
  <2>5. \A i, k \in (Owed' + 1)..Len(samples) :
            i < k => Before(samples[i], samples[k])
    <3>1. \A i \in (Owed' + 1)..Len(samples) : i \in (Owed + 1)..Len(samples)
      BY <1>5, <1>14
    <3> QED
      BY <1>0, <3>1 DEF StreamsInStep
  <2>6. (\A p \in (Len(walked) + 1)..Len(Stream) :
             Fresh(Stream[p]) /\ Stream[p][1] = "gate" =>
                 \E i \in (Owed + 1)..Len(samples) :
                     samples[i] = <<Stream[p][2], Stream[p][3]>>)'
    BY <1>1, <1>2, <2>3 DEF Fresh
  <2>7. (\A i \in (Owed + 1)..Len(samples) :
             \E p \in (Len(walked) + 1)..Len(Stream) :
                 Fresh(Stream[p]) /\ Stream[p] = <<"gate", samples[i][1], samples[i][2]>>)'
    BY <1>1, <1>2, <2>4 DEF Fresh
  <2>8. (\A i, k \in (Owed + 1)..Len(samples) :
             i < k => Before(samples[i], samples[k]))'
    BY <1>1, <2>5 DEF Before
  <2> QED
    BY <2>1, <2>2, <2>6, <2>7, <2>8 DEF StreamsInStep
<1> QED
  BY <1>2, <1>9, <1>10, <1>11, <1>12, <1>13, <1>16 DEF ContextInv

\* Samples are fetched: they are those of the gates first owed.
LEMMA FetchSamplesInv ==
    ASSUME ContextInv, NEW m \in 1..Len(samples), FetchSamples(m) PROVE ContextInv'
<1> DEFINE n == Len(fetched)
<1>0. TypeOK /\ WalkedIsOld /\ HunksAreMade /\ StreamFollowsOn /\ StreamsInStep
      /\ SeamIsTrigger /\ RecordFollowsOn /\ RecordHasItsGates
      /\ pc = "samples" /\ m <= Len(gates) - Len(fetched)
      /\ samples \in Seq(Nat \X Nat) /\ fetched \in Seq(Nat \X Nat)
      /\ gates \in Seq(Nat \X Nat)
  BY DEF ContextInv, TypeOK, Sound, InRecord, FetchSamples
<1>1. /\ fetched' = fetched \o SubSeq(samples, 1, m)
      /\ samples' = SubSeq(samples, m + 1, Len(samples))
      /\ UNCHANGED <<markers, made, pc, markers_buffer, walked, returned>>
      /\ UNCHANGED <<triggers_to_read, trig_count, stamps, gates>>
      /\ UNCHANGED <<last_trigger, frame_last_trigger, frame_first_trigger_checked, frames>>
  BY DEF FetchSamples, frame
<1>2. /\ n \in Nat /\ Len(samples) \in Nat /\ Len(gates) \in Nat /\ m \in Nat /\ m >= 1
      /\ m <= Len(samples) /\ DOMAIN fetched = 1..n /\ DOMAIN gates = 1..Len(gates)
      /\ \A i \in 1..Len(samples) : samples[i] \in Nat \X Nat
  BY <1>0, LenProperties, ElementOfSeq
<1>3. /\ samples' \in Seq(Nat \X Nat) /\ Len(samples') = Len(samples) - m
      /\ \A i \in 1..(Len(samples) - m) : samples'[i] = samples[m + i]
  <2>1. \A i \in (m + 1)..Len(samples) : samples[i] \in Nat \X Nat
    BY <1>2
  <2>2. /\ samples' \in Seq(Nat \X Nat)
        /\ Len(samples') = IF m + 1 <= Len(samples) THEN Len(samples) - (m + 1) + 1 ELSE 0
        /\ \A i \in 1..(Len(samples) - (m + 1) + 1) : samples'[i] = samples[(m + 1) + i - 1]
    BY <1>1, <1>2, <2>1, SubSeqProperties
  <2> QED
    BY <1>2, <2>2
<1>4. /\ fetched' \in Seq(Nat \X Nat) /\ Len(fetched') = n + m
      /\ DOMAIN fetched' = 1..(n + m)
      /\ \A k \in 1..n : fetched'[k] = fetched[k]
      /\ \A k \in (n + 1)..(n + m) : fetched'[k] = samples[k - n]
  <2> DEFINE part == SubSeq(samples, 1, m)
  <2>1. \A i \in 1..m : samples[i] \in Nat \X Nat
    BY <1>2
  <2>2. /\ part \in Seq(Nat \X Nat) /\ Len(part) = m
        /\ \A i \in 1..m : part[i] = samples[i]
    <3>1. /\ part \in Seq(Nat \X Nat) /\ Len(part) = IF 1 <= m THEN m - 1 + 1 ELSE 0
          /\ \A i \in 1..(m - 1 + 1) : part[i] = samples[1 + i - 1]
      BY <1>2, <2>1, SubSeqProperties
    <3> QED
      BY <1>2, <3>1
  <2> HIDE DEF part
  <2>3. fetched' = fetched \o part
    BY <1>1 DEF part
  <2>4. /\ fetched' \in Seq(Nat \X Nat) /\ Len(fetched') = n + m
        /\ \A k \in 1..(n + m) : fetched'[k] = IF k <= n THEN fetched[k] ELSE part[k - n]
    BY <1>0, <2>2, <2>3, ConcatProperties, ZenonT(60)
  <2>5. DOMAIN fetched' = 1..(n + m)
    BY <2>4, LenProperties
  <2>6. \A k \in 1..n : fetched'[k] = fetched[k]
    BY <1>2, <2>4
  <2>7. \A k \in (n + 1)..(n + m) : fetched'[k] = samples[k - n]
    <3> TAKE k \in (n + 1)..(n + m)
    <3>1. k \in 1..(n + m) /\ ~(k <= n) /\ k - n \in 1..m
      BY <1>2
    <3> QED
      BY <2>2, <2>4, <3>1
  <2> QED
    BY <2>4, <2>5, <2>6, <2>7
<1>5. Owed = Len(gates) - n /\ Owed' = Owed - m /\ Owed \in Nat /\ m <= Owed
      /\ Owed <= Len(samples)
  <2>1. Owed = Len(gates) - n /\ Owed' = Len(gates) - (n + m)
    BY <1>0, <1>1, <1>4 DEF Owed
  <2>2. Owed \in 0..Len(samples)
    BY <1>0 DEF StreamsInStep
  <2> QED
    BY <1>0, <1>2, <2>1, <2>2
<1>6. \A i \in 1..Owed : samples[i] = gates[n + i]
  BY <1>0 DEF StreamsInStep
<1>7. Stream' = Stream /\ Hunk' = Hunk
  BY <1>1 DEF Stream, Hunk
<1>8. TypeOK'
  BY <1>0, <1>1, <1>3, <1>4 DEF TypeOK
<1>9. WalkedIsOld'
  BY <1>0, <1>1 DEF WalkedIsOld, IsMade, Place
<1>10. HunksAreMade' /\ StreamFollowsOn'
  BY <1>0, <1>1, <1>7, SameStream
<1>11. SeamIsTrigger'
  BY <1>0, <1>1, <1>7 DEF SeamIsTrigger, Fresh
<1>12. RecordFollowsOn'
  BY <1>0, <1>1 DEF RecordFollowsOn
<1>13. RecordHasItsGates'
  <2>1. Len(fetched') <= Len(gates)
    BY <1>0, <1>2, <1>4
  <2>2. \A k \in DOMAIN fetched' : fetched'[k] = gates[k]
    <3> TAKE k \in DOMAIN fetched'
    <3>1. CASE k \in 1..n
      BY <1>0, <1>2, <1>4, <3>1 DEF RecordHasItsGates
    <3>2. CASE k \in (n + 1)..(n + m)
      <4>1. k - n \in 1..Owed /\ n + (k - n) = k
        BY <1>2, <1>5, <3>2
      <4> QED
        BY <1>4, <1>6, <3>2, <4>1
    <3> QED
      BY <1>2, <1>4, <3>1, <3>2
  <2> QED
    BY <1>0, <1>1, <2>1, <2>2 DEF RecordHasItsGates, Place
<1>14. StreamsInStep'
  <2>1. Owed' \in 0..Len(samples')
    BY <1>2, <1>3, <1>5
  <2>2. \A i \in 1..Owed' : samples'[i] = gates[Len(fetched') + i]
    <3> TAKE i \in 1..Owed'
    <3>1. i \in 1..(Len(samples) - m) /\ m + i \in 1..Owed
          /\ n + (m + i) = (n + m) + i
      BY <1>2, <1>5
    <3> QED
      BY <1>3, <1>4, <1>6, <3>1, ZenonT(60)
  \* What comes after the samples owed has moved up by m.
  <2>3. \A i \in (Owed' + 1)..Len(samples') :
            i + m \in (Owed + 1)..Len(samples) /\ samples'[i] = samples[i + m]
    <3> TAKE i \in (Owed' + 1)..Len(samples')
    <3> DEFINE owed == Owed
               all == Len(samples)
    <3>1. i \in (owed - m + 1)..(all - m) /\ owed \in Nat /\ all \in Nat /\ m \in Nat /\ m <= owed
      BY <1>2, <1>3, <1>5
    <3> HIDE DEF owed, all
    <3>2. i \in 1..(all - m) /\ m + i = i + m /\ i + m \in (owed + 1)..all
      BY <3>1, SMTT(60)
    <3> QED
      BY <1>3, <3>2 DEF owed, all
  <2>4. \A k \in (Owed + 1)..Len(samples) :
            \E i \in (Owed' + 1)..Len(samples') : samples'[i] = samples[k]
    <3> TAKE k \in (Owed + 1)..Len(samples)
    <3>0. /\ Owed \in Nat /\ Owed' = Owed - m /\ m \in Nat
          /\ Len(samples) \in Nat /\ Len(samples') = Len(samples) - m
      BY <1>2, <1>3, <1>5
    <3>1. k - m \in (Owed' + 1)..Len(samples') /\ (k - m) + m = k
      BY <3>0
    <3> QED
      BY <2>3, <3>1
  <2>5. (\A p \in (Len(walked) + 1)..Len(Stream) :
             Fresh(Stream[p]) /\ Stream[p][1] = "gate" =>
                 \E i \in (Owed + 1)..Len(samples) :
                     samples[i] = <<Stream[p][2], Stream[p][3]>>)'
    <3> SUFFICES ASSUME NEW p \in (Len(walked) + 1)..Len(Stream),
                        Fresh(Stream[p]), Stream[p][1] = "gate"
                 PROVE  \E i \in (Owed' + 1)..Len(samples') :
                            samples'[i] = <<Stream[p][2], Stream[p][3]>>
      BY <1>1, <1>7 DEF Fresh
    <3>1. PICK k \in (Owed + 1)..Len(samples) : samples[k] = <<Stream[p][2], Stream[p][3]>>
      BY <1>0 DEF StreamsInStep
    <3> QED
      BY <2>4, <3>1
  <2>6. (\A i \in (Owed + 1)..Len(samples) :
             \E p \in (Len(walked) + 1)..Len(Stream) :
                 Fresh(Stream[p]) /\ Stream[p] = <<"gate", samples[i][1], samples[i][2]>>)'
    <3> SUFFICES ASSUME NEW i \in (Owed' + 1)..Len(samples')
                 PROVE  \E p \in (Len(walked) + 1)..Len(Stream) :
                            /\ Fresh(Stream[p])
                            /\ Stream[p] = <<"gate", samples'[i][1], samples'[i][2]>>
      BY <1>1, <1>7 DEF Fresh
    <3> QED
      BY <1>0, <2>3, ZenonT(60) DEF StreamsInStep
  <2>7. (\A i, k \in (Owed + 1)..Len(samples) :
             i < k => Before(samples[i], samples[k]))'
    <3> SUFFICES ASSUME NEW i \in (Owed' + 1)..Len(samples'),
                        NEW k \in (Owed' + 1)..Len(samples'), i < k
                 PROVE  Before(samples'[i], samples'[k])
      BY DEF Before
    <3>1. i + m \in (Owed + 1)..Len(samples) /\ samples'[i] = samples[i + m]
      BY <2>3
    <3>2. k + m \in (Owed + 1)..Len(samples) /\ samples'[k] = samples[k + m]
      BY <2>3
    <3>3. i + m < k + m
      BY <1>2
    <3>4. Before(samples[i + m], samples[k + m])
      BY <1>0, <3>1, <3>2, <3>3 DEF StreamsInStep
    <3> QED
      BY <3>1, <3>2, <3>4
  <2> QED
    BY <1>1, <2>1, <2>2, <2>5, <2>6, <2>7 DEF StreamsInStep
<1> QED
  BY <1>8, <1>9, <1>10, <1>11, <1>12, <1>13, <1>14 DEF ContextInv

-----------------------------------------------------------------------------
(* The card writes *)

\* The hunks of trigger t with g gates, and the samples of its gates.
Burst(t, g) == <<<<"trigger", t>>>> \o [j \in 1..g |-> <<"gate", t, j>>]

\* What a trigger with g gates puts into the markers stream.
LEMMA BurstHunks ==
    ASSUME NEW t \in Nat, NEW g \in Nat
    PROVE  /\ Burst(t, g) \in Seq(Hunks) /\ Len(Burst(t, g)) = g + 1
           /\ Burst(t, g)[1] = <<"trigger", t>>
           /\ \A i \in 2..(g + 1) : Burst(t, g)[i] = <<"gate", t, i - 1>>
           /\ [j \in 1..g |-> <<"gate", t, j>>] \in Seq(Hunks)
           /\ <<<<"trigger", t>>>> \in Seq(Hunks)
<1> DEFINE one == <<<<"trigger", t>>>>
           gs == [j \in 1..g |-> <<"gate", t, j>>]
<1>1. one \in Seq(Hunks) /\ Len(one) = 1 /\ one[1] = <<"trigger", t>>
  BY DEF Hunks
<1>2. gs \in Seq(Hunks) /\ Len(gs) = g /\ \A i \in 1..g : gs[i] = <<"gate", t, i>>
  BY DEF Hunks
<1> HIDE DEF one, gs
<1>3. /\ one \o gs \in Seq(Hunks) /\ Len(one \o gs) = 1 + g
      /\ \A i \in 1..(1 + g) : (one \o gs)[i] = IF i <= 1 THEN one[i] ELSE gs[i - 1]
  BY <1>1, <1>2, ConcatProperties, SMTT(60)
<1>4. (one \o gs)[1] = <<"trigger", t>>
  BY <1>1, <1>3
<1>5. \A i \in 2..(g + 1) : (one \o gs)[i] = <<"gate", t, i - 1>>
  <2> TAKE i \in 2..(g + 1)
  <2>1. i \in 1..(1 + g) /\ ~(i <= 1) /\ i - 1 \in 1..g
    OBVIOUS
  <2> QED
    BY <1>2, <1>3, <2>1
<1> QED
  BY <1>1, <1>2, <1>3, <1>4, <1>5 DEF Burst, one, gs

\* What a trigger of the card does to the two streams.
LEMMA TriggerFacts ==
    ASSUME TypeOK, NEW g \in Nat, Trigger(g)
    PROVE  LET t == Len(made) + 1 IN
           /\ Len(made) \in Nat /\ Len(Stream) \in Nat
           /\ made' \in Seq(Nat) /\ Len(made') = t /\ made'[t] = g
           /\ \A u \in 1..Len(made) : made'[u] = made[u]
           /\ markers' \in Seq(Hunks)
           /\ Stream' \in Seq(Hunks) /\ Len(Stream') = Len(Stream) + g + 1
           /\ \A p \in 1..Len(Stream) : Stream'[p] = Stream[p]
           /\ Stream'[Len(Stream) + 1] = <<"trigger", t>>
           /\ \A j \in 1..g : Stream'[Len(Stream) + 1 + j] = <<"gate", t, j>>
           /\ samples' \in Seq(Nat \X Nat) /\ Len(samples') = Len(samples) + g
           /\ \A i \in 1..Len(samples) : samples'[i] = samples[i]
           /\ \A j \in 1..g : samples'[Len(samples) + j] = <<t, j>>
<1> DEFINE t == Len(made) + 1
<1>0. /\ made \in Seq(Nat) /\ markers \in Seq(Hunks) /\ markers_buffer \in Seq(Hunks)
      /\ walked \in Seq(Hunks) /\ samples \in Seq(Nat \X Nat)
  BY DEF TypeOK
<1>1. Len(made) \in Nat /\ t \in Nat /\ Len(Stream) \in Nat /\ Len(samples) \in Nat
  BY <1>0, StreamOfState, LenProperties
<1>2. /\ made' \in Seq(Nat) /\ Len(made') = t /\ made'[t] = g
      /\ \A u \in 1..Len(made) : made'[u] = made[u]
  BY <1>0, AppendProperties DEF Trigger
<1>3. markers' = markers \o Burst(t, g)
  <2>1. markers' = (markers \o <<<<"trigger", t>>>>) \o [j \in 1..g |-> <<"gate", t, j>>]
    BY DEF Trigger
  <2> DEFINE one == <<<<"trigger", t>>>>
             gs == [j \in 1..g |-> <<"gate", t, j>>]
  <2>2. one \in Seq(Hunks) /\ gs \in Seq(Hunks) /\ Burst(t, g) = one \o gs
    BY <1>1, BurstHunks DEF Burst
  <2>3. markers' = (markers \o one) \o gs
    BY <2>1
  <2> HIDE DEF one, gs
  <2>4. (markers \o one) \o gs = markers \o (one \o gs)
    <3>1. markers \in Seq(Hunks) /\ one \in Seq(Hunks) /\ gs \in Seq(Hunks)
      BY <1>0, <2>2
    <3> QED
      BY <3>1, ConcatAssociative, SMTT(60)
  <2> QED
    BY <2>2, <2>3, <2>4
<1> DEFINE b == Burst(t, g)
<1>b. b \in Seq(Hunks) /\ Len(b) = g + 1 /\ b[1] = <<"trigger", t>>
      /\ \A i \in 2..(g + 1) : b[i] = <<"gate", t, i - 1>>
  BY <1>1, BurstHunks
<1> HIDE DEF b
<1>4. /\ Stream' \in Seq(Hunks) /\ Len(Stream') = Len(Stream) + Len(b)
      /\ \A p \in 1..Len(Stream) : Stream'[p] = Stream[p]
      /\ \A p \in 1..Len(b) : Stream'[Len(Stream) + p] = b[p]
  <2>1. Stream' = walked \o (markers_buffer \o (markers \o b))
    BY <1>3 DEF Stream, Trigger, b
  <2>2. Stream = walked \o (markers_buffer \o markers)
    BY DEF Stream
  <2> DEFINE old == walked \o (markers_buffer \o markers)
             new == walked \o (markers_buffer \o (markers \o b))
  <2>3. /\ new \in Seq(Hunks) /\ Len(new) = Len(old) + Len(b)
        /\ \A p \in 1..Len(old) : new[p] = old[p]
        /\ \A p \in 1..Len(b) : new[Len(old) + p] = b[p]
    <3>1. /\ walked \in Seq(Hunks) /\ markers_buffer \in Seq(Hunks)
          /\ markers \in Seq(Hunks) /\ b \in Seq(Hunks)
      BY <1>0, <1>b
    <3> QED
      BY <3>1, WrittenAtEnd, SMTT(60)
  <2>4. Stream' = new /\ Stream = old
    BY <2>1, <2>2
  <2> HIDE DEF old, new
  <2> QED
    BY <2>3, <2>4
<1>5. /\ Len(Stream') = Len(Stream) + g + 1
      /\ Stream'[Len(Stream) + 1] = <<"trigger", t>>
      /\ \A j \in 1..g : Stream'[Len(Stream) + 1 + j] = <<"gate", t, j>>
  <2>1. \A j \in 1..g : Stream'[Len(Stream) + 1 + j] = <<"gate", t, j>>
    <3> TAKE j \in 1..g
    <3>1. /\ 1 + j \in 1..Len(b) /\ 1 + j \in 2..(g + 1) /\ (1 + j) - 1 = j
      BY <1>b
    <3>2. Len(Stream) + (1 + j) = Len(Stream) + 1 + j
      BY <1>1
    <3>3. Stream'[Len(Stream) + (1 + j)] = b[1 + j] /\ b[1 + j] = <<"gate", t, (1 + j) - 1>>
      BY <1>4, <1>b, <3>1
    <3> QED
      BY <3>1, <3>2, <3>3
  <2>2. 1 \in 1..Len(b)
    BY <1>b
  <2>3. Stream'[Len(Stream) + 1] = <<"trigger", t>>
    BY <1>4, <1>b, <2>2
  <2>4. Len(Stream') = Len(Stream) + (g + 1)
    BY <1>4, <1>b
  <2>5. Len(Stream) + (g + 1) = Len(Stream) + g + 1
    BY <1>1
  <2> QED
    BY <2>1, <2>3, <2>4, <2>5
<1>6. /\ samples' \in Seq(Nat \X Nat) /\ Len(samples') = Len(samples) + g
      /\ \A i \in 1..Len(samples) : samples'[i] = samples[i]
      /\ \A j \in 1..g : samples'[Len(samples) + j] = <<t, j>>
  <2> DEFINE ss == [j \in 1..g |-> <<t, j>>]
  <2>1. ss \in Seq(Nat \X Nat) /\ Len(ss) = g /\ \A j \in 1..g : ss[j] = <<t, j>>
    BY <1>1
  <2>2. samples' = samples \o ss
    BY DEF Trigger
  <2> HIDE DEF ss
  <2>3. /\ samples' \in Seq(Nat \X Nat) /\ Len(samples') = Len(samples) + g
        /\ \A i \in 1..(Len(samples) + g) :
               samples'[i] = IF i <= Len(samples) THEN samples[i] ELSE ss[i - Len(samples)]
    BY <1>0, <2>1, <2>2, ConcatProperties
  <2>4. \A j \in 1..g : samples'[Len(samples) + j] = <<t, j>>
    <3> TAKE j \in 1..g
    <3>1. /\ Len(samples) + j \in 1..(Len(samples) + g) /\ ~(Len(samples) + j <= Len(samples))
          /\ (Len(samples) + j) - Len(samples) = j
      BY <1>1
    <3> QED
      BY <2>1, <2>3, <3>1
  <2>5. \A i \in 1..Len(samples) : samples'[i] = samples[i]
    <3> TAKE i \in 1..Len(samples)
    <3>1. i \in 1..(Len(samples) + g) /\ i <= Len(samples)
      BY <1>1
    <3> QED
      BY <2>3, <3>1
  <2> QED
    BY <2>3, <2>4, <2>5
<1>7. markers' \in Seq(Hunks)
  BY <1>0, <1>3, <1>b, ConcatProperties DEF b
<1> HIDE DEF t
<1> QED
  BY <1>1, <1>2, <1>4, <1>5, <1>6, <1>7 DEF t

\* The card makes a trigger: its hunks and its samples come after all others.
LEMMA TriggerInv ==
    ASSUME ContextInv, NEW g \in 0..MaxGates, Trigger(g) PROVE ContextInv'
<1> DEFINE t == Len(made) + 1
           L == Len(Stream)
           K == Len(samples)
<1>0. TypeOK /\ WalkedIsOld /\ g \in Nat /\ samples \in Seq(Nat \X Nat) /\ K \in Nat
  BY ContextAssumption, LenProperties DEF ContextInv, TypeOK
<1>1. /\ UNCHANGED <<pc, markers_buffer, walked, returned>>
      /\ UNCHANGED <<triggers_to_read, trig_count, stamps, gates, fetched>>
      /\ UNCHANGED <<last_trigger, frame_last_trigger, frame_first_trigger_checked, frames>>
  BY DEF Trigger, record, frame
<1>2. /\ Len(made) \in Nat /\ L \in Nat
      /\ made' \in Seq(Nat) /\ Len(made') = t /\ made'[t] = g
      /\ \A u \in 1..Len(made) : made'[u] = made[u]
      /\ markers' \in Seq(Hunks)
      /\ Stream' \in Seq(Hunks) /\ Len(Stream') = L + g + 1
      /\ \A p \in 1..L : Stream'[p] = Stream[p]
      /\ Stream'[L + 1] = <<"trigger", t>>
      /\ \A j \in 1..g : Stream'[L + 1 + j] = <<"gate", t, j>>
      /\ samples' \in Seq(Nat \X Nat) /\ Len(samples') = K + g
      /\ \A i \in 1..K : samples'[i] = samples[i]
      /\ \A j \in 1..g : samples'[K + j] = <<t, j>>
  BY <1>0, TriggerFacts
<1> HIDE DEF t, L, K
<1>3. /\ t \in Nat /\ t = Len(made) + 1 /\ L = Len(Stream) /\ K = Len(samples)
      /\ frame_last_trigger < t /\ frame_last_trigger \in Nat
      /\ DOMAIN Stream = 1..L /\ DOMAIN Stream' = 1..(L + g + 1)
  <2>1. t = Len(made) + 1 /\ L = Len(Stream) /\ K = Len(samples)
    BY DEF t, L, K
  <2>2. /\ frame_last_trigger \in Nat /\ last_trigger \in Nat
        /\ frame_last_trigger <= last_trigger /\ last_trigger <= Len(made)
    BY <1>0 DEF WalkedIsOld, TypeOK
  <2>3. DOMAIN Stream = 1..L /\ DOMAIN Stream' = 1..(L + g + 1)
    BY <1>0, <1>2, <2>1, StreamOfState, LenProperties
  <2> QED
    BY <1>2, <2>1, <2>2, <2>3
<1>4. \A h : IsMade(h) => /\ h[2] \in 1..Len(made') /\ Place(h) \in 0..made'[h[2]]
                          /\ made'[h[2]] = made[h[2]]
                          /\ h[2] \in Nat /\ h[2] < t
  <2> SUFFICES ASSUME NEW h, IsMade(h)
               PROVE  /\ h[2] \in 1..Len(made') /\ Place(h) \in 0..made'[h[2]]
                      /\ made'[h[2]] = made[h[2]]
                      /\ h[2] \in Nat /\ h[2] < t
    OBVIOUS
  <2>1. h[2] \in 1..Len(made) /\ Place(h) \in 0..made[h[2]]
    BY DEF IsMade
  <2>2. made'[h[2]] = made[h[2]]
    BY <1>2, <2>1
  <2>3. Len(made) \in Nat /\ Len(made') = Len(made) + 1 /\ t = Len(made) + 1
    BY <1>2, <1>3
  <2> QED
    BY <2>1, <2>2, <2>3
<1>a. L \in Nat /\ g \in Nat /\ K \in Nat
  BY <1>0, <1>2, <1>3
<1>5. TypeOK'
  BY <1>0, <1>1, <1>2 DEF TypeOK
<1>6. WalkedIsOld'
  <2>1. \A p \in DOMAIN walked' : IsMade(walked[p])' /\ walked'[p][2] <= last_trigger'
    BY <1>0, <1>1, <1>4 DEF WalkedIsOld, IsMade, Place
  <2>2. last_trigger' <= Len(made')
    BY <1>0, <1>1, <1>2, <1>3 DEF WalkedIsOld, TypeOK
  <2> QED
    BY <1>0, <1>1, <2>1, <2>2 DEF WalkedIsOld, IsMade, Place
<1>7. CASE ~Sound
  BY <1>1, <1>5, <1>6, <1>7 DEF ContextInv, Sound, InRecord
<1>8. CASE Sound
  <2>0. HunksAreMade /\ StreamFollowsOn /\ StreamsInStep /\ SeamIsTrigger
    BY <1>8 DEF ContextInv
  \* The hunks of the new trigger.
  <2>1. \A p \in (L + 1)..(L + g + 1) :
            /\ Stream'[p][2] = t /\ Place(Stream'[p]) = p - L - 1
            /\ IF p = L + 1 THEN Stream'[p] = <<"trigger", t>>
               ELSE Stream'[p] = <<"gate", t, p - L - 1>>
    <3> TAKE p \in (L + 1)..(L + g + 1)
    <3>1. CASE p = L + 1
      BY <1>2, <3>1, SMTT(60) DEF Place
    <3>2. CASE p # L + 1
      <4>1. p - L - 1 \in 1..g /\ L + 1 + (p - L - 1) = p
        BY <1>0, <1>2, <3>2
      <4>2. Stream'[p] = <<"gate", t, p - L - 1>>
        BY <1>2, <4>1
      <4> QED
        BY <3>2, <4>2 DEF Place
    <3> QED
      BY <3>1, <3>2
  <2>2. \A p \in 1..(L + g + 1) : p \in 1..L \/ p \in (L + 1)..(L + g + 1)
    BY <1>0, <1>2
  <2>3. \A p \in 1..L : IsMade(Stream[p]) /\ Stream[p][2] < t /\ Stream[p][2] \in Nat
                       /\ made'[Stream[p][2]] = made[Stream[p][2]]
    BY <1>3, <1>4, <2>0 DEF HunksAreMade
  <2>4. HunksAreMade'
    <3> SUFFICES ASSUME NEW p \in 1..(L + g + 1)
                 PROVE  Stream'[p][2] \in 1..Len(made')
                        /\ Place(Stream'[p]) \in 0..made'[Stream'[p][2]]
      BY <1>3 DEF HunksAreMade, IsMade, Place
    <3>1. CASE p \in 1..L
      BY <1>2, <1>4, <2>3, <3>1
    <3>2. CASE p \in (L + 1)..(L + g + 1)
      <4>1. p - L - 1 \in 0..g
        BY <1>a, <3>2
      <4>2. Stream'[p][2] = t /\ Place(Stream'[p]) = p - L - 1
        BY <2>1, <3>2
      <4>3. made'[t] = g /\ Len(made') = t /\ t \in 1..t
        BY <1>2, <1>3
      <4> QED
        BY <4>1, <4>2, <4>3
    <3> QED
      BY <2>2, <3>1, <3>2
  <2>5. StreamFollowsOn'
    <3>1. \A p \in 1..(L + g) :
              IF Stream'[p][2] > frame_last_trigger
              THEN IF Place(Stream'[p]) < made'[Stream'[p][2]]
                   THEN Stream'[p + 1] = <<"gate", Stream'[p][2], Place(Stream'[p]) + 1>>
                   ELSE Stream'[p + 1] = <<"trigger", Stream'[p][2] + 1>>
              ELSE Stream'[p + 1][2] > frame_last_trigger => Stream'[p + 1][1] = "trigger"
      <4> TAKE p \in 1..(L + g)
      <4>1. CASE p < L
        <5>1. p \in 1..(L - 1) /\ p \in 1..L /\ p + 1 \in 1..L
          BY <1>a, <4>1
        <5>2. Stream'[p] = Stream[p] /\ Stream'[p + 1] = Stream[p + 1]
              /\ made'[Stream[p][2]] = made[Stream[p][2]]
          BY <1>2, <2>3, <5>1
        <5> QED
          BY <1>3, <2>0, <5>1, <5>2 DEF StreamFollowsOn, Fresh, Follows
      <4>2. CASE p = L
        <5>1. p \in 1..L /\ Stream # <<>>
          BY <1>2, <1>3, <4>2, EmptySeq
        <5>2. Stream'[p] = Stream[p] /\ Stream'[p + 1] = <<"trigger", t>>
              /\ made'[Stream[p][2]] = made[Stream[p][2]] /\ IsMade(Stream[p])
          BY <1>2, <2>3, <4>2, <5>1
        <5>3. CASE Fresh(Stream[p])
          <6>1. Stream[p][2] = Len(made) /\ Place(Stream[p]) = made[Len(made)]
            BY <1>3, <2>0, <4>2, <5>1, <5>3 DEF StreamFollowsOn
          <6>2. ~(Place(Stream[p]) < made[Stream[p][2]])
            BY <5>2, <6>1 DEF IsMade
          <6> QED
            BY <1>3, <5>2, <5>3, <6>1, <6>2 DEF Fresh
        <5>4. CASE ~Fresh(Stream[p])
          BY <5>2, <5>4 DEF Fresh
        <5> QED
          BY <5>3, <5>4
      <4>3. CASE p > L
        <5>1. p \in (L + 1)..(L + g + 1) /\ p + 1 \in (L + 1)..(L + g + 1)
              /\ p - L - 1 < g /\ (p + 1) - L - 1 = (p - L - 1) + 1 /\ p + 1 # L + 1
          BY <1>a, <4>3
        <5>2. Stream'[p][2] = t /\ Place(Stream'[p]) = p - L - 1
              /\ Stream'[p + 1] = <<"gate", t, (p - L - 1) + 1>>
          BY <2>1, <5>1
        <5> QED
          BY <1>2, <1>3, <5>1, <5>2
      <4> QED
        BY <1>2, <4>1, <4>2, <4>3, SMTT(60)
    <3>2. \A p, q \in 1..(L + g + 1) :
              Stream'[p][2] > frame_last_trigger /\ p < q =>
                  Before(<<Stream'[p][2], Place(Stream'[p])>>,
                         <<Stream'[q][2], Place(Stream'[q])>>)
      <4> SUFFICES ASSUME NEW p \in 1..(L + g + 1), NEW q \in 1..(L + g + 1),
                          Stream'[p][2] > frame_last_trigger, p < q
                   PROVE  Before(<<Stream'[p][2], Place(Stream'[p])>>,
                                 <<Stream'[q][2], Place(Stream'[q])>>)
        OBVIOUS
      <4>1. CASE q \in 1..L
        <5>1. p \in 1..L
          BY <1>2, <4>1, SMTT(60)
        <5> QED
          BY <1>2, <1>3, <2>0, <4>1, <5>1 DEF StreamFollowsOn, Fresh
      <4>2. CASE q \in (L + 1)..(L + g + 1) /\ p \in 1..L
        <5>1. Stream'[p][2] < t /\ Stream'[q][2] = t
          BY <1>2, <2>1, <2>3, <4>2
        <5> QED
          BY <5>1 DEF Before
      <4>3. CASE q \in (L + 1)..(L + g + 1) /\ p \in (L + 1)..(L + g + 1)
        <5>1. /\ Stream'[p][2] = t /\ Place(Stream'[p]) = p - L - 1
              /\ Stream'[q][2] = t /\ Place(Stream'[q]) = q - L - 1
          BY <2>1, <4>3
        <5>2. p - L - 1 < q - L - 1
          BY <1>2
        <5> QED
          BY <5>1, <5>2 DEF Before
      <4> QED
        BY <2>2, <4>1, <4>2, <4>3
    <3>3. /\ Stream'[L + g + 1][2] = Len(made')
          /\ Place(Stream'[L + g + 1]) = made'[Len(made')]
      <4>1. L + g + 1 \in (L + 1)..(L + g + 1) /\ (L + g + 1) - L - 1 = g
        BY <1>a
      <4> QED
        BY <1>2, <2>1, <4>1
    <3>4. Len(Stream') - 1 = L + g /\ Len(Stream') = L + g + 1
      BY <1>a, <1>2
    <3>5. (\A p \in 1..(Len(Stream) - 1) :
               IF Fresh(Stream[p]) THEN Follows(Stream[p], Stream[p + 1])
               ELSE Fresh(Stream[p + 1]) => Stream[p + 1][1] = "trigger")'
      BY <1>1, <3>1, <3>4 DEF Fresh, Follows, Place
    <3>6. (\A p, q \in DOMAIN Stream :
               Fresh(Stream[p]) /\ p < q =>
                   Before(<<Stream[p][2], Place(Stream[p])>>,
                          <<Stream[q][2], Place(Stream[q])>>))'
      BY <1>1, <1>3, <3>2, SMTT(60) DEF Fresh, Place, Before
    <3>7. (Stream # <<>> /\ Fresh(Stream[Len(Stream)]) =>
               /\ Stream[Len(Stream)][2] = Len(made)
               /\ Place(Stream[Len(Stream)]) = made[Len(made)])'
      BY <3>3, <3>4 DEF Place
    <3> QED
      BY <3>5, <3>6, <3>7 DEF StreamFollowsOn
  \* What is owed, and where the samples of the new gates are.
  <2>6. Owed' = Owed /\ Owed \in Nat /\ Owed <= K /\ Len(walked) \in Nat /\ Len(walked) <= L
    <3>1. Owed' = Owed
      BY <1>1 DEF Owed
    <3>2. Owed \in 0..K
      BY <1>3, <2>0 DEF StreamsInStep
    <3>3. Len(walked) \in Nat /\ Len(walked) <= L
      BY <1>0, <1>3, StreamOfState, LenProperties DEF TypeOK
    <3> QED
      BY <1>a, <3>1, <3>2, <3>3
  <2>7. \A i \in (K + 1)..(K + g) : samples'[i] = <<t, i - K>> /\ i - K \in 1..g
    <3> TAKE i \in (K + 1)..(K + g)
    <3>1. i - K \in 1..g /\ K + (i - K) = i
      BY <1>a
    <3> QED
      BY <1>2, <3>1
  <2>8. StreamsInStep'
    <3>1. (/\ Owed \in 0..Len(samples)
           /\ \A i \in 1..Owed : samples[i] = gates[Len(fetched) + i])'
      <4>1. Owed \in 0..(K + g) /\ \A i \in 1..Owed : i \in 1..K
        BY <1>a, <2>6
      <4>2. \A i \in 1..Owed : samples'[i] = gates[Len(fetched) + i]
        BY <1>2, <2>0, <4>1 DEF StreamsInStep
      <4> QED
        BY <1>1, <1>2, <2>6, <4>1, <4>2
    <3>2. \A p \in (Len(walked) + 1)..(L + g + 1) :
              Stream'[p][2] > frame_last_trigger /\ Stream'[p][1] = "gate" =>
                  \E i \in (Owed + 1)..(K + g) :
                      samples'[i] = <<Stream'[p][2], Stream'[p][3]>>
      <4> SUFFICES ASSUME NEW p \in (Len(walked) + 1)..(L + g + 1),
                          Stream'[p][2] > frame_last_trigger, Stream'[p][1] = "gate"
                   PROVE  \E i \in (Owed + 1)..(K + g) :
                              samples'[i] = <<Stream'[p][2], Stream'[p][3]>>
        OBVIOUS
      <4>1. CASE p <= L
        <5>1. p \in 1..L /\ p \in (Len(walked) + 1)..L
          BY <1>a, <2>6, <4>1
        <5>2. Stream'[p] = Stream[p]
          BY <1>2, <5>1
        <5>3. PICK i \in (Owed + 1)..K : samples[i] = <<Stream[p][2], Stream[p][3]>>
          BY <1>3, <2>0, <5>1, <5>2 DEF StreamsInStep, Fresh
        <5>4. i \in 1..K /\ i \in (Owed + 1)..(K + g)
          BY <1>a, <2>6
        <5> QED
          BY <1>2, <5>2, <5>3, <5>4
      <4>2. CASE p > L
        <5>1. p \in (L + 1)..(L + g + 1)
          BY <1>a, <2>6, <4>2
        <5>2. p # L + 1 /\ Stream'[p] = <<"gate", t, p - L - 1>>
          BY <2>1, <5>1
        <5> DEFINE i == K + (p - L - 1)
        <5>3. i \in (Owed + 1)..(K + g) /\ i \in (K + 1)..(K + g) /\ i - K = p - L - 1
          BY <1>a, <2>6, <5>1, <5>2
        <5> HIDE DEF i
        <5>4. samples'[i] = <<t, p - L - 1>>
          BY <2>7, <5>3
        <5> QED
          BY <5>2, <5>3, <5>4
      <4> QED
        BY <1>a, <2>6, <4>1, <4>2
    <3>3. \A i \in (Owed + 1)..(K + g) :
              \E p \in (Len(walked) + 1)..(L + g + 1) :
                  /\ Stream'[p][2] > frame_last_trigger
                  /\ Stream'[p] = <<"gate", samples'[i][1], samples'[i][2]>>
      <4> TAKE i \in (Owed + 1)..(K + g)
      <4>1. CASE i <= K
        <5>1. i \in 1..K /\ i \in (Owed + 1)..K
          BY <1>a, <2>6, <4>1
        <5>2. PICK p \in (Len(walked) + 1)..L :
                  Fresh(Stream[p]) /\ Stream[p] = <<"gate", samples[i][1], samples[i][2]>>
          BY <1>3, <2>0, <5>1 DEF StreamsInStep
        <5>3. p \in 1..L /\ p \in (Len(walked) + 1)..(L + g + 1)
          BY <1>a, <2>6
        <5>4. Stream'[p] = Stream[p] /\ samples'[i] = samples[i]
          BY <1>2, <5>1, <5>3
        <5> QED
          BY <5>2, <5>3, <5>4 DEF Fresh
      <4>2. CASE i > K
        <5>1. i \in (K + 1)..(K + g)
          BY <1>a, <2>6, <4>2
        <5>2. samples'[i] = <<t, i - K>> /\ i - K \in 1..g
          BY <2>7, <5>1
        <5> DEFINE p == L + 1 + (i - K)
        <5>3. /\ p \in (Len(walked) + 1)..(L + g + 1) /\ p \in (L + 1)..(L + g + 1)
              /\ p # L + 1 /\ p - L - 1 = i - K
          BY <1>a, <2>6, <5>1
        <5> HIDE DEF p
        <5>4. Stream'[p] = <<"gate", t, i - K>> /\ Stream'[p][2] = t
          BY <2>1, <5>3
        <5>5. samples'[i][1] = t /\ samples'[i][2] = i - K
          BY <5>2
        <5>6. Stream'[p][2] > frame_last_trigger
          BY <1>3, <5>4
        <5> QED
          BY <5>3, <5>4, <5>5, <5>6
      <4> QED
        BY <1>a, <2>6, <4>1, <4>2
    <3>4. \A i, k \in (Owed + 1)..(K + g) : i < k => Before(samples'[i], samples'[k])
      <4> SUFFICES ASSUME NEW i \in (Owed + 1)..(K + g), NEW k \in (Owed + 1)..(K + g), i < k
                   PROVE  Before(samples'[i], samples'[k])
        OBVIOUS
      <4>1. CASE k <= K
        <5>1. i \in 1..K /\ k \in 1..K /\ i \in (Owed + 1)..K /\ k \in (Owed + 1)..K
          BY <1>a, <2>6, <4>1
        <5>2. Before(samples[i], samples[k])
          BY <1>3, <2>0, <5>1 DEF StreamsInStep
        <5> QED
          BY <1>2, <5>1, <5>2
      <4>2. CASE i <= K /\ k > K
        <5>1. i \in 1..K /\ i \in (Owed + 1)..K /\ k \in (K + 1)..(K + g)
          BY <1>a, <2>6, <4>2
        <5>2. PICK p \in (Len(walked) + 1)..L :
                  Fresh(Stream[p]) /\ Stream[p] = <<"gate", samples[i][1], samples[i][2]>>
          BY <1>3, <2>0, <5>1 DEF StreamsInStep
        <5>3. p \in 1..L
          BY <1>a, <2>6
        <5>4. samples[i][1] < t
          BY <2>3, <5>2, <5>3
        <5>5. samples'[i] = samples[i] /\ samples'[k] = <<t, k - K>>
          BY <1>2, <2>7, <5>1
        <5> QED
          BY <5>4, <5>5 DEF Before
      <4>3. CASE i > K
        <5>1. i \in (K + 1)..(K + g) /\ k \in (K + 1)..(K + g) /\ i - K < k - K
          BY <1>a, <2>6, <4>3
        <5>2. samples'[i] = <<t, i - K>> /\ samples'[k] = <<t, k - K>>
          BY <2>7, <5>1
        <5> QED
          BY <5>1, <5>2 DEF Before
      <4> QED
        BY <1>a, <2>6, <4>1, <4>2, <4>3
    <3>5. (\A p \in (Len(walked) + 1)..Len(Stream) :
               Fresh(Stream[p]) /\ Stream[p][1] = "gate" =>
                   \E i \in (Owed + 1)..Len(samples) :
                       samples[i] = <<Stream[p][2], Stream[p][3]>>)'
      BY <1>1, <1>2, <2>6, <3>2 DEF Fresh
    <3>6. (\A i \in (Owed + 1)..Len(samples) :
               \E p \in (Len(walked) + 1)..Len(Stream) :
                   Fresh(Stream[p]) /\ Stream[p] = <<"gate", samples[i][1], samples[i][2]>>)'
      BY <1>1, <1>2, <2>6, <3>3 DEF Fresh
    <3>7. (\A i, k \in (Owed + 1)..Len(samples) : i < k => Before(samples[i], samples[k]))'
      BY <1>2, <2>6, <3>4 DEF Before
    <3> QED
      BY <3>1, <3>5, <3>6, <3>7 DEF StreamsInStep
  <2>9. SeamIsTrigger'
    <3>1. Stream'[Len(walked) + 1][1] = "trigger" \/
              (Len(walked) < L /\ Stream'[Len(walked) + 1] = Stream[Len(walked) + 1])
      <4>1. Len(walked) = L \/ (Len(walked) < L /\ Len(walked) + 1 \in 1..L)
        BY <1>a, <2>6
      <4> QED
        BY <1>2, <4>1, SMTT(60)
    <3>2. Hunk' = Hunk
      BY <1>1 DEF Hunk
    <3> QED
      BY <1>1, <1>3, <2>0, <3>1, <3>2 DEF SeamIsTrigger, Fresh
  <2>10. ASSUME InRecord PROVE RecordFollowsOn' /\ RecordHasItsGates'
    <3>0. RecordFollowsOn /\ RecordHasItsGates
      BY <2>10 DEF ContextInv
    <3>1. \A p \in DOMAIN stamps : /\ stamps[p] <= Len(made')
                                  /\ made'[stamps[p]] = made[stamps[p]]
      <4> TAKE p \in DOMAIN stamps
      <4>1. stamps[p] > frame_last_trigger /\ stamps[p] <= Len(made)
        BY <3>0 DEF RecordFollowsOn
      <4>2. stamps[p] \in Nat
        BY <1>0, ElementOfSeq, LenProperties DEF TypeOK
      <4>3. stamps[p] \in 1..Len(made)
        BY <1>3, <4>1, <4>2
      <4> QED
        BY <1>2, <1>3, <4>1, <4>2, <4>3, SMTT(60)
    <3>2. pc # "walk" => made'[walked[Len(walked)][2]] = made[walked[Len(walked)][2]]
      <4> SUFFICES ASSUME pc # "walk"
                   PROVE  made'[walked[Len(walked)][2]] = made[walked[Len(walked)][2]]
        OBVIOUS
      <4>1. walked # <<>>
        <5>1. Len(stamps) > 0
          BY <3>0 DEF RecordFollowsOn
        <5> QED
          BY <3>0, <5>1, EmptySeq DEF RecordFollowsOn
      <4>2. Len(walked) \in DOMAIN walked
        BY <1>0, <4>1, LenProperties, EmptySeq DEF TypeOK
      <4> QED
        BY <1>0, <1>4, <4>2 DEF WalkedIsOld
    <3>3. RecordFollowsOn'
      BY <1>1, <3>0, <3>1 DEF RecordFollowsOn
    <3>4. RecordHasItsGates'
      BY <1>1, <3>0, <3>1, <3>2 DEF RecordHasItsGates, Place
    <3> QED
      BY <3>3, <3>4
  <2> QED
    BY <1>1, <1>5, <1>6, <2>4, <2>5, <2>8, <2>9, <2>10 DEF ContextInv, Sound, InRecord
<1> QED
  BY <1>7, <1>8

-----------------------------------------------------------------------------
(* The properties *)

\* Every step of the context and of the card keeps the invariant.
LEMMA NextInv == ContextInv /\ [Next]_vars => ContextInv'
<1> SUFFICES ASSUME ContextInv, [Next]_vars PROVE ContextInv'
  OBVIOUS
<1>1. CASE UNCHANGED vars
  <2>0. /\ UNCHANGED <<markers, samples, made, pc, markers_buffer, walked, returned>>
        /\ UNCHANGED <<triggers_to_read, trig_count, stamps, gates, fetched>>
        /\ UNCHANGED <<last_trigger, frame_last_trigger, frame_first_trigger_checked, frames>>
    BY <1>1 DEF vars, card, record, frame
  <2>1. Stream' = Stream /\ Owed' = Owed /\ Hunk' = Hunk
    BY <2>0 DEF Stream, Owed, Hunk
  <2>2. TypeOK' /\ WalkedIsOld'
    BY <2>0 DEF ContextInv, TypeOK, WalkedIsOld, IsMade, Place
  <2>3. Sound => HunksAreMade' /\ StreamFollowsOn' /\ StreamsInStep'
    BY <2>0, <2>1, SameStream, SameStreams DEF ContextInv
  <2>4. Sound => SeamIsTrigger'
    BY <2>0, <2>1 DEF ContextInv, SeamIsTrigger, Fresh
  <2>5. InRecord => RecordFollowsOn' /\ RecordHasItsGates'
    BY <2>0 DEF ContextInv, RecordFollowsOn, RecordHasItsGates, Place
  <2> QED
    BY <2>0, <2>2, <2>3, <2>4, <2>5 DEF ContextInv, Sound, InRecord
<1>2. ASSUME NEW g \in 0..MaxGates, Trigger(g) PROVE ContextInv'
  BY <1>2, TriggerInv
<1>3. ASSUME NEW r \in 0..Len(walked), Start(r) PROVE ContextInv'
  BY <1>3, StartInv
<1>4. CASE Stop
  BY <1>4, StopInv
<1>5. ASSUME NEW n \in Reads, Acquire(n) PROVE ContextInv'
  BY <1>5, AcquireInv
<1>6. CASE WalkLast
  BY <1>6, WalkLastInv
<1>7. CASE WalkTrigger
  BY <1>7, WalkTriggerInv
<1>8. CASE WalkReplayed
  BY <1>8, WalkReplayedInv
<1>9. CASE WalkGate
  BY <1>9, WalkGateInv
<1>10. CASE WalkOrphan
  BY <1>10, WalkOrphanInv
<1>11. ASSUME NEW m \in 1..Len(markers), FetchMarkers(m) PROVE ContextInv'
  BY <1>11, FetchMarkersInv
<1>12. ASSUME NEW m \in 1..Len(samples), FetchSamples(m) PROVE ContextInv'
  BY <1>12, FetchSamplesInv
<1>13. CASE Return
  BY <1>13, ReturnInv
<1>14. CASE Throws
  BY <1>14, ThrowsInv
<1> QED
  BY <1>1, <1>2, <1>3, <1>4, <1>5, <1>6, <1>7, <1>8, <1>9, <1>10, <1>11,
     <1>12, <1>13, <1>14 DEF Next

\* The gates walked and not fetched, the markers in hand and those in the stream
\* are together the samples stream, in every state of acquire().
THEOREM ContextInvariant == Spec => []ContextInv
  BY InitInv, NextInv, PTL DEF Spec

\* The markers and the samples of a record are of the same gates, and of all
\* the gates of its triggers: the samples stream does not say whose samples it
\* holds, and acquire() only counts them off.
THEOREM RecordsAreWhole == Spec => []RecordIsWhole
<1>1. ContextInv => RecordIsWhole
  <2> SUFFICES ASSUME ContextInv, HasRecord
               PROVE  /\ fetched = gates
                      /\ {gates[q] : q \in DOMAIN gates} =
                             UNION {{stamps[p]} \X (1..made[stamps[p]]) : p \in DOMAIN stamps}
    BY DEF RecordIsWhole
  <2>1. /\ TypeOK /\ WalkedIsOld /\ RecordFollowsOn /\ RecordHasItsGates /\ pc = "ready"
        /\ stamps # <<>>
    BY DEF ContextInv, HasRecord, InRecord
  <2>2. fetched = gates
    <3>1. fetched \in Seq(Nat \X Nat) /\ gates \in Seq(Nat \X Nat)
      BY <2>1 DEF TypeOK
    <3>2. Len(fetched) = Len(gates) /\ \A k \in DOMAIN fetched : fetched[k] = gates[k]
      BY <2>1 DEF RecordHasItsGates
    <3>3. \A k \in 1..Len(fetched) : fetched[k] = gates[k]
      BY <3>1, <3>2, LenProperties
    <3> QED
      BY <3>1, <3>2, <3>3, SeqEqual
  <2>3. ASSUME NEW q \in DOMAIN gates
        PROVE  \E p \in DOMAIN stamps : gates[q] \in {stamps[p]} \X (1..made[stamps[p]])
    <3>1. PICK p \in DOMAIN stamps :
              gates[q][1] = stamps[p] /\ gates[q][2] \in 1..made[stamps[p]]
      BY <2>1 DEF RecordHasItsGates
    <3>2. gates[q] \in Nat \X Nat
      BY <2>1, ElementOfSeq, LenProperties DEF TypeOK
    <3>3. gates[q] = <<gates[q][1], gates[q][2]>>
      BY <3>2
    <3> QED
      BY <3>1, <3>3
  <2>4. ASSUME NEW p \in DOMAIN stamps, NEW j \in 1..made[stamps[p]]
        PROVE  \E q \in DOMAIN gates : gates[q] = <<stamps[p], j>>
    <3>1. /\ walked # <<>> /\ walked[Len(walked)][2] = stamps[Len(stamps)]
          /\ Place(walked[Len(walked)]) = made[walked[Len(walked)][2]]
      BY <2>1 DEF RecordFollowsOn, RecordHasItsGates
    <3>2. p \in 1..Len(stamps) /\ Len(stamps) \in Nat
      BY <2>1, LenProperties DEF TypeOK
    <3>3. p < Len(stamps) \/ j <= Place(walked[Len(walked)])
      <4>1. CASE p = Len(stamps)
        BY <3>1, <4>1
      <4> QED
        BY <3>2, <4>1
    <3> QED
      BY <2>1, <3>3 DEF RecordHasItsGates
  <2>5. {gates[q] : q \in DOMAIN gates} \subseteq
            UNION {{stamps[p]} \X (1..made[stamps[p]]) : p \in DOMAIN stamps}
    BY <2>3
  <2>6. UNION {{stamps[p]} \X (1..made[stamps[p]]) : p \in DOMAIN stamps} \subseteq
            {gates[q] : q \in DOMAIN gates}
    BY <2>4
  <2> QED
    BY <2>2, <2>5, <2>6
<1> QED
  BY <1>1, ContextInvariant, PTL

\* A record has as many triggers as acquire() was asked for, one after the
\* other: the hunk that ends one walk is the first of the next.
THEOREM TriggersFollow == Spec => []TriggersFollowOn
<1>1. ContextInv => TriggersFollowOn
  BY DEF ContextInv, TriggersFollowOn, HasRecord, InRecord, RecordFollowsOn
<1> QED
  BY <1>1, ContextInvariant, PTL

\* The same from a record to the next one of the frame.
THEOREM NoTriggerIsLost == Spec => NoTriggerBetweenRecords
<1>1. ContextInv /\ [Next]_vars => [Return /\ returned # 0 => stamps[1] = returned + 1]_vars
  <2> SUFFICES ASSUME ContextInv, Return, returned # 0
               PROVE  stamps[1] = returned + 1
    OBVIOUS
  <2>1. RecordFollowsOn /\ TypeOK /\ pc = "samples"
    BY DEF ContextInv, InRecord, Return
  <2>2. stamps # <<>>
    BY <2>1, EmptySeq DEF RecordFollowsOn
  <2> QED
    BY <2>1, <2>2 DEF RecordFollowsOn
<1> QED
  BY <1>1, ContextInvariant, PTL DEF Spec, NoTriggerBetweenRecords

\* note_trigger(): no samples are fetched against markers read a second time,
\* whichever of them the card hands out again and however often.
THEOREM ReplaysAreNotFetched == Spec => []NothingFetchedAgainstReplay
<1>1. ContextInv => NothingFetchedAgainstReplay
  <2> SUFFICES ASSUME ContextInv, pc = "samples", NEW q \in DOMAIN gates
               PROVE  gates[q][1] > frame_last_trigger
    BY DEF NothingFetchedAgainstReplay
  <2>1. RecordFollowsOn /\ RecordHasItsGates
    BY DEF ContextInv, InRecord
  <2>2. PICK p \in DOMAIN stamps : gates[q][1] = stamps[p]
    BY <2>1 DEF RecordHasItsGates
  <2> QED
    BY <2>1, <2>2 DEF RecordFollowsOn
<1> QED
  BY <1>1, ContextInvariant, PTL

=============================================================================
