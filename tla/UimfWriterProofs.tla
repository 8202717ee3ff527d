------------------------- MODULE UimfWriterProofs -------------------------
(***************************************************************************)
(* Every row in the file is on the mass axis its frame states, and the     *)
(* console holds nothing on the file between two batches: for any batches, *)
(* axes and number of failing statements, whatever the client does with    *)
(* its connection.                                                         *)
(***************************************************************************)
EXTENDS UimfWriter, SequenceTheorems, FiniteSetTheorems, TLAPS

-----------------------------------------------------------------------------
(* The elements of the sequences *)

\* END TRANSACTION moves the pending rows behind those of the file.
LEMMA ConcatElements ==
    ASSUME NEW S, NEW p \in Seq(S), NEW q \in Seq(S)
    PROVE  p \o q \in Seq(S) /\ ToSet(p \o q) = ToSet(p) \cup ToSet(q)
<1>1. Len(p) \in Nat /\ Len(q) \in Nat /\ DOMAIN p = 1..Len(p) /\ DOMAIN q = 1..Len(q)
    BY LenProperties
<1>2. p \o q \in Seq(S) /\ Len(p \o q) = Len(p) + Len(q)
    BY ConcatProperties
<1>3. DOMAIN (p \o q) = 1..(Len(p) + Len(q))
    BY <1>2, LenProperties
<1>4. \A i \in 1..(Len(p) + Len(q)) :
          (p \o q)[i] = IF i <= Len(p) THEN p[i] ELSE q[i - Len(p)]
    BY ConcatProperties
<1>5. ASSUME NEW i \in DOMAIN (p \o q) PROVE (p \o q)[i] \in ToSet(p) \cup ToSet(q)
    <2>1. CASE i <= Len(p)
        BY <1>1, <1>3, <1>4, <1>5, <2>1 DEF ToSet
    <2>2. CASE ~(i <= Len(p))
        <3>1. i - Len(p) \in DOMAIN q /\ (p \o q)[i] = q[i - Len(p)]
            BY <1>1, <1>3, <1>4, <1>5, <2>2
        <3> QED
            BY <3>1 DEF ToSet
    <2> QED
        BY <2>1, <2>2
<1>6. ASSUME NEW i \in DOMAIN p PROVE p[i] \in ToSet(p \o q)
    <2>1. i \in DOMAIN (p \o q) /\ (p \o q)[i] = p[i]
        BY <1>1, <1>3, <1>4
    <2> QED
        BY <2>1 DEF ToSet
<1>7. ASSUME NEW i \in DOMAIN q PROVE q[i] \in ToSet(p \o q)
    <2> DEFINE j == i + Len(p)
    <2>1. j \in DOMAIN (p \o q) /\ (p \o q)[j] = q[i]
        <3>1. j \in 1..(Len(p) + Len(q)) /\ ~(j <= Len(p)) /\ j - Len(p) = i
            BY <1>1
        <3> QED
            BY <1>3, <1>4, <3>1
    <2> QED
        BY <2>1 DEF ToSet
<1>8. ToSet(p \o q) \subseteq ToSet(p) \cup ToSet(q)
    BY <1>5 DEF ToSet
<1>9. ToSet(p) \cup ToSet(q) \subseteq ToSet(p \o q)
    BY <1>6, <1>7 DEF ToSet
<1> QED
    BY <1>2, <1>8, <1>9

\* An INSERT adds one row.
LEMMA AppendElements ==
    ASSUME NEW S, NEW p \in Seq(S), NEW e \in S
    PROVE  Append(p, e) \in Seq(S) /\ ToSet(Append(p, e)) = ToSet(p) \cup {e}
<1>1. <<e>> \in Seq(S) /\ ToSet(<<e>>) = {e}
    BY DEF ToSet
<1>2. Append(p, e) = p \o <<e>>
    BY AppendIsConcat
<1> DEFINE q == <<e>>
<1> HIDE DEF q
<1>3. q \in Seq(S) /\ ToSet(q) = {e} /\ Append(p, e) = p \o q
    BY <1>1, <1>2 DEF q
<1>4. p \o q \in Seq(S) /\ ToSet(p \o q) = ToSet(p) \cup ToSet(q)
    BY <1>3, ConcatElements
<1> QED
    BY <1>3, <1>4

\* A transaction that was rolled back has no rows.
LEMMA NoElements == ToSet(<<>>) = {}
BY DEF ToSet

\* The fields of a batch and of its scans.
LEMMA BatchFields ==
    ASSUME NEW i \in DOMAIN Batches
    PROVE  /\ Batches[i].frame_number \in Nat /\ Batches[i].start_trigger \in Nat
           /\ Batches[i].frame_number \in Frames
           /\ \A j \in 1..Len(Batches[i].scans) :
                  /\ j \in DOMAIN Batches[i].scans
                  /\ Batches[i].scans[j].scan \in Nat
<1>1. Batches[i] \in [frame_number : Nat, start_trigger : Nat,
                      scans : Seq([scan : Nat, size : Nat])]
    BY BatchesAssumption, ElementOfSeq, LenProperties
<1>2. Batches[i].scans \in Seq([scan : Nat, size : Nat])
    BY <1>1
<1>3. \A j \in 1..Len(Batches[i].scans) : Batches[i].scans[j] \in [scan : Nat, size : Nat]
    BY <1>2, ElementOfSeq
<1>4. DOMAIN Batches[i].scans = 1..Len(Batches[i].scans)
    BY <1>2, LenProperties
<1> QED
    BY <1>1, <1>3, <1>4 DEF Frames

-----------------------------------------------------------------------------
(* Where on_notify is *)

\* The file is not open and nothing is held at first.
LEMMA InitWriter == Init => WriterInv
<1> SUFFICES ASSUME Init PROVE WriterInv
    OBVIOUS
<1>1. PlaceInv
    BY DEF Init, PlaceInv
<1>2. AxisInv
    BY DEF Init, AxisInv
<1>3. RowsInv /\ RowsOnStatedAxis
    BY NoElements, EmptySeq DEF Init, RowsInv, RowsOnStatedAxis
<1> QED
    BY <1>1, <1>2, <1>3 DEF WriterInv

\* The client states the parameters of a frame once: what was asked stays asked.
LEMMA ParamsStay ==
    ASSUME [Next]_vars, params \in [Frames -> Axes \cup {BinAxis, "unstated"}]
    PROVE  /\ params' \in [Frames -> Axes \cup {BinAxis, "unstated"}]
           /\ \A f \in Frames : Asked(f) => Asked(f)' /\ AxisOf(f)' = AxisOf(f)
<1>1. CASE ClientCommit
    BY <1>1 DEF ClientCommit, Asked, AxisOf
<1>2. CASE UNCHANGED params
    BY <1>2 DEF Asked, AxisOf
<1> QED
    BY <1>1, <1>2 DEF Next, ClientStep, ClientRead, ClientReserve, ClientEnd, WriterStep, Open,
        ReadCalibration, ReadCalibrationThrows, Begin, Skip, Insert, End, Return,
        OpenThrows, BeginThrows, InsertThrows, EndThrows, PragmaThrows, Throws, Crash,
        fileVars, vars

\* What the client does leaves the writer where it is.
LEMMA ClientKeeps ==
    ASSUME WriterInv, [Next]_vars, ClientStep \/ UNCHANGED vars
    PROVE  WriterInv'
<1>1. UNCHANGED <<writerVars, file, historyVars>>
    BY DEF ClientStep, ClientRead, ClientReserve, ClientCommit, ClientEnd, vars, fileVars
<1>2. UNCHANGED <<batch, pc, k, calibration, calibration_read, pending, lock, file,
                  written, misread>>
    BY <1>1 DEF writerVars, historyVars
<1>3. /\ params' \in [Frames -> Axes \cup {BinAxis, "unstated"}]
      /\ \A f \in Frames : Asked(f) => Asked(f)' /\ AxisOf(f)' = AxisOf(f)
    BY ParamsStay DEF WriterInv, AxisInv
<1>4. \A i \in DOMAIN Batches : Batches[i].frame_number \in Frames
    BY BatchFields
<1>5. PlaceInv'
    BY <1>2, <1>3, <1>4 DEF WriterInv, PlaceInv, Params
<1>6. AxisInv'
    BY <1>2, <1>3, <1>4 DEF WriterInv, PlaceInv, AxisInv, Params
<1>7. RowsInv'
    BY <1>2 DEF WriterInv, RowsInv, Params, Owed
<1>8. RowsOnStatedAxis'
    <2> SUFFICES ASSUME NEW r \in ToSet(file)
                 PROVE  \E i \in written :
                            /\ <<r.FrameNum, r.ScanNum>> \in Owed(i)
                            /\ r.axis = IF i \in misread THEN BinAxis ELSE AxisOf(r.FrameNum)'
        BY <1>2 DEF RowsOnStatedAxis, Owed
    <2>1. PICK i \in written :
              /\ <<r.FrameNum, r.ScanNum>> \in Owed(i)
              /\ r.axis = IF i \in misread THEN BinAxis ELSE AxisOf(r.FrameNum)
        BY DEF WriterInv, RowsOnStatedAxis
    <2>2. i \in DOMAIN Batches /\ Asked(Batches[i].frame_number)
        BY DEF WriterInv, PlaceInv
    <2>3. r.FrameNum = Batches[i].frame_number
        BY <2>1 DEF Owed
    <2> QED
        BY <1>3, <1>4, <2>1, <2>2, <2>3
<1> QED
    BY <1>5, <1>6, <1>7, <1>8 DEF WriterInv

-----------------------------------------------------------------------------
(* The steps of the writer *)

\* A batch whose transaction is not committed yet does not concern the file.
LEMMA FileStays ==
    ASSUME WriterInv, UNCHANGED <<file, params, written>>,
           misread' = misread \/ (misread' = misread \cup {batch} /\ batch \notin written)
    PROVE  RowsOnStatedAxis'
BY DEF WriterInv, RowsOnStatedAxis, Owed, AxisOf

\* The file is opened.
LEMMA OpenKeeps == ASSUME WriterInv, Open PROVE WriterInv'
<1>1. batch \in DOMAIN Batches
    BY BatchesAssumption, LenProperties DEF Open, WriterInv, PlaceInv
<1>2. PlaceInv'
    BY <1>1 DEF Open, fileVars, historyVars, WriterInv, PlaceInv, Params, Asked
<1>3. AxisInv'
    BY DEF Open, fileVars, historyVars, WriterInv, AxisInv
<1>4. RowsInv'
    BY NoElements DEF Open, fileVars, historyVars, WriterInv, RowsInv
<1>5. RowsOnStatedAxis'
    BY FileStays DEF Open, fileVars, historyVars
<1> QED
    BY <1>2, <1>3, <1>4, <1>5 DEF WriterInv

\* The calibration is read, or cannot be.
LEMMA CalibrationKeeps ==
    ASSUME WriterInv, ReadCalibration \/ ReadCalibrationThrows
    PROVE  WriterInv'
<1> USE DEF ReadCalibration, ReadCalibrationThrows, fileVars, historyVars
<1>1. PlaceInv'
    <2>1. misread' \subseteq misread \cup {batch} /\ UNCHANGED <<batch, k, params, written>>
        OBVIOUS
    <2>2. batch \in 1..batch
        BY DEF WriterInv, PlaceInv
    <2>3. misread' \subseteq 1..batch
        BY <2>1, <2>2 DEF WriterInv, PlaceInv
    <2> QED
        BY <2>1, <2>3 DEF WriterInv, PlaceInv, Params, Asked
<1>2. batch \notin misread /\ batch \notin written /\ ~calibration_read
    BY DEF WriterInv, PlaceInv, AxisInv
<1>3. AxisInv'
    BY <1>2 DEF WriterInv, AxisInv, AxisOf, Params
<1>4. RowsInv'
    BY NoElements DEF WriterInv, RowsInv
<1>5. RowsOnStatedAxis'
    BY <1>2, FileStays
<1> QED
    BY <1>1, <1>3, <1>4, <1>5 DEF WriterInv

\* The transaction begins, and an empty scan is skipped.
LEMMA ScanKeeps == ASSUME WriterInv, Begin \/ Skip PROVE WriterInv'
<1> USE DEF Begin, Skip, fileVars, historyVars
<1>1. PlaceInv'
    <2>1. k' \in Nat \ {0}
        BY DEF WriterInv, PlaceInv
    <2> QED
        BY <2>1 DEF WriterInv, PlaceInv, Params, Asked
<1>2. AxisInv'
    BY DEF WriterInv, AxisInv, AxisOf, Params
<1>3. RowsInv'
    BY DEF WriterInv, RowsInv, Owed, Params
<1>4. RowsOnStatedAxis'
    BY FileStays
<1> QED
    BY <1>1, <1>2, <1>3, <1>4 DEF WriterInv

\* A row is one of those the batch owes, on the axis the batch has read.
LEMMA InsertKeeps == ASSUME WriterInv, Insert PROVE WriterInv'
<1> DEFINE s == Params.scans[k]
<1>1. /\ batch \in DOMAIN Batches /\ k \in 1..Len(Params.scans) /\ pc = "scans"
      /\ Stored(s)
    BY DEF Insert, WriterInv, PlaceInv
<1>2. /\ Params.frame_number \in Nat /\ Params.start_trigger \in Nat
      /\ k \in DOMAIN Params.scans /\ s.scan \in Nat
    BY <1>1, BatchFields DEF Params
<1>3. s.scan - Params.start_trigger \in Nat
    BY <1>1, <1>2 DEF Stored
<1>4. Row(s) \in Rows
    BY <1>2, <1>3 DEF Row, Rows, WriterInv, AxisInv
<1>5. <<Row(s).FrameNum, Row(s).ScanNum>> \in Owed(batch)
    BY <1>1, <1>2 DEF Row, Owed, Stored, Params, ToSet
<1>6. /\ pending' \in Seq(Rows)
      /\ ToSet(pending') = ToSet(pending) \cup {Row(s)}
    BY <1>4, AppendElements DEF Insert, WriterInv, RowsInv
<1>7. PlaceInv'
    BY DEF Insert, fileVars, historyVars, WriterInv, PlaceInv, Params, Asked
<1>8. AxisInv'
    BY DEF Insert, fileVars, historyVars, WriterInv, AxisInv, AxisOf, Params
<1>9. RowsInv'
    <2>1. UNCHANGED <<file, batch, calibration, pc>> /\ pc = "scans"
        BY DEF Insert, fileVars
    <2>2. Row(s).axis = calibration /\ Row(s).FrameNum = Params.frame_number
        BY DEF Row
    <2>3. \A r \in ToSet(pending') : <<r.FrameNum, r.ScanNum>> \in Owed(batch)
              /\ r.axis = calibration /\ r.FrameNum = Params.frame_number
        BY <1>5, <1>6, <2>2 DEF WriterInv, RowsInv
    <2> HIDE DEF s
    <2> QED
        BY <1>6, <2>1, <2>3 DEF WriterInv, RowsInv, Owed, Params
<1>10. RowsOnStatedAxis'
    BY FileStays DEF Insert, fileVars, historyVars
<1> QED
    BY <1>7, <1>8, <1>9, <1>10 DEF WriterInv

\* What the commit adds to the file are rows of this batch on its axis.
LEMMA EndKeeps == ASSUME WriterInv, End PROVE WriterInv'
<1>1. /\ pc = "scans" /\ pc' = "committed" /\ pending' = <<>> /\ lock' = "none"
      /\ file' = file \o pending /\ written' = written \cup {batch}
      /\ UNCHANGED <<batch, k, calibration, calibration_read, params, misread>>
    BY DEF End
<1>2. batch \in DOMAIN Batches /\ Asked(Params.frame_number)
    BY <1>1 DEF WriterInv, PlaceInv
<1>3. PlaceInv'
    BY <1>1, <1>2 DEF WriterInv, PlaceInv, Params, Asked
<1>4. AxisInv'
    BY <1>1 DEF WriterInv, AxisInv
<1>5. file' \in Seq(Rows) /\ ToSet(file') = ToSet(file) \cup ToSet(pending)
    BY <1>1, ConcatElements DEF WriterInv, RowsInv
<1>6. RowsInv'
    BY <1>1, <1>5, NoElements, EmptySeq DEF WriterInv, RowsInv
<1>7. ASSUME NEW r \in ToSet(pending)
      PROVE  /\ <<r.FrameNum, r.ScanNum>> \in Owed(batch)
             /\ r.axis = IF batch \in misread THEN BinAxis ELSE AxisOf(r.FrameNum)
    BY <1>1 DEF WriterInv, RowsInv, AxisInv
<1>8. RowsOnStatedAxis'
    BY <1>1, <1>5, <1>7 DEF WriterInv, RowsOnStatedAxis, Owed, AxisOf
<1> QED
    BY <1>3, <1>4, <1>6, <1>8 DEF WriterInv

\* The end of on_notify, by return or by what a statement throws, and the end
\* of the process: what was not committed is gone.
LEMMA LeaveKeeps ==
    ASSUME WriterInv, UNCHANGED <<k, calibration, calibration_read, file, params, written, misread>>,
           pending' = <<>>, lock' = "none",
           \/ pc' = "idle" /\ batch' = batch + 1
           \/ pc' = "dead" /\ batch' = batch
    PROVE  WriterInv'
<1>1. batch \in Nat \ {0} /\ written \subseteq 1..batch /\ misread \subseteq 1..batch
    BY DEF WriterInv, PlaceInv
<1>2. batch' \in Nat \ {0} /\ written \subseteq 1..batch' /\ misread \subseteq 1..batch'
    BY <1>1
<1>3. pc' = "idle" => batch' \notin written /\ batch' \notin misread
    BY <1>1
<1>4. PlaceInv'
    BY <1>2, <1>3 DEF WriterInv, PlaceInv, Asked
<1>5. AxisInv'
    BY DEF WriterInv, AxisInv
<1>6. RowsInv'
    BY NoElements, EmptySeq DEF WriterInv, RowsInv
<1>7. RowsOnStatedAxis'
    BY FileStays
<1> QED
    BY <1>4, <1>5, <1>6, <1>7 DEF WriterInv

\* The invariant of the writer is inductive.
LEMMA NextWriter == WriterInv /\ [Next]_vars => WriterInv'
<1> SUFFICES ASSUME WriterInv, [Next]_vars PROVE WriterInv'
    OBVIOUS
<1>1. CASE ClientStep \/ UNCHANGED vars
    BY <1>1, ClientKeeps
<1>2. CASE Open \/ ReadCalibration \/ ReadCalibrationThrows
    BY <1>2, OpenKeeps, CalibrationKeeps
<1>3. CASE Begin \/ Skip \/ Insert \/ End
    BY <1>3, ScanKeeps, InsertKeeps, EndKeeps
<1>4. CASE Return \/ OpenThrows \/ BeginThrows \/ InsertThrows \/ EndThrows \/ PragmaThrows
    <2>1. Close /\ UNCHANGED <<k, calibration, calibration_read, fileVars, historyVars>>
        BY <1>4 DEF Return, OpenThrows, BeginThrows, InsertThrows, EndThrows, PragmaThrows,
            Throws
    <2> QED
        BY <2>1, LeaveKeeps DEF Close, fileVars, historyVars
<1>5. CASE Crash
    BY <1>5, LeaveKeeps DEF Crash, fileVars, historyVars
<1> QED
    BY <1>1, <1>2, <1>3, <1>4, <1>5 DEF Next, WriterStep

-----------------------------------------------------------------------------
(* The theorems *)

\* The invariant of the writer, for any batches and axes.
THEOREM WriterInvariant == Spec => []WriterInv
BY InitWriter, NextWriter, PTL DEF Spec

\* No row is on another axis than its frame states, unless the batch could not
\* read its calibration and all its rows are bin indices (UIMFWriter.cpp:19).
THEOREM AxisIsTrue == Spec => []RowsOnStatedAxis
<1>1. WriterInv => RowsOnStatedAxis
    BY DEF WriterInv
<1> QED
    BY <1>1, WriterInvariant, PTL

\* Nothing is held on the file between two batches, also after one that failed
\* (the scope of the writer in uimfframewritersubscriber.cpp:11).
THEOREM FileIsLetGo == Spec => []NothingHeldBetweenBatches
<1>1. WriterInv => NothingHeldBetweenBatches
    BY DEF WriterInv, RowsInv, NothingHeldBetweenBatches
<1> QED
    BY <1>1, WriterInvariant, PTL

-----------------------------------------------------------------------------
(* The rows and their keys *)

\* The keys of rows that follow one another.
LEMMA KeysOfConcat ==
    ASSUME NEW p \in Seq(Rows), NEW q \in Seq(Rows)
    PROVE  Keys(p \o q) = Keys(p) \cup Keys(q)
<1>1. ToSet(p \o q) = ToSet(p) \cup ToSet(q)
    BY ConcatElements
<1> QED
    BY <1>1 DEF Keys

\* The keys of the rows and one row more.
LEMMA KeysOfAppend ==
    ASSUME NEW p \in Seq(Rows), NEW e \in Rows
    PROVE  Keys(Append(p, e)) = Keys(p) \cup {Key(e)}
<1>1. ToSet(Append(p, e)) = ToSet(p) \cup {e}
    BY AppendElements
<1> QED
    BY <1>1 DEF Keys, Key

\* No rows have no keys.
LEMMA NoKeys == Keys(<<>>) = {} /\ Unique(<<>>)
BY NoElements DEF Keys, Unique

\* The key of a row is among the keys.
LEMMA KeyAt ==
    ASSUME NEW p, NEW i \in DOMAIN p
    PROVE  Key(p[i]) \in Keys(p)
BY DEF Keys, Key, ToSet

\* Rows that have keys of their own keep them when the sequences are joined.
LEMMA UniqueConcat ==
    ASSUME NEW p \in Seq(Rows), NEW q \in Seq(Rows), Unique(p), Unique(q),
           Keys(p) \cap Keys(q) = {}
    PROVE  Unique(p \o q)
<1> DEFINE r == p \o q
           m == Len(p)
           n == Len(q)
<1>1. m \in Nat /\ n \in Nat /\ DOMAIN p = 1..m /\ DOMAIN q = 1..n
    BY LenProperties
<1>2. /\ DOMAIN r = 1..(m + n)
      /\ \A i \in 1..(m + n) : r[i] = IF i <= m THEN p[i] ELSE q[i - m]
    <2>1. r \in Seq(Rows) /\ Len(r) = m + n
        BY ConcatProperties
    <2> QED
        BY <2>1, ConcatProperties, LenProperties
<1> HIDE DEF r, m, n
<1>3. ASSUME NEW i \in 1..(m + n)
      PROVE  i \in 1..m \/ (i - m \in 1..n /\ ~(i <= m))
    BY <1>1
<1>4. ASSUME NEW i \in DOMAIN r
      PROVE  \/ i \in DOMAIN p /\ r[i] = p[i]
             \/ i - m \in DOMAIN q /\ r[i] = q[i - m]
    <2>1. i \in 1..m => i <= m
        BY <1>1
    <2> QED
        BY <1>1, <1>2, <1>3, <2>1
<1>5. \A i \in DOMAIN p : Key(p[i]) \in Keys(p)
    BY KeyAt
<1>6. \A i \in DOMAIN q : Key(q[i]) \in Keys(q)
    BY KeyAt
<1>7. ASSUME NEW a \in DOMAIN r, NEW c \in DOMAIN r, Key(r[a]) = Key(r[c])
      PROVE  a = c
    <2>1. CASE a \in DOMAIN p /\ r[a] = p[a] /\ c \in DOMAIN p /\ r[c] = p[c]
        BY <1>7, <2>1 DEF Unique
    <2>2. CASE a - m \in DOMAIN q /\ r[a] = q[a - m] /\ c - m \in DOMAIN q /\ r[c] = q[c - m]
        <3>1. a - m = c - m
            BY <1>7, <2>2 DEF Unique
        <3>2. a \in Int /\ c \in Int /\ m \in Int
            BY <1>1, <1>2
        <3> QED
            BY <3>1, <3>2
    <2> QED
        BY <1>4, <1>5, <1>6, <1>7, <2>1, <2>2
<1> QED
    BY <1>7 DEF Unique, r

\* A row with a key of its own leaves all keys distinct.
LEMMA UniqueAppend ==
    ASSUME NEW p \in Seq(Rows), NEW e \in Rows, Unique(p), Key(e) \notin Keys(p)
    PROVE  Unique(Append(p, e))
<1> DEFINE q == <<e>>
<1>1. q \in Seq(Rows) /\ Append(p, e) = p \o q
    BY AppendIsConcat
<1>2. Unique(q)
    BY DEF Unique
<1>3. Keys(q) = {Key(e)}
    BY DEF Keys, Key, ToSet
<1> HIDE DEF q
<1>4. Unique(p \o q)
    BY <1>1, <1>2, <1>3, UniqueConcat
<1> QED
    BY <1>1, <1>4

\* There are then as many rows as keys.
LEMMA UniqueCounts ==
    ASSUME NEW p \in Seq(Rows), Unique(p)
    PROVE  Len(p) = Cardinality(Keys(p))
<1> DEFINE n == Len(p)
           f == [i \in 1..n |-> Key(p[i])]
<1>1. n \in Nat /\ DOMAIN p = 1..n
    BY LenProperties
<1>2. \A i \in 1..n : Key(p[i]) \in Keys(p)
    BY <1>1, KeyAt
<1>3. \A key \in Keys(p) : \E i \in 1..n : Key(p[i]) = key
    BY <1>1 DEF Keys, Key, ToSet
<1>4. f \in [1..n -> Keys(p)]
    BY <1>2
<1>5. \A a, c \in 1..n : f[a] = f[c] => a = c
    BY <1>1 DEF Unique
<1>6. \A key \in Keys(p) : \E i \in 1..n : f[i] = key
    BY <1>3
<1>7. f \in Bijection(1..n, Keys(p))
    BY <1>4, <1>5, <1>6 DEF Bijection, Injection, Surjection, IsInjective
<1>8. ExistsBijection(1..n, Keys(p))
    BY <1>7 DEF ExistsBijection
<1> QED
    BY <1>1, <1>8, FS_CountingElements

-----------------------------------------------------------------------------
(* What an open transaction has, and what a commit adds *)

\* The scans of the batch in hand.
LEMMA ScansInHand ==
    ASSUME WriterInv, pc \in {"calibration", "begin", "scans"}
    PROVE  /\ batch \in DOMAIN Batches /\ Len(Params.scans) \in Nat
           /\ DOMAIN Params.scans = 1..Len(Params.scans)
<1>1. batch \in DOMAIN Batches
    BY DEF WriterInv, PlaceInv
<1>2. Batches[batch] \in [frame_number : Nat, start_trigger : Nat,
                          scans : Seq([scan : Nat, size : Nat])]
    BY <1>1, BatchesAssumption, ElementOfSeq, LenProperties
<1>3. Params.scans \in Seq([scan : Nat, size : Nat])
    BY <1>2 DEF Params
<1> QED
    BY <1>1, <1>3, LenProperties

\* Before the first scan nothing of the batch is owed to the file.
LEMMA NoneOwedYet ==
    ASSUME WriterInv, pc \in {"calibration", "begin", "scans"}
    PROVE  OwedBefore(1) = {}
<1>1. \A m \in DOMAIN Params.scans : ~(m < 1)
    BY ScansInHand
<1> QED
    BY <1>1 DEF OwedBefore

\* A scan with peaks is owed to the file, one without is not.
LEMMA OneMoreScan ==
    ASSUME WriterInv, pc = "scans", k <= Len(Params.scans)
    PROVE  /\ k \in DOMAIN Params.scans
           /\ Stored(Params.scans[k]) =>
                  OwedBefore(k + 1) = OwedBefore(k) \cup {Key(Row(Params.scans[k]))}
           /\ ~Stored(Params.scans[k]) => OwedBefore(k + 1) = OwedBefore(k)
<1> DEFINE D == DOMAIN Params.scans
<1>1. k \in D /\ k \in Nat
    BY ScansInHand DEF WriterInv, PlaceInv
<1>2. \A m \in D : m < k + 1 <=> m < k \/ m = k
    BY <1>1, ScansInHand
<1>3. ~(k < k)
    BY <1>1
<1>4. Key(Row(Params.scans[k])) = <<Params.frame_number, Params.scans[k].scan - Params.start_trigger>>
    BY DEF Key, Row
<1>5. ASSUME Stored(Params.scans[k])
      PROVE  {m \in D : m < k + 1 /\ Stored(Params.scans[m])}
                 = {m \in D : m < k /\ Stored(Params.scans[m])} \cup {k}
    BY <1>1, <1>2, <1>5
<1>6. ASSUME ~Stored(Params.scans[k])
      PROVE  {m \in D : m < k + 1 /\ Stored(Params.scans[m])}
                 = {m \in D : m < k /\ Stored(Params.scans[m])}
    BY <1>1, <1>2, <1>6
<1> QED
    BY <1>1, <1>4, <1>5, <1>6 DEF OwedBefore

\* Behind the last scan the whole batch is owed.
LEMMA AllOwed ==
    ASSUME WriterInv, pc = "scans", k > Len(Params.scans), k <= Len(Params.scans) + 1
    PROVE  OwedBefore(k) = Owed(batch)
<1> DEFINE D == DOMAIN Params.scans
<1>1. \A m \in D : m < k
    BY ScansInHand DEF WriterInv, PlaceInv
<1>2. ASSUME NEW m \in D, Stored(Params.scans[m])
      PROVE  <<Params.frame_number, Params.scans[m].scan - Params.start_trigger>> \in Owed(batch)
    BY <1>2 DEF Owed, Stored, Params, ToSet
<1>3. ASSUME NEW key \in Owed(batch) PROVE key \in OwedBefore(k)
    <2>1. PICK m \in D : /\ Stored(Params.scans[m])
                         /\ key = <<Params.frame_number, Params.scans[m].scan - Params.start_trigger>>
        BY <1>3 DEF Owed, Stored, Params, ToSet
    <2> QED
        BY <1>1, <2>1 DEF OwedBefore
<1>4. OwedBefore(k) \subseteq Owed(batch)
    BY <1>2 DEF OwedBefore
<1> QED
    BY <1>3, <1>4

\* A step that leaves the batch and its parameters alone leaves what they owe.
LEMMA OwedStays ==
    ASSUME UNCHANGED batch
    PROVE  \A n : OwedBefore(n)' = OwedBefore(n)
BY DEF OwedBefore, Params, Stored

\* An empty file has the rows of no batch.
LEMMA InitKeys == Init => KeysInv /\ UniqueInv
<1> SUFFICES ASSUME Init PROVE KeysInv /\ UniqueInv
    OBVIOUS
<1>1. file = <<>> /\ pending = <<>> /\ written = {} /\ pc = "idle"
    BY DEF Init
<1>2. UNION {Owed(i) : i \in written} = {}
    BY <1>1
<1> QED
    BY <1>1, <1>2, NoKeys DEF KeysInv, FileHasTheirKeys, UniqueInv

\* Every step keeps the rows of the file, and of the open transaction, those of
\* the batches written and of the scans inserted.
LEMMA KeysKeep ==
    ASSUME WriterInv, KeysInv, [Next]_vars
    PROVE  KeysInv'
<1> USE DEF fileVars, historyVars
<1>1. CASE ClientStep \/ UNCHANGED vars
    <2>1. UNCHANGED <<batch, pc, k, pending, file, written>>
        BY <1>1 DEF ClientStep, ClientRead, ClientReserve, ClientCommit, ClientEnd, vars, writerVars
    <2> QED
        BY <2>1, OwedStays DEF KeysInv, FileHasTheirKeys, Keys, Owed, Params
<1>2. CASE Open
    <2>1. pc' = "calibration" /\ k' = 1 /\ UNCHANGED <<file, written>>
        BY <1>2 DEF Open
    <2> QED
        BY <2>1 DEF KeysInv, FileHasTheirKeys, Keys, Owed
<1>3. CASE ReadCalibration \/ ReadCalibrationThrows
    <2>1. pc' = "begin" /\ k' = k /\ pc = "calibration" /\ UNCHANGED <<file, written>>
        BY <1>3 DEF ReadCalibration, ReadCalibrationThrows
    <2> QED
        BY <2>1 DEF KeysInv, FileHasTheirKeys, Keys, Owed
<1>4. CASE Begin
    <2>1. pc' = "scans" /\ pc = "begin" /\ UNCHANGED <<file, written, batch, k, pending>>
        BY <1>4 DEF Begin
    <2>2. k = 1 /\ pending = <<>>
        BY <2>1 DEF KeysInv, WriterInv, RowsInv
    <2>3. 1 <= Len(Params.scans) + 1
        BY <2>1, ScansInHand
    <2>4. Keys(pending) = OwedBefore(k)
        BY <2>1, <2>2, NoKeys, NoneOwedYet
    <2> QED
        BY <2>1, <2>2, <2>3, <2>4, OwedStays DEF KeysInv, FileHasTheirKeys, Keys, Owed, Params
<1>5. CASE Skip \/ Insert
    <2>1. /\ pc = "scans" /\ pc' = "scans" /\ k <= Len(Params.scans) /\ k' = k + 1
          /\ UNCHANGED <<file, written, batch>>
        BY <1>5 DEF Skip, Insert
    <2>2. k + 1 <= Len(Params.scans) + 1
        BY <2>1, ScansInHand DEF WriterInv, PlaceInv
    <2>3. Keys(pending') = OwedBefore(k + 1)
        <3>1. CASE Skip
            BY <2>1, <3>1, OneMoreScan DEF Skip, KeysInv
        <3>2. CASE Insert
            <4>1. pending' = Append(pending, Row(Params.scans[k])) /\ Stored(Params.scans[k])
                BY <3>2 DEF Insert
            <4>2. pending \in Seq(Rows) /\ Row(Params.scans[k]) \in Rows
                <5>1. Params.frame_number \in Nat /\ Params.start_trigger \in Nat
                      /\ Params.scans[k].scan \in Nat
                    BY <2>1, ScansInHand, OneMoreScan, BatchFields DEF Params
                <5>2. Params.scans[k].scan - Params.start_trigger \in Nat
                    BY <4>1, <5>1 DEF Stored
                <5> QED
                    BY <5>1, <5>2 DEF Row, Rows, WriterInv, AxisInv, RowsInv
            <4>3. Keys(pending') = Keys(pending) \cup {Key(Row(Params.scans[k]))}
                BY <4>1, <4>2, KeysOfAppend
            <4> QED
                BY <2>1, <4>1, <4>3, OneMoreScan DEF KeysInv
        <3> QED
            BY <1>5, <3>1, <3>2
    <2> QED
        BY <2>1, <2>2, <2>3, OwedStays DEF KeysInv, FileHasTheirKeys, Keys, Owed, Params
<1>6. CASE End
    <2>1. /\ pc = "scans" /\ pc' = "committed" /\ file' = file \o pending
          /\ written' = written \cup {batch} /\ k > Len(Params.scans)
        BY <1>6 DEF End
    <2>2. Keys(pending) = Owed(batch)
        BY <2>1, AllOwed DEF KeysInv
    <2>3. Keys(file') = Keys(file) \cup Keys(pending)
        BY <2>1, KeysOfConcat DEF WriterInv, RowsInv
    <2>4. Keys(file') = UNION {Owed(i) : i \in written'}
        BY <2>1, <2>2, <2>3 DEF KeysInv, FileHasTheirKeys
    <2>5. FileHasTheirKeys'
        BY <2>4 DEF FileHasTheirKeys, Keys, Owed
    <2> QED
        BY <2>1, <2>5 DEF KeysInv
<1>7. CASE Return \/ OpenThrows \/ BeginThrows \/ InsertThrows \/ EndThrows \/ PragmaThrows \/ Crash
    <2>1. pc' \in {"idle", "dead"} /\ UNCHANGED <<file, written>>
        BY <1>7 DEF Return, OpenThrows, BeginThrows, InsertThrows, EndThrows, PragmaThrows,
            Throws, Close, Crash
    <2> QED
        BY <2>1 DEF KeysInv, FileHasTheirKeys, Keys, Owed
<1> QED
    BY <1>1, <1>2, <1>3, <1>4, <1>5, <1>6, <1>7 DEF Next, WriterStep

\* A row that is inserted, and those that are committed, are of scans that the
\* transaction, and the file, have no rows of.
LEMMA UniqueKeeps ==
    ASSUME DistinctScans, WriterInv, KeysInv, UniqueInv, [Next]_vars
    PROVE  UniqueInv'
<1> USE DEF fileVars, historyVars
<1>1. CASE UNCHANGED <<file, pending>>
    BY <1>1 DEF UniqueInv, Unique, Key
<1>2. CASE UNCHANGED file /\ pending' = <<>>
    BY <1>2, NoKeys DEF UniqueInv, Unique, Key
<1>3. CASE Insert
    <2> DEFINE s == Params.scans[k]
    <2>1. /\ pc = "scans" /\ k <= Len(Params.scans) /\ Stored(s)
          /\ pending' = Append(pending, Row(s)) /\ file' = file
        BY <1>3 DEF Insert
    <2>2. k \in DOMAIN Params.scans /\ batch \in DOMAIN Batches /\ k \in Nat
        BY <2>1, OneMoreScan, ScansInHand DEF WriterInv, PlaceInv
    <2>3. Key(Row(s)) \notin OwedBefore(k)
        <3>1. ASSUME NEW m \in DOMAIN Params.scans, m < k,
                     Params.scans[m].scan - Params.start_trigger
                         = Params.scans[k].scan - Params.start_trigger
              PROVE  FALSE
            <4>1. m = k
                BY <2>2, <3>1 DEF DistinctScans, Params
            <4> QED
                BY <2>2, <3>1, <4>1
        <3>2. Key(Row(s)) = <<Params.frame_number, Params.scans[k].scan - Params.start_trigger>>
            BY DEF Key, Row
        <3> QED
            BY <3>1, <3>2 DEF OwedBefore
    <2>4. pending \in Seq(Rows) /\ Row(s) \in Rows
        <3>1. Params.frame_number \in Nat /\ Params.start_trigger \in Nat /\ s.scan \in Nat
            BY <2>1, <2>2, ScansInHand, BatchFields DEF Params
        <3>2. s.scan - Params.start_trigger \in Nat
            BY <2>1, <3>1 DEF Stored
        <3> QED
            BY <3>1, <3>2 DEF Row, Rows, WriterInv, AxisInv, RowsInv
    <2> HIDE DEF s
    <2>5. Unique(Append(pending, Row(s)))
        BY <2>1, <2>3, <2>4, UniqueAppend DEF KeysInv, UniqueInv
    <2> QED
        BY <2>1, <2>5 DEF UniqueInv, Unique, Key
<1>4. CASE End
    <2>1. /\ pc = "scans" /\ k > Len(Params.scans)
          /\ file' = file \o pending /\ pending' = <<>>
        BY <1>4 DEF End
    <2>2. Keys(pending) = Owed(batch) /\ Keys(file) = UNION {Owed(i) : i \in written}
        BY <2>1, AllOwed DEF KeysInv, FileHasTheirKeys
    <2>3. ASSUME NEW i \in written PROVE Owed(i) \cap Owed(batch) = {}
        <3>1. i \in DOMAIN Batches /\ batch \in DOMAIN Batches /\ i # batch
            BY <2>1, <2>3 DEF WriterInv, PlaceInv
        <3>2. ASSUME NEW key \in Owed(i), key \in Owed(batch) PROVE FALSE
            <4>1. PICK a \in DOMAIN Batches[i].scans :
                      key = <<Batches[i].frame_number, Batches[i].scans[a].scan - Batches[i].start_trigger>>
                BY <3>2 DEF Owed, ToSet
            <4>2. PICK c \in DOMAIN Batches[batch].scans :
                      key = <<Batches[batch].frame_number,
                              Batches[batch].scans[c].scan - Batches[batch].start_trigger>>
                BY <3>2 DEF Owed, ToSet
            <4> QED
                BY <3>1, <4>1, <4>2 DEF DistinctScans
        <3> QED
            BY <3>2
    <2>4. Keys(file) \cap Keys(pending) = {}
        BY <2>2, <2>3
    <2>5. Unique(file \o pending)
        BY <2>4, UniqueConcat DEF UniqueInv, WriterInv, RowsInv
    <2> QED
        BY <2>1, <2>5, NoKeys DEF UniqueInv, Unique, Key
<1> QED
    BY <1>1, <1>2, <1>3, <1>4 DEF Next, WriterStep, ClientStep, ClientRead, ClientReserve,
        ClientCommit, ClientEnd, vars, writerVars, Open, ReadCalibration, ReadCalibrationThrows,
        Begin, Skip, Return, OpenThrows, BeginThrows, InsertThrows, EndThrows, PragmaThrows,
        Throws, Close, Crash

\* The file has the scans of the batches whose transaction was committed and
\* no others: nothing of a batch that failed part of the way.
THEOREM FileHasWhatWasCommitted == Spec => []FileHasTheirKeys
<1>1. WriterInv /\ KeysInv /\ [Next]_vars => KeysInv'
    BY KeysKeep
<1>2. KeysInv => FileHasTheirKeys
    BY DEF KeysInv
<1> QED
    BY InitKeys, <1>1, <1>2, WriterInvariant, PTL DEF Spec

\* And it has each of them once, as the scans of a frame have numbers of their
\* own: no row is inserted again by a later batch (write_scan_data's
\* transaction, closed by on_notify's scope).
THEOREM FileIsWhatWasCommitted == DistinctScans => (Spec => []FileIsWrittenBatches)
<1> SUFFICES ASSUME DistinctScans PROVE Spec => []FileIsWrittenBatches
    OBVIOUS
<1>1. WriterInv /\ KeysInv /\ [Next]_vars => KeysInv'
    BY KeysKeep
<1>2. WriterInv /\ KeysInv /\ UniqueInv /\ [Next]_vars => UniqueInv'
    BY UniqueKeeps
<1>3. WriterInv /\ KeysInv /\ UniqueInv => FileIsWrittenBatches
    BY UniqueCounts DEF WriterInv, RowsInv, KeysInv, FileHasTheirKeys, UniqueInv,
        FileIsWrittenBatches
<1> QED
    BY InitKeys, <1>1, <1>2, <1>3, WriterInvariant, PTL DEF Spec

=============================================================================
