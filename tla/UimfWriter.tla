----------------------------- MODULE UimfWriter -----------------------------
(***************************************************************************)
(* The end of the chain that stores scans: UimfFrameWriterSubscriber's     *)
(* on_notify opens the UIMF file anew for every batch, and UimfWriter      *)
(* writes the batch in one transaction (UIMFWriter.cpp).                   *)
(*                                                                         *)
(* The file is an SQLite database that the client, another process, has    *)
(* made and goes on using: it writes the parameters of a frame before it   *)
(* asks for the frame, while batches of earlier frames are still being     *)
(* written.  The locks are those of SQLite's rollback journal, without a   *)
(* busy timeout: a statement that cannot have its lock throws.             *)
(***************************************************************************)
EXTENDS Integers, Sequences, FiniteSets, SequencesExt

CONSTANTS
    Batches,        \* the batches the chain hands over, in their order
    Axes,           \* the calibrations the client may state for a frame
    BinAxis,        \* no calibration: rows hold bin indices
    MaxFaults       \* bound: statements that throw without a lock's being the cause

\* A batch has the parameters of its frame and scans with a number and the
\* size of their encoded spectra.
ASSUME BatchesAssumption ==
    Batches \in Seq([frame_number : Nat, start_trigger : Nat,
                     scans : Seq([scan : Nat, size : Nat])])

ASSUME MaxFaultsAssumption == MaxFaults \in Nat

VARIABLES
    batch,          \* the batch in hand, or the next one
    pc,             \* where on_notify is
    k,              \* the scan write_scan_data is at
    calibration,    \* the writer's calibration, as the axis of the rows
    calibration_read,
    pending,        \* the rows of the open transaction
    lock,           \* the lock of the writer's connection
    file,           \* external: the rows committed to Frame_Scans
    client,         \* external: the lock of the client's connection
    params,         \* external: the calibrations in Frame_Params
    faults,         \* statements that have thrown without a lock's being the cause
    written,        \* history: the batches whose transaction was committed
    misread         \* history: the batches whose calibration could not be read

writerVars == <<batch, pc, k, calibration, calibration_read, pending, lock>>
fileVars == <<file, client, params>>
historyVars == <<written, misread>>
vars == <<writerVars, fileVars, faults, historyVars>>

Frames == {Batches[i].frame_number : i \in DOMAIN Batches}

\* The parameters of the batch in hand.
Params == Batches[batch]

Init ==
    /\ batch = 1
    /\ pc = "idle"
    /\ k = 1
    /\ calibration = BinAxis
    /\ calibration_read = FALSE
    /\ pending = <<>>
    /\ lock = "none"
    /\ file = <<>>
    /\ client = "none"
    /\ params = [f \in Frames |-> "unstated"]
    /\ faults = 0
    /\ written = {}
    /\ misread = {}

-----------------------------------------------------------------------------
(* The client's connection *)

\* The client asks for a frame after it has written the frame's parameters.
Asked(f) == params[f] # "unstated"

\* A reader takes its lock unless the writer is committing, which is one step.
ClientRead ==
    /\ client = "none"
    /\ client' = "shared"
    /\ UNCHANGED <<writerVars, file, params, faults, historyVars>>

\* Only one connection may mean to write.
ClientReserve ==
    /\ client \in {"none", "shared"}
    /\ lock # "reserved"
    /\ client' = "exclusive"
    /\ UNCHANGED <<writerVars, file, params, faults, historyVars>>

\* The parameters of the next frame, or anything else, are committed.
ClientCommit ==
    /\ client = "exclusive"
    /\ client' = "none"
    /\ \/ UNCHANGED params
       \/ \E f \in Frames, axis \in Axes \cup {BinAxis} :
              /\ ~Asked(f)
              /\ \A g \in Frames : g < f => Asked(g)
              /\ params' = [params EXCEPT ![f] = axis]
    /\ UNCHANGED <<writerVars, file, faults, historyVars>>

ClientEnd ==
    /\ client = "shared"
    /\ client' = "none"
    /\ UNCHANGED <<writerVars, file, params, faults, historyVars>>

ClientStep == ClientRead \/ ClientReserve \/ ClientCommit \/ ClientEnd

-----------------------------------------------------------------------------
(* UimfFrameWriterSubscriber::on_notify *)

\* Mutant of Open: the writer of the last batch is used again.
OpenKeepsWriter ==
    /\ pc = "idle" /\ batch <= Len(Batches)
    /\ Asked(Params.frame_number)
    /\ pc' = "calibration"
    /\ k' = 1
    /\ UNCHANGED <<batch, calibration, calibration_read, pending, lock, fileVars,
                   faults, historyVars>>

\* A new UimfWriter opens the file the frame names.
Open ==
    /\ pc = "idle" /\ batch <= Len(Batches)
    /\ Asked(Params.frame_number)
    /\ pc' = "calibration"
    /\ k' = 1
    /\ calibration_read' = FALSE
    /\ calibration' = BinAxis
    /\ UNCHANGED <<batch, pending, lock, fileVars, faults, historyVars>>

\* Mutant of Close: the connection is kept, with what it had begun.
CloseKeepsLock ==
    /\ pc' = "idle"
    /\ batch' = batch + 1
    /\ UNCHANGED <<pending, lock>>

\* The end of the writer's scope, on return or by an exception, closes the
\* file: what is not committed is rolled back and the lock is released.
Close ==
    /\ pc' = "idle"
    /\ batch' = batch + 1
    /\ pending' = <<>>
    /\ lock' = "none"

\* Mutant of Throws: a statement that lacks its lock is waiting, not throwing.
ThrowsUnlessBusy(lacksLock) ==
    /\ ~lacksLock /\ faults < MaxFaults
    /\ faults' = faults + 1
    /\ Close
    /\ UNCHANGED <<k, calibration, calibration_read, fileVars, historyVars>>

\* A statement throws, for want of a lock or for another reason, as when the
\* file is gone or the disk is full: both handlers log and the batch is given up.
Throws(lacksLock) ==
    /\ lacksLock \/ faults < MaxFaults
    /\ faults' = IF lacksLock THEN faults ELSE faults + 1
    /\ Close
    /\ UNCHANGED <<k, calibration, calibration_read, fileVars, historyVars>>

-----------------------------------------------------------------------------
(* UimfWriter::write_scan_data *)

\* The lock a statement needs is not to be had.
CannotRead == client = "exclusive"
CannotReserve == client = "exclusive"
CannotCommit == lock = "reserved" /\ client # "none"

\* The rows of axis a: m/z needs a slope and a bin width above zero, which is
\* what being stated as an axis stands for.
AxisOf(f) == IF params[f] \in Axes THEN params[f] ELSE BinAxis

\* calibration_for(): read on the writer's first batch ...
ReadCalibration ==
    /\ pc = "calibration"
    /\ pc' = "begin"
    /\ calibration_read' = TRUE
    /\ IF calibration_read THEN UNCHANGED calibration
       ELSE /\ ~CannotRead
            /\ calibration' = AxisOf(Params.frame_number)
    /\ UNCHANGED <<batch, k, pending, lock, fileVars, faults, historyVars>>

\* ... or not, which does not keep the scans from being written.
ReadCalibrationThrows ==
    /\ pc = "calibration" /\ ~calibration_read
    /\ CannotRead \/ faults < MaxFaults
    /\ faults' = IF CannotRead THEN faults ELSE faults + 1
    /\ pc' = "begin"
    /\ calibration_read' = TRUE
    /\ calibration' = BinAxis
    /\ misread' = misread \cup {batch}
    /\ UNCHANGED <<batch, k, pending, lock, fileVars, written>>

\* BEGIN TRANSACTION takes no lock yet.
Begin ==
    /\ pc = "begin"
    /\ pc' = "scans"
    /\ UNCHANGED <<batch, k, calibration, calibration_read, pending, lock, fileVars,
                   faults, historyVars>>

\* Scans before the start trigger, and empty ones but for scan 0, have no row.
Stored(s) == s.scan >= Params.start_trigger /\ (s.size > 1 \/ s.scan = 0)

Row(s) == [FrameNum |-> Params.frame_number,
           ScanNum |-> s.scan - Params.start_trigger,
           axis |-> calibration]

Skip ==
    /\ pc = "scans" /\ k <= Len(Params.scans)
    /\ ~Stored(Params.scans[k])
    /\ k' = k + 1
    /\ UNCHANGED <<batch, pc, calibration, calibration_read, pending, lock, fileVars,
                   faults, historyVars>>

\* Mutant of Insert: without a transaction every row is committed by itself.
InsertAutocommit ==
    /\ pc = "scans" /\ k <= Len(Params.scans)
    /\ Stored(Params.scans[k])
    /\ client = "none"
    /\ file' = Append(file, Row(Params.scans[k]))
    /\ k' = k + 1
    /\ UNCHANGED <<batch, pc, calibration, calibration_read, pending, lock, client,
                   params, faults, historyVars>>

\* The first row takes the lock that keeps other writers out.
Insert ==
    /\ pc = "scans" /\ k <= Len(Params.scans)
    /\ Stored(Params.scans[k])
    /\ ~CannotReserve
    /\ lock' = "reserved"
    /\ pending' = Append(pending, Row(Params.scans[k]))
    /\ k' = k + 1
    /\ UNCHANGED <<batch, pc, calibration, calibration_read, fileVars, faults,
                   historyVars>>

\* END TRANSACTION, which readers of the file can keep from happening.
End ==
    /\ pc = "scans" /\ k > Len(Params.scans)
    /\ ~CannotCommit
    /\ file' = file \o pending
    /\ pending' = <<>>
    /\ lock' = "none"
    /\ written' = written \cup {batch}
    /\ pc' = "committed"
    /\ UNCHANGED <<batch, k, calibration, calibration_read, client, params, faults,
                   misread>>

\* on_notify returns.
Return ==
    /\ pc = "committed"
    /\ Close
    /\ UNCHANGED <<k, calibration, calibration_read, fileVars, faults, historyVars>>

\* Where a statement can throw; the PRAGMA after the commit can as well, and
\* the batch that is logged as failed then is in the file.
OpenThrows == pc = "idle" /\ batch <= Len(Batches) /\ Asked(Params.frame_number) /\ Throws(FALSE)
BeginThrows == pc = "begin" /\ Throws(FALSE)
InsertThrows ==
    /\ pc = "scans" /\ k <= Len(Params.scans)
    /\ Stored(Params.scans[k])
    /\ Throws(CannotReserve)
EndThrows == pc = "scans" /\ k > Len(Params.scans) /\ Throws(CannotCommit)
PragmaThrows == pc = "committed" /\ Throws(FALSE)

WriterStep ==
    \/ Open
    \/ ReadCalibration
    \/ ReadCalibrationThrows
    \/ Begin
    \/ Skip
    \/ Insert
    \/ End
    \/ Return
    \/ OpenThrows
    \/ BeginThrows
    \/ InsertThrows
    \/ EndThrows
    \/ PragmaThrows

\* The console's process dies: its connection's journal is rolled back by the
\* next to open the file, and the batches that were queued are gone.
Crash ==
    /\ pc \in {"calibration", "begin", "scans", "committed"}
    /\ pc' = "dead"
    /\ pending' = <<>>
    /\ lock' = "none"
    /\ UNCHANGED <<batch, k, calibration, calibration_read, fileVars, faults,
                   historyVars>>

Next == ClientStep \/ WriterStep \/ Crash

\* The subscriber's thread keeps running.  The client owes the console nothing.
Fairness == WF_vars(WriterStep)

Spec == Init /\ [][Next]_vars /\ Fairness

-----------------------------------------------------------------------------
(* Properties *)

\* The scans of batch i that belong in the file, by frame and number from the
\* start trigger.
Owed(i) ==
    LET b == Batches[i]
        due == {s \in ToSet(b.scans) : s.scan >= b.start_trigger /\ (s.size > 1 \/ s.scan = 0)}
    IN  {<<b.frame_number, s.scan - b.start_trigger>> : s \in due}

Keys(rows) == {<<r.FrameNum, r.ScanNum>> : r \in ToSet(rows)}

\* The file holds the rows of the batches that were committed, every one of
\* them once and none of a batch that failed part of the way, whatever
\* statement threw, whoever held a lock and wherever the process died
\* (write_scan_data's transaction, closed by on_notify's scope).
FileIsWrittenBatches ==
    /\ Keys(file) = UNION {Owed(i) : i \in written}
    /\ Len(file) = Cardinality(Keys(file))

\* The rows of a frame are on the mass axis the client stated for that frame,
\* and those of a batch whose calibration could not be read are bin indices:
\* never the calibration of another frame, never two axes in one batch
\* (calibration_for, read once per writer).
RowsOnStatedAxis ==
    \A r \in ToSet(file) : \E i \in written :
        /\ <<r.FrameNum, r.ScanNum>> \in Owed(i)
        /\ r.axis = IF i \in misread THEN BinAxis ELSE AxisOf(r.FrameNum)

\* Between two batches the console holds nothing on the file, also after one
\* that failed: the client can write the parameters of the next frame.
NothingHeldBetweenBatches == pc \in {"idle", "dead"} => lock = "none" /\ pending = <<>>

\* A batch that was begun is done with, whatever lock the client holds and
\* for however long: the chain, and the "stop acquire" that waits for it, do
\* not depend on the client's transactions (SQLite::Database opened without a
\* busy timeout, and the handlers of on_notify).
WriterNeverWaits == (pc # "idle") ~> (pc \in {"idle", "dead"})

\* Why the rows are on their axis: parameters are stated once and before the
\* frame is asked for, every batch reads them with a writer of its own, and what
\* a batch has not committed is rows of that batch on the axis it has read.
Rows == [FrameNum : Nat, ScanNum : Nat, axis : Axes \cup {BinAxis}]

PlaceInv ==
    /\ pc \in {"idle", "calibration", "begin", "scans", "committed", "dead"}
    /\ batch \in Nat \ {0} /\ k \in Nat \ {0}
    /\ pc \in {"calibration", "begin", "scans", "committed"} =>
           batch \in DOMAIN Batches /\ Asked(Params.frame_number)
    /\ written \subseteq 1..batch /\ misread \subseteq 1..batch
    /\ written \subseteq DOMAIN Batches
    /\ pc \in {"idle", "calibration", "begin", "scans"} => batch \notin written
    /\ pc \in {"idle", "calibration"} => batch \notin misread
    /\ \A i \in written : Asked(Batches[i].frame_number)

AxisInv ==
    /\ params \in [Frames -> Axes \cup {BinAxis, "unstated"}]
    /\ calibration \in Axes \cup {BinAxis}
    /\ pc = "calibration" => ~calibration_read
    /\ pc \in {"begin", "scans"} =>
           calibration = IF batch \in misread THEN BinAxis ELSE AxisOf(Params.frame_number)

RowsInv ==
    /\ pending \in Seq(Rows) /\ file \in Seq(Rows)
    /\ pc # "scans" => pending = <<>> /\ lock = "none"
    /\ \A r \in ToSet(pending) :
           <<r.FrameNum, r.ScanNum>> \in Owed(batch) /\ r.axis = calibration
           /\ r.FrameNum = Params.frame_number

WriterInv == PlaceInv /\ AxisInv /\ RowsInv /\ RowsOnStatedAxis

\* Why the file holds what was written: an open transaction has the rows of the
\* scans write_scan_data has passed.
OwedBefore(n) ==
    {<<Params.frame_number, Params.scans[j].scan - Params.start_trigger>> :
        j \in {m \in DOMAIN Params.scans : m < n /\ Stored(Params.scans[m])}}

FileHasTheirKeys == Keys(file) = UNION {Owed(i) : i \in written}

KeysInv ==
    /\ FileHasTheirKeys
    /\ pc \in {"calibration", "begin"} => k = 1
    /\ pc = "scans" => k <= Len(Params.scans) + 1 /\ Keys(pending) = OwedBefore(k)

Key(r) == <<r.FrameNum, r.ScanNum>>

Unique(rows) == \A a, c \in DOMAIN rows : Key(rows[a]) = Key(rows[c]) => a = c

UniqueInv == Unique(file) /\ Unique(pending)

\* A scan of a frame has a number of its own, in whatever batch it comes: the
\* records of a frame go on counting from start_scan_index, and the client asks
\* for every frame number once in a file.
DistinctScans ==
    \A i, j \in DOMAIN Batches :
        \A a \in DOMAIN Batches[i].scans, c \in DOMAIN Batches[j].scans :
            /\ Batches[i].frame_number = Batches[j].frame_number
            /\ Batches[i].scans[a].scan - Batches[i].start_trigger
                   = Batches[j].scans[c].scan - Batches[j].start_trigger
            => i = j /\ a = c

=============================================================================
