------------------------------ MODULE ScanCodec ------------------------------
(***************************************************************************)
(* The way of a batch from the card's memory to the two places it ends in. *)
(* ProcessSubject turns it into scans (ScanEncoder); the ZMQ subscriber    *)
(* checks and sums them and publishes a message (Messages), which a client *)
(* parses; the writer compresses each scan (Lzf) into the blob a reader of *)
(* the file expands.  The card's side and the readers' side are the        *)
(* reference the conversions in between are held against.                  *)
(***************************************************************************)
EXTENDS ScanEncoder, Messages, Lzf

CONSTANTS
    Batches,        \* what the card saw: per trigger, gates of samples
    OffsetBins,     \* the offsets frames ask for
    Lags,           \* elements of baseline the samples stream is behind by
    record_size,    \* samples after the trigger delay
    post_trigger_samples,
    Threshold,      \* the zero-suppress threshold, an ADC code
    Baseline,       \* what is read between the gates
    WideSpectra     \* scans with values of the full width, for the writer only

ASSUME CodecAssumption ==
    /\ record_size \in Nat /\ post_trigger_samples \in Nat
    /\ Threshold \in Int /\ Baseline < Threshold

\* What a sample of the card can be.
Codes == -(2^(HalfBits - 1))..(2^(HalfBits - 1) - 1)

\* The card opens a gate when the one before is closed.
ASSUME BatchesAssumption ==
    /\ \A b \in Batches :
           /\ b \in Seq(Seq([start : Nat, samples : Seq(Codes)]))
           /\ \A t \in DOMAIN b : \A j \in 2..Len(b[t]) :
                  b[t][j].start >= b[t][j - 1].start + Len(b[t][j - 1].samples)
    /\ OffsetBins \subseteq Nat /\ Lags \subseteq Nat
    /\ Baseline \in Codes
    /\ \A s \in WideSpectra : s \in Seq(Int)

\* The card opens a gate at the first sample that reaches the threshold.
ASSUME OpeningAssumption ==
    \A b \in Batches : \A t \in DOMAIN b : \A j \in DOMAIN b[t] :
        b[t][j].samples # <<>> => b[t][j].samples[1] >= Threshold

\* A gate ends within the record.
ASSUME RecordAssumption ==
    \A b \in Batches : \A t \in DOMAIN b : \A j \in DOMAIN b[t] :
        b[t][j].samples # <<>> => b[t][j].start + Len(b[t][j].samples) <= record_size

\* A bin of the sum fits an int32 whatever the samples are.
ASSUME SumAssumption ==
    /\ 2^Bits32 \in Nat /\ 2^Bits64 \in Nat /\ 2^(Bits32 - 1) \in Nat
    /\ 2^Bits32 = 2 * 2^(Bits32 - 1)
    /\ \A b \in Batches : Len(b) * 2^HalfBits < 2^(Bits32 - 1) /\ Len(b) < 2^Bits64

VARIABLES
    batch, offset_bins, lag,
    stage,          \* how far the batch has come
    scans,          \* the frame made of it
    misaligned,     \* gates that open below the threshold, as reported
    live            \* what becomes of the sum, and the message on the wire

codecVars == <<batch, offset_bins, lag, stage, scans, misaligned, live>>

vars == <<codecVars, lzfVars>>

\* AcquiredData of the batch: the markers of all gates, the elements of all
\* gates one after the other, behind the elements of the lag.
Stamps ==
    [t \in DOMAIN batch |->
        [timestamp |-> t,
         gate_data |-> [j \in DOMAIN batch[t] |->
             Marker(batch[t][j].start, Len(batch[t][j].samples))]]]

Joined(parts) ==
    LET after[k \in 0..Len(parts)] ==
            IF k = 0 THEN <<>> ELSE after[k - 1] \o parts[k]
    IN  after[Len(parts)]

SamplesBuffer ==
    Elements(0, [i \in 1..(2 * lag) |-> Baseline], Baseline) \o
    Joined([t \in DOMAIN batch |->
        Joined([j \in DOMAIN batch[t] |->
            Elements(batch[t][j].start, batch[t][j].samples, Baseline)])])

Init ==
    /\ batch \in Batches
    /\ offset_bins \in OffsetBins
    /\ lag \in Lags
    /\ stage = "acquired"
    /\ scans = <<>>
    /\ misaligned = 0
    /\ live = [status |-> "none", wire |-> <<>>]
    /\ LzfIdle

\* to_frame()
ToFrame ==
    /\ stage = "acquired"
    /\ stage' = "framed"
    /\ scans' = process(Stamps, SamplesBuffer, offset_bins, 0)
    /\ UNCHANGED <<batch, offset_bins, lag, misaligned, live, lzfVars>>

\* ZmqAcquiredDataSubscriber::check_alignment
CheckAlignment ==
    /\ stage = "framed"
    /\ stage' = "checked"
    /\ misaligned' = MapThenSumSet(
           LAMBDA t : Cardinality(OpenBelow(scans[t].encoded_spectra,
                                            Threshold + range_shift_constant)),
           DOMAIN scans)
    /\ UNCHANGED <<batch, offset_bins, lag, scans, live, lzfVars>>

\* The message of a summed batch: tic is a uint32 there.
LiveMessage(data) ==
    [value |-> <<data, [t \in DOMAIN scans |-> Cast("uint32", scans[t].tic)],
                 [t \in DOMAIN scans |-> scans[t].timestamp]>>,
     unknown |-> <<>>]

\* ZmqAcquiredDataSubscriber::on_notify: a batch that does not fit is refused.
OnNotify ==
    /\ stage = "checked"
    /\ stage' = "published"
    /\ LET sum == SumBatch(scans, record_size + post_trigger_samples)
       IN  live' = IF sum.refused THEN [live EXCEPT !.status = "refused"]
                   ELSE IF sum.stray THEN [live EXCEPT !.status = "stray"]
                   ELSE [status |-> "published",
                         wire |-> MessageSerialize(LiveMessage(sum.data))]
    /\ UNCHANGED <<batch, offset_bins, lag, scans, misaligned, lzfVars>>

\* The four bytes of each value, the lowest first.
Bytes(spectra) ==
    [k \in 1..(4 * Len(spectra)) |->
        (spectra[(k - 1) \div 4 + 1] \div 256^((k - 1) % 4)) % 256]

\* EncodedResult::get_compressed_spectra: a buffer twice the size of the input.
get_compressed_spectra(spectra) ==
    /\ stage = "framed"
    /\ stage' = "compressing"
    /\ Call(Bytes(spectra), 8 * Len(spectra))
    /\ UNCHANGED <<batch, offset_bins, lag, scans, misaligned, live>>

CompressStep == Compress /\ UNCHANGED codecVars

Next ==
    \/ ToFrame
    \/ CheckAlignment
    \/ OnNotify
    \/ \E t \in DOMAIN scans : get_compressed_spectra(scans[t].encoded_spectra)
    \/ batch = <<>> /\ \E s \in WideSpectra : get_compressed_spectra(s)
    \/ CompressStep

Spec == Init /\ [][Next]_vars

-----------------------------------------------------------------------------
(* The reference: what the card saw, and what the readers of a scan see *)

\* The bins of trigger t and their values.
Seen(t) ==
    UNION {{<<offset_bins + batch[t][j].start + k - 1,
              batch[t][j].samples[k] + range_shift_constant>> :
                k \in DOMAIN batch[t][j].samples} : j \in DOMAIN batch[t]}

\* One entry of a scan.  A reader may skip a stored zero that follows the run
\* length of 2^(HalfBits - 1).
ReadEntry(acc, v, skipsZero) ==
    IF v < 0 THEN [acc EXCEPT !.bin = @ - v, !.last = v]
    ELSE IF skipsZero /\ v = 0 /\ acc.last = -(2^(HalfBits - 1)) THEN
        [acc EXCEPT !.last = 0]
    ELSE [bin |-> acc.bin + 1, last |-> 0, read |-> acc.read \cup {<<acc.bin, v>>}]

ReadTo(spectra, skipsZero) ==
    LET after[k \in 0..Len(spectra)] ==
            IF k = 0 THEN [bin |-> 0, last |-> 0, read |-> {}]
            ELSE ReadEntry(after[k - 1], spectra[k], skipsZero)
    IN  after[Len(spectra)]

\* Bins and values of an encoded scan.
ReadWith(spectra, skipsZero) == ReadTo(spectra, skipsZero).read

\* No gate of the trigger comes after an empty one.
Ordinary(t) ==
    \A j \in DOMAIN batch[t] :
        batch[t][j].samples = <<>> => j = Len(batch[t])

TotalOf(S) == MapThenSumSet(LAMBDA b : b[2], S)

-----------------------------------------------------------------------------
(* Properties *)

\* Decoding a scan gives back every sample the card saw, at its bin and with its
\* value: block arithmetic, packing, padding of gates, the offset over triggers
\* and gates and the run lengths (uimfacquisitionrecord.cpp:44) undo each other.
ScanIsWhatWasSeen ==
    stage # "acquired" /\ lag = 0 =>
        \A t \in DOMAIN batch :
            Ordinary(t) => ReadWith(scans[t].encoded_spectra, FALSE) = Seen(t)

\* A reader that drops a zero after a run of 32768 reads the same scan as one
\* that does not: what uimfacquisitionrecord.cpp:69 promises.
ReadersAgree ==
    \A t \in DOMAIN scans :
        LET s == scans[t].encoded_spectra IN ReadWith(s, TRUE) = ReadWith(s, FALSE)

\* The columns of a scan agree with its samples: their number and total, the
\* highest value, and as its place the first bin that has it.
ColumnsMatchSamples ==
    stage # "acquired" /\ lag = 0 =>
        \A t \in DOMAIN batch : Ordinary(t) =>
            LET S == Seen(t)
                peak == Max({0} \cup {b[2] : b \in S})
            IN  /\ scans[t].non_zero_count = Cardinality(S)
                /\ scans[t].tic = TotalOf(S)
                /\ scans[t].bpi = peak
                /\ scans[t].index_max_intensity =
                       IF peak = 0 THEN 0 ELSE Min({b[1] : b \in {x \in S : x[2] = peak}})

\* With an offset that the vector was sized for, a batch is never refused, and
\* the client reads its exact sum, the totals as far as 32 bits hold them, and
\* the time stamps.
LiveIsTheSum ==
    stage = "published" /\ lag = 0 /\ offset_bins <= post_trigger_samples
      /\ (\A t \in DOMAIN batch : Ordinary(t)) =>
        /\ live.status = "published"
        /\ LET got == MessageParse(live.wire).message.value
           IN  /\ got[1] = [i \in 1..(record_size + post_trigger_samples) |->
                       MapThenSumSet(LAMBDA t : TotalOf({b \in Seen(t) : b[1] = i - 1}),
                                     DOMAIN batch)]
               /\ got[2] = [t \in DOMAIN batch |-> TotalOf(Seen(t)) % 2^Bits32]
               /\ got[3] = [t \in DOMAIN batch |-> t]

\* The check of the ZMQ subscriber tells streams in step from streams that are
\* not, for gates that open at the threshold or above.
MisalignmentIsNoticed ==
    stage = "checked" =>
        (misaligned > 0 <=> lag > 0 /\ \E t \in DOMAIN scans :
                                scans[t].encoded_spectra # <<>>)

\* At every step of the compressor the bytes written so far expand to the bytes
\* read so far, what it returns to the whole scan; and a buffer of twice the size
\* is enough for every scan that is not empty, with room for the zero that is
\* written after the last byte (lzf_compress's three checks of its room, called
\* from get_compressed_spectra).
BlobIsTheScan ==
    /\ lzf \in {"running", "done"} =>
           LET read == Decompress(StopRun(out, run), in_len)
           IN  read.ok /\ read.data = SubSeq(in, 1, ip)
    /\ lzf = "refused" => in = <<>>
    /\ lzf # "idle" /\ in # <<>> => Len(out) < out_len

=============================================================================
