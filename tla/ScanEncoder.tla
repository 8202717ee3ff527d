----------------------------- MODULE ScanEncoder -----------------------------
(***************************************************************************)
(* From the gates of the card to a scan: UimfAcquisitionRecord::process(), *)
(* the gate arithmetic of GateData, and what the ZMQ subscriber does with  *)
(* the scans of a batch.                                                   *)
(*                                                                         *)
(* A sample is HalfBits wide (16 in the code), two to an element; scaled   *)
(* down, the run length that must not be written is a small number.        *)
(***************************************************************************)
EXTENDS Integers, Sequences, SequencesExt

CONSTANT HalfBits

ASSUME WidthAssumption == HalfBits \in Nat /\ HalfBits > 1

\* What the proofs need to know of powers of two.
ASSUME PowersAssumption ==
    /\ 2^(HalfBits - 1) \in Nat /\ 2^(HalfBits - 1) > 1
    /\ 2^HalfBits = 2 * 2^(HalfBits - 1)

processing_block_size == 8
range_shift_constant == 2^(HalfBits - 1)

-----------------------------------------------------------------------------
(* The card: a gate that holds the given samples from sample index on *)

\* A gate is marked by blocks of eight samples, counted from one, and the
\* position in the block; the stop block is the one after the last sample's.
Marker(start, n) ==
    [gate_start_block_index |-> start \div 8 + 1,
     gate_start_sample_pos |-> start % 8,
     gate_stop_block_index |-> (start + n - 1) \div 8 + 2,
     gate_stop_sample_pos |-> ((start + n - 1) % 8) + 1]

\* Whole blocks, rounded up to sixteen elements.
ElementCount(g) ==
    LET f == (g.gate_stop_block_index - g.gate_start_block_index) * 4
    IN  IF f % 16 # 0 THEN (f \div 16 + 1) * 16 ELSE f

\* The elements of a gate: samples out of it read as the filler.
Elements(start, samples, filler) ==
    LET g == Marker(start, Len(samples))
        half(i) == LET k == i - g.gate_start_sample_pos + 1
                   IN  IF k \in DOMAIN samples THEN samples[k] ELSE filler
    IN  [e \in 1..ElementCount(g) |->
            half(2 * e - 1) * 2^HalfBits + (half(2 * e - 2) % 2^HalfBits)]

-----------------------------------------------------------------------------
(* AcquiredData::GateData *)

get_start_sample_index(g) ==
    (g.gate_start_block_index - 1) * processing_block_size + g.gate_start_sample_pos

get_stop_sample_index(g) ==
    (g.gate_stop_block_index - 1) * processing_block_size
        - (processing_block_size - g.gate_stop_sample_pos)

-----------------------------------------------------------------------------
(* UimfAcquisitionRecord::process *)

\* Half i of the elements, sign extended, brought into the unsigned range.
Sample(elements, offset, i) ==
    LET w == elements[offset + (i \div 2) + 1]
        low == w % 2^HalfBits
    IN  (IF i % 2 = 1 THEN w \div 2^HalfBits
         ELSE IF low >= 2^(HalfBits - 1) THEN low - 2^HalfBits
         ELSE low) + range_shift_constant

\* Mutant of Skip: the gap is written as it is.
SkipPlain(gap) == IF gap > 0 THEN <<-gap>> ELSE <<>>

\* A gap is one negative run length, but never this one, which some readers take
\* for something else.
Skip(gap) ==
    IF gap = 2^(HalfBits - 1) THEN <<-(gap - 1), -1>>
    ELSE IF gap > 0 THEN <<-gap>>
    ELSE <<>>

\* Mutant of GateGap: counted from the start of the gate before.
GateGapFromStart(gates, j, offset_bins) ==
    IF j = 1 THEN get_start_sample_index(gates[1]) + offset_bins
    ELSE get_start_sample_index(gates[j]) - get_start_sample_index(gates[j - 1])

\* The zeros before gate j: from the trigger, or from the end of the gate before.
GateGap(gates, j, offset_bins) ==
    IF j = 1 THEN get_start_sample_index(gates[1]) + offset_bins
    ELSE get_start_sample_index(gates[j]) - get_stop_sample_index(gates[j - 1])

\* Mutant of AddSample: the last of equal peaks is kept.
AddSampleLast(acc, val) ==
    [acc EXCEPT
        !.bpi = IF val >= @ THEN val ELSE @,
        !.index_max_intensity =
            IF val >= acc.bpi THEN acc.non_zero_count + acc.zero_count ELSE @,
        !.encoded_spectra = Append(@, val),
        !.non_zero_count = @ + 1,
        !.tic = @ + val]

\* One sample: base peak, total and the stored value.
AddSample(acc, val) ==
    [acc EXCEPT
        !.bpi = IF val > @ THEN val ELSE @,
        !.index_max_intensity =
            IF val > acc.bpi THEN acc.non_zero_count + acc.zero_count ELSE @,
        !.encoded_spectra = Append(@, val),
        !.non_zero_count = @ + 1,
        !.tic = @ + val]

\* The samples of a gate, one after the other.
AddSamples(acc, vals) ==
    LET after[k \in 0..Len(vals)] ==
            IF k = 0 THEN acc ELSE AddSample(after[k - 1], vals[k])
    IN  after[Len(vals)]

\* One gate: an empty one only moves the offset into the elements on.
AddGate(acc, gates, j, elements, offset_bins) ==
    LET g == gates[j]
        samples == get_stop_sample_index(g) - get_start_sample_index(g)
        gap == GateGap(gates, j, offset_bins)
        first == g.gate_start_sample_pos
        vals == [k \in 1..samples |-> Sample(elements, acc.offset, first + k - 1)]
        skipped == [acc EXCEPT !.encoded_spectra = @ \o Skip(gap),
                               !.zero_count = @ + gap]
    IN  IF samples <= 0 THEN [acc EXCEPT !.offset = @ + ElementCount(g)]
        ELSE [AddSamples(skipped, vals) EXCEPT !.offset = @ + ElementCount(g)]

\* One trigger, from where the one before left the offset.
EncodeTrigger(offset, gates, elements, offset_bins) ==
    LET after[j \in 0..Len(gates)] ==
            IF j = 0 THEN
                [encoded_spectra |-> <<>>, tic |-> 0, bpi |-> 0, index_max_intensity |-> 0,
                 non_zero_count |-> 0, zero_count |-> 0, offset |-> offset]
            ELSE AddGate(after[j - 1], gates, j, elements, offset_bins)
    IN  after[Len(gates)]

\* The scan of one trigger, behind those there are.
AddScan(scans, stamp, scan, elements, offset_bins) ==
    LET offset == IF scans = <<>> THEN 0 ELSE scans[Len(scans)].offset
        acc == EncodeTrigger(offset, stamp.gate_data, elements, offset_bins)
    IN  Append(scans,
               [timestamp |-> stamp.timestamp, scan |-> scan,
                encoded_spectra |-> acc.encoded_spectra, tic |-> acc.tic, bpi |-> acc.bpi,
                index_max_intensity |-> acc.index_max_intensity,
                non_zero_count |-> acc.non_zero_count, offset |-> acc.offset])

\* The scans of a batch, in the order of its triggers.
process(stamps, elements, offset_bins, start_scan_index) ==
    LET after[t \in 0..Len(stamps)] ==
            IF t = 0 THEN <<>>
            ELSE AddScan(after[t - 1], stamps[t], start_scan_index + t - 1, elements, offset_bins)
    IN  after[Len(stamps)]

-----------------------------------------------------------------------------
(* ZmqAcquiredDataSubscriber *)

\* Mutant of OpenBelow: every stored value is looked at.
OpenBelowAny(spectra, first_sample_floor) ==
    {i \in DOMAIN spectra : spectra[i] >= 0 /\ spectra[i] < first_sample_floor}

\* check_alignment: how many gates open below the threshold.
OpenBelow(spectra, first_sample_floor) ==
    {i \in DOMAIN spectra :
        /\ spectra[i] >= 0
        /\ i = 1 \/ spectra[i - 1] < 0
        /\ spectra[i] < first_sample_floor}

\* val added at an index of the vector, which begins at 0.
AddAt(data, index, val) == [data EXCEPT ![index + 1] = @ + val]

\* Mutant of AddEntry: the last bin of the vector is out of range.
AddEntryStrict(acc, val) ==
    IF acc.refused THEN acc
    ELSE IF val < 0 THEN
        [acc EXCEPT !.index = @ - val, !.refused = acc.index - val >= acc.size - 1]
    ELSE [acc EXCEPT !.index = @ + 1,
                     !.data = IF acc.index >= acc.size THEN @
                              ELSE AddAt(acc.data, acc.index, val)]

\* One entry of a scan.  The range is looked at after a skip and not after a
\* value: a value past the end is written out of the vector.
AddEntry(acc, val) ==
    IF acc.refused THEN acc
    ELSE IF val < 0 THEN
        [acc EXCEPT !.index = @ - val,
                    !.refused = acc.index - val >= acc.size]
    ELSE [acc EXCEPT !.index = @ + 1,
                     !.stray = @ \/ acc.index >= acc.size,
                     !.data = IF acc.index >= acc.size THEN @
                              ELSE AddAt(acc.data, acc.index, val)]

\* The entries of a scan, from the first bin on.
SumScan(acc, spectra) ==
    LET after[k \in 0..Len(spectra)] ==
            IF k = 0 THEN [acc EXCEPT !.index = 0] ELSE AddEntry(after[k - 1], spectra[k])
    IN  after[Len(spectra)]

\* The sum of a batch over a cleared vector of that size.
SumBatch(scans, size) ==
    LET after[t \in 0..Len(scans)] ==
            IF t = 0 THEN [index |-> 0, size |-> size, data |-> [i \in 1..size |-> 0],
                           refused |-> FALSE, stray |-> FALSE]
            ELSE SumScan(after[t - 1], scans[t].encoded_spectra)
    IN  after[Len(scans)]

=============================================================================
