---------------------------- MODULE MCScanCodec ----------------------------
(* Model-checking instance of ScanCodec: four-bit samples. *)
EXTENDS ScanCodec

Gate(start, samples) == [start |-> start, samples |-> samples]

\* Gates open at -6 or above and may dip to -8, the code that is stored as zero.
Shapes == {<<-6>>, <<7, -8>>, <<-6, 3, 3, -8, 7, 7, 0, -1, -5>>}

OneGate == {<<Gate(s, h)>> : s \in 0..9, h \in Shapes}

TwoGates == {<<Gate(s, h), Gate(s + Len(h) + gap, k)>> :
                s \in {0, 5}, h \in Shapes, gap \in {0, 1, 8}, k \in {<<7, -8>>, <<-6>>}}

\* The last marker of a trigger may be empty.
EmptyLast == {<<Gate(2, <<7, -8>>), Gate(s, <<>>)>> : s \in {8, 13}}

\* Long gates, for a total that does not fit, and the last sample of a record.
Full == {<<Gate(0, [i \in 1..24 |-> 7])>>,
         <<Gate(4, [i \in 1..20 |-> IF i = 1 THEN -6 ELSE -8])>>,
         <<Gate(25, <<-6>>)>>}

Triggers == {<<>>} \cup OneGate \cup TwoGates \cup EmptyLast \cup Full

Second == {<<>>, <<Gate(1, <<7, -8>>)>>, <<Gate(8, <<-6>>), Gate(20, <<0>>)>>}
              \cup EmptyLast \cup Full

mcThreshold == -6
mcBaseline == -8

mcBatches == {<<>>} \cup {<<t>> : t \in Triggers} \cup {<<t, u>> : t \in Second, u \in Second}
                \cup {<<t, u, t>> : t \in EmptyLast, u \in Full}

\* Runs of distinct bytes on both sides of 32 literals, repeats on both sides of
\* the short reference, of the unrolled compare and of the longest reference.
mcWide ==
    {[i \in 1..n |-> 257 * i + 2 * (i % 5)] : n \in 1..20} \cup
    {[i \in 1..n |-> IF i = 1 THEN -20005 ELSE 4660] : n \in 1..10 \cup {64, 65, 66, 67, 68, 69, 70, 71}} \cup
    {[i \in 1..n |-> i % p] : n \in {7, 12}, p \in 2..4}

============================================================================
