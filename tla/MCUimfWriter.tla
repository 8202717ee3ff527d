---------------------------- MODULE MCUimfWriter ----------------------------
(* Model-checking instance of UimfWriter. *)
EXTENDS UimfWriter

Scan(n, size) == [scan |-> n, size |-> size]
Batch(f, start, scans) == [frame_number |-> f, start_trigger |-> start, scans |-> scans]

\* Two frames in two batches each: an empty scan 0, which has a row, empty
\* scans, which have none, and scans before and at the start trigger.
mcBatches ==
    <<Batch(1, 0, <<Scan(0, 0), Scan(1, 3)>>),
      Batch(1, 0, <<Scan(2, 1), Scan(3, 2)>>),
      Batch(2, 1, <<Scan(0, 2), Scan(1, 3)>>),
      Batch(2, 1, <<Scan(2, 3)>>)>>

ASSUME mcDistinctScans == DistinctScans

=============================================================================
