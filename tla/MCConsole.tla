----------------------------- MODULE MCConsole ------------------------------
(* Model-checking instance of Console. *)
EXTENDS Console

File(lines) == [exists |-> TRUE, lines |-> lines]
Line(key, value) == <<Word(key), value>>

\* No file, and files that are served with and refused: comments, an empty line,
\* a line with two signs, keys set twice, words for numbers, and every limit.
mcConfigFiles ==
    {[exists |-> FALSE, lines |-> <<>>],
     File(<<<<>>, <<Word("#"), Number(1)>>, <<Word("FullScaleRange")>>,
            Line("FullScaleRange", Number(25)), Line("FullScaleRange", Number(5)),
            Line("TriggerSlope", Word("falling")), Line("MarkerDiagnostics", Number(1))>>),
     File(<<Line("ZeroSuppressThreshold", Number(-32768)), Line("ControlIoPort", Number(3)),
            Line("ZeroSuppressHysteresis", Number(1023)), Line("TriggerSlope", Word("rising"))>>)}
    \cup {File(<<Line(bad[1], bad[2])>>) : bad \in
            {<<"PassedOn", Word("high")>>, <<"MarkerDiagnostics", Number(2)>>,
             <<"ZeroSuppressThreshold", Number(-32769)>>, <<"ZeroSuppressThreshold", Number(32768)>>,
             <<"ZeroSuppressHysteresis", Number(99)>>, <<"ZeroSuppressHysteresis", Number(1024)>>,
             <<"FullScaleRange", Number(10)>>, <<"ControlIoPort", Number(0)>>,
             <<"ControlIoPort", Number(4)>>, <<"TriggerSlope", Word("up")>>}}

\* A request with a default among its values.
mcRequests ==
    {[start_trigger |-> 0, nbr_samples |-> 7, nbr_accumulations |-> 2, frame_length |-> 9,
      frame_number |-> 3, offset_bins |-> 4, file_name |-> "f.uimf"]}

=============================================================================
