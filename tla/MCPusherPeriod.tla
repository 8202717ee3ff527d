--------------------------- MODULE MCPusherPeriod ---------------------------
(* Model-checking instance of PusherPeriod. *)
EXTENDS PusherPeriod

\* Leftover markers: 0 is a gate, k the k-th trigger after a time.  The clock of
\* the card wraps soon after 244.
mcLeftovers ==
    {[from |-> f, markers |-> m] :
        f \in {0, 244},
        m \in {<<>>, <<1, 2>>, <<0, 1, 0, 0, 2>>, [i \in 1..18 |-> IF i < 17 THEN 0 ELSE i - 16]}}

=============================================================================
