------------------------ MODULE MCAcquirePublisher -------------------------
(* Model-checking instance of AcquirePublisher. *)
EXTENDS AcquirePublisher

=============================================================================
