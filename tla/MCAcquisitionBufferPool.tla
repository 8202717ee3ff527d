---------------------- MODULE MCAcquisitionBufferPool ----------------------
(* Model-checking instance of AcquisitionBufferPool. *)
EXTENDS AcquisitionBufferPool, TLC

Symmetry == Permutations(Handle)

=============================================================================
