------------------------- MODULE MCSubscriberChain -------------------------
(* Model-checking instance of SubscriberChain on its own. *)
EXTENDS SubscriberChain

=============================================================================
