------------------------- MODULE MCForwardSelection -------------------------
(* All monotone sums of squares over three features, 0 to 3: with four     *)
(* rows every regression can be done, with three the last one aborts.      *)
EXTENDS ForwardSelection

=============================================================================
