----------------------------- MODULE MCPortfolio -----------------------------
(* Three solvers, two runtimes and NaN: every tie pattern among three names. *)
EXTENDS Portfolio

=============================================================================
