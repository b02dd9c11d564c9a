---------------------------- MODULE MCAutoSource ----------------------------
(* TLC instance of AutoSource.  Services would be interchangeable, but a
   liveness property is checked, so no symmetry is declared. *)
EXTENDS AutoSource
=============================================================================
