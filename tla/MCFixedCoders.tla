--------------------------- MODULE MCFixedCoders ---------------------------
(***************************************************************************)
(* TLC instance of FixedCoders: both conversions of integers up to the     *)
(* width of an int.                                                        *)
(***************************************************************************)
EXTENDS FixedCoders

MCBuilds == {"bit_cast", "recursive"} \X {1, 2}
=============================================================================
