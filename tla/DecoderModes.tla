---------------------------- MODULE DecoderModes ----------------------------
(***************************************************************************)
(* safe_mode and unsafe_mode (coder_mode.h:72-123) on the same bytes.      *)
(***************************************************************************)
EXTENDS Decoder

Unsafe == INSTANCE Decoder WITH
    mode   <- "unsafe",
    status <- IF status = "fail" THEN "ub" ELSE status

\* Every failure of a safe decode is an undefined behaviour of the unsafe one
\* on the same bytes, and they agree in everything else, step by step: safe
\* mode rejects no input that unsafe mode decodes, and decodes it alike.
SafeAgreesWithUnsafe == Unsafe!Init /\ [][Unsafe!Next]_(Unsafe!vars)
=============================================================================
