--------------------------- MODULE CoderContract ---------------------------
(***************************************************************************)
(* What coder.h promises of one encode, decode or decode_skip call on a    *)
(* span of bytes, whatever the coder: the call works from the front of     *)
(* the span towards its end, never leaves it, and returns.  A safe call    *)
(* returns the rest of the span or fails; an unsafe call cannot report a   *)
(* failure, so a span too short for it is undefined behaviour ("ub").  The *)
(* contract does not mention exceptions: a coder that throws says so.      *)
(* The coders of this project are shown to implement this specification.   *)
(***************************************************************************)
EXTENDS Naturals

CONSTANTS
    Capacity,    \* the longest span handed to a call
    Thrown       \* {"throw"} if the call may leave by an exception, else {}

VARIABLES
    mode,      \* the coder_mode template argument of the call
    limit,     \* the size of the span the call was given
    pos,       \* begin(result) - begin(span): the bytes used so far
    status     \* "idle", "run", or the outcome of the last call

vars == <<mode, limit, pos, status>>

Outcomes(m) == {"ok", IF m = "safe" THEN "fail" ELSE "ub"} \cup Thrown

Init ==
    /\ mode \in {"safe", "unsafe"}
    /\ limit \in 0..Capacity
    /\ pos = 0
    /\ status \in {"idle", "run"}

\* A caller starts a call on some span, once the previous call has returned.
Call ==
    /\ status \in {"idle", "ok", "fail", "throw"}
    /\ mode' \in {"safe", "unsafe"}
    /\ limit' \in 0..Capacity
    /\ pos' = 0
    /\ status' = "run"

\* The call uses up some more bytes of its span, and perhaps returns with them.
Advance ==
    /\ status = "run"
    /\ pos' \in pos + 1 .. limit
    /\ status' \in {"run"} \cup Outcomes(mode)
    /\ UNCHANGED <<mode, limit>>

Return ==
    /\ status = "run"
    /\ status' \in Outcomes(mode)
    /\ UNCHANGED <<mode, limit, pos>>

Next == Call \/ Advance \/ Return

Spec == Init /\ [][Next]_vars /\ WF_vars(Advance \/ Return)
=============================================================================
