---------------------------- MODULE ExecContract ----------------------------
(***************************************************************************)
(* The calls of Transport.Exec for one target: what runOne asks of a       *)
(* transport (fleet/engine.go, fleet/transport.go).  One call at a time, a *)
(* new one only after a failure and while attempts are left, and the last  *)
(* answer is the target's result.  FanOut makes these calls, Transports    *)
(* answers them.                                                           *)
(***************************************************************************)
EXTENDS Integers

CONSTANT Attempts   \* Options.Retries + 1

VARIABLES
    place,          \* "before" the first call, in "exec", "between" two
                    \* calls, or "after" the last
    attempt,        \* calls begun
    answer          \* of the last call

vars == <<place, attempt, answer>>

Init == place = "before" /\ attempt = 0 /\ answer = "none"

Begin ==
    /\ place \in {"before", "between"} /\ attempt < Attempts
    /\ place' = "exec"
    /\ attempt' = attempt + 1
    /\ UNCHANGED answer

Answer(o) ==
    /\ place = "exec"
    /\ answer' = o
    /\ place' = IF o = "fail" /\ attempt < Attempts THEN "between" ELSE "after"
    /\ UNCHANGED attempt

\* No call is made: a dry run, a command that cannot be rendered, no attempts.
Spare ==
    /\ place = "before" /\ place' = "after"
    /\ UNCHANGED <<attempt, answer>>

Next == Begin \/ Spare \/ \E o \in {"ok", "fail"} : Answer(o)

Spec == Init /\ [][Next]_vars
=============================================================================
