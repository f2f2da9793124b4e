----------------------------- MODULE MCRateGate -----------------------------
(***************************************************************************)
(* An instance of RateGate for TLC: two callers, a window of two ticks.     *)
(***************************************************************************)
EXTENDS RateGate

CONSTANTS c1, c2

Resp(status) ==
    [status |-> status, exhausted |-> FALSE, limitRpm |-> 0, limitTpm |-> 0, reset |-> 0, retry |-> 0]

(* Success, a refusal without a hint, an error that says the budget is used *)
(* up, and a refusal that reports the rates, the token rate below the floor. *)
Responses == {Resp("ok"), Resp("limited"),
              [Resp("other") EXCEPT !.exhausted = TRUE],
              [Resp("limited") EXCEPT !.limitRpm = 200, !.limitTpm = 100]}
=============================================================================
