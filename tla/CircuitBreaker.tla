--------------------------- MODULE CircuitBreaker ---------------------------
(***************************************************************************)
(* infrastructure/http/webhooks/CircuitBreaker: the breaker of one webhook *)
(* as a value, and what each method makes of it.  Calls of execute() are   *)
(* not serialised: any number of them may be under way, in any state.      *)
(***************************************************************************)
EXTENDS Naturals

CONSTANTS
    FailureThreshold,   \* failures in a row that open the breaker
    SuccessThreshold    \* successes that close it again

ASSUME ThresholdsAssumption ==
    /\ FailureThreshold \in Nat \ {0}
    /\ SuccessThreshold \in Nat \ {0}

\* due: the time of _nextAttempt has come.
Breaker == [state : {"CLOSED", "OPEN", "HALF_OPEN"}, failures : Nat, successes : Nat, due : BOOLEAN]

NewBreaker == [state |-> "CLOSED", failures |-> 0, successes |-> 0, due |-> TRUE]

\* execute() skips the call.
Skips(b) == b.state = "OPEN" /\ ~b.due

\* execute() lets the call through.
Enter(b) == IF b.state = "OPEN" THEN [b EXCEPT !.state = "HALF_OPEN"] ELSE b

\* Mutant: the failures are not forgotten.
OnSuccessRemembers(b) ==
    IF b.state # "HALF_OPEN" THEN b
    ELSE IF b.successes + 1 >= SuccessThreshold THEN [b EXCEPT !.state = "CLOSED", !.successes = 0]
    ELSE [b EXCEPT !.successes = @ + 1]

\* The call succeeded, whatever the state has become since it began.
OnSuccess(b) ==
    LET calm == [b EXCEPT !.failures = 0]
    IN  IF b.state # "HALF_OPEN" THEN calm
        ELSE IF b.successes + 1 >= SuccessThreshold THEN [calm EXCEPT !.state = "CLOSED", !.successes = 0]
        ELSE [calm EXCEPT !.successes = @ + 1]

\* The call failed, whatever the state has become since it began.
OnFailure(b) ==
    LET counted == [b EXCEPT !.failures = @ + 1, !.successes = 0]
    IN  IF counted.failures >= FailureThreshold THEN [counted EXCEPT !.state = "OPEN", !.due = FALSE]
        ELSE counted

\* reset(): back to what the constructor made.
Reset(b) == NewBreaker
=============================================================================
