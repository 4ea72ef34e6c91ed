------------------------------ MODULE TeecCall ------------------------------
(***************************************************************************)
(* What TEEC_InvokeCommand promises on every platform: the command is      *)
(* served once, by the TA, on the inputs the client gave; the client gets  *)
(* the TA's result and, with a success, exactly the TA's outputs.  After a *)
(* failure the outputs are the TA's or untouched.  If the TA dies while it *)
(* serves a command, it serves no other, the operation stays as the client *)
(* gave it, and nothing is promised of the result or of the return.        *)
(***************************************************************************)
EXTENDS TeecParams

CONSTANTS
    Command,    \* the command ids a client uses
    ClientOp,   \* the operations a client brings
    NoOutcome   \* no command has been served

VARIABLES
    phase,      \* "idle", "called" or "served"
    command,    \* the command of the call under way or last made
    operation,  \* the client's operation
    outcome,    \* what the TA made of the command
    ret,        \* what the last call returned
    alive       \* the TA has not died

callVars == <<phase, command, operation, outcome, ret, alive>>

CallInit ==
    /\ phase = "idle" /\ command = "none"
    /\ operation = NullOperation
    /\ outcome = NoOutcome /\ ret = "none"
    /\ alive = TRUE

Invoke(cmd, op) ==
    /\ phase = "idle"
    /\ command' = cmd /\ operation' = op
    /\ \/ alive /\ phase' = "called" /\ UNCHANGED ret
       \/ ~alive /\ ret' \in Result /\ UNCHANGED phase
    /\ UNCHANGED <<outcome, alive>>

Die ==
    /\ phase = "called" /\ alive
    /\ alive' = FALSE
    /\ \/ UNCHANGED <<phase, ret>>
       \/ phase' = "idle" /\ ret' \in Result \cup {ret}
    /\ UNCHANGED <<command, operation, outcome>>

Serve ==
    /\ phase = "called" /\ alive
    /\ phase' = "served"
    /\ outcome' \in Outcome(command, operation.types, prepare_params(operation))
    /\ UNCHANGED <<command, operation, ret, alive>>

Return ==
    /\ phase = "served"
    /\ phase' = "idle"
    /\ ret' = outcome.result
    /\ \/ operation' = writeback_params(operation, outcome.params)
       \/ outcome.result # "SUCCESS" /\ operation' = operation
    /\ outcome' = NoOutcome
    /\ UNCHANGED <<command, alive>>

CallNext ==
    \/ \E cmd \in Command, op \in ClientOp : Invoke(cmd, op)
    \/ Serve \/ Return \/ Die

CallSpec == CallInit /\ [][CallNext]_callVars

=============================================================================
