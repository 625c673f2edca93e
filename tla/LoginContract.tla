----------------------------- MODULE LoginContract -----------------------------
(* What an observer of the login may rely on (TdAuthObserver): it is asked one *)
(* thing at a time, the login ends once, and nothing is asked after the end.   *)
EXTENDS Naturals

VARIABLES
  shown,     \* prompts shown so far
  open,      \* the prompt the observer shows, 0 when there is none
  outcome,   \* how the login ended
  stopped    \* the controller is shut down

vars == <<shown, open, outcome, stopped>>

Init == shown = 0 /\ open = 0 /\ outcome = "none" /\ ~stopped

\* One prompt is shown, the next one only when it is closed.
Show ==
  /\ open = 0 /\ outcome = "none" /\ ~stopped
  /\ shown' = shown + 1
  /\ open' = shown'
  /\ UNCHANGED <<outcome, stopped>>

Close ==
  /\ open # 0
  /\ open' = 0
  /\ UNCHANGED <<shown, outcome, stopped>>

\* The login ends with no prompt open.
Finish ==
  /\ open = 0 /\ outcome = "none"
  /\ outcome' \in {"ready", "cancelled", "failed"}
  /\ UNCHANGED <<shown, open, stopped>>

\* Shutdown, or the observer is given up, and the open prompt with it.
Stop ==
  /\ ~stopped
  /\ stopped'
  /\ open' = 0
  /\ UNCHANGED <<shown, outcome>>

Next == Show \/ Close \/ Finish \/ Stop

Spec == Init /\ [][Next]_vars
================================================================================
