--------------------------- MODULE RequestContract ---------------------------
(***************************************************************************)
(* What TdTransport promises the caller of send, setResponseTimeout and    *)
(* shutdown about one request, whatever the threads below it do: the       *)
(* comments of td-transport.h on the timer setters and of receiveObject    *)
(* on who wins, as a state machine per request.                            *)
(*                                                                         *)
(* A response is accepted first and delivered later; from acceptance on    *)
(* the request can no longer time out. It may overtake the return of send. *)
(* A request that send refuses is forgotten, nothing more comes of it, and *)
(* none times out while it is being sent. Every request ends once.         *)
(***************************************************************************)
CONSTANT Requests

VARIABLE state

States == {"unused", "sending", "overtaken", "open", "accepted", "answered",
           "timedOut", "refused", "abandoned"}

Move(r, from, to) ==
  /\ state[r] \in from
  /\ state' = [state EXCEPT ![r] = to]

Init == state = [r \in Requests |-> "unused"]

Send(r) == Move(r, {"unused"}, "sending")

\* send returns the identifier, before or after the response arrives.
Sent(r) == Move(r, {"sending"}, "open") \/ Move(r, {"overtaken"}, "accepted")
Accept(r) == Move(r, {"sending"}, "overtaken") \/ Move(r, {"open"}, "accepted")

\* send returns 0: the request is forgotten, and a response that overtook it.
Refuse(r) == Move(r, {"sending", "overtaken"}, "refused")

Answer(r) == Move(r, {"accepted"}, "answered")
TimeOut(r) == Move(r, {"open"}, "timedOut")

\* shutdown forgets every request that has not ended.
Abandon ==
  state' = [r \in Requests |->
              IF state[r] \in {"open", "accepted"} THEN "abandoned" ELSE state[r]]

Next ==
  \/ \E r \in Requests :
       Send(r) \/ Sent(r) \/ Accept(r) \/ Refuse(r) \/ Answer(r) \/ TimeOut(r)
  \/ Abandon

Spec == Init /\ [][Next]_state
=============================================================================
