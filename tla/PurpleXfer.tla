------------------------------ MODULE PurpleXfer ------------------------------
(***************************************************************************)
(* libpurple's file transfers, as file-transfer.cpp and td-client.cpp use  *)
(* them: a reference-counted PurpleXfer whose functions tell handlers (the *)
(* user interface, other plugins) before they return. A handler may cancel *)
(* any transfer, end a completed one or disconnect the account, and all of *)
(* that runs to its end before the function that called it goes on.        *)
(***************************************************************************)
EXTENDS Naturals, CallStack

CONSTANTS
  Xfers,          \* the transfers
  ActingHandlers  \* the handlers that act, and do not only listen

\* The handlers of an error, of a cancellation, and of anything else.
HandlerKinds == {"handlers", "errorHandlers", "cancelHandlers"}

ASSUME HandlersAssumption == ActingHandlers \subseteq HandlerKinds

VARIABLES
  refs,    \* xfer->ref
  status,  \* purple_xfer_get_status
  ended,   \* purple_xfer_get_end_time(xfer) # 0
  data     \* xfer->data # NULL

xferVars == <<refs, status, ended, data>>

Statuses == {"none", "offered", "accepted", "started", "done", "cancelled"}

Do(what, x) == [do |-> what, x |-> x]

Cancelled(x) == status[x] = "cancelled"

\* How many elements of a sequence are in a set: as many references as statements,
\* requests or entries of that kind.
Occurrences(s, S) ==
  LET upTo[n \in 0 .. Len(s)] ==
        IF n = 0 THEN 0 ELSE upTo[n - 1] + (IF s[n] \in S THEN 1 ELSE 0)
  IN  upTo[Len(s)]

XferTypeOK ==
  /\ refs \in [Xfers -> Nat]
  /\ status \in [Xfers -> Statuses]
  /\ ended \in [Xfers -> BOOLEAN]
  /\ data \in [Xfers -> BOOLEAN]

XferInit ==
  /\ refs = [x \in Xfers |-> 0]
  /\ status = [x \in Xfers |-> "none"]
  /\ ended = [x \in Xfers |-> FALSE]
  /\ data = [x \in Xfers |-> FALSE]
  /\ calls = <<>>

-------------------------------------------------------------------------------
\* The bodies of libpurple's functions.

\* purple_xfer_cancel_local, purple_xfer_cancel_remote
CancelXfer(x) ==
  <<Do("cancel", x), Do("cancelHandlers", x), Do("cancelFunction", x),
    Do("cancelHandlers", x), Do("unref", x)>>

\* purple_xfer_end of a transfer that is completed
EndXfer(x) ==
  <<Do("end", x), Do("handlers", x), Do("endFunction", x), Do("unref", x)>>

Cancel ==
  /\ At("cancel")
  /\ status' = [status EXCEPT ![Head(calls).x] = "cancelled"]
  /\ ended' = [ended EXCEPT ![Head(calls).x] = TRUE]
  /\ Returning
  /\ UNCHANGED <<refs, data>>

End ==
  /\ At("end")
  /\ ended' = [ended EXCEPT ![Head(calls).x] = TRUE]
  /\ Returning
  /\ UNCHANGED <<refs, status, data>>

Unref ==
  /\ At("unref")
  /\ refs' = [refs EXCEPT ![Head(calls).x] = @ - 1]
  /\ Returning
  /\ UNCHANGED <<status, ended, data>>

\* The guard around purple_xfer_end: a cancellation meanwhile has consumed it.
UnrefUnlessCancelled ==
  /\ At("unrefUnlessCancelled")
  /\ Calling(IF Cancelled(Head(calls).x) THEN <<>> ELSE <<Do("unref", Head(calls).x)>>)
  /\ UNCHANGED xferVars

\* if (xfer->data && !purple_xfer_is_canceled(xfer)) cancel it
CancelUnlessOver ==
  /\ At("cancelUnlessOver")
  /\ LET x == Head(calls).x IN
       Calling(IF data[x] /\ ~ Cancelled(x) THEN CancelXfer(x) ELSE <<>>)
  /\ UNCHANGED xferVars

-------------------------------------------------------------------------------
\* What handlers and the user do.

HandlersRun == \E kind \in ActingHandlers : At(kind)

Outside == calls = <<>> \/ HandlersRun

\* A transfer can be cancelled as long as libpurple holds its reference.
Cancellable(x) ==
  /\ status[x] \notin {"none", "cancelled"}
  /\ \/ ~ ended[x]
     \/ \E i \in DOMAIN calls : calls[i] = Do("endFunction", x)

HandlersCancel(x) ==
  /\ Outside /\ Cancellable(x)
  /\ calls' = CancelXfer(x) \o calls
  /\ UNCHANGED xferVars

\* A handler of the completion may end the transfer itself (and then leaves it alone).
HandlersEnd(x) ==
  /\ "handlers" \in ActingHandlers /\ At("handlers") /\ Head(calls).x = x
  /\ status[x] = "done" /\ ~ ended[x]
  /\ calls' = <<Do("end", x), Do("endFunction", x), Do("unref", x)>> \o calls
  /\ UNCHANGED xferVars

HandlersReturn ==
  /\ \E kind \in HandlerKinds : At(kind)
  /\ Returning
  /\ UNCHANGED xferVars

LibpurpleSteps ==
  \/ Cancel \/ End \/ Unref \/ UnrefUnlessCancelled \/ CancelUnlessOver
  \/ HandlersReturn
  \/ \E x \in Xfers : HandlersCancel(x) \/ HandlersEnd(x)

-------------------------------------------------------------------------------
\* References that a transfer should have because of libpurple itself: the
\* original one until a terminal function is called, and then the ones that the
\* statements under way are going to drop.

LibpurpleHolds(x) ==
  LET next == IF calls = <<>> THEN Do("nothing", x) ELSE Head(calls)
      cancelled == Cancelled(x) \/ next = Do("cancel", x)
      terminal == ended[x] \/ next \in {Do("cancel", x), Do("end", x)}
  IN  (IF status[x] # "none" /\ ~ terminal THEN 1 ELSE 0)
      + Occurrences(calls, {Do("unref", x)})
      + (IF cancelled THEN 0
         ELSE Occurrences(calls, {Do("unrefUnlessCancelled", x)}))

\* The statements whose x is used; the others name no transfer.
Uses(c) == "x" \in DOMAIN c
===============================================================================
