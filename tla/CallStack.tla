------------------------------- MODULE CallStack -------------------------------
(***************************************************************************)
(* Code that calls out and goes on afterwards, as the list of the          *)
(* statements still to execute, the innermost first. The head is executed  *)
(* by the step for its do field; a call is the replacement of the head by  *)
(* the statements of the callee. Nothing runs beside the list: the code    *)
(* has one thread, and its callers wait.                                   *)
(***************************************************************************)
EXTENDS Sequences, SequencesExt

VARIABLE calls  \* statements still to execute

AtRest == calls = <<>>

At(what) == calls # <<>> /\ Head(calls).do = what

\* The statement at the head is replaced by the statements it calls.
Calling(statements) == calls' = statements \o Tail(calls)
Returning == Calling(<<>>)

\* One list of statements per element, in the order of the elements.
ForEach(xs, Statements(_)) == FlattenSeq([i \in DOMAIN xs |-> Statements(xs[i])])
===============================================================================
