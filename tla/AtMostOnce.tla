----------------------------- MODULE AtMostOnce -----------------------------
(***************************************************************************)
(* What a Stripe webhook endpoint can promise about the business effect    *)
(* of one event: it is begun at most once, it may finish, and a begun      *)
(* effect may also be cut short (an exception, a process restart) and is   *)
(* then never begun again.  WebhookInbox is shown to implement this        *)
(* specification; modules that need an event handler to run at most once   *)
(* rely on it instead of repeating the delivery protocol.                  *)
(***************************************************************************)
CONSTANT Events        \* Stripe event identifiers

VARIABLE effect        \* what became of the business effect of each event

EffectStates == {"none", "begun", "finished", "cut"}

Init == effect = [e \in Events |-> "none"]

Begin(e) ==
    /\ effect[e] = "none"
    /\ effect' = [effect EXCEPT ![e] = "begun"]

Finish(e) ==
    /\ effect[e] = "begun"
    /\ effect' = [effect EXCEPT ![e] = "finished"]

\* Several effects may be cut short together: they share one process.
CutShort(S) ==
    /\ S # {}
    /\ \A e \in S : effect[e] = "begun"
    /\ effect' = [e \in Events |-> IF e \in S THEN "cut" ELSE effect[e]]

Next ==
    \/ \E e \in Events : Begin(e) \/ Finish(e)
    \/ \E S \in SUBSET Events : CutShort(S)

Spec == Init /\ [][Next]_effect
=============================================================================
