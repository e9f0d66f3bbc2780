--------------------------- MODULE WebhookInboxMC ---------------------------
(***************************************************************************)
(* WebhookInbox for TLC.  Two deliveries in flight are enough for every     *)
(* race on one event; the events do not interact, so one handled event,     *)
(* whose handler may return, throw or swallow, and one unhandled event      *)
(* cover every way through the switch.                                      *)
(***************************************************************************)
EXTENDS WebhookInbox
CONSTANTS checkoutCompleted, unknownType, w1, w2

MCEvents == {checkoutCompleted, unknownType}
MCHandled == {checkoutCompleted}
MCRequests == {w1, w2}
=============================================================================
