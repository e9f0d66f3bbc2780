--------------------------- MODULE SubscriptionsMC ---------------------------
(***************************************************************************)
(* Subscriptions for TLC: one Stripe subscription and, in some runs, one   *)
(* course that is bought for good.                                         *)
(***************************************************************************)
EXTENDS Subscriptions, TLC
CONSTANTS s1, life, term, h1, h2

OneSub == {s1}
OneCourse == {life}
TwoCourses == {life, term}
OneHandler == {h1}
TwoHandlers == {h1, h2}
MCPlanOf == [k \in Keys |-> k]
MCTerm == [c \in Courses |-> IF c = life THEN Never ELSE 1]
HandlersAlike == Permutations(Handlers)
=============================================================================
