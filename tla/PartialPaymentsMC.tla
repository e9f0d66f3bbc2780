-------------------------- MODULE PartialPaymentsMC --------------------------
(***************************************************************************)
(* PartialPayments for TLC: one customer, who may start over (two          *)
(* registrations) or make another payment on one registration, each        *)
(* reported by the webhook or also through the second endpoint.            *)
(***************************************************************************)
EXTENDS PartialPayments, TLC
CONSTANTS r1, r2, i1, customer, schedule, http

OneRegistration == {r1}
TwoRegistrations == {r1, r2}
OneInstallment == {i1}
MCCustomers == {customer}
MCCustomerOf == [r \in Registrations |-> customer]
OneCaller == {"webhook"}
TwoCallers == {"webhook", "endpoint"}
OneCleaner == {schedule}
TwoCleaners == {schedule, http}
CleanersAlike == Permutations(TwoCleaners)
=============================================================================
