------------------------ MODULE EventRegistrationsMC ------------------------
(***************************************************************************)
(* EventRegistrations for TLC: two full-price checkouts, and one of each   *)
(* other kind, for one or two customers.                                   *)
(***************************************************************************)
EXTENDS EventRegistrations, TLC
CONSTANTS c1, c2, v1, f1, d1, g1, g2, ann, bob

TwoCheckouts == {c1, c2}
OneVip == {v1}
OneFree == {f1}
OneDeposit == {d1}
TwoGuests == {g1, g2}
TwoEmails == {ann, bob}
MCEmailOf == [a \in Seats |-> IF a \in {c2, f1} THEN bob ELSE ann]
GuestsAlike == Permutations(TwoGuests)
=============================================================================
