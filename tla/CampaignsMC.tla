---------------------------- MODULE CampaignsMC ----------------------------
(***************************************************************************)
(* Campaigns for TLC: a run of the job and a request to send, with another *)
(* request beside them.  The list has two entries, in two batches, of one  *)
(* e-mail, which is registered for two events.                             *)
(***************************************************************************)
EXTENDS Campaigns
CONSTANTS k1, m1, q1, ann, one, two

OneCron == {k1}
OneManual == {m1}
OneRequest == {q1}
TwoEntries == {one, two}
OneEmail == {ann}
Twice == [r \in TwoEntries |-> ann]
============================================================================
