------------------------ MODULE MCSettlementLedger ------------------------
(* Instances of SettlementLedger for TLC. *)
EXTENDS SettlementLedger, TLC

\* Sessions differ only by what they do, and so do vouchers and tasks.
Symmetric == Permutations(Sessions) \cup Permutations(Vouchers) \cup Permutations(Tasks)
=============================================================================
