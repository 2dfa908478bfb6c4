----------------------- MODULE MCKarmaAllowanceEscrow -----------------------
(* Instances of KarmaAllowanceEscrow for TLC. *)
EXTENDS KarmaAllowanceEscrow, TLC

\* Users differ only by what they do, and so do resolvers.
Symmetric == Permutations(Users) \cup Permutations(Resolvers)
=============================================================================
