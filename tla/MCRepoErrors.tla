----------------------------- MODULE MCRepoErrors -----------------------------
(* Two devices, the second a millisecond ahead of the server, for TLC. *)
EXTENDS RepoErrors, TLC

MCDevices == {1, 2}

OneAhead == [d \in Devices |-> d - 1]

IdSymmetry == Permutations(Ids)

=============================================================================
