----------------------------- MODULE MCTodoSync -----------------------------
(* Small instances of TodoSync for TLC. *)
EXTENDS TodoSync, TLC

MCDevices == {1, 2}

(* All clocks agree. *)
NoSkew == [d \in Devices |-> 0]

(* Device 2's clock is a millisecond ahead of the server's. *)
OneAhead == [d \in Devices |-> d - 1]

IdSymmetry == Permutations(Ids)

=============================================================================
