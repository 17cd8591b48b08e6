------------------------------ MODULE MCPushTx ------------------------------
(* Small instances of PushTx for TLC. *)
EXTENDS PushTx

CONSTANTS i1, i2

MCDevices == {1, 2}
MCIds == {i1, i2}

Done(id, stamp) ==
    [id |-> id,
     in |-> [isDone |-> TRUE, deleted |-> FALSE, updatedAt |-> stamp]]
Deleted(id, stamp) ==
    [id |-> id,
     in |-> [isDone |-> FALSE, deleted |-> TRUE, updatedAt |-> stamp]]

(* Two devices push both items, each in the order of its stamps, which     *)
(* cross; one of the items they stamp alike; then an edit of one item by   *)
(* each, and a request with a malformed item at its end.                   *)
MCBatches ==
    {[device |-> 1, items |-> <<Done(i1, 2), Done(i2, 3)>>],
     [device |-> 2, items |-> <<Deleted(i2, 1), Deleted(i1, 2)>>],
     [device |-> 1, items |-> <<Deleted(i1, 4)>>],
     [device |-> 2, items |-> <<Done(i2, 4), Done(BadId, 5)>>],
     [device |-> 2, items |-> <<Done(i1, 3)>>]}

=============================================================================
