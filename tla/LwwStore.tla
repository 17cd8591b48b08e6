------------------------------ MODULE LwwStore ------------------------------
(***************************************************************************)
(* What the server promises of a push (MergePolicy.java:8-11,              *)
(* SyncService.java:37): each item holds the latest of all the writes      *)
(* merged so far, ties going to the greater device id - whatever the order *)
(* in which they came, however many came together, and however often each  *)
(* one came.                                                               *)
(***************************************************************************)
EXTENDS MergePolicy

VARIABLES
    merged,     \* every write of every push that took effect
    value       \* value[id]: the write item id holds, or NoRow

(* One write of one device to one item. *)
Write == [id: Ids, isDone: BOOLEAN, deleted: BOOLEAN, updatedAt: Int,
          device: Devices]

Beats(v, w) ==
    v.updatedAt > w.updatedAt
        \/ (v.updatedAt = w.updatedAt /\ v.device >= w.device)

(* The write of item id that beats all others of "writes". *)
Latest(writes, id) ==
    LET ofId == {w \in writes : w.id = id}
    IN  IF ofId = {} THEN NoRow
        ELSE CHOOSE w \in ofId : \A v \in ofId : Beats(w, v)

StoreInit == merged = {} /\ value = [id \in Ids |-> NoRow]

(* Some writes are merged, new ones or old ones again. *)
Merge ==
    /\ merged \subseteq merged'
    /\ value' = [id \in Ids |-> Latest(merged', id)]

StoreSpec == StoreInit /\ [][Merge]_<<merged, value>>

=============================================================================
