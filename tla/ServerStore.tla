----------------------------- MODULE ServerStore -----------------------------
(***************************************************************************)
(* What devices of both kinds make of the server's table, whatever is      *)
(* lost, retried, given up and carried out late between them: it is the    *)
(* last-writer-wins store.  The module adds to MobileSync, which is        *)
(* TodoSync where no device is a mobile, a variable that remembers the     *)
(* writes of all the requests the server has taken in; no step depends on  *)
(* it.                                                                     *)
(***************************************************************************)
EXTENDS MobileSync

VARIABLE
    merged          \* history: every write of every push the server merged

(* The writes a request carries. *)
WritesOf(d, items) ==
    {[id |-> id, isDone |-> items[id].isDone, deleted |-> items[id].deleted,
      updatedAt |-> items[id].updatedAt, device |-> d] :
        id \in {i \in Ids : items[i] # NoRow}}

(* The requests a step has the server take in: that of a device that waits *)
(* for it, or one given up.                                                *)
Served ==
    {[device |-> d, items |-> request[d]] :
        d \in {e \in Devices : pc[e] = "Posted" /\ pc'[e] = "Pushed"}}
    \cup (zombies \ zombies')

StoreInit == Init /\ merged = {}

StoreNext ==
    /\ MobileNext
    /\ merged' = merged \cup UNION {WritesOf(r.device, r.items) : r \in Served}

storeVars == <<vars, merged>>

StoreSpec ==
    StoreInit /\ [][StoreNext]_storeVars /\ \A d \in Devices : WF_vars(EngineStep(d))

-----------------------------------------------------------------------------
(* The server's rows as the abstract store sees them. *)
Value ==
    [id \in Ids |->
       IF todos[id] = NoRow THEN NoRow
       ELSE [id |-> id, isDone |-> todos[id].isDone,
             deleted |-> todos[id].deleted, updatedAt |-> todos[id].updatedAt,
             device |-> todos[id].lastModifiedBy]]

Lww == INSTANCE LwwStore WITH value <- Value

ASSUME NoRowIsNoWrite == NoRow \notin Lww!Write

(* MergePolicy.java:8-11, end to end: whatever devices edit, lose, retry   *)
(* and give up, and whenever the server gets round to it, an item holds    *)
(* the latest of all the writes the server has taken in, and no step of    *)
(* the system but a push changes it.                                       *)
ImplementsLww == Lww!StoreSpec

=============================================================================
