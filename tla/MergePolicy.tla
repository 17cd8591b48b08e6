----------------------------- MODULE MergePolicy -----------------------------
(***************************************************************************)
(* The rows of the server's table todos and the last-writer-wins merge of  *)
(* one pushed item: MergePolicy.decide, TodoRow and the body of the loop   *)
(* of SyncService.push.                                                    *)
(*                                                                         *)
(* Abstractions.  A timestamp is an integer number of milliseconds.  A     *)
(* device id is a positive integer: decide compares the ids as strings,    *)
(* which is a total order on them, and AuthFilter always supplies one, so  *)
(* the "null is the empty string" case of decide does not arise.  content  *)
(* and createdAt never change after an item is created (the list model     *)
(* offers no edit of the text), so a row's identity stands for them and    *)
(* the mutable payload is isDone and deleted.  baseVersion is sent by the  *)
(* clients and read by nobody, and is left out.                            *)
(*                                                                         *)
(* A definition marked "Slip" is a plausible wrong form of the one after   *)
(* it.  No specification uses it: substituted for its neighbour, it shows  *)
(* that a property notices the mistake.                                    *)
(***************************************************************************)
EXTENDS Integers

CONSTANTS
    Devices,        \* device ids, as UUID.toString() orders them
    Ids,            \* todo ids (client-generated UUIDs)
    NoRow           \* "no such row": Optional.empty()

ASSUME DevicesAssumption == Devices \subseteq Nat \ {0}

(* What a push carries for one id (PushItemRequest). *)
Item == [isDone: BOOLEAN, deleted: BOOLEAN, updatedAt: Int]

(* A row of the server's table todos. *)
Row == [isDone: BOOLEAN, deleted: BOOLEAN, updatedAt: Int,
        serverVersion: Nat, lastModifiedBy: Devices]

(* What the server answers for one row (TodoItemDto): no lastModifiedBy. *)
Dto == [isDone: BOOLEAN, deleted: BOOLEAN, updatedAt: Int, serverVersion: Nat]

ASSUME NoRowAssumption == NoRow \notin Item \cup Row \cup Dto

(* Slip: the push is taken as it comes. *)
AcceptsAll(incomingTime, incomingDevice, serverTime, serverDevice) == TRUE

(* Slip: the first of two writes stamped alike stays. *)
AcceptsLater(incomingTime, incomingDevice, serverTime, serverDevice) ==
    incomingTime > serverTime

(* MergePolicy.decide = ACCEPT: later stamp, or same stamp and a device id *)
(* that is not smaller than that of the last writer.                       *)
Accepts(incomingTime, incomingDevice, serverTime, serverDevice) ==
    \/ incomingTime > serverTime
    \/ incomingTime = serverTime /\ incomingDevice >= serverDevice

(* Slip: last_modified_by is left NULL. *)
FromNobody(in, device) ==
    [isDone |-> in.isDone, deleted |-> in.deleted, updatedAt |-> in.updatedAt,
     serverVersion |-> 1, lastModifiedBy |-> 0]

FromNew(in, device) ==
    [isDone |-> in.isDone, deleted |-> in.deleted, updatedAt |-> in.updatedAt,
     serverVersion |-> 1, lastModifiedBy |-> device]

(* Slip: the version stays. *)
ApplySameVersion(row, in, device) ==
    [isDone |-> in.isDone, deleted |-> in.deleted, updatedAt |-> in.updatedAt,
     serverVersion |-> row.serverVersion, lastModifiedBy |-> device]

ApplyIncoming(row, in, device) ==
    [isDone |-> in.isDone, deleted |-> in.deleted, updatedAt |-> in.updatedAt,
     serverVersion |-> row.serverVersion + 1, lastModifiedBy |-> device]

ToDto(row) ==
    [isDone |-> row.isDone, deleted |-> row.deleted,
     updatedAt |-> row.updatedAt, serverVersion |-> row.serverVersion]

(* The row push leaves for an id when it finds "existing" there and the    *)
(* request of "device" carries "in": inserted, overwritten, or kept.       *)
Merged(existing, in, device) ==
    IF existing = NoRow THEN FromNew(in, device)
    ELSE IF Accepts(in.updatedAt, device,
                    existing.updatedAt, existing.lastModifiedBy)
         THEN ApplyIncoming(existing, in, device)
         ELSE existing

(* Slip: tombstones are not delivered. *)
LiveUpdatedAfter(rows, since) ==
    {id \in Ids : /\ rows[id] # NoRow
                  /\ rows[id].updatedAt > since
                  /\ ~rows[id].deleted}

(* TodoDao.findUpdatedAfter: the ids whose row is stamped after "since".   *)
UpdatedAfter(rows, since) ==
    {id \in Ids : rows[id] # NoRow /\ rows[id].updatedAt > since}

=============================================================================
