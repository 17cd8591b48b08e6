------------------------------- MODULE PushTx -------------------------------
(***************************************************************************)
(* SyncService.push, statement by statement: one database transaction per  *)
(* request, under PostgreSQL's default READ COMMITTED.                     *)
(*                                                                         *)
(* For each item, findById reads the row with a plain SELECT, the merge is *)
(* decided in memory, and insert or update writes the outcome, whole, by   *)
(* id alone.  A SELECT sees what is committed when it runs, and the        *)
(* transaction's own writes.  The first write of a row locks it until the  *)
(* transaction ends; a second writer waits, then writes what it had        *)
(* decided on before it waited.  An INSERT of an id that has been          *)
(* committed meanwhile fails; a cycle of waiting transactions is broken by *)
(* failing one.  A failed transaction leaves nothing and its client gets   *)
(* an error.                                                               *)
(***************************************************************************)
EXTENDS MergePolicy, Sequences, FiniteSets

CONSTANTS
    Threads,        \* the server's request threads
    Batches,        \* the requests that can come, as often as they like
    BadId,          \* an id UUID.fromString refuses
    MaxRequests,    \* bounds the requests
    MaxRestarts     \* bounds the restarts of the server

ASSUME ThreadsAssumption == IsFiniteSet(Threads)

ASSUME BatchesAssumption ==
    /\ BadId \notin Ids
    /\ \A b \in Batches :
         /\ b.device \in Devices
         /\ b.items \in Seq([id: Ids \cup {BadId}, in: Item])

(* A device stamps no two of its edits of an item alike. *)
ASSUME UniqueStamps ==
    \A b, c \in Batches : \A i \in DOMAIN b.items, j \in DOMAIN c.items :
        (/\ b.device = c.device
         /\ b.items[i].id = c.items[j].id
         /\ b.items[i].in.updatedAt = c.items[j].in.updatedAt)
        => b.items[i].in = c.items[j].in

VARIABLES
    todos,          \* the committed rows
    pc,             \* pc[t]: what thread t does next
    batch,          \* batch[t]: its request
    next,           \* next[t]: the item of the request it is at
    written,        \* written[t]: rows its transaction wrote, uncommitted
    decided,        \* decided[t]: the row it is about to write
    base,           \* base[t]: the row it decided that on
    requests,       \* requests so far
    restarts,       \* restarts so far
    merged,         \* history: the writes of the committed requests
    raced           \* history: ids written on the strength of an outdated read

txVars == <<pc, batch, next, written, decided, base>>
vars == <<todos, txVars, requests, restarts, merged, raced>>

NoBatch == [device |-> 0, items |-> <<>>]
Nothing == [id \in Ids |-> NoRow]

Init ==
    /\ todos = Nothing
    /\ pc = [t \in Threads |-> "Idle"]
    /\ batch = [t \in Threads |-> NoBatch]
    /\ next = [t \in Threads |-> 1]
    /\ written = [t \in Threads |-> Nothing]
    /\ decided = [t \in Threads |-> NoRow]
    /\ base = [t \in Threads |-> NoRow]
    /\ requests = 0 /\ restarts = 0
    /\ merged = {} /\ raced = {}

AtItem(t) == next[t] \in DOMAIN batch[t].items
ItemId(t) == batch[t].items[next[t]].id
ItemIn(t) == batch[t].items[next[t]].in

Begin(t, b) ==
    /\ pc[t] = "Idle"
    /\ requests < MaxRequests
    /\ requests' = requests + 1
    /\ pc' = [pc EXCEPT ![t] = "Read"]
    /\ batch' = [batch EXCEPT ![t] = b]
    /\ UNCHANGED <<todos, next, written, decided, base, restarts, merged, raced>>

(* Slip: the rows stay locked. *)
EndTxKeepsLocks(t) ==
    /\ pc' = [pc EXCEPT ![t] = "Idle"]
    /\ batch' = [batch EXCEPT ![t] = NoBatch]
    /\ next' = [next EXCEPT ![t] = 1]
    /\ decided' = [decided EXCEPT ![t] = NoRow]
    /\ base' = [base EXCEPT ![t] = NoRow]
    /\ UNCHANGED written

(* The transaction is over; the thread is free. *)
EndTx(t) ==
    /\ pc' = [pc EXCEPT ![t] = "Idle"]
    /\ batch' = [batch EXCEPT ![t] = NoBatch]
    /\ next' = [next EXCEPT ![t] = 1]
    /\ written' = [written EXCEPT ![t] = Nothing]
    /\ decided' = [decided EXCEPT ![t] = NoRow]
    /\ base' = [base EXCEPT ![t] = NoRow]

Rollback(t) ==
    EndTx(t) /\ UNCHANGED <<todos, requests, restarts, merged, raced>>

(* Slip: what has been written before the bad item stays. *)
BadRequestKeepsWrites(t) ==
    /\ pc[t] = "Read" /\ AtItem(t) /\ ItemId(t) = BadId
    /\ EndTx(t)
    /\ todos' = [id \in Ids |-> IF written[t][id] = NoRow THEN todos[id]
                                ELSE written[t][id]]
    /\ UNCHANGED <<requests, restarts, merged, raced>>

(* A malformed id: ApiException, 400. *)
BadRequest(t) ==
    /\ pc[t] = "Read" /\ AtItem(t) /\ ItemId(t) = BadId
    /\ Rollback(t)

(* TodoDao.findById: committed rows and the transaction's own. *)
FindById(t, id) == IF written[t][id] # NoRow THEN written[t][id] ELSE todos[id]

(* Slip: a conflict does not move on to the next item. *)
ReadStaysAtConflict(t) ==
    /\ pc[t] = "Read" /\ AtItem(t) /\ ItemId(t) # BadId
    /\ LET existing == FindById(t, ItemId(t))
           row == Merged(existing, ItemIn(t), batch[t].device)
       IN  IF row = existing
           THEN UNCHANGED <<pc, decided, base>>
           ELSE /\ pc' = [pc EXCEPT ![t] = "Write"]
                /\ decided' = [decided EXCEPT ![t] = row]
                /\ base' = [base EXCEPT ![t] = existing]
    /\ UNCHANGED <<todos, batch, next, written, requests, restarts, merged, raced>>

(* findById and decide: the row to write, or, in a conflict, on to the     *)
(* next item.                                                              *)
Read(t) ==
    /\ pc[t] = "Read" /\ AtItem(t) /\ ItemId(t) # BadId
    /\ LET existing == FindById(t, ItemId(t))
           row == Merged(existing, ItemIn(t), batch[t].device)
       IN  IF row = existing
           THEN /\ next' = [next EXCEPT ![t] = next[t] + 1]
                /\ UNCHANGED <<pc, decided, base>>
           ELSE /\ pc' = [pc EXCEPT ![t] = "Write"]
                /\ decided' = [decided EXCEPT ![t] = row]
                /\ base' = [base EXCEPT ![t] = existing]
                /\ UNCHANGED next
    /\ UNCHANGED <<todos, batch, written, requests, restarts, merged, raced>>

(* The threads whose open transaction keeps t's write waiting. *)
WaitsFor(t) ==
    IF pc[t] # "Write" THEN {}
    ELSE {u \in Threads \ {t} : written[u][ItemId(t)] # NoRow}

(* INSERT of an id that another transaction has committed since: unique    *)
(* violation, 500.                                                         *)
DuplicateKey(t) ==
    /\ pc[t] = "Write" /\ WaitsFor(t) = {}
    /\ base[t] = NoRow /\ todos[ItemId(t)] # NoRow
    /\ Rollback(t)

(* Slip: the loop stays at the item it has written. *)
WriteRowAgain(t) ==
    /\ pc[t] = "Write" /\ WaitsFor(t) = {}
    /\ base[t] # NoRow \/ todos[ItemId(t)] = NoRow
    /\ written' = [written EXCEPT ![t][ItemId(t)] = decided[t]]
    /\ raced' = raced \cup
         (IF base[t] = FindById(t, ItemId(t)) THEN {} ELSE {ItemId(t)})
    /\ pc' = [pc EXCEPT ![t] = "Read"]
    /\ decided' = [decided EXCEPT ![t] = NoRow]
    /\ base' = [base EXCEPT ![t] = NoRow]
    /\ UNCHANGED <<todos, batch, next, requests, restarts, merged>>

(* INSERT or UPDATE ... WHERE id = ?. *)
WriteRow(t) ==
    /\ pc[t] = "Write" /\ WaitsFor(t) = {}
    /\ base[t] # NoRow \/ todos[ItemId(t)] = NoRow
    /\ written' = [written EXCEPT ![t][ItemId(t)] = decided[t]]
    /\ raced' = raced \cup
         (IF base[t] = FindById(t, ItemId(t)) THEN {} ELSE {ItemId(t)})
    /\ next' = [next EXCEPT ![t] = next[t] + 1]
    /\ pc' = [pc EXCEPT ![t] = "Read"]
    /\ decided' = [decided EXCEPT ![t] = NoRow]
    /\ base' = [base EXCEPT ![t] = NoRow]
    /\ UNCHANGED <<todos, batch, requests, restarts, merged>>

(* The writes a request carries. *)
WritesOf(b) ==
    {[id |-> b.items[i].id, isDone |-> b.items[i].in.isDone,
      deleted |-> b.items[i].in.deleted, updatedAt |-> b.items[i].in.updatedAt,
      device |-> b.device] : i \in DOMAIN b.items}

Commit(t) ==
    /\ pc[t] = "Read" /\ ~AtItem(t)
    /\ todos' = [id \in Ids |-> IF written[t][id] = NoRow THEN todos[id]
                                ELSE written[t][id]]
    /\ merged' = merged \cup WritesOf(batch[t])
    /\ EndTx(t)
    /\ UNCHANGED <<requests, restarts, raced>>

(* t is in a ring of threads, each waiting for one of the others.          *)
InDeadlock(t) ==
    \E ring \in SUBSET Threads :
      /\ t \in ring
      /\ \A u \in ring : /\ WaitsFor(u) \cap ring # {}
                          /\ \E v \in ring : u \in WaitsFor(v)

(* PostgreSQL fails a transaction of the ring, and the client gets 500.    *)
DeadlockAbort(t) == InDeadlock(t) /\ Rollback(t)

(* The server process dies and comes back: open transactions are gone. *)
Restart ==
    /\ \E t \in Threads : pc[t] # "Idle"
    /\ restarts < MaxRestarts
    /\ restarts' = restarts + 1
    /\ pc' = [t \in Threads |-> "Idle"]
    /\ batch' = [t \in Threads |-> NoBatch]
    /\ next' = [t \in Threads |-> 1]
    /\ written' = [t \in Threads |-> Nothing]
    /\ decided' = [t \in Threads |-> NoRow]
    /\ base' = [t \in Threads |-> NoRow]
    /\ UNCHANGED <<todos, requests, merged, raced>>

ThreadStep(t) ==
    \/ BadRequest(t) \/ Read(t) \/ DuplicateKey(t) \/ WriteRow(t)
    \/ Commit(t) \/ DeadlockAbort(t)

Next ==
    \/ \E t \in Threads : ThreadStep(t) \/ \E b \in Batches : Begin(t, b)
    \/ Restart

Spec == Init /\ [][Next]_vars

(* Threads run on, and PostgreSQL resolves deadlocks. *)
LiveSpec == Spec /\ \A t \in Threads : WF_vars(ThreadStep(t))

-----------------------------------------------------------------------------
TypeOK ==
    /\ todos \in [Ids -> Row \cup {NoRow}]
    /\ pc \in [Threads -> {"Idle", "Read", "Write"}]
    /\ batch \in [Threads -> Batches \cup {NoBatch}]
    /\ next \in [Threads -> Nat \ {0}]
    /\ written \in [Threads -> [Ids -> Row \cup {NoRow}]]
    /\ decided \in [Threads -> Row \cup {NoRow}]
    /\ base \in [Threads -> Row \cup {NoRow}]
    /\ requests \in Nat /\ restarts \in Nat
    /\ raced \subseteq Ids

(* The server's rows as the abstract store sees them. *)
Value ==
    [id \in Ids |->
       IF todos[id] = NoRow THEN NoRow
       ELSE [id |-> id, isDone |-> todos[id].isDone,
             deleted |-> todos[id].deleted, updatedAt |-> todos[id].updatedAt,
             device |-> todos[id].lastModifiedBy]]

Lww == INSTANCE LwwStore WITH value <- Value

ASSUME NoRowIsNoWrite == NoRow \notin Lww!Write

(* One request at a time, push implements the last-writer-wins store: the  *)
(* loop of reads and writes amounts to merging the request's writes in one *)
(* step, in an order that does not matter.                                 *)
ImplementsLww == Lww!StoreSpec

(* MergePolicy.java:8-11: an item always holds the latest write the server *)
(* has merged.                                                             *)
NewestWriteWins == \A id \in Ids : Value[id] = Lww!Latest(merged, id)

(* The same, but for the items that were written on an outdated read: a    *)
(* merge goes wrong in no other way, whatever waits, fails and restarts.   *)
OnlyRacesLoseWrites ==
    \A id \in Ids \ raced : Value[id] = Lww!Latest(merged, id)

(* "Atomic within one transaction" (SyncService.java:37): what a row       *)
(* holds, races or not, is a write of a request that committed, and every  *)
(* item such a request names has a row; a request that failed half-way, or *)
(* was cut off by a restart, leaves nothing.                               *)
FailedRequestsLeaveNothing ==
    \A id \in Ids :
        /\ Value[id] = NoRow \/ Value[id] \in merged
        /\ Value[id] = NoRow => \A w \in merged : w.id # id

(* "Server-side monotone version" (TodoItem.h:11): a row changes only to a *)
(* higher version.                                                         *)
VersionsGrow ==
    [][\A id \in Ids :
         todos[id] # NoRow /\ todos'[id] # todos[id]
           => todos'[id].serverVersion > todos[id].serverVersion]_vars

(* A thread that does not wait for another, or that may be failed. *)
CanGoOn(t) ==
    \/ pc[t] = "Read"
    \/ pc[t] = "Write" /\ WaitsFor(t) = {}
    \/ InDeadlock(t)

(* Locks are held by running transactions only, and whoever waits does so  *)
(* for one that gets on, or waits in a ring that PostgreSQL breaks: while  *)
(* there are requests, one of the threads has a step.                      *)
SomeoneGoesOn ==
    (\E t \in Threads : pc[t] # "Idle") => \E t \in Threads : CanGoOn(t)

(* The statements t has before it, at most. *)
StatementsLeft(t) ==
    IF pc[t] = "Idle" THEN 0
    ELSE 2 * (Len(batch[t].items) + 1 - next[t]) + (IF pc[t] = "Read" THEN 2 ELSE 1)

(* The loop of push gets on with every statement, and nothing that other   *)
(* threads do sets it back.                                                *)
StatementsRunOut ==
    [][\A t \in Threads : pc[t] # "Idle" =>
         \/ StatementsLeft(t)' < StatementsLeft(t)
         \/ pc'[t] = pc[t] /\ next'[t] = next[t]]_vars

(* Every request is answered, although transactions wait for each other's  *)
(* rows in any order.                                                      *)
EveryRequestEnds == \A t \in Threads : pc[t] # "Idle" ~> pc[t] = "Idle"

=============================================================================
