----------------------------- MODULE PushTxProofs -----------------------------
(* Theorems about PushTx, for any threads, requests, items and devices.     *)
EXTENDS PushTx, TLAPS, SequenceTheorems, FiniteSetTheorems, WellFoundedInduction

(* A row of item id as a write of a request. *)
AsWrite(id, row) ==
    [id |-> id, isDone |-> row.isDone, deleted |-> row.deleted,
     updatedAt |-> row.updatedAt, device |-> row.lastModifiedBy]

(* A thread without a request has no transaction. *)
IdleIsFree ==
    \A t \in Threads : pc[t] = "Idle" => next[t] = 1 /\ written[t] = Nothing

(* A thread that is about to write is at an item it can name. *)
WriteIsAtItem ==
    \A t \in Threads : pc[t] = "Write" =>
      /\ AtItem(t) /\ ItemId(t) \in Ids
      /\ decided[t] \in Row
      /\ AsWrite(ItemId(t), decided[t]) \in WritesOf(batch[t])

(* An open transaction holds nothing but writes of its own request. *)
WrittenIsAsked ==
    \A t \in Threads, id \in Ids :
        written[t][id] # NoRow => AsWrite(id, written[t][id]) \in WritesOf(batch[t])

(* What a thread has passed has a row, if only in its transaction. *)
PassedHasRow ==
    \A t \in Threads : \A i \in DOMAIN batch[t].items :
        i < next[t] => /\ batch[t].items[i].id \in Ids
                       /\ FindById(t, batch[t].items[i].id) # NoRow

(* A row holds a write of a request that committed, and what such a         *)
(* request names has a row.                                                 *)
RowsAreCommitted ==
    \A id \in Ids :
        /\ todos[id] # NoRow => AsWrite(id, todos[id]) \in merged
        /\ todos[id] = NoRow => \A w \in merged : w.id # id

(* The threads and their transactions. *)
TxInv == IdleIsFree /\ WriteIsAtItem /\ WrittenIsAsked /\ PassedHasRow

(* Inductive, where FailedRequestsLeaveNothing alone is not: it says what   *)
(* the open transactions will commit.                                       *)
IInv == TypeOK /\ TxInv /\ RowsAreCommitted

-----------------------------------------------------------------------------
(* Types *)

(* A merge leaves a row. *)
LEMMA MergedType ==
    ASSUME NEW row \in Row \cup {NoRow}, NEW in \in Item, NEW d \in Devices
    PROVE  Merged(row, in, d) \in Row
  BY DevicesAssumption DEF Merged, FromNew, ApplyIncoming, Row, Item, Accepts

(* What a thread is at has the shape of an item of a request. *)
LEMMA AtItemType ==
    ASSUME TypeOK, NEW t \in Threads, AtItem(t)
    PROVE  /\ batch[t] \in Batches
           /\ batch[t].device \in Devices
           /\ ItemId(t) \in Ids \cup {BadId}
           /\ ItemIn(t) \in Item
<1>1. batch[t] \in Batches
  <2>1. batch[t] \in Batches \cup {NoBatch}
    BY DEF TypeOK
  <2>2. ASSUME batch[t] = NoBatch PROVE FALSE
    <3>1. DOMAIN batch[t].items = {}
      BY <2>2 DEF NoBatch
    <3>2. QED
      BY <3>1 DEF AtItem
  <2>3. QED
    BY <2>1, <2>2
<1>2. batch[t].items \in Seq([id: Ids \cup {BadId}, in: Item]) /\ batch[t].device \in Devices
  BY <1>1, BatchesAssumption
<1>3. batch[t].items[next[t]] \in [id: Ids \cup {BadId}, in: Item]
  BY <1>2, ElementOfSeq, LenProperties DEF AtItem
<1>4. QED
  BY <1>1, <1>2, <1>3 DEF ItemId, ItemIn

(* A query finds a row or none. *)
LEMMA FindByIdType ==
    ASSUME TypeOK, NEW t \in Threads, NEW id \in Ids
    PROVE  FindById(t, id) \in Row \cup {NoRow}
  BY DEF FindById, TypeOK

(* The row Read decides on. *)
LEMMA DecidedType ==
    ASSUME TypeOK, NEW t \in Threads, AtItem(t), ItemId(t) # BadId
    PROVE  Merged(FindById(t, ItemId(t)), ItemIn(t), batch[t].device) \in Row
  BY AtItemType, FindByIdType, MergedType

(* The rows after a commit. *)
LEMMA CommitType ==
    ASSUME TypeOK, NEW t \in Threads
    PROVE  [id \in Ids |-> IF written[t][id] = NoRow THEN todos[id]
                           ELSE written[t][id]] \in [Ids -> Row \cup {NoRow}]
  BY DEF TypeOK

(* The end of a transaction keeps the types. *)
LEMMA EndTxType ==
    ASSUME TypeOK, NEW t \in Threads, EndTx(t), todos' \in [Ids -> Row \cup {NoRow}],
           UNCHANGED <<requests, restarts, raced>>
    PROVE  TypeOK'
<1>1. Nothing \in [Ids -> Row \cup {NoRow}]
  BY DEF Nothing
<1>2. QED
  BY <1>1 DEF EndTx, TypeOK

(* The types hold when nothing has happened. *)
LEMMA TypeInit == Init => TypeOK
  BY DEF Init, TypeOK, Nothing

(* Every step of a thread keeps the types. *)
LEMMA ThreadStepType ==
    ASSUME TypeOK, WriteIsAtItem, NEW t \in Threads, ThreadStep(t) PROVE TypeOK'
<1>1. CASE Rollback(t)
  BY <1>1, EndTxType DEF Rollback, TypeOK
<1>2. CASE Read(t)
  <2>1. /\ FindById(t, ItemId(t)) \in Row \cup {NoRow}
        /\ Merged(FindById(t, ItemId(t)), ItemIn(t), batch[t].device) \in Row
    BY <1>2, AtItemType, DecidedType, FindByIdType DEF Read
  <2>2. next' \in [Threads -> Nat \ {0}] /\ pc' \in [Threads -> {"Idle", "Read", "Write"}]
    <3>1. next[t] + 1 \in Nat \ {0}
      BY DEF TypeOK
    <3>2. next' = [next EXCEPT ![t] = next[t] + 1] \/ next' = next
      BY <1>2 DEF Read
    <3>3. next' \in [Threads -> Nat \ {0}]
      BY <3>1, <3>2 DEF TypeOK
    <3>4. QED
      BY <1>2, <3>3 DEF Read, TypeOK
  <2>3. decided' \in [Threads -> Row \cup {NoRow}] /\ base' \in [Threads -> Row \cup {NoRow}]
    BY <1>2, <2>1 DEF Read, TypeOK
  <2>4. UNCHANGED <<todos, batch, written, requests, restarts, merged, raced>>
    BY <1>2 DEF Read
  <2>5. QED
    BY <2>2, <2>3, <2>4 DEF TypeOK
<1>3. CASE WriteRow(t)
  <2>1. ItemId(t) \in Ids /\ decided[t] \in Row
    BY <1>3 DEF WriteRow, WriteIsAtItem
  <2>2. written' \in [Threads -> [Ids -> Row \cup {NoRow}]]
    BY <1>3, <2>1 DEF WriteRow, TypeOK
  <2>3. raced' \subseteq Ids
    BY <1>3, <2>1 DEF WriteRow, TypeOK
  <2>4. QED
    BY <1>3, <2>2, <2>3 DEF WriteRow, TypeOK
<1>4. CASE Commit(t)
  BY <1>4, EndTxType, CommitType DEF Commit
<1>5. QED
  BY <1>1, <1>2, <1>3, <1>4 DEF ThreadStep, BadRequest, DuplicateKey, DeadlockAbort

(* Every step keeps the types. *)
LEMMA TypeNext == ASSUME TypeOK, WriteIsAtItem, [Next]_vars PROVE TypeOK'
<1>1. ASSUME NEW t \in Threads, ThreadStep(t) PROVE TypeOK'
  BY <1>1, ThreadStepType
<1>2. ASSUME NEW t \in Threads, NEW b \in Batches, Begin(t, b) PROVE TypeOK'
  BY <1>2 DEF Begin, TypeOK
<1>3. CASE Restart
  <2>1. Nothing \in [Ids -> Row \cup {NoRow}]
    BY DEF Nothing
  <2>2. QED
    BY <1>3, <2>1 DEF Restart, TypeOK
<1>4. CASE UNCHANGED vars
  BY <1>4 DEF vars, txVars, TypeOK
<1>5. QED
  BY <1>1, <1>2, <1>3, <1>4 DEF Next

-----------------------------------------------------------------------------
(* Transactions *)

(* The row a merge leaves holds the request's write, unless it is the row   *)
(* that was there.                                                          *)
LEMMA MergedIsAsked ==
    ASSUME NEW row \in Row \cup {NoRow}, NEW in \in Item, NEW d \in Devices,
           NEW id \in Ids, Merged(row, in, d) # row
    PROVE  AsWrite(id, Merged(row, in, d)) =
             [id |-> id, isDone |-> in.isDone, deleted |-> in.deleted,
              updatedAt |-> in.updatedAt, device |-> d]
  BY DEF Merged, FromNew, ApplyIncoming, AsWrite

(* Nothing has happened: no transaction holds anything. *)
LEMMA TxInit == Init => TxInv
  BY DEF Init, TxInv, IdleIsFree, WriteIsAtItem, WrittenIsAsked, PassedHasRow,
         NoBatch, Nothing

(* The same for one thread. *)
ThreadInv(u) ==
    /\ pc[u] = "Idle" => next[u] = 1 /\ written[u] = Nothing
    /\ pc[u] = "Write" => /\ AtItem(u) /\ ItemId(u) \in Ids
                          /\ decided[u] \in Row
                          /\ AsWrite(ItemId(u), decided[u]) \in WritesOf(batch[u])
    /\ \A id \in Ids :
         written[u][id] # NoRow => AsWrite(id, written[u][id]) \in WritesOf(batch[u])
    /\ \A i \in DOMAIN batch[u].items :
         i < next[u] => /\ batch[u].items[i].id \in Ids
                        /\ FindById(u, batch[u].items[i].id) # NoRow

(* The invariant of the transactions, thread by thread. *)
LEMMA TxInvIs == TxInv <=> \A u \in Threads : ThreadInv(u)
  BY DEF TxInv, ThreadInv, IdleIsFree, WriteIsAtItem, WrittenIsAsked, PassedHasRow

(* A row that is there stays. *)
RowsStay == \A id \in Ids : todos[id] # NoRow => todos'[id] # NoRow

(* A step leaves thread u alone. *)
SameThread(u) ==
    /\ pc'[u] = pc[u] /\ batch'[u] = batch[u] /\ next'[u] = next[u]
    /\ written'[u] = written[u] /\ decided'[u] = decided[u]

(* A thread that a step leaves alone loses nothing by it, as long as no row *)
(* vanishes.                                                                *)
LEMMA OthersKeep ==
    ASSUME NEW u \in Threads, ThreadInv(u), SameThread(u), RowsStay
    PROVE  ThreadInv(u)'
  BY DEF ThreadInv, SameThread, RowsStay, FindById, AtItem, ItemId

(* The end of a transaction leaves its thread with nothing. *)
LEMMA EndedHolds ==
    ASSUME NEW u \in Threads, pc'[u] = "Idle", next'[u] = 1,
           batch'[u] = NoBatch, written'[u] = Nothing
    PROVE  ThreadInv(u)'
<1>1. DOMAIN batch'[u].items = {}
  BY DEF NoBatch
<1>2. \A id \in Ids : written'[u][id] = NoRow
  BY DEF Nothing
<1>3. QED
  BY <1>1, <1>2 DEF ThreadInv

(* A transaction that ends, well or not, takes nothing from the others. *)
LEMMA EndTxKeeps ==
    ASSUME TypeOK, TxInv, NEW t \in Threads, EndTx(t), RowsStay
    PROVE  TxInv'
<1>1. ASSUME NEW u \in Threads PROVE ThreadInv(u)'
  <2>1. CASE u = t
    BY <2>1, EndedHolds DEF EndTx, TypeOK
  <2>2. CASE u # t
    <3>1. SameThread(u)
      BY <2>2 DEF EndTx, SameThread, TypeOK
    <3>2. QED
      BY <3>1, TxInvIs, OthersKeep
  <2>3. QED
    BY <2>1, <2>2
<1>2. QED
  BY <1>1 DEF TxInv, ThreadInv, IdleIsFree, WriteIsAtItem,
         WrittenIsAsked, PassedHasRow

(* What the commit of t leaves in the table. *)
Outcome(t) ==
    [id \in Ids |-> IF written[t][id] = NoRow THEN todos[id] ELSE written[t][id]]

(* A request begins with nothing written and nothing passed. *)
LEMMA BeginKeeps ==
    ASSUME TypeOK, TxInv, NEW t \in Threads, NEW b \in Batches, Begin(t, b)
    PROVE  TxInv'
<1>1. ASSUME NEW u \in Threads PROVE ThreadInv(u)'
  <2>1. CASE u = t
    <3>1. pc'[u] = "Read" /\ batch'[u] = b /\ next'[u] = 1 /\ written'[u] = Nothing
      BY <2>1 DEF Begin, TypeOK, TxInv, IdleIsFree
    <3>2. \A i \in DOMAIN b.items : ~(i < 1)
      BY BatchesAssumption, LenProperties
    <3>3. \A id \in Ids : written'[u][id] = NoRow
      BY <3>1 DEF Nothing
    <3>4. QED
      BY <3>1, <3>2, <3>3 DEF ThreadInv
  <2>2. CASE u # t
    <3>1. SameThread(u) /\ RowsStay
      BY <2>2 DEF Begin, SameThread, RowsStay, TypeOK
    <3>2. QED
      BY <3>1, TxInvIs, OthersKeep
  <2>3. QED
    BY <2>1, <2>2
<1>2. QED
  BY <1>1 DEF TxInv, ThreadInv, IdleIsFree, WriteIsAtItem,
         WrittenIsAsked, PassedHasRow

(* A read decides on a write of the request, or finds the row it passes. *)
LEMMA ReadKeeps ==
    ASSUME TypeOK, TxInv, NEW t \in Threads, Read(t) PROVE TxInv'
<1> DEFINE id == ItemId(t)
           existing == FindById(t, id)
           row == Merged(existing, ItemIn(t), batch[t].device)
<1>1. /\ id \in Ids /\ ItemIn(t) \in Item /\ batch[t].device \in Devices
      /\ existing \in Row \cup {NoRow} /\ row \in Row
  BY AtItemType, FindByIdType, DecidedType DEF Read
<1>2. pc[t] = "Read" /\ AtItem(t) /\ UNCHANGED <<todos, batch, written>>
  BY DEF Read
<1>3. ASSUME NEW u \in Threads PROVE ThreadInv(u)'
  <2>1. CASE u # t
    <3>1. SameThread(u) /\ RowsStay
      BY <2>1 DEF Read, SameThread, RowsStay, TypeOK
    <3>2. QED
      BY <3>1, TxInvIs, OthersKeep
  <2>2. CASE u = t /\ row = existing
    <3>1. pc'[t] = "Read" /\ next'[t] = next[t] + 1
      BY <1>2, <2>2 DEF Read, TypeOK
    <3>2. existing # NoRow
      BY <1>1, <2>2, NoRowAssumption
    <3>3. ASSUME NEW i \in DOMAIN batch[t].items, i < next[t] + 1
          PROVE  /\ batch[t].items[i].id \in Ids
                 /\ FindById(t, batch[t].items[i].id) # NoRow
      <4>1. i \in Nat /\ next[t] \in Nat
        BY AtItemType, <1>2, BatchesAssumption, LenProperties DEF TypeOK
      <4>2. CASE i = next[t]
        BY <4>2, <3>2, <1>1 DEF ItemId
      <4>3. CASE i # next[t]
        BY <4>1, <4>3, <3>3 DEF TxInv, PassedHasRow
      <4>4. QED
        BY <4>2, <4>3
    <3>4. QED
      BY <1>2, <2>2, <3>1, <3>3, TxInvIs DEF ThreadInv, FindById
  <2>3. CASE u = t /\ row # existing
    <3>1. pc'[t] = "Write" /\ next'[t] = next[t] /\ decided'[t] = row
      BY <1>2, <2>3 DEF Read, TypeOK
    <3>2. AsWrite(id, row) \in WritesOf(batch[t])
      <4>1. AsWrite(id, row) =
              [id |-> id, isDone |-> ItemIn(t).isDone, deleted |-> ItemIn(t).deleted,
               updatedAt |-> ItemIn(t).updatedAt, device |-> batch[t].device]
        BY <1>1, <2>3, MergedIsAsked
      <4>2. QED
        BY <4>1, <1>2 DEF WritesOf, AtItem, ItemId, ItemIn
    <3>3. QED
      BY <1>1, <1>2, <2>3, <3>1, <3>2, TxInvIs
         DEF ThreadInv, FindById, AtItem, ItemId
  <2>4. QED
    BY <2>1, <2>2, <2>3
<1>4. QED
  BY <1>3 DEF TxInv, ThreadInv, IdleIsFree, WriteIsAtItem,
         WrittenIsAsked, PassedHasRow

(* A write adds the decided row to its transaction. *)
LEMMA WriteKeeps ==
    ASSUME TypeOK, TxInv, NEW t \in Threads, WriteRow(t) PROVE TxInv'
<1> DEFINE id == ItemId(t)
<1>1. /\ AtItem(t) /\ id \in Ids /\ decided[t] \in Row
      /\ AsWrite(id, decided[t]) \in WritesOf(batch[t])
  BY DEF WriteRow, TxInv, WriteIsAtItem
<1>2. /\ pc'[t] = "Read" /\ next'[t] = next[t] + 1
      /\ written'[t] = [written[t] EXCEPT ![id] = decided[t]]
      /\ UNCHANGED <<todos, batch>>
  BY DEF WriteRow, TypeOK
<1>3. decided[t] # NoRow
  BY <1>1, NoRowAssumption
<1>4. /\ written'[t][id] = decided[t]
      /\ \A k \in Ids : k # id => written'[t][k] = written[t][k]
  BY <1>1, <1>2 DEF TypeOK
<1>5. ASSUME NEW u \in Threads PROVE ThreadInv(u)'
  <2>1. CASE u # t
    <3>1. SameThread(u) /\ RowsStay
      BY <2>1 DEF WriteRow, SameThread, RowsStay, TypeOK
    <3>2. QED
      BY <3>1, TxInvIs, OthersKeep
  <2>2. CASE u = t
    <3>1. ASSUME NEW k \in Ids, written'[t][k] # NoRow
          PROVE  AsWrite(k, written'[t][k]) \in WritesOf(batch[t])
      BY <1>1, <1>4, <3>1 DEF TxInv, WrittenIsAsked
    <3>2. ASSUME NEW i \in DOMAIN batch[t].items, i < next[t] + 1
          PROVE  /\ batch[t].items[i].id \in Ids
                 /\ FindById(t, batch[t].items[i].id)' # NoRow
      <4>1. i \in Nat /\ next[t] \in Nat
        BY AtItemType, <1>1, BatchesAssumption, LenProperties DEF TypeOK
      <4>2. CASE batch[t].items[i].id = id
        BY <4>2, <1>1, <1>2, <1>3, <1>4 DEF FindById
      <4>3. CASE batch[t].items[i].id # id
        <5>1. i < next[t]
          BY <4>1, <4>3, <3>2 DEF ItemId
        <5>2. /\ batch[t].items[i].id \in Ids
              /\ FindById(t, batch[t].items[i].id) # NoRow
          BY <5>1 DEF TxInv, PassedHasRow
        <5>3. QED
          BY <5>2, <4>3, <1>2, <1>4 DEF FindById
      <4>4. QED
        BY <4>2, <4>3
    <3>3. QED
      BY <2>2, <1>2, <3>1, <3>2 DEF ThreadInv, FindById
  <2>3. QED
    BY <2>1, <2>2
<1>6. QED
  BY <1>5 DEF TxInv, ThreadInv, IdleIsFree, WriteIsAtItem,
         WrittenIsAsked, PassedHasRow

(* No step takes a row away. *)
LEMMA RowsStayAtCommit ==
    ASSUME TypeOK, NEW t \in Threads, Commit(t) PROVE RowsStay
  BY DEF Commit, RowsStay, TypeOK

(* A thread's step keeps the invariant of the transactions. *)
LEMMA ThreadStepKeeps ==
    ASSUME TypeOK, TxInv, NEW t \in Threads, ThreadStep(t) PROVE TxInv'
<1>1. CASE Rollback(t)
  <2>1. EndTx(t) /\ RowsStay
    BY <1>1 DEF Rollback, RowsStay
  <2>2. QED
    BY <2>1, EndTxKeeps
<1>2. CASE Commit(t)
  <2>1. EndTx(t) /\ RowsStay
    BY <1>2, RowsStayAtCommit DEF Commit
  <2>2. QED
    BY <2>1, EndTxKeeps
<1>3. QED
  BY <1>1, <1>2, ReadKeeps, WriteKeeps
     DEF ThreadStep, BadRequest, DuplicateKey, DeadlockAbort

(* A restart leaves every thread with nothing. *)
LEMMA RestartKeeps == ASSUME TypeOK, Restart PROVE TxInv'
<1>1. ASSUME NEW u \in Threads PROVE ThreadInv(u)'
  BY EndedHolds DEF Restart
<1>2. QED
  BY <1>1 DEF TxInv, ThreadInv, IdleIsFree, WriteIsAtItem, WrittenIsAsked, PassedHasRow

(* Every step keeps the invariant of the transactions. *)
LEMMA TxNext == ASSUME TypeOK, TxInv, [Next]_vars PROVE TxInv'
<1>1. CASE UNCHANGED vars
  BY <1>1 DEF vars, txVars, TxInv, IdleIsFree, WriteIsAtItem, WrittenIsAsked,
              PassedHasRow, AtItem, ItemId, FindById
<1>2. QED
  BY <1>1, ThreadStepKeeps, BeginKeeps, RestartKeeps DEF Next

-----------------------------------------------------------------------------
(* Rows *)

(* A transaction that commits has written or found a row for every item of  *)
(* its request, and wrote nothing else.                                     *)
LEMMA CommitRows ==
    ASSUME TypeOK, TxInv, RowsAreCommitted, NEW t \in Threads, Commit(t)
    PROVE  RowsAreCommitted'
<1>1. /\ todos' = Outcome(t)
      /\ merged' = merged \cup WritesOf(batch[t])
      /\ ~AtItem(t)
  BY DEF Commit, Outcome
<1>2. ASSUME NEW id \in Ids, todos'[id] # NoRow
      PROVE  AsWrite(id, todos'[id]) \in merged'
  <2>1. CASE written[t][id] = NoRow
    BY <1>1, <1>2, <2>1 DEF Outcome, RowsAreCommitted
  <2>2. CASE written[t][id] # NoRow
    BY <1>1, <1>2, <2>2 DEF Outcome, TxInv, WrittenIsAsked
  <2>3. QED
    BY <2>1, <2>2
<1>3. ASSUME NEW id \in Ids, todos'[id] = NoRow, NEW w \in merged', w.id = id
      PROVE  FALSE
  <2>1. written[t][id] = NoRow /\ todos[id] = NoRow
    BY <1>1, <1>3 DEF Outcome
  <2>2. w \in WritesOf(batch[t])
    BY <1>1, <1>3, <2>1 DEF RowsAreCommitted
  <2>3. PICK i \in DOMAIN batch[t].items : batch[t].items[i].id = id
    BY <1>3, <2>2 DEF WritesOf
  <2>4. batch[t] \in Batches
    BY <2>3 DEF TypeOK, NoBatch
  <2>5. i < next[t]
    <3>1. batch[t].items \in Seq([id: Ids \cup {BadId}, in: Item])
      BY <2>4, BatchesAssumption
    <3>2. /\ DOMAIN batch[t].items = 1..Len(batch[t].items)
          /\ Len(batch[t].items) \in Nat
      BY <3>1, LenProperties
    <3>3. next[t] \in Nat \ {0} /\ next[t] \notin 1..Len(batch[t].items)
      BY <1>1, <3>2 DEF TypeOK, AtItem
    <3>4. QED
      BY <3>2, <3>3
  <2>6. FindById(t, id) # NoRow
    BY <2>3, <2>5 DEF TxInv, PassedHasRow
  <2>7. QED
    BY <2>1, <2>6 DEF FindById
<1>4. QED
  BY <1>2, <1>3 DEF RowsAreCommitted, AsWrite

(* Only a commit changes the rows. *)
LEMMA RowsNext ==
    ASSUME TypeOK, TxInv, RowsAreCommitted, [Next]_vars PROVE RowsAreCommitted'
<1>1. CASE UNCHANGED <<todos, merged>>
  BY <1>1 DEF RowsAreCommitted
<1>2. ASSUME NEW t \in Threads, ThreadStep(t) PROVE RowsAreCommitted'
  BY <1>1, <1>2, CommitRows
     DEF ThreadStep, BadRequest, DuplicateKey, DeadlockAbort, Rollback, Read, WriteRow
<1>3. QED
  BY <1>1, <1>2 DEF Next, Begin, Restart, vars

-----------------------------------------------------------------------------
(* Theorems *)

(* IInv is inductive. *)
LEMMA Inductive == Spec => []IInv
<1>1. Init => IInv
  <2>1. Init => RowsAreCommitted
    BY DEF Init, RowsAreCommitted, Nothing
  <2>2. QED
    BY <2>1, TypeInit, TxInit DEF IInv
<1>2. IInv /\ [Next]_vars => IInv'
  <2>1. SUFFICES ASSUME IInv, [Next]_vars PROVE IInv'
    OBVIOUS
  <2>2. TypeOK /\ TxInv /\ RowsAreCommitted /\ WriteIsAtItem
    BY <2>1 DEF IInv, TxInv
  <2>3. QED
    BY <2>1, <2>2, TypeNext, TxNext, RowsNext DEF IInv
<1>3. QED
  BY <1>1, <1>2, PTL DEF Spec

(* The server's variables keep their types, however many requests run at    *)
(* once, fail and are cut off (SyncService.push).                           *)
THEOREM TypeCorrect == Spec => []TypeOK
<1>1. IInv => TypeOK
  BY DEF IInv
<1>2. QED
  BY <1>1, Inductive, PTL

(* "Atomic within one transaction" (SyncService.java:37): for any threads,  *)
(* requests, failures, deadlocks and restarts, a row holds a write of a     *)
(* request that committed, and every item such a request names has a row.   *)
THEOREM FailuresLeaveNothing == Spec => []FailedRequestsLeaveNothing
<1>1. IInv => FailedRequestsLeaveNothing
  <2>1. SUFFICES ASSUME IInv PROVE FailedRequestsLeaveNothing
    OBVIOUS
  <2>2. ASSUME NEW id \in Ids, todos[id] # NoRow
        PROVE  Value[id] = AsWrite(id, todos[id]) /\ Value[id] # NoRow
    <3>1. Value[id] = AsWrite(id, todos[id])
      BY <2>2 DEF Value, AsWrite
    <3>2. todos[id] \in Row
      BY <2>1, <2>2 DEF IInv, TypeOK
    <3>3. AsWrite(id, todos[id]) \in Lww!Write
      BY <3>2 DEF AsWrite, Row, Lww!Write
    <3>4. QED
      BY <3>1, <3>3, NoRowIsNoWrite
  <2>3. ASSUME NEW id \in Ids, todos[id] = NoRow PROVE Value[id] = NoRow
    BY <2>3 DEF Value
  <2>4. QED
    BY <2>1, <2>2, <2>3 DEF IInv, RowsAreCommitted, FailedRequestsLeaveNothing
<1>2. QED
  BY <1>1, Inductive, PTL

-----------------------------------------------------------------------------
(***************************************************************************)
(* How the transactions of push keep the last-writer-wins promise: an item *)
(* loses a write only to an outdated read; and as long as no write is made *)
(* on one, as with one request at a time, push implements LwwStore.        *)
(***************************************************************************)

(* What item i of request b writes. *)
Asks(b, i) ==
    [id |-> b.items[i].id, isDone |-> b.items[i].in.isDone,
     deleted |-> b.items[i].in.deleted, updatedAt |-> b.items[i].in.updatedAt,
     device |-> b.device]

(* A row is not older than a write of its item. *)
Outdoes(row, w) ==
    \/ row.updatedAt > w.updatedAt
    \/ row.updatedAt = w.updatedAt /\ row.lastModifiedBy >= w.device

(* A row may take the place of one that was read. *)
Supersedes(row, old) ==
    old # NoRow =>
      /\ row.serverVersion > old.serverVersion
      /\ \/ row.updatedAt > old.updatedAt
         \/ /\ row.updatedAt = old.updatedAt
            /\ row.lastModifiedBy >= old.lastModifiedBy

(* The row lock: two open transactions hold no row both. *)
Exclusive ==
    \A t, u \in Threads, id \in Ids :
        written[t][id] # NoRow /\ written[u][id] # NoRow => t = u

(* What a thread is about to write is its decision on the row it read. *)
Decides ==
    \A t \in Threads : pc[t] = "Write" =>
      /\ decided[t] = Merged(base[t], ItemIn(t), batch[t].device)
      /\ decided[t] # base[t]

(* Only requests write. *)
MergedIsAskedFor == \A w \in merged : \E b \in Batches : w \in WritesOf(b)

(* A transaction replaces a row by a newer one, and has a row for each item *)
(* it has passed that is not older than what the request says of it.        *)
HoldsLatest(t, id) ==
    /\ written[t][id] # NoRow => Supersedes(written[t][id], todos[id])
    /\ \A i \in DOMAIN batch[t].items :
         i < next[t] /\ batch[t].items[i].id = id
           => Outdoes(FindById(t, id), Asks(batch[t], i))

(* A row is not older than any write of its item. *)
StoreHolds(id) == \A w \in merged : w.id = id => Outdoes(todos[id], w)

(* Inductive, where OnlyRacesLoseWrites alone is not: it says what the open *)
(* transactions will make of an item nobody raced for.                      *)
LwwInv ==
    /\ Exclusive /\ Decides /\ MergedIsAskedFor
    /\ \A id \in Ids \ raced :
         StoreHolds(id) /\ \A t \in Threads : HoldsLatest(t, id)

-----------------------------------------------------------------------------
(* Rows *)

(* The numbers of a row. *)
LEMMA RowNumbers ==
    ASSUME NEW row \in Row
    PROVE  /\ row # NoRow
           /\ row.updatedAt \in Int /\ row.lastModifiedBy \in Int
           /\ row.serverVersion \in Int
<1>1. /\ row.lastModifiedBy \in Devices /\ row.updatedAt \in Int
      /\ row.serverVersion \in Nat
  BY DEF Row
<1>2. row # NoRow
  BY NoRowAssumption
<1>3. \A d \in Devices : d \in Int
  BY DevicesAssumption
<1>4. QED
  BY <1>1, <1>2, <1>3

(* A decision supersedes the row it was made on, unless it is that row, and *)
(* outdoes what the request says either way.                                *)
LEMMA MergedOutdoes ==
    ASSUME NEW row \in Row \cup {NoRow}, NEW in \in Item, NEW d \in Devices
    PROVE  /\ Merged(row, in, d) # row => Supersedes(Merged(row, in, d), row)
           /\ \A w : w.updatedAt = in.updatedAt /\ w.device = d
                       => Outdoes(Merged(row, in, d), w)
<1>1. d \in Int /\ in.updatedAt \in Int
  BY DevicesAssumption DEF Item
<1>2. CASE row = NoRow
  BY <1>1, <1>2 DEF Merged, FromNew, Supersedes, Outdoes
<1>3. CASE row # NoRow
  <2>1. row \in Row
    BY <1>3
  <2>2. CASE Accepts(in.updatedAt, d, row.updatedAt, row.lastModifiedBy)
    <3>1. Merged(row, in, d) = ApplyIncoming(row, in, d)
      BY <1>3, <2>2 DEF Merged
    <3>2. QED
      BY <1>1, <2>1, <2>2, <3>1, RowNumbers
         DEF ApplyIncoming, Supersedes, Outdoes, Accepts
  <2>3. CASE ~Accepts(in.updatedAt, d, row.updatedAt, row.lastModifiedBy)
    <3>1. Merged(row, in, d) = row
      BY <1>3, <2>3 DEF Merged
    <3>2. QED
      BY <1>1, <2>1, <2>3, <3>1, RowNumbers DEF Outdoes, Accepts
  <2>4. QED
    BY <2>2, <2>3
<1>4. QED
  BY <1>2, <1>3

(* What supersedes a row outdoes what the row outdoes. *)
LEMMA OutdoesStill ==
    ASSUME NEW row \in Row, NEW old \in Row, Supersedes(row, old),
           NEW w, w.updatedAt \in Int, w.device \in Int, Outdoes(old, w)
    PROVE  Outdoes(row, w)
  BY RowNumbers DEF Supersedes, Outdoes

(* What supersedes a row supersedes what the row superseded. *)
LEMMA SupersedesStill ==
    ASSUME NEW row \in Row, NEW mid \in Row, NEW old \in Row \cup {NoRow},
           Supersedes(row, mid), Supersedes(mid, old)
    PROVE  Supersedes(row, old)
  BY RowNumbers DEF Supersedes

(* A request writes stamps and devices that can be compared. *)
LEMMA AsksType ==
    ASSUME NEW b \in Batches, NEW i \in DOMAIN b.items
    PROVE  /\ Asks(b, i).updatedAt \in Int /\ Asks(b, i).device \in Int
           /\ i \in Nat
<1>1. b.items \in Seq([id: Ids \cup {BadId}, in: Item]) /\ b.device \in Devices
  BY BatchesAssumption
<1>2. i \in 1..Len(b.items) /\ Len(b.items) \in Nat
  BY <1>1, LenProperties
<1>3. b.items[i] \in [id: Ids \cup {BadId}, in: Item]
  <2> DEFINE S == [id: Ids \cup {BadId}, in: Item]
  <2>1. b.items \in Seq(S)
    BY <1>1
  <2> HIDE DEF S
  <2>2. b.items[i] \in S
    BY <2>1, <1>2, ElementOfSeq
  <2>3. QED
    BY <2>2 DEF S
<1>4. b.items[i].in \in Item
  BY <1>3
<1>5. b.items[i].in.updatedAt \in Int
  BY <1>4 DEF Item
<1>6. b.device \in Int
  <2>1. \A d \in Devices : d \in Int
    BY DevicesAssumption
  <2>2. QED
    BY <1>1, <2>1
<1>7. QED
  BY <1>2, <1>5, <1>6 DEF Asks

(* A thread with an item has a request. *)
LEMMA BatchIsKnown ==
    ASSUME TypeOK, NEW t \in Threads, NEW i \in DOMAIN batch[t].items
    PROVE  batch[t] \in Batches
  BY DEF TypeOK, NoBatch

(* The writes of a request. *)
LEMMA WritesAre ==
    ASSUME NEW b PROVE WritesOf(b) = {Asks(b, i) : i \in DOMAIN b.items}
  BY DEF WritesOf, Asks

-----------------------------------------------------------------------------
(* Transactions *)

(* A step leaves thread u and its transaction alone. *)
SameTx(u) == SameThread(u) /\ base'[u] = base[u]

(* Nothing has happened. *)
LEMMA LwwInit == Init => LwwInv
  BY DEF Init, LwwInv, Exclusive, Decides, MergedIsAskedFor, StoreHolds, HoldsLatest,
         NoBatch, Nothing

(* A thread without a request holds nothing. *)
LEMMA EndedHoldsLatest ==
    ASSUME NEW u \in Threads, NEW id \in Ids, next'[u] = 1,
           batch'[u] = NoBatch, written'[u] = Nothing
    PROVE  HoldsLatest(u, id)'
<1>1. DOMAIN batch'[u].items = {}
  BY DEF NoBatch
<1>2. written'[u][id] = NoRow
  BY DEF Nothing
<1>3. QED
  BY <1>1, <1>2 DEF HoldsLatest

(* A thread and a row that a step leaves alone are as they were. *)
LEMMA UntouchedHoldsLatest ==
    ASSUME NEW u \in Threads, NEW id \in Ids, HoldsLatest(u, id),
           SameThread(u), todos'[id] = todos[id]
    PROVE  HoldsLatest(u, id)'
  BY DEF HoldsLatest, SameThread, FindById, Asks

(* A decision stands as long as its thread does not move. *)
LEMMA DecidesKept ==
    ASSUME Decides,
           \A u \in Threads : pc'[u] = "Write" => pc[u] = "Write" /\ SameTx(u)
    PROVE  Decides'
  BY DEF Decides, SameTx, SameThread, ItemIn

(* Where the threads only let go of rows, the locks stay exclusive. *)
LEMMA ExclusiveKept ==
    ASSUME Exclusive,
           \A u \in Threads, id \in Ids : written'[u][id] = NoRow \/ written'[u] = written[u]
    PROVE  Exclusive'
  BY DEF Exclusive

(* The end of a transaction, as the threads see it. *)
LEMMA EndTxIs ==
    ASSUME TypeOK, NEW t \in Threads, EndTx(t)
    PROVE  /\ pc'[t] = "Idle" /\ next'[t] = 1 /\ batch'[t] = NoBatch
           /\ written'[t] = Nothing
           /\ \A u \in Threads : u # t => SameTx(u)
  BY DEF EndTx, TypeOK, SameTx, SameThread

(* It leaves locks and decisions in order. *)
LEMMA EndTxFrees ==
    ASSUME TypeOK, Exclusive, Decides, NEW t \in Threads, EndTx(t)
    PROVE  Exclusive' /\ Decides'
<1>1. \A u \in Threads : pc'[u] = "Write" => pc[u] = "Write" /\ SameTx(u)
  BY EndTxIs DEF SameTx, SameThread
<1>2. ASSUME NEW u \in Threads, NEW id \in Ids
      PROVE  written'[u][id] = NoRow \/ written'[u] = written[u]
  BY EndTxIs DEF SameTx, SameThread, Nothing
<1>3. QED
  BY <1>1, <1>2, DecidesKept, ExclusiveKept

(* A step that leaves rows, locks and decisions alone keeps the invariant,  *)
(* if its own thread holds the latest after it.                             *)
LEMMA RowsLeftKeep ==
    ASSUME LwwInv, Exclusive', Decides', UNCHANGED <<todos, merged>>, raced \subseteq raced',
           \A u \in Threads, id \in Ids \ raced' :
             SameThread(u) \/ HoldsLatest(u, id)'
    PROVE  LwwInv'
<1>1. MergedIsAskedFor'
  BY DEF LwwInv, MergedIsAskedFor
<1>2. ASSUME NEW id \in Ids \ raced' PROVE StoreHolds(id)'
  BY <1>2 DEF LwwInv, StoreHolds, Outdoes
<1>3. ASSUME NEW id \in Ids \ raced', NEW u \in Threads PROVE HoldsLatest(u, id)'
  <2>1. HoldsLatest(u, id)
    BY <1>3 DEF LwwInv
  <2>2. QED
    BY <1>3, <2>1, UntouchedHoldsLatest
<1>4. QED
  BY <1>1, <1>2, <1>3 DEF LwwInv

(* A transaction that is undone. *)
LEMMA RollbackLww ==
    ASSUME TypeOK, LwwInv, NEW t \in Threads, Rollback(t) PROVE LwwInv'
<1>1. EndTx(t) /\ UNCHANGED <<todos, merged, raced>>
  BY DEF Rollback
<1>2. Exclusive' /\ Decides'
  BY <1>1, EndTxFrees DEF LwwInv
<1>3. ASSUME NEW u \in Threads, NEW id \in Ids \ raced'
      PROVE  SameThread(u) \/ HoldsLatest(u, id)'
  BY <1>1, EndTxIs, EndedHoldsLatest DEF SameTx
<1>4. QED
  BY <1>1, <1>2, <1>3, RowsLeftKeep

(* A restart undoes every transaction. *)
LEMMA RestartLww == ASSUME TypeOK, LwwInv, Restart PROVE LwwInv'
<1>1. /\ UNCHANGED <<todos, merged, raced>>
      /\ \A u \in Threads : /\ pc'[u] = "Idle" /\ next'[u] = 1
                            /\ batch'[u] = NoBatch /\ written'[u] = Nothing
  BY DEF Restart
<1>2. Exclusive' /\ Decides'
  BY <1>1 DEF Exclusive, Decides, Nothing
<1>3. ASSUME NEW u \in Threads, NEW id \in Ids \ raced' PROVE HoldsLatest(u, id)'
  BY <1>1, EndedHoldsLatest
<1>4. QED
  BY <1>1, <1>2, <1>3, RowsLeftKeep

(* A request that begins. *)
LEMMA BeginLww ==
    ASSUME TypeOK, TxInv, LwwInv, NEW t \in Threads, NEW b \in Batches, Begin(t, b)
    PROVE  LwwInv'
<1>1. /\ pc[t] = "Idle" /\ pc'[t] = "Read" /\ next'[t] = 1 /\ batch'[t] = b
      /\ written'[t] = Nothing
      /\ UNCHANGED <<todos, merged, raced, written>>
      /\ \A u \in Threads : u # t => SameTx(u)
  BY DEF Begin, TypeOK, TxInv, IdleIsFree, SameTx, SameThread
<1>2. Exclusive' /\ Decides'
  <2>1. \A u \in Threads : pc'[u] = "Write" => pc[u] = "Write" /\ SameTx(u)
    BY <1>1 DEF SameTx, SameThread
  <2>2. QED
    BY <1>1, <2>1, DecidesKept, ExclusiveKept DEF LwwInv
<1>3. ASSUME NEW id \in Ids PROVE HoldsLatest(t, id)'
  <2>1. \A i \in DOMAIN b.items : ~(i < 1)
    BY BatchesAssumption, LenProperties
  <2>2. written'[t][id] = NoRow
    BY <1>1 DEF Nothing
  <2>3. QED
    BY <1>1, <2>1, <2>2 DEF HoldsLatest
<1>4. QED
  BY <1>1, <1>2, <1>3, RowsLeftKeep DEF SameTx

(* A read decides, or passes a row that outdoes what the request says.      *)
LEMMA ReadLww ==
    ASSUME TypeOK, TxInv, LwwInv, NEW t \in Threads, Read(t) PROVE LwwInv'
<1> DEFINE id == ItemId(t)
           existing == FindById(t, id)
           row == Merged(existing, ItemIn(t), batch[t].device)
<1>1. /\ id \in Ids /\ ItemIn(t) \in Item /\ batch[t].device \in Devices
      /\ existing \in Row \cup {NoRow} /\ batch[t] \in Batches
  BY AtItemType, FindByIdType DEF Read
<1>2. /\ pc[t] = "Read" /\ AtItem(t)
      /\ UNCHANGED <<todos, batch, written, merged, raced>>
      /\ \A u \in Threads : u # t => SameTx(u)
  BY DEF Read, TypeOK, SameTx, SameThread
<1>3. Exclusive'
  BY <1>2, ExclusiveKept DEF LwwInv
<1>4. CASE row = existing
  <2>1. pc'[t] = "Read" /\ next'[t] = next[t] + 1
    BY <1>2, <1>4 DEF Read, TypeOK
  <2>2. Decides'
    <3>1. \A u \in Threads : pc'[u] = "Write" => pc[u] = "Write" /\ SameTx(u)
      BY <1>2, <2>1 DEF SameTx, SameThread
    <3>2. QED
      BY <3>1, DecidesKept DEF LwwInv
  <2>3. ASSUME NEW k \in Ids \ raced PROVE HoldsLatest(t, k)'
    <3>1. HoldsLatest(t, k)
      BY <2>3 DEF LwwInv
    <3>2. ASSUME NEW i \in DOMAIN batch[t].items, i < next[t] + 1,
                 batch[t].items[i].id = k
          PROVE  Outdoes(FindById(t, k), Asks(batch[t], i))
      <4>1. i \in Nat /\ next[t] \in Nat
        BY <1>1, AsksType DEF TypeOK
      <4>2. CASE i = next[t]
        <5>1. k = id /\ Asks(batch[t], i).updatedAt = ItemIn(t).updatedAt
              /\ Asks(batch[t], i).device = batch[t].device
          BY <3>2, <4>2 DEF Asks, ItemId, ItemIn
        <5>2. QED
          BY <1>1, <1>4, <5>1, MergedOutdoes
      <4>3. CASE i # next[t]
        <5>1. i < next[t]
          BY <3>2, <4>1, <4>3
        <5>2. QED
          BY <3>1, <3>2, <5>1 DEF HoldsLatest
      <4>4. QED
        BY <4>2, <4>3
    <3>3. QED
      BY <1>2, <2>1, <3>1, <3>2 DEF HoldsLatest, FindById
  <2>4. QED
    BY <1>2, <1>3, <2>2, <2>3, RowsLeftKeep DEF SameTx
<1>5. CASE row # existing
  <2>1. /\ pc'[t] = "Write" /\ next'[t] = next[t]
        /\ decided'[t] = row /\ base'[t] = existing
    BY <1>2, <1>5 DEF Read, TypeOK
  <2>2. Decides'
    <3>1. ASSUME NEW u \in Threads, pc'[u] = "Write", u # t
          PROVE  /\ decided'[u] = Merged(base'[u], ItemIn(u)', batch'[u].device)
                 /\ decided'[u] # base'[u]
      <4>1. SameTx(u)
        BY <3>1, <1>2
      <4>2. QED
        BY <3>1, <4>1 DEF LwwInv, Decides, SameTx, SameThread, ItemIn
    <3>2. ItemIn(t)' = ItemIn(t)
      BY <1>2, <2>1 DEF ItemIn
    <3>3. QED
      BY <1>2, <1>5, <2>1, <3>1, <3>2 DEF Decides
  <2>3. ASSUME NEW k \in Ids \ raced PROVE HoldsLatest(t, k)'
    <3>1. HoldsLatest(t, k)
      BY <2>3 DEF LwwInv
    <3>2. QED
      BY <3>1, <1>2, <2>1 DEF HoldsLatest, FindById
  <2>4. QED
    BY <1>2, <1>3, <2>2, <2>3, RowsLeftKeep DEF SameTx
<1>6. QED
  BY <1>4, <1>5

(* A row written on the strength of what its thread still reads is the      *)
(* latest; one written on an outdated read has raced.                       *)
LEMMA WriteLww ==
    ASSUME TypeOK, TxInv, LwwInv, NEW t \in Threads, WriteRow(t) PROVE LwwInv'
<1> DEFINE id == ItemId(t)
           existing == FindById(t, id)
<1>1. /\ AtItem(t) /\ id \in Ids /\ decided[t] \in Row /\ pc[t] = "Write"
  BY DEF WriteRow, TxInv, WriteIsAtItem
<1>2. /\ ItemIn(t) \in Item /\ batch[t].device \in Devices
      /\ batch[t] \in Batches /\ existing \in Row \cup {NoRow}
  BY <1>1, AtItemType, FindByIdType
<1>3. /\ pc'[t] = "Read" /\ next'[t] = next[t] + 1
      /\ written'[t] = [written[t] EXCEPT ![id] = decided[t]]
      /\ UNCHANGED <<todos, batch, merged>>
      /\ \A u \in Threads : u # t => SameTx(u)
      /\ raced' = raced \cup (IF base[t] = existing THEN {} ELSE {id})
  BY DEF WriteRow, TypeOK, SameTx, SameThread
<1>4. /\ written'[t][id] = decided[t]
      /\ \A k \in Ids : k # id => written'[t][k] = written[t][k]
      /\ \A u \in Threads : u # t => written'[u] = written[u]
  BY <1>1, <1>3 DEF TypeOK, SameTx, SameThread
<1>5. Exclusive'
  <2>1. \A u \in Threads : u # t => written[u][id] = NoRow
    BY <1>1 DEF WriteRow, WaitsFor
  <2>2. ASSUME NEW u \in Threads, NEW v \in Threads, NEW k \in Ids,
               written'[u][k] # NoRow, written'[v][k] # NoRow
        PROVE  u = v
    <3>1. CASE k = id
      BY <2>1, <2>2, <3>1, <1>4
    <3>2. CASE k # id
      <4>1. written[u][k] # NoRow /\ written[v][k] # NoRow
        BY <2>2, <3>2, <1>4
      <4>2. QED
        BY <4>1 DEF LwwInv, Exclusive
    <3>3. QED
      BY <3>1, <3>2
  <2>3. QED
    BY <2>2 DEF Exclusive
<1>6. Decides'
  <2>1. \A u \in Threads : pc'[u] = "Write" => pc[u] = "Write" /\ SameTx(u)
    BY <1>3 DEF SameTx, SameThread
  <2>2. QED
    BY <2>1, DecidesKept DEF LwwInv
<1>7. ASSUME NEW k \in Ids \ raced' PROVE HoldsLatest(t, k)'
  <2>1. HoldsLatest(t, k)
    BY <1>3, <1>7 DEF LwwInv
  <2>2. CASE k # id
    <3>1. \A i \in DOMAIN batch[t].items :
            i < next[t] + 1 /\ batch[t].items[i].id = k => i < next[t]
      <4>1. \A i \in DOMAIN batch[t].items : i \in Nat
        BY <1>2, AsksType
      <4>2. next[t] \in Nat
        BY DEF TypeOK
      <4>3. QED
        BY <2>2, <4>1, <4>2 DEF ItemId
    <3>2. QED
      BY <1>3, <1>4, <2>1, <2>2, <3>1 DEF HoldsLatest, FindById
  <2>3. CASE k = id
    <3>1. base[t] = existing
      BY <1>3, <1>7, <2>3
    <3>2. decided[t] = Merged(existing, ItemIn(t), batch[t].device) /\ decided[t] # existing
      BY <1>1, <3>1 DEF LwwInv, Decides
    <3>3. /\ Supersedes(decided[t], existing)
          /\ \A w : w.updatedAt = ItemIn(t).updatedAt /\ w.device = batch[t].device
                      => Outdoes(decided[t], w)
      BY <1>2, <3>2, MergedOutdoes
    <3>4. FindById(t, k)' = decided[t] /\ decided[t] # NoRow
      BY <1>1, <1>4, <2>3, NoRowAssumption DEF FindById
    <3>5. Supersedes(decided[t], todos[id])
      <4>1. CASE written[t][id] = NoRow
        BY <3>3, <4>1 DEF FindById
      <4>2. CASE written[t][id] # NoRow
        <5>1. existing \in Row /\ todos[id] \in Row \cup {NoRow}
              /\ Supersedes(existing, todos[id])
          BY <1>1, <1>2, <2>1, <2>3, <4>2 DEF FindById, HoldsLatest, TypeOK
        <5>2. QED
          BY <1>1, <3>3, <5>1, SupersedesStill
      <4>3. QED
        BY <4>1, <4>2
    <3>6. ASSUME NEW i \in DOMAIN batch[t].items, i < next[t] + 1,
                 batch[t].items[i].id = id
          PROVE  Outdoes(decided[t], Asks(batch[t], i))
      <4>1. /\ i \in Nat /\ next[t] \in Nat
            /\ Asks(batch[t], i).updatedAt \in Int /\ Asks(batch[t], i).device \in Int
        BY <1>2, AsksType DEF TypeOK
      <4>2. CASE i = next[t]
        BY <3>3, <4>2 DEF Asks, ItemIn
      <4>3. CASE i # next[t]
        <5>1. i < next[t]
          BY <3>6, <4>1, <4>3
        <5>2. existing # NoRow /\ Outdoes(existing, Asks(batch[t], i))
          BY <2>1, <2>3, <3>6, <5>1 DEF HoldsLatest, TxInv, PassedHasRow
        <5>3. existing \in Row
          BY <1>2, <5>2
        <5>4. QED
          BY <1>1, <3>3, <4>1, <5>2, <5>3, OutdoesStill
      <4>4. QED
        BY <4>2, <4>3
    <3>7. QED
      BY <1>3, <1>4, <2>3, <3>4, <3>5, <3>6 DEF HoldsLatest
  <2>4. QED
    BY <2>2, <2>3
<1>8. QED
  BY <1>3, <1>5, <1>6, <1>7, RowsLeftKeep DEF SameTx

(* A request that commits has passed all of its items. *)
LEMMA AllPassed ==
    ASSUME TypeOK, NEW t \in Threads, ~AtItem(t), NEW i \in DOMAIN batch[t].items
    PROVE  i < next[t]
<1>1. batch[t].items \in Seq([id: Ids \cup {BadId}, in: Item])
  BY BatchIsKnown, BatchesAssumption
<1>2. DOMAIN batch[t].items = 1..Len(batch[t].items) /\ Len(batch[t].items) \in Nat
  BY <1>1, LenProperties
<1>3. next[t] \in Nat \ {0} /\ next[t] \notin 1..Len(batch[t].items)
  BY <1>2 DEF TypeOK, AtItem
<1>4. QED
  BY <1>2, <1>3

(* A write that was merged can be compared. *)
LEMMA MergedNumbers ==
    ASSUME MergedIsAskedFor, NEW w \in merged
    PROVE  w.updatedAt \in Int /\ w.device \in Int
<1>1. PICK b \in Batches : w \in WritesOf(b)
  BY DEF MergedIsAskedFor
<1>2. PICK i \in DOMAIN b.items : w = Asks(b, i)
  BY <1>1, WritesAre
<1>3. QED
  BY <1>2, AsksType

(* A commit leaves rows that outdo what was merged before and what it       *)
(* merges, and passes them on to the transactions that read them.           *)
LEMMA CommitLww ==
    ASSUME TypeOK, TxInv, RowsAreCommitted, LwwInv, NEW t \in Threads, Commit(t)
    PROVE  LwwInv'
<1>1. /\ todos' = Outcome(t) /\ merged' = merged \cup WritesOf(batch[t])
      /\ ~AtItem(t) /\ EndTx(t) /\ raced' = raced
  BY DEF Commit, Outcome
<1>2. Exclusive' /\ Decides'
  BY <1>1, EndTxFrees DEF LwwInv
<1>3. MergedIsAskedFor'
  <2>1. ASSUME NEW w \in WritesOf(batch[t]) PROVE \E b \in Batches : w \in WritesOf(b)
    <3>1. PICK i \in DOMAIN batch[t].items : w = Asks(batch[t], i)
      BY <2>1, WritesAre
    <3>2. QED
      BY <2>1, <3>1, BatchIsKnown
  <2>2. QED
    BY <1>1, <2>1 DEF LwwInv, MergedIsAskedFor, WritesOf
<1>4. ASSUME NEW id \in Ids PROVE todos'[id] = FindById(t, id)
  BY <1>1 DEF Outcome, FindById
<1>5. ASSUME NEW id \in Ids \ raced, todos[id] # NoRow, written[t][id] # NoRow,
             NEW w, w.updatedAt \in Int, w.device \in Int, Outdoes(todos[id], w)
      PROVE  Outdoes(todos'[id], w)
  <2>1. Supersedes(written[t][id], todos[id])
    BY <1>5 DEF LwwInv, HoldsLatest
  <2>2. todos[id] \in Row /\ written[t][id] \in Row
    BY <1>5 DEF TypeOK
  <2>3. todos'[id] = written[t][id]
    BY <1>4, <1>5 DEF FindById
  <2>4. QED
    BY <1>5, <2>1, <2>2, <2>3, OutdoesStill
<1>6. ASSUME NEW id \in Ids \ raced, NEW w \in merged', w.id = id
      PROVE  Outdoes(todos'[id], w)
  <2>1. CASE w \in merged
    <3>1. todos[id] # NoRow /\ Outdoes(todos[id], w)
      BY <1>6, <2>1 DEF RowsAreCommitted, LwwInv, StoreHolds
    <3>2. w.updatedAt \in Int /\ w.device \in Int
      BY <2>1, MergedNumbers DEF LwwInv
    <3>3. CASE written[t][id] = NoRow
      BY <1>4, <3>1, <3>3 DEF FindById
    <3>4. CASE written[t][id] # NoRow
      BY <1>5, <3>1, <3>2, <3>4
    <3>5. QED
      BY <3>3, <3>4
  <2>2. CASE w \in WritesOf(batch[t])
    <3>1. PICK i \in DOMAIN batch[t].items : w = Asks(batch[t], i)
      BY <2>2, WritesAre
    <3>2. i < next[t] /\ batch[t].items[i].id = id
      BY <1>1, <1>6, <3>1, AllPassed DEF Asks
    <3>3. HoldsLatest(t, id)
      BY DEF LwwInv
    <3>4. Outdoes(FindById(t, id), w)
      BY <3>1, <3>2, <3>3 DEF HoldsLatest
    <3>5. QED
      BY <1>4, <3>4
  <2>3. QED
    BY <1>1, <1>6, <2>1, <2>2
<1>7. ASSUME NEW id \in Ids \ raced, NEW u \in Threads PROVE HoldsLatest(u, id)'
  <2>1. CASE u = t
    BY <1>1, <2>1, EndTxIs, EndedHoldsLatest
  <2>2. CASE u # t
    <3>1. SameThread(u) /\ HoldsLatest(u, id)
      BY <1>1, <2>2, EndTxIs DEF SameTx, LwwInv
    <3>2. CASE written[t][id] = NoRow
      <4>1. todos'[id] = todos[id]
        BY <1>4, <3>2 DEF FindById
      <4>2. QED
        BY <3>1, <4>1, UntouchedHoldsLatest
    <3>3. CASE written[t][id] # NoRow
      <4>1. written[u][id] = NoRow
        BY <2>2, <3>3 DEF LwwInv, Exclusive
      <4>2. ASSUME NEW i \in DOMAIN batch[u].items, i < next[u], batch[u].items[i].id = id
            PROVE  Outdoes(todos'[id], Asks(batch[u], i))
        <5>1. todos[id] # NoRow /\ Outdoes(todos[id], Asks(batch[u], i))
          BY <3>1, <4>1, <4>2 DEF HoldsLatest, FindById, TxInv, PassedHasRow
        <5>2. Asks(batch[u], i).updatedAt \in Int /\ Asks(batch[u], i).device \in Int
          BY <4>2, BatchIsKnown, AsksType
        <5>3. QED
          BY <1>5, <3>3, <5>1, <5>2
      <4>3. QED
        BY <3>1, <4>1, <4>2 DEF HoldsLatest, SameThread, FindById, Asks
    <3>4. QED
      BY <3>2, <3>3
  <2>3. QED
    BY <2>1, <2>2
<1>8. QED
  BY <1>1, <1>2, <1>3, <1>6, <1>7 DEF LwwInv, StoreHolds, Outdoes

(* Every step keeps the last-writer-wins invariant. *)
LEMMA LwwNext == ASSUME IInv, LwwInv, [Next]_vars PROVE LwwInv'
<1>1. TypeOK /\ TxInv /\ RowsAreCommitted
  BY DEF IInv
<1>2. ASSUME NEW t \in Threads, ThreadStep(t) PROVE LwwInv'
  BY <1>1, <1>2, RollbackLww, ReadLww, WriteLww, CommitLww
     DEF ThreadStep, BadRequest, DuplicateKey, DeadlockAbort
<1>3. CASE UNCHANGED vars
  <2>1. /\ UNCHANGED <<todos, merged, raced, written>>
        /\ \A u \in Threads : SameTx(u) /\ pc'[u] = pc[u]
    BY <1>3 DEF vars, txVars, SameTx, SameThread
  <2>2. Exclusive' /\ Decides'
    BY <2>1, ExclusiveKept, DecidesKept DEF LwwInv
  <2>3. QED
    BY <2>1, <2>2, RowsLeftKeep DEF SameTx
<1>4. QED
  BY <1>1, <1>2, <1>3, BeginLww, RestartLww DEF Next

(* The invariant of the rows and the transactions. *)
LEMMA LwwInductive == Spec => [](IInv /\ LwwInv)
<1>1. IInv /\ LwwInv /\ [Next]_vars => LwwInv'
  BY LwwNext
<1>2. QED
  BY <1>1, LwwInit, Inductive, PTL DEF Spec

-----------------------------------------------------------------------------
(* The latest write *)

(* Two writes of one item that outdo each other are one: a device stamps no *)
(* two of its edits of an item alike.                                       *)
LEMMA OneLatest ==
    ASSUME MergedIsAskedFor, NEW v \in merged, NEW w \in merged, v.id = w.id,
           Lww!Beats(v, w), Lww!Beats(w, v)
    PROVE  v = w
<1>1. v.updatedAt = w.updatedAt /\ v.device = w.device
  BY MergedNumbers DEF Lww!Beats
<1>2. PICK b \in Batches : v \in WritesOf(b)
  BY DEF MergedIsAskedFor
<1>3. PICK c \in Batches : w \in WritesOf(c)
  BY DEF MergedIsAskedFor
<1>4. PICK i \in DOMAIN b.items : v = Asks(b, i)
  BY <1>2, WritesAre
<1>5. PICK j \in DOMAIN c.items : w = Asks(c, j)
  BY <1>3, WritesAre
<1>6. b.items[i].in = c.items[j].in
  BY <1>1, <1>4, <1>5, UniqueStamps DEF Asks
<1>7. QED
  BY <1>1, <1>4, <1>5, <1>6 DEF Asks

(* An item nobody raced for holds the latest write that was merged.         *)
LEMMA ValueIsLatest ==
    ASSUME IInv, LwwInv, NEW id \in Ids \ raced
    PROVE  Value[id] = Lww!Latest(merged, id)
<1> DEFINE ofId == {w \in merged : w.id = id}
           held == AsWrite(id, todos[id])
<1>1. RowsAreCommitted /\ MergedIsAskedFor /\ StoreHolds(id)
  BY DEF IInv, LwwInv
<1>2. CASE todos[id] = NoRow
  BY <1>1, <1>2 DEF RowsAreCommitted, Value, Lww!Latest
<1>3. CASE todos[id] # NoRow
  <2>1. held \in ofId /\ Value[id] = held
    BY <1>1, <1>3 DEF RowsAreCommitted, Value, AsWrite
  <2>2. \A w \in ofId : Lww!Beats(held, w)
    BY <1>1 DEF StoreHolds, Outdoes, AsWrite, Lww!Beats
  <2>3. ASSUME NEW w \in ofId, \A v \in ofId : Lww!Beats(w, v) PROVE w = held
    BY <1>1, <2>1, <2>2, <2>3, OneLatest
  <2>4. (CHOOSE w \in ofId : \A v \in ofId : Lww!Beats(w, v)) = held
    BY <2>1, <2>2, <2>3
  <2>5. QED
    BY <2>1, <2>4 DEF Lww!Latest
<1>4. QED
  BY <1>2, <1>3

(* A row nobody raced for is replaced by a row of a higher version. *)
LEMMA SafeRowsGrow ==
    ASSUME IInv, LwwInv, [Next]_vars,
           NEW id \in Ids \ raced, todos[id] # NoRow, todos'[id] # todos[id]
    PROVE  todos'[id].serverVersion > todos[id].serverVersion
<1>1. PICK t \in Threads : Commit(t)
  BY DEF Next, ThreadStep, BadRequest, DuplicateKey, DeadlockAbort, Rollback, Read,
         WriteRow, Begin, Restart, vars
<1>2. written[t][id] # NoRow /\ todos'[id] = written[t][id]
  BY <1>1 DEF Commit
<1>3. Supersedes(written[t][id], todos[id])
  BY <1>2 DEF LwwInv, HoldsLatest
<1>4. QED
  BY <1>2, <1>3 DEF Supersedes

-----------------------------------------------------------------------------
(* One request at a time *)

OneThread == \A t, u \in Threads : t = u

(* A thread that is alone writes on the strength of what it still reads.    *)
ReadIsCurrent ==
    /\ raced = {}
    /\ \A t \in Threads : pc[t] = "Write" => base[t] = FindById(t, ItemId(t))

(* One thread races with nobody. *)
LEMMA SerialNext ==
    ASSUME OneThread, TypeOK, TxInv, ReadIsCurrent, [Next]_vars PROVE ReadIsCurrent'
<1>1. ASSUME NEW t \in Threads, \A u \in Threads : pc'[u] # "Write", raced' = raced
      PROVE  ReadIsCurrent'
  BY <1>1 DEF ReadIsCurrent
<1>2. ASSUME NEW t \in Threads, Read(t) PROVE ReadIsCurrent'
  <2>1. /\ pc[t] = "Read" /\ UNCHANGED <<todos, batch, written, raced>>
        /\ \A u \in Threads : u = t
    BY <1>2 DEF Read, OneThread
  <2>2. CASE pc' = pc
    BY <2>1, <2>2 DEF ReadIsCurrent
  <2>3. CASE pc' # pc
    <3>1. base'[t] = FindById(t, ItemId(t)) /\ next' = next
      BY <1>2, <2>3 DEF Read, TypeOK
    <3>2. FindById(t, ItemId(t))' = FindById(t, ItemId(t))
      BY <2>1, <3>1 DEF FindById, ItemId
    <3>3. QED
      BY <2>1, <3>1, <3>2 DEF ReadIsCurrent
  <2>4. QED
    BY <2>2, <2>3
<1>3. ASSUME NEW t \in Threads, WriteRow(t) PROVE ReadIsCurrent'
  <2>1. base[t] = FindById(t, ItemId(t)) /\ pc'[t] = "Read" /\ \A u \in Threads : u = t
    BY <1>3 DEF WriteRow, ReadIsCurrent, OneThread, TypeOK
  <2>2. raced' = raced
    BY <1>3, <2>1 DEF WriteRow
  <2>3. QED
    BY <1>1, <2>1, <2>2
<1>4. ASSUME NEW t \in Threads, EndTx(t), raced' = raced PROVE ReadIsCurrent'
  BY <1>1, <1>4, EndTxIs DEF OneThread
<1>5. ASSUME NEW t \in Threads, ThreadStep(t) PROVE ReadIsCurrent'
  BY <1>2, <1>3, <1>4, <1>5
     DEF ThreadStep, BadRequest, DuplicateKey, DeadlockAbort, Rollback, Commit
<1>6. ASSUME NEW t \in Threads, NEW b \in Batches, Begin(t, b) PROVE ReadIsCurrent'
  <2>1. pc'[t] = "Read" /\ raced' = raced /\ \A u \in Threads : u = t
    BY <1>6 DEF Begin, TypeOK, OneThread
  <2>2. QED
    BY <1>1, <2>1
<1>7. CASE Restart
  BY <1>7 DEF Restart, ReadIsCurrent
<1>8. CASE UNCHANGED vars
  BY <1>8 DEF vars, txVars, ReadIsCurrent, FindById, ItemId
<1>9. QED
  BY <1>5, <1>6, <1>7, <1>8 DEF Next

-----------------------------------------------------------------------------
(* Theorems *)

(* Whatever waits, fails, deadlocks and restarts, and however many requests *)
(* run at once, an item that was not written on an outdated read holds the  *)
(* latest write merged (MergePolicy.java:8-11).                             *)
THEOREM RacesOnlyLoseWrites == Spec => []OnlyRacesLoseWrites
<1>1. IInv /\ LwwInv => OnlyRacesLoseWrites
  BY ValueIsLatest DEF OnlyRacesLoseWrites
<1>2. QED
  BY <1>1, LwwInductive, PTL

(* No write has been made on an outdated read. *)
NoRaces == raced = {}

(* "Server-side monotone version" (TodoItem.h:11): as long as no write is   *)
(* made on an outdated read, a row changes only to a higher version.        *)
THEOREM UnracedVersionsGrow == Spec /\ []NoRaces => VersionsGrow
<1>1. IInv /\ LwwInv /\ NoRaces /\ [Next]_vars =>
        [\A id \in Ids : todos[id] # NoRow /\ todos'[id] # todos[id]
           => todos'[id].serverVersion > todos[id].serverVersion]_vars
  BY SafeRowsGrow DEF NoRaces
<1>2. QED
  BY <1>1, LwwInductive, PTL DEF Spec, VersionsGrow

(* The rows are what the store promises. *)
StoreIsLatest == Value = [id \in Ids |-> Lww!Latest(merged, id)]

(* As long as no write is made on an outdated read, the transactions of     *)
(* push, many at once, implement the last-writer-wins store: a commit       *)
(* merges the writes of its request in one step, and no other step changes  *)
(* the store (SyncService.push, MergePolicy.java:8-11).                     *)
THEOREM UnracedPushImplementsLww == Spec /\ []NoRaces => ImplementsLww
<1>1. Init => Lww!StoreInit
  BY DEF Init, Lww!StoreInit, Value, Nothing
<1>2. IInv /\ LwwInv /\ NoRaces => StoreIsLatest
  <2>1. IInv /\ LwwInv /\ NoRaces => \A id \in Ids : Value[id] = Lww!Latest(merged, id)
    BY ValueIsLatest DEF NoRaces
  <2>2. Value = [id \in Ids |-> Value[id]]
    BY DEF Value
  <2>3. QED
    BY <2>1, <2>2 DEF StoreIsLatest
<1>3. StoreIsLatest' /\ [Next]_vars => [Lww!Merge]_<<merged, Value>>
  <2>1. SUFFICES ASSUME StoreIsLatest', [Next]_vars PROVE Lww!Merge
    OBVIOUS
  <2>2. merged \subseteq merged'
    BY <2>1 DEF Next, ThreadStep, BadRequest, DuplicateKey, DeadlockAbort, Rollback,
                Read, WriteRow, Commit, Begin, Restart, vars
  <2>3. Value' = [id \in Ids |-> Lww!Latest(merged', id)]
    BY <2>1 DEF StoreIsLatest
  <2>4. QED
    BY <2>2, <2>3 DEF Lww!Merge
<1>4. QED
  BY <1>1, <1>2, <1>3, LwwInductive, PTL DEF Spec, ImplementsLww, Lww!StoreSpec

(* Where one request runs at a time no read is outdated when it is written  *)
(* on; the invariant says that the thread still reads what it decided on.   *)
THEOREM OneThreadNeverRaces == OneThread => (Spec => []NoRaces)
<1>1. Init => ReadIsCurrent
  BY DEF Init, ReadIsCurrent
<1>2. OneThread /\ IInv /\ ReadIsCurrent /\ [Next]_vars => ReadIsCurrent'
  BY SerialNext DEF IInv
<1>3. SUFFICES ASSUME OneThread PROVE Spec => []NoRaces
  OBVIOUS
<1>4. IInv /\ ReadIsCurrent /\ [Next]_vars => ReadIsCurrent'
  BY <1>2, <1>3
<1>5. ReadIsCurrent => NoRaces
  BY DEF ReadIsCurrent, NoRaces
<1>6. QED
  BY <1>1, <1>4, <1>5, Inductive, PTL DEF Spec

(* Hence with one request at a time push implements the store, and a row    *)
(* changes only to a higher version: what the run push_serial checks.       *)
THEOREM SerialPushImplementsLww ==
    OneThread => (Spec => ImplementsLww /\ VersionsGrow)
<1>1. SUFFICES ASSUME OneThread PROVE Spec => ImplementsLww /\ VersionsGrow
  OBVIOUS
<1>2. Spec => []NoRaces
  BY <1>1, OneThreadNeverRaces
<1>3. QED
  BY <1>2, UnracedPushImplementsLww, UnracedVersionsGrow, PTL

-----------------------------------------------------------------------------
(* Progress.  That requests end is out of the prover's reach, but what it   *)
(* rests on is not: there is always a thread with a step, and each thread   *)
(* runs out of steps.                                                       *)

(* Threads that all wait for one another hold a ring: a smallest set of     *)
(* them has nobody in it for whom nobody waits.                             *)
LEMMA WaitingMakesRing ==
    ASSUME NEW S \in SUBSET Threads, S # {}, \A t \in S : WaitsFor(t) \cap S # {}
    PROVE  \E t \in S : InDeadlock(t)
<1> DEFINE Closed(T) == T # {} /\ \A t \in T : WaitsFor(t) \cap T # {}
           closed == {T \in SUBSET S : Closed(T)}
<1>1. PICK ring \in closed :
         \A T \in closed : <<T, ring>> \notin StrictSubsetOrdering(Threads)
  <2>1. IsWellFoundedOn(StrictSubsetOrdering(Threads), SUBSET Threads)
    BY ThreadsAssumption, FS_FiniteSubsetsOfFinite, FS_StrictSubsetOrderingWellFounded
  <2>2. S \in closed /\ closed \subseteq SUBSET Threads
    OBVIOUS
  <2> HIDE DEF closed
  <2>3. closed # {}
    BY <2>2
  <2>4. QED
    BY <2>1, <2>2, <2>3, WFMin
<1>2. ASSUME NEW u \in ring, \A v \in ring : u \notin WaitsFor(v) PROVE FALSE
  <2> DEFINE T == ring \ {u}
  <2>1. PICK w \in ring : w \in WaitsFor(u)
    OBVIOUS
  <2>2. w \in T
    BY <2>1 DEF WaitsFor
  <2>3. \A t \in T : WaitsFor(t) \cap T # {}
    BY <1>2
  <2>4. T \in closed
    BY <2>2, <2>3
  <2>5. <<T, ring>> \in StrictSubsetOrdering(Threads)
    BY DEF StrictSubsetOrdering
  <2>6. QED
    BY <1>1, <2>4, <2>5
<1>3. \A u \in ring : WaitsFor(u) \cap ring # {} /\ \E v \in ring : u \in WaitsFor(v)
  BY <1>2
<1>4. PICK t \in ring : TRUE
  OBVIOUS
<1>5. InDeadlock(t) /\ t \in S
  BY <1>3 DEF InDeadlock
<1>6. QED
  BY <1>5

(* Who waits, waits for a thread that runs a transaction. *)
LEMMA WaitsForBusy ==
    ASSUME IInv, NEW t \in Threads, NEW u \in WaitsFor(t) PROVE pc[u] # "Idle"
<1>1. pc[t] = "Write" /\ u \in Threads /\ written[u][ItemId(t)] # NoRow
  BY DEF WaitsFor
<1>2. ItemId(t) \in Ids
  BY <1>1 DEF IInv, TxInv, WriteIsAtItem
<1>3. pc[u] = "Idle" => written[u] = Nothing
  BY <1>1 DEF IInv, TxInv, IdleIsFree
<1>4. QED
  BY <1>1, <1>2, <1>3 DEF Nothing

(* While there are requests, one of the threads has a step, however many    *)
(* wait for each other's rows (TodoDao's writes in SyncService.push).       *)
THEOREM NeverAllStuck == Spec => []SomeoneGoesOn
<1>1. ASSUME IInv, NEW b \in Threads, pc[b] # "Idle", \A t \in Threads : ~CanGoOn(t)
      PROVE  FALSE
  <2> DEFINE S == {t \in Threads : pc[t] # "Idle"}
  <2>1. ASSUME NEW t \in S PROVE WaitsFor(t) \cap S # {}
    <3>1. pc[t] = "Write" /\ WaitsFor(t) # {}
      BY <1>1 DEF CanGoOn, IInv, TypeOK
    <3>2. \A u \in WaitsFor(t) : u \in S
      BY <1>1, WaitsForBusy DEF WaitsFor
    <3>3. QED
      BY <3>1, <3>2
  <2>2. \E t \in S : InDeadlock(t)
    BY <1>1, <2>1, WaitingMakesRing
  <2>3. QED
    BY <1>1, <2>2 DEF CanGoOn
<1>2. IInv => SomeoneGoesOn
  BY <1>1 DEF SomeoneGoesOn
<1>3. QED
  BY <1>2, Inductive, PTL

(* A thread with a request is at one of its items, or behind the last.      *)
InRequest ==
    \A t \in Threads : pc[t] # "Idle" =>
        batch[t] \in Batches /\ next[t] <= Len(batch[t].items) + 1

(* The numbers of a thread with a request. *)
LEMMA RequestNumbers ==
    ASSUME TypeOK, InRequest, NEW t \in Threads, pc[t] # "Idle"
    PROVE  /\ Len(batch[t].items) \in Nat
           /\ DOMAIN batch[t].items = 1..Len(batch[t].items)
           /\ next[t] \in 1..(Len(batch[t].items) + 1)
<1>1. batch[t].items \in Seq([id: Ids \cup {BadId}, in: Item])
  BY BatchesAssumption DEF InRequest
<1>2. Len(batch[t].items) \in Nat /\ DOMAIN batch[t].items = 1..Len(batch[t].items)
  BY <1>1, LenProperties
<1>3. next[t] \in Nat \ {0} /\ next[t] <= Len(batch[t].items) + 1
  BY DEF TypeOK, InRequest
<1>4. QED
  BY <1>2, <1>3

(* What a step does to a thread's place in its request. *)
Stays(u) == pc'[u] = pc[u] /\ batch'[u] = batch[u] /\ next'[u] = next[u]

GetsOn(u) ==
    \/ pc'[u] = "Idle"
    \/ /\ pc[u] = "Read" /\ pc'[u] = "Write" /\ batch'[u] = batch[u] /\ next'[u] = next[u]
    \/ /\ pc[u] # "Idle" /\ AtItem(u) /\ pc'[u] = "Read"
       /\ batch'[u] = batch[u] /\ next'[u] = next[u] + 1

Starts(u) == pc[u] = "Idle" /\ pc'[u] = "Read" /\ batch'[u] \in Batches /\ next'[u] = 1

(* Each step of the server lets its threads stay, get on, or start. *)
LEMMA ThreadsMove ==
    ASSUME TypeOK, TxInv, [Next]_vars, NEW u \in Threads
    PROVE  Stays(u) \/ GetsOn(u) \/ Starts(u)
<1>1. ASSUME NEW t \in Threads, EndTx(t) PROVE Stays(u) \/ GetsOn(u)
  BY <1>1 DEF EndTx, Stays, GetsOn, TypeOK
<1>2. ASSUME NEW t \in Threads, Read(t) PROVE Stays(u) \/ GetsOn(u)
  <2>1. CASE u # t
    BY <1>2, <2>1 DEF Read, Stays, TypeOK
  <2>2. CASE u = t
    <3>1. /\ pc[u] = "Read" /\ AtItem(u) /\ batch'[u] = batch[u]
          /\ \/ pc'[u] = "Read" /\ next'[u] = next[u] + 1
             \/ pc'[u] = "Write" /\ next'[u] = next[u]
      BY <1>2, <2>2 DEF Read, TypeOK
    <3>2. QED
      BY <3>1 DEF GetsOn
  <2>3. QED
    BY <2>1, <2>2
<1>3. ASSUME NEW t \in Threads, WriteRow(t) PROVE Stays(u) \/ GetsOn(u)
  <2>1. CASE u # t
    BY <1>3, <2>1 DEF WriteRow, Stays, TypeOK
  <2>2. CASE u = t
    <3>1. /\ pc[u] = "Write" /\ AtItem(u) /\ batch'[u] = batch[u]
          /\ pc'[u] = "Read" /\ next'[u] = next[u] + 1
      BY <1>3, <2>2 DEF WriteRow, TypeOK, TxInv, WriteIsAtItem
    <3>2. QED
      BY <3>1 DEF GetsOn
  <2>3. QED
    BY <2>1, <2>2
<1>4. ASSUME NEW t \in Threads, NEW b \in Batches, Begin(t, b) PROVE Stays(u) \/ Starts(u)
  BY <1>4 DEF Begin, Stays, Starts, TypeOK, TxInv, IdleIsFree
<1>5. CASE Restart
  BY <1>5 DEF Restart, GetsOn
<1>6. CASE UNCHANGED vars
  BY <1>6 DEF vars, txVars, Stays
<1>7. ASSUME NEW t \in Threads, ThreadStep(t) PROVE Stays(u) \/ GetsOn(u)
  BY <1>1, <1>2, <1>3, <1>7
     DEF ThreadStep, BadRequest, DuplicateKey, DeadlockAbort, Rollback, Commit
<1>8. QED
  BY <1>4, <1>5, <1>6, <1>7 DEF Next

(* A thread stays within its request. *)
LEMMA InRequestNext ==
    ASSUME TypeOK, TxInv, InRequest, [Next]_vars PROVE InRequest'
<1> SUFFICES ASSUME NEW u \in Threads, pc'[u] # "Idle"
             PROVE  batch'[u] \in Batches /\ next'[u] <= Len(batch'[u].items) + 1
  BY DEF InRequest
<1>1. CASE Stays(u)
  BY <1>1 DEF Stays, InRequest
<1>2. CASE GetsOn(u)
  <2>1. pc[u] # "Idle" /\ batch'[u] = batch[u]
    BY <1>2 DEF GetsOn
  <2>2. CASE next'[u] = next[u]
    BY <2>1, <2>2 DEF InRequest
  <2>3. CASE AtItem(u) /\ next'[u] = next[u] + 1
    BY <2>1, <2>3, RequestNumbers DEF AtItem, InRequest
  <2>4. QED
    BY <1>2, <2>2, <2>3 DEF GetsOn
<1>3. CASE Starts(u)
  <2>1. batch'[u].items \in Seq([id: Ids \cup {BadId}, in: Item])
    BY <1>3, BatchesAssumption DEF Starts
  <2>2. Len(batch'[u].items) \in Nat
    BY <2>1, LenProperties
  <2>3. QED
    BY <1>3, <2>2 DEF Starts
<1>4. QED
  BY <1>1, <1>2, <1>3, ThreadsMove

(* A thread that gets on has fewer statements before it. *)
LEMMA GetsOnCounts ==
    ASSUME TypeOK, InRequest, NEW u \in Threads, pc[u] # "Idle", GetsOn(u)
    PROVE  StatementsLeft(u)' < StatementsLeft(u)
<1> DEFINE n == Len(batch[u].items)
<1>1. n \in Nat /\ next[u] \in 1..(n + 1) /\ DOMAIN batch[u].items = 1..n
  BY RequestNumbers
<1>2. StatementsLeft(u) = 2 * (n + 1 - next[u]) + (IF pc[u] = "Read" THEN 2 ELSE 1)
  BY DEF StatementsLeft
<1>3. CASE pc'[u] = "Idle"
  <2>1. StatementsLeft(u)' = 0
    BY <1>3 DEF StatementsLeft
  <2>2. QED
    BY <1>1, <1>2, <2>1
<1>4. CASE pc[u] = "Read" /\ pc'[u] = "Write" /\ batch'[u] = batch[u] /\ next'[u] = next[u]
  <2>1. StatementsLeft(u)' = 2 * (n + 1 - next[u]) + 1
    BY <1>4 DEF StatementsLeft
  <2>2. QED
    BY <1>1, <1>2, <1>4, <2>1
<1>5. CASE pc'[u] = "Read" /\ AtItem(u) /\ batch'[u] = batch[u] /\ next'[u] = next[u] + 1
  <2>1. StatementsLeft(u)' = 2 * (n + 1 - (next[u] + 1)) + 2
    BY <1>5 DEF StatementsLeft
  <2>2. next[u] \in Int /\ n \in Int
    BY <1>1
  <2>3. PICK k \in {1, 2} : StatementsLeft(u) = 2 * (n + 1 - next[u]) + k
    BY <1>2
  <2>4. QED
    <3> HIDE DEF n
    <3>1. QED
      BY <2>1, <2>2, <2>3
<1>6. \/ pc'[u] = "Idle"
      \/ pc[u] = "Read" /\ pc'[u] = "Write" /\ batch'[u] = batch[u] /\ next'[u] = next[u]
      \/ pc'[u] = "Read" /\ AtItem(u) /\ batch'[u] = batch[u] /\ next'[u] = next[u] + 1
  BY DEF GetsOn
<1> HIDE DEF n
<1>7. QED
  BY <1>3, <1>4, <1>5, <1>6

(* Whatever the other threads do, a thread never goes back in its request:  *)
(* a request of n items ends after 2 n + 2 statements of its own at most.   *)
THEOREM RequestsGetOn == Spec => StatementsRunOut
<1>1. Init => InRequest
  BY DEF Init, InRequest
<1>2. IInv /\ InRequest /\ [Next]_vars => InRequest'
  BY InRequestNext DEF IInv
<1>3. IInv /\ InRequest /\ [Next]_vars =>
        \A t \in Threads : pc[t] # "Idle" =>
          \/ StatementsLeft(t)' < StatementsLeft(t)
          \/ pc'[t] = pc[t] /\ next'[t] = next[t]
  BY ThreadsMove, GetsOnCounts DEF IInv, Stays, Starts
<1>4. QED
  BY <1>1, <1>2, <1>3, Inductive, PTL DEF Spec, StatementsRunOut

=============================================================================
