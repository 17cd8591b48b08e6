--------------------------- MODULE TodoSyncProofs ---------------------------
(* Theorems about TodoSync, for any devices, items, clocks and bounds. *)
EXTENDS TodoSync, TLAPS, FiniteSetTheorems

(* What the steps of the protocol hand around has the shape TypeOK says.   *)
LEMMA MergedType ==
    ASSUME NEW row \in Row \cup {NoRow}, NEW in \in Item, NEW d \in Devices
    PROVE  Merged(row, in, d) \in Row
  BY DevicesAssumption DEF Merged, FromNew, ApplyIncoming, Row, Item, Accepts

(* What the server answers for a row has the shape of an answer. *)
LEMMA ToDtoType == ASSUME NEW row \in Row PROVE ToDto(row) \in Dto
  BY DEF ToDto, Row, Dto

(* A row taken from an answer is a row of the repository. *)
LEMMA ItemFromWireType ==
    ASSUME NEW dto \in Dto PROVE ItemFromWire(dto) \in Local
  BY DEF ItemFromWire, Dto, Local

(* A pushed item has the shape the server expects. *)
LEMMA ItemToWireType ==
    ASSUME NEW it \in Local PROVE ItemToWire(it) \in Item
  BY DEF ItemToWire, Item, Local

(* The list model holds rows of the repository. *)
LEMMA ListAllType ==
    ASSUME NEW rows \in [Ids -> Local \cup {NoRow}]
    PROVE  ListAll(rows) \in [Ids -> Local \cup {NoRow}]
  BY DEF ListAll

(* A device stamps its edits with an integer. *)
LEMMA NowMsType == ASSUME TypeOK, NEW d \in Devices PROVE NowMs(d) \in Int
  BY SkewAssumption DEF TypeOK, NowMs

(* A merge leaves rows in the server's table. *)
LEMMA MergedTodosType ==
    ASSUME TypeOK, NEW items \in [Ids -> Item \cup {NoRow}], NEW d \in Devices
    PROVE  MergedTodos(items, d) \in [Ids -> Row \cup {NoRow}]
  BY MergedType DEF MergedTodos, TypeOK

(* The repository after any of the writes an answer may cause. *)
LEMMA WrittenType ==
    ASSUME TypeOK, NEW d \in Devices, NEW ids \in SUBSET Ids,
           \A id \in ids : answer[d][id] # NoRow
    PROVE  Written(d, ids) \in [Ids -> Local \cup {NoRow}]
<1>1. \A id \in ids : ItemFromWire(answer[d][id]) \in Local
  BY ItemFromWireType DEF TypeOK
<1>2. QED
  BY <1>1 DEF Written, TypeOK

(* A worker that stops leaves its variables at their initial values. *)
LEMMA EngineGoneType ==
    ASSUME TypeOK, NEW d \in Devices, EngineGone(d)
    PROVE  /\ pc' \in [Devices -> Stage]
           /\ attempt' \in [Devices -> Nat]
           /\ cursor' \in [Devices -> Int]
           /\ request' \in [Devices -> [Ids -> Item \cup {NoRow}]]
           /\ answer' \in [Devices -> [Ids -> Dto \cup {NoRow}]]
           /\ serverTime' \in [Devices -> Int]
<1>1. Nothing \in [Ids -> Item \cup {NoRow}] /\ Nothing \in [Ids -> Dto \cup {NoRow}]
  BY DEF Nothing
<1>2. QED
  BY <1>1 DEF EngineGone, TypeOK, Stage, Epoch

(* A request given up is still a request. *)
LEMMA ZombieType ==
    ASSUME TypeOK, NEW d \in Devices, LeaveZombie(d)
    PROVE  zombies' \subseteq [device: Devices, items: [Ids -> Item \cup {NoRow}]]
  BY DEF LeaveZombie, TypeOK

(* What the list shows is stored: removeItem finds its row.                *)
ShownIsStored ==
    \A d \in Devices, id \in Ids : view[d][id] # NoRow => repo[d][id] # NoRow

(* The types hold when nothing has happened. *)
LEMMA TypeInit == Init => TypeOK /\ ShownIsStored
  BY TimeAssumption DEF Init, TypeOK, Nothing, Stage, Epoch, ShownIsStored

(* The user's three edits. *)
LEMMA WriteLocalType ==
    ASSUME TypeOK, NEW d \in Devices, NEW id \in Ids, NEW it \in Local,
           WriteLocal(d, id, it)
    PROVE  TypeOK'
<1>1. repo' \in [Devices -> [Ids -> Local \cup {NoRow}]]
  BY DEF WriteLocal, TypeOK
<1>2. ListAll(repo'[d]) \in [Ids -> Local \cup {NoRow}]
  BY <1>1, ListAllType
<1>3. view' \in [Devices -> [Ids -> Local \cup {NoRow}]]
  BY <1>2 DEF WriteLocal, TypeOK
<1>4. lastEdit' \in [Devices -> Int] /\ edits' \in Nat
  BY NowMsType DEF WriteLocal, TypeOK
<1>5. QED
  BY <1>1, <1>3, <1>4 DEF WriteLocal, TypeOK, serverVars, engineVars

(* Whatever the user does keeps the types. *)
LEMMA UserStepType ==
    ASSUME TypeOK, ShownIsStored, NEW d \in Devices, UserStep(d)
    PROVE  TypeOK'
<1>1. CASE StartSync(d)
  BY <1>1 DEF StartSync, TypeOK, Stage, serverVars, deviceVars
<1>2. ASSUME NEW id \in Ids, AddItem(d, id) PROVE TypeOK'
  <2>1. [isDone |-> FALSE, deleted |-> FALSE, updatedAt |-> NowMs(d),
         serverVersion |-> 0, dirty |-> TRUE] \in Local
    BY NowMsType DEF Local
  <2>2. QED
    BY <1>2, <2>1, WriteLocalType DEF AddItem
<1>3. ASSUME NEW id \in Ids, SetDone(d, id) PROVE TypeOK'
  <2>1. view[d][id] \in Local
    BY <1>3 DEF SetDone, TypeOK
  <2>2. Update(d, [view[d][id] EXCEPT !.isDone = ~view[d][id].isDone]) \in Local
    BY <2>1, NowMsType DEF Update, Local
  <2>3. QED
    BY <1>3, <2>2, WriteLocalType DEF SetDone
<1>4. ASSUME NEW id \in Ids, RemoveItem(d, id) PROVE TypeOK'
  <2>1. repo[d][id] \in Local
    BY <1>4 DEF TypeOK, RemoveItem, ShownIsStored
  <2>2. Remove(d, repo[d][id]) \in Local
    BY <2>1, NowMsType DEF Remove, Local
  <2>3. QED
    BY <1>4, <2>2, WriteLocalType DEF RemoveItem
<1>5. QED
  BY <1>1, <1>2, <1>3, <1>4 DEF UserStep
(* A number of failed writes is a number. *)
LEMMA FailedIsFinite ==
    ASSUME NEW failed \in SUBSET Ids PROVE Cardinality(failed) \in Nat
  BY IdsAssumption, FS_Subset, FS_CardinalityType

(* The two steps of the server that answer a pull. *)
LEMMA PullType ==
    ASSUME TypeOK, NEW d \in Devices, PullQuery(d) \/ PullStamp(d)
    PROVE  TypeOK'
<1>1. CASE PullQuery(d)
  <2>1. [id \in Ids |-> IF id \in UpdatedAfter(todos, cursor[d])
                        THEN ToDto(todos[id]) ELSE NoRow]
           \in [Ids -> Dto \cup {NoRow}]
    BY ToDtoType DEF UpdatedAfter, TypeOK
  <2>2. QED
    BY <1>1, <2>1
    DEF PullQuery, TypeOK, Stage, serverVars, deviceVars
<1>2. CASE PullStamp(d)
  BY <1>2 DEF PullStamp, TypeOK, Stage, serverVars, deviceVars
<1>3. QED
  BY <1>1, <1>2

(* The steps that write what a pull or a push answered. *)
LEMMA ApplyType ==
    ASSUME TypeOK, NEW d \in Devices, NEW failed \in SUBSET Ids,
           PullApply(d, failed) \/ PushApply(d, failed)
    PROVE  TypeOK'
<1>1. Cardinality(failed) \in Nat
  BY FailedIsFinite
<1>2. Nothing \in [Ids -> Item \cup {NoRow}] /\ Nothing \in [Ids -> Dto \cup {NoRow}]
  BY DEF Nothing
<1>3. CASE PullApply(d, failed)
  <2>1. Written(d, PullWrites(d) \ failed) \in [Ids -> Local \cup {NoRow}]
    BY WrittenType DEF PullWrites
  <2>2. behind' \subseteq Devices \X Ids
    BY <1>3 DEF PullApply, TypeOK
  <2>3. faults' \in Nat
    BY <1>1, <1>3 DEF PullApply, TypeOK
  <2>4. repo' \in [Devices -> [Ids -> Local \cup {NoRow}]]
    BY <1>3, <2>1 DEF PullApply, TypeOK
  <2>5. answer' \in [Devices -> [Ids -> Dto \cup {NoRow}]]
    BY <1>2, <1>3 DEF PullApply, TypeOK
  <2>6. /\ pc' \in [Devices -> Stage]
        /\ cursor' \in [Devices -> Int]
        /\ serverTime' \in [Devices -> Int]
    BY <1>3 DEF PullApply, TypeOK, Stage, Epoch
  <2>7. UNCHANGED <<now, todos, zombies, meta, view, lastEdit, edits, attempt,
                    request>>
    BY <1>3 DEF PullApply
  <2>8. QED
    BY <2>2, <2>3, <2>4, <2>5, <2>6, <2>7 DEF TypeOK
<1>4. CASE PushApply(d, failed)
  <2>1. Written(d, PushWrites(d) \ failed) \in [Ids -> Local \cup {NoRow}]
    BY WrittenType DEF PushWrites
  <2>2. faults' \in Nat
    BY <1>1, <1>4 DEF PushApply, TypeOK
  <2>3. repo' \in [Devices -> [Ids -> Local \cup {NoRow}]]
    BY <1>4, <2>1 DEF PushApply, TypeOK
  <2>4. /\ answer' \in [Devices -> [Ids -> Dto \cup {NoRow}]]
        /\ request' \in [Devices -> [Ids -> Item \cup {NoRow}]]
        /\ pc' \in [Devices -> Stage]
    BY <1>2, <1>4 DEF PushApply, TypeOK, Stage
  <2>5. UNCHANGED <<now, todos, zombies, behind, meta, view, lastEdit, edits,
                    attempt, cursor, serverTime>>
    BY <1>4 DEF PushApply, serverVars
  <2>6. QED
    BY <2>2, <2>3, <2>4, <2>5 DEF TypeOK
<1>5. QED
  BY <1>3, <1>4

(* So does an answer that does not parse. *)
LEMMA GarbledType ==
    ASSUME TypeOK, NEW d \in Devices, PullGarbled(d) \/ PushGarbled(d)
    PROVE  TypeOK'
<1>1. Nothing \in [Ids -> Item \cup {NoRow}] /\ Nothing \in [Ids -> Dto \cup {NoRow}]
  BY DEF Nothing
<1>2. CASE PullGarbled(d)
  BY <1>1, <1>2 DEF PullGarbled, TypeOK, Stage, Epoch, serverVars, deviceVars
<1>3. CASE PushGarbled(d)
  BY <1>1, <1>3 DEF PushGarbled, TypeOK, Stage, serverVars, deviceVars
<1>4. QED
  BY <1>2, <1>3

(* A merge of pushed items, whoever still waits for its answer. *)
LEMMA CommitType ==
    ASSUME TypeOK, NEW d \in Devices, NEW items \in [Ids -> Item \cup {NoRow}],
           Commit(items, d)
    PROVE  /\ todos' \in [Ids -> Row \cup {NoRow}]
           /\ behind' \subseteq Devices \X Ids
  BY MergedTodosType DEF Commit, TypeOK

(* Sending the dirty rows, and the server merging them. *)
LEMMA PushType ==
    ASSUME TypeOK, NEW d \in Devices, PushSend(d) \/ PushServe(d)
    PROVE  TypeOK'
<1>1. CASE PushSend(d)
  <2>1. [id \in Ids |-> IF id \in ListDirty(repo[d])
                        THEN ItemToWire(repo[d][id]) ELSE NoRow]
           \in [Ids -> Item \cup {NoRow}]
    BY ItemToWireType DEF ListDirty, TypeOK
  <2>2. QED
    BY <1>1, <2>1 DEF PushSend, TypeOK, Stage, serverVars, deviceVars
<1>2. CASE PushServe(d)
  <2>1. request[d] \in [Ids -> Item \cup {NoRow}]
    BY DEF TypeOK
  <2>2. /\ todos' \in [Ids -> Row \cup {NoRow}]
        /\ behind' \subseteq Devices \X Ids
    BY <1>2, <2>1, CommitType DEF PushServe
  <2>3. ASSUME NEW id \in Ids, request[d][id] # NoRow
        PROVE  ToDto(todos'[id]) \in Dto
    <3>1. Merged(todos[id], request[d][id], d) \in Row
      <4>1. todos[id] \in Row \cup {NoRow} /\ request[d][id] \in Item
        BY <2>3 DEF TypeOK
      <4>2. QED
        BY <4>1, MergedType
    <3>2. todos'[id] \in Row
      BY <1>2, <2>3, <3>1 DEF PushServe, Commit, MergedTodos
    <3>3. QED
      BY <3>2, ToDtoType
  <2>4. [id \in Ids |-> IF request[d][id] = NoRow THEN NoRow
                        ELSE ToDto(todos'[id])] \in [Ids -> Dto \cup {NoRow}]
    BY <2>3
  <2>5. QED
    BY <1>2, <2>2, <2>4 DEF PushServe, TypeOK, Stage, deviceVars
<1>3. QED
  BY <1>1, <1>2

(* The ways a synchronisation or an attempt ends. *)
LEMMA NotOkType ==
    ASSUME TypeOK, NEW d \in Devices, NotOk(d)
    PROVE  /\ zombies' \subseteq [device: Devices, items: [Ids -> Item \cup {NoRow}]]
           /\ faults' \in Nat
  BY ZombieType DEF NotOk, TypeOK

(* Reconcile, another attempt, or giving up. *)
LEMMA EndType ==
    ASSUME TypeOK, NEW d \in Devices, Reconcile(d) \/ Retry(d) \/ Fail(d)
    PROVE  TypeOK'
<1>1. CASE Reconcile(d)
  <2>1. ListAll(repo[d]) \in [Ids -> Local \cup {NoRow}]
    BY ListAllType DEF TypeOK
  <2>2. meta' \in [Devices -> Int] /\ faults' \in Nat
    BY <1>1 DEF Reconcile, TypeOK
  <2>3. view' \in [Devices -> [Ids -> Local \cup {NoRow}]]
    BY <1>1, <2>1 DEF Reconcile, TypeOK
  <2>4. EngineGone(d)
    BY <1>1 DEF Reconcile
  <2>5. UNCHANGED <<now, todos, zombies, behind, repo, lastEdit, edits>>
    BY <1>1 DEF Reconcile, serverVars
  <2>6. QED
    BY <2>2, <2>3, <2>4, <2>5, EngineGoneType DEF TypeOK
<1>2. CASE Retry(d)
  <2>1. Nothing \in [Ids -> Item \cup {NoRow}] /\ Nothing \in [Ids -> Dto \cup {NoRow}]
    BY DEF Nothing
  <2>2. /\ zombies' \subseteq [device: Devices, items: [Ids -> Item \cup {NoRow}]]
        /\ faults' \in Nat
    BY <1>2, NotOkType DEF Retry
  <2>3. QED
    BY <1>2, <2>1, <2>2 DEF Retry, TypeOK, Stage, Epoch, deviceVars
<1>3. CASE Fail(d)
  <2>1. /\ zombies' \subseteq [device: Devices, items: [Ids -> Item \cup {NoRow}]]
        /\ faults' \in Nat
    BY <1>3, NotOkType DEF Fail, TypeOK
  <2>2. EngineGone(d)
    BY <1>3 DEF Fail
  <2>3. UNCHANGED <<now, todos, behind, repo, meta, view, lastEdit, edits>>
    BY <1>3 DEF Fail, deviceVars
  <2>4. QED
    BY <2>1, <2>2, <2>3, EngineGoneType DEF TypeOK
<1>4. QED
  BY <1>1, <1>2, <1>3

(* All of a synchronisation's steps. *)
LEMMA WorkerStepType ==
    ASSUME TypeOK, NEW d \in Devices, WorkerStep(d) PROVE TypeOK'
  BY PullType, ApplyType, GarbledType, PushType, EndType DEF WorkerStep

(* What a crash had written before it struck. *)
LEMMA CrashWrites ==
    ASSUME NEW d, NEW done, Crash(d, done)
    PROVE  \/ done = {}
           \/ pc[d] = "Pulled" /\ done \subseteq PullWrites(d)
           \/ pc[d] = "Pushed" /\ done \subseteq PushWrites(d)
  BY DEF Crash

(* A crash keeps the types: it leaves the repository half-written at worst. *)
LEMMA CrashType ==
    ASSUME TypeOK, NEW d \in Devices, NEW done \in SUBSET Ids, Crash(d, done)
    PROVE  TypeOK'
<1>1. \A id \in done : answer[d][id] # NoRow
  BY CrashWrites DEF PullWrites, PushWrites
<1>2. Written(d, done) \in [Ids -> Local \cup {NoRow}]
  BY <1>1, WrittenType
<1>3. repo' \in [Devices -> [Ids -> Local \cup {NoRow}]]
  BY <1>2 DEF Crash, TypeOK
<1>4. view' \in [Devices -> [Ids -> Local \cup {NoRow}]]
  <2>1. ListAll(repo'[d]) \in [Ids -> Local \cup {NoRow}]
    BY <1>3, ListAllType
  <2>2. view' = [view EXCEPT ![d] = ListAll(repo'[d])]
    BY DEF Crash
  <2>3. QED
    BY <2>1, <2>2 DEF TypeOK
<1>5. EngineGone(d) /\ faults' = faults + 1
  BY DEF Crash
<1>6. zombies' \subseteq [device: Devices, items: [Ids -> Item \cup {NoRow}]]
  BY ZombieType DEF Crash, TypeOK
<1>7. UNCHANGED <<now, todos, behind, meta, lastEdit, edits>>
  BY DEF Crash
<1>8. QED
  BY <1>3, <1>4, <1>5, <1>6, <1>7, EngineGoneType DEF TypeOK
(* The server may merge an abandoned request at any time. *)
LEMMA ZombieStepType ==
    ASSUME TypeOK, NEW z \in zombies, ServeZombie(z) PROVE TypeOK'
<1>1. z.device \in Devices /\ z.items \in [Ids -> Item \cup {NoRow}]
  BY DEF TypeOK
<1>2. /\ todos' \in [Ids -> Row \cup {NoRow}]
      /\ behind' \subseteq Devices \X Ids
  BY <1>1, CommitType DEF ServeZombie
<1>3. QED
  BY <1>2 DEF ServeZombie, TypeOK, deviceVars, engineVars

(* Every step keeps the types. *)
LEMMA TypeStep ==
    ASSUME TypeOK, ShownIsStored, [Next]_vars
    PROVE  TypeOK'
<1>1. CASE UNCHANGED vars
  BY <1>1 DEF vars, serverVars, deviceVars, engineVars, TypeOK
<1>2. CASE Tick
  BY <1>2 DEF Tick, serverVars, deviceVars, engineVars, TypeOK
<1>3. QED
  BY <1>1, <1>2, UserStepType, WorkerStepType, CrashType, ZombieStepType DEF Next

-----------------------------------------------------------------------------
(* What a step can do to each part of the state.  The invariants below are  *)
(* proved from these shapes, not from the actions: whatever else has steps  *)
(* of these shapes has the invariants too.                                  *)

(* The ways a row of a repository is written: by an edit ...                *)
ByUser(d) ==
    \E id \in Ids, it \in Local :
        /\ CanEdit(d)
        /\ it.dirty
        /\ it.updatedAt = NowMs(d)
        /\ repo' = [repo EXCEPT ![d][id] = it]
        /\ lastEdit' = [lastEdit EXCEPT ![d] = NowMs(d)]

(* ... or from an answer, ...                                               *)
ByAnswer(d) ==
    \E ids \in SUBSET PushWrites(d) : repo' = [repo EXCEPT ![d] = Written(d, ids)]

(* ... and then by the rules of a pull or of a push.                        *)
ByPull(d) ==
    /\ pc[d] = "Pulled"
    /\ \E ids \in SUBSET PullWrites(d) : repo' = [repo EXCEPT ![d] = Written(d, ids)]
ByPush(d) == pc[d] = "Pushed" /\ ByAnswer(d)

RepoStep ==
    \/ UNCHANGED <<repo, lastEdit>>
    \/ \E d \in Devices : ByUser(d)
    \/ UNCHANGED lastEdit /\ \E d \in Devices : ByAnswer(d)

RuledStep ==
    \/ UNCHANGED repo
    \/ \E d \in Devices : ByUser(d) \/ ByPull(d) \/ ByPush(d)

(* The list shows no row it did not show, unless it is stored. *)
ViewStep ==
    \A e \in Devices, id \in Ids :
        view'[e][id] # NoRow => view'[e][id] = view[e][id] \/ repo'[e][id] # NoRow

(* The ways an answer comes and goes. *)
AnswerStep ==
    \A e \in Devices : \/ answer'[e] = answer[e]
                       \/ answer'[e] = Nothing
                       \/ PullQuery(e)
                       \/ PushServe(e)

(* A push takes dirty rows as they are, and nothing happens to them, to it  *)
(* and to its answer until it is over.                                      *)
Sends(e) ==
    /\ repo'[e] = repo[e]
    /\ \A id \in Ids : request'[e][id] # NoRow =>
         id \in ListDirty(repo[e]) /\ request'[e][id] = ItemToWire(repo[e][id])

SamePush(e) ==
    /\ pc'[e] = pc[e] /\ request'[e] = request[e]
    /\ repo'[e] = repo[e] /\ answer'[e] = answer[e]

PushStep ==
    \A e \in Devices :
        \/ pc'[e] \notin {"Posted", "Pushed"} /\ request'[e] \in {request[e], Nothing}
        \/ SamePush(e)
        \/ pc'[e] # "Pushed" /\ Sends(e)
        \/ PushServe(e)

(* Only requests that were on their way are given up, ...                   *)
ZombieStep ==
    zombies' \subseteq
      zombies \cup {[device |-> d, items |-> request[d]] :
                      d \in {e \in Devices : pc[e] = "Posted"}}

(* ... and the server merges nothing but a push or a request given up.      *)
ServerStep ==
    \/ UNCHANGED todos /\ behind \subseteq behind'
    \/ \E d \in Devices : PushServe(d)
    \/ \E z \in zombies : ServeZombie(z)

Step ==
    /\ RepoStep /\ ViewStep /\ AnswerStep
    /\ PushStep /\ ZombieStep /\ ServerStep

(* The user's steps write one row, or none. *)
LEMMA UserWrites ==
    ASSUME TypeOK, ShownIsStored, NEW d \in Devices, UserStep(d)
    PROVE  ByUser(d) \/ UNCHANGED <<repo, lastEdit>>
<1>1. CASE StartSync(d)
  BY <1>1 DEF StartSync, deviceVars
<1>2. ASSUME NEW id \in Ids, AddItem(d, id) PROVE ByUser(d)
  <2>1. [isDone |-> FALSE, deleted |-> FALSE, updatedAt |-> NowMs(d),
         serverVersion |-> 0, dirty |-> TRUE] \in Local
    BY NowMsType DEF Local
  <2>2. QED
    BY <1>2, <2>1 DEF AddItem, WriteLocal, ByUser
<1>3. ASSUME NEW id \in Ids, SetDone(d, id) PROVE ByUser(d)
  <2> DEFINE it == Update(d, [view[d][id] EXCEPT !.isDone = ~view[d][id].isDone])
  <2>1. view[d][id] \in Local
    BY <1>3 DEF SetDone, TypeOK
  <2>2. it \in Local /\ it.dirty /\ it.updatedAt = NowMs(d)
    BY <2>1, NowMsType DEF Update, Local
  <2>3. CanEdit(d) /\ WriteLocal(d, id, it)
    BY <1>3 DEF SetDone
  <2> HIDE DEF it
  <2>4. QED
    BY <2>2, <2>3 DEF WriteLocal, ByUser
<1>4. ASSUME NEW id \in Ids, RemoveItem(d, id) PROVE ByUser(d)
  <2> DEFINE it == Remove(d, repo[d][id])
  <2>1. repo[d][id] \in Local
    BY <1>4 DEF TypeOK, RemoveItem, ShownIsStored
  <2>2. it \in Local /\ it.dirty /\ it.updatedAt = NowMs(d)
    BY <2>1, NowMsType DEF Remove, Local
  <2>3. CanEdit(d) /\ WriteLocal(d, id, it)
    BY <1>4 DEF RemoveItem
  <2> HIDE DEF it
  <2>4. QED
    BY <2>2, <2>3 DEF WriteLocal, ByUser
<1>5. QED
  BY <1>1, <1>2, <1>3, <1>4 DEF UserStep

(* What a pull or a push writes is from an answer. *)
LEMMA RuledIsAnswer ==
    ASSUME NEW d \in Devices, ByPull(d) \/ ByPush(d) PROVE ByAnswer(d)
  BY DEF ByPull, ByPush, ByAnswer, PullWrites, PushWrites

(* The worker writes rows of an answer, or none. *)
LEMMA WorkerWrites ==
    ASSUME TypeOK, NEW d \in Devices, WorkerStep(d)
    PROVE  /\ ByPull(d) \/ ByPush(d) \/ UNCHANGED repo
           /\ UNCHANGED lastEdit
<1>1. CASE \E failed \in SUBSET Ids : PullApply(d, failed)
  BY <1>1 DEF PullApply, ByPull
<1>2. CASE \E failed \in SUBSET Ids : PushApply(d, failed)
  BY <1>2 DEF PushApply, ByPush, ByAnswer
<1>3. CASE \/ PullQuery(d) \/ PullStamp(d) \/ PullGarbled(d) \/ PushSend(d)
           \/ PushServe(d) \/ PushGarbled(d) \/ Reconcile(d) \/ Retry(d)
           \/ Fail(d)
  BY <1>3 DEF PullQuery, PullStamp, PullGarbled, PushSend, PushServe,
     PushGarbled, Reconcile, Retry, Fail, deviceVars
<1>4. QED
  BY <1>1, <1>2, <1>3 DEF WorkerStep

(* A crash leaves some of an answer's rows written. *)
LEMMA CrashKeeps ==
    ASSUME TypeOK, NEW d \in Devices, NEW done \in SUBSET Ids, Crash(d, done)
    PROVE  /\ ByPull(d) \/ ByPush(d) \/ UNCHANGED repo
           /\ UNCHANGED lastEdit
<1>1. repo' = [repo EXCEPT ![d] = Written(d, done)] /\ UNCHANGED lastEdit
  BY DEF Crash
<1>2. CASE done = {}
  <2>1. Written(d, {}) = repo[d]
    BY DEF Written, TypeOK
  <2>2. repo' = repo
    BY <1>1, <1>2, <2>1 DEF TypeOK
  <2>3. QED
    BY <1>1, <2>2
<1>3. CASE pc[d] = "Pulled" /\ done \subseteq PullWrites(d)
  BY <1>1, <1>3 DEF ByPull
<1>4. CASE pc[d] = "Pushed" /\ done \subseteq PushWrites(d)
  BY <1>1, <1>4 DEF ByPush, ByAnswer
<1>5. QED
  BY <1>2, <1>3, <1>4, CrashWrites

(* A listed row is stored. *)
LEMMA ListAllShows ==
    ASSUME NEW rows, NEW id \in Ids, ListAll(rows)[id] # NoRow
    PROVE  rows[id] # NoRow
  BY DEF ListAll

(* A list that is reloaded shows what is stored. *)
LEMMA ReloadShows ==
    ASSUME TypeOK, NEW d \in Devices,
           \/ UNCHANGED view
           \/ view' = [view EXCEPT ![d] = ListAll(repo'[d])]
    PROVE  ViewStep
  BY ListAllShows DEF ViewStep, TypeOK

(* Answers and requests are where they were, or gone. *)
LEMMA AnswerGone ==
    ASSUME TypeOK, NEW d \in Devices,
           UNCHANGED answer \/ answer' = [answer EXCEPT ![d] = Nothing]
    PROVE  AnswerStep
  BY DEF AnswerStep, TypeOK

(* The user's steps. *)
LEMMA UserIsStep ==
    ASSUME TypeOK, ShownIsStored, NEW d \in Devices, UserStep(d)
    PROVE  Step /\ RuledStep
<1>1. RepoStep /\ RuledStep
  BY UserWrites DEF RepoStep, RuledStep
<1>2. \/ UNCHANGED view
      \/ view' = [view EXCEPT ![d] = ListAll(repo'[d])]
  BY DEF UserStep, StartSync, AddItem, SetDone, RemoveItem, WriteLocal, deviceVars
<1>3. UNCHANGED <<todos, zombies, behind, request, answer>>
  BY DEF UserStep, StartSync, AddItem, SetDone, RemoveItem, WriteLocal, serverVars,
         engineVars
<1>4. ASSUME NEW e \in Devices PROVE \/ pc'[e] \notin {"Posted", "Pushed"}
                                     \/ SamePush(e)
  <2>1. CASE StartSync(d)
    BY <2>1 DEF StartSync, SamePush, TypeOK, deviceVars
  <2>2. CASE \E id \in Ids : AddItem(d, id) \/ SetDone(d, id) \/ RemoveItem(d, id)
    <3>1. UNCHANGED <<pc, request, answer>> /\ pc[d] = "Idle"
      BY <2>2 DEF AddItem, SetDone, RemoveItem, WriteLocal, CanEdit, engineVars
    <3>2. e # d => repo'[e] = repo[e]
      BY <2>2 DEF AddItem, SetDone, RemoveItem, WriteLocal, TypeOK
    <3>3. QED
      BY <3>1, <3>2 DEF SamePush
  <2>3. QED
    BY <2>1, <2>2 DEF UserStep
<1>5. PushStep
  BY <1>3, <1>4 DEF PushStep
<1>6. QED
  BY <1>1, <1>2, <1>3, <1>5, ReloadShows, AnswerGone
     DEF Step, ZombieStep, ServerStep

(* A device's own steps leave the pushes of the others alone. *)
LEMMA OthersPush ==
    ASSUME TypeOK, NEW d \in Devices, WorkerStep(d) \/ \E done \in SUBSET Ids : Crash(d, done),
           NEW e \in Devices \ {d}
    PROVE  SamePush(e)
<1>1. CASE \/ PullQuery(d) \/ PullStamp(d) \/ PullGarbled(d) \/ PushGarbled(d)
           \/ PushSend(d) \/ PushServe(d)
  BY <1>1 DEF PullQuery, PullStamp, PullGarbled, PushGarbled, PushSend, PushServe,
              SamePush, TypeOK, deviceVars
<1>2. CASE \E failed \in SUBSET Ids : PullApply(d, failed) \/ PushApply(d, failed)
  BY <1>2 DEF PullApply, PushApply, SamePush, TypeOK
<1>3. CASE Reconcile(d) \/ Fail(d) \/ Retry(d)
  BY <1>3 DEF Reconcile, Fail, Retry, EngineGone, SamePush, TypeOK, deviceVars
<1>4. CASE \E done \in SUBSET Ids : Crash(d, done)
  BY <1>4 DEF Crash, EngineGone, SamePush, TypeOK
<1>5. QED
  BY <1>1, <1>2, <1>3, <1>4 DEF WorkerStep

(* A worker that sends nothing and is served nothing has no push in flight  *)
(* after its step, and the server has nothing new.                          *)
LEMMA WorkerIdlesPush ==
    ASSUME TypeOK, NEW d \in Devices, WorkerStep(d), ~PushSend(d), ~PushServe(d)
    PROVE  /\ pc'[d] \notin {"Posted", "Pushed"}
           /\ request'[d] \in {request[d], Nothing}
           /\ UNCHANGED todos /\ behind \subseteq behind'
<1>1. CASE PullQuery(d) \/ PullStamp(d) \/ PullGarbled(d) \/ PushGarbled(d)
  BY <1>1 DEF PullQuery, PullStamp, PullGarbled, PushGarbled, TypeOK, serverVars
<1>2. CASE \E failed \in SUBSET Ids : PullApply(d, failed) \/ PushApply(d, failed)
  BY <1>2 DEF PullApply, PushApply, TypeOK, serverVars
<1>3. CASE Reconcile(d) \/ Fail(d) \/ Retry(d)
  BY <1>3 DEF Reconcile, Fail, Retry, EngineGone, TypeOK, serverVars
<1>4. QED
  BY <1>1, <1>2, <1>3 DEF WorkerStep

(* A worker's steps. *)
LEMMA WorkerIsStep ==
    ASSUME TypeOK, NEW d \in Devices, WorkerStep(d) PROVE Step /\ RuledStep
<1>1. RepoStep /\ RuledStep
  BY WorkerWrites, RuledIsAnswer DEF RepoStep, RuledStep
<1>2. ViewStep
  <2>1. \/ UNCHANGED view
        \/ view' = [view EXCEPT ![d] = ListAll(repo'[d])]
    BY DEF WorkerStep, PullQuery, PullStamp, PullApply, PullGarbled, PushSend,
       PushServe, PushApply, PushGarbled, Reconcile, Retry, Fail, deviceVars
  <2>2. QED
    BY <2>1, ReloadShows
<1>3. AnswerStep
  <2>1. CASE PullQuery(d) \/ PushServe(d)
    BY <2>1 DEF PullQuery, PushServe, AnswerStep, TypeOK
  <2>2. CASE ~PullQuery(d) /\ ~PushServe(d)
    <3>1. UNCHANGED answer \/ answer' = [answer EXCEPT ![d] = Nothing]
      BY <2>2 DEF WorkerStep, PullStamp, PullApply, PullGarbled, PushSend, PushApply,
         PushGarbled, Reconcile, Retry, Fail, EngineGone
    <3>2. QED
      BY <3>1, AnswerGone
  <2>3. QED
    BY <2>1, <2>2
<1>4. PushStep
  <2>1. PushSend(d) => pc'[d] # "Pushed" /\ Sends(d)
    BY DEF PushSend, Sends, TypeOK, deviceVars
  <2>2. QED
    BY <2>1, OthersPush, WorkerIdlesPush DEF PushStep
<1>5. ZombieStep
  BY DEF WorkerStep, PullQuery, PullStamp, PullApply, PullGarbled, PushSend,
     PushServe, PushApply, PushGarbled, Reconcile, Retry, Fail, NotOk, LeaveZombie,
     serverVars, ZombieStep
<1>6. ServerStep
  <2>1. CASE PushServe(d)
    BY <2>1 DEF ServerStep
  <2>2. CASE PushSend(d)
    BY <2>2 DEF PushSend, ServerStep, serverVars
  <2>3. QED
    BY <2>1, <2>2, WorkerIdlesPush DEF ServerStep
<1>7. QED
  BY <1>1, <1>2, <1>3, <1>4, <1>5, <1>6 DEF Step

(* A crash. *)
LEMMA CrashIsStep ==
    ASSUME TypeOK, NEW d \in Devices, NEW done \in SUBSET Ids, Crash(d, done)
    PROVE  Step /\ RuledStep
<1>1. RepoStep /\ RuledStep
  BY CrashKeeps, RuledIsAnswer DEF RepoStep, RuledStep
<1>2. view' = [view EXCEPT ![d] = ListAll(repo'[d])]
  BY DEF Crash
<1>3. answer' = [answer EXCEPT ![d] = Nothing] /\ UNCHANGED <<todos, behind>>
  BY DEF Crash, EngineGone
<1>4. PushStep
  <2>1. pc'[d] = "Idle" /\ request'[d] = Nothing
    BY DEF Crash, EngineGone, TypeOK
  <2>2. QED
    BY <2>1, OthersPush DEF PushStep
<1>5. ZombieStep
  BY DEF Crash, LeaveZombie, ZombieStep
<1>6. QED
  BY <1>1, <1>2, <1>3, <1>4, <1>5, ReloadShows, AnswerGone DEF Step, ServerStep

(* The server gets round to a request that was given up. *)
LEMMA ServeIsStep ==
    ASSUME TypeOK, NEW z \in zombies, ServeZombie(z) PROVE Step /\ RuledStep
<1>1. UNCHANGED <<repo, lastEdit, view, pc, request, answer>>
  BY DEF ServeZombie, deviceVars, engineVars
<1>2. zombies' \subseteq zombies
  BY DEF ServeZombie
<1>3. QED
  BY <1>1, <1>2
     DEF Step, RuledStep, RepoStep, ViewStep, AnswerStep, PushStep, SamePush, ZombieStep,
         ServerStep

(* Nothing happens but that time passes. *)
LEMMA TickIsStep == ASSUME Tick \/ UNCHANGED vars PROVE Step /\ RuledStep
  BY DEF Tick, vars, serverVars, deviceVars, engineVars, Step, RuledStep, RepoStep,
     ViewStep, AnswerStep, PushStep, SamePush, ZombieStep, ServerStep

(* So every step of the system has these shapes. *)
LEMMA NextIsStep ==
    ASSUME TypeOK, ShownIsStored, [Next]_vars PROVE Step /\ RuledStep
  BY UserIsStep, WorkerIsStep, CrashIsStep, ServeIsStep, TickIsStep DEF Next

-----------------------------------------------------------------------------
(* No row ever disappears from a repository. *)
LEMMA RowsStay ==
    ASSUME TypeOK, RepoStep, NEW d \in Devices, NEW id \in Ids, repo[d][id] # NoRow
    PROVE  repo'[d][id] # NoRow
<1>1. ASSUME NEW e \in Devices, ByUser(e) PROVE repo'[d][id] # NoRow
  BY <1>1, LocalAssumption DEF ByUser, TypeOK
<1>2. ASSUME NEW e \in Devices, ByAnswer(e) PROVE repo'[d][id] # NoRow
  <2>1. PICK ids \in SUBSET PushWrites(e) :
           repo' = [repo EXCEPT ![e] = Written(e, ids)]
    BY <1>2 DEF ByAnswer
  <2>2. \A i \in ids : ItemFromWire(answer[e][i]) \in Local
    BY ItemFromWireType DEF TypeOK, PushWrites
  <2>3. repo'[d][id] = IF d = e /\ id \in ids
                       THEN ItemFromWire(answer[e][id]) ELSE repo[d][id]
    BY <2>1 DEF TypeOK, Written
  <2>4. QED
    BY <2>2, <2>3, LocalAssumption
<1>3. QED
  BY <1>1, <1>2 DEF RepoStep

(* No step makes the list show what is not stored. *)
LEMMA ShownStep == ASSUME TypeOK, ShownIsStored, Step PROVE ShownIsStored'
  BY RowsStay DEF Step, ViewStep, ShownIsStored

(* In every behaviour the state has the shape of TypeOK, and an item in    *)
(* the list of a device is stored on it.                                   *)
THEOREM TypeCorrect == Spec => [](TypeOK /\ ShownIsStored)
<1>1. Init => TypeOK /\ ShownIsStored
  BY TypeInit
<1>2. TypeOK /\ ShownIsStored /\ [Next]_vars => (TypeOK /\ ShownIsStored)'
  BY TypeStep, NextIsStep, ShownStep
<1>3. QED
  BY <1>1, <1>2, PTL DEF Spec
(* A merge leaves a row alone, or puts a version on top that is not older. *)
LEMMA MergedGrows ==
    ASSUME NEW row \in Row \cup {NoRow}, NEW in \in Item, NEW d \in Devices
    PROVE  /\ Merged(row, in, d) \in Row
           /\ \/ Merged(row, in, d) = row
              \/ row = NoRow /\ Merged(row, in, d).serverVersion = 1
              \/ /\ row # NoRow
                 /\ Merged(row, in, d).serverVersion = row.serverVersion + 1
                 /\ Merged(row, in, d).updatedAt >= row.updatedAt
  BY DevicesAssumption DEF Merged, FromNew, ApplyIncoming, Row, Item, Accepts

(* What the server merges, and of whom. *)
Requests(d) == {request[d]} \cup {z.items : z \in {y \in zombies : y.device = d}}

(* The server's own step makes of each row the merge of one request. *)
LEMMA ServerMerges ==
    ASSUME TypeOK, ServerStep
    PROVE  \/ UNCHANGED todos /\ behind \subseteq behind'
           \/ \E d \in Devices : \E items \in Requests(d) :
                /\ items \in [Ids -> Item \cup {NoRow}]
                /\ Commit(items, d)
<1>1. ASSUME NEW d \in Devices, PushServe(d)
      PROVE  /\ request[d] \in Requests(d) /\ request[d] \in [Ids -> Item \cup {NoRow}]
             /\ Commit(request[d], d)
  BY <1>1 DEF PushServe, Requests, TypeOK
<1>2. ASSUME NEW z \in zombies, ServeZombie(z)
      PROVE  /\ z.device \in Devices /\ z.items \in Requests(z.device)
             /\ z.items \in [Ids -> Item \cup {NoRow}]
             /\ Commit(z.items, z.device)
  BY <1>2 DEF ServeZombie, Requests, TypeOK
<1>3. QED
  BY <1>1, <1>2 DEF ServerStep

(* A row of the server changes only to a higher version, never to an older write. *)
LEMMA TodosGrow ==
    ASSUME TypeOK, ServerStep, NEW id \in Ids
    PROVE  \/ todos'[id] = todos[id]
           \/ /\ todos'[id] \in Row
              /\ \/ todos[id] = NoRow /\ todos'[id].serverVersion = 1
                 \/ /\ todos[id] # NoRow
                    /\ todos'[id].serverVersion = todos[id].serverVersion + 1
                    /\ todos'[id].updatedAt >= todos[id].updatedAt
<1>1. CASE UNCHANGED todos
  BY <1>1
<1>2. ASSUME NEW d \in Devices, NEW items \in [Ids -> Item \cup {NoRow}],
             todos' = MergedTodos(items, d), items[id] # NoRow
      PROVE  todos'[id] = Merged(todos[id], items[id], d)
  BY <1>2 DEF MergedTodos
<1>3. ASSUME NEW d \in Devices, NEW items \in [Ids -> Item \cup {NoRow}],
             todos' = MergedTodos(items, d), items[id] = NoRow
      PROVE  todos'[id] = todos[id]
  BY <1>3 DEF MergedTodos
<1>4. todos[id] \in Row \cup {NoRow}
  BY DEF TypeOK
<1>5. ASSUME NEW d \in Devices, NEW items \in [Ids -> Item \cup {NoRow}],
             todos' = MergedTodos(items, d)
      PROVE  \/ todos'[id] = todos[id]
             \/ /\ todos'[id] \in Row
                /\ \/ todos[id] = NoRow /\ todos'[id].serverVersion = 1
                   \/ /\ todos[id] # NoRow
                      /\ todos'[id].serverVersion = todos[id].serverVersion + 1
                      /\ todos'[id].updatedAt >= todos[id].updatedAt
  <2>1. CASE items[id] = NoRow
    BY <1>3, <1>5, <2>1
  <2>2. CASE items[id] # NoRow
    <3>1. items[id] \in Item
      BY <2>2
    <3>2. todos'[id] = Merged(todos[id], items[id], d)
      BY <1>2, <1>5, <2>2
    <3>3. QED
      BY <1>4, <3>1, <3>2, MergedGrows
  <2>3. QED
    BY <2>1, <2>2
<1>6. QED
  BY <1>1, <1>5, ServerMerges DEF Commit

(* Going over the wire and back does not change a row. *)
LEMMA WireRoundTrip ==
    ASSUME NEW dto \in Dto
    PROVE  ToDto(ItemFromWire(dto)) = dto /\ ~ItemFromWire(dto).dirty
  BY DEF ToDto, ItemFromWire, Dto

(* A clean row of a repository was a copy before. *)
LEMMA CleanRowsAreCopies ==
    ASSUME TypeOK, RepoStep, NEW e \in Devices, NEW id \in Ids,
           repo'[e][id] # NoRow, ~repo'[e][id].dirty
    PROVE  ToDto(repo'[e][id]) \in Copies(id)
<1>1. CASE repo'[e][id] = repo[e][id]
  BY <1>1 DEF Copies
<1>2. ASSUME NEW d \in Devices, ByUser(d) PROVE repo'[e][id] = repo[e][id]
  BY <1>2 DEF ByUser, TypeOK
<1>3. ASSUME NEW d \in Devices, ByAnswer(d),
             repo'[e][id] # repo[e][id]
      PROVE  ToDto(repo'[e][id]) \in Copies(id)
  <2>1. answer[e][id] # NoRow /\ repo'[e][id] = ItemFromWire(answer[e][id])
    <3>1. PICK ids \in SUBSET PushWrites(d) :
             repo' = [repo EXCEPT ![d] = Written(d, ids)]
      BY <1>3 DEF ByAnswer
    <3>2. QED
      BY <1>3, <3>1 DEF Written, PushWrites, TypeOK
  <2>2. answer[e][id] \in Dto
    BY <2>1 DEF TypeOK
  <2>3. ToDto(repo'[e][id]) = answer[e][id]
    BY <2>1, <2>2, WireRoundTrip
  <2>4. QED
    BY <2>1, <2>3 DEF Copies
<1>4. QED
  BY <1>1, <1>2, <1>3 DEF RepoStep

(* So is an answer, unless the server has just written the row. *)
LEMMA AnswersAreCopies ==
    ASSUME TypeOK, AnswerStep, NEW e \in Devices, NEW id \in Ids,
           answer'[e][id] # NoRow
    PROVE  \/ answer'[e][id] \in Copies(id)
           \/ todos'[id] # NoRow /\ answer'[e][id] = ToDto(todos'[id])
<1>1. CASE answer'[e] = answer[e]
  BY <1>1 DEF Copies
<1>2. CASE answer'[e] = Nothing
  BY <1>2 DEF Nothing
<1>3. CASE PullQuery(e)
  BY <1>3 DEF PullQuery, UpdatedAfter, Copies, TypeOK
<1>4. CASE PushServe(e)
  <2>1. request[e][id] # NoRow /\ answer'[e][id] = ToDto(todos'[id])
    BY <1>4 DEF PushServe, TypeOK
  <2>2. request[e][id] \in Item /\ todos[id] \in Row \cup {NoRow}
    BY <2>1 DEF TypeOK
  <2>3. todos'[id] = Merged(todos[id], request[e][id], e)
    BY <1>4, <2>1 DEF PushServe, Commit, MergedTodos
  <2>4. todos'[id] \in Row
    BY <2>2, <2>3, MergedGrows
  <2>5. QED
    BY <2>1, <2>4, NoRowAssumption
<1>5. QED
  BY <1>1, <1>2, <1>3, <1>4 DEF AnswerStep

(* A copy after a step was a copy before, or is what the server just wrote. *)
LEMMA CopiesStep ==
    ASSUME TypeOK, Step, NEW id \in Ids, NEW x \in Copies(id)'
    PROVE  x \in Copies(id) \/ (todos'[id] # NoRow /\ x = ToDto(todos'[id]))
<1>1. \/ todos'[id] # NoRow /\ x = ToDto(todos'[id])
      \/ \E e \in Devices : answer'[e][id] # NoRow /\ x = answer'[e][id]
      \/ \E e \in Devices : /\ repo'[e][id] # NoRow /\ ~repo'[e][id].dirty
                             /\ x = ToDto(repo'[e][id])
  BY DEF Copies
<1>2. QED
  BY <1>1, AnswersAreCopies, CleanRowsAreCopies DEF Step

(* A copy has the shape of an answer. *)
LEMMA CopyType ==
    ASSUME TypeOK, NEW id \in Ids, NEW x \in Copies(id)
    PROVE  x \in Dto
<1>1. \A row \in Local : ToDto(row) \in Dto
  BY DEF ToDto, Local, Dto
<1>2. QED
  BY <1>1, ToDtoType DEF Copies, TypeOK
(* The invariant behind the comparison of versions: one version, one write,*)
(* and higher versions for later writes.                                   *)
LEMMA VersionsInit == Init => VersionsIdentifyWrites
<1>1. ASSUME Init, NEW id \in Ids PROVE Copies(id) = {}
  BY <1>1 DEF Init, Copies, Nothing
<1>2. QED
  BY <1>1 DEF VersionsIdentifyWrites

(* No step breaks the agreement of versions. *)
LEMMA VersionsStep ==
    ASSUME TypeOK, VersionsIdentifyWrites, Step PROVE VersionsIdentifyWrites'
<1> SUFFICES ASSUME NEW id \in Ids, NEW x \in Copies(id)', NEW y \in Copies(id)'
             PROVE  /\ x.serverVersion = y.serverVersion => x = y
                    /\ x.serverVersion < y.serverVersion
                         => x.updatedAt <= y.updatedAt
                    /\ todos'[id] # NoRow
                    /\ x.serverVersion \in 1 .. todos'[id].serverVersion
  BY DEF VersionsIdentifyWrites
<1> DEFINE new == ToDto(todos'[id])
<1>1. \/ x \in Copies(id)
      \/ todos'[id] # NoRow /\ x = new
  BY CopiesStep
<1>2. \/ y \in Copies(id)
      \/ todos'[id] # NoRow /\ y = new
  BY CopiesStep
<1>3. todos[id] \in Row \cup {NoRow} /\ NoRow \notin Row
  BY NoRowAssumption DEF TypeOK
<1>4. \A row \in Row : /\ ToDto(row).serverVersion = row.serverVersion
                       /\ ToDto(row).updatedAt = row.updatedAt
                       /\ row.serverVersion \in Nat /\ row.updatedAt \in Int
  BY DEF ToDto, Row
<1>5. CASE todos[id] = NoRow
  <2>1. Copies(id) = {}
    BY <1>5 DEF VersionsIdentifyWrites
  <2>2. todos'[id] \in Row /\ todos'[id].serverVersion = 1
    BY <1>1, <1>5, <2>1, TodosGrow DEF Step
  <2>3. x = new /\ y = new
    BY <1>1, <1>2, <2>1
  <2>4. QED
    BY <1>3, <1>4, <2>2, <2>3
<1>6. CASE todos[id] # NoRow
  <2> DEFINE old == ToDto(todos[id])
  <2>1. old \in Copies(id) /\ todos[id] \in Row
    BY <1>3, <1>6 DEF Copies
  <2>2. \A c \in Copies(id) : /\ c \in Dto
                              /\ c.serverVersion \in 1 .. todos[id].serverVersion
                              /\ c.serverVersion = old.serverVersion => c = old
                              /\ c.serverVersion < old.serverVersion
                                   => c.updatedAt <= old.updatedAt
    BY <2>1, CopyType DEF VersionsIdentifyWrites
  <2>3. \A c \in Copies(id) : c.updatedAt <= old.updatedAt
    BY <1>4, <2>1, <2>2 DEF Dto
  <2>4. CASE todos'[id] = todos[id]
    <3>1. x \in Copies(id) /\ y \in Copies(id)
      BY <1>1, <1>2, <2>1, <2>4
    <3>2. QED
      BY <3>1, <2>4, <1>6 DEF VersionsIdentifyWrites
  <2>5. CASE /\ todos'[id] \in Row
             /\ todos'[id].serverVersion = todos[id].serverVersion + 1
             /\ todos'[id].updatedAt >= todos[id].updatedAt
    <3>1. /\ new.serverVersion = todos[id].serverVersion + 1
          /\ new.updatedAt >= old.updatedAt
          /\ todos'[id] # NoRow
      BY <1>3, <1>4, <2>1, <2>5
    <3>2. \A c \in Copies(id) : /\ c.serverVersion < new.serverVersion
                                /\ c.updatedAt <= new.updatedAt
      BY <1>4, <2>1, <2>2, <2>3, <2>5, <3>1 DEF Dto
    <3>3. CASE x \in Copies(id) /\ y \in Copies(id)
      BY <3>1, <3>3, <2>2, <2>5, <1>4, <2>1 DEF VersionsIdentifyWrites
    <3>4. CASE x \in Copies(id) /\ y = new
      BY <3>1, <3>2, <3>4, <2>2, <2>5, <1>4, <2>1
    <3>5. CASE x = new /\ y \in Copies(id)
      BY <3>1, <3>2, <3>5, <2>2, <2>5, <1>4, <2>1
    <3>6. CASE x = new /\ y = new
      BY <3>1, <3>6, <2>2, <2>5, <1>4, <2>1
    <3>7. QED
      BY <1>1, <1>2, <3>3, <3>4, <3>5, <3>6
  <2>6. QED
    BY <1>6, <2>4, <2>5, TodosGrow DEF Step
<1>7. QED
  BY <1>5, <1>6

(* A server version means the same write of an item everywhere: on every   *)
(* device, in every answer on its way, and in the server's table.          *)
THEOREM VersionsAgree == Spec => []VersionsIdentifyWrites
<1>1. Init => VersionsIdentifyWrites
  BY VersionsInit
<1>2. (TypeOK /\ ShownIsStored) /\ VersionsIdentifyWrites /\ [Next]_vars
        => VersionsIdentifyWrites'
  BY NextIsStep, VersionsStep
<1>3. QED
  BY <1>1, <1>2, TypeCorrect, PTL DEF Spec
-----------------------------------------------------------------------------
(* What keeps an edit safe while it is pushed.  The list is locked during  *)
(* a synchronisation, so a push in flight carries the repository's dirty   *)
(* rows as they still are ...                                              *)
PostedIsDirty ==
    \A d \in Devices : pc[d] \in {"Posted", "Pushed"} =>
        \A id \in Ids : request[d][id] # NoRow =>
            /\ id \in ListDirty(repo[d])
            /\ request[d][id] = ItemToWire(repo[d][id])

(* ... the server answers each of them with a row that is not older ...    *)
AnswerBeatsEdit ==
    \A d \in Devices : pc[d] = "Pushed" =>
        \A id \in Ids : answer[d][id] # NoRow =>
            /\ request[d][id] # NoRow
            /\ answer[d][id].updatedAt >= request[d][id].updatedAt

(* ... and the next edit will be stamped later than all before it.         *)
EditsAreStamped ==
    \A d \in Devices, id \in Ids :
        repo[d][id] # NoRow /\ repo[d][id].dirty
          => repo[d][id].updatedAt <= lastEdit[d]

EditInv == PostedIsDirty /\ AnswerBeatsEdit /\ EditsAreStamped

(* A push is answered with a row that is not older than what it carried.   *)
LEMMA MergedBeats ==
    ASSUME NEW row \in Row \cup {NoRow}, NEW in \in Item, NEW d \in Devices
    PROVE  Merged(row, in, d).updatedAt >= in.updatedAt
  BY DevicesAssumption DEF Merged, FromNew, ApplyIncoming, Row, Item, Accepts

(* ... in the action that serves the request. *)
LEMMA ServedBeats ==
    ASSUME TypeOK, NEW e \in Devices, PushServe(e), NEW id \in Ids,
           answer'[e][id] # NoRow
    PROVE  /\ request[e][id] # NoRow
           /\ answer'[e][id].updatedAt >= request[e][id].updatedAt
<1>1. request[e][id] # NoRow /\ answer'[e][id] = ToDto(todos'[id])
  BY DEF PushServe, TypeOK
<1>2. request[e][id] \in Item /\ todos[id] \in Row \cup {NoRow}
  BY <1>1 DEF TypeOK
<1>3. todos'[id] = Merged(todos[id], request[e][id], e)
  BY <1>1 DEF PushServe, Commit, MergedTodos
<1>4. QED
  BY <1>1, <1>2, <1>3, MergedBeats DEF ToDto

(* No push is in flight and nothing is dirty at the start. *)
LEMMA EditInit == Init => EditInv
  BY DEF Init, EditInv, PostedIsDirty, AnswerBeatsEdit, EditsAreStamped, Nothing

(* No step makes a dirty row younger than the last edit of its device. *)
LEMMA StampedStep ==
    ASSUME TypeOK, EditsAreStamped, RepoStep
    PROVE  EditsAreStamped'
<1> SUFFICES ASSUME NEW d \in Devices, NEW id \in Ids,
                    repo'[d][id] # NoRow, repo'[d][id].dirty
             PROVE  repo'[d][id].updatedAt <= lastEdit'[d]
  BY DEF EditsAreStamped
<1>1. CASE UNCHANGED <<repo, lastEdit>>
  BY <1>1 DEF EditsAreStamped
<1>2. ASSUME NEW e \in Devices, ByUser(e)
      PROVE  repo'[d][id].updatedAt <= lastEdit'[d]
  <2>1. PICK i \in Ids, it \in Local :
           /\ it.updatedAt = NowMs(e)
           /\ repo' = [repo EXCEPT ![e][i] = it]
    BY <1>2 DEF ByUser
  <2>2. /\ lastEdit' = [lastEdit EXCEPT ![e] = NowMs(e)]
        /\ lastEdit[e] < NowMs(e)
    BY <1>2 DEF ByUser, CanEdit
  <2>3. CASE d = e /\ id = i
    BY <2>1, <2>2, <2>3, NowMsType DEF TypeOK
  <2>4. CASE ~(d = e /\ id = i)
    <3>1. repo'[d][id] = repo[d][id] /\ repo[d][id] \in Local
      BY <2>1, <2>4 DEF TypeOK
    <3>2. repo[d][id].updatedAt <= lastEdit[d]
      BY <3>1 DEF EditsAreStamped
    <3>3. lastEdit[d] <= lastEdit'[d]
      BY <2>2, NowMsType DEF TypeOK
    <3>4. repo[d][id].updatedAt \in Int /\ lastEdit[d] \in Int /\ lastEdit'[d] \in Int
      BY <2>2, <3>1, NowMsType DEF TypeOK, Local
    <3>5. QED
      BY <3>1, <3>2, <3>3, <3>4
  <2>5. QED
    BY <2>3, <2>4
<1>3. ASSUME NEW e \in Devices, ByAnswer(e), UNCHANGED lastEdit
      PROVE  repo'[d][id].updatedAt <= lastEdit'[d]
  <2>1. PICK ids \in SUBSET PushWrites(e) :
           repo' = [repo EXCEPT ![e] = Written(e, ids)]
    BY <1>3 DEF ByAnswer
  <2>2. CASE repo'[d][id] = repo[d][id]
    BY <1>3, <2>2 DEF EditsAreStamped
  <2>3. CASE d = e /\ id \in ids
    <3>1. repo'[d][id] = ItemFromWire(answer[d][id])
      BY <2>1, <2>3 DEF Written, TypeOK
    <3>2. QED
      BY <3>1 DEF ItemFromWire
  <2>4. QED
    BY <2>1, <2>2, <2>3 DEF Written, TypeOK
<1>4. QED
  BY <1>1, <1>2, <1>3 DEF RepoStep

(* The three parts hold together after every step. *)
LEMMA EditStep == ASSUME TypeOK, EditInv, Step PROVE EditInv'
<1>1. PostedIsDirty'
  <2> SUFFICES ASSUME NEW d \in Devices, pc'[d] \in {"Posted", "Pushed"},
                      NEW id \in Ids, request'[d][id] # NoRow
               PROVE  /\ id \in ListDirty(repo'[d])
                      /\ request'[d][id] = ItemToWire(repo'[d][id])
    BY DEF PostedIsDirty
  <2>1. CASE SamePush(d)
    BY <2>1 DEF SamePush, EditInv, PostedIsDirty
  <2>2. CASE Sends(d)
    BY <2>2 DEF Sends
  <2>3. CASE PushServe(d)
    BY <2>3 DEF PushServe, deviceVars, EditInv, PostedIsDirty
  <2>4. QED
    BY <2>1, <2>2, <2>3 DEF Step, PushStep
<1>2. AnswerBeatsEdit'
  <2> SUFFICES ASSUME NEW d \in Devices, pc'[d] = "Pushed",
                      NEW id \in Ids, answer'[d][id] # NoRow
               PROVE  /\ request'[d][id] # NoRow
                      /\ answer'[d][id].updatedAt >= request'[d][id].updatedAt
    BY DEF AnswerBeatsEdit
  <2>1. CASE SamePush(d)
    BY <2>1 DEF SamePush, EditInv, AnswerBeatsEdit
  <2>2. CASE PushServe(d)
    <3>1. request' = request
      BY <2>2 DEF PushServe
    <3>2. QED
      BY <2>2, <3>1, ServedBeats
  <2>3. QED
    BY <2>1, <2>2 DEF Step, PushStep
<1>3. EditsAreStamped'
  BY StampedStep DEF EditInv, Step
<1>4. QED
  BY <1>1, <1>2, <1>3 DEF EditInv

(* What an answer to a push does to the edit that is waiting for it. *)
LEMMA PushWriteKeeps ==
    ASSUME TypeOK, VersionsIdentifyWrites, EditInv,
           NEW d \in Devices, pc[d] = "Pushed",
           NEW id \in Ids, answer[d][id] # NoRow
    PROVE  /\ repo[d][id] # NoRow
           /\ answer[d][id].updatedAt >= repo[d][id].updatedAt
           /\ todos[id] # NoRow
           /\ todos[id].updatedAt >= repo[d][id].updatedAt
<1>1. /\ request[d][id] # NoRow
      /\ answer[d][id].updatedAt >= request[d][id].updatedAt
  BY DEF EditInv, AnswerBeatsEdit
<1>2. id \in ListDirty(repo[d]) /\ request[d][id] = ItemToWire(repo[d][id])
  BY <1>1 DEF EditInv, PostedIsDirty
<1>3. repo[d][id] # NoRow /\ request[d][id].updatedAt = repo[d][id].updatedAt
  BY <1>2 DEF ListDirty, ItemToWire
<1>4. answer[d][id] \in Copies(id)
  BY DEF Copies
<1>5. todos[id] # NoRow /\ todos[id] \in Row
  BY <1>4 DEF VersionsIdentifyWrites, TypeOK
<1>6. answer[d][id] \in Dto /\ ToDto(todos[id]) \in Copies(id)
  BY <1>5 DEF TypeOK, Copies
<1>7. /\ answer[d][id].serverVersion \in 1 .. todos[id].serverVersion
      /\ answer[d][id].serverVersion = todos[id].serverVersion
           => answer[d][id] = ToDto(todos[id])
      /\ answer[d][id].serverVersion < todos[id].serverVersion
           => answer[d][id].updatedAt <= todos[id].updatedAt
  BY <1>4, <1>5, <1>6 DEF VersionsIdentifyWrites, ToDto
<1>8. answer[d][id].updatedAt <= todos[id].updatedAt
  BY <1>5, <1>6, <1>7 DEF ToDto, Row, Dto
<1>9. repo[d][id] \in Local
  BY <1>3 DEF TypeOK
<1>10. QED
  BY <1>1, <1>3, <1>5, <1>6, <1>8, <1>9 DEF Local, Row, Dto

(* One row of one device, over one step. *)
LEMMA SurvivalStep ==
    ASSUME TypeOK, VersionsIdentifyWrites, EditInv, RuledStep,
           NEW d \in Devices, NEW id \in Ids,
           repo[d][id] # NoRow, repo[d][id].dirty
    PROVE  /\ repo'[d][id].updatedAt >= repo[d][id].updatedAt
           /\ ~repo'[d][id].dirty
                => /\ todos[id] # NoRow
                   /\ todos[id].updatedAt >= repo[d][id].updatedAt
<1>1. repo[d][id] \in Local
  BY DEF TypeOK
<1>2. CASE repo'[d][id] = repo[d][id]
  BY <1>1, <1>2 DEF Local
<1>3. ASSUME NEW e \in Devices, ByUser(e), repo'[d][id] # repo[d][id]
      PROVE  repo'[d][id].dirty /\ repo'[d][id].updatedAt >= repo[d][id].updatedAt
  <2>1. PICK i \in Ids, it \in Local :
           /\ it.dirty /\ it.updatedAt = NowMs(e)
           /\ repo' = [repo EXCEPT ![e][i] = it]
    BY <1>3 DEF ByUser
  <2>2. d = e /\ id = i
    BY <1>3, <2>1 DEF TypeOK
  <2>3. repo[d][id].updatedAt <= lastEdit[d] /\ lastEdit[d] < NowMs(d)
    BY <1>3, <2>2 DEF ByUser, CanEdit, EditInv, EditsAreStamped
  <2>4. repo'[d][id] = it
    BY <2>1, <2>2 DEF TypeOK
  <2>5. QED
    BY <1>1, <2>1, <2>2, <2>3, <2>4, NowMsType DEF TypeOK, Local
<1>4. ASSUME NEW e \in Devices, ByPull(e) PROVE repo'[d][id] = repo[d][id]
  <2>1. PICK ids \in SUBSET PullWrites(e) :
           repo' = [repo EXCEPT ![e] = Written(e, ids)]
    BY <1>4 DEF ByPull
  <2>2. ~(d = e /\ id \in ids)
    BY <2>1 DEF PullWrites
  <2>3. QED
    BY <2>1, <2>2 DEF Written, TypeOK
<1>5. ASSUME NEW e \in Devices, ByPush(e), repo'[d][id] # repo[d][id]
      PROVE  /\ repo'[d][id].updatedAt >= repo[d][id].updatedAt
             /\ todos[id] # NoRow
             /\ todos[id].updatedAt >= repo[d][id].updatedAt
  <2>1. PICK ids \in SUBSET PushWrites(e) :
           repo' = [repo EXCEPT ![e] = Written(e, ids)]
    BY <1>5 DEF ByPush, ByAnswer
  <2>2. d = e /\ answer[d][id] # NoRow /\ repo'[d][id] = ItemFromWire(answer[d][id])
    BY <1>5, <2>1 DEF Written, PushWrites, TypeOK
  <2>3. pc[d] = "Pushed"
    BY <1>5, <2>2 DEF ByPush, ByAnswer
  <2>4. repo'[d][id].updatedAt = answer[d][id].updatedAt
    BY <2>2 DEF ItemFromWire
  <2>5. QED
    BY <2>2, <2>3, <2>4, PushWriteKeeps
<1>6. QED
  BY <1>2, <1>3, <1>4, <1>5 DEF RuledStep

(* An edit loses its mark only to the answer of a push, and only when the  *)
(* server holds that edit or one that is not older.                        *)
THEOREM EditsSurvive == Spec => UnpushedEditSurvives
<1>1. Init => EditInv
  BY EditInit
<1>2. (TypeOK /\ ShownIsStored) /\ EditInv /\ [Next]_vars => EditInv'
  BY NextIsStep, EditStep
<1>3. (TypeOK /\ ShownIsStored) /\ VersionsIdentifyWrites /\ EditInv /\ [Next]_vars
        => \A d \in Devices, id \in Ids :
             repo[d][id] # NoRow /\ repo[d][id].dirty
               => /\ repo'[d][id] # NoRow
                  /\ repo'[d][id].updatedAt >= repo[d][id].updatedAt
                  /\ ~repo'[d][id].dirty
                       => /\ todos[id] # NoRow
                          /\ todos[id].updatedAt >= repo[d][id].updatedAt
  BY NextIsStep, SurvivalStep, RowsStay DEF Step
<1>4. QED
  BY <1>1, <1>2, <1>3, TypeCorrect, VersionsAgree, PTL
  DEF Spec, UnpushedEditSurvives

(* A synchronising device replaces its rows by rows that are not older. *)
LEMMA RegressStep ==
    ASSUME TypeOK, VersionsIdentifyWrites, EditInv, RuledStep,
           NEW d \in Devices, NEW id \in Ids,
           pc[d] # "Idle", repo[d][id] # NoRow
    PROVE  repo'[d][id].updatedAt >= repo[d][id].updatedAt
<1>1. repo[d][id] \in Local
  BY DEF TypeOK
<1>2. CASE repo'[d][id] = repo[d][id]
  BY <1>1, <1>2 DEF Local
<1>3. ASSUME NEW e \in Devices, ByUser(e) PROVE repo'[d][id] = repo[d][id]
  BY <1>3 DEF ByUser, CanEdit, TypeOK
<1>4. ASSUME NEW e \in Devices, ByPull(e), repo'[d][id] # repo[d][id]
      PROVE  repo'[d][id].updatedAt >= repo[d][id].updatedAt
  <2>1. PICK ids \in SUBSET PullWrites(e) :
           repo' = [repo EXCEPT ![e] = Written(e, ids)]
    BY <1>4 DEF ByPull
  <2>2. d = e /\ id \in PullWrites(d) /\ repo'[d][id] = ItemFromWire(answer[d][id])
    BY <1>4, <2>1 DEF Written, TypeOK, PullWrites
  <2>3. /\ answer[d][id] # NoRow /\ ~repo[d][id].dirty
        /\ answer[d][id].serverVersion > repo[d][id].serverVersion
    BY <2>2 DEF PullWrites
  <2>4. answer[d][id] \in Copies(id) /\ ToDto(repo[d][id]) \in Copies(id)
    BY <2>3 DEF Copies
  <2>5. ToDto(repo[d][id]).serverVersion < answer[d][id].serverVersion
          => ToDto(repo[d][id]).updatedAt <= answer[d][id].updatedAt
    BY <2>4 DEF VersionsIdentifyWrites
  <2>6. answer[d][id] \in Dto
    BY <2>3 DEF TypeOK
  <2>7. repo'[d][id].updatedAt = answer[d][id].updatedAt
    BY <2>2 DEF ItemFromWire
  <2>8. QED
    BY <1>1, <2>3, <2>5, <2>6, <2>7 DEF ToDto, Local, Dto
<1>5. ASSUME NEW e \in Devices, ByPush(e), repo'[d][id] # repo[d][id]
      PROVE  repo'[d][id].updatedAt >= repo[d][id].updatedAt
  <2>1. PICK ids \in SUBSET PushWrites(e) :
           repo' = [repo EXCEPT ![e] = Written(e, ids)]
    BY <1>5 DEF ByPush, ByAnswer
  <2>2. d = e /\ answer[d][id] # NoRow /\ repo'[d][id] = ItemFromWire(answer[d][id])
    BY <1>5, <2>1 DEF Written, PushWrites, TypeOK
  <2>3. pc[d] = "Pushed"
    BY <1>5, <2>2 DEF ByPush, ByAnswer
  <2>4. repo'[d][id].updatedAt = answer[d][id].updatedAt
    BY <2>2 DEF ItemFromWire
  <2>5. QED
    BY <2>2, <2>3, <2>4, PushWriteKeeps
<1>6. QED
  BY <1>2, <1>3, <1>4, <1>5 DEF RuledStep

(* No synchronisation replaces a row by an older one, although pulls       *)
(* compare versions and pushes compare stamps.                             *)
THEOREM SyncsNeverRegress == Spec => SyncNeverRegresses
<1>1. Init => EditInv
  BY EditInit
<1>2. (TypeOK /\ ShownIsStored) /\ EditInv /\ [Next]_vars => EditInv'
  BY NextIsStep, EditStep
<1>3. (TypeOK /\ ShownIsStored) /\ VersionsIdentifyWrites /\ EditInv /\ [Next]_vars
        => \A d \in Devices, id \in Ids :
             pc[d] # "Idle" /\ repo[d][id] # NoRow
               => repo'[d][id].updatedAt >= repo[d][id].updatedAt
  BY NextIsStep, RegressStep
<1>4. QED
  BY <1>1, <1>2, <1>3, TypeCorrect, VersionsAgree, PTL
  DEF Spec, SyncNeverRegresses

-----------------------------------------------------------------------------
(* Synchronisations wind down.                                             *)

(* A running synchronisation is in one of its attempts. *)
AttemptsCounted == \A d \in Devices : pc[d] # "Idle" => attempt[d] \in 1..MaxAttempts

(* What a step may do to the synchronisation of a device: nothing, start    *)
(* it, end it, take it to a later stage of the attempt, or to the next one. *)
SyncStays(d)  == pc'[d] = pc[d] /\ attempt'[d] = attempt[d]
SyncStarts(d) == pc[d] = "Idle" /\ pc'[d] = "Pull" /\ attempt'[d] = 1
SyncEnds(d)   == pc'[d] = "Idle"
StageEnds(d)  ==
    /\ pc[d] # "Idle" /\ attempt'[d] = attempt[d]
    /\ StagesLeft(pc'[d]) < StagesLeft(pc[d])
AttemptEnds(d) ==
    /\ pc[d] # "Idle" /\ pc'[d] = "Pull"
    /\ attempt[d] < MaxAttempts /\ attempt'[d] = attempt[d] + 1

SyncGoesOn(d) ==
    SyncStays(d) \/ SyncStarts(d) \/ SyncEnds(d) \/ StageEnds(d) \/ AttemptEnds(d)

(* The stages in the order of an attempt. *)
LEMMA StagesInOrder ==
    /\ StagesLeft("Pull") = 7 /\ StagesLeft("Queried") = 6
    /\ StagesLeft("Pulled") = 5 /\ StagesLeft("Push") = 4
    /\ StagesLeft("Posted") = 3 /\ StagesLeft("Pushed") = 2
    /\ StagesLeft("Reconcile") = 1
  BY DEF StagesLeft

(* An attempt has at most seven stages before it. *)
LEMMA StagesRange ==
    ASSUME NEW stage \in Stage, stage # "Idle" PROVE StagesLeft(stage) \in 1..7
  BY StagesInOrder DEF Stage

(* The device that takes a step, and the others. *)
LEMMA MoverGoesOn ==
    ASSUME TypeOK, NEW e \in Devices, NEW d \in Devices, NEW stage,
           pc' = [pc EXCEPT ![e] = stage], UNCHANGED attempt,
           pc[e] # "Idle", StagesLeft(stage) < StagesLeft(pc[e])
    PROVE  SyncGoesOn(d)
<1>1. CASE d = e
  BY <1>1 DEF SyncGoesOn, StageEnds, TypeOK
<1>2. CASE d # e
  BY <1>2 DEF SyncGoesOn, SyncStays, TypeOK
<1>3. QED
  BY <1>1, <1>2

(* A worker that is over is that of its device only. *)
LEMMA EngineGoneEnds ==
    ASSUME TypeOK, NEW e \in Devices, NEW d \in Devices, EngineGone(e)
    PROVE  SyncStays(d) \/ SyncEnds(d)
  BY DEF EngineGone, SyncStays, SyncEnds, TypeOK

(* Only a running synchronisation has a failed call. *)
LEMMA NotOkRuns ==
    ASSUME NEW d \in Devices, NotOk(d) PROVE pc[d] # "Idle"
  BY DEF NotOk, LeaveZombie

(* Each step of a worker ends a stage, an attempt or the synchronisation. *)
LEMMA WorkerGoesOn ==
    ASSUME TypeOK, NEW e \in Devices, NEW d \in Devices, WorkerStep(e)
    PROVE  SyncGoesOn(d)
<1>1. CASE PullQuery(e) \/ PullStamp(e) \/ PullGarbled(e)
  <2>1. PICK stage \in {"Queried", "Pulled", "Push"} :
           /\ pc' = [pc EXCEPT ![e] = stage] /\ UNCHANGED attempt /\ pc[e] # "Idle"
           /\ StagesLeft(stage) < StagesLeft(pc[e])
    BY <1>1, StagesInOrder DEF PullQuery, PullStamp, PullGarbled
  <2>2. QED
    BY <2>1, MoverGoesOn
<1>2. CASE PushSend(e) \/ PushServe(e) \/ PushGarbled(e)
  <2>1. PICK stage \in {"Posted", "Pushed", "Reconcile"} :
           /\ pc' = [pc EXCEPT ![e] = stage] /\ UNCHANGED attempt /\ pc[e] # "Idle"
           /\ StagesLeft(stage) < StagesLeft(pc[e])
    BY <1>2, StagesInOrder DEF PushSend, PushServe, PushGarbled
  <2>2. QED
    BY <2>1, MoverGoesOn
<1>3. ASSUME NEW failed \in SUBSET Ids, PullApply(e, failed) \/ PushApply(e, failed)
      PROVE  SyncGoesOn(d)
  <2>1. PICK stage \in {"Push", "Reconcile"} :
           /\ pc' = [pc EXCEPT ![e] = stage] /\ UNCHANGED attempt /\ pc[e] # "Idle"
           /\ StagesLeft(stage) < StagesLeft(pc[e])
    BY <1>3, StagesInOrder DEF PullApply, PushApply
  <2>2. QED
    BY <2>1, MoverGoesOn
<1>4. CASE Reconcile(e) \/ Fail(e)
  BY <1>4, EngineGoneEnds DEF Reconcile, Fail, SyncGoesOn
<1>5. CASE Retry(e)
  <2>1. CASE d = e
    BY <1>5, <2>1, NotOkRuns DEF Retry, SyncGoesOn, AttemptEnds, TypeOK
  <2>2. CASE d # e
    BY <1>5, <2>2 DEF Retry, SyncGoesOn, SyncStays, TypeOK
  <2>3. QED
    BY <2>1, <2>2
<1>6. QED
  BY <1>1, <1>2, <1>3, <1>4, <1>5 DEF WorkerStep

(* The user starts synchronisations and does nothing else to them. *)
LEMMA UserGoesOn ==
    ASSUME TypeOK, NEW e \in Devices, NEW d \in Devices, UserStep(e)
    PROVE  SyncGoesOn(d)
<1>1. CASE StartSync(e)
  BY <1>1 DEF StartSync, SyncGoesOn, SyncStarts, SyncStays, TypeOK
<1>2. CASE UNCHANGED engineVars
  BY <1>2 DEF engineVars, SyncGoesOn, SyncStays
<1>3. QED
  BY <1>1, <1>2 DEF UserStep, AddItem, SetDone, RemoveItem, WriteLocal

(* So whatever happens, a synchronisation does not go back. *)
LEMMA NextGoesOn ==
    ASSUME TypeOK, [Next]_vars, NEW d \in Devices PROVE SyncGoesOn(d)
<1>1. ASSUME NEW e \in Devices, UserStep(e) \/ WorkerStep(e) PROVE SyncGoesOn(d)
  BY <1>1, UserGoesOn, WorkerGoesOn
<1>2. ASSUME NEW e \in Devices, NEW done \in SUBSET Ids, Crash(e, done)
      PROVE  SyncGoesOn(d)
  <2>1. EngineGone(e)
    BY <1>2 DEF Crash
  <2>2. QED
    BY <2>1, EngineGoneEnds DEF SyncGoesOn
<1>3. CASE UNCHANGED engineVars
  BY <1>3 DEF engineVars, SyncGoesOn, SyncStays
<1>4. QED
  BY <1>1, <1>2, <1>3 DEF Next, Tick, ServeZombie, vars

(* An attempt is counted when it begins, and there are MaxAttempts of them. *)
LEMMA AttemptsStep ==
    ASSUME TypeOK, AttemptsCounted, \A d \in Devices : SyncGoesOn(d)
    PROVE  AttemptsCounted'
<1> SUFFICES ASSUME NEW d \in Devices, pc'[d] # "Idle"
             PROVE  attempt'[d] \in 1..MaxAttempts
  BY DEF AttemptsCounted
<1>1. attempt[d] \in Nat /\ (pc[d] # "Idle" => attempt[d] \in 1..MaxAttempts)
  BY DEF TypeOK, AttemptsCounted
<1>2. QED
  BY <1>1, BoundsAssumption
  DEF SyncGoesOn, SyncStays, SyncStarts, SyncEnds, StageEnds, AttemptEnds

(* A synchronisation that goes on has less before it. *)
LEMMA GoingOnCounts ==
    ASSUME TypeOK, AttemptsCounted, NEW d \in Devices, SyncGoesOn(d), pc'[d] \in Stage,
           pc[d] # "Idle"
    PROVE  WorkLeft(d)' < WorkLeft(d) \/ SyncStays(d)
<1>1. attempt[d] \in 1..MaxAttempts /\ MaxAttempts \in Nat
  BY BoundsAssumption DEF AttemptsCounted
<1>2. StagesLeft(pc[d]) \in 1..7
  BY StagesRange DEF TypeOK
<1>3. WorkLeft(d) = 7 * (MaxAttempts - attempt[d]) + StagesLeft(pc[d])
  BY DEF WorkLeft
<1>4. CASE SyncEnds(d)
  <2>1. WorkLeft(d)' = 0
    BY <1>4 DEF WorkLeft, SyncEnds
  <2>2. QED
    BY <1>1, <1>2, <1>3, <2>1
<1>5. CASE StageEnds(d) /\ pc'[d] # "Idle"
  <2>1. WorkLeft(d)' = 7 * (MaxAttempts - attempt[d]) + StagesLeft(pc'[d])
    BY <1>5 DEF WorkLeft, StageEnds
  <2>2. StagesLeft(pc'[d]) \in 1..7 /\ StagesLeft(pc'[d]) < StagesLeft(pc[d])
    BY <1>5, StagesRange DEF StageEnds
  <2>3. QED
    BY <1>1, <1>2, <1>3, <2>1, <2>2
<1>6. CASE AttemptEnds(d)
  <2>1. WorkLeft(d)' = 7 * (MaxAttempts - (attempt[d] + 1)) + 7
    BY <1>6, StagesInOrder DEF WorkLeft, AttemptEnds
  <2>2. QED
    BY <1>1, <1>2, <1>3, <2>1
<1>7. QED
  BY <1>4, <1>5, <1>6 DEF SyncGoesOn, SyncStarts, SyncEnds

(* Whatever fails, and whatever others do, a synchronisation never goes     *)
(* back: it is over after 7 * MaxAttempts steps of its own at most.         *)
THEOREM SyncsEnd == Spec => SyncsWindDown
<1>1. Init => AttemptsCounted
  BY DEF Init, AttemptsCounted
<1>2. TypeOK /\ AttemptsCounted /\ [Next]_vars => AttemptsCounted'
  BY NextGoesOn, AttemptsStep
<1>3. TypeOK /\ TypeOK' /\ AttemptsCounted /\ [Next]_vars =>
        \A d \in Devices : pc[d] # "Idle" =>
          \/ WorkLeft(d)' < WorkLeft(d)
          \/ pc'[d] = pc[d] /\ attempt'[d] = attempt[d]
  BY NextGoesOn, GoingOnCounts DEF SyncStays, TypeOK
<1>4. QED
  BY <1>1, <1>2, <1>3, TypeCorrect, PTL DEF Spec, SyncsWindDown

=============================================================================
