-------------------------- MODULE ServerStoreProofs --------------------------
(* The server's table is the last-writer-wins store, for any desktop and    *)
(* mobile devices, items, clocks, attempts and faults.                      *)
EXTENDS ServerStore, MobileSyncProofs

(* Every write of the item by the user of d that is still about, or that    *)
(* the server has ever taken in.                                            *)
AllWrites(d, id) ==
    DeviceWrites(d, id)
    \cup {ItemToWire(w) : w \in {v \in merged : v.device = d /\ v.id = id}}

(* A stamp of a device means one write, however long ago it was made.       *)
StampsAreUnique ==
    \A d \in Devices, id \in Ids : \A v, w \in AllWrites(d, id) :
        /\ v.updatedAt = w.updatedAt => v = w
        /\ v.updatedAt <= lastEdit[d]

(* The write a row of the server holds. *)
AsWrite(id, row) ==
    [id |-> id, isDone |-> row.isDone, deleted |-> row.deleted,
     updatedAt |-> row.updatedAt, device |-> row.lastModifiedBy]

(* A row holds one of the writes taken in, and beats them all. *)
StoreHolds ==
    \A id \in Ids :
        /\ todos[id] # NoRow => AsWrite(id, todos[id]) \in merged
        /\ \A w \in merged : w.id = id => HasMerged(w.device, id, ItemToWire(w))

(* Inductive with SyncInv: "the latest of all writes" says nothing of what  *)
(* is still to come, StampsAreUnique does.                                  *)
StoreInv == merged \subseteq Lww!Write /\ StampsAreUnique /\ StoreHolds

-----------------------------------------------------------------------------
(* The requests a step serves *)

(* A step that serves nothing. *)
ServesNothing ==
    /\ UNCHANGED todos
    /\ zombies \subseteq zombies'
    /\ \A e \in Devices : pc[e] = "Posted" => pc'[e] # "Pushed"

(* The user's steps serve nothing. *)
LEMMA UserServesNothing ==
    ASSUME TypeOK, NEW d \in Devices, UserStep(d) PROVE ServesNothing
<1>1. CASE StartSync(d)
  BY <1>1 DEF StartSync, ServesNothing, TypeOK, serverVars
<1>2. ASSUME NEW id \in Ids, AddItem(d, id) \/ SetDone(d, id) \/ RemoveItem(d, id)
      PROVE  UNCHANGED <<serverVars, engineVars>>
  BY <1>2 DEF AddItem, SetDone, RemoveItem, WriteLocal
<1>3. QED
  BY <1>1, <1>2 DEF UserStep, ServesNothing, serverVars, engineVars

(* A failed attempt leaves a request behind, or none. *)
LEMMA NotOkKeepsZombies ==
    ASSUME NEW d \in Devices, NotOk(d) PROVE zombies \subseteq zombies'
  BY DEF NotOk, LeaveZombie

(* The end of a synchronisation serves nothing. *)
LEMMA EndServesNothing ==
    ASSUME TypeOK, NEW d \in Devices,
           Retry(d) \/ Fail(d) \/ \E done \in SUBSET Ids : Crash(d, done)
    PROVE  ServesNothing
<1>1. CASE Retry(d)
  <2>1. UNCHANGED todos /\ zombies \subseteq zombies' /\ pc' = [pc EXCEPT ![d] = "Pull"]
    BY <1>1, NotOkKeepsZombies DEF Retry
  <2>2. QED
    BY <2>1 DEF ServesNothing, TypeOK
<1>2. ASSUME EngineGone(d), UNCHANGED todos, zombies \subseteq zombies'
      PROVE  ServesNothing
  BY <1>2 DEF EngineGone, ServesNothing, TypeOK
<1>3. CASE Fail(d)
  BY <1>2, <1>3, NotOkKeepsZombies DEF Fail
<1>4. CASE \E done \in SUBSET Ids : Crash(d, done)
  BY <1>2, <1>4 DEF Crash, LeaveZombie
<1>5. QED
  BY <1>1, <1>3, <1>4

(* Nor does anything a worker does but to wait for its push. *)
LEMMA WorkerServesNothing ==
    ASSUME TypeOK, NEW d \in Devices, WorkerStep(d), ~PushServe(d) PROVE ServesNothing
<1>1. ASSUME NEW s \in Stage \ {"Pushed"}, pc' = [pc EXCEPT ![d] = s],
             UNCHANGED <<todos, zombies>>
      PROVE  ServesNothing
  BY <1>1 DEF ServesNothing, TypeOK
<1>2. CASE PullQuery(d) \/ PullStamp(d) \/ PullGarbled(d) \/ PushSend(d) \/ PushGarbled(d)
  <2>1. UNCHANGED <<todos, zombies>>
    BY <1>2 DEF PullQuery, PullStamp, PullGarbled, PushSend, PushGarbled, serverVars
  <2>2. \E s \in Stage \ {"Pushed"} : pc' = [pc EXCEPT ![d] = s]
    BY <1>2 DEF PullQuery, PullStamp, PullGarbled, PushSend, PushGarbled, Stage
  <2>3. QED
    BY <1>1, <2>1, <2>2
<1>3. CASE Reconcile(d)
  <2>1. UNCHANGED <<todos, zombies>> /\ pc' = [pc EXCEPT ![d] = "Idle"]
    BY <1>3 DEF Reconcile, EngineGone, serverVars
  <2>2. QED
    BY <1>1, <2>1 DEF Stage
<1>4. ASSUME NEW failed \in SUBSET Ids, PullApply(d, failed) \/ PushApply(d, failed)
      PROVE  ServesNothing
  <2>1. UNCHANGED <<todos, zombies>>
    BY <1>4 DEF PullApply, PushApply, serverVars
  <2>2. \E s \in Stage \ {"Pushed"} : pc' = [pc EXCEPT ![d] = s]
    BY <1>4 DEF PullApply, PushApply, Stage
  <2>3. QED
    BY <1>1, <2>1, <2>2
<1>5. QED
  BY <1>2, <1>3, <1>4, EndServesNothing DEF WorkerStep

(* A mobile core's own steps are not the server's. *)
LEMMA MobileServesNothing ==
    ASSUME TypeOK, NEW d \in Devices, MobileOwn(d) PROVE ServesNothing
<1>1. UNCHANGED <<todos, zombies>>
  BY DEF MobileOwn, MobilePullApply, MobilePushApply, MobileGarbled, MobileReconcile,
         serverVars
<1>2. \E s \in {"Idle", "Push", "Reconcile"} : pc' = [pc EXCEPT ![d] = s]
  BY DEF MobileOwn, MobilePullApply, MobilePushApply, MobileGarbled, MobileReconcile,
         EngineGone
<1>3. QED
  BY <1>1, <1>2 DEF ServesNothing, TypeOK

(* So a step serves one request that was on its way, or none.               *)
ServesOne(d, items) ==
    /\ items \in Requests(d) /\ items \in [Ids -> Item \cup {NoRow}]
    /\ Commit(items, d)
    /\ Served = {[device |-> d, items |-> items]}

(* Which is the request of a device that waits, or one given up. *)
LEMMA StepServes ==
    ASSUME TypeOK, [MobileNext]_vars
    PROVE  \/ UNCHANGED todos /\ Served = {}
           \/ \E d \in Devices : \E items \in Requests(d) : ServesOne(d, items)
<1>1. ASSUME NEW d \in Devices, PushServe(d)
      PROVE  request[d] \in Requests(d) /\ ServesOne(d, request[d])
  <2>1. /\ pc[d] = "Posted" /\ pc' = [pc EXCEPT ![d] = "Pushed"]
        /\ UNCHANGED zombies /\ Commit(request[d], d)
    BY <1>1 DEF PushServe
  <2>2. {e \in Devices : pc[e] = "Posted" /\ pc'[e] = "Pushed"} = {d}
    BY <2>1 DEF TypeOK
  <2>3. Served = {[device |-> d, items |-> request[d]]}
    BY <2>1, <2>2 DEF Served
  <2>4. request[d] \in [Ids -> Item \cup {NoRow}]
    BY DEF TypeOK
  <2>5. QED
    BY <2>1, <2>3, <2>4 DEF ServesOne, Requests
<1>2. ASSUME NEW z \in zombies, ServeZombie(z)
      PROVE  /\ z.device \in Devices /\ z.items \in Requests(z.device)
             /\ ServesOne(z.device, z.items)
  <2>1. /\ z.device \in Devices /\ z.items \in [Ids -> Item \cup {NoRow}]
        /\ z = [device |-> z.device, items |-> z.items]
    BY DEF TypeOK
  <2>2. UNCHANGED pc /\ zombies \ zombies' = {z} /\ Commit(z.items, z.device)
    BY <1>2 DEF ServeZombie, engineVars
  <2>3. {e \in Devices : pc[e] = "Posted" /\ pc'[e] = "Pushed"} = {}
    BY <2>2
  <2>4. Served = {[device |-> z.device, items |-> z.items]}
    BY <2>1, <2>2, <2>3 DEF Served
  <2>5. QED
    BY <2>1, <2>2, <2>4 DEF ServesOne, Requests
<1>3. CASE ServesNothing
  BY <1>3 DEF ServesNothing, Served
<1>4. CASE Tick \/ UNCHANGED vars
  BY <1>3, <1>4 DEF Tick, vars, serverVars, engineVars, ServesNothing
<1>5. CASE \E d \in Devices : MobileOwn(d)
  BY <1>3, <1>5, MobileServesNothing
<1>6. CASE [Next]_vars
  BY <1>1, <1>2, <1>3, <1>4, <1>6, UserServesNothing, WorkerServesNothing,
     EndServesNothing DEF Next
<1>7. QED
  BY <1>5, <1>6, MobileNextSplits

-----------------------------------------------------------------------------
(* What is taken in *)

(* A step is one of MobileSync, and adds the writes of the request it serves. *)
LEMMA Added ==
    ASSUME [StoreNext]_storeVars
    PROVE  /\ [MobileNext]_vars
           /\ \/ UNCHANGED <<todos, merged>>
              \/ merged' = merged \cup UNION {WritesOf(r.device, r.items) : r \in Served}
  BY DEF StoreNext, storeVars, vars, serverVars

(* That request, where there is one. *)
LEMMA AddedServes ==
    ASSUME TypeOK, [StoreNext]_storeVars
    PROVE  \/ UNCHANGED <<todos, merged>>
           \/ \E d \in Devices : \E items \in Requests(d) :
                ServesOne(d, items) /\ merged' = merged \cup WritesOf(d, items)
<1>1. [MobileNext]_vars
  BY Added
<1>2. CASE UNCHANGED <<todos, merged>>
  BY <1>2
<1>3. CASE merged' = merged \cup UNION {WritesOf(r.device, r.items) : r \in Served}
  <2>1. CASE UNCHANGED todos /\ Served = {}
    BY <1>3, <2>1
  <2>2. ASSUME NEW d \in Devices, NEW items \in Requests(d), ServesOne(d, items)
        PROVE  merged' = merged \cup WritesOf(d, items)
    <3>1. {WritesOf(r.device, r.items) : r \in Served} = {WritesOf(d, items)}
      BY <2>2 DEF ServesOne
    <3>2. UNION {WritesOf(d, items)} = WritesOf(d, items)
      OBVIOUS
    <3>3. QED
      BY <1>3, <3>1, <3>2
  <2>3. QED
    BY <1>1, <2>1, <2>2, StepServes
<1>4. QED
  BY <1>2, <1>3, Added

(* A write of a request is what the request carries for an item. *)
LEMMA WritesAre ==
    ASSUME NEW d \in Devices, NEW items \in [Ids -> Item \cup {NoRow}],
           NEW w \in WritesOf(d, items)
    PROVE  /\ w \in Lww!Write /\ w.device = d /\ w.id \in Ids
           /\ items[w.id] \in Item /\ ItemToWire(w) = items[w.id]
<1>1. PICK id \in Ids : items[id] # NoRow
        /\ w = [id |-> id, isDone |-> items[id].isDone, deleted |-> items[id].deleted,
                updatedAt |-> items[id].updatedAt, device |-> d]
  BY DEF WritesOf
<1>2. items[id] \in Item
  BY <1>1
<1>3. ItemToWire(w) = items[id]
  BY <1>1, <1>2 DEF ItemToWire, Item
<1>4. w \in Lww!Write
  BY <1>1, <1>2 DEF Lww!Write, Item
<1>5. QED
  BY <1>1, <1>2, <1>3, <1>4

(* The numbers of a write. *)
LEMMA WireOfWrite ==
    ASSUME NEW w \in Lww!Write
    PROVE  /\ ItemToWire(w) \in Item /\ ItemToWire(w).updatedAt = w.updatedAt
           /\ w.id \in Ids /\ w.device \in Devices /\ w.updatedAt \in Int
  BY DEF Lww!Write, ItemToWire, Item

(* No step brings a write about but the user's edits: what the server takes *)
(* in was on its way.                                                       *)
LEMMA AllWritesStep ==
    ASSUME TypeOK, merged \subseteq Lww!Write, Step, [StoreNext]_storeVars,
           NEW d \in Devices, NEW id \in Ids, NEW v \in AllWrites(d, id)'
    PROVE  \/ v \in AllWrites(d, id)
           \/ /\ v = ItemToWire(repo'[d][id])
              /\ v.updatedAt = lastEdit'[d]
              /\ lastEdit[d] < lastEdit'[d]
<1>1. CASE v \in DeviceWrites(d, id)'
  BY <1>1, WritesStep DEF AllWrites
<1>2. ASSUME NEW w \in merged', w.device = d, w.id = id, v = ItemToWire(w)
      PROVE  v \in AllWrites(d, id)
  <2>1. CASE w \in merged
    BY <1>2, <2>1 DEF AllWrites
  <2>2. ASSUME NEW e \in Devices, NEW items \in Requests(e),
               ServesOne(e, items), w \in WritesOf(e, items)
        PROVE  v \in DeviceWrites(d, id)
    <3>1. items \in [Ids -> Item \cup {NoRow}]
      BY <2>2 DEF ServesOne
    <3>2. e = d /\ v = items[id] /\ v \in Item
      BY <1>2, <2>2, <3>1, WritesAre
    <3>3. items \in Requests(d) /\ v # NoRow
      BY <3>2, NoRowAssumption
    <3>4. QED
      BY <3>2, <3>3 DEF Requests, DeviceWrites
  <2>3. QED
    BY <2>1, <2>2, AddedServes DEF AllWrites
<1>3. QED
  BY <1>1, <1>2 DEF AllWrites

(* All of them are items. *)
LEMMA AllWritesType ==
    ASSUME TypeOK, merged \subseteq Lww!Write, NEW d \in Devices, NEW id \in Ids
    PROVE  AllWrites(d, id) \subseteq Item
  BY WritesType, WireOfWrite DEF AllWrites

(* The stamp of an edit is later than those of all before it. *)
LEMMA AllStampsStep ==
    ASSUME TypeOK, merged \subseteq Lww!Write, StampsAreUnique, Step,
           [StoreNext]_storeVars
    PROVE  StampsAreUnique'
<1> SUFFICES ASSUME NEW d \in Devices, NEW id \in Ids,
                    NEW v \in AllWrites(d, id)', NEW w \in AllWrites(d, id)'
             PROVE  /\ v.updatedAt = w.updatedAt => v = w
                    /\ v.updatedAt <= lastEdit'[d]
  BY DEF StampsAreUnique
<1> DEFINE New(x) == /\ x = ItemToWire(repo'[d][id])
                     /\ x.updatedAt = lastEdit'[d]
                     /\ lastEdit[d] < lastEdit'[d]
           Old(x) == x.updatedAt \in Int /\ x.updatedAt <= lastEdit[d]
<1>1. lastEdit[d] \in Int /\ lastEdit'[d] \in Int /\ lastEdit[d] <= lastEdit'[d]
  BY LastEditGrows DEF Step
<1>2. \A x \in AllWrites(d, id) : Old(x)
  BY AllWritesType DEF StampsAreUnique, Item
<1>3. v \in AllWrites(d, id) \/ New(v)
  BY AllWritesStep
<1>4. w \in AllWrites(d, id) \/ New(w)
  BY AllWritesStep
<1>5. CASE v \in AllWrites(d, id) /\ w \in AllWrites(d, id)
  BY <1>1, <1>2, <1>5 DEF StampsAreUnique
<1>6. CASE New(v) /\ New(w)
  BY <1>1, <1>6
<1>7. CASE v \in AllWrites(d, id) /\ New(w)
  BY <1>1, <1>2, <1>7
<1>8. CASE New(v) /\ w \in AllWrites(d, id)
  BY <1>1, <1>2, <1>8
<1>9. QED
  BY <1>3, <1>4, <1>5, <1>6, <1>7, <1>8

-----------------------------------------------------------------------------
(* What the store holds *)

(* To take in a request leaves rows that hold the latest of all. *)
LEMMA ServeHolds ==
    ASSUME TypeOK, merged \subseteq Lww!Write, StoreHolds, ServerStep,
           NEW d \in Devices, NEW items \in Requests(d), ServesOne(d, items),
           merged' = merged \cup WritesOf(d, items)
    PROVE  StoreHolds'
<1>1. items \in [Ids -> Item \cup {NoRow}] /\ Commit(items, d)
  BY DEF ServesOne
<1>2. ASSUME NEW id \in Ids, todos'[id] # NoRow
      PROVE  AsWrite(id, todos'[id]) \in merged'
  <2>1. CASE todos'[id] = todos[id]
    BY <1>2, <2>1 DEF StoreHolds
  <2>2. CASE todos'[id] # todos[id]
    <3>1. /\ items[id] # NoRow /\ items[id] \in Item
          /\ todos'[id] = Merged(todos[id], items[id], d)
          /\ todos[id] \in Row \cup {NoRow}
      BY <1>1, <2>2, CommitMerges
    <3>2. ItemToWire(todos'[id]) = items[id] /\ todos'[id].lastModifiedBy = d
      BY <2>2, <3>1, MergedIsIncoming
    <3>3. AsWrite(id, todos'[id]) =
            [id |-> id, isDone |-> items[id].isDone, deleted |-> items[id].deleted,
             updatedAt |-> items[id].updatedAt, device |-> d]
      BY <3>2 DEF AsWrite, ItemToWire
    <3>4. AsWrite(id, todos'[id]) \in WritesOf(d, items)
      BY <3>1, <3>3 DEF WritesOf
    <3>5. QED
      BY <3>4
  <2>3. QED
    BY <2>1, <2>2
<1>3. ASSUME NEW id \in Ids, NEW w \in merged', w.id = id
      PROVE  HasMerged(w.device, id, ItemToWire(w))'
  <2>1. CASE w \in merged
    <3>1. w.device \in Devices /\ ItemToWire(w) \in Item
      BY <2>1, WireOfWrite
    <3>2. HasMerged(w.device, id, ItemToWire(w))
      BY <1>3, <2>1 DEF StoreHolds
    <3>3. QED
      BY <3>1, <3>2, MergedStays DEF HasMerged
  <2>2. CASE w \in WritesOf(d, items)
    <3>1. w.device = d /\ items[id] \in Item /\ ItemToWire(w) = items[id]
      BY <1>1, <1>3, <2>2, WritesAre
    <3>2. todos'[id] \in Row /\ Beats(todos'[id], items[id], d)
      BY <1>1, <3>1, CommitMerges, NoRowAssumption
    <3>3. QED
      BY <3>1, <3>2, NoRowAssumption DEF HasMerged
  <2>3. QED
    BY <2>1, <2>2
<1>4. QED
  BY <1>2, <1>3 DEF StoreHolds

(* The server has taken nothing in. *)
LEMMA StoreInvInit == StoreInit => StoreInv
<1>1. ASSUME StoreInit, NEW d \in Devices, NEW id \in Ids PROVE AllWrites(d, id) = {}
  BY <1>1 DEF StoreInit, Init, AllWrites, DeviceWrites, ListDirty, Nothing
<1>2. StoreInit => StoreHolds
  BY DEF StoreInit, Init, StoreHolds, Nothing
<1>3. QED
  BY <1>1, <1>2 DEF StoreInv, StampsAreUnique, StoreInit

(* Every step keeps the invariant. *)
LEMMA StoreInvStep ==
    ASSUME SyncInv, StoreInv, [StoreNext]_storeVars PROVE StoreInv'
<1>1. TypeOK /\ ShownIsStored /\ [MobileNext]_vars
  BY Added DEF SyncInv
<1>2. Step /\ ServerStep
  BY <1>1, MobileNextIsStep DEF Step
<1>3. merged' \subseteq Lww!Write
  <2>1. ASSUME NEW d \in Devices, NEW items \in Requests(d), ServesOne(d, items)
        PROVE  WritesOf(d, items) \subseteq Lww!Write
    BY <2>1, WritesAre DEF ServesOne
  <2>2. QED
    BY <1>1, <2>1, AddedServes DEF StoreInv
<1>4. StampsAreUnique'
  BY <1>1, <1>2, AllStampsStep DEF StoreInv
<1>5. StoreHolds'
  <2>1. CASE UNCHANGED <<todos, merged>>
    BY <2>1 DEF StoreInv, StoreHolds, HasMerged
  <2>2. QED
    BY <1>1, <1>2, <2>1, AddedServes, ServeHolds DEF StoreInv
<1>6. QED
  BY <1>3, <1>4, <1>5 DEF StoreInv

-----------------------------------------------------------------------------
(* The latest write *)

(* Two writes of one item that beat each other are one. *)
LEMMA OneLatest ==
    ASSUME StoreInv, NEW v \in merged, NEW w \in merged, v.id = w.id,
           Lww!Beats(v, w), Lww!Beats(w, v)
    PROVE  v = w
<1>1. v \in Lww!Write /\ w \in Lww!Write
  BY DEF StoreInv
<1>2. v.updatedAt = w.updatedAt /\ v.device = w.device
  <2>1. v.device \in Int /\ w.device \in Int
    <3>1. \A d \in Devices : d \in Int
      BY DevicesAssumption
    <3>2. QED
      BY <1>1, <3>1, WireOfWrite
  <2>2. QED
    BY <1>1, <2>1, WireOfWrite DEF Lww!Beats
<1>3. /\ ItemToWire(v) \in AllWrites(v.device, v.id)
      /\ ItemToWire(w) \in AllWrites(v.device, v.id)
  BY <1>2 DEF AllWrites
<1>4. ItemToWire(v) = ItemToWire(w)
  BY <1>1, <1>2, <1>3, WireOfWrite DEF StoreInv, StampsAreUnique
<1>5. QED
  BY <1>1, <1>2, <1>4 DEF ItemToWire, Lww!Write

(* The server's rows are what the store promises. *)
StoreIsLatest == Value = [id \in Ids |-> Lww!Latest(merged, id)]

(* An item holds the latest write the server has taken in. *)
LEMMA ValueIsLatest == ASSUME TypeOK, StoreInv PROVE StoreIsLatest
<1>1. ASSUME NEW id \in Ids PROVE Value[id] = Lww!Latest(merged, id)
  <2> DEFINE ofId == {w \in merged : w.id = id}
             held == AsWrite(id, todos[id])
  <2>1. StoreHolds
    BY DEF StoreInv
  <2>2. CASE todos[id] = NoRow
    <3>1. ofId = {}
      BY <2>1, <2>2 DEF StoreHolds, HasMerged
    <3>2. QED
      BY <2>2, <3>1 DEF Value, Lww!Latest
  <2>3. CASE todos[id] # NoRow
    <3>1. held \in ofId /\ Value[id] = held
      BY <2>1, <2>3 DEF StoreHolds, Value, AsWrite
    <3>2. ASSUME NEW w \in ofId PROVE Lww!Beats(held, w)
      <4>1. Beats(todos[id], ItemToWire(w), w.device)
        BY <2>1 DEF StoreHolds, HasMerged
      <4>2. QED
        BY <4>1 DEF Beats, Lww!Beats, AsWrite, ItemToWire
    <3>3. ASSUME NEW w \in ofId, \A v \in ofId : Lww!Beats(w, v) PROVE w = held
      BY <3>1, <3>2, <3>3, OneLatest
    <3>4. (CHOOSE w \in ofId : \A v \in ofId : Lww!Beats(w, v)) = held
      BY <3>1, <3>2, <3>3
    <3>5. QED
      BY <3>1, <3>4 DEF Lww!Latest
  <2>4. QED
    BY <2>2, <2>3
<1>2. QED
  BY <1>1 DEF Value, StoreIsLatest

-----------------------------------------------------------------------------
(* Theorems *)

(* The invariant, of any behaviour: the server's table and what is on its   *)
(* way to it.                                                               *)
THEOREM StoreInvariant == StoreSpec => [](SyncInv /\ StoreInv)
<1>1. StoreInit => SyncInv /\ StoreInv
  BY StoreInvInit, SyncInit DEF StoreInit
<1>2. SyncInv /\ StoreInv /\ [StoreNext]_storeVars => SyncInv' /\ StoreInv'
  <2>1. SUFFICES ASSUME SyncInv, StoreInv, [StoreNext]_storeVars
                 PROVE  SyncInv' /\ StoreInv'
    OBVIOUS
  <2>2. TypeOK /\ ShownIsStored /\ [MobileNext]_vars
    BY <2>1, Added DEF SyncInv
  <2>3. SyncInv'
    BY <2>1, <2>2, MobileNextIsStep, SyncStep
  <2>4. QED
    BY <2>1, <2>3, StoreInvStep
<1>3. QED
  BY <1>1, <1>2, PTL DEF StoreSpec

(* MergePolicy.java:8-11, end to end: the server's table among devices that *)
(* edit, lose answers, retry and give up is the last-writer-wins store; a   *)
(* push merges its writes in one step, whenever it is carried out, and no   *)
(* other step changes the store.                                            *)
THEOREM SyncImplementsLww == StoreSpec => ImplementsLww
<1>1. StoreInit => Lww!StoreInit
  BY DEF StoreInit, Init, Lww!StoreInit, Value, Nothing
<1>2. SyncInv /\ StoreInv => StoreIsLatest
  BY ValueIsLatest DEF SyncInv
<1>3. StoreIsLatest' /\ [StoreNext]_storeVars => [Lww!Merge]_<<merged, Value>>
  <2>1. SUFFICES ASSUME StoreIsLatest', [StoreNext]_storeVars PROVE Lww!Merge
    OBVIOUS
  <2>2. merged \subseteq merged'
    BY <2>1, Added
  <2>3. Value' = [id \in Ids |-> Lww!Latest(merged', id)]
    BY <2>1 DEF StoreIsLatest
  <2>4. QED
    BY <2>2, <2>3 DEF Lww!Merge
<1>4. QED
  BY <1>1, <1>2, <1>3, StoreInvariant, PTL DEF StoreSpec, ImplementsLww, Lww!StoreSpec

=============================================================================
