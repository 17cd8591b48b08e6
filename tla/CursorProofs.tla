---------------------------- MODULE CursorProofs ----------------------------
(* Theorems about the cursor of TodoSync and about pushes that arrive       *)
(* twice, for any devices, items, clocks and bounds.                        *)
EXTENDS TodoSyncProofs

(* Every form in which a write of the item by the user of d is still about: *)
(* d's row while it waits for its push, the push in flight, the pushes that *)
(* were given up, and the server's row if d wrote it.                      *)
DeviceWrites(d, id) ==
    {ItemToWire(repo[d][i]) : i \in {id} \cap ListDirty(repo[d])}
    \cup ({request[d][id]} \ {NoRow})
    \cup ({z.items[id] : z \in {y \in zombies : y.device = d}} \ {NoRow})
    \cup {ItemToWire(todos[i]) :
            i \in {j \in {id} : todos[j] # NoRow /\ todos[j].lastModifiedBy = d}}

(* A stamp of a device means one write.                                    *)
StampsIdentifyWrites ==
    \A d \in Devices, id \in Ids : \A v, w \in DeviceWrites(d, id) :
        /\ v.updatedAt = w.updatedAt => v = w
        /\ v.updatedAt <= lastEdit[d]

(* The writes of a device are items. *)
LEMMA WritesType ==
    ASSUME TypeOK, NEW d \in Devices, NEW id \in Ids
    PROVE  DeviceWrites(d, id) \subseteq Item
<1>1. \A row \in Row : ItemToWire(row) \in Item
  BY DEF ItemToWire, Row, Item
<1>2. ASSUME NEW z \in zombies, z.items[id] # NoRow PROVE z.items[id] \in Item
  BY <1>2 DEF TypeOK
<1>3. request[d][id] \in Item \cup {NoRow} /\ todos[id] \in Row \cup {NoRow}
  BY DEF TypeOK
<1>4. \A i \in ListDirty(repo[d]) : ItemToWire(repo[d][i]) \in Item
  BY ItemToWireType DEF TypeOK, ListDirty
<1>5. QED
  BY <1>1, <1>2, <1>3, <1>4 DEF DeviceWrites

(* A row that a merge changes is what the request carried, and names its    *)
(* sender.                                                                 *)
LEMMA MergedIsIncoming ==
    ASSUME NEW row \in Row \cup {NoRow}, NEW in \in Item, NEW d \in Devices,
           Merged(row, in, d) # row
    PROVE  /\ Merged(row, in, d) \in Row
           /\ ItemToWire(Merged(row, in, d)) = in
           /\ Merged(row, in, d).lastModifiedBy = d
  BY DevicesAssumption
  DEF Merged, FromNew, ApplyIncoming, Accepts, ItemToWire, Row, Item

(* So what the server takes in is a write of a device that was about.       *)
LEMMA TodosAreWrites ==
    ASSUME TypeOK, ServerStep, NEW id \in Ids, todos'[id] # todos[id]
    PROVE  /\ todos'[id] \in Row
           /\ ItemToWire(todos'[id]) \in DeviceWrites(todos'[id].lastModifiedBy, id)
<1>0. PICK d \in Devices : \E items \in Requests(d) :
         items \in [Ids -> Item \cup {NoRow}] /\ Commit(items, d)
  BY ServerMerges
<1>1. PICK items \in Requests(d) :
         items \in [Ids -> Item \cup {NoRow}] /\ Commit(items, d)
  BY <1>0
<1>2. items[id] # NoRow /\ todos'[id] = Merged(todos[id], items[id], d)
  BY <1>1 DEF Commit, MergedTodos
<1>3. items[id] \in Item /\ todos[id] \in Row \cup {NoRow}
  BY <1>1, <1>2 DEF TypeOK
<1>4. /\ todos'[id] \in Row
      /\ ItemToWire(todos'[id]) = items[id]
      /\ todos'[id].lastModifiedBy = d
  BY <1>2, <1>3, MergedIsIncoming
<1>5. items[id] \in DeviceWrites(d, id)
  BY <1>1, <1>2 DEF Requests, DeviceWrites
<1>6. QED
  BY <1>4, <1>5

(* A device's last edit is never taken back. *)
LEMMA LastEditGrows ==
    ASSUME TypeOK, RepoStep, NEW d \in Devices
    PROVE  lastEdit[d] \in Int /\ lastEdit'[d] \in Int /\ lastEdit[d] <= lastEdit'[d]
<1>1. ASSUME NEW e \in Devices, ByUser(e) PROVE lastEdit'[d] \in Int /\ lastEdit[d] <= lastEdit'[d]
  <2>1. NowMs(e) \in Int /\ lastEdit[e] < NowMs(e)
    BY <1>1, NowMsType DEF ByUser, CanEdit
  <2>2. lastEdit' = [lastEdit EXCEPT ![e] = NowMs(e)]
    BY <1>1 DEF ByUser
  <2>3. QED
    BY <2>1, <2>2 DEF TypeOK
<1>2. CASE UNCHANGED lastEdit
  BY <1>2 DEF TypeOK
<1>3. QED
  BY <1>1, <1>2 DEF RepoStep, TypeOK

(* A dirty row was dirty before, or is a new edit.                         *)
LEMMA DirtyStep ==
    ASSUME TypeOK, RepoStep, NEW d \in Devices, NEW id \in ListDirty(repo'[d])
    PROVE  \/ id \in ListDirty(repo[d]) /\ repo'[d][id] = repo[d][id]
           \/ /\ repo'[d][id].updatedAt = lastEdit'[d]
              /\ lastEdit[d] < lastEdit'[d]
<1>1. id \in Ids /\ repo'[d][id] # NoRow /\ repo'[d][id].dirty
  BY DEF ListDirty
<1>2. CASE repo'[d][id] = repo[d][id]
  BY <1>1, <1>2 DEF ListDirty
<1>3. ASSUME NEW e \in Devices, ByUser(e), repo'[d][id] # repo[d][id]
      PROVE  /\ repo'[d][id].updatedAt = lastEdit'[d]
             /\ lastEdit[d] < lastEdit'[d]
  <2>1. PICK i \in Ids, it \in Local :
           /\ it.updatedAt = NowMs(e)
           /\ repo' = [repo EXCEPT ![e][i] = it]
    BY <1>3 DEF ByUser
  <2>2. d = e /\ id = i /\ repo'[d][id] = it
    BY <1>1, <1>3, <2>1 DEF TypeOK
  <2>3. lastEdit'[d] = NowMs(d) /\ lastEdit[d] < NowMs(d)
    BY <1>3, <2>2 DEF ByUser, CanEdit, TypeOK
  <2>4. QED
    BY <2>1, <2>2, <2>3
<1>4. ASSUME NEW e \in Devices, ByAnswer(e) PROVE repo'[d][id] = repo[d][id]
  <2>1. PICK ids \in SUBSET PushWrites(e) :
           repo' = [repo EXCEPT ![e] = Written(e, ids)]
    BY <1>4 DEF ByAnswer
  <2>2. CASE d = e /\ id \in ids
    BY <1>1, <2>1, <2>2 DEF Written, TypeOK, ItemFromWire
  <2>3. CASE ~(d = e /\ id \in ids)
    BY <1>1, <2>1, <2>3 DEF Written, TypeOK
  <2>4. QED
    BY <2>2, <2>3
<1>5. QED
  BY <1>2, <1>3, <1>4 DEF RepoStep

(* A push in flight was in flight before, or carries a row that waits.     *)
LEMMA RequestStep ==
    ASSUME TypeOK, PushStep, NEW d \in Devices, NEW id \in Ids, request'[d][id] # NoRow
    PROVE  request'[d][id] \in DeviceWrites(d, id)
<1>1. CASE request'[d] = request[d]
  BY <1>1 DEF DeviceWrites
<1>2. CASE request'[d] = Nothing
  BY <1>2 DEF Nothing
<1>3. CASE Sends(d)
  BY <1>3 DEF Sends, DeviceWrites
<1>4. CASE SamePush(d) \/ PushServe(d)
  BY <1>1, <1>4 DEF SamePush, PushServe
<1>5. QED
  BY <1>1, <1>2, <1>3, <1>4 DEF PushStep

(* A request that was given up had been a push in flight. *)
LEMMA ZombiesAreWrites ==
    ASSUME TypeOK, ZombieStep, NEW z \in zombies', NEW id \in Ids, z.items[id] # NoRow
    PROVE  z.items[id] \in DeviceWrites(z.device, id)
<1>1. CASE z \in zombies
  BY <1>1 DEF DeviceWrites
<1>2. ASSUME NEW d \in Devices, z = [device |-> d, items |-> request[d]]
      PROVE  z.items[id] \in DeviceWrites(z.device, id)
  BY <1>2 DEF DeviceWrites
<1>3. QED
  BY <1>1, <1>2 DEF ZombieStep

(* No step brings a write about but the user's edits. *)
LEMMA WritesStep ==
    ASSUME TypeOK, Step, NEW d \in Devices, NEW id \in Ids,
           NEW v \in DeviceWrites(d, id)'
    PROVE  \/ v \in DeviceWrites(d, id)
           \/ /\ v = ItemToWire(repo'[d][id])
              /\ v.updatedAt = lastEdit'[d]
              /\ lastEdit[d] < lastEdit'[d]
<1>1. CASE id \in ListDirty(repo'[d]) /\ v = ItemToWire(repo'[d][id])
  <2>1. v.updatedAt = repo'[d][id].updatedAt
    BY <1>1 DEF ItemToWire
  <2>2. \/ id \in ListDirty(repo[d]) /\ repo'[d][id] = repo[d][id]
        \/ repo'[d][id].updatedAt = lastEdit'[d] /\ lastEdit[d] < lastEdit'[d]
    BY <1>1, DirtyStep DEF Step
  <2>3. id \in ListDirty(repo[d]) => ItemToWire(repo[d][id]) \in DeviceWrites(d, id)
    BY DEF DeviceWrites
  <2>4. QED
    BY <1>1, <2>1, <2>2, <2>3
<1>2. CASE v = request'[d][id] /\ v # NoRow
  BY <1>2, RequestStep DEF Step
<1>3. ASSUME NEW z \in zombies', z.device = d, v = z.items[id], v # NoRow
      PROVE  v \in DeviceWrites(d, id)
  BY <1>3, ZombiesAreWrites DEF Step
<1>4. CASE todos'[id] # NoRow /\ todos'[id].lastModifiedBy = d /\ v = ItemToWire(todos'[id])
  <2>1. CASE todos'[id] = todos[id]
    BY <1>4, <2>1 DEF DeviceWrites
  <2>2. CASE todos'[id] # todos[id]
    BY <1>4, <2>2, TodosAreWrites DEF Step
  <2>3. QED
    BY <2>1, <2>2
<1>5. QED
  BY <1>1, <1>2, <1>3, <1>4 DEF DeviceWrites

(* No write is about at the start. *)
LEMMA StampsInit == Init => StampsIdentifyWrites
<1>1. ASSUME Init, NEW d \in Devices, NEW id \in Ids PROVE DeviceWrites(d, id) = {}
  BY <1>1 DEF Init, DeviceWrites, ListDirty, Nothing
<1>2. QED
  BY <1>1 DEF StampsIdentifyWrites

(* The stamp of an edit is later than those of all before it. *)
LEMMA StampsStep ==
    ASSUME TypeOK, StampsIdentifyWrites, Step PROVE StampsIdentifyWrites'
<1> SUFFICES ASSUME NEW d \in Devices, NEW id \in Ids,
                    NEW v \in DeviceWrites(d, id)', NEW w \in DeviceWrites(d, id)'
             PROVE  /\ v.updatedAt = w.updatedAt => v = w
                    /\ v.updatedAt <= lastEdit'[d]
  BY DEF StampsIdentifyWrites
<1> DEFINE New(x) == /\ x = ItemToWire(repo'[d][id])
                     /\ x.updatedAt = lastEdit'[d]
                     /\ lastEdit[d] < lastEdit'[d]
           Old(x) == x \in Item /\ x.updatedAt <= lastEdit[d]
<1>1. v \in DeviceWrites(d, id) \/ New(v)
  BY WritesStep
<1>2. w \in DeviceWrites(d, id) \/ New(w)
  BY WritesStep
<1>3. lastEdit[d] \in Int /\ lastEdit'[d] \in Int /\ lastEdit[d] <= lastEdit'[d]
  BY LastEditGrows DEF Step
<1>4. \A x \in DeviceWrites(d, id) : Old(x)
  BY WritesType DEF StampsIdentifyWrites
<1>5. CASE v \in DeviceWrites(d, id) /\ w \in DeviceWrites(d, id)
  BY <1>3, <1>4, <1>5 DEF StampsIdentifyWrites, Item
<1>6. CASE New(v) /\ New(w)
  BY <1>3, <1>6
<1>7. CASE v \in DeviceWrites(d, id) /\ New(w)
  BY <1>3, <1>4, <1>7 DEF Item
<1>8. CASE New(v) /\ w \in DeviceWrites(d, id)
  BY <1>3, <1>4, <1>8 DEF Item
<1>9. QED
  BY <1>1, <1>2, <1>5, <1>6, <1>7, <1>8

(* What a merge leaves of a row with the stamp and the writer it had.      *)
LEMMA RepushStep ==
    ASSUME TypeOK, StampsIdentifyWrites, Step, NEW id \in Ids,
           todos[id] # NoRow,
           todos'[id].updatedAt = todos[id].updatedAt,
           todos'[id].lastModifiedBy = todos[id].lastModifiedBy
    PROVE  /\ todos'[id].isDone = todos[id].isDone
           /\ todos'[id].deleted = todos[id].deleted
<1>1. CASE todos'[id] = todos[id]
  BY <1>1
<1>2. CASE todos'[id] # todos[id]
  <2> DEFINE d == todos[id].lastModifiedBy
  <2>1. d \in Devices
    BY DEF TypeOK, Row
  <2>2. ItemToWire(todos'[id]) \in DeviceWrites(d, id)
    BY <1>2, TodosAreWrites DEF Step
  <2>3. ItemToWire(todos[id]) \in DeviceWrites(d, id)
    BY DEF DeviceWrites
  <2>4. ItemToWire(todos'[id]).updatedAt = ItemToWire(todos[id]).updatedAt
    BY DEF ItemToWire
  <2> HIDE DEF d
  <2>5. ItemToWire(todos'[id]) = ItemToWire(todos[id])
    BY <2>1, <2>2, <2>3, <2>4 DEF StampsIdentifyWrites
  <2>6. QED
    BY <2>5 DEF ItemToWire
<1>3. QED
  BY <1>1, <1>2

(* Whatever arrives twice, and however late, changes a row's version and   *)
(* nothing else.                                                           *)
THEOREM RepushesChangeNothing == Spec => RepushIdempotent
<1>1. Init => StampsIdentifyWrites
  BY StampsInit
<1>2. (TypeOK /\ ShownIsStored) /\ StampsIdentifyWrites /\ [Next]_vars
        => StampsIdentifyWrites'
  BY NextIsStep, StampsStep
<1>3. (TypeOK /\ ShownIsStored) /\ StampsIdentifyWrites /\ [Next]_vars
        => \A id \in Ids :
             (/\ todos[id] # NoRow
              /\ todos'[id].updatedAt = todos[id].updatedAt
              /\ todos'[id].lastModifiedBy = todos[id].lastModifiedBy)
             => (/\ todos'[id].isDone = todos[id].isDone
                 /\ todos'[id].deleted = todos[id].deleted)
  BY NextIsStep, RepushStep
<1>4. QED
  BY <1>1, <1>2, <1>3, TypeCorrect, PTL DEF Spec, RepushIdempotent

-----------------------------------------------------------------------------
(* The server has processed the write w of device d, or a later one.        *)
Beats(row, w, d) ==
    \/ row.updatedAt > w.updatedAt
    \/ row.updatedAt = w.updatedAt /\ row.lastModifiedBy >= d

HasMerged(d, id, w) == todos[id] # NoRow /\ Beats(todos[id], w, d)

(* It has, when the answer of a push is on its way, ...                     *)
AnswerIsMerged ==
    \A d \in Devices, id \in Ids :
        pc[d] = "Pushed" /\ request[d][id] # NoRow => HasMerged(d, id, request[d][id])

(* ... and has a request that was given up unless its sender still holds    *)
(* that edit, or a later one (a device may lose its edit, where SQLite      *)
(* refuses to read it: then it is behind).                                 *)
ZombiesCovered ==
    \A z \in zombies, id \in Ids : z.items[id] # NoRow =>
        \/ /\ id \in ListDirty(repo[z.device])
           /\ z.items[id].updatedAt <= repo[z.device][id].updatedAt
        \/ HasMerged(z.device, id, z.items[id])
        \/ <<z.device, id>> \in behind

(* A merge leaves a row that beats what it was asked to take in. *)
LEMMA MergedIsBeaten ==
    ASSUME NEW row \in Row \cup {NoRow}, NEW in \in Item, NEW d \in Devices
    PROVE  Merged(row, in, d) \in Row /\ Beats(Merged(row, in, d), in, d)
<1>1. Merged(row, in, d) \in Row
  BY MergedType
<1>2. /\ d \in Nat /\ in.updatedAt \in Int
      /\ row # NoRow => row.updatedAt \in Int /\ row.lastModifiedBy \in Nat
  BY DevicesAssumption DEF Row, Item
<1>3. Beats(Merged(row, in, d), in, d)
  BY <1>2 DEF Merged, FromNew, ApplyIncoming, Accepts, Beats
<1>4. QED
  BY <1>1, <1>3

(* It leaves a row that beats what the row before it did. *)
LEMMA MergedStillBeats ==
    ASSUME NEW row \in Row, NEW in \in Item, NEW d \in Devices,
           NEW w \in Item, NEW e \in Devices, Beats(row, w, e)
    PROVE  Merged(row, in, d) \in Row /\ Beats(Merged(row, in, d), w, e)
<1>1. Merged(row, in, d) \in Row /\ row # NoRow
  BY MergedType, NoRowAssumption
<1>2. /\ d \in Nat /\ e \in Nat /\ in.updatedAt \in Int /\ w.updatedAt \in Int
      /\ row.updatedAt \in Int /\ row.lastModifiedBy \in Nat
  BY DevicesAssumption DEF Row, Item
<1>3. Beats(Merged(row, in, d), w, e)
  BY <1>1, <1>2 DEF Merged, ApplyIncoming, Accepts, Beats
<1>4. QED
  BY <1>1, <1>3

(* A row beats the earlier writes of a device of which it beats a later one.*)
LEMMA BeatsEarlier ==
    ASSUME NEW row \in Row, NEW v \in Item, NEW w \in Item, NEW d \in Devices,
           Beats(row, w, d), v.updatedAt <= w.updatedAt
    PROVE  Beats(row, v, d)
  BY DEF Beats, Row, Item

(* A request merges item by item. *)
LEMMA CommitMerges ==
    ASSUME TypeOK, NEW d \in Devices, NEW items \in [Ids -> Item \cup {NoRow}],
           Commit(items, d), NEW id \in Ids
    PROVE  /\ todos[id] \in Row \cup {NoRow}
           /\ items[id] = NoRow => todos'[id] = todos[id]
           /\ items[id] # NoRow => /\ items[id] \in Item
                                   /\ todos'[id] = Merged(todos[id], items[id], d)
                                   /\ todos'[id] \in Row
                                   /\ Beats(todos'[id], items[id], d)
<1>1. todos[id] \in Row \cup {NoRow}
  BY DEF TypeOK
<1>2. items[id] = NoRow => todos'[id] = todos[id]
  BY DEF Commit, MergedTodos
<1>3. items[id] # NoRow => items[id] \in Item /\ todos'[id] = Merged(todos[id], items[id], d)
  BY DEF Commit, MergedTodos
<1>4. QED
  BY <1>1, <1>2, <1>3, MergedIsBeaten

(* What the server has processed it has processed ever after. *)
LEMMA MergedStays ==
    ASSUME TypeOK, ServerStep, NEW d \in Devices, NEW id \in Ids, NEW w \in Item,
           todos[id] # NoRow, Beats(todos[id], w, d)
    PROVE  todos'[id] # NoRow /\ Beats(todos'[id], w, d)
<1>1. todos[id] \in Row /\ NoRow \notin Row
  BY NoRowAssumption DEF TypeOK
<1>2. ASSUME NEW e \in Devices, NEW items \in [Ids -> Item \cup {NoRow}], Commit(items, e)
      PROVE  todos'[id] # NoRow /\ Beats(todos'[id], w, d)
  <2>1. \/ todos'[id] = todos[id]
        \/ items[id] \in Item /\ todos'[id] = Merged(todos[id], items[id], e)
    BY <1>2, CommitMerges
  <2>2. QED
    BY <1>1, <2>1, MergedStillBeats
<1>3. QED
  BY <1>2, ServerMerges

(* The server has merged the pushes it is answering. *)
LEMMA AnswerMergedStep ==
    ASSUME TypeOK, AnswerIsMerged, PushStep, ServerStep PROVE AnswerIsMerged'
<1> SUFFICES ASSUME NEW d \in Devices, NEW id \in Ids,
                    pc'[d] = "Pushed", request'[d][id] # NoRow
             PROVE  todos'[id] # NoRow /\ Beats(todos'[id], request'[d][id], d)
  BY DEF AnswerIsMerged, HasMerged
<1>1. request'[d] = request[d] => request'[d][id] \in Item
  BY DEF TypeOK
<1>2. CASE SamePush(d)
  <2>1. pc[d] = "Pushed" /\ request'[d] = request[d]
    BY <1>2 DEF SamePush
  <2>2. todos[id] # NoRow /\ Beats(todos[id], request[d][id], d)
    BY <2>1 DEF AnswerIsMerged, HasMerged
  <2>3. QED
    BY <1>1, <2>1, <2>2, MergedStays
<1>3. CASE PushServe(d)
  <2>1. request'[d] = request[d] /\ Commit(request[d], d)
    BY <1>3 DEF PushServe
  <2>2. request[d] \in [Ids -> Item \cup {NoRow}]
    BY DEF TypeOK
  <2>3. QED
    BY <2>1, <2>2, CommitMerges, NoRowAssumption
<1>4. QED
  BY <1>2, <1>3 DEF PushStep

-----------------------------------------------------------------------------
(* What a step can do to one device.  It leaves the device alone, ...       *)
SameDevice(e) ==
    /\ pc'[e] = pc[e] /\ repo'[e] = repo[e] /\ answer'[e] = answer[e]
    /\ meta'[e] = meta[e] /\ cursor'[e] = cursor[e] /\ serverTime'[e] = serverTime[e]

(* ... or it is no answer of the server.  Then no stamp of a pull gets into *)
(* a cursor but with the rows of that pull: a row that is pulled is written *)
(* unless the device counts as behind, or forgets the stamp.               *)
Times(e) == {meta[e], cursor[e], serverTime[e]}

QuietRow(e, id) ==
    \/ <<e, id>> \in behind'
    \/ /\ repo'[e][id] = repo[e][id]
       /\ pc[e] = "Pulled" /\ id \in PullWrites(e)
            => Times(e)' \subseteq {Epoch, meta[e], cursor[e]}
    \/ /\ pc[e] = "Idle"
       /\ id \in ListDirty(repo'[e]) /\ repo'[e][id].updatedAt > lastEdit[e]
    \/ /\ \/ pc[e] = "Pulled" /\ id \in PullWrites(e)
          \/ pc[e] = "Pushed" /\ id \in PushWrites(e)
       /\ repo'[e][id] = ItemFromWire(answer[e][id])

QuietStep(e) ==
    /\ pc'[e] \notin {"Queried", "Pulled", "Pushed"}
    /\ UNCHANGED todos /\ behind \subseteq behind'
    /\ Times(e)' \subseteq {Epoch} \cup Times(e)
    /\ \A id \in Ids : QuietRow(e, id)

DeviceStep(e) ==
    SameDevice(e) \/ PullQuery(e) \/ PullStamp(e) \/ PushServe(e) \/ QuietStep(e)

DevicesStep ==
    /\ now' \in Nat /\ now <= now'
    /\ \A e \in Devices : DeviceStep(e)

(* A device's steps leave the others alone. *)
LEMMA OthersSame ==
    ASSUME TypeOK, NEW d \in Devices, NEW e \in Devices \ {d},
           UserStep(d) \/ WorkerStep(d) \/ \E done \in SUBSET Ids : Crash(d, done)
    PROVE  SameDevice(e) /\ UNCHANGED now
<1>1. CASE UserStep(d)
  BY <1>1 DEF UserStep, StartSync, AddItem, SetDone, RemoveItem, WriteLocal, SameDevice,
              TypeOK, deviceVars, engineVars
<1>2. CASE PullQuery(d) \/ PullStamp(d) \/ PullGarbled(d) \/ PushGarbled(d)
           \/ PushSend(d) \/ PushServe(d)
  BY <1>2 DEF PullQuery, PullStamp, PullGarbled, PushGarbled, PushSend, PushServe,
              SameDevice, TypeOK, deviceVars
<1>3. CASE \E failed \in SUBSET Ids : PullApply(d, failed) \/ PushApply(d, failed)
  BY <1>3 DEF PullApply, PushApply, SameDevice, TypeOK
<1>4. CASE Reconcile(d) \/ Fail(d) \/ Retry(d)
  BY <1>4 DEF Reconcile, Fail, Retry, EngineGone, SameDevice, TypeOK, deviceVars
<1>5. CASE \E done \in SUBSET Ids : Crash(d, done)
  BY <1>5 DEF Crash, EngineGone, SameDevice, TypeOK
<1>6. QED
  BY <1>1, <1>2, <1>3, <1>4, <1>5 DEF WorkerStep

(* The user's steps. *)
LEMMA UserIsQuiet ==
    ASSUME TypeOK, ShownIsStored, NEW d \in Devices, UserStep(d)
    PROVE  QuietStep(d) /\ UNCHANGED now
<1>1. CASE StartSync(d)
  BY <1>1 DEF StartSync, QuietStep, QuietRow, Times, TypeOK, serverVars, deviceVars
<1>2. CASE \E id \in Ids : AddItem(d, id) \/ SetDone(d, id) \/ RemoveItem(d, id)
  <2>1. /\ pc[d] = "Idle"
        /\ UNCHANGED <<now, meta, serverVars, engineVars>>
    BY <1>2 DEF AddItem, SetDone, RemoveItem, WriteLocal, CanEdit
  <2>2. ByUser(d) \/ UNCHANGED repo
    BY UserWrites
  <2>3. ASSUME NEW id \in Ids PROVE QuietRow(d, id)
    <3>1. CASE UNCHANGED repo
      BY <2>1, <3>1 DEF QuietRow
    <3>2. CASE ByUser(d)
      <4>1. PICK i \in Ids, it \in Local :
               /\ it.dirty /\ it.updatedAt = NowMs(d)
               /\ repo' = [repo EXCEPT ![d][i] = it]
        BY <3>2 DEF ByUser
      <4>2. lastEdit[d] < NowMs(d)
        BY <3>2 DEF ByUser, CanEdit
      <4>3. CASE id = i
        <5>1. repo'[d][id] = it
          BY <4>1, <4>3 DEF TypeOK
        <5>2. it.updatedAt > lastEdit[d]
          BY <4>1, <4>2, NowMsType DEF TypeOK
        <5>3. QED
          BY <2>1, <4>1, <5>1, <5>2, LocalAssumption DEF QuietRow, ListDirty
      <4>4. CASE id # i
        BY <2>1, <4>1, <4>4 DEF QuietRow, TypeOK
      <4>5. QED
        BY <4>3, <4>4
    <3>3. QED
      BY <2>2, <3>1, <3>2
  <2>4. QED
    BY <2>1, <2>3 DEF QuietStep, Times, serverVars, engineVars
<1>3. QED
  BY <1>1, <1>2 DEF UserStep

(* A worker that is given up, or starts again, forgets the stamp of its     *)
(* pull.                                                                   *)
LEMMA EndIsQuiet ==
    ASSUME TypeOK, NEW d \in Devices,
           Retry(d) \/ Fail(d) \/ Reconcile(d) \/ PullGarbled(d) \/ PushGarbled(d)
    PROVE  QuietStep(d) /\ UNCHANGED now
<1>1. CASE Retry(d)
  BY <1>1 DEF Retry, QuietStep, QuietRow, Times, TypeOK, deviceVars
<1>2. CASE Fail(d)
  BY <1>2 DEF Fail, EngineGone, QuietStep, QuietRow, Times, TypeOK, deviceVars
<1>3. CASE Reconcile(d)
  BY <1>3 DEF Reconcile, EngineGone, QuietStep, QuietRow, Times, TypeOK, serverVars
<1>4. CASE PullGarbled(d)
  BY <1>4 DEF PullGarbled, QuietStep, QuietRow, Times, TypeOK, serverVars, deviceVars
<1>5. CASE PushGarbled(d)
  BY <1>5 DEF PushGarbled, QuietStep, QuietRow, Times, TypeOK, serverVars, deviceVars
<1>6. QED
  BY <1>1, <1>2, <1>3, <1>4, <1>5

(* A row of an answer that is written, or one that is not. *)
LEMMA WrittenRow ==
    ASSUME TypeOK, NEW d \in Devices, NEW ids \in SUBSET Ids, NEW id \in Ids,
           repo' = [repo EXCEPT ![d] = Written(d, ids)]
    PROVE  repo'[d][id] = IF id \in ids THEN ItemFromWire(answer[d][id])
                          ELSE repo[d][id]
  BY DEF Written, TypeOK

(* A worker that writes an answer; a refused write leaves its row behind.  *)
LEMMA ApplyIsQuiet ==
    ASSUME TypeOK, NEW d \in Devices, NEW failed \in SUBSET Ids,
           PullApply(d, failed) \/ PushApply(d, failed)
    PROVE  QuietStep(d) /\ UNCHANGED now
<1>1. CASE PullApply(d, failed)
  <2>1. /\ pc[d] = "Pulled" /\ UNCHANGED <<now, todos, meta>>
        /\ behind' = behind \cup ({d} \X failed)
        /\ repo' = [repo EXCEPT ![d] = Written(d, PullWrites(d) \ failed)]
    BY <1>1 DEF PullApply
  <2>2. pc'[d] = "Push" /\ cursor'[d] = serverTime[d] /\ serverTime'[d] = Epoch
    BY <1>1 DEF PullApply, TypeOK
  <2>3. ASSUME NEW id \in Ids PROVE QuietRow(d, id)
    <3>0. PullWrites(d) \ failed \in SUBSET Ids
      BY DEF PullWrites
    <3>1. repo'[d][id] = IF id \in PullWrites(d) \ failed
                         THEN ItemFromWire(answer[d][id]) ELSE repo[d][id]
      BY <2>1, <3>0, WrittenRow
    <3>2. QED
      BY <2>1, <3>1 DEF QuietRow
  <2>4. QED
    BY <2>1, <2>2, <2>3 DEF QuietStep, Times
<1>2. CASE PushApply(d, failed)
  <2>1. /\ pc[d] = "Pushed" /\ UNCHANGED <<now, todos, behind, meta, cursor, serverTime>>
        /\ repo' = [repo EXCEPT ![d] = Written(d, PushWrites(d) \ failed)]
    BY <1>2 DEF PushApply, serverVars
  <2>2. pc'[d] = "Reconcile"
    BY <1>2 DEF PushApply, TypeOK
  <2>3. ASSUME NEW id \in Ids PROVE QuietRow(d, id)
    <3>0. PushWrites(d) \ failed \in SUBSET Ids
      BY DEF PushWrites
    <3>1. repo'[d][id] = IF id \in PushWrites(d) \ failed
                         THEN ItemFromWire(answer[d][id]) ELSE repo[d][id]
      BY <2>1, <3>0, WrittenRow
    <3>2. QED
      BY <2>1, <3>1 DEF QuietRow
  <2>4. QED
    BY <2>1, <2>2, <2>3 DEF QuietStep, Times
<1>3. QED
  BY <1>1, <1>2

(* A crash writes some rows of an answer and keeps no stamp. *)
LEMMA CrashIsQuiet ==
    ASSUME TypeOK, NEW d \in Devices, NEW done \in SUBSET Ids, Crash(d, done)
    PROVE  QuietStep(d) /\ UNCHANGED now
<1>1. /\ UNCHANGED <<now, todos, behind, meta>>
      /\ repo' = [repo EXCEPT ![d] = Written(d, done)]
  BY DEF Crash
<1>2. pc'[d] = "Idle" /\ cursor'[d] = Epoch /\ serverTime'[d] = Epoch
  BY DEF Crash, EngineGone, TypeOK
<1>3. ASSUME NEW id \in Ids PROVE QuietRow(d, id)
  <2>1. repo'[d][id] = IF id \in done THEN ItemFromWire(answer[d][id]) ELSE repo[d][id]
    BY <1>1, WrittenRow
  <2>2. QED
    BY <1>1, <1>2, <2>1, CrashWrites DEF QuietRow, Times
<1>4. QED
  BY <1>1, <1>2, <1>3 DEF QuietStep, Times

(* A push that is sent changes nothing of this. *)
LEMMA SendIsQuiet ==
    ASSUME TypeOK, NEW d \in Devices, PushSend(d)
    PROVE  QuietStep(d) /\ UNCHANGED now
  BY DEF PushSend, QuietStep, QuietRow, Times, TypeOK, serverVars, deviceVars

(* The steps of a worker. *)
LEMMA WorkerIsDeviceStep ==
    ASSUME TypeOK, NEW d \in Devices, WorkerStep(d)
    PROVE  DeviceStep(d) /\ UNCHANGED now
<1>1. CASE PullQuery(d) \/ PullStamp(d) \/ PushServe(d)
  BY <1>1 DEF DeviceStep, PullQuery, PullStamp, PushServe
<1>2. QED
  BY <1>1, EndIsQuiet, ApplyIsQuiet, SendIsQuiet DEF WorkerStep, DeviceStep

(* So every step of the system has these shapes. *)
LEMMA NextIsDevicesStep ==
    ASSUME TypeOK, ShownIsStored, [Next]_vars PROVE DevicesStep
<1>1. CASE Tick \/ UNCHANGED vars \/ \E z \in zombies : ServeZombie(z)
  BY <1>1 DEF Tick, ServeZombie, vars, deviceVars, engineVars, TypeOK, DevicesStep,
              DeviceStep, SameDevice
<1>2. ASSUME NEW d \in Devices,
             UserStep(d) \/ WorkerStep(d) \/ \E done \in SUBSET Ids : Crash(d, done)
      PROVE  DevicesStep
  <2>1. DeviceStep(d) /\ UNCHANGED now
    BY <1>2, UserIsQuiet, WorkerIsDeviceStep, CrashIsQuiet DEF DeviceStep
  <2>2. \A e \in Devices \ {d} : SameDevice(e)
    BY <1>2, OthersSame
  <2>3. QED
    BY <2>1, <2>2 DEF DevicesStep, DeviceStep, TypeOK
<1>3. QED
  BY <1>1, <1>2 DEF Next

-----------------------------------------------------------------------------
(* A device that was late stays on record. *)
LEMMA BehindGrows ==
    ASSUME TypeOK, ServerStep PROVE behind \subseteq behind'
  BY ServerMerges DEF Commit

(* A step that writes no answer leaves the rows alone. *)
LEMMA SameRepo ==
    ASSUME TypeOK, NEW e \in Devices,
           SameDevice(e) \/ PullQuery(e) \/ PullStamp(e) \/ PushServe(e)
    PROVE  repo'[e] = repo[e]
  BY DEF SameDevice, PullQuery, PullStamp, PushServe, deviceVars

(* A push in flight carries rows that wait for it, as they are. *)
LEMMA RequestIsDirty ==
    ASSUME TypeOK, EditInv, NEW e \in Devices, pc[e] \in {"Posted", "Pushed"},
           NEW id \in Ids, request[e][id] # NoRow
    PROVE  /\ id \in ListDirty(repo[e])
           /\ request[e][id] \in Item
           /\ request[e][id].updatedAt = repo[e][id].updatedAt
<1>1. request[e][id] \in Item
  BY DEF TypeOK
<1>2. id \in ListDirty(repo[e]) /\ request[e][id] = ItemToWire(repo[e][id])
  BY DEF EditInv, PostedIsDirty
<1>3. QED
  BY <1>1, <1>2 DEF ItemToWire

(* A request that was given up stays covered. *)
LEMMA CoveredStep ==
    ASSUME TypeOK, TypeOK', EditInv, AnswerIsMerged, ZombiesCovered,
           ZombieStep, ServerStep, DevicesStep
    PROVE  ZombiesCovered'
<1> SUFFICES ASSUME NEW z \in zombies', NEW id \in Ids, z.items[id] # NoRow
             PROVE  \/ /\ id \in ListDirty(repo'[z.device])
                       /\ z.items[id].updatedAt <= repo'[z.device][id].updatedAt
                    \/ todos'[id] # NoRow /\ Beats(todos'[id], z.items[id], z.device)
                    \/ <<z.device, id>> \in behind'
  BY DEF ZombiesCovered, HasMerged
<1> DEFINE d == z.device
           w == z.items[id]
<1>1. /\ d \in Devices /\ w \in Item
      /\ \/ id \in ListDirty(repo[d]) /\ w.updatedAt <= repo[d][id].updatedAt
         \/ todos[id] # NoRow /\ Beats(todos[id], w, d)
         \/ <<d, id>> \in behind
  <2>1. CASE z \in zombies
    BY <2>1 DEF TypeOK, ZombiesCovered, HasMerged
  <2>2. ASSUME NEW e \in Devices, pc[e] = "Posted",
               z = [device |-> e, items |-> request[e]]
        PROVE  /\ d \in Devices /\ w \in Item
               /\ id \in ListDirty(repo[d]) /\ w.updatedAt <= repo[d][id].updatedAt
    <3>1. d = e /\ w = request[e][id]
      BY <2>2
    <3>2. /\ id \in ListDirty(repo[e]) /\ request[e][id] \in Item
          /\ request[e][id].updatedAt = repo[e][id].updatedAt
      BY <2>2, <3>1, RequestIsDirty
    <3>3. QED
      BY <3>1, <3>2 DEF Item
  <2>3. QED
    BY <2>1, <2>2 DEF ZombieStep
<1> HIDE DEF d, w
<1>2. CASE <<d, id>> \in behind
  BY <1>2, BehindGrows DEF d
<1>3. CASE todos[id] # NoRow /\ Beats(todos[id], w, d)
  <2>1. todos'[id] # NoRow /\ Beats(todos'[id], w, d)
    BY <1>1, <1>3, MergedStays
  <2>2. QED
    BY <2>1 DEF d, w
<1>4. CASE id \in ListDirty(repo[d]) /\ w.updatedAt <= repo[d][id].updatedAt
  <2>1. CASE repo'[d][id] = repo[d][id]
    BY <1>4, <2>1 DEF ListDirty, d, w
  <2>2. CASE /\ id \in ListDirty(repo'[d])
             /\ repo'[d][id].updatedAt > lastEdit[d]
    <3>1. repo[d][id].updatedAt <= lastEdit[d] /\ repo[d][id] \in Local
      BY <1>1, <1>4 DEF EditInv, EditsAreStamped, ListDirty, TypeOK
    <3>2. repo'[d][id].updatedAt \in Int => w.updatedAt <= repo'[d][id].updatedAt
      BY <1>1, <1>4, <2>2, <3>1 DEF Item, Local, TypeOK
    <3>3. repo'[d][id].updatedAt \in Int
      BY <1>1, <2>2 DEF TypeOK, ListDirty, Local
    <3>4. QED
      BY <2>2, <3>2, <3>3 DEF d, w
  <2>3. CASE pc[d] = "Pushed" /\ id \in PushWrites(d)
    <3>1. request[d][id] # NoRow
      BY <1>1, <2>3 DEF EditInv, AnswerBeatsEdit, PushWrites
    <3>2. request[d][id] \in Item /\ w.updatedAt <= request[d][id].updatedAt
      BY <1>1, <1>4, <2>3, <3>1, RequestIsDirty
    <3>3. todos[id] # NoRow /\ Beats(todos[id], request[d][id], d)
      BY <1>1, <2>3, <3>1 DEF AnswerIsMerged, HasMerged
    <3>4. todos[id] \in Row
      BY <3>3 DEF TypeOK
    <3>5. Beats(todos[id], w, d)
      BY <1>1, <3>2, <3>3, <3>4, BeatsEarlier
    <3>6. todos'[id] # NoRow /\ Beats(todos'[id], w, d)
      BY <1>1, <3>3, <3>5, MergedStays
    <3>7. QED
      BY <3>6 DEF d, w
  <2>4. CASE <<d, id>> \in behind'
    BY <2>4 DEF d
  <2>5. id \notin PullWrites(d)
    BY <1>4 DEF ListDirty, PullWrites
  <2>6. QED
    BY <1>1, <2>1, <2>2, <2>3, <2>4, <2>5, SameRepo
       DEF DevicesStep, DeviceStep, QuietStep, QuietRow
<1>5. QED
  BY <1>1, <1>2, <1>3, <1>4

-----------------------------------------------------------------------------
(* A cursor is a time that has come, and the stamp of a pull the latest of  *)
(* those its device holds.                                                 *)
CursorsInOrder ==
    \A d \in Devices :
        /\ Times(d) \subseteq 0 .. now
        /\ pc[d] = "Pulled" => meta[d] <= serverTime[d] /\ cursor[d] <= serverTime[d]

(* The clock goes on, and a pull is stamped with it. *)
LEMMA CursorsStep ==
    ASSUME TypeOK, CursorsInOrder, DevicesStep PROVE CursorsInOrder'
<1> SUFFICES ASSUME NEW d \in Devices
             PROVE  /\ {meta'[d], cursor'[d], serverTime'[d]} \subseteq 0 .. now'
                    /\ pc'[d] = "Pulled" => /\ meta'[d] <= serverTime'[d]
                                            /\ cursor'[d] <= serverTime'[d]
  BY DEF CursorsInOrder, Times
<1>1. now \in Nat /\ now' \in Nat /\ now <= now'
  BY DEF TypeOK, DevicesStep
<1>2. /\ meta[d] \in 0 .. now /\ cursor[d] \in 0 .. now /\ serverTime[d] \in 0 .. now
      /\ pc[d] = "Pulled" => meta[d] <= serverTime[d] /\ cursor[d] <= serverTime[d]
  BY DEF CursorsInOrder, Times
<1>3. CASE SameDevice(d)
  BY <1>1, <1>2, <1>3 DEF SameDevice
<1>4. CASE PullQuery(d) \/ PushServe(d)
  <2>1. /\ UNCHANGED <<meta, cursor, serverTime>>
        /\ pc'[d] # "Pulled"
    BY <1>4 DEF PullQuery, PushServe, deviceVars, TypeOK
  <2>2. QED
    BY <1>1, <1>2, <2>1
<1>5. CASE PullStamp(d)
  <2>1. UNCHANGED <<meta, cursor>> /\ serverTime'[d] = now
    BY <1>5 DEF PullStamp, deviceVars, TypeOK
  <2>2. QED
    BY <1>1, <1>2, <2>1
<1>6. CASE QuietStep(d)
  <2>1. {meta'[d], cursor'[d], serverTime'[d]} \subseteq {0, meta[d], cursor[d], serverTime[d]}
    BY <1>6 DEF QuietStep, Times, Epoch
  <2>2. pc'[d] # "Pulled"
    BY <1>6 DEF QuietStep
  <2>3. QED
    BY <1>1, <1>2, <2>1, <2>2
<1>7. QED
  BY <1>3, <1>4, <1>5, <1>6 DEF DevicesStep, DeviceStep

-----------------------------------------------------------------------------
(* What a device has of a row of the server.  It has an edit of its own, or *)
(* the same ...                                                            *)
Holds(d, id) == id \in ListDirty(repo[d]) \/ SameItem(repo[d][id], todos[id])

(* ... or will have, once it has applied the pull that it is waiting for.  *)
Settled(d, id) ==
    \/ id \in ListDirty(repo[d])
    \/ id \in PullWrites(d) /\ SameItem(ItemFromWire(answer[d][id]), todos[id])
    \/ id \notin PullWrites(d) /\ SameItem(repo[d][id], todos[id])

(* The next pull of d, or its next attempt, will not ask for the row.       *)
Passed(d, id) ==
    todos[id].updatedAt <= meta[d] \/ todos[id].updatedAt <= cursor[d]

Seen(d, id) == Passed(d, id) \/ todos[id].updatedAt <= serverTime[d]

(* A device that is not behind on a row holds it when its cursors have      *)
(* passed the row's stamp; will hold it when the stamp of the pull on its   *)
(* way has, or the query of that pull has run; and is told of it by the     *)
(* answer to its push.                                                     *)
DeviceIsCurrent(d, id) ==
    /\ Passed(d, id) => Holds(d, id)
    /\ pc[d] # "Pulled" /\ Seen(d, id) => Holds(d, id)
    /\ pc[d] = "Queried" => Settled(d, id)
    /\ pc[d] = "Pulled" /\ Seen(d, id) => Settled(d, id)
    /\ pc[d] = "Pushed" /\ answer[d][id] # NoRow /\ Seen(d, id)
         => SameItem(ItemFromWire(answer[d][id]), todos[id])

AllCurrent ==
    \A d \in Devices, id \in Ids :
        todos[id] # NoRow /\ <<d, id>> \notin behind => DeviceIsCurrent(d, id)

(* Rows that differ in nothing the devices see. *)
SameRow(r, s) ==
    r.isDone = s.isDone /\ r.deleted = s.deleted /\ r.updatedAt = s.updatedAt

(* Nothing the device holds or sees has changed. *)
LEMMA SameCurrent ==
    ASSUME NEW e \in Devices, NEW id \in Ids, SameDevice(e),
           SameRow(todos'[id], todos[id]), DeviceIsCurrent(e, id)
    PROVE  DeviceIsCurrent(e, id)'
<1>1. /\ Passed(e, id)' <=> Passed(e, id)
      /\ Seen(e, id)' <=> Seen(e, id)
  BY DEF SameDevice, SameRow, Passed, Seen
<1>2. /\ Holds(e, id)' <=> Holds(e, id)
      /\ Settled(e, id)' <=> Settled(e, id)
      /\ SameItem(ItemFromWire(answer'[e][id]), todos'[id])
           <=> SameItem(ItemFromWire(answer[e][id]), todos[id])
  BY DEF SameDevice, SameRow, Holds, Settled, SameItem, ListDirty, PullWrites
<1>3. pc'[e] = pc[e] /\ answer'[e] = answer[e]
  BY DEF SameDevice
<1>4. QED
  BY <1>1, <1>2, <1>3 DEF DeviceIsCurrent

(* A device with an edit of its own is current, if an answer to its push    *)
(* tells what the server holds.                                            *)
LEMMA DirtyCurrent ==
    ASSUME NEW e \in Devices, NEW id \in ListDirty(repo'[e]),
           pc'[e] = "Pushed" /\ answer'[e][id] # NoRow
             => SameItem(ItemFromWire(answer'[e][id]), todos'[id])
    PROVE  DeviceIsCurrent(e, id)'
  BY DEF DeviceIsCurrent, Holds, Settled

(* Another device's write of the row was in time for this device, or this   *)
(* device is behind.                                                       *)
LEMMA InTimeCurrent ==
    ASSUME TypeOK, NEW d \in Devices, NEW items, Commit(items, d),
           NEW e \in Devices \ {d}, NEW id \in Ids, SameDevice(e),
           todos'[id] # todos[id], <<e, id>> \notin behind'
    PROVE  DeviceIsCurrent(e, id)'
<1>1. ~TooLateFor(e, todos'[id].updatedAt)
  BY DEF Commit
<1>2. /\ pc'[e] # "Queried" /\ ~Passed(e, id)' /\ ~Seen(e, id)'
  BY <1>1 DEF TooLateFor, SameDevice, Passed, Seen
<1>3. QED
  BY <1>2 DEF DeviceIsCurrent

(* What the server has processed of a device it can process again without a *)
(* trace: the stamp tells that it is the same write.                       *)
LEMMA RemergeKeeps ==
    ASSUME TypeOK, StampsIdentifyWrites, NEW d \in Devices, NEW id \in Ids,
           NEW w \in DeviceWrites(d, id), HasMerged(d, id, w),
           todos'[id] = Merged(todos[id], w, d)
    PROVE  SameRow(todos'[id], todos[id])
<1>1. todos[id] # NoRow /\ todos[id] \in Row /\ w \in Item
  BY WritesType DEF HasMerged, TypeOK
<1>2. /\ d \in Nat /\ todos[id].lastModifiedBy \in Nat
      /\ todos[id].updatedAt \in Int /\ w.updatedAt \in Int
  BY <1>1, DevicesAssumption DEF Row, Item
<1>3. CASE Accepts(w.updatedAt, d, todos[id].updatedAt, todos[id].lastModifiedBy)
  <2>1. w.updatedAt = todos[id].updatedAt /\ todos[id].lastModifiedBy = d
    BY <1>2, <1>3 DEF Accepts, HasMerged, Beats
  <2>2. ItemToWire(todos[id]) \in DeviceWrites(d, id)
    BY <1>1, <2>1 DEF DeviceWrites
  <2>3. w = ItemToWire(todos[id])
    BY <2>1, <2>2 DEF StampsIdentifyWrites, ItemToWire
  <2>4. todos'[id] = ApplyIncoming(todos[id], w, d)
    BY <1>1, <1>3 DEF Merged
  <2>5. QED
    BY <2>3, <2>4 DEF ApplyIncoming, ItemToWire, SameRow
<1>4. CASE ~Accepts(w.updatedAt, d, todos[id].updatedAt, todos[id].lastModifiedBy)
  BY <1>1, <1>4 DEF Merged, SameRow
<1>5. QED
  BY <1>3, <1>4

(* A request that was given up reaches the server.                         *)
LEMMA ZombieCurrent ==
    ASSUME TypeOK, EditInv, StampsIdentifyWrites, AnswerIsMerged, ZombiesCovered,
           NEW z \in zombies, ServeZombie(z), NEW id \in Ids, SameDevice(z.device),
           todos[id] # NoRow => DeviceIsCurrent(z.device, id),
           <<z.device, id>> \notin behind, todos'[id] # NoRow
    PROVE  DeviceIsCurrent(z.device, id)'
<1> DEFINE e == z.device
           w == z.items[id]
<1>1. /\ e \in Devices /\ w \in Item \cup {NoRow}
      /\ todos[id] \in Row \cup {NoRow}
  BY DEF TypeOK
<1>2. todos'[id] = IF w = NoRow THEN todos[id] ELSE Merged(todos[id], w, e)
  BY DEF ServeZombie, Commit, MergedTodos
<1>3. w # NoRow => w \in DeviceWrites(e, id)
  BY DEF DeviceWrites
<1>4. w # NoRow => \/ id \in ListDirty(repo[e]) /\ w.updatedAt <= repo[e][id].updatedAt
                   \/ HasMerged(e, id, w)
  BY DEF ZombiesCovered
<1>5. SameDevice(e) /\ (todos[id] # NoRow => DeviceIsCurrent(e, id))
  OBVIOUS
<1> HIDE DEF e, w
<1>6. CASE w = NoRow
  <2>1. todos[id] # NoRow /\ SameRow(todos'[id], todos[id])
    BY <1>2, <1>6 DEF SameRow
  <2>2. DeviceIsCurrent(e, id)'
    BY <1>1, <1>5, <2>1, SameCurrent
  <2>3. QED
    BY <2>2 DEF e
<1>7. CASE w # NoRow /\ HasMerged(e, id, w)
  <2>1. SameRow(todos'[id], todos[id])
    BY <1>1, <1>2, <1>3, <1>7, RemergeKeeps
  <2>2. DeviceIsCurrent(e, id)'
    BY <1>1, <1>5, <1>7, <2>1, SameCurrent DEF HasMerged
  <2>3. QED
    BY <2>2 DEF e
<1>8. CASE /\ w # NoRow /\ ~HasMerged(e, id, w)
           /\ id \in ListDirty(repo[e]) /\ w.updatedAt <= repo[e][id].updatedAt
  <2>1. ~(pc[e] = "Pushed" /\ answer[e][id] # NoRow)
    <3> SUFFICES ASSUME pc[e] = "Pushed", answer[e][id] # NoRow PROVE FALSE
      OBVIOUS
    <3>1. request[e][id] # NoRow
      BY <1>1 DEF EditInv, AnswerBeatsEdit
    <3>2. HasMerged(e, id, request[e][id])
      BY <1>1, <3>1 DEF AnswerIsMerged
    <3>3. request[e][id] \in Item /\ w.updatedAt <= request[e][id].updatedAt
      BY <1>1, <1>8, <3>1, RequestIsDirty
    <3>4. HasMerged(e, id, w)
      BY <1>1, <1>8, <3>2, <3>3, BeatsEarlier DEF HasMerged
    <3>5. QED
      BY <1>8, <3>4
  <2>2. id \in ListDirty(repo'[e])
    BY <1>5, <1>8 DEF SameDevice
  <2>3. pc'[e] = pc[e] /\ answer'[e] = answer[e]
    BY <1>5 DEF SameDevice
  <2>4. DeviceIsCurrent(e, id)'
    BY <1>1, <2>1, <2>2, <2>3, DirtyCurrent
  <2>5. QED
    BY <2>4 DEF e
<1>9. QED
  BY <1>4, <1>6, <1>7, <1>8

(* What a device writes for an answered row is that row. *)
LEMMA AnsweredSame ==
    ASSUME NEW row \in Row PROVE SameItem(ItemFromWire(ToDto(row)), row)
<1>1. ItemFromWire(ToDto(row)) # NoRow
  BY ToDtoType, ItemFromWireType, LocalAssumption
<1>2. QED
  BY <1>1 DEF SameItem, ItemFromWire, ToDto

(* The server answers the device's push.                                   *)
LEMMA ServeCurrent ==
    ASSUME TypeOK, EditInv, NEW e \in Devices, PushServe(e), NEW id \in Ids,
           todos[id] # NoRow => DeviceIsCurrent(e, id), todos'[id] # NoRow
    PROVE  DeviceIsCurrent(e, id)'
<1>1. /\ pc[e] = "Posted" /\ pc'[e] = "Pushed"
      /\ UNCHANGED <<repo, meta, cursor, serverTime>>
  BY DEF PushServe, deviceVars, TypeOK
<1>2. /\ answer'[e][id] = IF request[e][id] = NoRow THEN NoRow ELSE ToDto(todos'[id])
      /\ request[e][id] = NoRow => todos'[id] = todos[id]
  BY DEF PushServe, Commit, MergedTodos, TypeOK
<1>3. CASE request[e][id] = NoRow
  <2>1. DeviceIsCurrent(e, id) /\ answer'[e][id] = NoRow /\ todos'[id] = todos[id]
    BY <1>2, <1>3
  <2>2. Seen(e, id)' <=> Seen(e, id)
    BY <1>1, <2>1 DEF Seen, Passed
  <2>3. Holds(e, id)' <=> Holds(e, id)
    BY <1>1, <2>1 DEF Holds
  <2>4. QED
    BY <1>1, <2>1, <2>2, <2>3 DEF DeviceIsCurrent, Seen, Passed
<1>4. CASE request[e][id] # NoRow
  <2>1. id \in ListDirty(repo'[e])
    BY <1>1, <1>4, RequestIsDirty
  <2>2. answer'[e][id] # NoRow => SameItem(ItemFromWire(answer'[e][id]), todos'[id])
    <3>1. answer'[e][id] = ToDto(todos'[id])
      BY <1>2, <1>4
    <3>2. todos'[id] \in Row
      <4>1. request[e] \in [Ids -> Item \cup {NoRow}] /\ Commit(request[e], e)
        BY DEF PushServe, TypeOK
      <4>2. QED
        BY <1>4, <4>1, CommitMerges
    <3>3. QED
      BY <3>1, <3>2, AnsweredSame
  <2>3. QED
    BY <2>1, <2>2, DirtyCurrent
<1>5. QED
  BY <1>3, <1>4

(* A clean row of the version of the server's is the server's.             *)
LEMMA SameVersionSame ==
    ASSUME TypeOK, VersionsIdentifyWrites, NEW e \in Devices, NEW id \in Ids,
           todos[id] # NoRow, repo[e][id] # NoRow, ~repo[e][id].dirty,
           ~(todos[id].serverVersion > repo[e][id].serverVersion)
    PROVE  SameItem(repo[e][id], todos[id])
<1>1. ToDto(todos[id]) \in Copies(id) /\ ToDto(repo[e][id]) \in Copies(id)
  BY DEF Copies
<1>2. ToDto(repo[e][id]).serverVersion \in 1 .. todos[id].serverVersion
  BY <1>1 DEF VersionsIdentifyWrites
<1>3. /\ ToDto(repo[e][id]).serverVersion = repo[e][id].serverVersion
      /\ ToDto(todos[id]).serverVersion = todos[id].serverVersion
      /\ todos[id].serverVersion \in Nat
  BY DEF ToDto, TypeOK, Row
<1>4. ToDto(repo[e][id]).serverVersion = ToDto(todos[id]).serverVersion
  BY <1>2, <1>3
<1>5. ToDto(repo[e][id]) = ToDto(todos[id])
  BY <1>1, <1>4 DEF VersionsIdentifyWrites
<1>6. QED
  BY <1>5 DEF ToDto, SameItem

(* The query of a pull runs.                                               *)
LEMMA QueryCurrent ==
    ASSUME TypeOK, VersionsIdentifyWrites, NEW e \in Devices, PullQuery(e),
           NEW id \in Ids, todos[id] # NoRow, DeviceIsCurrent(e, id)
    PROVE  DeviceIsCurrent(e, id)'
<1>1. /\ pc[e] = "Pull" /\ pc'[e] = "Queried"
      /\ UNCHANGED <<todos, repo, meta, cursor, serverTime>>
      /\ answer'[e][id] = IF todos[id].updatedAt > cursor[e] THEN ToDto(todos[id])
                          ELSE NoRow
  BY DEF PullQuery, UpdatedAfter, TypeOK, serverVars, deviceVars
<1>2. todos[id].updatedAt \in Int /\ cursor[e] \in Int
  BY DEF TypeOK, Row
<1>3. /\ Seen(e, id)' <=> Seen(e, id)
      /\ Passed(e, id)' <=> Passed(e, id)
      /\ Holds(e, id)' <=> Holds(e, id)
  BY <1>1 DEF Seen, Passed, Holds
<1>4. Settled(e, id)'
  <2>1. CASE id \in ListDirty(repo[e])
    BY <1>1, <2>1 DEF Settled
  <2>2. CASE answer'[e][id] = NoRow
    <3>1. Holds(e, id)
      BY <1>1, <1>2, <2>2, ToDtoType, NoRowAssumption DEF TypeOK, DeviceIsCurrent, Passed
    <3>2. id \notin PullWrites(e)'
      BY <2>2 DEF PullWrites
    <3>3. QED
      BY <1>1, <3>1, <3>2 DEF Settled, Holds
  <2>3. CASE answer'[e][id] = ToDto(todos[id]) /\ id \notin ListDirty(repo[e])
    <3>1. ToDto(todos[id]) \in Dto
      BY ToDtoType DEF TypeOK
    <3>2. SameItem(ItemFromWire(answer'[e][id]), todos[id])
      BY <2>3, AnsweredSame DEF TypeOK
    <3>3. id \notin PullWrites(e)' => SameItem(repo[e][id], todos[id])
      <4>1. ToDto(todos[id]).serverVersion = todos[id].serverVersion
        BY DEF ToDto
      <4>2. id \notin PullWrites(e)' =>
              /\ repo[e][id] # NoRow /\ ~repo[e][id].dirty
              /\ ~(todos[id].serverVersion > repo[e][id].serverVersion)
        BY <1>1, <2>3, <3>1, <4>1, NoRowAssumption DEF PullWrites, ListDirty
      <4>3. QED
        BY <4>2, SameVersionSame
    <3>4. QED
      BY <1>1, <3>2, <3>3 DEF Settled
  <2>4. QED
    BY <1>1, <2>1, <2>2, <2>3
<1>5. QED
  BY <1>1, <1>3, <1>4 DEF DeviceIsCurrent

(* A pull gets its stamp; what was settled by its query still is.          *)
LEMMA StampCurrent ==
    ASSUME TypeOK, NEW e \in Devices, PullStamp(e), NEW id \in Ids, DeviceIsCurrent(e, id)
    PROVE  DeviceIsCurrent(e, id)'
<1>1. /\ pc[e] = "Queried" /\ pc'[e] = "Pulled"
      /\ UNCHANGED <<todos, repo, meta, cursor, answer>>
  BY DEF PullStamp, serverVars, deviceVars, TypeOK
<1>2. /\ Passed(e, id)' <=> Passed(e, id)
      /\ Holds(e, id)' <=> Holds(e, id)
      /\ Settled(e, id)' <=> Settled(e, id)
  BY <1>1 DEF Passed, Holds, Settled, PullWrites
<1>3. QED
  BY <1>1, <1>2 DEF DeviceIsCurrent

(* A step that is no answer of the server: no cursor passes a row that the  *)
(* device does not hold, has not just written and is not behind on.        *)
LEMMA QuietCurrent ==
    ASSUME TypeOK, CursorsInOrder, NEW e \in Devices, QuietStep(e), NEW id \in Ids,
           todos[id] # NoRow, DeviceIsCurrent(e, id), <<e, id>> \notin behind'
    PROVE  DeviceIsCurrent(e, id)'
<1>1. /\ pc'[e] \notin {"Queried", "Pulled", "Pushed"} /\ UNCHANGED todos
      /\ Times(e)' \subseteq {Epoch} \cup Times(e)
      /\ QuietRow(e, id)
  BY DEF QuietStep
<1>2. todos[id].updatedAt \in Int
  BY DEF TypeOK, Row
<1>3. /\ \A t \in Times(e) : t \in Nat
      /\ pc[e] = "Pulled" => meta[e] <= serverTime[e] /\ cursor[e] <= serverTime[e]
  BY DEF CursorsInOrder, TypeOK
<1>4. Seen(e, id)' => Seen(e, id)
  <2>1. todos[id].updatedAt <= Epoch => todos[id].updatedAt <= meta[e]
    BY <1>2, <1>3 DEF Times, Epoch
  <2>2. QED
    BY <1>1, <2>1 DEF Seen, Passed, Times
<1>5. Seen(e, id)' => Holds(e, id)'
  <2> SUFFICES ASSUME Seen(e, id)' PROVE Holds(e, id)'
    OBVIOUS
  <2>1. Seen(e, id)
    BY <1>4
  <2>2. CASE repo'[e][id] = repo[e][id]
    <3>1. Holds(e, id)' <=> Holds(e, id)
      BY <1>1, <2>2 DEF Holds, ListDirty
    <3>2. CASE pc[e] # "Pulled"
      BY <2>1, <3>1, <3>2 DEF DeviceIsCurrent
    <3>3. CASE pc[e] = "Pulled" /\ id \notin PullWrites(e)
      BY <2>1, <3>1, <3>3 DEF DeviceIsCurrent, Settled, Holds
    <3>4. CASE Times(e)' \subseteq {Epoch, meta[e], cursor[e]}
      <4>1. todos[id].updatedAt <= Epoch => todos[id].updatedAt <= meta[e]
        BY <1>2, <1>3 DEF Times, Epoch
      <4>2. Passed(e, id)
        BY <1>1, <3>4, <4>1 DEF Seen, Passed, Times
      <4>3. QED
        BY <3>1, <4>2 DEF DeviceIsCurrent
    <3>5. CASE /\ pc[e] = "Pulled" /\ id \in PullWrites(e)
               /\ ~(Times(e)' \subseteq {Epoch, meta[e], cursor[e]})
      <4>1. repo'[e][id] = ItemFromWire(answer[e][id]) \/ id \in ListDirty(repo'[e])
        BY <1>1, <3>5 DEF QuietRow
      <4>2. CASE id \in ListDirty(repo'[e])
        BY <4>2 DEF Holds
      <4>3. CASE repo'[e][id] = ItemFromWire(answer[e][id])
        BY <1>1, <2>1, <3>5, <4>3 DEF DeviceIsCurrent, Settled, Holds, PullWrites, ListDirty
      <4>4. QED
        BY <4>1, <4>2, <4>3
    <3>6. QED
      BY <3>2, <3>3, <3>4, <3>5
  <2>3. CASE id \in ListDirty(repo'[e])
    BY <2>3 DEF Holds
  <2>4. CASE /\ pc[e] = "Pulled" /\ id \in PullWrites(e)
             /\ repo'[e][id] = ItemFromWire(answer[e][id])
    <3>1. id \notin ListDirty(repo[e])
      BY <2>4 DEF PullWrites, ListDirty
    <3>2. SameItem(ItemFromWire(answer[e][id]), todos[id])
      BY <2>1, <2>4, <3>1 DEF DeviceIsCurrent, Settled
    <3>3. QED
      BY <1>1, <2>4, <3>2 DEF Holds
  <2>5. CASE /\ pc[e] = "Pushed" /\ id \in PushWrites(e)
             /\ repo'[e][id] = ItemFromWire(answer[e][id])
    <3>1. SameItem(ItemFromWire(answer[e][id]), todos[id])
      BY <2>1, <2>5 DEF DeviceIsCurrent, PushWrites
    <3>2. QED
      BY <1>1, <2>5, <3>1 DEF Holds
  <2>6. QED
    BY <1>1, <2>2, <2>3, <2>4, <2>5 DEF QuietRow
<1>6. QED
  BY <1>1, <1>5 DEF DeviceIsCurrent, Seen

(* Every device that is not behind stays current. *)
LEMMA CurrentStep ==
    ASSUME TypeOK, VersionsIdentifyWrites, EditInv, StampsIdentifyWrites,
           AnswerIsMerged, ZombiesCovered, CursorsInOrder, AllCurrent,
           ServerStep, DevicesStep
    PROVE  AllCurrent'
<1> SUFFICES ASSUME NEW e \in Devices, NEW id \in Ids,
                    todos'[id] # NoRow, <<e, id>> \notin behind'
             PROVE  DeviceIsCurrent(e, id)'
  BY DEF AllCurrent
<1>1. <<e, id>> \notin behind /\ (todos[id] # NoRow => DeviceIsCurrent(e, id))
  BY BehindGrows DEF AllCurrent
<1>2. CASE SameDevice(e)
  <2>1. CASE todos'[id] = todos[id]
    BY <1>1, <1>2, <2>1, SameCurrent DEF SameRow
  <2>2. ASSUME todos'[id] # todos[id], NEW d \in Devices, PushServe(d)
        PROVE  DeviceIsCurrent(e, id)'
    <3>1. d # e
      BY <1>2, <2>2 DEF PushServe, SameDevice, TypeOK
    <3>2. Commit(request[d], d)
      BY <2>2 DEF PushServe
    <3>3. QED
      BY <1>2, <2>2, <3>1, <3>2, InTimeCurrent
  <2>3. ASSUME todos'[id] # todos[id], NEW z \in zombies, ServeZombie(z)
        PROVE  DeviceIsCurrent(e, id)'
    <3>1. CASE z.device = e
      BY <1>1, <1>2, <2>3, <3>1, ZombieCurrent
    <3>2. CASE z.device # e
      <4>1. z.device \in Devices /\ Commit(z.items, z.device)
        BY <2>3 DEF ServeZombie, TypeOK
      <4>2. QED
        BY <1>2, <2>3, <3>2, <4>1, InTimeCurrent
    <3>3. QED
      BY <3>1, <3>2
  <2>4. QED
    BY <2>1, <2>2, <2>3 DEF ServerStep
<1>3. CASE PullQuery(e)
  BY <1>1, <1>3, QueryCurrent DEF PullQuery, serverVars
<1>4. CASE PullStamp(e)
  BY <1>1, <1>4, StampCurrent DEF PullStamp, serverVars
<1>5. CASE PushServe(e)
  BY <1>1, <1>5, ServeCurrent
<1>6. CASE QuietStep(e)
  BY <1>1, <1>6, QuietCurrent DEF QuietStep
<1>7. QED
  BY <1>2, <1>3, <1>4, <1>5, <1>6 DEF DevicesStep, DeviceStep

-----------------------------------------------------------------------------
(* The inductive invariant behind the cursor.                              *)
CursorInv ==
    /\ StampsIdentifyWrites /\ AnswerIsMerged /\ ZombiesCovered
    /\ CursorsInOrder /\ AllCurrent

(* Nothing is on its way at the start. *)
LEMMA CursorInit == Init => CursorInv
<1> SUFFICES ASSUME Init PROVE CursorInv
  OBVIOUS
<1>1. CursorsInOrder
  <2>1. now \in Nat
    BY TimeAssumption DEF Init
  <2>2. \A d \in Devices : meta[d] = 0 /\ cursor[d] = 0 /\ serverTime[d] = 0
    BY DEF Init, Epoch
  <2>3. \A d \in Devices : pc[d] # "Pulled"
    BY DEF Init
  <2>4. \A d \in Devices : Times(d) = {0}
    BY <2>2 DEF Times
  <2>5. 0 \in 0 .. now
    BY <2>1
  <2>6. QED
    BY <2>3, <2>4, <2>5 DEF CursorsInOrder
<1>2. AnswerIsMerged /\ ZombiesCovered /\ AllCurrent
  BY DEF Init, Nothing, AnswerIsMerged, ZombiesCovered, AllCurrent
<1>3. QED
  BY <1>1, <1>2, StampsInit DEF CursorInv

(* With what TodoSyncProofs has: all that holds of a synchronisation.      *)
SyncInv ==
    TypeOK /\ ShownIsStored /\ VersionsIdentifyWrites /\ EditInv /\ CursorInv

(* It holds when nothing has happened. *)
LEMMA SyncInit == Init => SyncInv
  BY TypeInit, VersionsInit, EditInit, CursorInit DEF SyncInv

(* The shapes of the steps, and the types, keep the rest.                  *)
LEMMA SyncStep ==
    ASSUME SyncInv, TypeOK', Step, DevicesStep PROVE SyncInv'
<1>1. ShownIsStored' /\ VersionsIdentifyWrites' /\ EditInv'
  BY ShownStep, VersionsStep, EditStep DEF SyncInv
<1>2. CursorInv'
  BY StampsStep, AnswerMergedStep, CoveredStep, CursorsStep, CurrentStep
  DEF Step, SyncInv, CursorInv
<1>3. QED
  BY <1>1, <1>2 DEF SyncInv

(* It says more than that a device misses nothing its cursor has passed.    *)
LEMMA NothingElseIsMissed == SyncInv => OnlyLateWritesAreMissed
  BY DEF SyncInv, CursorInv, AllCurrent, DeviceIsCurrent, Passed, Holds, ListDirty,
         Misses, OnlyLateWritesAreMissed

(* The whole invariant, of any behaviour. *)
THEOREM SyncInvariant == Spec => []SyncInv
<1>1. SyncInv /\ [Next]_vars => SyncInv'
  BY TypeStep, NextIsStep, NextIsDevicesStep, SyncStep DEF SyncInv
<1>2. QED
  BY <1>1, SyncInit, PTL DEF Spec

(* However synchronisations interleave, fail, are tried again or cut short, *)
(* a device never has its cursor pass a row that it does not hold, except   *)
(* for the writes that were committed too late for a pull it had begun, and *)
(* the rows that SQLite refused.                                           *)
THEOREM LateWritesOnly == Spec => []OnlyLateWritesAreMissed
  BY SyncInvariant, NothingElseIsMissed, PTL

=============================================================================
