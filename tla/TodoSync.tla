------------------------------ MODULE TodoSync ------------------------------
(***************************************************************************)
(* Desktop devices, each with its SQLite repository, list model and sync   *)
(* engine, around one server.  A device edits its own repository offline;  *)
(* one synchronisation is                                                  *)
(*                                                                         *)
(*     Pull -> Push -> Reconcile -> Done                                   *)
(*                                                                         *)
(* with up to MaxAttempts attempts over a network that loses requests,     *)
(* loses answers, garbles answers, and may deliver to the server a push    *)
(* whose sender has already given up on it.                                *)
(*                                                                         *)
(* Pushes are atomic here (SyncService.push is one transaction); what two  *)
(* overlapping transactions do to each other is the subject of PushTx.     *)
(***************************************************************************)
EXTENDS MergePolicy, FiniteSets

CONSTANTS
    Skew,           \* Skew[d]: how far d's clock is ahead of the server's, ms
    StartTime,      \* the server's clock when the model starts
    MaxTime,        \* the server's clock stops here
    MaxEdits,       \* bounds the edits, on all devices together
    MaxAttempts,    \* SyncEngine::kMaxAttempts
    MaxFaults       \* bounds, in all: garbled answers, pushes whose sender
                    \* has no answer but which the server merges, refused
                    \* SQLite writes, crashes

(* The epoch: SyncEngine.cpp's kEpochSince, older than every stamp.        *)
Epoch == 0

ASSUME SkewAssumption == Skew \in [Devices -> Int]
ASSUME TimeAssumption ==
    /\ StartTime \in Nat /\ MaxTime \in Nat
    /\ \A d \in Devices : StartTime + Skew[d] > Epoch
ASSUME BoundsAssumption ==
    MaxEdits \in Nat /\ MaxAttempts \in Nat \ {0} /\ MaxFaults \in Nat

VARIABLES
    now,            \* the server's clock
    todos,          \* the server's table
    repo,           \* repo[d]: the table todos of d's SQLite file
    meta,           \* meta[d]: meta["sync_cursor"] in that file
    view,           \* view[d]: TodoListModel::items_, a copy of repo[d]
    lastEdit,       \* lastEdit[d]: stamp of the user's last edit on d
    edits,          \* edits so far, on all devices
    pc,             \* pc[d]: where d's synchronisation is
    attempt,        \* attempt[d]: SyncEngine::syncOnce's counter
    cursor,         \* cursor[d]: SyncEngine::cursor_
    request,        \* request[d]: the push in flight, per id
    answer,         \* answer[d]: the answer on its way, per id
    serverTime,     \* serverTime[d]: the stamp of that answer, of a pull
    zombies,        \* pushes given up by their sender, not yet processed
    faults,         \* faults so far
    behind          \* history: <<d, id>> such that d may have missed a write

serverVars  == <<todos, zombies, behind>>
deviceVars  == <<repo, meta, view, lastEdit, edits>>
engineVars  == <<pc, attempt, cursor, request, answer, serverTime>>
vars == <<now, serverVars, deviceVars, engineVars, faults>>

(* A row of a device's repository (TodoItem). *)
Local == [isDone: BOOLEAN, deleted: BOOLEAN, updatedAt: Int,
          serverVersion: Nat, dirty: BOOLEAN]

ASSUME LocalAssumption == NoRow \notin Local
ASSUME IdsAssumption == IsFiniteSet(Ids)

Stage == {"Idle", "Pull", "Queried", "Pulled", "Push", "Posted", "Pushed",
          "Reconcile"}

Nothing == [id \in Ids |-> NoRow]

(* TodoItem::nowMs on device d. *)
NowMs(d) == now + Skew[d]

(* itemToWire and itemFromWire. *)
ItemToWire(it) ==
    [isDone |-> it.isDone, deleted |-> it.deleted, updatedAt |-> it.updatedAt]
ItemFromWire(dto) ==
    [isDone |-> dto.isDone, deleted |-> dto.deleted,
     updatedAt |-> dto.updatedAt, serverVersion |-> dto.serverVersion,
     dirty |-> FALSE]

(* SqliteRepository::listAll: the rows that are not tombstones. *)
ListAll(rows) ==
    [id \in Ids |-> IF rows[id] = NoRow \/ (rows[id] # NoRow /\ rows[id].deleted)
                    THEN NoRow ELSE rows[id]]

(* Slip: only rows the user still sees are pushed. *)
ListDirtyShown(rows) ==
    {id \in Ids : rows[id] # NoRow /\ rows[id].dirty /\ ~rows[id].deleted}

(* SqliteRepository::listDirty, as the ids it returns. *)
ListDirty(rows) == {id \in Ids : rows[id] # NoRow /\ rows[id].dirty}

Init ==
    /\ now = StartTime
    /\ todos = Nothing
    /\ repo = [d \in Devices |-> Nothing]
    /\ meta = [d \in Devices |-> Epoch]
    /\ view = [d \in Devices |-> Nothing]
    /\ lastEdit = [d \in Devices |-> Epoch]
    /\ edits = 0
    /\ pc = [d \in Devices |-> "Idle"]
    /\ attempt = [d \in Devices |-> 0]
    /\ cursor = [d \in Devices |-> Epoch]
    /\ request = [d \in Devices |-> Nothing]
    /\ answer = [d \in Devices |-> Nothing]
    /\ serverTime = [d \in Devices |-> Epoch]
    /\ zombies = {}
    /\ faults = 0
    /\ behind = {}

(* Time passes on every clock. *)
Tick ==
    /\ now < MaxTime
    /\ now' = now + 1
    /\ UNCHANGED <<serverVars, deviceVars, engineVars, faults>>

-----------------------------------------------------------------------------
(* The user, through the list model.  Main.qml disables every control      *)
(* while sync.syncing.  Two edits on one device are at least a millisecond *)
(* apart.  The model reloads after each edit.                              *)

CanEdit(d) ==
    pc[d] = "Idle" /\ lastEdit[d] < NowMs(d) /\ edits < MaxEdits

WriteLocal(d, id, it) ==
    /\ repo' = [repo EXCEPT ![d][id] = it]
    /\ view' = [view EXCEPT ![d] = ListAll(repo'[d])]
    /\ lastEdit' = [lastEdit EXCEPT ![d] = NowMs(d)]
    /\ edits' = edits + 1
    /\ UNCHANGED <<now, meta, serverVars, engineVars, faults>>

(* addItem: newId draws an id nobody has; create stamps it and marks it    *)
(* dirty, and SqliteRepository::add binds the flags as they are.           *)
AddItem(d, id) ==
    /\ CanEdit(d)
    /\ \A e \in Devices : repo[e][id] = NoRow
    /\ WriteLocal(d, id,
         [isDone |-> FALSE, deleted |-> FALSE, updatedAt |-> NowMs(d),
          serverVersion |-> 0, dirty |-> TRUE])

(* Slip: the stamp stays. *)
UpdateUnstamped(d, it) == [it EXCEPT !.dirty = TRUE]

(* SqliteRepository::update: the whole item as the caller holds it, with a *)
(* fresh stamp and the dirty mark.                                         *)
Update(d, it) == [it EXCEPT !.updatedAt = NowMs(d), !.dirty = TRUE]

(* setDone: the item is the list model's cached copy with the box toggled. *)
SetDone(d, id) ==
    /\ CanEdit(d)
    /\ view[d][id] # NoRow
    /\ WriteLocal(d, id,
         Update(d, [view[d][id] EXCEPT !.isDone = ~view[d][id].isDone]))

(* removeItem: SqliteRepository::remove writes a tombstone over the stored *)
(* row of the id the list model shows.                                     *)
Remove(d, it) ==
    [it EXCEPT !.deleted = TRUE, !.updatedAt = NowMs(d), !.dirty = TRUE]

RemoveItem(d, id) ==
    /\ CanEdit(d)
    /\ view[d][id] # NoRow
    /\ WriteLocal(d, id, Remove(d, repo[d][id]))

-----------------------------------------------------------------------------
(* SyncController::startSync, SyncEngine::syncOnce: the cursor in memory   *)
(* starts from the persisted one.                                          *)
StartSync(d) ==
    /\ pc[d] = "Idle"
    /\ pc' = [pc EXCEPT ![d] = "Pull"]
    /\ attempt' = [attempt EXCEPT ![d] = 1]
    /\ cursor' = [cursor EXCEPT ![d] = meta[d]]
    /\ UNCHANGED <<now, serverVars, deviceVars, request, answer, serverTime,
                   faults>>

(* The worker is over: its engine is destroyed with its cursor_. *)
EngineGone(d) ==
    /\ pc' = [pc EXCEPT ![d] = "Idle"]
    /\ attempt' = [attempt EXCEPT ![d] = 0]
    /\ cursor' = [cursor EXCEPT ![d] = Epoch]
    /\ request' = [request EXCEPT ![d] = Nothing]
    /\ answer' = [answer EXCEPT ![d] = Nothing]
    /\ serverTime' = [serverTime EXCEPT ![d] = Epoch]

(* SyncService.pull, first half: the query runs and sees what is committed.*)
PullQuery(d) ==
    /\ pc[d] = "Pull"
    /\ pc' = [pc EXCEPT ![d] = "Queried"]
    /\ answer' = [answer EXCEPT ![d] =
         [id \in Ids |-> IF id \in UpdatedAfter(todos, cursor[d])
                         THEN ToDto(todos[id]) ELSE NoRow]]
    /\ UNCHANGED <<now, serverVars, deviceVars, attempt, cursor, request,
                   serverTime, faults>>

(* SyncService.pull, second half: Instant.now() is read after the query.   *)
PullStamp(d) ==
    /\ pc[d] = "Queried"
    /\ pc' = [pc EXCEPT ![d] = "Pulled"]
    /\ serverTime' = [serverTime EXCEPT ![d] = now]
    /\ UNCHANGED <<now, serverVars, deviceVars, attempt, cursor, request,
                   answer, faults>>

(* Slip: a row that waits for its push is not spared. *)
PullWritesAll(d) ==
    {id \in Ids : /\ answer[d][id] # NoRow
                  /\ \/ repo[d][id] = NoRow
                     \/ answer[d][id].serverVersion > repo[d][id].serverVersion}

(* What applyPullItems writes: rows new to the device, and newer versions  *)
(* of rows without a local edit that waits to be pushed.                   *)
PullWrites(d) ==
    {id \in Ids : /\ answer[d][id] # NoRow
                  /\ \/ repo[d][id] = NoRow
                     \/ /\ ~repo[d][id].dirty
                        /\ answer[d][id].serverVersion
                             > repo[d][id].serverVersion}

(* What applyPushResults writes: every item, accepted or in conflict. *)
PushWrites(d) == {id \in Ids : answer[d][id] # NoRow}

(* The repository after syncFromServer or add of the answers for "ids". *)
Written(d, ids) ==
    [id \in Ids |-> IF id \in ids THEN ItemFromWire(answer[d][id])
                    ELSE repo[d][id]]

(* Slip: the cursor is persisted before the rows are written. *)
PullApplyCursorFirst(d, failed) ==
    \/ /\ pc[d] = "Pulled"
       /\ meta[d] # serverTime[d]
       /\ meta' = [meta EXCEPT ![d] = serverTime[d]]
       /\ UNCHANGED <<now, serverVars, repo, view, lastEdit, edits, engineVars,
                      faults>>
    \/ /\ pc[d] = "Pulled"
       /\ meta[d] = serverTime[d]
       /\ failed = {}
       /\ pc' = [pc EXCEPT ![d] = "Push"]
       /\ cursor' = [cursor EXCEPT ![d] = serverTime[d]]
       /\ repo' = [repo EXCEPT ![d] = Written(d, PullWrites(d))]
       /\ answer' = [answer EXCEPT ![d] = Nothing]
       /\ serverTime' = [serverTime EXCEPT ![d] = Epoch]
       /\ UNCHANGED <<now, serverVars, meta, view, lastEdit, edits, attempt,
                      request, faults>>

(* applyPullItems takes serverTime as the cursor in memory and writes item *)
(* by item, without a transaction and without looking at the result: each  *)
(* write in "failed" was refused by SQLite.                                *)
PullApply(d, failed) ==
    /\ pc[d] = "Pulled"
    /\ failed \subseteq PullWrites(d)
    /\ faults + Cardinality(failed) <= MaxFaults
    /\ pc' = [pc EXCEPT ![d] = "Push"]
    /\ cursor' = [cursor EXCEPT ![d] = serverTime[d]]
    /\ repo' = [repo EXCEPT ![d] = Written(d, PullWrites(d) \ failed)]
    /\ behind' = behind \cup ({d} \X failed)
    /\ answer' = [answer EXCEPT ![d] = Nothing]
    /\ serverTime' = [serverTime EXCEPT ![d] = Epoch]
    /\ faults' = faults + Cardinality(failed)
    /\ UNCHANGED <<now, todos, zombies, meta, view, lastEdit, edits, attempt, request>>

(* Slip: the cursor moves although nothing is applied. *)
PullGarbledAdvances(d) ==
    /\ pc[d] = "Pulled"
    /\ faults < MaxFaults
    /\ pc' = [pc EXCEPT ![d] = "Push"]
    /\ cursor' = [cursor EXCEPT ![d] = serverTime[d]]
    /\ answer' = [answer EXCEPT ![d] = Nothing]
    /\ serverTime' = [serverTime EXCEPT ![d] = Epoch]
    /\ faults' = faults + 1
    /\ UNCHANGED <<now, serverVars, deviceVars, attempt, request>>

(* A 2xx answer whose body does not parse: nothing is applied, the cursor  *)
(* stays, and the synchronisation goes on.                                 *)
PullGarbled(d) ==
    /\ pc[d] = "Pulled"
    /\ faults < MaxFaults
    /\ pc' = [pc EXCEPT ![d] = "Push"]
    /\ answer' = [answer EXCEPT ![d] = Nothing]
    /\ serverTime' = [serverTime EXCEPT ![d] = Epoch]
    /\ faults' = faults + 1
    /\ UNCHANGED <<now, serverVars, deviceVars, attempt, cursor, request>>

(* Push phase: all dirty rows go out in one request, or none does. *)
PushSend(d) ==
    /\ pc[d] = "Push"
    /\ pc' = [pc EXCEPT ![d] = IF ListDirty(repo[d]) = {} THEN "Reconcile"
                               ELSE "Posted"]
    /\ request' = [request EXCEPT ![d] =
         [id \in Ids |-> IF id \in ListDirty(repo[d])
                         THEN ItemToWire(repo[d][id]) ELSE NoRow]]
    /\ UNCHANGED <<now, serverVars, deviceVars, attempt, cursor, answer,
                   serverTime, faults>>

-----------------------------------------------------------------------------
(* The server.  The ids of a request are distinct (they are the primary    *)
(* key of the sender's table), so merging the items one by one is merging  *)
(* each id on its own.                                                     *)

MergedTodos(items, d) ==
    [id \in Ids |-> IF items[id] = NoRow THEN todos[id]
                    ELSE Merged(todos[id], items[id], d)]

(* Device e will not see a row stamped "stamp" that is committed now: e's  *)
(* query has already run, or e's cursor is not older than the stamp.       *)
TooLateFor(e, stamp) ==
    \/ pc[e] = "Queried"
    \/ stamp <= meta[e]
    \/ stamp <= cursor[e]
    \/ stamp <= serverTime[e]

(* SyncService.push of the items of device d, as one transaction. *)
Commit(items, d) ==
    /\ todos' = MergedTodos(items, d)
    /\ behind' = behind \cup
         {x \in Devices \X Ids :
            /\ x[1] # d
            /\ todos'[x[2]] # todos[x[2]]
            /\ TooLateFor(x[1], todos'[x[2]].updatedAt)}

PushServe(d) ==
    /\ pc[d] = "Posted"
    /\ Commit(request[d], d)
    /\ answer' = [answer EXCEPT ![d] =
         [id \in Ids |-> IF request[d][id] = NoRow THEN NoRow
                         ELSE ToDto(todos'[id])]]
    /\ pc' = [pc EXCEPT ![d] = "Pushed"]
    /\ UNCHANGED <<now, zombies, deviceVars, attempt, cursor, request,
                   serverTime, faults>>

(* The server gets round to a push whose sender has given it up. *)
ServeZombie(z) ==
    /\ Commit(z.items, z.device)
    /\ zombies' = zombies \ {z}
    /\ UNCHANGED <<now, deviceVars, engineVars, faults>>

-----------------------------------------------------------------------------
(* applyPushResults: the server's row replaces the local one, whatever the *)
(* verdict; a refused write leaves the row dirty.                          *)
PushApply(d, failed) ==
    /\ pc[d] = "Pushed"
    /\ failed \subseteq PushWrites(d)
    /\ faults + Cardinality(failed) <= MaxFaults
    /\ pc' = [pc EXCEPT ![d] = "Reconcile"]
    /\ repo' = [repo EXCEPT ![d] = Written(d, PushWrites(d) \ failed)]
    /\ request' = [request EXCEPT ![d] = Nothing]
    /\ answer' = [answer EXCEPT ![d] = Nothing]
    /\ faults' = faults + Cardinality(failed)
    /\ UNCHANGED <<now, serverVars, meta, view, lastEdit, edits, attempt, cursor,
                   serverTime>>

PushGarbled(d) ==
    /\ pc[d] = "Pushed"
    /\ faults < MaxFaults
    /\ pc' = [pc EXCEPT ![d] = "Reconcile"]
    /\ request' = [request EXCEPT ![d] = Nothing]
    /\ answer' = [answer EXCEPT ![d] = Nothing]
    /\ faults' = faults + 1
    /\ UNCHANGED <<now, serverVars, deviceVars, attempt, cursor, serverTime>>

(* setMeta("sync_cursor"), then the finisher of runSyncWorker on the main  *)
(* thread: syncing is over and the model reloads.                          *)
Reconcile(d) ==
    /\ pc[d] = "Reconcile"
    /\ \/ meta' = [meta EXCEPT ![d] = cursor[d]] /\ UNCHANGED faults
       \/ /\ faults < MaxFaults          \* setMeta failed, nobody looks
          /\ faults' = faults + 1
          /\ UNCHANGED meta
    /\ view' = [view EXCEPT ![d] = ListAll(repo[d])]
    /\ EngineGone(d)
    /\ UNCHANGED <<now, serverVars, repo, lastEdit, edits>>

LeaveZombie(d) ==
    /\ pc[d] = "Posted"
    /\ zombies' = zombies \cup {[device |-> d, items |-> request[d]]}

(* attemptSync returns !ok: timeout, connection error or non-2xx, of the   *)
(* pull or of the push.  It costs a fault only if it leaves a trace: the   *)
(* server has merged the push, or has yet to.                              *)
NotOk(d) ==
    \/ /\ pc[d] \in {"Pull", "Queried", "Pulled", "Posted"}
       /\ UNCHANGED <<zombies, faults>>
    \/ /\ faults < MaxFaults /\ faults' = faults + 1
       /\ LeaveZombie(d) \/ (pc[d] = "Pushed" /\ UNCHANGED zombies)

(* Slip: nobody counts the attempts. *)
RetryForever(d) ==
    /\ NotOk(d)
    /\ pc' = [pc EXCEPT ![d] = "Pull"]
    /\ request' = [request EXCEPT ![d] = Nothing]
    /\ answer' = [answer EXCEPT ![d] = Nothing]
    /\ serverTime' = [serverTime EXCEPT ![d] = Epoch]
    /\ UNCHANGED <<now, todos, behind, deviceVars, attempt, cursor>>

(* syncOnce tries again, with the cursor it holds in memory. *)
Retry(d) ==
    /\ NotOk(d)
    /\ attempt[d] < MaxAttempts
    /\ attempt' = [attempt EXCEPT ![d] = attempt[d] + 1]
    /\ pc' = [pc EXCEPT ![d] = "Pull"]
    /\ request' = [request EXCEPT ![d] = Nothing]
    /\ answer' = [answer EXCEPT ![d] = Nothing]
    /\ serverTime' = [serverTime EXCEPT ![d] = Epoch]
    /\ UNCHANGED <<now, todos, behind, deviceVars, cursor>>

(* The last attempt fails, or the server answers 401 (which it does before *)
(* it looks at the request): the synchronisation fails; the finisher does  *)
(* not reload the list model.                                              *)
Fail(d) ==
    /\ \/ attempt[d] = MaxAttempts /\ NotOk(d)
       \/ pc[d] \in {"Pull", "Posted"} /\ UNCHANGED <<zombies, faults>>
    /\ EngineGone(d)
    /\ UNCHANGED <<now, todos, behind, deviceVars>>

(* The items of an answer are written in the order of their stamps (pull)  *)
(* or of the request (push).                                               *)
WriteOrder(d, id) ==
    IF pc[d] = "Pulled" THEN answer[d][id].updatedAt
    ELSE request[d][id].updatedAt

(* The process dies: before any write of an answer, or after the first few *)
(* of them.  What SQLite holds stays; the restarted model reads it.        *)
Crash(d, done) ==
    /\ pc[d] # "Idle"
    /\ faults < MaxFaults /\ faults' = faults + 1
    /\ LET todo == CASE pc[d] = "Pulled" -> PullWrites(d)
                     [] pc[d] = "Pushed" -> PushWrites(d)
                     [] OTHER -> {}
       IN  /\ done \subseteq todo
           /\ \A i \in done, j \in todo \ done :
                WriteOrder(d, i) <= WriteOrder(d, j)
    /\ repo' = [repo EXCEPT ![d] = Written(d, done)]
    /\ view' = [view EXCEPT ![d] = ListAll(repo'[d])]
    /\ LeaveZombie(d) \/ UNCHANGED zombies
    /\ EngineGone(d)
    /\ UNCHANGED <<now, todos, behind, meta, lastEdit, edits>>

-----------------------------------------------------------------------------
(* What the worker thread and the server do once a synchronisation runs.   *)
WorkerStep(d) ==
    \/ PullQuery(d) \/ PullStamp(d) \/ PullGarbled(d)
    \/ PushSend(d) \/ PushServe(d) \/ PushGarbled(d)
    \/ Reconcile(d) \/ Retry(d) \/ Fail(d)
    \/ \E failed \in SUBSET Ids : PullApply(d, failed) \/ PushApply(d, failed)

UserStep(d) ==
    \/ StartSync(d)
    \/ \E id \in Ids : AddItem(d, id) \/ SetDone(d, id) \/ RemoveItem(d, id)

Next ==
    \/ Tick
    \/ \E d \in Devices : UserStep(d) \/ WorkerStep(d)
    \/ \E d \in Devices, done \in SUBSET Ids : Crash(d, done)
    \/ \E z \in zombies : ServeZombie(z)

Spec == Init /\ [][Next]_vars

(* A running worker goes on: every socket call has a timeout and nothing   *)
(* else blocks it.  Users, faults and abandoned requests owe us nothing.   *)
LiveSpec == Spec /\ \A d \in Devices : WF_vars(WorkerStep(d))

-----------------------------------------------------------------------------
(* Types of the variables. *)
TypeOK ==
    /\ now \in Nat
    /\ todos \in [Ids -> Row \cup {NoRow}]
    /\ repo \in [Devices -> [Ids -> Local \cup {NoRow}]]
    /\ meta \in [Devices -> Int]
    /\ view \in [Devices -> [Ids -> Local \cup {NoRow}]]
    /\ lastEdit \in [Devices -> Int] /\ edits \in Nat
    /\ pc \in [Devices -> Stage]
    /\ attempt \in [Devices -> Nat]
    /\ cursor \in [Devices -> Int]
    /\ request \in [Devices -> [Ids -> Item \cup {NoRow}]]
    /\ answer \in [Devices -> [Ids -> Dto \cup {NoRow}]]
    /\ serverTime \in [Devices -> Int]
    /\ zombies \subseteq [device: Devices, items: [Ids -> Item \cup {NoRow}]]
    /\ faults \in Nat
    /\ behind \subseteq Devices \X Ids

(* Everything the system holds as "the item at a version of the server":   *)
(* the server's row, the rows of answers on their way, the clean rows.     *)
Copies(id) ==
    (IF todos[id] = NoRow THEN {} ELSE {ToDto(todos[id])})
    \cup {answer[d][id] : d \in {e \in Devices : answer[e][id] # NoRow}}
    \cup {ToDto(repo[d][id]) :
            d \in {e \in Devices : repo[e][id] # NoRow /\ ~repo[e][id].dirty}}

(* serverVersion tells versions of an item apart ("server-side monotone    *)
(* version", TodoItem.h:11): two copies with the same version, on whatever *)
(* devices or in whatever answers, are equal; the copy with the higher     *)
(* version is never the older write; and no copy is ahead of the server.   *)
(* applyPullItems relies on it when it compares nothing but versions.      *)
VersionsIdentifyWrites ==
    \A id \in Ids : \A x, y \in Copies(id) :
        /\ x.serverVersion = y.serverVersion => x = y
        /\ x.serverVersion < y.serverVersion => x.updatedAt <= y.updatedAt
        /\ todos[id] # NoRow
        /\ x.serverVersion \in 1 .. todos[id].serverVersion

(* A local edit waits for its push ("dirty = 1 is to be pushed",           *)
(* SyncEngine.h:18): nothing but an answer to a push of it, or of a write  *)
(* that beats it, takes the mark away - whatever was retried, garbled,     *)
(* refused by SQLite or cut short by a crash in between.                   *)
UnpushedEditSurvives ==
    [][\A d \in Devices, id \in Ids :
         repo[d][id] # NoRow /\ repo[d][id].dirty
           => /\ repo'[d][id] # NoRow
              /\ repo'[d][id].updatedAt >= repo[d][id].updatedAt
              /\ ~repo'[d][id].dirty
                   => /\ todos[id] # NoRow
                      /\ todos[id].updatedAt >= repo[d][id].updatedAt]_vars

(* What a synchronisation writes is never older than what it replaces,     *)
(* although it compares versions and the server compares stamps.           *)
SyncNeverRegresses ==
    [][\A d \in Devices, id \in Ids :
         pc[d] # "Idle" /\ repo[d][id] # NoRow
           => repo'[d][id].updatedAt >= repo[d][id].updatedAt]_vars

(* A push the server sees twice - because the answer was lost and the      *)
(* device tried again, or because a request everybody had given up on      *)
(* arrives after all - changes a row's version and nothing else.           *)
RepushIdempotent ==
    [][\A id \in Ids :
         (/\ todos[id] # NoRow
          /\ todos'[id].updatedAt = todos[id].updatedAt
          /\ todos'[id].lastModifiedBy = todos[id].lastModifiedBy)
         => (/\ todos'[id].isDone = todos[id].isDone
             /\ todos'[id].deleted = todos[id].deleted)]_vars

(* Same payload: what the user of the device can tell. *)
SameItem(local, row) ==
    /\ local # NoRow
    /\ local.isDone = row.isDone
    /\ local.deleted = row.deleted
    /\ local.updatedAt = row.updatedAt

(* d has no edit of its own on id, does not hold the server's row, and the *)
(* next pull will not ask for it.                                          *)
Misses(d, id) ==
    /\ todos[id] # NoRow
    /\ todos[id].updatedAt <= meta[d]
    /\ ~(repo[d][id] # NoRow /\ repo[d][id].dirty)
    /\ ~SameItem(repo[d][id], todos[id])

(* The cursor protocol loses nothing but (a) a write the server committed  *)
(* when a pull had already run its query or the device's cursor had passed *)
(* the write's stamp and (b) a pulled row SQLite refused: no interleaving  *)
(* of retries, garbled answers, abandoned posts and crashes adds to these. *)
OnlyLateWritesAreMissed ==
    \A d \in Devices, id \in Ids : Misses(d, id) => <<d, id>> \in behind

(* SyncService.java:29 promises of a pull "all changes after since": what  *)
(* a device that is not synchronising lacks, its next pull asks for.       *)
NothingBehindCursor ==
    \A d \in Devices, id \in Ids : pc[d] = "Idle" => ~Misses(d, id)

(* TodoListModel.h:13: the model only exposes the repository's data.  When *)
(* no synchronisation runs, the list shows what the repository holds.      *)
ViewMatchesRepo ==
    \A d \in Devices : pc[d] = "Idle" => view[d] = ListAll(repo[d])

(* The stages of an attempt from here to its end. *)
StagesLeft(stage) ==
    CASE stage = "Pull"      -> 7
      [] stage = "Queried"   -> 6
      [] stage = "Pulled"    -> 5
      [] stage = "Push"      -> 4
      [] stage = "Posted"    -> 3
      [] stage = "Pushed"    -> 2
      [] stage = "Reconcile" -> 1
      [] OTHER               -> 0

(* The stages d's synchronisation has before it, at most. *)
WorkLeft(d) ==
    IF pc[d] = "Idle" THEN 0
    ELSE 7 * (MaxAttempts - attempt[d]) + StagesLeft(pc[d])

(* syncOnce ends after kMaxAttempts attempts at most (SyncEngine.cpp:97):   *)
(* no step, of its own or of anybody else, sets a synchronisation back.     *)
SyncsWindDown ==
    [][\A d \in Devices : pc[d] # "Idle" =>
         \/ WorkLeft(d)' < WorkLeft(d)
         \/ pc'[d] = pc[d] /\ attempt'[d] = attempt[d]]_vars

(* A synchronisation comes to an end, whatever the network does. *)
SyncTerminates == \A d \in Devices : pc[d] # "Idle" ~> pc[d] = "Idle"

(* Edits are with the server, and every device holds the server's row of    *)
(* every item, except for the pairs that OnlyLateWritesAreMissed speaks of. *)
Converged ==
    \A d \in Devices, id \in Ids :
        /\ ~(repo[d][id] # NoRow /\ repo[d][id].dirty)
        /\ todos[id] # NoRow
             => SameItem(repo[d][id], todos[id]) \/ <<d, id>> \in behind

(* If every device completes a synchronisation again and again, they        *)
(* converge, late writes apart, and stay so.                               *)
DevicesConverge ==
    (\A d \in Devices : []<><<Reconcile(d)>>_vars) => <>[]Converged

=============================================================================
