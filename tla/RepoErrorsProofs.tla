-------------------------- MODULE RepoErrorsProofs --------------------------
(* What SQLite refuses costs no device more than TodoSync allows, but for   *)
(* the one edit that a pull could not read.                                *)
EXTENDS RepoErrors, CursorProofs

(* The answer of a pull has no version older than a clean row of its        *)
(* device: a row that applyPullItems spares because its version is known is *)
(* the row of the answer.                                                  *)
FreshAnswers ==
    \A d \in Devices, id \in Ids :
        (/\ pc[d] \in {"Queried", "Pulled"}
         /\ answer[d][id] # NoRow
         /\ repo[d][id] # NoRow /\ ~repo[d][id].dirty)
          => repo[d][id].serverVersion <= answer[d][id].serverVersion

(* What a pull's query reads is at the server's version. *)
LEMMA FreshStep ==
    ASSUME TypeOK, VersionsIdentifyWrites, FreshAnswers, DevicesStep
    PROVE  FreshAnswers'
<1> SUFFICES ASSUME NEW d \in Devices, NEW id \in Ids,
                    pc'[d] \in {"Queried", "Pulled"}, answer'[d][id] # NoRow,
                    repo'[d][id] # NoRow, ~repo'[d][id].dirty
             PROVE  repo'[d][id].serverVersion <= answer'[d][id].serverVersion
  BY DEF FreshAnswers
<1>1. CASE SameDevice(d)
  BY <1>1 DEF SameDevice, FreshAnswers
<1>2. CASE PullQuery(d)
  <2>1. repo' = repo /\ todos[id] # NoRow /\ answer'[d][id] = ToDto(todos[id])
    BY <1>2 DEF PullQuery, UpdatedAfter, TypeOK, deviceVars
  <2>2. ToDto(repo[d][id]) \in Copies(id)
    BY <2>1 DEF Copies
  <2>3. ToDto(repo[d][id]).serverVersion \in 1 .. todos[id].serverVersion
    BY <2>2 DEF VersionsIdentifyWrites
  <2>4. QED
    BY <2>1, <2>3 DEF ToDto
<1>3. CASE PullStamp(d)
  BY <1>3 DEF PullStamp, deviceVars, FreshAnswers
<1>4. CASE PushServe(d)
  BY <1>4 DEF PushServe, TypeOK
<1>5. CASE QuietStep(d)
  BY <1>5 DEF QuietStep
<1>6. QED
  BY <1>1, <1>2, <1>3, <1>4, <1>5 DEF DevicesStep, DeviceStep

(* So to write the answer over a clean row that is spared changes nothing. *)
LEMMA SparedIsSame ==
    ASSUME TypeOK, VersionsIdentifyWrites, FreshAnswers,
           NEW d \in Devices, pc[d] = "Pulled",
           NEW id \in PullSpares(d), id \notin ListDirty(repo[d])
    PROVE  ItemFromWire(answer[d][id]) = repo[d][id]
<1>1. /\ id \in Ids /\ answer[d][id] # NoRow /\ repo[d][id] # NoRow /\ ~repo[d][id].dirty
      /\ ~(answer[d][id].serverVersion > repo[d][id].serverVersion)
  BY DEF PullSpares, PullWrites, ListDirty
<1>2. repo[d][id] \in Local /\ answer[d][id] \in Dto
  BY <1>1 DEF TypeOK
<1>3. repo[d][id].serverVersion <= answer[d][id].serverVersion
  BY <1>1 DEF FreshAnswers
<1>4. answer[d][id].serverVersion = repo[d][id].serverVersion
  BY <1>1, <1>2, <1>3 DEF Local, Dto
<1>5. answer[d][id] \in Copies(id) /\ ToDto(repo[d][id]) \in Copies(id)
  BY <1>1 DEF Copies
<1>6. ToDto(repo[d][id]).serverVersion = answer[d][id].serverVersion
  BY <1>4 DEF ToDto
<1>7. answer[d][id] = ToDto(repo[d][id])
  BY <1>1, <1>5, <1>6 DEF VersionsIdentifyWrites
<1>8. ItemFromWire(ToDto(repo[d][id])) = repo[d][id]
  BY <1>1, <1>2 DEF ItemFromWire, ToDto, Local
<1>9. QED
  BY <1>7, <1>8

(* Refused statements leave the other devices and the server alone. *)
ErrorFrame(d) ==
    /\ UNCHANGED <<now, todos, zombies, lastEdit, edits>>
    /\ behind \subseteq behind'
    /\ faults' \in Nat /\ faults' > faults
    /\ \A e \in Devices : e # d =>
         SameDevice(e) /\ request'[e] = request[e]

(* The statements that write no row. *)
LEMMA RefusedFrame ==
    ASSUME TypeOK, NEW d \in Devices,
           \/ StartSyncUnread(d) \/ EditRefused(d)
           \/ \E read \in SUBSET Ids : PushSendUnread(d, read)
           \/ \E shown \in SUBSET Ids : ReconcileUnread(d, shown)
    PROVE  ErrorFrame(d) /\ UNCHANGED <<repo, behind>>
<1>1. CASE StartSyncUnread(d)
  BY <1>1 DEF StartSyncUnread, ErrorFrame, SameDevice, TypeOK, serverVars, deviceVars
<1>2. CASE EditRefused(d)
  BY <1>2 DEF EditRefused, ErrorFrame, SameDevice, TypeOK, serverVars, engineVars
<1>3. CASE \E read \in SUBSET Ids : PushSendUnread(d, read)
  BY <1>3 DEF PushSendUnread, ErrorFrame, SameDevice, TypeOK, serverVars, deviceVars
<1>4. CASE \E shown \in SUBSET Ids : ReconcileUnread(d, shown)
  BY <1>4 DEF ReconcileUnread, EngineGone, ErrorFrame, SameDevice, TypeOK, serverVars
<1>5. QED
  BY <1>1, <1>2, <1>3, <1>4

(* They keep the types. *)
LEMMA RefusedType ==
    ASSUME TypeOK, NEW d \in Devices,
           \/ StartSyncUnread(d) \/ EditRefused(d)
           \/ \E read \in SUBSET Ids : PushSendUnread(d, read)
           \/ \E shown \in SUBSET Ids : ReconcileUnread(d, shown)
    PROVE  TypeOK'
<1>1. CASE StartSyncUnread(d)
  BY <1>1 DEF StartSyncUnread, TypeOK, Stage, Epoch, serverVars, deviceVars
<1>2. ListAll(repo[d]) \in [Ids -> Local \cup {NoRow}]
  BY ListAllType DEF TypeOK
<1>3. CASE EditRefused(d)
  BY <1>2, <1>3 DEF EditRefused, TypeOK, serverVars, engineVars
<1>4. ASSUME NEW read \in SUBSET Ids, PushSendUnread(d, read) PROVE TypeOK'
  <2>1. [id \in Ids |-> IF id \in read THEN ItemToWire(repo[d][id]) ELSE NoRow]
           \in [Ids -> Item \cup {NoRow}]
    BY <1>4, ItemToWireType DEF PushSendUnread, ListDirty, TypeOK
  <2>2. QED
    BY <1>4, <2>1 DEF PushSendUnread, TypeOK, Stage, serverVars, deviceVars
<1>5. ASSUME NEW shown \in SUBSET Ids, ReconcileUnread(d, shown) PROVE TypeOK'
  <2>1. [id \in Ids |-> IF id \in shown THEN ListAll(repo[d])[id] ELSE NoRow]
           \in [Ids -> Local \cup {NoRow}]
    BY <1>2
  <2>2. EngineGone(d) /\ UNCHANGED <<now, todos, zombies, behind, repo, lastEdit, edits>>
    BY <1>5 DEF ReconcileUnread, serverVars
  <2>3. /\ view' \in [Devices -> [Ids -> Local \cup {NoRow}]]
        /\ meta' \in [Devices -> Int] /\ faults' \in Nat
    BY <1>5, <2>1 DEF ReconcileUnread, TypeOK
  <2>4. QED
    BY <2>2, <2>3, EngineGoneType DEF TypeOK
<1>6. QED
  BY <1>1, <1>3, <1>4, <1>5

(* They have the shapes of the steps of TodoSync: none writes a row.        *)
LEMMA RefusedIsStep ==
    ASSUME TypeOK, NEW d \in Devices,
           \/ StartSyncUnread(d) \/ EditRefused(d)
           \/ \E read \in SUBSET Ids : PushSendUnread(d, read)
           \/ \E shown \in SUBSET Ids : ReconcileUnread(d, shown)
    PROVE  Step /\ DevicesStep
<1>1. ErrorFrame(d) /\ UNCHANGED <<repo, behind>>
  BY RefusedFrame
<1>2. /\ RepoStep /\ ZombieStep /\ ServerStep
  BY <1>1 DEF ErrorFrame, RepoStep, ZombieStep, ServerStep
<1>3. ViewStep
  <2>1. ASSUME NEW e \in Devices, NEW id \in Ids, view'[e][id] # NoRow
        PROVE  view'[e][id] = view[e][id] \/ repo'[e][id] # NoRow
    <3>1. \/ view'[e] = view[e]
          \/ e = d /\ view'[d] = ListAll(repo[d])
          \/ \E shown \in SUBSET Ids : e = d /\ view'[d] =
               [i \in Ids |-> IF i \in shown THEN ListAll(repo[d])[i] ELSE NoRow]
      <4>1. CASE StartSyncUnread(d) \/ EditRefused(d)
                   \/ \E read \in SUBSET Ids : PushSendUnread(d, read)
        <5>1. CASE StartSyncUnread(d)
          BY <5>1 DEF StartSyncUnread, deviceVars
        <5>2. CASE EditRefused(d)
          <6>1. view' = [view EXCEPT ![d] = ListAll(repo[d])]
            BY <5>2 DEF EditRefused
          <6>2. QED
            BY <6>1 DEF TypeOK
        <5>3. ASSUME NEW read \in SUBSET Ids, PushSendUnread(d, read)
              PROVE  view' = view
          BY <5>3 DEF PushSendUnread, deviceVars
        <5>4. QED
          BY <4>1, <5>1, <5>2, <5>3
      <4>2. ASSUME NEW shown \in SUBSET Ids, ReconcileUnread(d, shown)
            PROVE  \/ view'[e] = view[e]
                   \/ e = d /\ view'[d] =
                        [i \in Ids |-> IF i \in shown THEN ListAll(repo[d])[i] ELSE NoRow]
        <5>1. /\ view \in [Devices -> [Ids -> Local \cup {NoRow}]]
              /\ view' = [view EXCEPT ![d] =
                   [i \in Ids |-> IF i \in shown THEN ListAll(repo[d])[i] ELSE NoRow]]
          BY <4>2 DEF ReconcileUnread, TypeOK
        <5>2. CASE e = d
          BY <5>1, <5>2
        <5>3. CASE e # d
          BY <5>1, <5>3
        <5>4. QED
          BY <5>2, <5>3
      <4>3. CASE \E shown \in SUBSET Ids : ReconcileUnread(d, shown)
        BY <4>2, <4>3
      <4>4. QED
        BY <4>1, <4>3
    <3>2. repo' = repo
      BY <1>1
    <3>3. CASE view'[e] = view[e]
      BY <3>3
    <3>4. CASE e = d /\ view'[d] = ListAll(repo[d])
      BY <2>1, <3>2, <3>4, ListAllShows
    <3>5. ASSUME NEW shown \in SUBSET Ids, e = d,
                 view'[d] =
                   [i \in Ids |-> IF i \in shown THEN ListAll(repo[d])[i] ELSE NoRow]
          PROVE  repo'[e][id] # NoRow
      <4>1. view'[e][id] = IF id \in shown THEN ListAll(repo[d])[id] ELSE NoRow
        BY <3>5
      <4>2. ListAll(repo[d])[id] # NoRow
        BY <2>1, <4>1
      <4>3. QED
        BY <3>2, <3>5, <4>2, ListAllShows
    <3>6. QED
      BY <3>1, <3>3, <3>4, <3>5
  <2>2. QED
    BY <2>1 DEF ViewStep
<1>4. AnswerStep
  BY DEF StartSyncUnread, EditRefused, PushSendUnread, ReconcileUnread, EngineGone,
         AnswerStep, TypeOK, engineVars
<1>5. PushStep
  <2>1. \/ pc'[d] \notin {"Posted", "Pushed"} /\ request'[d] \in {request[d], Nothing}
        \/ pc'[d] # "Pushed" /\ Sends(d)
    <3>1. CASE StartSyncUnread(d) \/ EditRefused(d)
      BY <3>1 DEF StartSyncUnread, EditRefused, TypeOK, engineVars
    <3>2. CASE \E read \in SUBSET Ids : PushSendUnread(d, read)
      BY <3>2 DEF PushSendUnread, Sends, TypeOK, deviceVars
    <3>3. CASE \E shown \in SUBSET Ids : ReconcileUnread(d, shown)
      BY <3>3 DEF ReconcileUnread, EngineGone, TypeOK
    <3>4. QED
      BY <3>1, <3>2, <3>3
  <2>2. QED
    BY <1>1, <2>1 DEF PushStep, SamePush, ErrorFrame, SameDevice
<1>6. QuietStep(d)
  <2>1. UNCHANGED todos /\ behind \subseteq behind' /\ UNCHANGED repo
    BY <1>1 DEF ErrorFrame
  <2>2. /\ pc'[d] \notin {"Queried", "Pulled", "Pushed"} /\ pc[d] # "Pulled"
        /\ Times(d)' \subseteq {Epoch} \cup Times(d)
    <3>1. CASE StartSyncUnread(d) \/ EditRefused(d)
      BY <3>1 DEF StartSyncUnread, EditRefused, Times, TypeOK, deviceVars, engineVars
    <3>2. CASE \E read \in SUBSET Ids : PushSendUnread(d, read)
      BY <3>2 DEF PushSendUnread, Times, TypeOK, deviceVars
    <3>3. CASE \E shown \in SUBSET Ids : ReconcileUnread(d, shown)
      BY <3>3 DEF ReconcileUnread, EngineGone, Times, TypeOK
    <3>4. QED
      BY <3>1, <3>2, <3>3
  <2>3. QED
    BY <2>1, <2>2 DEF QuietStep, QuietRow
<1>7. DevicesStep
  BY <1>1, <1>6 DEF DevicesStep, DeviceStep, ErrorFrame, TypeOK
<1>8. QED
  BY <1>2, <1>3, <1>4, <1>5, <1>7 DEF Step

(* A pull that cannot read some rows writes the answer over them too.      *)
UnreadWrites(d, unread, failed) == (PullWrites(d) \cup unread) \ failed

(* Which rows those are, and what else the step leaves alone. *)
LEMMA UnreadFrame ==
    ASSUME TypeOK, NEW d \in Devices, NEW unread \in SUBSET Ids, NEW failed \in SUBSET Ids,
           PullApplyUnread(d, unread, failed)
    PROVE  /\ TypeOK' /\ ErrorFrame(d)
           /\ UnreadWrites(d, unread, failed) \in SUBSET PushWrites(d)
           /\ repo' = [repo EXCEPT ![d] = Written(d, UnreadWrites(d, unread, failed))]
<1>1. UnreadWrites(d, unread, failed) \in SUBSET PushWrites(d)
  BY DEF PullApplyUnread, UnreadWrites, PullSpares, PullWrites, PushWrites
<1>2. repo' = [repo EXCEPT ![d] = Written(d, UnreadWrites(d, unread, failed))]
  BY DEF PullApplyUnread, UnreadWrites
<1>3. Written(d, UnreadWrites(d, unread, failed)) \in [Ids -> Local \cup {NoRow}]
  BY <1>1, WrittenType DEF PushWrites
<1>4. faults' \in Nat /\ faults' > faults
  <2>1. Cardinality(unread) \in Nat /\ Cardinality(failed) \in Nat
    BY FailedIsFinite
  <2>2. Cardinality(unread) # 0
    BY IdsAssumption, FS_Subset, FS_EmptySet DEF PullApplyUnread
  <2>3. faults' = faults + Cardinality(unread) + Cardinality(failed)
    BY DEF PullApplyUnread
  <2>4. faults \in Nat
    BY DEF TypeOK
  <2>5. QED
    BY <2>1, <2>2, <2>3, <2>4
<1>5. /\ UNCHANGED <<now, todos, zombies, meta, view, lastEdit, edits, attempt, request>>
      /\ pc' = [pc EXCEPT ![d] = "Push"]
      /\ cursor' = [cursor EXCEPT ![d] = serverTime[d]]
      /\ answer' = [answer EXCEPT ![d] = Nothing]
      /\ serverTime' = [serverTime EXCEPT ![d] = Epoch]
      /\ behind \subseteq behind' /\ behind' \subseteq behind \cup ({d} \X Ids)
  BY DEF PullApplyUnread
<1>6. TypeOK'
  <2>1. repo' \in [Devices -> [Ids -> Local \cup {NoRow}]]
    BY <1>2, <1>3 DEF TypeOK
  <2>2. answer' \in [Devices -> [Ids -> Dto \cup {NoRow}]]
    BY <1>5 DEF Nothing, TypeOK
  <2>3. /\ pc' \in [Devices -> Stage] /\ cursor' \in [Devices -> Int]
        /\ serverTime' \in [Devices -> Int]
    BY <1>5 DEF TypeOK, Stage, Epoch
  <2>4. behind' \subseteq Devices \X Ids
    BY <1>5 DEF TypeOK
  <2>5. QED
    BY <1>4, <1>5, <2>1, <2>2, <2>3, <2>4 DEF TypeOK
<1>7. ErrorFrame(d)
  BY <1>2, <1>4, <1>5 DEF ErrorFrame, SameDevice, TypeOK
<1>8. QED
  BY <1>1, <1>2, <1>6, <1>7

(* What it does to one row.  It loses an edit, and the device is behind; or *)
(* it writes what the row is already.                                      *)
LEMMA UnreadRow ==
    ASSUME TypeOK, VersionsIdentifyWrites, FreshAnswers, NEW d \in Devices,
           NEW unread \in SUBSET Ids, NEW failed \in SUBSET Ids,
           PullApplyUnread(d, unread, failed), NEW id \in Ids
    PROVE  QuietRow(d, id)
<1>1. repo'[d][id] = IF id \in UnreadWrites(d, unread, failed)
                     THEN ItemFromWire(answer[d][id]) ELSE repo[d][id]
  <2>1. /\ UnreadWrites(d, unread, failed) \in SUBSET PushWrites(d)
        /\ repo' = [repo EXCEPT ![d] = Written(d, UnreadWrites(d, unread, failed))]
    BY UnreadFrame
  <2>2. UnreadWrites(d, unread, failed) \in SUBSET Ids
    BY <2>1 DEF PushWrites
  <2> DEFINE ids == UnreadWrites(d, unread, failed)
  <2>3. ids \in SUBSET Ids /\ repo' = [repo EXCEPT ![d] = Written(d, ids)]
    BY <2>1, <2>2
  <2> HIDE DEF ids
  <2>4. repo'[d][id] = IF id \in ids THEN ItemFromWire(answer[d][id]) ELSE repo[d][id]
    BY <2>3, WrittenRow
  <2>5. QED
    BY <2>4 DEF ids
<1>2. pc[d] = "Pulled" /\ unread \subseteq PullSpares(d) /\ failed \subseteq PullWrites(d)
  BY DEF PullApplyUnread
<1>3. id \in failed \/ id \in unread \cap ListDirty(repo[d]) => <<d, id>> \in behind'
  BY DEF PullApplyUnread
<1>4. CASE <<d, id>> \in behind'
  BY <1>4 DEF QuietRow
<1>5. CASE id \in PullWrites(d) \ failed
  BY <1>1, <1>2, <1>5 DEF QuietRow, UnreadWrites
<1>6. CASE id \in unread \ ListDirty(repo[d])
  <2>1. ItemFromWire(answer[d][id]) = repo[d][id]
    BY <1>2, <1>6, SparedIsSame
  <2>2. id \notin PullWrites(d)
    BY <1>2, <1>6 DEF PullSpares
  <2>3. QED
    BY <1>1, <2>1, <2>2 DEF QuietRow
<1>7. CASE id \notin unread /\ id \notin PullWrites(d)
  BY <1>1, <1>7 DEF QuietRow, UnreadWrites
<1>8. QED
  BY <1>3, <1>4, <1>5, <1>6, <1>7

(* The step as a whole. *)
LEMMA UnreadIsStep ==
    ASSUME TypeOK, VersionsIdentifyWrites, FreshAnswers, NEW d \in Devices,
           NEW unread \in SUBSET Ids, NEW failed \in SUBSET Ids,
           PullApplyUnread(d, unread, failed)
    PROVE  Step /\ DevicesStep
<1>1. /\ ErrorFrame(d)
      /\ UnreadWrites(d, unread, failed) \in SUBSET PushWrites(d)
      /\ repo' = [repo EXCEPT ![d] = Written(d, UnreadWrites(d, unread, failed))]
  BY UnreadFrame
<1>2. /\ UNCHANGED <<todos, zombies, meta, view, lastEdit, request>>
      /\ pc' = [pc EXCEPT ![d] = "Push"]
      /\ cursor' = [cursor EXCEPT ![d] = serverTime[d]]
      /\ answer' = [answer EXCEPT ![d] = Nothing]
      /\ serverTime' = [serverTime EXCEPT ![d] = Epoch]
  BY DEF PullApplyUnread
<1>3. RepoStep
  BY <1>1, <1>2 DEF RepoStep, ByAnswer
<1>4. ViewStep /\ ZombieStep
  BY <1>2 DEF ViewStep, ZombieStep
<1>5. AnswerStep
  BY <1>2, AnswerGone
<1>6. PushStep
  <2>1. pc'[d] = "Push" /\ request' = request
    BY <1>2 DEF TypeOK
  <2>2. QED
    BY <1>1, <2>1 DEF PushStep, SamePush, ErrorFrame, SameDevice
<1>7. ServerStep
  BY <1>1, <1>2 DEF ServerStep, ErrorFrame
<1>8. QuietStep(d)
  <2>1. pc'[d] = "Push" /\ Times(d)' \subseteq {Epoch} \cup Times(d)
    BY <1>2 DEF Times, TypeOK
  <2>2. \A id \in Ids : QuietRow(d, id)
    BY UnreadRow
  <2>3. QED
    BY <1>1, <1>2, <2>1, <2>2 DEF QuietStep, ErrorFrame
<1>9. DevicesStep
  BY <1>1, <1>8 DEF DevicesStep, DeviceStep, ErrorFrame, TypeOK
<1>10. QED
  BY <1>3, <1>4, <1>5, <1>6, <1>7, <1>9 DEF Step

(* So refused statements have the shapes the invariants need.              *)
LEMMA ErrorIsStep ==
    ASSUME TypeOK, VersionsIdentifyWrites, FreshAnswers,
           NEW d \in Devices, ErrorStep(d)
    PROVE  TypeOK' /\ Step /\ DevicesStep
  BY RefusedType, RefusedIsStep, UnreadFrame, UnreadIsStep DEF ErrorStep

(* What is proved of them by induction. *)
ErrorInv == SyncInv /\ FreshAnswers

(* The invariant of TodoSync survives refused statements.                  *)
THEOREM ErrorInvariant == ErrorSpec => []ErrorInv
<1>1. Init => ErrorInv
  BY SyncInit DEF ErrorInv, FreshAnswers, Init
<1>2. ErrorInv /\ [ErrorNext]_vars => ErrorInv'
  <2> SUFFICES ASSUME ErrorInv, [ErrorNext]_vars PROVE ErrorInv'
    OBVIOUS
  <2>1. SyncInv /\ TypeOK /\ ShownIsStored /\ VersionsIdentifyWrites /\ FreshAnswers
    BY DEF ErrorInv, SyncInv
  <2>2. TypeOK' /\ Step /\ DevicesStep
    <3>1. CASE [Next]_vars
      BY <2>1, <3>1, TypeStep, NextIsStep, NextIsDevicesStep
    <3>2. CASE \E d \in Devices : ErrorStep(d)
      BY <2>1, <3>2, ErrorIsStep
    <3>3. QED
      BY <3>1, <3>2 DEF ErrorNext
  <2>3. SyncInv' /\ FreshAnswers'
    BY <2>1, <2>2, SyncStep, FreshStep
  <2>4. QED
    BY <2>3 DEF ErrorInv
<1>3. QED
  BY <1>1, <1>2, PTL DEF ErrorSpec

(* A cursor that is not read, a list of dirty rows or of shown rows that    *)
(* breaks off, an edit that is refused: none makes a device miss a row that *)
(* was not too late for it, not refused, and not written over its own edit. *)
THEOREM ErrorsMissLateWritesOnly == ErrorSpec => []OnlyLateWritesAreMissed
<1>1. ErrorInv => OnlyLateWritesAreMissed
  BY NothingElseIsMissed DEF ErrorInv
<1>2. QED
  BY <1>1, ErrorInvariant, PTL

(* What a refused statement does to an edit that waits for its push. *)
LEMMA RefusedLoss ==
    ASSUME TypeOK, NEW d \in Devices, ErrorStep(d), NEW e \in Devices, NEW id \in Ids,
           repo[e][id] # NoRow, repo[e][id].dirty
    PROVE  \/ repo'[e][id] = repo[e][id]
           \/ /\ pc[e] = "Pulled" /\ faults' > faults
              /\ repo'[e][id] = ItemFromWire(answer[e][id])
<1>1. ASSUME NEW unread \in SUBSET Ids, NEW failed \in SUBSET Ids,
             PullApplyUnread(d, unread, failed)
      PROVE  \/ repo'[e][id] = repo[e][id]
             \/ /\ pc[e] = "Pulled" /\ faults' > faults
                /\ repo'[e][id] = ItemFromWire(answer[e][id])
  <2>1. CASE e = d
    <3>1. repo'[d][id] = IF id \in UnreadWrites(d, unread, failed)
                         THEN ItemFromWire(answer[d][id]) ELSE repo[d][id]
      BY <1>1, UnreadFrame, WrittenRow DEF PushWrites
    <3>2. pc[d] = "Pulled" /\ faults' > faults
      BY <1>1, UnreadFrame DEF PullApplyUnread, ErrorFrame
    <3>3. QED
      BY <2>1, <3>1, <3>2
  <2>2. CASE e # d
    BY <1>1, <2>2, UnreadFrame DEF ErrorFrame, SameDevice
  <2>3. QED
    BY <2>1, <2>2
<1>2. QED
  BY <1>1, RefusedFrame DEF ErrorStep

(* One row of one device, over one step. *)
LEMMA RefusedReadsStep ==
    ASSUME ErrorInv, [ErrorNext]_vars, NEW d \in Devices, NEW id \in Ids,
           repo[d][id] # NoRow, repo[d][id].dirty
    PROVE  /\ repo'[d][id] # NoRow
           /\ \/ repo'[d][id].dirty /\ repo'[d][id].updatedAt >= repo[d][id].updatedAt
              \/ /\ todos[id] # NoRow /\ todos[id].updatedAt >= repo[d][id].updatedAt
                 /\ repo'[d][id].updatedAt >= repo[d][id].updatedAt
              \/ /\ pc[d] = "Pulled" /\ faults' > faults
                 /\ repo'[d][id] = ItemFromWire(answer[d][id])
<1>1. /\ TypeOK /\ ShownIsStored /\ VersionsIdentifyWrites /\ EditInv /\ FreshAnswers
  BY DEF ErrorInv, SyncInv
<1>2. CASE [Next]_vars
  BY <1>1, <1>2, NextIsStep, SurvivalStep, RowsStay DEF Step
<1>3. ASSUME NEW e \in Devices, ErrorStep(e)
      PROVE  /\ repo'[d][id] # NoRow
             /\ \/ repo'[d][id].dirty /\ repo'[d][id].updatedAt >= repo[d][id].updatedAt
                \/ /\ pc[d] = "Pulled" /\ faults' > faults
                   /\ repo'[d][id] = ItemFromWire(answer[d][id])
  <2>1. repo'[d][id] # NoRow
    BY <1>1, <1>3, ErrorIsStep, RowsStay DEF Step
  <2>2. repo[d][id].updatedAt \in Int
    BY <1>1 DEF TypeOK, Local
  <2>3. QED
    BY <1>1, <1>3, <2>1, <2>2, RefusedLoss
<1>4. QED
  BY <1>2, <1>3 DEF ErrorNext

(* The read that a pull is refused is the only way to lose an edit.        *)
THEOREM RefusedReadsOnly == ErrorSpec => OnlyRefusedReadsLoseEdits
<1>1. ErrorInv /\ [ErrorNext]_vars
        => \A d \in Devices, id \in Ids :
             repo[d][id] # NoRow /\ repo[d][id].dirty
               => /\ repo'[d][id] # NoRow
                  /\ \/ repo'[d][id].dirty /\ repo'[d][id].updatedAt >= repo[d][id].updatedAt
                     \/ /\ todos[id] # NoRow /\ todos[id].updatedAt >= repo[d][id].updatedAt
                        /\ repo'[d][id].updatedAt >= repo[d][id].updatedAt
                     \/ /\ pc[d] = "Pulled" /\ faults' > faults
                        /\ repo'[d][id] = ItemFromWire(answer[d][id])
  BY RefusedReadsStep
<1>2. QED
  BY <1>1, ErrorInvariant, PTL DEF ErrorSpec, OnlyRefusedReadsLoseEdits

(* A refused statement starts a synchronisation, or ends a stage or all of  *)
(* it, like one that is carried out.                                       *)
LEMMA ErrorGoesOn ==
    ASSUME TypeOK, [ErrorNext]_vars, NEW d \in Devices PROVE SyncGoesOn(d)
<1>1. ASSUME NEW e \in Devices, StartSyncUnread(e) PROVE SyncGoesOn(d)
  BY <1>1 DEF StartSyncUnread, SyncGoesOn, SyncStarts, SyncStays, TypeOK
<1>2. ASSUME NEW e \in Devices, NEW unread \in SUBSET Ids, NEW failed \in SUBSET Ids,
             PullApplyUnread(e, unread, failed)
      PROVE  SyncGoesOn(d)
  <2>1. /\ pc' = [pc EXCEPT ![e] = "Push"] /\ UNCHANGED attempt /\ pc[e] = "Pulled"
        /\ StagesLeft("Push") < StagesLeft("Pulled")
    BY <1>2, StagesInOrder DEF PullApplyUnread
  <2>2. QED
    BY <2>1, MoverGoesOn
<1>3. ASSUME NEW e \in Devices, NEW read \in SUBSET Ids, PushSendUnread(e, read)
      PROVE  SyncGoesOn(d)
  <2>1. /\ pc[e] = "Push" /\ UNCHANGED attempt
        /\ \/ pc' = [pc EXCEPT ![e] = "Posted"]
           \/ pc' = [pc EXCEPT ![e] = "Reconcile"]
    BY <1>3 DEF PushSendUnread
  <2>2. StagesLeft("Posted") < StagesLeft("Push") /\ StagesLeft("Reconcile") < StagesLeft("Push")
    BY StagesInOrder
  <2>3. QED
    BY <2>1, <2>2, MoverGoesOn
<1>4. ASSUME NEW e \in Devices, NEW shown \in SUBSET Ids, ReconcileUnread(e, shown)
      PROVE  SyncGoesOn(d)
  BY <1>4, EngineGoneEnds DEF ReconcileUnread, SyncGoesOn
<1>5. ASSUME NEW e \in Devices, EditRefused(e) PROVE SyncGoesOn(d)
  BY <1>5 DEF EditRefused, engineVars, SyncGoesOn, SyncStays
<1>6. QED
  BY <1>1, <1>2, <1>3, <1>4, <1>5, NextGoesOn DEF ErrorNext, ErrorStep

(* No refused statement keeps a synchronisation from its end.              *)
THEOREM ErrorSyncsEnd == ErrorSpec => SyncsWindDown
<1>1. Init => AttemptsCounted
  BY DEF Init, AttemptsCounted
<1>2. ErrorInv /\ AttemptsCounted /\ [ErrorNext]_vars => AttemptsCounted'
  BY ErrorGoesOn, AttemptsStep DEF ErrorInv, SyncInv
<1>3. ErrorInv /\ ErrorInv' /\ AttemptsCounted /\ [ErrorNext]_vars =>
        \A d \in Devices : pc[d] # "Idle" =>
          \/ WorkLeft(d)' < WorkLeft(d)
          \/ pc'[d] = pc[d] /\ attempt'[d] = attempt[d]
  <2> SUFFICES ASSUME ErrorInv, ErrorInv', AttemptsCounted, [ErrorNext]_vars,
                      NEW d \in Devices, pc[d] # "Idle"
               PROVE  WorkLeft(d)' < WorkLeft(d) \/ SyncStays(d)
    BY DEF SyncStays
  <2>1. TypeOK /\ TypeOK'
    BY DEF ErrorInv, SyncInv
  <2>2. pc'[d] \in Stage
    BY <2>1 DEF TypeOK
  <2>3. QED
    BY <2>1, <2>2, ErrorGoesOn, GoingOnCounts
<1>4. QED
  BY <1>1, <1>2, <1>3, ErrorInvariant, PTL DEF ErrorSpec, SyncsWindDown

=============================================================================
