-------------------------- MODULE MobileSyncProofs --------------------------
(* What holds of desktops holds of desktops and mobile cores together.      *)
EXTENDS MobileSync, CursorProofs

(* The steps in which a mobile core's engine differs from the desktop's.    *)
MobileOwn(d) ==
    \/ MobilePullApply(d) \/ MobilePushApply(d)
    \/ MobileGarbled(d) \/ MobileReconcile(d)

(* All other steps are a desktop's. *)
LEMMA MobileNextSplits ==
    ASSUME [MobileNext]_vars PROVE [Next]_vars \/ \E d \in Devices : MobileOwn(d)
  BY DEF MobileNext, EngineStep, MobileStep, MobileOwn, Next, WorkerStep

(* What these steps have in common: they write the store and the cursors.  *)
MobileFrame(d) ==
    /\ UNCHANGED <<now, todos, zombies, behind, lastEdit, edits>>
    /\ faults' \in Nat
    /\ pc' = [pc EXCEPT ![d] = pc'[d]]
    /\ pc'[d] \in {"Idle", "Push", "Reconcile"}
    /\ \A e \in Devices : e # d =>
         SameDevice(e) /\ request'[e] = request[e] /\ view'[e] = view[e]
    /\ view'[d] = view[d] \/ view'[d] = ListAll(repo'[d])
    /\ request'[d] \in {request[d], Nothing}
    /\ answer'[d] \in {answer[d], Nothing}
    /\ Times(d)' \subseteq {Epoch} \cup Times(d)

(* A broken answer and the end of a synchronisation write no row.          *)
LEMMA MobileEnds ==
    ASSUME TypeOK, NEW d \in Devices, MobileGarbled(d) \/ MobileReconcile(d)
    PROVE  /\ TypeOK' /\ MobileFrame(d) /\ UNCHANGED repo
           /\ pc[d] = "Pulled" => Times(d)' \subseteq {Epoch, meta[d]}
<1>1. EngineGone(d) /\ UNCHANGED <<now, todos, zombies, behind, repo, view, lastEdit, edits>>
  BY DEF MobileGarbled, MobileReconcile, serverVars, deviceVars
<1>2. /\ faults' \in Nat /\ meta' \in [Devices -> Int]
      /\ \/ UNCHANGED meta
         \/ pc[d] = "Reconcile" /\ meta' = [meta EXCEPT ![d] = serverTime[d]]
  BY DEF MobileGarbled, MobileReconcile, deviceVars, TypeOK
<1>3. TypeOK'
  BY <1>1, <1>2, EngineGoneType DEF TypeOK
<1>4. MobileFrame(d)
  BY <1>1, <1>2 DEF MobileFrame, EngineGone, SameDevice, Times, TypeOK
<1>5. pc[d] = "Pulled" => Times(d)' \subseteq {Epoch, meta[d]}
  BY <1>1, <1>2 DEF EngineGone, Times, TypeOK
<1>6. QED
  BY <1>1, <1>3, <1>4, <1>5

(* The two steps that write the store.                                     *)
LEMMA MobileApplies ==
    ASSUME TypeOK, NEW d \in Devices, NEW ids \in SUBSET Ids,
           \/ MobilePullApply(d) /\ ids = PullWrites(d)
           \/ MobilePushApply(d) /\ ids = PushWrites(d)
    PROVE  /\ TypeOK' /\ MobileFrame(d)
           /\ repo' = [repo EXCEPT ![d] = Written(d, ids)]
<1>1. /\ UNCHANGED <<now, todos, zombies, behind, meta, lastEdit, edits, attempt, cursor,
                     serverTime, faults>>
      /\ repo' = [repo EXCEPT ![d] = Written(d, ids)]
      /\ view' = [view EXCEPT ![d] = ListAll(repo'[d])]
      /\ answer' = [answer EXCEPT ![d] = Nothing]
  BY DEF MobilePullApply, MobilePushApply, MobileStore, serverVars
<1>2. /\ \/ pc' = [pc EXCEPT ![d] = "Push"]
         \/ pc' = [pc EXCEPT ![d] = "Reconcile"]
      /\ request' = [request EXCEPT ![d] = Nothing] \/ UNCHANGED request
  BY DEF MobilePullApply, MobilePushApply
<1>3. Nothing \in [Ids -> Item \cup {NoRow}] /\ Nothing \in [Ids -> Dto \cup {NoRow}]
  BY DEF Nothing
<1>4. \A id \in ids : answer[d][id] # NoRow
  BY DEF PullWrites, PushWrites
<1>5. Written(d, ids) \in [Ids -> Local \cup {NoRow}]
  BY <1>4, WrittenType
<1>6. repo' \in [Devices -> [Ids -> Local \cup {NoRow}]]
  BY <1>1, <1>5 DEF TypeOK
<1>7. view' \in [Devices -> [Ids -> Local \cup {NoRow}]]
  <2>1. ListAll(repo'[d]) \in [Ids -> Local \cup {NoRow}]
    BY <1>6, ListAllType
  <2>2. QED
    BY <1>1, <2>1 DEF TypeOK
<1>8. TypeOK'
  <2>1. pc' \in [Devices -> Stage]
    BY <1>2 DEF TypeOK, Stage
  <2>2. request' \in [Devices -> [Ids -> Item \cup {NoRow}]]
    <3>1. CASE UNCHANGED request
      BY <3>1 DEF TypeOK
    <3>2. CASE request' = [request EXCEPT ![d] = Nothing]
      BY <1>3, <3>2 DEF TypeOK
    <3>3. QED
      BY <1>2, <3>1, <3>2
  <2>3. answer' \in [Devices -> [Ids -> Dto \cup {NoRow}]]
    BY <1>1, <1>3 DEF TypeOK
  <2>4. QED
    BY <1>1, <1>6, <1>7, <2>1, <2>2, <2>3 DEF TypeOK
<1>9. MobileFrame(d)
  BY <1>1, <1>2 DEF MobileFrame, SameDevice, Times, TypeOK
<1>10. QED
  BY <1>1, <1>8, <1>9

(* They have the shapes of the desktop's, if the rows are written by the    *)
(* desktop's rules, ...                                                    *)
LEMMA MobileFrameIsStep ==
    ASSUME TypeOK, TypeOK', NEW d \in Devices, MobileFrame(d), RuledStep, RepoStep,
           \A id \in Ids : QuietRow(d, id)
    PROVE  Step /\ DevicesStep
<1>1. ViewStep
  <2> SUFFICES ASSUME NEW e \in Devices, NEW id \in Ids, view'[e][id] # NoRow
               PROVE  view'[e][id] = view[e][id] \/ repo'[e][id] # NoRow
    BY DEF ViewStep
  <2>1. CASE view'[e] = view[e]
    BY <2>1
  <2>2. CASE view'[e] = ListAll(repo'[e])
    BY <2>2, ListAllShows
  <2>3. QED
    BY <2>1, <2>2 DEF MobileFrame
<1>2. AnswerStep
  BY DEF MobileFrame, AnswerStep, SameDevice
<1>3. PushStep
  BY DEF MobileFrame, PushStep, SamePush, SameDevice
<1>4. ZombieStep /\ ServerStep
  BY DEF MobileFrame, ZombieStep, ServerStep
<1>5. QuietStep(d)
  BY DEF MobileFrame, QuietStep
<1>6. DevicesStep
  BY <1>5 DEF DevicesStep, DeviceStep, MobileFrame, TypeOK
<1>7. QED
  BY <1>1, <1>2, <1>3, <1>4, <1>6 DEF Step

(* ... which they are.                                                     *)
LEMMA MobileIsStep ==
    ASSUME TypeOK, NEW d \in Devices, MobileOwn(d)
    PROVE  TypeOK' /\ Step /\ RuledStep /\ DevicesStep
<1>1. CASE MobileGarbled(d) \/ MobileReconcile(d)
  <2>1. /\ TypeOK' /\ MobileFrame(d) /\ UNCHANGED repo
        /\ pc[d] = "Pulled" => Times(d)' \subseteq {Epoch, meta[d]}
    BY <1>1, MobileEnds
  <2>2. RuledStep /\ RepoStep
    BY <2>1 DEF RuledStep, RepoStep, MobileFrame
  <2>3. \A id \in Ids : QuietRow(d, id)
    BY <2>1 DEF QuietRow
  <2>4. QED
    BY <2>1, <2>2, <2>3, MobileFrameIsStep
<1>2. ASSUME NEW ids \in SUBSET Ids,
             \/ MobilePullApply(d) /\ ids = PullWrites(d)
             \/ MobilePushApply(d) /\ ids = PushWrites(d)
      PROVE  TypeOK' /\ Step /\ RuledStep /\ DevicesStep
  <2>1. /\ TypeOK' /\ MobileFrame(d)
        /\ repo' = [repo EXCEPT ![d] = Written(d, ids)]
    BY <1>2, MobileApplies
  <2>2. \/ pc[d] = "Pulled" /\ ids = PullWrites(d)
        \/ pc[d] = "Pushed" /\ ids = PushWrites(d)
    BY <1>2 DEF MobilePullApply, MobilePushApply
  <2>3. ByPull(d) \/ ByPush(d)
    BY <2>1, <2>2 DEF ByPull, ByPush, ByAnswer
  <2>4. UNCHANGED lastEdit
    BY <2>1 DEF MobileFrame
  <2>5. RuledStep /\ RepoStep
    BY <2>3, <2>4, RuledIsAnswer DEF RuledStep, RepoStep
  <2>6. ASSUME NEW id \in Ids PROVE QuietRow(d, id)
    <3>1. repo'[d][id] = IF id \in ids THEN ItemFromWire(answer[d][id]) ELSE repo[d][id]
      BY <2>1, WrittenRow
    <3>2. QED
      BY <2>2, <3>1 DEF QuietRow
  <2>7. QED
    BY <2>1, <2>5, <2>6, MobileFrameIsStep
<1>3. QED
  <2>1. PullWrites(d) \in SUBSET Ids /\ PushWrites(d) \in SUBSET Ids
    BY DEF PullWrites, PushWrites
  <2>2. QED
    BY <1>1, <1>2, <2>1 DEF MobileOwn

(* Every step of both kinds of devices has the shapes the invariants need.  *)
LEMMA MobileNextIsStep ==
    ASSUME TypeOK, ShownIsStored, [MobileNext]_vars
    PROVE  TypeOK' /\ Step /\ RuledStep /\ DevicesStep
<1>1. CASE [Next]_vars
  BY <1>1, TypeStep, NextIsStep, NextIsDevicesStep
<1>2. CASE \E d \in Devices : MobileOwn(d)
  BY <1>2, MobileIsStep
<1>3. QED
  BY <1>1, <1>2, MobileNextSplits

(* All that is proved of desktops, of both. *)
THEOREM MobileInvariant == MobileSpec => []SyncInv
<1>1. SyncInv /\ [MobileNext]_vars => SyncInv'
  BY MobileNextIsStep, SyncStep DEF SyncInv
<1>2. QED
  BY <1>1, SyncInit, PTL DEF MobileSpec

(* A mobile core, whose attempts all start from the stored cursor, misses   *)
(* no more than a desktop, and nor does a desktop beside it.               *)
THEOREM MobilesMissLateWritesOnly == MobileSpec => []OnlyLateWritesAreMissed
  BY MobileInvariant, NothingElseIsMissed, PTL

(* No edit is lost on either, although the mobile core ends at an answer it *)
(* cannot read where the desktop goes on.                                  *)
THEOREM MobileEditsSurvive == MobileSpec => UnpushedEditSurvives
<1>1. SyncInv /\ [MobileNext]_vars
        => \A d \in Devices, id \in Ids :
             repo[d][id] # NoRow /\ repo[d][id].dirty
               => /\ repo'[d][id] # NoRow
                  /\ repo'[d][id].updatedAt >= repo[d][id].updatedAt
                  /\ ~repo'[d][id].dirty
                       => /\ todos[id] # NoRow
                          /\ todos[id].updatedAt >= repo[d][id].updatedAt
  BY MobileNextIsStep, SurvivalStep, RowsStay DEF SyncInv, Step
<1>2. QED
  BY <1>1, MobileInvariant, PTL DEF MobileSpec, UnpushedEditSurvives

(* Nor does a synchronisation of either kind replace a row by an older one. *)
THEOREM MobileSyncsNeverRegress == MobileSpec => SyncNeverRegresses
<1>1. SyncInv /\ [MobileNext]_vars
        => \A d \in Devices, id \in Ids :
             pc[d] # "Idle" /\ repo[d][id] # NoRow
               => repo'[d][id].updatedAt >= repo[d][id].updatedAt
  BY MobileNextIsStep, RegressStep DEF SyncInv
<1>2. QED
  BY <1>1, MobileInvariant, PTL DEF MobileSpec, SyncNeverRegresses

(* The mobile core, too, only repeats what it has pushed before.           *)
THEOREM MobileRepushesChangeNothing == MobileSpec => RepushIdempotent
<1>1. Init => StampsIdentifyWrites
  BY StampsInit
<1>2. SyncInv /\ [MobileNext]_vars => TypeOK /\ Step
  BY MobileNextIsStep DEF SyncInv
<1>3. SyncInv /\ StampsIdentifyWrites /\ [MobileNext]_vars => StampsIdentifyWrites'
  BY <1>2, StampsStep
<1>4. SyncInv /\ StampsIdentifyWrites /\ [MobileNext]_vars
        => \A id \in Ids :
             (/\ todos[id] # NoRow
              /\ todos'[id].updatedAt = todos[id].updatedAt
              /\ todos'[id].lastModifiedBy = todos[id].lastModifiedBy)
             => (/\ todos'[id].isDone = todos[id].isDone
                 /\ todos'[id].deleted = todos[id].deleted)
  BY <1>2, RepushStep
<1>5. QED
  BY <1>1, <1>3, <1>4, MobileInvariant, PTL DEF MobileSpec, RepushIdempotent

(* The steps of the mobile core end a stage or the synchronisation.        *)
LEMMA MobileGoesOn ==
    ASSUME TypeOK, [MobileNext]_vars, NEW d \in Devices PROVE SyncGoesOn(d)
<1>1. ASSUME NEW e \in Devices, MobilePullApply(e) \/ MobilePushApply(e)
      PROVE  SyncGoesOn(d)
  <2>1. PICK stage \in {"Push", "Reconcile"} :
           /\ pc' = [pc EXCEPT ![e] = stage] /\ UNCHANGED attempt /\ pc[e] # "Idle"
           /\ StagesLeft(stage) < StagesLeft(pc[e])
    BY <1>1, StagesInOrder DEF MobilePullApply, MobilePushApply
  <2>2. QED
    BY <2>1, MoverGoesOn
<1>2. ASSUME NEW e \in Devices, MobileGarbled(e) \/ MobileReconcile(e)
      PROVE  SyncGoesOn(d)
  BY <1>2, EngineGoneEnds DEF MobileGarbled, MobileReconcile, SyncGoesOn
<1>3. QED
  BY <1>1, <1>2, NextGoesOn, MobileNextSplits DEF MobileOwn

(* Synchronisations of both kinds are over after a bounded number of steps. *)
THEOREM MobileSyncsEnd == MobileSpec => SyncsWindDown
<1>1. Init => AttemptsCounted
  BY DEF Init, AttemptsCounted
<1>2. SyncInv /\ AttemptsCounted /\ [MobileNext]_vars => AttemptsCounted'
  BY MobileGoesOn, AttemptsStep DEF SyncInv
<1>3. SyncInv /\ AttemptsCounted /\ [MobileNext]_vars =>
        \A d \in Devices : pc[d] # "Idle" =>
          \/ WorkLeft(d)' < WorkLeft(d)
          \/ pc'[d] = pc[d] /\ attempt'[d] = attempt[d]
  <2> SUFFICES ASSUME SyncInv, AttemptsCounted, [MobileNext]_vars, NEW d \in Devices,
                      pc[d] # "Idle"
               PROVE  WorkLeft(d)' < WorkLeft(d) \/ SyncStays(d)
    BY DEF SyncStays
  <2>1. TypeOK /\ ShownIsStored
    BY DEF SyncInv
  <2>2. pc'[d] \in Stage
    BY <2>1, MobileNextIsStep DEF TypeOK
  <2>3. QED
    BY <2>1, <2>2, MobileGoesOn, GoingOnCounts
<1>4. QED
  BY <1>1, <1>2, <1>3, MobileInvariant, PTL DEF MobileSpec, SyncsWindDown

=============================================================================
