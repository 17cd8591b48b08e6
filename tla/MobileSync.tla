------------------------------ MODULE MobileSync ------------------------------
(* The mobile core beside the desktop: an engine over a TodoStore in memory *)
(* that talks to the same server.  It differs from the desktop's engine in  *)
(*   - the cursor: every attempt of a synchronisation starts from the       *)
(*     stored one, and serverTime is kept aside until the end;              *)
(*   - an answer that does not parse, which ends the synchronisation;       *)
(*   - the store, whose writes do not fail and which does not survive.      *)
(* There is no list model yet: who edits reads the store, so view is always *)
(* what the store lists.                                                   *)
EXTENDS TodoSync

CONSTANT Mobiles    \* the devices that run the mobile core

ASSUME MobilesAssumption == Mobiles \subseteq Devices

MobileStore(d, ids) ==
    /\ repo' = [repo EXCEPT ![d] = Written(d, ids)]
    /\ view' = [view EXCEPT ![d] = ListAll(repo'[d])]

(* Slip: a retry goes on from the time of the pull. *)
MobilePullMovesCursor(d) ==
    /\ pc[d] = "Pulled"
    /\ pc' = [pc EXCEPT ![d] = "Push"]
    /\ meta' = [meta EXCEPT ![d] = serverTime[d]]
    /\ answer' = [answer EXCEPT ![d] = Nothing]
    /\ UNCHANGED <<now, serverVars, repo, view, lastEdit, edits, attempt, cursor,
                   request, serverTime, faults>>

(* The items of a pull: new ones and newer ones are stored. *)
MobilePullApply(d) ==
    /\ pc[d] = "Pulled"
    /\ pc' = [pc EXCEPT ![d] = "Push"]
    /\ MobileStore(d, PullWrites(d))
    /\ answer' = [answer EXCEPT ![d] = Nothing]
    /\ UNCHANGED <<now, serverVars, meta, lastEdit, edits, attempt, cursor, request,
                   serverTime, faults>>

(* The results of a push: accepted or in conflict, the server's row it is. *)
MobilePushApply(d) ==
    /\ pc[d] = "Pushed"
    /\ pc' = [pc EXCEPT ![d] = "Reconcile"]
    /\ MobileStore(d, PushWrites(d))
    /\ request' = [request EXCEPT ![d] = Nothing]
    /\ answer' = [answer EXCEPT ![d] = Nothing]
    /\ UNCHANGED <<now, serverVars, meta, lastEdit, edits, attempt, cursor,
                   serverTime, faults>>

(* Slip: the dirty marks go when the answer is there, readable or not. *)
MobileGarbledCleans(d) ==
    /\ pc[d] \in {"Pulled", "Pushed"}
    /\ faults < MaxFaults /\ faults' = faults + 1
    /\ repo' = [repo EXCEPT ![d] =
         [id \in Ids |-> IF repo[d][id] = NoRow THEN NoRow
                         ELSE [repo[d][id] EXCEPT !.dirty = FALSE]]]
    /\ view' = [view EXCEPT ![d] = ListAll(repo'[d])]
    /\ EngineGone(d)
    /\ UNCHANGED <<now, serverVars, meta, lastEdit, edits>>

(* A 2xx answer whose body does not parse, of a pull or of a push, is the   *)
(* end of the synchronisation: FAILED is not tried again.                  *)
MobileGarbled(d) ==
    /\ pc[d] \in {"Pulled", "Pushed"}
    /\ faults < MaxFaults /\ faults' = faults + 1
    /\ EngineGone(d)
    /\ UNCHANGED <<now, serverVars, deviceVars>>

(* setMeta("sync_cursor", pull.serverTime), and the report is ok. *)
MobileReconcile(d) ==
    /\ pc[d] = "Reconcile"
    /\ meta' = [meta EXCEPT ![d] = serverTime[d]]
    /\ EngineGone(d)
    /\ UNCHANGED <<now, serverVars, repo, view, lastEdit, edits, faults>>

MobileStep(d) ==
    \/ PullQuery(d) \/ PullStamp(d) \/ MobilePullApply(d)
    \/ PushSend(d) \/ PushServe(d) \/ MobilePushApply(d)
    \/ MobileGarbled(d) \/ MobileReconcile(d) \/ Retry(d) \/ Fail(d)

EngineStep(d) == IF d \in Mobiles THEN MobileStep(d) ELSE WorkerStep(d)

MobileNext ==
    \/ Tick
    \/ \E d \in Devices : UserStep(d) \/ EngineStep(d)
    \/ \E d \in Devices \ Mobiles, done \in SUBSET Ids : Crash(d, done)
    \/ \E z \in zombies : ServeZombie(z)

MobileSpec == Init /\ [][MobileNext]_vars /\ \A d \in Devices : WF_vars(EngineStep(d))

(* Both kinds of engines converge ("同一规则", MergePolicy.kt:3), although    *)
(* they treat retries and broken answers differently.                      *)
EnginesConverge ==
    (\A d \in Devices :
       []<><<IF d \in Mobiles THEN MobileReconcile(d) ELSE Reconcile(d)>>_vars)
      => <>[]Converged

=============================================================================
