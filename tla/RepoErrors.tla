------------------------------ MODULE RepoErrors ------------------------------
(* TodoSync with a repository that SQLite may refuse to read or to edit     *)
(* (it is busy, the disk fails): SqliteRepository answers a refused query   *)
(* with what it has read so far, or with nothing, and nobody tells that     *)
(* from an empty answer.  Refused writes of answers are part of TodoSync.   *)
EXTENDS TodoSync

(* getMeta finds no cursor: the synchronisation pulls from the epoch. *)
StartSyncUnread(d) ==
    /\ pc[d] = "Idle" /\ meta[d] # Epoch
    /\ faults < MaxFaults /\ faults' = faults + 1
    /\ pc' = [pc EXCEPT ![d] = "Pull"]
    /\ attempt' = [attempt EXCEPT ![d] = 1]
    /\ cursor' = [cursor EXCEPT ![d] = Epoch]
    /\ UNCHANGED <<now, serverVars, deviceVars, request, answer, serverTime>>

(* Rows of an answer that applyPullItems would leave alone. *)
PullSpares(d) ==
    {id \in Ids : answer[d][id] # NoRow /\ repo[d][id] # NoRow} \ PullWrites(d)

(* findById does not find the rows "unread", and add, an INSERT OR REPLACE, *)
(* puts the server's in their place; writes of "failed" are refused too.  A *)
(* device that has lost an edit this way is behind: an abandoned push of    *)
(* the edit may still reach the server.                                     *)
PullApplyUnread(d, unread, failed) ==
    /\ pc[d] = "Pulled"
    /\ unread # {} /\ unread \subseteq PullSpares(d)
    /\ failed \subseteq PullWrites(d)
    /\ faults' = faults + Cardinality(unread) + Cardinality(failed)
    /\ faults' <= MaxFaults
    /\ pc' = [pc EXCEPT ![d] = "Push"]
    /\ cursor' = [cursor EXCEPT ![d] = serverTime[d]]
    /\ repo' = [repo EXCEPT ![d] = Written(d, (PullWrites(d) \cup unread) \ failed)]
    /\ behind' = behind \cup ({d} \X (failed \cup (unread \cap ListDirty(repo[d]))))
    /\ answer' = [answer EXCEPT ![d] = Nothing]
    /\ serverTime' = [serverTime EXCEPT ![d] = Epoch]
    /\ UNCHANGED <<now, todos, zombies, meta, view, lastEdit, edits, attempt, request>>

(* Slip: what listDirty did not read is taken for clean. *)
PushSendUnreadCleans(d, read) ==
    /\ pc[d] = "Push"
    /\ faults < MaxFaults /\ faults' = faults + 1
    /\ read \subseteq ListDirty(repo[d]) /\ read # ListDirty(repo[d])
    /\ pc' = [pc EXCEPT ![d] = "Reconcile"]
    /\ repo' = [repo EXCEPT ![d] =
         [id \in Ids |-> IF id \in ListDirty(repo[d]) THEN [repo[d][id] EXCEPT !.dirty = FALSE]
                         ELSE repo[d][id]]]
    /\ UNCHANGED <<now, serverVars, meta, view, lastEdit, edits, attempt, cursor,
                   request, answer, serverTime>>

(* listDirty, in the order of the stamps, ends after "read". *)
PushSendUnread(d, read) ==
    /\ pc[d] = "Push"
    /\ faults < MaxFaults /\ faults' = faults + 1
    /\ read \subseteq ListDirty(repo[d]) /\ read # ListDirty(repo[d])
    /\ \A i \in read, j \in ListDirty(repo[d]) \ read :
         repo[d][i].updatedAt <= repo[d][j].updatedAt
    /\ pc' = [pc EXCEPT ![d] = IF read = {} THEN "Reconcile" ELSE "Posted"]
    /\ request' = [request EXCEPT ![d] =
         [id \in Ids |-> IF id \in read THEN ItemToWire(repo[d][id]) ELSE NoRow]]
    /\ UNCHANGED <<now, serverVars, deviceVars, attempt, cursor, answer, serverTime>>

(* setMeta may work where the list model's reload does not: the list ends   *)
(* after "shown".                                                          *)
ReconcileUnread(d, shown) ==
    /\ pc[d] = "Reconcile"
    /\ faults < MaxFaults /\ faults' = faults + 1
    /\ meta' = [meta EXCEPT ![d] = cursor[d]]
    /\ view' = [view EXCEPT ![d] =
         [id \in Ids |-> IF id \in shown THEN ListAll(repo[d])[id] ELSE NoRow]]
    /\ EngineGone(d)
    /\ UNCHANGED <<now, serverVars, repo, lastEdit, edits>>

(* add, update or remove of the user is refused; the list is reloaded. *)
EditRefused(d) ==
    /\ pc[d] = "Idle"
    /\ faults < MaxFaults /\ faults' = faults + 1
    /\ view' = [view EXCEPT ![d] = ListAll(repo[d])]
    /\ UNCHANGED <<now, serverVars, repo, meta, lastEdit, edits, engineVars>>

ErrorStep(d) ==
    \/ StartSyncUnread(d)
    \/ \E unread, failed \in SUBSET Ids : PullApplyUnread(d, unread, failed)
    \/ \E read \in SUBSET Ids : PushSendUnread(d, read)
    \/ \E shown \in SUBSET Ids : ReconcileUnread(d, shown)
    \/ EditRefused(d)

ErrorNext == Next \/ \E d \in Devices : ErrorStep(d)

ErrorSpec == Init /\ [][ErrorNext]_vars

(* UnpushedEditSurvives holds of every refused statement but one: a pull    *)
(* that cannot read a row which waits for its push puts the server's row in *)
(* its place and takes the mark away, and the edit is gone.  Nothing else - *)
(* no cursor that was not read, no push of some of the dirty rows, no list  *)
(* that shows less - costs an edit.                                        *)
OnlyRefusedReadsLoseEdits ==
    [][\A d \in Devices, id \in Ids :
         repo[d][id] # NoRow /\ repo[d][id].dirty
           => /\ repo'[d][id] # NoRow
              /\ \/ repo'[d][id].dirty /\ repo'[d][id].updatedAt >= repo[d][id].updatedAt
                 \/ /\ todos[id] # NoRow /\ todos[id].updatedAt >= repo[d][id].updatedAt
                    /\ repo'[d][id].updatedAt >= repo[d][id].updatedAt
                 \/ /\ pc[d] = "Pulled" /\ faults' > faults
                    /\ repo'[d][id] = ItemFromWire(answer[d][id])]_vars

=============================================================================
