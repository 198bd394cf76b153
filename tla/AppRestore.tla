----------------------------- MODULE AppRestore -----------------------------
(***************************************************************************)
(* An AppRestore, the Velero Restore it drives on the target cluster, and  *)
(* the user who retries, cancels or deletes it.                            *)
(*                                                                         *)
(* The controller polls: it does not watch Velero.  Every wait of the code *)
(* (grace periods, timeouts) is a choice a pass makes: the time is over or *)
(* it is not, and a pass that only waits changes nothing.                  *)
(*                                                                         *)
(* Status and metadata of the object are written separately, and not both  *)
(* in every pass (Persist): what a handler computes is not what is stored. *)
(***************************************************************************)
EXTENDS Integers

CONSTANTS
  Lifecycles,    \* subset of BOOLEAN: TRUE is a DataSync trafficless restore
  RetryLimit,    \* automatic retries per kind of stall
  Faults,        \* which faults may happen
  MaxFaults,     \* bound on faults
  MaxEdits       \* bound on requests of the user

FaultKinds == {"lostWrite", "client", "call", "stall", "restart", "vanish", "noCluster"}
Stalls == {"progress", "startup", "missing", "empty"}
Actions == {"retry", "cancel"}

ASSUME RestoreAssumption ==
  /\ Lifecycles \subseteq BOOLEAN
  /\ RetryLimit \in Nat /\ MaxFaults \in Nat /\ MaxEdits \in Nat
  /\ Faults \subseteq FaultKinds

VARIABLES
  ar,           \* status of the AppRestore
  meta,         \* its labels and annotations, and the finalizer
  request,      \* spec.action, and the deletion timestamp
  v,            \* the Velero Restore res-<name>
  trafficless,  \* the label of a DataSync trafficless restore
  faults,       \* faults that may still happen
  wanted        \* the restore is to run: nothing ended it since it was asked for (history)

vars == <<ar, meta, request, v, trafficless, faults, wanted>>

Failures == {"Failed", "PartiallyFailed"}
Ended == Failures \cup {"Succeeded", "Cancelled"}

\* What Velero reports.  "Full" is InProgress with all items restored, "Hung" is
\* the same for longer than the grace and with no PodVolumeRestore active,
\* "Warned" is Completed with warnings or errors, "Starting" is Failed with the
\* reason of a Velero server that started over while the restore ran.
Running == {"InProgress", "Full", "Hung"}
Finished == {"Completed", "Warned", "PartiallyFailed", "Failed", "Starting"}

NoVelero == [state |-> "none", deleting |-> FALSE]

\* status.restoreStatus copies it; only its phase matters here, which is empty
\* until Velero takes the restore up.
View ==
  CASE v.state = "New" -> "none"
    [] v.state \in Running -> "InProgress"
    [] v.state = "Warned" -> "Completed"
    [] v.state = "Starting" -> "Failed"
    [] OTHER -> v.state

Init ==
  /\ ar = [phase |-> "New", mirrored |-> "none", last |-> 0, reason |-> FALSE]
  /\ meta = [finalizer |-> FALSE, missing |-> FALSE, observed |-> FALSE,
             count |-> [k \in Stalls |-> 0], term |-> "none"]
  /\ request = [type |-> "none", at |-> 0, delete |-> FALSE]
  /\ v = NoVelero
  /\ trafficless \in Lifecycles
  /\ faults = MaxFaults
  /\ wanted = TRUE

(***************************************************************************)
(* The writes that end a pass.                                             *)
(***************************************************************************)

Fault(f) == f \in Faults /\ faults > 0 /\ faults' = faults - 1

\* The API server answers a metadata write with the stored object, and the
\* client decodes the answer into the object at hand: what the stored status
\* has replaces what the handler computed, and only the rest is kept.
Refreshed(s) ==
  [phase |-> IF ar.phase = "New" THEN s.phase ELSE ar.phase,
   mirrored |-> IF ar.mirrored = "none" THEN s.mirrored ELSE ar.mirrored,
   last |-> IF ar.last = 0 THEN s.last ELSE ar.last,
   reason |-> ar.reason \/ s.reason]

\* A changed status is written alone, and the metadata of the pass is lost;
\* a trafficless restore writes its metadata first.
Stored(s, m) ==
  IF s = ar THEN ar' = ar /\ meta' = m
  ELSE IF trafficless /\ m # meta THEN ar' = Refreshed(s) /\ meta' = m
  ELSE ar' = s /\ meta' = meta

Persist(s, m) ==
  \/ Stored(s, m) /\ UNCHANGED faults
  \/ UNCHANGED <<ar, meta>> /\ Fault("lostWrite")
  \/ /\ trafficless /\ s # ar /\ m # meta
     /\ UNCHANGED ar /\ meta' = m /\ Fault("lostWrite")

\* The status after a pass without an error, and after one with an error.
Calm(s) == IF s.phase \in Failures THEN s ELSE [s EXCEPT !.reason = FALSE]
Upset(s) == [s EXCEPT !.reason = TRUE]

To(phase) == [ar EXCEPT !.phase = phase]
Fail == Upset(To("Failed"))
Wait(m) == Persist(Calm(ar), m)

(***************************************************************************)
(* Calls to the target cluster.                                            *)
(***************************************************************************)

\* A Velero Restore that was taken up may have a finalizer, and stays a while.
Deleted ==
  IF v.state = "none" \/ v.deleting THEN {v}
  ELSE {NoVelero} \cup (IF v.state = "New" THEN {} ELSE {[v EXCEPT !.deleting = TRUE]})

\* forceTerminateRestore strips the finalizers of a restore that hangs in its deletion.
ForceTerminated == IF v.deleting THEN {NoVelero} ELSE Deleted

(***************************************************************************)
(* Pending: finalizer, checks, and the wait for the backup to be synced.   *)
(***************************************************************************)

Tracked == [meta EXCEPT !.missing = FALSE]
Cleared == [meta EXCEPT !.missing = FALSE, !.observed = FALSE]

\* An invalid spec, an unfit Velero, or no backup after five minutes; no client,
\* or the storage location cannot be applied.
checkFails ==
  \/ Persist(Fail, meta)
  \/ Stored(Upset(To("Pending")), meta) /\ Fault("client")

\* The backup is there, and what is to be restored has been worked out.
backupFound == Persist(Calm(To("Restoring")), meta)

PendingHandler ==
  /\ ar.phase \in {"New", "Pending"} /\ ~request.delete
  /\ \/ ~meta.finalizer /\ Persist(Calm(To("Pending")), [meta EXCEPT !.finalizer = TRUE])
     \/ meta.finalizer /\ (checkFails \/ backupFound)
  /\ UNCHANGED <<v, request, trafficless>>

(***************************************************************************)
(* Restoring.                                                              *)
(***************************************************************************)

Restoring == ar.phase = "Restoring" /\ ~request.delete
Terminating == trafficless /\ meta.term # "none"
Found == Restoring /\ ~Terminating /\ v.state # "none"
NotFound == Restoring /\ ~Terminating /\ v.state = "none"

\* Every handler but the one of Succeeded starts with a client for the cluster.
NoClient ==
  /\ ar.phase \in {"Restoring", "Cancelled"} \cup Failures /\ ~request.delete
  /\ Stored(Upset(To("Pending")), meta) /\ Fault("client")
  /\ UNCHANGED <<v, request, trafficless>>

\* beginDataSyncTrafficlessTermination: the request is noted and the deletion
\* asked for; what follows waits until the Velero Restore is gone.
Begin(s, m, outcome) ==
  LET noted == IF meta.term = "none" THEN [m EXCEPT !.term = outcome] ELSE m IN
  \/ v' \in Deleted /\ Persist(Calm(s), noted)
  \/ UNCHANGED v /\ Stored(Upset(s), noted) /\ Fault("call")

reconcileDataSyncTrafficlessTermination ==
  /\ Restoring /\ Terminating
  /\ LET done == [meta EXCEPT !.term = "none"] IN
       \/ /\ v.state = "none" /\ meta.term = "fail"
          /\ UNCHANGED v /\ Persist(Fail, done)
       \/ /\ v.state = "none" /\ meta.term = "retry"
          /\ UNCHANGED v
          /\ Persist(Calm([ar EXCEPT !.mirrored = "none"]), [Cleared EXCEPT !.term = "none"])
       \/ /\ v.state # "none"
          /\ \/ UNCHANGED v /\ Persist(Fail, done)      \* it took too long
             \/ v' \in Deleted /\ Wait(meta)
  /\ UNCHANGED <<request, trafficless>>

\* Mutant: a restore that does not start is retried without counting.
AutoRetryUncounted(k, m) ==
  /\ ~trafficless
  /\ v' \in Deleted
  /\ Persist(Calm([ar EXCEPT !.mirrored = "none"]), [m EXCEPT !.missing = FALSE, !.observed = FALSE])

\* The counts are labels, one for each kind of stall.
Retryable(k) == meta.count[k] < RetryLimit
Counted(k, m) == [m EXCEPT !.count[k] = @ + 1]

\* autoRetryOrFailStalledRestore: delete the Velero Restore and count, or give up.
AutoRetry(k, m) ==
  LET counted == Counted(k, m)
      again == Retryable(k) IN
  \/ trafficless /\ again /\ Begin(ar, counted, "retry")
  \/ trafficless /\ ~again /\ Begin(ar, m, "fail")
  \/ /\ ~trafficless /\ again
     /\ \/ /\ v' \in Deleted
           /\ Persist(Calm([ar EXCEPT !.mirrored = "none"]),
                      [counted EXCEPT !.missing = FALSE, !.observed = FALSE])
        \/ v.state # "none" /\ UNCHANGED v /\ Stored(Fail, m) /\ Fault("call")
  \/ /\ ~trafficless /\ ~again
     /\ \/ v' \in ForceTerminated /\ Persist(Fail, m)
        \/ v.state # "none" /\ UNCHANGED v /\ Stored(Fail, m) /\ Fault("call")

\* Nothing of the Velero Restore was observed yet.
shouldCreateRestoreImmediately == ar.mirrored = "none" /\ ~meta.observed

\* handleRestoreNotFound: it is to be created ...
createVeleroRestore ==
  /\ NotFound /\ shouldCreateRestoreImmediately
  /\ \/ v' = [state |-> "New", deleting |-> FALSE] /\ Wait(Cleared)
     \/ UNCHANGED v /\ Stored(Fail, Cleared) /\ Fault("call")
  /\ UNCHANGED <<request, trafficless>>

\* ... or it has disappeared.
restoreMissing ==
  /\ NotFound /\ ~shouldCreateRestoreImmediately
  /\ \/ ~meta.missing /\ UNCHANGED v /\ Wait([meta EXCEPT !.missing = TRUE])
     \/ meta.missing /\ UNCHANGED v /\ Wait(meta)
     \/ meta.missing /\ AutoRetry("missing", meta)
  /\ UNCHANGED <<request, trafficless>>

\* The Velero Restore cannot be read, which a Cancelled one does not survive either.
GetFailed ==
  /\ (Restoring /\ ~Terminating) \/ (ar.phase = "Cancelled" /\ ~request.delete)
  /\ Stored(Fail, meta) /\ Fault("call")
  /\ UNCHANGED <<v, request, trafficless>>

\* Mutant: a request is handled whenever it is there.
AskedAgain == request.at > 0 /\ ~request.delete

\* processAction: a request newer than the last one that was handled.
Asked == request.at > ar.last /\ ~request.delete

Unasked == Found /\ ~Asked

Seen == [ar EXCEPT !.mirrored = View]

\* When a pod or a PodVolumeRestore may be found to have failed or hang, ...
detectPodVolumeRestoreIssue == v.state \in Running
detectDataSyncTrafficlessPodIssue == trafficless /\ v.state \in Running

\* ... and when the time for the restore may be over: for a hanging one the
\* retries come first.
TimeoutExceeded == v.state \in {"New", "InProgress", "Full"}

\* The status is copied before the timeout is looked at.  An error of the
\* deletion is only logged.
giveUp ==
  /\ Unasked
  /\ LET m == [Tracked EXCEPT !.observed = @ \/ v.state = "New"] IN
       \E s \in {ar, Seen} :
         /\ \/ s = ar /\ (detectPodVolumeRestoreIssue \/ detectDataSyncTrafficlessPodIssue)
            \/ s.mirrored = View /\ TimeoutExceeded
         /\ \/ trafficless /\ Begin(s, m, "fail")
            \/ /\ ~trafficless
               /\ \/ v' \in ForceTerminated /\ Persist(Upset([s EXCEPT !.phase = "Failed"]), m)
                  \/ UNCHANGED v /\ Stored(Upset([s EXCEPT !.phase = "Failed"]), m) /\ Fault("call")
  /\ UNCHANGED <<request, trafficless>>

\* The stalls that handleRestoreStall tells apart.
isRestoreProgressCompletedButInProgress == v.state = "Hung"
isRestoreStartupStalled == v.state = "New"
isServerStartingTransientFailure == v.state = "Starting"
isRestoreEmptyStatusStalled == v.state = "New" /\ meta.observed

handleRestoreStall ==
  /\ Unasked
  /\ \/ isRestoreProgressCompletedButInProgress /\ AutoRetry("progress", Tracked)
     \/ isRestoreStartupStalled /\ AutoRetry("startup", Tracked)
     \/ isServerStartingTransientFailure /\ AutoRetry("startup", Tracked)
     \/ isRestoreEmptyStatusStalled /\ AutoRetry("empty", Tracked)
  /\ UNCHANGED <<request, trafficless>>

\* The resource modifiers took effect; or they did not, or it cannot be found out.
verifyStorageClassRuleEffects == BOOLEAN

\* The Velero Restore is copied and looked at again later ...
Poll ==
  /\ Unasked /\ v.state \notin Finished \cup {"Hung"}
  /\ Persist(Calm(Seen), [Tracked EXCEPT !.observed = @ \/ v.state = "New"])
  /\ UNCHANGED <<v, request, trafficless>>

\* ... or, when it ended, judged.
Verdict ==
  /\ Unasked
  /\ LET judged(phase) == [Seen EXCEPT !.phase = phase] IN
       \/ /\ v.state \in {"Completed", "Warned"} /\ UNCHANGED v
          /\ \E effective \in verifyStorageClassRuleEffects :
               Persist(CASE ~effective -> Upset(judged("Failed"))
                         [] effective /\ v.state = "Warned" -> Upset(judged("PartiallyFailed"))
                         [] OTHER -> Calm(judged("Succeeded")), Tracked)
       \/ /\ v.state \in Failures /\ ~trafficless
          /\ UNCHANGED v /\ Persist(Upset(judged(v.state)), Tracked)
       \/ v.state \in Failures /\ trafficless /\ Begin(Seen, Tracked, "fail")
  /\ UNCHANGED <<request, trafficless>>

(***************************************************************************)
(* Requests of the user, and what the ended phases do.                     *)
(***************************************************************************)

\* The phases whose handler looks at spec.action.  While it restores it does so
\* only when the Velero Restore is there.
Listens == Found \/ ar.phase \in Failures \cup {"Cancelled"}

\* A Failed restore first terminates a Velero Restore that still runs.
Zombie == ar.phase = "Failed" /\ v.state \in Running

Handled(s) == [s EXCEPT !.last = request.at]

\* Mutant: an error of the deletion does not stop the cancel.
cancelAnyhow ==
  /\ Asked /\ Listens /\ request.type = "cancel" /\ v.state # "none"
  /\ LET m == IF ar.phase = "Restoring" THEN Tracked ELSE meta IN
       \/ v' \in ForceTerminated /\ Persist(Calm([Handled(To("Cancelled")) EXCEPT !.mirrored = "none"]), m)
       \/ /\ UNCHANGED v /\ Fault("call")
          /\ Stored(Calm([Handled(To("Cancelled")) EXCEPT !.mirrored = "none"]), m)
  /\ UNCHANGED <<request, trafficless>>

\* Without a Velero Restore the pass of a Failed or Cancelled one panics, which
\* changes nothing; the one of PartiallyFailed deletes an object without a name.
cancel ==
  /\ Asked /\ Listens /\ request.type = "cancel"
  /\ LET m == IF ar.phase = "Restoring" THEN Tracked ELSE meta IN
       \/ /\ v.state # "none" /\ v' \in ForceTerminated
          /\ Persist(Calm([Handled(To("Cancelled")) EXCEPT !.mirrored = "none"]), m)
       \/ v.state # "none" /\ UNCHANGED v /\ Stored(Handled(Fail), m) /\ Fault("call")
       \/ /\ v.state = "none" /\ ar.phase = "PartiallyFailed"
          /\ UNCHANGED v /\ Persist(Handled(Fail), m)
  /\ UNCHANGED <<request, trafficless>>

\* Only a restore whose Velero status was copied is deleted first, and without a
\* Velero Restore to delete that is an error.
retry ==
  /\ Asked /\ Listens /\ request.type = "retry"
  /\ LET m == IF ar.phase = "Restoring" THEN Tracked ELSE meta IN
       \/ trafficless /\ ~Zombie /\ Begin(Handled(To("Restoring")), m, "retry")
       \/ /\ trafficless /\ Zombie /\ v' \in ForceTerminated
          /\ Persist(Calm(Handled(To("Restoring"))),
                     IF m.term = "none" THEN [m EXCEPT !.term = "retry"] ELSE m)
       \/ /\ ~trafficless /\ ar.mirrored # "none" /\ v.state # "none"
          /\ v' \in IF Zombie THEN ForceTerminated ELSE Deleted
          /\ IF Zombie /\ v'.state = "none" THEN Persist(Handled(Fail), m)
             ELSE Persist(Calm([Handled(To("Pending")) EXCEPT !.mirrored = "none"]), m)
       \/ /\ ~trafficless /\ ar.mirrored # "none"
          /\ \/ v.state = "none" /\ UNCHANGED v /\ Persist(Handled(Fail), m)
             \/ v.state # "none" /\ UNCHANGED v /\ Stored(Handled(Fail), m) /\ Fault("call")
       \/ /\ ~trafficless /\ ar.mirrored = "none"
          /\ v' \in IF Zombie THEN ForceTerminated ELSE {v}
          /\ Persist(Calm(Handled(To("Pending"))), m)
  /\ UNCHANGED <<request, trafficless>>

FailedHandler ==
  /\ Zombie /\ ~Asked /\ ~request.delete
  /\ v' \in ForceTerminated
  /\ UNCHANGED <<ar, meta, request, trafficless, faults>>

\* Mutant: the finalizer goes although the deletion on the cluster failed.
DeletingHandlerHasty ==
  /\ request.delete /\ ar.phase \notin {"Gone", "Orphaned"} /\ meta.finalizer
  /\ \/ v' \in Deleted /\ UNCHANGED faults
     \/ UNCHANGED v /\ Fault("call")
  /\ ar' = To("Gone") /\ UNCHANGED <<meta, request, trafficless>>

DeletingHandler ==
  /\ request.delete /\ ar.phase \notin {"Gone", "Orphaned"}
  /\ \/ ~meta.finalizer /\ UNCHANGED <<v, faults>> /\ ar' = To("Gone")
     \/ meta.finalizer /\ v' \in Deleted /\ UNCHANGED faults /\ ar' = To("Gone")
     \/ meta.finalizer /\ UNCHANGED v /\ ar' = To("Orphaned") /\ Fault("noCluster")
  /\ UNCHANGED <<meta, request, trafficless>>

Reconcile ==
  /\ ar.phase \notin {"Gone", "Orphaned"}
  /\ \/ PendingHandler \/ NoClient \/ reconcileDataSyncTrafficlessTermination
     \/ createVeleroRestore \/ restoreMissing \/ GetFailed
     \/ giveUp \/ handleRestoreStall \/ Poll \/ Verdict
     \/ cancel \/ retry \/ FailedHandler \/ DeletingHandler
  \* history: an end is final until the user asks, or the cluster cannot be reached
  /\ wanted' = CASE ar'.phase \in Ended /\ ar.phase \notin Ended
                      -> request.type = "retry" /\ request.at > ar'.last
                 [] ar.phase \in Ended /\ ar'.phase \in {"Pending", "Restoring"} /\ faults' < faults -> TRUE
                 [] OTHER -> wanted

(***************************************************************************)
(* The user and Velero.                                                    *)
(***************************************************************************)

Request ==
  /\ request.at < MaxEdits /\ ~request.delete /\ ar.phase \notin {"Gone", "Orphaned"}
  /\ \/ \E a \in Actions :
          /\ request' = [request EXCEPT !.type = a, !.at = @ + 1]
          /\ wanted' = (wanted \/ a = "retry")
     \/ request' = [request EXCEPT !.delete = TRUE] /\ UNCHANGED wanted
  /\ UNCHANGED <<ar, meta, v, trafficless, faults>>

Velero ==
  /\ \/ /\ v.state = "New" /\ ~v.deleting
        /\ v' = [v EXCEPT !.state = "InProgress"] /\ UNCHANGED faults
     \/ /\ v.state = "InProgress"
        /\ v' = [v EXCEPT !.state = "Full"] /\ UNCHANGED faults
     \/ /\ v.state \in Running
        /\ \E e \in Finished \ {"Starting"} :
             /\ e = "Completed" => v.state # "InProgress"
             /\ v' = [v EXCEPT !.state = e]
        /\ UNCHANGED faults
     \/ v.state = "Full" /\ v' = [v EXCEPT !.state = "Hung"] /\ Fault("stall")
     \/ v.state \in Running /\ v' = [v EXCEPT !.state = "Starting"] /\ Fault("restart")
     \/ v.deleting /\ v' = NoVelero /\ UNCHANGED faults
     \/ v.state # "none" /\ v' = NoVelero /\ Fault("vanish")
  /\ UNCHANGED <<ar, meta, request, trafficless, wanted>>

Next == Reconcile \/ Request \/ Velero

Spec == Init /\ [][Next]_vars

\* The controller polls a restore that did not end and is resynchronised
\* otherwise; Velero is not assumed to make progress, except that it releases a
\* restore that is being deleted.
FairSpec == Spec /\ WF_vars(Reconcile) /\ WF_vars(Velero /\ v.deleting /\ v' = NoVelero)

(***************************************************************************)
(* Properties.                                                             *)
(***************************************************************************)

Created == v.state = "none" /\ v'.state = "New"

\* After a restore has ended, no Velero Restore is created for it until the user
\* asks for a retry that was not answered yet (Reconcile: ended phases are left
\* alone), or the cluster could not be reached, which sends it back to Pending.
RerunOnlyOnRequest == [][Created => wanted]_vars

\* A cancelled restore has no Velero Restore at work: forceTerminateRestore came
\* before the phase was written.
CancelledMeansStopped == ar.phase = "Cancelled" => v.state \notin Running \cup {"New"} \/ v.deleting

\* Removing the finalizer leaves no Velero Restore behind, unless the Cluster is
\* gone (DeletingHandler): the finalizer was stored before one was created.
DeletedMeansCleaned == ar.phase = "Gone" => v.state = "none" \/ v.deleting

\* Every restore that is not trafficless ends, even if Velero never starts or
\* never ends one: timeouts, the missing restore and the retries see to it.
RestoreEnds ==
  (ar.phase \in {"Pending", "Restoring"} /\ ~trafficless) ~> ar.phase \in Ended \cup {"Gone", "Orphaned"}

\* A trafficless restore whose termination is confirmed after a failure is
\* Failed, if no write is lost (design: only then the final Failed is written).
ConfirmedMeansFailed ==
  [][meta.term = "fail" /\ meta'.term = "none" /\ faults' = faults => ar'.phase \in {"Failed", "Gone"}]_vars
=============================================================================
