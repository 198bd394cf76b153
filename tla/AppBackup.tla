------------------------------ MODULE AppBackup ------------------------------
(***************************************************************************)
(* One AppBackup without a schedule, its controller, and the Velero        *)
(* Backups it creates in a remote cluster.  A Velero Backup is named by    *)
(* the second of the request it was made for, so that a name is a time.    *)
(***************************************************************************)
EXTENDS Naturals, FiniteSets

CONSTANTS
  Cluster,     \* the two clusters of the instance
  MaxTime      \* bound on the clock, in seconds

ASSUME BackupAssumption == MaxTime \in Nat \ {0} /\ \E c, d \in Cluster : c # d

VARIABLES
  now,         \* the clock
  ab,          \* spec and status of the AppBackup, and its place in the queue
  history,     \* status.history, by name of the backup
  velero,      \* the Velero Backups of each cluster, by name
  faults       \* how often each fault may still happen

FaultKind == {"lostWrite", "callError", "storage", "restart", "flip", "cancelRestore"}

Time == 1..MaxTime
None == 0                     \* no time, no name

Absent == {"none", "gone"}    \* never created; deleted
\* A backup that waits for plugin operations or is Finalizing runs on, but users
\* can neither cancel it nor are they kept from deleting it.
UnderWay == {"New", "InProgress"}
Running == UnderWay \cup {"Finalizing"}
Ended == {"Completed", "Failed"}

NoRecord == [phase |-> "none", managed |-> "none", start |-> None]
NoBackup == [phase |-> "none", created |-> None, start |-> None, doomed |-> FALSE]
NoAction == [type |-> "Backup", at |-> None, target |-> None]

NoAppBackup ==
  [exists |-> FALSE, cluster |-> CHOOSE c \in Cluster : TRUE, phase |-> "Pending",
   queued |-> FALSE, action |-> NoAction, last |-> None, initial |-> FALSE]

Fault(f) == faults[f] > 0 /\ faults' = [faults EXCEPT ![f] = @ - 1]

NoFault == UNCHANGED faults

\* The two writes at the end of a reconciliation: metadata, then status.  A
\* conflict or a crash loses both; the error brings the AppBackup back.
Persist(newAb, newHistory) ==
  \/ NoFault /\ ab' = newAb /\ history' = newHistory
  \/ Fault("lostWrite") /\ UNCHANGED <<ab, history>>

(***************************************************************************)
(* Helpers of the controller.                                              *)
(***************************************************************************)
Remote == velero[ab.cluster]

ListAppBackups == {n \in Time : Remote[n].phase \notin Absent}

\* The first of the list, which is sorted by creation, newest first.
latestBackup(n) ==
  /\ n \in ListAppBackups
  /\ \A m \in ListAppBackups : Remote[m].created <= Remote[n].created

\* The backup a Retry or Cancel is about: its target, or else the latest.
IsTarget(n) ==
  IF ab.action.target # None THEN n = ab.action.target
  ELSE latestBackup(n) \/ (ListAppBackups = {} /\ n = None)

getManagedStatus(phase) ==
  CASE phase \in Running -> "InProgress"
    [] phase = "Deleting" -> "Canceled"
    [] OTHER -> phase

\* A backup that exists under this name already is recorded, not made again.
CreateVeleroBackup(remote, n) ==
  IF remote[n].phase \in Absent
  THEN [remote EXCEPT ![n] = [phase |-> "New", created |-> now, start |-> now, doomed |-> FALSE]]
  ELSE remote

Recorded(remote, n) ==
  LET made == CreateVeleroBackup(remote, n)[n]
  IN [history EXCEPT ![n] = [phase |-> made.phase, managed |-> "InProgress", start |-> made.start]]

(***************************************************************************)
(* PendingHandler and FailedHandler.  A result without requeue leaves the  *)
(* AppBackup out of the queue: its own status writes do not bring it back. *)
(***************************************************************************)
handlePending ==
  /\ ab.phase = "Pending"
  /\ \/ NoFault /\ ab' = [ab EXCEPT !.phase = "Ready"]
     \/ Fault("callError") /\ ab' = [ab EXCEPT !.phase = "Failed", !.queued = FALSE]
  /\ UNCHANGED <<history, velero>>

handleFailed ==
  /\ ab.phase = "Failed"
  /\ ab' = [ab EXCEPT !.phase = "Pending", !.queued = FALSE]
  /\ UNCHANGED <<history, velero, faults>>

(***************************************************************************)
(* ReadyHandler.                                                           *)
(***************************************************************************)
ClusterUnreachable ==
  /\ Fault("callError")
  /\ ab' = [ab EXCEPT !.phase = "Pending"]
  /\ UNCHANGED <<history, velero>>

NeedsInitialBackup ==
  /\ ~ab.initial
  /\ ListAppBackups = {}
  /\ \A n \in Time : history[n] = NoRecord

InitialBackup ==
  /\ NeedsInitialBackup
  /\ \/ /\ velero' = [velero EXCEPT ![ab.cluster] = CreateVeleroBackup(@, ab.action.at)]
        /\ Persist([ab EXCEPT !.initial = TRUE], Recorded(Remote, ab.action.at))
     \/ /\ Fault("callError")
        /\ ab' = [ab EXCEPT !.phase = "Failed"]
        /\ UNCHANGED <<history, velero>>

shouldRun == ab.action.at # None /\ (ab.last = None \/ ab.action.at > ab.last)

Handled == [ab EXCEPT !.last = ab.action.at]

RunBackup ==
  /\ velero' = [velero EXCEPT ![ab.cluster] = CreateVeleroBackup(@, ab.action.at)]
  /\ Persist(Handled, Recorded(Remote, ab.action.at))

\* The target is deleted and made again under its name; when the creation
\* fails the action is not marked as handled.
RunRetry ==
  \E old \in Time \cup {None} :
    LET without == IF old \in ListAppBackups
                   THEN [Remote EXCEPT ![old] = [NoBackup EXCEPT !.phase = "gone"]]
                   ELSE Remote
        new == IF old # None THEN old ELSE ab.action.at
    IN /\ IsTarget(old)
       /\ \/ /\ velero' = [velero EXCEPT ![ab.cluster] = CreateVeleroBackup(without, new)]
             /\ Persist(Handled, Recorded(without, new))
          \/ /\ Fault("callError")
             /\ velero' = [velero EXCEPT ![ab.cluster] = without]
             /\ UNCHANGED <<ab, history>>

Cancellable(n) == n \in ListAppBackups /\ Remote[n].phase \in UnderWay

\* Mutant: the record is marked, but the Velero backup goes on.
RunCancelRecordOnly ==
  \E n \in Time \cup {None} :
    /\ IsTarget(n)
    /\ Persist(Handled, IF Cancellable(n) THEN [history EXCEPT ![n].managed = "Canceled"] ELSE history)
    /\ UNCHANGED velero

RunCancel ==
  \E n \in Time \cup {None} :
    /\ IsTarget(n)
    /\ \/ /\ Cancellable(n)
          /\ velero' = [velero EXCEPT ![ab.cluster][n] = [NoBackup EXCEPT !.phase = "gone"]]
          /\ Persist(Handled, [history EXCEPT ![n].managed = "Canceled"])
       \/ /\ ~Cancellable(n)
          /\ UNCHANGED velero
          /\ Persist(Handled, history)

\* Without a target nothing asks for another pass.  A target that is under
\* way is refused, one that has no phase yet is not; the others are left to Velero.
RunDelete ==
  LET n == ab.action.target
  IN \/ /\ n = None
        /\ Persist([Handled EXCEPT !.queued = FALSE], history)
        /\ UNCHANGED velero
     \/ /\ n # None /\ Remote[n].phase \in UnderWay
        /\ Persist(Handled, history)
        /\ UNCHANGED velero
     \/ /\ n # None /\ Remote[n].phase # "InProgress"
        /\ velero' = [velero EXCEPT ![ab.cluster][n].doomed = n \in ListAppBackups]
        /\ Persist([Handled EXCEPT !.initial = TRUE], [history EXCEPT ![n] = NoRecord])

RunAction ==
  /\ ~NeedsInitialBackup /\ shouldRun
  /\ CASE ab.action.type = "Backup" -> RunBackup
       [] ab.action.type = "Retry" -> RunRetry
       [] ab.action.type = "Cancel" -> RunCancel
       [] ab.action.type = "Delete" -> RunDelete

\* Records of backups that exceeded their timeout.
markBackupTimeoutFailed(expired) ==
  [n \in Time |->
     IF n \in expired
     THEN [phase |-> "TimeoutFailed", managed |-> "Failed",
           start |-> IF history[n].start # None THEN history[n].start ELSE Remote[n].start]
     ELSE history[n]]

\* The records merged with the backups listed at the start of the pass.
syncStatus(records) ==
  [n \in Time |->
     LET rec == records[n]
         b == Remote[n]
         keptFailed == rec.phase = "TimeoutFailed" /\ rec.managed = "Failed" /\ b.phase \in Running
     IN CASE n \in ListAppBackups /\ keptFailed -> rec
          [] n \in ListAppBackups /\ ~keptFailed ->
               [phase |-> b.phase, start |-> b.start,
                managed |-> IF rec.managed = "Canceled" THEN "Canceled" ELSE getManagedStatus(b.phase)]
          [] n \notin ListAppBackups ->
               IF rec.managed \in {"Canceled", "Failed"} THEN rec ELSE NoRecord]

\* A pass without an action: backups past their timeout are terminated, which
\* may fail, and marked; then the history follows what was listed.
Observe(expired, terminated) ==
  /\ ~NeedsInitialBackup /\ ~shouldRun
  /\ terminated \subseteq expired
  /\ expired \subseteq {n \in ListAppBackups : Remote[n].phase \in Running}
  /\ velero' = [velero EXCEPT ![ab.cluster] =
                  [n \in Time |-> IF n \in terminated
                                  THEN [NoBackup EXCEPT !.phase = "gone"] ELSE @[n]]]
  /\ LET records == syncStatus(markBackupTimeoutFailed(expired))
         seen == ListAppBackups # {} \/ \E n \in Time : records[n] # NoRecord
     IN Persist([ab EXCEPT !.initial = @ \/ seen], records)

ObserveOnly == Observe({}, {})

\* Each running backup has a start, so that its timeout comes.
TimeoutBackups ==
  \E late \in SUBSET {n \in ListAppBackups : Remote[n].phase \in Running} :
    /\ late # {}
    /\ \/ Observe(late, late)
       \/ /\ faults["callError"] > 0
          /\ \E terminated \in SUBSET late : Observe(late, terminated)

handleReady ==
  /\ ab.phase = "Ready"
  /\ \/ ClusterUnreachable
     \/ InitialBackup
     \/ RunAction
     \/ ObserveOnly
     \/ TimeoutBackups

ReconcileAppBackup ==
  /\ ab.exists /\ ab.queued
  /\ handlePending \/ handleFailed \/ handleReady
  /\ UNCHANGED now

(***************************************************************************)
(* Velero, from what the controller sees of it (external).                 *)
(***************************************************************************)
VeleroStep ==
  /\ \E c \in Cluster, n \in Time :
       LET b == velero[c][n]
       IN velero' \in
            {[velero EXCEPT ![c][n] = x] : x \in
               (IF b.phase = "New" THEN {[b EXCEPT !.phase = "InProgress", !.start = now],
                                         [b EXCEPT !.phase = "Failed"]} ELSE {})
               \cup (IF b.phase = "InProgress" THEN {[b EXCEPT !.phase = "Finalizing"]} ELSE {})
               \cup (IF b.phase \in {"InProgress", "Finalizing"} THEN {[b EXCEPT !.phase = p] : p \in Ended} ELSE {})
               \cup (IF b.phase \in Ended \cup {"New"} /\ b.doomed THEN {[b EXCEPT !.phase = "Deleting"]} ELSE {})
               \cup (IF b.phase = "Deleting" THEN {[NoBackup EXCEPT !.phase = "gone"]} ELSE {})}
  /\ UNCHANGED <<now, ab, history, faults>>
=============================================================================
