---------------------------- MODULE DrillSystem ----------------------------
(***************************************************************************)
(* A DisasterDrill, the drill and cleanup operations it asks for, and the  *)
(* AppRestores those create, while users edit the drill and the roles of   *)
(* its instance change underneath.                                         *)
(*                                                                         *)
(* A drill is of an instance or of a group.  The group has one member, and *)
(* the group operation and its child (GroupSystem) are one operation here. *)
(***************************************************************************)
EXTENDS Integers, Sequences, FiniteSets

CONSTANTS
  Source, Standby,   \* the two clusters of the instance
  Requests,      \* what users submit: a set of records [kind, target, mapped]
  Faults,        \* which faults may happen
  MaxFaults,     \* bound on faults and on changes around the drill
  MaxEdits,      \* bound on user edits of the drill
  MaxOps         \* bound on the operations the drill creates

Cluster == {Source, Standby}
Op == 1 .. MaxOps
Kinds == {"instance", "group", "invalid"}
Modes == {"none", "FullRestore", "ResourceOnly"}
Parts == {"resource", "data"}

FaultKinds == {"lostWrite", "callError", "switch", "backup", "cluster", "deleteInstance",
               "deleteOp", "deleteRestore", "cancelRestore", "pods", "deleteDrill"}

ASSUME DrillAssumption ==
  /\ Source # Standby
  /\ Requests \subseteq [kind : Kinds, target : Cluster \cup {"auto"}, mapped : BOOLEAN]
  /\ Faults \subseteq FaultKinds
  /\ MaxFaults \in Nat /\ MaxEdits \in Nat /\ MaxOps \in Nat

VARIABLES
  spec,       \* spec and restart annotation of the DisasterDrill
  drill,      \* its status
  op,         \* its operations, numbered in the order of their creation
  restore,    \* restore[o][p]: the AppRestore of operation o for part p
  env,        \* env[c]: what a drill left in its namespaces on cluster c
  world,      \* roles, backups, cluster, pods and instance as the drill finds them
  faults,     \* faults that may still happen
  edits,      \* edits users may still make
  confirms    \* how often users confirmed (history)

vars == <<spec, drill, op, restore, env, world, faults, edits, confirms>>

NoStatus == [state |-> "New", target |-> "none", mode |-> "none", op |-> 0, completed |-> FALSE]
NoOp == [type |-> "none", state |-> "Absent", target |-> "none", mode |-> "none", step |-> 0,
         running |-> FALSE, named |-> {}, due |-> TRUE, quiet |-> FALSE]
\* due: in the work queue or with a requeue to come.  quiet is history: nothing
\* else of the drill was in flight at the creation.
NoRestore == [state |-> "Absent", target |-> "none"]

InFlight(o) == op[o].state \in {"Pending", "Running"}
Ended(o) == op[o].state \in {"Completed", "Failed"}
Missing(o) == o = 0 \/ op[o].state \in {"Absent", "Deleted"}

secondary == CHOOSE c \in Cluster : c # world.primary

Fault(f) == f \in Faults /\ faults > 0 /\ faults' = faults - 1

Init ==
  /\ \E r \in Requests :
       spec = [kind |-> r.kind, target |-> r.target, mapped |-> r.mapped,
               confirmed |-> FALSE, cleanUp |-> FALSE, restart |-> "none"]
  /\ drill = NoStatus
  /\ op = [o \in Op |-> NoOp]
  /\ restore = [o \in Op |-> [p \in Parts |-> NoRestore]]
  /\ env = [c \in Cluster |-> {}]
  /\ world \in [primary : {Source}, backup : {"FullRestore", "ResourceOnly"}, ready : {TRUE},
                pods : {TRUE}, instance : {"Fit"}]
  /\ faults = MaxFaults /\ edits = MaxEdits /\ confirms = 0

(***************************************************************************)
(* The DisasterDrill controller.                                           *)
(***************************************************************************)

\* The status write that ends a reconciliation.
WriteStatus(status) ==
  \/ drill' = status /\ UNCHANGED faults
  \/ UNCHANGED drill /\ Fault("lostWrite")

\* Setting status.completionTime makes an earlier restart request old.
Stamped == [spec EXCEPT !.restart = IF @ = "new" THEN "old" ELSE @]

WriteStamped(status) ==
  \/ /\ drill' = [status EXCEPT !.completed = TRUE] /\ spec' = Stamped
     /\ UNCHANGED faults
  \/ UNCHANGED <<spec, drill>> /\ Fault("lostWrite")

Accept ==
  /\ drill.state = "New"
  /\ WriteStatus([drill EXCEPT !.state = "Pending"])
  /\ UNCHANGED <<spec, op, restore, env, world, edits, confirms>>

\* What the last backups of the instance allow, if anything.
resolveRestoreMode == IF world.instance = "Absent" THEN "none" ELSE world.backup

\* validateInstanceDrill and validateGroupDrill.
Valid ==
  /\ spec.kind # "invalid" /\ world.instance # "Absent"
  /\ spec.kind = "instance" => world.instance = "Fit"
  /\ resolveRestoreMode # "none"

ResolvedTarget ==
  IF spec.target # "auto" THEN spec.target
  ELSE IF spec.kind = "instance" THEN secondary ELSE "auto"

handlePending ==
  /\ drill.state = "Pending"
  /\ LET snapshot == [drill EXCEPT !.target = ResolvedTarget, !.mode = resolveRestoreMode] IN
       \/ ~Valid /\ WriteStatus([drill EXCEPT !.state = "Failed"])
       \/ /\ Valid /\ ResolvedTarget # "auto" /\ ~world.ready
          /\ WriteStatus([snapshot EXCEPT !.state = "Failed"])
       \/ /\ Valid /\ (ResolvedTarget = "auto" \/ world.ready)
          /\ WriteStatus([snapshot EXCEPT !.state = "Ready"])
  /\ UNCHANGED <<spec, op, restore, env, world, edits, confirms>>

\* The first of the two checks of handleReady: the instance is still there and
\* the target is not its primary.  A drill of a group has no such check.
TopologyHolds ==
  spec.kind = "instance" => world.instance # "Absent" /\ drill.target # world.primary

\* refreshRestoreModeSnapshot: the backups are what they were.
SnapshotHolds ==
  resolveRestoreMode # "none" /\ resolveRestoreMode = drill.mode

rejectReady ==
  /\ drill.state = "Ready" /\ spec.confirmed
  /\ \/ ~TopologyHolds /\ WriteStatus([drill EXCEPT !.state = "Failed"]) /\ UNCHANGED spec
     \/ TopologyHolds /\ ~SnapshotHolds /\ WriteStamped([drill EXCEPT !.state = "Failed"])
  /\ UNCHANGED <<op, restore, env, world, edits, confirms>>

Free(o) == op[o].state = "Absent" /\ \A q \in Op : q < o => op[q].state # "Absent"

OpTarget == IF drill.target = "none" THEN "auto" ELSE drill.target

Requested(o, type) ==
  [op EXCEPT ![o] = [NoOp EXCEPT !.type = type, !.state = "Pending", !.target = OpTarget,
                                 !.mode = IF type = "drill" THEN drill.mode ELSE "none",
                                 !.quiet = \A q \in Op : ~InFlight(q)]]

\* Mutant: operations of the drill are not looked up before a new one is made.
AdoptableNone == {}

\* Any operation with the label of the drill that has not ended.
Adoptable == {o \in Op : InFlight(o)}

handleReady ==
  /\ drill.state = "Ready" /\ spec.confirmed /\ TopologyHolds /\ SnapshotHolds
  /\ \/ \E o \in Adoptable :
          UNCHANGED op /\ WriteStatus([drill EXCEPT !.state = "Executing", !.op = o])
     \/ \E o \in Op :
          /\ Adoptable = {} /\ Free(o) /\ op' = Requested(o, "drill")
          /\ WriteStatus([drill EXCEPT !.state = "Executing", !.op = o])
  /\ UNCHANGED <<spec, restore, env, world, edits, confirms>>

\* Mutant: an operation that is gone is waited for.
handleExecutingAwaiting ==
  /\ drill.state = "Executing" /\ ~Missing(drill.op) /\ Ended(drill.op)
  /\ WriteStamped([drill EXCEPT !.state = op[drill.op].state])
  /\ UNCHANGED <<op, restore, env, world, edits, confirms>>

handleExecuting ==
  /\ drill.state = "Executing"
  /\ \/ Missing(drill.op) /\ WriteStatus([drill EXCEPT !.state = "Failed"]) /\ UNCHANGED spec
     \/ ~Missing(drill.op) /\ Ended(drill.op)
          /\ WriteStamped([drill EXCEPT !.state = op[drill.op].state])
  /\ UNCHANGED <<op, restore, env, world, edits, confirms>>

syncCleanupOperationStatus(o) ==
  \/ op[o].state = "Completed" /\ WriteStamped([drill EXCEPT !.state = "CleanedUp", !.op = o])
  \/ op[o].state = "Failed" /\ WriteStatus([drill EXCEPT !.state = "Failed", !.op = o]) /\ UNCHANGED spec

newestCleanup(S) == CHOOSE o \in S : \A q \in S : q <= o

triggerCleanup ==
  /\ drill.state \in {"Completed", "Failed"} /\ spec.cleanUp
  /\ LET cleanups == {o \in Op : op[o].type = "cleanup"}
         going == {o \in cleanups : InFlight(o)}
         done == {o \in cleanups : Ended(o)} IN
       \/ /\ going # {} /\ UNCHANGED <<op, spec>>
          /\ WriteStatus([drill EXCEPT !.state = "CleaningUp", !.op = newestCleanup(going)])
       \/ /\ going = {} /\ done # {} /\ UNCHANGED op
          /\ syncCleanupOperationStatus(newestCleanup(done))
       \/ /\ going = {} /\ done = {} /\ UNCHANGED spec
          /\ \E o \in Op :
               /\ Free(o) /\ op' = Requested(o, "cleanup")
               /\ WriteStatus([drill EXCEPT !.state = "CleaningUp", !.op = o])
  /\ UNCHANGED <<restore, env, world, edits, confirms>>

handleCleaningUp ==
  /\ drill.state = "CleaningUp"
  /\ \/ Missing(drill.op) /\ WriteStatus([drill EXCEPT !.state = "Failed"]) /\ UNCHANGED spec
     \/ ~Missing(drill.op) /\ syncCleanupOperationStatus(drill.op)
  /\ UNCHANGED <<op, restore, env, world, edits, confirms>>

shouldRestart == spec.restart = "new" \/ (spec.restart = "old" /\ ~drill.completed)

Restartable == drill.state \in {"Completed", "Failed", "CleanedUp"} /\ ~spec.cleanUp /\ shouldRestart

\* Mutant: the status is reset and the confirmation kept.
resetKeepingConfirmed ==
  /\ Restartable
  /\ UNCHANGED spec /\ WriteStatus([NoStatus EXCEPT !.state = "Pending"])
  /\ UNCHANGED <<op, restore, env, world, edits, confirms>>

\* Two writes: first spec.confirmed, then, in another reconciliation, the status.
resetDrill ==
  /\ Restartable
  /\ \/ spec.confirmed /\ spec' = [spec EXCEPT !.confirmed = FALSE] /\ UNCHANGED <<drill, faults>>
     \/ ~spec.confirmed /\ UNCHANGED spec /\ WriteStatus([NoStatus EXCEPT !.state = "Pending"])
  /\ UNCHANGED <<op, restore, env, world, edits, confirms>>

ReconcileDrill ==
  \/ Accept \/ handlePending \/ rejectReady \/ handleReady \/ handleExecuting
  \/ triggerCleanup \/ handleCleaningUp \/ resetDrill

(***************************************************************************)
(* The drill and cleanup operations.                                       *)
(***************************************************************************)
TargetOf(o) == IF op[o].target = "auto" THEN secondary ELSE op[o].target

Write(o, status) ==
  \/ op' = [op EXCEPT ![o] = status] /\ UNCHANGED faults
  \/ UNCHANGED op /\ Fault("lostWrite")

\* The last writes of handleDrill: the error of a lost one is dropped and the
\* pass ends without a requeue.
Parked(o) == [op EXCEPT ![o].due = FALSE]

WriteUnchecked(o, status) ==
  \/ op' = [op EXCEPT ![o] = status] /\ UNCHANGED faults
  \/ op' = Parked(o) /\ Fault("lostWrite")

\* An event of the operation, a restart of the operator or the resync of its
\* informer, ten hours later by default.
Requeued(o) ==
  /\ op[o].state = "Running" /\ ~op[o].due
  /\ op' = [op EXCEPT ![o].due = TRUE]
  /\ UNCHANGED <<spec, drill, restore, env, world, faults, edits, confirms>>

StartOp(o) ==
  /\ op[o].state = "Pending"
  /\ Write(o, [op[o] EXCEPT !.state = "Running"])
  /\ UNCHANGED <<spec, drill, restore, env, world, edits, confirms>>

InstanceGone(o) ==
  /\ op[o].state = "Running" /\ op[o].due /\ world.instance = "Absent"
  /\ Write(o, [op[o] EXCEPT !.state = "Failed"])
  /\ UNCHANGED <<spec, drill, restore, env, world, edits, confirms>>

\* drillOperationSteps
Steps(mode) ==
  IF mode = "ResourceOnly" THEN <<"resource", "scaleUp">> ELSE <<"resource", "data", "scaleUp">>

Active(o) ==
  op[o].type = "drill" /\ op[o].state = "Running" /\ op[o].due /\ world.instance # "Absent"

Step(o) == Steps(op[o].mode)[op[o].step]
Executes(o) == Active(o) /\ op[o].running /\ op[o].step \in DOMAIN Steps(op[o].mode)

\* Writes the list of steps, then the start of each step.
StartStep(o) ==
  /\ Active(o)
  /\ \/ op[o].step = 0 /\ Write(o, [op[o] EXCEPT !.step = 1])
     \/ /\ op[o].step \in DOMAIN Steps(op[o].mode) /\ ~op[o].running
        /\ Write(o, [op[o] EXCEPT !.running = TRUE])
  /\ UNCHANGED <<spec, drill, restore, env, world, edits, confirms>>

Done(o) == [op[o] EXCEPT !.step = @ + 1, !.running = FALSE]

\* Mutant: a finished restore is a successful one.
RestoreDoneAnyhow(o, p) ==
  /\ restore[o][p].state \in {"Succeeded", "Failed"}
  /\ Write(o, Done(o))

FailedNow(o) == [op[o] EXCEPT !.state = "Failed"]

\* checkAppRestoreStatus: a cancelled restore counts as one still at work.  After
\* the data, cleanupTrafficlessPods waits until the pods of the restore are gone.
CheckRestore(o, p) ==
  \/ restore[o][p].state = "Succeeded" /\ (p = "data" => world.pods) /\ Write(o, Done(o))
  \/ restore[o][p].state \in {"Failed", "Absent"} /\ WriteUnchecked(o, FailedNow(o))

\* Its name is kept in the status of the operation, and found again by its
\* label when that write was lost and the step did not fail of it.  Without a
\* backup there is nothing to make.
CreateRestore(o, p) ==
  \/ /\ restore' = IF restore[o][p].state # "Absent" THEN restore
                   ELSE [restore EXCEPT ![o][p] = [state |-> "Running", target |-> TargetOf(o)]]
     /\ \/ Write(o, [op[o] EXCEPT !.named = @ \cup {p}])
        \/ Fault("lostWrite") /\ op' = [op EXCEPT ![o] = FailedNow(o)]
  \/ /\ restore[o][p].state = "Absent" /\ world.backup = "none"
     /\ UNCHANGED restore /\ WriteUnchecked(o, FailedNow(o))

executeRestore(o) ==
  /\ Executes(o) /\ Step(o) \in Parts
  /\ \/ Step(o) \in op[o].named /\ CheckRestore(o, Step(o)) /\ UNCHANGED restore
     \/ Step(o) \notin op[o].named /\ CreateRestore(o, Step(o))
  /\ UNCHANGED <<spec, drill, env, world, edits, confirms>>

\* Each pass scales up, then waits until the pods are ready.  A drill that does
\* not wait for them goes on as if they were.
executeDrillScaleUp(o) ==
  /\ Executes(o) /\ Step(o) = "scaleUp"
  /\ env' = [env EXCEPT ![TargetOf(o)] = @ \cup {"up"}]
  /\ IF world.pods THEN Write(o, Done(o)) ELSE UNCHANGED <<op, faults>>
  /\ UNCHANGED <<spec, drill, restore, world, edits, confirms>>

\* Any call of a step may fail, and the operation with it, or the write that says
\* so is lost as well.
StepFails(o) ==
  /\ Executes(o)
  /\ \/ Fault("callError") /\ op' = [op EXCEPT ![o] = FailedNow(o)]
     \/ /\ {"callError", "lostWrite"} \subseteq Faults /\ faults > 1 /\ faults' = faults - 2
        /\ op' = Parked(o)
  /\ UNCHANGED <<spec, drill, restore, env, world, edits, confirms>>

CompleteDrill(o) ==
  /\ Active(o) /\ op[o].step > Len(Steps(op[o].mode))
  /\ WriteUnchecked(o, [op[o] EXCEPT !.state = "Completed"])
  /\ UNCHANGED <<spec, drill, restore, env, world, edits, confirms>>

\* Mutant: the cleanup completes before the scale-down.
CleanedEarly(o) == env

\* Without a mapping the workloads are scaled down, with one their namespaces
\* are deleted.
Cleaned(o) ==
  [env EXCEPT ![TargetOf(o)] = IF spec.mapped THEN {} ELSE @ \ {"up"}]

handleDrillCleanup(o) ==
  /\ op[o].type = "cleanup" /\ op[o].state = "Running" /\ world.instance # "Absent"
  /\ \/ /\ world.ready /\ env' = Cleaned(o)
        /\ Write(o, [op[o] EXCEPT !.state = "Completed"])
     \/ /\ ~world.ready \/ "callError" \in Faults
        /\ UNCHANGED env
        /\ IF world.ready THEN Fault("callError") ELSE UNCHANGED faults
        /\ op' = [op EXCEPT ![o].state = "Failed"]
  /\ UNCHANGED <<spec, drill, restore, world, edits, confirms>>

ReconcileOp(o) ==
  \/ StartOp(o) \/ InstanceGone(o) \/ StartStep(o) \/ executeRestore(o) \/ executeDrillScaleUp(o)
  \/ StepFails(o) \/ CompleteDrill(o) \/ handleDrillCleanup(o)

\* An AppRestore that nobody cancels ends (RestoreEnds of module AppRestore): the
\* restores of a drill are ordinary ones, without the label of the trafficless
\* life cycle, whatever pods they restore.  It is not owned by the operation.
RestoreEnds(o, p) ==
  /\ restore[o][p].state = "Running"
  /\ \/ /\ restore' = [restore EXCEPT ![o][p].state = "Succeeded"]
        /\ env' = [env EXCEPT ![restore[o][p].target] = @ \cup {p}]
     \/ restore' = [restore EXCEPT ![o][p].state = "Failed"] /\ UNCHANGED env
  /\ UNCHANGED <<spec, drill, op, world, faults, edits, confirms>>

(***************************************************************************)
(* Users, and the system around the drill.                                 *)
(***************************************************************************)
Edit(s) ==
  /\ drill.state # "Deleted" /\ edits > 0 /\ edits' = edits - 1 /\ spec' = s
  /\ UNCHANGED <<drill, op, restore, env, world, faults>>

Confirm ==
  /\ ~spec.confirmed /\ Edit([spec EXCEPT !.confirmed = TRUE]) /\ confirms' = confirms + 1

\* Users ask for the cleanup only when the drill has ended.
ToggleCleanUp ==
  /\ drill.state \in {"Completed", "Failed", "CleanedUp"}
  /\ Edit([spec EXCEPT !.cleanUp = ~@]) /\ UNCHANGED confirms

AskRestart ==
  /\ drill.state \in {"Completed", "Failed", "CleanedUp"} /\ spec.restart # "new"
  /\ Edit([spec EXCEPT !.restart = "new"]) /\ UNCHANGED confirms

WorldChanges ==
  /\ \/ Fault("switch") /\ world' = [world EXCEPT !.primary = secondary]
     \/ Fault("backup") /\ \E m \in Modes \ {world.backup} : world' = [world EXCEPT !.backup = m]
     \/ Fault("cluster") /\ world' = [world EXCEPT !.ready = ~@]
     \/ Fault("pods") /\ world' = [world EXCEPT !.pods = ~@]
     \/ /\ Fault("deleteInstance")
        /\ \E i \in {"Absent", "Unfit"} : world' = [world EXCEPT !.instance = i]
  /\ UNCHANGED <<spec, drill, op, restore, env, edits, confirms>>

\* What an operation was is history once it is deleted.
Removed(o) == [NoOp EXCEPT !.state = "Deleted", !.type = op[o].type]

DeleteOp(o) ==
  /\ ~Missing(o) /\ Fault("deleteOp")
  /\ op' = [op EXCEPT ![o] = Removed(o)]
  /\ UNCHANGED <<spec, drill, restore, env, world, edits, confirms>>

DeleteRestore(o, p) ==
  /\ restore[o][p].state # "Absent" /\ Fault("deleteRestore")
  /\ restore' = [restore EXCEPT ![o][p] = NoRestore]
  /\ UNCHANGED <<spec, drill, op, env, world, edits, confirms>>

CancelRestore(o, p) ==
  /\ restore[o][p].state = "Running" /\ Fault("cancelRestore")
  /\ restore' = [restore EXCEPT ![o][p].state = "Cancelled"]
  /\ UNCHANGED <<spec, drill, op, env, world, edits, confirms>>

\* handleDeletion and the garbage collector.
DeleteDrill ==
  /\ drill.state # "Deleted" /\ Fault("deleteDrill")
  /\ drill' = [drill EXCEPT !.state = "Deleted"]
  /\ op' = [o \in Op |-> IF Missing(o) THEN op[o] ELSE Removed(o)]
  /\ UNCHANGED <<spec, restore, env, world, edits, confirms>>

UserStep ==
  \/ Confirm \/ ToggleCleanUp \/ AskRestart \/ WorldChanges \/ DeleteDrill
  \/ \E o \in Op : DeleteOp(o) \/ \E p \in Parts : DeleteRestore(o, p) \/ CancelRestore(o, p)

Next ==
  \/ ReconcileDrill
  \/ \E o \in Op : ReconcileOp(o) \/ Requeued(o) \/ \E p \in Parts : RestoreEnds(o, p)
  \/ UserStep

Spec == Init /\ [][Next]_vars

(***************************************************************************)
(* Fairness: a drill is requeued, and so is an operation in flight but a   *)
(* parked one, of whose return nothing is assumed; an AppRestore at work   *)
(* ends.                                                                   *)
(***************************************************************************)
Fairness ==
  /\ WF_vars(ReconcileDrill)
  /\ \A o \in Op : WF_vars(ReconcileOp(o)) /\ \A p \in Parts : WF_vars(RestoreEnds(o, p))

FairSpec == Spec /\ Fairness

(***************************************************************************)
(* Properties.                                                             *)
(***************************************************************************)

\* However often its status writes are lost and whatever users restart, a drill
\* never has two operations restoring at a time.
OneDrillInFlight ==
  \A o, q \in Op : InFlight(o) /\ InFlight(q) /\ op[o].type = "drill" /\ op[q].type = "drill" => o = q

\* Every execution was confirmed by a user: a restart asks again.  A lost
\* status write is the one case where the operation may be made a second time.
EveryRunConfirmed ==
  Cardinality({o \in Op : op[o].type = "drill"}) <= confirms + (MaxFaults - faults)

Needed(o) == {"resource"} \cup (IF op[o].mode = "FullRestore" THEN {"data"} ELSE {})

\* A drill that completes with a drill operation has every restore behind it
\* that the mode of the operation asks for, each of them succeeded (or since deleted by
\* a user), although they are found again by label after lost writes.  With a
\* fixed target they all went to that cluster and it is up, unless a cleanup was
\* asked for while the operation ran.
CompletedMeansRestored ==
  [][drill.state = "Executing" /\ drill'.state = "Completed" /\ op[drill.op].type = "drill" =>
       LET o == drill.op IN
       /\ Needed(o) \subseteq op[o].named
       /\ \A p \in Needed(o) : restore[o][p].state \in {"Succeeded", "Absent"}
       /\ op[o].target # "auto" /\ (\A q \in Op : op[q].type = "cleanup" => q < o) =>
            Needed(o) \cup {"up"} \subseteq env[TargetOf(o)]]_vars

\* A drill is reported as cleaned up only when nothing runs on its target any
\* more, if the cleanup started after the last drill operation had ended.
CleanedUpMeansDown ==
  [][drill.state # "CleanedUp" /\ drill'.state = "CleanedUp" =>
       LET o == drill'.op IN
       /\ op[o].state = "Completed"
       /\ op[o].quiet /\ op[o].target # "auto" /\ (\A q \in Op : op[q].type = "drill" => q < o)
            => "up" \notin env[op[o].target]]_vars

\* The steps of a drill have no timeout.  What can hold one up for ever: it is
\* parked, it waits for a restore that a user cancelled, or for pods that are
\* never ready or never gone.
HeldUp(o) ==
  /\ op[o].state = "Running"
  /\ \/ ~op[o].due
     \/ Executes(o) /\ Step(o) \in Parts /\ restore[o][Step(o)].state = "Cancelled"
     \/ Executes(o) /\ Step(o) \in {"data", "scaleUp"} /\ ~world.pods

\* A drill that executes or cleans up gets an answer, whatever fails or is
\* deleted on the way, unless from some time on its operation is held up.
DrillEnds ==
  \/ <>[](~Missing(drill.op) /\ HeldUp(drill.op))
  \/ drill.state \in {"Executing", "CleaningUp"} ~> drill.state \notin {"Executing", "CleaningUp"}

\* What the drill specification says of every cleanup: a drill that is
\* CleanedUp has been scaled down on its target.  triggerCleanup takes the
\* ended cleanup operation of an earlier round for the answer.
EveryCleanupScalesDown == drill.state = "CleanedUp" => "up" \notin env[drill.target]
=============================================================================
