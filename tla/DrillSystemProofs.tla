-------------------------- MODULE DrillSystemProofs --------------------------
(***************************************************************************)
(* What holds of a drill, its operations and its restores for any number   *)
(* of operations, faults and edits, whatever is asked for.                 *)
(***************************************************************************)
EXTENDS DrillSystem, FiniteSetTheorems, TLAPS

(***************************************************************************)
(* The inductive invariant.                                                *)
(***************************************************************************)
DrillStates == {"New", "Pending", "Ready", "Executing", "CleaningUp", "Completed", "Failed",
                "CleanedUp", "Deleted"}
OpStates == {"Absent", "Pending", "Running", "Completed", "Failed", "Deleted"}

Specs == [kind : Kinds, target : Cluster \cup {"auto"}, mapped : BOOLEAN, confirmed : BOOLEAN,
          cleanUp : BOOLEAN, restart : {"none", "new", "old"}]
Statuses == [state : DrillStates, target : Cluster \cup {"none", "auto"}, mode : Modes,
             op : {0} \cup Op, completed : BOOLEAN]
Operations == [type : {"none", "drill", "cleanup"}, state : OpStates,
               target : Cluster \cup {"none", "auto"}, mode : Modes, step : Nat, running : BOOLEAN,
               named : SUBSET Parts, due : BOOLEAN, quiet : BOOLEAN]
AppRestores == [state : {"Absent", "Running", "Succeeded", "Failed", "Cancelled"},
                target : Cluster \cup {"none"}]
Worlds == [primary : Cluster, backup : Modes, ready : BOOLEAN, pods : BOOLEAN,
           instance : {"Fit", "Unfit", "Absent"}]

Typed ==
  /\ spec \in Specs
  /\ drill \in Statuses
  /\ op \in [Op -> Operations]
  /\ restore \in [Op -> [Parts -> AppRestores]]
  /\ env \in [Cluster -> SUBSET (Parts \cup {"up"})]
  /\ world \in Worlds
  /\ faults \in Nat /\ edits \in Nat /\ confirms \in Nat

Live(o) == op[o].state \in {"Pending", "Running", "Completed", "Failed"}
LiveDrill(o) == Live(o) /\ op[o].type = "drill"

\* Operations are made in the order of their numbers.
InOrder ==
  /\ \A o \in Op : op[o].state = "Absent" => op[o] = NoOp
  /\ \A o, q \in Op : q < o /\ op[q].state = "Absent" => op[o].state = "Absent"

\* Nothing made before a quiet operation is in flight, now or later; every drill
\* operation is quiet, and knows what to restore.
QuietIsAlone ==
  /\ \A o, q \in Op : op[o].quiet /\ q < o => ~InFlight(q)
  /\ \A o \in Op : LiveDrill(o) => op[o].quiet /\ op[o].mode # "none"

\* The target of an operation is a cluster, or found out when it is needed.
FixedTargets == \A o \in Op : Live(o) => op[o].target \in Cluster \cup {"auto"}

\* What the drill waits for is there, or was.
Awaited ==
  /\ drill.state \in {"Executing", "CleaningUp"} => drill.op \in Op
  /\ drill.state = "CleaningUp" => op[drill.op].type = "cleanup"

OpsInv == Typed /\ InOrder /\ QuietIsAlone /\ FixedTargets /\ Awaited

\* A confirmation that no drill operation was made for yet.
Owed == spec.confirmed /\ drill.state \in {"New", "Pending", "Ready"}

DrillOps == {o \in Op : op[o].type = "drill"}

Ledger == Cardinality(DrillOps) + (IF Owed THEN 1 ELSE 0) <= confirms + (MaxFaults - faults)

\* The restores, and the steps, that a drill operation x has behind it.
Passed(x) == {p \in Parts : \/ p = "resource" /\ x.step > 1
                            \/ p = "data" /\ x.mode = "FullRestore" /\ x.step > 2}
Over(x) == x.step > Len(Steps(x.mode))

\* A drill operation x and its restores r: it passed a restore that it had named
\* and that had succeeded, it completes after the last step, and its restores
\* went to its target.
Fits(x, r) ==
  /\ \A p \in Passed(x) : p \in x.named /\ r[p].state \in {"Succeeded", "Absent"}
  /\ x.state = "Completed" => Over(x)
  /\ x.target # "auto" => \A p \in Parts : r[p].state \in {"Running", "Succeeded"} => r[p].target = x.target

\* What they left on the target, where e is found.
Left(x, r, e) ==
  /\ Passed(x) \subseteq e
  /\ \A p \in Parts : r[p].state = "Succeeded" => p \in e
  /\ Over(x) => "up" \in e

\* No cleanup was asked for after it.
Undisturbed(o) == op[o].target # "auto" /\ \A q \in Op : op[q].type = "cleanup" => q < o

RestoresFirst ==
  \A o \in Op :
    /\ op[o].type # "drill" => \A p \in Parts : restore[o][p] = NoRestore
    /\ LiveDrill(o) => Fits(op[o], restore[o])
    /\ LiveDrill(o) /\ Undisturbed(o) => Left(op[o], restore[o], env[op[o].target])

\* The last one: nothing brings up what a cleanup took down.
LastWord(o) == op[o].quiet /\ op[o].target # "auto" /\ \A q \in Op : op[q].type = "drill" => q < o

TakenDown ==
  \A o \in Op : op[o].type = "cleanup" /\ op[o].state = "Completed" /\ LastWord(o) =>
    "up" \notin env[op[o].target]

DrillInv == OpsInv /\ Ledger /\ RestoresFirst /\ TakenDown

(***************************************************************************)
(* What a step may do to the operations, told without the handlers.        *)
(***************************************************************************)

\* The drill controller makes one.
Makes(o, type) ==
  /\ Free(o) /\ op' = Requested(o, type)
  /\ type = "drill" => Adoptable = {} /\ drill.mode # "none"

\* An operation that was in flight moves on.
Follows(x, old) ==
  /\ x \in Operations
  /\ x.type = old.type /\ x.target = old.target /\ x.mode = old.mode /\ x.quiet = old.quiet
  /\ old.state \in {"Pending", "Running"} /\ x.state \in {"Running", "Completed", "Failed"}

Advances(o) == \E x : Follows(x, op[o]) /\ op' = [op EXCEPT ![o] = x]

\* Some are deleted.
Removes ==
  \E R \in SUBSET Op :
    /\ \A o \in R : op[o].state # "Absent"
    /\ op' = [o \in Op |-> IF o \in R THEN Removed(o) ELSE op[o]]

OpStep ==
  \/ op' = op
  \/ \E o \in Op, type \in {"drill", "cleanup"} : Makes(o, type)
  \/ \E o \in Op : Advances(o)
  \/ Removes

(***************************************************************************)
(* The values of the parts.                                                *)
(***************************************************************************)

\* There are two clusters, and one is the other's secondary.
LEMMA Secondaries ==
  ASSUME Typed
  PROVE  secondary \in Cluster
<1>1. \E c \in Cluster : c # world.primary
  BY DrillAssumption DEF Cluster, Typed, Worlds
<1> QED BY <1>1 DEF secondary

\* A status with a field replaced.
LEMMA StatusFields ==
  ASSUME NEW x \in Statuses
  PROVE  /\ \A t \in DrillStates : LET y == [x EXCEPT !.state = t] IN
              y \in Statuses /\ y.state = t /\ y.op = x.op /\ y.mode = x.mode /\ y.target = x.target
         /\ \A t \in DrillStates, o \in Op : LET y == [x EXCEPT !.state = t, !.op = o] IN
              y \in Statuses /\ y.state = t /\ y.op = o
         /\ LET y == [x EXCEPT !.completed = TRUE] IN
              y \in Statuses /\ y.state = x.state /\ y.op = x.op
BY DEF Statuses

\* The empty values.
LEMMA Empties ==
  /\ NoStatus \in Statuses /\ NoOp \in Operations /\ NoRestore \in AppRestores
  /\ NoOp.type = "none" /\ NoOp.state = "Absent" /\ NoOp.quiet = FALSE
  /\ NoRestore.state = "Absent"
BY DEF NoStatus, NoOp, NoRestore, Statuses, Operations, AppRestores, DrillStates, OpStates, Modes

\* A new operation.
LEMMA NewOp ==
  ASSUME OpsInv, NEW o \in Op, NEW type \in {"drill", "cleanup"}
  PROVE  LET x == Requested(o, type)[o] IN
         /\ x \in Operations /\ x.type = type /\ x.state = "Pending" /\ x.target \in Cluster \cup {"auto"}
         /\ x.mode = (IF type = "drill" THEN drill.mode ELSE "none") /\ x.step = 0
         /\ x.named = {} /\ (x.quiet <=> \A q \in Op : ~InFlight(q))
         /\ Requested(o, type) = [op EXCEPT ![o] = x]
<1> DEFINE t == OpTarget
           m == IF type = "drill" THEN drill.mode ELSE "none"
           b == \A q \in Op : ~InFlight(q)
           x == [NoOp EXCEPT !.type = type, !.state = "Pending", !.target = t, !.mode = m, !.quiet = b]
<1>1. t \in Cluster \cup {"auto"} /\ m \in Modes /\ b \in BOOLEAN
  BY DEF OpsInv, Typed, Statuses, Modes, OpTarget
<1>2. op \in [Op -> Operations]
  BY DEF OpsInv, Typed
<1>3. Requested(o, type) = [op EXCEPT ![o] = x]
  BY DEF Requested
<1> HIDE DEF t, m, b
<1>4. /\ x \in Operations /\ x.type = type /\ x.state = "Pending" /\ x.target = t /\ x.mode = m
      /\ x.step = 0 /\ x.named = {} /\ x.quiet = b
  BY <1>1 DEF NoOp, Operations, OpStates
<1> HIDE DEF x
<1>5. Requested(o, type)[o] = x
  BY <1>2, <1>3
<1> QED BY <1>1, <1>3, <1>4, <1>5 DEF m, b

\* What is left of a deleted one.
LEMMA RemovedOp ==
  ASSUME Typed, NEW o \in Op
  PROVE  /\ Removed(o) \in Operations /\ Removed(o).state = "Deleted" /\ Removed(o).type = op[o].type
         /\ Removed(o).quiet = FALSE
<1>1. op[o].type \in {"none", "drill", "cleanup"}
  BY DEF Typed, Operations
<1> QED BY <1>1 DEF Removed, NoOp, Operations, OpStates, Modes

(***************************************************************************)
(* Every step is one of the four.                                          *)
(***************************************************************************)

\* What the handlers of an operation write of it.
LEMMA OpWrites ==
  ASSUME Typed, NEW o \in Op, op[o].state \in {"Pending", "Running"}
  PROVE  /\ \A t \in {"Running", "Completed", "Failed"} : Follows([op[o] EXCEPT !.state = t], op[o])
         /\ op[o].state = "Running" =>
              /\ \A b \in BOOLEAN : Follows([op[o] EXCEPT !.due = b], op[o])
              /\ Follows([op[o] EXCEPT !.step = 1], op[o])
              /\ Follows([op[o] EXCEPT !.running = TRUE], op[o])
              /\ Follows(Done(o), op[o])
              /\ \A p \in Parts : Follows([op[o] EXCEPT !.named = @ \cup {p}], op[o])
<1>1. op[o] \in Operations /\ op[o].step + 1 \in Nat
  BY DEF Typed, Operations
<1> QED BY <1>1 DEF Follows, Operations, OpStates, Done

\* A handler of an operation moves it on, or its write is lost.
LEMMA ReconcileOpSteps ==
  ASSUME Typed, NEW o \in Op, ReconcileOp(o)
  PROVE  op' = op \/ Advances(o)
<1>1. \A x : Follows(x, op[o]) /\ Write(o, x) => op' = op \/ Advances(o)
  BY DEF Write, Advances
<1>10. \A x : Follows(x, op[o]) /\ WriteUnchecked(o, x) => Advances(o) \/ op' = Parked(o)
  BY DEF WriteUnchecked, Advances
<1>11. op' = Parked(o) /\ op[o].state = "Running" => Advances(o)
  <2> SUFFICES ASSUME op' = Parked(o), op[o].state = "Running" PROVE Advances(o)
    OBVIOUS
  <2>1. op' = [op EXCEPT ![o] = [op[o] EXCEPT !.due = FALSE]]
    BY DEF Parked
  <2> QED BY <2>1, OpWrites DEF Advances
<1>12. op[o].state = "Running" => Follows(FailedNow(o), op[o])
  BY OpWrites DEF FailedNow
<1>2. CASE StartOp(o)
  BY <1>1, <1>2, OpWrites DEF StartOp
<1>3. CASE InstanceGone(o)
  BY <1>1, <1>3, OpWrites DEF InstanceGone
<1>4. CASE StartStep(o)
  BY <1>1, <1>4, OpWrites DEF StartStep, Active
<1>5. CASE executeRestore(o)
  <2>1. op[o].state = "Running" /\ Step(o) \in Parts
    BY <1>5 DEF executeRestore, Executes, Active
  <2>2. \/ Write(o, Done(o))
        \/ WriteUnchecked(o, FailedNow(o))
        \/ op' = [op EXCEPT ![o] = FailedNow(o)]
        \/ Write(o, [op[o] EXCEPT !.named = @ \cup {Step(o)}])
    BY <1>5 DEF executeRestore, CheckRestore, CreateRestore
  <2>3. op' = [op EXCEPT ![o] = FailedNow(o)] => Advances(o)
    BY <1>12, <2>1 DEF Advances
  <2> QED BY <1>1, <1>10, <1>11, <1>12, <2>1, <2>2, <2>3, OpWrites
<1>6. CASE executeDrillScaleUp(o)
  BY <1>1, <1>6, OpWrites DEF executeDrillScaleUp, Executes, Active
<1>7. CASE StepFails(o)
  <2>1. op' = [op EXCEPT ![o] = FailedNow(o)] \/ op' = Parked(o)
    BY <1>7 DEF StepFails
  <2>2. op[o].state = "Running"
    BY <1>7 DEF StepFails, Executes, Active
  <2> QED BY <1>11, <1>12, <2>1, <2>2 DEF Advances
<1>8. CASE CompleteDrill(o)
  BY <1>10, <1>11, <1>8, OpWrites DEF CompleteDrill, Active
<1>9. CASE handleDrillCleanup(o)
  <2>1. op[o].state = "Running"
    BY <1>9 DEF handleDrillCleanup
  <2>2. \/ Write(o, [op[o] EXCEPT !.state = "Completed"])
        \/ op' = [op EXCEPT ![o] = [op[o] EXCEPT !.state = "Failed"]]
    BY <1>9 DEF handleDrillCleanup
  <2> QED BY <1>1, <2>1, <2>2, OpWrites DEF Advances
<1> QED BY <1>2, <1>3, <1>4, <1>5, <1>6, <1>7, <1>8, <1>9 DEF ReconcileOp

\* A requeue moves its operation on, and nothing else.
LEMMA RequeueSteps ==
  ASSUME Typed, NEW o \in Op, Requeued(o)
  PROVE  /\ Advances(o) /\ op[o].state = "Running"
         /\ op' = [op EXCEPT ![o] = [op[o] EXCEPT !.due = TRUE]]
         /\ UNCHANGED <<spec, drill, restore, env, world, faults, edits, confirms>>
<1>1. op' = [op EXCEPT ![o] = [op[o] EXCEPT !.due = TRUE]] /\ op[o].state = "Running"
  BY DEF Requeued
<1> QED BY <1>1, OpWrites DEF Requeued, Advances

\* Deletions only remove.
LEMMA DeletionSteps ==
  ASSUME Typed
  PROVE  /\ \A o \in Op : DeleteOp(o) => Removes
         /\ DeleteDrill => Removes
<1>1. ASSUME NEW o \in Op, DeleteOp(o) PROVE Removes
  <2>1. op' = [q \in Op |-> IF q \in {o} THEN Removed(q) ELSE op[q]]
    BY <1>1 DEF DeleteOp, Typed
  <2>2. op[o].state # "Absent"
    BY <1>1 DEF DeleteOp, Missing
  <2> QED BY <2>1, <2>2 DEF Removes
<1>2. ASSUME DeleteDrill PROVE Removes
  <2> DEFINE R == {o \in Op : ~Missing(o)}
  <2>1. op' = [q \in Op |-> IF q \in R THEN Removed(q) ELSE op[q]]
    BY <1>2 DEF DeleteDrill
  <2>2. \A o \in R : op[o].state # "Absent"
    BY DEF Missing
  <2> QED BY <2>1, <2>2 DEF Removes
<1> QED BY <1>1, <1>2

\* The steps of the drill controller.
LEMMA ReconcileDrillSteps ==
  ASSUME Typed, ReconcileDrill
  PROVE  op' = op \/ \E o \in Op, type \in {"drill", "cleanup"} : Makes(o, type)
<1>1. CASE handleReady
  <2>1. drill.mode # "none"
    BY <1>1 DEF handleReady, SnapshotHolds
  <2> QED BY <1>1, <2>1 DEF handleReady, Makes
<1>2. CASE triggerCleanup
  BY <1>2 DEF triggerCleanup, Makes
<1>3. CASE ~handleReady /\ ~triggerCleanup
  BY <1>3 DEF ReconcileDrill, Accept, handlePending, rejectReady, handleExecuting, handleCleaningUp, resetDrill
<1> QED BY <1>1, <1>2, <1>3

\* And all steps together.
LEMMA EveryOpStep ==
  ASSUME Typed, [Next]_vars
  PROVE  OpStep
<1>1. CASE ReconcileDrill
  BY <1>1, ReconcileDrillSteps DEF OpStep
<1>2. ASSUME NEW o \in Op, ReconcileOp(o) PROVE OpStep
  BY <1>2, ReconcileOpSteps DEF OpStep
<1>3. ASSUME NEW o \in Op, NEW p \in Parts, RestoreEnds(o, p) \/ DeleteRestore(o, p) \/ CancelRestore(o, p)
      PROVE  OpStep
  BY <1>3 DEF RestoreEnds, DeleteRestore, CancelRestore, OpStep
<1>7. ASSUME NEW o \in Op, Requeued(o) PROVE OpStep
  BY <1>7, RequeueSteps DEF OpStep
<1>4. CASE Confirm \/ ToggleCleanUp \/ AskRestart \/ WorldChanges
  BY <1>4 DEF Confirm, ToggleCleanUp, AskRestart, WorldChanges, Edit, OpStep
<1>5. CASE DeleteDrill \/ \E o \in Op : DeleteOp(o)
  BY <1>5, DeletionSteps DEF OpStep
<1>6. CASE UNCHANGED vars
  BY <1>6 DEF vars, OpStep
<1> QED BY <1>1, <1>2, <1>3, <1>4, <1>5, <1>6, <1>7 DEF Next, UserStep

(***************************************************************************)
(* The operations.                                                         *)
(***************************************************************************)

\* The part of the invariant that is about operations only.
OpsOnly == op \in [Op -> Operations] /\ InOrder /\ QuietIsAlone /\ FixedTargets

\* Making one.
LEMMA MakesKeeps ==
  ASSUME OpsInv, NEW o \in Op, NEW type \in {"drill", "cleanup"}, Makes(o, type)
  PROVE  /\ OpsOnly'
         /\ op[o] = NoOp /\ op'[o].type = type /\ op'[o].state = "Pending" /\ op'[o].step = 0
         /\ op'[o].named = {} /\ \A q \in Op \ {o} : op'[q] = op[q]
<1> DEFINE x == Requested(o, type)[o]
<1>1. /\ x \in Operations /\ x.type = type /\ x.state = "Pending" /\ x.target \in Cluster \cup {"auto"}
      /\ x.mode = (IF type = "drill" THEN drill.mode ELSE "none") /\ x.step = 0 /\ x.named = {}
      /\ (x.quiet <=> \A q \in Op : ~InFlight(q))
      /\ Requested(o, type) = [op EXCEPT ![o] = x]
  BY NewOp
<1>2. op' = [op EXCEPT ![o] = x] /\ op[o].state = "Absent" /\ \A q \in Op : q < o => op[q].state # "Absent"
  BY <1>1 DEF Makes, Free
<1> HIDE DEF x
<1>3. op \in [Op -> Operations] /\ InOrder /\ QuietIsAlone /\ FixedTargets
  BY DEF OpsInv, Typed
<1>4. op' \in [Op -> Operations] /\ op'[o] = x /\ \A q \in Op \ {o} : op'[q] = op[q]
  BY <1>1, <1>2, <1>3
<1>5. op[o] = NoOp
  BY <1>2, <1>3 DEF InOrder
<1>6. \A q \in Op : o < q => op[q].state = "Absent" /\ op[q] = NoOp
  BY <1>2, <1>3 DEF InOrder
<1>7. InOrder'
  <2>1. \A q \in Op : op'[q].state = "Absent" => op'[q] = NoOp
    BY <1>1, <1>3, <1>4 DEF InOrder
  <2>2. ASSUME NEW r \in Op, NEW q \in Op, q < r, op'[q].state = "Absent"
        PROVE  op'[r].state = "Absent"
    <3>1. q # o /\ op[q].state = "Absent"
      BY <1>1, <1>4, <2>2
    <3>2. r # o
      BY <1>2, <2>2, <3>1
    <3> QED BY <1>3, <1>4, <2>2, <3>1, <3>2 DEF InOrder
  <2> QED BY <2>1, <2>2 DEF InOrder
<1>8. QuietIsAlone'
  <2>1. ASSUME NEW r \in Op, NEW q \in Op, op'[r].quiet, q < r
        PROVE  ~InFlight(q)'
    <3>1. CASE r = o
      BY <1>1, <1>4, <2>1, <3>1 DEF InFlight, Op
    <3>2. CASE r # o
      <4>1. op[r].quiet /\ op[r] # NoOp
        BY <1>4, <2>1, <3>2, Empties
      <4>2. q # o
        BY <1>6, <2>1, <4>1
      <4> QED BY <1>3, <1>4, <2>1, <4>1, <4>2 DEF QuietIsAlone, InFlight
    <3> QED BY <3>1, <3>2
  <2>2. ASSUME NEW r \in Op, LiveDrill(r)'
        PROVE  op'[r].quiet /\ op'[r].mode # "none"
    <3>1. CASE r = o
      <4>1. type = "drill" /\ Adoptable = {} /\ drill.mode # "none"
        BY <1>1, <1>4, <2>2, <3>1 DEF LiveDrill, Makes
      <4> QED BY <1>1, <1>4, <3>1, <4>1 DEF Adoptable
    <3>2. CASE r # o
      BY <1>3, <1>4, <2>2, <3>2 DEF QuietIsAlone, LiveDrill, Live
    <3> QED BY <3>1, <3>2
  <2> QED BY <2>1, <2>2 DEF QuietIsAlone
<1>9. FixedTargets'
  BY <1>1, <1>3, <1>4 DEF FixedTargets, Live
<1> QED BY <1>1, <1>4, <1>5, <1>7, <1>8, <1>9 DEF OpsOnly

\* Moving one on.
LEMMA AdvancesKeeps ==
  ASSUME OpsInv, NEW o \in Op, Advances(o)
  PROVE  OpsOnly'
<1>1. PICK x : Follows(x, op[o]) /\ op' = [op EXCEPT ![o] = x]
  BY DEF Advances
<1>2. op \in [Op -> Operations] /\ InOrder /\ QuietIsAlone /\ FixedTargets
  BY DEF OpsInv, Typed
<1>3. op' \in [Op -> Operations] /\ op'[o] = x /\ \A q \in Op \ {o} : op'[q] = op[q]
  BY <1>1, <1>2 DEF Follows
<1>4. \A q \in Op : /\ op'[q].type = op[q].type /\ op'[q].target = op[q].target
                    /\ op'[q].mode = op[q].mode /\ op'[q].quiet = op[q].quiet
                    /\ (InFlight(q)' => InFlight(q)) /\ (Live(q)' <=> Live(q))
                    /\ (op'[q].state = "Absent" <=> op[q].state = "Absent")
                    /\ (op'[q].state = "Absent" => op'[q] = op[q])
  BY <1>1, <1>3 DEF Follows, InFlight, Live
<1>5. InOrder'
  BY <1>2, <1>4 DEF InOrder
<1>6. QuietIsAlone'
  BY <1>2, <1>4 DEF QuietIsAlone, LiveDrill
<1>7. FixedTargets'
  BY <1>2, <1>4 DEF FixedTargets
<1> QED BY <1>3, <1>5, <1>6, <1>7 DEF OpsOnly

\* Deleting some.
LEMMA RemovesKeeps ==
  ASSUME OpsInv, Removes
  PROVE  OpsOnly'
<1>1. PICK R \in SUBSET Op :
        /\ \A o \in R : op[o].state # "Absent"
        /\ op' = [o \in Op |-> IF o \in R THEN Removed(o) ELSE op[o]]
  BY DEF Removes
<1>2. op \in [Op -> Operations] /\ InOrder /\ QuietIsAlone /\ FixedTargets /\ Typed
  BY DEF OpsInv, Typed
<1>3. op' \in [Op -> Operations]
  BY <1>1, <1>2, RemovedOp
<1>4. \A q \in Op : \/ op'[q] = op[q]
                    \/ /\ op'[q].state = "Deleted" /\ op'[q].quiet = FALSE
                       /\ op[q].state # "Absent"
  BY <1>1, <1>2, RemovedOp
<1>5. InOrder'
  BY <1>2, <1>4 DEF InOrder
<1>6. QuietIsAlone'
  BY <1>2, <1>4 DEF QuietIsAlone, LiveDrill, Live, InFlight
<1>7. FixedTargets'
  BY <1>2, <1>4 DEF FixedTargets, Live
<1> QED BY <1>3, <1>5, <1>6, <1>7 DEF OpsOnly

\* So every step keeps it, and what an operation is for never changes.
LEMMA OpStepKeeps ==
  ASSUME OpsInv, OpStep
  PROVE  /\ OpsOnly'
         /\ \A q \in Op : op[q].type # "none" => op'[q].type = op[q].type
<1>1. CASE op' = op
  <2>1. \A q \in Op : (InFlight(q)' <=> InFlight(q)) /\ (Live(q)' <=> Live(q))
    BY <1>1 DEF InFlight, Live
  <2> QED BY <1>1, <2>1 DEF OpsInv, OpsOnly, Typed, InOrder, QuietIsAlone, FixedTargets, LiveDrill
<1>2. ASSUME NEW o \in Op, NEW type \in {"drill", "cleanup"}, Makes(o, type)
      PROVE  OpsOnly' /\ \A q \in Op : op[q].type # "none" => op'[q].type = op[q].type
  BY <1>2, MakesKeeps, Empties
<1>3. ASSUME NEW o \in Op, Advances(o)
      PROVE  OpsOnly' /\ \A q \in Op : op[q].type # "none" => op'[q].type = op[q].type
  BY <1>3, AdvancesKeeps DEF Advances, Follows, OpsInv, Typed
<1>4. CASE Removes
  <2>1. \A q \in Op : op'[q].type = op[q].type
    BY <1>4, RemovedOp DEF Removes, OpsInv
  <2> QED BY <1>4, <2>1, RemovesKeeps
<1> QED BY <1>1, <1>2, <1>3, <1>4 DEF OpStep

(***************************************************************************)
(* The drill.                                                              *)
(***************************************************************************)

\* Some operations have a newest.
LEMMA Newest ==
  ASSUME NEW S \in SUBSET Op, S # {}
  PROVE  newestCleanup(S) \in S
<1> DEFINE after(x) == {y \in S : x < y}
           T == {after(x) : x \in S}
           R == StrictSubsetOrdering(Op)
<1>1. IsFiniteSet(Op) /\ Op \subseteq Int
  BY FS_Interval, DrillAssumption DEF Op
<1>2. \A x \in S : after(x) \in SUBSET Op /\ IsFiniteSet(after(x))
  BY <1>1, FS_Subset
<1>3. T \subseteq FiniteSubsetsOf(Op) /\ T # {}
  BY <1>2 DEF FiniteSubsetsOf
<1>4. IsWellFoundedOn(R, FiniteSubsetsOf(Op))
  BY FS_StrictSubsetOrderingWellFounded
<1> HIDE DEF R
<1>5. \E x \in T : \A y \in T : <<y, x>> \notin R
  BY <1>3, <1>4, WFMin
<1>6. PICK x \in S : \A y \in S : <<after(y), after(x)>> \notin R
  BY <1>5
<1>7. ASSUME NEW y \in S, x < y PROVE FALSE
  <2>1. after(y) \subseteq after(x) /\ y \in after(x) /\ y \notin after(y)
    <3>1. x \in Int /\ y \in Int /\ \A z \in S : z \in Int
      BY <1>1
    <3>2. \A z \in S : y < z => x < z
      BY <1>7, <3>1
    <3>3. ~(y < y)
      BY <3>1
    <3> QED BY <1>7, <3>2, <3>3
  <2>2. <<after(y), after(x)>> \in R
    <3>1. after(y) \in SUBSET Op /\ after(x) \in SUBSET Op /\ after(y) # after(x)
      BY <2>1
    <3> HIDE DEF after
    <3> QED BY <2>1, <3>1 DEF R, StrictSubsetOrdering
  <2> QED BY <1>6, <2>2
<1>8. \A y \in S : y <= x
  BY <1>1, <1>7
<1> QED BY <1>8 DEF newestCleanup

\* What a pass of the drill controller does besides its operation.
DrillPass ==
  /\ drill' \in Statuses /\ spec' \in Specs /\ faults' \in Nat /\ faults' <= faults
  /\ UNCHANGED <<restore, env, world, edits, confirms>>
  /\ Awaited' /\ (Owed' => Owed)

Before == {"New", "Pending", "Ready"}
Waits == {"Executing", "CleaningUp"}

\* A status that is written, and what has to be shown of it.
LEMMA StatusWrites ==
  ASSUME OpsInv, NEW x \in Statuses,
         (WriteStatus(x) /\ spec' = spec) \/ WriteStamped(x),
         \A q \in Op : op[q].type # "none" => op'[q].type = op[q].type,
         UNCHANGED <<restore, env, world, edits, confirms>>,
         x.state \in Waits => x.op \in Op,
         x.state = "CleaningUp" => op'[x.op].type = "cleanup",
         x.state \in Before /\ spec.confirmed => drill.state \in Before
  PROVE  DrillPass
<1> DEFINE y == [x EXCEPT !.completed = TRUE]
<1>1. Typed /\ Awaited /\ spec \in Specs /\ drill \in Statuses
  BY DEF OpsInv, Typed
<1>2. y \in Statuses /\ y.state = x.state /\ y.op = x.op
  BY StatusFields
<1>3. Stamped \in Specs /\ Stamped.confirmed = spec.confirmed
  BY <1>1 DEF Stamped, Specs
<1>4. (drill' = x \/ drill' = y \/ drill' = drill) /\ (spec' = spec \/ spec' = Stamped)
      /\ faults' \in Nat /\ faults' <= faults
  BY <1>1 DEF WriteStatus, WriteStamped, Fault, Typed
<1> HIDE DEF y
<1>5. drill' \in Statuses /\ spec' \in Specs /\ spec'.confirmed = spec.confirmed
  BY <1>1, <1>2, <1>3, <1>4
<1>6. Awaited'
  <2>1. CASE drill' = drill
    BY <1>1, <2>1 DEF Awaited
  <2>2. CASE drill'.state = x.state /\ drill'.op = x.op
    BY <2>2 DEF Awaited, Waits
  <2> QED BY <1>2, <1>4, <2>1, <2>2
<1>7. Owed' => Owed
  BY <1>2, <1>4, <1>5 DEF Owed, Before
<1> QED BY <1>4, <1>5, <1>6, <1>7 DEF DrillPass

\* A snapshot of the topology and of the backups.
LEMMA Snapshots ==
  ASSUME OpsInv, drill.state = "Pending"
  PROVE  /\ \A t \in {"Failed", "Ready"} :
              LET x == [[drill EXCEPT !.target = ResolvedTarget, !.mode = resolveRestoreMode] EXCEPT !.state = t]
              IN  x \in Statuses /\ x.state = t
<1>1. Typed /\ drill \in Statuses /\ spec.target \in Cluster \cup {"auto"}
  BY DEF OpsInv, Typed, Specs
<1>2. ResolvedTarget \in Cluster \cup {"none", "auto"}
  BY <1>1, Secondaries DEF ResolvedTarget
<1>3. resolveRestoreMode \in Modes
  BY <1>1 DEF resolveRestoreMode, Typed, Worlds, Modes
<1> QED BY <1>1, <1>2, <1>3 DEF Statuses, DrillStates

\* The drill waits for, or reports, operation o.
With(t, o) == [drill EXCEPT !.state = t, !.op = o]

\* That is a status.
LEMMA WithFields ==
  ASSUME Typed, NEW t \in DrillStates, NEW o \in Op
  PROVE  With(t, o) \in Statuses /\ With(t, o).state = t /\ With(t, o).op = o
<1>1. drill \in Statuses
  BY DEF Typed
<1> QED BY <1>1 DEF With, Statuses

\* The handlers that make no operation.
LEMMA PlainPasses ==
  ASSUME OpsInv, ReconcileDrill, ~handleReady, ~triggerCleanup
  PROVE  DrillPass
<1>1. Typed /\ drill \in Statuses /\ spec \in Specs /\ faults \in Nat
  BY DEF OpsInv, Typed
<1>2. {"Pending", "Failed", "Ready", "Completed", "CleanedUp"} \subseteq DrillStates
  BY DEF DrillStates
<1>3. \A t \in DrillStates : LET x == [drill EXCEPT !.state = t] IN x \in Statuses /\ x.state = t
  BY <1>1, StatusFields
<1>4. CASE Accept
  BY <1>1, <1>2, <1>3, <1>4, StatusWrites DEF Accept, Before, Waits
<1>5. CASE handlePending
  <2>1. \E x \in Statuses : WriteStatus(x) /\ x.state \in {"Failed", "Ready"}
    BY <1>2, <1>3, <1>5, Snapshots DEF handlePending
  <2> QED BY <1>5, <2>1, StatusWrites DEF handlePending, Before, Waits
<1>6. CASE rejectReady
  <2>1. [drill EXCEPT !.state = "Failed"] \in Statuses /\ [drill EXCEPT !.state = "Failed"].state = "Failed"
    BY <1>2, <1>3
  <2> QED BY <1>6, <2>1, StatusWrites DEF rejectReady, Before, Waits
<1>7. CASE handleExecuting
  <2>1. op[drill.op].state \in {"Completed", "Failed"} \/ Missing(drill.op)
    BY <1>7 DEF handleExecuting, Ended
  <2>2. \E t \in {"Completed", "Failed"} :
          LET x == [drill EXCEPT !.state = t] IN (WriteStatus(x) /\ spec' = spec) \/ WriteStamped(x)
    BY <1>7, <2>1 DEF handleExecuting
  <2> QED BY <1>2, <1>3, <1>7, <2>2, StatusWrites DEF handleExecuting, Before, Waits
<1>8. CASE handleCleaningUp
  <2>1. drill.op \in Op
    BY <1>8 DEF OpsInv, Awaited, handleCleaningUp
  <2>2. \E t \in {"CleanedUp", "Failed"} :
          \/ LET x == [drill EXCEPT !.state = t] IN WriteStatus(x) /\ spec' = spec
          \/ LET x == With(t, drill.op) IN (WriteStatus(x) /\ spec' = spec) \/ WriteStamped(x)
    BY <1>8 DEF handleCleaningUp, syncCleanupOperationStatus, With
  <2>3. \A t \in {"CleanedUp", "Failed"} : With(t, drill.op) \in Statuses /\ With(t, drill.op).state = t
    BY <1>1, <1>2, <2>1, WithFields
  <2>4. \E x \in Statuses : ((WriteStatus(x) /\ spec' = spec) \/ WriteStamped(x)) /\ x.state \in {"CleanedUp", "Failed"}
    BY <1>2, <1>3, <2>2, <2>3
  <2> QED BY <1>8, <2>4, StatusWrites DEF handleCleaningUp, Before, Waits
<1>9. CASE resetDrill
  <2>1. CASE spec.confirmed
    <3>1. spec' = [spec EXCEPT !.confirmed = FALSE] /\ UNCHANGED <<drill, faults, op>>
          /\ UNCHANGED <<restore, env, world, edits, confirms>>
      BY <1>9, <2>1 DEF resetDrill
    <3>2. spec' \in Specs /\ spec'.confirmed = FALSE
      BY <1>1, <3>1 DEF Specs
    <3>3. Awaited' /\ faults' \in Nat /\ faults' <= faults
      BY <1>1, <3>1 DEF OpsInv, Awaited
    <3> QED BY <1>1, <3>1, <3>2, <3>3 DEF DrillPass, Owed
  <2>2. CASE ~spec.confirmed
    <3>1. [NoStatus EXCEPT !.state = "Pending"] \in Statuses
          /\ [NoStatus EXCEPT !.state = "Pending"].state = "Pending"
      BY <1>2, Empties, StatusFields
    <3> QED BY <1>9, <2>2, <3>1, StatusWrites DEF resetDrill, Before, Waits
  <2> QED BY <2>1, <2>2
<1> QED BY <1>4, <1>5, <1>6, <1>7, <1>8, <1>9 DEF ReconcileDrill

\* The handlers that may make one.
LEMMA MakingPasses ==
  ASSUME OpsInv, handleReady \/ triggerCleanup
  PROVE  DrillPass
<1>1. Typed /\ drill \in Statuses
  BY DEF OpsInv, Typed
<1>2. OpStep /\ \A q \in Op : op[q].type # "none" => op'[q].type = op[q].type
  <2>1. ReconcileDrill
    BY DEF ReconcileDrill
  <2>2. OpStep
    BY <1>1, <2>1, ReconcileDrillSteps DEF OpStep
  <2> QED BY <2>2, OpStepKeeps
<1>3. {"Executing", "CleaningUp", "CleanedUp", "Failed"} \subseteq DrillStates
  BY DEF DrillStates
<1>4. \A t \in {"Executing", "CleaningUp", "CleanedUp", "Failed"}, o \in Op :
        With(t, o) \in Statuses /\ With(t, o).state = t /\ With(t, o).op = o
  BY <1>1, <1>3, WithFields
<1>5. CASE handleReady
  <2>1. PICK o \in Op : WriteStatus(With("Executing", o))
    BY <1>5 DEF handleReady, Adoptable, With
  <2>2. With("Executing", o) \in Statuses /\ With("Executing", o).state = "Executing" /\ With("Executing", o).op = o
    BY <1>4
  <2>3. spec' = spec /\ UNCHANGED <<restore, env, world, edits, confirms>>
    BY <1>5 DEF handleReady
  <2> QED BY <1>2, <2>1, <2>2, <2>3, StatusWrites DEF Before, Waits
<1>6. CASE triggerCleanup
  <2> DEFINE cleanups == {o \in Op : op[o].type = "cleanup"}
             going == {o \in cleanups : InFlight(o)}
             done == {o \in cleanups : Ended(o)}
  <2>1. UNCHANGED <<restore, env, world, edits, confirms>>
    BY <1>6 DEF triggerCleanup
  <2>2. CASE going # {}
    <3> DEFINE o == newestCleanup(going)
    <3>1. WriteStatus(With("CleaningUp", o)) /\ spec' = spec /\ op' = op
      BY <1>6, <2>2 DEF triggerCleanup, With
    <3>2. o \in Op /\ op[o].type = "cleanup"
      BY <2>2, Newest
    <3> HIDE DEF o
    <3>3. With("CleaningUp", o) \in Statuses /\ With("CleaningUp", o).state = "CleaningUp"
          /\ With("CleaningUp", o).op = o
      BY <1>4, <3>2
    <3> QED BY <1>2, <2>1, <3>1, <3>2, <3>3, StatusWrites DEF Before, Waits
  <2>3. CASE going = {} /\ done # {}
    <3> DEFINE o == newestCleanup(done)
    <3>1. o \in Op
      BY <2>3, Newest
    <3>2. syncCleanupOperationStatus(o)
      BY <1>6, <2>3 DEF triggerCleanup
    <3> HIDE DEF o
    <3>3. PICK t \in {"CleanedUp", "Failed"} :
            (WriteStatus(With(t, o)) /\ spec' = spec) \/ WriteStamped(With(t, o))
      BY <3>2 DEF syncCleanupOperationStatus, With
    <3>4. With(t, o) \in Statuses /\ With(t, o).state = t
      BY <1>4, <3>1
    <3> DEFINE x == With(t, o)
    <3>5. /\ x \in Statuses /\ ((WriteStatus(x) /\ spec' = spec) \/ WriteStamped(x))
          /\ x.state \notin Waits /\ x.state \notin Before /\ x.state # "CleaningUp"
      BY <3>3, <3>4 DEF Before, Waits
    <3> HIDE DEF x
    <3> QED BY <1>2, <2>1, <3>5, StatusWrites
  <2>4. CASE going = {} /\ done = {}
    <3>1. PICK o \in Op : /\ Makes(o, "cleanup") /\ spec' = spec
                          /\ WriteStatus(With("CleaningUp", o))
      BY <1>6, <2>4 DEF triggerCleanup, Makes, With
    <3>2. op'[o].type = "cleanup"
      BY <3>1, MakesKeeps
    <3>3. With("CleaningUp", o) \in Statuses /\ With("CleaningUp", o).state = "CleaningUp"
          /\ With("CleaningUp", o).op = o
      BY <1>4
    <3> QED BY <1>2, <2>1, <3>1, <3>2, <3>3, StatusWrites DEF Before, Waits
  <2> QED BY <1>6, <2>2, <2>3, <2>4
<1> QED BY <1>5, <1>6

(***************************************************************************)
(* The values of the rest, and OpsInv.                                     *)
(***************************************************************************)
RestoreType == [Op -> [Parts -> AppRestores]]
EnvType == [Cluster -> SUBSET (Parts \cup {"up"})]

\* An operation that is still to find its target has the secondary.
LEMMA Targets ==
  ASSUME Typed, FixedTargets, NEW o \in Op, Live(o)
  PROVE  TargetOf(o) \in Cluster
BY Secondaries DEF TargetOf, FixedTargets

\* A write ends well, or is lost.
LEMMA FaultBudget ==
  ASSUME Typed
  PROVE  /\ \A f : Fault(f) => faults' \in Nat /\ faults' < faults
         /\ \A o, x : Write(o, x) \/ WriteUnchecked(o, x) => faults' \in Nat /\ faults' <= faults
         /\ faults' = faults => faults' \in Nat /\ faults' <= faults
BY DEF Typed, Fault, Write, WriteUnchecked

\* A restore or an environment with an entry replaced.
LEMMA Entries ==
  ASSUME Typed
  PROVE  /\ \A o \in Op, p \in Parts, x \in AppRestores :
              [restore EXCEPT ![o] = [restore[o] EXCEPT ![p] = x]] \in RestoreType
         /\ \A c \in Cluster, e \in SUBSET (Parts \cup {"up"}) : [env EXCEPT ![c] = e] \in EnvType
         /\ \A c \in Cluster, e \in Parts \cup {"up"} : [env EXCEPT ![c] = @ \cup {e}] \in EnvType
<1>1. restore \in RestoreType /\ env \in EnvType
  BY DEF Typed, RestoreType, EnvType
<1>2. ASSUME NEW o \in Op, NEW p \in Parts, NEW x \in AppRestores
      PROVE  [restore EXCEPT ![o] = [restore[o] EXCEPT ![p] = x]] \in RestoreType
  <2>1. restore[o] \in [Parts -> AppRestores]
    BY <1>1 DEF RestoreType
  <2>2. [restore[o] EXCEPT ![p] = x] \in [Parts -> AppRestores]
    BY <2>1
  <2> QED BY <1>1, <2>2 DEF RestoreType
<1>3. ASSUME NEW c \in Cluster, NEW e \in SUBSET (Parts \cup {"up"})
      PROVE  [env EXCEPT ![c] = e] \in EnvType
  BY <1>1 DEF EnvType
<1>4. ASSUME NEW c \in Cluster, NEW e \in Parts \cup {"up"}
      PROVE  [env EXCEPT ![c] = @ \cup {e}] \in EnvType
  <2>1. env[c] \cup {e} \in SUBSET (Parts \cup {"up"})
    BY <1>1 DEF EnvType
  <2> QED BY <1>1, <2>1 DEF EnvType
<1> QED BY <1>2, <1>3, <1>4

\* What a pass over an operation leaves alone, and the values it writes.
LEMMA OpPass ==
  ASSUME OpsInv, NEW o \in Op, ReconcileOp(o)
  PROVE  /\ UNCHANGED <<spec, drill, world, edits, confirms>>
         /\ restore' \in RestoreType /\ env' \in EnvType
         /\ faults' \in Nat /\ faults' <= faults
<1>1. Typed /\ FixedTargets /\ restore \in RestoreType /\ env \in EnvType
  BY DEF OpsInv, Typed, RestoreType, EnvType
<1>2. UNCHANGED <<spec, drill, world, edits, confirms>>
  BY DEF ReconcileOp, StartOp, InstanceGone, StartStep, executeRestore, executeDrillScaleUp, StepFails,
         CompleteDrill, handleDrillCleanup
<1>3. faults' \in Nat /\ faults' <= faults
  <2>1. CASE StartOp(o) \/ InstanceGone(o) \/ StartStep(o) \/ executeRestore(o)
             \/ executeDrillScaleUp(o) \/ CompleteDrill(o)
    <3>1. (\E x : Write(o, x) \/ WriteUnchecked(o, x)) \/ Fault("lostWrite") \/ faults' = faults
      BY <2>1 DEF StartOp, InstanceGone, StartStep, executeRestore, CheckRestore, CreateRestore,
                  executeDrillScaleUp, CompleteDrill
    <3>2. Fault("lostWrite") => faults' \in Nat /\ faults' <= faults
      BY <1>1 DEF Fault, Typed
    <3> QED BY <1>1, <3>1, <3>2, FaultBudget
  <2>2. CASE StepFails(o) \/ handleDrillCleanup(o)
    <3>1. \/ (\E x : Write(o, x)) \/ Fault("callError") \/ faults' = faults
          \/ faults > 1 /\ faults' = faults - 2
      BY <2>2 DEF StepFails, handleDrillCleanup
    <3>2. Fault("callError") \/ (faults > 1 /\ faults' = faults - 2) => faults' \in Nat /\ faults' <= faults
      BY <1>1 DEF Fault, Typed
    <3> QED BY <1>1, <3>1, <3>2, FaultBudget
  <2> QED BY <2>1, <2>2 DEF ReconcileOp
<1>4. op[o].state = "Running" => TargetOf(o) \in Cluster
  BY <1>1, Targets DEF Live
<1>5. CASE executeRestore(o)
  <2>1. op[o].state = "Running" /\ Step(o) \in Parts /\ env' = env
    BY <1>5 DEF executeRestore, Executes, Active
  <2> DEFINE x == [state |-> "Running", target |-> TargetOf(o)]
  <2>2. x \in AppRestores
    BY <1>4, <2>1 DEF AppRestores
  <2>3. restore' = restore \/ restore' = [restore EXCEPT ![o] = [restore[o] EXCEPT ![Step(o)] = x]]
    BY <1>5 DEF executeRestore, CreateRestore
  <2> HIDE DEF x
  <2> QED BY <1>1, <1>2, <1>3, <2>1, <2>2, <2>3, Entries
<1>6. CASE executeDrillScaleUp(o)
  <2>1. op[o].state = "Running" /\ restore' = restore /\ env' = [env EXCEPT ![TargetOf(o)] = @ \cup {"up"}]
    BY <1>6 DEF executeDrillScaleUp, Executes, Active
  <2> QED BY <1>1, <1>2, <1>3, <1>4, <2>1, Entries
<1>7. CASE handleDrillCleanup(o)
  <2>1. op[o].state = "Running" /\ restore' = restore /\ (env' = env \/ env' = Cleaned(o))
    BY <1>7 DEF handleDrillCleanup
  <2> DEFINE e == IF spec.mapped THEN {} ELSE env[TargetOf(o)] \ {"up"}
  <2>2. e \in SUBSET (Parts \cup {"up"})
    BY <1>1, <1>4, <2>1 DEF EnvType
  <2>3. Cleaned(o) = [env EXCEPT ![TargetOf(o)] = e]
    BY DEF Cleaned
  <2> HIDE DEF e
  <2> QED BY <1>1, <1>2, <1>3, <1>4, <2>1, <2>2, <2>3, Entries
<1>8. CASE ~executeRestore(o) /\ ~executeDrillScaleUp(o) /\ ~handleDrillCleanup(o)
  BY <1>1, <1>2, <1>3, <1>8 DEF ReconcileOp, StartOp, InstanceGone, StartStep, StepFails, CompleteDrill
<1> QED BY <1>5, <1>6, <1>7, <1>8

\* The end of an AppRestore.
LEMMA RestorePass ==
  ASSUME OpsInv, NEW o \in Op, NEW p \in Parts, RestoreEnds(o, p)
  PROVE  /\ UNCHANGED <<spec, drill, op, world, faults, edits, confirms>>
         /\ restore' \in RestoreType /\ env' \in EnvType
<1>1. Typed /\ restore[o] \in [Parts -> AppRestores] /\ restore[o][p] \in AppRestores /\ env \in EnvType
  BY DEF OpsInv, Typed, EnvType
<1>2. \E t \in {"Succeeded", "Failed"} :
        restore' = [restore EXCEPT ![o] = [restore[o] EXCEPT ![p] = [restore[o][p] EXCEPT !.state = t]]]
  BY <1>1 DEF RestoreEnds
<1>3. \A t \in {"Succeeded", "Failed"} : [restore[o][p] EXCEPT !.state = t] \in AppRestores
  BY <1>1 DEF AppRestores
<1>4. restore' \in RestoreType
  <2>1. PICK x \in AppRestores : restore' = [restore EXCEPT ![o] = [restore[o] EXCEPT ![p] = x]]
    BY <1>2, <1>3
  <2>2. [restore EXCEPT ![o] = [restore[o] EXCEPT ![p] = x]] \in RestoreType
    BY <1>1, Entries
  <2> QED BY <2>1, <2>2
<1>5. env' \in EnvType
  <2>1. env' = env \/ env' = [env EXCEPT ![restore[o][p].target] = env[restore[o][p].target] \cup {p}]
    BY DEF RestoreEnds
  <2>2. \A t : [env EXCEPT ![t] = env[t] \cup {p}] \in EnvType
    <3>1. ASSUME NEW t PROVE [env EXCEPT ![t] = env[t] \cup {p}] \in EnvType
      <4>1. CASE t \in Cluster
        BY <1>1, <4>1, Entries
      <4>2. CASE t \notin Cluster
        BY <1>1, <4>2 DEF EnvType
      <4> QED BY <4>1, <4>2
    <3> QED BY <3>1
  <2> QED BY <1>1, <2>1, <2>2
<1> QED BY <1>4, <1>5 DEF RestoreEnds

\* What users and the system around the drill do.
LEMMA UserPass ==
  ASSUME OpsInv, UserStep
  PROVE  /\ env' = env
         /\ \/ drill' = drill
            \/ DeleteDrill /\ drill' \in Statuses /\ drill'.state = "Deleted" /\ spec' = spec
         /\ spec' \in Specs /\ restore' \in RestoreType /\ world' \in Worlds
         /\ faults' \in Nat /\ faults' <= faults /\ edits' \in Nat /\ confirms' \in Nat
         /\ \/ spec'.confirmed = spec.confirmed /\ confirms' = confirms
            \/ spec'.confirmed /\ confirms' = confirms + 1 /\ UNCHANGED <<op, restore, faults>>
         /\ UNCHANGED restore \/ \E o \in Op, p \in Parts : DeleteRestore(o, p) \/ CancelRestore(o, p)
<1>1. Typed /\ spec \in Specs /\ drill \in Statuses /\ restore \in RestoreType /\ world \in Worlds
      /\ faults \in Nat /\ edits \in Nat /\ confirms \in Nat
  BY DEF OpsInv, Typed, RestoreType
<1>2. \A f : Fault(f) => faults' \in Nat /\ faults' <= faults
  BY <1>1 DEF Fault
<1>3. CASE Confirm \/ ToggleCleanUp \/ AskRestart
  <2>1. /\ spec' \in Specs
        /\ \/ spec'.confirmed = spec.confirmed /\ confirms' = confirms
           \/ spec'.confirmed /\ confirms' = confirms + 1
    BY <1>1, <1>3 DEF Confirm, ToggleCleanUp, AskRestart, Edit, Specs
  <2>2. edits' \in Nat /\ UNCHANGED <<drill, op, restore, env, world, faults>>
    BY <1>1, <1>3 DEF Confirm, ToggleCleanUp, AskRestart, Edit
  <2>3. confirms + 1 \in Nat
    BY <1>1
  <2> QED BY <1>1, <2>1, <2>2, <2>3
<1>4. CASE WorldChanges
  <2>1. \/ world' = [world EXCEPT !.primary = secondary]
        \/ \E m \in Modes : world' = [world EXCEPT !.backup = m]
        \/ world' = [world EXCEPT !.ready = ~@]
        \/ world' = [world EXCEPT !.pods = ~@]
        \/ \E i \in {"Absent", "Unfit"} : world' = [world EXCEPT !.instance = i]
    BY <1>4 DEF WorldChanges
  <2>2. world' \in Worlds
    BY <1>1, <2>1, Secondaries DEF Worlds
  <2>3. faults' \in Nat /\ faults' <= faults
    BY <1>2, <1>4 DEF WorldChanges
  <2> QED BY <1>1, <1>4, <2>2, <2>3 DEF WorldChanges
<1>5. CASE DeleteDrill
  <2>1. drill' \in Statuses /\ drill'.state = "Deleted"
    BY <1>1, <1>5, StatusFields DEF DeleteDrill, DrillStates
  <2>2. faults' \in Nat /\ faults' <= faults
    BY <1>2, <1>5 DEF DeleteDrill
  <2> QED BY <1>1, <1>5, <2>1, <2>2 DEF DeleteDrill
<1>6. ASSUME NEW o \in Op, DeleteOp(o)
      PROVE  UNCHANGED <<spec, drill, restore, env, world, edits, confirms>> /\ faults' \in Nat /\ faults' <= faults
  BY <1>2, <1>6 DEF DeleteOp
<1>7. ASSUME NEW o \in Op, NEW p \in Parts, DeleteRestore(o, p)
      PROVE  /\ UNCHANGED <<spec, drill, op, env, world, edits, confirms>> /\ faults' \in Nat /\ faults' <= faults
             /\ restore' \in RestoreType
  <2>1. restore' = [restore EXCEPT ![o] = [restore[o] EXCEPT ![p] = NoRestore]]
    BY <1>7 DEF DeleteRestore
  <2> QED BY <1>1, <1>2, <1>7, <2>1, Empties, Entries DEF DeleteRestore
<1>8. ASSUME NEW o \in Op, NEW p \in Parts, CancelRestore(o, p)
      PROVE  /\ UNCHANGED <<spec, drill, op, env, world, edits, confirms>> /\ faults' \in Nat /\ faults' <= faults
             /\ restore' \in RestoreType
  <2> DEFINE x == [restore[o][p] EXCEPT !.state = "Cancelled"]
  <2>1. restore' = [restore EXCEPT ![o] = [restore[o] EXCEPT ![p] = x]]
    BY <1>8 DEF CancelRestore
  <2>2. x \in AppRestores
    <3>1. restore[o][p] \in AppRestores
      BY <1>1 DEF RestoreType
    <3> QED BY <3>1 DEF AppRestores
  <2> HIDE DEF x
  <2>3. restore' \in RestoreType
    BY <1>1, <2>1, <2>2, Entries
  <2> QED BY <1>2, <1>8, <2>3 DEF CancelRestore
<1> QED BY <1>1, <1>3, <1>4, <1>5, <1>6, <1>7, <1>8 DEF UserStep

\* The operations stay in order, whatever the step.
LEMMA OpsInvKeeps ==
  ASSUME OpsInv, [Next]_vars
  PROVE  OpsInv'
<1>1. Typed /\ Awaited /\ faults \in Nat /\ edits \in Nat /\ confirms \in Nat
  BY DEF OpsInv, Typed
<1>2. OpsOnly' /\ \A q \in Op : op[q].type # "none" => op'[q].type = op[q].type
  BY <1>1, EveryOpStep, OpStepKeeps
<1>3. drill' = drill => Awaited'
  BY <1>1, <1>2 DEF Awaited
<1>4. spec \in Specs /\ drill \in Statuses /\ restore \in RestoreType /\ env \in EnvType /\ world \in Worlds
  BY <1>1 DEF Typed, RestoreType, EnvType
<1>5. SUFFICES /\ spec' \in Specs /\ drill' \in Statuses /\ restore' \in RestoreType /\ env' \in EnvType
               /\ world' \in Worlds /\ faults' \in Nat /\ edits' \in Nat /\ confirms' \in Nat /\ Awaited'
  BY <1>2 DEF OpsInv, OpsOnly, Typed, RestoreType, EnvType
<1>6. CASE ReconcileDrill
  <2>1. DrillPass
    BY <1>6, PlainPasses, MakingPasses
  <2> QED BY <1>1, <1>4, <2>1 DEF DrillPass
<1>7. ASSUME NEW o \in Op, ReconcileOp(o) PROVE <1>5!1
  BY <1>1, <1>3, <1>4, <1>7, OpPass
<1>8. ASSUME NEW o \in Op, NEW p \in Parts, RestoreEnds(o, p) PROVE <1>5!1
  BY <1>1, <1>3, <1>4, <1>8, RestorePass
<1>9. CASE UserStep
  <2>1. drill'.state = "Deleted" => Awaited'
    BY DEF Awaited
  <2> QED BY <1>1, <1>3, <1>4, <1>9, <2>1, UserPass
<1>10. CASE UNCHANGED vars
  BY <1>1, <1>3, <1>4, <1>10 DEF vars
<1>11. ASSUME NEW o \in Op, Requeued(o) PROVE <1>5!1
  BY <1>1, <1>3, <1>4, <1>11, RequeueSteps
<1> QED BY <1>6, <1>7, <1>8, <1>9, <1>10, <1>11 DEF Next

\* It holds in the beginning.
LEMMA OpsInvStarts == Init => OpsInv
<1> SUFFICES ASSUME Init PROVE OpsInv
  OBVIOUS
<1>1. spec \in Specs
  <2>1. PICK r \in Requests :
          spec = [kind |-> r.kind, target |-> r.target, mapped |-> r.mapped,
                  confirmed |-> FALSE, cleanUp |-> FALSE, restart |-> "none"]
    BY DEF Init
  <2>2. r \in [kind : Kinds, target : Cluster \cup {"auto"}, mapped : BOOLEAN]
    BY DrillAssumption
  <2> QED BY <2>1, <2>2 DEF Specs
<1>2. drill \in Statuses /\ drill.state = "New"
  BY Empties DEF Init, NoStatus
<1>3. op = [o \in Op |-> NoOp] /\ op \in [Op -> Operations]
  BY Empties DEF Init
<1>4. restore \in [Op -> [Parts -> AppRestores]]
  BY Empties DEF Init
<1>5. env \in [Cluster -> SUBSET (Parts \cup {"up"})]
  BY DEF Init
<1>6. world \in Worlds
  BY DEF Init, Worlds, Cluster, Modes
<1>7. faults \in Nat /\ edits \in Nat /\ confirms \in Nat
  BY DrillAssumption DEF Init
<1>8. InOrder /\ QuietIsAlone /\ FixedTargets
  BY <1>3, Empties DEF InOrder, QuietIsAlone, FixedTargets, LiveDrill, Live
<1>9. Awaited
  BY <1>2 DEF Awaited
<1> QED BY <1>1, <1>2, <1>3, <1>4, <1>5, <1>6, <1>7, <1>8, <1>9 DEF OpsInv, Typed

\* The types of a drill and of all that belongs to it, the order of its
\* operations, and that each drill operation was quiet when it was made.
THEOREM OpsInvHolds == Spec => []OpsInv
BY OpsInvStarts, OpsInvKeeps, PTL DEF Spec

\* However often its status writes are lost and whatever users restart, a drill
\* never has two operations restoring at a time (handleReady looks for one first).
THEOREM OneDrillAtATime == Spec => []OneDrillInFlight
<1>1. OpsInv => OneDrillInFlight
  <2> SUFFICES ASSUME OpsInv, NEW o \in Op, NEW q \in Op, InFlight(o), InFlight(q),
                      op[o].type = "drill", op[q].type = "drill"
               PROVE  o = q
    BY DEF OneDrillInFlight
  <2>1. op[o].quiet /\ op[q].quiet
    BY DEF OpsInv, QuietIsAlone, LiveDrill, Live, InFlight
  <2>2. ~(o < q) /\ ~(q < o)
    BY <2>1 DEF OpsInv, QuietIsAlone
  <2> QED BY <2>2 DEF Op
<1> QED BY <1>1, OpsInvHolds, PTL

(***************************************************************************)
(* Every run was confirmed.                                                *)
(***************************************************************************)

\* The drill operations can be counted, and a step that makes none has as many.
LEMMA DrillOpsCount ==
  ASSUME OpsInv
  PROVE  /\ IsFiniteSet(DrillOps) /\ Cardinality(DrillOps) \in Nat
         /\ \A T : T \subseteq DrillOps => Cardinality(T) \in Nat /\ Cardinality(T) <= Cardinality(DrillOps)
         /\ \A o, T : T \subseteq DrillOps \cup {o} =>
              Cardinality(T) \in Nat /\ Cardinality(T) <= Cardinality(DrillOps) + 1
<1>1. IsFiniteSet(Op)
  BY FS_Interval, DrillAssumption DEF Op
<1>2. IsFiniteSet(DrillOps) /\ Cardinality(DrillOps) \in Nat
  BY <1>1, FS_Subset, FS_CardinalityType DEF DrillOps
<1>3. ASSUME NEW T, T \subseteq DrillOps
      PROVE  Cardinality(T) \in Nat /\ Cardinality(T) <= Cardinality(DrillOps)
  BY <1>2, <1>3, FS_Subset, FS_CardinalityType
<1>4. ASSUME NEW o, NEW T, T \subseteq DrillOps \cup {o}
      PROVE  Cardinality(T) \in Nat /\ Cardinality(T) <= Cardinality(DrillOps) + 1
  <2>1. IsFiniteSet(DrillOps \cup {o}) /\ Cardinality(DrillOps \cup {o}) <= Cardinality(DrillOps) + 1
    BY <1>2, FS_AddElement
  <2>2. IsFiniteSet(T) /\ Cardinality(T) <= Cardinality(DrillOps \cup {o})
    BY <1>4, <2>1, FS_Subset
  <2>3. Cardinality(T) \in Nat /\ Cardinality(DrillOps \cup {o}) \in Nat
    BY <2>1, <2>2, FS_CardinalityType
  <2> QED BY <1>2, <2>1, <2>2, <2>3
<1> QED BY <1>2, <1>3, <1>4

\* Only a drill operation that is made counts.
LEMMA OnlyMakingCounts ==
  ASSUME OpsInv, OpStep, \A o \in Op : ~Makes(o, "drill")
  PROVE  DrillOps' \subseteq DrillOps
<1>1. op \in [Op -> Operations] /\ Typed
  BY DEF OpsInv, Typed
<1>2. CASE op' = op
  BY <1>2 DEF DrillOps
<1>3. ASSUME NEW o \in Op, Makes(o, "cleanup") PROVE DrillOps' \subseteq DrillOps
  BY <1>3, MakesKeeps DEF DrillOps
<1>4. ASSUME NEW o \in Op, Advances(o) PROVE DrillOps' \subseteq DrillOps
  BY <1>1, <1>4 DEF DrillOps, Advances, Follows
<1>5. CASE Removes
  BY <1>1, <1>5, RemovedOp DEF DrillOps, Removes
<1> QED BY <1>2, <1>3, <1>4, <1>5 DEF OpStep

\* How the drill operations, the confirmation, and the bounds may change.
Accounted ==
  \/ /\ DrillOps' \subseteq DrillOps /\ faults' <= faults
     /\ \/ (Owed' => Owed) /\ confirms' = confirms
        \/ confirms' = confirms + 1
  \/ \E o \in Op : /\ DrillOps' \subseteq DrillOps \cup {o} /\ Owed /\ confirms' = confirms
                   /\ \/ ~Owed' /\ faults' <= faults
                      \/ faults' < faults

\* Every step is accounted for.
LEMMA EveryStepAccounted ==
  ASSUME OpsInv, [Next]_vars
  PROVE  Accounted
<1>1. Typed /\ OpStep /\ faults \in Nat
  BY EveryOpStep DEF OpsInv, Typed
<1>2. ASSUME NEW o \in Op, Makes(o, "drill"), handleReady
      PROVE  Accounted
  <2>1. DrillOps' \subseteq DrillOps \cup {o}
    BY <1>2, MakesKeeps DEF DrillOps
  <2>2. Owed /\ confirms' = confirms
    BY <1>2 DEF handleReady, Owed
  <2>3. \E q \in Op : WriteStatus(With("Executing", q))
    BY <1>2 DEF handleReady, Adoptable, With
  <2>4. \A q \in Op : With("Executing", q).state = "Executing"
    BY <1>1, WithFields DEF DrillStates
  <2>5. (drill'.state = "Executing" /\ faults' = faults) \/ faults' < faults
    BY <1>1, <2>3, <2>4, FaultBudget DEF WriteStatus
  <2> QED BY <1>1, <2>1, <2>2, <2>5 DEF Accounted, Owed
<1>3. CASE ReconcileDrill
  <2>1. DrillPass
    BY <1>3, PlainPasses, MakingPasses
  <2>2. CASE \E o \in Op : Makes(o, "drill") /\ handleReady
    BY <1>2, <2>2
  <2>3. CASE \A o \in Op : ~(Makes(o, "drill") /\ handleReady)
    <3>1. DrillOps' \subseteq DrillOps
      <4>1. CASE handleReady
        BY <1>1, <2>3, <4>1, OnlyMakingCounts
      <4>2. CASE triggerCleanup
        <5>1. op' = op \/ \E o \in Op : Makes(o, "cleanup")
          BY <4>2 DEF triggerCleanup, Makes
        <5>2. \A o \in Op : Makes(o, "cleanup") => DrillOps' \subseteq DrillOps
          BY MakesKeeps DEF DrillOps
        <5> QED BY <5>1, <5>2 DEF DrillOps
      <4>3. CASE ~handleReady /\ ~triggerCleanup
        <5>1. op' = op
          BY <1>3, <4>3 DEF ReconcileDrill, Accept, handlePending, rejectReady, handleExecuting,
                            handleCleaningUp, resetDrill
        <5> QED BY <5>1 DEF DrillOps
      <4> QED BY <4>1, <4>2, <4>3
    <3> QED BY <2>1, <3>1 DEF Accounted, DrillPass
  <2> QED BY <2>2, <2>3
<1>4. CASE ~ReconcileDrill
  <2>1. op' = op \/ (\E o \in Op : Advances(o)) \/ Removes
    <3>1. ASSUME NEW o \in Op, ReconcileOp(o) PROVE op' = op \/ (\E q \in Op : Advances(q)) \/ Removes
      BY <1>1, <3>1, ReconcileOpSteps
    <3>2. ASSUME NEW o \in Op, NEW p \in Parts, RestoreEnds(o, p) \/ DeleteRestore(o, p) \/ CancelRestore(o, p)
          PROVE  op' = op
      BY <3>2 DEF RestoreEnds, DeleteRestore, CancelRestore
    <3>3. Confirm \/ ToggleCleanUp \/ AskRestart \/ WorldChanges \/ UNCHANGED vars => op' = op
      BY DEF Confirm, ToggleCleanUp, AskRestart, WorldChanges, Edit, vars
    <3>4. DeleteDrill \/ (\E o \in Op : DeleteOp(o)) => Removes
      BY <1>1, DeletionSteps
    <3>5. ASSUME NEW o \in Op, Requeued(o) PROVE \E q \in Op : Advances(q)
      BY <1>1, <3>5, RequeueSteps
    <3> QED BY <1>4, <3>1, <3>2, <3>3, <3>4, <3>5 DEF Next, UserStep
  <2>2. DrillOps' \subseteq DrillOps
    <3>1. CASE op' = op
      BY <3>1 DEF DrillOps
    <3>2. ASSUME NEW o \in Op, Advances(o) PROVE DrillOps' \subseteq DrillOps
      BY <1>1, <3>2 DEF DrillOps, Advances, Follows, Typed
    <3>3. CASE Removes
      BY <1>1, <3>3, RemovedOp DEF DrillOps, Removes, Typed
    <3> QED BY <2>1, <3>1, <3>2, <3>3
  <2>3. CASE UserStep
    <3>1. faults' <= faults
      BY <2>3, UserPass
    <3>2. ((Owed' => Owed) /\ confirms' = confirms) \/ confirms' = confirms + 1
      BY <2>3, UserPass DEF Owed
    <3> QED BY <2>2, <3>1, <3>2 DEF Accounted
  <2>4. CASE UNCHANGED vars
    BY <1>1, <2>2, <2>4 DEF vars, Accounted, Owed
  <2>5. ASSUME NEW o \in Op, ReconcileOp(o) PROVE Accounted
    BY <2>2, <2>5, OpPass DEF Accounted, Owed
  <2>6. ASSUME NEW o \in Op, NEW p \in Parts, RestoreEnds(o, p) PROVE Accounted
    BY <1>1, <2>2, <2>6, RestorePass DEF Accounted, Owed
  <2>7. ASSUME NEW o \in Op, Requeued(o) PROVE Accounted
    BY <1>1, <2>2, <2>7, RequeueSteps DEF Accounted, Owed
  <2> QED BY <1>4, <2>3, <2>4, <2>5, <2>6, <2>7 DEF Next
<1> QED BY <1>3, <1>4

\* So the ledger stays balanced.
LEMMA LedgerKeeps ==
  ASSUME OpsInv, Ledger, [Next]_vars
  PROVE  Ledger'
<1> DEFINE n == Cardinality(DrillOps)
           m == Cardinality(DrillOps')
           a == IF Owed THEN 1 ELSE 0
           b == IF Owed' THEN 1 ELSE 0
<1>1. Accounted /\ OpsInv'
  BY EveryStepAccounted, OpsInvKeeps
<1>2. faults \in Nat /\ confirms \in Nat /\ faults' \in Nat /\ confirms' \in Nat /\ MaxFaults \in Nat
  BY <1>1, DrillAssumption DEF OpsInv, Typed
<1>3. /\ n \in Nat /\ (DrillOps' \subseteq DrillOps => m \in Nat /\ m <= n)
      /\ ((\E o : DrillOps' \subseteq DrillOps \cup {o}) => m \in Nat /\ m <= n + 1)
  BY DrillOpsCount
<1>4. n + a <= confirms + (MaxFaults - faults)
  BY DEF Ledger
<1>5. \/ m \in Nat /\ m <= n /\ faults' <= faults /\ b <= a /\ confirms' = confirms
      \/ m \in Nat /\ m <= n /\ faults' <= faults /\ confirms' = confirms + 1
      \/ m \in Nat /\ m <= n + 1 /\ a = 1 /\ b = 0 /\ confirms' = confirms /\ faults' <= faults
      \/ m \in Nat /\ m <= n + 1 /\ a = 1 /\ confirms' = confirms /\ faults' < faults
  BY <1>1, <1>3 DEF Accounted
<1>6. a \in {0, 1} /\ b \in {0, 1}
  OBVIOUS
<1> HIDE DEF n, m, a, b
<1>7. m + b <= confirms' + (MaxFaults - faults')
  BY <1>2, <1>3, <1>4, <1>5, <1>6
<1> QED BY <1>7 DEF Ledger, m, b

\* Every execution of a drill was confirmed by a user, or goes back to a status
\* write that was lost; an operation that was deleted since counts (resetDrill
\* takes the confirmation back before the drill is Pending again).
THEOREM RunsAreConfirmed == Spec => []EveryRunConfirmed
<1>1. Init => Ledger
  <2> SUFFICES ASSUME Init PROVE Ledger
    OBVIOUS
  <2>1. DrillOps = {}
    BY Empties DEF Init, DrillOps
  <2>2. ~Owed
    BY DEF Init, Owed
  <2>3. Cardinality(DrillOps) = 0
    BY <2>1, FS_EmptySet
  <2>4. confirms = 0 /\ faults = MaxFaults
    BY DEF Init
  <2> QED BY <2>2, <2>3, <2>4, DrillAssumption DEF Ledger
<1>2. OpsInv /\ Ledger => EveryRunConfirmed
  <2> SUFFICES ASSUME OpsInv, Ledger PROVE EveryRunConfirmed
    OBVIOUS
  <2>1. Cardinality(DrillOps) \in Nat
    BY DrillOpsCount
  <2>2. faults \in Nat /\ confirms \in Nat /\ MaxFaults \in Nat
    BY DrillAssumption DEF OpsInv, Typed
  <2>3. Cardinality(DrillOps) <= confirms + (MaxFaults - faults)
    BY <2>1, <2>2 DEF Ledger
  <2> QED BY <2>3 DEF EveryRunConfirmed, DrillOps
<1> QED BY <1>1, <1>2, LedgerKeeps, OpsInvHolds, PTL DEF Spec

(***************************************************************************)
(* The restores and what is left on the target.                            *)
(***************************************************************************)

\* The steps of a drill, by their numbers.
LEMMA StepNumbers ==
  ASSUME OpsInv, NEW o \in Op, LiveDrill(o)
  PROVE  /\ op[o] \in Operations /\ op[o].mode \in {"FullRestore", "ResourceOnly"}
         /\ Len(Steps(op[o].mode)) = (IF op[o].mode = "FullRestore" THEN 3 ELSE 2)
         /\ Executes(o) => /\ op[o].state = "Running" /\ op[o].step \in 1..Len(Steps(op[o].mode))
                           /\ Step(o) = "resource" => op[o].step = 1
                           /\ Step(o) = "data" => op[o].step = 2 /\ op[o].mode = "FullRestore"
                           /\ Step(o) = "scaleUp" => op[o].step = Len(Steps(op[o].mode))
<1>1. op[o] \in Operations /\ op[o].mode \in {"FullRestore", "ResourceOnly"}
  BY DEF OpsInv, Typed, QuietIsAlone, Operations, Modes
<1>2. Steps("FullRestore") = <<"resource", "data", "scaleUp">> /\ Steps("ResourceOnly") = <<"resource", "scaleUp">>
  BY DEF Steps
<1>3. op[o].step \in Nat
  BY <1>1 DEF Operations
<1>4. CASE op[o].mode = "FullRestore"
  <2> DEFINE k == op[o].step
             q == <<"resource", "data", "scaleUp">>
  <2>1. Len(q) = 3 /\ DOMAIN q = 1..3
    OBVIOUS
  <2>2. Len(Steps(op[o].mode)) = 3 /\ DOMAIN Steps(op[o].mode) = 1..3 /\ Step(o) = q[k]
    BY <1>2, <1>4, <2>1 DEF Step
  <2>3. Executes(o) => op[o].state = "Running" /\ k \in 1..3
    BY <2>2 DEF Executes, Active
  <2>4. (k = 1 => q[k] = "resource") /\ (k = 2 => q[k] = "data") /\ (k = 3 => q[k] = "scaleUp")
    OBVIOUS
  <2>5. k \in 1..3 => k \in {1, 2, 3}
    BY <1>3
  <2> HIDE DEF q
  <2> QED BY <1>1, <1>4, <2>2, <2>3, <2>4, <2>5
<1>5. CASE op[o].mode = "ResourceOnly"
  <2> DEFINE k == op[o].step
             q == <<"resource", "scaleUp">>
  <2>1. Len(q) = 2 /\ DOMAIN q = 1..2
    OBVIOUS
  <2>2. Len(Steps(op[o].mode)) = 2 /\ DOMAIN Steps(op[o].mode) = 1..2 /\ Step(o) = q[k]
    BY <1>2, <1>5, <2>1 DEF Step
  <2>3. Executes(o) => op[o].state = "Running" /\ k \in 1..2
    BY <2>2 DEF Executes, Active
  <2>4. (k = 1 => q[k] = "resource") /\ (k = 2 => q[k] = "scaleUp")
    OBVIOUS
  <2>5. k \in 1..2 => k \in {1, 2}
    BY <1>3
  <2> HIDE DEF q
  <2> QED BY <1>1, <1>5, <2>2, <2>3, <2>4, <2>5
<1> QED BY <1>1, <1>4, <1>5

\* What changes of the operation, and what that means for Fits and Left.
LEMMA OpMoves ==
  ASSUME OpsInv, NEW o \in Op, LiveDrill(o), NEW r, NEW e
  PROVE  LET x == op[o] IN
         /\ \A t \in {"Running", "Completed", "Failed"} : LET y == [x EXCEPT !.state = t] IN
              (t = "Completed" => Over(x)) => (Fits(x, r) => Fits(y, r)) /\ (Left(x, r, e) => Left(y, r, e))
         /\ LET y == [x EXCEPT !.step = 1] IN
              x.step = 0 => (Fits(x, r) => Fits(y, r)) /\ (Left(x, r, e) => Left(y, r, e))
         /\ LET y == [x EXCEPT !.running = TRUE] IN
              (Fits(x, r) => Fits(y, r)) /\ (Left(x, r, e) => Left(y, r, e))
         /\ \A b \in BOOLEAN : LET y == [x EXCEPT !.due = b] IN
              (Fits(x, r) => Fits(y, r)) /\ (Left(x, r, e) => Left(y, r, e))
         /\ \A p \in Parts : LET y == [x EXCEPT !.named = @ \cup {p}] IN
              (Fits(x, r) => Fits(y, r)) /\ (Left(x, r, e) => Left(y, r, e))
<1> DEFINE x == op[o]
           same(y) == /\ y.step = x.step /\ y.mode = x.mode /\ y.target = x.target /\ x.named \subseteq y.named
<1>1. x \in Operations /\ Len(Steps(x.mode)) >= 1 /\ x.step \in Nat
  BY StepNumbers DEF Operations
<1>2. ASSUME NEW y, same(y), y.state = "Completed" => Over(x) \/ x.state = "Completed"
      PROVE  (Fits(x, r) => Fits(y, r)) /\ (Left(x, r, e) => Left(y, r, e))
  BY <1>2 DEF Fits, Left, Passed, Over
<1>3. ASSUME NEW t \in {"Running", "Completed", "Failed"}, t = "Completed" => Over(x)
      PROVE  LET y == [x EXCEPT !.state = t] IN (Fits(x, r) => Fits(y, r)) /\ (Left(x, r, e) => Left(y, r, e))
  <2> DEFINE y == [x EXCEPT !.state = t]
  <2>1. same(y) /\ y.state = t
    BY <1>1 DEF Operations
  <2> HIDE DEF x, y
  <2>2. (Fits(x, r) => Fits(y, r)) /\ (Left(x, r, e) => Left(y, r, e))
    BY <1>2, <1>3, <2>1
  <2> QED BY <2>2 DEF y
<1>4. LET y == [x EXCEPT !.running = TRUE] IN (Fits(x, r) => Fits(y, r)) /\ (Left(x, r, e) => Left(y, r, e))
  <2> DEFINE y == [x EXCEPT !.running = TRUE]
  <2>1. same(y) /\ y.state = x.state
    BY <1>1 DEF Operations
  <2> HIDE DEF x, y
  <2>2. (Fits(x, r) => Fits(y, r)) /\ (Left(x, r, e) => Left(y, r, e))
    BY <1>2, <2>1
  <2> QED BY <2>2 DEF y
<1>5. ASSUME NEW p \in Parts
      PROVE  LET y == [x EXCEPT !.named = @ \cup {p}] IN (Fits(x, r) => Fits(y, r)) /\ (Left(x, r, e) => Left(y, r, e))
  <2> DEFINE y == [x EXCEPT !.named = @ \cup {p}]
  <2>1. same(y) /\ y.state = x.state
    BY <1>1 DEF Operations
  <2> HIDE DEF x, y
  <2>2. (Fits(x, r) => Fits(y, r)) /\ (Left(x, r, e) => Left(y, r, e))
    BY <1>2, <2>1
  <2> QED BY <2>2 DEF y
<1>6. ASSUME x.step = 0
      PROVE  LET y == [x EXCEPT !.step = 1] IN (Fits(x, r) => Fits(y, r)) /\ (Left(x, r, e) => Left(y, r, e))
  <2> DEFINE y == [x EXCEPT !.step = 1]
  <2>1. y.step = 1 /\ y.mode = x.mode /\ y.target = x.target /\ y.state = x.state
    BY <1>1 DEF Operations
  <2>2. Passed(y) = {} /\ ~Over(y) /\ ~Over(x)
    BY <1>1, <1>6, <2>1 DEF Passed, Over
  <2> HIDE DEF x, y
  <2>3. (Fits(x, r) => Fits(y, r)) /\ (Left(x, r, e) => Left(y, r, e))
    BY <2>1, <2>2 DEF Fits, Left
  <2> QED BY <2>3 DEF y
<1>7. ASSUME NEW b \in BOOLEAN
      PROVE  LET y == [x EXCEPT !.due = b] IN (Fits(x, r) => Fits(y, r)) /\ (Left(x, r, e) => Left(y, r, e))
  <2> DEFINE y == [x EXCEPT !.due = b]
  <2>1. same(y) /\ y.state = x.state
    BY <1>1 DEF Operations
  <2> HIDE DEF x, y
  <2>2. (Fits(x, r) => Fits(y, r)) /\ (Left(x, r, e) => Left(y, r, e))
    BY <1>2, <2>1
  <2> QED BY <2>2 DEF y
<1> QED BY <1>3, <1>4, <1>5, <1>6, <1>7

\* Done passes the step; what has to be true of it.
LEMMA DoneMoves ==
  ASSUME OpsInv, NEW o \in Op, LiveDrill(o), Executes(o), NEW r, NEW e, Fits(op[o], r)
  PROVE  /\ op[o].state = "Running"
         /\ Step(o) \in Parts =>
              /\ Step(o) \notin Passed(op[o])
              /\ Step(o) \in op[o].named /\ r[Step(o)].state = "Succeeded" =>
                   Fits(Done(o), r) /\ (Left(op[o], r, e) => Left(Done(o), r, e))
         /\ Step(o) = "scaleUp" => Fits(Done(o), r) /\ (Left(op[o], r, e) /\ "up" \in e => Left(Done(o), r, e))
<1> DEFINE x == op[o]
           n == Len(Steps(x.mode))
           y == Done(o)
<1>1. /\ x \in Operations /\ x.mode \in {"FullRestore", "ResourceOnly"} /\ x.step \in 1..n
      /\ n = (IF x.mode = "FullRestore" THEN 3 ELSE 2) /\ x.state = "Running"
      /\ Step(o) = "resource" => x.step = 1
      /\ Step(o) = "data" => x.step = 2 /\ x.mode = "FullRestore"
      /\ Step(o) = "scaleUp" => x.step = n
  BY StepNumbers
<1>2. /\ y.step = x.step + 1 /\ y.mode = x.mode /\ y.target = x.target /\ y.named = x.named
      /\ y.state = x.state
  BY <1>1 DEF Done, Operations
<1>3. Over(y) <=> x.step + 1 > n
  BY <1>2 DEF Over
<1> HIDE DEF x, y
<1>4. ASSUME Step(o) \in Parts
      PROVE  Step(o) \notin Passed(x) /\ Passed(y) \subseteq Passed(x) \cup {Step(o)} /\ ~Over(y)
  <2>1. Step(o) \in {"resource", "data"}
    BY <1>4 DEF Parts
  <2> HIDE DEF n
  <2> QED BY <1>1, <1>2, <1>3, <2>1 DEF Passed
<1>5. ASSUME Step(o) = "scaleUp" PROVE Passed(y) \subseteq Passed(x)
  <2> HIDE DEF n
  <2> QED BY <1>1, <1>2, <1>5 DEF Passed
<1>6. ASSUME Step(o) \in Parts, Step(o) \in x.named, r[Step(o)].state = "Succeeded"
      PROVE  Fits(y, r) /\ (Left(x, r, e) => Left(y, r, e))
  <2>1. Fits(x, r)
    BY DEF x
  <2> QED BY <1>1, <1>2, <1>4, <1>6, <2>1 DEF Fits, Left
<1>7. ASSUME Step(o) = "scaleUp"
      PROVE  Fits(y, r) /\ (Left(x, r, e) /\ "up" \in e => Left(y, r, e))
  <2>1. Fits(x, r)
    BY DEF x
  <2> QED BY <1>1, <1>2, <1>5, <1>7, <2>1 DEF Fits, Left
<1> QED BY <1>1, <1>4, <1>6, <1>7 DEF x, y

\* What a pass over its operation makes of a drill.
LEMMA OwnPass ==
  ASSUME OpsInv, RestoresFirst, NEW o \in Op, LiveDrill(o), ReconcileOp(o)
  PROVE  /\ Fits(op'[o], restore'[o])
         /\ Undisturbed(o) => Left(op'[o], restore'[o], env'[op[o].target])
<1> DEFINE x == op[o]
           r == restore[o]
           e == env[op[o].target]
           Good == /\ Fits(op'[o], restore'[o])
                   /\ Undisturbed(o) => Left(op'[o], restore'[o], env'[op[o].target])
<1>1. Typed /\ FixedTargets /\ op \in [Op -> Operations] /\ r \in [Parts -> AppRestores]
      /\ restore \in RestoreType /\ env \in EnvType
  BY DEF OpsInv, Typed, RestoreType, EnvType
<1>2. Fits(x, r) /\ (Undisturbed(o) => Left(x, r, e))
  BY DEF RestoresFirst
<1>3. \A y : Write(o, y) => op'[o] \in {x, y}
  BY <1>1 DEF Write
<1>4. x.type = "drill"
  BY DEF LiveDrill
<1>11. \A y : WriteUnchecked(o, y) => op'[o] \in {y, [x EXCEPT !.due = FALSE]}
  BY <1>1 DEF WriteUnchecked, Parked
<1>12. ASSUME restore' = restore, env' = env, op'[o] = [x EXCEPT !.due = FALSE] PROVE Good
  <2> DEFINE y == [x EXCEPT !.due = FALSE]
  <2>1. (Fits(x, r) => Fits(y, r)) /\ (Left(x, r, e) => Left(y, r, e))
    BY OpMoves
  <2> HIDE DEF x, y
  <2> QED BY <1>2, <1>12, <2>1 DEF x, y
<1>13. FailedNow(o) = [x EXCEPT !.state = "Failed"]
  BY DEF FailedNow
<1>5. ASSUME restore' = restore, env' = env, NEW t \in {"Running", "Completed", "Failed"},
             t = "Completed" => Over(x), op'[o] \in {x, [x EXCEPT !.state = t]}
      PROVE  Good
  <2> DEFINE y == [x EXCEPT !.state = t]
  <2>1. (Fits(x, r) => Fits(y, r)) /\ (Left(x, r, e) => Left(y, r, e))
    BY <1>5, OpMoves
  <2> HIDE DEF x, y
  <2> QED BY <1>2, <1>5, <2>1 DEF x, y
<1>6. CASE StartOp(o) \/ InstanceGone(o) \/ StepFails(o) \/ CompleteDrill(o)
  <2>1. restore' = restore /\ env' = env
    BY <1>6 DEF StartOp, InstanceGone, StepFails, CompleteDrill
  <2>2. StepFails(o) => op'[o] \in {[x EXCEPT !.state = "Failed"], [x EXCEPT !.due = FALSE]}
    BY <1>1, <1>13 DEF StepFails, Parked
  <2>3. CompleteDrill(o) =>
          Over(x) /\ op'[o] \in {[x EXCEPT !.state = "Completed"], [x EXCEPT !.due = FALSE]}
    BY <1>11 DEF CompleteDrill, Over
  <2>4. CASE StepFails(o) \/ CompleteDrill(o)
    BY <1>5, <1>12, <2>1, <2>2, <2>3, <2>4
  <2> QED BY <1>3, <1>5, <1>6, <2>1, <2>4 DEF StartOp, InstanceGone
<1>7. CASE StartStep(o)
  <2>1. restore' = restore /\ env' = env
    BY <1>7 DEF StartStep
  <2>2. \/ x.step = 0 /\ op'[o] \in {x, [x EXCEPT !.step = 1]}
        \/ op'[o] \in {x, [x EXCEPT !.running = TRUE]}
    BY <1>3, <1>7 DEF StartStep
  <2> DEFINE y == [x EXCEPT !.step = 1]
             z == [x EXCEPT !.running = TRUE]
  <2>3. x.step = 0 => (Fits(x, r) => Fits(y, r)) /\ (Left(x, r, e) => Left(y, r, e))
    BY OpMoves
  <2>4. (Fits(x, r) => Fits(z, r)) /\ (Left(x, r, e) => Left(z, r, e))
    BY OpMoves
  <2> QED BY <1>2, <2>1, <2>2, <2>3, <2>4
<1>8. CASE executeRestore(o)
  <2> DEFINE p == Step(o)
  <2>1. Executes(o) /\ p \in Parts /\ env' = env
    BY <1>8 DEF executeRestore
  <2>2. CASE CheckRestore(o, p) /\ p \in x.named /\ restore' = restore
    <3>1. CASE r[p].state = "Succeeded" /\ Write(o, Done(o))
      BY <1>2, <1>3, <2>1, <2>2, <3>1, DoneMoves
    <3>2. CASE WriteUnchecked(o, FailedNow(o))
      BY <1>5, <1>11, <1>12, <1>13, <2>1, <2>2, <3>2
    <3> QED BY <2>2, <3>1, <3>2 DEF CheckRestore
  <2>3. CASE CreateRestore(o, p)
    <3> DEFINE z == [state |-> "Running", target |-> TargetOf(o)]
    <3>1. CASE restore' = restore
      <4>1. op'[o] \in {x, [x EXCEPT !.state = "Failed"], [x EXCEPT !.due = FALSE],
                          [x EXCEPT !.named = @ \cup {p}]}
        BY <1>1, <1>3, <1>11, <1>13, <2>3 DEF CreateRestore
      <4>4. CASE op'[o] = [x EXCEPT !.due = FALSE]
        BY <1>12, <2>1, <3>1, <4>4
      <4>2. CASE op'[o] \in {x, [x EXCEPT !.state = "Failed"]}
        BY <1>5, <2>1, <3>1, <4>2
      <4>3. CASE op'[o] = [x EXCEPT !.named = @ \cup {p}]
        <5> DEFINE y == [x EXCEPT !.named = @ \cup {p}]
        <5>1. (Fits(x, r) => Fits(y, r)) /\ (Left(x, r, e) => Left(y, r, e))
          BY <2>1, OpMoves
        <5> QED BY <1>2, <2>1, <3>1, <4>3, <5>1
      <4> QED BY <4>1, <4>2, <4>3, <4>4
    <3>2. CASE restore' # restore
      <4>1. /\ restore' = [restore EXCEPT ![o][p] = z]
            /\ op'[o] \in {x, [x EXCEPT !.named = @ \cup {p}], [x EXCEPT !.state = "Failed"]}
        BY <1>1, <1>3, <1>13, <2>3, <3>2 DEF CreateRestore
      <4>2. restore'[o][p] = z /\ \A q \in Parts \ {p} : restore'[o][q] = r[q]
        BY <1>1, <2>1, <4>1 DEF RestoreType
      <4>3. p \notin Passed(x)
        BY <1>2, <2>1, DoneMoves
      <4>4. x.target # "auto" => z.target = x.target
        BY DEF TargetOf
      <4>5. z.state = "Running"
        OBVIOUS
      <4> HIDE DEF z
      <4>6. Fits(x, restore'[o])
        BY <1>2, <4>2, <4>3, <4>4, <4>5 DEF Fits, Passed
      <4>7. Undisturbed(o) => Left(x, restore'[o], e)
        BY <1>2, <4>2, <4>5 DEF Left
      <4> DEFINE y == [x EXCEPT !.named = @ \cup {p}]
                 s == restore'[o]
      <4>8. (Fits(x, s) => Fits(y, s)) /\ (Left(x, s, e) => Left(y, s, e))
        BY <2>1, OpMoves
      <4> DEFINE f == [x EXCEPT !.state = "Failed"]
      <4>9. (Fits(x, s) => Fits(f, s)) /\ (Left(x, s, e) => Left(f, s, e))
        BY OpMoves
      <4> HIDE DEF x, y, f, s
      <4> QED BY <2>1, <4>1, <4>6, <4>7, <4>8, <4>9 DEF y, f, s, x
    <3> QED BY <3>1, <3>2
  <2> QED BY <1>8, <2>2, <2>3 DEF executeRestore
<1>9. CASE executeDrillScaleUp(o)
  <2>1. /\ Executes(o) /\ Step(o) = "scaleUp" /\ restore' = restore /\ op'[o] \in {x, Done(o)}
        /\ env' = [env EXCEPT ![TargetOf(o)] = @ \cup {"up"}]
    BY <1>3, <1>9 DEF executeDrillScaleUp
  <2>2. Undisturbed(o) => e \subseteq env'[x.target] /\ "up" \in env'[x.target]
    <3> SUFFICES ASSUME Undisturbed(o) PROVE e \subseteq env'[x.target] /\ "up" \in env'[x.target]
      OBVIOUS
    <3>1. TargetOf(o) = x.target /\ x.target \in Cluster
      BY <1>1, Targets DEF Undisturbed, TargetOf, LiveDrill
    <3> QED BY <1>1, <2>1, <3>1 DEF EnvType
  <2>3. Undisturbed(o) => Left(x, r, env'[x.target])
    BY <1>2, <2>2 DEF Left
  <2> QED BY <1>2, <2>1, <2>2, <2>3, DoneMoves
<1>10. CASE handleDrillCleanup(o)
  BY <1>4, <1>10 DEF handleDrillCleanup
<1> QED BY <1>6, <1>7, <1>8, <1>9, <1>10 DEF ReconcileOp

\* The namespaces lose something only to a cleanup in flight, and are brought up
\* only by a drill operation in flight.
LEMMA EnvSteps ==
  ASSUME OpsInv, [Next]_vars
  PROVE  /\ \/ \A c \in Cluster : env[c] \subseteq env'[c]
            \/ \E q \in Op : InFlight(q) /\ op[q].type = "cleanup"
         /\ \/ \A c \in Cluster : "up" \in env'[c] => "up" \in env[c]
            \/ \E q \in Op : InFlight(q) /\ op[q].type = "drill"
<1> DEFINE Kept ==
      /\ \/ \A c \in Cluster : env[c] \subseteq env'[c]
         \/ \E q \in Op : InFlight(q) /\ op[q].type = "cleanup"
      /\ \/ \A c \in Cluster : "up" \in env'[c] => "up" \in env[c]
         \/ \E q \in Op : InFlight(q) /\ op[q].type = "drill"
<1>1. Typed /\ FixedTargets /\ env \in EnvType
  BY DEF OpsInv, Typed, EnvType
<1>2. CASE env' = env
  BY <1>2
<1>3. ASSUME NEW o \in Op, executeDrillScaleUp(o) PROVE Kept
  <2>1. InFlight(o) /\ op[o].type = "drill" /\ env' = [env EXCEPT ![TargetOf(o)] = @ \cup {"up"}]
    BY <1>3 DEF executeDrillScaleUp, Executes, Active, InFlight
  <2>2. \A c \in Cluster : env[c] \subseteq env'[c]
    BY <1>1, <2>1 DEF EnvType
  <2> QED BY <2>1, <2>2
<1>4. ASSUME NEW o \in Op, handleDrillCleanup(o) PROVE Kept
  <2>1. InFlight(o) /\ op[o].type = "cleanup" /\ (env' = env \/ env' = Cleaned(o))
    BY <1>4 DEF handleDrillCleanup, InFlight
  <2>2. \A c \in Cluster : "up" \in env'[c] => "up" \in env[c]
    BY <1>1, <2>1 DEF Cleaned, EnvType
  <2> QED BY <2>1, <2>2
<1>5. ASSUME NEW o \in Op, NEW p \in Parts, RestoreEnds(o, p) PROVE Kept
  <2>1. env' = env \/ env' = [env EXCEPT ![restore[o][p].target] = env[restore[o][p].target] \cup {p}]
    BY <1>5 DEF RestoreEnds
  <2>2. "up" # p
    BY DEF Parts
  <2>3. \A c \in Cluster : env[c] \subseteq env'[c] /\ ("up" \in env'[c] => "up" \in env[c])
    BY <1>1, <2>1, <2>2 DEF EnvType
  <2> QED BY <2>3
<1>6. ASSUME NEW o \in Op, ReconcileOp(o), ~executeDrillScaleUp(o), ~handleDrillCleanup(o) PROVE env' = env
  BY <1>6 DEF ReconcileOp, StartOp, InstanceGone, StartStep, executeRestore, StepFails, CompleteDrill
<1>7. ReconcileDrill => env' = env
  BY PlainPasses, MakingPasses DEF DrillPass
<1>8. UserStep \/ UNCHANGED vars \/ (\E o \in Op : Requeued(o)) => env' = env
  BY UserPass DEF vars, Requeued
<1> QED BY <1>2, <1>3, <1>4, <1>5, <1>6, <1>7, <1>8 DEF Next

\* What an undisturbed drill operation left on its target stays there.
LEMMA UndisturbedStays ==
  ASSUME OpsInv, [Next]_vars, NEW o \in Op, LiveDrill(o), Undisturbed(o)
  PROVE  op[o].target \in Cluster /\ env[op[o].target] \subseteq env'[op[o].target]
<1>1. op[o].quiet /\ op[o].target \in Cluster
  BY DEF OpsInv, QuietIsAlone, FixedTargets, LiveDrill, Undisturbed
<1>2. \A q \in Op : ~(InFlight(q) /\ op[q].type = "cleanup")
  BY <1>1 DEF OpsInv, QuietIsAlone, Undisturbed
<1> QED BY <1>1, <1>2, EnvSteps

\* More was there: it still is.
LEMMA LeftMore ==
  ASSUME NEW x, NEW r, NEW e, NEW f, Left(x, r, e), e \subseteq f
  PROVE  Left(x, r, f)
BY DEF Left

\* Every step keeps what the drill operations rely on.
LEMMA RestoresFirstKeeps ==
  ASSUME OpsInv, RestoresFirst, [Next]_vars
  PROVE  RestoresFirst'
<1> DEFINE Kept(o) ==
      /\ op'[o].type # "drill" => \A p \in Parts : restore'[o][p] = NoRestore
      /\ LiveDrill(o)' => Fits(op'[o], restore'[o])
      /\ LiveDrill(o)' /\ Undisturbed(o)' => Left(op'[o], restore'[o], env'[op'[o].target])
<1> SUFFICES ASSUME NEW o \in Op PROVE Kept(o)
  BY DEF RestoresFirst
<1>1. Typed /\ OpStep /\ op \in [Op -> Operations] /\ restore \in RestoreType
  BY EveryOpStep DEF OpsInv, Typed, RestoreType
<1>2. /\ op[o].type # "drill" => \A p \in Parts : restore[o][p] = NoRestore
      /\ LiveDrill(o) => Fits(op[o], restore[o])
      /\ LiveDrill(o) /\ Undisturbed(o) => Left(op[o], restore[o], env[op[o].target])
  BY DEF RestoresFirst
<1>3. \A q \in Op : op[q].type # "none" => op'[q].type = op[q].type
  BY <1>1, OpStepKeeps
<1>4. op'[o].target = op[o].target /\ Undisturbed(o)' => Undisturbed(o)
  BY <1>3 DEF Undisturbed
\* The operation and its restores are left alone.
<1>5. ASSUME op'[o] = op[o], \A p \in Parts : restore'[o][p] = restore[o][p]
      PROVE  Kept(o)
  <2>1. LiveDrill(o)' => LiveDrill(o)
    BY <1>5 DEF LiveDrill, Live
  <2>2. op'[o].type # "drill" => \A p \in Parts : restore'[o][p] = NoRestore
    BY <1>2, <1>5
  <2>3. LiveDrill(o) => Fits(op'[o], restore'[o])
    BY <1>2, <1>5 DEF Fits, Passed
  <2>4. ASSUME LiveDrill(o), Undisturbed(o)' PROVE Left(op'[o], restore'[o], env'[op'[o].target])
    <3>1. Undisturbed(o)
      BY <1>4, <1>5, <2>4
    <3>2. Left(op[o], restore[o], env'[op[o].target])
      BY <1>2, <2>4, <3>1, UndisturbedStays, LeftMore
    <3> QED BY <1>5, <3>2 DEF Left
  <2> QED BY <2>1, <2>2, <2>3, <2>4
\* It is made, or deleted.
<1>6. ASSUME NEW type \in {"drill", "cleanup"}, Makes(o, type), restore' = restore, env' = env
      PROVE  Kept(o)
  <2>1. op[o].type = "none" /\ op'[o].step = 0 /\ op'[o].state = "Pending"
        /\ op'[o] \in Operations
    BY <1>6, MakesKeeps, Empties DEF OpsOnly
  <2>2. \A p \in Parts : restore'[o][p] = NoRestore
    BY <1>2, <1>6, <2>1
  <2>3. LiveDrill(o)' => op'[o].mode \in {"FullRestore", "ResourceOnly"}
    BY <1>1, <1>6, <2>1, MakesKeeps DEF OpsOnly, QuietIsAlone, Operations, Modes
  <2>4. LiveDrill(o)' => Passed(op'[o]) = {} /\ ~Over(op'[o])
    BY <2>1, <2>3 DEF Passed, Over, Steps
  <2> QED BY <2>1, <2>2, <2>4, Empties DEF Fits, Left
<1>7. ASSUME op'[o].state = "Deleted", op'[o].type = op[o].type, restore' = restore
      PROVE  Kept(o)
  BY <1>2, <1>7 DEF LiveDrill, Live
\* A pass of its own.
<1>8. ASSUME ReconcileOp(o) PROVE Kept(o)
  <2>1. op'[o].type = op[o].type /\ op'[o].target = op[o].target
        /\ (Live(o)' => Live(o))
    BY <1>1, <1>8, ReconcileOpSteps DEF Advances, Follows, Live
  <2>2. CASE LiveDrill(o)
    BY <1>4, <1>8, <2>1, <2>2, OwnPass DEF LiveDrill
  <2>3. CASE ~LiveDrill(o)
    <3>1. op[o].type # "drill"
      <4>1. Live(o)
        BY <1>8 DEF ReconcileOp, StartOp, InstanceGone, StartStep, executeRestore, executeDrillScaleUp,
                    StepFails, CompleteDrill, handleDrillCleanup, Active, Executes, Live
      <4> QED BY <2>3, <4>1 DEF LiveDrill
    <3>2. restore' = restore
      BY <1>8, <3>1 DEF ReconcileOp, StartOp, InstanceGone, StartStep, executeRestore, executeDrillScaleUp,
                        StepFails, CompleteDrill, handleDrillCleanup, Active, Executes
    <3> QED BY <1>2, <2>1, <3>1, <3>2 DEF LiveDrill
  <2> QED BY <2>2, <2>3
\* The steps.
<1>9. CASE ReconcileDrill
  <2>1. restore' = restore /\ env' = env
    BY <1>9, PlainPasses, MakingPasses DEF DrillPass
  <2>2. op' = op => Kept(o)
    BY <1>5, <2>1
  <2>3. ASSUME NEW q \in Op, NEW type \in {"drill", "cleanup"}, Makes(q, type) PROVE Kept(o)
    <3>1. CASE q = o
      BY <1>6, <2>1, <2>3, <3>1
    <3>2. CASE q # o
      BY <1>5, <2>1, <2>3, <3>2, MakesKeeps
    <3> QED BY <3>1, <3>2
  <2> QED BY <1>1, <1>9, <2>2, <2>3, ReconcileDrillSteps
<1>10. ASSUME NEW q \in Op, ReconcileOp(q) PROVE Kept(o)
  <2>1. CASE q = o
    BY <1>8, <1>10, <2>1
  <2>2. CASE q # o
    <3>1. op'[o] = op[o]
      BY <1>1, <1>10, <2>2, ReconcileOpSteps DEF Advances
    <3>2. restore'[o] = restore[o]
      BY <1>1, <1>10, <2>2 DEF ReconcileOp, StartOp, InstanceGone, StartStep, executeRestore, CreateRestore,
                               executeDrillScaleUp, StepFails, CompleteDrill, handleDrillCleanup, RestoreType
    <3> QED BY <1>5, <3>1, <3>2
  <2> QED BY <2>1, <2>2
<1>11. ASSUME NEW q \in Op, NEW p \in Parts, RestoreEnds(q, p) PROVE Kept(o)
  <2>1. op' = op
    BY <1>11 DEF RestoreEnds
  <2>2. CASE q # o
    <3>1. restore'[o] = restore[o]
      BY <1>1, <1>11, <2>2 DEF RestoreEnds, RestoreType
    <3> QED BY <1>5, <2>1, <3>1
  <2>3. CASE q = o
    <3> DEFINE r == restore[o]
    <3>1. /\ r[p].state = "Running" /\ r \in [Parts -> AppRestores] /\ r[p] \in AppRestores
          /\ op[o].type = "drill"
      BY <1>1, <1>2, <1>11, <2>3, Empties DEF RestoreEnds, RestoreType
    <3>2. /\ \A s \in Parts \ {p} : restore'[o][s] = r[s]
          /\ restore'[o][p].state \in {"Succeeded", "Failed"} /\ restore'[o][p].target = r[p].target
          /\ restore'[o][p].state = "Succeeded" =>
               env' = [env EXCEPT ![r[p].target] = env[r[p].target] \cup {p}]
      BY <1>1, <1>11, <2>3, <3>1 DEF RestoreEnds, RestoreType, AppRestores
    <3>3. LiveDrill(o)' <=> LiveDrill(o)
      BY <2>1 DEF LiveDrill, Live
    <3>4. ASSUME LiveDrill(o) PROVE Fits(op[o], restore'[o])
      <4>1. Fits(op[o], r)
        BY <1>2, <3>4
      <4>2. p \notin Passed(op[o])
        BY <3>1, <4>1 DEF Fits
      <4> QED BY <3>1, <3>2, <4>1, <4>2 DEF Fits, Passed
    <3>5. ASSUME LiveDrill(o), Undisturbed(o)
          PROVE  Left(op[o], restore'[o], env'[op[o].target])
      <4>1. Left(op[o], r, env[op[o].target]) /\ Fits(op[o], r)
        BY <1>2, <3>5
      <4>2. op[o].target \in Cluster /\ env[op[o].target] \subseteq env'[op[o].target]
        BY <3>5, UndisturbedStays
      <4>3. Left(op[o], r, env'[op[o].target])
        BY <4>1, <4>2, LeftMore
      <4>4. r[p].target = op[o].target
        BY <3>1, <3>5, <4>1 DEF Fits, Undisturbed
      <4>5. restore'[o][p].state = "Succeeded" => p \in env'[op[o].target]
        <5>1. env \in EnvType
          BY <1>1 DEF Typed, EnvType
        <5> QED BY <3>2, <4>2, <4>4, <5>1 DEF EnvType
      <4> QED BY <3>2, <4>3, <4>5 DEF Left
    <3> QED BY <1>4, <2>1, <3>1, <3>3, <3>4, <3>5
  <2> QED BY <2>2, <2>3
<1>12. CASE UserStep
  <2>1. ASSUME op' = op, restore' = restore PROVE Kept(o)
    BY <1>5, <2>1
  <2>2. ASSUME Removes, restore' = restore PROVE Kept(o)
    <3>1. op'[o] = op[o] \/ (op'[o].state = "Deleted" /\ op'[o].type = op[o].type)
      BY <1>1, <2>2, RemovedOp DEF Removes
    <3> QED BY <1>5, <1>7, <2>2, <3>1
  <2>3. ASSUME NEW q \in Op, NEW p \in Parts, DeleteRestore(q, p) PROVE Kept(o)
    <3>1. op' = op /\ restore' = [restore EXCEPT ![q][p] = NoRestore]
      BY <2>3 DEF DeleteRestore
    <3>2. \A s \in Parts : restore'[o][s] = restore[o][s] \/ restore'[o][s] = NoRestore
      BY <1>1, <3>1 DEF RestoreType
    <3>3. op[o].type # "drill" => \A s \in Parts : restore'[o][s] = NoRestore
      BY <1>2, <3>2
    <3>4. LiveDrill(o) => Fits(op[o], restore'[o])
      BY <1>2, <3>2, Empties DEF Fits, Passed
    <3>5. ASSUME LiveDrill(o), Undisturbed(o) PROVE Left(op[o], restore'[o], env'[op[o].target])
      <4>1. Left(op[o], restore[o], env'[op[o].target])
        BY <1>2, <3>5, UndisturbedStays, LeftMore
      <4> QED BY <3>2, <4>1, Empties DEF Left
    <3>6. LiveDrill(o)' <=> LiveDrill(o)
      BY <3>1 DEF LiveDrill, Live
    <3> QED BY <1>4, <3>1, <3>3, <3>4, <3>5, <3>6
  <2>6. ASSUME NEW q \in Op, NEW p \in Parts, CancelRestore(q, p) PROVE Kept(o)
    <3>1. /\ op' = op /\ restore[q][p].state = "Running" /\ restore[q][p] \in AppRestores
          /\ restore' = [restore EXCEPT ![q][p] = [restore[q][p] EXCEPT !.state = "Cancelled"]]
      BY <1>1, <2>6 DEF CancelRestore, RestoreType
    <3>2. \A s \in Parts : \/ restore'[o][s] = restore[o][s]
                          \/ /\ restore'[o][s].state = "Cancelled"
                             /\ restore[o][s].state = "Running"
      BY <1>1, <3>1 DEF RestoreType, AppRestores
    <3>3. op[o].type # "drill" => \A s \in Parts : restore'[o][s] = NoRestore
      BY <1>2, <3>2, Empties
    <3>4. LiveDrill(o) => Fits(op[o], restore'[o])
      BY <1>2, <3>2 DEF Fits, Passed
    <3>5. ASSUME LiveDrill(o), Undisturbed(o) PROVE Left(op[o], restore'[o], env'[op[o].target])
      <4>1. Left(op[o], restore[o], env'[op[o].target])
        BY <1>2, <3>5, UndisturbedStays, LeftMore
      <4> QED BY <3>2, <4>1 DEF Left
    <3>6. LiveDrill(o)' <=> LiveDrill(o)
      BY <3>1 DEF LiveDrill, Live
    <3> QED BY <1>4, <3>1, <3>3, <3>4, <3>5, <3>6
  <2>4. Confirm \/ ToggleCleanUp \/ AskRestart \/ WorldChanges => op' = op /\ restore' = restore
    BY DEF Confirm, ToggleCleanUp, AskRestart, WorldChanges, Edit
  <2>5. DeleteDrill \/ (\E q \in Op : DeleteOp(q)) => Removes /\ restore' = restore
    BY <1>1, DeletionSteps DEF DeleteDrill, DeleteOp
  <2> QED BY <1>12, <2>1, <2>2, <2>3, <2>4, <2>5, <2>6 DEF UserStep
<1>13. CASE UNCHANGED vars
  BY <1>5, <1>13 DEF vars
<1>14. ASSUME NEW q \in Op, Requeued(q) PROVE Kept(o)
  <2>1. /\ op' = [op EXCEPT ![q] = [op[q] EXCEPT !.due = TRUE]] /\ restore' = restore /\ env' = env
        /\ Advances(q)
    BY <1>1, <1>14, RequeueSteps
  <2>2. CASE q # o
    BY <1>1, <1>5, <2>1, <2>2
  <2>3. CASE q = o
    <3> DEFINE x == op[o]
               y == [x EXCEPT !.due = TRUE]
               r == restore[o]
               e == env[op[o].target]
    <3>1. op'[o] = y /\ x \in Operations
      BY <1>1, <2>1, <2>3
    <3>2. y.type = x.type /\ y.state = x.state /\ y.target = x.target
      BY <3>1 DEF Operations
    <3>3. LiveDrill(o) => (Fits(x, r) => Fits(y, r)) /\ (Left(x, r, e) => Left(y, r, e))
      BY OpMoves
    <3>4. (LiveDrill(o)' <=> LiveDrill(o)) /\ (Undisturbed(o)' => Undisturbed(o))
      BY <1>4, <3>1, <3>2 DEF LiveDrill, Live
    <3> HIDE DEF y
    <3> QED BY <1>2, <2>1, <3>1, <3>2, <3>3, <3>4
  <2> QED BY <2>2, <2>3
<1> QED BY <1>9, <1>10, <1>11, <1>12, <1>13, <1>14 DEF Next

\* A cleanup completes in one way only.
LEMMA CleanupCompletes ==
  ASSUME OpsInv, [Next]_vars, NEW o \in Op, op'[o].type = "cleanup", op'[o].state = "Completed"
  PROVE  \/ op'[o] = op[o]
         \/ /\ env' = Cleaned(o) /\ Live(o)
            /\ op'[o].type = op[o].type /\ op'[o].target = op[o].target
<1>1. Typed /\ op \in [Op -> Operations]
  BY DEF OpsInv, Typed
<1>2. CASE ReconcileDrill
  <2>1. ASSUME NEW q \in Op, NEW type \in {"drill", "cleanup"}, Makes(q, type) PROVE op'[o] = op[o]
    BY <2>1, MakesKeeps
  <2> QED BY <1>1, <1>2, <2>1, ReconcileDrillSteps
<1>3. ASSUME NEW q \in Op, ReconcileOp(q), q # o PROVE op'[o] = op[o]
  BY <1>1, <1>3, ReconcileOpSteps DEF Advances
<1>4. ASSUME ReconcileOp(o), op'[o] # op[o]
      PROVE  /\ env' = Cleaned(o) /\ Live(o)
             /\ op'[o].type = op[o].type /\ op'[o].target = op[o].target
  <2>1. op'[o].type = op[o].type /\ op'[o].target = op[o].target /\ Live(o)
    BY <1>1, <1>4, ReconcileOpSteps DEF Advances, Follows, Live
  <2>2. \A x : Write(o, x) => op'[o] = x
    BY <1>1, <1>4 DEF Write
  <2>3. op[o] \in Operations /\ op[o].type = "cleanup"
    BY <1>1, <2>1
  <2>4. ~StartOp(o) /\ ~InstanceGone(o)
    BY <2>2, <2>3 DEF StartOp, InstanceGone, Operations
  <2>5. ~StartStep(o) /\ ~executeRestore(o) /\ ~executeDrillScaleUp(o) /\ ~StepFails(o) /\ ~CompleteDrill(o)
    BY <2>3 DEF StartStep, executeRestore, executeDrillScaleUp, StepFails, CompleteDrill, Executes, Active
  <2>6. handleDrillCleanup(o)
    BY <1>4, <2>4, <2>5 DEF ReconcileOp
  <2>7. op' # [op EXCEPT ![o].state = "Failed"]
    BY <1>1 DEF Operations
  <2> QED BY <2>1, <2>6, <2>7 DEF handleDrillCleanup
<1>5. ASSUME NEW q \in Op, NEW p \in Parts, RestoreEnds(q, p) PROVE op' = op
  BY <1>5 DEF RestoreEnds
<1>8. ASSUME NEW q \in Op, Requeued(q) PROVE op'[o] = op[o]
  <2>1. /\ op' = [op EXCEPT ![q] = [op[q] EXCEPT !.due = TRUE]] /\ op[q].state = "Running"
        /\ op[q] \in Operations
    BY <1>1, <1>8, RequeueSteps
  <2>2. q # o
    BY <1>1, <2>1 DEF Operations
  <2> QED BY <1>1, <2>1, <2>2
<1>6. CASE UserStep
  <2>1. op' = op \/ Removes
    BY <1>1, <1>6, DeletionSteps
       DEF UserStep, Confirm, ToggleCleanUp, AskRestart, WorldChanges, Edit, DeleteRestore,
           CancelRestore
  <2>2. Removes => op'[o] = op[o]
    BY <1>1, RemovedOp DEF Removes
  <2> QED BY <2>1, <2>2
<1>7. UNCHANGED vars => op' = op
  BY DEF vars
<1> QED BY <1>2, <1>3, <1>4, <1>5, <1>6, <1>7, <1>8 DEF Next

\* What a cleanup took down stays down while it has the last word.
LEMMA TakenDownKeeps ==
  ASSUME OpsInv, TakenDown, [Next]_vars
  PROVE  TakenDown'
<1> SUFFICES ASSUME NEW o \in Op, op'[o].type = "cleanup", op'[o].state = "Completed", LastWord(o)'
             PROVE  "up" \notin env'[op'[o].target]
  BY DEF TakenDown
<1>1. Typed /\ FixedTargets /\ env \in EnvType /\ OpsInv'
  BY OpsInvKeeps DEF OpsInv, Typed, EnvType
<1>2. \A q \in Op : op[q].type # "none" => op'[q].type = op[q].type
  BY <1>1, EveryOpStep, OpStepKeeps
<1>3. \A q \in Op : op[q].type = "drill" => q < o
  BY <1>2 DEF LastWord
<1>4. CASE op'[o] = op[o]
  <2>1. LastWord(o) /\ "up" \notin env[op[o].target]
    BY <1>3, <1>4 DEF LastWord, TakenDown
  <2>2. op[o].target \in Cluster
    BY <1>1, <1>4, <2>1 DEF FixedTargets, Live, LastWord
  <2>3. \A q \in Op : ~(InFlight(q) /\ op[q].type = "drill")
    BY <2>1 DEF LastWord, OpsInv, QuietIsAlone
  <2> QED BY <1>4, <2>1, <2>2, <2>3, EnvSteps
<1>5. CASE env' = Cleaned(o) /\ Live(o) /\ op'[o].target = op[o].target
  <2>1. op[o].target # "auto"
    BY <1>5 DEF LastWord
  <2>2. TargetOf(o) = op[o].target /\ op[o].target \in Cluster
    BY <1>1, <1>5, <2>1 DEF TargetOf, FixedTargets
  <2>3. "up" \notin Cleaned(o)[op[o].target]
    BY <1>1, <2>2 DEF Cleaned, EnvType
  <2> QED BY <1>5, <2>3
<1> QED BY <1>4, <1>5, CleanupCompletes

(***************************************************************************)
(* The theorems about completion.                                          *)
(***************************************************************************)

\* All that the drill relies on, for any number of operations.
THEOREM DrillInvHolds == Spec => [](OpsInv /\ RestoresFirst /\ TakenDown)
<1>1. Init => RestoresFirst /\ TakenDown
  BY Empties DEF Init, RestoresFirst, TakenDown, LiveDrill, Live
<1> QED BY <1>1, OpsInvStarts, OpsInvKeeps, RestoresFirstKeeps, TakenDownKeeps, PTL DEF Spec

\* A drill that completes has every restore behind it that its mode asks for,
\* and, undisturbed by a cleanup, has them and its workloads on its target
\* (executeDrill, checkAppRestoreStatus), however often writes were lost.
THEOREM CompletionIsEarned == Spec => CompletedMeansRestored
<1> DEFINE Earned ==
      drill.state = "Executing" /\ drill'.state = "Completed" /\ op[drill.op].type = "drill" =>
        LET o == drill.op IN
        /\ Needed(o) \subseteq op[o].named
        /\ \A p \in Needed(o) : restore[o][p].state \in {"Succeeded", "Absent"}
        /\ op[o].target # "auto" /\ (\A q \in Op : op[q].type = "cleanup" => q < o) =>
             Needed(o) \cup {"up"} \subseteq env[TargetOf(o)]
<1>1. ASSUME OpsInv, RestoresFirst, [Next]_vars PROVE [Earned]_vars
  <2> SUFFICES ASSUME drill.state = "Executing", drill'.state = "Completed", op[drill.op].type = "drill"
               PROVE  LET o == drill.op IN
                        /\ Needed(o) \subseteq op[o].named
                        /\ \A p \in Needed(o) : restore[o][p].state \in {"Succeeded", "Absent"}
                        /\ op[o].target # "auto" /\ (\A q \in Op : op[q].type = "cleanup" => q < o) =>
                             Needed(o) \cup {"up"} \subseteq env[TargetOf(o)]
    OBVIOUS
  <2> DEFINE o == drill.op
  <2>1. o \in Op /\ drill \in Statuses /\ Typed
    BY <1>1 DEF OpsInv, Awaited, Typed
  <2>2. handleExecuting
    <3>1. ASSUME NEW q \in Op, ReconcileOp(q) PROVE drill' = drill
      BY <1>1, <3>1, OpPass
    <3>2. ASSUME NEW q \in Op, NEW p \in Parts, RestoreEnds(q, p) PROVE drill' = drill
      BY <3>2 DEF RestoreEnds
    <3>3. ASSUME UserStep PROVE drill' = drill \/ drill'.state = "Deleted"
      BY <1>1, <3>3, UserPass
    <3>4. ReconcileDrill
      BY <1>1, <3>1, <3>2, <3>3 DEF Next, Requeued, vars
    <3> QED BY <3>4 DEF ReconcileDrill, Accept, handlePending, rejectReady, handleReady, triggerCleanup,
                        handleCleaningUp, resetDrill, Restartable
  <2>3. op[o].state = "Completed"
    <3>1. \A t \in DrillStates : /\ [drill EXCEPT !.state = t].state = t
                                 /\ [[drill EXCEPT !.state = t] EXCEPT !.completed = TRUE].state = t
      BY <2>1 DEF Statuses
    <3>2. Ended(o) => op[o].state \in DrillStates
      BY DEF Ended, DrillStates
    <3>3. "Failed" \in DrillStates
      BY DEF DrillStates
    <3>4. CASE WriteStatus([drill EXCEPT !.state = "Failed"])
      BY <3>1, <3>3, <3>4 DEF WriteStatus
    <3>5. CASE Ended(o) /\ WriteStamped([drill EXCEPT !.state = op[o].state])
      BY <3>1, <3>2, <3>5 DEF WriteStamped
    <3> QED BY <2>2, <3>4, <3>5 DEF handleExecuting
  <2>4. LiveDrill(o) /\ Over(op[o])
    BY <1>1, <2>1, <2>3 DEF LiveDrill, Live, RestoresFirst, Fits
  <2>5. Needed(o) \subseteq Passed(op[o]) /\ Needed(o) \subseteq Parts
    <3>1. /\ op[o] \in Operations /\ op[o].mode \in {"FullRestore", "ResourceOnly"}
          /\ Len(Steps(op[o].mode)) = (IF op[o].mode = "FullRestore" THEN 3 ELSE 2)
      BY <1>1, <2>1, <2>4, StepNumbers
    <3>2. op[o].step \in Nat
      BY <3>1 DEF Operations
    <3>3. op[o].step > 2 
      BY <2>4, <3>1, <3>2 DEF Over
    <3> HIDE DEF o
    <3> QED BY <3>2, <3>3 DEF Needed, Passed, Parts
  <2>6. Fits(op[o], restore[o])
    BY <1>1, <2>1, <2>4 DEF RestoresFirst
  <2>7. ASSUME op[o].target # "auto", \A q \in Op : op[q].type = "cleanup" => q < o
        PROVE  Needed(o) \cup {"up"} \subseteq env[TargetOf(o)]
    <3>1. Left(op[o], restore[o], env[op[o].target])
      BY <1>1, <2>1, <2>4, <2>7 DEF RestoresFirst, Undisturbed
    <3>2. TargetOf(o) = op[o].target
      BY <2>7 DEF TargetOf
    <3> HIDE DEF o
    <3> QED BY <2>4, <2>5, <3>1, <3>2 DEF Left
  <2>8. Needed(o) \subseteq op[o].named /\ \A p \in Needed(o) : restore[o][p].state \in {"Succeeded", "Absent"}
    BY <2>5, <2>6 DEF Fits
  <2> QED BY <2>7, <2>8
<1>2. OpsInv /\ RestoresFirst /\ [Next]_vars => [Earned]_vars
  BY <1>1
<1> QED BY <1>2, DrillInvHolds, PTL DEF Spec, CompletedMeansRestored

\* A drill is reported as cleaned up only by a cleanup that completed, and when
\* nothing else of the drill was in flight, or came later, its target is down
\* (handleDrillCleanup scales down before the operation completes).
THEOREM CleanedUpIsDown == Spec => CleanedUpMeansDown
<1> DEFINE IsDown ==
      drill.state # "CleanedUp" /\ drill'.state = "CleanedUp" =>
        LET o == drill'.op IN
        /\ op[o].state = "Completed"
        /\ op[o].quiet /\ op[o].target # "auto" /\ (\A q \in Op : op[q].type = "drill" => q < o)
             => "up" \notin env[op[o].target]
<1>1. ASSUME OpsInv, TakenDown, [Next]_vars PROVE [IsDown]_vars
  <2> SUFFICES ASSUME drill.state # "CleanedUp", drill'.state = "CleanedUp"
               PROVE  \E o \in Op : drill'.op = o /\ op[o].state = "Completed" /\ op[o].type = "cleanup"
    BY <1>1 DEF TakenDown, LastWord
  <2>1. Typed /\ drill \in Statuses
    BY <1>1 DEF OpsInv, Typed
  <2>2. ReconcileDrill
    <3>1. ASSUME NEW q \in Op, ReconcileOp(q) PROVE drill' = drill
      BY <1>1, <3>1, OpPass
    <3>2. ASSUME NEW q \in Op, NEW p \in Parts, RestoreEnds(q, p) PROVE drill' = drill
      BY <3>2 DEF RestoreEnds
    <3>3. ASSUME UserStep PROVE drill' = drill \/ drill'.state = "Deleted"
      BY <1>1, <3>3, UserPass
    <3> QED BY <1>1, <3>1, <3>2, <3>3 DEF Next, Requeued, vars
  <2>3. ASSUME NEW x \in Statuses, x.state # "CleanedUp" PROVE ~WriteStatus(x) /\ ~WriteStamped(x)
    <3>1. [x EXCEPT !.completed = TRUE].state = x.state
      BY DEF Statuses
    <3> QED BY <2>3, <3>1 DEF WriteStatus, WriteStamped
  <2>4. ASSUME NEW o \in Op, op[o].type = "cleanup", syncCleanupOperationStatus(o)
        PROVE  drill'.op = o /\ op[o].state = "Completed"
    <3>1. {"CleanedUp", "Failed"} \subseteq DrillStates
      BY DEF DrillStates
    <3>2. With("Failed", o) \in Statuses /\ With("Failed", o).state = "Failed"
      BY <2>1, <3>1, WithFields
    <3>3. ~WriteStatus([drill EXCEPT !.state = "Failed", !.op = o])
      BY <2>3, <3>2 DEF With
    <3>4. op[o].state = "Completed" /\ WriteStamped([drill EXCEPT !.state = "CleanedUp", !.op = o])
      BY <2>4, <3>3 DEF syncCleanupOperationStatus
    <3>5. [[drill EXCEPT !.state = "CleanedUp", !.op = o] EXCEPT !.completed = TRUE].op = o
      BY <2>1 DEF Statuses
    <3> QED BY <3>4, <3>5 DEF WriteStamped
  <2>5. CASE handleCleaningUp
    <3>1. drill.op \in Op /\ op[drill.op].type = "cleanup"
      BY <1>1, <2>5 DEF OpsInv, Awaited, handleCleaningUp
    <3>2. [drill EXCEPT !.state = "Failed"] \in Statuses /\ [drill EXCEPT !.state = "Failed"].state = "Failed"
      BY <2>1, StatusFields DEF DrillStates
    <3>3. syncCleanupOperationStatus(drill.op)
      BY <2>3, <2>5, <3>2 DEF handleCleaningUp
    <3> QED BY <2>4, <3>1, <3>3
  <2>6. CASE triggerCleanup
    <3> DEFINE cleanups == {o \in Op : op[o].type = "cleanup"}
               going == {o \in cleanups : InFlight(o)}
               done == {o \in cleanups : Ended(o)}
    <3>1. "CleaningUp" \in DrillStates
      BY DEF DrillStates
    <3>2. \A o \in Op : ~WriteStatus(With("CleaningUp", o))
      BY <2>1, <2>3, <3>1, WithFields
    <3>3. CASE going # {}
      <4>1. newestCleanup(going) \in Op
        BY <3>3, Newest
      <4> QED BY <2>6, <3>2, <3>3, <4>1 DEF triggerCleanup, With
    <3>4. CASE going = {} /\ done = {}
      BY <2>6, <3>2, <3>4 DEF triggerCleanup, With
    <3>5. CASE going = {} /\ done # {}
      <4>1. newestCleanup(done) \in Op /\ op[newestCleanup(done)].type = "cleanup"
        BY <3>5, Newest
      <4>2. syncCleanupOperationStatus(newestCleanup(done))
        BY <2>6, <3>5 DEF triggerCleanup
      <4> HIDE DEF done
      <4> QED BY <2>4, <4>1, <4>2
    <3> QED BY <3>3, <3>4, <3>5
  <2>7. CASE ~handleCleaningUp /\ ~triggerCleanup
    <3>1. \E x \in Statuses : x.state # "CleanedUp" /\ (WriteStatus(x) \/ WriteStamped(x) \/ drill' = drill)
      <4>0. {"Pending", "Failed", "Ready", "Completed"} \subseteq DrillStates
        BY DEF DrillStates
      <4>1. \A t \in {"Pending", "Failed", "Ready", "Completed"} :
              LET x == [drill EXCEPT !.state = t] IN x \in Statuses /\ x.state = t
        BY <4>0, <2>1, StatusFields
      <4>2. CASE Accept
        BY <4>1, <4>2 DEF Accept
      <4>3. CASE handlePending
        BY <1>1, <4>1, <4>3, Snapshots DEF handlePending
      <4>4. CASE rejectReady
        BY <4>1, <4>4 DEF rejectReady
      <4>5. CASE handleReady
        <5>1. PICK o \in Op : WriteStatus(With("Executing", o))
          BY <4>5 DEF handleReady, Adoptable, With
        <5>2. With("Executing", o) \in Statuses /\ With("Executing", o).state = "Executing"
          BY <2>1, WithFields DEF DrillStates
        <5> QED BY <5>1, <5>2
      <4>6. CASE handleExecuting
        <5>1. \E t \in {"Failed", "Completed"} :
                LET x == [drill EXCEPT !.state = t] IN WriteStatus(x) \/ WriteStamped(x)
          BY <4>6 DEF handleExecuting, Ended
        <5> QED BY <4>1, <5>1
      <4>7. CASE resetDrill
        <5>1. LET x == [NoStatus EXCEPT !.state = "Pending"] IN x \in Statuses /\ x.state = "Pending"
          BY <4>0, Empties, StatusFields
        <5>2. drill' = drill \/ WriteStatus([NoStatus EXCEPT !.state = "Pending"])
          BY <4>7 DEF resetDrill
        <5> QED BY <2>1, <5>1, <5>2
      <4> QED BY <2>2, <2>7, <4>2, <4>3, <4>4, <4>5, <4>6, <4>7 DEF ReconcileDrill
    <3> QED BY <2>3, <3>1
  <2> QED BY <2>5, <2>6, <2>7
<1>2. OpsInv /\ TakenDown /\ [Next]_vars => [IsDown]_vars
  BY <1>1
<1> QED BY <1>2, DrillInvHolds, PTL DEF Spec, CleanedUpMeansDown
=============================================================================
