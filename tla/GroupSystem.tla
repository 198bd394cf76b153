---------------------------- MODULE GroupSystem ----------------------------
(***************************************************************************)
(* The operations on a whole DisasterGroup, which the DisasterOperation     *)
(* controller carries out level by level through one child operation for   *)
(* each instance.                                                          *)
(*                                                                         *)
(* A child is a DisasterOperation on its instance.  What it does to the    *)
(* instance is the subject of FailoverSystem; here it is an operation that *)
(* runs, supersedes, ends and moves the state of the instance.             *)
(***************************************************************************)
EXTENDS Naturals, Sequences, FiniteSets

CONSTANTS
  Instance,     \* the names of DisasterInstances
  GroupOp,      \* the names of the operations on the group: numbers, so that
                \* new names can be taken in order
  LevelLists,   \* what users write into spec.levels
  Policies,     \* spec.policy.failPolicy: "Continue"; anything else stops
  Scripts,      \* what users submit: sequences of operation types
  Faults,       \* which faults may happen
  MaxFaults     \* bound on faults and disturbances

GroupTypes == {"failover", "cancel", "drill"}

FaultKinds == {"lostWrite", "callError", "deleteChild", "deleteOperation",
               "deleteInstance", "deleteGroup", "edit"}

ASSUME GroupAssumption ==
  /\ GroupOp \subseteq Nat
  /\ LevelLists \subseteq Seq(Seq(Instance)) /\ Scripts \subseteq Seq(GroupTypes)
  /\ Faults \subseteq FaultKinds /\ MaxFaults \in Nat

VARIABLES
  group,     \* spec of the DisasterGroup, and whether it exists
  fsm,       \* status.fsmState of the instances; "Absent": no such object
  gop,       \* the group operations
  child,     \* child[g][i]: the operation named <g>-<i>
  faults,    \* faults that may still happen
  submits    \* the types of the group operations submitted so far

vars == <<group, fsm, gop, child, faults, submits>>

\* at: the order of creation.  skipped, a history: the instances that did not
\* exist when the operation left their level.
NoGroupOp ==
  [type |-> "none", state |-> "Absent", level |-> 0, modes |-> {}, at |-> 0, skipped |-> {}]
NoChild == [type |-> "none", state |-> "Absent", owned |-> FALSE]

Range(s) == {s[k] : k \in DOMAIN s}

InFlight(op) == op.state \in {"Pending", "Running"}
Terminal(op) == op.state \in {"Completed", "Failed"}
Missing(op) == op.state \in {"Absent", "Deleted"}
Exists(i) == fsm[i] # "Absent"
Members == UNION {Range(group.levels[k]) : k \in DOMAIN group.levels}

Fault(f) == f \in Faults /\ faults > 0 /\ faults' = faults - 1

Init ==
  /\ group \in [levels : LevelLists, policy : Policies, exists : {TRUE}]
  /\ fsm = [i \in Instance |-> "Protected"]
  /\ gop = [g \in GroupOp |-> NoGroupOp]
  /\ child = [g \in GroupOp |-> [i \in Instance |-> NoChild]]
  /\ faults = MaxFaults /\ submits = <<>>

(***************************************************************************)
(* Group operations.                                                       *)
(***************************************************************************)
Supersedes(type) == type = "cancel"

\* Mutant: only operations on the same instance are superseded.
SupersededNone(g) == gop

\* supersedeInFlightOperations for a group operation: same group.
SupersededGroups(g) ==
  [q \in GroupOp |->
     IF q # g /\ Supersedes(gop[g].type) /\ gop[q].type = "failover" /\ InFlight(gop[q])
     THEN [gop[q] EXCEPT !.state = "Failed"] ELSE gop[q]]

\* The last status write of a reconciliation of g.
WriteGroupOp(g, op) ==
  \/ gop' = [SupersededGroups(g) EXCEPT ![g] = op] /\ UNCHANGED faults
  \/ gop' = SupersededGroups(g) /\ Fault("lostWrite")

StartGroupOp(g) ==
  /\ gop[g].state = "Pending"
  /\ gop' = [gop EXCEPT ![g].state = "Running"]
  /\ UNCHANGED <<group, fsm, child, faults, submits>>

\* Mutant: a group that is gone is waited for.
GroupAwaited(g) == gop[g].state = "Running" /\ ~group.exists /\ UNCHANGED vars

GroupNotFound(g) ==
  /\ gop[g].state = "Running" /\ ~group.exists
  /\ WriteGroupOp(g, [gop[g] EXCEPT !.state = "Failed"])
  /\ UNCHANGED <<group, fsm, child, submits>>

\* level 0: status.currentStep is empty; n: it is "Level-(n-1)".
InitLevel(g) ==
  /\ gop[g].state = "Running" /\ group.exists /\ gop[g].level = 0
  /\ WriteGroupOp(g, [gop[g] EXCEPT !.level = 1])
  /\ UNCHANGED <<group, fsm, child, submits>>

CompleteGroupOp(g) ==
  /\ gop[g].state = "Running" /\ group.exists /\ gop[g].level > Len(group.levels)
  /\ WriteGroupOp(g, [gop[g] EXCEPT !.state = "Completed"])
  /\ UNCHANGED <<group, fsm, child, submits>>

Continues == group.policy = "Continue"

\* drillConfigForGroupChild: a drill that names restore modes names them all.
ModeKnown(g, i) == gop[g].type # "drill" \/ gop[g].modes = {} \/ i \in gop[g].modes

\* Mutant: a failed child is looked at like a finished one.
BlocksMissingOnly(g, i) == ~Exists(i) /\ ~Continues

\* The instance that makes the loop over a level break and the group fail.
Blocks(g, i) ==
  \/ ~Exists(i) /\ ~Continues
  \/ Exists(i) /\ Missing(child[g][i]) /\ ~ModeKnown(g, i)
  \/ Exists(i) /\ child[g][i].state = "Failed" /\ ~Continues

\* The instances of a level up to the first one that blocks.
Visited(g, level) ==
  {level[n] : n \in {m \in DOMAIN level : \A k \in 1 .. m : ~Blocks(g, level[k])}}

Asked(g, S) ==
  [child EXCEPT ![g] =
     [i \in Instance |->
        IF i \in S /\ Exists(i) /\ Missing(child[g][i])
        THEN [type |-> gop[g].type, state |-> "Pending", owned |-> FALSE] ELSE child[g][i]]]

\* Mutant: a child that has started is not waited for.
LevelStarted(g, level) ==
  \A i \in Range(level) : Exists(i) => ~Missing(child[g][i]) /\ child[g][i].state # "Pending"

LevelDone(g, level) == \A i \in Range(level) : Exists(i) => Terminal(child[g][i])

NextLevel(g) == gop[g].level + 1

\* Unless the policy is Continue, an instance that does not exist blocks.
Skipped(g, level) == gop[g].skipped \cup {i \in Range(level) : ~Exists(i)}

\* One pass over the current level; the children are created before the
\* status of the group operation is written.
HandleLevel(g) ==
  /\ gop[g].state = "Running" /\ group.exists /\ gop[g].level \in DOMAIN group.levels
  /\ LET level == group.levels[gop[g].level] IN
       \/ /\ \E i \in Range(level) : Blocks(g, i)
          /\ child' = Asked(g, Visited(g, level))
          /\ WriteGroupOp(g, [gop[g] EXCEPT !.state = "Failed"])
       \/ /\ \A i \in Range(level) : ~Blocks(g, i)
          /\ LevelDone(g, level) /\ UNCHANGED child
          /\ WriteGroupOp(g, [gop[g] EXCEPT !.level = NextLevel(g), !.skipped = Skipped(g, level)])
       \/ /\ \A i \in Range(level) : ~Blocks(g, i)
          /\ ~LevelDone(g, level)
          /\ child' = Asked(g, Range(level))
          /\ gop' = SupersededGroups(g) /\ UNCHANGED faults
       \/ \* a create call fails after some of the children were created
          /\ Fault("callError") /\ ~LevelDone(g, level)
          /\ \E n \in DOMAIN level :
               child' = Asked(g, Visited(g, level) \cap {level[m] : m \in 1 .. (n - 1)})
          /\ gop' = SupersededGroups(g)
  /\ UNCHANGED <<group, fsm, submits>>

ReconcileGroupOp(g) ==
  \/ StartGroupOp(g) \/ GroupNotFound(g) \/ InitLevel(g) \/ CompleteGroupOp(g) \/ HandleLevel(g)

(***************************************************************************)
(* Children.                                                               *)
(***************************************************************************)

\* ensureOwnerReferences: an operation that is not a drill is owned by its
\* instance too, besides the group operation that created it.
Owned(g, i) == child[g][i].type # "drill" /\ Exists(i)

StartChild(g, i) ==
  /\ child[g][i].state = "Pending"
  /\ child' = [child EXCEPT ![g][i].state = "Running", ![g][i].owned = Owned(g, i)]
  /\ UNCHANGED <<group, fsm, gop, faults, submits>>

\* Mutant: finished failovers are superseded too.
SupersededEnds(g, i) ==
  [q \in GroupOp |->
     IF q # g /\ Supersedes(child[g][i].type) /\ child[q][i].type = "failover"
     THEN [child[q] EXCEPT ![i].state = "Failed"] ELSE child[q]]

\* A cancel supersedes every failover in flight of its instance.
SupersededChildren(g, i) ==
  [q \in GroupOp |->
     IF q # g /\ Supersedes(child[g][i].type) /\ child[q][i].type = "failover" /\ InFlight(child[q][i])
     THEN [child[q] EXCEPT ![i].state = "Failed"] ELSE child[q]]

findOtherInFlightOperation(g, i) ==
  \E q \in GroupOp \ {g} : child[q][i].type = "failover" /\ InFlight(child[q][i])

\* What one more reconciliation of a running child makes of it and of its
\* instance: <<state of the child, state of the instance>>.
Outcomes(type, f, conflict) ==
  CASE f = "Absent" -> {<<"Failed", f>>}
    [] type = "failover" /\ ~conflict /\ f \in {"Protected", "FailingOver"} ->
         {<<"Running", "FailingOver">>, <<"Completed", "Active">>,
          <<"Failed", "Protected">>, <<"Failed", "Failed">>}
    [] type = "cancel" /\ f = "Protected" -> {<<"Completed", f>>, <<"Failed", f>>}
    [] type = "cancel" /\ f \in {"FailingOver", "Failed"} ->
         {<<"Running", f>>, <<"Completed", "Protected">>, <<"Failed", "Failed">>}
    [] type = "drill" -> {<<"Running", f>>, <<"Completed", f>>, <<"Failed", f>>}
    [] OTHER -> {<<"Failed", f>>}

RunChild(g, i) ==
  /\ child[g][i].state = "Running"
  /\ \E out \in Outcomes(child[g][i].type, fsm[i], findOtherInFlightOperation(g, i)) :
       /\ child' = [SupersededChildren(g, i) EXCEPT ![g][i].state = out[1],
                                                 ![g][i].owned = Owned(g, i)]
       /\ fsm' = [fsm EXCEPT ![i] = out[2]]
  /\ UNCHANGED <<group, gop, faults, submits>>

ReconcileChild(g, i) == StartChild(g, i) \/ RunChild(g, i)

(***************************************************************************)
(* Users and the garbage collector.                                        *)
(***************************************************************************)
SubmitGroupOp(g) ==
  /\ Missing(gop[g]) /\ group.exists /\ \A q \in GroupOp : q < g => gop[q].state # "Absent"
  /\ \E script \in Scripts :
       /\ Len(submits) < Len(script) /\ submits = SubSeq(script, 1, Len(submits))
       /\ submits' = SubSeq(script, 1, Len(submits) + 1)
  /\ LET type == submits'[Len(submits')] IN
     \E modes \in IF type = "drill" THEN {{}, Range(group.levels[1])} ELSE {{}} :
       gop' = [gop EXCEPT ![g] = [type |-> type, state |-> "Pending", level |-> 0, modes |-> modes,
                                  at |-> Len(submits'), skipped |-> {}]]
  /\ UNCHANGED <<group, fsm, child, faults>>

DeleteChild(g, i) ==
  /\ ~Missing(child[g][i]) /\ Fault("deleteChild")
  /\ child' = [child EXCEPT ![g][i] = [NoChild EXCEPT !.state = "Deleted"]]
  /\ UNCHANGED <<group, fsm, gop, submits>>

\* The garbage collector: an object goes when all of its owners are gone.
Collected(goneOps) ==
  [g \in GroupOp |-> [i \in Instance |->
     IF g \in goneOps /\ ~Missing(child[g][i]) /\ ~child[g][i].owned
     THEN [NoChild EXCEPT !.state = "Deleted"] ELSE child[g][i]]]

DeleteGroupOp(g) ==
  /\ ~Missing(gop[g]) /\ Fault("deleteOperation")
  /\ gop' = [gop EXCEPT ![g] = [NoGroupOp EXCEPT !.state = "Deleted"]]
  /\ child' = Collected({g})
  /\ UNCHANGED <<group, fsm, submits>>

\* The group operations are owned by the group and go with it.
DeleteGroup ==
  /\ group.exists /\ Fault("deleteGroup") /\ group' = [group EXCEPT !.exists = FALSE]
  /\ LET owned == {g \in GroupOp : ~Missing(gop[g]) /\ gop[g].type # "drill"} IN
     /\ gop' = [g \in GroupOp |->
                  IF g \in owned THEN [NoGroupOp EXCEPT !.state = "Deleted"] ELSE gop[g]]
     /\ child' = Collected(owned)
  /\ UNCHANGED <<fsm, submits>>

\* Users delete an instance, or create it again; its children keep the group
\* operation as an owner unless that is gone too.
ChangeInstance(i) ==
  /\ Fault("deleteInstance")
  /\ fsm' = [fsm EXCEPT ![i] = IF @ = "Absent" THEN "Protected" ELSE "Absent"]
  /\ child' = IF ~Exists(i) THEN child
              ELSE [g \in GroupOp |->
                      IF Missing(child[g][i]) THEN child[g]
                      ELSE IF Missing(gop[g]) THEN [child[g] EXCEPT ![i] = [NoChild EXCEPT !.state = "Deleted"]]
                      ELSE [child[g] EXCEPT ![i].owned = FALSE]]
  /\ UNCHANGED <<group, gop, submits>>

\* Users edit the levels between operations.
EditGroup ==
  /\ group.exists /\ \A g \in GroupOp : ~InFlight(gop[g])
  /\ Fault("edit")
  /\ \E levels \in LevelLists \ {group.levels} : group' = [group EXCEPT !.levels = levels]
  /\ UNCHANGED <<fsm, gop, child, submits>>

UserStep ==
  \/ \E g \in GroupOp : SubmitGroupOp(g) \/ DeleteGroupOp(g) \/ \E i \in Instance : DeleteChild(g, i)
  \/ \E i \in Instance : ChangeInstance(i)
  \/ DeleteGroup \/ EditGroup

Next ==
  \/ \E g \in GroupOp : ReconcileGroupOp(g) \/ \E i \in Instance : ReconcileChild(g, i)
  \/ UserStep

Spec == Init /\ [][Next]_vars

(***************************************************************************)
(* Fairness: every reconciliation that is not final asks for another one,  *)
(* and a child that waits gets its answer in the end: its steps and their  *)
(* timeouts end it (FailoverSystem: OperationsEnd).                        *)
(***************************************************************************)
ChildEnds(g, i) == RunChild(g, i) /\ child'[g][i].state # "Running"

Fairness ==
  /\ \A g \in GroupOp :
       /\ WF_vars(ReconcileGroupOp(g) /\ <<gop, child>>' # <<gop, child>>)
       /\ \A i \in Instance : WF_vars(StartChild(g, i)) /\ WF_vars(ChildEnds(g, i))

FairSpec == Spec /\ Fairness

(***************************************************************************)
(* Properties.                                                             *)
(***************************************************************************)

GroupOpLifecycle ==
  INSTANCE OperationLifecycle WITH Name <- GroupOp, state <- [g \in GroupOp |-> gop[g].state]

ChildLifecycle ==
  INSTANCE OperationLifecycle WITH
    Name <- GroupOp \X Instance, state <- [n \in GroupOp \X Instance |-> child[n[1]][n[2]].state]

\* Group operations and their children are DisasterOperations like any other:
\* a superseded, orphaned or adopted one still ends once and keeps its end.
FollowsLifecycle == GroupOpLifecycle!Spec /\ ChildLifecycle!Spec

Earlier(g) == UNION {Range(group.levels[k]) : k \in 1 .. (gop[g].level - 1)}

Current(g) == IF gop[g].level \in DOMAIN group.levels THEN Range(group.levels[gop[g].level]) ELSE {}

\* The instances that a group operation has done with: an instance that users
\* list in a later level too is not.
Behind(g) == Earlier(g) \ Current(g)

\* The levels are an order (handleGroupOperation): when a group operation
\* creates a child, its children on the instances of earlier levels have ended
\* and, unless the policy is Continue, none of them has failed.  Instances that
\* were skipped because they did not exist are not waited for, even if they
\* come back with their child.
LevelsInOrder ==
  [][\A g \in GroupOp, i \in Instance :
       Missing(child[g][i]) /\ ~Missing(child'[g][i]) =>
         \A j \in Behind(g) \ gop[g].skipped :
           /\ Terminal(child[g][j]) \/ child[g][j].state = "Deleted"
           /\ ~Continues => child[g][j].state # "Failed"]_vars

\* A group operation that completes waits for no instance but those it skipped
\* and, unless the policy is Continue, succeeded on every member, even on those
\* whose child or object was deleted after their level was done.  Undisturbed,
\* it has an answer from every member.
CompletedMeansAll ==
  [][\A g \in GroupOp : gop[g].state = "Running" /\ gop'[g].state = "Completed" =>
       \A i \in Members :
         /\ i \notin gop[g].skipped => Terminal(child[g][i]) \/ child[g][i].state = "Deleted"
         /\ ~Continues => child[g][i].state \in {"Completed", "Deleted"}
         /\ faults = MaxFaults => Terminal(child[g][i])]_vars

\* When the cancel of a group completes, every earlier failover of the group
\* has ended, and so have its children: nothing goes on failing over behind
\* the cancel, although the two run level by level at the same time.
CancelEndsFailovers ==
  [][\A g, q \in GroupOp :
       /\ gop[g].type = "cancel" /\ gop[g].state = "Running" /\ gop'[g].state = "Completed"
       /\ gop[q].type = "failover" /\ gop[q].at < gop[g].at /\ faults = MaxFaults
       => ~InFlight(gop'[q]) /\ \A i \in Members : ~InFlight(child[q][i])]_vars

\* Every group operation ends, whatever its children do and whatever users
\* delete meanwhile.
GroupEnds == \A g \in GroupOp : InFlight(gop[g]) ~> ~InFlight(gop[g])
=============================================================================
