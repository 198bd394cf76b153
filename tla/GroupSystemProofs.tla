-------------------------- MODULE GroupSystemProofs --------------------------
(***************************************************************************)
(* Theorems about GroupSystem.  It implements OperationLifecycle twice:    *)
(* the operations on a group and their children are both operations that   *)
(* end once.  The levels are an order, and what a group operation that     *)
(* completes has seen of its members.  All of it for any number of         *)
(* instances, levels, group operations and faults.                         *)
(***************************************************************************)
EXTENDS GroupSystem, TLAPS

States == {"Absent", "Pending", "Running", "Completed", "Failed", "Deleted"}

\* All the life cycle needs to know of an operation: it has a type and a state.
Operation(op) == {"type", "state"} \subseteq DOMAIN op /\ op.state \in States

\* The inductive invariant: the group operations and the children are such.
OpsTyped ==
  /\ gop = [g \in GroupOp |-> gop[g]]
  /\ child = [g \in GroupOp |-> [i \in Instance |-> child[g][i]]]
  /\ \A g \in GroupOp : Operation(gop[g]) /\ \A i \in Instance : Operation(child[g][i])

\* A step of the life cycle from state s to state t, or none.
Move(s, t) == t = s \/ <<s, t>> \in GroupOpLifecycle!Steps

\* An operation before and after a step.
Moved(old, new) == Operation(new) /\ Move(old.state, new.state)

\* What a step may make of the group operations and of the children.
GroupOpsWritten ==
  /\ gop' = [g \in GroupOp |-> gop'[g]]
  /\ \A g \in GroupOp : Moved(gop[g], gop'[g])

ChildrenWritten ==
  /\ child' = [g \in GroupOp |-> [i \in Instance |-> child'[g][i]]]
  /\ \A g \in GroupOp, i \in Instance : Moved(child[g][i], child'[g][i])

\* The steps of the life cycle, one by one.
LEMMA Moves ==
  /\ \A s \in States : Move(s, s)
  /\ \A s \in States \ {"Absent", "Deleted"} : Move(s, "Deleted")
  /\ \A s \in {"Absent", "Deleted"} : Move(s, "Pending")
  /\ Move("Pending", "Running") /\ Move("Pending", "Failed")
  /\ Move("Running", "Completed") /\ Move("Running", "Failed")
BY DEF Move, States, GroupOpLifecycle!Steps, GroupOpLifecycle!OperationStates

\* An operation that is left alone, one that is failed while in flight, one
\* whose reconciliation writes its end, and one that is deleted.
LEMMA StateWrites ==
  ASSUME NEW op, Operation(op)
  PROVE  /\ Moved(op, op)
         /\ InFlight(op) => Moved(op, [op EXCEPT !.state = "Failed"])
         /\ \A s \in {"Running", "Completed", "Failed"} :
              op.state = "Running" => Moved(op, [op EXCEPT !.state = s])
<1>1. ASSUME NEW s \in States PROVE /\ Operation([op EXCEPT !.state = s])
                                    /\ [op EXCEPT !.state = s].state = s
  BY DEF Operation
<1>2. {"Running", "Completed", "Failed"} \subseteq States
  BY DEF States
<1> QED BY <1>1, <1>2, Moves DEF Moved, InFlight, Operation

\* supersedeInFlightOperations fails failovers in flight, and leaves the
\* operation it runs for alone.
LEMMA SupersededGroupsMoved ==
  ASSUME OpsTyped, NEW g \in GroupOp
  PROVE  /\ \A q \in GroupOp : Moved(gop[q], SupersededGroups(g)[q])
         /\ SupersededGroups(g) = [q \in GroupOp |-> SupersededGroups(g)[q]]
<1>1. ASSUME NEW q \in GroupOp PROVE Moved(gop[q], SupersededGroups(g)[q])
  <2>1. \/ SupersededGroups(g)[q] = gop[q]
        \/ InFlight(gop[q]) /\ SupersededGroups(g)[q] = [gop[q] EXCEPT !.state = "Failed"]
    BY DEF SupersededGroups
  <2> QED BY <2>1, StateWrites DEF OpsTyped
<1> QED BY <1>1 DEF SupersededGroups

\* The last write of a reconciliation of a running group operation.
LEMMA WriteGroupOpWrites ==
  ASSUME OpsTyped, NEW g \in GroupOp, NEW op, Moved(gop[g], op), WriteGroupOp(g, op)
  PROVE  GroupOpsWritten
<1>1. gop' = SupersededGroups(g) \/ gop' = [SupersededGroups(g) EXCEPT ![g] = op]
  BY DEF WriteGroupOp
<1> QED BY <1>1, SupersededGroupsMoved DEF GroupOpsWritten

\* Creating children: only objects that are not there come into being.
LEMMA AskedWrites ==
  ASSUME OpsTyped, NEW g \in GroupOp, NEW S, child' = Asked(g, S)
  PROVE  ChildrenWritten
<1> DEFINE new == [type |-> gop[g].type, state |-> "Pending", owned |-> FALSE]
<1>1. child' = [q \in GroupOp |-> [i \in Instance |-> child'[q][i]]]
  BY DEF Asked, OpsTyped
<1>2. ASSUME NEW q \in GroupOp, NEW i \in Instance PROVE Moved(child[q][i], child'[q][i])
  <2>1. child'[q][i] = child[q][i] \/ (Missing(child[q][i]) /\ child'[q][i] = new)
    BY DEF Asked, OpsTyped
  <2>2. Operation(new) /\ new.state = "Pending"
    BY DEF Operation, States
  <2>3. Moved(child[q][i], child[q][i])
    BY StateWrites DEF OpsTyped
  <2> HIDE DEF new
  <2> QED BY <2>1, <2>2, <2>3, Moves DEF Missing, Moved
<1> QED BY <1>1, <1>2 DEF ChildrenWritten

\* A step that leaves all group operations alone.
LEMMA GroupOpsKept == ASSUME OpsTyped, UNCHANGED gop PROVE GroupOpsWritten
BY StateWrites DEF OpsTyped, GroupOpsWritten

\* A step that leaves all children alone.
LEMMA ChildrenKept == ASSUME OpsTyped, UNCHANGED child PROVE ChildrenWritten
BY StateWrites DEF OpsTyped, ChildrenWritten

\* A reconciliation of a group operation.
LEMMA ReconcileGroupOpWrites ==
  ASSUME OpsTyped, NEW g \in GroupOp, ReconcileGroupOp(g)
  PROVE  GroupOpsWritten /\ ChildrenWritten
<1>o. Operation(gop[g])
  BY DEF OpsTyped
<1>1. CASE StartGroupOp(g)
  <2>1. gop[g].state = "Pending" /\ gop' = [gop EXCEPT ![g].state = "Running"]
    BY <1>1 DEF StartGroupOp
  <2>2. Moved(gop[g], [gop[g] EXCEPT !.state = "Running"])
    BY <1>o, <2>1, Moves DEF Moved, Operation, States
  <2>3. \A q \in GroupOp : Moved(gop[q], gop[q])
    BY StateWrites DEF OpsTyped
  <2>4. GroupOpsWritten
    BY <2>1, <2>2, <2>3 DEF GroupOpsWritten, OpsTyped
  <2> QED BY <1>1, <2>4, ChildrenKept DEF StartGroupOp
<1>2. CASE GroupNotFound(g)
  <2>1. Moved(gop[g], [gop[g] EXCEPT !.state = "Failed"])
    BY <1>o, <1>2, StateWrites DEF GroupNotFound
  <2> QED BY <1>2, <2>1, WriteGroupOpWrites, ChildrenKept DEF GroupNotFound
<1>l. ASSUME NEW n, NEW S
      PROVE  /\ Moved(gop[g], [gop[g] EXCEPT !.level = n])
             /\ Moved(gop[g], [gop[g] EXCEPT !.level = n, !.skipped = S])
  BY <1>o, Moves DEF Moved, Operation
<1>3. CASE InitLevel(g)
  BY <1>3, <1>l, WriteGroupOpWrites, ChildrenKept DEF InitLevel
<1>4. CASE CompleteGroupOp(g)
  <2>1. Moved(gop[g], [gop[g] EXCEPT !.state = "Completed"])
    BY <1>o, <1>4, StateWrites DEF CompleteGroupOp
  <2> QED BY <1>4, <2>1, WriteGroupOpWrites, ChildrenKept DEF CompleteGroupOp
<1>5. CASE HandleLevel(g)
  <2>1. gop[g].state = "Running"
    BY <1>5 DEF HandleLevel
  <2>2. Moved(gop[g], [gop[g] EXCEPT !.state = "Failed"])
    BY <1>o, <2>1, StateWrites
  <2>3. GroupOpsWritten
    <3>1. \/ WriteGroupOp(g, [gop[g] EXCEPT !.state = "Failed"])
          \/ \E n, S : WriteGroupOp(g, [gop[g] EXCEPT !.level = n, !.skipped = S])
          \/ gop' = SupersededGroups(g)
      BY <1>5 DEF HandleLevel
    <3>2. CASE gop' = SupersededGroups(g)
      BY <3>2, SupersededGroupsMoved DEF GroupOpsWritten
    <3> QED BY <2>2, <1>l, <3>1, <3>2, WriteGroupOpWrites
  <2>4. UNCHANGED child \/ \E S : child' = Asked(g, S)
    BY <1>5 DEF HandleLevel
  <2> QED BY <2>3, <2>4, AskedWrites, ChildrenKept
<1> QED BY <1>1, <1>2, <1>3, <1>4, <1>5 DEF ReconcileGroupOp

\* A reconciliation of a child leaves it Running, Completed or Failed.
LEMMA OutcomeStates ==
  ASSUME NEW type, NEW f, NEW conflict, NEW out \in Outcomes(type, f, conflict)
  PROVE  out[1] \in {"Running", "Completed", "Failed"}
BY DEF Outcomes

\* A cancel fails the failovers in flight of its instance, and nothing else.
LEMMA SupersededChildrenMoved ==
  ASSUME OpsTyped, NEW g \in GroupOp, NEW i \in Instance
  PROVE  /\ SupersededChildren(g, i) = [q \in GroupOp |-> [j \in Instance |-> SupersededChildren(g, i)[q][j]]]
         /\ SupersededChildren(g, i)[g] = child[g]
         /\ \A q \in GroupOp, j \in Instance : Moved(child[q][j], SupersededChildren(g, i)[q][j])
<1> DEFINE C == SupersededChildren(g, i)
           failed(q) == [child[q][i] EXCEPT !.state = "Failed"]
<1>0. \A q \in GroupOp : child[q] = [j \in Instance |-> child[q][j]]
  BY DEF OpsTyped
<1>1. ASSUME NEW q \in GroupOp
      PROVE  \/ C[q] = child[q]
             \/ q # g /\ InFlight(child[q][i]) /\ C[q] = [child[q] EXCEPT ![i] = failed(q)]
  BY DEF SupersededChildren
<1>2. C = [q \in GroupOp |-> C[q]]
  BY DEF SupersededChildren
<1> HIDE DEF C, failed
<1>3. ASSUME NEW q \in GroupOp PROVE C[q] = [j \in Instance |-> C[q][j]]
  BY <1>0, <1>1
<1>4. ASSUME NEW q \in GroupOp, NEW j \in Instance PROVE Moved(child[q][j], C[q][j])
  <2>1. Moved(child[q][j], child[q][j])
    BY StateWrites DEF OpsTyped
  <2>2. InFlight(child[q][i]) => Moved(child[q][i], failed(q))
    BY StateWrites DEF OpsTyped, failed
  <2> QED BY <1>0, <1>1, <2>1, <2>2
<1>5. C = [q \in GroupOp |-> [j \in Instance |-> C[q][j]]]
  BY <1>2, <1>3
<1>6. C[g] = child[g]
  BY <1>1
<1> QED BY <1>4, <1>5, <1>6 DEF C

\* A reconciliation of a child.
LEMMA ReconcileChildWrites ==
  ASSUME OpsTyped, NEW g \in GroupOp, NEW i \in Instance, ReconcileChild(g, i)
  PROVE  GroupOpsWritten /\ ChildrenWritten
<1> DEFINE new(s) == [child[g][i] EXCEPT !.state = s, !.owned = Owned(g, i)]
<1>o. Operation(child[g][i])
  BY DEF OpsTyped
<1>n. ASSUME NEW s \in States PROVE Operation(new(s)) /\ new(s).state = s
  BY <1>o DEF Operation
<1>k. GroupOpsWritten
  BY GroupOpsKept DEF ReconcileChild, StartChild, RunChild
<1> HIDE DEF new
<1>w. ASSUME NEW C, C[g] = child[g],
             C = [q \in GroupOp |-> [j \in Instance |-> C[q][j]]],
             \A q \in GroupOp, j \in Instance : Moved(child[q][j], C[q][j]),
             NEW s \in States, Move(child[g][i].state, s),
             child' = [C EXCEPT ![g] = [C[g] EXCEPT ![i] = new(s)]]
      PROVE  ChildrenWritten
  <2>1. Moved(child[g][i], new(s))
    BY <1>n, <1>w DEF Moved
  <2>2. child' = [q \in GroupOp |-> [j \in Instance |-> child'[q][j]]]
    BY <1>w
  <2>3. \A q \in GroupOp, j \in Instance : Moved(child[q][j], child'[q][j])
    BY <1>w, <2>1
  <2> QED BY <2>2, <2>3 DEF ChildrenWritten
<1>1. CASE StartChild(g, i)
  <2>1. child' = [child EXCEPT ![g] = [child[g] EXCEPT ![i] = new("Running")]]
    BY <1>1 DEF StartChild, new, OpsTyped
  <2>2. \A q \in GroupOp, j \in Instance : Moved(child[q][j], child[q][j])
    BY StateWrites DEF OpsTyped
  <2>3. Move(child[g][i].state, "Running") /\ "Running" \in States
    BY <1>1, Moves DEF StartChild, States
  <2>4. child = [q \in GroupOp |-> [j \in Instance |-> child[q][j]]]
    BY DEF OpsTyped
  <2> QED BY <1>k, <1>w, <2>1, <2>2, <2>3, <2>4
<1>2. CASE RunChild(g, i)
  <2> DEFINE C == SupersededChildren(g, i)
  <2>1. PICK out \in Outcomes(child[g][i].type, fsm[i], findOtherInFlightOperation(g, i)) :
          child' = [C EXCEPT ![g][i].state = out[1], ![g][i].owned = Owned(g, i)]
    BY <1>2 DEF RunChild
  <2>2. out[1] \in {"Running", "Completed", "Failed"}
    BY OutcomeStates
  <2>3. Move(child[g][i].state, out[1]) /\ out[1] \in States
    BY <1>2, <2>2, Moves DEF RunChild, States
  <2>4. /\ C[g] = child[g] /\ C = [q \in GroupOp |-> [j \in Instance |-> C[q][j]]]
        /\ \A q \in GroupOp, j \in Instance : Moved(child[q][j], C[q][j])
    BY SupersededChildrenMoved
  <2> HIDE DEF C
  <2>5. child' = [C EXCEPT ![g] = [C[g] EXCEPT ![i] = new(out[1])]]
    BY <2>1, <2>4 DEF new
  <2> QED BY <1>k, <1>w, <2>3, <2>4, <2>5
<1> QED BY <1>1, <1>2 DEF ReconcileChild

\* Objects that are there may be deleted.
LEMMA Deletions ==
  ASSUME NEW op, Operation(op), ~Missing(op)
  PROVE  Moved(op, [NoChild EXCEPT !.state = "Deleted"]) /\ Moved(op, [NoGroupOp EXCEPT !.state = "Deleted"])
<1>1. Move(op.state, "Deleted")
  BY Moves DEF Operation, Missing
<1>2. /\ Operation([NoChild EXCEPT !.state = "Deleted"])
      /\ [NoChild EXCEPT !.state = "Deleted"].state = "Deleted"
  BY DEF Operation, NoChild, States
<1>3. /\ Operation([NoGroupOp EXCEPT !.state = "Deleted"])
      /\ [NoGroupOp EXCEPT !.state = "Deleted"].state = "Deleted"
  BY DEF Operation, NoGroupOp, States
<1> QED BY <1>1, <1>2, <1>3 DEF Moved

\* The garbage collector deletes children, and does nothing else to them.
LEMMA CollectedWrites ==
  ASSUME OpsTyped, NEW S, child' = Collected(S)
  PROVE  ChildrenWritten
<1>1. child' = [q \in GroupOp |-> [i \in Instance |-> child'[q][i]]]
  BY DEF Collected
<1>2. ASSUME NEW q \in GroupOp, NEW i \in Instance PROVE Moved(child[q][i], child'[q][i])
  <2>1. \/ child'[q][i] = child[q][i]
        \/ ~Missing(child[q][i]) /\ child'[q][i] = [NoChild EXCEPT !.state = "Deleted"]
    BY DEF Collected
  <2> QED BY <2>1, Deletions, StateWrites DEF OpsTyped
<1> QED BY <1>1, <1>2 DEF ChildrenWritten

\* Users create, edit and delete groups, operations, children and instances.
LEMMA UserWrites ==
  ASSUME OpsTyped, UserStep
  PROVE  GroupOpsWritten /\ ChildrenWritten
<1>k. /\ \A g \in GroupOp : Moved(gop[g], gop[g])
      /\ \A g \in GroupOp, i \in Instance : Moved(child[g][i], child[g][i])
  BY StateWrites DEF OpsTyped
<1>c. \A g \in GroupOp : child[g] = [i \in Instance |-> child[g][i]]
  BY DEF OpsTyped
<1>1. ASSUME NEW g \in GroupOp, SubmitGroupOp(g) PROVE GroupOpsWritten /\ ChildrenWritten
  <2>1. PICK op : op.state = "Pending" /\ {"type", "state"} \subseteq DOMAIN op /\ gop' = [gop EXCEPT ![g] = op]
    BY <1>1 DEF SubmitGroupOp
  <2>2. Moved(gop[g], op)
    BY <1>1, <2>1, Moves DEF SubmitGroupOp, Missing, Moved, Operation, States
  <2>3. GroupOpsWritten
    BY <1>k, <2>1, <2>2 DEF GroupOpsWritten, OpsTyped
  <2> QED BY <1>1, <2>3, ChildrenKept DEF SubmitGroupOp
<1>2. ASSUME NEW g \in GroupOp, DeleteGroupOp(g) PROVE GroupOpsWritten /\ ChildrenWritten
  <2>1. Moved(gop[g], [NoGroupOp EXCEPT !.state = "Deleted"])
    BY <1>2, Deletions DEF DeleteGroupOp, OpsTyped
  <2>2. GroupOpsWritten
    BY <1>k, <1>2, <2>1 DEF DeleteGroupOp, GroupOpsWritten, OpsTyped
  <2> QED BY <1>2, <2>2, CollectedWrites DEF DeleteGroupOp
<1>3. ASSUME NEW g \in GroupOp, NEW i \in Instance, DeleteChild(g, i)
      PROVE  GroupOpsWritten /\ ChildrenWritten
  <2> DEFINE gone == [NoChild EXCEPT !.state = "Deleted"]
  <2>1. Moved(child[g][i], gone)
    BY <1>3, Deletions DEF DeleteChild, OpsTyped
  <2>2. child' = [child EXCEPT ![g] = [child[g] EXCEPT ![i] = gone]]
    BY <1>3 DEF DeleteChild, OpsTyped
  <2> HIDE DEF gone
  <2>3. child' = [q \in GroupOp |-> [j \in Instance |-> child'[q][j]]]
    BY <1>c, <2>2 DEF OpsTyped
  <2>4. \A q \in GroupOp, j \in Instance : Moved(child[q][j], child'[q][j])
    BY <1>k, <1>c, <2>1, <2>2 DEF OpsTyped
  <2> QED BY <1>3, <2>3, <2>4, GroupOpsKept DEF DeleteChild, ChildrenWritten
<1>4. ASSUME NEW i \in Instance, ChangeInstance(i) PROVE GroupOpsWritten /\ ChildrenWritten
  <2> DEFINE gone == [NoChild EXCEPT !.state = "Deleted"]
             orphan(g) == [child[g][i] EXCEPT !.owned = FALSE]
  <2>1. ASSUME NEW g \in GroupOp, ~Missing(child[g][i]) PROVE Moved(child[g][i], gone)
    BY <2>1, Deletions DEF OpsTyped
  <2>2. ASSUME NEW g \in GroupOp PROVE Moved(child[g][i], orphan(g))
    <3>1. Operation(child[g][i])
      BY DEF OpsTyped
    <3> QED BY <3>1, Moves DEF Moved, Operation
  <2>3. ASSUME NEW g \in GroupOp
        PROVE  \/ child'[g] = child[g]
               \/ ~Missing(child[g][i]) /\ child'[g] = [child[g] EXCEPT ![i] = gone]
               \/ child'[g] = [child[g] EXCEPT ![i] = orphan(g)]
    BY <1>4 DEF ChangeInstance
  <2>4. child' = [g \in GroupOp |-> child'[g]]
    BY <1>4 DEF ChangeInstance, OpsTyped
  <2> HIDE DEF gone, orphan
  <2>5. ASSUME NEW g \in GroupOp PROVE child'[g] = [j \in Instance |-> child'[g][j]]
    BY <1>c, <2>3
  <2>6. child' = [g \in GroupOp |-> [j \in Instance |-> child'[g][j]]]
    BY <2>4, <2>5
  <2>7. ASSUME NEW g \in GroupOp, NEW j \in Instance PROVE Moved(child[g][j], child'[g][j])
    <3>1. DOMAIN child[g] = Instance
      BY <1>c
    <3>2. Moved(child[g][j], child[g][j])
      BY <1>k
    <3>3. CASE child'[g] = child[g]
      BY <3>2, <3>3
    <3>4. CASE ~Missing(child[g][i]) /\ child'[g] = [child[g] EXCEPT ![i] = gone]
      <4>1. child'[g][j] = IF j = i THEN gone ELSE child[g][j]
        BY <3>1, <3>4
      <4> QED BY <2>1, <3>2, <3>4, <4>1
    <3>5. CASE child'[g] = [child[g] EXCEPT ![i] = orphan(g)]
      <4>1. child'[g][j] = IF j = i THEN orphan(g) ELSE child[g][j]
        BY <3>1, <3>5
      <4> QED BY <2>2, <3>2, <4>1
    <3> QED BY <2>3, <3>3, <3>4, <3>5
  <2> QED BY <1>4, <2>6, <2>7, GroupOpsKept DEF ChangeInstance, ChildrenWritten
<1>5. CASE DeleteGroup
  <2> DEFINE owned == {g \in GroupOp : ~Missing(gop[g]) /\ gop[g].type # "drill"}
             gone == [NoGroupOp EXCEPT !.state = "Deleted"]
  <2>1. gop' = [g \in GroupOp |-> IF g \in owned THEN gone ELSE gop[g]]
    BY <1>5 DEF DeleteGroup
  <2>2. \A g \in owned : Moved(gop[g], gone)
    BY Deletions DEF OpsTyped
  <2>3. GroupOpsWritten
    BY <1>k, <2>1, <2>2 DEF GroupOpsWritten
  <2>4. child' = Collected(owned)
    BY <1>5 DEF DeleteGroup
  <2> QED BY <2>3, <2>4, CollectedWrites
<1>6. CASE EditGroup
  BY <1>6, GroupOpsKept, ChildrenKept DEF EditGroup
<1> QED BY <1>1, <1>2, <1>3, <1>4, <1>5, <1>6 DEF UserStep

\* Every step keeps all operations to the life cycle.
LEMMA NextWrites ==
  ASSUME OpsTyped, [Next]_vars
  PROVE  GroupOpsWritten /\ ChildrenWritten
<1>1. CASE UNCHANGED vars
  BY <1>1, GroupOpsKept, ChildrenKept DEF vars
<1> QED BY <1>1, ReconcileGroupOpWrites, ReconcileChildWrites, UserWrites DEF Next

\* Every operation and every child has a state in all reachable states.
LEMMA TypedInvariant == Spec => []OpsTyped
<1>1. Init => OpsTyped
  BY DEF Init, OpsTyped, Operation, NoGroupOp, NoChild, States
<1>2. OpsTyped /\ [Next]_vars => OpsTyped'
  BY NextWrites DEF GroupOpsWritten, ChildrenWritten, OpsTyped, Moved, Operation
<1> QED BY <1>1, <1>2, PTL DEF Spec

\* Group operations and their children are accepted, run and end once, however
\* they are superseded, orphaned, adopted, deleted and created again, and
\* whatever writes are lost: GroupSystem implements OperationLifecycle for
\* both, for every group.
THEOREM GroupImplementsLifecycle == Spec => FollowsLifecycle
<1> DEFINE gs == [g \in GroupOp |-> gop[g].state]
           cs == [n \in GroupOp \X Instance |-> child[n[1]][n[2]].state]
<1>1. Init => GroupOpLifecycle!Init /\ ChildLifecycle!Init
  BY DEF Init, GroupOpLifecycle!Init, ChildLifecycle!Init, NoGroupOp, NoChild
<1>2. OpsTyped /\ [Next]_vars => [GroupOpLifecycle!Next]_gs /\ [ChildLifecycle!Next]_cs
  <2> SUFFICES ASSUME OpsTyped, [Next]_vars
               PROVE  GroupOpLifecycle!Next /\ ChildLifecycle!Next
    OBVIOUS
  <2>1. GroupOpLifecycle!Next
    BY NextWrites DEF GroupOpsWritten, Moved, Move, GroupOpLifecycle!Next
  <2>2. ASSUME NEW n \in GroupOp \X Instance
        PROVE  Move(child[n[1]][n[2]].state, child'[n[1]][n[2]].state)
    <3>1. n[1] \in GroupOp /\ n[2] \in Instance
      OBVIOUS
    <3> QED BY <3>1, NextWrites DEF ChildrenWritten, Moved
  <2>3. ChildLifecycle!Steps = GroupOpLifecycle!Steps
    BY DEF ChildLifecycle!Steps, GroupOpLifecycle!Steps, ChildLifecycle!OperationStates,
           GroupOpLifecycle!OperationStates
  <2>4. ChildLifecycle!Next
    BY <2>2, <2>3 DEF Move, ChildLifecycle!Next
  <2> QED BY <2>1, <2>4
<1> QED BY TypedInvariant, <1>1, <1>2, PTL
        DEF Spec, FollowsLifecycle, GroupOpLifecycle!Spec, ChildLifecycle!Spec

(***************************************************************************)
(* The levels.                                                             *)
(***************************************************************************)
GroupOperation(op) ==
  /\ {"type", "state", "level", "at", "skipped"} \subseteq DOMAIN op
  /\ op.state \in States /\ op.level \in Nat /\ op.at \in Nat

\* The types the levels need.
LevelsTyped ==
  /\ OpsTyped
  /\ \A g \in GroupOp : GroupOperation(gop[g])
  /\ group \in [levels : LevelLists, policy : Policies, exists : BOOLEAN]
  /\ fsm = [i \in Instance |-> fsm[i]]
  /\ faults \in Nat /\ faults <= MaxFaults
  /\ submits \in Seq(GroupTypes)

\* What a step may make of a group operation: nothing but end or delete it ...
Kept(old, new) ==
  /\ GroupOperation(new) /\ (InFlight(new) => InFlight(old)) /\ (Missing(new) => new.state = old.state)
  /\ new.type = old.type /\ new.level = old.level /\ new.at = old.at /\ new.skipped = old.skipped

\* ... users delete it, or submit it ...
Removed(g) == gop'[g] = [NoGroupOp EXCEPT !.state = "Deleted"] /\ faults > 0 /\ faults' = faults - 1

Begun(g) ==
  /\ Missing(gop[g]) /\ GroupOperation(gop'[g]) /\ gop'[g].state = "Pending"
  /\ gop'[g].level = 0 /\ gop'[g].skipped = {}
  /\ submits' \in Seq(GroupTypes) /\ Len(submits') = Len(submits) + 1 /\ gop'[g].at = Len(submits')
  /\ UNCHANGED <<group, child, fsm>>

\* ... or it enters its first level, or leaves a level that is done.
Opened(g) ==
  /\ gop[g].state = "Running" /\ gop[g].level = 0
  /\ gop'[g] = [gop[g] EXCEPT !.level = 1]
  /\ \A q \in GroupOp \ {g} : gop'[q] = SupersededGroups(g)[q]
  /\ UNCHANGED <<group, child, fsm>>

Advanced(g) ==
  /\ gop[g].state = "Running" /\ gop[g].level \in DOMAIN group.levels
  /\ LET level == group.levels[gop[g].level]
     IN /\ \A i \in Range(level) : ~Blocks(g, i)
        /\ LevelDone(g, level)
        /\ gop'[g] = [gop[g] EXCEPT !.level = NextLevel(g), !.skipped = Skipped(g, level)]
  /\ UNCHANGED <<group, child, fsm>>

LEMMA StateReplaced ==
  ASSUME NEW op, GroupOperation(op), NEW s \in {"Running", "Completed", "Failed"},
         InFlight(op) \/ s = "Failed"
  PROVE  LET new == [op EXCEPT !.state = s] IN Kept(op, op) /\ Kept(op, new) /\ new.state = s
BY DEF GroupOperation, Kept, InFlight, Missing, States

\* supersedeInFlightOperations touches the state of operations only.
LEMMA SupersededKept ==
  ASSUME LevelsTyped, NEW g \in GroupOp, NEW q \in GroupOp
  PROVE  /\ Kept(gop[q], SupersededGroups(g)[q]) /\ SupersededGroups(g)[g] = gop[g]
         /\ (SupersededGroups(g)[q] = gop[q] \/ SupersededGroups(g)[q].state = "Failed")
<1>1. \/ SupersededGroups(g)[q] = gop[q]
      \/ SupersededGroups(g)[q] = [gop[q] EXCEPT !.state = "Failed"]
  BY DEF SupersededGroups
<1>2. SupersededGroups(g)[g] = gop[g]
  BY DEF SupersededGroups
<1>3. GroupOperation(gop[q]) /\ "Failed" \in States
  BY DEF LevelsTyped, States
<1>4. Kept(gop[q], gop[q])
  BY <1>3 DEF Kept
<1>5. LET new == [gop[q] EXCEPT !.state = "Failed"] IN Kept(gop[q], new) /\ new.state = "Failed"
  BY <1>3, StateReplaced
<1> QED BY <1>1, <1>2, <1>4, <1>5

\* The last write of a reconciliation of g.
LEMMA LastWrite ==
  ASSUME LevelsTyped, NEW g \in GroupOp, NEW op, WriteGroupOp(g, op), NEW q \in GroupOp
  PROVE  /\ q # g => Kept(gop[q], gop'[q]) /\ gop'[q] = SupersededGroups(g)[q]
         /\ (gop'[g] = op \/ gop'[g] = gop[g])
<1>1. SupersededGroups(g) = [h \in GroupOp |-> SupersededGroups(g)[h]]
  BY DEF SupersededGroups
<1>2. gop' = SupersededGroups(g) \/ gop' = [SupersededGroups(g) EXCEPT ![g] = op]
  BY DEF WriteGroupOp
<1> QED BY <1>1, <1>2, SupersededKept

\* What a step makes of a group operation.
LEMMA GroupOpSteps ==
  ASSUME LevelsTyped, [Next]_vars, NEW g \in GroupOp
  PROVE  Kept(gop[g], gop'[g]) \/ Removed(g) \/ Begun(g) \/ Opened(g) \/ Advanced(g)
<1>t. \A q \in GroupOp : GroupOperation(gop[q])
  BY DEF LevelsTyped
<1>k. \A q \in GroupOp : Kept(gop[q], gop[q])
  BY <1>t DEF Kept
<1>0. CASE UNCHANGED gop
  BY <1>0, <1>k
<1>1. CASE UNCHANGED vars
  BY <1>0, <1>1 DEF vars
<1>2. ASSUME NEW h \in GroupOp, ReconcileGroupOp(h)
      PROVE  Kept(gop[g], gop'[g]) \/ Opened(g) \/ Advanced(g)
  <2>s. \A s \in {"Running", "Completed", "Failed"} : Kept(gop[h], [gop[h] EXCEPT !.state = s])
    <3>1. {"Running", "Completed", "Failed"} \subseteq States
      BY DEF States
    <3>2. InFlight(gop[h])
      BY <1>2 DEF ReconcileGroupOp, StartGroupOp, GroupNotFound, InitLevel, CompleteGroupOp, HandleLevel,
                  InFlight
    <3> QED BY <1>t, <3>1, <3>2, StateReplaced
  <2>w. ASSUME NEW op, WriteGroupOp(h, op), Kept(gop[h], op) PROVE Kept(gop[g], gop'[g])
    BY <1>k, <2>w, LastWrite
  <2>1. CASE StartGroupOp(h)
    <3>1. gop' = [gop EXCEPT ![h] = [gop[h] EXCEPT !.state = "Running"]]
      BY <2>1 DEF StartGroupOp, LevelsTyped, OpsTyped
    <3> QED BY <1>k, <2>s, <3>1 DEF LevelsTyped, OpsTyped
  <2>2. CASE GroupNotFound(h)
    BY <2>2, <2>s, <2>w DEF GroupNotFound
  <2>3. CASE CompleteGroupOp(h)
    BY <2>3, <2>s, <2>w DEF CompleteGroupOp
  <2>4. CASE InitLevel(h)
    <3>1. /\ WriteGroupOp(h, [gop[h] EXCEPT !.level = 1]) /\ gop[h].state = "Running" /\ gop[h].level = 0
          /\ UNCHANGED <<group, child, fsm>>
      BY <2>4 DEF InitLevel
    <3>2. CASE g # h
      BY <3>1, <3>2, LastWrite
    <3>3. CASE g = h /\ gop'[g] = gop[g]
      BY <1>k, <3>3
    <3>4. CASE g = h /\ gop'[g] # gop[g]
      <4>1. gop'[g] = [gop[g] EXCEPT !.level = 1]
        BY <3>1, <3>4, LastWrite
      <4>2. \A q \in GroupOp \ {g} : gop'[q] = SupersededGroups(g)[q]
        BY <3>1, <3>4, LastWrite
      <4> QED BY <3>1, <3>4, <4>1, <4>2 DEF Opened
    <3> QED BY <3>2, <3>3, <3>4
  <2>5. CASE HandleLevel(h)
    <3> DEFINE level == group.levels[gop[h].level]
               next == [gop[h] EXCEPT !.level = NextLevel(h), !.skipped = Skipped(h, level)]
    <3>1. CASE gop' = SupersededGroups(h)
      BY <3>1, SupersededKept
    <3>2. CASE WriteGroupOp(h, [gop[h] EXCEPT !.state = "Failed"])
      BY <2>s, <2>w, <3>2
    <3>3. CASE /\ \A i \in Range(level) : ~Blocks(h, i)
               /\ LevelDone(h, level) /\ UNCHANGED child
               /\ WriteGroupOp(h, next)
      <4>1. gop[h].state = "Running" /\ gop[h].level \in DOMAIN group.levels /\ UNCHANGED <<group, fsm>>
        BY <2>5 DEF HandleLevel
      <4>2. CASE g # h
        BY <3>3, <4>2, LastWrite
      <4>3. CASE g = h /\ gop'[g] = gop[g]
        BY <1>k, <4>3
      <4>4. CASE g = h /\ gop'[g] # gop[g]
        <5>1. gop'[g] = next
          BY <3>3, <4>4, LastWrite
        <5> QED BY <3>3, <4>1, <4>4, <5>1 DEF Advanced
      <4> QED BY <4>2, <4>3, <4>4
    <3>4. \/ gop' = SupersededGroups(h)
          \/ WriteGroupOp(h, [gop[h] EXCEPT !.state = "Failed"])
          \/ /\ \A i \in Range(level) : ~Blocks(h, i)
             /\ LevelDone(h, level) /\ UNCHANGED child
             /\ WriteGroupOp(h, next)
      BY <2>5 DEF HandleLevel
    <3> QED BY <3>1, <3>2, <3>3, <3>4
  <2> QED BY <1>2, <2>1, <2>2, <2>3, <2>4, <2>5 DEF ReconcileGroupOp
<1>3. ASSUME NEW h \in GroupOp, NEW i \in Instance, ReconcileChild(h, i) PROVE Kept(gop[g], gop'[g])
  BY <1>k, <1>3 DEF ReconcileChild, StartChild, RunChild
<1>4. ASSUME NEW h \in GroupOp, SubmitGroupOp(h) PROVE Kept(gop[g], gop'[g]) \/ Begun(g)
  <2>1. PICK op : /\ gop' = [gop EXCEPT ![h] = op] /\ op.at = Len(submits') /\ op.skipped = {}
                  /\ op.level = 0 /\ op.state = "Pending"
                  /\ {"type", "state", "level", "at", "skipped"} \subseteq DOMAIN op
    <3> DEFINE op(m) == [type |-> submits'[Len(submits')], state |-> "Pending", level |-> 0, modes |-> m,
                         at |-> Len(submits'), skipped |-> {}]
    <3>1. PICK m : gop' = [gop EXCEPT ![h] = op(m)]
      BY <1>4 DEF SubmitGroupOp
    <3>2. /\ op(m).at = Len(submits') /\ op(m).skipped = {} /\ op(m).level = 0 /\ op(m).state = "Pending"
          /\ {"type", "state", "level", "at", "skipped"} \subseteq DOMAIN op(m)
      OBVIOUS
    <3> HIDE DEF op
    <3> QED BY <3>1, <3>2
  <2>2. CASE g # h
    BY <1>k, <2>1, <2>2 DEF LevelsTyped, OpsTyped
  <2>3. CASE g = h
    <3>1. gop'[g] = op /\ Missing(gop[g]) /\ UNCHANGED <<group, child, fsm>>
      BY <1>4, <2>1, <2>3 DEF SubmitGroupOp, LevelsTyped, OpsTyped
    <3>2. PICK script \in Scripts : /\ Len(submits) < Len(script)
                                   /\ submits' = SubSeq(script, 1, Len(submits) + 1)
      BY <1>4 DEF SubmitGroupOp
    <3>3. script \in Seq(GroupTypes) /\ Len(submits) \in Nat
      BY GroupAssumption DEF LevelsTyped
    <3>4. submits' \in Seq(GroupTypes) /\ Len(submits') = Len(submits) + 1
      BY <3>2, <3>3
    <3>5. GroupOperation(op)
      BY <2>1, <3>3, <3>4 DEF GroupOperation, States
    <3> QED BY <2>1, <3>1, <3>4, <3>5 DEF Begun
  <2> QED BY <2>2, <2>3
<1>5. ASSUME NEW h \in GroupOp, DeleteGroupOp(h) PROVE Kept(gop[g], gop'[g]) \/ Removed(g)
  BY <1>k, <1>5 DEF DeleteGroupOp, Fault, Removed, LevelsTyped, OpsTyped
<1>6. CASE DeleteGroup
  BY <1>k, <1>6 DEF DeleteGroup, Fault, Removed
<1>7. ASSUME NEW i \in Instance,
             ChangeInstance(i) \/ \E h \in GroupOp : DeleteChild(h, i)
      PROVE  Kept(gop[g], gop'[g])
  BY <1>k, <1>7 DEF ChangeInstance, DeleteChild
<1>8. CASE EditGroup
  BY <1>0, <1>8 DEF EditGroup
<1> QED BY <1>1, <1>2, <1>3, <1>4, <1>5, <1>6, <1>7, <1>8 DEF Next, UserStep

\* The rest of the state: who writes it, and what.
LEMMA GroupSteps ==
  ASSUME LevelsTyped, [Next]_vars
  PROVE  /\ group' \in [levels : LevelLists, policy : Policies, exists : BOOLEAN]
         /\ group'.policy = group.policy
         /\ (\E g \in GroupOp : InFlight(gop[g])) => group'.levels = group.levels
<1> DEFINE Goal == /\ group' \in [levels : LevelLists, policy : Policies, exists : BOOLEAN]
                   /\ group'.policy = group.policy
                   /\ (\E g \in GroupOp : InFlight(gop[g])) => group'.levels = group.levels
<1>0. CASE UNCHANGED group
  BY <1>0 DEF LevelsTyped
<1>1. CASE DeleteGroup
  BY <1>1 DEF DeleteGroup, LevelsTyped
<1>2. CASE EditGroup
  BY <1>2 DEF EditGroup, LevelsTyped
<1>3. ASSUME NEW g \in GroupOp, ReconcileGroupOp(g) PROVE UNCHANGED group
  BY <1>3 DEF ReconcileGroupOp, StartGroupOp, GroupNotFound, InitLevel, CompleteGroupOp, HandleLevel
<1>4. ASSUME NEW g \in GroupOp, NEW i \in Instance, ReconcileChild(g, i) PROVE UNCHANGED group
  BY <1>4 DEF ReconcileChild, StartChild, RunChild
<1>5. ASSUME NEW g \in GroupOp, SubmitGroupOp(g) \/ DeleteGroupOp(g) \/ \E i \in Instance : DeleteChild(g, i)
      PROVE  UNCHANGED group
  BY <1>5 DEF SubmitGroupOp, DeleteGroupOp, DeleteChild
<1>6. ASSUME NEW i \in Instance, ChangeInstance(i) PROVE UNCHANGED group
  BY <1>6 DEF ChangeInstance
<1>7. CASE UNCHANGED vars
  BY <1>0, <1>7 DEF vars
<1> HIDE DEF Goal
<1>8. (UNCHANGED group \/ DeleteGroup \/ EditGroup) => Goal
  BY <1>0, <1>1, <1>2 DEF Goal
<1>9. Goal
  BY <1>3, <1>4, <1>5, <1>6, <1>7, <1>8 DEF Next, UserStep, vars
<1> QED BY <1>9 DEF Goal

\* Faults are counted down; without one, users only submit group operations.
LEMMA FaultSteps ==
  ASSUME LevelsTyped, [Next]_vars
  PROVE  /\ faults' \in Nat /\ faults' <= MaxFaults
         /\ submits' \in Seq(GroupTypes)
         /\ fsm' = [i \in Instance |-> fsm'[i]]
         /\ \/ faults' < faults
            \/ /\ faults' = faults
               /\ \/ UNCHANGED vars
                  \/ \E g \in GroupOp : \/ ReconcileGroupOp(g) /\ UNCHANGED <<fsm, submits>>
                                        \/ SubmitGroupOp(g)
                                        \/ \E i \in Instance : ReconcileChild(g, i) /\ UNCHANGED submits
<1> DEFINE Typed == /\ faults' \in Nat /\ faults' <= MaxFaults
                    /\ submits' \in Seq(GroupTypes)
                    /\ fsm' = [i \in Instance |-> fsm'[i]]
           Quiet == \/ UNCHANGED vars
                    \/ \E g \in GroupOp : \/ ReconcileGroupOp(g) /\ UNCHANGED <<fsm, submits>>
                                          \/ SubmitGroupOp(g)
                                          \/ \E i \in Instance : ReconcileChild(g, i) /\ UNCHANGED submits
           Goal == Typed /\ (faults' < faults \/ (faults' = faults /\ Quiet))
<1>t. /\ faults \in Nat /\ faults <= MaxFaults /\ MaxFaults \in Nat
      /\ submits \in Seq(GroupTypes) /\ fsm = [i \in Instance |-> fsm[i]]
  BY GroupAssumption DEF LevelsTyped
<1>f. \A f : Fault(f) => faults' \in Nat /\ faults' < faults /\ faults' <= MaxFaults
  BY <1>t DEF Fault
<1>1. CASE UNCHANGED vars
  BY <1>t, <1>1 DEF vars
<1>2. ASSUME NEW g \in GroupOp, ReconcileGroupOp(g) PROVE Goal
  <2>1. UNCHANGED <<fsm, submits>>
    BY <1>2 DEF ReconcileGroupOp, StartGroupOp, GroupNotFound, InitLevel, CompleteGroupOp, HandleLevel
  <2>2. UNCHANGED faults \/ \E f : Fault(f)
    BY <1>2 DEF ReconcileGroupOp, StartGroupOp, GroupNotFound, InitLevel, CompleteGroupOp, HandleLevel,
                WriteGroupOp
  <2> QED BY <1>t, <1>f, <1>2, <2>1, <2>2
<1>3. ASSUME NEW g \in GroupOp, NEW i \in Instance, ReconcileChild(g, i) PROVE Goal
  <2>1. UNCHANGED <<faults, submits>>
    BY <1>3 DEF ReconcileChild, StartChild, RunChild
  <2>2. fsm' = [j \in Instance |-> fsm'[j]]
    BY <1>t, <1>3 DEF ReconcileChild, StartChild, RunChild
  <2> QED BY <1>t, <1>3, <2>1, <2>2
<1>4. ASSUME NEW g \in GroupOp, SubmitGroupOp(g) PROVE Goal
  <2>1. UNCHANGED <<faults, fsm>>
    BY <1>4 DEF SubmitGroupOp
  <2>2. PICK script \in Scripts : /\ Len(submits) < Len(script)
                                  /\ submits' = SubSeq(script, 1, Len(submits) + 1)
    BY <1>4 DEF SubmitGroupOp
  <2>3. script \in Seq(GroupTypes) /\ Len(submits) \in Nat
    BY <1>t, GroupAssumption
  <2>4. submits' \in Seq(GroupTypes)
    BY <2>2, <2>3
  <2> QED BY <1>t, <1>4, <2>1, <2>4
<1>5. CASE (\E g \in GroupOp : DeleteGroupOp(g) \/ \E i \in Instance : DeleteChild(g, i)) \/ DeleteGroup \/ EditGroup
  <2>1. UNCHANGED <<fsm, submits>> /\ \E f : Fault(f)
    BY <1>5 DEF DeleteGroupOp, DeleteChild, DeleteGroup, EditGroup
  <2> QED BY <1>t, <1>f, <2>1
<1>6. ASSUME NEW i \in Instance, ChangeInstance(i) PROVE Goal
  BY <1>t, <1>f, <1>6 DEF ChangeInstance
<1> HIDE DEF Goal
<1>7. Goal
  BY <1>1, <1>2, <1>3, <1>4, <1>5, <1>6 DEF Next, UserStep, Goal
<1> QED BY <1>7 DEF Goal

\* The types hold in all reachable states.
LEMMA LevelsTypedInvariant == Spec => []LevelsTyped
<1>1. Init => LevelsTyped
  <2> SUFFICES ASSUME Init PROVE LevelsTyped
    OBVIOUS
  <2>1. OpsTyped
    BY DEF Init, OpsTyped, Operation, NoGroupOp, NoChild, States
  <2>2. \A g \in GroupOp : GroupOperation(gop[g])
    BY DEF Init, GroupOperation, NoGroupOp, States
  <2>3. group \in [levels : LevelLists, policy : Policies, exists : BOOLEAN]
    BY DEF Init
  <2>4. fsm = [i \in Instance |-> fsm[i]] /\ faults \in Nat /\ faults <= MaxFaults
    BY GroupAssumption DEF Init
  <2>5. submits \in Seq(GroupTypes)
    BY DEF Init
  <2> QED BY <2>1, <2>2, <2>3, <2>4, <2>5 DEF LevelsTyped
<1>2. LevelsTyped /\ [Next]_vars => LevelsTyped'
  <2> SUFFICES ASSUME LevelsTyped, [Next]_vars PROVE LevelsTyped'
    OBVIOUS
  <2>1. OpsTyped'
    BY NextWrites DEF LevelsTyped, GroupOpsWritten, ChildrenWritten, OpsTyped, Moved, Operation
  <2>2. ASSUME NEW g \in GroupOp PROVE GroupOperation(gop'[g])
    <3>1. GroupOperation(gop[g])
      BY DEF LevelsTyped
    <3>2. CASE Kept(gop[g], gop'[g]) \/ Begun(g)
      BY <3>2 DEF Kept, Begun
    <3>3. CASE Removed(g)
      BY <3>3 DEF Removed, NoGroupOp, GroupOperation, States
    <3>4. CASE Opened(g)
      BY <3>1, <3>4 DEF Opened, GroupOperation
    <3>5. CASE Advanced(g)
      <4>1. NextLevel(g) \in Nat
        BY <3>1 DEF NextLevel, GroupOperation
      <4> QED BY <3>1, <3>5, <4>1 DEF Advanced, GroupOperation
    <3> QED BY <3>2, <3>3, <3>4, <3>5, GroupOpSteps
  <2> QED BY <2>1, <2>2, GroupSteps, FaultSteps DEF LevelsTyped
<1> QED BY <1>1, <1>2, PTL DEF Spec

\* What a step may make of the child of g on i, besides leaving it alone: the
\* group operation creates it ...
Created(g, i) ==
  /\ Missing(child[g][i]) /\ gop[g].state = "Running" /\ i \in Current(g) /\ gop[g].level # 0
  /\ child'[g][i].type = gop[g].type /\ child'[g][i].state = "Pending"

\* ... it starts, a cancel supersedes it, users or the garbage collector take it ...
Started(old, new) == new.type = old.type /\ old.state = "Pending" /\ new.state = "Running"

Ended(old, new) == new.type = old.type /\ old.type = "failover" /\ InFlight(old) /\ new.state = "Failed"

Disturbed(old, new) == faults' < faults /\ (Missing(new) \/ (new.state = old.state /\ ~Missing(old)))

\* ... or it runs, and a cancel that runs supersedes the failovers of its instance.
Ran(g, i) ==
  /\ child[g][i].state = "Running" /\ child'[g][i].type = child[g][i].type
  /\ child'[g][i].state \in {"Running", "Completed", "Failed"}
  /\ Supersedes(child[g][i].type) =>
       \A q \in GroupOp \ {g} : child[q][i].type = "failover" => ~InFlight(child'[q][i])

ChildStep(g, i) ==
  \/ child'[g][i] = child[g][i] \/ Created(g, i) \/ Started(child[g][i], child'[g][i])
  \/ Ended(child[g][i], child'[g][i]) \/ Disturbed(child[g][i], child'[g][i]) \/ Ran(g, i)

\* The children that one reconciliation of a group operation creates.
LEMMA HandleLevelChildren ==
  ASSUME LevelsTyped, NEW h \in GroupOp, HandleLevel(h), NEW g \in GroupOp, NEW i \in Instance
  PROVE  child'[g][i] = child[g][i] \/ Created(g, i)
<1> DEFINE level == group.levels[gop[h].level]
<1>1. /\ gop[h].state = "Running" /\ gop[h].level \in DOMAIN group.levels
      /\ Current(h) = Range(level)
  BY DEF HandleLevel, Current
<1>2. Visited(h, level) \subseteq Range(level)
  BY DEF Visited, Range
<1>3. UNCHANGED child \/ \E S \in SUBSET Range(level) : child' = Asked(h, S)
  <2>1. \A T : Visited(h, level) \cap T \in SUBSET Range(level)
    BY <1>2
  <2>2. \/ UNCHANGED child
        \/ child' = Asked(h, Visited(h, level))
        \/ child' = Asked(h, Range(level))
        \/ \E T : child' = Asked(h, Visited(h, level) \cap T)
    BY DEF HandleLevel
  <2> QED BY <1>2, <2>1, <2>2
<1>4. gop[h].level # 0
  <2>1. group.levels \in Seq(Seq(Instance))
    BY GroupAssumption DEF LevelsTyped
  <2> QED BY <1>1, <2>1
<1>5. ASSUME NEW S \in SUBSET Range(level), child' = Asked(h, S), child'[g][i] # child[g][i]
      PROVE  Created(g, i)
  <2>1. g = h /\ i \in S /\ Missing(child[g][i])
        /\ child'[g][i] = [type |-> gop[g].type, state |-> "Pending", owned |-> FALSE]
    BY <1>5 DEF Asked, LevelsTyped, OpsTyped
  <2> QED BY <1>1, <1>4, <1>5, <2>1 DEF Created
<1> QED BY <1>3, <1>5

\* The children that one reconciliation of a child writes.
LEMMA RunChildChildren ==
  ASSUME LevelsTyped, NEW h \in GroupOp, NEW j \in Instance, RunChild(h, j),
         NEW g \in GroupOp, NEW i \in Instance
  PROVE  child'[g][i] = child[g][i] \/ Ended(child[g][i], child'[g][i]) \/ Ran(g, i)
<1> DEFINE C == SupersededChildren(h, j)
           new(s) == [child[h][j] EXCEPT !.state = s, !.owned = Owned(h, j)]
           failed(q) == [child[q][j] EXCEPT !.state = "Failed"]
<1>o. OpsTyped /\ \A q \in GroupOp, k \in Instance : Operation(child[q][k])
  BY DEF LevelsTyped, OpsTyped
<1>1. PICK out \in Outcomes(child[h][j].type, fsm[j], findOtherInFlightOperation(h, j)) :
        child' = [C EXCEPT ![h][j].state = out[1], ![h][j].owned = Owned(h, j)]
  BY DEF RunChild
<1>2. out[1] \in {"Running", "Completed", "Failed"} /\ child[h][j].state = "Running"
  BY OutcomeStates DEF RunChild
<1>3. C[h] = child[h] /\ C = [q \in GroupOp |-> [k \in Instance |-> C[q][k]]]
  BY <1>o, SupersededChildrenMoved
<1>4. ASSUME NEW q \in GroupOp, q # h
      PROVE  IF Supersedes(child[h][j].type) /\ child[q][j].type = "failover" /\ InFlight(child[q][j])
             THEN C[q] = [child[q] EXCEPT ![j] = failed(q)] ELSE C[q] = child[q]
  BY <1>4 DEF SupersededChildren
<1>5. \A q \in GroupOp : child[q] = [k \in Instance |-> child[q][k]]
  BY <1>o DEF OpsTyped
<1>6. \A q \in GroupOp : failed(q).type = child[q][j].type /\ failed(q).state = "Failed"
  BY <1>o DEF Operation
<1>7. \A s : new(s).type = child[h][j].type /\ new(s).state = s
  BY <1>o DEF Operation
<1> HIDE DEF C
<1>8. child' = [C EXCEPT ![h] = [C[h] EXCEPT ![j] = new(out[1])]]
  BY <1>1, <1>3
<1> HIDE DEF failed, new
<1>9. child'[h] = [child[h] EXCEPT ![j] = new(out[1])] /\ \A q \in GroupOp \ {h} : child'[q] = C[q]
  BY <1>3, <1>8
<1>10. CASE g = h /\ i = j
  <2>1. child'[g][i] = new(out[1])
    BY <1>5, <1>9, <1>10
  <2>2. ASSUME NEW q \in GroupOp, q # g, Supersedes(child[g][i].type), child[q][i].type = "failover"
        PROVE  ~InFlight(child'[q][i])
    <3>1. CASE InFlight(child[q][i])
      <4>1. child'[q] = [child[q] EXCEPT ![j] = failed(q)]
        BY <1>4, <1>9, <1>10, <2>2, <3>1
      <4> QED BY <1>5, <1>6, <1>10, <4>1 DEF InFlight
    <3>2. CASE ~InFlight(child[q][i])
      BY <1>4, <1>9, <1>10, <2>2, <3>2
    <3> QED BY <3>1, <3>2
  <2> QED BY <1>2, <1>7, <1>10, <2>1, <2>2 DEF Ran
<1>11. CASE g = h /\ i # j
  BY <1>5, <1>9, <1>11
<1>12. CASE g # h
  <2>1. CASE C[g] = child[g]
    BY <1>9, <1>12, <2>1
  <2>2. CASE /\ C[g] = [child[g] EXCEPT ![j] = failed(g)]
             /\ child[g][j].type = "failover" /\ InFlight(child[g][j])
    <3>1. child'[g][i] = IF i = j THEN failed(g) ELSE child[g][i]
      <4>1. child'[g] = [child[g] EXCEPT ![j] = failed(g)] /\ DOMAIN child[g] = Instance
        BY <1>5, <1>9, <1>12, <2>2
      <4> QED BY <4>1
    <3> QED BY <1>6, <2>2, <3>1 DEF Ended
  <2> QED BY <1>4, <1>12, <2>1, <2>2
<1> QED BY <1>10, <1>11, <1>12

\* Every step.
LEMMA ChildSteps ==
  ASSUME LevelsTyped, [Next]_vars, NEW g \in GroupOp, NEW i \in Instance
  PROVE  ChildStep(g, i)
<1>o. OpsTyped /\ \A q \in GroupOp, k \in Instance : Operation(child[q][k])
  BY DEF LevelsTyped, OpsTyped
<1>k. ASSUME UNCHANGED child PROVE ChildStep(g, i)
  BY <1>k DEF ChildStep
<1>f. \A f : Fault(f) => faults' < faults
  BY GroupAssumption DEF Fault, LevelsTyped
<1>g. Missing([NoChild EXCEPT !.state = "Deleted"])
  BY DEF Missing, NoChild
<1>1. CASE UNCHANGED vars
  BY <1>k, <1>1 DEF vars
<1>2. ASSUME NEW h \in GroupOp, ReconcileGroupOp(h) PROVE ChildStep(g, i)
  <2>1. CASE HandleLevel(h)
    BY <2>1, HandleLevelChildren DEF ChildStep
  <2> QED BY <1>k, <1>2, <2>1 DEF ReconcileGroupOp, StartGroupOp, GroupNotFound, InitLevel, CompleteGroupOp
<1>3. ASSUME NEW h \in GroupOp, NEW j \in Instance, StartChild(h, j) PROVE ChildStep(g, i)
  <2> DEFINE new == [child[h][j] EXCEPT !.state = "Running", !.owned = Owned(h, j)]
  <2>1. child' = [child EXCEPT ![h] = [child[h] EXCEPT ![j] = new]] /\ child[h][j].state = "Pending"
    BY <1>3 DEF StartChild, LevelsTyped, OpsTyped
  <2>2. new.type = child[h][j].type /\ new.state = "Running"
    BY <1>o DEF Operation
  <2> HIDE DEF new
  <2>3. child'[g][i] = child[g][i] \/ (g = h /\ i = j /\ child'[g][i] = new)
    BY <1>o, <2>1 DEF OpsTyped
  <2> QED BY <2>1, <2>2, <2>3 DEF ChildStep, Started
<1>4. ASSUME NEW h \in GroupOp, NEW j \in Instance, RunChild(h, j) PROVE ChildStep(g, i)
  BY <1>4, RunChildChildren DEF ChildStep
<1>5. ASSUME NEW h \in GroupOp, SubmitGroupOp(h) PROVE ChildStep(g, i)
  BY <1>k, <1>5 DEF SubmitGroupOp
<1>6. ASSUME NEW S, child' = Collected(S), faults' < faults PROVE ChildStep(g, i)
  BY <1>g, <1>6 DEF Collected, ChildStep, Disturbed
<1>7. ASSUME NEW h \in GroupOp, DeleteGroupOp(h) PROVE ChildStep(g, i)
  BY <1>f, <1>6, <1>7 DEF DeleteGroupOp
<1>8. CASE DeleteGroup
  BY <1>f, <1>6, <1>8 DEF DeleteGroup
<1>9. ASSUME NEW h \in GroupOp, NEW j \in Instance, DeleteChild(h, j) PROVE ChildStep(g, i)
  <2> DEFINE gone == [NoChild EXCEPT !.state = "Deleted"]
  <2>1. child' = [child EXCEPT ![h] = [child[h] EXCEPT ![j] = gone]] /\ faults' < faults
    BY <1>f, <1>9 DEF DeleteChild, LevelsTyped, OpsTyped
  <2> HIDE DEF gone
  <2>2. child'[g][i] = child[g][i] \/ child'[g][i] = gone
    BY <1>o, <2>1 DEF OpsTyped
  <2> QED BY <1>g, <2>1, <2>2 DEF ChildStep, Disturbed, gone
<1>10. ASSUME NEW j \in Instance, ChangeInstance(j) PROVE ChildStep(g, i)
  <2> DEFINE gone == [NoChild EXCEPT !.state = "Deleted"]
             orphan == [child[g][j] EXCEPT !.owned = FALSE]
  <2>1. faults' < faults
    BY <1>f, <1>10 DEF ChangeInstance
  <2>2. \/ child'[g] = child[g]
        \/ child'[g] = [child[g] EXCEPT ![j] = gone]
        \/ ~Missing(child[g][j]) /\ child'[g] = [child[g] EXCEPT ![j] = orphan]
    BY <1>10 DEF ChangeInstance, LevelsTyped, OpsTyped
  <2>3. orphan.state = child[g][j].state
    BY <1>o DEF Operation
  <2> HIDE DEF gone, orphan
  <2>4. \/ child'[g][i] = child[g][i] \/ child'[g][i] = gone
        \/ ~Missing(child[g][i]) /\ i = j /\ child'[g][i] = orphan
    BY <1>o, <2>2 DEF OpsTyped
  <2> QED BY <1>g, <2>1, <2>3, <2>4 DEF ChildStep, Disturbed, gone
<1>11. CASE EditGroup
  BY <1>k, <1>11 DEF EditGroup
<1> QED BY <1>1, <1>2, <1>3, <1>4, <1>5, <1>7, <1>8, <1>9, <1>10, <1>11 DEF Next, UserStep, ReconcileChild

(***************************************************************************)
(* The inductive invariant of the levels.                                  *)
(***************************************************************************)

\* What the group operation g may rely on of instance j, whose level it left.
LeftBehind(g, j) ==
  /\ j \notin gop[g].skipped => Terminal(child[g][j]) \/ child[g][j].state = "Deleted"
  /\ ~Continues => child[g][j].state \in {"Completed", "Deleted"}

LevelInv ==
  \A g \in GroupOp : InFlight(gop[g]) =>
    gop[g].level <= Len(group.levels) + 1 /\ \A j \in Behind(g) : LeftBehind(g, j)

\* A group operation that has not been submitted has no children, and every
\* child that exists was made by its group operation, in one of its levels.
Whole(g) ==
  /\ gop[g].skipped = {} /\ gop[g].state # "Deleted" /\ gop[g].at <= Len(submits)
  /\ gop[g].state = "Absent" => gop[g].level = 0 /\ gop[g].type = "none"
  /\ \A i \in Instance :
       /\ child[g][i].state # "Deleted"
       /\ child[g][i].state # "Absent" => child[g][i].type = gop[g].type /\ gop[g].level # 0

\* A cancel that has entered its first level has ended the failovers of the
\* group, and a child of it that has ended has ended those of its instance.
Outlived(g, q) ==
  gop[g].type = "cancel" /\ gop[g].level # 0 /\ gop[q].type = "failover" /\ gop[q].at < gop[g].at =>
    /\ ~InFlight(gop[q])
    /\ \A i \in Instance : Terminal(child[g][i]) => ~InFlight(child[q][i])

\* As long as nothing has gone wrong and users have disturbed nothing.
CancelInv ==
  faults = MaxFaults =>
    (\A i \in Instance : Exists(i)) /\ \A g \in GroupOp : Whole(g) /\ \A q \in GroupOp : Outlived(g, q)

\* Every step keeps the levels in order: the children of a level that was left
\* stay ended, as only an operation that is in their level creates them again.
LEMMA LevelInvKept ==
  ASSUME LevelsTyped, LevelInv, [Next]_vars
  PROVE  LevelInv'
<1> SUFFICES ASSUME NEW g \in GroupOp, InFlight(gop'[g])
             PROVE  /\ gop'[g].level <= Len(group'.levels) + 1
                    /\ \A j \in Behind(g)' : LeftBehind(g, j)'
  BY DEF LevelInv
<1>t. /\ group.levels \in Seq(Seq(Instance)) /\ group'.levels \in Seq(Seq(Instance))
      /\ GroupOperation(gop[g])
      /\ InFlight(gop[g]) => group'.levels = group.levels
      /\ Continues' = Continues
  BY GroupAssumption, GroupSteps DEF LevelsTyped, Continues
<1>l. ASSUME NEW n \in Nat, gop'[g].level = n, n \in {0, 1} \/ (n - 1 \in DOMAIN group'.levels)
      PROVE  gop'[g].level <= Len(group'.levels) + 1
  BY <1>t, <1>l
<1>1. CASE Kept(gop[g], gop'[g])
  <2>1. InFlight(gop[g]) /\ gop'[g].level = gop[g].level /\ gop'[g].skipped = gop[g].skipped
    BY <1>1 DEF Kept
  <2>2. Behind(g)' = Behind(g)
    BY <1>t, <2>1 DEF Behind, Earlier, Current
  <2> SUFFICES ASSUME NEW j \in Behind(g) PROVE LeftBehind(g, j)'
    BY <1>t, <2>1, <2>2 DEF LevelInv
  <2>3. j \in Instance /\ LeftBehind(g, j)
    <3>1. gop[g].level <= Len(group.levels) + 1
      BY <2>1 DEF LevelInv
    <3>2. \A k \in 1 .. (gop[g].level - 1) : Range(group.levels[k]) \subseteq Instance
      BY <1>t, <3>1 DEF Range, GroupOperation
    <3> QED BY <2>1, <3>2 DEF LevelInv, Behind, Earlier
  <2>4. ~Created(g, j)
    BY <2>3 DEF Created, Behind
  <2>5. \/ child'[g][j].state = child[g][j].state
        \/ child'[g][j].state = "Deleted" /\ child[g][j].state # "Absent"
        \/ child[g][j].state \notin {"Completed", "Failed", "Deleted"}
    <3>1. Move(child[g][j].state, child'[g][j].state) /\ ChildStep(g, j)
      BY <2>3, NextWrites, ChildSteps DEF LevelsTyped, ChildrenWritten, Moved
    <3>2. child[g][j].state \in {"Completed", "Failed"} =>
            child'[g][j].state \in {child[g][j].state, "Deleted"}
      BY <3>1 DEF Move, GroupOpLifecycle!Steps, GroupOpLifecycle!OperationStates
    <3>3. child[g][j].state = "Deleted" => child'[g][j].state \in {"Deleted", "Pending"}
      BY <3>1 DEF Move, GroupOpLifecycle!Steps, GroupOpLifecycle!OperationStates
    <3>4. child[g][j].state = "Deleted" => child'[g][j].state # "Pending"
      BY <2>4, <3>1 DEF ChildStep, Started, Ended, Disturbed, Ran, InFlight, Missing
    <3> QED BY <3>2, <3>3, <3>4
  <2> QED BY <1>t, <2>1, <2>3, <2>5 DEF LeftBehind, Terminal
<1>2. CASE Removed(g)
  BY <1>2 DEF Removed, NoGroupOp, InFlight
<1>3. CASE Begun(g) \/ Opened(g)
  <2>1. gop'[g].level \in {0, 1}
    BY <1>t, <1>3 DEF Begun, Opened, GroupOperation
  <2>2. Earlier(g)' = {}
    BY <2>1 DEF Earlier
  <2> QED BY <1>l, <2>1, <2>2 DEF Behind
<1>4. CASE Advanced(g)
  <2> DEFINE L == gop[g].level
  <2>1. /\ InFlight(gop[g]) /\ L \in DOMAIN group.levels /\ L \in Nat
        /\ \A i \in Range(group.levels[L]) : ~Blocks(g, i)
        /\ LevelDone(g, group.levels[L])
        /\ gop'[g].level = L + 1
        /\ gop'[g].skipped = gop[g].skipped \cup {i \in Range(group.levels[L]) : ~Exists(i)}
        /\ UNCHANGED <<group, child, fsm>>
    BY <1>t, <1>4 DEF Advanced, InFlight, NextLevel, Skipped, GroupOperation
  <2>2. Current(g) = Range(group.levels[L])
    BY <2>1 DEF Current
  <2>3. Earlier(g)' \subseteq Earlier(g) \cup Range(group.levels[L])
    BY <2>1 DEF Earlier, Range
  <2>l. gop'[g].level <= Len(group'.levels) + 1
    BY <1>l, <1>t, <2>1
  <2> SUFFICES ASSUME NEW j \in Behind(g)' PROVE LeftBehind(g, j)'
    BY <2>l
  <2>4. CASE j \in Current(g)
    <3>1. Exists(j) => Terminal(child[g][j])
      BY <2>1, <2>2, <2>4 DEF LevelDone
    <3>2. ~Continues => Exists(j) /\ child[g][j].state # "Failed"
      BY <2>1, <2>2, <2>4 DEF Blocks
    <3> QED BY <1>t, <2>1, <2>2, <2>4, <3>1, <3>2 DEF LeftBehind, Terminal
  <2>5. CASE j \notin Current(g)
    <3>1. j \in Behind(g)
      BY <2>2, <2>3, <2>5 DEF Behind
    <3>2. LeftBehind(g, j)
      BY <2>1, <3>1 DEF LevelInv
    <3> QED BY <1>t, <2>1, <3>2 DEF LeftBehind, Terminal
  <2> QED BY <2>4, <2>5
<1> QED BY <1>1, <1>2, <1>3, <1>4, GroupOpSteps

\* A group operation is completed by the handler that finds no level left.
LEMMA Completions ==
  ASSUME LevelsTyped, [Next]_vars, NEW g \in GroupOp,
         gop[g].state = "Running", gop'[g].state = "Completed"
  PROVE  CompleteGroupOp(g)
<1>t. \A q \in GroupOp : GroupOperation(gop[q])
  BY DEF LevelsTyped
<1>w. ASSUME NEW h \in GroupOp, NEW op, WriteGroupOp(h, op), h = g => op.state # "Completed"
      PROVE  FALSE
  BY <1>w, LastWrite, SupersededKept
<1>1. ASSUME NEW h \in GroupOp, ReconcileGroupOp(h) PROVE CompleteGroupOp(g)
  <2>f. [gop[h] EXCEPT !.state = "Failed"].state # "Completed"
    BY <1>t DEF GroupOperation
  <2>1. CASE StartGroupOp(h)
    BY <1>t, <2>1 DEF StartGroupOp, LevelsTyped, OpsTyped, GroupOperation
  <2>2. CASE GroupNotFound(h)
    BY <1>w, <2>2, <2>f DEF GroupNotFound
  <2>3. CASE InitLevel(h)
    <3>1. [gop[h] EXCEPT !.level = 1].state = gop[h].state
      BY <1>t DEF GroupOperation
    <3> QED BY <1>w, <2>3, <3>1 DEF InitLevel
  <2>4. CASE CompleteGroupOp(h)
    BY <1>w, <2>4 DEF CompleteGroupOp
  <2>5. CASE HandleLevel(h)
    <3>1. \A n, S : [gop[h] EXCEPT !.level = n, !.skipped = S].state = gop[h].state
      BY <1>t DEF GroupOperation
    <3>2. gop' # SupersededGroups(h)
      BY SupersededKept
    <3>3. gop[h].state = "Running"
      BY <2>5 DEF HandleLevel
    <3>4. \/ gop' = SupersededGroups(h)
          \/ WriteGroupOp(h, [gop[h] EXCEPT !.state = "Failed"])
          \/ \E n, S : WriteGroupOp(h, [gop[h] EXCEPT !.level = n, !.skipped = S])
      BY <2>5 DEF HandleLevel
    <3> QED BY <1>w, <2>f, <3>1, <3>2, <3>3, <3>4
  <2> QED BY <1>1, <2>1, <2>2, <2>3, <2>4, <2>5 DEF ReconcileGroupOp
<1>2. ASSUME UNCHANGED gop PROVE FALSE
  BY <1>2
<1>3. ASSUME NEW h \in GroupOp, SubmitGroupOp(h) PROVE FALSE
  BY <1>3 DEF SubmitGroupOp, LevelsTyped, OpsTyped
<1>4. ASSUME NEW h \in GroupOp, DeleteGroupOp(h) PROVE FALSE
  BY <1>4 DEF DeleteGroupOp, LevelsTyped, OpsTyped, NoGroupOp
<1>5. CASE DeleteGroup
  BY <1>5 DEF DeleteGroup, NoGroupOp
<1>6. ASSUME NEW h \in GroupOp, NEW i \in Instance, ReconcileChild(h, i) PROVE FALSE
  BY <1>2, <1>6 DEF ReconcileChild, StartChild, RunChild
<1>7. ASSUME NEW i \in Instance, ChangeInstance(i) \/ \E h \in GroupOp : DeleteChild(h, i) PROVE FALSE
  BY <1>2, <1>7 DEF ChangeInstance, DeleteChild
<1>8. CASE EditGroup
  BY <1>2, <1>8 DEF EditGroup
<1>9. CASE UNCHANGED vars
  BY <1>2, <1>9 DEF vars
<1> QED BY <1>1, <1>3, <1>4, <1>5, <1>6, <1>7, <1>8, <1>9 DEF Next, UserStep

\* No operation on an instance that exists makes it go.
LEMMA OutcomesExist ==
  ASSUME NEW type, NEW f, f # "Absent", NEW conflict, NEW out \in Outcomes(type, f, conflict)
  PROVE  out[2] # "Absent"
BY DEF Outcomes

\* Undisturbed, the instances stay, and group operations come in their order.
LEMMA QuietSteps ==
  ASSUME LevelsTyped, CancelInv, [Next]_vars, faults' = MaxFaults
  PROVE  /\ faults = MaxFaults /\ ~(faults' < faults)
         /\ \A i \in Instance : Exists(i)'
         /\ Len(submits) \in Nat /\ Len(submits) <= Len(submits')
<1>1. /\ faults = MaxFaults /\ ~(faults' < faults)
      /\ \/ UNCHANGED vars
         \/ \E g \in GroupOp : \/ ReconcileGroupOp(g) /\ UNCHANGED <<fsm, submits>>
                               \/ SubmitGroupOp(g)
                               \/ \E i \in Instance : ReconcileChild(g, i) /\ UNCHANGED submits
  BY FaultSteps, GroupAssumption DEF LevelsTyped
<1>2. Len(submits) \in Nat /\ Len(submits') \in Nat
  BY FaultSteps DEF LevelsTyped
<1>3. \A i \in Instance : fsm[i] # "Absent"
  BY <1>1 DEF CancelInv, Exists
<1> DEFINE Goal == (\A i \in Instance : fsm'[i] # "Absent") /\ Len(submits) <= Len(submits')
<1>4. ASSUME UNCHANGED <<fsm, submits>> PROVE Goal
  BY <1>2, <1>3, <1>4
<1>5. ASSUME NEW g \in GroupOp, SubmitGroupOp(g) PROVE Goal
  <2>1. UNCHANGED fsm
    BY <1>5 DEF SubmitGroupOp
  <2>2. PICK script \in Scripts : /\ Len(submits) < Len(script)
                                  /\ submits' = SubSeq(script, 1, Len(submits) + 1)
    BY <1>5 DEF SubmitGroupOp
  <2>3. script \in Seq(GroupTypes)
    BY GroupAssumption
  <2>4. Len(submits) <= Len(submits')
    BY <1>2, <2>2, <2>3
  <2> QED BY <1>3, <2>1, <2>4
<1>6. ASSUME NEW g \in GroupOp, NEW i \in Instance, ReconcileChild(g, i), UNCHANGED submits PROVE Goal
  <2>1. CASE StartChild(g, i)
    BY <1>4, <1>6, <2>1 DEF StartChild
  <2>2. CASE RunChild(g, i)
    <3>1. PICK out \in Outcomes(child[g][i].type, fsm[i], findOtherInFlightOperation(g, i)) :
            fsm' = [fsm EXCEPT ![i] = out[2]]
      BY <2>2 DEF RunChild
    <3>2. out[2] # "Absent"
      BY <1>3, <1>6, OutcomesExist
    <3>3. \A j \in Instance : fsm'[j] # "Absent"
      BY <1>3, <3>1, <3>2 DEF LevelsTyped
    <3> QED BY <1>2, <1>6, <3>3
  <2> QED BY <1>6, <2>1, <2>2 DEF ReconcileChild
<1> HIDE DEF Goal
<1>7. Goal
  BY <1>1, <1>4, <1>5, <1>6 DEF vars
<1> QED BY <1>1, <1>2, <1>7 DEF Goal, Exists

\* Undisturbed steps keep every child with its group operation.
LEMMA WholeKept ==
  ASSUME LevelsTyped, CancelInv, [Next]_vars, faults' = MaxFaults, NEW g \in GroupOp
  PROVE  Whole(g)'
<1>t. /\ group.levels \in Seq(Seq(Instance)) /\ GroupOperation(gop[g])
      /\ Whole(g) /\ ~(faults' < faults) /\ (\A i \in Instance : Exists(i))
      /\ Len(submits) \in Nat /\ Len(submits') \in Nat /\ Len(submits) <= Len(submits')
  BY GroupAssumption, QuietSteps, FaultSteps DEF LevelsTyped, CancelInv
<1>1. CASE Kept(gop[g], gop'[g])
  <2>1. /\ gop'[g].type = gop[g].type /\ gop'[g].level = gop[g].level /\ gop'[g].at = gop[g].at
        /\ gop'[g].skipped = gop[g].skipped /\ (Missing(gop'[g]) => gop'[g].state = gop[g].state)
    BY <1>1 DEF Kept
  <2>2. gop'[g].at <= Len(submits')
    BY <1>t, <2>1 DEF Whole, GroupOperation
  <2>3. ASSUME NEW i \in Instance
        PROVE  /\ child'[g][i].state # "Deleted"
               /\ child'[g][i].state # "Absent" => child'[g][i].type = gop'[g].type /\ gop'[g].level # 0
    <3>1. /\ child[g][i].state # "Deleted"
          /\ child[g][i].state # "Absent" => child[g][i].type = gop[g].type /\ gop[g].level # 0
      BY <1>t DEF Whole
    <3>2. CASE child'[g][i] = child[g][i]
      BY <2>1, <3>1, <3>2
    <3>3. CASE Created(g, i)
      BY <2>1, <3>3 DEF Created
    <3>4. CASE Started(child[g][i], child'[g][i]) \/ Ended(child[g][i], child'[g][i]) \/ Ran(g, i)
      BY <2>1, <3>1, <3>4 DEF Started, Ended, Ran, InFlight
    <3> QED BY <1>t, <3>2, <3>3, <3>4, ChildSteps DEF ChildStep, Disturbed
  <2> QED BY <1>t, <2>1, <2>2, <2>3 DEF Whole, Missing
<1>2. CASE Removed(g)
  BY <1>t, <1>2 DEF Removed, LevelsTyped
<1>3. CASE Begun(g)
  <2>1. \A i \in Instance : child'[g][i].state = "Absent"
    BY <1>t, <1>3 DEF Begun, Whole, Missing
  <2>2. /\ gop'[g].skipped = {} /\ gop'[g].state = "Pending" /\ gop'[g].at <= Len(submits')
    BY <1>t, <1>3 DEF Begun
  <2> QED BY <2>1, <2>2 DEF Whole
<1>4. CASE Opened(g)
  <2>1. /\ gop'[g].type = gop[g].type /\ gop'[g].level = 1 /\ gop'[g].at = gop[g].at
        /\ gop'[g].skipped = gop[g].skipped /\ gop'[g].state = "Running" /\ UNCHANGED child
    BY <1>t, <1>4 DEF Opened, GroupOperation
  <2>2. gop'[g].at <= Len(submits')
    BY <1>t, <2>1 DEF Whole, GroupOperation
  <2> QED BY <1>t, <2>1, <2>2 DEF Whole
<1>5. CASE Advanced(g)
  <2> DEFINE L == gop[g].level
  <2>1. /\ gop'[g].type = gop[g].type /\ gop'[g].level = L + 1 /\ gop'[g].at = gop[g].at
        /\ gop'[g].skipped = Skipped(g, group.levels[L]) /\ gop'[g].state = "Running" /\ UNCHANGED child
        /\ L \in DOMAIN group.levels
    BY <1>t, <1>5 DEF Advanced, GroupOperation, NextLevel
  <2>2. gop'[g].at <= Len(submits')
    BY <1>t, <2>1 DEF Whole, GroupOperation
  <2>3. Range(group.levels[L]) \subseteq Instance
    BY <1>t, <2>1 DEF Range
  <2>4. gop'[g].skipped = {}
    BY <1>t, <2>1, <2>3 DEF Skipped, Whole
  <2>5. gop'[g].level # 0
    BY <1>t, <2>1 DEF GroupOperation
  <2> QED BY <1>t, <2>1, <2>2, <2>4, <2>5 DEF Whole
<1> QED BY <1>1, <1>2, <1>3, <1>4, <1>5, GroupOpSteps

\* Undisturbed steps start nothing behind a cancel.
LEMMA OutlivedKept ==
  ASSUME LevelsTyped, CancelInv, [Next]_vars, faults' = MaxFaults, NEW g \in GroupOp, NEW q \in GroupOp
  PROVE  Outlived(g, q)'
<1> SUFFICES ASSUME gop'[g].type = "cancel", gop'[g].level # 0, gop'[q].type = "failover",
                    gop'[q].at < gop'[g].at
             PROVE  /\ ~InFlight(gop'[q])
                    /\ \A i \in Instance : Terminal(child'[g][i]) => ~InFlight(child'[q][i])
  BY DEF Outlived, InFlight, Terminal
<1>t. /\ group.levels \in Seq(Seq(Instance)) /\ GroupOperation(gop[g]) /\ GroupOperation(gop[q])
      /\ Whole(g) /\ Whole(q) /\ Outlived(g, q) /\ ~(faults' < faults) /\ Len(submits) \in Nat /\ g # q
  BY GroupAssumption, QuietSteps DEF LevelsTyped, CancelInv
<1>r. ~Removed(g) /\ ~Removed(q)
  BY <1>t DEF Removed, LevelsTyped
<1>1. Kept(gop[g], gop'[g]) \/ Opened(g) \/ Advanced(g)
  BY <1>r, GroupOpSteps DEF Begun
<1>2. gop'[g].type = gop[g].type /\ gop'[g].at = gop[g].at
  BY <1>t, <1>1 DEF Kept, Opened, Advanced, GroupOperation
<1>3. ~Begun(q)
  <2>1. gop[g].at \in Nat /\ gop[g].at <= Len(submits)
    BY <1>t DEF Whole, GroupOperation
  <2> QED BY <1>t, <1>2, <2>1 DEF Begun
<1>4. Kept(gop[q], gop'[q]) \/ Opened(q) \/ Advanced(q)
  BY <1>r, <1>3, GroupOpSteps
<1>5. /\ gop'[q].type = gop[q].type /\ gop'[q].at = gop[q].at
      /\ InFlight(gop'[q]) => InFlight(gop[q])
  BY <1>t, <1>4 DEF Kept, Opened, Advanced, GroupOperation, InFlight
<1>6. CASE gop[g].level = 0
  <2>1. Opened(g)
    <3>1. ~Advanced(g)
      BY <1>t, <1>6 DEF Advanced
    <3> QED BY <1>1, <1>6, <3>1 DEF Kept
  <2>2. ~InFlight(gop'[q])
    <3>1. gop'[q] = SupersededGroups(g)[q] /\ gop[q].type = "failover" /\ Supersedes(gop[g].type)
      BY <1>t, <1>2, <1>5, <2>1 DEF Opened, Supersedes
    <3>2. CASE InFlight(gop[q])
      <4>1. gop'[q] = [gop[q] EXCEPT !.state = "Failed"]
        BY <1>t, <3>1, <3>2 DEF SupersededGroups
      <4>2. gop'[q].state = "Failed"
        BY <1>t, <4>1 DEF GroupOperation
      <4> QED BY <4>2 DEF InFlight
    <3> QED BY <1>5, <3>2
  <2>3. \A i \in Instance : child'[g][i].state = "Absent"
    BY <1>t, <1>6, <2>1 DEF Opened, Whole
  <2> QED BY <2>2, <2>3 DEF Terminal
<1>7. CASE gop[g].level # 0
  <2>1. /\ ~InFlight(gop[q])
        /\ \A i \in Instance : Terminal(child[g][i]) => ~InFlight(child[q][i])
    BY <1>t, <1>2, <1>5, <1>7 DEF Outlived
  <2>2. ASSUME NEW i \in Instance, Terminal(child'[g][i]) PROVE ~InFlight(child'[q][i])
    <3>1. ChildStep(g, i) /\ ChildStep(q, i) /\ ~Created(q, i)
      BY <2>1, ChildSteps DEF Created, InFlight
    <3>2. /\ child[g][i].state # "Absent" => child[g][i].type = "cancel"
          /\ child[q][i].state # "Absent" => child[q][i].type = "failover"
      BY <1>t, <1>2, <1>5 DEF Whole
    <3>3. ~InFlight(child[q][i]) => ~InFlight(child'[q][i])
      BY <1>t, <3>1 DEF ChildStep, Started, Ended, Disturbed, Ran, InFlight
    <3>4. CASE Terminal(child[g][i])
      BY <2>1, <3>3, <3>4
    <3>5. CASE ~Terminal(child[g][i])
      <4>1. Ran(g, i)
        BY <1>t, <2>2, <3>1, <3>2, <3>5
           DEF ChildStep, Created, Started, Ended, Disturbed, Terminal, InFlight
      <4>2. child[g][i].type = "cancel"
        BY <3>2, <4>1 DEF Ran
      <4>3. CASE child[q][i].state # "Absent"
        BY <1>t, <3>2, <4>1, <4>2, <4>3 DEF Ran, Supersedes
      <4>4. CASE child[q][i].state = "Absent"
        BY <3>3, <4>4 DEF InFlight
      <4> QED BY <4>3, <4>4
    <3> QED BY <3>4, <3>5
  <2> QED BY <1>5, <2>1, <2>2
<1> QED BY <1>6, <1>7

\* The two invariants hold in all reachable states.
LEMMA LevelsInvariant == Spec => [](LevelsTyped /\ LevelInv /\ CancelInv)
<1>1. Init => LevelInv /\ CancelInv
  <2>1. Init => \A g \in GroupOp : /\ ~InFlight(gop[g]) /\ gop[g].type = "none" /\ gop[g].level = 0
                                   /\ gop[g].skipped = {} /\ gop[g].state = "Absent" /\ gop[g].at = 0
                                   /\ \A i \in Instance : child[g][i].state = "Absent"
    BY DEF Init, InFlight, NoGroupOp, NoChild
  <2>2. Init => Len(submits) = 0 /\ \A i \in Instance : Exists(i)
    BY DEF Init, Exists
  <2> QED BY <2>1, <2>2 DEF LevelInv, CancelInv, Whole, Outlived
<1>2. LevelsTyped /\ LevelInv /\ CancelInv /\ [Next]_vars => LevelInv' /\ CancelInv'
  <2> SUFFICES ASSUME LevelsTyped, LevelInv, CancelInv, [Next]_vars PROVE LevelInv' /\ CancelInv'
    OBVIOUS
  <2>1. ASSUME faults' = MaxFaults
        PROVE  /\ \A i \in Instance : Exists(i)'
               /\ \A g \in GroupOp : Whole(g)' /\ \A q \in GroupOp : Outlived(g, q)'
    BY <2>1, QuietSteps, WholeKept, OutlivedKept
  <2> QED BY <2>1, LevelInvKept DEF CancelInv
<1> QED BY <1>1, <1>2, LevelsTypedInvariant, PTL DEF Spec

\* The levels are an order: when a group operation creates a child, those of
\* the earlier levels have ended, and none has failed unless the policy is
\* Continue (handleGroupOperation), however levels, instances and writes go.
THEOREM LevelsAreOrdered == Spec => LevelsInOrder
<1>1. ASSUME LevelsTyped, LevelInv, [Next]_vars, NEW g \in GroupOp, NEW i \in Instance,
             Missing(child[g][i]), ~Missing(child'[g][i]), NEW j \in Behind(g) \ gop[g].skipped
      PROVE  /\ Terminal(child[g][j]) \/ child[g][j].state = "Deleted"
             /\ ~Continues => child[g][j].state # "Failed"
  <2>1. gop[g].state = "Running"
    <3>1. ChildStep(g, i)
      BY <1>1, ChildSteps
    <3> QED BY <1>1, <3>1 DEF ChildStep, Created, Started, Ended, Disturbed, Ran, InFlight, Missing
  <2> QED BY <1>1, <2>1 DEF LevelInv, LeftBehind, InFlight
<1>2. LevelsTyped /\ LevelInv /\ [Next]_vars =>
        [\A g \in GroupOp, i \in Instance :
           Missing(child[g][i]) /\ ~Missing(child'[g][i]) =>
             \A j \in Behind(g) \ gop[g].skipped :
               /\ Terminal(child[g][j]) \/ child[g][j].state = "Deleted"
               /\ ~Continues => child[g][j].state # "Failed"]_vars
  BY <1>1
<1> QED BY <1>2, LevelsInvariant, PTL DEF Spec, LevelsInOrder

\* What holds of the members when a group operation completes.
LEMMA CompletedMembers ==
  ASSUME LevelsTyped, LevelInv, CancelInv, NEW g \in GroupOp, CompleteGroupOp(g), NEW i \in Members
  PROVE  /\ i \in Instance /\ LeftBehind(g, i)
         /\ faults = MaxFaults => Terminal(child[g][i])
<1>1. group.levels \in Seq(Seq(Instance)) /\ gop[g].level \in Nat
  BY GroupAssumption DEF LevelsTyped, GroupOperation
<1>2. gop[g].level > Len(group.levels) /\ InFlight(gop[g])
  BY DEF CompleteGroupOp, InFlight
<1>3. i \in Instance
  BY <1>1 DEF Members, Range
<1>4. i \in Behind(g)
  <2>1. gop[g].level \notin DOMAIN group.levels
    BY <1>1, <1>2
  <2>2. DOMAIN group.levels \subseteq 1 .. (gop[g].level - 1)
    BY <1>1, <1>2
  <2> QED BY <2>1, <2>2 DEF Members, Behind, Earlier, Current
<1>5. LeftBehind(g, i)
  BY <1>2, <1>4 DEF LevelInv
<1>6. faults = MaxFaults => gop[g].skipped = {} /\ child[g][i].state # "Deleted"
  BY <1>3 DEF CancelInv, Whole
<1> QED BY <1>3, <1>5, <1>6 DEF LeftBehind

\* A group operation that completes has an answer from every member it did not
\* skip, and unless the policy is Continue no member failed.
THEOREM CompletionIsWhole == Spec => CompletedMeansAll
<1>1. ASSUME LevelsTyped, LevelInv, CancelInv, [Next]_vars, NEW g \in GroupOp,
             gop[g].state = "Running", gop'[g].state = "Completed", NEW i \in Members
      PROVE  /\ i \notin gop[g].skipped => Terminal(child[g][i]) \/ child[g][i].state = "Deleted"
             /\ ~Continues => child[g][i].state \in {"Completed", "Deleted"}
             /\ faults = MaxFaults => Terminal(child[g][i])
  BY <1>1, Completions, CompletedMembers DEF LeftBehind
<1>2. LevelsTyped /\ LevelInv /\ CancelInv /\ [Next]_vars =>
        [\A g \in GroupOp : gop[g].state = "Running" /\ gop'[g].state = "Completed" =>
           \A i \in Members :
             /\ i \notin gop[g].skipped => Terminal(child[g][i]) \/ child[g][i].state = "Deleted"
             /\ ~Continues => child[g][i].state \in {"Completed", "Deleted"}
             /\ faults = MaxFaults => Terminal(child[g][i])]_vars
  BY <1>1
<1> QED BY <1>2, LevelsInvariant, PTL DEF Spec, CompletedMeansAll

\* When the cancel of a group completes, every earlier failover of the group
\* and its children have ended, although both run level by level at the same
\* time (supersedeInFlightOperations, on the group and on every instance).
THEOREM CancelIsThorough == Spec => CancelEndsFailovers
<1>1. ASSUME LevelsTyped, LevelInv, CancelInv, [Next]_vars, NEW g \in GroupOp, NEW q \in GroupOp,
             gop[g].type = "cancel", gop[g].state = "Running", gop'[g].state = "Completed",
             gop[q].type = "failover", gop[q].at < gop[g].at, faults = MaxFaults
      PROVE  ~InFlight(gop'[q]) /\ \A i \in Members : ~InFlight(child[q][i])
  <2>1. CompleteGroupOp(g)
    BY <1>1, Completions
  <2>2. gop[g].level # 0
    <3>1. group.levels \in Seq(Seq(Instance)) /\ gop[g].level \in Nat
      BY <1>1, GroupAssumption DEF LevelsTyped, GroupOperation
    <3> QED BY <2>1, <3>1 DEF CompleteGroupOp
  <2>3. /\ ~InFlight(gop[q])
        /\ \A i \in Instance : Terminal(child[g][i]) => ~InFlight(child[q][i])
    BY <1>1, <2>2 DEF CancelInv, Outlived
  <2>4. Kept(gop[q], gop'[q])
    BY <1>1, <2>1, LastWrite DEF CompleteGroupOp
  <2> QED BY <1>1, <2>1, <2>3, <2>4, CompletedMembers DEF Kept
<1>2. LevelsTyped /\ LevelInv /\ CancelInv /\ [Next]_vars =>
        [\A g, q \in GroupOp :
           /\ gop[g].type = "cancel" /\ gop[g].state = "Running" /\ gop'[g].state = "Completed"
           /\ gop[q].type = "failover" /\ gop[q].at < gop[g].at /\ faults = MaxFaults
           => ~InFlight(gop'[q]) /\ \A i \in Members : ~InFlight(child[q][i])]_vars
  BY <1>1
<1> QED BY <1>2, LevelsInvariant, PTL DEF Spec, CancelEndsFailovers
=============================================================================
