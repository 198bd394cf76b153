------------------------ MODULE OperationLifecycle ------------------------
(***************************************************************************)
(* What the DisasterOperations promise to those who wait for them, the     *)
(* group operations and the drills among them: each is accepted, runs and  *)
(* ends once, and its end stays as it is until the object is deleted.  A   *)
(* failover may be superseded before it starts, in the step of another     *)
(* operation.  The name of a deleted object may be used again.             *)
(***************************************************************************)
CONSTANT Name      \* the names of the operations

VARIABLE state     \* state[n]: "Absent", "Deleted" or status.state

OperationStates == {"Absent", "Pending", "Running", "Completed", "Failed", "Deleted"}

Steps ==
  {<<"Absent", "Pending">>, <<"Deleted", "Pending">>, <<"Pending", "Running">>,
   <<"Pending", "Failed">>, <<"Running", "Completed">>, <<"Running", "Failed">>}
    \cup {<<s, "Deleted">> : s \in OperationStates \ {"Absent", "Deleted"}}

Init == state = [n \in Name |-> "Absent"]

Next == \A n \in Name : state'[n] = state[n] \/ <<state[n], state'[n]>> \in Steps

Spec == Init /\ [][Next]_state
===========================================================================
