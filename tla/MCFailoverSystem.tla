-------------------------- MODULE MCFailoverSystem --------------------------
EXTENDS FailoverSystem, TLC

Mix(f, r, c, u, p, s) ==
  [t \in OpType |->
     CASE t = "failover" -> f [] t = "reprotect" -> r [] t = "cancel" -> c
       [] t = "undo" -> u [] t = "pause" -> p [] OTHER -> s]

\* A failover with each of the operations that may interfere with it; a pause
\* with a resume.
SafetyMixes ==
  {Mix(2, 0, 0, 0, 0, 0), Mix(1, 0, 1, 0, 0, 0), Mix(1, 0, 0, 1, 0, 0), Mix(1, 1, 0, 0, 0, 0),
   Mix(1, 0, 0, 0, 1, 0), Mix(1, 0, 0, 0, 0, 1), Mix(0, 0, 0, 0, 1, 1)}

\* Two failovers, two reprotects, a failover with its cancel.
LiveMixes == {Mix(2, 0, 0, 0, 0, 0), Mix(0, 2, 0, 0, 0, 0), Mix(1, 0, 1, 0, 0, 0)}

JustFailover == {Mix(1, 0, 0, 0, 0, 0)}

Symmetry == Permutations(Op) \cup Permutations(Workload)
=============================================================================
