--------------------------- MODULE MCSyncPipeline ---------------------------
EXTENDS SyncPipeline

\* A DataSync, and a ResourceSync that restores both scopes in order.
TwoPlans == {<<"data">>, <<"cluster", "namespace">>}

\* The smallest ResourceSyncs: one phase, and nothing selected to restore.
ShortPlans == {<<"legacy">>, <<>>}

\* Each of the faults in S once.
Once(S) == [f \in FaultKind |-> IF f \in S THEN 1 ELSE 0]

\* A DataSync that is triggered twice meets a lost write or an exchange of the roles,
\* a ResourceSync with its operation one fault; or users act on the backups while a
\* call fails or the controller restarts.
SafetyScenarios ==
  [plan : {<<"data">>}, faults : {Once({"lostWrite"}), Once({"flip"})}, triggers : {2}, users : {{}},
   operations : {{}}, until : {3}]
    \cup [plan : {<<"cluster", "namespace">>}, faults : {Once({f}) : f \in {"lostWrite", "flip"}},
          triggers : {0}, users : {{}}, operations : {{"sync"}}, until : {3}]
    \cup [plan : {<<"cluster", "namespace">>}, faults : {Once({f}) : f \in {"storage", "cancelRestore"}},
          triggers : {0}, users : {{}}, operations : {{"sync"}}, until : {2}]
    \cup [plan : {<<"legacy">>}, faults : {Once({"callError"}), Once({"restart"})}, triggers : {2},
          users : {{"Retry", "Cancel", "Delete"}}, operations : {{}}, until : {2}]

\* Nothing fails, but a user may cancel an AppRestore.
CalmScenarios ==
  [plan : TwoPlans, faults : {Once({}), Once({"cancelRestore"})}, triggers : {1}, users : {{}},
   operations : {{"sync", "final"}}, until : {2}]

ShortScenarios ==
  [plan : ShortPlans, faults : {Once({})}, triggers : {1}, users : {{}},
   operations : {{"sync"}}, until : {2}]
=============================================================================
