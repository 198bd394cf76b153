-------------------------- MODULE ClusterWorkloads --------------------------
(***************************************************************************)
(* The workloads (Deployments and StatefulSets) of one protected           *)
(* application in its two clusters, and the two records of their original  *)
(* replica counts: the annotation original-replicas on each workload and   *)
(* the ConfigMap replicas-<ResourceSync> on the control plane.             *)
(*                                                                         *)
(* A replica count is abstracted to zero or non-zero: the scaling code     *)
(* compares a count with 0 and copies it, and nobody else changes a count. *)
(* All the workloads are in one namespace and exist in both clusters (a    *)
(* restored workload is kept at zero replicas in the standby cluster).     *)
(***************************************************************************)
CONSTANTS
  Workload,   \* the Deployments and StatefulSets of the instance
  Source,     \* DisasterConfig.spec.sourceCluster
  Target      \* DisasterConfig.spec.targetCluster

ASSUME ClusterAssumption == Source # Target

VARIABLES
  up,         \* up[c]: the workloads with a non-zero replica count in cluster c
  annot,      \* annot[c]: those that carry the annotation original-replicas in c
  cm          \* cm[w]: what the replicas ConfigMap records for w

workloadVars == <<up, annot, cm>>

Cluster == {Source, Target}

\* "absent": no key in the ConfigMap; "zero" and "some": the recorded count.
Recorded == {"absent", "zero", "some"}

WorkloadsTypeOK ==
  /\ up \in [Cluster -> SUBSET Workload]
  /\ annot \in [Cluster -> SUBSET Workload]
  /\ cm \in [Workload -> Recorded]

(***************************************************************************)
(* Recording the original replica counts.                                  *)
(***************************************************************************)

\* The operation controller records just before it scales cluster c down:
\* only the workloads that still run, and nothing when none does.
recordReplicasBeforeScaleDown(c) ==
  IF up[c] = {} THEN cm
  ELSE [w \in Workload |-> IF w \in up[c] THEN "some" ELSE "absent"]

\* ResourceSync records every workload of the primary c, zero counts
\* included; an existing non-zero record survives a scan that finds only zeros.
recordReplicasToConfigMap(c) ==
  IF up[c] = {} /\ \E w \in Workload : cm[w] = "some" THEN cm
  ELSE [w \in Workload |-> IF w \in up[c] THEN "some" ELSE "zero"]

\* Mutant: the count comes from the ConfigMap only.
expectedReplicasFromConfigMap(c, w) == cm[w]

\* The count a workload of cluster c is to be restored to: the ConfigMap
\* first, the workload's own annotation (never zero) otherwise.
expectedReplicas(c, w) ==
  IF cm[w] # "absent" THEN cm[w]
  ELSE IF w \in annot[c] THEN "some" ELSE "absent"

(***************************************************************************)
(* Scaling.  complete = FALSE is a pass that stopped with an error before  *)
(* the last workload; what it had already updated stays updated.           *)
(***************************************************************************)

Scaled(todo, complete) == IF complete THEN {todo} ELSE SUBSET todo

\* A failed write of the ConfigMap is only logged (recorded = FALSE).
executeScaleDownSource(c, complete, recorded) ==
  \E done \in Scaled(up[c], complete) :
    /\ cm' = IF recorded THEN recordReplicasBeforeScaleDown(c) ELSE cm
    /\ up' = [up EXCEPT ![c] = @ \ done]
    /\ annot' = [annot EXCEPT ![c] = @ \cup done]

\* Cancel's scale-down neither records nor annotates.
doScaleDown(c, complete) ==
  \E done \in Scaled(up[c], complete) :
    /\ up' = [up EXCEPT ![c] = @ \ done]
    /\ UNCHANGED <<annot, cm>>

Restorable(c) == {w \in Workload \ up[c] : expectedReplicas(c, w) = "some"}

\* executeScaleUpTarget and doScaleUp: workloads at zero whose count is known.
doScaleUp(c, complete) ==
  \E done \in Scaled(Restorable(c), complete) :
    /\ up' = [up EXCEPT ![c] = @ \cup done]
    /\ UNCHANGED <<annot, cm>>

\* Mutant: a workload without a recorded count is not waited for.
checkReplicasKnownOnly(c) ==
  \A w \in Workload : expectedReplicas(c, w) # "absent"
                        => ((w \in up[c]) <=> (expectedReplicas(c, w) = "some"))

\* The spec part of executeCheckReplicas; pod and PVC readiness come on top.
checkReplicas(c) ==
  /\ \A w \in Workload : (w \in up[c]) <=> (expectedReplicas(c, w) # "zero")
  /\ \E w \in Workload : expectedReplicas(c, w) # "absent"

(***************************************************************************)
(* The role a cluster is seen to play by the role-drift sampler.           *)
(***************************************************************************)
sampleClusterReplicaRole(c) == IF up[c] # {} THEN "Active" ELSE "Standby"
=============================================================================
