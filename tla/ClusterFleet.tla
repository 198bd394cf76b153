---------------------------- MODULE ClusterFleet ----------------------------
(***************************************************************************)
(* The Cluster controller: the license gate, Velero on the target of each  *)
(* Cluster, its status, and the deletion of a Cluster.                     *)
(*                                                                         *)
(* One worker reconciles.  A pass over a Cluster that is not being deleted *)
(* is cut where it reads the Cluster again: it reads it (Read), asks the   *)
(* license gate (Gate) and works on the target (Work), and users may edit  *)
(* or delete the Cluster in between.                                       *)
(***************************************************************************)
EXTENDS Naturals, FiniteSets

CONSTANTS
  Cluster,     \* names of Clusters
  Old,         \* those that may have been created before the gate was enabled
  Expired,     \* those with an expired token in their spec
  HasVelero,   \* those whose target has a Velero already
  Registry,    \* those created with a registry in spec.veleroInstall
  Limits,      \* cluster limits of the licenses that may be installed
  MaxGen,      \* bound on metadata.generation
  MaxChanges   \* bound on what users and the environment change

ASSUME FleetAssumption ==
  /\ IsFiniteSet(Cluster)
  /\ Old \subseteq Cluster /\ Expired \subseteq Cluster /\ HasVelero \subseteq Cluster
  /\ Registry \subseteq Cluster
  /\ Limits \subseteq Nat /\ Limits # {}
  /\ MaxGen \in Nat \ {0} /\ MaxChanges \in Nat

VARIABLES
  cl,          \* metadata, spec and status of the Clusters
  target,      \* Velero and its storage location in each target
  limit,       \* ClusterLimit of the license in force
  top,         \* the highest limit so far
  lag,         \* the informer cache has lagged behind the API server
  seen,        \* the Clusters whose acceptance the cache shows
  pass,        \* the pass in progress: what it read and computed
  changes      \* changes that may still come

fleetVars == <<cl, target, limit, top, lag, seen, pass, changes>>

Config == {"plain", "registry"}      \* spec.veleroInstall: none, or a registry
Waiting == {"VeleroRuntimeNotReady", "VeleroStatusSyncPending"}

NoCluster ==
  [obj |-> "none", old |-> FALSE, stage |-> "new", gen |-> 0, want |-> "plain", early |-> FALSE,
   accepted |-> FALSE, ensure |-> FALSE, uninstall |-> FALSE,
   status |-> "", reason |-> "", waits |-> 0, observed |-> 0, version |-> FALSE, touched |-> FALSE]

NoPass == [at |-> "idle"]

FleetInit ==
  /\ cl = [c \in Cluster |-> NoCluster]
  /\ target = [c \in Cluster |->
                 [velero |-> IF c \in HasVelero THEN "plain" ELSE "absent", ours |-> FALSE,
                  up |-> FALSE, answered |-> FALSE, bsl |-> 0, avail |-> FALSE]]
  /\ limit \in Limits /\ top = limit
  /\ lag = FALSE
  /\ seen = {}
  /\ pass = NoPass
  /\ changes = MaxChanges

ClusterType ==
  [obj : {"none", "live", "deleting", "gone"}, old : BOOLEAN, stage : {"new", "labelled", "ready"},
   gen : 0..MaxGen, want : Config, early : BOOLEAN,
   accepted : BOOLEAN, ensure : BOOLEAN, uninstall : BOOLEAN,
   status : {"", "Pending", "NotReady", "Ready", "Deleting"},
   reason : Waiting \cup {"", "LicenseLimitExceeded", "LicenseInvalid", "TokenExpired", "Failed",
                          "Deleting"},
   waits : 0..MaxGen, observed : 0..MaxGen, version : BOOLEAN, touched : BOOLEAN]

Change == changes > 0 /\ changes' = changes - 1
Calm == UNCHANGED changes

Idle == pass = NoPass

\* Exists is what a Get finds.
Exists(c) == cl[c].obj \in {"live", "deleting"}

(***************************************************************************)
(* Users.                                                                  *)
(***************************************************************************)
Wanted(c) == IF c \in Registry THEN "registry" ELSE "plain"

\* The gate remembers when it was enabled: what was created before is old, and
\* nothing that comes later is.
EnsureGateState(c) == c \in Old /\ \A d \in Cluster : cl[d].obj = "none" \/ cl[d].old

Create(c) ==
  /\ cl[c].obj = "none"
  /\ \E old \in BOOLEAN :
       /\ old => EnsureGateState(c)
       /\ cl' = [cl EXCEPT ![c] = [NoCluster EXCEPT !.obj = "live", !.old = old, !.gen = 1,
                                                    !.want = Wanted(c)]]
  /\ UNCHANGED <<target, limit, top, lag, seen, pass, changes>>

\* early remembers an edit that came before the Cluster was first Ready.
Edit(c) ==
  /\ Change
  /\ cl[c].obj = "live" /\ cl[c].gen < MaxGen
  /\ cl' = [cl EXCEPT ![c].gen = @ + 1,
                      ![c].want = IF @ = "plain" THEN "registry" ELSE "plain",
                      ![c].early = @ \/ cl[c].observed = 0]
  /\ UNCHANGED <<target, limit, top, lag, seen, pass>>

\* Without its finalizer the object goes at once.
Delete(c) ==
  /\ Change
  /\ cl[c].obj = "live"
  /\ \E uninstall \in BOOLEAN :
       cl' = [cl EXCEPT ![c].uninstall = uninstall,
                        ![c].obj = IF cl[c].stage = "ready" THEN "deleting" ELSE "gone"]
  /\ seen' = IF cl[c].stage = "ready" THEN seen ELSE seen \ {c}
  /\ UNCHANGED <<target, limit, top, lag, pass>>

InstallLicense ==
  /\ Change
  /\ limit' \in Limits \ {limit}
  /\ top' = IF limit' > top THEN limit' ELSE top
  /\ UNCHANGED <<cl, target, lag, seen, pass>>

(***************************************************************************)
(* The beginning of a pass.                                                *)
(***************************************************************************)

\* Labels, with a write that ends the pass; then the finalizer, and Pending.
Prepare(c) ==
  /\ cl[c].obj = "live"
  /\ \/ cl[c].stage = "new" /\ cl' = [cl EXCEPT ![c].stage = "labelled"]
     \/ /\ cl[c].stage = "labelled"
        /\ cl' = [cl EXCEPT ![c].stage = "ready", ![c].status = "Pending"]
  /\ UNCHANGED <<target, seen, pass, changes>>

Read(c) ==
  /\ cl[c].obj = "live" /\ cl[c].stage = "ready"
  /\ pass' = [at |-> IF cl[c].accepted THEN "work" ELSE "gate", c |-> c, read |-> cl[c],
              wasReady |-> cl[c].status = "Ready"]
  /\ UNCHANGED <<cl, target, seen, changes>>

\* The deferred write replaces the status and nothing else.  The finalizer keeps
\* the Cluster until the pass ends.  An error of the write is only logged.
StatusOf(new, old) ==
  [old EXCEPT !.status = new.status, !.reason = new.reason, !.waits = new.waits,
              !.observed = new.observed, !.version = new.version, !.touched = new.touched]

updateClusterStatus(c, new) ==
  \/ Calm /\ cl' = [cl EXCEPT ![c] = StatusOf(new, @)]
  \/ Change /\ UNCHANGED cl

(***************************************************************************)
(* ensureClusterLicenseAccepted.                                           *)
(***************************************************************************)
acceptedSiblings(c) == {d \in seen \ {c} : cl[d].obj = "live"}

\* Mutant: a limit counts as one more.
CanAcceptOneMore(c) == Cardinality(acceptedSiblings(c)) <= limit

CanAcceptCluster(c) == Cardinality(acceptedSiblings(c)) < limit

\* The annotations are written to the latest version, whose metadata replaces
\* that of the pass: the generation and the annotations, but not the spec.
acceptCluster(c) ==
  \/ /\ \/ Calm /\ seen' = seen \cup {c} /\ UNCHANGED lag
        \/ Change /\ lag' = TRUE /\ UNCHANGED seen
     /\ cl' = [cl EXCEPT ![c].accepted = TRUE]
     /\ pass' = [pass EXCEPT !.at = "work", !.read.gen = cl[c].gen, !.read.accepted = TRUE,
                                     !.read.ensure = cl[c].ensure]
  \/ /\ Change
     /\ cl' = [cl EXCEPT ![c].status = "NotReady", ![c].reason = "LicenseInvalid"]
     /\ pass' = NoPass
     /\ UNCHANGED <<seen, lag>>

\* Mutant: a Cluster that is refused is worked on all the same.
refuseSoftly(c) ==
  /\ pass' = [pass EXCEPT !.at = "work"]
  /\ UNCHANGED <<cl, lag, seen, changes>>

refuse(c) ==
  /\ updateClusterStatus(c, [pass.read EXCEPT !.status = "NotReady",
                                              !.reason = "LicenseLimitExceeded"])
  /\ pass' = NoPass
  /\ UNCHANGED <<lag, seen>>

\* Old Clusters are accepted without counting, unless the state of the gate
\* cannot be read.  A Cluster that is being deleted passes.
Gate ==
  /\ pass # NoPass /\ pass.at = "gate"
  /\ LET c == pass.c
     IN \/ /\ cl[c].obj = "deleting"
           /\ pass' = [pass EXCEPT !.at = "work"]
           /\ UNCHANGED <<cl, lag, seen, changes>>
        \/ /\ cl[c].obj = "live"
           /\ \/ (cl[c].old \/ CanAcceptCluster(c)) /\ acceptCluster(c)
              \/ ~CanAcceptCluster(c) /\ refuse(c)
  /\ UNCHANGED target

(***************************************************************************)
(* The work on the target.                                                 *)
(***************************************************************************)
Installed(t) == t.velero \in Config

\* An expired token is reported, and the pass goes on.
refreshClusterTokenExpiration(c, r) ==
  IF c \in Expired
  THEN [r EXCEPT !.touched = TRUE, !.status = "NotReady", !.reason = "TokenExpired"]
  ELSE [r EXCEPT !.touched = TRUE]

isClusterWaiting(r) == r.reason \in Waiting /\ r.waits = r.gen

\* Mutant: Velero is never brought up to date once it is installed.
needsInstallOnce(r, t) == ~Installed(t)

\* Velero is missing; or was there before the Cluster, which asks for a
\* registry; or the spec has changed since the Cluster was last Ready.
needsInstall(r, t) ==
  \/ ~Installed(t)
  \/ r.observed = 0 /\ r.want = "registry"
  \/ r.observed > 0 /\ r.gen > r.observed /\ ~isClusterWaiting(r)

\* The values of the chart, with the images of the registry if there is one.
buildVeleroValuesFile(r) == r.want

\* helm upgrade --install: a change of the values restarts the pods.
InstallVelero(r, t) ==
  IF needsInstall(r, t)
  THEN [t EXCEPT !.velero = buildVeleroValuesFile(r), !.ours = TRUE,
                 !.up = @ /\ t.velero = buildVeleroValuesFile(r)]
  ELSE t

canReuseObservedVeleroVersion(r, wasReady) ==
  /\ r.observed = r.gen /\ r.version
  /\ wasReady \/ (r.reason = "VeleroStatusSyncPending" /\ r.waits = r.gen)

\* The answer of Velero to the status request, and what its pods tell.
checkVeleroVersion(t) == t.answered

diagnoseVeleroStatusPending(t) ==
  IF t.up THEN "VeleroStatusSyncPending" ELSE "VeleroRuntimeNotReady"

\* The message names the generation that waits.
Waits(r, reason) == [r EXCEPT !.status = "NotReady", !.reason = reason, !.waits = r.gen]

\* Mutant: Ready without its generation.
VerdictTimeless(r, t, wasReady) ==
  IF t.up THEN [r EXCEPT !.version = TRUE, !.status = "Ready", !.reason = ""]
  ELSE Waits(r, "VeleroRuntimeNotReady")

\* What a pass reports when no call fails.
Verdict(r, t, wasReady) ==
  IF ~checkVeleroVersion(t) /\ ~canReuseObservedVeleroVersion(r, wasReady)
  THEN Waits(r, diagnoseVeleroStatusPending(t))
  ELSE IF diagnoseVeleroStatusPending(t) = "VeleroRuntimeNotReady"
  THEN Waits([r EXCEPT !.version = TRUE], "VeleroRuntimeNotReady")
  ELSE [r EXCEPT !.version = TRUE, !.status = "Ready", !.reason = "", !.observed = r.gen]

\* What it may report when one fails: without a client the reason stays;
\* markClusterNotReady keeps TokenExpired; a failed version check forgets the
\* version, and an incompatible version is known.
NotReady(r) ==
  LET report(reason, version) ==
        [r EXCEPT !.status = "NotReady", !.reason = reason, !.version = version]
  IN {report(r.reason, r.version), report("Failed", TRUE)}
       \cup {report(reason, version) : reason \in {"Failed"} \cup ({r.reason} \cap {"TokenExpired"}),
                                      version \in {r.version, FALSE}}

Work ==
  /\ pass # NoPass /\ pass.at = "work" /\ ~pass.read.ensure
  /\ LET c == pass.c
         r == refreshClusterTokenExpiration(c, pass.read)
         t == InstallVelero(r, target[c])
     IN \/ /\ target' = [target EXCEPT ![c] = t]
           /\ updateClusterStatus(c, Verdict(r, t, pass.wasReady))
        \/ /\ Change
           /\ target' \in {target, [target EXCEPT ![c] = t]}
           /\ \E new \in NotReady(r) :
                cl' = [cl EXCEPT ![c] = StatusOf(new, @)]
  /\ pass' = NoPass
  /\ UNCHANGED <<lag, seen>>

(***************************************************************************)
(* handleDelete.  The protection of Clusters in use is disabled.           *)
(***************************************************************************)
MarkDeleting(c) ==
  /\ cl[c].status # "Deleting" \/ cl[c].reason # "Deleting"
  /\ cl' = [cl EXCEPT ![c].status = "Deleting", ![c].reason = "Deleting"]
  /\ UNCHANGED <<target, seen, changes>>

\* Mutant: what was never Ready needs no cleanup.
shouldSkipTargetCleanupNeverReady(c) == cl[c].observed = 0

\* No sign that the target was ever worked on.
shouldSkipTargetCleanup(c) ==
  ~cl[c].accepted /\ cl[c].observed = 0 /\ ~cl[c].touched /\ ~cl[c].version

Gone(c) ==
  /\ cl' = [cl EXCEPT ![c].obj = "gone"]
  /\ seen' = seen \ {c}

Uninstalled(t) == [t EXCEPT !.velero = "absent", !.up = FALSE, !.answered = FALSE,
                            !.bsl = 0, !.avail = FALSE]

\* The release is gone, and some of the objects it left are not.
Residual(t) == [t EXCEPT !.velero = "residual", !.up = FALSE]

Finalize(c) ==
  /\ cl[c].status = "Deleting" /\ cl[c].reason = "Deleting"
  /\ \/ /\ shouldSkipTargetCleanup(c)
        /\ Gone(c)
        /\ UNCHANGED <<target, changes>>
     \/ /\ ~shouldSkipTargetCleanup(c)
        /\ Calm
        /\ target' = IF cl[c].uninstall THEN [target EXCEPT ![c] = Uninstalled(@)] ELSE target
        /\ Gone(c)
     \/ /\ ~shouldSkipTargetCleanup(c)
        /\ Change
        /\ target' \in {target} \cup (IF cl[c].uninstall
                                      THEN {[target EXCEPT ![c] = Residual(@)]}
                                      ELSE {})
        /\ cl' = [cl EXCEPT ![c].reason = "Failed"]
        /\ UNCHANGED seen

handleDelete(c) ==
  /\ cl[c].obj = "deleting"
  /\ MarkDeleting(c) \/ Finalize(c)
  /\ UNCHANGED pass

(***************************************************************************)
(* The environment.                                                        *)
(***************************************************************************)

\* The queue starts a pass when the worker is free.
StartPass(c) ==
  /\ Idle
  /\ Prepare(c) \/ Read(c) \/ handleDelete(c)
  /\ UNCHANGED <<limit, top, lag>>

ContinuePass ==
  /\ Gate \/ Work
  /\ UNCHANGED <<limit, top>>

\* The cache catches up.
Deliver ==
  /\ \E c \in Cluster : cl[c].accepted /\ Exists(c) /\ c \notin seen /\ seen' = seen \cup {c}
  /\ UNCHANGED <<cl, target, limit, top, lag, pass, changes>>

\* Velero comes up and answers the status request.
VeleroStarts(c) ==
  /\ Installed(target[c]) /\ ~(target[c].up /\ target[c].answered)
  /\ target' = [target EXCEPT ![c].up = TRUE, ![c].answered = TRUE]
  /\ UNCHANGED <<cl, limit, top, lag, seen, pass, changes>>

\* Velero goes down, or its answer to the status request expires; the
\* operator restarts and forgets the pass.
Disturb ==
  /\ Change
  /\ \/ /\ \E c \in Cluster :
             /\ target[c].up
             /\ target' \in {[target EXCEPT ![c].up = FALSE], [target EXCEPT ![c].answered = FALSE]}
        /\ UNCHANGED pass
     \/ /\ pass # NoPass
        /\ pass' = NoPass
        /\ UNCHANGED target
  /\ UNCHANGED <<cl, limit, top, lag, seen>>

UserStep == InstallLicense \/ \E c \in Cluster : Create(c) \/ Edit(c) \/ Delete(c)

(***************************************************************************)
(* Properties.                                                             *)
(***************************************************************************)

\* The gate comes first: the operator has installed Velero in a target only
\* for a Cluster that it accepted, unless the Cluster is being deleted.
InstalledMeansAccepted ==
  \A c \in Cluster : target[c].ours => cl[c].accepted \/ cl[c].obj # "live"

\* As long as the cache is up to date, no more Clusters are accepted than a
\* license ever allowed, not counting those older than the gate.
LimitHolds ==
  ~lag => Cardinality({c \in Cluster : cl[c].obj = "live" /\ ~cl[c].old /\ cl[c].accepted}) <= top

\* A Cluster that is Ready for its current generation has Velero as its spec
\* asks, unless the spec was edited before the Cluster was first Ready.
ReadyMeansApplied ==
  \A c \in Cluster :
    LET x == cl[c]
    IN x.obj = "live" /\ x.status = "Ready" /\ x.observed = x.gen /\ ~x.early
         => Installed(target[c]) /\ (x.want = "registry" \/ target[c].ours => target[c].velero = x.want)

\* A Cluster that users deleted with its Velero leaves no Velero behind, even
\* when a pass was under way, calls failed or status writes were lost.
DeletedMeansUninstalled ==
  \A c \in Cluster :
    cl[c].obj = "gone" /\ cl[c].uninstall /\ cl[c].accepted => target[c].velero = "absent"

\* Once users and the environment leave it alone, every deletion has ended, and
\* every accepted Cluster has been brought to its current generation and is Ready,
\* unless its token has expired, or a signal to apply a storage location that does
\* not become available holds it up.
FleetSettles ==
  <>[](\A c \in Cluster :
         /\ cl[c].obj # "deleting"
         /\ cl[c].obj = "live" /\ cl[c].accepted /\ ~cl[c].ensure
              => cl[c].observed = cl[c].gen /\ (c \notin Expired => cl[c].status = "Ready"))
=============================================================================
