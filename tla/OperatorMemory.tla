--------------------------- MODULE OperatorMemory ---------------------------
(***************************************************************************)
(* What the operator process keeps in memory only, and has to rebuild from *)
(* the API server after a restart: the active runtime configuration and    *)
(* the cron jobs of the syncs.                                             *)
(*                                                                         *)
(* An object that changes is queued for a pass, and a restart queues all   *)
(* of them.  The jobs are kept by namespace and name, whatever the kind;   *)
(* an instance names its two syncs differently (dr-ds-, dr-rs-), so here a *)
(* sync is its own key.                                                    *)
(***************************************************************************)
EXTENDS Naturals

CONSTANTS
  Field,        \* fields of the runtime configuration
  Allowed,      \* the values the operator accepts for each of them
  Startup,      \* the snapshot of flags and environment
  Specs,        \* specs of OperatorRuntimeConfig: each sets some of the fields
  Sync,         \* the DataSyncs and ResourceSyncs
  Schedules,    \* their cron expressions, "" for none
  BadSchedules, \* those that cannot be parsed
  MaxUpsets     \* bound on edits, restarts and failed calls

ASSUME MemoryAssumption ==
  /\ {"retryLimit", "retryLimitMissing", "watchdog", "minWatchdog"} \subseteq Field
  /\ DOMAIN Allowed = Field /\ DOMAIN Startup = Field
  /\ \A s \in Specs : DOMAIN s \subseteq Field
  /\ "" \in Schedules /\ BadSchedules \subseteq Schedules \ {""}
  /\ MaxUpsets \in Nat

VARIABLES
  rc,           \* OperatorRuntimeConfig/default, and whether a pass is due
  active,       \* the active snapshot and the generation it came from
  sync,         \* the syncs, and whether a pass is due
  jobs,         \* the schedule of each registered job, "" for none
  upsets        \* upsets that may still come

memoryVars == <<rc, active, sync, jobs, upsets>>

NoRuntimeConfig == [exists |-> FALSE, queued |-> FALSE, gen |-> 0, spec |-> Startup,
                    observed |-> 0, activated |-> 0, ready |-> FALSE]
NoSync == [obj |-> "none", stage |-> "new", schedule |-> "", paused |-> FALSE, queued |-> FALSE]

MemoryInit ==
  /\ rc = NoRuntimeConfig
  /\ active = [gen |-> 0, values |-> Startup]
  /\ sync = [s \in Sync |-> NoSync]
  /\ jobs = [s \in Sync |-> ""]
  /\ upsets = MaxUpsets

Upset == upsets > 0 /\ upsets' = upsets - 1

(***************************************************************************)
(* The runtime configuration.                                              *)
(***************************************************************************)

StartupSnapshot == Startup

\* A field that is set replaces the one of the base ...
mergeFields(base, spec) == [f \in Field |-> IF f \in DOMAIN spec THEN spec[f] ELSE base[f]]

\* ... and retryLimit stands for the limits that are not set.
mergeRestoreRuntime(base, spec) ==
  IF "retryLimit" \in DOMAIN spec /\ "retryLimitMissing" \notin DOMAIN spec
  THEN [base EXCEPT !["retryLimitMissing"] = spec["retryLimit"]]
  ELSE base

MergeSpec(spec) == mergeFields(mergeRestoreRuntime(StartupSnapshot, spec), spec)

\* What was merged is validated, the fields of the base included.
inRange(f, value) == value \in Allowed[f]
Validate(s) == (\A f \in Field : inRange(f, s[f])) /\ s["watchdog"] >= s["minWatchdog"]

\* The snapshot is active before the status is written, and stays so if the
\* write fails.  A write that changes the object is an event.
updateStatus(ready) ==
  LET new == [rc EXCEPT !.observed = rc.gen, !.ready = ready,
                        !.activated = IF ready THEN rc.gen ELSE @]
  IN \/ rc' = [new EXCEPT !.queued = new # rc] /\ UNCHANGED upsets
     \/ UNCHANGED rc /\ Upset

ResetToStartupDefaults ==
  /\ ~rc.exists
  /\ active' = [gen |-> 0, values |-> Startup]
  /\ rc' = [rc EXCEPT !.queued = FALSE]
  /\ UNCHANGED upsets

Activate ==
  /\ rc.exists /\ Validate(MergeSpec(rc.spec))
  /\ active' = [gen |-> rc.gen, values |-> MergeSpec(rc.spec)]
  /\ updateStatus(TRUE)

\* Mutant: an invalid configuration gives way to the startup values.
RejectToStartup ==
  /\ rc.exists /\ ~Validate(MergeSpec(rc.spec))
  /\ active' = [gen |-> 0, values |-> Startup]
  /\ updateStatus(FALSE)

\* An invalid configuration leaves the snapshot alone.
Reject ==
  /\ rc.exists /\ ~Validate(MergeSpec(rc.spec))
  /\ UNCHANGED active
  /\ updateStatus(FALSE)

ReconcileRuntimeConfig ==
  /\ rc.queued
  /\ ResetToStartupDefaults \/ Activate \/ Reject
  /\ UNCHANGED <<sync, jobs>>

(***************************************************************************)
(* The cron jobs, as the passes of DataSync and ResourceSync keep them.    *)
(***************************************************************************)

\* Mutant: a job that exists is left alone.
AddOrUpdateOnce(s, schedule) ==
  IF jobs[s] # "" THEN jobs[s] ELSE IF schedule \in BadSchedules THEN "" ELSE schedule

\* A job with another schedule is removed before the new one is added, and an
\* expression that cannot be parsed leaves none; the error is only reported.
AddOrUpdate(s, schedule) ==
  IF jobs[s] = schedule THEN jobs[s] ELSE IF schedule \in BadSchedules THEN "" ELSE schedule

Registered(s) ==
  IF ~sync[s].paused /\ sync[s].schedule # "" THEN AddOrUpdate(s, sync[s].schedule) ELSE ""

\* A sync that is being deleted, or is gone already.
Remove(s) ==
  /\ sync[s].obj # "live"
  /\ jobs' = [jobs EXCEPT ![s] = ""]
  /\ \/ sync' = [sync EXCEPT ![s] = NoSync] /\ UNCHANGED upsets
     \/ sync[s].obj = "deleting" /\ UNCHANGED sync /\ Upset

\* Finalizer and labels, the first state, and then the job.  A write that fails
\* ends the pass before it gets there.
Schedule(s) ==
  /\ sync[s].obj = "live"
  /\ \/ sync[s].stage = "new" /\ sync' = [sync EXCEPT ![s].stage = "labelled"] /\ UNCHANGED <<jobs, upsets>>
     \/ sync[s].stage = "labelled" /\ sync' = [sync EXCEPT ![s].stage = "ready"] /\ UNCHANGED <<jobs, upsets>>
     \/ sync[s].stage # "ready" /\ UNCHANGED <<sync, jobs>> /\ Upset
     \/ /\ sync[s].stage = "ready"
        /\ jobs' = [jobs EXCEPT ![s] = Registered(s)]
        /\ sync' = [sync EXCEPT ![s].queued = FALSE]
        /\ UNCHANGED upsets

ReconcileSync(s) ==
  /\ sync[s].queued
  /\ Remove(s) \/ Schedule(s)
  /\ UNCHANGED <<rc, active>>

(***************************************************************************)
(* Users, and the restart of the operator.                                 *)
(***************************************************************************)
EditRuntimeConfig ==
  /\ Upset
  /\ \/ \E s \in Specs :
          rc' = IF rc.exists THEN [rc EXCEPT !.spec = s, !.gen = @ + 1, !.queued = TRUE]
                ELSE [NoRuntimeConfig EXCEPT !.exists = TRUE, !.spec = s, !.gen = 1, !.queued = TRUE]
     \/ rc.exists /\ rc' = [NoRuntimeConfig EXCEPT !.queued = TRUE]
  /\ UNCHANGED <<active, sync, jobs>>

EditSync(s) ==
  /\ Upset
  /\ \/ /\ sync[s].obj # "deleting"
        /\ \E schedule \in Schedules, paused \in BOOLEAN :
             sync' = [sync EXCEPT ![s].obj = "live", ![s].schedule = schedule, ![s].paused = paused,
                                  ![s].queued = TRUE]
     \/ /\ sync[s].obj = "live"
        /\ sync' = [sync EXCEPT ![s] = IF @.stage = "new" THEN [NoSync EXCEPT !.queued = TRUE]
                                       ELSE [@ EXCEPT !.obj = "deleting", !.queued = TRUE]]
  /\ UNCHANGED <<rc, active, jobs>>

\* SetStartupDefaults and an empty scheduler; the informers deliver every object.
Restart ==
  /\ Upset
  /\ active' = [gen |-> 0, values |-> Startup]
  /\ jobs' = [s \in Sync |-> ""]
  /\ rc' = [rc EXCEPT !.queued = rc.exists]
  /\ sync' = [s \in Sync |-> [sync[s] EXCEPT !.queued = sync[s].obj # "none"]]

(***************************************************************************)
(* Properties.                                                             *)
(***************************************************************************)

\* Once its pass is done, the runtime configuration is what the operator uses,
\* and its status says so: a valid one over the startup values and nothing that
\* was active before, startup values without one.  An invalid one is reported,
\* and whatever is active has been validated or is the startup values.
SnapshotCurrent ==
  /\ ~rc.queued =>
       /\ ~rc.exists => active = [gen |-> 0, values |-> Startup]
       /\ rc.exists => rc.observed = rc.gen /\ (rc.ready <=> Validate(MergeSpec(rc.spec)))
       /\ rc.exists /\ rc.ready
            => active.gen = rc.gen /\ \A f \in DOMAIN rc.spec : active.values[f] = rc.spec[f]
       /\ rc.exists /\ rc.ready
            => \A f \in Field \ ({"retryLimitMissing"} \cup DOMAIN rc.spec) : active.values[f] = Startup[f]
  /\ active.values = Startup \/ Validate(active.values)

\* As long as a configuration exists and the operator runs, what is active gives
\* way to nothing but that configuration, validated as a whole: an invalid one,
\* however often it is edited and reported, never falls back to startup values.
SnapshotKept ==
  [][active' # active /\ rc.exists =>
       \/ Restart
       \/ /\ active'.gen = rc.gen /\ Validate(active'.values)
          /\ \A f \in DOMAIN rc.spec : active'.values[f] = rc.spec[f]]_memoryVars

\* The runtime configuration takes effect when it is valid and only then, with
\* the last valid one in use until a restart of the operator
\* (docs/runtime-configuration.md, but for the restart).
RuntimeCurrent == []SnapshotCurrent /\ SnapshotKept

\* Once its pass is done, a sync has the job of its schedule, and none if it is
\* paused, deleted or has no schedule that can be parsed; a restart of the
\* operator loses no job for longer than that (the comment on SyncScheduler).
JobsFollowSpecs ==
  \A s \in Sync :
    ~sync[s].queued =>
      jobs[s] = IF sync[s].obj = "live" /\ ~sync[s].paused /\ sync[s].schedule \notin BadSchedules
                THEN sync[s].schedule ELSE ""
=============================================================================
