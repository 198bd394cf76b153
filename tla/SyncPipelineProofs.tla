------------------------- MODULE SyncPipelineProofs -------------------------
(***************************************************************************)
(* Proofs about a sync and its AppBackup: a run makes one Velero backup, a *)
(* run that ends in Ready has restored a newer backup, and a backup that   *)
(* was cancelled is not restored.                                          *)
(***************************************************************************)
EXTENDS SyncPipeline, FiniteSetTheorems, TLAPS

(***************************************************************************)
(* The inductive invariant.                                                *)
(***************************************************************************)
Stamps == 0..MaxTime
Requests == [type : {"Backup", "Retry", "Cancel", "Delete"}, at : Stamps, target : Stamps]
AppBackups == [exists : BOOLEAN, cluster : Cluster, phase : {"Pending", "Ready", "Failed"},
               queued : BOOLEAN, action : Requests, last : Stamps, initial : BOOLEAN]
Records == [phase : {"none", "New", "InProgress", "Finalizing", "Completed", "Failed", "Deleting", "TimeoutFailed"},
            managed : {"none", "InProgress", "Completed", "Failed", "Canceled"}, start : Stamps]
Backups == [phase : {"none", "gone", "New", "InProgress", "Finalizing", "Completed", "Failed", "Deleting"},
            created : Stamps, start : Stamps, doomed : BOOLEAN]
Syncs == [state : {"", "InProgress", "Ready", "Failed"}, manual : Stamps, last : Stamps,
          backup : Stamps, paused : BOOLEAN, failedAt : [FailureType -> Stamps]]
Restores == [status : {"none", "Running", "Succeeded", "Failed", "Cancelled"}, at : Stamps, target : Cluster]

Typed ==
  /\ scenario \in Scenarios /\ primary \in Cluster
  /\ now \in Time
  /\ ab \in AppBackups
  /\ history \in [Time -> Records]
  /\ velero \in [Cluster -> [Time -> Backups]]
  /\ faults \in [FaultKind -> Nat] /\ \A f \in FaultKind : faults[f] <= scenario.faults[f]
  /\ sync \in Syncs
  /\ restores \in [Time -> [Phases -> Restores]]

Listed(c, n) == velero[c][n].phase \notin Absent
Made(c, n) == velero[c][n].phase # "none"

\* Nothing is of a later second than it is, and no backup starts before the
\* second of its name.  A run starts after the second in which the last one ended.
InTime ==
  /\ sync.last <= now /\ sync.manual <= now
  /\ sync.state = "InProgress" => sync.last < now
  /\ ab.exists => ab.action.at \in 1..now /\ ab.action.target <= now
  /\ \A c \in Cluster, n \in Time : Listed(c, n) => n <= velero[c][n].start /\ velero[c][n].start <= now
  /\ \A n \in Time :
       /\ history[n] # NoRecord => n <= now
       /\ history[n].start # None => n <= history[n].start /\ history[n].start <= now
       /\ history[n].phase # "none" => history[n].start # None
  /\ \A n \in Time, p \in Phases : restores[n][p].at <= now

Restored(n) == \E p \in Phases : restores[n][p].status # "none"

\* Backups, their records and their restores come after the AppBackup.
ByAppBackup ==
  /\ ~ab.exists => \A n \in Time : /\ history[n] = NoRecord /\ ~Restored(n)
                                 /\ \A c \in Cluster : ~Made(c, n)
  /\ sync.backup # None => ab.exists

\* Without users the AppBackup has the request of the sync, and whatever was made
\* later than the last run was made for it.
OneRequest ==
  users = {} =>
    /\ ab.action.type = "Backup" /\ ab.last <= ab.action.at
    /\ \A c \in Cluster, n \in Time : Made(c, n) =>
         n <= ab.action.at /\ ~velero[c][n].doomed /\ velero[c][n].phase # "Deleting"
    /\ \A c \in Cluster, n \in Time : Made(c, n) /\ n > sync.last => n = ab.action.at

\* With one exchange of the roles at most, the AppBackup comes to a cluster in
\* which it has made nothing yet.
NewGround ==
  exchanges <= 1 =>
    /\ faults["flip"] = exchanges =>
         /\ ab.exists => ab.cluster = primary
         /\ exchanges = 1 => \A c \in Cluster, n \in Time : Made(c, n) => c = primary
    /\ ab.exists /\ ab.cluster # primary => \A n \in Time : ~Made(primary, n)

\* A record is not ahead of its backup, and both are newer than the last run if
\* the sync has adopted them.
Adopted ==
  exchanges <= 1 =>
    /\ \A n \in Time : Listed(ab.cluster, n) => history[n].start <= Remote[n].start
    /\ \A n \in Time : sync.state = "InProgress" /\ n = sync.backup =>
         /\ history[n].start # None => history[n].start > sync.last
         /\ Listed(ab.cluster, n) => Remote[n].start > sync.last

\* Where records are not lost: a record of a completed backup is not that of one
\* that runs, and a backup with a cancelled record is on its way out.
Cancels ==
  exchanges <= 1 /\ lostWrites = 0 =>
    \A n \in Time :
      /\ Listed(ab.cluster, n) /\ Remote[n].phase \in Running => history[n].phase # "Completed"
      /\ Listed(ab.cluster, n) /\ history[n].managed = "Canceled" => Remote[n].phase = "Deleting"
      /\ history[n].phase = "Completed" => history[n].managed # "Canceled"

\* A backup that was recorded as completed was handled and is not made again, nor
\* is one that was restored.
FinalAt(n) ==
  /\ history[n].phase = "Completed" =>
       /\ n <= ab.last
       /\ Listed(ab.cluster, n) => Remote[n].phase \in Ended /\ Remote[n].start = history[n].start
  /\ Restored(n) =>
       /\ n <= ab.last
       /\ Listed(ab.cluster, n) => Remote[n].phase \in Ended
       /\ \A p \in Phases : restores[n][p].status # "none" =>
            /\ history[n].start <= restores[n][p].at
            /\ Listed(ab.cluster, n) => Remote[n].start <= restores[n][p].at
  /\ exchanges = 0 /\ (history[n].phase = "Completed" \/ Restored(n)) => Remote[n].phase \in Ended
  /\ lostWrites = 0 /\ (history[n] # NoRecord \/ Restored(n) \/ \E c \in Cluster : Made(c, n)) => ab.initial

Final ==
  users = {} /\ exchanges <= 1 /\ (exchanges = 0 \/ lostWrites = 0) => \A n \in Time : FinalAt(n)

SyncInv == Typed /\ InTime /\ ByAppBackup /\ OneRequest /\ NewGround /\ Adopted /\ Cancels /\ Final

(***************************************************************************)
(* Facts about the constants.                                              *)
(***************************************************************************)
LEMMA Numbers ==
  /\ MaxTime \in Nat /\ Time \subseteq Nat /\ Time \subseteq Stamps /\ Stamps \subseteq Nat
  /\ None = 0 /\ None \in Stamps /\ None \notin Time /\ 1 \in Time
  /\ \A x \in Stamps : x # None => x \in Time
BY BackupAssumption DEF Time, Stamps, None

LEMMA Clusters ==
  /\ (CHOOSE c \in Cluster : TRUE) \in Cluster
  /\ \A d \in Cluster : (CHOOSE c \in Cluster : c # d) \in Cluster
BY BackupAssumption

PhaseName == {"data", "legacy", "cluster", "namespace"}

\* What the scenario of a behaviour is made of.
LEMMA ScenarioType ==
  ASSUME scenario \in Scenarios
  PROVE  /\ plan \in Seq(PhaseName)
         /\ exchanges \in Nat /\ lostWrites \in Nat /\ scenario.faults \in [FaultKind -> Nat]
         /\ scenario.until \in Time /\ scenario.triggers \in Nat
  <1>1. plan \in Seq(PhaseName)
    <2>1. CASE plan = <<"data">>
      BY <2>1 DEF PhaseName
    <2>2. CASE plan \in Seq({"legacy", "cluster", "namespace"})
      <3>1. \A i \in 1..Len(plan) : plan[i] \in PhaseName
        BY <2>2 DEF PhaseName
      <3>. QED BY <2>2, <3>1
    <2>. QED BY <2>1, <2>2, PipelineAssumption DEF plan
  <1>. QED BY <1>1, PipelineAssumption DEF exchanges, lostWrites, FaultKind

LEMMA PhasesOf ==
  ASSUME scenario \in Scenarios
  PROVE  /\ Len(plan) \in Nat
         /\ DOMAIN plan = 1..Len(plan)
         /\ \A i \in DOMAIN plan : plan[i] \in Phases
         /\ \A p \in Phases : \E i \in 1..Len(plan) : plan[i] = p
  <1>1. plan \in Seq(PhaseName)
    BY ScenarioType
  <1>. QED BY <1>1 DEF Phases

\* A fault happens at most as often as the scenario says.
LEMMA FaultCount ==
  ASSUME Typed, NEW f \in FaultKind, Fault(f) \/ NoFault
  PROVE  /\ faults' \in [FaultKind -> Nat]
         /\ \A g \in FaultKind : faults'[g] <= faults[g] /\ faults'[g] <= scenario.faults[g]
         /\ Fault(f) => scenario.faults[f] > 0
         /\ f # "flip" => faults'["flip"] = faults["flip"]
  <1>1. scenario.faults \in [FaultKind -> Nat]
    BY ScenarioType DEF Typed
  <1>. QED BY <1>1 DEF Typed, Fault, NoFault, FaultKind

(***************************************************************************)
(* A pass of the AppBackup controller, one name at a time.                 *)
(***************************************************************************)
Fresh == [phase |-> "New", created |-> now, start |-> now, doomed |-> FALSE]
Gone == [NoBackup EXCEPT !.phase = "gone"]
RecordOf(b) == [phase |-> b.phase, managed |-> "InProgress", start |-> b.start]

Lost == lostWrites > 0

MadeAt(r, h, r2, h2) ==
  /\ r2 = Fresh \/ (r.phase \notin Absent /\ r2 = r)
  /\ h2 = RecordOf(r2) \/ (Lost /\ h2 = h)

RemovedAt(r, h, r2, h2) ==
  /\ r.phase \notin Absent /\ r2 = Gone
  /\ h2 = h \/ (r.phase \in Running /\ h2 = [h EXCEPT !.managed = "Canceled"])

DeletedAt(r, h, r2, h2) ==
  /\ r2 \in Backups /\ r2.phase = r.phase /\ r2.start = r.start
  /\ h2 = h \/ h2 = NoRecord

TimedOutRecord(r, h) ==
  [phase |-> "TimeoutFailed", managed |-> "Failed", start |-> IF h.start # None THEN h.start ELSE r.start]

ObservedRecord(r, h) ==
  [phase |-> r.phase, start |-> r.start,
   managed |-> IF h.managed = "Canceled" THEN "Canceled" ELSE getManagedStatus(r.phase)]

ObservedAt(r, h, r2, h2) ==
  /\ r2 = r \/ (r.phase \in Running /\ r2 = Gone)
  /\ \/ h2 = h \/ (r.phase \in Absent /\ h2 = NoRecord)
     \/ r.phase \in Running /\ h2 = TimedOutRecord(r, h)
     \/ r.phase \notin Absent /\ h2 = ObservedRecord(r, h)

PassAt(n) ==
  LET r == Remote[n]
      h == history[n]
      r2 == velero'[ab.cluster][n]
      h2 == history'[n]
  IN \/ r2 = r /\ h2 = h
     \/ n <= now /\ MadeAt(r, h, r2, h2)
     \/ RemovedAt(r, h, r2, h2)
     \/ DeletedAt(r, h, r2, h2)
     \/ ObservedAt(r, h, r2, h2)

FaultsLeft ==
  /\ faults' \in [FaultKind -> Nat]
  /\ \A g \in FaultKind : faults'[g] <= scenario.faults[g]

PassFrame ==
  /\ ab' \in AppBackups
  /\ ab'.exists = ab.exists /\ ab'.cluster = ab.cluster /\ ab'.action = ab.action
  /\ velero' \in [Cluster -> [Time -> Backups]]
  /\ \A c \in Cluster \ {ab.cluster} : velero'[c] = velero[c]
  /\ history' \in [Time -> Records]
  /\ FaultsLeft /\ faults'["flip"] = faults["flip"]

\* The two writes at the end.
LEMMA PersistResult ==
  ASSUME Typed, NEW a, NEW h, Persist(a, h)
  PROVE  /\ \/ ab' = a /\ history' = h
            \/ Lost /\ ab' = ab /\ history' = history
         /\ FaultsLeft /\ faults'["flip"] = faults["flip"]
  <1>1. /\ "lostWrite" \in FaultKind /\ "lostWrite" # "flip" /\ (Fault("lostWrite") \/ NoFault)
    BY DEF Persist, FaultKind
  <1>2. /\ FaultsLeft /\ faults'["flip"] = faults["flip"]
        /\ Fault("lostWrite") => scenario.faults["lostWrite"] > 0
    BY <1>1, FaultCount DEF FaultsLeft
  <1>. QED BY <1>2 DEF Persist, Lost, lostWrites

LEMMA CallFails ==
  ASSUME Typed, Fault("callError")
  PROVE  FaultsLeft /\ faults'["flip"] = faults["flip"]
  <1>1. "callError" \in FaultKind /\ "callError" # "flip"
    BY DEF FaultKind
  <1>. QED BY <1>1, FaultCount DEF FaultsLeft

LEMMA NothingFails ==
  ASSUME Typed, NoFault
  PROVE  FaultsLeft /\ faults'["flip"] = faults["flip"]
  <1>1. "callError" \in FaultKind /\ "callError" # "flip"
    BY DEF FaultKind
  <1>. QED BY <1>1, FaultCount DEF FaultsLeft

\* A backup of this name is there after the call, and its record has its start.
LEMMA CreateResult ==
  ASSUME NEW remote \in [Time -> Backups], NEW n \in Time, now \in Time, history \in [Time -> Records]
  PROVE  /\ CreateVeleroBackup(remote, n) \in [Time -> Backups]
         /\ \A m \in Time \ {n} : CreateVeleroBackup(remote, n)[m] = remote[m]
         /\ LET made == CreateVeleroBackup(remote, n)[n]
            IN /\ made = IF remote[n].phase \in Absent THEN Fresh ELSE remote[n]
               /\ made.phase \notin Absent
               /\ Recorded(remote, n) = [history EXCEPT ![n] = RecordOf(made)]
         /\ Recorded(remote, n) \in [Time -> Records]
  <1>1. Fresh \in Backups /\ Fresh.phase = "New"
    BY Numbers DEF Fresh, Backups
  <1>2. CreateVeleroBackup(remote, n)
          = [remote EXCEPT ![n] = IF remote[n].phase \in Absent THEN Fresh ELSE remote[n]]
    BY DEF CreateVeleroBackup, Fresh
  <1>3. /\ CreateVeleroBackup(remote, n) \in [Time -> Backups]
        /\ CreateVeleroBackup(remote, n)[n] = IF remote[n].phase \in Absent THEN Fresh ELSE remote[n]
        /\ CreateVeleroBackup(remote, n)[n].phase \notin Absent
    BY <1>1, <1>2 DEF Absent
  <1>4. Recorded(remote, n) = [history EXCEPT ![n] = RecordOf(CreateVeleroBackup(remote, n)[n])]
    BY DEF Recorded, RecordOf
  <1>5. RecordOf(CreateVeleroBackup(remote, n)[n]) \in Records
    BY <1>3 DEF RecordOf, Backups, Records, Absent
  <1>. QED BY <1>2, <1>3, <1>4, <1>5

\* What a request for the backup of second a does.
MakesAt(a, newAb) ==
  /\ velero'[ab.cluster][a] = IF Remote[a].phase \in Absent THEN Fresh ELSE Remote[a]
  /\ \A n \in Time \ {a} : velero'[ab.cluster][n] = Remote[n]
  /\ \/ Lost /\ ab' = ab /\ history' = history
     \/ /\ ab' = newAb
        /\ history'[a] = RecordOf(velero'[ab.cluster][a])
        /\ \A n \in Time \ {a} : history'[n] = history[n]

LEMMA MakeResult ==
  ASSUME Typed, NEW a \in Time, a <= now, NEW newAb \in AppBackups,
         newAb.exists = ab.exists, newAb.cluster = ab.cluster, newAb.action = ab.action,
         velero' = [velero EXCEPT ![ab.cluster] = CreateVeleroBackup(@, a)],
         Persist(newAb, Recorded(Remote, a))
  PROVE  MakesAt(a, newAb) /\ PassFrame /\ \A n \in Time : PassAt(n)
  <1>1. ab \in AppBackups /\ ab.cluster \in Cluster /\ Remote \in [Time -> Backups] /\ now \in Time
        /\ history \in [Time -> Records]
    BY DEF Typed, AppBackups, Remote
  <1>2. velero' = [velero EXCEPT ![ab.cluster] = CreateVeleroBackup(Remote, a)]
    BY DEF Remote
  <1> DEFINE made == CreateVeleroBackup(Remote, a)
  <1>3. /\ made \in [Time -> Backups]
        /\ \A m \in Time \ {a} : made[m] = Remote[m]
        /\ made[a] = IF Remote[a].phase \in Absent THEN Fresh ELSE Remote[a]
        /\ made[a].phase \notin Absent
        /\ Recorded(Remote, a) = [history EXCEPT ![a] = RecordOf(made[a])]
        /\ Recorded(Remote, a) \in [Time -> Records]
    BY <1>1, CreateResult
  <1> HIDE DEF made
  <1>4. /\ velero' \in [Cluster -> [Time -> Backups]] /\ velero'[ab.cluster] = made
        /\ \A c \in Cluster \ {ab.cluster} : velero'[c] = velero[c]
    BY <1>1, <1>2, <1>3 DEF Typed, made
  <1>5. /\ \/ ab' = newAb /\ history' = Recorded(Remote, a)
           \/ Lost /\ ab' = ab /\ history' = history
        /\ FaultsLeft /\ faults'["flip"] = faults["flip"]
    BY PersistResult
  <1>6. MakesAt(a, newAb)
    BY <1>1, <1>3, <1>4, <1>5 DEF MakesAt
  <1>7. PassFrame
    BY <1>1, <1>3, <1>4, <1>5 DEF PassFrame
  <1>8. ASSUME NEW n \in Time  PROVE PassAt(n)
    <2>1. CASE n = a
      BY <1>3, <1>4, <1>6, <2>1 DEF PassAt, MakesAt, MadeAt
    <2>2. CASE n # a
      BY <1>4, <1>6, <2>2 DEF PassAt, MakesAt
    <2>. QED BY <2>1, <2>2
  <1>. QED BY <1>6, <1>7, <1>8

\* A pass that only changes the AppBackup's own phase and place in the queue.
LEMMA IdlePass ==
  ASSUME Typed, ab' \in AppBackups, ab'.exists = ab.exists, ab'.cluster = ab.cluster,
         ab'.action = ab.action, UNCHANGED <<history, velero>>,
         FaultsLeft, faults'["flip"] = faults["flip"]
  PROVE  PassFrame /\ \A n \in Time : PassAt(n)
  BY DEF Typed, PassFrame, PassAt, Remote, AppBackups

LEMMA HandledType ==
  ASSUME Typed
  PROVE  /\ Handled \in AppBackups
         /\ Handled.exists = ab.exists /\ Handled.cluster = ab.cluster /\ Handled.action = ab.action
         /\ Handled.last = ab.action.at /\ Handled.initial = ab.initial
  BY DEF Typed, AppBackups, Handled, Requests

\* Where the target of a Retry or Cancel can be.
LEMMA TargetTime ==
  ASSUME Typed, InTime, ab.exists, NEW n \in Time \cup {None}, IsTarget(n)
  PROVE  n <= now
  <1>1. ab.action.target <= now /\ None = 0 /\ now \in Nat /\ ab.cluster \in Cluster
    BY Numbers DEF Typed, InTime, AppBackups
  <1>2. ASSUME n \in ListAppBackups PROVE n <= now
    <2>1. n \in Time /\ Listed(ab.cluster, n)
      BY <1>2 DEF ListAppBackups, Listed, Remote
    <2>2. n <= velero[ab.cluster][n].start /\ velero[ab.cluster][n].start <= now
      BY <1>1, <2>1 DEF InTime
    <2>3. velero[ab.cluster][n].start \in Nat /\ n \in Nat
      <3>1. velero[ab.cluster][n] \in Backups
        BY <1>1, <2>1 DEF Typed
      <3>. QED BY <2>1, <3>1, Numbers DEF Backups
    <2>. QED BY <1>1, <2>2, <2>3
  <1>. QED BY <1>1, <1>2 DEF IsTarget, latestBackup

(***************************************************************************)
(* The passes of the AppBackup controller.                                 *)
(***************************************************************************)
LEMMA ActionTime ==
  ASSUME Typed, InTime, ab.exists
  PROVE  /\ ab.action.at \in Time /\ ab.action.at <= now /\ ab.action.at # None
         /\ now \in Time /\ ab \in AppBackups /\ ab.cluster \in Cluster
  BY Numbers DEF Typed, InTime, AppBackups, Time

LEMMA InitialPass ==
  ASSUME Typed, InTime, ab.exists, InitialBackup
  PROVE  /\ PassFrame /\ \A n \in Time : PassAt(n)
         /\ \/ MakesAt(ab.action.at, [ab EXCEPT !.initial = TRUE])
            \/ UNCHANGED <<history, velero>> /\ ab' = [ab EXCEPT !.phase = "Failed"]
  <1>1. /\ ab.action.at \in Time /\ ab.action.at <= now
        /\ ab \in AppBackups /\ ab.cluster \in Cluster
    BY ActionTime
  <1> DEFINE newAb == [ab EXCEPT !.initial = TRUE]
  <1>2. /\ newAb \in AppBackups
        /\ newAb.exists = ab.exists /\ newAb.cluster = ab.cluster /\ newAb.action = ab.action
    BY <1>1 DEF AppBackups
  <1>3. CASE /\ velero' = [velero EXCEPT ![ab.cluster] = CreateVeleroBackup(@, ab.action.at)]
             /\ Persist(newAb, Recorded(Remote, ab.action.at))
    <2> HIDE DEF newAb
    <2>. QED BY <1>1, <1>2, <1>3, MakeResult DEF newAb
  <1>4. CASE /\ Fault("callError") /\ ab' = [ab EXCEPT !.phase = "Failed"]
             /\ UNCHANGED <<history, velero>>
    <2>1. /\ ab' \in AppBackups
          /\ ab'.exists = ab.exists /\ ab'.cluster = ab.cluster /\ ab'.action = ab.action
      BY <1>1, <1>4 DEF AppBackups
    <2>. QED BY <1>4, <2>1, CallFails, IdlePass
  <1>. QED BY <1>3, <1>4 DEF InitialBackup

LEMMA BackupPass ==
  ASSUME Typed, InTime, ab.exists, RunBackup
  PROVE  /\ PassFrame /\ \A n \in Time : PassAt(n)
         /\ MakesAt(ab.action.at, Handled)
  BY ActionTime, HandledType, MakeResult DEF RunBackup

LEMMA RetryPass ==
  ASSUME Typed, InTime, ab.exists, RunRetry
  PROVE  PassFrame /\ \A n \in Time : PassAt(n)
  <1>1. /\ ab.action.at \in Time /\ ab.action.at <= now
        /\ ab \in AppBackups /\ ab.cluster \in Cluster /\ now \in Time
        /\ Remote \in [Time -> Backups] /\ history \in [Time -> Records]
    BY ActionTime DEF Typed, Remote
  <1>2. PICK old \in Time \cup {None} :
          LET without == IF old \in ListAppBackups
                         THEN [Remote EXCEPT ![old] = [NoBackup EXCEPT !.phase = "gone"]]
                         ELSE Remote
              new == IF old # None THEN old ELSE ab.action.at
          IN /\ IsTarget(old)
             /\ \/ /\ velero' = [velero EXCEPT ![ab.cluster] = CreateVeleroBackup(without, new)]
                   /\ Persist(Handled, Recorded(without, new))
                \/ /\ Fault("callError")
                   /\ velero' = [velero EXCEPT ![ab.cluster] = without]
                   /\ UNCHANGED <<ab, history>>
    BY DEF RunRetry
  <1> DEFINE without == IF old \in ListAppBackups THEN [Remote EXCEPT ![old] = Gone] ELSE Remote
             new == IF old # None THEN old ELSE ab.action.at
             made == CreateVeleroBackup(without, new)
  <1>3. new \in Time /\ new <= now
    BY <1>1, <1>2, TargetTime
  <1>4. Gone \in Backups /\ Gone.phase = "gone"
    BY Numbers DEF Gone, Backups, NoBackup
  <1>5. /\ without \in [Time -> Backups]
        /\ \A n \in Time : without[n] = IF n = old /\ n \in ListAppBackups THEN Gone ELSE Remote[n]
    BY <1>1, <1>4 DEF ListAppBackups
  <1>6. CASE /\ velero' = [velero EXCEPT ![ab.cluster] = made]
             /\ Persist(Handled, Recorded(without, new))
    <2> HIDE DEF without, new
    <2>1. /\ made \in [Time -> Backups]
          /\ \A m \in Time \ {new} : made[m] = without[m]
          /\ made[new] = IF without[new].phase \in Absent THEN Fresh ELSE without[new]
          /\ made[new].phase \notin Absent
          /\ Recorded(without, new) = [history EXCEPT ![new] = RecordOf(made[new])]
          /\ Recorded(without, new) \in [Time -> Records]
      BY <1>1, <1>3, <1>5, CreateResult
    <2> HIDE DEF made
    <2>2. /\ velero' \in [Cluster -> [Time -> Backups]] /\ velero'[ab.cluster] = made
          /\ \A c \in Cluster \ {ab.cluster} : velero'[c] = velero[c]
      BY <1>1, <1>6, <2>1 DEF Typed
    <2>3. /\ \/ ab' = Handled /\ history' = Recorded(without, new)
             \/ Lost /\ ab' = ab /\ history' = history
          /\ FaultsLeft /\ faults'["flip"] = faults["flip"]
      BY <1>6, PersistResult
    <2>4. PassFrame
      BY <1>1, <2>1, <2>2, <2>3, HandledType DEF PassFrame
    <2>5. ASSUME NEW n \in Time  PROVE PassAt(n)
      <3>1. CASE n = new
        <4>1. velero'[ab.cluster][n] = Fresh \/ (Remote[n].phase \notin Absent /\ velero'[ab.cluster][n] = Remote[n])
          BY <1>4, <1>5, <2>1, <2>2, <3>1 DEF Absent
        <4>2. history'[n] = RecordOf(velero'[ab.cluster][n]) \/ (Lost /\ history'[n] = history[n])
          BY <1>1, <2>1, <2>2, <2>3, <3>1
        <4>. QED BY <1>3, <3>1, <4>1, <4>2 DEF PassAt, MadeAt
      <3>2. CASE n # new
        <4>1. old # None => n # old
          BY <3>2 DEF new
        <4>2. velero'[ab.cluster][n] = Remote[n]
          BY <1>5, <2>1, <2>2, <3>2, <4>1, Numbers
        <4>3. history'[n] = history[n]
          BY <1>1, <2>1, <2>3, <3>2
        <4>. QED BY <4>2, <4>3 DEF PassAt
      <3>. QED BY <3>1, <3>2
    <2>. QED BY <2>4, <2>5
  <1>7. CASE /\ Fault("callError")
             /\ velero' = [velero EXCEPT ![ab.cluster] = without]
             /\ UNCHANGED <<ab, history>>
    <2>1. /\ velero' \in [Cluster -> [Time -> Backups]] /\ velero'[ab.cluster] = without
          /\ \A c \in Cluster \ {ab.cluster} : velero'[c] = velero[c]
      <3> HIDE DEF without
      <3>. QED BY <1>1, <1>5, <1>7 DEF Typed
    <2>2. PassFrame
      BY <1>1, <1>7, <2>1, CallFails DEF PassFrame
    <2>3. ASSUME NEW n \in Time  PROVE PassAt(n)
      BY <1>5, <1>7, <2>1, Zenon DEF PassAt, RemovedAt, ListAppBackups
    <2>. QED BY <2>2, <2>3
  <1>. QED BY <1>2, <1>6, <1>7 DEF Gone

LEMMA CancelPass ==
  ASSUME Typed, InTime, ab.exists, RunCancel
  PROVE  PassFrame /\ \A n \in Time : PassAt(n)
  <1>1. /\ ab \in AppBackups /\ ab.cluster \in Cluster
        /\ Remote \in [Time -> Backups] /\ history \in [Time -> Records]
    BY ActionTime DEF Typed, Remote
  <1>2. Gone \in Backups /\ Gone.phase = "gone"
    BY Numbers DEF Gone, Backups, NoBackup
  <1>3. PICK x \in Time \cup {None} :
          \/ /\ Cancellable(x)
             /\ velero' = [velero EXCEPT ![ab.cluster][x] = Gone]
             /\ Persist(Handled, [history EXCEPT ![x].managed = "Canceled"])
          \/ /\ ~Cancellable(x)
             /\ UNCHANGED velero
             /\ Persist(Handled, history)
    BY DEF RunCancel, Gone
  <1>4. CASE /\ Cancellable(x)
             /\ velero' = [velero EXCEPT ![ab.cluster][x] = Gone]
             /\ Persist(Handled, [history EXCEPT ![x].managed = "Canceled"])
    <2>1. x \in Time /\ Remote[x].phase \in Running
      BY <1>4 DEF Cancellable, ListAppBackups, Running, UnderWay
    <2>2. /\ velero' \in [Cluster -> [Time -> Backups]]
          /\ velero'[ab.cluster] = [Remote EXCEPT ![x] = Gone]
          /\ \A c \in Cluster \ {ab.cluster} : velero'[c] = velero[c]
      BY <1>1, <1>2, <1>4, <2>1 DEF Typed, Remote
    <2>3. [history EXCEPT ![x].managed = "Canceled"] \in [Time -> Records]
      BY <1>1, <2>1 DEF Records
    <2>4. /\ \/ ab' = Handled /\ history' = [history EXCEPT ![x].managed = "Canceled"]
             \/ Lost /\ ab' = ab /\ history' = history
          /\ FaultsLeft /\ faults'["flip"] = faults["flip"]
      BY <1>4, PersistResult
    <2>5. PassFrame
      BY <1>1, <2>2, <2>3, <2>4, HandledType DEF PassFrame
    <2>6. ASSUME NEW n \in Time  PROVE PassAt(n)
      <3>1. CASE n = x
        <4>1. velero'[ab.cluster][n] = Gone
          BY <1>1, <2>1, <2>2, <3>1
        <4>2. history'[n] = history[n] \/ history'[n] = [history[n] EXCEPT !.managed = "Canceled"]
          BY <1>1, <2>1, <2>4, <3>1
        <4>. QED BY <2>1, <3>1, <4>1, <4>2 DEF PassAt, RemovedAt, Running, UnderWay, Absent
      <3>2. CASE n # x
        <4>1. velero'[ab.cluster][n] = Remote[n]
          BY <1>1, <2>1, <2>2, <3>2
        <4>2. history'[n] = history[n]
          BY <1>1, <2>1, <2>4, <3>2
        <4>. QED BY <4>1, <4>2 DEF PassAt
      <3>. QED BY <3>1, <3>2
    <2>. QED BY <2>5, <2>6
  <1>5. CASE ~Cancellable(x) /\ UNCHANGED velero /\ Persist(Handled, history)
    <2>1. /\ ab' = Handled \/ ab' = ab
          /\ history' = history
          /\ FaultsLeft /\ faults'["flip"] = faults["flip"]
      BY <1>5, PersistResult
    <2>. QED BY <1>1, <1>5, <2>1, HandledType, IdlePass
  <1>. QED BY <1>3, <1>4, <1>5

LEMMA DeletePass ==
  ASSUME Typed, InTime, ab.exists, RunDelete
  PROVE  PassFrame /\ \A n \in Time : PassAt(n)
  <1>1. /\ ab \in AppBackups /\ ab.cluster \in Cluster /\ ab.action.target \in Stamps
        /\ Remote \in [Time -> Backups] /\ history \in [Time -> Records]
    BY ActionTime DEF Typed, Remote, AppBackups, Requests
  <1> DEFINE x == ab.action.target
  <1>2. x = None \/ x \in Time
    BY <1>1, Numbers DEF Stamps, Time
  <1>3. ASSUME UNCHANGED velero, NEW a \in {Handled, [Handled EXCEPT !.queued = FALSE]}, Persist(a, history)
        PROVE  PassFrame /\ \A n \in Time : PassAt(n)
    <2>1. /\ ab' \in {a, ab}
          /\ history' = history
          /\ FaultsLeft /\ faults'["flip"] = faults["flip"]
      BY <1>3, PersistResult
    <2>2. /\ a \in AppBackups
          /\ a.exists = ab.exists /\ a.cluster = ab.cluster /\ a.action = ab.action
      BY <1>3, HandledType DEF AppBackups
    <2>. QED BY <1>1, <1>3, <2>1, <2>2, IdlePass
  <1>4. CASE /\ x \in Time
             /\ velero' = [velero EXCEPT ![ab.cluster][x].doomed = x \in ListAppBackups]
             /\ Persist([Handled EXCEPT !.initial = TRUE], [history EXCEPT ![x] = NoRecord])
    <2> DEFINE y == [Remote[x] EXCEPT !.doomed = x \in ListAppBackups]
               newAb == [Handled EXCEPT !.initial = TRUE]
    <2>1. Remote[x] \in Backups /\ y \in Backups /\ y.phase = Remote[x].phase /\ y.start = Remote[x].start
      <3>1. \A b \in Backups, d \in BOOLEAN :
              LET e == [b EXCEPT !.doomed = d] IN e \in Backups /\ e.phase = b.phase /\ e.start = b.start
        BY DEF Backups
      <3>2. (x \in ListAppBackups) \in BOOLEAN
        OBVIOUS
      <3>. QED BY <1>1, <1>4, <3>1, <3>2, Zenon
    <2>2. /\ velero' \in [Cluster -> [Time -> Backups]]
          /\ velero'[ab.cluster] = [Remote EXCEPT ![x] = y]
          /\ \A c \in Cluster \ {ab.cluster} : velero'[c] = velero[c]
      <3>1. velero' = [velero EXCEPT ![ab.cluster] = [Remote EXCEPT ![x] = y]]
        BY <1>4 DEF Remote
      <3>2. x \in Time /\ velero \in [Cluster -> [Time -> Backups]]
        BY <1>4 DEF Typed
      <3> HIDE DEF x, y
      <3>3. [Remote EXCEPT ![x] = y] \in [Time -> Backups]
        BY <1>1, <2>1, <3>2
      <3>. QED BY <1>1, <3>1, <3>2, <3>3
    <2>3. [history EXCEPT ![x] = NoRecord] \in [Time -> Records]
      BY <1>1, Numbers DEF Records, NoRecord
    <2>4. /\ newAb \in AppBackups
          /\ newAb.exists = ab.exists /\ newAb.cluster = ab.cluster /\ newAb.action = ab.action
      BY HandledType DEF AppBackups
    <2> HIDE DEF y, newAb
    <2>5. /\ \/ ab' = newAb /\ history' = [history EXCEPT ![x] = NoRecord]
             \/ Lost /\ ab' = ab /\ history' = history
          /\ FaultsLeft /\ faults'["flip"] = faults["flip"]
      BY <1>4, PersistResult DEF newAb
    <2>6. PassFrame
      BY <1>1, <2>2, <2>3, <2>4, <2>5 DEF PassFrame
    <2>7. ASSUME NEW n \in Time  PROVE PassAt(n)
      <3>1. CASE n = x
        <4>1. velero'[ab.cluster][n] = y
          BY <1>1, <1>4, <2>2, <3>1
        <4>2. history'[n] = history[n] \/ history'[n] = NoRecord
          BY <1>1, <1>4, <2>5, <3>1
        <4>. QED BY <2>1, <3>1, <4>1, <4>2 DEF PassAt, DeletedAt
      <3>2. CASE n # x
        <4>1. velero'[ab.cluster][n] = Remote[n]
          BY <1>1, <1>4, <2>2, <3>2
        <4>2. history'[n] = history[n]
          BY <1>1, <1>4, <2>5, <3>2
        <4>. QED BY <4>1, <4>2 DEF PassAt
      <3>. QED BY <3>1, <3>2
    <2>. QED BY <2>6, <2>7
  <1>. QED BY <1>2, <1>3, <1>4 DEF RunDelete

\* A pass without an action: what it does to each backup and record.
ObservesAt(n) == ObservedAt(Remote[n], history[n], velero'[ab.cluster][n], history'[n])

LEMMA ObservePass ==
  ASSUME Typed, InTime, ab.exists, NEW expired, NEW terminated, Observe(expired, terminated)
  PROVE  /\ PassFrame /\ \A n \in Time : PassAt(n) /\ ObservesAt(n)
         /\ \/ Lost /\ ab' = ab /\ history' = history
            \/ /\ ab' = [ab EXCEPT !.initial = ab'.initial]
               /\ ab.initial => ab'.initial
               /\ \A n \in Time : history'[n] # NoRecord => ab'.initial
         /\ ~shouldRun
  <1>1. /\ ab \in AppBackups /\ ab.cluster \in Cluster
        /\ Remote \in [Time -> Backups] /\ history \in [Time -> Records]
    BY ActionTime DEF Typed, Remote
  <1>2. Gone \in Backups /\ Gone.phase = "gone"
    BY Numbers DEF Gone, Backups, NoBackup
  <1> DEFINE left == [n \in Time |-> IF n \in terminated THEN Gone ELSE Remote[n]]
             marked == markBackupTimeoutFailed(expired)
             records == syncStatus(marked)
             seen == ListAppBackups # {} \/ \E n \in Time : records[n] # NoRecord
             newAb == [ab EXCEPT !.initial = @ \/ seen]
  <1>3. \A n \in expired : n \in Time /\ n \in ListAppBackups /\ Remote[n].phase \in Running
    BY DEF Observe, ListAppBackups
  <1>4. /\ left \in [Time -> Backups]
        /\ velero' \in [Cluster -> [Time -> Backups]] /\ velero'[ab.cluster] = left
        /\ \A c \in Cluster \ {ab.cluster} : velero'[c] = velero[c]
    <2>1. left \in [Time -> Backups]
      BY <1>1, <1>2
    <2>2. velero' = [velero EXCEPT ![ab.cluster] = left]
      BY DEF Observe, Gone, Remote
    <2> HIDE DEF left
    <2>. QED BY <1>1, <2>1, <2>2 DEF Typed
  <1>5. \A n \in Time : marked[n] = IF n \in expired THEN TimedOutRecord(Remote[n], history[n]) ELSE history[n]
    BY DEF markBackupTimeoutFailed, TimedOutRecord
  <1>6. ASSUME NEW n \in Time
        PROVE  /\ records[n] \in Records
               /\ \/ records[n] = history[n]
                  \/ Remote[n].phase \in Absent /\ records[n] = NoRecord
                  \/ Remote[n].phase \in Running /\ records[n] = TimedOutRecord(Remote[n], history[n])
                  \/ Remote[n].phase \notin Absent /\ records[n] = ObservedRecord(Remote[n], history[n])
    <2>1. /\ history[n] \in Records /\ Remote[n] \in Backups
          /\ n \in ListAppBackups <=> Remote[n].phase \notin Absent
      BY <1>1 DEF ListAppBackups
    <2>2. /\ TimedOutRecord(Remote[n], history[n]) \in Records
          /\ TimedOutRecord(Remote[n], history[n]).phase = "TimeoutFailed"
          /\ TimedOutRecord(Remote[n], history[n]).managed = "Failed"
          /\ NoRecord \in Records
      BY <2>1, Numbers DEF TimedOutRecord, Records, Backups, NoRecord
    <2>3. Remote[n].phase \notin Absent => ObservedRecord(Remote[n], history[n]) \in Records
      BY <2>1 DEF ObservedRecord, Records, Backups, Absent, getManagedStatus, Running, UnderWay
    <2> HIDE DEF marked
    <2>4. records[n] =
            LET rec == marked[n]
                b == Remote[n]
                keptFailed == rec.phase = "TimeoutFailed" /\ rec.managed = "Failed" /\ b.phase \in Running
            IN CASE n \in ListAppBackups /\ keptFailed -> rec
                 [] n \in ListAppBackups /\ ~keptFailed ->
                      [phase |-> b.phase, start |-> b.start,
                       managed |-> IF rec.managed = "Canceled" THEN "Canceled" ELSE getManagedStatus(b.phase)]
                 [] n \notin ListAppBackups ->
                      IF rec.managed \in {"Canceled", "Failed"} THEN rec ELSE NoRecord
      BY DEF syncStatus
    <2>5. CASE n \in expired
      <3>1. marked[n] = TimedOutRecord(Remote[n], history[n]) /\ n \in ListAppBackups /\ Remote[n].phase \in Running
        BY <1>3, <1>5, <2>5
      <3>. QED BY <2>2, <2>4, <3>1
    <2>6. CASE n \notin expired
      <3>1. marked[n] = history[n]
        BY <1>5, <2>6
      <3>2. CASE n \in ListAppBackups
        BY <2>1, <2>3, <2>4, <3>1, <3>2 DEF ObservedRecord
      <3>3. CASE n \notin ListAppBackups
        BY <2>1, <2>2, <2>4, <3>1, <3>3
      <3>. QED BY <3>2, <3>3
    <2>. QED BY <2>5, <2>6
  <1>7. records \in [Time -> Records]
    BY <1>6 DEF syncStatus
  <1>8. newAb \in AppBackups /\ newAb = [ab EXCEPT !.initial = newAb.initial]
        /\ newAb.initial = (ab.initial \/ seen)
    <2> HIDE DEF seen
    <2>1. newAb.initial = (ab.initial \/ seen)
      BY <1>1 DEF AppBackups
    <2>. QED BY <1>1, <2>1 DEF AppBackups
  <1>9. Persist(newAb, records)
    BY DEF Observe
  <1> HIDE DEF newAb, marked, records, left
  <1>10. /\ \/ ab' = newAb /\ history' = records
            \/ Lost /\ ab' = ab /\ history' = history
         /\ FaultsLeft /\ faults'["flip"] = faults["flip"]
    BY <1>9, PersistResult
  <1>11. newAb.exists = ab.exists /\ newAb.cluster = ab.cluster /\ newAb.action = ab.action
    BY <1>1, <1>8 DEF AppBackups
  <1>12. PassFrame
    BY <1>1, <1>4, <1>7, <1>8, <1>10, <1>11 DEF PassFrame
  <1>13. ASSUME NEW n \in Time  PROVE ObservesAt(n)
    <2>1. velero'[ab.cluster][n] = IF n \in terminated THEN Gone ELSE Remote[n]
      BY <1>4 DEF left
    <2>2. n \in terminated => Remote[n].phase \in Running
      BY <1>3 DEF Observe
    <2>3. history'[n] = history[n] \/ history'[n] = records[n]
      BY <1>10
    <2>. QED BY <1>6, <2>1, <2>2, <2>3, Zenon DEF ObservesAt, ObservedAt
  <1>14. \A n \in Time : PassAt(n)
    BY <1>13 DEF PassAt, ObservesAt
  <1>15. ~shouldRun
    BY DEF Observe
  <1>. QED BY <1>8, <1>10, <1>12, <1>13, <1>14, <1>15, Zenon DEF seen

\* The passes of an AppBackup whose request is the sync's.
Observing ==
  /\ ~shouldRun /\ \A n \in Time : ObservesAt(n)
  /\ \/ Lost /\ ab' = ab /\ history' = history
     \/ /\ ab' = [ab EXCEPT !.initial = ab'.initial]
        /\ ab.initial => ab'.initial
        /\ \A n \in Time : history'[n] # NoRecord => ab'.initial

PlainPass ==
  \/ UNCHANGED <<history, velero>> /\ ab'.last = ab.last /\ ab'.initial = ab.initial
  \/ NeedsInitialBackup /\ MakesAt(ab.action.at, [ab EXCEPT !.initial = TRUE])
  \/ ~NeedsInitialBackup /\ shouldRun /\ MakesAt(ab.action.at, Handled)
  \/ Observing

LEMMA ReadyPass ==
  ASSUME Typed, InTime, ab.exists, handleReady
  PROVE  /\ PassFrame /\ \A n \in Time : PassAt(n)
         /\ ab.action.type = "Backup" => PlainPass
  <1>1. ab \in AppBackups /\ ab.action.type \in {"Backup", "Retry", "Cancel", "Delete"}
    BY DEF Typed, AppBackups, Requests
  <1>2. CASE ClusterUnreachable
    <2>1. /\ ab' \in AppBackups
          /\ ab'.exists = ab.exists /\ ab'.cluster = ab.cluster /\ ab'.action = ab.action
          /\ ab'.last = ab.last /\ ab'.initial = ab.initial
      BY <1>1, <1>2 DEF ClusterUnreachable, AppBackups
    <2>2. FaultsLeft /\ faults'["flip"] = faults["flip"] /\ UNCHANGED <<history, velero>>
      BY <1>2, CallFails DEF ClusterUnreachable
    <2>. QED BY <2>1, <2>2, IdlePass DEF PlainPass
  <1>3. CASE InitialBackup
    <2>1. ab' = [ab EXCEPT !.phase = "Failed"] => ab'.last = ab.last /\ ab'.initial = ab.initial
      BY <1>1 DEF AppBackups
    <2>2. NeedsInitialBackup
      BY <1>3 DEF InitialBackup
    <2>. QED BY <1>3, <2>1, <2>2, InitialPass DEF PlainPass
  <1>4. CASE RunAction
    <2>1. ~NeedsInitialBackup /\ shouldRun
      BY <1>4 DEF RunAction
    <2>2. CASE ab.action.type = "Backup"
      <3>1. RunBackup
        BY <1>4, <2>2 DEF RunAction
      <3>. QED BY <2>1, <3>1, BackupPass DEF PlainPass
    <2>3. CASE ab.action.type = "Retry"
      BY <1>4, <2>3, RetryPass DEF RunAction
    <2>4. CASE ab.action.type = "Cancel"
      BY <1>4, <2>4, CancelPass DEF RunAction
    <2>5. CASE ab.action.type = "Delete"
      BY <1>4, <2>5, DeletePass DEF RunAction
    <2>. QED BY <1>1, <2>2, <2>3, <2>4, <2>5
  <1>5. ASSUME NEW expired, NEW terminated, Observe(expired, terminated)
        PROVE  PassFrame /\ (\A n \in Time : PassAt(n)) /\ PlainPass
    BY <1>5, ObservePass DEF PlainPass, Observing
  <1>6. CASE ObserveOnly
    BY <1>5, <1>6 DEF ObserveOnly
  <1>7. CASE TimeoutBackups
    BY <1>5, <1>7 DEF TimeoutBackups
  <1>. QED BY <1>2, <1>3, <1>4, <1>6, <1>7 DEF handleReady

LEMMA Pass ==
  ASSUME Typed, InTime, ReconcileAppBackup
  PROVE  /\ ab.exists /\ now' = now /\ PassFrame /\ \A n \in Time : PassAt(n)
         /\ ab.action.type = "Backup" => PlainPass
  <1>1. ab.exists /\ now' = now /\ ab \in AppBackups
    BY DEF ReconcileAppBackup, Typed
  <1>2. CASE handlePending
    <2>1. /\ ab' \in AppBackups
          /\ ab'.exists = ab.exists /\ ab'.cluster = ab.cluster /\ ab'.action = ab.action
          /\ ab'.last = ab.last /\ ab'.initial = ab.initial
      BY <1>1, <1>2 DEF handlePending, AppBackups
    <2>2. FaultsLeft /\ faults'["flip"] = faults["flip"] /\ UNCHANGED <<history, velero>>
      BY <1>2, CallFails, NothingFails DEF handlePending
    <2>. QED BY <1>1, <2>1, <2>2, IdlePass DEF PlainPass
  <1>3. CASE handleFailed
    <2>1. /\ ab' \in AppBackups
          /\ ab'.exists = ab.exists /\ ab'.cluster = ab.cluster /\ ab'.action = ab.action
          /\ ab'.last = ab.last /\ ab'.initial = ab.initial
      BY <1>1, <1>3 DEF handleFailed, AppBackups
    <2>2. FaultsLeft /\ faults'["flip"] = faults["flip"] /\ UNCHANGED <<history, velero>>
      BY <1>3, NothingFails DEF handleFailed, NoFault
    <2>. QED BY <1>1, <2>1, <2>2, IdlePass DEF PlainPass
  <1>4. CASE handleReady
    BY <1>1, <1>4, ReadyPass
  <1>. QED BY <1>2, <1>3, <1>4 DEF ReconcileAppBackup

(***************************************************************************)
(* A step of Velero, one backup at a time.                                 *)
(***************************************************************************)
VeleroAt(b, b2) ==
  \/ b2 = b
  \/ b.phase = "New" /\ b2 = [b EXCEPT !.phase = "InProgress", !.start = now]
  \/ b.phase = "New" /\ b2 = [b EXCEPT !.phase = "Failed"]
  \/ b.phase = "InProgress" /\ b2 = [b EXCEPT !.phase = "Finalizing"]
  \/ b.phase \in {"InProgress", "Finalizing"} /\ \E p \in Ended : b2 = [b EXCEPT !.phase = p]
  \/ b.phase \in Ended \cup {"New"} /\ b.doomed /\ b2 = [b EXCEPT !.phase = "Deleting"]
  \/ b.phase = "Deleting" /\ b2 = Gone

LEMMA VeleroResult ==
  ASSUME Typed, VeleroStep
  PROVE  /\ \A c \in Cluster, n \in Time : VeleroAt(velero[c][n], velero'[c][n])
         /\ velero' \in [Cluster -> [Time -> Backups]]
         /\ UNCHANGED <<now, ab, history, faults>>
  <1>1. velero \in [Cluster -> [Time -> Backups]] /\ now \in Time /\ now \in Stamps
    BY Numbers DEF Typed
  <1>2. PICK c \in Cluster, n \in Time :
          LET b == velero[c][n]
          IN velero' \in
            {[velero EXCEPT ![c][n] = x] : x \in
               (IF b.phase = "New" THEN {[b EXCEPT !.phase = "InProgress", !.start = now],
                                         [b EXCEPT !.phase = "Failed"]} ELSE {})
               \cup (IF b.phase = "InProgress" THEN {[b EXCEPT !.phase = "Finalizing"]} ELSE {})
               \cup (IF b.phase \in {"InProgress", "Finalizing"} THEN {[b EXCEPT !.phase = p] : p \in Ended} ELSE {})
               \cup (IF b.phase \in Ended \cup {"New"} /\ b.doomed THEN {[b EXCEPT !.phase = "Deleting"]} ELSE {})
               \cup (IF b.phase = "Deleting" THEN {[NoBackup EXCEPT !.phase = "gone"]} ELSE {})}
    BY DEF VeleroStep
  <1>3. PICK x : VeleroAt(velero[c][n], x) /\ velero' = [velero EXCEPT ![c][n] = x]
    BY <1>2, Zenon DEF VeleroAt, Gone
  <1>4. x \in Backups
    <2>1. velero[c][n] \in Backups /\ Gone \in Backups
      BY <1>1, Numbers DEF Gone, NoBackup, Backups
    <2>. QED BY <1>1, <1>3, <2>1 DEF VeleroAt, Backups, Ended
  <1>5. velero' \in [Cluster -> [Time -> Backups]]
    BY <1>1, <1>3, <1>4
  <1>6. ASSUME NEW d \in Cluster, NEW m \in Time
        PROVE  VeleroAt(velero[d][m], velero'[d][m])
    <2>1. velero'[d][m] = IF d = c /\ m = n THEN x ELSE velero[d][m]
      BY <1>1, <1>3, <1>4
    <2>. QED BY <1>3, <2>1 DEF VeleroAt
  <1>. QED BY <1>5, <1>6 DEF VeleroStep

(***************************************************************************)
(* A pass of the sync controller.                                          *)
(***************************************************************************)
AbCreated ==
  /\ ~ab.exists
  /\ ab' = [NoAppBackup EXCEPT !.exists = TRUE, !.cluster = primary, !.queued = TRUE, !.action = NewAction]

AbFollows == ab.exists /\ ab' = Following

AbSent ==
  /\ SpecCurrent /\ ~CurrentAction
  /\ ab' = [ab EXCEPT !.action = NewAction, !.queued = TRUE]

RunEnds ==
  /\ sync'.state \in {"Ready", "Failed"} /\ sync'.backup = sync.backup /\ sync'.manual = sync.manual
  /\ sync'.last = now \/ sync'.last = sync.last

RunBegins ==
  /\ sync.state # "InProgress" /\ shouldSync
  /\ sync'.state = "InProgress" /\ sync'.backup = None
  /\ sync'.last = sync.last /\ sync'.manual = sync.manual

Adopts(b) ==
  /\ SpecCurrent /\ sync.state = "InProgress"
  /\ (ab.action.at = b /\ b > sync.last) \/ history[b].start > sync.last
  /\ sync' = [sync EXCEPT !.backup = b]

RestoreMade(p) ==
  /\ ab.exists /\ sync.state = "InProgress" /\ sync.backup \in Time
  /\ history[sync.backup].phase = "Completed" /\ restores[sync.backup][p].status = "none"
  /\ \E t \in Cluster :
       restores' = [restores EXCEPT ![sync.backup][p] = [status |-> "Running", at |-> now, target |-> t]]

SyncShape ==
  \/ UNCHANGED <<ab, restores>> /\ (RunEnds \/ RunBegins \/ \E b \in Time : Adopts(b))
  \/ UNCHANGED <<sync, restores>> /\ (AbCreated \/ AbSent \/ AbFollows)
  \/ AbFollows /\ RunEnds /\ UNCHANGED restores
  \/ AbFollows /\ UNCHANGED sync /\ \E p \in Phases : RestoreMade(p)

SyncFrame ==
  /\ ab' \in AppBackups /\ sync' \in Syncs
  /\ restores' \in [Time -> [Phases -> Restores]]
  /\ FaultsLeft /\ faults'["flip"] = faults["flip"]

LEMMA FailSyncResult ==
  ASSUME Typed, NEW t \in FailureType, failSync(t)
  PROVE  sync' \in Syncs /\ RunEnds
  <1>1. sync \in Syncs /\ now \in Stamps
    BY Numbers DEF Typed
  <1>2. [sync.failedAt EXCEPT ![t] = IF @ = None THEN now ELSE @] \in [FailureType -> Stamps]
    BY <1>1 DEF Syncs
  <1>3. sync' = [sync EXCEPT !.state = "Failed", !.last = now,
                             !.failedAt = [sync.failedAt EXCEPT ![t] = IF @ = None THEN now ELSE @]]
    BY <1>1 DEF failSync, Syncs
  <1>4. sync' \in Syncs
    BY <1>1, <1>2, <1>3 DEF Syncs
  <1>. QED BY <1>1, <1>3, <1>4 DEF RunEnds, Syncs

LEMMA SyncTypes ==
  ASSUME Typed
  PROVE  /\ sync \in Syncs /\ ab \in AppBackups /\ restores \in [Time -> [Phases -> Restores]]
         /\ now \in Time /\ now \in Stamps /\ primary \in Cluster
         /\ NewAction \in Requests /\ Following \in AppBackups /\ NoAppBackup \in AppBackups
         /\ ClearedConditions \in [FailureType -> Stamps]
  <1>1. /\ sync \in Syncs /\ ab \in AppBackups /\ restores \in [Time -> [Phases -> Restores]]
        /\ now \in Time /\ now \in Stamps /\ primary \in Cluster /\ None \in Stamps
    BY Numbers DEF Typed
  <1>2. NewAction \in Requests /\ NoAction \in Requests
    BY <1>1 DEF NewAction, NoAction, Requests
  <1>3. Following \in AppBackups
    <2>1. (ab.queued \/ ab.cluster # primary) \in BOOLEAN
      OBVIOUS
    <2>2. \A q \in BOOLEAN : [ab EXCEPT !.cluster = primary, !.queued = q] \in AppBackups
      BY <1>1 DEF AppBackups
    <2>3. Following = [ab EXCEPT !.cluster = primary, !.queued = (ab.queued \/ ab.cluster # primary)]
      BY DEF Following
    <2>. QED BY <2>1, <2>2, <2>3, Zenon
  <1>4. NoAppBackup \in AppBackups
    BY <1>1, <1>2, Clusters DEF NoAppBackup, AppBackups
  <1>5. ClearedConditions \in [FailureType -> Stamps]
    BY <1>1 DEF ClearedConditions, Syncs
  <1>. QED BY <1>1, <1>2, <1>3, <1>4, <1>5

LEMMA SyncPass ==
  ASSUME Typed, ReconcileSync
  PROVE  SyncFrame /\ SyncShape /\ UNCHANGED <<now, history, velero, scenario, primary>>
  <1> USE DEF FaultKind
  <1>1. /\ sync \in Syncs /\ ab \in AppBackups /\ restores \in [Time -> [Phases -> Restores]]
        /\ now \in Time /\ now \in Stamps /\ primary \in Cluster
        /\ NewAction \in Requests /\ Following \in AppBackups /\ NoAppBackup \in AppBackups
        /\ ClearedConditions \in [FailureType -> Stamps]
        /\ None \in Stamps /\ Time \subseteq Stamps
    BY SyncTypes, Numbers
  <1>2. UNCHANGED faults => FaultsLeft /\ faults'["flip"] = faults["flip"]
    BY NothingFails DEF NoFault
  <1>3. CASE InitializeState
    <2>1. sync' \in Syncs /\ RunEnds
      BY <1>1, <1>3 DEF InitializeState, RunEnds, Syncs
    <2>. QED BY <1>1, <1>2, <1>3, <2>1 DEF ReconcileSync, InitializeState, SyncFrame, SyncShape
  <1>4. CASE NoPVC
    <2>1. sync' \in Syncs /\ RunEnds
      BY <1>1, <1>4 DEF NoPVC, RunEnds, Syncs
    <2>. QED BY <1>1, <1>2, <1>4, <2>1 DEF ReconcileSync, NoPVC, SyncFrame, SyncShape
  <1>5. CASE DependencyFails
    <2>1. sync' \in Syncs /\ RunEnds
      BY <1>5, FailSyncResult DEF DependencyFails, FailureType
    <2>2. FaultsLeft /\ faults'["flip"] = faults["flip"]
      BY <1>5, CallFails, NothingFails DEF DependencyFails
    <2>. QED BY <1>1, <1>5, <2>1, <2>2 DEF ReconcileSync, DependencyFails, SyncFrame, SyncShape
  <1>6. CASE BeginRun /\ shouldSync
    <2>1. sync' \in Syncs /\ RunBegins
      BY <1>1, <1>6 DEF BeginRun, RunBegins, Syncs
    <2>. QED BY <1>1, <1>2, <1>6, <2>1 DEF ReconcileSync, BeginRun, SyncFrame, SyncShape
  <1>7. CASE ContinueRun
    <2>1. CASE CreateAppBackup
      <3>1. AbCreated /\ ab' \in AppBackups
        BY <1>1, <2>1 DEF CreateAppBackup, AbCreated, AppBackups
      <3>. QED BY <1>1, <1>2, <2>1, <3>1 DEF ReconcileSync, CreateAppBackup, SyncFrame, SyncShape
    <2>2. CASE UpdateSpec
      <3>1. AbFollows
        BY <2>2 DEF UpdateSpec, AbFollows
      <3>. QED BY <1>1, <1>2, <2>2, <3>1 DEF ReconcileSync, UpdateSpec, SyncFrame, SyncShape, AbFollows
    <2>3. CASE AdoptRequested \/ AdoptStarted
      <3>1. PICK b \in Time : Adopts(b)
        <4>1. CASE AdoptRequested
          <5>1. history[ab.action.at] # NoRecord /\ ab.action.at > sync.last /\ SpecCurrent
                /\ sync' = [sync EXCEPT !.backup = ab.action.at]
            BY <4>1 DEF AdoptRequested, CurrentAction
          <5>2. ab.action.at \in Time
            <6>1. ab.action.at \in Stamps /\ sync.last \in Stamps
              BY <1>1 DEF AppBackups, Requests, Syncs
            <6>. QED BY <5>1, <6>1, Numbers
          <5>. QED BY <1>7, <5>1, <5>2 DEF Adopts, ContinueRun
        <4>2. CASE AdoptStarted
          BY <1>7, <4>2 DEF AdoptStarted, StartedForRun, Adopts, ContinueRun
        <4>. QED BY <2>3, <4>1, <4>2
      <3>2. sync' \in Syncs
        BY <1>1, <3>1 DEF Adopts, Syncs
      <3>. QED BY <1>1, <1>2, <2>3, <3>1, <3>2
               DEF ReconcileSync, AdoptRequested, AdoptStarted, SyncFrame, SyncShape
    <2>4. CASE AppBackupFailed
      <3>1. sync' \in Syncs /\ RunEnds
        BY <2>4, FailSyncResult DEF AppBackupFailed, FailureType
      <3>. QED BY <1>1, <1>2, <2>4, <3>1 DEF ReconcileSync, AppBackupFailed, SyncFrame, SyncShape
    <2>5. CASE SendAction
      <3>1. AbSent /\ ab' \in AppBackups
        BY <1>1, <2>5 DEF SendAction, AbSent, AppBackups
      <3>. QED BY <1>1, <1>2, <2>5, <3>1 DEF ReconcileSync, SendAction, SyncFrame, SyncShape
    <2>6. CASE AwaitBackup
      <3>1. AbFollows /\ ab' \in AppBackups /\ ab.exists
        BY <1>1, <2>6 DEF AwaitBackup, AbFollows
      <3>2. sync.backup \in Time
        BY <1>1, <2>6, Numbers DEF AwaitBackup, Syncs
      <3>3. CASE BackupFails
        <4>1. sync' \in Syncs /\ RunEnds
          BY <3>3, FailSyncResult DEF BackupFails, FailureType
        <4>. QED BY <1>1, <1>2, <3>1, <3>3, <4>1 DEF ReconcileSync, BackupFails, SyncFrame, SyncShape
      <3>4. CASE RestoreDone
        <4>1. sync' \in Syncs /\ RunEnds
          BY <1>1, <3>4 DEF RestoreDone, finishSync, RunEnds, Syncs
        <4>. QED BY <1>1, <1>2, <3>1, <3>4, <4>1 DEF ReconcileSync, RestoreDone, SyncFrame, SyncShape
      <3>5. ASSUME NEW i \in DOMAIN plan, RestoreFails(i)
            PROVE  SyncFrame /\ SyncShape
        <4>1. sync' \in Syncs /\ RunEnds
          BY <3>5, FailSyncResult DEF RestoreFails, FailureType
        <4>. QED BY <1>1, <1>2, <3>1, <3>5, <4>1 DEF RestoreFails, SyncFrame, SyncShape
      <3>6. ASSUME NEW i \in DOMAIN plan, CreateRestore(i), history[sync.backup].phase = "Completed"
            PROVE  SyncFrame /\ SyncShape
        <4>1. plan[i] \in Phases
          BY PhasesOf DEF Typed
        <4>2. CASE /\ NoFault /\ UNCHANGED sync
                   /\ restores' = [restores EXCEPT ![sync.backup][plan[i]] =
                          [status |-> "Running", at |-> now, target |-> CHOOSE c \in Cluster : c # primary]]
          <5>1. (CHOOSE c \in Cluster : c # primary) \in Cluster
            BY <1>1, Clusters
          <5>2. restores' \in [Time -> [Phases -> Restores]]
            <6>1. \A t \in Cluster : [status |-> "Running", at |-> now, target |-> t] \in Restores
              BY <1>1 DEF Restores
            <6>. QED BY <1>1, <3>2, <4>1, <4>2, <5>1, <6>1
          <5>3. RestoreMade(plan[i])
            BY <1>7, <3>1, <3>2, <3>6, <4>2, <5>1 DEF RestoreMade, CreateRestore, RestoreOf, ContinueRun
          <5>. QED BY <1>1, <3>1, <4>1, <4>2, <5>2, <5>3, NothingFails DEF SyncFrame, SyncShape
        <4>3. CASE /\ Fault("callError") /\ UNCHANGED restores
                   /\ \E t \in {"BuildRestoreSpecFailed"} \cup (IF IsData THEN {"SyncFailed"} ELSE {}) : failSync(t)
          <5>1. sync' \in Syncs /\ RunEnds
            BY <4>3, FailSyncResult DEF FailureType
          <5>. QED BY <1>1, <3>1, <4>3, <5>1, CallFails DEF SyncFrame, SyncShape
        <4>. QED BY <3>6, <4>2, <4>3 DEF CreateRestore
      <3>. QED BY <2>6, <3>3, <3>4, <3>5, <3>6 DEF AwaitBackup, handleRestore, ReconcileSync
    <2>. QED BY <1>7, <2>1, <2>2, <2>3, <2>4, <2>5, <2>6 DEF ContinueRun
  <1>. QED BY <1>3, <1>4, <1>5, <1>6, <1>7 DEF ReconcileSync

(***************************************************************************)
(* The other steps: triggers, users, the operation, the ends and the       *)
(* cancels of restores, the disturbances and the clock.                    *)
(***************************************************************************)
Others ==
  TriggerStep \/ OperationStep \/ RestoreEnds \/ RestoreCancelled \/ Disturbance \/ UserAction \/ Tick

UserRequest ==
  /\ users # {} /\ ab.exists /\ ab'.action.at = now
  /\ ab'.action.target # None => history[ab'.action.target] # NoRecord

Exchange == Fault("flip") /\ primary' \in Cluster \ {primary}

OthersShape ==
  /\ UNCHANGED <<history, velero, scenario>>
  /\ now' \in Time /\ now <= now'
  /\ ab' \in AppBackups /\ sync' \in Syncs /\ restores' \in [Time -> [Phases -> Restores]]
  /\ primary' \in Cluster /\ FaultsLeft
  /\ ab'.exists = ab.exists /\ ab'.cluster = ab.cluster /\ ab'.last = ab.last /\ ab'.initial = ab.initial
  /\ ab'.action = ab.action \/ UserRequest
  /\ sync'.state = sync.state /\ sync'.last = sync.last /\ sync'.backup = sync.backup
  /\ sync'.manual = sync.manual \/ sync'.manual = now
  /\ \A n \in Time, p \in Phases : /\ restores'[n][p].at = restores[n][p].at
                                   /\ restores'[n][p].status = "none" <=> restores[n][p].status = "none"
  /\ (primary' = primary /\ faults'["flip"] = faults["flip"]) \/ Exchange

LEMMA OthersResult ==
  ASSUME Typed, Others
  PROVE  OthersShape
  <1>1. /\ sync \in Syncs /\ ab \in AppBackups /\ restores \in [Time -> [Phases -> Restores]]
        /\ now \in Time /\ now \in Stamps /\ primary \in Cluster /\ Time \subseteq Nat
    BY SyncTypes, Numbers
  <1>2. UNCHANGED faults => FaultsLeft /\ faults'["flip"] = faults["flip"]
    BY NothingFails DEF NoFault
  <1>3. \A f \in FaultKind \ {"flip"} : Fault(f) => FaultsLeft /\ faults'["flip"] = faults["flip"]
    BY FaultCount DEF FaultsLeft
  <1>4. Fault("flip") => FaultsLeft
    BY FaultCount DEF FaultsLeft, FaultKind
  <1>5. CASE TriggerStep
    <2>1. /\ sync' \in Syncs /\ (sync'.manual = sync.manual \/ sync'.manual = now)
          /\ sync'.state = sync.state /\ sync'.last = sync.last /\ sync'.backup = sync.backup
      BY <1>1, <1>5 DEF TriggerStep, triggerSync, ManualTrigger, PauseOrResume, Syncs
    <2>. QED BY <1>1, <1>2, <1>5, <2>1 DEF TriggerStep, OthersShape
  <1>6. CASE OperationStep
    <2>1. /\ sync' \in Syncs /\ (sync'.manual = sync.manual \/ sync'.manual = now)
          /\ sync'.state = sync.state /\ sync'.last = sync.last /\ sync'.backup = sync.backup
      <3>1. sync' = sync \/ sync' = [sync EXCEPT !.manual = now]
        BY <1>6 DEF OperationStep, SubmitOperation, WaitForSync, TimeoutOperation, TriggerOnce, Triggered,
                    RetryOperation, FailOperation, TriggerAgain, CompleteOperation
      <3>. QED BY <1>1, <3>1 DEF Syncs
    <2>2. FaultsLeft /\ faults'["flip"] = faults["flip"]
      <3>1. NoFault \/ Fault("lostWrite")
        BY <1>6 DEF OperationStep, SubmitOperation, WaitForSync, TimeoutOperation, TriggerOnce, NoFault,
                    RetryOperation, FailOperation, TriggerAgain, CompleteOperation
      <3>. QED BY <1>2, <1>3, <3>1 DEF NoFault, FaultKind
    <2>. QED BY <1>1, <1>6, <2>1, <2>2 DEF OperationStep, OthersShape
  <1>7. CASE RestoreEnds \/ RestoreCancelled
    <2>1. PICK n \in Time, p \in Phases, s \in {"Succeeded", "Failed", "Cancelled"} :
            restores[n][p].status = "Running" /\ restores' = [restores EXCEPT ![n][p].status = s]
      BY <1>7 DEF RestoreEnds, RestoreCancelled
    <2>2. restores[n] \in [Phases -> Restores] /\ restores[n][p] \in Restores
      BY <1>1
    <2> DEFINE r2 == [restores[n][p] EXCEPT !.status = s]
    <2>3. r2 \in Restores /\ r2.at = restores[n][p].at /\ r2.status = s
      BY <2>2 DEF Restores
    <2>4. restores' = [restores EXCEPT ![n] = [restores[n] EXCEPT ![p] = r2]]
      BY <2>1
    <2> HIDE DEF r2
    <2>5. /\ restores' \in [Time -> [Phases -> Restores]]
          /\ \A m \in Time, q \in Phases : restores'[m][q] = IF m = n /\ q = p THEN r2 ELSE restores[m][q]
      BY <1>1, <2>2, <2>3, <2>4
    <2>6. \A m \in Time, q \in Phases : /\ restores'[m][q].at = restores[m][q].at
                                        /\ restores'[m][q].status = "none" <=> restores[m][q].status = "none"
      BY <2>1, <2>3, <2>5
    <2>7. FaultsLeft /\ faults'["flip"] = faults["flip"]
      BY <1>2, <1>3, <1>7 DEF RestoreEnds, RestoreCancelled, FaultKind
    <2>8. /\ UNCHANGED <<now, ab, history, velero, scenario, sync, primary>>
          /\ now' \in Time /\ now <= now'
      BY <1>1, <1>7 DEF RestoreEnds, RestoreCancelled
    <2>. QED BY <1>1, <2>5, <2>6, <2>7, <2>8 DEF OthersShape
  <1>8. CASE Disturbance
    <2>1. ab' \in {ab, [ab EXCEPT !.queued = TRUE]}
      BY <1>8 DEF Disturbance
    <2>2. /\ ab' \in AppBackups /\ ab'.action = ab.action
          /\ ab'.exists = ab.exists /\ ab'.cluster = ab.cluster /\ ab'.last = ab.last /\ ab'.initial = ab.initial
      BY <1>1, <2>1 DEF AppBackups
    <2>3. /\ FaultsLeft /\ primary' \in Cluster
          /\ (primary' = primary /\ faults'["flip"] = faults["flip"]) \/ Exchange
      BY <1>1, <1>2, <1>3, <1>4, <1>8 DEF Disturbance, Exchange, FaultKind
    <2>4. UNCHANGED <<now, history, velero, scenario, sync, restores>>
      BY <1>8 DEF Disturbance
    <2>. QED BY <1>1, <2>2, <2>3, <2>4 DEF OthersShape
  <1>9. CASE UserAction
    <2>1. PICK type \in users, n \in {m \in Time : history[m] # NoRecord} \cup {None} :
            ab' = [ab EXCEPT !.action = [type |-> type, at |-> now, target |-> n], !.queued = TRUE]
      BY <1>9 DEF UserAction
    <2>2. [type |-> type, at |-> now, target |-> n] \in Requests
      <3>1. type \in {"Retry", "Cancel", "Delete"}
        BY <2>1, PipelineAssumption DEF Typed, users
      <3>2. n \in Stamps
        BY Numbers
      <3>. QED BY <1>1, <3>1, <3>2 DEF Requests
    <2>3. /\ ab' \in AppBackups /\ ab'.action = [type |-> type, at |-> now, target |-> n]
          /\ ab'.exists = ab.exists /\ ab'.cluster = ab.cluster /\ ab'.last = ab.last /\ ab'.initial = ab.initial
      BY <1>1, <2>1, <2>2 DEF AppBackups
    <2>4. UserRequest
      BY <1>9, <2>1, <2>3 DEF UserAction, UserRequest
    <2>5. UNCHANGED <<now, history, velero, faults, scenario, sync, restores, primary>>
      BY <1>9 DEF UserAction
    <2>. QED BY <1>1, <1>2, <2>3, <2>4, <2>5 DEF OthersShape
  <1>10. CASE Tick
    <2>1. scenario.until \in Time
      BY ScenarioType DEF Typed
    <2>2. now' \in Time /\ now <= now'
      BY <1>1, <1>10, <2>1, Numbers DEF Tick, Time
    <2>. QED BY <1>1, <1>2, <1>10, <2>2 DEF Tick, OthersShape
  <1>. QED BY <1>5, <1>6, <1>7, <1>8, <1>9, <1>10 DEF Others

(***************************************************************************)
(* The other steps keep the invariant.                                     *)
(***************************************************************************)
LEMMA Fields ==
  /\ \A a \in AppBackups : /\ a.cluster \in Cluster /\ a.last \in Nat
                           /\ a.action.at \in Nat /\ a.action.target \in Nat
                           /\ a.action.target # None => a.action.target \in Time
  /\ \A r \in Records : r.start \in Nat
  /\ \A b \in Backups : b.start \in Nat
  /\ \A s \in Syncs : s.last \in Nat /\ s.manual \in Nat /\ (s.backup # None => s.backup \in Time)
  /\ \A r \in Restores : r.at \in Nat
  /\ Time \subseteq Nat /\ None = 0
  BY Numbers DEF AppBackups, Requests, Records, Backups, Syncs, Restores

LEMMA Values ==
  ASSUME Typed
  PROVE  /\ now \in Time /\ now \in Nat /\ ab \in AppBackups /\ sync \in Syncs /\ primary \in Cluster
         /\ exchanges \in Nat /\ lostWrites \in Nat
         /\ \A n \in Time : /\ history[n] \in Records /\ history[n].start \in Nat
                            /\ \A c \in Cluster : velero[c][n] \in Backups /\ velero[c][n].start \in Nat
                            /\ \A p \in Phases : restores[n][p] \in Restores /\ restores[n][p].at \in Nat
  <1>1. /\ now \in Time /\ ab \in AppBackups /\ sync \in Syncs /\ primary \in Cluster
        /\ \A n \in Time : /\ history[n] \in Records
                           /\ \A c \in Cluster : velero[c][n] \in Backups
                           /\ \A p \in Phases : restores[n][p] \in Restores
    BY DEF Typed
  <1>2. exchanges \in Nat /\ lostWrites \in Nat
    BY ScenarioType DEF Typed
  <1>. QED BY <1>1, <1>2, Fields

LEMMA OthersKeep ==
  ASSUME SyncInv, Others
  PROVE  SyncInv'
  <1>1. Typed /\ InTime /\ ByAppBackup /\ OneRequest /\ NewGround /\ Adopted /\ Cancels /\ Final
    BY DEF SyncInv
  <1>2. OthersShape
    BY <1>1, OthersResult
  <1>3. /\ Phases' = Phases /\ users' = users /\ exchanges' = exchanges /\ lostWrites' = lostWrites
        /\ Remote' = Remote
    BY <1>2 DEF OthersShape, Phases, plan, users, exchanges, lostWrites, Remote
  <1>4. /\ now' \in Time /\ now' \in Nat /\ now <= now'
        /\ history' = history /\ velero' = velero
        /\ ab' \in AppBackups /\ ab'.exists = ab.exists /\ ab'.cluster = ab.cluster
        /\ ab'.last = ab.last /\ ab'.initial = ab.initial
        /\ ab'.action = ab.action \/ UserRequest
        /\ sync' \in Syncs
        /\ sync'.state = sync.state /\ sync'.last = sync.last /\ sync'.backup = sync.backup
        /\ sync'.manual = sync.manual \/ sync'.manual = now
        /\ \A n \in Time, p \in Phases : /\ restores'[n][p].at = restores[n][p].at
                                         /\ restores'[n][p].status = "none" <=> restores[n][p].status = "none"
    BY <1>2, Numbers DEF OthersShape
  <1>5. /\ now \in Nat /\ ab \in AppBackups /\ sync \in Syncs
        /\ sync.last \in Nat /\ sync.manual \in Nat /\ sync'.manual \in Nat
        /\ ab.action.at \in Nat /\ ab.action.target \in Nat /\ ab'.action.at \in Nat /\ ab'.action.target \in Nat
        /\ ab'.action.target # None => ab'.action.target \in Time
        /\ None = 0 /\ Time \subseteq Nat
        /\ \A n \in Time : /\ history[n].start \in Nat
                           /\ \A c \in Cluster : velero[c][n].start \in Nat
                           /\ \A p \in Phases : restores[n][p].at \in Nat
    BY <1>1, <1>4, Values, Fields
  <1>6. Typed'
    BY <1>1, <1>2, <1>3 DEF OthersShape, Typed, FaultsLeft
  <1>7. InTime'
    <2>1. sync'.last <= now' /\ sync'.manual <= now' /\ (sync'.state = "InProgress" => sync'.last < now')
      BY <1>1, <1>4, <1>5 DEF InTime
    <2>2. ab'.exists => ab'.action.at \in 1..now' /\ ab'.action.target <= now'
      <3>1. CASE ab'.action = ab.action
        BY <1>1, <1>4, <1>5, <3>1 DEF InTime
      <3>2. CASE UserRequest
        <4>1. ab'.action.at \in 1..now'
          BY <1>1, <1>4, <1>5, <3>2 DEF UserRequest, InTime
        <4>2. ab'.action.target <= now'
          BY <1>1, <1>4, <1>5, <3>2 DEF UserRequest, InTime
        <4>. QED BY <4>1, <4>2
      <3>. QED BY <1>4, <3>1, <3>2
    <2>3. \A c \in Cluster, n \in Time : Listed(c, n)' => n <= velero'[c][n].start /\ velero'[c][n].start <= now'
      BY <1>1, <1>4, <1>5 DEF InTime, Listed
    <2>4. \A n \in Time :
            /\ history'[n] # NoRecord => n <= now'
            /\ history'[n].start # None => n <= history'[n].start /\ history'[n].start <= now'
            /\ history'[n].phase # "none" => history'[n].start # None
      BY <1>1, <1>4, <1>5 DEF InTime
    <2>5. \A n \in Time, p \in Phases' : restores'[n][p].at <= now'
      BY <1>1, <1>3, <1>4, <1>5 DEF InTime
    <2>. QED BY <2>1, <2>2, <2>3, <2>4, <2>5 DEF InTime
  <1>8. \A n \in Time : Restored(n)' <=> Restored(n)
    BY <1>3, <1>4 DEF Restored
  <1>9. ByAppBackup'
    BY <1>1, <1>4, <1>8 DEF ByAppBackup, Made
  <1>10. OneRequest'
    BY <1>1, <1>3, <1>4 DEF OneRequest, Made, UserRequest
  <1>11. NewGround'
    <2>1. CASE primary' = primary /\ faults'["flip"] = faults["flip"]
      BY <1>1, <1>3, <1>4, <2>1 DEF NewGround, Made
    <2>2. CASE Exchange
      <3>1. /\ faults["flip"] \in Nat /\ faults["flip"] > 0 /\ faults'["flip"] = faults["flip"] - 1
            /\ faults["flip"] <= exchanges
        BY <1>1, <2>2 DEF Typed, Exchange, Fault, FaultKind, exchanges
      <3>2. CASE exchanges <= 1
        <4>1. exchanges = 1 /\ faults["flip"] = exchanges /\ faults'["flip"] # exchanges
          BY <1>1, <3>1, <3>2, Values
        <4>2. \A c \in Cluster, n \in Time : Made(c, n) => c = primary
          BY <1>1, <4>1 DEF NewGround
        <4>3. primary' \in Cluster /\ primary' # primary
          BY <2>2 DEF Exchange
        <4>. QED BY <1>3, <1>4, <4>1, <4>2, <4>3 DEF NewGround, Made
      <3>3. CASE ~(exchanges <= 1)
        BY <1>3, <3>3 DEF NewGround
      <3>. QED BY <3>2, <3>3
    <2>. QED BY <1>2, <2>1, <2>2 DEF OthersShape
  <1>12. Adopted'
    BY <1>1, <1>3, <1>4 DEF Adopted, Listed
  <1>13. Cancels'
    BY <1>1, <1>3, <1>4 DEF Cancels, Listed
  <1>14. Final'
    BY <1>1, <1>3, <1>4, <1>8 DEF Final, FinalAt, Listed, Made
  <1>. QED BY <1>6, <1>7, <1>9, <1>10, <1>11, <1>12, <1>13, <1>14 DEF SyncInv

(***************************************************************************)
(* Velero keeps the invariant.                                             *)
(***************************************************************************)

\* What a step of Velero does to one backup.
LEMMA VeleroFacts ==
  ASSUME NEW b \in Backups, NEW b2, VeleroAt(b, b2), now \in Nat
  PROVE  /\ b2.phase \notin Absent => b.phase \notin Absent /\ (b2.start = b.start \/ b2.start = now)
         /\ (b2.phase # "none") = (b.phase # "none")
         /\ b2.phase \in Running => b.phase \in Running
         /\ b.phase = "Deleting" => b2.phase \in {"Deleting", "gone"}
         /\ ~b.doomed => ~b2.doomed
         /\ ~b.doomed /\ b.phase # "Deleting" => b2.phase # "Deleting"
         /\ b.phase \in Ended /\ ~b.doomed => b2 = b
  BY DEF VeleroAt, Backups, Absent, Running, UnderWay, Ended, Gone, NoBackup

LEMMA VeleroKeeps ==
  ASSUME SyncInv, VeleroStep, UNCHANGED <<scenario, sync, restores, primary>>
  PROVE  SyncInv'
  <1>1. Typed /\ InTime /\ ByAppBackup /\ OneRequest /\ NewGround /\ Adopted /\ Cancels /\ Final
    BY DEF SyncInv
  <1>2. /\ velero' \in [Cluster -> [Time -> Backups]]
        /\ now' = now /\ ab' = ab /\ history' = history /\ faults' = faults
        /\ scenario' = scenario /\ sync' = sync /\ restores' = restores /\ primary' = primary
    BY <1>1, VeleroResult
  <1>3. /\ Phases' = Phases /\ users' = users /\ exchanges' = exchanges /\ lostWrites' = lostWrites
        /\ \A n \in Time : Restored(n)' = Restored(n)
    BY <1>2 DEF Phases, plan, users, exchanges, lostWrites, Restored
  <1>4. /\ now \in Nat /\ sync \in Syncs /\ sync.last \in Nat /\ ab.cluster \in Cluster /\ primary \in Cluster
        /\ Time \subseteq Nat /\ None = 0
        /\ \A n \in Time : /\ history[n].start \in Nat
                           /\ \A c \in Cluster : velero[c][n] \in Backups /\ velero[c][n].start \in Nat
                           /\ \A p \in Phases : restores[n][p].at \in Nat
    BY <1>1, Values, Fields
  <1>5. ASSUME NEW c \in Cluster, NEW n \in Time
        PROVE  /\ velero'[c][n].phase \notin Absent =>
                     /\ velero[c][n].phase \notin Absent
                     /\ velero'[c][n].start = velero[c][n].start \/ velero'[c][n].start = now
               /\ velero'[c][n].phase # "none" <=> velero[c][n].phase # "none"
               /\ velero'[c][n].phase \in Running => velero[c][n].phase \in Running
               /\ velero[c][n].phase = "Deleting" => velero'[c][n].phase \in {"Deleting", "gone"}
               /\ ~velero[c][n].doomed => ~velero'[c][n].doomed
               /\ ~velero[c][n].doomed /\ velero[c][n].phase # "Deleting" => velero'[c][n].phase # "Deleting"
               /\ velero[c][n].phase \in Ended /\ ~velero[c][n].doomed => velero'[c][n] = velero[c][n]
    <2>1. velero[c][n] \in Backups /\ VeleroAt(velero[c][n], velero'[c][n])
      BY <1>1, <1>4, VeleroResult
    <2>. QED BY <1>4, <2>1, VeleroFacts
  <1>6. Typed'
    BY <1>1, <1>2, <1>3 DEF Typed
  <1>7. InTime'
    <2>1. \A c \in Cluster, n \in Time : Listed(c, n)' => n <= velero'[c][n].start /\ velero'[c][n].start <= now
      <3> SUFFICES ASSUME NEW c \in Cluster, NEW n \in Time, Listed(c, n)'
                   PROVE  n <= velero'[c][n].start /\ velero'[c][n].start <= now
        OBVIOUS
      <3>1. n <= velero[c][n].start /\ velero[c][n].start <= now
        BY <1>1, <1>5 DEF InTime, Listed
      <3>. QED BY <1>4, <1>5, <3>1 DEF Listed
    <2>. QED BY <1>1, <1>2, <1>3, <2>1 DEF InTime
  <1>8. ByAppBackup'
    BY <1>1, <1>2, <1>3, <1>5 DEF ByAppBackup, Made
  <1>9. OneRequest'
    BY <1>1, <1>2, <1>3, <1>5 DEF OneRequest, Made
  <1>10. NewGround'
    BY <1>1, <1>2, <1>3, <1>4, <1>5 DEF NewGround, Made
  <1>11. Adopted'
    <2> SUFFICES ASSUME exchanges <= 1, NEW n \in Time
                 PROVE  /\ velero'[ab.cluster][n].phase \notin Absent => history[n].start <= velero'[ab.cluster][n].start
                        /\ sync.state = "InProgress" /\ n = sync.backup =>
                             /\ history[n].start # None => history[n].start > sync.last
                             /\ velero'[ab.cluster][n].phase \notin Absent => velero'[ab.cluster][n].start > sync.last
      BY <1>2, <1>3 DEF Adopted, Remote, Listed
    <2>1. /\ velero[ab.cluster][n].phase \notin Absent => history[n].start <= velero[ab.cluster][n].start
          /\ sync.state = "InProgress" /\ n = sync.backup =>
               /\ history[n].start # None => history[n].start > sync.last
               /\ velero[ab.cluster][n].phase \notin Absent => velero[ab.cluster][n].start > sync.last
      BY <1>1 DEF Adopted, Remote, Listed
    <2>2. /\ history[n].start # None => history[n].start <= now
          /\ sync.state = "InProgress" => sync.last < now
      BY <1>1 DEF InTime
    <2>. QED BY <1>4, <1>5, <2>1, <2>2
  <1>12. Cancels'
    <2> SUFFICES ASSUME exchanges <= 1, lostWrites = 0, NEW n \in Time
                 PROVE  /\ velero'[ab.cluster][n].phase \notin Absent /\ velero'[ab.cluster][n].phase \in Running
                             => history[n].phase # "Completed"
                        /\ velero'[ab.cluster][n].phase \notin Absent /\ history[n].managed = "Canceled"
                             => velero'[ab.cluster][n].phase = "Deleting"
                        /\ history[n].phase = "Completed" => history[n].managed # "Canceled"
      BY <1>2, <1>3 DEF Cancels, Remote, Listed
    <2>1. /\ velero[ab.cluster][n].phase \notin Absent /\ velero[ab.cluster][n].phase \in Running => history[n].phase # "Completed"
          /\ velero[ab.cluster][n].phase \notin Absent /\ history[n].managed = "Canceled" => velero[ab.cluster][n].phase = "Deleting"
          /\ history[n].phase = "Completed" => history[n].managed # "Canceled"
      BY <1>1 DEF Cancels, Remote, Listed
    <2>2. velero'[ab.cluster][n].phase \notin Absent => velero'[ab.cluster][n].phase # "gone"
      BY DEF Absent
    <2>. QED BY <1>4, <1>5, <2>1, <2>2
  <1>13. Final'
    <2>1. ASSUME users = {}, exchanges <= 1, exchanges = 0 \/ lostWrites = 0, NEW n \in Time,
                 history[n].phase = "Completed" \/ Restored(n), exchanges = 0 \/ Listed(ab.cluster, n)
          PROVE  velero'[ab.cluster][n] = velero[ab.cluster][n]
      <3>1. Remote[n].phase \in Ended
        BY <1>1, <2>1 DEF Final, FinalAt
      <3>2. Made(ab.cluster, n)
        BY <3>1 DEF Made, Remote, Ended
      <3>3. ~velero[ab.cluster][n].doomed
        BY <1>1, <1>4, <2>1, <3>2 DEF OneRequest
      <3>. QED BY <1>4, <1>5, <3>1, <3>3 DEF Remote
    <2>2. \A n \in Time : /\ Remote[n] = velero[ab.cluster][n] /\ Remote'[n] = velero'[ab.cluster][n]
                          /\ velero'[ab.cluster][n].phase \notin Absent => Listed(ab.cluster, n)
      BY <1>2, <1>4, <1>5 DEF Remote, Listed
    <2>3. ASSUME users = {}, exchanges <= 1, exchanges = 0 \/ lostWrites = 0, NEW n \in Time
          PROVE  FinalAt(n)'
      <3>1. FinalAt(n)
        BY <1>1, <2>3 DEF Final
      <3>2. CASE history[n].phase = "Completed" \/ Restored(n)
        <4>1. velero'[ab.cluster][n] = velero[ab.cluster][n] \/ (exchanges # 0 /\ ~Listed(ab.cluster, n))
          BY <2>1, <2>3, <3>2
        <4>2. /\ Remote'[n] = velero'[ab.cluster][n] /\ Listed(ab.cluster, n)' = (velero'[ab.cluster][n].phase \notin Absent)
              /\ (\E c \in Cluster : Made(c, n))' = (\E c \in Cluster : Made(c, n))
          BY <1>2, <1>5 DEF Remote, Listed, Made
        <4>3. CASE velero'[ab.cluster][n] = velero[ab.cluster][n]
          <5>1. Remote'[n] = Remote[n] /\ Listed(ab.cluster, n)' = Listed(ab.cluster, n)
            BY <4>2, <4>3 DEF Listed, Remote
          <5>. QED BY <1>2, <1>3, <3>1, <4>2, <5>1 DEF FinalAt
        <4>4. CASE exchanges # 0 /\ ~Listed(ab.cluster, n)
          <5>1. ~Listed(ab.cluster, n)'
            BY <2>2, <4>2, <4>4
          <5>. QED BY <1>2, <1>3, <3>1, <4>2, <4>4, <5>1 DEF FinalAt
        <4>. QED BY <4>1, <4>3, <4>4
      <3>3. CASE ~(history[n].phase = "Completed" \/ Restored(n))
        BY <1>2, <1>3, <1>5, <3>1, <3>3 DEF FinalAt, Made
      <3>. QED BY <3>2, <3>3
    <2>. QED BY <1>3, <2>3 DEF Final
  <1>. QED BY <1>6, <1>7, <1>8, <1>9, <1>10, <1>11, <1>12, <1>13 DEF SyncInv

(***************************************************************************)
(* The AppBackup keeps the invariant.                                      *)
(***************************************************************************)
Timely(n, r, h) ==
  /\ r.phase \notin Absent => n <= r.start /\ r.start <= now
  /\ h # NoRecord => n <= now
  /\ h.start # None => n <= h.start /\ h.start <= now
  /\ h.phase # "none" => h.start # None

\* The record is not ahead of the backup, and both are newer than a time.
NotAhead(r, h) == r.phase \notin Absent => h.start <= r.start

NewerThan(t, r, h) ==
  /\ h.start # None => h.start > t
  /\ r.phase \notin Absent => r.start > t

Settled(r, h) ==
  /\ r.phase \in Running => h.phase # "Completed"
  /\ r.phase \notin Absent /\ h.managed = "Canceled" => r.phase = "Deleting"
  /\ h.phase = "Completed" => h.managed # "Canceled"

LEMMA PassFacts ==
  ASSUME Typed, NEW n \in Time, PassAt(n), ab.cluster \in Cluster,
         NEW r, r = Remote[n], NEW h, h = history[n],
         NEW r2, r2 = velero'[ab.cluster][n], NEW h2, h2 = history'[n]
  PROVE  /\ r2.phase \notin Absent => r.phase \notin Absent \/ n <= now
         /\ Timely(n, r, h) => Timely(n, r2, h2)
         /\ Timely(n, r, h) /\ NotAhead(r, h) => NotAhead(r2, h2)
         /\ \A t \in Nat : t < now /\ NewerThan(t, r, h) => NewerThan(t, r2, h2)
         /\ ~Lost /\ Settled(r, h) => Settled(r2, h2)
  <1>1. /\ now \in Nat /\ n \in Nat /\ r \in Backups /\ h \in Records /\ r.start \in Nat /\ h.start \in Nat
        /\ None = 0 /\ None \notin Time
    BY Values, Fields, Numbers DEF Remote
  <1>2. /\ Fresh.phase = "New" /\ Fresh.start = now /\ Gone.phase = "gone"
        /\ "New" \notin Absent /\ "gone" \in Absent /\ "New" \in Running /\ "gone" \notin Running
        /\ \A p \in Running : p \notin Absent /\ p \notin {"Deleting", "Completed"}
    BY DEF Fresh, Gone, NoBackup, Absent, Running, UnderWay
  <1>3. NoRecord.phase = "none" /\ NoRecord.managed = "none" /\ NoRecord.start = 0
    BY <1>1 DEF NoRecord
  <1>4. CASE r2 = r /\ h2 = h
    BY <1>4
  <1>5. CASE n <= now /\ MadeAt(r, h, r2, h2)
    <2>1. r2 = Fresh \/ (r.phase \notin Absent /\ r2 = r)
      BY <1>5 DEF MadeAt
    <2>2. r2.phase \notin Absent /\ r2.start \in Nat
      BY <1>1, <1>2, <2>1
    <2>3. CASE h2 = RecordOf(r2)
      <3>1. h2.phase = r2.phase /\ h2.managed = "InProgress" /\ h2.start = r2.start
        BY <2>3 DEF RecordOf
      <3>. QED BY <1>1, <1>2, <1>3, <1>5, <2>1, <2>2, <3>1 DEF Timely, NotAhead, NewerThan, Settled
    <2>4. CASE Lost /\ h2 = h
      BY <1>1, <1>2, <1>5, <2>1, <2>2, <2>4 DEF Timely, NotAhead, NewerThan
    <2>. QED BY <1>5, <2>3, <2>4 DEF MadeAt
  <1>6. CASE RemovedAt(r, h, r2, h2)
    <2>1. r2 = Gone /\ r.phase \notin Absent
      BY <1>6 DEF RemovedAt
    <2>2. CASE h2 = h
      BY <1>1, <1>2, <2>1, <2>2 DEF Timely, NotAhead, NewerThan, Settled
    <2>3. CASE r.phase \in Running /\ h2 = [h EXCEPT !.managed = "Canceled"]
      <3>1. h2.phase = h.phase /\ h2.start = h.start /\ h2.managed = "Canceled"
        BY <1>1, <2>3 DEF Records
      <3>. QED BY <1>1, <1>2, <1>3, <2>1, <2>3, <3>1 DEF Timely, NotAhead, NewerThan, Settled
    <2>. QED BY <1>6, <2>2, <2>3 DEF RemovedAt
  <1>7. CASE DeletedAt(r, h, r2, h2)
    <2>1. r2.phase = r.phase /\ r2.start = r.start /\ (h2 = h \/ h2 = NoRecord)
      BY <1>7 DEF DeletedAt
    <2>. QED BY <1>1, <1>3, <2>1 DEF Timely, NotAhead, NewerThan, Settled
  <1>8. CASE ObservedAt(r, h, r2, h2)
    <2>1. r2 = r \/ (r.phase \in Running /\ r2 = Gone)
      BY <1>8 DEF ObservedAt
    <2>2. CASE h2 = h
      BY <1>1, <1>2, <2>1, <2>2 DEF Timely, NotAhead, NewerThan, Settled
    <2>3. CASE r.phase \in Absent /\ h2 = NoRecord
      BY <1>1, <1>2, <1>3, <2>1, <2>3 DEF Timely, NotAhead, NewerThan, Settled
    <2>4. CASE r.phase \in Running /\ h2 = TimedOutRecord(r, h)
      <3>1. /\ h2.phase = "TimeoutFailed" /\ h2.managed = "Failed"
            /\ h2.start = IF h.start # None THEN h.start ELSE r.start
        BY <2>4 DEF TimedOutRecord
      <3>. QED BY <1>1, <1>2, <2>1, <2>4, <3>1 DEF Timely, NotAhead, NewerThan, Settled
    <2>5. CASE r.phase \notin Absent /\ h2 = ObservedRecord(r, h)
      <3>1. /\ h2.phase = r.phase /\ h2.start = r.start
            /\ h2.managed = IF h.managed = "Canceled" THEN "Canceled" ELSE getManagedStatus(r.phase)
        BY <2>5 DEF ObservedRecord
      <3>2. getManagedStatus(r.phase) = "Canceled" => r.phase = "Deleting"
        BY <1>1 DEF getManagedStatus, Backups, Running, UnderWay
      <3>. QED BY <1>1, <1>2, <1>3, <2>1, <2>5, <3>1, <3>2 DEF Timely, NotAhead, NewerThan, Settled
    <2>. QED BY <1>8, <2>2, <2>3, <2>4, <2>5 DEF ObservedAt
  <1>. QED BY <1>4, <1>5, <1>6, <1>7, <1>8 DEF PassAt

\* What a pass for the sync's request does to a backup.
LEMMA PlainFacts ==
  ASSUME Typed, InTime, ab.exists, PlainPass, PassFrame, ab.last <= ab.action.at, NEW n \in Time,
         NEW r, r = Remote[n], NEW r2, r2 = velero'[ab.cluster][n]
  PROVE  /\ r2.phase # "none" => r.phase # "none" \/ n = ab.action.at
         /\ ~r.doomed => ~r2.doomed
         /\ r.phase # "Deleting" => r2.phase # "Deleting"
         /\ ab.last <= ab'.last /\ ab'.last <= ab.action.at
         /\ ab.initial => ab'.initial
  <1>1. /\ ab \in AppBackups /\ ab.action.at \in Time /\ ab.action.at \in Nat /\ ab.last \in Nat
        /\ ab.cluster \in Cluster
    BY ActionTime, Fields
  <1>2. Fresh.phase = "New" /\ ~Fresh.doomed /\ Gone.phase = "gone" /\ ~Gone.doomed
    BY DEF Fresh, Gone, NoBackup
  <1>3. CASE UNCHANGED <<history, velero>> /\ ab'.last = ab.last /\ ab'.initial = ab.initial
    BY <1>1, <1>3 DEF Remote
  <1>4. ASSUME NEW a, MakesAt(ab.action.at, a)
        PROVE  r2 = r \/ (r2 = Fresh /\ n = ab.action.at)
    BY <1>1, <1>4 DEF MakesAt
  <1>5. CASE MakesAt(ab.action.at, [ab EXCEPT !.initial = TRUE])
    <2>1. ab' = ab \/ ab' = [ab EXCEPT !.initial = TRUE]
      BY <1>5 DEF MakesAt
    <2>2. ab'.last = ab.last /\ (ab.initial => ab'.initial)
      BY <1>1, <2>1 DEF AppBackups
    <2>. QED BY <1>1, <1>2, <1>4, <1>5, <2>2
  <1>6. CASE MakesAt(ab.action.at, Handled)
    <2>1. ab' = ab \/ ab' = Handled
      BY <1>6 DEF MakesAt
    <2>2. ab.last <= ab'.last /\ ab'.last <= ab.action.at /\ (ab.initial => ab'.initial)
      BY <1>1, <2>1, HandledType
    <2>. QED BY <1>1, <1>2, <1>4, <1>6, <2>2
  <1>7. CASE Observing
    <2>1. ab'.last = ab.last /\ (ab.initial => ab'.initial)
      BY <1>1, <1>7 DEF Observing, AppBackups
    <2>2. r2 = r \/ (r.phase \in Running /\ r2 = Gone)
      BY <1>7 DEF Observing, ObservesAt, ObservedAt
    <2>. QED BY <1>1, <1>2, <2>1, <2>2 DEF Running, UnderWay
  <1>. QED BY <1>3, <1>5, <1>6, <1>7 DEF PlainPass

\* A backup that was recorded as completed, or restored, is not made again.
LEMMA PlainFinal ==
  ASSUME SyncInv, ab.exists, PlainPass, PassFrame, Phases' = Phases, exchanges' = exchanges,
         lostWrites' = lostWrites, restores' = restores, now' = now, ab.last <= ab.action.at,
         users = {}, exchanges <= 1, exchanges = 0 \/ lostWrites = 0, NEW n \in Time
  PROVE  FinalAt(n)'
  <1> DEFINE r == Remote[n]
             r2 == velero'[ab.cluster][n]
             h == history[n]
             h2 == history'[n]
             made == \E c \in Cluster : Made(c, n)
             made2 == \E c \in Cluster : velero'[c][n].phase # "none"
  <1>1. Typed /\ InTime /\ OneRequest /\ Final
    BY DEF SyncInv
  <1>2. /\ ab \in AppBackups /\ ab.action.at \in Time /\ ab.action.at \in Nat /\ ab.last \in Nat /\ ab.cluster \in Cluster
        /\ n \in Nat /\ h \in Records /\ r \in Backups /\ h.start \in Nat /\ r.start \in Nat
        /\ lostWrites \in Nat /\ exchanges \in Nat /\ None = 0 /\ ab.action.at # None
        /\ \A p \in Phases : restores[n][p].at \in Nat
    BY <1>1, ActionTime, Values, Fields DEF Remote
  <1>3. /\ h.phase = "Completed" =>
             /\ n <= ab.last
             /\ r.phase \notin Absent => r.phase \in Ended /\ r.start = h.start
        /\ Restored(n) =>
             /\ n <= ab.last
             /\ r.phase \notin Absent => r.phase \in Ended
             /\ \A p \in Phases : restores[n][p].status # "none" =>
                  /\ h.start <= restores[n][p].at
                  /\ r.phase \notin Absent => r.start <= restores[n][p].at
        /\ exchanges = 0 /\ (h.phase = "Completed" \/ Restored(n)) => r.phase \in Ended
        /\ lostWrites = 0 /\ (h # NoRecord \/ Restored(n) \/ made) => ab.initial
    BY <1>1 DEF Final, FinalAt, Listed, Remote
  <1>4. SUFFICES
        /\ h2.phase = "Completed" =>
             /\ n <= ab'.last
             /\ r2.phase \notin Absent => r2.phase \in Ended /\ r2.start = h2.start
        /\ Restored(n) =>
             /\ n <= ab'.last
             /\ r2.phase \notin Absent => r2.phase \in Ended
             /\ \A p \in Phases : restores[n][p].status # "none" =>
                  /\ h2.start <= restores[n][p].at
                  /\ r2.phase \notin Absent => r2.start <= restores[n][p].at
        /\ exchanges = 0 /\ (h2.phase = "Completed" \/ Restored(n)) => r2.phase \in Ended
        /\ lostWrites = 0 /\ (h2 # NoRecord \/ Restored(n) \/ made2) => ab'.initial
    <2>1. ab'.cluster = ab.cluster /\ Restored(n)' = Restored(n)
      BY DEF PassFrame, Restored
    <2>. QED BY <2>1 DEF FinalAt, Listed, Remote, Made
  <1>5. /\ ab.last <= ab'.last /\ ab'.last \in Nat /\ (ab.initial => ab'.initial)
    BY <1>1, <1>2, PlainFacts, Fields DEF PassFrame
  <1>6. made2 => made \/ r2.phase # "none"
    <2>1. \A c \in Cluster \ {ab.cluster} : velero'[c] = velero[c]
      BY DEF PassFrame
    <2>. QED BY <2>1 DEF Made
  <1>7. r.phase # "none" => made
    BY <1>2 DEF Made, Remote
  <1>8. /\ "Completed" \in Ended /\ "New" \notin Absent /\ "New" # "Completed" /\ "gone" \in Absent
        /\ \A p \in Ended : p \notin Absent /\ p \notin Running /\ p # "none"
        /\ \A p \in Running : p \notin Absent /\ p # "none"
        /\ Fresh.phase = "New" /\ Gone.phase = "gone" /\ NoRecord.start = 0 /\ NoRecord.phase = "none"
    BY <1>2 DEF Ended, Absent, Running, UnderWay, Fresh, Gone, NoBackup, NoRecord
  <1> HIDE DEF r, r2, h, h2, made, made2
  <1>9. CASE UNCHANGED <<history, velero>> /\ ab'.last = ab.last /\ ab'.initial = ab.initial
    <2>1. r2 = r /\ h2 = h
      BY <1>9 DEF r, r2, h, h2, Remote
    <2>. QED BY <1>2, <1>3, <1>5, <1>6, <1>7, <1>9, <2>1
  <1>10. ASSUME NEW a, MakesAt(ab.action.at, a), n # ab.action.at
         PROVE  r2 = r /\ h2 = h
    BY <1>2, <1>10 DEF MakesAt, r, r2, h, h2
  <1>11. ASSUME NEW a, MakesAt(ab.action.at, a), n = ab.action.at
         PROVE  /\ r2 = IF r.phase \in Absent THEN Fresh ELSE r
                /\ \/ Lost /\ ab' = ab /\ h2 = h
                   \/ ab' = a /\ h2.phase = r2.phase /\ h2.start = r2.start
    BY <1>2, <1>11 DEF MakesAt, r, r2, h, h2, RecordOf
  <1>12. CASE NeedsInitialBackup /\ MakesAt(ab.action.at, [ab EXCEPT !.initial = TRUE])
    <2>1. ~ab.initial /\ h = NoRecord /\ r.phase \in Absent
      BY <1>2, <1>12 DEF NeedsInitialBackup, ListAppBackups, h, r
    <2>2. ~Restored(n)
      BY <1>2, <1>3, <1>8, <2>1
    <2>3. [ab EXCEPT !.initial = TRUE].initial
      BY <1>2 DEF AppBackups
    <2>4. CASE n = ab.action.at
      <3>1. /\ r2 = Fresh
            /\ \/ Lost /\ h2 = h
               \/ ab'.initial /\ h2.phase = "New"
        BY <1>8, <1>11, <1>12, <2>1, <2>3, <2>4
      <3>2. Lost => lostWrites # 0
        BY <1>2 DEF Lost
      <3>. QED BY <1>3, <1>5, <1>8, <2>1, <2>2, <3>1, <3>2
    <2>5. CASE n # ab.action.at
      BY <1>2, <1>3, <1>5, <1>6, <1>7, <1>8, <1>10, <1>12, <2>1, <2>2, <2>5
    <2>. QED BY <2>4, <2>5
  <1>13. CASE ~NeedsInitialBackup /\ shouldRun /\ MakesAt(ab.action.at, Handled)
    <2>1. lostWrites = 0 => ab.initial
      <3>1. ASSUME ~ab.initial, lostWrites = 0  PROVE FALSE
        <4>1. PICK m \in Time : history[m] # NoRecord \/ Remote[m].phase \notin Absent
          BY <1>13, <3>1 DEF NeedsInitialBackup, ListAppBackups
        <4>2. history[m] # NoRecord \/ Made(ab.cluster, m)
          BY <4>1 DEF Made, Remote, Absent
        <4>. QED BY <1>1, <1>2, <3>1, <4>2 DEF Final, FinalAt
      <3>. QED BY <3>1
    <2>2. CASE n = ab.action.at
      <3>1. h.phase # "Completed" /\ ~Restored(n)
        BY <1>2, <1>3, <1>13, <2>2 DEF shouldRun
      <3>2. Handled.last = n
        BY <1>1, <2>2, HandledType
      <3>3. r.phase \notin Absent /\ r.phase = "Completed" => r.phase \in Ended
        BY <1>8
      <3>. QED BY <1>2, <1>5, <1>8, <1>11, <1>13, <2>1, <2>2, <3>1, <3>2, <3>3
    <2>3. CASE n # ab.action.at
      BY <1>2, <1>3, <1>5, <1>6, <1>7, <1>10, <1>13, <2>3
    <2>. QED BY <2>2, <2>3
  <1>14. CASE Observing
    <2>1. ObservedAt(r, h, r2, h2)
      BY <1>14 DEF Observing, ObservesAt, r, r2, h, h2
    <2>2. r.phase # "none" => n <= ab.last
      <3>1. r.phase # "none" => n <= ab.action.at
        BY <1>1, <1>2 DEF OneRequest, Made, Remote, r
      <3>2. ab.action.at <= ab.last
        BY <1>2, <1>14 DEF Observing, shouldRun
      <3>. QED BY <1>2, <3>1, <3>2
    <2>3. ab'.last = ab.last
      BY <1>2, <1>14 DEF Observing, AppBackups
    <2>5. h2 # NoRecord => h2 = h \/ ab'.initial
      BY <1>14 DEF Observing, h, h2
    <2>6. r2 = r \/ (r.phase \in Running /\ r2 = Gone)
      BY <2>1 DEF ObservedAt
    <2>7. lostWrites = 0 /\ (h2 # NoRecord \/ Restored(n) \/ made2) => ab'.initial
      BY <1>3, <1>5, <1>6, <1>7, <1>8, <2>5, <2>6
    <2>8. CASE h2 = h
      BY <1>2, <1>3, <1>8, <2>2, <2>3, <2>6, <2>7, <2>8
    <2>9. CASE r.phase \in Absent /\ h2 = NoRecord
      BY <1>2, <1>3, <1>8, <2>2, <2>3, <2>6, <2>7, <2>9
    <2>10. CASE r.phase \in Running /\ h2 = TimedOutRecord(r, h)
      <3>1. ~Restored(n) /\ h2.phase = "TimeoutFailed"
        BY <1>3, <1>8, <2>10 DEF TimedOutRecord
      <3>. QED BY <2>7, <3>1
    <2>11. CASE r.phase \notin Absent /\ h2 = ObservedRecord(r, h)
      <3>1. h2.phase = r.phase /\ h2.start = r.start
        BY <2>11 DEF ObservedRecord
      <3>. QED BY <1>2, <1>3, <1>8, <2>2, <2>3, <2>6, <2>7, <2>11, <3>1
    <2>. QED BY <2>1, <2>8, <2>9, <2>10, <2>11 DEF ObservedAt
  <1>. QED BY <1>9, <1>12, <1>13, <1>14 DEF PlainPass

LEMMA PassKeeps ==
  ASSUME SyncInv, ReconcileAppBackup, UNCHANGED <<scenario, sync, restores, primary>>
  PROVE  SyncInv'
  <1>1. Typed /\ InTime /\ ByAppBackup /\ OneRequest /\ NewGround /\ Adopted /\ Cancels /\ Final
    BY DEF SyncInv
  <1>2. /\ ab.exists /\ now' = now /\ PassFrame /\ \A n \in Time : PassAt(n)
        /\ ab.action.type = "Backup" => PlainPass
    BY <1>1, Pass
  <1>3. /\ ab'.exists = ab.exists /\ ab'.cluster = ab.cluster /\ ab'.action = ab.action
        /\ ab' \in AppBackups /\ FaultsLeft /\ faults'["flip"] = faults["flip"]
        /\ velero' \in [Cluster -> [Time -> Backups]] /\ history' \in [Time -> Records]
        /\ \A c \in Cluster \ {ab.cluster} : velero'[c] = velero[c]
    BY <1>2 DEF PassFrame
  <1>4. /\ Phases' = Phases /\ users' = users /\ exchanges' = exchanges /\ lostWrites' = lostWrites
        /\ scenario' = scenario /\ sync' = sync /\ restores' = restores /\ primary' = primary
        /\ \A n \in Time : Restored(n)' = Restored(n)
    BY DEF Phases, plan, users, exchanges, lostWrites, Restored
  <1>5. /\ now \in Nat /\ sync.last \in Nat /\ ab.cluster \in Cluster /\ primary \in Cluster
        /\ ab.last \in Nat /\ ab.action.at \in Nat
        /\ Time \subseteq Nat /\ None = 0 /\ lostWrites \in Nat
    BY <1>1, Values, Fields
  <1>6. ASSUME NEW n \in Time
        PROVE  /\ Timely(n, Remote[n], history[n]) => Timely(n, velero'[ab.cluster][n], history'[n])
               /\ Timely(n, Remote[n], history[n]) /\ NotAhead(Remote[n], history[n])
                    => NotAhead(velero'[ab.cluster][n], history'[n])
               /\ \A t \in Nat : t < now /\ NewerThan(t, Remote[n], history[n])
                                   => NewerThan(t, velero'[ab.cluster][n], history'[n])
               /\ ~Lost /\ Settled(Remote[n], history[n]) => Settled(velero'[ab.cluster][n], history'[n])
    BY <1>1, <1>2, <1>5, PassFacts
  <1>7. \A n \in Time : Timely(n, Remote[n], history[n])
    BY <1>1, <1>5 DEF InTime, Timely, Listed, Remote
  <1>8. Typed'
    BY <1>1, <1>2, <1>3, <1>4 DEF Typed, FaultsLeft
  <1>9. InTime'
    <2>1. \A n \in Time : Timely(n, velero'[ab.cluster][n], history'[n])
      BY <1>6, <1>7
    <2>2. ASSUME NEW c \in Cluster, NEW n \in Time, velero'[c][n].phase \notin Absent
          PROVE  n <= velero'[c][n].start /\ velero'[c][n].start <= now
      <3>1. CASE c = ab.cluster
        BY <2>1, <2>2, <3>1 DEF Timely
      <3>2. CASE c # ab.cluster
        BY <1>1, <1>3, <2>2, <3>2 DEF InTime, Listed
      <3>. QED BY <3>1, <3>2
    <2>3. \A n \in Time :
            /\ history'[n] # NoRecord => n <= now
            /\ history'[n].start # None => n <= history'[n].start /\ history'[n].start <= now
            /\ history'[n].phase # "none" => history'[n].start # None
      BY <2>1 DEF Timely
    <2>. QED BY <1>1, <1>2, <1>3, <1>4, <2>2, <2>3 DEF InTime, Listed
  <1>10. ByAppBackup'
    BY <1>1, <1>2, <1>3, <1>4 DEF ByAppBackup
  <1>11. users = {} => ab.action.type = "Backup" /\ PlainPass /\ ab.last <= ab.action.at
    BY <1>1, <1>2 DEF OneRequest
  <1>12. OneRequest'
    <2> SUFFICES ASSUME users = {}
                 PROVE  /\ ab.last' <= ab.action.at
                        /\ \A c \in Cluster, n \in Time : velero'[c][n].phase # "none" =>
                             /\ n <= ab.action.at /\ ~velero'[c][n].doomed /\ velero'[c][n].phase # "Deleting"
                             /\ n > sync.last => n = ab.action.at
      BY <1>3, <1>4, <1>11 DEF OneRequest, Made
    <2>1. ASSUME NEW n \in Time
          PROVE  /\ velero'[ab.cluster][n].phase # "none" => Remote[n].phase # "none" \/ n = ab.action.at
                 /\ ~Remote[n].doomed => ~velero'[ab.cluster][n].doomed
                 /\ Remote[n].phase # "Deleting" => velero'[ab.cluster][n].phase # "Deleting"
                 /\ ab'.last <= ab.action.at
      BY <1>1, <1>2, <1>11, PlainFacts
    <2>2. 1 \in Time
      BY Numbers
    <2>3. \A c \in Cluster, n \in Time : velero[c][n].phase # "none" =>
             /\ n <= ab.action.at /\ ~velero[c][n].doomed /\ velero[c][n].phase # "Deleting"
             /\ n > sync.last => n = ab.action.at
      BY <1>1 DEF OneRequest, Made
    <2>4. ASSUME NEW c \in Cluster, NEW n \in Time, velero'[c][n].phase # "none"
          PROVE  /\ n <= ab.action.at /\ ~velero'[c][n].doomed /\ velero'[c][n].phase # "Deleting"
                 /\ n > sync.last => n = ab.action.at
      <3>1. CASE c # ab.cluster
        BY <1>3, <2>3, <2>4, <3>1
      <3>2. CASE c = ab.cluster /\ Remote[n].phase # "none"
        BY <1>5, <2>1, <2>3, <2>4, <3>2 DEF Remote
      <3>3. CASE c = ab.cluster /\ Remote[n].phase = "none"
        <4>1. n = ab.action.at
          BY <2>1, <2>4, <3>3
        <4>2. velero'[c][n].phase # "Deleting"
          BY <2>1, <3>3
        <4>3. ~velero'[c][n].doomed
          <5>1. PICK a : MakesAt(ab.action.at, a)
            <6>1. CASE UNCHANGED <<history, velero>>
              BY <2>4, <3>3, <6>1 DEF Remote
            <6>2. CASE Observing
              BY <2>4, <3>3, <6>2 DEF Observing, ObservesAt, ObservedAt, Running, UnderWay
            <6>. QED BY <1>11, <6>1, <6>2 DEF PlainPass
          <5>2. velero'[c][n] = Fresh
            BY <3>3, <4>1, <5>1 DEF MakesAt, Absent
          <5>. QED BY <5>2 DEF Fresh
        <4>. QED BY <1>5, <4>1, <4>2, <4>3
      <3>. QED BY <3>1, <3>2, <3>3
    <2>. QED BY <2>1, <2>2, <2>4
  <1>13. NewGround'
    <2>1. \A c \in Cluster, n \in Time : velero'[c][n].phase # "none" => c = ab.cluster \/ velero[c][n].phase # "none"
      BY <1>3
    <2>. QED BY <1>1, <1>2, <1>3, <1>4, <1>5, <2>1 DEF NewGround, Made
  <1>14. Adopted'
    <2>1. ASSUME exchanges <= 1, NEW n \in Time
          PROVE  NotAhead(velero'[ab.cluster][n], history'[n])
      <3>1. NotAhead(Remote[n], history[n])
        BY <1>1, <2>1 DEF Adopted, NotAhead, Listed, Remote
      <3>. QED BY <1>6, <1>7, <3>1
    <2>2. ASSUME exchanges <= 1, NEW n \in Time, sync.state = "InProgress", n = sync.backup
          PROVE  NewerThan(sync.last, velero'[ab.cluster][n], history'[n])
      <3>1. NewerThan(sync.last, Remote[n], history[n])
        BY <1>1, <2>2 DEF Adopted, NewerThan, Listed, Remote
      <3>2. sync.last < now
        BY <1>1, <2>2 DEF InTime
      <3>. QED BY <1>5, <1>6, <3>1, <3>2
    <2>. QED BY <1>3, <1>4, <2>1, <2>2 DEF Adopted, NotAhead, NewerThan, Listed, Remote
  <1>15. Cancels'
    <2>1. ASSUME exchanges <= 1, lostWrites = 0, NEW n \in Time
          PROVE  Settled(velero'[ab.cluster][n], history'[n])
      <3>1. Settled(Remote[n], history[n])
        BY <1>1, <2>1 DEF Cancels, Settled, Listed, Remote, Absent, Running, UnderWay
      <3>2. ~Lost
        BY <2>1 DEF Lost
      <3>. QED BY <1>6, <3>1, <3>2
    <2>. QED BY <1>3, <1>4, <2>1 DEF Cancels, Settled, Listed, Remote
  <1>16. Final'
    <2>1. ASSUME users = {}, exchanges <= 1, exchanges = 0 \/ lostWrites = 0, NEW n \in Time
          PROVE  FinalAt(n)'
      BY <1>2, <1>4, <1>11, <2>1, PlainFinal
    <2>. QED BY <1>4, <2>1 DEF Final
  <1>. QED BY <1>8, <1>9, <1>10, <1>12, <1>13, <1>14, <1>15, <1>16 DEF SyncInv

(***************************************************************************)
(* The sync controller keeps the invariant.                                *)
(***************************************************************************)
LEMMA SyncKeeps ==
  ASSUME SyncInv, ReconcileSync
  PROVE  SyncInv'
  <1>1. Typed /\ InTime /\ ByAppBackup /\ OneRequest /\ NewGround /\ Adopted /\ Cancels /\ Final
    BY DEF SyncInv
  <1>2. SyncFrame /\ SyncShape /\ UNCHANGED <<now, history, velero, scenario, primary>>
    BY <1>1, SyncPass
  <1>3. /\ Phases' = Phases /\ users' = users /\ exchanges' = exchanges /\ lostWrites' = lostWrites
        /\ scenario' = scenario /\ now' = now /\ history' = history /\ velero' = velero /\ primary' = primary
        /\ ab' \in AppBackups /\ sync' \in Syncs /\ FaultsLeft /\ faults'["flip"] = faults["flip"]
        /\ restores' \in [Time -> [Phases -> Restores]]
    BY <1>2 DEF Phases, plan, users, exchanges, lostWrites, SyncFrame
  <1>4. /\ now \in Nat /\ now \in Time /\ sync \in Syncs /\ ab \in AppBackups
        /\ sync.last \in Nat /\ sync.manual \in Nat /\ sync'.last \in Nat
        /\ ab.cluster \in Cluster /\ primary \in Cluster
        /\ ab.last \in Nat /\ ab.action.at \in Nat /\ ab.action.target \in Nat
        /\ Time \subseteq Nat /\ None = 0 /\ None \notin Time /\ lostWrites \in Nat /\ exchanges \in Nat
        /\ \A n \in Time : /\ history[n].start \in Nat
                           /\ \A c \in Cluster : velero[c][n].start \in Nat
                           /\ \A p \in Phases : restores[n][p].at \in Nat
    BY <1>1, <1>3, Values, Fields, Numbers
  <1>5. /\ AbCreated => /\ ~ab.exists /\ ab'.exists /\ ab'.cluster = primary /\ ab'.last = None
                        /\ ab'.action = NewAction
        /\ AbFollows => /\ ab.exists /\ ab'.exists /\ ab'.cluster = primary /\ ab'.last = ab.last
                        /\ ab'.action = ab.action /\ ab'.initial = ab.initial
        /\ AbSent => /\ ab.exists /\ ab'.exists /\ ab.cluster = primary /\ ab'.cluster = primary
                     /\ ab'.last = ab.last /\ ab'.initial = ab.initial /\ ab'.action = NewAction
                     /\ ~CurrentAction
        /\ NewAction.type = "Backup" /\ NewAction.at = now /\ NewAction.target = None
    <2>1. NoAppBackup \in AppBackups /\ NoAppBackup.last = None /\ NewAction \in Requests
      BY <1>1, SyncTypes DEF NoAppBackup
    <2>2. NewAction.type = "Backup" /\ NewAction.at = now /\ NewAction.target = None
      BY DEF NewAction
    <2>3. AbCreated => /\ ~ab.exists /\ ab'.exists /\ ab'.cluster = primary /\ ab'.last = None
                       /\ ab'.action = NewAction
      BY <2>1 DEF AbCreated, AppBackups
    <2>4. AbFollows => /\ ab.exists /\ ab'.exists /\ ab'.cluster = primary /\ ab'.last = ab.last
                       /\ ab'.action = ab.action /\ ab'.initial = ab.initial
      BY <1>4 DEF AbFollows, Following, AppBackups
    <2>5. AbSent => /\ ab.exists /\ ab'.exists /\ ab.cluster = primary /\ ab'.cluster = primary
                    /\ ab'.last = ab.last /\ ab'.initial = ab.initial /\ ab'.action = NewAction
                    /\ ~CurrentAction
      BY <1>4 DEF AbSent, SpecCurrent, AppBackups
    <2>. QED BY <2>2, <2>3, <2>4, <2>5
  <1>6. \/ ab' = ab
        \/ AbCreated /\ UNCHANGED <<sync, restores>>
        \/ AbSent /\ UNCHANGED <<sync, restores>>
        \/ AbFollows
    BY <1>2 DEF SyncShape
  <1>7. \/ sync' = sync
        \/ RunEnds
        \/ RunBegins
        \/ ab' = ab /\ \E b \in Time : Adopts(b)
    BY <1>2 DEF SyncShape
  <1>8. restores' = restores \/ \E p \in Phases : RestoreMade(p) /\ AbFollows /\ sync' = sync
    BY <1>2 DEF SyncShape
  <1>9. /\ sync.last <= sync'.last /\ sync'.last <= now
        /\ sync'.manual = sync.manual
        /\ sync'.backup # None => sync.backup # None \/ ab.exists
        /\ sync'.state = "InProgress" => /\ sync'.last = sync.last /\ sync.last < now
                                         /\ sync'.backup # None => sync.state = "InProgress"
    <2>1. sync.last <= now /\ sync.manual <= now /\ (sync.state = "InProgress" => sync.last < now)
      BY <1>1 DEF InTime
    <2>2. CASE sync' = sync
      BY <1>4, <2>1, <2>2
    <2>3. CASE RunEnds
      BY <1>4, <2>1, <2>3 DEF RunEnds
    <2>4. CASE RunBegins
      <3>1. sync.last < now
        <4>1. now > 0
          BY <1>4
        <4>2. (sync.manual # None /\ sync.manual > sync.last) \/ sync.last = None
          BY <2>4 DEF RunBegins, shouldSync
        <4>. QED BY <1>4, <2>1, <4>1, <4>2
      <3>. QED BY <1>4, <2>1, <2>4, <3>1 DEF RunBegins
    <2>5. CASE \E b \in Time : Adopts(b)
      <3>1. PICK b \in Time : Adopts(b)
        BY <2>5
      <3>2. /\ ab.exists /\ sync.state = "InProgress"
            /\ sync'.state = sync.state /\ sync'.last = sync.last /\ sync'.manual = sync.manual /\ sync'.backup = b
        BY <1>4, <3>1 DEF Adopts, SpecCurrent, Syncs
      <3>. QED BY <1>4, <2>1, <3>2
    <2>. QED BY <1>7, <2>2, <2>3, <2>4, <2>5
  <1>10. \A n \in Time, p \in Phases :
            /\ restores'[n][p] = restores[n][p] \/ (restores'[n][p].at = now /\ restores'[n][p].status = "Running")
            /\ restores'[n][p] # restores[n][p] =>
                 /\ ab.exists /\ n = sync.backup /\ history[n].phase = "Completed" /\ AbFollows /\ sync' = sync
    <2>1. CASE restores' = restores
      BY <2>1
    <2>2. ASSUME NEW q \in Phases, RestoreMade(q), AbFollows, sync' = sync, NEW n \in Time, NEW p \in Phases
          PROVE  /\ restores'[n][p] = restores[n][p] \/ (restores'[n][p].at = now /\ restores'[n][p].status = "Running")
                 /\ restores'[n][p] # restores[n][p] =>
                      /\ ab.exists /\ n = sync.backup /\ history[n].phase = "Completed"
      <3>1. PICK t \in Cluster :
              restores' = [restores EXCEPT ![sync.backup][q] = [status |-> "Running", at |-> now, target |-> t]]
        BY <2>2 DEF RestoreMade
      <3>2. restores \in [Time -> [Phases -> Restores]] /\ sync.backup \in Time
        BY <1>1, <2>2 DEF Typed, RestoreMade
      <3>3. restores'[n][p] = IF n = sync.backup /\ p = q THEN [status |-> "Running", at |-> now, target |-> t]
                                                          ELSE restores[n][p]
        BY <2>2, <3>1, <3>2
      <3>. QED BY <2>2, <3>3 DEF RestoreMade
    <2>. QED BY <1>8, <2>1, <2>2
  <1>11. \A n \in Time : Restored(n)' => Restored(n) \/ (ab.exists /\ history[n].phase = "Completed")
    BY <1>3, <1>10 DEF Restored
  <1>12. exchanges <= 1 => \/ ab'.cluster = ab.cluster
                           \/ \A n \in Time : velero[ab'.cluster][n].phase \in Absent
    <2>1. ASSUME exchanges <= 1, ab'.cluster # ab.cluster, NEW n \in Time
          PROVE  velero[ab'.cluster][n].phase = "none"
      <3>1. CASE AbCreated
        BY <1>1, <1>4, <1>5, <3>1 DEF ByAppBackup, Made
      <3>2. CASE AbFollows
        BY <1>1, <1>5, <2>1, <3>2 DEF NewGround, Made
      <3>. QED BY <1>5, <1>6, <2>1, <3>1, <3>2
    <2>. QED BY <2>1 DEF Absent
  <1>13. Typed'
    BY <1>1, <1>3 DEF Typed, FaultsLeft
  <1>14. InTime'
    <2>1. ab'.exists => ab'.action.at \in 1..now /\ ab'.action.target <= now
      <3>1. NewAction.at \in 1..now /\ NewAction.target <= now
        BY <1>4, <1>5
      <3>. QED BY <1>1, <1>5, <1>6, <3>1 DEF InTime
    <2>2. \A n \in Time, p \in Phases : restores'[n][p].at <= now
      BY <1>1, <1>4, <1>10 DEF InTime
    <2>3. /\ sync'.last <= now /\ sync'.manual <= now
          /\ sync'.state = "InProgress" => sync'.last < now
      BY <1>1, <1>9 DEF InTime
    <2>. QED BY <1>1, <1>3, <2>1, <2>2, <2>3 DEF InTime, Listed
  <1>15. ByAppBackup'
    <2>1. ab.exists => ab'.exists
      BY <1>5, <1>6
    <2>. QED BY <1>1, <1>3, <1>9, <1>11, <2>1 DEF ByAppBackup, Made
  <1>16. OneRequest'
    <2> SUFFICES ASSUME users = {}
                 PROVE  /\ ab'.action.type = "Backup" /\ ab'.last <= ab'.action.at
                        /\ \A c \in Cluster, n \in Time : Made(c, n) =>
                             /\ n <= ab'.action.at /\ ~velero[c][n].doomed /\ velero[c][n].phase # "Deleting"
                             /\ n > sync'.last => n = ab'.action.at
      BY <1>3 DEF OneRequest, Made
    <2>1. /\ ab.action.type = "Backup" /\ ab.last <= ab.action.at
          /\ \A c \in Cluster, n \in Time : Made(c, n) =>
               /\ n <= ab.action.at /\ ~velero[c][n].doomed /\ velero[c][n].phase # "Deleting"
               /\ n > sync.last => n = ab.action.at
      BY <1>1 DEF OneRequest
    <2>2. CASE ab'.action = ab.action /\ ab'.last = ab.last
      BY <1>4, <1>9, <2>1, <2>2
    <2>3. CASE AbCreated
      BY <1>1, <1>4, <1>5, <2>3 DEF ByAppBackup
    <2>4. CASE AbSent
      <3>1. ab.action.at <= sync.last /\ ab.action.at <= now
        BY <1>1, <1>4, <1>5, <2>1, <2>4 DEF CurrentAction, InTime
      <3>. QED BY <1>4, <1>5, <1>9, <2>1, <2>4, <3>1
    <2>. QED BY <1>5, <1>6, <2>2, <2>3, <2>4
  <1>17. NewGround'
    <2>1. ab'.exists => ab'.cluster = primary \/ (ab.exists /\ ab'.cluster = ab.cluster)
      BY <1>5, <1>6
    <2>2. \A c \in Cluster, n \in Time : Made(c, n) => ab.exists
      BY <1>1 DEF ByAppBackup
    <2>. QED BY <1>1, <1>3, <2>1, <2>2 DEF NewGround, Made
  <1>18. Adopted'
    <2>1. ASSUME exchanges <= 1, NEW n \in Time, velero[ab'.cluster][n].phase \notin Absent
          PROVE  ab'.cluster = ab.cluster /\ history[n].start <= velero[ab.cluster][n].start
      BY <1>1, <1>12, <2>1 DEF Adopted, Listed, Remote
    <2>2. ASSUME exchanges <= 1, NEW n \in Time, sync'.state = "InProgress", n = sync'.backup
          PROVE  /\ history[n].start # None => history[n].start > sync.last
                 /\ velero[ab.cluster][n].phase \notin Absent => velero[ab.cluster][n].start > sync.last
      <3>1. CASE sync' = sync
        BY <1>1, <2>2, <3>1 DEF Adopted, Listed, Remote
      <3>2. CASE Adopts(n)
        <4>1. CASE ab.action.at = n /\ n > sync.last
          <5>1. /\ history[n].start # None => n <= history[n].start
                /\ velero[ab.cluster][n].phase \notin Absent => n <= velero[ab.cluster][n].start
            BY <1>1, <1>4 DEF InTime, Listed
          <5>. QED BY <1>4, <4>1, <5>1
        <4>2. CASE history[n].start > sync.last
          <5>1. velero[ab.cluster][n].phase \notin Absent => history[n].start <= velero[ab.cluster][n].start
            BY <1>1, <2>2 DEF Adopted, Listed, Remote
          <5>. QED BY <1>4, <4>2, <5>1
        <4>. QED BY <3>2, <4>1, <4>2 DEF Adopts
      <3>3. RunEnds => sync'.state # "InProgress"
        BY DEF RunEnds
      <3>4. RunBegins => sync'.backup \notin Time
        BY <1>4 DEF RunBegins
      <3>5. \A b \in Time : Adopts(b) => sync'.backup = b
        BY <1>4 DEF Adopts, Syncs
      <3>. QED BY <1>7, <2>2, <3>1, <3>2, <3>3, <3>4, <3>5
    <2>3. sync'.state = "InProgress" => sync'.last = sync.last
      BY <1>9
    <2>. QED BY <1>3, <2>1, <2>2, <2>3 DEF Adopted, Listed, Remote
  <1>19. Cancels'
    <2>1. ASSUME exchanges <= 1, NEW n \in Time, velero[ab'.cluster][n].phase \notin Absent
          PROVE  ab'.cluster = ab.cluster
      BY <1>12, <2>1
    <2>. QED BY <1>1, <1>3, <2>1 DEF Cancels, Listed, Remote
  <1>20. Final'
    <2> SUFFICES ASSUME users = {}, exchanges <= 1, exchanges = 0 \/ lostWrites = 0, NEW n \in Time
                 PROVE  FinalAt(n)'
      BY <1>3 DEF Final
    <2>1. FinalAt(n)
      BY <1>1 DEF Final
    <2>2. CASE AbCreated
      <3>1. history[n] = NoRecord /\ ~Restored(n) /\ \A c \in Cluster : ~Made(c, n)
        BY <1>1, <1>5, <2>2 DEF ByAppBackup
      <3>2. ~Restored(n)' /\ (\A c \in Cluster : ~Made(c, n))'
        BY <1>3, <1>5, <1>11, <2>2, <3>1 DEF Made
      <3>. QED BY <1>3, <3>1, <3>2 DEF FinalAt, NoRecord
    <2>3. CASE ab'.last = ab.last /\ ab'.initial = ab.initial /\ ab.exists
      <3>1. /\ velero[ab'.cluster][n].phase \notin Absent => ab'.cluster = ab.cluster
            /\ exchanges = 0 => ab'.cluster = ab.cluster
        <4>1. exchanges = 0 => ab'.cluster = ab.cluster
          <5>1. ASSUME exchanges = 0  PROVE primary = ab.cluster
            <6>1. faults["flip"] = exchanges
              BY <1>1, <5>1 DEF Typed, FaultKind, exchanges
            <6>. QED BY <1>1, <2>3, <5>1, <6>1 DEF NewGround
          <5>. QED BY <1>5, <1>6, <2>3, <5>1
        <4>. QED BY <1>12, <4>1
      <3>2. history[n].start <= now
        BY <1>1, <1>4 DEF InTime
      <3>3. velero[ab.cluster][n].phase \notin Absent => velero[ab.cluster][n].start <= now
        BY <1>1, <1>4 DEF InTime, Listed
      <3>4. \A p \in Phases : restores'[n][p].status # "none" =>
              \/ restores[n][p].status # "none" /\ restores'[n][p].at = restores[n][p].at
              \/ restores'[n][p].at = now /\ history[n].phase = "Completed"
        BY <1>10
      <3>5. history[n].phase = "Completed" => history[n] # NoRecord
        BY DEF NoRecord
      <3>6. /\ Remote = velero[ab.cluster] /\ Remote' = velero[ab'.cluster]
            /\ Listed(ab.cluster, n) <=> velero[ab.cluster][n].phase \notin Absent
            /\ Listed(ab.cluster, n)' <=> velero[ab'.cluster][n].phase \notin Absent
        BY <1>3 DEF Remote, Listed
      <3>7. CASE history[n].phase = "Completed" \/ Restored(n)
        <4>1. /\ n <= ab'.last
              /\ Listed(ab.cluster, n)' => Remote'[n].phase \in Ended
              /\ history[n].phase = "Completed" /\ Listed(ab.cluster, n)' => Remote'[n].start = history[n].start
              /\ exchanges = 0 => Remote'[n].phase \in Ended
              /\ lostWrites = 0 => ab'.initial
          BY <2>1, <2>3, <3>1, <3>5, <3>6, <3>7 DEF FinalAt
        <4>2. ASSUME NEW p \in Phases, restores'[n][p].status # "none"
              PROVE  /\ history[n].start <= restores'[n][p].at
                     /\ Listed(ab.cluster, n)' => Remote'[n].start <= restores'[n][p].at
          <5>1. CASE restores[n][p].status # "none" /\ restores'[n][p].at = restores[n][p].at
            <6>1. Restored(n)
              BY <5>1 DEF Restored
            <6>. QED BY <2>1, <3>1, <3>6, <5>1, <6>1 DEF FinalAt
          <5>2. CASE restores'[n][p].at = now
            BY <3>1, <3>2, <3>3, <3>6, <5>2
          <5>. QED BY <3>4, <4>2, <5>1, <5>2
        <4>. QED BY <1>3, <4>1, <4>2 DEF FinalAt
      <3>8. CASE ~(history[n].phase = "Completed" \/ Restored(n))
        <4>1. ~Restored(n)'
          BY <1>11, <3>8
        <4>2. (\E c \in Cluster : Made(c, n))' <=> \E c \in Cluster : Made(c, n)
          BY <1>3 DEF Made
        <4>. QED BY <1>3, <2>1, <2>3, <3>8, <4>1, <4>2 DEF FinalAt
      <3>. QED BY <3>7, <3>8
    <2>4. CASE ab' = ab /\ ~ab.exists
      <3>1. Restored(n)' => Restored(n)
        BY <1>11, <2>4
      <3>2. history[n] = NoRecord /\ ~Restored(n) /\ \A c \in Cluster : ~Made(c, n)
        BY <1>1, <2>4 DEF ByAppBackup
      <3>3. (\A c \in Cluster : ~Made(c, n))'
        BY <1>3, <3>2 DEF Made
      <3>. QED BY <1>3, <3>1, <3>2, <3>3 DEF FinalAt, NoRecord
    <2>. QED BY <1>5, <1>6, <2>2, <2>3, <2>4
  <1>. QED BY <1>13, <1>14, <1>15, <1>16, <1>17, <1>18, <1>19, <1>20 DEF SyncInv

(***************************************************************************)
(* The invariant and the properties.                                       *)
(***************************************************************************)
LEMMA SyncInvInit == Init => SyncInv
  <1> SUFFICES ASSUME Init  PROVE SyncInv
    OBVIOUS
  <1>1. /\ NoRecord \in Records /\ NoBackup \in Backups /\ NoAppBackup \in AppBackups
        /\ NoRestore \in Restores /\ primary \in Cluster /\ 1 \in Time /\ None = 0
    <2>1. NoAction \in Requests /\ None \in Stamps /\ 1 \in Time /\ None = 0
      BY Numbers DEF NoAction, Requests
    <2>2. primary \in Cluster /\ NoAppBackup \in AppBackups
      BY <2>1, Clusters DEF Init, NoAppBackup, AppBackups
    <2>. QED BY <2>1, <2>2 DEF NoRecord, Records, NoBackup, Backups, NoRestore, Restores
  <1>2. /\ now = 1 /\ ab = NoAppBackup /\ history = [n \in Time |-> NoRecord] /\ primary \in Cluster
        /\ velero = [c \in Cluster |-> [n \in Time |-> NoBackup]]
        /\ restores = [n \in Time |-> [p \in Phases |-> NoRestore]]
        /\ scenario \in Scenarios /\ faults = scenario.faults
        /\ sync.state = "" /\ sync.last = 0 /\ sync.manual = 0 /\ sync.backup = 0
    BY <1>1 DEF Init
  <1>3. /\ ~ab.exists /\ ab.action.type = "Backup" /\ ab.action.at = 0 /\ ab.last = 0
        /\ ab.cluster \in Cluster
    BY <1>1, <1>2 DEF NoAppBackup, NoAction, AppBackups
  <1>4. ASSUME NEW n \in Time
        PROVE  /\ history[n] = NoRecord /\ history[n].phase = "none" /\ history[n].start = 0
               /\ ~Restored(n)
               /\ \A p \in Phases : restores[n][p].at = 0
               /\ \A c \in Cluster : velero[c][n].phase = "none"
    BY <1>1, <1>2 DEF NoRecord, NoBackup, NoRestore, Restored
  <1>5. \A c \in Cluster, n \in Time : ~Made(c, n) /\ ~Listed(c, n)
    BY <1>4 DEF Made, Listed, Absent
  <1>6. Typed
    <2>1. faults \in [FaultKind -> Nat] /\ \A f \in FaultKind : faults[f] <= scenario.faults[f]
      <3>1. scenario.faults \in [FaultKind -> Nat]
        BY <1>2, ScenarioType
      <3>2. \A f \in FaultKind : faults[f] \in Nat /\ faults[f] = scenario.faults[f]
        BY <1>2, <3>1
      <3>3. \A f \in FaultKind : faults[f] <= scenario.faults[f]
        BY <3>2
      <3>4. faults = scenario.faults
        BY <1>2
      <3>. QED BY <3>1, <3>3, <3>4
    <2>2. sync \in Syncs
      BY <1>1, Numbers DEF Init, Syncs
    <2>3. /\ history \in [Time -> Records] /\ velero \in [Cluster -> [Time -> Backups]]
          /\ restores \in [Time -> [Phases -> Restores]]
      BY <1>1, <1>2
    <2>. QED BY <1>1, <1>2, <2>1, <2>2, <2>3 DEF Typed
  <1>7. InTime
    <2>1. \A n \in Time, p \in Phases : restores[n][p].at <= now
      <3>1. now = 1
        BY <1>2
      <3>. QED BY <1>4, <3>1
    <2>2. now = 1 /\ sync.last = 0 /\ sync.manual = 0 /\ None = 0
      BY <1>1, <1>2
    <2>3. sync.last <= now /\ sync.manual <= now /\ sync.last < now
      BY <2>2
    <2>4. \A n \in Time :
            /\ history[n] # NoRecord => n <= now
            /\ history[n].start # None => n <= history[n].start /\ history[n].start <= now
            /\ history[n].phase # "none" => history[n].start # None
      BY <1>4, <2>2
    <2>. QED BY <1>3, <1>5, <2>1, <2>3, <2>4, Zenon DEF InTime
  <1>8. ByAppBackup
    BY <1>1, <1>2, <1>4, <1>5 DEF ByAppBackup
  <1>9. OneRequest
    BY <1>3, <1>5 DEF OneRequest
  <1>10. NewGround
    BY <1>3, <1>5 DEF NewGround
  <1>11. Adopted
    BY <1>2, <1>3, <1>5 DEF Adopted
  <1>12. Cancels
    BY <1>3, <1>4, <1>5 DEF Cancels
  <1>13. Final
    BY <1>4, <1>5 DEF Final, FinalAt
  <1>. QED BY <1>6, <1>7, <1>8, <1>9, <1>10, <1>11, <1>12, <1>13 DEF SyncInv

LEMMA SyncInvStutter == SyncInv /\ UNCHANGED vars => SyncInv'
  <1> SUFFICES ASSUME SyncInv, UNCHANGED vars  PROVE SyncInv'
    OBVIOUS
  <1>1. /\ now' = now /\ ab' = ab /\ history' = history /\ velero' = velero /\ faults' = faults
        /\ scenario' = scenario /\ sync' = sync /\ restores' = restores /\ primary' = primary
    BY DEF vars
  <1>2. /\ Phases' = Phases /\ users' = users /\ exchanges' = exchanges /\ lostWrites' = lostWrites
        /\ Remote' = Remote
    BY <1>1 DEF Phases, plan, users, exchanges, lostWrites, Remote
  <1>3. Typed'
    BY <1>1, <1>2 DEF SyncInv, Typed
  <1>4. InTime' /\ ByAppBackup'
    BY <1>1, <1>2 DEF SyncInv, InTime, ByAppBackup, Listed, Made, Restored
  <1>5. OneRequest' /\ NewGround'
    BY <1>1, <1>2 DEF SyncInv, OneRequest, NewGround, Made
  <1>6. Adopted' /\ Cancels'
    BY <1>1, <1>2 DEF SyncInv, Adopted, Cancels, Listed
  <1>7. Final'
    BY <1>1, <1>2 DEF SyncInv, Final, FinalAt, Listed, Made, Restored
  <1>. QED BY <1>3, <1>4, <1>5, <1>6, <1>7 DEF SyncInv

LEMMA SyncInvNext == SyncInv /\ [Next]_vars => SyncInv'
  <1> SUFFICES ASSUME SyncInv, [Next]_vars  PROVE SyncInv'
    OBVIOUS
  <1>1. CASE Others
    BY <1>1, OthersKeep
  <1>2. CASE ReconcileSync
    BY <1>2, SyncKeeps
  <1>3. CASE BackupStep
    BY <1>3, PassKeeps, VeleroKeeps DEF BackupStep
  <1>4. CASE UNCHANGED vars
    BY <1>4, SyncInvStutter
  <1>. QED BY <1>1, <1>2, <1>3, <1>4 DEF Next, Others

THEOREM SyncInvHolds == Spec => []SyncInv
  BY SyncInvInit, SyncInvNext, PTL DEF Spec

\* One run makes one Velero backup (SendAction, AdoptRequested, createBackup):
\* what is named after the last end of a run has the name of the one request.
THEOREM OneBackup == Spec => []OneBackupPerRun
  <1>1. SyncInv => OneBackupPerRun
    <2> SUFFICES ASSUME SyncInv, users = {}
                 PROVE  Cardinality({n \in Time : n > sync.last /\ \E c \in Cluster : velero[c][n].phase # "none"}) <= 1
      BY DEF OneBackupPerRun
    <2> DEFINE S == {n \in Time : n > sync.last /\ \E c \in Cluster : velero[c][n].phase # "none"}
    <2>1. S \subseteq {ab.action.at}
      BY DEF SyncInv, OneRequest, Made
    <2>2. IsFiniteSet({ab.action.at}) /\ Cardinality({ab.action.at}) = 1
      BY FS_Singleton
    <2>3. Cardinality(S) <= Cardinality({ab.action.at})
      BY <2>1, <2>2, FS_Subset
    <2>. QED BY <2>2, <2>3
  <1>. QED BY <1>1, SyncInvHolds, PTL

\* A run that ends in Ready restored a backup newer than the last run
\* (executeSync, handleRestore, finishSync).
THEOREM Advances == Spec => SyncAdvances
  <1> DEFINE Advance ==
        LET b == sync.backup
        IN exchanges <= 1 /\ sync.state = "InProgress" /\ sync'.state = "Ready" /\ b # None
             => /\ history[b].phase = "Completed" /\ history[b].start > sync.last
                /\ \A p \in Phases :
                     /\ restores[b][p].status = "Succeeded"
                     /\ users = {} /\ (exchanges = 0 \/ lostWrites = 0)
                          => restores[b][p].at >= history[b].start
  <1>1. SyncInv /\ [Next]_vars => [Advance]_vars
    <2> SUFFICES ASSUME SyncInv, Next, exchanges <= 1, sync.state = "InProgress", sync'.state = "Ready",
                        sync.backup # None
                 PROVE  /\ history[sync.backup].phase = "Completed" /\ history[sync.backup].start > sync.last
                        /\ \A p \in Phases :
                             /\ restores[sync.backup][p].status = "Succeeded"
                             /\ users = {} /\ (exchanges = 0 \/ lostWrites = 0)
                                  => restores[sync.backup][p].at >= history[sync.backup].start
      BY DEF Advance
    <2>1. Typed /\ InTime /\ Adopted /\ Final
      BY DEF SyncInv
    <2>2. sync.backup \in Time /\ sync \in Syncs
      BY <2>1, Values, Fields
    <2>3. ReconcileSync
      <3>1. CASE Others
        BY <2>1, <3>1, OthersResult DEF OthersShape
      <3>2. CASE BackupStep
        BY <3>2 DEF BackupStep
      <3>. QED BY <3>1, <3>2 DEF Next, Others
    <2>4. RestoreDone /\ history[sync.backup].phase = "Completed"
      <3>1. \A t \in FailureType : ~failSync(t)
        BY <2>2 DEF failSync, Syncs
      <3>2. ~InitializeState /\ ~NoPVC
        BY DEF InitializeState, NoPVC, shouldRunNoPVCPreflight
      <3>3. ~DependencyFails /\ ~AppBackupFailed /\ ~BackupFails
        BY <3>1 DEF DependencyFails, AppBackupFailed, BackupFails, FailureType
      <3>4. \A i \in DOMAIN plan : ~RestoreFails(i) /\ ~CreateRestore(i)
        BY <3>1 DEF RestoreFails, CreateRestore, FailureType
      <3>5. ~BeginRun /\ ~CreateAppBackup /\ ~UpdateSpec /\ ~AdoptRequested /\ ~AdoptStarted /\ ~SendAction
        BY DEF BeginRun, CreateAppBackup, UpdateSpec, AdoptRequested, AdoptStarted, SendAction
      <3>. QED BY <2>3, <3>2, <3>3, <3>4, <3>5 DEF ReconcileSync, ContinueRun, AwaitBackup, handleRestore
    <2>5. history[sync.backup].start > sync.last
      BY <2>1, <2>2, <2>4 DEF Adopted, InTime
    <2>6. ASSUME NEW p \in Phases  PROVE restores[sync.backup][p].status = "Succeeded"
      <3>1. PICK i \in 1..Len(plan) : plan[i] = p
        BY <2>1, PhasesOf DEF Typed
      <3>2. i \in 1..((Len(plan) + 1) - 1)
        BY <2>1, <3>1, PhasesOf DEF Typed
      <3>. QED BY <2>4, <3>1, <3>2 DEF RestoreDone, ReachedPhase, RestoreOf
    <2>7. ASSUME NEW p \in Phases, users = {}, exchanges = 0 \/ lostWrites = 0
          PROVE  restores[sync.backup][p].at >= history[sync.backup].start
      <3>1. restores[sync.backup][p].status # "none" /\ Restored(sync.backup)
        BY <2>6 DEF Restored
      <3>2. history[sync.backup].start <= restores[sync.backup][p].at
        BY <2>1, <2>2, <2>7, <3>1 DEF Final, FinalAt
      <3>. QED BY <2>1, <2>2, <3>2, Values
    <2>. QED BY <2>4, <2>5, <2>6, <2>7
  <1>. QED BY <1>1, SyncInvHolds, PTL DEF Spec, SyncAdvances

\* A backup that was cancelled is not restored (RunCancel, syncStatus,
\* handleRestore).
THEOREM CancelIsKept == Spec => CancelHolds
  <1> DEFINE Holds ==
        exchanges <= 1 /\ lostWrites = 0 =>
          \A n \in Time, p \in Phases :
            restores[n][p].status = "none" /\ restores'[n][p].status = "Running"
              => history[n].managed # "Canceled"
  <1>1. SyncInv /\ [Next]_vars => [Holds]_vars
    <2> SUFFICES ASSUME SyncInv, Next, exchanges <= 1, lostWrites = 0, NEW n \in Time, NEW p \in Phases,
                        restores[n][p].status = "none", restores'[n][p].status = "Running"
                 PROVE  history[n].managed # "Canceled"
      BY DEF Holds
    <2>1. Typed /\ Cancels
      BY DEF SyncInv
    <2>2. ReconcileSync
      <3>1. CASE Others
        BY <2>1, <3>1, OthersResult DEF OthersShape
      <3>2. CASE BackupStep
        BY <3>2 DEF BackupStep
      <3>. QED BY <3>1, <3>2 DEF Next, Others
    <2>3. PICK q \in Phases : RestoreMade(q)
      BY <2>1, <2>2, SyncPass DEF SyncShape
    <2>4. history[n].phase = "Completed"
      <3>1. CASE n = sync.backup
        BY <2>3, <3>1 DEF RestoreMade
      <3>2. CASE n # sync.backup
        BY <2>1, <2>3, <3>2 DEF RestoreMade, Typed
      <3>. QED BY <3>1, <3>2
    <2>. QED BY <2>1, <2>4 DEF Cancels
  <1>. QED BY <1>1, SyncInvHolds, PTL DEF Spec, CancelHolds
=============================================================================
