-------------------------- MODULE AppRestoreProofs --------------------------
(***************************************************************************)
(* What holds of an AppRestore for any number of faults, requests and      *)
(* automatic retries, whatever its life cycle.                             *)
(***************************************************************************)
EXTENDS AppRestore, TLAPS

Phases == {"New", "Pending", "Restoring", "Gone", "Orphaned"} \cup Ended
Reports == {"none", "InProgress", "Completed"} \cup Failures

Status == [phase : Phases, mirrored : Reports, last : Nat, reason : BOOLEAN]
Metadata == [finalizer : BOOLEAN, missing : BOOLEAN, observed : BOOLEAN,
             count : [Stalls -> 0..RetryLimit], term : {"none", "fail", "retry"}]
Requests == [type : {"none"} \cup Actions, at : Nat, delete : BOOLEAN]
VeleroRestores == [state : {"none", "New"} \cup Running \cup Finished, deleting : BOOLEAN]

\* The stored objects.  That a kind of stall is retried at most RetryLimit times
\* is part of their type.
Typed ==
  /\ ar \in Status
  /\ meta \in Metadata
  /\ request \in Requests
  /\ v \in VeleroRestores
  /\ trafficless \in BOOLEAN
  /\ faults \in Nat
  /\ wanted \in BOOLEAN

\* The Velero Restore does not exist, or will not for long.
Down(x) == x.state = "none" \/ x.deleting

\* The phases in which the controller works towards a restore.
Open == {"New", "Pending", "Restoring"}

\* A retry that no pass has handled yet.
RetryPending == request.type = "retry" /\ request.at > ar.last

\* Nothing is created on the cluster, and nothing but Pending reached, before
\* the finalizer is stored.
FinalizerFirst == meta.finalizer \/ (v.state = "none" /\ ar.phase \in {"New", "Pending", "Gone", "Orphaned"})

\* Cancelled and Gone are only reached, and kept, with the Velero Restore down.
StoppedIsDown == ar.phase \in {"Cancelled", "Gone"} => Down(v)

\* A restore that is worked at is wanted, and so is one that ended and whose
\* retry is still to be handled.
OpenIsWanted == ar.phase \in Open \/ (ar.phase \in Ended /\ RetryPending) => wanted

RestoreInv == Typed /\ FinalizerFirst /\ StoppedIsDown /\ OpenIsWanted /\ ar.last <= request.at

(***************************************************************************)
(* What a pass may do, told without its handlers.                          *)
(***************************************************************************)

\* A pass that comes back to work after the end has a retry to handle, or could
\* not get a client for the cluster.
Reopens == RetryPending \/ faults' < faults

Pass ==
  /\ ar' \in Status /\ meta' \in Metadata /\ v' \in VeleroRestores /\ faults' \in Nat
  /\ request' = request /\ trafficless' = trafficless
  /\ meta.finalizer => meta'.finalizer
  /\ ar.last <= ar'.last /\ ar'.last <= request.at
  /\ Down(v) => Down(v') \/ ar.phase = "Restoring"
  /\ v.state = "none" => v'.state = "none" \/ (ar.phase = "Restoring" /\ meta.finalizer)
  /\ ~meta.finalizer => ar'.phase \in {"New", "Pending", "Gone", "Orphaned"}
  /\ ar'.phase = ar.phase
     \/ /\ ar.phase \notin {"Gone", "Orphaned"}
        /\ ar'.phase \in {"Cancelled", "Gone"} => Down(v')
        /\ ar'.phase \in Open /\ ar.phase \notin Open => Reopens /\ ar'.phase # "New"
(***************************************************************************)
(* The writes and the calls that the handlers share.                       *)
(***************************************************************************)

\* What the handlers make of the stored status stays a status.
LEMMA Statuses ==
  ASSUME Typed
  PROVE  /\ ar \in Status
         /\ \A p \in Phases : /\ To(p) \in Status /\ To(p).phase = p
                              /\ To(p).last = ar.last /\ To(p).mirrored = ar.mirrored
         /\ Fail \in Status /\ Fail.phase = "Failed" /\ Fail.last = ar.last
         /\ [ar EXCEPT !.mirrored = "none"] \in Status
         /\ [ar EXCEPT !.mirrored = "none"].phase = ar.phase
         /\ [ar EXCEPT !.mirrored = "none"].last = ar.last
         /\ Seen \in Status /\ Seen.phase = ar.phase /\ Seen.last = ar.last
<1>1. View \in Reports
  BY DEF Typed, View, VeleroRestores, Reports, Running, Finished, Failures
<1>2. "Failed" \in Phases /\ "none" \in Reports
  BY DEF Phases, Reports, Ended, Failures
<1> QED BY <1>1, <1>2 DEF Typed, Status, To, Fail, Upset, Seen

\* So do the variations of a status.
LEMMA Variations ==
  ASSUME Typed, NEW s \in Status
  PROVE  /\ Calm(s) \in Status /\ Calm(s).phase = s.phase /\ Calm(s).last = s.last
         /\ Upset(s) \in Status /\ Upset(s).phase = s.phase /\ Upset(s).last = s.last
         /\ Handled(s) \in Status /\ Handled(s).phase = s.phase /\ Handled(s).last = request.at
         /\ [s EXCEPT !.mirrored = "none"] \in Status
         /\ [s EXCEPT !.mirrored = "none"].phase = s.phase
         /\ [s EXCEPT !.mirrored = "none"].last = s.last
         /\ \A p \in Phases : /\ [s EXCEPT !.phase = p] \in Status
                              /\ [s EXCEPT !.phase = p].phase = p
                              /\ [s EXCEPT !.phase = p].last = s.last
<1>1. "none" \in Reports
  BY DEF Reports
<1> QED BY <1>1 DEF Typed, Status, Requests, Calm, Upset, Handled

\* The variations of the metadata keep the finalizer.
LEMMA Labels ==
  ASSUME Typed, NEW m \in Metadata
  PROVE  /\ \A t \in {"none", "fail", "retry"} :
              [m EXCEPT !.term = t] \in Metadata /\ [m EXCEPT !.term = t].finalizer = m.finalizer
         /\ \A b \in BOOLEAN :
              /\ [m EXCEPT !.missing = b] \in Metadata /\ [m EXCEPT !.missing = b].finalizer = m.finalizer
              /\ [m EXCEPT !.observed = b] \in Metadata /\ [m EXCEPT !.observed = b].finalizer = m.finalizer
         /\ [m EXCEPT !.missing = FALSE, !.observed = FALSE] \in Metadata
         /\ [m EXCEPT !.missing = FALSE, !.observed = FALSE].finalizer = m.finalizer
BY DEF Metadata

\* A retry is counted only below the limit.
LEMMA Counts ==
  ASSUME Typed, NEW k \in Stalls, NEW m \in Metadata, m.count = meta.count, Retryable(k)
  PROVE  Counted(k, m) \in Metadata /\ Counted(k, m).finalizer = m.finalizer
<1>1. m.count[k] \in 0..RetryLimit /\ m.count[k] < RetryLimit
  BY DEF Metadata, Retryable
<1>2. m.count[k] + 1 \in 0..RetryLimit
  BY <1>1, RestoreAssumption
<1>3. [m.count EXCEPT ![k] = m.count[k] + 1] \in [Stalls -> 0..RetryLimit]
  BY <1>2 DEF Metadata
<1>4. Counted(k, m) = [m EXCEPT !.count = [m.count EXCEPT ![k] = m.count[k] + 1]]
  BY DEF Counted, Metadata
<1> QED BY <1>3, <1>4 DEF Metadata

\* The outcome of a write, if it is the status s and the metadata m: each is
\* stored or not.
Written(s, m) ==
  /\ ar' \in Status /\ meta' \in Metadata
  /\ ar'.phase \in {ar.phase, s.phase} /\ ar'.last \in {ar.last, s.last}
  /\ meta'.finalizer \in {meta.finalizer, m.finalizer}
  /\ (~meta.finalizer /\ ar.phase \in {"New", "Pending"} /\ s.phase = "Pending") =>
       ar'.phase \in {"New", "Pending"}

\* Stored and Persist write no more than what they are given.
LEMMA Writes ==
  ASSUME Typed, NEW s \in Status, NEW m \in Metadata
  PROVE  /\ Stored(s, m) => Written(s, m)
         /\ Persist(s, m) => Written(s, m) /\ faults' \in Nat /\ faults' <= faults
         /\ \A f : Fault(f) => faults' \in Nat /\ faults' < faults
<1>1. \A f : Fault(f) => faults' \in Nat /\ faults' < faults
  BY DEF Fault, Typed
<1>2. Refreshed(s) \in Status /\ Refreshed(s).phase \in {ar.phase, s.phase}
      /\ Refreshed(s).last \in {ar.last, s.last}
  BY DEF Refreshed, Status, Typed
<1>3. Stored(s, m) => Written(s, m)
  BY <1>2 DEF Stored, Written, Typed
<1>4. ar' = ar /\ (meta' = m \/ meta' = meta) => Written(s, m)
  BY DEF Written, Typed
<1>5. faults' = faults => faults' \in Nat /\ faults' <= faults
  BY DEF Typed
<1>6. faults' \in Nat /\ faults' < faults => faults' <= faults
  BY DEF Typed
<1> QED BY <1>1, <1>3, <1>4, <1>5, <1>6 DEF Persist

\* Whatever is deleted is down, and what is down stays down.
LEMMA Deletions ==
  ASSUME Typed
  PROVE  /\ \A x \in Deleted \cup ForceTerminated :
              /\ x \in VeleroRestores /\ Down(x)
              /\ v.state = "none" => x.state = "none"
         /\ v \in VeleroRestores
<1>1. v \in VeleroRestores /\ v.state \in {"none", "New"} \cup Running \cup Finished /\ v.deleting \in BOOLEAN
  BY DEF Typed, VeleroRestores
<1> DEFINE leaving == [v EXCEPT !.deleting = TRUE]
<1>2. leaving \in VeleroRestores /\ leaving.deleting = TRUE /\ leaving.state = v.state
  BY <1>1 DEF VeleroRestores
<1>3. NoVelero \in VeleroRestores /\ NoVelero.state = "none"
  BY DEF NoVelero, VeleroRestores
<1>4. \A x \in Deleted \cup ForceTerminated :
        \/ x = NoVelero
        \/ x = v /\ Down(v)
        \/ x = leaving /\ v.state # "none"
  BY DEF Deleted, ForceTerminated, Down
<1> HIDE DEF leaving
<1> QED BY <1>1, <1>2, <1>3, <1>4 DEF Down

\* Handlers write a status s and metadata m while the finalizer is there: what
\* has to be shown of s and of the Velero Restore for the pass to be a Pass.
LEMMA PassOf ==
  ASSUME RestoreInv, NEW s \in Status, NEW m \in Metadata, Written(s, m), faults' \in Nat,
         UNCHANGED <<request, trafficless>>, v' \in VeleroRestores,
         ar.phase \notin {"New", "Gone", "Orphaned"}, meta.finalizer, m.finalizer,
         s.last \in {ar.last, request.at},
         s.phase \in {"Cancelled", "Gone"} => s.phase = ar.phase \/ Down(v'),
         s.phase \in Open /\ ar.phase \notin Open => Reopens /\ s.phase # "New",
         Down(v) => Down(v') \/ ar.phase = "Restoring",
         v.state = "none" => v'.state = "none" \/ ar.phase = "Restoring"
  PROVE  Pass
<1>1. ar.last \in Nat /\ request.at \in Nat /\ ar.last <= request.at
  BY DEF RestoreInv, Typed, Status, Requests
<1>2. ar'.last \in {ar.last, request.at}
  BY DEF Written
<1>3. ar.last <= ar'.last /\ ar'.last <= request.at
  BY <1>1, <1>2
<1>4. ar'.phase = ar.phase \/ ar'.phase = s.phase
  BY DEF Written
<1>5. meta'.finalizer
  BY DEF Written
<1> QED BY <1>3, <1>4, <1>5 DEF Pass, Written

\* The same for a handler that leaves the Velero Restore to deletion, or alone.
LEMMA PassLeaving ==
  ASSUME RestoreInv, NEW s \in Status, NEW m \in Metadata, Written(s, m), faults' \in Nat,
         UNCHANGED <<request, trafficless>>, v' \in Deleted \cup ForceTerminated \/ v' = v,
         ar.phase \notin {"New", "Gone", "Orphaned"}, meta.finalizer, m.finalizer,
         s.last \in {ar.last, request.at},
         s.phase \in {"Cancelled", "Gone"} => s.phase = ar.phase \/ v' \in Deleted \cup ForceTerminated,
         s.phase \in Open /\ ar.phase \notin Open => Reopens /\ s.phase # "New"
  PROVE  Pass
<1>1. Typed
  BY DEF RestoreInv
<1>2. v' \in VeleroRestores /\ (Down(v) => Down(v')) /\ (v.state = "none" => v'.state = "none")
      /\ (v' \in Deleted \cup ForceTerminated => Down(v'))
  BY <1>1, Deletions
<1> QED BY <1>2, PassOf

(***************************************************************************)
(* The handlers, one by one.                                               *)
(***************************************************************************)

\* From Restoring on, the finalizer is there.
LEMMA HasFinalizer ==
  ASSUME RestoreInv, ar.phase \in {"Restoring"} \cup Ended
  PROVE  /\ meta.finalizer /\ ar.phase \notin {"New", "Gone", "Orphaned"}
         /\ meta \in Metadata /\ ar \in Status /\ Typed
BY DEF RestoreInv, FinalizerFirst, Ended, Failures, Typed

\* Pending.
LEMMA PendingPass ==
  ASSUME RestoreInv, PendingHandler
  PROVE  Pass
<1>1. Typed /\ meta \in Metadata /\ ar \in Status /\ v \in VeleroRestores
  BY DEF RestoreInv, Typed
<1>2. ar.phase \in {"New", "Pending"} /\ UNCHANGED <<v, request, trafficless>>
  BY DEF PendingHandler
<1>3. ar.last \in Nat /\ request.at \in Nat /\ ar.last <= request.at
  BY DEF RestoreInv, Typed, Status, Requests
<1>4. {"Pending", "Restoring", "Failed"} \subseteq Phases
  BY DEF Phases, Ended, Failures
<1> DEFINE s1 == Calm(To("Pending"))
           m1 == [meta EXCEPT !.finalizer = TRUE]
           s2 == Upset(To("Pending"))
           s3 == Calm(To("Restoring"))
<1>5. s1 \in Status /\ s1.phase = "Pending" /\ s1.last = ar.last
      /\ s2 \in Status /\ s2.phase = "Pending" /\ s2.last = ar.last
      /\ s3 \in Status /\ s3.phase = "Restoring" /\ s3.last = ar.last
  <2>1. /\ To("Pending") \in Status /\ To("Pending").phase = "Pending" /\ To("Pending").last = ar.last
        /\ To("Restoring") \in Status /\ To("Restoring").phase = "Restoring" /\ To("Restoring").last = ar.last
    BY <1>1, <1>4, Statuses
  <2> QED BY <1>1, <2>1, Variations
<1>6. m1 \in Metadata /\ m1.finalizer = TRUE
  BY <1>1 DEF Metadata
<1>7. Fail \in Status /\ Fail.phase = "Failed" /\ Fail.last = ar.last
  BY <1>1, Statuses
<1>8. \/ ~meta.finalizer /\ Persist(s1, m1)
      \/ meta.finalizer /\ Persist(Fail, meta)
      \/ meta.finalizer /\ Stored(s2, meta) /\ Fault("client")
      \/ meta.finalizer /\ Persist(s3, meta)
  BY DEF PendingHandler, checkFails, backupFound
<1> HIDE DEF s1, s2, s3, m1
<1> DEFINE Outcome(s, m) == /\ Written(s, m) /\ faults' \in Nat
                            /\ s.phase \in {"Pending", "Restoring", "Failed"} /\ s.last = ar.last
<1>9. \/ ~meta.finalizer /\ Outcome(s1, m1)
      \/ meta.finalizer /\ Outcome(Fail, meta)
      \/ meta.finalizer /\ Outcome(s2, meta)
      \/ meta.finalizer /\ Outcome(s3, meta)
  BY <1>1, <1>5, <1>6, <1>7, <1>8, Writes
<1>10. ASSUME NEW s, NEW m, Outcome(s, m),
              (meta.finalizer /\ m.finalizer) \/ (~meta.finalizer /\ s.phase = "Pending")
       PROVE  Pass
  <2>1. ar'.last = ar.last /\ ar'.phase \in {"New", "Pending", "Restoring", "Failed"}
        /\ ar' \in Status /\ meta' \in Metadata /\ faults' \in Nat
    BY <1>2, <1>10 DEF Written
  <2>2. meta.finalizer => meta'.finalizer
    BY <1>10 DEF Written
  <2>3. ~meta.finalizer => ar'.phase \in {"New", "Pending"}
    BY <1>10, <1>2 DEF Written
  <2>4. ar.last <= ar'.last /\ ar'.last <= request.at
    BY <1>3, <2>1
  <2> QED BY <1>1, <1>2, <2>1, <2>2, <2>3, <2>4 DEF Pass, Open
<1> QED BY <1>5, <1>6, <1>9, <1>10

\* No client for the cluster.
LEMMA NoClientPass ==
  ASSUME RestoreInv, NoClient
  PROVE  Pass
<1>1. ar.phase \in {"Restoring"} \cup Ended /\ UNCHANGED <<v, request, trafficless>>
  BY DEF NoClient, Ended, Failures
<1>2. "Pending" \in Phases
  BY DEF Phases
<1> DEFINE s == Upset(To("Pending"))
<1>3. s \in Status /\ s.phase = "Pending" /\ s.last = ar.last
  BY <1>1, <1>2, HasFinalizer, Statuses, Variations
<1>4. Stored(s, meta) /\ Fault("client")
  BY DEF NoClient
<1> HIDE DEF s
<1>5. Written(s, meta) /\ faults' \in Nat /\ faults' < faults
  BY <1>1, <1>3, <1>4, HasFinalizer, Writes
<1> QED BY <1>1, <1>3, <1>5, HasFinalizer, PassLeaving DEF Reopens, Open

\* The termination of a trafficless restore begins with a status s that is not
\* an end, or that a retry sends back to Restoring.
LEMMA BeginPass ==
  ASSUME RestoreInv, ar.phase \in {"Restoring"} \cup Ended,
         NEW s \in Status, NEW m \in Metadata, NEW outcome \in {"fail", "retry"},
         m.finalizer = meta.finalizer, s.last \in {ar.last, request.at},
         s.phase = ar.phase \/ (s.phase = "Restoring" /\ RetryPending),
         Begin(s, m, outcome), UNCHANGED <<request, trafficless>>
  PROVE  Pass
<1> DEFINE noted == IF meta.term = "none" THEN [m EXCEPT !.term = outcome] ELSE m
<1>1. noted \in Metadata /\ noted.finalizer = meta.finalizer
  <2>1. Typed
    BY HasFinalizer
  <2>2. [m EXCEPT !.term = outcome] \in Metadata /\ [m EXCEPT !.term = outcome].finalizer = m.finalizer
    BY <2>1, Labels
  <2> QED BY <2>2
<1>2. \/ v' \in Deleted /\ Persist(Calm(s), noted)
      \/ UNCHANGED v /\ Stored(Upset(s), noted) /\ Fault("call")
  BY DEF Begin
<1> HIDE DEF noted
<1>3. Calm(s) \in Status /\ Calm(s).phase = s.phase /\ Calm(s).last = s.last
      /\ Upset(s) \in Status /\ Upset(s).phase = s.phase /\ Upset(s).last = s.last
  BY HasFinalizer, Variations
<1>4. faults' \in Nat /\ (Written(Calm(s), noted) \/ Written(Upset(s), noted))
  BY <1>1, <1>2, <1>3, HasFinalizer, Writes
<1>5. v' \in Deleted \cup ForceTerminated \/ v' = v
  BY <1>2
<1>6. s.phase \in {"Cancelled", "Gone"} => s.phase = ar.phase
  OBVIOUS
<1>7. s.phase \in Open /\ ar.phase \notin Open => Reopens /\ s.phase # "New"
  BY DEF Reopens
<1> QED BY <1>1, <1>3, <1>4, <1>5, <1>6, <1>7, HasFinalizer, PassLeaving

\* A pass over an open restore that writes a status of its phase or a verdict.
LEMMA VerdictPass ==
  ASSUME RestoreInv, ar.phase = "Restoring", NEW s \in Status, NEW m \in Metadata,
         m.finalizer = meta.finalizer, s.last = ar.last,
         s.phase \in {"Restoring", "Succeeded"} \cup Failures,
         Persist(s, m) \/ (Stored(s, m) /\ Fault("call")),
         v' \in Deleted \cup ForceTerminated \/ v' = v, UNCHANGED <<request, trafficless>>
  PROVE  Pass
<1>1. Written(s, m) /\ faults' \in Nat
  BY HasFinalizer, Writes
<1> QED BY <1>1, HasFinalizer, PassLeaving DEF Open, Failures

\* The termination under way.
LEMMA TerminationPass ==
  ASSUME RestoreInv, reconcileDataSyncTrafficlessTermination
  PROVE  Pass
<1> DEFINE done == [meta EXCEPT !.term = "none"]
           s == Calm([ar EXCEPT !.mirrored = "none"])
           m == [Cleared EXCEPT !.term = "none"]
<1>1. ar.phase = "Restoring" /\ UNCHANGED <<request, trafficless>>
  BY DEF reconcileDataSyncTrafficlessTermination, Restoring
<1>2. done \in Metadata /\ done.finalizer = meta.finalizer
  BY <1>1, HasFinalizer, Labels
<1>3. Cleared \in Metadata /\ Cleared.finalizer = meta.finalizer
  BY <1>1, HasFinalizer, Labels DEF Cleared
<1>4. m \in Metadata /\ m.finalizer = meta.finalizer
  BY <1>1, <1>3, HasFinalizer, Labels
<1>5. s \in Status /\ s.phase = "Restoring" /\ s.last = ar.last
  BY <1>1, HasFinalizer, Statuses, Variations
<1>6. Calm(ar) \in Status /\ Calm(ar).phase = "Restoring" /\ Calm(ar).last = ar.last
  BY <1>1, HasFinalizer, Variations
<1>7. Fail \in Status /\ Fail.phase = "Failed" /\ Fail.last = ar.last
  BY <1>1, HasFinalizer, Statuses
<1>8. \/ UNCHANGED v /\ Persist(Fail, done)
      \/ UNCHANGED v /\ Persist(s, m)
      \/ v' \in Deleted /\ Persist(Calm(ar), meta)
  BY DEF reconcileDataSyncTrafficlessTermination, Wait
<1> HIDE DEF done, s, m
<1> QED BY <1>1, <1>2, <1>4, <1>5, <1>6, <1>7, <1>8, HasFinalizer, VerdictPass DEF Failures

\* An automatic retry, or giving up.
LEMMA AutoRetryPass ==
  ASSUME RestoreInv, ar.phase = "Restoring", NEW k \in Stalls, NEW m \in Metadata,
         m.finalizer = meta.finalizer, m.count = meta.count,
         AutoRetry(k, m), UNCHANGED <<request, trafficless>>
  PROVE  Pass
<1> DEFINE counted == Counted(k, m)
           s == Calm([ar EXCEPT !.mirrored = "none"])
           cm == [counted EXCEPT !.missing = FALSE, !.observed = FALSE]
<1>1. Typed
  BY HasFinalizer
<1>2. Retryable(k) => counted \in Metadata /\ counted.finalizer = meta.finalizer
  BY <1>1, Counts
<1>3. Retryable(k) => cm \in Metadata /\ cm.finalizer = meta.finalizer
  BY <1>1, <1>2, Labels
<1>4. s \in Status /\ s.phase = "Restoring" /\ s.last = ar.last
  BY <1>1, Statuses, Variations
<1>5. Fail \in Status /\ Fail.phase = "Failed" /\ Fail.last = ar.last /\ ar \in Status
  BY <1>1, Statuses
<1>6. \/ Retryable(k) /\ Begin(ar, counted, "retry")
      \/ Begin(ar, m, "fail")
      \/ Retryable(k) /\ v' \in Deleted /\ Persist(s, cm)
      \/ UNCHANGED v /\ Stored(Fail, m) /\ Fault("call")
      \/ v' \in ForceTerminated /\ Persist(Fail, m)
  BY DEF AutoRetry
<1> HIDE DEF counted, s, cm
<1>7. CASE Retryable(k) /\ Begin(ar, counted, "retry")
  BY <1>2, <1>5, <1>7, BeginPass
<1>8. CASE Begin(ar, m, "fail")
  BY <1>5, <1>8, BeginPass
<1>9. CASE Retryable(k) /\ v' \in Deleted /\ Persist(s, cm)
  BY <1>3, <1>4, <1>9, VerdictPass
<1>10. CASE UNCHANGED v /\ Stored(Fail, m) /\ Fault("call")
  BY <1>5, <1>10, VerdictPass DEF Failures
<1>11. CASE v' \in ForceTerminated /\ Persist(Fail, m)
  BY <1>5, <1>11, VerdictPass DEF Failures
<1> QED BY <1>6, <1>7, <1>8, <1>9, <1>10, <1>11

\* The metadata that the passes of Restoring write.
LEMMA Trackings ==
  ASSUME RestoreInv
  PROVE  /\ Tracked \in Metadata /\ Tracked.finalizer = meta.finalizer /\ Tracked.count = meta.count
         /\ Cleared \in Metadata /\ Cleared.finalizer = meta.finalizer
         /\ [meta EXCEPT !.missing = TRUE] \in Metadata
         /\ [meta EXCEPT !.missing = TRUE].finalizer = meta.finalizer
         /\ \A b \in BOOLEAN : /\ [Tracked EXCEPT !.observed = @ \/ b] \in Metadata
                               /\ [Tracked EXCEPT !.observed = @ \/ b].finalizer = meta.finalizer
BY DEF RestoreInv, Typed, Metadata, Tracked, Cleared

\* The Velero Restore is created: the one pass that brings one up.
LEMMA CreatePass ==
  ASSUME RestoreInv, createVeleroRestore
  PROVE  Pass
<1>1. ar.phase = "Restoring" /\ UNCHANGED <<request, trafficless>>
  BY DEF createVeleroRestore, NotFound, Restoring
<1>2. \/ v' = [state |-> "New", deleting |-> FALSE] /\ Persist(Calm(ar), Cleared)
      \/ UNCHANGED v /\ Stored(Fail, Cleared) /\ Fault("call")
  BY DEF createVeleroRestore, Wait
<1>3. Typed /\ meta.finalizer
  BY <1>1, HasFinalizer
<1>4. Calm(ar) \in Status /\ Calm(ar).phase = "Restoring" /\ Calm(ar).last = ar.last
  BY <1>1, HasFinalizer, Variations
<1>5. Fail \in Status /\ Fail.phase = "Failed" /\ Fail.last = ar.last
  BY <1>3, Statuses
<1>6. CASE UNCHANGED v /\ Stored(Fail, Cleared) /\ Fault("call")
  BY <1>1, <1>5, <1>6, Trackings, VerdictPass DEF Failures
<1>7. CASE v' = [state |-> "New", deleting |-> FALSE] /\ Persist(Calm(ar), Cleared)
  <2>1. v' \in VeleroRestores
    BY <1>7 DEF VeleroRestores
  <2>2. Written(Calm(ar), Cleared) /\ faults' \in Nat
    BY <1>3, <1>4, <1>7, Trackings, Writes
  <2> QED BY <1>1, <1>3, <1>4, <2>1, <2>2, Trackings, PassOf
<1> QED BY <1>2, <1>6, <1>7

\* It is missing.
LEMMA MissingPass ==
  ASSUME RestoreInv, restoreMissing
  PROVE  Pass
<1>1. ar.phase = "Restoring" /\ UNCHANGED <<request, trafficless>>
  BY DEF restoreMissing, NotFound, Restoring
<1>2. Calm(ar) \in Status /\ Calm(ar).phase = "Restoring" /\ Calm(ar).last = ar.last /\ meta \in Metadata
  BY <1>1, HasFinalizer, Variations
<1>3. \/ UNCHANGED v /\ Persist(Calm(ar), [meta EXCEPT !.missing = TRUE])
      \/ UNCHANGED v /\ Persist(Calm(ar), meta)
      \/ AutoRetry("missing", meta)
  BY DEF restoreMissing, Wait
<1>4. CASE UNCHANGED v /\ Persist(Calm(ar), [meta EXCEPT !.missing = TRUE])
  BY <1>1, <1>2, <1>4, Trackings, VerdictPass
<1>5. CASE UNCHANGED v /\ Persist(Calm(ar), meta)
  BY <1>1, <1>2, <1>5, VerdictPass
<1>6. CASE AutoRetry("missing", meta)
  BY <1>1, <1>2, <1>6, AutoRetryPass DEF Stalls
<1> QED BY <1>3, <1>4, <1>5, <1>6

\* It cannot be read.
LEMMA GetFailedPass ==
  ASSUME RestoreInv, GetFailed
  PROVE  Pass
<1>1. ar.phase \in {"Restoring", "Cancelled"} /\ UNCHANGED <<v, request, trafficless>>
  BY DEF GetFailed, Restoring
<1>2. ar.phase \in {"Restoring"} \cup Ended
  BY <1>1 DEF Ended
<1>3. Fail \in Status /\ Fail.phase = "Failed" /\ Fail.last = ar.last
  BY <1>2, HasFinalizer, Statuses
<1>4. Written(Fail, meta) /\ faults' \in Nat
  BY <1>2, <1>3, HasFinalizer, Writes DEF GetFailed
<1> QED BY <1>1, <1>2, <1>3, <1>4, HasFinalizer, PassLeaving DEF Open

\* The controller gives up.
LEMMA GiveUpPass ==
  ASSUME RestoreInv, giveUp
  PROVE  Pass
<1> DEFINE m == [Tracked EXCEPT !.observed = @ \/ v.state = "New"]
           failed(s) == Upset([s EXCEPT !.phase = "Failed"])
<1>1. ar.phase = "Restoring" /\ UNCHANGED <<request, trafficless>>
  BY DEF giveUp, Unasked, Found, Restoring
<1>2. m \in Metadata /\ m.finalizer = meta.finalizer
  BY Trackings
<1>3. PICK s \in {ar, Seen} :
        \/ Begin(s, m, "fail")
        \/ v' \in ForceTerminated /\ Persist(failed(s), m)
        \/ UNCHANGED v /\ Stored(failed(s), m) /\ Fault("call")
  BY DEF giveUp
<1>4. s \in Status /\ s.phase = ar.phase /\ s.last = ar.last
  BY <1>1, HasFinalizer, Statuses
<1>5. failed(s) \in Status /\ failed(s).phase = "Failed" /\ failed(s).last = ar.last
  <2> DEFINE t == [s EXCEPT !.phase = "Failed"]
  <2>1. "Failed" \in Phases
    BY DEF Phases, Ended, Failures
  <2>2. t \in Status /\ t.phase = "Failed" /\ t.last = ar.last
    BY <1>1, <1>4, <2>1, HasFinalizer, Variations
  <2> HIDE DEF t
  <2>3. failed(s) = Upset(t)
    BY DEF t
  <2> QED BY <1>1, <2>2, <2>3, HasFinalizer, Variations
<1> HIDE DEF m, failed
<1>6. CASE Begin(s, m, "fail")
  BY <1>1, <1>2, <1>4, <1>6, BeginPass
<1>7. CASE v' \in ForceTerminated /\ Persist(failed(s), m)
  BY <1>1, <1>2, <1>5, <1>7, VerdictPass DEF Failures
<1>8. CASE UNCHANGED v /\ Stored(failed(s), m) /\ Fault("call")
  BY <1>1, <1>2, <1>5, <1>8, VerdictPass DEF Failures
<1> QED BY <1>3, <1>6, <1>7, <1>8

\* A stall is found.
LEMMA StallPass ==
  ASSUME RestoreInv, handleRestoreStall
  PROVE  Pass
<1>1. ar.phase = "Restoring" /\ UNCHANGED <<request, trafficless>>
  BY DEF handleRestoreStall, Unasked, Found, Restoring
<1>2. \E k \in Stalls : AutoRetry(k, Tracked)
  BY DEF handleRestoreStall, Stalls
<1> QED BY <1>1, <1>2, Trackings, AutoRetryPass

\* The Velero Restore is polled, and judged when it ended.
LEMMA PollPass ==
  ASSUME RestoreInv, Poll
  PROVE  Pass
<1> DEFINE m == [Tracked EXCEPT !.observed = @ \/ v.state = "New"]
<1>1. ar.phase = "Restoring" /\ UNCHANGED <<v, request, trafficless>>
  BY DEF Poll, Unasked, Found, Restoring
<1>2. m \in Metadata /\ m.finalizer = meta.finalizer
  BY Trackings
<1>3. Seen \in Status /\ Seen.phase = "Restoring" /\ Seen.last = ar.last
  BY <1>1, HasFinalizer, Statuses
<1>4. Calm(Seen) \in Status /\ Calm(Seen).phase = "Restoring" /\ Calm(Seen).last = ar.last
  BY <1>1, <1>3, HasFinalizer, Variations
<1>5. Persist(Calm(Seen), m)
  BY DEF Poll
<1> HIDE DEF m
<1> QED BY <1>1, <1>2, <1>4, <1>5, VerdictPass

\* The verdict over one that ended.
LEMMA JudgePass ==
  ASSUME RestoreInv, Verdict
  PROVE  Pass
<1> DEFINE judged(phase) == [Seen EXCEPT !.phase = phase]
<1>1. ar.phase = "Restoring" /\ UNCHANGED <<request, trafficless>>
  BY DEF Verdict, Unasked, Found, Restoring
<1>2. Seen \in Status /\ Seen.phase = "Restoring" /\ Seen.last = ar.last
  BY <1>1, HasFinalizer, Statuses
<1>3. {"Succeeded"} \cup Failures \subseteq Phases
  BY DEF Phases, Ended
<1>4. ASSUME NEW p \in {"Succeeded"} \cup Failures
      PROVE  judged(p) \in Status /\ judged(p).phase = p /\ judged(p).last = ar.last
  BY <1>1, <1>2, <1>3, HasFinalizer, Variations
<1> HIDE DEF judged
<1>5. ASSUME NEW p \in {"Succeeded"} \cup Failures
      PROVE  /\ Calm(judged(p)) \in Status /\ Calm(judged(p)).phase = p /\ Calm(judged(p)).last = ar.last
             /\ Upset(judged(p)) \in Status /\ Upset(judged(p)).phase = p /\ Upset(judged(p)).last = ar.last
  BY <1>1, <1>4, HasFinalizer, Variations
<1>6. \/ UNCHANGED v /\ \E p \in {"Succeeded"} \cup Failures :
                           Persist(Calm(judged(p)), Tracked) \/ Persist(Upset(judged(p)), Tracked)
      \/ Begin(Seen, Tracked, "fail")
  BY DEF Verdict, judged, verifyStorageClassRuleEffects, Failures
<1>7. CASE Begin(Seen, Tracked, "fail")
  BY <1>1, <1>2, <1>7, Trackings, BeginPass
<1>8. ASSUME UNCHANGED v, NEW p \in {"Succeeded"} \cup Failures,
             Persist(Calm(judged(p)), Tracked) \/ Persist(Upset(judged(p)), Tracked)
      PROVE  Pass
  BY <1>1, <1>5, <1>8, Trackings, VerdictPass
<1> QED BY <1>6, <1>7, <1>8

\* A handler that answers a request writes a handled status.
LEMMA AnswerPass ==
  ASSUME RestoreInv, ar.phase \in {"Restoring"} \cup Ended, NEW s \in Status, NEW m \in Metadata,
         m.finalizer = meta.finalizer, s.last = request.at,
         s.phase \in {"Cancelled", "Failed", "Pending", "Restoring"},
         s.phase = "Cancelled" => v' \in Deleted \cup ForceTerminated,
         s.phase \in {"Pending", "Restoring"} => RetryPending,
         Persist(s, m) \/ (Stored(s, m) /\ Fault("call")),
         v' \in Deleted \cup ForceTerminated \/ v' = v, UNCHANGED <<request, trafficless>>
  PROVE  Pass
<1>1. Written(s, m) /\ faults' \in Nat
  BY HasFinalizer, Writes
<1> QED BY <1>1, HasFinalizer, PassLeaving DEF Open, Reopens

\* The handled statuses.
LEMMA Answers ==
  ASSUME Typed
  PROVE  /\ Handled(Fail) \in Status /\ Handled(Fail).phase = "Failed" /\ Handled(Fail).last = request.at
         /\ \A p \in {"Cancelled", "Pending", "Restoring"} :
              LET s == Handled(To(p))
                  t == Calm(s)
                  u == Calm([s EXCEPT !.mirrored = "none"]) IN
              /\ s \in Status /\ s.phase = p /\ s.last = request.at
              /\ t \in Status /\ t.phase = p /\ t.last = request.at
              /\ u \in Status /\ u.phase = p /\ u.last = request.at
<1>1. {"Cancelled", "Pending", "Restoring"} \subseteq Phases
  BY DEF Phases, Ended
<1>2. ASSUME NEW p \in {"Cancelled", "Pending", "Restoring"}
      PROVE  Handled(To(p)) \in Status /\ Handled(To(p)).phase = p /\ Handled(To(p)).last = request.at
  <2>1. To(p) \in Status /\ To(p).phase = p
    BY <1>1, Statuses
  <2> QED BY <2>1, Variations
<1>3. ASSUME NEW p \in {"Cancelled", "Pending", "Restoring"}
      PROVE  LET t == Calm(Handled(To(p))) IN t \in Status /\ t.phase = p /\ t.last = request.at
  <2> DEFINE s == Handled(To(p))
  <2>1. s \in Status /\ s.phase = p /\ s.last = request.at
    BY <1>2
  <2> HIDE DEF s
  <2>2. Calm(s) \in Status /\ Calm(s).phase = p /\ Calm(s).last = request.at
    BY <2>1, Variations
  <2> QED BY <2>2 DEF s
<1>4. ASSUME NEW p \in {"Cancelled", "Pending", "Restoring"}
      PROVE  LET u == Calm([Handled(To(p)) EXCEPT !.mirrored = "none"])
             IN  u \in Status /\ u.phase = p /\ u.last = request.at
  <2> DEFINE s == [Handled(To(p)) EXCEPT !.mirrored = "none"]
  <2>1. s \in Status /\ s.phase = p /\ s.last = request.at
    BY <1>2, Variations
  <2> HIDE DEF s
  <2>2. Calm(s) \in Status /\ Calm(s).phase = p /\ Calm(s).last = request.at
    BY <2>1, Variations
  <2> QED BY <2>2 DEF s
<1>5. Handled(Fail) \in Status /\ Handled(Fail).phase = "Failed" /\ Handled(Fail).last = request.at
  BY Statuses, Variations
<1> QED BY <1>2, <1>3, <1>4, <1>5

\* The phases that listen to requests.
LEMMA Listening ==
  ASSUME RestoreInv, Listens
  PROVE  /\ ar.phase \in {"Restoring"} \cup Ended /\ Typed
         /\ LET m == IF ar.phase = "Restoring" THEN Tracked ELSE meta IN
              m \in Metadata /\ m.finalizer = meta.finalizer
<1>1. ar.phase \in {"Restoring"} \cup Ended
  BY DEF Listens, Found, Restoring, Ended
<1> QED BY <1>1, HasFinalizer, Trackings

\* A cancel is answered.
LEMMA CancelPass ==
  ASSUME RestoreInv, cancel
  PROVE  Pass
<1> DEFINE m == IF ar.phase = "Restoring" THEN Tracked ELSE meta
           s == Calm([Handled(To("Cancelled")) EXCEPT !.mirrored = "none"])
<1>1. Listens /\ UNCHANGED <<request, trafficless>>
  BY DEF cancel
<1>2. \/ v' \in ForceTerminated /\ Persist(s, m)
      \/ UNCHANGED v /\ Stored(Handled(Fail), m) /\ Fault("call")
      \/ UNCHANGED v /\ Persist(Handled(Fail), m)
  BY DEF cancel
<1>3. ar.phase \in {"Restoring"} \cup Ended /\ Typed /\ m \in Metadata /\ m.finalizer = meta.finalizer
  BY <1>1, Listening
<1>4. s \in Status /\ s.phase = "Cancelled" /\ s.last = request.at
      /\ Handled(Fail) \in Status /\ Handled(Fail).phase = "Failed" /\ Handled(Fail).last = request.at
  BY <1>3, Answers
<1> HIDE DEF m, s
<1>5. CASE v' \in ForceTerminated /\ Persist(s, m)
  BY <1>1, <1>3, <1>4, <1>5, AnswerPass
<1>6. CASE UNCHANGED v /\ Stored(Handled(Fail), m) /\ Fault("call")
  BY <1>1, <1>3, <1>4, <1>6, AnswerPass
<1>7. CASE UNCHANGED v /\ Persist(Handled(Fail), m)
  BY <1>1, <1>3, <1>4, <1>7, AnswerPass
<1> QED BY <1>2, <1>5, <1>6, <1>7

\* A retry is answered.
LEMMA RetryPass ==
  ASSUME RestoreInv, retry
  PROVE  Pass
<1> DEFINE m == IF ar.phase = "Restoring" THEN Tracked ELSE meta
           n == IF m.term = "none" THEN [m EXCEPT !.term = "retry"] ELSE m
           b == Handled(To("Restoring"))
           r == Calm(Handled(To("Restoring")))
           p == Calm([Handled(To("Pending")) EXCEPT !.mirrored = "none"])
           q == Calm(Handled(To("Pending")))
           V == v' \in Deleted \cup ForceTerminated \/ v' = v
<1>1. Listens /\ UNCHANGED <<request, trafficless>> /\ RetryPending
  BY DEF retry, Asked, RetryPending
<1>2. \/ Begin(b, m, "retry")
      \/ V /\ Persist(r, n)
      \/ V /\ Persist(Handled(Fail), m)
      \/ V /\ Persist(p, m)
      \/ V /\ Stored(Handled(Fail), m) /\ Fault("call")
      \/ V /\ Persist(q, m)
  BY DEF retry
<1>3. ar.phase \in {"Restoring"} \cup Ended /\ Typed /\ m \in Metadata /\ m.finalizer = meta.finalizer
  BY <1>1, Listening
<1>4. n \in Metadata /\ n.finalizer = meta.finalizer
  <2> HIDE DEF m
  <2>1. [m EXCEPT !.term = "retry"] \in Metadata /\ [m EXCEPT !.term = "retry"].finalizer = m.finalizer
    BY <1>3, Labels
  <2> QED BY <1>3, <2>1
<1>5. /\ Handled(Fail) \in Status /\ Handled(Fail).phase = "Failed" /\ Handled(Fail).last = request.at
      /\ b \in Status /\ b.phase = "Restoring" /\ b.last = request.at
      /\ r \in Status /\ r.phase = "Restoring" /\ r.last = request.at
      /\ p \in Status /\ p.phase = "Pending" /\ p.last = request.at
      /\ q \in Status /\ q.phase = "Pending" /\ q.last = request.at
  BY <1>3, Answers
<1> HIDE DEF m, n, b, r, p, q
<1>6. CASE Begin(b, m, "retry")
  BY <1>1, <1>3, <1>5, <1>6, BeginPass
<1>7. ASSUME NEW s \in {r, p, q, Handled(Fail)}, NEW k \in {m, n}, V,
             Persist(s, k) \/ (Stored(s, k) /\ Fault("call"))
      PROVE  Pass
  BY <1>1, <1>3, <1>4, <1>5, <1>7, AnswerPass
<1> QED BY <1>2, <1>6, <1>7

\* A zombie is terminated.
LEMMA ZombiePass ==
  ASSUME RestoreInv, FailedHandler
  PROVE  Pass
<1>1. ar.phase = "Failed" /\ v' \in ForceTerminated /\ UNCHANGED <<ar, meta, request, trafficless, faults>>
  BY DEF FailedHandler, Zombie
<1>2. Written(ar, meta) /\ ar \in Status /\ meta \in Metadata /\ faults' \in Nat
  BY <1>1 DEF Written, RestoreInv, Typed
<1>3. ar.phase \in {"Restoring"} \cup Ended
  BY <1>1 DEF Ended, Failures
<1> QED BY <1>1, <1>2, <1>3, HasFinalizer, PassLeaving

\* The AppRestore is deleted.
LEMMA DeletingPass ==
  ASSUME RestoreInv, DeletingHandler
  PROVE  Pass
<1>1. Typed /\ meta \in Metadata /\ v \in VeleroRestores
  BY DEF RestoreInv, Typed
<1>2. UNCHANGED <<meta, request, trafficless>> /\ ar.phase \notin {"Gone", "Orphaned"}
  BY DEF DeletingHandler
<1>3. PICK p \in {"Gone", "Orphaned"} :
        /\ ar' = To(p) /\ (p = "Gone" => v' \in Deleted \/ (v' = v /\ ~meta.finalizer))
        /\ v' = v \/ v' \in Deleted
  BY DEF DeletingHandler
<1>4. {"Gone", "Orphaned"} \subseteq Phases
  BY DEF Phases
<1>5. ar' \in Status /\ ar'.phase = p /\ ar'.last = ar.last
  BY <1>1, <1>3, <1>4, Statuses
<1>6. ar'.phase = "Gone" => Down(v')
  <2>1. ~meta.finalizer => Down(v)
    BY DEF RestoreInv, FinalizerFirst, Down
  <2>2. ar'.phase = "Gone" => v' \in Deleted \/ (v' = v /\ ~meta.finalizer)
    BY <1>3, <1>5
  <2> QED BY <1>1, <2>1, <2>2, Deletions
<1>7. v' \in VeleroRestores /\ (Down(v) => Down(v')) /\ (v.state = "none" => v'.state = "none")
  BY <1>1, <1>3, Deletions
<1>8. ar.last <= ar'.last /\ ar'.last <= request.at
  BY <1>5 DEF RestoreInv, Typed, Status, Requests
<1>9. faults' \in Nat
  BY <1>1 DEF DeletingHandler, Fault, Typed
<1> QED BY <1>1, <1>2, <1>5, <1>6, <1>7, <1>8, <1>9 DEF Pass, Open

(***************************************************************************)
(* The invariant, and what it is for.                                      *)
(***************************************************************************)

\* Every reconciliation is a pass.
LEMMA EveryPass ==
  ASSUME RestoreInv, Reconcile
  PROVE  Pass
BY PendingPass, NoClientPass, TerminationPass, CreatePass, MissingPass, GetFailedPass,
   GiveUpPass, StallPass, PollPass, JudgePass, CancelPass, RetryPass, ZombiePass, DeletingPass
   DEF Reconcile

\* A pass keeps the invariant.
LEMMA PassKeeps ==
  ASSUME RestoreInv, Reconcile
  PROVE  RestoreInv'
<1>1. Pass
  BY EveryPass
<1>2. Typed /\ FinalizerFirst /\ StoppedIsDown /\ OpenIsWanted /\ ar.last <= request.at
  BY DEF RestoreInv
<1> DEFINE ending == ar'.phase \in Ended /\ ar.phase \notin Ended
           back == ar.phase \in Ended /\ ar'.phase \in {"Pending", "Restoring"} /\ faults' < faults
<1>3. /\ ending => wanted' = (request.type = "retry" /\ request.at > ar'.last)
      /\ ~ending /\ back => wanted' = TRUE
      /\ ~ending /\ ~back => wanted' = wanted
  BY DEF Reconcile
<1>4. Typed'
  BY <1>1, <1>2, <1>3 DEF Typed, Pass
<1>5. FinalizerFirst'
  BY <1>1, <1>2 DEF FinalizerFirst, Pass
<1>6. StoppedIsDown'
  BY <1>1, <1>2 DEF StoppedIsDown, Pass
<1>7. (ar.last <= request.at)'
  BY <1>1 DEF Pass
<1>8. RetryPending' => RetryPending
  <2>1. ar.last \in Nat /\ ar'.last \in Nat /\ request.at \in Nat
    BY <1>1, <1>2 DEF Typed, Pass, Status, Requests
  <2> QED BY <1>1, <2>1 DEF RetryPending, Pass
<1>9. ar.phase \in Phases /\ ar'.phase \in Phases
  BY <1>1, <1>2 DEF Typed, Pass, Status
<1>10. ar.phase \notin {"Gone", "Orphaned"}
  BY DEF Reconcile
<1>11. OpenIsWanted'
  <2>1. CASE ending
    BY <1>1, <1>3, <2>1 DEF OpenIsWanted, RetryPending, Pass, Open, Ended, Failures
  <2>2. CASE ~ending /\ back
    BY <1>3, <2>2 DEF OpenIsWanted
  <2>3. CASE ~ending /\ ~back
    <3>1. wanted' = wanted
      BY <1>3, <2>3
    <3>2. CASE ar'.phase \in Ended
      BY <1>2, <1>8, <2>3, <3>1, <3>2 DEF OpenIsWanted, Open, Ended, Failures
    <3>3. CASE ar'.phase \in Open
      <4>1. CASE ar.phase \in Open
        BY <1>2, <3>1, <4>1 DEF OpenIsWanted
      <4>2. CASE ar.phase \in Ended
        <5>1. ar'.phase # "New" => RetryPending
          BY <1>1, <2>3, <3>3, <4>2 DEF Pass, Reopens, Open, Ended, Failures
        <5>2. ar'.phase # "New"
          BY <1>1, <3>3, <4>2 DEF Pass, Open, Ended, Failures
        <5> QED BY <1>2, <3>1, <4>2, <5>1, <5>2 DEF OpenIsWanted
      <4> QED BY <1>9, <1>10, <4>1, <4>2 DEF Phases, Open
    <3> QED BY <3>2, <3>3 DEF OpenIsWanted
  <2> QED BY <2>1, <2>2, <2>3
<1> QED BY <1>4, <1>5, <1>6, <1>7, <1>11 DEF RestoreInv

\* The user only asks; a retry makes the restore wanted.
LEMMA RequestKeeps ==
  ASSUME RestoreInv, Request
  PROVE  RestoreInv'
<1>1. UNCHANGED <<ar, meta, v, trafficless, faults>>
  BY DEF Request
<1>2. Typed /\ FinalizerFirst /\ StoppedIsDown /\ OpenIsWanted /\ ar.last <= request.at
  BY DEF RestoreInv
<1>3. request.at + 1 \in Nat /\ ar.last <= request.at + 1
  BY <1>2 DEF Typed, Status, Requests
<1>4. \/ \E a \in Actions : /\ request' = [request EXCEPT !.type = a, !.at = @ + 1]
                            /\ wanted' = (wanted \/ a = "retry")
      \/ request' = [request EXCEPT !.delete = TRUE] /\ wanted' = wanted
  BY DEF Request
<1>5. CASE \E a \in Actions : /\ request' = [request EXCEPT !.type = a, !.at = @ + 1]
                              /\ wanted' = (wanted \/ a = "retry")
  <2>1. PICK a \in Actions : /\ request' = [request EXCEPT !.type = a, !.at = @ + 1]
                             /\ wanted' = (wanted \/ a = "retry")
    BY <1>5
  <2>2. request' \in Requests /\ request'.type = a /\ request'.at = request.at + 1
    BY <1>2, <1>3, <2>1 DEF Typed, Requests
  <2>3. Typed'
    BY <1>1, <1>2, <2>1, <2>2 DEF Typed
  <2>4. FinalizerFirst' /\ StoppedIsDown'
    BY <1>1, <1>2 DEF FinalizerFirst, StoppedIsDown
  <2>5. OpenIsWanted'
    BY <1>1, <1>2, <2>1, <2>2 DEF OpenIsWanted, RetryPending
  <2>6. (ar.last <= request.at)'
    BY <1>1, <1>3, <2>2
  <2> QED BY <2>3, <2>4, <2>5, <2>6 DEF RestoreInv
<1>6. CASE request' = [request EXCEPT !.delete = TRUE] /\ wanted' = wanted
  <2>1. request' \in Requests /\ request'.type = request.type /\ request'.at = request.at
    BY <1>2, <1>6 DEF Typed, Requests
  <2>2. Typed'
    BY <1>1, <1>2, <1>6, <2>1 DEF Typed
  <2>3. FinalizerFirst' /\ StoppedIsDown' /\ OpenIsWanted' /\ (ar.last <= request.at)'
    BY <1>1, <1>2, <1>6, <2>1 DEF FinalizerFirst, StoppedIsDown, OpenIsWanted, RetryPending
  <2> QED BY <2>2, <2>3 DEF RestoreInv
<1> QED BY <1>4, <1>5, <1>6

\* Velero does not make a restore, and does not take a deletion back.
LEMMA VeleroKeeps ==
  ASSUME RestoreInv, Velero
  PROVE  RestoreInv' /\ (v.state = "none" => v'.state = "none")
<1>1. UNCHANGED <<ar, meta, request, trafficless, wanted>>
  BY DEF Velero
<1>2. Typed /\ FinalizerFirst /\ StoppedIsDown /\ OpenIsWanted /\ ar.last <= request.at
  BY DEF RestoreInv
<1>3. faults' \in Nat
  BY <1>2 DEF Velero, Fault, Typed
<1>4. \/ v' = NoVelero
      \/ /\ v.state # "none"
         /\ \E t \in Running \cup Finished : v' = [v EXCEPT !.state = t]
  BY DEF Velero, Running, Finished
<1>5. NoVelero \in VeleroRestores /\ NoVelero.state = "none"
  BY DEF NoVelero, VeleroRestores
<1>6. ASSUME NEW t \in Running \cup Finished
      PROVE  LET w == [v EXCEPT !.state = t] IN w \in VeleroRestores /\ w.deleting = v.deleting
  BY <1>2 DEF Typed, VeleroRestores
<1>7. /\ v' \in VeleroRestores /\ (Down(v) => Down(v'))
      /\ (v.state = "none" => v'.state = "none")
  <2>1. CASE v' = NoVelero
    BY <1>5, <2>1 DEF Down
  <2>2. ASSUME v.state # "none", NEW t \in Running \cup Finished, v' = [v EXCEPT !.state = t]
        PROVE  v' \in VeleroRestores /\ v'.deleting = v.deleting
    BY <1>6, <2>2
  <2> QED BY <1>4, <2>1, <2>2 DEF Down
<1>8. Typed'
  BY <1>1, <1>2, <1>3, <1>7 DEF Typed
<1>9. FinalizerFirst' /\ StoppedIsDown' /\ OpenIsWanted' /\ (ar.last <= request.at)'
  BY <1>1, <1>2, <1>7 DEF FinalizerFirst, StoppedIsDown, OpenIsWanted, RetryPending
<1> QED BY <1>7, <1>8, <1>9 DEF RestoreInv

\* The inductive invariant holds of every behaviour of the restore.
THEOREM RestoreInvHolds == Spec => []RestoreInv
<1>1. Init => RestoreInv
  <2> SUFFICES ASSUME Init PROVE RestoreInv
    OBVIOUS
  <2>1. "New" \in Phases /\ "none" \in Reports /\ 0 \in 0..RetryLimit
    BY RestoreAssumption DEF Phases, Reports
  <2>2. ar \in Status /\ ar.phase = "New" /\ ar.last = 0
    BY <2>1 DEF Init, Status
  <2>3. meta \in Metadata
    BY <2>1 DEF Init, Metadata
  <2>4. request \in Requests /\ request.at = 0
    BY DEF Init, Requests
  <2>5. v \in VeleroRestores /\ v.state = "none"
    BY DEF Init, NoVelero, VeleroRestores
  <2>6. trafficless \in BOOLEAN /\ faults \in Nat /\ wanted = TRUE
    BY RestoreAssumption DEF Init
  <2> QED BY <2>2, <2>3, <2>4, <2>5, <2>6
          DEF RestoreInv, Typed, FinalizerFirst, StoppedIsDown, OpenIsWanted
<1>2. RestoreInv /\ [Next]_vars => RestoreInv'
  <2> SUFFICES ASSUME RestoreInv, [Next]_vars PROVE RestoreInv'
    OBVIOUS
  <2>1. CASE Reconcile
    BY <2>1, PassKeeps
  <2>2. CASE Request
    BY <2>2, RequestKeeps
  <2>3. CASE Velero
    BY <2>3, VeleroKeeps
  <2>4. CASE UNCHANGED vars
    BY <2>4 DEF vars, RestoreInv, Typed, FinalizerFirst, StoppedIsDown, OpenIsWanted, RetryPending
  <2> QED BY <2>1, <2>2, <2>3, <2>4 DEF Next
<1> QED BY <1>1, <1>2, PTL DEF Spec

\* A cancelled restore has no Velero Restore at work, whatever call or write of
\* the cancel failed and however it was retried (forceTerminateRestore).
THEOREM CancelStops == Spec => []CancelledMeansStopped
<1>1. RestoreInv => CancelledMeansStopped
  BY DEF RestoreInv, StoppedIsDown, CancelledMeansStopped, Down, Running
<1> QED BY <1>1, RestoreInvHolds, PTL

\* Removing the finalizer leaves no Velero Restore behind (DeletingHandler).
THEOREM DeletionCleans == Spec => []DeletedMeansCleaned
<1>1. RestoreInv => DeletedMeansCleaned
  BY DEF RestoreInv, StoppedIsDown, DeletedMeansCleaned, Down
<1> QED BY <1>1, RestoreInvHolds, PTL

\* A restore that ended is not run again unless a user asks for it or the
\* cluster could not be reached (processAction, and the early returns of Reconcile).
THEOREM NoUnaskedRerun == Spec => RerunOnlyOnRequest
<1>1. RestoreInv /\ [Next]_vars => [Created => wanted]_vars
  <2> SUFFICES ASSUME RestoreInv, Next, Created PROVE wanted
    BY DEF vars, Created
  <2>1. CASE Reconcile
    <3>1. ar.phase = "Restoring"
      BY <2>1, EveryPass DEF Created, Pass
    <3> QED BY <3>1 DEF RestoreInv, OpenIsWanted, Open
  <2>2. CASE Request
    BY <2>2 DEF Request, Created
  <2>3. CASE Velero
    BY <2>3, VeleroKeeps DEF Created
  <2> QED BY <2>1, <2>2, <2>3 DEF Next
<1> QED BY <1>1, RestoreInvHolds, PTL DEF Spec, RerunOnlyOnRequest
=============================================================================
