----------------------- MODULE HostedClusterFinalizer -----------------------
(***************************************************************************)
(* The teardown that runs while a DPFHCPBridge carries a deletion          *)
(* timestamp: FinalizerManager.HandleFinalizerCleanup and its helpers      *)
(* deleteResource, deleteSecrets and deleteSecret                          *)
(* (internal/controller/hostedcluster/finalizer.go).                       *)
(*                                                                         *)
(* One invocation of the reconciler is a sequence of store calls; pc says  *)
(* which call comes next, so that the store, the clock and the other       *)
(* actors (HyperShift finishing a deletion, a user deleting an object, a   *)
(* watch event) can move between two calls.  Every store call may fail;    *)
(* the worker may also be restarted between two calls.  Faults and watch   *)
(* events are bounded by MaxFaults and MaxEvents, the clock by MaxTime.    *)
(***************************************************************************)
EXTENDS Naturals

CONSTANTS
  DeletionTimeout,  \* ticks after the deletion timestamp before giving up
  MaxTime,          \* last value of the clock
  MaxFaults,        \* failed store calls plus worker restarts, at most
  MaxEvents         \* watch events that re-enqueue the bridge, at most

ASSUME ConstantsAssumption ==
  /\ DeletionTimeout \in Nat
  /\ MaxTime \in Nat
  /\ MaxFaults \in Nat
  /\ MaxEvents \in Nat

VARIABLES
  obj,        \* store: state of the HostedCluster and the NodePool
  secret,     \* store: which derived secrets still exist
  cond,       \* reason of the stored HostedClusterCleanup condition
  finalizer,  \* the bridge still carries its finalizer
  pc,         \* next store call of the running invocation, or "Idle"
  kind,       \* index in Chain of the dependency being deleted
  sec,        \* index in SecretNames of the secret being deleted
  pending,    \* a reconcile request for the bridge is queued
  now,        \* clock; the deletion timestamp is 0
  faults,     \* faults injected so far
  events,     \* watch events so far
  issued      \* history: objects a Delete was sent for by the engine

vars == <<obj, secret, cond, finalizer, pc, kind, sec, pending, now,
          faults, events, issued>>

(* Defect for mutation testing: the chain walked in the wrong order. *)
ChainSwapped == <<"NodePool", "HostedCluster">>

(* The dependency chain, in the order HandleFinalizerCleanup walks it. *)
Chain == <<"HostedCluster", "NodePool">>
Kinds == {"HostedCluster", "NodePool"}

(* deleteSecrets: "<name>-pull-secret", "<name>-ssh-key",                  *)
(* "<name>-etcd-encryption-key", in this order.                            *)
SecretNames == <<"pull-secret", "ssh-key", "etcd-encryption-key">>
Secrets == {"pull-secret", "ssh-key", "etcd-encryption-key"}

ObjStates == {"Absent", "Present", "Terminating"}
Conds == {"None", "CleanupInProgress", "CleanupTimeout", "CleanupSucceeded"}
PCs == {"Idle", "SetInProgress", "SetTimeout", "GetResource",
        "DeleteResource", "GetSecret", "DeleteSecret", "SetSucceeded",
        "RemoveFinalizer"}

DeletionTimestamp == 0

TypeOK ==
  /\ obj \in [Kinds -> ObjStates]
  /\ secret \in [Secrets -> BOOLEAN]
  /\ cond \in Conds
  /\ finalizer \in BOOLEAN
  /\ pc \in PCs
  /\ kind \in 1..2
  /\ sec \in 1..3
  /\ pending \in BOOLEAN
  /\ now \in 0..MaxTime
  /\ faults \in 0..MaxFaults
  /\ events \in 0..MaxEvents
  /\ issued \subseteq Kinds \cup Secrets

(* The bridge has just been marked for deletion: whichever of its         *)
(* dependents exist, the finalizer is set and a reconcile is queued.      *)
Init ==
  /\ obj \in [Kinds -> {"Absent", "Present"}]
  /\ secret \in [Secrets -> BOOLEAN]
  /\ cond = "None"
  /\ finalizer = TRUE
  /\ pc = "Idle"
  /\ kind = 1
  /\ sec = 1
  /\ pending = TRUE
  /\ now = 0
  /\ faults = 0
  /\ events = 0
  /\ issued = {}

(* A store call returns an error: the invocation returns it and the       *)
(* controller re-enqueues the bridge with backoff.                        *)
ReturnError ==
  /\ faults < MaxFaults
  /\ faults' = faults + 1
  /\ pc' = "Idle"
  /\ pending' = TRUE

(* The invocation returns ctrl.Result{RequeueAfter: 10s}, nil. *)
Requeue ==
  /\ pc' = "Idle"
  /\ pending' = TRUE

(* Defect for mutation testing: the deadline itself already counts as   *)
(* exceeded.                                                              *)
IsDeletionTimeoutExceededAtDeadline(elapsed) == elapsed >= DeletionTimeout

IsDeletionTimeoutExceeded(elapsed) == elapsed > DeletionTimeout

(* A reconcile request is dequeued for the bridge, still being deleted. *)
Reconcile ==
  /\ pc = "Idle"
  /\ pending
  /\ finalizer
  /\ pc' = "SetInProgress"
  /\ pending' = FALSE
  /\ UNCHANGED <<obj, secret, cond, finalizer, kind, sec, now, faults,
                 events, issued>>

(* Status().Update with CleanupInProgress, then the elapsed-time check.   *)
SetInProgress ==
  /\ pc = "SetInProgress"
  /\ \/ /\ cond' = "CleanupInProgress"
        /\ pc' = IF IsDeletionTimeoutExceeded(now - DeletionTimestamp)
                   THEN "SetTimeout" ELSE "GetResource"
        /\ kind' = 1
        /\ UNCHANGED <<pending, faults>>
     \/ /\ ReturnError
        /\ UNCHANGED <<cond, kind>>
  /\ UNCHANGED <<obj, secret, finalizer, sec, now, events, issued>>

(* Defect for mutation testing: the timeout path returns an error, so   *)
(* the controller keeps retrying with backoff.                           *)
SetTimeoutReturnsError ==
  /\ pc = "SetTimeout"
  /\ cond' = "CleanupTimeout"
  /\ pc' = "Idle"
  /\ pending' = TRUE
  /\ UNCHANGED <<obj, secret, finalizer, kind, sec, now, faults, events,
                 issued>>

(* Status().Update with CleanupTimeout; its error is only logged, and the *)
(* invocation returns ctrl.Result{}, nil: no requeue.                     *)
SetTimeout ==
  /\ pc = "SetTimeout"
  /\ \/ cond' = "CleanupTimeout" /\ UNCHANGED faults
     \/ faults < MaxFaults /\ faults' = faults + 1 /\ UNCHANGED cond
  /\ pc' = "Idle"
  /\ UNCHANGED <<obj, secret, finalizer, kind, sec, pending, now, events,
                 issued>>

(* deleteResource returned true: go on with the next kind of the chain,   *)
(* or with the secrets after the last one.                                *)
DependencyDeleted ==
  IF kind = 2 THEN pc' = "GetSecret" /\ sec' = 1 /\ UNCHANGED kind
              ELSE pc' = "GetResource" /\ kind' = kind + 1 /\ UNCHANGED sec

(* deleteResource: Get of the dependency by the bridge's name.  NotFound  *)
(* (and NoMatch, a CRD not installed, which leaves the object Absent) is  *)
(* deletion confirmed; an object already carrying a deletion timestamp    *)
(* means "wait": requeue after the interval.                              *)
GetResource ==
  /\ pc = "GetResource"
  /\ LET k == Chain[kind] IN
       \/ obj[k] = "Absent" /\ DependencyDeleted /\ UNCHANGED <<pending, faults>>
       \/ /\ obj[k] = "Present"
          /\ pc' = "DeleteResource"
          /\ UNCHANGED <<kind, sec, pending, faults>>
       \/ /\ obj[k] = "Terminating"
          /\ Requeue
          /\ UNCHANGED <<kind, sec, faults>>
       \/ ReturnError /\ UNCHANGED <<kind, sec>>
  /\ UNCHANGED <<obj, secret, cond, finalizer, now, events, issued>>

(* deleteResource: Delete of the object just read.  NotFound (it vanished *)
(* since the Get) counts as deleted; otherwise the object gets its         *)
(* deletion timestamp, or is removed at once if it has no finalizers, and *)
(* the invocation requeues.                                               *)
DeleteResource ==
  /\ pc = "DeleteResource"
  /\ LET k == Chain[kind] IN
       \/ /\ obj[k] = "Absent"
          /\ DependencyDeleted
          /\ UNCHANGED <<obj, pending, faults, issued>>
       \/ /\ obj[k] # "Absent"
          /\ obj' = [obj EXCEPT ![k] =
                       IF @ = "Present" THEN "Terminating" ELSE @]
          /\ issued' = issued \cup {k}
          /\ Requeue
          /\ UNCHANGED <<kind, sec, faults>>
       \/ /\ obj[k] = "Present"
          /\ obj' = [obj EXCEPT ![k] = "Absent"]
          /\ issued' = issued \cup {k}
          /\ Requeue
          /\ UNCHANGED <<kind, sec, faults>>
       \/ ReturnError /\ UNCHANGED <<obj, kind, sec, issued>>
  /\ UNCHANGED <<secret, cond, finalizer, now, events>>

(* Defects for mutation testing: the secret loop stops one short, or     *)
(* runs one past the end of the list.                                    *)
NextSecretSkipsLast ==
  /\ pc' = IF sec >= 2 THEN "SetSucceeded" ELSE "GetSecret"
  /\ sec' = IF sec >= 2 THEN sec ELSE sec + 1

NextSecretPastEnd ==
  /\ pc' = IF sec = 4 THEN "SetSucceeded" ELSE "GetSecret"
  /\ sec' = IF sec = 4 THEN sec ELSE sec + 1

(* deleteSecrets: after the last secret, the Succeeded condition. *)
NextSecret ==
  /\ pc' = IF sec = 3 THEN "SetSucceeded" ELSE "GetSecret"
  /\ sec' = IF sec = 3 THEN sec ELSE sec + 1

(* deleteSecret: Get; NotFound means already deleted. *)
GetSecret ==
  /\ pc = "GetSecret"
  /\ LET s == SecretNames[sec] IN
       \/ ~secret[s] /\ NextSecret /\ UNCHANGED <<pending, faults>>
       \/ secret[s] /\ pc' = "DeleteSecret" /\ UNCHANGED <<sec, pending, faults>>
       \/ ReturnError /\ UNCHANGED sec
  /\ UNCHANGED <<obj, secret, cond, finalizer, kind, now, events, issued>>

(* deleteSecret: Delete; NotFound (a race) is success as well. *)
DeleteSecret ==
  /\ pc = "DeleteSecret"
  /\ LET s == SecretNames[sec] IN
       \/ /\ ~secret[s]
          /\ NextSecret
          /\ UNCHANGED <<secret, pending, faults, issued>>
       \/ /\ secret[s]
          /\ secret' = [secret EXCEPT ![s] = FALSE]
          /\ issued' = issued \cup {s}
          /\ NextSecret
          /\ UNCHANGED <<pending, faults>>
       \/ ReturnError /\ UNCHANGED <<secret, sec, issued>>
  /\ UNCHANGED <<obj, cond, finalizer, kind, now, events>>

(* Status().Update with CleanupSucceeded; an error is returned. *)
SetSucceeded ==
  /\ pc = "SetSucceeded"
  /\ \/ /\ cond' = "CleanupSucceeded"
        /\ pc' = "RemoveFinalizer"
        /\ UNCHANGED <<pending, faults>>
     \/ ReturnError /\ UNCHANGED cond
  /\ UNCHANGED <<obj, secret, finalizer, kind, sec, now, events, issued>>

(* The caller, on the CleanupSucceeded outcome, removes the finalizer     *)
(* with an Update of the bridge; the store then deletes the bridge.       *)
RemoveFinalizer ==
  /\ pc = "RemoveFinalizer"
  /\ \/ finalizer' = FALSE /\ pc' = "Idle" /\ UNCHANGED <<pending, faults>>
     \/ ReturnError /\ UNCHANGED finalizer
  /\ UNCHANGED <<obj, secret, cond, kind, sec, now, events, issued>>

-----------------------------------------------------------------------------
(* The environment. *)

(* The clock advances. *)
Tick ==
  /\ now < MaxTime
  /\ now' = now + 1
  /\ UNCHANGED <<obj, secret, cond, finalizer, pc, kind, sec, pending,
                 faults, events, issued>>

(* The finalizers of a terminating HostedCluster or NodePool complete. *)
ObjectRemoved(k) ==
  /\ obj[k] = "Terminating"
  /\ obj' = [obj EXCEPT ![k] = "Absent"]
  /\ UNCHANGED <<secret, cond, finalizer, pc, kind, sec, pending, now,
                 faults, events, issued>>

(* Another actor (a user, HyperShift) deletes a dependent or a secret. *)
ExternalDelete ==
  /\ \/ \E k \in Kinds :
          /\ obj[k] = "Present"
          /\ obj' \in {[obj EXCEPT ![k] = "Terminating"],
                       [obj EXCEPT ![k] = "Absent"]}
          /\ UNCHANGED secret
     \/ \E s \in Secrets :
          /\ secret[s]
          /\ secret' = [secret EXCEPT ![s] = FALSE]
          /\ UNCHANGED obj
  /\ UNCHANGED <<cond, finalizer, pc, kind, sec, pending, now, faults,
                 events, issued>>

(* A watch event on the bridge or one of its dependents enqueues it. *)
WatchEvent ==
  /\ finalizer
  /\ events < MaxEvents
  /\ events' = events + 1
  /\ pending' = TRUE
  /\ UNCHANGED <<obj, secret, cond, finalizer, pc, kind, sec, now, faults,
                 issued>>

(* The operator restarts in the middle of an invocation; on start the     *)
(* informers list every bridge again, so it is re-enqueued.               *)
Restart ==
  /\ pc # "Idle"
  /\ faults < MaxFaults
  /\ faults' = faults + 1
  /\ pc' = "Idle"
  /\ pending' = TRUE
  /\ UNCHANGED <<obj, secret, cond, finalizer, kind, sec, now, events,
                 issued>>

Engine ==
  \/ Reconcile \/ SetInProgress \/ SetTimeout \/ GetResource
  \/ DeleteResource \/ GetSecret \/ DeleteSecret \/ SetSucceeded
  \/ RemoveFinalizer

Environment ==
  \/ Tick \/ \E k \in Kinds : ObjectRemoved(k) \/ ExternalDelete
  \/ WatchEvent \/ Restart

Next == Engine \/ Environment

(* The work queue hands a queued bridge to a worker and the worker runs   *)
(* to the end: the engine is weakly fair, and so is the clock.  Nothing   *)
(* makes HyperShift finish deleting a HostedCluster: that is what the     *)
(* timeout is for, so ObjectRemoved is not fair.                          *)
Spec == Init /\ [][Next]_vars /\ WF_vars(Engine) /\ WF_vars(Tick)

-----------------------------------------------------------------------------
(* Properties. *)

(* Rank of an object in the teardown order: the HostedCluster, then the  *)
(* NodePool, then the derived secrets.                                   *)
Rank(x) == CASE x = "HostedCluster" -> 1
             [] x = "NodePool"      -> 2
             [] OTHER               -> 3

(* Nothing the bridge created is left in the store. *)
Clean ==
  /\ \A k \in Kinds : obj[k] = "Absent"
  /\ \A s \in Secrets : ~secret[s]

(* HandleFinalizerCleanup reports CleanupSucceeded, and the caller lets   *)
(* the bridge go, only when the HostedCluster, the NodePool and the three *)
(* derived secrets are all gone from the store, whatever restarts, failed *)
(* calls and concurrent deletions happened in between.                   *)
CleanupComplete == (cond = "CleanupSucceeded" \/ ~finalizer) => Clean

(* deleteResource and deleteSecrets send a Delete for an object only when *)
(* every object before it in the teardown order (HostedCluster, NodePool, *)
(* secrets) is confirmed absent: the NodePool is not deleted while the     *)
(* HostedCluster is still terminating, nor a secret it needs.             *)
OrderedTeardown ==
  [][\A x \in issued' \ issued :
       \A k \in Kinds : Rank(k) < Rank(x) => obj[k] = "Absent"]_vars

(* The 10-second requeue loop ends: even when HyperShift never finishes   *)
(* deleting the HostedCluster, the 30-minute timeout eventually stops     *)
(* every further invocation of HandleFinalizerCleanup.                    *)
Quiescence == <>[](pc = "Idle" /\ ~(pending /\ finalizer))

(* When HandleFinalizerCleanup stops for good with the finalizer still on *)
(* the bridge (the timeout path, no requeue), the stored condition says   *)
(* CleanupTimeout, the only diagnosis an operator gets.                   *)
StuckIsDiagnosed ==
  (pc = "Idle" /\ ~pending /\ finalizer) => cond = "CleanupTimeout"

-----------------------------------------------------------------------------
(* The promise of the teardown, Teardown, seen through the store, the     *)
(* condition, the finalizer, the clock and the Deletes the cleanup has    *)
(* sent (issued); the control state of the invocations (pc, kind, sec,    *)
(* pending) and the counters are hidden.                                  *)
TD == INSTANCE Teardown

(* HandleFinalizerCleanup with its caller implements Teardown: every step *)
(* of the code, its failures and retries included, is either invisible or *)
(* a step the promise allows -- each Delete the cleanup sends goes out     *)
(* only after what precedes it (HostedCluster, then NodePool, then the   *)
(* secrets) is gone, whatever other actors delete and in which order;     *)
(* success only when nothing is left, the timeout only after              *)
(* the deadline, the finalizer removed only after success.                *)
ImplementsTeardown == TD!Spec

=============================================================================
