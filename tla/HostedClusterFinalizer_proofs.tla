-------------------- MODULE HostedClusterFinalizer_proofs --------------------
(***************************************************************************)
(* Proofs about the teardown of HostedClusterFinalizer, for every value of *)
(* the constants.                                                          *)
(***************************************************************************)
EXTENDS HostedClusterFinalizer, TLAPS

USE ConstantsAssumption

-----------------------------------------------------------------------------
(* Type correctness: every step keeps every variable in its type. *)

(* A store call that fails keeps the type, whatever the action. *)
LEMMA ErrorType ==
  ASSUME TypeOK, ReturnError
  PROVE  /\ faults' \in 0..MaxFaults
         /\ pc' \in PCs
         /\ pending' \in BOOLEAN
  BY DEF TypeOK, ReturnError, PCs

(* Moving on to the next dependency or secret keeps the indices in range. *)
LEMMA DependencyDeletedType ==
  ASSUME TypeOK, DependencyDeleted
  PROVE  pc' \in PCs /\ kind' \in 1..2 /\ sec' \in 1..3
  BY DEF TypeOK, DependencyDeleted, PCs

LEMMA NextSecretType ==
  ASSUME TypeOK, NextSecret
  PROVE  pc' \in PCs /\ sec' \in 1..3
  BY DEF TypeOK, NextSecret, PCs

LEMMA TypeStep == TypeOK /\ [Next]_vars => TypeOK'
<1> SUFFICES ASSUME TypeOK, [Next]_vars PROVE TypeOK'
  OBVIOUS
<1>1. CASE Reconcile
  BY <1>1 DEF Reconcile, TypeOK, PCs
<1>2. CASE SetInProgress
  <2>1. CASE ReturnError /\ UNCHANGED <<cond, kind>>
    BY <1>2, <2>1, ErrorType DEF SetInProgress, TypeOK
  <2>2. QED
    BY <1>2, <2>1 DEF SetInProgress, TypeOK, PCs, Conds
<1>3. CASE SetTimeout
  BY <1>3 DEF SetTimeout, TypeOK, PCs, Conds
<1>4. CASE GetResource
  <2>1. CASE ReturnError /\ UNCHANGED <<kind, sec>>
    BY <1>4, <2>1, ErrorType DEF GetResource, TypeOK
  <2>2. QED
    BY <1>4, <2>1, DependencyDeletedType DEF GetResource, Requeue, TypeOK, PCs
<1>5. CASE DeleteResource
  <2>1. CASE ReturnError /\ UNCHANGED <<obj, kind, sec, issued>>
    BY <1>5, <2>1, ErrorType DEF DeleteResource, TypeOK
  <2>2. Chain[kind] \in Kinds
    BY DEF TypeOK, Chain, Kinds
  <2>3. QED
    BY <1>5, <2>1, <2>2, DependencyDeletedType DEF DeleteResource, Requeue,
                                                  TypeOK, PCs, ObjStates
<1>6. CASE GetSecret
  <2>1. CASE ReturnError /\ UNCHANGED sec
    BY <1>6, <2>1, ErrorType DEF GetSecret, TypeOK
  <2>2. QED
    BY <1>6, <2>1, NextSecretType DEF GetSecret, TypeOK, PCs
<1>7. CASE DeleteSecret
  <2>1. CASE ReturnError /\ UNCHANGED <<secret, sec, issued>>
    BY <1>7, <2>1, ErrorType DEF DeleteSecret, TypeOK
  <2>2. SecretNames[sec] \in Secrets
    BY DEF TypeOK, SecretNames, Secrets
  <2>3. QED
    BY <1>7, <2>1, <2>2, NextSecretType DEF DeleteSecret, TypeOK, PCs
<1>8. CASE SetSucceeded
  <2>1. CASE ReturnError /\ UNCHANGED cond
    BY <1>8, <2>1, ErrorType DEF SetSucceeded, TypeOK
  <2>2. QED
    BY <1>8, <2>1 DEF SetSucceeded, TypeOK, PCs, Conds
<1>9. CASE RemoveFinalizer
  <2>1. CASE ReturnError /\ UNCHANGED finalizer
    BY <1>9, <2>1, ErrorType DEF RemoveFinalizer, TypeOK
  <2>2. QED
    BY <1>9, <2>1 DEF RemoveFinalizer, TypeOK, PCs
<1>10. CASE Tick
  BY <1>10 DEF Tick, TypeOK
<1>11. CASE \E k \in Kinds : ObjectRemoved(k)
  BY <1>11 DEF ObjectRemoved, TypeOK, ObjStates
<1>12. CASE ExternalDelete
  BY <1>12 DEF ExternalDelete, TypeOK, ObjStates
<1>13. CASE WatchEvent
  BY <1>13 DEF WatchEvent, TypeOK
<1>14. CASE Restart
  BY <1>14 DEF Restart, TypeOK, PCs
<1>15. CASE UNCHANGED vars
  BY <1>15 DEF vars, TypeOK
<1>16. QED
  BY <1>1, <1>2, <1>3, <1>4, <1>5, <1>6, <1>7, <1>8, <1>9, <1>10, <1>11,
     <1>12, <1>13, <1>14, <1>15 DEF Next, Engine, Environment

(* HandleFinalizerCleanup and its environment keep every variable in its  *)
(* type, for every value of the bounds.                                  *)
THEOREM TypeCorrect == Spec => []TypeOK
<1>1. Init => TypeOK
  BY DEF Init, TypeOK, ObjStates, Conds, PCs
<1>2. QED
  BY <1>1, TypeStep, PTL DEF Spec

-----------------------------------------------------------------------------
(* CleanupComplete is not inductive: a step of SetSucceeded needs to know *)
(* that the invocation has already seen every dependent and every secret *)
(* gone.  The strengthening records, for each pc, what the invocation has *)
(* confirmed so far; it stays true because no action brings back an      *)
(* object once it is absent.                                             *)

(* The HostedCluster was confirmed absent before the NodePool is visited. *)
ChainProgress ==
  pc \in {"GetResource", "DeleteResource"} /\ kind = 2
    => obj["HostedCluster"] = "Absent"

(* Both dependents were confirmed absent before the secrets are visited. *)
DependentsGone ==
  pc \in {"GetSecret", "DeleteSecret", "SetSucceeded", "RemoveFinalizer"}
    => \A k \in Kinds : obj[k] = "Absent"

(* The secrets before the current one were confirmed absent. *)
SecretsProgress ==
  pc \in {"GetSecret", "DeleteSecret"}
    => \A j \in 1..(sec - 1) : ~secret[SecretNames[j]]

(* All secrets were confirmed absent before CleanupSucceeded is written. *)
SecretsGone ==
  pc \in {"SetSucceeded", "RemoveFinalizer"} => Clean

IInv ==
  /\ TypeOK
  /\ CleanupComplete
  /\ ChainProgress
  /\ DependentsGone
  /\ SecretsProgress
  /\ SecretsGone

(* No step brings back a dependent or a secret once it is absent. *)
AbsentStable ==
  /\ \A k \in Kinds : obj[k] = "Absent" => obj'[k] = "Absent"
  /\ \A s \in Secrets : ~secret[s] => ~secret'[s]

LEMMA AbsentStays == TypeOK /\ [Next]_vars => AbsentStable
<1> SUFFICES ASSUME TypeOK, [Next]_vars PROVE AbsentStable
  OBVIOUS
<1>1. CASE DeleteResource
  <2>1. Chain[kind] \in Kinds
    BY DEF TypeOK, Chain, Kinds
  <2>2. QED
    BY <1>1, <2>1 DEF DeleteResource, ReturnError, Requeue, AbsentStable,
                     TypeOK
<1>2. CASE DeleteSecret
  BY <1>2 DEF DeleteSecret, ReturnError, AbsentStable, TypeOK
<1>3. CASE \E k \in Kinds : ObjectRemoved(k)
  BY <1>3 DEF ObjectRemoved, AbsentStable, TypeOK
<1>4. CASE ExternalDelete
  BY <1>4 DEF ExternalDelete, AbsentStable, TypeOK
<1>5. CASE ~DeleteResource /\ ~DeleteSecret
             /\ ~(\E k \in Kinds : ObjectRemoved(k)) /\ ~ExternalDelete
  <2>1. UNCHANGED <<obj, secret>>
    BY <1>5 DEF Next, Engine, Environment, Reconcile, SetInProgress,
                SetTimeout, GetResource, GetSecret, SetSucceeded,
                RemoveFinalizer, Tick, WatchEvent, Restart, vars
  <2>2. QED
    BY <2>1 DEF AbsentStable
<1>6. QED
  BY <1>1, <1>2, <1>3, <1>4, <1>5

(* Clean, stated over the list of secret names that deleteSecrets walks. *)
LEMMA CleanByIndex ==
  ASSUME TypeOK,
         \A k \in Kinds : obj[k] = "Absent",
         \A j \in 1..3 : ~secret[SecretNames[j]]
  PROVE  Clean
  BY DEF Clean, SecretNames, Secrets, TypeOK

(* The parts of IInv besides the type. *)
Progress ==
  /\ CleanupComplete
  /\ ChainProgress
  /\ DependentsGone
  /\ SecretsProgress
  /\ SecretsGone

(* A step that leaves the engine's control state alone keeps Progress,   *)
(* since the objects it speaks of stay absent.                           *)
LEMMA ControlUnchanged ==
  ASSUME IInv, AbsentStable,
         UNCHANGED <<cond, finalizer, pc, kind, sec>>
  PROVE  Progress'
  BY DEF IInv, Progress, AbsentStable, CleanupComplete, ChainProgress,
         DependentsGone, SecretsProgress, SecretsGone, Clean, TypeOK,
         SecretNames, Secrets, Kinds

(* A step that returns to Idle, leaving cond and the finalizer alone,     *)
(* keeps Progress.                                                        *)
LEMMA BackToIdle ==
  ASSUME IInv, AbsentStable,
         pc' = "Idle", UNCHANGED <<cond, finalizer>>
  PROVE  Progress'
  BY DEF IInv, Progress, AbsentStable, CleanupComplete, ChainProgress,
         DependentsGone, SecretsProgress, SecretsGone, Clean, TypeOK, Kinds,
         Secrets

LEMMA IInvStep == IInv /\ [Next]_vars => IInv'
<1> SUFFICES ASSUME IInv, [Next]_vars PROVE IInv'
  OBVIOUS
<1>1. TypeOK'
  BY TypeStep DEF IInv
<1>2. AbsentStable
  BY AbsentStays DEF IInv
<1> USE DEF IInv
<1>3. SUFFICES Progress'
  BY <1>1 DEF Progress
<1>4. CASE Reconcile
  BY <1>4 DEF Reconcile, Progress, CleanupComplete, ChainProgress,
                 DependentsGone, SecretsProgress, SecretsGone, Clean
<1>5. CASE SetInProgress
  BY <1>5 DEF SetInProgress, ReturnError, Progress, CleanupComplete, ChainProgress,
                 DependentsGone, SecretsProgress, SecretsGone, Clean
<1>6. CASE SetTimeout
  BY <1>6 DEF SetTimeout, Progress, CleanupComplete, ChainProgress,
                 DependentsGone, SecretsProgress, SecretsGone, Clean
<1>7. CASE GetResource
  <2>0. pc = "GetResource"
    BY <1>7 DEF GetResource
  <2>1. CASE obj[Chain[kind]] = "Absent" /\ DependencyDeleted
             /\ UNCHANGED <<pending, faults>>
             /\ UNCHANGED <<obj, secret, cond, finalizer, now, events, issued>>
    <3>1. CASE kind = 1
      BY <2>0, <2>1, <3>1 DEF DependencyDeleted, Chain, Progress, CleanupComplete, ChainProgress,
                 DependentsGone, SecretsProgress, SecretsGone, Clean
    <3>2. CASE kind = 2
      BY <2>0, <2>1, <3>2 DEF DependencyDeleted, Chain, Kinds, Progress, CleanupComplete, ChainProgress,
                 DependentsGone, SecretsProgress, SecretsGone, Clean
    <3>3. QED
      BY <2>0, <3>1, <3>2 DEF TypeOK
  <2>2. CASE ~(obj[Chain[kind]] = "Absent" /\ DependencyDeleted
               /\ UNCHANGED <<pending, faults>>)
    <3>1. (pc' = "DeleteResource" /\ UNCHANGED kind) \/ pc' = "Idle"
      BY <2>0, <1>7, <2>2 DEF GetResource, Requeue, ReturnError
    <3>2. UNCHANGED <<obj, secret, cond, finalizer>>
      BY <1>7 DEF GetResource
    <3>3. QED
      BY <2>0, <3>1, <3>2 DEF Progress, CleanupComplete, ChainProgress,
                 DependentsGone, SecretsProgress, SecretsGone, Clean
  <2>3. QED
    BY <1>7, <2>1, <2>2 DEF GetResource
<1>8. CASE DeleteResource
  <2>0. pc = "DeleteResource"
    BY <1>8 DEF DeleteResource
  <2>1. CASE obj[Chain[kind]] = "Absent" /\ DependencyDeleted
             /\ UNCHANGED <<obj, pending, faults, issued>>
             /\ UNCHANGED <<secret, cond, finalizer, now, events>>
    <3>1. CASE kind = 1
      BY <2>0, <2>1, <3>1 DEF DependencyDeleted, Chain, Progress, CleanupComplete, ChainProgress,
                 DependentsGone, SecretsProgress, SecretsGone, Clean
    <3>2. CASE kind = 2
      BY <2>0, <2>1, <3>2 DEF DependencyDeleted, Chain, Kinds, Progress, CleanupComplete, ChainProgress,
                 DependentsGone, SecretsProgress, SecretsGone, Clean
    <3>3. QED
      BY <2>0, <3>1, <3>2 DEF TypeOK
  <2>2. CASE ~(obj[Chain[kind]] = "Absent" /\ DependencyDeleted
               /\ UNCHANGED <<obj, pending, faults, issued>>)
    <3>1. pc' = "Idle"
      BY <2>0, <1>8, <2>2 DEF DeleteResource, Requeue, ReturnError
    <3>2. UNCHANGED <<cond, finalizer>>
      BY <1>8 DEF DeleteResource
    <3>3. QED
      BY <2>0, <1>2, <3>1, <3>2, BackToIdle
  <2>3. QED
    BY <2>0, <1>8, <2>1, <2>2 DEF DeleteResource
<1>9. CASE GetSecret
  <2>0. pc = "GetSecret"
    BY <1>9 DEF GetSecret
  <2>1. CASE ~secret[SecretNames[sec]] /\ NextSecret
             /\ UNCHANGED <<pending, faults>>
             /\ UNCHANGED <<obj, secret, cond, finalizer, kind, now, events,
                            issued>>
    <3>1. \A j \in 1..sec : ~secret[SecretNames[j]]
      BY <2>0, <2>1 DEF SecretsProgress, TypeOK
    <3>2. CASE sec = 3
      <4>1. Clean
        BY <2>0, <3>1, <3>2, CleanByIndex DEF DependentsGone
      <4>2. QED
        BY <2>0, <2>1, <3>2, <4>1 DEF NextSecret, Progress, CleanupComplete, ChainProgress,
                 DependentsGone, SecretsProgress, SecretsGone, Clean
    <3>3. CASE sec # 3
      BY <2>0, <2>1, <3>1, <3>3 DEF NextSecret, TypeOK, Progress, CleanupComplete, ChainProgress,
                 DependentsGone, SecretsProgress, SecretsGone, Clean
    <3>4. QED
      BY <2>0, <3>2, <3>3
  <2>2. CASE ~(~secret[SecretNames[sec]] /\ NextSecret
               /\ UNCHANGED <<pending, faults>>)
    <3>1. (pc' = "DeleteSecret" /\ UNCHANGED sec) \/ pc' = "Idle"
      BY <2>0, <1>9, <2>2 DEF GetSecret, ReturnError
    <3>2. UNCHANGED <<obj, secret, cond, finalizer, kind>>
      BY <1>9 DEF GetSecret
    <3>3. QED
      BY <2>0, <3>1, <3>2 DEF Progress, CleanupComplete, ChainProgress,
                 DependentsGone, SecretsProgress, SecretsGone, Clean
  <2>3. QED
    BY <1>9, <2>1, <2>2 DEF GetSecret
<1>10. CASE DeleteSecret
  <2>0. pc = "DeleteSecret"
    BY <1>10 DEF DeleteSecret
  <2>1. CASE NextSecret /\ ~secret'[SecretNames[sec]]
             /\ UNCHANGED <<obj, cond, finalizer, kind, now, events>>
    <3>1. \A j \in 1..sec : ~secret'[SecretNames[j]]
      BY <2>0, <1>2, <2>1 DEF SecretsProgress, AbsentStable, TypeOK, SecretNames,
                       Secrets
    <3>2. CASE sec = 3
      <4>1. Clean'
        BY <2>0, <2>1, <3>1, <3>2 DEF DependentsGone, Clean, SecretNames,
                                     Secrets, TypeOK
      <4>2. QED
        BY <2>0, <2>1, <3>2, <4>1 DEF NextSecret, Progress, CleanupComplete,
                               ChainProgress, DependentsGone,
                               SecretsProgress, SecretsGone
    <3>3. CASE sec # 3
      <4>1. pc' = "GetSecret" /\ sec' = sec + 1
        BY <2>1, <3>3 DEF NextSecret
      <4>2. CleanupComplete'
        BY <1>2, <2>1 DEF CleanupComplete, Clean, AbsentStable
      <4>3. DependentsGone' /\ SecretsProgress'
        BY <2>0, <2>1, <3>1, <4>1 DEF DependentsGone, SecretsProgress,
                                     TypeOK
      <4>4. QED
        BY <4>1, <4>2, <4>3 DEF Progress, ChainProgress, SecretsGone
    <3>4. QED
      BY <3>2, <3>3
  <2>2. CASE ReturnError /\ UNCHANGED <<secret, sec, issued>>
             /\ UNCHANGED <<obj, cond, finalizer, kind, now, events>>
    BY <2>0, <1>2, <2>2, BackToIdle DEF ReturnError
  <2>3. QED
    <3>1. SecretNames[sec] \in Secrets
      BY DEF TypeOK, SecretNames, Secrets
    <3>2. QED
      BY <1>10, <2>1, <2>2, <3>1 DEF DeleteSecret, TypeOK
<1>11. CASE SetSucceeded
  BY <1>11 DEF SetSucceeded, ReturnError, Progress, CleanupComplete, ChainProgress,
                 DependentsGone, SecretsProgress, SecretsGone, Clean
<1>12. CASE RemoveFinalizer
  BY <1>12 DEF RemoveFinalizer, ReturnError, Progress, CleanupComplete, ChainProgress,
                 DependentsGone, SecretsProgress, SecretsGone, Clean
<1>13. CASE Tick \/ (\E k \in Kinds : ObjectRemoved(k)) \/ ExternalDelete
            \/ WatchEvent \/ UNCHANGED vars
  <2>1. UNCHANGED <<cond, finalizer, pc, kind, sec>>
    BY <1>13 DEF Tick, ObjectRemoved, ExternalDelete, WatchEvent, vars
  <2>2. QED
    BY <1>2, <2>1, ControlUnchanged
<1>14. CASE Restart
  BY <1>2, <1>14, BackToIdle DEF Restart
<1>15. QED
  BY <1>4, <1>5, <1>6, <1>7, <1>8, <1>9, <1>10, <1>11, <1>12, <1>13, <1>14
  DEF Next, Engine, Environment

(* Whatever restarts, failed store calls and concurrent deletions occur,  *)
(* HandleFinalizerCleanup reports CleanupSucceeded, and the caller lets   *)
(* the bridge go, only when the HostedCluster, the NodePool and the three *)
(* derived secrets are all gone from the store.                          *)
THEOREM CleanupCompleteHolds == Spec => []CleanupComplete
<1>1. Init => IInv
  BY DEF Init, IInv, TypeOK, ObjStates, Conds, PCs, CleanupComplete,
         ChainProgress, DependentsGone, SecretsProgress, SecretsGone
<1>2. IInv => CleanupComplete
  BY DEF IInv
<1>3. QED
  BY <1>1, <1>2, IInvStep, PTL DEF Spec

-----------------------------------------------------------------------------
(* The step relation of OrderedTeardown. *)
OrderedStep ==
  \A x \in issued' \ issued :
    \A k \in Kinds : Rank(k) < Rank(x) => obj[k] = "Absent"

LEMMA OrderedStepHolds == IInv /\ [Next]_vars => [OrderedStep]_vars
<1> SUFFICES ASSUME IInv, [Next]_vars PROVE OrderedStep
  OBVIOUS
<1> USE DEF IInv
<1>1. CASE DeleteResource
  <2>1. issued' \subseteq issued \cup {Chain[kind]}
    BY <1>1 DEF DeleteResource, ReturnError
  <2>2. CASE kind = 1
    BY <2>1, <2>2 DEF OrderedStep, Chain, Rank, Kinds
  <2>3. CASE kind = 2
    <3>1. obj["HostedCluster"] = "Absent"
      BY <1>1, <2>3 DEF DeleteResource, ChainProgress
    <3>2. QED
      BY <2>1, <2>3, <3>1 DEF OrderedStep, Chain, Rank, Kinds
  <2>4. QED
    BY <2>2, <2>3 DEF TypeOK
<1>2. CASE DeleteSecret
  <2>1. issued' \subseteq issued \cup {SecretNames[sec]}
    BY <1>2 DEF DeleteSecret, ReturnError
  <2>2. \A k \in Kinds : obj[k] = "Absent"
    BY <1>2 DEF DeleteSecret, DependentsGone
  <2>3. QED
    BY <2>1, <2>2 DEF OrderedStep
<1>3. CASE ~DeleteResource /\ ~DeleteSecret
  <2>1. issued' = issued
    BY <1>3 DEF Next, Engine, Environment, Reconcile, SetInProgress,
                SetTimeout, GetResource, GetSecret, SetSucceeded,
                RemoveFinalizer, Tick, ObjectRemoved, ExternalDelete,
                WatchEvent, Restart, vars
  <2>2. QED
    BY <2>1 DEF OrderedStep
<1>4. QED
  BY <1>1, <1>2, <1>3

(* deleteResource and deleteSecrets send a Delete for an object only when *)
(* every object before it in the teardown order is confirmed absent: the  *)
(* NodePool is never deleted while the HostedCluster still exists, nor a  *)
(* derived secret while either of them does.                             *)
THEOREM OrderedTeardownHolds == Spec => OrderedTeardown
<1>1. Init => IInv
  BY DEF Init, IInv, TypeOK, ObjStates, Conds, PCs, CleanupComplete,
         ChainProgress, DependentsGone, SecretsProgress, SecretsGone
<1>2. QED
  BY <1>1, IInvStep, OrderedStepHolds, PTL DEF Spec, OrderedTeardown,
     OrderedStep

-----------------------------------------------------------------------------
(* Refinement of Teardown. *)

(* Control facts the abstract steps need besides IInv: an invocation runs *)
(* only while the finalizer is set, the finalizer is removed right after  *)
(* CleanupSucceeded was stored, and the timeout path is taken only past   *)
(* the deadline.                                                          *)
RInv ==
  /\ pc # "Idle" => finalizer
  /\ pc = "RemoveFinalizer" => cond = "CleanupSucceeded"
  /\ pc = "SetTimeout" => now > DeletionTimeout

LEMMA RInvStep == TypeOK /\ RInv /\ [Next]_vars => RInv'
<1> SUFFICES ASSUME TypeOK, RInv, [Next]_vars PROVE RInv'
  OBVIOUS
<1>1. CASE Reconcile
  BY <1>1 DEF Reconcile, RInv
<1>2. CASE SetInProgress
  BY <1>2 DEF SetInProgress, RInv, ReturnError, IsDeletionTimeoutExceeded,
              DeletionTimestamp, TypeOK
<1>3. CASE SetTimeout
  BY <1>3 DEF SetTimeout, RInv
<1>4. CASE GetResource
  BY <1>4 DEF GetResource, RInv, ReturnError, Requeue, DependencyDeleted
<1>5. CASE DeleteResource
  BY <1>5 DEF DeleteResource, RInv, ReturnError, Requeue, DependencyDeleted
<1>6. CASE GetSecret
  BY <1>6 DEF GetSecret, RInv, ReturnError, NextSecret
<1>7. CASE DeleteSecret
  BY <1>7 DEF DeleteSecret, RInv, ReturnError, NextSecret
<1>8. CASE SetSucceeded
  BY <1>8 DEF SetSucceeded, RInv, ReturnError
<1>9. CASE RemoveFinalizer
  BY <1>9 DEF RemoveFinalizer, RInv, ReturnError
<1>10. CASE Tick
  BY <1>10 DEF Tick, RInv, TypeOK
<1>11. CASE \E k \in Kinds : ObjectRemoved(k)
  BY <1>11 DEF ObjectRemoved, RInv
<1>12. CASE ExternalDelete
  BY <1>12 DEF ExternalDelete, RInv
<1>13. CASE WatchEvent
  BY <1>13 DEF WatchEvent, RInv
<1>14. CASE Restart
  BY <1>14 DEF Restart, RInv
<1>15. CASE UNCHANGED vars
  BY <1>15 DEF vars, RInv
<1>16. QED
  BY <1>1, <1>2, <1>3, <1>4, <1>5, <1>6, <1>7, <1>8, <1>9, <1>10, <1>11,
     <1>12, <1>13, <1>14, <1>15 DEF Next, Engine, Environment

(* Every step of the code is a step of Teardown or leaves what Teardown   *)
(* sees unchanged.                                                        *)
LEMMA StepRefines == IInv /\ RInv /\ [Next]_vars => [TD!Next]_TD!vars
<1> SUFFICES ASSUME IInv, RInv, [Next]_vars PROVE [TD!Next]_TD!vars
  OBVIOUS
<1> USE DEF IInv
<1>1. CASE Reconcile
  BY <1>1 DEF Reconcile, TD!vars
<1>2. CASE SetInProgress
  <2>1. CASE ReturnError /\ UNCHANGED <<cond, kind>>
    BY <1>2, <2>1 DEF SetInProgress, TD!vars
  <2>2. CASE cond' = "CleanupInProgress"
    BY <1>2, <2>2 DEF SetInProgress, RInv, TD!Next, TD!Announce
  <2>3. QED
    BY <1>2, <2>1, <2>2 DEF SetInProgress
<1>3. CASE SetTimeout
  <2>1. CASE cond' = "CleanupTimeout"
    BY <1>3, <2>1 DEF SetTimeout, RInv, TD!Next, TD!GiveUp
  <2>2. CASE UNCHANGED cond
    BY <1>3, <2>2 DEF SetTimeout, TD!vars
  <2>3. QED
    BY <1>3, <2>1, <2>2 DEF SetTimeout
<1>4. CASE GetResource
  BY <1>4 DEF GetResource, ReturnError, Requeue, DependencyDeleted, TD!vars
<1>5. CASE DeleteResource
  <2>0. pc = "DeleteResource" /\ finalizer
    BY <1>5 DEF DeleteResource, RInv
  <2> DEFINE k == Chain[kind]
  <2>1. k \in TD!Kinds /\ \A j \in TD!DependsOn(k) : obj[j] = "Absent"
    BY <2>0 DEF Chain, TypeOK, ChainProgress, TD!Kinds, TD!DependsOn
  <2>2. CASE /\ obj[k] = "Absent" /\ DependencyDeleted
             /\ UNCHANGED <<obj, pending, faults, issued>>
    BY <1>5, <2>2 DEF DeleteResource, TD!vars
  <2>3. CASE /\ obj[k] # "Absent"
             /\ obj' = [obj EXCEPT ![k] = IF @ = "Present" THEN "Terminating"
                                                        ELSE @]
             /\ issued' = issued \cup {k}
    <3>1. TD!DeleteDependent(k)
      BY <1>5, <2>0, <2>1, <2>3 DEF DeleteResource, TD!DeleteDependent
    <3>2. QED
      BY <2>1, <3>1 DEF TD!Next
  <2>4. CASE /\ obj[k] = "Present"
             /\ obj' = [obj EXCEPT ![k] = "Absent"]
             /\ issued' = issued \cup {k}
    <3>1. TD!DeleteDependent(k)
      BY <1>5, <2>0, <2>1, <2>4 DEF DeleteResource, TD!DeleteDependent
    <3>2. QED
      BY <2>1, <3>1 DEF TD!Next
  <2>5. CASE ReturnError /\ UNCHANGED <<obj, kind, sec, issued>>
    BY <1>5, <2>5 DEF DeleteResource, TD!vars
  <2>6. QED
    BY <1>5, <2>2, <2>3, <2>4, <2>5 DEF DeleteResource
<1>6. CASE GetSecret
  BY <1>6 DEF GetSecret, ReturnError, NextSecret, TD!vars
<1>7. CASE DeleteSecret
  <2>0. pc = "DeleteSecret" /\ finalizer
    BY <1>7 DEF DeleteSecret, RInv
  <2> DEFINE s == SecretNames[sec]
  <2>1. s \in TD!Secrets
    BY DEF TypeOK, SecretNames, TD!Secrets
  <2>2. CASE secret' # secret
    <3>1. secret[s] /\ secret' = [secret EXCEPT ![s] = FALSE]
          /\ issued' = issued \cup {s}
          /\ UNCHANGED <<obj, cond, finalizer, now>>
      BY <1>7, <2>2 DEF DeleteSecret, ReturnError, NextSecret
    <3>2. \A k \in TD!Kinds : obj[k] = "Absent"
      BY <2>0 DEF DependentsGone, Kinds, TD!Kinds
    <3>3. TD!DeleteSecret(s)
      BY <2>0, <3>1, <3>2 DEF TD!DeleteSecret
    <3>4. QED
      BY <2>1, <3>3 DEF TD!Next
  <2>3. CASE secret' = secret
    <3>1. UNCHANGED issued
      <4>1. secret \in [Secrets -> BOOLEAN]
        BY DEF TypeOK
      <4>2. ~(secret[s] /\ secret' = [secret EXCEPT ![s] = FALSE])
        BY <2>1, <2>3, <4>1 DEF TD!Secrets, Secrets
      <4>3. QED
        BY <1>7, <4>2 DEF DeleteSecret, ReturnError
    <3>2. QED
      BY <1>7, <2>3, <3>1 DEF DeleteSecret, TD!vars
  <2>4. QED
    BY <2>2, <2>3
<1>8. CASE SetSucceeded
  <2>1. CASE cond' = "CleanupSucceeded"
    <3>1. pc = "SetSucceeded" /\ finalizer
      BY <1>8 DEF SetSucceeded, RInv
    <3>2. TD!Clean
      BY <3>1 DEF SecretsGone, Clean, TD!Clean, Kinds, TD!Kinds, Secrets,
              TD!Secrets
    <3>3. QED
      BY <1>8, <2>1, <3>1, <3>2 DEF SetSucceeded, TD!Next, TD!Succeed
  <2>2. CASE ReturnError /\ UNCHANGED cond
    BY <1>8, <2>2 DEF SetSucceeded, TD!vars
  <2>3. QED
    BY <1>8, <2>1, <2>2 DEF SetSucceeded
<1>9. CASE RemoveFinalizer
  <2>1. CASE finalizer' = FALSE
    <3>1. pc = "RemoveFinalizer" /\ finalizer /\ cond = "CleanupSucceeded"
      BY <1>9 DEF RemoveFinalizer, RInv
    <3>2. TD!Clean
      BY <3>1 DEF SecretsGone, Clean, TD!Clean, Kinds, TD!Kinds, Secrets,
              TD!Secrets
    <3>3. QED
      BY <1>9, <2>1, <3>1, <3>2 DEF RemoveFinalizer, ReturnError, TD!Next,
                                    TD!Release
  <2>2. CASE ReturnError /\ UNCHANGED finalizer
    BY <1>9, <2>2 DEF RemoveFinalizer, TD!vars
  <2>3. QED
    BY <1>9, <2>1, <2>2 DEF RemoveFinalizer
<1>10. CASE Tick
  BY <1>10 DEF Tick, TD!Next, TD!Elapse
<1>11. CASE \E k \in Kinds : ObjectRemoved(k)
  BY <1>11 DEF ObjectRemoved, TD!Next, TD!Removed, Kinds, TD!Kinds
<1>12. CASE ExternalDelete
  BY <1>12 DEF ExternalDelete, TD!Next, TD!Others, Kinds, TD!Kinds,
               Secrets, TD!Secrets
<1>13. CASE WatchEvent
  BY <1>13 DEF WatchEvent, TD!vars
<1>14. CASE Restart
  BY <1>14 DEF Restart, TD!vars
<1>15. CASE UNCHANGED vars
  BY <1>15 DEF vars, TD!vars
<1>16. QED
  BY <1>1, <1>2, <1>3, <1>4, <1>5, <1>6, <1>7, <1>8, <1>9, <1>10, <1>11,
     <1>12, <1>13, <1>14, <1>15 DEF Next, Engine, Environment

(* HandleFinalizerCleanup, with its caller and whatever failures,         *)
(* restarts and concurrent deletions happen, implements Teardown: it      *)
(* sends its own Deletes in dependency order, whatever others delete,    *)
(* declares success only when nothing is                                  *)
(* left, times out only after the deadline and lets the finalizer go only *)
(* after success.                                                         *)
THEOREM Refinement == Spec => ImplementsTeardown
<1>1. Init => TD!Init
  BY DEF Init, TD!Init, Kinds, TD!Kinds, Secrets, TD!Secrets
<1>2. Init => IInv /\ RInv
  BY DEF Init, IInv, TypeOK, ObjStates, Conds, PCs, CleanupComplete,
         ChainProgress, DependentsGone, SecretsProgress, SecretsGone, RInv
<1>3. IInv /\ RInv /\ [Next]_vars => IInv' /\ RInv'
  BY IInvStep, RInvStep DEF IInv
<1>4. QED
  BY <1>1, <1>2, <1>3, StepRefines, PTL DEF Spec, ImplementsTeardown, TD!Spec

=============================================================================
