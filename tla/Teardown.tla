------------------------------ MODULE Teardown ------------------------------
(***************************************************************************)
(* What the finalizer cleanup of a DPFHCPBridge promises, without the      *)
(* store calls, the requeues and the failures that implement it: while the *)
(* bridge keeps its finalizer, the HostedCluster is deleted, then the      *)
(* NodePool, then the derived secrets; the cleanup is declared in          *)
(* progress, succeeded only once nothing is left, or timed out only after  *)
(* the deadline; the finalizer goes only after success.  HyperShift and    *)
(* users may finish or perform deletions at any time, in any order; what  *)
(* the order constrains is the set issued of objects the cleanup itself    *)
(* has sent a Delete for, which only the cleanup's own steps extend.       *)
(***************************************************************************)
EXTENDS Naturals

CONSTANTS DeletionTimeout, MaxTime

VARIABLES obj, secret, cond, finalizer, now,
          issued   \* objects the cleanup has sent a Delete for

vars == <<obj, secret, cond, finalizer, now, issued>>

Kinds == {"HostedCluster", "NodePool"}
Secrets == {"pull-secret", "ssh-key", "etcd-encryption-key"}

(* The dependents that must be gone before a Delete of k is sent. *)
DependsOn(k) == IF k = "NodePool" THEN {"HostedCluster"} ELSE {}

Clean ==
  /\ \A k \in Kinds : obj[k] = "Absent"
  /\ \A s \in Secrets : ~secret[s]

Init ==
  /\ obj \in [Kinds -> {"Absent", "Present"}]
  /\ secret \in [Secrets -> BOOLEAN]
  /\ cond = "None"
  /\ finalizer = TRUE
  /\ now = 0
  /\ issued = {}

Announce ==
  /\ finalizer
  /\ cond' = "CleanupInProgress"
  /\ UNCHANGED <<obj, secret, finalizer, now, issued>>

(* The cleanup sends a Delete for a dependent still in the store, once    *)
(* what it depends on is gone: the object starts terminating (or keeps    *)
(* terminating) or is removed at once.                                    *)
DeleteDependent(k) ==
  /\ finalizer
  /\ obj[k] # "Absent"
  /\ \A j \in DependsOn(k) : obj[j] = "Absent"
  /\ obj' \in {[obj EXCEPT ![k] = IF @ = "Present" THEN "Terminating" ELSE @],
               [obj EXCEPT ![k] = "Absent"]}
  /\ issued' = issued \cup {k}
  /\ UNCHANGED <<secret, cond, finalizer, now>>

DeleteSecret(s) ==
  /\ finalizer
  /\ \A k \in Kinds : obj[k] = "Absent"
  /\ secret[s]
  /\ secret' = [secret EXCEPT ![s] = FALSE]
  /\ issued' = issued \cup {s}
  /\ UNCHANGED <<obj, cond, finalizer, now>>

Succeed ==
  /\ finalizer
  /\ Clean
  /\ cond' = "CleanupSucceeded"
  /\ UNCHANGED <<obj, secret, finalizer, now, issued>>

GiveUp ==
  /\ finalizer
  /\ now > DeletionTimeout
  /\ cond' = "CleanupTimeout"
  /\ UNCHANGED <<obj, secret, finalizer, now, issued>>

Release ==
  /\ finalizer
  /\ cond = "CleanupSucceeded"
  /\ Clean
  /\ finalizer' = FALSE
  /\ UNCHANGED <<obj, secret, cond, now, issued>>

(* The other actors: time, HyperShift, users.  None of them sends the    *)
(* cleanup's Deletes, so none extends issued.                             *)
Elapse ==
  /\ now < MaxTime
  /\ now' = now + 1
  /\ UNCHANGED <<obj, secret, cond, finalizer, issued>>

Removed(k) ==
  /\ obj[k] = "Terminating"
  /\ obj' = [obj EXCEPT ![k] = "Absent"]
  /\ UNCHANGED <<secret, cond, finalizer, now, issued>>

Others ==
  /\ \/ \E k \in Kinds :
          /\ obj[k] = "Present"
          /\ obj' \in {[obj EXCEPT ![k] = "Terminating"],
                       [obj EXCEPT ![k] = "Absent"]}
          /\ UNCHANGED secret
     \/ \E s \in Secrets :
          /\ secret[s]
          /\ secret' = [secret EXCEPT ![s] = FALSE]
          /\ UNCHANGED obj
  /\ UNCHANGED <<cond, finalizer, now, issued>>

Next ==
  \/ Announce \/ \E k \in Kinds : DeleteDependent(k)
  \/ \E s \in Secrets : DeleteSecret(s)
  \/ Succeed \/ GiveUp \/ Release
  \/ Elapse \/ \E k \in Kinds : Removed(k) \/ Others

Spec == Init /\ [][Next]_vars

=============================================================================
