------------------------------ MODULE MetalLB ------------------------------
(***************************************************************************)
(* MetalLBManager.ConfigureMetalLB (internal/controller/metallb/metallb.go) *)
(* for several DPFHCPBridges at once: ensureIPAddressPool, then            *)
(* ensureL2Advertisement, each a Get, an ownership check (isOwnedByBridge), *)
(* a drift check (common.ResourceNeedsUpdate) and a Create or an Update;    *)
(* then setCondition, which emits an event and writes the bridge status    *)
(* only when the MetalLBConfigured condition changes.                      *)
(*                                                                         *)
(* Both resources live in the shared namespace openshift-operators and are *)
(* named after the bridge only, so two bridges of the same name in two     *)
(* namespaces compete for the same objects.  Each bridge is reconciled by  *)
(* its own worker; workers of different bridges interleave freely.  Users  *)
(* may create, edit, relabel and delete the objects; store calls may fail. *)
(***************************************************************************)
EXTENDS Naturals

CONSTANTS
  Bridges,        \* the DPFHCPBridges (identity: name and namespace)
  NameOf,         \* NameOf[b]: metadata.name of bridge b
  VIP,            \* VIP[b]: spec.virtualIP of bridge b
  LoadBalancer,   \* bridges for which ShouldExposeThroughLoadBalancer holds
  NoOwner,        \* ownership labels absent or naming no bridge
  EditedSpec,     \* a spec written by a user that no bridge desires
  MaxFaults,      \* failed store calls, at most
  MaxUserOps      \* user operations on MetalLB objects, at most

Names == {NameOf[b] : b \in Bridges}

ASSUME ConstantsAssumption ==
  /\ NameOf \in [Bridges -> Names]
  /\ LoadBalancer \subseteq Bridges
  /\ NoOwner \notin Bridges
  /\ MaxFaults \in Nat
  /\ MaxUserOps \in Nat

Kinds == {"IPAddressPool", "L2Advertisement"}

(* Reasons of the MetalLBConfigured condition; "None": no condition yet. *)
Reasons == {"None", "CreatingIPAddressPool", "L2AdvertisementFailed",
            "MetalLBReady"}

(* The error an ensure returns, abstracted to the call that failed:       *)
(* "getting ...", "creating ...", "updating ..." (the store's own text    *)
(* for a call is taken to be the same every time), or the ownership error *)
(* "... exists but is not owned by DPFHCPBridge ...".                     *)
Errors == {"Getting", "Creating", "Updating", "NotOwned"}

(* The condition's message: the error text, "Ready" for "MetalLB         *)
(* configured successfully", "None" before any condition.                 *)
Messages == Errors \cup {"Ready", "None"}

Conditions == [reason : Reasons, msg : Messages]

NoCondition == [reason |-> "None", msg |-> "None"]

PCs == {"Idle", "Get", "Write", "SetFailed", "SetReady"}

VARIABLES
  store,      \* store[k][n]: object of kind k named after bridge name n
  cond,       \* stored MetalLBConfigured condition (reason, message)
  mem,        \* the condition in the in-memory copy of the running reconcile
  pc,         \* next step of each bridge's reconcile
  stage,      \* the kind being ensured
  snap,       \* the object read by the last Get
  err,        \* the error the failed ensure returned
  pending,    \* a reconcile request for the bridge is queued
  lastEvent,  \* condition of the last MetalLBConfigured event of the bridge
  dupEvent,   \* history: an event repeated the previous one
  foreignWrite, \* history: the engine wrote an object not labelled for it
  faults,     \* store faults so far
  userOps     \* user operations so far

vars == <<store, cond, mem, pc, stage, snap, err, pending, lastEvent,
          dupEvent, foreignWrite, faults, userOps>>

(* buildIPAddressPool / buildL2Advertisement: the spec a bridge wants;    *)
(* the pool holds "<virtualIP>/32" and allocates to "clusters-<name>",    *)
(* the advertisement names the pool.                                      *)
Desired(k, b) ==
  IF k = "IPAddressPool" THEN [addr |-> VIP[b], alloc |-> NameOf[b]]
                         ELSE [pools |-> NameOf[b]]

Specs(k) == {Desired(k, b) : b \in Bridges} \cup {EditedSpec}

Objects(k) ==
  [exists : BOOLEAN, owner : Bridges \cup {NoOwner}, spec : Specs(k),
   rv : Nat]

TypeOK ==
  /\ DOMAIN store = Kinds
  /\ \A k \in Kinds : store[k] \in [Names -> Objects(k)]
  /\ cond \in [Bridges -> Conditions]
  /\ mem \in [Bridges -> Conditions]
  /\ pc \in [Bridges -> PCs]
  /\ stage \in [Bridges -> Kinds]
  /\ DOMAIN snap = Bridges
  /\ \A b \in Bridges : \E k \in Kinds : snap[b] \in Objects(k)
  /\ err \in [Bridges -> Errors]
  /\ pending \in [Bridges -> BOOLEAN]
  /\ lastEvent \in [Bridges -> Conditions]
  /\ dupEvent \in BOOLEAN
  /\ foreignWrite \in BOOLEAN
  /\ faults \in 0..MaxFaults
  /\ userOps \in 0..MaxUserOps

Gone == [exists |-> FALSE, owner |-> NoOwner, spec |-> EditedSpec, rv |-> 0]

(* Every bridge is new and queued; the store holds none of the objects.   *)
Init ==
  /\ store = [k \in Kinds |-> [n \in Names |-> Gone]]
  /\ cond = [b \in Bridges |-> NoCondition]
  /\ mem = [b \in Bridges |-> NoCondition]
  /\ pc = [b \in Bridges |-> "Idle"]
  /\ stage = [b \in Bridges |-> "IPAddressPool"]
  /\ snap = [b \in Bridges |-> Gone]
  /\ err = [b \in Bridges |-> "Getting"]
  /\ pending = [b \in Bridges |-> TRUE]
  /\ lastEvent = [b \in Bridges |-> NoCondition]
  /\ dupEvent = FALSE
  /\ foreignWrite = FALSE
  /\ faults = 0
  /\ userOps = 0

-----------------------------------------------------------------------------
(* Helpers of the code. *)

(* Mutant: only the name label compared, the namespace label ignored. *)
IsOwnedByBridgeNameOnly(o, b) ==
  o.owner \in Bridges /\ NameOf[o.owner] = NameOf[b]

(* Mutant: the nil check inverted, an object without labels counted as  *)
(* the bridge's own.                                                       *)
IsOwnedByBridgeNilLabels(o, b) == o.owner \in {b, NoOwner}

(* isOwnedByBridge: both labels present and equal to the bridge's name    *)
(* and namespace; the pair of labels is the bridge's identity.            *)
IsOwnedByBridge(o, b) == o.owner = b

(* Mutant: FieldByName finds no Spec field (e.g. a misspelt name), so no *)
(* drift is ever reported.                                                *)
NeedsUpdateSpecNotFound(existing, desired) == FALSE

(* common.ResourceNeedsUpdate: the Spec fields differ (reflect.DeepEqual). *)
ResourceNeedsUpdate(existing, desired) == existing # desired

(* The object of the current stage in the store, and its reason on error. *)
Current(b) == store[stage[b]][NameOf[b]]

(* Mutant: the condition type given where the reason is expected. *)
FailReasonIsType(b) == "MetalLBConfigured"

FailReason(b) ==
  IF stage[b] = "IPAddressPool" THEN "CreatingIPAddressPool"
                                ELSE "L2AdvertisementFailed"

(* The ensure of this stage returned nil: on to the advertisement, or to  *)
(* the Ready condition after it.                                          *)
Ensured(b) ==
  /\ UNCHANGED err
  /\ IF stage[b] = "IPAddressPool"
       THEN pc' = [pc EXCEPT ![b] = "Get"]
            /\ stage' = [stage EXCEPT ![b] = "L2Advertisement"]
       ELSE pc' = [pc EXCEPT ![b] = "SetReady"] /\ UNCHANGED stage

(* The ensure of this stage returned the error e. *)
EnsureFailed(b, e) ==
  /\ pc' = [pc EXCEPT ![b] = "SetFailed"]
  /\ err' = [err EXCEPT ![b] = e]
  /\ UNCHANGED stage

Fault ==
  /\ faults < MaxFaults
  /\ faults' = faults + 1

-----------------------------------------------------------------------------
(* The reconcile of bridge b. *)

(* A request for b is dequeued; the bridge (and its conditions) is read.  *)
(* Without load-balancer exposure ConfigureMetalLB returns at once.       *)
Reconcile(b) ==
  /\ pc[b] = "Idle"
  /\ pending[b]
  /\ pending' = [pending EXCEPT ![b] = FALSE]
  /\ IF b \in LoadBalancer
       THEN /\ pc' = [pc EXCEPT ![b] = "Get"]
            /\ stage' = [stage EXCEPT ![b] = "IPAddressPool"]
            /\ mem' = [mem EXCEPT ![b] = cond[b]]
       ELSE UNCHANGED <<pc, stage, mem>>
  /\ UNCHANGED <<store, cond, snap, err, lastEvent, dupEvent, foreignWrite,
                 faults, userOps>>

(* ensure*: Get by the deterministic name, then the ownership and drift    *)
(* checks.                                                                *)
Get(b) ==
  /\ pc[b] = "Get"
  /\ LET o == Current(b) IN
       \/ Fault /\ EnsureFailed(b, "Getting") /\ UNCHANGED snap
       \/ /\ ~o.exists
          /\ snap' = [snap EXCEPT ![b] = o]
          /\ pc' = [pc EXCEPT ![b] = "Write"]
          /\ UNCHANGED <<stage, err, faults>>
       \/ /\ o.exists
          /\ ~IsOwnedByBridge(o, b)
          /\ EnsureFailed(b, "NotOwned")
          /\ UNCHANGED <<snap, faults>>
       \/ /\ o.exists
          /\ IsOwnedByBridge(o, b)
          /\ ResourceNeedsUpdate(o.spec, Desired(stage[b], b))
          /\ snap' = [snap EXCEPT ![b] = o]
          /\ pc' = [pc EXCEPT ![b] = "Write"]
          /\ UNCHANGED <<stage, err, faults>>
       \/ /\ o.exists
          /\ IsOwnedByBridge(o, b)
          /\ ~ResourceNeedsUpdate(o.spec, Desired(stage[b], b))
          /\ Ensured(b)
          /\ UNCHANGED <<snap, faults>>
  /\ UNCHANGED <<store, cond, mem, pending, lastEvent, dupEvent,
                 foreignWrite, userOps>>

(* ensure*: Create of the desired object when the Get found nothing       *)
(* (AlreadyExists if someone created it since), or Update of the object   *)
(* read, its spec replaced by the desired one (Conflict if it changed     *)
(* since the Get, NotFound if it was deleted).                            *)
Write(b) ==
  /\ pc[b] = "Write"
  /\ LET o == Current(b)
         k == stage[b]
         n == NameOf[b]
         \* Update: the object read, its spec replaced; Create: the object
         \* built with the bridge's labels.  Either way a new version.
         written == [exists |-> TRUE,
                     owner |-> IF snap[b].exists THEN snap[b].owner ELSE b,
                     spec |-> Desired(k, b), rv |-> o.rv + 1]
         call == IF snap[b].exists THEN "Updating" ELSE "Creating"
     IN
       \/ Fault /\ EnsureFailed(b, call) /\ UNCHANGED <<store, foreignWrite>>
       \/ /\ IF snap[b].exists THEN o.exists /\ o.rv = snap[b].rv
                               ELSE ~o.exists
          /\ store' = [store EXCEPT ![k][n] = written]
          /\ foreignWrite' = (foreignWrite \/ (o.exists /\ o.owner # b))
          /\ Ensured(b)
          /\ UNCHANGED faults
       \/ /\ IF snap[b].exists THEN ~o.exists \/ o.rv # snap[b].rv
                               ELSE o.exists
          /\ EnsureFailed(b, call)
          /\ UNCHANGED <<store, foreignWrite, faults>>
  /\ UNCHANGED <<cond, mem, snap, pending, lastEvent, dupEvent, userOps>>

(* Mutant: the condition counted as changed only when its reason         *)
(* changes, a new message with the same reason dropped.                   *)
SetConditionReasonOnly(b, r, ok) ==
  IF mem[b].reason = r.reason
    THEN /\ ok
         /\ UNCHANGED <<cond, mem, lastEvent, dupEvent, faults>>
    ELSE /\ mem' = [mem EXCEPT ![b] = r]
         /\ lastEvent' = [lastEvent EXCEPT ![b] = r]
         /\ dupEvent' = (dupEvent \/ lastEvent[b] = r)
         /\ \/ ok /\ cond' = [cond EXCEPT ![b] = r] /\ UNCHANGED faults
            \/ ~ok /\ Fault /\ UNCHANGED cond

(* setCondition(b, r): meta.SetStatusCondition on the in-memory bridge,   *)
(* which reports a change when the status, the reason or the message      *)
(* differs (the status follows from the reason, ObservedGeneration is     *)
(* fixed); when it changed, an event carrying the message, then           *)
(* Status().Update.  ok says whether the update went through.             *)
SetCondition(b, r, ok) ==
  IF mem[b] = r
    THEN /\ ok
         /\ UNCHANGED <<cond, mem, lastEvent, dupEvent, faults>>
    ELSE /\ mem' = [mem EXCEPT ![b] = r]
         /\ lastEvent' = [lastEvent EXCEPT ![b] = r]
         /\ dupEvent' = (dupEvent \/ lastEvent[b] = r)
         /\ \/ ok /\ cond' = [cond EXCEPT ![b] = r] /\ UNCHANGED faults
            \/ ~ok /\ Fault /\ UNCHANGED cond

(* An ensure failed: the failure condition, its message the error text,  *)
(* is set (an error of its status update is only logged) and the error is *)
(* returned, so b is requeued; the error goes out of scope.               *)
SetFailed(b) ==
  /\ pc[b] = "SetFailed"
  /\ \E ok \in BOOLEAN :
       SetCondition(b, [reason |-> FailReason(b), msg |-> err[b]], ok)
  /\ pc' = [pc EXCEPT ![b] = "Idle"]
  /\ err' = [err EXCEPT ![b] = "Getting"]
  /\ pending' = [pending EXCEPT ![b] = TRUE]
  /\ UNCHANGED <<store, stage, snap, foreignWrite, userOps>>

(* Both resources ensured: the Ready condition; an error of its status    *)
(* update is returned.                                                    *)
SetReady(b) ==
  /\ pc[b] = "SetReady"
  /\ \E ok \in BOOLEAN :
       /\ SetCondition(b, [reason |-> "MetalLBReady", msg |-> "Ready"], ok)
       /\ pending' = [pending EXCEPT ![b] = pending[b] \/ ~ok]
  /\ pc' = [pc EXCEPT ![b] = "Idle"]
  /\ UNCHANGED <<store, stage, snap, err, foreignWrite, userOps>>

BridgeStep(b) ==
  \/ Reconcile(b) \/ Get(b) \/ Write(b) \/ SetFailed(b) \/ SetReady(b)

-----------------------------------------------------------------------------
(* Users.  A change to an object carrying a bridge's labels enqueues that *)
(* bridge, through the watch that maps the labels back to it.             *)

Enqueue(owners) ==
  pending' = [c \in Bridges |-> pending[c] \/ c \in owners]

UserOp(k, n, new) ==
  /\ userOps < MaxUserOps
  /\ userOps' = userOps + 1
  /\ store' = [store EXCEPT ![k][n] = [new EXCEPT !.rv = store[k][n].rv + 1]]
  /\ Enqueue({store[k][n].owner, new.owner} \cap Bridges)
  /\ UNCHANGED <<cond, mem, pc, stage, snap, err, lastEvent, dupEvent,
                 foreignWrite, faults>>

(* A user creates an object of that name, without the bridge's labels.   *)
UserCreate(k, n) ==
  /\ ~store[k][n].exists
  /\ \E s \in Specs(k) :
       UserOp(k, n, [exists |-> TRUE, owner |-> NoOwner, spec |-> s, rv |-> 0])

(* A user edits the spec (drift). *)
UserEdit(k, n) ==
  /\ store[k][n].exists
  /\ \E s \in Specs(k) \ {store[k][n].spec} :
       UserOp(k, n, [store[k][n] EXCEPT !.spec = s])

(* A user changes or removes the ownership labels. *)
UserRelabel(k, n) ==
  /\ store[k][n].exists
  /\ \E w \in (Bridges \cup {NoOwner}) \ {store[k][n].owner} :
       UserOp(k, n, [store[k][n] EXCEPT !.owner = w])

(* A user deletes the object. *)
UserDelete(k, n) ==
  /\ store[k][n].exists
  /\ UserOp(k, n, [store[k][n] EXCEPT !.exists = FALSE])

User ==
  \E k \in Kinds, n \in Names :
    UserCreate(k, n) \/ UserEdit(k, n) \/ UserRelabel(k, n) \/ UserDelete(k, n)

Next == (\E b \in Bridges : BridgeStep(b)) \/ User

(* Every bridge has its reconcile driven to the end by a worker. *)
Spec == Init /\ [][Next]_vars /\ \A b \in Bridges : WF_vars(BridgeStep(b))

-----------------------------------------------------------------------------
(* Properties. *)

(* Ownership guard (isOwnedByBridge before every Update, Create only of   *)
(* what the Get found missing): no bridge ever writes an IPAddressPool or *)
(* L2Advertisement that, at the moment of the write, carries no labels or *)
(* another bridge's labels -- also when two bridges share a name, and     *)
(* when users relabel or recreate objects between a Get and the write.    *)
NoForeignWrite == ~foreignWrite

(* Both objects of b exist, carry b's labels and b's desired spec, and    *)
(* the stored condition says MetalLBReady.                                *)
Converged(b) ==
  /\ \A k \in Kinds : LET o == store[k][NameOf[b]] IN
                         o.exists /\ o.owner = b /\ o.spec = Desired(k, b)
  /\ cond[b].reason = "MetalLBReady"

(* An object of b's name is held by someone else, and the stored          *)
(* condition's message is the ownership error, not that of an earlier     *)
(* failed store call.                                                     *)
Conflict(b) ==
  /\ \E k \in Kinds : LET o == store[k][NameOf[b]] IN
                         o.exists /\ o.owner # b
  /\ cond[b].msg = "NotOwned"

(* Drift correction and retry (ConfigureMetalLB returns the error of a    *)
(* failed ensure or Ready update, so the bridge is requeued): once users  *)
(* stop, every load-balanced bridge ends up for good either configured    *)
(* and Ready, or blocked by an object it does not own and saying so in    *)
(* the condition's message -- not left showing the text of an earlier     *)
(* transient store error with the same reason.                            *)
MetalLBConverges ==
  \A b \in LoadBalancer : <>[](Converged(b) \/ Conflict(b))

(* The upserts seen from the store: every change no user made is a       *)
(* bridge putting its own desired spec, with its own labels, into the      *)
(* object named after it, missing or already labelled for it before, with *)
(* the next resourceVersion (Upsert.tla; users' changes are counted by     *)
(* userOps).  It rests on the ownership check, on Update carrying the      *)
(* resourceVersion of the Get, and on Create failing over an existing     *)
(* object.                                                                *)
UP == INSTANCE Upsert WITH edits <- userOps

ImplementsUpsert == UP!Spec

(* setCondition's comment and the specification: a MetalLBConfigured     *)
(* event is emitted once per transition of the condition, never twice in  *)
(* a row for the same one.                                                *)
NoDuplicateEvents == ~dupEvent

=============================================================================
