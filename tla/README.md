# Formal models of the DPF HCP bridge operator

This directory holds TLA+ models of the two protocols in the operator's
reconciler:

- the **bounded, ordered teardown** that runs while a `DPFHCPBridge` is being
  deleted (`internal/controller/hostedcluster/finalizer.go`);
- the **ownership-verified, drift-correcting upsert** of the MetalLB objects
  (`internal/controller/metallb/metallb.go`, `common.ResourceNeedsUpdate`).

It also holds abstract specifications of what the teardown and the upsert
promise, TLC configurations that check the models on small instances, and
TLAPS proofs for all values of the constants. The proofs cover:

- the teardown's safety, and its refinement of its abstract specification;
- the MetalLB type invariant and ownership guard;
- the upsert's refinement of its abstract specification;
- a property proved on the abstract upsert and carried down to the code
  model through that refinement.

## The system

The operator's reconciler is invoked once per change to a bridge, per change
to an object it watches, and after every requeue or returned error. The last
two are the controller-runtime work queue, with backoff after an error.

**Teardown.** When a bridge has a deletion timestamp, the reconciler calls
`HandleFinalizerCleanup`. The function proceeds as follows:

1. It writes the `HostedClusterCleanup` condition `CleanupInProgress`.
2. It checks the 30-minute deadline. Past the deadline, it writes
   `CleanupTimeout` and returns without a requeue.
3. It handles the HostedCluster, then the NodePool, through `deleteResource`:
   - Get the object.
   - If it is present and not yet terminating, Delete it and requeue after
     10 s.
   - If it is terminating, requeue.
   - If it is gone, go on to the next object.
4. It deletes the three secrets one by one (`deleteSecrets`, `deleteSecret`).
   A secret that is already gone counts as deleted.
5. It writes `CleanupSucceeded` and returns success. The caller then removes
   the finalizer.

An error anywhere returns the error, so the bridge is retried.

**Upsert.** For a bridge exposed through a load balancer, `ConfigureMetalLB`
ensures an `IPAddressPool` named after the bridge, then an `L2Advertisement`
named `advertise-<name>`. Both live in `openshift-operators`.

Each ensure runs these steps in order:

1. Get the object.
2. If it is missing, Create it.
3. If it exists but does not carry the bridge's two ownership labels (name
   and namespace), fail.
4. If `ResourceNeedsUpdate` reports drift, Update the object with the desired
   spec and emit a `MetalLBDriftCorrected` event.

After the ensures, `setCondition` writes the `MetalLBConfigured` condition.
On failure it writes `False` with reason `CreatingIPAddressPool` or
`L2AdvertisementFailed`. On success it writes `True` with reason
`MetalLBReady`. It does both things only when `meta.SetStatusCondition`
reports a change: first it emits an event, then it calls `Status().Update`.

The object names depend only on the bridge's name, so two bridges with the
same name in different namespaces compete for the same objects.

## Modules

| Module | Models | Source |
|---|---|---|
| `Teardown` | what the teardown promises, abstractly | §4.5 of the specification |
| `HostedClusterFinalizer` | teardown state machine | `finalizer.go` |
| `HostedClusterFinalizer_proofs` | TLAPS proofs about it, and of its refinement of `Teardown` | — |
| `MC_HostedClusterFinalizer` | small constants for TLC | — |
| `MetalLB` | upsert, ownership guard, drift detector, condition reporter, for several bridges | `metallb.go`, `common.ResourceNeedsUpdate` (`src/unnamed/part_001`) |
| `MetalLB_proofs` | TLAPS proofs of `TypeOK` and `NoForeignWrite` | — |
| `Upsert` | what the upsert promises, abstractly | §4.1 and §4.4 of the specification |
| `MetalLB_refinement` | TLAPS proof that `MetalLB` refines `Upsert` | — |
| `MC_MetalLB` | three bridges with one name, for TLC (two for the liveness run) | — |

### HostedClusterFinalizer

**State.**

- `obj`: HostedCluster and NodePool, each `Absent`, `Present` or
  `Terminating`.
- `secret`: whether each secret still exists.
- `cond`: the stored cleanup condition.
- `finalizer`: whether the finalizer is still set.
- `pc`: the store call the running invocation makes next. There is one value
  per call of the code, and `Idle` between invocations.
- `kind` and `sec`: the position in the chain and in the secret list.
- `pending`: a queued request.
- `now`: the time since the deletion timestamp, in steps of the requeue
  interval. `DeletionTimeout` is measured in the same unit.
- `faults` and `events`: bounded counters of store failures and restarts, and
  of watch events.
- `issued`: a history variable, the objects a Delete was issued for.

**Actions.** Each store call is one action. It carries every outcome the code
handles:

- success;
- `NotFound` and `NoMatch` counting as deleted;
- any other error returning the error, which requeues the bridge.

A step that fails is `ReturnError`. `Reconcile` starts an invocation.
`SetInProgress` and `SetTimeout` are the status updates of lines 80-123.
`GetResource`, `DeleteResource`, `GetSecret` and `DeleteSecret` are the store
calls of `deleteResource` and `deleteSecret`. `SetSucceeded` is lines 167-181.
`RemoveFinalizer` is the caller's removal of the finalizer. It is modelled
from the specification, because the caller is not in this repository.

**Environment.**

- `Tick`: the clock advances.
- `ObjectRemoved`: HyperShift's finalizers complete.
- `ExternalDelete`: another actor deletes a dependent or a secret.
- `WatchEvent`: a watch event arrives.
- `Restart`: the operator restarts in the middle of an invocation.

### Teardown

`Teardown` states what the cleanup promises, with no store calls, requeues or
failures. Its variables are the ones the outside world sees: `obj`, `secret`,
`cond`, `finalizer` and `now`. A sixth, `issued`, is the set of objects the
cleanup itself has sent a Delete for, as the store's audit log would show it.
While the finalizer is set, the engine may take these steps:

- announce the cleanup;
- delete a dependent that is still in the store once its dependencies are
  gone (adding it to `issued`);
- delete a secret once both dependents are gone (adding it to `issued`);
- declare success when everything is gone;
- time out strictly after the deadline;
- after success, release the finalizer.

Time, HyperShift and users may advance the clock, finish a deletion, or delete
something themselves, in any order. None of them changes `issued`, so a
Delete sent by the cleanup out of order cannot pass as another actor's.
`HostedClusterFinalizer` instantiates it as `TD`, with every variable and
constant mapped to the one of the same name; the code's `issued` is the
history variable that `DeleteResource` and `DeleteSecret` extend.

### MetalLB

**State.**

- `store[kind][name]`: each object, with `exists`, an owner, a spec and a
  resourceVersion. The owner is the bridge its labels name, or `NoOwner`.
- Per bridge:
  - `cond`: the stored condition, as a reason and a message.
  - `mem`: the condition in the in-memory copy of the running reconcile.
  - `err`: the error the failed ensure returned, which becomes the message.
  - `pc` and `stage`: the next call and the kind being ensured.
  - `snap`: the object the last Get returned.
  - `pending`: a queued request.
  - `lastEvent`: the reason of the last event.
- History variables:
  - `foreignWrite`: the engine wrote an object that, at that moment, carried
    no labels or another bridge's labels.
  - `dupEvent`: an event repeated the previous one for the same bridge.

**Actions.**

- `Reconcile`: read the bridge, or skip it when it is not load-balanced.
- `Get`: the Get and the two checks.
- `Write`: Create or Update, including `AlreadyExists`, the version-token
  `Conflict` and `NotFound`.
- `SetFailed` and `SetReady`: the two uses of `setCondition`.

**Messages.** The failure message embeds the error text, so the model keeps
the message, abstracted to the call whose error it carries: `Getting`,
`Creating`, `Updating` or `NotOwned`. The success message is `Ready`. The
store's own wording for one kind of failed call is taken to be the same every
time. `meta.SetStatusCondition` reports a change when the reason or the
message differs, so the same reason with a new error is a new transition,
with its own event and status write.

**Users.** Users create foreign objects, edit specs, relabel objects and
delete them, within a budget of `MaxUserOps` operations. A change to an object
that carries a bridge's labels enqueues that bridge, through the label-mapped
watch. This watch is modelled from the specification's "watch-driven
re-invocation", because the controller setup is not in this repository.

### Upsert

`Upsert` states what the two ensures promise about the store, with no Get,
checks, failures or conditions. Its variables are these:

- `store`: the objects, as in `MetalLB`.
- `edits`: the number of changes made from outside the operator.

The objects change one at a time, and each change gives the next
resourceVersion. There are two kinds of step:

- `Apply(b, k)`: bridge `b` makes its object of kind `k` hold the spec it
  desires and its labels. This is allowed only where that object is missing or
  already carries `b`'s labels.
- `Tamper(k, n)`: someone outside the operator creates, edits, relabels or
  deletes one object, and `edits` counts it.

Because outside changes are counted, a change that leaves `edits` alone must
be an `Apply`. `MetalLB` instantiates the specification as `UP`, with `edits`
mapped to `userOps`. The constants and `store` map to those of the same name.
Everything else in `MetalLB` is hidden.

## Runs

| Run | Config | Result | What it shows |
|---|---|---|---|
| `finalizer` | `MC_HostedClusterFinalizer.cfg` | pass, about 34,000 states | `TypeOK`, `CleanupComplete`, `OrderedTeardown`, `Quiescence`, `ImplementsTeardown` |
| `finalizer_stuck` | `MC_HostedClusterFinalizer_stuck.cfg` | violation of `StuckIsDiagnosed` | finding 1 |
| `metallb` | `MC_MetalLB.cfg` | pass, about 1,900,000 states | `TypeOK`, `NoForeignWrite` |
| `metallb_converges` | `MC_MetalLB_converges.cfg` | pass, about 820,000 states | `MetalLBConverges` |
| `metallb_upsert` | `MC_MetalLB_upsert.cfg` | pass, about 820,000 states | `ImplementsUpsert` |
| `metallb_events` | `MC_MetalLB_events.cfg` | violation of `NoDuplicateEvents` | finding 2 |

### The properties

- **`CleanupComplete`** (teardown). Whenever `CleanupSucceeded` is stored or
  the finalizer is gone, the HostedCluster, the NodePool and all three secrets
  are gone. This must survive the following:
  - faults at every call;
  - restarts between calls;
  - a dependent deleted by someone else between the Get and the Delete;
  - objects that stay `Terminating` across many invocations.
- **`OrderedTeardown`** (action property). A Delete of a NodePool or a secret
  is only issued once everything before it in the chain is gone.
- **`Quiescence`** (liveness). Every run of invocations ends: either the
  finalizer is removed, or the timeout condition is set with nothing queued.
- **`ImplementsTeardown`** (refinement). The teardown implements the
  abstract `Teardown` specification. The code's variables `obj`, `secret`,
  `cond`, `finalizer`, `now` and `issued` map to themselves. The control state
  (`pc`, `kind`, `sec`, `pending`) and the counters are hidden. Every code
  step is either invisible or one of these abstract steps:
  - `Announce`: the in-progress condition;
  - `DeleteDependent`: a Delete the cleanup sends, HostedCluster before
    NodePool;
  - `DeleteSecret`: a Delete the cleanup sends, only after both dependents
    are gone;
  - `Others`, `Removed`: anyone else's deletions, in any order, which never
    extend `issued`.
  - `Succeed`: only when everything is gone;
  - `GiveUp`: only strictly after the deadline;
  - `Release`: the finalizer goes only after success.
- **`NoForeignWrite`**. No bridge ever creates over, or updates, an object
  that at the moment of the write carries no labels or another bridge's
  labels. The races it covers:
  - two bridges creating the same pool;
  - a relabel or a recreate between the Get and the Update. Here the Update's
    resourceVersion is what protects the bridge.
- **`ImplementsUpsert`** (refinement). The upsert implements `Upsert`. Every
  change to the objects is one of two things:
  - a user's change;
  - a bridge writing its own desired spec, with its own labels and the next
    resourceVersion, into the object named after it, which was missing or
    already labelled for it.

  This is stronger than `NoForeignWrite`, which says nothing about what is
  written.
- **`MetalLBConverges`** (liveness). Once the users stop, every load-balanced
  bridge ends up, for good, in one of two states:
  - both objects are its own, with the desired spec, and the condition says
    `MetalLBReady`;
  - an object of its name belongs to someone else, and the condition's
    message is the ownership error. An earlier transient store error with the
    same reason must not be left showing.

Each property of a passing run has a mutant in `PROJECT.json`, a plausible
bug that TLC shows violates it:

- the loop over secrets stops one short;
- the chain order is swapped (this breaks `OrderedTeardown`, and
  `ImplementsTeardown` as well: the NodePool's Delete joins `issued` while
  the HostedCluster exists, which no `Teardown` step allows);
- the timeout status update returns an error;
- only the name label is compared, which breaks `NoForeignWrite`;
- an object without labels counts as owned (the `labels == nil` early return
  inverted), which breaks `ImplementsUpsert`;
- `FieldByName("Spec")` finds nothing;
- the condition type is passed as the reason;
- the timeout check counts the deadline itself as exceeded (`>=` for `>`),
  which breaks `ImplementsTeardown` because `GiveUp` requires
  `now > DeletionTimeout`;
- `setCondition` treats only a new reason as a change, which leaves a stale
  store-error message in place of the ownership error.

### Findings

1. **Timeout may be left undiagnosed** (`finalizer.go:115`). If the
   `CleanupTimeout` status update fails, the error is only logged and the
   function returns `Result{}, nil`. Nothing requeues the bridge, so it stays
   terminating for good with the condition `CleanupInProgress`. The
   specification (§4.5 step 2) says a terminal timeout condition is set.
2. **Duplicate condition events** (`metallb.go:131`). `setCondition` emits
   its event before `Status().Update`. When the update fails, the stored
   condition is unchanged, so the retry computes the same change and emits
   the same event again. The specification promises at most one notification
   per transition (§4.3), and its test list says the same under "Condition
   de-duplication".

### Bounds

**Teardown** (`MC_HostedClusterFinalizer`):

- `DeletionTimeout = 2` and `MaxTime = 3`. The deadline can be crossed before,
  during and after the chain, including in the middle of an invocation.
- `MaxFaults = 1`. One fault or restart can land at any call.
- `MaxEvents = 1`. One spurious watch event.

These bounds reach every action and every outcome of each call.

**MetalLB** (`MC_MetalLB`):

- Three bridges with one name. Two are load-balanced and have different
  virtual IPs. The third is not load-balanced, to exercise the skip.
- `MaxFaults = 1`.
- `MaxUserOps = 2`. This is enough for a relabel followed by a delete, or a
  foreign create followed by its removal, interleaved with both bridges'
  reconciles.

The liveness run `metallb_converges` and the refinement run `metallb_upsert`
drop the third bridge and keep the other bounds. For the two load-balanced bridges, the third is only one more
owner that is not theirs, which `NoOwner` already stands for. The full
three-bridge graph with the message model is too large to check within the
time limit for liveness, or for the refinement's action property. The
refinement is proved for any number of bridges.

### Fairness

Both specifications assume weak fairness of the engine's steps. The work
queue eventually delivers every queued request, and an invocation that has
started runs to its end.

The teardown also assumes weak fairness of `Tick`, since time passes. It
assumes no fairness of `ObjectRemoved`: HyperShift may never finish deleting.
This is why the timeout exists, and why `Quiescence` does not require the
finalizer to be removed.

Users and faults have no fairness and are bounded. Liveness is stated for the
period after they stop.

## What is proved

`HostedClusterFinalizer_proofs.tla` proves, for all constants allowed by
`ConstantsAssumption` (all four are natural numbers):

- **`TypeCorrect`**: `Spec => []TypeOK`.
- **`CleanupCompleteHolds`**: `Spec => []CleanupComplete`.
- **`OrderedTeardownHolds`**: `Spec => OrderedTeardown`.
- **`Refinement`**: `Spec => ImplementsTeardown`, that is, `Spec`
  implements `Teardown!Spec`.

`CleanupComplete` is not inductive on its own: a step that writes
`CleanupSucceeded` needs to know that the chain behind it was finished. The
inductive invariant `IInv` adds four facts about the control state:

- `ChainProgress`: while the NodePool is handled, the HostedCluster is gone.
- `DependentsGone`: from the secrets stage on, both dependents are gone.
- `SecretsProgress`: secrets before the current index are gone.
- `SecretsGone`: at `SetSucceeded` and `RemoveFinalizer`, everything is gone.

The environment can only move an object towards `Absent` (`AbsentStays`), and
a restart or error only returns to `Idle`. This is why these facts survive
every step. TLC checked `IInv` as an invariant before it was proved.
`OrderedTeardown` follows from `IInv` in a single step (`OrderedStepHolds`).

**Refinement** (`Refinement`: `Spec => ImplementsTeardown`). The proof
follows the usual layout:

1. `Init` maps to `TD!Init`.
2. Every step maps to a `Teardown` step or to a stutter (`StepRefines`).
3. `PTL` combines the two with the invariant.

The step lemma needs `IInv` and three more facts about control, `RInv`:

- outside `Idle` the finalizer is still set;
- at `RemoveFinalizer` the stored condition is `CleanupSucceeded`;
- at `SetTimeout` the deadline has passed.

`RInv` is proved inductive in `RInvStep`. A Delete of `Chain[kind]` maps to
`DeleteDependent`: `ChainProgress` (part of `IInv`) gives that the
HostedCluster is gone when the NodePool is visited. A Delete of an object
already `Terminating` also maps to `DeleteDependent`, which then leaves `obj`
as it is and extends `issued`. A Delete of a secret maps to `DeleteSecret`
by `DependentsGone`.

`MetalLB_proofs.tla` proves, for all constants allowed by MetalLB's
`ConstantsAssumption`:

- **`TypeCorrect`**: `Spec => []TypeOK`.
- **`NoForeignWriteHolds`**: `Spec => []NoForeignWrite`.

`NoForeignWrite` is not inductive. A successful Update is safe only because
of what the Get saw. The strengthening `Fresh(b)` says that a bridge at
`Write` that read an existing object has these properties:

- the bridge owns its snapshot;
- the snapshot's resourceVersion is at most the store's;
- if the versions are still equal, the stored object is still the bridge's.

It rests on two facts:

- every step either leaves an object alone or gives it the next version
  (`Bumped`, `UserBumps`, `BridgeStepLocal`);
- a step of one bridge leaves another bridge's control state and snapshot
  alone.

TLC checked the strengthened invariant on the `metallb` instance before it
was proved.

`MetalLB_refinement.tla` proves the following:

- **`UpsertRefinement`**: `Spec => ImplementsUpsert`.

The refinement follows the same layout as the teardown's:

1. `InitRefines`: every object of the initial store is missing.
2. `StepRefines`: every step maps to an `Upsert` step or a stutter.

In the step lemma, a user operation (`UserShape`, `UserRefines`) writes one
well-typed object with the next resourceVersion and counts itself, so it is a
`Tamper`. A Get, a failed call or a condition update leaves `store` and
`userOps` alone.

The interesting case is a successful Create or Update (`WriteRefines`).
`Create` succeeds only when the object is missing. `Update` succeeds only
when the object's resourceVersion equals that of the snapshot. There `Fresh`
from `MetalLB_proofs` gives two facts:

- the snapshot carried the bridge's labels;
- the object still does.

So the labels the Update keeps are the bridge's own, and the step is an
`Apply`. The refinement therefore rests on the same invariant `IInv` as
`NoForeignWriteHolds`.

## Only model-checked

The following stay with TLC, because TLAPS cannot prove liveness under
fairness, or reason about `ENABLED`:

- `Quiescence`;
- `MetalLBConverges`.

## Not modelled

- **`BuildServicePublishingStrategy`.** It is a pure function with no state,
  and returns one constant list per mode. The NodePort list's order comes from
  a byte-wise comparison of service-name strings. There is no interleaving,
  failure or history to explore, and `servicepublishing_test.go` checks both
  outputs exactly.
- **Stale informer reads.** The specification assumes read-after-write from
  the store. The client is built outside this repository.
- **Server-side defaulting of specs.** The built specs set every field that
  has a default (`AutoAssign` explicitly), and leave the others unset in both
  the desired and the stored object.
- **`ObservedGeneration`.** The bridge spec is fixed in the model.
- **The Helm chart and constants.**

## Plan for further work

1. Bridges whose spec changes (virtual IP, generation), to cover drift caused
   by the bridge itself, and `ObservedGeneration` in the condition.
2. A stale-read fault model for the teardown's Gets, to show which
   guarantees depend on the store's read-after-write promise.
