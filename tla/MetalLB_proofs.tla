--------------------------- MODULE MetalLB_proofs ---------------------------
(***************************************************************************)
(* Proofs about the MetalLB upsert model, for every set of bridges, names, *)
(* virtual IPs and bounds: type correctness, and that no bridge ever       *)
(* writes an object it does not own (NoForeignWrite).                      *)
(***************************************************************************)
EXTENDS MetalLB, TLAPS

-----------------------------------------------------------------------------
(* Facts about the helpers. *)

LEMMA DesiredType ==
  ASSUME NEW k \in Kinds, NEW b \in Bridges
  PROVE  Desired(k, b) \in Specs(k)
  BY DEF Specs

LEMMA NameType ==
  ASSUME NEW b \in Bridges
  PROVE  NameOf[b] \in Names
  BY DEF Names

(* One object of the store replaced by a well-typed one: the store keeps  *)
(* its type, the object is the new one, and every other object is as it   *)
(* was.                                                                   *)
LEMMA StoreWrite ==
  ASSUME TypeOK, NEW k \in Kinds, NEW n \in Names, NEW v \in Objects(k)
  PROVE  LET s == [store EXCEPT ![k][n] = v] IN
           /\ DOMAIN s = Kinds
           /\ \A j \in Kinds : s[j] \in [Names -> Objects(j)]
           /\ s[k][n] = v
           /\ \A j \in Kinds, m \in Names :
                 <<j, m>> # <<k, n>> => s[j][m] = store[j][m]
  BY DEF TypeOK

-----------------------------------------------------------------------------
(* Type correctness. *)

LEMMA UserTypeStep ==
  ASSUME TypeOK, User
  PROVE  TypeOK'
<1> SUFFICES ASSUME NEW k \in Kinds, NEW n \in Names,
                    NEW new \in Objects(k), UserOp(k, n, new)
             PROVE  TypeOK'
  <2>1. PICK k \in Kinds, n \in Names :
          UserCreate(k, n) \/ UserEdit(k, n) \/ UserRelabel(k, n)
          \/ UserDelete(k, n)
    BY DEF User
  <2>2. store[k][n] \in Objects(k)
    BY DEF TypeOK
  <2>3. CASE UserCreate(k, n)
    <3>1. PICK s \in Specs(k) :
            UserOp(k, n, [exists |-> TRUE, owner |-> NoOwner, spec |-> s,
                          rv |-> 0])
      BY <2>3 DEF UserCreate
    <3>2. [exists |-> TRUE, owner |-> NoOwner, spec |-> s, rv |-> 0]
            \in Objects(k)
      BY DEF Objects
    <3>3. QED
      BY <3>1, <3>2
  <2>4. CASE UserEdit(k, n)
    <3>1. PICK s \in Specs(k) \ {store[k][n].spec} :
            UserOp(k, n, [store[k][n] EXCEPT !.spec = s])
      BY <2>4 DEF UserEdit
    <3>2. [store[k][n] EXCEPT !.spec = s] \in Objects(k)
      BY <2>2 DEF Objects
    <3>3. QED
      BY <3>1, <3>2
  <2>5. CASE UserRelabel(k, n)
    <3>1. PICK w \in (Bridges \cup {NoOwner}) \ {store[k][n].owner} :
            UserOp(k, n, [store[k][n] EXCEPT !.owner = w])
      BY <2>5 DEF UserRelabel
    <3>2. [store[k][n] EXCEPT !.owner = w] \in Objects(k)
      BY <2>2 DEF Objects
    <3>3. QED
      BY <3>1, <3>2
  <2>6. CASE UserDelete(k, n)
    <3>1. [store[k][n] EXCEPT !.exists = FALSE] \in Objects(k)
      BY <2>2 DEF Objects
    <3>2. QED
      BY <2>6, <3>1 DEF UserDelete
  <2>7. QED
    BY <2>1, <2>3, <2>4, <2>5, <2>6
<1>1. store[k][n].rv \in Nat
  BY DEF TypeOK, Objects
<1>2. [new EXCEPT !.rv = store[k][n].rv + 1] \in Objects(k)
  BY <1>1 DEF Objects
<1>3. /\ DOMAIN store' = Kinds
      /\ \A j \in Kinds : store'[j] \in [Names -> Objects(j)]
  BY <1>2, StoreWrite DEF UserOp
<1>4. pending' \in [Bridges -> BOOLEAN]
  BY DEF UserOp, Enqueue, TypeOK
<1>5. userOps' \in 0..MaxUserOps
  <2>1. userOps < MaxUserOps /\ userOps' = userOps + 1
    BY DEF UserOp
  <2>2. QED
    BY <2>1, ConstantsAssumption DEF TypeOK
<1>6. \A b \in Bridges : \E j \in Kinds : snap'[b] \in Objects(j)
  BY DEF UserOp, TypeOK
<1>7. QED
  BY <1>3, <1>4, <1>5, <1>6 DEF UserOp, TypeOK

LEMMA FaultType ==
  ASSUME TypeOK, Fault
  PROVE  faults' \in 0..MaxFaults
<1>1. faults < MaxFaults /\ faults' = faults + 1
  BY DEF Fault
<1>2. QED
  BY <1>1, ConstantsAssumption DEF TypeOK

(* The object Current(b) refers to is a well-typed object of the kind     *)
(* being ensured.                                                         *)
LEMMA CurrentType ==
  ASSUME TypeOK, NEW b \in Bridges
  PROVE  /\ stage[b] \in Kinds
         /\ NameOf[b] \in Names
         /\ Current(b) \in Objects(stage[b])
  BY NameType DEF TypeOK, Current

(* setCondition keeps the conditions, the in-memory copy and the event    *)
(* record typed.                                                          *)
LEMMA SetConditionType ==
  ASSUME TypeOK, NEW b \in Bridges, NEW r \in Conditions, NEW ok,
         SetCondition(b, r, ok)
  PROVE  /\ cond' \in [Bridges -> Conditions]
         /\ mem' \in [Bridges -> Conditions]
         /\ lastEvent' \in [Bridges -> Conditions]
         /\ dupEvent' \in BOOLEAN
         /\ faults' \in 0..MaxFaults
<1>1. CASE mem[b] = r
  BY <1>1 DEF SetCondition, TypeOK
<1>2. CASE mem[b] # r
  <2>1. /\ mem' = [mem EXCEPT ![b] = r]
        /\ lastEvent' = [lastEvent EXCEPT ![b] = r]
        /\ dupEvent' = (dupEvent \/ lastEvent[b] = r)
        /\ \/ cond' = [cond EXCEPT ![b] = r] /\ UNCHANGED faults
           \/ Fault /\ UNCHANGED cond
    BY <1>2 DEF SetCondition
  <2>2. faults' \in 0..MaxFaults
    BY <2>1, FaultType DEF TypeOK
  <2>3. QED
    BY <2>1, <2>2 DEF TypeOK
<1>3. QED
  BY <1>1, <1>2

LEMMA ReconcileTypeStep ==
  ASSUME TypeOK, NEW b \in Bridges, Reconcile(b)
  PROVE  TypeOK'
<1>1. pending' \in [Bridges -> BOOLEAN]
  BY DEF Reconcile, TypeOK
<1>2. CASE b \in LoadBalancer
  BY <1>1, <1>2 DEF Reconcile, TypeOK, PCs, Kinds
<1>3. CASE b \notin LoadBalancer
  BY <1>1, <1>3 DEF Reconcile, TypeOK
<1>4. QED
  BY <1>2, <1>3

LEMMA GetTypeStep ==
  ASSUME TypeOK, NEW b \in Bridges, Get(b)
  PROVE  TypeOK'
<1> DEFINE o == Current(b)
<1>1. o \in Objects(stage[b]) /\ stage[b] \in Kinds
  BY CurrentType
<1>2. CASE Fault /\ EnsureFailed(b, "Getting") /\ UNCHANGED snap
  <2>1. faults' \in 0..MaxFaults
    BY <1>2, FaultType
  <2>2. QED
    BY <1>2, <2>1 DEF Get, EnsureFailed, TypeOK, PCs, Errors
<1>3. CASE EnsureFailed(b, "NotOwned") /\ UNCHANGED <<snap, faults>>
  BY <1>3 DEF Get, EnsureFailed, TypeOK, PCs, Errors
<1>4. CASE /\ snap' = [snap EXCEPT ![b] = o]
           /\ pc' = [pc EXCEPT ![b] = "Write"]
           /\ UNCHANGED <<stage, err, faults>>
  <2>1. \A c \in Bridges : \E j \in Kinds : snap'[c] \in Objects(j)
    BY <1>1, <1>4 DEF TypeOK
  <2>2. QED
    BY <1>4, <2>1 DEF Get, TypeOK, PCs
<1>5. CASE Ensured(b) /\ UNCHANGED <<snap, faults>>
  BY <1>5 DEF Get, Ensured, TypeOK, PCs, Kinds
<1>6. QED
  BY <1>2, <1>3, <1>4, <1>5 DEF Get

LEMMA WriteTypeStep ==
  ASSUME TypeOK, NEW b \in Bridges, Write(b)
  PROVE  TypeOK'
<1> DEFINE o == Current(b)
           k == stage[b]
           n == NameOf[b]
           written == [exists |-> TRUE,
                       owner |-> IF snap[b].exists THEN snap[b].owner ELSE b,
                       spec |-> Desired(k, b), rv |-> o.rv + 1]
           call == IF snap[b].exists THEN "Updating" ELSE "Creating"
<1>1. o \in Objects(k) /\ k \in Kinds /\ n \in Names
  BY CurrentType
<1>2. written \in Objects(k)
  <2>1. PICK j \in Kinds : snap[b] \in Objects(j)
    BY DEF TypeOK
  <2>2. Desired(k, b) \in Specs(k)
    BY <1>1, DesiredType
  <2>3. o.rv + 1 \in Nat
    BY <1>1 DEF Objects
  <2>4. snap[b].owner \in Bridges \cup {NoOwner}
    BY <2>1 DEF Objects
  <2>5. QED
    BY <2>2, <2>3, <2>4 DEF Objects
<1>3. call \in Errors
  BY DEF Errors
<1>4. UNCHANGED <<cond, mem, snap, pending, lastEvent, dupEvent, userOps>>
  BY DEF Write
<1>5. CASE Fault /\ EnsureFailed(b, call) /\ UNCHANGED <<store, foreignWrite>>
  <2>1. faults' \in 0..MaxFaults
    BY <1>5, FaultType
  <2>2. QED
    BY <1>3, <1>4, <1>5, <2>1 DEF EnsureFailed, TypeOK, PCs
<1>6. CASE /\ store' = [store EXCEPT ![k][n] = written]
           /\ foreignWrite' = (foreignWrite \/ (o.exists /\ o.owner # b))
           /\ Ensured(b)
           /\ UNCHANGED faults
  <2>1. /\ DOMAIN store' = Kinds
        /\ \A j \in Kinds : store'[j] \in [Names -> Objects(j)]
    BY <1>1, <1>2, <1>6, StoreWrite
  <2>2. /\ pc' \in [Bridges -> PCs]
        /\ stage' \in [Bridges -> Kinds]
        /\ err' = err
    BY <1>6 DEF Ensured, TypeOK, PCs, Kinds
  <2>3. QED
    BY <1>4, <1>6, <2>1, <2>2 DEF TypeOK
<1>7. CASE EnsureFailed(b, call) /\ UNCHANGED <<store, foreignWrite, faults>>
  BY <1>3, <1>4, <1>7 DEF EnsureFailed, TypeOK, PCs
<1>8. QED
  BY <1>5, <1>6, <1>7 DEF Write

LEMMA SetFailedTypeStep ==
  ASSUME TypeOK, NEW b \in Bridges, SetFailed(b)
  PROVE  TypeOK'
<1>1. [reason |-> FailReason(b), msg |-> err[b]] \in Conditions
  BY DEF TypeOK, FailReason, Conditions, Reasons, Messages
<1>2. PICK ok \in BOOLEAN :
        SetCondition(b, [reason |-> FailReason(b), msg |-> err[b]], ok)
  BY DEF SetFailed
<1>3. /\ cond' \in [Bridges -> Conditions]
      /\ mem' \in [Bridges -> Conditions]
      /\ lastEvent' \in [Bridges -> Conditions]
      /\ dupEvent' \in BOOLEAN
      /\ faults' \in 0..MaxFaults
  BY <1>1, <1>2, SetConditionType
<1>4. QED
  BY <1>3 DEF SetFailed, TypeOK, PCs, Errors

LEMMA SetReadyTypeStep ==
  ASSUME TypeOK, NEW b \in Bridges, SetReady(b)
  PROVE  TypeOK'
<1>1. [reason |-> "MetalLBReady", msg |-> "Ready"] \in Conditions
  BY DEF Conditions, Reasons, Messages
<1>2. PICK ok \in BOOLEAN :
        /\ SetCondition(b, [reason |-> "MetalLBReady", msg |-> "Ready"], ok)
        /\ pending' = [pending EXCEPT ![b] = pending[b] \/ ~ok]
  BY DEF SetReady
<1>3. /\ cond' \in [Bridges -> Conditions]
      /\ mem' \in [Bridges -> Conditions]
      /\ lastEvent' \in [Bridges -> Conditions]
      /\ dupEvent' \in BOOLEAN
      /\ faults' \in 0..MaxFaults
  BY <1>1, <1>2, SetConditionType
<1>4. pending' \in [Bridges -> BOOLEAN]
  BY <1>2 DEF TypeOK
<1>5. QED
  BY <1>3, <1>4 DEF SetReady, TypeOK, PCs

LEMMA TypeStep == TypeOK /\ [Next]_vars => TypeOK'
<1> SUFFICES ASSUME TypeOK, [Next]_vars PROVE TypeOK'
  OBVIOUS
<1>1. CASE \E b \in Bridges : BridgeStep(b)
  BY <1>1, ReconcileTypeStep, GetTypeStep, WriteTypeStep, SetFailedTypeStep,
     SetReadyTypeStep DEF BridgeStep
<1>2. CASE User
  BY <1>2, UserTypeStep
<1>3. CASE UNCHANGED vars
  BY <1>3 DEF vars, TypeOK
<1>4. QED
  BY <1>1, <1>2, <1>3 DEF Next

(* The initial state is well typed. *)
LEMMA InitType == Init => TypeOK
<1> SUFFICES ASSUME Init PROVE TypeOK
  OBVIOUS
<1>1. Gone \in Objects("IPAddressPool")
  BY DEF Gone, Objects, Specs
<1>2. \A k \in Kinds : Gone \in Objects(k)
  BY DEF Gone, Objects, Specs
<1>3. NoCondition \in Conditions
  BY DEF NoCondition, Conditions, Reasons, Messages
<1>4. \A b \in Bridges : \E k \in Kinds : snap[b] \in Objects(k)
  <2> SUFFICES ASSUME NEW b \in Bridges
               PROVE  \E k \in Kinds : snap[b] \in Objects(k)
    OBVIOUS
  <2>1. snap[b] \in Objects("IPAddressPool")
    BY <1>1 DEF Init
  <2>2. QED
    BY <2>1 DEF Kinds
<1>5. \A k \in Kinds : store[k] \in [Names -> Objects(k)]
  BY <1>2 DEF Init
<1>6. /\ cond \in [Bridges -> Conditions]
      /\ mem \in [Bridges -> Conditions]
      /\ lastEvent \in [Bridges -> Conditions]
  BY <1>3 DEF Init
<1>7. /\ pc \in [Bridges -> PCs]
      /\ stage \in [Bridges -> Kinds]
      /\ err \in [Bridges -> Errors]
      /\ pending \in [Bridges -> BOOLEAN]
  BY DEF Init, PCs, Kinds, Errors
<1>8. faults \in 0..MaxFaults /\ userOps \in 0..MaxUserOps
  BY ConstantsAssumption DEF Init
<1>9. QED
  BY <1>4, <1>5, <1>6, <1>7, <1>8 DEF Init, TypeOK

(* Every reachable state of the upsert model is well typed: the store     *)
(* holds well-typed objects under both kinds, and each bridge's control   *)
(* state, condition and snapshot are of their types.                      *)
THEOREM TypeCorrect == Spec => []TypeOK
<1>1. Init => TypeOK
  BY InitType
<1>2. QED
  BY <1>1, TypeStep, PTL DEF Spec

-----------------------------------------------------------------------------
(* No foreign write.  A bridge about to write holds a snapshot that it    *)
(* owns (the Get checked the labels) and that is no newer than the store; *)
(* every change of an object gives it a new resourceVersion, so when the  *)
(* version is still that of the snapshot the object is still the bridge's *)
(* own.                                                                   *)

Fresh(b) ==
  pc[b] = "Write" /\ snap[b].exists =>
    /\ snap[b].owner = b
    /\ snap[b].rv <= Current(b).rv
    /\ Current(b).rv = snap[b].rv => Current(b).owner = b

IInv ==
  /\ TypeOK
  /\ ~foreignWrite
  /\ \A b \in Bridges : Fresh(b)

(* Every step either leaves an object alone or gives it the next version. *)
Bumped(k, n) ==
  \/ store'[k][n] = store[k][n]
  \/ store'[k][n].rv = store[k][n].rv + 1

(* A user operation bumps only the object it touches. *)
LEMMA UserBumps ==
  ASSUME TypeOK, User
  PROVE  \A k \in Kinds, n \in Names : Bumped(k, n)
<1> SUFFICES ASSUME NEW k \in Kinds, NEW n \in Names,
                    NEW new, UserOp(k, n, new)
             PROVE  \A j \in Kinds, m \in Names : Bumped(j, m)
  BY DEF User, UserCreate, UserEdit, UserRelabel, UserDelete
<1>1. store' = [store EXCEPT ![k][n] = [new EXCEPT !.rv = store[k][n].rv + 1]]
  BY DEF UserOp
<1>2. store'[k][n].rv = store[k][n].rv + 1
  BY <1>1 DEF TypeOK
<1>3. \A j \in Kinds, m \in Names : <<j, m>> # <<k, n>> =>
        store'[j][m] = store[j][m]
  BY <1>1 DEF TypeOK
<1>4. QED
  BY <1>2, <1>3 DEF Bumped

(* A step of bridge c bumps at most the object c is ensuring, and leaves  *)
(* the control state and snapshot of every other bridge alone.            *)
LEMMA BridgeStepLocal ==
  ASSUME TypeOK, NEW c \in Bridges, BridgeStep(c)
  PROVE  /\ \A k \in Kinds, n \in Names : Bumped(k, n)
         /\ \A b \in Bridges \ {c} :
              pc'[b] = pc[b] /\ stage'[b] = stage[b] /\ snap'[b] = snap[b]
<1>1. CASE Write(c)
  <2> DEFINE o == Current(c)
             k == stage[c]
             n == NameOf[c]
             written == [exists |-> TRUE,
                         owner |-> IF snap[c].exists THEN snap[c].owner ELSE c,
                         spec |-> Desired(k, c), rv |-> o.rv + 1]
  <2>1. k \in Kinds /\ n \in Names
    BY CurrentType
  <2>2. store' = store \/ store' = [store EXCEPT ![k][n] = written]
    BY <1>1 DEF Write
  <2>3. \A j \in Kinds, m \in Names : Bumped(j, m)
    <3>1. CASE store' = store
      BY <3>1 DEF Bumped
    <3>2. CASE store' = [store EXCEPT ![k][n] = written]
      <4>1. store'[k][n] = written
        BY <2>1, <3>2 DEF TypeOK
      <4>2. written.rv = store[k][n].rv + 1
        BY DEF Current
      <4>3. \A j \in Kinds, m \in Names : <<j, m>> # <<k, n>> =>
              store'[j][m] = store[j][m]
        BY <2>1, <3>2 DEF TypeOK
      <4>4. QED
        BY <4>1, <4>2, <4>3 DEF Bumped
    <3>3. QED
      BY <2>2, <3>1, <3>2
  <2>4. \A b \in Bridges \ {c} :
          pc'[b] = pc[b] /\ stage'[b] = stage[b] /\ snap'[b] = snap[b]
    BY <1>1 DEF Write, Ensured, EnsureFailed, TypeOK
  <2>5. QED
    BY <2>3, <2>4
<1>2. CASE Reconcile(c) \/ Get(c) \/ SetFailed(c) \/ SetReady(c)
  <2>1. store' = store
    BY <1>2 DEF Reconcile, Get, SetFailed, SetReady
  <2>2. \A b \in Bridges \ {c} :
          pc'[b] = pc[b] /\ stage'[b] = stage[b] /\ snap'[b] = snap[b]
    BY <1>2 DEF Reconcile, Get, SetFailed, SetReady, Ensured, EnsureFailed,
                TypeOK
  <2>3. QED
    BY <2>1, <2>2 DEF Bumped
<1>3. QED
  BY <1>1, <1>2 DEF BridgeStep

(* Fresh(b) survives a step that leaves b's control state and snapshot    *)
(* alone and at most bumps the object b is ensuring.                      *)
LEMMA FreshUntouched ==
  ASSUME TypeOK, NEW b \in Bridges, Fresh(b),
         pc'[b] = pc[b], stage'[b] = stage[b], snap'[b] = snap[b],
         Bumped(stage[b], NameOf[b])
  PROVE  Fresh(b)'
<1> SUFFICES ASSUME pc'[b] = "Write", snap'[b].exists
             PROVE  /\ snap'[b].owner = b
                    /\ snap'[b].rv <= Current(b)'.rv
                    /\ Current(b)'.rv = snap'[b].rv => Current(b)'.owner = b
  BY DEF Fresh
<1>1. /\ snap[b].owner = b
      /\ snap[b].rv <= Current(b).rv
      /\ Current(b).rv = snap[b].rv => Current(b).owner = b
  BY DEF Fresh
<1>2. Current(b) \in Objects(stage[b])
  BY CurrentType
<1>3. PICK j \in Kinds : snap[b] \in Objects(j)
  BY DEF TypeOK
<1>4. Current(b).rv \in Nat /\ snap[b].rv \in Nat
  BY <1>2, <1>3 DEF Objects
<1>5. Current(b)' = store'[stage[b]][NameOf[b]]
  BY DEF Current
<1>6. CASE store'[stage[b]][NameOf[b]] = store[stage[b]][NameOf[b]]
  BY <1>1, <1>5, <1>6 DEF Current
<1>7. CASE store'[stage[b]][NameOf[b]].rv = store[stage[b]][NameOf[b]].rv + 1
  BY <1>1, <1>4, <1>5, <1>7 DEF Current
<1>8. QED
  BY <1>6, <1>7 DEF Bumped

(* After b's own step, Fresh(b) holds: only the Get that finds the object *)
(* missing, or owned by b with drift, leads to the write, with the        *)
(* snapshot just read.                                                    *)
LEMMA FreshOwnStep ==
  ASSUME TypeOK, NEW b \in Bridges, BridgeStep(b)
  PROVE  Fresh(b)'
<1>1. CASE Get(b)
  <2> DEFINE o == Current(b)
  <2>0. store' = store /\ pc[b] = "Get"
    BY <1>1 DEF Get
  <2>1. CASE EnsureFailed(b, "Getting") \/ EnsureFailed(b, "NotOwned")
    <3>1. pc'[b] = "SetFailed"
      BY <2>1 DEF EnsureFailed, TypeOK
    <3>2. QED
      BY <3>1 DEF Fresh
  <2>2. CASE Ensured(b)
    <3>1. pc'[b] \in {"Get", "SetReady"}
      BY <2>2 DEF Ensured, TypeOK
    <3>2. QED
      BY <3>1 DEF Fresh
  <2>3. CASE /\ o.exists => IsOwnedByBridge(o, b)
             /\ snap' = [snap EXCEPT ![b] = o]
             /\ UNCHANGED stage
    <3>1. snap'[b] = o /\ Current(b)' = o
      BY <2>0, <2>3 DEF TypeOK, Current
    <3>2. QED
      BY <2>3, <3>1, CurrentType DEF Fresh, IsOwnedByBridge, Objects
  <2>4. QED
    BY <1>1, <2>1, <2>2, <2>3, ZenonT(60) DEF Get
<1>2. CASE Reconcile(b) \/ Write(b) \/ SetFailed(b) \/ SetReady(b)
  <2>1. pc'[b] # "Write"
    BY <1>2 DEF Reconcile, Write, SetFailed, SetReady, Ensured, EnsureFailed,
                TypeOK
  <2>2. QED
    BY <2>1 DEF Fresh
<1>3. QED
  BY <1>1, <1>2 DEF BridgeStep

(* The Create or Update that succeeds writes over nothing, or over the    *)
(* object read, still the bridge's own.                                   *)
LEMMA NoForeignWriteStep ==
  ASSUME TypeOK, ~foreignWrite, NEW b \in Bridges, Fresh(b), Write(b)
  PROVE  ~foreignWrite'
<1> DEFINE o == Current(b)
<1>1. CASE foreignWrite' = foreignWrite
  BY <1>1
<1>2. CASE foreignWrite' # foreignWrite
  <2>1. /\ foreignWrite' = (foreignWrite \/ (o.exists /\ o.owner # b))
        /\ IF snap[b].exists THEN o.exists /\ o.rv = snap[b].rv
                             ELSE ~o.exists
    BY <1>2 DEF Write
  <2>2. pc[b] = "Write"
    BY DEF Write
  <2>3. o.exists => o.owner = b
    BY <2>1, <2>2 DEF Fresh
  <2>4. QED
    BY <2>1, <2>3
<1>3. QED
  BY <1>1, <1>2

LEMMA IInvStep == IInv /\ [Next]_vars => IInv'
<1> SUFFICES ASSUME IInv, [Next]_vars PROVE IInv'
  OBVIOUS
<1>1. TypeOK'
  BY TypeStep DEF IInv
<1>2. CASE \E c \in Bridges : BridgeStep(c)
  <2>1. PICK c \in Bridges : BridgeStep(c)
    BY <1>2
  <2>2. ~foreignWrite'
    <3>1. CASE Write(c)
      BY <3>1, NoForeignWriteStep DEF IInv
    <3>2. CASE Reconcile(c) \/ Get(c) \/ SetFailed(c) \/ SetReady(c)
      BY <3>2 DEF IInv, Reconcile, Get, SetFailed, SetReady
    <3>3. QED
      BY <2>1, <3>1, <3>2 DEF BridgeStep
  <2>3. \A b \in Bridges : Fresh(b)'
    <3> SUFFICES ASSUME NEW b \in Bridges PROVE Fresh(b)'
      OBVIOUS
    <3>1. CASE b = c
      BY <2>1, <3>1, FreshOwnStep DEF IInv
    <3>2. CASE b # c
      <4>1. /\ \A k \in Kinds, n \in Names : Bumped(k, n)
            /\ pc'[b] = pc[b] /\ stage'[b] = stage[b] /\ snap'[b] = snap[b]
        BY <2>1, <3>2, BridgeStepLocal DEF IInv
      <4>2. stage[b] \in Kinds /\ NameOf[b] \in Names
        BY CurrentType DEF IInv
      <4>3. QED
        BY <4>1, <4>2, FreshUntouched DEF IInv
    <3>4. QED
      BY <3>1, <3>2
  <2>4. QED
    BY <1>1, <2>2, <2>3 DEF IInv
<1>3. CASE User
  <2>1. \A k \in Kinds, n \in Names : Bumped(k, n)
    BY <1>3, UserBumps DEF IInv
  <2>2. UNCHANGED <<pc, stage, snap, foreignWrite>>
    <3>1. PICK k \in Kinds, n \in Names : \E new : UserOp(k, n, new)
      BY <1>3 DEF User, UserCreate, UserEdit, UserRelabel, UserDelete
    <3>2. PICK new : UserOp(k, n, new)
      BY <3>1
    <3>3. QED
      BY <3>2 DEF UserOp
  <2>3. \A b \in Bridges : Fresh(b)'
    <3> SUFFICES ASSUME NEW b \in Bridges PROVE Fresh(b)'
      OBVIOUS
    <3>1. stage[b] \in Kinds /\ NameOf[b] \in Names
      BY CurrentType DEF IInv
    <3>2. QED
      BY <2>1, <2>2, <3>1, FreshUntouched DEF IInv
  <2>4. QED
    BY <1>1, <2>2, <2>3 DEF IInv
<1>4. CASE UNCHANGED vars
  <2>1. \A b \in Bridges : Fresh(b)'
    BY <1>4 DEF vars, IInv, Fresh, Current
  <2>2. QED
    BY <1>1, <1>4, <2>1 DEF vars, IInv
<1>5. QED
  BY <1>2, <1>3, <1>4 DEF Next

(* Ownership guard: no bridge ever creates over, or updates, an           *)
(* IPAddressPool or L2Advertisement that carries no labels or another     *)
(* bridge's labels at the moment of the write -- for any number of        *)
(* bridges sharing a name, any user interference and any faults.  The     *)
(* resourceVersion precondition of the Update is what closes the window   *)
(* between the ownership check and the write.                             *)
THEOREM NoForeignWriteHolds == Spec => []NoForeignWrite
<1>1. Init => IInv
  BY InitType DEF Init, IInv, Fresh
<1>2. IInv => NoForeignWrite
  BY DEF IInv, NoForeignWrite
<1>3. QED
  BY <1>1, <1>2, IInvStep, PTL DEF Spec

=============================================================================
