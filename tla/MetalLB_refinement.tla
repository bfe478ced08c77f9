------------------------- MODULE MetalLB_refinement -------------------------
(***************************************************************************)
(* The MetalLB upsert model implements Upsert (ImplementsUpsert), for      *)
(* every set of bridges, names, virtual IPs and bounds.  Users' changes    *)
(* map to Tamper; a successful Create or Update maps to Apply -- which     *)
(* needs the invariant IInv of MetalLB_proofs: the snapshot an Update      *)
(* writes back was owned by the bridge and, when its resourceVersion is   *)
(* still current, so is the object; every other step leaves the store     *)
(* and userOps alone.                                                     *)
(***************************************************************************)
EXTENDS MetalLB_proofs

-----------------------------------------------------------------------------
(* Facts about the objects. *)

(* The abstract and the detailed model give objects the same type. *)
LEMMA ObjectsAgree ==
  ASSUME NEW k \in Kinds
  PROVE  UP!Objects(k) = Objects(k)
  BY DEF UP!Objects, UP!Owners, Objects

(* An object with a new resourceVersion, written as a record. *)
LEMMA NewVersion ==
  ASSUME NEW k \in Kinds, NEW new \in Objects(k), NEW x
  PROVE  [new EXCEPT !.rv = x] =
           [exists |-> new.exists, owner |-> new.owner, spec |-> new.spec,
            rv |-> x]
<1>1. new = [exists |-> new.exists, owner |-> new.owner, spec |-> new.spec,
             rv |-> new.rv]
  BY DEF Objects
<1>2. QED
  BY <1>1

(* Every user operation writes one well-typed object. *)
LEMMA UserShape ==
  ASSUME TypeOK, User
  PROVE  \E k \in Kinds, n \in Names : \E new \in Objects(k) :
           UserOp(k, n, new)
<1>1. PICK k \in Kinds, n \in Names :
        UserCreate(k, n) \/ UserEdit(k, n) \/ UserRelabel(k, n)
        \/ UserDelete(k, n)
  BY DEF User
<1>2. store[k][n] \in Objects(k)
  BY DEF TypeOK
<1>3. CASE UserCreate(k, n)
  <2>1. PICK s \in Specs(k) :
          UserOp(k, n, [exists |-> TRUE, owner |-> NoOwner, spec |-> s,
                        rv |-> 0])
    BY <1>3 DEF UserCreate
  <2>2. [exists |-> TRUE, owner |-> NoOwner, spec |-> s, rv |-> 0]
          \in Objects(k)
    BY DEF Objects
  <2>3. QED
    BY <2>1, <2>2
<1>4. CASE UserEdit(k, n)
  <2>1. PICK s \in Specs(k) \ {store[k][n].spec} :
          UserOp(k, n, [store[k][n] EXCEPT !.spec = s])
    BY <1>4 DEF UserEdit
  <2>2. [store[k][n] EXCEPT !.spec = s] \in Objects(k)
    BY <1>2 DEF Objects
  <2>3. QED
    BY <2>1, <2>2
<1>5. CASE UserRelabel(k, n)
  <2>1. PICK w \in (Bridges \cup {NoOwner}) \ {store[k][n].owner} :
          UserOp(k, n, [store[k][n] EXCEPT !.owner = w])
    BY <1>5 DEF UserRelabel
  <2>2. [store[k][n] EXCEPT !.owner = w] \in Objects(k)
    BY <1>2 DEF Objects
  <2>3. QED
    BY <2>1, <2>2
<1>6. CASE UserDelete(k, n)
  <2>1. [store[k][n] EXCEPT !.exists = FALSE] \in Objects(k)
    BY <1>2 DEF Objects
  <2>2. QED
    BY <1>6, <2>1 DEF UserDelete
<1>7. QED
  BY <1>1, <1>3, <1>4, <1>5, <1>6

-----------------------------------------------------------------------------
(* The refinement. *)

LEMMA InitRefines == Init => UP!Init
<1> SUFFICES ASSUME Init PROVE UP!Init
  OBVIOUS
<1>1. \A k \in Kinds : Gone \in UP!Objects(k) /\ ~Gone.exists
  BY DEF Gone, UP!Objects, UP!Owners, Specs
<1>2. \A k \in Kinds : store[k] \in [Names -> {o \in UP!Objects(k) : ~o.exists}]
  BY <1>1 DEF Init
<1>3. QED
  BY <1>2 DEF Init, UP!Init, UP!Kinds, UP!Names, Names, Kinds

(* A user operation is a Tamper of the object it touches. *)
LEMMA UserRefines ==
  ASSUME TypeOK, User
  PROVE  UP!Next
<1>0. PICK k \in Kinds, n \in Names : \E new \in Objects(k) :
        UserOp(k, n, new)
  BY UserShape
<1>1. PICK new \in Objects(k) : UserOp(k, n, new)
  BY <1>0
<1>2. /\ new.exists \in BOOLEAN
      /\ new.owner \in UP!Owners
      /\ new.spec \in Specs(k)
  BY DEF Objects, UP!Owners
<1>3. store' = [store EXCEPT ![k][n] =
                  [exists |-> new.exists, owner |-> new.owner,
                   spec |-> new.spec, rv |-> store[k][n].rv + 1]]
  BY <1>1, NewVersion DEF UserOp
<1>4. userOps' = userOps + 1
  BY <1>1 DEF UserOp
<1>5. UP!Tamper(k, n)
  BY <1>2, <1>3, <1>4 DEF UP!Tamper
<1>6. QED
  BY <1>5 DEF UP!Next, UP!Kinds, UP!Names, Names, Kinds


(* A Create or Update that goes through is the bridge's Apply: Create    *)
(* only where the object is missing, Update only of the object read,      *)
(* still at its resourceVersion and so still labelled for the bridge,     *)
(* its labels kept.                                                       *)
LEMMA WriteRefines ==
  ASSUME TypeOK, NEW b \in Bridges, Fresh(b), Write(b), store' # store
  PROVE  UP!Apply(b, stage[b])
<1> DEFINE o == Current(b)
           k == stage[b]
           n == NameOf[b]
           written == [exists |-> TRUE,
                       owner |-> IF snap[b].exists THEN snap[b].owner ELSE b,
                       spec |-> Desired(k, b), rv |-> o.rv + 1]
<1>1. /\ IF snap[b].exists THEN o.exists /\ o.rv = snap[b].rv
                           ELSE ~o.exists
      /\ store' = [store EXCEPT ![k][n] = written]
      /\ UNCHANGED userOps
  BY DEF Write
<1>2. pc[b] = "Write"
  BY DEF Write
<1>3. CASE snap[b].exists
  <2>1. snap[b].owner = b /\ o.owner = b
    BY <1>1, <1>2, <1>3 DEF Fresh
  <2>2. written = [exists |-> TRUE, owner |-> b, spec |-> Desired(k, b),
                   rv |-> o.rv + 1]
    BY <1>3, <2>1
  <2>3. QED
    BY <1>1, <2>1, <2>2 DEF UP!Apply, Current
<1>4. CASE ~snap[b].exists
  <2>1. written = [exists |-> TRUE, owner |-> b, spec |-> Desired(k, b),
                   rv |-> o.rv + 1]
    BY <1>4
  <2>2. QED
    BY <1>1, <1>4, <2>1 DEF UP!Apply, Current
<1>5. QED
  BY <1>3, <1>4

(* Every step of the detailed model is a step of Upsert or leaves the     *)
(* store and userOps alone.                                               *)
LEMMA StepRefines == IInv /\ [Next]_vars => [UP!Next]_UP!vars
<1> SUFFICES ASSUME IInv, [Next]_vars PROVE [UP!Next]_UP!vars
  OBVIOUS
<1>1. CASE User
  BY <1>1, UserRefines DEF IInv
<1>2. ASSUME NEW b \in Bridges, BridgeStep(b)
      PROVE  [UP!Next]_UP!vars
  <2>1. UNCHANGED userOps
    BY <1>2 DEF BridgeStep, Reconcile, Get, Write, SetFailed, SetReady
  <2>2. CASE Write(b) /\ store' # store
    <3>1. UP!Apply(b, stage[b])
      BY <2>2, WriteRefines DEF IInv
    <3>2. stage[b] \in UP!Kinds
      BY CurrentType DEF IInv, UP!Kinds, Kinds
    <3>3. QED
      BY <3>1, <3>2 DEF UP!Next
  <2>3. CASE store' = store
    BY <2>1, <2>3 DEF UP!vars
  <2>4. QED
    BY <1>2, <2>2, <2>3 DEF BridgeStep, Reconcile, Get, SetFailed, SetReady
<1>3. CASE UNCHANGED vars
  BY <1>3 DEF vars, UP!vars
<1>4. QED
  BY <1>1, <1>2, <1>3 DEF Next

(* ImplementsUpsert: whatever bridges share a name, whatever users do to  *)
(* the objects and whatever store calls fail, every change to an          *)
(* IPAddressPool or L2Advertisement not made by a user is a bridge        *)
(* writing its own desired spec with its own labels into the object       *)
(* named after it, which was missing or already labelled for it, with     *)
(* the next resourceVersion.                                              *)
THEOREM UpsertRefinement == Spec => ImplementsUpsert
<1>1. Init => UP!Init
  BY InitRefines
<1>2. Init => IInv
  BY InitType DEF Init, IInv, Fresh
<1>3. QED
  BY <1>1, <1>2, IInvStep, StepRefines, PTL DEF Spec, ImplementsUpsert,
     UP!Spec


=============================================================================
