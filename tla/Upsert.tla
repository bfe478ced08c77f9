------------------------------- MODULE Upsert -------------------------------
(***************************************************************************)
(* What ensureIPAddressPool and ensureL2Advertisement promise about the    *)
(* MetalLB objects in openshift-operators, without the Get, the checks,    *)
(* the failures and the conditions that implement it.  The objects change *)
(* one at a time, each change giving the next resourceVersion.  A change   *)
(* made by no one outside the operator (edits counts the outside ones) is *)
(* a bridge putting its own desired spec, with its own labels, into the   *)
(* object named after it -- and only where that object was missing or    *)
(* already carried its labels.                                            *)
(***************************************************************************)
EXTENDS Naturals

CONSTANTS
  Bridges,        \* the DPFHCPBridges
  NameOf,         \* NameOf[b]: metadata.name of bridge b
  NoOwner,        \* ownership labels absent or naming no bridge
  Specs(_),       \* Specs(k): the specs an object of kind k may hold
  Desired(_, _)   \* Desired(k, b): the spec bridge b builds for kind k

VARIABLES
  store,          \* store[k][n]: the object of kind k named after name n
  edits           \* changes made to the objects from outside the operator

vars == <<store, edits>>

Names == {NameOf[b] : b \in Bridges}

Kinds == {"IPAddressPool", "L2Advertisement"}

Owners == Bridges \cup {NoOwner}

Objects(k) == [exists : BOOLEAN, owner : Owners, spec : Specs(k), rv : Nat]

(* No object of any bridge's name exists yet. *)
Init ==
  /\ DOMAIN store = Kinds
  /\ \A k \in Kinds : store[k] \in [Names -> {o \in Objects(k) : ~o.exists}]
  /\ edits = 0

(* Bridge b makes its object of kind k hold the spec it desires and its   *)
(* labels, when that object is missing or already labelled for b.         *)
Apply(b, k) ==
  LET n == NameOf[b]
      o == store[k][n]
  IN /\ ~o.exists \/ o.owner = b
     /\ store' = [store EXCEPT ![k][n] =
                    [exists |-> TRUE, owner |-> b, spec |-> Desired(k, b),
                     rv |-> o.rv + 1]]
     /\ UNCHANGED edits

(* Someone outside the operator creates, edits, relabels or deletes one   *)
(* object.                                                                *)
Tamper(k, n) ==
  /\ \E e \in BOOLEAN, w \in Owners, s \in Specs(k) :
       store' = [store EXCEPT ![k][n] =
                   [exists |-> e, owner |-> w, spec |-> s,
                    rv |-> store[k][n].rv + 1]]
  /\ edits' = edits + 1

Next ==
  \/ \E b \in Bridges, k \in Kinds : Apply(b, k)
  \/ \E k \in Kinds, n \in Names : Tamper(k, n)

Spec == Init /\ [][Next]_vars

=============================================================================
