----------------------------- MODULE MC_MetalLB -----------------------------
(* Three bridges of the same name in three namespaces, so that all compete *)
(* for the objects "n" and "advertise-n" in openshift-operators; b3 is not *)
(* exposed through a load balancer.                                        *)
EXTENDS MetalLB

CONSTANTS b1, b2, b3, v1, v2

MCBridges == {b1, b2, b3}
MCNameOf == [b \in MCBridges |-> "n"]
MCVIP == [b \in MCBridges |-> IF b = b1 THEN v1 ELSE v2]
MCLoadBalancer == {b1, b2}
MCMaxFaults == 1
MCMaxUserOps == 2

(* For the liveness run: the two load-balanced bridges alone.  b3 matters *)
(* to them only as one more owner that is not theirs, which NoOwner       *)
(* already stands for.                                                    *)
MCLiveBridges == {b1, b2}
MCLiveNameOf == [b \in MCLiveBridges |-> "n"]
MCLiveVIP == [b \in MCLiveBridges |-> IF b = b1 THEN v1 ELSE v2]
=============================================================================
