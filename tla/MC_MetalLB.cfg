CONSTANTS
  b1 = b1
  b2 = b2
  b3 = b3
  v1 = v1
  v2 = v2
  NoOwner = NoOwner
  EditedSpec = EditedSpec
  Bridges <- MCBridges
  NameOf <- MCNameOf
  VIP <- MCVIP
  LoadBalancer <- MCLoadBalancer
  MaxFaults <- MCMaxFaults
  MaxUserOps <- MCMaxUserOps
SPECIFICATION Spec
INVARIANTS TypeOK NoForeignWrite
CHECK_DEADLOCK FALSE
