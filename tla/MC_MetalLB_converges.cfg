CONSTANTS
  b1 = b1
  b2 = b2
  b3 = b3
  v1 = v1
  v2 = v2
  NoOwner = NoOwner
  EditedSpec = EditedSpec
  Bridges <- MCLiveBridges
  NameOf <- MCLiveNameOf
  VIP <- MCLiveVIP
  LoadBalancer <- MCLoadBalancer
  MaxFaults <- MCMaxFaults
  MaxUserOps <- MCMaxUserOps
SPECIFICATION Spec
PROPERTIES MetalLBConverges
CHECK_DEADLOCK FALSE
