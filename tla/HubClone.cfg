SPECIFICATION Spec
CONSTANTS
  h1 = h1
  h2 = h2
  eth1 = eth1
  wlan1 = wlan1
  eth2 = eth2
  s1 = s1
  s2 = s2
  s3 = s3
  None = None
  Serial = {s1, s2, s3}
  Hub <- TwoHubs
  Mac <- TwoHubMacs
  MacsOf <- TwoHubHardware
  MaxRegen = 1
  Env = {"crash", "conflict", "denied"}
SYMMETRY SerialSymmetry
INVARIANTS NoSharedIdentity IdentityBoundToMaker OperatesAsStored PostsStoredIdentity
PROPERTIES ForeignIdentityReplaced
