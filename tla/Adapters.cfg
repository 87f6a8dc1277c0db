SPECIFICATION Spec
CONSTANTS
  a1 = a1
  a2 = a2
  p1 = p1
  p2 = p2
  Adapters = {a1, a2}
  Pairs = {p1, p2}
  PairsOf <- MCPairsOf
  Admin = Admin
  Recon = Recon
  NoThread = NoThread
CHECK_DEADLOCK FALSE
INVARIANT TypeOK
INVARIANT ListedOnceWithClient
PROPERTY ImplementsAdapterProtocol
