SPECIFICATION FairSpec
CONSTANTS
  Nodes <- MCNodes
  Users <- MCUsers
  Admins <- MCAdmins
  Conds <- MCConds
  Requests <- MCRequests
  Sections <- MCSections
  TokenIds = {t1, t2, t3, t4, t5}
  TaskIds = {k1, k2, k3, k4}
  Keys = {key1}
  MaxDepth = 5
  MaxActions = 3
  Clients = {p1, p2}
  Graphs <- AllGraphs
  NoNode = NoNode
  NoKey = NoKey
  NoCond = NoCond
  NoQuorum = NoQuorum
  AnyTask = AnyTask
  NoRequest = NoRequest
  Unused = Unused
  Consumed = Consumed
  Starter = Starter
  Nobody = Nobody
INVARIANTS
  OpenTaskHasItsToken
  OneOpenTaskPerNode
  ClosedMeansQuiet
  EachTaskActedOnOnce
  CurrentNodeIsTheTokens
  JoinWaitsForItsBranches
  BalancedNeverSticks
PROPERTIES
  ImplementsLifecycle
  TransactionEnds
