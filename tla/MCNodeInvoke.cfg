CONSTANTS
  c1 = c1
  c2 = c2
  i1 = i1
  i2 = i2
  i3 = i3
  n1 = n1
  a1 = a1
  client = client
  Nodes = {n1}
  Conns = {c1, c2}
  Invokes = {i1, i2, i3}
  NodeOf <- MCNodeOf
  NoConn = NoConn
  Approvals = {a1}
  ApprovalNodes = {n1}
  Clients = {client}
  InvokeClient <- MCInvokeClient
  ByApprover = {i1}
  NoApproval = NoApproval
  InvokeApproval <- MCInvokeApproval
SPECIFICATION EitherKindSpec
CHECK_DEADLOCK FALSE
INVARIANTS RegistryConsistent ApprovalsConsistent OnceMeansOnce ApprovedOnlyIfAllowed
PROPERTIES AnsweredOnce InvokesReturn
