SPECIFICATION Spec
CONSTANTS
  p1 = p1
  p2 = p2
  n1 = n1
  n2 = n2
  s1 = s1
  a1 = a1
  a2 = a2
  a3 = a3
  a4 = a4
  Providers = {p1, p2}
  NameIds = {n1, n2}
  SessionIndexes = {s1}
  AssertionIds = {a1, a2, a3, a4}
  NoAssertion = NoAssertion
  NoNameID = NoNameID
  NoSessionIndex = NoSessionIndex
  ThinSessions = FALSE
  NoSession = NoSession
  Received <- MCReceived
  AdviceIds = {a1}
  Judged = {p1}
INVARIANTS
  TypeOK
  NoDoublons
  TablesAgree
  DirtyCoversChanges
PROPERTY RestoreKeepsLogins
