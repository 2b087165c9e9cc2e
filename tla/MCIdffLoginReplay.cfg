SPECIFICATION Spec
CONSTANTS
  sp1 = sp1
  sp2 = sp2
  pw = pw
  Idp = idp
  Sps = {sp1, sp2}
  Providers = {sp1, sp2, idp}
  NameIds <- MCNameIds
  AssertionIds <- MCIds
  SessionIndexes <- MCIds
  NoAssertion = NoAssertion
  NoNameID = NoNameID
  NoSessionIndex = NoSessionIndex
  ThinSessions = FALSE
  Wishes <- MCPostWishes
  WithSlo = {sp1}
  Unverified = {sp2}
  Unsolicited = {sp1}
  Methods = {pw}
  NoMethod = NoMethod
  AnyMethod = AnyMethod
  NoRequest = NoRequest
  NoLogin = NoLogin
  MaxRequests = 2
  MaxLogins = 2
INVARIANT OpenedOnce
CHECK_DEADLOCK FALSE
