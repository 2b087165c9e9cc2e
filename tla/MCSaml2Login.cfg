SPECIFICATION Spec
CONSTANTS
  sp1 = sp1
  sp2 = sp2
  sp3 = sp3
  aff = aff
  pw = pw
  Idp = idp
  Sps = {sp1, sp2, sp3}
  Providers = {sp1, sp2, sp3, idp}
  NameIds <- MCNameIds
  AssertionIds <- MCIds
  SessionIndexes <- MCIds
  NoAssertion = NoAssertion
  NoNameID = NoNameID
  NoSessionIndex = NoSessionIndex
  ThinSessions = FALSE
  DefaultBinding <- MCDefaultBinding
  DefaultFormat <- MCDefaultFormat
  Qualifier <- MCQualifier
  WantSigned = TRUE
  NoMethod = NoMethod
  AnyMethod = AnyMethod
  Wishes <- MCWishes
  WithSlo = {sp1, sp2}
  EncryptsNameId = {sp2}
  Unsolicited = {sp1}
  Methods = {pw}
  VerifyHints = {"maybe", "force", "ignore"}
  NoRequest = NoRequest
  NoLogin = NoLogin
  MaxRequests = 2
  MaxLogins = 2
INVARIANTS
  TypeOK
  AnswersOwnRequest
  OpenedOnce
  LogoutReachesLogins
  FederationsAgree
  NamesApart
  AssertionIntact
CHECK_DEADLOCK FALSE
