SPECIFICATION Spec
CONSTANTS
  sp1 = sp1
  sp2 = sp2
  sp3 = sp3
  idp = idp
  n1 = n1
  n2 = n2
  s1 = s1
  s2 = s2
  a1 = a1
  Providers = {sp1, sp2, sp3, idp}
  IdPs = {idp}
  SoapSlo = {sp1, sp2, idp}
  HttpSlo = {sp1, sp2, sp3, idp}
  NameIds = {n1, n2}
  SessionIndexes = {s1, s2}
  AssertionIds = {a1}
  NoAssertion = NoAssertion
  NoNameID = NoNameID
  NoSessionIndex = NoSessionIndex
  None = None
  Local = Local
  ThinSessions = FALSE
  LoginOf <- MCLoginOf
  Requests <- MCRequests
  Answers = {"Success", "Partial", "FailPartial", "RequestDenied", "UnknownPrincipal", "Failure", "Unverified"}
  AskMethods = {"SOAP"}
  AppRemoves = "success"
INVARIANTS
  TypeOK
  AnswersTheRequester
  SuccessMeansLoggedOut
  WholeSessionTried
  AskedOnce
  InitialKept
PROPERTIES
  LogoutEnds
  KeepsContract
