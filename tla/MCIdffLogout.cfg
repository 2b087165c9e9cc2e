SPECIFICATION Spec
CONSTANTS
  sp1 = sp1
  sp2 = sp2
  sp3 = sp3
  idp = idp
  n1 = n1
  n2 = n2
  s1 = s1
  a1 = a1
  Providers = {sp1, sp2, sp3, idp}
  IdPs = {idp}
  SoapSlo = {sp1, sp2, idp}
  HttpSlo = {sp1, sp2, sp3, idp}
  NameIds = {n1, n2}
  SessionIndexes = {s1}
  AssertionIds = {a1}
  NoAssertion = NoAssertion
  NoNameID = NoNameID
  NoSessionIndex = NoSessionIndex
  None = None
  Local = Local
  ThinSessions = FALSE
  FederatedNames <- MCFederatedNames
  LoginOf <- MCLoginNoIndex
  Requests <- MCRequests
  Answers = {"Success", "RequestDenied", "FederationDoesNotExist", "UnsupportedProfile", "Failure"}
  Signatures = {"none", "valid", "bad"}
  AskMethods = {"SOAP", "REDIRECT"}
INVARIANTS
  TypeOK
  
  InitialKept
  AnsweredWhenEmpty
PROPERTIES
  RestoredOnlyWhenDone
  
