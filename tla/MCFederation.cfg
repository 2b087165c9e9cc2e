SPECIFICATION Spec
CONSTANTS
  Contents <- MCContents
  NoContent = NoContent
  NoName = NoName
  NoFederation = NoFederation
  NoExchange = NoExchange
  Protocols = {"saml2", "idff"}
  MaxLogins = 2
  MaxExchanges = 2
INVARIANTS
  TypeOK
  NamesAgree
  TerminationHolds
PROPERTY OnlyLoginFederates
CHECK_DEADLOCK FALSE
