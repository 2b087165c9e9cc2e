\* The metadata of one entity, and the choices made from it.
SPECIFICATION MetadataSpec
CONSTANTS
  SpElements <- MCSpElements
  IdpElements <- MCIdpElements
  Requests <- MCRequests
  NoIndex = NoIndex
  NoUrl = NoUrl
  NoBinding = NoBinding
  Nothing = Nothing
  MaxElements = 2
  MaxDescriptors = 2
INVARIANTS
  ResponseReachesConsumer
  ArtifactFindsIssuer
CHECK_DEADLOCK FALSE
