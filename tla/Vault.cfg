CONSTANTS
  Names = {n1, n2}
  Materials = {m1, m2}
  MaxVersions = 3
SPECIFICATION Spec
INVARIANTS TypeOK ActiveIsNewest LeftBehindOnlyByUncleanVersion OpenGatewayServes
PROPERTY RevokedStaysRevoked
