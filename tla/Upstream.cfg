SPECIFICATION FairSpec
CONSTANTS
  Calls = {c1, c2}
  Tools <- MCTools
  Text <- MCText
  Trim <- MCTrim
  UsableUrls <- MCUsableUrls
  DEFAULT_NODE_URL = "http://localhost:8090"
  DEFAULT_BRAIN_URL = "http://localhost:8095"
  Envs <- AllEnvs
  Workers = 1
  None = None
INVARIANTS TypeOK FallbackNeverSends CredentialsFitThePlane
PROPERTIES EveryCallIsAnswered StopsCleanly
