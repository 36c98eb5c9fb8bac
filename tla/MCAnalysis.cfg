\* Every list of up to three findings.
CONSTANTS
  None = None
  Inputs <- MCInputs
  LowerCase <- MCLowerCase
  HashBefore <- MCHashBefore
  LLMConfigured = TRUE
  SecretIn <- MCSecretIn
  Redactable = {"token"}
  Bytes <- MCBytes
  Colon = ":"
  Decimal <- MCDecimal
  Owner <- MCOwner
  Others <- MCOthers
  Endpoints <- MCEndpoints
  Replies <- MCReplies
  Nil = Nil
  Endpoint = "/y"
SPECIFICATION Spec
CONSTRAINT Small
CHECK_DEADLOCK FALSE
INVARIANTS
  NothingLost
  InputOrderInvisible
  DisprovenNeverRepresents
  AccessorsKeepChains
