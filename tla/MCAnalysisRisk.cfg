\* The claim about unverified findings (a violation is expected).
CONSTANTS
  None = None
  Inputs <- MCInputs
  LowerCase <- MCLowerCase
  HashBefore <- MCHashBefore
  LLMConfigured = TRUE
  SecretIn <- MCSecretIn
  Redactable = {"token"}
  Bytes <- MCBytes
  Colon = ":"
  Decimal <- MCDecimal
  Owner <- MCOwner
  Others <- MCOthers
  Endpoints <- MCEndpoints
  Replies <- MCReplies
  Nil = Nil
  Endpoint = "/y"
SPECIFICATION Spec
CHECK_DEADLOCK FALSE
INVARIANTS
  UnverifiedNeverOutranks
