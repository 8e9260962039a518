SPECIFICATION SchemaSpec
CONSTANTS
  Tables <- StatementTable
  Root <- MCRoot
  Fixed <- StatementFixed
  MaxDepth = 12
  Text <- MCText
  Blank = ""
  Trim <- MCTrim
  Sha256 <- MCSha256
  Decode <- MCDecode
  Bytes = {}
  NoDigest = NoDigest
  NoScore = NoScore
  NotJSON = NotJSON
  Nil = Nil
  Bad = Bad
  Times <- MCTimes
  ParsedTimes <- MCParsedTimes
  CaseVariants <- MCCaseVariants
  ZeroTime = "0001-01-01"
  Statements <- MCPlanned
  Sampled <- MCNone
  NoDocument = NoDocument
CHECK_DEADLOCK FALSE
INVARIANT
  ValidStatementsConform
