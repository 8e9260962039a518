SPECIFICATION DriftSpec
CONSTANTS
  Ids <- MCIds
  Severities <- MCSeverities
  Versions <- MCVersions
  Statements <- MCStatements
  NoScore = NoScore
INVARIANTS
  DriftIsReported
  NewFailuresReported
  QuietSeriesUnchanged
  OppositeDeltas
