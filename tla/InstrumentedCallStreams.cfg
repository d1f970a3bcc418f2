\* The same instance: does an answer without usage reach its caller?
SPECIFICATION Spec
CONSTANTS
  Model <- MCModel
  Unnamed = "unknown"
  ModelMap <- MCModelMap
  DefaultMap <- MCDefaultMap
  NoTest = NoTest
  NoMap = NoMap
  AlphaScale = 10
  Call = {c1}
  Requests <- MCRequests
  Silent = Silent
  Routers <- MCRouters
  NoRouter = NoRouter
  Responses <- MCResponses
  Price <- MCPrice
  Collectors = {stdout, otlp}
  Unset = Unset
  StdoutOnly = stdout
  Calibrations <- MCCalibrations
  Uncalibrated = Uncalibrated
  QualityThreshold = 2
  MaxLayers = 2
INVARIANT AnswersReturn
CHECK_DEADLOCK FALSE
