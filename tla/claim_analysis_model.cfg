SPECIFICATION Spec
CONSTANTS
  Texts <- Said
  Objects <- InTool
  SdkErrors = {"APITimeoutError", "APIStatusError", "APIError", "OutputParserException", "TimeoutError", "other"}
  MaxAny = 1
  MaxObject = 3
  MaxAround = 2
  MaxFramed = 3
INVARIANT AnalysisModelProducedIt
CHECK_DEADLOCK FALSE
