SPECIFICATION Spec
CONSTANTS
  Texts <- Said
  Objects <- InTool
  SdkErrors = {"APITimeoutError", "APIStatusError", "APIError", "OutputParserException", "TimeoutError", "other"}
  MaxAny = 3
  MaxObject = 6
  MaxAround = 3
  MaxFramed = 5
INVARIANTS
  TypeOK
  ReadsTheObjectThatIsThere
  ShownWasSaidAndValid
  CodeSaysWhatHappened
  FallbackCoversEveryException
  EveryExitIsWhole
CHECK_DEADLOCK FALSE
