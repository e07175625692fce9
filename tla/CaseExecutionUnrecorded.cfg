SPECIFICATION Spec
CONSTANTS
  r1 = r1
  r2 = r2
  r3 = r3
  isolate = isolate
  rotate = rotate
  analyst = analyst
  None = None
  Requests <- RequestsThree
  Actions <- ActionsTwo
  Gated <- GatedActions
  Supported <- SupportedActions
  Analysts <- OneAnalyst
INVARIANT
  EveryExecutionRecorded
