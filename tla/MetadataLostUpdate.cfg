SPECIFICATION AnnotationSpec
CHECK_DEADLOCK FALSE
CONSTANTS
  Records = {1, 2}
  Fields = {"a", "b"}
  WriterConfigs <- TwoWorkers
  MaxItems = 3
  MaxRpcFaults = 0
INVARIANT FieldsKept
