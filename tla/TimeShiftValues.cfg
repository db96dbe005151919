CONSTANTS
  Size = 2
  MaxCalls = 1
SPECIFICATION Spec
PROPERTY ReceivesValues
