CONSTANTS
  MaxIndex = 4
  MaxMembers = 3
  MaxVal = 1
SPECIFICATION EnsembleSpec
INVARIANTS
  EnsembleTypeOK
  FirstOffered
  DeparturesAddToZero
  SpreadIsKept
  WrittenIsReread
PROPERTY AllRead
