SPECIFICATION Spec
CONSTANTS
  city = city  hello = hello
  Width = 5
  Precision = 3
  IntWidth = 4
  Overflowed <- MinInt
  Structs <- MCStructs
  Arguments <- MCArguments
  Values <- MCValues
INVARIANT TypeOK
INVARIANT ConformingArrives
INVARIANT MisshapenRefused
INVARIANT ResultsArrive
