SPECIFICATION Spec
CONSTANTS
  a = a  c1 = c1  hello = hello  empty = empty
  Texts = {hello, empty}
  NoText = empty
  CallIds = {c1}
  ToolNames = {a}
  Inputs <- MCInputs
  Prompts = {empty}
  NoPrompt = NoPrompt
  Width = 5
  Precision = 3
  Overflowed <- MinInt
  Messages <- MCMessages
  Foreign <- MCForeign
  MaxMessages = 2
INVARIANT TypeOK
PROPERTY RestoresWhatWasSaved
PROPERTY RestoredSettles
PROPERTY NoTurnLost
