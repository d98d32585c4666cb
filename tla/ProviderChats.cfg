SPECIFICATION Spec
CONSTANTS
  a = a  b = b  c1 = c1  c2 = c2  hello = hello  ask = ask  empty = empty
  base = base  junk = junk
  Texts = {hello, ask, empty}
  NoText = empty
  CallIds = {c1, c2}
  ToolNames = {a, b}
  Inputs <- MCInputs
  Prompts = {base}
  NoPrompt = NoPrompt
  Null = Null
  Width = 5
  Precision = 3
  Overflowed <- MinInt
  InputTexts <- MCTexts
  RawTexts = {junk}
  Bodies <- MCBodies
  SystemPrompts <- MCPrompts
  Statuses = {200, 300, 500}
  Asks = {ask}
  MaxMessages = 7
CHECK_DEADLOCK FALSE
INVARIANT TypeOK
INVARIANT RequestsAcceptable
INVARIANT BackendHearsItself
INVARIANT CallsOutliveBackend
PROPERTY RequestsContinue
