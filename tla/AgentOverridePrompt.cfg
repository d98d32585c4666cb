SPECIFICATION Spec
CONSTANTS
  a = a  b = b  t1 = t1  t2 = t2  c1 = c1  c2 = c2
  good = good  bad = bad  ask = ask  fix = fix  empty = empty
  base = base  own = own  call = call
  Texts = {good, bad, ask, fix, empty}
  NoText = empty
  CallIds = {c1, c2}
  ToolNames = {a, b}
  Inputs <- MCInputs
  Prompts = {base, own, call, empty}
  NoPrompt = NoPrompt
  Tools = {t1}
  Parseable = {good}
  Prompt = ask
  Corrective = fix
  FinishReasons = {"stop", "tools"}
  NoCap = NoCap
  Null = Null
  Width = 5
  Precision = 3
  Overflowed <- MinInt
  Overrides <- ChatOverrides
  Replies <- ChatReplySet
  Options <- MCOptions
  CallerConversations <- ChatConversations
  Modes = {"text"}
  MaxRetries = 2
  MaxRuns = 1
INVARIANT OverridePromptWins
