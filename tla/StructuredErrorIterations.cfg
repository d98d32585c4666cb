SPECIFICATION Spec
CONSTANTS
  a = a  c1 = c1  good = good  bad = bad  ask = ask  fix = fix  empty = empty
  base = base
  Texts = {good, bad, ask, fix, empty}
  NoText = empty
  CallIds = {c1}
  ToolNames = {a}
  Inputs = {args}
  args = args
  Prompts = {base}
  NoPrompt = NoPrompt
  Parseable = {good}
  Prompt = ask
  Corrective = fix
  FinishReasons = {"stop", "tools"}
  Replies <- MCReplies
  CallerConversations <- MCConversations
  RetryLimits <- UsualRetries
  MaxRuns = 2
CHECK_DEADLOCK FALSE
INVARIANT ErrorIterationsCompleted
