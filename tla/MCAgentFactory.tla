--------------------------- MODULE MCAgentFactory ---------------------------
(***************************************************************************)
(* Small instances of AgentFactory: three agents over memory for two with  *)
(* parts of their own, so that memory is reused, and a caller's provider.  *)
(***************************************************************************)
EXTENDS AgentFactory, TLC

CONSTANTS shared, mine, proxy, key1, key2

MCNames == {"anthropic", "openai", "ollama", "unknown"}
MCOptions ==
  {[base_url |-> NoUrl, api_key |-> key1], [base_url |-> proxy, api_key |-> key2]}
MCCallerProvider ==
  [p \in CallerProviders |->
     Provider("completions", Null, [base_url |-> mine, api_key |-> key2])]

CellSymmetry == Permutations(Cells)
=============================================================================
