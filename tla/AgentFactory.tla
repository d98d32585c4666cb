---------------------------- MODULE AgentFactory ----------------------------
(***************************************************************************)
(* Agent::create (src/agent/agent.cpp) and the life of agents: each owns   *)
(* the HTTP client and the provider made for it, the provider refers to    *)
(* the client, and the agent points to the provider, its own or one of the *)
(* caller's.  Agents are moved, assigned and destroyed between runs, and   *)
(* what they owned is reused for others.                                   *)
(*                                                                         *)
(* Creation and assignment take a step for each part, so that what exists  *)
(* between two of them is there to see; no other call comes between.  A    *)
(* run is one exchange here: where it goes, and with whose key.            *)
(***************************************************************************)
EXTENDS FiniteSets

CONSTANTS
  Slots,            \* the caller's Agent objects
  Cells,            \* heap memory for clients and providers
  Free,             \* a cell without an object
  Null,             \* a unique_ptr without one
  NoObject,         \* outside the lifetime of the agent
  CallerProviders,  \* the caller's providers: they outlive the agents
  CallerProvider,   \* what each of them is
  Names,            \* provider names given to create
  Urls, NoUrl,      \* the base_urls callers give, the empty one too
  Keys,             \* the api_keys
  Options           \* AgentOptions: [base_url, api_key]

VARIABLES
  heap,    \* cell -> Free, a client or a provider
  agent,   \* slot -> NoObject or the members of the agent
  frame,   \* the call that has begun and not ended
  posted,  \* the last exchange
  outcome  \* of the last call

vars == <<heap, agent, frame, posted, outcome>>

Client == [object |-> "client"]
Provider(dialect, client, config) ==
  [object |-> "provider", dialect |-> dialect, client |-> client, config |-> config]

\* asked is history: what create was called with
Agent(http, owned, provider, asked) ==
  [http |-> http, owned |-> owned, provider |-> provider, asked |-> asked]

\* The addresses providers have by default
DefaultUrls ==
  {"https://api.anthropic.com", "https://api.openai.com", "http://localhost:11434"}

Configs == [base_url : Urls \cup DefaultUrls, api_key : Keys]
Providers ==
  [object : {"provider"}, dialect : {"messages", "completions"}, client : Cells \cup {Null},
   config : Configs]
Objects == {Client} \cup Providers

Asked == [name : Names, options : Options]
Agents ==
  [http : Cells \cup {Null}, owned : Cells \cup {Null}, provider : Cells \cup CallerProviders,
   asked : Asked \cup CallerProviders]

Idle == [step |-> "idle"]
Creating(a, asked, http) == [step |-> "creating", agent |-> a, asked |-> asked, http |-> http]
Assigning(from, to) == [step |-> "assigning", from |-> from, to |-> to]

Owned(a) == {agent[a].http, agent[a].owned} \ {Null}
\* and what create has made so far
Held == IF frame.step = "creating" THEN {frame.http} ELSE {}
Alive == {a \in Slots : agent[a] # NoObject}

Dangling == [url |-> NoUrl, dialect |-> "none", api_key |-> Null, asked |-> Null]

\* The caller's providers are none of the agents' own, and what stands for
\* nothing is told apart from everything else
ASSUME AgentFactoryAssumption ==
  /\ CallerProviders \cap (Cells \cup Asked) = {}
  /\ CallerProvider \in [CallerProviders -> Providers]
  /\ Options \subseteq [base_url : Urls, api_key : Keys]
  /\ NoUrl \notin DefaultUrls
  /\ Null \notin Cells /\ Null # Dangling
  /\ Free \notin Objects
  /\ NoObject \notin Agents

Init ==
  /\ heap = [cell \in Cells |-> Free]
  /\ agent = [a \in Slots |-> NoObject]
  /\ frame = Idle
  /\ posted = Null
  /\ outcome = "ok"
-----------------------------------------------------------------------------
(***************************************************************************)
(* Construction.                                                           *)
(***************************************************************************)
DefaultsTo(config, url) == IF config.base_url = NoUrl THEN [config EXCEPT !.base_url = url] ELSE config

AnthropicProvider(client, config) ==
  Provider("messages", client, DefaultsTo(config, "https://api.anthropic.com"))
OpenAiProvider(client, config) ==
  Provider("completions", client, DefaultsTo(config, "https://api.openai.com"))

OllamaAsOpenAi(name, client, config) ==                                   \* mutant
  IF name = "anthropic" THEN AnthropicProvider(client, config) ELSE OpenAiProvider(client, config)

MakeProvider(name, client, config) ==
  CASE name = "anthropic" -> AnthropicProvider(client, config)
    [] name = "openai" -> OpenAiProvider(client, config)
    [] name = "ollama" -> OpenAiProvider(client, DefaultsTo(config, "http://localhost:11434"))

Known(name) == name \in {"anthropic", "openai", "ollama"}

\* The client comes first, whatever the name
CreateClient(a, name, options) ==
  /\ frame = Idle /\ agent[a] = NoObject
  /\ \E http \in {cell \in Cells : heap[cell] = Free} :
        /\ heap' = [heap EXCEPT ![http] = Client]
        /\ frame' = Creating(a, [name |-> name, options |-> options], http)
  /\ outcome' = "ok"
  /\ UNCHANGED <<agent, posted>>

\* curl_easy_init fails in the client's constructor
CreateFails(a) ==
  /\ frame = Idle /\ agent[a] = NoObject
  /\ outcome' = "runtime_error"
  /\ UNCHANGED <<heap, agent, frame, posted>>

Create ==
  /\ frame.step = "creating" /\ Known(frame.asked.name)
  /\ \E provider \in {cell \in Cells : heap[cell] = Free} :
        /\ heap' = [heap EXCEPT ![provider] =
                      MakeProvider(frame.asked.name, frame.http, frame.asked.options)]
        /\ agent' = [agent EXCEPT ![frame.agent] =
                       Agent(frame.http, provider, provider, frame.asked)]
  /\ frame' = Idle /\ outcome' = "ok"
  /\ UNCHANGED posted

ClientLeft(http) == heap                                                  \* mutant
\* The unique_ptr in the frame goes with it
Unwound(http) == [heap EXCEPT ![http] = Free]

CreateUnknown ==
  /\ frame.step = "creating" /\ ~ Known(frame.asked.name)
  /\ heap' = Unwound(frame.http)
  /\ frame' = Idle /\ outcome' = "invalid_argument"
  /\ UNCHANGED <<agent, posted>>

\* Agent(LlmProvider&, AgentOptions)
Borrow(a, provider) ==
  /\ frame = Idle /\ agent[a] = NoObject
  /\ agent' = [agent EXCEPT ![a] = Agent(Null, Null, provider, provider)]
  /\ outcome' = "ok"
  /\ UNCHANGED <<heap, frame, posted>>
-----------------------------------------------------------------------------
(***************************************************************************)
(* The moves and the destructor are the defaults, member by member.        *)
(***************************************************************************)
Freed(cells) == [cell \in Cells |-> IF cell \in cells THEN Free ELSE heap[cell]]

\* The unique_ptrs are emptied; provider_ is a plain pointer and stays
Moved(from, to) ==
  [agent EXCEPT ![to] = agent[from],
                ![from] = [@ EXCEPT !.http = Null, !.owned = Null]]

MoveConstruct(from, to) ==
  /\ frame = Idle /\ from \in Alive /\ to \notin Alive
  /\ agent' = Moved(from, to)
  /\ outcome' = "ok"
  /\ UNCHANGED <<heap, frame, posted>>

\* owned_http_ is declared first: the target's client goes, while the provider
\* that refers to it is still there
ClientMoved(from, to) ==
  [agent EXCEPT ![to].http = agent[from].http, ![from].http = Null]

MoveAssign(from, to) ==
  /\ frame = Idle /\ from \in Alive /\ to \in Alive /\ from # to
  /\ heap' = Freed({agent[to].http})
  /\ agent' = ClientMoved(from, to)
  /\ frame' = Assigning(from, to) /\ outcome' = "ok"
  /\ UNCHANGED posted

PointerLeft(from, to) ==                                                  \* mutant
  [agent EXCEPT ![to] = [agent[from] EXCEPT !.http = agent[to].http,
                                            !.provider = agent[to].provider],
                ![from].owned = Null]
\* owned_provider_ and provider_
ProviderMoved(from, to) ==
  [agent EXCEPT ![to] = [agent[from] EXCEPT !.http = agent[to].http], ![from].owned = Null]

MoveAssignRest ==
  /\ frame.step = "assigning"
  /\ heap' = Freed({agent[frame.to].owned})
  /\ agent' = ProviderMoved(frame.from, frame.to)
  /\ frame' = Idle
  /\ UNCHANGED <<posted, outcome>>

Destroy(a) ==
  /\ frame = Idle /\ a \in Alive
  /\ heap' = Freed(Owned(a))
  /\ agent' = [agent EXCEPT ![a] = NoObject]
  /\ outcome' = "ok"
  /\ UNCHANGED <<frame, posted>>
-----------------------------------------------------------------------------
(***************************************************************************)
(* A run: the agent's provider posts through its client.                   *)
(***************************************************************************)
\* The caller's obligation: a moved-from agent has no provider of its own, but
\* may still have the caller's
Usable(a) ==
  /\ a \in Alive
  /\ agent[a].owned # Null \/ agent[a].provider \in CallerProviders

Target(provider) ==
  IF provider \in CallerProviders THEN CallerProvider[provider] ELSE heap[provider]

ClientLive(provider) == provider \in CallerProviders \/ heap[heap[provider].client] = Client

Live(provider) ==
  /\ Target(provider) # Free /\ Target(provider).object = "provider"
  /\ ClientLive(provider)

\* chat() of either provider: endpoint_url() and auth_headers()
Run(a) ==
  /\ frame = Idle /\ Usable(a)
  /\ LET provider == agent[a].provider IN
     posted' = IF Live(provider)
                 THEN [url |-> Target(provider).config.base_url,
                       dialect |-> Target(provider).dialect,
                       api_key |-> Target(provider).config.api_key,
                       asked |-> agent[a].asked]
                 ELSE Dangling
  /\ outcome' = "ok"
  /\ UNCHANGED <<heap, agent, frame>>

Next ==
  \/ \E a \in Slots :
       \/ \E name \in Names, options \in Options : CreateClient(a, name, options)
       \/ CreateFails(a)
       \/ \E provider \in CallerProviders : Borrow(a, provider)
       \/ \E to \in Slots : MoveConstruct(a, to) \/ MoveAssign(a, to)
       \/ Destroy(a)
       \/ Run(a)
  \/ Create \/ CreateUnknown
  \/ MoveAssignRest

Spec == Init /\ [][Next]_vars
-----------------------------------------------------------------------------
\* Every pointer of an agent and of a provider is one a run can follow: no
\* exchange goes through a provider or a client that is gone, whatever became
\* of the objects around.
TypeOK ==
  /\ \A a \in Alive : Owned(a) \subseteq Cells /\ agent[a].provider \in Cells \cup CallerProviders
  /\ posted # Dangling
  /\ outcome \in {"ok", "invalid_argument", "runtime_error"}

\* During an assignment the client that comes is the target's already, and the
\* target's old provider refers to one that is gone
ClientOf(a) ==
  IF frame.step = "assigning" /\ a = frame.from THEN agent[frame.to].http ELSE agent[a].http
Replaced(a) == frame.step = "assigning" /\ a = frame.to

\* Every client and every provider that is alive belongs to one agent, or to the
\* create that is making it: nothing leaks, also when create throws, and nothing
\* is freed twice.  A provider uses the client made for it and does not outlive
\* it, but for the one an assignment is replacing.
PartsOwned ==
  /\ {cell \in Cells : heap[cell] # Free} = Held \cup UNION {Owned(a) : a \in Alive}
  /\ \A a \in Alive :
        Owned(a) \cap Held = {} /\ \A b \in Alive \ {a} : Owned(a) \cap Owned(b) = {}
  /\ \A a \in Alive :
        agent[a].owned # Null /\ ~ Replaced(a) => heap[agent[a].owned].client = ClientOf(a)

\* The backend a name stands for, at the address asked for or at its own
Backend(asked) ==
  [dialect |-> IF asked.name = "anthropic" THEN "messages" ELSE "completions",
   url |-> CASE asked.options.base_url # NoUrl -> asked.options.base_url
             [] asked.options.base_url = NoUrl /\ asked.name = "anthropic" -> "https://api.anthropic.com"
             [] asked.options.base_url = NoUrl /\ asked.name = "openai" -> "https://api.openai.com"
             [] asked.options.base_url = NoUrl /\ asked.name = "ollama" -> "http://localhost:11434"]

\* Every run goes to the backend its agent was created for, in its dialect and
\* with the agent's own key, though agents are moved into one another and their
\* memory is used again: no key reaches another agent's backend, and an agent
\* on the caller's provider uses that provider's.
RunsReachTheirBackend ==
  posted # Null /\ posted # Dangling =>
    IF posted.asked \in CallerProviders
      THEN /\ posted.url = CallerProvider[posted.asked].config.base_url
           /\ posted.dialect = CallerProvider[posted.asked].dialect
           /\ posted.api_key = CallerProvider[posted.asked].config.api_key
      ELSE /\ posted.url = Backend(posted.asked).url
           /\ posted.dialect = Backend(posted.asked).dialect
           /\ posted.api_key = posted.asked.options.api_key
=============================================================================
