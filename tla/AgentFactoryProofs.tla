------------------------- MODULE AgentFactoryProofs -------------------------
(***************************************************************************)
(* What holds of the parts of agents, however many there are and whatever  *)
(* is created, moved, assigned and destroyed in whatever order: they have  *)
(* one owner, every pointer a run follows is live, and runs reach the      *)
(* backends their agents were created for.                                 *)
(***************************************************************************)
EXTENDS AgentFactory, TLAPS

Frames ==
  {Idle}
  \cup [step : {"creating"}, agent : Slots, asked : Asked, http : Cells]
  \cup [step : {"assigning"}, from : Slots, to : Slots]

TypeInv ==
  /\ heap \in [Cells -> Objects \cup {Free}]
  /\ agent \in [Slots -> Agents \cup {NoObject}]
  /\ frame \in Frames
  /\ outcome \in {"ok", "invalid_argument", "runtime_error"}

\* The parts of an agent made by create: a client, and behind it the provider
\* that create makes for what was asked
OwnParts(a) ==
  /\ ClientOf(a) # Null /\ ClientOf(a) # agent[a].owned
  /\ agent[a].provider = agent[a].owned
  /\ agent[a].asked \in Asked /\ Known(agent[a].asked.name)
  /\ heap[ClientOf(a)] = Client
  /\ heap[agent[a].owned] =
       MakeProvider(agent[a].asked.name, ClientOf(a), agent[a].asked.options)

\* An agent has both its parts, or neither; on a caller's provider, neither
Whole(a) ==
  /\ agent[a].owned # Null => OwnParts(a)
  /\ agent[a].owned = Null => ClientOf(a) = Null
  /\ agent[a].provider \in CallerProviders =>
        agent[a].owned = Null /\ agent[a].asked = agent[a].provider

OneOwner ==
  /\ \A cell \in Cells :
        heap[cell] # Free <=> cell \in Held \/ \E a \in Alive : cell \in Owned(a)
  /\ \A a \in Alive :
        Owned(a) \cap Held = {} /\ \A b \in Alive \ {a} : Owned(a) \cap Owned(b) = {}

\* What a call that has begun can rely on
FrameInv ==
  /\ frame.step = "creating" => frame.agent \notin Alive /\ heap[frame.http] = Client
  /\ frame.step = "assigning" =>
       /\ frame.from \in Alive /\ frame.to \in Alive /\ frame.from # frame.to
       /\ agent[frame.from].http = Null
       /\ agent[frame.to].owned # Null => agent[frame.to].owned # agent[frame.to].http

PartsInv == OneOwner /\ FrameInv /\ \A a \in Alive : ~ Replaced(a) => Whole(a)

\* The last exchange went where it should, through objects that were live
ArrivedInv == posted # Dangling /\ RunsReachTheirBackend

Inv == TypeInv /\ PartsInv /\ ArrivedInv
-----------------------------------------------------------------------------
(***************************************************************************)
(* What create makes.                                                      *)
(***************************************************************************)

\* An address given stands, an empty one is replaced
LEMMA DefaultsToConfig ==
  ASSUME NEW config \in Configs, NEW url \in DefaultUrls
  PROVE  /\ DefaultsTo(config, url) \in Configs
         /\ DefaultsTo(config, url).api_key = config.api_key
         /\ DefaultsTo(config, url).base_url =
              IF config.base_url = NoUrl THEN url ELSE config.base_url
         /\ DefaultsTo(config, url).base_url # NoUrl
BY AgentFactoryAssumption DEF DefaultsTo, Configs

\* The provider made for a name speaks its dialect, at its address, with the key
LEMMA MadeProvider ==
  ASSUME NEW asked \in Asked, Known(asked.name), NEW client \in Cells
  PROVE  LET made == MakeProvider(asked.name, client, asked.options) IN
         /\ made \in Providers
         /\ made.client = client
         /\ made.dialect = Backend(asked).dialect
         /\ made.config.base_url = Backend(asked).url
         /\ made.config.api_key = asked.options.api_key
<1> DEFINE options == asked.options
           ollama == DefaultsTo(options, "http://localhost:11434")
<1>1. options \in Configs
  BY AgentFactoryAssumption DEF Asked, Configs
<1>2. CASE asked.name = "anthropic"
  <2>1. MakeProvider(asked.name, client, options) =
          Provider("messages", client, DefaultsTo(options, "https://api.anthropic.com"))
    BY <1>2 DEF MakeProvider, AnthropicProvider
  <2>2. "https://api.anthropic.com" \in DefaultUrls
    BY DEF DefaultUrls
  <2> QED BY <1>1, <1>2, <2>1, <2>2, DefaultsToConfig DEF Provider, Providers, Backend
<1>3. CASE asked.name = "openai"
  <2>1. MakeProvider(asked.name, client, options) =
          Provider("completions", client, DefaultsTo(options, "https://api.openai.com"))
    BY <1>3 DEF MakeProvider, OpenAiProvider
  <2>2. "https://api.openai.com" \in DefaultUrls
    BY DEF DefaultUrls
  <2> QED BY <1>1, <1>3, <2>1, <2>2, DefaultsToConfig DEF Provider, Providers, Backend
<1>4. CASE asked.name = "ollama"
  <2>1. MakeProvider(asked.name, client, options) =
          Provider("completions", client, DefaultsTo(ollama, "https://api.openai.com"))
    BY <1>4 DEF MakeProvider, OpenAiProvider
  <2>2. "http://localhost:11434" \in DefaultUrls /\ "https://api.openai.com" \in DefaultUrls
    BY DEF DefaultUrls
  <2>3. /\ ollama \in Configs /\ ollama.base_url # NoUrl
        /\ ollama.api_key = options.api_key
        /\ ollama.base_url =
             IF options.base_url = NoUrl THEN "http://localhost:11434" ELSE options.base_url
    BY <1>1, <2>2, DefaultsToConfig
  <2> HIDE DEF ollama
  <2>4. /\ DefaultsTo(ollama, "https://api.openai.com") \in Configs
        /\ DefaultsTo(ollama, "https://api.openai.com").api_key = options.api_key
        /\ DefaultsTo(ollama, "https://api.openai.com").base_url = ollama.base_url
    BY <2>2, <2>3, DefaultsToConfig
  <2> QED BY <1>4, <2>1, <2>3, <2>4 DEF Provider, Providers, Backend
<1> QED BY <1>2, <1>3, <1>4 DEF Known

\* What an agent owns is memory that holds objects
LEMMA OwnedTypes ==
  ASSUME TypeInv, NEW a \in Alive
  PROVE  Owned(a) \subseteq Cells /\ agent[a] \in Agents /\ a \in Slots
BY AgentFactoryAssumption DEF TypeInv, Alive, Owned, Agents

\* Between calls nothing is held, and agents have their own clients
LEMMA BetweenCalls ==
  ASSUME frame = Idle
  PROVE  Held = {} /\ \A a : ClientOf(a) = agent[a].http /\ ~ Replaced(a)
BY DEF Idle, Held, ClientOf, Replaced

LEMMA BetweenCallsNext ==
  ASSUME frame' = Idle
  PROVE  Held' = {} /\ FrameInv' /\ \A a : ClientOf(a)' = agent'[a].http /\ ~ Replaced(a)'
BY DEF Idle, Held, ClientOf, Replaced, FrameInv
-----------------------------------------------------------------------------
(***************************************************************************)
(* The parts stay with one owner each.                                     *)
(***************************************************************************)

\* An agent untouched by a step that leaves its memory alone stays whole
LEMMA WholeKept ==
  ASSUME NEW a \in Slots, Whole(a), agent'[a] = agent[a],
         ClientOf(a) = agent[a].http, ClientOf(a)' = agent[a].http,
         \A cell \in Owned(a) : heap'[cell] = heap[cell]
  PROVE  Whole(a)' /\ Owned(a)' = Owned(a)
<1>1. Owned(a)' = Owned(a)
  BY DEF Owned
<1>2. OwnParts(a) /\ agent[a].owned # Null => OwnParts(a)'
  <2> SUFFICES ASSUME OwnParts(a), agent[a].owned # Null PROVE OwnParts(a)'
    OBVIOUS
  <2>1. agent[a].http \in Owned(a) /\ agent[a].owned \in Owned(a)
    BY DEF OwnParts, Owned
  <2> QED BY <2>1 DEF OwnParts
<1> QED BY <1>1, <1>2 DEF Whole

\* Creation takes a free cell for the client, and nobody's
LEMMA CreateClientParts ==
  ASSUME Inv, NEW a \in Slots, NEW name \in Names, NEW options \in Options,
         CreateClient(a, name, options)
  PROVE  TypeInv' /\ PartsInv'
<1> DEFINE asked == [name |-> name, options |-> options]
<1>1. PICK http \in Cells :
        /\ heap[http] = Free /\ heap' = [heap EXCEPT ![http] = Client]
        /\ frame' = Creating(a, asked, http)
  BY DEF CreateClient
<1>2. asked \in Asked
  BY DEF Asked
<1> HIDE DEF asked
<1>3. frame = Idle /\ agent' = agent /\ agent[a] = NoObject /\ outcome' = "ok"
  BY DEF CreateClient
<1>4. TypeInv'
  BY <1>1, <1>2, <1>3 DEF Inv, TypeInv, Objects, Frames, Creating
<1>5. heap'[http] = Client /\ \A cell \in Cells \ {http} : heap'[cell] = heap[cell]
  BY <1>1 DEF Inv, TypeInv
<1>6. /\ Alive' = Alive /\ a \notin Alive /\ Held' = {http} /\ Held = {}
      /\ \A b : ClientOf(b) = agent[b].http /\ ClientOf(b)' = agent[b].http /\ ~ Replaced(b)
  BY <1>1, <1>3, BetweenCalls DEF Alive, Held, Creating, ClientOf
<1>7. \A b \in Alive : b \in Slots /\ Owned(b) \subseteq Cells \ {http} /\ agent'[b] = agent[b]
  BY <1>1, <1>3, OwnedTypes DEF Inv, PartsInv, OneOwner
<1>8. \A b \in Alive : Whole(b)' /\ Owned(b)' = Owned(b)
  BY <1>5, <1>6, <1>7, WholeKept DEF Inv, PartsInv
<1>9. OneOwner'
  <2>1. Client # Free
    BY AgentFactoryAssumption DEF Objects
  <2>2. \A cell \in Cells : heap'[cell] # Free <=> cell \in Held' \/ \E b \in Alive' : cell \in Owned(b)'
    BY <1>5, <1>6, <1>7, <1>8, <2>1 DEF Inv, PartsInv, OneOwner
  <2>3. \A b \in Alive' :
          Owned(b)' \cap Held' = {} /\ \A c \in Alive' \ {b} : Owned(b)' \cap Owned(c)' = {}
    BY <1>6, <1>7, <1>8 DEF Inv, PartsInv, OneOwner
  <2> QED BY <2>2, <2>3 DEF OneOwner
<1>10. FrameInv'
  BY <1>1, <1>5, <1>6 DEF FrameInv, Creating
<1> QED BY <1>4, <1>6, <1>8, <1>9, <1>10 DEF PartsInv

\* While a client is held, agents have their own
LEMMA WhileCreating ==
  ASSUME TypeInv, frame.step = "creating"
  PROVE  /\ frame.agent \in Slots /\ frame.asked \in Asked /\ frame.http \in Cells
         /\ Held = {frame.http}
         /\ \A a : ClientOf(a) = agent[a].http /\ ~ Replaced(a)
BY DEF TypeInv, Frames, Idle, Held, ClientOf, Replaced

\* and another free cell for the provider
LEMMA CreateParts ==
  ASSUME Inv, Create
  PROVE  TypeInv' /\ PartsInv'
<1>1. PICK a, asked, http : a = frame.agent /\ asked = frame.asked /\ http = frame.http
  OBVIOUS
<1>2. /\ a \in Slots /\ asked \in Asked /\ http \in Cells /\ Held = {http}
      /\ \A b : ClientOf(b) = agent[b].http /\ ~ Replaced(b)
      /\ a \notin Alive /\ heap[http] = Client /\ Known(asked.name)
  BY <1>1, WhileCreating DEF Create, Inv, PartsInv, FrameInv
<1>3. PICK provider \in Cells :
        /\ heap[provider] = Free
        /\ heap' = [heap EXCEPT ![provider] = MakeProvider(asked.name, http, asked.options)]
        /\ agent' = [agent EXCEPT ![a] = Agent(http, provider, provider, asked)]
  BY <1>1 DEF Create
<1>4. http # provider
  BY <1>2, <1>3, AgentFactoryAssumption DEF Objects
<1>5. MakeProvider(asked.name, http, asked.options) \in Providers
  BY <1>2, MadeProvider
<1>6. Agent(http, provider, provider, asked) \in Agents
  BY <1>2 DEF Agent, Agents
<1>7. frame' = Idle /\ outcome' = "ok"
  BY DEF Create
<1>8. TypeInv'
  BY <1>2, <1>3, <1>5, <1>6, <1>7 DEF Inv, TypeInv, Objects, Frames
<1>9. /\ agent'[a] = Agent(http, provider, provider, asked)
      /\ \A b \in Slots \ {a} : agent'[b] = agent[b]
      /\ heap'[http] = Client /\ heap'[provider] = MakeProvider(asked.name, http, asked.options)
      /\ \A cell \in Cells \ {provider} : heap'[cell] = heap[cell]
  BY <1>2, <1>3, <1>4 DEF Inv, TypeInv
<1>10. Alive' = Alive \cup {a}
  BY <1>2, <1>6, <1>9, AgentFactoryAssumption DEF Alive
<1>11. /\ Held' = {} /\ FrameInv' /\ \A b : ClientOf(b)' = agent'[b].http /\ ~ Replaced(b)'
  BY <1>7, BetweenCallsNext
<1>12. Owned(a)' = {http, provider}
  BY <1>2, <1>9, AgentFactoryAssumption DEF Owned, Agent
<1>13. Whole(a)'
  BY <1>2, <1>4, <1>9, <1>11, AgentFactoryAssumption DEF Whole, OwnParts, Agent
<1>14. ASSUME NEW b \in Alive
       PROVE  b \in Slots /\ b # a /\ Owned(b) \subseteq Cells \ {http, provider}
  BY <1>2, <1>3, OwnedTypes DEF Inv, PartsInv, OneOwner
<1>15. \A b \in Alive : Whole(b)' /\ Owned(b)' = Owned(b)
  BY <1>2, <1>9, <1>11, <1>14, WholeKept DEF Inv, PartsInv
<1>16. OneOwner'
  <2>1. heap'[http] # Free /\ heap'[provider] # Free
    BY <1>5, <1>9, AgentFactoryAssumption DEF Objects
  <2>2. \A cell \in Cells : heap'[cell] # Free <=> cell \in Held' \/ \E b \in Alive' : cell \in Owned(b)'
    BY <1>2, <1>9, <1>10, <1>11, <1>12, <1>14, <1>15, <2>1 DEF Inv, PartsInv, OneOwner
  <2>3. \A b \in Alive' :
          Owned(b)' \cap Held' = {} /\ \A c \in Alive' \ {b} : Owned(b)' \cap Owned(c)' = {}
    BY <1>10, <1>11, <1>12, <1>14, <1>15 DEF Inv, PartsInv, OneOwner
  <2> QED BY <2>2, <2>3 DEF OneOwner
<1> QED BY <1>8, <1>10, <1>11, <1>13, <1>15, <1>16 DEF PartsInv

\* A create that throws frees its client, and nobody else's
LEMMA UnwoundParts ==
  ASSUME Inv, CreateUnknown
  PROVE  TypeInv' /\ PartsInv'
<1>1. PICK http \in Cells :
        /\ http = frame.http /\ Held = {http}
        /\ \A b : ClientOf(b) = agent[b].http /\ ~ Replaced(b)
  BY WhileCreating DEF CreateUnknown, Inv
<1>2. /\ heap' = [heap EXCEPT ![http] = Free] /\ agent' = agent /\ frame' = Idle
      /\ outcome' = "invalid_argument"
  BY <1>1 DEF CreateUnknown, Unwound
<1>3. TypeInv'
  BY <1>2 DEF Inv, TypeInv, Frames
<1>4. heap'[http] = Free /\ \A cell \in Cells \ {http} : heap'[cell] = heap[cell]
  BY <1>2 DEF Inv, TypeInv
<1>5. /\ Held' = {} /\ FrameInv' /\ \A b : ClientOf(b)' = agent[b].http /\ ~ Replaced(b)'
      /\ Alive' = Alive
  BY <1>2, BetweenCallsNext DEF Alive
<1>6. \A b \in Alive : b \in Slots /\ Owned(b) \subseteq Cells \ {http} /\ agent'[b] = agent[b]
  BY <1>1, <1>2, OwnedTypes DEF Inv, PartsInv, OneOwner
<1>7. \A b \in Alive : Whole(b)' /\ Owned(b)' = Owned(b)
  BY <1>1, <1>4, <1>5, <1>6, WholeKept DEF Inv, PartsInv
<1>8. OneOwner'
  BY <1>1, <1>4, <1>5, <1>6, <1>7 DEF Inv, PartsInv, OneOwner
<1> QED BY <1>3, <1>5, <1>7, <1>8 DEF PartsInv

\* An agent on a caller's provider owns nothing
LEMMA BorrowParts ==
  ASSUME Inv, NEW a \in Slots, NEW provider \in CallerProviders, Borrow(a, provider)
  PROVE  TypeInv' /\ PartsInv'
<1>1. Agent(Null, Null, provider, provider) \in Agents
  BY DEF Agent, Agents
<1>2. /\ agent'[a] = Agent(Null, Null, provider, provider) /\ heap' = heap
      /\ \A b \in Slots \ {a} : agent'[b] = agent[b]
      /\ frame = Idle /\ frame' = Idle
  BY DEF Borrow, Inv, TypeInv
<1>3. TypeInv'
  BY <1>1 DEF Borrow, Inv, TypeInv
<1>4. a \notin Alive /\ Alive' = Alive \cup {a}
  BY <1>1, <1>2, AgentFactoryAssumption DEF Alive, Borrow
<1>5. /\ Held = {} /\ \A b : ClientOf(b) = agent[b].http /\ ~ Replaced(b)
      /\ Held' = {} /\ FrameInv' /\ \A b : ClientOf(b)' = agent'[b].http /\ ~ Replaced(b)'
  BY <1>2, BetweenCalls, BetweenCallsNext
<1>6. Owned(a)' = {} /\ Whole(a)'
  BY <1>2, <1>5 DEF Owned, Agent, Whole
<1>7. \A b \in Alive : Whole(b)' /\ Owned(b)' = Owned(b)
  BY <1>2, <1>4, <1>5, WholeKept, OwnedTypes DEF Inv, PartsInv
<1>8. OneOwner'
  BY <1>2, <1>4, <1>5, <1>6, <1>7 DEF Inv, PartsInv, OneOwner
<1> QED BY <1>3, <1>4, <1>5, <1>6, <1>7, <1>8 DEF PartsInv

\* Destruction frees what the agent owned, and nobody else's
LEMMA DestroyParts ==
  ASSUME Inv, NEW a \in Slots, Destroy(a)
  PROVE  TypeInv' /\ PartsInv'
<1>1. /\ a \in Alive /\ agent'[a] = NoObject /\ frame = Idle /\ frame' = Idle
      /\ \A b \in Slots \ {a} : agent'[b] = agent[b]
      /\ \A cell \in Cells : heap'[cell] = IF cell \in Owned(a) THEN Free ELSE heap[cell]
  BY DEF Destroy, Freed, Inv, TypeInv
<1>2. TypeInv'
  BY DEF Destroy, Freed, Inv, TypeInv
<1>3. Alive' = Alive \ {a}
  BY <1>1 DEF Alive
<1>4. /\ Held = {} /\ \A b : ClientOf(b) = agent[b].http /\ ~ Replaced(b)
      /\ Held' = {} /\ FrameInv' /\ \A b : ClientOf(b)' = agent'[b].http /\ ~ Replaced(b)'
  BY <1>1, BetweenCalls, BetweenCallsNext
<1>5. ASSUME NEW b \in Alive, b # a
      PROVE  Owned(b) \cap Owned(a) = {} /\ Owned(b) \subseteq Cells /\ b \in Slots
  BY <1>1, <1>5, OwnedTypes DEF Inv, PartsInv, OneOwner
<1>6. \A b \in Alive \ {a} : Whole(b)' /\ Owned(b)' = Owned(b)
  BY <1>1, <1>4, <1>5, WholeKept DEF Inv, PartsInv
<1>7. OneOwner'
  BY <1>1, <1>3, <1>4, <1>5, <1>6 DEF Inv, PartsInv, OneOwner
<1> QED BY <1>2, <1>3, <1>4, <1>6, <1>7 DEF PartsInv

\* A move hands over what its source owns
LEMMA MoveParts ==
  ASSUME Inv, NEW from \in Slots, NEW to \in Slots, MoveConstruct(from, to)
  PROVE  TypeInv' /\ PartsInv'
<1>1. /\ from \in Alive /\ to \notin Alive /\ from # to /\ agent[from] \in Agents
      /\ heap' = heap /\ frame = Idle /\ frame' = Idle
  BY OwnedTypes DEF MoveConstruct, Inv
<1>2. /\ agent'[to] = agent[from]
      /\ agent'[from] = [agent[from] EXCEPT !.http = Null, !.owned = Null]
      /\ \A b \in Slots \ {from, to} : agent'[b] = agent[b]
  BY <1>1 DEF MoveConstruct, Moved, Inv, TypeInv
<1>3. [agent[from] EXCEPT !.http = Null, !.owned = Null] \in Agents
  BY <1>1 DEF Agents
<1>4. TypeInv'
  BY <1>1, <1>3 DEF MoveConstruct, Moved, Inv, TypeInv
<1>5. Alive' = Alive \cup {to}
  BY <1>1, <1>2, <1>3, AgentFactoryAssumption DEF Alive
<1>6. /\ Held = {} /\ \A b : ClientOf(b) = agent[b].http /\ ~ Replaced(b)
      /\ Held' = {} /\ FrameInv' /\ \A b : ClientOf(b)' = agent'[b].http /\ ~ Replaced(b)'
  BY <1>1, BetweenCalls, BetweenCallsNext
<1>7. Owned(to)' = Owned(from) /\ Owned(from)' = {}
  BY <1>1, <1>2 DEF Owned, Agents
<1>8. \A b \in Alive \ {from} : Whole(b)' /\ Owned(b)' = Owned(b)
  BY <1>1, <1>2, <1>6, WholeKept, OwnedTypes DEF Inv, PartsInv
<1>9. Whole(to)'
  BY <1>1, <1>2, <1>6 DEF Whole, OwnParts, Inv, PartsInv
<1>10. Whole(from)'
  <2>1. /\ agent'[from].owned = Null /\ agent'[from].http = Null
        /\ agent'[from].provider = agent[from].provider
        /\ agent'[from].asked = agent[from].asked
    BY <1>1, <1>2 DEF Agents
  <2> QED BY <1>1, <1>6, <2>1 DEF Whole, Inv, PartsInv
<1>11. OneOwner'
  <2>1. \A cell \in Cells :
          (\E b \in Alive : cell \in Owned(b)) <=> \E b \in Alive' : cell \in Owned(b)'
    BY <1>1, <1>5, <1>7, <1>8
  <2>2. \A cell \in Cells : heap'[cell] # Free <=> cell \in Held' \/ \E b \in Alive' : cell \in Owned(b)'
    BY <1>1, <1>6, <2>1 DEF Inv, PartsInv, OneOwner
  <2>3. \A b \in Alive' :
          Owned(b)' \cap Held' = {} /\ \A c \in Alive' \ {b} : Owned(b)' \cap Owned(c)' = {}
    BY <1>1, <1>5, <1>6, <1>7, <1>8 DEF Inv, PartsInv, OneOwner
  <2> QED BY <2>2, <2>3 DEF OneOwner
<1> QED BY <1>4, <1>5, <1>6, <1>8, <1>9, <1>10, <1>11 DEF PartsInv

\* An assignment first frees the target's client and takes the source's
LEMMA AssignParts ==
  ASSUME Inv, NEW from \in Slots, NEW to \in Slots, MoveAssign(from, to)
  PROVE  TypeInv' /\ PartsInv'
<1>1. /\ from \in Alive /\ to \in Alive /\ from # to /\ frame = Idle
      /\ frame' = Assigning(from, to) /\ outcome' = "ok"
      /\ agent[from] \in Agents /\ agent[to] \in Agents
  BY OwnedTypes DEF MoveAssign, Inv
<1>2. /\ agent'[to] = [agent[to] EXCEPT !.http = agent[from].http]
      /\ agent'[from] = [agent[from] EXCEPT !.http = Null]
      /\ \A b \in Slots \ {from, to} : agent'[b] = agent[b]
      /\ \A cell \in Cells : heap'[cell] = IF cell = agent[to].http THEN Free ELSE heap[cell]
  BY <1>1 DEF MoveAssign, ClientMoved, Freed, Inv, TypeInv
<1>3. /\ agent'[to] \in Agents /\ agent'[from] \in Agents
      /\ agent'[to].http = agent[from].http /\ agent'[to].owned = agent[to].owned
      /\ agent'[from].http = Null /\ agent'[from].owned = agent[from].owned
      /\ agent'[from].provider = agent[from].provider /\ agent'[from].asked = agent[from].asked
  BY <1>1, <1>2 DEF Agents
<1>4. TypeInv'
  <2>1. heap' \in [Cells -> Objects \cup {Free}]
    BY DEF MoveAssign, Freed, Inv, TypeInv
  <2>2. agent' \in [Slots -> Agents \cup {NoObject}]
    <3>1. agent' = ClientMoved(from, to)
      BY DEF MoveAssign
    <3>2. DOMAIN agent' = Slots /\ agent' = [b \in Slots |-> agent'[b]]
      BY <3>1 DEF ClientMoved, Inv, TypeInv
    <3>3. \A b \in Slots : agent'[b] \in Agents \cup {NoObject}
      BY <1>2, <1>3 DEF Inv, TypeInv
    <3> QED BY <3>2, <3>3
  <2> QED BY <1>1, <2>1, <2>2 DEF TypeInv, Frames, Assigning
<1>5. Alive' = Alive
  BY <1>1, <1>2, <1>3, AgentFactoryAssumption DEF Alive
<1>6. /\ Held = {} /\ \A b : ClientOf(b) = agent[b].http /\ ~ Replaced(b)
      /\ Held' = {} /\ \A b : Replaced(b)' <=> b = to
      /\ ClientOf(from)' = agent[from].http
      /\ \A b : b # from => ClientOf(b)' = agent'[b].http
  BY <1>1, <1>3, BetweenCalls DEF Assigning, Held, ClientOf, Replaced
<1>7. /\ Owned(to) = {agent[to].http, agent[to].owned} \ {Null}
      /\ Owned(from) = {agent[from].http, agent[from].owned} \ {Null}
      /\ Owned(to)' = {agent[from].http, agent[to].owned} \ {Null}
      /\ Owned(from)' = {agent[from].owned} \ {Null}
  BY <1>3 DEF Owned
<1>8. /\ agent[from].owned # Null => agent[from].http # Null /\ agent[from].http # agent[from].owned
      /\ agent[to].owned # Null => agent[to].http # Null /\ agent[to].http # agent[to].owned
      /\ Whole(from) /\ Whole(to)
  BY <1>1, <1>6 DEF Inv, PartsInv, Whole, OwnParts
<1>9. ASSUME NEW b \in Alive \ {to}
      PROVE  /\ b \in Slots /\ Owned(b) \subseteq Cells /\ Owned(b) \cap Owned(to) = {}
             /\ \A cell \in Owned(b) : heap'[cell] = heap[cell]
  <2>1. b \in Slots /\ Owned(b) \subseteq Cells /\ Owned(b) \cap Owned(to) = {}
    BY <1>1, OwnedTypes DEF Inv, PartsInv, OneOwner
  <2>2. \A cell \in Owned(b) : cell # agent[to].http
    BY <1>7, <2>1 DEF Owned
  <2> QED BY <1>2, <2>1, <2>2
<1>10. \A b \in Alive \ {from, to} : Whole(b)' /\ Owned(b)' = Owned(b)
  BY <1>2, <1>6, <1>9, WholeKept DEF Inv, PartsInv
<1>11. Whole(from)'
  <2>1. ASSUME agent[from].owned # Null PROVE OwnParts(from)'
    <3>1. agent[from].http \in Owned(from) /\ agent[from].owned \in Owned(from) /\ OwnParts(from)
      BY <1>7, <1>8, <2>1 DEF Whole
    <3>2. /\ heap'[agent[from].http] = heap[agent[from].http]
          /\ heap'[agent[from].owned] = heap[agent[from].owned]
      BY <1>1, <1>9, <3>1
    <3> QED BY <1>3, <1>6, <3>1, <3>2 DEF OwnParts
  <2> QED BY <1>3, <1>6, <1>8, <2>1 DEF Whole
<1>12. OneOwner'
  <2>1. \A cell \in Cells :
          heap'[cell] # Free <=> cell # agent[to].http /\ \E b \in Alive : cell \in Owned(b)
    BY <1>2, <1>6 DEF Inv, PartsInv, OneOwner
  <2>2. ASSUME NEW cell \in Cells
        PROVE  (cell # agent[to].http /\ \E b \in Alive : cell \in Owned(b))
                 <=> \E b \in Alive' : cell \in Owned(b)'
    <3>1. CASE \E b \in Alive \ {from, to} : cell \in Owned(b)
      BY <1>5, <1>7, <1>9, <1>10, <3>1, AgentFactoryAssumption
    <3>2. CASE ~ \E b \in Alive \ {from, to} : cell \in Owned(b)
      <4>1. (\E b \in Alive : cell \in Owned(b)) <=> cell \in Owned(from) \/ cell \in Owned(to)
        BY <1>1, <3>2
      <4>2. (\E b \in Alive' : cell \in Owned(b)') <=> cell \in Owned(from)' \/ cell \in Owned(to)'
        BY <1>1, <1>5, <1>10, <3>2
      <4>3. cell \in Owned(from) => cell \notin Owned(to)
        BY <1>1, <1>9
      <4> QED BY <1>7, <1>8, <4>1, <4>2, <4>3, AgentFactoryAssumption
    <3> QED BY <3>1, <3>2
  <2>3. \A b \in Alive' : \A c \in Alive' \ {b} : Owned(b)' \cap Owned(c)' = {}
    <3>1. Owned(from)' \subseteq Owned(from) /\ Owned(to)' \subseteq Owned(from) \cup Owned(to)
      BY <1>7
    <3>2. Owned(from)' \cap Owned(to)' = {}
      BY <1>1, <1>7, <1>8, <1>9
    <3>3. \A b, c \in Alive : b # c => Owned(b) \cap Owned(c) = {}
      BY DEF Inv, PartsInv, OneOwner
    <3> QED BY <1>1, <1>5, <1>10, <3>1, <3>2, <3>3
  <2> QED BY <1>6, <2>1, <2>2, <2>3 DEF OneOwner
<1>13. FrameInv'
  <2>1. agent[to].owned # Null => agent[to].owned # agent[from].http
    BY <1>1, <1>7, <1>9
  <2> QED BY <1>1, <1>3, <1>5, <2>1 DEF FrameInv, Assigning
<1> QED BY <1>4, <1>5, <1>6, <1>10, <1>11, <1>12, <1>13 DEF PartsInv

\* and then frees the target's provider and takes the source's
LEMMA AssignRestParts ==
  ASSUME Inv, MoveAssignRest
  PROVE  TypeInv' /\ PartsInv'
<1>1. PICK from \in Slots, to \in Slots : from = frame.from /\ to = frame.to
  BY DEF MoveAssignRest, Inv, TypeInv, Frames, Idle
<1>2. /\ from \in Alive /\ to \in Alive /\ from # to /\ frame.step = "assigning" /\ frame' = Idle
      /\ agent[from].http = Null /\ agent[from] \in Agents /\ agent[to] \in Agents
      /\ agent[to].owned # Null => agent[to].owned # agent[to].http
  BY <1>1, OwnedTypes DEF MoveAssignRest, Inv, PartsInv, FrameInv
<1>3. /\ agent'[to] = [agent[from] EXCEPT !.http = agent[to].http]
      /\ agent'[from] = [agent[from] EXCEPT !.owned = Null]
      /\ \A b \in Slots \ {from, to} : agent'[b] = agent[b]
      /\ \A cell \in Cells : heap'[cell] = IF cell = agent[to].owned THEN Free ELSE heap[cell]
  BY <1>1, <1>2 DEF MoveAssignRest, ProviderMoved, Freed, Inv, TypeInv
<1>4. /\ agent'[to] \in Agents /\ agent'[from] \in Agents
      /\ agent'[to].http = agent[to].http /\ agent'[to].owned = agent[from].owned
      /\ agent'[to].provider = agent[from].provider /\ agent'[to].asked = agent[from].asked
      /\ agent'[from].http = Null /\ agent'[from].owned = Null
      /\ agent'[from].provider = agent[from].provider /\ agent'[from].asked = agent[from].asked
  BY <1>2, <1>3 DEF Agents
<1>5. TypeInv'
  <2>1. heap' \in [Cells -> Objects \cup {Free}]
    BY DEF MoveAssignRest, Freed, Inv, TypeInv
  <2>2. agent' \in [Slots -> Agents \cup {NoObject}]
    <3>1. agent' = ProviderMoved(from, to)
      BY <1>1 DEF MoveAssignRest
    <3>2. DOMAIN agent' = Slots /\ agent' = [b \in Slots |-> agent'[b]]
      BY <3>1 DEF ProviderMoved, Inv, TypeInv
    <3>3. \A b \in Slots : agent'[b] \in Agents \cup {NoObject}
      BY <1>3, <1>4 DEF Inv, TypeInv
    <3> QED BY <3>2, <3>3
  <2>3. outcome' \in {"ok", "invalid_argument", "runtime_error"}
    BY DEF MoveAssignRest, Inv, TypeInv
  <2> QED BY <1>2, <2>1, <2>2, <2>3 DEF TypeInv, Frames
<1>6. Alive' = Alive
  BY <1>2, <1>3, <1>4, AgentFactoryAssumption DEF Alive
<1>7. /\ Held = {} /\ \A b : Replaced(b) <=> b = to
      /\ ClientOf(from) = agent[to].http /\ \A b : b # from => ClientOf(b) = agent[b].http
      /\ Held' = {} /\ FrameInv' /\ \A b : ClientOf(b)' = agent'[b].http /\ ~ Replaced(b)'
  BY <1>1, <1>2, BetweenCallsNext DEF Held, ClientOf, Replaced
<1>8. /\ Owned(to) = {agent[to].http, agent[to].owned} \ {Null}
      /\ Owned(from) = {agent[from].owned} \ {Null}
      /\ Owned(to)' = {agent[to].http, agent[from].owned} \ {Null}
      /\ Owned(from)' = {}
  BY <1>2, <1>4 DEF Owned
<1>9. Whole(from)
  BY <1>2, <1>7 DEF Inv, PartsInv
<1>10. ASSUME NEW b \in Alive \ {to}
       PROVE  /\ b \in Slots /\ Owned(b) \subseteq Cells /\ Owned(b) \cap Owned(to) = {}
              /\ \A cell \in Owned(b) : heap'[cell] = heap[cell]
  <2>1. b \in Slots /\ Owned(b) \subseteq Cells /\ Owned(b) \cap Owned(to) = {}
    BY <1>2, OwnedTypes DEF Inv, PartsInv, OneOwner
  <2>2. \A cell \in Owned(b) : cell # agent[to].owned
    BY <1>8, <2>1 DEF Owned
  <2> QED BY <1>3, <2>1, <2>2
<1>11. \A b \in Alive \ {from, to} : Whole(b)' /\ Owned(b)' = Owned(b)
  BY <1>3, <1>7, <1>10, WholeKept DEF Inv, PartsInv
<1>12. Whole(to)'
  <2>1. ASSUME agent[from].owned # Null PROVE OwnParts(to)'
    <3>1. OwnParts(from) /\ agent[from].owned \in Owned(from) /\ agent[to].http # Null
      BY <1>7, <1>8, <1>9, <2>1 DEF Whole, OwnParts
    <3>2. heap'[agent[from].owned] = heap[agent[from].owned]
      BY <1>2, <1>10, <3>1
    <3>3. agent[to].http \in Cells /\ agent[to].http # agent[to].owned
      BY <1>2, <3>1 DEF Agents
    <3>4. heap'[agent[to].http] = heap[agent[to].http]
      BY <1>3, <3>3
    <3> QED BY <1>4, <1>7, <3>1, <3>2, <3>4 DEF OwnParts
  <2> QED BY <1>4, <1>7, <1>9, <2>1 DEF Whole
<1>13. Whole(from)'
  BY <1>4, <1>7, <1>9 DEF Whole
<1>14. OneOwner'
  <2>1. \A cell \in Cells :
          heap'[cell] # Free <=> cell # agent[to].owned /\ \E b \in Alive : cell \in Owned(b)
    BY <1>3, <1>7 DEF Inv, PartsInv, OneOwner
  <2>2. ASSUME NEW cell \in Cells
        PROVE  (cell # agent[to].owned /\ \E b \in Alive : cell \in Owned(b))
                 <=> \E b \in Alive' : cell \in Owned(b)'
    <3>1. CASE \E b \in Alive \ {from, to} : cell \in Owned(b)
      BY <1>6, <1>8, <1>10, <1>11, <3>1, AgentFactoryAssumption
    <3>2. CASE ~ \E b \in Alive \ {from, to} : cell \in Owned(b)
      <4>1. (\E b \in Alive : cell \in Owned(b)) <=> cell \in Owned(from) \/ cell \in Owned(to)
        BY <1>2, <3>2
      <4>2. (\E b \in Alive' : cell \in Owned(b)') <=> cell \in Owned(from)' \/ cell \in Owned(to)'
        BY <1>2, <1>6, <1>11, <3>2
      <4>3. cell \in Owned(from) => cell \notin Owned(to)
        BY <1>2, <1>10
      <4> QED BY <1>2, <1>8, <4>1, <4>2, <4>3, AgentFactoryAssumption
    <3> QED BY <3>1, <3>2
  <2>3. \A b \in Alive' : \A c \in Alive' \ {b} : Owned(b)' \cap Owned(c)' = {}
    <3>1. Owned(from)' = {} /\ Owned(to)' \subseteq Owned(from) \cup Owned(to)
      BY <1>8
    <3>2. \A b, c \in Alive : b # c => Owned(b) \cap Owned(c) = {}
      BY DEF Inv, PartsInv, OneOwner
    <3> QED BY <1>2, <1>6, <1>11, <3>1, <3>2
  <2> QED BY <1>7, <2>1, <2>2, <2>3 DEF OneOwner
<1> QED BY <1>5, <1>6, <1>7, <1>11, <1>12, <1>13, <1>14 DEF PartsInv
-----------------------------------------------------------------------------
(***************************************************************************)
(* A run follows live pointers to the backend of its agent.                *)
(***************************************************************************)

\* On the caller's provider
LEMMA RunBorrowed ==
  ASSUME Inv, NEW a \in Alive, agent[a].provider \in CallerProviders, Run(a)
  PROVE  ArrivedInv'
<1> DEFINE provider == agent[a].provider
<1>1. Target(provider) = CallerProvider[provider] /\ Target(provider) \in Providers
  BY AgentFactoryAssumption DEF Target
<1>2. Live(provider)
  BY <1>1, AgentFactoryAssumption DEF Live, ClientLive, Providers, Objects
<1>3. agent[a].asked = provider
  BY BetweenCalls DEF Inv, PartsInv, Whole, Run
<1>4. posted' = [url |-> Target(provider).config.base_url,
                 dialect |-> Target(provider).dialect,
                 api_key |-> Target(provider).config.api_key, asked |-> provider]
  BY <1>2, <1>3 DEF Run
<1>5. Target(provider).dialect \in {"messages", "completions"}
  BY <1>1 DEF Providers
<1>6. posted' # Dangling
  BY <1>4, <1>5 DEF Dangling
<1> QED BY <1>1, <1>4, <1>6 DEF ArrivedInv, RunsReachTheirBackend

\* On the agent's own
LEMMA RunOwned ==
  ASSUME Inv, NEW a \in Alive, agent[a].owned # Null, Run(a)
  PROVE  ArrivedInv'
<1> DEFINE provider == agent[a].provider
           asked == agent[a].asked
<1>1. /\ OwnParts(a) /\ agent[a].http \in Cells /\ provider \in Cells
      /\ ClientOf(a) = agent[a].http
  <2>1. OwnParts(a) /\ agent[a] \in Agents /\ ClientOf(a) = agent[a].http
    BY OwnedTypes, BetweenCalls DEF Inv, PartsInv, Whole, Run
  <2> QED BY <2>1 DEF OwnParts, Agents
<1>2. asked \in Asked /\ Known(asked.name) /\ provider \notin CallerProviders
      /\ asked \notin CallerProviders
  BY <1>1, AgentFactoryAssumption DEF OwnParts
<1>3. Target(provider) = MakeProvider(asked.name, agent[a].http, asked.options)
      /\ heap[provider] = Target(provider)
  BY <1>1, <1>2 DEF OwnParts, Target
<1>4. /\ Target(provider) \in Providers
      /\ Target(provider).client = agent[a].http
      /\ Target(provider).dialect = Backend(asked).dialect
      /\ Target(provider).config.base_url = Backend(asked).url
      /\ Target(provider).config.api_key = asked.options.api_key
  BY <1>1, <1>2, <1>3, MadeProvider
<1>5. heap[heap[provider].client] = Client
  BY <1>1, <1>3, <1>4 DEF OwnParts
<1>6. Live(provider)
  BY <1>4, <1>5, AgentFactoryAssumption DEF Live, ClientLive, Providers, Objects
<1>7. posted' = [url |-> Target(provider).config.base_url,
                 dialect |-> Target(provider).dialect,
                 api_key |-> Target(provider).config.api_key, asked |-> asked]
  BY <1>6 DEF Run
<1>8. Target(provider).dialect \in {"messages", "completions"}
  BY <1>4 DEF Providers
<1>9. posted' # Dangling
  BY <1>7, <1>8 DEF Dangling
<1> QED BY <1>2, <1>4, <1>7, <1>9 DEF ArrivedInv, RunsReachTheirBackend

\* Every step keeps the parts in order and the exchanges on their way
LEMMA InvStep == Inv /\ [Next]_vars => Inv'
<1> SUFFICES ASSUME Inv, [Next]_vars PROVE Inv'
  OBVIOUS
<1>1. ASSUME posted' = posted PROVE ArrivedInv'
  BY <1>1 DEF Inv, ArrivedInv, RunsReachTheirBackend
<1>2. ASSUME heap' = heap, agent' = agent, frame' = frame,
             outcome' \in {"ok", "invalid_argument", "runtime_error"}
      PROVE  TypeInv' /\ PartsInv'
  BY <1>2, SMTT(30) DEF Inv, TypeInv, PartsInv, OneOwner, FrameInv, Whole, OwnParts, Alive, Owned,
                        Held, ClientOf, Replaced
<1>3. ASSUME NEW a \in Slots, NEW name \in Names, NEW options \in Options,
             CreateClient(a, name, options)
      PROVE  Inv'
  BY <1>1, <1>3, CreateClientParts DEF CreateClient, Inv
<1>4. ASSUME NEW a \in Slots, CreateFails(a) PROVE Inv'
  BY <1>1, <1>2, <1>4 DEF CreateFails, Inv
<1>5. ASSUME Create \/ CreateUnknown PROVE Inv'
  BY <1>1, <1>5, CreateParts, UnwoundParts DEF Create, CreateUnknown, Inv
<1>6. ASSUME NEW a \in Slots, NEW provider \in CallerProviders, Borrow(a, provider)
      PROVE  Inv'
  BY <1>1, <1>6, BorrowParts DEF Borrow, Inv
<1>7. ASSUME NEW a \in Slots, NEW to \in Slots, MoveConstruct(a, to) PROVE Inv'
  BY <1>1, <1>7, MoveParts DEF MoveConstruct, Inv
<1>8. ASSUME NEW a \in Slots, NEW to \in Slots, MoveAssign(a, to) PROVE Inv'
  BY <1>1, <1>8, AssignParts DEF MoveAssign, Inv
<1>9. ASSUME MoveAssignRest PROVE Inv'
  BY <1>1, <1>9, AssignRestParts DEF MoveAssignRest, Inv
<1>10. ASSUME NEW a \in Slots, Destroy(a) PROVE Inv'
  BY <1>1, <1>10, DestroyParts DEF Destroy, Inv
<1>11. ASSUME NEW a \in Slots, Run(a) PROVE Inv'
  <2>1. a \in Alive /\ (agent[a].owned # Null \/ agent[a].provider \in CallerProviders)
    BY <1>11 DEF Run, Usable
  <2> QED BY <1>2, <1>11, <2>1, RunBorrowed, RunOwned DEF Run, Inv
<1>12. CASE UNCHANGED vars
  BY <1>1, <1>2, <1>12 DEF vars, Inv, TypeInv
<1> QED
  BY <1>3, <1>4, <1>5, <1>6, <1>7, <1>8, <1>9, <1>10, <1>11, <1>12 DEF Next

\* Memory starts free and nothing has been posted
LEMMA InvInit == Init => Inv
<1> SUFFICES ASSUME Init PROVE Inv
  OBVIOUS
<1>1. Alive = {}
  BY DEF Init, Alive
<1>2. TypeInv
  BY DEF Init, TypeInv, Frames
<1>3. PartsInv
  BY <1>1 DEF Init, PartsInv, OneOwner, FrameInv, Idle, Held
<1>4. ArrivedInv
  BY AgentFactoryAssumption DEF Init, ArrivedInv, RunsReachTheirBackend
<1> QED BY <1>2, <1>3, <1>4 DEF Inv

\* Agents are whole, their parts have one owner, and runs arrive, in every
\* reachable state
THEOREM Invariant == Spec => []Inv
BY InvInit, InvStep, PTL DEF Spec

\* No run ever follows a pointer to a provider or a client that is gone.
THEOREM PointersLive == Spec => []TypeOK
<1>1. Inv => TypeOK
  BY OwnedTypes DEF Inv, TypeInv, ArrivedInv, TypeOK, Agents
<1> QED BY <1>1, Invariant, PTL

\* Every client and provider alive belongs to exactly one agent or to the create
\* that makes it, and a provider uses the client made for it, whatever is
\* created, moved, assigned and destroyed, and at every step of it.
THEOREM PartsAlwaysOwned == Spec => []PartsOwned
<1>1. Inv => PartsOwned
  <2> SUFFICES ASSUME Inv PROVE PartsOwned
    OBVIOUS
  <2>1. Held \subseteq Cells
    BY WhileCreating DEF Inv, Held
  <2>2. {cell \in Cells : heap[cell] # Free} = Held \cup UNION {Owned(a) : a \in Alive}
    BY <2>1, OwnedTypes DEF Inv, PartsInv, OneOwner
  <2>3. ASSUME NEW a \in Alive, agent[a].owned # Null, ~ Replaced(a)
        PROVE  heap[agent[a].owned].client = ClientOf(a)
    <3>1. OwnParts(a)
      BY <2>3 DEF Inv, PartsInv, Whole
    <3>2. ClientOf(a) \in Cells
      <4>1. CASE frame.step = "assigning" /\ a = frame.from
        <5>1. ClientOf(a) = agent[frame.to].http /\ frame.to \in Alive
          BY <4>1 DEF ClientOf, Inv, PartsInv, FrameInv
        <5> QED BY <3>1, <5>1, OwnedTypes DEF Inv, OwnParts, Agents
      <4>2. CASE ~ (frame.step = "assigning" /\ a = frame.from)
        <5>1. ClientOf(a) = agent[a].http
          BY <4>2 DEF ClientOf
        <5> QED BY <3>1, <5>1, OwnedTypes DEF Inv, OwnParts, Agents
      <4> QED BY <4>1, <4>2
    <3> QED BY <3>1, <3>2, MadeProvider DEF OwnParts
  <2> QED BY <2>2, <2>3 DEF PartsOwned, Inv, PartsInv, OneOwner
<1> QED BY <1>1, Invariant, PTL

\* Every run goes to the backend its agent was created for, in its dialect and
\* with its key, or to the caller's provider if it was created on one.
THEOREM RunsArrive == Spec => []RunsReachTheirBackend
<1>1. Inv => RunsReachTheirBackend
  BY DEF Inv, ArrivedInv
<1> QED BY <1>1, Invariant, PTL
=============================================================================
