----------------------------- MODULE DataProofs -----------------------------
(***************************************************************************)
(* Lemmas about the data of an exchange: the types of conversations, where *)
(* a run's output is read from, how appending turns keeps calls and        *)
(* results paired, what the dialects make of a conversation, and what      *)
(* doubles make of integers.                                               *)
(***************************************************************************)
EXTENDS Dialects, Doubles, SequenceTheorems, FiniteSetTheorems,
        FunctionTheorems, WellFoundedInduction, TLAPS

\* A nonempty family of subsets of 1..n has a member that contains no other
LEMMA MinimalSubset ==
  ASSUME NEW n \in Nat
  PROVE  \A F \in SUBSET SUBSET (1..n) :
            F # {} => \E X \in F : \A Y \in F : Y \subseteq X => Y = X
<1> SUFFICES ASSUME NEW F \in SUBSET SUBSET (1..n), F # {}
             PROVE  \E X \in F : \A Y \in F : Y \subseteq X => Y = X
  OBVIOUS
<1> DEFINE R == StrictSubsetOrdering(1..n)
<1>1. IsFiniteSet(1..n)
  BY FS_Interval
<1>2. IsWellFoundedOn(R, SUBSET (1..n))
  BY <1>1, FS_StrictSubsetOrderingWellFounded, FS_FiniteSubsetsOfFinite
<1>3. PICK X \in F : \A Y \in F : ~ (<<Y, X>> \in R)
  <2> HIDE DEF R
  <2> QED BY <1>2, WFMin
<1> QED BY <1>3 DEF StrictSubsetOrdering

\* A nonempty set of positions has a least member, and Least finds it: the
\* smallest of the sets {i \in S : i <= k} is that of the least k
LEMMA LeastIsMember ==
  ASSUME NEW n \in Nat, NEW S \in SUBSET (1..n), S # {}
  PROVE  Least(S) \in S /\ \A j \in S : Least(S) <= j
<1>1. PICK F : F = {Y \in SUBSET (1..n) : \E k \in S : Y = {i \in S : i <= k}}
  OBVIOUS
<1>2. F \in SUBSET SUBSET (1..n)
  BY <1>1
<1>3. F # {}
  <2>1. PICK k \in S : TRUE
    OBVIOUS
  <2>2. {i \in S : i <= k} \in F
    BY <1>1
  <2> QED BY <2>2
<1>4. PICK X \in F : \A Y \in F : Y \subseteq X => Y = X
  <2>1. \A G \in SUBSET SUBSET (1..n) :
           G # {} => \E X \in G : \A Y \in G : Y \subseteq X => Y = X
    BY MinimalSubset
  <2> QED BY <1>2, <1>3, <2>1
<1>5. PICK k \in S : X = {i \in S : i <= k}
  BY <1>1
<1>6. ASSUME NEW j \in S PROVE k <= j
  <2>0. j \in Int /\ k \in Int /\ \A i \in S : i \in Int
    OBVIOUS
  <2>1. ASSUME j < k PROVE FALSE
    <3>1. {i \in S : i <= j} \in F
      BY <1>1
    <3>2. {i \in S : i <= j} \subseteq X
      <4>1. \A i \in S : i <= j => i <= k
        BY <2>0, <2>1
      <4> QED BY <1>5, <4>1
    <3>3. X = {i \in S : i <= j}
      BY <1>4, <3>1, <3>2
    <3>4. k \in X
      BY <1>5, <2>0
    <3> QED BY <2>0, <2>1, <3>3, <3>4
  <2> QED BY <2>0, <2>1
<1> QED BY <1>6 DEF Least

\* What holds of no position and carries over from each to the next holds of all
LEMMA Counting ==
  ASSUME NEW n \in Nat, NEW S, 0 \in S, \A k \in 1..n : k - 1 \in S => k \in S
  PROVE  \A k \in 0..n : k \in S
<1> DEFINE T == {k \in 1..n : k \notin S}
<1>1. ASSUME T # {} PROVE FALSE
  <2>1. Least(T) \in T /\ \A j \in T : Least(T) <= j
    BY <1>1, LeastIsMember
  <2>2. PICK k : k = Least(T)
    OBVIOUS
  <2>3. k \in 1..n /\ k \notin S /\ k - 1 \notin T
    BY <2>1, <2>2
  <2>4. k = 1 \/ k - 1 \in 1..n
    BY <2>3
  <2> QED BY <2>3, <2>4
<1> QED BY <1>1

\* A nonempty set of positions has a greatest member, and Greatest finds it
LEMMA GreatestIsMember ==
  ASSUME NEW n \in Nat, NEW S \in SUBSET (1..n), S # {}
  PROVE  Greatest(S) \in S /\ \A j \in S : j <= Greatest(S)
<1>1. PICK F : F = {Y \in SUBSET (1..n) : \E k \in S : Y = {i \in S : k <= i}}
  OBVIOUS
<1>2. F \in SUBSET SUBSET (1..n)
  BY <1>1
<1>3. F # {}
  <2>1. PICK k \in S : TRUE
    OBVIOUS
  <2>2. {i \in S : k <= i} \in F
    BY <1>1
  <2> QED BY <2>2
<1>4. PICK X \in F : \A Y \in F : Y \subseteq X => Y = X
  <2>1. \A G \in SUBSET SUBSET (1..n) :
           G # {} => \E X \in G : \A Y \in G : Y \subseteq X => Y = X
    BY MinimalSubset
  <2> QED BY <1>2, <1>3, <2>1
<1>5. PICK k \in S : X = {i \in S : k <= i}
  BY <1>1
<1>6. ASSUME NEW j \in S PROVE j <= k
  <2>0. j \in Int /\ k \in Int /\ \A i \in S : i \in Int
    OBVIOUS
  <2>1. ASSUME k < j PROVE FALSE
    <3>1. {i \in S : j <= i} \in F
      BY <1>1
    <3>2. {i \in S : j <= i} \subseteq X
      <4>1. \A i \in S : j <= i => k <= i
        BY <2>0, <2>1
      <4> QED BY <1>5, <4>1
    <3>3. X = {i \in S : j <= i}
      BY <1>4, <3>1, <3>2
    <3>4. k \in X
      BY <1>5, <2>0
    <3> QED BY <2>0, <2>1, <3>3, <3>4
  <2> QED BY <2>0, <2>1
<1> QED BY <1>6 DEF Greatest

\* A set of positions that has those before each of its own is a beginning
LEMMA Beginning ==
  ASSUME NEW n \in Nat, NEW S \in SUBSET (1..n), \A i \in S : \A k \in 1..i : k \in S
  PROVE  \E m \in Nat : S = 1..m
<1>1. CASE S = {}
  BY <1>1
<1>2. CASE S # {}
  <2>1. PICK last \in S : \A j \in S : j <= last
    BY <1>2, GreatestIsMember
  <2>2. last \in Nat /\ S \subseteq 1..last
    BY <2>1
  <2>3. 1..last \subseteq S
    OBVIOUS
  <2> QED BY <2>2, <2>3
<1> QED BY <1>1, <1>2

\* The first text of a list of blocks is a text
LEMMA FirstTextType ==
  ASSUME NEW content \in Seq(ContentBlock), TextIndexes(content) # {}
  PROVE  FirstText(content) \in Texts
<1>1. PICK i : i = Least(TextIndexes(content))
  OBVIOUS
<1>2. i \in TextIndexes(content)
  <2>1. TextIndexes(content) \in SUBSET (1..Len(content)) /\ Len(content) \in Nat
    BY DEF TextIndexes
  <2> QED BY <1>1, <2>1, LeastIsMember
<1>3. content[i] \in ContentBlock /\ content[i].type = "text"
  BY <1>2 DEF TextIndexes
<1>4. content[i].text \in Texts
  BY <1>3 DEF ContentBlock, TextBlocks, ToolUseBlocks, ToolResultBlocks
<1> QED BY <1>1, <1>4 DEF FirstText

\* A run's output is a text
LEMMA ExtractLastTextType ==
  ASSUME NEW conv \in Conversation
  PROVE  ExtractLastText(conv) \in Texts
<1>1. conv.messages \in Seq(Message)
  BY DEF Conversation
<1>2. CASE TextTurns(conv.messages) = {}
  BY <1>2, TranscriptAssumption DEF ExtractLastText
<1>3. CASE TextTurns(conv.messages) # {}
  <2>1. PICK i : i = Greatest(TextTurns(conv.messages))
    OBVIOUS
  <2>2. i \in TextTurns(conv.messages)
    <3>1. /\ TextTurns(conv.messages) \in SUBSET (1..Len(conv.messages))
          /\ Len(conv.messages) \in Nat
      BY <1>1 DEF TextTurns
    <3> QED BY <1>3, <2>1, <3>1, GreatestIsMember
  <2>3. /\ conv.messages[i].content \in Seq(ContentBlock)
        /\ TextIndexes(conv.messages[i].content) # {}
    <3>1. conv.messages[i] \in Message /\ TextIndexes(conv.messages[i].content) # {}
      BY <1>1, <2>2 DEF TextTurns
    <3> QED BY <3>1 DEF Message
  <2>4. FirstText(conv.messages[i].content) \in Texts
    BY <2>3, FirstTextType
  <2> QED BY <1>3, <2>1, <2>4 DEF ExtractLastText
<1> QED BY <1>2, <1>3

\* Conversation::add keeps a conversation a conversation, one message longer
LEMMA AddProperties ==
  ASSUME NEW conv \in Conversation, NEW m \in Message
  PROVE  /\ Add(conv, m) \in Conversation
         /\ Add(conv, m).system_prompt = conv.system_prompt
         /\ Add(conv, m).messages = Append(conv.messages, m)
         /\ Len(Add(conv, m).messages) = Len(conv.messages) + 1
         /\ \A i \in DOMAIN conv.messages : Add(conv, m).messages[i] = conv.messages[i]
         /\ Add(conv, m).messages[Len(conv.messages) + 1] = m
BY DEF Add, Conversation

\* The messages the loops build are messages
LEMMA MessageTypes ==
  /\ \A text \in Texts : UserMessage(text) \in Message
  /\ \A content \in Seq(ContentBlock) : AssistantMessage(content) \in Message
  /\ \A results \in Seq(ToolResultBlocks) : ToolMessage(results) \in Message
<1>1. \A text \in Texts : TextBlock(text) \in ContentBlock
  BY DEF TextBlock, ContentBlock, TextBlocks
<1>2. \A results \in Seq(ToolResultBlocks) : results \in Seq(ContentBlock)
  BY DEF ContentBlock
<1> QED
  BY <1>1, <1>2 DEF UserMessage, AssistantMessage, ToolMessage, Message, Roles
-----------------------------------------------------------------------------
(***************************************************************************)
(* Dispatch answers the calls of a turn one block at a time.               *)
(***************************************************************************)
LEMMA AnswersNone ==
  ASSUME NEW content \in Seq(ContentBlock)
  PROVE  AnswersBefore(<< >>, content, 1)
<1> DEFINE none == {i \in UseIndexes(content) : i < 1}
           pick == [k \in DOMAIN << >> |-> 1]
<1>1. none = {}
  BY DEF UseIndexes
<1>2. pick \in [DOMAIN << >> -> none] /\ DOMAIN << >> = {}
  OBVIOUS
<1>3. \A i \in UseIndexes(content) : ~ (i < 1)
  BY DEF UseIndexes
<1> QED BY <1>2, <1>3 DEF AnswersBefore

\* A block that is not a call needs no answer
LEMMA AnswersSkip ==
  ASSUME NEW content \in Seq(ContentBlock), NEW results \in Seq(ToolResultBlocks),
         NEW n \in Nat \ {0}, AnswersBefore(results, content, n),
         n \in DOMAIN content => content[n].type # "tool_use"
  PROVE  AnswersBefore(results, content, n + 1)
<1>1. {i \in UseIndexes(content) : i < n + 1} = {i \in UseIndexes(content) : i < n}
  BY DEF UseIndexes
<1>2. \A i \in UseIndexes(content) : i < n + 1 => i < n
  BY DEF UseIndexes
<1>3. PICK pick \in [DOMAIN results -> {i \in UseIndexes(content) : i < n}] :
        /\ \A k \in DOMAIN results :
              /\ results[k].type = "tool_result"
              /\ results[k].tool_use_id = content[pick[k]].id
        /\ \A k, l \in DOMAIN results : k < l => pick[k] < pick[l]
        /\ \A i \in UseIndexes(content) :
              i < n => \E k \in DOMAIN results : pick[k] = i
  BY DEF AnswersBefore
<1>4. pick \in [DOMAIN results -> {i \in UseIndexes(content) : i < n + 1}]
  BY <1>1, <1>3
<1> QED BY <1>2, <1>3, <1>4 DEF AnswersBefore

\* The result of the call reached answers it, after all the earlier ones
LEMMA AnswersPush ==
  ASSUME NEW content \in Seq(ContentBlock), NEW results \in Seq(ToolResultBlocks),
         NEW n \in DOMAIN content, AnswersBefore(results, content, n),
         content[n].type = "tool_use", NEW is_error \in BOOLEAN
  PROVE  AnswersBefore(Append(results, ToolResultBlock(content[n].id, is_error)),
                       content, n + 1)
<1> DEFINE more == Append(results, ToolResultBlock(content[n].id, is_error))
           len == Len(results)
           before == {i \in UseIndexes(content) : i < n}
           upto == {i \in UseIndexes(content) : i < n + 1}
<1>1. PICK pick \in [DOMAIN results -> before] :
        /\ \A k \in DOMAIN results :
              /\ results[k].type = "tool_result"
              /\ results[k].tool_use_id = content[pick[k]].id
        /\ \A k, l \in DOMAIN results : k < l => pick[k] < pick[l]
        /\ \A i \in UseIndexes(content) :
              i < n => \E k \in DOMAIN results : pick[k] = i
  BY DEF AnswersBefore
<1>2. PICK next : next = [k \in 1 .. len + 1 |-> IF k = len + 1 THEN n ELSE pick[k]]
  OBVIOUS
<1>3. /\ len \in Nat /\ n \in Nat /\ DOMAIN results = 1..len
      /\ \A i \in UseIndexes(content) : i \in Nat
      /\ n \in UseIndexes(content)
  BY DEF UseIndexes
<1>4. /\ DOMAIN more = 1 .. len + 1
      /\ more[len + 1] = ToolResultBlock(content[n].id, is_error)
      /\ \A k \in 1..len : more[k] = results[k]
  BY <1>3
<1>5. next \in [DOMAIN more -> upto]
  BY <1>1, <1>2, <1>3, <1>4
<1>6. /\ next[len + 1] = n
      /\ \A k \in 1..len : next[k] = pick[k] /\ next[k] \in Nat /\ next[k] < n
  BY <1>1, <1>2, <1>3
<1>7. \A k \in DOMAIN more :
         more[k].type = "tool_result" /\ more[k].tool_use_id = content[next[k]].id
  BY <1>1, <1>3, <1>4, <1>6 DEF ToolResultBlock
<1>8. \A k, l \in DOMAIN more : k < l => next[k] < next[l]
  BY SMTT(20), <1>1, <1>3, <1>4, <1>6
<1>9. \A i \in UseIndexes(content) :
         i < n + 1 => \E k \in DOMAIN more : next[k] = i
  <2> SUFFICES ASSUME NEW i \in UseIndexes(content), i < n + 1
               PROVE  \E k \in DOMAIN more : next[k] = i
    OBVIOUS
  <2> HIDE DEF more
  <2>1. CASE i = n
    <3>1. len + 1 \in DOMAIN more
      BY <1>3, <1>4
    <3>2. next[len + 1] = i
      BY <1>6, <2>1
    <3> QED BY <3>1, <3>2
  <2>2. CASE i < n
    <3>1. PICK k \in DOMAIN results : pick[k] = i
      BY <1>1, <2>2
    <3>2. k \in DOMAIN more /\ next[k] = i
      BY <1>3, <1>4, <1>6, <3>1
    <3> QED BY <3>2
  <2> QED BY <1>3, <2>1, <2>2
<1>10. AnswersBefore(more, content, n + 1)
  <2> HIDE DEF more
  <2> QED BY <1>5, <1>7, <1>8, <1>9 DEF AnswersBefore
<1> QED BY <1>10
-----------------------------------------------------------------------------
(***************************************************************************)
(* How a transcript stays paired while it grows.                           *)
(***************************************************************************)

\* Paired but for the calls of the last turn, which has some
Pending(messages) ==
  /\ messages # << >>
  /\ messages[Len(messages)].role = "assistant"
  /\ HasToolUse(messages[Len(messages)])
  /\ \A i \in DOMAIN messages :
        i < Len(messages) /\ HasToolUse(messages[i]) => Answered(messages, i)
  /\ ResultsFollowCalls(messages)

\* A turn that neither calls tools nor answers calls keeps the pairing
LEMMA PairedAppend ==
  ASSUME NEW messages \in Seq(Message), WellPaired(messages),
         NEW m \in Message, ~ HasToolUse(m), m.role # "tool"
  PROVE  WellPaired(Append(messages, m))
<1> DEFINE more == Append(messages, m)
<1>1. /\ Len(messages) \in Nat /\ DOMAIN messages = 1 .. Len(messages)
      /\ DOMAIN more = 1 .. Len(messages) + 1
      /\ more[Len(messages) + 1] = m
      /\ \A i \in DOMAIN messages : more[i] = messages[i]
  OBVIOUS
<1> HIDE DEF more
<1>2. ASSUME NEW i \in DOMAIN more, HasToolUse(more[i]) PROVE Answered(more, i)
  <2>1. i \in DOMAIN messages /\ HasToolUse(messages[i])
    BY <1>1, <1>2
  <2>2. Answered(messages, i)
    BY <2>1 DEF WellPaired
  <2> QED BY <1>1, <2>1, <2>2 DEF Answered
<1>3. ResultsFollowCalls(more)
  <2> SUFFICES ASSUME NEW i \in DOMAIN more, more[i].role = "tool"
               PROVE  /\ i - 1 \in DOMAIN more
                      /\ more[i - 1].role = "assistant"
                      /\ HasToolUse(more[i - 1])
    BY DEF ResultsFollowCalls
  <2>1. i \in DOMAIN messages /\ messages[i].role = "tool"
    BY <1>1
  <2>2. /\ i - 1 \in DOMAIN messages
        /\ messages[i - 1].role = "assistant"
        /\ HasToolUse(messages[i - 1])
    BY <2>1 DEF WellPaired, ResultsFollowCalls
  <2> QED BY <1>1, <2>2
<1>4. WellPaired(more)
  BY <1>2, <1>3 DEF WellPaired
<1> QED BY <1>4 DEF more

\* A turn with calls leaves them pending
LEMMA PendingAppend ==
  ASSUME NEW messages \in Seq(Message), WellPaired(messages),
         NEW m \in Message, HasToolUse(m), m.role = "assistant"
  PROVE  Pending(Append(messages, m))
<1> DEFINE more == Append(messages, m)
<1>1. /\ Len(messages) \in Nat /\ DOMAIN messages = 1 .. Len(messages)
      /\ DOMAIN more = 1 .. Len(messages) + 1 /\ Len(more) = Len(messages) + 1
      /\ more[Len(messages) + 1] = m /\ more # << >>
      /\ \A i \in DOMAIN messages : more[i] = messages[i]
  OBVIOUS
<1> HIDE DEF more
<1>2. ASSUME NEW i \in DOMAIN more, i < Len(more), HasToolUse(more[i])
      PROVE  Answered(more, i)
  <2>1. i \in DOMAIN messages /\ HasToolUse(messages[i])
    BY <1>1, <1>2
  <2>2. Answered(messages, i)
    BY <2>1 DEF WellPaired
  <2> QED BY <1>1, <2>1, <2>2 DEF Answered
<1>3. ResultsFollowCalls(more)
  <2> SUFFICES ASSUME NEW i \in DOMAIN more, more[i].role = "tool"
               PROVE  /\ i - 1 \in DOMAIN more
                      /\ more[i - 1].role = "assistant"
                      /\ HasToolUse(more[i - 1])
    BY DEF ResultsFollowCalls
  <2>1. i \in DOMAIN messages /\ messages[i].role = "tool"
    BY <1>1
  <2>2. /\ i - 1 \in DOMAIN messages
        /\ messages[i - 1].role = "assistant"
        /\ HasToolUse(messages[i - 1])
    BY <2>1 DEF WellPaired, ResultsFollowCalls
  <2> QED BY <1>1, <2>2
<1>4. Pending(more)
  BY <1>1, <1>2, <1>3 DEF Pending
<1> QED BY <1>4 DEF more

\* The message with the results of the pending calls pairs the transcript again
LEMMA AnsweredAppend ==
  ASSUME NEW messages \in Seq(Message), Pending(messages),
         NEW results \in Seq(ToolResultBlocks),
         AnswersAll(results, messages[Len(messages)].content)
  PROVE  WellPaired(Append(messages, ToolMessage(results)))
<1> DEFINE more == Append(messages, ToolMessage(results))
<1>1. /\ Len(messages) \in Nat /\ DOMAIN messages = 1 .. Len(messages)
      /\ Len(messages) \in DOMAIN messages
      /\ DOMAIN more = 1 .. Len(messages) + 1
      /\ more[Len(messages) + 1] = ToolMessage(results)
      /\ \A i \in DOMAIN messages : more[i] = messages[i]
  BY DEF Pending
<1>2. ToolMessage(results).role = "tool" /\ ToolMessage(results).content = results
  BY DEF ToolMessage
<1>3. ~ HasToolUse(ToolMessage(results))
  <2>1. \A i \in DOMAIN results : results[i] \in ToolResultBlocks
    OBVIOUS
  <2>2. \A i \in DOMAIN results : results[i].type # "tool_use"
    BY <2>1 DEF ToolResultBlocks
  <2> QED BY <1>2, <2>2 DEF HasToolUse, UseIndexes
<1> HIDE DEF more
<1>4. ASSUME NEW i \in DOMAIN more, HasToolUse(more[i]) PROVE Answered(more, i)
  <2>1. i \in DOMAIN messages /\ HasToolUse(messages[i])
    BY <1>1, <1>3, <1>4
  <2>2. CASE i = Len(messages)
    BY <1>1, <1>2, <2>2 DEF Answered
  <2>3. CASE i < Len(messages)
    <3>1. Answered(messages, i)
      BY <2>1, <2>3 DEF Pending
    <3> QED BY <1>1, <2>1, <3>1 DEF Answered
  <2> QED BY <1>1, <2>1, <2>2, <2>3
<1>5. ResultsFollowCalls(more)
  <2> SUFFICES ASSUME NEW i \in DOMAIN more, more[i].role = "tool"
               PROVE  /\ i - 1 \in DOMAIN more
                      /\ more[i - 1].role = "assistant"
                      /\ HasToolUse(more[i - 1])
    BY DEF ResultsFollowCalls
  <2>1. CASE i = Len(messages) + 1
    BY <1>1, <2>1 DEF Pending
  <2>2. CASE i \in DOMAIN messages
    <3>1. /\ i - 1 \in DOMAIN messages
          /\ messages[i - 1].role = "assistant"
          /\ HasToolUse(messages[i - 1])
      BY <1>1, <2>2 DEF Pending, ResultsFollowCalls
    <3> QED BY <1>1, <3>1
  <2> QED BY <1>1, <2>1, <2>2
<1>6. WellPaired(more)
  BY <1>4, <1>5 DEF WellPaired
<1> QED BY <1>6 DEF more
-----------------------------------------------------------------------------
(***************************************************************************)
(* Members picked from a list: f[n] holds those among the first n.         *)
(***************************************************************************)
Picks(f, list, positions, S) ==
  /\ f \in [0..Len(list) -> Seq(S)]
  /\ f[0] = << >>
  /\ \A n \in 1..Len(list) :
        f[n] = IF n \in positions THEN Append(f[n - 1], list[n]) ELSE f[n - 1]

\* Picked picks: its recursion is well-founded
LEMMA PickedUpto ==
  ASSUME NEW S, NEW list \in Seq(S), NEW positions
  PROVE  \E f : Picks(f, list, positions, S) /\ Picked(list, positions) = f[Len(list)]
<1> DEFINE Upto(f, n) ==
             f = [k \in 0..n |-> IF k = 0 THEN << >>
                                 ELSE IF k \in positions THEN Append(f[k - 1], list[k])
                                 ELSE f[k - 1]]
           Good == {n \in 0..Len(list) : \E f \in [0..n -> Seq(S)] : Upto(f, n)}
<1>0. Len(list) \in Nat /\ \A n \in 1..Len(list) : list[n] \in S
  OBVIOUS
<1>1. 0 \in Good
  <2> DEFINE f == [k \in 0..0 |-> << >>]
  <2>1. f \in [0..0 -> Seq(S)] /\ Upto(f, 0)
    OBVIOUS
  <2> HIDE DEF f, Upto
  <2> QED BY <1>0, <2>1
<1>2. ASSUME NEW n \in 1..Len(list), n - 1 \in Good PROVE n \in Good
  <2>1. PICK f \in [0..(n - 1) -> Seq(S)] : Upto(f, n - 1)
    BY <1>2
  <2> DEFINE last == IF n \in positions THEN Append(f[n - 1], list[n]) ELSE f[n - 1]
             g == [k \in 0..n |-> IF k = n THEN last ELSE f[k]]
  <2>2. last \in Seq(S)
    BY <1>0
  <2>3. g \in [0..n -> Seq(S)]
    BY <2>2
  <2>4. Upto(g, n)
    <3>1. ASSUME NEW k \in 0..n
          PROVE  g[k] = IF k = 0 THEN << >>
                        ELSE IF k \in positions THEN Append(g[k - 1], list[k])
                        ELSE g[k - 1]
      <4>1. CASE k = n
        BY <4>1
      <4>2. CASE k # n
        <5>1. k \in 0..(n - 1) /\ k - 1 # n /\ (k # 0 => k - 1 \in 0..n)
          BY <4>2
        <5> QED BY <2>1, <4>2, <5>1
      <4> QED BY <4>1, <4>2
    <3> QED BY <3>1
  <2> HIDE DEF g, Upto
  <2> QED BY <2>3, <2>4
<1>3. Len(list) \in Good
  <2>1. \A n \in 1..Len(list) : n - 1 \in Good => n \in Good
    BY <1>2
  <2> HIDE DEF Good
  <2>2. \A n \in 0..Len(list) : n \in Good
    BY <1>0, <1>1, <2>1, Counting
  <2> QED BY <1>0, <2>2
<1>4. PICK g \in [0..Len(list) -> Seq(S)] : Upto(g, Len(list))
  BY <1>3
<1> DEFINE f == CHOOSE f : Upto(f, Len(list))
<1>5. Upto(f, Len(list))
  BY <1>4
<1>6. Picked(list, positions) = f[Len(list)]
  BY DEF Picked
<1> HIDE DEF f
<1>7. f[0] = << >> /\ DOMAIN f = 0..Len(list)
  BY <1>0, <1>5
<1>8. ASSUME NEW n \in 1..Len(list)
      PROVE  f[n] = IF n \in positions THEN Append(f[n - 1], list[n]) ELSE f[n - 1]
  <2>1. n \in 0..Len(list) /\ n # 0
    BY <1>0
  <2>2. \A k \in 0..Len(list) :
           f[k] = IF k = 0 THEN << >>
                  ELSE IF k \in positions THEN Append(f[k - 1], list[k])
                  ELSE f[k - 1]
    BY <1>5
  <2> QED BY <2>1, <2>2
<1>9. f \in [0..Len(list) -> Seq(S)]
  <2> DEFINE Typed == {n \in 0..Len(list) : f[n] \in Seq(S)}
  <2>1. 0 \in Typed
    <3>1. f[0] \in Seq(S)
      BY <1>7
    <3> QED BY <1>0, <3>1
  <2>2. ASSUME NEW n \in 1..Len(list), n - 1 \in Typed PROVE n \in Typed
    <3>1. f[n - 1] \in Seq(S) /\ list[n] \in S /\ n \in 0..Len(list)
      BY <1>0, <2>2
    <3>2. Append(f[n - 1], list[n]) \in Seq(S)
      BY <3>1
    <3>3. f[n] \in {Append(f[n - 1], list[n]), f[n - 1]}
      BY <1>8
    <3> QED BY <3>1, <3>2, <3>3
  <2>3. \A n \in 0..Len(list) : n \in Typed
    <3>1. \A n \in 1..Len(list) : n - 1 \in Typed => n \in Typed
      BY <2>2
    <3> HIDE DEF Typed
    <3> QED BY <1>0, <2>1, <3>1, Counting
  <2>4. f = [n \in 0..Len(list) |-> f[n]]
    BY <1>5, <1>7
  <2> QED BY <2>3, <2>4
<1> QED BY <1>6, <1>7, <1>8, <1>9 DEF Picks

\* What is picked are members
LEMMA PickedType ==
  ASSUME NEW S, NEW list \in Seq(S), NEW positions
  PROVE  Picked(list, positions) \in Seq(S)
<1>1. PICK f : Picks(f, list, positions, S) /\ Picked(list, positions) = f[Len(list)]
  BY PickedUpto
<1>2. Len(list) \in 0..Len(list)
  OBVIOUS
<1> QED BY <1>1, <1>2 DEF Picks

\* What is picked up to a position depends on what is before it only
LEMMA PicksAgree ==
  ASSUME NEW S, NEW list \in Seq(S), NEW more \in Seq(S), NEW P, NEW Q,
         Len(list) <= Len(more),
         \A i \in 1..Len(list) : more[i] = list[i] /\ (i \in P <=> i \in Q),
         NEW f, Picks(f, list, P, S), NEW g, Picks(g, more, Q, S)
  PROVE  \A n \in 0..Len(list) : g[n] = f[n]
<1> DEFINE Same == {n \in 0..Len(list) : g[n] = f[n]}
<1>0. Len(list) \in Nat /\ Len(more) \in Nat
  OBVIOUS
<1>1. 0 \in Same
  BY <1>0 DEF Picks
<1>2. ASSUME NEW n \in 1..Len(list), n - 1 \in Same PROVE n \in Same
  <2>1. n \in 1..Len(more) /\ n \in 0..Len(list) /\ g[n - 1] = f[n - 1]
    BY <1>0, <1>2
  <2>2. f[n] = IF n \in P THEN Append(f[n - 1], list[n]) ELSE f[n - 1]
    BY DEF Picks
  <2>3. g[n] = IF n \in Q THEN Append(g[n - 1], more[n]) ELSE g[n - 1]
    BY <2>1 DEF Picks
  <2> QED BY <2>1, <2>2, <2>3
<1>3. \A n \in 1..Len(list) : n - 1 \in Same => n \in Same
  BY <1>2
<1>4. \A n \in 0..Len(list) : n \in Same
  <2> HIDE DEF Same
  <2> QED BY <1>0, <1>1, <1>3, Counting
<1> QED BY <1>4

\* Nothing is picked from a tail without positions
LEMMA PickedSkips ==
  ASSUME NEW S, NEW list \in Seq(S), NEW rest \in Seq(S), NEW P, NEW Q,
         \A i \in 1..Len(list) : i \in P <=> i \in Q,
         \A k \in 1..Len(rest) : Len(list) + k \notin Q
  PROVE  Picked(list \o rest, Q) = Picked(list, P)
<1>0. PICK more \in Seq(S) : more = list \o rest
  <2>1. list \o rest \in Seq(S)
    OBVIOUS
  <2> QED BY <2>1
<1>1. /\ Len(list) \in Nat /\ Len(rest) \in Nat /\ Len(more) = Len(list) + Len(rest)
      /\ \A i \in 1..Len(list) : more[i] = list[i]
  BY <1>0
<1>2. PICK f : Picks(f, list, P, S) /\ Picked(list, P) = f[Len(list)]
  BY PickedUpto
<1>3. PICK g : Picks(g, more, Q, S) /\ Picked(more, Q) = g[Len(more)]
  BY PickedUpto
<1>4. g[Len(list)] = f[Len(list)]
  <2>1. /\ Len(list) <= Len(more)
        /\ \A i \in 1..Len(list) : more[i] = list[i] /\ (i \in P <=> i \in Q)
    BY <1>1
  <2>2. Picks(f, list, P, S) /\ Picks(g, more, Q, S)
    BY <1>2, <1>3
  <2>3. \A n \in 0..Len(list) : g[n] = f[n]
    BY <2>1, <2>2, PicksAgree
  <2> QED BY <1>1, <2>3
<1> DEFINE Still == {k \in 0..Len(rest) : g[Len(list) + k] = f[Len(list)]}
<1>5. 0 \in Still
  BY <1>1, <1>4
<1>6. ASSUME NEW k \in 1..Len(rest), k - 1 \in Still PROVE k \in Still
  <2>1. PICK n : n = Len(list) + k /\ n \in 1..Len(more) /\ n - 1 = Len(list) + (k - 1)
    BY <1>1
  <2>2. g[n] = g[n - 1]
    BY <1>3, <2>1 DEF Picks
  <2> QED BY <1>1, <1>6, <2>1, <2>2
<1>7. \A k \in 0..Len(rest) : k \in Still
  <2>1. \A k \in 1..Len(rest) : k - 1 \in Still => k \in Still
    BY <1>6
  <2> HIDE DEF Still
  <2> QED BY <1>1, <1>5, <2>1, Counting
<1>8. g[Len(more)] = f[Len(list)]
  BY <1>1, <1>7
<1> QED BY <1>0, <1>2, <1>3, <1>8

\* A member added at a position is picked last
LEMMA PickedAppends ==
  ASSUME NEW S, NEW list \in Seq(S), NEW x \in S, NEW P, NEW Q,
         \A i \in 1..Len(list) : i \in P <=> i \in Q,
         Len(list) + 1 \in Q
  PROVE  Picked(Append(list, x), Q) = Append(Picked(list, P), x)
<1>0. PICK more \in Seq(S) : more = Append(list, x)
  <2>1. Append(list, x) \in Seq(S)
    OBVIOUS
  <2> QED BY <2>1
<1>1. /\ Len(list) \in Nat /\ Len(more) = Len(list) + 1 /\ more[Len(more)] = x
      /\ \A i \in 1..Len(list) : more[i] = list[i]
  BY <1>0
<1>2. PICK f : Picks(f, list, P, S) /\ Picked(list, P) = f[Len(list)]
  BY PickedUpto
<1>3. PICK g : Picks(g, more, Q, S) /\ Picked(more, Q) = g[Len(more)]
  BY PickedUpto
<1>4. g[Len(list)] = f[Len(list)]
  <2>1. /\ Len(list) <= Len(more)
        /\ \A i \in 1..Len(list) : more[i] = list[i] /\ (i \in P <=> i \in Q)
    BY <1>1
  <2>2. Picks(f, list, P, S) /\ Picks(g, more, Q, S)
    BY <1>2, <1>3
  <2>3. \A n \in 0..Len(list) : g[n] = f[n]
    BY <2>1, <2>2, PicksAgree
  <2> QED BY <1>1, <2>3
<1>5. g[Len(more)] = Append(g[Len(more) - 1], more[Len(more)])
  <2>1. Len(more) \in 1..Len(more) /\ Len(more) \in Q
    BY <1>1
  <2> QED BY <1>3, <2>1 DEF Picks
<1>6. Len(more) - 1 = Len(list)
  BY <1>1
<1> QED BY <1>0, <1>1, <1>2, <1>3, <1>4, <1>5, <1>6

\* Nothing is picked without positions
LEMMA PickedNone ==
  ASSUME NEW S, NEW list \in Seq(S), NEW P, \A i \in 1..Len(list) : i \notin P
  PROVE  Picked(list, P) = << >>
<1>0. Len(list) \in Nat
  OBVIOUS
<1>1. PICK f : Picks(f, list, P, S) /\ Picked(list, P) = f[Len(list)]
  BY PickedUpto
<1> DEFINE Empty == {n \in 0..Len(list) : f[n] = << >>}
<1>2. 0 \in Empty
  BY <1>0, <1>1 DEF Picks
<1>3. ASSUME NEW n \in 1..Len(list), n - 1 \in Empty PROVE n \in Empty
  BY <1>1, <1>3 DEF Picks
<1>4. \A n \in 0..Len(list) : n \in Empty
  <2>1. \A n \in 1..Len(list) : n - 1 \in Empty => n \in Empty
    BY <1>3
  <2> HIDE DEF Empty
  <2> QED BY <1>0, <1>2, <2>1, Counting
<1> QED BY <1>0, <1>1, <1>4

\* Everything is picked where every member has its position
LEMMA PickedAll ==
  ASSUME NEW S, NEW list \in Seq(S), NEW P, \A i \in 1..Len(list) : i \in P
  PROVE  Picked(list, P) = list
<1>0. Len(list) \in Nat
  OBVIOUS
<1>1. PICK f : Picks(f, list, P, S) /\ Picked(list, P) = f[Len(list)]
  BY PickedUpto
<1> DEFINE Same == {n \in 0..Len(list) :
                      Len(f[n]) = n /\ \A i \in 1..n : f[n][i] = list[i]}
<1>2. 0 \in Same
  BY <1>0, <1>1 DEF Picks
<1>3. ASSUME NEW n \in 1..Len(list), n - 1 \in Same PROVE n \in Same
  <2>0. n \in Nat /\ n - 1 \in Nat /\ n - 1 \in 0..Len(list) /\ n \in 0..Len(list)
    BY <1>0
  <2>1. f[n] = Append(f[n - 1], list[n]) /\ f[n - 1] \in Seq(S)
    BY <1>1, <2>0 DEF Picks
  <2>2. Len(f[n - 1]) = n - 1 /\ \A i \in 1..(n - 1) : f[n - 1][i] = list[i]
    BY <1>3
  <2>3. PICK before : before = f[n - 1]
    OBVIOUS
  <2>4. Len(f[n]) = n /\ \A i \in 1..n : f[n][i] = list[i]
    <3>1. before \in Seq(S) /\ Len(before) = n - 1 /\ f[n] = Append(before, list[n])
      BY <2>1, <2>2, <2>3
    <3>2. \A i \in 1..(n - 1) : f[n][i] = before[i]
      BY <2>0, <3>1
    <3>3. Len(f[n]) = n /\ f[n][n] = list[n]
      BY <2>0, <3>1
    <3> QED BY <2>0, <2>2, <2>3, <3>2, <3>3
  <2> QED BY <2>0, <2>4
<1>4. Len(list) \in Same
  <2>1. \A n \in 1..Len(list) : n - 1 \in Same => n \in Same
    BY <1>3
  <2> HIDE DEF Same
  <2>2. \A n \in 0..Len(list) : n \in Same
    BY <1>0, <1>2, <2>1, Counting
  <2> QED BY <1>0, <2>2
<1>5. Picked(list, P) \in Seq(S)
  BY PickedType
<1> QED BY <1>1, <1>4, <1>5

\* The positions picked: in their order, and all there are
Positions(n, P) == Picked([k \in 1..n |-> k], P)

LEMMA PositionsPicked ==
  ASSUME NEW n \in Nat, NEW P
  PROVE  LET pos == Positions(n, P)
         IN  /\ pos \in Seq(1..n)
             /\ \A k \in 1..Len(pos) : pos[k] \in P
             /\ \A k, l \in 1..Len(pos) : k < l => pos[k] < pos[l]
             /\ \A i \in 1..n : i \in P => \E k \in 1..Len(pos) : pos[k] = i
<1>1. PICK all \in Seq(1..n) : all = [k \in 1..n |-> k]
  <2>1. [k \in 1..n |-> k] \in Seq(1..n)
    OBVIOUS
  <2> QED BY <2>1
<1>2. Len(all) = n /\ \A k \in 1..n : all[k] = k
  BY <1>1
<1>3. PICK f : Picks(f, all, P, 1..n) /\ Picked(all, P) = f[Len(all)]
  BY PickedUpto
<1> DEFINE Ordered(pos, m) ==
             /\ \A k \in 1..Len(pos) : pos[k] \in P /\ pos[k] <= m
             /\ \A k, l \in 1..Len(pos) : k < l => pos[k] < pos[l]
             /\ \A i \in 1..m : i \in P => \E k \in 1..Len(pos) : pos[k] = i
           Good == {m \in 0..n : Ordered(f[m], m)}
<1>4. 0 \in Good
  BY <1>2, <1>3 DEF Picks
<1>5. ASSUME NEW m \in 1..n, m - 1 \in Good PROVE m \in Good
  <2>1. PICK before \in Seq(1..n) : before = f[m - 1]
    <3>1. m - 1 \in 0..n
      OBVIOUS
    <3> QED BY <1>2, <1>3, <3>1 DEF Picks
  <2>2. Ordered(before, m - 1)
    BY <1>5, <2>1
  <2>3. f[m] = IF m \in P THEN Append(before, m) ELSE before
    BY <1>2, <1>3, <2>1 DEF Picks
  <2>4. CASE m \notin P
    <3>1. \A i \in 1..m : i \in P => i \in 1..(m - 1)
      BY <2>4
    <3>2. \A k \in 1..Len(before) : before[k] \in 1..n
      OBVIOUS
    <3>3. \A k \in 1..Len(before) : before[k] <= m
      BY <2>2, <3>2
    <3>4. Ordered(before, m)
      BY <2>2, <3>1, <3>3
    <3>5. f[m] = before /\ m \in 0..n
      BY <2>3, <2>4
    <3> HIDE DEF Ordered
    <3> QED BY <3>4, <3>5
  <2>5. CASE m \in P
    <3>1. PICK pos : pos = Append(before, m)
      OBVIOUS
    <3>2. /\ Len(before) \in Nat /\ Len(pos) = Len(before) + 1 /\ pos[Len(pos)] = m
          /\ \A k \in 1..Len(before) : pos[k] = before[k] /\ before[k] \in 1..n
      BY <3>1
    <3>3. \A k \in 1..Len(pos) : k = Len(pos) \/ k \in 1..Len(before)
      BY <3>2
    <3>4. \A k \in 1..Len(before) : pos[k] \in P /\ pos[k] < m
      <4>1. \A k \in 1..Len(before) : before[k] \in P /\ before[k] <= m - 1
        BY <2>2
      <4> QED BY <3>2, <4>1
    <3>5. \A k \in 1..Len(pos) : pos[k] \in P /\ pos[k] <= m
      BY <2>5, <3>2, <3>3, <3>4
    <3>6. \A k, l \in 1..Len(pos) : k < l => pos[k] < pos[l]
      <4> SUFFICES ASSUME NEW k \in 1..Len(pos), NEW l \in 1..Len(pos), k < l
                   PROVE  pos[k] < pos[l]
        OBVIOUS
      <4>1. k \in 1..Len(before)
        BY <3>2
      <4>2. CASE l = Len(pos)
        BY <3>2, <3>4, <4>1, <4>2
      <4>3. CASE l \in 1..Len(before)
        BY <2>2, <3>2, <4>1, <4>3
      <4> QED BY <3>3, <4>2, <4>3
    <3>7. \A i \in 1..m : i \in P => \E k \in 1..Len(pos) : pos[k] = i
      <4> SUFFICES ASSUME NEW i \in 1..m, i \in P PROVE \E k \in 1..Len(pos) : pos[k] = i
        OBVIOUS
      <4>1. CASE i = m
        <5>1. Len(pos) \in 1..Len(pos) /\ pos[Len(pos)] = i
          BY <3>2, <4>1
        <5> QED BY <5>1
      <4>2. CASE i # m
        <5>1. \A j \in 1..(m - 1) : j \in P => \E k \in 1..Len(before) : before[k] = j
          BY <2>2
        <5>2. i \in 1..(m - 1)
          BY <4>2
        <5>3. PICK k \in 1..Len(before) : before[k] = i
          BY <5>1, <5>2
        <5> QED BY <3>2, <5>3
      <4> QED BY <4>1, <4>2
    <3>8. Ordered(pos, m)
      BY <3>5, <3>6, <3>7
    <3>9. f[m] = pos /\ m \in 0..n
      BY <2>3, <2>5, <3>1
    <3> HIDE DEF Ordered
    <3> QED BY <3>8, <3>9
  <2> QED BY <2>4, <2>5
<1>6. \A m \in 0..n : m \in Good
  <2>1. \A m \in 1..n : m - 1 \in Good => m \in Good
    BY <1>5
  <2> HIDE DEF Good
  <2> QED BY <1>4, <2>1, Counting
<1>7. PICK pos \in Seq(1..n) : pos = Positions(n, P)
  BY <1>1, PickedType DEF Positions
<1>8. Ordered(pos, n)
  <2>1. f[n] = pos
    BY <1>1, <1>2, <1>3, <1>7 DEF Positions
  <2>2. Ordered(f[n], n)
    BY <1>6
  <2> HIDE DEF Ordered
  <2> QED BY <2>1, <2>2
<1> QED BY <1>7, <1>8

\* Members are picked by their positions
LEMMA PickedByPosition ==
  ASSUME NEW S, NEW list \in Seq(S), NEW P
  PROVE  LET pos == Positions(Len(list), P)
         IN  Picked(list, P) = [k \in 1..Len(pos) |-> list[pos[k]]]
<1>0. PICK len \in Nat : len = Len(list)
  OBVIOUS
<1>1. PICK all \in Seq(1..len) : all = [k \in 1..len |-> k]
  <2>1. [k \in 1..len |-> k] \in Seq(1..len)
    OBVIOUS
  <2> QED BY <2>1
<1>2. Len(all) = len /\ \A k \in 1..len : all[k] = k
  BY <1>1
<1>3. PICK f : Picks(f, all, P, 1..len) /\ Picked(all, P) = f[Len(all)]
  BY PickedUpto
<1>4. PICK g : Picks(g, list, P, S) /\ Picked(list, P) = g[Len(list)]
  BY PickedUpto
<1> DEFINE Good == {n \in 0..len : /\ Len(g[n]) = Len(f[n])
                                   /\ \A k \in 1..Len(f[n]) : g[n][k] = list[f[n][k]]}
<1>5. 0 \in Good
  BY <1>3, <1>4 DEF Picks
<1>6. ASSUME NEW n \in 1..len, n - 1 \in Good PROVE n \in Good
  <2>1. PICK pos \in Seq(1..len), before \in Seq(S) : pos = f[n - 1] /\ before = g[n - 1]
    <3>1. n - 1 \in 0..len
      OBVIOUS
    <3> QED BY <1>0, <1>2, <1>3, <1>4, <3>1 DEF Picks
  <2>2. Len(before) = Len(pos) /\ \A k \in 1..Len(pos) : before[k] = list[pos[k]]
    BY <1>6, <2>1
  <2>3. f[n] = IF n \in P THEN Append(pos, n) ELSE pos
    BY <1>2, <1>3, <2>1 DEF Picks
  <2>4. g[n] = IF n \in P THEN Append(before, list[n]) ELSE before
    BY <1>0, <1>4, <2>1 DEF Picks
  <2>5. CASE n \notin P
    BY <2>2, <2>3, <2>4, <2>5
  <2>6. CASE n \in P
    <3>1. PICK pos2, after : pos2 = Append(pos, n) /\ after = Append(before, list[n])
      OBVIOUS
    <3>2. list[n] \in S
      BY <1>0
    <3>3. /\ Len(pos) \in Nat /\ Len(pos2) = Len(pos) + 1 /\ pos2[Len(pos) + 1] = n
          /\ \A k \in 1..Len(pos) : pos2[k] = pos[k]
      BY <3>1
    <3>4. /\ Len(after) = Len(pos) + 1 /\ after[Len(pos) + 1] = list[n]
          /\ \A k \in 1..Len(pos) : after[k] = before[k]
      BY <2>2, <3>1, <3>2
    <3>5. \A k \in 1..Len(pos2) : after[k] = list[pos2[k]]
      <4>1. \A k \in 1..Len(pos2) : k = Len(pos) + 1 \/ k \in 1..Len(pos)
        BY <3>3
      <4> QED BY <2>2, <3>3, <3>4, <4>1
    <3>6. f[n] = pos2 /\ g[n] = after /\ n \in 0..len
      BY <2>3, <2>4, <2>6, <3>1
    <3>7. Len(after) = Len(pos2)
      BY <3>3, <3>4
    <3> QED BY <3>5, <3>6, <3>7
  <2> QED BY <2>5, <2>6
<1>7. \A n \in 0..len : n \in Good
  <2>1. \A n \in 1..len : n - 1 \in Good => n \in Good
    BY <1>6
  <2> HIDE DEF Good
  <2> QED BY <1>5, <2>1, Counting
<1>8. PICK pos \in Seq(1..len) : pos = Positions(len, P)
  BY <1>1, PickedType DEF Positions
<1>9. PICK picked \in Seq(S) : picked = Picked(list, P)
  BY PickedType
<1>10. Len(picked) = Len(pos) /\ \A k \in 1..Len(pos) : picked[k] = list[pos[k]]
  <2>1. f[len] = pos
    BY <1>1, <1>2, <1>3, <1>8 DEF Positions
  <2>2. g[len] = picked
    BY <1>0, <1>4, <1>9
  <2>3. len \in Good
    BY <1>7
  <2> QED BY <2>1, <2>2, <2>3
<1>11. picked = [k \in 1..Len(pos) |-> list[pos[k]]]
  BY <1>10
<1> QED BY <1>0, <1>8, <1>9, <1>11

\* The dialects pick as everybody does, and blocks by their type
LEMMA DialectsPick ==
  ASSUME NEW list, NEW positions
  PROVE  /\ Completions!Picked(list, positions) = Picked(list, positions)
         /\ MessagesApi!Picked(list, positions) = Picked(list, positions)
BY DEF Completions!Picked, MessagesApi!Picked, Picked

LEMMA BlocksPicked ==
  ASSUME NEW content
  PROVE  Completions!Blocks(content, "tool_use") = Picked(content, UseIndexes(content))
BY DialectsPick DEF Completions!Blocks, UseIndexes
-----------------------------------------------------------------------------
(***************************************************************************)
(* The results of a turn are for the calls picked from it, one by one.     *)
(***************************************************************************)

\* Results that answer the calls before n + 1 answer those before n, but for the
\* last one when the block at n is a call
LEMMA AnswersPeel ==
  ASSUME NEW content \in Seq(ContentBlock), NEW n \in 1..Len(content),
         NEW results \in Seq(ContentBlock), AnswersBefore(results, content, n + 1)
  PROVE  IF content[n].type = "tool_use"
           THEN /\ results # << >>
                /\ results[Len(results)].tool_use_id = content[n].id
                /\ AnswersBefore(SubSeq(results, 1, Len(results) - 1), content, n)
           ELSE AnswersBefore(results, content, n)
<1> DEFINE Calls(k) == {i \in UseIndexes(content) : i < k}
<1>1. PICK pick \in [DOMAIN results -> Calls(n + 1)] :
         /\ \A k \in DOMAIN results :
               /\ results[k].type = "tool_result"
               /\ results[k].tool_use_id = content[pick[k]].id
         /\ \A k, l \in DOMAIN results : k < l => pick[k] < pick[l]
         /\ \A i \in UseIndexes(content) :
               i < n + 1 => \E k \in DOMAIN results : pick[k] = i
  BY DEF AnswersBefore
<1>2. /\ Len(results) \in Nat /\ DOMAIN results = 1..Len(results)
      /\ n \in Nat /\ \A i \in UseIndexes(content) : i \in Nat
  BY DEF UseIndexes
<1>3. \A k \in DOMAIN results : pick[k] \in UseIndexes(content) /\ pick[k] < n + 1
  BY <1>1
<1>4. CASE content[n].type # "tool_use"
  <2>1. n \notin UseIndexes(content)
    BY <1>4 DEF UseIndexes
  <2>2. \A i \in UseIndexes(content) : i < n + 1 => i < n
    BY <1>2, <2>1
  <2>3. pick \in [DOMAIN results -> Calls(n)]
    BY <1>1, <1>3, <2>2
  <2>4. \A i \in UseIndexes(content) : i < n => i < n + 1
    BY <1>2
  <2>5. AnswersBefore(results, content, n)
    BY <1>1, <2>3, <2>4 DEF AnswersBefore
  <2> QED BY <1>4, <2>5
<1>5. CASE content[n].type = "tool_use"
  <2> DEFINE m == Len(results)
             rest == SubSeq(results, 1, m - 1)
             others == [k \in DOMAIN rest |-> pick[k]]
  <2>1. PICK last \in DOMAIN results : pick[last] = n
    <3>1. n \in UseIndexes(content) /\ n < n + 1
      BY <1>2, <1>5 DEF UseIndexes
    <3> QED BY <1>1, <3>1
  <2>2. last = m
    <3>1. ASSUME last < m PROVE FALSE
      <4>1. m \in DOMAIN results /\ pick[last] < pick[m]
        BY <1>1, <1>2, <2>1, <3>1
      <4> QED BY <1>2, <1>3, <2>1, <4>1
    <3> QED BY <1>2, <2>1, <3>1
  <2>3. results # << >> /\ results[m].tool_use_id = content[n].id
    BY <1>1, <1>2, <2>1, <2>2
  <2>4. /\ m \in Nat /\ m > 0
        /\ rest \in Seq(ContentBlock) /\ DOMAIN rest = 1..(m - 1)
        /\ \A k \in 1..(m - 1) : rest[k] = results[k]
    BY <1>2, <2>1
  <2> HIDE DEF rest, m
  <2>5. \A k \in 1..(m - 1) : k \in DOMAIN results /\ pick[k] < n
    <3>1. \A k \in 1..(m - 1) : k \in DOMAIN results /\ k < m /\ m \in DOMAIN results
      BY <1>2, <2>1, <2>2, <2>4 DEF m
    <3> QED BY <1>1, <2>1, <2>2, <3>1
  <2>6. others \in [DOMAIN rest -> Calls(n)]
    BY <1>3, <2>4, <2>5
  <2>7. \A i \in UseIndexes(content) : i < n => \E k \in DOMAIN rest : others[k] = i
    <3> SUFFICES ASSUME NEW i \in UseIndexes(content), i < n
                 PROVE  \E k \in DOMAIN rest : others[k] = i
      OBVIOUS
    <3>1. PICK k \in DOMAIN results : pick[k] = i
      BY <1>1, <1>2
    <3>2. k # m /\ k \in 1..(m - 1)
      BY <1>2, <2>1, <2>2, <2>4, <3>1 DEF m
    <3> QED BY <2>4, <3>1, <3>2
  <2>8. \A k, l \in DOMAIN rest : k < l => others[k] < others[l]
    BY <1>1, <2>4, <2>5
  <2>9. \A k \in DOMAIN rest : /\ rest[k].type = "tool_result"
                               /\ rest[k].tool_use_id = content[others[k]].id
    BY <1>1, <2>4, <2>5
  <2>10. AnswersBefore(rest, content, n)
    <3> HIDE DEF others
    <3> QED BY <2>6, <2>7, <2>8, <2>9 DEF AnswersBefore
  <2> QED BY <1>5, <2>3, <2>10 DEF rest, m
<1> QED BY <1>4, <1>5

\* The results that answer a content are, one each and in order, for the calls
\* picked from it
LEMMA AnswersGathered ==
  ASSUME NEW content \in Seq(ContentBlock), NEW results \in Seq(ContentBlock),
         AnswersAll(results, content)
  PROVE  LET calls == Picked(content, UseIndexes(content))
         IN  /\ calls \in Seq(ContentBlock)
             /\ Len(results) = Len(calls)
             /\ \A k \in 1..Len(calls) : results[k].tool_use_id = calls[k].id
<1>0. Len(content) \in Nat
  OBVIOUS
<1>1. PICK f : /\ Picks(f, content, UseIndexes(content), ContentBlock)
               /\ Picked(content, UseIndexes(content)) = f[Len(content)]
  BY PickedUpto
<1> DEFINE Match(r, calls) ==
             Len(r) = Len(calls) /\ \A k \in 1..Len(calls) : r[k].tool_use_id = calls[k].id
           Matched == {n \in 0..Len(content) :
                         \A r \in Seq(ContentBlock) :
                            AnswersBefore(r, content, n + 1) => Match(r, f[n])}
<1>2. 0 \in Matched
  <2> SUFFICES ASSUME NEW r \in Seq(ContentBlock), AnswersBefore(r, content, 1)
               PROVE  Match(r, f[0])
    BY <1>0
  <2>1. {i \in UseIndexes(content) : i < 1} = {}
    BY DEF UseIndexes
  <2>2. DOMAIN r = {}
    BY <2>1 DEF AnswersBefore
  <2> QED BY <1>1, <2>2 DEF Picks
<1>3. ASSUME NEW n \in 1..Len(content), n - 1 \in Matched PROVE n \in Matched
  <2> SUFFICES ASSUME NEW r \in Seq(ContentBlock), AnswersBefore(r, content, n + 1)
               PROVE  Match(r, f[n])
    BY <1>0
  <2>0. n \in Nat /\ (n - 1) + 1 = n /\ n \in 0..Len(content) /\ n - 1 \in 0..Len(content)
    BY <1>0
  <2>1. /\ f[n - 1] \in Seq(ContentBlock)
        /\ f[n] = IF content[n].type = "tool_use"
                    THEN Append(f[n - 1], content[n]) ELSE f[n - 1]
    <3>1. n \in UseIndexes(content) <=> content[n].type = "tool_use"
      BY DEF UseIndexes
    <3> QED BY <1>1, <2>0, <3>1 DEF Picks
  <2>2. \A s \in Seq(ContentBlock) : AnswersBefore(s, content, n) => Match(s, f[n - 1])
    BY <1>3, <2>0
  <2> HIDE DEF Matched
  <2>3. CASE content[n].type # "tool_use"
    BY <2>1, <2>2, <2>3, AnswersPeel
  <2>4. CASE content[n].type = "tool_use"
    <3> DEFINE rest == SubSeq(r, 1, Len(r) - 1)
    <3>1. /\ r # << >> /\ r[Len(r)].tool_use_id = content[n].id
          /\ AnswersBefore(rest, content, n)
      BY <2>4, AnswersPeel
    <3>2. Len(r) \in Nat /\ Len(r) > 0
      BY <3>1, EmptySeq
    <3>3. /\ rest \in Seq(ContentBlock) /\ Len(rest) = Len(r) - 1
          /\ \A k \in 1..(Len(r) - 1) : rest[k] = r[k]
      <4>1. \A k \in 1..(Len(r) - 1) : r[k] \in ContentBlock
        BY <3>2
      <4>2. PICK m : m = Len(r) - 1 /\ m \in Nat
        BY <3>2
      <4>3. /\ SubSeq(r, 1, m) \in Seq(ContentBlock)
            /\ Len(SubSeq(r, 1, m)) = m
            /\ \A k \in 1..m : SubSeq(r, 1, m)[k] = r[k]
        BY <4>1, <4>2
      <4> QED BY <4>2, <4>3
    <3> HIDE DEF rest
    <3>4. Match(rest, f[n - 1])
      <4> HIDE DEF Match
      <4> QED BY <2>2, <3>1, <3>3
    <3>5. /\ Len(f[n]) = Len(r) /\ f[n][Len(r)] = content[n]
          /\ \A k \in 1..(Len(r) - 1) : f[n][k] = f[n - 1][k]
      <4>1. PICK before : before = f[n - 1]
        OBVIOUS
      <4>2. /\ before \in Seq(ContentBlock) /\ content[n] \in ContentBlock
            /\ f[n] = Append(before, content[n]) /\ Len(before) = Len(r) - 1
        BY <2>1, <2>4, <3>2, <3>3, <3>4, <4>1
      <4>3. /\ Len(f[n]) = Len(before) + 1 /\ f[n][Len(before) + 1] = content[n]
            /\ \A k \in 1..Len(before) : f[n][k] = before[k]
        BY <4>2
      <4> QED BY <3>2, <3>3, <4>1, <4>2, <4>3
    <3>6. Len(r) = Len(f[n - 1]) + 1 /\ Len(r) \in Nat
      BY <3>2, <3>3, <3>4
    <3>7. ASSUME NEW k \in 1..Len(f[n]) PROVE r[k].tool_use_id = f[n][k].id
      <4>1. CASE k = Len(r)
        BY <3>1, <3>5, <4>1
      <4>2. CASE k # Len(r)
        <5>1. k \in 1..(Len(r) - 1) /\ k \in 1..Len(f[n - 1])
          BY <3>5, <3>6, <4>2
        <5> QED BY <3>3, <3>4, <3>5, <5>1
      <4> QED BY <4>1, <4>2
    <3> QED BY <3>5, <3>7
  <2> QED BY <2>3, <2>4
<1>4. \A n \in 0..Len(content) : n \in Matched
  <2> HIDE DEF Matched
  <2>1. \A n \in 1..Len(content) : n - 1 \in Matched => n \in Matched
    BY <1>3
  <2> QED BY <1>0, <1>2, <2>1, Counting
<1>5. Match(results, f[Len(content)])
  BY <1>0, <1>4 DEF AnswersAll
<1> QED BY <1>0, <1>1, <1>5 DEF Picks
-----------------------------------------------------------------------------
(***************************************************************************)
(* A request of the Chat Completions dialect is written message by         *)
(* message: g[n] is what has been written after n of them.                 *)
(***************************************************************************)
Writes(g, parts, S) ==
  /\ g \in [0..Len(parts) -> Seq(S)]
  /\ g[0] = << >>
  /\ \A n \in 1..Len(parts) : g[n] = g[n - 1] \o parts[n]

\* FlattenSeq writes: its recursion is well-founded
LEMMA Flattened ==
  ASSUME NEW S, NEW parts \in Seq(Seq(S))
  PROVE  \E g : Writes(g, parts, S) /\ Completions!FlattenSeq(parts) = g[Len(parts)]
<1> DEFINE len == Len(parts)
           Upto(f, n) ==
             f = [k \in 1..n |-> IF k = 1 THEN parts[k] ELSE f[k - 1] \o parts[k]]
           Good == {n \in 0..len : \E f \in [1..n -> Seq(S)] : Upto(f, n)}
<1>0. len \in Nat /\ \A n \in 1..len : parts[n] \in Seq(S)
  OBVIOUS
<1>1. 0 \in Good
  <2>1. PICK n : n = 0
    OBVIOUS
  <2> DEFINE f == [k \in 1..n |-> << >>]
  <2>2. f \in [1..n -> Seq(S)] /\ Upto(f, n)
    BY <2>1
  <2>3. n \in 0..len
    BY <1>0, <2>1
  <2> HIDE DEF f, Upto
  <2>4. n \in Good
    BY <2>2, <2>3
  <2> QED BY <2>1, <2>4
<1>2. ASSUME NEW n \in 1..len, n - 1 \in Good PROVE n \in Good
  <2>1. PICK f \in [1..(n - 1) -> Seq(S)] : Upto(f, n - 1)
    BY <1>2
  <2> DEFINE last == IF n = 1 THEN parts[n] ELSE f[n - 1] \o parts[n]
             g == [k \in 1..n |-> IF k = n THEN last ELSE f[k]]
  <2>2. last \in Seq(S)
    <3>1. n # 1 => f[n - 1] \in Seq(S) /\ f[n - 1] \o parts[n] \in Seq(S)
      BY <1>0, <2>1
    <3> QED BY <1>0, <3>1
  <2>3. g \in [1..n -> Seq(S)]
    BY <2>2
  <2>4. Upto(g, n)
    <3>1. ASSUME NEW k \in 1..n
          PROVE  g[k] = IF k = 1 THEN parts[k] ELSE g[k - 1] \o parts[k]
      <4>1. CASE k = n
        <5>1. k # 1 => g[k - 1] = f[k - 1]
          BY <4>1
        <5> QED BY <4>1, <5>1
      <4>2. CASE k # n
        <5>1. k \in 1..(n - 1) /\ k - 1 # n /\ (k # 1 => k - 1 \in 1..n)
          BY <4>2
        <5> QED BY <2>1, <4>2, <5>1
      <4> QED BY <4>1, <4>2
    <3> QED BY <3>1
  <2> HIDE DEF g, Upto
  <2> QED BY <1>0, <2>3, <2>4
<1>3. len \in Good
  <2>1. \A n \in 1..len : n - 1 \in Good => n \in Good
    BY <1>2
  <2> HIDE DEF Good
  <2>2. \A n \in 0..len : n \in Good
    BY <1>0, <1>1, <2>1, Counting
  <2> QED BY <1>0, <2>2
<1>4. PICK h \in [1..len -> Seq(S)] : Upto(h, len)
  BY <1>3
<1> DEFINE f == CHOOSE f : Upto(f, len)
           g == [n \in 0..len |-> IF n = 0 THEN << >> ELSE f[n]]
<1>5. Upto(f, len)
  BY <1>4
<1>6. Completions!FlattenSeq(parts) = IF len = 0 THEN parts ELSE f[len]
  BY DEF Completions!FlattenSeq
<1> HIDE DEF f
<1>7. \A n \in 1..len : f[n] = IF n = 1 THEN parts[n] ELSE f[n - 1] \o parts[n]
  BY <1>5
<1>8. \A n \in 1..len : f[n] \in Seq(S)
  <2> DEFINE Typed == {n \in 0..len : n = 0 \/ f[n] \in Seq(S)}
  <2>1. 0 \in Typed
    BY <1>0
  <2>2. ASSUME NEW n \in 1..len, n - 1 \in Typed PROVE n \in Typed
    <3>1. parts[n] \in Seq(S) /\ n \in 0..len /\ (n # 1 => f[n - 1] \in Seq(S))
      BY <1>0, <2>2
    <3>2. n # 1 => f[n - 1] \o parts[n] \in Seq(S)
      BY <3>1
    <3>3. f[n] \in Seq(S)
      BY <1>7, <3>1, <3>2
    <3> QED BY <3>1, <3>3
  <2>3. \A n \in 1..len : n - 1 \in Typed => n \in Typed
    BY <2>2
  <2>4. \A n \in 0..len : n \in Typed
    <3> HIDE DEF Typed
    <3> QED BY <1>0, <2>1, <2>3, Counting
  <2> QED BY <1>0, <2>4
<1>9. \A n \in 0..len : g[n] \in Seq(S)
  BY <1>0, <1>8
<1>10. ASSUME NEW n \in 1..len PROVE g[n] = g[n - 1] \o parts[n]
  <2>1. CASE n = 1
    <3>1. g[n] = parts[n] /\ g[n - 1] = << >> /\ parts[n] \in Seq(S)
      BY <1>0, <1>7, <2>1
    <3> QED BY <3>1, ConcatEmptySeq
  <2>2. CASE n # 1
    <3>1. n - 1 \in 1..len /\ n \in 0..len /\ n - 1 \in 0..len
      BY <1>0, <2>2
    <3>2. g[n] = f[n] /\ g[n - 1] = f[n - 1]
      BY <1>0, <2>2, <3>1
    <3> QED BY <1>7, <2>2, <3>2
  <2> QED BY <2>1, <2>2
<1>11. Completions!FlattenSeq(parts) = g[len]
  <2>1. CASE len = 0
    BY <1>6, <2>1
  <2>2. CASE len # 0
    BY <1>0, <1>6, <2>2
  <2> QED BY <2>1, <2>2
<1>12. g \in [0..len -> Seq(S)] /\ g[0] = << >>
  <2>1. g = [n \in 0..len |-> g[n]]
    OBVIOUS
  <2> QED BY <1>0, <1>9, <2>1
<1> HIDE DEF g
<1> QED BY <1>10, <1>11, <1>12 DEF Writes
-----------------------------------------------------------------------------
(***************************************************************************)
(* What is written keeps the rule on calls and results, but for the calls  *)
(* of the last message as long as their results are pending.               *)
(***************************************************************************)
CallsOf(message) == IF message.role = "assistant" THEN message.tool_calls ELSE << >>

WireSettled(wire, pending) ==
  /\ \A i \in 1..Len(wire) : \A k \in DOMAIN CallsOf(wire[i]) :
        \/ /\ i + k <= Len(wire)
           /\ wire[i + k].role = "tool"
           /\ wire[i + k].tool_call_id = CallsOf(wire[i])[k].id
        \/ pending /\ i = Len(wire)
  /\ \A j \in 1..Len(wire) :
        wire[j].role = "tool" => \E i \in 1..(j - 1) : j - i \in DOMAIN CallsOf(wire[i])

\* The messages a request is made of
WireMessages ==
  {Completions!SerializeMessage(message) : message \in Message}
    \cup {[role |-> "tool", tool_call_id |-> id] : id \in CallIds}
    \cup {[role |-> "system", content |-> prompt] : prompt \in Prompts}

\* Calls on the wire are a list
LEMMA CallsListed == \A wire \in WireMessages : DOMAIN CallsOf(wire) \subseteq Nat
<1> SUFFICES ASSUME NEW wire \in WireMessages PROVE DOMAIN CallsOf(wire) \subseteq Nat
  OBVIOUS
<1>1. ASSUME NEW m \in Message, wire = Completions!SerializeMessage(m)
      PROVE  DOMAIN CallsOf(wire) \subseteq Nat
  <2>1. PICK uses \in Seq(ContentBlock) : uses = Completions!Blocks(m.content, "tool_use")
    <3>1. m.content \in Seq(ContentBlock)
      BY DEF Message
    <3> QED BY <3>1, BlocksPicked, PickedType
  <2>2. DOMAIN wire.tool_calls = 1..Len(uses)
    BY <1>1, <2>1 DEF Completions!SerializeMessage
  <2> QED BY <2>1, <2>2 DEF CallsOf
<1>2. wire.role # "assistant" => DOMAIN CallsOf(wire) \subseteq Nat
  BY DEF CallsOf
<1> QED BY <1>1, <1>2 DEF WireMessages

\* A turn may follow when no result is pending; its own calls are pending then
LEMMA TurnSettles ==
  ASSUME NEW wire \in Seq(WireMessages), WireSettled(wire, FALSE),
         NEW turn \in WireMessages, turn.role # "tool", NEW pending \in BOOLEAN,
         DOMAIN CallsOf(turn) # {} => pending
  PROVE  WireSettled(wire \o <<turn>>, pending)
<1> DEFINE more == wire \o <<turn>>
           len == Len(wire)
<1>1. /\ len \in Nat /\ Len(more) = len + 1 /\ more[len + 1] = turn
      /\ \A i \in 1..len : more[i] = wire[i]
  OBVIOUS
<1>2. \A i \in 1..Len(more) : i = len + 1 \/ i \in 1..len
  BY <1>1
<1> HIDE DEF more
<1>3. ASSUME NEW i \in 1..Len(more), NEW k \in DOMAIN CallsOf(more[i])
      PROVE  \/ /\ i + k <= Len(more)
                /\ more[i + k].role = "tool"
                /\ more[i + k].tool_call_id = CallsOf(more[i])[k].id
             \/ pending /\ i = Len(more)
  <2>1. CASE i = len + 1
    <3>1. DOMAIN CallsOf(turn) # {}
      BY <1>1, <1>3, <2>1
    <3> QED BY <1>1, <2>1, <3>1
  <2>2. CASE i \in 1..len
    <3>1. more[i] = wire[i]
      BY <1>1, <2>2
    <3>2. /\ i + k <= len /\ wire[i + k].role = "tool"
          /\ wire[i + k].tool_call_id = CallsOf(wire[i])[k].id
      BY <1>3, <2>2, <3>1 DEF WireSettled
    <3>3. k \in Nat /\ i + k \in 1..len
      <4>1. DOMAIN CallsOf(wire[i]) \subseteq Nat
        BY <2>2, CallsListed
      <4> QED BY <1>1, <1>3, <2>2, <3>1, <3>2, <4>1
    <3>4. more[i + k] = wire[i + k]
      BY <1>1, <3>3
    <3>5. i + k <= Len(more)
      BY <1>1, <2>2, <3>3
    <3> QED BY <3>1, <3>2, <3>4, <3>5
  <2> QED BY <1>2, <2>1, <2>2
<1>4. ASSUME NEW j \in 1..Len(more), more[j].role = "tool"
      PROVE  \E i \in 1..(j - 1) : j - i \in DOMAIN CallsOf(more[i])
  <2>1. j \in 1..len /\ wire[j].role = "tool"
    BY <1>1, <1>2, <1>4
  <2>2. PICK i \in 1..(j - 1) : j - i \in DOMAIN CallsOf(wire[i])
    BY <2>1 DEF WireSettled
  <2>3. i \in 1..len
    BY <1>1, <2>1
  <2> QED BY <1>1, <2>2, <2>3
<1> QED BY <1>3, <1>4 DEF WireSettled, more

\* The results of the pending calls may follow
LEMMA ResultsSettle ==
  ASSUME NEW wire \in Seq(WireMessages), WireSettled(wire, TRUE), wire # << >>,
         NEW results \in Seq(WireMessages),
         LET calls == CallsOf(wire[Len(wire)])
         IN  /\ DOMAIN calls = 1..Len(results)
             /\ \A k \in 1..Len(results) :
                   results[k].role = "tool" /\ results[k].tool_call_id = calls[k].id
  PROVE  WireSettled(wire \o results, FALSE)
<1> DEFINE more == wire \o results
           len == Len(wire)
<1>0. len \in Nat /\ len > 0 /\ Len(results) \in Nat
  BY EmptySeq
<1>1. /\ Len(more) = len + Len(results)
      /\ \A i \in 1..len : more[i] = wire[i]
      /\ \A k \in 1..Len(results) : more[len + k] = results[k]
  BY <1>0
<1>2. \A i \in 1..Len(more) : i \in 1..len \/ i - len \in 1..Len(results)
  BY <1>0, <1>1
<1>3. \A k \in 1..Len(results) : CallsOf(results[k]) = << >>
  BY DEF CallsOf
<1> HIDE DEF more
<1>4. ASSUME NEW i \in 1..Len(more), NEW k \in DOMAIN CallsOf(more[i])
      PROVE  /\ i + k <= Len(more)
             /\ more[i + k].role = "tool"
             /\ more[i + k].tool_call_id = CallsOf(more[i])[k].id
  <2>1. CASE i - len \in 1..Len(results)
    <3>1. more[i] = results[i - len]
      <4>1. PICK l \in 1..Len(results) : l = i - len
        BY <2>1
      <4>2. i = len + l
        BY <1>0, <1>1, <4>1
      <4> QED BY <1>1, <4>1, <4>2
    <3> QED BY <1>3, <1>4, <2>1, <3>1
  <2>2. CASE i \in 1..len
    <3>1. more[i] = wire[i] /\ k \in Nat
      <4>1. more[i] = wire[i] /\ wire[i] \in WireMessages
        BY <1>1, <2>2
      <4> QED BY <1>4, <4>1, CallsListed
    <3>2. CASE i = len
      <4>1. k \in 1..Len(results)
        BY <1>4, <3>1, <3>2
      <4>2. more[i + k] = results[k]
        <5>1. more[len + k] = results[k]
          BY <1>1, <4>1
        <5> QED BY <3>2, <5>1
      <4>3. i + k <= Len(more)
        <5>1. k <= Len(results)
          BY <1>0, <4>1
        <5> QED BY <1>0, <1>1, <3>1, <3>2, <5>1
      <4> QED BY <3>1, <3>2, <4>1, <4>2, <4>3
    <3>3. CASE i # len
      <4>1. /\ i + k <= len /\ wire[i + k].role = "tool"
            /\ wire[i + k].tool_call_id = CallsOf(wire[i])[k].id
        BY <1>4, <2>2, <3>1, <3>3 DEF WireSettled
      <4>2. i + k \in 1..len /\ i + k <= Len(more)
        BY <1>0, <1>1, <2>2, <3>1, <4>1
      <4>3. more[i + k] = wire[i + k]
        BY <1>1, <4>2
      <4> QED BY <3>1, <4>1, <4>2, <4>3
    <3> QED BY <3>2, <3>3
  <2> QED BY <1>2, <2>1, <2>2
<1>5. ASSUME NEW j \in 1..Len(more), more[j].role = "tool"
      PROVE  \E i \in 1..(j - 1) : j - i \in DOMAIN CallsOf(more[i])
  <2>1. CASE j \in 1..len
    <3>1. PICK i \in 1..(j - 1) : j - i \in DOMAIN CallsOf(wire[i])
      BY <1>1, <1>5, <2>1 DEF WireSettled
    <3>2. i \in 1..len
      BY <1>0, <2>1
    <3> QED BY <1>1, <3>1, <3>2
  <2>2. CASE j - len \in 1..Len(results)
    <3>1. len \in 1..(j - 1) /\ len \in 1..len
      BY <1>0, <2>2
    <3>2. j - len \in DOMAIN CallsOf(more[len])
      BY <1>1, <2>2, <3>1
    <3> QED BY <3>1, <3>2
  <2> QED BY <1>2, <2>1, <2>2
<1> QED BY <1>4, <1>5 DEF WireSettled, more

\* Results in a message of their own are written one by one, as the calls of
\* the turn they answer are
LEMMA ResultsWritten ==
  ASSUME NEW m \in Message, NEW c \in Message, c.role = "assistant",
         AnswersAll(m.content, c.content)
  PROVE  LET results == Completions!SerializeToolResults(m)
             calls == CallsOf(Completions!SerializeMessage(c))
         IN  /\ results \in Seq(WireMessages)
             /\ DOMAIN calls = 1..Len(results)
             /\ \A k \in 1..Len(results) :
                   results[k].role = "tool" /\ results[k].tool_call_id = calls[k].id
<1> DEFINE uses == Picked(c.content, UseIndexes(c.content))
           blocks == m.content
<1>1. m.content \in Seq(ContentBlock) /\ c.content \in Seq(ContentBlock)
  BY DEF Message
<1>2. /\ uses \in Seq(ContentBlock) /\ Len(blocks) = Len(uses)
      /\ \A k \in 1..Len(uses) : blocks[k].tool_use_id = uses[k].id
  BY <1>1, AnswersGathered
<1>3. \A k \in DOMAIN blocks : blocks[k].type = "tool_result"
  BY DEF AnswersAll, AnswersBefore
<1>4. Completions!Blocks(blocks, "tool_result") = blocks
  <2>1. \A i \in 1..Len(blocks) : i \in {k \in DOMAIN blocks : blocks[k].type = "tool_result"}
    BY <1>1, <1>3
  <2> HIDE DEF blocks
  <2> QED BY <1>1, <2>1, PickedAll, DialectsPick DEF Completions!Blocks, blocks
<1>5. Len(blocks) \in Nat /\ DOMAIN blocks = 1..Len(blocks) /\ DOMAIN uses = 1..Len(blocks)
  BY <1>1, <1>2
<1>6. \A k \in 1..Len(blocks) : blocks[k].tool_use_id \in CallIds
  <2>1. ASSUME NEW block \in ContentBlock, block.type = "tool_result"
        PROVE  block.tool_use_id \in CallIds
    BY <2>1 DEF ContentBlock, TextBlocks, ToolUseBlocks, ToolResultBlocks
  <2> QED BY <1>1, <1>3, <1>5, <2>1
<1>7. Completions!SerializeToolResults(m)
        = [k \in 1..Len(blocks) |-> [role |-> "tool", tool_call_id |-> blocks[k].tool_use_id]]
  BY <1>4, <1>5 DEF Completions!SerializeToolResults
<1>8. CallsOf(Completions!SerializeMessage(c))
        = [k \in 1..Len(blocks) |-> Completions!WireCall(uses[k])]
  <2>1. /\ Completions!SerializeMessage(c).role = "assistant"
        /\ Completions!SerializeMessage(c).tool_calls
             = [k \in DOMAIN uses |-> Completions!WireCall(uses[k])]
    BY BlocksPicked DEF Completions!SerializeMessage
  <2> HIDE DEF uses, blocks
  <2> QED BY <1>5, <2>1 DEF CallsOf
<1>9. \A k \in 1..Len(blocks) : Completions!WireCall(uses[k]).id = uses[k].id
  BY DEF Completions!WireCall
<1> DEFINE results == Completions!SerializeToolResults(m)
           calls == CallsOf(Completions!SerializeMessage(c))
<1> HIDE DEF blocks, uses
<1>10. results \in Seq(WireMessages) /\ Len(results) = Len(blocks)
  <2>1. \A k \in 1..Len(blocks) :
           [role |-> "tool", tool_call_id |-> blocks[k].tool_use_id] \in WireMessages
    BY <1>6 DEF WireMessages
  <2>2. PICK n \in Nat : n = Len(blocks)
    BY <1>5
  <2> QED BY <1>7, <2>1, <2>2
<1>11. \A k \in 1..Len(blocks) : /\ results[k].role = "tool"
                                 /\ results[k].tool_call_id = blocks[k].tool_use_id
  BY <1>7
<1>12. DOMAIN calls = 1..Len(blocks) /\ \A k \in 1..Len(blocks) : calls[k].id = uses[k].id
  BY <1>8, <1>9
<1> HIDE DEF results, calls
<1>13. \A k \in 1..Len(blocks) : results[k].tool_call_id = calls[k].id
  BY <1>2, <1>5, <1>11, <1>12
<1> QED BY <1>10, <1>11, <1>12, <1>13 DEF results, calls

\* A turn of any other role is one message, with calls where the turn has calls
LEMMA TurnWritten ==
  ASSUME NEW m \in Message
  PROVE  LET turn == Completions!SerializeMessage(m)
         IN  /\ turn \in WireMessages /\ turn.role = m.role
             /\ DOMAIN CallsOf(turn) # {} => HasToolUse(m)
<1> DEFINE turn == Completions!SerializeMessage(m)
<1>1. turn \in WireMessages
  BY DEF WireMessages
<1>2. turn.role = m.role
  BY DEF Completions!SerializeMessage
<1>3. ASSUME ~ HasToolUse(m) PROVE DOMAIN CallsOf(turn) = {}
  <2>1. m.content \in Seq(ContentBlock)
    BY DEF Message
  <2>2. \A i \in DOMAIN m.content : m.content[i].type # "tool_use"
    BY <1>3 DEF HasToolUse, UseIndexes
  <2>3. Completions!Blocks(m.content, "tool_use") = << >>
    <3>1. \A i \in 1..Len(m.content) : i \notin UseIndexes(m.content)
      BY <2>2 DEF UseIndexes
    <3> QED BY <2>1, <3>1, PickedNone, BlocksPicked
  <2>4. DOMAIN turn.tool_calls = {}
    BY <2>3 DEF Completions!SerializeMessage
  <2> QED BY <2>4 DEF CallsOf
<1> QED BY <1>1, <1>2, <1>3

\* In a transcript whose calls are answered, the calls of a turn that is not
\* the last are the assistant's, and no result turn has calls
LEMMA TurnsOfPaired ==
  ASSUME NEW messages \in Seq(Message), WellPaired(messages)
  PROVE  /\ \A i \in DOMAIN messages : HasToolUse(messages[i]) =>
               /\ i + 1 \in DOMAIN messages
               /\ messages[i].role = "assistant" /\ messages[i + 1].role = "tool"
               /\ AnswersAll(messages[i + 1].content, messages[i].content)
         /\ \A i \in DOMAIN messages : messages[i].role = "tool" =>
               /\ i - 1 \in DOMAIN messages
               /\ messages[i - 1].role = "assistant" /\ HasToolUse(messages[i - 1])
<1>1. ASSUME NEW i \in DOMAIN messages, HasToolUse(messages[i])
      PROVE  /\ i + 1 \in DOMAIN messages
             /\ messages[i].role = "assistant" /\ messages[i + 1].role = "tool"
             /\ AnswersAll(messages[i + 1].content, messages[i].content)
  <2>1. /\ i + 1 \in DOMAIN messages /\ messages[i + 1].role = "tool"
        /\ AnswersAll(messages[i + 1].content, messages[i].content)
    BY <1>1 DEF WellPaired, Answered
  <2>2. PICK j : j = i + 1 /\ j - 1 = i
    OBVIOUS
  <2>3. messages[i].role = "assistant"
    BY <2>1, <2>2 DEF WellPaired, ResultsFollowCalls
  <2> QED BY <2>1, <2>3
<1> QED BY <1>1 DEF WellPaired, ResultsFollowCalls

\* A transcript whose calls are answered is, in the Chat Completions dialect,
\* a request the backend accepts
LEMMA OpenAiAccepts ==
  ASSUME NEW conv \in Conversation, WellPaired(conv.messages)
  PROVE  Completions!OpenAiAcceptable(Completions!OpenAiRequest(conv))
<1> DEFINE messages == conv.messages
           len == Len(messages)
           parts == [i \in DOMAIN messages |->
                       IF messages[i].role = "tool"
                         THEN Completions!SerializeToolResults(messages[i])
                         ELSE <<Completions!SerializeMessage(messages[i])>>]
           system == Completions!SystemMessages(conv)
           Open(n) == n > 0 /\ HasToolUse(messages[n])
<1>1. messages \in Seq(Message) /\ len \in Nat /\ DOMAIN messages = 1..len
  BY DEF Conversation
<1>2. system \in Seq(WireMessages) /\ WireSettled(system, FALSE)
  <2>1. CASE conv.system_prompt = NoPrompt
    <3>1. system = << >>
      BY <2>1 DEF Completions!SystemMessages
    <3> HIDE DEF system
    <3> QED BY <3>1 DEF WireSettled
  <2>2. CASE conv.system_prompt # NoPrompt
    <3>1. PICK message : message = [role |-> "system", content |-> conv.system_prompt]
      OBVIOUS
    <3>2. system = <<message>>
      BY <2>2, <3>1 DEF Completions!SystemMessages
    <3>3. message \in WireMessages
      BY <2>2, <3>1 DEF Conversation, WireMessages
    <3>4. message.role = "system" /\ CallsOf(message) = << >>
      BY <3>1 DEF CallsOf
    <3> HIDE DEF system
    <3>5. Len(system) = 1 /\ system[1] = message /\ system \in Seq(WireMessages)
      BY <3>2, <3>3
    <3> QED BY <3>4, <3>5 DEF WireSettled
  <2> QED BY <2>1, <2>2
<1>3. /\ \A i \in 1..len : HasToolUse(messages[i]) =>
            /\ i + 1 \in 1..len
            /\ messages[i].role = "assistant" /\ messages[i + 1].role = "tool"
            /\ AnswersAll(messages[i + 1].content, messages[i].content)
      /\ \A i \in 1..len : messages[i].role = "tool" =>
            /\ i - 1 \in 1..len
            /\ messages[i - 1].role = "assistant" /\ HasToolUse(messages[i - 1])
  BY <1>1, TurnsOfPaired
<1>4. \A i \in 1..len : messages[i] \in Message
  BY <1>1
<1> HIDE DEF messages, system
<1>5. ASSUME NEW i \in 1..len PROVE parts[i] \in Seq(WireMessages)
  <2>1. CASE messages[i].role = "tool"
    <3>1. PICK j : j = i - 1 /\ j + 1 = i /\ j \in 1..len
      BY <1>3, <2>1
    <3>2. /\ messages[j].role = "assistant"
          /\ AnswersAll(messages[i].content, messages[j].content)
      BY <1>3, <2>1, <3>1
    <3>3. Completions!SerializeToolResults(messages[i]) \in Seq(WireMessages)
      BY <1>4, <3>1, <3>2, ResultsWritten
    <3> QED BY <1>1, <2>1, <3>3
  <2>2. CASE messages[i].role # "tool"
    <3>1. PICK turn \in WireMessages : turn = Completions!SerializeMessage(messages[i])
      BY <1>4, TurnWritten
    <3> QED BY <1>1, <2>2, <3>1
  <2> QED BY <2>1, <2>2
<1>6. parts \in Seq(Seq(WireMessages)) /\ Len(parts) = len
  BY <1>1, <1>5
<1>7. PICK g : Writes(g, parts, WireMessages) /\ Completions!FlattenSeq(parts) = g[len]
  BY <1>6, Flattened
<1> DEFINE h(n) == system \o g[n]
           Good == {n \in 0..len :
                      /\ WireSettled(h(n), Open(n))
                      /\ Open(n) => /\ h(n) # << >>
                                    /\ h(n)[Len(h(n))] = Completions!SerializeMessage(messages[n])}
<1>8. 0 \in Good
  <2>1. ~ Open(0)
    OBVIOUS
  <2>2. h(0) = system
    BY <1>2, <1>7, ConcatEmptySeq DEF Writes
  <2> HIDE DEF h, Open
  <2>3. WireSettled(h(0), Open(0))
    BY <1>2, <2>1, <2>2 DEF WireSettled
  <2> QED BY <1>1, <2>1, <2>3
<1>9. \A n \in 0..len : g[n] \in Seq(WireMessages) /\ h(n) \in Seq(WireMessages)
  BY <1>2, <1>6, <1>7 DEF Writes
<1>10. ASSUME NEW n \in 1..len PROVE h(n) = h(n - 1) \o parts[n]
  <2>1. g[n] = g[n - 1] \o parts[n] /\ n - 1 \in 0..len
    <3> HIDE DEF parts
    <3>1. \A k \in 1..Len(parts) : g[k] = g[k - 1] \o parts[k]
      BY <1>7 DEF Writes
    <3>2. n - 1 \in 0..len
      BY <1>1
    <3> QED BY <1>6, <3>1, <3>2
  <2>2. system \o (g[n - 1] \o parts[n]) = (system \o g[n - 1]) \o parts[n]
    <3>1. PICK first, part \in Seq(WireMessages) : first = g[n - 1] /\ part = parts[n]
      BY <1>5, <1>9, <2>1
    <3>2. system \o (first \o part) = (system \o first) \o part
      BY SMTT(20), <1>2, ConcatAssociative
    <3> QED BY <3>1, <3>2
  <2> QED BY <2>1, <2>2
<1> HIDE DEF h
<1>11. ASSUME NEW n \in 1..len, n - 1 \in Good PROVE n \in Good
  <2>0. PICK before : before = n - 1 /\ before + 1 = n /\ before \in 0..len
    BY <1>1
  <2>1. /\ h(before) \in Seq(WireMessages) /\ WireSettled(h(before), Open(before))
        /\ Open(before) =>
              /\ h(before) # << >>
              /\ h(before)[Len(h(before))] = Completions!SerializeMessage(messages[before])
    BY <1>9, <1>11, <2>0
  <2>2. h(n) = h(before) \o parts[n]
    BY <1>10, <2>0
  <2>3. CASE messages[n].role = "tool"
    <3>1. /\ before \in 1..len /\ messages[before].role = "assistant"
          /\ HasToolUse(messages[before])
          /\ AnswersAll(messages[n].content, messages[before].content)
      BY <1>3, <2>0, <2>3
    <3>2. PICK results : results = Completions!SerializeToolResults(messages[n])
      OBVIOUS
    <3>3. parts[n] = results
      BY <1>1, <2>3, <3>2
    <3>4. Open(before) /\ ~ Open(n)
      BY <1>1, <1>3, <2>3, <3>1
    <3>5. PICK c : c = Completions!SerializeMessage(messages[before])
      OBVIOUS
    <3>6. /\ results \in Seq(WireMessages)
          /\ DOMAIN CallsOf(c) = 1..Len(results)
          /\ \A k \in 1..Len(results) :
                results[k].role = "tool" /\ results[k].tool_call_id = CallsOf(c)[k].id
      BY <1>4, <3>1, <3>2, <3>5, ResultsWritten
    <3> HIDE DEF Open, parts
    <3>7. WireSettled(h(before), TRUE) /\ h(before) # << >> /\ h(before)[Len(h(before))] = c
      BY <2>1, <3>4, <3>5 DEF WireSettled
    <3>8. WireSettled(h(before) \o results, FALSE)
      BY <2>1, <3>6, <3>7, ResultsSettle
    <3>9. WireSettled(h(n), Open(n))
      BY <2>2, <3>3, <3>4, <3>8 DEF WireSettled
    <3> QED BY <1>1, <3>4, <3>9
  <2>4. CASE messages[n].role # "tool"
    <3>1. ~ Open(before)
      BY <1>1, <1>3, <2>0, <2>4
    <3>2. PICK turn : turn = Completions!SerializeMessage(messages[n])
      OBVIOUS
    <3>3. parts[n] = <<turn>>
      BY <1>1, <2>4, <3>2
    <3>4. /\ turn \in WireMessages /\ turn.role # "tool"
          /\ DOMAIN CallsOf(turn) # {} => HasToolUse(messages[n])
      BY <1>4, <2>4, <3>2, TurnWritten
    <3>5. Open(n) = HasToolUse(messages[n]) /\ Open(n) \in BOOLEAN
      BY <1>1 DEF HasToolUse
    <3> HIDE DEF Open, parts
    <3>6. WireSettled(h(before), FALSE)
      BY <2>1, <3>1 DEF WireSettled
    <3>7. WireSettled(h(before) \o <<turn>>, Open(n))
      BY <2>1, <3>4, <3>5, <3>6, TurnSettles
    <3>8. h(n) # << >> /\ h(n)[Len(h(n))] = turn
      BY <2>1, <2>2, <3>3, <3>4
    <3>9. WireSettled(h(n), Open(n))
      BY <2>2, <3>3, <3>7
    <3> QED BY <1>1, <3>2, <3>8, <3>9
  <2> QED BY <2>3, <2>4
<1>12. len \in Good
  <2>1. \A n \in 1..len : n - 1 \in Good => n \in Good
    BY <1>11
  <2> HIDE DEF Good
  <2>2. \A n \in 0..len : n \in Good
    BY <1>1, <1>8, <2>1, Counting
  <2> QED BY <1>1, <2>2
<1>13. WireSettled(h(len), FALSE)
  <2>1. ~ Open(len)
    BY <1>1, <1>3
  <2> HIDE DEF Open
  <2> QED BY <1>12, <2>1 DEF WireSettled
<1>14. Completions!OpenAiRequest(conv) = h(len)
  <2>1. Completions!TurnMessages(conv) = Completions!FlattenSeq(parts)
    BY DEF Completions!TurnMessages, messages
  <2> HIDE DEF parts
  <2> QED BY <1>7, <2>1 DEF Completions!OpenAiRequest, h, system
<1>15. PICK wire \in Seq(WireMessages) : wire = h(len)
  BY <1>1, <1>9
<1>16. Completions!OpenAiAcceptable(wire)
  <2>1. WireSettled(wire, FALSE)
    BY <1>13, <1>15
  <2>2. ASSUME NEW i \in DOMAIN wire, NEW k \in DOMAIN CallsOf(wire[i])
        PROVE  /\ i + k \in DOMAIN wire
               /\ wire[i + k].role = "tool"
               /\ wire[i + k].tool_call_id = CallsOf(wire[i])[k].id
    <3>1. /\ i + k <= Len(wire) /\ wire[i + k].role = "tool"
          /\ wire[i + k].tool_call_id = CallsOf(wire[i])[k].id
      BY <2>1 DEF WireSettled
    <3>2. DOMAIN CallsOf(wire[i]) \subseteq Nat
      BY CallsListed
    <3> QED BY <2>2, <3>1, <3>2
  <2>3. \A j \in DOMAIN wire : wire[j].role = "tool" =>
           {i \in 1..(j - 1) : j - i \in DOMAIN CallsOf(wire[i])} # {}
    <3>1. DOMAIN wire = 1..Len(wire)
      OBVIOUS
    <3>2. \A j \in 1..Len(wire) : wire[j].role = "tool" =>
             \E i \in 1..(j - 1) : j - i \in DOMAIN CallsOf(wire[i])
      BY <2>1 DEF WireSettled
    <3> QED BY <3>1, <3>2
  <2> QED BY <2>2, <2>3 DEF Completions!OpenAiAcceptable, CallsOf
<1> QED BY <1>14, <1>15, <1>16
-----------------------------------------------------------------------------
(***************************************************************************)
(* A request of the Messages dialect has a message for each of the         *)
(* transcript's, and a block for each of its blocks.                       *)
(***************************************************************************)

\* A block is written as a block of its type, with the id of its call
LEMMA BlockWritten ==
  ASSUME NEW block \in ContentBlock
  PROVE  LET wire == MessagesApi!WireBlock(block)
         IN  /\ wire.type = block.type
             /\ block.type = "tool_use" => wire.id = block.id
             /\ block.type = "tool_result" => wire.tool_use_id = block.tool_use_id
<1>1. CASE block \in TextBlocks
  BY <1>1 DEF TextBlocks, MessagesApi!WireBlock
<1>2. CASE block \in ToolUseBlocks
  BY <1>2 DEF ToolUseBlocks, MessagesApi!WireBlock
<1>3. CASE block \in ToolResultBlocks
  BY <1>3 DEF ToolResultBlocks, MessagesApi!WireBlock
<1> QED BY <1>1, <1>2, <1>3 DEF ContentBlock

\* A transcript whose calls are answered, by tool messages only, is a request
\* the Messages backend accepts
LEMMA AnthropicAccepts ==
  ASSUME NEW conv \in Conversation, WellPaired(conv.messages), RolesFit(conv.messages)
  PROVE  MessagesApi!AnthropicAcceptable(MessagesApi!AnthropicRequest(conv))
<1> DEFINE messages == conv.messages
           wire == MessagesApi!AnthropicRequest(conv)
           Parts(i, type) == {wire[i].content[k] : k \in {k \in DOMAIN wire[i].content :
                                                            wire[i].content[k].type = type}}
           Called(i) == {block.id : block \in Parts(i, "tool_use")}
           Results(i) == {block.tool_use_id : block \in Parts(i, "tool_result")}
           Uses(i) == UseIndexes(messages[i].content)
           Given(i) == {k \in DOMAIN messages[i].content :
                          messages[i].content[k].type = "tool_result"}
<1>1. /\ messages \in Seq(Message) /\ Len(messages) \in Nat
      /\ \A i \in DOMAIN messages : messages[i] \in Message
  BY DEF Conversation
<1>2. /\ DOMAIN wire = DOMAIN messages
      /\ \A i \in DOMAIN messages : wire[i] = MessagesApi!WireMessage(messages[i])
  BY DEF MessagesApi!AnthropicRequest
<1> HIDE DEF messages, wire
<1>3. ASSUME NEW i \in DOMAIN messages
      PROVE  /\ wire[i].role = IF messages[i].role = "tool" THEN "user" ELSE messages[i].role
             /\ DOMAIN wire[i].content = DOMAIN messages[i].content
             /\ \A k \in DOMAIN messages[i].content :
                   /\ messages[i].content[k] \in ContentBlock
                   /\ wire[i].content[k] = MessagesApi!WireBlock(messages[i].content[k])
  BY <1>1, <1>2 DEF MessagesApi!WireMessage, MessagesApi!WireRole, Message
<1>4. ASSUME NEW i \in DOMAIN messages
      PROVE  Called(i) = {messages[i].content[k].id : k \in Uses(i)}
  <2>1. \A k \in DOMAIN messages[i].content :
           /\ wire[i].content[k].type = messages[i].content[k].type
           /\ k \in Uses(i) => wire[i].content[k].id = messages[i].content[k].id
    BY <1>3, BlockWritten DEF UseIndexes
  <2>2. {k \in DOMAIN wire[i].content : wire[i].content[k].type = "tool_use"} = Uses(i)
    BY <1>3, <2>1 DEF UseIndexes
  <2>3. Parts(i, "tool_use") = {wire[i].content[k] : k \in Uses(i)}
    BY <2>2
  <2>4. \A k \in Uses(i) : wire[i].content[k].id = messages[i].content[k].id
    BY <2>1 DEF UseIndexes
  <2>5. PICK from, to, S : from = messages[i].content /\ to = wire[i].content /\ S = Uses(i)
    OBVIOUS
  <2>6. Called(i) = {block.id : block \in {to[k] : k \in S}}
    BY <2>3, <2>5
  <2>7. \A k \in S : to[k].id = from[k].id
    BY <2>4, <2>5
  <2>8. {block.id : block \in {to[k] : k \in S}} = {from[k].id : k \in S}
    BY <2>7
  <2> QED BY <2>5, <2>6, <2>8
<1>5. ASSUME NEW i \in DOMAIN messages
      PROVE  Results(i) = {messages[i].content[k].tool_use_id : k \in Given(i)}
  <2>1. \A k \in DOMAIN messages[i].content :
           /\ wire[i].content[k].type = messages[i].content[k].type
           /\ k \in Given(i) => wire[i].content[k].tool_use_id = messages[i].content[k].tool_use_id
    BY <1>3, BlockWritten
  <2>2. {k \in DOMAIN wire[i].content : wire[i].content[k].type = "tool_result"} = Given(i)
    BY <1>3, <2>1
  <2>3. Parts(i, "tool_result") = {wire[i].content[k] : k \in Given(i)}
    BY <2>2
  <2>4. \A k \in Given(i) :
           wire[i].content[k].tool_use_id = messages[i].content[k].tool_use_id
    BY <2>1
  <2>5. PICK from, to, S : from = messages[i].content /\ to = wire[i].content /\ S = Given(i)
    OBVIOUS
  <2>6. Results(i) = {block.tool_use_id : block \in {to[k] : k \in S}}
    BY <2>3, <2>5
  <2>7. \A k \in S : to[k].tool_use_id = from[k].tool_use_id
    BY <2>4, <2>5
  <2>8. {block.tool_use_id : block \in {to[k] : k \in S}} = {from[k].tool_use_id : k \in S}
    BY <2>7
  <2> QED BY <2>5, <2>6, <2>8
<1>6. ASSUME NEW i \in DOMAIN messages, Uses(i) # {}
      PROVE  /\ i + 1 \in DOMAIN messages /\ messages[i + 1].role = "tool"
             /\ Results(i + 1) = Called(i)
  <2>1. /\ i + 1 \in DOMAIN messages /\ messages[i + 1].role = "tool"
        /\ AnswersAll(messages[i + 1].content, messages[i].content)
    BY <1>6 DEF WellPaired, Answered, HasToolUse, messages
  <2>2. PICK results, content : results = messages[i + 1].content /\ content = messages[i].content
    OBVIOUS
  <2>3. content \in Seq(ContentBlock) /\ Len(content) \in Nat
    BY <1>1, <2>2 DEF Message
  <2>4. \A k \in UseIndexes(content) : k < Len(content) + 1
    BY <2>3 DEF UseIndexes
  <2>5. PICK pick \in [DOMAIN results -> UseIndexes(content)] :
           /\ \A k \in DOMAIN results : /\ results[k].type = "tool_result"
                                        /\ results[k].tool_use_id = content[pick[k]].id
           /\ \A k \in UseIndexes(content) : \E l \in DOMAIN results : pick[l] = k
    <3>1. PICK pick \in [DOMAIN results -> {k \in UseIndexes(content) : k < Len(content) + 1}] :
             /\ \A k \in DOMAIN results : /\ results[k].type = "tool_result"
                                          /\ results[k].tool_use_id = content[pick[k]].id
             /\ \A k \in UseIndexes(content) :
                   k < Len(content) + 1 => \E l \in DOMAIN results : pick[l] = k
      BY <2>1, <2>2 DEF AnswersAll, AnswersBefore
    <3> QED BY <2>4, <3>1
  <2>6. {results[k].tool_use_id : k \in DOMAIN results}
          = {content[k].id : k \in UseIndexes(content)}
    BY <2>5
  <2>7. Given(i + 1) = DOMAIN results
    BY <2>2, <2>5
  <2>8. Results(i + 1) = {results[k].tool_use_id : k \in DOMAIN results}
    <3>1. Results(i + 1) = {messages[i + 1].content[k].tool_use_id : k \in Given(i + 1)}
      BY <1>5, <2>1
    <3> HIDE DEF Results, Given
    <3> QED BY <2>2, <2>7, <3>1
  <2>9. Called(i) = {content[k].id : k \in UseIndexes(content)}
    <3>1. Called(i) = {messages[i].content[k].id : k \in UseIndexes(messages[i].content)}
      BY <1>4, <1>6
    <3> HIDE DEF Called
    <3> QED BY <2>2, <3>1
  <2> HIDE DEF Results, Called
  <2> QED BY <2>1, <2>6, <2>8, <2>9
<1>7. ASSUME NEW i \in DOMAIN messages, Given(i) # {}
      PROVE  i > 1 /\ i - 1 \in DOMAIN messages /\ Uses(i - 1) # {}
  <2>1. messages[i].role = "tool"
    BY <1>7 DEF RolesFit, RoleFits, messages
  <2>2. i - 1 \in DOMAIN messages /\ HasToolUse(messages[i - 1])
    BY <2>1 DEF WellPaired, ResultsFollowCalls, messages
  <2>3. i > 1
    BY <1>1, <2>2
  <2> QED BY <2>2, <2>3 DEF HasToolUse
<1>8. \A i \in DOMAIN messages : wire[i].role \in {"user", "assistant"}
  <2>1. \A i \in DOMAIN messages : messages[i].role \in Roles \ {"system"}
    BY <1>1 DEF Message, RolesFit, RoleFits, messages
  <2> QED BY <1>3, <2>1 DEF Roles
<1>9. ASSUME NEW i \in DOMAIN wire
      PROVE  /\ wire[i].role \in {"user", "assistant"}
             /\ Called(i) # {} => /\ i + 1 \in DOMAIN wire
                                  /\ wire[i + 1].role = "user"
                                  /\ Results(i + 1) = Called(i)
             /\ Results(i) # {} => i > 1 /\ Called(i - 1) # {}
  <2>0. i \in DOMAIN messages
    BY <1>2
  <2>1. Called(i) # {} => Uses(i) # {}
    BY <1>4, <2>0
  <2>2. Results(i) # {} => Given(i) # {}
    BY <1>5, <2>0
  <2> HIDE DEF Called, Results, Uses, Given
  <2>3. Called(i) # {} => /\ i + 1 \in DOMAIN wire
                          /\ wire[i + 1].role = "user"
                          /\ Results(i + 1) = Called(i)
    BY <1>2, <1>3, <1>6, <2>0, <2>1
  <2>4. Results(i) # {} => i > 1 /\ Called(i - 1) # {}
    <3>1. Results(i) # {} => i > 1 /\ i - 1 \in DOMAIN messages /\ Uses(i - 1) # {}
      BY <1>7, <2>0, <2>2
    <3>2. ASSUME NEW j \in DOMAIN messages, Uses(j) # {} PROVE Called(j) # {}
      <4>1. PICK k : k \in Uses(j)
        BY <3>2
      <4>2. messages[j].content[k].id \in Called(j)
        BY <1>4, <4>1
      <4> QED BY <4>2
    <3> QED BY <3>1, <3>2
  <2> QED BY <1>8, <2>0, <2>3, <2>4
<1> QED BY <1>9 DEF MessagesApi!AnthropicAcceptable, wire

\* A message that fits keeps a transcript fitting
LEMMA RolesAppend ==
  ASSUME NEW conv \in Conversation, RolesFit(conv.messages),
         NEW message \in Message, RoleFits(message)
  PROVE  RolesFit(Add(conv, message).messages)
<1>1. conv.messages \in Seq(Message) /\ Add(conv, message).messages = Append(conv.messages, message)
  BY AddProperties DEF Conversation
<1>2. PICK messages \in Seq(Message) : messages = conv.messages
  BY <1>1
<1>3. \A i \in DOMAIN Append(messages, message) :
         \/ i \in DOMAIN messages /\ Append(messages, message)[i] = messages[i]
         \/ Append(messages, message)[i] = message
  OBVIOUS
<1> QED BY <1>1, <1>2, <1>3 DEF RolesFit
-----------------------------------------------------------------------------
(***************************************************************************)
(* Floating-point numbers: Doubles at any precision.                       *)
(***************************************************************************)

\* Powers of two, which count the subsets of a set
LEMMA Powers ==
  /\ 2 ^ 0 = 1
  /\ \A n \in Nat : 2 ^ n \in Nat /\ 2 ^ n >= 1 /\ 2 ^ (n + 1) = 2 * 2 ^ n
<1>1. ASSUME NEW n \in Nat
      PROVE  IsFiniteSet(1..n) /\ Cardinality(1..n) = n /\ IsFiniteSet(SUBSET (1..n))
             /\ Cardinality(SUBSET (1..n)) = 2 ^ n
  <2>1. IsFiniteSet(1..n) /\ Cardinality(1..n) = n
    BY FS_Interval
  <2> QED BY <2>1, FS_SUBSET
<1>2. 2 ^ 0 = 1
  <2>1. SUBSET (1..0) = {{}}
    OBVIOUS
  <2>2. Cardinality(SUBSET (1..0)) = 1
    BY <2>1, FS_Singleton
  <2> QED BY <1>1, <2>2
<1>3. ASSUME NEW n \in Nat PROVE 2 ^ n \in Nat /\ 2 ^ n >= 1 /\ 2 ^ (n + 1) = 2 * 2 ^ n
  <2> DEFINE Old == SUBSET (1..n)
             New == {X \cup {n + 1} : X \in Old}
             f == [X \in Old |-> X \cup {n + 1}]
  <2>1. IsFiniteSet(Old) /\ Cardinality(Old) = 2 ^ n /\ Cardinality(Old) \in Nat
    BY <1>1, FS_CardinalityType
  <2>2. Cardinality(SUBSET (1..(n + 1))) = 2 ^ (n + 1)
    <3>1. n + 1 \in Nat
      OBVIOUS
    <3> QED BY <1>1, <3>1
  <2>3. SUBSET (1..(n + 1)) = Old \cup New
    <3>1. ASSUME NEW X \in SUBSET (1..(n + 1)) PROVE X \in Old \cup New
      <4>1. CASE n + 1 \in X
        <5>1. X = (X \ {n + 1}) \cup {n + 1} /\ X \ {n + 1} \in Old
          BY <4>1
        <5> QED BY <5>1
      <4>2. CASE n + 1 \notin X
        BY <4>2
      <4> QED BY <4>1, <4>2
    <3>2. \A X \in Old \cup New : X \in SUBSET (1..(n + 1))
      OBVIOUS
    <3> QED BY <3>1, <3>2
  <2>4. f \in Bijection(Old, New)
    <3>1. f \in [Old -> New] /\ \A Y \in New : \E X \in Old : f[X] = Y
      OBVIOUS
    <3>2. \A X, Y \in Old : f[X] = f[Y] => X = Y
      <4>1. \A X \in Old : X = f[X] \ {n + 1}
        OBVIOUS
      <4> QED BY <4>1
    <3> QED BY <3>1, <3>2 DEF Bijection, Injection, Surjection, IsInjective
  <2>5. ExistsBijection(Old, New)
    BY <2>4 DEF ExistsBijection
  <2>6. IsFiniteSet(New) /\ Cardinality(New) = Cardinality(Old)
    <3> HIDE DEF Old, New
    <3> QED BY <2>1, <2>5, FS_Bijection
  <2>7. Old \cap New = {}
    OBVIOUS
  <2>8. Cardinality(Old \cup New) = Cardinality(Old) + Cardinality(New) - Cardinality(Old \cap New)
    <3> HIDE DEF Old, New
    <3> QED BY <2>1, <2>6, FS_Union
  <2>9. Cardinality(Old) # 0
    <3>1. Old # {}
      OBVIOUS
    <3> HIDE DEF Old
    <3> QED BY <2>1, <3>1, FS_EmptySet
  <2>10. 2 ^ (n + 1) = 2 ^ n + 2 ^ n
    <3> HIDE DEF Old, New
    <3>1. Cardinality(Old \cup New) = 2 ^ (n + 1) /\ Cardinality(Old \cap New) = 0
      BY <2>2, <2>3, <2>7, FS_EmptySet
    <3> QED BY <2>1, <2>6, <2>8, <3>1
  <2> HIDE DEF Old
  <2> QED BY <2>1, <2>9, <2>10
<1> QED BY <1>2, <1>3

LEMMA PowersGrow ==
  ASSUME NEW m \in Nat, NEW n \in Nat, m < n
  PROVE  2 * 2 ^ m <= 2 ^ n
<1> DEFINE Far == {k \in 0..(n - m - 1) : 2 * 2 ^ m <= 2 ^ (m + 1 + k)}
<1>1. 0 \in Far
  BY Powers
<1>2. ASSUME NEW k \in 1..(n - m - 1), k - 1 \in Far PROVE k \in Far
  <2>1. PICK a \in Nat : a = m + 1 + (k - 1) /\ a + 1 = m + 1 + k
    OBVIOUS
  <2>2. 2 * 2 ^ m <= 2 ^ a
    BY <1>2, <2>1
  <2>3. 2 ^ (a + 1) = 2 * 2 ^ a /\ 2 ^ a \in Nat /\ 2 ^ m \in Nat
    BY Powers
  <2> QED BY <2>1, <2>2, <2>3
<1>3. n - m - 1 \in Nat
  OBVIOUS
<1>4. n - m - 1 \in Far
  <2>1. \A k \in 1..(n - m - 1) : k - 1 \in Far => k \in Far
    BY <1>2
  <2> HIDE DEF Far
  <2>2. \A k \in 0..(n - m - 1) : k \in Far
    BY <1>1, <1>3, <2>1, Counting
  <2> QED BY <1>3, <2>2
<1>5. m + 1 + (n - m - 1) = n
  OBVIOUS
<1> QED BY <1>4, <1>5

LEMMA PowersBeyond ==
  ASSUME NEW n \in Nat
  PROVE  n < 2 ^ n
<1> DEFINE Small == {k \in 0..n : k < 2 ^ k}
<1>1. 0 \in Small
  BY Powers
<1>2. ASSUME NEW k \in 1..n, k - 1 \in Small PROVE k \in Small
  <2>1. PICK a \in Nat : a = k - 1 /\ a + 1 = k
    OBVIOUS
  <2>2. a < 2 ^ a /\ 2 ^ (a + 1) = 2 * 2 ^ a /\ 2 ^ a \in Nat
    BY <1>2, <2>1, Powers
  <2> QED BY <2>1, <2>2
<1>3. n \in Small
  <2>1. \A k \in 1..n : k - 1 \in Small => k \in Small
    BY <1>2
  <2> HIDE DEF Small
  <2>2. \A k \in 0..n : k \in Small
    BY <1>1, <2>1, Counting
  <2> QED BY <2>2
<1> QED BY <1>3

\* Every integer is in one binade
LEMMA UlpOf ==
  ASSUME NEW h \in Int, NEW p \in Nat \ {0}
  PROVE  \E e \in Nat : Ulp(h, p) = 2 ^ e /\ Binade(h, p, e)
<1> DEFINE n == Abs(h)
           Above == {e \in 0..n : 2 ^ (p + e) <= n}
<1>1. n \in Nat
  BY DEF Abs
<1>2. \E e \in 0..n : Binade(h, p, e)
  <2> SUFFICES ASSUME \A e \in 0..n : ~ Binade(h, p, e) PROVE FALSE
    OBVIOUS
  <2>1. \A e \in 0..n : 2 ^ (p + e) \in Nat
    BY <1>1, Powers
  <2>2. 0 \in Above
    <3>1. ~ (n < 2 ^ (p + 0))
      BY <1>1 DEF Binade
    <3>2. 0 \in 0..n
      BY <1>1
    <3> QED BY <1>1, <2>1, <3>1, <3>2
  <2>3. ASSUME NEW e \in 1..n, e - 1 \in Above PROVE e \in Above
    <3>1. 2 ^ (p + (e - 1)) <= n /\ p + (e - 1) = p + e - 1
      BY <2>3
    <3>2. e \in 0..n /\ e # 0 /\ ~ Binade(h, p, e)
      BY <1>1
    <3>3. ~ (n < 2 ^ (p + e))
      BY <3>1, <3>2 DEF Binade
    <3> QED BY <1>1, <2>1, <3>2, <3>3
  <2>4. n \in Above
    <3>1. \A e \in 1..n : e - 1 \in Above => e \in Above
      BY <2>3
    <3> HIDE DEF Above, n
    <3>2. \A e \in 0..n : e \in Above
      BY <1>1, <2>2, <3>1, Counting
    <3> QED BY <1>1, <3>2
  <2>5. n < 2 ^ n /\ 2 ^ n <= 2 ^ (p + n)
    <3>1. p + n \in Nat /\ n < p + n
      BY <1>1
    <3>2. 2 * 2 ^ n <= 2 ^ (p + n) /\ 2 ^ n \in Nat /\ 2 ^ (p + n) \in Nat
      BY <1>1, <3>1, PowersGrow, Powers
    <3> QED BY <1>1, <3>2, PowersBeyond
  <2>6. 2 ^ (p + n) <= n /\ 2 ^ n \in Nat /\ 2 ^ (p + n) \in Nat
    BY <1>1, <2>1, <2>4, Powers
  <2> QED BY <1>1, <2>5, <2>6
<1>3. PICK e \in 0..n : e = CHOOSE d \in 0..n : Binade(h, p, d)
  BY <1>2
<1>4. Binade(h, p, e)
  BY <1>2, <1>3
<1>5. Ulp(h, p) = 2 ^ e
  BY <1>3, Zenon DEF Ulp
<1>6. e \in Nat
  BY <1>1
<1> QED BY <1>4, <1>5, <1>6

LEMMA UlpIs ==
  ASSUME NEW h \in Int, NEW p \in Nat \ {0}, NEW e \in Nat, Binade(h, p, e)
  PROVE  Ulp(h, p) = 2 ^ e
<1>1. PICK d \in Nat : Ulp(h, p) = 2 ^ d /\ Binade(h, p, d)
  BY UlpOf
<1>2. ASSUME NEW a \in Nat, NEW b \in Nat, Binade(h, p, a), Binade(h, p, b), a < b
      PROVE  FALSE
  <2>1. PICK n \in Nat : n = Abs(h)
    BY DEF Abs
  <2>2. n < 2 ^ (p + a) /\ 2 ^ (p + b - 1) <= n
    BY <1>2, <2>1 DEF Binade
  <2>3. p + a \in Nat /\ p + b - 1 \in Nat /\ (p + a = p + b - 1 \/ p + a < p + b - 1)
    BY <1>2
  <2>4. 2 ^ (p + a) \in Nat /\ 2 ^ (p + b - 1) \in Nat
    BY <2>3, Powers
  <2>5. 2 ^ (p + a) <= 2 ^ (p + b - 1)
    <3>1. CASE p + a < p + b - 1
      <4>1. 2 * 2 ^ (p + a) <= 2 ^ (p + b - 1)
        BY <2>3, <3>1, PowersGrow
      <4> QED BY <2>4, <4>1
    <3> QED BY <2>3, <2>4, <3>1
  <2> QED BY <2>2, <2>4, <2>5
<1>3. d = e
  BY <1>1, <1>2
<1> QED BY <1>1, <1>3

\* The nearest double is one of the two around h
LEMMA NearestBounds ==
  ASSUME NEW h \in Int, NEW p \in Nat \ {0}
  PROVE  \E q \in Int, e \in Nat :
            /\ Ulp(h, p) = 2 ^ e /\ 2 ^ e * q <= h /\ h < 2 ^ e * q + 2 ^ e
            /\ Nearest(h, p) = 2 ^ e * q \/ (Nearest(h, p) = 2 ^ e * q + 2 ^ e /\ 2 ^ e * q # h)
<1>1. PICK e \in Nat : Ulp(h, p) = 2 ^ e
  BY UlpOf
<1>2. PICK ulp \in Nat \ {0} : ulp = 2 ^ e
  BY Powers
<1>3. PICK q \in Int : q = h \div ulp
  OBVIOUS
<1>4. PICK below \in Int : below = ulp * q
  OBVIOUS
<1>5. below <= h /\ h < below + ulp
  BY <1>3, <1>4
<1>6. Nearest(h, p) = IF 2 * (h - below) < ulp \/ (2 * (h - below) = ulp /\ q % 2 = 0)
                        THEN below ELSE below + ulp
  BY <1>1, <1>2, <1>3, <1>4 DEF Nearest
<1>7. Nearest(h, p) = below \/ (Nearest(h, p) = below + ulp /\ below # h)
  BY <1>5, <1>6
<1> QED BY <1>1, <1>2, <1>4, <1>5, <1>7

\* What is a multiple of the distance is a double
LEMMA NearestOfMultiple ==
  ASSUME NEW h \in Int, NEW p \in Nat \ {0}, NEW m \in Int, h = Ulp(h, p) * m
  PROVE  Nearest(h, p) = h
<1>1. PICK e \in Nat : Ulp(h, p) = 2 ^ e
  BY UlpOf
<1>2. PICK ulp \in Nat \ {0} : ulp = 2 ^ e
  BY Powers
<1>3. h = ulp * m
  BY <1>1, <1>2
<1>4. h \div ulp = m
  BY <1>3
<1>5. Nearest(h, p) = IF 2 * (h - ulp * m) < ulp \/ (2 * (h - ulp * m) = ulp /\ m % 2 = 0)
                        THEN ulp * m ELSE ulp * m + ulp
  BY <1>1, <1>2, <1>4 DEF Nearest
<1> QED BY <1>3, <1>5

\* Powers multiply
LEMMA PowersMultiply ==
  ASSUME NEW m \in Nat, NEW n \in Nat
  PROVE  2 ^ m * 2 ^ n = 2 ^ (m + n)
<1> DEFINE Good == {k \in 0..n : 2 ^ m * 2 ^ k = 2 ^ (m + k)}
<1>1. 0 \in Good
  <2>1. 2 ^ m \in Nat /\ 2 ^ 0 = 1 /\ m + 0 = m
    BY Powers
  <2> QED BY <2>1
<1>2. ASSUME NEW k \in 1..n, k - 1 \in Good PROVE k \in Good
  <2>1. PICK j \in Nat : j = k - 1 /\ j + 1 = k /\ m + j + 1 = m + k
    OBVIOUS
  <2>2. PICK a \in Nat, b \in Nat, c \in Nat : a = 2 ^ m /\ b = 2 ^ j /\ c = 2 ^ (m + j)
    BY Powers
  <2>3. a * b = c
    BY <1>2, <2>1, <2>2
  <2>4. 2 ^ k = 2 * b /\ 2 ^ (m + k) = 2 * c
    BY <2>1, <2>2, Powers
  <2>5. a * (2 * b) = 2 * (a * b)
    OBVIOUS
  <2> QED BY <2>2, <2>3, <2>4, <2>5
<1>3. n \in Good
  <2>1. \A k \in 1..n : k - 1 \in Good => k \in Good
    BY <1>2
  <2> HIDE DEF Good
  <2>2. \A k \in 0..n : k \in Good
    BY <1>1, <2>1, Counting
  <2> QED BY <2>2
<1> QED BY <1>3

\* Powers of two, and what they bound in size, are doubles
LEMMA NearestOfPower ==
  ASSUME NEW h \in Int, NEW p \in Nat \ {0}, NEW n \in Nat, p <= n, Abs(h) = 2 ^ n
  PROVE  Nearest(h, p) = h
<1>1. PICK e \in Nat : e = n - p + 1 /\ p + e = n + 1 /\ p + e - 1 = n /\ e + (p - 1) = n
  OBVIOUS
<1>2. 2 ^ (n + 1) = 2 * 2 ^ n /\ 2 ^ n \in Nat /\ 2 ^ n >= 1
  BY Powers
<1>3. Binade(h, p, e)
  BY <1>1, <1>2 DEF Binade
<1>4. Ulp(h, p) = 2 ^ e
  BY <1>3, UlpIs
<1>5. PICK a \in Nat, b \in Nat : a = 2 ^ e /\ b = 2 ^ (p - 1)
  <2>1. p - 1 \in Nat
    OBVIOUS
  <2> QED BY <2>1, Powers
<1>6. a * b = 2 ^ n
  <2>1. p - 1 \in Nat
    OBVIOUS
  <2>2. 2 ^ e * 2 ^ (p - 1) = 2 ^ (e + (p - 1))
    BY <2>1, PowersMultiply
  <2> QED BY <1>1, <1>5, <2>2
<1>7. CASE h >= 0
  <2>1. h = Ulp(h, p) * b
    BY <1>4, <1>5, <1>6, <1>7 DEF Abs
  <2> QED BY <2>1, NearestOfMultiple
<1>8. CASE h < 0
  <2>1. PICK m \in Int : m = -b /\ a * m = -(a * b)
    OBVIOUS
  <2>2. h = Ulp(h, p) * m
    BY <1>4, <1>5, <1>6, <1>8, <2>1 DEF Abs
  <2> QED BY <2>2, NearestOfMultiple
<1> QED BY <1>7, <1>8

\* Integers a double can tell from their neighbours are doubles (in halves)
LEMMA NearestOfInteger ==
  ASSUME NEW n \in Int, NEW p \in Nat \ {0}, Abs(n) <= 2 ^ p
  PROVE  Nearest(2 * n, p) = 2 * n
<1>1. PICK a \in Nat : /\ a = 2 ^ p /\ a >= 1 /\ 2 ^ (p + 0) = a /\ 2 ^ (p + 1) = 2 * a
                       /\ 2 ^ (p + 1 - 1) = a
  <2>1. p + 0 = p /\ p + 1 - 1 = p
    OBVIOUS
  <2> QED BY <2>1, Powers
<1>2. PICK h \in Int : h = 2 * n
  OBVIOUS
<1>3. CASE Abs(h) < a
  <2>1. Binade(h, p, 0)
    BY <1>1, <1>3 DEF Binade
  <2>2. Ulp(h, p) = 1
    BY <2>1, UlpIs, Powers
  <2>3. h = Ulp(h, p) * h
    BY <2>2
  <2> QED BY <1>2, <2>3, NearestOfMultiple
<1>4. CASE a <= Abs(h) /\ Abs(h) < 2 * a
  <2>1. Binade(h, p, 1)
    BY <1>1, <1>4 DEF Binade
  <2>2. 2 ^ 1 = 2
    <3>1. 2 ^ (0 + 1) = 2 * 2 ^ 0
      BY Powers
    <3> QED BY <3>1, Powers
  <2>3. Ulp(h, p) = 2
    BY <2>1, <2>2, UlpIs
  <2>4. h = Ulp(h, p) * n
    BY <1>2, <2>3
  <2> QED BY <1>2, <2>4, NearestOfMultiple
<1>5. CASE Abs(h) = 2 * a
  <2>1. Abs(h) = 2 ^ (p + 1)
    BY <1>1, <1>5
  <2> QED BY <1>2, <2>1, NearestOfPower
<1>6. Abs(h) <= 2 * a
  BY <1>1, <1>2 DEF Abs
<1> QED BY <1>3, <1>4, <1>5, <1>6 DEF Abs

\* Factors keep the order
LEMMA TimesOrder ==
  ASSUME NEW u \in Nat \ {0}, NEW a \in Int, NEW b \in Int
  PROVE  /\ a <= b <=> u * a <= u * b
         /\ a < b <=> u * a < u * b
<1>1. a <= b => u * a <= u * b
  OBVIOUS
<1>2. a < b => u * a < u * b
  OBVIOUS
<1>3. b < a => u * b < u * a
  OBVIOUS
<1>4. b <= a => u * b <= u * a
  OBVIOUS
<1>5. u * a \in Int /\ u * b \in Int
  OBVIOUS
<1> QED BY <1>1, <1>2, <1>3, <1>4, <1>5

\* The greatest integer of a width is a double, or rounded up to the power next
\* to it
LEMMA NearestOfGreatest ==
  ASSUME NEW p \in Nat \ {0}, NEW w \in Nat, p < w
  PROVE  /\ Nearest(2 ^ w - 2, p) \in Int
         /\ 2 ^ w - 2 ^ (w - p) <= Nearest(2 ^ w - 2, p)
         /\ Nearest(2 ^ w - 2, p) \in {2 ^ w, 2 ^ w - 2}
<1>1. PICK d \in Nat : d = w - p /\ p + d = w /\ d + p = w /\ p + d - 1 = w - 1 /\ d # 0
  OBVIOUS
<1>2. PICK U \in Nat, P \in Nat, W \in Nat, H \in Nat :
         U = 2 ^ d /\ P = 2 ^ p /\ W = 2 ^ w /\ H = 2 ^ (w - 1)
  BY Powers
<1>3. U * P = W /\ W = 2 * H /\ U >= 2 /\ H >= 2
  <2>1. U * P = W
    BY <1>1, <1>2, PowersMultiply
  <2>2. w - 1 \in Nat /\ w - 1 + 1 = w
    BY <1>1
  <2>3. W = 2 * H
    BY <1>2, <2>2, Powers
  <2>4. 2 * 2 ^ 0 <= U /\ 2 * 2 ^ 0 <= H
    <3>1. 0 < d /\ 0 < w - 1
      BY <1>1
    <3> QED BY <1>2, <2>2, <3>1, PowersGrow
  <2> QED BY <2>1, <2>3, <2>4, Powers
<1>4. PICK h \in Int : h = W - 2 /\ Abs(h) = h
  BY <1>3 DEF Abs
<1>5. Binade(h, p, d)
  BY <1>1, <1>2, <1>3, <1>4 DEF Binade
<1>6. Ulp(h, p) = U
  BY <1>2, <1>5, UlpIs
<1>7. PICK q \in Int : /\ U * q <= h /\ h < U * q + U
                       /\ Nearest(h, p) = U * q \/ Nearest(h, p) = U * q + U
  <2>1. PICK q \in Int, e \in Nat :
           /\ Ulp(h, p) = 2 ^ e /\ 2 ^ e * q <= h /\ h < 2 ^ e * q + 2 ^ e
           /\ Nearest(h, p) = 2 ^ e * q \/ (Nearest(h, p) = 2 ^ e * q + 2 ^ e /\ 2 ^ e * q # h)
    BY NearestBounds
  <2> QED BY <1>6, <2>1
<1>8. U * q = W - U
  <2>1. q < P
    <3>1. ASSUME q >= P PROVE FALSE
      <4>1. U * q >= U * P
        BY <3>1
      <4> QED BY <1>3, <1>4, <1>7, <4>1
    <3> QED BY <3>1
  <2>2. q >= P - 1
    <3>1. ASSUME q <= P - 2 PROVE FALSE
      <4>1. U * q <= U * (P - 2)
        BY <3>1
      <4>2. U * (P - 2) = U * P - 2 * U
        OBVIOUS
      <4> QED BY <1>3, <1>4, <1>7, <4>1, <4>2
    <3> QED BY <3>1
  <2>3. q = P - 1 /\ U * (P - 1) = U * P - U
    BY <2>1, <2>2
  <2> QED BY <1>3, <2>3
<1>9. Nearest(h, p) \in {W - U, W}
  <2>1. PICK x \in Int : x = U * q
    OBVIOUS
  <2> QED BY <1>7, <1>8, <2>1
<1>10. U # 3
  <2>1. PICK c \in Nat : c = d - 1 /\ c + 1 = d
    BY <1>1
  <2>2. U = 2 * 2 ^ c /\ 2 ^ c \in Nat
    BY <1>2, <2>1, Powers
  <2> QED BY <2>2
<1>11. Nearest(h, p) \in {W, W - 2}
  <2>1. CASE U = 2
    BY <1>9, <2>1
  <2>2. CASE U # 2
    <3>1. PICK x \in Int : x = U * q /\ x = W - U
      BY <1>8
    <3>2. h = U * q + (U - 2)
      BY <1>4, <3>1
    <3>3. h \div U = q
      BY <1>3, <3>2
    <3>4. Nearest(h, p) = IF 2 * (h - x) < U \/ (2 * (h - x) = U /\ q % 2 = 0)
                            THEN x ELSE x + U
      BY <1>6, <3>1, <3>3 DEF Nearest
    <3>5. h - x = U - 2
      BY <1>4, <3>1
    <3>6. q % 2 # 0
      <4>1. PICK R \in Nat : P = 2 * R
        <5>1. PICK v \in Nat : v = p - 1 /\ v + 1 = p
          OBVIOUS
        <5> QED BY <1>2, <5>1, Powers
      <4>2. U * (P - 1) = U * P - U
        OBVIOUS
      <4>3. PICK y \in Int : y = U * (P - 1) /\ y = x
        BY <1>3, <3>1, <4>2
      <4>4. U * q <= U * (P - 1) /\ U * (P - 1) <= U * q
        BY <3>1, <4>3
      <4>5. U \in Nat \ {0} /\ P - 1 \in Int
        BY <1>3
      <4>6. q <= P - 1 /\ P - 1 <= q
        BY <4>4, <4>5, TimesOrder
      <4>7. q = 2 * (R - 1) + 1
        BY <4>1, <4>6
      <4> QED BY <4>7
    <3>7. ~ (2 * (h - x) < U \/ (2 * (h - x) = U /\ q % 2 = 0))
      BY <1>3, <1>10, <2>2, <3>5, <3>6
    <3> QED BY <3>1, <3>4, <3>7
  <2> QED BY <2>1, <2>2
<1> QED BY <1>1, <1>2, <1>3, <1>4, <1>9, <1>11

\* The nearest double is a double
LEMMA NearestTwice ==
  ASSUME NEW h \in Int, NEW p \in Nat \ {0}
  PROVE  Nearest(h, p) \in Int /\ Nearest(Nearest(h, p), p) = Nearest(h, p)
<1>1. PICK q \in Int, e \in Nat :
         /\ Ulp(h, p) = 2 ^ e /\ 2 ^ e * q <= h /\ h < 2 ^ e * q + 2 ^ e
         /\ Nearest(h, p) = 2 ^ e * q \/ (Nearest(h, p) = 2 ^ e * q + 2 ^ e /\ 2 ^ e * q # h)
  BY NearestBounds
<1>2. PICK u \in Nat \ {0}, P \in Nat, Q \in Nat : u = 2 ^ e /\ P = 2 ^ p /\ Q = 2 ^ (p - 1)
  <2>1. p - 1 \in Nat
    OBVIOUS
  <2> QED BY <2>1, Powers
<1>3. P = 2 * Q /\ u * P = 2 ^ (p + e) /\ u * Q = 2 ^ (p + e - 1)
  <2>1. PICK k \in Nat : k = p - 1 /\ k + 1 = p /\ e + p = p + e /\ e + k = p + e - 1
    OBVIOUS
  <2>2. 2 ^ (k + 1) = 2 * 2 ^ k
    BY Powers
  <2>3. 2 ^ e * 2 ^ p = 2 ^ (e + p) /\ 2 ^ e * 2 ^ k = 2 ^ (e + k)
    BY PowersMultiply
  <2> QED BY <1>2, <2>1, <2>2, <2>3
<1>4. Abs(h) < u * P /\ (e = 0 \/ Abs(h) >= u * Q)
  <2>1. PICK d \in Nat : Ulp(h, p) = 2 ^ d /\ Binade(h, p, d)
    BY UlpOf
  <2>2. d = e
    <3>1. CASE d < e
      <4>1. 2 * 2 ^ d <= 2 ^ e /\ 2 ^ d \in Nat /\ 2 ^ d >= 1
        BY <3>1, PowersGrow, Powers
      <4> QED BY <1>1, <2>1, <4>1
    <3>2. CASE e < d
      <4>1. 2 * 2 ^ e <= 2 ^ d /\ 2 ^ e \in Nat /\ 2 ^ e >= 1
        BY <3>2, PowersGrow, Powers
      <4> QED BY <1>1, <2>1, <4>1
    <3> QED BY <3>1, <3>2
  <2> QED BY <1>3, <2>1, <2>2 DEF Binade
<1>5. PICK m \in Int : /\ Nearest(h, p) = u * m /\ (m = q \/ m = q + 1)
                       /\ m = q + 1 => u * q # h
  <2>1. u * (q + 1) = u * q + u
    OBVIOUS
  <2>2. CASE Nearest(h, p) = u * q
    BY <2>2
  <2>3. CASE Nearest(h, p) # u * q
    <3>1. Nearest(h, p) = u * (q + 1) /\ u * q # h /\ q + 1 \in Int
      BY <1>1, <1>2, <2>1, <2>3
    <3> QED BY <3>1
  <2> QED BY <2>2, <2>3
<1>6. PICK r \in Int : r = u * m
  OBVIOUS
<1>7. u * q <= h /\ h < u * (q + 1)
  <2>1. u * (q + 1) = u * q + u
    OBVIOUS
  <2> QED BY <1>1, <1>2, <2>1
<1>8. -P <= m /\ m <= P
  <2>1. u * (-P) = -(u * P)
    OBVIOUS
  <2>2. u * (-P) < u * (q + 1) /\ u * q < u * P
    <3>1. PICK b \in Int, x \in Int, y \in Int : b = u * P /\ x = u * q /\ y = u * (q + 1)
      OBVIOUS
    <3>2. -b < h /\ h < b
      BY <1>4, <3>1 DEF Abs
    <3> QED BY <1>7, <2>1, <3>1, <3>2
  <2>3. -P < q + 1 /\ q < P
    BY <2>2, TimesOrder
  <2> QED BY <1>5, <2>3
<1>9. CASE m = P \/ m = -P
  <2>1. r = u * P \/ r = -(u * P)
    <3>1. u * (-P) = -(u * P)
      OBVIOUS
    <3> QED BY <1>6, <1>9, <3>1
  <2>2. PICK b \in Nat : b = u * P
    OBVIOUS
  <2>3. Abs(r) = 2 ^ (p + e)
    BY <1>3, <2>1, <2>2 DEF Abs
  <2>4. p + e \in Nat /\ p <= p + e
    OBVIOUS
  <2> QED BY <1>5, <1>6, <2>3, <2>4, NearestOfPower
<1>10. CASE -P < m /\ m < P
  <2>1. PICK b \in Int, c \in Int : b = u * P /\ c = u * Q
    OBVIOUS
  <2>2. -b < r /\ r < b
    <3>1. u * (-P) = -(u * P) /\ u * (-P) < u * m /\ u * m < u * P
      BY <1>10, TimesOrder
    <3> QED BY <1>6, <2>1, <3>1
  <2>3. ASSUME h >= c PROVE r >= c
    <3>1. u * Q < u * (q + 1)
      <4>1. PICK y \in Int : y = u * (q + 1)
        OBVIOUS
      <4> QED BY <1>7, <2>1, <2>3, <4>1
    <3>2. Q <= m
      <4>1. Q < q + 1
        BY <3>1, TimesOrder
      <4> QED BY <1>5, <4>1
    <3>3. u * Q <= u * m
      BY <3>2, TimesOrder
    <3> QED BY <1>6, <2>1, <3>3
  <2>4. ASSUME h <= -c PROVE r <= -c
    <3>1. u * (-Q) = -c
      BY <2>1
    <3>2. u * q <= u * (-Q)
      <4>1. PICK x \in Int : x = u * q
        OBVIOUS
      <4> QED BY <1>7, <2>4, <3>1, <4>1
    <3>3. q <= -Q
      BY <3>2, TimesOrder
    <3>4. m <= -Q
      <4>1. CASE q = -Q
        <5>1. u * q = h
          BY <1>7, <2>4, <3>1, <4>1
        <5> QED BY <1>5, <4>1, <5>1
      <4>2. CASE q < -Q
        BY <1>5, <4>2
      <4> QED BY <3>3, <4>1, <4>2
    <3>5. u * m <= u * (-Q)
      BY <3>4, TimesOrder
    <3> QED BY <1>6, <3>1, <3>5
  <2>5. e = 0 \/ Abs(r) >= c
    BY <1>4, <2>1, <2>3, <2>4 DEF Abs
  <2>6. Binade(r, p, e)
    BY <1>3, <2>1, <2>2, <2>5 DEF Binade, Abs
  <2>7. Ulp(r, p) = u
    BY <1>2, <2>6, UlpIs
  <2> QED BY <1>5, <1>6, <2>7, NearestOfMultiple
<1> QED BY <1>5, <1>6, <1>8, <1>9, <1>10

\* The integers of a width among the doubles: the least of them is one, the
\* greatest is one or rounded to its successor, and those a double can tell from
\* their neighbours are not above it
LEMMA IntegerRange ==
  ASSUME NEW p \in Nat \ {0}, NEW w \in Nat, p < w
  PROVE  /\ 2 * (-(2 ^ (w - 1))) = -(2 ^ w) /\ 2 ^ (w - 1) \in Nat \ {0} /\ 2 ^ w = 2 * 2 ^ (w - 1)
         /\ 2 * (2 ^ (w - 1) - 1) = 2 ^ w - 2
         /\ Nearest(-(2 ^ w), p) = -(2 ^ w)
         /\ Nearest(2 ^ w - 2, p) \in Int /\ Nearest(2 ^ w - 2, p) \in {2 ^ w, 2 ^ w - 2}
         /\ 2 ^ p <= 2 ^ (w - 1) /\ 2 ^ p \in Nat
         /\ \A n \in Int : n <= 2 ^ p /\ n < 2 ^ (w - 1) => 2 * n <= Nearest(2 ^ w - 2, p)
<1>1. PICK v \in Nat : v = w - 1 /\ v + 1 = w /\ p <= v
  OBVIOUS
<1>2. PICK H \in Nat \ {0} : H = 2 ^ v /\ 2 ^ w = 2 * H
  BY <1>1, Powers
<1>3. Nearest(-(2 ^ w), p) = -(2 ^ w)
  <2>1. Abs(-(2 ^ w)) = 2 ^ w /\ -(2 ^ w) \in Int
    BY <1>2 DEF Abs
  <2> QED BY <1>1, <2>1, NearestOfPower
<1>4. /\ Nearest(2 ^ w - 2, p) \in Int /\ Nearest(2 ^ w - 2, p) \in {2 ^ w, 2 ^ w - 2}
      /\ 2 ^ w - 2 ^ (w - p) <= Nearest(2 ^ w - 2, p)
  BY NearestOfGreatest
<1>5. PICK P \in Nat \ {0}, U \in Nat : P = 2 ^ p /\ U = 2 ^ (w - p) /\ P * U = 2 * H /\ U >= 2 /\ P >= 2
  <2>1. PICK d \in Nat : d = w - p /\ p + d = w /\ 0 < d
    BY <1>1
  <2>2. 2 ^ p * 2 ^ d = 2 ^ w
    BY <2>1, PowersMultiply
  <2>3. 2 * 2 ^ 0 <= 2 ^ d /\ 2 * 2 ^ 0 <= 2 ^ p /\ 2 ^ 0 = 1 /\ 2 ^ d \in Nat /\ 2 ^ p \in Nat
    BY <2>1, PowersGrow, Powers
  <2> QED BY <1>2, <2>1, <2>2, <2>3
<1>6. P <= H
  <2>1. CASE p = v
    BY <1>2, <1>5, <2>1
  <2>2. CASE p < v
    <3>1. 2 * 2 ^ p <= 2 ^ v
      BY <2>2, PowersGrow
    <3> QED BY <1>2, <1>5, <3>1
  <2> QED BY <1>1, <2>1, <2>2
<1>7. ASSUME NEW n \in Int, n <= P, n < H
      PROVE  2 * n <= Nearest(2 ^ w - 2, p)
  <2>1. 2 * n <= 2 * H - U
    <3>1. CASE U = 2
      BY <1>7, <3>1
    <3>2. CASE U >= 4
      <4>1. PICK V \in Nat : U = 4 + V
        BY <3>2
      <4>2. P * U = 4 * P + P * V /\ P * V >= V
        BY <4>1
      <4> QED BY <1>5, <1>7, <4>1, <4>2
    <3>3. U # 3
      <4>1. CASE w - p = 1
        BY <1>5, <4>1, Powers
      <4>2. CASE w - p # 1
        <5>1. w - p \in Nat /\ 1 < w - p
          BY <1>1, <4>2
        <5>2. 2 * 2 ^ 1 <= 2 ^ (w - p)
          BY <5>1, PowersGrow
        <5>3. 2 * 2 ^ 0 <= 2 ^ 1
          BY PowersGrow
        <5>4. 2 ^ 0 = 1 /\ 2 ^ 1 \in Nat
          BY Powers
        <5> QED BY <1>5, <5>2, <5>3, <5>4
      <4> QED BY <4>1, <4>2
    <3> QED BY <1>5, <3>1, <3>2, <3>3
  <2>2. 2 * H - U <= Nearest(2 ^ w - 2, p)
    BY <1>2, <1>4, <1>5
  <2> QED BY <1>2, <1>4, <1>5, <2>1, <2>2
<1> QED BY <1>1, <1>2, <1>3, <1>4, <1>5, <1>6, <1>7

\* The range of Json::integer_t, and of the doubles that are taken for one
LEMMA IntegerTypes ==
  /\ MinInt \in Int /\ MaxInt \in Int /\ MinInt < 0 /\ 0 <= MaxInt
  /\ Rounded(2 * MinInt) = 2 * MinInt
  /\ Rounded(2 * MaxInt) \in Int /\ Rounded(2 * MaxInt) \in {2 * MaxInt, 2 * MaxInt + 2}
  /\ \A n \in MinInt .. MaxInt : n <= 2 ^ Precision => 2 * n <= Rounded(2 * MaxInt)
  /\ Overflowed \in {MinInt, MaxInt} /\ Overflowed \in MinInt .. MaxInt
<1>1. PICK H \in Nat \ {0}, W \in Nat, P \in Nat :
        H = 2 ^ (Width - 1) /\ W = 2 ^ Width /\ P = 2 ^ Precision /\ W = 2 * H
  BY JsonAssumption, IntegerRange
<1>2. MinInt = -H /\ MaxInt = H - 1 /\ 2 * MinInt = -W /\ 2 * MaxInt = W - 2
  BY <1>1 DEF MinInt, MaxInt
<1>3. /\ Nearest(-W, Precision) = -W
      /\ Nearest(W - 2, Precision) \in Int /\ Nearest(W - 2, Precision) \in {W, W - 2}
      /\ \A n \in Int : n <= P /\ n < H => 2 * n <= Nearest(W - 2, Precision)
  BY <1>1, JsonAssumption, IntegerRange
<1>4. Rounded(2 * MinInt) = -W /\ Rounded(2 * MaxInt) = Nearest(W - 2, Precision)
  BY <1>2, <1>3 DEF Rounded
<1>5. \A n \in MinInt .. MaxInt : n \in Int /\ n < H
  BY <1>2
<1> HIDE DEF MinInt, MaxInt
<1>6. \A n \in MinInt .. MaxInt : n <= 2 ^ Precision => 2 * n <= Rounded(2 * MaxInt)
  BY <1>1, <1>3, <1>4, <1>5
<1>7. Rounded(2 * MinInt) = 2 * MinInt
  BY <1>2, <1>4
<1> QED BY <1>1, <1>2, <1>3, <1>4, <1>6, <1>7, JsonAssumption

\* The number that is parsed
LEMMA NumberParsed ==
  ASSUME NEW h \in Int
  PROVE  \E d \in Int :
            /\ d = Rounded(h) /\ Rounded(d) = d
            /\ \/ /\ d % 2 = 0
                  /\ \E n \in MinInt .. MaxInt :
                        /\ FromGenericScalar(Number(h)) = Integer(n)
                        /\ d # 2 * (MaxInt + 1) => 2 * n = d
               \/ FromGenericScalar(Number(h)) = Number(d)
<1>1. PICK d \in Int : d = Rounded(h) /\ Rounded(d) = d
  BY JsonAssumption, NearestTwice DEF Rounded
<1>2. FromGenericScalar(Number(h)) = IF FitsInteger(d) THEN Integer(Cast(d \div 2)) ELSE Number(d)
  BY <1>1 DEF FromGenericScalar, Number
<1>3. CASE ~ FitsInteger(d)
  BY <1>1, <1>2, <1>3
<1>4. CASE FitsInteger(d)
  <2>1. d % 2 = 0 /\ 2 * MinInt <= d /\ d <= 2 * MaxInt + 2
    BY <1>4, IntegerTypes DEF FitsInteger
  <2>2. PICK n \in Int : n = d \div 2 /\ 2 * n = d
    BY <2>1
  <2>3. Cast(n) \in MinInt .. MaxInt
    BY IntegerTypes DEF Cast
  <2>4. d # 2 * (MaxInt + 1) => Cast(n) = n
    <3>1. PICK least \in Int, greatest \in Int : least = MinInt /\ greatest = MaxInt
      BY IntegerTypes
    <3>2. d # 2 * (greatest + 1) => n \in least .. greatest
      BY <2>1, <2>2, <3>1
    <3> QED BY <3>1, <3>2 DEF Cast
  <2> QED BY <1>1, <1>2, <1>4, <2>1, <2>2, <2>3, <2>4
<1> QED BY <1>3, <1>4

-----------------------------------------------------------------------------
(***************************************************************************)
(* What is read of a text and written back: the text, as doubles tell it.  *)
(***************************************************************************)
LEMMA ScalarWrittenBack ==
  ASSUME NEW j, ScalarText(j), InDouble(j) # Number(2 * (MaxInt + 1))
  PROVE  WrittenScalar(FromGenericScalar(j)) = InDouble(j)
<1>1. CASE j.kind # "number"
  <2>1. j.kind \in {"null", "boolean", "string"}
    BY <1>1 DEF ScalarText, NullValue, Boolean, String
  <2> QED BY <2>1 DEF FromGenericScalar, WrittenScalar, InDouble
<1>2. CASE j.kind = "number"
  <2>1. PICK h \in Int : j = Number(h)
    BY <1>2 DEF ScalarText, NullValue, Boolean, String
  <2>2. PICK d \in Int :
          /\ d = Rounded(h)
          /\ \/ /\ d % 2 = 0
                /\ \E n \in MinInt .. MaxInt :
                      /\ FromGenericScalar(Number(h)) = Integer(n)
                      /\ d # 2 * (MaxInt + 1) => 2 * n = d
             \/ FromGenericScalar(Number(h)) = Number(d)
    BY NumberParsed
  <2>3. InDouble(j) = Number(d)
    BY <2>1, <2>2 DEF InDouble, Number
  <2>4. d # 2 * (MaxInt + 1)
    BY <2>3
  <2>5. \A n : WrittenScalar(Integer(n)) = Number(2 * n) /\ WrittenScalar(Number(n)) = Number(n)
    BY DEF WrittenScalar, Integer, Number
  <2> QED BY <2>1, <2>2, <2>3, <2>4, <2>5
<1> QED BY <1>1, <1>2

LEMMA WrittenBack ==
  ASSUME NEW j, JsonText(j), Castable(InDoubles(j))
  PROVE  Written(FromGeneric(j)) = InDoubles(j)
<1>1. PICK greatest : greatest = Number(2 * (MaxInt + 1))
  OBVIOUS
<1>2. CASE j.kind = "object" /\ \A key \in DOMAIN j.members : ScalarText(j.members[key])
  <2>1. PICK read, told :
          /\ read = [key \in DOMAIN j.members |-> FromGenericScalar(j.members[key])]
          /\ told = [key \in DOMAIN j.members |-> InDouble(j.members[key])]
    OBVIOUS
  <2>2. FromGeneric(j) = Object(read) /\ InDoubles(j) = Object(told)
    BY <1>2, <2>1 DEF FromGeneric, InDoubles, Leafwise
  <2>3. \A key \in DOMAIN j.members : told[key] # greatest
    BY <1>1, <2>1, <2>2 DEF Castable, Leaves, Object
  <2>4. \A key \in DOMAIN j.members : WrittenScalar(read[key]) = told[key]
    BY <1>1, <1>2, <2>1, <2>3, ScalarWrittenBack
  <2>5. Written(Object(read)) = Object([key \in DOMAIN read |-> WrittenScalar(read[key])])
    BY DEF Written, Leafwise, Object
  <2>6. [key \in DOMAIN read |-> WrittenScalar(read[key])] = told
    BY <2>1, <2>4
  <2> QED BY <2>2, <2>5, <2>6
<1>3. CASE j.kind = "array" /\ \A k \in DOMAIN j.elems : ScalarText(j.elems[k])
  <2>1. PICK read, told :
          /\ read = [k \in DOMAIN j.elems |-> FromGenericScalar(j.elems[k])]
          /\ told = [k \in DOMAIN j.elems |-> InDouble(j.elems[k])]
    OBVIOUS
  <2>2. FromGeneric(j) = Array(read) /\ InDoubles(j) = Array(told)
    BY <1>3, <2>1 DEF FromGeneric, InDoubles, Leafwise
  <2>3. \A k \in DOMAIN j.elems : told[k] # greatest
    BY <1>1, <2>1, <2>2 DEF Castable, Leaves, Array
  <2>4. \A k \in DOMAIN j.elems : WrittenScalar(read[k]) = told[k]
    BY <1>1, <1>3, <2>1, <2>3, ScalarWrittenBack
  <2>5. Written(Array(read)) = Array([k \in DOMAIN read |-> WrittenScalar(read[k])])
    BY DEF Written, Leafwise, Array
  <2>6. [k \in DOMAIN read |-> WrittenScalar(read[k])] = told
    BY <2>1, <2>4
  <2> QED BY <2>2, <2>5, <2>6
<1>4. CASE ScalarText(j)
  <2>1. j.kind \in {"null", "boolean", "number", "string"}
    BY <1>4 DEF ScalarText, NullValue, Boolean, Number, String
  <2>2. FromGeneric(j) = FromGenericScalar(j) /\ InDoubles(j) = InDouble(j)
    BY <2>1 DEF FromGeneric, InDoubles, Leafwise
  <2>3. \A s : s.kind \in {"null", "boolean", "integer", "number", "string"} =>
                  Written(s) = WrittenScalar(s) /\ Leaves(s) = {s}
    BY DEF Written, Leafwise, Leaves
  <2>4. /\ FromGenericScalar(j).kind \in {"null", "boolean", "integer", "number", "string"}
        /\ InDouble(j).kind \in {"null", "boolean", "integer", "number", "string"}
    BY <2>1 DEF FromGenericScalar, InDouble, Integer, Number
  <2>5. InDouble(j) # greatest
    BY <1>1, <2>2, <2>3, <2>4 DEF Castable
  <2> QED BY <1>1, <1>4, <2>2, <2>3, <2>4, <2>5, ScalarWrittenBack
<1> QED BY <1>2, <1>3, <1>4 DEF JsonText, Shallow

\* The dialects read and write JSON as everybody does
LEMMA DialectsNumbers ==
  ASSUME NEW h
  PROVE  /\ Completions!Rounded(h) = Rounded(h) /\ MessagesApi!Rounded(h) = Rounded(h)
         /\ Completions!FitsInteger(h) = FitsInteger(h)
         /\ MessagesApi!FitsInteger(h) = FitsInteger(h)
         /\ Completions!Cast(h) = Cast(h) /\ MessagesApi!Cast(h) = Cast(h)
<1>1. \A n : Completions!Rounded(n) = Rounded(n) /\ MessagesApi!Rounded(n) = Rounded(n)
  BY DEF Rounded, Nearest, Ulp, Binade, Abs,
         Completions!Rounded, Completions!Nearest, Completions!Ulp, Completions!Binade,
         Completions!Abs, MessagesApi!Rounded, MessagesApi!Nearest, MessagesApi!Ulp,
         MessagesApi!Binade, MessagesApi!Abs
<1>2. /\ Completions!MinInt = MinInt /\ MessagesApi!MinInt = MinInt
      /\ Completions!MaxInt = MaxInt /\ MessagesApi!MaxInt = MaxInt
  BY DEF MinInt, MaxInt, Completions!MinInt, Completions!MaxInt, MessagesApi!MinInt,
         MessagesApi!MaxInt
<1> QED BY <1>1, <1>2 DEF FitsInteger, Cast, Completions!FitsInteger, Completions!Cast,
                          MessagesApi!FitsInteger, MessagesApi!Cast

LEMMA DialectsScalars ==
  ASSUME NEW j
  PROVE  /\ Completions!WrittenScalar(j) = WrittenScalar(j)
         /\ MessagesApi!WrittenScalar(j) = WrittenScalar(j)
         /\ Completions!FromGenericScalar(j) = FromGenericScalar(j)
         /\ MessagesApi!FromGenericScalar(j) = FromGenericScalar(j)
         /\ Completions!InDouble(j) = InDouble(j) /\ MessagesApi!InDouble(j) = InDouble(j)
<1>1. /\ Completions!WrittenScalar(j) = WrittenScalar(j)
      /\ MessagesApi!WrittenScalar(j) = WrittenScalar(j)
  BY DEF WrittenScalar, Number, Completions!WrittenScalar, Completions!Number,
         MessagesApi!WrittenScalar, MessagesApi!Number
<1>2. /\ Completions!FromGenericScalar(j) = FromGenericScalar(j)
      /\ MessagesApi!FromGenericScalar(j) = FromGenericScalar(j)
  BY DialectsNumbers
     DEF FromGenericScalar, Number, Integer, Completions!FromGenericScalar, Completions!Number,
         Completions!Integer, MessagesApi!FromGenericScalar, MessagesApi!Number,
         MessagesApi!Integer
<1>3. Completions!InDouble(j) = InDouble(j) /\ MessagesApi!InDouble(j) = InDouble(j)
  BY DialectsNumbers
     DEF InDouble, Number, Completions!InDouble, Completions!Number, MessagesApi!InDouble,
         MessagesApi!Number
<1> QED BY <1>1, <1>2, <1>3

LEMMA DialectsRead ==
  ASSUME NEW j
  PROVE  /\ Completions!Written(j) = Written(j) /\ MessagesApi!Written(j) = Written(j)
         /\ Completions!FromGeneric(j) = FromGeneric(j)
         /\ MessagesApi!FromGeneric(j) = FromGeneric(j)
         /\ Completions!InDoubles(j) = InDoubles(j) /\ MessagesApi!InDoubles(j) = InDoubles(j)
         /\ Completions!NoMembers = NoMembers /\ MessagesApi!NoMembers = NoMembers
<1>1. Completions!Written(j) = Written(j) /\ MessagesApi!Written(j) = Written(j)
  BY DialectsScalars
     DEF Written, Leafwise, Object, Array,
         Completions!Written, Completions!Leafwise, Completions!Object, Completions!Array,
         MessagesApi!Written, MessagesApi!Leafwise, MessagesApi!Object, MessagesApi!Array
<1>2. Completions!FromGeneric(j) = FromGeneric(j) /\ MessagesApi!FromGeneric(j) = FromGeneric(j)
  BY DialectsScalars
     DEF FromGeneric, Leafwise, Object, Array,
         Completions!FromGeneric, Completions!Leafwise, Completions!Object, Completions!Array,
         MessagesApi!FromGeneric, MessagesApi!Leafwise, MessagesApi!Object, MessagesApi!Array
<1>3. Completions!InDoubles(j) = InDoubles(j) /\ MessagesApi!InDoubles(j) = InDoubles(j)
  BY DialectsScalars
     DEF InDoubles, Leafwise, Object, Array,
         Completions!InDoubles, Completions!Leafwise, Completions!Object, Completions!Array,
         MessagesApi!InDoubles, MessagesApi!Leafwise, MessagesApi!Object, MessagesApi!Array
<1>4. Completions!NoMembers = NoMembers /\ MessagesApi!NoMembers = NoMembers
  BY DEF NoMembers, Object, NullValue, Completions!NoMembers, Completions!Object,
         Completions!NullValue, MessagesApi!NoMembers, MessagesApi!Object, MessagesApi!NullValue
<1> QED BY <1>1, <1>2, <1>3, <1>4
=============================================================================
