------------------------- MODULE RequestRoutesProofs -------------------------
(***************************************************************************)
(* What RequestRoutes guarantees for every request and conversation: a     *)
(* request refused for what it says has asked for no credentials, whatever *)
(* the order of the checks on its route; no option a client sets is lost   *)
(* on its way upstream unless its route is known to keep it; no upstream   *)
(* is sent a result without its call before it; what an upstream is sent   *)
(* says what the client said; and a conversation whose calls are answered  *)
(* is refused by no route.                                                 *)
(*                                                                         *)
(* What the dialects make of a conversation is in ConversationProofs; here *)
(* is first what each accepts of it, and then what the steps of a route    *)
(* establish of its request.                                               *)
(***************************************************************************)
EXTENDS ConversationProofs

-----------------------------------------------------------------------------
(* What a sequence of sequences has at its places.                         *)

LEMMA SpreadWithin ==
    ASSUME NEW S, NEW T, NEW W, Spreads(W, S, T), NEW s \in Seq(S), NEW U,
           \A i \in DOMAIN s : \A j \in DOMAIN W[s[i]] : W[s[i]][j] \in U
    PROVE  Spread(W, s) \in Seq(U)
<1>1. Spread(W, s) \in Seq(T)
    BY SpreadType
<1>2. ASSUME NEW k \in DOMAIN Spread(W, s) PROVE Spread(W, s)[k] \in U
    <2>1. PICK i \in DOMAIN s : \E j \in DOMAIN W[s[i]] : k = At(Each(W, s), i, j)
        BY SpreadPlaces
    <2>2. PICK j \in DOMAIN W[s[i]] : k = At(Each(W, s), i, j)
        BY <2>1
    <2>3. Spread(W, s)[At(Each(W, s), i, j)] = W[s[i]][j]
        BY SpreadPlaces
    <2>4. QED
        BY <2>2, <2>3
<1>3. \A xs \in Seq(T) : (\A k \in DOMAIN xs : xs[k] \in U) => xs \in Seq(U)
    OBVIOUS
<1>4. QED
    BY <1>1, <1>2, <1>3

LEMMA SpreadSome ==
    ASSUME NEW S, NEW T, NEW W, Spreads(W, S, T), NEW s \in Seq(S),
           NEW i \in DOMAIN s, W[s[i]] # <<>>
    PROVE  Spread(W, s) # <<>>
<1>1. W[s[i]] \in Seq(T) /\ Spread(W, s) \in Seq(T)
    BY SpreadsValue, SpreadType
<1>2. 1 \in DOMAIN W[s[i]]
    BY <1>1
<1>3. At(Each(W, s), i, 1) \in DOMAIN Spread(W, s)
    BY <1>2, SpreadPlaces
<1>4. QED
    BY <1>1, <1>3

\* What one element gives at most, all give at most if the others give nothing.
LEMMA SpreadLone ==
    ASSUME NEW S, NEW T, NEW W, Spreads(W, S, T), NEW s \in Seq(S),
           \A i \in DOMAIN s : Len(W[s[i]]) <= 1,
           \A i, h \in DOMAIN s : W[s[i]] # <<>> /\ W[s[h]] # <<>> => i = h
    PROVE  Len(Spread(W, s)) <= 1
<1>1. Spread(W, s) \in Seq(T)
    BY SpreadType
<1>2. SUFFICES ASSUME ~(Len(Spread(W, s)) <= 1) PROVE FALSE
    OBVIOUS
<1>3. 1 \in DOMAIN Spread(W, s) /\ 2 \in DOMAIN Spread(W, s)
    BY <1>1, <1>2
<1>4. PICK i \in DOMAIN s : \E j \in DOMAIN W[s[i]] : 1 = At(Each(W, s), i, j)
    BY <1>3, SpreadPlaces
<1>5. PICK j \in DOMAIN W[s[i]] : 1 = At(Each(W, s), i, j)
    BY <1>4
<1>6. PICK h \in DOMAIN s : \E l \in DOMAIN W[s[h]] : 2 = At(Each(W, s), h, l)
    BY <1>3, SpreadPlaces
<1>7. PICK l \in DOMAIN W[s[h]] : 2 = At(Each(W, s), h, l)
    BY <1>6
<1>8. W[s[i]] \in Seq(T) /\ W[s[h]] \in Seq(T)
    BY SpreadsValue
<1>9. W[s[i]] # <<>> /\ W[s[h]] # <<>> /\ j = 1 /\ l = 1
    <2>1. Len(W[s[i]]) <= 1 /\ Len(W[s[h]]) <= 1
        OBVIOUS
    <2>2. QED
        BY <1>8, <2>1
<1>10. i = h
    BY <1>9
<1>11. QED
    BY <1>5, <1>7, <1>9, <1>10

LEMMA FlattenPlaces ==
    ASSUME NEW S, NEW ss \in Seq(Seq(S)), NEW i \in DOMAIN ss, NEW j \in DOMAIN ss[i]
    PROVE  /\ At(ss, i, j) \in DOMAIN Flatten(ss) /\ Flatten(ss)[At(ss, i, j)] = ss[i][j]
           /\ At(ss, i, j) \in Nat /\ j \in Nat /\ Len(Joined(ss)[i - 1]) \in Nat
<1>1. Len(ss) \in 0 .. Len(ss) /\ i \in 1 .. Len(ss) /\ i - 1 \in 0 .. Len(ss) /\ j \in Nat
    OBVIOUS
<1>2. There(ss, Len(ss))
    BY <1>1, Placed
<1>3. Joined(ss)[i - 1] \in Seq(S)
    BY <1>1, JoinedType
<1>4. Len(Joined(ss)[i - 1]) \in Nat
    BY <1>3
<1>5. QED
    BY <1>1, <1>2, <1>4 DEF There, Flatten, At

LEMMA FlattenBetween ==
    ASSUME NEW S, NEW ss \in Seq(Seq(S)), NEW i \in DOMAIN ss, NEW j \in DOMAIN ss[i],
           NEW l \in DOMAIN ss[i], NEW k \in At(ss, i, j) .. At(ss, i, l)
    PROVE  \E m \in DOMAIN ss[i] : k = At(ss, i, m)
<1> DEFINE before == Len(Joined(ss)[i - 1])
<1>1. before \in Nat /\ j \in Nat /\ l \in Nat /\ At(ss, i, j) = before + j
      /\ At(ss, i, l) = before + l
    BY FlattenPlaces DEF At
<1>2. ss[i] \in Seq(S) /\ DOMAIN ss[i] = 1 .. Len(ss[i]) /\ Len(ss[i]) \in Nat
    OBVIOUS
<1> HIDE DEF before
<1>3. k - before \in DOMAIN ss[i] /\ k = before + (k - before)
    BY <1>1, <1>2
<1>4. QED
    BY <1>3 DEF At, before
-----------------------------------------------------------------------------
(* A conversation whose calls are all answered once and later.             *)

Those(said, kind) == {i \in DOMAIN said : said[i].kind = kind}
Worded == {"system", "user", "assistant"}
\* WellFormed, of any conversation; Shown and UserAlone are the two halves of StringsOnly.
WellSaid(said) ==
    /\ \A i, j \in Those(said, "call") : said[i].id = said[j].id => i = j
    /\ \A i, j \in Those(said, "result") : said[i].id = said[j].id => i = j
    /\ \A c \in Those(said, "call") :
         \E o \in Those(said, "result") : c < o /\ said[c].id = said[o].id
    /\ \A o \in Those(said, "result") :
         \E c \in Those(said, "call") : c < o /\ said[c].id = said[o].id
    /\ \A i \in DOMAIN said : said[i].kind \in Worded => said[i].parts # <<>>
Shown(said) == \E i \in DOMAIN said : HasImage(said[i].parts)
UserAlone(said) ==
    \A i, j \in Those(said, "user") :
      i < j => \E k \in i .. j : Speaker[said[k].kind] # "user"

\* A request nothing is wrong with.
Fine(q) ==
    /\ Telling(q) /\ q.provider \in Providers
    /\ q.dialect \in {"chat", "responses", "anthropic", "count_tokens"}
    /\ q.options = IF q.dialect = "anthropic" THEN {"max_tokens"} ELSE {}
    /\ q.tools = <<>> /\ q.toolChoice = "absent" /\ (q.dialect = "responses" => q.stream)
    /\ WellSaid(q.said) /\ \E i \in DOMAIN q.said : q.said[i].kind # "system"
    /\ q.provider = "deepseek" =>
         /\ ~Shown(q.said)
         /\ q.dialect = "anthropic" /\ q.grouped => UserAlone(q.said)

LEMMA TailPlaces ==
    ASSUME NEW S, NEW s \in Seq(S), s # <<>>
    PROVE  /\ Tail(s) \in Seq(S)
           /\ \A i \in DOMAIN Tail(s) : i \in Nat /\ i + 1 \in DOMAIN s /\ Tail(s)[i] = s[i + 1]
           /\ \A i \in DOMAIN s : i # 1 => i - 1 \in DOMAIN Tail(s) /\ Tail(s)[i - 1] = s[i]
           /\ \A i \in DOMAIN s : i \in Nat
OBVIOUS

LEMMA TailSaid ==
    ASSUME NEW said \in Seq(Turns), said # <<>>, said[1].kind = "system", WellSaid(said)
    PROVE  WellSaid(Tail(said))
<1> DEFINE rest == Tail(said)
<1>1. /\ \A i \in DOMAIN rest : i \in Nat /\ i + 1 \in DOMAIN said /\ rest[i] = said[i + 1]
      /\ \A i \in DOMAIN said : i # 1 => i - 1 \in DOMAIN rest /\ rest[i - 1] = said[i]
      /\ \A i \in DOMAIN said : i \in Nat
    BY TailPlaces
<1> HIDE DEF rest
<1>2. ASSUME NEW kind \in {"call", "result"}, NEW i \in DOMAIN rest, rest[i].kind = kind
      PROVE  i + 1 \in Those(said, kind)
    BY <1>1, <1>2 DEF Those
<1>3. ASSUME NEW kind \in {"call", "result"}, NEW i \in Those(said, kind)
      PROVE  i - 1 \in Those(rest, kind) /\ rest[i - 1] = said[i] /\ i \in Nat
    BY <1>1, <1>3 DEF Those
<1>4. ASSUME NEW kind \in {"call", "result"}, NEW i \in Those(rest, kind)
      PROVE  i + 1 \in Those(said, kind) /\ rest[i] = said[i + 1] /\ i \in Nat
    BY <1>1, <1>4 DEF Those
<1>5. ASSUME NEW kind \in {"call", "result"}, NEW i \in Those(rest, kind),
             NEW j \in Those(rest, kind), rest[i].id = rest[j].id
      PROVE  i = j
    <2>1. /\ i + 1 \in Those(said, kind) /\ j + 1 \in Those(said, kind)
          /\ said[i + 1].id = said[j + 1].id /\ i \in Nat /\ j \in Nat
        BY <1>4, <1>5
    <2>2. i + 1 = j + 1
        BY <1>5, <2>1 DEF WellSaid
    <2>3. QED
        BY <2>1, <2>2
<1>6. ASSUME NEW c \in Those(rest, "call")
      PROVE  \E o \in Those(rest, "result") : c < o /\ rest[c].id = rest[o].id
    <2>1. c + 1 \in Those(said, "call") /\ rest[c] = said[c + 1] /\ c \in Nat
        BY <1>4
    <2>2. PICK o \in Those(said, "result") : c + 1 < o /\ said[c + 1].id = said[o].id
        BY <2>1 DEF WellSaid
    <2>3. o - 1 \in Those(rest, "result") /\ rest[o - 1] = said[o] /\ o \in Nat
        BY <1>3
    <2>4. QED
        BY <2>1, <2>2, <2>3
<1>7. ASSUME NEW o \in Those(rest, "result")
      PROVE  \E c \in Those(rest, "call") : c < o /\ rest[c].id = rest[o].id
    <2>1. o + 1 \in Those(said, "result") /\ rest[o] = said[o + 1] /\ o \in Nat
        BY <1>4
    <2>2. PICK c \in Those(said, "call") : c < o + 1 /\ said[c].id = said[o + 1].id
        BY <2>1 DEF WellSaid
    <2>3. c - 1 \in Those(rest, "call") /\ rest[c - 1] = said[c] /\ c \in Nat
        BY <1>3
    <2>4. QED
        BY <2>1, <2>2, <2>3
<1>8. ASSUME NEW i \in DOMAIN rest, rest[i].kind \in Worded PROVE rest[i].parts # <<>>
    BY <1>1, <1>8 DEF WellSaid
<1>9. QED
    BY <1>5, <1>6, <1>7, <1>8 DEF WellSaid, rest

LEMMA TailAlone ==
    ASSUME NEW said \in Seq(Turns), said # <<>>, UserAlone(said)
    PROVE  UserAlone(Tail(said))
<1> DEFINE rest == Tail(said)
<1>1. /\ \A i \in DOMAIN rest : i \in Nat /\ i + 1 \in DOMAIN said /\ rest[i] = said[i + 1]
      /\ \A i \in DOMAIN said : i # 1 => i - 1 \in DOMAIN rest /\ rest[i - 1] = said[i]
    BY TailPlaces
<1> HIDE DEF rest
<1>2. ASSUME NEW i \in Those(rest, "user"), NEW j \in Those(rest, "user"), i < j
      PROVE  \E k \in i .. j : Speaker[rest[k].kind] # "user"
    <2>1. i \in DOMAIN rest /\ j \in DOMAIN rest /\ i \in Nat /\ j \in Nat
        BY <1>1 DEF Those
    <2>2. i + 1 \in Those(said, "user") /\ j + 1 \in Those(said, "user") /\ i + 1 < j + 1
        BY <1>1, <1>2, <2>1 DEF Those
    <2>3. PICK k \in (i + 1) .. (j + 1) : Speaker[said[k].kind] # "user"
        BY <2>2 DEF UserAlone
    <2>4. Len(said) \in Nat /\ DOMAIN said = 1 .. Len(said)
        OBVIOUS
    <2>5. j + 1 \in DOMAIN said
        BY <1>1, <2>1
    <2>6. k \in DOMAIN said /\ k # 1 /\ k - 1 \in i .. j
        BY <2>1, <2>4, <2>5
    <2>7. rest[k - 1] = said[k]
        BY <1>1, <2>6
    <2>8. QED
        BY <2>3, <2>6, <2>7
<1>3. QED
    BY <1>2 DEF UserAlone, rest

\* What is left of such a conversation when its system prompt has a field of its own.
LEMMA RestFine ==
    ASSUME NEW q, Fine(q)
    PROVE  /\ Rest(q) \in Seq(Turns) /\ WellSaid(Rest(q))
           /\ \E i \in DOMAIN Rest(q) : Rest(q)[i].kind # "system"
           /\ q.provider = "deepseek" =>
                /\ ~Shown(Rest(q))
                /\ q.dialect = "anthropic" /\ q.grouped => UserAlone(Rest(q))
           /\ Lifted(q) => q.said[1] \in Turns /\ q.said[1].kind = "system"
                             /\ q.said[1].parts # <<>> /\ ~HasImage(q.said[1].parts)
<1>1. Telling(q) /\ q.said \in Seq(Turns) /\ WellSaid(q.said)
    BY DEF Fine, Telling
<1>2. CASE ~Lifted(q)
    BY <1>1, <1>2 DEF Rest, Fine
<1>3. CASE Lifted(q)
    <2>1. q.said # <<>> /\ q.said[1].kind = "system" /\ Rest(q) = Tail(q.said)
        BY <1>3 DEF Lifted, Rest
    <2>2. 1 \in DOMAIN q.said /\ q.said[1] \in Turns
        BY <1>1, <2>1
    <2>3. q.said[1].parts # <<>> /\ ~HasImage(q.said[1].parts)
        BY <1>1, <2>1, <2>2, TurnFacts DEF WellSaid, Worded
    <2>4. /\ \A i \in DOMAIN Rest(q) :
               i \in Nat /\ i + 1 \in DOMAIN q.said /\ Rest(q)[i] = q.said[i + 1]
          /\ \A i \in DOMAIN q.said :
               i # 1 => i - 1 \in DOMAIN Rest(q) /\ Rest(q)[i - 1] = q.said[i]
          /\ Rest(q) \in Seq(Turns)
        BY <1>1, <2>1, TailPlaces
    <2>5. PICK i \in DOMAIN q.said : q.said[i].kind # "system"
        BY DEF Fine
    <2>6. i - 1 \in DOMAIN Rest(q) /\ Rest(q)[i - 1].kind # "system"
        BY <2>1, <2>4, <2>5
    <2>7. ~Shown(q.said) => ~Shown(Rest(q))
        BY <2>4 DEF Shown
    <2>8. WellSaid(Rest(q)) /\ (UserAlone(q.said) => UserAlone(Rest(q)))
        BY <1>1, <2>1, TailSaid, TailAlone
    <2>9. QED
        BY <2>1, <2>2, <2>3, <2>4, <2>6, <2>7, <2>8 DEF Fine
<1>4. QED
    BY <1>2, <1>3

\* Its calls and results, which are in order.
TurnEv ==
    [t \in Turns |-> CASE t.kind = "call" -> <<Event("call", t.id)>>
                       [] t.kind = "result" -> <<Event("result", t.id)>>
                       [] OTHER -> <<>>]
LEMMA TurnEvType == Spreads(TurnEv, Turns, Events)
<1>1. ASSUME NEW t \in Turns PROVE TurnEv[t] \in Seq(Events)
    <2>1. t.id \in Ids
        BY TurnFacts
    <2>2. Event("call", t.id) \in Events /\ Event("result", t.id) \in Events
        BY <2>1 DEF Event, Events
    <2>3. QED
        BY <2>2 DEF TurnEv
<1>2. QED
    BY <1>1 DEF Spreads, TurnEv

LEMMA TurnEvAt ==
    ASSUME NEW said \in Seq(Turns), NEW i \in DOMAIN said
    PROVE  /\ \A j \in DOMAIN TurnEv[said[i]] :
                /\ j = 1 /\ TurnEv[said[i]][j].id = said[i].id
                /\ TurnEv[said[i]][j].kind = said[i].kind /\ said[i].kind \in {"call", "result"}
           /\ said[i].kind \in {"call", "result"} => 1 \in DOMAIN TurnEv[said[i]]
<1>1. said[i] \in Turns
    OBVIOUS
<1>2. CASE said[i].kind \in {"call", "result"}
    <2>1. TurnEv[said[i]] = <<Event(said[i].kind, said[i].id)>>
        BY <1>1, <1>2 DEF TurnEv
    <2>2. QED
        BY <1>2, <2>1, EventFields
<1>3. CASE said[i].kind \notin {"call", "result"}
    <2>1. TurnEv[said[i]] = <<>>
        BY <1>1, <1>3 DEF TurnEv
    <2>2. QED
        BY <1>3, <2>1
<1>4. QED
    BY <1>2, <1>3

LEMMA SaidTidy ==
    ASSUME NEW said \in Seq(Turns), WellSaid(said)
    PROVE  Tidy(Spread(TurnEv, said))
<1>1. ASSUME NEW i \in DOMAIN said, NEW j \in DOMAIN TurnEv[said[i]],
             TurnEv[said[i]][j].kind = "result"
      PROVE  CalledBefore(TurnEv, said, i, j) /\ AnsweredBy(TurnEv, said, i, j)
    <2>1. j = 1 /\ TurnEv[said[i]][j].id = said[i].id /\ i \in Those(said, "result")
        BY <1>1, TurnEvAt DEF Those
    <2>2. PICK c \in Those(said, "call") : c < i /\ said[c].id = said[i].id
        BY <2>1 DEF WellSaid
    <2>3. c \in DOMAIN said /\ said[c].kind = "call"
        BY DEF Those
    <2>4. 1 \in DOMAIN TurnEv[said[c]] /\ TurnEv[said[c]][1].id = said[c].id
          /\ TurnEv[said[c]][1].kind = "call"
        BY <2>3, TurnEvAt
    <2>5. CalledBefore(TurnEv, said, i, j)
        BY <2>1, <2>2, <2>3, <2>4 DEF CalledBefore, Before
    <2>6. ASSUME NEW h \in DOMAIN said, NEW l \in DOMAIN TurnEv[said[h]],
                 TurnEv[said[h]][l].kind = "result", TurnEv[said[h]][l].id = said[i].id
          PROVE  h = i /\ l = j
        <3>1. l = 1 /\ TurnEv[said[h]][l].id = said[h].id /\ h \in Those(said, "result")
            BY <2>6, TurnEvAt DEF Those
        <3>2. QED
            BY <2>1, <2>6, <3>1 DEF WellSaid
    <2>7. AnsweredBy(TurnEv, said, i, j)
        BY <2>1, <2>6 DEF AnsweredBy
    <2>8. QED
        BY <2>5, <2>7
<1>2. TidyBy(TurnEv, said)
    BY <1>1 DEF TidyBy
<1>3. QED
    BY <1>2, TurnEvType, TidyPlaces
-----------------------------------------------------------------------------
(* Chat requests nothing is wrong with.                                    *)

\* The messages that a provider takes, and the requests that are made of them.
FineMsgs(provider) ==
    {m \in Msgs : /\ ContentAllowed(m) /\ NoId \notin ToSet(m.calls)
                  /\ provider = "deepseek" => m.content.form # "array"}
Presentable(provider, req) ==
    /\ req.messages \in Seq(FineMsgs(provider))
    /\ req.messages # <<>> \/ req.codexInput # <<>>
    /\ req.options = {} \/ (req.options = {"max_tokens"} /\ provider # "codex")
    /\ req.tools = <<>> /\ req.toolChoice = "absent"
    /\ provider = "codex" => CodexToolTranscript(req.messages)

LEMMA FineTools ==
    ASSUME NEW provider, NEW req, req.messages \in Seq(FineMsgs(provider)),
           req.tools = <<>>, req.toolChoice = "absent"
    PROVE  /\ ToolsAllowed(req)
           /\ \A i \in DOMAIN req.messages : ContentAllowed(req.messages[i])
<1>1. \A i \in DOMAIN req.messages : req.messages[i] \in FineMsgs(provider)
    OBVIOUS
<1>2. CallsNamed(req)
    BY <1>1 DEF CallsNamed, FineMsgs
<1>3. Len(req.tools) <= MaxTools
    BY MaxToolsAssumption
<1>4. ToolNamesUnique(req) /\ ChoosesTools(req)
    BY DEF ToolNamesUnique, ChoosesTools
<1>5. QED
    BY <1>1, <1>2, <1>3, <1>4 DEF ToolsAllowed, FineMsgs

LEMMA FineAccepted ==
    ASSUME NEW provider \in Providers, NEW req, Presentable(provider, req)
    PROVE  Validate(req) /\ ValidateChatRequest(provider, req)
<1>1. /\ ToolsAllowed(req)
      /\ \A i \in DOMAIN req.messages : ContentAllowed(req.messages[i])
    BY FineTools DEF Presentable
<1>2. req.options \subseteq {"max_tokens"} /\ (provider = "codex" => req.options = {})
    BY DEF Presentable
<1>3. OneLimit(req) /\ LogprobsAgree(req) /\ StreamOptionsAgree(req) /\ StopAllowed(req)
    BY <1>2 DEF OneLimit, LogprobsAgree, StreamOptionsAgree, StopAllowed
<1>4. Validate(req)
    BY <1>1, <1>3 DEF Validate, Presentable
<1>5. req.options \cap Unsupported(provider) = {}
    BY <1>2 DEF Unsupported, OpenRouterOnly, Providers
<1>6. provider # "codex" => req.options \cap CodexNested = {}
    BY <1>2 DEF CodexNested
<1>7. provider = "codex" =>
        /\ \A pair \in Doubled : ~({pair[1], pair[2]} \subseteq req.options)
        /\ req.toolChoice # "named" /\ CodexToolTranscript(req.messages)
    BY <1>2 DEF Presentable, Doubled
<1>8. provider = "deepseek" =>
        \A i \in DOMAIN req.messages : req.messages[i].content.form # "array"
    BY DEF Presentable, FineMsgs
<1>9. \A i \in DOMAIN req.tools : ~req.tools[i].strict
    BY DEF Presentable
<1>10. QED
    BY <1>4, <1>5, <1>6, <1>7, <1>8, <1>9 DEF ValidateChatRequest
-----------------------------------------------------------------------------
(* The runs of a conversation nothing is wrong with.                       *)

FineRun(run, provider) ==
    /\ run \in TurnRuns
    /\ \A i \in DOMAIN run : /\ run[i].kind \in Worded => run[i].parts # <<>>
                             /\ provider = "deepseek" => ~HasImage(run[i].parts)

LEMMA RunsFine ==
    ASSUME NEW q, Fine(q), NEW n \in DOMAIN Runs(Rest(q), q.grouped)
    PROVE  FineRun(Runs(Rest(q), q.grouped)[n], q.provider)
<1> DEFINE runs == Runs(Rest(q), q.grouped)
           rest == Rest(q)
<1>1. /\ runs \in Seq(TurnRuns) /\ runs \in Seq(Seq(Turns)) /\ Flatten(runs) = rest
    BY RestIs DEF Fine
<1>2. WellSaid(rest) /\ (q.provider = "deepseek" => ~Shown(rest))
    BY RestFine
<1> HIDE DEF runs, rest
<1>3. runs[n] \in TurnRuns
    BY <1>1 DEF runs
<1>4. ASSUME NEW i \in DOMAIN runs[n]
      PROVE  /\ runs[n][i].kind \in Worded => runs[n][i].parts # <<>>
             /\ q.provider = "deepseek" => ~HasImage(runs[n][i].parts)
    <2>1. n \in DOMAIN runs
        BY DEF runs
    <2>2. At(runs, n, i) \in DOMAIN rest /\ rest[At(runs, n, i)] = runs[n][i]
        BY <1>1, <2>1, FlattenPlaces
    <2>3. QED
        BY <1>2, <2>2 DEF WellSaid, Shown
<1>5. QED
    BY <1>3, <1>4 DEF FineRun, runs

LEMMA RunsSome ==
    ASSUME NEW q, Fine(q)
    PROVE  /\ Runs(Rest(q), q.grouped) # <<>> /\ Rest(q) # <<>>
           /\ \E n \in DOMAIN Runs(Rest(q), q.grouped) :
                Speaker[Runs(Rest(q), q.grouped)[n][1].kind] # "system"
<1> DEFINE runs == Runs(Rest(q), q.grouped)
           rest == Rest(q)
<1>1. /\ runs \in Seq(TurnRuns) /\ runs \in Seq(Seq(Turns)) /\ Flatten(runs) = rest
    BY RestIs DEF Fine
<1>2. rest \in Seq(Turns) /\ \E i \in DOMAIN rest : rest[i].kind # "system"
    BY RestFine
<1>3. PICK i \in DOMAIN rest : rest[i].kind # "system"
    BY <1>2
<1> HIDE DEF runs, rest
<1>4. Len(runs) \in 0 .. Len(runs) /\ DOMAIN runs = 1 .. Len(runs)
    BY <1>1
<1>5. FromThere(runs, Len(runs)) /\ There(runs, Len(runs))
    BY <1>1, <1>4, Placed
<1>6. rest = Joined(runs)[Len(runs)]
    BY <1>1 DEF Flatten
<1>7. PICK n \in DOMAIN runs : \E j \in DOMAIN runs[n] : i = At(runs, n, j)
    BY <1>3, <1>4, <1>5, <1>6 DEF FromThere
<1>8. PICK j \in DOMAIN runs[n] : i = At(runs, n, j)
    BY <1>7
<1>9. rest[i] = runs[n][j]
    BY <1>1, <1>8, FlattenPlaces
<1>10. RunFacts(runs[n])
    BY <1>1, TurnRunFacts
<1>11. Speaker[runs[n][1].kind] # "system"
    BY <1>3, <1>9, <1>10 DEF RunFacts
<1>12. rest # <<>> /\ runs # <<>>
    BY <1>1, <1>2, <1>3, <1>7
<1>13. QED
    BY <1>11, <1>12 DEF runs, rest

\* A run has the calls and results of its turns, whatever becomes of it.
RunEv == [run \in TurnRuns |-> Spread(TurnEv, run)]
LEMMA RunsEv ==
    ASSUME NEW runs \in Seq(TurnRuns)
    PROVE  Spread(RunEv, runs) = Spread(TurnEv, Flatten(runs))
<1> DEFINE evs == [i \in DOMAIN runs |-> Spread(TurnEv, runs[i])]
<1>1. TurnRuns \subseteq Seq(Turns)
    BY DEF TurnRuns
<1>2. runs \in Seq(Seq(Turns)) /\ \A i \in DOMAIN runs : runs[i] \in TurnRuns
    BY <1>1
<1>3. Each(RunEv, runs) = evs
    BY <1>2 DEF Each, RunEv
<1>4. Flatten(evs) = Spread(TurnEv, Flatten(runs))
    <2>1. evs = [i \in DOMAIN runs |-> Spread(TurnEv, runs[i])]
        OBVIOUS
    <2> HIDE DEF evs
    <2>2. QED
        BY <1>2, <2>1, TurnEvType, SpreadRuns
<1>5. QED
    BY <1>3, <1>4 DEF Spread
-----------------------------------------------------------------------------
(* A chat client's conversation.                                           *)

OfOne(kind) == {t \in Turns : t.kind = kind}
LEMMA KindAll ==
    ASSUME NEW run \in Seq(Turns), NEW kind
    PROVE  /\ Kind(run, kind) \in Seq(OfOne(kind))
           /\ (\E i \in DOMAIN run : run[i].kind = kind) => Kind(run, kind) # <<>>
<1> DEFINE K == KindOf(kind)
<1>1. Kind(run, kind) = Spread(K, run) /\ Spreads(K, Turns, Turns)
    BY KindIs, KindOfType
<1>2. \A i \in DOMAIN run : K[run[i]] = IF run[i].kind = kind THEN <<run[i]>> ELSE <<>>
    BY DEF KindOf
<1> HIDE DEF K
<1>3. ASSUME NEW i \in DOMAIN run, NEW j \in DOMAIN K[run[i]] PROVE K[run[i]][j] \in OfOne(kind)
    <2>1. run[i] \in Turns
        OBVIOUS
    <2>2. CASE run[i].kind = kind
        <3>1. K[run[i]] = <<run[i]>>
            BY <1>2, <2>2
        <3>2. K[run[i]][j] = run[i]
            BY <3>1
        <3>3. QED
            BY <2>1, <2>2, <3>2 DEF OfOne
    <2>3. CASE run[i].kind # kind
        <3>1. K[run[i]] = <<>>
            BY <1>2, <2>3
        <3>2. QED
            BY <3>1
    <2>4. QED
        BY <2>2, <2>3
<1>4. Spread(K, run) \in Seq(OfOne(kind))
    BY <1>1, <1>3, SpreadWithin
<1>5. ASSUME NEW i \in DOMAIN run, run[i].kind = kind PROVE Spread(K, run) # <<>>
    <2>1. K[run[i]] = <<run[i]>>
        BY <1>2, <1>5
    <2>2. QED
        BY <1>1, <2>1, SpreadSome
<1>6. QED
    BY <1>1, <1>4, <1>5

LEMMA FineForms ==
    ASSUME NEW provider, NEW parts \in Seq(Pieces), NEW id \in Ids
    PROVE  /\ Message("system", String(parts), <<>>, NoId) \in FineMsgs(provider)
           /\ Message("user", String(parts), <<>>, NoId) \in FineMsgs(provider)
           /\ parts # <<>> /\ provider # "deepseek" =>
                Message("user", Array(parts), <<>>, NoId) \in FineMsgs(provider)
           /\ id # NoId => Message("tool", String(parts), <<>>, id) \in FineMsgs(provider)
<1>1. String(parts) \in Contents /\ Array(parts) \in Contents /\ <<>> \in Seq(Ids) /\ NoId \in Ids
    BY ContentForm DEF Ids
<1>2. /\ Message("system", String(parts), <<>>, NoId) \in Msgs
      /\ Message("user", String(parts), <<>>, NoId) \in Msgs
      /\ Message("user", Array(parts), <<>>, NoId) \in Msgs
      /\ Message("tool", String(parts), <<>>, id) \in Msgs
    BY <1>1, MessageForm
<1>3. ASSUME NEW role, NEW content, NEW key
      PROVE  /\ Message(role, content, <<>>, key).role = role
             /\ Message(role, content, <<>>, key).content = content
             /\ Message(role, content, <<>>, key).id = key
             /\ Message(role, content, <<>>, key).calls = <<>>
    BY DEF Message
<1>4. /\ String(parts).form = "string" /\ Array(parts).form = "array" /\ Array(parts).parts = parts
      /\ NoId \notin ToSet(<<>>)
    BY DEF String, Array, ToSet
<1>5. ContentAllowed(Message("system", String(parts), <<>>, NoId))
    BY <1>3, <1>4 DEF ContentAllowed
<1>6. ContentAllowed(Message("user", String(parts), <<>>, NoId))
    BY <1>3, <1>4 DEF ContentAllowed
<1>7. parts # <<>> => ContentAllowed(Message("user", Array(parts), <<>>, NoId))
    BY <1>3, <1>4 DEF ContentAllowed
<1>8. id # NoId => ContentAllowed(Message("tool", String(parts), <<>>, id))
    BY <1>3, <1>4 DEF ContentAllowed
<1>9. QED
    BY <1>2, <1>3, <1>4, <1>5, <1>6, <1>7, <1>8 DEF FineMsgs

LEMMA FineAssistant ==
    ASSUME NEW provider, NEW content \in Contents, NEW calls \in Seq(CallIds),
           content.form = "string" \/ (content = Null /\ calls # <<>>)
    PROVE  Message("assistant", content, calls, NoId) \in FineMsgs(provider)
<1> DEFINE m == Message("assistant", content, calls, NoId)
<1>1. calls \in Seq(Ids) /\ NoId \in Ids
    BY DEF Ids
<1>2. m \in Msgs
    BY <1>1, MessageForm
<1>3. m.role = "assistant" /\ m.content = content /\ m.calls = calls
    BY DEF Message
<1>4. Null.form = "null"
    BY DEF Null
<1> HIDE DEF m
<1>5. ContentAllowed(m) /\ m.content.form # "array"
    BY <1>3, <1>4 DEF ContentAllowed
<1>6. NoId \notin ToSet(calls)
    BY ConversationAssumption DEF ToSet
<1>7. QED
    BY <1>2, <1>3, <1>5, <1>6 DEF FineMsgs, m

LEMMA ChatTurnFine ==
    ASSUME NEW provider, NEW t \in Turns, Speaker[t.kind] # "assistant",
           t.kind \in Worded => t.parts # <<>>, provider = "deepseek" => ~HasImage(t.parts)
    PROVE  ChatTurnOf[t] \in FineMsgs(provider)
<1>1. ChatTurnOf[t] = ChatTurn(t)
    BY DEF ChatTurnOf
<1>2. t.kind \in {"system", "user", "result"} /\ t.parts \in Seq(Pieces) /\ t.id \in Ids
    BY TurnFacts, SpeakerIs
<1>3. t.kind = "result" => t.id # NoId
    BY TurnFacts, ConversationAssumption
<1>4. ChatTurn(t) = CASE t.kind = "result" -> Message("tool", String(t.parts), <<>>, t.id)
                      [] t.kind = "user" -> Message("user", UserContent(t.parts), <<>>, NoId)
                      [] t.kind = "system" -> Message("system", String(t.parts), <<>>, NoId)
    BY ChatTurnType
<1>5. CASE t.kind = "result"
    BY <1>1, <1>2, <1>3, <1>4, <1>5, FineForms
<1>6. CASE t.kind = "system"
    BY <1>1, <1>2, <1>4, <1>6, FineForms
<1>7. CASE t.kind = "user"
    <2>1. t.parts # <<>>
        BY <1>7 DEF Worded
    <2>2. ChatTurn(t) = Message("user", UserContent(t.parts), <<>>, NoId)
        BY <1>4, <1>7
    <2>3. CASE HasImage(t.parts)
        <3>1. UserContent(t.parts) = Array(t.parts) /\ provider # "deepseek"
            BY <2>3 DEF UserContent
        <3>2. QED
            BY <1>1, <1>2, <2>1, <2>2, <3>1, FineForms
    <2>4. CASE ~HasImage(t.parts)
        <3>1. UserContent(t.parts) = String(t.parts)
            BY <2>4 DEF UserContent
        <3>2. QED
            BY <1>1, <1>2, <2>2, <3>1, FineForms
    <2>5. QED
        BY <2>3, <2>4
<1>8. QED
    BY <1>2, <1>5, <1>6, <1>7

LEMMA CallIdsOf ==
    ASSUME NEW ts \in Seq(OfOne("call"))
    PROVE  Each(TurnId, ts) \in Seq(CallIds) /\ (ts # <<>> => Each(TurnId, ts) # <<>>)
<1>1. \A t \in OfOne("call") : t \in Turns /\ t.id \in CallIds
    BY TurnFacts DEF OfOne
<1>2. \A i \in DOMAIN ts : TurnId[ts[i]] \in CallIds
    BY <1>1 DEF TurnId
<1>3. QED
    BY <1>2 DEF Each

LEMMA ChatRunFine ==
    ASSUME NEW provider, NEW run, FineRun(run, provider)
    PROVE  ChatRun(run) \in Seq(FineMsgs(provider)) /\ ChatRun(run) # <<>>
<1>1. run \in TurnRuns /\ RunFacts(run)
    BY TurnRunFacts DEF FineRun
<1>2. run \in Seq(Turns) /\ run # <<>> /\ 1 \in DOMAIN run
    BY <1>1 DEF RunFacts
<1>3. CASE Speaker[run[1].kind] # "assistant"
    <2>1. ChatRun(run) = Each(ChatTurnOf, run)
        BY <1>1, <1>3, ChatRunIs
    <2>2. \A i \in DOMAIN run : run[i] \in Turns /\ Speaker[run[i].kind] # "assistant"
        BY <1>1, <1>3 DEF RunFacts
    <2>3. \A i \in DOMAIN run : ChatTurnOf[run[i]] \in FineMsgs(provider)
        BY <2>2, ChatTurnFine DEF FineRun
    <2>4. QED
        BY <1>2, <2>1, <2>3 DEF Each
<1>4. CASE Speaker[run[1].kind] = "assistant"
    <2> DEFINE texts == Kind(run, "assistant")
               calls == Kind(run, "call")
               content == IF texts = <<>> THEN Null ELSE String(Spread(TurnParts, texts))
               ids == Each(TurnId, calls)
    <2>1. ChatRun(run) = <<Message("assistant", content, ids, NoId)>>
        BY <1>1, <1>4, ChatRunIs DEF AssistantRun
    <2>2. run[1].kind \in {"assistant", "call"}
        BY <1>1, <1>2, <1>4 DEF RunFacts
    <2>3. /\ calls \in Seq(OfOne("call")) /\ texts \in Seq(Turns)
          /\ run[1].kind = "assistant" => texts # <<>>
          /\ run[1].kind = "call" => calls # <<>>
        BY <1>2, KindAll, KindIs
    <2> HIDE DEF texts, calls
    <2>4. Spread(TurnParts, texts) \in Seq(Pieces)
        BY <2>3, PartsAre
    <2>5. content \in Contents /\ (texts # <<>> => content.form = "string")
          /\ (texts = <<>> => content = Null)
        BY <2>4, ContentForm DEF String
    <2>6. ids \in Seq(CallIds) /\ (calls # <<>> => ids # <<>>)
        BY <2>3, CallIdsOf
    <2> HIDE DEF content, ids
    <2>7. Message("assistant", content, ids, NoId) \in FineMsgs(provider)
        BY <2>2, <2>3, <2>5, <2>6, FineAssistant
    <2>8. QED
        BY <2>1, <2>7
<1>5. QED
    BY <1>3, <1>4

LEMMA ChatTurnEv ==
    ASSUME NEW t \in Turns, Speaker[t.kind] # "assistant"
    PROVE  MsgEvents[ChatTurnOf[t]] = TurnEv[t]
<1> DEFINE m == ChatTurnOf[t]
<1>1. t.kind \in {"system", "user", "result"}
    BY TurnFacts, SpeakerIs
<1>2. m \in Msgs
      /\ m = CASE t.kind = "result" -> Message("tool", String(t.parts), <<>>, t.id)
               [] t.kind = "user" -> Message("user", UserContent(t.parts), <<>>, NoId)
               [] t.kind = "system" -> Message("system", String(t.parts), <<>>, NoId)
    BY ChatTurnType DEF ChatTurnOf
<1>3. /\ t.kind = "result" => m.role = "tool" /\ m.id = t.id
      /\ t.kind \in {"system", "user"} => m.role = t.kind
    BY <1>2 DEF Message
<1> HIDE DEF m
<1>4. MsgEvents[m] = IF t.kind = "result" THEN <<Event("result", t.id)>> ELSE <<>>
    BY <1>1, <1>2, <1>3 DEF MsgEvents
<1>5. TurnEv[t] = IF t.kind = "result" THEN <<Event("result", t.id)>> ELSE <<>>
    BY <1>1 DEF TurnEv
<1>6. QED
    BY <1>4, <1>5 DEF m

\* The calls of an assistant, who gives no results.
LEMMA KindEv ==
    ASSUME NEW run \in Seq(Turns), \A i \in DOMAIN run : run[i].kind # "result"
    PROVE  Each(CallEvent, Each(TurnId, Kind(run, "call"))) = Spread(TurnEv, run)
<1> DEFINE K == KindOf("call")
           Y == [t \in Turns |-> Event("call", t.id)]
           X == [t \in Turns |-> <<Event("call", t.id)>>]
           Z == [t \in Turns |-> IF t.kind = "call" THEN X[t] ELSE <<>>]
           s == Kind(run, "call")
<1>1. s = Spread(K, run) /\ s \in Seq(Turns)
    BY KindIs
<1>2. \A t \in Turns : t.id \in Ids
    BY TurnFacts
<1>3. \A t \in Turns : Event("call", t.id) \in Events
    BY <1>2 DEF Event, Events
<1>4. Y \in [Turns -> Events] /\ Spreads(X, Turns, Events) /\ Singly(X, Y, Turns)
    BY <1>3 DEF Spreads, Singly
<1>5. Through(CallEvent, TurnId, Y, Turns)
    BY <1>2 DEF TurnId, Through, CallEvent
<1>6. \A t \in Turns : Spread(X, K[t]) = Z[t]
    <2>1. ASSUME NEW t \in Turns PROVE Spread(X, K[t]) = Z[t]
        <3>1. K[t] = IF t.kind = "call" THEN <<t>> ELSE <<>>
            BY DEF KindOf
        <3>2. Z[t] = IF t.kind = "call" THEN X[t] ELSE <<>>
            OBVIOUS
        <3> HIDE DEF X, K, Z
        <3>3. Spread(X, <<t>>) = X[t]
            BY <1>4, SpreadOne
        <3>4. QED
            BY <3>1, <3>2, <3>3, SpreadNone
    <2>2. QED
        BY <2>1
<1>7. Spreads(K, Turns, Turns)
    BY KindOfType
<1>8. \A i \in DOMAIN run : Z[run[i]] = TurnEv[run[i]]
    <2>1. ASSUME NEW i \in DOMAIN run PROVE Z[run[i]] = TurnEv[run[i]]
        <3>1. run[i] \in Turns /\ run[i].kind # "result"
            OBVIOUS
        <3>2. ASSUME NEW t \in Turns, t.kind # "result" PROVE Z[t] = TurnEv[t]
            BY <3>2 DEF TurnEv
        <3>3. QED
            BY <3>1, <3>2
    <2>2. QED
        BY <2>1
<1> HIDE DEF X, Y, Z, K, s
<1>9. Each(CallEvent, Each(TurnId, s)) = Each(Y, s)
    BY <1>1, <1>5, EachEach
<1>10. Spread(X, s) = Each(Y, s)
    BY <1>1, <1>4, SpreadSingles
<1>11. Spread(X, Spread(K, run)) = Spread(Z, run)
    BY <1>4, <1>6, <1>7, SpreadSpread
<1>12. Spread(Z, run) = Spread(TurnEv, run)
    BY <1>8, SameEach
<1>13. QED
    BY <1>1, <1>9, <1>10, <1>11, <1>12 DEF s

LEMMA ChatRunEv ==
    ASSUME NEW run \in TurnRuns
    PROVE  Spread(MsgEvents, ChatOfRun[run]) = RunEv[run]
<1>1. ChatOfRun[run] = ChatRun(run) /\ RunEv[run] = Spread(TurnEv, run)
    BY DEF ChatOfRun, RunEv
<1>2. RunFacts(run)
    BY TurnRunFacts
<1>3. CASE Speaker[run[1].kind] # "assistant"
    <2>1. ChatRun(run) = Each(ChatTurnOf, run)
        BY <1>3, ChatRunIs
    <2>2. \A i \in DOMAIN run : run[i] \in Turns /\ Speaker[run[i].kind] # "assistant"
        BY <1>2, <1>3 DEF RunFacts
    <2>3. \A i \in DOMAIN run : MsgEvents[ChatTurnOf[run[i]]] = TurnEv[run[i]]
        BY <2>2, ChatTurnEv
    <2>4. Each(MsgEvents, Each(ChatTurnOf, run)) = Each(TurnEv, run)
        BY <2>3 DEF Each
    <2>5. QED
        BY <1>1, <2>1, <2>4 DEF Spread
<1>4. CASE Speaker[run[1].kind] = "assistant"
    <2> DEFINE ids == Each(TurnId, Kind(run, "call"))
               m == AssistantRun(run)
    <2>1. ChatRun(run) = <<m>> /\ m \in Msgs
        BY <1>4, ChatRunIs
    <2>2. m.role = "assistant" /\ m.calls = ids
        BY DEF AssistantRun, Message
    <2>3. run \in Seq(Turns) /\ \A i \in DOMAIN run : run[i].kind # "result"
        BY <1>2, <1>4 DEF RunFacts
    <2>4. Each(CallEvent, ids) = Spread(TurnEv, run)
        BY <2>3, KindEv
    <2> HIDE DEF ids, m
    <2>5. MsgEvents[m] = Each(CallEvent, ids)
        BY <2>1, <2>2 DEF MsgEvents
    <2>6. Spread(MsgEvents, <<m>>) = MsgEvents[m]
        BY <2>1, MsgEventsType, SpreadOne
    <2>7. QED
        BY <1>1, <2>1, <2>4, <2>5, <2>6
<1>5. QED
    BY <1>3, <1>4

\* Calls and results of what is said are calls and results of what is written.
LEMMA FineTranscript ==
    ASSUME NEW q, Fine(q), NEW ms \in Seq(Msgs),
           Spread(MsgEvents, ms) = Spread(TurnEv, Rest(q))
    PROVE  CodexToolTranscript(ms)
<1>1. Rest(q) \in Seq(Turns) /\ WellSaid(Rest(q))
    BY RestFine
<1>2. Tidy(Spread(MsgEvents, ms))
    BY <1>1, SaidTidy
<1>3. TidyBy(MsgEvents, ms)
    BY <1>2, MsgEventsType, PlacesTidy
<1>4. QED
    BY <1>3, TidyTranscript

LEMMA FineWithin ==
    ASSUME NEW q, Fine(q), NEW W, Spreads(W, TurnRuns, Msgs),
           \A run : FineRun(run, q.provider) => W[run] \in Seq(FineMsgs(q.provider)),
           NEW ms, ms = Spread(W, Runs(Rest(q), q.grouped))
    PROVE  ms \in Seq(FineMsgs(q.provider))
<1> DEFINE runs == Runs(Rest(q), q.grouped)
           F == FineMsgs(q.provider)
<1>1. runs \in Seq(TurnRuns)
    BY RestIs DEF Fine
<1>2. \A i \in DOMAIN runs : FineRun(runs[i], q.provider)
    BY RunsFine
<1>3. \A i \in DOMAIN runs : W[runs[i]] \in Seq(F)
    BY <1>2
<1> HIDE DEF runs, F
<1>4. \A i \in DOMAIN runs : \A j \in DOMAIN W[runs[i]] : W[runs[i]][j] \in F
    BY <1>3
<1>5. Spread(W, runs) \in Seq(F)
    BY <1>1, <1>4, SpreadWithin
<1>6. QED
    BY <1>5 DEF runs, F

LEMMA ChatFine ==
    ASSUME NEW q, Fine(q), q.dialect = "chat", NEW ms, ms = Body(q).turns
    PROVE  /\ ms \in Seq(FineMsgs(q.provider)) /\ ms # <<>> /\ CodexToolTranscript(ms)
<1> DEFINE runs == Runs(Rest(q), q.grouped)
<1>1. /\ ms = Spread(ChatOfRun, runs) /\ ms \in Seq(Msgs)
    BY BodyTurns DEF Fine
<1>2. runs \in Seq(TurnRuns) /\ Flatten(runs) = Rest(q)
    BY RestIs DEF Fine
<1>3. ASSUME NEW run, FineRun(run, q.provider)
      PROVE  ChatOfRun[run] \in Seq(FineMsgs(q.provider)) /\ ChatOfRun[run] # <<>>
    <2>1. ChatOfRun[run] = ChatRun(run)
        BY <1>3 DEF FineRun, ChatOfRun
    <2>2. QED
        BY <1>3, <2>1, ChatRunFine
<1>4. ms \in Seq(FineMsgs(q.provider))
    BY <1>1, <1>3, ChatOfRunType, FineWithin
<1>5. ms # <<>>
    <2>1. runs # <<>>
        BY RunsSome
    <2> HIDE DEF runs
    <2>2. 1 \in DOMAIN runs
        BY <1>2, <2>1
    <2>3. ChatOfRun[runs[1]] # <<>>
        BY <1>3, <2>2, RunsFine DEF runs
    <2>4. QED
        BY <1>1, <1>2, <2>2, <2>3, ChatOfRunType, SpreadSome
<1>6. Spread(MsgEvents, ms) = Spread(TurnEv, Rest(q))
    <2>1. \A run \in TurnRuns : Spread(MsgEvents, ChatOfRun[run]) = RunEv[run]
        BY ChatRunEv
    <2> HIDE DEF runs
    <2>2. Spread(MsgEvents, Spread(ChatOfRun, runs)) = Spread(RunEv, runs)
        BY <1>2, <2>1, ChatOfRunType, MsgEventsType, SpreadSpread
    <2>3. QED
        BY <1>1, <1>2, <2>2, RunsEv
<1>7. QED
    BY <1>1, <1>4, <1>5, <1>6, FineTranscript
-----------------------------------------------------------------------------
(* A Responses client writes such a conversation.                          *)

\* What a body holds besides its turns.
LEMMA BodyRest ==
    ASSUME NEW q
    PROVE  /\ Body(q).options = q.options /\ Body(q).tools = q.tools
           /\ Body(q).toolChoice = q.toolChoice /\ Body(q).stream = q.stream
BY DEF Body

LEMMA ItemOfIs ==
    ASSUME NEW t \in Turns
    PROVE  /\ ItemOf[t] \in RItems /\ ItemOf[t].parts = t.parts /\ ItemOf[t].id = t.id
           /\ t.kind = "call" => ItemOf[t].type = "function_call"
           /\ t.kind = "result" => ItemOf[t].type = "function_call_output"
           /\ t.kind \in Worded => ItemOf[t].type = "message" /\ ItemOf[t].role = t.kind
           /\ ~ItemOf[t].structured /\ ~ItemOf[t].namespaced
           /\ t.kind \in {"call", "result"} \cup Worded
<1>1. t.kind \in {"system", "user", "result", "assistant", "call"}
    BY TurnFacts
<1>2. /\ DOMAIN ResponsesType = {"call", "result"} /\ ResponsesType["call"] = "function_call"
      /\ ResponsesType["result"] = "function_call_output"
    BY DEF ResponsesType
<1>3. ItemOf[t] = ResponsesItem(t)
    BY DEF ItemOf
<1>4. ItemOf[t] \in RItems
    BY ItemOfType
<1>5. QED
    BY <1>1, <1>2, <1>3, <1>4 DEF ResponsesItem, Worded

\* Its items pass their decoder, one by one and as a transcript.
LEMMA ItemsFine ==
    ASSUME NEW said \in Seq(Turns), WellSaid(said)
    PROVE  \A i \in DOMAIN Each(ItemOf, said) : R!ItemAllowed(Each(ItemOf, said)[i])
<1> DEFINE rs == Each(ItemOf, said)
<1> SUFFICES ASSUME NEW i \in DOMAIN rs PROVE R!ItemAllowed(rs[i])
    OBVIOUS
<1>1. i \in DOMAIN said /\ rs[i] = ItemOf[said[i]] /\ said[i] \in Turns
    BY DEF Each
<1> DEFINE t == said[i]
<1>2. t.kind \in Worded => t.parts # <<>>
    BY <1>1 DEF WellSaid
<1>3. t.kind \in {"call", "result"} => t.id # NoId
    BY <1>1, TurnFacts, ConversationAssumption
<1>4. t \in Turns /\ rs[i] = ItemOf[t]
    BY <1>1
<1> HIDE DEF t, rs
<1>5. /\ rs[i].parts = t.parts /\ rs[i].id = t.id
      /\ t.kind = "call" => rs[i].type = "function_call"
      /\ t.kind = "result" => rs[i].type = "function_call_output"
      /\ t.kind \in Worded => rs[i].type = "message" /\ rs[i].role = t.kind
      /\ t.kind \in {"call", "result"} \cup Worded
    BY <1>4, ItemOfIs
<1>6. QED
    BY <1>2, <1>3, <1>5 DEF R!ItemAllowed, R!CallAllowed, R!CallTypes, R!Answers, Worded

LEMMA ItemsTranscript ==
    ASSUME NEW said \in Seq(Turns), WellSaid(said)
    PROVE  R!ToolTranscript(Each(ItemOf, said))
<1> DEFINE rs == Each(ItemOf, said)
<1>1. DOMAIN rs = DOMAIN said /\ \A i \in DOMAIN rs : rs[i] = ItemOf[said[i]] /\ said[i] \in Turns
    BY DEF Each
<1>2. \A i \in DOMAIN rs :
        /\ rs[i].id = said[i].id
        /\ said[i].kind = "call" => rs[i].type = "function_call"
        /\ said[i].kind = "result" => rs[i].type = "function_call_output"
        /\ said[i].kind \in Worded => rs[i].type = "message"
        /\ said[i].kind \in {"call", "result"} \cup Worded
    <2>1. ASSUME NEW i \in DOMAIN rs
          PROVE  /\ rs[i].id = said[i].id
                 /\ said[i].kind = "call" => rs[i].type = "function_call"
                 /\ said[i].kind = "result" => rs[i].type = "function_call_output"
                 /\ said[i].kind \in Worded => rs[i].type = "message"
                 /\ said[i].kind \in {"call", "result"} \cup Worded
        BY <1>1, ItemOfIs
    <2>2. QED
        BY <2>1
<1> HIDE DEF rs
<1>3. /\ {i \in DOMAIN rs : rs[i].type \in R!CallTypes} = Those(said, "call")
      /\ {i \in DOMAIN rs : rs[i].type \in DOMAIN R!Answers} = Those(said, "result")
    BY <1>1, <1>2 DEF R!CallTypes, R!Answers, Worded, Those
<1>4. /\ \A i \in Those(said, "call") : rs[i].id = said[i].id /\ rs[i].type = "function_call"
      /\ \A i \in Those(said, "result") :
           rs[i].id = said[i].id /\ R!Answers[rs[i].type] = "function_call"
    BY <1>1, <1>2 DEF R!Answers, Those
<1> DEFINE calls == Those(said, "call")
           outputs == Those(said, "result")
<1>5. /\ \A i, j \in calls : said[i].id = said[j].id => i = j
      /\ \A i, j \in outputs : said[i].id = said[j].id => i = j
      /\ \A c \in calls : \E o \in outputs : c < o /\ said[c].id = said[o].id
      /\ \A o \in outputs : \E c \in calls : c < o /\ said[c].id = said[o].id
    BY DEF WellSaid
<1> HIDE DEF calls, outputs
<1>6. /\ \A i, j \in calls : rs[i].id = rs[j].id => i = j
      /\ \A i, j \in outputs : rs[i].id = rs[j].id => i = j
      /\ \A o \in outputs :
           \E c \in {d \in calls : d < o /\ rs[d].id = rs[o].id} :
             rs[c].type = R!Answers[rs[o].type]
      /\ \A c \in calls : \E o \in outputs : rs[o].id = rs[c].id
    BY <1>4, <1>5 DEF calls, outputs
<1>7. QED
    BY <1>3, <1>6 DEF R!ToolTranscript, calls, outputs, rs

LEMMA ResponsesDecoded ==
    ASSUME NEW q, Fine(q), q.dialect = "responses"
    PROVE  R!DecodeEnvelope(Body(q)) /\ R!DecodeResponses(Body(q))
<1>1. Rest(q) \in Seq(Turns) /\ WellSaid(Rest(q)) /\ Rest(q) # <<>>
    BY RestFine, RunsSome
<1>2. Body(q).turns = Each(ItemOf, Rest(q))
    BY BodyTurns DEF Fine
<1>3. Body(q).turns # <<>>
    BY <1>1, <1>2 DEF Each
<1>4. /\ \A i \in DOMAIN Body(q).turns : R!ItemAllowed(Body(q).turns[i])
      /\ R!ToolTranscript(Body(q).turns)
    BY <1>1, <1>2, ItemsFine, ItemsTranscript
<1>5. Body(q).options = {} /\ Body(q).toolChoice = "absent" /\ Body(q).stream
    BY BodyRest DEF Fine
<1>6. R!DecodeEnvelope(Body(q))
    BY <1>5 DEF R!DecodeEnvelope
<1>7. QED
    BY <1>3, <1>4, <1>5, <1>6 DEF R!DecodeResponses

LEMMA ResponsesConvertible ==
    ASSUME NEW q, Fine(q), q.dialect = "responses"
    PROVE  R!Convertible(q.provider, Body(q))
<1>1. Rest(q) \in Seq(Turns) /\ Body(q).turns = Each(ItemOf, Rest(q))
    BY RestFine, BodyTurns DEF Fine
<1>2. /\ Body(q).options = {} /\ Body(q).tools = <<>>
    BY BodyRest DEF Fine
<1>3. \A i \in DOMAIN Body(q).turns : R!ItemConvertible(Body(q).turns[i])
    <2>1. ASSUME NEW t \in Turns PROVE R!ItemConvertible(ItemOf[t])
        <3>1. /\ ItemOf[t].parts = t.parts
              /\ t.kind = "call" => ItemOf[t].type = "function_call"
              /\ t.kind = "result" => ItemOf[t].type = "function_call_output"
              /\ t.kind \in Worded => ItemOf[t].type = "message" /\ ItemOf[t].role = t.kind
              /\ ~ItemOf[t].structured /\ ~ItemOf[t].namespaced
              /\ t.kind \in {"call", "result"} \cup Worded
            BY ItemOfIs
        <3>2. t.kind # "user" => ~HasImage(t.parts)
            BY TurnFacts
        <3>3. \A x : R!HasImage(x) <=> HasImage(x)
            BY DEF R!HasImage, HasImage
        <3>4. R!HasImage(t.parts) => t.kind = "user"
            BY <3>2, <3>3
        <3>5. QED
            BY <3>1, <3>4 DEF R!ItemConvertible, Worded
    <2>2. QED
        BY <1>1, <2>1 DEF Each
<1>4. Len(Body(q).tools) <= MaxTools /\ DOMAIN Body(q).tools = {}
    BY <1>2, MaxToolsAssumption
<1>5. QED
    BY <1>2, <1>3, <1>4 DEF R!Convertible

\* There is something to send to Codex besides instructions.
LEMMA InputSome ==
    ASSUME NEW q, Fine(q), q.dialect = "responses"
    PROVE  R!CodexInput(Body(q).turns) # <<>>
<1> DEFINE said == Rest(q)
           rs == Each(ItemOf, said)
           s == Spread(NotSystemOf, rs)
<1>1. /\ said \in Seq(Turns) /\ \E i \in DOMAIN said : said[i].kind # "system"
      /\ Body(q).turns = rs /\ rs \in Seq(RItems)
    BY RestFine, BodyTurns DEF Fine
<1>2. PICK i \in DOMAIN said : said[i].kind # "system"
    BY <1>1
<1>3. i \in DOMAIN rs /\ rs[i] = ItemOf[said[i]] /\ said[i] \in Turns
    BY <1>1, <1>2 DEF Each
<1> DEFINE t == said[i]
           x == ItemOf[t]
<1>4. /\ t.kind \in {"call", "result"} => x.type # "message"
      /\ t.kind \in Worded => x.role = t.kind
      /\ t.kind \in {"call", "result"} \cup Worded /\ t.kind # "system" /\ x \in RItems
    BY <1>2, <1>3, ItemOfIs
<1>5. ~R!IsSystem(x)
    BY <1>4 DEF R!IsSystem, Worded
<1>6. NotSystemOf[x] = <<x>> /\ <<x>> # <<>>
    BY <1>4, <1>5 DEF NotSystemOf
<1>7. rs[i] = x
    BY <1>3
<1> HIDE DEF rs, said, t, x
<1>8. NotSystemOf[rs[i]] # <<>>
    BY <1>6, <1>7
<1>9. s # <<>>
    BY <1>1, <1>3, <1>8, NotSystemType, SpreadSome
<1>10. R!CodexInput(rs) = Each(RawOf, s) /\ s \in Seq(RItems)
    BY <1>1, InputIs
<1> HIDE DEF s
<1>11. Each(RawOf, s) # <<>>
    BY <1>9, <1>10 DEF Each
<1>12. QED
    BY <1>1, <1>10, <1>11

\* Every item, and every run of calls, becomes a message that its provider takes.
FineItem(x, provider) ==
    /\ x \in RItems
    /\ x.type = "message" => x.parts # <<>>
    /\ x.type # "message" => x.id \in CallIds /\ x.id # NoId
    /\ provider = "deepseek" => ~HasImage(x.parts)

LEMMA TurnItemFine ==
    ASSUME NEW q, Fine(q), NEW i \in DOMAIN Rest(q)
    PROVE  FineItem(ItemOf[Rest(q)[i]], q.provider)
<1> DEFINE t == Rest(q)[i]
<1>1. t \in Turns /\ (t.kind \in Worded => t.parts # <<>>)
    BY RestFine DEF WellSaid
<1>2. q.provider = "deepseek" => ~HasImage(t.parts)
    BY RestFine DEF Shown
<1>3. t.kind \in {"call", "result"} => t.id \in CallIds /\ t.id # NoId
    BY <1>1, TurnFacts, ConversationAssumption
<1> HIDE DEF t
<1>4. /\ ItemOf[t] \in RItems /\ ItemOf[t].parts = t.parts /\ ItemOf[t].id = t.id
      /\ t.kind = "call" => ItemOf[t].type = "function_call"
      /\ t.kind = "result" => ItemOf[t].type = "function_call_output"
      /\ t.kind \in Worded => ItemOf[t].type = "message"
      /\ t.kind \in {"call", "result"} \cup Worded
    BY <1>1, ItemOfIs
<1>5. FineItem(ItemOf[t], q.provider)
    BY <1>1, <1>2, <1>3, <1>4 DEF FineItem
<1>6. QED
    BY <1>5 DEF t

LEMMA RRunFine ==
    ASSUME NEW provider, NEW run \in RRuns,
           \A k \in DOMAIN run : FineItem(run[k], provider)
    PROVE  R!ChatOf(run) \in FineMsgs(provider)
<1> DEFINE x == run[1]
<1>1. /\ x \in RItems /\ run \in Seq(RItems)
      /\ \/ run \in Seq(RCalls) /\ x.type = "function_call"
         \/ run = <<x>> /\ x.type # "function_call"
    BY RunKinds
<1>2. 1 \in DOMAIN run /\ run # <<>>
    BY DEF RRuns
<1>3. /\ x.type = "message" =>
           R!ChatOf(run) = Message(x.role, R!ChatContent(x), <<>>, NoId)
      /\ x.type = "function_call" =>
           R!ChatOf(run) = Message("assistant", Null, [i \in DOMAIN run |-> run[i].id], NoId)
      /\ x.type = "function_call_output" =>
           R!ChatOf(run) = Message("tool", String(x.parts), <<>>, x.id)
    BY ChatOfIs
<1>4. FineItem(x, provider)
    BY <1>2
<1>5. /\ x.type \in {"message", "function_call", "function_call_output"}
      /\ x.parts \in Seq(Pieces) /\ x.id \in Ids
      /\ x.role \in {"none", "system", "user", "assistant"}
      /\ x.role = "none" <=> x.type # "message"
      /\ x.role # "user" => ~HasImage(x.parts)
    BY <1>1, RItemFields
<1>6. CASE x.type = "message"
    <2>1. R!ChatContent(x) = IF HasImage(x.parts) THEN Array(x.parts) ELSE String(x.parts)
        BY DEF R!ChatContent, R!HasImage, HasImage, R!Array, Array, R!String, String
    <2>2. x.parts # <<>> /\ (provider = "deepseek" => ~HasImage(x.parts))
        BY <1>4, <1>6 DEF FineItem
    <2>3. String(x.parts) \in Contents /\ String(x.parts).form = "string" /\ <<>> \in Seq(CallIds)
        BY <1>5, ContentForm DEF String
    <2> HIDE DEF x
    <2>4. /\ Message("system", String(x.parts), <<>>, NoId) \in FineMsgs(provider)
          /\ Message("user", String(x.parts), <<>>, NoId) \in FineMsgs(provider)
          /\ x.parts # <<>> /\ provider # "deepseek" =>
               Message("user", Array(x.parts), <<>>, NoId) \in FineMsgs(provider)
        BY <1>5, FineForms
    <2>5. Message("assistant", String(x.parts), <<>>, NoId) \in FineMsgs(provider)
        BY <2>3, FineAssistant
    <2>6. x.role \in {"system", "user", "assistant"}
        BY <1>5, <1>6
    <2>7. QED
        BY <1>3, <1>5, <1>6, <2>1, <2>2, <2>4, <2>5, <2>6
<1>7. CASE x.type = "function_call"
    <2> DEFINE ids == [i \in DOMAIN run |-> run[i].id]
    <2>1. run \in Seq(RCalls)
        BY <1>1, <1>7
    <2>2. \A i \in DOMAIN run : run[i].id \in CallIds
        <3>1. \A i \in DOMAIN run : run[i].type = "function_call"
            BY <2>1 DEF RCalls
        <3>2. QED
            BY <3>1 DEF FineItem
    <2>3. ids \in Seq(CallIds) /\ ids # <<>>
        BY <1>1, <1>2, <2>2
    <2>4. Null \in Contents
        BY DEF Null, Contents
    <2> HIDE DEF ids
    <2>5. Message("assistant", Null, ids, NoId) \in FineMsgs(provider)
        BY <2>3, <2>4, FineAssistant
    <2>6. QED
        BY <1>3, <1>7, <2>5 DEF ids
<1>8. CASE x.type = "function_call_output"
    <2>1. x.id # NoId
        BY <1>4, <1>8 DEF FineItem
    <2> HIDE DEF x
    <2>2. Message("tool", String(x.parts), <<>>, x.id) \in FineMsgs(provider)
        BY <1>5, <2>1, FineForms
    <2>3. QED
        BY <1>3, <1>8, <2>2
<1>9. QED
    BY <1>5, <1>6, <1>7, <1>8

LEMMA InputMessagesFine ==
    ASSUME NEW q, Fine(q), q.dialect = "responses"
    PROVE  /\ R!InputToChatMessages(Body(q)) \in Seq(FineMsgs(q.provider))
           /\ R!InputToChatMessages(Body(q)) # <<>>
<1> DEFINE rs == Each(ItemOf, Rest(q))
           cuts == R!RunStarts(rs)
           runs == Cut(rs, cuts)
           F == FineMsgs(q.provider)
           text == Flatten(Body(q).system)
<1>1. /\ Body(q).turns = rs /\ rs \in Seq(RItems) /\ text \in Seq(Pieces) /\ Telling(q)
      /\ Rest(q) \in Seq(Turns) /\ Rest(q) # <<>>
    BY RestFine, RunsSome, BodyTurns, BodySystem DEF Fine
<1>2. PICK ms \in Seq(Msgs) :
        /\ R!InputToChatMessages(Body(q)) = SystemFirst(text) \o ms
        /\ ms = [i \in DOMAIN runs |-> R!ChatOf(runs[i])]
    BY <1>1, InputMessages
<1>3. rs # <<>> /\ 1 \in cuts
    BY <1>1 DEF Each, R!RunStarts
<1>4. \A i \in DOMAIN rs : FineItem(rs[i], q.provider)
    BY TurnItemFine DEF Each
<1>5. runs \in Seq(RRuns)
    <2>1. runs \in Seq(Seq(RItems))
        BY <1>1, CutType
    <2>2. \A n \in DOMAIN runs : runs[n] \in RRuns
        BY <1>1, RunShape
    <2> HIDE DEF runs
    <2>3. QED
        BY <2>1, <2>2
<1>6. ASSUME NEW n \in DOMAIN runs PROVE R!ChatOf(runs[n]) \in F
    <2>1. runs[n] \in RRuns
        BY <1>1, <1>6, RunShape
    <2>2. PICK i \in DOMAIN rs : \E j \in i .. Len(rs) : runs[n] = SubSeq(rs, i, j)
        BY <1>1, <1>6, CutRuns
    <2>3. PICK j \in i .. Len(rs) : runs[n] = SubSeq(rs, i, j)
        BY <2>2
    <2> DEFINE run == runs[n]
    <2>4. \A k \in DOMAIN run : \E h \in DOMAIN rs : run[k] = rs[h]
        <3> HIDE DEF rs, runs
        <3>1. QED
            BY <1>1, <2>2, <2>3, SMTT(30)
    <2>5. \A k \in DOMAIN run : FineItem(run[k], q.provider)
        BY <1>4, <2>4
    <2> HIDE DEF run, rs, runs, F
    <2>6. R!ChatOf(run) \in F
        BY <2>1, <2>5, RRunFine DEF F, run
    <2>7. QED
        BY <2>6 DEF run
<1>7. runs # <<>>
    <2>1. Flatten(runs) = rs
        BY <1>1, <1>3, CutFlatten
    <2>2. QED
        BY <1>3, <2>1, FlattenNone
<1>8. ms \in Seq(F) /\ ms # <<>>
    <2>1. \A n \in DOMAIN runs : R!ChatOf(runs[n]) \in F
        BY <1>6
    <2>2. ms = [n \in DOMAIN runs |-> R!ChatOf(runs[n])]
        BY <1>2
    <2> HIDE DEF runs, F
    <2>3. DOMAIN runs = 1 .. Len(runs) /\ Len(runs) \in Nat /\ runs # <<>>
        BY <1>5, <1>7
    <2>4. ms \in Seq(F) /\ DOMAIN ms = 1 .. Len(runs) /\ Len(runs) # 0
        BY <2>1, <2>2, <2>3
    <2>5. QED
        BY <2>3, <2>4
<1>9. SystemFirst(text) \in Seq(F)
    <2> HIDE DEF text, F
    <2>1. NoId \in Ids
        BY DEF Ids
    <2>2. Message("system", String(text), <<>>, NoId) \in F
        BY <1>1, <2>1, FineForms DEF F
    <2> DEFINE m == Message("system", String(text), <<>>, NoId)
    <2>3. SystemFirst(text) = IF text = <<>> THEN <<>> ELSE <<m>>
        BY DEF SystemFirst
    <2> HIDE DEF m
    <2>4. <<m>> \in Seq(F) /\ <<>> \in Seq(F)
        BY <2>2 DEF m
    <2>5. QED
        BY <2>3, <2>4
<1>10. QED
    <2> HIDE DEF F, runs, text
    <2>1. SystemFirst(text) \o ms \in Seq(F) /\ SystemFirst(text) \o ms # <<>>
        BY <1>8, <1>9
    <2>2. QED
        BY <1>2, <2>1 DEF F

LEMMA ResponsesPresentable ==
    ASSUME NEW q, Fine(q), q.dialect = "responses", NEW req,
           req = R!ToChatCompletionRequest(q.provider, Body(q))
    PROVE  Presentable(q.provider, req) /\ req.options = {}
<1>1. Body(q).options = {} /\ Body(q).tools = <<>>
    BY BodyRest DEF Fine
<1>2. R!Renamed({}) = {}
    BY DEF R!Renamed
<1>3. req.options = {} /\ req.tools = <<>> /\ req.toolChoice = "absent"
    BY <1>1, <1>2 DEF R!ToChatCompletionRequest, R!ChatRequest
<1>4. CASE q.provider = "codex"
    <2>1. req.messages = <<>> /\ req.codexInput = R!CodexInput(Body(q).turns)
        BY <1>4 DEF R!ToChatCompletionRequest, R!ChatRequest, R!Preserves
    <2>2. req.codexInput # <<>>
        BY <2>1, InputSome
    <2>3. CodexToolTranscript(<<>>)
        BY DEF CodexToolTranscript, AnsweredOnce, ResultsAt
    <2>4. QED
        BY <1>3, <2>1, <2>2, <2>3 DEF Presentable
<1>5. CASE q.provider # "codex"
    <2>1. req.messages = R!InputToChatMessages(Body(q))
        BY <1>5 DEF R!ToChatCompletionRequest, R!ChatRequest, R!Preserves
    <2>2. req.messages \in Seq(FineMsgs(q.provider)) /\ req.messages # <<>>
        BY <2>1, InputMessagesFine
    <2>3. QED
        BY <1>3, <1>5, <2>2 DEF Presentable
<1>6. QED
    BY <1>3, <1>4, <1>5
-----------------------------------------------------------------------------
(* An Anthropic client writes such a conversation.                         *)

LEMMA AMsgIs ==
    ASSUME NEW run \in TurnRuns
    PROVE  /\ AMsgOf[run] \in AMsgs /\ AMsgOf[run].role = Speaker[run[1].kind]
           /\ AMsgOf[run].blocks = Each(BlockOf, run)
           /\ DOMAIN AMsgOf[run].blocks = DOMAIN run
           /\ \A i \in DOMAIN run : AMsgOf[run].blocks[i] = BlockOf[run[i]]
<1>1. RunFacts(run)
    BY TurnRunFacts
<1>2. AMsgOf[run] \in AMsgs
    BY AMsgOfType
<1>3. /\ AMsgOf[run].role = Speaker[run[1].kind]
      /\ AMsgOf[run].blocks = [j \in DOMAIN run |-> Block(run[j])]
    BY <1>1 DEF RunFacts, AMsgOf
<1>4. \A i \in DOMAIN run : Block(run[i]) = BlockOf[run[i]]
    BY <1>1 DEF RunFacts, BlockOf
<1>5. QED
    BY <1>2, <1>3, <1>4 DEF Each

LEMMA AMsgAllowed ==
    ASSUME NEW run, NEW provider, FineRun(run, provider)
    PROVE  A!MessageAllowed(AMsgOf[run])
<1>1. run \in TurnRuns /\ RunFacts(run)
    BY TurnRunFacts DEF FineRun
<1> DEFINE m == AMsgOf[run]
<1>2. /\ m.role = Speaker[run[1].kind] /\ DOMAIN m.blocks = DOMAIN run
      /\ \A i \in DOMAIN run : m.blocks[i] = BlockOf[run[i]]
    BY <1>1, AMsgIs
<1>3. m.role \in {"user", "assistant", "system"} /\ 1 \in DOMAIN m.blocks
    BY <1>1, <1>2 DEF RunFacts
<1>4. ASSUME NEW i \in DOMAIN m.blocks PROVE A!BlockAllowed(m.role, m.blocks[i])
    <2>1. run[i] \in Turns /\ m.blocks[i] = BlockOf[run[i]]
          /\ (m.role = "system" => run[i].kind = "system")
        BY <1>1, <1>2, <1>4 DEF RunFacts
    <2>2. run[i].kind \in {"call", "result"} => run[i].id # NoId
        BY <2>1, TurnFacts, ConversationAssumption
    <2> DEFINE t == run[i]
               b == BlockOf[t]
    <2>3. /\ b.id = t.id
          /\ t.kind \in {"system", "assistant"} => b.type = "text"
          /\ t.kind = "user" => b.type \in {"text", "image"}
          /\ t.kind = "call" => b.type = "tool_use"
          /\ t.kind = "result" => b.type = "tool_result"
        BY <2>1, BlockIs
    <2>4. t.kind \in {"system", "user", "result", "assistant", "call"}
        BY <2>1, TurnFacts
    <2> HIDE DEF t, b, m
    <2>5. A!BlockAllowed(m.role, b)
        BY <2>1, <2>2, <2>3, <2>4 DEF A!BlockAllowed, A!TextTypes, A!Thoughts, t
    <2>6. QED
        BY <2>1, <2>5 DEF b, t
<1> HIDE DEF m
<1>5. m.blocks # <<>>
    BY <1>3
<1>6. A!MessageAllowed(m)
    BY <1>3, <1>4, <1>5 DEF A!MessageAllowed
<1>7. QED
    BY <1>6 DEF m

LEMMA AnthropicTurns ==
    ASSUME NEW q, Fine(q), q.dialect \in {"anthropic", "count_tokens"}
    PROVE  /\ Body(q).turns # <<>> /\ Body(q).turns = Each(AMsgOf, Runs(Rest(q), q.grouped))
           /\ \A i \in DOMAIN Body(q).turns : A!MessageAllowed(Body(q).turns[i])
<1> DEFINE runs == Runs(Rest(q), q.grouped)
<1>1. Body(q).turns = Each(AMsgOf, runs)
    BY BodyTurns DEF Fine
<1>2. runs # <<>> /\ runs \in Seq(TurnRuns)
    BY RunsSome, RestIs DEF Fine
<1>3. \A i \in DOMAIN runs : A!MessageAllowed(AMsgOf[runs[i]])
    BY RunsFine, AMsgAllowed
<1> HIDE DEF runs
<1>4. /\ DOMAIN Each(AMsgOf, runs) = DOMAIN runs
      /\ \A i \in DOMAIN runs : Each(AMsgOf, runs)[i] = AMsgOf[runs[i]]
    BY DEF Each
<1>5. Each(AMsgOf, runs) # <<>>
    BY <1>2, <1>4
<1>6. QED
    BY <1>1, <1>3, <1>4, <1>5 DEF runs

LEMMA AnthropicDecoded ==
    ASSUME NEW q, Fine(q)
    PROVE  /\ q.dialect = "anthropic" => A!DecodeRequest(Body(q))
           /\ q.dialect = "count_tokens" =>
                A!DecodeRequest([Body(q) EXCEPT !.options = @ \cup {"max_tokens"}])
<1>1. /\ Body(q).options = q.options /\ Body(q).toolChoice = "absent"
      /\ DOMAIN Body(q) = {"system", "turns", "options", "tools", "toolChoice", "stream"}
      /\ Body(q) = [field \in DOMAIN Body(q) |-> Body(q)[field]]
    BY BodyRest DEF Fine, Body
<1>2. CASE q.dialect = "anthropic"
    <2>1. Body(q).options = {"max_tokens"}
        BY <1>1, <1>2 DEF Fine
    <2>2. QED
        BY <1>1, <1>2, <2>1, AnthropicTurns DEF A!DecodeRequest, A!AnthropicFields
<1>3. CASE q.dialect = "count_tokens"
    <2>1. Body(q).options = {}
        BY <1>1, <1>3 DEF Fine
    <2> DEFINE b == [Body(q) EXCEPT !.options = @ \cup {"max_tokens"}]
    <2>2. b.options = {"max_tokens"} /\ b.turns = Body(q).turns /\ b.toolChoice = "absent"
        BY <1>1, <2>1
    <2> HIDE DEF b
    <2>3. A!DecodeRequest(b)
        BY <1>3, <2>2, AnthropicTurns DEF A!DecodeRequest, A!AnthropicFields
    <2>4. QED
        BY <1>3, <2>3 DEF b
<1>4. QED
    BY <1>2, <1>3

\* Nobody writes the blocks of another speaker.
LEMMA RunInPlace ==
    ASSUME NEW run \in TurnRuns
    PROVE  A!InPlace(AMsgOf[run])
<1> DEFINE m == AMsgOf[run]
<1>1. RunFacts(run)
    BY TurnRunFacts
<1>2. /\ m \in AMsgs /\ m.role = Speaker[run[1].kind] /\ m.blocks = Each(BlockOf, run)
      /\ DOMAIN m.blocks = DOMAIN run /\ \A i \in DOMAIN run : m.blocks[i] = BlockOf[run[i]]
    BY AMsgIs
<1>3. m.blocks \in Seq(ABlocks)
    BY <1>2 DEF AMsgs
<1>4. ASSUME NEW types, \A i \in DOMAIN run : BlockOf[run[i]].type \notin types
      PROVE  A!Blocks(m, types) = <<>>
    <2>1. A!Blocks(m, types) = Spread(BlocksOf(types), m.blocks)
        BY <1>2, BlocksAre
    <2>2. \A i \in DOMAIN m.blocks : BlocksOf(types)[m.blocks[i]] = <<>>
        <3>1. ASSUME NEW i \in DOMAIN m.blocks PROVE BlocksOf(types)[m.blocks[i]] = <<>>
            <4>1. m.blocks[i] \in ABlocks /\ m.blocks[i].type \notin types
                BY <1>2, <1>3, <1>4
            <4>2. QED
                BY <4>1 DEF BlocksOf, Counts
        <3>2. QED
            BY <3>1
    <2> HIDE DEF m
    <2>3. Spread(BlocksOf(types), m.blocks) = <<>>
        BY <1>3, <2>2, BlocksOfType, SpreadNothing
    <2>4. QED
        BY <2>1, <2>3
<1>5. \A i \in DOMAIN run :
        /\ Speaker[run[1].kind] = "user" => BlockOf[run[i]].type \notin {"tool_use"}
        /\ Speaker[run[1].kind] = "assistant" =>
             BlockOf[run[i]].type \notin {"image", "tool_result"}
    BY <1>1, BlockIs DEF RunFacts
<1>6. m.role = "user" => A!Blocks(m, {"tool_use"}) = <<>>
    BY <1>2, <1>4, <1>5
<1>7. m.role = "assistant" => A!Blocks(m, {"image", "tool_result"}) = <<>>
    BY <1>2, <1>4, <1>5
<1>8. QED
    BY <1>6, <1>7 DEF A!InPlace

\* The events of the blocks of one type are those of the turns they stand for.
KindEvents(kind) == [b \in ABlocks |-> <<Event(kind, b.id)>>]
BlockEvent(kind) == [b \in ABlocks |-> Event(kind, b.id)]
LEMMA BlockEvents ==
    ASSUME NEW kind \in {"call", "result"}, NEW bs \in Seq(ABlocks),
           NEW V, V = [id \in Ids |-> Event(kind, id)]
    PROVE  /\ Each(V, A!IdsOf(bs)) = Spread(KindEvents(kind), bs)
           /\ Spreads(KindEvents(kind), ABlocks, Events)
<1>1. \A b \in ABlocks : b.id \in Ids
    BY BlockFields
<1>2. \A b \in ABlocks : Event(kind, b.id) \in Events
    BY <1>1 DEF Event, Events
<1>3. BlockEvent(kind) \in [ABlocks -> Events] /\ Spreads(KindEvents(kind), ABlocks, Events)
      /\ Singly(KindEvents(kind), BlockEvent(kind), ABlocks)
    BY <1>2 DEF BlockEvent, KindEvents, Spreads, Singly
<1>4. Through(V, IdOf, BlockEvent(kind), ABlocks)
    BY <1>1 DEF Through, IdOf, BlockEvent
<1>5. A!IdsOf(bs) = Each(IdOf, bs)
    BY IdsAre
<1>6. Each(V, Each(IdOf, bs)) = Each(BlockEvent(kind), bs)
    BY <1>4, EachEach
<1>7. Spread(KindEvents(kind), bs) = Each(BlockEvent(kind), bs)
    BY <1>3, SpreadSingles
<1>8. QED
    BY <1>3, <1>5, <1>6, <1>7

LEMMA TurnBlockEvents ==
    ASSUME NEW run \in TurnRuns, NEW kind \in {"call", "result"}, NEW type,
           type = IF kind = "call" THEN "tool_use" ELSE "tool_result",
           \A i \in DOMAIN run : run[i].kind \in {"call", "result"} => run[i].kind = kind
    PROVE  BlockFor(KindEvents(kind), {type}, TurnEv, run)
<1>1. RunFacts(run)
    BY TurnRunFacts
<1>2. ASSUME NEW i \in DOMAIN run
      PROVE  TurnEv[run[i]] = IF Counts(BlockOf[run[i]], {type})
                              THEN KindEvents(kind)[BlockOf[run[i]]] ELSE <<>>
    <2>1. run[i] \in Turns
        BY <1>1 DEF RunFacts
    <2>2. ASSUME NEW t \in Turns, t.kind \in {"call", "result"} => t.kind = kind
          PROVE  TurnEv[t] = IF Counts(BlockOf[t], {type})
                             THEN KindEvents(kind)[BlockOf[t]] ELSE <<>>
        <3>1. t.kind \in {"system", "user", "result", "assistant", "call"}
            BY TurnFacts
        <3>2. A!TextTypes = {"text", "compaction"}
            BY DEF A!TextTypes
        <3>3. Counts(BlockOf[t], {type}) <=> t.kind = kind
            BY <3>1, <3>2, BlockIs DEF Counts
        <3>4. KindEvents(kind)[BlockOf[t]] = <<Event(kind, t.id)>>
            BY BlockIs DEF KindEvents
        <3>5. TurnEv[t] = IF t.kind = kind THEN <<Event(kind, t.id)>> ELSE <<>>
            BY <2>2, <3>1 DEF TurnEv
        <3>6. QED
            BY <3>3, <3>4, <3>5
    <2>3. QED
        BY <2>1, <2>2
<1>3. QED
    BY <1>2 DEF BlockFor

\* A message has the calls and results of the run it is written of.
LEMMA ARunEv ==
    ASSUME NEW run \in TurnRuns
    PROVE  AEvents[AMsgOf[run]] = RunEv[run]
<1> DEFINE m == AMsgOf[run]
<1>1. RunFacts(run)
    BY TurnRunFacts
<1>2. m \in AMsgs /\ m.role = Speaker[run[1].kind] /\ RunEv[run] = Spread(TurnEv, run)
    BY AMsgIs DEF RunEv
<1>3. ASSUME NEW kind \in {"call", "result"}, NEW type, NEW V,
             V = [id \in Ids |-> Event(kind, id)],
             type = IF kind = "call" THEN "tool_use" ELSE "tool_result",
             \A i \in DOMAIN run : run[i].kind \in {"call", "result"} => run[i].kind = kind
      PROVE  Each(V, A!IdsOf(A!Blocks(m, {type}))) = Spread(TurnEv, run)
    <2>1. A!Blocks(m, {type}) \in Seq(ABlocks)
        BY <1>2, BlocksAre
    <2>2. /\ Each(V, A!IdsOf(A!Blocks(m, {type}))) = Spread(KindEvents(kind), A!Blocks(m, {type}))
          /\ Spreads(KindEvents(kind), ABlocks, Events)
        <3> HIDE DEF m
        <3>1. \A bs \in Seq(ABlocks) :
                /\ Each(V, A!IdsOf(bs)) = Spread(KindEvents(kind), bs)
                /\ Spreads(KindEvents(kind), ABlocks, Events)
            BY <1>3, BlockEvents
        <3>2. QED
            BY <2>1, <3>1
    <2>3. BlockFor(KindEvents(kind), {type}, TurnEv, run)
        BY <1>3, TurnBlockEvents
    <2>4. Spread(KindEvents(kind), A!Blocks(m, {type})) = Spread(TurnEv, run)
        BY <2>2, <2>3, RunBlocks
    <2>5. QED
        BY <2>2, <2>4
<1>4. CASE m.role = "user"
    <2>1. \A i \in DOMAIN run : run[i].kind \in {"call", "result"} => run[i].kind = "result"
        BY <1>1, <1>2, <1>4 DEF RunFacts
    <2>2. ResultEvent = [id \in Ids |-> Event("result", id)]
        BY DEF ResultEvent
    <2>3. Each(ResultEvent, A!IdsOf(A!Blocks(m, {"tool_result"}))) = Spread(TurnEv, run)
        BY <1>3, <2>1, <2>2
    <2>4. A!Results(m) = A!IdsOf(A!Blocks(m, {"tool_result"}))
        BY <1>4 DEF A!Results
    <2> HIDE DEF m
    <2>5. AEvents[m] = Each(ResultEvent, A!Results(m))
        BY <1>2, <1>4 DEF AEvents
    <2>6. QED
        BY <1>2, <2>3, <2>4, <2>5 DEF m
<1>5. CASE m.role = "assistant"
    <2>1. \A i \in DOMAIN run : run[i].kind \in {"call", "result"} => run[i].kind = "call"
        BY <1>1, <1>2, <1>5 DEF RunFacts
    <2>2. CallEvent = [id \in Ids |-> Event("call", id)]
        BY DEF CallEvent
    <2>3. Each(CallEvent, A!IdsOf(A!Blocks(m, {"tool_use"}))) = Spread(TurnEv, run)
        BY <1>3, <2>1, <2>2
    <2>4. A!Uses(m) = A!IdsOf(A!Blocks(m, {"tool_use"}))
        BY <1>5 DEF A!Uses
    <2> HIDE DEF m
    <2>5. AEvents[m] = Each(CallEvent, A!Uses(m))
        BY <1>2, <1>5 DEF AEvents
    <2>6. QED
        BY <1>2, <2>3, <2>4, <2>5 DEF m
<1>6. CASE m.role = "system"
    <2>1. \A i \in DOMAIN run : TurnEv[run[i]] = <<>>
        <3>1. \A i \in DOMAIN run : run[i] \in Turns /\ run[i].kind = "system"
            BY <1>1, <1>2, <1>6 DEF RunFacts
        <3>2. QED
            BY <3>1 DEF TurnEv
    <2>2. Spread(TurnEv, run) = <<>>
        BY <1>1, <2>1, TurnEvType, SpreadNothing DEF RunFacts
    <2>3. A!Uses(m) = <<>>
        BY <1>6 DEF A!Uses
    <2> HIDE DEF m
    <2>4. AEvents[m] = Each(CallEvent, A!Uses(m))
        BY <1>2, <1>6 DEF AEvents
    <2>5. AEvents[m] = <<>>
        BY <2>3, <2>4, NoCalls
    <2>6. QED
        BY <1>2, <2>2, <2>5 DEF m
<1>7. QED
    BY <1>1, <1>2, <1>4, <1>5, <1>6 DEF RunFacts

\* Calls and results that are in order are all that ResultsAnswer asks for.
LEMMA TidyAnswers ==
    ASSUME NEW ts \in Seq(AMsgs), TidyBy(AEvents, ts)
    PROVE  A!ResultsAnswer(ts)
<1>1. Len(ts) \in Nat /\ DOMAIN ts = 1 .. Len(ts)
    OBVIOUS
<1>2. \A i \in DOMAIN ts : \A j \in DOMAIN AEvents[ts[i]] :
        AEvents[ts[i]][j].kind = "result" =>
          CalledBefore(AEvents, ts, i, j) /\ AnsweredBy(AEvents, ts, i, j)
    BY DEF TidyBy
<1>3. \A i \in DOMAIN ts : \A j \in DOMAIN A!Results(ts[i]) :
        /\ j \in DOMAIN AEvents[ts[i]] /\ AEvents[ts[i]][j].kind = "result"
        /\ AEvents[ts[i]][j].id = A!Results(ts[i])[j]
    BY AResultAt, EventFields
<1>4. ASSUME NEW i \in DOMAIN ts, NEW id \in ToSet(A!Results(ts[i]))
      PROVE  \E c \in 1 .. (i - 1) : id \in ToSet(A!Uses(ts[c]))
    <2>1. PICK j \in DOMAIN A!Results(ts[i]) : A!Results(ts[i])[j] = id
        BY DEF ToSet
    <2>2. /\ j \in DOMAIN AEvents[ts[i]] /\ AEvents[ts[i]][j].id = id
          /\ CalledBefore(AEvents, ts, i, j)
        BY <1>2, <1>3, <1>4, <2>1
    <2>3. PICK h \in DOMAIN ts : \E l \in DOMAIN AEvents[ts[h]] :
            /\ Before(h, l, i, j) /\ AEvents[ts[h]][l].kind = "call"
            /\ AEvents[ts[h]][l].id = AEvents[ts[i]][j].id
        BY <2>2 DEF CalledBefore
    <2>4. PICK l \in DOMAIN AEvents[ts[h]] :
            /\ Before(h, l, i, j) /\ AEvents[ts[h]][l].kind = "call"
            /\ AEvents[ts[h]][l].id = AEvents[ts[i]][j].id
        BY <2>3
    <2>5. ts[h].role = "assistant" /\ l \in DOMAIN A!Uses(ts[h]) /\ A!Uses(ts[h])[l] = id
        BY <2>2, <2>4, AEventAt, EventFields
    <2>6. h # i
        <3>1. ts[i].role = "user"
            <4>1. A!Results(ts[i]) # <<>>
                BY <2>1
            <4>2. QED
                BY <4>1, ResultsUses
        <3>2. QED
            BY <2>5, <3>1
    <2>7. h < i
        BY <2>4, <2>6 DEF Before
    <2>8. h \in 1 .. (i - 1)
        BY <1>1, <1>4, <2>7
    <2>9. id \in ToSet(A!Uses(ts[h]))
        BY <2>5 DEF ToSet
    <2>10. QED
        BY <2>8, <2>9
<1>5. ASSUME NEW n \in DOMAIN A!Answered(ts), NEW o \in DOMAIN A!Answered(ts),
             A!Answered(ts)[n] = A!Answered(ts)[o]
      PROVE  n = o
    <2> DEFINE all == Spread(ResultIds, ts)
    <2>1. all = A!Answered(ts) /\ Spreads(ResultIds, AMsgs, Ids)
        BY ResultIdsAre
    <2>2. \A i \in DOMAIN ts : ResultIds[ts[i]] = A!Results(ts[i])
        BY DEF ResultIds
    <2>3. \A k \in DOMAIN all : \E i \in DOMAIN ts : \E j \in DOMAIN A!Results(ts[i]) :
            k = At(Each(ResultIds, ts), i, j) /\ all[k] = A!Results(ts[i])[j]
        <3>1. /\ \A i \in DOMAIN ts : \A j \in DOMAIN ResultIds[ts[i]] :
                   all[At(Each(ResultIds, ts), i, j)] = ResultIds[ts[i]][j]
              /\ \A k \in DOMAIN all : \E i \in DOMAIN ts : \E j \in DOMAIN ResultIds[ts[i]] :
                   k = At(Each(ResultIds, ts), i, j)
            BY <2>1, SpreadPlaces
        <3> HIDE DEF all
        <3>2. QED
            BY <2>2, <3>1
    <2>4. PICK i \in DOMAIN ts : \E j \in DOMAIN A!Results(ts[i]) :
            n = At(Each(ResultIds, ts), i, j) /\ all[n] = A!Results(ts[i])[j]
        BY <1>5, <2>1, <2>3
    <2>5. PICK j \in DOMAIN A!Results(ts[i]) :
            n = At(Each(ResultIds, ts), i, j) /\ all[n] = A!Results(ts[i])[j]
        BY <2>4
    <2>6. PICK h \in DOMAIN ts : \E l \in DOMAIN A!Results(ts[h]) :
            o = At(Each(ResultIds, ts), h, l) /\ all[o] = A!Results(ts[h])[l]
        BY <1>5, <2>1, <2>3
    <2>7. PICK l \in DOMAIN A!Results(ts[h]) :
            o = At(Each(ResultIds, ts), h, l) /\ all[o] = A!Results(ts[h])[l]
        BY <2>6
    <2>8. A!Results(ts[i])[j] = A!Results(ts[h])[l]
        BY <1>5, <2>1, <2>5, <2>7
    <2>9. AnsweredBy(AEvents, ts, i, j)
        BY <1>2, <1>3
    <2>10. h = i /\ l = j
        BY <1>3, <2>8, <2>9 DEF AnsweredBy
    <2>11. QED
        BY <2>5, <2>7, <2>10
<1>6. \A x : A!ToSet(x) = ToSet(x)
    BY DEF A!ToSet, ToSet
<1>7. QED
    BY <1>4, <1>5, <1>6 DEF A!ResultsAnswer

LEMMA AnthropicPossible ==
    ASSUME NEW q, Fine(q), q.dialect = "anthropic"
    PROVE  /\ A!Possible(Body(q))
           /\ Body(q).turns \in Seq(AMsgs)
           /\ Spread(AEvents, Body(q).turns) = Spread(TurnEv, Rest(q))
<1> DEFINE runs == Runs(Rest(q), q.grouped)
           ts == Each(AMsgOf, runs)
<1>1. /\ Body(q).turns = ts /\ ts \in Seq(AMsgs) /\ runs \in Seq(TurnRuns)
      /\ Flatten(runs) = Rest(q)
    BY BodyTurns, RestIs DEF Fine
<1>2. Rest(q) \in Seq(Turns) /\ WellSaid(Rest(q))
    BY RestFine
<1>3. Through(AEvents, AMsgOf, RunEv, TurnRuns)
    BY ARunEv DEF Through
<1>4. Spread(AEvents, ts) = Spread(RunEv, runs)
    <2> HIDE DEF runs
    <2>1. QED
        BY <1>1, <1>3, SpreadEach
<1>5. Spread(RunEv, runs) = Spread(TurnEv, Rest(q))
    <2> HIDE DEF runs
    <2>1. QED
        BY <1>1, RunsEv
<1>6. Tidy(Spread(AEvents, ts))
    BY <1>2, <1>4, <1>5, SaidTidy
<1>7. A!ResultsAnswer(ts)
    <2> HIDE DEF ts
    <2>1. TidyBy(AEvents, ts)
        BY <1>1, <1>6, AEventsType, PlacesTidy
    <2>2. QED
        BY <1>1, <2>1, TidyAnswers
<1>8. \A i \in DOMAIN ts : A!InPlace(ts[i])
    <2> HIDE DEF runs
    <2>1. QED
        BY <1>1, RunInPlace DEF Each
<1>9. QED
    BY <1>1, <1>4, <1>5, <1>7, <1>8 DEF A!Possible

\* The user says one thing of a run, to a provider that takes no lists of things.
FineUser(run, provider) ==
    provider = "deepseek" =>
      \A i, j \in DOMAIN run : run[i].kind = "user" /\ run[j].kind = "user" => i = j

\* What is written of a run has only blocks that the turns of the run became.
LEMMA BlocksWithin ==
    ASSUME NEW run \in TurnRuns, NEW types, NEW U,
           \A i \in DOMAIN run : Counts(BlockOf[run[i]], types) => BlockOf[run[i]] \in U
    PROVE  A!Blocks(AMsgOf[run], types) \in Seq(U)
<1> DEFINE m == AMsgOf[run]
<1>1. /\ m \in AMsgs /\ DOMAIN m.blocks = DOMAIN run
      /\ \A i \in DOMAIN run : m.blocks[i] = BlockOf[run[i]]
    BY AMsgIs
<1>2. m.blocks \in Seq(ABlocks) /\ A!Blocks(m, types) = Spread(BlocksOf(types), m.blocks)
    BY <1>1, BlocksAre DEF AMsgs
<1>3. \A i \in DOMAIN m.blocks : \A j \in DOMAIN BlocksOf(types)[m.blocks[i]] :
        BlocksOf(types)[m.blocks[i]][j] \in U
    <2>1. ASSUME NEW i \in DOMAIN m.blocks, NEW j \in DOMAIN BlocksOf(types)[m.blocks[i]]
          PROVE  BlocksOf(types)[m.blocks[i]][j] \in U
        <3> DEFINE b == m.blocks[i]
        <3>1. b \in ABlocks /\ (Counts(b, types) => b \in U)
            BY <1>1, <1>2
        <3> HIDE DEF b
        <3>2. BlocksOf(types)[b] = IF Counts(b, types) THEN <<b>> ELSE <<>>
            BY <3>1 DEF BlocksOf
        <3>3. j \in DOMAIN BlocksOf(types)[b]
            BY DEF b
        <3>4. Counts(b, types) /\ BlocksOf(types)[b][j] = b
            BY <3>2, <3>3
        <3>5. QED
            BY <3>1, <3>4 DEF b
    <2>2. QED
        BY <2>1
<1> HIDE DEF m
<1>4. Spread(BlocksOf(types), m.blocks) \in Seq(U)
    BY <1>2, <1>3, BlocksOfType, SpreadWithin
<1>5. QED
    BY <1>2, <1>4 DEF m

LEMMA BlocksSome ==
    ASSUME NEW run \in TurnRuns, NEW types, NEW i \in DOMAIN run,
           Counts(BlockOf[run[i]], types)
    PROVE  A!Blocks(AMsgOf[run], types) # <<>>
<1> DEFINE m == AMsgOf[run]
           b == BlockOf[run[i]]
<1>1. m \in AMsgs /\ i \in DOMAIN m.blocks /\ m.blocks[i] = b
    BY AMsgIs
<1>2. m.blocks \in Seq(ABlocks) /\ A!Blocks(m, types) = Spread(BlocksOf(types), m.blocks)
      /\ b \in ABlocks
    BY <1>1, BlocksAre DEF AMsgs
<1> HIDE DEF b, m
<1>3. BlocksOf(types)[b] = <<b>>
    BY <1>2 DEF BlocksOf, b
<1>4. BlocksOf(types)[m.blocks[i]] # <<>>
    BY <1>1, <1>3
<1>5. Spread(BlocksOf(types), m.blocks) # <<>>
    BY <1>1, <1>2, <1>4, BlocksOfType, SpreadSome
<1>6. QED
    BY <1>2, <1>5 DEF m

LEMMA BlocksLone ==
    ASSUME NEW run \in TurnRuns, NEW types,
           \A i, j \in DOMAIN run :
             Counts(BlockOf[run[i]], types) /\ Counts(BlockOf[run[j]], types) => i = j
    PROVE  Len(A!Blocks(AMsgOf[run], types)) <= 1
<1> DEFINE m == AMsgOf[run]
<1>1. /\ m \in AMsgs /\ DOMAIN m.blocks = DOMAIN run
      /\ \A i \in DOMAIN run : m.blocks[i] = BlockOf[run[i]]
    BY AMsgIs
<1>2. m.blocks \in Seq(ABlocks) /\ A!Blocks(m, types) = Spread(BlocksOf(types), m.blocks)
    BY <1>1, BlocksAre DEF AMsgs
<1>3. \A i \in DOMAIN m.blocks :
        /\ Len(BlocksOf(types)[m.blocks[i]]) <= 1
        /\ BlocksOf(types)[m.blocks[i]] # <<>> => Counts(BlockOf[run[i]], types)
    <2>1. ASSUME NEW i \in DOMAIN m.blocks
          PROVE  /\ Len(BlocksOf(types)[m.blocks[i]]) <= 1
                 /\ BlocksOf(types)[m.blocks[i]] # <<>> => Counts(BlockOf[run[i]], types)
        <3> DEFINE b == m.blocks[i]
        <3>1. b \in ABlocks /\ b = BlockOf[run[i]]
            BY <1>1, <1>2
        <3> HIDE DEF b
        <3>2. BlocksOf(types)[b] = IF Counts(b, types) THEN <<b>> ELSE <<>>
            BY <3>1 DEF BlocksOf
        <3>3. Len(<<b>>) = 1 /\ Len(<<>>) = 0
            OBVIOUS
        <3>4. /\ Len(BlocksOf(types)[b]) <= 1
              /\ BlocksOf(types)[b] # <<>> => Counts(b, types)
            BY <3>2, <3>3
        <3>5. QED
            BY <3>1, <3>4 DEF b
    <2>2. QED
        BY <2>1
<1>4. /\ \A i \in DOMAIN m.blocks : Len(BlocksOf(types)[m.blocks[i]]) <= 1
      /\ \A i, h \in DOMAIN m.blocks :
           BlocksOf(types)[m.blocks[i]] # <<>> /\ BlocksOf(types)[m.blocks[h]] # <<>> => i = h
    BY <1>1, <1>3
<1> HIDE DEF m
<1>5. Len(Spread(BlocksOf(types), m.blocks)) <= 1
    BY <1>2, <1>4, BlocksOfType, SpreadLone
<1>6. QED
    BY <1>2, <1>5 DEF m

\* What a turn becomes, and when it counts.
LEMMA TurnBlock ==
    ASSUME NEW provider, NEW run, FineRun(run, provider), NEW i \in DOMAIN run
    PROVE  /\ run[i] \in Turns /\ BlockOf[run[i]] \in ABlocks
           /\ run[i].kind = "result" =>
                BlockOf[run[i]].type = "tool_result" /\ BlockOf[run[i]].id \in CallIds
           /\ run[i].kind = "call" =>
                BlockOf[run[i]].type = "tool_use" /\ BlockOf[run[i]].id \in CallIds
           /\ run[i].kind \in {"system", "assistant"} =>
                BlockOf[run[i]].type = "text" /\ BlockOf[run[i]].parts # <<>>
           /\ run[i].kind = "user" =>
                /\ BlockOf[run[i]].type \in {"text", "image"} /\ BlockOf[run[i]].parts # <<>>
                /\ provider = "deepseek" => BlockOf[run[i]].type = "text"
           /\ run[i].kind \in {"system", "user", "result", "assistant", "call"}
<1> DEFINE t == run[i]
<1>1. t \in Turns /\ (t.kind \in Worded => t.parts # <<>>)
      /\ (provider = "deepseek" => ~HasImage(t.parts))
    BY TurnRunFacts DEF FineRun, RunFacts
<1> HIDE DEF t
<1>2. /\ BlockOf[t] \in ABlocks /\ BlockOf[t].parts = t.parts /\ BlockOf[t].id = t.id
      /\ t.kind \in {"system", "assistant"} => BlockOf[t].type = "text"
      /\ t.kind = "user" => BlockOf[t].type \in {"text", "image"}
      /\ t.kind = "call" => BlockOf[t].type = "tool_use"
      /\ t.kind = "result" => BlockOf[t].type = "tool_result"
    BY <1>1, BlockIs
<1>3. /\ t.kind \in {"system", "user", "result", "assistant", "call"}
      /\ t.kind \in {"call", "result"} => t.id \in CallIds
    BY <1>1, TurnFacts
<1>4. t.kind = "user" /\ ~HasImage(t.parts) => BlockOf[t].type = "text"
    BY <1>1 DEF BlockOf, Block
<1>5. QED
    BY <1>1, <1>2, <1>3, <1>4 DEF Worded, t

LEMMA ResultsFine ==
    ASSUME NEW provider, NEW run, FineRun(run, provider)
    PROVE  A!ResultMessages(AMsgOf[run]) \in Seq(FineMsgs(provider))
<1> DEFINE m == AMsgOf[run]
           U == {b \in ABlocks : b.id \in CallIds}
           bs == A!Blocks(m, {"tool_result"})
           F == FineMsgs(provider)
<1>1. run \in TurnRuns /\ m \in AMsgs
    BY AMsgIs DEF FineRun
<1>2. \A i \in DOMAIN run : Counts(BlockOf[run[i]], {"tool_result"}) => BlockOf[run[i]] \in U
    BY TurnBlock DEF Counts
<1>3. bs \in Seq(U)
    BY <1>1, <1>2, BlocksWithin
<1>4. A!ResultMessages(m) = Each(ResultOf, bs)
    BY <1>1, ResultsAre
<1>5. ASSUME NEW b \in U PROVE ResultOf[b] \in F
    <2>1. b \in ABlocks /\ b.id \in Ids /\ b.id # NoId /\ b.parts \in Seq(Pieces)
        BY <1>5, BlockFields, ConversationAssumption
    <2>2. ResultOf[b] = Message("tool", String(b.parts), <<>>, b.id)
        BY <2>1 DEF ResultOf
    <2>3. \A parts \in Seq(Pieces), id \in Ids :
            id # NoId => Message("tool", String(parts), <<>>, id) \in F
        BY FineForms
    <2>4. QED
        BY <2>1, <2>2, <2>3
<1> HIDE DEF bs, F, U
<1>6. \A i \in DOMAIN bs : ResultOf[bs[i]] \in F
    BY <1>3, <1>5
<1>7. DOMAIN bs = 1 .. Len(bs) /\ Len(bs) \in Nat
    BY <1>3
<1>8. Each(ResultOf, bs) \in Seq(F)
    BY <1>6, <1>7 DEF Each
<1>9. QED
    BY <1>4, <1>8 DEF F

LEMMA UserFine ==
    ASSUME NEW provider, NEW run, FineRun(run, provider), FineUser(run, provider),
           Speaker[run[1].kind] = "user"
    PROVE  A!UserMessage(AMsgOf[run]) \in Seq(FineMsgs(provider))
<1> DEFINE m == AMsgOf[run]
           types == A!TextTypes \cup {"image"}
           U == {b \in ABlocks : b.parts # <<>> /\ (provider = "deepseek" => b.type # "image")}
           bs == A!Blocks(m, types)
           F == FineMsgs(provider)
<1>1. run \in TurnRuns /\ m \in AMsgs /\ RunFacts(run)
    BY AMsgIs, TurnRunFacts DEF FineRun
<1>2. \A i \in DOMAIN run :
        Counts(BlockOf[run[i]], types) => run[i].kind = "user" /\ BlockOf[run[i]] \in U
    <2>1. \A i \in DOMAIN run : run[i].kind \in {"user", "result"}
        BY <1>1 DEF RunFacts
    <2>2. QED
        BY <2>1, TurnBlock DEF Counts, A!TextTypes
<1>3. bs \in Seq(U)
    BY <1>1, <1>2, BlocksWithin
<1>4. provider = "deepseek" => Len(bs) <= 1
    <2>1. ASSUME provider = "deepseek" PROVE Len(bs) <= 1
        <3>1. \A i, j \in DOMAIN run :
                Counts(BlockOf[run[i]], types) /\ Counts(BlockOf[run[j]], types) => i = j
            BY <1>2, <2>1 DEF FineUser
        <3>2. QED
            BY <1>1, <3>1, BlocksLone
    <2>2. QED
        BY <2>1
<1>5. A!UserMessage(m) =
        CASE bs = <<>> -> <<>>
          [] Len(bs) = 1 /\ bs[1].type # "image" ->
                 <<Message("user", String(bs[1].parts), <<>>, NoId)>>
          [] OTHER -> <<Message("user", Array(A!PartsOf(bs)), <<>>, NoId)>>
    BY SameForms DEF A!UserMessage
<1>6. bs \in Seq(ABlocks) /\ NoId \in Ids /\ A!PartsOf(bs) = Spread(BlockParts, bs)
      /\ A!PartsOf(bs) \in Seq(Pieces)
    BY <1>1, BlocksAre, IdsAre DEF Ids
<1>7. \A parts \in Seq(Pieces) :
        /\ Message("user", String(parts), <<>>, NoId) \in F
        /\ parts # <<>> /\ provider # "deepseek" =>
             Message("user", Array(parts), <<>>, NoId) \in F
    BY <1>6, FineForms
<1> HIDE DEF bs, F, types, m
<1>8. CASE bs = <<>>
    <2>1. A!UserMessage(m) = <<>>
        BY <1>5, <1>8
    <2>2. QED
        BY <2>1 DEF F, m
<1>9. CASE bs # <<>> /\ Len(bs) = 1 /\ bs[1].type # "image"
    <2> DEFINE msg == Message("user", String(bs[1].parts), <<>>, NoId)
    <2>1. A!UserMessage(m) = <<msg>>
        BY <1>5, <1>9
    <2>2. bs[1].parts \in Seq(Pieces)
        BY <1>6, <1>9, BlockFields
    <2>3. msg \in F
        BY <1>7, <2>2
    <2> HIDE DEF msg
    <2>4. <<msg>> \in Seq(F)
        BY <2>3
    <2>5. QED
        BY <2>1, <2>4 DEF F, m
<1>10. CASE bs # <<>> /\ ~(Len(bs) = 1 /\ bs[1].type # "image")
    <2> DEFINE msg == Message("user", Array(A!PartsOf(bs)), <<>>, NoId)
    <2>1. A!UserMessage(m) = <<msg>>
        BY <1>5, <1>10
    <2>2. 1 \in DOMAIN bs /\ bs[1] \in U /\ bs[1] \in ABlocks /\ Len(bs) \in Nat /\ Len(bs) # 0
        BY <1>3, <1>6, <1>10
    <2>3. provider # "deepseek"
        <3>1. provider = "deepseek" => bs[1].type # "image"
            BY <2>2
        <3> HIDE DEF U
        <3>2. provider = "deepseek" => Len(bs) = 1
            BY <1>4, <2>2
        <3>3. QED
            BY <1>10, <3>1, <3>2
    <2>4. BlockParts[bs[1]] # <<>>
        BY <2>2 DEF BlockParts
    <2>5. Spreads(BlockParts, ABlocks, Pieces)
        BY BlockFields DEF BlockParts, Spreads
    <2>6. A!PartsOf(bs) # <<>>
        BY <1>6, <2>2, <2>4, <2>5, SpreadSome
    <2>7. msg \in F
        BY <1>6, <1>7, <2>3, <2>6
    <2> HIDE DEF msg
    <2>8. <<msg>> \in Seq(F)
        BY <2>7
    <2>9. QED
        BY <2>1, <2>8 DEF F, m
<1>11. QED
    BY <1>8, <1>9, <1>10

LEMMA AssistantFine ==
    ASSUME NEW provider, NEW run, FineRun(run, provider), Speaker[run[1].kind] = "assistant"
    PROVE  A!AssistantMessage(AMsgOf[run]) \in FineMsgs(provider)
<1> DEFINE m == AMsgOf[run]
           U == {b \in ABlocks : b.id \in CallIds}
           texts == A!Blocks(m, A!TextTypes)
           uses == A!Blocks(m, {"tool_use"})
           ids == A!IdsOf(uses)
           content == IF uses # <<>> /\ texts = <<>> THEN Null ELSE String(A!PartsOf(texts))
<1>1. run \in TurnRuns /\ m \in AMsgs /\ RunFacts(run)
    BY AMsgIs, TurnRunFacts DEF FineRun
<1>2. \A i \in DOMAIN run : Counts(BlockOf[run[i]], {"tool_use"}) => BlockOf[run[i]] \in U
    BY TurnBlock DEF Counts
<1>3. uses \in Seq(U)
    BY <1>1, <1>2, BlocksWithin
<1>4. texts \in Seq(ABlocks) /\ A!PartsOf(texts) \in Seq(Pieces)
    BY <1>1, BlocksAre, IdsAre
<1>5. content \in Contents /\ (content.form = "string" \/ (content = Null /\ uses # <<>>))
    <2>1. String(A!PartsOf(texts)) \in Contents /\ String(A!PartsOf(texts)).form = "string"
          /\ Null \in Contents
        BY <1>4, ContentForm DEF String
    <2>2. content = Null \/ content = String(A!PartsOf(texts))
        OBVIOUS
    <2>3. (content = Null /\ uses # <<>>) \/ content = String(A!PartsOf(texts))
        OBVIOUS
    <2> HIDE DEF content
    <2>4. QED
        BY <2>1, <2>2, <2>3
<1>6. ids = [i \in DOMAIN uses |-> uses[i].id]
    BY DEF A!IdsOf
<1> HIDE DEF uses
<1>7. ids \in Seq(CallIds) /\ (uses # <<>> => ids # <<>>)
    <2>1. DOMAIN uses = 1 .. Len(uses) /\ Len(uses) \in Nat
          /\ \A i \in DOMAIN uses : uses[i].id \in CallIds
        BY <1>3
    <2>2. QED
        BY <1>6, <2>1
<1>8. A!AssistantMessage(m) = Message("assistant", content, ids, NoId)
    BY SameForms DEF A!AssistantMessage, uses
<1> HIDE DEF content, ids
<1>9. content.form = "string" \/ (content = Null /\ ids # <<>>)
    BY <1>5, <1>7
<1>10. Message("assistant", content, ids, NoId) \in FineMsgs(provider)
    BY <1>5, <1>7, <1>9, FineAssistant
<1>11. QED
    BY <1>8, <1>10

LEMMA SystemFine ==
    ASSUME NEW provider, NEW parts \in Seq(Pieces)
    PROVE  A!SystemMessage(parts) \in FineMsgs(provider)
<1>1. NoId \in Ids
    BY DEF Ids
<1>2. A!SystemMessage(parts) = Message("system", String(parts), <<>>, NoId)
    BY SameForms DEF A!SystemMessage
<1>3. Message("system", String(parts), <<>>, NoId) \in FineMsgs(provider)
    BY <1>1, FineForms
<1>4. QED
    BY <1>2, <1>3

\* Every message becomes messages that the provider takes, at least one.
LEMMA TurnFine ==
    ASSUME NEW provider, NEW run, FineRun(run, provider), FineUser(run, provider)
    PROVE  TurnOf[AMsgOf[run]] \in Seq(FineMsgs(provider))
<1> DEFINE m == AMsgOf[run]
           F == FineMsgs(provider)
<1>1. run \in TurnRuns /\ m \in AMsgs /\ m.role = Speaker[run[1].kind] /\ RunFacts(run)
    BY AMsgIs, TurnRunFacts DEF FineRun
<1>2. TurnOf[m] = A!Turn(m)
    BY <1>1 DEF TurnOf
<1>3. CASE m.role = "system"
    <2> DEFINE msg == A!SystemMessage(A!PartsOf(A!Blocks(m, A!TextTypes)))
    <2>1. A!Turn(m) = <<msg>>
        BY <1>3 DEF A!Turn
    <2>2. A!PartsOf(A!Blocks(m, A!TextTypes)) \in Seq(Pieces)
        BY <1>1, BlocksAre, IdsAre
    <2>3. \A parts \in Seq(Pieces) : A!SystemMessage(parts) \in F
        BY SystemFine
    <2>4. msg \in F
        BY <2>2, <2>3
    <2> HIDE DEF msg, F
    <2>5. <<msg>> \in Seq(F)
        BY <2>4
    <2>6. QED
        BY <1>2, <2>1, <2>5 DEF F
<1>4. CASE m.role = "user"
    <2>1. A!Turn(m) = A!ResultMessages(m) \o A!UserMessage(m)
        BY <1>4 DEF A!Turn, A!UserTurn
    <2>2. A!ResultMessages(m) \in Seq(F) /\ A!UserMessage(m) \in Seq(F)
        BY <1>1, <1>4, ResultsFine, UserFine
    <2> HIDE DEF F, m
    <2>3. A!ResultMessages(m) \o A!UserMessage(m) \in Seq(F)
        BY <2>2, ConcatType
    <2>4. QED
        BY <1>2, <2>1, <2>3 DEF F, m
<1>5. CASE m.role = "assistant"
    <2> DEFINE msg == A!AssistantMessage(m)
    <2>1. A!Turn(m) = <<msg>>
        BY <1>5 DEF A!Turn
    <2>2. msg \in F
        BY <1>1, <1>5, AssistantFine
    <2> HIDE DEF msg, F
    <2>3. <<msg>> \in Seq(F)
        BY <2>2
    <2>4. QED
        BY <1>2, <2>1, <2>3 DEF F
<1>6. QED
    BY <1>1, <1>3, <1>4, <1>5 DEF RunFacts

LEMMA TurnSome ==
    ASSUME NEW provider, NEW run, FineRun(run, provider)
    PROVE  TurnOf[AMsgOf[run]] # <<>>
<1> DEFINE m == AMsgOf[run]
<1>1. run \in TurnRuns /\ m \in AMsgs /\ m.role = Speaker[run[1].kind] /\ RunFacts(run)
    BY AMsgIs, TurnRunFacts DEF FineRun
<1>2. TurnOf[m] = A!Turn(m)
    BY <1>1 DEF TurnOf
<1>3. CASE m.role = "system"
    <2> DEFINE msg == A!SystemMessage(A!PartsOf(A!Blocks(m, A!TextTypes)))
    <2>1. A!Turn(m) = <<msg>>
        BY <1>3 DEF A!Turn
    <2> HIDE DEF msg
    <2>2. <<msg>> # <<>>
        OBVIOUS
    <2>3. QED
        BY <1>2, <2>1, <2>2
<1>4. CASE m.role = "assistant"
    <2> DEFINE msg == A!AssistantMessage(m)
    <2>1. A!Turn(m) = <<msg>>
        BY <1>4 DEF A!Turn
    <2> HIDE DEF msg
    <2>2. <<msg>> # <<>>
        OBVIOUS
    <2>3. QED
        BY <1>2, <2>1, <2>2
<1>5. CASE m.role = "user"
    <2> DEFINE results == A!Blocks(m, {"tool_result"})
               said == A!Blocks(m, A!TextTypes \cup {"image"})
    <2>1. 1 \in DOMAIN run /\ run[1].kind \in {"user", "result"}
        BY <1>1, <1>5 DEF RunFacts
    <2>2. results # <<>> \/ said # <<>>
        <3>1. CASE run[1].kind = "result"
            <4>1. Counts(BlockOf[run[1]], {"tool_result"})
                BY <2>1, <3>1, TurnBlock DEF Counts, A!TextTypes
            <4>2. QED
                BY <1>1, <2>1, <4>1, BlocksSome
        <3>2. CASE run[1].kind = "user"
            <4>1. Counts(BlockOf[run[1]], A!TextTypes \cup {"image"})
                BY <2>1, <3>2, TurnBlock DEF Counts, A!TextTypes
            <4>2. QED
                BY <1>1, <2>1, <4>1, BlocksSome
        <3>3. QED
            BY <2>1, <3>1, <3>2
    <2>3. A!ResultMessages(m) = Each(ResultOf, results) /\ A!ResultMessages(m) \in Seq(Msgs)
        BY <1>1, ResultsAre
    <2>4. results # <<>> => A!ResultMessages(m) # <<>>
        <3>1. results \in Seq(ABlocks)
            BY <1>1, BlocksAre
        <3> HIDE DEF results
        <3>2. QED
            BY <2>3, <3>1 DEF Each
    <2>5. said # <<>> => A!UserMessage(m) # <<>>
        <3>1. A!UserMessage(m) =
                CASE said = <<>> -> <<>>
                  [] Len(said) = 1 /\ said[1].type # "image" ->
                         <<Message("user", String(said[1].parts), <<>>, NoId)>>
                  [] OTHER -> <<Message("user", Array(A!PartsOf(said)), <<>>, NoId)>>
            BY SameForms DEF A!UserMessage
        <3> HIDE DEF said
        <3>2. QED
            BY <3>1
    <2>6. A!UserMessage(m) \in Seq(Msgs)
        BY <1>1, UserMessageSays
    <2>7. A!Turn(m) = A!ResultMessages(m) \o A!UserMessage(m)
        BY <1>5 DEF A!Turn, A!UserTurn
    <2> HIDE DEF results, said, m
    <2>8. A!ResultMessages(m) \o A!UserMessage(m) # <<>>
        <3> DEFINE x == A!ResultMessages(m)
                   y == A!UserMessage(m)
        <3>1. x \in Seq(Msgs) /\ y \in Seq(Msgs) /\ (x # <<>> \/ y # <<>>)
            BY <2>2, <2>3, <2>4, <2>5, <2>6
        <3> HIDE DEF x, y
        <3>2. x \o y # <<>>
            BY <3>1
        <3>3. QED
            BY <3>2 DEF x, y
    <2>9. QED
        BY <1>2, <2>7, <2>8 DEF m
<1>6. QED
    BY <1>1, <1>3, <1>4, <1>5 DEF RunFacts

\* The user who speaks alone says one thing of every run.
LEMMA RunsAlone ==
    ASSUME NEW runs \in Seq(Seq(Turns)), UserAlone(Flatten(runs)),
           NEW n \in DOMAIN runs, RunFacts(runs[n]),
           NEW i \in DOMAIN runs[n], NEW j \in DOMAIN runs[n],
           runs[n][i].kind = "user", runs[n][j].kind = "user"
    PROVE  ~(i < j)
<1> SUFFICES ASSUME i < j PROVE FALSE
    OBVIOUS
<1> DEFINE said == Flatten(runs)
           a == At(runs, n, i)
           b == At(runs, n, j)
<1>1. /\ a \in DOMAIN said /\ said[a] = runs[n][i] /\ a \in Nat
      /\ b \in DOMAIN said /\ said[b] = runs[n][j] /\ b \in Nat
    BY FlattenPlaces
<1>2. a < b
    BY PlacesOrder DEF Before
<1> HIDE DEF said, a, b
<1>3. a \in Those(said, "user") /\ b \in Those(said, "user") /\ UserAlone(said)
    BY <1>1 DEF Those, said
<1>4. PICK k \in a .. b : Speaker[said[k].kind] # "user"
    BY <1>2, <1>3 DEF UserAlone
<1>5. PICK m \in DOMAIN runs[n] : k = At(runs, n, m)
    BY <1>4, FlattenBetween DEF a, b
<1>6. said[At(runs, n, m)] = runs[n][m]
    BY FlattenPlaces DEF said
<1>7. Speaker[runs[n][m].kind] = Speaker[runs[n][i].kind]
    BY DEF RunFacts
<1>8. QED
    BY <1>4, <1>5, <1>6, <1>7, SpeakerIs

LEMMA RunsLone ==
    ASSUME NEW said \in Seq(Turns), NEW runs, runs = Runs(said, FALSE), NEW n \in DOMAIN runs
    PROVE  Len(runs[n]) = 1
<1>1. runs = Cut(said, DOMAIN said)
    BY DEF Runs
<1>2. PICK i \in DOMAIN said : \E j \in i .. Len(said) :
        runs[n] = SubSeq(said, i, j) /\ Ends(said, DOMAIN said, i, j)
    BY <1>1, CutRuns
<1>3. PICK j \in i .. Len(said) :
        runs[n] = SubSeq(said, i, j) /\ Ends(said, DOMAIN said, i, j)
    BY <1>2
<1>4. j = i
    BY <1>3 DEF Ends
<1>5. Len(SubSeq(said, i, i)) = 1
    OBVIOUS
<1>6. QED
    BY <1>3, <1>4, <1>5

LEMMA RunsUser ==
    ASSUME NEW q, Fine(q), q.dialect = "anthropic", NEW n \in DOMAIN Runs(Rest(q), q.grouped)
    PROVE  FineUser(Runs(Rest(q), q.grouped)[n], q.provider)
<1> DEFINE runs == Runs(Rest(q), q.grouped)
<1>1. /\ Rest(q) \in Seq(Turns) /\ runs \in Seq(TurnRuns)
      /\ q.provider = "deepseek" /\ q.grouped => UserAlone(Rest(q))
      /\ q.grouped \in BOOLEAN
    BY RestFine, RestIs DEF Fine, Telling
<1>2. runs[n] \in Seq(Turns)
    BY <1>1, TurnRunFacts DEF RunFacts
<1>3. ASSUME q.provider = "deepseek", NEW i \in DOMAIN runs[n], NEW j \in DOMAIN runs[n],
             runs[n][i].kind = "user", runs[n][j].kind = "user"
      PROVE  i = j
    <2>1. CASE q.grouped
        <3>1. /\ runs \in Seq(Seq(Turns)) /\ UserAlone(Flatten(runs))
              /\ RunFacts(runs[n]) /\ n \in DOMAIN runs
            <4>1. runs \in Seq(Seq(Turns)) /\ Flatten(runs) = Rest(q)
                BY RestIs DEF Fine
            <4>2. UserAlone(Rest(q))
                BY <1>1, <1>3, <2>1
            <4>3. RunFacts(runs[n])
                BY <1>1, TurnRunFacts
            <4>4. QED
                BY <4>1, <4>2, <4>3
        <3>2. i \in Nat /\ j \in Nat /\ i \in DOMAIN runs[n] /\ j \in DOMAIN runs[n]
            BY <1>2
        <3> HIDE DEF runs
        <3>3. ~(i < j) /\ ~(j < i)
            BY <1>3, <3>1, <3>2, RunsAlone
        <3>4. QED
            BY <3>2, <3>3
    <2>2. CASE ~q.grouped
        <3>1. runs = Runs(Rest(q), FALSE)
            BY <1>1, <2>2
        <3>2. Len(runs[n]) = 1
            BY <1>1, <3>1, RunsLone
        <3> HIDE DEF runs
        <3>3. QED
            BY <1>2, <3>2
    <2>3. QED
        BY <2>1, <2>2
<1>4. QED
    BY <1>3 DEF FineUser

\* What the three dialects make of such a conversation is accepted.
LEMMA AnthropicMessages ==
    ASSUME NEW q, Fine(q), q.dialect = "anthropic"
    PROVE  /\ A!Messages(Body(q)) \in Seq(FineMsgs(q.provider)) /\ A!Messages(Body(q)) # <<>>
           /\ CodexToolTranscript(A!Messages(Body(q)))
<1> DEFINE runs == Runs(Rest(q), q.grouped)
           ts == Body(q).turns
           system == Body(q).system
           F == FineMsgs(q.provider)
<1>1. /\ ts \in Seq(AMsgs) /\ ts # <<>> /\ ts = Each(AMsgOf, runs) /\ runs \in Seq(TurnRuns)
      /\ system \in Seq(Seq(Pieces)) /\ Telling(q)
    BY AnthropicPossible, AnthropicTurns, RestIs, BodySystem DEF Fine
<1>2. /\ A!Messages(Body(q)) = Each(SystemOf, system) \o Spread(TurnOf, ts)
      /\ A!Messages(Body(q)) \in Seq(Msgs)
      /\ Spread(MsgEvents, A!Messages(Body(q))) = Spread(AEvents, ts)
    BY <1>1, MessagesAre
<1>3. Spread(AEvents, ts) = Spread(TurnEv, Rest(q))
    BY AnthropicPossible
<1>4. CodexToolTranscript(A!Messages(Body(q)))
    BY <1>2, <1>3, FineTranscript
<1>5. \A i \in DOMAIN runs : TurnOf[AMsgOf[runs[i]]] \in Seq(F) /\ TurnOf[AMsgOf[runs[i]]] # <<>>
    BY RunsFine, RunsUser, TurnFine, TurnSome
<1>6. \A i \in DOMAIN ts : TurnOf[ts[i]] \in Seq(F) /\ TurnOf[ts[i]] # <<>>
    <2> HIDE DEF runs, F, ts
    <2>1. QED
        BY <1>1, <1>5 DEF Each
<1>7. Spread(TurnOf, ts) \in Seq(F) /\ Spread(TurnOf, ts) # <<>>
    <2> HIDE DEF runs, F, ts
    <2>1. \A i \in DOMAIN ts : \A j \in DOMAIN TurnOf[ts[i]] : TurnOf[ts[i]][j] \in F
        BY <1>6
    <2>2. 1 \in DOMAIN ts
        BY <1>1
    <2>3. TurnOf[ts[1]] # <<>>
        BY <1>6, <2>2
    <2>4. Spread(TurnOf, ts) \in Seq(F)
        BY <1>1, <2>1, TurnOfType, SpreadWithin
    <2>5. Spread(TurnOf, ts) # <<>>
        BY <1>1, <2>2, <2>3, TurnOfType, SpreadSome
    <2>6. QED
        BY <2>4, <2>5
<1>8. Each(SystemOf, system) \in Seq(F)
    <2>1. \A parts \in Seq(Pieces) : SystemOf[parts] \in F
        BY SystemFine DEF SystemOf
    <2> HIDE DEF system, F
    <2>2. /\ \A i \in DOMAIN system : SystemOf[system[i]] \in F
          /\ DOMAIN system = 1 .. Len(system) /\ Len(system) \in Nat
        BY <1>1, <2>1
    <2>3. QED
        BY <2>2 DEF Each
<1>9. QED
    <2> DEFINE x == Each(SystemOf, system)
               y == Spread(TurnOf, ts)
    <2>1. x \in Seq(F) /\ y \in Seq(F) /\ y # <<>>
        BY <1>7, <1>8
    <2>2. A!Messages(Body(q)) = x \o y
        BY <1>2
    <2> HIDE DEF x, y, F
    <2>3. x \o y \in Seq(F) /\ x \o y # <<>>
        BY <2>1
    <2>4. QED
        BY <1>4, <2>2, <2>3 DEF F

LEMMA AnthropicPresentable ==
    ASSUME NEW q, Fine(q), q.dialect = "anthropic", NEW req,
           req = A!ToChatCompletion(q.provider, Body(q))
    PROVE  /\ Presentable(q.provider, req)
           /\ q.provider = "codex" => req.options = {}
<1>1. Body(q).options = {"max_tokens"} /\ Body(q).tools = <<>> /\ Body(q).toolChoice = "absent"
    BY BodyRest DEF Fine
<1>2. A!GenerationOptions(q.provider, {"max_tokens"})
        = IF q.provider = "codex" THEN {} ELSE {"max_tokens"}
    BY DEF A!GenerationOptions
<1>3. /\ req.messages = A!Messages(Body(q))
      /\ req.options = A!GenerationOptions(q.provider, Body(q).options)
      /\ req.tools = <<>> /\ req.toolChoice = "absent"
    BY <1>1 DEF A!ToChatCompletion, A!ChatRequest
<1>4. QED
    BY <1>1, <1>2, <1>3, AnthropicMessages DEF Presentable

LEMMA ChatPresentable ==
    ASSUME NEW q, Fine(q), q.dialect = "chat", NEW req, req = ChatBody(q)
    PROVE  Presentable(q.provider, req) /\ req.options = {}
<1>1. Body(q).options = {} /\ Body(q).tools = <<>> /\ Body(q).toolChoice = "absent"
    BY BodyRest DEF Fine
<1>2. /\ req.messages = Body(q).turns /\ req.options = {} /\ req.tools = <<>>
      /\ req.toolChoice = "absent"
    BY <1>1 DEF ChatBody, ChatRequest
<1>3. QED
    BY <1>2, ChatFine DEF Presentable

LEMMA ChatDecoded ==
    ASSUME NEW q, Fine(q), q.dialect = "chat", NEW req, req = ChatBody(q)
    PROVE  /\ Body(q).options \subseteq ChatFields
           /\ \A i \in DOMAIN Body(q).turns : ContentAllowed(Body(q).turns[i])
           /\ ToolsAllowed(req) /\ LogprobsAgree(req) /\ StreamOptionsAgree(req)
<1>1. Presentable(q.provider, req) /\ req.options = {}
    BY ChatPresentable
<1>2. Body(q).options = {} /\ req.messages = Body(q).turns
    BY BodyRest DEF Fine, ChatBody, ChatRequest
<1>3. /\ ToolsAllowed(req)
      /\ \A i \in DOMAIN req.messages : ContentAllowed(req.messages[i])
    BY <1>1, FineTools DEF Presentable
<1>4. LogprobsAgree(req) /\ StreamOptionsAgree(req)
    BY <1>1 DEF LogprobsAgree, StreamOptionsAgree
<1>5. QED
    BY <1>2, <1>3, <1>4

-----------------------------------------------------------------------------
(* The steps of a route.                                                   *)

Routes == {"chat", "responses", "native", "anthropic", "count_tokens"}

\* A request is on its way along its route, and has come to the credentials last.
OnRoute == stage \in {"written", "done"} \/ \E i \in DOMAIN Stages[Route] : Stages[Route][i] = stage
Unanswered == stage # "done" => told = None /\ recorded = None
AskedLast == asked => stage \in {"execute", "done"}

RouteInv ==
    /\ request = [field \in DOMAIN request |-> request[field]]
    /\ {"dialect", "provider", "native", "said", "grouped", "options"} \subseteq DOMAIN request
    /\ Route \in Routes /\ OnRoute /\ Unanswered /\ AskedLast /\ RefusedBeforeCredentials

LEMMA RouteLengths ==
    /\ DOMAIN Stages["chat"] = 1 .. 9 /\ Len(Stages["chat"]) = 9
    /\ DOMAIN Stages["responses"] = 1 .. 11 /\ Len(Stages["responses"]) = 11
    /\ DOMAIN Stages["native"] = 1 .. 6 /\ Len(Stages["native"]) = 6
    /\ DOMAIN Stages["anthropic"] = 1 .. 10 /\ Len(Stages["anthropic"]) = 10
    /\ DOMAIN Stages["count_tokens"] = 1 .. 5 /\ Len(Stages["count_tokens"]) = 5
BY DEF Stages

\* The stage after the current one is on the route.
LEMMA NextOnRoute ==
    ASSUME Route \in Routes, \E i \in DOMAIN Stages[Route] : Stages[Route][i] = stage
    PROVE  NextStage = "done" \/ \E i \in DOMAIN Stages[Route] : Stages[Route][i] = NextStage
<1>1. Place \in DOMAIN Stages[Route]
    BY DEF Place
<1>2. DOMAIN Stages[Route] = 1 .. Len(Stages[Route]) /\ Len(Stages[Route]) \in Nat
    BY RouteLengths DEF Routes
<1>3. CASE Place = Len(Stages[Route])
    BY <1>3 DEF NextStage
<1>4. CASE Place # Len(Stages[Route])
    <2>1. Place + 1 \in DOMAIN Stages[Route]
        BY <1>1, <1>2, <1>4
    <2>2. NextStage = Stages[Route][Place + 1]
        BY <1>4 DEF NextStage
    <2>3. QED
        BY <2>1, <2>2
<1>5. QED
    BY <1>3, <1>4

\* What follows the credentials on every route.
LEMMA CredentialsLast ==
    ASSUME Route \in Routes, stage \in {"credentials", "execute"},
           \E i \in DOMAIN Stages[Route] : Stages[Route][i] = stage
    PROVE  NextStage = IF stage = "credentials" THEN "execute" ELSE "done"
<1>1. Place \in DOMAIN Stages[Route] /\ Stages[Route][Place] = stage
    BY DEF Place
<1>2. CASE Route = "chat"
    <2>1. Place = IF stage = "credentials" THEN 8 ELSE 9
        BY <1>1, <1>2, RouteLengths DEF Stages
    <2>2. QED
        BY <1>2, <2>1, RouteLengths DEF NextStage, Stages
<1>3. CASE Route = "responses"
    <2>1. Place = IF stage = "credentials" THEN 10 ELSE 11
        BY <1>1, <1>3, RouteLengths DEF Stages
    <2>2. QED
        BY <1>3, <2>1, RouteLengths DEF NextStage, Stages
<1>4. CASE Route = "native"
    <2>1. Place = IF stage = "credentials" THEN 5 ELSE 6
        BY <1>1, <1>4, RouteLengths DEF Stages
    <2>2. QED
        BY <1>4, <2>1, RouteLengths DEF NextStage, Stages
<1>5. CASE Route = "anthropic"
    <2>1. Place = IF stage = "credentials" THEN 9 ELSE 10
        BY <1>1, <1>5, RouteLengths DEF Stages
    <2>2. QED
        BY <1>5, <2>1, RouteLengths DEF NextStage, Stages
<1>6. CASE Route = "count_tokens"
    BY <1>1, <1>6, RouteLengths DEF Stages
<1>7. QED
    BY <1>2, <1>3, <1>4, <1>5, <1>6 DEF Routes

LEMMA CountLast ==
    ASSUME Route \in Routes, stage = "count",
           \E i \in DOMAIN Stages[Route] : Stages[Route][i] = stage
    PROVE  NextStage = "done"
<1>1. Place \in DOMAIN Stages[Route] /\ Stages[Route][Place] = stage
    BY DEF Place
<1>2. CASE Route = "count_tokens"
    <2>1. Place = 5
        BY <1>1, <1>2, RouteLengths DEF Stages
    <2>2. QED
        BY <1>2, <2>1, RouteLengths DEF NextStage
<1>3. CASE Route # "count_tokens"
    BY <1>1, <1>3, RouteLengths DEF Stages, Routes
<1>4. QED
    BY <1>2, <1>3

LEMMA RouteInit == ASSUME Init PROVE RouteInv
<1>1. /\ request \in Requests /\ stage = "written" /\ asked = FALSE
      /\ told = None /\ recorded = None
    BY DEF Init
<1>2. /\ request = [field \in DOMAIN request |-> request[field]]
      /\ {"dialect", "provider", "native", "said", "grouped", "options"} \subseteq DOMAIN request
      /\ Route \in Routes
    BY <1>1, DialectAssumption DEF Route, Routes
<1>3. OnRoute /\ Unanswered /\ AskedLast
    BY <1>1 DEF OnRoute, Unanswered, AskedLast
<1>4. RefusedBeforeCredentials
    BY <1>1 DEF RefusedBeforeCredentials, None
<1>5. QED
    BY <1>2, <1>3, <1>4 DEF RouteInv

\* The request keeps its form and its route, also while its conversation grows.
LEMMA SameRoute ==
    ASSUME RouteInv, UNCHANGED request \/ \E said : request' = [request EXCEPT !.said = said]
    PROVE  /\ request' = [field \in DOMAIN request' |-> request'[field]]
           /\ {"dialect", "provider", "native", "said", "grouped", "options"}
                \subseteq DOMAIN request'
           /\ Route' = Route
BY DEF RouteInv, Route

\* A check that has nothing to say passes the request on.
LEMMA PassedOn ==
    ASSUME RouteInv, stage \notin {"written", "credentials", "done"}, stage' = NextStage,
           UNCHANGED <<request, told, recorded, asked>>
    PROVE  RouteInv'
<1>1. \E i \in DOMAIN Stages[Route] : Stages[Route][i] = stage
    BY DEF RouteInv, OnRoute
<1>2. NextStage = "done" \/ \E i \in DOMAIN Stages[Route] : Stages[Route][i] = NextStage
    BY <1>1, NextOnRoute DEF RouteInv
<1>3. Route' = Route
    BY SameRoute
<1>4. OnRoute'
    BY <1>2, <1>3 DEF OnRoute
<1>5. Unanswered'
    BY DEF RouteInv, Unanswered
<1>6. AskedLast'
    BY <1>1, CredentialsLast DEF RouteInv, AskedLast
<1>7. RefusedBeforeCredentials'
    BY DEF RouteInv, RefusedBeforeCredentials, None
<1>8. QED
    BY <1>3, <1>4, <1>5, <1>6, <1>7, SameRoute DEF RouteInv

\* An answer ends the request, and its row agrees unless the body or the token was bad.
LEMMA Answered ==
    ASSUME RouteInv, stage # "done", stage' = "done", UNCHANGED <<request, asked>>,
           NEW status, NEW class,
           told' = [status |-> status, class |-> class, document |-> Document],
           \/ recorded' = [status |-> status, class |-> class]
           \/ class \in {"authentication_error", "invalid_json"},
           stage # "execute" \/ class = "invalid_request"
    PROVE  RouteInv'
<1>1. Route' = Route
    BY SameRoute
<1>2. OnRoute' /\ Unanswered' /\ AskedLast'
    BY DEF OnRoute, Unanswered, AskedLast
<1>3. asked' => class = "invalid_request"
    BY DEF RouteInv, AskedLast
<1>4. told'.status = status /\ told'.class = class
    OBVIOUS
<1>5. RefusedBeforeCredentials'
    BY <1>3, <1>4 DEF RefusedBeforeCredentials
<1>6. QED
    BY <1>1, <1>2, <1>5, SameRoute DEF RouteInv

LEMMA StepWrite ==
    ASSUME RouteInv, Send \/ \E turn \in Turns : Speak(turn) PROVE RouteInv'
<1>1. /\ UNCHANGED request \/ \E said : request' = [request EXCEPT !.said = said]
      /\ UNCHANGED <<told, recorded, asked>> /\ stage = "written" /\ stage' \in {"written", "auth"}
    BY DEF Send, Speak
<1>2. Route' = Route
    BY <1>1, SameRoute
<1>3. OnRoute'
    <2>1. Stages[Route][1] = "auth" /\ 1 \in DOMAIN Stages[Route]
        BY RouteLengths DEF RouteInv, Routes, Stages
    <2>2. QED
        BY <1>1, <1>2, <2>1 DEF OnRoute
<1>4. Unanswered' /\ AskedLast' /\ RefusedBeforeCredentials'
    BY <1>1 DEF RouteInv, Unanswered, AskedLast, RefusedBeforeCredentials, None
<1>5. QED
    BY <1>1, <1>2, <1>3, <1>4, SameRoute DEF RouteInv

\* The checks before the credentials, and the document.
Check ==
    Authorize \/ ReadBody \/ Checked \/ ResolveModel \/ Registered \/ DecodeBody \/ Adapter
      \/ Convert \/ Accept \/ Execute

LEMMA StepCheck == ASSUME RouteInv, Check PROVE RouteInv'
<1>1. stage \notin {"written", "credentials", "done"}
    BY DEF Check, Authorize, ReadBody, Checked, ResolveModel, Registered, DecodeBody, Adapter,
           Convert, Accept, Execute
<1>2. CASE stage' = NextStage /\ UNCHANGED <<request, told, recorded, asked>>
    BY <1>1, <1>2, PassedOn
<1>3. ASSUME NEW status, NEW class, Refuse(status, class),
             \/ recorded' = [status |-> status, class |-> class]
             \/ class \in {"authentication_error", "invalid_json"},
             stage # "execute" \/ class = "invalid_request"
      PROVE  RouteInv'
    BY <1>1, <1>3, Answered DEF Refuse
<1>4. CASE Authorize
    BY <1>2, <1>3, <1>4 DEF Authorize, RefuseOffTheBooks, Pass
<1>5. CASE ReadBody
    BY <1>2, <1>3, <1>5 DEF ReadBody, RefuseOffTheBooks, Reject
<1>6. CASE Checked
    BY <1>2, <1>3, <1>6 DEF Checked, Reject, Pass
<1>7. CASE ResolveModel
    BY <1>2, <1>3, <1>7 DEF ResolveModel, Reject, Pass
<1>8. CASE Registered
    BY <1>2, <1>3, <1>8 DEF Registered, Reject, Pass
<1>9. CASE DecodeBody
    BY <1>2, <1>3, <1>9 DEF DecodeBody, Reject, Pass
<1>10. CASE Adapter
    BY <1>2, <1>3, <1>10, ZenonT(40) DEF Adapter, Reject, Pass
<1>11. CASE Convert
    BY <1>2, <1>3, <1>11 DEF Convert, Reject
<1>12. CASE Accept
    BY <1>2, <1>3, <1>12 DEF Accept, Reject, Pass
<1>13. CASE Execute
    BY <1>2, <1>3, <1>13 DEF Execute, Reject
<1>14. QED
    BY <1>4, <1>5, <1>6, <1>7, <1>8, <1>9, <1>10, <1>11, <1>12, <1>13 DEF Check

\* Only the document follows the credentials.
LEMMA StepCredentials == ASSUME RouteInv, Credentials PROVE RouteInv'
<1>1. stage = "credentials"
    BY DEF Credentials
<1>2. CASE stage' = NextStage /\ asked' = TRUE /\ UNCHANGED <<request, told, recorded>>
    <2>1. \E i \in DOMAIN Stages[Route] : Stages[Route][i] = stage
        BY <1>1 DEF RouteInv, OnRoute
    <2>2. stage' = "execute" /\ \E i \in DOMAIN Stages[Route] : Stages[Route][i] = stage'
        BY <1>1, <1>2, <2>1, CredentialsLast, NextOnRoute DEF RouteInv
    <2>3. Route' = Route
        BY <1>2, SameRoute
    <2>4. OnRoute' /\ Unanswered' /\ AskedLast' /\ RefusedBeforeCredentials'
        BY <1>1, <1>2, <2>2, <2>3
           DEF RouteInv, OnRoute, Unanswered, AskedLast, RefusedBeforeCredentials, None
    <2>5. QED
        BY <1>2, <2>3, <2>4, SameRoute DEF RouteInv
<1>3. CASE Reject(401, "credential_unavailable") \/ Reject(503, "model_entitlement_unavailable")
    BY <1>1, <1>3, Answered DEF Reject, Refuse
<1>4. QED
    BY <1>2, <1>3, ZenonT(40) DEF Credentials

LEMMA StepCountTokens == ASSUME RouteInv, CountTokens PROVE RouteInv'
<1>1. stage = "count" /\ stage' = NextStage
    BY DEF CountTokens
<1>2. NextStage = "done"
    BY <1>1, CountLast DEF RouteInv, OnRoute
<1>3. QED
    BY <1>1, <1>2, Answered DEF CountTokens

LEMMA RouteStep == RouteInv /\ [Next]_vars => RouteInv'
<1>1. CASE UNCHANGED vars
    BY <1>1 DEF vars, RouteInv, Route, OnRoute, Unanswered, AskedLast,
                RefusedBeforeCredentials, None, Stages
<1>2. QED
    BY <1>1, StepWrite, StepCheck, StepCredentials, StepCountTokens DEF Next, Check

\* Whatever a request says, and on whichever route, it is refused for it before a
\* credential is resolved, and the row of metadata has the status the client was told
\* (the handlers of the routes, preflightProviderAdapter, preflightAdapterRequest).
THEOREM RefusedFirst == Spec => []RefusedBeforeCredentials
<1>1. Init => RouteInv
    BY RouteInit
<1>2. RouteInv /\ [Next]_vars => RouteInv'
    BY RouteStep
<1>3. RouteInv => RefusedBeforeCredentials
    BY DEF RouteInv
<1>4. QED
    BY <1>1, <1>2, <1>3, PTL DEF Spec

-----------------------------------------------------------------------------
(* What becomes of the options.  What a route has established at a stage   *)
(* holds at the later ones.                                                *)

Past(s) ==
    \E i, j \in DOMAIN Stages[Route] :
      i < j /\ Stages[Route][i] = s /\ Stages[Route][j] = stage

\* No stage is twice on a route.
LEMMA StagesOnce ==
    ASSUME NEW r \in Routes, NEW i \in DOMAIN Stages[r], NEW j \in DOMAIN Stages[r],
           Stages[r][i] = Stages[r][j]
    PROVE  i = j
<1>1. CASE r = "chat"
    BY <1>1, RouteLengths DEF Stages
<1>2. CASE r = "responses"
    BY <1>2, RouteLengths DEF Stages
<1>3. CASE r = "native"
    BY <1>3, RouteLengths DEF Stages
<1>4. CASE r = "anthropic"
    BY <1>4, RouteLengths DEF Stages
<1>5. CASE r = "count_tokens"
    BY <1>5, RouteLengths DEF Stages
<1>6. QED
    BY <1>1, <1>2, <1>3, <1>4, <1>5 DEF Routes

LEMMA Onward ==
    ASSUME RouteInv, stage \notin {"written", "done"}, stage' = NextStage, UNCHANGED request,
           NEW s, Past(s)'
    PROVE  Past(s) \/ stage = s
<1>1. Route' = Route /\ Route \in Routes
    BY SameRoute DEF RouteInv
<1> DEFINE path == Stages[Route]
<1>2. DOMAIN path = 1 .. Len(path) /\ Len(path) \in Nat
    BY <1>1, RouteLengths DEF Routes
<1>3. Place \in DOMAIN path /\ path[Place] = stage
    BY DEF RouteInv, OnRoute, Place
<1>4. PICK i \in DOMAIN path : \E j \in DOMAIN path : i < j /\ path[i] = s /\ path[j] = stage'
    BY <1>1 DEF Past
<1>5. PICK j \in DOMAIN path : i < j /\ path[i] = s /\ path[j] = stage'
    BY <1>4
<1>6. Place # Len(path)
    <2>1. \A k \in DOMAIN path : path[k] # "done"
        BY <1>1, RouteLengths DEF Stages, Routes
    <2>2. QED
        BY <1>5, <2>1 DEF NextStage
<1>7. Place + 1 \in DOMAIN path /\ path[Place + 1] = stage'
    BY <1>2, <1>3, <1>6 DEF NextStage
<1>8. j = Place + 1
    BY <1>1, <1>5, <1>7, StagesOnce
<1>9. i < Place \/ i = Place
    BY <1>2, <1>3, <1>5, <1>8
<1>10. QED
    BY <1>3, <1>5, <1>9 DEF Past

\* The fields a decoded request may have.
ReadOptions ==
    /\ request.dialect = "chat" =>
         request.options \subseteq ChatFields /\ chat.options = request.options
    /\ request.dialect = "anthropic" => request.options \subseteq A!AnthropicFields
KnownOptions ==
    request.dialect = "responses" => request.options \subseteq R!ResponsesFields \ {"store"}

ConvertedOptions ==
    /\ request.dialect = "responses" =>
         /\ chat.options = R!Renamed(request.options)
         /\ "parallel_tool_calls" \in request.options => request.provider # "deepseek"
         /\ request.options \cap R!CodexFields # {} => request.provider = "codex"
    /\ request.dialect = "anthropic" =>
         chat.options = A!GenerationOptions(request.provider, request.options)

AcceptedOptions ==
    /\ chat.options \cap Unsupported(request.provider) = {}
    /\ request.provider # "codex" => chat.options \cap CodexNested = {}

OptionsInv ==
    /\ request.provider \in Providers
    /\ stage # "written" => body.options = request.options
    /\ stage # "done" => sent = None
    /\ Past("read") => ReadOptions
    /\ Past("decode") => KnownOptions
    /\ Past("convert") => ConvertedOptions
    /\ Past("accept") => AcceptedOptions
    /\ OnlyLocalOptionsDropped

\* Where the stages of interest are.
LEMMA NothingBefore ==
    ASSUME NEW r \in Routes, NEW i \in DOMAIN Stages[r], NEW j \in DOMAIN Stages[r],
           i < j, Stages[r][j] \in {"written", "auth", "done"}
    PROVE  FALSE
<1>1. 1 \in DOMAIN Stages[r] /\ Stages[r][1] = "auth"
    BY RouteLengths DEF Routes, Stages
<1>2. \A k \in DOMAIN Stages[r] : k \in Nat /\ k >= 1
    BY RouteLengths DEF Routes
<1>3. Stages[r][j] \notin {"written", "done"}
    BY RouteLengths DEF Routes, Stages
<1>4. j = 1
    BY <1>1, <1>3, StagesOnce
<1>5. QED
    BY <1>2, <1>4

LEMMA NotPastOutside ==
    ASSUME Route \in Routes, stage \in {"written", "auth", "done"}, NEW s
    PROVE  ~Past(s)
BY NothingBefore DEF Past

LEMMA NotPastAfter ==
    ASSUME Route' \in Routes, stage' \in {"written", "auth", "done"}, NEW s
    PROVE  ~Past(s)'
BY NothingBefore DEF Past

LEMMA NotYetAccepted ==
    ASSUME Route \in Routes, stage \in {"read", "convert"}
    PROVE  ~Past("accept")
<1>1. CASE Route = "chat"
    BY <1>1, RouteLengths DEF Stages, Past
<1>2. CASE Route = "responses"
    BY <1>2, RouteLengths DEF Stages, Past
<1>3. CASE Route = "native"
    BY <1>3, RouteLengths DEF Stages, Past
<1>4. CASE Route = "anthropic"
    BY <1>4, RouteLengths DEF Stages, Past
<1>5. CASE Route = "count_tokens"
    BY <1>5, RouteLengths DEF Stages, Past
<1>6. QED
    BY <1>1, <1>2, <1>3, <1>4, <1>5 DEF Routes

LEMMA AtConvert ==
    ASSUME RouteInv, stage = "convert"
    PROVE  request.dialect \in {"responses", "anthropic"}
<1>1. \E i \in DOMAIN Stages[Route] : Stages[Route][i] = "convert"
    BY DEF RouteInv, OnRoute
<1>2. Route \in {"responses", "anthropic"}
    BY <1>1, RouteLengths DEF Stages, RouteInv, Routes
<1>3. QED
    BY <1>2 DEF Route

LEMMA AtExecute ==
    ASSUME RouteInv, stage = "execute", Route # "native"
    PROVE  /\ request.dialect \in {"chat", "responses", "anthropic"}
           /\ Past("read") /\ Past("validate") /\ Past("accept")
           /\ request.dialect = "responses" => Past("decode")
           /\ request.dialect # "chat" => Past("convert")
<1>1. \E i \in DOMAIN Stages[Route] : Stages[Route][i] = "execute"
    BY DEF RouteInv, OnRoute
<1>2. Route \in {"chat", "responses", "anthropic"} /\ Route = request.dialect
    BY <1>1, RouteLengths DEF Stages, RouteInv, Routes, Route
<1>3. CASE Route = "chat"
    <2>1. /\ 2 \in DOMAIN Stages[Route] /\ Stages[Route][2] = "read"
          /\ 3 \in DOMAIN Stages[Route] /\ Stages[Route][3] = "validate"
          /\ 7 \in DOMAIN Stages[Route] /\ Stages[Route][7] = "accept"
          /\ 9 \in DOMAIN Stages[Route] /\ Stages[Route][9] = stage
        BY <1>3, RouteLengths DEF Stages
    <2>2. QED
        BY <1>2, <1>3, <2>1 DEF Past
<1>4. CASE Route = "responses"
    <2>1. /\ 2 \in DOMAIN Stages[Route] /\ Stages[Route][2] = "read"
          /\ 5 \in DOMAIN Stages[Route] /\ Stages[Route][5] = "decode"
          /\ 7 \in DOMAIN Stages[Route] /\ Stages[Route][7] = "convert"
          /\ 8 \in DOMAIN Stages[Route] /\ Stages[Route][8] = "validate"
          /\ 9 \in DOMAIN Stages[Route] /\ Stages[Route][9] = "accept"
          /\ 11 \in DOMAIN Stages[Route] /\ Stages[Route][11] = stage
        BY <1>4, RouteLengths DEF Stages
    <2>2. QED
        BY <1>2, <1>4, <2>1 DEF Past
<1>5. CASE Route = "anthropic"
    <2>1. /\ 2 \in DOMAIN Stages[Route] /\ Stages[Route][2] = "read"
          /\ 5 \in DOMAIN Stages[Route] /\ Stages[Route][5] = "convert"
          /\ 6 \in DOMAIN Stages[Route] /\ Stages[Route][6] = "validate"
          /\ 8 \in DOMAIN Stages[Route] /\ Stages[Route][8] = "accept"
          /\ 10 \in DOMAIN Stages[Route] /\ Stages[Route][10] = stage
        BY <1>5, RouteLengths DEF Stages
    <2>2. QED
        BY <1>2, <1>5, <2>1 DEF Past
<1>6. QED
    BY <1>2, <1>3, <1>4, <1>5

\* The options of what is sent.
LEMMA SentOptions ==
    ASSUME NEW provider \in Providers, NEW req
    PROVE  Marshal(provider, req).options =
             IF provider = "codex" THEN CodexSent(req.options)
             ELSE HTTPOptions(provider, req.options)
BY DEF Marshal, MarshalCodex, MarshalHTTP, Sent

\* What a route established of the options brings each to the upstream.
LEMMA OptionsReach ==
    ASSUME request.dialect \in {"chat", "responses", "anthropic"}, request.provider \in Providers,
           ReadOptions, AcceptedOptions, request.dialect = "responses" => KnownOptions,
           request.dialect # "chat" => ConvertedOptions,
           NEW option \in request.options, option \notin LocalOptions
    PROVE  Upstream(option) \in Marshal(request.provider, chat).options
<1> DEFINE sentOptions == Marshal(request.provider, chat).options
<1>1. request.provider = "codex" => sentOptions = CodexSent(chat.options)
    BY SentOptions
<1>2. request.provider # "codex" => sentOptions = HTTPOptions(request.provider, chat.options)
    BY SentOptions
<1>3. CASE request.dialect = "chat" /\ request.provider = "codex"
    <2>1. option \in ChatFields /\ option \in chat.options /\ option \notin Unsupported("codex")
        BY <1>3 DEF ReadOptions, AcceptedOptions
    <2>2. /\ option \in CodexOptions
          /\ option = "service_tier" => "codex.service_tier" \notin chat.options
        BY <1>3, <2>1 DEF LocalOptions, ChatFields, CodexNested, Unsupported, OpenRouterOnly,
                         CodexOptions, ReadOptions
    <2>3. Upstream(option) = option
        BY <1>3, <2>2 DEF Upstream, CodexOptions
    <2>4. QED
        BY <1>1, <1>3, <2>1, <2>2, <2>3 DEF CodexSent
<1>4. CASE request.dialect = "chat" /\ request.provider # "codex"
    <2>1. option \in ChatFields /\ option \in chat.options /\ option # "prompt_cache_key"
        BY <1>4 DEF ReadOptions, LocalOptions
    <2>2. CASE option = "max_completion_tokens"
        BY <1>2, <1>4, <2>1, <2>2 DEF Upstream, HTTPOptions
    <2>3. CASE option # "max_completion_tokens"
        <3>1. Upstream(option) = option /\ option # "codex_cache_key"
            BY <1>4, <2>1, <2>3 DEF Upstream, ChatFields, CodexNested
        <3>2. QED
            BY <1>2, <1>4, <2>1, <2>3, <3>1 DEF HTTPOptions
    <2>4. QED
        BY <2>2, <2>3
<1>5. CASE request.dialect = "responses"
    <2>1. /\ option \in R!ResponsesFields /\ option # "store"
          /\ chat.options = R!Renamed(request.options)
        BY <1>5 DEF KnownOptions, ConvertedOptions
    <2>2. CASE request.provider = "codex"
        <3>1. option \in {"reasoning", "service_tier", "text", "prompt_cache_key"}
            BY <1>5, <2>1, <2>2 DEF R!ResponsesFields, LocalOptions
        <3>2. Upstream(option) \in {"codex.effort", "codex.service_tier", "codex.verbosity",
                                    "codex_cache_key"}
              /\ Upstream(option) \in R!Renamed(request.options)
            BY <1>5, <3>1 DEF Upstream, R!Renamed
        <3>3. QED
            BY <1>1, <2>1, <2>2, <3>2 DEF CodexSent, CodexOptions
    <2>3. CASE request.provider # "codex"
        <3>1. option \notin R!CodexFields
            BY <1>5, <2>3 DEF ConvertedOptions
        <3>2. option = "parallel_tool_calls"
            BY <1>5, <2>1, <2>3, <3>1 DEF R!ResponsesFields, R!CodexFields, LocalOptions
        <3>3. Upstream(option) = option /\ option \in chat.options
            BY <1>5, <2>1, <3>2 DEF Upstream, R!Renamed
        <3>4. QED
            BY <1>2, <2>3, <3>2, <3>3 DEF HTTPOptions
    <2>4. QED
        BY <2>2, <2>3
<1>6. CASE request.dialect = "anthropic"
    <2>1. /\ option \in A!AnthropicFields
          /\ chat.options = A!GenerationOptions(request.provider, request.options)
        BY <1>6 DEF ReadOptions, ConvertedOptions
    <2>2. request.provider # "codex"
        BY <1>6, <2>1 DEF LocalOptions
    <2>3. option \in {"max_tokens", "temperature", "top_p", "top_k", "stop_sequences"}
        BY <1>6, <2>1, <2>2 DEF A!AnthropicFields, LocalOptions
    <2>4. /\ Upstream(option) \in {"max_tokens", "temperature", "top_p", "top_k", "stop"}
          /\ Upstream(option) \in chat.options
        BY <1>6, <2>1, <2>2, <2>3 DEF Upstream, A!GenerationOptions
    <2>5. QED
        BY <1>2, <2>2, <2>4 DEF HTTPOptions
<1>7. QED
    BY <1>3, <1>4, <1>5, <1>6

LEMMA OptionsInit == ASSUME Init PROVE OptionsInv
<1>1. RouteInv /\ stage = "written" /\ sent = None /\ request \in Requests
    BY RouteInit DEF Init
<1>2. \A s \in {"read", "decode", "convert", "accept"} : ~Past(s)
    BY <1>1, NotPastOutside DEF RouteInv
<1>3. QED
    BY <1>1, <1>2, DialectAssumption DEF OptionsInv, OnlyLocalOptionsDropped, Converted

LEMMA OptionsOnward ==
    ASSUME RouteInv, OptionsInv, stage \notin {"written", "done"}, stage' = NextStage,
           UNCHANGED <<request, body, sent>>,
           Past("read") \/ stage = "read" => ReadOptions',
           Past("decode") \/ stage = "decode" => KnownOptions',
           Past("convert") \/ stage = "convert" => ConvertedOptions',
           Past("accept") \/ stage = "accept" => AcceptedOptions'
    PROVE  OptionsInv'
<1>1. /\ Past("read")' => Past("read") \/ stage = "read"
      /\ Past("decode")' => Past("decode") \/ stage = "decode"
      /\ Past("convert")' => Past("convert") \/ stage = "convert"
      /\ Past("accept")' => Past("accept") \/ stage = "accept"
    BY Onward
<1>2. sent' = None /\ body'.options = request'.options /\ request'.provider \in Providers
    BY DEF OptionsInv
<1>3. OnlyLocalOptionsDropped'
    BY <1>2 DEF OnlyLocalOptionsDropped, Converted, None
<1>4. QED
    BY <1>1, <1>2, <1>3 DEF OptionsInv, None

\* An answer changes nothing about the options.
LEMMA OptionsDone ==
    ASSUME RouteInv, OptionsInv, stage # "written", stage' = "done",
           UNCHANGED <<request, body, chat, sent>>
    PROVE  OptionsInv'
<1>1. Route' = Route /\ Route' \in Routes
    BY SameRoute DEF RouteInv
<1>2. /\ ~Past("read")' /\ ~Past("decode")' /\ ~Past("convert")' /\ ~Past("accept")'
    BY <1>1, NotPastAfter
<1>3. OnlyLocalOptionsDropped'
    BY <1>1, ZenonT(40)
    DEF OptionsInv, OnlyLocalOptionsDropped, Converted, LocalOptions, Upstream, None
<1>4. QED
    BY <1>2, <1>3 DEF OptionsInv
LEMMA SameOptions ==
    ASSUME UNCHANGED <<request, chat>>
    PROVE  /\ ReadOptions' = ReadOptions /\ KnownOptions' = KnownOptions
           /\ ConvertedOptions' = ConvertedOptions /\ AcceptedOptions' = AcceptedOptions
BY DEF ReadOptions, KnownOptions, ConvertedOptions, AcceptedOptions

\* A check that has nothing to say of the options passes them on.
LEMMA OptionsPassed ==
    ASSUME RouteInv, OptionsInv, stage \notin {"written", "done", "read", "convert"},
           stage' = NextStage, UNCHANGED <<request, body, chat, sent>>,
           stage = "decode" => KnownOptions, stage = "accept" => AcceptedOptions
    PROVE  OptionsInv'
<1>1. /\ Past("read") \/ stage = "read" => ReadOptions'
      /\ Past("decode") \/ stage = "decode" => KnownOptions'
      /\ Past("convert") \/ stage = "convert" => ConvertedOptions'
      /\ Past("accept") \/ stage = "accept" => AcceptedOptions'
    BY SameOptions DEF OptionsInv
<1>2. QED
    BY <1>1, OptionsOnward

LEMMA OptionsWrite ==
    ASSUME RouteInv, OptionsInv, Send \/ \E turn \in Turns : Speak(turn) PROVE OptionsInv'
<1>1. /\ stage = "written" /\ stage' \in {"written", "auth"} /\ sent' = sent
      /\ UNCHANGED request \/ \E said : request' = [request EXCEPT !.said = said]
    BY DEF Send, Speak
<1>2. request'.provider = request.provider /\ request'.options = request.options
    BY <1>1 DEF RouteInv
<1>3. Route' \in Routes
    BY <1>1, SameRoute DEF RouteInv
<1>4. ~Past("read")' /\ ~Past("decode")' /\ ~Past("convert")' /\ ~Past("accept")'
    BY <1>1, <1>3, NotPastAfter
<1>5. stage' # "written" => body'.options = request'.options
    <2>1. Send => Body(request).options = request.options
        BY DEF Body
    <2>2. QED
        BY <1>1, <2>1 DEF Send, Speak
<1>6. sent' = None
    BY <1>1 DEF OptionsInv
<1>7. QED
    BY <1>2, <1>4, <1>5, <1>6 DEF OptionsInv, OnlyLocalOptionsDropped, Converted, None

\* The checks that read no option.
Plainly == Authorize \/ Checked \/ ResolveModel \/ Registered \/ Adapter \/ Credentials

LEMMA OptionsPlainly == ASSUME RouteInv, OptionsInv, Plainly PROVE OptionsInv'
<1>1. stage \notin {"written", "done", "read", "convert", "decode", "accept"}
    BY DEF Plainly, Authorize, Checked, ResolveModel, Registered, Adapter, Credentials
<1>2. ASSUME NEW status, NEW class,
             Reject(status, class) \/ RefuseOffTheBooks(status, class)
      PROVE  OptionsInv'
    BY <1>1, <1>2, OptionsDone DEF Reject, RefuseOffTheBooks, Refuse
<1>3. CASE stage' = NextStage /\ UNCHANGED <<request, body, chat, sent>>
    BY <1>1, <1>3, OptionsPassed
<1>4. CASE Authorize
    BY <1>2, <1>3, <1>4 DEF Authorize, Pass
<1>5. CASE Checked
    BY <1>2, <1>3, <1>5 DEF Checked, Pass
<1>6. CASE ResolveModel
    BY <1>2, <1>3, <1>6 DEF ResolveModel, Pass
<1>7. CASE Registered
    BY <1>2, <1>3, <1>7 DEF Registered, Pass
<1>8. CASE Adapter
    BY <1>2, <1>3, <1>8, ZenonT(40) DEF Adapter, Pass
<1>9. CASE Credentials
    BY <1>2, <1>3, <1>9, ZenonT(40) DEF Credentials
<1>10. QED
    BY <1>4, <1>5, <1>6, <1>7, <1>8, <1>9 DEF Plainly

LEMMA OptionsDecoded == ASSUME RouteInv, OptionsInv, DecodeBody PROVE OptionsInv'
<1>1. stage = "decode"
    BY DEF DecodeBody
<1>2. CASE R!DecodeResponses(body) /\ Pass
    <2>1. KnownOptions
        BY <1>1, <1>2 DEF OptionsInv, KnownOptions, R!DecodeResponses, R!DecodeEnvelope
    <2>2. QED
        BY <1>1, <1>2, <2>1, OptionsPassed DEF Pass
<1>3. CASE Reject(400, "unsupported_request")
    BY <1>1, <1>3, OptionsDone DEF Reject, Refuse
<1>4. QED
    BY <1>2, <1>3 DEF DecodeBody

LEMMA OptionsAccepted == ASSUME RouteInv, OptionsInv, Accept PROVE OptionsInv'
<1>1. stage = "accept"
    BY DEF Accept
<1>2. CASE ValidateChatRequest(request.provider, chat) /\ Pass
    <2>1. AcceptedOptions
        BY <1>2 DEF AcceptedOptions, ValidateChatRequest
    <2>2. QED
        BY <1>1, <1>2, <2>1, OptionsPassed DEF Pass
<1>3. CASE Reject(400, "unsupported_request")
    BY <1>1, <1>3, OptionsDone DEF Reject, Refuse
<1>4. QED
    BY <1>2, <1>3 DEF Accept

LEMMA NotYetConverted ==
    ASSUME Route \in Routes, stage = "read"
    PROVE  ~Past("decode") /\ ~Past("convert")
<1>1. CASE Route = "chat"
    BY <1>1, RouteLengths DEF Stages, Past
<1>2. CASE Route = "responses"
    BY <1>2, RouteLengths DEF Stages, Past
<1>3. CASE Route = "native"
    BY <1>3, RouteLengths DEF Stages, Past
<1>4. CASE Route = "anthropic"
    BY <1>4, RouteLengths DEF Stages, Past
<1>5. CASE Route = "count_tokens"
    BY <1>5, RouteLengths DEF Stages, Past
<1>6. QED
    BY <1>1, <1>2, <1>3, <1>4, <1>5 DEF Routes

LEMMA OptionsRead == ASSUME RouteInv, OptionsInv, ReadBody PROVE OptionsInv'
<1>1. stage = "read" /\ body.options = request.options
    BY DEF ReadBody, OptionsInv
<1>2. CASE /\ Decodes /\ stage' = NextStage /\ UNCHANGED <<request, body, sent>>
           /\ chat' = IF request.dialect = "chat"
                      THEN [ChatRequest(body.turns, body.options) EXCEPT
                              !.stream = body.stream, !.tools = body.tools,
                              !.toolChoice = body.toolChoice]
                      ELSE chat
    <2>1. request.dialect = "chat" => request.options \subseteq ChatFields
        BY <1>1, <1>2 DEF Decodes, DecodeChat
    <2>2. request.dialect = "chat" => chat'.options = request.options
        BY <1>1, <1>2 DEF ChatRequest
    <2>3. request.dialect = "anthropic" => request.options \subseteq A!AnthropicFields
        BY <1>1, <1>2 DEF Decodes, A!DecodeRequest
    <2>4. ReadOptions'
        BY <1>2, <2>1, <2>2, <2>3 DEF ReadOptions
    <2>5. ~Past("decode") /\ ~Past("convert") /\ ~Past("accept")
        BY <1>1, NotYetConverted, NotYetAccepted DEF RouteInv
    <2>6. QED
        BY <1>1, <1>2, <2>4, <2>5, OptionsOnward
<1>3. CASE stage' = "done" /\ UNCHANGED <<request, body, chat, sent>>
    BY <1>1, <1>3, OptionsDone
<1>4. QED
    BY <1>2, <1>3 DEF ReadBody, Reject, RefuseOffTheBooks, Refuse

LEMMA OptionsConverted == ASSUME RouteInv, OptionsInv, Convert PROVE OptionsInv'
<1>1. /\ stage = "convert" /\ body.options = request.options /\ request.provider \in Providers
      /\ request.dialect \in {"responses", "anthropic"}
    BY AtConvert DEF Convert, OptionsInv
<1>2. CASE Reject(400, "unsupported_request")
    BY <1>1, <1>2, OptionsDone DEF Reject, Refuse
<1>3. CASE /\ request.dialect = "responses" /\ R!Convertible(request.provider, body)
           /\ chat' = R!ToChatCompletionRequest(request.provider, body)
           /\ stage' = NextStage /\ UNCHANGED <<request, body, sent>>
    <2>1. chat'.options = R!Renamed(request.options)
        BY <1>1, <1>3 DEF R!ToChatCompletionRequest, ChatRequest, R!ChatRequest
    <2>2. /\ "parallel_tool_calls" \in request.options => request.provider # "deepseek"
          /\ request.options \cap R!CodexFields # {} => request.provider = "codex"
        BY <1>1, <1>3 DEF R!Convertible, R!AllowsParallel
    <2>3. ConvertedOptions'
        BY <1>3, <2>1, <2>2 DEF ConvertedOptions
    <2>4. (Past("decode") => KnownOptions') /\ (Past("read") => ReadOptions')
        BY <1>3 DEF OptionsInv, KnownOptions, ReadOptions
    <2>5. ~Past("accept")
        BY <1>1, NotYetAccepted DEF RouteInv
    <2>6. QED
        BY <1>1, <1>3, <2>3, <2>4, <2>5, OptionsOnward
<1>4. CASE /\ request.dialect = "anthropic"
           /\ chat' = A!ToChatCompletion(request.provider, body)
           /\ stage' = NextStage /\ UNCHANGED <<request, body, sent>>
    <2>1. chat'.options = A!GenerationOptions(request.provider, request.options)
        BY <1>1, <1>4 DEF A!ToChatCompletion, ChatRequest, A!ChatRequest
    <2>2. ConvertedOptions'
        BY <1>4, <2>1 DEF ConvertedOptions
    <2>3. (Past("decode") => KnownOptions') /\ (Past("read") => ReadOptions')
        BY <1>4 DEF OptionsInv, KnownOptions, ReadOptions
    <2>4. ~Past("accept")
        BY <1>1, NotYetAccepted DEF RouteInv
    <2>5. QED
        BY <1>1, <1>4, <2>2, <2>3, <2>4, OptionsOnward
<1>5. QED
    BY <1>1, <1>2, <1>3, <1>4 DEF Convert

LEMMA OptionsExecuted == ASSUME RouteInv, OptionsInv, Execute PROVE OptionsInv'
<1>1. stage = "execute" /\ request.provider \in Providers
    BY DEF Execute, OptionsInv
<1>2. CASE Reject(400, "invalid_request")
    BY <1>1, <1>2, OptionsDone DEF Reject, Refuse
<1>3. CASE /\ stage' = NextStage /\ UNCHANGED <<request, body, chat>>
           /\ sent' = IF Route = "native" THEN [native |-> body]
                      ELSE Marshal(request.provider, chat)
    <2>1. stage' = "done"
        BY <1>1, <1>3, CredentialsLast DEF RouteInv, OnRoute
    <2>2. Route' = Route /\ Route' \in Routes
        BY <1>3, SameRoute DEF RouteInv
    <2>3. ~Past("read")' /\ ~Past("decode")' /\ ~Past("convert")' /\ ~Past("accept")'
        BY <2>1, <2>2, NotPastAfter
    <2>4. OnlyLocalOptionsDropped'
        <3>1. CASE Route = "native"
            BY <2>2, <3>1 DEF OnlyLocalOptionsDropped, Converted
        <3>2. CASE Route # "native"
            <4>1. ReadOptions /\ AcceptedOptions
                BY <1>1, <3>2, AtExecute DEF OptionsInv
            <4>2. /\ request.dialect = "responses" => KnownOptions
                  /\ request.dialect # "chat" => ConvertedOptions
                BY <1>1, <3>2, AtExecute DEF OptionsInv
            <4>3. request.dialect \in {"chat", "responses", "anthropic"}
                BY <1>1, <3>2, AtExecute
            <4>4. ASSUME NEW option \in request.options, option \notin LocalOptions
                  PROVE  Upstream(option) \in sent'.options
                BY <1>1, <1>3, <3>2, <4>1, <4>2, <4>3, <4>4, OptionsReach
            <4>5. QED
                BY <1>3, <4>4 DEF OnlyLocalOptionsDropped, LocalOptions, Upstream
        <3>3. QED
            BY <3>1, <3>2
    <2>5. body'.options = request'.options /\ request'.provider \in Providers
        BY <1>1, <1>3 DEF OptionsInv
    <2>6. QED
        BY <2>1, <2>3, <2>4, <2>5 DEF OptionsInv
<1>4. QED
    BY <1>2, <1>3 DEF Execute

LEMMA OptionsCounted == ASSUME RouteInv, OptionsInv, CountTokens PROVE OptionsInv'
<1>1. stage = "count" /\ stage' = NextStage /\ UNCHANGED <<request, body, chat, sent>>
    BY DEF CountTokens
<1>2. QED
    BY <1>1, OptionsPassed

LEMMA OptionsStutter == ASSUME OptionsInv, UNCHANGED vars PROVE OptionsInv'
<1>1. Route' = Route
    BY DEF vars, Route
<1>2. \A s : Past(s)' = Past(s)
    BY <1>1 DEF vars, Past
<1>3. OnlyLocalOptionsDropped'
    BY <1>1, ZenonT(40)
    DEF vars, OptionsInv, OnlyLocalOptionsDropped, Converted, None, LocalOptions, Upstream
<1>4. UNCHANGED <<request, chat>>
    BY DEF vars
<1>5. /\ request'.provider \in Providers
      /\ stage' # "written" => body'.options = request'.options
      /\ stage' # "done" => sent' = None
    BY DEF vars, OptionsInv
<1>6. QED
    BY <1>2, <1>3, <1>4, <1>5, SameOptions DEF OptionsInv, None

LEMMA OptionsStep == RouteInv /\ OptionsInv /\ [Next]_vars => OptionsInv'
BY OptionsStutter, OptionsWrite, OptionsPlainly, OptionsDecoded, OptionsAccepted, OptionsRead,
   OptionsConverted, OptionsExecuted, OptionsCounted DEF Next, Plainly

\* Whatever options a client sets, from each dialect to each provider, an option that is
\* not one its route keeps to itself is in the document sent upstream, under the name it
\* has there, or nothing is sent (Validate, ToChatCompletionRequest, ToChatCompletion,
\* the validation policy of the provider, marshalChatCompletionsRequest,
\* marshalCodexResponsesRequest).
THEOREM OnlyLocalDropped == Spec => []OnlyLocalOptionsDropped
<1>1. Init => RouteInv /\ OptionsInv
    BY RouteInit, OptionsInit
<1>2. RouteInv /\ OptionsInv /\ [Next]_vars => (RouteInv /\ OptionsInv)'
    BY RouteStep, OptionsStep
<1>3. OptionsInv => OnlyLocalOptionsDropped
    BY DEF OptionsInv
<1>4. QED
    BY <1>1, <1>2, <1>3, PTL DEF Spec

-----------------------------------------------------------------------------
(* What a route has established of the conversation.                       *)

ReadMessages == request.dialect = "chat" => chat = ChatBody(request)
ConvertedMessages ==
    /\ request.dialect = "responses" =>
         /\ R!Convertible(request.provider, Body(request))
         /\ chat = R!ToChatCompletionRequest(request.provider, Body(request))
    /\ request.dialect = "anthropic" =>
         A!Possible(Body(request)) /\ chat = A!ToChatCompletion(request.provider, Body(request))
DecodedMessages == R!DecodeResponses(Body(request))
ValidMessages == Validate(chat)
AcceptedMessages == ValidateChatRequest(request.provider, chat)

Delivered ==
    sent # None /\ Route # "native" =>
      Prepared(request, chat) /\ sent = Marshal(request.provider, chat)

DeliveryInv ==
    /\ Telling(request)
    /\ stage # "written" => body = Body(request)
    /\ Past("read") => ReadMessages
    /\ Past("decode") => DecodedMessages
    /\ Past("convert") => ConvertedMessages
    /\ Past("validate") => ValidMessages
    /\ Past("accept") => AcceptedMessages
    /\ Delivered

LEMMA NotYetValid ==
    ASSUME Route \in Routes, stage \in {"read", "convert"}
    PROVE  ~Past("validate")
<1>1. CASE Route = "chat"
    BY <1>1, RouteLengths DEF Stages, Past
<1>2. CASE Route = "responses"
    BY <1>2, RouteLengths DEF Stages, Past
<1>3. CASE Route = "native"
    BY <1>3, RouteLengths DEF Stages, Past
<1>4. CASE Route = "anthropic"
    BY <1>4, RouteLengths DEF Stages, Past
<1>5. CASE Route = "count_tokens"
    BY <1>5, RouteLengths DEF Stages, Past
<1>6. QED
    BY <1>1, <1>2, <1>3, <1>4, <1>5 DEF Routes

LEMMA DeliveryInit == ASSUME Init PROVE DeliveryInv
<1>1. RouteInv /\ stage = "written" /\ sent = None /\ request \in Requests
    BY RouteInit DEF Init
<1>2. \A s : ~Past(s)
    BY <1>1, NotPastOutside DEF RouteInv
<1>3. Telling(request)
    BY <1>1, ConversationAssumption DEF Telling
<1>4. QED
    BY <1>1, <1>2, <1>3 DEF DeliveryInv, Delivered

\* The conversation of a request that is on its way does not change.
LEMMA SameTelling ==
    ASSUME UNCHANGED request, Telling(request) PROVE Telling(request)'
OBVIOUS

LEMMA DeliveryOnward ==
    ASSUME RouteInv, OptionsInv, DeliveryInv, stage \notin {"written", "done"}, stage' = NextStage,
           UNCHANGED <<request, body, sent>>,
           Past("read") \/ stage = "read" => ReadMessages',
           Past("decode") \/ stage = "decode" => DecodedMessages',
           Past("convert") \/ stage = "convert" => ConvertedMessages',
           Past("validate") \/ stage = "validate" => ValidMessages',
           Past("accept") \/ stage = "accept" => AcceptedMessages'
    PROVE  DeliveryInv'
<1>1. /\ Past("read")' => Past("read") \/ stage = "read"
      /\ Past("decode")' => Past("decode") \/ stage = "decode"
      /\ Past("convert")' => Past("convert") \/ stage = "convert"
      /\ Past("validate")' => Past("validate") \/ stage = "validate"
      /\ Past("accept")' => Past("accept") \/ stage = "accept"
    BY Onward
<1>2. sent' = None
    BY DEF OptionsInv
<1>3. Delivered'
    BY <1>2 DEF Delivered, None
<1>4. Telling(request)' /\ (stage' # "written" => body' = Body(request)')
    BY SameTelling DEF DeliveryInv
<1>5. QED
    BY <1>1, <1>3, <1>4 DEF DeliveryInv

LEMMA DeliveryDone ==
    ASSUME RouteInv, OptionsInv, DeliveryInv, stage \notin {"written", "done"}, stage' = "done",
           UNCHANGED <<request, body, chat, sent>>
    PROVE  DeliveryInv'
<1>1. Route' = Route /\ Route' \in Routes
    BY SameRoute DEF RouteInv
<1>2. \A s : ~Past(s)'
    BY <1>1, NotPastAfter
<1>3. Delivered'
    BY DEF OptionsInv, Delivered, None
<1>4. Telling(request)' /\ (stage' # "written" => body' = Body(request)')
    BY SameTelling DEF DeliveryInv
<1>5. QED
    BY <1>2, <1>3, <1>4 DEF DeliveryInv

LEMMA SameMessages ==
    ASSUME UNCHANGED <<request, chat>>
    PROVE  /\ ReadMessages => ReadMessages'
           /\ DecodedMessages => DecodedMessages'
           /\ ConvertedMessages => ConvertedMessages'
           /\ ValidMessages => ValidMessages'
           /\ AcceptedMessages => AcceptedMessages'
<1>1. ReadMessages => ReadMessages'
    BY DEF ReadMessages
<1>2. DecodedMessages => DecodedMessages'
    BY DEF DecodedMessages
<1>3. ConvertedMessages => ConvertedMessages'
    BY DEF ConvertedMessages
<1>4. ValidMessages => ValidMessages'
    BY DEF ValidMessages
<1>5. AcceptedMessages => AcceptedMessages'
    BY DEF AcceptedMessages
<1>6. QED
    BY <1>1, <1>2, <1>3, <1>4, <1>5

\* A check that changes nothing but what is known.
LEMMA DeliveryPassed ==
    ASSUME RouteInv, OptionsInv, DeliveryInv, stage \notin {"written", "done", "read", "convert"},
           stage' = NextStage, UNCHANGED <<request, body, chat, sent>>,
           stage = "decode" => DecodedMessages, stage = "validate" => ValidMessages,
           stage = "accept" => AcceptedMessages
    PROVE  DeliveryInv'
<1>1. /\ Past("read") \/ stage = "read" => ReadMessages'
      /\ Past("decode") \/ stage = "decode" => DecodedMessages'
      /\ Past("convert") \/ stage = "convert" => ConvertedMessages'
      /\ Past("validate") \/ stage = "validate" => ValidMessages'
      /\ Past("accept") \/ stage = "accept" => AcceptedMessages'
    BY SameMessages DEF DeliveryInv
<1>2. QED
    BY <1>1, DeliveryOnward

LEMMA DeliveryWrite ==
    ASSUME RouteInv, OptionsInv, DeliveryInv, Send \/ \E turn \in Turns : Speak(turn)
    PROVE  DeliveryInv'
<1>1. /\ stage = "written" /\ stage' \in {"written", "auth"} /\ sent' = sent
      /\ UNCHANGED request \/ \E said : request' = [request EXCEPT !.said = said]
    BY DEF Send, Speak
<1>2. Route' \in Routes
    BY <1>1, SameRoute DEF RouteInv
<1>3. \A s : ~Past(s)'
    BY <1>1, <1>2, NotPastAfter
<1>4. Delivered'
    BY <1>1 DEF OptionsInv, Delivered, None
<1>5. Telling(request)'
    <2>1. CASE Send
        BY <2>1, SameTelling DEF Send, DeliveryInv
    <2>2. ASSUME NEW turn \in Turns, Speak(turn) PROVE Telling(request)'
        <3>1. request' = [request EXCEPT !.said = Append(@, turn)]
            BY <2>2 DEF Speak
        <3>2. /\ request'.said = Append(request.said, turn)
              /\ request'.grouped = request.grouped
            BY <3>1 DEF RouteInv
        <3>3. request.said \in Seq(Turns) /\ request.grouped \in BOOLEAN
            BY DEF DeliveryInv, Telling
        <3>4. Append(request.said, turn) \in Seq(Turns)
            BY <3>3
        <3>5. QED
            BY <3>2, <3>3, <3>4 DEF Telling
    <2>3. QED
        BY <2>1, <2>2
<1>6. stage' # "written" => body' = Body(request)'
    BY <1>1 DEF Send, Speak
<1>7. QED
    BY <1>3, <1>4, <1>5, <1>6 DEF DeliveryInv

\* The checks that learn nothing of the messages.
Silently == Authorize \/ ResolveModel \/ Registered \/ Adapter \/ Credentials

LEMMA DeliverySilently ==
    ASSUME RouteInv, OptionsInv, DeliveryInv, Silently PROVE DeliveryInv'
<1>1. stage \notin {"written", "done", "read", "convert", "decode", "accept", "validate"}
    BY DEF Silently, Authorize, ResolveModel, Registered, Adapter, Credentials
<1>2. ASSUME NEW status, NEW class,
             Reject(status, class) \/ RefuseOffTheBooks(status, class)
      PROVE  DeliveryInv'
    BY <1>1, <1>2, DeliveryDone DEF Reject, RefuseOffTheBooks, Refuse
<1>3. CASE stage' = NextStage /\ UNCHANGED <<request, body, chat, sent>>
    BY <1>1, <1>3, DeliveryPassed
<1>4. CASE Authorize
    BY <1>2, <1>3, <1>4 DEF Authorize, Pass
<1>5. CASE ResolveModel
    BY <1>2, <1>3, <1>5 DEF ResolveModel, Pass
<1>6. CASE Registered
    BY <1>2, <1>3, <1>6 DEF Registered, Pass
<1>7. CASE Adapter
    BY <1>2, <1>3, <1>7, ZenonT(40) DEF Adapter, Pass
<1>8. CASE Credentials
    BY <1>2, <1>3, <1>8, ZenonT(40) DEF Credentials
<1>9. QED
    BY <1>4, <1>5, <1>6, <1>7, <1>8 DEF Silently

\* The three checks of the messages.
LEMMA DeliveryChecked ==
    ASSUME RouteInv, OptionsInv, DeliveryInv, Checked \/ DecodeBody \/ Accept
    PROVE  DeliveryInv'
<1>1. stage \in {"validate", "decode", "accept"}
    BY DEF Checked, DecodeBody, Accept
<1>2. CASE Reject(400, "unsupported_request")
    BY <1>1, <1>2, DeliveryDone DEF Reject, Refuse
<1>3. CASE Checked /\ Validate(chat) /\ Pass
    <2>1. stage = "validate" /\ ValidMessages
        BY <1>3 DEF Checked, ValidMessages
    <2>2. QED
        BY <1>3, <2>1, DeliveryPassed DEF Pass
<1>4. CASE DecodeBody /\ R!DecodeResponses(body) /\ Pass
    <2>1. stage = "decode" /\ body = Body(request)
        BY <1>4 DEF DecodeBody, DeliveryInv
    <2>2. DecodedMessages
        BY <1>4, <2>1 DEF DecodedMessages
    <2>3. QED
        BY <1>4, <2>1, <2>2, DeliveryPassed DEF Pass
<1>5. CASE Accept /\ ValidateChatRequest(request.provider, chat) /\ Pass
    <2>1. stage = "accept" /\ AcceptedMessages
        BY <1>5 DEF Accept, AcceptedMessages
    <2>2. QED
        BY <1>5, <2>1, DeliveryPassed DEF Pass
<1>6. QED
    BY <1>2, <1>3, <1>4, <1>5 DEF Checked, DecodeBody, Accept

LEMMA DeliveryRead ==
    ASSUME RouteInv, OptionsInv, DeliveryInv, ReadBody PROVE DeliveryInv'
<1>1. stage = "read" /\ body = Body(request)
    BY DEF ReadBody, DeliveryInv
<1>2. CASE /\ stage' = NextStage /\ UNCHANGED <<request, body, sent>>
           /\ chat' = IF request.dialect = "chat"
                      THEN [ChatRequest(body.turns, body.options) EXCEPT
                              !.stream = body.stream, !.tools = body.tools,
                              !.toolChoice = body.toolChoice]
                      ELSE chat
    <2>1. request.dialect = "chat" => chat' = ChatBody(request)
        BY <1>1, <1>2 DEF ChatBody
    <2>2. request' = request
        BY <1>2
    <2>3. ReadMessages'
        BY <2>1, <2>2 DEF ReadMessages
    <2>4. ~Past("decode") /\ ~Past("convert") /\ ~Past("accept") /\ ~Past("validate")
        BY <1>1, NotYetConverted, NotYetAccepted, NotYetValid DEF RouteInv
    <2>5. QED
        BY <1>1, <1>2, <2>3, <2>4, DeliveryOnward
<1>3. CASE stage' = "done" /\ UNCHANGED <<request, body, chat, sent>>
    BY <1>1, <1>3, DeliveryDone
<1>4. QED
    BY <1>2, <1>3 DEF ReadBody, Reject, RefuseOffTheBooks, Refuse

LEMMA DeliveryConverted ==
    ASSUME RouteInv, OptionsInv, DeliveryInv, Convert PROVE DeliveryInv'
<1>1. /\ stage = "convert" /\ body = Body(request)
      /\ request.dialect \in {"responses", "anthropic"}
    BY AtConvert DEF Convert, DeliveryInv
<1>2. CASE Reject(400, "unsupported_request")
    BY <1>1, <1>2, DeliveryDone DEF Reject, Refuse
<1>3. CASE /\ stage' = NextStage /\ UNCHANGED <<request, body, sent>>
           /\ request.dialect = "responses" =>
                /\ R!Convertible(request.provider, body)
                /\ chat' = R!ToChatCompletionRequest(request.provider, body)
           /\ request.dialect = "anthropic" =>
                A!Possible(body) /\ chat' = A!ToChatCompletion(request.provider, body)
    <2>1. request' = request
        BY <1>3
    <2>2. ConvertedMessages'
        BY <1>1, <1>3, <2>1 DEF ConvertedMessages
    <2>3. Past("decode") => DecodedMessages'
        BY <2>1 DEF DecodedMessages, DeliveryInv
    <2>4. Past("read") => ReadMessages'
        BY <1>1, <2>1 DEF ReadMessages
    <2>5. ~Past("accept") /\ ~Past("validate")
        BY <1>1, NotYetAccepted, NotYetValid DEF RouteInv
    <2>6. QED
        BY <1>1, <1>3, <2>2, <2>3, <2>4, <2>5, DeliveryOnward
<1>4. QED
    BY <1>1, <1>2, <1>3 DEF Convert

LEMMA DeliveryExecuted ==
    ASSUME RouteInv, OptionsInv, DeliveryInv, Execute PROVE DeliveryInv'
<1>1. stage = "execute" /\ request.provider \in Providers /\ body = Body(request)
    BY DEF Execute, OptionsInv, DeliveryInv
<1>2. CASE Reject(400, "invalid_request")
    BY <1>1, <1>2, DeliveryDone DEF Reject, Refuse
<1>3. CASE /\ stage' = NextStage /\ UNCHANGED <<request, body, chat>>
           /\ sent' = IF Route = "native" THEN [native |-> body]
                      ELSE Marshal(request.provider, chat)
    <2>1. stage' = "done"
        BY <1>1, <1>3, CredentialsLast DEF RouteInv, OnRoute
    <2>2. Route' = Route /\ Route' \in Routes
        BY <1>3, SameRoute DEF RouteInv
    <2>3. \A s : ~Past(s)'
        BY <2>1, <2>2, NotPastAfter
    <2>4. Delivered'
        <3>1. CASE Route = "native"
            BY <2>2, <3>1 DEF Delivered
        <3>2. CASE Route # "native"
            <4>1. /\ request.dialect \in {"chat", "responses", "anthropic"}
                  /\ ReadMessages /\ ValidMessages /\ AcceptedMessages
                  /\ request.dialect = "responses" => DecodedMessages
                  /\ request.dialect # "chat" => ConvertedMessages
                BY <1>1, <3>2, AtExecute DEF DeliveryInv
            <4>2. Prepared(request, chat)
                <5>1. request.dialect = "chat" =>
                        chat.messages = Body(request).turns /\ chat.codexInput = <<>>
                    BY <4>1 DEF ReadMessages, ChatBody, ChatRequest
                <5>2. QED
                    BY <1>1, <4>1, <5>1 DEF Prepared, ValidMessages, AcceptedMessages,
                                            DecodedMessages, ConvertedMessages
            <4>3. request' = request /\ chat' = chat
                BY <1>3
            <4>4. Prepared(request, chat)'
                BY <4>2, <4>3
            <4>5. sent' = Marshal(request.provider, chat)'
                BY <1>3, <3>2, <4>3
            <4>6. QED
                BY <4>4, <4>5 DEF Delivered
        <3>3. QED
            BY <3>1, <3>2
    <2>5. Telling(request)' /\ body' = Body(request)'
        BY <1>1, <1>3, SameTelling DEF DeliveryInv
    <2>6. QED
        BY <2>3, <2>4, <2>5 DEF DeliveryInv
<1>4. QED
    BY <1>2, <1>3 DEF Execute

LEMMA DeliveryCounted ==
    ASSUME RouteInv, OptionsInv, DeliveryInv, CountTokens PROVE DeliveryInv'
<1>1. stage = "count" /\ stage' = NextStage /\ UNCHANGED <<request, body, chat, sent>>
    BY DEF CountTokens
<1>2. QED
    BY <1>1, DeliveryPassed

LEMMA DeliveryStutter == ASSUME DeliveryInv, UNCHANGED vars PROVE DeliveryInv'
<1>1. Route' = Route
    BY DEF vars, Route
<1>2. \A s : Past(s)' = Past(s)
    BY <1>1 DEF vars, Past
<1>3. request' = request /\ chat' = chat /\ sent' = sent /\ body' = body /\ stage' = stage
    BY DEF vars
<1>4. Delivered'
    BY <1>1, <1>3 DEF DeliveryInv, Delivered, None
<1>5. Telling(request)' /\ (stage' # "written" => body' = Body(request)')
    BY <1>3, SameTelling DEF DeliveryInv
<1>6. QED
    BY <1>2, <1>3, <1>4, <1>5, SameMessages DEF DeliveryInv

LEMMA DeliveryStep == RouteInv /\ OptionsInv /\ DeliveryInv /\ [Next]_vars => DeliveryInv'
BY DeliveryStutter, DeliveryWrite, DeliverySilently, DeliveryChecked, DeliveryRead,
   DeliveryConverted, DeliveryExecuted, DeliveryCounted DEF Next, Silently

LEMMA DeliveryAlways == Spec => [](Telling(request) /\ Delivered)
<1>1. Init => RouteInv /\ OptionsInv /\ DeliveryInv
    BY RouteInit, OptionsInit, DeliveryInit
<1>2. RouteInv /\ OptionsInv /\ DeliveryInv /\ [Next]_vars
        => (RouteInv /\ OptionsInv /\ DeliveryInv)'
    BY RouteStep, OptionsStep, DeliveryStep
<1>3. DeliveryInv => Telling(request) /\ Delivered
    BY DEF DeliveryInv
<1>4. QED
    BY <1>1, <1>2, <1>3, PTL DEF Spec

LEMMA SentItemsAre == SentItems = ItemsSent(sent)
BY DEF SentItems, ItemsSent

\* Whatever conversation a client writes, no upstream is sent the result of a tool without
\* the call before it, or two results of one call, unless a chat client sends them to a
\* provider that takes its messages as they are.
THEOREM ResultsPaired == Spec => []PairedResults
<1>1. ASSUME Telling(request), Delivered PROVE PairedResults
    <2>1. ASSUME Converted, ~(request.dialect = "chat" /\ request.provider # "codex")
          PROVE  Paired(SentItems)
        <3>1. Prepared(request, chat) /\ sent = Marshal(request.provider, chat)
            BY <1>1, <2>1 DEF Delivered, Converted
        <3>2. Paired(ItemsSent(Marshal(request.provider, chat)))
            BY <1>1, <2>1, <3>1, PairedSent
        <3>3. QED
            BY <3>1, <3>2, SentItemsAre
    <2>2. QED
        BY <2>1 DEF PairedResults, Paired
<1>2. QED
    BY <1>1, DeliveryAlways, PTL

\* Whatever a client says, in whatever dialect, however it cuts it into messages, and whatever
\* upstream the request goes to: the items and messages the upstream gets mean what was said,
\* every word, call and result by the one who said it and in its order, and the instructions
\* are the system's words, all of them (ToChatCompletionRequest, ToChatCompletion,
\* marshalCodexResponsesRequest, marshalChatCompletionsRequest).
THEOREM ConversationKept == Spec => []SameConversation
<1>1. ASSUME Telling(request), Delivered PROVE SameConversation
    <2> DEFINE q == request
               words == Spread(TurnSays, q.said)
    <2>1. SUFFICES ASSUME Converted, q.grouped => Orderly
                   PROVE  /\ Meaning(SentItems) = Meaning(SaidItems)
                          /\ SentInstructions = SaidInstructions
        BY DEF SameConversation
    <2>2. Prepared(q, chat) /\ sent = Marshal(q.provider, chat)
        BY <1>1, <2>1 DEF Delivered, Converted
    <2>3. OrderlyTelling(q) /\ q.said \in Seq(Turns)
        BY <1>1, <2>1 DEF OrderlyTelling, OrderlySaid, Orderly, Telling
    <2>4. /\ Meaning(ItemsSent(sent)) = Spread(NotSys, words)
          /\ Flatten(sent.instructions) \o Flatten(SystemTexts(sent.messages))
               = Spread(SysParts, words)
        BY <2>2, <2>3, SaidSent
    <2>5. Meaning(SentItems) = Spread(NotSys, words)
        BY <2>4, SentItemsAre
    <2>6. SentInstructions = Spread(SysParts, words)
        BY <2>4 DEF SentInstructions
    <2>7. Meaning(SaidItems) = Spread(NotSys, words)
        BY <2>3, SaidMeans DEF SaidItems, Spoken
    <2>8. SaidInstructions = Spread(SysParts, words)
        BY <2>3, SaidInstructs DEF SaidInstructions
    <2>9. QED
        BY <2>5, <2>6, <2>7, <2>8
<1>2. QED
    BY <1>1, DeliveryAlways, PTL
-----------------------------------------------------------------------------
(* A fine conversation on its way.                                         *)

Dialects == {"chat", "responses", "anthropic", "count_tokens"}
Unrefused == Fine(request) /\ request.trouble = "none" => told.status \in {0, 200}
FineInv == request.dialect \in Dialects /\ Unrefused

\* What the checks of the chat request are given.
LEMMA AtChecks ==
    ASSUME RouteInv, stage \in {"validate", "accept", "execute"}, Route # "native"
    PROVE  /\ request.dialect \in {"chat", "responses", "anthropic"}
           /\ Past("read")
           /\ request.dialect # "chat" => Past("convert")
<1>1. \E i \in DOMAIN Stages[Route] : Stages[Route][i] = stage
    BY DEF RouteInv, OnRoute
<1>2. Route \in {"chat", "responses", "anthropic"} /\ Route = request.dialect
    BY <1>1, RouteLengths DEF Stages, RouteInv, Routes, Route
<1>3. CASE Route = "chat"
    <2>1. /\ 2 \in DOMAIN Stages[Route] /\ Stages[Route][2] = "read"
          /\ \E i \in 3 .. 9 : i \in DOMAIN Stages[Route] /\ Stages[Route][i] = stage
        BY <1>1, <1>3, RouteLengths DEF Stages
    <2>2. QED
        BY <1>2, <1>3, <2>1 DEF Past
<1>4. CASE Route = "responses"
    <2>1. /\ 2 \in DOMAIN Stages[Route] /\ Stages[Route][2] = "read"
          /\ 7 \in DOMAIN Stages[Route] /\ Stages[Route][7] = "convert"
          /\ \E i \in 8 .. 11 : i \in DOMAIN Stages[Route] /\ Stages[Route][i] = stage
        BY <1>1, <1>4, RouteLengths DEF Stages
    <2>2. QED
        BY <1>2, <1>4, <2>1 DEF Past
<1>5. CASE Route = "anthropic"
    <2>1. /\ 2 \in DOMAIN Stages[Route] /\ Stages[Route][2] = "read"
          /\ 5 \in DOMAIN Stages[Route] /\ Stages[Route][5] = "convert"
          /\ \E i \in 6 .. 10 : i \in DOMAIN Stages[Route] /\ Stages[Route][i] = stage
        BY <1>1, <1>5, RouteLengths DEF Stages
    <2>2. QED
        BY <1>2, <1>5, <2>1 DEF Past
<1>6. QED
    BY <1>2, <1>3, <1>4, <1>5

LEMMA FineChat ==
    ASSUME RouteInv, DeliveryInv, Fine(request),
           stage \in {"validate", "accept", "execute"}, Route # "native"
    PROVE  /\ Validate(chat) /\ ValidateChatRequest(request.provider, chat)
           /\ request.provider = "codex" => chat.options = {}
<1>1. /\ request.dialect \in {"chat", "responses", "anthropic"}
      /\ ReadMessages
      /\ request.dialect # "chat" => ConvertedMessages
    BY AtChecks DEF DeliveryInv
<1>2. Presentable(request.provider, chat) /\ (request.provider = "codex" => chat.options = {})
    <2>1. CASE request.dialect = "chat"
        BY <1>1, <2>1, ChatPresentable DEF ReadMessages
    <2>2. CASE request.dialect = "responses"
        BY <1>1, <2>2, ResponsesPresentable DEF ConvertedMessages
    <2>3. CASE request.dialect = "anthropic"
        BY <1>1, <2>3, AnthropicPresentable DEF ConvertedMessages
    <2>4. QED
        BY <1>1, <2>1, <2>2, <2>3
<1>3. request.provider \in Providers
    BY DEF Fine
<1>4. QED
    BY <1>2, <1>3, FineAccepted

\* A fine conversation passes every check there is.
LEMMA FinePasses ==
    ASSUME RouteInv, OptionsInv, DeliveryInv, Fine(request), request.trouble = "none", Next,
           stage # "written"
    PROVE  told' = told \/ told'.status = 200
<1>1. body = Body(request)
    BY DEF DeliveryInv
<1>2. \A kind : kind # "none" => ~Trouble(kind)
    BY DEF Trouble
<1>3. CASE Authorize
    BY <1>2, <1>3 DEF Authorize, Pass
<1>4. CASE ReadBody
    <2>1. Decodes
        <3>1. request.dialect \in {"chat", "responses", "anthropic", "count_tokens"}
            BY DEF Fine
        <3>2. CASE request.dialect = "chat"
            <4>1. /\ body.options \subseteq ChatFields
                  /\ \A i \in DOMAIN body.turns : ContentAllowed(body.turns[i])
                  /\ ToolsAllowed(ChatBody(request)) /\ LogprobsAgree(ChatBody(request))
                  /\ StreamOptionsAgree(ChatBody(request))
                BY <1>1, <3>2, ChatDecoded
            <4>2. DecodeChat
                BY <1>1, <4>1 DEF DecodeChat, ChatBody
            <4>3. QED
                BY <3>2, <4>2 DEF Decodes
        <3>3. CASE request.dialect = "responses"
            BY <1>1, <3>3, ResponsesDecoded DEF Decodes
        <3>4. CASE request.dialect = "anthropic"
            BY <1>1, <3>4, AnthropicDecoded DEF Decodes
        <3>5. CASE request.dialect = "count_tokens"
            BY <1>1, <3>5, AnthropicDecoded DEF Decodes
        <3>6. QED
            BY <3>1, <3>2, <3>3, <3>4, <3>5
    <2>2. QED
        BY <1>2, <1>4, <2>1 DEF ReadBody
<1>5. CASE Checked
    <2>1. stage = "validate" /\ Route # "native"
        <3>1. stage = "validate" /\ \E i \in DOMAIN Stages[Route] : Stages[Route][i] = stage
            BY <1>5 DEF Checked, RouteInv, OnRoute
        <3>2. QED
            BY <3>1, RouteLengths DEF Stages
    <2>2. Validate(chat)
        BY <2>1, FineChat
    <2>3. QED
        BY <1>5, <2>2 DEF Checked, Pass
<1>6. CASE ResolveModel
    BY <1>2, <1>6 DEF ResolveModel, Pass
<1>7. CASE Registered
    BY <1>2, <1>7 DEF Registered, Pass
<1>8. CASE DecodeBody
    <2>1. request.dialect = "responses"
        <3>1. stage = "decode" /\ \E i \in DOMAIN Stages[Route] : Stages[Route][i] = stage
            BY <1>8 DEF DecodeBody, RouteInv, OnRoute
        <3>2. Route = "responses"
            BY <3>1, RouteLengths DEF Stages, RouteInv, Routes
        <3>3. QED
            BY <3>2 DEF Route
    <2>2. R!DecodeResponses(body)
        BY <1>1, <2>1, ResponsesDecoded
    <2>3. QED
        BY <1>8, <2>2 DEF DecodeBody, Pass
<1>9. CASE Adapter
    BY <1>2, <1>9 DEF Adapter, Pass
<1>10. CASE Convert
    <2>1. request.dialect \in {"responses", "anthropic"}
        BY <1>10, AtConvert DEF Convert
    <2>2. CASE request.dialect = "responses"
        <3>1. R!Convertible(request.provider, body)
            BY <1>1, <2>2, ResponsesConvertible
        <3>2. QED
            BY <1>10, <2>2, <3>1 DEF Convert
    <2>3. CASE request.dialect = "anthropic"
        <3>1. A!Possible(body) /\ A!Messages(body) # <<>>
            BY <1>1, <2>3, AnthropicPossible, AnthropicMessages
        <3>2. QED
            BY <1>10, <2>3, <3>1 DEF Convert
    <2>4. QED
        BY <2>1, <2>2, <2>3
<1>11. CASE Accept
    <2>1. stage = "accept" /\ Route # "native"
        <3>1. stage = "accept" /\ \E i \in DOMAIN Stages[Route] : Stages[Route][i] = stage
            BY <1>11 DEF Accept, RouteInv, OnRoute
        <3>2. QED
            BY <3>1, RouteLengths DEF Stages
    <2>2. ValidateChatRequest(request.provider, chat)
        BY <2>1, FineChat
    <2>3. QED
        BY <1>11, <2>2 DEF Accept, Pass
<1>12. CASE Credentials
    BY <1>2, <1>12 DEF Credentials
<1>13. CASE Execute
    <2>1. stage = "execute"
        BY <1>13 DEF Execute
    <2>2. Route # "native" /\ request.provider = "codex" => chat.options = {}
        BY <2>1, FineChat
    <2>3. QED
        BY <1>13, <2>2 DEF Execute
<1>14. CASE CountTokens
    BY <1>14 DEF CountTokens
<1>15. QED
    BY <1>3, <1>4, <1>5, <1>6, <1>7, <1>8, <1>9, <1>10, <1>11, <1>12, <1>13, <1>14
       DEF Next, Send, Speak

LEMMA FineInit == ASSUME Init PROVE FineInv
<1>1. told.status = 0 /\ request \in Requests
    BY DEF Init, None
<1>2. QED
    BY <1>1, DialectAssumption DEF FineInv, Unrefused, Dialects

LEMMA FineStep ==
    RouteInv /\ OptionsInv /\ DeliveryInv /\ FineInv /\ [Next]_vars => FineInv'
<1> SUFFICES ASSUME RouteInv, OptionsInv, DeliveryInv, FineInv, [Next]_vars PROVE FineInv'
    OBVIOUS
<1>1. RouteInv'
    BY RouteStep
<1>2. CASE UNCHANGED vars
    BY <1>2 DEF vars, FineInv, Unrefused
<1>3. CASE stage = "written" /\ Next
    <2>1. /\ stage' \in {"written", "auth"}
          /\ UNCHANGED request \/ \E said : request' = [request EXCEPT !.said = said]
        BY <1>3 DEF Next, Send, Speak, Authorize, ReadBody, Checked, ResolveModel, Registered,
                    DecodeBody, Adapter, Convert, Accept, Credentials, Execute, CountTokens
    <2>2. told'.status = 0
        BY <1>1, <2>1 DEF RouteInv, Unanswered, None
    <2>3. request'.dialect = request.dialect
        BY <2>1 DEF RouteInv
    <2>4. QED
        BY <2>2, <2>3 DEF FineInv, Unrefused
<1>4. CASE stage # "written" /\ Next
    <2>1. request' = request
        BY <1>4, ZenonT(40)
                DEF Next, Send, Speak, Authorize, ReadBody, Checked, ResolveModel, Registered,
                    DecodeBody, Adapter, Convert, Accept, Credentials, Execute, CountTokens,
                    Pass, Reject, RefuseOffTheBooks, Refuse
    <2>2. ASSUME Fine(request), request.trouble = "none" PROVE told'.status \in {0, 200}
        <3>1. told' = told \/ told'.status = 200
            BY <1>4, <2>2, FinePasses
        <3>2. QED
            BY <2>2, <3>1 DEF FineInv, Unrefused
    <2>3. Unrefused'
        BY <2>1, <2>2 DEF Unrefused
    <2>4. QED
        BY <2>1, <2>3 DEF FineInv
<1>5. QED
    BY <1>2, <1>3, <1>4

\* A conversation of more than the system's words has a turn of somebody else.
LEMMA SpokenSome ==
    ASSUME NEW said \in Seq(Turns), NEW spoken,
           spoken = Only(said, {i \in DOMAIN said : said[i].kind # "system"}), spoken # <<>>
    PROVE  \E i \in DOMAIN said : said[i].kind # "system"
<1> SUFFICES ASSUME \A i \in DOMAIN said : said[i].kind = "system" PROVE FALSE
    OBVIOUS
<1>1. spoken = Spread(OwnOf, said)
    BY OnlyOwn
<1>2. \A i \in DOMAIN said : OwnOf[said[i]] = <<>>
    BY DEF OwnOf
<1>3. Spreads(OwnOf, Turns, Turns)
    BY DEF OwnOf, Spreads
<1>4. Spread(OwnOf, said) = <<>>
    BY <1>2, <1>3, SpreadNothing
<1>5. QED
    BY <1>1, <1>4

LEMMA FineRequest ==
    ASSUME Telling(request), request.provider \in Providers, request.dialect \in Dialects,
           Plain, WellFormed, Spoken # <<>>, request.provider = "deepseek" => StringsOnly
    PROVE  Fine(request)
<1> DEFINE said == request.said
<1>1. /\ Of("call") = Those(said, "call") /\ Of("result") = Those(said, "result")
      /\ Of("user") = Those(said, "user")
    BY DEF Of, Those
<1>2. WellSaid(said)
    <2>1. \A i \in DOMAIN said : said[i].kind \in Worded => said[i].parts # <<>>
        BY DEF WellFormed, Of, Worded
    <2>2. QED
        BY <1>1, <2>1 DEF WellFormed, WellSaid, SameId
<1>3. \E i \in DOMAIN said : said[i].kind # "system"
    <2>1. said \in Seq(Turns) /\ Spoken = Only(said, {i \in DOMAIN said : said[i].kind # "system"})
        BY DEF Telling, Spoken
    <2>2. QED
        BY <2>1, SpokenSome
<1>4. request.provider = "deepseek" =>
        ~Shown(said) /\ (request.dialect = "anthropic" /\ request.grouped => UserAlone(said))
    BY <1>1 DEF StringsOnly, Shown, UserAlone
<1>5. /\ request.options = IF request.dialect = "anthropic" THEN {"max_tokens"} ELSE {}
      /\ request.tools = <<>> /\ request.toolChoice = "absent"
      /\ request.dialect = "responses" => request.stream
    BY DEF Plain
<1>6. QED
    BY <1>2, <1>3, <1>4, <1>5 DEF Fine, Dialects

\* Of any length and in any grouping, in every dialect and on the way to every provider: a
\* conversation whose calls are all answered once and later, in which nobody says nothing,
\* and with nothing but what its dialect cannot do without, is refused by no handler
\* (DecodeChatCompletion, ToChatCompletionRequest, ToChatCompletion, Validate,
\* ValidateChatRequest).
THEOREM WellFormedNeverRefused == Spec => []WellFormedAccepted
<1>1. Init => RouteInv /\ OptionsInv /\ DeliveryInv /\ FineInv
    BY RouteInit, OptionsInit, DeliveryInit, FineInit
<1>2. RouteInv /\ OptionsInv /\ DeliveryInv /\ FineInv /\ [Next]_vars
        => (RouteInv /\ OptionsInv /\ DeliveryInv /\ FineInv)'
    BY RouteStep, OptionsStep, DeliveryStep, FineStep
<1>3. OptionsInv /\ DeliveryInv /\ FineInv => WellFormedAccepted
    <2>1. ASSUME OptionsInv, DeliveryInv, FineInv, request.trouble = "none",
                 Plain, WellFormed, Spoken # <<>>, request.provider = "deepseek" => StringsOnly
          PROVE  told.status \in {0, 200}
        <3>1. Fine(request)
            BY <2>1, FineRequest DEF OptionsInv, DeliveryInv, FineInv
        <3>2. QED
            BY <2>1, <3>1 DEF FineInv, Unrefused
    <2>2. QED
        BY <2>1 DEF WellFormedAccepted
<1>4. QED
    BY <1>1, <1>2, <1>3, PTL DEF Spec
=============================================================================
