------------------------- MODULE OAuthRefreshProofs -------------------------
(* What OAuthRefresh guarantees for every number of callers, accounts, tokens *)
(* and logins: one flight per account, and what follows for its tokens.       *)
EXTENDS OAuthRefresh, TLAPS

\* A caller that leads the flight of its credential.
Leading == {"check", "select", "send", "sent", "answered", "describe", "mark", "close", "delete"}

\* It has found the row refreshable, and its call is not over.
Asking == {"send", "sent", "answered", "describe", "mark"}

Labels == Leading \cup
    {"idle", "enter", "wait", "enterProvider", "waitProvider", "list", "loop", "pick",
     "closeProvider", "deleteProvider"}

TypedStore ==
    /\ access \in [Credentials -> Nat] /\ refresh \in [Credentials -> Nat]
    /\ expiry \in [Credentials -> {"fresh", "due", "expired"}]
    /\ failure \in [Credentials -> {"", "transient", "terminal"}]
    /\ DOMAIN failures = Credentials /\ DOMAIN waiting = Credentials
    /\ live \in [Credentials -> SUBSET Nat]
    /\ issued \in [Credentials -> Nat] /\ logins \in [Credentials -> Nat]
    /\ spoiled \in [Credentials -> BOOLEAN]
    /\ DOMAIN blame = Credentials

TypedCalls ==
    /\ flight \in [Keys -> Callers \cup {None}]
    /\ DOMAIN closed = Keys /\ DOMAIN verdict = Keys

TypedRoute ==
    /\ pc \in [Callers -> Labels]
    /\ target \in [Callers -> Credentials \cup {None}]
    /\ back \in [Callers -> {"idle", "loop", "closeProvider"}]
    /\ todo \in [Callers -> SUBSET Credentials]
    /\ stale \in [Callers -> Nat \cup {None}]
    /\ cancelled \in [Callers -> BOOLEAN]
    /\ DOMAIN result = Callers

TypedWork ==
    /\ sent \in [Callers -> Nat \cup {None}]
    /\ reply \in [Callers -> Answers \cup {None}]
    /\ DOMAIN seen = Callers /\ DOMAIN tries = Callers

Typed == TypedStore /\ TypedCalls /\ TypedRoute /\ TypedWork

\* Whoever leads is the leader in the map, so a credential has one.
SingleFlight ==
    \A r \in Callers :
        /\ pc[r] \in Leading \cup {"enter", "wait"} => target[r] \in Credentials
        /\ pc[r] \in Leading => flight[target[r]] = r

\* What a leader has in hand at each of its stages.
InHand ==
    \A r \in Callers :
        /\ pc[r] = "sent" => sent[r] \in Nat
        /\ pc[r] \in {"answered", "mark"} => reply[r] \in Answers
        /\ pc[r] = "mark" => reply[r].class # ""

\* Only the leader locks its account out, as the last thing it does.
NotLockedOut == \A r \in Callers : pc[r] \in Asking => ~Terminal(target[r])

\* A leader that answers a refused bearer goes on only if that is the stored one.
Refused ==
    \A r \in Callers :
        stale[r] # None /\ pc[r] \in Leading /\ logins[target[r]] = 0 =>
            /\ pc[r] \in {"send", "sent", "answered", "mark"} => access[target[r]] = stale[r]
            /\ pc[r] = "select" =>
                  access[target[r]] = stale[r] \/ Terminal(target[r]) \/ cancelled[r]

\* The issuer honours the stored refresh token, or the next one is on its way here.
Carries(r, c) == CarriesToken(r) /\ target[r] = c
GrantHeld(c) ==
    /\ ~Terminal(c)
    /\ refresh[c] \in live[c] \/ \E r \in Callers : Carries(r, c)
    /\ \A r \in Callers :
         /\ Carries(r, c) => reply[r].refresh \in live[c]
         /\ pc[r] = "sent" /\ target[r] = c => sent[r] = refresh[c]
         /\ pc[r] \in {"answered", "mark"} /\ target[r] = c => reply[r].class # "terminal"
Held == \A c \in Credentials : logins[c] = 0 /\ ~spoiled[c] => GrantHeld(c)

OAuthInv == Typed /\ SingleFlight /\ InHand /\ NotLockedOut /\ Refused /\ Held

-----------------------------------------------------------------------------
\* Callers cannot lead the same flight.
LEMMA OneLeader ==
    ASSUME SingleFlight, NEW r \in Callers, NEW j \in Callers,
           pc[r] \in Leading, pc[j] \in Leading, target[r] = target[j]
    PROVE  r = j
BY DEF SingleFlight

\* A step that disturbs no grant, no lock and no leader between its lookup and the
\* last word on its answer; leaders may come to their first stage, or end.
Calm ==
    /\ UNCHANGED <<access, refresh, failure, live, issued, logins, spoiled>>
    /\ \A j \in Callers :
         /\ pc'[j] \in Asking \cup {"select"} =>
              /\ pc[j] = pc'[j] \/ (pc[j] = "answered" /\ pc'[j] \in {"mark", "describe"})
                  \/ (pc[j] = "mark" /\ pc'[j] = "answered")
              /\ UNCHANGED <<target[j], stale[j], sent[j], reply[j]>>
              /\ cancelled[j] => cancelled'[j]
         /\ pc[j] = "answered" => pc'[j] = "answered" \/ ~CarriesToken(j)

LEMMA CalmSteps ==
    ASSUME OAuthInv, Calm
    PROVE  NotLockedOut' /\ Refused' /\ Held'
<1>1. NotLockedOut'
    BY DEF OAuthInv, NotLockedOut, Calm, Asking, Terminal
<1>2. Refused'
    BY DEF OAuthInv, Refused, Calm, Asking, Terminal, Leading
<1>3. Held'
    <2>1. SUFFICES ASSUME NEW c \in Credentials, logins[c] = 0, ~spoiled[c]
                   PROVE  GrantHeld(c)'
        BY DEF Held, Calm
    <2>2. GrantHeld(c)
        BY <2>1 DEF OAuthInv, Held
    <2>3. ASSUME NEW j \in Callers PROVE Carries(j, c)' <=> Carries(j, c)
        BY DEF Calm, Carries, CarriesToken, Asking, IdOf, OAuthInv, InHand
    <2>4. ~Terminal(c)' /\ UNCHANGED <<refresh, live>>
        BY <2>2 DEF GrantHeld, Calm, Terminal
    <2>5. (refresh[c] \in live[c] \/ \E r \in Callers : Carries(r, c))'
        BY <2>2, <2>3, <2>4 DEF GrantHeld
    <2>6. ASSUME NEW r \in Callers
          PROVE  /\ Carries(r, c)' => reply'[r].refresh \in live'[c]
                 /\ pc'[r] = "sent" /\ target'[r] = c => sent'[r] = refresh'[c]
                 /\ pc'[r] \in {"answered", "mark"} /\ target'[r] = c => reply'[r].class # "terminal"
        <3>1. Carries(r, c)' => reply'[r] = reply[r]
            BY DEF Calm, Asking, Carries, CarriesToken
        <3>2. Carries(r, c)' => reply'[r].refresh \in live'[c]
            BY <2>2, <2>3, <2>4, <3>1 DEF GrantHeld
        <3>3. pc'[r] = "sent" /\ target'[r] = c => sent'[r] = refresh'[c]
            BY <2>2, <2>4 DEF GrantHeld, Calm, Asking
        <3>4. pc'[r] \in {"answered", "mark"} /\ target'[r] = c => reply'[r].class # "terminal"
            BY <2>2 DEF GrantHeld, Calm, Asking
        <3>5. QED
            BY <3>2, <3>3, <3>4
    <2>7. QED
        BY <2>4, <2>5, <2>6 DEF GrantHeld
<1>4. QED
    BY <1>1, <1>2, <1>3

-----------------------------------------------------------------------------
(* What the helpers of the actions change. *)

LEMMA GotoEffect ==
    ASSUME Typed, NEW r \in Callers, NEW l \in Labels, Goto(r, l)
    PROVE  /\ pc' \in [Callers -> Labels] /\ cancelled' \in [Callers -> BOOLEAN]
           /\ pc'[r] = l /\ (l # "idle" => cancelled' = cancelled)
           /\ \A j \in Callers \ {r} : pc'[j] = pc[j] /\ cancelled'[j] = cancelled[j]
BY DEF Typed, TypedRoute, Goto

LEMMA ReturnedEffect ==
    ASSUME Typed, NEW js \in SUBSET Callers, NEW v, Returned(js, v)
    PROVE  /\ target' \in [Callers -> Credentials \cup {None}]
           /\ back' \in [Callers -> {"idle", "loop", "closeProvider"}]
           /\ stale' \in [Callers -> Nat \cup {None}]
           /\ DOMAIN result' = Callers
           /\ \A j \in Callers \ js : target'[j] = target[j] /\ stale'[j] = stale[j]
BY DEF Typed, TypedRoute, Returned

LEMMA ReturnEffect ==
    ASSUME Typed, NEW r \in Callers, NEW v, Return(r, v)
    PROVE  /\ TypedWork'
           /\ pc' \in [Callers -> Labels] /\ cancelled' = cancelled /\ DOMAIN result' = Callers
           /\ pc'[r] = "close"
           /\ \A j \in Callers \ {r} : pc'[j] = pc[j] /\ sent'[j] = sent[j] /\ reply'[j] = reply[j]
BY DEF Typed, TypedRoute, TypedWork, Return, Goto, Yields, Labels, Leading

\* The other callers are where they were, with what they had.
Aside(js) ==
    \A j \in Callers \ js :
        UNCHANGED <<pc[j], target[j], stale[j], sent[j], reply[j], cancelled[j]>>

\* The part of the store the invariant speaks of.
kept == <<access, refresh, failure, live, issued, logins, spoiled>>

\* Callers that come to a stage at which they hold nothing of the issuer's.
LEMMA CalmMoves ==
    ASSUME OAuthInv, Typed', NEW js \in SUBSET Callers, Aside(js), UNCHANGED kept,
           \A r \in js :
             /\ pc'[r] \notin Asking \cup {"select"} /\ ~CarriesToken(r)
             /\ pc'[r] \in Leading \cup {"enter", "wait"} => target'[r] \in Credentials
             /\ pc'[r] \in Leading => flight'[target'[r]] = r,
           \A j \in Callers \ js : pc[j] \in Leading => flight'[target[j]] = j
    PROVE  OAuthInv'
<1>1. SingleFlight'
    BY DEF OAuthInv, SingleFlight, Aside
<1>2. InHand'
    BY DEF OAuthInv, InHand, Aside, Asking
<1>3. Calm
    <2>1. UNCHANGED <<access, refresh, failure, live, issued, logins, spoiled>>
        BY DEF kept
    <2>2. ASSUME NEW j \in Callers, j \in js
          PROVE  pc'[j] \notin Asking \cup {"select"} /\ ~CarriesToken(j)
        BY <2>2
    <2>3. ASSUME NEW j \in Callers, j \notin js
          PROVE  UNCHANGED <<pc[j], target[j], stale[j], sent[j], reply[j], cancelled[j]>>
        BY <2>3 DEF Aside
    <2>4. QED
        BY <2>1, <2>2, <2>3 DEF Calm
<1>4. QED
    BY <1>1, <1>2, <1>3, CalmSteps DEF OAuthInv

\* A caller that leads no flight, and comes to lead none.
LEMMA CallerGoes ==
    ASSUME OAuthInv, NEW r \in Callers, pc[r] # "answered",
           NEW l \in {"idle", "list", "loop", "pick", "enterProvider", "waitProvider",
                      "closeProvider", "deleteProvider"},
           Goto(r, l), UNCHANGED <<grant, mark, target, back, stale, work, issuer, blame>>,
           todo' \in [Callers -> SUBSET Credentials], DOMAIN result' = Callers,
           TypedCalls', \A k \in Credentials : flight'[k] = flight[k]
    PROVE  OAuthInv'
<1>1. /\ pc' \in [Callers -> Labels] /\ cancelled' \in [Callers -> BOOLEAN] /\ pc'[r] = l
      /\ \A j \in Callers \ {r} : pc'[j] = pc[j] /\ cancelled'[j] = cancelled[j]
    BY GotoEffect DEF Labels, OAuthInv
<1>2. Typed'
    BY <1>1 DEF OAuthInv, Typed, TypedStore, TypedRoute, TypedWork, grant, mark, work, issuer
<1>3. Aside({r}) /\ UNCHANGED kept
    BY <1>1 DEF Aside, kept, grant, mark, work, issuer
<1>4. \A j \in Callers \ {r} : pc[j] \in Leading => flight'[target[j]] = j
    BY DEF OAuthInv, SingleFlight
<1>5. QED
    BY <1>1, <1>2, <1>3, <1>4, CalmMoves DEF Asking, Leading, CarriesToken

\* What it means for a caller that its refresh of a credential is over.
LEMMA CallerReturns ==
    ASSUME OAuthInv, NEW r \in Callers, pc[r] # "answered", NEW v,
           Goto(r, back[r]), Returned({r}, v),
           UNCHANGED <<grant, mark, todo, work, issuer, blame>>,
           TypedCalls', \A j \in Callers \ {r} : pc[j] \in Leading => flight'[target[j]] = j
    PROVE  OAuthInv'
<1>1. back[r] \in {"idle", "loop", "closeProvider"} /\ Typed
    BY DEF OAuthInv, Typed, TypedRoute
<1>2. /\ pc' \in [Callers -> Labels] /\ cancelled' \in [Callers -> BOOLEAN] /\ pc'[r] = back[r]
      /\ \A j \in Callers \ {r} : pc'[j] = pc[j] /\ cancelled'[j] = cancelled[j]
    BY <1>1, GotoEffect DEF Labels
<1>3. /\ target' \in [Callers -> Credentials \cup {None}]
      /\ back' \in [Callers -> {"idle", "loop", "closeProvider"}]
      /\ stale' \in [Callers -> Nat \cup {None}]
      /\ DOMAIN result' = Callers
      /\ \A j \in Callers \ {r} : target'[j] = target[j] /\ stale'[j] = stale[j]
    BY <1>1, ReturnedEffect
<1>4. Typed'
    BY <1>1, <1>2, <1>3 DEF Typed, TypedStore, TypedRoute, TypedWork, grant, mark, work, issuer
<1>5. Aside({r}) /\ UNCHANGED kept
    BY <1>2, <1>3 DEF Aside, kept, grant, mark, work, issuer
<1>6. QED
    BY <1>1, <1>2, <1>4, <1>5, CalmMoves DEF Asking, Leading, CarriesToken

\* A caller that goes for the flight of a row.
LEMMA CallerEnters ==
    ASSUME OAuthInv, NEW r \in Callers, pc[r] # "answered", NEW c \in Credentials,
           NEW b \in {"idle", "loop", "closeProvider"}, NEW bearer \in Nat \cup {None},
           Goto(r, "enter"), target' = [target EXCEPT ![r] = c],
           back' = [back EXCEPT ![r] = b], stale' = [stale EXCEPT ![r] = bearer],
           todo' \in [Callers -> SUBSET Credentials],
           UNCHANGED <<grant, mark, calls, work, result, issuer, blame>>
    PROVE  OAuthInv'
<1>1. /\ pc' \in [Callers -> Labels] /\ cancelled' \in [Callers -> BOOLEAN] /\ pc'[r] = "enter"
      /\ \A j \in Callers \ {r} : pc'[j] = pc[j] /\ cancelled'[j] = cancelled[j]
    BY GotoEffect DEF Labels, OAuthInv
<1>2. Typed'
    BY <1>1 DEF OAuthInv, Typed, TypedStore, TypedCalls, TypedRoute, TypedWork, grant, mark, calls, work, issuer
<1>3. Aside({r}) /\ UNCHANGED kept /\ target'[r] = c
    BY <1>1 DEF Aside, kept, grant, mark, work, issuer, OAuthInv, Typed, TypedRoute
<1>4. \A j \in Callers \ {r} : pc[j] \in Leading => flight'[target[j]] = j
    BY DEF OAuthInv, SingleFlight, calls
<1>5. QED
    BY <1>1, <1>2, <1>3, <1>4, CalmMoves, ZenonT(40) DEF Asking, Leading, CarriesToken

-----------------------------------------------------------------------------
(* Entry points *)

LEMMA StepRefreshOAuthProviderCredential ==
    ASSUME OAuthInv, NEW r \in Callers, RefreshOAuthProviderCredential(r)
    PROVE  OAuthInv'
<1>1. /\ pc[r] = "idle" /\ Goto(r, "enterProvider")
      /\ UNCHANGED <<grant, mark, calls, route, work, result, issuer, blame>>
    BY DEF RefreshOAuthProviderCredential
<1>2. /\ UNCHANGED <<target, back, stale, todo, result, flight>> /\ TypedCalls'
    BY <1>1 DEF OAuthInv, Typed, TypedCalls, calls, route
<1>3. QED
    BY <1>1, <1>2, CallerGoes DEF OAuthInv, Typed, TypedRoute

LEMMA StepAsks ==
    ASSUME OAuthInv, NEW r \in Callers, NEW c \in Credentials, NEW bearer \in Nat \cup {None},
           Asks(r, c, bearer)
    PROVE  OAuthInv'
BY CallerEnters DEF Asks, OAuthInv, Typed, TypedRoute

-----------------------------------------------------------------------------
(* The single flight *)

LEMMA StepEnter ==
    ASSUME OAuthInv, NEW r \in Callers, Enter(r)
    PROVE  OAuthInv'
<1> DEFINE c == target[r]
<1>1. /\ pc[r] = "enter" /\ Typed /\ c \in Credentials
      /\ UNCHANGED <<grant, mark, todo, work, issuer, blame>>
    BY DEF Enter, OAuthInv, SingleFlight
<1>2. UNCHANGED kept
    BY <1>1 DEF kept, grant, mark, issuer
<1>3. CASE flight[c] = None /\ Lead(r, c) /\ Goto(r, "check") /\ UNCHANGED <<target, stale, back, result>>
    <2>1. /\ pc' \in [Callers -> Labels] /\ cancelled' \in [Callers -> BOOLEAN] /\ pc'[r] = "check"
          /\ \A j \in Callers \ {r} : pc'[j] = pc[j] /\ cancelled'[j] = cancelled[j]
        BY <1>1, <1>3, GotoEffect DEF Labels, Leading
    <2>2. TypedCalls' /\ flight'[c] = r /\ \A k \in Credentials \ {c} : flight'[k] = flight[k]
        BY <1>1, <1>3 DEF Lead, Typed, TypedCalls, Keys
    <2>3. Typed'
        BY <1>1, <1>3, <2>1, <2>2 DEF Typed, TypedStore, TypedRoute, TypedWork, grant, mark, work, issuer
    <2>4. Aside({r})
        BY <1>1, <1>3, <2>1 DEF Aside, work
    <2>5. ASSUME NEW j \in Callers \ {r}, pc[j] \in Leading PROVE flight'[target[j]] = j
        <3>1. target[j] \in Credentials /\ flight[target[j]] = j
            BY <2>5 DEF OAuthInv, SingleFlight
        <3>2. target[j] # c
            BY <1>3, <3>1, CallersAssumption
        <3>3. QED
            BY <2>2, <3>1, <3>2
    <2>6. QED
        BY <1>1, <1>2, <1>3, <2>1, <2>2, <2>3, <2>4, <2>5, CalmMoves DEF Asking, Leading, CarriesToken
<1>4. CASE Goto(r, back[r]) /\ Returned({r}, verdict[c]) /\ UNCHANGED calls
    <2>1. TypedCalls' /\ \A j \in Callers \ {r} : pc[j] \in Leading => flight'[target[j]] = j
        BY <1>4 DEF OAuthInv, SingleFlight, Typed, TypedCalls, calls
    <2>2. QED
        BY <1>1, <1>4, <2>1, CallerReturns
<1>5. CASE Goto(r, "wait") /\ UNCHANGED <<calls, target, stale, back, result>>
    <2>1. /\ pc' \in [Callers -> Labels] /\ cancelled' \in [Callers -> BOOLEAN] /\ pc'[r] = "wait"
          /\ \A j \in Callers \ {r} : pc'[j] = pc[j] /\ cancelled'[j] = cancelled[j]
        BY <1>1, <1>5, GotoEffect DEF Labels
    <2>2. Typed'
        BY <1>1, <1>5, <2>1 DEF Typed, TypedStore, TypedCalls, TypedRoute, TypedWork, grant, mark, calls, work, issuer
    <2>3. Aside({r})
        BY <1>1, <1>5, <2>1 DEF Aside, work
    <2>4. \A j \in Callers \ {r} : pc[j] \in Leading => flight'[target[j]] = j
        BY <1>5 DEF OAuthInv, SingleFlight, calls
    <2>5. QED
        BY <1>1, <1>2, <1>5, <2>1, <2>2, <2>3, <2>4, CalmMoves DEF Asking, Leading, CarriesToken
<1>6. QED
    BY <1>3, <1>4, <1>5 DEF Enter, Busy, IdOf

LEMMA StepEnterProvider ==
    ASSUME OAuthInv, NEW r \in Callers, EnterProvider(r)
    PROVE  OAuthInv'
<1>1. /\ pc[r] = "enterProvider"
      /\ UNCHANGED <<grant, mark, route, work, result, issuer, blame>>
    BY DEF EnterProvider
<1>2. UNCHANGED <<target, back, stale, todo, result>>
    BY <1>1 DEF route
<1>3. PICK l \in {"list", "idle", "waitProvider"} : Goto(r, l)
    BY DEF EnterProvider
<1>4. Lead(r, Provider) \/ UNCHANGED calls
    BY DEF EnterProvider
<1>5. TypedCalls' /\ \A k \in Credentials : flight'[k] = flight[k]
    BY <1>4, CredentialsAssumption DEF OAuthInv, Typed, TypedCalls, Lead, Keys, calls
<1>6. QED
    BY <1>1, <1>2, <1>3, <1>5, CallerGoes DEF OAuthInv, Typed, TypedRoute

LEMMA StepAbandon ==
    ASSUME OAuthInv, NEW r \in Callers, Abandon(r)
    PROVE  OAuthInv'
<1>1. UNCHANGED <<grant, mark, calls, todo, work, issuer, blame>> /\ TypedCalls'
    BY DEF Abandon, OAuthInv, Typed, TypedCalls, calls
<1>2. CASE pc[r] = "wait" /\ Goto(r, back[r]) /\ Returned({r}, "cancelled")
    <2>1. \A j \in Callers \ {r} : pc[j] \in Leading => flight'[target[j]] = j
        BY <1>1 DEF OAuthInv, SingleFlight, calls
    <2>2. QED
        BY <1>1, <1>2, <2>1, CallerReturns
<1>3. CASE pc[r] = "waitProvider" /\ Goto(r, "idle") /\ UNCHANGED <<target, stale, back, result>>
    BY <1>1, <1>3, CallerGoes DEF OAuthInv, Typed, TypedRoute, calls
<1>4. QED
    BY <1>2, <1>3 DEF Abandon

\* Those who wait for the flight lead none.
LEMMA CallEnds ==
    ASSUME OAuthInv, NEW r \in Callers, NEW k \in Keys, NEW l, Finish(r, k, l),
           \/ pc[r] = "close" /\ l = "delete"
           \/ pc[r] = "closeProvider" /\ l = "deleteProvider"
    PROVE  OAuthInv'
<1> DEFINE js == Waiters(k) \cup {r}
<1>1. /\ Typed /\ js \in SUBSET Callers /\ r \notin Waiters(k) /\ Waiters(k) \in SUBSET Callers
      /\ \A j \in Waiters(k) : pc[j] \in {"wait", "waitProvider"}
    BY DEF OAuthInv, Waiters
<1>2. Returned(Waiters(k), result[r]) /\ UNCHANGED <<grant, mark, flight, todo, work, issuer, blame>>
    BY DEF Finish
<1>3. TypedCalls'
    BY <1>2 DEF Finish, OAuthInv, Typed, TypedCalls
<1>4. /\ target' \in [Callers -> Credentials \cup {None}]
      /\ back' \in [Callers -> {"idle", "loop", "closeProvider"}]
      /\ stale' \in [Callers -> Nat \cup {None}]
      /\ DOMAIN result' = Callers
      /\ \A j \in Callers \ Waiters(k) : target'[j] = target[j] /\ stale'[j] = stale[j]
    BY <1>1, <1>2, ReturnedEffect
<1>5. /\ pc' \in [Callers -> Labels] /\ cancelled' \in [Callers -> BOOLEAN]
      /\ pc'[r] = l
      /\ \A j \in Waiters(k) : pc'[j] \in {"idle", "loop", "closeProvider"}
      /\ \A j \in Callers \ js : pc'[j] = pc[j] /\ cancelled'[j] = cancelled[j]
    BY <1>1 DEF Finish, Typed, TypedRoute, Labels, Leading
<1>6. Typed'
    BY <1>1, <1>2, <1>3, <1>4, <1>5 DEF Typed, TypedStore, TypedRoute, TypedWork, grant, mark, work, issuer
<1>7. Aside(js) /\ UNCHANGED kept
    BY <1>2, <1>4, <1>5 DEF Aside, kept, grant, mark, work, issuer
<1>8. \A j \in Callers : pc[j] \in Leading => target[j] \in Credentials /\ flight'[target[j]] = j
    BY <1>2 DEF OAuthInv, SingleFlight
<1>9. \A j \in js :
        /\ pc'[j] \notin Asking \cup {"select"} /\ ~CarriesToken(j)
        /\ pc'[j] \in Leading \cup {"enter", "wait"} => target'[j] \in Credentials
        /\ pc'[j] \in Leading => flight'[target'[j]] = j
    <2>1. /\ pc'[r] \notin Asking \cup {"select"} /\ ~CarriesToken(r)
          /\ pc'[r] \in Leading \cup {"enter", "wait"} => target'[r] \in Credentials
          /\ pc'[r] \in Leading => flight'[target'[r]] = r
        BY <1>1, <1>4, <1>5, <1>8 DEF Asking, Leading, CarriesToken
    <2>2. ASSUME NEW j \in Waiters(k)
          PROVE  pc'[j] \notin Asking \cup Leading \cup {"select", "enter", "wait"} /\ ~CarriesToken(j)
        BY <1>1, <1>5 DEF Asking, Leading, CarriesToken
    <2>3. QED
        BY <2>1, <2>2
<1>10. QED
    BY <1>1, <1>6, <1>7, <1>8, <1>9, CalmMoves

LEMMA StepClose ==
    ASSUME OAuthInv, NEW r \in Callers, Close(r)
    PROVE  OAuthInv'
<1>1. pc[r] = "close" /\ Finish(r, target[r], "delete") /\ target[r] \in Keys
    BY DEF Close, IdOf, OAuthInv, SingleFlight, Leading, Keys
<1>2. QED
    BY <1>1, CallEnds

LEMMA StepCloseProvider ==
    ASSUME OAuthInv, NEW r \in Callers, CloseProvider(r)
    PROVE  OAuthInv'
BY CallEnds DEF CloseProvider, Keys

LEMMA StepDelete ==
    ASSUME OAuthInv, NEW r \in Callers, Delete(r)
    PROVE  OAuthInv'
<1>1. /\ pc[r] = "delete" /\ Remove(target[r]) /\ Goto(r, back[r]) /\ Returned({r}, result[r])
      /\ UNCHANGED <<grant, mark, todo, work, issuer, blame>>
    BY DEF Delete, IdOf
<1>2. target[r] \in Credentials /\ flight[target[r]] = r
    BY <1>1 DEF OAuthInv, SingleFlight, Leading
<1>3. TypedCalls' /\ \A k \in Credentials \ {target[r]} : flight'[k] = flight[k]
    BY <1>1, <1>2 DEF OAuthInv, Typed, TypedCalls, Remove, Keys
<1>4. ASSUME NEW j \in Callers \ {r}, pc[j] \in Leading PROVE flight'[target[j]] = j
    BY <1>2, <1>3, <1>4 DEF OAuthInv, SingleFlight
<1>5. QED
    BY <1>1, <1>3, <1>4, CallerReturns

LEMMA StepDeleteProvider ==
    ASSUME OAuthInv, NEW r \in Callers, DeleteProvider(r)
    PROVE  OAuthInv'
<1>1. /\ pc[r] = "deleteProvider" /\ Remove(Provider) /\ Goto(r, "idle")
      /\ UNCHANGED <<grant, mark, target, back, stale, todo, work, issuer, blame>>
    BY DEF DeleteProvider, route
<1>2. TypedCalls' /\ \A k \in Credentials : flight'[k] = flight[k]
    BY <1>1, CredentialsAssumption DEF OAuthInv, Typed, TypedCalls, Remove, Keys
<1>3. DOMAIN result' = Callers
    BY DEF DeleteProvider, Yields, OAuthInv, Typed, TypedRoute
<1>4. QED
    BY <1>1, <1>2, <1>3, CallerGoes DEF OAuthInv, Typed, TypedRoute

-----------------------------------------------------------------------------
(* Resolving bearers *)

LEMMA StepResolveOAuthBearers ==
    ASSUME OAuthInv, NEW r \in Callers, ResolveOAuthBearers(r)
    PROVE  OAuthInv'
<1>1. /\ pc[r] \in {"idle", "list"} /\ Goto(r, "loop")
      /\ UNCHANGED <<grant, mark, calls, target, back, stale, work, result, issuer, blame>>
    BY DEF ResolveOAuthBearers
<1>2. todo' \in [Callers -> SUBSET Credentials]
    BY DEF ResolveOAuthBearers, Stale, OAuthInv, Typed, TypedRoute
<1>3. TypedCalls' /\ UNCHANGED flight
    BY <1>1 DEF OAuthInv, Typed, TypedCalls, calls
<1>4. QED
    BY <1>1, <1>2, <1>3, CallerGoes DEF OAuthInv, Typed, TypedRoute

LEMMA StepResolve ==
    ASSUME OAuthInv, NEW r \in Callers, Resolve(r)
    PROVE  OAuthInv'
<1>1. /\ pc[r] = "loop" /\ UNCHANGED <<grant, mark, calls, route, work, result, issuer, blame>>
    BY DEF Resolve
<1>2. PICK l \in {"idle", "closeProvider", "pick"} : Goto(r, l)
    BY DEF Resolve
<1>3. TypedCalls' /\ UNCHANGED <<flight, target, back, stale, todo>>
    BY <1>1 DEF OAuthInv, Typed, TypedCalls, calls, route
<1>4. QED
    BY <1>1, <1>2, <1>3, CallerGoes DEF OAuthInv, Typed, TypedRoute

LEMMA StepNextStale ==
    ASSUME OAuthInv, NEW r \in Callers, NextStale(r)
    PROVE  OAuthInv'
<1>1. PICK c \in todo[r] : target' = [target EXCEPT ![r] = c] /\ todo' = [todo EXCEPT ![r] = @ \ {c}]
    BY DEF NextStale
<1>2. c \in Credentials /\ todo' \in [Callers -> SUBSET Credentials]
    BY <1>1 DEF OAuthInv, Typed, TypedRoute
<1>3. QED
    BY <1>1, <1>2, CallerEnters DEF NextStale

LEMMA StepPick ==
    ASSUME OAuthInv, NEW r \in Callers, Pick(r)
    PROVE  OAuthInv'
<1>1. pc[r] = "pick" /\ UNCHANGED <<grant, mark, calls, work, issuer, blame>>
    BY DEF Pick
<1>2. CASE Goto(r, "closeProvider") /\ UNCHANGED route /\ \E v : Yields(r, v)
    <2>1. TypedCalls' /\ UNCHANGED <<flight, target, back, stale, todo>> /\ DOMAIN result' = Callers
        BY <1>1, <1>2 DEF OAuthInv, Typed, TypedCalls, TypedRoute, calls, route, Yields
    <2>2. QED
        BY <1>1, <1>2, <2>1, CallerGoes DEF OAuthInv, Typed, TypedRoute
<1>3. CASE /\ \E c \in Credentials : target' = [target EXCEPT ![r] = c]
           /\ back' = [back EXCEPT ![r] = "closeProvider"] /\ stale' = [stale EXCEPT ![r] = None]
           /\ Goto(r, "enter") /\ UNCHANGED <<todo, result>>
    BY <1>1, <1>3, CallerEnters DEF OAuthInv, Typed, TypedRoute
<1>4. QED
    <2>1. CASE cancelled[r] \/ {c \in Credentials : Refreshable(c)} = {}
        BY <1>2, <2>1 DEF Pick
    <2>2. CASE ~(cancelled[r] \/ {c \in Credentials : Refreshable(c)} = {})
        BY <1>3, <2>2 DEF Pick
    <2>3. QED
        BY <2>1, <2>2

-----------------------------------------------------------------------------
(* The leader of a credential's flight *)

\* What GrantHeld says of the leader alone.
Own(r, c) ==
    /\ ~Terminal(c)
    /\ refresh[c] \in live[c] \/ CarriesToken(r)
    /\ CarriesToken(r) => reply[r].refresh \in live[c]
    /\ pc[r] = "sent" => sent[r] = refresh[c]
    /\ pc[r] \in {"answered", "mark"} => reply[r].class # "terminal"

\* ... and Refused.
Answering(r, c) ==
    stale[r] # None /\ logins[c] = 0 =>
        /\ pc[r] \in {"send", "sent", "answered", "mark"} => access[c] = stale[r]
        /\ pc[r] = "select" => access[c] = stale[r] \/ Terminal(c) \/ cancelled[r]

LEMMA OwnGrant ==
    ASSUME SingleFlight, Held, NEW r \in Callers, pc[r] \in Leading,
           logins[target[r]] = 0, ~spoiled[target[r]]
    PROVE  Own(r, target[r])
<1> DEFINE c == target[r]
<1>1. c \in Credentials
    BY DEF SingleFlight
<1>2. GrantHeld(c)
    BY <1>1 DEF Held
<1>3. ASSUME NEW j \in Callers, Carries(j, c) PROVE j = r
    <2>1. pc[j] \in Leading /\ target[j] = c
        BY <1>3 DEF Carries, CarriesToken, Leading
    <2>2. QED
        BY <2>1, OneLeader
<1>4. Carries(r, c) <=> CarriesToken(r)
    BY DEF Carries
<1>5. QED
    BY <1>2, <1>3, <1>4 DEF GrantHeld, Own

\* Nobody else is concerned with what a leader does to its credential.
LEMMA LeaderMoves ==
    ASSUME OAuthInv, NEW r \in Callers, pc[r] \in Leading, NEW c, c = target[r],
           TypedStore', TypedRoute', TypedWork', UNCHANGED <<calls, target, stale>>,
           pc'[r] \in Leading, Aside({r}),
           \A d \in Credentials \ {c} :
               UNCHANGED <<access[d], refresh[d], failure[d], live[d], logins[d], spoiled[d]>>,
           pc'[r] = "sent" => sent'[r] \in Nat,
           pc'[r] \in {"answered", "mark"} => reply'[r] \in Answers,
           pc'[r] = "mark" => reply'[r].class # "",
           pc'[r] \in Asking => ~Terminal(c)',
           Answering(r, c)',
           logins'[c] = 0 /\ ~spoiled'[c] => Own(r, c)'
    PROVE  OAuthInv'
<1>1. c \in Credentials /\ flight[c] = r
    BY DEF OAuthInv, SingleFlight
<1>2. Typed'
    BY DEF OAuthInv, Typed, TypedCalls, calls
<1>3. SingleFlight'
    BY DEF OAuthInv, SingleFlight, Aside, calls
<1>4. InHand'
    BY ZenonT(40) DEF OAuthInv, InHand, Aside
<1>5. ASSUME NEW j \in Callers \ {r}, pc[j] \in Leading
      PROVE  target[j] \in Credentials \ {c}
    <2>1. target[j] \in Credentials
        BY <1>5 DEF OAuthInv, SingleFlight
    <2>2. target[j] # c
        BY <1>5, OneLeader DEF OAuthInv
    <2>3. QED
        BY <2>1, <2>2
<1>6. \A j \in Callers \ {r} :
        UNCHANGED <<pc[j], target[j], stale[j], sent[j], reply[j], cancelled[j]>>
    BY DEF Aside
<1>7. NotLockedOut'
    <2>1. SUFFICES ASSUME NEW j \in Callers, pc'[j] \in Asking PROVE ~Terminal(target[j])'
        BY DEF NotLockedOut
    <2>2. CASE j = r
        BY <2>1, <2>2
    <2>3. CASE j # r
        <3>1. pc[j] \in Asking /\ pc[j] \in Leading /\ target'[j] = target[j]
            BY <1>6, <2>1, <2>3 DEF Asking, Leading
        <3>2. ~Terminal(target[j]) /\ failure'[target[j]] = failure[target[j]]
            BY <1>5, <2>3, <3>1 DEF OAuthInv, NotLockedOut
        <3>3. QED
            BY <3>1, <3>2 DEF Terminal
    <2>4. QED
        BY <2>2, <2>3
<1>8. Refused'
    <2>1. SUFFICES ASSUME NEW j \in Callers, stale'[j] # None, pc'[j] \in Leading, logins'[target'[j]] = 0
                   PROVE  /\ pc'[j] \in {"send", "sent", "answered", "mark"} => access'[target'[j]] = stale'[j]
                          /\ pc'[j] = "select" =>
                                access'[target'[j]] = stale'[j] \/ Terminal(target[j])' \/ cancelled'[j]
        BY DEF Refused
    <2>2. CASE j = r
        BY <2>1, <2>2 DEF Answering, Terminal
    <2>3. CASE j # r
        <3>1. pc[j] \in Leading /\ UNCHANGED <<pc[j], target[j], stale[j], cancelled[j]>>
            BY <1>6, <2>1, <2>3
        <3>2. UNCHANGED <<access[target[j]], failure[target[j]], logins[target[j]]>>
            BY <1>5, <2>3, <3>1
        <3>3. QED
            BY <2>1, <3>1, <3>2 DEF OAuthInv, Refused, Terminal
    <2>4. QED
        BY <2>2, <2>3
<1>9. Held'
    <2>1. SUFFICES ASSUME NEW d \in Credentials, logins'[d] = 0, ~spoiled'[d] PROVE GrantHeld(d)'
        BY DEF Held
    <2>2. CASE d = c
        <3>1. Own(r, c)'
            BY <2>1, <2>2
        <3>2. ASSUME NEW j \in Callers \ {r} PROVE ~(pc'[j] \in Leading /\ target'[j] = c)
            BY <1>5, <1>6, <3>2
        <3>3. /\ \A j \in Callers \ {r} : ~Carries(j, c)'
              /\ \A j \in Callers \ {r} : ~(pc'[j] \in {"sent", "answered", "mark"} /\ target'[j] = c)
            BY <3>2 DEF Carries, CarriesToken, Leading
        <3>4. Carries(r, c)' <=> CarriesToken(r)'
            BY DEF Carries
        <3>5. QED
            BY <2>2, <3>1, <3>3, <3>4 DEF GrantHeld, Own
    <2>3. CASE d # c
        <3>1. GrantHeld(d) /\ UNCHANGED <<refresh[d], failure[d], live[d]>>
            BY <2>1, <2>3 DEF OAuthInv, Held
        <3>2. ASSUME NEW j \in Callers
              PROVE  /\ target'[j] = d <=> target[j] = d
                     /\ target[j] = d => UNCHANGED <<pc[j], sent[j], reply[j]>>
            BY <1>6, <2>3
        <3>3. \A j \in Callers : Carries(j, d)' <=> Carries(j, d)
            BY <3>2 DEF Carries, CarriesToken
        <3>4. \A j \in Callers : Carries(j, d) => reply'[j] = reply[j]
            BY <3>2 DEF Carries
        <3>5. (refresh[d] \in live[d] \/ \E j \in Callers : Carries(j, d))' /\ ~Terminal(d)'
            BY <3>1, <3>3 DEF GrantHeld, Terminal
        <3>6. ASSUME NEW j \in Callers
              PROVE  /\ Carries(j, d)' => reply'[j].refresh \in live'[d]
                     /\ pc'[j] = "sent" /\ target'[j] = d => sent'[j] = refresh'[d]
                     /\ pc'[j] \in {"answered", "mark"} /\ target'[j] = d => reply'[j].class # "terminal"
            <4>1. Carries(j, d)' => reply'[j].refresh \in live'[d]
                BY <3>1, <3>3, <3>4 DEF GrantHeld
            <4>2. pc'[j] = "sent" /\ target'[j] = d => sent'[j] = refresh'[d]
                BY <3>1, <3>2 DEF GrantHeld
            <4>3. pc'[j] \in {"answered", "mark"} /\ target'[j] = d => reply'[j].class # "terminal"
                BY <3>1, <3>2 DEF GrantHeld
            <4>4. QED
                BY <4>1, <4>2, <4>3
        <3>7. QED
            BY <3>5, <3>6 DEF GrantHeld
    <2>4. QED
        BY <2>2, <2>3
<1>10. QED
    BY <1>2, <1>3, <1>4, <1>7, <1>8, <1>9 DEF OAuthInv

\* The leader at its credential, and its grant.
LEMMA AtOwn ==
    ASSUME OAuthInv, NEW r \in Callers, pc[r] \in Leading
    PROVE  /\ Typed /\ target[r] \in Credentials
           /\ pc[r] \in Asking => ~Terminal(target[r])
           /\ Answering(r, target[r])
           /\ logins[target[r]] = 0 /\ ~spoiled[target[r]] => Own(r, target[r])
BY OwnGrant DEF OAuthInv, SingleFlight, NotLockedOut, Refused, Answering

\* A call that ends, and leaves the store as it is.
LEMMA LeaderReturns ==
    ASSUME OAuthInv, NEW r \in Callers, pc[r] \in Leading, ~CarriesToken(r), NEW v, Return(r, v),
           UNCHANGED <<grant, mark, calls, route, issuer, blame>>
    PROVE  OAuthInv'
<1> DEFINE c == target[r]
<1>1. Typed /\ c \in Credentials /\ (logins[c] = 0 /\ ~spoiled[c] => Own(r, c))
    BY AtOwn
<1>2. /\ TypedWork' /\ pc' \in [Callers -> Labels] /\ cancelled' = cancelled /\ DOMAIN result' = Callers
      /\ pc'[r] = "close"
      /\ \A j \in Callers \ {r} : pc'[j] = pc[j] /\ sent'[j] = sent[j] /\ reply'[j] = reply[j]
    BY <1>1, ReturnEffect
<1>3. TypedStore' /\ TypedRoute' /\ UNCHANGED <<calls, target, stale, kept>>
    BY <1>1, <1>2 DEF Typed, TypedStore, TypedRoute, kept, grant, mark, route, issuer
<1>4. Aside({r})
    BY <1>2, <1>3 DEF Aside
<1>5. Answering(r, c)' /\ (logins'[c] = 0 /\ ~spoiled'[c] => Own(r, c)')
    BY <1>1, <1>2, <1>3 DEF Answering, Own, CarriesToken, kept, Terminal
<1>6. QED
    BY <1>2, <1>3, <1>4, <1>5, LeaderMoves DEF Leading, Asking, kept

\* It goes on within the call, with what it has.
LEMMA LeaderGoes ==
    ASSUME OAuthInv, NEW r \in Callers, pc[r] \in Leading,
           NEW l \in {"select", "send"}, Goto(r, l), l = "send" => ~Terminal(target[r]),
           UNCHANGED <<grant, mark, calls, route, work, result, issuer, blame>>,
           pc[r] \notin {"sent", "answered", "mark"},
           stale[r] # None /\ logins[target[r]] = 0 =>
               access[target[r]] = stale[r] \/ (l = "select" /\ (Terminal(target[r]) \/ cancelled[r]))
    PROVE  OAuthInv'
<1> DEFINE c == target[r]
<1>1. Typed /\ c \in Credentials /\ (logins[c] = 0 /\ ~spoiled[c] => Own(r, c))
    BY AtOwn
<1>2. /\ pc' \in [Callers -> Labels] /\ cancelled' = cancelled /\ pc'[r] = l
      /\ \A j \in Callers \ {r} : pc'[j] = pc[j]
    BY <1>1, GotoEffect DEF Labels, Leading
<1>3. TypedStore' /\ TypedRoute' /\ TypedWork' /\ UNCHANGED <<calls, target, stale, kept>>
    BY <1>1, <1>2 DEF Typed, TypedStore, TypedRoute, TypedWork, kept, grant, mark, route, issuer, work
<1>4. Aside({r})
    BY <1>2, <1>3 DEF Aside, work
<1>5. Answering(r, c)'
    BY <1>2, <1>3 DEF Answering, kept, Terminal
<1>6. ~CarriesToken(r) /\ ~CarriesToken(r)'
    BY <1>2 DEF CarriesToken
<1>7. logins'[c] = 0 /\ ~spoiled'[c] => Own(r, c)'
    BY <1>1, <1>2, <1>3, <1>6 DEF Own, kept, Terminal
<1>8. pc'[r] \in Asking => ~Terminal(c)'
    BY <1>2, <1>3 DEF Asking, kept, Terminal
<1>9. QED
    BY <1>2, <1>3, <1>4, <1>5, <1>7, <1>8, LeaderMoves DEF Leading, kept

LEMMA StepCheck ==
    ASSUME OAuthInv, NEW r \in Callers, Check(r)
    PROVE  OAuthInv'
<1>1. /\ pc[r] = "check" /\ pc[r] \in Leading /\ ~CarriesToken(r)
      /\ UNCHANGED <<grant, mark, calls, route, issuer, blame>>
    BY DEF Check, Leading, CarriesToken
<1>2. CASE Return(r, "ok")
    BY <1>1, <1>2, LeaderReturns
<1>3. CASE ~Superseded(r) /\ Goto(r, "select") /\ UNCHANGED <<work, result>>
    BY <1>1, <1>3, LeaderGoes DEF Superseded, IdOf
<1>4. QED
    BY <1>2, <1>3 DEF Check

LEMMA StepSelect ==
    ASSUME OAuthInv, NEW r \in Callers, Select(r)
    PROVE  OAuthInv'
<1>1. /\ pc[r] = "select" /\ pc[r] \in Leading /\ ~CarriesToken(r)
      /\ UNCHANGED <<grant, mark, calls, route, issuer, blame>>
    BY DEF Select, Leading, CarriesToken
<1>2. CASE \E v : Return(r, v)
    BY <1>1, <1>2, LeaderReturns
<1>3. CASE ~cancelled[r] /\ Refreshable(target[r]) /\ Goto(r, "send") /\ UNCHANGED <<work, result>>
    <2>1. ~Terminal(target[r])
        BY <1>3 DEF Refreshable
    <2>2. stale[r] # None /\ logins[target[r]] = 0 => access[target[r]] = stale[r]
        BY <1>1, <1>3, <2>1, AtOwn DEF Answering
    <2>3. QED
        BY <1>1, <1>3, <2>1, <2>2, LeaderGoes
<1>4. QED
    BY <1>2, <1>3 DEF Select, IdOf

LEMMA StepSend ==
    ASSUME OAuthInv, NEW r \in Callers, Send(r)
    PROVE  OAuthInv'
<1> DEFINE c == target[r]
<1>1. /\ pc[r] = "send" /\ pc[r] \in Leading /\ ~CarriesToken(r)
      /\ UNCHANGED <<grant, mark, calls, route, issuer, blame>>
    BY DEF Send, Leading, CarriesToken
<1>2. CASE \E v : Return(r, v)
    BY <1>1, <1>2, LeaderReturns
<1>3. CASE sent' = [sent EXCEPT ![r] = refresh[c]] /\ Goto(r, "sent") /\ UNCHANGED <<reply, seen, tries, result>>
    <2>1. /\ Typed /\ c \in Credentials /\ ~Terminal(c) /\ Answering(r, c)
          /\ (logins[c] = 0 /\ ~spoiled[c] => Own(r, c))
        BY <1>1, AtOwn DEF Asking
    <2>2. /\ pc' \in [Callers -> Labels] /\ cancelled' = cancelled /\ pc'[r] = "sent"
          /\ \A j \in Callers \ {r} : pc'[j] = pc[j]
        BY <1>3, <2>1, GotoEffect DEF Labels, Leading
    <2>3. refresh[c] \in Nat /\ sent'[r] = refresh[c] /\ \A j \in Callers \ {r} : sent'[j] = sent[j]
        BY <1>3, <2>1 DEF Typed, TypedStore, TypedWork
    <2>4. TypedStore' /\ TypedRoute' /\ TypedWork' /\ UNCHANGED <<calls, target, stale, kept>>
        BY <1>1, <1>3, <2>1, <2>2, <2>3 DEF Typed, TypedStore, TypedRoute, TypedWork, kept, grant, mark, route, issuer
    <2>5. Aside({r})
        BY <1>3, <2>2, <2>3, <2>4 DEF Aside
    <2>6. ~CarriesToken(r)' /\ Answering(r, c)' /\ ~Terminal(c)'
        BY <1>1, <2>1, <2>2, <2>4 DEF CarriesToken, Answering, kept, Terminal
    <2>7. logins'[c] = 0 /\ ~spoiled'[c] => Own(r, c)'
        BY <1>1, <2>1, <2>2, <2>3, <2>4, <2>6 DEF Own, kept
    <2>8. QED
        BY <1>1, <2>2, <2>3, <2>4, <2>5, <2>6, <2>7, LeaderMoves DEF Leading, kept
<1>4. QED
    BY <1>2, <1>3 DEF Send, IdOf

LEMMA StepDescribe ==
    ASSUME OAuthInv, NEW r \in Callers, Describe(r)
    PROVE  OAuthInv'
<1>1. /\ pc[r] = "describe" /\ pc[r] \in Leading /\ ~CarriesToken(r)
      /\ UNCHANGED <<grant, mark, calls, route, issuer, blame>> /\ \E v : Return(r, v)
    BY DEF Describe, Leading, CarriesToken
<1>2. QED
    BY <1>1, LeaderReturns

\* An answer that is not what its class says, or a token that is used up, would break
\* Own here: the next token is honoured, and takes the place of the one it was bought with.
LEMMA StepExchange ==
    ASSUME OAuthInv, NEW r \in Callers, Exchange(r)
    PROVE  OAuthInv'
<1> DEFINE c == target[r]
           n == issued[c] + 1
<1>1. /\ pc[r] = "sent" /\ sent[r] \in live[c] /\ issued' = [issued EXCEPT ![c] = n]
      /\ UNCHANGED <<grant, mark, calls, route, sent, seen, tries, result, logins, blame>>
    BY DEF Exchange, IdOf, Answer
<1>2. /\ Typed /\ c \in Credentials /\ ~Terminal(c) /\ Answering(r, c) /\ pc[r] \in Leading
      /\ (logins[c] = 0 /\ ~spoiled[c] => Own(r, c))
    BY <1>1, AtOwn DEF Asking, Leading
<1>3. n \in Nat
    <2>1. issued[c] \in Nat
        BY <1>2 DEF Typed, TypedStore
    <2>2. QED
        BY <2>1
<1>4. PICK a \in Answers :
        /\ reply' = [reply EXCEPT ![r] = a] /\ Goto(r, "answered")
        /\ \/ /\ a.class = "" /\ a.refresh = None /\ UNCHANGED <<live, spoiled>>
           \/ /\ live' = [live EXCEPT ![c] = (@ \ {sent[r]}) \cup {n}]
              /\ \/ a.class = "" /\ a.refresh = n /\ UNCHANGED spoiled
                 \/ a.class = "transient" /\ spoiled' = [spoiled EXCEPT ![c] = TRUE]
    <2> DEFINE kept1 == [class |-> "", access |-> n, refresh |-> None]
               next1 == [class |-> "", access |-> n, refresh |-> n]
               lost  == [class |-> "transient"]
    <2>1. /\ kept1 \in Answers /\ kept1.class = "" /\ kept1.refresh = None
          /\ next1 \in Answers /\ next1.class = "" /\ next1.refresh = n
          /\ lost \in Answers /\ lost.class = "transient"
        BY <1>3 DEF Answers
    <2>2. \/ Answer(r, kept1) /\ UNCHANGED <<live, spoiled>>
          \/ /\ live' = [live EXCEPT ![c] = (@ \ {sent[r]}) \cup {n}]
             /\ \/ Answer(r, next1) /\ UNCHANGED spoiled
                \/ Answer(r, lost) /\ spoiled' = [spoiled EXCEPT ![c] = TRUE]
        BY DEF Exchange, IdOf
    <2>3. \A a : Answer(r, a) => reply' = [reply EXCEPT ![r] = a] /\ Goto(r, "answered")
        BY DEF Answer
    <2> HIDE DEF kept1, next1, lost
    <2>4. QED
        BY <2>1, <2>2, <2>3
<1>5. /\ pc' \in [Callers -> Labels] /\ cancelled' = cancelled /\ pc'[r] = "answered"
      /\ \A j \in Callers \ {r} : pc'[j] = pc[j]
    BY <1>2, <1>4, GotoEffect DEF Labels, Leading
<1>6. TypedWork' /\ reply'[r] = a /\ \A j \in Callers \ {r} : reply'[j] = reply[j]
    BY <1>1, <1>2, <1>4 DEF Typed, TypedWork
<1>7. UNCHANGED <<calls, target, stale, todo, back, access, refresh, failure, logins>>
    BY <1>1 DEF route, grant, mark
<1>8. TypedRoute'
    BY <1>1, <1>2, <1>5, <1>7 DEF Typed, TypedRoute
<1>9. /\ live' \in [Credentials -> SUBSET Nat] /\ spoiled' \in [Credentials -> BOOLEAN]
      /\ issued' \in [Credentials -> Nat]
      /\ \A d \in Credentials \ {c} : live'[d] = live[d] /\ spoiled'[d] = spoiled[d]
    <2>1. issued' \in [Credentials -> Nat]
        BY <1>1, <1>2, <1>3 DEF Typed, TypedStore
    <2>2. live \in [Credentials -> SUBSET Nat] /\ spoiled \in [Credentials -> BOOLEAN]
        BY <1>2 DEF Typed, TypedStore
    <2>3. live' = live \/ live' = [live EXCEPT ![c] = (live[c] \ {sent[r]}) \cup {n}]
        BY <1>4
    <2>4. (live[c] \ {sent[r]}) \cup {n} \in SUBSET Nat
        BY <1>2, <1>3, <2>2
    <2>5. live' \in [Credentials -> SUBSET Nat] /\ \A d \in Credentials \ {c} : live'[d] = live[d]
        BY <1>2, <2>2, <2>3, <2>4
    <2>6. spoiled' \in [Credentials -> BOOLEAN] /\ \A d \in Credentials \ {c} : spoiled'[d] = spoiled[d]
        BY <1>2, <1>4, <2>2
    <2>7. QED
        BY <2>1, <2>5, <2>6
<1>10. TypedStore'
    BY <1>1, <1>2, <1>9 DEF Typed, TypedStore, grant, mark
<1>11. Aside({r})
    BY <1>1, <1>5, <1>6, <1>7 DEF Aside
<1>12. Answering(r, c)' /\ ~Terminal(c)'
    BY <1>1, <1>2, <1>5, <1>7 DEF Answering, Terminal
<1>13. ASSUME logins'[c] = 0, ~spoiled'[c] PROVE Own(r, c)'
    <2>1. ~spoiled[c] /\ a.class = ""
        BY <1>2, <1>4, <1>13, <1>9 DEF Typed, TypedStore
    <2>2. Own(r, c)
        BY <1>2, <1>7, <1>13, <2>1
    <2>3. CASE a.refresh = None /\ UNCHANGED live
        <3>1. refresh[c] \in live[c]
            BY <1>1, <2>2 DEF Own
        <3>2. ~CarriesToken(r)'
            BY <1>6, <2>3 DEF CarriesToken
        <3>3. QED
            BY <1>5, <1>6, <1>7, <1>12, <2>1, <2>3, <3>1, <3>2 DEF Own
    <2>4. CASE a.refresh = n /\ live' = [live EXCEPT ![c] = (@ \ {sent[r]}) \cup {n}]
        <3>1. n \in live'[c] /\ n # None
            BY <1>2, <1>3, <2>4, CredentialsAssumption DEF Typed, TypedStore
        <3>2. CarriesToken(r)' /\ reply'[r].refresh = n
            BY <1>5, <1>6, <2>1, <2>4, <3>1 DEF CarriesToken
        <3>3. QED
            BY <1>5, <1>6, <1>7, <1>12, <2>1, <3>1, <3>2 DEF Own
    <2>5. QED
        BY <1>4, <2>1, <2>3, <2>4
<1>14. QED
    <2>1. \A d \in Credentials \ {c} :
               UNCHANGED <<access[d], refresh[d], failure[d], live[d], logins[d], spoiled[d]>>
        BY <1>7, <1>9
    <2>2. pc'[r] \in Leading
        BY <1>5 DEF Leading
    <2>3. QED
        BY <1>2, <1>5, <1>6, <1>7, <1>8, <1>10, <1>11, <1>12, <1>13, <2>1, <2>2, LeaderMoves

\* A refusal, and no answer that counts.
LEMMA NoTokens ==
    ASSUME OAuthInv, NEW r \in Callers, pc[r] = "sent", NEW class \in {"transient", "terminal"},
           Answer(r, [class |-> class]), UNCHANGED <<live, issued, spoiled>>,
           class = "terminal" => sent[r] \notin live[target[r]]
    PROVE  OAuthInv'
<1> DEFINE c == target[r]
<1>1. /\ reply' = [reply EXCEPT ![r] = [class |-> class]] /\ Goto(r, "answered")
      /\ UNCHANGED <<grant, mark, calls, route, sent, seen, tries, result, logins, blame>>
      /\ [class |-> class] \in Answers
    BY DEF Answer, Answers
<1>2. /\ Typed /\ c \in Credentials /\ ~Terminal(c) /\ Answering(r, c) /\ pc[r] \in Leading
      /\ (logins[c] = 0 /\ ~spoiled[c] => Own(r, c))
    BY AtOwn DEF Asking, Leading
<1>3. /\ pc' \in [Callers -> Labels] /\ cancelled' = cancelled /\ pc'[r] = "answered"
      /\ \A j \in Callers \ {r} : pc'[j] = pc[j]
    BY <1>1, <1>2, GotoEffect DEF Labels, Leading
<1>4. TypedWork' /\ reply'[r] = [class |-> class] /\ \A j \in Callers \ {r} : reply'[j] = reply[j]
    BY <1>1, <1>2 DEF Typed, TypedWork
<1>5. TypedStore' /\ TypedRoute' /\ UNCHANGED <<calls, target, stale, kept>>
    BY <1>1, <1>2, <1>3 DEF Typed, TypedStore, TypedRoute, kept, grant, mark, route
<1>6. Aside({r})
    BY <1>1, <1>3, <1>4, <1>5 DEF Aside
<1>7. Answering(r, c)' /\ ~Terminal(c)' /\ ~CarriesToken(r)'
    <2>1. reply'[r].class = class
        BY <1>4
    <2>2. ~CarriesToken(r)'
        BY <2>1 DEF CarriesToken
    <2>3. Answering(r, c)' /\ ~Terminal(c)'
        BY <1>2, <1>3, <1>5 DEF Answering, Terminal, kept
    <2>4. QED
        BY <2>2, <2>3
<1>8. ASSUME logins'[c] = 0, ~spoiled'[c] PROVE Own(r, c)'
    <2>1. Own(r, c) /\ ~CarriesToken(r) /\ sent[r] = refresh[c] /\ refresh[c] \in live[c]
        BY <1>2, <1>5, <1>8 DEF kept, Own, CarriesToken
    <2>2. class # "terminal"
        BY <2>1
    <2>3. QED
        BY <1>3, <1>4, <1>5, <1>7, <2>1, <2>2 DEF Own, kept
<1>9. QED
    BY <1>1, <1>2, <1>3, <1>4, <1>5, <1>6, <1>7, <1>8, LeaderMoves DEF Leading, kept

LEMMA StepRefuse ==
    ASSUME OAuthInv, NEW r \in Callers, Refuse(r)
    PROVE  OAuthInv'
BY NoTokens DEF Refuse, IdOf

LEMMA StepFail ==
    ASSUME OAuthInv, NEW r \in Callers, Fail(r)
    PROVE  OAuthInv'
BY NoTokens DEF Fail

\* What an answer with tokens holds.
LEMMA Tokens ==
    ASSUME NEW a \in Answers, a.class = ""
    PROVE  a.access \in Nat /\ a.refresh \in Nat \cup {None}
BY DEF Answers

\* The stored token gives way to the one that took its place at the issuer.
LEMMA StepStore ==
    ASSUME OAuthInv, NEW r \in Callers, Store(r)
    PROVE  OAuthInv'
<1> DEFINE c == target[r]
<1>1. /\ pc[r] = "answered" /\ reply[r].class = ""
      /\ UNCHANGED <<calls, route, live, issued, logins>>
    BY DEF Store
<1>2. /\ Typed /\ c \in Credentials /\ ~Terminal(c) /\ Answering(r, c) /\ pc[r] \in Leading
      /\ (logins[c] = 0 /\ ~spoiled[c] => Own(r, c))
    BY <1>1, AtOwn DEF Asking, Leading
<1>3. reply[r] \in Answers
    BY <1>1 DEF OAuthInv, InHand
<1>4. reply[r].access \in Nat /\ reply[r].refresh \in Nat \cup {None}
    BY <1>1, <1>3, Tokens
<1>5. CarriesToken(r) <=> reply[r].refresh # None
    BY <1>1 DEF CarriesToken
<1>6. UNCHANGED <<target, stale, todo, back>>
    BY <1>1 DEF route
<1>7. CASE /\ Return(r, "cancelled")
           /\ spoiled' = [spoiled EXCEPT ![c] = @ \/ reply[r].refresh # None]
           /\ UNCHANGED <<grant, mark, blame>>
    <2>1. /\ TypedWork' /\ pc' \in [Callers -> Labels] /\ cancelled' = cancelled /\ DOMAIN result' = Callers
          /\ pc'[r] = "close"
          /\ \A j \in Callers \ {r} : pc'[j] = pc[j] /\ sent'[j] = sent[j] /\ reply'[j] = reply[j]
        BY <1>2, <1>7, ReturnEffect
    <2>2. /\ spoiled' \in [Credentials -> BOOLEAN]
          /\ \A d \in Credentials \ {c} : spoiled'[d] = spoiled[d]
          /\ spoiled'[c] = (spoiled[c] \/ reply[r].refresh # None)
        BY <1>2, <1>7 DEF Typed, TypedStore
    <2>3. UNCHANGED <<access, refresh, failure, live, logins>>
        BY <1>1, <1>7 DEF grant, mark
    <2>4. TypedStore' /\ TypedRoute' /\ Aside({r})
        BY <1>1, <1>2, <1>6, <1>7, <2>1, <2>2 DEF Typed, TypedStore, TypedRoute, Aside, grant, mark
    <2>5. Answering(r, c)'
        BY <2>1 DEF Answering
    <2>6. ASSUME logins'[c] = 0, ~spoiled'[c] PROVE Own(r, c)'
        <3>1. Own(r, c) /\ ~CarriesToken(r)
            BY <1>2, <1>5, <1>6, <2>2, <2>3, <2>6
        <3>2. refresh[c] \in live[c] /\ ~CarriesToken(r)'
            BY <2>1, <3>1 DEF Own, CarriesToken
        <3>3. QED
            BY <1>2, <1>6, <2>1, <2>3, <3>2 DEF Own, Terminal
    <2>7. \A d \in Credentials \ {c} :
               UNCHANGED <<access[d], refresh[d], failure[d], live[d], logins[d], spoiled[d]>>
        BY <2>2, <2>3
    <2>8. QED
        BY <1>1, <1>2, <1>6, <2>1, <2>4, <2>5, <2>6, <2>7, LeaderMoves DEF Leading, Asking
<1>8. CASE /\ access' = [access EXCEPT ![c] = reply[r].access]
           /\ refresh' = [refresh EXCEPT ![c] = NextToken(r)]
           /\ expiry' = [expiry EXCEPT ![c] = "fresh"]
           /\ failure' = [failure EXCEPT ![c] = ""]
           /\ failures' = [failures EXCEPT ![c] = 0]
           /\ waiting' = [waiting EXCEPT ![c] = FALSE]
           /\ blame' = [blame EXCEPT ![c] = None]
           /\ Goto(r, "describe")
           /\ UNCHANGED <<work, result, spoiled>>
    <2>1. /\ pc' \in [Callers -> Labels] /\ cancelled' = cancelled /\ pc'[r] = "describe"
          /\ \A j \in Callers \ {r} : pc'[j] = pc[j]
        <3>1. Goto(r, "describe") /\ Typed
            BY <1>2, <1>8
        <3>2. QED
            BY <3>1, GotoEffect DEF Labels, Leading
    <2>2. NextToken(r) = IF reply[r].refresh = None THEN refresh[c] ELSE reply[r].refresh
        BY DEF NextToken, IdOf
    <2>3. refresh[c] \in Nat
        BY <1>2 DEF Typed, TypedStore
    <2>4. NextToken(r) \in Nat
        BY <1>4, <2>2, <2>3
    <2>5. TypedStore'
        BY <1>1, <1>2, <1>4, <1>8, <2>4 DEF Typed, TypedStore
    <2>6. TypedRoute' /\ TypedWork' /\ Aside({r})
        BY <1>2, <1>6, <1>8, <2>1 DEF Typed, TypedRoute, TypedWork, Aside, work
    <2>7. /\ refresh'[c] = NextToken(r) /\ failure'[c] = ""
          /\ \A d \in Credentials \ {c} :
               UNCHANGED <<access[d], refresh[d], failure[d], live[d], logins[d], spoiled[d]>>
        BY <1>1, <1>2, <1>8 DEF Typed, TypedStore
    <2>8. Answering(r, c)' /\ ~Terminal(c)' /\ ~CarriesToken(r)'
        BY <1>6, <2>1, <2>7 DEF Answering, Terminal, CarriesToken
    <2>9. ASSUME logins'[c] = 0, ~spoiled'[c] PROVE Own(r, c)'
        <3>1. Own(r, c)
            BY <1>1, <1>2, <1>6, <1>8, <2>9
        <3>2. NextToken(r) \in live[c]
            BY <1>5, <2>2, <3>1 DEF Own
        <3>3. QED
            BY <1>1, <1>6, <2>1, <2>7, <2>8, <3>2 DEF Own
    <2>10. QED
        BY <1>1, <1>2, <1>6, <2>1, <2>5, <2>6, <2>7, <2>8, <2>9, LeaderMoves DEF Leading
<1>9. QED
    BY <1>7, <1>8 DEF Store, IdOf

\* The leader looks at a failure, or looks again; nothing of the store changes.
LEMMA LeaderLooks ==
    ASSUME OAuthInv, NEW r \in Callers, pc[r] \in {"answered", "mark"}, reply[r].class # "",
           NEW l \in {"answered", "mark"}, Goto(r, l),
           DOMAIN seen' = Callers, DOMAIN tries' = Callers,
           UNCHANGED <<grant, mark, calls, route, sent, reply, result, issuer, blame>>
    PROVE  OAuthInv'
<1> DEFINE c == target[r]
<1>1. /\ Typed /\ c \in Credentials /\ ~Terminal(c) /\ Answering(r, c) /\ pc[r] \in Leading
      /\ (logins[c] = 0 /\ ~spoiled[c] => Own(r, c)) /\ reply[r] \in Answers
    BY AtOwn DEF Asking, Leading, OAuthInv, InHand
<1>2. /\ pc' \in [Callers -> Labels] /\ cancelled' = cancelled /\ pc'[r] = l
      /\ \A j \in Callers \ {r} : pc'[j] = pc[j]
    BY <1>1, GotoEffect DEF Labels, Leading
<1>3. TypedStore' /\ TypedRoute' /\ TypedWork' /\ UNCHANGED <<calls, target, stale, kept>>
    BY <1>1, <1>2 DEF Typed, TypedStore, TypedRoute, TypedWork, kept, grant, mark, route, issuer
<1>4. Aside({r})
    BY <1>2, <1>3 DEF Aside
<1>5. Answering(r, c)' /\ ~Terminal(c)' /\ ~CarriesToken(r) /\ ~CarriesToken(r)'
    BY <1>1, <1>2, <1>3 DEF Answering, Terminal, kept, CarriesToken
<1>6. ASSUME logins'[c] = 0, ~spoiled'[c] PROVE Own(r, c)'
    <2>1. Own(r, c)
        BY <1>1, <1>3, <1>6 DEF kept
    <2>2. refresh[c] \in live[c] /\ reply[r].class # "terminal"
        BY <1>5, <2>1 DEF Own
    <2>3. QED
        BY <1>2, <1>3, <1>5, <2>2 DEF Own, kept
<1>7. QED
    BY <1>1, <1>2, <1>3, <1>4, <1>5, <1>6, LeaderMoves DEF Leading, kept

LEMMA StepReadFailure ==
    ASSUME OAuthInv, NEW r \in Callers, ReadFailure(r)
    PROVE  OAuthInv'
<1>1. /\ pc[r] = "answered" /\ reply[r].class # "" /\ pc[r] \in Leading /\ ~CarriesToken(r)
      /\ UNCHANGED <<grant, mark, calls, route, issuer, blame>>
    BY DEF ReadFailure, Leading, CarriesToken
<1>2. CASE \E v : Return(r, v)
    BY <1>1, <1>2, LeaderReturns
<1>3. CASE /\ \E v : seen' = [seen EXCEPT ![r] = v]
           /\ Goto(r, "mark") /\ UNCHANGED <<sent, reply, tries, result>>
    <2>1. DOMAIN seen' = Callers /\ DOMAIN tries' = Callers
        BY <1>3 DEF OAuthInv, Typed, TypedWork
    <2>2. QED
        BY <1>1, <1>3, <2>1, LeaderLooks
<1>4. QED
    BY <1>2, <1>3 DEF ReadFailure

\* Only a refusal of the stored token locks the account out.
LEMMA StepMarkFailure ==
    ASSUME OAuthInv, NEW r \in Callers, MarkFailure(r)
    PROVE  OAuthInv'
<1> DEFINE c == target[r]
<1>1. /\ pc[r] = "mark" /\ pc[r] \in Leading /\ ~CarriesToken(r)
      /\ UNCHANGED <<grant, calls, route, issuer>>
    BY DEF MarkFailure, Leading, CarriesToken
<1>2. /\ Typed /\ c \in Credentials /\ Answering(r, c) /\ reply[r] \in Answers /\ reply[r].class # ""
      /\ (logins[c] = 0 /\ ~spoiled[c] => Own(r, c))
    BY <1>1, AtOwn DEF OAuthInv, InHand
<1>3. CASE \E v : Return(r, v) /\ UNCHANGED <<mark, blame>>
    BY <1>1, <1>3, LeaderReturns
<1>4. CASE /\ Goto(r, "answered") /\ tries' = [tries EXCEPT ![r] = @ + 1]
           /\ UNCHANGED <<sent, reply, seen, result>> /\ UNCHANGED <<mark, blame>>
    <2>1. DOMAIN seen' = Callers /\ DOMAIN tries' = Callers
        BY <1>2, <1>4 DEF Typed, TypedWork
    <2>2. QED
        BY <1>1, <1>2, <1>4, <2>1, LeaderLooks
<1>5. CASE /\ failure' = [failure EXCEPT ![c] = reply[r].class]
           /\ failures' = [failures EXCEPT ![c] = Count(r)]
           /\ waiting' = [waiting EXCEPT ![c] = reply[r].class = "transient"]
           /\ blame' = [blame EXCEPT ![c] = IF reply[r].class = "terminal" THEN sent[r] ELSE None]
           /\ Return(r, "failed")
    <2>1. /\ TypedWork' /\ pc' \in [Callers -> Labels] /\ cancelled' = cancelled /\ DOMAIN result' = Callers
          /\ pc'[r] = "close"
          /\ \A j \in Callers \ {r} : pc'[j] = pc[j] /\ sent'[j] = sent[j] /\ reply'[j] = reply[j]
        BY <1>2, <1>5, ReturnEffect
    <2>2. reply[r].class \in {"transient", "terminal"}
        BY <1>2 DEF Answers
    <2>3. UNCHANGED <<access, refresh, expiry, live, issued, logins, spoiled, target, stale, todo, back>>
        BY <1>1 DEF grant, issuer, route
    <2>4. TypedStore' /\ TypedRoute' /\ Aside({r})
        BY <1>2, <1>5, <2>1, <2>2, <2>3 DEF Typed, TypedStore, TypedRoute, Aside
    <2>5. /\ failure'[c] = reply[r].class
          /\ \A d \in Credentials \ {c} :
               UNCHANGED <<access[d], refresh[d], failure[d], live[d], logins[d], spoiled[d]>>
        BY <1>2, <1>5, <2>3 DEF Typed, TypedStore
    <2>6. Answering(r, c)' /\ ~CarriesToken(r)'
        BY <2>1 DEF Answering, CarriesToken
    <2>7. ASSUME logins'[c] = 0, ~spoiled'[c] PROVE Own(r, c)'
        <3>1. Own(r, c)
            BY <1>2, <2>3, <2>7
        <3>2. reply[r].class # "terminal" /\ refresh[c] \in live[c]
            BY <1>1, <3>1 DEF Own
        <3>3. QED
            BY <2>1, <2>3, <2>5, <2>6, <3>2 DEF Own, Terminal
    <2>8. QED
        BY <1>1, <1>2, <2>1, <2>3, <2>4, <2>5, <2>6, <2>7, LeaderMoves DEF Leading, Asking
<1>6. QED
    BY <1>3, <1>4, <1>5 DEF MarkFailure, IdOf

-----------------------------------------------------------------------------
(* The issuer, time, contexts, logins, the process *)

LEMMA StepRevoke ==
    ASSUME OAuthInv, NEW c \in Credentials, Revoke(c)
    PROVE  OAuthInv'
<1>1. /\ spoiled' = [spoiled EXCEPT ![c] = TRUE] /\ live' = [live EXCEPT ![c] = {}]
      /\ UNCHANGED <<grant, mark, calls, pc, route, work, result, cancelled, issued, logins, blame>>
    BY DEF Revoke
<1>2. UNCHANGED <<pc, cancelled, target, stale, sent, reply, flight, access, refresh, failure, logins>>
    BY <1>1 DEF grant, mark, calls, route, work
<1>3. Typed'
    BY <1>1 DEF OAuthInv, Typed, TypedStore, TypedCalls, TypedRoute, TypedWork, grant, mark, calls, route, work
<1>4. SingleFlight' /\ InHand' /\ NotLockedOut' /\ Refused'
    BY <1>2 DEF OAuthInv, SingleFlight, InHand, NotLockedOut, Refused, Terminal
<1>5. Held'
    <2>1. SUFFICES ASSUME NEW d \in Credentials, logins'[d] = 0, ~spoiled'[d] PROVE GrantHeld(d)'
        BY DEF Held
    <2>2. d # c /\ spoiled'[d] = spoiled[d] /\ live'[d] = live[d]
        BY <1>1, <2>1 DEF OAuthInv, Typed, TypedStore
    <2>3. GrantHeld(d)
        BY <1>2, <2>1, <2>2 DEF OAuthInv, Held
    <2>4. QED
        BY <1>2, <2>2, <2>3 DEF GrantHeld, Carries, CarriesToken, Terminal
<1>6. QED
    BY <1>3, <1>4, <1>5 DEF OAuthInv

\* Steps of nobody that leave what the invariant speaks of.
LEMMA StepAge ==
    ASSUME OAuthInv, NEW c \in Credentials, Age(c)
    PROVE  OAuthInv'
<1>1. UNCHANGED <<access, refresh, mark, calls, pc, route, work, result, cancelled, issuer, blame>>
    BY DEF Age
<1>2. expiry' \in [Credentials -> {"fresh", "due", "expired"}]
    BY DEF Age, OAuthInv, Typed, TypedStore
<1>3. Typed'
    BY <1>1, <1>2 DEF OAuthInv, Typed, TypedStore, TypedCalls, TypedRoute, TypedWork, mark, calls, route, work, issuer
<1>4. Aside({}) /\ UNCHANGED kept /\ UNCHANGED <<flight, target>>
    BY <1>1 DEF Aside, kept, mark, calls, route, work, issuer
<1>5. QED
    BY <1>3, <1>4, CalmMoves DEF OAuthInv, SingleFlight

LEMMA StepEndBackoff ==
    ASSUME OAuthInv, NEW c \in Credentials, EndBackoff(c)
    PROVE  OAuthInv'
<1>1. UNCHANGED <<grant, failure, failures, calls, pc, route, work, result, cancelled, issuer, blame>>
    BY DEF EndBackoff
<1>2. DOMAIN waiting' = Credentials
    BY DEF EndBackoff, OAuthInv, Typed, TypedStore
<1>3. Typed'
    BY <1>1, <1>2 DEF OAuthInv, Typed, TypedStore, TypedCalls, TypedRoute, TypedWork, grant, calls, route, work, issuer
<1>4. Aside({}) /\ UNCHANGED kept /\ UNCHANGED <<flight, target>>
    BY <1>1 DEF Aside, kept, grant, calls, route, work, issuer
<1>5. QED
    BY <1>3, <1>4, CalmMoves DEF OAuthInv, SingleFlight

LEMMA StepCancel ==
    ASSUME OAuthInv, NEW r \in Callers, Cancel(r)
    PROVE  OAuthInv'
<1>1. /\ cancelled' = [cancelled EXCEPT ![r] = TRUE]
      /\ UNCHANGED <<grant, mark, calls, pc, route, work, result, issuer, blame>>
    BY DEF Cancel
<1>2. UNCHANGED <<pc, target, stale, sent, reply, flight, access, refresh, failure, live, issued,
                  logins, spoiled>>
    BY <1>1 DEF grant, mark, calls, route, work, issuer
<1>3. Typed' /\ \A j \in Callers : cancelled[j] => cancelled'[j]
    BY <1>1 DEF OAuthInv, Typed, TypedStore, TypedCalls, TypedRoute, TypedWork, grant, mark, calls, route, work, issuer
<1>4. SingleFlight' /\ InHand'
    BY <1>2 DEF OAuthInv, SingleFlight, InHand
<1>5. Calm
    BY <1>2, <1>3 DEF Calm
<1>6. QED
    BY <1>3, <1>4, <1>5, CalmSteps DEF OAuthInv

\* A login ends a lock-out, and what held of the older grant is not asked any more.
LEMMA StepLogin ==
    ASSUME OAuthInv, NEW c \in Credentials, Login(c)
    PROVE  OAuthInv'
<1> DEFINE n == issued[c] + 1
<1>1. Typed /\ issued[c] \in Nat /\ logins[c] \in Nat
    BY DEF OAuthInv, Typed, TypedStore
<1>2. n \in Nat /\ logins[c] + 1 \in Nat /\ logins[c] + 1 # 0
    BY <1>1
<1>3. /\ issued' = [issued EXCEPT ![c] = n] /\ live' = [live EXCEPT ![c] = @ \cup {n}]
      /\ access' = [access EXCEPT ![c] = n] /\ refresh' = [refresh EXCEPT ![c] = n]
      /\ logins' = [logins EXCEPT ![c] = logins[c] + 1]
      /\ spoiled' = [spoiled EXCEPT ![c] = FALSE]
      /\ expiry' = [expiry EXCEPT ![c] = "fresh"] /\ failure' = [failure EXCEPT ![c] = ""]
      /\ failures' = [failures EXCEPT ![c] = 0] /\ waiting' = [waiting EXCEPT ![c] = FALSE]
      /\ blame' = [blame EXCEPT ![c] = None]
      /\ UNCHANGED <<calls, pc, route, work, result, cancelled>>
    BY DEF Login
<1>4. UNCHANGED <<flight, pc, target, stale, sent, reply, cancelled>>
    BY <1>3 DEF calls, route, work
<1> HIDE DEF n
<1>5. TypedStore'
    <2>1. live' \in [Credentials -> SUBSET Nat]
        BY <1>1, <1>2, <1>3 DEF Typed, TypedStore
    <2>2. QED
        BY <1>1, <1>2, <1>3, <2>1 DEF Typed, TypedStore
<1>6. Typed'
    BY <1>1, <1>3, <1>5 DEF Typed, TypedCalls, TypedRoute, TypedWork, calls, route, work
<1>7. SingleFlight' /\ InHand'
    BY <1>4 DEF OAuthInv, SingleFlight, InHand
<1>8. /\ logins'[c] # 0 /\ failure'[c] = ""
      /\ \A d \in Credentials \ {c} :
           UNCHANGED <<access[d], refresh[d], failure[d], live[d], logins[d], spoiled[d]>>
    BY <1>1, <1>2, <1>3 DEF Typed, TypedStore
<1>9. \A j \in Callers : pc[j] \in Leading => target[j] \in Credentials
    BY DEF OAuthInv, SingleFlight
<1>10. NotLockedOut'
    BY <1>4, <1>8, <1>9 DEF OAuthInv, NotLockedOut, Terminal, Asking, Leading
<1>11. Refused'
    BY <1>4, <1>8, <1>9 DEF OAuthInv, Refused, Terminal
<1>12. Held'
    <2>1. SUFFICES ASSUME NEW d \in Credentials, logins'[d] = 0, ~spoiled'[d] PROVE GrantHeld(d)'
        BY DEF Held
    <2>2. d # c /\ UNCHANGED <<refresh[d], failure[d], live[d]>> /\ GrantHeld(d)
        BY <1>8, <2>1 DEF OAuthInv, Held
    <2>3. QED
        BY <1>4, <2>2 DEF GrantHeld, Carries, CarriesToken, Terminal
<1>13. QED
    BY <1>6, <1>7, <1>10, <1>11, <1>12 DEF OAuthInv

\* A restart loses every answer under way, and the tokens in them.
LEMMA StepRestart ==
    ASSUME OAuthInv, Restart
    PROVE  OAuthInv'
<1>1. UNCHANGED <<access, refresh, expiry, failure, failures, waiting, live, issued, logins, blame>>
    BY DEF Restart, grant, mark
<1>2. /\ spoiled' = [c \in Credentials |-> spoiled[c] \/ \E r \in Callers : CarriesToken(r) /\ IdOf(r) = c]
      /\ pc' = [r \in Callers |-> "idle"] /\ stale' = [r \in Callers |-> None]
    BY DEF Restart
<1>3. Typed'
    <2>1. TypedCalls'
        BY DEF Restart, TypedCalls
    <2>2. TypedRoute'
        BY DEF Restart, TypedRoute, Labels
    <2>3. TypedWork'
        BY DEF Restart, TypedWork
    <2>4. spoiled' \in [Credentials -> BOOLEAN]
        BY <1>2 DEF OAuthInv, Typed, TypedStore
    <2>5. TypedStore'
        BY <1>1, <2>4 DEF OAuthInv, Typed, TypedStore
    <2>6. QED
        BY <2>1, <2>2, <2>3, <2>5 DEF Typed
<1>4. SingleFlight' /\ InHand' /\ NotLockedOut' /\ Refused'
    BY <1>2 DEF SingleFlight, InHand, NotLockedOut, Refused, Leading, Asking
<1>5. Held'
    <2>1. SUFFICES ASSUME NEW c \in Credentials, logins'[c] = 0, ~spoiled'[c] PROVE GrantHeld(c)'
        BY DEF Held
    <2>2. ~spoiled[c] /\ \A r \in Callers : ~Carries(r, c)
        BY <1>2, <2>1 DEF Carries, IdOf
    <2>3. GrantHeld(c)
        BY <1>1, <2>1, <2>2 DEF OAuthInv, Held
    <2>4. ~Terminal(c)' /\ refresh'[c] \in live'[c]
        BY <1>1, <2>2, <2>3 DEF GrantHeld, Terminal
    <2>5. QED
        BY <1>2, <2>4 DEF GrantHeld, Carries, CarriesToken
<1>6. QED
    BY <1>3, <1>4, <1>5 DEF OAuthInv

-----------------------------------------------------------------------------
LEMMA OAuthInit ==
    ASSUME Init
    PROVE  OAuthInv
<1>1. TypedStore
    <2>1. live \in [Credentials -> SUBSET Nat]
        <3>1. live = [c \in Credentials |-> {0}]
            BY DEF Init
        <3>2. {0} \subseteq Nat
            OBVIOUS
        <3>3. QED
            BY <3>1, <3>2
    <2>2. /\ access \in [Credentials -> Nat] /\ refresh \in [Credentials -> Nat]
          /\ issued \in [Credentials -> Nat] /\ logins \in [Credentials -> Nat]
        <3>1. access = [c \in Credentials |-> 0] /\ refresh = [c \in Credentials |-> 0]
              /\ issued = [c \in Credentials |-> 0] /\ logins = [c \in Credentials |-> 0]
            BY DEF Init
        <3>2. QED
            BY <3>1
    <2>3. expiry \in [Credentials -> {"fresh", "due", "expired"}]
          /\ failure \in [Credentials -> {"", "transient", "terminal"}]
        BY DEF Init
    <2>4. spoiled \in [Credentials -> BOOLEAN]
        BY DEF Init
    <2>5. DOMAIN failures = Credentials /\ DOMAIN waiting = Credentials /\ DOMAIN blame = Credentials
        BY DEF Init
    <2>6. QED
        BY <2>1, <2>2, <2>3, <2>4, <2>5 DEF TypedStore
<1>2. TypedCalls /\ TypedRoute /\ TypedWork
    BY DEF Init, TypedCalls, TypedRoute, TypedWork, Labels
<1>3. SingleFlight /\ InHand /\ NotLockedOut /\ Refused
    BY DEF Init, SingleFlight, InHand, NotLockedOut, Refused, Leading, Asking
<1>4. Held
    BY DEF Init, Held, GrantHeld, Carries, CarriesToken, Terminal
<1>5. QED
    BY <1>1, <1>2, <1>3, <1>4 DEF OAuthInv, Typed

LEMMA OAuthNext ==
    ASSUME OAuthInv, [Next]_vars
    PROVE  OAuthInv'
<1>1. ASSUME NEW r \in Callers, Begin(r) PROVE OAuthInv'
    <2>1. CASE \E c \in Credentials : RefreshOAuthCredentialIfBearer(r, c)
        <3>1. PICK c \in Credentials : RefreshOAuthCredentialIfBearer(r, c)
            BY <2>1
        <3>2. access[c] \in Nat
            BY DEF OAuthInv, Typed, TypedStore
        <3>3. QED
            BY <3>1, <3>2, StepAsks DEF RefreshOAuthCredentialIfBearer
    <2>2. CASE \E c \in Credentials : RefreshOAuthCredential(r, c)
        BY <2>2, StepAsks DEF RefreshOAuthCredential
    <2>3. QED
        BY <1>1, <2>1, <2>2, StepResolveOAuthBearers, StepRefreshOAuthProviderCredential DEF Begin
<1>2. ASSUME NEW r \in Callers, Advance(r) PROVE OAuthInv'
    BY <1>2, StepEnter, StepEnterProvider, StepClose, StepDelete, StepCloseProvider,
       StepDeleteProvider, StepResolveOAuthBearers, StepNextStale, StepResolve, StepPick,
       StepCheck, StepSelect, StepSend, StepStore, StepDescribe, StepReadFailure,
       StepMarkFailure DEF Advance
<1>3. ASSUME NEW r \in Callers, IssuerStep(r) \/ Abandon(r) \/ Cancel(r) PROVE OAuthInv'
    BY <1>3, StepExchange, StepRefuse, StepFail, StepAbandon, StepCancel DEF IssuerStep
<1>4. ASSUME NEW c \in Credentials, Revoke(c) \/ Age(c) \/ EndBackoff(c) \/ Login(c)
      PROVE  OAuthInv'
    BY <1>4, StepRevoke, StepAge, StepEndBackoff, StepLogin
<1>5. CASE UNCHANGED vars
    <2>1. UNCHANGED <<grant, mark, calls, route, work, issuer, pc, result, cancelled, blame>>
        BY <1>5 DEF vars
    <2>2. UNCHANGED <<access, refresh, expiry, failure, failures, waiting, flight, closed, verdict,
                      target, back, todo, stale, sent, reply, seen, tries, live, issued, logins,
                      spoiled, pc, result, cancelled, blame>>
        BY <2>1 DEF grant, mark, calls, route, work, issuer
    <2>3. Typed'
        BY <2>2 DEF OAuthInv, Typed, TypedStore, TypedCalls, TypedRoute, TypedWork
    <2>4. Aside({}) /\ UNCHANGED kept
        BY <2>2 DEF Aside, kept
    <2>5. QED
        BY <2>2, <2>3, <2>4, CalmMoves DEF OAuthInv, SingleFlight
<1>6. QED
    BY <1>1, <1>2, <1>3, <1>4, <1>5, StepRestart DEF Next

LEMMA OAuthAlways == Spec => []OAuthInv
<1>1. Init => OAuthInv
    BY OAuthInit
<1>2. OAuthInv /\ [Next]_vars => OAuthInv'
    BY OAuthNext
<1>3. QED
    BY <1>1, <1>2, PTL DEF Spec

\* At any time one caller at most works on a refresh of a credential.
THEOREM OneFlight == Spec => [](\A c \in Credentials, r, j \in Callers :
    pc[r] \in Leading /\ pc[j] \in Leading /\ target[r] = c /\ target[j] = c => r = j)
<1>1. OAuthInv => \A c \in Credentials, r, j \in Callers :
          pc[r] \in Leading /\ pc[j] \in Leading /\ target[r] = c /\ target[j] = c => r = j
    BY OneLeader DEF OAuthInv
<1>2. QED
    BY <1>1, OAuthAlways, PTL

\* The refresh token of a locked out account is not presented to the issuer.
THEOREM NeverPresented == Spec => []RefusedTokenNotPresented
<1>1. OAuthInv => RefusedTokenNotPresented
    BY DEF OAuthInv, NotLockedOut, Asking, IdOf, RefusedTokenNotPresented
<1>2. QED
    BY <1>1, OAuthAlways, PTL

\* Without a login beside it, only a revoked grant or a lost answer locks an account out.
THEOREM LockedOutByLoss == Spec => []LockedOutOnlyByLoss
<1>1. ASSUME OAuthInv, NEW c \in Credentials, failure[c] = "terminal"
      PROVE  spoiled[c] \/ logins[c] > 0
    <2>1. ~(logins[c] = 0 /\ ~spoiled[c])
        BY <1>1 DEF OAuthInv, Held, GrantHeld, Terminal
    <2>2. logins[c] \in Nat
        BY <1>1 DEF OAuthInv, Typed, TypedStore
    <2>3. QED
        BY <2>1, <2>2
<1>2. OAuthInv => LockedOutOnlyByLoss
    BY <1>1 DEF LockedOutOnlyByLoss
<1>3. QED
    BY <1>2, OAuthAlways, PTL

-----------------------------------------------------------------------------
(* What a step may do to a lockout and to a bearer. *)

LEMMA LockChanges ==
    ASSUME [Next]_vars
    PROVE  \/ UNCHANGED failure
           \/ \E r \in Callers : Store(r) \/ MarkFailure(r)
           \/ \E c \in Credentials : Login(c)
<1>1. ASSUME NEW r \in Callers, Begin(r) PROVE UNCHANGED failure
    BY <1>1 DEF Begin, ResolveOAuthBearers, RefreshOAuthProviderCredential,
                RefreshOAuthCredential, RefreshOAuthCredentialIfBearer, Asks, mark
<1>2. ASSUME NEW r \in Callers, Advance(r), ~Store(r), ~MarkFailure(r)
      PROVE  UNCHANGED failure
    <2>1. UNCHANGED mark
        BY <1>2 DEF Advance, Enter, EnterProvider, Close, Delete, CloseProvider, DeleteProvider,
                    Finish, ResolveOAuthBearers, NextStale, Resolve, Pick, Check, Select, Send,
                    Describe, ReadFailure
    <2>2. QED
        BY <2>1 DEF mark
<1>3. ASSUME NEW r \in Callers, IssuerStep(r) \/ Abandon(r) \/ Cancel(r)
      PROVE  UNCHANGED failure
    BY <1>3 DEF IssuerStep, Exchange, Refuse, Fail, Answer, Abandon, Cancel, mark
<1>4. ASSUME NEW c \in Credentials, Revoke(c) \/ Age(c) \/ EndBackoff(c)
      PROVE  UNCHANGED failure
    BY <1>4 DEF Revoke, Age, EndBackoff, mark
<1>5. Restart \/ UNCHANGED vars => UNCHANGED failure
    BY DEF Restart, vars, mark
<1>6. QED
    BY <1>1, <1>2, <1>3, <1>4, <1>5 DEF Next, Advance

\* A lockout ends by a new device login only.
LEMMA LockStep ==
    ASSUME OAuthInv, [Next]_vars
    PROVE  \A c \in Credentials : Terminal(c) /\ ~Terminal(c)' => logins'[c] > logins[c]
<1>1. SUFFICES ASSUME NEW c \in Credentials, Terminal(c), ~Terminal(c)'
               PROVE  logins'[c] > logins[c]
    OBVIOUS
<1>2. failure \in [Credentials -> {"", "transient", "terminal"}] /\ logins \in [Credentials -> Nat]
    BY DEF OAuthInv, Typed, TypedStore
<1>3. ASSUME NEW r \in Callers, Store(r) \/ MarkFailure(r) PROVE FALSE
    <2>1. ~Terminal(target[r]) /\ target[r] \in Credentials
        BY <1>3 DEF Store, MarkFailure, OAuthInv, NotLockedOut, Asking, SingleFlight, Leading
    <2>2. failure'[c] = failure[c] \/ c = target[r]
        BY <1>2, <1>3 DEF Store, MarkFailure, IdOf, mark
    <2>3. QED
        BY <1>1, <2>1, <2>2 DEF Terminal
<1>4. ASSUME NEW d \in Credentials, Login(d) PROVE logins'[c] > logins[c]
    <2>1. failure' = [failure EXCEPT ![d] = ""] /\ logins' = [logins EXCEPT ![d] = @ + 1]
        BY <1>4 DEF Login
    <2>2. c = d
        BY <1>1, <1>2, <2>1 DEF Terminal
    <2>3. logins'[c] = logins[c] + 1 /\ logins[c] \in Nat
        BY <1>2, <2>1, <2>2
    <2>4. QED
        BY <2>3
<1>5. ~UNCHANGED failure
    BY <1>1 DEF Terminal
<1>6. QED
    BY <1>3, <1>4, <1>5, LockChanges

\* A lockout ends by a new device login only, never by a refresh that was under way.
THEOREM LockedUntilLogin == Spec => TerminalUntilReauth
<1>1. OAuthInv /\ [Next]_vars
        => [\A c \in Credentials : Terminal(c) /\ ~Terminal(c)' => logins'[c] > logins[c]]_vars
    BY LockStep
<1>2. QED
    BY <1>1, OAuthAlways, PTL DEF Spec, TerminalUntilReauth

\* A refresh that answers a refused bearer replaces that bearer and no later one.
THEOREM RefusedBearerReplaced == Spec => RefusedBearerOnly
<1>1. ASSUME OAuthInv, NEW r \in Callers, pc[r] = "answered", stale[r] # None
      PROVE  access[IdOf(r)] = stale[r] \/ logins[IdOf(r)] > 0
    <2>1. target[r] \in Credentials
        BY <1>1 DEF OAuthInv, SingleFlight, Leading
    <2>2. logins[target[r]] \in Nat
        BY <1>1, <2>1 DEF OAuthInv, Typed, TypedStore
    <2>3. logins[target[r]] = 0 => access[target[r]] = stale[r]
        BY <1>1 DEF OAuthInv, Refused, Leading
    <2>4. QED
        BY <2>2, <2>3 DEF IdOf
<1>2. OAuthInv /\ [Next]_vars =>
        [\A r \in Callers :
           pc[r] = "answered" /\ pc'[r] = "describe" /\ stale[r] # None
           => access[IdOf(r)] = stale[r] \/ logins[IdOf(r)] > 0]_vars
    BY <1>1
<1>3. QED
    BY <1>2, OAuthAlways, PTL DEF Spec, RefusedBearerOnly
=============================================================================
