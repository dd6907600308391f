-------------------------- MODULE DaemonPartsProofs --------------------------
(* What DaemonParts and its parts guarantee for every value of the constants. *)
(* Of the logins of devices: the limit of sessions, that a handle is used by  *)
(* one completion only, and with the console on top of it that the code it    *)
(* shows is awaited.  Of five parts more, each on its own and as a part of    *)
(* DaemonParts: no account is pinged twice in a slot, a pool header tells the *)
(* truth, the captured-IO log holds its newest records, the slots of the      *)
(* model cache are a cache that gives up the least recently used first, a     *)
(* daemon that comes and goes in turn with others is reached at the path of   *)
(* its socket, and the database has the schema of the versions it records.    *)
EXTENDS DaemonParts, SequenceTheorems, FiniteSetTheorems, WellFoundedInduction, TLAPS

-----------------------------------------------------------------------------
(* The logins of devices *)

\* A completion is called only once its login has started and has no phase of a start,
\* and only a login that has started has a session.
Started ==
    /\ \A l \in kept : phase[Start(l)] = "ok"
    /\ \A l \in Logins, w \in Clients :
         /\ phase[<<l, w>>] # "none" => phase[Start(l)] = "ok"
         /\ phase[<<l, w>>] \in Used \cup {"none", "called", "refused"}

\* Of all completions of a handle one at most took its session out.
OneTook ==
    \A l \in Logins : \A w \in Clients :
        phase[<<l, w>>] \in Used =>
            /\ l \notin kept
            /\ \A v \in Clients : phase[<<l, v>>] \in Used => v = w

\* Tokens are asked for, and stored, only for a code that was approved.
Bought ==
    /\ \A l \in Logins, w \in Clients :
         phase[<<l, w>>] \in {"exchanging", "storing"} => approved[l] \in Accounts
    /\ \A a \in Accounts : stored[a] # None =>
         /\ approved[stored[a]] = a
         /\ \E w \in Clients : phase[<<stored[a], w>>] = "ok"

LoginInv == TypeOK /\ Started /\ OneTook /\ Bought /\ SessionsBounded

-----------------------------------------------------------------------------
LEMMA JobType ==
    /\ \A l \in Logins : Start(l) \in Jobs
    /\ \A l \in Logins, w \in Clients : <<l, w>> \in Jobs /\ \A m \in Logins : <<l, w>> # Start(m)
BY NamesAssumption DEF Start, Jobs

\* A job that goes on leaves all others where they are.
LEMMA GotoJob ==
    ASSUME TypeOK, NEW j \in Jobs, NEW p \in Phases, Goto(j, p)
    PROVE /\ phase' \in [Jobs -> Phases]
          /\ phase'[j] = p
          /\ \A i \in Jobs : i # j => phase'[i] = phase[i]
BY DEF TypeOK, Goto

\* Sessions that are left of those there were keep to the limit.
LEMMA FewerSessions ==
    ASSUME TypeOK, SessionsBounded, kept' \subseteq kept
    PROVE SessionsBounded'
<1>1. IsFiniteSet(kept)
    BY SessionsAssumption, FS_Subset DEF TypeOK
<1>2. Cardinality(kept') <= Cardinality(kept) /\ Cardinality(kept') \in Nat /\ Cardinality(kept) \in Nat
    BY <1>1, FS_Subset, FS_CardinalityType
<1>3. QED
    BY <1>2, SessionsAssumption DEF SessionsBounded

\* What was bought stays so while approvals and the store do not change.
LEMMA StaysBought ==
    ASSUME TypeOK, Bought, UNCHANGED <<approved, stored>>,
           \A m \in Logins, v \in Clients :
               /\ phase'[<<m, v>>] \in {"exchanging", "storing"} => approved[m] \in Accounts
               /\ phase[<<m, v>>] = "ok" => phase'[<<m, v>>] = "ok"
    PROVE Bought'
<1>1. \A m \in Logins, v \in Clients :
         phase'[<<m, v>>] \in {"exchanging", "storing"} => approved'[m] \in Accounts
    OBVIOUS
<1>2. ASSUME NEW a \in Accounts, stored'[a] # None
      PROVE  /\ approved'[stored'[a]] = a
             /\ \E w \in Clients : phase'[<<stored'[a], w>>] = "ok"
    <2>1. stored[a] # None /\ stored'[a] = stored[a] /\ approved' = approved
        BY <1>2
    <2>2. stored[a] \in Logins
        BY <2>1 DEF TypeOK
    <2>3. PICK w \in Clients : approved[stored[a]] = a /\ phase[<<stored[a], w>>] = "ok"
        BY <2>1 DEF Bought
    <2>4. phase'[<<stored[a], w>>] = "ok"
        BY <2>2, <2>3
    <2>5. QED
        BY <2>1, <2>3, <2>4
<1>3. QED
    BY <1>1, <1>2 DEF Bought

\* What has started stays so while no session is added and no completion called.
LEMMA StaysStarted ==
    ASSUME TypeOK, Started, kept' \subseteq kept,
           \A m \in Logins : phase[Start(m)] = "ok" => phase'[Start(m)] = "ok",
           \A m \in Logins, v \in Clients :
               /\ phase'[<<m, v>>] # "none" => phase[Start(m)] = "ok"
               /\ phase'[<<m, v>>] \in Used \cup {"none", "called", "refused"}
    PROVE Started'
<1>1. \A m \in kept' : phase'[Start(m)] = "ok"
    BY DEF Started, TypeOK
<1>2. QED
    BY <1>1 DEF Started

LEMMA LoginInit == Init => LoginInv
<1> SUFFICES ASSUME Init PROVE LoginInv
    OBVIOUS
<1>1. TypeOK
    BY DEF Init, TypeOK, Phases
<1>2. Started /\ OneTook
    BY JobType DEF Init, Started, OneTook, Used
<1>3. Bought
    BY JobType DEF Init, Bought
<1>4. SessionsBounded
    BY FS_EmptySet, SessionsAssumption DEF Init, SessionsBounded
<1>5. QED
    BY <1>1, <1>2, <1>3, <1>4 DEF LoginInv

\* A start that goes on, and keeps no session that was not there, disturbs nothing.
LEMMA StartGoes ==
    ASSUME LoginInv, NEW l \in Logins, NEW p \in Phases, Goto(Start(l), p),
           phase[Start(l)] # "ok",
           kept' \subseteq kept, expired' \subseteq kept', UNCHANGED <<polls, approved, stored>>
    PROVE LoginInv'
<1>1. /\ phase' \in [Jobs -> Phases]
      /\ \A i \in Jobs : i # Start(l) => phase'[i] = phase[i]
    BY GotoJob, JobType DEF LoginInv
<1>2. TypeOK'
    BY <1>1 DEF LoginInv, TypeOK
<1>3. \A m \in Logins, w \in Clients : phase'[<<m, w>>] = phase[<<m, w>>]
    BY <1>1, JobType
<1>4. \A m \in Logins : phase[Start(m)] = "ok" => phase'[Start(m)] = "ok"
    BY <1>1, JobType
<1>5. Started'
    BY <1>3, <1>4 DEF LoginInv, Started, TypeOK
<1>6. OneTook'
    BY <1>3 DEF LoginInv, OneTook
<1>7. Bought'
    <2>1. \A m \in Logins, v \in Clients :
             phase'[<<m, v>>] \in {"exchanging", "storing"} => approved[m] \in Accounts
        BY <1>3 DEF LoginInv, Bought
    <2>2. QED
        BY <2>1, <1>3, StaysBought DEF LoginInv
<1>8. SessionsBounded'
    BY FewerSessions DEF LoginInv
<1>9. QED
    BY <1>2, <1>5, <1>6, <1>7, <1>8 DEF LoginInv

\* A completion that has its session and goes on, or is refused one.
LEMMA CompletionGoes ==
    ASSUME LoginInv, NEW l \in Logins, NEW w \in Clients, NEW p \in Phases, Goto(<<l, w>>, p),
           phase[<<l, w>>] \notin {"none", "ok"}, p \in Used \cup {"refused"},
           p \in Used => phase[<<l, w>>] \in Used,
           p \in {"exchanging", "storing"} => approved[l] \in Accounts,
           kept' \subseteq kept, expired' \subseteq kept',
           polls' \in [Jobs -> Nat], UNCHANGED <<approved, stored>>
    PROVE LoginInv'
<1>1. /\ phase' \in [Jobs -> Phases]
      /\ phase'[<<l, w>>] = p
      /\ \A i \in Jobs : i # <<l, w>> => phase'[i] = phase[i]
    BY GotoJob, JobType DEF LoginInv
<1>2. TypeOK'
    BY <1>1 DEF LoginInv, TypeOK
<1>3. \A m \in Logins : phase'[Start(m)] = phase[Start(m)]
    BY <1>1, JobType
<1>4. \A m \in Logins, v \in Clients : <<m, v>> # <<l, w>> => phase'[<<m, v>>] = phase[<<m, v>>]
    BY <1>1, JobType
<1>5. \A m \in Logins, v \in Clients : phase'[<<m, v>>] \in Used => phase[<<m, v>>] \in Used
    BY <1>1, <1>4
<1>6. Started'
    <2>1. \A m \in Logins, v \in Clients :
             /\ phase'[<<m, v>>] # "none" => phase[<<m, v>>] # "none"
             /\ phase'[<<m, v>>] \in Used \cup {"none", "called", "refused"}
        BY <1>1, <1>4 DEF LoginInv, Started
    <2>2. QED
        BY <2>1, <1>3 DEF LoginInv, Started, TypeOK
<1>7. OneTook'
    BY <1>5 DEF LoginInv, OneTook
<1>8. Bought'
    <2>1. \A m \in Logins, v \in Clients :
             phase'[<<m, v>>] \in {"exchanging", "storing"} => approved[m] \in Accounts
        BY <1>1, <1>4 DEF LoginInv, Bought
    <2>2. \A m \in Logins, v \in Clients : phase[<<m, v>>] = "ok" => phase'[<<m, v>>] = "ok"
        BY <1>4
    <2>3. QED
        BY <2>1, <2>2, StaysBought DEF LoginInv
<1>9. SessionsBounded'
    BY FewerSessions DEF LoginInv
<1>10. QED
    BY <1>2, <1>6, <1>7, <1>8, <1>9 DEF LoginInv

-----------------------------------------------------------------------------
(* The steps. *)

\* The look at the limit and the issuer's answer.
LEMMA StepCheck == ASSUME LoginInv, NEW l \in Logins, CheckCapacity(l) PROVE LoginInv'
<1>1. PICK p \in {"failed", "asking"} : Goto(Start(l), p)
    BY DEF CheckCapacity
<1>2. p \in Phases
    BY DEF Phases
<1>3. kept' \subseteq kept /\ expired' \subseteq kept'
    BY DEF CheckCapacity, Live
<1>4. phase[Start(l)] # "ok" /\ UNCHANGED <<polls, approved, stored>>
    BY DEF CheckCapacity
<1>5. QED
    BY <1>1, <1>2, <1>3, <1>4, StartGoes

LEMMA StepIssue == ASSUME LoginInv, NEW l \in Logins, IssueCode(l) PROVE LoginInv'
<1>1. PICK p \in {"failed", "issued"} : Goto(Start(l), p)
    BY DEF IssueCode
<1>2. p \in Phases
    BY DEF Phases
<1>3. kept' \subseteq kept /\ expired' \subseteq kept'
    BY DEF IssueCode, sessions, LoginInv, TypeOK
<1>4. phase[Start(l)] # "ok" /\ UNCHANGED <<polls, approved, stored>>
    BY DEF IssueCode
<1>5. QED
    BY <1>1, <1>2, <1>3, <1>4, StartGoes

\* The put looks at the limit again, and the login had no completion before.
LEMMA StepPut == ASSUME LoginInv, NEW l \in Logins, Put(l) PROVE LoginInv'
<1>1. CASE Full(kept)
    <2>1. Goto(Start(l), "failed") /\ kept' \subseteq kept /\ expired' \subseteq kept'
        BY <1>1 DEF Put, LoginInv, TypeOK
    <2>2. phase[Start(l)] # "ok" /\ UNCHANGED <<polls, approved, stored>> /\ "failed" \in Phases
        BY DEF Put, Phases
    <2>3. QED
        BY <2>1, <2>2, StartGoes
<1>2. CASE ~Full(kept)
    <2>1. /\ kept' = kept \cup {l} /\ Goto(Start(l), "ok") /\ phase[Start(l)] = "issued"
          /\ UNCHANGED <<expired, polls, approved, stored>>
        BY <1>2 DEF Put
    <2>2. /\ phase' \in [Jobs -> Phases] /\ phase'[Start(l)] = "ok"
          /\ \A i \in Jobs : i # Start(l) => phase'[i] = phase[i]
        BY <2>1, GotoJob, JobType DEF LoginInv, Phases
    <2>3. TypeOK'
        BY <2>1, <2>2 DEF LoginInv, TypeOK
    <2>4. \A m \in Logins, v \in Clients : phase'[<<m, v>>] = phase[<<m, v>>]
        BY <2>2, JobType
    <2>5. \A m \in Logins : phase[Start(m)] = "ok" => phase'[Start(m)] = "ok"
        BY <2>2, JobType
    <2>6. Started'
        BY <2>1, <2>2, <2>4, <2>5 DEF LoginInv, Started, TypeOK
    <2>7. \A v \in Clients : phase[<<l, v>>] \notin Used
        BY <2>1 DEF LoginInv, Started, Used
    <2>8. OneTook'
        BY <2>1, <2>4, <2>7 DEF LoginInv, OneTook
    <2>9. Bought'
        <3>1. \A m \in Logins, v \in Clients :
                 phase'[<<m, v>>] \in {"exchanging", "storing"} => approved[m] \in Accounts
            BY <2>4 DEF LoginInv, Bought
        <3>2. QED
            BY <3>1, <2>1, <2>4, StaysBought DEF LoginInv
    <2>10. SessionsBounded'
        <3>1. IsFiniteSet(kept)
            BY SessionsAssumption, FS_Subset DEF LoginInv, TypeOK
        <3>2. Cardinality(kept) \in Nat /\ Cardinality(kept) < MaxSessions
            BY <3>1, <1>2, FS_CardinalityType, SessionsAssumption DEF Full
        <3>3. Cardinality(kept \cup {l}) \in {Cardinality(kept), Cardinality(kept) + 1}
            BY <3>1, FS_AddElement
        <3>4. Cardinality(kept \cup {l}) <= MaxSessions
            BY <3>2, <3>3, SessionsAssumption
        <3>5. QED
            BY <3>4, <2>1 DEF SessionsBounded
    <2>11. QED
        BY <2>3, <2>6, <2>8, <2>9, <2>10 DEF LoginInv
<1>3. QED
    BY <1>1, <1>2

\* The session is there for one completion.
LEMMA StepTake == ASSUME LoginInv, NEW l \in Logins, NEW w \in Clients, Take(l, w) PROVE LoginInv'
<1>1. /\ phase[<<l, w>>] = "called" /\ kept' \subseteq kept /\ expired' \subseteq kept' /\ l \notin kept'
      /\ UNCHANGED <<polls, approved, stored>> /\ polls' \in [Jobs -> Nat]
    BY DEF Take, TakeOut, Live, LoginInv, TypeOK
<1>2. CASE l \notin Live
    <2>1. Goto(<<l, w>>, "refused") /\ "refused" \in Phases /\ "refused" \notin Used
        BY <1>2 DEF Take, Phases, Used
    <2>2. QED
        BY <1>1, <2>1, CompletionGoes
<1>3. CASE l \in Live
    <2>1. Goto(<<l, w>>, "polling") /\ l \in kept /\ "polling" \in Phases
        BY <1>3 DEF Take, Live, Phases
    <2>2. /\ phase' \in [Jobs -> Phases] /\ phase'[<<l, w>>] = "polling"
          /\ \A i \in Jobs : i # <<l, w>> => phase'[i] = phase[i]
        BY <2>1, GotoJob, JobType DEF LoginInv
    <2>3. TypeOK'
        BY <1>1, <2>2 DEF LoginInv, TypeOK
    <2>4. \A m \in Logins : phase'[Start(m)] = phase[Start(m)]
        BY <2>2, JobType
    <2>5. \A m \in Logins, v \in Clients : <<m, v>> # <<l, w>> => phase'[<<m, v>>] = phase[<<m, v>>]
        BY <2>2, JobType
    <2>6. Started'
        <3>1. \A m \in Logins, v \in Clients :
                 /\ phase'[<<m, v>>] # "none" => phase[Start(m)] = "ok"
                 /\ phase'[<<m, v>>] \in Used \cup {"none", "called", "refused"}
            BY <1>1, <2>2, <2>5 DEF LoginInv, Started, Used
        <3>2. QED
            BY <3>1, <1>1, <2>4, StaysStarted DEF LoginInv
    <2>7. \A v \in Clients : phase[<<l, v>>] \notin Used
        BY <2>1 DEF LoginInv, OneTook
    <2>8. OneTook'
        BY <1>1, <2>5, <2>7 DEF LoginInv, OneTook
    <2>9. Bought'
        <3>1. \A m \in Logins, v \in Clients :
                 phase'[<<m, v>>] \in {"exchanging", "storing"} => approved[m] \in Accounts
            BY <2>2, <2>5 DEF LoginInv, Bought
        <3>2. \A m \in Logins, v \in Clients : phase[<<m, v>>] = "ok" => phase'[<<m, v>>] = "ok"
            BY <1>1, <2>5
        <3>3. QED
            BY <3>1, <3>2, <1>1, StaysBought DEF LoginInv
    <2>10. SessionsBounded'
        BY <1>1, FewerSessions DEF LoginInv
    <2>11. QED
        BY <2>3, <2>6, <2>8, <2>9, <2>10 DEF LoginInv
<1>4. QED
    BY <1>2, <1>3

\* Polling ends with an approved code, or the login fails.
LEMMA StepPoll == ASSUME LoginInv, NEW l \in Logins, NEW w \in Clients, Poll(l, w) PROVE LoginInv'
<1>1. /\ phase[<<l, w>>] = "polling" /\ kept' \subseteq kept /\ expired' \subseteq kept'
      /\ UNCHANGED <<approved, stored>> /\ phase[<<l, w>>] \in Used
    BY DEF Poll, sessions, LoginInv, TypeOK, Used
<1>2. PICK n \in Nat, p \in {"waiting", "exchanging", "failed"} :
         /\ polls' = [polls EXCEPT ![<<l, w>>] = n] /\ Goto(<<l, w>>, p)
         /\ p = "exchanging" => approved[l] # None
    <2>1. polls[<<l, w>>] \in Nat
        BY JobType DEF LoginInv, TypeOK
    <2>2. polls[<<l, w>>] + 1 \in Nat /\ 0 \in Nat
        BY <2>1
    <2>3. QED
        BY <2>2 DEF Poll, Polled
<1>3. p \in Phases /\ p \in Used /\ p # "storing"
    BY DEF Phases, Used
<1>4. polls' \in [Jobs -> Nat]
    BY <1>2 DEF LoginInv, TypeOK
<1>5. p \in {"exchanging", "storing"} => approved[l] \in Accounts
    BY <1>2, <1>3 DEF LoginInv, TypeOK
<1>6. QED
    BY <1>1, <1>2, <1>3, <1>4, <1>5, CompletionGoes

LEMMA StepWait == ASSUME LoginInv, NEW l \in Logins, NEW w \in Clients, Wait(l, w) PROVE LoginInv'
<1>1. /\ phase[<<l, w>>] = "waiting" /\ kept' \subseteq kept /\ expired' \subseteq kept'
      /\ UNCHANGED <<approved, stored>> /\ phase[<<l, w>>] \in Used
    BY DEF Wait, sessions, LoginInv, TypeOK, Used
<1>2. PICK p \in {"polling", "failed"} : Goto(<<l, w>>, p)
    BY DEF Wait, Polled
<1>3. p \in Phases /\ p \in Used /\ p \notin {"exchanging", "storing"}
    BY DEF Phases, Used
<1>4. polls' \in [Jobs -> Nat]
    BY DEF Wait, Polled, LoginInv, TypeOK
<1>5. QED
    BY <1>1, <1>2, <1>3, <1>4, CompletionGoes

LEMMA StepExchange == ASSUME LoginInv, NEW l \in Logins, NEW w \in Clients, Exchange(l, w) PROVE LoginInv'
<1>1. /\ phase[<<l, w>>] = "exchanging" /\ kept' \subseteq kept /\ expired' \subseteq kept'
      /\ UNCHANGED <<approved, stored>> /\ phase[<<l, w>>] \in Used /\ polls' \in [Jobs -> Nat]
    BY DEF Exchange, sessions, LoginInv, TypeOK, Used
<1>2. PICK p \in {"storing", "failed"} : Goto(<<l, w>>, p)
    BY DEF Exchange
<1>3. p \in Phases /\ p \in Used
    BY DEF Phases, Used
<1>4. approved[l] \in Accounts
    BY <1>1 DEF LoginInv, Bought
<1>5. QED
    BY <1>1, <1>2, <1>3, <1>4, CompletionGoes

\* The tokens go to the account that was approved.
LEMMA StepStore == ASSUME LoginInv, NEW l \in Logins, NEW w \in Clients, Store(l, w) PROVE LoginInv'
<1>1. /\ phase[<<l, w>>] = "storing" /\ kept' \subseteq kept /\ expired' \subseteq kept'
      /\ UNCHANGED <<kept, polls, approved>> /\ phase[<<l, w>>] \in Used /\ polls' \in [Jobs -> Nat]
    BY DEF Store, sessions, LoginInv, TypeOK, Used
<1>2. CASE Goto(<<l, w>>, "failed") /\ UNCHANGED stored
    <2>1. "failed" \in Phases /\ "failed" \in Used
        BY DEF Phases, Used
    <2>2. QED
        BY <1>1, <1>2, <2>1, CompletionGoes
<1>3. CASE Upsert(approved[l], l) /\ Goto(<<l, w>>, "ok")
    <2>1. /\ phase' \in [Jobs -> Phases] /\ phase'[<<l, w>>] = "ok"
          /\ \A i \in Jobs : i # <<l, w>> => phase'[i] = phase[i]
        BY <1>3, GotoJob, JobType DEF LoginInv, Phases
    <2>2. /\ approved[l] \in Accounts
          /\ stored' = [stored EXCEPT ![approved[l]] = l]
        BY <1>1, <1>3 DEF LoginInv, Bought, Upsert
    <2>3. TypeOK'
        BY <1>1, <2>1, <2>2 DEF LoginInv, TypeOK
    <2>4. \A m \in Logins : phase'[Start(m)] = phase[Start(m)]
        BY <2>1, JobType
    <2>5. \A m \in Logins, v \in Clients : <<m, v>> # <<l, w>> => phase'[<<m, v>>] = phase[<<m, v>>]
        BY <2>1, JobType
    <2>6. Started'
        <3>1. \A m \in Logins, v \in Clients :
                 /\ phase'[<<m, v>>] # "none" => phase[Start(m)] = "ok"
                 /\ phase'[<<m, v>>] \in Used \cup {"none", "called", "refused"}
            BY <1>1, <2>1, <2>5 DEF LoginInv, Started, Used
        <3>2. QED
            BY <3>1, <1>1, <2>4, StaysStarted DEF LoginInv
    <2>7. \A m \in Logins, v \in Clients : phase'[<<m, v>>] \in Used => phase[<<m, v>>] \in Used
        BY <1>1, <2>5
    <2>8. OneTook'
        BY <1>1, <2>7 DEF LoginInv, OneTook
    <2>9. Bought'
        <3>1. \A m \in Logins, v \in Clients :
                 phase'[<<m, v>>] \in {"exchanging", "storing"} => approved'[m] \in Accounts
            BY <1>1, <2>1, <2>5 DEF LoginInv, Bought
        <3>2. ASSUME NEW a \in Accounts, stored'[a] # None
              PROVE  /\ approved'[stored'[a]] = a
                     /\ \E v \in Clients : phase'[<<stored'[a], v>>] = "ok"
            <4>1. CASE a = approved[l]
                <5>1. stored'[a] = l
                    BY <4>1, <2>2 DEF LoginInv, TypeOK
                <5>2. QED
                    BY <4>1, <5>1, <1>1, <2>1
            <4>2. CASE a # approved[l]
                <5>1. stored'[a] = stored[a]
                    BY <4>2, <2>2 DEF LoginInv, TypeOK
                <5>2. stored[a] \in Logins
                    BY <3>2, <5>1 DEF LoginInv, TypeOK
                <5>3. PICK v \in Clients : approved[stored[a]] = a /\ phase[<<stored[a], v>>] = "ok"
                    BY <3>2, <5>1 DEF LoginInv, Bought
                <5>4. phase'[<<stored[a], v>>] = "ok"
                    BY <5>2, <5>3, <2>1, <2>5
                <5>5. QED
                    BY <5>1, <5>3, <5>4, <1>1
            <4>3. QED
                BY <4>1, <4>2
        <3>3. QED
            BY <3>1, <3>2 DEF Bought
    <2>10. SessionsBounded'
        BY <1>1, FewerSessions DEF LoginInv
    <2>11. QED
        BY <2>3, <2>6, <2>8, <2>9, <2>10 DEF LoginInv
<1>4. QED
    BY <1>2, <1>3 DEF Store

\* Calls of clients.
LEMMA StepCallStart == ASSUME LoginInv, NEW l \in Logins, CallStart(l) PROVE LoginInv'
<1>1. /\ Goto(Start(l), "called") /\ "called" \in Phases /\ phase[Start(l)] # "ok"
      /\ kept' \subseteq kept /\ expired' \subseteq kept' /\ UNCHANGED <<polls, approved, stored>>
    BY DEF CallStart, Call, sessions, LoginInv, TypeOK, Phases
<1>2. QED
    BY <1>1, StartGoes

LEMMA StepCallComplete ==
    ASSUME LoginInv, NEW l \in Logins, NEW w \in Clients, CallComplete(l, w) PROVE LoginInv'
<1>1. /\ Goto(<<l, w>>, "called") /\ phase[<<l, w>>] = "none" /\ phase[Start(l)] = "ok"
      /\ UNCHANGED <<kept, expired, polls, approved, stored>>
    BY DEF CallComplete, Call, sessions
<1>2. /\ phase' \in [Jobs -> Phases] /\ phase'[<<l, w>>] = "called"
      /\ \A i \in Jobs : i # <<l, w>> => phase'[i] = phase[i]
    BY <1>1, GotoJob, JobType DEF LoginInv, Phases
<1>3. TypeOK'
    BY <1>1, <1>2 DEF LoginInv, TypeOK
<1>4. \A m \in Logins : phase'[Start(m)] = phase[Start(m)]
    BY <1>2, JobType
<1>5. \A m \in Logins, v \in Clients : <<m, v>> # <<l, w>> => phase'[<<m, v>>] = phase[<<m, v>>]
    BY <1>2, JobType
<1>6. Started'
    <2>1. \A m \in Logins, v \in Clients :
             /\ phase'[<<m, v>>] # "none" => phase[Start(m)] = "ok"
             /\ phase'[<<m, v>>] \in Used \cup {"none", "called", "refused"}
        BY <1>1, <1>2, <1>5 DEF LoginInv, Started, Used
    <2>2. QED
        BY <2>1, <1>1, <1>4, StaysStarted DEF LoginInv
<1>7. \A m \in Logins, v \in Clients : phase'[<<m, v>>] \in Used => phase[<<m, v>>] \in Used
    BY <1>2, <1>5 DEF Used
<1>8. OneTook'
    BY <1>1, <1>7 DEF LoginInv, OneTook
<1>9. Bought'
    <2>1. \A m \in Logins, v \in Clients :
             phase'[<<m, v>>] \in {"exchanging", "storing"} => approved[m] \in Accounts
        BY <1>2, <1>5 DEF LoginInv, Bought
    <2>2. \A m \in Logins, v \in Clients : phase[<<m, v>>] = "ok" => phase'[<<m, v>>] = "ok"
        BY <1>1, <1>5
    <2>3. QED
        BY <2>1, <2>2, <1>1, StaysBought DEF LoginInv
<1>10. SessionsBounded'
    BY <1>1, FewerSessions DEF LoginInv
<1>11. QED
    BY <1>3, <1>6, <1>8, <1>9, <1>10 DEF LoginInv

\* The user approves a code once.
LEMMA StepApprove == ASSUME LoginInv, NEW l \in Logins, NEW a \in Accounts, Approve(l, a) PROVE LoginInv'
<1>1. /\ approved[l] = None /\ approved' = [approved EXCEPT ![l] = a]
      /\ UNCHANGED <<kept, expired, phase, polls, stored>>
    BY DEF Approve, sessions
<1>2. TypeOK'
    BY <1>1 DEF LoginInv, TypeOK
<1>3. Started' /\ OneTook' /\ SessionsBounded'
    BY <1>1 DEF LoginInv, Started, OneTook, SessionsBounded
<1>4. \A m \in Logins : approved[m] # None => approved'[m] = approved[m]
    BY <1>1 DEF LoginInv, TypeOK
<1>5. \A m \in Logins, v \in Clients :
         phase'[<<m, v>>] \in {"exchanging", "storing"} => approved'[m] \in Accounts
    BY <1>1, <1>4, NamesAssumption DEF LoginInv, Bought
<1>6. ASSUME NEW b \in Accounts, stored'[b] # None
      PROVE  /\ approved'[stored'[b]] = b
             /\ \E w \in Clients : phase'[<<stored'[b], w>>] = "ok"
    <2>1. stored'[b] = stored[b] /\ stored[b] \in Logins
        BY <1>6, <1>1 DEF LoginInv, TypeOK
    <2>2. approved[stored[b]] = b /\ \E w \in Clients : phase[<<stored[b], w>>] = "ok"
        BY <1>6, <2>1 DEF LoginInv, Bought
    <2>3. approved'[stored[b]] = b
        BY <2>1, <2>2, <1>4, NamesAssumption
    <2>4. QED
        BY <2>1, <2>2, <2>3, <1>1
<1>7. Bought'
    BY <1>5, <1>6 DEF Bought
<1>8. QED
    BY <1>2, <1>3, <1>7 DEF LoginInv

LEMMA StepExpire == ASSUME LoginInv, NEW l \in Logins, Expire(l) PROVE LoginInv'
<1>1. l \in kept /\ expired' = expired \cup {l} /\ UNCHANGED <<kept, phase, polls, approved, stored>>
    BY DEF Expire, Live
<1>2. TypeOK'
    BY <1>1 DEF LoginInv, TypeOK
<1>3. Started' /\ OneTook' /\ SessionsBounded' /\ Bought'
    BY <1>1 DEF LoginInv, Started, OneTook, SessionsBounded, Bought
<1>4. QED
    BY <1>2, <1>3 DEF LoginInv

\* A restart ends all jobs, and takes no used handle back.
LEMMA StepRelaunch == ASSUME LoginInv, Restart PROVE LoginInv'
<1>1. /\ kept' = {} /\ expired' = {} /\ polls' = [j \in Jobs |-> 0] /\ UNCHANGED <<approved, stored>>
      /\ phase' = [j \in Jobs |-> IF phase[j] = "called" THEN "refused"
                                  ELSE IF Running(j) THEN "failed" ELSE phase[j]]
    BY DEF Restart
<1>2. \A j \in Jobs :
         phase'[j] = IF phase[j] = "called" THEN "refused"
                     ELSE IF Running(j) THEN "failed" ELSE phase[j]
    BY <1>1
<1>3. \A j \in Jobs :
         /\ phase[j] \in Idle => phase'[j] = phase[j]
         /\ phase[j] \notin Idle => phase'[j] \in {"refused", "failed"}
    BY <1>2 DEF Running, Idle, Ended
<1>4. phase' \in [Jobs -> Phases]
    <2>1. \A j \in Jobs : phase'[j] \in Phases
        BY <1>3 DEF LoginInv, TypeOK, Phases
    <2>2. QED
        BY <1>1, <2>1
<1>5. TypeOK'
    BY <1>1, <1>4 DEF LoginInv, TypeOK
<1>6. \A m \in Logins, v \in Clients :
         /\ phase'[<<m, v>>] \in Used => phase[<<m, v>>] \in Used
         /\ phase'[<<m, v>>] \in Used \cup {"none", "called", "refused"}
         /\ phase'[<<m, v>>] # "none" => phase[<<m, v>>] # "none"
         /\ phase[<<m, v>>] = "ok" => phase'[<<m, v>>] = "ok"
         /\ phase'[<<m, v>>] \notin {"exchanging", "storing"}
    <2>1. SUFFICES ASSUME NEW m \in Logins, NEW v \in Clients
                   PROVE  /\ phase'[<<m, v>>] \in Used => phase[<<m, v>>] \in Used
                          /\ phase'[<<m, v>>] \in Used \cup {"none", "called", "refused"}
                          /\ phase'[<<m, v>>] # "none" => phase[<<m, v>>] # "none"
                          /\ phase[<<m, v>>] = "ok" => phase'[<<m, v>>] = "ok"
                          /\ phase'[<<m, v>>] \notin {"exchanging", "storing"}
        OBVIOUS
    <2>2. phase[<<m, v>>] \in Used \cup {"none", "called", "refused"} /\ <<m, v>> \in Jobs
        BY JobType DEF LoginInv, Started
    <2>3. CASE phase[<<m, v>>] \in Idle
        BY <2>2, <2>3, <1>3 DEF Idle, Ended, Used
    <2>4. CASE phase[<<m, v>>] = "called"
        BY <2>2, <2>4, <1>2 DEF Used
    <2>5. CASE phase[<<m, v>>] \notin Idle \cup {"called"}
        BY <2>2, <2>5, <1>3 DEF Idle, Ended, Used
    <2>6. QED
        BY <2>3, <2>4, <2>5
<1>7. \A m \in Logins : phase[Start(m)] = "ok" => phase'[Start(m)] = "ok"
    BY <1>3, JobType DEF Idle, Ended
<1>8. Started'
    BY <1>1, <1>6, <1>7 DEF LoginInv, Started
<1>9. OneTook'
    BY <1>1, <1>6 DEF LoginInv, OneTook
<1>10. Bought'
    BY <1>1, <1>6, StaysBought DEF LoginInv
<1>11. SessionsBounded'
    BY <1>1, FewerSessions DEF LoginInv
<1>12. QED
    BY <1>5, <1>8, <1>9, <1>10, <1>11 DEF LoginInv

LEMMA LoginNext == LoginInv /\ [Next]_vars => LoginInv'
<1> SUFFICES ASSUME LoginInv, [Next]_vars PROVE LoginInv'
    OBVIOUS
<1>1. CASE UNCHANGED vars
    BY <1>1 DEF vars, sessions, LoginInv, TypeOK, Started, OneTook, Bought, SessionsBounded
<1>2. ASSUME NEW l \in Logins, StartStep(l) PROVE LoginInv'
    BY <1>2, StepCheck, StepIssue, StepPut DEF StartStep
<1>3. ASSUME NEW l \in Logins, NEW w \in Clients, CompleteStep(l, w) PROVE LoginInv'
    BY <1>3, StepTake, StepPoll, StepWait, StepExchange, StepStore DEF CompleteStep
<1>4. QED
    BY <1>1, <1>2, <1>3, StepExpire, StepApprove, StepRelaunch, StepCallStart, StepCallComplete
       DEF Next, Daemon

-----------------------------------------------------------------------------
LEMMA LoginAlways == Spec => []LoginInv
<1>1. QED
    BY LoginInit, LoginNext, PTL DEF Spec

\* Every variable of the device logins has its type, for all logins, clients, accounts
\* and limits (OAuthDeviceLoginSessions and the jobs that use it).
THEOREM TypeCorrect == Spec => []TypeOK
<1>1. LoginInv => TypeOK
    BY DEF LoginInv
<1>2. QED
    BY <1>1, LoginAlways, PTL

\* The daemon never keeps more sessions than the limit, however many starts pass the
\* first look at it together (OAuthDeviceLoginSessions.put).
THEOREM LimitKept == Spec => []SessionsBounded
<1>1. LoginInv => SessionsBounded
    BY DEF LoginInv
<1>2. QED
    BY <1>1, LoginAlways, PTL

\* A handle is used by one completion at most, and an account holds the tokens of a login
\* only if the user approved it for that account (OAuthDeviceLoginSessions.take).
THEOREM HandleUsedOnce == Spec => []SingleUse
<1>1. LoginInv => SingleUse
    BY DEF LoginInv, OneTook, Bought, SingleUse
<1>2. QED
    BY <1>1, LoginAlways, PTL

-----------------------------------------------------------------------------
(* The console. *)

\* To the daemon the console is one of its clients.
LEMMA ConsoleStep == ASSUME [ConsoleNext]_allVars PROVE [Next]_vars
<1>1. CASE UNCHANGED allVars
    BY <1>1 DEF allVars
<1>2. CASE Daemon /\ UNCHANGED consoleVars
    BY <1>2 DEF Next
<1>3. ASSUME NEW l \in Logins, Press(l) PROVE [Next]_vars
    BY <1>3 DEF Press, Next
<1>4. ASSUME NEW l \in Logins, HandleStarted(l) PROVE [Next]_vars
    <2>1. CASE CallComplete(l, Console)
        BY <2>1, ConsoleAssumption DEF Next
    <2>2. CASE UNCHANGED vars
        BY <2>2
    <2>3. QED
        BY <1>4, <2>1, <2>2 DEF HandleStarted
<1>5. ASSUME NEW l \in Logins, HandleCompleted(l) PROVE [Next]_vars
    BY <1>5 DEF HandleCompleted
<1>6. ASSUME NEW j \in Calls, Report(j) PROVE [Next]_vars
    BY <1>6 DEF Report
<1>7. CASE Escape
    BY <1>7 DEF Escape
<1>8. ASSUME NEW l \in Logins, NEW w \in Clients, CallComplete(l, w) PROVE [Next]_vars
    BY <1>8 DEF Next
<1>9. QED
    BY <1>1, <1>2, <1>3, <1>4, <1>5, <1>6, <1>7, <1>8 DEF ConsoleNext

\* What the daemon guarantees to all clients it guarantees to the console
\* (startOAuthLoginCmd and completeOAuthLoginCmd call it like any other).
THEOREM ConsoleIsClient == ConsoleSpec => Spec
<1>1. ConsoleInit => Init
    BY DEF ConsoleInit
<1>2. QED
    BY <1>1, ConsoleStep, PTL DEF ConsoleSpec, Spec

\* A job that was called is not forgotten.
LEMMA CalledForGood ==
    ASSUME LoginInv, [Next]_vars, NEW j \in Jobs, phase[j] # "none"
    PROVE phase'[j] # "none"
<1>1. ASSUME NEW i \in Jobs, NEW p \in Phases, p # "none", Goto(i, p) PROVE phase'[j] # "none"
    <2>1. phase'[i] = p /\ (i # j => phase'[j] = phase[j])
        BY <1>1, GotoJob DEF LoginInv
    <2>2. QED
        BY <2>1, <1>1
<1>2. Ended \subseteq Phases /\ Used \subseteq Phases
    BY DEF Ended, Used, Phases
<1>3. ASSUME NEW l \in Logins, StartStep(l) PROVE phase'[j] # "none"
    <2>1. \E p \in {"failed", "asking", "issued", "ok"} : Goto(Start(l), p)
        BY <1>3 DEF StartStep, CheckCapacity, IssueCode, Put
    <2>2. QED
        BY <2>1, <1>1, JobType DEF Phases
<1>4. ASSUME NEW l \in Logins, NEW w \in Clients, CompleteStep(l, w) PROVE phase'[j] # "none"
    <2>1. \E p \in Used \cup {"refused"} : Goto(<<l, w>>, p)
        BY <1>4 DEF CompleteStep, Take, Poll, Wait, Exchange, Store, Polled, Used
    <2>2. \A p \in Used \cup {"refused"} : p \in Phases /\ p # "none"
        BY DEF Used, Phases
    <2>3. QED
        BY <2>1, <2>2, <1>1, JobType
<1>5. ASSUME NEW i \in Jobs, Call(i) PROVE phase'[j] # "none"
    BY <1>1, <1>5 DEF Call, Phases
<1>6. CASE Restart
    <2>1. phase'[j] = IF phase[j] = "called" THEN "refused"
                      ELSE IF Running(j) THEN "failed" ELSE phase[j]
        BY <1>6 DEF Restart
    <2>2. QED
        BY <2>1
<1>7. ASSUME UNCHANGED phase PROVE phase'[j] # "none"
    BY <1>7
<1>8. CASE UNCHANGED vars
    BY <1>8 DEF vars
<1>9. ASSUME NEW l \in Logins, Expire(l) PROVE phase'[j] # "none"
    BY <1>9 DEF Expire
<1>10. ASSUME NEW l \in Logins, NEW a \in Accounts, Approve(l, a) PROVE phase'[j] # "none"
    BY <1>10 DEF Approve
<1>11. ASSUME NEW l \in Logins, CallStart(l) PROVE phase'[j] # "none"
    BY <1>11, <1>5, JobType DEF CallStart
<1>12. ASSUME NEW l \in Logins, NEW w \in Clients, CallComplete(l, w) PROVE phase'[j] # "none"
    BY <1>12, <1>5, JobType DEF CallComplete
<1>13. QED
    BY <1>3, <1>4, <1>6, <1>8, <1>9, <1>10, <1>11, <1>12 DEF Next, Daemon

\* A call of the console reports only once it was made.
Heard ==
    /\ inbox \in [Calls -> {"none", "ok", "error", "handled"}]
    /\ challenge \in Logins \cup {None}
    /\ \A j \in Calls : inbox[j] # "none" => phase[j] # "none"

ConsoleInv == LoginInv /\ Heard /\ ShownCodeIsAwaited

LEMMA CallType ==
    /\ Calls \subseteq Jobs
    /\ \A l \in Logins : <<l, Console>> \in Calls /\ Start(l) \in Calls /\ Start(l) # <<l, Console>>
BY ConsoleAssumption, NamesAssumption DEF Calls, Jobs, Start

\* While the screen shows what it showed, or nothing, and no completion is handled.
LEMMA StaysShown ==
    ASSUME ConsoleInv, [Next]_vars, Heard', challenge' \in {challenge, None},
           \A l \in Logins : inbox'[<<l, Console>>] = "handled" =>
                              inbox[<<l, Console>>] = "handled" \/ challenge' = None
    PROVE ShownCodeIsAwaited'
<1>1. SUFFICES ASSUME challenge' # None
               PROVE  /\ phase'[<<challenge', Console>>] # "none"
                      /\ inbox'[<<challenge', Console>>] # "handled"
    BY DEF ShownCodeIsAwaited
<1>2. challenge' = challenge /\ challenge \in Logins
    BY <1>1 DEF ConsoleInv, Heard
<1>3. phase[<<challenge, Console>>] # "none" /\ inbox[<<challenge, Console>>] # "handled"
    BY <1>1, <1>2 DEF ConsoleInv, ShownCodeIsAwaited
<1>4. phase'[<<challenge, Console>>] # "none"
    BY <1>2, <1>3, CalledForGood, CallType DEF ConsoleInv
<1>5. QED
    BY <1>1, <1>2, <1>3, <1>4

LEMMA ConsoleNextInv == ASSUME ConsoleInv, [ConsoleNext]_allVars PROVE ConsoleInv'
<1>1. [Next]_vars /\ LoginInv'
    BY ConsoleStep, LoginNext DEF ConsoleInv
<1>2. \A j \in Calls : phase[j] # "none" => phase'[j] # "none"
    BY <1>1, CalledForGood, CallType DEF ConsoleInv
<1>3. ASSUME UNCHANGED <<inbox, challenge>> PROVE ConsoleInv'
    <2>1. Heard'
        BY <1>2, <1>3 DEF ConsoleInv, Heard
    <2>2. QED
        BY <1>1, <1>3, <2>1, StaysShown DEF ConsoleInv
<1>4. ASSUME NEW l \in Logins, HandleStarted(l) PROVE ConsoleInv'
    <2>1. inbox' = [inbox EXCEPT ![Start(l)] = "handled"] /\ inbox[Start(l)] # "none"
        BY <1>4 DEF HandleStarted, Handled
    <2>2. challenge' \in {l, None}
        BY <1>4 DEF HandleStarted
    <2>3. Heard'
        BY <1>2, <2>1, <2>2 DEF ConsoleInv, Heard
    <2>4. inbox'[<<l, Console>>] = inbox[<<l, Console>>]
        BY <2>1, CallType DEF ConsoleInv, Heard
    <2>5. CASE challenge' = None
        BY <1>1, <2>3, <2>5 DEF ConsoleInv, ShownCodeIsAwaited
    <2>6. CASE challenge' # None
        <3>1. challenge' = l /\ CallComplete(l, Console)
            BY <1>4, <2>6 DEF HandleStarted
        <3>2. phase[<<l, Console>>] = "none" /\ Goto(<<l, Console>>, "called")
            BY <3>1 DEF CallComplete, Call
        <3>3. phase'[<<l, Console>>] = "called"
            BY <3>2, CallType, GotoJob DEF ConsoleInv, LoginInv, Phases
        <3>4. inbox[<<l, Console>>] = "none"
            BY <3>2, CallType DEF ConsoleInv, Heard
        <3>5. QED
            BY <1>1, <2>3, <2>4, <3>1, <3>3, <3>4 DEF ConsoleInv, ShownCodeIsAwaited
    <2>7. QED
        BY <2>5, <2>6
<1>5. ASSUME NEW l \in Logins, HandleCompleted(l) PROVE ConsoleInv'
    <2>1. /\ inbox' = [inbox EXCEPT ![<<l, Console>>] = "handled"] /\ inbox[<<l, Console>>] # "none"
          /\ challenge' = None
        BY <1>5 DEF HandleCompleted, Handled
    <2>2. Heard'
        BY <1>2, <2>1 DEF ConsoleInv, Heard
    <2>3. QED
        BY <1>1, <2>1, <2>2 DEF ConsoleInv, ShownCodeIsAwaited
<1>6. ASSUME NEW j \in Calls, Report(j) PROVE ConsoleInv'
    <2>1. PICK m \in {"ok", "error"} : inbox' = [inbox EXCEPT ![j] = m]
        BY <1>6 DEF Report
    <2>2. phase[j] # "none" /\ challenge' = challenge
        BY <1>6 DEF Report, Ended, screen
    <2>3. Heard'
        BY <1>2, <2>1, <2>2 DEF ConsoleInv, Heard
    <2>4. \A l \in Logins : inbox'[<<l, Console>>] = "handled" => inbox[<<l, Console>>] = "handled"
        BY <2>1, CallType DEF ConsoleInv, Heard
    <2>5. QED
        BY <1>1, <2>2, <2>3, <2>4, StaysShown DEF ConsoleInv
<1>7. CASE Escape
    <2>1. inbox' = inbox /\ challenge' = None
        BY <1>7 DEF Escape
    <2>2. Heard'
        BY <1>2, <2>1 DEF ConsoleInv, Heard
    <2>3. QED
        BY <1>1, <2>1, <2>2 DEF ConsoleInv, ShownCodeIsAwaited
<1>8. ASSUME NEW l \in Logins, Press(l) PROVE ConsoleInv'
    BY <1>3, <1>8 DEF Press
<1>9. ASSUME UNCHANGED consoleVars PROVE ConsoleInv'
    BY <1>3, <1>9 DEF consoleVars, screen
<1>10. CASE UNCHANGED allVars
    BY <1>9, <1>10 DEF allVars
<1>11. QED
    BY <1>4, <1>5, <1>6, <1>7, <1>8, <1>9, <1>10 DEF ConsoleNext

\* Every code on the screen is one that a completion was called for and has not been heard
\* of, for every number of logins (startOAuthLoginCmd, completeOAuthLoginCmd and the
\* messages they send).
THEOREM ShownAwaited == ConsoleSpec => []ShownCodeIsAwaited
<1>1. ConsoleInit => ConsoleInv
    <2>1. SUFFICES ASSUME ConsoleInit PROVE ConsoleInv
        OBVIOUS
    <2>2. LoginInv
        BY <2>1, LoginInit DEF ConsoleInit
    <2>3. Heard /\ ShownCodeIsAwaited
        BY <2>1, CallType DEF ConsoleInit, Heard, ShownCodeIsAwaited
    <2>4. QED
        BY <2>2, <2>3 DEF ConsoleInv
<1>2. ConsoleInv => ShownCodeIsAwaited
    BY DEF ConsoleInv
<1>3. QED
    BY <1>1, <1>2, ConsoleNextInv, PTL DEF ConsoleSpec
-----------------------------------------------------------------------------
(* The keep-alive scheduler *)

Busy == {"listing", "pinging", "reading usage"}

PingTyped ==
    /\ minute \in 0..PingTime /\ restarts \in Nat
    /\ at \in {"starting", "resting", "resolving"} \cup Busy
    /\ bearers \subseteq PingAccounts
    /\ at \in Busy => account \in PingAccounts
    /\ completed \subseteq Ping!Slots \X PingAccounts
    /\ pings \in [Ping!Slots \X PingAccounts -> Nat]

\* The clock has come to the slot of the run under way, and of all that is done.
Come(slot) == \E t \in 0..minute : Clock[t] = slot
InSlot ==
    /\ at \notin {"starting", "resting"} => run \in Ping!Slots /\ Come(run)
    /\ \A k \in completed : Come(k[1])

\* What is done was pinged, once by this process; an account on its way to its ping was not.
Counted ==
    /\ \A s \in Ping!Slots, a \in PingAccounts :
         IF <<s, a>> \in completed THEN pings[<<s, a>>] > 0 /\ pings[<<s, a>>] <= 1 + restarts
                                   ELSE pings[<<s, a>>] <= restarts
    /\ at \in {"listing", "pinging"} => <<run, account>> \notin completed

PingInv == PingTyped /\ InSlot /\ Counted

LEMMA PingInit == ASSUME Ping!Init PROVE PingInv
<1>1. PingTyped
    BY PingConstants DEF Ping!KeepaliveAssumption, Ping!Init, PingTyped, Busy
<1>2. InSlot
    BY DEF Ping!Init, InSlot
<1>3. Counted
    BY DEF Ping!Init, Counted
<1>4. QED
    BY <1>1, <1>2, <1>3 DEF PingInv

\* A step that pings nobody and leads to no ping.
LEMMA NoPing ==
    ASSUME PingInv, PingTyped', UNCHANGED <<minute, restarts, completed, pings>>,
           at' \notin {"starting", "resting"} => run' \in Ping!Slots /\ Come(run'),
           at' \in {"listing", "pinging"} => <<run', account'>> \notin completed
    PROVE PingInv'
<1>1. InSlot'
    BY DEF PingInv, InSlot, Come
<1>2. Counted'
    BY DEF PingInv, Counted
<1>3. QED
    BY <1>1, <1>2 DEF PingInv

LEMMA StepMinute == ASSUME PingInv, Ping!Minute PROVE PingInv'
<1>1. /\ minute' = minute + 1 /\ minute' \in 0..PingTime
      /\ UNCHANGED <<at, run, bearers, account, completed, restarts, pings>>
    BY PingConstants DEF Ping!Minute, Ping!loop, Ping!KeepaliveAssumption, PingInv, PingTyped
<1>2. PingTyped'
    BY <1>1 DEF PingInv, PingTyped
<1>3. 0..minute \subseteq 0..minute'
    BY <1>1 DEF PingInv, PingTyped
<1>4. InSlot'
    BY <1>1, <1>3 DEF PingInv, InSlot, Come
<1>5. Counted'
    BY <1>1 DEF PingInv, Counted
<1>6. QED
    BY <1>2, <1>4, <1>5 DEF PingInv

\* A run is in the slot of the moment it began.
LEMMA StepRunDue == ASSUME PingInv, Ping!RunDue PROVE PingInv'
<1>1. UNCHANGED <<minute, restarts, completed, pings>>
    BY DEF Ping!RunDue
<1>2. CASE Ping!Rest
    <2>1. at' = "resting" /\ bearers' = {}
        BY <1>2 DEF Ping!Rest
    <2>2. PingTyped'
        BY <1>1, <2>1 DEF PingInv, PingTyped, Busy
    <2>3. QED
        BY <1>1, <2>1, <2>2, NoPing
<1>3. CASE /\ Clock[minute][2] \in Schedule /\ at' = "resolving" /\ run' = Clock[minute]
           /\ UNCHANGED <<bearers, account>>
    <2>1. PingTyped'
        BY <1>1, <1>3 DEF PingInv, PingTyped, Busy
    <2>2. minute \in DOMAIN Clock /\ minute \in 0..minute
        BY PingConstants DEF Ping!KeepaliveAssumption, PingInv, PingTyped
    <2>3. Clock[minute] = <<Clock[minute][1], Clock[minute][2]>> /\ Clock[minute][1] \in Ping!Dates
        BY <2>2, PingConstants DEF Ping!KeepaliveAssumption, Ping!Dates
    <2>4. Clock[minute] \in Ping!Slots
        BY <1>3, <2>3 DEF Ping!Slots
    <2>5. run' \in Ping!Slots /\ Come(run')
        BY <1>3, <2>2, <2>4 DEF Come
    <2>6. QED
        BY <1>1, <1>3, <2>1, <2>5, NoPing
<1>4. QED
    BY <1>2, <1>3 DEF Ping!RunDue

LEMMA StepResolve == ASSUME PingInv, Ping!Resolve PROVE PingInv'
<1>1. UNCHANGED <<minute, restarts, completed, pings>> /\ at = "resolving"
    BY DEF Ping!Resolve
<1>2. CASE Ping!Rest
    <2>1. at' = "resting" /\ bearers' = {}
        BY <1>2 DEF Ping!Rest
    <2>2. PingTyped'
        BY <1>1, <2>1 DEF PingInv, PingTyped, Busy
    <2>3. QED
        BY <1>1, <2>1, <2>2, NoPing
<1>3. CASE bearers' \subseteq PingAccounts /\ UNCHANGED <<at, run, account>>
    <2>1. PingTyped'
        BY <1>1, <1>3 DEF PingInv, PingTyped, Busy
    <2>2. QED
        BY <1>1, <1>3, <2>1, NoPing DEF PingInv, InSlot
<1>4. QED
    BY <1>2, <1>3 DEF Ping!Resolve

\* Only an account that is not done in this slot is on its way to its ping.
LEMMA StepRunCredential ==
    ASSUME PingInv, NEW a \in PingAccounts, Ping!RunCredential(a) PROVE PingInv'
<1>1. /\ UNCHANGED <<minute, restarts, completed, pings, run>> /\ at = "resolving"
      /\ bearers' \subseteq PingAccounts
    BY DEF Ping!RunCredential, PingInv, PingTyped
<1>2. CASE UNCHANGED <<at, account>>
    <2>1. PingTyped'
        BY <1>1, <1>2 DEF PingInv, PingTyped, Busy
    <2>2. QED
        BY <1>1, <1>2, <2>1, NoPing DEF PingInv, InSlot
<1>3. CASE ~Ping!Done(a) /\ at' = "listing" /\ account' = a
    <2>1. PingTyped'
        BY <1>1, <1>3 DEF PingInv, PingTyped, Busy
    <2>2. <<run', account'>> \notin completed
        BY <1>1, <1>3 DEF Ping!Done, Ping!Key
    <2>3. QED
        BY <1>1, <1>3, <2>1, <2>2, NoPing DEF PingInv, InSlot
<1>4. QED
    BY <1>2, <1>3 DEF Ping!RunCredential

LEMMA StepListModels == ASSUME PingInv, Ping!ListModels PROVE PingInv'
<1>1. UNCHANGED <<minute, restarts, completed, pings, run, bearers>> /\ at = "listing"
    BY DEF Ping!ListModels
<1>2. \/ at' = "pinging" /\ UNCHANGED account
      \/ at' = "resolving" /\ account' = None
    BY DEF Ping!ListModels
<1>3. PingTyped'
    BY <1>1, <1>2 DEF PingInv, PingTyped, Busy
<1>4. run' \in Ping!Slots /\ Come(run')
    BY <1>1 DEF PingInv, InSlot
<1>5. at' \in {"listing", "pinging"} => <<run', account'>> \notin completed
    BY <1>1, <1>2 DEF PingInv, Counted
<1>6. QED
    BY <1>1, <1>3, <1>4, <1>5, NoPing

\* The one step that counts a ping, of an account that was not done.
LEMMA StepCompleteChat == ASSUME PingInv, Ping!CompleteChat PROVE PingInv'
<1>1. /\ UNCHANGED <<minute, restarts, run, bearers>> /\ at = "pinging"
      /\ run \in Ping!Slots /\ account \in PingAccounts /\ Come(run)
    BY DEF Ping!CompleteChat, PingInv, InSlot, PingTyped, Busy
<1>2. CASE at' = "resolving" /\ account' = None /\ UNCHANGED <<completed, pings>>
    <2>1. PingTyped'
        BY <1>1, <1>2 DEF PingInv, PingTyped, Busy
    <2>2. QED
        BY <1>1, <1>2, <2>1, NoPing DEF PingInv, InSlot
<1>3. CASE /\ completed' = completed \cup {Ping!Key(account)}
           /\ pings' = [pings EXCEPT ![Ping!Key(account)] = @ + 1]
           /\ at' = "reading usage" /\ UNCHANGED account
    <2>1. Ping!Key(account) = <<run, account>> /\ <<run, account>> \in Ping!Slots \X PingAccounts
        BY <1>1 DEF Ping!Key
    <2>2. /\ pings' \in [Ping!Slots \X PingAccounts -> Nat]
          /\ pings'[<<run, account>>] = pings[<<run, account>>] + 1
          /\ \A k \in Ping!Slots \X PingAccounts : k # <<run, account>> => pings'[k] = pings[k]
        <3>1. pings' = [pings EXCEPT ![<<run, account>>] = pings[<<run, account>>] + 1]
            BY <1>3, <2>1
        <3>2. pings \in [Ping!Slots \X PingAccounts -> Nat] /\ pings[<<run, account>>] + 1 \in Nat
            BY <2>1 DEF PingInv, PingTyped
        <3>3. QED
            BY <3>1, <3>2, <2>1
    <2>3. PingTyped'
        BY <1>1, <1>3, <2>1, <2>2 DEF PingInv, PingTyped, Busy
    <2>4. InSlot'
        <3>1. \A k \in completed' : Come(k[1])
            <4>1. \A k \in completed' : k \in completed \/ k = <<run, account>>
                BY <1>3, <2>1
            <4>2. QED
                BY <4>1, <1>1 DEF PingInv, InSlot
        <3>2. QED
            BY <1>1, <3>1 DEF InSlot, Come
    <2>5. <<run, account>> \notin completed
        BY <1>1 DEF PingInv, Counted
    <2>6. ASSUME NEW s \in Ping!Slots, NEW a \in PingAccounts
          PROVE  IF <<s, a>> \in completed'
                 THEN pings'[<<s, a>>] > 0 /\ pings'[<<s, a>>] <= 1 + restarts
                 ELSE pings'[<<s, a>>] <= restarts
        <3>1. pings[<<s, a>>] \in Nat /\ restarts \in Nat /\ <<s, a>> \in Ping!Slots \X PingAccounts
            BY DEF PingInv, PingTyped
        <3>2. CASE <<s, a>> = <<run, account>>
            <4>1. pings[<<s, a>>] <= restarts
                BY <2>5, <3>2 DEF PingInv, Counted
            <4>2. pings'[<<s, a>>] = pings[<<s, a>>] + 1 /\ <<s, a>> \in completed'
                BY <1>3, <2>1, <2>2, <3>2
            <4>3. QED
                BY <3>1, <4>1, <4>2
        <3>3. CASE <<s, a>> # <<run, account>>
            <4>1. /\ pings'[<<s, a>>] = pings[<<s, a>>]
                  /\ <<s, a>> \in completed' <=> <<s, a>> \in completed
                BY <1>3, <2>1, <2>2, <3>1, <3>3
            <4>2. QED
                BY <4>1 DEF PingInv, Counted
        <3>4. QED
            BY <3>2, <3>3
    <2>7. Counted'
        BY <1>1, <1>3, <2>6 DEF Counted
    <2>8. QED
        BY <2>3, <2>4, <2>7 DEF PingInv
<1>4. QED
    BY <1>2, <1>3 DEF Ping!CompleteChat

LEMMA StepRefreshUsage == ASSUME PingInv, Ping!RefreshUsage PROVE PingInv'
<1>1. /\ UNCHANGED <<minute, restarts, completed, pings, run, bearers>> /\ at = "reading usage"
      /\ at' = "resolving"
    BY DEF Ping!RefreshUsage
<1>2. PingTyped'
    BY <1>1 DEF PingInv, PingTyped, Busy
<1>3. QED
    BY <1>1, <1>2, NoPing DEF PingInv, InSlot

\* A restart forgets what is done, and allows each account one more ping.
LEMMA StepRestart == ASSUME PingInv, Ping!Restart PROVE PingInv'
<1>1. /\ UNCHANGED <<minute, pings>> /\ restarts' = restarts + 1
      /\ at' = "starting" /\ bearers' = {} /\ completed' = {}
    BY DEF Ping!Restart
<1>2. PingTyped'
    <2>1. at' \notin Busy
        BY <1>1 DEF Busy
    <2>2. restarts \in Nat /\ restarts' = restarts + 1
        BY <1>1 DEF PingInv, PingTyped
    <2>3. restarts' \in Nat
        BY <2>2
    <2>4. QED
        BY <1>1, <2>1, <2>3 DEF PingInv, PingTyped
<1>3. InSlot'
    BY <1>1 DEF InSlot
<1>4. \A s \in Ping!Slots, a \in PingAccounts : pings[<<s, a>>] <= restarts + 1
    <2>1. SUFFICES ASSUME NEW s \in Ping!Slots, NEW a \in PingAccounts
                   PROVE  pings[<<s, a>>] <= restarts + 1
        OBVIOUS
    <2>2. pings[<<s, a>>] \in Nat /\ restarts \in Nat
        BY DEF PingInv, PingTyped
    <2>3. pings[<<s, a>>] <= restarts \/ pings[<<s, a>>] <= 1 + restarts
        BY DEF PingInv, Counted
    <2>4. QED
        BY <2>2, <2>3
<1>5. Counted'
    BY <1>1, <1>4 DEF Counted
<1>6. QED
    BY <1>2, <1>3, <1>5 DEF PingInv

LEMMA PingNext == ASSUME PingInv, [Ping!Next]_Ping!vars PROVE PingInv'
<1>1. CASE UNCHANGED Ping!vars
    BY <1>1 DEF Ping!vars, Ping!loop, PingInv, PingTyped, InSlot, Come, Counted
<1>2. QED
    BY <1>1, StepMinute, StepRunDue, StepResolve, StepRunCredential, StepListModels,
       StepCompleteChat, StepRefreshUsage, StepRestart DEF Ping!Next

LEMMA PingOnce == ASSUME PingInv PROVE Ping!OncePerSlot
<1>1. ASSUME NEW s \in Ping!Slots, NEW a \in PingAccounts PROVE pings[<<s, a>>] <= 1 + restarts
    <2>1. pings[<<s, a>>] \in Nat /\ restarts \in Nat
        BY DEF PingInv, PingTyped
    <2>2. pings[<<s, a>>] <= restarts \/ pings[<<s, a>>] <= 1 + restarts
        BY DEF PingInv, Counted
    <2>3. QED
        BY <2>1, <2>2
<1>2. ASSUME NEW k \in completed PROVE pings[k] > 0 /\ \E t \in 0..minute : Clock[t] = k[1]
    <2>1. PICK s \in Ping!Slots, a \in PingAccounts : k = <<s, a>>
        BY <1>2 DEF PingInv, PingTyped
    <2>2. pings[<<s, a>>] > 0
        BY <1>2, <2>1 DEF PingInv, Counted
    <2>3. Come(k[1])
        BY <1>2 DEF PingInv, InSlot
    <2>4. QED
        BY <2>1, <2>2, <2>3 DEF Come
<1>3. QED
    BY <1>1, <1>2 DEF Ping!OncePerSlot

-----------------------------------------------------------------------------
(* The pool usage header *)

Snapshots == [observed : Nat, length : Nat, reset : Nat \cup {None}, failed : BOOLEAN]

\* What a header may say of account a until the given time.
Holds(a, s, until) ==
    /\ s \in Snapshots /\ ~s.failed
    /\ \A t \in Nat : t < until => t - s.observed <= Threshold /\ ~Pool!ResetSince(s, t)

\* What a reader was told stays true for as long as it is written: no later fetch
\* touches it, and time only takes it away.
Fair(r, usage) ==
    usage.of # {} =>
        /\ {p[1] : p \in usage.of} = Requested[r]
        /\ \A p, q \in usage.of : p[2].length = q[2].length
        /\ \A p \in usage.of : Holds(p[1], p[2], usage.until)

PoolTyped ==
    /\ now \in Nat
    /\ row \in [PoolAccounts -> Snapshots \cup {None}]
    /\ waiting \subseteq Streams
    /\ reading \subseteq Pool!Keys

TellsTruth == \A r \in Streams : told[r] # None => Fair(r, told[r])

PoolInv == PoolTyped /\ TellsTruth

-----------------------------------------------------------------------------
\* A set of numbers has a least one.
LEMMA LeastNumber ==
    ASSUME NEW S, S \subseteq Nat, S # {}
    PROVE \E t \in S : \A u \in S : t <= u
<1>1. IsWellFoundedOn(OpToRel(<, Nat), Nat)
    BY NatLessThanWellFounded
<1>2. PICK t \in S : \A u \in S : <<u, t>> \notin OpToRel(<, Nat)
    BY <1>1, WFMin
<1>3. ASSUME NEW u \in S PROVE t <= u
    <2>1. ~(u < t)
        BY <1>2 DEF OpToRel
    <2>2. QED
        BY <2>1
<1>4. QED
    BY <1>3

\* A fetched row is a snapshot again.
LEMMA RowTyped ==
    ASSUME PoolTyped, NEW a \in PoolAccounts, NEW t \in Pool!Times, NEW s \in Pool!Answers(t),
           Pool!Fetched(a, s)
    PROVE row' \in [PoolAccounts -> Snapshots \cup {None}]
<1>1. t \in Nat /\ s \in Snapshots
    <2>1. t \in Nat
        BY PoolConstants DEF Pool!Times, Pool!PoolAssumption
    <2>2. \A w \in Pool!Windows(t) : w.length \in Nat /\ w.reset \in Nat \cup {None}
        <3>1. ASSUME NEW w \in [length : WindowLengths, reset : {t + d : d \in Delays} \cup {None}]
              PROVE  w.length \in Nat /\ w.reset \in Nat \cup {None}
            <4>1. ASSUME NEW d \in Delays PROVE t + d \in Nat
                <5>1. d \in Nat
                    BY PoolConstants DEF Pool!PoolAssumption
                <5>2. QED
                    BY <2>1, <5>1
            <4>2. w.length \in WindowLengths /\ w.reset \in {t + d : d \in Delays} \cup {None}
                OBVIOUS
            <4>3. QED
                BY <4>1, <4>2, PoolConstants DEF Pool!PoolAssumption
        <3>2. QED
            BY <3>1 DEF Pool!Windows
    <2>3. CASE s = [observed |-> t, length |-> 0, reset |-> None, failed |-> TRUE]
        BY <2>1, <2>3 DEF Snapshots
    <2>4. ASSUME NEW w \in Pool!Windows(t),
                 s = [observed |-> t, length |-> w.length, reset |-> w.reset, failed |-> FALSE]
          PROVE  s \in Snapshots
        BY <2>1, <2>2, <2>4 DEF Snapshots
    <2>5. QED
        BY <2>1, <2>3, <2>4 DEF Pool!Answers
<1>2. row[a] \in Snapshots \cup {None}
    BY DEF PoolTyped
<1>3. Pool!Upserted(row[a], s) \in Snapshots
    BY <1>1, <1>2 DEF Pool!Upserted, Snapshots
<1>4. QED
    BY <1>3 DEF Pool!Fetched, PoolTyped

\* What is published holds until it says.
LEMMA ProjectedHolds ==
    ASSUME PoolTyped, NEW r \in Streams
    PROVE Fair(r, Pool!Projected(Requested[r]))
<1> DEFINE k == Requested[r]
<1>1. k \subseteq PoolAccounts
    BY PoolConstants DEF Pool!PoolAssumption
<1>2. CASE ~Pool!Publishable(k, failed[k])
    BY <1>2 DEF Pool!Projected, Pool!Nothing, Fair
<1>3. CASE Pool!Publishable(k, failed[k])
    <2>1. \A a \in k : row[a] # None /\ ~Pool!Stale(row[a], now) /\ row[a] \in Snapshots
        BY <1>1, <1>3 DEF Pool!Publishable, Pool!Contributors, PoolTyped
    <2>2. PICK n \in WindowLengths : \A a \in k : row[a].length = n
        BY <1>3 DEF Pool!Publishable
    <2>3. Pool!Projected(k) = [until |-> Pool!Until(k),
                               of |-> {<<a, row[a]>> : a \in {b \in k : row[b] # None}}]
        BY <1>3 DEF Pool!Projected
    <2>4. {b \in k : row[b] # None} = k
        BY <2>1
    <2> DEFINE said == {<<a, row[a]>> : a \in k}
    <2>5. Pool!Projected(k).of = said /\ Pool!Projected(k).until = Pool!Until(k)
        BY <2>3, <2>4
    <2>6. SUFFICES ASSUME said # {} PROVE Fair(r, Pool!Projected(k))
        BY <2>5 DEF Fair
    <2>7. {p[1] : p \in said} = k
        <3>1. \A a \in k : <<a, row[a]>> \in said /\ <<a, row[a]>>[1] = a
            OBVIOUS
        <3>2. \A p \in said : p[1] \in k
            OBVIOUS
        <3> HIDE DEF said
        <3>3. {p[1] : p \in said} \subseteq k
            BY <3>2
        <3>4. k \subseteq {p[1] : p \in said}
            BY <3>1
        <3>5. QED
            BY <3>3, <3>4
    <2>8. PICK b \in k : TRUE
        BY <2>6
    <2>9. \A p, q \in said : p[2].length = q[2].length
        <3>1. \A p \in said : p[2].length = n
            BY <2>2
        <3>2. QED
            BY <3>1
    <2>10. \A a \in k : Pool!HoldsUntil(row[a]) \in Nat
        BY <2>1, PoolConstants DEF Pool!HoldsUntil, Snapshots, Pool!PoolAssumption
    <2>11. Pool!Until(k) \in Nat /\ \A a \in k : Pool!Until(k) <= Pool!HoldsUntil(row[a])
        <3> DEFINE ends == {Pool!HoldsUntil(row[a]) : a \in k}
        <3>1. \E t \in ends : \A u \in ends : t <= u
            <4>1. ends \subseteq Nat /\ ends # {}
                BY <2>8, <2>10
            <4>2. QED
                BY <4>1, LeastNumber
        <3>2. Pool!Until(k) = CHOOSE t \in ends : \A u \in ends : t <= u
            BY DEF Pool!Until
        <3>3. Pool!Until(k) \in ends /\ \A u \in ends : Pool!Until(k) <= u
            BY <3>1, <3>2
        <3>4. QED
            BY <3>3, <2>10
    <2>12. ASSUME NEW a \in k PROVE Holds(a, row[a], Pool!Until(k))
        <3>1. row[a] \in Snapshots /\ ~row[a].failed
            BY <2>1 DEF Pool!Stale
        <3>2. ASSUME NEW t \in Nat, t < Pool!Until(k)
              PROVE t - row[a].observed <= Threshold /\ ~Pool!ResetSince(row[a], t)
            <4>1. t < Pool!HoldsUntil(row[a])
                BY <2>10, <2>11, <3>2
            <4>2. row[a].observed \in Nat /\ row[a].reset \in Nat \cup {None} /\ Threshold \in Nat
                BY <3>1, PoolConstants DEF Snapshots, Pool!PoolAssumption
            <4>3. QED
                BY <4>1, <4>2 DEF Pool!HoldsUntil, Pool!ResetSince
        <3>3. QED
            BY <3>1, <3>2 DEF Holds
    <2>13. \A p \in said : Holds(p[1], p[2], Pool!Until(k))
        BY <2>12
    <2>14. QED
        BY <2>5, <2>7, <2>9, <2>13 DEF Fair
<1>4. QED
    BY <1>2, <1>3

LEMMA NothingHolds == ASSUME NEW r PROVE Fair(r, Pool!Nothing)
BY DEF Fair, Pool!Nothing

LEMMA PoolInit == ASSUME Pool!Init PROVE PoolInv
<1>1. PoolTyped
    BY DEF Pool!Init, PoolTyped
<1>2. TellsTruth
    BY DEF Pool!Init, TellsTruth
<1>3. QED
    BY <1>1, <1>2 DEF PoolInv

\* A step of which a reader learns nothing.
LEMMA StepUntold == ASSUME PoolInv, PoolTyped', UNCHANGED told PROVE PoolInv'
BY DEF PoolInv, TellsTruth, Fair, Holds, Pool!ResetSince

LEMMA StepRead == ASSUME PoolInv, NEW r \in Streams, Pool!Read(r) PROVE PoolInv'
<1>1. UNCHANGED <<now, row, told>> /\ waiting' \subseteq Streams /\ reading' \subseteq Pool!Keys
    BY DEF Pool!Read, PoolInv, PoolTyped, Pool!Keys
<1>2. PoolTyped'
    BY <1>1 DEF PoolInv, PoolTyped
<1>3. QED
    BY <1>1, <1>2, StepUntold

LEMMA StepAbandon == ASSUME PoolInv, NEW r \in Streams, Pool!Abandon(r) PROVE PoolInv'
<1>1. /\ UNCHANGED <<now, row, reading>> /\ waiting' \subseteq Streams
      /\ told' = [told EXCEPT ![r] = Pool!Nothing]
    BY DEF Pool!Abandon, PoolInv, PoolTyped, Pool!refreshes
<1>2. PoolTyped'
    BY <1>1 DEF PoolInv, PoolTyped
<1>3. \A q \in Streams : told'[q] # None => told'[q] = told[q] \/ told'[q] = Pool!Nothing
    BY <1>1
<1>4. TellsTruth'
    BY <1>3, NothingHolds DEF PoolInv, TellsTruth, Fair, Holds, Pool!ResetSince
<1>5. QED
    BY <1>2, <1>4 DEF PoolInv

LEMMA StepWrite == ASSUME PoolInv, NEW r \in Streams, Pool!Write(r) PROVE PoolInv'
<1>1. UNCHANGED <<now, row, reading, waiting>> /\ told' = [told EXCEPT ![r] = None]
    BY DEF Pool!Write, Pool!refreshes
<1>2. PoolTyped'
    BY <1>1 DEF PoolInv, PoolTyped
<1>3. \A q \in Streams : told'[q] # None => told'[q] = told[q] /\ told[q] # None
    BY <1>1 DEF PoolInv, PoolTyped
<1>4. TellsTruth'
    BY <1>3 DEF PoolInv, TellsTruth, Fair, Holds, Pool!ResetSince
<1>5. QED
    BY <1>2, <1>4 DEF PoolInv

\* The read ends: its readers are told what holds of the rows of this moment.
LEMMA StepFinish == ASSUME PoolInv, NEW k \in Pool!Keys, Pool!Finish(k) PROVE PoolInv'
<1>1. /\ UNCHANGED <<now, row>> /\ reading' = reading \ {k}
      /\ waiting' = {r \in waiting : Requested[r] # k}
    BY DEF Pool!Finish
<1>2. PoolTyped'
    BY <1>1 DEF PoolInv, PoolTyped
<1>3. PICK usage \in {Pool!Nothing, Pool!Projected(k)} :
         told' = [r \in Streams |-> IF r \in waiting /\ Requested[r] = k THEN usage ELSE told[r]]
    BY DEF Pool!Finish
<1>4. ASSUME NEW r \in Streams, told'[r] # None PROVE Fair(r, told'[r])
    <2>1. CASE r \in waiting /\ Requested[r] = k
        <3>1. told'[r] = usage
            BY <1>3, <2>1
        <3>2. Fair(r, Pool!Projected(k))
            BY <2>1, ProjectedHolds DEF PoolInv
        <3>3. Fair(r, Pool!Nothing)
            BY NothingHolds
        <3>4. QED
            BY <3>1, <3>2, <3>3, <1>3
    <2>2. CASE ~(r \in waiting /\ Requested[r] = k)
        <3>1. told'[r] = told[r]
            BY <1>3, <2>2
        <3>2. QED
            BY <3>1, <1>4 DEF PoolInv, TellsTruth
    <2>3. QED
        BY <2>1, <2>2
<1>5. TellsTruth'
    BY <1>4 DEF TellsTruth, Fair, Holds, Pool!ResetSince
<1>6. QED
    BY <1>2, <1>5 DEF PoolInv

\* Fetches, of a read or of the operator, replace rows.
LEMMA StepFetch ==
    ASSUME PoolInv, NEW a \in PoolAccounts,
           \E t \in Pool!Times : \E s \in Pool!Answers(t) : Pool!Fetched(a, s),
           UNCHANGED <<now, reading, waiting, told>>
    PROVE PoolInv'
<1>1. row' \in [PoolAccounts -> Snapshots \cup {None}]
    BY RowTyped DEF PoolInv
<1>2. PoolTyped'
    BY <1>1 DEF PoolInv, PoolTyped
<1>3. QED
    BY <1>2, StepUntold

LEMMA StepRefresh ==
    ASSUME PoolInv, NEW k \in Pool!Keys, NEW a \in PoolAccounts, Pool!Refresh(k, a) PROVE PoolInv'
<1>1. \E t \in Pool!Times : \E s \in Pool!Answers(t) : Pool!Fetched(a, s)
    BY DEF Pool!Refresh
<1>2. UNCHANGED <<now, reading, waiting, told>>
    BY DEF Pool!Refresh, Pool!readers
<1>3. QED
    BY <1>1, <1>2, StepFetch

LEMMA StepRefreshAll ==
    ASSUME PoolInv, NEW a \in PoolAccounts, Pool!RefreshSubscriptionUsage(a) PROVE PoolInv'
BY StepFetch DEF Pool!RefreshSubscriptionUsage, Pool!readers

LEMMA StepSkip ==
    ASSUME PoolInv, NEW k \in Pool!Keys, NEW a \in PoolAccounts, Pool!Skip(k, a) PROVE PoolInv'
<1>1. UNCHANGED <<now, row, reading, waiting, told>>
    BY DEF Pool!Skip, Pool!readers
<1>2. QED
    BY <1>1, StepUntold DEF PoolInv, PoolTyped

LEMMA StepDeadline == ASSUME PoolInv, NEW k \in Pool!Keys, Pool!Deadline(k) PROVE PoolInv'
<1>1. UNCHANGED <<now, row, reading, waiting, told>>
    BY DEF Pool!Deadline, Pool!readers
<1>2. QED
    BY <1>1, StepUntold DEF PoolInv, PoolTyped

LEMMA StepTick == ASSUME PoolInv, Pool!Tick PROVE PoolInv'
<1>1. now' = now + 1 /\ UNCHANGED <<row, reading, waiting, told>>
    BY DEF Pool!Tick, Pool!readers
<1>2. PoolTyped'
    BY <1>1 DEF PoolInv, PoolTyped
<1>3. QED
    BY <1>1, <1>2, StepUntold

LEMMA PoolNext == ASSUME PoolInv, [Pool!Next]_Pool!vars PROVE PoolInv'
<1>1. CASE UNCHANGED Pool!vars
    <2>1. UNCHANGED <<now, row, reading, waiting, told>>
        BY <1>1 DEF Pool!vars, Pool!readers
    <2>2. QED
        BY <2>1, StepUntold DEF PoolInv, PoolTyped
<1>2. QED
    BY <1>1, StepRead, StepAbandon, StepWrite, StepFinish, StepDeadline, StepRefresh, StepSkip,
       StepRefreshAll, StepTick DEF Pool!Next

LEMMA PoolTells == ASSUME PoolInv PROVE Pool!HeaderTellsTruth
<1>1. SUFFICES ASSUME NEW r \in Streams, Pool!Header(r) # {}
               PROVE  /\ {p[1] : p \in Pool!Header(r)} = Requested[r]
                      /\ \A p, q \in Pool!Header(r) : p[2].length = q[2].length
                      /\ \A p \in Pool!Header(r) :
                           /\ ~p[2].failed
                           /\ now - p[2].observed <= Threshold
                           /\ ~Pool!ResetSince(p[2], now)
    BY DEF Pool!HeaderTellsTruth
<1>2. told[r] # None /\ now < told[r].until /\ Pool!Header(r) = told[r].of
    BY <1>1 DEF Pool!Header
<1>3. Fair(r, told[r]) /\ now \in Nat
    BY <1>1, <1>2 DEF PoolInv, TellsTruth, PoolTyped
<1>4. QED
    BY <1>1, <1>2, <1>3 DEF Fair, Holds

-----------------------------------------------------------------------------
(* Starts and stops                                                          *)

\* Stages at which a process holds the socket at the path; stages at which no other serves,
\* since it has seen that or was the one that did.
Holding  == Daemons!Up \cup {"bound"}
Clearing == {"refused", "same", "clear", "bound", "listening", "up", "closing", "draining"}
Places   == {"down", "migrating", "serving"} \cup Daemons!Touching

Placed ==
    /\ stage \in [Processes -> Places]
    /\ socket \in [Processes -> Inodes \cup {None}]
    /\ path \in Inodes \cup {None}
    /\ crossed \in BOOLEAN
    /\ \A p \in Processes : stage[p] = "serving" => port = p

Alone   == \A p, q \in Processes : {stage[p], stage[q]} \subseteq Daemons!Touching => p = q
Reached == \A p \in Processes : stage[p] \in Holding => path = socket[p] /\ path # None
Cleared == \A p, q \in Processes : stage[p] \in Clearing => stage[q] # "serving"

\* As long as nothing crossed, one process at a time comes or goes, and it comes only
\* when no other serves.
InTurn   == Alone /\ Reached /\ Cleared
StartInv == Placed /\ (~crossed => InTurn)

Others(p) == Processes \ {p}

LEMMA StartInit == ASSUME Daemons!Init PROVE StartInv
<1>1. Placed
    BY DEF Daemons!Init, Placed, Places
<1>2. InTurn
    BY DEF Daemons!Init, InTurn, Alone, Reached, Cleared, Holding, Clearing, Daemons!Up,
           Daemons!Touching
<1>3. QED
    BY <1>1, <1>2 DEF StartInv

\* What a process has to see to before it moves.
LEMMA InTurnKept ==
    ASSUME StartInv, ~crossed, NEW p \in Processes,
           \A q \in Others(p) : stage'[q] = stage[q] /\ socket'[q] = socket[q],
           stage'[p] \in Daemons!Touching \cup {"serving"}
             => \A q \in Others(p) : stage[q] \notin Daemons!Touching,
           stage'[p] \in Holding => path' = socket'[p] /\ path' # None,
           path' = path \/ \A q \in Others(p) : stage[q] \notin Holding,
           stage'[p] \in Clearing => \A q \in Others(p) : stage[q] # "serving"
    PROVE  InTurn'
<1>1. InTurn
    BY DEF StartInv
<1>2. Clearing \subseteq Daemons!Touching /\ "serving" \notin Clearing
    BY DEF Clearing, Daemons!Touching
<1>3. Alone'
    BY <1>1 DEF InTurn, Alone, Others, Daemons!Touching
<1>4. Reached'
    BY <1>1 DEF InTurn, Reached, Others, Holding, Daemons!Up
<1>5. Cleared'
    BY <1>1, <1>2 DEF InTurn, Cleared, Others, Clearing
<1>6. QED
    BY <1>3, <1>4, <1>5 DEF InTurn

\* A process that comes or goes and has not taken the path: the others at most serve.
LEMMA Moved ==
    ASSUME StartInv, ~crossed, NEW p \in Processes, stage[p] \in Daemons!Touching,
           \A q \in Others(p) : stage'[q] = stage[q] /\ socket'[q] = socket[q],
           stage'[p] \in Holding => path' = socket'[p] /\ path' # None,
           path' = path \/ \A q \in Others(p) : stage[q] # "serving",
           stage'[p] \in Clearing => \A q \in Others(p) : stage[q] # "serving"
    PROVE  InTurn'
<1>1. \A q \in Others(p) : stage[q] \notin Daemons!Touching
    BY DEF StartInv, InTurn, Alone, Others
<1>2. \A q \in Others(p) : stage[q] # "serving" => stage[q] \notin Holding
    BY <1>1 DEF Holding, Daemons!Up, Daemons!Touching
<1>3. QED
    BY <1>1, <1>2, InTurnKept

\* A move of one process to another stage, with whatever it does to its socket.
Moves(p, s) ==
    /\ s \in Places
    /\ stage' \in [Processes -> Places] /\ stage'[p] = s
    /\ \A q \in Others(p) : stage'[q] = stage[q] /\ socket'[q] = socket[q]

LEMMA OneMoves ==
    ASSUME Placed, NEW p \in Processes, NEW s \in Places, Daemons!Goto(p, s),
           UNCHANGED socket \/ \E i \in Inodes \cup {None} : socket' = [socket EXCEPT ![p] = i]
    PROVE  Moves(p, s) /\ socket' \in [Processes -> Inodes \cup {None}]
BY DEF Placed, Daemons!Goto, Others, Moves

\* Who serves has the port, and loses it only by its own steps.
LEMMA PlacedKept ==
    ASSUME Placed, NEW p \in Processes, NEW s, Moves(p, s),
           socket' \in [Processes -> Inodes \cup {None}], path' \in Inodes \cup {None},
           crossed' \in BOOLEAN, s = "serving" => port' = p,
           \A q \in Others(p) : port = q => port' = q
    PROVE  Placed'
BY DEF Placed, Moves, Others

\* The database is opened, and the process begins to come.
LEMMA StepBegin ==
    ASSUME StartInv, NEW p \in Processes, NEW r \in Releases, Daemons!Begin(p, r) PROVE StartInv'
<1>1. UNCHANGED <<path, socket, port, crossed>> /\ Daemons!Goto(p, "migrating")
    BY DEF Daemons!Begin, Daemons!sockets
<1>2. Moves(p, "migrating")
    BY <1>1, OneMoves DEF StartInv, Places
<1>3. Placed'
    BY <1>1, <1>2, PlacedKept DEF StartInv, Placed
<1>4. ~crossed => InTurn'
    BY <1>1, <1>2, InTurnKept DEF Moves, Holding, Clearing, Daemons!Up, Daemons!Touching
<1>5. QED
    BY <1>1, <1>3, <1>4 DEF StartInv

LEMMA StepMigrate == ASSUME StartInv, NEW p \in Processes, Daemons!Migrate(p) PROVE StartInv'
<1>1. /\ UNCHANGED <<path, socket, port>>
      /\ \/ Daemons!Goto(p, "down") /\ UNCHANGED crossed
         \/ Daemons!Goto(p, "opened") /\ Daemons!Crosses(p)
    BY DEF Daemons!Migrate, Daemons!sockets
<1>2. CASE Daemons!Goto(p, "down") /\ UNCHANGED crossed
    <2>1. Moves(p, "down")
        BY <1>1, <1>2, OneMoves DEF StartInv, Places
    <2>2. Placed'
        BY <1>1, <1>2, <2>1, PlacedKept DEF StartInv, Placed
    <2>3. ~crossed => InTurn'
        BY <1>1, <2>1, InTurnKept DEF Moves, Holding, Clearing, Daemons!Up, Daemons!Touching
    <2>4. QED
        BY <1>2, <2>2, <2>3 DEF StartInv
<1>3. CASE Daemons!Goto(p, "opened") /\ Daemons!Crosses(p)
    <2>1. Moves(p, "opened")
        BY <1>1, <1>3, OneMoves DEF StartInv, Places, Daemons!Touching
    <2>2. /\ crossed' \in BOOLEAN
          /\ ~crossed' => ~crossed /\ \A q \in Others(p) : stage[q] \notin Daemons!Touching
        BY <1>3 DEF Daemons!Crosses, StartInv, Placed, Others
    <2>3. Placed'
        BY <1>1, <2>1, <2>2, PlacedKept DEF StartInv, Placed
    <2>4. ~crossed' => InTurn'
        BY <1>1, <2>1, <2>2, InTurnKept DEF Moves, Holding, Clearing, Daemons!Up
    <2>5. QED
        BY <2>3, <2>4 DEF StartInv
<1>4. QED
    BY <1>1, <1>2, <1>3

\* Nobody serves if there is no socket at the path, or none that answers.
LEMMA NobodyServes ==
    ASSUME StartInv, ~crossed, NEW p \in Processes, stage[p] \in Daemons!Touching,
           path = None \/ ~Daemons!Listening(path)
    PROVE  \A q \in Others(p) : stage[q] # "serving"
BY DEF StartInv, InTurn, Reached, Others, Holding, Daemons!Listening, Daemons!Up

\* Up to the removal of a stale socket a start looks only.
LEMMA StepLook == ASSUME StartInv, NEW p \in Processes, Daemons!Look(p) PROVE StartInv'
<1>1. /\ UNCHANGED <<path, socket, port, crossed>> /\ stage[p] = "opened"
      /\ Daemons!Goto(p, IF path = None THEN "clear" ELSE "found")
    BY DEF Daemons!Look, Daemons!At
<1> DEFINE s == IF path = None THEN "clear" ELSE "found"
<1>2. Moves(p, s)
    BY <1>1, OneMoves DEF StartInv, Places, Daemons!Touching
<1>3. Placed'
    BY <1>1, <1>2, PlacedKept DEF StartInv, Placed
<1>4. ASSUME ~crossed PROVE InTurn'
    <2>1. stage[p] \in Daemons!Touching
        BY <1>1 DEF Daemons!Touching
    <2>2. s = "clear" => \A q \in Others(p) : stage[q] # "serving"
        BY <1>4, <2>1, NobodyServes
    <2>3. QED
        BY <1>1, <1>2, <1>4, <2>1, <2>2, Moved DEF Moves, Holding, Clearing, Daemons!Up
<1>5. QED
    BY <1>1, <1>3, <1>4 DEF StartInv

\* A socket that refuses, or is gone, is not that of a daemon that serves. An interrupted
\* probe says nothing of it.
LEMMA StepProbe ==
    ASSUME StartInv, NEW p \in Processes, Daemons!Probe(p) \/ Daemons!ProbeInterrupted(p)
    PROVE  StartInv'
<1>1. /\ UNCHANGED <<path, socket, port>> /\ stage[p] \in Daemons!Touching
      /\ \/ Daemons!Goto(p, "down") /\ UNCHANGED crossed
         \/ /\ Daemons!Goto(p, "refused") /\ UNCHANGED crossed
            /\ path = None \/ ~Daemons!Listening(path)
         \/ Daemons!Goto(p, "refused") /\ crossed' = TRUE
    BY DEF Daemons!Probe, Daemons!ProbeInterrupted, Daemons!At, Daemons!Answers,
           Daemons!sockets, Daemons!Touching
<1>2. PICK s \in {"down", "refused"} : Daemons!Goto(p, s)
    BY <1>1
<1>3. Moves(p, s)
    BY <1>1, <1>2, OneMoves DEF StartInv, Places, Daemons!Touching
<1>4. Placed'
    BY <1>1, <1>3, PlacedKept DEF StartInv, Placed
<1>5. ASSUME ~crossed' PROVE InTurn'
    <2>1. \/ stage'[p] = "down"
          \/ \A q \in Others(p) : stage[q] # "serving"
        <3>1. CASE Daemons!Goto(p, "down")
            BY <3>1 DEF Daemons!Goto, StartInv, Placed
        <3>2. CASE path = None \/ ~Daemons!Listening(path)
            BY <1>1, <1>5, <3>2, NobodyServes
        <3>3. QED
            BY <1>1, <1>5, <3>1, <3>2
    <2>2. ~crossed
        BY <1>1, <1>5
    <2>3. stage'[p] \in {"down", "refused"}
        BY <1>3 DEF Moves
    <2>4. QED
        BY <1>1, <1>3, <2>1, <2>2, <2>3, Moved DEF Moves, Holding, Clearing, Daemons!Up
<1>6. QED
    BY <1>4, <1>5 DEF StartInv

LEMMA StepCompare == ASSUME StartInv, NEW p \in Processes, Daemons!Compare(p) PROVE StartInv'
<1>1. /\ UNCHANGED <<path, socket, port, crossed>> /\ stage[p] = "refused"
      /\ \E s \in {"same", "down"} : Daemons!Goto(p, s)
    BY DEF Daemons!Compare, Daemons!At
<1>2. PICK s \in {"same", "down"} : Daemons!Goto(p, s)
    BY <1>1
<1>3. Moves(p, s)
    BY <1>1, <1>2, OneMoves DEF StartInv, Places, Daemons!Touching
<1>4. Placed'
    BY <1>1, <1>3, PlacedKept DEF StartInv, Placed
<1>5. ASSUME ~crossed PROVE InTurn'
    <2>1. stage[p] \in Daemons!Touching /\ \A q \in Others(p) : stage[q] # "serving"
        BY <1>1, <1>5 DEF Daemons!Touching, StartInv, InTurn, Cleared, Clearing, Others
    <2>2. QED
        BY <1>1, <1>3, <1>5, <2>1, Moved DEF Moves, Holding, Daemons!Up
<1>6. QED
    BY <1>1, <1>4, <1>5 DEF StartInv

\* Only of a process that knows that no other serves the path is emptied.
LEMMA StepRemoveStale ==
    ASSUME StartInv, NEW p \in Processes, Daemons!RemoveStale(p) PROVE StartInv'
<1>1. /\ UNCHANGED <<socket, port, crossed>> /\ stage[p] = "same" /\ path' = None
      /\ \E s \in {"clear", "down"} : Daemons!Goto(p, s)
    BY DEF Daemons!RemoveStale, Daemons!At
<1>2. PICK s \in {"clear", "down"} : Daemons!Goto(p, s)
    BY <1>1
<1>3. Moves(p, s)
    BY <1>1, <1>2, OneMoves DEF StartInv, Places, Daemons!Touching
<1>4. Placed'
    BY <1>1, <1>3, PlacedKept DEF StartInv, Placed
<1>5. ASSUME ~crossed PROVE InTurn'
    <2>1. stage[p] \in Daemons!Touching /\ \A q \in Others(p) : stage[q] # "serving"
        BY <1>1, <1>5 DEF Daemons!Touching, StartInv, InTurn, Cleared, Clearing, Others
    <2>2. QED
        BY <1>1, <1>3, <1>5, <2>1, Moved DEF Moves, Holding, Daemons!Up
<1>6. QED
    BY <1>1, <1>4, <1>5 DEF StartInv

LEMMA StepBind == ASSUME StartInv, NEW p \in Processes, Daemons!Bind(p) PROVE StartInv'
<1>1. /\ UNCHANGED <<port, crossed>> /\ stage[p] = "clear"
      /\ \/ /\ Daemons!Goto(p, "bound")
            /\ \E i \in Inodes : path' = i /\ socket' = [socket EXCEPT ![p] = i]
         \/ Daemons!Goto(p, "down") /\ UNCHANGED <<path, socket>>
    BY DEF Daemons!Bind, Daemons!At
<1>2. ~crossed => stage[p] \in Daemons!Touching /\ \A q \in Others(p) : stage[q] # "serving"
    BY <1>1 DEF Daemons!Touching, StartInv, InTurn, Cleared, Clearing, Others
<1>3. CASE /\ Daemons!Goto(p, "bound")
           /\ \E i \in Inodes : path' = i /\ socket' = [socket EXCEPT ![p] = i]
    <2>1. PICK i \in Inodes : path' = i /\ socket' = [socket EXCEPT ![p] = i]
        BY <1>3
    <2>2. Moves(p, "bound") /\ socket' \in [Processes -> Inodes \cup {None}]
        BY <1>3, <2>1, OneMoves DEF StartInv, Places, Daemons!Touching
    <2>3. Placed'
        BY <1>1, <2>1, <2>2, PlacedKept DEF StartInv, Placed
    <2>4. path' = socket'[p] /\ path' # None
        BY <2>1, StartConstants DEF StartInv, Placed, Daemons!StartAssumption
    <2>5. ~crossed => InTurn'
        BY <1>2, <2>2, <2>4, Moved DEF Moves
    <2>6. QED
        BY <1>1, <2>3, <2>5 DEF StartInv
<1>4. CASE Daemons!Goto(p, "down") /\ UNCHANGED <<path, socket>>
    <2>1. Moves(p, "down")
        BY <1>4, OneMoves DEF StartInv, Places
    <2>2. Placed'
        BY <1>1, <1>4, <2>1, PlacedKept DEF StartInv, Placed
    <2>3. ~crossed => InTurn'
        BY <1>2, <1>4, <2>1, Moved DEF Moves, Holding, Daemons!Up
    <2>4. QED
        BY <1>1, <2>2, <2>3 DEF StartInv
<1>5. QED
    BY <1>1, <1>3, <1>4

LEMMA StepListen == ASSUME StartInv, NEW p \in Processes, Daemons!Listen(p) PROVE StartInv'
<1>1. /\ UNCHANGED <<path, socket, port, crossed>> /\ stage[p] = "bound"
      /\ Daemons!Goto(p, "listening")
    BY DEF Daemons!Listen, Daemons!At, Daemons!sockets
<1>2. Moves(p, "listening")
    BY <1>1, OneMoves DEF StartInv, Places, Daemons!Touching
<1>3. Placed'
    BY <1>1, <1>2, PlacedKept DEF StartInv, Placed
<1>4. ASSUME ~crossed PROVE InTurn'
    <2>1. stage[p] \in Daemons!Touching /\ \A q \in Others(p) : stage[q] # "serving"
        BY <1>1, <1>4 DEF Daemons!Touching, StartInv, InTurn, Cleared, Clearing, Others
    <2>2. path = socket[p] /\ path # None
        BY <1>1, <1>4 DEF StartInv, InTurn, Reached, Holding
    <2>3. QED
        BY <1>1, <1>2, <1>4, <2>1, <2>2, Moved DEF Moves
<1>5. QED
    BY <1>1, <1>3, <1>4 DEF StartInv

LEMMA StepOwn == ASSUME StartInv, NEW p \in Processes, Daemons!Own(p) PROVE StartInv'
<1>1. /\ UNCHANGED <<port, crossed>> /\ stage[p] = "listening"
      /\ \/ path # None /\ Daemons!Goto(p, "up") /\ UNCHANGED <<path, socket>>
         \/ Daemons!Goto(p, "down") /\ Daemons!CloseSocket(p)
    BY DEF Daemons!Own, Daemons!At
<1>2. ~crossed => /\ stage[p] \in Daemons!Touching /\ \A q \in Others(p) : stage[q] # "serving"
                  /\ path = socket[p]
    BY <1>1 DEF Daemons!Touching, StartInv, InTurn, Reached, Holding, Daemons!Up, Cleared,
                Clearing, Others
<1>3. CASE path # None /\ Daemons!Goto(p, "up") /\ UNCHANGED <<path, socket>>
    <2>1. Moves(p, "up")
        BY <1>3, OneMoves DEF StartInv, Places, Daemons!Touching
    <2>2. Placed'
        BY <1>1, <1>3, <2>1, PlacedKept DEF StartInv, Placed
    <2>3. ~crossed => InTurn'
        BY <1>2, <1>3, <2>1, Moved DEF Moves
    <2>4. QED
        BY <1>1, <2>2, <2>3 DEF StartInv
<1>4. CASE Daemons!Goto(p, "down") /\ Daemons!CloseSocket(p)
    <2>1. path' = None /\ socket' = [socket EXCEPT ![p] = None]
        BY <1>4 DEF Daemons!CloseSocket
    <2>2. Moves(p, "down") /\ socket' \in [Processes -> Inodes \cup {None}]
        BY <1>4, <2>1, OneMoves DEF StartInv, Places
    <2>3. Placed'
        BY <1>1, <2>1, <2>2, PlacedKept DEF StartInv, Placed
    <2>4. ~crossed => InTurn'
        BY <1>2, <2>2, Moved DEF Moves, Holding, Daemons!Up
    <2>5. QED
        BY <1>1, <2>3, <2>4 DEF StartInv
<1>5. QED
    BY <1>1, <1>3, <1>4

\* The port goes to one process, which serves when no other comes or goes.
LEMMA StepOpenPort == ASSUME StartInv, NEW p \in Processes, Daemons!OpenPort(p) PROVE StartInv'
<1>1. /\ UNCHANGED <<path, socket, crossed>> /\ stage[p] = "up"
      /\ \/ port = None /\ port' = p /\ Daemons!Goto(p, "serving")
         \/ port' = port /\ Daemons!Goto(p, "closing")
    BY DEF Daemons!OpenPort, Daemons!At
<1>2. ~crossed => /\ stage[p] \in Daemons!Touching /\ \A q \in Others(p) : stage[q] # "serving"
                  /\ path = socket[p] /\ path # None
    BY <1>1 DEF Daemons!Touching, StartInv, InTurn, Reached, Holding, Daemons!Up, Cleared,
                Clearing, Others
<1>3. CASE port = None /\ port' = p /\ Daemons!Goto(p, "serving")
    <2>1. Moves(p, "serving")
        BY <1>1, <1>3, OneMoves DEF StartInv, Places
    <2>2. \A q \in Others(p) : stage[q] # "serving" \/ port' = q
        BY <1>3, StartConstants DEF StartInv, Placed, Others, Daemons!StartAssumption
    <2>3. Placed'
        <3>1. \A q \in Processes : stage'[q] = "serving" => port' = q
            <4>1. ASSUME NEW q \in Others(p), stage'[q] = "serving" PROVE port' = q
                BY <2>1, <2>2, <4>1 DEF Moves
            <4>2. QED
                BY <1>3, <4>1 DEF Others
        <3>2. QED
            BY <1>1, <2>1, <3>1 DEF Moves, StartInv, Placed
    <2>4. ~crossed => InTurn'
        BY <1>1, <1>2, <2>1, Moved DEF Moves, Clearing
    <2>5. QED
        BY <1>1, <2>3, <2>4 DEF StartInv
<1>4. CASE port' = port /\ Daemons!Goto(p, "closing")
    <2>1. Moves(p, "closing")
        BY <1>1, <1>4, OneMoves DEF StartInv, Places, Daemons!Touching
    <2>2. Placed'
        BY <1>1, <1>4, <2>1, PlacedKept DEF StartInv, Placed
    <2>3. ~crossed => InTurn'
        BY <1>1, <1>2, <2>1, Moved DEF Moves
    <2>4. QED
        BY <1>1, <2>2, <2>3 DEF StartInv
<1>5. QED
    BY <1>1, <1>3, <1>4

\* Of two that serve, one would not have the port.
LEMMA StepSignal == ASSUME StartInv, NEW p \in Processes, Daemons!Signal(p) PROVE StartInv'
<1>1. /\ UNCHANGED <<path, socket, port>> /\ stage[p] = "serving"
      /\ Daemons!Goto(p, "closing") /\ Daemons!Crosses(p)
    BY DEF Daemons!Signal, Daemons!At, Daemons!sockets
<1>2. Moves(p, "closing")
    BY <1>1, OneMoves DEF StartInv, Places, Daemons!Touching
<1>3. /\ crossed' \in BOOLEAN
      /\ ~crossed' => ~crossed /\ \A q \in Others(p) : stage[q] \notin Daemons!Touching
    BY <1>1 DEF Daemons!Crosses, StartInv, Placed, Others
<1>4. Placed'
    BY <1>1, <1>2, <1>3, PlacedKept DEF StartInv, Placed
<1>5. ASSUME ~crossed' PROVE InTurn'
    <2>1. \A q \in Others(p) : stage[q] # "serving"
        BY <1>1 DEF StartInv, Placed, Others
    <2>2. path = socket[p] /\ path # None
        BY <1>1, <1>3, <1>5 DEF StartInv, InTurn, Reached, Holding, Daemons!Up
    <2>3. QED
        BY <1>1, <1>2, <1>3, <1>5, <2>1, <2>2, InTurnKept DEF Moves
<1>6. QED
    BY <1>4, <1>5 DEF StartInv

\* A process that goes removes what is at the path, which is its own.
LEMMA StepShutdown == ASSUME StartInv, NEW p \in Processes, Daemons!Shutdown(p) PROVE StartInv'
<1>1. /\ UNCHANGED crossed /\ stage[p] = "closing" /\ Daemons!Goto(p, "draining")
      /\ path' = None /\ socket' = [socket EXCEPT ![p] = None]
      /\ port' = IF port = p THEN None ELSE port
    BY DEF Daemons!Shutdown, Daemons!CloseSocket, Daemons!At
<1>2. Moves(p, "draining") /\ socket' \in [Processes -> Inodes \cup {None}]
    BY <1>1, OneMoves DEF StartInv, Places, Daemons!Touching
<1>3. Placed'
    BY <1>1, <1>2, PlacedKept DEF StartInv, Placed, Others
<1>4. ASSUME ~crossed PROVE InTurn'
    <2>1. stage[p] \in Daemons!Touching /\ \A q \in Others(p) : stage[q] # "serving"
        BY <1>1, <1>4 DEF Daemons!Touching, StartInv, InTurn, Cleared, Clearing, Others
    <2>2. QED
        BY <1>1, <1>2, <1>4, <2>1, Moved DEF Moves, Holding, Daemons!Up
<1>5. QED
    BY <1>1, <1>3, <1>4 DEF StartInv

LEMMA StepCleanup == ASSUME StartInv, NEW p \in Processes, Daemons!CleanupSocket(p) PROVE StartInv'
<1>1. /\ UNCHANGED <<socket, port, crossed>> /\ stage[p] = "draining" /\ Daemons!Goto(p, "down")
      /\ path' \in {path, None}
    BY DEF Daemons!CleanupSocket, Daemons!At
<1>2. Moves(p, "down")
    BY <1>1, OneMoves DEF StartInv, Places
<1>3. Placed'
    BY <1>1, <1>2, PlacedKept DEF StartInv, Placed
<1>4. ASSUME ~crossed PROVE InTurn'
    <2>1. stage[p] \in Daemons!Touching /\ \A q \in Others(p) : stage[q] # "serving"
        BY <1>1, <1>4 DEF Daemons!Touching, StartInv, InTurn, Cleared, Clearing, Others
    <2>2. QED
        BY <1>1, <1>2, <1>4, <2>1, Moved DEF Moves, Holding, Clearing, Daemons!Up
<1>5. QED
    BY <1>1, <1>3, <1>4 DEF StartInv

\* A crash, at any stage, leaves the path and the others alone.
LEMMA StepCrash == ASSUME StartInv, NEW p \in Processes, Daemons!Crash(p) PROVE StartInv'
<1>1. /\ UNCHANGED <<path, crossed>> /\ Daemons!Goto(p, "down")
      /\ socket' = [socket EXCEPT ![p] = None]
      /\ port' = IF port = p THEN None ELSE port
    BY DEF Daemons!Crash
<1>2. Moves(p, "down") /\ socket' \in [Processes -> Inodes \cup {None}]
    BY <1>1, OneMoves DEF StartInv, Places
<1>3. Placed'
    BY <1>1, <1>2, PlacedKept DEF StartInv, Placed, Others
<1>4. ~crossed => InTurn'
    BY <1>1, <1>2, InTurnKept DEF Moves, Holding, Clearing, Daemons!Up, Daemons!Touching
<1>5. QED
    BY <1>1, <1>3, <1>4 DEF StartInv

LEMMA StartNext == ASSUME StartInv, [Daemons!Next]_Daemons!vars PROVE StartInv'
<1>1. CASE UNCHANGED Daemons!vars
    BY <1>1 DEF Daemons!vars, Daemons!sockets, StartInv, Placed, InTurn, Alone, Reached, Cleared
<1>2. ASSUME NEW p \in Processes, Daemons!Start(p) PROVE StartInv'
    BY <1>2, StepLook, StepProbe, StepCompare, StepRemoveStale, StepBind, StepListen, StepOwn
       DEF Daemons!Start
<1>3. ASSUME NEW p \in Processes, Daemons!Serve(p) PROVE StartInv'
    BY <1>3, StepOpenPort, StepSignal, StepShutdown, StepCleanup, StepCrash DEF Daemons!Serve
<1>4. QED
    BY <1>1, <1>2, <1>3, StepBegin, StepMigrate DEF Daemons!Next

LEMMA StartReached == ASSUME StartInv PROVE Daemons!ReachedAtPath
<1>1. SUFFICES ASSUME ~crossed, NEW p \in Processes, stage[p] \in Daemons!Up
               PROVE  path = socket[p] /\ \A q \in Processes : stage[q] \in Daemons!Up => q = p
    BY DEF Daemons!ReachedAtPath
<1>2. InTurn /\ Placed
    BY <1>1 DEF StartInv
<1>3. path = socket[p]
    BY <1>1, <1>2 DEF InTurn, Reached, Holding
<1>4. \A s \in Daemons!Up : s = "serving" \/ s \in Daemons!Touching \cap Clearing
    BY DEF Daemons!Up, Daemons!Touching, Clearing
<1>5. ASSUME NEW q \in Processes, stage[q] \in Daemons!Up PROVE q = p
    <2>1. CASE stage[p] = "serving" /\ stage[q] = "serving"
        BY <1>2, <2>1 DEF Placed
    <2>2. CASE stage[p] # "serving" /\ stage[q] # "serving"
        BY <1>1, <1>2, <1>4, <1>5, <2>2 DEF InTurn, Alone
    <2>3. QED
        BY <1>1, <1>2, <1>4, <1>5, <2>1, <2>2 DEF InTurn, Cleared
<1>6. QED
    BY <1>3, <1>5

-----------------------------------------------------------------------------
(* Migrations of the database                                                *)

\* Induction, over a set of numbers in place of a predicate.
LEMMA Inductive ==
    ASSUME NEW N \in Nat, NEW S, 0 \in S, \A n \in 0..N : n \in S /\ n # N => n + 1 \in S
    PROVE  0..N \subseteq S
<1>1. SUFFICES ASSUME (0..N) \ S # {} PROVE FALSE
    OBVIOUS
<1>2. PICK n \in (0..N) \ S : \A m \in (0..N) \ S : n <= m
    <2>1. (0..N) \ S \subseteq Nat
        OBVIOUS
    <2>2. QED
        BY <1>1, <2>1, LeastNumber
<1>3. n # 0 /\ n - 1 \in 0..N /\ n - 1 # N
    BY <1>2
<1>4. n - 1 \in S
    BY <1>2, <1>3
<1>5. n \in S
    BY <1>3, <1>4
<1>6. QED
    BY <1>2, <1>5

\* The loop over the migrations has the values it says.
LEMMA SchemasValues ==
    ASSUME NEW s, NEW done
    PROVE  Daemons!Schemas(s, done) =
             [v \in 0..16 |->
                IF v = 0 THEN s ELSE Daemons!Passed(Daemons!Schemas(s, done)[v - 1], done, v)]
<1> DEFINE Upto(f, n) ==
        f = [v \in 0..n |-> IF v = 0 THEN s ELSE Daemons!Passed(f[v - 1], done, v)]
           Good == {n \in Nat : \E f : Upto(f, n)}
<1>1. 0 \in Good
    <2>1. Upto([v \in 0..0 |-> s], 0)
        OBVIOUS
    <2>2. QED
        BY <2>1
<1>2. ASSUME NEW n \in Nat, n \in Good PROVE n + 1 \in Good
    <2>1. PICK f : Upto(f, n)
        BY <1>2
    <2> DEFINE g == [v \in 0..(n + 1) |->
                       IF v <= n THEN f[v] ELSE Daemons!Passed(f[n], done, n + 1)]
    <2>2. ASSUME NEW v \in 0..(n + 1)
          PROVE  g[v] = IF v = 0 THEN s ELSE Daemons!Passed(g[v - 1], done, v)
        <3>1. CASE v = 0
            BY <2>1, <3>1
        <3>2. CASE v # 0 /\ v <= n
            <4>1. v \in 0..n /\ v - 1 \in 0..(n + 1) /\ v - 1 <= n
                BY <2>2, <3>2
            <4>2. g[v] = f[v] /\ g[v - 1] = f[v - 1]
                BY <2>2, <4>1
            <4>3. f[v] = Daemons!Passed(f[v - 1], done, v)
                BY <2>1, <3>2, <4>1
            <4>4. QED
                BY <3>2, <4>2, <4>3
        <3>3. CASE v = n + 1
            <4>1. g[v] = Daemons!Passed(f[n], done, v) /\ g[v - 1] = f[n] /\ v # 0
                BY <3>3
            <4>2. QED
                BY <4>1
        <3>4. QED
            BY <2>2, <3>1, <3>2, <3>3
    <2>3. Upto(g, n + 1)
        <3> HIDE DEF g
        <3>1. g = [v \in 0..(n + 1) |-> g[v]]
            BY DEF g
        <3> DEFINE h == [v \in 0..(n + 1) |->
                           IF v = 0 THEN s ELSE Daemons!Passed(g[v - 1], done, v)]
        <3>2. \A v \in 0..(n + 1) : h[v] = g[v]
            BY <2>2
        <3>3. h = [v \in 0..(n + 1) |-> h[v]]
            OBVIOUS
        <3>4. g = h
            <4> HIDE DEF h
            <4>1. QED
                BY <3>1, <3>2, <3>3
        <3>5. QED
            BY <3>4
    <2>4. n + 1 \in Nat
        OBVIOUS
    <2>5. QED
        <3> HIDE DEF g, Upto
        <3>1. QED
            BY <2>3, <2>4
<1>3. 16 \in Good
    <2> HIDE DEF Good
    <2>1. \A n \in 0..16 : n \in Good /\ n # 16 => n + 1 \in Good
        BY <1>2
    <2>2. QED
        BY <1>1, <2>1, Inductive
<1>4. \E f : Upto(f, 16)
    BY <1>3
<1>5. Daemons!Schemas(s, done) = CHOOSE f : Upto(f, 16)
    BY DEF Daemons!Schemas
<1> HIDE DEF Upto
<1>6. Upto(Daemons!Schemas(s, done), 16)
    BY <1>4, <1>5
<1>7. QED
    BY <1>6 DEF Upto

\* The steps of a migration are run as it says.
LEMMA AppliedValue ==
    ASSUME NEW s, NEW v, Len(Daemons!Migrations[v]) \in Nat
    PROVE  \E ran :
             /\ ran = [i \in 0..Len(Daemons!Migrations[v]) |->
                         IF i = 0 THEN s ELSE Daemons!Ran(ran[i - 1], Daemons!Migrations[v][i])]
             /\ Daemons!Applied(s, v) = ran[Len(Daemons!Migrations[v])]
<1> DEFINE N == Len(Daemons!Migrations[v])
           step(i) == Daemons!Migrations[v][i]
           Upto(f, n) == f = [i \in 0..n |-> IF i = 0 THEN s ELSE Daemons!Ran(f[i - 1], step(i))]
           Good == {n \in Nat : \E f : Upto(f, n)}
<1>1. 0 \in Good
    <2>1. Upto([i \in 0..0 |-> s], 0)
        OBVIOUS
    <2>2. QED
        BY <2>1
<1>2. ASSUME NEW n \in Nat, n \in Good PROVE n + 1 \in Good
    <2>1. PICK f : Upto(f, n)
        BY <1>2
    <2> DEFINE g == [i \in 0..(n + 1) |->
                       IF i <= n THEN f[i] ELSE Daemons!Ran(f[n], step(n + 1))]
    <2>2. ASSUME NEW i \in 0..(n + 1)
          PROVE  g[i] = IF i = 0 THEN s ELSE Daemons!Ran(g[i - 1], step(i))
        <3> HIDE DEF step
        <3>1. CASE i = 0
            BY <2>1, <3>1
        <3>2. CASE i # 0 /\ i <= n
            <4>1. i \in 0..n /\ i - 1 \in 0..(n + 1) /\ i - 1 <= n
                BY <2>2, <3>2
            <4>2. g[i] = f[i] /\ g[i - 1] = f[i - 1]
                BY <2>2, <4>1
            <4>3. f[i] = Daemons!Ran(f[i - 1], step(i))
                BY <2>1, <3>2, <4>1
            <4>4. QED
                BY <3>2, <4>2, <4>3
        <3>3. CASE i = n + 1
            <4>1. g[i] = Daemons!Ran(f[n], step(i)) /\ g[i - 1] = f[n] /\ i # 0
                BY <3>3
            <4>2. QED
                BY <4>1
        <3>4. QED
            BY <2>2, <3>1, <3>2, <3>3
    <2>3. Upto(g, n + 1)
        <3> HIDE DEF g, step
        <3>1. g = [i \in 0..(n + 1) |-> g[i]]
            BY DEF g
        <3> DEFINE h == [i \in 0..(n + 1) |->
                           IF i = 0 THEN s ELSE Daemons!Ran(g[i - 1], step(i))]
        <3>2. \A i \in 0..(n + 1) : h[i] = g[i]
            BY <2>2
        <3>3. h = [i \in 0..(n + 1) |-> h[i]]
            OBVIOUS
        <3>4. g = h
            <4> HIDE DEF h
            <4>1. QED
                BY <3>1, <3>2, <3>3
        <3>5. QED
            BY <3>4
    <2>4. n + 1 \in Nat
        OBVIOUS
    <2>5. QED
        <3> HIDE DEF g, Upto
        <3>1. QED
            BY <2>3, <2>4
<1>3. N \in Good
    <2> HIDE DEF Good, N
    <2>1. \A n \in 0..N : n \in Good /\ n # N => n + 1 \in Good
        BY <1>2
    <2>2. N \in Nat
        BY DEF N
    <2>3. 0..N \subseteq Good
        BY <1>1, <2>1, <2>2, Inductive
    <2>4. QED
        BY <2>2, <2>3
<1>4. \E f : Upto(f, N)
    BY <1>3
<1>5. Daemons!Applied(s, v) = (CHOOSE f : Upto(f, N))[N]
    BY DEF Daemons!Applied
<1>6. Upto(CHOOSE f : Upto(f, N), N)
    <2> HIDE DEF Upto
    <2>1. QED
        BY <1>4
<1>7. QED
    <2>1. PICK f : f = (CHOOSE g : Upto(g, N))
        OBVIOUS
    <2>2. Upto(f, N) /\ Daemons!Applied(s, v) = f[N]
        BY <1>5, <1>6, <2>1
    <2>3. QED
        BY <2>2

LEMMA SchemasStep ==
    ASSUME NEW s, NEW done, NEW v \in 0..16, v # 0
    PROVE  Daemons!Schemas(s, done)[v] = Daemons!Passed(Daemons!Schemas(s, done)[v - 1], done, v)
<1>1. PICK f : f = Daemons!Schemas(s, done)
    OBVIOUS
<1>2. f = [u \in 0..16 |-> IF u = 0 THEN s ELSE Daemons!Passed(f[u - 1], done, u)]
    BY <1>1, SchemasValues
<1>3. f[v] = Daemons!Passed(f[v - 1], done, v)
    BY <1>2
<1>4. QED
    BY <1>1, <1>3

\* A migration finds in a schema of k migrations, or in one it makes of it, what it would
\* find had there been no stop between them.
LEMMA MigratedOn ==
    ASSUME NEW s, NEW k \in 0..16, NEW m \in k..16,
           Daemons!Migrated(s, 1..k, m) = Daemons!SchemaOf[m],
           NEW r \in m..16
    PROVE  Daemons!Migrated(s, 1..k, r) = Daemons!SchemaOf[r]
<1> DEFINE after == Daemons!Schemas(s, 1..k)
           fresh == Daemons!Schemas({}, {})
           Same == {n \in 0..16 : n >= m => after[n] = fresh[n]}
<1>1. \A n \in 0..16 : Daemons!SchemaOf[n] = fresh[n]
    BY DEF Daemons!SchemaOf, Daemons!Migrated
<1>2. \A n \in 0..16 : Daemons!Migrated(s, 1..k, n) = after[n]
    BY DEF Daemons!Migrated
<1>3. after[m] = fresh[m]
    <2>1. m \in 0..16
        OBVIOUS
    <2>2. Daemons!SchemaOf[m] = fresh[m] /\ Daemons!Migrated(s, 1..k, m) = after[m]
        <3> HIDE DEF after, fresh
        <3>1. QED
            BY <1>1, <1>2, <2>1
    <2>3. QED
        <3> HIDE DEF after, fresh
        <3>1. QED
            BY <2>2
<1>4. 0 \in Same
    BY <1>3
<1>5. ASSUME NEW n \in 0..16, n \in Same, n # 16 PROVE n + 1 \in Same
    <2>1. CASE n + 1 > m
        <3>1. n + 1 \in 0..16 /\ n + 1 # 0 /\ n + 1 \notin 1..k /\ n >= m /\ (n + 1) - 1 = n
            BY <1>5, <2>1
        <3>2. after[n + 1] = Daemons!Passed(after[n], 1..k, n + 1)
            <4>1. after[n + 1] = Daemons!Passed(after[(n + 1) - 1], 1..k, n + 1)
                BY <3>1, SchemasStep
            <4>2. QED
                <5> HIDE DEF Same, after, fresh
                <5>1. QED
                    BY <3>1, <4>1
        <3>3. fresh[n + 1] = Daemons!Passed(fresh[n], {}, n + 1)
            <4>1. fresh[n + 1] = Daemons!Passed(fresh[(n + 1) - 1], {}, n + 1)
                BY <3>1, SchemasStep
            <4>2. QED
                <5> HIDE DEF Same, after, fresh
                <5>1. QED
                    BY <3>1, <4>1
        <3>4. after[n] = fresh[n]
            BY <1>5, <3>1
        <3>5. after[n + 1] = fresh[n + 1]
            <4> HIDE DEF after, fresh, Same
            <4>1. QED
                BY <3>1, <3>2, <3>3, <3>4 DEF Daemons!Passed
        <3>6. QED
            BY <3>1, <3>5
    <2>2. CASE n + 1 <= m
        BY <1>3, <1>5, <2>2
    <2>3. QED
        BY <2>1, <2>2
<1>6. 0..16 \subseteq Same
    <2> HIDE DEF Same
    <2>1. QED
        BY <1>4, <1>5, Inductive
<1>7. r >= m /\ r \in 0..16
    OBVIOUS
<1>8. after[r] = fresh[r]
    BY <1>6, <1>7
<1>9. QED
    BY <1>1, <1>2, <1>7, <1>8

LEMMA SameStart ==
    ASSUME NEW s, NEW done
    PROVE  Daemons!Migrated(s, done, 0) = s
BY SchemasValues DEF Daemons!Migrated

\* Migrations that have run are passed over.
LEMMA DonePassed ==
    ASSUME NEW s, NEW k \in 0..16
    PROVE  Daemons!Migrated(s, 1..k, k) = s
<1> DEFINE after == Daemons!Schemas(s, 1..k)
           Kept == {n \in Nat : n <= k => after[n] = s}
<1>1. 0 \in Kept
    BY SameStart DEF Daemons!Migrated
<1>2. ASSUME NEW n \in 0..k, n \in Kept, n # k PROVE n + 1 \in Kept
    <2>1. n + 1 \in 0..16 /\ n + 1 # 0 /\ n + 1 \in 1..k /\ (n + 1) - 1 = n /\ n <= k
        BY <1>2
    <2>2. after[n + 1] = Daemons!Passed(after[n], 1..k, n + 1)
        <3> HIDE DEF Kept
        <3>1. QED
            BY <2>1, SchemasValues, SMTT(30)
    <2>3. after[n] = s
        BY <1>2, <2>1
    <2>4. after[n + 1] = s
        <3> HIDE DEF after, Kept
        <3>1. QED
            BY <2>1, <2>2, <2>3 DEF Daemons!Passed
    <2>5. QED
        BY <2>1, <2>4
<1>3. 0..k \subseteq Kept
    <2> HIDE DEF Kept
    <2>1. QED
        BY <1>1, <1>2, Inductive
<1>4. k \in 0..k /\ k <= k
    OBVIOUS
<1>5. QED
    BY <1>3, <1>4 DEF Daemons!Migrated

\* What the table of tokens has at least, unless a migration failed.
Tokened(s) == s = Daemons!Failed \/ <<"oauth_tokens", "id">> \in s

LEMMA TokenedAdds ==
    ASSUME NEW s, NEW step, Tokened(s), step.do \in {"create", "add"}
    PROVE  Tokened(Daemons!Ran(s, step))
<1>1. CASE s = Daemons!Failed
    BY <1>1 DEF Tokened, Daemons!Ran
<1>2. CASE s # Daemons!Failed /\ step.do = "create"
    BY <1>2 DEF Tokened, Daemons!Ran
<1>3. CASE s # Daemons!Failed /\ step.do = "add"
    BY <1>3 DEF Tokened, Daemons!Ran
<1>4. QED
    BY <1>1, <1>2, <1>3

LEMMA TokenedKept ==
    ASSUME NEW s, NEW step, Tokened(s), step.table # "oauth_tokens",
           step.do \in {"create", "add", "drop", "rename table"}
    PROVE  Tokened(Daemons!Ran(s, step))
<1>1. CASE s = Daemons!Failed
    BY <1>1 DEF Tokened, Daemons!Ran
<1>2. CASE step.do \in {"create", "add"}
    BY <1>2, TokenedAdds
<1>3. CASE s # Daemons!Failed /\ step.do = "drop"
    BY <1>3 DEF Tokened, Daemons!Ran, Daemons!TableOf
<1>4. CASE s # Daemons!Failed /\ step.do = "rename table"
    BY <1>4 DEF Tokened, Daemons!Ran, Daemons!TableOf
<1>5. QED
    BY <1>1, <1>2, <1>3, <1>4

LEMMA MigrationLengths ==
    /\ Len(Daemons!Migrations[1]) = 5 /\ Len(Daemons!Migrations[2]) = 1
    /\ Len(Daemons!Migrations[3]) = 2 /\ Len(Daemons!Migrations[4]) = 3
    /\ Len(Daemons!Migrations[5]) = 1 /\ Len(Daemons!Migrations[6]) = 1
BY DEF Daemons!Migrations, Daemons!Migration1

LEMMA EarlySteps ==
    ASSUME NEW v \in 2..5, NEW i \in 1..Len(Daemons!Migrations[v])
    PROVE  /\ Daemons!Migrations[v][i].do \in {"create", "add", "drop", "rename table"}
           /\ Daemons!Migrations[v][i].table # "oauth_tokens"
<1>1. v = 2 \/ v = 3 \/ v = 4 \/ v = 5
    OBVIOUS
<1>2. CASE v = 2
    <2>1. i = 1
        BY <1>2, MigrationLengths
    <2>2. QED
        BY <1>2, <2>1 DEF Daemons!Migrations, Daemons!AddIfMissing
<1>3. CASE v = 3
    <2>1. i = 1 \/ i = 2
        BY <1>3, MigrationLengths
    <2>2. /\ Daemons!Migrations[3][1]
               = Daemons!AddIfMissing("provider_credentials", {"fallback_group"})
          /\ Daemons!Migrations[3][2] = Daemons!Create(Daemons!Policies, {})
        BY DEF Daemons!Migrations
    <2>3. /\ Daemons!Migrations[3][1].do = "add"
          /\ Daemons!Migrations[3][1].table = "provider_credentials"
          /\ Daemons!Migrations[3][2].do = "create"
          /\ Daemons!Migrations[3][2].table = "credential_fallback_policies"
        BY <2>2 DEF Daemons!AddIfMissing, Daemons!Create, Daemons!Policies
    <2>4. QED
        BY <1>3, <2>1, <2>3
<1>4. CASE v = 4
    <2>1. i = 1 \/ i = 2 \/ i = 3
        BY <1>4, MigrationLengths
    <2>2. /\ Daemons!Migrations[4][1] = Daemons!Create("policies_new", {"credential_kind"})
          /\ Daemons!Migrations[4][2] = Daemons!DropTable(Daemons!Policies)
          /\ Daemons!Migrations[4][3] = Daemons!RenameTable("policies_new", Daemons!Policies)
        BY DEF Daemons!Migrations
    <2>3. /\ Daemons!Migrations[4][1].do = "create"
          /\ Daemons!Migrations[4][1].table = "policies_new"
        BY <2>2 DEF Daemons!Create
    <2>4. /\ Daemons!Migrations[4][2].do = "drop"
          /\ Daemons!Migrations[4][2].table = "credential_fallback_policies"
        BY <2>2 DEF Daemons!DropTable, Daemons!Policies
    <2>5. /\ Daemons!Migrations[4][3].do = "rename table"
          /\ Daemons!Migrations[4][3].table = "policies_new"
        <3> DEFINE step == Daemons!RenameTable("policies_new", Daemons!Policies)
        <3>1. step.do = "rename table" /\ step.table = "policies_new"
            BY Zenon DEF Daemons!RenameTable
        <3>2. QED
            <4> HIDE DEF step
            <4>1. Daemons!Migrations[4][3] = step
                BY <2>2 DEF step
            <4>2. QED
                BY <3>1, <4>1
    <2>6. QED
        BY <1>4, <2>1, <2>3, <2>4, <2>5
<1>5. CASE v = 5
    <2>1. i = 1
        BY <1>5, MigrationLengths
    <2>2. QED
        BY <1>5, <2>1 DEF Daemons!Migrations, Daemons!Create
<1>6. QED
    BY <1>1, <1>2, <1>3, <1>4, <1>5

LEMMA TokenedApplied ==
    ASSUME NEW s, Tokened(s), NEW v \in 2..5
    PROVE  Tokened(Daemons!Applied(s, v))
<1> DEFINE N == Len(Daemons!Migrations[v])
<1>1. N \in Nat
    <2>1. v = 2 \/ v = 3 \/ v = 4 \/ v = 5
        OBVIOUS
    <2>2. QED
        BY <2>1, MigrationLengths
<1>2. PICK ran :
        /\ ran = [i \in 0..N |->
                    IF i = 0 THEN s ELSE Daemons!Ran(ran[i - 1], Daemons!Migrations[v][i])]
        /\ Daemons!Applied(s, v) = ran[N]
    BY <1>1, AppliedValue
<1> DEFINE Kept == {n \in Nat : n <= N => Tokened(ran[n])}
<1>3. 0 \in Kept
    BY <1>1, <1>2
<1>4. ASSUME NEW n \in 0..N, n \in Kept, n # N PROVE n + 1 \in Kept
    <2>1. n + 1 \in 1..N /\ n + 1 \in 0..N /\ n + 1 # 0 /\ (n + 1) - 1 = n /\ n <= N
        BY <1>1, <1>4
    <2>2. ran[n + 1] = Daemons!Ran(ran[n], Daemons!Migrations[v][n + 1])
        <3> HIDE DEF N
        <3>1. QED
            BY <1>2, <2>1
    <2>3. Tokened(ran[n])
        BY <1>4, <2>1
    <2>4. Tokened(ran[n + 1])
        <3>1. /\ Daemons!Migrations[v][n + 1].do \in {"create", "add", "drop", "rename table"}
              /\ Daemons!Migrations[v][n + 1].table # "oauth_tokens"
            BY <2>1, EarlySteps
        <3>2. Tokened(Daemons!Ran(ran[n], Daemons!Migrations[v][n + 1]))
            BY <2>3, <3>1, TokenedKept
        <3>3. QED
            BY <2>2, <3>2
    <2>5. QED
        BY <2>1, <2>4
<1>5. 0..N \subseteq Kept
    <2> HIDE DEF Kept, N
    <2>1. QED
        BY <1>1, <1>3, <1>4, Inductive
<1>6. N \in 0..N /\ N <= N
    BY <1>1
<1>7. Tokened(ran[N])
    <2> HIDE DEF N
    <2>1. QED
        BY <1>5, <1>6
<1>8. QED
    BY <1>2, <1>7

\* The base schema has the table of tokens.
LEMMA TokenedBase == Tokened(Daemons!Applied({}, 1))
<1>1. Len(Daemons!Migrations[1]) = 5
    BY MigrationLengths
<1>2. /\ Daemons!Migrations[1][1] = Daemons!Create("provider_credentials", {})
      /\ Daemons!Migrations[1][2] = Daemons!Create("oauth_tokens", {"failure_description"})
      /\ Daemons!Migrations[1][3] = Daemons!Create("model_cache", {})
      /\ Daemons!Migrations[1][4] = Daemons!Create("request_metadata", {})
      /\ Daemons!Migrations[1][5] = Daemons!Create("fallback_events", {"allowed_by_policy"})
    BY DEF Daemons!Migrations, Daemons!Migration1
<1>3. PICK ran :
        /\ ran = [i \in 0..Len(Daemons!Migrations[1]) |->
                    IF i = 0 THEN {} ELSE Daemons!Ran(ran[i - 1], Daemons!Migrations[1][i])]
        /\ Daemons!Applied({}, 1) = ran[Len(Daemons!Migrations[1])]
    <2>1. Len(Daemons!Migrations[1]) \in Nat
        BY <1>1
    <2>2. QED
        BY <2>1, AppliedValue
<1>4. /\ ran[1] = Daemons!Ran({}, Daemons!Migrations[1][1])
      /\ ran[2] = Daemons!Ran(ran[1], Daemons!Migrations[1][2])
      /\ ran[3] = Daemons!Ran(ran[2], Daemons!Migrations[1][3])
      /\ ran[4] = Daemons!Ran(ran[3], Daemons!Migrations[1][4])
      /\ ran[5] = Daemons!Ran(ran[4], Daemons!Migrations[1][5])
    BY <1>1, <1>3
<1>5. ran[1] = {<<"provider_credentials", "id">>}
    <2> DEFINE step == Daemons!Create("provider_credentials", {})
    <2>1. step.do = "create" /\ step.table = "provider_credentials" /\ step.columns = {}
        BY DEF Daemons!Create
    <2>2. {} # Daemons!Failed /\ Daemons!TableOf({}, step.table) = {}
        BY DEF Daemons!Failed, Daemons!TableOf
    <2>3. Daemons!Ran({}, step) = Daemons!Columns("provider_credentials", {})
        <3> HIDE DEF step
        <3>1. QED
            BY <2>1, <2>2 DEF Daemons!Ran
    <2>4. Daemons!Columns("provider_credentials", {}) = {<<"provider_credentials", "id">>}
        BY DEF Daemons!Columns
    <2>5. QED
        BY <1>2, <1>4, <2>3, <2>4
<1>6. Tokened(ran[2])
    <2> DEFINE step == Daemons!Create("oauth_tokens", {"failure_description"})
    <2>1. step.do = "create" /\ step.table = "oauth_tokens"
            /\ step.columns = {"failure_description"}
        BY DEF Daemons!Create
    <2>2. Daemons!TableOf(ran[1], "oauth_tokens") = {}
        BY <1>5 DEF Daemons!TableOf
    <2>3. ran[1] # Daemons!Failed
        <3>1. <<"provider_credentials", "id">> # <<"", "">>
            OBVIOUS
        <3>2. QED
            BY <1>5, <3>1 DEF Daemons!Failed
    <2>4. Daemons!Ran(ran[1], step)
            = ran[1] \cup Daemons!Columns("oauth_tokens", {"failure_description"})
        <3> HIDE DEF step
        <3>1. QED
            BY <2>1, <2>2, <2>3 DEF Daemons!Ran
    <2>5. <<"oauth_tokens", "id">> \in Daemons!Columns("oauth_tokens", {"failure_description"})
        BY DEF Daemons!Columns
    <2>6. QED
        BY <1>2, <1>4, <2>4, <2>5 DEF Tokened
<1>7. \A i \in 3..5 : Daemons!Migrations[1][i].do = "create"
    BY <1>2 DEF Daemons!Create
<1>8. Tokened(ran[3])
    BY <1>4, <1>6, <1>7, TokenedAdds
<1>9. Tokened(ran[4])
    BY <1>4, <1>7, <1>8, TokenedAdds
<1>10. Tokened(ran[5])
    BY <1>4, <1>7, <1>9, TokenedAdds
<1>11. QED
    BY <1>1, <1>3, <1>10

LEMMA FreshSchemas ==
    ASSUME NEW v \in 1..16
    PROVE  Daemons!SchemaOf[v] = Daemons!Applied(Daemons!SchemaOf[v - 1], v)
<1>1. v \in 0..16 /\ v - 1 \in 0..16 /\ v # 0
    OBVIOUS
<1>2. /\ Daemons!SchemaOf[v] = Daemons!Schemas({}, {})[v]
      /\ Daemons!SchemaOf[v - 1] = Daemons!Schemas({}, {})[v - 1]
    BY <1>1 DEF Daemons!SchemaOf, Daemons!Migrated
<1>3. Daemons!Schemas({}, {})[v] = Daemons!Passed(Daemons!Schemas({}, {})[v - 1], {}, v)
    BY <1>1, SchemasValues
<1>4. QED
    BY <1>2, <1>3 DEF Daemons!Passed

LEMMA FreshStart == Daemons!SchemaOf[0] = {}
BY SameStart DEF Daemons!SchemaOf

LEMMA OldTokened == Tokened(Daemons!SchemaOf[5])
<1>1. Tokened(Daemons!SchemaOf[1])
    BY FreshSchemas, FreshStart, TokenedBase
<1>2. Tokened(Daemons!SchemaOf[2])
    BY <1>1, FreshSchemas, TokenedApplied
<1>3. Tokened(Daemons!SchemaOf[3])
    BY <1>2, FreshSchemas, TokenedApplied
<1>4. Tokened(Daemons!SchemaOf[4])
    BY <1>3, FreshSchemas, TokenedApplied
<1>5. QED
    BY <1>4, FreshSchemas, TokenedApplied

\* Migration 6 makes of an old database what it makes of a newer one.
LEMMA OldCatchesUp ==
    Daemons!Migrated(Daemons!Old.schema, 1..5, 6) = Daemons!SchemaOf[6]
<1> DEFINE old == Daemons!Old.schema
           column == <<"oauth_tokens", "failure_description">>
           add == Daemons!AddIfMissing("oauth_tokens", {"failure_description"})
<1>1. old = Daemons!SchemaOf[5] \ {column} /\ Daemons!Old.applied = 1..5
    BY DEF Daemons!Old
<1>2. Daemons!Migrated(old, 1..5, 6) = Daemons!Applied(old, 6)
    <2>1. Daemons!Migrated(old, 1..5, 5) = old
        BY DonePassed
    <2>2. Daemons!Schemas(old, 1..5)[6] = Daemons!Passed(Daemons!Schemas(old, 1..5)[5], 1..5, 6)
        <3> HIDE DEF old
        <3>1. QED
            BY SchemasValues
    <2>3. QED
        BY <2>1, <2>2 DEF Daemons!Migrated, Daemons!Passed
<1>3. ASSUME NEW s PROVE Daemons!Applied(s, 6) = Daemons!Ran(s, add)
    <2>1. Len(Daemons!Migrations[6]) = 1 /\ Len(Daemons!Migrations[6]) \in Nat
        BY MigrationLengths
    <2>2. Daemons!Migrations[6][1] = add
        BY DEF Daemons!Migrations
    <2>3. PICK ran :
            /\ ran = [i \in 0..Len(Daemons!Migrations[6]) |->
                        IF i = 0 THEN s ELSE Daemons!Ran(ran[i - 1], Daemons!Migrations[6][i])]
            /\ Daemons!Applied(s, 6) = ran[Len(Daemons!Migrations[6])]
        <3>1. Len(Daemons!Migrations[6]) \in Nat
            BY <2>1
        <3>2. QED
            BY <3>1, AppliedValue
    <2>4. ran[0] = s /\ ran[1] = Daemons!Ran(ran[0], Daemons!Migrations[6][1])
        BY <2>1, <2>3
    <2>5. QED
        BY <2>1, <2>2, <2>3, <2>4
<1>4. Daemons!Ran(old, add) = Daemons!Ran(Daemons!SchemaOf[5], add)
    <2> HIDE DEF old, add
    <2>0. <<"", "">> # column /\ <<"", "">> # <<"oauth_tokens", "id">>
            /\ <<"oauth_tokens", "id">> # column
        OBVIOUS
    <2>1. CASE Daemons!SchemaOf[5] = Daemons!Failed
        <3>1. old = Daemons!Failed
            BY <1>1, <2>0, <2>1 DEF Daemons!Failed
        <3>2. QED
            BY <2>1, <3>1
    <2>2. CASE Daemons!SchemaOf[5] # Daemons!Failed
        <3> DEFINE s == Daemons!SchemaOf[5]
        <3>1. <<"oauth_tokens", "id">> \in s /\ <<"oauth_tokens", "id">> \in old
            BY <1>1, <2>0, <2>2, OldTokened DEF Tokened
        <3>2. old # Daemons!Failed
            BY <2>0, <3>1 DEF Daemons!Failed
        <3>3. /\ Daemons!TableOf(s, "oauth_tokens") # {}
              /\ Daemons!TableOf(old, "oauth_tokens") # {}
            BY <3>1 DEF Daemons!TableOf
        <3>4. add.do = "add" /\ add.table = "oauth_tokens"
                /\ add.columns = {"failure_description"}
            BY DEF add, Daemons!AddIfMissing
        <3>5. column \in Daemons!Columns("oauth_tokens", {"failure_description"})
            BY DEF Daemons!Columns
        <3>6. /\ Daemons!Ran(s, add)
                   = s \cup Daemons!Columns("oauth_tokens", {"failure_description"})
              /\ Daemons!Ran(old, add)
                   = old \cup Daemons!Columns("oauth_tokens", {"failure_description"})
            <4> HIDE DEF add, s, old
            <4>1. QED
                BY <2>2, <3>2, <3>3, <3>4 DEF Daemons!Ran, s
        <3>7. QED
            <4> HIDE DEF add, s, old
            <4>1. s \ {column} = old
                BY <1>1 DEF s
            <4>2. QED
                BY <3>5, <3>6, <4>1 DEF s
    <2>3. QED
        BY <2>1, <2>2
<1>5. QED
    BY <1>2, <1>3, <1>4, FreshSchemas

\* A database, or what was read of one, is of some version.
Versioned(d) ==
    \E k \in 0..16 : d.applied = 1..k /\ (d.schema = Daemons!SchemaOf[k] \/ d = Daemons!Old)

SchemaInv ==
    /\ stage \in [Processes -> Places]
    /\ release \in [Processes -> Releases \cup {None}]
    /\ DOMAIN view = Processes
    /\ Versioned(db)
    /\ \A p \in Processes :
         /\ stage[p] = "migrating" =>
              /\ release[p] \in Releases /\ Versioned(view[p])
              /\ view[p].applied \subseteq db.applied
         /\ stage[p] \notin {"down", "migrating"} =>
              release[p] \in Releases /\ 1..release[p] \subseteq db.applied

\* The missing migrations bring every database to the version they end at.
LEMMA BroughtTo ==
    ASSUME NEW d, Versioned(d), NEW r \in 1..16, d.applied \ 1..r = {},
           ~(1..r \subseteq d.applied)
    PROVE  Daemons!Migrated(d.schema, d.applied, r) = Daemons!SchemaOf[r]
<1>1. PICK k \in 0..16 :
        d.applied = 1..k /\ (d.schema = Daemons!SchemaOf[k] \/ d = Daemons!Old)
    BY DEF Versioned
<1>2. k < r
    BY <1>1
<1>3. CASE d.schema = Daemons!SchemaOf[k]
    <2>1. Daemons!Migrated(d.schema, 1..k, k) = Daemons!SchemaOf[k]
        BY <1>3, DonePassed
    <2>2. k \in 0..16 /\ k \in k..16 /\ r \in k..16
        BY <1>2
    <2>3. Daemons!Migrated(d.schema, 1..k, r) = Daemons!SchemaOf[r]
        BY <2>1, <2>2, MigratedOn
    <2>4. QED
        BY <1>1, <2>3
<1>4. CASE d = Daemons!Old
    <2>1. d.applied = 1..5
        BY <1>4 DEF Daemons!Old
    <2>2. k = 5
        <3>1. 1..k = 1..5
            BY <1>1, <2>1
        <3>2. 5 \in 1..k /\ 6 \notin 1..k
            BY <3>1
        <3>3. QED
            BY <3>2
    <2>3. 5 \in 0..16 /\ 6 \in 5..16 /\ r \in 6..16
        BY <1>2, <2>2
    <2>4. QED
        BY <1>4, <2>1, <2>3, OldCatchesUp, MigratedOn
<1>5. QED
    BY <1>1, <1>3, <1>4

LEMMA SchemaInit == ASSUME Daemons!Init PROVE SchemaInv
<1>1. Versioned(db)
    <2>1. CASE db = Daemons!Empty
        <3>1. db.applied = 1..0 /\ db.schema = Daemons!SchemaOf[0] /\ 0 \in 0..16
            BY <2>1, FreshStart DEF Daemons!Empty
        <3>2. QED
            BY <3>1 DEF Versioned
    <2>2. CASE db = Daemons!Old
        <3>1. db.applied = 1..5 /\ 5 \in 0..16
            BY <2>2 DEF Daemons!Old
        <3>2. QED
            BY <2>2, <3>1 DEF Versioned
    <2>3. QED
        BY <2>1, <2>2 DEF Daemons!Init
<1>2. QED
    BY <1>1 DEF Daemons!Init, SchemaInv, Places

LEMMA SchemaBegin ==
    ASSUME SchemaInv, NEW p \in Processes, NEW r \in Releases, Daemons!Begin(p, r)
    PROVE  SchemaInv'
<1>1. /\ stage' = [stage EXCEPT ![p] = "migrating"] /\ release' = [release EXCEPT ![p] = r]
      /\ view' = [view EXCEPT ![p] = db] /\ db' = db
    BY DEF Daemons!Begin, Daemons!Goto
<1>2. Versioned(db')
    BY <1>1 DEF SchemaInv
<1>3. /\ stage' \in [Processes -> Places] /\ release' \in [Processes -> Releases \cup {None}]
      /\ DOMAIN view' = Processes
    BY <1>1 DEF SchemaInv, Places
<1>4. ASSUME NEW q \in Processes
      PROVE  /\ stage'[q] = "migrating" =>
                  /\ release'[q] \in Releases /\ Versioned(view'[q])
                  /\ view'[q].applied \subseteq db'.applied
             /\ stage'[q] \notin {"down", "migrating"} =>
                  release'[q] \in Releases /\ 1..release'[q] \subseteq db'.applied
    <2>1. CASE q = p
        BY <1>1, <1>2, <2>1 DEF SchemaInv
    <2>2. CASE q # p
        BY <1>1, <2>2 DEF SchemaInv
    <2>3. QED
        BY <2>1, <2>2
<1>5. QED
    BY <1>2, <1>3, <1>4 DEF SchemaInv

LEMMA SchemaMigrate ==
    ASSUME SchemaInv, NEW p \in Processes, Daemons!Migrate(p)
    PROVE  SchemaInv'
<1> DEFINE r == release[p]
           v == view[p]
           stays == db' = db /\ stage' = [stage EXCEPT ![p] = "down"]
           opens == /\ stage' = [stage EXCEPT ![p] = "opened"]
                    /\ v.applied \ 1..r = {}
                    /\ 1..r \subseteq v.applied \/ v = db
                    /\ db' = IF 1..r \subseteq v.applied THEN db
                             ELSE [applied |-> 1..r,
                                   schema |-> Daemons!Migrated(v.schema, v.applied, r)]
<1>1. stage[p] = "migrating" /\ view' = [view EXCEPT ![p] = None] /\ release' = release
    BY DEF Daemons!Migrate, Daemons!At
<1>2. /\ r \in Releases /\ r \in 1..16 /\ Versioned(v) /\ v.applied \subseteq db.applied
    BY <1>1, StartConstants DEF SchemaInv, Daemons!StartAssumption
<1>3. stays \/ opens
    BY DEF Daemons!Migrate, Daemons!Goto, Daemons!Conflicts
<1>4. DOMAIN view' = Processes /\ release' \in [Processes -> Releases \cup {None}]
    BY <1>1 DEF SchemaInv
<1>5. \A q \in Processes \ {p} : view'[q] = view[q]
    BY <1>1 DEF SchemaInv
<1>6. ASSUME stays PROVE SchemaInv'
    <2>1. stage' \in [Processes -> Places] /\ Versioned(db')
        BY <1>6 DEF SchemaInv, Places
    <2>2. \A q \in Processes : stage'[q] = IF q = p THEN "down" ELSE stage[q]
        BY <1>6 DEF SchemaInv
    <2>3. db'.applied = db.applied
        BY <1>6
    <2>4. QED
        <3> HIDE DEF stays, opens
        <3>1. QED
            BY <1>1, <1>4, <1>5, <2>1, <2>2, <2>3 DEF SchemaInv
<1>7. ASSUME opens PROVE SchemaInv'
    <2>1. stage' \in [Processes -> Places]
        BY <1>7 DEF SchemaInv, Places, Daemons!Touching
    <2>2. \A q \in Processes : stage'[q] = IF q = p THEN "opened" ELSE stage[q]
        BY <1>7 DEF SchemaInv
    <2>3. Versioned(db') /\ db.applied \subseteq db'.applied /\ 1..r \subseteq db'.applied
        <3>1. CASE 1..r \subseteq v.applied
            <4>1. db' = db
                BY <1>7, <3>1
            <4>2. QED
                BY <1>2, <3>1, <4>1 DEF SchemaInv
        <3>2. CASE ~(1..r \subseteq v.applied)
            <4>1. v = db /\ v.applied \ 1..r = {}
                BY <1>7, <3>2
            <4>2. /\ db' = [applied |-> 1..r,
                            schema |-> Daemons!Migrated(v.schema, v.applied, r)]
                BY <1>7, <3>2
            <4>3. Daemons!Migrated(v.schema, v.applied, r) = Daemons!SchemaOf[r]
                BY <1>2, <3>2, <4>1, BroughtTo
            <4>4. db'.applied = 1..r /\ db'.schema = Daemons!SchemaOf[r]
                BY <4>2, <4>3
            <4>5. Versioned(db')
                <5>1. r \in 0..16
                    BY <1>2
                <5>2. QED
                    BY <4>4, <5>1 DEF Versioned
            <4>6. db.applied \subseteq db'.applied
                <5> HIDE DEF r, v
                <5>1. QED
                    BY <4>1, <4>4
            <4>7. QED
                BY <4>4, <4>5, <4>6
        <3>3. QED
            BY <3>1, <3>2
    <2>4. ASSUME NEW q \in Processes
          PROVE  /\ stage'[q] = "migrating" =>
                      /\ release'[q] \in Releases /\ Versioned(view'[q])
                      /\ view'[q].applied \subseteq db'.applied
                 /\ stage'[q] \notin {"down", "migrating"} =>
                      release'[q] \in Releases /\ 1..release'[q] \subseteq db'.applied
        <3> HIDE DEF opens, stays
        <3>1. CASE q = p
            BY <1>1, <1>2, <2>2, <2>3, <3>1
        <3>2. CASE q # p
            BY <1>1, <1>5, <2>2, <2>3, <3>2 DEF SchemaInv
        <3>3. QED
            BY <3>1, <3>2
    <2>5. QED
        <3> HIDE DEF opens, stays
        <3>1. QED
            BY <1>4, <2>1, <2>3, <2>4 DEF SchemaInv
<1>8. QED
    BY <1>3, <1>6, <1>7

\* A step that leaves the database alone and takes a process on, or down.
Leaves(p) ==
    /\ stage[p] \notin {"down", "migrating"} /\ db' = db /\ view' = view
    /\ \E s \in Places \ {"migrating"} :
         /\ stage' = [stage EXCEPT ![p] = s]
         /\ release' = release \/ (s = "down" /\ release' = [release EXCEPT ![p] = None])

LEMMA SchemaLeft ==
    ASSUME SchemaInv, NEW p \in Processes, Leaves(p)
    PROVE  SchemaInv'
<1>1. PICK u \in Places \ {"migrating"} :
        /\ stage' = [stage EXCEPT ![p] = u]
        /\ release' = release \/ (u = "down" /\ release' = [release EXCEPT ![p] = None])
    BY DEF Leaves
<1>2. stage[p] \notin {"down", "migrating"} /\ db' = db /\ view' = view
    BY DEF Leaves
<1>3. /\ stage' \in [Processes -> Places] /\ release' \in [Processes -> Releases \cup {None}]
      /\ Versioned(db') /\ DOMAIN view' = Processes
    BY <1>1, <1>2 DEF SchemaInv
<1>4. ASSUME NEW q \in Processes
      PROVE  /\ stage'[q] = "migrating" =>
                  /\ release'[q] \in Releases /\ Versioned(view'[q])
                  /\ view'[q].applied \subseteq db'.applied
             /\ stage'[q] \notin {"down", "migrating"} =>
                  release'[q] \in Releases /\ 1..release'[q] \subseteq db'.applied
    <2>1. CASE q = p
        BY <1>1, <1>2, <2>1 DEF SchemaInv
    <2>2. CASE q # p
        BY <1>1, <1>2, <2>2 DEF SchemaInv
    <2>3. QED
        BY <2>1, <2>2
<1>5. QED
    BY <1>3, <1>4 DEF SchemaInv

LEMMA SchemaCrash ==
    ASSUME SchemaInv, NEW p \in Processes, Daemons!Crash(p)
    PROVE  SchemaInv'
<1>1. /\ stage' = [stage EXCEPT ![p] = "down"] /\ release' = [release EXCEPT ![p] = None]
      /\ view' = [view EXCEPT ![p] = None] /\ db' = db
    BY DEF Daemons!Crash, Daemons!Goto
<1>2. /\ stage' \in [Processes -> Places] /\ release' \in [Processes -> Releases \cup {None}]
      /\ Versioned(db') /\ DOMAIN view' = Processes
    BY <1>1 DEF SchemaInv, Places
<1>3. ASSUME NEW q \in Processes
      PROVE  /\ stage'[q] = "migrating" =>
                  /\ release'[q] \in Releases /\ Versioned(view'[q])
                  /\ view'[q].applied \subseteq db'.applied
             /\ stage'[q] \notin {"down", "migrating"} =>
                  release'[q] \in Releases /\ 1..release'[q] \subseteq db'.applied
    <2>1. CASE q = p
        BY <1>1, <2>1 DEF SchemaInv
    <2>2. CASE q # p
        BY <1>1, <2>2 DEF SchemaInv
    <2>3. QED
        BY <2>1, <2>2
<1>4. QED
    BY <1>2, <1>3 DEF SchemaInv

LEMMA SchemaStarts ==
    ASSUME SchemaInv, NEW p \in Processes, Daemons!Start(p)
    PROVE  SchemaInv'
<1> USE DEF Daemons!Goto, Daemons!At, Places, Daemons!Touching
<1>1. ASSUME Daemons!Look(p) PROVE Leaves(p)
    BY <1>1 DEF Leaves, Daemons!Look
<1>2. ASSUME Daemons!Probe(p) PROVE Leaves(p)
    BY <1>2 DEF Leaves, Daemons!Probe
<1>3. ASSUME Daemons!ProbeInterrupted(p) PROVE Leaves(p)
    BY <1>3 DEF Leaves, Daemons!ProbeInterrupted
<1>4. ASSUME Daemons!Compare(p) PROVE Leaves(p)
    BY <1>4 DEF Leaves, Daemons!Compare
<1>5. ASSUME Daemons!RemoveStale(p) PROVE Leaves(p)
    BY <1>5 DEF Leaves, Daemons!RemoveStale
<1>6. ASSUME Daemons!Bind(p) PROVE Leaves(p)
    BY <1>6 DEF Leaves, Daemons!Bind
<1>7. ASSUME Daemons!Listen(p) PROVE Leaves(p)
    BY <1>7 DEF Leaves, Daemons!Listen
<1>8. ASSUME Daemons!Own(p) PROVE Leaves(p)
    BY <1>8 DEF Leaves, Daemons!Own
<1>9. QED
    BY <1>1, <1>2, <1>3, <1>4, <1>5, <1>6, <1>7, <1>8, SchemaLeft DEF Daemons!Start

LEMMA SchemaServes ==
    ASSUME SchemaInv, NEW p \in Processes, Daemons!Serve(p)
    PROVE  SchemaInv'
<1> USE DEF Daemons!Goto, Daemons!At, Places, Daemons!Touching
<1>1. ASSUME Daemons!OpenPort(p) PROVE Leaves(p)
    BY <1>1 DEF Leaves, Daemons!OpenPort
<1>2. ASSUME Daemons!Signal(p) PROVE Leaves(p)
    BY <1>2 DEF Leaves, Daemons!Signal
<1>3. ASSUME Daemons!Shutdown(p) PROVE Leaves(p)
    BY <1>3 DEF Leaves, Daemons!Shutdown
<1>4. ASSUME Daemons!CleanupSocket(p) PROVE Leaves(p)
    BY <1>4 DEF Leaves, Daemons!CleanupSocket
<1>5. ASSUME Daemons!Crash(p) PROVE SchemaInv'
    BY <1>5, SchemaCrash
<1>6. QED
    BY <1>1, <1>2, <1>3, <1>4, <1>5, SchemaLeft DEF Daemons!Serve

LEMMA SchemaNext == ASSUME SchemaInv, [Daemons!Next]_Daemons!vars PROVE SchemaInv'
<1>1. CASE UNCHANGED Daemons!vars
    BY <1>1 DEF Daemons!vars, SchemaInv, Versioned
<1>2. CASE Daemons!Next
    BY <1>2, SchemaBegin, SchemaMigrate, SchemaStarts, SchemaServes DEF Daemons!Next
<1>3. QED
    BY <1>1, <1>2

LEMMA SchemaHolds == ASSUME SchemaInv PROVE Daemons!SchemaAsVersioned
<1>1. PICK k \in 0..16 :
        db.applied = 1..k /\ (db.schema = Daemons!SchemaOf[k] \/ db = Daemons!Old)
    BY DEF SchemaInv, Versioned
<1>2. QED
    BY <1>1 DEF SchemaInv, Daemons!SchemaAsVersioned

-----------------------------------------------------------------------------
(* The captured-IO log *)

Contents == [Log!Generations -> Seq(Nat)]

\* All bytes are of records begun.
Begun(f, n) == \A i \in Log!Generations : \A a \in 1..Len(f[i]) : f[i][a] < n

\* Log!Generations are filled one after the other unless a rotation ended half-way.
NoGap(f) == \A i, j \in 1..MaxFiles - 1 : i < j /\ f[i] = <<>> => f[j] = <<>>

\* Of the records below n, f has those from r on whole, w giving their lengths.
Kept(f, w, n, r) == \A q \in 1..n - 1 : w[q] > 0 => Log!Holds(f, q, IF q < r THEN 0 ELSE w[q])

\* What is true of files f while no rollback has failed.
Good(f, w, n, h) ==
    /\ Log!InOrder(f) /\ Log!Bounded(f) /\ Begun(f, n) /\ (h \/ NoGap(f))
    /\ \E r \in 1..n : /\ Kept(f, w, n, r)
                      /\ \/ \A q \in 1..r - 1 : w[q] = 0
                         \/ h
                         \/ \A i \in 1..MaxFiles - 1 : f[i] # <<>>

LogInv ==
    /\ files \in Contents /\ file \in {"open", "none", "closed"} /\ size \in Nat
    /\ next \in 1..MaxRecords + 1 /\ written \in [1..MaxRecords -> Nat]
    /\ torn \in BOOLEAN /\ halted \in BOOLEAN
    /\ \A q \in next..MaxRecords : written[q] = 0
    /\ ~torn => /\ Good(files, written, next, halted)
                /\ file = "open" => size = Len(files[0])

LEMMA LengthsPositive == \A n \in Log!Lengths : n \in Nat /\ n > 0
BY LogConstants DEF Log!LogAssumption, Log!Lengths, Log!Captured

LEMMA AppendEffect ==
    ASSUME NEW f \in Contents, NEW r \in Nat, NEW n \in Nat
    PROVE  /\ Log!Appended(f, Log!Bytes(r, n)) \in Contents
           /\ \A i \in Log!Generations : i # 0 => Log!Appended(f, Log!Bytes(r, n))[i] = f[i]
           /\ Len(Log!Appended(f, Log!Bytes(r, n))[0]) = Len(f[0]) + n
           /\ \A a \in 1..Len(f[0]) : Log!Appended(f, Log!Bytes(r, n))[0][a] = f[0][a]
           /\ \A a \in Len(f[0]) + 1..Len(f[0]) + n : Log!Appended(f, Log!Bytes(r, n))[0][a] = r
<1>1. /\ Log!Bytes(r, n) \in Seq(Nat) /\ Len(Log!Bytes(r, n)) = n
      /\ \A a \in 1..n : Log!Bytes(r, n)[a] = r
    BY DEF Log!Bytes
<1>2. 0 \in Log!Generations /\ f[0] \in Seq(Nat) /\ Len(f[0]) \in Nat
    BY LogConstants DEF Log!LogAssumption, Log!Generations, Contents
<1>3. Log!Appended(f, Log!Bytes(r, n))[0] = f[0] \o Log!Bytes(r, n)
    BY <1>2 DEF Log!Appended, Contents
<1>4. /\ f[0] \o Log!Bytes(r, n) \in Seq(Nat)
      /\ Len(f[0] \o Log!Bytes(r, n)) = Len(f[0]) + Len(Log!Bytes(r, n))
      /\ \A a \in 1..Len(f[0]) + Len(Log!Bytes(r, n)) : (f[0] \o Log!Bytes(r, n))[a] =
             IF a <= Len(f[0]) THEN f[0][a] ELSE Log!Bytes(r, n)[a - Len(f[0])]
    BY <1>1, <1>2, ConcatProperties, Zenon
<1>5. Log!Appended(f, Log!Bytes(r, n)) \in Contents
    BY <1>2, <1>4 DEF Log!Appended, Contents
<1>6. \A i \in Log!Generations : i # 0 => Log!Appended(f, Log!Bytes(r, n))[i] = f[i]
    BY DEF Log!Appended, Contents
<1>7. \A a \in 1..Len(f[0]) : (f[0] \o Log!Bytes(r, n))[a] = f[0][a]
    BY <1>1, <1>2, <1>4
<1>8. \A a \in Len(f[0]) + 1..Len(f[0]) + n : (f[0] \o Log!Bytes(r, n))[a] = r
    BY <1>1, <1>2, <1>4
<1>9. QED
    BY <1>1, <1>3, <1>4, <1>5, <1>6, <1>7, <1>8

\* A rollback to the length of the active file undoes the write.
LEMMA RolledBack ==
    ASSUME NEW f \in Contents, NEW r \in Nat, NEW n \in Nat, NEW s \in Nat
    PROVE  /\ Log!Truncated(Log!Appended(f, Log!Bytes(r, n)), s) \in Contents
           /\ s = Len(f[0]) => Log!Truncated(Log!Appended(f, Log!Bytes(r, n)), s) = f
<1> DEFINE g == Log!Appended(f, Log!Bytes(r, n))
           m == IF Len(g[0]) < s THEN Len(g[0]) ELSE s
<1>1. /\ g \in Contents /\ Len(g[0]) = Len(f[0]) + n
      /\ \A i \in Log!Generations : i # 0 => g[i] = f[i]
      /\ \A a \in 1..Len(f[0]) : g[0][a] = f[0][a]
    BY AppendEffect, ZenonT(40)
<1>2. 0 \in Log!Generations /\ f[0] \in Seq(Nat) /\ Len(f[0]) \in Nat /\ g[0] \in Seq(Nat)
    BY <1>1, LogConstants DEF Log!LogAssumption, Log!Generations, Contents
<1>3. m \in 0..Len(g[0]) /\ (s = Len(f[0]) => m = Len(f[0]))
    BY <1>1, <1>2
<1>4. /\ SubSeq(g[0], 1, m) \in Seq(Nat) /\ Len(SubSeq(g[0], 1, m)) = m
      /\ \A a \in 1..m : SubSeq(g[0], 1, m)[a] = g[0][a]
    BY <1>2, <1>3, SubSeqProperties
<1>5. Log!Truncated(g, s) = [g EXCEPT ![0] = SubSeq(g[0], 1, m)]
    BY <1>1, <1>2 DEF Log!Truncated, Contents
<1>6. s = Len(f[0]) => SubSeq(g[0], 1, m) = f[0]
    <2>1. SUFFICES ASSUME s = Len(f[0]) PROVE SubSeq(g[0], 1, m) = f[0]
        OBVIOUS
    <2>2. Len(SubSeq(g[0], 1, m)) = Len(f[0])
        BY <1>3, <1>4, <2>1
    <2>3. \A a \in 1..Len(f[0]) : SubSeq(g[0], 1, m)[a] = f[0][a]
        BY <1>1, <1>3, <1>4, <2>1
    <2>4. QED
        BY <1>2, <1>4, <2>2, <2>3, SeqEqual
<1>7. QED
    BY <1>1, <1>2, <1>4, <1>5, <1>6 DEF Contents

\* The step of a rotation that drops the oldest generation.
LEMMA ShiftEffect ==
    ASSUME NEW f \in Contents, NEW k \in 0..MaxFiles
    PROVE  /\ Log!Shifted(f, k) \in Contents
           /\ \A i \in Log!Generations :
                /\ i < MaxFiles - k => Log!Shifted(f, k)[i] = f[i]
                /\ i = MaxFiles - k => Log!Shifted(f, k)[i] = <<>>
                /\ i > MaxFiles - k => i - 1 \in Log!Generations /\ Log!Shifted(f, k)[i] = f[i - 1]
<1>1. MaxFiles \in Nat \ {0}
    BY LogConstants DEF Log!LogAssumption
<1>2. ASSUME NEW i \in Log!Generations, i > MaxFiles - k PROVE i - 1 \in Log!Generations
    BY <1>1, <1>2 DEF Log!Generations
<1>3. QED
    BY <1>1, <1>2 DEF Log!Shifted, Contents, Log!Generations

LEMMA HoldsNone ==
    ASSUME NEW f \in Contents, NEW r
    PROVE  Log!Holds(f, r, 0) <=> \A i \in Log!Generations : \A a \in 1..Len(f[i]) : f[i][a] # r
<1>1. ASSUME NEW s \in Nat PROVE s + 1..s + 0 = {}
    BY <1>1
<1>2. 0 \in Log!Generations /\ \A i \in Log!Generations : Len(f[i]) \in Nat
    BY LogConstants DEF Log!LogAssumption, Log!Generations, Contents
<1>3. ASSUME \A i \in Log!Generations : \A a \in 1..Len(f[i]) : f[i][a] # r
      PROVE  Log!Holds(f, r, 0)
    <2>1. 0 \in 0..Len(f[0]) /\ 0 + 0 <= Len(f[0]) /\ 0 + 1..0 + 0 = {}
        BY <1>2
    <2>2. QED
        BY <1>2, <1>3, <2>1 DEF Log!Holds, Log!HeldAt
<1>4. ASSUME Log!Holds(f, r, 0)
      PROVE  \A i \in Log!Generations : \A a \in 1..Len(f[i]) : f[i][a] # r
    BY <1>1, <1>2, <1>4 DEF Log!Holds, Log!HeldAt
<1>5. QED
    BY <1>3, <1>4

\* A record that is held has its first byte where it begins.
LEMMA HeldFirst ==
    ASSUME NEW f \in Contents, NEW r, NEW n \in Nat \ {0},
           NEW g \in Log!Generations, NEW s \in 0..Len(f[g]), Log!HeldAt(f, r, n, g, s)
    PROVE  s + 1 \in 1..Len(f[g]) /\ f[g][s + 1] = r
<1>1. Len(f[g]) \in Nat
    BY DEF Contents
<1>2. s + 1 \in 1..Len(f[g]) /\ s + 1 \in s + 1..s + n
    BY <1>1 DEF Log!HeldAt
<1>3. QED
    BY <1>2 DEF Log!HeldAt

\* Where the shift has put the bytes of a generation.
Before(k, i) == IF i < MaxFiles - k THEN i ELSE i - 1

LEMMA ShiftedByte ==
    ASSUME NEW f \in Contents, NEW k \in 0..MaxFiles, NEW i \in Log!Generations,
           NEW a \in 1..Len(Log!Shifted(f, k)[i])
    PROVE  /\ Before(k, i) \in Log!Generations /\ i # MaxFiles - k
           /\ k > 0 => Before(k, i) < MaxFiles - 1
           /\ Log!Shifted(f, k)[i] = f[Before(k, i)]
<1>1. MaxFiles \in Nat \ {0}
    BY LogConstants DEF Log!LogAssumption
<1>2. i # MaxFiles - k
    BY ShiftEffect
<1>3. CASE i < MaxFiles - k
    <2>1. Before(k, i) = i /\ (k > 0 => i < MaxFiles - 1)
        BY <1>1, <1>3 DEF Before, Log!Generations
    <2>2. QED
        BY <1>2, <1>3, <2>1, ShiftEffect
<1>4. CASE i > MaxFiles - k
    <2>1. Before(k, i) = i - 1 /\ i - 1 < MaxFiles - 1
        BY <1>1, <1>4 DEF Before, Log!Generations
    <2>2. QED
        BY <1>2, <1>4, <2>1, ShiftEffect
<1>5. QED
    BY <1>1, <1>2, <1>3, <1>4 DEF Log!Generations

LEMMA ShiftInOrder ==
    ASSUME NEW f \in Contents, NEW k \in 0..MaxFiles, Log!InOrder(f)
    PROVE  Log!InOrder(Log!Shifted(f, k))
<1> DEFINE g == Log!Shifted(f, k)
<1>1. SUFFICES ASSUME NEW i \in Log!Generations, NEW j \in Log!Generations,
                      NEW a \in 1..Len(g[i]), NEW b \in 1..Len(g[j]),
                      i > j \/ (i = j /\ a < b)
               PROVE  g[i][a] <= g[j][b]
    BY DEF Log!InOrder
<1>2. /\ Before(k, i) \in Log!Generations /\ g[i] = f[Before(k, i)] /\ i # MaxFiles - k
      /\ Before(k, j) \in Log!Generations /\ g[j] = f[Before(k, j)] /\ j # MaxFiles - k
    BY ShiftedByte
<1>3. i > j => Before(k, i) > Before(k, j)
    BY <1>2, LogConstants DEF Log!LogAssumption, Before, Log!Generations
<1>4. QED
    BY <1>1, <1>2, <1>3 DEF Log!InOrder

LEMMA ShiftBounded ==
    ASSUME NEW f \in Contents, NEW k \in 0..MaxFiles, Log!Bounded(f)
    PROVE  Log!Bounded(Log!Shifted(f, k))
<1> DEFINE g == Log!Shifted(f, k)
<1>1. SUFFICES ASSUME NEW i \in Log!Generations
               PROVE  Len(g[i]) <= FileBytes \/ \A a \in 1..Len(g[i]) : g[i][a] = g[i][1]
    BY DEF Log!Bounded
<1>2. CASE \E a \in 1..Len(g[i]) : TRUE
    BY <1>2, ShiftedByte DEF Log!Bounded
<1>3. CASE ~\E a \in 1..Len(g[i]) : TRUE
    BY <1>3
<1>4. QED
    BY <1>2, <1>3

LEMMA ShiftBegun ==
    ASSUME NEW f \in Contents, NEW k \in 0..MaxFiles, NEW n, Begun(f, n)
    PROVE  Begun(Log!Shifted(f, k), n)
BY ShiftedByte DEF Begun

\* A record that is in no dropped file is in one still.
LEMMA ShiftHolds ==
    ASSUME NEW f \in Contents, NEW k \in 1..MaxFiles, NEW r,
           NEW n \in Nat \ {0}, Log!Holds(f, r, n),
           \A a \in 1..Len(f[MaxFiles - 1]) : f[MaxFiles - 1][a] # r
    PROVE  Log!Holds(Log!Shifted(f, k), r, n)
<1> DEFINE g == Log!Shifted(f, k)
<1>0. MaxFiles \in Nat \ {0} /\ k \in 0..MaxFiles
    BY LogConstants DEF Log!LogAssumption
<1>1. PICK h \in Log!Generations : \E s \in 0..Len(f[h]) : Log!HeldAt(f, r, n, h, s)
    BY DEF Log!Holds
<1>2. PICK s \in 0..Len(f[h]) : Log!HeldAt(f, r, n, h, s)
    BY <1>1
<1>3. h < MaxFiles - 1
    BY <1>0, <1>2, HeldFirst DEF Log!Generations
<1> DEFINE x == IF h < MaxFiles - k THEN h ELSE h + 1
<1>4. x \in Log!Generations /\ g[x] = f[h]
    <2>1. CASE h < MaxFiles - k
        BY <1>0, <2>1, ShiftEffect
    <2>2. CASE ~(h < MaxFiles - k)
        <3>1. x = h + 1 /\ x \in Log!Generations /\ x > MaxFiles - k /\ x - 1 = h
            BY <1>0, <1>3, <2>2 DEF Log!Generations
        <3>2. QED
            BY <1>0, <3>1, ShiftEffect
    <2>3. QED
        BY <2>1, <2>2
<1>5. ASSUME NEW i \in Log!Generations, NEW a \in 1..Len(g[i])
      PROVE  g[i][a] = r <=> i = x /\ a \in s + 1..s + n
    <2>1. Before(k, i) \in Log!Generations /\ g[i] = f[Before(k, i)] /\ i # MaxFiles - k
        BY <1>0, ShiftedByte
    <2>2. Before(k, i) = h <=> i = x
        BY <1>0, <1>3, <2>1 DEF Before, Log!Generations
    <2>3. g[i][a] = r <=> Before(k, i) = h /\ a \in s + 1..s + n
        BY <1>2, <2>1 DEF Log!HeldAt
    <2>4. QED
        BY <2>2, <2>3
<1>6. Log!HeldAt(g, r, n, x, s)
    BY <1>2, <1>4, <1>5, Zenon DEF Log!HeldAt
<1>7. QED
    BY <1>4, <1>6, Zenon DEF Log!Holds

\* The records a shift drops are the oldest that were kept.
LEMMA ShiftKeeps ==
    ASSUME NEW f \in Contents, NEW k \in 1..MaxFiles, NEW n \in 1..MaxRecords + 1,
           Log!InOrder(f), Begun(f, n), NEW w \in [1..MaxRecords -> Nat],
           NEW r \in 1..n, Kept(f, w, n, r)
    PROVE  \E t \in r..n : /\ Kept(Log!Shifted(f, k), w, n, t)
                           /\ f[MaxFiles - 1] = <<>> => t = r
<1> DEFINE last == f[MaxFiles - 1]
           g == Log!Shifted(f, k)
<1>0. /\ MaxFiles \in Nat \ {0} /\ MaxFiles - 1 \in Log!Generations /\ k \in 0..MaxFiles
      /\ MaxRecords \in Nat
    BY LogConstants DEF Log!LogAssumption, Log!Generations
<1>1. last \in Seq(Nat) /\ Len(last) \in Nat /\ \A a \in 1..Len(last) : last[a] \in Nat
    BY <1>0 DEF Contents
\* Kept by all but the last file, or dropped with it.
<1>2. ASSUME NEW t \in r..n,
             \A a \in 1..Len(last) : last[a] < t,
             t = r \/ (Len(last) > 0 /\ last[Len(last)] = t - 1)
      PROVE  Kept(g, w, n, t)
    <2>1. SUFFICES ASSUME NEW q \in 1..n - 1, w[q] > 0
                   PROVE  Log!Holds(g, q, IF q < t THEN 0 ELSE w[q])
        BY DEF Kept
    <2>2. w[q] \in Nat \ {0} /\ g \in Contents
        BY <1>0, <2>1, ShiftEffect
    <2>3. CASE q >= t
        <3>1. Log!Holds(f, q, w[q]) /\ \A a \in 1..Len(last) : last[a] # q
            BY <1>1, <1>2, <2>1, <2>3 DEF Kept
        <3>2. QED
            BY <2>2, <2>3, <3>1, ShiftHolds
    <2>4. CASE q < r
        <3>1. Log!Holds(f, q, 0)
            BY <2>1, <2>4 DEF Kept
        <3>2. \A i \in Log!Generations : \A a \in 1..Len(f[i]) : f[i][a] # q
            BY <3>1, HoldsNone
        <3>3. ASSUME NEW i \in Log!Generations, NEW a \in 1..Len(g[i]) PROVE g[i][a] # q
            <4>1. Before(k, i) \in Log!Generations /\ g[i] = f[Before(k, i)]
                BY <1>0, ShiftedByte
            <4>2. QED
                BY <3>2, <4>1
        <3>4. Log!Holds(g, q, 0) /\ q < t
            BY <2>2, <2>4, <3>3, HoldsNone
        <3>5. QED
            BY <3>4
    <2>5. CASE q < t /\ q >= r
        <3>1. Log!Holds(f, q, w[q])
            BY <2>1, <2>5 DEF Kept
        <3>2. PICK h \in Log!Generations : \E s \in 0..Len(f[h]) : Log!HeldAt(f, q, w[q], h, s)
            BY <3>1 DEF Log!Holds
        <3>3. PICK s \in 0..Len(f[h]) : Log!HeldAt(f, q, w[q], h, s)
            BY <3>2
        <3>4. s + 1 \in 1..Len(f[h]) /\ f[h][s + 1] = q
            BY <2>2, <3>3, HeldFirst
        <3>5. Len(last) > 0 /\ last[Len(last)] = t - 1 /\ Len(last) \in 1..Len(last)
            BY <1>1, <1>2, <2>5
        <3>6. h = MaxFiles - 1
            <4>1. SUFFICES ASSUME h < MaxFiles - 1 PROVE FALSE
                BY <1>0 DEF Log!Generations
            <4>2. last[Len(last)] <= q
                BY <1>0, <3>4, <3>5, <4>1 DEF Log!InOrder
            <4>3. last[Len(last)] = q
                BY <2>5, <3>5, <4>2
            <4>4. QED
                BY <1>0, <3>3, <3>5, <4>1, <4>3, SMTT(30) DEF Log!HeldAt
        <3>7. ASSUME NEW i \in Log!Generations, NEW a \in 1..Len(g[i]) PROVE g[i][a] # q
            <4>1. Before(k, i) \in Log!Generations /\ Before(k, i) < MaxFiles - 1
                  /\ g[i] = f[Before(k, i)]
                BY <1>0, ShiftedByte
            <4>2. Before(k, i) # h /\ a \in 1..Len(f[Before(k, i)])
                BY <1>0, <3>6, <4>1 DEF Log!Generations
            <4>3. QED
                BY <3>3, <4>1, <4>2 DEF Log!HeldAt
        <3>8. Log!Holds(g, q, 0)
            BY <2>2, <3>7, HoldsNone
        <3>9. QED
            BY <2>5, <3>8
    <2>6. QED
        BY <2>3, <2>4, <2>5
<1>3. CASE Len(last) = 0
    <2>1. r \in r..n /\ \A a \in 1..Len(last) : last[a] < r
        BY <1>1, <1>3
    <2>2. QED
        BY <1>2, <2>1
<1>4. CASE Len(last) > 0
    <2>1. last # <<>>
        BY <1>4
    <2>2. Len(last) \in 1..Len(last) /\ last[Len(last)] \in Nat /\ last[Len(last)] < n
        BY <1>0, <1>1, <1>4 DEF Begun
    <2>3. ASSUME NEW a \in 1..Len(last) PROVE last[a] <= last[Len(last)]
        <3>1. CASE a = Len(last)
            BY <2>2, <3>1
        <3>2. CASE a < Len(last)
            BY <1>0, <2>2, <3>2 DEF Log!InOrder
        <3>3. QED
            BY <1>1, <3>1, <3>2
    <2>4. CASE last[Len(last)] < r
        <3>1. r \in r..n /\ \A a \in 1..Len(last) : last[a] < r
            BY <1>1, <2>2, <2>3, <2>4
        <3>2. QED
            BY <1>2, <3>1
    <2>5. CASE last[Len(last)] >= r
        <3> DEFINE t == last[Len(last)] + 1
        <3>0. \A x \in Nat : x < n /\ x >= r => x + 1 \in r..n
            BY <1>0
        <3>1. t \in r..n
            BY <2>2, <2>5, <3>0, Zenon
        <3>2. ASSUME NEW a \in 1..Len(last) PROVE last[a] < t
            BY <1>1, <2>2, <2>3
        <3>3. Kept(g, w, n, t)
            BY <1>2, <1>4, <2>2, <3>1, <3>2
        <3>4. QED
            BY <2>1, <3>1, <3>3
    <2>6. QED
        BY <2>2, <2>4, <2>5
<1>5. QED
    BY <1>1, <1>3, <1>4

\* A completed rotation of files that are not empty forgets no more than it must.
LEMMA ShiftGood ==
    ASSUME NEW f \in Contents, NEW k \in 0..MaxFiles, NEW n \in 1..MaxRecords + 1,
           NEW w \in [1..MaxRecords -> Nat], NEW h \in BOOLEAN, Good(f, w, n, h), f[0] # <<>>
    PROVE  Good(Log!Shifted(f, k), w, n, h \/ k < MaxFiles)
<1> DEFINE g == Log!Shifted(f, k)
           Long(x, r, b) == \/ \A q \in 1..r - 1 : w[q] = 0
                            \/ b
                            \/ \A i \in 1..MaxFiles - 1 : x[i] # <<>>
<1>0. MaxFiles \in Nat \ {0} /\ MaxRecords \in Nat
    BY LogConstants DEF Log!LogAssumption
<1>1. Log!InOrder(g) /\ Log!Bounded(g) /\ Begun(g, n)
    BY ShiftInOrder, ShiftBounded, ShiftBegun DEF Good
<1>2. PICK r \in 1..n : Kept(f, w, n, r) /\ Long(f, r, h)
    BY DEF Good
<1>3. CASE k = 0
    <2>1. g = f
        BY <1>0, <1>3 DEF Log!Shifted, Log!Generations, Contents
    <2>2. h \/ k < MaxFiles
        BY <1>0, <1>3
    <2>3. QED
        BY <1>1, <1>2, <2>1, <2>2 DEF Good
<1>4. CASE k \in 1..MaxFiles - 1
    <2>0. k \in 1..MaxFiles /\ Log!InOrder(f) /\ Begun(f, n)
        BY <1>0, <1>4 DEF Good
    <2>1. PICK t \in r..n : Kept(g, w, n, t)
        BY <1>2, <2>0, ShiftKeeps
    <2>2. (h \/ k < MaxFiles) /\ t \in 1..n
        BY <1>0, <1>4
    <2>3. QED
        BY <1>1, <2>1, <2>2, Zenon DEF Good
<1>5. CASE k = MaxFiles
    <2>1. PICK t \in r..n : Kept(g, w, n, t) /\ (f[MaxFiles - 1] = <<>> => t = r)
        BY <1>0, <1>2, <1>5, ShiftKeeps DEF Good
    <2>2. ASSUME NEW i \in 1..MaxFiles - 1
          PROVE  i \in Log!Generations /\ i - 1 \in Log!Generations /\ g[i] = f[i - 1]
        <3>1. i \in Log!Generations /\ i > MaxFiles - k
            BY <1>0, <1>5 DEF Log!Generations
        <3>2. QED
            BY <3>1, ShiftEffect
    <2>3. h \/ NoGap(g)
        <3>1. SUFFICES ASSUME NoGap(f), NEW i \in 1..MaxFiles - 1, NEW j \in 1..MaxFiles - 1,
                              i < j, g[i] = <<>>
                       PROVE  g[j] = <<>>
            BY DEF Good, NoGap
        <3>2. f[i - 1] = <<>> /\ g[j] = f[j - 1]
            BY <2>2, <3>1
        <3>3. i # 1
            <4>1. i = 1 => i - 1 = 0
                OBVIOUS
            <4>2. QED
                BY <3>2, <4>1, Zenon
        <3>4. i - 1 \in 1..MaxFiles - 1 /\ j - 1 \in 1..MaxFiles - 1 /\ i - 1 < j - 1
            BY <1>0, <3>1, <3>3
        <3>5. QED
            BY <3>1, <3>2, <3>4 DEF NoGap
    <2>4. CASE f[MaxFiles - 1] = <<>>
        <3>1. MaxFiles - 1 \in 1..MaxFiles - 1
            BY <1>0, <2>4
        <3>2. Long(g, t, h)
            BY <1>2, <2>1, <2>4, <3>1
        <3>3. t \in 1..n /\ (h => h \/ k < MaxFiles)
            BY <1>0
        <3>4. QED
            BY <1>1, <2>1, <2>3, <3>2, <3>3 DEF Good
    <2>5. CASE f[MaxFiles - 1] # <<>>
        <3>1. ASSUME NoGap(f), NEW i \in 1..MaxFiles - 1 PROVE g[i] # <<>>
            <4>1. g[i] = f[i - 1]
                BY <2>2
            <4>2. CASE i = 1
                BY <4>1, <4>2
            <4>3. CASE i # 1
                <5>1. i - 1 \in 1..MaxFiles - 1 /\ MaxFiles - 1 \in 1..MaxFiles - 1
                      /\ i - 1 < MaxFiles - 1
                    BY <1>0, <4>3
                <5>2. QED
                    BY <2>5, <3>1, <4>1, <5>1 DEF NoGap
            <4>4. QED
                BY <4>2, <4>3
        <3>2. Long(g, t, h)
            BY <3>1 DEF Good
        <3>3. t \in 1..n
            BY <1>0
        <3>4. QED
            BY <1>1, <2>1, <2>3, <3>2, <3>3 DEF Good
    <2>6. QED
        BY <2>4, <2>5
<1>6. QED
    BY <1>0, <1>3, <1>4, <1>5

\* A record is begun, and nothing of it is left.
LEMMA NextGood ==
    ASSUME NEW f \in Contents, NEW n \in 1..MaxRecords, NEW w \in [1..MaxRecords -> Nat],
           \A q \in n..MaxRecords : w[q] = 0, NEW h, Good(f, w, n, h)
    PROVE  Good(f, w, n + 1, h)
<1>0. MaxRecords \in Nat
    BY LogConstants DEF Log!LogAssumption
<1>1. PICK r \in 1..n : /\ Kept(f, w, n, r)
                        /\ \/ \A q \in 1..r - 1 : w[q] = 0
                           \/ h
                           \/ \A i \in 1..MaxFiles - 1 : f[i] # <<>>
    BY DEF Good
<1>2. ASSUME NEW q \in 1..n + 1 - 1, w[q] > 0 PROVE q \in 1..n - 1
    BY <1>0, <1>2
<1>3. Kept(f, w, n + 1, r)
    BY <1>1, <1>2 DEF Kept
<1>4. ASSUME NEW i \in Log!Generations, NEW a \in 1..Len(f[i]), f[i][a] < n PROVE f[i][a] < n + 1
    BY <1>0, <1>4 DEF Contents
<1>5. Begun(f, n + 1)
    BY <1>4 DEF Good, Begun
<1>6. r \in 1..n + 1
    BY <1>0
<1>7. QED
    BY <1>1, <1>3, <1>5, <1>6 DEF Good

\* A record, or the beginning of one, is appended to a file it fits into.
LEMMA AddGood ==
    ASSUME NEW f \in Contents, NEW n \in 1..MaxRecords, NEW w \in [1..MaxRecords -> Nat],
           \A q \in n..MaxRecords : w[q] = 0, NEW h, Good(f, w, n, h),
           NEW j \in Nat, Len(f[0]) = 0 \/ Len(f[0]) + j <= FileBytes,
           NEW v \in {0, j}
    PROVE  Good(Log!Appended(f, Log!Bytes(n, j)), [w EXCEPT ![n] = v], n + 1, h)
<1> DEFINE g == Log!Appended(f, Log!Bytes(n, j))
           u == [w EXCEPT ![n] = v]
           long == Len(f[0])
<1>0. /\ MaxFiles \in Nat \ {0} /\ MaxRecords \in Nat /\ FileBytes \in Nat /\ n \in Nat /\ v \in Nat
      /\ 0 \in Log!Generations /\ \A i \in Log!Generations : f[i] \in Seq(Nat) /\ Len(f[i]) \in Nat
      /\ 1..MaxFiles - 1 \subseteq Log!Generations
    BY LogConstants DEF Log!LogAssumption, Log!Generations, Contents
<1>1. /\ g \in Contents /\ Len(g[0]) = long + j
      /\ \A i \in Log!Generations : i # 0 => g[i] = f[i]
      /\ \A a \in 1..long : g[0][a] = f[0][a]
      /\ \A a \in long + 1..long + j : g[0][a] = n
    <2>1. n \in Nat
        BY <1>0
    <2>2. QED
        <3>1. g \in Contents
            BY <2>1, AppendEffect, ZenonT(40)
        <3>2. Len(g[0]) = long + j
            BY <2>1, AppendEffect, ZenonT(40)
        <3>3. \A i \in Log!Generations : i # 0 => g[i] = f[i]
            BY <2>1, AppendEffect, ZenonT(40)
        <3>4. \A a \in 1..long : g[0][a] = f[0][a]
            BY <2>1, AppendEffect, ZenonT(40)
        <3>5. \A a \in long + 1..long + j : g[0][a] = n
            BY <2>1, AppendEffect, ZenonT(40)
        <3>6. QED
            BY <3>1, <3>2, <3>3, <3>4, <3>5
\* A byte of g is the record's, or as it was in f.
<1>2. ASSUME NEW i \in Log!Generations, NEW a \in 1..Len(g[i])
      PROVE  \/ i = 0 /\ a \in long + 1..long + j /\ g[i][a] = n
             \/ (i = 0 => a <= long) /\ a \in 1..Len(f[i]) /\ g[i][a] = f[i][a] /\ g[i][a] < n
    <2>1. CASE i = 0 /\ a > long
        BY <1>0, <1>1, <2>1
    <2>2. CASE i = 0 /\ ~(a > long)
        <3>1. a \in 1..long
            BY <1>0, <1>1, <2>2
        <3>2. QED
            BY <1>1, <2>2, <3>1 DEF Good, Begun
    <2>3. CASE i # 0
        BY <1>1, <2>3 DEF Good, Begun
    <2>4. QED
        BY <2>1, <2>2, <2>3
<1>3. ASSUME NEW i \in Log!Generations, NEW a \in 1..Len(g[i])
      PROVE  g[i][a] \in Nat /\ g[i][a] <= n /\ g[i][a] < n + 1
    <2>0. g[i] \in Seq(Nat)
        BY <1>1 DEF Contents
    <2>1. g[i][a] \in Nat
        BY <2>0, ElementOfSeq
    <2>2. g[i][a] = n \/ g[i][a] < n
        BY <1>2, Zenon
    <2>3. QED
        BY <1>0, <2>1, <2>2
<1>4. Log!InOrder(g)
    <2>1. SUFFICES ASSUME NEW i \in Log!Generations, NEW k \in Log!Generations,
                          NEW a \in 1..Len(g[i]), NEW b \in 1..Len(g[k]),
                          i > k \/ (i = k /\ a < b)
                   PROVE  g[i][a] <= g[k][b]
        BY DEF Log!InOrder
    <2>2. CASE g[k][b] = n
        BY <1>3, <2>2
    <2>3. CASE g[k][b] # n
        <3>1. b \in 1..Len(f[k]) /\ g[k][b] = f[k][b] /\ (k = 0 => b <= long)
            BY <1>2, <2>3
        <3>2. ~(i = 0 /\ a \in long + 1..long + j)
            BY <1>0, <2>1, <3>1 DEF Log!Generations
        <3>3. a \in 1..Len(f[i]) /\ g[i][a] = f[i][a]
            BY <1>2, <3>2
        <3>4. QED
            BY <2>1, <3>1, <3>3 DEF Good, Log!InOrder
    <2>4. QED
        BY <2>2, <2>3
<1>5. Log!Bounded(g)
    <2>1. SUFFICES ASSUME NEW i \in Log!Generations
                   PROVE  Len(g[i]) <= FileBytes \/ \A a \in 1..Len(g[i]) : g[i][a] = g[i][1]
        BY DEF Log!Bounded
    <2>2. CASE i # 0
        BY <1>1, <2>2 DEF Good, Log!Bounded
    <2>3. CASE i = 0 /\ long # 0
        BY <1>1, <2>3
    <2>4. CASE i = 0 /\ long = 0
        <3>1. ASSUME NEW a \in 1..Len(g[0]) PROVE g[0][a] = g[0][1]
            <4>1. a \in long + 1..long + j /\ 1 \in long + 1..long + j
                BY <1>0, <1>1, <2>4
            <4>2. QED
                BY <1>1, <4>1
        <3>2. QED
            BY <2>4, <3>1
    <2>5. QED
        BY <2>2, <2>3, <2>4
<1>6. Begun(g, n + 1)
    BY <1>3 DEF Begun
<1>7. h \/ NoGap(g)
    <2>1. ASSUME NEW i \in 1..MaxFiles - 1 PROVE g[i] = f[i]
        BY <1>0, <1>1
    <2>2. QED
        BY <2>1 DEF Good, NoGap
<1>8. PICK r \in 1..n : /\ Kept(f, w, n, r)
                        /\ \/ \A q \in 1..r - 1 : w[q] = 0
                           \/ h
                           \/ \A i \in 1..MaxFiles - 1 : f[i] # <<>>
    BY DEF Good
<1>9. \/ \A q \in 1..r - 1 : u[q] = 0
      \/ h
      \/ \A i \in 1..MaxFiles - 1 : g[i] # <<>>
    <2>1. ASSUME NEW q \in 1..r - 1 PROVE u[q] = w[q]
        BY <1>0
    <2>2. ASSUME NEW i \in 1..MaxFiles - 1 PROVE g[i] = f[i]
        BY <1>0, <1>1
    <2>3. QED
        BY <1>8, <2>1, <2>2
\* A record of old is held where it was.
<1>10. ASSUME NEW q \in 1..n - 1, NEW m \in Nat, Log!Holds(f, q, m) PROVE Log!Holds(g, q, m)
    <2>1. PICK x \in Log!Generations : \E s \in 0..Len(f[x]) : Log!HeldAt(f, q, m, x, s)
        BY <1>10 DEF Log!Holds
    <2>2. PICK s \in 0..Len(f[x]) : Log!HeldAt(f, q, m, x, s)
        BY <2>1
    <2>3. Len(f[x]) <= Len(g[x]) /\ Len(g[x]) \in Nat
        <3>1. Len(f[x]) \in Nat
            BY <1>0
        <3>2. CASE x = 0
            BY <1>1, <3>1, <3>2
        <3>3. CASE x # 0
            BY <1>1, <3>1, <3>3
        <3>4. QED
            BY <3>2, <3>3
    <2>4. s \in 0..Len(g[x]) /\ s + m <= Len(g[x])
        BY <1>0, <2>2, <2>3 DEF Log!HeldAt
    <2>5. ASSUME NEW i \in Log!Generations, NEW a \in 1..Len(g[i])
          PROVE  g[i][a] = q <=> i = x /\ a \in s + 1..s + m
        <3>1. CASE i = 0 /\ a \in long + 1..long + j /\ g[i][a] = n
            <4>1. g[i][a] # q
                BY <1>0, <3>1
            <4>2. ~(i = x /\ a \in s + 1..s + m)
                BY <1>0, <2>2, <3>1 DEF Log!HeldAt
            <4>3. QED
                BY <4>1, <4>2
        <3>2. CASE a \in 1..Len(f[i]) /\ g[i][a] = f[i][a]
            BY <2>2, <3>2 DEF Log!HeldAt
        <3>3. QED
            BY <1>2, <3>1, <3>2
    <2>6. Log!HeldAt(g, q, m, x, s)
        BY <2>4, <2>5, Zenon DEF Log!HeldAt
    <2>7. QED
        BY <2>4, <2>6, Zenon DEF Log!Holds
<1>11. Log!Holds(g, n, j)
    <2>1. long \in 0..Len(g[0]) /\ long + j <= Len(g[0])
        BY <1>0, <1>1
    <2>2. ASSUME NEW i \in Log!Generations, NEW a \in 1..Len(g[i])
          PROVE  g[i][a] = n <=> i = 0 /\ a \in long + 1..long + j
        <3>1. CASE i = 0 /\ a \in long + 1..long + j /\ g[i][a] = n
            BY <3>1
        <3>2. CASE (i = 0 => a <= long) /\ g[i][a] < n
            <4>1. g[i][a] # n /\ ~(i = 0 /\ a \in long + 1..long + j)
                BY <1>0, <1>3, <3>2
            <4>2. QED
                BY <4>1
        <3>3. QED
            BY <1>2, <3>1, <3>2
    <2>3. Log!HeldAt(g, n, j, 0, long)
        BY <2>1, <2>2, Zenon DEF Log!HeldAt
    <2>4. QED
        BY <1>0, <2>1, <2>3, Zenon DEF Log!Holds
<1>12. Kept(g, u, n + 1, r)
    <2>1. SUFFICES ASSUME NEW q \in 1..n + 1 - 1, u[q] > 0
                   PROVE  Log!Holds(g, q, IF q < r THEN 0 ELSE u[q])
        BY DEF Kept
    <2>2. CASE q = n
        <3>1. u[q] = j /\ ~(q < r)
            BY <1>0, <2>1, <2>2
        <3>2. QED
            BY <1>11, <2>2, <3>1
    <2>3. CASE q # n
        <3>1. q \in 1..n - 1 /\ u[q] = w[q] /\ w[q] \in Nat
            BY <1>0, <2>3
        <3>2. Log!Holds(f, q, IF q < r THEN 0 ELSE w[q])
            BY <1>8, <2>1, <3>1 DEF Kept
        <3>3. QED
            BY <1>10, <3>1, <3>2
    <2>4. QED
        BY <2>2, <2>3
<1>13. r \in 1..n + 1
    BY <1>0
<1>14. QED
    BY <1>4, <1>5, <1>6, <1>7, <1>8, <1>9, <1>12, <1>13, Zenon DEF Good

LEMMA AppendNone ==
    ASSUME NEW f \in Contents, NEW r \in Nat
    PROVE  Log!Appended(f, Log!Bytes(r, 0)) = f
<1> DEFINE g == Log!Appended(f, Log!Bytes(r, 0))
<1>0. 0 \in Log!Generations /\ f[0] \in Seq(Nat) /\ Len(f[0]) \in Nat
    BY LogConstants DEF Log!LogAssumption, Log!Generations, Contents
<1>1. g \in Contents
    BY AppendEffect
<1>2. ASSUME NEW i \in Log!Generations, i # 0 PROVE g[i] = f[i]
    BY <1>2 DEF Log!Appended, Contents
<1>3. Len(g[0]) = Len(f[0]) + 0
    BY AppendEffect
<1>4. \A a \in 1..Len(f[0]) : g[0][a] = f[0][a]
    BY AppendEffect
<1>5. g[0] = f[0]
    <2>1. g[0] \in Seq(Nat) /\ Len(g[0]) = Len(f[0])
        BY <1>0, <1>1, <1>3 DEF Contents
    <2>2. QED
        BY <1>0, <1>4, <2>1, SeqEqual
<1>6. QED
    BY <1>1, <1>2, <1>5 DEF Contents

LEMMA NextRecord ==
    ASSUME LogInv, next <= MaxRecords, next' = next + 1
    PROVE  /\ next \in 1..MaxRecords /\ next \in Nat /\ next' \in 1..MaxRecords + 1
           /\ \A q \in next'..MaxRecords : q \in next..MaxRecords /\ q # next
BY LogConstants DEF Log!LogAssumption, LogInv

\* A write keeps the invariant of files to which the record may be added.
LEMMA WriteKeeps ==
    ASSUME LogInv, next <= MaxRecords, next' = next + 1, UNCHANGED halted,
           NEW f \in Contents, NEW s \in Nat, NEW n \in Nat, Log!Write(f, s, n),
           ~torn => /\ Good(f, written, next, halted)
                    /\ s = Len(f[0]) /\ (s = 0 \/ s + n <= FileBytes)
    PROVE  LogInv'
<1>1. /\ next \in 1..MaxRecords /\ next \in Nat /\ next' \in 1..MaxRecords + 1
      /\ \A q \in next'..MaxRecords : q \in next..MaxRecords /\ q # next
    BY NextRecord
<1>2. /\ written \in [1..MaxRecords -> Nat] /\ torn \in BOOLEAN /\ halted \in BOOLEAN
      /\ \A q \in next..MaxRecords : written[q] = 0
      /\ file' \in {"open", "none", "closed"} /\ halted' \in BOOLEAN /\ halted' = halted
    BY DEF LogInv, Log!Write
<1>3. CASE /\ files' = Log!Appended(f, Log!Bytes(next, n)) /\ size' = s + n
           /\ written' = [written EXCEPT ![next] = n] /\ torn' = torn
    <2>0. next \in Nat
        BY <1>1
    <2>1. /\ files' \in Contents /\ Len(files'[0]) = Len(f[0]) + n /\ size' \in Nat
        <3>1. /\ Log!Appended(f, Log!Bytes(next, n)) \in Contents
              /\ Len(Log!Appended(f, Log!Bytes(next, n))[0]) = Len(f[0]) + n
            BY <2>0, AppendEffect
        <3>2. QED
            BY <1>3, <3>1
    <2>2. /\ written' \in [1..MaxRecords -> Nat] /\ torn' \in BOOLEAN
          /\ \A q \in next'..MaxRecords : written'[q] = 0
        BY <1>1, <1>2, <1>3
    <2>3. ASSUME ~torn' PROVE Good(files', written', next', halted') /\ size' = Len(files'[0])
        <3>1. Good(f, written, next, halted) /\ s = Len(f[0]) /\ (s = 0 \/ s + n <= FileBytes)
            BY <1>3, <2>3
        <3>2. Good(Log!Appended(f, Log!Bytes(next, n)), [written EXCEPT ![next] = n], next + 1,
                   halted)
            BY <1>1, <1>2, <3>1, AddGood
        <3>3. QED
            BY <1>2, <1>3, <2>1, <3>1, <3>2
    <2>4. QED
        BY <1>1, <1>2, <2>1, <2>2, <2>3 DEF LogInv
<1>4. ASSUME NEW j \in 0..n, size' = s, written' = written,
             \/ files' = Log!Truncated(Log!Appended(f, Log!Bytes(next, j)), s) /\ torn' = torn
             \/ files' = Log!Appended(f, Log!Bytes(next, j)) /\ torn' = (torn \/ j > 0)
      PROVE  LogInv'
    <2>0. j \in Nat /\ (~(j > 0) => j = 0)
        OBVIOUS
    <2>1. /\ files' \in Contents /\ torn' \in BOOLEAN
          /\ \A q \in next'..MaxRecords : written'[q] = 0
        <3>1. Log!Appended(f, Log!Bytes(next, j)) \in Contents
            BY <1>1, <2>0, AppendEffect
        <3>2. Log!Truncated(Log!Appended(f, Log!Bytes(next, j)), s) \in Contents
            BY <1>1, <2>0, RolledBack
        <3>3. QED
            BY <1>1, <1>2, <1>4, <3>1, <3>2
    <2>2. ASSUME ~torn' PROVE Good(files', written', next', halted') /\ size' = Len(files'[0])
        <3>1. ~torn /\ Good(f, written, next, halted) /\ s = Len(f[0])
            BY <1>2, <1>4, <2>2
        <3>2. files' = f
            <4>1. CASE files' = Log!Truncated(Log!Appended(f, Log!Bytes(next, j)), s)
                <5>1. Log!Truncated(Log!Appended(f, Log!Bytes(next, j)), s) = f
                    <6>1. next \in Nat /\ s \in Nat /\ j \in Nat /\ s = Len(f[0])
                        BY <1>1, <2>0, <3>1
                    <6>2. QED
                        BY <6>1, RolledBack, SMTT(60)
                <5>2. QED
                    BY <4>1, <5>1
            <4>2. CASE files' = Log!Appended(f, Log!Bytes(next, j)) /\ j = 0
                <5>1. Log!Appended(f, Log!Bytes(next, 0)) = f
                    BY <1>1, AppendNone
                <5>2. QED
                    BY <4>2, <5>1
            <4>3. QED
                BY <1>4, <2>0, <2>2, <4>1, <4>2
        <3>3. Good(f, written, next + 1, halted)
            BY <1>1, <1>2, <3>1, NextGood
        <3>4. QED
            BY <1>2, <1>4, <3>1, <3>2, <3>3
    <2>3. QED
        BY <1>1, <1>2, <1>4, <2>1, <2>2 DEF LogInv
<1>5. QED
    BY <1>3, <1>4 DEF Log!Write

\* The logger knows the length of a file that is not closed.
LEMMA KnownIsLength ==
    ASSUME LogInv, file # "closed"
    PROVE  Log!Known \in Nat /\ (~torn => Log!Known = Len(files[0]))
<1>1. 0 \in Log!Generations
    BY LogConstants DEF Log!LogAssumption, Log!Generations
<1>2. Len(files[0]) \in Nat
    BY <1>1 DEF LogInv, Contents
<1>3. QED
    BY <1>2 DEF LogInv, Log!Known

LEMMA Misfit ==
    ASSUME LogInv, NEW n, file # "closed", ~Log!Fits(n), ~torn
    PROVE  files[0] # <<>>
BY KnownIsLength DEF Log!Fits

LEMMA RecordKeeps ==
    ASSUME LogInv, NEW n \in Log!Lengths, Log!Record(n)
    PROVE  LogInv'
<1>0. n \in Nat /\ n > 0
    BY LengthsPositive
<1>1. /\ next <= MaxRecords /\ next' = next + 1
      /\ next \in 1..MaxRecords /\ next \in Nat /\ next' \in 1..MaxRecords + 1
      /\ \A q \in next'..MaxRecords : q \in next..MaxRecords /\ q # next
    BY NextRecord DEF Log!Record
<1>2. /\ files \in Contents /\ written \in [1..MaxRecords -> Nat] /\ halted \in BOOLEAN
      /\ torn \in BOOLEAN /\ size \in Nat /\ MaxFiles \in Nat \ {0}
      /\ \A q \in next..MaxRecords : written[q] = 0
    BY LogConstants DEF Log!LogAssumption, LogInv
<1>3. ~torn => Good(files, written, next, halted) /\ Good(files, written, next + 1, halted)
    BY <1>1, <1>2, NextGood DEF LogInv
<1>4. CASE Log!OpenFails \/ Log!Closed
    BY <1>1, <1>2, <1>3, <1>4 DEF Log!OpenFails, Log!Closed, LogInv
<1>5. CASE Log!Store(n)
    <2>1. /\ Log!Known \in Nat /\ (~torn => Log!Known = Len(files[0]))
          /\ Log!Known = 0 \/ Log!Known + n <= FileBytes
        BY <1>5, KnownIsLength DEF Log!Store, Log!Fits
    <2>2. QED
        BY <1>0, <1>1, <1>2, <1>3, <1>5, <2>1, WriteKeeps DEF Log!Store
<1>6. CASE Log!CloseFails(n)
    <2>1. Log!Known \in Nat
        BY <1>6, KnownIsLength DEF Log!CloseFails
    <2>2. QED
        BY <1>1, <1>2, <1>3, <1>6, <2>1 DEF Log!CloseFails, LogInv
<1>7. CASE Log!RotationFails(n)
    <2>1. PICK k \in 0..MaxFiles :
            /\ files' = Log!Shifted(files, k)
            /\ \/ file' = "open" /\ size' = Len(files'[0])
               \/ file' = "none" /\ size' = size
            /\ halted' = (halted \/ k < MaxFiles)
        BY <1>7 DEF Log!RotationFails
    <2>2. files' \in Contents /\ written' = written /\ torn' = torn
        BY <1>2, <1>7, <2>1, ShiftEffect DEF Log!RotationFails
    <2>3. Len(files'[0]) \in Nat
        BY <1>2, <2>2 DEF Contents, Log!Generations
    <2>4. ASSUME ~torn PROVE Good(files', written, next', halted')
        <3>1. files[0] # <<>>
            BY <1>7, <2>4, Misfit DEF Log!RotationFails
        <3>2. Good(Log!Shifted(files, k), written, next + 1, halted \/ k < MaxFiles)
            <4>1. next + 1 \in 1..MaxRecords + 1
                BY <1>1
            <4>2. QED
                BY <1>2, <1>3, <2>4, <3>1, <4>1, ShiftGood
        <3>3. QED
            BY <1>1, <2>1, <3>2, Zenon
    <2>5. QED
        BY <1>1, <1>2, <2>1, <2>2, <2>3, <2>4 DEF LogInv
<1>8. CASE Log!Rotate(n)
    <2>1. /\ Log!Shifted(files, MaxFiles) \in Contents
          /\ Log!Shifted(files, MaxFiles)[0] = <<>>
        <3>1. MaxFiles \in 0..MaxFiles /\ 0 \in Log!Generations /\ 0 = MaxFiles - MaxFiles
            BY <1>2 DEF Log!Generations
        <3>2. QED
            BY <1>2, <3>1, ShiftEffect
    <2>2. ASSUME ~torn PROVE Good(Log!Shifted(files, MaxFiles), written, next, halted)
        <3>1. files[0] # <<>>
            BY <1>8, <2>2, Misfit DEF Log!Rotate
        <3>2. MaxFiles \in 0..MaxFiles /\ next \in 1..MaxRecords + 1
            BY <1>2 DEF LogInv
        <3>3. Good(Log!Shifted(files, MaxFiles), written, next, halted \/ MaxFiles < MaxFiles)
            BY <1>2, <1>3, <2>2, <3>1, <3>2, ShiftGood
        <3>4. (halted \/ MaxFiles < MaxFiles) = halted
            BY <1>2
        <3>5. QED
            BY <3>3, <3>4
    <2>3. QED
        BY <1>0, <1>1, <1>8, <2>1, <2>2, WriteKeeps DEF Log!Rotate
<1>9. QED
    BY <1>4, <1>5, <1>6, <1>7, <1>8 DEF Log!Record

\* Files found again, and perhaps the beginning of a record.
LEMMA ReopenedKeeps ==
    ASSUME LogInv, NEW f \in Contents, Log!Reopened(f), UNCHANGED written, UNCHANGED torn,
           next' \in 1..MaxRecords + 1, \A q \in next'..MaxRecords : q \in next..MaxRecords,
           halted' \in BOOLEAN, ~torn => Good(f, written, next', halted')
    PROVE  LogInv'
<1>1. 0 \in Log!Generations
    BY LogConstants DEF Log!LogAssumption, Log!Generations
<1>2. Len(f[0]) \in Nat
    BY <1>1 DEF Contents
<1>3. QED
    BY <1>2 DEF LogInv, Log!Reopened

LEMMA CrashKeeps ==
    ASSUME LogInv, NEW n \in Log!Lengths, Log!Crash(n)
    PROVE  LogInv'
<1>0. n \in Nat /\ n > 0
    BY LengthsPositive
<1>1. /\ next <= MaxRecords /\ next' = next + 1 /\ file # "closed"
      /\ next \in 1..MaxRecords /\ next \in Nat /\ next' \in 1..MaxRecords + 1
      /\ \A q \in next'..MaxRecords : q \in next..MaxRecords /\ q # next
    BY NextRecord DEF Log!Crash
<1>2. /\ files \in Contents /\ written \in [1..MaxRecords -> Nat] /\ halted \in BOOLEAN
      /\ MaxFiles \in Nat \ {0} /\ UNCHANGED written /\ UNCHANGED torn
      /\ \A q \in next..MaxRecords : written[q] = 0
    BY LogConstants DEF Log!LogAssumption, LogInv, Log!Crash
<1>3. CASE /\ Log!Fits(n) /\ UNCHANGED halted
           /\ \E j \in 1..n : Log!Reopened(Log!Appended(files, Log!Bytes(next, j)))
    <2>1. PICK j \in 1..n : Log!Reopened(Log!Appended(files, Log!Bytes(next, j)))
        BY <1>3
    <2>2. j \in Nat /\ j <= n
        BY <1>0
    <2>3. Log!Appended(files, Log!Bytes(next, j)) \in Contents
        BY <1>1, <1>2, <2>2, AppendEffect
    <2>4. ASSUME ~torn PROVE Good(Log!Appended(files, Log!Bytes(next, j)), written, next', halted')
        <3>1. /\ Log!Known \in Nat /\ Log!Known = Len(files[0])
              /\ Log!Known = 0 \/ Log!Known + n <= FileBytes
            BY <1>1, <1>3, <2>4, KnownIsLength DEF Log!Fits
        <3>2. Len(files[0]) = 0 \/ Len(files[0]) + j <= FileBytes
            BY <1>0, <2>2, <3>1, LogConstants DEF Log!LogAssumption
        <3>3. Good(files, written, next, halted)
            BY <2>4 DEF LogInv
        <3>4. [written EXCEPT ![next] = 0] = written
            BY <1>1, <1>2
        <3>5. Good(Log!Appended(files, Log!Bytes(next, j)), [written EXCEPT ![next] = 0],
                   next + 1, halted)
            BY <1>1, <1>2, <2>2, <3>2, <3>3, AddGood
        <3>6. QED
            BY <1>1, <1>3, <3>4, <3>5
    <2>5. QED
        BY <1>1, <1>2, <1>3, <2>1, <2>3, <2>4, ReopenedKeeps
<1>4. CASE /\ ~Log!Fits(n) /\ halted' = TRUE
           /\ \E k \in 1..MaxFiles - 1 : Log!Reopened(Log!Shifted(files, k))
    <2>1. PICK k \in 1..MaxFiles - 1 : Log!Reopened(Log!Shifted(files, k))
        BY <1>4
    <2>2. k \in 0..MaxFiles /\ k < MaxFiles
        BY <1>2
    <2>3. Log!Shifted(files, k) \in Contents
        BY <1>2, <2>2, ShiftEffect
    <2>4. ASSUME ~torn PROVE Good(Log!Shifted(files, k), written, next', halted')
        <3>1. files[0] # <<>>
            BY <1>1, <1>4, <2>4, Misfit
        <3>2. Good(files, written, next + 1, halted) /\ next + 1 \in 1..MaxRecords + 1
            BY <1>1, <1>2, <2>4, NextGood DEF LogInv
        <3>3. Good(Log!Shifted(files, k), written, next + 1, halted \/ k < MaxFiles)
            BY <1>2, <2>2, <3>1, <3>2, ShiftGood
        <3>4. (halted \/ k < MaxFiles) = TRUE
            BY <2>2
        <3>5. QED
            BY <1>1, <1>4, <3>3, <3>4
    <2>5. QED
        BY <1>1, <1>2, <1>4, <2>1, <2>3, <2>4, ReopenedKeeps
<1>5. QED
    BY <1>3, <1>4 DEF Log!Crash

LEMMA LogInit == Log!Init => LogInv
<1>1. SUFFICES ASSUME Log!Init PROVE LogInv
    OBVIOUS
<1>2. /\ MaxFiles \in Nat \ {0} /\ MaxRecords \in Nat
      /\ 0 \in Log!Generations /\ 1..MaxFiles - 1 \subseteq Log!Generations
    BY LogConstants DEF Log!LogAssumption, Log!Generations
<1>3. files \in Contents /\ \A i \in Log!Generations : files[i] = <<>> /\ Len(files[i]) = 0
    BY <1>1 DEF Log!Init, Contents
<1>4. ASSUME NEW i \in Log!Generations PROVE 1..Len(files[i]) = {}
    BY <1>3
<1>5. Log!InOrder(files) /\ Log!Bounded(files) /\ Begun(files, next)
    BY <1>4 DEF Log!InOrder, Log!Bounded, Begun
<1>6. NoGap(files)
    BY <1>2, <1>3 DEF NoGap
<1>7. Kept(files, written, next, 1) /\ 1 \in 1..next /\ \A q \in 1..1 - 1 : written[q] = 0
    <2>1. next = 1 /\ 1..next - 1 = {} /\ 1..1 - 1 = {}
        BY <1>1 DEF Log!Init
    <2>2. QED
        BY <2>1 DEF Kept
<1>8. Good(files, written, next, halted)
    BY <1>5, <1>6, <1>7 DEF Good
<1>9. /\ next \in 1..MaxRecords + 1 /\ written \in [1..MaxRecords -> Nat]
      /\ \A q \in next..MaxRecords : written[q] = 0
    BY <1>1, <1>2 DEF Log!Init
<1>10. /\ file \in {"open", "none", "closed"} /\ size \in Nat /\ size = Len(files[0])
       /\ torn \in BOOLEAN /\ halted \in BOOLEAN
    BY <1>1, <1>2, <1>3 DEF Log!Init
<1>11. QED
    BY <1>3, <1>8, <1>9, <1>10 DEF LogInv

LEMMA LogStep == LogInv /\ [Log!Next]_Log!vars => LogInv'
<1>1. SUFFICES ASSUME LogInv, [Log!Next]_Log!vars PROVE LogInv'
    OBVIOUS
<1>2. CASE Log!SetupIO
    <2>1. files \in Contents /\ UNCHANGED written /\ UNCHANGED torn /\ Log!Reopened(files)
          /\ next' = next /\ halted' = halted
        BY <1>1, <1>2 DEF Log!SetupIO, LogInv
    <2>2. /\ next' \in 1..MaxRecords + 1 /\ (\A q \in next'..MaxRecords : q \in next..MaxRecords)
          /\ halted' \in BOOLEAN /\ (~torn => Good(files, written, next', halted'))
        BY <1>1, <2>1 DEF LogInv
    <2>3. QED
        BY <1>1, <2>1, <2>2, ReopenedKeeps
<1>3. CASE \E n \in Log!Lengths : Log!Record(n)
    BY <1>1, <1>3, RecordKeeps
<1>4. CASE \E n \in Log!Lengths : Log!Crash(n)
    BY <1>1, <1>4, CrashKeeps
<1>5. CASE UNCHANGED Log!vars
    BY <1>1, <1>5 DEF LogInv, Log!vars
<1>6. QED
    BY <1>1, <1>2, <1>3, <1>4, <1>5 DEF Log!Next

LEMMA LogInvGives == LogInv => Log!LogIsBoundedTail
BY DEF LogInv, Good, Log!LogIsBoundedTail, Log!KeptFrom, Kept, Log!Forgets

-----------------------------------------------------------------------------
(* The memory of last listings *)

KeptEntries == [id : Ids, models : {l \in DOMAIN Size : Size[l] <= CacheBytes}, lastUsed : Nat,
         left : 0..Lifetime]
Memories == [entries : [Cache!Slots -> KeptEntries \cup {None}], bytes : Nat]

\* The bytes of the entries of some slots, counted one by one.
Cells(m, S)  == UNION {{s} \X (1 .. Size[m.entries[s].models]) : s \in S}
Weight(m, S) == Cardinality(Cells(m, S))

\* No identifier is there twice, entries are used in some order, and the count is right.
Sound(m) ==
    /\ m \in Memories
    /\ \A s, t \in Cache!Used(m) :
         m.entries[s].id = m.entries[t].id \/ m.entries[s].lastUsed = m.entries[t].lastUsed
           => s = t
    /\ m.bytes = Weight(m, Cache!Used(m)) /\ m.bytes <= CacheBytes

\* Nothing was done to w since it was m but to take entries out.
Left(w, m) ==
    /\ Cache!Used(w) \subseteq Cache!Used(m)
    /\ \A s \in Cache!Used(w) : w.entries[s] = m.entries[s]

LEMMA CacheTypes ==
    /\ MaxEntries \in Nat \ {0} /\ MaxSequence \in Nat /\ MaxSequence > MaxEntries
    /\ Size \in [DOMAIN Size -> Nat] /\ CacheBytes \in Nat /\ Lifetime \in Nat \ {0}
    /\ None \notin DOMAIN Size /\ None \notin KeptEntries
    /\ Cache!Slots = 1..MaxEntries
<1>1. KeptEntries \subseteq [id : Ids, models : DOMAIN Size, lastUsed : Nat, left : Nat]
    BY CacheConstants DEF KeptEntries, Cache!EphemeralAssumption
<1>2. QED
    BY <1>1, CacheConstants DEF Cache!EphemeralAssumption, Cache!Slots

LEMMA CacheCardinality ==
    ASSUME NEW S PROVE Cache!Cardinality(S) = Cardinality(S)
BY DEF Cache!Cardinality, Cardinality

LEMMA Numbers ==
    ASSUME NEW n \in Nat PROVE IsFiniteSet(1..n) /\ Cardinality(1..n) = n
BY FS_Interval

LEMMA UsedTypes ==
    ASSUME NEW m \in Memories
    PROVE  /\ Cache!Used(m) \subseteq 1..MaxEntries /\ IsFiniteSet(Cache!Used(m))
           /\ Cardinality(Cache!Used(m)) \in 0..MaxEntries
           /\ \A s \in Cache!Used(m) : m.entries[s] \in KeptEntries
<1>1. Cache!Used(m) \subseteq 1..MaxEntries /\ \A s \in Cache!Used(m) : m.entries[s] \in KeptEntries
    BY CacheTypes DEF Memories, Cache!Used
<1>2. IsFiniteSet(1..MaxEntries) /\ Cardinality(1..MaxEntries) = MaxEntries
    BY CacheTypes, Numbers
<1>3. IsFiniteSet(Cache!Used(m)) /\ Cardinality(Cache!Used(m)) <= MaxEntries
    BY <1>1, <1>2, FS_Subset
<1>4. Cardinality(Cache!Used(m)) \in Nat
    BY <1>3, FS_CardinalityType
<1>5. QED
    BY <1>1, <1>3, <1>4, CacheTypes

LEMMA CellsFinite ==
    ASSUME NEW m \in Memories, NEW S \in SUBSET Cache!Used(m)
    PROVE  IsFiniteSet(Cells(m, S)) /\ Weight(m, S) \in Nat
<1>1. Cells(m, S) \in SUBSET ((1..MaxEntries) \X (1..CacheBytes))
    <2>1. ASSUME NEW c \in Cells(m, S) PROVE c \in (1..MaxEntries) \X (1..CacheBytes)
        <3>1. PICK s \in S : c \in {s} \X (1 .. Size[m.entries[s].models])
            BY <2>1 DEF Cells
        <3>2. s \in 1..MaxEntries /\ m.entries[s] \in KeptEntries
            BY UsedTypes
        <3>3. Size[m.entries[s].models] \in Nat /\ Size[m.entries[s].models] <= CacheBytes
            BY <3>2, CacheTypes DEF KeptEntries
        <3>4. QED
            BY <3>1, <3>2, <3>3, CacheTypes
    <2>2. QED
        BY <2>1
<1>2. IsFiniteSet((1..MaxEntries) \X (1..CacheBytes))
    <2>1. IsFiniteSet(1..MaxEntries) /\ IsFiniteSet(1..CacheBytes)
        BY CacheTypes, Numbers
    <2>2. QED
        BY <2>1, FS_Product, Zenon
<1>3. QED
    BY <1>1, <1>2, FS_Subset, FS_CardinalityType DEF Weight

LEMMA WeightOfLess ==
    ASSUME NEW m \in Memories, NEW S \in SUBSET Cache!Used(m), NEW T \in SUBSET S
    PROVE  Weight(m, T) <= Weight(m, S)
<1>1. IsFiniteSet(Cells(m, S)) /\ Cells(m, T) \in SUBSET Cells(m, S)
    BY CellsFinite DEF Cells
<1>2. QED
    BY <1>1, FS_Subset DEF Weight

LEMMA WeightOfOne ==
    ASSUME NEW m \in Memories, NEW s \in Cache!Used(m)
    PROVE  Weight(m, {s}) = Size[m.entries[s].models] /\ Size[m.entries[s].models] \in Nat
<1>1. m.entries[s] \in KeptEntries
    BY UsedTypes
<1>2. PICK n : n = Size[m.entries[s].models]
    OBVIOUS
<1>3. n \in Nat
    BY <1>1, <1>2, CacheTypes DEF KeptEntries
<1>4. Cells(m, {s}) = {s} \X (1 .. n)
    BY <1>2 DEF Cells
<1>5. IsFiniteSet({s}) /\ Cardinality({s}) = 1 /\ IsFiniteSet(1..n) /\ Cardinality(1..n) = n
    <2>1. IsFiniteSet({s}) /\ Cardinality({s}) = 1
        BY FS_Singleton, Zenon
    <2>2. QED
        BY <1>3, <2>1, Numbers
<1>6. Cardinality({s} \X (1..n)) = Cardinality({s}) * Cardinality(1..n)
    BY <1>5, FS_Product, Zenon
<1>7. Weight(m, {s}) = n
    <2>1. Weight(m, {s}) = 1 * n
        BY <1>4, <1>5, <1>6, Zenon DEF Weight
    <2>2. QED
        BY <1>3, <2>1
<1>8. QED
    BY <1>2, <1>3, <1>7

LEMMA WeightOfMore ==
    ASSUME NEW m \in Memories, NEW s \in Cache!Used(m), NEW S \in SUBSET Cache!Used(m), s \notin S
    PROVE  Weight(m, S \cup {s}) = Weight(m, S) + Size[m.entries[s].models]
<1>1. {s} \in SUBSET Cache!Used(m)
    OBVIOUS
<1>2. IsFiniteSet(Cells(m, S)) /\ IsFiniteSet(Cells(m, {s}))
    BY <1>1, CellsFinite
<1>3. Cells(m, S \cup {s}) = Cells(m, S) \cup Cells(m, {s})
    BY DEF Cells
<1>4. Cells(m, S) \cap Cells(m, {s}) = {}
    BY DEF Cells
<1>5. Cardinality(Cells(m, S) \cup Cells(m, {s}))
         = Weight(m, S) + Weight(m, {s}) - Cardinality(Cells(m, S) \cap Cells(m, {s}))
    BY <1>2, FS_Union, Zenon DEF Weight
<1>6. Cardinality(Cells(m, S) \cap Cells(m, {s})) = 0
    BY <1>4, FS_EmptySet, Zenon
<1>7. Weight(m, S \cup {s}) = Cardinality(Cells(m, S) \cup Cells(m, {s}))
    BY <1>3, Zenon DEF Weight
<1>8. QED
    BY <1>1, <1>5, <1>6, <1>7, WeightOfOne, CellsFinite

\* What the same entries weigh.
LEMMA WeightSame ==
    ASSUME NEW m, NEW w, NEW S,
           \A s \in S : Size[w.entries[s].models] = Size[m.entries[s].models]
    PROVE  Weight(w, S) = Weight(m, S)
<1>1. Cells(w, S) = Cells(m, S)
    BY DEF Cells
<1>2. QED
    BY <1>1, Zenon DEF Weight

LEMMA WithoutOne ==
    ASSUME NEW m, Sound(m), NEW s \in Cache!Used(m), NEW w, w = Cache!Without(m, s)
    PROVE  Sound(w) /\ Left(w, m) /\ Cache!Used(w) = Cache!Used(m) \ {s}
<1> DEFINE need == Size[m.entries[s].models]
           rest == Cache!Used(m) \ {s}
<1>1. m \in Memories /\ s \in Cache!Slots /\ None \notin KeptEntries
    BY CacheTypes DEF Sound, Cache!Used
<1>2. need \in Nat /\ m.bytes \in Nat /\ Weight(m, rest) \in Nat
      /\ m.bytes = Weight(m, rest) + need
    <2>1. Cache!Used(m) = rest \cup {s}
        OBVIOUS
    <2>2. Weight(m, rest \cup {s}) = Weight(m, rest) + need
        BY <1>1, WeightOfMore
    <2>3. Weight(m, rest) \in Nat /\ need \in Nat
        BY <1>1, CellsFinite, WeightOfOne
    <2>4. QED
        BY <2>1, <2>2, <2>3 DEF Sound, Memories
<1>3. w.entries = [m.entries EXCEPT ![s] = None] /\ w.bytes = Weight(m, rest)
      /\ w = [entries |-> w.entries, bytes |-> w.bytes]
    <2>1. w = [entries |-> [m.entries EXCEPT ![s] = None],
               bytes   |-> IF need > m.bytes THEN 0 ELSE m.bytes - need]
        BY DEF Cache!Without
    <2>2. (IF need > m.bytes THEN 0 ELSE m.bytes - need) = Weight(m, rest)
        <3> HIDE DEF need, rest
        <3>1. QED
            BY <1>2
    <2>3. QED
        <3> HIDE DEF need, rest
        <3>1. QED
            BY <2>1, <2>2
<1>4. w.entries \in [Cache!Slots -> KeptEntries \cup {None}]
      /\ \A t \in Cache!Slots : w.entries[t] = IF t = s THEN None ELSE m.entries[t]
    BY <1>1, <1>3 DEF Memories
<1>5. w \in Memories
    <2> HIDE DEF rest
    <2>1. QED
        BY <1>2, <1>3, <1>4 DEF Memories
<1>6. Cache!Used(w) = rest /\ \A t \in rest : w.entries[t] = m.entries[t]
    BY <1>4 DEF Cache!Used
<1>7. Weight(w, rest) = Weight(m, rest)
    BY <1>6, WeightSame
<1>8. w.bytes <= CacheBytes
    <2> HIDE DEF need, rest
    <2>1. QED
        BY <1>2, <1>3, CacheTypes DEF Sound
<1>9. Sound(w)
    BY <1>3, <1>5, <1>6, <1>7, <1>8 DEF Sound
<1>10. QED
    BY <1>6, <1>9 DEF Left

\* The loop over the slots has the values it says.
LEMMA WithoutAllLoop ==
    ASSUME NEW m, NEW S
    PROVE  \E after :
             /\ Cache!WithoutAll(m, S) = after[MaxEntries] /\ after[0] = m
             /\ \A n \in 1..MaxEntries :
                  after[n] = IF n \in S THEN Cache!Without(after[n - 1], n) ELSE after[n - 1]
<1> DEFINE Turn(x, n) == IF n \in S THEN Cache!Without(x, n) ELSE x
           Upto(f, n) == f = [i \in 0..n |-> IF i = 0 THEN m ELSE Turn(f[i - 1], i)]
           Fine == {n \in Nat : \E f : Upto(f, n)}
<1>1. 0 \in Fine
    <2>1. Upto([i \in 0..0 |-> m], 0)
        OBVIOUS
    <2>2. QED
        BY <2>1
<1>2. ASSUME NEW n \in Nat, n \in Fine PROVE n + 1 \in Fine
    <2> HIDE DEF Turn
    <2>1. PICK f : Upto(f, n)
        BY <1>2
    <2> DEFINE g == [i \in 0..(n + 1) |-> IF i <= n THEN f[i] ELSE Turn(f[n], n + 1)]
    <2>2. ASSUME NEW i \in 0..(n + 1)
          PROVE  g[i] = IF i = 0 THEN m ELSE Turn(g[i - 1], i)
        <3>1. CASE i = 0
            BY <2>1, <3>1
        <3>2. CASE i # 0 /\ i <= n
            <4>1. i \in 0..n /\ i - 1 \in 0..(n + 1) /\ i - 1 <= n
                BY <2>2, <3>2
            <4>2. g[i] = f[i] /\ g[i - 1] = f[i - 1]
                BY <2>2, <4>1
            <4>3. f[i] = Turn(f[i - 1], i)
                BY <2>1, <3>2, <4>1
            <4>4. QED
                BY <3>2, <4>2, <4>3
        <3>3. CASE i = n + 1
            <4>1. g[i] = Turn(f[n], i) /\ g[i - 1] = f[n] /\ i # 0
                BY <3>3
            <4>2. QED
                BY <4>1
        <3>4. QED
            BY <2>2, <3>1, <3>2, <3>3
    <2>3. Upto(g, n + 1)
        <3> HIDE DEF g
        <3>1. g = [i \in 0..(n + 1) |-> g[i]]
            BY DEF g
        <3> DEFINE h == [i \in 0..(n + 1) |-> IF i = 0 THEN m ELSE Turn(g[i - 1], i)]
        <3>2. \A i \in 0..(n + 1) : h[i] = g[i]
            BY <2>2
        <3>3. h = [i \in 0..(n + 1) |-> h[i]]
            OBVIOUS
        <3>4. g = h
            <4> HIDE DEF h
            <4>1. QED
                BY <3>1, <3>2, <3>3
        <3>5. QED
            BY <3>4
    <2>4. n + 1 \in Nat
        OBVIOUS
    <2>5. QED
        <3> HIDE DEF g, Upto
        <3>1. QED
            BY <2>3, <2>4
<1>3. MaxEntries \in Fine
    <2> HIDE DEF Fine
    <2>1. \A n \in 0..MaxEntries : n \in Fine /\ n # MaxEntries => n + 1 \in Fine
        BY <1>2, CacheTypes
    <2>2. MaxEntries \in 0..MaxEntries /\ MaxEntries \in Nat
        BY CacheTypes
    <2>3. QED
        BY <1>1, <2>1, <2>2, Inductive
<1>4. \E f : Upto(f, MaxEntries)
    BY <1>3
<1>5. Cache!WithoutAll(m, S) = (CHOOSE f : Upto(f, MaxEntries))[MaxEntries]
    BY DEF Cache!WithoutAll
<1>6. PICK f : f = CHOOSE g : Upto(g, MaxEntries)
    OBVIOUS
<1>7. Upto(f, MaxEntries)
    <2> HIDE DEF Upto
    <2>1. QED
        BY <1>4, <1>6
<1>8. f[0] = m /\ \A n \in 1..MaxEntries : f[n] = Turn(f[n - 1], n)
    <2> HIDE DEF Turn
    <2>1. \A i \in 0..MaxEntries : f[i] = IF i = 0 THEN m ELSE Turn(f[i - 1], i)
        BY <1>7
    <2>2. 0 \in 0..MaxEntries /\ \A n \in 1..MaxEntries : n \in 0..MaxEntries /\ n # 0
        BY CacheTypes
    <2>3. f[0] = m
        BY <2>1, <2>2
    <2>4. ASSUME NEW n \in 1..MaxEntries PROVE f[n] = Turn(f[n - 1], n)
        BY <2>1, <2>2
    <2>5. QED
        BY <2>3, <2>4
<1>9. /\ Cache!WithoutAll(m, S) = f[MaxEntries] /\ f[0] = m
      /\ \A n \in 1..MaxEntries :
           f[n] = IF n \in S THEN Cache!Without(f[n - 1], n) ELSE f[n - 1]
    BY <1>5, <1>6, <1>8
<1>10. QED
    <2> HIDE DEF Upto, Turn, Fine
    <2>1. QED
        BY <1>9

\* The entries named are taken out, and no others.
LEMMA WithoutSome ==
    ASSUME NEW m, Sound(m), NEW S, S \subseteq Cache!Used(m), NEW w, w = Cache!WithoutAll(m, S)
    PROVE  Sound(w) /\ Left(w, m) /\ Cache!Used(w) = Cache!Used(m) \ S
<1>1. PICK after :
        /\ w = after[MaxEntries] /\ after[0] = m
        /\ \A n \in 1..MaxEntries :
             after[n] = IF n \in S THEN Cache!Without(after[n - 1], n) ELSE after[n - 1]
    BY WithoutAllLoop
<1> DEFINE Fine(x, n) == /\ Sound(x) /\ Left(x, m)
                         /\ Cache!Used(x) = Cache!Used(m) \ (S \cap 1..n)
           Done == {n \in 0..MaxEntries : Fine(after[n], n)}
<1>2. 0 \in Done
    BY <1>1, CacheTypes DEF Left
<1>3. ASSUME NEW n \in 0..MaxEntries, n \in Done, n # MaxEntries PROVE n + 1 \in Done
    <2>1. n + 1 \in 1..MaxEntries /\ (n + 1) - 1 = n /\ n + 1 \in 0..MaxEntries
        BY <1>3, CacheTypes
    <2>2. after[n + 1] = IF n + 1 \in S THEN Cache!Without(after[n], n + 1) ELSE after[n]
        BY <1>1, <2>1
    <2>3. Fine(after[n], n)
        BY <1>3
    <2>4. CASE n + 1 \in S
        <3>1. n + 1 \in Cache!Used(after[n])
            BY <2>3, <2>4
        <3>2. after[n + 1] = Cache!Without(after[n], n + 1)
            BY <2>2, <2>4
        <3>3. /\ Sound(after[n + 1]) /\ Left(after[n + 1], after[n])
              /\ Cache!Used(after[n + 1]) = Cache!Used(after[n]) \ {n + 1}
            BY <2>3, <3>1, <3>2, WithoutOne
        <3>4. S \cap 1..(n + 1) = (S \cap 1..n) \cup {n + 1}
            BY <2>1, <2>4
        <3>5. Cache!Used(after[n + 1]) = Cache!Used(m) \ (S \cap 1..(n + 1))
            BY <2>3, <3>3, <3>4
        <3>6. Left(after[n + 1], m)
            BY <2>3, <3>3 DEF Left
        <3>7. QED
            BY <2>1, <3>3, <3>5, <3>6
    <2>5. CASE n + 1 \notin S
        <3>1. S \cap 1..(n + 1) = S \cap 1..n
            BY <2>1, <2>5
        <3>2. after[n + 1] = after[n]
            BY <2>2, <2>5
        <3>3. Fine(after[n + 1], n + 1)
            BY <2>3, <3>1, <3>2
        <3>4. QED
            BY <2>1, <3>3
    <2>6. QED
        BY <2>4, <2>5
<1>4. 0..MaxEntries \subseteq Done
    <2> HIDE DEF Done
    <2>1. QED
        BY <1>2, <1>3, CacheTypes, Inductive
<1>5. Fine(after[MaxEntries], MaxEntries)
    <2>1. MaxEntries \in 0..MaxEntries
        BY CacheTypes
    <2>2. QED
        BY <1>4, <2>1
<1>6. S \cap 1..MaxEntries = S
    BY UsedTypes DEF Sound
<1>7. QED
    BY <1>1, <1>5, <1>6

\* So has the loop over the oldest entries.
Evicting(after, m, need) ==
    /\ after[0] = m
    /\ \A n \in 1..MaxEntries :
         after[n] = IF Cache!HasRoom(after[n - 1], need) \/ Cache!Used(after[n - 1]) = {}
                    THEN after[n - 1]
                    ELSE Cache!Without(after[n - 1], Cache!Oldest(after[n - 1]))

LEMMA EvictedLoop ==
    ASSUME NEW m, NEW need
    PROVE  \E after : Evicting(after, m, need) /\ Cache!Evicted(m, need) = after[MaxEntries]
<1> DEFINE Turn(x) == IF Cache!HasRoom(x, need) \/ Cache!Used(x) = {} THEN x
                      ELSE Cache!Without(x, Cache!Oldest(x))
           Upto(f, n) == f = [i \in 0..n |-> IF i = 0 THEN m ELSE Turn(f[i - 1])]
           Fine == {n \in Nat : \E f : Upto(f, n)}
<1>1. 0 \in Fine
    <2>1. Upto([i \in 0..0 |-> m], 0)
        OBVIOUS
    <2>2. QED
        BY <2>1
<1>2. ASSUME NEW n \in Nat, n \in Fine PROVE n + 1 \in Fine
    <2> HIDE DEF Turn
    <2>1. PICK f : Upto(f, n)
        BY <1>2
    <2> DEFINE g == [i \in 0..(n + 1) |-> IF i <= n THEN f[i] ELSE Turn(f[n])]
    <2>2. ASSUME NEW i \in 0..(n + 1)
          PROVE  g[i] = IF i = 0 THEN m ELSE Turn(g[i - 1])
        <3>1. CASE i = 0
            BY <2>1, <3>1
        <3>2. CASE i # 0 /\ i <= n
            <4>1. i \in 0..n /\ i - 1 \in 0..(n + 1) /\ i - 1 <= n
                BY <2>2, <3>2
            <4>2. g[i] = f[i] /\ g[i - 1] = f[i - 1]
                BY <2>2, <4>1
            <4>3. f[i] = Turn(f[i - 1])
                BY <2>1, <3>2, <4>1
            <4>4. QED
                BY <3>2, <4>2, <4>3
        <3>3. CASE i = n + 1
            <4>1. g[i] = Turn(f[n]) /\ g[i - 1] = f[n] /\ i # 0
                BY <3>3
            <4>2. QED
                BY <4>1
        <3>4. QED
            BY <2>2, <3>1, <3>2, <3>3
    <2>3. Upto(g, n + 1)
        <3> HIDE DEF g
        <3>1. g = [i \in 0..(n + 1) |-> g[i]]
            BY DEF g
        <3> DEFINE h == [i \in 0..(n + 1) |-> IF i = 0 THEN m ELSE Turn(g[i - 1])]
        <3>2. \A i \in 0..(n + 1) : h[i] = g[i]
            BY <2>2
        <3>3. h = [i \in 0..(n + 1) |-> h[i]]
            OBVIOUS
        <3>4. g = h
            <4> HIDE DEF h
            <4>1. QED
                BY <3>1, <3>2, <3>3
        <3>5. QED
            BY <3>4
    <2>4. n + 1 \in Nat
        OBVIOUS
    <2>5. QED
        <3> HIDE DEF g, Upto
        <3>1. QED
            BY <2>3, <2>4
<1>3. MaxEntries \in Fine
    <2> HIDE DEF Fine
    <2>1. \A n \in 0..MaxEntries : n \in Fine /\ n # MaxEntries => n + 1 \in Fine
        BY <1>2, CacheTypes
    <2>2. MaxEntries \in 0..MaxEntries /\ MaxEntries \in Nat
        BY CacheTypes
    <2>3. QED
        BY <1>1, <2>1, <2>2, Inductive
<1>4. \E f : Upto(f, MaxEntries)
    BY <1>3
<1>5. Cache!Evicted(m, need) = (CHOOSE f : Upto(f, MaxEntries))[MaxEntries]
    BY DEF Cache!Evicted
<1>6. PICK f : f = CHOOSE g : Upto(g, MaxEntries)
    OBVIOUS
<1>7. Upto(f, MaxEntries)
    <2> HIDE DEF Upto
    <2>1. QED
        BY <1>4, <1>6
<1>8. f[0] = m /\ \A n \in 1..MaxEntries : f[n] = Turn(f[n - 1])
    <2> HIDE DEF Turn
    <2>1. \A i \in 0..MaxEntries : f[i] = IF i = 0 THEN m ELSE Turn(f[i - 1])
        BY <1>7
    <2>2. 0 \in 0..MaxEntries /\ \A n \in 1..MaxEntries : n \in 0..MaxEntries /\ n # 0
        BY CacheTypes
    <2>3. f[0] = m
        BY <2>1, <2>2
    <2>4. ASSUME NEW n \in 1..MaxEntries PROVE f[n] = Turn(f[n - 1])
        BY <2>1, <2>2
    <2>5. QED
        BY <2>3, <2>4
<1>9. Evicting(f, m, need) /\ Cache!Evicted(m, need) = f[MaxEntries]
    BY <1>5, <1>6, <1>8 DEF Evicting
<1>10. QED
    <2> HIDE DEF Upto, Turn, Fine
    <2>1. QED
        BY <1>9


LEMMA OldestLeast ==
    ASSUME NEW m, Sound(m), Cache!Used(m) # {}, NEW o, o = Cache!Oldest(m)
    PROVE  /\ o \in Cache!Used(m)
           /\ \A s \in Cache!Used(m) \ {o} : m.entries[o].lastUsed < m.entries[s].lastUsed
<1> DEFINE times == {m.entries[s].lastUsed : s \in Cache!Used(m)}
<1>1. \A s \in Cache!Used(m) : m.entries[s].lastUsed \in Nat
    BY UsedTypes DEF Sound, KeptEntries
<1>2. PICK t \in times : \A u \in times : t <= u
    <2>1. times \subseteq Nat /\ times # {}
        BY <1>1
    <2>2. QED
        <3> HIDE DEF times
        <3>1. QED
            BY <2>1, LeastNumber
<1>3. \E s \in Cache!Used(m) :
        \A u \in Cache!Used(m) : m.entries[s].lastUsed <= m.entries[u].lastUsed
    BY <1>2
<1>4. /\ o \in Cache!Used(m)
      /\ \A u \in Cache!Used(m) : m.entries[o].lastUsed <= m.entries[u].lastUsed
    BY <1>3 DEF Cache!Oldest
<1>5. ASSUME NEW s \in Cache!Used(m) \ {o}
      PROVE  m.entries[o].lastUsed < m.entries[s].lastUsed
    <2>1. m.entries[o].lastUsed # m.entries[s].lastUsed
        BY <1>4 DEF Sound
    <2>2. QED
        BY <1>1, <1>4, <2>1
<1>6. QED
    BY <1>4, <1>5

\* The most recently used of all entries; those that leave room.
Recent(m, T) ==
    /\ T \subseteq Cache!Used(m)
    /\ \A s \in T, t \in Cache!Used(m) \ T : m.entries[t].lastUsed < m.entries[s].lastUsed
Fits(m, T, need) == Cardinality(T) < MaxEntries /\ Weight(m, T) + need <= CacheBytes

\* An eviction takes nothing that could stay.
LEMMA OldestGoes ==
    ASSUME NEW m, Sound(m), NEW need \in Nat, NEW x, Sound(x), Left(x, m),
           Recent(m, Cache!Used(x)), Cache!Used(x) # {}, ~Cache!HasRoom(x, need),
           NEW w, w = Cache!Without(x, Cache!Oldest(x))
    PROVE  /\ Sound(w) /\ Left(w, m) /\ Recent(m, Cache!Used(w))
           /\ \E o \in Cache!Used(x) : Cache!Used(w) = Cache!Used(x) \ {o}
           /\ \A T : Recent(m, T) /\ Fits(m, T, need) /\ T \subseteq Cache!Used(x)
                       => T \subseteq Cache!Used(w)
<1>1. PICK o : o = Cache!Oldest(x)
    OBVIOUS
<1>2. o \in Cache!Used(x)
      /\ \A s \in Cache!Used(x) \ {o} : x.entries[o].lastUsed < x.entries[s].lastUsed
    BY <1>1, OldestLeast
<1>3. Sound(w) /\ Left(w, x) /\ Cache!Used(w) = Cache!Used(x) \ {o}
    BY <1>1, <1>2, WithoutOne
<1>4. Left(w, m)
    BY <1>3 DEF Left
<1>5. \A s \in Cache!Used(m) : m.entries[s].lastUsed \in Nat
    BY UsedTypes DEF Sound, KeptEntries
<1>6. \A s \in Cache!Used(x) : x.entries[s] = m.entries[s] /\ s \in Cache!Used(m)
    BY DEF Left
<1>7. Recent(m, Cache!Used(w))
    <2>1. ASSUME NEW s \in Cache!Used(w), NEW t \in Cache!Used(m) \ Cache!Used(w)
          PROVE  m.entries[t].lastUsed < m.entries[s].lastUsed
        <3>1. s \in Cache!Used(x) \ {o}
            BY <1>3
        <3>2. CASE t = o
            BY <1>2, <1>6, <3>1, <3>2
        <3>3. CASE t \notin Cache!Used(x)
            BY <3>1, <3>3 DEF Recent
        <3>4. QED
            BY <1>3, <3>2, <3>3
    <2>2. QED
        BY <1>4, <2>1 DEF Recent, Left
<1>8. ASSUME NEW T, Recent(m, T), Fits(m, T, need), T \subseteq Cache!Used(x), o \in T PROVE FALSE
    <2>1. ASSUME NEW s \in Cache!Used(x) PROVE s \in T
        <3>1. CASE s = o
            BY <1>8, <3>1
        <3>2. CASE s # o /\ s \notin T
            <4>1. m.entries[s].lastUsed < m.entries[o].lastUsed
                BY <1>6, <1>8, <3>2 DEF Recent
            <4>2. m.entries[o].lastUsed < m.entries[s].lastUsed
                BY <1>2, <1>6, <3>2
            <4>3. QED
                BY <1>2, <1>5, <1>6, <4>1, <4>2
        <3>3. QED
            BY <3>1, <3>2
    <2>2. T = Cache!Used(x)
        BY <1>8, <2>1
    <2>3. Weight(m, Cache!Used(x)) = x.bytes
        <3>1. Weight(x, Cache!Used(x)) = Weight(m, Cache!Used(x))
            BY <1>6, WeightSame
        <3>2. QED
            BY <3>1 DEF Sound
    <2>4. Cache!HasRoom(x, need)
        BY <1>8, <2>2, <2>3, CacheCardinality DEF Fits, Cache!HasRoom
    <2>5. QED
        BY <2>4
<1>9. \A T : Recent(m, T) /\ Fits(m, T, need) /\ T \subseteq Cache!Used(x)
               => T \subseteq Cache!Used(w)
    BY <1>3, <1>8
<1>10. QED
    BY <1>2, <1>3, <1>4, <1>7, <1>9

\* Evictions end when there is room, and keep all that fits.
LEMMA EvictedSome ==
    ASSUME NEW m, Sound(m), NEW need \in Nat, need <= CacheBytes,
           NEW w, w = Cache!Evicted(m, need)
    PROVE  /\ Sound(w) /\ Left(w, m) /\ Recent(m, Cache!Used(w))
           /\ Fits(m, Cache!Used(w), need) /\ w.bytes + need <= CacheBytes
           /\ \A T : Recent(m, T) /\ Fits(m, T, need) => T \subseteq Cache!Used(w)
<1>1. PICK after : Evicting(after, m, need) /\ Cache!Evicted(m, need) = after[MaxEntries]
    BY EvictedLoop
<1> DEFINE Enough(x) == Cache!HasRoom(x, need) \/ Cache!Used(x) = {}
           Fine(x, n) == /\ Sound(x) /\ Left(x, m) /\ Recent(m, Cache!Used(x))
                         /\ \A T : Recent(m, T) /\ Fits(m, T, need) => T \subseteq Cache!Used(x)
                         /\ Enough(x) \/ Cardinality(Cache!Used(x)) + n <= MaxEntries
           Done == {n \in 0..MaxEntries : Fine(after[n], n)}
<1>2. 0 \in Done
    <2>1. Cardinality(Cache!Used(m)) + 0 <= MaxEntries
        BY UsedTypes, CacheTypes DEF Sound
    <2>2. Fine(m, 0)
        BY <2>1 DEF Left, Recent
    <2>3. QED
        BY <1>1, <2>2, CacheTypes DEF Evicting
<1>3. ASSUME NEW n \in 0..MaxEntries, n \in Done, n # MaxEntries PROVE n + 1 \in Done
    <2>1. n + 1 \in 1..MaxEntries /\ (n + 1) - 1 = n /\ n + 1 \in 0..MaxEntries
        BY <1>3, CacheTypes
    <2>2. after[n + 1] = IF Enough(after[n]) THEN after[n]
                         ELSE Cache!Without(after[n], Cache!Oldest(after[n]))
        BY <1>1, <2>1 DEF Evicting
    <2>3. Fine(after[n], n)
        BY <1>3
    <2>4. CASE Enough(after[n])
        <3>1. after[n + 1] = after[n]
            BY <2>2, <2>4
        <3>2. Fine(after[n + 1], n + 1)
            BY <2>3, <2>4, <3>1
        <3>3. QED
            BY <2>1, <3>2
    <2>5. CASE ~Enough(after[n])
        <3>1. after[n + 1] = Cache!Without(after[n], Cache!Oldest(after[n]))
            BY <2>2, <2>5
        <3>2. /\ Sound(after[n + 1]) /\ Left(after[n + 1], m) /\ Recent(m, Cache!Used(after[n + 1]))
              /\ \E o \in Cache!Used(after[n]) :
                   Cache!Used(after[n + 1]) = Cache!Used(after[n]) \ {o}
              /\ \A T : Recent(m, T) /\ Fits(m, T, need) /\ T \subseteq Cache!Used(after[n])
                          => T \subseteq Cache!Used(after[n + 1])
            BY <2>3, <2>5, <3>1, OldestGoes
        <3>3. Cardinality(Cache!Used(after[n + 1])) + (n + 1) <= MaxEntries
            <4>1. PICK o \in Cache!Used(after[n]) :
                    Cache!Used(after[n + 1]) = Cache!Used(after[n]) \ {o}
                BY <3>2
            <4>2. IsFiniteSet(Cache!Used(after[n])) /\ Cardinality(Cache!Used(after[n])) \in Nat
                BY <2>3, UsedTypes DEF Sound
            <4>3. Cardinality(Cache!Used(after[n + 1])) = Cardinality(Cache!Used(after[n])) - 1
                BY <4>1, <4>2, FS_RemoveElement
            <4>4. Cardinality(Cache!Used(after[n])) + n <= MaxEntries
                BY <2>3, <2>5
            <4>5. QED
                BY <4>2, <4>3, <4>4, CacheTypes
        <3>4. Fine(after[n + 1], n + 1)
            BY <2>3, <3>2, <3>3
        <3>5. QED
            BY <2>1, <3>4
    <2>6. QED
        BY <2>4, <2>5
<1>4. 0..MaxEntries \subseteq Done
    <2> HIDE DEF Done
    <2>1. QED
        BY <1>2, <1>3, CacheTypes, Inductive
<1>5. Fine(w, MaxEntries)
    <2>1. MaxEntries \in 0..MaxEntries
        BY CacheTypes
    <2>2. QED
        BY <1>1, <1>4, <2>1
<1>6. Cache!HasRoom(w, need)
    <2>1. CASE Cache!Used(w) = {}
        <3>1. Cells(w, {}) = {}
            BY DEF Cells
        <3>2. Cardinality({}) = 0
            BY FS_EmptySet
        <3>3. w.bytes = 0
            BY <1>5, <2>1, <3>1, <3>2 DEF Sound, Weight
        <3>4. QED
            BY <2>1, <3>2, <3>3, CacheTypes, CacheCardinality DEF Cache!HasRoom
    <2>2. CASE Cardinality(Cache!Used(w)) + MaxEntries <= MaxEntries
        <3>1. Cardinality(Cache!Used(w)) \in Nat /\ IsFiniteSet(Cache!Used(w))
            BY <1>5, UsedTypes DEF Sound
        <3>2. Cardinality(Cache!Used(w)) = 0
            BY <2>2, <3>1, CacheTypes
        <3>3. QED
            BY <2>1, <3>1, <3>2, FS_EmptySet
    <2>3. QED
        BY <1>5, <2>1, <2>2
<1>7. Cardinality(Cache!Used(w)) < MaxEntries /\ w.bytes + need <= CacheBytes
    <2>1. Cache!Cardinality(Cache!Used(w)) < MaxEntries /\ w.bytes + need <= CacheBytes
        BY <1>6 DEF Cache!HasRoom
    <2>2. QED
        BY <2>1, CacheCardinality
<1>8. Weight(m, Cache!Used(w)) = w.bytes
    <2>1. Weight(w, Cache!Used(w)) = Weight(m, Cache!Used(w))
        BY <1>5, WeightSame DEF Left
    <2>2. QED
        BY <1>5, <2>1 DEF Sound
<1>9. QED
    BY <1>5, <1>7, <1>8 DEF Fits

-----------------------------------------------------------------------------
\* Ranks are in the order of use.
LEMMA RankOrder ==
    ASSUME NEW m, Sound(m), NEW s \in Cache!Used(m), NEW t \in Cache!Used(m)
    PROVE  /\ Cache!Rank(m, s) \in 1..Cardinality(Cache!Used(m))
           /\ m.entries[s].lastUsed < m.entries[t].lastUsed => Cache!Rank(m, s) < Cache!Rank(m, t)
<1> DEFINE Upto(x) == {u \in Cache!Used(m) : m.entries[u].lastUsed <= m.entries[x].lastUsed}
<1>1. /\ IsFiniteSet(Cache!Used(m)) /\ Cardinality(Cache!Used(m)) \in Nat
      /\ \A u \in Cache!Used(m) : m.entries[u].lastUsed \in Nat
    BY UsedTypes DEF Sound, KeptEntries
<1>2. ASSUME NEW x \in Cache!Used(m)
      PROVE  /\ IsFiniteSet(Upto(x)) /\ Cardinality(Upto(x)) \in Nat
             /\ Cardinality(Upto(x)) <= Cardinality(Cache!Used(m))
             /\ Cache!Rank(m, x) = Cardinality(Upto(x))
    <2>1. Upto(x) \in SUBSET Cache!Used(m)
        OBVIOUS
    <2>2. IsFiniteSet(Upto(x)) /\ Cardinality(Upto(x)) <= Cardinality(Cache!Used(m))
        <3> HIDE DEF Upto
        <3>1. QED
            BY <1>1, <2>1, FS_Subset
    <2>3. Cardinality(Upto(x)) \in Nat
        <3> HIDE DEF Upto
        <3>1. QED
            BY <2>2, FS_CardinalityType
    <2>4. Cache!Rank(m, x) = Cache!Cardinality(Upto(x))
        BY DEF Cache!Rank
    <2>5. Cache!Rank(m, x) = Cardinality(Upto(x))
        <3> HIDE DEF Upto
        <3>1. QED
            BY <2>4, CacheCardinality
    <2>6. QED
        <3> HIDE DEF Upto
        <3>1. QED
            BY <2>2, <2>3, <2>5
<1>3. Cardinality(Upto(s)) # 0
    <2>1. s \in Upto(s)
        BY <1>1
    <2>2. QED
        <3> HIDE DEF Upto
        <3>1. QED
            BY <1>2, <2>1, FS_EmptySet
<1>4. ASSUME m.entries[s].lastUsed < m.entries[t].lastUsed
      PROVE  Cardinality(Upto(s)) < Cardinality(Upto(t))
    <2>1. Upto(s) \in SUBSET Upto(t) /\ t \in Upto(t) /\ t \notin Upto(s)
        BY <1>1, <1>4
    <2>2. Upto(s) # Upto(t)
        <3> HIDE DEF Upto
        <3>1. QED
            BY <2>1
    <2>3. QED
        <3> HIDE DEF Upto
        <3>1. QED
            BY <1>2, <2>1, <2>2, FS_Subset
<1>5. QED
    <2> HIDE DEF Upto
    <2>1. QED
        BY <1>1, <1>2, <1>3, <1>4

\* r has the entries of m, used in the same order and before n.
Redated(r, m, n) ==
    /\ r \in Memories /\ Cache!Used(r) = Cache!Used(m) /\ r.bytes = m.bytes
    /\ \A s \in Cache!Used(m) :
         /\ r.entries[s].id = m.entries[s].id /\ r.entries[s].models = m.entries[s].models
         /\ r.entries[s].left = m.entries[s].left /\ r.entries[s].lastUsed < n
    /\ \A s, t \in Cache!Used(m) :
         r.entries[s].lastUsed < r.entries[t].lastUsed
           <=> m.entries[s].lastUsed < m.entries[t].lastUsed

\* At the end of the range the order survives, and the next number is after all others.
LEMMA RenumberedSame ==
    ASSUME NEW m, Sound(m), sequence \in 0..MaxSequence,
           \A s \in Cache!Used(m) : m.entries[s].lastUsed <= sequence,
           NEW r, r = Cache!Renumbered(m), NEW n, n = Cache!NextSequence(m)
    PROVE  n \in 1..MaxSequence /\ Redated(r, m, n)
<1> DEFINE used == Cache!Used(m)
<1>1. /\ m \in Memories /\ Cardinality(used) \in 0..MaxEntries /\ None \notin KeptEntries
      /\ \A s \in used : m.entries[s] \in KeptEntries /\ s \in Cache!Slots
    BY UsedTypes, CacheTypes DEF Sound
<1>2. CASE sequence < MaxSequence
    <2>1. r = m /\ n = sequence + 1
        BY <1>2 DEF Cache!Renumbered, Cache!NextSequence
    <2>2. \A s \in used : m.entries[s].lastUsed < n
        BY <1>1, <2>1 DEF KeptEntries
    <2>3. QED
        BY <1>1, <1>2, <2>1, <2>2, CacheTypes DEF Redated
<1>3. CASE ~(sequence < MaxSequence)
    <2>1. n = Cardinality(used) + 1
        <3>1. n = Cache!Cardinality(used) + 1
            BY <1>3 DEF Cache!NextSequence
        <3>2. QED
            BY <3>1, CacheCardinality
    <2>2. n \in 1..MaxSequence
        <3> HIDE DEF used
        <3>1. QED
            BY <1>1, <2>1, CacheTypes
    <2>3. /\ r = [m EXCEPT !.entries = [s \in Cache!Slots |->
                    IF s \in used THEN [m.entries[s] EXCEPT !.lastUsed = Cache!Rank(m, s)]
                                  ELSE None]]
        BY <1>3 DEF Cache!Renumbered
    <2>4. /\ r = [entries |-> r.entries, bytes |-> m.bytes]
          /\ r.entries = [s \in Cache!Slots |->
                 IF s \in used THEN [m.entries[s] EXCEPT !.lastUsed = Cache!Rank(m, s)]
                               ELSE None]
        <3> HIDE DEF used
        <3>1. QED
            BY <1>1, <2>3 DEF Memories
    <2>5. ASSUME NEW s \in used
          PROVE  /\ r.entries[s] \in KeptEntries /\ r.entries[s].lastUsed = Cache!Rank(m, s)
                 /\ r.entries[s].id = m.entries[s].id
                 /\ r.entries[s].models = m.entries[s].models
                 /\ r.entries[s].left = m.entries[s].left
                 /\ Cache!Rank(m, s) \in Nat /\ Cache!Rank(m, s) < n
        <3>1. Cache!Rank(m, s) \in 1..Cardinality(used)
            BY RankOrder
        <3>2. Cache!Rank(m, s) \in Nat /\ Cache!Rank(m, s) < n
            <4> HIDE DEF used
            <4>1. QED
                BY <1>1, <2>1, <3>1
        <3>3. r.entries[s] = [m.entries[s] EXCEPT !.lastUsed = Cache!Rank(m, s)]
            BY <1>1, <2>4, <2>5
        <3>4. m.entries[s] \in KeptEntries
            BY <1>1
        <3>5. QED
            BY <3>2, <3>3, <3>4 DEF KeptEntries
    <2>6. ASSUME NEW s \in Cache!Slots, s \notin used PROVE r.entries[s] = None
        BY <2>4, <2>6
    <2>7. r.entries \in [Cache!Slots -> KeptEntries \cup {None}] /\ Cache!Used(r) = used
        <3>1. \A s \in Cache!Slots : r.entries[s] \in KeptEntries \cup {None}
            BY <2>5, <2>6
        <3>2. r.entries = [s \in Cache!Slots |-> r.entries[s]]
            BY <2>4
        <3>3. r.entries \in [Cache!Slots -> KeptEntries \cup {None}]
            BY <3>1, <3>2
        <3>4. \A s \in Cache!Slots : s \in used <=> r.entries[s] # None
            BY <1>1, <2>5, <2>6
        <3>5. QED
            BY <1>1, <3>3, <3>4 DEF Cache!Used
    <2>8. r \in Memories
        BY <1>1, <2>4, <2>7 DEF Memories
    <2>9. ASSUME NEW s \in used, NEW t \in used
          PROVE  r.entries[s].lastUsed < r.entries[t].lastUsed
                   <=> m.entries[s].lastUsed < m.entries[t].lastUsed
        <3>1. /\ m.entries[s].lastUsed \in Nat /\ m.entries[t].lastUsed \in Nat
              /\ m.entries[s].lastUsed = m.entries[t].lastUsed => s = t
            BY <1>1 DEF KeptEntries, Sound
        <3>2. /\ m.entries[s].lastUsed < m.entries[t].lastUsed
                   => Cache!Rank(m, s) < Cache!Rank(m, t)
              /\ m.entries[t].lastUsed < m.entries[s].lastUsed
                   => Cache!Rank(m, t) < Cache!Rank(m, s)
            BY RankOrder
        <3>3. QED
            BY <2>5, <3>1, <3>2
    <2>10. r.bytes = m.bytes
        <3> HIDE DEF used
        <3>1. QED
            BY <2>4
    <2>11. \A s \in used :
             /\ r.entries[s].id = m.entries[s].id /\ r.entries[s].models = m.entries[s].models
             /\ r.entries[s].left = m.entries[s].left /\ r.entries[s].lastUsed < n
        <3> HIDE DEF used
        <3>1. QED
            BY <2>5
    <2>12. QED
        BY <2>2, <2>7, <2>8, <2>9, <2>10, <2>11 DEF Redated
<1>4. QED
    BY <1>2, <1>3

-----------------------------------------------------------------------------
\* What a memory is for its caller.
HeldIn(m) == [i \in Ids |-> LET S == Cache!Find(m, i)
                            IN  IF S = {} THEN None ELSE m.entries[CHOOSE s \in S : TRUE].models]
LeftIn(m) == [i \in Ids |-> LET S == Cache!Find(m, i)
                            IN  IF S = {} THEN 0 ELSE m.entries[CHOOSE s \in S : TRUE].left]
OlderIn(m) == {<<m.entries[p[1]].id, m.entries[p[2]].id>> :
                  p \in {q \in Cache!Used(m) \X Cache!Used(m) :
                            m.entries[q[1]].lastUsed < m.entries[q[2]].lastUsed}}
Names(m, S) == {m.entries[s].id : s \in S}

LEMMA ById ==
    ASSUME NEW m, Sound(m), NEW s \in Cache!Used(m), NEW i, i = m.entries[s].id
    PROVE  /\ i \in Ids /\ Cache!Find(m, i) = {s}
           /\ HeldIn(m)[i] = m.entries[s].models /\ LeftIn(m)[i] = m.entries[s].left
           /\ HeldIn(m)[i] # None
<1>1. i \in Ids /\ m.entries[s].models # None
    BY UsedTypes, CacheTypes DEF Sound, KeptEntries
<1>2. Cache!Find(m, i) = {s}
    BY DEF Sound, Cache!Find
<1>3. (CHOOSE t \in {s} : TRUE) = s /\ {s} # {}
    OBVIOUS
<1>4. HeldIn(m)[i] = m.entries[s].models /\ LeftIn(m)[i] = m.entries[s].left
    BY <1>1, <1>2, <1>3 DEF HeldIn, LeftIn
<1>5. QED
    BY <1>1, <1>2, <1>4

LEMMA NotThere ==
    ASSUME NEW m, NEW i \in Ids, i \notin Names(m, Cache!Used(m))
    PROVE  Cache!Find(m, i) = {} /\ HeldIn(m)[i] = None /\ LeftIn(m)[i] = 0
<1>1. Cache!Find(m, i) = {}
    BY DEF Cache!Find, Names
<1>2. QED
    BY <1>1 DEF HeldIn, LeftIn

LEMMA OlderPairs ==
    ASSUME NEW m, Sound(m)
    PROVE  /\ \A s, t \in Cache!Used(m) :
                <<m.entries[s].id, m.entries[t].id>> \in OlderIn(m)
                  <=> m.entries[s].lastUsed < m.entries[t].lastUsed
           /\ \A e \in OlderIn(m) : \E s, t \in Cache!Used(m) :
                e = <<m.entries[s].id, m.entries[t].id>>
<1>1. ASSUME NEW e \in OlderIn(m)
      PROVE  \E s, t \in Cache!Used(m) :
               /\ e = <<m.entries[s].id, m.entries[t].id>>
               /\ m.entries[s].lastUsed < m.entries[t].lastUsed
    BY DEF OlderIn
<1>2. ASSUME NEW s \in Cache!Used(m), NEW t \in Cache!Used(m),
             <<m.entries[s].id, m.entries[t].id>> \in OlderIn(m)
      PROVE  m.entries[s].lastUsed < m.entries[t].lastUsed
    <2>1. PICK u, v \in Cache!Used(m) :
            /\ <<m.entries[s].id, m.entries[t].id>> = <<m.entries[u].id, m.entries[v].id>>
            /\ m.entries[u].lastUsed < m.entries[v].lastUsed
        BY <1>1, <1>2
    <2>2. s = u /\ t = v
        BY <2>1 DEF Sound
    <2>3. QED
        BY <2>1, <2>2
<1>3. ASSUME NEW s \in Cache!Used(m), NEW t \in Cache!Used(m),
             m.entries[s].lastUsed < m.entries[t].lastUsed
      PROVE  <<m.entries[s].id, m.entries[t].id>> \in OlderIn(m)
    <2>1. PICK p : p = <<s, t>>
        OBVIOUS
    <2>2. p \in Cache!Used(m) \X Cache!Used(m) /\ p[1] = s /\ p[2] = t
        BY <2>1
    <2>3. p \in {q \in Cache!Used(m) \X Cache!Used(m) :
                    m.entries[q[1]].lastUsed < m.entries[q[2]].lastUsed}
        BY <1>3, <2>2
    <2>4. <<m.entries[p[1]].id, m.entries[p[2]].id>> \in OlderIn(m)
        BY <2>3, Zenon DEF OlderIn
    <2>5. QED
        BY <2>2, <2>4
<1>4. QED
    BY <1>1, <1>2, <1>3

\* The caller sees that entries are gone, and nothing else.
ShowsOnly(w, m, rest) ==
    /\ \A i \in Ids : /\ HeldIn(w)[i] = IF i \in rest THEN HeldIn(m)[i] ELSE None
                      /\ LeftIn(w)[i] = IF i \in rest THEN LeftIn(m)[i] ELSE 0
    /\ OlderIn(w) = {e \in OlderIn(m) : e[1] \in rest /\ e[2] \in rest}
    /\ rest = Names(w, Cache!Used(w)) /\ rest \subseteq Ids

LEMMA LeftShows ==
    ASSUME NEW m, Sound(m), NEW w, Sound(w), Left(w, m), NEW rest, rest = Names(m, Cache!Used(w))
    PROVE  ShowsOnly(w, m, rest)
<1>1. \A s \in Cache!Used(w) : s \in Cache!Used(m) /\ w.entries[s] = m.entries[s]
    BY DEF Left
<1>2. rest = Names(w, Cache!Used(w))
    BY <1>1 DEF Names
<1>3. rest \subseteq Ids
    BY <1>1, ById DEF Names
<1>4. ASSUME NEW i \in Ids
      PROVE  /\ HeldIn(w)[i] = IF i \in rest THEN HeldIn(m)[i] ELSE None
             /\ LeftIn(w)[i] = IF i \in rest THEN LeftIn(m)[i] ELSE 0
    <2>1. CASE i \in rest
        <3>1. PICK s \in Cache!Used(w) : i = m.entries[s].id
            BY <2>1 DEF Names
        <3>2. s \in Cache!Used(m) /\ i = w.entries[s].id /\ w.entries[s] = m.entries[s]
            BY <1>1, <3>1
        <3>3. HeldIn(w)[i] = w.entries[s].models /\ LeftIn(w)[i] = w.entries[s].left
            BY <3>1, <3>2, ById
        <3>4. HeldIn(m)[i] = m.entries[s].models /\ LeftIn(m)[i] = m.entries[s].left
            BY <3>1, <3>2, ById
        <3>5. QED
            BY <2>1, <3>2, <3>3, <3>4
    <2>2. CASE i \notin rest
        BY <1>2, <2>2, NotThere
    <2>3. QED
        BY <2>1, <2>2
<1>5. ASSUME NEW e \in OlderIn(w) PROVE e \in OlderIn(m) /\ e[1] \in rest /\ e[2] \in rest
    <2>1. PICK s, t \in Cache!Used(w) : e = <<w.entries[s].id, w.entries[t].id>>
        BY <1>5, OlderPairs
    <2>2. w.entries[s].lastUsed < w.entries[t].lastUsed
        BY <1>5, <2>1, OlderPairs
    <2>3. /\ s \in Cache!Used(m) /\ t \in Cache!Used(m)
          /\ w.entries[s] = m.entries[s] /\ w.entries[t] = m.entries[t]
        BY <1>1
    <2>4. <<m.entries[s].id, m.entries[t].id>> \in OlderIn(m)
        BY <2>2, <2>3, OlderPairs
    <2>5. e[1] = m.entries[s].id /\ e[2] = m.entries[t].id
        BY <2>1, <2>3
    <2>6. QED
        BY <2>1, <2>3, <2>4, <2>5 DEF Names
<1>6. ASSUME NEW e \in OlderIn(m), e[1] \in rest, e[2] \in rest PROVE e \in OlderIn(w)
    <2>1. PICK s, t \in Cache!Used(m) : e = <<m.entries[s].id, m.entries[t].id>>
        BY <1>6, OlderPairs
    <2>2. e[1] = m.entries[s].id /\ e[2] = m.entries[t].id
        BY <2>1
    <2>3. PICK u \in Cache!Used(w) : m.entries[u].id = m.entries[s].id
        BY <1>6, <2>2 DEF Names
    <2>4. PICK v \in Cache!Used(w) : m.entries[v].id = m.entries[t].id
        BY <1>6, <2>2 DEF Names
    <2>5. s = u /\ t = v
        BY <1>1, <2>3, <2>4 DEF Sound
    <2>6. m.entries[s].lastUsed < m.entries[t].lastUsed
        BY <1>6, <2>1, OlderPairs
    <2>7. <<w.entries[s].id, w.entries[t].id>> \in OlderIn(w)
        <3>1. w.entries[s].lastUsed < w.entries[t].lastUsed /\ s \in Cache!Used(w)
              /\ t \in Cache!Used(w)
            BY <1>1, <2>5, <2>6
        <3>2. QED
            BY <3>1, OlderPairs
    <2>8. QED
        BY <1>1, <2>1, <2>5, <2>7
<1>7. OlderIn(w) = {e \in OlderIn(m) : e[1] \in rest /\ e[2] \in rest}
    BY <1>5, <1>6
<1>8. QED
    BY <1>2, <1>3, <1>4, <1>7 DEF ShowsOnly

-----------------------------------------------------------------------------
LEMMA SameSize ==
    ASSUME NEW S, IsFiniteSet(S), NEW T, NEW f \in [S -> T],
           \A x, y \in S : f[x] = f[y] => x = y, \A y \in T : \E x \in S : f[x] = y
    PROVE  Cardinality(T) = Cardinality(S)
<1>1. ExistsBijection(S, T)
    <2>1. f \in Injection(S, T)
        BY DEF Injection, IsInjective
    <2>2. f \in Surjection(S, T)
        BY DEF Surjection
    <2>3. QED
        BY <2>1, <2>2, Zenon DEF ExistsBijection, Bijection
<1>2. QED
    BY <1>1, FS_Bijection

BytesIn(m, T) == Cardinality(UNION {{i} \X (1 .. Size[HeldIn(m)[i]]) : i \in T})

\* An entry for each name, and its bytes.
LEMMA NamesCount ==
    ASSUME NEW m, Sound(m), NEW S, S \subseteq Cache!Used(m), NEW T, T = Names(m, S)
    PROVE  Cardinality(T) = Cardinality(S) /\ BytesIn(m, T) = Weight(m, S)
<1>1. Cardinality(T) = Cardinality(S)
    <2> DEFINE f == [s \in S |-> m.entries[s].id]
    <2>1. f \in [S -> T] /\ \A y \in T : \E x \in S : f[x] = y
        BY DEF Names
    <2>2. \A x, y \in S : f[x] = f[y] => x = y
        BY DEF Sound
    <2>3. IsFiniteSet(S)
        BY UsedTypes, FS_Subset DEF Sound
    <2>4. QED
        <3> HIDE DEF f
        <3>1. QED
            BY <2>1, <2>2, <2>3, SameSize
<1>2. PICK C : C = UNION {{i} \X (1 .. Size[HeldIn(m)[i]]) : i \in T}
    OBVIOUS
<1>3. ASSUME NEW s \in S
      PROVE  m.entries[s].id \in T /\ HeldIn(m)[m.entries[s].id] = m.entries[s].models
    BY ById DEF Names
<1>4. BytesIn(m, T) = Weight(m, S)
    <2> DEFINE f == [c \in Cells(m, S) |-> <<m.entries[c[1]].id, c[2]>>]
    <2>1. ASSUME NEW c \in Cells(m, S)
          PROVE  \E s \in S : \E b \in 1 .. Size[m.entries[s].models] :
                   c = <<s, b>> /\ c[1] = s /\ c[2] = b
        BY <2>1 DEF Cells
    <2>2. ASSUME NEW c \in Cells(m, S) PROVE f[c] \in C
        <3>1. PICK s \in S : \E b \in 1 .. Size[m.entries[s].models] :
                c = <<s, b>> /\ c[1] = s /\ c[2] = b
            BY <2>1
        <3>2. PICK b \in 1 .. Size[m.entries[s].models] : c = <<s, b>> /\ c[1] = s /\ c[2] = b
            BY <3>1
        <3>3. f[c] = <<m.entries[s].id, b>>
            BY <3>2
        <3>4. <<m.entries[s].id, b>>
                \in {m.entries[s].id} \X (1 .. Size[HeldIn(m)[m.entries[s].id]])
            BY <1>3, <3>2
        <3>5. QED
            BY <1>2, <1>3, <3>3, <3>4
    <2>3. ASSUME NEW y \in C PROVE \E c \in Cells(m, S) : f[c] = y
        <3>1. PICK i \in T : y \in {i} \X (1 .. Size[HeldIn(m)[i]])
            BY <1>2, <2>3
        <3>2. PICK s \in S : i = m.entries[s].id
            BY <3>1 DEF Names
        <3>3. PICK b \in 1 .. Size[m.entries[s].models] : y = <<i, b>>
            BY <1>3, <3>1, <3>2
        <3>4. PICK c : c = <<s, b>>
            OBVIOUS
        <3>5. c[1] = s /\ c[2] = b /\ c \in {s} \X (1 .. Size[m.entries[s].models])
            BY <3>4
        <3>6. c \in Cells(m, S)
            BY <3>5 DEF Cells
        <3>7. f[c] = y
            BY <3>2, <3>3, <3>5, <3>6
        <3>8. QED
            BY <3>6, <3>7
    <2>4. ASSUME NEW c \in Cells(m, S), NEW d \in Cells(m, S), f[c] = f[d] PROVE c = d
        <3>1. PICK s \in S : \E b \in 1 .. Size[m.entries[s].models] :
                c = <<s, b>> /\ c[1] = s /\ c[2] = b
            BY <2>1
        <3>2. PICK t \in S : \E b \in 1 .. Size[m.entries[t].models] :
                d = <<t, b>> /\ d[1] = t /\ d[2] = b
            BY <2>1
        <3>3. m.entries[c[1]].id = m.entries[d[1]].id /\ c[2] = d[2]
            BY <2>4
        <3>4. s = t
            BY <3>1, <3>2, <3>3 DEF Sound
        <3>5. QED
            BY <3>1, <3>2, <3>3, <3>4
    <2>5. IsFiniteSet(Cells(m, S))
        BY CellsFinite DEF Sound
    <2>6. Cardinality(C) = Cardinality(Cells(m, S))
        <3>1. f \in [Cells(m, S) -> C]
            BY <2>2
        <3>2. QED
            <4> HIDE DEF f
            <4>1. QED
                BY <2>3, <2>4, <2>5, <3>1, SameSize
    <2>7. QED
        BY <1>2, <2>6, Zenon DEF BytesIn, Weight
<1>5. QED
    BY <1>1, <1>4

RecentIn(m, U) == {T \in SUBSET U : \A i \in T, j \in U \ T : <<j, i>> \in OlderIn(m)}
FittingIn(m, U, need) ==
    {T \in RecentIn(m, U) : Cardinality(T) < MaxEntries /\ BytesIn(m, T) + need <= CacheBytes}

Staying(m, U, need) == UNION FittingIn(m, U, need)

\* Sets of names that fit are sets of entries that fit.
LEMMA FittingNames ==
    ASSUME NEW m, Sound(m), NEW w, Sound(w), Left(w, m), NEW U, U = Names(m, Cache!Used(w)),
           NEW need, NEW S, S \subseteq Cache!Used(w), NEW T, T = Names(m, S)
    PROVE  T \in FittingIn(m, U, need) <=> Recent(w, S) /\ Fits(w, S, need)
<1>1. \A s \in Cache!Used(w) : s \in Cache!Used(m) /\ w.entries[s] = m.entries[s]
    BY DEF Left
<1>2. T \subseteq U
    BY DEF Names
<1>3. ASSUME NEW s \in Cache!Used(w) PROVE m.entries[s].id \in T <=> s \in S
    <2>1. ASSUME m.entries[s].id \in T PROVE s \in S
        <3>1. PICK t \in S : m.entries[t].id = m.entries[s].id
            BY <2>1 DEF Names
        <3>2. s = t
            BY <1>1, <3>1 DEF Sound
        <3>3. QED
            BY <3>2
    <2>2. QED
        BY <2>1 DEF Names
<1>4. T \in RecentIn(m, U) => Recent(w, S)
    <2>1. ASSUME T \in RecentIn(m, U), NEW s \in S, NEW t \in Cache!Used(w) \ S
          PROVE  w.entries[t].lastUsed < w.entries[s].lastUsed
        <3>1. m.entries[s].id \in T /\ m.entries[t].id \in U \ T
            BY <1>3 DEF Names
        <3>2. <<m.entries[t].id, m.entries[s].id>> \in OlderIn(m)
            BY <2>1, <3>1 DEF RecentIn
        <3>3. m.entries[t].lastUsed < m.entries[s].lastUsed
            BY <1>1, <3>2, OlderPairs
        <3>4. QED
            BY <1>1, <3>3
    <2>2. QED
        BY <2>1 DEF Recent
<1>5. Recent(w, S) => T \in RecentIn(m, U)
    <2>1. ASSUME Recent(w, S), NEW i \in T, NEW j \in U \ T PROVE <<j, i>> \in OlderIn(m)
        <3>1. PICK s \in S : i = m.entries[s].id
            BY DEF Names
        <3>2. PICK t \in Cache!Used(w) : j = m.entries[t].id
            BY DEF Names
        <3>3. t \notin S
            BY <1>3, <3>2
        <3>4. w.entries[t].lastUsed < w.entries[s].lastUsed
            BY <2>1, <3>3 DEF Recent
        <3>5. m.entries[t].lastUsed < m.entries[s].lastUsed
            BY <1>1, <3>4
        <3>6. QED
            BY <1>1, <3>1, <3>2, <3>5, OlderPairs
    <2>2. QED
        BY <1>2, <2>1 DEF RecentIn
<1>6. Cardinality(T) = Cardinality(S) /\ BytesIn(m, T) = Weight(m, S)
    BY <1>1, NamesCount
<1>7. Weight(w, S) = Weight(m, S)
    BY <1>1, WeightSame
<1>8. Fits(w, S, need) <=> Cardinality(T) < MaxEntries /\ BytesIn(m, T) + need <= CacheBytes
    BY <1>6, <1>7 DEF Fits
<1>9. QED
    BY <1>4, <1>5, <1>8 DEF FittingIn

\* What stays after evictions is what should.
LEMMA StayingNames ==
    ASSUME NEW m, Sound(m), NEW w, Sound(w), Left(w, m), NEW U, U = Names(m, Cache!Used(w)),
           NEW need \in Nat, need <= CacheBytes, NEW x, x = Cache!Evicted(w, need)
    PROVE  Staying(m, U, need) = Names(m, Cache!Used(x))
<1>1. /\ Cache!Used(x) \subseteq Cache!Used(w) /\ Recent(w, Cache!Used(x))
      /\ Fits(w, Cache!Used(x), need)
      /\ \A T : Recent(w, T) /\ Fits(w, T, need) => T \subseteq Cache!Used(x)
    BY EvictedSome DEF Left
<1>2. Names(m, Cache!Used(x)) \in FittingIn(m, U, need)
    BY <1>1, FittingNames
<1>3. ASSUME NEW T \in FittingIn(m, U, need) PROVE T \subseteq Names(m, Cache!Used(x))
    <2>1. T \subseteq U
        BY <1>3 DEF FittingIn, RecentIn
    <2>2. PICK S : S = {s \in Cache!Used(w) : m.entries[s].id \in T}
        OBVIOUS
    <2>3. S \subseteq Cache!Used(w) /\ T = Names(m, S)
        BY <2>1, <2>2 DEF Names
    <2>4. Recent(w, S) /\ Fits(w, S, need)
        BY <1>3, <2>3, FittingNames
    <2>5. S \subseteq Cache!Used(x)
        BY <1>1, <2>4
    <2>6. QED
        BY <2>3, <2>5 DEF Names
<1>4. QED
    BY <1>2, <1>3 DEF Staying

\* An entry is put, or used: it is now the most recently used one.
Uses(f, w, s, e, Q) ==
    /\ Sound(f) /\ Cache!Used(f) = Q \cup {s} /\ f.entries[s] = e
    /\ \A t \in Q : /\ f.entries[t].id = w.entries[t].id
                    /\ f.entries[t].models = w.entries[t].models
                    /\ f.entries[t].left = w.entries[t].left
    /\ \A t \in Q \cup {s} : f.entries[t].lastUsed <= e.lastUsed
    /\ OlderIn(f) = {p \in OlderIn(w) : p[1] \in Names(w, Q) /\ p[2] \in Names(w, Q)}
                      \cup (Names(w, Q) \X {e.id})

LEMMA Touched ==
    ASSUME NEW w, Sound(w), NEW n \in Nat, NEW r, Redated(r, w, n), NEW s \in Cache!Slots,
           NEW e \in KeptEntries, e.lastUsed = n,
           NEW Q, Q = Cache!Used(w) \ {s}, \A t \in Q : w.entries[t].id # e.id,
           NEW f, f = [entries |-> [r.entries EXCEPT ![s] = e], bytes |-> Weight(f, Q \cup {s})],
           Weight(f, Q \cup {s}) \in Nat, Weight(f, Q \cup {s}) <= CacheBytes
    PROVE  Uses(f, w, s, e, Q)
<1>1. /\ w \in Memories /\ r \in Memories /\ None \notin KeptEntries /\ Q \subseteq Cache!Slots
      /\ \A t \in Q : w.entries[t] \in KeptEntries /\ r.entries[t] \in KeptEntries
    BY UsedTypes, CacheTypes DEF Sound, Redated, Cache!Used
<1>2. /\ f.entries = [r.entries EXCEPT ![s] = e] /\ f.bytes = Weight(f, Q \cup {s})
      /\ r.entries \in [Cache!Slots -> KeptEntries \cup {None}]
    BY <1>1 DEF Memories
<1>3. /\ f.entries[s] = e /\ \A t \in Cache!Slots : t # s => f.entries[t] = r.entries[t]
    BY <1>2
<1>4. f.entries \in [Cache!Slots -> KeptEntries \cup {None}]
    BY <1>2
<1>5. f \in Memories
    BY <1>2, <1>4 DEF Memories
<1>6. Cache!Used(f) = Q \cup {s}
    BY <1>1, <1>3 DEF Cache!Used, Redated
<1>7. ASSUME NEW t \in Q
      PROVE  /\ f.entries[t].id = w.entries[t].id /\ f.entries[t].models = w.entries[t].models
             /\ f.entries[t].left = w.entries[t].left /\ f.entries[t] = r.entries[t]
             /\ f.entries[t].lastUsed < n /\ f.entries[t].lastUsed \in Nat /\ t # s
    BY <1>1, <1>3, <1>7 DEF Redated, KeptEntries
<1>8. ASSUME NEW t \in Q, NEW u \in Q
      PROVE  f.entries[t].lastUsed < f.entries[u].lastUsed
               <=> w.entries[t].lastUsed < w.entries[u].lastUsed
    BY <1>7 DEF Redated
<1>9. ASSUME NEW t \in Q \cup {s}, NEW u \in Q \cup {s},
             f.entries[t].id = f.entries[u].id \/ f.entries[t].lastUsed = f.entries[u].lastUsed
      PROVE  t = u
    <2>1. CASE t \in Q /\ u \in Q
        <3>1. /\ w.entries[t].lastUsed \in Nat /\ w.entries[u].lastUsed \in Nat
              /\ f.entries[t].lastUsed \in Nat /\ f.entries[u].lastUsed \in Nat
            BY <1>1, <1>7, <2>1 DEF KeptEntries
        <3>2. w.entries[t].id = w.entries[u].id \/ w.entries[t].lastUsed = w.entries[u].lastUsed
            BY <1>7, <1>8, <1>9, <2>1, <3>1
        <3>3. QED
            BY <2>1, <3>2 DEF Sound
    <2>2. CASE t = s /\ u \in Q
        BY <1>3, <1>7, <1>9, <2>2
    <2>3. CASE u = s /\ t \in Q
        BY <1>3, <1>7, <1>9, <2>3
    <2>4. QED
        BY <2>1, <2>2, <2>3
<1>10. Sound(f)
    BY <1>2, <1>5, <1>6, <1>9 DEF Sound
<1>11. \A t \in Q \cup {s} : f.entries[t].lastUsed <= n
    BY <1>3, <1>7
<1>12. OlderIn(f) = {p \in OlderIn(w) : p[1] \in Names(w, Q) /\ p[2] \in Names(w, Q)}
                      \cup (Names(w, Q) \X {e.id})
    <2>1. ASSUME NEW p \in OlderIn(f)
          PROVE  \/ p \in OlderIn(w) /\ p[1] \in Names(w, Q) /\ p[2] \in Names(w, Q)
                 \/ p \in Names(w, Q) \X {e.id}
        <3>1. PICK t, u \in Q \cup {s} : p = <<f.entries[t].id, f.entries[u].id>>
            BY <1>6, <1>10, <2>1, OlderPairs
        <3>2. f.entries[t].lastUsed < f.entries[u].lastUsed
            BY <1>6, <1>10, <2>1, <3>1, OlderPairs
        <3>3. t # s
            <4>1. n < n => FALSE
                OBVIOUS
            <4>2. t = s => n < f.entries[u].lastUsed
                BY <1>3, <3>2
            <4>3. u = s \/ (u \in Q /\ f.entries[u].lastUsed < n /\ f.entries[u].lastUsed \in Nat)
                BY <1>7
            <4>4. CASE u = s
                BY <1>3, <4>1, <4>2, <4>4
            <4>5. CASE u # s
                BY <4>2, <4>3, <4>5
            <4>6. QED
                BY <4>4, <4>5
        <3>4. t \in Q /\ f.entries[t].id = w.entries[t].id
            BY <1>7, <3>1, <3>3
        <3>5. CASE u = s
            BY <1>3, <3>1, <3>4, <3>5 DEF Names
        <3>6. CASE u # s
            <4>1. u \in Q /\ f.entries[u].id = w.entries[u].id
                BY <1>7, <3>1, <3>6
            <4>2. w.entries[t].lastUsed < w.entries[u].lastUsed
                BY <1>8, <3>2, <3>4, <4>1
            <4>3. p \in OlderIn(w)
                BY <3>1, <3>4, <4>1, <4>2, OlderPairs
            <4>4. p[1] = w.entries[t].id /\ p[2] = w.entries[u].id
                BY <3>1, <3>4, <4>1
            <4>5. QED
                BY <3>4, <4>1, <4>3, <4>4 DEF Names
        <3>7. QED
            BY <3>5, <3>6
    <2>2. ASSUME NEW p \in OlderIn(w), p[1] \in Names(w, Q), p[2] \in Names(w, Q)
          PROVE  p \in OlderIn(f)
        <3>1. PICK t, u \in Cache!Used(w) : p = <<w.entries[t].id, w.entries[u].id>>
            BY <2>2, OlderPairs
        <3>2. w.entries[t].lastUsed < w.entries[u].lastUsed
            BY <2>2, <3>1, OlderPairs
        <3>3. p[1] = w.entries[t].id /\ p[2] = w.entries[u].id
            BY <3>1
        <3>4. t \in Q /\ u \in Q
            BY <2>2, <3>1, <3>3 DEF Names, Sound
        <3>5. /\ f.entries[t].lastUsed < f.entries[u].lastUsed
              /\ p = <<f.entries[t].id, f.entries[u].id>>
            BY <1>7, <1>8, <3>1, <3>2, <3>4
        <3>6. QED
            BY <1>6, <1>10, <3>4, <3>5, OlderPairs
    <2>3. ASSUME NEW p \in Names(w, Q) \X {e.id} PROVE p \in OlderIn(f)
        <3>1. PICK t \in Q : p = <<w.entries[t].id, e.id>>
            BY <2>3 DEF Names
        <3>2. p = <<f.entries[t].id, f.entries[s].id>>
            BY <1>3, <1>7, <3>1
        <3>3. f.entries[t].lastUsed < f.entries[s].lastUsed
            BY <1>3, <1>7
        <3>4. QED
            BY <1>6, <1>10, <3>2, <3>3, OlderPairs
    <2>4. QED
        BY <2>1, <2>2, <2>3
<1>13. QED
    BY <1>3, <1>6, <1>7, <1>10, <1>11, <1>12 DEF Uses

-----------------------------------------------------------------------------
\* What every state of the memory keeps: entries were used by now.
Orderly(m, n) ==
    /\ Sound(m) /\ n \in 0..MaxSequence
    /\ \A s \in Cache!Used(m) : m.entries[s].lastUsed <= n
CacheInv == Orderly(Cache!memory, sequence)

LEMMA OrderlyLeft ==
    ASSUME NEW m, NEW n, Orderly(m, n), NEW w, Sound(w), Left(w, m)
    PROVE  Orderly(w, n)
BY DEF Orderly, Left

LEMMA MemoryRecord ==
    ASSUME NEW m \in Memories PROVE m = [entries |-> m.entries, bytes |-> m.bytes]
BY DEF Memories

LEMMA LeftTwice ==
    ASSUME NEW m, NEW w, Left(w, m), NEW x, Left(x, w) PROVE Left(x, m)
BY DEF Left

\* What is seen of the entries that were not touched.
LEMMA SameShows ==
    ASSUME NEW m, Sound(m), NEW f, Sound(f), NEW S, S \subseteq Cache!Used(m),
           S \subseteq Cache!Used(f),
           \A t \in S : /\ f.entries[t].id = m.entries[t].id
                        /\ f.entries[t].models = m.entries[t].models
    PROVE  /\ Names(f, S) = Names(m, S)
           /\ \A i \in Names(m, S) : i \in Ids /\ HeldIn(f)[i] = HeldIn(m)[i]
           /\ (\A t \in S : f.entries[t].left = m.entries[t].left)
                => \A i \in Names(m, S) : LeftIn(f)[i] = LeftIn(m)[i]
<1>1. Names(f, S) = Names(m, S)
    BY DEF Names
<1>2. ASSUME NEW i \in Names(m, S)
      PROVE  \E t \in S : /\ i \in Ids /\ HeldIn(f)[i] = HeldIn(m)[i]
                          /\ LeftIn(f)[i] = f.entries[t].left /\ LeftIn(m)[i] = m.entries[t].left
    <2>1. PICK t \in S : i = m.entries[t].id
        BY <1>2 DEF Names
    <2>2. /\ i \in Ids /\ HeldIn(m)[i] = m.entries[t].models /\ LeftIn(m)[i] = m.entries[t].left
        BY <2>1, ById
    <2>3. i = f.entries[t].id /\ t \in Cache!Used(f)
        BY <2>1
    <2>4. HeldIn(f)[i] = f.entries[t].models /\ LeftIn(f)[i] = f.entries[t].left
        BY <2>3, ById
    <2>5. QED
        BY <2>2, <2>4
<1>3. QED
    BY <1>1, <1>2

\* The identifiers whose listing is not past its time.
LiveIn(m) == {i \in Ids : HeldIn(m)[i] # None /\ LeftIn(m)[i] > 0}

LEMMA LiveNames ==
    ASSUME NEW m, Sound(m)
    PROVE  /\ LiveIn(m) = Names(m, Cache!Used(m) \ Cache!Expired(m))
           /\ \A i \in Ids \ LiveIn(m) : LeftIn(m)[i] = 0
<1>1. \A s \in Cache!Used(m) : m.entries[s].left \in Nat
    BY UsedTypes, CacheTypes DEF Sound, KeptEntries
<1>2. ASSUME NEW i \in Ids, NEW s \in Cache!Used(m), i = m.entries[s].id
      PROVE  /\ i \in LiveIn(m) <=> s \notin Cache!Expired(m)
             /\ i \notin LiveIn(m) => LeftIn(m)[i] = 0
    <2>1. HeldIn(m)[i] # None /\ LeftIn(m)[i] = m.entries[s].left
        BY <1>2, ById
    <2>2. QED
        BY <1>1, <2>1 DEF LiveIn, Cache!Expired
<1>3. ASSUME NEW i \in LiveIn(m) PROVE i \in Names(m, Cache!Used(m) \ Cache!Expired(m))
    <2>1. i \in Names(m, Cache!Used(m))
        BY <1>3, NotThere DEF LiveIn
    <2>2. QED
        BY <1>2, <2>1 DEF Names, LiveIn
<1>4. ASSUME NEW i \in Names(m, Cache!Used(m) \ Cache!Expired(m)) PROVE i \in LiveIn(m)
    <2>1. PICK s \in Cache!Used(m) \ Cache!Expired(m) : i = m.entries[s].id
        BY <1>4 DEF Names
    <2>2. i \in Ids
        BY <2>1, ById
    <2>3. QED
        BY <1>2, <2>1, <2>2
<1>5. ASSUME NEW i \in Ids \ LiveIn(m) PROVE LeftIn(m)[i] = 0
    <2>1. CASE i \in Names(m, Cache!Used(m))
        BY <1>2, <2>1 DEF Names
    <2>2. CASE i \notin Names(m, Cache!Used(m))
        BY <2>2, NotThere
    <2>3. QED
        BY <2>1, <2>2
<1>6. QED
    BY <1>3, <1>4, <1>5

\* The promise of the cache is about what its memory shows.
LEMMA Shown ==
    /\ Cache!held = HeldIn(Cache!memory) /\ Cache!left = LeftIn(Cache!memory)
    /\ Cache!older = OlderIn(Cache!memory)
<1>1. Cache!memory.entries = entries
    BY DEF Cache!memory
<1>2. Cache!held = HeldIn(Cache!memory)
    BY <1>1 DEF Cache!held, HeldIn
<1>3. Cache!left = LeftIn(Cache!memory)
    BY <1>1 DEF Cache!left, LeftIn
<1>4. Cache!older = OlderIn(Cache!memory)
    BY <1>1 DEF Cache!older, OlderIn
<1>5. QED
    BY <1>2, <1>3, <1>4

LEMMA ShownNext ==
    ASSUME NEW f, f = Cache!memory'
    PROVE  /\ Cache!held' = HeldIn(f) /\ Cache!left' = LeftIn(f)
           /\ Cache!older' = OlderIn(f)
<1>1. f.entries = entries'
    BY DEF Cache!memory
<1>2. Cache!held' = HeldIn(f)
    BY <1>1 DEF Cache!held, HeldIn, Cache!Find, Cache!Used, Cache!memory
<1>3. Cache!left' = LeftIn(f)
    BY <1>1 DEF Cache!left, LeftIn, Cache!Find, Cache!Used, Cache!memory
<1>4. Cache!older' = OlderIn(f)
    BY <1>1 DEF Cache!older, OlderIn, Cache!Used, Cache!memory
<1>5. QED
    BY <1>2, <1>3, <1>4

LEMMA CacheInvNext ==
    ASSUME NEW f, f = Cache!memory', Orderly(f, sequence') PROVE CacheInv'
<1>1. (Cache!memory)' = f
    OBVIOUS
<1>2. QED
    BY <1>1 DEF CacheInv, Orderly, Sound, Cache!Used, Memories, Weight, Cells

LEMMA Changed ==
    ASSUME NEW w \in Memories, Cache!Becomes(w) PROVE Cache!memory' = w
<1>1. Cache!memory' = [entries |-> w.entries, bytes |-> w.bytes]
    BY DEF Cache!Becomes, Cache!memory
<1>2. QED
    BY <1>1, MemoryRecord

LEMMA RefuseShows ==
    ASSUME CacheInv, NEW i \in Ids, Cache!Refuse(i)
    PROVE  Cache!Recency!Refuse(i) /\ CacheInv'
<1>1. PICK m : m = Cache!memory
    OBVIOUS
<1>2. PICK f : f = Cache!WithoutAll(m, Cache!Find(m, i))
    OBVIOUS
<1>3. Sound(m) /\ Orderly(m, sequence)
    BY <1>1 DEF CacheInv, Orderly
<1>4. Sound(f) /\ Left(f, m) /\ Cache!Used(f) = Cache!Used(m) \ Cache!Find(m, i)
    BY <1>2, <1>3, WithoutSome DEF Cache!Find
<1>5. f = Cache!memory' /\ sequence' = sequence /\ answer' = None
    BY <1>1, <1>2, <1>4, Changed DEF Cache!Refuse, Sound
<1>6. CacheInv'
    BY <1>3, <1>4, <1>5, OrderlyLeft, CacheInvNext
<1>7. PICK rest : rest = Names(m, Cache!Used(f))
    OBVIOUS
<1>8. rest = Names(m, Cache!Used(m)) \ {i}
    BY <1>4, <1>7 DEF Names, Cache!Find
<1>9. /\ \A j \in Ids : /\ HeldIn(f)[j] = IF j \in rest THEN HeldIn(m)[j] ELSE None
                        /\ LeftIn(f)[j] = IF j \in rest THEN LeftIn(m)[j] ELSE 0
      /\ OlderIn(f) = {e \in OlderIn(m) : e[1] \in rest /\ e[2] \in rest}
    <2>1. ShowsOnly(f, m, rest)
        BY <1>3, <1>4, <1>7, LeftShows
    <2>2. QED
        BY <2>1 DEF ShowsOnly
<1>10. ASSUME NEW j \in Ids
       PROVE  /\ HeldIn(f)[j] = IF j = i THEN None ELSE HeldIn(m)[j]
              /\ LeftIn(f)[j] = IF j = i THEN 0 ELSE LeftIn(m)[j]
    BY <1>8, <1>9, NotThere
<1>11. HeldIn(f) = [HeldIn(m) EXCEPT ![i] = None] /\ LeftIn(f) = [LeftIn(m) EXCEPT ![i] = 0]
    <2>1. DOMAIN HeldIn(m) = Ids /\ DOMAIN LeftIn(m) = Ids
        BY DEF HeldIn, LeftIn
    <2>2. HeldIn(f) = [j \in Ids |-> HeldIn(f)[j]] /\ LeftIn(f) = [j \in Ids |-> LeftIn(f)[j]]
        BY DEF HeldIn, LeftIn
    <2>3. HeldIn(f) = [HeldIn(m) EXCEPT ![i] = None]
        BY <1>10, <2>1, <2>2
    <2>4. LeftIn(f) = [LeftIn(m) EXCEPT ![i] = 0]
        BY <1>10, <2>1, <2>2
    <2>5. QED
        BY <2>3, <2>4
<1>12. ASSUME NEW e \in OlderIn(m)
       PROVE  e[1] \in Names(m, Cache!Used(m)) /\ e[2] \in Names(m, Cache!Used(m))
    <2>1. PICK s, t \in Cache!Used(m) : e = <<m.entries[s].id, m.entries[t].id>>
        BY <1>3, OlderPairs
    <2>2. QED
        BY <2>1 DEF Names
<1>13. OlderIn(f) = {e \in OlderIn(m) : e[1] # i /\ e[2] # i}
    BY <1>8, <1>9, <1>12
<1>14. /\ Cache!held' = [Cache!held EXCEPT ![i] = None]
       /\ Cache!left' = [Cache!left EXCEPT ![i] = 0]
       /\ Cache!older' = {e \in Cache!older : e[1] # i /\ e[2] # i}
    BY <1>1, <1>5, <1>11, <1>13, Shown, ShownNext
<1>15. QED
    BY <1>5, <1>6, <1>14 DEF Cache!Recency!Refuse

LEMMA TickShows ==
    ASSUME CacheInv, Cache!Tick
    PROVE  Cache!Recency!Tick /\ CacheInv'
<1>1. PICK m : m = Cache!memory
    OBVIOUS
<1>2. PICK f : f = Cache!memory'
    OBVIOUS
<1>3. Sound(m) /\ Orderly(m, sequence)
    BY <1>1 DEF CacheInv, Orderly
<1>4. /\ m.entries = entries /\ f.entries = entries' /\ f.bytes = m.bytes
      /\ sequence' = sequence /\ answer' = None
      /\ f = [entries |-> f.entries, bytes |-> f.bytes]
    BY <1>1, <1>2 DEF Cache!Tick, Cache!memory
<1>5. f.entries = [s \in Cache!Slots |->
           IF m.entries[s] # None /\ m.entries[s].left > 0
           THEN [m.entries[s] EXCEPT !.left = @ - 1] ELSE m.entries[s]]
    BY <1>4 DEF Cache!Tick
<1>6. /\ m \in Memories /\ None \notin KeptEntries /\ Cache!Used(m) \subseteq Cache!Slots
      /\ \A s \in Cache!Used(m) : m.entries[s] \in KeptEntries
      /\ \A s \in Cache!Slots \ Cache!Used(m) : m.entries[s] = None
    BY <1>3, UsedTypes, CacheTypes DEF Sound, Cache!Used
<1>7. ASSUME NEW s \in Cache!Used(m)
      PROVE  /\ f.entries[s] \in KeptEntries /\ f.entries[s].id = m.entries[s].id
             /\ f.entries[s].models = m.entries[s].models
             /\ f.entries[s].lastUsed = m.entries[s].lastUsed
             /\ f.entries[s].left = IF m.entries[s].left > 0 THEN m.entries[s].left - 1 ELSE 0
    <2>1. PICK e : e = m.entries[s]
        OBVIOUS
    <2>2. e \in KeptEntries /\ e # None
        BY <1>6, <2>1
    <2>3. f.entries[s] = IF e.left > 0 THEN [e EXCEPT !.left = @ - 1] ELSE e
        BY <1>5, <1>6, <2>1, <2>2
    <2>4. CASE e.left > 0
        BY <2>1, <2>2, <2>3, <2>4, CacheTypes, SMTT(30) DEF KeptEntries
    <2>5. CASE ~(e.left > 0)
        BY <2>1, <2>2, <2>3, <2>5, CacheTypes DEF KeptEntries
    <2>6. QED
        BY <2>4, <2>5
<1>8. ASSUME NEW s \in Cache!Slots \ Cache!Used(m) PROVE f.entries[s] = None
    BY <1>5, <1>6
<1>9. f.entries \in [Cache!Slots -> KeptEntries \cup {None}]
    BY <1>5, <1>6, <1>7, <1>8
<1>10. f \in Memories
    BY <1>3, <1>4, <1>9 DEF Sound, Memories
<1>11. Cache!Used(f) = Cache!Used(m)
    BY <1>6, <1>7, <1>8 DEF Cache!Used
<1>12. f.bytes = Weight(f, Cache!Used(f))
    <2>1. Weight(f, Cache!Used(m)) = Weight(m, Cache!Used(m))
        BY <1>7, WeightSame
    <2>2. QED
        BY <1>3, <1>4, <1>11, <2>1 DEF Sound
<1>13. Sound(f)
    BY <1>3, <1>4, <1>7, <1>10, <1>11, <1>12 DEF Sound
<1>14. CacheInv'
    <2>1. Orderly(f, sequence')
        BY <1>3, <1>4, <1>7, <1>11, <1>13 DEF Orderly
    <2>2. QED
        BY <1>2, <2>1, CacheInvNext
<1>15. /\ Names(f, Cache!Used(f)) = Names(m, Cache!Used(m))
       /\ \A i \in Names(m, Cache!Used(m)) : HeldIn(f)[i] = HeldIn(m)[i]
    BY <1>3, <1>7, <1>11, <1>13, SameShows
<1>16. ASSUME NEW i \in Ids
       PROVE  /\ HeldIn(f)[i] = HeldIn(m)[i]
              /\ LeftIn(f)[i] = IF LeftIn(m)[i] > 0 THEN LeftIn(m)[i] - 1 ELSE 0
    <2>1. CASE i \in Names(m, Cache!Used(m))
        <3>1. PICK s \in Cache!Used(m) : i = m.entries[s].id
            BY <2>1 DEF Names
        <3>2. LeftIn(m)[i] = m.entries[s].left
            BY <1>3, <3>1, ById
        <3>3. LeftIn(f)[i] = f.entries[s].left
            BY <1>7, <1>11, <1>13, <3>1, ById
        <3>4. QED
            BY <1>7, <1>15, <2>1, <3>2, <3>3
    <2>2. CASE i \notin Names(m, Cache!Used(m))
        BY <1>15, <2>2, NotThere
    <2>3. QED
        BY <2>1, <2>2
<1>17. HeldIn(f) = HeldIn(m)
    BY <1>16 DEF HeldIn
<1>18. LeftIn(f) = [i \in Ids |-> IF LeftIn(m)[i] > 0 THEN LeftIn(m)[i] - 1 ELSE 0]
    <2>1. LeftIn(f) = [i \in Ids |-> LeftIn(f)[i]]
        BY DEF LeftIn
    <2>2. QED
        BY <1>16, <2>1
<1>19. OlderIn(f) = OlderIn(m)
    <2>1. ASSUME NEW s \in Cache!Used(m), NEW t \in Cache!Used(m)
          PROVE  /\ <<f.entries[s].id, f.entries[t].id>> = <<m.entries[s].id, m.entries[t].id>>
                 /\ f.entries[s].lastUsed < f.entries[t].lastUsed
                      <=> m.entries[s].lastUsed < m.entries[t].lastUsed
        BY <1>7
    <2>2. ASSUME NEW e \in OlderIn(f) PROVE e \in OlderIn(m)
        <3>1. PICK s, t \in Cache!Used(m) : e = <<f.entries[s].id, f.entries[t].id>>
            BY <1>11, <1>13, <2>2, OlderPairs
        <3>2. f.entries[s].lastUsed < f.entries[t].lastUsed
            BY <1>11, <1>13, <2>2, <3>1, OlderPairs
        <3>3. e = <<m.entries[s].id, m.entries[t].id>>
            BY <2>1, <3>1
        <3>4. m.entries[s].lastUsed < m.entries[t].lastUsed
            BY <2>1, <3>2
        <3>5. QED
            BY <1>3, <3>3, <3>4, OlderPairs
    <2>3. ASSUME NEW e \in OlderIn(m) PROVE e \in OlderIn(f)
        <3>1. PICK s, t \in Cache!Used(m) : e = <<m.entries[s].id, m.entries[t].id>>
            BY <1>3, <2>3, OlderPairs
        <3>2. m.entries[s].lastUsed < m.entries[t].lastUsed
            BY <1>3, <2>3, <3>1, OlderPairs
        <3>3. e = <<f.entries[s].id, f.entries[t].id>>
            BY <2>1, <3>1
        <3>4. f.entries[s].lastUsed < f.entries[t].lastUsed
            BY <2>1, <3>2
        <3>5. QED
            BY <1>11, <1>13, <3>3, <3>4, OlderPairs
    <2>4. QED
        BY <2>2, <2>3
<1>20. QED
    <2>1. /\ Cache!held' = Cache!held /\ Cache!older' = Cache!older
          /\ Cache!left' = [i \in Ids |-> IF Cache!left[i] > 0 THEN Cache!left[i] - 1 ELSE 0]
        BY <1>1, <1>2, <1>17, <1>18, <1>19, Shown, ShownNext
    <2>2. QED
        BY <1>4, <1>14, <2>1 DEF Cache!Recency!Tick

\* What is live stays when what is past its time goes.
LEMMA PurgedShows ==
    ASSUME NEW m, NEW n, Orderly(m, n), NEW w, w = Cache!WithoutAll(m, Cache!Expired(m))
    PROVE  Orderly(w, n) /\ ShowsOnly(w, m, LiveIn(m))
<1>1. Sound(m)
    BY DEF Orderly
<1>2. Sound(w) /\ Left(w, m) /\ Cache!Used(w) = Cache!Used(m) \ Cache!Expired(m)
    BY <1>1, WithoutSome DEF Cache!Expired
<1>3. LiveIn(m) = Names(m, Cache!Used(w))
    BY <1>1, <1>2, LiveNames
<1>4. QED
    BY <1>1, <1>2, <1>3, OrderlyLeft, LeftShows

LEMMA GetMisses ==
    ASSUME CacheInv, NEW i \in Ids, Cache!Get(i), NEW w,
           w = Cache!WithoutAll(Cache!memory, Cache!Expired(Cache!memory)), Cache!Find(w, i) = {}
    PROVE  Cache!Recency!Get(i) /\ CacheInv'
<1>1. PICK m : m = Cache!memory
    OBVIOUS
<1>2. Sound(m) /\ Orderly(m, sequence) /\ w = Cache!WithoutAll(m, Cache!Expired(m))
    BY <1>1 DEF CacheInv, Orderly
<1>3. PICK live : live = LiveIn(m)
    OBVIOUS
<1>4. Orderly(w, sequence) /\ ShowsOnly(w, m, live) /\ w \in Memories
    BY <1>2, <1>3, PurgedShows DEF Orderly, Sound
<1>5. Cache!Becomes(w) /\ answer' = None /\ sequence' = sequence
    BY DEF Cache!Get
<1>6. w = Cache!memory'
    BY <1>4, <1>5, Changed
<1>7. CacheInv'
    BY <1>4, <1>5, <1>6, CacheInvNext
<1>8. i \notin live
    <2>1. live = Names(w, Cache!Used(w))
        BY <1>4 DEF ShowsOnly
    <2>2. QED
        BY <2>1 DEF Names, Cache!Find
<1>9. \A j \in Ids : LeftIn(w)[j] = LeftIn(m)[j]
    BY <1>2, <1>3, <1>4, LiveNames DEF ShowsOnly
<1>10. /\ HeldIn(w) = [j \in Ids |-> IF j \in live THEN HeldIn(m)[j] ELSE None]
       /\ LeftIn(w) = LeftIn(m)
       /\ OlderIn(w) = {e \in OlderIn(m) : e[1] \in live /\ e[2] \in live}
    <2>1. HeldIn(w) = [j \in Ids |-> HeldIn(w)[j]]
        BY DEF HeldIn
    <2>2. HeldIn(w) = [j \in Ids |-> IF j \in live THEN HeldIn(m)[j] ELSE None]
        BY <1>4, <2>1 DEF ShowsOnly
    <2>3. LeftIn(w) = LeftIn(m)
        BY <1>9 DEF LeftIn
    <2>4. QED
        BY <1>4, <2>2, <2>3 DEF ShowsOnly
<1>11. live = Cache!Recency!Live
    BY <1>1, <1>3, Shown DEF LiveIn, Cache!Recency!Live, Cache!Recency!Held
<1>12. /\ Cache!held' = [j \in Ids |-> IF j \in live THEN Cache!held[j] ELSE None]
       /\ Cache!left' = Cache!left
       /\ Cache!older' = {e \in Cache!older : e[1] \in live /\ e[2] \in live}
    BY <1>1, <1>6, <1>10, Shown, ShownNext
<1>13. QED
    BY <1>5, <1>7, <1>8, <1>11, <1>12 DEF Cache!Recency!Get

LEMMA GetHits ==
    ASSUME CacheInv, NEW i \in Ids, Cache!Get(i), NEW w,
           w = Cache!WithoutAll(Cache!memory, Cache!Expired(Cache!memory)), Cache!Find(w, i) # {}
    PROVE  Cache!Recency!Get(i) /\ CacheInv'
<1>1. PICK m : m = Cache!memory
    OBVIOUS
<1>2. Sound(m) /\ Orderly(m, sequence) /\ w = Cache!WithoutAll(m, Cache!Expired(m))
    BY <1>1 DEF CacheInv, Orderly
<1>3. PICK live : live = LiveIn(m)
    OBVIOUS
<1>4. Orderly(w, sequence) /\ ShowsOnly(w, m, live) /\ w \in Memories /\ Sound(w)
    BY <1>2, <1>3, PurgedShows DEF Orderly, Sound
<1>5. PICK r, n, s : /\ r = Cache!Renumbered(w) /\ n = Cache!NextSequence(w)
                     /\ s = CHOOSE t \in Cache!Find(w, i) : TRUE
    OBVIOUS
<1>6. /\ Cache!Becomes([r EXCEPT !.entries[s].lastUsed = n]) /\ sequence' = n
      /\ answer' = w.entries[s].models
    BY <1>5 DEF Cache!Get
<1>7. s \in Cache!Used(w) /\ w.entries[s].id = i
    BY <1>5 DEF Cache!Find
<1>8. n \in 1..MaxSequence /\ Redated(r, w, n)
    BY <1>4, <1>5, RenumberedSame DEF Orderly
<1>9. /\ r \in Memories /\ r.entries[s] \in KeptEntries /\ w.entries[s] \in KeptEntries
      /\ s \in Cache!Slots
      /\ r.entries[s].id = i /\ r.entries[s].models = w.entries[s].models
      /\ r.entries[s].left = w.entries[s].left /\ r.bytes = w.bytes
    BY <1>4, <1>7, <1>8, UsedTypes DEF Redated, Cache!Used
<1>10. PICK e : e = [r.entries[s] EXCEPT !.lastUsed = n]
    OBVIOUS
<1>11. /\ e \in KeptEntries /\ e.id = i /\ e.models = w.entries[s].models /\ e.lastUsed = n
       /\ e.left = w.entries[s].left /\ n \in Nat
    BY <1>8, <1>9, <1>10 DEF KeptEntries
<1>12. PICK f : f = Cache!memory'
    OBVIOUS
<1>13. f = [entries |-> [r.entries EXCEPT ![s] = e], bytes |-> r.bytes]
    <2>1. r = [entries |-> r.entries, bytes |-> r.bytes]
        BY <1>9, MemoryRecord
    <2>2. entries' = [r.entries EXCEPT ![s] = e] /\ retainedBytes' = r.bytes
        BY <1>6, <1>10, <2>1 DEF Cache!Becomes
    <2>3. QED
        BY <1>12, <2>2 DEF Cache!memory
<1>14. PICK Q : Q = Cache!Used(w) \ {s}
    OBVIOUS
<1>15. Q \cup {s} = Cache!Used(w) /\ \A t \in Q : w.entries[t].id # e.id
    BY <1>4, <1>7, <1>11, <1>14 DEF Sound
<1>16. ASSUME NEW t \in Cache!Used(w) PROVE f.entries[t].models = w.entries[t].models
    <2>1. r.entries \in [Cache!Slots -> KeptEntries \cup {None}] /\ t \in Cache!Slots
        BY <1>9 DEF Memories, Cache!Used
    <2>2. f.entries[t] = IF t = s THEN e ELSE r.entries[t]
        BY <1>13, <2>1
    <2>3. QED
        BY <1>8, <1>11, <2>2 DEF Redated
<1>17. /\ Weight(f, Q \cup {s}) = r.bytes /\ Weight(f, Q \cup {s}) \in Nat
       /\ Weight(f, Q \cup {s}) <= CacheBytes
    <2>1. Weight(f, Cache!Used(w)) = Weight(w, Cache!Used(w))
        BY <1>16, WeightSame
    <2>2. w.bytes \in Nat
        BY <1>4 DEF Memories
    <2>3. QED
        BY <1>4, <1>9, <1>15, <2>1, <2>2 DEF Sound
<1>18. Uses(f, w, s, e, Q)
    <2>1. f = [entries |-> [r.entries EXCEPT ![s] = e], bytes |-> Weight(f, Q \cup {s})]
        BY <1>13, <1>17
    <2>2. QED
        BY <1>4, <1>8, <1>9, <1>11, <1>14, <1>15, <1>17, <2>1, Touched
<1>19. Sound(f) /\ Cache!Used(f) = Cache!Used(w) /\ f.entries[s] = e
    BY <1>15, <1>18 DEF Uses
<1>20. CacheInv'
    <2>1. Orderly(f, n)
        BY <1>8, <1>11, <1>15, <1>18, <1>19 DEF Uses, Orderly
    <2>2. QED
        BY <1>6, <1>12, <2>1, CacheInvNext
<1>21. /\ live = Names(w, Cache!Used(w)) /\ live \subseteq Ids
       /\ \A j \in Ids : /\ HeldIn(w)[j] = IF j \in live THEN HeldIn(m)[j] ELSE None
                         /\ LeftIn(w)[j] = IF j \in live THEN LeftIn(m)[j] ELSE 0
       /\ OlderIn(w) = {p \in OlderIn(m) : p[1] \in live /\ p[2] \in live}
    BY <1>4 DEF ShowsOnly
<1>22. i \in live /\ Names(w, Q) = live \ {i}
    BY <1>7, <1>11, <1>14, <1>15, <1>21 DEF Names
<1>23. OlderIn(f) = {p \in OlderIn(m) : p[1] \in live \ {i} /\ p[2] \in live \ {i}}
                      \cup ((live \ {i}) \X {i})
    <2>1. OlderIn(f) = {p \in OlderIn(w) : p[1] \in live \ {i} /\ p[2] \in live \ {i}}
                         \cup ((live \ {i}) \X {i})
        BY <1>11, <1>18, <1>22 DEF Uses
    <2>2. {p \in OlderIn(w) : p[1] \in live \ {i} /\ p[2] \in live \ {i}}
            = {p \in OlderIn(m) : p[1] \in live \ {i} /\ p[2] \in live \ {i}}
        BY <1>21
    <2>3. QED
        BY <2>1, <2>2
<1>24. ASSUME NEW t \in Cache!Used(w)
       PROVE  /\ f.entries[t].id = w.entries[t].id /\ f.entries[t].models = w.entries[t].models
              /\ f.entries[t].left = w.entries[t].left
    <2>1. CASE t = s
        BY <1>7, <1>11, <1>19, <2>1
    <2>2. CASE t # s
        BY <1>14, <1>18, <2>2 DEF Uses
    <2>3. QED
        BY <2>1, <2>2
<1>25. /\ Names(f, Cache!Used(f)) = live
       /\ \A j \in live : HeldIn(f)[j] = HeldIn(w)[j] /\ LeftIn(f)[j] = LeftIn(w)[j]
    BY <1>4, <1>19, <1>21, <1>24, SameShows
<1>26. ASSUME NEW j \in Ids
       PROVE  /\ HeldIn(f)[j] = IF j \in live THEN HeldIn(m)[j] ELSE None
              /\ LeftIn(f)[j] = LeftIn(m)[j]
    <2>1. CASE j \in live
        BY <1>21, <1>25, <2>1
    <2>2. CASE j \notin live
        <3>1. HeldIn(f)[j] = None /\ LeftIn(f)[j] = 0
            BY <1>25, <2>2, NotThere
        <3>2. LeftIn(m)[j] = 0
            BY <1>2, <1>3, <2>2, LiveNames
        <3>3. QED
            BY <2>2, <3>1, <3>2
    <2>3. QED
        BY <2>1, <2>2
<1>27. /\ HeldIn(f) = [j \in Ids |-> IF j \in live THEN HeldIn(m)[j] ELSE None]
       /\ LeftIn(f) = LeftIn(m)
    <2>1. HeldIn(f) = [j \in Ids |-> HeldIn(f)[j]]
        BY DEF HeldIn
    <2>2. HeldIn(f) = [j \in Ids |-> IF j \in live THEN HeldIn(m)[j] ELSE None]
        BY <1>26, <2>1
    <2>3. LeftIn(f) = LeftIn(m)
        BY <1>26 DEF LeftIn
    <2>4. QED
        BY <2>2, <2>3
<1>28. answer' = HeldIn(m)[i]
    <2>1. HeldIn(w)[i] = w.entries[s].models
        BY <1>4, <1>7, ById
    <2>2. QED
        BY <1>6, <1>21, <1>22, <2>1
<1>29. live = Cache!Recency!Live
    BY <1>1, <1>3, Shown DEF LiveIn, Cache!Recency!Live, Cache!Recency!Held
<1>30. /\ Cache!held' = [j \in Ids |-> IF j \in live THEN Cache!held[j] ELSE None]
       /\ Cache!left' = Cache!left
       /\ Cache!older' = {p \in Cache!older : p[1] \in live \ {i} /\ p[2] \in live \ {i}}
                           \cup ((live \ {i}) \X {i})
       /\ answer' = Cache!held[i]
    BY <1>1, <1>12, <1>23, <1>27, <1>28, Shown, ShownNext
<1>31. Cache!Recency!Use(i, live)
    BY <1>30 DEF Cache!Recency!Use
<1>32. QED
    BY <1>20, <1>22, <1>29, <1>30, <1>31 DEF Cache!Recency!Get

LEMMA StayingShown ==
    ASSUME NEW U, NEW need, NEW m, m = Cache!memory
    PROVE  Cache!Recency!Staying(U, need) = Staying(m, U, need)
<1>1. \A T : Cache!Recency!Cardinality(T) = Cardinality(T)
    BY DEF Cache!Recency!Cardinality, Cardinality
<1>2. \A T : Cache!Recency!Bytes(T) = BytesIn(m, T)
    BY <1>1, Shown, Zenon DEF Cache!Recency!Bytes, BytesIn
<1>3. {T \in SUBSET U : \A i \in T, j \in U \ T : <<j, i>> \in Cache!older} = RecentIn(m, U)
    BY Shown, Zenon DEF RecentIn
<1>4. {T \in RecentIn(m, U) : Cache!Recency!Cardinality(T) < MaxEntries
                                /\ Cache!Recency!Bytes(T) + need <= CacheBytes}
        = FittingIn(m, U, need)
    BY <1>1, <1>2 DEF FittingIn
<1>5. QED
    BY <1>3, <1>4, Zenon DEF Cache!Recency!Staying, Staying

LEMMA FreeSlot ==
    ASSUME NEW x \in Memories, Cardinality(Cache!Used(x)) < MaxEntries,
           NEW s, s = Cache!Min(Cache!Slots \ Cache!Used(x))
    PROVE  s \in Cache!Slots \ Cache!Used(x)
<1>1. Cache!Slots = 1..MaxEntries /\ MaxEntries \in Nat /\ Cache!Used(x) \subseteq 1..MaxEntries
    BY CacheTypes, UsedTypes
<1>2. Cardinality(1..MaxEntries) = MaxEntries
    BY <1>1, Numbers
<1>3. Cache!Slots \ Cache!Used(x) # {}
    <2>1. SUFFICES ASSUME Cache!Slots \ Cache!Used(x) = {} PROVE FALSE
        OBVIOUS
    <2>2. Cache!Used(x) = 1..MaxEntries
        BY <1>1, <2>1
    <2>3. QED
        BY <1>1, <1>2, <2>2
<1>4. PICK t \in Cache!Slots \ Cache!Used(x) : \A u \in Cache!Slots \ Cache!Used(x) : t <= u
    <2>1. Cache!Slots \ Cache!Used(x) \subseteq Nat
        BY <1>1
    <2>2. QED
        BY <1>3, <2>1, LeastNumber
<1>5. QED
    BY <1>4 DEF Cache!Min

\* What put does to the entries.
LEMMA PutKeeps ==
    ASSUME CacheInv, NEW i \in Ids, NEW l \in DOMAIN Size, Cache!Put(i, l),
           NEW m, m = Cache!memory,
           NEW w, w = Cache!WithoutAll(m, Cache!Expired(m) \cup Cache!Find(m, i)),
           NEW x, x = Cache!Evicted(w, Size[l])
    PROVE  /\ answer' = None /\ Size[l] <= CacheBytes
           /\ Sound(m) /\ Sound(w) /\ Sound(x) /\ Left(w, m) /\ Left(x, w)
           /\ Cache!Used(w) = Cache!Used(m) \ (Cache!Expired(m) \cup Cache!Find(m, i))
           /\ \E n \in Nat, s \in Cache!Slots, e \in KeptEntries :
                /\ n \in 1..MaxSequence /\ sequence' = n
                /\ e.id = i /\ e.models = l /\ e.left = Lifetime /\ e.lastUsed = n
                /\ Uses(Cache!memory', x, s, e, Cache!Used(x))
<1>1. Sound(m) /\ Orderly(m, sequence)
    BY DEF CacheInv, Orderly
<1>2. PICK need : need = Size[l]
    OBVIOUS
<1>3. need \in Nat /\ need <= CacheBytes /\ answer' = None
    BY <1>2, CacheTypes DEF Cache!Put
<1>4. /\ Sound(w) /\ Left(w, m)
      /\ Cache!Used(w) = Cache!Used(m) \ (Cache!Expired(m) \cup Cache!Find(m, i))
    <2>1. Cache!Expired(m) \cup Cache!Find(m, i) \subseteq Cache!Used(m)
        BY DEF Cache!Expired, Cache!Find
    <2>2. QED
        BY <1>1, <2>1, WithoutSome
<1>5. /\ Sound(x) /\ Left(x, w) /\ Cardinality(Cache!Used(x)) < MaxEntries
      /\ x.bytes + need <= CacheBytes
    BY <1>2, <1>3, <1>4, EvictedSome DEF Fits
<1>6. Orderly(x, sequence)
    BY <1>1, <1>4, <1>5, OrderlyLeft
<1>7. PICK r, n, s : /\ r = Cache!Renumbered(x) /\ n = Cache!NextSequence(x)
                     /\ s = Cache!Min(Cache!Slots \ Cache!Used(x))
    OBVIOUS
<1>8. PICK e : e = [id |-> i, models |-> l, lastUsed |-> n, left |-> Lifetime]
    OBVIOUS
<1>9. /\ Cache!Becomes([entries |-> [r.entries EXCEPT ![s] = e], bytes |-> r.bytes + need])
      /\ sequence' = n
    BY <1>2, <1>7, <1>8 DEF Cache!Put
<1>10. n \in 1..MaxSequence /\ Redated(r, x, n)
    BY <1>5, <1>6, <1>7, RenumberedSame DEF Orderly
<1>11. s \in Cache!Slots /\ s \notin Cache!Used(x)
    BY <1>5, <1>7, FreeSlot DEF Sound
<1>12. /\ e \in KeptEntries /\ e.id = i /\ e.models = l /\ e.left = Lifetime /\ e.lastUsed = n
       /\ n \in Nat
    BY <1>2, <1>3, <1>8, <1>10, CacheTypes DEF KeptEntries
<1>13. PICK f : f = Cache!memory'
    OBVIOUS
<1>14. f = [entries |-> [r.entries EXCEPT ![s] = e], bytes |-> r.bytes + need]
    BY <1>9, <1>13 DEF Cache!Becomes, Cache!memory
<1>15. PICK Q : Q = Cache!Used(x)
    OBVIOUS
<1>16. /\ r \in Memories /\ Cache!Used(r) = Q /\ r.bytes = x.bytes /\ None \notin KeptEntries
       /\ Q \subseteq Cache!Slots
    BY <1>10, <1>15, CacheTypes DEF Redated, Cache!Used
<1>17. r.entries \in [Cache!Slots -> KeptEntries \cup {None}] /\ r.bytes \in Nat
    BY <1>16 DEF Memories
<1>18. /\ f.entries = [r.entries EXCEPT ![s] = e] /\ f.bytes = r.bytes + need
       /\ f.entries \in [Cache!Slots -> KeptEntries \cup {None}]
    BY <1>12, <1>14, <1>17
<1>19. f \in Memories
    BY <1>3, <1>14, <1>17, <1>18 DEF Memories
<1>20. /\ f.entries[s] = e /\ \A t \in Q : f.entries[t] = r.entries[t]
       /\ Q \subseteq Cache!Used(f) /\ s \in Cache!Used(f)
    <2>1. f.entries[s] = e /\ \A t \in Cache!Slots : t # s => f.entries[t] = r.entries[t]
        BY <1>11, <1>17, <1>18
    <2>2. s \in Cache!Used(f)
        BY <1>11, <1>12, <1>16, <2>1 DEF Cache!Used
    <2>3. \A t \in Q : f.entries[t] = r.entries[t]
        BY <1>11, <1>15, <1>16, <2>1
    <2>4. Q \subseteq Cache!Used(f)
        BY <1>16, <2>3 DEF Cache!Used
    <2>5. QED
        BY <2>1, <2>2, <2>3, <2>4
<1>21. f.bytes = Weight(f, Q \cup {s}) /\ f.bytes \in Nat /\ f.bytes <= CacheBytes
    <2>1. Weight(f, Q \cup {s}) = Weight(f, Q) + Size[f.entries[s].models]
        BY <1>11, <1>15, <1>19, <1>20, WeightOfMore
    <2>2. Weight(f, Q) = Weight(x, Q)
        <3>1. ASSUME NEW t \in Q PROVE f.entries[t].models = x.entries[t].models
            <4>1. f.entries[t] = r.entries[t]
                BY <1>20
            <4>2. r.entries[t].models = x.entries[t].models
                BY <1>10, <1>15 DEF Redated
            <4>3. QED
                BY <4>1, <4>2
        <3>2. Cells(f, Q) = Cells(x, Q)
            BY <3>1 DEF Cells
        <3>3. QED
            BY <3>2, Zenon DEF Weight
    <2>3. Weight(x, Q) = r.bytes
        BY <1>5, <1>15, <1>16 DEF Sound
    <2>4. Size[f.entries[s].models] = need
        BY <1>2, <1>12, <1>20
    <2>5. QED
        BY <1>3, <1>5, <1>16, <1>17, <1>18, <2>1, <2>2, <2>3, <2>4
<1>22. Q = Cache!Used(x) \ {s} /\ \A t \in Q : x.entries[t].id # e.id
    <2>1. \A t \in Q : t \in Cache!Used(w) /\ x.entries[t] = w.entries[t]
        BY <1>5, <1>15 DEF Left
    <2>2. \A t \in Cache!Used(w) : w.entries[t].id # i
        BY <1>4 DEF Left, Cache!Find
    <2>3. ASSUME NEW t \in Q PROVE x.entries[t].id # e.id
        <3>1. t \in Cache!Used(w) /\ x.entries[t] = w.entries[t]
            BY <2>1
        <3>2. w.entries[t].id # i
            BY <2>2, <3>1
        <3>3. QED
            BY <1>12, <3>1, <3>2
    <2>4. QED
        BY <1>11, <1>15, <2>3
<1>23. Uses(f, x, s, e, Q)
    <2>1. f = [entries |-> [r.entries EXCEPT ![s] = e], bytes |-> Weight(f, Q \cup {s})]
        BY <1>14, <1>18, <1>21
    <2>2. Weight(f, Q \cup {s}) \in Nat /\ Weight(f, Q \cup {s}) <= CacheBytes
        BY <1>21
    <2>3. QED
        BY <1>5, <1>10, <1>11, <1>12, <1>22, <2>1, <2>2, Touched
<1>24. QED
    BY <1>1, <1>2, <1>3, <1>4, <1>5, <1>9, <1>10, <1>11, <1>12, <1>13, <1>15, <1>23

LEMMA PutShows ==
    ASSUME CacheInv, NEW i \in Ids, NEW l \in DOMAIN Size, Cache!Put(i, l)
    PROVE  Cache!Recency!Put(i, l) /\ CacheInv'
<1>1. PICK m, w, x :
        /\ m = Cache!memory /\ w = Cache!WithoutAll(m, Cache!Expired(m) \cup Cache!Find(m, i))
        /\ x = Cache!Evicted(w, Size[l])
    OBVIOUS
<1>2. /\ answer' = None /\ Size[l] <= CacheBytes
      /\ Sound(m) /\ Sound(w) /\ Sound(x) /\ Left(w, m) /\ Left(x, w)
      /\ Cache!Used(w) = Cache!Used(m) \ (Cache!Expired(m) \cup Cache!Find(m, i))
    BY <1>1, PutKeeps
<1>3. PICK n \in Nat, s \in Cache!Slots, e \in KeptEntries :
        /\ n \in 1..MaxSequence /\ sequence' = n
        /\ e.id = i /\ e.models = l /\ e.left = Lifetime /\ e.lastUsed = n
        /\ Uses(Cache!memory', x, s, e, Cache!Used(x))
    BY <1>1, PutKeeps
<1>4. PICK f, Q : f = Cache!memory' /\ Q = Cache!Used(x)
    OBVIOUS
<1>5. /\ Uses(f, x, s, e, Q) /\ Sound(f) /\ Cache!Used(f) = Q \cup {s} /\ f.entries[s] = e
      /\ \A t \in Q \cup {s} : f.entries[t].lastUsed <= n
    BY <1>3, <1>4 DEF Uses
<1>6. CacheInv'
    <2>1. Orderly(f, n)
        BY <1>3, <1>5 DEF Orderly
    <2>2. QED
        BY <1>3, <1>4, <2>1, CacheInvNext
<1>7. PICK live, S, need : live = LiveIn(m) /\ S = Names(m, Q) /\ need = Size[l]
    OBVIOUS
<1>8. Left(x, m) /\ ShowsOnly(x, m, S)
    BY <1>2, <1>4, <1>7, LeftTwice, LeftShows
<1>9. /\ S = Names(x, Q) /\ S \subseteq Ids
      /\ \A j \in Ids : /\ HeldIn(x)[j] = IF j \in S THEN HeldIn(m)[j] ELSE None
                        /\ LeftIn(x)[j] = IF j \in S THEN LeftIn(m)[j] ELSE 0
      /\ OlderIn(x) = {p \in OlderIn(m) : p[1] \in S /\ p[2] \in S}
    BY <1>4, <1>8 DEF ShowsOnly
<1>10. Names(m, Cache!Used(w)) = live \ {i}
    <2>1. live = Names(m, Cache!Used(m) \ Cache!Expired(m))
        BY <1>2, <1>7, LiveNames
    <2>2. QED
        BY <1>2, <2>1 DEF Names, Cache!Find
<1>11. S = Staying(m, live \ {i}, need)
    <2>1. need \in Nat
        BY <1>7, CacheTypes
    <2>2. need <= CacheBytes /\ x = Cache!Evicted(w, need)
        BY <1>1, <1>2, <1>7
    <2>3. PICK U : U = live \ {i}
        OBVIOUS
    <2>4. U = Names(m, Cache!Used(w))
        BY <1>10, <2>3
    <2>5. Staying(m, U, need) = Names(m, Cache!Used(x))
        BY <1>2, <2>1, <2>2, <2>4, StayingNames
    <2>6. QED
        BY <1>4, <1>7, <2>3, <2>5
<1>12. i \notin S
    <2>1. S \subseteq live \ {i}
        BY <1>11 DEF Staying, FittingIn, RecentIn
    <2>2. QED
        BY <2>1
<1>13. \A j \in S : HeldIn(f)[j] = HeldIn(x)[j] /\ LeftIn(f)[j] = LeftIn(x)[j]
    <2>1. /\ Q \subseteq Cache!Used(x) /\ Q \subseteq Cache!Used(f)
          /\ \A t \in Q : /\ f.entries[t].id = x.entries[t].id
                          /\ f.entries[t].models = x.entries[t].models
                          /\ f.entries[t].left = x.entries[t].left
        BY <1>4, <1>5 DEF Uses
    <2>2. QED
        BY <1>2, <1>5, <1>9, <2>1, SameShows
<1>14. Names(f, Cache!Used(f)) = S \cup {i}
    BY <1>3, <1>5, <1>9 DEF Names, Uses
<1>15. HeldIn(f)[i] = l /\ LeftIn(f)[i] = Lifetime
    BY <1>3, <1>5, ById
<1>16. ASSUME NEW j \in Ids
       PROVE  /\ HeldIn(f)[j] = IF j = i THEN l ELSE IF j \in S THEN HeldIn(m)[j] ELSE None
              /\ LeftIn(f)[j] = IF j = i THEN Lifetime ELSE IF j \in S THEN LeftIn(m)[j] ELSE 0
    BY <1>9, <1>12, <1>13, <1>14, <1>15, NotThere
<1>17. /\ HeldIn(f) = [j \in Ids |-> IF j = i THEN l
                                     ELSE IF j \in S THEN HeldIn(m)[j] ELSE None]
       /\ LeftIn(f) = [j \in Ids |-> IF j = i THEN Lifetime
                                     ELSE IF j \in S THEN LeftIn(m)[j] ELSE 0]
    <2>1. HeldIn(f) = [j \in Ids |-> HeldIn(f)[j]]
        BY DEF HeldIn
    <2>2. LeftIn(f) = [j \in Ids |-> LeftIn(f)[j]]
        BY DEF LeftIn
    <2>3. HeldIn(f) = [j \in Ids |-> IF j = i THEN l
                                     ELSE IF j \in S THEN HeldIn(m)[j] ELSE None]
        BY <1>16, <2>1
    <2>4. LeftIn(f) = [j \in Ids |-> IF j = i THEN Lifetime
                                     ELSE IF j \in S THEN LeftIn(m)[j] ELSE 0]
        BY <1>16, <2>2
    <2>5. QED
        BY <2>3, <2>4
<1>18. /\ (S \cup {i}) \ {i} = S
       /\ OlderIn(f) = {p \in OlderIn(m) : p[1] \in S /\ p[2] \in S} \cup (S \X {i})
    <2>1. OlderIn(f) = {p \in OlderIn(x) : p[1] \in S /\ p[2] \in S} \cup (S \X {i})
        BY <1>3, <1>5, <1>9 DEF Uses
    <2>2. {p \in OlderIn(x) : p[1] \in S /\ p[2] \in S}
            = {p \in OlderIn(m) : p[1] \in S /\ p[2] \in S}
        BY <1>9
    <2>3. QED
        BY <1>12, <2>1, <2>2
<1>19. live = Cache!Recency!Live
    BY <1>1, <1>7, Shown DEF LiveIn, Cache!Recency!Live, Cache!Recency!Held
<1>20. S = Cache!Recency!Staying(Cache!Recency!Live \ {i}, Size[l])
    BY <1>1, <1>7, <1>11, <1>19, StayingShown
<1>21. /\ Cache!held' = [j \in Ids |-> IF j = i THEN l
                                       ELSE IF j \in S THEN Cache!held[j] ELSE None]
       /\ Cache!left' = [j \in Ids |-> IF j = i THEN Lifetime
                                       ELSE IF j \in S THEN Cache!left[j] ELSE 0]
       /\ Cache!older' = {p \in Cache!older : p[1] \in S /\ p[2] \in S} \cup (S \X {i})
    BY <1>1, <1>4, <1>17, <1>18, Shown, ShownNext
<1>22. Cache!Recency!Use(i, S \cup {i})
    BY <1>18, <1>21 DEF Cache!Recency!Use
<1>23. QED
    BY <1>2, <1>6, <1>20, <1>21, <1>22 DEF Cache!Recency!Put

LEMMA CacheFirst == Cache!Init => Cache!Recency!Init /\ CacheInv
<1>1. SUFFICES ASSUME Cache!Init PROVE Cache!Recency!Init /\ CacheInv
    OBVIOUS
<1>2. PICK m : m = Cache!memory
    OBVIOUS
<1>3. /\ m = [entries |-> [s \in Cache!Slots |-> None], bytes |-> 0]
      /\ m.entries = [s \in Cache!Slots |-> None] /\ m.bytes = 0
    BY <1>1, <1>2 DEF Cache!Init, Cache!memory
<1>4. m \in Memories /\ Cache!Used(m) = {}
    BY <1>3 DEF Memories, Cache!Used
<1>5. Weight(m, {}) = 0
    <2>1. Cells(m, {}) = {}
        BY DEF Cells
    <2>2. QED
        BY <2>1, FS_EmptySet, Zenon DEF Weight
<1>6. Sound(m)
    <2>1. m.bytes = Weight(m, Cache!Used(m))
        BY <1>3, <1>4, <1>5, Zenon
    <2>2. m.bytes <= CacheBytes
        BY <1>3, CacheTypes
    <2>3. QED
        BY <1>4, <2>1, <2>2 DEF Sound
<1>7. CacheInv
    BY <1>1, <1>2, <1>4, <1>6, CacheTypes DEF CacheInv, Orderly, Cache!Init
<1>8. ASSUME NEW i \in Ids PROVE HeldIn(m)[i] = None /\ LeftIn(m)[i] = 0
    BY <1>4, NotThere DEF Names
<1>9. /\ HeldIn(m) = [i \in Ids |-> None] /\ LeftIn(m) = [i \in Ids |-> 0]
      /\ OlderIn(m) = {}
    <2>1. HeldIn(m) = [i \in Ids |-> HeldIn(m)[i]] /\ LeftIn(m) = [i \in Ids |-> LeftIn(m)[i]]
        BY DEF HeldIn, LeftIn
    <2>2. OlderIn(m) = {}
        BY <1>4, <1>6, OlderPairs
    <2>3. HeldIn(m) = [i \in Ids |-> None]
        BY <1>8, <2>1
    <2>4. LeftIn(m) = [i \in Ids |-> 0]
        BY <1>8, <2>1
    <2>5. QED
        BY <2>2, <2>3, <2>4
<1>10. QED
    BY <1>1, <1>2, <1>7, <1>9, Shown DEF Cache!Init, Cache!Recency!Init

LEMMA CacheStep ==
    ASSUME CacheInv, [Cache!Next]_Cache!vars
    PROVE  /\ CacheInv'
           /\ Cache!Next => Cache!Recency!Next
           /\ [Cache!Recency!Next]_Cache!Recency!vars
<1>1. CASE Cache!Next
    <2>1. ASSUME NEW i \in Ids, Cache!Get(i) PROVE Cache!Recency!Next /\ CacheInv'
        <3>1. PICK w : w = Cache!WithoutAll(Cache!memory, Cache!Expired(Cache!memory))
            OBVIOUS
        <3>2. Cache!Recency!Get(i) /\ CacheInv'
            BY <2>1, <3>1, GetMisses, GetHits
        <3>3. QED
            BY <3>2 DEF Cache!Recency!Next
    <2>2. ASSUME NEW i \in Ids, Cache!Refuse(i) PROVE Cache!Recency!Next /\ CacheInv'
        BY <2>2, RefuseShows DEF Cache!Recency!Next
    <2>3. ASSUME NEW i \in Ids, NEW l \in Cache!Listings, Cache!Put(i, l)
          PROVE  Cache!Recency!Next /\ CacheInv'
        <3>1. Cache!Recency!Put(i, l) /\ CacheInv'
            BY <2>3, PutShows DEF Cache!Listings
        <3>2. QED
            BY <3>1 DEF Cache!Recency!Next, Cache!Recency!Listings, Cache!Listings
    <2>4. ASSUME Cache!Tick PROVE Cache!Recency!Next /\ CacheInv'
        BY <2>4, TickShows DEF Cache!Recency!Next
    <2>5. QED
        BY <1>1, <2>1, <2>2, <2>3, <2>4 DEF Cache!Next
<1>2. CASE UNCHANGED Cache!vars /\ ~Cache!Next
    <2>1. UNCHANGED <<entries, sequence, retainedBytes, answer>>
        BY <1>2 DEF Cache!vars
    <2>2. Cache!memory' = Cache!memory
        BY <2>1 DEF Cache!memory
    <2>3. CacheInv'
        <3>1. Orderly(Cache!memory, sequence')
            BY <2>1 DEF CacheInv
        <3>2. QED
            BY <2>2, <3>1, CacheInvNext
    <2>4. /\ Cache!held' = Cache!held /\ Cache!left' = Cache!left /\ Cache!older' = Cache!older
          /\ answer' = answer
        BY <2>1, <2>2, Shown, ShownNext
    <2>5. UNCHANGED Cache!Recency!vars
        BY <2>4 DEF Cache!Recency!vars
    <2>6. QED
        BY <1>2, <2>3, <2>5
<1>3. QED
    BY <1>1, <1>2

-----------------------------------------------------------------------------
(* The parts beside each other: the first state picks one, and only it moves. *)

LEMMA PartInit ==
    ASSUME PartsInit
    PROVE  Ping!Init /\ Pool!Init /\ Log!Init /\ Cache!Init /\ Daemons!Init
BY DEF PartsInit

LEMMA PartNext ==
    ASSUME [PartsNext]_partVars
    PROVE  /\ part' = part
           /\ part = "ping" => [Ping!Next]_Ping!vars
           /\ part = "pool" => [Pool!Next]_Pool!vars
           /\ part = "log" => [Log!Next]_Log!vars
           /\ part = "cache" => [Cache!Next]_Cache!vars
           /\ part = "start" => [Daemons!Next]_Daemons!vars
<1>1. CASE UNCHANGED partVars
    <2>1. UNCHANGED <<part, pingVars, poolVars, logVars, cacheVars, startVars>>
        BY <1>1 DEF partVars
    <2>2. /\ UNCHANGED Ping!vars /\ UNCHANGED Pool!vars /\ UNCHANGED Log!vars
          /\ UNCHANGED Cache!vars /\ UNCHANGED Daemons!vars
        BY <2>1 DEF pingVars, poolVars, logVars, cacheVars, startVars, Ping!vars, Ping!loop,
                    Pool!vars, Pool!refreshes, Pool!readers, Log!vars, Cache!vars,
                    Daemons!vars, Daemons!sockets
    <2>3. QED
        BY <2>1, <2>2
<1>2. CASE PartsNext
    BY <1>2 DEF PartsNext
<1>3. QED
    BY <1>1, <1>2

\* The logins of the composition are those of the daemon and its terminal, beside whatever
\* other part runs, and so have a limit, are used once and show only codes that are awaited
\* (OAuthDeviceLoginSessions, startOAuthLoginCmd, completeOAuthLoginCmd).
THEOREM LoginsOfParts ==
    PartsSpec => ConsoleSpec /\ []SessionsBounded /\ []SingleUse /\ []ShownCodeIsAwaited
<1>1. PartsInit => ConsoleInit
    BY DEF PartsInit
<1>2. [PartsNext]_partVars => [ConsoleNext]_allVars
    BY DEF PartsNext, partVars, loginVars
<1>3. PartsSpec => ConsoleSpec
    BY <1>1, <1>2, PTL DEF PartsSpec, ConsoleSpec
<1>4. QED
    BY <1>3, ConsoleIsClient, LimitKept, HandleUsedOnce, ShownAwaited, PTL

\* One process pings an account with success at most once for a date and slot, and takes
\* for done only what was answered, for every clock and schedule (runDue, runCredential).
THEOREM PingedOncePerSlot == (Ping!Spec => []Ping!OncePerSlot) /\ (PartsSpec => []OncePerSlot)
<1>1. Ping!Init => PingInv
    BY PingInit
<1>2. PingInv /\ [Ping!Next]_Ping!vars => PingInv'
    BY PingNext
<1>3. PingInv => Ping!OncePerSlot
    BY PingOnce
<1>4. Ping!Spec => []Ping!OncePerSlot
    BY <1>1, <1>2, <1>3, PTL DEF Ping!Spec
<1> DEFINE InPart == part = "ping" => PingInv
<1>5. PartsInit => InPart
    BY <1>1, PartInit
<1>6. InPart /\ [PartsNext]_partVars => InPart'
    BY <1>2, PartNext
<1>7. InPart => OncePerSlot
    BY <1>3 DEF OncePerSlot
<1>8. PartsSpec => []OncePerSlot
    <2> HIDE DEF InPart
    <2>1. QED
        BY <1>5, <1>6, <1>7, PTL DEF PartsSpec
<1>9. QED
    BY <1>4, <1>8

\* Whenever a stream writes its header, every account of its route is in it, by an
\* observation at most Threshold old whose window has not been reset since, whatever was
\* fetched, failed or overtaken meanwhile (projectSubscriptionPool, writePoolUsageHeaders).
THEOREM HeaderTrue == (Pool!Spec => []Pool!HeaderTellsTruth) /\ (PartsSpec => []HeaderTellsTruth)
<1>1. Pool!Init => PoolInv
    BY PoolInit
<1>2. PoolInv /\ [Pool!Next]_Pool!vars => PoolInv'
    BY PoolNext
<1>3. PoolInv => Pool!HeaderTellsTruth
    BY PoolTells
<1>4. Pool!Spec => []Pool!HeaderTellsTruth
    BY <1>1, <1>2, <1>3, PTL DEF Pool!Spec
<1> DEFINE InPart == part = "pool" => PoolInv
<1>5. PartsInit => InPart
    BY <1>1, PartInit
<1>6. InPart /\ [PartsNext]_partVars => InPart'
    BY <1>2, PartNext
<1>7. InPart => HeaderTellsTruth
    BY <1>3 DEF HeaderTellsTruth
<1>8. PartsSpec => []HeaderTellsTruth
    <2> HIDE DEF InPart
    <2>1. QED
        BY <1>5, <1>6, <1>7, PTL DEF PartsSpec
<1>9. QED
    BY <1>4, <1>8

\* Slots, running numbers and byte counters do what RecencyCache promises, also across the
\* renumbering at the largest number: a listing past its time is not answered, none goes
\* without need, and the least recently used goes first (put, get, nextSequenceLocked).
THEOREM CacheIsRecency ==
    (Cache!Spec => Cache!Recency!Spec) /\ (PartsSpec => ImplementsRecencyCache)
<1>1. Cache!Init => Cache!Recency!Init /\ CacheInv
    BY CacheFirst
<1>2. CacheInv /\ [Cache!Next]_Cache!vars
        => /\ CacheInv' /\ (Cache!Next => Cache!Recency!Next)
           /\ [Cache!Recency!Next]_Cache!Recency!vars
    BY CacheStep
<1>3. Cache!Spec => Cache!Recency!Spec
    BY <1>1, <1>2, PTL DEF Cache!Spec, Cache!Recency!Spec
<1> DEFINE InPart == part = "cache" => CacheInv
<1>4. PartsInit => InPart /\ Cache!Recency!Init
    BY <1>1, PartInit
<1>5. InPart /\ [PartsNext]_partVars => InPart'
    BY <1>2, PartNext
<1>6. InPart /\ [PartsNext]_partVars => [part = "cache" => Cache!Recency!Next]_cacheVars
    <2>1. SUFFICES ASSUME InPart, [PartsNext]_partVars, part = "cache"
                   PROVE  [Cache!Recency!Next]_cacheVars
        OBVIOUS
    <2>2. [Cache!Next]_Cache!vars /\ CacheInv
        BY <2>1, PartNext
    <2>3. CASE Cache!Next
        BY <1>2, <2>2, <2>3
    <2>4. CASE UNCHANGED Cache!vars
        BY <2>4 DEF Cache!vars, cacheVars
    <2>5. QED
        BY <2>2, <2>3, <2>4
<1>7. PartsSpec => ImplementsRecencyCache
    <2> HIDE DEF InPart
    <2>1. QED
        BY <1>4, <1>5, <1>6, PTL DEF PartsSpec, ImplementsRecencyCache
<1>8. QED
    BY <1>3, <1>7

\* Unless a rollback of a write has failed: whatever file operations fail and wherever the
\* process dies, the log's files are the newest records reported as written, each whole
\* in one file, in order and within the limit, the older ones given up only for want of
\* a file to keep them in (Record, rotateBeforeWriteLocked, rollbackWriteLocked).
THEOREM BoundedTail ==
    (Log!Spec => []Log!LogIsBoundedTail) /\ (PartsSpec => []LogIsBoundedTail)
<1>1. Log!Init => LogInv
    BY LogInit
<1>2. LogInv /\ [Log!Next]_Log!vars => LogInv'
    BY LogStep
<1>3. LogInv => Log!LogIsBoundedTail
    BY LogInvGives
<1>4. Log!Spec => []Log!LogIsBoundedTail
    BY <1>1, <1>2, <1>3, PTL DEF Log!Spec
<1> DEFINE InPart == part = "log" => LogInv
<1>5. PartsInit => InPart
    BY <1>1, PartInit
<1>6. InPart /\ [PartsNext]_partVars => InPart'
    BY <1>2, PartNext
<1>7. InPart => LogIsBoundedTail
    BY <1>3 DEF LogIsBoundedTail
<1>8. PartsSpec => []LogIsBoundedTail
    <2> HIDE DEF InPart
    <2>1. QED
        BY <1>5, <1>6, <1>7, PTL DEF PartsSpec
<1>9. QED
    BY <1>4, <1>8

\* Unless starts or stops cross, a daemon that accepts management calls has its socket at
\* the path and is alone, for any number of processes and inodes and whatever crashes
\* (PrepareUnixListener, Cleanup of SocketOwner, Shutdown).
THEOREM ReachedWhereBound ==
    (Daemons!Spec => []Daemons!ReachedAtPath) /\ (PartsSpec => []ReachedAtPath)
<1>1. Daemons!Init => StartInv
    BY StartInit
<1>2. StartInv /\ [Daemons!Next]_Daemons!vars => StartInv'
    BY StartNext
<1>3. StartInv => Daemons!ReachedAtPath
    BY StartReached
<1>4. Daemons!Spec => []Daemons!ReachedAtPath
    BY <1>1, <1>2, <1>3, PTL DEF Daemons!Spec
<1> DEFINE InPart == part = "start" => StartInv
<1>5. PartsInit => InPart
    BY <1>1, PartInit
<1>6. InPart /\ [PartsNext]_partVars => InPart'
    BY <1>2, PartNext
<1>7. InPart => ReachedAtPath
    BY <1>3 DEF ReachedAtPath
<1>8. PartsSpec => []ReachedAtPath
    <2> HIDE DEF InPart
    <2>1. QED
        BY <1>5, <1>6, <1>7, PTL DEF PartsSpec
<1>9. QED
    BY <1>4, <1>8

\* Whatever releases open the database, crash in it or overtake each other, it has the
\* schema of the versions it records, and nobody serves over one older than its own
\* release (Store.Migrate, rejectNewerMigrationVersion).
THEOREM SchemaVersioned ==
    (Daemons!Spec => []Daemons!SchemaAsVersioned) /\ (PartsSpec => []SchemaAsVersioned)
<1>1. Daemons!Init => SchemaInv
    BY SchemaInit
<1>2. SchemaInv /\ [Daemons!Next]_Daemons!vars => SchemaInv'
    BY SchemaNext
<1>3. SchemaInv => Daemons!SchemaAsVersioned
    BY SchemaHolds
<1>4. Daemons!Spec => []Daemons!SchemaAsVersioned
    BY <1>1, <1>2, <1>3, PTL DEF Daemons!Spec
<1> DEFINE InPart == part = "start" => SchemaInv
<1>5. PartsInit => InPart
    BY <1>1, PartInit
<1>6. InPart /\ [PartsNext]_partVars => InPart'
    BY <1>2, PartNext
<1>7. InPart => SchemaAsVersioned
    BY <1>3 DEF SchemaAsVersioned
<1>8. PartsSpec => []SchemaAsVersioned
    <2> HIDE DEF InPart
    <2>1. QED
        BY <1>5, <1>6, <1>7, PTL DEF PartsSpec
<1>9. QED
    BY <1>4, <1>8
=============================================================================
