---------------------------- MODULE LoginConsole -----------------------------
(* The terminal's side of a device login, over the daemon's of DeviceLogin:   *)
(* a key starts a login under a new context and cancels the one before, the   *)
(* two calls of a login run beside the screen, and their results arrive as    *)
(* messages. Another client may complete a handle too.                        *)
EXTENDS DeviceLogin

CONSTANTS Console, Background     \* the terminal, and the context nothing cancels

ASSUME ConsoleAssumption == Console \in Clients /\ Background \notin Logins

VARIABLES
    context,    \* oauthCtx: the login whose context it is, or None
    cancelled,  \* logins whose context was cancelled
    under,      \* the context each completion call was given
    challenge,  \* oauthChallenge: the login whose code is on the screen
    inbox       \* what each call of the terminal has reported, and what was handled

screen      == <<context, cancelled, under, challenge>>
consoleVars == <<screen, inbox>>

Calls == Logins \X {"start", Console}

\* The context a call runs under.
ContextOf(j) == IF j[2] = "start" THEN j[1] ELSE under[j[1]]

\* cancelOAuthLogin, and what is on the screen afterwards.
CancelLogin == cancelled' = IF context = None THEN cancelled ELSE cancelled \cup {context}

Handled(j) == inbox' = [inbox EXCEPT ![j] = "handled"]

-----------------------------------------------------------------------------
(* Keys *)

\* `l`: the code on the screen stays until a message clears it.
Press(l) ==
    /\ phase[Start(l)] = "none"
    /\ CancelLogin
    /\ context' = l
    /\ CallStart(l)
    /\ UNCHANGED <<under, challenge, inbox>>

\* esc, and leaving the terminal.
Escape ==
    /\ context # None \/ challenge # None
    /\ CancelLogin
    /\ context' = None
    /\ challenge' = None
    /\ UNCHANGED <<under, inbox, vars>>

-----------------------------------------------------------------------------
(* Results *)

\* The call's answer arrives; or its context is cancelled: the client returns at
\* once, and the daemon learns of it by the lost connection.
Report(j) ==
    /\ inbox[j] = "none"
    /\ \/ /\ phase[j] \in Ended
          /\ inbox' = [inbox EXCEPT ![j] = IF phase[j] = "ok" THEN "ok" ELSE "error"]
       \/ /\ ContextOf(j) \in cancelled /\ phase[j] # "none"
          /\ inbox' = [inbox EXCEPT ![j] = "error"]
    /\ UNCHANGED <<screen, vars>>

\* A started login shows its code and is completed under the context of the moment.
HandleStarted(l) ==
    LET j == Start(l) IN
    /\ Handled(j)
    /\ \/ /\ inbox[j] = "ok"
          /\ challenge' = l
          /\ under' = [under EXCEPT ![l] = IF context = None THEN Background ELSE context]
          /\ CallComplete(l, Console)
          /\ UNCHANGED <<context, cancelled>>
       \/ /\ inbox[j] = "error"
          /\ challenge' = None
          /\ CancelLogin
          /\ context' = None
          /\ UNCHANGED <<under, vars>>

\* Mutant: only a login that succeeded clears the screen.
HandleCompletedShowing(l) ==
    /\ inbox[<<l, Console>>] \in {"ok", "error"}
    /\ Handled(<<l, Console>>)
    /\ challenge' = IF inbox[<<l, Console>>] = "ok" THEN None ELSE challenge
    /\ CancelLogin
    /\ context' = None
    /\ under' = [under EXCEPT ![l] = None]
    /\ UNCHANGED vars

\* A completed login, in whichever way, clears the screen and cancels what is current.
HandleCompleted(l) ==
    /\ inbox[<<l, Console>>] \in {"ok", "error"}
    /\ Handled(<<l, Console>>)
    /\ challenge' = None
    /\ CancelLogin
    /\ context' = None
    /\ under' = [under EXCEPT ![l] = None]
    /\ UNCHANGED vars

-----------------------------------------------------------------------------
ConsoleInit ==
    /\ Init
    /\ context = None /\ cancelled = {} /\ challenge = None
    /\ under = [l \in Logins |-> None]
    /\ inbox = [j \in Calls |-> "none"]

ConsoleNext ==
    \/ Daemon /\ UNCHANGED consoleVars
    \/ \E l \in Logins : Press(l) \/ HandleStarted(l) \/ HandleCompleted(l)
    \/ \E j \in Calls : Report(j)
    \/ Escape
    \/ \E l \in Logins, w \in Clients \ {Console} :
         CallComplete(l, w) /\ UNCHANGED consoleVars

allVars == <<vars, consoleVars>>

ConsoleSpec == ConsoleInit /\ [][ConsoleNext]_allVars

\* A code on the screen is one whose completion was called and has not yet been heard
\* of: every code is cleared, by its own end if by nothing earlier, and a code that no
\* completion awaits is never shown.
ShownCodeIsAwaited ==
    challenge # None =>
        /\ phase[<<challenge, Console>>] # "none"
        /\ inbox[<<challenge, Console>>] # "handled"
=============================================================================
