----------------------------- MODULE OidcLogin -----------------------------
(***************************************************************************)
(* Logins of the CLI (internal/oidc/login.go) against the local provider:  *)
(* discovery, the call-back server, the browser and the token exchange.    *)
(*                                                                         *)
(* Every login listens on the same call-back port.  A tab of the browser   *)
(* may be opened again or reloaded, at any time, also when the login that  *)
(* it belongs to is over and another one listens.  The server may be       *)
(* restarted between any two requests.                                     *)
(***************************************************************************)
EXTENDS OidcServer

CONSTANTS
    Logins,      \* slots for `podplane login` and the kubectl hook
    Clients,     \* client IDs of the clusters that users log in to
    MaxLogins    \* bound: logins ever started

VARIABLES
    login,       \* slot -> state of its login
    nonces,      \* logins started; the nonce stands for state and verifier
    tabs,        \* redirects that the browser can deliver
    tokens       \* ID tokens handed out

vars == <<oidcVars, login, nonces, tabs, tokens>>

Callback == "callback"     \* http://localhost:8000/callback
Ended(l) == login[l].at \in {"idle", "ok", "failed"}

Idle == [at |-> "idle", nonce |-> 0, client |-> "none", code |-> 0,
         result |-> "none", blocked |-> 0]

Init ==
    /\ OidcInit
    /\ login = [l \in Logins |-> Idle]
    /\ nonces = 0 /\ tabs = {} /\ tokens = {}

Goto(l, at) == login' = [login EXCEPT ![l].at = at]
Fail(l) == Goto(l, "failed")

----------------------------------------------------------------------------
(* The CLI.                                                                *)

\* Login up to the authorization: discovery and fresh state and verifier.
Discover(l) ==
    /\ Ended(l) /\ nonces < MaxLogins
    /\ nonces' = nonces + 1
    /\ \E headless \in BOOLEAN, client \in Clients :
         login' = [login EXCEPT ![l] =
                     [Idle EXCEPT !.nonce = nonces + 1, !.client = client,
                        !.at = IF provider = OidcDown THEN "failed"
                               ELSE IF headless THEN "headless" ELSE "browser"]]
    /\ UNCHANGED <<oidcVars, tabs, tokens>>

\* browserAuthorize: net.Listen fails when another login has the port; the
\* browser is opened.  A tab knows the state and where to redirect.
Listen(l) ==
    /\ login[l].at = "browser"
    /\ IF \E m \in Logins : login[m].at = "listening"
       THEN Fail(l) /\ UNCHANGED tabs
       ELSE /\ Goto(l, "listening")
            /\ tabs' = tabs \cup {[state |-> login[l].nonce,
                                  client |-> login[l].client, code |-> 0]}
    /\ UNCHANGED <<oidcVars, nonces, tokens>>

\* headlessAuthorize: the redirect of the provider is read, not followed.
HeadlessAuthorize(l) ==
    /\ login[l].at = "headless"
    /\ \/ /\ Authorize(login[l].client, Callback, login[l].nonce)
          /\ login' = [login EXCEPT ![l].at = "exchange", ![l].code = nextCode]
       \/ Fail(l) /\ UNCHANGED oidcVars       \* no answer within its time
    /\ UNCHANGED <<nonces, tabs, tokens>>

\* Mutant: the state of a call-back is not compared.
MutantReadCallback(l, tab) == TRUE

\* readCallback: the state must be that of this login.
ReadCallback(l, tab) == tab.state = login[l].nonce

\* The handler of /callback: resCh holds one result; a handler that finds it
\* full blocks.
HandleCallback(l, tab) ==
    /\ login[l].at = "listening" /\ tab.code # 0 /\ tab \in tabs
    /\ login[l].blocked < 1       \* bound: handlers that wait
    /\ login' =
         IF login[l].result # "none"
         THEN [login EXCEPT ![l].blocked = @ + 1]
         ELSE IF ReadCallback(l, tab)
              THEN [login EXCEPT ![l].result = "code", ![l].code = tab.code]
              ELSE [login EXCEPT ![l].result = "error"]
    /\ UNCHANGED <<oidcVars, nonces, tabs, tokens>>

\* The select of browserAuthorize: a result, or the end of the context, and
\* either when both are there.  The deferred Shutdown closes the port.
Select(l) ==
    /\ login[l].at = "listening"
    /\ \/ login[l].result # "none" /\ Goto(l, "shutdown")
       \/ login' = [login EXCEPT ![l].at = "shutdown", ![l].result = "error"]
    /\ UNCHANGED <<oidcVars, nonces, tabs, tokens>>

\* Mutant: Shutdown waits for the handlers without a limit.
MutantMayReturn(l) == login[l].blocked = 0

\* Shutdown waits for handlers, for two seconds at most.
MayReturn(l) == TRUE

Shutdown(l) ==
    /\ login[l].at = "shutdown" /\ MayReturn(l)
    /\ Goto(l, IF login[l].result = "code" THEN "exchange" ELSE "failed")
    /\ UNCHANGED <<oidcVars, nonces, tabs, tokens>>

\* postToken and the provider's answer to it; the answer may be lost.
Exchange(l) ==
    /\ login[l].at = "exchange"
    /\ LET code == login[l].code
           yes  == provider # OidcDown
                     /\ Accepts(code, login[l].client, Callback, login[l].nonce)
       IN  /\ IF provider = OidcDown THEN UNCHANGED codes ELSE Take(code)
           /\ tokens' = IF yes
                        THEN tokens \cup {[nonce |-> login[l].nonce, key |-> provider]}
                        ELSE tokens
           /\ \/ yes /\ Goto(l, "ok")
              \/ Fail(l)
    /\ UNCHANGED <<clock, provider, keyFile, nextKey, nextCode, nonces, tabs>>

----------------------------------------------------------------------------
(* The browser and the server.                                             *)

\* A tab loads the authorize URL and is redirected with a code.
TabAuthorizes(tab) ==
    /\ tab \in tabs /\ tab.code = 0
    /\ Authorize(tab.client, Callback, tab.state)
    /\ tabs' = tabs \cup {[tab EXCEPT !.code = nextCode]}
    /\ UNCHANGED <<login, nonces, tokens>>

Server ==
    /\ ProviderStarts \/ ProviderStops \/ Tick
    /\ UNCHANGED <<login, nonces, tabs, tokens>>

Step(l) ==
    \/ Listen(l) \/ HeadlessAuthorize(l) \/ Select(l) \/ Shutdown(l)
    \/ Exchange(l)

Next ==
    \/ \E l \in Logins :
         \/ Discover(l) \/ Step(l)
         \/ \E tab \in tabs : HandleCallback(l, tab)
    \/ \E tab \in tabs : TabAuthorizes(tab)
    \/ Server

Spec == Init /\ [][Next]_vars

----------------------------------------------------------------------------

TypeOK ==
    /\ clock \in 0..MaxTime /\ nextCode \in 1..MaxCodes + 1
    /\ provider \in 0..MaxKeys /\ keyFile \in -1..MaxKeys
    /\ provider # OidcDown => provider = keyFile
    /\ DOMAIN codes \subseteq 1..nextCode - 1
    /\ \A l \in Logins : login[l].at \in {"idle", "browser", "headless",
            "listening", "shutdown", "exchange", "ok", "failed"}
    /\ \A l, m \in Logins :
         login[l].at = "listening" /\ login[m].at = "listening" => l = m

\* A login never spends a code that the provider gave to another login, also
\* not one that an old tab delivers to the port (login.go: readCallback).
SpendsOwnCode ==
    \A l \in Logins : login[l].at = "exchange" /\ login[l].code \in DOMAIN codes =>
        codes[login[l].code].challenge = login[l].nonce

\* A token verifies against the key that the provider publishes now, whatever
\* restarts lie in between (keypair.go: LoadOrCreateKeypair).
TokensVerify ==
    provider # OidcDown => \A t \in tokens : t.key = provider

\* Every login comes to an end, also when a reloaded tab left a handler of its
\* call-back server blocked for good (login.go: browserAuthorize).
LoginEnds == \A l \in Logins : ~Ended(l) ~> Ended(l)

\* A login is given a token of its own, and one that verifies (login.go,
\* keypair.go).
LoginsSound == SpendsOwnCode /\ TokensVerify
=============================================================================
