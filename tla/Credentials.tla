---------------------------- MODULE Credentials ----------------------------
(***************************************************************************)
(* Stored credentials of one remote cluster: metadata in the config file   *)
(* (internal/config/auth.go, file.go), tokens in the keyring (keyring.go), *)
(* and the commands that use them (internal/clusterauth: Login,            *)
(* ServiceLogin, ResolveToken, Refresh, Logout).                           *)
(*                                                                         *)
(* Every process of the CLI reads the config file once, when it starts,    *)
(* and writes all of it back.  kubectl may run the hook while another      *)
(* command logs in or out.  Processes may be killed, the file and the      *)
(* keyring may refuse, and answers may be lost, between any two steps.     *)
(* The issuer is external: it may rotate refresh tokens, and a browser may *)
(* be logged in as somebody else.                                          *)
(***************************************************************************)
EXTENDS Integers

CONSTANTS
    Procs,
    Users, Services,    \* subjects; those of services start with "trusted:"
    MaxRuns,            \* bound: processes ever started
    MaxTokens           \* bound: refresh tokens ever issued

VARIABLES
    file,       \* the config file: subject -> metadata, or Torn
    ring,       \* the keyring: subject -> secrets
    live,       \* refresh tokens that the issuer accepts
    nextToken,
    rotates,    \* whether this issuer rotates refresh tokens
    proc,       \* process -> where it stands
    runs,
    lost        \* history: refresh tokens made void by a rotation whose
                \* outcome was never stored

vars == <<file, ring, live, nextToken, rotates, proc, runs, lost>>

Subjects == Users \cup Services
NoToken == 0
None == [kind |-> "none"]
Torn == [kind |-> "torn"]

\* AuthMetadata: all that matters is the renewal source of a service.
Metas == {[kind |-> "user"], [kind |-> "service"]}
MetaOf(s) == [kind |-> IF s \in Services THEN "service" ELSE "user"]

\* AuthSecrets: the subject of the ID token, whether it is still good, and
\* the refresh token.
Secret(s, rt) == [kind |-> "secret", sub |-> s, fresh |-> TRUE, rt |-> rt]

Idle == [at |-> "idle"]

Set(p, s) == proc' = [proc EXCEPT ![p] = s]
At(p, at) == proc[p].at = at
Goto(p, at) == Set(p, [proc[p] EXCEPT !.at = at])
End(p) == Set(p, Idle)

Init ==
    /\ file = [s \in Subjects |-> None]
    /\ ring = [s \in Subjects |-> None]
    /\ live = {} /\ nextToken = 1 /\ rotates \in BOOLEAN
    /\ proc = [p \in Procs |-> Idle]
    /\ runs = 0 /\ lost = {}

\* InitFile: a config file that cannot be parsed ends the command.
Start(p, op, at, s) ==
    /\ At(p, "idle") /\ runs < MaxRuns /\ runs' = runs + 1
    /\ IF file = Torn THEN UNCHANGED proc
       ELSE Set(p, [at |-> at, op |-> op, sub |-> s, view |-> file, old |-> None,
                    new |-> None, key |-> s, todo |-> {}])
    /\ UNCHANGED <<rotates, file, ring, live, nextToken, lost>>

KubectlHook(p, s) == Start(p, "hook", "read", s)

\* The Docker hook takes an entry of the cluster whose registry it is; a push
\* takes the only one, if the context does not name a subject.
DockerHook(p, s) == file # Torn /\ file[s] # None /\ Start(p, "hook", "read", s)
PushToken(p, s) ==
    file # Torn /\ (\A t \in Subjects \ {s} : file[t] = None)
        /\ file[s] # None /\ Start(p, "hook", "read", s)

\* SelectSource: a pipeline logs in as a service, everybody else as a user.
FromPipeline(s) == s \in Services

LoginCommand(p, s) ==
    \/ ~FromPipeline(s) /\ Start(p, "login", "browser", s)
    \/ FromPipeline(s) /\ Start(p, "service", "exchange", s)

LogoutCommand(p, s) == Start(p, "logout", "list", s)

----------------------------------------------------------------------------
(* Getting a token.                                                        *)

\* IsExpired: a token is good until shortly before its end.
Usable(secret) == secret # None /\ secret.fresh
Renewable(secret) == secret # None /\ secret.rt # NoToken

\* Acquire: whatever identity the pipeline has by now.
Acquired == Services

\* ResolveToken up to the first decision.  Metadata is what the process read
\* when it started, the secrets are those of now.
Read(p) ==
    /\ At(p, "read")
    /\ LET s == proc[p].sub  meta == proc[p].view[s]  sec == ring[s]
       IN  Set(p,
             IF Usable(sec)
             THEN [proc[p] EXCEPT !.at = "done", !.new = sec]
             ELSE IF meta.kind = "service"
             THEN [proc[p] EXCEPT !.at = "exchange"]
             ELSE IF meta = None THEN Idle     \* "metadata is incomplete"
             ELSE IF Renewable(sec)
             THEN [proc[p] EXCEPT !.at = "refresh", !.old = sec]
             ELSE [proc[p] EXCEPT !.at = "browser"])
    /\ UNCHANGED <<rotates, file, ring, live, nextToken, runs, lost>>

\* Mutant: the refresh token of the answer is dropped.
MutantNewRefresh(old, answered) == old
\* Refresh: an answer without a refresh token keeps the old one.
NewRefresh(old, answered) == IF answered = NoToken THEN old ELSE answered

\* Any error of Refresh, one of AuthSet included, is followed by a login.
Browse(p, view) ==
    Set(p, [proc[p] EXCEPT !.at = "browser", !.old = None, !.view = view])

\* Refresh: the issuer may rotate the token, and its answer may be lost, come
\* too late or not be understood.
Refresh(p) ==
    /\ At(p, "refresh")
    /\ LET s == proc[p].sub  rt == proc[p].old.rt
       IN  \/ /\ rt \in live
              /\ rotates => nextToken <= MaxTokens
              /\ live' = IF rotates THEN (live \ {rt}) \cup {nextToken} ELSE live
              /\ nextToken' = IF rotates THEN nextToken + 1 ELSE nextToken
              /\ \/ /\ Set(p, [proc[p] EXCEPT !.at = "saveFile",
                           !.new = Secret(s, NewRefresh(rt, IF rotates
                                                THEN nextToken ELSE NoToken))])
                    /\ UNCHANGED lost
                 \/ /\ Browse(p, proc[p].view)
                    /\ lost' = IF rotates THEN lost \cup {rt} ELSE lost
           \/ Browse(p, proc[p].view) /\ UNCHANGED <<live, nextToken, lost>>
    /\ UNCHANGED <<rotates, file, ring, runs>>

\* Mutant: what a login brings is stored for the subject that was asked for.
MutantKeyOf(asked, got) == asked
\* persistTokens: tokens are stored for the subject that they name.
KeyOf(asked, got) == got

\* Login in the browser, as whoever is logged in there.
BrowserLogin(p) ==
    /\ At(p, "browser")
    /\ \/ \E u \in Users :
            /\ nextToken <= MaxTokens
            /\ live' = live \cup {nextToken} /\ nextToken' = nextToken + 1
            /\ Set(p, [proc[p] EXCEPT !.at = "saveFile",
                         !.key = KeyOf(proc[p].sub, u),
                         !.new = Secret(u, nextToken)])
       \/ End(p) /\ UNCHANGED <<live, nextToken>>
    /\ UNCHANGED <<rotates, file, ring, runs, lost>>

\* Mutant: a renewed token is taken for whatever subject it names.
MutantSameIdentity(asked, got) == TRUE
\* renewServiceToken: the subject must be the one that was logged in.
SameIdentity(asked, got) == got = asked

\* Acquire and Exchange, for ServiceLogin and renewServiceToken; the source
\* may by now be an identity of another pipeline.
Exchange(p) ==
    /\ At(p, "exchange")
    /\ \/ \E got \in Acquired :
            IF proc[p].op = "service" \/ SameIdentity(proc[p].sub, got)
            THEN Set(p, [proc[p] EXCEPT !.at = "saveFile",
                           !.key = IF proc[p].op = "service" THEN got ELSE @,
                           !.new = Secret(got, NoToken)])
            ELSE End(p)
       \/ End(p)
    /\ UNCHANGED <<rotates, file, ring, live, nextToken, runs, lost>>

----------------------------------------------------------------------------
(* AuthSet.                                                                *)

\* A renewal whose outcome is still to be stored, and the token that is void
\* if it never is.
Unsaved(p) ==
    /\ proc[p].at \in {"saveFile", "written", "saveRing"}
    /\ proc[p].old # None /\ proc[p].new.rt # proc[p].old.rt
Voided(p) == IF Unsaved(p) THEN {proc[p].old.rt} ELSE {}

\* AuthSet fails: a renewal goes on to a login, anything else is over.
NotStored(p, view) ==
    /\ IF proc[p].old # None THEN Browse(p, view) ELSE End(p)
    /\ lost' = lost \cup Voided(p)

\* viper truncates the file ...
SaveFile(p) ==
    /\ At(p, "saveFile")
    /\ LET view == [proc[p].view EXCEPT ![proc[p].key] = MetaOf(proc[p].key)]
       IN  \/ /\ file' = Torn /\ UNCHANGED lost
              /\ Set(p, [proc[p] EXCEPT !.at = "written", !.view = view])
           \/ UNCHANGED file /\ NotStored(p, view)
    /\ UNCHANGED <<rotates, ring, live, nextToken, runs>>

\* ... and writes all that this process knows.
FileWritten(p) ==
    /\ At(p, "written")
    /\ \/ file' = proc[p].view /\ Goto(p, "saveRing") /\ UNCHANGED lost
       \/ UNCHANGED file /\ NotStored(p, proc[p].view)
    /\ UNCHANGED <<rotates, ring, live, nextToken, runs>>

KeyringWrite(p) ==
    /\ At(p, "saveRing")
    /\ \/ ring' = [ring EXCEPT ![proc[p].key] = proc[p].new]
          /\ Goto(p, "done") /\ UNCHANGED lost
       \/ UNCHANGED ring /\ NotStored(p, proc[p].view)
    /\ UNCHANGED <<rotates, file, live, nextToken, runs>>

Return(p) ==
    /\ At(p, "done") /\ End(p)
    /\ UNCHANGED <<rotates, file, ring, live, nextToken, runs, lost>>

----------------------------------------------------------------------------
(* Logout.                                                                 *)

\* AuthListByCluster, in the view of this process.
List(p) ==
    /\ At(p, "list")
    /\ Set(p, [proc[p] EXCEPT !.at = "drop",
                 !.todo = {s \in Subjects : proc[p].view[s] # None}])
    /\ UNCHANGED <<rotates, file, ring, live, nextToken, runs, lost>>

\* authDeleteKey: the metadata of one entry, and the file is saved; an error
\* leaves it as it was, or truncated.
DropMetadata(p) ==
    /\ At(p, "drop")
    /\ \/ /\ proc[p].todo = {} /\ End(p) /\ UNCHANGED file
       \/ \E s \in proc[p].todo :
            LET view == [proc[p].view EXCEPT ![s] = None]
            IN  /\ file' = view
                /\ Set(p, [proc[p] EXCEPT !.at = "forget", !.key = s, !.view = view])
       \/ proc[p].todo # {} /\ End(p) /\ file' \in {file, Torn}
    /\ UNCHANGED <<rotates, ring, live, nextToken, runs, lost>>

\* ... then its keyring entry; an error ends the command.
DropSecrets(p) ==
    /\ At(p, "forget")
    /\ \/ /\ ring' = [ring EXCEPT ![proc[p].key] = None]
          /\ Set(p, [proc[p] EXCEPT !.at = "drop", !.todo = @ \ {proc[p].key}])
       \/ End(p) /\ UNCHANGED ring
    /\ UNCHANGED <<rotates, file, live, nextToken, runs, lost>>

----------------------------------------------------------------------------

Expire(s) ==
    /\ ring[s] # None /\ ring[s].fresh
    /\ ring' = [ring EXCEPT ![s].fresh = FALSE]
    /\ UNCHANGED <<rotates, file, live, nextToken, proc, runs, lost>>

Killed(p) ==
    /\ ~At(p, "idle") /\ End(p)
    /\ lost' = lost \cup Voided(p)
    /\ UNCHANGED <<rotates, file, ring, live, nextToken, runs>>

Next ==
    \/ \E p \in Procs :
         \/ \E s \in Subjects :
              \/ KubectlHook(p, s) \/ DockerHook(p, s) \/ PushToken(p, s)
              \/ LoginCommand(p, s) \/ LogoutCommand(p, s)
         \/ Read(p) \/ Refresh(p) \/ BrowserLogin(p) \/ Exchange(p)
         \/ SaveFile(p) \/ FileWritten(p) \/ KeyringWrite(p) \/ Return(p)
         \/ List(p) \/ DropMetadata(p) \/ DropSecrets(p)
         \/ Killed(p)
    \/ \E s \in Subjects : Expire(s)

Spec == Init /\ [][Next]_vars

----------------------------------------------------------------------------

TypeOK ==
    /\ file = Torn \/ file \in [Subjects -> Metas \cup {None}]
    /\ \A s \in Subjects : ring[s] # None => ring[s].rt \in 0..nextToken - 1
    /\ live \subseteq 1..nextToken - 1 /\ nextToken \in 1..MaxTokens + 1
    /\ runs \in 0..MaxRuns /\ lost \subseteq 1..nextToken - 1

\* The keyring never holds a token under another subject than its own, also
\* when the browser is logged in as somebody else (persistTokens, Refresh).
KeyringHoldsItsSubject ==
    \A s \in Subjects : ring[s] # None => ring[s].sub = s

\* What the hook hands to kubectl for a service is a token of that service,
\* whatever the renewal source has become (renewServiceToken).
ServiceGetsItsOwn ==
    \A p \in Procs :
        At(p, "done") /\ proc[p].op = "hook" /\ proc[p].sub \in Services
            => proc[p].new.sub = proc[p].sub

\* A stored refresh token is one that the issuer accepts - unless it is the very
\* one that a renewal made void whose outcome is about to replace it, or never
\* could: the answer was lost, the file or the keyring refused, or a kill came
\* first.  Whatever hooks, logins and logouts overlap, no other token goes
\* stale (Refresh, ResolveToken, AuthSet).
StoredRefreshIsLive ==
    \A s \in Subjects :
        ring[s] # None /\ ring[s].rt # NoToken /\ ring[s].rt \notin live =>
            \/ ring[s].rt \in lost
            \/ \E p \in Procs :
                  Unsaved(p) /\ proc[p].key = s /\ proc[p].old.rt = ring[s].rt

\* What `podplane logout` says that it does: both the metadata and the tokens
\* of every subject are removed, when it runs to its end and alone.
LogoutForgets ==
    [][\A p \in Procs :
         /\ At(p, "drop") /\ proc[p].todo = {} /\ proc'[p].at = "idle"
         /\ \A q \in Procs \ {p} : At(q, "idle")
         => \A s \in Subjects : ring'[s] = None]_vars

\* Stored credentials are of the subject, of the service and of the issuer
\* that they are used for (source.go, config/auth.go).
CredentialsHold ==
    ServiceGetsItsOwn /\ KeyringHoldsItsSubject /\ StoredRefreshIsLive
=============================================================================
