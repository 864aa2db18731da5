---------------------------- MODULE MCIdentity ----------------------------
(***************************************************************************)
(* Model checking the parts that decide who may do what: logins, tokens,   *)
(* stored credentials, and the keys of a cluster in a cloud.  They share   *)
(* no state: one run explores them side by side, and an initial state says *)
(* which of them moves; one is RequiredSecret itself.                      *)
(***************************************************************************)
EXTENDS RequiredSecret

CONSTANTS
    Clusters, Requests, NoRequest, Hour,                          \* VaultAuth
    MaxAuthTime, MaxVaultTokens, MaxGen,
    ClientIDs, Clients, Logins, CodeTTL,                          \* OidcLogin
    MaxOidcTime, MaxCodes, MaxPairs, MaxLogins,
    Procs, Users, Services, MaxProcs, MaxRefreshTokens,           \* Credentials
    Clis, Targets, Binaries, MaxCommands,                         \* KubeContext
    Applies, MaxApplies                                           \* CloudBootstrap

\* Times are ticks; the other numbers bound what a model may count to.
ASSUME ConstantsAssumption ==
    /\ Hour \in Nat \ {0} /\ CodeTTL \in Nat
    /\ MaxAuthTime \in Nat /\ MaxVaultTokens \in Nat /\ MaxGen \in Nat \ {0}
    /\ MaxOidcTime \in Nat /\ MaxCodes \in Nat /\ MaxPairs \in Nat /\ MaxLogins \in Nat
    /\ MaxProcs \in Nat /\ MaxRefreshTokens \in Nat
    /\ MaxKeys \in Nat \ {0} /\ MaxCommands \in Nat /\ MaxApplies \in Nat

VARIABLES
    part,
    authClock, gen, apiUp, vaultTokens, nextVaultToken, slot,     \* VaultAuth
    oidcClock, provider, keyFile, nextPair, codes, nextCode,      \* OidcLogin
    login, nonces, tabs, idTokens,
    file, ring, live, nextRefresh, rotates, proc, runs, lost,     \* Credentials
    clusters, users, contexts, cli, commands, overlapped,         \* KubeContext
    backend, secretKind, secret, object, alive, ca, state, apply,
    applies, rotated                                              \* CloudBootstrap

Auth == INSTANCE VaultAuth WITH
    MaxTime <- MaxAuthTime, MaxTokens <- MaxVaultTokens,
    clock <- authClock, tokens <- vaultTokens, nextToken <- nextVaultToken

Oidc == INSTANCE OidcLogin WITH
    MaxTime <- MaxOidcTime, MaxKeys <- MaxPairs,
    clock <- oidcClock, nextKey <- nextPair, tokens <- idTokens

Creds == INSTANCE Credentials WITH
    MaxRuns <- MaxProcs, MaxTokens <- MaxRefreshTokens, nextToken <- nextRefresh

Kube == INSTANCE KubeContext

\* Their names keep the targets apart.
ASSUME TargetsApart == Kube!KeysApart

Cloud == INSTANCE CloudBootstrap WITH
    MaxRuns <- MaxApplies, kind <- secretKind, live <- alive, runs <- applies

\* Targets that are checked: a local and a remote cluster of one name; the
\* names of their servers do not hold "podplane".
Target(id, local, server) ==
    [id |-> id, local |-> local, server |-> server, podplane |-> FALSE,
     subs |-> {<<"u">>, <<"v">>}]
LocalAndRemote ==
    {Target(<<"x">>, TRUE, "local"), Target(<<"x">>, FALSE, "remote")}

authVars == <<authClock, gen, apiUp, vaultTokens, nextVaultToken, slot>>
oidcVars == <<oidcClock, provider, keyFile, nextPair, codes, nextCode,
              login, nonces, tabs, idTokens>>
credsVars == <<file, ring, live, nextRefresh, rotates, proc, runs, lost>>
kubeVars == <<clusters, users, contexts, cli, commands, overlapped>>
cloudVars == <<backend, secretKind, secret, object, alive, ca, state, apply,
               applies, rotated>>
allVars == <<part, authVars, oidcVars, credsVars, rvars, kubeVars, cloudVars>>

\* Part i moves, the others stay as they are.
Moves(i) ==
    /\ part = i /\ UNCHANGED part
    /\ i # "auth" => UNCHANGED authVars
    /\ i # "oidc" => UNCHANGED oidcVars
    /\ i # "creds" => UNCHANGED credsVars
    /\ i # "required" => UNCHANGED rvars
    /\ i # "kube" => UNCHANGED kubeVars
    /\ i # "cloud" => UNCHANGED cloudVars

\* A part that does not move begins in one way only.
PartsInit ==
    /\ part \in {"auth", "oidc", "creds", "required", "kube", "cloud"}
    /\ Auth!Init /\ Oidc!Init /\ Creds!Init /\ Init /\ Kube!Init
    /\ Cloud!Init
    /\ part # "cloud" =>
         backend = "google" /\ secretKind = "ca" /\ ~alive /\ ~secret["key"].made
    /\ part # "creds" => rotates

PartsNext ==
    \/ Moves("auth") /\ Auth!Next
    \/ Moves("oidc") /\ Oidc!Next
    \/ Moves("creds") /\ Creds!Next
    \/ Moves("required") /\ Next
    \/ Moves("kube") /\ Kube!Next
    \/ Moves("cloud") /\ Cloud!Next

PartsSpec == PartsInit /\ [][PartsNext]_allVars

----------------------------------------------------------------------------

\* The type invariants of the parts.
PartsTypeOK ==
    /\ Auth!TypeOK /\ Oidc!TypeOK /\ Creds!TypeOK
    /\ TypeOK /\ Kube!TypeOK /\ Cloud!TypeOK

\* Workloads are served in their scope and in time (VaultAuth).
WorkloadsServed == Auth!WorkloadsServed

\* Logins end with tokens of their own that verify (OidcLogin).
LoginsSound == Oidc!LoginsSound

\* Stored credentials are used for whom they are (Credentials).
CredentialsHold == Creds!CredentialsHold

\* A context that was configured alone can be used (KubeContext).
ConfiguredWorks == Kube!ConfiguredWorks

\* The keys of a cluster, the states that record them and its first snapshot
\* agree (CloudBootstrap).
BootstrapSound == Cloud!BootstrapSound
=============================================================================
