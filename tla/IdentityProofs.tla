--------------------------- MODULE IdentityProofs --------------------------
(***************************************************************************)
(* Who may do what, proved for any number of clusters, requests, logins,   *)
(* processes, commands and applies.  A section for each part: its inductive *)
(* invariant, one lemma for each group of actions, and the theorem.        *)
(***************************************************************************)
EXTENDS MCIdentity, Sequences, TLAPS

(***************************************************************************)
(* VaultAuth.  A token of a workload stands for the account and the cluster of *)
(* the JWT that it was made from, and does not outlive it; a request that is *)
(* on its way holds the number of a token, which may be gone by then.      *)
(***************************************************************************)

\* A token of a workload stands for its own account, and one of the operator
\* for the operator; neither outlives the JWT.
EntryOK(e) ==
    /\ e.jwt \in Auth!Jwts
    /\ e.cluster = e.jwt.cluster /\ e.ns = e.jwt.acct.ns
    /\ e.operator \in BOOLEAN /\ (e.operator <=> e.role = Auth!OperatorRole)
    /\ e.operator => e.jwt.acct = Auth!Operator
    /\ ~e.operator => e.role = e.jwt.acct.name
    /\ e.expires \in Int /\ e.expires <= e.jwt.exp /\ e.expires <= authClock + Hour

TokensOK ==
    /\ nextVaultToken \in Nat \ {0}
    /\ DOMAIN vaultTokens \subseteq 1..nextVaultToken - 1
    /\ \A t \in DOMAIN vaultTokens : EntryOK(vaultTokens[t])

\* The request may be served on the token, if that is still there.
CheckedOK(s) ==
    /\ s.token \in 1..nextVaultToken - 1
    /\ s.cluster \in Clusters /\ s.path \in Auth!PathsOf(s.cluster)
    /\ Auth!Clean(s.path)
    /\ s.token \in DOMAIN vaultTokens =>
          /\ vaultTokens[s.token].cluster = s.cluster
          /\ Auth!MayUse(vaultTokens[s.token], s.cluster, s.method, s.path)

ServedOK(s) ==
    /\ s.entry.jwt.cluster = s.cluster
    /\ s.entry.jwt.acct # Auth!Operator =>
         /\ s.method = "GET"
         /\ SubSeq(s.path, 1, 5) =
              <<"secret", "data", s.cluster, s.entry.jwt.acct.ns, s.entry.jwt.acct.name>>
         /\ Len(s.path) = 6

SlotOK(s) ==
    s # NoRequest =>
      /\ s.at = "keys" => s.jwt \in Auth!Jwts /\ s.role \in Auth!Roles
      /\ s.at = "checked" => CheckedOK(s)
      /\ s.at = "served" => ServedOK(s)

AuthTypes ==
    /\ authClock \in 0..MaxAuthTime /\ gen \in [Clusters -> 1..MaxGen]
    /\ apiUp \subseteq Clusters /\ DOMAIN slot = Requests

AuthInv == AuthTypes /\ TokensOK /\ \A r \in Requests : SlotOK(slot[r])

----------------------------------------------------------------------------

\* A clean path below the prefix of an account is a secret of that account.
LEMMA SecretPath ==
    ASSUME NEW c \in Clusters, NEW ns, NEW role, NEW path \in Auth!PathsOf(c),
           Auth!Clean(path), Auth!IsPrefix(<<"secret", "data", c, ns, role>>, path)
    PROVE  /\ SubSeq(path, 1, 5) = <<"secret", "data", c, ns, role>>
           /\ Len(path) = 6
<1>1. SubSeq(path, 1, 5) = <<"secret", "data", c, ns, role>>
  BY DEF Auth!IsPrefix
<1>2. \/ path = <<"secret", "data", c, "n1", "web", "k">>
      \/ path = <<"secret", "data", c, "n1", "we", "k">>
      \/ path = <<"secret", "data", c, "n1", "we", "..", "web", "k">>
      \/ path = <<"secret", "metadata", c, "n1", "web", "k">>
  BY DEF Auth!PathsOf, Auth!Tails
<1>3. path # <<"secret", "data", c, "n1", "we", "..", "web", "k">>
  <2> SUFFICES ASSUME path = <<"secret", "data", c, "n1", "we", "..", "web", "k">>
               PROVE  FALSE
    OBVIOUS
  <2>1. 6 \in DOMAIN path /\ path[6] = ".."
    OBVIOUS
  <2> QED
    BY <2>1 DEF Auth!Clean
<1> QED
  BY <1>1, <1>2, <1>3

\* What a workload may use is what it owns (MayUse).
LEMMA UseIsOwn ==
    ASSUME NEW e, EntryOK(e), NEW c \in Clusters, e.cluster = c,
           NEW method, NEW path \in Auth!PathsOf(c), Auth!Clean(path),
           Auth!MayUse(e, c, method, path)
    PROVE  ServedOK([at |-> "served", path |-> path, method |-> method,
                     cluster |-> e.cluster, entry |-> e])
<1>1. CASE e.operator
  BY <1>1 DEF EntryOK, ServedOK
<1>2. CASE ~e.operator
  <2>1. method = "GET" /\ Auth!IsPrefix(<<"secret", "data", c, e.ns, e.role>>, path)
    BY <1>2 DEF Auth!MayUse
  <2>2. /\ SubSeq(path, 1, 5) = <<"secret", "data", c, e.ns, e.role>>
        /\ Len(path) = 6
    BY <2>1, SecretPath
  <2> QED
    BY <1>2, <2>1, <2>2 DEF EntryOK, ServedOK
<1> QED
  BY <1>1, <1>2 DEF EntryOK

\* An expired entry may be forgotten; nothing else changes (Sweep).
LEMMA SweepKeeps ==
    ASSUME NEW t, TokensOK, vaultTokens' \in {vaultTokens, Auth!Sweep(t)},
           UNCHANGED <<authClock, nextVaultToken>>
    PROVE  /\ TokensOK'
           /\ DOMAIN vaultTokens' \subseteq DOMAIN vaultTokens
           /\ \A u \in DOMAIN vaultTokens' : vaultTokens'[u] = vaultTokens[u]
<1>1. /\ DOMAIN vaultTokens' \subseteq DOMAIN vaultTokens
      /\ \A u \in DOMAIN vaultTokens' : vaultTokens'[u] = vaultTokens[u]
  BY DEF Auth!Sweep
<1> QED
  BY <1>1 DEF TokensOK, EntryOK

\* Fewer tokens, or more, are no harm to a request that is on its way.
LEMMA SlotKeeps ==
    ASSUME NEW q \in Requests, SlotOK(slot[q]), slot'[q] = slot[q],
           nextVaultToken \in Nat, nextVaultToken' \in Nat,
           nextVaultToken <= nextVaultToken',
           \A u \in DOMAIN vaultTokens' \cap (1..nextVaultToken - 1) :
              u \in DOMAIN vaultTokens /\ vaultTokens'[u] = vaultTokens[u]
    PROVE  SlotOK(slot[q])'
BY DEF SlotOK, CheckedOK, ServedOK

\* The invariant holds at the start.
LEMMA AuthInitially == Auth!Init => AuthInv
BY ConstantsAssumption
   DEF Auth!Init, AuthInv, AuthTypes, TokensOK, SlotOK

\* A request moves, the others stay where they are.
LEMMA OneSlotMoves ==
    ASSUME AuthInv, NEW r \in Requests, NEW new, Auth!Set(r, new), SlotOK(slot[r])',
           TokensOK', nextVaultToken <= nextVaultToken',
           \A u \in DOMAIN vaultTokens' \cap (1..nextVaultToken - 1) :
              u \in DOMAIN vaultTokens /\ vaultTokens'[u] = vaultTokens[u],
           UNCHANGED <<authClock, gen, apiUp>>
    PROVE  AuthInv'
<1>1. slot' = [slot EXCEPT ![r] = new]
  BY DEF Auth!Set
<1>2. \A q \in Requests \ {r} : slot'[q] = slot[q]
  BY <1>1 DEF AuthInv, AuthTypes
<1>3. \A q \in Requests : SlotOK(slot[q])'
  BY <1>2, SlotKeeps DEF AuthInv, TokensOK
<1> QED
  BY <1>1, <1>3 DEF AuthInv, AuthTypes

\* No request moves.
LEMMA NoSlotMoves ==
    ASSUME AuthInv, slot' = slot, TokensOK', AuthTypes', nextVaultToken' = nextVaultToken,
           \A u \in DOMAIN vaultTokens' :
              u \in DOMAIN vaultTokens /\ vaultTokens'[u] = vaultTokens[u]
    PROVE  AuthInv'
<1>1. \A q \in Requests : SlotOK(slot[q])'
  BY SlotKeeps DEF AuthInv, TokensOK
<1> QED
  BY <1>1 DEF AuthInv

\* A login asks for the keys of a cluster (LoginFetchKeys).
LEMMA LoginFetchKeysStep ==
    ASSUME AuthInv, NEW r \in Requests, NEW j \in Auth!Jwts, NEW c \in Clusters,
           NEW role \in Auth!Roles, Auth!LoginFetchKeys(r, j, c, role)
    PROVE  AuthInv'
<1> DEFINE new == [at |-> "keys", jwt |-> j, cluster |-> c, role |-> role,
                   keys |-> gen[c]]
<1>1. TokensOK'
  BY DEF AuthInv, TokensOK, EntryOK, Auth!LoginFetchKeys
<1>2. CASE Auth!Set(r, new)
  <2>1. slot'[r] = new
    BY <1>2 DEF Auth!Set, AuthInv, AuthTypes
  <2>2. SlotOK(slot[r])'
    BY <2>1 DEF SlotOK
  <2> QED
    BY <1>1, <1>2, <2>2, OneSlotMoves DEF AuthInv, TokensOK, Auth!LoginFetchKeys
<1>3. CASE slot' = slot
  BY <1>1, <1>3, NoSlotMoves DEF AuthInv, AuthTypes, TokensOK, Auth!LoginFetchKeys
<1> QED
  BY <1>2, <1>3 DEF Auth!LoginFetchKeys

\* What a verified JWT is exchanged for (Entry, Verified).
LEMMA EntryIsOK ==
    ASSUME authClock \in Nat, NEW j \in Auth!Jwts, NEW c, NEW role \in Auth!Roles,
           NEW keys, Auth!Verified(j, c, role, keys)
    PROVE  EntryOK(Auth!Entry(j, c, role))
<1> DEFINE e == Auth!Entry(j, c, role)
<1>1. j.exp \in Int /\ j.cluster = c
  BY DEF Auth!Jwts, Auth!Verified
<1>2. /\ e.jwt = j /\ e.cluster = c /\ e.ns = j.acct.ns /\ e.role = role
      /\ e.expires = IF j.exp < authClock + Hour THEN j.exp ELSE authClock + Hour
      /\ e.operator = (role = Auth!OperatorRole /\ j.acct = Auth!Operator)
  BY DEF Auth!Entry
<1>3. e.operator \in BOOLEAN /\ (e.operator <=> role = Auth!OperatorRole)
  BY <1>2 DEF Auth!Verified
<1>4. /\ role = Auth!OperatorRole => j.acct = Auth!Operator
      /\ role # Auth!OperatorRole => role = j.acct.name
  BY DEF Auth!Verified
<1>5. e.expires \in Int /\ e.expires <= j.exp /\ e.expires <= authClock + Hour
  BY <1>1, <1>2, ConstantsAssumption
<1> HIDE DEF e
<1>6. EntryOK(e)
  BY <1>1, <1>2, <1>3, <1>4, <1>5 DEF EntryOK
<1> QED
  BY <1>6 DEF e

\* A login ends, with a new token if the JWT is good (LoginIssue).
LEMMA LoginIssueStep ==
    ASSUME AuthInv, NEW r \in Requests, Auth!LoginIssue(r)
    PROVE  AuthInv'
<1> DEFINE s == slot[r]
           e == Auth!Entry(s.jwt, s.cluster, s.role)
<1>1. s.jwt \in Auth!Jwts /\ s.role \in Auth!Roles
  BY DEF Auth!LoginIssue, AuthInv, SlotOK
<1>2. slot'[r] = NoRequest /\ SlotOK(slot[r])'
  BY DEF Auth!LoginIssue, Auth!Set, AuthInv, AuthTypes, SlotOK
<1>3. CASE Auth!Verified(s.jwt, s.cluster, s.role, s.keys)
  <2>1. EntryOK(e)
    BY <1>1, <1>3, EntryIsOK DEF AuthInv, AuthTypes
  <2> HIDE DEF e
  <2>2. /\ vaultTokens' = [t \in DOMAIN vaultTokens \cup {nextVaultToken} |->
                             IF t = nextVaultToken THEN e ELSE vaultTokens[t]]
        /\ nextVaultToken' = nextVaultToken + 1
    BY <1>3 DEF Auth!LoginIssue, e
  <2>3. TokensOK'
    BY <2>1, <2>2 DEF AuthInv, TokensOK, EntryOK, Auth!LoginIssue
  <2>4. \A u \in DOMAIN vaultTokens' \cap (1..nextVaultToken - 1) :
              u \in DOMAIN vaultTokens /\ vaultTokens'[u] = vaultTokens[u]
    BY <2>2 DEF AuthInv, TokensOK
  <2> QED
    <3>1. nextVaultToken <= nextVaultToken' /\ UNCHANGED <<authClock, gen, apiUp>>
      BY <2>2 DEF Auth!LoginIssue, AuthInv, TokensOK
    <3>2. Auth!Set(r, NoRequest)
      BY DEF Auth!LoginIssue
    <3> QED
      BY <1>2, <2>3, <2>4, <3>1, <3>2, OneSlotMoves
<1>4. CASE ~Auth!Verified(s.jwt, s.cluster, s.role, s.keys)
  <2>1. TokensOK'
    BY <1>4 DEF AuthInv, TokensOK, EntryOK, Auth!LoginIssue
  <2> QED
    BY <1>2, <1>4, <2>1, OneSlotMoves DEF Auth!LoginIssue, AuthInv, TokensOK
<1> QED
  BY <1>3, <1>4

\* A request is let in for what its token may use (CheckRequest).
LEMMA CheckRequestStep ==
    ASSUME AuthInv, NEW r \in Requests, NEW t \in 1..nextVaultToken, NEW c \in Clusters,
           NEW m, NEW path \in Auth!PathsOf(c), Auth!CheckRequest(r, t, c, m, path)
    PROVE  AuthInv'
<1> DEFINE new == [at |-> "checked", token |-> t, cluster |-> c,
                   method |-> m, path |-> path]
<1>1. /\ TokensOK'
      /\ DOMAIN vaultTokens' \subseteq DOMAIN vaultTokens
      /\ \A u \in DOMAIN vaultTokens' : vaultTokens'[u] = vaultTokens[u]
  BY SweepKeeps DEF AuthInv, Auth!CheckRequest
<1>2. CASE slot' = slot
  BY <1>1, <1>2, NoSlotMoves DEF AuthInv, AuthTypes, Auth!CheckRequest
<1>3. CASE /\ Auth!Clean(path) /\ Auth!Authentic(t, c)
           /\ Auth!MayUse(vaultTokens[t], c, m, path)
           /\ Auth!Set(r, new)
  <2>1. slot'[r] = new
    BY <1>3 DEF Auth!Set, AuthInv, AuthTypes
  <2>2. t \in 1..nextVaultToken' - 1 /\ vaultTokens[t].cluster = c
    BY <1>3 DEF Auth!Authentic, AuthInv, TokensOK, Auth!CheckRequest
  <2>3. t \in DOMAIN vaultTokens' => vaultTokens'[t] = vaultTokens[t]
    BY <1>1
  <2>4. CheckedOK(slot[r])'
    BY <1>3, <2>1, <2>2, <2>3 DEF CheckedOK
  <2>5. SlotOK(slot[r])'
    BY <2>1, <2>4 DEF SlotOK
  <2> QED
    BY <1>1, <1>3, <2>5, OneSlotMoves DEF Auth!CheckRequest, AuthInv, TokensOK
<1> QED
  BY <1>2, <1>3 DEF Auth!CheckRequest

\* What is let in again is served (Serve).
LEMMA ServeStep ==
    ASSUME AuthInv, NEW r \in Requests, Auth!Serve(r)
    PROVE  AuthInv'
<1> DEFINE s == slot[r]
           e == vaultTokens[s.token]
           new == [at |-> "served", path |-> s.path, method |-> s.method,
                   cluster |-> e.cluster, entry |-> e]
<1>1. /\ TokensOK'
      /\ DOMAIN vaultTokens' \subseteq DOMAIN vaultTokens
      /\ \A u \in DOMAIN vaultTokens' : vaultTokens'[u] = vaultTokens[u]
  BY SweepKeeps DEF AuthInv, Auth!Serve
<1>2. CheckedOK(s)
  BY DEF Auth!Serve, AuthInv, SlotOK
<1>3. SlotOK(slot[r])'
  <2>1. CASE Auth!Authentic(s.token, s.cluster)
    <3>1. slot'[r] = new
      BY <2>1 DEF Auth!Serve, Auth!Set, AuthInv, AuthTypes
    <3>2. ServedOK(new)
      BY <1>2, <2>1, UseIsOwn DEF CheckedOK, AuthInv, TokensOK, Auth!Authentic
    <3>3. ServedOK(slot[r])'
      BY <3>1, <3>2 DEF ServedOK
    <3> QED
      BY <3>1, <3>3 DEF SlotOK
  <2>2. CASE ~Auth!Authentic(s.token, s.cluster)
    BY <2>2 DEF Auth!Serve, Auth!Set, AuthInv, AuthTypes, SlotOK
  <2> QED
    BY <2>1, <2>2
<1>4. PICK v : Auth!Set(r, v)
  BY DEF Auth!Serve
<1> QED
  BY <1>1, <1>3, <1>4, OneSlotMoves DEF Auth!Serve, AuthInv, TokensOK

\* A response leaves the tokens alone and only empties its slot.
LEMMA RespondStep ==
    ASSUME AuthInv, NEW r \in Requests, Auth!Respond(r)
    PROVE  AuthInv'
<1>1. TokensOK'
  BY DEF AuthInv, TokensOK, EntryOK, Auth!Respond
<1>2. SlotOK(slot[r])'
  BY DEF Auth!Respond, Auth!Set, AuthInv, AuthTypes, SlotOK
<1> QED
  BY <1>1, <1>2, OneSlotMoves DEF Auth!Respond, AuthInv, TokensOK

\* The world moves (Tick, ClusterStops, ClusterStarts).
LEMMA AuthWorldStep ==
    ASSUME AuthInv, UNCHANGED <<vaultTokens, nextVaultToken, slot>>,
           authClock' \in authClock..MaxAuthTime, gen' \in [Clusters -> 1..MaxGen],
           apiUp' \subseteq Clusters
    PROVE  AuthInv'
<1>1. TokensOK' /\ AuthTypes'
  BY ConstantsAssumption DEF AuthInv, AuthTypes, TokensOK, EntryOK
<1> QED
  BY <1>1, NoSlotMoves DEF TokensOK

\* Every step keeps the invariant.
LEMMA AuthStep == AuthInv /\ [Auth!Next]_authVars => AuthInv'
<1> SUFFICES ASSUME AuthInv, [Auth!Next]_authVars PROVE AuthInv'
  OBVIOUS
<1>0. authClock \in 0..MaxAuthTime /\ gen \in [Clusters -> 1..MaxGen]
  BY DEF AuthInv, AuthTypes
<1>1. CASE UNCHANGED authVars
  BY <1>0, <1>1, AuthWorldStep DEF authVars, AuthInv, AuthTypes
<1>2. CASE Auth!Tick
  <2>1. authClock' \in authClock..MaxAuthTime
    BY <1>0, <1>2, ConstantsAssumption DEF Auth!Tick
  <2> QED
    BY <1>0, <1>2, <2>1, AuthWorldStep DEF Auth!Tick, AuthInv, AuthTypes
<1>3. CASE \E c \in Clusters : Auth!ClusterStops(c) \/ Auth!ClusterStarts(c)
  <2>1. gen' \in [Clusters -> 1..MaxGen] /\ apiUp' \subseteq Clusters
    BY <1>0, <1>3 DEF Auth!ClusterStops, Auth!ClusterStarts, AuthInv, AuthTypes
  <2> QED
    BY <1>0, <1>3, <2>1, AuthWorldStep DEF Auth!ClusterStops, Auth!ClusterStarts
<1>4. CASE Auth!ServerRestarts
  <2>1. TokensOK' /\ AuthTypes'
    BY <1>4 DEF Auth!ServerRestarts, AuthInv, AuthTypes, TokensOK
  <2>2. \A q \in Requests : SlotOK(slot[q])'
    BY <1>4 DEF Auth!ServerRestarts, SlotOK
  <2> QED
    BY <2>1, <2>2 DEF AuthInv
<1>5. ASSUME NEW r \in Requests,
             \/ \E j \in Auth!Jwts, c \in Clusters, role \in Auth!Roles :
                  Auth!LoginFetchKeys(r, j, c, role)
             \/ Auth!LoginIssue(r)
             \/ \E t \in 1..nextVaultToken, c \in Clusters, m \in Auth!Methods :
                  \E p \in Auth!PathsOf(c) : Auth!CheckRequest(r, t, c, m, p)
             \/ Auth!Serve(r) \/ Auth!Respond(r)
      PROVE  AuthInv'
  BY <1>5, LoginFetchKeysStep, LoginIssueStep, CheckRequestStep, ServeStep, RespondStep
<1> QED
  BY <1>1, <1>2, <1>3, <1>4, <1>5 DEF Auth!Next

\* What is served is served before the JWT behind the token expires (Serve).
LEMMA ServesInTime ==
    AuthInv /\ [Auth!Next]_authVars =>
       \A r \in Requests :
         slot'[r] # NoRequest /\ slot'[r].at = "served" /\ slot'[r] # slot[r] =>
            authClock < slot'[r].entry.jwt.exp
<1> SUFFICES ASSUME AuthInv, [Auth!Next]_authVars, NEW r \in Requests,
                    slot'[r] # NoRequest, slot'[r].at = "served", slot'[r] # slot[r]
             PROVE  authClock < slot'[r].entry.jwt.exp
  OBVIOUS
<1>1. PICK q \in Requests : Auth!Serve(q)
  BY DEF Auth!Next, authVars, AuthInv, AuthTypes, Auth!Tick, Auth!ClusterStops,
         Auth!ClusterStarts, Auth!ServerRestarts, Auth!LoginFetchKeys,
         Auth!LoginIssue, Auth!CheckRequest, Auth!Respond, Auth!Set
<1> DEFINE t == slot[q].token
<1>2. q = r /\ Auth!Authentic(t, slot[q].cluster) /\ slot'[r].entry = vaultTokens[t]
  BY <1>1 DEF Auth!Serve, Auth!Set, AuthInv, AuthTypes
<1>3. EntryOK(vaultTokens[t]) /\ authClock < vaultTokens[t].expires
  BY <1>2 DEF Auth!Authentic, AuthInv, TokensOK
<1>4. vaultTokens[t].jwt.exp \in Int /\ authClock \in Int
  BY <1>3 DEF EntryOK, Auth!Jwts, AuthInv, AuthTypes
<1> QED
  BY <1>2, <1>3, <1>4 DEF EntryOK

\* For any clusters, requests, tokens and times: a workload is served only the
\* secrets of its own service account, in the cluster whose keys signed its
\* JWT, and never after the JWT has expired (ServeHTTP, serveLogin, authorize).
THEOREM WorkloadsServedAlways == Auth!Spec => WorkloadsServed
<1>1. Auth!Init /\ [][Auth!Next]_authVars => []AuthInv
  BY AuthInitially, AuthStep, PTL
<1>2. AuthInv => Auth!ServedInScope
  BY DEF AuthInv, SlotOK, ServedOK, Auth!ServedInScope
<1>3. AuthInv /\ [Auth!Next]_authVars =>
        [\A r \in Requests :
           slot'[r] # NoRequest /\ slot'[r].at = "served" /\ slot'[r] # slot[r] =>
              authClock < slot'[r].entry.jwt.exp]_authVars
  BY ServesInTime
<1>4. Auth!vars = authVars
  BY DEF Auth!vars, authVars
<1> QED
  BY <1>1, <1>2, <1>3, <1>4, PTL
     DEF Auth!Spec, WorkloadsServed, Auth!WorkloadsServed, Auth!ServedInTime, Auth!vars, authVars

(***************************************************************************)
(* OidcLogin.  The key of a server that runs is the one in the file; a code *)
(* that a login or a tab holds was given to that login, or is used up.     *)
(***************************************************************************)

LoginStages == {"idle", "browser", "headless", "listening", "shutdown", "exchange",
                "ok", "failed"}

LoginRecords ==
    [at : LoginStages, nonce : Nat, client : Clients \cup {"none"}, code : Nat,
     result : {"none", "code", "error"}, blocked : Nat]

Tabs == [state : Nat, client : Clients \cup {"none"}, code : Nat]

OidcTypes ==
    /\ oidcClock \in 0..MaxOidcTime
    /\ nextCode \in 1..MaxCodes + 1 /\ DOMAIN codes \subseteq 1..nextCode - 1
    /\ nonces \in Nat
    /\ login \in [Logins -> LoginRecords] /\ tabs \subseteq Tabs

\* The key of a server that runs is in the file, and so is that of every token;
\* a file that holds a key is not written again.
KeysOK ==
    /\ provider \in 0..MaxPairs /\ keyFile \in -1..MaxPairs
    /\ nextPair \in 1..MaxPairs + 1
    /\ provider # Oidc!OidcDown => provider = keyFile
    /\ \A t \in idTokens : t.key = keyFile /\ keyFile \notin {Oidc!NoKeyFile, Oidc!Torn}

\* The code was given to the login of this nonce, if the provider knows it.
CodeOf(code, nonce) ==
    /\ code < nextCode
    /\ code \in DOMAIN codes => codes[code].challenge = nonce

CodesOK ==
    /\ \A tab \in tabs : tab.code # 0 => CodeOf(tab.code, tab.state)
    /\ \A l \in Logins :
         login[l].at = "exchange" \/ login[l].result = "code" =>
            CodeOf(login[l].code, login[l].nonce)

\* One login has the port of the call-backs.
OneListens ==
    \A l, m \in Logins :
        login[l].at = "listening" /\ login[m].at = "listening" => l = m

OidcInv == OidcTypes /\ KeysOK /\ CodesOK /\ OneListens

----------------------------------------------------------------------------

\* A login at rest has no result and is of the type of all logins.
LEMMA IdleLogin ==
    Oidc!Idle \in LoginRecords /\ Oidc!Idle.at = "idle" /\ Oidc!Idle.result = "none"
BY DEF Oidc!Idle, LoginRecords, LoginStages

\* The invariant holds before any server or login runs.
LEMMA OidcInitially == Oidc!Init => OidcInv
<1> SUFFICES ASSUME Oidc!Init PROVE OidcInv
  OBVIOUS
<1>1. Oidc!Idle \in LoginRecords /\ Oidc!Idle.at = "idle" /\ Oidc!Idle.result = "none"
  BY IdleLogin
<1>2. login \in [Logins -> LoginRecords] /\ \A l \in Logins : login[l] = Oidc!Idle
  BY <1>1 DEF Oidc!Init
<1>3. OidcTypes
  BY <1>2, ConstantsAssumption DEF Oidc!Init, Oidc!OidcInit, OidcTypes
<1>4. KeysOK
  BY ConstantsAssumption
     DEF Oidc!Init, Oidc!OidcInit, KeysOK, Oidc!OidcDown, Oidc!NoKeyFile, Oidc!NoKey
<1>5. CodesOK /\ OneListens
  BY <1>1, <1>2 DEF Oidc!Init, CodesOK, OneListens
<1> QED
  BY <1>3, <1>4, <1>5 DEF OidcInv

\* A code that was given out stays what it is, or is gone (Authorize, Take).
LEMMA CodesStay ==
    ASSUME OidcTypes,
           \/ UNCHANGED <<codes, nextCode>>
           \/ \E code : Oidc!Take(code) /\ nextCode' = nextCode
           \/ \E a, b, d : Oidc!Authorize(a, b, d)
           \/ codes' = [c \in {} |-> 0] /\ nextCode' = nextCode
    PROVE  /\ nextCode' \in 1..MaxCodes + 1 /\ DOMAIN codes' \subseteq 1..nextCode' - 1
           /\ \A code \in Nat : \A nonce : CodeOf(code, nonce) => CodeOf(code, nonce)'
<1>1. CASE UNCHANGED <<codes, nextCode>>
  BY <1>1 DEF OidcTypes, CodeOf
<1>2. CASE \E code : Oidc!Take(code) /\ nextCode' = nextCode
  BY <1>2 DEF OidcTypes, CodeOf, Oidc!Take
<1>3. CASE \E a, b, d : Oidc!Authorize(a, b, d)
  <2>1. PICK a, b, d : Oidc!Authorize(a, b, d)
    BY <1>3
  <2>2. /\ nextCode' = nextCode + 1 /\ nextCode \in Nat /\ nextCode <= MaxCodes
        /\ DOMAIN codes' = DOMAIN codes \cup {nextCode}
        /\ \A c \in DOMAIN codes : c # nextCode => codes'[c] = codes[c]
    BY <2>1, ConstantsAssumption DEF Oidc!Authorize, OidcTypes
  <2> QED
    BY <2>2, ConstantsAssumption DEF OidcTypes, CodeOf
<1>4. CASE codes' = [c \in {} |-> 0] /\ nextCode' = nextCode
  BY <1>4 DEF OidcTypes, CodeOf
<1> QED
  BY <1>1, <1>2, <1>3, <1>4

\* The code of an authorization is that of the challenge (Authorize).
LEMMA NewCode ==
    ASSUME OidcTypes, NEW client, NEW redirect, NEW nonce,
           Oidc!Authorize(client, redirect, nonce)
    PROVE  nextCode \in Nat \ {0} /\ \A code : code = nextCode => CodeOf(code, nonce)'
BY DEF OidcTypes, Oidc!Authorize, CodeOf

\* One login moves, and the codes with it.
LEMMA LoginMoves ==
    ASSUME OidcInv, NEW l \in Logins, NEW v \in LoginRecords,
           login' = [login EXCEPT ![l] = v], KeysOK',
           \/ UNCHANGED <<codes, nextCode>>
           \/ \E code : Oidc!Take(code) /\ nextCode' = nextCode
           \/ \E a, b, d : Oidc!Authorize(a, b, d),
           nonces' \in Nat, oidcClock' = oidcClock,
           tabs' \subseteq Tabs, \A tab \in tabs' : tab \in tabs \/ tab.code = 0,
           v.at = "exchange" \/ v.result = "code" => CodeOf(v.code, v.nonce)',
           v.at = "listening" => \A m \in Logins \ {l} : login[m].at # "listening"
    PROVE  OidcInv'
<1>1. login'[l] = v /\ \A m \in Logins \ {l} : login'[m] = login[m]
  BY DEF OidcInv, OidcTypes
<1>2. OidcTypes'
  BY CodesStay DEF OidcInv, OidcTypes
<1>3. \A code \in Nat : \A nonce : CodeOf(code, nonce) => CodeOf(code, nonce)'
  BY CodesStay DEF OidcInv
<1>4. CodesOK'
  <2>1. ASSUME NEW tab \in tabs', tab.code # 0
        PROVE  CodeOf(tab.code, tab.state)'
    <3>1. tab \in tabs /\ tab.code \in Nat /\ CodeOf(tab.code, tab.state)
      BY <2>1 DEF OidcInv, OidcTypes, CodesOK, Tabs
    <3> QED
      BY <1>3, <3>1
  <2>2. ASSUME NEW m \in Logins, login'[m].at = "exchange" \/ login'[m].result = "code"
        PROVE  CodeOf(login[m].code, login[m].nonce)'
    <3>1. CASE m = l
      BY <1>1, <2>2, <3>1 DEF CodeOf
    <3>2. CASE m # l
      <4>1. PICK w : w = login[m]
        OBVIOUS
      <4>2. w \in LoginRecords /\ CodeOf(w.code, w.nonce)
        BY <1>1, <2>2, <3>2, <4>1 DEF OidcInv, OidcTypes, CodesOK
      <4>3. CodeOf(w.code, w.nonce)'
        BY <1>3, <4>2 DEF LoginRecords
      <4> QED
        BY <1>1, <3>2, <4>1, <4>3 DEF CodeOf
    <3> QED
      BY <3>1, <3>2
  <2> QED
    BY <2>1, <2>2 DEF CodesOK
<1>5. OneListens'
  BY <1>1 DEF OidcInv, OneListens
<1> QED
  BY <1>2, <1>4, <1>5 DEF OidcInv

\* The keys are left alone.
LEMMA KeysStay ==
    ASSUME KeysOK, UNCHANGED <<provider, keyFile, nextPair, idTokens>>
    PROVE  KeysOK'
BY DEF KeysOK

----------------------------------------------------------------------------

\* A login takes a fresh nonce, and no code of an earlier one has it.
LEMMA DiscoverStep ==
    ASSUME OidcInv, NEW l \in Logins, Oidc!Discover(l)
    PROVE  OidcInv'
<1>1. PICK client \in Clients, at \in {"failed", "headless", "browser"} :
        login' = [login EXCEPT ![l] =
                    [Oidc!Idle EXCEPT !.nonce = nonces + 1, !.client = client, !.at = at]]
  BY DEF Oidc!Discover
<1>2. PICK i : i = Oidc!Idle
  OBVIOUS
<1>3. nonces + 1 \in Nat
  BY DEF OidcInv, OidcTypes
<1>4. PICK w : w = [i EXCEPT !.nonce = nonces + 1, !.client = client, !.at = at]
  OBVIOUS
<1>5. /\ w \in LoginRecords /\ w.result = "none" /\ w.at \notin {"exchange", "listening"}
      /\ login' = [login EXCEPT ![l] = w]
  <2>1. i \in LoginRecords /\ i.result = "none"
    BY <1>2, IdleLogin
  <2>2. w \in LoginRecords /\ w.result = "none" /\ w.at = at
    BY <1>3, <1>4, <2>1 DEF LoginRecords, LoginStages
  <2> QED
    BY <1>1, <1>2, <1>4, <2>2
<1>6. KeysOK'
  BY KeysStay DEF OidcInv, Oidc!Discover, Oidc!oidcVars
<1>7. /\ UNCHANGED <<codes, nextCode>> /\ oidcClock' = oidcClock /\ nonces' \in Nat
      /\ tabs' = tabs /\ tabs \subseteq Tabs
  BY <1>3 DEF Oidc!Discover, Oidc!oidcVars, OidcInv, OidcTypes
<1> QED
  BY <1>5, <1>6, <1>7, LoginMoves

\* The port is taken by one login at a time (Listen).
LEMMA ListenStep ==
    ASSUME OidcInv, NEW l \in Logins, Oidc!Listen(l)
    PROVE  OidcInv'
<1>1. PICK at \in {"failed", "listening"} :
        /\ login' = [login EXCEPT ![l].at = at]
        /\ at = "listening" => \A m \in Logins : login[m].at # "listening"
  BY DEF Oidc!Listen, Oidc!Goto, Oidc!Fail
<1>2. PICK r : r = login[l]
  OBVIOUS
<1>3. PICK v : v = [r EXCEPT !.at = at]
  OBVIOUS
<1>4. r \in LoginRecords /\ r.at = "browser"
  BY <1>2 DEF OidcInv, OidcTypes, Oidc!Listen
<1>5. /\ v \in LoginRecords /\ v.at = at /\ v.result = r.result /\ v.code = r.code
      /\ v.nonce = r.nonce
  BY <1>3, <1>4 DEF LoginRecords, LoginStages
<1>6. login' = [login EXCEPT ![l] = v]
  BY <1>1, <1>2, <1>3
<1>7. UNCHANGED <<codes, nextCode>> /\ oidcClock' = oidcClock /\ nonces' \in Nat
  BY DEF Oidc!Listen, Oidc!oidcVars, OidcInv, OidcTypes
<1>8. r.result = "code" => CodeOf(r.code, r.nonce)
  BY <1>2 DEF OidcInv, CodesOK
<1>9. v.at = "exchange" \/ v.result = "code" => CodeOf(v.code, v.nonce)'
  BY <1>5, <1>7, <1>8 DEF CodeOf
<1>10. KeysOK'
  BY KeysStay DEF OidcInv, Oidc!Listen, Oidc!oidcVars
<1>11. /\ tabs' \subseteq tabs \cup {[state |-> r.nonce, client |-> r.client, code |-> 0]}
  BY <1>2 DEF Oidc!Listen
<1>12. tabs' \subseteq Tabs /\ \A tab \in tabs' : tab \in tabs \/ tab.code = 0
  BY <1>4, <1>11 DEF OidcInv, OidcTypes, Tabs, LoginRecords
<1>13. v.at = "listening" => \A m \in Logins \ {l} : login[m].at # "listening"
  BY <1>1, <1>5
<1> QED
  BY <1>5, <1>6, <1>7, <1>9, <1>10, <1>12, <1>13, LoginMoves

\* The provider answers at once (HeadlessAuthorize).
LEMMA HeadlessAuthorizeStep ==
    ASSUME OidcInv, NEW l \in Logins, Oidc!HeadlessAuthorize(l)
    PROVE  OidcInv'
<1>1. PICK r : r = login[l]
  OBVIOUS
<1>2. r \in LoginRecords
  BY <1>1 DEF OidcInv, OidcTypes
<1>3. /\ nonces' \in Nat /\ tabs' = tabs /\ tabs \subseteq Tabs
  BY DEF Oidc!HeadlessAuthorize, OidcInv, OidcTypes
<1>4. CASE Oidc!Fail(l) /\ UNCHANGED Oidc!oidcVars
  <2>1. PICK v : v = [r EXCEPT !.at = "failed"]
    OBVIOUS
  <2>2. login' = [login EXCEPT ![l] = v]
    BY <1>1, <1>4, <2>1 DEF Oidc!Fail, Oidc!Goto
  <2>3. /\ v \in LoginRecords /\ v.at = "failed" /\ v.result = r.result /\ v.code = r.code
        /\ v.nonce = r.nonce
    BY <1>2, <2>1 DEF LoginRecords, LoginStages
  <2>4. UNCHANGED <<codes, nextCode, oidcClock>>
    BY <1>4 DEF Oidc!oidcVars
  <2>5. v.result = "code" => CodeOf(v.code, v.nonce)'
    BY <1>1, <2>3, <2>4 DEF OidcInv, CodesOK, CodeOf
  <2>6. KeysOK'
    BY <1>4, KeysStay DEF OidcInv, Oidc!HeadlessAuthorize, Oidc!oidcVars
  <2> QED
    BY <1>3, <2>2, <2>3, <2>4, <2>5, <2>6, LoginMoves
<1>5. CASE /\ Oidc!Authorize(login[l].client, Oidc!Callback, login[l].nonce)
           /\ login' = [login EXCEPT ![l].at = "exchange", ![l].code = nextCode]
  <2>1. PICK n : n = nextCode
    OBVIOUS
  <2>2. PICK v : v = [r EXCEPT !.at = "exchange", !.code = n]
    OBVIOUS
  <2>3. Oidc!Authorize(r.client, Oidc!Callback, r.nonce)
    BY <1>1, <1>5
  <2>4. n \in Nat /\ CodeOf(n, r.nonce)'
    BY <2>1, <2>3, NewCode DEF OidcInv
  <2>5. login' = [login EXCEPT ![l] = v]
    <3>1. login' = [login EXCEPT ![l] = [login[l] EXCEPT !.at = "exchange", !.code = n]]
      BY <1>5, <2>1 DEF OidcInv, OidcTypes
    <3> QED
      BY <1>1, <2>2, <3>1
  <2>6. v \in LoginRecords /\ v.at = "exchange" /\ v.code = n /\ v.nonce = r.nonce
    BY <1>2, <2>2, <2>4 DEF LoginRecords, LoginStages
  <2>7. KeysOK' /\ oidcClock' = oidcClock
    BY <1>5, KeysStay DEF OidcInv, Oidc!HeadlessAuthorize, Oidc!Authorize
  <2>8. CodeOf(v.code, v.nonce)'
    BY <2>4, <2>6
  <2>9. \E a, b, d : Oidc!Authorize(a, b, d)
    BY <2>3
  <2> QED
    BY <1>3, <2>5, <2>6, <2>7, <2>8, <2>9, LoginMoves
<1> QED
  BY <1>4, <1>5 DEF Oidc!HeadlessAuthorize

\* A call-back is taken for its login only with the state of that login
\* (HandleCallback, ReadCallback).
LEMMA HandleCallbackStep ==
    ASSUME OidcInv, NEW l \in Logins, NEW tab \in tabs, Oidc!HandleCallback(l, tab)
    PROVE  OidcInv'
<1>1. PICK r : r = login[l]
  OBVIOUS
<1>2. r \in LoginRecords /\ r.at = "listening" /\ tab \in Tabs /\ tab.code # 0
  BY <1>1 DEF OidcInv, OidcTypes, Oidc!HandleCallback
<1>3. CodeOf(tab.code, tab.state)
  BY <1>2 DEF OidcInv, CodesOK
<1>4. PICK v : /\ login' = [login EXCEPT ![l] = v]
               /\ \/ v = [r EXCEPT !.blocked = r.blocked + 1]
                  \/ tab.state = r.nonce /\ v = [r EXCEPT !.result = "code", !.code = tab.code]
                  \/ v = [r EXCEPT !.result = "error"]
  <2>1. CASE login' = [login EXCEPT ![l].blocked = @ + 1]
    BY <1>1, <2>1
  <2>2. CASE /\ Oidc!ReadCallback(l, tab)
             /\ login' = [login EXCEPT ![l].result = "code", ![l].code = tab.code]
    <3>1. login' = [login EXCEPT ![l] = [login[l] EXCEPT !.result = "code", !.code = tab.code]]
      BY <2>2 DEF OidcInv, OidcTypes
    <3> QED
      BY <1>1, <2>2, <3>1 DEF Oidc!ReadCallback
  <2>3. CASE login' = [login EXCEPT ![l].result = "error"]
    BY <1>1, <2>3
  <2> QED
    BY <2>1, <2>2, <2>3 DEF Oidc!HandleCallback
<1>5. UNCHANGED <<codes, nextCode, oidcClock, provider, keyFile, nextPair, tabs, nonces, idTokens>>
  BY DEF Oidc!HandleCallback, Oidc!oidcVars
<1>6. r.result = "code" => CodeOf(r.code, r.nonce)
  BY <1>1 DEF OidcInv, CodesOK
<1>7. /\ v \in LoginRecords /\ v.at = "listening" /\ v.nonce = r.nonce
      /\ v.result = "code" => \/ v.code = r.code /\ r.result = "code"
                              \/ v.code = tab.code /\ tab.state = r.nonce
  <2>1. tab.code \in Nat /\ tab.state \in Nat
    BY <1>2 DEF Tabs
  <2>2. CASE v = [r EXCEPT !.blocked = r.blocked + 1]
    BY <1>2, <2>2 DEF LoginRecords
  <2>3. CASE tab.state = r.nonce /\ v = [r EXCEPT !.result = "code", !.code = tab.code]
    BY <1>2, <2>1, <2>3 DEF LoginRecords
  <2>4. CASE v = [r EXCEPT !.result = "error"]
    BY <1>2, <2>4 DEF LoginRecords
  <2> QED
    BY <1>4, <2>2, <2>3, <2>4
<1>8. v.at = "exchange" \/ v.result = "code" => CodeOf(v.code, v.nonce)'
  BY <1>3, <1>5, <1>6, <1>7 DEF CodeOf
<1>9. KeysOK'
  BY <1>5, KeysStay DEF OidcInv
<1>10. nonces' \in Nat /\ tabs' \subseteq Tabs
  BY <1>5 DEF OidcInv, OidcTypes
<1>11. \A m \in Logins \ {l} : login[m].at # "listening"
  BY <1>1, <1>2 DEF OidcInv, OneListens
<1> QED
  BY <1>4, <1>5, <1>7, <1>8, <1>9, <1>10, <1>11, LoginMoves

\* A call-back or the end of the context is chosen; the port is closed
\* (Select, Shutdown).
LEMMA SelectStep ==
    ASSUME OidcInv, NEW l \in Logins, Oidc!Select(l) \/ Oidc!Shutdown(l)
    PROVE  OidcInv'
<1>1. PICK r : r = login[l]
  OBVIOUS
<1>2. r \in LoginRecords /\ (r.result = "code" => CodeOf(r.code, r.nonce))
  BY <1>1 DEF OidcInv, OidcTypes, CodesOK
<1>3. PICK v : /\ login' = [login EXCEPT ![l] = v]
               /\ \/ v = [r EXCEPT !.at = "shutdown"]
                  \/ v = [r EXCEPT !.at = "shutdown", !.result = "error"]
                  \/ r.result = "code" /\ v = [r EXCEPT !.at = "exchange"]
                  \/ v = [r EXCEPT !.at = "failed"]
  <2>1. CASE login' = [login EXCEPT ![l].at = "shutdown", ![l].result = "error"]
    <3>1. login' = [login EXCEPT ![l] = [login[l] EXCEPT !.at = "shutdown", !.result = "error"]]
      BY <2>1 DEF OidcInv, OidcTypes
    <3> QED
      BY <1>1, <3>1
  <2>2. CASE Oidc!Goto(l, "shutdown")
    BY <1>1, <2>2 DEF Oidc!Goto
  <2>3. CASE Oidc!Shutdown(l)
    BY <1>1, <2>3 DEF Oidc!Shutdown, Oidc!Goto
  <2> QED
    BY <2>1, <2>2, <2>3 DEF Oidc!Select
<1>4. /\ v \in LoginRecords /\ v.at # "listening" /\ v.nonce = r.nonce /\ v.code = r.code
      /\ v.at = "exchange" \/ v.result = "code" => r.result = "code"
  BY <1>2, <1>3 DEF LoginRecords, LoginStages
<1>5. UNCHANGED <<codes, nextCode, oidcClock, provider, keyFile, nextPair, tabs, nonces, idTokens>>
  BY DEF Oidc!Select, Oidc!Shutdown, Oidc!oidcVars
<1>6. v.at = "exchange" \/ v.result = "code" => CodeOf(v.code, v.nonce)'
  BY <1>2, <1>4, <1>5 DEF CodeOf
<1>7. KeysOK'
  BY <1>5, KeysStay DEF OidcInv
<1>8. nonces' \in Nat /\ tabs' \subseteq Tabs
  BY <1>5 DEF OidcInv, OidcTypes
<1> QED
  BY <1>3, <1>4, <1>5, <1>6, <1>7, <1>8, LoginMoves

\* A token is signed with the key that the server has (Exchange).
LEMMA ExchangeStep ==
    ASSUME OidcInv, NEW l \in Logins, Oidc!Exchange(l)
    PROVE  OidcInv'
<1>1. PICK r : r = login[l]
  OBVIOUS
<1>2. r \in LoginRecords /\ (r.result = "code" => CodeOf(r.code, r.nonce))
  BY <1>1 DEF OidcInv, OidcTypes, CodesOK
<1>3. PICK v : /\ login' = [login EXCEPT ![l] = v]
               /\ v = [r EXCEPT !.at = "ok"] \/ v = [r EXCEPT !.at = "failed"]
  BY <1>1 DEF Oidc!Exchange, Oidc!Goto, Oidc!Fail
<1>4. /\ v \in LoginRecords /\ v.at \notin {"listening", "exchange"}
      /\ v.nonce = r.nonce /\ v.code = r.code /\ v.result = r.result
  BY <1>2, <1>3 DEF LoginRecords, LoginStages
<1>5. \/ UNCHANGED <<codes, nextCode>>
      \/ \E code : Oidc!Take(code) /\ nextCode' = nextCode
  BY DEF Oidc!Exchange
<1>6. UNCHANGED <<oidcClock, provider, keyFile, nextPair, tabs, nonces>>
  BY DEF Oidc!Exchange
<1>7. v.result = "code" => CodeOf(v.code, v.nonce)'
  BY <1>2, <1>4, <1>5, CodesStay DEF OidcInv, LoginRecords
<1>8. KeysOK'
  <2>1. \A t \in idTokens' : t \in idTokens \/ (t.key = provider /\ provider # Oidc!OidcDown)
    BY DEF Oidc!Exchange
  <2>2. provider # Oidc!OidcDown => keyFile \notin {Oidc!NoKeyFile, Oidc!Torn}
    BY ConstantsAssumption
       DEF OidcInv, KeysOK, Oidc!OidcDown, Oidc!NoKeyFile, Oidc!NoKey, Oidc!Torn
  <2> QED
    BY <1>6, <2>1, <2>2 DEF OidcInv, KeysOK
<1>9. nonces' \in Nat /\ tabs' \subseteq Tabs
  BY <1>6 DEF OidcInv, OidcTypes
<1> QED
  BY <1>3, <1>4, <1>5, <1>6, <1>7, <1>8, <1>9, LoginMoves

\* No login moves: the code that a tab is given is that of its state.
LEMMA ServerMoves ==
    ASSUME OidcInv, UNCHANGED <<login, nonces>>, KeysOK',
           \/ UNCHANGED <<codes, nextCode>>
           \/ \E a, b, d : Oidc!Authorize(a, b, d)
           \/ codes' = [c \in {} |-> 0] /\ nextCode' = nextCode,
           oidcClock' \in 0..MaxOidcTime, tabs' \subseteq Tabs,
           \A tab \in tabs' : tab \in tabs \/ CodeOf(tab.code, tab.state)'
    PROVE  OidcInv'
<1>1. OidcTypes'
  BY CodesStay DEF OidcInv, OidcTypes
<1>2. \A code \in Nat : \A nonce : CodeOf(code, nonce) => CodeOf(code, nonce)'
  BY CodesStay DEF OidcInv
<1>3. ASSUME NEW tab \in tabs', tab.code # 0
      PROVE  CodeOf(tab.code, tab.state)'
  <2>1. CASE tab \in tabs
    <3>1. tab.code \in Nat /\ CodeOf(tab.code, tab.state)
      BY <1>3, <2>1 DEF OidcInv, OidcTypes, CodesOK, Tabs
    <3> QED
      BY <1>2, <3>1
  <2> QED
    BY <2>1
<1>4. ASSUME NEW m \in Logins, login[m].at = "exchange" \/ login[m].result = "code"
      PROVE  CodeOf(login[m].code, login[m].nonce)'
  <2>1. PICK w : w = login[m]
    OBVIOUS
  <2>2. w \in LoginRecords /\ CodeOf(w.code, w.nonce)
    BY <1>4, <2>1 DEF OidcInv, OidcTypes, CodesOK
  <2>3. CodeOf(w.code, w.nonce)'
    BY <1>2, <2>2 DEF LoginRecords
  <2> QED
    BY <2>1, <2>3 DEF CodeOf
<1>5. CodesOK' /\ OneListens'
  BY <1>3, <1>4 DEF CodesOK, OneListens, OidcInv
<1> QED
  BY <1>1, <1>5 DEF OidcInv

\* A reloaded tab draws a fresh code, for the login that opened it.
LEMMA TabAuthorizesStep ==
    ASSUME OidcInv, NEW tab \in tabs, Oidc!TabAuthorizes(tab)
    PROVE  OidcInv'
<1>1. PICK n : n = nextCode
  OBVIOUS
<1>2. PICK new : new = [tab EXCEPT !.code = n]
  OBVIOUS
<1>3. tab \in Tabs /\ Oidc!Authorize(tab.client, Oidc!Callback, tab.state)
  BY DEF OidcInv, OidcTypes, Oidc!TabAuthorizes
<1>4. n \in Nat /\ CodeOf(n, tab.state)'
  BY <1>1, <1>3, NewCode DEF OidcInv
<1>5. new \in Tabs /\ new.code = n /\ new.state = tab.state
  BY <1>2, <1>3, <1>4 DEF Tabs
<1>6. tabs' = tabs \cup {new}
  BY <1>1, <1>2 DEF Oidc!TabAuthorizes
<1>7. tabs' \subseteq Tabs
  BY <1>5, <1>6 DEF OidcInv, OidcTypes
<1>8. \A t \in tabs' : t \in tabs \/ CodeOf(t.code, t.state)'
  <2>1. CodeOf(new.code, new.state)'
    BY <1>4, <1>5
  <2> QED
    BY <1>6, <2>1
<1>9. KeysOK' /\ oidcClock' \in 0..MaxOidcTime
  BY <1>3, KeysStay DEF OidcInv, OidcTypes, Oidc!TabAuthorizes, Oidc!Authorize
<1> QED
  BY <1>3, <1>7, <1>8, <1>9, ServerMoves DEF Oidc!TabAuthorizes

\* A server starts with the key of the file, or makes the only one
\* (LoadOrCreateKeypair); what it signed stays valid when it stops.
LEMMA ServerStep ==
    ASSUME OidcInv, Oidc!Server
    PROVE  OidcInv'
<1>1. UNCHANGED <<login, nonces, tabs, idTokens>> /\ tabs' \subseteq Tabs
  BY DEF Oidc!Server, OidcInv, OidcTypes
<1>2. CASE Oidc!ProviderStarts
  <2>1. KeysOK'
    BY <1>1, <1>2, ConstantsAssumption
       DEF Oidc!ProviderStarts, Oidc!LoadOrCreateKeypair, OidcInv, KeysOK,
           Oidc!OidcDown, Oidc!NoKeyFile, Oidc!NoKey, Oidc!Torn
  <2> QED
    BY <1>1, <1>2, <2>1, ServerMoves DEF Oidc!ProviderStarts, OidcInv, OidcTypes
<1>3. CASE Oidc!ProviderStops
  <2>1. KeysOK'
    BY <1>1, <1>3, ConstantsAssumption
       DEF Oidc!ProviderStops, OidcInv, KeysOK, Oidc!OidcDown, Oidc!NoKey
  <2> QED
    BY <1>1, <1>3, <2>1, ServerMoves DEF Oidc!ProviderStops, OidcInv, OidcTypes
<1>4. CASE Oidc!Tick
  <2>1. KeysOK' /\ oidcClock' \in 0..MaxOidcTime
    BY <1>1, <1>4, KeysStay, ConstantsAssumption DEF Oidc!Tick, OidcInv, OidcTypes
  <2> QED
    BY <1>1, <1>4, <2>1, ServerMoves DEF Oidc!Tick
<1> QED
  BY <1>2, <1>3, <1>4 DEF Oidc!Server

\* Every step keeps the invariant.
LEMMA OidcStep == OidcInv /\ [Oidc!Next]_(Oidc!vars) => OidcInv'
<1> SUFFICES ASSUME OidcInv, [Oidc!Next]_(Oidc!vars) PROVE OidcInv'
  OBVIOUS
<1>1. CASE UNCHANGED Oidc!vars
  <2>1. /\ UNCHANGED <<login, nonces, codes, nextCode, oidcClock, tabs>>
        /\ UNCHANGED <<provider, keyFile, nextPair, idTokens>>
    BY <1>1 DEF Oidc!vars, Oidc!oidcVars
  <2>2. KeysOK' /\ oidcClock' \in 0..MaxOidcTime /\ tabs' \subseteq Tabs
    BY <2>1, KeysStay DEF OidcInv, OidcTypes
  <2> QED
    BY <2>1, <2>2, ServerMoves
<1>2. CASE Oidc!Next
  BY <1>2, DiscoverStep, ListenStep, HeadlessAuthorizeStep, HandleCallbackStep, SelectStep,
     ExchangeStep, TabAuthorizesStep, ServerStep DEF Oidc!Next, Oidc!Step
<1> QED
  BY <1>1, <1>2

\* For any logins, clients and restarts of the server: a login spends no code
\* but its own, and every token that was handed out verifies against the key
\* that a running server publishes (readCallback, LoadOrCreateKeypair).
THEOREM LoginsAreSound == Oidc!Spec => []LoginsSound
<1>1. OidcInv => LoginsSound
  <2> SUFFICES ASSUME OidcInv PROVE LoginsSound
    OBVIOUS
  <2>1. Oidc!SpendsOwnCode
    BY DEF OidcInv, CodesOK, CodeOf, Oidc!SpendsOwnCode
  <2>2. Oidc!TokensVerify
    BY DEF OidcInv, KeysOK, Oidc!TokensVerify
  <2> QED
    BY <2>1, <2>2 DEF LoginsSound, Oidc!LoginsSound
<1> QED
  BY <1>1, OidcInitially, OidcStep, PTL DEF Oidc!Spec

(***************************************************************************)
(* Credentials.  Between the issue of a refresh token and its storage one  *)
(* process alone has it: nobody renews it, and no entry of the keyring holds *)
(* it.  So a token that a renewal makes void is stored for the subject of  *)
(* that renewal or not at all; it is lost when the outcome of the renewal  *)
(* is not stored.                                                          *)
(***************************************************************************)

Tokens == 0..MaxRefreshTokens
SecretsOfSubjects ==
    [kind : {"secret"}, sub : Creds!Subjects, fresh : BOOLEAN, rt : Tokens] \cup {Creds!None}
Views == [Creds!Subjects -> Creds!Metas \cup {Creds!None}]
Saving == {"saveFile", "written", "saveRing"}
ProcStages == {"read", "refresh", "exchange", "browser", "done", "list", "drop", "forget"}
                 \cup Saving
Commanded ==
    [at : ProcStages, op : {"hook", "login", "service", "logout"}, sub : Creds!Subjects,
     view : Views, old : SecretsOfSubjects, new : SecretsOfSubjects,
     key : Creds!Subjects, todo : SUBSET Creds!Subjects]
ProcRecords == Commanded \cup {Creds!Idle}

CredsTypes ==
    /\ file \in Views \cup {Creds!Torn}
    /\ ring \in [Creds!Subjects -> SecretsOfSubjects]
    /\ nextRefresh \in 1..MaxRefreshTokens + 1 /\ live \subseteq 1..nextRefresh - 1
    /\ rotates \in BOOLEAN /\ lost \subseteq 1..nextRefresh - 1 /\ runs \in 0..MaxProcs
    /\ proc \in [Procs -> ProcRecords]

\* The metadata of a service, and nothing else, names a renewal source.
ViewOK(v) == \A s \in Creds!Subjects : v[s] \in {Creds!None, Creds!MetaOf(s)}

\* A secret whose refresh token is t.
Carries(sec, t) == sec # Creds!None /\ sec.rt = t /\ t # 0

Issued(sec) == sec # Creds!None => sec.rt < nextRefresh

\* How a process came where it is, and what it has.
ProcOK(a) ==
    a # Creds!Idle =>
      /\ ViewOK(a.view) /\ Issued(a.old) /\ Issued(a.new)
      /\ a.old # Creds!None => a.old.rt # 0
      /\ a.at \in {"read", "refresh"} => a.op = "hook"
      /\ a.at = "exchange" => a.op \in {"hook", "service"}
      /\ a.op = "hook" /\ a.at \in {"read", "refresh", "exchange"} => a.key = a.sub
      /\ a.op = "hook" /\ a.sub \in Services =>
           /\ a.at \notin {"refresh", "browser"} /\ a.old = Creds!None
           /\ a.at \in Saving => a.key = a.sub
           /\ a.at = "done" => a.new # Creds!None /\ a.new.sub = a.sub
      /\ a.at = "refresh" => Carries(a.old, a.old.rt)
      /\ a.at \in Saving => /\ a.new # Creds!None /\ a.new.sub = a.key
                            /\ a.new.rt # 0 => a.new.rt \in live

RingOK ==
    /\ \A s \in Creds!Subjects :
         ring[s] # Creds!None => ring[s].sub = s /\ ring[s].rt < nextRefresh
    /\ file # Creds!Torn => ViewOK(file)
    /\ ~rotates => live = 1..nextRefresh - 1

\* Nobody else has a refresh token that is about to be stored.
NewAlone(q) ==
    proc[q].at \in Saving => \A t \in Tokens : Carries(proc[q].new, t) =>
      /\ \A s \in Creds!Subjects : ~Carries(ring[s], t)
      /\ \A o \in Procs \ {q} : /\ proc[o].at \in Saving => ~Carries(proc[o].new, t)
                                /\ proc[o].at = "refresh" => ~Carries(proc[o].old, t)

\* A token that is about to be used is stored for its subject or not at all.
OldAlone(q) ==
    proc[q].at = "refresh" => \A t \in Tokens, s \in Creds!Subjects :
      Carries(proc[q].old, t) /\ Carries(ring[s], t) => s = proc[q].sub

RingApart ==
    \A s, u \in Creds!Subjects, t \in Tokens : Carries(ring[s], t) /\ Carries(ring[u], t) => s = u

Apart == rotates => RingApart /\ \A q \in Procs : NewAlone(q) /\ OldAlone(q)

CredsInv ==
    /\ CredsTypes /\ RingOK /\ \A q \in Procs : ProcOK(proc[q])
    /\ Apart /\ Creds!StoredRefreshIsLive

----------------------------------------------------------------------------

\* The invariant holds while nothing is stored and nobody runs.
LEMMA CredsInitially == Creds!Init => CredsInv
<1> SUFFICES ASSUME Creds!Init PROVE CredsInv
  OBVIOUS
<1>1. /\ file \in Views /\ ring \in [Creds!Subjects -> SecretsOfSubjects]
      /\ \A s \in Creds!Subjects : file[s] = Creds!None /\ ring[s] = Creds!None
  BY DEF Creds!Init, Views, SecretsOfSubjects
<1>2. file # Creds!Torn => ViewOK(file)
  BY <1>1 DEF ViewOK
<1>3. proc \in [Procs -> ProcRecords] /\ \A q \in Procs : proc[q] = Creds!Idle
  BY DEF Creds!Init, ProcRecords
<1>4. CredsTypes
  <2>1. nextRefresh \in 1..MaxRefreshTokens + 1 /\ live \subseteq 1..nextRefresh - 1
    BY ConstantsAssumption DEF Creds!Init
  <2>2. rotates \in BOOLEAN /\ lost \subseteq 1..nextRefresh - 1
    BY DEF Creds!Init
  <2>3. runs \in 0..MaxProcs
    BY ConstantsAssumption DEF Creds!Init
  <2> QED
    BY <1>1, <1>3, <2>1, <2>2, <2>3 DEF CredsTypes
<1>5. RingOK
  BY <1>1, <1>2, ConstantsAssumption DEF RingOK, Creds!Init
<1>6. \A q \in Procs : ProcOK(proc[q])
  BY <1>3 DEF ProcOK
<1>7. Apart
  BY <1>1, <1>3 DEF Apart, RingApart, NewAlone, OldAlone, Carries, Creds!Idle, Saving
<1>8. Creds!StoredRefreshIsLive
  BY <1>1 DEF Creds!StoredRefreshIsLive
<1> QED
  BY <1>4, <1>5, <1>6, <1>7, <1>8 DEF CredsInv

\* The keyring only forgets, or an entry gets stale.
RingForgets ==
    /\ ring' \in [Creds!Subjects -> SecretsOfSubjects]
    /\ \A s \in Creds!Subjects : ring'[s] # Creds!None =>
         ring[s] # Creds!None /\ ring'[s].sub = ring[s].sub /\ ring'[s].rt = ring[s].rt

\* A keyring that only forgets carries no token that it did not carry.
LEMMA ForgottenCarriesNothing ==
    ASSUME RingForgets
    PROVE  \A s \in Creds!Subjects, t \in Tokens : Carries(ring'[s], t) => Carries(ring[s], t)
BY DEF RingForgets, Carries

\* A process at rest owns nothing; every other one has a subject.
LEMMA CredsIdle ==
    /\ Creds!Idle \in ProcRecords /\ Creds!Idle.at = "idle" /\ ProcOK(Creds!Idle)
    /\ \A a \in ProcRecords : a.at # "idle" => a \in Commanded /\ a # Creds!Idle
BY DEF ProcRecords, Creds!Idle, ProcOK

\* A process moves and issues nothing: it stores nothing new, stops storing
\* only where the token that it made void is recorded as lost, and takes what
\* is stored.
LEMMA ProcMoves ==
    ASSUME CredsInv, NEW p \in Procs, NEW v \in ProcRecords,
           proc' = [proc EXCEPT ![p] = v], ProcOK(v),
           UNCHANGED <<live, nextRefresh, rotates>>, RingForgets,
           file' \in Views \cup {Creds!Torn}, file' # Creds!Torn => ViewOK(file'),
           runs' \in 0..MaxProcs, lost' \subseteq 1..nextRefresh - 1, lost \subseteq lost',
           Creds!Unsaved(p) =>
              \/ proc[p].old.rt \in lost'
              \/ /\ v.at \in Saving /\ v.old = proc[p].old /\ v.new = proc[p].new
                 /\ v.key = proc[p].key,
           rotates /\ v.at \in Saving =>
              v.new.rt = 0 \/ (proc[p].at \in Saving /\ v.new = proc[p].new),
           v.at = "refresh" => v.old = ring[v.sub]
    PROVE  CredsInv'
<1>1. proc'[p] = v /\ \A q \in Procs : q # p => proc'[q] = proc[q]
  BY DEF CredsInv, CredsTypes
<1>2. CredsTypes'
  BY DEF CredsInv, CredsTypes, RingForgets
<1>3. RingOK'
  <2>1. ViewOK(file)' <=> ViewOK(file')
    BY DEF ViewOK
  <2> QED
    BY <2>1 DEF CredsInv, RingOK, RingForgets
<1>4. ASSUME NEW q \in Procs PROVE ProcOK(proc[q])'
  <2>1. PICK a : a = proc'[q]
    OBVIOUS
  <2>2. ProcOK(a)
    BY <1>1, <2>1 DEF CredsInv
  <2> QED
    BY <2>1, <2>2 DEF ProcOK, Issued, ViewOK
<1>5. Apart'
  <2> SUFFICES ASSUME rotates
               PROVE  RingApart' /\ \A q \in Procs : NewAlone(q)' /\ OldAlone(q)'
    BY DEF Apart
  <2>1. RingApart /\ \A q \in Procs : NewAlone(q) /\ OldAlone(q)
    BY DEF CredsInv, Apart
  <2>2. \A s \in Creds!Subjects, t \in Tokens : Carries(ring'[s], t) => Carries(ring[s], t)
    BY ForgottenCarriesNothing
  <2>3. RingApart'
    BY <2>1, <2>2 DEF RingApart, Carries
  <2>4. v.at = "refresh" => v.sub \in Creds!Subjects
    BY DEF ProcRecords, Commanded, Creds!Idle
  <2>5. \A t \in Tokens : v.at \in Saving /\ Carries(v.new, t) =>
           proc[p].at \in Saving /\ Carries(proc[p].new, t)
    BY DEF Carries
  <2>6. \A t \in Tokens : v.at = "refresh" /\ Carries(v.old, t) => Carries(ring[v.sub], t)
    OBVIOUS
  <2>7. ASSUME NEW q \in Procs, proc'[q].at \in Saving, NEW t \in Tokens,
               Carries(proc'[q].new, t)
        PROVE  /\ \A s \in Creds!Subjects : ~Carries(ring'[s], t)
               /\ \A o \in Procs \ {q} : /\ proc'[o].at \in Saving => ~Carries(proc'[o].new, t)
                                         /\ proc'[o].at = "refresh" => ~Carries(proc'[o].old, t)
    <3>1. proc[q].at \in Saving /\ Carries(proc[q].new, t)
      BY <1>1, <2>5, <2>7
    <3>2. /\ \A s \in Creds!Subjects : ~Carries(ring[s], t)
          /\ \A o \in Procs \ {q} : /\ proc[o].at \in Saving => ~Carries(proc[o].new, t)
                                    /\ proc[o].at = "refresh" => ~Carries(proc[o].old, t)
      BY <2>1, <3>1 DEF NewAlone
    <3> QED
      BY <1>1, <2>2, <2>4, <2>5, <2>6, <3>2
  <2>8. ASSUME NEW q \in Procs, proc'[q].at = "refresh", NEW t \in Tokens,
               NEW s \in Creds!Subjects, Carries(proc'[q].old, t), Carries(ring'[s], t)
        PROVE  s = proc'[q].sub
    <3>1. Carries(ring[s], t)
      BY <2>2, <2>8
    <3>2. CASE q = p
      <4>1. v.sub \in Creds!Subjects /\ Carries(ring[v.sub], t)
        BY <1>1, <2>4, <2>6, <2>8, <3>2
      <4> QED
        BY <1>1, <2>1, <3>1, <3>2, <4>1 DEF RingApart
    <3>3. CASE q # p
      BY <1>1, <2>1, <2>8, <3>1, <3>3 DEF OldAlone
    <3> QED
      BY <3>2, <3>3
  <2>9. \A q \in Procs : NewAlone(q)'
    BY <2>7 DEF NewAlone, Carries
  <2>10. \A q \in Procs : OldAlone(q)'
    BY <2>8 DEF OldAlone, Carries
  <2> QED
    BY <2>3, <2>9, <2>10
<1>6. Creds!StoredRefreshIsLive'
  <2> SUFFICES ASSUME NEW s \in Creds!Subjects, ring'[s] # Creds!None, ring'[s].rt # 0,
                      ring'[s].rt \notin live, ring'[s].rt \notin lost'
               PROVE  \E q \in Procs :
                         Creds!Unsaved(q)' /\ proc'[q].key = s /\ proc'[q].old.rt = ring'[s].rt
    BY DEF Creds!StoredRefreshIsLive, Creds!NoToken
  <2>0. ring[s] # Creds!None /\ ring[s].rt = ring'[s].rt
    BY DEF RingForgets
  <2>1. PICK q \in Procs :
           Creds!Unsaved(q) /\ proc[q].key = s /\ proc[q].old.rt = ring[s].rt
    BY <2>0 DEF CredsInv, Creds!StoredRefreshIsLive, Creds!NoToken
  <2>2. Creds!Unsaved(q)' /\ proc'[q].key = s /\ proc'[q].old.rt = ring'[s].rt
    <3>1. CASE q = p
      BY <1>1, <2>0, <2>1, <3>1 DEF Creds!Unsaved, Saving
    <3>2. CASE q # p
      BY <1>1, <2>0, <2>1, <3>2 DEF Creds!Unsaved
    <3> QED
      BY <3>1, <3>2
  <2> QED
    BY <2>2
<1> QED
  BY <1>2, <1>3, <1>4, <1>5, <1>6 DEF CredsInv

\* An entry of the keyring gets stale.
LEMMA RingStep ==
    ASSUME CredsInv, RingForgets,
           UNCHANGED <<file, live, nextRefresh, rotates, proc, runs, lost>>
    PROVE  CredsInv'
<1>1. CredsTypes'
  BY DEF CredsInv, CredsTypes, RingForgets
<1>2. RingOK'
  BY DEF CredsInv, RingOK, RingForgets, ViewOK
<1>3. \A q \in Procs : ProcOK(proc[q])'
  BY DEF CredsInv, ProcOK, Issued, ViewOK
<1>4. \A s \in Creds!Subjects, t \in Tokens : Carries(ring'[s], t) => Carries(ring[s], t)
  BY ForgottenCarriesNothing
<1>5. Apart'
  <2>1. rotates => RingApart'
    BY <1>4 DEF CredsInv, Apart, RingApart, Carries
  <2>2. rotates => \A q \in Procs : NewAlone(q)' /\ OldAlone(q)'
    BY <1>4 DEF CredsInv, Apart, NewAlone, OldAlone, Carries
  <2> QED
    BY <2>1, <2>2 DEF Apart
<1>6. Creds!StoredRefreshIsLive'
  BY DEF CredsInv, RingForgets, Creds!StoredRefreshIsLive, Creds!Unsaved
<1> QED
  BY <1>1, <1>2, <1>3, <1>5, <1>6 DEF CredsInv

----------------------------------------------------------------------------

\* A process that starts holds no token yet.
LEMMA StartSteps ==
    ASSUME CredsInv, NEW p \in Procs, NEW s \in Creds!Subjects,
           \/ Creds!KubectlHook(p, s) \/ Creds!DockerHook(p, s) \/ Creds!PushToken(p, s)
           \/ Creds!LoginCommand(p, s) \/ Creds!LogoutCommand(p, s)
    PROVE  CredsInv'
<1>1. PICK op \in {"hook", "login", "service", "logout"},
           at \in {"read", "browser", "exchange", "list"} :
        /\ Creds!Start(p, op, at, s)
        /\ at = "read" => op = "hook"
        /\ at = "exchange" => op = "service"
        /\ op = "hook" => at = "read"
  BY DEF Creds!KubectlHook, Creds!DockerHook, Creds!PushToken, Creds!LoginCommand,
         Creds!LogoutCommand
<1>2. /\ Creds!At(p, "idle") /\ UNCHANGED <<rotates, file, ring, live, nextRefresh, lost>>
      /\ runs' \in 0..MaxProcs
  BY <1>1, ConstantsAssumption DEF Creds!Start, CredsInv, CredsTypes
<1>3. proc[p].at = "idle" /\ proc[p] \in ProcRecords
  BY <1>2 DEF Creds!At, CredsInv, CredsTypes
<1>4. PICK v \in ProcRecords :
        /\ proc' = [proc EXCEPT ![p] = v] /\ ProcOK(v)
        /\ v.at \notin Saving /\ v.at # "refresh"
  <2>1. CASE file = Creds!Torn
    <3>1. proc' = [proc EXCEPT ![p] = proc[p]]
      BY <1>1, <2>1 DEF Creds!Start, CredsInv, CredsTypes
    <3> QED
      BY <1>3, <3>1 DEF CredsInv, Saving
  <2>2. CASE file # Creds!Torn
    <3>1. PICK v : v = [at |-> at, op |-> op, sub |-> s, view |-> file, old |-> Creds!None,
                        new |-> Creds!None, key |-> s, todo |-> {}]
      OBVIOUS
    <3>2. file \in Views /\ ViewOK(file)
      BY <2>2 DEF CredsInv, CredsTypes, RingOK
    <3>3. v \in Commanded
      BY <3>1, <3>2 DEF Commanded, ProcStages, SecretsOfSubjects
    <3>4. ProcOK(v)
      BY <1>1, <3>1, <3>2 DEF ProcOK, Saving, Issued
    <3>5. proc' = [proc EXCEPT ![p] = v]
      BY <1>1, <2>2, <3>1 DEF Creds!Start, Creds!Set
    <3>6. v \in ProcRecords /\ v.at \notin Saving /\ v.at # "refresh"
      BY <3>1, <3>3 DEF ProcRecords, Saving
    <3> QED
      BY <3>4, <3>5, <3>6
  <2> QED
    BY <2>1, <2>2
<1>5. ~Creds!Unsaved(p) /\ RingForgets
  BY <1>2, <1>3 DEF Creds!Unsaved, RingForgets, CredsInv, CredsTypes
<1>6. /\ file' \in Views \cup {Creds!Torn} /\ (file' # Creds!Torn => ViewOK(file'))
      /\ lost' \subseteq 1..nextRefresh - 1 /\ lost \subseteq lost'
  BY <1>2 DEF CredsInv, CredsTypes, RingOK
<1> QED
  BY <1>2, <1>4, <1>5, <1>6, ProcMoves

\* What does not change when only a process moves.
LEMMA NothingElse ==
    ASSUME CredsInv, UNCHANGED <<rotates, file, ring, live, nextRefresh, runs, lost>>
    PROVE  /\ RingForgets /\ runs' \in 0..MaxProcs
           /\ file' \in Views \cup {Creds!Torn} /\ (file' # Creds!Torn => ViewOK(file'))
           /\ lost' \subseteq 1..nextRefresh - 1 /\ lost \subseteq lost'
BY DEF CredsInv, CredsTypes, RingOK, RingForgets

\* What a process made void that is not going to store the outcome.
LEMMA VoidedIsIssued ==
    ASSUME CredsInv, NEW p \in Procs
    PROVE  /\ Creds!Voided(p) \subseteq 1..nextRefresh - 1
           /\ Creds!Unsaved(p) => proc[p].old.rt \in Creds!Voided(p)
<1>1. SUFFICES ASSUME Creds!Unsaved(p) PROVE proc[p].old.rt \in 1..nextRefresh - 1
  BY DEF Creds!Voided
<1>2. PICK old : old = proc[p].old
  OBVIOUS
<1>3. /\ proc[p] # Creds!Idle /\ ProcOK(proc[p]) /\ proc[p] \in Commanded /\ old # Creds!None
  BY <1>1, <1>2, CredsIdle DEF CredsInv, CredsTypes, Creds!Unsaved
<1>4. old \in SecretsOfSubjects /\ old.rt # 0 /\ old.rt < nextRefresh
  BY <1>2, <1>3 DEF Commanded, ProcOK, Issued
<1>5. old.rt \in Nat /\ nextRefresh \in Nat
  BY <1>3, <1>4, ConstantsAssumption DEF SecretsOfSubjects, Tokens, CredsInv, CredsTypes
<1> QED
  BY <1>2, <1>4, <1>5

\* A process ends, where nothing of it is lost unnoticed.
LEMMA CredsEndStep ==
    ASSUME CredsInv, NEW p \in Procs, Creds!End(p),
           UNCHANGED <<rotates, live, nextRefresh, runs>>, RingForgets,
           file' \in Views \cup {Creds!Torn}, file' # Creds!Torn => ViewOK(file'),
           lost' \subseteq 1..nextRefresh - 1, lost \subseteq lost',
           Creds!Unsaved(p) => proc[p].old.rt \in lost'
    PROVE  CredsInv'
<1>1. PICK v : v = Creds!Idle
  OBVIOUS
<1>2. v \in ProcRecords /\ v.at = "idle" /\ ProcOK(v) /\ proc' = [proc EXCEPT ![p] = v]
  BY <1>1, CredsIdle DEF Creds!End, Creds!Set
<1>3. runs' \in 0..MaxProcs
  BY DEF CredsInv, CredsTypes
<1> QED
  BY <1>2, <1>3, ProcMoves DEF Saving

\* A process that goes to the browser has no renewal behind it any more.
LEMMA BrowseStep ==
    ASSUME CredsInv, NEW p \in Procs, proc[p] # Creds!Idle,
           proc[p].op = "hook" => proc[p].sub \notin Services,
           NEW view \in Views, ViewOK(view), Creds!Browse(p, view),
           UNCHANGED <<rotates, file, ring, live, nextRefresh, runs>>,
           lost' \subseteq 1..nextRefresh - 1, lost \subseteq lost',
           Creds!Unsaved(p) => proc[p].old.rt \in lost'
    PROVE  CredsInv'
<1>1. PICK a : a = proc[p]
  OBVIOUS
<1>2. a \in Commanded /\ ProcOK(a) /\ a # Creds!Idle
  BY <1>1 DEF CredsInv, CredsTypes, ProcRecords
<1>3. PICK v : v = [a EXCEPT !.at = "browser", !.old = Creds!None, !.view = view]
  OBVIOUS
<1>4. /\ v \in Commanded /\ v.at = "browser" /\ v.op = a.op /\ v.sub = a.sub
      /\ v.new = a.new /\ v.old = Creds!None /\ v.view = view
  BY <1>2, <1>3 DEF Commanded, ProcStages, SecretsOfSubjects
<1>5. Issued(a.new)
  BY <1>2 DEF ProcOK
<1>6. v \in ProcRecords /\ ProcOK(v) /\ v.at \notin Saving /\ v.at # "refresh"
  BY <1>1, <1>4, <1>5 DEF ProcRecords, ProcOK, Saving, Issued
<1>7. proc' = [proc EXCEPT ![p] = v]
  BY <1>1, <1>3 DEF Creds!Browse, Creds!Set
<1>8. /\ RingForgets /\ runs' \in 0..MaxProcs
      /\ file' \in Views \cup {Creds!Torn} /\ (file' # Creds!Torn => ViewOK(file'))
  BY DEF CredsInv, CredsTypes, RingOK, RingForgets
<1> QED
  BY <1>6, <1>7, <1>8, ProcMoves

\* What is not stored is lost, and a login or nothing follows.
LEMMA NotStoredStep ==
    ASSUME CredsInv, NEW p \in Procs, proc[p] # Creds!Idle,
           NEW view \in Views, ViewOK(view), Creds!NotStored(p, view),
           UNCHANGED <<rotates, file, ring, live, nextRefresh, runs>>
    PROVE  CredsInv'
<1>1. /\ lost' \subseteq 1..nextRefresh - 1 /\ lost \subseteq lost'
      /\ Creds!Unsaved(p) => proc[p].old.rt \in lost'
  BY VoidedIsIssued DEF Creds!NotStored, CredsInv, CredsTypes
<1>2. CASE proc[p].old # Creds!None
  <2>1. Creds!Browse(p, view)
    BY <1>2 DEF Creds!NotStored
  <2>2. proc[p].op = "hook" => proc[p].sub \notin Services
    BY <1>2 DEF CredsInv, ProcOK
  <2> QED
    BY <1>1, <2>1, <2>2, BrowseStep
<1>3. CASE proc[p].old = Creds!None
  <2>1. Creds!End(p)
    BY <1>3 DEF Creds!NotStored
  <2>2. /\ RingForgets
        /\ file' \in Views \cup {Creds!Torn} /\ (file' # Creds!Torn => ViewOK(file'))
    BY DEF CredsInv, CredsTypes, RingOK, RingForgets
  <2> QED
    BY <1>1, <2>1, <2>2, CredsEndStep
<1> QED
  BY <1>2, <1>3

\* The decision of ResolveToken: metadata and secret are of the subject.
LEMMA ResolveReadStep ==
    ASSUME CredsInv, NEW p \in Procs, Creds!Read(p)
    PROVE  CredsInv'
<1>1. PICK a, s, sec : a = proc[p] /\ s = a.sub /\ sec = ring[s]
  OBVIOUS
<1>2. /\ a \in Commanded /\ a.at = "read" /\ ProcOK(a) /\ a # Creds!Idle
      /\ UNCHANGED <<rotates, file, ring, live, nextRefresh, runs, lost>>
  BY <1>1, CredsIdle DEF Creds!Read, Creds!At, CredsInv, CredsTypes
<1>3. /\ s \in Creds!Subjects /\ a.op = "hook" /\ a.key = s /\ sec \in SecretsOfSubjects
      /\ a.view[s] \in {Creds!None, Creds!MetaOf(s)} /\ ViewOK(a.view)
      /\ sec # Creds!None => sec.sub = s
      /\ Issued(sec) /\ Issued(a.old) /\ Issued(a.new) /\ (a.old # Creds!None => a.old.rt # 0)
      /\ s \in Services => a.old = Creds!None
  BY <1>1, <1>2 DEF Commanded, ProcOK, ViewOK, CredsInv, CredsTypes, RingOK, Issued
<1>4. PICK v : /\ proc' = [proc EXCEPT ![p] = v]
               /\ \/ sec # Creds!None /\ v = [a EXCEPT !.at = "done", !.new = sec]
                  \/ v = [a EXCEPT !.at = "exchange"]
                  \/ v = Creds!Idle
                  \/ /\ a.view[s].kind # "service" /\ a.view[s] # Creds!None
                     /\ \/ /\ sec # Creds!None /\ sec.rt # 0
                           /\ v = [a EXCEPT !.at = "refresh", !.old = sec]
                        \/ v = [a EXCEPT !.at = "browser"]
  BY <1>1 DEF Creds!Read, Creds!Set, Creds!Usable, Creds!Renewable, Creds!NoToken
<1>5. v \in ProcRecords /\ ProcOK(v) /\ v.at \notin Saving
      /\ (v.at = "refresh" => v.old = sec /\ v.sub = s)
  <2>1. CASE sec # Creds!None /\ v = [a EXCEPT !.at = "done", !.new = sec]
    <3>1. /\ v \in Commanded /\ v.at = "done" /\ v.op = a.op /\ v.sub = s /\ v.key = s
          /\ v.new = sec /\ v.old = a.old /\ v.view = a.view
      BY <1>1, <1>2, <1>3, <2>1 DEF Commanded, ProcStages
    <3> QED
      BY <1>3, <2>1, <3>1 DEF ProcRecords, ProcOK, Saving
  <2>2. CASE v = [a EXCEPT !.at = "exchange"]
    <3>1. /\ v \in Commanded /\ v.at = "exchange" /\ v.op = a.op /\ v.sub = s /\ v.key = s
          /\ v.new = a.new /\ v.old = a.old /\ v.view = a.view
      BY <1>1, <1>2, <1>3, <2>2 DEF Commanded, ProcStages
    <3> QED
      BY <1>3, <2>2, <3>1 DEF ProcRecords, ProcOK, Saving
  <2>3. CASE v = Creds!Idle
    BY <2>3, CredsIdle DEF Saving
  <2>4. CASE /\ a.view[s].kind # "service" /\ a.view[s] # Creds!None
             /\ \/ /\ sec # Creds!None /\ sec.rt # 0
                   /\ v = [a EXCEPT !.at = "refresh", !.old = sec]
                \/ v = [a EXCEPT !.at = "browser"]
    <3>1. s \notin Services
      BY <1>3, <2>4 DEF Creds!MetaOf
    <3>2. CASE v = [a EXCEPT !.at = "browser"]
      <4>1. /\ v \in Commanded /\ v.at = "browser" /\ v.op = a.op /\ v.sub = s /\ v.key = s
            /\ v.new = a.new /\ v.old = a.old /\ v.view = a.view
        BY <1>1, <1>2, <1>3, <3>2 DEF Commanded, ProcStages
      <4> QED
        BY <1>3, <3>1, <4>1 DEF ProcRecords, ProcOK, Saving
    <3>3. CASE sec # Creds!None /\ sec.rt # 0 /\ v = [a EXCEPT !.at = "refresh", !.old = sec]
      <4>1. /\ v \in Commanded /\ v.at = "refresh" /\ v.op = a.op /\ v.sub = s /\ v.key = s
            /\ v.new = a.new /\ v.old = sec /\ v.view = a.view
        BY <1>1, <1>2, <1>3, <3>3 DEF Commanded, ProcStages
      <4> QED
        BY <1>3, <3>1, <3>3, <4>1 DEF ProcRecords, ProcOK, Saving, Carries
    <3> QED
      BY <2>4, <3>2, <3>3
  <2> QED
    BY <1>4, <2>1, <2>2, <2>3, <2>4
<1>6. ~Creds!Unsaved(p)
  BY <1>1, <1>2 DEF Creds!Unsaved
<1> QED
  BY <1>1, <1>2, <1>4, <1>5, <1>6, NothingElse, ProcMoves

\* A login or a renewal brings the newest token: others that have a refresh
\* token have an older one.  It is about to be stored, or the answer was lost
\* and with it the token that the renewal made void.
LEMMA IssueStep ==
    ASSUME CredsInv, NEW p \in Procs, proc[p].at \in {"refresh", "browser"}, NEW gone,
           NEW v \in Commanded, proc' = [proc EXCEPT ![p] = v],
           ViewOK(v.view), Issued(v.old), v.old # Creds!None => v.old.rt # 0,
           v.op = "hook" => v.sub \notin Services,
           \/ /\ v.at = "saveFile" /\ lost' = lost
              /\ v.new # Creds!None /\ v.new.sub = v.key /\ v.new.rt = nextRefresh
           \/ v.at = "browser" /\ Issued(v.new) /\ lost' = lost \cup gone,
           live' = (live \ gone) \cup {nextRefresh},
           nextRefresh <= MaxRefreshTokens, nextRefresh' = nextRefresh + 1,
           UNCHANGED <<rotates, file, ring, runs>>,
           gone # {} =>
             /\ rotates /\ proc[p].at = "refresh" /\ gone = {proc[p].old.rt}
             /\ proc[p].old.rt \in live
             /\ v.at = "saveFile" => v.old = proc[p].old /\ v.key = proc[p].sub
    PROVE  CredsInv'
<1>0. PICK n : n = nextRefresh
  OBVIOUS
<1>1. /\ proc'[p] = v /\ \A q \in Procs : q # p => proc'[q] = proc[q]
      /\ v \in ProcRecords /\ v # Creds!Idle
  BY DEF CredsInv, CredsTypes, ProcRecords, Commanded, Creds!Idle, ProcStages, Saving
<1>2. /\ nextRefresh \in Nat /\ n \in Nat /\ n # 0
      /\ nextRefresh' = n + 1 /\ live' = (live \ gone) \cup {n} /\ live \subseteq 1..n - 1
  BY <1>0, ConstantsAssumption DEF CredsInv, CredsTypes
<1>3. CredsTypes'
  <2>1. nextRefresh' \in 1..MaxRefreshTokens + 1 /\ live' \subseteq 1..nextRefresh' - 1
    <3>1. n \in 1..MaxRefreshTokens /\ nextRefresh' \in 1..MaxRefreshTokens + 1
      BY <1>0, <1>2, ConstantsAssumption
    <3>2. ASSUME NEW x \in live' PROVE x \in 1..nextRefresh' - 1
      <4>1. CASE x = n
        BY <1>2, <4>1
      <4>2. CASE x \in 1..n - 1
        BY <1>2, <4>2
      <4> QED
        BY <1>2, <4>1, <4>2
    <3> QED
      BY <3>1, <3>2
  <2>2. lost \subseteq 1..n - 1 /\ gone \subseteq 1..n - 1
    BY <1>0, <1>2 DEF CredsInv, CredsTypes
  <2>3. lost' \subseteq 1..n - 1
    BY <2>2
  <2>4. lost' \subseteq 1..nextRefresh' - 1
    BY <1>2, <2>3
  <2> QED
    BY <1>1, <2>1, <2>4 DEF CredsInv, CredsTypes
<1>4. /\ \A s \in Creds!Subjects : ring[s] # Creds!None => ring[s].rt < n
      /\ \A q \in Procs : proc[q] # Creds!Idle => Issued(proc[q].old) /\ Issued(proc[q].new)
  BY <1>0 DEF CredsInv, RingOK, ProcOK
<1>5. RingOK'
  <2>1. \A s \in Creds!Subjects :
          ring'[s] # Creds!None => ring'[s].sub = s /\ ring'[s].rt < nextRefresh'
    <3> SUFFICES ASSUME NEW s \in Creds!Subjects, ring[s] # Creds!None
                 PROVE  ring[s].sub = s /\ ring[s].rt < n + 1
      BY <1>2
    <3>1. ring[s].sub = s /\ ring[s].rt < n /\ ring[s].rt \in Tokens
      BY <1>4 DEF CredsInv, RingOK, CredsTypes, SecretsOfSubjects
    <3> QED
      BY <1>2, <3>1, ConstantsAssumption DEF Tokens
  <2>2. file' # Creds!Torn => ViewOK(file')
    BY DEF CredsInv, RingOK
  <2>3. ~rotates' => live' = 1..nextRefresh' - 1
    BY <1>0, <1>2 DEF CredsInv, RingOK
  <2> QED
    BY <2>1, <2>2, <2>3 DEF RingOK, ViewOK
<1>6. ASSUME NEW q \in Procs PROVE ProcOK(proc[q])'
  <2>1. PICK a : a = proc'[q]
    OBVIOUS
  <2>2. ASSUME NEW sec \in SecretsOfSubjects, Issued(sec) PROVE sec # Creds!None => sec.rt < n + 1
    BY <1>0, <1>2, <2>2, ConstantsAssumption DEF Issued, SecretsOfSubjects, Tokens
  <2>3. CASE q = p
    <3>1. v.old \in SecretsOfSubjects
      BY DEF Commanded
    <3>2. v.old # Creds!None => v.old.rt < n + 1
      BY <2>2, <3>1
    <3>3. CASE v.at = "saveFile"
      <4>1. /\ v.new # Creds!None /\ v.new.sub = v.key
            /\ v.new.rt < n + 1 /\ v.new.rt \in live'
        BY <1>0, <1>2, <3>3
      <4> QED
        BY <1>1, <1>2, <2>1, <2>3, <3>2, <3>3, <4>1 DEF ProcOK, Saving, Issued, ViewOK
    <3>4. CASE v.at = "browser"
      <4>1. v.new # Creds!None => v.new.rt < n + 1
        BY <2>2, <3>4 DEF Commanded
      <4> QED
        BY <1>1, <1>2, <2>1, <2>3, <3>2, <3>4, <4>1 DEF ProcOK, Saving, Issued, ViewOK
    <3> QED
      BY <3>3, <3>4
  <2>4. CASE q # p
    <3>1. a = proc[q] /\ ProcOK(a) /\ a \in ProcRecords
      BY <1>1, <2>1, <2>4 DEF CredsInv, CredsTypes
    <3>2. CASE a = Creds!Idle
      BY <2>1, <3>2 DEF ProcOK
    <3>3. CASE a # Creds!Idle
      <4>1. a.old \in SecretsOfSubjects /\ a.new \in SecretsOfSubjects
        BY <3>1, <3>3 DEF ProcRecords, Commanded
      <4>2. /\ a.old # Creds!None => a.old.rt < n + 1
            /\ a.new # Creds!None => a.new.rt < n + 1
        BY <2>2, <3>1, <3>3, <4>1 DEF ProcOK
      <4>3. a.at \in Saving => (a.new.rt # 0 => a.new.rt \in live')
        <5> SUFFICES ASSUME a.at \in Saving, a.new.rt # 0, a.new.rt \in gone PROVE FALSE
          BY <1>2, <3>1, <3>3 DEF ProcOK
        <5>1. rotates /\ proc[p].at = "refresh" /\ a.new.rt = proc[p].old.rt
          OBVIOUS
        <5>2. Carries(proc[p].old, proc[p].old.rt)
          <6>1. proc[p] # Creds!Idle /\ ProcOK(proc[p])
            BY <5>1, CredsIdle DEF CredsInv
          <6> QED
            BY <5>1, <6>1 DEF ProcOK
        <5>3. Carries(a.new, a.new.rt) /\ a.new.rt \in Tokens
          BY <3>1, <3>3, <4>1 DEF ProcOK, Carries, SecretsOfSubjects
        <5>4. NewAlone(q)
          BY <5>1 DEF CredsInv, Apart
        <5> QED
          BY <2>4, <3>1, <5>1, <5>2, <5>3, <5>4 DEF NewAlone
      <4> QED
        BY <1>2, <2>1, <3>1, <3>3, <4>2, <4>3 DEF ProcOK, Issued, ViewOK
    <3> QED
      BY <3>2, <3>3
  <2> QED
    BY <2>3, <2>4
<1>7. Apart'
  <2> SUFFICES ASSUME rotates
               PROVE  RingApart' /\ \A q \in Procs : NewAlone(q)' /\ OldAlone(q)'
    BY DEF Apart
  <2>1. RingApart /\ \A q \in Procs : NewAlone(q) /\ OldAlone(q)
    BY DEF CredsInv, Apart
  <2>2. RingApart'
    BY <2>1 DEF RingApart, Carries
  <2>3. \A q \in Procs : OldAlone(q)'
    BY <1>1, <2>1 DEF OldAlone, Carries
  <2>4. \A t \in Tokens : v.at \in Saving /\ Carries(v.new, t) => t = n
    BY <1>0 DEF Carries, Saving
  <2>5. /\ \A s \in Creds!Subjects : ~Carries(ring[s], n)
        /\ \A o \in Procs \ {p} :
             /\ proc[o].at \in Saving => ~Carries(proc[o].new, n)
             /\ proc[o].at = "refresh" => ~Carries(proc[o].old, n)
    <3>1. \A s \in Creds!Subjects : ~Carries(ring[s], n)
      BY <1>2, <1>4 DEF Carries
    <3>2. ASSUME NEW o \in Procs \ {p}, proc[o].at \in Saving \cup {"refresh"}
          PROVE  ~Carries(proc[o].new, n) /\ ~Carries(proc[o].old, n)
      <4>1. proc[o] # Creds!Idle
        BY <3>2, CredsIdle DEF Saving
      <4> QED
        BY <1>0, <1>2, <1>4, <4>1 DEF Carries, Issued
    <3> QED
      BY <3>1, <3>2
  <2>6. ASSUME NEW q \in Procs, proc'[q].at \in Saving, NEW t \in Tokens,
               Carries(proc'[q].new, t)
        PROVE  /\ \A s \in Creds!Subjects : ~Carries(ring[s], t)
               /\ \A o \in Procs \ {q} : /\ proc'[o].at \in Saving => ~Carries(proc'[o].new, t)
                                         /\ proc'[o].at = "refresh" => ~Carries(proc'[o].old, t)
    <3>1. CASE q = p
      BY <1>1, <2>4, <2>5, <2>6, <3>1
    <3>2. CASE q # p
      <4>1. proc[q].at \in Saving /\ Carries(proc[q].new, t)
        BY <1>1, <2>6, <3>2
      <4>2. t # n
        BY <2>5, <3>2, <4>1
      <4> QED
        BY <1>1, <2>1, <2>4, <3>2, <4>1, <4>2 DEF NewAlone
    <3> QED
      BY <3>1, <3>2
  <2>7. \A q \in Procs : NewAlone(q)'
    BY <2>6 DEF NewAlone, Carries
  <2> QED
    BY <2>2, <2>3, <2>7
<1>8. Creds!StoredRefreshIsLive'
  <2> SUFFICES ASSUME NEW s \in Creds!Subjects, ring[s] # Creds!None, ring[s].rt # 0,
                      ring[s].rt \notin live', ring[s].rt \notin lost'
               PROVE  \E q \in Procs :
                         Creds!Unsaved(q)' /\ proc'[q].key = s /\ proc'[q].old.rt = ring[s].rt
    BY DEF Creds!StoredRefreshIsLive, Creds!NoToken
  <2>1. CASE ring[s].rt \notin live
    <3>1. PICK q \in Procs :
             Creds!Unsaved(q) /\ proc[q].key = s /\ proc[q].old.rt = ring[s].rt
      BY <2>1 DEF CredsInv, Creds!StoredRefreshIsLive, Creds!NoToken
    <3>2. q # p
      BY <3>1 DEF Creds!Unsaved
    <3>3. Creds!Unsaved(q)' /\ proc'[q].key = s /\ proc'[q].old.rt = ring[s].rt
      BY <1>1, <3>1, <3>2 DEF Creds!Unsaved
    <3> QED
      BY <3>3
  <2>2. CASE ring[s].rt \in live
    <3>1. gone # {} /\ ring[s].rt \in gone /\ ring[s].rt = proc[p].old.rt
      BY <1>2, <2>2
    <3>2. rotates /\ proc[p].at = "refresh" /\ ring[s].rt \in Tokens
      BY <3>1 DEF CredsInv, CredsTypes, SecretsOfSubjects
    <3>3. Carries(proc[p].old, proc[p].old.rt)
      <4>1. proc[p] # Creds!Idle /\ ProcOK(proc[p])
        BY <3>2, CredsIdle DEF CredsInv
      <4> QED
        BY <3>2, <4>1 DEF ProcOK
    <3>4. OldAlone(p)
      BY <3>2 DEF CredsInv, Apart
    <3>5. s = proc[p].sub
      BY <3>1, <3>2, <3>3, <3>4 DEF OldAlone, Carries
    <3>6. /\ v.at = "saveFile" /\ v.old = proc[p].old /\ v.key = s /\ v.new.rt = n
      BY <1>0, <3>1, <3>5
    <3>7. v.old # Creds!None /\ v.new.rt # v.old.rt
      BY <1>2, <3>1, <3>3, <3>6, <2>2 DEF Carries
    <3>8. Creds!Unsaved(p)' /\ proc'[p].key = s /\ proc'[p].old.rt = ring[s].rt
      BY <1>1, <3>1, <3>6, <3>7 DEF Creds!Unsaved
    <3> QED
      BY <3>8
  <2> QED
    BY <2>1, <2>2
<1> QED
  BY <1>3, <1>5, <1>6, <1>7, <1>8 DEF CredsInv

\* A refresh token is renewed, and the old one may be void from then on.
LEMMA RefreshStep ==
    ASSUME CredsInv, NEW p \in Procs, Creds!Refresh(p)
    PROVE  CredsInv'
<1>1. PICK a, s, rt : a = proc[p] /\ s = a.sub /\ rt = a.old.rt
  OBVIOUS
<1>2. /\ a \in Commanded /\ a.at = "refresh" /\ ProcOK(a) /\ a # Creds!Idle
      /\ UNCHANGED <<rotates, file, ring, runs>>
  BY <1>1, CredsIdle DEF Creds!Refresh, Creds!At, CredsInv, CredsTypes
<1>3. /\ s \in Creds!Subjects /\ a.op = "hook" /\ a.key = s /\ ViewOK(a.view)
      /\ Issued(a.old) /\ Issued(a.new) /\ s \notin Services
      /\ a.old # Creds!None /\ rt \in Tokens /\ rt # 0
  BY <1>1, <1>2 DEF Commanded, ProcOK, Carries, SecretsOfSubjects
<1>4. CASE /\ Creds!Browse(p, a.view) /\ UNCHANGED <<live, nextRefresh, lost>>
  <2>1. ~Creds!Unsaved(p)
    BY <1>1, <1>2 DEF Creds!Unsaved
  <2>2. /\ a.view \in Views /\ lost' \subseteq 1..nextRefresh - 1 /\ lost \subseteq lost'
    BY <1>2, <1>4 DEF Commanded, CredsInv, CredsTypes
  <2> QED
    BY <1>1, <1>2, <1>3, <1>4, <2>1, <2>2, BrowseStep
<1>5. CASE /\ rt \in live /\ ~rotates /\ UNCHANGED <<live, nextRefresh, lost>>
           /\ Creds!Set(p, [a EXCEPT !.at = "saveFile", !.new = Creds!Secret(s, rt)])
  <2>1. PICK v : v = [a EXCEPT !.at = "saveFile", !.new = Creds!Secret(s, rt)]
    OBVIOUS
  <2>2. Creds!Secret(s, rt) \in SecretsOfSubjects
    BY <1>3 DEF Creds!Secret, SecretsOfSubjects
  <2>3. /\ v \in Commanded /\ v.at = "saveFile" /\ v.op = a.op /\ v.sub = s /\ v.key = s
        /\ v.new = Creds!Secret(s, rt) /\ v.old = a.old /\ v.view = a.view
    BY <1>1, <1>2, <1>3, <2>1, <2>2 DEF Commanded, ProcStages, Saving
  <2>4. v.new # Creds!None /\ v.new.sub = s /\ v.new.rt = rt
    BY <2>3 DEF Creds!Secret, Creds!None
  <2>5. Issued(v.new)
    BY <1>1, <1>3, <2>4 DEF Issued
  <2>6. v \in ProcRecords /\ ProcOK(v) /\ proc' = [proc EXCEPT ![p] = v]
    BY <1>1, <1>3, <1>5, <2>1, <2>3, <2>4, <2>5 DEF ProcRecords, ProcOK, Saving, Creds!Set
  <2>7. ~Creds!Unsaved(p)
    BY <1>1, <1>2 DEF Creds!Unsaved
  <2> QED
    BY <1>2, <1>5, <2>3, <2>6, <2>7, NothingElse, ProcMoves
<1>6. CASE /\ rt \in live /\ rotates /\ nextRefresh <= MaxRefreshTokens
           /\ live' = (live \ {rt}) \cup {nextRefresh} /\ nextRefresh' = nextRefresh + 1
           /\ \/ /\ Creds!Set(p, [a EXCEPT !.at = "saveFile",
                              !.new = Creds!Secret(s, Creds!NewRefresh(rt, nextRefresh))])
                 /\ UNCHANGED lost
              \/ Creds!Browse(p, a.view) /\ lost' = lost \cup {rt}
  <2>1. PICK n : n = nextRefresh
    OBVIOUS
  <2>2. n \in Nat /\ n # 0 /\ n \in Tokens
    BY <1>6, <2>1, ConstantsAssumption DEF CredsInv, CredsTypes, Tokens
  <2>3. PICK gone : gone = {rt}
    OBVIOUS
  <2>4. /\ live' = (live \ gone) \cup {nextRefresh} /\ gone = {proc[p].old.rt}
        /\ rotates /\ proc[p].at = "refresh" /\ proc[p].old.rt \in live
    BY <1>1, <1>2, <1>6, <2>3
  <2>5. CASE /\ Creds!Set(p, [a EXCEPT !.at = "saveFile",
                             !.new = Creds!Secret(s, Creds!NewRefresh(rt, nextRefresh))])
             /\ UNCHANGED lost
    <3>1. PICK v : v = [a EXCEPT !.at = "saveFile", !.new = Creds!Secret(s, n)]
      OBVIOUS
    <3>2. Creds!Secret(s, n) \in SecretsOfSubjects
      BY <1>3, <2>2 DEF Creds!Secret, SecretsOfSubjects
    <3>3. /\ v \in Commanded /\ v.at = "saveFile" /\ v.op = a.op /\ v.sub = s /\ v.key = s
          /\ v.new = Creds!Secret(s, n) /\ v.old = a.old /\ v.view = a.view
      BY <1>1, <1>2, <1>3, <3>1, <3>2 DEF Commanded, ProcStages, Saving
    <3>4. v.new # Creds!None /\ v.new.sub = s /\ v.new.rt = nextRefresh
      BY <2>1, <3>3 DEF Creds!Secret, Creds!None
    <3>5. proc' = [proc EXCEPT ![p] = v]
      BY <2>1, <2>2, <2>5, <3>1 DEF Creds!Set, Creds!NewRefresh, Creds!NoToken
    <3>6. /\ v.old = proc[p].old /\ v.key = proc[p].sub /\ v.old.rt # 0
          /\ (v.op = "hook" => v.sub \notin Services)
          /\ ViewOK(v.view) /\ Issued(v.old) /\ v.new.sub = v.key
      BY <1>1, <1>3, <3>3, <3>4
    <3> QED
      BY <1>2, <1>6, <2>4, <2>5, <3>3, <3>4, <3>5, <3>6, IssueStep
  <2>6. CASE Creds!Browse(p, a.view) /\ lost' = lost \cup {rt}
    <3>1. PICK v : v = [a EXCEPT !.at = "browser", !.old = Creds!None, !.view = a.view]
      OBVIOUS
    <3>2. /\ v \in Commanded /\ v.at = "browser" /\ v.op = a.op /\ v.sub = s
          /\ v.new = a.new /\ v.old = Creds!None /\ v.view = a.view
      BY <1>1, <1>2, <3>1 DEF Commanded, ProcStages, SecretsOfSubjects
    <3>3. proc' = [proc EXCEPT ![p] = v] /\ lost' = lost \cup gone
      BY <1>1, <2>3, <2>6, <3>1 DEF Creds!Browse, Creds!Set
    <3>4. /\ (v.op = "hook" => v.sub \notin Services) /\ ViewOK(v.view)
          /\ Issued(v.old) /\ Issued(v.new) /\ ~(v.old # Creds!None)
      BY <1>3, <3>2 DEF Issued
    <3> QED
      BY <1>2, <1>6, <2>4, <3>2, <3>3, <3>4, IssueStep
  <2> QED
    BY <1>6, <2>5, <2>6
<1>7. CASE /\ rt \in live /\ ~rotates /\ UNCHANGED <<live, nextRefresh>>
           /\ Creds!Browse(p, a.view) /\ lost' = lost
  BY <1>4, <1>7
<1>8. CASE rotates
  BY <1>1, <1>4, <1>6, <1>8 DEF Creds!Refresh
<1>9. CASE ~rotates
  BY <1>1, <1>4, <1>5, <1>7, <1>9 DEF Creds!Refresh, Creds!NewRefresh, Creds!NoToken
<1> QED
  BY <1>8, <1>9

\* A login in the browser is stored for whoever logged in there.
LEMMA BrowserLoginStep ==
    ASSUME CredsInv, NEW p \in Procs, Creds!BrowserLogin(p)
    PROVE  CredsInv'
<1>1. PICK a : a = proc[p]
  OBVIOUS
<1>2. /\ a \in Commanded /\ a.at = "browser" /\ ProcOK(a) /\ a # Creds!Idle
      /\ UNCHANGED <<rotates, file, ring, runs, lost>>
  BY <1>1, CredsIdle DEF Creds!BrowserLogin, Creds!At, CredsInv, CredsTypes
<1>3. CASE Creds!End(p) /\ UNCHANGED <<live, nextRefresh>>
  <2>1. ~Creds!Unsaved(p)
    BY <1>1, <1>2 DEF Creds!Unsaved
  <2> QED
    BY <1>2, <1>3, <2>1, NothingElse, CredsEndStep
<1>4. ASSUME NEW u \in Users, nextRefresh <= MaxRefreshTokens,
             live' = live \cup {nextRefresh}, nextRefresh' = nextRefresh + 1,
             Creds!Set(p, [a EXCEPT !.at = "saveFile", !.key = u,
                                    !.new = Creds!Secret(u, nextRefresh)])
      PROVE  CredsInv'
  <2>1. PICK n : n = nextRefresh
    OBVIOUS
  <2>2. n \in Nat /\ n \in Tokens /\ u \in Creds!Subjects
    BY <1>4, <2>1, ConstantsAssumption DEF CredsInv, CredsTypes, Tokens, Creds!Subjects
  <2>3. PICK v : v = [a EXCEPT !.at = "saveFile", !.key = u, !.new = Creds!Secret(u, n)]
    OBVIOUS
  <2>4. Creds!Secret(u, n) \in SecretsOfSubjects
    BY <2>2 DEF Creds!Secret, SecretsOfSubjects
  <2>5. /\ v \in Commanded /\ v.at = "saveFile" /\ v.op = a.op /\ v.sub = a.sub
        /\ v.key = u /\ v.new = Creds!Secret(u, n) /\ v.old = a.old /\ v.view = a.view
    BY <1>2, <2>2, <2>3, <2>4 DEF Commanded, ProcStages, Saving
  <2>6. v.new # Creds!None /\ v.new.sub = v.key /\ v.new.rt = nextRefresh
    BY <2>1, <2>5 DEF Creds!Secret, Creds!None
  <2>7. proc' = [proc EXCEPT ![p] = v]
    BY <1>4, <2>1, <2>3 DEF Creds!Set
  <2>8. PICK gone : gone = {}
    OBVIOUS
  <2>9. /\ live' = (live \ gone) \cup {nextRefresh} /\ proc[p].at = "browser"
        /\ ViewOK(v.view) /\ Issued(v.old) /\ (v.old # Creds!None => v.old.rt # 0)
        /\ v.op = "hook" => v.sub \notin Services
    BY <1>1, <1>2, <1>4, <2>5, <2>8 DEF ProcOK
  <2> QED
    BY <1>2, <1>4, <2>5, <2>6, <2>7, <2>8, <2>9, IssueStep
<1> QED
  BY <1>1, <1>3, <1>4 DEF Creds!BrowserLogin, Creds!KeyOf

\* An exchange brings a token of the service that is renewed, or of the one
\* that logs in (Exchange).
LEMMA CredsExchangeStep ==
    ASSUME CredsInv, NEW p \in Procs, Creds!Exchange(p)
    PROVE  CredsInv'
<1>1. PICK a : a = proc[p]
  OBVIOUS
<1>2. /\ a \in Commanded /\ a.at = "exchange" /\ ProcOK(a) /\ a # Creds!Idle
      /\ UNCHANGED <<rotates, file, ring, live, nextRefresh, runs, lost>>
  BY <1>1, CredsIdle DEF Creds!Exchange, Creds!At, CredsInv, CredsTypes
<1>3. ~Creds!Unsaved(p)
  BY <1>1, <1>2 DEF Creds!Unsaved
<1>4. CASE Creds!End(p)
  BY <1>2, <1>3, <1>4, NothingElse, CredsEndStep
<1>5. ASSUME NEW got \in Services, a.op = "service" \/ got = a.sub,
             Creds!Set(p, [a EXCEPT !.at = "saveFile",
                             !.key = IF a.op = "service" THEN got ELSE @,
                             !.new = Creds!Secret(got, Creds!NoToken)])
      PROVE  CredsInv'
  <2>1. a.op \in {"service", "hook"} /\ (a.op = "hook" => a.key = a.sub)
    BY <1>2 DEF ProcOK
  <2>2. PICK new : new = Creds!Secret(got, Creds!NoToken)
    OBVIOUS
  <2>3. /\ new \in SecretsOfSubjects /\ new # Creds!None /\ new.sub = got /\ new.rt = 0
        /\ got \in Creds!Subjects
    BY <2>2, ConstantsAssumption
       DEF Creds!Secret, SecretsOfSubjects, Creds!NoToken, Tokens, Creds!None, Creds!Subjects
  <2>4. PICK v : v = [a EXCEPT !.at = "saveFile", !.key = got, !.new = new]
    OBVIOUS
  <2>5. /\ v \in Commanded /\ v.at = "saveFile" /\ v.op = a.op /\ v.sub = a.sub
        /\ v.key = got /\ v.new = new /\ v.old = a.old /\ v.view = a.view
    BY <1>2, <2>3, <2>4 DEF Commanded, ProcStages, Saving
  <2>6. proc' = [proc EXCEPT ![p] = v]
    <3>1. CASE a.op = "service"
      BY <1>5, <2>2, <2>4, <3>1 DEF Creds!Set
    <3>2. CASE a.op = "hook"
      <4>1. got = a.key
        BY <1>5, <2>1, <3>2
      <4>2. proc' = [proc EXCEPT ![p] = [a EXCEPT !.at = "saveFile", !.key = a.key, !.new = new]]
        BY <1>5, <2>2, <3>2 DEF Creds!Set
      <4> QED
        BY <2>4, <4>1, <4>2
    <3> QED
      BY <2>1, <3>1, <3>2
  <2>7. Issued(new)
    BY <2>3, ConstantsAssumption DEF Issued, CredsInv, CredsTypes
  <2>8. v \in ProcRecords /\ ProcOK(v)
    BY <1>2, <1>5, <2>3, <2>5, <2>7 DEF ProcRecords, ProcOK, Saving
  <2> QED
    BY <1>2, <1>3, <2>3, <2>5, <2>6, <2>8, NothingElse, ProcMoves
<1> QED
  BY <1>1, <1>4, <1>5 DEF Creds!Exchange, Creds!Acquired, Creds!SameIdentity

----------------------------------------------------------------------------
(* AuthSet and the way out.                                                *)

\* The config file is truncated, and then holds all that this process knows.
LEMMA SaveFileSteps ==
    ASSUME CredsInv, NEW p \in Procs, Creds!SaveFile(p) \/ Creds!FileWritten(p)
    PROVE  CredsInv'
<1>1. PICK a : a = proc[p]
  OBVIOUS
<1>2. /\ a \in Commanded /\ a.at \in Saving /\ ProcOK(a) /\ a # Creds!Idle
      /\ UNCHANGED <<rotates, ring, live, nextRefresh, runs>>
  BY <1>1, CredsIdle DEF Creds!SaveFile, Creds!FileWritten, Creds!At, CredsInv, CredsTypes, Saving
<1>3. /\ RingForgets /\ runs' \in 0..MaxProcs /\ lost \subseteq 1..nextRefresh - 1
      /\ file \in Views \cup {Creds!Torn} /\ (file # Creds!Torn => ViewOK(file))
  BY <1>2 DEF CredsInv, CredsTypes, RingOK, RingForgets
<1>4. CASE Creds!SaveFile(p)
  <2>1. PICK k, view : k = a.key /\ view = [a.view EXCEPT ![k] = Creds!MetaOf(k)]
    OBVIOUS
  <2>2. k \in Creds!Subjects /\ a.view \in Views /\ ViewOK(a.view)
    BY <1>2, <2>1 DEF Commanded, ProcOK
  <2>3. view \in Views /\ ViewOK(view)
    BY <2>1, <2>2 DEF Views, ViewOK, Creds!Metas, Creds!MetaOf
  <2>4. PICK v : v = [a EXCEPT !.at = "written", !.view = view]
    OBVIOUS
  <2>5. /\ v \in Commanded /\ v.at = "written" /\ v.op = a.op /\ v.sub = a.sub /\ v.key = a.key
        /\ v.new = a.new /\ v.old = a.old /\ v.view = view
    BY <1>2, <2>3, <2>4 DEF Commanded, ProcStages, Saving
  <2>6. \/ proc' = [proc EXCEPT ![p] = v] /\ file' = Creds!Torn /\ UNCHANGED lost
        \/ UNCHANGED file /\ Creds!NotStored(p, view)
    BY <1>1, <1>4, <2>1, <2>4 DEF Creds!SaveFile, Creds!Set
  <2>7. v \in ProcRecords /\ ProcOK(v)
    BY <1>2, <2>3, <2>5 DEF ProcRecords, ProcOK, Saving
  <2>8. v.at \in Saving /\ v.old = proc[p].old /\ v.key = proc[p].key
    BY <1>1, <2>5 DEF Saving
  <2>9. v.at # "refresh" /\ v.at \in Saving /\ proc[p].at \in Saving /\ v.new = proc[p].new
    BY <1>1, <1>2, <2>5 DEF Saving
  <2>10. CASE proc' = [proc EXCEPT ![p] = v] /\ file' = Creds!Torn /\ UNCHANGED lost
    BY <1>2, <1>3, <2>7, <2>8, <2>9, <2>10, ProcMoves
  <2>11. CASE UNCHANGED file /\ Creds!NotStored(p, view)
    BY <1>1, <1>2, <2>3, <2>11, NotStoredStep
  <2> QED
    BY <2>6, <2>10, <2>11
<1>5. CASE Creds!FileWritten(p)
  <2>1. PICK v : v = [a EXCEPT !.at = "saveRing"]
    OBVIOUS
  <2>2. /\ v \in Commanded /\ v.at = "saveRing" /\ v.op = a.op /\ v.sub = a.sub /\ v.key = a.key
        /\ v.new = a.new /\ v.old = a.old /\ v.view = a.view
    BY <1>2, <2>1 DEF Commanded, ProcStages, Saving
  <2>3. \/ proc' = [proc EXCEPT ![p] = v] /\ file' = a.view /\ UNCHANGED lost
        \/ UNCHANGED file /\ Creds!NotStored(p, a.view)
    BY <1>1, <1>5, <2>1 DEF Creds!FileWritten, Creds!Goto, Creds!Set
  <2>4. a.view \in Views /\ ViewOK(a.view)
    BY <1>2 DEF Commanded, ProcOK
  <2>5. v \in ProcRecords /\ ProcOK(v)
    BY <1>2, <2>2 DEF ProcRecords, ProcOK, Saving
  <2>6. v.at \in Saving /\ v.old = proc[p].old /\ v.key = proc[p].key
    BY <1>1, <2>2 DEF Saving
  <2>7. v.at # "refresh" /\ v.at \in Saving /\ proc[p].at \in Saving /\ v.new = proc[p].new
    BY <1>1, <1>2, <2>2 DEF Saving
  <2>8. CASE proc' = [proc EXCEPT ![p] = v] /\ file' = a.view /\ UNCHANGED lost
    BY <1>2, <1>3, <2>4, <2>5, <2>6, <2>7, <2>8, ProcMoves
  <2>9. CASE UNCHANGED file /\ Creds!NotStored(p, a.view)
    BY <1>1, <1>2, <2>4, <2>9, NotStoredStep
  <2> QED
    BY <2>3, <2>8, <2>9
<1> QED
  BY <1>4, <1>5

\* The secret is stored for its subject; a refresh token that is stored is
\* accepted, and nobody else has it.
LEMMA KeyringWriteStep ==
    ASSUME CredsInv, NEW p \in Procs, Creds!KeyringWrite(p)
    PROVE  CredsInv'
<1>1. PICK a, k, new : a = proc[p] /\ k = a.key /\ new = a.new
  OBVIOUS
<1>2. /\ a \in Commanded /\ a.at = "saveRing" /\ a.at \in Saving /\ ProcOK(a)
      /\ a # Creds!Idle /\ UNCHANGED <<rotates, file, live, nextRefresh, runs>>
  BY <1>1, CredsIdle DEF Creds!KeyringWrite, Creds!At, CredsInv, CredsTypes, Saving
<1>3. /\ k \in Creds!Subjects /\ new \in SecretsOfSubjects /\ new # Creds!None /\ new.sub = k
      /\ new.rt < nextRefresh /\ (new.rt # 0 => new.rt \in live)
  BY <1>1, <1>2 DEF Commanded, ProcOK, Issued
<1>4. CASE UNCHANGED ring /\ Creds!NotStored(p, a.view)
  <2>1. a.view \in Views /\ ViewOK(a.view)
    BY <1>2 DEF Commanded, ProcOK
  <2> QED
    BY <1>1, <1>2, <1>4, <2>1, NotStoredStep
<1>5. CASE ring' = [ring EXCEPT ![k] = new] /\ Creds!Goto(p, "done") /\ UNCHANGED lost
  <2>1. PICK v : v = [a EXCEPT !.at = "done"]
    OBVIOUS
  <2>2. /\ v \in Commanded /\ v.at = "done" /\ v.op = a.op /\ v.sub = a.sub /\ v.key = k
        /\ v.new = new /\ v.old = a.old /\ v.view = a.view
    BY <1>1, <1>2, <2>1 DEF Commanded, ProcStages
  <2>3. proc' = [proc EXCEPT ![p] = v]
    BY <1>1, <1>5, <2>1 DEF Creds!Goto, Creds!Set
  <2>4. proc'[p] = v /\ \A q \in Procs : q # p => proc'[q] = proc[q]
    BY <2>3 DEF CredsInv, CredsTypes
  <2>5. v \in ProcRecords /\ ProcOK(v)
    BY <1>1, <1>2, <1>3, <2>2 DEF ProcRecords, ProcOK, Saving
  <2>6. ring'[k] = new /\ \A s \in Creds!Subjects : s # k => ring'[s] = ring[s]
    BY <1>3, <1>5 DEF CredsInv, CredsTypes
  <2>7. CredsTypes'
    BY <1>2, <1>3, <1>5, <2>3, <2>5 DEF CredsInv, CredsTypes
  <2>8. RingOK'
    BY <1>2, <1>3, <2>6 DEF CredsInv, RingOK, ViewOK
  <2>9. ASSUME NEW q \in Procs PROVE ProcOK(proc[q])'
    <3>1. PICK b : b = proc'[q]
      OBVIOUS
    <3>2. ProcOK(b)
      BY <2>4, <2>5, <3>1 DEF CredsInv
    <3> QED
      BY <1>2, <3>1, <3>2 DEF ProcOK, Issued, ViewOK
  <2>10. Apart'
    <3> SUFFICES ASSUME rotates
                 PROVE  RingApart' /\ \A q \in Procs : NewAlone(q)' /\ OldAlone(q)'
      BY <1>2 DEF Apart
    <3>1. RingApart /\ \A q \in Procs : NewAlone(q) /\ OldAlone(q)
      BY DEF CredsInv, Apart
    <3>2. \A t \in Tokens : Carries(new, t) =>
            /\ \A s \in Creds!Subjects : ~Carries(ring[s], t)
            /\ \A o \in Procs \ {p} : /\ proc[o].at \in Saving => ~Carries(proc[o].new, t)
                                      /\ proc[o].at = "refresh" => ~Carries(proc[o].old, t)
      BY <1>1, <1>2, <3>1 DEF NewAlone
    <3>3. RingApart'
      <4> SUFFICES ASSUME NEW s \in Creds!Subjects, NEW u \in Creds!Subjects, NEW t \in Tokens,
                          Carries(ring'[s], t), Carries(ring'[u], t)
                   PROVE  s = u
        BY DEF RingApart, Carries
      <4> QED
        BY <2>6, <3>1, <3>2 DEF RingApart
    <3>4. ASSUME NEW q \in Procs, proc'[q].at \in Saving, NEW t \in Tokens,
                 Carries(proc'[q].new, t)
          PROVE  /\ \A s \in Creds!Subjects : ~Carries(ring'[s], t)
                 /\ \A o \in Procs \ {q} :
                      /\ proc'[o].at \in Saving => ~Carries(proc'[o].new, t)
                      /\ proc'[o].at = "refresh" => ~Carries(proc'[o].old, t)
      <4>1. q # p
        BY <2>2, <2>4, <3>4 DEF Saving
      <4>2. proc[q].at \in Saving /\ Carries(proc[q].new, t)
        BY <2>4, <3>4, <4>1
      <4>3. /\ \A s \in Creds!Subjects : ~Carries(ring[s], t)
            /\ \A o \in Procs \ {q} : /\ proc[o].at \in Saving => ~Carries(proc[o].new, t)
                                      /\ proc[o].at = "refresh" => ~Carries(proc[o].old, t)
        BY <3>1, <4>2 DEF NewAlone
      <4>4. ~Carries(new, t)
        BY <3>2, <4>1, <4>2
      <4>5. v.at \notin Saving /\ v.at # "refresh"
        BY <2>2 DEF Saving
      <4> QED
        BY <2>4, <2>6, <4>3, <4>4, <4>5
    <3>5. ASSUME NEW q \in Procs, proc'[q].at = "refresh", NEW t \in Tokens,
                 NEW s \in Creds!Subjects, Carries(proc'[q].old, t), Carries(ring'[s], t)
          PROVE  s = proc'[q].sub
      <4>1. q # p
        BY <2>2, <2>4, <3>5
      <4>2. proc'[q] = proc[q]
        BY <2>4, <4>1
      <4>3. s # k
        BY <2>6, <3>2, <3>5, <4>1, <4>2
      <4> QED
        BY <2>6, <3>1, <3>5, <4>2, <4>3 DEF OldAlone
    <3>6. \A q \in Procs : NewAlone(q)'
      BY <3>4 DEF NewAlone, Carries
    <3>7. \A q \in Procs : OldAlone(q)'
      BY <3>5 DEF OldAlone, Carries
    <3> QED
      BY <3>3, <3>6, <3>7
  <2>11. Creds!StoredRefreshIsLive'
    <3> SUFFICES ASSUME NEW s \in Creds!Subjects, ring'[s] # Creds!None, ring'[s].rt # 0,
                        ring'[s].rt \notin live, ring'[s].rt \notin lost
                 PROVE  \E q \in Procs :
                           Creds!Unsaved(q)' /\ proc'[q].key = s /\ proc'[q].old.rt = ring'[s].rt
      BY <1>2, <1>5 DEF Creds!StoredRefreshIsLive, Creds!NoToken
    <3>1. s # k /\ ring'[s] = ring[s]
      BY <1>3, <2>6
    <3>2. PICK q \in Procs :
             Creds!Unsaved(q) /\ proc[q].key = s /\ proc[q].old.rt = ring[s].rt
      BY <3>1 DEF CredsInv, Creds!StoredRefreshIsLive, Creds!NoToken
    <3>3. q # p
      BY <1>1, <3>1, <3>2
    <3>4. Creds!Unsaved(q)' /\ proc'[q].key = s /\ proc'[q].old.rt = ring'[s].rt
      BY <2>4, <3>1, <3>2, <3>3 DEF Creds!Unsaved
    <3> QED
      BY <3>4
  <2> QED
    BY <2>7, <2>8, <2>9, <2>10, <2>11 DEF CredsInv
<1> QED
  BY <1>1, <1>4, <1>5 DEF Creds!KeyringWrite

\* A process that is killed with a renewal that is not stored records what it
\* made void.
LEMMA ReturnSteps ==
    ASSUME CredsInv, NEW p \in Procs, Creds!Return(p) \/ Creds!Killed(p)
    PROVE  CredsInv'
<1>1. /\ Creds!End(p) /\ UNCHANGED <<rotates, file, ring, live, nextRefresh, runs>>
      /\ lost' = lost \cup Creds!Voided(p)
  <2>1. CASE Creds!Return(p)
    BY <2>1 DEF Creds!Return, Creds!At, Creds!Unsaved, Creds!Voided
  <2>2. CASE Creds!Killed(p)
    BY <2>2 DEF Creds!Killed
  <2> QED
    BY <2>1, <2>2
<1>2. /\ lost' \subseteq 1..nextRefresh - 1 /\ lost \subseteq lost'
      /\ Creds!Unsaved(p) => proc[p].old.rt \in lost'
  BY <1>1, VoidedIsIssued DEF CredsInv, CredsTypes
<1>3. /\ RingForgets
      /\ file' \in Views \cup {Creds!Torn} /\ (file' # Creds!Torn => ViewOK(file'))
  BY <1>1 DEF CredsInv, CredsTypes, RingOK, RingForgets
<1> QED
  BY <1>1, <1>2, <1>3, CredsEndStep

\* A logout lists what its view of the file has, and drops it one by one.
LEMMA LogoutSteps ==
    ASSUME CredsInv, NEW p \in Procs,
           Creds!List(p) \/ Creds!DropMetadata(p) \/ Creds!DropSecrets(p)
    PROVE  CredsInv'
<1>1. PICK a : a = proc[p]
  OBVIOUS
<1>2. /\ a \in Commanded /\ a.at \in {"list", "drop", "forget"} /\ ProcOK(a)
      /\ a # Creds!Idle /\ ~Creds!Unsaved(p)
      /\ UNCHANGED <<rotates, live, nextRefresh, runs, lost>>
  BY <1>1, CredsIdle DEF Creds!List, Creds!DropMetadata, Creds!DropSecrets, Creds!At,
     CredsInv, CredsTypes, Creds!Unsaved
<1>3. /\ runs' \in 0..MaxProcs /\ lost' \subseteq 1..nextRefresh - 1 /\ lost \subseteq lost'
      /\ file \in Views \cup {Creds!Torn} /\ (file # Creds!Torn => ViewOK(file))
      /\ a.key \in Creds!Subjects /\ a.todo \subseteq Creds!Subjects /\ a.view \in Views
      /\ ViewOK(a.view) /\ Issued(a.old) /\ Issued(a.new)
      /\ (a.old # Creds!None => a.old.rt # 0)
      /\ (a.op = "hook" /\ a.sub \in Services => a.old = Creds!None)
  BY <1>2 DEF CredsInv, CredsTypes, RingOK, Commanded, ProcOK
<1>4. ASSUME NEW v \in Commanded, v.at \in {"drop", "forget"}, ViewOK(v.view),
             v.old = a.old, v.new = a.new, v.op = a.op, v.sub = a.sub
      PROVE  v \in ProcRecords /\ ProcOK(v) /\ v.at \notin Saving /\ v.at # "refresh"
  BY <1>3, <1>4 DEF ProcRecords, ProcOK, Saving
<1>5. ring' = ring => RingForgets
  BY DEF RingForgets, CredsInv, CredsTypes
<1>6. CASE Creds!End(p) /\ file' \in {file, Creds!Torn} /\ UNCHANGED ring
  <2>1. file' \in Views \cup {Creds!Torn} /\ (file' # Creds!Torn => ViewOK(file'))
    BY <1>3, <1>6
  <2> QED
    BY <1>2, <1>3, <1>5, <1>6, <2>1, CredsEndStep
<1>7. CASE Creds!List(p)
  <2>1. PICK todo : todo = {s \in Creds!Subjects : a.view[s] # Creds!None}
    OBVIOUS
  <2>2. PICK v : v = [a EXCEPT !.at = "drop", !.todo = todo]
    OBVIOUS
  <2>3. /\ v \in Commanded /\ v.at = "drop" /\ v.view = a.view /\ v.old = a.old /\ v.new = a.new
        /\ v.op = a.op /\ v.sub = a.sub
    BY <1>2, <2>1, <2>2 DEF Commanded, ProcStages
  <2>4. proc' = [proc EXCEPT ![p] = v] /\ UNCHANGED <<file, ring>>
    BY <1>1, <1>7, <2>1, <2>2 DEF Creds!List, Creds!Set
  <2> QED
    BY <1>2, <1>3, <1>4, <1>5, <2>3, <2>4, ProcMoves
<1>8. ASSUME NEW s \in a.todo, Creds!DropMetadata(p),
             file' = [a.view EXCEPT ![s] = Creds!None],
             Creds!Set(p, [a EXCEPT !.at = "forget", !.key = s,
                                    !.view = [a.view EXCEPT ![s] = Creds!None]])
      PROVE  CredsInv'
  <2>1. PICK view : view = [a.view EXCEPT ![s] = Creds!None]
    OBVIOUS
  <2>2. view \in Views /\ ViewOK(view) /\ s \in Creds!Subjects
    BY <1>3, <2>1 DEF Views, ViewOK
  <2>3. PICK v : v = [a EXCEPT !.at = "forget", !.key = s, !.view = view]
    OBVIOUS
  <2>4. /\ v \in Commanded /\ v.at = "forget" /\ v.view = view /\ v.old = a.old /\ v.new = a.new
        /\ v.op = a.op /\ v.sub = a.sub
    BY <1>2, <2>2, <2>3 DEF Commanded, ProcStages
  <2>5. proc' = [proc EXCEPT ![p] = v] /\ file' = view /\ UNCHANGED ring
    BY <1>8, <2>1, <2>3 DEF Creds!DropMetadata, Creds!Set
  <2> QED
    BY <1>2, <1>3, <1>4, <1>5, <2>2, <2>4, <2>5, ProcMoves
<1>9. CASE /\ Creds!DropSecrets(p) /\ ring' = [ring EXCEPT ![a.key] = Creds!None]
           /\ Creds!Set(p, [a EXCEPT !.at = "drop", !.todo = @ \ {a.key}])
  <2>1. PICK todo : todo = a.todo \ {a.key}
    OBVIOUS
  <2>2. PICK v : v = [a EXCEPT !.at = "drop", !.todo = todo]
    OBVIOUS
  <2>3. /\ v \in Commanded /\ v.at = "drop" /\ v.view = a.view /\ v.old = a.old /\ v.new = a.new
        /\ v.op = a.op /\ v.sub = a.sub
    BY <1>2, <1>3, <2>1, <2>2 DEF Commanded, ProcStages
  <2>4. proc' = [proc EXCEPT ![p] = v] /\ UNCHANGED file
    BY <1>9, <2>1, <2>2 DEF Creds!DropSecrets, Creds!Set
  <2>5. RingForgets
    BY <1>3, <1>9 DEF RingForgets, CredsInv, CredsTypes, SecretsOfSubjects
  <2> QED
    BY <1>2, <1>3, <1>4, <2>3, <2>4, <2>5, ProcMoves
<1> QED
  BY <1>1, <1>6, <1>7, <1>8, <1>9 DEF Creds!DropMetadata, Creds!DropSecrets

\* Access tokens expire; the refresh token beside them does not.
LEMMA ExpireStep ==
    ASSUME CredsInv, NEW s \in Creds!Subjects, Creds!Expire(s)
    PROVE  CredsInv'
<1>1. PICK sec, w : sec = ring[s] /\ w = [sec EXCEPT !.fresh = FALSE]
  OBVIOUS
<1>2. /\ sec # Creds!None /\ sec \in SecretsOfSubjects /\ ring' = [ring EXCEPT ![s] = w]
      /\ UNCHANGED <<file, live, nextRefresh, rotates, proc, runs, lost>>
  BY <1>1 DEF Creds!Expire, CredsInv, CredsTypes
<1>3. w \in SecretsOfSubjects /\ w.sub = sec.sub /\ w.rt = sec.rt
  BY <1>1, <1>2 DEF SecretsOfSubjects
<1>4. RingForgets
  BY <1>1, <1>2, <1>3 DEF RingForgets, CredsInv, CredsTypes
<1> QED
  BY <1>2, <1>4, RingStep

\* No step of the specification breaks the invariant.
LEMMA CredsStep == CredsInv /\ [Creds!Next]_credsVars => CredsInv'
<1> SUFFICES ASSUME CredsInv, [Creds!Next]_credsVars PROVE CredsInv'
  OBVIOUS
<1>1. CASE UNCHANGED credsVars
  <2>1. RingForgets /\ UNCHANGED <<file, live, nextRefresh, rotates, proc, runs, lost>>
    BY <1>1 DEF credsVars, RingForgets, CredsInv, CredsTypes
  <2> QED
    BY <2>1, RingStep
<1>2. ASSUME NEW p \in Procs, NEW s \in Creds!Subjects,
             \/ Creds!KubectlHook(p, s) \/ Creds!DockerHook(p, s) \/ Creds!PushToken(p, s)
             \/ Creds!LoginCommand(p, s) \/ Creds!LogoutCommand(p, s)
      PROVE  CredsInv'
  BY <1>2, StartSteps
<1>3. ASSUME NEW p \in Procs,
             \/ Creds!Read(p) \/ Creds!Refresh(p) \/ Creds!BrowserLogin(p) \/ Creds!Exchange(p)
      PROVE  CredsInv'
  BY <1>3, ResolveReadStep, RefreshStep, BrowserLoginStep, CredsExchangeStep
<1>4. ASSUME NEW p \in Procs,
             \/ Creds!SaveFile(p) \/ Creds!FileWritten(p) \/ Creds!KeyringWrite(p)
             \/ Creds!Return(p) \/ Creds!Killed(p)
      PROVE  CredsInv'
  BY <1>4, SaveFileSteps, KeyringWriteStep, ReturnSteps
<1>5. ASSUME NEW p \in Procs,
             Creds!List(p) \/ Creds!DropMetadata(p) \/ Creds!DropSecrets(p)
      PROVE  CredsInv'
  BY <1>5, LogoutSteps
<1>6. ASSUME NEW s \in Creds!Subjects, Creds!Expire(s) PROVE CredsInv'
  BY <1>6, ExpireStep
<1> QED
  BY <1>1, <1>2, <1>3, <1>4, <1>5, <1>6 DEF Creds!Next

\* For any subjects, processes and tokens, whether or not the issuer rotates
\* refresh tokens: the keyring holds a token under its own subject only, the
\* hook hands a service its own token, and a stored refresh token is accepted
\* unless a renewal made it void whose outcome is about to be stored under
\* that subject, or was lost (ResolveToken, Refresh, persistTokens, renewServiceToken).
THEOREM CredentialsAlwaysHold == Creds!Spec => []CredentialsHold
<1>1. Creds!Init /\ [][Creds!Next]_credsVars => []CredsInv
  BY CredsInitially, CredsStep, PTL
<1>2. CredsInv => CredentialsHold
  <2> SUFFICES ASSUME CredsInv PROVE CredentialsHold
    OBVIOUS
  <2>1. Creds!ServiceGetsItsOwn
    BY CredsIdle DEF CredsInv, ProcOK, Creds!ServiceGetsItsOwn, Creds!At
  <2>2. Creds!KeyringHoldsItsSubject /\ Creds!StoredRefreshIsLive
    BY DEF CredsInv, RingOK, Creds!KeyringHoldsItsSubject
  <2> QED
    BY <2>1, <2>2 DEF CredentialsHold, Creds!CredentialsHold
<1> QED
  BY <1>1, <1>2, PTL DEF Creds!Spec, Creds!vars, credsVars

(***************************************************************************)
(* RequiredSecret.  A command that may still write has not been applied, and *)
(* what a command has seen it has seen for good.                           *)
(***************************************************************************)

WriterStages == {"get", "encrypt", "send", "reread", "createLocal", "getLocal",
           "ok", "failed"}

WriterOps == {"create", "update", "delete", "restore", "destroy", "ensure", "local"}

\* What a command that has begun remembers.
WriterRecords == [op : WriterOps, key : Int, retried : BOOLEAN, at : WriterStages]

\* A command that may still write has not been applied, and one that has
\* ended well saw the key active if it is about a prerequisite.
WriterSafe(w) ==
    /\ applied[w] \in {0, 1}
    /\ writer[w] # Waiting => writer[w] \in WriterRecords
    /\ writer[w].at \in {"waiting", "get", "encrypt", "send", "createLocal"} =>
          applied[w] = 0
    /\ writer[w].at \in {"get", "encrypt", "send"} => writer[w].op # "local"
    /\ At(w, "ok") /\ writer[w].op \in {"ensure", "local"} => seen[w]

RequiredInv ==
    /\ writer = [w \in Writers |-> writer[w]]
    /\ operatorKey \in Int
    /\ applied = [w \in Writers |-> applied[w]]
    /\ \A w \in Writers : WriterSafe(w)

----------------------------------------------------------------------------

\* The invariant holds at the start.
LEMMA RequiredInitially == Init => RequiredInv
BY DEF Init, RequiredInv, WriterSafe, Waiting, At

\* A command that another one does not touch stays safe: what it has seen, it
\* has seen for good.
LEMMA OthersStaySafe ==
    ASSUME NEW w \in Writers, WriterSafe(w), Witness,
           writer'[w] = writer[w], applied'[w] = applied[w]
    PROVE  WriterSafe(w)'
BY DEF WriterSafe, Witness, At

\* The invariant follows from what the step does to the command that moves.
LEMMA OneWriterMoves ==
    ASSUME RequiredInv, NEW w \in Writers, Witness, operatorKey' \in Int,
           writer' = [writer EXCEPT ![w] = writer'[w]],
           applied' = [applied EXCEPT ![w] = applied'[w]],
           WriterSafe(w)'
    PROVE  RequiredInv'
<1>1. \A v \in Writers \ {w} : writer'[v] = writer[v] /\ applied'[v] = applied[v]
  BY DEF RequiredInv
<1>2. \A v \in Writers : WriterSafe(v)'
  BY <1>1, OthersStaySafe DEF RequiredInv
<1>3. writer' = [v \in Writers |-> writer'[v]] /\ applied' = [v \in Writers |-> applied'[v]]
  BY DEF RequiredInv
<1> QED
  BY <1>2, <1>3 DEF RequiredInv

\* The start of a command.
LEMMA BeginStep ==
    ASSUME RequiredInv, NEW w \in Writers, NEW op \in WriterOps,
           NEW at \in {"get", "encrypt", "send", "createLocal"}, Begin(w, op, at),
           op = "local" => at = "createLocal"
    PROVE  RequiredInv'
<1> DEFINE new == [op |-> op, key |-> 0, retried |-> FALSE, at |-> at]
<1>1. writer' = [writer EXCEPT ![w] = new] /\ writer'[w] = new /\ applied' = applied
  BY DEF Begin, RequiredInv
<1>2. applied[w] = 0
  BY DEF Begin, RequiredInv, WriterSafe, At
<1>3. new \in WriterRecords /\ new.at = at
  BY DEF WriterRecords, WriterStages
<1>4. WriterSafe(w)'
  BY <1>1, <1>2, <1>3 DEF WriterSafe, At
<1>5. applied' = [applied EXCEPT ![w] = applied'[w]]
  BY <1>1 DEF RequiredInv
<1> QED
  BY <1>1, <1>4, <1>5, OneWriterMoves DEF Begin, RequiredInv

\* A command that goes to another stage without a write.
LEMMA GotoStep ==
    ASSUME RequiredInv, NEW w \in Writers, NEW at \in WriterStages, Goto(w, at), Witness,
           UNCHANGED <<operatorKey, applied>>, writer[w] # Waiting,
           at \in {"get", "encrypt", "send", "createLocal"} => applied[w] = 0,
           at \in {"get", "encrypt", "send"} => writer[w].op # "local",
           at = "ok" => Active(entry')
    PROVE  RequiredInv'
<1>1. writer[w] \in WriterRecords
  BY DEF RequiredInv, WriterSafe
<1>2. writer'[w] = [writer[w] EXCEPT !.at = at]
  BY DEF Goto, RequiredInv
<1>3. /\ writer'[w] \in WriterRecords /\ writer'[w].at = at /\ at # "waiting"
      /\ writer'[w].op = writer[w].op
  BY <1>1, <1>2 DEF WriterRecords, WriterStages
<1>4. at = "ok" => seen'[w]
  BY <1>3 DEF Witness
<1>5. WriterSafe(w)'
  BY <1>3, <1>4 DEF WriterSafe, At, RequiredInv
<1>6. writer' = [writer EXCEPT ![w] = writer'[w]] /\ applied' = [applied EXCEPT ![w] = applied'[w]]
  BY <1>2 DEF Goto, RequiredInv
<1> QED
  BY <1>5, <1>6, OneWriterMoves DEF RequiredInv

\* The decisions of Ensure and of the local store, which write nothing
\* themselves (Get, Encrypt, Reread, GetLocal).
LEMMA DecisionStep ==
    ASSUME RequiredInv, NEW w \in Writers,
           Get(w) \/ Encrypt(w) \/ Reread(w) \/ GetLocal(w)
    PROVE  RequiredInv'
<1>1. writer[w] # Waiting
  BY DEF Get, Encrypt, Reread, GetLocal, At, Waiting
<1>2. CASE Get(w)
  <2>1. PICK at \in {"ok", "failed", "encrypt"} :
          Goto(w, at) /\ (at = "ok" => Active(entry))
    BY <1>2 DEF Get, Satisfied
  <2>2. applied[w] = 0 /\ writer[w].op # "local"
    BY <1>2 DEF Get, At, RequiredInv, WriterSafe
  <2> QED
    BY <1>1, <1>2, <2>1, <2>2, GotoStep DEF Get, WriterStages
<1>3. CASE Reread(w) \/ GetLocal(w)
  <2>1. PICK at \in {"ok", "failed"} : Goto(w, at) /\ (at = "ok" => Active(entry))
    BY <1>3 DEF Reread, GetLocal, Satisfied
  <2> QED
    BY <1>1, <1>3, <2>1, GotoStep DEF Reread, GetLocal, WriterStages
<1>4. CASE Encrypt(w)
  <2>1. applied[w] = 0 /\ writer[w].op # "local" /\ writer[w] \in WriterRecords
    BY <1>1, <1>4 DEF Encrypt, At, RequiredInv, WriterSafe
  <2>2. CASE Goto(w, "failed")
    BY <1>1, <1>4, <2>2, GotoStep DEF Encrypt, WriterStages
  <2>3. CASE writer' = [writer EXCEPT ![w].at = "send", ![w].key = operatorKey]
    <3>1. writer'[w] = [writer[w] EXCEPT !.at = "send", !.key = operatorKey]
      BY <2>3 DEF RequiredInv
    <3>2. /\ writer'[w] \in WriterRecords /\ writer'[w].at = "send"
          /\ writer'[w].op = writer[w].op
      BY <2>1, <3>1 DEF WriterRecords, WriterStages, RequiredInv
    <3>3. WriterSafe(w)'
      BY <1>4, <2>1, <3>2 DEF Encrypt, WriterSafe, At
    <3>4. /\ writer' = [writer EXCEPT ![w] = writer'[w]]
          /\ applied' = [applied EXCEPT ![w] = applied'[w]]
      BY <1>4, <2>3, <3>1 DEF Encrypt, RequiredInv
    <3> QED
      BY <1>4, <3>3, <3>4, OneWriterMoves DEF Encrypt, RequiredInv
  <2> QED
    BY <1>4, <2>2, <2>3 DEF Encrypt
<1> QED
  BY <1>2, <1>3, <1>4

\* What a command makes of an answer: it writes again only after a refusal
\* for which nothing was written, and takes only "ok" for a success.
LEMMA AnswerStep ==
    ASSUME RequiredInv, NEW w \in Writers, At(w, "send"), Witness, UNCHANGED operatorKey,
           NEW answer \in {"ok", "lost", "refused", "stale"}, Answer(w, answer),
           \/ applied' = applied
           \/ answer # "stale" /\ applied' = [applied EXCEPT ![w] = @ + 1],
           answer = "ok" /\ writer[w].op = "ensure" => Active(entry')
    PROVE  RequiredInv'
<1>1. writer[w] \in WriterRecords /\ applied[w] = 0 /\ writer[w].op # "local"
  BY DEF RequiredInv, WriterSafe, At, Waiting
<1>2. PICK at \in {"ok", "failed", "reread", "encrypt"}, again \in BOOLEAN :
        /\ writer' = [writer EXCEPT ![w] =
                        [writer[w] EXCEPT !.at = at, !.retried = again]]
        /\ at = "encrypt" => answer = "stale"
        /\ at = "ok" => answer = "ok"
  <2> DEFINE c == writer[w]
  <2>1. c.retried \in BOOLEAN /\ \A at \in WriterStages :
          [c EXCEPT !.at = at] = [c EXCEPT !.at = at, !.retried = c.retried]
    BY <1>1 DEF WriterRecords
  <2> QED
    BY <2>1 DEF Answer, Retried, WriterStages
<1>3. writer'[w] = [writer[w] EXCEPT !.at = at, !.retried = again]
  BY <1>2 DEF RequiredInv
<1>4. writer'[w] \in WriterRecords /\ writer'[w].at = at /\ writer'[w].op = writer[w].op
  BY <1>1, <1>3 DEF WriterRecords, WriterStages
<1>5. applied'[w] \in {0, 1} /\ (at = "encrypt" => applied'[w] = 0)
  BY <1>1, <1>2 DEF RequiredInv
<1>6. at = "ok" /\ writer[w].op = "ensure" => seen'[w]
  BY <1>2, <1>4 DEF Witness
<1>7. WriterSafe(w)'
  BY <1>1, <1>4, <1>5, <1>6 DEF WriterSafe, At
<1>8. /\ writer' = [writer EXCEPT ![w] = writer'[w]]
      /\ applied' = [applied EXCEPT ![w] = applied'[w]]
  BY <1>2, <1>3 DEF RequiredInv
<1> QED
  BY <1>7, <1>8, OneWriterMoves DEF RequiredInv

\* A request is applied at most once, and then answered (Send).
LEMMA SendStep ==
    ASSUME RequiredInv, NEW w \in Writers, Send(w)
    PROVE  RequiredInv'
<1> DEFINE op == Operation(writer[w].op)
<1>1. CASE Answer(w, "stale") /\ applied' = applied
  BY <1>1, AnswerStep DEF Send
<1>2. CASE Answer(w, "refused") /\ applied' = applied
  BY <1>2, AnswerStep DEF Send
<1>3. ASSUME NEW answer \in {"ok", "lost"}, Answer(w, answer),
             entry' = After(w, op), applied' = [applied EXCEPT ![w] = @ + 1]
      PROVE  RequiredInv'
  <2>1. writer[w].op = "ensure" => Active(entry')
    BY <1>3 DEF Operation, After, Active
  <2> QED
    BY <1>3, <2>1, AnswerStep DEF Send
<1> QED
  BY <1>1, <1>2, <1>3 DEF Send

\* The local store takes a secret that was absent (CreateLocal).
LEMMA CreateLocalStep ==
    ASSUME RequiredInv, NEW w \in Writers, CreateLocal(w)
    PROVE  RequiredInv'
<1>1. writer[w] \in WriterRecords /\ applied[w] = 0
  BY DEF CreateLocal, RequiredInv, WriterSafe, At, Waiting
<1>2. CASE UNCHANGED <<entry, applied>>
  <2>1. PICK at \in {"getLocal", "failed"} : Goto(w, at)
    BY <1>2, <1>1 DEF CreateLocal, RequiredInv
  <2> QED
    BY <1>2, <2>1, GotoStep DEF CreateLocal, At, Waiting, WriterStages
<1>3. CASE /\ entry' = After(w, "create") /\ Goto(w, "ok")
           /\ applied' = [applied EXCEPT ![w] = @ + 1]
  <2>1. writer'[w] = [writer[w] EXCEPT !.at = "ok"] /\ applied'[w] = 1
    BY <1>1, <1>3 DEF Goto, RequiredInv
  <2>2. writer'[w] \in WriterRecords /\ writer'[w].at = "ok"
    BY <1>1, <2>1 DEF WriterRecords, WriterStages
  <2>3. seen'[w]
    BY <1>3, <2>2 DEF CreateLocal, Witness, After, Active
  <2>4. WriterSafe(w)'
    BY <2>1, <2>2, <2>3 DEF WriterSafe, At
  <2>5. /\ writer' = [writer EXCEPT ![w] = writer'[w]]
        /\ applied' = [applied EXCEPT ![w] = applied'[w]]
    BY <1>1, <1>3, <2>1 DEF Goto
  <2> QED
    BY <2>4, <2>5, OneWriterMoves DEF CreateLocal, RequiredInv
<1> QED
  BY <1>2, <1>3 DEF CreateLocal

\* Every step keeps the invariant.
LEMMA RequiredStep == RequiredInv /\ [Next]_rvars => RequiredInv'
<1> SUFFICES ASSUME RequiredInv, [Next]_rvars PROVE RequiredInv'
  OBVIOUS
<1>1. CASE UNCHANGED rvars
  BY <1>1 DEF rvars, RequiredInv, WriterSafe, At
<1>2. CASE Rotate
  <2>1. operatorKey' \in Int /\ writer' = writer /\ applied' = applied
    BY <1>2 DEF Rotate, RequiredInv
  <2>2. \A w \in Writers : WriterSafe(w)'
    BY <1>2, <2>1, OthersStaySafe DEF Rotate, RequiredInv
  <2> QED
    BY <2>1, <2>2 DEF RequiredInv
<1>3. ASSUME NEW w \in Writers,
             \/ CreateCommand(w) \/ UpdateCommand(w) \/ DeleteCommand(w)
             \/ RestoreCommand(w) \/ DestroyCommand(w)
             \/ InstallCommand(w) \/ LocalPrepare(w)
      PROVE  RequiredInv'
  <2>1. PICK op \in WriterOps, at \in {"get", "encrypt", "send", "createLocal"} :
          Begin(w, op, at) /\ (op = "local" => at = "createLocal")
    BY <1>3 DEF WriterOps, CreateCommand, UpdateCommand, DeleteCommand, RestoreCommand,
       DestroyCommand, InstallCommand, LocalPrepare
  <2> QED
    BY <2>1, BeginStep
<1>4. ASSUME NEW w \in Writers, Get(w) \/ Encrypt(w) \/ Reread(w) \/ GetLocal(w)
      PROVE  RequiredInv'
  BY <1>4, DecisionStep
<1> QED
  BY <1>1, <1>2, <1>3, <1>4, SendStep, CreateLocalStep DEF Next

\* For any number of commands and of key pairs: a prerequisite that was
\* reported was active while the command ran, and no write is applied twice
\* (Ensure, PutEncrypted, ensureComponentSecret).
THEOREM PrerequisitesAlwaysHold == Spec => []PrerequisitesHold
<1>1. RequiredInv => PrerequisitesHold
  BY DEF RequiredInv, WriterSafe, PrerequisitesHold, EnsuredWasActive, WrittenOnce
<1> QED
  BY <1>1, RequiredInitially, RequiredStep, PTL DEF Spec

(***************************************************************************)
(* KubeContext.  The name of an entry tells what it is the entry of, so one *)
(* that is kept is as good as one that is written.                         *)
(***************************************************************************)

\* What the entries of the file are: a name tells what it is the entry of.
ClusterEntry(k) ==
    clusters[k] # Kube!None =>
      \E t \in Targets :
         k = Kube!ClusterKey(t)
           /\ clusters[k] = [server |-> t.server, podplane |-> t.podplane]

UserEntry(k) ==
    users[k] # Kube!None =>
      \E t \in Targets : \E sub \in t.subs, bin \in Binaries :
         k = Kube!CredentialsKey(t, sub)
           /\ users[k] = [bin |-> bin, id |-> t.id, local |-> t.local, sub |-> sub]

ContextEntry(k) ==
    contexts[k] # Kube!None =>
      \E t \in Targets : \E sub \in t.subs :
         k = Kube!ContextKey(t)
           /\ contexts[k] = [cluster |-> Kube!ClusterKey(t),
                             user |-> Kube!CredentialsKey(t, sub)]

Entries ==
    /\ \A k \in Kube!ClusterKeys : ClusterEntry(k)
    /\ \A k \in Kube!UserKeys : UserEntry(k)
    /\ \A k \in Kube!ContextKeys : ContextEntry(k)

CliStages == {"resting", "viewCluster", "setCluster", "viewUser", "setUser",
              "viewContext", "setContext", "configured", "delContext",
              "delCluster", "delUser", "deleted"}

\* What a command keeps while it runs.
Command(c) ==
    /\ cli[c].at \in CliStages
    /\ cli[c].at # "resting" =>
         /\ cli[c] = [at |-> cli[c].at, target |-> cli[c].target,
                      sub |-> cli[c].sub, bin |-> cli[c].bin]
         /\ cli[c].target \in Targets /\ cli[c].sub \in cli[c].target.subs
         /\ cli[c].bin \in Binaries

KubeTypes ==
    /\ commands \in 0..MaxCommands
    /\ overlapped \in [Clis -> BOOLEAN]
    /\ DOMAIN clusters = Kube!ClusterKeys
    /\ DOMAIN users = Kube!UserKeys
    /\ DOMAIN contexts = Kube!ContextKeys
    /\ cli = [c \in Clis |-> cli[c]]
    /\ \A c \in Clis : Command(c)

\* A command that was not overlapped is alone.
Alone ==
    \A c, d \in Clis :
      ~Kube!At(c, "resting") /\ ~overlapped[c] /\ c # d => Kube!At(d, "resting")

ClusterIsSet(t) ==
    clusters[Kube!ClusterKey(t)] # Kube!None
      /\ clusters[Kube!ClusterKey(t)].server = t.server
UserIsSet(t, sub, bin) ==
    users[Kube!CredentialsKey(t, sub)] =
       [bin |-> bin, id |-> t.id, local |-> t.local, sub |-> sub]

\* What a command that is alone has already seen to.
SeenTo(c) ==
    LET m == cli[c]  t == m.target
    IN  ~overlapped[c] =>
          /\ m.at \in {"viewUser", "setUser", "viewContext", "setContext"} =>
               ClusterIsSet(t)
          /\ m.at \in {"viewContext", "setContext"} => UserIsSet(t, m.sub, m.bin)
          /\ m.at = "configured" => Kube!LeadsTo(t, m.sub, m.bin)

KubeInv == KubeTypes /\ Entries /\ Alone /\ \A c \in Clis : SeenTo(c)

----------------------------------------------------------------------------

\* What is written into the kubeconfig is never taken for a missing entry.
LEMMA EntriesAreEntries ==
    /\ \A a, b : [server |-> a, podplane |-> b] # Kube!None
    /\ \A a, b, d, e : [bin |-> a, id |-> b, local |-> d, sub |-> e] # Kube!None
    /\ \A a, b : [cluster |-> a, user |-> b] # Kube!None
BY DEF Kube!None

\* Names that the commands use are names of the file.
LEMMA KeysAreKeys ==
    ASSUME NEW t \in Targets
    PROVE  /\ Kube!ClusterKey(t) \in Kube!ClusterKeys
           /\ Kube!ContextKey(t) \in Kube!ContextKeys
           /\ \A sub \in t.subs : Kube!CredentialsKey(t, sub) \in Kube!UserKeys
BY DEF Kube!ClusterKeys, Kube!ContextKeys, Kube!UserKeys

\* The invariant holds of an empty kubeconfig.
LEMMA KubeInitially == Kube!Init => KubeInv
<1> SUFFICES ASSUME Kube!Init PROVE KubeInv
  OBVIOUS
<1>1. KubeTypes
  BY ConstantsAssumption
     DEF Kube!Init, KubeTypes, Command, CliStages, Kube!Resting
<1>2. Entries
  BY DEF Kube!Init, Entries, ClusterEntry, UserEntry, ContextEntry
<1>3. Alone /\ \A c \in Clis : SeenTo(c)
  BY DEF Kube!Init, Alone, SeenTo, Kube!At, Kube!Resting
<1> QED
  BY <1>1, <1>2, <1>3 DEF KubeInv

\* A command goes on: others are not alone, so nothing is claimed of them.
LEMMA CommandGoesOn ==
    ASSUME KubeInv, NEW c \in Clis, ~Kube!At(c, "resting"),
           NEW at \in CliStages, at # "resting",
           cli' = [cli EXCEPT ![c].at = at],
           UNCHANGED <<commands, overlapped>>, Entries',
           DOMAIN clusters' = DOMAIN clusters, DOMAIN users' = DOMAIN users,
           DOMAIN contexts' = DOMAIN contexts, SeenTo(c)'
    PROVE  KubeInv'
<1>1. cli'[c] = [cli[c] EXCEPT !.at = at]
  BY DEF KubeInv, KubeTypes
<1>2. cli[c] = [at |-> cli[c].at, target |-> cli[c].target,
                sub |-> cli[c].sub, bin |-> cli[c].bin]
  BY DEF KubeInv, KubeTypes, Command, Kube!At
<1>3. cli'[c] = [at |-> at, target |-> cli[c].target,
                 sub |-> cli[c].sub, bin |-> cli[c].bin]
  BY <1>1, <1>2
<1>4. Command(c)'
  BY <1>3 DEF KubeInv, KubeTypes, Command, Kube!At
<1>5. \A d \in Clis \ {c} : cli'[d] = cli[d]
  BY DEF KubeInv, KubeTypes
<1>6. \A d \in Clis : Command(d)'
  BY <1>4, <1>5 DEF KubeInv, KubeTypes, Command
<1>7. cli' = [d \in Clis |-> cli'[d]]
  BY DEF KubeInv, KubeTypes
<1>8. KubeTypes'
  BY <1>6, <1>7 DEF KubeInv, KubeTypes, Kube!ClusterKeys, Kube!UserKeys, Kube!ContextKeys
<1>9. \A d \in Clis : d # c => overlapped[d] \/ cli[d].at = "resting"
  BY DEF KubeInv, Alone, Kube!At
<1>10. Alone'
  BY <1>3, <1>5, <1>9 DEF KubeInv, Alone, Kube!At
<1>11. \A d \in Clis : SeenTo(d)'
  BY <1>5, <1>9 DEF SeenTo
<1> QED
  BY <1>8, <1>10, <1>11 DEF KubeInv

\* What is known of a command that runs.
LEMMA OfCommand ==
    ASSUME KubeInv, NEW c \in Clis, ~Kube!At(c, "resting")
    PROVE  \E t \in Targets : \E sub \in t.subs, bin \in Binaries :
              cli[c] = [at |-> cli[c].at, target |-> t, sub |-> sub, bin |-> bin]
BY DEF KubeInv, KubeTypes, Command, Kube!At

\* Entries that are not written stay what they are.
LEMMA EntriesStay ==
    ASSUME Entries
    PROVE  /\ clusters' = clusters => \A k \in Kube!ClusterKeys : ClusterEntry(k)'
           /\ users' = users => \A k \in Kube!UserKeys : UserEntry(k)'
           /\ contexts' = contexts => \A k \in Kube!ContextKeys : ContextEntry(k)'
<1>1. clusters' = clusters => \A k \in Kube!ClusterKeys : ClusterEntry(k)'
  BY DEF Entries, ClusterEntry
<1>2. users' = users => \A k \in Kube!UserKeys : UserEntry(k)'
  BY DEF Entries, UserEntry
<1>3. contexts' = contexts => \A k \in Kube!ContextKeys : ContextEntry(k)'
  BY DEF Entries, ContextEntry
<1> QED
  BY <1>1, <1>2, <1>3

\* The entries are sound if those of each kind are.
LEMMA EntriesNext ==
    ASSUME \A k \in Kube!ClusterKeys : ClusterEntry(k)',
           \A k \in Kube!UserKeys : UserEntry(k)',
           \A k \in Kube!ContextKeys : ContextEntry(k)'
    PROVE  Entries'
BY DEF Entries, Kube!ClusterKeys, Kube!UserKeys, Kube!ContextKeys

----------------------------------------------------------------------------

\* The cluster entry that is kept leads to the server (ViewCluster).
LEMMA ViewClusterStep ==
    ASSUME Kube!KeysApart, KubeInv, NEW c \in Clis, Kube!ViewCluster(c)
    PROVE  KubeInv'
<1>0. ~Kube!At(c, "resting") /\ cli[c].at # "resting"
  BY DEF Kube!ViewCluster, Kube!At
<1>a. PICK t \in Targets : \E sub \in t.subs, bin \in Binaries :
         cli[c] = [at |-> cli[c].at, target |-> t, sub |-> sub, bin |-> bin]
  BY <1>0, OfCommand
<1>b. PICK sub \in t.subs, bin \in Binaries :
         cli[c] = [at |-> cli[c].at, target |-> t, sub |-> sub, bin |-> bin]
  BY <1>a
<1>c. cli[c].target = t /\ cli[c].sub = sub /\ cli[c].bin = bin
  BY <1>b
<1> DEFINE e == clusters[Kube!ClusterKey(t)]
<1>1. ~Kube!At(c, "resting") /\ t \in Targets
  BY <1>0
<1>2. PICK at \in {"viewUser", "setCluster"} :
        /\ cli' = [cli EXCEPT ![c].at = at]
        /\ at = "viewUser" => e # Kube!None /\ ~t.local
                                /\ (e.server = t.server \/ ~e.podplane)
  BY <1>c DEF Kube!ViewCluster, Kube!Goto, Kube!Mine
<1>3. at = "viewUser" => ClusterIsSet(t)
  <2> SUFFICES ASSUME at = "viewUser" PROVE ClusterIsSet(t)
    OBVIOUS
  <2>1. PICK u \in Targets : /\ Kube!ClusterKey(t) = Kube!ClusterKey(u)
                             /\ e = [server |-> u.server, podplane |-> u.podplane]
    BY <1>1, <1>2, KeysAreKeys DEF KubeInv, Entries, ClusterEntry
  <2>2. u.server = t.server \/ u.podplane
    BY <1>1, <1>2, <2>1 DEF Kube!KeysApart
  <2> QED
    BY <1>2, <2>1, <2>2 DEF ClusterIsSet
<1>4. cli'[c] = [at |-> at, target |-> t, sub |-> sub, bin |-> bin]
  <2>1. cli'[c] = [cli[c] EXCEPT !.at = at]
    BY <1>2 DEF KubeInv, KubeTypes
  <2> QED
    BY <1>b, <2>1
<1> HIDE DEF e
<1>5. SeenTo(c)'
  BY <1>2, <1>3, <1>4 DEF SeenTo, ClusterIsSet, Kube!ViewCluster
<1>6. Entries'
  BY EntriesStay, EntriesNext DEF KubeInv, Kube!ViewCluster
<1>7. at \in CliStages /\ at # "resting"
  BY DEF CliStages
<1> QED
  BY <1>1, <1>2, <1>5, <1>6, <1>7, CommandGoesOn DEF Kube!ViewCluster

\* A cluster entry is written (SetCluster).
LEMMA SetClusterStep ==
    ASSUME KubeInv, NEW c \in Clis, Kube!SetCluster(c)
    PROVE  KubeInv'
<1>0. ~Kube!At(c, "resting") /\ cli[c].at # "resting"
  BY DEF Kube!SetCluster, Kube!At
<1>a. PICK t \in Targets : \E sub \in t.subs, bin \in Binaries :
         cli[c] = [at |-> cli[c].at, target |-> t, sub |-> sub, bin |-> bin]
  BY <1>0, OfCommand
<1>b. PICK sub \in t.subs, bin \in Binaries :
         cli[c] = [at |-> cli[c].at, target |-> t, sub |-> sub, bin |-> bin]
  BY <1>a
<1>c. cli[c].target = t /\ cli[c].sub = sub /\ cli[c].bin = bin
  BY <1>b
<1> DEFINE k == Kube!ClusterKey(t)
           new == [server |-> t.server, podplane |-> t.podplane]
<1>1. ~Kube!At(c, "resting") /\ t \in Targets
  BY <1>0
<1>2. clusters' = [clusters EXCEPT ![k] = new] /\ cli' = [cli EXCEPT ![c].at = "viewUser"]
  BY <1>c DEF Kube!SetCluster, Kube!Goto, Kube!Mine
<1>3. /\ clusters'[k] = new
      /\ \A j \in Kube!ClusterKeys : j # k => clusters'[j] = clusters[j]
  BY <1>1, <1>2, KeysAreKeys DEF KubeInv, KubeTypes
<1>4. ClusterIsSet(t)'
  BY <1>3, EntriesAreEntries DEF ClusterIsSet
<1>5. cli'[c] = [at |-> "viewUser", target |-> t, sub |-> sub, bin |-> bin]
  <2>1. cli'[c] = [cli[c] EXCEPT !.at = "viewUser"]
    BY <1>2 DEF KubeInv, KubeTypes
  <2> QED
    BY <1>b, <2>1
<1>6. \A j \in Kube!ClusterKeys : ClusterEntry(j)'
  <2> SUFFICES ASSUME NEW j \in Kube!ClusterKeys PROVE ClusterEntry(j)'
    BY DEF Kube!ClusterKeys
  <2>1. CASE j = k
    BY <1>1, <1>3, <2>1 DEF ClusterEntry
  <2>2. CASE j # k
    BY <1>3, <2>2 DEF ClusterEntry, KubeInv, Entries
  <2> QED
    BY <2>1, <2>2
<1> HIDE DEF k, new
<1>7. SeenTo(c)'
  BY <1>4, <1>5 DEF SeenTo, ClusterIsSet
<1>8. Entries'
  BY <1>6, EntriesStay, EntriesNext DEF KubeInv, Kube!SetCluster
<1> QED
  BY <1>1, <1>2, <1>7, <1>8, CommandGoesOn DEF Kube!SetCluster, CliStages

\* The user entry that is kept is that of this subject and binary (ViewUser).
LEMMA ViewUserStep ==
    ASSUME Kube!KeysApart, KubeInv, NEW c \in Clis, Kube!ViewUser(c)
    PROVE  KubeInv'
<1>0. ~Kube!At(c, "resting") /\ cli[c].at # "resting"
  BY DEF Kube!ViewUser, Kube!At
<1>a. PICK t \in Targets : \E sub \in t.subs, bin \in Binaries :
         cli[c] = [at |-> cli[c].at, target |-> t, sub |-> sub, bin |-> bin]
  BY <1>0, OfCommand
<1>b. PICK sub \in t.subs, bin \in Binaries :
         cli[c] = [at |-> cli[c].at, target |-> t, sub |-> sub, bin |-> bin]
  BY <1>a
<1>c. cli[c].target = t /\ cli[c].sub = sub /\ cli[c].bin = bin
  BY <1>b
<1> DEFINE e == users[Kube!CredentialsKey(t, sub)]
<1>1. ~Kube!At(c, "resting") /\ t \in Targets
  BY <1>0
<1>2. PICK at \in {"viewContext", "setUser"} :
        /\ cli' = [cli EXCEPT ![c].at = at]
        /\ at = "viewContext" => e # Kube!None /\ e.bin = bin
  BY <1>c DEF Kube!ViewUser, Kube!Goto, Kube!Mine
<1>3. at = "viewContext" => UserIsSet(t, sub, bin)
  <2> SUFFICES ASSUME at = "viewContext" PROVE UserIsSet(t, sub, bin)
    OBVIOUS
  <2>1. PICK u \in Targets : \E other \in u.subs, b \in Binaries :
          /\ Kube!CredentialsKey(t, sub) = Kube!CredentialsKey(u, other)
          /\ e = [bin |-> b, id |-> u.id, local |-> u.local, sub |-> other]
    BY <1>1, <1>2, KeysAreKeys DEF KubeInv, Entries, UserEntry
  <2>2. PICK other \in u.subs, b \in Binaries :
          /\ Kube!CredentialsKey(t, sub) = Kube!CredentialsKey(u, other)
          /\ e = [bin |-> b, id |-> u.id, local |-> u.local, sub |-> other]
    BY <2>1
  <2>3. t.id = u.id /\ t.local = u.local /\ sub = other
    BY <1>1, <2>2 DEF Kube!KeysApart
  <2>4. e.bin = bin
    BY <1>2
  <2>5. b = bin
    BY <2>2, <2>4
  <2> QED
    BY <2>2, <2>3, <2>5 DEF UserIsSet
<1>4. cli'[c] = [at |-> at, target |-> t, sub |-> sub, bin |-> bin]
  <2>1. cli'[c] = [cli[c] EXCEPT !.at = at]
    BY <1>2 DEF KubeInv, KubeTypes
  <2> QED
    BY <1>b, <2>1
<1>5. ~overlapped[c] => ClusterIsSet(t)
  BY <1>c DEF KubeInv, SeenTo, Kube!ViewUser, Kube!At
<1> HIDE DEF e
<1>6. SeenTo(c)'
  BY <1>2, <1>3, <1>4, <1>5 DEF SeenTo, ClusterIsSet, UserIsSet, Kube!ViewUser
<1>7. Entries'
  BY EntriesStay, EntriesNext DEF KubeInv, Kube!ViewUser
<1>8. at \in CliStages /\ at # "resting"
  BY DEF CliStages
<1> QED
  BY <1>1, <1>2, <1>6, <1>7, <1>8, CommandGoesOn DEF Kube!ViewUser

\* A user entry is written (SetUser).
LEMMA SetUserStep ==
    ASSUME KubeInv, NEW c \in Clis, Kube!SetUser(c)
    PROVE  KubeInv'
<1>0. ~Kube!At(c, "resting") /\ cli[c].at # "resting"
  BY DEF Kube!SetUser, Kube!At
<1>a. PICK t \in Targets : \E sub \in t.subs, bin \in Binaries :
         cli[c] = [at |-> cli[c].at, target |-> t, sub |-> sub, bin |-> bin]
  BY <1>0, OfCommand
<1>b. PICK sub \in t.subs, bin \in Binaries :
         cli[c] = [at |-> cli[c].at, target |-> t, sub |-> sub, bin |-> bin]
  BY <1>a
<1>c. cli[c].target = t /\ cli[c].sub = sub /\ cli[c].bin = bin
  BY <1>b
<1> DEFINE k == Kube!CredentialsKey(t, sub)
           new == [bin |-> bin, id |-> t.id, local |-> t.local, sub |-> sub]
<1>1. ~Kube!At(c, "resting") /\ t \in Targets
  BY <1>0
<1>2. users' = [users EXCEPT ![k] = new] /\ cli' = [cli EXCEPT ![c].at = "viewContext"]
  BY <1>c DEF Kube!SetUser, Kube!Goto, Kube!Mine
<1>3. /\ users'[k] = new
      /\ \A j \in Kube!UserKeys : j # k => users'[j] = users[j]
  BY <1>1, <1>2, KeysAreKeys DEF KubeInv, KubeTypes
<1>4. UserIsSet(t, sub, bin)'
  BY <1>3 DEF UserIsSet
<1>5. cli'[c] = [at |-> "viewContext", target |-> t, sub |-> sub, bin |-> bin]
  <2>1. cli'[c] = [cli[c] EXCEPT !.at = "viewContext"]
    BY <1>2 DEF KubeInv, KubeTypes
  <2> QED
    BY <1>b, <2>1
<1>6. \A j \in Kube!UserKeys : UserEntry(j)'
  <2> SUFFICES ASSUME NEW j \in Kube!UserKeys PROVE UserEntry(j)'
    BY DEF Kube!UserKeys
  <2>1. CASE j = k
    BY <1>1, <1>3, <2>1 DEF UserEntry
  <2>2. CASE j # k
    <3>1. users'[j] = users[j] /\ UserEntry(j)
      BY <1>3, <2>2 DEF KubeInv, Entries
    <3> QED
      BY <3>1 DEF UserEntry
  <2> QED
    BY <2>1, <2>2
<1>7. ~overlapped[c] => ClusterIsSet(t)
  BY <1>c DEF KubeInv, SeenTo, Kube!SetUser, Kube!At
<1> HIDE DEF k, new
<1>8. SeenTo(c)'
  BY <1>4, <1>5, <1>7 DEF SeenTo, ClusterIsSet, UserIsSet, Kube!SetUser
<1>9. Entries'
  BY <1>6, EntriesStay, EntriesNext DEF KubeInv, Kube!SetUser
<1> QED
  BY <1>1, <1>2, <1>8, <1>9, CommandGoesOn DEF Kube!SetUser, CliStages

\* The context that is kept names this cluster and user (ViewContext).
LEMMA ViewContextStep ==
    ASSUME Kube!KeysApart, KubeInv, NEW c \in Clis, Kube!ViewContext(c)
    PROVE  KubeInv'
<1>0. ~Kube!At(c, "resting") /\ cli[c].at # "resting"
  BY DEF Kube!ViewContext, Kube!At
<1>a. PICK t \in Targets : \E sub \in t.subs, bin \in Binaries :
         cli[c] = [at |-> cli[c].at, target |-> t, sub |-> sub, bin |-> bin]
  BY <1>0, OfCommand
<1>b. PICK sub \in t.subs, bin \in Binaries :
         cli[c] = [at |-> cli[c].at, target |-> t, sub |-> sub, bin |-> bin]
  BY <1>a
<1>c. cli[c].target = t /\ cli[c].sub = sub /\ cli[c].bin = bin
  BY <1>b
<1> DEFINE e == contexts[Kube!ContextKey(t)]
<1>1. ~Kube!At(c, "resting") /\ t \in Targets
  BY <1>0
<1>2. PICK at \in {"configured", "setContext"} :
        /\ cli' = [cli EXCEPT ![c].at = at]
        /\ at = "configured" => Kube!KeepContext(e, t, sub)
  BY <1>c DEF Kube!ViewContext, Kube!Goto, Kube!Mine
<1>3. ~overlapped[c] => ClusterIsSet(t) /\ UserIsSet(t, sub, bin)
  BY <1>c DEF KubeInv, SeenTo, Kube!ViewContext, Kube!At
<1>4. at = "configured" /\ ~overlapped[c] => Kube!LeadsTo(t, sub, bin)
  <2> SUFFICES ASSUME at = "configured", ~overlapped[c] PROVE Kube!LeadsTo(t, sub, bin)
    OBVIOUS
  <2>1. e # Kube!None
    BY <1>2 DEF Kube!KeepContext
  <2>a. PICK u \in Targets : \E other \in u.subs :
          /\ Kube!ContextKey(t) = Kube!ContextKey(u)
          /\ e = [cluster |-> Kube!ClusterKey(u), user |-> Kube!CredentialsKey(u, other)]
    BY <1>1, <2>1, KeysAreKeys DEF KubeInv, Entries, ContextEntry
  <2>2. Kube!ContextKey(t) = Kube!ContextKey(u) /\ e.cluster = Kube!ClusterKey(u)
    BY <2>a
  <2>3. e.cluster = Kube!ClusterKey(t)
    BY <1>1, <2>2 DEF Kube!KeysApart
  <2>4. e.user = Kube!CredentialsKey(t, sub)
    BY <1>2, <2>3 DEF Kube!KeepContext
  <2> QED
    BY <1>3, <2>1, <2>3, <2>4 DEF Kube!LeadsTo, ClusterIsSet, UserIsSet
<1>5. cli'[c] = [at |-> at, target |-> t, sub |-> sub, bin |-> bin]
  <2>1. cli'[c] = [cli[c] EXCEPT !.at = at]
    BY <1>2 DEF KubeInv, KubeTypes
  <2> QED
    BY <1>b, <2>1
<1> HIDE DEF e
<1>6. SeenTo(c)'
  BY <1>2, <1>3, <1>4, <1>5
     DEF SeenTo, ClusterIsSet, UserIsSet, Kube!ViewContext, Kube!LeadsTo
<1>7. Entries'
  BY EntriesStay, EntriesNext DEF KubeInv, Kube!ViewContext
<1>8. at \in CliStages /\ at # "resting"
  BY DEF CliStages
<1> QED
  BY <1>1, <1>2, <1>6, <1>7, <1>8, CommandGoesOn DEF Kube!ViewContext

\* A context is written (SetContext).
LEMMA SetContextStep ==
    ASSUME KubeInv, NEW c \in Clis, Kube!SetContext(c)
    PROVE  KubeInv'
<1>0. ~Kube!At(c, "resting") /\ cli[c].at # "resting"
  BY DEF Kube!SetContext, Kube!At
<1>a. PICK t \in Targets : \E sub \in t.subs, bin \in Binaries :
         cli[c] = [at |-> cli[c].at, target |-> t, sub |-> sub, bin |-> bin]
  BY <1>0, OfCommand
<1>b. PICK sub \in t.subs, bin \in Binaries :
         cli[c] = [at |-> cli[c].at, target |-> t, sub |-> sub, bin |-> bin]
  BY <1>a
<1>c. cli[c].target = t /\ cli[c].sub = sub /\ cli[c].bin = bin
  BY <1>b
<1> DEFINE k == Kube!ContextKey(t)
           new == [cluster |-> Kube!ClusterKey(t), user |-> Kube!CredentialsKey(t, sub)]
<1>1. ~Kube!At(c, "resting") /\ t \in Targets
  BY <1>0
<1>2. contexts' = [contexts EXCEPT ![k] = new] /\ cli' = [cli EXCEPT ![c].at = "configured"]
  BY <1>c DEF Kube!SetContext, Kube!Goto, Kube!Mine
<1>3. /\ contexts'[k] = new
      /\ \A j \in Kube!ContextKeys : j # k => contexts'[j] = contexts[j]
  BY <1>1, <1>2, KeysAreKeys DEF KubeInv, KubeTypes
<1>4. ~overlapped[c] => ClusterIsSet(t) /\ UserIsSet(t, sub, bin)
  BY <1>c DEF KubeInv, SeenTo, Kube!SetContext, Kube!At
<1>5. ~overlapped[c] => Kube!LeadsTo(t, sub, bin)'
  BY <1>3, <1>4, EntriesAreEntries
     DEF Kube!LeadsTo, ClusterIsSet, UserIsSet, Kube!SetContext
<1>6. cli'[c] = [at |-> "configured", target |-> t, sub |-> sub, bin |-> bin]
  <2>1. cli'[c] = [cli[c] EXCEPT !.at = "configured"]
    BY <1>2 DEF KubeInv, KubeTypes
  <2> QED
    BY <1>b, <2>1
<1>7. \A j \in Kube!ContextKeys : ContextEntry(j)'
  <2> SUFFICES ASSUME NEW j \in Kube!ContextKeys PROVE ContextEntry(j)'
    BY DEF Kube!ContextKeys
  <2>1. CASE j = k
    BY <1>1, <1>3, <2>1 DEF ContextEntry
  <2>2. CASE j # k
    BY <1>3, <2>2 DEF ContextEntry, KubeInv, Entries
  <2> QED
    BY <2>1, <2>2
<1> HIDE DEF k, new
<1>8. SeenTo(c)'
  BY <1>5, <1>6 DEF SeenTo, Kube!LeadsTo, Kube!SetContext
<1>9. Entries'
  BY <1>7, EntriesStay, EntriesNext DEF KubeInv, Kube!SetContext
<1> QED
  BY <1>1, <1>2, <1>8, <1>9, CommandGoesOn DEF Kube!SetContext, CliStages

\* What logout deletes claims nothing (DelContext, DelCluster, DelUser).
LEMMA DeleteAccessStep ==
    ASSUME KubeInv, NEW c \in Clis,
           Kube!DelContext(c) \/ Kube!DelCluster(c) \/ Kube!DelUser(c)
    PROVE  KubeInv'
<1>1. ~Kube!At(c, "resting")
  BY DEF Kube!DelContext, Kube!DelCluster, Kube!DelUser, Kube!At
<1>2. PICK at \in {"delCluster", "delUser", "deleted"} : cli' = [cli EXCEPT ![c].at = at]
  BY DEF Kube!DelContext, Kube!DelCluster, Kube!DelUser, Kube!Goto
<1>3. cli'[c].at = at
  <2>1. cli'[c] = [cli[c] EXCEPT !.at = at]
    BY <1>2 DEF KubeInv, KubeTypes
  <2>2. PICK t, sub, bin :
          cli[c] = [at |-> cli[c].at, target |-> t, sub |-> sub, bin |-> bin]
    BY <1>1, OfCommand
  <2> QED
    BY <2>1, <2>2
<1>4. /\ \A k \in Kube!ClusterKeys : clusters'[k] \in {clusters[k], Kube!None}
      /\ \A k \in Kube!UserKeys : users'[k] \in {users[k], Kube!None}
      /\ \A k \in Kube!ContextKeys : contexts'[k] \in {contexts[k], Kube!None}
  BY DEF Kube!DelContext, Kube!DelCluster, Kube!DelUser, KubeInv, KubeTypes
<1>5. Entries'
  <2>1. \A k \in Kube!ClusterKeys : ClusterEntry(k)'
    BY <1>4 DEF KubeInv, Entries, ClusterEntry
  <2>2. \A k \in Kube!UserKeys : UserEntry(k)'
    BY <1>4 DEF KubeInv, Entries, UserEntry
  <2>3. \A k \in Kube!ContextKeys : ContextEntry(k)'
    BY <1>4 DEF KubeInv, Entries, ContextEntry
  <2> QED
    BY <2>1, <2>2, <2>3, EntriesNext
<1>6. SeenTo(c)'
  BY <1>3 DEF SeenTo
<1>7. /\ DOMAIN clusters' = DOMAIN clusters /\ DOMAIN users' = DOMAIN users
      /\ DOMAIN contexts' = DOMAIN contexts /\ UNCHANGED <<commands, overlapped>>
  BY DEF Kube!DelContext, Kube!DelCluster, Kube!DelUser
<1> QED
  BY <1>1, <1>2, <1>5, <1>6, <1>7, CommandGoesOn DEF CliStages

\* A command that begins while another one runs is not alone (Start).
LEMMA StartCommandStep ==
    ASSUME KubeInv, NEW c \in Clis, NEW op, NEW t \in Targets, NEW sub \in t.subs,
           NEW bin \in Binaries, Kube!Start(c, op, t, sub, bin)
    PROVE  KubeInv'
<1>1. PICK at \in {"viewCluster", "delContext"} :
        cli' = [cli EXCEPT ![c] = [at |-> at, target |-> t, sub |-> sub, bin |-> bin]]
  BY DEF Kube!Start
<1>2. cli'[c] = [at |-> at, target |-> t, sub |-> sub, bin |-> bin]
  BY <1>1 DEF KubeInv, KubeTypes
<1>3. \A d \in Clis \ {c} : cli'[d] = cli[d]
  BY <1>1 DEF KubeInv, KubeTypes
<1>4. /\ overlapped' \in [Clis -> BOOLEAN]
      /\ ~overlapped'[c] => \A d \in Clis \ {c} : cli[d].at = "resting"
      /\ \A d \in Clis \ {c} : overlapped'[d] \/ cli[d].at = "resting"
  BY DEF Kube!Start, Kube!At, KubeInv, KubeTypes
<1>5. Command(c)'
  BY <1>2 DEF Command, CliStages
<1>6. \A d \in Clis : Command(d)'
  BY <1>3, <1>5 DEF KubeInv, KubeTypes, Command
<1>7. commands' \in 0..MaxCommands
  BY ConstantsAssumption DEF Kube!Start, KubeInv, KubeTypes
<1>8. KubeTypes'
  BY <1>1, <1>4, <1>6, <1>7
     DEF KubeInv, KubeTypes, Kube!Start, Kube!ClusterKeys, Kube!UserKeys, Kube!ContextKeys
<1>9. Entries'
  BY EntriesStay, EntriesNext DEF KubeInv, Kube!Start
<1>10. Alone'
  BY <1>2, <1>3, <1>4 DEF Alone, Kube!At
<1>11. \A d \in Clis : SeenTo(d)'
  BY <1>2, <1>3, <1>4 DEF SeenTo
<1> QED
  BY <1>8, <1>9, <1>10, <1>11 DEF KubeInv

\* A command ends, or is killed (End).
LEMMA EndCommandStep ==
    ASSUME KubeInv, NEW c \in Clis, Kube!End(c)
    PROVE  KubeInv'
<1>1. cli'[c].at = "resting"
  BY DEF Kube!End, Kube!Resting, KubeInv, KubeTypes
<1>2. \A d \in Clis \ {c} : cli'[d] = cli[d]
  BY DEF Kube!End, KubeInv, KubeTypes
<1>3. \A d \in Clis : Command(d)'
  BY <1>1, <1>2 DEF KubeInv, KubeTypes, Command, CliStages
<1>4. KubeTypes'
  BY <1>3 DEF KubeInv, KubeTypes, Kube!End, Kube!ClusterKeys, Kube!UserKeys, Kube!ContextKeys
<1>5. Entries'
  BY EntriesStay, EntriesNext DEF KubeInv, Kube!End
<1>6. Alone'
  BY <1>1, <1>2 DEF KubeInv, Alone, Kube!At, Kube!End
<1>7. \A d \in Clis : SeenTo(d)'
  <2> SUFFICES ASSUME NEW d \in Clis PROVE SeenTo(d)'
    OBVIOUS
  <2>1. CASE d = c
    BY <1>1, <2>1 DEF SeenTo
  <2>2. CASE d # c
    BY <1>2, <2>2 DEF SeenTo, KubeInv, ClusterIsSet, UserIsSet, Kube!LeadsTo, Kube!End
  <2> QED
    BY <2>1, <2>2
<1> QED
  BY <1>4, <1>5, <1>6, <1>7 DEF KubeInv

\* Every step keeps the invariant.
LEMMA KubeStep == KubeInv /\ [Kube!Next]_kubeVars => KubeInv'
<1> SUFFICES ASSUME KubeInv, [Kube!Next]_kubeVars PROVE KubeInv'
  OBVIOUS
<1>0. Kube!KeysApart
  BY TargetsApart
<1>1. CASE UNCHANGED kubeVars
  <2>1. Entries'
    BY <1>1, EntriesStay, EntriesNext DEF KubeInv, kubeVars
  <2>2. KubeTypes'
    BY <1>1 DEF kubeVars, KubeInv, KubeTypes, Command, Kube!ClusterKeys,
       Kube!UserKeys, Kube!ContextKeys
  <2>3. Alone' /\ \A c \in Clis : SeenTo(c)'
    BY <1>1 DEF kubeVars, KubeInv, Alone, SeenTo, ClusterIsSet, UserIsSet,
       Kube!LeadsTo, Kube!At
  <2> QED
    BY <2>1, <2>2, <2>3 DEF KubeInv
<1>2. CASE Kube!Next
  <2>1. PICK c \in Clis :
          \/ \E op \in {"login", "logout"}, t \in Targets, bin \in Binaries :
               \E sub \in t.subs : Kube!Start(c, op, t, sub, bin)
          \/ Kube!ViewCluster(c) \/ Kube!SetCluster(c) \/ Kube!ViewUser(c)
          \/ Kube!SetUser(c) \/ Kube!ViewContext(c) \/ Kube!SetContext(c)
          \/ Kube!DelContext(c) \/ Kube!DelCluster(c) \/ Kube!DelUser(c) \/ Kube!End(c)
    BY <1>2 DEF Kube!Next
  <2>2. CASE \E op \in {"login", "logout"}, t \in Targets, bin \in Binaries :
               \E sub \in t.subs : Kube!Start(c, op, t, sub, bin)
    <3>1. PICK op \in {"login", "logout"}, t \in Targets, bin \in Binaries :
               \E sub \in t.subs : Kube!Start(c, op, t, sub, bin)
      BY <2>2
    <3>2. PICK sub \in t.subs : Kube!Start(c, op, t, sub, bin)
      BY <3>1
    <3> QED
      BY <3>2, StartCommandStep
  <2> QED
    BY <1>0, <2>1, <2>2, ViewClusterStep, SetClusterStep, ViewUserStep, SetUserStep,
       ViewContextStep, SetContextStep, DeleteAccessStep, EndCommandStep
<1> QED
  BY <1>1, <1>2

\* For any clusters whose names keep them apart (TargetsApart), and any commands: whoever
\* configures a cluster alone can use it afterwards, as that subject and by
\* that binary, whatever killed commands, logins and logouts have left
\* (ConfigureClusterAccess, DeleteClusterAccess).
THEOREM ConfigurationsWork == Kube!Spec => []ConfiguredWorks
<1>1. Kube!Init /\ [][Kube!Next]_kubeVars => []KubeInv
  BY KubeInitially, KubeStep, PTL
<1>2. KubeInv => ConfiguredWorks
  BY DEF KubeInv, SeenTo, ConfiguredWorks, Kube!ConfiguredWorks, Kube!At, Kube!Mine
<1> QED
  BY <1>1, <1>2, PTL DEF Kube!Spec, Kube!kvars, kubeVars

(***************************************************************************)
(* CloudBootstrap.  No version of a secret is ever lost: what an apply has *)
(* recorded, signed or uploaded stays true, whatever others do meanwhile.  *)
(* The first version of a secret of Google is added by the one who made it. *)
(***************************************************************************)

KeyRecords == [version : Nat, fingerprint : Nat]

ApplyStages == {"resting", "put", "add", "look", "empty", "prepare", "ca", "metadata",
                "sign", "emptyAgain", "secrets", "upload", "confirm", "ok"}

\* The apply has looked: nothing was below the prefix of the snapshot.
LookedStages == {"prepare", "ca", "metadata", "sign"}

\* An apply that has signed the token with the key that it has recorded.
SignedBy(a) ==
    \/ a.at \in {"emptyAgain", "secrets", "upload", "confirm"}
    \/ a.at \in {"put", "add"} /\ a.name = "component"

\* An apply that has looked again since then.
ClearedBy(a) == SignedBy(a) /\ a.at # "emptyAgain"

ApplyRecords ==
    [at : ApplyStages \ {"resting"}, no : 1..MaxApplies,
     name : {"key", "component"}, token : Nat, data : BOOLEAN] \cup {Cloud!Resting}

SecretRecords == [made : BOOLEAN, versions : Seq(Nat)]

CloudTypes ==
    /\ applies \in 0..MaxApplies /\ alive \in BOOLEAN
    /\ secret \in [{"key", "component"} -> SecretRecords]
    /\ object \in [version : 0..MaxApplies, key : KeyRecords, token : Nat]
    /\ state \in [Applies -> [key : KeyRecords, seed : 0..MaxApplies]]
    /\ apply \in [Applies -> ApplyRecords]

\* A secret that is not there has no versions; one of AWS comes with its first.
SecretsOK ==
    /\ \A n \in {"key", "component"} :
         /\ ~secret[n].made => secret[n].versions = <<>>
         /\ backend # "google" /\ secret[n].made => secret[n].versions # <<>>
    /\ ~rotated => Len(secret["key"].versions) <= 1

\* Who is about to add a first version of a secret has made it, and is alone.
AddingOK ==
    \A p \in Applies : Cloud!At(p, "add") =>
       /\ backend = "google" /\ secret[apply[p].name].made
       /\ secret[apply[p].name].versions = <<>>
       /\ \A q \in Applies : Cloud!At(q, "add") /\ apply[q].name = apply[p].name => q = p

RecordedOK(p) ==
    LET k == state[p].key  all == secret["key"].versions
    IN  k # Cloud!NoKey => k.version \in DOMAIN all /\ k.fingerprint = all[k.version]

SeedOK ==
    /\ object # Cloud!NoObject =>
         /\ object.version # 0 /\ object.key.version \in DOMAIN secret["key"].versions
         /\ object.token = secret["key"].versions[object.key.version]
         /\ secret["component"].versions # <<>>
    /\ \A p \in Applies : state[p].seed # 0 =>
         /\ object.version = state[p].seed /\ object.key = state[p].key
         /\ state[p].key # Cloud!NoKey

ApplyOK(a, k) ==
    /\ a.at \in {"put", "add"} /\ a.name = "key" => k = Cloud!NoKey
    /\ a.at \in LookedStages \cup {"look", "empty"} \/ SignedBy(a) => k # Cloud!NoKey
    /\ SignedBy(a) => (a.data => alive)
    /\ ClearedBy(a) => ~a.data
    /\ SignedBy(a) => a.token = secret["key"].versions[k.version]
    /\ a.at \in {"upload", "confirm"} => secret["component"].versions # <<>>

CloudInv ==
    /\ CloudTypes /\ SecretsOK /\ AddingOK /\ SeedOK
    /\ \A p \in Applies : RecordedOK(p) /\ ApplyOK(apply[p], state[p].key)

----------------------------------------------------------------------------

\* The invariant holds of a cloud with no secrets but perhaps a foreign one.
LEMMA CloudInitially == Cloud!Init => CloudInv
<1> SUFFICES ASSUME Cloud!Init PROVE CloudInv
  OBVIOUS
<1>1. PICK v \in {<<>>, <<0>>} :
         secret = [n \in {"key", "component"} |->
            [made |-> n = "key" /\ v # <<>>, versions |-> IF n = "key" THEN v ELSE <<>>]]
  BY DEF Cloud!Init, Cloud!Foreign
<1>2. /\ secret["key"] = [made |-> v # <<>>, versions |-> v]
      /\ secret["component"] = [made |-> FALSE, versions |-> <<>>]
      /\ DOMAIN secret = {"key", "component"}
  <2>1. "key" # "component"
    OBVIOUS
  <2> QED
    BY <1>1, <2>1
<1>3. v \in Seq(Nat) /\ Len(v) <= 1 /\ <<>> \in Seq(Nat)
  <2>1. <<>> \in Seq(Nat) /\ Len(<<>>) = 0
    OBVIOUS
  <2>2. <<0>> \in Seq(Nat) /\ Len(<<0>>) = 1
    OBVIOUS
  <2>3. CASE v = <<>>
    BY <2>1, <2>3
  <2>4. CASE v = <<0>>
    BY <2>1, <2>2, <2>4
  <2> QED
    BY <2>3, <2>4
<1>4. secret \in [{"key", "component"} -> SecretRecords]
  BY <1>1, <1>3 DEF SecretRecords
<1>5. /\ object \in [version : 0..MaxApplies, key : KeyRecords, token : Nat]
      /\ object = Cloud!NoObject
  BY ConstantsAssumption DEF Cloud!Init, Cloud!NoObject, Cloud!NoKey, KeyRecords
<1>6. /\ state \in [Applies -> [key : KeyRecords, seed : 0..MaxApplies]]
      /\ \A p \in Applies : state[p].key = Cloud!NoKey /\ state[p].seed = 0
  BY ConstantsAssumption DEF Cloud!Init, Cloud!NoKey, KeyRecords
<1>7. /\ apply \in [Applies -> ApplyRecords]
      /\ \A p \in Applies : apply[p] = Cloud!Resting /\ apply[p].at = "resting"
  BY DEF Cloud!Init, ApplyRecords, Cloud!Resting
<1>8. CloudTypes
  BY <1>4, <1>5, <1>6, <1>7, ConstantsAssumption DEF CloudTypes, Cloud!Init
<1>9. SecretsOK
  <2>1. ~secret["component"].made /\ secret["component"].versions = <<>>
    BY <1>2
  <2>2. secret["key"].versions = v /\ (secret["key"].made <=> v # <<>>)
    <3>1. PICK m : m = (v # <<>>)
      OBVIOUS
    <3>2. secret["key"] = [made |-> m, versions |-> v]
      BY <1>2, <3>1
    <3>3. secret["key"].versions = v /\ secret["key"].made = m
      BY <3>2
    <3> QED
      BY <3>1, <3>3
  <2>3. ASSUME NEW n \in {"key", "component"}
        PROVE  /\ ~secret[n].made => secret[n].versions = <<>>
               /\ backend # "google" /\ secret[n].made => secret[n].versions # <<>>
    <3>1. CASE n = "key"
      BY <2>2, <3>1
    <3>2. CASE n = "component"
      BY <2>1, <3>2
    <3> QED
      BY <3>1, <3>2
  <2> QED
    BY <1>3, <2>2, <2>3 DEF SecretsOK
<1>10. AddingOK /\ SeedOK /\ \A p \in Applies : RecordedOK(p) /\ ApplyOK(apply[p], state[p].key)
  BY <1>5, <1>6, <1>7 DEF AddingOK, SeedOK, RecordedOK, ApplyOK, SignedBy, ClearedBy, LookedStages, Cloud!At
<1> QED
  BY <1>8, <1>9, <1>10 DEF CloudInv

----------------------------------------------------------------------------
(* What is common to the steps.                                            *)

\* No version of a secret is ever lost or replaced.
Grows ==
    \A n \in {"key", "component"} :
       /\ secret[n].versions # <<>> => secret'[n].versions # <<>>
       /\ \A i \in DOMAIN secret[n].versions :
            /\ i \in DOMAIN secret'[n].versions
            /\ secret'[n].versions[i] = secret[n].versions[i]

\* What an apply holds, it holds also when versions are added.
LEMMA ApplyStays ==
    ASSUME CloudInv, Grows, alive => alive', NEW p \in Applies, NEW a, NEW k,
           ApplyOK(a, k), k # Cloud!NoKey => k.version \in DOMAIN secret["key"].versions
    PROVE  ApplyOK(a, k)'
BY DEF ApplyOK, Grows, LookedStages

\* One apply moves.
LEMMA OneApplyMoves ==
    ASSUME CloudInv, NEW p \in Applies, CloudTypes', SecretsOK', AddingOK', SeedOK',
           Grows, alive => alive',
           \A q \in Applies \ {p} : apply'[q] = apply[q] /\ state'[q] = state[q],
           RecordedOK(p)', ApplyOK(apply[p], state[p].key)'
    PROVE  CloudInv'
<1> SUFFICES ASSUME NEW q \in Applies \ {p}
             PROVE  RecordedOK(q)' /\ ApplyOK(apply[q], state[q].key)'
  BY DEF CloudInv
<1>1. PICK a, k : a = apply[q] /\ k = state[q].key
  OBVIOUS
<1>2. /\ ApplyOK(a, k)
      /\ k # Cloud!NoKey => /\ k.version \in DOMAIN secret["key"].versions
                            /\ k.fingerprint = secret["key"].versions[k.version]
  BY <1>1 DEF CloudInv, RecordedOK
<1>3. ApplyOK(a, k)'
  BY <1>2, ApplyStays
<1>4. a = apply'[q] /\ k = state'[q].key
  BY <1>1
<1>5. ApplyOK(apply[q], state[q].key)'
  BY <1>3, <1>4 DEF ApplyOK
<1>6. RecordedOK(q)'
  BY <1>2, <1>4 DEF RecordedOK, Grows
<1> QED
  BY <1>5, <1>6

\* An apply moves and nothing else does.
LEMMA QuietStep ==
    ASSUME CloudInv, NEW p \in Applies, NEW v \in ApplyRecords, v.at # "add",
           apply' = [apply EXCEPT ![p] = v], ApplyOK(v, state[p].key),
           UNCHANGED <<backend, secret, object, state, alive, rotated>>,
           applies' \in 0..MaxApplies
    PROVE  CloudInv'
<1>1. apply'[p] = v /\ \A q \in Applies \ {p} : apply'[q] = apply[q]
  BY DEF CloudInv, CloudTypes
<1>2. CloudTypes'
  BY DEF CloudInv, CloudTypes
<1>3. SecretsOK' /\ SeedOK' /\ RecordedOK(p)'
  BY DEF CloudInv, SecretsOK, SeedOK, RecordedOK
<1>4. AddingOK'
  BY <1>1 DEF CloudInv, AddingOK, Cloud!At
<1>5. ApplyOK(apply[p], state[p].key)'
  BY <1>1 DEF ApplyOK
<1>6. Grows
  BY DEF Grows
<1> QED
  BY <1>1, <1>2, <1>3, <1>4, <1>5, <1>6, OneApplyMoves

\* An apply gives up or ends.
LEMMA FailStep ==
    ASSUME CloudInv, NEW p \in Applies, Cloud!Fail(p),
           UNCHANGED <<backend, secret, object, state, alive, rotated, applies>>
    PROVE  CloudInv'
<1>1. Cloud!Resting \in ApplyRecords /\ Cloud!Resting.at = "resting"
  BY DEF ApplyRecords, Cloud!Resting
<1>2. ApplyOK(Cloud!Resting, state[p].key)
  BY <1>1 DEF ApplyOK, SignedBy, ClearedBy, LookedStages
<1>3. applies' \in 0..MaxApplies
  BY DEF CloudInv, CloudTypes
<1> QED
  BY <1>1, <1>2, <1>3, QuietStep DEF Cloud!Fail

\* The record of an apply that runs.
LEMMA RunningRecord ==
    ASSUME CloudInv, NEW p \in Applies, ~Cloud!At(p, "resting")
    PROVE  apply[p] \in [at : ApplyStages \ {"resting"}, no : 1..MaxApplies,
                         name : {"key", "component"}, token : Nat, data : BOOLEAN]
BY DEF CloudInv, CloudTypes, ApplyRecords, Cloud!At, Cloud!Resting

\* An apply goes to another stage.
LEMMA ForwardStep ==
    ASSUME CloudInv, NEW p \in Applies, ~Cloud!At(p, "resting"),
           NEW at \in ApplyStages
                        \ {"resting", "add", "put", "emptyAgain", "upload", "confirm"},
           Cloud!Goto(p, at),
           UNCHANGED <<backend, secret, object, state, alive, rotated, applies>>,
           at # "ok" => state[p].key # Cloud!NoKey,
           at = "secrets" => SignedBy(apply[p]) /\ ~alive
    PROVE  CloudInv'
<1>1. PICK a, v : a = apply[p] /\ v = [a EXCEPT !.at = at]
  OBVIOUS
<1>2. a \in [at : ApplyStages \ {"resting"}, no : 1..MaxApplies,
             name : {"key", "component"}, token : Nat, data : BOOLEAN]
  BY <1>1, RunningRecord
<1>3. v \in ApplyRecords /\ v.at = at /\ v.token = a.token /\ v.data = a.data
  BY <1>1, <1>2 DEF ApplyRecords
<1>4. apply' = [apply EXCEPT ![p] = v]
  BY <1>1 DEF Cloud!Goto
<1>5. ApplyOK(a, state[p].key)
  BY <1>1 DEF CloudInv
<1>6. ApplyOK(v, state[p].key)
  BY <1>1, <1>3, <1>5 DEF ApplyOK, SignedBy, ClearedBy, LookedStages
<1>7. applies' \in 0..MaxApplies
  BY DEF CloudInv, CloudTypes
<1> QED
  BY <1>3, <1>4, <1>6, <1>7, QuietStep

\* What is known of the key of an apply that is on its way to the seed.
LEMMA KeyIsRecorded ==
    ASSUME CloudInv, NEW p \in Applies, state[p].key # Cloud!NoKey
    PROVE  /\ state[p].key.version \in DOMAIN secret["key"].versions
           /\ state[p].key.fingerprint = secret["key"].versions[state[p].key.version]
           /\ secret["key"].versions[state[p].key.version] \in Nat
<1>1. /\ state[p].key.version \in DOMAIN secret["key"].versions
      /\ state[p].key.fingerprint = secret["key"].versions[state[p].key.version]
  BY DEF CloudInv, RecordedOK
<1>2. state[p].key.fingerprint \in Nat
  BY DEF CloudInv, CloudTypes, KeyRecords
<1> QED
  BY <1>1, <1>2

\* A finished snapshot is recorded by who has recorded its key (completedSeed).
LEMMA CompletedStep ==
    ASSUME CloudInv, NEW p \in Applies, ~Cloud!At(p, "resting"), object # Cloud!NoObject,
           object.key = state[p].key, state[p].key # Cloud!NoKey,
           state' = [state EXCEPT ![p].seed = object.version], Cloud!Goto(p, "ok"),
           UNCHANGED <<backend, secret, object, alive, rotated, applies>>
    PROVE  CloudInv'
<1>1. PICK a, v : a = apply[p] /\ v = [a EXCEPT !.at = "ok"]
  OBVIOUS
<1>2. a \in [at : ApplyStages \ {"resting"}, no : 1..MaxApplies,
             name : {"key", "component"}, token : Nat, data : BOOLEAN]
  BY <1>1, RunningRecord
<1>3. v \in ApplyRecords /\ v.at = "ok"
  BY <1>1, <1>2 DEF ApplyRecords, ApplyStages
<1>4. apply' = [apply EXCEPT ![p] = v]
  BY <1>1 DEF Cloud!Goto
<1>5. PICK r, w : r = state[p] /\ w = [r EXCEPT !.seed = object.version]
  OBVIOUS
<1>6. r \in [key : KeyRecords, seed : 0..MaxApplies] /\ object.version \in 0..MaxApplies
  BY <1>5 DEF CloudInv, CloudTypes
<1>7. w \in [key : KeyRecords, seed : 0..MaxApplies] /\ w.key = r.key /\ w.seed = object.version
  BY <1>5, <1>6
<1>8. state' = [state EXCEPT ![p] = w]
  BY <1>5
<1>9. /\ state'[p] = w /\ apply'[p] = v
      /\ \A q \in Applies \ {p} : state'[q] = state[q] /\ apply'[q] = apply[q]
  BY <1>4, <1>8 DEF CloudInv, CloudTypes
<1>10. CloudTypes'
  BY <1>3, <1>4, <1>7, <1>8 DEF CloudInv, CloudTypes
<1>11. SecretsOK' /\ Grows
  BY DEF CloudInv, SecretsOK, Grows
<1>12. AddingOK'
  BY <1>3, <1>9 DEF CloudInv, AddingOK, Cloud!At
<1>13. SeedOK'
  <2>1. ASSUME NEW q \in Applies, state'[q].seed # 0
        PROVE  /\ object'.version = state'[q].seed /\ object'.key = state'[q].key
               /\ state'[q].key # Cloud!NoKey
    <3>1. CASE q = p
      BY <1>5, <1>7, <1>9, <3>1
    <3>2. CASE q # p
      BY <1>9, <2>1, <3>2 DEF CloudInv, SeedOK
    <3> QED
      BY <3>1, <3>2
  <2> QED
    BY <2>1 DEF CloudInv, SeedOK
<1>14. RecordedOK(p)'
  BY <1>5, <1>7, <1>9 DEF CloudInv, RecordedOK
<1>15. ApplyOK(apply[p], state[p].key)'
  BY <1>3, <1>9 DEF ApplyOK, SignedBy, ClearedBy, LookedStages
<1> QED
  BY <1>9, <1>10, <1>11, <1>12, <1>13, <1>14, <1>15, OneApplyMoves

\* What the stage of an apply says about it.
LEMMA OnItsWay ==
    ASSUME CloudInv, NEW p \in Applies
    PROVE  /\ apply[p].at \in LookedStages \cup {"look", "empty"} \/ SignedBy(apply[p]) =>
                state[p].key # Cloud!NoKey
           /\ ClearedBy(apply[p]) => ~apply[p].data
           /\ apply[p].at \in {"upload", "confirm"} => secret["component"].versions # <<>>
BY DEF CloudInv, ApplyOK

\* The looks at the bucket (Look, RequireEmpty, WaitPublicCA, Confirm).
LEMMA LookSteps ==
    ASSUME CloudInv, NEW p \in Applies,
           Cloud!Look(p) \/ Cloud!RequireEmpty(p) \/ Cloud!WaitPublicCA(p) \/ Cloud!Confirm(p)
    PROVE  CloudInv'
<1>1. /\ ~Cloud!At(p, "resting")
      /\ UNCHANGED <<backend, secret, object, alive, rotated, applies>>
  BY DEF Cloud!Look, Cloud!RequireEmpty, Cloud!WaitPublicCA, Cloud!Confirm, Cloud!At,
         Cloud!world
<1>2. state[p].key # Cloud!NoKey
  BY OnItsWay DEF Cloud!Look, Cloud!RequireEmpty, Cloud!WaitPublicCA, Cloud!Confirm,
     Cloud!At, SignedBy, LookedStages
<1>3. \/ Cloud!Fail(p) /\ state' = state
      \/ /\ object # Cloud!NoObject /\ object.key = state[p].key
         /\ state' = [state EXCEPT ![p].seed = object.version] /\ Cloud!Goto(p, "ok")
      \/ Cloud!Look(p) /\ Cloud!Goto(p, "empty") /\ state' = state
      \/ /\ Cloud!RequireEmpty(p) /\ Cloud!IsEmpty(object) /\ state' = state
         /\ Cloud!Goto(p, IF Cloud!At(p, "empty") THEN "prepare" ELSE "secrets")
      \/ Cloud!WaitPublicCA(p) /\ Cloud!Goto(p, "metadata") /\ state' = state
  BY DEF Cloud!Look, Cloud!RequireEmpty, Cloud!WaitPublicCA, Cloud!Confirm,
         Cloud!Completed, Cloud!SeedCompletion, Cloud!Recorded
<1>4. CASE Cloud!Fail(p) /\ state' = state
  BY <1>1, <1>4, FailStep
<1>5. CASE /\ object # Cloud!NoObject /\ object.key = state[p].key
           /\ state' = [state EXCEPT ![p].seed = object.version] /\ Cloud!Goto(p, "ok")
  BY <1>1, <1>2, <1>5, CompletedStep
<1>6. CASE Cloud!Look(p) /\ Cloud!Goto(p, "empty") /\ state' = state
  BY <1>1, <1>2, <1>6, ForwardStep DEF ApplyStages, LookedStages
<1>7. CASE /\ Cloud!RequireEmpty(p) /\ Cloud!IsEmpty(object) /\ state' = state
           /\ Cloud!Goto(p, IF Cloud!At(p, "empty") THEN "prepare" ELSE "secrets")
  <2>1. ~alive
    BY <1>7 DEF Cloud!IsEmpty
  <2>2. CASE Cloud!At(p, "empty")
    BY <1>1, <1>2, <1>7, <2>1, <2>2, ForwardStep DEF ApplyStages, LookedStages
  <2>3. CASE ~Cloud!At(p, "empty")
    <3>1. SignedBy(apply[p])
      BY <1>7, <2>3 DEF Cloud!RequireEmpty, Cloud!At, SignedBy
    <3> QED
      BY <1>1, <1>2, <1>7, <2>1, <2>3, <3>1, ForwardStep DEF ApplyStages, LookedStages
  <2> QED
    BY <2>2, <2>3
<1>8. CASE Cloud!WaitPublicCA(p) /\ Cloud!Goto(p, "metadata") /\ state' = state
  BY <1>1, <1>2, <1>8, ForwardStep DEF ApplyStages, LookedStages
<1> QED
  BY <1>3, <1>4, <1>5, <1>6, <1>7, <1>8

\* The seed is prepared and its key is checked (Prepare, CheckKey).
LEMMA PrepareSteps ==
    ASSUME CloudInv, NEW p \in Applies, Cloud!Prepare(p) \/ Cloud!CheckKey(p)
    PROVE  CloudInv'
<1>1. /\ ~Cloud!At(p, "resting") /\ state[p].key # Cloud!NoKey
      /\ UNCHANGED <<backend, secret, object, state, alive, rotated, applies>>
  BY OnItsWay DEF Cloud!Prepare, Cloud!CheckKey, Cloud!At, LookedStages, Cloud!world
<1>2. Cloud!Fail(p) \/ Cloud!Goto(p, "ca") \/ Cloud!Goto(p, "sign")
  BY DEF Cloud!Prepare, Cloud!CheckKey
<1> QED
  BY <1>1, <1>2, FailStep, ForwardStep DEF ApplyStages, LookedStages

\* The token is signed with the version that is recorded, also after a
\* rotation (cloudSecretValue).
LEMMA SignStep ==
    ASSUME CloudInv, NEW p \in Applies, Cloud!Sign(p)
    PROVE  CloudInv'
<1>1. /\ ~Cloud!At(p, "resting") /\ state[p].key # Cloud!NoKey
      /\ UNCHANGED <<backend, secret, object, state, alive, rotated, applies>>
  BY OnItsWay DEF Cloud!Sign, Cloud!At, LookedStages, Cloud!world
<1>2. PICK t : t = secret["key"].versions[state[p].key.version]
  OBVIOUS
<1>3. t \in Nat
  BY <1>1, <1>2, KeyIsRecorded
<1>4. PICK a, v : a = apply[p] /\ v = [a EXCEPT !.token = t, !.data = alive, !.at = "emptyAgain"]
  OBVIOUS
<1>5. a \in [at : ApplyStages \ {"resting"}, no : 1..MaxApplies,
             name : {"key", "component"}, token : Nat, data : BOOLEAN]
  BY <1>1, <1>4, RunningRecord
<1>6. v \in ApplyRecords /\ v.at = "emptyAgain" /\ v.token = t /\ v.data = alive
  <2>1. alive \in BOOLEAN
    BY DEF CloudInv, CloudTypes
  <2> QED
    BY <1>3, <1>4, <1>5, <2>1 DEF ApplyRecords, ApplyStages
<1>7. apply' = [apply EXCEPT ![p] = v]
  <2>1. apply' = [apply EXCEPT ![p].token = t, ![p].data = alive, ![p].at = "emptyAgain"]
    BY <1>2 DEF Cloud!Sign, Cloud!Pinned, Cloud!Versions, Cloud!Recorded
  <2>2. apply' = [apply EXCEPT ![p] = [apply[p] EXCEPT !.token = t, !.data = alive,
                                                       !.at = "emptyAgain"]]
    BY <2>1 DEF CloudInv, CloudTypes
  <2> QED
    BY <1>4, <2>2
<1>8. ApplyOK(v, state[p].key)
  BY <1>1, <1>2, <1>6 DEF ApplyOK, SignedBy, ClearedBy, LookedStages
<1>9. applies' \in 0..MaxApplies
  BY <1>1 DEF CloudInv, CloudTypes
<1> QED
  BY <1>1, <1>6, <1>7, <1>8, <1>9, QuietStep

\* An apply that has signed goes on to store what it signed.
LEMMA EnsureComponentSecretStep ==
    ASSUME CloudInv, NEW p \in Applies, Cloud!EnsureComponentSecret(p)
    PROVE  CloudInv'
<1>1. /\ ~Cloud!At(p, "resting") /\ SignedBy(apply[p])
      /\ UNCHANGED <<backend, secret, object, state, alive, rotated, applies>>
  BY DEF Cloud!EnsureComponentSecret, Cloud!At, SignedBy, Cloud!world
<1>2. PICK a, v : a = apply[p] /\ v = [a EXCEPT !.at = "put", !.name = "component"]
  OBVIOUS
<1>3. a \in [at : ApplyStages \ {"resting"}, no : 1..MaxApplies,
             name : {"key", "component"}, token : Nat, data : BOOLEAN]
  BY <1>1, <1>2, RunningRecord
<1>4. v \in ApplyRecords /\ v.at = "put" /\ v.name = "component" /\ v.token = a.token
      /\ v.data = a.data /\ a.at = "secrets"
  BY <1>2, <1>3 DEF ApplyRecords, ApplyStages, Cloud!EnsureComponentSecret, Cloud!At
<1>5. apply' = [apply EXCEPT ![p] = v]
  <2>1. apply' = [apply EXCEPT ![p] = [apply[p] EXCEPT !.at = "put", !.name = "component"]]
    BY DEF CloudInv, CloudTypes, Cloud!EnsureComponentSecret, Cloud!AfterEmpty
  <2> QED
    BY <1>2, <2>1
<1>6. ApplyOK(a, state[p].key)
  BY <1>2 DEF CloudInv
<1>7. ApplyOK(v, state[p].key)
  BY <1>1, <1>2, <1>4, <1>6 DEF ApplyOK, SignedBy, ClearedBy, LookedStages
<1>8. applies' \in 0..MaxApplies
  BY <1>1 DEF CloudInv, CloudTypes
<1> QED
  BY <1>1, <1>4, <1>5, <1>7, <1>8, QuietStep

\* An apply begins, with or without a key that it has recorded (Create, Read).
LEMMA ApplyStartStep ==
    ASSUME CloudInv, NEW p \in Applies,
           \/ Cloud!WorkloadCAKey(p) \/ Cloud!ServiceAccountKey(p)
           \/ Cloud!RegistrationKey(p) \/ Cloud!Read(p)
    PROVE  CloudInv'
<1>1. PICK at \in {"put", "look", "ok"} :
        /\ Cloud!Start(p, at) /\ (at = "put" => state[p].key = Cloud!NoKey)
        /\ at # "put" => state[p].key # Cloud!NoKey
  BY DEF Cloud!WorkloadCAKey, Cloud!ServiceAccountKey, Cloud!RegistrationKey, Cloud!Create,
         Cloud!Read, Cloud!Recorded
<1>2. PICK v : v = [at |-> at, no |-> applies + 1, name |-> "key", token |-> 0,
                     data |-> FALSE]
  OBVIOUS
<1>3. applies' \in 0..MaxApplies /\ applies + 1 \in 1..MaxApplies
  BY <1>1, ConstantsAssumption DEF Cloud!Start, CloudInv, CloudTypes
<1>4. v \in ApplyRecords /\ v.at = at /\ v.name = "key"
  BY <1>2, <1>3 DEF ApplyRecords, ApplyStages
<1>5. apply' = [apply EXCEPT ![p] = v]
  BY <1>1, <1>2 DEF Cloud!Start
<1>6. ApplyOK(v, state[p].key)
  BY <1>1, <1>4 DEF ApplyOK, SignedBy, ClearedBy, LookedStages
<1> QED
  BY <1>1, <1>3, <1>4, <1>5, <1>6, QuietStep DEF Cloud!Start, Cloud!world

----------------------------------------------------------------------------
(* The secrets.                                                            *)

\* The secret n has these versions after the step: those it had, or a first one.
Versioned(n, versions) ==
    /\ versions \in Seq(Nat) /\ versions # <<>>
    /\ \/ secret' = secret /\ versions = secret[n].versions
       \/ /\ secret[n].versions = <<>> /\ Len(versions) = 1
          /\ secret' = [secret EXCEPT ![n] = [made |-> TRUE, versions |-> versions]]

\* Making or extending one secret loses no version and leaves the other alone.
LEMMA VersionedSecrets ==
    ASSUME CloudInv, NEW n \in {"key", "component"}, NEW versions, Versioned(n, versions),
           UNCHANGED <<backend, rotated>>
    PROVE  /\ secret' \in [{"key", "component"} -> SecretRecords]
           /\ secret'[n].versions = versions /\ Grows /\ SecretsOK'
           /\ \A m \in {"key", "component"} : m # n => secret'[m] = secret[m]
<1>1. CASE secret' = secret /\ versions = secret[n].versions
  BY <1>1 DEF CloudInv, CloudTypes, SecretsOK, Grows
<1>2. CASE /\ secret[n].versions = <<>> /\ Len(versions) = 1
           /\ secret' = [secret EXCEPT ![n] = [made |-> TRUE, versions |-> versions]]
  <2>1. PICK r : r = [made |-> TRUE, versions |-> versions]
    OBVIOUS
  <2>2. r \in SecretRecords /\ r.versions = versions /\ r.made = TRUE
    BY <2>1 DEF Versioned, SecretRecords
  <2>3. /\ secret'[n] = r
        /\ \A m \in {"key", "component"} : m # n => secret'[m] = secret[m]
    BY <1>2, <2>1 DEF CloudInv, CloudTypes
  <2>4. secret' \in [{"key", "component"} -> SecretRecords]
    BY <1>2, <2>1, <2>2 DEF CloudInv, CloudTypes
  <2>5. Grows
    <3> SUFFICES ASSUME NEW m \in {"key", "component"}
                 PROVE  /\ secret[m].versions # <<>> => secret'[m].versions # <<>>
                        /\ \A i \in DOMAIN secret[m].versions :
                             /\ i \in DOMAIN secret'[m].versions
                             /\ secret'[m].versions[i] = secret[m].versions[i]
      BY DEF Grows
    <3>1. CASE m = n
      <4>1. DOMAIN secret[m].versions = {}
        BY <1>2, <3>1
      <4> QED
        BY <1>2, <3>1, <4>1
    <3>2. CASE m # n
      BY <2>3, <3>2
    <3> QED
      BY <3>1, <3>2
  <2>6. SecretsOK'
    <3>1. \A m \in {"key", "component"} :
             /\ ~secret'[m].made => secret'[m].versions = <<>>
             /\ backend # "google" /\ secret'[m].made => secret'[m].versions # <<>>
      BY <2>2, <2>3 DEF CloudInv, SecretsOK, Versioned
    <3>2. ~rotated => Len(secret'["key"].versions) <= 1
      BY <1>2, <2>2, <2>3 DEF CloudInv, SecretsOK
    <3> QED
      BY <3>1, <3>2 DEF SecretsOK
  <2> QED
    BY <2>2, <2>3, <2>4, <2>5, <2>6
<1> QED
  BY <1>1, <1>2 DEF Versioned

\* The latest version is adopted by whoever created the secret or found it,
\* or the answer is lost (CreateOrAdopt).
LEMMA AdoptStep ==
    ASSUME CloudInv, NEW p \in Applies, apply[p].at \in {"put", "add"},
           NEW versions, Versioned(apply[p].name, versions),
           \/ Cloud!Adopt(p, versions)
           \/ Cloud!Fail(p) /\ state' = state,
           UNCHANGED <<backend, object, alive, rotated, applies>>,
           \A q \in Applies \ {p} : Cloud!At(q, "add") =>
              secret'[apply[q].name] = secret[apply[q].name]
    PROVE  CloudInv'
<1>1. PICK a, n : a = apply[p] /\ n = a.name
  OBVIOUS
<1>2. a \in [at : ApplyStages \ {"resting"}, no : 1..MaxApplies,
             name : {"key", "component"}, token : Nat, data : BOOLEAN]
  BY <1>1, RunningRecord DEF Cloud!At
<1>3. /\ secret' \in [{"key", "component"} -> SecretRecords]
      /\ secret'[n].versions = versions /\ Grows /\ SecretsOK'
      /\ \A m \in {"key", "component"} : m # n => secret'[m] = secret[m]
  BY <1>1, <1>2, VersionedSecrets
<1>4. PICK w : w = versions[Len(versions)]
  OBVIOUS
<1>5. Len(versions) \in DOMAIN versions /\ Len(versions) \in Nat /\ w \in Nat
  BY <1>4 DEF Versioned
<1>6. PICK v, r : /\ apply' = [apply EXCEPT ![p] = v] /\ state' = [state EXCEPT ![p] = r]
                  /\ v \in ApplyRecords /\ v.at \in {"resting", "look", "ok", "upload"}
                  /\ r \in [key : KeyRecords, seed : 0..MaxApplies]
                  /\ r.seed = state[p].seed
                  /\ \/ v.at = "resting" /\ r.key = state[p].key
                     \/ /\ v.at \in {"look", "ok"} /\ n = "key" /\ w # 0
                        /\ r.key = [version |-> Len(versions), fingerprint |-> w]
                     \/ /\ v.at = "upload" /\ n = "component" /\ r.key = state[p].key
                        /\ v.token = a.token /\ v.data = a.data
  <2>1. PICK s : s = state[p]
    OBVIOUS
  <2>2. s \in [key : KeyRecords, seed : 0..MaxApplies] /\ state = [state EXCEPT ![p] = s]
    BY <2>1 DEF CloudInv, CloudTypes
  <2>3. CASE Cloud!Fail(p) /\ state' = state
    <3>1. Cloud!Resting \in ApplyRecords /\ Cloud!Resting.at = "resting"
      BY DEF ApplyRecords, Cloud!Resting
    <3> QED
      BY <2>1, <2>2, <2>3, <3>1 DEF Cloud!Fail
  <2>4. CASE n = "key" /\ w # 0 /\ Cloud!Adopt(p, versions)
    <3>1. PICK at \in {"look", "ok"} : Cloud!Goto(p, at)
      BY <1>1, <1>4, <2>4
         DEF Cloud!Adopt, Cloud!Name, Cloud!Winner, Cloud!Foreign
    <3>2. PICK k : k = [version |-> Len(versions), fingerprint |-> w]
      OBVIOUS
    <3>3. state' = [state EXCEPT ![p].key = k]
      BY <1>1, <1>4, <2>4, <3>2
         DEF Cloud!Adopt, Cloud!Name, Cloud!Winner, Cloud!Foreign
    <3>4. PICK r, v : r = [s EXCEPT !.key = k] /\ v = [a EXCEPT !.at = at]
      OBVIOUS
    <3>5. k \in KeyRecords
      BY <1>5, <3>2 DEF KeyRecords
    <3>6. /\ r \in [key : KeyRecords, seed : 0..MaxApplies] /\ r.key = k /\ r.seed = s.seed
          /\ v \in ApplyRecords /\ v.at = at
      BY <1>2, <2>2, <3>4, <3>5 DEF ApplyRecords, ApplyStages
    <3>7. state' = [state EXCEPT ![p] = r] /\ apply' = [apply EXCEPT ![p] = v]
      BY <1>1, <2>1, <3>1, <3>3, <3>4 DEF Cloud!Goto
    <3> QED
      BY <2>1, <2>4, <3>2, <3>6, <3>7
  <2>5. CASE n = "component" /\ w # 0 /\ Cloud!Adopt(p, versions)
    <3>1. Cloud!Goto(p, "upload") /\ state' = state
      BY <1>1, <1>4, <2>5
         DEF Cloud!Adopt, Cloud!Name, Cloud!Winner, Cloud!Foreign
    <3>2. PICK v : v = [a EXCEPT !.at = "upload"]
      OBVIOUS
    <3>3. v \in ApplyRecords /\ v.at = "upload" /\ v.token = a.token /\ v.data = a.data
      BY <1>2, <3>2 DEF ApplyRecords, ApplyStages
    <3>4. apply' = [apply EXCEPT ![p] = v]
      BY <1>1, <3>1, <3>2 DEF Cloud!Goto
    <3> QED
      BY <2>1, <2>2, <2>5, <3>1, <3>3, <3>4
  <2>6. CASE w = 0 /\ Cloud!Adopt(p, versions)
    <3>1. Cloud!Fail(p) /\ state' = state
      BY <1>1, <1>4, <2>6
         DEF Cloud!Adopt, Cloud!Name, Cloud!Winner, Cloud!Foreign
    <3> QED
      BY <2>3, <3>1
  <2> QED
    BY <1>2, <1>1, <2>3, <2>4, <2>5, <2>6
<1>7. /\ state'[p] = r /\ apply'[p] = v
      /\ \A q \in Applies \ {p} : apply'[q] = apply[q] /\ state'[q] = state[q]
  BY <1>6 DEF CloudInv, CloudTypes
<1>8. CloudTypes'
  BY <1>3, <1>6 DEF CloudInv, CloudTypes
<1>9. AddingOK'
  <2> SUFFICES ASSUME NEW q \in Applies, apply'[q].at = "add"
               PROVE  /\ backend' = "google" /\ secret'[apply'[q].name].made
                      /\ secret'[apply'[q].name].versions = <<>>
                      /\ \A o \in Applies :
                           apply'[o].at = "add" /\ apply'[o].name = apply'[q].name => o = q
    BY DEF AddingOK, Cloud!At
  <2>1. q # p /\ apply'[q] = apply[q] /\ apply'[p].at # "add"
    BY <1>6, <1>7
  <2>2. secret'[apply[q].name] = secret[apply[q].name]
    BY <2>1 DEF Cloud!At
  <2> QED
    BY <1>7, <2>1, <2>2 DEF CloudInv, AddingOK, Cloud!At
<1>10. n = "key" => state[p].key = Cloud!NoKey /\ state[p].seed = 0
  BY <1>1 DEF CloudInv, ApplyOK, SeedOK
<1>11. SeedOK'
  <2>1. object # Cloud!NoObject =>
          /\ object.version # 0 /\ object.key.version \in DOMAIN secret'["key"].versions
          /\ object.token = secret'["key"].versions[object.key.version]
          /\ secret'["component"].versions # <<>>
    BY <1>3 DEF CloudInv, SeedOK, Grows
  <2>2. \A q \in Applies : state'[q].seed # 0 =>
          /\ object.version = state'[q].seed /\ object.key = state'[q].key
          /\ state'[q].key # Cloud!NoKey
    <3> SUFFICES ASSUME NEW q \in Applies, state'[q].seed # 0
                 PROVE  /\ object.version = state'[q].seed /\ object.key = state'[q].key
                        /\ state'[q].key # Cloud!NoKey
      OBVIOUS
    <3>1. CASE q = p
      <4>1. r.key = state[p].key /\ r.seed = state[p].seed
        BY <1>6, <1>7, <1>10, <3>1
      <4> QED
        BY <1>7, <3>1, <4>1 DEF CloudInv, SeedOK
    <3>2. CASE q # p
      BY <1>7, <3>2 DEF CloudInv, SeedOK
    <3> QED
      BY <3>1, <3>2
  <2> QED
    BY <2>1, <2>2 DEF SeedOK
<1>12. RecordedOK(p)'
  <2>1. CASE r.key = state[p].key
    BY <1>3, <1>7, <2>1 DEF CloudInv, RecordedOK, Grows
  <2>2. CASE n = "key" /\ r.key = [version |-> Len(versions), fingerprint |-> w]
    BY <1>3, <1>4, <1>5, <1>7, <2>2 DEF RecordedOK
  <2> QED
    BY <1>6, <2>1, <2>2
<1>13. ApplyOK(v, r.key)'
  <2>1. CASE v.at = "resting"
    BY <2>1 DEF ApplyOK, SignedBy, ClearedBy, LookedStages
  <2>2. CASE v.at \in {"look", "ok"}
    <3>1. r.key # Cloud!NoKey
      BY <1>6, <2>2 DEF Cloud!NoKey
    <3> QED
      BY <2>2, <3>1 DEF ApplyOK, SignedBy, ClearedBy, LookedStages
  <2>3. CASE v.at = "upload"
    <3>1. /\ n = "component" /\ r.key = state[p].key /\ v.token = a.token
          /\ v.data = a.data
      BY <1>6, <2>3
    <3>2. SignedBy(a) /\ ClearedBy(a)
      BY <1>1, <3>1 DEF SignedBy, ClearedBy
    <3>3. /\ r.key # Cloud!NoKey /\ ~v.data
          /\ v.token = secret["key"].versions[r.key.version]
      BY <1>1, <3>1, <3>2 DEF CloudInv, ApplyOK
    <3>4. r.key.version \in DOMAIN secret["key"].versions
      BY <3>1, <3>3, KeyIsRecorded
    <3>5. v.token = secret'["key"].versions[r.key.version] /\ secret'["component"].versions # <<>>
      BY <1>3, <3>1, <3>3, <3>4 DEF Grows, Versioned
    <3> QED
      BY <2>3, <3>3, <3>5 DEF ApplyOK, SignedBy, ClearedBy, LookedStages
  <2> QED
    BY <1>6, <2>1, <2>2, <2>3
<1>14. ApplyOK(apply[p], state[p].key)'
  BY <1>7, <1>13 DEF ApplyOK
<1> QED
  BY <1>3, <1>7, <1>8, <1>9, <1>11, <1>12, <1>14, OneApplyMoves

\* A secret of AWS is made with its first version, or found with one.
LEMMA CreateAtOnceStep ==
    ASSUME CloudInv, NEW p \in Applies, Cloud!At(p, "put"), backend # "google",
           Cloud!CreateAtOnce(p), UNCHANGED <<backend, object, alive, rotated, applies>>
    PROVE  CloudInv'
<1>1. PICK n, no : n = apply[p].name /\ no = apply[p].no
  OBVIOUS
<1>2. n \in {"key", "component"} /\ no \in Nat
  BY <1>1, RunningRecord DEF Cloud!At
<1>3. \A q \in Applies : ~Cloud!At(q, "add")
  BY DEF CloudInv, AddingOK
<1>4. CASE secret[n].made /\ UNCHANGED secret /\ Cloud!Adopt(p, Cloud!Versions(n))
  <2>1. PICK all : all = secret[n].versions
    OBVIOUS
  <2>2. Versioned(n, all)
    BY <1>2, <1>4, <2>1 DEF CloudInv, CloudTypes, SecretRecords, SecretsOK, Versioned
  <2>3. Cloud!Adopt(p, all)
    BY <1>4, <2>1 DEF Cloud!Versions, Cloud!Adopt, Cloud!Winner
  <2> QED
    BY <1>1, <1>3, <2>2, <2>3, AdoptStep DEF Cloud!At
<1>5. CASE /\ ~secret[n].made
           /\ secret' = [secret EXCEPT ![n] = [made |-> TRUE, versions |-> <<no>>]]
           /\ Cloud!Adopt(p, <<no>>) \/ (Cloud!Fail(p) /\ UNCHANGED state)
  <2>1. PICK all : all = <<no>>
    OBVIOUS
  <2>2. all \in Seq(Nat) /\ Len(all) = 1 /\ all # <<>>
    BY <1>2, <2>1
  <2>3. Versioned(n, all)
    BY <1>2, <1>5, <2>1, <2>2 DEF CloudInv, SecretsOK, Versioned
  <2>4. Cloud!Adopt(p, all) \/ (Cloud!Fail(p) /\ state' = state)
    BY <1>5, <2>1 DEF Cloud!Adopt, Cloud!Winner
  <2> QED
    BY <1>1, <1>3, <2>3, <2>4, AdoptStep DEF Cloud!At
<1> QED
  BY <1>1, <1>4, <1>5 DEF Cloud!CreateAtOnce, Cloud!Name

\* Both stores of AWS make a secret with its first version in one call.
LEMMA CreateInAWSSteps ==
    ASSUME CloudInv, NEW p \in Applies,
           Cloud!CreateInSecretsManager(p) \/ Cloud!CreateInParameterStore(p)
    PROVE  CloudInv'
<1>1. /\ Cloud!At(p, "put") /\ backend # "google" /\ Cloud!CreateAtOnce(p)
      /\ UNCHANGED <<backend, object, alive, rotated, applies>>
  BY DEF Cloud!CreateInSecretsManager, Cloud!CreateInParameterStore, Cloud!world
<1> QED
  BY <1>1, CreateAtOnceStep

\* A secret of Google is made empty by one apply, which alone then adds to it.
LEMMA CreateInGoogleStep ==
    ASSUME CloudInv, NEW p \in Applies, Cloud!CreateInGoogle(p)
    PROVE  CloudInv'
<1>1. PICK a, n : a = apply[p] /\ n = a.name
  OBVIOUS
<1>2. /\ a.at = "put" /\ backend = "google" /\ ~Cloud!At(p, "resting")
      /\ UNCHANGED <<backend, object, alive, rotated, applies>>
  BY <1>1 DEF Cloud!CreateInGoogle, Cloud!world, Cloud!At
<1>3. a \in [at : ApplyStages \ {"resting"}, no : 1..MaxApplies,
             name : {"key", "component"}, token : Nat, data : BOOLEAN]
  BY <1>1, <1>2, RunningRecord
<1>4. CASE secret' = secret /\ secret[n].made
  <2>1. PICK all : all = secret[n].versions
    OBVIOUS
  <2>2. CASE all = <<>>
    <3>1. Cloud!Fail(p) /\ state' = state
      BY <1>1, <1>4, <2>1, <2>2 DEF Cloud!CreateInGoogle, Cloud!MayFill, Cloud!Versions,
         Cloud!Name
    <3> QED
      BY <1>2, <1>4, <3>1, FailStep
  <2>3. CASE all # <<>>
    <3>1. Cloud!Adopt(p, all)
      BY <1>1, <1>4, <2>1, <2>3 DEF Cloud!CreateInGoogle, Cloud!MayFill, Cloud!Versions,
         Cloud!Name, Cloud!Adopt, Cloud!Winner
    <3>2. Versioned(n, all)
      BY <1>3, <1>1, <1>4, <2>1, <2>3 DEF CloudInv, CloudTypes, SecretRecords, Versioned
    <3> QED
      BY <1>1, <1>2, <1>4, <3>1, <3>2, AdoptStep
  <2> QED
    BY <2>2, <2>3
<1>5. CASE /\ ~secret[n].made /\ secret' = [secret EXCEPT ![n].made = TRUE]
           /\ Cloud!Goto(p, "add") \/ Cloud!Fail(p)
           /\ state' = state
  <2>1. PICK s, t : s = secret[n] /\ t = [s EXCEPT !.made = TRUE]
    OBVIOUS
  <2>2. s \in SecretRecords /\ s.versions = <<>> /\ ~s.made
    BY <1>1, <1>3, <1>5, <2>1 DEF CloudInv, CloudTypes, SecretsOK
  <2>3. t \in SecretRecords /\ t.versions = <<>> /\ t.made
    BY <2>1, <2>2 DEF SecretRecords
  <2>4. /\ secret' \in [{"key", "component"} -> SecretRecords] /\ secret'[n] = t
        /\ \A m \in {"key", "component"} : m # n => secret'[m] = secret[m]
        /\ \A m \in {"key", "component"} : secret'[m].versions = secret[m].versions
    BY <1>1, <1>3, <1>5, <2>1, <2>2, <2>3 DEF CloudInv, CloudTypes
  <2>5. SecretsOK' /\ Grows
    BY <1>2, <2>3, <2>4 DEF CloudInv, SecretsOK, Grows
  <2>6. PICK v : /\ v \in ApplyRecords /\ apply' = [apply EXCEPT ![p] = v]
                 /\ v = Cloud!Resting \/ v = [a EXCEPT !.at = "add"]
    <3>1. /\ Cloud!Resting \in ApplyRecords
          /\ [a EXCEPT !.at = "add"] \in ApplyRecords
      BY <1>3 DEF ApplyRecords, ApplyStages
    <3> QED
      BY <1>1, <1>5, <3>1 DEF Cloud!Goto, Cloud!Fail
  <2>7. \/ v.at = "resting"
        \/ v.at = "add" /\ v.name = n /\ v.token = a.token /\ v.data = a.data
    BY <1>1, <1>3, <2>6 DEF Cloud!Resting
  <2>8. apply'[p] = v /\ \A q \in Applies \ {p} : apply'[q] = apply[q]
    BY <2>6 DEF CloudInv, CloudTypes
  <2>9. CloudTypes'
    BY <1>2, <1>5, <2>4, <2>6 DEF CloudInv, CloudTypes
  <2>10. \A q \in Applies : Cloud!At(q, "add") => apply[q].name # n
    BY <2>1, <2>2 DEF CloudInv, AddingOK
  <2>11. AddingOK'
    <3> SUFFICES ASSUME NEW q \in Applies, apply'[q].at = "add"
                 PROVE  /\ backend' = "google" /\ secret'[apply'[q].name].made
                        /\ secret'[apply'[q].name].versions = <<>>
                        /\ \A o \in Applies :
                             apply'[o].at = "add" /\ apply'[o].name = apply'[q].name => o = q
      BY DEF AddingOK, Cloud!At
    <3>1. CASE q = p
      <4>1. apply'[q].name = n
        BY <2>7, <2>8, <3>1
      <4>2. ASSUME NEW o \in Applies, apply'[o].at = "add", apply'[o].name = n
            PROVE  o = p
        BY <2>8, <2>10, <4>2 DEF Cloud!At
      <4> QED
        BY <1>2, <2>3, <2>4, <3>1, <4>1, <4>2
    <3>2. CASE q # p
      <4>1. apply'[q] = apply[q] /\ apply[q].name # n /\ Cloud!At(q, "add")
        BY <2>8, <2>10, <3>2 DEF Cloud!At
      <4>2. apply[q].name \in {"key", "component"}
        BY <4>1, RunningRecord DEF Cloud!At
      <4>3. secret'[apply[q].name] = secret[apply[q].name]
        BY <2>4, <4>1, <4>2
      <4>4. ASSUME NEW o \in Applies, apply'[o].at = "add", apply'[o].name = apply[q].name
            PROVE  o = q
        <5>1. o # p
          BY <2>7, <2>8, <4>1, <4>4
        <5> QED
          BY <2>8, <4>1, <4>4, <5>1 DEF CloudInv, AddingOK, Cloud!At
      <4>5. secret[apply[q].name].made /\ secret[apply[q].name].versions = <<>>
        BY <4>1 DEF CloudInv, AddingOK
      <4> QED
        BY <1>2, <4>1, <4>3, <4>4, <4>5
    <3> QED
      BY <3>1, <3>2
  <2>12. SeedOK' /\ RecordedOK(p)'
    BY <1>2, <1>5, <2>4 DEF CloudInv, SeedOK, RecordedOK
  <2>13. ApplyOK(v, state[p].key)
    BY <1>1, <1>2, <2>7 DEF CloudInv, ApplyOK, SignedBy, ClearedBy, LookedStages
  <2>14. PICK k : k = state[p].key
    OBVIOUS
  <2>15. ApplyOK(v, k)'
    BY <1>2, <2>4, <2>13, <2>14 DEF ApplyOK, LookedStages
  <2>16. ApplyOK(apply[p], state[p].key)'
    BY <1>5, <2>8, <2>14, <2>15 DEF ApplyOK
  <2> QED
    BY <1>2, <1>5, <2>5, <2>8, <2>9, <2>11, <2>12, <2>16, OneApplyMoves
<1> QED
  BY <1>1, <1>4, <1>5 DEF Cloud!CreateInGoogle, Cloud!Name, Cloud!MayFill

\* Its first version; after an error there is none yet, as it alone adds.
LEMMA AddGoogleVersionStep ==
    ASSUME CloudInv, NEW p \in Applies, Cloud!AddGoogleVersion(p)
    PROVE  CloudInv'
<1>1. PICK n, no : n = apply[p].name /\ no = apply[p].no
  OBVIOUS
<1>2. /\ Cloud!At(p, "add") /\ ~Cloud!At(p, "resting")
      /\ UNCHANGED <<backend, object, alive, rotated, applies>>
  BY DEF Cloud!AddGoogleVersion, Cloud!world, Cloud!At
<1>3. n \in {"key", "component"} /\ no \in Nat
  BY <1>1, <1>2, RunningRecord
<1>4. /\ secret[n].versions = <<>> /\ secret[n].made
      /\ \A q \in Applies : Cloud!At(q, "add") /\ apply[q].name = n => q = p
  BY <1>1, <1>2 DEF CloudInv, AddingOK
<1>5. PICK all : all = Append(secret[n].versions, no)
  OBVIOUS
<1>6. all \in Seq(Nat) /\ Len(all) = 1 /\ all # <<>>
  BY <1>3, <1>4, <1>5
<1>7. CASE secret' = secret
  <2>1. Cloud!Fail(p) /\ state' = state
    <3>1. secret' # [secret EXCEPT ![n].versions = all]
      BY <1>3, <1>4, <1>6, <1>7 DEF CloudInv, CloudTypes, SecretRecords
    <3> QED
      BY <1>1, <1>4, <1>5, <3>1 DEF Cloud!AddGoogleVersion, Cloud!Name, Cloud!Versions
  <2> QED
    BY <1>2, <1>7, <2>1, FailStep
<1>8. CASE /\ secret' = [secret EXCEPT ![n].versions = all]
           /\ Cloud!Adopt(p, all) \/ (Cloud!Fail(p) /\ state' = state)
  <2>1. PICK s : s = secret[n]
    OBVIOUS
  <2>2. s \in SecretRecords /\ s.made
    BY <1>3, <1>4, <2>1 DEF CloudInv, CloudTypes
  <2>3. [s EXCEPT !.versions = all] = [made |-> TRUE, versions |-> all]
    <3>1. PICK m : m = TRUE
      OBVIOUS
    <3>2. PICK o : s = [made |-> m, versions |-> o]
      BY <2>2, <3>1 DEF SecretRecords
    <3>3. [s EXCEPT !.versions = all] = [made |-> m, versions |-> all]
      BY <3>2
    <3> QED
      BY <3>1, <3>3
  <2>4. secret' = [secret EXCEPT ![n] = [made |-> TRUE, versions |-> all]]
    BY <1>8, <2>1, <2>3
  <2>5. Versioned(n, all)
    BY <1>4, <1>6, <2>4 DEF Versioned
  <2>6. ASSUME NEW q \in Applies \ {p}, Cloud!At(q, "add")
        PROVE  secret'[apply[q].name] = secret[apply[q].name]
    <3>1. apply[q].name # n
      BY <1>4, <2>6
    <3> QED
      BY <2>4, <3>1 DEF CloudInv, CloudTypes
  <2> QED
    BY <1>1, <1>2, <1>8, <2>5, <2>6, AdoptStep DEF Cloud!At
<1> QED
  <2>1. \/ /\ secret' = [secret EXCEPT ![n].versions = all]
           /\ Cloud!Adopt(p, all) \/ (Cloud!Fail(p) /\ state' = state)
        \/ secret' = secret
    BY <1>1, <1>5 DEF Cloud!AddGoogleVersion, Cloud!Name, Cloud!Versions, Cloud!Adopt,
       Cloud!Winner
  <2> QED
    BY <1>7, <1>8, <2>1

----------------------------------------------------------------------------
(* The snapshot, and what others do.                                       *)

\* A snapshot is put where none was (Upload).
LEMMA UploadStep ==
    ASSUME CloudInv, NEW p \in Applies, Cloud!Upload(p)
    PROVE  CloudInv'
<1>1. PICK a, k : a = apply[p] /\ k = state[p].key
  OBVIOUS
<1>2. /\ a.at = "upload" /\ ~Cloud!At(p, "resting") /\ SignedBy(a) /\ ClearedBy(a)
      /\ UNCHANGED <<backend, secret, alive, rotated, applies>>
  BY <1>1 DEF Cloud!Upload, Cloud!At, Cloud!world, SignedBy, ClearedBy
<1>3. /\ k # Cloud!NoKey /\ ~a.data /\ secret["component"].versions # <<>>
      /\ a.token = secret["key"].versions[k.version]
  BY <1>1, <1>2 DEF CloudInv, ApplyOK
<1>4. a \in [at : ApplyStages \ {"resting"}, no : 1..MaxApplies,
             name : {"key", "component"}, token : Nat, data : BOOLEAN]
  BY <1>1, <1>2, RunningRecord
<1>5. CASE /\ object = Cloud!NoObject /\ Cloud!Goto(p, "confirm") /\ UNCHANGED state
           /\ object' = [version |-> a.no, key |-> k, token |-> a.token]
  <2>1. PICK v : v = [a EXCEPT !.at = "confirm"]
    OBVIOUS
  <2>2. v \in ApplyRecords /\ v.at = "confirm" /\ v.token = a.token /\ v.data = a.data
    BY <1>4, <2>1 DEF ApplyRecords, ApplyStages
  <2>3. apply' = [apply EXCEPT ![p] = v]
    BY <1>1, <1>5, <2>1 DEF Cloud!Goto
  <2>4. apply'[p] = v /\ \A q \in Applies \ {p} : apply'[q] = apply[q]
    BY <2>3 DEF CloudInv, CloudTypes
  <2>5. k \in KeyRecords /\ k.version \in DOMAIN secret["key"].versions
    BY <1>1, <1>3 DEF CloudInv, CloudTypes, RecordedOK
  <2>6. /\ object' \in [version : 0..MaxApplies, key : KeyRecords, token : Nat]
        /\ object'.version = a.no /\ object'.key = k /\ object'.token = a.token
    BY <1>4, <1>5, <2>5, ConstantsAssumption
  <2>7. CloudTypes'
    BY <1>2, <1>5, <2>2, <2>3, <2>6 DEF CloudInv, CloudTypes
  <2>8. SeedOK'
    <3>1. \A q \in Applies : state[q].seed = 0
      BY <1>5 DEF CloudInv, SeedOK, Cloud!NoObject
    <3> QED
      BY <1>2, <1>3, <1>4, <1>5, <2>5, <2>6, <3>1 DEF SeedOK
  <2>9. SecretsOK' /\ Grows /\ RecordedOK(p)'
    BY <1>2, <1>5 DEF CloudInv, SecretsOK, Grows, RecordedOK
  <2>10. AddingOK'
    BY <1>2, <2>2, <2>4 DEF CloudInv, AddingOK, Cloud!At
  <2>11. ApplyOK(v, k)
    BY <1>2, <1>3, <2>2 DEF ApplyOK, SignedBy, ClearedBy, LookedStages
  <2>12. ApplyOK(apply[p], state[p].key)'
    BY <1>1, <1>2, <1>5, <2>4, <2>11 DEF ApplyOK
  <2> QED
    BY <1>2, <1>5, <2>4, <2>7, <2>8, <2>9, <2>10, <2>12, OneApplyMoves
<1>6. CASE Cloud!Fail(p) /\ UNCHANGED <<state, object>>
  BY <1>2, <1>6, FailStep
<1>7. CASE /\ object # Cloud!NoObject /\ object.key = state[p].key /\ UNCHANGED object
           /\ state' = [state EXCEPT ![p].seed = object.version] /\ Cloud!Goto(p, "ok")
  BY <1>1, <1>2, <1>3, <1>7, CompletedStep
<1> QED
  BY <1>1, <1>5, <1>6, <1>7 DEF Cloud!Upload, Cloud!MayUpload, Cloud!Snapshot,
     Cloud!Completed, Cloud!SeedCompletion, Cloud!Recorded

\* An apply that ends leaves the cloud as it is.
LEMMA EndStep ==
    ASSUME CloudInv, NEW p \in Applies, Cloud!End(p)
    PROVE  CloudInv'
<1>1. Cloud!Fail(p) /\ UNCHANGED <<backend, secret, object, state, alive, rotated, applies>>
  BY DEF Cloud!End, Cloud!world
<1> QED
  BY <1>1, FailStep

\* The secrets change without an apply.
LEMMA SecretsStep ==
    ASSUME CloudInv, UNCHANGED <<backend, object, state, apply, applies>>,
           alive' = alive \/ alive' = TRUE,
           secret' \in [{"key", "component"} -> SecretRecords], SecretsOK', Grows,
           \A p \in Applies : Cloud!At(p, "add") =>
              /\ secret'[apply[p].name].made
              /\ secret'[apply[p].name].versions = secret[apply[p].name].versions
    PROVE  CloudInv'
<1>1. CloudTypes'
  BY DEF CloudInv, CloudTypes
<1>2. AddingOK'
  BY DEF CloudInv, AddingOK, Cloud!At
<1>3. SeedOK'
  BY DEF CloudInv, SeedOK, Grows
<1>4. ASSUME NEW p \in Applies
      PROVE  RecordedOK(p)' /\ ApplyOK(apply[p], state[p].key)'
  <2>1. PICK a, k : a = apply[p] /\ k = state[p].key
    OBVIOUS
  <2>2. ApplyOK(a, k) /\ (k # Cloud!NoKey => k.version \in DOMAIN secret["key"].versions)
    BY <2>1 DEF CloudInv, RecordedOK
  <2>3. ApplyOK(a, k)'
    BY <2>2, ApplyStays
  <2>4. ApplyOK(apply[p], state[p].key)'
    BY <2>1, <2>3 DEF ApplyOK
  <2>5. RecordedOK(p)'
    BY DEF CloudInv, RecordedOK, Grows
  <2> QED
    BY <2>4, <2>5
<1> QED
  BY <1>1, <1>2, <1>3, <1>4 DEF CloudInv

\* A CA that is published, and data that appears, change no secret.
LEMMA OthersStep ==
    ASSUME CloudInv, Cloud!PublishCA \/ Cloud!DataAppears
    PROVE  CloudInv'
<1>1. /\ UNCHANGED <<backend, secret, object, state, apply, applies, rotated>>
      /\ alive' = alive \/ alive' = TRUE
  BY DEF Cloud!PublishCA, Cloud!DataAppears
<1>2. secret' \in [{"key", "component"} -> SecretRecords] /\ SecretsOK' /\ Grows
  BY <1>1 DEF CloudInv, CloudTypes, SecretsOK, Grows
<1>3. \A p \in Applies : Cloud!At(p, "add") =>
              /\ secret'[apply[p].name].made
              /\ secret'[apply[p].name].versions = secret[apply[p].name].versions
  BY <1>1 DEF CloudInv, AddingOK
<1> QED
  BY <1>1, <1>2, <1>3, SecretsStep

\* A rotation adds to the versions of a key that has some.
LEMMA RotateStep ==
    ASSUME CloudInv, Cloud!Rotate
    PROVE  CloudInv'
<1>1. UNCHANGED <<backend, object, state, apply, alive, applies>> /\ rotated'
  BY DEF Cloud!Rotate
<1>2. PICK s, all : s = secret["key"] /\ all = Append(s.versions, MaxApplies + 1)
  OBVIOUS
<1>3. s \in SecretRecords /\ s.versions # <<>> /\ s.made
  BY <1>2 DEF CloudInv, CloudTypes, SecretsOK, Cloud!Rotate, Cloud!Versions
<1>4. /\ all \in Seq(Nat) /\ all # <<>>
      /\ \A i \in DOMAIN s.versions : i \in DOMAIN all /\ all[i] = s.versions[i]
  <2>1. s.versions \in Seq(Nat) /\ MaxApplies + 1 \in Nat
    BY <1>3, ConstantsAssumption DEF SecretRecords
  <2>2. all \in Seq(Nat) /\ Len(all) = Len(s.versions) + 1
    BY <1>2, <2>1
  <2>3. \A i \in 1..Len(s.versions) : all[i] = s.versions[i]
    BY <1>2, <2>1
  <2>4. /\ DOMAIN s.versions = 1..Len(s.versions) /\ DOMAIN all = 1..Len(all)
        /\ Len(s.versions) \in Nat
    BY <2>1, <2>2
  <2>5. all # <<>>
    BY <2>2, <2>4
  <2> QED
    BY <2>2, <2>3, <2>4, <2>5
<1>5. PICK t : t = [s EXCEPT !.versions = all]
  OBVIOUS
<1>6. t \in SecretRecords /\ t.made /\ t.versions = all
  BY <1>3, <1>4, <1>5 DEF SecretRecords
<1>7. secret' = [secret EXCEPT !["key"] = t]
  BY <1>2, <1>5 DEF Cloud!Rotate
<1>8. /\ secret' \in [{"key", "component"} -> SecretRecords]
      /\ secret'["key"] = t /\ secret'["component"] = secret["component"]
  BY <1>6, <1>7 DEF CloudInv, CloudTypes
<1>9. SecretsOK'
  <2> SUFFICES ASSUME NEW n \in {"key", "component"}
               PROVE  /\ ~secret'[n].made => secret'[n].versions = <<>>
                      /\ backend' # "google" /\ secret'[n].made => secret'[n].versions # <<>>
    BY <1>1 DEF SecretsOK
  <2>1. CASE n = "key"
    BY <1>4, <1>6, <1>8, <2>1
  <2>2. CASE n = "component"
    BY <1>1, <1>8, <2>2 DEF CloudInv, SecretsOK
  <2> QED
    BY <2>1, <2>2
<1>10. Grows
  <2> SUFFICES ASSUME NEW n \in {"key", "component"}
               PROVE  /\ secret[n].versions # <<>> => secret'[n].versions # <<>>
                      /\ \A i \in DOMAIN secret[n].versions :
                           /\ i \in DOMAIN secret'[n].versions
                           /\ secret'[n].versions[i] = secret[n].versions[i]
    BY DEF Grows
  <2>1. CASE n = "key"
    BY <1>2, <1>4, <1>6, <1>8, <2>1
  <2>2. CASE n = "component"
    BY <1>8, <2>2
  <2> QED
    BY <2>1, <2>2
<1>11. ASSUME NEW p \in Applies, Cloud!At(p, "add")
       PROVE  /\ secret'[apply[p].name].made
              /\ secret'[apply[p].name].versions = secret[apply[p].name].versions
  <2>1. secret[apply[p].name].versions = <<>> /\ secret[apply[p].name].made
    BY <1>11 DEF CloudInv, AddingOK
  <2>2. apply[p].name = "component"
    <3>1. apply[p].name \in {"key", "component"}
      BY <1>11, RunningRecord DEF Cloud!At
    <3> QED
      BY <1>2, <1>3, <2>1, <3>1
  <2> QED
    BY <1>8, <2>1, <2>2
<1> QED
  BY <1>1, <1>8, <1>9, <1>10, <1>11, SecretsStep

\* An empty secret is deleted that nobody is about to fill.
LEMMA DeleteEmptyStep ==
    ASSUME CloudInv, NEW n \in {"key", "component"}, Cloud!DeleteEmpty(n)
    PROVE  CloudInv'
<1>1. /\ UNCHANGED <<backend, object, state, apply, alive, applies, rotated>>
      /\ secret[n].versions = <<>>
      /\ \A p \in Applies : Cloud!At(p, "add") => apply[p].name # n
  BY DEF Cloud!DeleteEmpty, Cloud!world, Cloud!Versions, Cloud!Name
<1>2. PICK s, t : s = secret[n] /\ t = [s EXCEPT !.made = FALSE]
  OBVIOUS
<1>3. s \in SecretRecords
  BY <1>2 DEF CloudInv, CloudTypes
<1>4. t \in SecretRecords /\ ~t.made /\ t.versions = s.versions
  BY <1>2, <1>3 DEF SecretRecords
<1>5. secret' = [secret EXCEPT ![n] = t]
  BY <1>2 DEF Cloud!DeleteEmpty
<1>6. /\ secret' \in [{"key", "component"} -> SecretRecords] /\ secret'[n] = t
      /\ \A m \in {"key", "component"} : m # n => secret'[m] = secret[m]
      /\ \A m \in {"key", "component"} : secret'[m].versions = secret[m].versions
  BY <1>2, <1>4, <1>5 DEF CloudInv, CloudTypes
<1>7. SecretsOK' /\ Grows
  BY <1>1, <1>2, <1>4, <1>6 DEF CloudInv, SecretsOK, Grows
<1>8. ASSUME NEW p \in Applies, Cloud!At(p, "add")
      PROVE  /\ secret'[apply[p].name].made
             /\ secret'[apply[p].name].versions = secret[apply[p].name].versions
  <2>1. apply[p].name \in {"key", "component"} /\ apply[p].name # n
    BY <1>1, <1>8, RunningRecord DEF Cloud!At
  <2> QED
    BY <1>6, <1>8, <2>1 DEF CloudInv, AddingOK
<1> QED
  BY <1>1, <1>6, <1>7, <1>8, SecretsStep

\* No step of the specification breaks the invariant.
LEMMA CloudStep == CloudInv /\ [Cloud!Next]_cloudVars => CloudInv'
<1> SUFFICES ASSUME CloudInv, [Cloud!Next]_cloudVars PROVE CloudInv'
  OBVIOUS
<1>1. CASE UNCHANGED cloudVars
  <2>1. UNCHANGED <<backend, secret, object, state, apply, alive, applies, rotated>>
    BY <1>1 DEF cloudVars
  <2>2. secret' \in [{"key", "component"} -> SecretRecords] /\ SecretsOK' /\ Grows
    BY <2>1 DEF CloudInv, CloudTypes, SecretsOK, Grows
  <2>3. \A p \in Applies : Cloud!At(p, "add") =>
              /\ secret'[apply[p].name].made
              /\ secret'[apply[p].name].versions = secret[apply[p].name].versions
    BY <2>1 DEF CloudInv, AddingOK
  <2> QED
    BY <2>1, <2>2, <2>3, SecretsStep
<1>2. CASE \/ Cloud!DataAppears \/ Cloud!PublishCA \/ Cloud!Rotate
           \/ \E n \in {"key", "component"} : Cloud!DeleteEmpty(n)
  BY <1>2, OthersStep, RotateStep, DeleteEmptyStep
<1>3. ASSUME NEW p \in Applies,
             \/ Cloud!WorkloadCAKey(p) \/ Cloud!ServiceAccountKey(p)
             \/ Cloud!RegistrationKey(p) \/ Cloud!Read(p)
      PROVE  CloudInv'
  BY <1>3, ApplyStartStep
<1>4. ASSUME NEW p \in Applies,
             \/ Cloud!CreateInSecretsManager(p) \/ Cloud!CreateInParameterStore(p)
             \/ Cloud!CreateInGoogle(p) \/ Cloud!AddGoogleVersion(p)
      PROVE  CloudInv'
  BY <1>4, CreateInAWSSteps, CreateInGoogleStep, AddGoogleVersionStep
<1>5. ASSUME NEW p \in Applies,
             \/ Cloud!Look(p) \/ Cloud!RequireEmpty(p) \/ Cloud!WaitPublicCA(p)
             \/ Cloud!Confirm(p) \/ Cloud!Prepare(p) \/ Cloud!CheckKey(p)
      PROVE  CloudInv'
  BY <1>5, LookSteps, PrepareSteps
<1>6. ASSUME NEW p \in Applies,
             \/ Cloud!Sign(p) \/ Cloud!EnsureComponentSecret(p) \/ Cloud!Upload(p)
             \/ Cloud!End(p)
      PROVE  CloudInv'
  BY <1>6, SignStep, EnsureComponentSecretStep, UploadStep, EndStep
<1> QED
  BY <1>1, <1>2, <1>3, <1>4, <1>5, <1>6 DEF Cloud!Next

\* What was said of the secrets and the snapshot.
LEMMA CloudIsSound ==
    CloudInv => Cloud!KeyRecorded /\ Cloud!OneKey /\ Cloud!SeedMatchesKey
                  /\ Cloud!SecretsBeforeSeed
<1> SUFFICES ASSUME CloudInv
             PROVE  Cloud!KeyRecorded /\ Cloud!OneKey /\ Cloud!SeedMatchesKey
                      /\ Cloud!SecretsBeforeSeed
  OBVIOUS
<1>1. Cloud!KeyRecorded
  BY DEF CloudInv, RecordedOK, Cloud!KeyRecorded, Cloud!Recorded, Cloud!Versions
<1>2. Cloud!OneKey
  BY DEF CloudInv, SecretsOK, Cloud!OneKey, Cloud!Current, Cloud!Versions
<1>3. Cloud!SeedMatchesKey /\ Cloud!SecretsBeforeSeed
  BY DEF CloudInv, SeedOK, Cloud!SeedMatchesKey, Cloud!SecretsBeforeSeed, Cloud!Recorded,
     Cloud!Versions
<1> QED
  BY <1>1, <1>2, <1>3

\* A snapshot is put only where there was none, by an apply that has found
\* nothing beside it since it signed.
LEMMA SeedIsPutOnce ==
    CloudInv /\ [Cloud!Next]_cloudVars =>
       /\ object # Cloud!NoObject => object' = object
       /\ \A p \in Applies :
            object' # object /\ Cloud!At(p, "upload") /\ apply'[p].at = "confirm"
               => ~apply[p].data
<1>1. ASSUME CloudInv, [Cloud!Next]_cloudVars, object' # object
      PROVE  object = Cloud!NoObject
  <2>1. PICK p \in Applies : Cloud!Upload(p)
    BY <1>1 DEF Cloud!Next, cloudVars, Cloud!WorkloadCAKey, Cloud!ServiceAccountKey,
           Cloud!RegistrationKey, Cloud!Create, Cloud!Read, Cloud!Start,
           Cloud!CreateInSecretsManager, Cloud!CreateInParameterStore,
           Cloud!CreateInGoogle, Cloud!AddGoogleVersion, Cloud!Look, Cloud!RequireEmpty,
           Cloud!Prepare, Cloud!WaitPublicCA, Cloud!CheckKey, Cloud!Sign,
           Cloud!EnsureComponentSecret, Cloud!Confirm, Cloud!End, Cloud!PublishCA,
           Cloud!DataAppears, Cloud!Rotate, Cloud!DeleteEmpty
  <2> QED
    BY <1>1, <2>1 DEF Cloud!Upload, Cloud!MayUpload
<1>2. ASSUME CloudInv, NEW p \in Applies, Cloud!At(p, "upload")
      PROVE  ~apply[p].data
  <2>1. ClearedBy(apply[p])
    BY <1>2 DEF Cloud!At, ClearedBy, SignedBy
  <2> QED
    BY <1>2, <2>1, OnItsWay
<1> QED
  BY <1>1, <1>2

\* For any applies, backends and interruptions: what a state records is what
\* the backend has, a key is made once, the snapshot holds a token of the key
\* that it names and comes after the secrets of the components; no snapshot is
\* replaced, and who puts one has found the prefix empty since it signed, also
\* when a cluster begins to write there at any time.  What appears between that
\* look and the upload is not excluded (CreateOrAdopt, createSeed, Upload).
THEOREM BootstrapIsSound == Cloud!Spec => BootstrapSound
<1>1. Cloud!Init /\ [][Cloud!Next]_cloudVars => []CloudInv
  BY CloudInitially, CloudStep, PTL
<1>2. CloudInv => Cloud!KeyRecorded /\ Cloud!OneKey /\ Cloud!SeedMatchesKey
                    /\ Cloud!SecretsBeforeSeed
  BY CloudIsSound
<1>3. CloudInv /\ [Cloud!Next]_cloudVars =>
        [/\ object # Cloud!NoObject => object' = object
         /\ \A p \in Applies :
              object' # object /\ Cloud!At(p, "upload") /\ apply'[p].at = "confirm"
                 => ~apply[p].data]_cloudVars
  BY SeedIsPutOnce
<1> QED
  BY <1>1, <1>2, <1>3, PTL
     DEF Cloud!Spec, BootstrapSound, Cloud!BootstrapSound, Cloud!SeedNeverReplaced,
         Cloud!bvars, cloudVars

(***************************************************************************)
(* The parts side by side.                                                 *)
(***************************************************************************)

\* What a part is proved to do on its own it does in the run that explores
\* the parts side by side (MCIdentity).
THEOREM PartsBehave ==
    PartsSpec => /\ Auth!Spec /\ Oidc!Spec /\ Creds!Spec
                 /\ Spec /\ Kube!Spec /\ Cloud!Spec
<1>1. PartsInit => /\ Auth!Init /\ Oidc!Init /\ Creds!Init
                   /\ Init /\ Kube!Init /\ Cloud!Init
  BY DEF PartsInit
<1>2. [PartsNext]_allVars =>
        /\ [Auth!Next]_Auth!vars /\ [Oidc!Next]_Oidc!vars /\ [Creds!Next]_Creds!vars
        /\ [Next]_rvars /\ [Kube!Next]_Kube!kvars /\ [Cloud!Next]_Cloud!bvars
  BY DEF PartsNext, Moves, allVars, authVars, oidcVars, credsVars, kubeVars, cloudVars, rvars,
         Auth!vars, Oidc!vars, Oidc!oidcVars, Creds!vars, Kube!kvars, Cloud!bvars
<1> QED
  BY <1>1, <1>2, PTL
     DEF PartsSpec, Auth!Spec, Oidc!Spec, Creds!Spec, Spec, Kube!Spec, Cloud!Spec

\* The bounds of the operator's keys, and what an entry is.
RequiredTypes ==
    /\ entry \in [status : {"absent", "active", "archived"}, by : Writers \cup {Nobody}]
    /\ operatorKey \in 1..MaxKeys
    /\ seen \in [Writers -> BOOLEAN]

\* The secrets, the keys and the count of rotations keep their types.
LEMMA RequiredTypesKeep ==
    RequiredInv /\ RequiredTypes /\ [Next]_rvars => RequiredTypes'
<1> SUFFICES ASSUME RequiredInv, RequiredTypes, [Next]_rvars PROVE RequiredTypes'
  OBVIOUS
<1>1. Witness \/ UNCHANGED seen
  BY DEF Next, rvars, CreateCommand, UpdateCommand, DeleteCommand, RestoreCommand,
         DestroyCommand, InstallCommand, LocalPrepare, Begin, Get, Encrypt, Send, Reread,
         CreateLocal, GetLocal, Rotate
<1>2. seen' \in [Writers -> BOOLEAN]
  BY <1>1 DEF Witness, RequiredTypes
<1>3. operatorKey' \in 1..MaxKeys
  <2>1. CASE Rotate
    BY <2>1, ConstantsAssumption DEF Rotate, RequiredTypes
  <2>2. CASE ~Rotate
    <3>1. operatorKey' = operatorKey
      BY <2>2 DEF Next, rvars, CreateCommand, UpdateCommand, DeleteCommand, RestoreCommand,
         DestroyCommand, InstallCommand, LocalPrepare, Begin, Get, Encrypt, Send, Reread,
         CreateLocal, GetLocal
    <3> QED
      BY <3>1 DEF RequiredTypes
  <2> QED
    BY <2>1, <2>2
<1>4. entry' \in [status : {"absent", "active", "archived"}, by : Writers \cup {Nobody}]
  <2>1. ASSUME NEW w \in Writers,
               NEW op \in {"create", "update", "delete", "restore", "destroy"},
               entry' = After(w, op)
        PROVE  entry' \in [status : {"absent", "active", "archived"}, by : Writers \cup {Nobody}]
    BY <2>1 DEF After, RequiredTypes
  <2>2. ASSUME NEW w \in Writers, Send(w), entry' # entry
        PROVE  entry' \in [status : {"absent", "active", "archived"}, by : Writers \cup {Nobody}]
    <3>1. writer[w].op \in {"create", "update", "delete", "restore", "destroy", "ensure"}
      BY <2>2 DEF Send, At, RequiredInv, WriterSafe, WriterRecords, WriterOps, Waiting
    <3>2. PICK op : op = Operation(writer[w].op)
      OBVIOUS
    <3>3. op \in {"create", "update", "delete", "restore", "destroy"}
      BY <3>1, <3>2 DEF Operation
    <3>4. entry' = After(w, op)
      BY <2>2, <3>2 DEF Send
    <3> QED
      BY <2>1, <3>3, <3>4
  <2>3. ASSUME NEW w \in Writers, CreateLocal(w), entry' # entry
        PROVE  entry' \in [status : {"absent", "active", "archived"}, by : Writers \cup {Nobody}]
    <3>1. entry' = After(w, "create")
      BY <2>3 DEF CreateLocal
    <3> QED
      BY <2>1, <3>1
  <2>4. CASE entry' = entry
    BY <2>4 DEF RequiredTypes
  <2>5. CASE entry' # entry
    <3>1. \E w \in Writers : Send(w) \/ CreateLocal(w)
      BY <2>5 DEF Next, rvars, CreateCommand, UpdateCommand, DeleteCommand, RestoreCommand,
         DestroyCommand, InstallCommand, LocalPrepare, Begin, Get, Encrypt, Reread,
         GetLocal, Rotate
    <3> QED
      BY <2>2, <2>3, <2>5, <3>1
  <2> QED
    BY <2>4, <2>5
<1> QED
  BY <1>2, <1>3, <1>4 DEF RequiredTypes

\* The variables of every part have their types, and the counters keep their
\* bounds.
THEOREM PartsTypeCorrect == PartsSpec => []PartsTypeOK
<1>1. Auth!Spec => []Auth!TypeOK
  <2>1. AuthInv => Auth!TypeOK
    BY DEF AuthInv, AuthTypes, TokensOK, EntryOK, Auth!TypeOK
  <2>2. Auth!vars = authVars
    BY DEF Auth!vars, authVars
  <2> QED
    BY <2>1, <2>2, AuthInitially, AuthStep, PTL DEF Auth!Spec, Auth!vars, authVars
<1>2. Oidc!Spec => []Oidc!TypeOK
  <2>1. OidcInv => Oidc!TypeOK
    BY DEF OidcInv, OidcTypes, KeysOK, OneListens, LoginRecords, LoginStages, Oidc!TypeOK
  <2> QED
    BY <2>1, OidcInitially, OidcStep, PTL DEF Oidc!Spec, Oidc!vars, oidcVars
<1>3. Creds!Spec => []Creds!TypeOK
  <2>1. CredsInv => Creds!TypeOK
    <3> SUFFICES ASSUME CredsInv PROVE Creds!TypeOK
      OBVIOUS
    <3>1. \A s \in Creds!Subjects : ring[s] # Creds!None => ring[s].rt \in 0..nextRefresh - 1
      BY ConstantsAssumption DEF CredsInv, CredsTypes, RingOK, SecretsOfSubjects, Tokens
    <3> QED
      BY <3>1 DEF CredsInv, CredsTypes, Views, Creds!TypeOK
  <2> QED
    BY <2>1, CredsInitially, CredsStep, PTL DEF Creds!Spec, Creds!vars, credsVars
<1>4. Spec => []TypeOK
  <2>1. Init => RequiredInv /\ RequiredTypes
    BY RequiredInitially, ConstantsAssumption DEF Init, RequiredTypes
  <2>2. RequiredInv /\ RequiredTypes => TypeOK
    BY DEF RequiredInv, WriterSafe, RequiredTypes, TypeOK
  <2> QED
    BY <2>1, <2>2, RequiredStep, RequiredTypesKeep, PTL DEF Spec
<1>5. Kube!Spec => []Kube!TypeOK
  <2>1. KubeInv => Kube!TypeOK
    BY KeysAreKeys DEF KubeInv, KubeTypes, Entries, ContextEntry, Kube!TypeOK
  <2> QED
    BY <2>1, KubeInitially, KubeStep, PTL DEF Kube!Spec, Kube!kvars, kubeVars
<1>6. Cloud!Spec => []Cloud!TypeOK
  <2>1. CloudInv => Cloud!TypeOK
    BY DEF CloudInv, CloudTypes, SecretsOK, Cloud!TypeOK, Cloud!Versions
  <2> QED
    BY <2>1, CloudInitially, CloudStep, PTL DEF Cloud!Spec, Cloud!bvars, cloudVars
<1>7. Auth!TypeOK /\ Oidc!TypeOK /\ Creds!TypeOK /\ TypeOK /\ Kube!TypeOK
        /\ Cloud!TypeOK => PartsTypeOK
  BY DEF PartsTypeOK
<1> QED
  BY <1>1, <1>2, <1>3, <1>4, <1>5, <1>6, <1>7, PartsBehave, PTL
=============================================================================
