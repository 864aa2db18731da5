----------------------------- MODULE VaultAuth -----------------------------
(***************************************************************************)
(* Who may do what at the local Vault: the transport of the VMs            *)
(* (internal/fakevault/handler.go: ServeHTTP, serveLogin, authorize) with  *)
(* the validation of Kubernetes tokens (kubernetes_token.go).              *)
(*                                                                         *)
(* A workload logs in with the JWT of its service account; the handler     *)
(* fetches the signing keys of that cluster's API server, verifies the     *)
(* JWT and keeps a client token in memory.  A secret request is            *)
(* authenticated twice, by ServeHTTP and by authorize, and the clock, the  *)
(* clusters and other requests move in between.  A cluster that is deleted *)
(* and made again has new signing keys: its generation.                    *)
(***************************************************************************)
EXTENDS Integers, Sequences

CONSTANTS
    Clusters,    \* IDs of local clusters
    Requests,    \* slots for requests served at the same time
    NoRequest,
    Hour,        \* ticks in the hour for which a client token is good
    MaxTime,     \* bound: ticks of the clock
    MaxTokens,   \* bound: client tokens handed out
    MaxGen       \* bound: generations of a cluster

VARIABLES
    clock,
    gen,         \* cluster -> generation of its signing keys
    apiUp,       \* clusters whose API server answers
    tokens,      \* handler.tokens: client token -> entry
    nextToken,   \* the next random client token
    slot         \* request slot -> where the handler stands, or NoRequest

vars == <<clock, gen, apiUp, tokens, nextToken, slot>>

Operator == [ns |-> "platform", name |-> "operator"]
Accounts == {[ns |-> "n1", name |-> "web"], [ns |-> "n1", name |-> "we"],
             Operator}
OperatorRole == "podplane-operator"
Roles == {"web", "we", OperatorRole}

\* A JWT names its account and was signed by one generation of a cluster.
Jwts == [acct: Accounts, cluster: Clusters, gen: 1..MaxGen, exp: 1..MaxTime]

\* Paths of requests, cut at the slashes; the last one is the key.
Tails == {<<"n1", "web", "k">>, <<"n1", "we", "k">>,
          <<"n1", "we", "..", "web", "k">>}
PathsOf(c) == {<<"secret", "data", c>> \o t : t \in Tails}
                  \cup {<<"secret", "metadata", c, "n1", "web", "k">>}
Methods == {"GET", "LIST", "POST"}

\* Mutant: the scope is checked on a path that is cleaned later.
MutantClean(path) == TRUE

\* cleanClusterPath: dots are refused, not resolved.
Clean(path) == \A i \in DOMAIN path : path[i] \notin {"", ".", ".."}

\* The prefix under which a workload reads, ending in a slash.
IsPrefix(p, path) == Len(p) < Len(path) /\ SubSeq(path, 1, Len(p)) = p

MayUse(e, c, method, path) ==
    \/ e.operator
    \/ /\ method = "GET"
       /\ IsPrefix(<<"secret", "data", c, e.ns, e.role>>, path)

\* authenticate: the entry must exist, be of the cluster and not be expired.
Authentic(t, c) ==
    t \in DOMAIN tokens /\ clock < tokens[t].expires /\ tokens[t].cluster = c

\* tokenEntry forgets an entry that it finds expired.
Sweep(t) ==
    [u \in {v \in DOMAIN tokens : v # t \/ clock < tokens[v].expires}
        |-> tokens[u]]

\* The keys of the API server accept their own generation only; the role
\* must be that of the account; the JWT must not have expired.
Verified(j, c, role, keys) ==
    /\ j.cluster = c /\ j.gen = keys
    /\ clock < j.exp
    /\ IF role = OperatorRole THEN j.acct = Operator ELSE role = j.acct.name

\* Mutant: a token is good for an hour, whatever is left of the JWT.
MutantEntry(j, c, role) ==
    [cluster |-> c, ns |-> j.acct.ns, role |-> role,
     operator |-> role = OperatorRole /\ j.acct = Operator,
     expires |-> clock + Hour, jwt |-> j]

\* Mutant: a token is good for as long as the JWT is.
MutantEntryForever(j, c, role) ==
    [cluster |-> c, ns |-> j.acct.ns, role |-> role,
     operator |-> role = OperatorRole /\ j.acct = Operator,
     expires |-> j.exp, jwt |-> j]

Entry(j, c, role) ==
    [cluster  |-> c,
     ns       |-> j.acct.ns,
     role     |-> role,
     operator |-> role = OperatorRole /\ j.acct = Operator,
     expires  |-> IF j.exp < clock + Hour THEN j.exp ELSE clock + Hour,
     jwt      |-> j]     \* for the properties only

Set(r, s) == slot' = [slot EXCEPT ![r] = s]

Init ==
    /\ clock = 0 /\ gen = [c \in Clusters |-> 1] /\ apiUp = Clusters
    /\ tokens = [t \in {} |-> 0] /\ nextToken = 1
    /\ slot = [r \in Requests |-> NoRequest]

----------------------------------------------------------------------------
(* Logging in.                                                             *)

\* ValidateIdentity up to fetchJWKSet: the state file of the cluster gives
\* the port of its API server, which must answer.
LoginFetchKeys(r, j, c, role) ==
    /\ slot[r] = NoRequest /\ nextToken <= MaxTokens /\ j.gen <= gen[j.cluster]
    /\ IF c \in apiUp
       THEN Set(r, [at |-> "keys", jwt |-> j, cluster |-> c, role |-> role,
                    keys |-> gen[c]])
       ELSE UNCHANGED slot       \* "invalid jwt"
    /\ UNCHANGED <<clock, gen, apiUp, tokens, nextToken>>

\* The rest of ValidateIdentity and of serveLogin.
LoginIssue(r) ==
    /\ slot[r] # NoRequest /\ slot[r].at = "keys"
    /\ LET s == slot[r]
       IN  IF Verified(s.jwt, s.cluster, s.role, s.keys)
           THEN /\ tokens' = [t \in DOMAIN tokens \cup {nextToken} |->
                                IF t = nextToken
                                THEN Entry(s.jwt, s.cluster, s.role)
                                ELSE tokens[t]]
                /\ nextToken' = nextToken + 1
           ELSE UNCHANGED <<tokens, nextToken>>
    /\ Set(r, NoRequest)
    /\ UNCHANGED <<clock, gen, apiUp>>

----------------------------------------------------------------------------
(* Secret requests.                                                        *)

\* ServeHTTP up to the dispatch: path, first authentication and scope.
CheckRequest(r, t, c, method, path) ==
    /\ slot[r] = NoRequest
    /\ tokens' = IF Clean(path) THEN Sweep(t) ELSE tokens
    /\ IF Clean(path) /\ Authentic(t, c) /\ MayUse(tokens[t], c, method, path)
       THEN Set(r, [at |-> "checked", token |-> t, cluster |-> c,
                    method |-> method, path |-> path])
       ELSE UNCHANGED slot       \* "permission denied"
    /\ UNCHANGED <<clock, gen, apiUp, nextToken>>

\* authorize: the second authentication; the store is asked for the cluster
\* of the entry.  What the store does is in FakeVault.
Serve(r) ==
    /\ slot[r] # NoRequest /\ slot[r].at = "checked"
    /\ LET s == slot[r]
       IN  /\ tokens' = Sweep(s.token)
           /\ Set(r, IF Authentic(s.token, s.cluster)
                     THEN [at |-> "served", path |-> s.path, method |-> s.method,
                           cluster |-> tokens[s.token].cluster,
                           entry |-> tokens[s.token]]
                     ELSE NoRequest)
    /\ UNCHANGED <<clock, gen, apiUp, nextToken>>

Respond(r) ==
    /\ slot[r] # NoRequest /\ slot[r].at = "served"
    /\ Set(r, NoRequest)
    /\ UNCHANGED <<clock, gen, apiUp, tokens, nextToken>>

----------------------------------------------------------------------------
(* The world around the handler.                                           *)

Tick ==
    /\ clock < MaxTime /\ clock' = clock + 1
    /\ UNCHANGED <<gen, apiUp, tokens, nextToken, slot>>

\* The cluster stops, or is deleted and made again with new keys.
ClusterStops(c) ==
    /\ c \in apiUp /\ apiUp' = apiUp \ {c}
    /\ UNCHANGED <<clock, gen, tokens, nextToken, slot>>

ClusterStarts(c) ==
    /\ c \notin apiUp /\ apiUp' = apiUp \cup {c}
    /\ \E g \in {gen[c], gen[c] + 1} :
         g <= MaxGen /\ gen' = [gen EXCEPT ![c] = g]
    /\ UNCHANGED <<clock, tokens, nextToken, slot>>

\* The server process is killed and started: the tokens lived in memory.
ServerRestarts ==
    /\ tokens' = [t \in {} |-> 0]
    /\ slot' = [r \in Requests |-> NoRequest]
    /\ UNCHANGED <<clock, gen, apiUp, nextToken>>

Next ==
    \/ \E r \in Requests :
         \/ \E j \in Jwts, c \in Clusters, role \in Roles :
              LoginFetchKeys(r, j, c, role)
         \/ LoginIssue(r)
         \/ \E t \in 1..nextToken, c \in Clusters, m \in Methods :
              \E p \in PathsOf(c) : CheckRequest(r, t, c, m, p)
         \/ Serve(r)
         \/ Respond(r)
    \/ Tick
    \/ \E c \in Clusters : ClusterStops(c) \/ ClusterStarts(c)
    \/ ServerRestarts

Spec == Init /\ [][Next]_vars

----------------------------------------------------------------------------

TypeOK ==
    /\ clock \in 0..MaxTime /\ nextToken \in Nat \ {0}
    /\ gen \in [Clusters -> 1..MaxGen] /\ apiUp \subseteq Clusters
    /\ DOMAIN tokens \subseteq 1..nextToken - 1
    /\ \A t \in DOMAIN tokens :
         /\ tokens[t].expires <= clock + Hour
         /\ tokens[t].role = OperatorRole <=> tokens[t].operator
    /\ DOMAIN slot = Requests

\* A workload is served what its own service account owns: reads of
\* the secret itself, never lists, metadata or writes, and in the cluster whose
\* keys signed its JWT.  The operator is held to its cluster (handler.go:
\* ServeHTTP, serveLogin, authorize).
ServedInScope ==
    \A r \in Requests :
        slot[r] # NoRequest /\ slot[r].at = "served" =>
            LET s == slot[r]  j == s.entry.jwt
            IN  /\ j.cluster = s.cluster
                /\ j.acct # Operator =>
                     /\ s.method = "GET"
                     /\ SubSeq(s.path, 1, 5) =
                          <<"secret", "data", s.cluster, j.acct.ns, j.acct.name>>
                     /\ Len(s.path) = 6

\* Nothing is served on a token after the JWT behind it has expired.
ServedInTime ==
    [][\A r \in Requests :
         slot'[r] # NoRequest /\ slot'[r].at = "served" /\ slot'[r] # slot[r] =>
            clock < slot'[r].entry.jwt.exp]_vars

\* What workloads are served, and how long (handler.go: ServeHTTP, authorize).
WorkloadsServed == []ServedInScope /\ ServedInTime
=============================================================================
