---------------------------- MODULE KubeContext ----------------------------
(***************************************************************************)
(* The entries of the kubeconfig file: ConfigureClusterAccess (`podplane   *)
(* login`, `podplane local start`) and DeleteClusterAccess (`podplane      *)
(* logout`, `podplane local delete`) of internal/kubectl.                  *)
(*                                                                         *)
(* Every entry is read and written by a kubectl of its own, so commands    *)
(* interleave between any two of them, and may be killed there.  A name is *)
(* the sequence of its parts, which the code joins with hyphens.           *)
(***************************************************************************)
EXTENDS Integers, Sequences

CONSTANTS
    Clis,           \* processes
    Targets,        \* clusters: [id, local, subs, server, podplane]; subs are
                    \* those that may log in, podplane says whether the name of
                    \* the server contains that word
    Binaries,       \* paths at which the binary is installed, in time
    MaxCommands     \* bound: commands ever started

VARIABLES
    clusters, users, contexts,  \* the entries of the file, by name
    cli,                        \* process -> where it stands
    commands,
    overlapped  \* process -> another command ran, or was killed, meanwhile

kvars == <<clusters, users, contexts, cli, commands, overlapped>>

None == [no |-> "entry"]
Resting == [at |-> "resting"]

ClusterKey(t) == <<"podplane">> \o (IF t.local THEN <<"local">> ELSE <<>>) \o t.id
ContextKey(t) ==
    IF t.local THEN IF t.id = <<"default">> THEN <<"local">> ELSE <<"local">> \o t.id
               ELSE t.id
CredentialsKey(t, sub) == ClusterKey(t) \o sub

ClusterKeys == {ClusterKey(t) : t \in Targets}
ContextKeys == {ContextKey(t) : t \in Targets}

\* Names of different clusters differ, and a server stays where it is unless
\* its name says that Podplane gave it; no name holds that of another cluster
\* and a hyphen before that of a subject, and no name begins with "local-".
KeysApart ==
    \A t, u \in Targets :
        /\ ContextKey(t) = ContextKey(u) => ClusterKey(t) = ClusterKey(u)
        /\ ClusterKey(t) = ClusterKey(u) => t.local \/ t.server = u.server \/ u.podplane
        /\ \A sub \in t.subs, other \in u.subs :
              CredentialsKey(t, sub) = CredentialsKey(u, other) =>
                  t.id = u.id /\ t.local = u.local /\ sub = other

UserKeys == UNION {{CredentialsKey(t, sub) : sub \in t.subs} : t \in Targets}

Init ==
    /\ clusters = [k \in ClusterKeys |-> None]
    /\ users = [k \in UserKeys |-> None]
    /\ contexts = [k \in ContextKeys |-> None]
    /\ cli = [c \in Clis |-> Resting]
    /\ commands = 0
    /\ overlapped = [c \in Clis |-> FALSE]

At(c, at) == cli[c].at = at
Goto(c, at) == cli' = [cli EXCEPT ![c].at = at]
Mine(c) == cli[c].target

Start(c, op, t, sub, bin) ==
    /\ At(c, "resting") /\ commands < MaxCommands /\ commands' = commands + 1
    /\ cli' = [cli EXCEPT ![c] = [at |-> IF op = "login" THEN "viewCluster"
                                                         ELSE "delContext",
                                  target |-> t, sub |-> sub, bin |-> bin]]
    /\ overlapped' = [d \in Clis |->
          IF d = c THEN \E e \in Clis \ {c} : ~At(e, "resting")
                   ELSE overlapped[d] \/ ~At(d, "resting")]
    /\ UNCHANGED <<clusters, users, contexts>>

----------------------------------------------------------------------------
(* ConfigureClusterAccess.                                                 *)

\* SetCluster: what of the entry that is there decides.  The entry of a local
\* cluster is always written anew.
ViewCluster(c) ==
    /\ At(c, "viewCluster")
    /\ LET t == Mine(c)  e == clusters[ClusterKey(t)]
       IN  Goto(c, IF /\ e # None /\ ~t.local
                      /\ e.server = t.server \/ ~e.podplane
                   THEN "viewUser" ELSE "setCluster")
    /\ UNCHANGED <<clusters, users, contexts, commands, overlapped>>

SetCluster(c) ==
    /\ At(c, "setCluster")
    /\ LET t == Mine(c)
       IN  clusters' = [clusters EXCEPT ![ClusterKey(t)] =
                          [server |-> t.server, podplane |-> t.podplane]]
    /\ Goto(c, "viewUser")
    /\ UNCHANGED <<users, contexts, commands, overlapped>>

\* SetCredentials: an entry that runs this binary is kept as it is.
ViewUser(c) ==
    /\ At(c, "viewUser")
    /\ LET e == users[CredentialsKey(Mine(c), cli[c].sub)]
       IN  Goto(c, IF e # None /\ e.bin = cli[c].bin THEN "viewContext" ELSE "setUser")
    /\ UNCHANGED <<clusters, users, contexts, commands, overlapped>>

SetUser(c) ==
    /\ At(c, "setUser")
    /\ LET t == Mine(c)
       IN  users' = [users EXCEPT ![CredentialsKey(t, cli[c].sub)] =
                       [bin |-> cli[c].bin, id |-> t.id, local |-> t.local,
                        sub |-> cli[c].sub]]
    /\ Goto(c, "viewContext")
    /\ UNCHANGED <<clusters, contexts, commands, overlapped>>

\* Mutant: a context that is there is not changed.
MutantKeepContext(e, t, sub) == e # None
\* SetContext: kept when it names another cluster or already this user.
KeepContext(e, t, sub) ==
    e # None /\ (e.cluster # ClusterKey(t) \/ e.user = CredentialsKey(t, sub))

ViewContext(c) ==
    /\ At(c, "viewContext")
    /\ Goto(c, IF KeepContext(contexts[ContextKey(Mine(c))], Mine(c), cli[c].sub)
               THEN "configured" ELSE "setContext")
    /\ UNCHANGED <<clusters, users, contexts, commands, overlapped>>

SetContext(c) ==
    /\ At(c, "setContext")
    /\ contexts' = [contexts EXCEPT ![ContextKey(Mine(c))] =
          [cluster |-> ClusterKey(Mine(c)),
           user |-> CredentialsKey(Mine(c), cli[c].sub)]]
    /\ Goto(c, "configured")
    /\ UNCHANGED <<clusters, users, commands, overlapped>>

----------------------------------------------------------------------------
(* DeleteClusterAccess; entries that are missing are no error.             *)

DelContext(c) ==
    /\ At(c, "delContext")
    /\ contexts' = [contexts EXCEPT ![ContextKey(Mine(c))] = None]
    /\ Goto(c, "delCluster")
    /\ UNCHANGED <<clusters, users, commands, overlapped>>

DelCluster(c) ==
    /\ At(c, "delCluster")
    /\ clusters' = [clusters EXCEPT ![ClusterKey(Mine(c))] = None]
    /\ Goto(c, "delUser")
    /\ UNCHANGED <<users, contexts, commands, overlapped>>

DelUser(c) ==
    /\ At(c, "delUser")
    /\ users' = [users EXCEPT ![CredentialsKey(Mine(c), cli[c].sub)] = None]
    /\ Goto(c, "deleted")
    /\ UNCHANGED <<clusters, contexts, commands, overlapped>>

\* The command ends, is killed, or a kubectl of its fails.
End(c) ==
    /\ ~At(c, "resting")
    /\ cli' = [cli EXCEPT ![c] = Resting]
    /\ UNCHANGED <<clusters, users, contexts, commands, overlapped>>

Next == \E c \in Clis :
    \/ \E op \in {"login", "logout"}, t \in Targets, bin \in Binaries :
         \E sub \in t.subs : Start(c, op, t, sub, bin)
    \/ ViewCluster(c) \/ SetCluster(c) \/ ViewUser(c) \/ SetUser(c)
    \/ ViewContext(c) \/ SetContext(c)
    \/ DelContext(c) \/ DelCluster(c) \/ DelUser(c) \/ End(c)

Spec == Init /\ [][Next]_kvars

----------------------------------------------------------------------------

TypeOK ==
    /\ commands \in 0..MaxCommands
    /\ overlapped \in [Clis -> BOOLEAN]
    /\ \A k \in ContextKeys : contexts[k] # None =>
          contexts[k].cluster \in ClusterKeys /\ contexts[k].user \in UserKeys

\* What kubectl does in the context of t: the server it talks to and the hook
\* that gives it a token (credentialExecArgs).
LeadsTo(t, sub, bin) ==
    LET ctx == contexts[ContextKey(t)]
    IN  /\ ctx # None
        /\ clusters[ctx.cluster] # None /\ clusters[ctx.cluster].server = t.server
        /\ users[ctx.user] = [bin |-> bin, id |-> t.id, local |-> t.local, sub |-> sub]

\* A configuration that succeeds while no other command runs leaves a context
\* that leads to the cluster, as the subject, by this binary; whatever killed
\* commands, earlier logins and logouts have left (ConfigureClusterAccess).
ConfiguredWorks ==
    \A c \in Clis : At(c, "configured") /\ ~overlapped[c] =>
        LeadsTo(Mine(c), cli[c].sub, cli[c].bin)

\* What the comment of ConfigureClusterAccess says: the keys of a local and
\* of a remote cluster do not collide, so a command for the one leaves the
\* context of the other alone.
LocalAndRemoteApart ==
    [][\A c \in Clis, t \in Targets :
         ~At(c, "resting") /\ cli'[c] # cli[c] /\ Mine(c).local # t.local
           => contexts'[ContextKey(t)] = contexts[ContextKey(t)]]_kvars
=============================================================================
