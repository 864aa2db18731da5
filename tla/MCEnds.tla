------------------------------ MODULE MCEnds ------------------------------
(***************************************************************************)
(* Model checking what must come to an end: requests to the secret store,  *)
(* logins, downloads of images, displays of work, and the trying again of  *)
(* who starts a local cluster.  The parts share no state: one run explores *)
(* them side by side, and an initial state says which one moves.           *)
(***************************************************************************)
EXTENDS FakeVault

CONSTANTS Logins, Cmds, Seeds, None, NotAsked, Missing, TornFile, NoGuest

VARIABLES
    part,
    clock, provider, keyFile, nextPair, codes, nextCode,          \* OidcLogin
    login, nonces, tabs, tokens,
    blobs, index, session, jobs, failed, sessions,                \* ImageMirror
    vm, clusterFiles, vault, nstance, bucket, localServer, count, \* LocalCluster
    faults, unmended, cmd,
    shown, work, sending, channel, closedChannel, stopped,        \* ProgressDisplay
    result, reader, display, doneMsg, returned, dropped

Oidc == INSTANCE OidcLogin WITH
    ClientIDs <- {"default"}, CodeTTL <- 0, MaxTime <- 0, MaxCodes <- 2,
    MaxKeys <- 1, Clients <- {"default"}, MaxLogins <- 2, nextKey <- nextPair

Image(tag, chart, digest, platform, host) ==
    [tag |-> tag, chart |-> chart, digest |-> digest, platform |-> platform,
     host |-> host]

\* Two platforms of one tag, a pinned digest under another tag, an index.
Images ==
    {Image("v1", "-", "d1", "amd64", "ecr"), Image("v1", "-", "d2", "arm64", "ecr"),
     Image("v2", "x", "d1", "amd64", "quay"), Image("-", "d3", "d3", "amd64", "quay")}

Mirror == INSTANCE ImageMirror WITH
    NoTag <- "-", NoChart <- "-", Concurrency <- 2, MaxSessions <- 1,
    HostLimit <- [h \in {"ecr"} |-> 1]

Cluster == INSTANCE LocalCluster WITH
    Ops <- {"start", "stop"}, PlatformSeeds <- Seeds,
    DefaultSeed <- CHOOSE s \in Seeds : TRUE, MaxCommands <- 4, MaxFaults <- 2,
    Cuts <- FALSE, Diligent <- TRUE, server <- localServer,
    files <- clusterFiles, Torn <- TornFile

Display == INSTANCE ProgressDisplay WITH
    Items <- {"a"}, Capacity <- 1, kind <- shown, state <- work,
    work <- result

oidcVars == <<clock, provider, keyFile, nextPair, codes, nextCode,
              login, nonces, tabs, tokens>>
mirrorVars == <<blobs, index, session, jobs, failed, sessions>>
clusterVars == <<vm, clusterFiles, vault, nstance, bucket, localServer, count, faults,
                 unmended, cmd>>
displayVars == <<shown, work, sending, channel, closedChannel, stopped, result,
                 reader, display, doneMsg, returned, dropped>>
allVars == <<part, vars, oidcVars, mirrorVars, clusterVars, displayVars>>

VaultMoves ==
    part = "vault" /\ UNCHANGED <<part, oidcVars, mirrorVars, clusterVars, displayVars>>
OidcMoves ==
    part = "oidc" /\ UNCHANGED <<part, vars, mirrorVars, clusterVars, displayVars>>
MirrorMoves ==
    part = "mirror" /\ UNCHANGED <<part, vars, oidcVars, clusterVars, displayVars>>
ClusterMoves ==
    part = "cluster" /\ UNCHANGED <<part, vars, oidcVars, mirrorVars, displayVars>>
DisplayMoves ==
    part = "display" /\ UNCHANGED <<part, vars, oidcVars, mirrorVars, clusterVars>>

PartsInit ==
    /\ part \in {"vault", "oidc", "mirror", "cluster", "display"}
    /\ Init /\ Oidc!Init /\ Mirror!Init /\ Cluster!Init /\ Display!Init
    /\ part # "vault" => \A c \in Clusters : keyring[c] = NoKey
    /\ part # "display" => shown = "tasks"

PartsNext ==
    \/ VaultMoves /\ Next
    \/ OidcMoves /\ Oidc!Next
    \/ MirrorMoves /\ Mirror!Next
    \/ ClusterMoves /\ Cluster!Next
    \/ DisplayMoves /\ Display!Next

\* The fairness of FakeVault and of LocalCluster; goroutines that wait for
\* nothing are scheduled, those that send to a channel get their turn, and a
\* user presses a key in the end.
PartsSpec ==
    /\ PartsInit /\ [][PartsNext]_allVars
    /\ \A r \in Reqs :
         SF_allVars(VaultMoves /\ Acquire(r)) /\ WF_allVars(VaultMoves /\ Holding(r))
    /\ \A l \in Logins : WF_allVars(OidcMoves /\ Oidc!Step(l))
    /\ \A i \in Images : WF_allVars(MirrorMoves /\ Mirror!Step(i))
    /\ WF_allVars(MirrorMoves /\ Mirror!EndDownload)
    /\ \A k \in Cmds :
         /\ WF_allVars(ClusterMoves /\ Cluster!Step(k))
         /\ WF_allVars(ClusterMoves /\ (Cluster!Start(k, NotAsked) \/ Cluster!Stop(k)))
    /\ WF_allVars(ClusterMoves /\ Cluster!Register)
    /\ WF_allVars(ClusterMoves /\ Cluster!Deliver)
    /\ SF_allVars(DisplayMoves /\ Display!Send("a"))
    /\ WF_allVars(DisplayMoves /\ Display!Loop)
    /\ WF_allVars(DisplayMoves /\ Display!ReadEvent)
    /\ WF_allVars(DisplayMoves /\ Display!Drain)

----------------------------------------------------------------------------

\* Every login comes to an end (OidcLogin).
LoginEnds == Oidc!LoginEnds

\* Every download comes to an end, and so does the display of it
\* (ImageMirror, ProgressDisplay).
DownloadEnds == Mirror!DownloadEnds /\ Display!DisplayEnds

\* A user who tries again gets the cluster started (LocalCluster).
RetriesSucceed == part = "cluster" => Cluster!RetriesSucceed
=============================================================================
