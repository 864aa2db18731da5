--------------------------- MODULE MCOperations ----------------------------
(***************************************************************************)
(* Model checking the parts that carry out what commands ask for.  They    *)
(* share no state: one run explores them side by side, and an initial      *)
(* state says which of them moves.  The listing is that of S3Listing.      *)
(***************************************************************************)
EXTENDS S3Listing, Sequences, TLC

CONSTANTS
    Images, NoTag, NoChart, Concurrency, HostLimit, MaxSessions,  \* ImageMirror
    Fetchers, Digests, MaxFetches,                                \* ArtifactCache
    Commands, CoreImages, CloudImages, AddOnImages, Selections,   \* DepsRelease
    MaxRelease, MaxRuns,
    Items, Capacity,                                              \* ProgressDisplay
    Builders, NoBuilder, PlatformOrder, Wanted,                   \* Bundles
    MaxBundleRelease, MaxBuilds,
    Users, Clusters, MaxPid, MaxPolls                             \* LocalServer

\* Bundles are asked for with platforms that there are, and with one at least
\* (bundle.go: Create refuses others); the rest are bounds and names that are
\* not those of something else.
ASSUME OperationsAssumption ==
    /\ Concurrency \in Nat \ {0} /\ MaxSessions \in Nat
    /\ "none" \notin Digests /\ MaxFetches \in Nat
    /\ MaxRelease \in Nat \ {0} /\ MaxRuns \in Nat
    /\ (CoreImages \cup CloudImages \cup AddOnImages) \cap {"vm", "chart", "seed"} = {}
    /\ "none" \notin Items /\ Capacity \in Nat \ {0}
    /\ NoBuilder \notin Builders /\ Len(PlatformOrder) \in Nat
    /\ \A sel \in Wanted :
         sel.platforms \in (SUBSET {PlatformOrder[i] : i \in 1..Len(PlatformOrder)}) \ {{}}
    /\ MaxBundleRelease \in Nat \ {0} /\ MaxBuilds \in Nat
    /\ Clusters # {} /\ MaxPid \in Nat /\ MaxPolls \in Nat \ {0}
    /\ Users \cap (0 .. MaxPid) = {}

VARIABLES
    part,
    blobs, index, session, jobs, failed, sessions,            \* ImageMirror
    inode, dest, tmp, stored, fetcher, fetches, disturbed,    \* ArtifactCache
    published, present, broken, torn, spoiled, cached,
    mirror, cmd, runs, meddled,                               \* DepsRelease
    shown, work, sending, channel, closedChannel, stopped,
    result, reader, display, doneMsg, returned, dropped,      \* ProgressDisplay
    latest, frozen, staged, ready, archive, bundleLock,
    builder, builds, copied, offline, importing,              \* Bundles
    pidFile, socket, process, fds, held, vms, pc, order,
    cluster, child, polls, outcome                            \* LocalServer

Mirror == INSTANCE ImageMirror

\* What a tag names: an image for each platform, or a pinned index with one.
ASSUME ImagesApart ==
    \A i, j \in Images :
        /\ Mirror!Pinned(i) => i.tag # NoTag
        /\ i.tag = j.tag /\ i.tag # NoTag =>
              /\ i.platform = j.platform <=> i.digest = j.digest
              /\ Mirror!Pinned(i) <=> Mirror!Pinned(j)
              /\ Mirror!Pinned(i) => i.chart = j.chart
        /\ Mirror!Pinned(i) /\ i.chart = j.chart /\ i.platform = j.platform =>
              i.digest = j.digest

Artifact == INSTANCE ArtifactCache WITH MaxRuns <- MaxFetches, runs <- fetches

Release == INSTANCE DepsRelease WITH disturbed <- meddled

Display == INSTANCE ProgressDisplay WITH
    kind <- shown, state <- work, work <- result

Bundles == INSTANCE Bundles WITH
    Selections <- Wanted, MaxRelease <- MaxBundleRelease, MaxRuns <- MaxBuilds,
    published <- latest, lock <- bundleLock, runs <- builds,
    cache <- offline, import <- importing

\* One command at a time, and a process that gets SIGKILL is gone in time.
Server == INSTANCE LocalServer WITH
    Cmds <- Users,
    Kinds <- {"server", "status", "start", "stop", "delete", "quit"},
    Crashes <- TRUE, Signals <- TRUE, Interrupts <- FALSE, Patient <- TRUE,
    SlowExit <- FALSE, server <- process, kind <- order

\* Checked: five entries, uploads to three objects.
MCObjectOf == <<1, 1, 2, 2, 3>>

\* Checked: two platforms of one tag, a pinned digest under another tag, an
\* index; the limit of one registry.
Image(tag, chart, digest, platform, host) ==
    [tag |-> tag, chart |-> chart, digest |-> digest, platform |-> platform,
     host |-> host]
MCImages ==
    {Image("v1", "-", "d1", "amd64", "ecr"), Image("v1", "-", "d2", "arm64", "ecr"),
     Image("v2", "x", "d1", "amd64", "quay"), Image("-", "d3", "d3", "amd64", "quay")}
MCHostLimit == [h \in {"ecr"} |-> 1]

\* Checked: commands that download are alike; Operations.cfg gives fetchers and
\* builders the same two names, as one part moves at a time.
MCSymmetry == Permutations(Commands)

\* Checked: bundles for both platforms, and for one of them with another addon.
MCPlatformOrder == <<"linux", "macos">>
MCWanted ==
    {[platforms |-> {"linux", "macos"}, addons |-> "few"],
     [platforms |-> {"macos"}, addons |-> "all"]}

mirrorVars == <<blobs, index, session, jobs, failed, sessions>>
artifactVars == <<inode, dest, tmp, stored, fetcher, fetches, disturbed>>
releaseVars == <<published, present, broken, torn, spoiled, cached, mirror,
    cmd, runs, meddled>>
displayVars == <<shown, work, sending, channel, closedChannel, stopped,
    result, reader, display, doneMsg, returned, dropped>>
bundlesVars == <<latest, frozen, staged, ready, archive, bundleLock,
    builder, builds, copied, offline, importing>>
serverVars == <<pidFile, socket, process, fds, held, vms, pc, order,
    cluster, child, polls, outcome>>
allVars == <<part, vars, mirrorVars, artifactVars, releaseVars, displayVars,
    bundlesVars, serverVars>>

\* Part i moves, the others stay as they are.
Moves(i) ==
    /\ part = i /\ UNCHANGED part
    /\ i # "listing" => UNCHANGED vars
    /\ i # "mirror" => UNCHANGED mirrorVars
    /\ i # "artifact" => UNCHANGED artifactVars
    /\ i # "release" => UNCHANGED releaseVars
    /\ i # "display" => UNCHANGED displayVars
    /\ i # "bundles" => UNCHANGED bundlesVars
    /\ i # "server" => UNCHANGED serverVars

\* A part that does not move begins in one way only.
PartsInit ==
    /\ part \in {"listing", "mirror", "artifact", "release", "display",
               "bundles", "server"}
    /\ Init /\ Mirror!Init /\ Artifact!Init /\ Release!Init
    /\ Display!Init /\ Bundles!Init /\ Server!Init
    /\ part # "display" => shown = "tasks"

PartsNext ==
    \/ Moves("listing") /\ Next
    \/ Moves("mirror") /\ Mirror!Next
    \/ Moves("artifact") /\ Artifact!Next
    \/ Moves("release") /\ Release!Next
    \/ Moves("display") /\ Display!Next
    \/ Moves("bundles") /\ Bundles!Next
    \/ Moves("server") /\ Server!Next

PartsSpec == PartsInit /\ [][PartsNext]_allVars

----------------------------------------------------------------------------

\* The type invariant of the part that moves; the others rest where they began.
PartsTypeOK ==
    /\ part = "listing" => TypeOK
    /\ part = "mirror" => Mirror!TypeOK
    /\ part = "artifact" => Artifact!TypeOK
    /\ part = "release" => Release!TypeOK
    /\ part = "display" => Display!TypeOK
    /\ part = "bundles" => Bundles!TypeOK
    /\ part = "server" => Server!TypeOK

\* Bundles are complete, and so is what is imported from them (Bundles).
BundlesSound == Bundles!BundlesSound

\* An undisturbed run serves its own artifact (ArtifactCache).
UndisturbedServes == Artifact!UndisturbedServes

\* The cache of a release can be relied on (DepsRelease).
DownloadsSound == Release!DownloadsSound

\* What is shown and returned is what happened (ProgressDisplay).
DisplayTrue == Display!DisplayTrue

\* One command at a time: a server that serves can be found (LocalServer).
Discoverable == Server!Discoverable

\* Neither goroutines nor imports lose an image (ImageMirror).
ImagesKept == Mirror!ImagesKept
============================================================================
