----------------------------- MODULE TofuCache -----------------------------
(***************************************************************************)
(* The cache of OpenTofu dependencies that the stacks of all clusters      *)
(* share (internal/tfdeps/cache.go) and the commands that use it:          *)
(* `podplane deps tf`, `cluster create`, `cluster upgrade`, `cluster       *)
(* delete`.                                                                *)
(*                                                                         *)
(* A release of the upstream modules and providers is a number; newer ones *)
(* are published at any time.  The Podplane provider is that of the        *)
(* release of the CLI which runs.  Commands overlap, and fail or are       *)
(* killed at any step; what they stage on the side is gone then.           *)
(***************************************************************************)
EXTENDS Integers, FiniteSets

CONSTANTS
    Commands, Stacks,
    Platforms, Host,   \* platforms of providers; that of this machine
    MaxRelease,        \* bound: upstream releases
    Clis,              \* releases of the CLI
    MaxRuns            \* bound: commands ever started

VARIABLES
    published,  \* the upstream release that an unpinned root resolves to
    mirror,     \* providers/: the packages of the file-system mirror
    modules,    \* modules/nstance/<version>: "none", "aws" (older caches), "both"
    lock,       \* .terraform.lock.hcl of the cache
    current,    \* modules/nstance/current-version
    platforms,  \* the platforms file
    stack,      \* stack -> main: version in main.tf, lock: its lock file
    cmd, runs,
    disturbed   \* command -> another one moved since it began

tvars == <<published, mirror, modules, lock, current, platforms, stack, cmd,
           runs, disturbed>>
cache == <<mirror, modules, lock, current, platforms>>

NoVersion == 0
Versions == 1..MaxRelease
NoLock == [rel |-> NoVersion, cli |-> 0]
NoStack == [main |-> NoVersion, lock |-> NoLock]

\* readProviderLocks: the packages that a lock file names, for one platform.
Packages(l, platform) ==
    {[name |-> "podplane", version |-> l.cli, platform |-> platform],
     [name |-> "upstream", version |-> l.rel, platform |-> platform]}

\* dependenciesAvailable.
Available(version, l, platform) ==
    /\ version # NoVersion /\ modules[version] = "both"
    /\ l # NoLock /\ Packages(l, platform) \subseteq mirror

\* podplaneLockMatches.
LockMatches(l, cli) == l.cli = cli

Resting == [at |-> "resting"]

\* Empty, or left by a CLI that had no Google modules and that may have
\* generated stacks.
Init ==
    /\ published = 1 /\ platforms = {}
    /\ \E old \in BOOLEAN, made \in SUBSET Stacks :
         /\ modules = [v \in Versions |-> IF old /\ v = 1 THEN "aws" ELSE "none"]
         /\ current = IF old THEN 1 ELSE NoVersion
         /\ lock = IF old THEN [rel |-> 1, cli |-> 1] ELSE NoLock
         /\ mirror = IF old THEN Packages([rel |-> 1, cli |-> 1], Host) ELSE {}
         /\ stack = [s \in Stacks |->
              IF s \in made THEN [main |-> 1, lock |-> [rel |-> 1, cli |-> 1]]
                            ELSE NoStack]
    /\ cmd = [c \in Commands |-> Resting]
    /\ runs = 0 /\ disturbed = [c \in Commands |-> FALSE]

At(c, at) == cmd[c].at = at
Goto(c, at) == cmd' = [cmd EXCEPT ![c].at = at]
Fail(c) == cmd' = [cmd EXCEPT ![c] = Resting]
Mine(c) == stack[cmd[c].stack]

\* Every step of a command disturbs the others.
Disturbs(c) ==
    disturbed' = [d \in Commands |->
        IF d = c THEN disturbed[d] ELSE ~At(d, "resting")]

----------------------------------------------------------------------------
(* The commands begin.  exact and seed are the arguments of download: the  *)
(* version of the modules and the lock file to resolve with; seed is then  *)
(* the lock file that was resolved.                                        *)

\* Ensure and Upgrade read main.tf first: a generated stack is pinned to the
\* version there, a new one has nothing to upgrade.
Begin(c, op, s, cli, asked) ==
    LET main == IF op = "deps" THEN NoVersion ELSE stack[s].main
        pinned == main # NoVersion
    IN
    /\ At(c, "resting") /\ runs < MaxRuns /\ runs' = runs + 1
    /\ op = "upgrade" => pinned
    /\ cmd' = [cmd EXCEPT ![c] =
         [at |-> CASE op \in {"deps", "upgrade"} -> "resolve"
                   [] op \in {"create", "delete"} /\ pinned -> "pinned"
                   [] OTHER -> "current",
          op |-> op, stack |-> s, cli |-> cli, all |-> asked,
          exact |-> IF op = "upgrade" THEN NoVersion ELSE main,
          found |-> IF op = "deps" THEN NoStack ELSE stack[s],
          version |-> main, seed |-> NoLock]]
    /\ disturbed' = [d \in Commands |->
         IF d = c THEN \E o \in Commands \ {c} : ~At(o, "resting")
                  ELSE ~At(d, "resting")]
    /\ UNCHANGED <<published, cache, stack>>

DepsTF(c, cli, asked) == Begin(c, "deps", CHOOSE s \in Stacks : TRUE, cli, asked)
ClusterCreate(c, s, cli) == Begin(c, "create", s, cli, {Host})
ClusterDelete(c, s, cli) == Begin(c, "delete", s, cli, {Host})
ClusterUpgrade(c, s, cli) == Begin(c, "upgrade", s, cli, {Host})

\* Mutant: a stack of another CLI is taken as it is.
MutantMayUse(l, cli) == l # NoLock

\* A lock file must be there and be one of this CLI.
MayUse(l, cli) == l # NoLock /\ LockMatches(l, cli)

\* Ensure, for a stack that is pinned: its own lock file, its own version.
EnsurePinned(c) ==
    /\ At(c, "pinned") /\ Disturbs(c)
    /\ LET s == Mine(c)
       IN  IF MayUse(s.lock, cmd[c].cli)
           THEN cmd' = [cmd EXCEPT ![c].seed = s.lock, ![c].at =
                  IF Available(cmd[c].exact, s.lock, Host) THEN "configure" ELSE "resolve"]
           ELSE Fail(c)
    /\ UNCHANGED <<published, cache, stack, runs>>

\* Ensure, for a new stack: currentModuleVersion ...
ReadCurrent(c) ==
    /\ At(c, "current") /\ Disturbs(c)
    /\ cmd' = [cmd EXCEPT ![c].version = current, ![c].at =
                  IF current = NoVersion THEN "resolve" ELSE "available"]
    /\ UNCHANGED <<published, cache, stack, runs>>

\* ... and what goes with it, unless it is that of another CLI.
EnsureCurrent(c) ==
    /\ At(c, "available") /\ Disturbs(c)
    /\ Goto(c, IF /\ Available(cmd[c].version, lock, Host)
                  /\ MayUse(lock, cmd[c].cli)
               THEN "configure" ELSE "resolve")
    /\ UNCHANGED <<published, cache, stack, runs>>

----------------------------------------------------------------------------
(* download.                                                               *)

\* Mutant: what is restored is the newest, not what the stack was made with.
MutantRestored(c) == [version |-> published, lock |-> [rel |-> published, cli |-> cmd[c].cli]]

\* What the engine resolves: the newest, or exactly what it was told.
Restored(c) ==
    [version |-> IF cmd[c].exact = NoVersion THEN published ELSE cmd[c].exact,
     lock    |-> IF cmd[c].seed = NoLock THEN [rel |-> published, cli |-> cmd[c].cli]
                                         ELSE cmd[c].seed]

\* Platforms, also those cached before, then init, mirror and lock in staging.
Resolve(c) ==
    /\ At(c, "resolve") /\ Disturbs(c)
    /\ LET r == Restored(c)
       IN  cmd' = [cmd EXCEPT ![c].version = r.version, ![c].seed = r.lock,
                     ![c].all = cmd[c].all \cup platforms, ![c].at = "merge"]
    /\ UNCHANGED <<published, cache, stack, runs>>

\* mergeProviderMirror links one package after the other, in the order of
\* their names; what is there is kept.
Merge(c) ==
    /\ At(c, "merge") /\ Disturbs(c)
    /\ LET missing == (UNION {Packages(cmd[c].seed, p) : p \in cmd[c].all}) \ mirror
       IN  \/ /\ missing = {} /\ Goto(c, "install") /\ UNCHANGED mirror
           \/ /\ \E x \in missing :
                   /\ x.name = "podplane" => \A y \in missing : y.name = "podplane"
                   /\ mirror' = mirror \cup {y \in missing : y.name = x.name}
              /\ UNCHANGED cmd
    /\ UNCHANGED <<published, modules, lock, current, platforms, stack, runs>>

\* installModuleVersion: an older version gets what it lacks.
Install(c) ==
    /\ At(c, "install") /\ Disturbs(c)
    /\ modules' = [modules EXCEPT ![cmd[c].version] = "both"]
    /\ Goto(c, IF cmd[c].exact = NoVersion THEN "lock" ELSE "platforms")
    /\ UNCHANGED <<published, mirror, lock, current, platforms, stack, runs>>

WriteLock(c) ==
    /\ At(c, "lock") /\ Disturbs(c)
    /\ lock' = cmd[c].seed /\ Goto(c, "version")
    /\ UNCHANGED <<published, mirror, modules, current, platforms, stack, runs>>

WriteCurrent(c) ==
    /\ At(c, "version") /\ Disturbs(c)
    /\ current' = cmd[c].version /\ Goto(c, "platforms")
    /\ UNCHANGED <<published, mirror, modules, lock, platforms, stack, runs>>

\* ... and, after an unpinned download, currentModuleVersion once more.
WritePlatforms(c) ==
    /\ At(c, "platforms") /\ Disturbs(c)
    /\ platforms' = cmd[c].all
    /\ Goto(c, IF cmd[c].op = "deps" THEN "ok"
               ELSE IF cmd[c].exact # NoVersion THEN "configure" ELSE "again")
    /\ UNCHANGED <<published, mirror, modules, lock, current, stack, runs>>

ReadAgain(c) ==
    /\ At(c, "again") /\ Disturbs(c)
    /\ cmd' = [cmd EXCEPT ![c].version = current, ![c].at = "configure"]
    /\ UNCHANGED <<published, cache, stack, runs>>

----------------------------------------------------------------------------

\* Mutant: the lock file of a pinned stack is replaced by that of the cache.
MutantLockFor(c) == lock

\* Mutant: also an upgrade preserves the lock file that is there.
MutantLockKept(c) == IF Mine(c).lock # NoLock THEN Mine(c).lock ELSE lock

\* configureVersion: preserveLock keeps the lock file of a pinned stack.
LockFor(c) == IF cmd[c].exact # NoVersion THEN Mine(c).lock ELSE lock

Configure(c) ==
    /\ At(c, "configure") /\ Disturbs(c)
    /\ IF modules[cmd[c].version] = "both" /\ LockFor(c) # NoLock
       THEN /\ stack' = [stack EXCEPT ![cmd[c].stack].lock = LockFor(c)]
            /\ Goto(c, IF cmd[c].op = "delete" THEN "ok" ELSE "write")
       ELSE Fail(c) /\ UNCHANGED stack
    /\ UNCHANGED <<published, cache, runs>>

\* tfgen.WriteCluster, which names the module directory in main.tf.
WriteCluster(c) ==
    /\ At(c, "write") /\ Disturbs(c)
    /\ stack' = [stack EXCEPT ![cmd[c].stack].main = cmd[c].version]
    /\ Goto(c, "ok")
    /\ UNCHANGED <<published, cache, runs>>

\* The command ends, or is killed.
End(c) ==
    /\ ~At(c, "resting") /\ Fail(c)
    /\ disturbed' = [disturbed EXCEPT ![c] = FALSE]
    /\ UNCHANGED <<published, cache, stack, runs>>

Publish ==
    /\ published < MaxRelease /\ published' = published + 1
    /\ UNCHANGED <<cache, stack, cmd, runs, disturbed>>

\* The stack is used on a machine with an empty cache, or the cache is removed.
LoseCache ==
    /\ \A c \in Commands : At(c, "resting")
    /\ mirror' = {} /\ modules' = [v \in Versions |-> "none"]
    /\ lock' = NoLock /\ current' = NoVersion /\ platforms' = {}
    /\ UNCHANGED <<published, stack, cmd, runs, disturbed>>

Next ==
    \/ \E c \in Commands :
         \/ \E cli \in Clis :
              \/ \E asked \in (SUBSET Platforms) \ {{}} : DepsTF(c, cli, asked)
              \/ \E s \in Stacks :
                   ClusterCreate(c, s, cli) \/ ClusterDelete(c, s, cli)
                     \/ ClusterUpgrade(c, s, cli)
         \/ EnsurePinned(c) \/ ReadCurrent(c) \/ EnsureCurrent(c)
         \/ Resolve(c) \/ Merge(c) \/ Install(c) \/ WriteLock(c) \/ WriteCurrent(c)
         \/ WritePlatforms(c) \/ ReadAgain(c) \/ Configure(c) \/ WriteCluster(c)
         \/ End(c)
    \/ Publish \/ LoseCache

Spec == Init /\ [][Next]_tvars

----------------------------------------------------------------------------

TypeOK ==
    /\ published \in Versions /\ current \in Versions \cup {NoVersion}
    /\ modules \in [Versions -> {"none", "aws", "both"}]
    /\ platforms \subseteq Platforms /\ runs \in 0..MaxRuns
    /\ \A s \in Stacks : stack[s].main \in Versions \cup {NoVersion}
    /\ disturbed \in [Commands -> BOOLEAN]

\* What Ensure and Upgrade hand to OpenTofu can be initialised without a
\* network and by this CLI, whatever other commands, killed downloads and other
\* releases of the CLI have left in the cache (Ensure, Upgrade).
EnsuredUsable ==
    \A c \in Commands :
        /\ At(c, "write") \/ (At(c, "ok") /\ cmd[c].op # "deps")
        /\ ~disturbed[c]
        =>  /\ Available(cmd[c].version, Mine(c).lock, Host)
            /\ LockMatches(Mine(c).lock, cmd[c].cli)

\* A stack that was generated is restored exactly as it was, also when its
\* dependencies are gone from the cache and newer ones are published; only an
\* upgrade moves it on (Ensure).
PinnedRestored ==
    \A c \in Commands :
        At(c, "ok") /\ cmd[c].op \in {"create", "delete"} /\ cmd[c].found.main # NoVersion
          /\ ~disturbed[c] => Mine(c) = cmd[c].found

\* An upgrade leaves modules and providers of one release, also when an earlier
\* one was killed between the lock file and main.tf (Upgrade).
UpgradeWhole ==
    \A c \in Commands : At(c, "ok") /\ cmd[c].op = "upgrade" /\ ~disturbed[c] =>
        /\ Mine(c).main = Mine(c).lock.rel /\ Mine(c).main = current

\* Stacks can be initialised, restored and upgraded (cache.go: Ensure, Upgrade).
StacksWork == EnsuredUsable /\ PinnedRestored /\ UpgradeWhole
=============================================================================
