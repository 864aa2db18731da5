---------------------------- MODULE DepsRelease ----------------------------
(***************************************************************************)
(* A release of the dependencies and its copy in the cache:                *)
(* `podplane deps download` (internal/deps/download.go: Download), what    *)
(* `local start` and bundles verify (verify.go, verify_offline.go) and the *)
(* seed that `cluster create` ensures (seeds_cache.go).                    *)
(*                                                                         *)
(* A release is four manifests that are fetched one after the other, and   *)
(* the files that they name; a newer release may be published in between.  *)
(* Commands overlap, fail and are killed at any step.  Those that transfer *)
(* the same file write to one temporary file, and those that put images    *)
(* into one repository write one index.json: then files may end up broken  *)
(* or lost although both commands report success (ArtifactCache and        *)
(* ImageMirror have the steps).                                            *)
(***************************************************************************)
EXTENDS Integers

CONSTANTS
    Commands,
    CoreImages,     \* images that every cluster needs, ...
    CloudImages,    \* ... that a provider needs that is selected, ...
    AddOnImages,    \* ... and that an add-on needs that is selected
    Selections,     \* what commands select of those
    MaxRelease,     \* bound: releases published
    MaxRuns         \* bound: commands ever started

VARIABLES
    published,      \* the latest release
    present,        \* files that the cache has whole
    broken,         \* files that it had, or was said to have, and that are not whole
    torn,           \* images whose repository has an index.json that cannot be read
    spoiled,        \* history: what two transfers met over, or a kill tore, and
                    \* has not been whole since
    cached,         \* kind -> its manifest in the cache, Missing, Torn or Mixed
    mirror,         \* releases whose tag is in the Git mirror
    cmd,            \* command -> where it stands
    runs,
    disturbed       \* command -> another ran, or a release came, meanwhile

files == <<present, broken, torn, spoiled>>
dvars == <<published, files, cached, mirror, cmd, runs, disturbed>>

Releases == 1..MaxRelease
Missing == [rel |-> 0, marked |-> {}]
Torn == [rel |-> -1, marked |-> {}]     \* truncated
Mixed == [rel |-> -2, marked |-> {}]    \* what two writers have left
Resting == [at |-> "resting"]

\* The files of each manifest.
Kinds == {"vmconfig", "components", "templates", "seeds"}
NamesOf(kind) == CASE kind = "vmconfig" -> {"vm"}
                   [] kind = "components" -> CoreImages \cup CloudImages \cup AddOnImages
                   [] kind = "templates" -> {"chart"}
                   [] kind = "seeds" -> {"seed"}
FilesOf(kind, names, rel) == {[name |-> n, rel |-> rel] : n \in names \cap NamesOf(kind)}
Everything == UNION {NamesOf(k) : k \in Kinds}
AllFiles == [name : Everything, rel : Releases]

\* Images of all releases are in one repository, with one index.json.
ImagesOf(names) == {f \in AllFiles : f.name \in names \cap NamesOf("components")}
Repositories(fs) == {f.name : f \in fs} \cap NamesOf("components")
Shared(f) == {f} \cup ImagesOf({f.name})

\* DownloadItems and DownloadImageIndexes.
Selected(opts) ==
    {n \in Everything : n \in CloudImages \cup AddOnImages => n \in opts}

Init ==
    /\ published = 1 /\ mirror = {}
    /\ present = {} /\ broken = {} /\ torn = {} /\ spoiled = {}
    /\ cached = [k \in Kinds |-> Missing]
    /\ cmd = [c \in Commands |-> Resting]
    /\ runs = 0 /\ disturbed = [c \in Commands |-> FALSE]

At(c, at) == cmd[c].at = at
Goto(c, at) == cmd' = [cmd EXCEPT ![c].at = at]
Fail(c) == cmd' = [cmd EXCEPT ![c] = Resting]
Loaded(c, kind) == cmd[c].rels[kind]

Start(c, op, at, opts) ==
    /\ At(c, "resting") /\ runs < MaxRuns /\ runs' = runs + 1
    /\ cmd' = [cmd EXCEPT ![c] = [at |-> at, op |-> op, opts |-> opts, todo |-> Kinds,
                 rels |-> [k \in Kinds |-> 0], marked |-> {},
                 want |-> IF op = "seed" THEN published ELSE 1, get |-> {}, met |-> {}]]
    /\ disturbed' = [d \in Commands |->
          IF d = c THEN \E e \in Commands \ {c} : ~At(e, "resting")
                   ELSE disturbed[d] \/ ~At(d, "resting")]
    /\ UNCHANGED <<published, files, cached, mirror>>

\* A newer release.
Publish ==
    /\ published < MaxRelease /\ published' = published + 1
    /\ disturbed' = [c \in Commands |-> disturbed[c] \/ ~At(c, "resting")]
    /\ UNCHANGED <<files, cached, mirror, cmd, runs>>

----------------------------------------------------------------------------
(* Download.                                                               *)

\* The manifest of one kind, in the order vmconfig, components, templates,
\* seeds; flags that it comes with are reset.
Order == <<"vmconfig", "components", "templates", "seeds">>
FetchManifest(c, i) ==
    /\ At(c, "fetch") /\ cmd[c].rels[Order[i]] = 0
    /\ \A j \in 1..i - 1 : cmd[c].rels[Order[j]] # 0
    /\ \/ cmd' = [cmd EXCEPT ![c].rels[Order[i]] = published,
                    ![c].at = CASE i = 2 -> "git" [] i = 4 -> "pending" [] OTHER -> @]
       \/ Fail(c)
    /\ UNCHANGED <<published, files, cached, mirror, runs, disturbed>>

\* EnsureComponentsGitCached: every tag that there is, or those of a clone
\* that was cut; the tag of the manifest must be among them.
FetchGit(c) ==
    /\ At(c, "git")
    /\ \E rs \in SUBSET (1..published) : mirror' = mirror \cup rs
    /\ \/ Loaded(c, "components") \in mirror' /\ Goto(c, "fetch")
       \/ Fail(c)
    /\ UNCHANGED <<published, files, cached, runs, disturbed>>

\* Mutant: add-ons are left out, as they are by Verify.
MutantWantedFiles(c) ==
    UNION {FilesOf(k, Selected(cmd[c].opts \ AddOnImages), Loaded(c, k)) :
             k \in {"vmconfig", "components"}}
\* The artifacts and images.
WantedFiles(c) ==
    UNION {FilesOf(k, Selected(cmd[c].opts), Loaded(c, k)) : k \in {"vmconfig", "components"}}

\* What is not there whole is transferred.  A command that transfers the same
\* file, or an image into the same repository, meets this one: whatever the
\* two of them touch may come to harm.
Meets(c, get, d) ==
    UNION {Shared(f) : f \in {g \in get : Shared(g) \cap cmd[d].get # {}}}
BeginTransfer(c, wanted, todo) ==
    LET get == wanted \ present
        others == {d \in Commands \ {c} : At(d, "transfer")}
        met == UNION {Meets(c, get, d) : d \in others}
    IN  /\ cmd' = [d \in Commands |->
              IF d = c THEN [cmd[c] EXCEPT !.at = "transfer", !.todo = todo, !.get = get,
                                           !.met = met, !.marked = @ \cup wanted]
              ELSE IF d \in others THEN [cmd[d] EXCEPT !.met = @ \cup Meets(c, get, d)]
              ELSE cmd[d]]
        /\ spoiled' = spoiled \cup met
        /\ UNCHANGED <<present, broken, torn>>

\* An index.json that cannot be read fails the command, now and ever after.
DownloadPending(c) ==
    /\ At(c, "pending")
    /\ \/ /\ Repositories(WantedFiles(c)) \cap torn = {}
          /\ BeginTransfer(c, WantedFiles(c), {"vmconfig", "components"})
       \/ Fail(c) /\ UNCHANGED files
    /\ UNCHANGED <<published, cached, mirror, runs, disturbed>>

\* populateTemplatesCache and populateSeedsCache take everything there is.
Populate(c) ==
    /\ At(c, "populate")
    /\ LET kind == IF "templates" \in cmd[c].todo THEN "templates" ELSE "seeds"
       IN  \/ BeginTransfer(c, FilesOf(kind, Everything, Loaded(c, kind)), cmd[c].todo)
           \/ Fail(c) /\ UNCHANGED files
    /\ UNCHANGED <<published, cached, mirror, runs, disturbed>>

\* The transfer is over: "tear" is where a command goes that has got all its
\* files, as far as it can tell; one that fails or is killed has some.  Of the
\* files that it met others over, the cache has what the last rename and the
\* last index.json have left.  An index.json is torn by two writers or a kill.
Transferred(c) ==
    /\ At(c, "transfer")
    /\ LET get == cmd[c].get  met == cmd[c].met
       IN  \E how \in {"done", "failed", "killed"} :
           \E t \in SUBSET Repositories(IF how = "killed" THEN get ELSE met) :
           \E now \in SUBSET (get \cup (met \cap (present \cup broken))) :
             /\ now \cap ImagesOf(t) = {}
             /\ how = "done" => get \subseteq now \cup met
             /\ present' = (present \ (met \cup ImagesOf(t))) \cup now
             /\ broken' = (broken \cup present \cup (IF how = "done" THEN get ELSE {}))
                            \ present'
             /\ torn' = (torn \ Repositories(get)) \cup t
             /\ spoiled' = {f \in spoiled \cup ImagesOf(t) :
                   \/ f \notin present'
                   \/ \E d \in Commands \ {c} : At(d, "transfer") /\ f \in cmd[d].met}
             /\ IF how = "done"
                THEN cmd' = [cmd EXCEPT ![c].at = "tear", ![c].get = {}, ![c].met = {}]
                ELSE Fail(c)
    /\ UNCHANGED <<published, cached, mirror, runs, disturbed>>

\* The manifest whose turn it is.
Turn(c) == LET t == cmd[c].todo IN
    CASE "vmconfig" \in t -> "vmconfig"
      [] "vmconfig" \notin t /\ "components" \in t -> "components"
      [] t = {"templates", "seeds"} -> "templates"
      [] OTHER -> "seeds"

\* os.WriteFile truncates the manifest ...
TearManifest(c) ==
    /\ At(c, "tear")
    /\ cached' = [cached EXCEPT ![Turn(c)] = Torn] /\ Goto(c, "write")
    /\ UNCHANGED <<published, files, mirror, runs, disturbed>>

\* Mutant: what was selected is marked, also what could not be had.
MutantMarked(c, kind) == FilesOf(kind, Everything, Loaded(c, kind))
\* MarkCached.
Marked(c, kind) == cmd[c].marked \cap FilesOf(kind, Everything, Loaded(c, kind))

\* ... and writes it, with the flags of what this command has found or got.
\* The charts follow the components, the seeds the charts.  If another command
\* has written the manifest since it was truncated, the two may be mixed.
WriteManifest(c) ==
    /\ At(c, "write")
    /\ LET k == Turn(c)  todo == cmd[c].todo
       IN  /\ \/ cached' = [cached EXCEPT ![k] =
                                 [rel |-> Loaded(c, k), marked |-> Marked(c, k)]]
              \/ cached[k] # Torn /\ cached' = [cached EXCEPT ![k] = Mixed]
           /\ cmd' = [cmd EXCEPT ![c].at =
                        IF k = "vmconfig" THEN "tear"
                        ELSE IF k \in {"components", "templates"} THEN "populate"
                        ELSE IF cmd[c].op = "seed" THEN "lookAgain"
                        ELSE IF cmd[c].marked = {} THEN "populate" ELSE "ok",
                      ![c].todo = CASE k = "vmconfig" -> {"components"}
                                    [] k = "components" -> {"templates", "seeds"}
                                    [] OTHER -> {"seeds"}]
    /\ UNCHANGED <<published, files, mirror, runs, disturbed>>

----------------------------------------------------------------------------
(* EnsureSeedSnapshot, for a given release or for whichever there is.      *)

\* Mutant: a seed that the manifest names is taken to be there.
MutantSeedThere(rel) == cached["seeds"].rel = rel
\* CachedSeedSnapshotPath: a path that exists, whatever the file holds.
SeedThere(rel) ==
    LET m == cached["seeds"]  f == [name |-> "seed", rel |-> rel]
    IN  m.rel = rel /\ f \in m.marked /\ f \in present \cup broken

Look(c) ==
    /\ At(c, "look") \/ At(c, "lookAgain")
    /\ \/ SeedThere(cmd[c].want) /\ Goto(c, "seed")
       \/ ~SeedThere(cmd[c].want) /\ At(c, "look") /\ Goto(c, "fetchSeeds")
    /\ UNCHANGED <<published, files, cached, mirror, runs, disturbed>>

FetchSeeds(c) ==
    /\ At(c, "fetchSeeds")
    /\ \/ /\ published = cmd[c].want
          /\ cmd' = [cmd EXCEPT ![c].rels["seeds"] = published, ![c].todo = {"seeds"},
                                ![c].at = "populate"]
       \/ Fail(c)
    /\ UNCHANGED <<published, files, cached, mirror, runs, disturbed>>

\* EnsureSeedSnapshotsCached: the manifest that is there, or else the latest,
\* which is first written without flags.
ReadSeeds(c) ==
    /\ At(c, "readSeeds")
    /\ LET rel == IF cached["seeds"] = Missing THEN published ELSE cached["seeds"].rel
       IN  \/ /\ cached["seeds"] \notin {Torn, Mixed}
              /\ cmd' = [cmd EXCEPT ![c].rels["seeds"] = rel, ![c].todo = {"seeds"}, ![c].at =
                           IF cached["seeds"] = Missing THEN "tear" ELSE "populate"]
           \/ Fail(c)
    /\ UNCHANGED <<published, files, cached, mirror, runs, disturbed>>

\* The command ends, or is killed.
End(c) ==
    /\ ~At(c, "resting") /\ ~At(c, "transfer") /\ cmd' = [cmd EXCEPT ![c] = Resting]
    /\ UNCHANGED <<published, files, cached, mirror, runs, disturbed>>

Next ==
    \/ \E c \in Commands :
         \/ \E opts \in Selections : Start(c, "download", "fetch", opts)
         \/ Start(c, "seed", "look", {}) \/ Start(c, "seeds", "readSeeds", {})
         \/ \E i \in 1..4 : FetchManifest(c, i)
         \/ FetchGit(c) \/ DownloadPending(c) \/ Populate(c) \/ Transferred(c)
         \/ TearManifest(c) \/ WriteManifest(c)
         \/ Look(c) \/ FetchSeeds(c) \/ ReadSeeds(c) \/ End(c)
    \/ Publish

Spec == Init /\ [][Next]_dvars

----------------------------------------------------------------------------
(* What is verified, whatever the flags say.                               *)

Complete(kind, names) ==
    /\ cached[kind].rel \in Releases
    /\ FilesOf(kind, names, cached[kind].rel) \subseteq present

Verify(opts) ==
    /\ Complete("vmconfig", Selected(opts))
    /\ Complete("components", Selected(opts \ AddOnImages))

VerifyOffline(opts) ==
    /\ Verify(opts) /\ Complete("components", Selected(opts))
    /\ cached["components"].rel \in mirror
    /\ \A k \in {"templates", "seeds"} :
         Complete(k, Everything) /\ cached[k].marked = FilesOf(k, Everything, cached[k].rel)
    /\ cached["seeds"].rel = cached["components"].rel

\* manifestComparableJSON: flags do not count.
NeedsUpdate == cached["vmconfig"].rel # published

TypeOK ==
    /\ published \in Releases /\ mirror \subseteq Releases /\ runs \in 0..MaxRuns
    /\ present \subseteq AllFiles /\ spoiled \subseteq AllFiles
    /\ broken \subseteq AllFiles \ present
    /\ torn \subseteq NamesOf("components") /\ present \cap ImagesOf(torn) = {}
    /\ \A k \in Kinds : cached[k].rel \in -2..MaxRelease
    /\ disturbed \in [Commands -> BOOLEAN]

\* A file that a manifest in the cache marks as cached is there, whole, after
\* any failure of any command, and with others running beside it (Download,
\* cacheSeedSnapshots) - but for what transfers of two commands have met over,
\* and the images of a repository whose index.json was torn, until they have
\* been whole again: both are marked, or stay marked, in the code.
FlaggedIsThere == \A k \in Kinds : cached[k].marked \subseteq present \cup spoiled

\* Whatever failed and overlapping commands have left, a download that nothing
\* disturbs ends with a set that can be verified off-line for its selection
\* and for every smaller one, and that is up to date (Download).
DownloadRepairs ==
    \A c \in Commands : At(c, "ok") /\ cmd[c].op = "download" /\ ~disturbed[c] =>
        /\ \A opts \in SUBSET cmd[c].opts : VerifyOffline(opts)
        /\ ~NeedsUpdate

\* The path of a seed is returned only when the file is there, in the release
\* that was asked for, and whole unless two commands transferred it at the same
\* time (EnsureSeedSnapshot).
SeedReturned ==
    \A c \in Commands : At(c, "seed") =>
        [name |-> "seed", rel |-> cmd[c].want] \in present \cup spoiled

\* The cache of a release can be relied on (download.go, seeds_cache.go).
DownloadsSound == FlaggedIsThere /\ DownloadRepairs /\ SeedReturned
=============================================================================
