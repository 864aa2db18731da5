------------------------------ MODULE Bundles ------------------------------
(***************************************************************************)
(* Bundles for machines without a network (internal/bundle): `deps bundle` *)
(* stages the tools and the dependencies of each platform and writes one   *)
(* archive for each; `deps import` merges an extracted one into a cache.   *)
(*                                                                         *)
(* Builders run at the same time, with the same caches and destination,    *)
(* and are killed at any step.  Releases are published meanwhile.  What a  *)
(* user has copied to another machine may be incomplete or changed.        *)
(***************************************************************************)
EXTENDS Integers, Sequences

CONSTANTS
    Builders, NoBuilder,
    PlatformOrder,  \* host platforms, in the order of their names
    Selections,  \* what users ask for: platforms, providers and addons
    MaxRelease,  \* bound: releases
    MaxRuns      \* bound: commands ever started

VARIABLES
    published,   \* the release of tools and dependencies
    frozen,      \* stage/upstream: the release that it resolved
    staged,      \* platform -> its directory in the stage
    ready,       \* stage/ready: a selection, NoSelection, or Torn
    archive,     \* platform -> podplane-<platform>.tar.gz
    lock,        \* who holds bundles.lock
    builder,     \* Create, for each builder
    runs,
    copied,      \* the bundle that was extracted on another machine
    cache,       \* the cache there
    import       \* Import, there

bundleVars == <<published, frozen, staged, ready, archive, lock, builder, runs,
                copied, cache, import>>
stageVars == <<frozen, staged, ready>>
there == <<copied, cache, import>>

None == 0
Platforms == {PlatformOrder[i] : i \in 1..Len(PlatformOrder)}
Releases == 1..MaxRelease
NoSelection == [platforms |-> {}, addons |-> "none"]
Torn == [platforms |-> {}, addons |-> "torn"]

\* What is in a directory, and what its manifest has the checksum of.
Contents == [tools : Releases \cup {None}, deps : BOOLEAN,
             addons : {s.addons : s \in Selections} \cup {"none"}]
Nothing == [tools |-> None, deps |-> FALSE, addons |-> "none"]
NoBundle == [in |-> Nothing, sum |-> Nothing]
Missing == "missing"
Half == "half"
NoFile == [file |-> Missing, in |-> Nothing]
NoPlatform == "none"

Resting == [at |-> "resting", sel |-> NoSelection, refresh |-> FALSE,
            cleanup |-> FALSE, todo |-> {}, open |-> NoPlatform, lost |-> {}]

NoImport == [at |-> "resting", inventory |-> Nothing, files |-> Nothing]

Init ==
    /\ published = 1 /\ frozen = None /\ ready = NoSelection
    /\ staged = [p \in Platforms |-> NoBundle]
    /\ archive = [p \in Platforms |-> NoFile]
    /\ lock = NoBuilder /\ runs = 0
    /\ builder = [b \in Builders |-> Resting]
    /\ copied = NoBundle
    /\ cache = [files |-> {}, indexes |-> {}, manifest |-> Nothing]
    /\ import = NoImport

At(b, at) == builder[b].at = at
Goto(b, at) == builder' = [builder EXCEPT ![b].at = at]
GotoFor(b, at, todo) == builder' = [builder EXCEPT ![b].at = at, ![b].todo = todo]
Unlock(b) == lock' = IF lock = b THEN NoBuilder ELSE lock
Stop(b, at) ==
    /\ builder' = [builder EXCEPT ![b].at = at, ![b].todo = {}, ![b].open = NoPlatform]
    /\ Unlock(b)
Sel(b) == builder[b].sel

\* The next platform of a builder.
IsNext(b, p) ==
    \E i \in 1..Len(PlatformOrder) :
        /\ p = PlatformOrder[i] /\ p \in builder[b].todo
        /\ \A j \in 1..(i - 1) : PlatformOrder[j] \notin builder[b].todo

----------------------------------------------------------------------------
(* Create.                                                                 *)

\* `deps bundle` offers to delete archives that are there.
Begin(b, sel, refresh, cleanup) ==
    /\ At(b, "resting") /\ runs < MaxRuns /\ runs' = runs + 1
    /\ archive' = [p \in Platforms |->
         IF p \in sel.platforms THEN NoFile ELSE archive[p]]
    /\ builder' = [c \in Builders |->
         IF c = b THEN [Resting EXCEPT !.at = "check", !.sel = sel,
                          !.refresh = refresh, !.cleanup = cleanup]
                  ELSE [builder[c] EXCEPT !.lost = @ \cup sel.platforms]]
    /\ UNCHANGED <<published, stageVars, lock, there>>

Exists(b) == \E p \in Sel(b).platforms : archive[p].file # Missing

Check(b) ==
    /\ At(b, "check") /\ Goto(b, IF Exists(b) THEN "failed" ELSE "lock")
    /\ UNCHANGED <<published, stageVars, archive, lock, runs, there>>

Lock(b) ==
    /\ At(b, "lock")
    /\ IF lock = NoBuilder
       THEN /\ lock' = b /\ Goto(b, IF builder[b].refresh THEN "remove" ELSE "ready")
       ELSE Goto(b, "failed") /\ UNCHANGED lock
    /\ UNCHANGED <<published, stageVars, archive, runs, there>>

\* RemoveAll, in whatever order the entries come.
Removes ==
    \/ frozen # None /\ frozen' = None /\ UNCHANGED <<staged, ready>>
    \/ ready # NoSelection /\ ready' = NoSelection /\ UNCHANGED <<frozen, staged>>
    \/ \E p \in Platforms : \E left \in {[staged[p] EXCEPT !.in = Nothing], NoBundle} :
         /\ staged[p] # left /\ staged' = [staged EXCEPT ![p] = left]
         /\ UNCHANGED <<frozen, ready>>

RemoveStage(b) ==
    /\ At(b, "remove") \/ At(b, "cleanup")
    /\ \/ Removes /\ UNCHANGED <<builder, lock>>
       \/ /\ frozen = None /\ ready = NoSelection /\ UNCHANGED stageVars
          /\ \A p \in Platforms : staged[p] = NoBundle
          /\ IF At(b, "remove") THEN Goto(b, "ready") /\ UNCHANGED lock ELSE Stop(b, "ok")
    /\ UNCHANGED <<published, archive, runs, there>>

\* Mutant: whatever was staged is used.
MutantMatches(sel) == ready \notin {NoSelection, Torn}

\* The staging is one for this selection.
Matches(sel) == ready = sel

ReadReady(b) ==
    /\ At(b, "ready")
    /\ IF ready = NoSelection THEN GotoFor(b, "install", Sel(b).platforms) /\ UNCHANGED lock
       ELSE IF Matches(Sel(b)) THEN GotoFor(b, "archive", Sel(b).platforms) /\ UNCHANGED lock
       ELSE Stop(b, "failed")
    /\ UNCHANGED <<published, stageVars, archive, runs, there>>

\* Mutant: each platform resolves the release again.
MutantResolved == published

\* metadata: what was resolved once is used until the stage is removed.
Resolved == IF frozen = None THEN published ELSE frozen

\* tools.install, into an empty directory.
Install(b, p) ==
    /\ At(b, "install") /\ IsNext(b, p)
    /\ frozen' = Resolved
    /\ staged' = [staged EXCEPT ![p] = [NoBundle EXCEPT !.in.tools = Resolved]]
    /\ LET todo == builder[b].todo \ {p}
       IN  IF todo = {} THEN GotoFor(b, "export", Sel(b).platforms)
           ELSE GotoFor(b, "install", todo)
    /\ UNCHANGED <<published, ready, archive, lock, runs, there>>

\* Manager.Download and Manager.Export of what was selected.
Export(b, p) ==
    /\ At(b, "export") /\ IsNext(b, p) /\ ~staged[p].in.deps
    /\ staged' = [staged EXCEPT ![p].in.deps = TRUE, ![p].in.addons = Sel(b).addons]
    /\ UNCHANGED <<published, frozen, ready, archive, lock, builder, runs, there>>

\* VerifyOffline, then the manifest.
WriteManifest(b, p) ==
    /\ At(b, "export") /\ IsNext(b, p) /\ staged[p].in.deps
    /\ staged' = [staged EXCEPT ![p].sum = staged[p].in]
    /\ LET todo == builder[b].todo \ {p}
       IN  GotoFor(b, IF todo = {} THEN "write" ELSE "export", todo)
    /\ UNCHANGED <<published, frozen, ready, archive, lock, runs, there>>

\* os.WriteFile, which a kill may cut.
WriteReady(b) ==
    /\ \/ At(b, "write") /\ ready' = Torn /\ Goto(b, "written")
       \/ At(b, "written") /\ ready' = Sel(b) /\ GotoFor(b, "archive", Sel(b).platforms)
    /\ UNCHANGED <<published, frozen, staged, archive, lock, runs, there>>

\* Mutant: what is staged is archived without a check.
MutantVerified(bundle) == bundle.sum # Nothing

\* Manifest.inventory: the contents have the checksum of the manifest.
Verified(bundle) == bundle.sum # Nothing /\ bundle.in = bundle.sum

\* archivePrepared: the file must not be there; the manifest goes first.
OpenArchive(b, p) ==
    /\ At(b, "archive") /\ IsNext(b, p)
    /\ IF Verified(staged[p]) /\ archive[p].file = Missing
       THEN /\ archive' = [archive EXCEPT ![p] = [file |-> Half, in |-> staged[p].in]]
            /\ builder' = [builder EXCEPT ![b].at = "compress", ![b].open = p,
                             ![b].todo = @ \ {p}, ![b].lost = @ \ {p}]
            /\ UNCHANGED lock
       ELSE Stop(b, "failed") /\ UNCHANGED archive
    /\ UNCHANGED <<published, stageVars, runs, there>>

\* What is written, or removed on failure, unless the file was deleted meanwhile.
Written(b, p, file) ==
    [archive EXCEPT ![p] = IF p \in builder[b].lost THEN @ ELSE file]

CloseArchive(b) ==
    /\ At(b, "compress")
    /\ LET p == builder[b].open
       IN  \/ /\ archive' = Written(b, p, [file |-> "whole", in |-> staged[p].in])
              /\ IF builder[b].todo # {} THEN Goto(b, "archive") /\ UNCHANGED lock
                 ELSE IF builder[b].cleanup THEN Goto(b, "cleanup") /\ UNCHANGED lock
                 ELSE Stop(b, "ok")
           \/ archive' = Written(b, p, NoFile) /\ Stop(b, "failed")
    /\ UNCHANGED <<published, stageVars, runs, there>>

\* The command is over, a step of it fails, or it is killed.
End(b) ==
    /\ ~At(b, "resting") /\ builder' = [builder EXCEPT ![b] = Resting]
    /\ Unlock(b)
    /\ UNCHANGED <<published, stageVars, archive, runs, there>>

Publish ==
    /\ published < MaxRelease /\ published' = published + 1
    /\ UNCHANGED <<stageVars, archive, lock, builder, runs, there>>

----------------------------------------------------------------------------
(* Import, on another machine: it shares nothing with the builders, so     *)
(* what it does is explored when they have ended (bound).                  *)

here == <<published, stageVars, archive, lock, builder, runs>>

Away == runs = MaxRuns /\ \A b \in Builders : At(b, "resting")

\* The archive is extracted elsewhere; one that was not finished has the
\* manifest, and not all the files.
Extract(p) ==
    /\ Away /\ import.at = "resting" /\ archive[p].file # Missing
    /\ copied' = [in |-> IF archive[p].file = Half THEN Nothing ELSE archive[p].in,
                  sum |-> archive[p].in]
    /\ UNCHANGED <<here, cache, import>>

\* A file is removed or changed, also while it is being imported.
Change ==
    /\ Away /\ copied.in # Nothing /\ copied' = [copied EXCEPT !.in = Nothing]
    /\ UNCHANGED <<here, cache, import>>

StartImport ==
    /\ Away /\ import.at = "resting" /\ Verified(copied)
    /\ import' = [NoImport EXCEPT !.at = "stage", !.inventory = copied.sum]
    /\ UNCHANGED <<here, copied, cache>>

\* Mutant: a file is taken as it is when it is copied.
MutantCopied == import' = [import EXCEPT !.at = "files", !.files = copied.in]

\* File.Copy: each file must still be that of the inventory.
Copied ==
    /\ copied.in = import.inventory
    /\ import' = [import EXCEPT !.at = "files", !.files = copied.in]

StageImport ==
    /\ Away /\ import.at = "stage" /\ Copied
    /\ UNCHANGED <<here, copied, cache>>

\* Manager.Import: files first, indexes next, manifests last.
MergeFiles ==
    /\ Away /\ import.at = "files" /\ import' = [import EXCEPT !.at = "indexes"]
    /\ cache' = [cache EXCEPT !.files = @ \cup {import.files}]
    /\ UNCHANGED <<here, copied>>

MergeIndexes ==
    /\ Away /\ import.at = "indexes" /\ import' = [import EXCEPT !.at = "manifests"]
    /\ cache' = [cache EXCEPT !.indexes = @ \cup {import.files}]
    /\ UNCHANGED <<here, copied>>

MergeManifests ==
    /\ Away /\ import.at = "manifests" /\ import' = [import EXCEPT !.at = "imported"]
    /\ cache' = [cache EXCEPT !.manifest = import.inventory]
    /\ UNCHANGED <<here, copied>>

\* It ends, fails, or is killed; what it has merged stays.
EndImport ==
    /\ Away /\ import.at # "resting" /\ import' = NoImport
    /\ UNCHANGED <<here, copied, cache>>

Next ==
    \/ \E b \in Builders :
         \/ \E sel \in Selections, refresh, cleanup \in BOOLEAN :
              Begin(b, sel, refresh, cleanup)
         \/ Check(b) \/ Lock(b) \/ RemoveStage(b) \/ ReadReady(b)
         \/ \E p \in Platforms :
              \/ Install(b, p) \/ Export(b, p) \/ WriteManifest(b, p)
              \/ OpenArchive(b, p)
         \/ CloseArchive(b) \/ WriteReady(b) \/ End(b)
    \/ Publish
    \/ \E p \in Platforms : Extract(p)
    \/ Change \/ StartImport \/ StageImport
    \/ MergeFiles \/ MergeIndexes \/ MergeManifests \/ EndImport

Spec == Init /\ [][Next]_bundleVars

----------------------------------------------------------------------------

TypeOK ==
    /\ published \in Releases /\ frozen \in Releases \cup {None}
    /\ ready \in Selections \cup {NoSelection, Torn} /\ lock \in Builders \cup {NoBuilder}
    /\ \A p \in Platforms :
         /\ staged[p].in \in Contents /\ staged[p].sum \in Contents
         /\ archive[p].file \in {Missing, Half, "whole"} /\ archive[p].in \in Contents
    /\ cache.manifest \in Contents /\ runs \in 0..MaxRuns

\* An archive that is not half written has the tools and the dependencies of
\* its selection, whatever commands were killed while they prepared, refreshed
\* or cleaned up the staging (archivePrepared).
ArchivesWhole ==
    \A p \in Platforms : archive[p].file = "whole" =>
        archive[p].in.tools # None /\ archive[p].in.deps

\* What a bundle command reports is there, unless another one has deleted it:
\* archives of its own selection, with the same tools for all platforms, also
\* when it resumes after releases were published (Create, metadata).
ReportedBundles ==
    \A b \in Builders : At(b, "ok") =>
        LET wrote == Sel(b).platforms \ builder[b].lost
        IN  \A p, q \in wrote :
              /\ archive[p].file = "whole" /\ archive[p].in.addons = Sel(b).addons
              /\ archive[p].in.tools = archive[q].in.tools

\* The manifests of a cache name only what is there, also while an import runs,
\* after it was killed, and when the bundle changed under it (Import).
CacheStaysUsable ==
    cache.manifest # Nothing =>
        /\ cache.manifest \in cache.files \cap cache.indexes
        /\ cache.manifest.deps

\* Bundles are complete, and so is what is imported from them (bundle.go:
\* Create, import.go: Import).
BundlesSound == ArchivesWhole /\ ReportedBundles /\ CacheStaysUsable
=============================================================================
