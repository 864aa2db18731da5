---------------------------- MODULE ImageMirror ----------------------------
(***************************************************************************)
(* One repository of the image mirror that local clusters pull from:       *)
(* internal/deps/components_zot.go and download.go (`podplane deps         *)
(* download`), export.go and import.go (`podplane deps import`).           *)
(*                                                                         *)
(* A repository is a directory of blobs and an index.json.  Downloads run  *)
(* in goroutines that share it; the process may be killed, and a registry  *)
(* may fail, at any step.  One process uses the directory at a time; the   *)
(* code has no lock between processes.                                     *)
(***************************************************************************)
EXTENDS Integers, FiniteSets, Sequences

CONSTANTS
    Images,         \* what manifests list: [tag, chart, digest, platform, host]
    NoTag, NoChart, \* tag and chart of a reference without one
    Concurrency,    \* DownloadOptions.Concurrency
    HostLimit,      \* registryConcurrencyOverrides: host -> limit
    MaxSessions     \* bound: processes ever started

VARIABLES
    blobs,      \* digests of which every blob is complete
    index,      \* the entries of index.json, or Torn
    session,    \* the process: idle, a download or an import
    jobs,       \* image -> where its goroutine stands
    failed,     \* downloadPending: firstErr is set, the context cancelled
    sessions

mvars == <<blobs, index, session, jobs, failed, sessions>>

Torn == {[torn |-> TRUE]}
Pinned(i) == i.chart # NoChart /\ i.chart # i.digest
Desc(i) == [digest |-> i.digest, platform |-> i.platform]
Untagged(i) == [ref |-> NoTag, kind |-> "image", digest |-> i.digest, of |-> {Desc(i)}]

\* An index of the registry lists every platform; a list is one of our own.
Upstream(chart) == {Desc(i) : i \in {j \in Images : j.chart = chart}}
ChartEntry(i) ==
    [ref |-> i.tag, kind |-> "chart", digest |-> i.chart, of |-> Upstream(i.chart)]
ListEntry(tag, descs) == [ref |-> tag, kind |-> "list", digest |-> NoTag, of |-> descs]

----------------------------------------------------------------------------
(* index.json.                                                             *)

\* upsertIndexDescriptor: a tag has one entry, an untagged digest too.
Upsert(entries, e) ==
    {x \in entries : x.ref # e.ref \/ (e.ref = NoTag /\ x.digest # e.digest)} \cup {e}

UpsertAll(entries, es) ==
    {x \in entries : \A e \in es : x \in Upsert(entries, e)} \cup es

\* upsertManifestDescriptor: one manifest for each platform.
UpsertManifest(descs, d) ==
    {x \in descs : x.digest # d.digest /\ x.platform # d.platform} \cup {d}

\* readTaggedImageIndex.
TagList(entries, tag) == UNION {e.of : e \in {x \in entries : x.ref = tag}}

\* componentImageCached (an index.json that cannot be read is an error).
Cached(i) ==
    /\ index # Torn /\ i.digest \in blobs
    /\ IF i.tag # NoTag
       THEN /\ Desc(i) \in TagList(index, i.tag)
            /\ \A d \in TagList(index, i.tag) :
                  d.platform = i.platform => d.digest = i.digest
            /\ \E e \in index : e.digest = i.digest
            /\ Pinned(i) => i.chart \in blobs
       ELSE \E e \in index : e.digest = i.digest

----------------------------------------------------------------------------

NoJob == [at |-> "none"]
Init ==
    /\ blobs = {} /\ index = {} /\ session = [kind |-> "idle"]
    /\ jobs = [i \in Images |-> NoJob]
    /\ failed = FALSE /\ sessions = 0

At(i, at) == jobs[i].at = at
Goto(i, at) == jobs' = [jobs EXCEPT ![i].at = at]

\* Where a goroutine holds its host's semaphore, a slot, the repository.
HasRepo == {"fetch", "readTag", "readIndex", "torn", "write", "release"}
HasSlot == HasRepo \cup {"repo"}
HasHost == HasSlot \cup {"slot"}
Holding(states) == {i \in Images : jobs[i].at \in states}

\* Download: the selected images that are not cached are pending.
StartDownload(wanted) ==
    /\ session.kind = "idle" /\ sessions < MaxSessions /\ sessions' = sessions + 1
    /\ IF index = Torn /\ wanted # {} THEN UNCHANGED <<session, jobs>>
       ELSE /\ session' = [kind |-> "download", wanted |-> wanted]
            /\ jobs' = [i \in Images |-> IF i \in wanted /\ ~Cached(i)
                            THEN [at |-> "host", n |-> 1, list |-> {}, view |-> {}]
                            ELSE NoJob]
    /\ failed' = FALSE
    /\ UNCHANGED <<blobs, index>>

\* acquire: a goroutine that waits gives up when the context is cancelled.
AcquireHost(i) ==
    /\ At(i, "host")
    /\ \/ /\ i.host \in DOMAIN HostLimit =>
                Cardinality({j \in Holding(HasHost) : j.host = i.host}) < HostLimit[i.host]
          /\ Goto(i, "slot")
       \/ failed /\ Goto(i, "gone")
    /\ UNCHANGED <<blobs, index, session, failed, sessions>>

AcquireSlot(i) ==
    /\ At(i, "slot")
    /\ \/ Cardinality(Holding(HasSlot)) < Concurrency /\ Goto(i, "repo")
       \/ failed /\ Goto(i, "gone")
    /\ UNCHANGED <<blobs, index, session, failed, sessions>>

\* Mutant: a lock for each image instead of each repository.
MutantRepoIsFree(i) == TRUE
\* componentRepoLock.
RepoIsFree(i) == Holding(HasRepo) = {}

LockRepo(i) ==
    /\ At(i, "repo") /\ RepoIsFree(i) /\ Goto(i, "fetch")
    /\ UNCHANGED <<blobs, index, session, failed, sessions>>

\* writeComponentImage: descriptors and layers, each blob complete or absent.
Fetch(i) ==
    /\ At(i, "fetch")
    /\ \/ /\ blobs' = blobs \cup {i.digest} \cup (IF Pinned(i) THEN {i.chart} ELSE {})
          /\ Goto(i, IF Pinned(i) \/ i.tag = NoTag THEN "readIndex" ELSE "readTag")
          /\ UNCHANGED failed
       \/ failed' = TRUE /\ Goto(i, "release") /\ UNCHANGED blobs
    /\ UNCHANGED <<index, session, sessions>>

\* upsertTaggedImageIndex: the list of the tag, written as a blob.
ReadTag(i) ==
    /\ At(i, "readTag")
    /\ IF index = Torn
       THEN failed' = TRUE /\ Goto(i, "release")
       ELSE /\ jobs' = [jobs EXCEPT ![i].at = "readIndex",
                  ![i].list = UpsertManifest(TagList(index, i.tag), Desc(i))]
            /\ UNCHANGED failed
    /\ UNCHANGED <<blobs, index, session, sessions>>

\* The entries that each rewriting of index.json puts in.
Writes(i, list) ==
    IF Pinned(i) THEN IF i.tag # NoTag THEN <<{Untagged(i)}, {ChartEntry(i)}>>
                                       ELSE <<{ChartEntry(i)}>>
    ELSE IF i.tag = NoTag THEN <<{Untagged(i)}>>
    ELSE <<{Untagged(i), ListEntry(i.tag, list)}>>

ReadIndex(i) ==
    /\ At(i, "readIndex")
    /\ IF index = Torn
       THEN failed' = TRUE /\ Goto(i, "release")
       ELSE /\ jobs' = [jobs EXCEPT ![i].at = "torn", ![i].view =
                  UpsertAll(index, Writes(i, jobs[i].list)[jobs[i].n])]
            /\ UNCHANGED failed
    /\ UNCHANGED <<blobs, index, session, sessions>>

\* os.WriteFile truncates index.json, then writes it.
TruncateIndex(i) ==
    /\ At(i, "torn") /\ index' = Torn /\ Goto(i, "write")
    /\ UNCHANGED <<blobs, session, failed, sessions>>

WriteIndex(i) ==
    /\ At(i, "write") /\ index' = jobs[i].view
    /\ jobs' = [jobs EXCEPT ![i].n = @ + 1, ![i].at =
          IF jobs[i].n < Len(Writes(i, jobs[i].list)) THEN "readIndex" ELSE "release"]
    /\ UNCHANGED <<blobs, session, failed, sessions>>

\* Mutant: the lock stays with a goroutine that failed.
MutantReleased(i) == ~failed
\* The deferred calls release everything, however the goroutine ends.
Released(i) == TRUE

Release(i) ==
    /\ At(i, "release") /\ Released(i) /\ Goto(i, "gone")
    /\ UNCHANGED <<blobs, index, session, failed, sessions>>

\* wg.Wait has returned: images are marked when no job failed.
EndDownload ==
    /\ session.kind = "download"
    /\ \A i \in Images : jobs[i].at \in {"none", "gone"}
    /\ session' = [session EXCEPT !.kind = IF failed THEN "idle" ELSE "marked"]
    /\ UNCHANGED <<blobs, index, jobs, failed, sessions>>

----------------------------------------------------------------------------
(* Import of a bundle.                                                     *)

\* Export: what copyCachedImage makes of the images of one kit.
KitEntries(kit) ==
    {Untagged(i) : i \in kit}
    \cup {ChartEntry(i) : i \in {j \in kit : Pinned(j)}}
    \cup {ListEntry(i.tag, {Desc(j) : j \in {k \in kit : k.tag = i.tag /\ ~Pinned(k)}}) :
             i \in {j \in kit : j.tag # NoTag /\ ~Pinned(j)}}

\* Mutant: the list of a tag is replaced.
MutantMerged(old, e) == e
\* mergeIndex: lists of the same tag become one.
Merged(old, e) ==
    IF e.ref = NoTag \/ ~\E x \in old : x.ref = e.ref THEN e
    ELSE LET a == TagList(old, e.ref)
             kept == {x \in a : \A d \in e.of : x.digest # d.digest /\ x.platform # d.platform}
         IN  IF \E x \in old : x = e THEN e ELSE ListEntry(e.ref, kept \cup e.of)

StartImport(kit) ==
    /\ session.kind = "idle" /\ sessions < MaxSessions /\ sessions' = sessions + 1
    /\ kit # {} /\ session' = [kind |-> "import", kit |-> kit]
    /\ UNCHANGED <<blobs, index, jobs, failed>>

\* Blobs are copied to a temporary file and renamed.
ImportBlobs(i) ==
    /\ session.kind = "import" /\ i \in session.kit
    /\ blobs' = blobs \cup {i.digest} \cup (IF Pinned(i) THEN {i.chart} ELSE {})
    /\ blobs' # blobs
    /\ UNCHANGED <<index, session, jobs, failed, sessions>>

\* mergeIndex, when all immutable files are there; also renamed into place.
ImportIndex ==
    /\ session.kind = "import" /\ \A i \in session.kit : i.digest \in blobs
    /\ \A i \in session.kit : Pinned(i) => i.chart \in blobs
    /\ IF index = Torn THEN UNCHANGED index
       ELSE index' = UpsertAll(index, {Merged(index, e) : e \in KitEntries(session.kit)})
    /\ session' = [kind |-> "idle"]
    /\ UNCHANGED <<blobs, jobs, failed, sessions>>

----------------------------------------------------------------------------

\* The process is killed, or ends after it has marked what it downloaded.
Gone ==
    /\ session.kind # "idle" /\ session' = [kind |-> "idle"]
    /\ jobs' = [i \in Images |-> NoJob] /\ failed' = FALSE
    /\ UNCHANGED <<blobs, index, sessions>>

Step(i) ==
    \/ AcquireHost(i) \/ AcquireSlot(i) \/ LockRepo(i) \/ Fetch(i)
    \/ ReadTag(i) \/ ReadIndex(i) \/ TruncateIndex(i) \/ WriteIndex(i) \/ Release(i)

Next ==
    \/ \E wanted \in SUBSET Images : StartDownload(wanted) \/ StartImport(wanted)
    \/ \E i \in Images : Step(i) \/ ImportBlobs(i)
    \/ EndDownload \/ ImportIndex \/ Gone

Spec == Init /\ [][Next]_mvars

----------------------------------------------------------------------------

TypeOK ==
    /\ index = Torn \/ \A e \in index : e.kind \in {"image", "chart", "list"}
    /\ blobs \subseteq {i.digest : i \in Images} \cup {i.chart : i \in Images}
    /\ failed \in BOOLEAN /\ sessions \in 0..MaxSessions

\* When a download has ended without an error, every image that it selected
\* can be pulled from the mirror, whatever the goroutines of the same
\* repository did meanwhile: the manifest marks it cached and the next start
\* verifies it (downloadPending, componentImageCached).
MarkedIsCached ==
    session.kind = "marked" => \A i \in session.wanted : Cached(i)

\* An import, also one that is interrupted, leaves every image cached that was,
\* unless the bundle brings another image for its tag and platform (Import).
ImportKeeps ==
    [][session.kind = "import" =>
         \A i \in Images :
            Cached(i) /\ (\A j \in session.kit : j.tag = i.tag /\ j.tag # NoTag
                             /\ j.platform = i.platform => j.digest = i.digest)
              => Cached(i)']_mvars

\* The goroutines of a download end, also when one of them fails while others
\* wait for a semaphore or for the repository (downloadPending).
DownloadEnds == session.kind = "download" ~> session.kind # "download"

\* Neither goroutines nor imports lose an image (components_zot.go, import.go).
ImagesKept == []MarkedIsCached /\ ImportKeeps
=============================================================================
