-------------------------- MODULE OperationsProofs --------------------------
(***************************************************************************)
(* What commands do, proved for any number of entries, images, runs,       *)
(* files, builders, processes and releases.  A section for each part: its  *)
(* inductive invariant, a lemma for each group of actions, the theorem.    *)
(***************************************************************************)
EXTENDS MCOperations, FiniteSetTheorems, TLAPS

(***************************************************************************)
(* S3Listing.  What has been seen is there unless it was removed; what was *)
(* there all the time has been seen or comes after the marker.             *)
(***************************************************************************)

\* What has been seen is there, unless it has been removed.
SeenIsThere == seen \ removed \subseteq entries

\* What was there all the time has been seen, or comes on a later page.
Covered ==
    (kind = "uploads" => seen \cap removed = {}) =>
        \A x \in promised : x \in seen \/ (~over /\ x > marker)

ListingInv == TypeOK /\ SeenIsThere /\ Covered

(* FirstOf returns entries of the list, and none comes before one of them  *)
(* that it leaves out.                                                     *)
LEMMA FirstOfIsAPrefix ==
    ASSUME NEW rest, rest \subseteq Entries
    PROVE  /\ FirstOf(rest) \subseteq rest
           /\ \A x \in FirstOf(rest), y \in rest : y < x => y \in FirstOf(rest)
<1>1. FirstOf(rest) \subseteq rest
  BY DEF FirstOf
<1>2. ASSUME NEW x \in FirstOf(rest), NEW y \in rest, y < x
      PROVE  y \in FirstOf(rest)
  <2> DEFINE Before(z) == {w \in rest : w < z}
  <2>1. IsFiniteSet(rest)
    <3>1. IsFiniteSet(Entries)
      BY FS_Interval, ConstantsAssumption DEF Entries
    <3> QED
      BY <3>1, FS_Subset
  <2>2. IsFiniteSet(Before(x)) /\ IsFiniteSet(Before(y))
    BY <2>1, FS_Subset
  <2>3. Before(y) \subseteq Before(x)
    <3>1. rest \subseteq Nat
      BY ConstantsAssumption DEF Entries
    <3>2. x \in Nat /\ y \in Nat
      BY <1>1, <1>2, <3>1
    <3>3. \A w \in Nat : w < y => w < x
      BY <1>2, <3>2
    <3> QED
      BY <3>1, <3>2, <3>3
  <2>4. Cardinality(Before(y)) <= Cardinality(Before(x))
    BY <2>2, <2>3, FS_Subset
  <2>5. Cardinality(Before(x)) \in Nat /\ Cardinality(Before(y)) \in Nat
    BY <2>2, FS_CardinalityType
  <2>6. Cardinality(Before(x)) < PageSize
    BY <1>2 DEF FirstOf
  <2> QED
    BY <2>4, <2>5, <2>6, ConstantsAssumption DEF FirstOf
<1> QED
  BY <1>1, <1>2

(* What is left for the next pages is there and comes after the marker,    *)
(* because uploads are sorted by object first.                             *)
LEMMA RestIsAfterTheMarker ==
    ASSUME TypeOK
    PROVE  Rest \subseteq entries /\ \A x \in Rest : x > marker
<1>1. Rest \subseteq entries
  BY DEF Rest, UploadsAfter
<1>2. ASSUME NEW x \in Rest
      PROVE  x > marker
  <2>1. x \in Entries /\ x \in Nat /\ x > 0 /\ marker \in Nat
    BY <1>1 DEF TypeOK, Entries
  <2>2. CASE marker = 0
    BY <2>1, <2>2
  <2>3. CASE marker # 0 /\ kind # "uploads"
    BY <2>1, <2>3 DEF Rest
  <2>4. CASE marker # 0 /\ kind = "uploads"
    <3>1. marker \in Entries
      BY <2>4 DEF TypeOK
    <3>2. ObjectOf[x] \in Nat /\ ObjectOf[marker] \in Nat
      BY <2>1, <3>1, ConstantsAssumption
    <3>3. x < marker => ObjectOf[x] <= ObjectOf[marker]
      BY <2>1, <3>1, ConstantsAssumption
    <3>4. x \in UploadsAfter
      BY <2>4 DEF Rest
    <3> QED
      BY <2>1, <3>2, <3>3, <3>4 DEF UploadsAfter
  <2> QED
    BY <2>2, <2>3, <2>4
<1> QED
  BY <1>1, <1>2

(* Nothing after the marker is skipped as long as the marker is there, or  *)
(* nothing but names is compared.                                          *)
LEMMA NothingIsSkipped ==
    ASSUME ListingInv, kind = "uploads" => seen \cap removed = {},
           NEW x \in entries, x > marker
    PROVE  x \in Rest
<1>1. CASE marker = 0 \/ kind # "uploads"
  BY <1>1 DEF Rest
<1>2. CASE marker # 0 /\ kind = "uploads"
  <2>1. marker \in Entries /\ x \in Entries
    BY <1>2 DEF ListingInv, TypeOK
  <2>2. marker \in entries
    BY <1>2 DEF ListingInv, TypeOK, SeenIsThere
  <2>3. ObjectOf[x] \in Nat /\ ObjectOf[marker] \in Nat /\ ObjectOf[marker] <= ObjectOf[x]
    BY <2>1, ConstantsAssumption DEF Entries
  <2>4. x \in UploadsAfter
    BY <2>2, <2>3 DEF UploadsAfter
  <2> QED
    BY <1>2, <2>4 DEF Rest
<1> QED
  BY <1>1, <1>2

\* Nothing has been listed.
LEMMA ListingInitially == Init => ListingInv
BY DEF Init, ListingInv, TypeOK, SeenIsThere, Covered

\* A page is read: the marker moves to its last entry.
LEMMA PageStep == ASSUME ListingInv, NextPage PROVE ListingInv'
<1> DEFINE page == FirstOf(Rest)
<1>1. Rest \subseteq entries /\ \A x \in Rest : x > marker
  BY RestIsAfterTheMarker DEF ListingInv
<1>2. Rest \subseteq Entries
  BY <1>1 DEF ListingInv, TypeOK
<1>3. page \subseteq Rest /\ \A x \in page, y \in Rest : y < x => y \in page
  BY <1>2, FirstOfIsAPrefix
<1>4. seen' = seen \cup page /\ over' = (page = Rest)
  BY DEF NextPage
<1>5. entries' = entries /\ kind' = kind /\ promised' = promised /\ removed' = removed
  BY DEF NextPage
<1>6. \/ page = {} /\ marker' = marker
      \/ marker' \in page /\ \A y \in page : y <= marker'
  BY DEF NextPage, EndsWith
<1>7. marker \in Nat /\ Entries \subseteq Nat
  BY DEF ListingInv, TypeOK, Entries
<1>8. TypeOK'
  <2>1. marker' \in seen' \cup {0}
    BY <1>4, <1>6 DEF ListingInv, TypeOK
  <2>2. ASSUME NEW x \in seen'
        PROVE  x <= marker'
    <3>1. CASE page = {} /\ marker' = marker
      BY <1>4, <3>1 DEF ListingInv, TypeOK
    <3>2. CASE marker' \in page /\ \A y \in page : y <= marker'
      <4>1. marker' \in Nat /\ marker < marker'
        BY <1>1, <1>2, <1>3, <1>7, <3>2
      <4>2. CASE x \in page
        BY <3>2, <4>2
      <4>3. CASE x \in seen
        <5>1. x \in Nat /\ x <= marker
          BY <1>7, <4>3 DEF ListingInv, TypeOK
        <5> QED
          BY <1>7, <4>1, <5>1
      <4> QED
        BY <1>4, <4>2, <4>3
    <3> QED
      BY <1>6, <3>1, <3>2
  <2> QED
    BY <1>2, <1>3, <1>4, <1>5, <2>1, <2>2 DEF ListingInv, TypeOK
<1>9. SeenIsThere'
  BY <1>1, <1>3, <1>4, <1>5 DEF ListingInv, SeenIsThere
<1>10. Covered'
  <2> SUFFICES ASSUME (kind = "uploads" => seen' \cap removed = {}),
                      NEW x \in promised, x \notin seen'
               PROVE  ~over' /\ x > marker'
    BY <1>5 DEF Covered
  <2>1. x \in entries /\ x \in Nat
    BY <1>7 DEF ListingInv, TypeOK
  <2>2. kind = "uploads" => seen \cap removed = {}
    BY <1>4
  <2>3. x > marker
    BY <1>4, <2>2 DEF ListingInv, Covered
  <2>4. x \in Rest
    BY <2>1, <2>2, <2>3, NothingIsSkipped
  <2>5. x \notin page
    BY <1>4
  <2>6. x > marker'
    <3>1. CASE page = {} /\ marker' = marker
      BY <2>3, <3>1
    <3>2. CASE marker' \in page
      <4>1. marker' \in Nat
        BY <1>2, <1>3, <1>7, <3>2
      <4>2. ~(x < marker') /\ x # marker'
        BY <1>3, <2>4, <2>5, <3>2
      <4> QED
        BY <2>1, <4>1, <4>2
    <3> QED
      BY <1>6, <3>1, <3>2
  <2> QED
    BY <1>4, <2>4, <2>5, <2>6
<1> QED
  BY <1>8, <1>9, <1>10 DEF ListingInv

\* No step breaks the invariant.
LEMMA ListingStep == ListingInv /\ [Next]_vars => ListingInv'
<1> SUFFICES ASSUME ListingInv, [Next]_vars PROVE ListingInv'
  OBVIOUS
<1>1. CASE \E x \in Entries : Add(x)
  BY <1>1 DEF ListingInv, TypeOK, SeenIsThere, Covered, Add
<1>2. CASE \E x \in Entries : Remove(x)
  BY <1>2 DEF ListingInv, TypeOK, SeenIsThere, Covered, Remove
<1>3. CASE StartList
  <2>1. \A x \in entries : x > 0
    BY DEF ListingInv, TypeOK, Entries
  <2>2. TypeOK'
    BY <1>3 DEF ListingInv, TypeOK, StartList
  <2>3. SeenIsThere'
    BY <1>3 DEF SeenIsThere, StartList
  <2>4. Covered'
    BY <1>3, <2>1 DEF Covered, StartList
  <2> QED
    BY <2>2, <2>3, <2>4 DEF ListingInv
<1>4. CASE NextPage
  BY <1>4, PageStep
<1>5. CASE UNCHANGED vars
  BY <1>5 DEF ListingInv, TypeOK, SeenIsThere, Covered, vars
<1> QED
  BY <1>1, <1>2, <1>3, <1>4, <1>5 DEF Next

(* The marker is the last entry that the client has seen, although uploads *)
(* are compared by their objects first: pages only move forward.           *)
THEOREM ListingTypeCorrect == Spec => []TypeOK
<1>1. ListingInv => TypeOK
  BY DEF ListingInv
<1> QED
  BY ListingInitially, ListingStep, <1>1, PTL DEF Spec

(* A client that has turned all the pages of a listing has seen everything *)
(* that was there all the time, whatever is added and removed meanwhile;   *)
(* of uploads, if none that it had seen was removed.                       *)
THEOREM PagesAreComplete == Spec => []PagesComplete
<1>1. ListingInv => PagesComplete
  BY DEF ListingInv, Covered, PagesComplete
<1> QED
  BY ListingInitially, ListingStep, <1>1, PTL DEF Spec

(***************************************************************************)
(* ImageMirror.  The goroutine that holds the repository has read all      *)
(* there is to keep before it truncates index.json; what an image that is  *)
(* done with needs is in the index, or in what is being written to it.  A  *)
(* tag is listed by one entry, of images of which a platform has one       *)
(* (ImagesApart).                                                          *)
(***************************************************************************)

\* What a mirror is made of.
MirrorDescs == {Mirror!Desc(i) : i \in Images}
ImageEntries == {Mirror!Untagged(i) : i \in Images}
ChartEntries == {Mirror!ChartEntry(i) : i \in Images}
ListEntries == {Mirror!ListEntry(i.tag, descs) : i \in Images, descs \in SUBSET MirrorDescs}
MirrorEntries == ImageEntries \cup ChartEntries \cup ListEntries
MirrorBlobs == {i.digest : i \in Images} \cup {i.chart : i \in Images}

JobStages ==
    {"host", "slot", "repo", "fetch", "readTag", "readIndex", "torn", "write", "release",
     "gone"}
JobRecords ==
    [at : JobStages, n : Nat, list : SUBSET MirrorDescs, view : SUBSET MirrorEntries]
\* How often index.json is rewritten for an image.
Rewrites(i) == IF Mirror!Pinned(i) /\ i.tag # NoTag THEN 2 ELSE 1
Busy == JobStages \ {"release", "gone"}
JobOf(i, job) ==
    /\ job = Mirror!NoJob \/ job \in JobRecords
    /\ job.at \in Busy => job.n \in 1..Rewrites(i)
    /\ job.at = "readTag" => ~Mirror!Pinned(i) /\ i.tag # NoTag

MirrorTypes ==
    /\ blobs \subseteq MirrorBlobs
    /\ index = Mirror!Torn \/ index \subseteq MirrorEntries
    /\ DOMAIN jobs = Images /\ jobs = [i \in Images |-> jobs[i]]
    /\ \A i \in Images : JobOf(i, jobs[i])
    /\ session.kind \in {"idle", "download", "marked", "import"}
    /\ session.kind \in {"download", "marked"} =>
         session = [kind |-> session.kind, wanted |-> session.wanted]
         /\ session.wanted \subseteq Images
    /\ session.kind = "import" => session.kit \subseteq Images
    /\ failed \in BOOLEAN /\ sessions \in 0..MaxSessions

\* The mirror is empty and nobody uses it.
LEMMA MirrorInitially == Mirror!Init => MirrorTypes
<1> SUFFICES ASSUME Mirror!Init PROVE MirrorTypes
  OBVIOUS
<1>1. DOMAIN jobs = Images /\ jobs = [i \in Images |-> jobs[i]]
  BY DEF Mirror!Init
<1>2. \A i \in Images : JobOf(i, jobs[i])
  BY DEF Mirror!Init, JobOf, Busy, Mirror!NoJob, JobStages
<1>3. session.kind = "idle" /\ sessions \in 0..MaxSessions
  BY OperationsAssumption DEF Mirror!Init
<1> QED
  BY <1>1, <1>2, <1>3 DEF Mirror!Init, MirrorTypes

\* The entries that are written for an image, and for a kit.
LEMMA EntriesAre ==
    /\ \A i \in Images : /\ Mirror!Desc(i) \in MirrorDescs
                         /\ Mirror!Untagged(i) \in MirrorEntries
                         /\ Mirror!ChartEntry(i) \in MirrorEntries
                         /\ \A descs \in SUBSET MirrorDescs :
                              Mirror!ListEntry(i.tag, descs) \in MirrorEntries
    /\ \A e \in MirrorEntries : e.of \subseteq MirrorDescs /\ e.kind \in {"image", "chart", "list"}
<1>1. \A i \in Images : /\ Mirror!Desc(i) \in MirrorDescs
                        /\ Mirror!Untagged(i) \in MirrorEntries
                        /\ Mirror!ChartEntry(i) \in MirrorEntries
                        /\ \A descs \in SUBSET MirrorDescs :
                             Mirror!ListEntry(i.tag, descs) \in MirrorEntries
  BY DEF MirrorDescs, MirrorEntries, ImageEntries, ChartEntries, ListEntries
<1>2. \A e \in ImageEntries : e.of \subseteq MirrorDescs /\ e.kind \in {"image", "chart", "list"}
  BY <1>1 DEF ImageEntries, Mirror!Untagged
<1>3. \A e \in ChartEntries : e.of \subseteq MirrorDescs /\ e.kind \in {"image", "chart", "list"}
  BY DEF ChartEntries, Mirror!ChartEntry, Mirror!Upstream, MirrorDescs
<1>4. \A e \in ListEntries : e.of \subseteq MirrorDescs /\ e.kind \in {"image", "chart", "list"}
  BY DEF ListEntries, Mirror!ListEntry
<1> QED
  BY <1>1, <1>2, <1>3, <1>4 DEF MirrorEntries

\* A tag lists descriptors, and putting one into the list gives such a list.
LEMMA ListsAre ==
    ASSUME NEW listed \in SUBSET MirrorEntries, NEW tag
    PROVE  /\ Mirror!TagList(listed, tag) \in SUBSET MirrorDescs
           /\ \A d \in MirrorDescs, descs \in SUBSET MirrorDescs :
                Mirror!UpsertManifest(descs, d) \in SUBSET MirrorDescs
           /\ \A es \in SUBSET MirrorEntries : Mirror!UpsertAll(listed, es) \in SUBSET MirrorEntries
<1>1. Mirror!TagList(listed, tag) \in SUBSET MirrorDescs
  BY EntriesAre DEF Mirror!TagList
<1>2. \A d \in MirrorDescs, descs \in SUBSET MirrorDescs :
        Mirror!UpsertManifest(descs, d) \in SUBSET MirrorDescs
  BY DEF Mirror!UpsertManifest
<1>3. \A es \in SUBSET MirrorEntries : Mirror!UpsertAll(listed, es) \in SUBSET MirrorEntries
  BY DEF Mirror!UpsertAll
<1> QED
  BY <1>1, <1>2, <1>3

\* One entry, or two, for each time that index.json is rewritten.
LEMMA WritesAre ==
    ASSUME NEW i \in Images, NEW descs \in SUBSET MirrorDescs
    PROVE  /\ Len(Mirror!Writes(i, descs)) = Rewrites(i)
           /\ \A n \in 1..Rewrites(i) : Mirror!Writes(i, descs)[n] \in SUBSET MirrorEntries
<1>1. CASE Mirror!Pinned(i) /\ i.tag # NoTag
  BY <1>1, EntriesAre DEF Mirror!Writes, Rewrites
<1>2. CASE ~(Mirror!Pinned(i) /\ i.tag # NoTag)
  <2>1. PICK s \in SUBSET MirrorEntries : Mirror!Writes(i, descs) = <<s>>
    <3>1. CASE Mirror!Pinned(i)
      BY <1>2, <3>1, EntriesAre DEF Mirror!Writes
    <3>2. CASE ~Mirror!Pinned(i) /\ i.tag = NoTag
      BY <3>2, EntriesAre DEF Mirror!Writes
    <3>3. CASE ~Mirror!Pinned(i) /\ i.tag # NoTag
      BY <3>3, EntriesAre DEF Mirror!Writes
    <3> QED
      BY <3>1, <3>2, <3>3
  <2> QED
    BY <1>2, <2>1 DEF Rewrites
<1> QED
  BY <1>1, <1>2

\* One job moves.
LEMMA JobMoves ==
    ASSUME MirrorTypes, NEW i \in Images, NEW new, JobOf(i, new),
           jobs' = [jobs EXCEPT ![i] = new]
    PROVE  /\ DOMAIN jobs' = Images /\ jobs' = [j \in Images |-> jobs'[j]]
           /\ \A j \in Images : jobs'[j] = IF j = i THEN new ELSE jobs[j]
           /\ \A j \in Images : JobOf(j, jobs'[j])
BY DEF MirrorTypes

\* A job that is there has all its fields, and goes from stage to stage.
LEMMA JobGoes ==
    ASSUME MirrorTypes, NEW i \in Images, jobs[i].at \in JobStages,
           NEW label \in JobStages, Mirror!Goto(i, label)
    PROVE  /\ jobs[i] \in JobRecords
           /\ \E new \in JobRecords :
                /\ new.at = label /\ new.n = jobs[i].n /\ new.list = jobs[i].list
                /\ new.view = jobs[i].view /\ jobs' = [jobs EXCEPT ![i] = new]
<1>1. jobs[i] \in JobRecords
  BY DEF MirrorTypes, JobOf, Mirror!NoJob, JobStages
<1>2. PICK r : r = jobs[i]
  OBVIOUS
<1>3. PICK new : new = [r EXCEPT !.at = label]
  OBVIOUS
<1>4. /\ new \in JobRecords /\ new.at = label /\ new.n = r.n /\ new.list = r.list
      /\ new.view = r.view
  BY <1>1, <1>2, <1>3 DEF JobRecords
<1>5. jobs' = [jobs EXCEPT ![i] = new]
  BY <1>2, <1>3 DEF Mirror!Goto
<1> QED
  BY <1>1, <1>2, <1>4, <1>5

\* A goroutine waits, or gives up.
LEMMA WaitTypes ==
    ASSUME MirrorTypes, NEW i \in Images,
           \/ Mirror!AcquireHost(i) \/ Mirror!AcquireSlot(i) \/ Mirror!LockRepo(i)
           \/ Mirror!Release(i)
    PROVE  MirrorTypes'
<1>1. PICK label \in {"slot", "repo", "fetch", "gone"} :
        /\ Mirror!Goto(i, label) /\ jobs[i].at \in {"host", "slot", "repo", "release"}
        /\ label # "gone" => jobs[i].at # "release"
        /\ UNCHANGED <<blobs, index, session, failed, sessions>>
  BY DEF Mirror!AcquireHost, Mirror!AcquireSlot, Mirror!LockRepo, Mirror!Release, Mirror!At
<1>2. label \in JobStages /\ jobs[i].at \in JobStages
  BY <1>1 DEF JobStages
<1>3. PICK new \in JobRecords :
        /\ new.at = label /\ new.n = jobs[i].n /\ jobs' = [jobs EXCEPT ![i] = new]
  BY <1>1, <1>2, JobGoes
<1>4. JobOf(i, new)
  BY <1>1, <1>3 DEF MirrorTypes, JobOf, Busy, JobStages
<1>5. /\ DOMAIN jobs' = Images /\ jobs' = [j \in Images |-> jobs'[j]]
      /\ \A j \in Images : JobOf(j, jobs'[j])
  BY <1>3, <1>4, JobMoves
<1> QED
  BY <1>1, <1>5 DEF MirrorTypes

\* A goroutine fetches, reads and writes.
LEMMA FetchTypes ==
    ASSUME MirrorTypes, NEW i \in Images, Mirror!Fetch(i)
    PROVE  MirrorTypes'
<1>1. jobs[i].at = "fetch" /\ UNCHANGED <<index, session, sessions>>
      /\ jobs[i].n \in 1..Rewrites(i)
  BY DEF Mirror!Fetch, Mirror!At, MirrorTypes, JobOf, Busy, JobStages
<1>2. PICK label \in {"readIndex", "readTag", "release"} :
        /\ Mirror!Goto(i, label)
        /\ label = "readTag" => ~Mirror!Pinned(i) /\ i.tag # NoTag
  BY DEF Mirror!Fetch
<1>3. label \in JobStages /\ jobs[i].at \in JobStages
  BY <1>1 DEF JobStages
<1>4. PICK new \in JobRecords :
        /\ new.at = label /\ new.n = jobs[i].n /\ jobs' = [jobs EXCEPT ![i] = new]
  BY <1>2, <1>3, JobGoes
<1>5. JobOf(i, new)
  BY <1>1, <1>2, <1>4 DEF JobOf
<1>6. /\ DOMAIN jobs' = Images /\ jobs' = [j \in Images |-> jobs'[j]]
      /\ \A j \in Images : JobOf(j, jobs'[j])
  BY <1>4, <1>5, JobMoves
<1>7. blobs' \subseteq MirrorBlobs /\ failed' \in BOOLEAN
  BY DEF Mirror!Fetch, MirrorTypes, MirrorBlobs
<1> QED
  BY <1>1, <1>6, <1>7 DEF MirrorTypes

\* A goroutine reads the list of a tag, or index.json.
LEMMA ReadTypes ==
    ASSUME MirrorTypes, NEW i \in Images, Mirror!ReadTag(i) \/ Mirror!ReadIndex(i)
    PROVE  MirrorTypes'
<1>1. /\ jobs[i].at \in {"readTag", "readIndex"}
      /\ UNCHANGED <<blobs, index, session, sessions>> /\ failed' \in BOOLEAN
  BY DEF Mirror!ReadTag, Mirror!ReadIndex, Mirror!At, MirrorTypes
<1>2. jobs[i] \in JobRecords /\ jobs[i].n \in 1..Rewrites(i)
      /\ {"release", "readIndex", "torn"} \subseteq JobStages
  BY <1>1 DEF MirrorTypes, JobOf, Busy, JobStages, Mirror!NoJob
<1>3. \E new \in JobRecords : JobOf(i, new) /\ jobs' = [jobs EXCEPT ![i] = new]
  <2>1. CASE Mirror!Goto(i, "release")
    <3>1. PICK new \in JobRecords : new.at = "release" /\ jobs' = [jobs EXCEPT ![i] = new]
      BY <1>2, <2>1, JobGoes DEF JobRecords
    <3> QED
      BY <3>1 DEF JobOf, Busy
  <2>2. CASE ~Mirror!Goto(i, "release") /\ Mirror!ReadTag(i)
    <3>1. PICK r, list : /\ r = jobs[i]
                         /\ list = Mirror!UpsertManifest(Mirror!TagList(index, i.tag), Mirror!Desc(i))
      OBVIOUS
    <3>2. index \in SUBSET MirrorEntries
      BY <2>2 DEF Mirror!ReadTag, MirrorTypes
    <3>3. list \in SUBSET MirrorDescs
      BY <3>1, <3>2, ListsAre, EntriesAre
    <3>4. PICK new : new = [r EXCEPT !.at = "readIndex", !.list = list]
      OBVIOUS
    <3>5. new \in JobRecords /\ new.at = "readIndex" /\ new.n = r.n
      BY <1>2, <3>1, <3>3, <3>4 DEF JobRecords
    <3>6. jobs' = [jobs EXCEPT ![i] = new]
      BY <2>2, <3>1, <3>4 DEF Mirror!ReadTag
    <3> QED
      BY <1>2, <3>1, <3>5, <3>6 DEF JobOf
  <2>3. CASE ~Mirror!Goto(i, "release") /\ Mirror!ReadIndex(i)
    <3>1. PICK r, view :
            /\ r = jobs[i]
            /\ view = Mirror!UpsertAll(index, Mirror!Writes(i, jobs[i].list)[jobs[i].n])
      OBVIOUS
    <3>2. index \in SUBSET MirrorEntries
      BY <2>3 DEF Mirror!ReadIndex, MirrorTypes
    <3>3. jobs[i].list \in SUBSET MirrorDescs
      BY <1>2 DEF JobRecords
    <3>4. Mirror!Writes(i, jobs[i].list)[jobs[i].n] \in SUBSET MirrorEntries
      BY <1>2, <3>3, WritesAre
    <3>5. view \in SUBSET MirrorEntries
      BY <3>1, <3>2, <3>4, ListsAre
    <3>6. PICK new : new = [r EXCEPT !.at = "torn", !.view = view]
      OBVIOUS
    <3>7. new \in JobRecords /\ new.at = "torn" /\ new.n = r.n
      BY <1>2, <3>1, <3>5, <3>6 DEF JobRecords
    <3>8. jobs' = [jobs EXCEPT ![i] = new]
      BY <2>3, <3>1, <3>6 DEF Mirror!ReadIndex
    <3> QED
      BY <1>2, <3>1, <3>7, <3>8 DEF JobOf
  <2> QED
    BY <2>1, <2>2, <2>3
<1>4. /\ DOMAIN jobs' = Images /\ jobs' = [j \in Images |-> jobs'[j]]
      /\ \A j \in Images : JobOf(j, jobs'[j])
  BY <1>3, JobMoves
<1> QED
  BY <1>1, <1>4 DEF MirrorTypes

\* A goroutine truncates index.json, or writes it.
LEMMA WriteTypes ==
    ASSUME MirrorTypes, NEW i \in Images, Mirror!TruncateIndex(i) \/ Mirror!WriteIndex(i)
    PROVE  MirrorTypes'
<1>1. /\ jobs[i].at \in {"torn", "write"} /\ UNCHANGED <<blobs, session, failed, sessions>>
  BY DEF Mirror!TruncateIndex, Mirror!WriteIndex, Mirror!At
<1>2. jobs[i] \in JobRecords /\ jobs[i].n \in 1..Rewrites(i)
      /\ {"release", "readIndex", "torn", "write"} \subseteq JobStages
      /\ jobs[i].view \in SUBSET MirrorEntries /\ jobs[i].list \in SUBSET MirrorDescs
  BY <1>1 DEF MirrorTypes, JobOf, Busy, JobStages, Mirror!NoJob, JobRecords
<1>3. /\ \E new \in JobRecords : JobOf(i, new) /\ jobs' = [jobs EXCEPT ![i] = new]
      /\ index' = Mirror!Torn \/ index' \subseteq MirrorEntries
  <2>1. CASE Mirror!TruncateIndex(i)
    <3>1. PICK new \in JobRecords : /\ new.at = "write" /\ new.n = jobs[i].n
                                    /\ jobs' = [jobs EXCEPT ![i] = new]
      BY <1>2, <2>1, JobGoes DEF JobRecords, Mirror!TruncateIndex
    <3> QED
      BY <1>2, <2>1, <3>1 DEF JobOf, Mirror!TruncateIndex
  <2>2. CASE Mirror!WriteIndex(i)
    <3>1. PICK r, n, label :
            /\ r = jobs[i] /\ n = r.n + 1
            /\ label = IF r.n < Len(Mirror!Writes(i, r.list)) THEN "readIndex" ELSE "release"
      OBVIOUS
    <3>2. PICK new : new = [r EXCEPT !.n = n, !.at = label]
      OBVIOUS
    <3>3. /\ n \in Nat /\ label \in {"readIndex", "release"}
          /\ label = "readIndex" => n \in 1..Rewrites(i)
      <4>1. PICK last : last = Rewrites(i) /\ last \in {1, 2}
        BY DEF Rewrites
      <4>2. Len(Mirror!Writes(i, r.list)) = last /\ r.n \in 1..last
        BY <1>2, <3>1, <4>1, WritesAre
      <4> QED
        BY <3>1, <4>1, <4>2
    <3>4. new \in JobRecords /\ new.at = label /\ new.n = n
      <4>1. r \in JobRecords
        BY <1>2, <3>1
      <4>2. /\ new.at = label /\ new.n = n /\ new.list = r.list /\ new.view = r.view
            /\ new = [at |-> label, n |-> n, list |-> r.list, view |-> r.view]
        BY <3>2, <4>1 DEF JobRecords
      <4>3. label \in JobStages
        BY <1>2, <3>3
      <4>4. r.list \in SUBSET MirrorDescs /\ r.view \in SUBSET MirrorEntries
        BY <4>1 DEF JobRecords
      <4> QED
        BY <3>3, <4>2, <4>3, <4>4 DEF JobRecords
    <3>5. jobs' = [jobs EXCEPT ![i] = new] /\ index' = jobs[i].view
      BY <2>2, <3>1, <3>2 DEF Mirror!WriteIndex
    <3>6. JobOf(i, new)
      BY <3>3, <3>4 DEF JobOf, Busy
    <3>7. jobs[i].view \subseteq MirrorEntries
      BY <1>2
    <3> QED
      BY <3>4, <3>5, <3>6, <3>7
  <2> QED
    BY <2>1, <2>2
<1>4. /\ DOMAIN jobs' = Images /\ jobs' = [j \in Images |-> jobs'[j]]
      /\ \A j \in Images : JobOf(j, jobs'[j])
  BY <1>3, JobMoves
<1> QED
  BY <1>1, <1>3, <1>4 DEF MirrorTypes

\* What a bundle brings, as it is merged.
LEMMA KitsAre ==
    ASSUME NEW kit \in SUBSET Images, NEW old \in SUBSET MirrorEntries
    PROVE  /\ Mirror!KitEntries(kit) \in SUBSET MirrorEntries
           /\ \A e \in Mirror!KitEntries(kit) : Mirror!Merged(old, e) \in MirrorEntries
<1>1. Mirror!KitEntries(kit) \in SUBSET MirrorEntries
  <2>1. {Mirror!Untagged(i) : i \in kit} \subseteq MirrorEntries
    BY EntriesAre
  <2>2. {Mirror!ChartEntry(i) : i \in {j \in kit : Mirror!Pinned(j)}} \subseteq MirrorEntries
    BY EntriesAre
  <2>3. ASSUME NEW i \in kit
        PROVE  Mirror!ListEntry(i.tag, {Mirror!Desc(j) : j \in {k \in kit : k.tag = i.tag
                                                                  /\ ~Mirror!Pinned(k)}})
                 \in MirrorEntries
    <3>1. PICK descs : descs = {Mirror!Desc(j) : j \in {k \in kit : k.tag = i.tag
                                                                  /\ ~Mirror!Pinned(k)}}
      OBVIOUS
    <3>2. descs \in SUBSET MirrorDescs
      BY <3>1 DEF MirrorDescs
    <3> QED
      BY <3>1, <3>2, EntriesAre
  <2> QED
    BY <2>1, <2>2, <2>3 DEF Mirror!KitEntries
<1>2. ASSUME NEW e \in Mirror!KitEntries(kit) PROVE Mirror!Merged(old, e) \in MirrorEntries
  <2>1. e \in MirrorEntries
    BY <1>1
  <2>2. PICK x : x = Mirror!Merged(old, e)
    OBVIOUS
  <2>3. CASE x = e
    BY <2>1, <2>2, <2>3
  <2>4. CASE x # e
    <3>1. PICK y \in old : y.ref = e.ref
      BY <2>2, <2>4 DEF Mirror!Merged
    <3>2. PICK descs : /\ descs \subseteq Mirror!TagList(old, e.ref) \cup e.of
                       /\ x = Mirror!ListEntry(e.ref, descs)
      BY <2>2, <2>4 DEF Mirror!Merged
    <3>3. descs \in SUBSET MirrorDescs
      BY <2>1, <3>2, EntriesAre, ListsAre
    <3>4. \E i \in Images : i.tag = e.ref \/ NoTag = e.ref
      BY <2>1 DEF MirrorEntries, ImageEntries, ChartEntries, ListEntries, Mirror!Untagged,
         Mirror!ChartEntry, Mirror!ListEntry
    <3>5. e.ref # NoTag
      BY <2>2, <2>4 DEF Mirror!Merged
    <3> QED
      BY <2>2, <3>2, <3>3, <3>4, <3>5, EntriesAre
  <2> QED
    BY <2>2, <2>3, <2>4
<1> QED
  BY <1>1, <1>2

\* Processes begin and end; a bundle is imported.
LEMMA SessionTypes ==
    ASSUME MirrorTypes,
           \/ \E wanted \in SUBSET Images : Mirror!StartDownload(wanted) \/ Mirror!StartImport(wanted)
           \/ \E i \in Images : Mirror!ImportBlobs(i)
           \/ Mirror!EndDownload \/ Mirror!ImportIndex \/ Mirror!Gone
    PROVE  MirrorTypes'
<1>1. ASSUME NEW wanted \in SUBSET Images, Mirror!StartDownload(wanted) PROVE MirrorTypes'
  <2>1. /\ sessions' \in 0..MaxSessions /\ failed' \in BOOLEAN /\ UNCHANGED <<blobs, index>>
    <3>1. /\ sessions < MaxSessions /\ sessions' = sessions + 1 /\ failed' = FALSE
          /\ UNCHANGED <<blobs, index>>
      BY <1>1 DEF Mirror!StartDownload
    <3>2. sessions \in 0..MaxSessions /\ MaxSessions \in Nat
      BY OperationsAssumption DEF MirrorTypes
    <3>3. sessions' \in 0..MaxSessions
      BY <3>1, <3>2
    <3> QED
      BY <3>1, <3>3
  <2>2. CASE UNCHANGED <<session, jobs>>
    BY <2>1, <2>2 DEF MirrorTypes
  <2>3. CASE ~UNCHANGED <<session, jobs>>
    <3>1. PICK fresh : fresh = [at |-> "host", n |-> 1, list |-> {}, view |-> {}]
      OBVIOUS
    <3>2. session' = [kind |-> "download", wanted |-> wanted]
          /\ jobs' = [i \in Images |-> IF i \in wanted /\ ~Mirror!Cached(i) THEN fresh
                                       ELSE Mirror!NoJob]
      BY <1>1, <2>3, <3>1 DEF Mirror!StartDownload
    <3>3. \A i \in Images : JobOf(i, fresh) /\ JobOf(i, Mirror!NoJob)
      BY <3>1 DEF JobOf, JobRecords, JobStages, Busy, Rewrites, Mirror!NoJob
    <3>4. /\ DOMAIN jobs' = Images /\ jobs' = [i \in Images |-> jobs'[i]]
          /\ \A i \in Images : JobOf(i, jobs'[i])
      <4>1. \A i \in Images : jobs'[i] = fresh \/ jobs'[i] = Mirror!NoJob
        BY <3>2
      <4>2. \A i \in Images : JobOf(i, jobs'[i])
        BY <3>3, <4>1
      <4> QED
        BY <3>2, <4>2
    <3>5. /\ session'.kind = "download" /\ session'.wanted = wanted
          /\ session' = [kind |-> session'.kind, wanted |-> session'.wanted]
      BY <3>2
    <3> QED
      BY <2>1, <3>4, <3>5 DEF MirrorTypes
  <2> QED
    BY <2>2, <2>3
<1>2. ASSUME NEW wanted \in SUBSET Images, Mirror!StartImport(wanted) PROVE MirrorTypes'
  BY <1>2, OperationsAssumption DEF Mirror!StartImport, MirrorTypes
<1>3. ASSUME NEW i \in Images, Mirror!ImportBlobs(i) PROVE MirrorTypes'
  BY <1>3 DEF Mirror!ImportBlobs, MirrorTypes, MirrorBlobs
<1>4. CASE Mirror!EndDownload
  <2>1. /\ session.kind = "download" /\ UNCHANGED <<blobs, index, jobs, failed, sessions>>
        /\ session' \in {[session EXCEPT !.kind = "idle"], [session EXCEPT !.kind = "marked"]}
    BY <1>4 DEF Mirror!EndDownload
  <2>2. PICK wanted \in SUBSET Images : session = [kind |-> "download", wanted |-> wanted]
    BY <2>1 DEF MirrorTypes
  <2>3. \E label \in {"idle", "marked"} : session' = [kind |-> label, wanted |-> wanted]
    BY <2>1, <2>2
  <2> QED
    BY <2>1, <2>2, <2>3 DEF MirrorTypes
<1>5. CASE Mirror!ImportIndex
  <2>1. /\ session.kind = "import" /\ session' = [kind |-> "idle"]
        /\ UNCHANGED <<blobs, jobs, failed, sessions>>
    BY <1>5 DEF Mirror!ImportIndex
  <2>2. index' = Mirror!Torn \/ index' \subseteq MirrorEntries
    <3>1. CASE index = Mirror!Torn
      BY <1>5, <3>1 DEF Mirror!ImportIndex
    <3>2. CASE index # Mirror!Torn
      <4>1. index \in SUBSET MirrorEntries /\ session.kit \in SUBSET Images
        BY <2>1, <3>2 DEF MirrorTypes
      <4>2. PICK es : es = {Mirror!Merged(index, e) : e \in Mirror!KitEntries(session.kit)}
        OBVIOUS
      <4>3. es \in SUBSET MirrorEntries
        BY <4>1, <4>2, KitsAre
      <4>4. index' = Mirror!UpsertAll(index, es)
        BY <1>5, <3>2, <4>2 DEF Mirror!ImportIndex
      <4> QED
        BY <4>1, <4>3, <4>4, ListsAre
    <3> QED
      BY <3>1, <3>2
  <2> QED
    BY <2>1, <2>2 DEF MirrorTypes
<1>6. CASE Mirror!Gone
  <2>1. /\ session' = [kind |-> "idle"] /\ jobs' = [i \in Images |-> Mirror!NoJob]
        /\ failed' = FALSE /\ UNCHANGED <<blobs, index, sessions>>
    BY <1>6 DEF Mirror!Gone
  <2>2. \A i \in Images : JobOf(i, Mirror!NoJob)
    BY DEF JobOf, Mirror!NoJob, Busy, JobStages
  <2> QED
    BY <2>1, <2>2 DEF MirrorTypes
<1> QED
  BY <1>1, <1>2, <1>3, <1>4, <1>5, <1>6

\* No step breaks the types of the mirror.
LEMMA MirrorTypesStep == MirrorTypes /\ [Mirror!Next]_mirrorVars => MirrorTypes'
<1> SUFFICES ASSUME MirrorTypes, [Mirror!Next]_mirrorVars PROVE MirrorTypes'
  OBVIOUS
<1>1. CASE UNCHANGED mirrorVars
  BY <1>1 DEF mirrorVars, MirrorTypes
<1>2. CASE Mirror!Next
  BY <1>2, WaitTypes, FetchTypes, ReadTypes, WriteTypes, SessionTypes
     DEF Mirror!Next, Mirror!Step
<1> QED
  BY <1>1, <1>2

\* So the variables have their types.
LEMMA MirrorTypesEnough == MirrorTypes => Mirror!TypeOK
BY EntriesAre DEF MirrorTypes, MirrorBlobs, Mirror!TypeOK

\* The entries that goroutines and imports write, of images that keep apart.
TagDescs(tag) == {Mirror!Desc(j) : j \in {k \in Images : k.tag = tag}}
IsImage(e) == \E i \in Images : e = Mirror!Untagged(i)
IsChart(e) == \E i \in Images : Mirror!Pinned(i) /\ e = Mirror!ChartEntry(i)
IsList(e) ==
    \E i \in Images : /\ ~Mirror!Pinned(i) /\ i.tag # NoTag
                      /\ \E descs \in SUBSET TagDescs(i.tag) : e = Mirror!ListEntry(i.tag, descs)
Legit(es) ==
    /\ \A e \in es : IsImage(e) \/ IsChart(e) \/ IsList(e)
    /\ \A d, e \in es : d.ref = e.ref /\ d.ref # NoTag => d = e

\* What index.json must hold of an image that is cached.
HasDigest(es, i) == \E e \in es : e.digest = i.digest
Listed(es, i) ==
    /\ i.tag # NoTag => Mirror!Desc(i) \in Mirror!TagList(es, i.tag)
    /\ HasDigest(es, i)
HasBlobs(i) == i.digest \in blobs /\ (Mirror!Pinned(i) => i.chart \in blobs)

\* Nothing is lost from one index.json to the next.
Keeps(old, new) ==
    \A i \in Images :
        /\ i.tag # NoTag => Mirror!TagList(old, i.tag) \subseteq Mirror!TagList(new, i.tag)
        /\ HasDigest(old, i) => HasDigest(new, i)

\* Where a list has been read, it goes with the index that is still there.
Listing(i) == ~Mirror!Pinned(i) /\ i.tag # NoTag
HasRead(i) == Listing(i) => Mirror!Desc(i) \in jobs[i].list /\ jobs[i].list \subseteq TagDescs(i.tag)
GoodView(i) ==
    /\ Legit(jobs[i].view) /\ HasRead(i)
    /\ Mirror!Writes(i, jobs[i].list)[jobs[i].n] \subseteq jobs[i].view
    /\ jobs[i].n = 2 => HasDigest(jobs[i].view, i)
JobStage(i) ==
    /\ jobs[i].at \in {"host", "slot", "repo", "fetch", "readTag"} => jobs[i].n = 1
    /\ jobs[i].at \in {"readTag", "readIndex", "torn", "write"} => HasBlobs(i)
    /\ jobs[i].at = "readIndex" =>
         /\ HasRead(i)
         /\ index # Mirror!Torn =>
              /\ Listing(i) => Mirror!TagList(index, i.tag) \subseteq jobs[i].list
              /\ jobs[i].n = 2 => HasDigest(index, i)
    /\ jobs[i].at = "torn" =>
         index # Mirror!Torn /\ GoodView(i) /\ Keeps(index, jobs[i].view)
    /\ jobs[i].at = "write" => index = Mirror!Torn /\ GoodView(i)

\* An image that is done with can be served from index.json, and from what is
\* being written to it.
Settled(i) == jobs[i].at = "none" \/ (jobs[i].at \in {"release", "gone"} /\ ~failed)
Kept(i) ==
    /\ HasBlobs(i)
    /\ index # Mirror!Torn => Listed(index, i)
    /\ \A j \in Images : jobs[j].at = "write" => Listed(jobs[j].view, i)

MirrorInv ==
    /\ MirrorTypes
    /\ index # Mirror!Torn => Legit(index)
    /\ \A i, j \in Images : jobs[i].at \in Mirror!HasRepo /\ jobs[j].at \in Mirror!HasRepo => i = j
    /\ session.kind # "download" => \A i \in Images : jobs[i].at \in {"none", "gone"}
    /\ \A i \in Images : JobStage(i)
    /\ session.kind = "download" /\ session.wanted # {} /\ index = Mirror!Torn =>
         \E j \in Images : jobs[j].at = "write"
    /\ session.kind = "download" => \A i \in session.wanted : Settled(i) => Kept(i)
    /\ session.kind = "marked" => \A i \in session.wanted : Kept(i) /\ index # Mirror!Torn

\* What is an entry for a tag, depends on the tag only.
LEMMA TagsApart ==
    ASSUME NEW es, Legit(es), NEW i \in Images, i.tag # NoTag, NEW e \in es, e.ref = i.tag
    PROVE  /\ Mirror!Pinned(i) => IsChart(e) /\ e = Mirror!ChartEntry(i)
           /\ ~Mirror!Pinned(i) => /\ IsList(e) /\ e = Mirror!ListEntry(i.tag, e.of)
                                   /\ e.of \subseteq TagDescs(i.tag)
<1>1. ~IsImage(e)
  BY DEF IsImage, Mirror!Untagged
<1>2. CASE IsChart(e)
  <2>1. PICK k \in Images : Mirror!Pinned(k) /\ e = Mirror!ChartEntry(k)
    BY <1>2 DEF IsChart
  <2>2. k.tag = i.tag
    BY <2>1 DEF Mirror!ChartEntry
  <2>3. Mirror!Pinned(i) /\ k.chart = i.chart
    BY <2>1, <2>2, ImagesApart
  <2> QED
    BY <1>2, <2>1, <2>2, <2>3 DEF Mirror!ChartEntry
<1>3. CASE IsList(e)
  <2>1. PICK k \in Images :
          /\ ~Mirror!Pinned(k) /\ k.tag # NoTag
          /\ \E descs \in SUBSET TagDescs(k.tag) : e = Mirror!ListEntry(k.tag, descs)
    BY <1>3 DEF IsList
  <2>2. /\ k.tag = i.tag /\ e.of \in SUBSET TagDescs(k.tag)
        /\ e = Mirror!ListEntry(k.tag, e.of)
    BY <2>1 DEF Mirror!ListEntry
  <2>3. ~Mirror!Pinned(i)
    BY <2>1, <2>2, ImagesApart
  <2> QED
    BY <1>3, <2>2, <2>3
<1> QED
  BY <1>1, <1>2, <1>3 DEF Legit

\* Of one tag, a platform has one digest, and a digest one platform.
LEMMA DescsApart ==
    ASSUME NEW tag, tag # NoTag, NEW c \in TagDescs(tag), NEW d \in TagDescs(tag),
           c.digest = d.digest \/ c.platform = d.platform
    PROVE  c = d
<1>1. PICK i \in Images : i.tag = tag /\ c = Mirror!Desc(i)
  BY DEF TagDescs
<1>2. PICK j \in Images : j.tag = tag /\ d = Mirror!Desc(j)
  BY DEF TagDescs
<1>3. i.digest = j.digest /\ i.platform = j.platform
  BY <1>1, <1>2, ImagesApart DEF Mirror!Desc
<1> QED
  BY <1>1, <1>2, <1>3 DEF Mirror!Desc

\* A list of a tag names what may be listed for it.
LEMMA ListedDescs ==
    ASSUME NEW es, Legit(es), NEW i \in Images, i.tag # NoTag
    PROVE  /\ ~Mirror!Pinned(i) => Mirror!TagList(es, i.tag) \subseteq TagDescs(i.tag)
           /\ \A d \in Mirror!TagList(es, i.tag) :
                d.platform = i.platform => d.digest = i.digest
<1>1. ASSUME NEW d \in Mirror!TagList(es, i.tag)
      PROVE  /\ ~Mirror!Pinned(i) => d \in TagDescs(i.tag)
             /\ d.platform = i.platform => d.digest = i.digest
  <2>1. PICK e \in es : e.ref = i.tag /\ d \in e.of
    BY <1>1 DEF Mirror!TagList
  <2>2. CASE Mirror!Pinned(i)
    <3>1. e = Mirror!ChartEntry(i)
      BY <2>1, <2>2, TagsApart
    <3>2. d \in Mirror!Upstream(i.chart)
      BY <2>1, <3>1 DEF Mirror!ChartEntry
    <3>3. PICK j \in Images : j.chart = i.chart /\ d = Mirror!Desc(j)
      BY <3>2 DEF Mirror!Upstream
    <3>4. j.platform = i.platform => j.digest = i.digest
      BY <2>2, <3>3, ImagesApart
    <3> QED
      BY <2>2, <3>3, <3>4 DEF Mirror!Desc
  <2>3. CASE ~Mirror!Pinned(i)
    <3>1. d \in TagDescs(i.tag)
      BY <2>1, <2>3, TagsApart
    <3>2. PICK j \in Images : j.tag = i.tag /\ d = Mirror!Desc(j)
      BY <3>1 DEF TagDescs
    <3>3. j.platform = i.platform => j.digest = i.digest
      BY <3>2, ImagesApart
    <3> QED
      BY <3>1, <3>2, <3>3 DEF Mirror!Desc
  <2> QED
    BY <2>2, <2>3
<1> QED
  BY <1>1

\* Entries that are put in take nothing away, when the lists among them hold
\* what was listed.
LEMMA UpsertKeeps ==
    ASSUME NEW old, Legit(old), NEW es, Legit(es),
           \A e \in es : IsList(e) => Mirror!TagList(old, e.ref) \subseteq e.of
    PROVE  /\ Legit(Mirror!UpsertAll(old, es)) /\ Keeps(old, Mirror!UpsertAll(old, es))
           /\ es \subseteq Mirror!UpsertAll(old, es)
<1>1. PICK new : new = Mirror!UpsertAll(old, es)
  OBVIOUS
<1>2. /\ es \subseteq new
      /\ \A x \in new : x \in old \/ x \in es
      /\ \A x \in old : x \in new \/ \E e \in es : /\ x.ref = e.ref /\ x # e
                                                   /\ e.ref # NoTag \/ x.digest = e.digest
  BY <1>1 DEF Mirror!UpsertAll, Mirror!Upsert
<1>3. Legit(new)
  <2>1. ASSUME NEW x \in new, x \notin es, NEW e \in es, x.ref = e.ref, x.ref # NoTag
        PROVE  FALSE
    BY <1>1, <2>1 DEF Mirror!UpsertAll, Mirror!Upsert
  <2>2. ASSUME NEW x \in new, NEW y \in new, x.ref = y.ref, x.ref # NoTag PROVE x = y
    <3>1. CASE x \in es /\ y \in es
      BY <2>2, <3>1 DEF Legit
    <3>2. CASE x \notin es /\ y \notin es
      BY <1>2, <2>2, <3>2 DEF Legit
    <3> QED
      BY <2>1, <2>2, <3>1, <3>2
  <2> QED
    BY <1>2, <2>2 DEF Legit
<1>4. ASSUME NEW x \in old, x \notin new
      PROVE  \E e \in es : /\ x.ref = e.ref /\ x.digest = e.digest
                           /\ x.ref # NoTag => x.of \subseteq e.of
  <2>1. PICK e \in es : /\ x.ref = e.ref /\ x # e
                        /\ e.ref # NoTag \/ x.digest = e.digest
    BY <1>2, <1>4
  <2>2. CASE e.ref = NoTag
    BY <2>1, <2>2
  <2>3. CASE e.ref # NoTag
    <3>1. IsChart(x) \/ IsList(x)
      BY <2>1, <2>3 DEF Legit, IsImage, Mirror!Untagged
    <3>2. PICK i \in Images : i.tag = x.ref
      BY <3>1 DEF IsChart, IsList, Mirror!ChartEntry, Mirror!ListEntry
    <3>3. Mirror!Pinned(i) => x = Mirror!ChartEntry(i)
      BY <2>1, <2>3, <3>2, TagsApart
    <3>4. Mirror!Pinned(i) => e = Mirror!ChartEntry(i)
      BY <2>1, <2>3, <3>2, TagsApart
    <3>5. ~Mirror!Pinned(i)
      BY <2>1, <3>3, <3>4
    <3>6. x = Mirror!ListEntry(i.tag, x.of)
      BY <2>1, <2>3, <3>2, <3>5, TagsApart
    <3>7. IsList(e) /\ e = Mirror!ListEntry(i.tag, e.of)
      BY <2>1, <2>3, <3>2, <3>5, TagsApart
    <3>8. x.digest = e.digest
      BY <3>6, <3>7 DEF Mirror!ListEntry
    <3>9. x.of \subseteq Mirror!TagList(old, x.ref)
      BY DEF Mirror!TagList
    <3> QED
      BY <2>1, <3>7, <3>8, <3>9
  <2> QED
    BY <2>2, <2>3
<1>5. ASSUME NEW i \in Images, i.tag # NoTag, NEW d \in Mirror!TagList(old, i.tag)
      PROVE  d \in Mirror!TagList(new, i.tag)
  <2>1. PICK x \in old : x.ref = i.tag /\ d \in x.of
    BY <1>5 DEF Mirror!TagList
  <2>2. PICK y \in new : y.ref = i.tag /\ d \in y.of
    BY <1>2, <1>4, <1>5, <2>1
  <2> QED
    BY <2>2 DEF Mirror!TagList
<1>6. ASSUME NEW i \in Images, HasDigest(old, i) PROVE HasDigest(new, i)
  <2>1. PICK x \in old : x.digest = i.digest
    BY <1>6 DEF HasDigest
  <2> QED
    BY <1>2, <1>4, <2>1 DEF HasDigest
<1>7. Keeps(old, new)
  BY <1>5, <1>6 DEF Keeps
<1> QED
  BY <1>1, <1>2, <1>3, <1>7

\* Cached is what has its blobs and is listed.
LEMMA CachedIsListed ==
    ASSUME NEW i \in Images, index # Mirror!Torn, Legit(index)
    PROVE  Mirror!Cached(i) <=> HasBlobs(i) /\ Listed(index, i)
<1>1. Mirror!Pinned(i) => i.tag # NoTag
  BY ImagesApart
<1>2. i.tag # NoTag => \A d \in Mirror!TagList(index, i.tag) :
                          d.platform = i.platform => d.digest = i.digest
  BY ListedDescs
<1> QED
  BY <1>1, <1>2 DEF Mirror!Cached, HasBlobs, Listed, HasDigest

\* A list in the file that is torn is none.
LEMMA LegitIsNotTorn == \A es : Legit(es) => es # Mirror!Torn
<1> SUFFICES ASSUME Legit(Mirror!Torn) PROVE FALSE
  OBVIOUS
<1>1. PICK e : e = [torn |-> TRUE] /\ e \in Mirror!Torn
  BY DEF Mirror!Torn
<1>2. DOMAIN e = {"torn"}
  BY <1>1
<1>3. IsImage(e) \/ IsChart(e) \/ IsList(e)
  BY <1>1 DEF Legit
<1>4. "ref" \in DOMAIN e
  <2>1. CASE IsImage(e)
    BY <2>1 DEF IsImage, Mirror!Untagged
  <2>2. CASE IsChart(e)
    BY <2>2 DEF IsChart, Mirror!ChartEntry
  <2>3. CASE IsList(e)
    BY <2>3 DEF IsList, Mirror!ListEntry
  <2> QED
    BY <1>3, <2>1, <2>2, <2>3
<1> QED
  BY <1>2, <1>4

\* What is listed stays listed.
LEMMA KeepsListed ==
    ASSUME NEW old, NEW new, Keeps(old, new), NEW i \in Images, Listed(old, i)
    PROVE  Listed(new, i)
BY DEF Keeps, Listed

\* What a goroutine writes for its image, and that it lists the image.
LEMMA WritesLegit ==
    ASSUME NEW i \in Images, NEW list, Listing(i) => list \subseteq TagDescs(i.tag),
           NEW n \in 1..Rewrites(i)
    PROVE  /\ Legit(Mirror!Writes(i, list)[n])
           /\ \A e \in Mirror!Writes(i, list)[n] :
                IsList(e) => Listing(i) /\ e.ref = i.tag /\ e.of = list
           /\ n < Rewrites(i) => Mirror!Untagged(i) \in Mirror!Writes(i, list)[n]
           /\ n = Rewrites(i) =>
                /\ Mirror!Pinned(i) => Mirror!ChartEntry(i) \in Mirror!Writes(i, list)[n]
                /\ ~Mirror!Pinned(i) => Mirror!Untagged(i) \in Mirror!Writes(i, list)[n]
                /\ Listing(i) => Mirror!ListEntry(i.tag, list) \in Mirror!Writes(i, list)[n]
<1>1. /\ IsImage(Mirror!Untagged(i)) /\ ~IsList(Mirror!Untagged(i))
      /\ ~IsList(Mirror!ChartEntry(i))
      /\ Mirror!Pinned(i) => IsChart(Mirror!ChartEntry(i))
  BY DEF IsImage, IsChart, IsList, Mirror!Untagged, Mirror!ChartEntry, Mirror!ListEntry
<1>2. Listing(i) => /\ IsList(Mirror!ListEntry(i.tag, list))
                    /\ Mirror!ListEntry(i.tag, list).ref = i.tag
                    /\ Mirror!ListEntry(i.tag, list).of = list
  BY DEF IsList, Listing, Mirror!ListEntry
<1>3. CASE Mirror!Pinned(i)
  <2>1. i.tag # NoTag /\ Rewrites(i) = 2 /\ n \in {1, 2}
    BY <1>3, ImagesApart DEF Rewrites
  <2>2. Mirror!Writes(i, list) = <<{Mirror!Untagged(i)}, {Mirror!ChartEntry(i)}>>
    BY <1>3, <2>1 DEF Mirror!Writes
  <2>3. Mirror!Writes(i, list)[n] = IF n = 1 THEN {Mirror!Untagged(i)} ELSE {Mirror!ChartEntry(i)}
    BY <2>1, <2>2
  <2> QED
    BY <1>1, <1>3, <2>1, <2>3 DEF Legit, Listing
<1>4. CASE ~Mirror!Pinned(i)
  <2>1. Rewrites(i) = 1 /\ n = 1
    BY <1>4 DEF Rewrites
  <2>2. Mirror!Writes(i, list)[n] =
          IF i.tag = NoTag THEN {Mirror!Untagged(i)}
          ELSE {Mirror!Untagged(i), Mirror!ListEntry(i.tag, list)}
    BY <1>4, <2>1 DEF Mirror!Writes
  <2>3. Mirror!Untagged(i).ref = NoTag
    BY DEF Mirror!Untagged
  <2>4. Legit(Mirror!Writes(i, list)[n])
    BY <1>1, <1>2, <1>4, <2>2, <2>3 DEF Legit, Listing
  <2> QED
    BY <1>1, <1>2, <1>4, <2>1, <2>2, <2>4 DEF Listing
<1> QED
  BY <1>3, <1>4

\* What has been written for the last time lists the image.
LEMMA WrittenIsListed ==
    ASSUME NEW i \in Images, HasRead(i), NEW view, jobs[i].n = Rewrites(i),
           Mirror!Writes(i, jobs[i].list)[jobs[i].n] \subseteq view,
           jobs[i].n = 2 => HasDigest(view, i)
    PROVE  Listed(view, i)
<1>1. jobs[i].n \in 1..Rewrites(i) /\ Rewrites(i) \in {1, 2}
  BY DEF Rewrites
<1>2. CASE Mirror!Pinned(i)
  <2>1. i.tag # NoTag /\ Rewrites(i) = 2
    BY <1>2, ImagesApart DEF Rewrites
  <2>2. Mirror!ChartEntry(i) \in view
    BY <1>1, <1>2, WritesLegit DEF HasRead
  <2>3. /\ Mirror!ChartEntry(i).ref = i.tag
        /\ Mirror!Desc(i) \in Mirror!ChartEntry(i).of
    BY DEF Mirror!ChartEntry, Mirror!Upstream
  <2>4. Mirror!Desc(i) \in Mirror!TagList(view, i.tag)
    BY <2>2, <2>3 DEF Mirror!TagList
  <2> QED
    BY <2>1, <2>4 DEF Listed
<1>3. CASE ~Mirror!Pinned(i)
  <2>1. Mirror!Untagged(i) \in view
    BY <1>1, <1>3, WritesLegit DEF HasRead
  <2>2. HasDigest(view, i)
    BY <2>1 DEF HasDigest, Mirror!Untagged
  <2>3. ASSUME i.tag # NoTag PROVE Mirror!Desc(i) \in Mirror!TagList(view, i.tag)
    <3>1. Listing(i)
      BY <1>3, <2>3 DEF Listing
    <3>2. Mirror!ListEntry(i.tag, jobs[i].list) \in view
      BY <1>1, <3>1, WritesLegit DEF HasRead
    <3>3. Mirror!Desc(i) \in jobs[i].list
      BY <3>1 DEF HasRead
    <3> QED
      BY <3>2, <3>3 DEF Mirror!TagList, Mirror!ListEntry
  <2> QED
    BY <2>2, <2>3 DEF Listed
<1> QED
  BY <1>2, <1>3

\* Nobody uses the mirror.
LEMMA MirrorBegins == Mirror!Init => MirrorInv
<1> SUFFICES ASSUME Mirror!Init PROVE MirrorInv
  OBVIOUS
<1>1. MirrorTypes
  BY MirrorInitially
<1>2. /\ \A i \in Images : jobs[i].at = "none"
      /\ session.kind = "idle" /\ index = {}
  BY DEF Mirror!Init, Mirror!NoJob
<1>3. index # Mirror!Torn /\ Legit(index)
  BY <1>2 DEF Legit, Mirror!Torn
<1>4. \A i \in Images : JobStage(i) /\ jobs[i].at \notin Mirror!HasRepo
  BY <1>2 DEF JobStage, Mirror!HasRepo
<1> QED
  BY <1>1, <1>2, <1>3, <1>4 DEF MirrorInv

\* Where a goroutine goes, and what becomes of the others: what is listed for
\* them stays so.
GoesOn(i, new) ==
    /\ jobs' = [jobs EXCEPT ![i] = new] /\ new.at \notin {"none"}
    /\ UNCHANGED session /\ blobs \subseteq blobs' /\ (failed => failed')
    /\ new.at \in Mirror!HasRepo =>
         \/ jobs[i].at \in Mirror!HasRepo
         \/ \A j \in Images : jobs[j].at \notin Mirror!HasRepo
    /\ index' # index => jobs[i].at \in Mirror!HasRepo
    /\ index' # Mirror!Torn => Legit(index')
    /\ index' = Mirror!Torn =>
         new.at = "write" \/ (index = Mirror!Torn /\ jobs[i].at # "write")

\* A goroutine that runs belongs to a download.
LEMMA RunsInDownload ==
    ASSUME MirrorInv, NEW i \in Images, jobs[i].at \notin {"none", "gone"}
    PROVE  session.kind = "download"
BY DEF MirrorInv

\* A step of one goroutine keeps the invariant, when what it promises holds.
LEMMA OneGoesOn ==
    ASSUME MirrorInv, MirrorTypes', NEW i \in Images, jobs[i].at \notin {"none", "gone"},
           NEW new, GoesOn(i, new), JobStage(i)',
           \A j \in Images : j # i /\ Kept(j) => Kept(j)',
           i \in session.wanted /\ Settled(i)' => Kept(i)'
    PROVE  MirrorInv'
<1>1. session.kind = "download" /\ session' = session
  BY RunsInDownload DEF GoesOn
<1>2. jobs'[i] = new /\ \A j \in Images : j # i => jobs'[j] = jobs[j]
  BY DEF GoesOn, MirrorInv, MirrorTypes
<1>3. \A j, k \in Images :
        jobs'[j].at \in Mirror!HasRepo /\ jobs'[k].at \in Mirror!HasRepo => j = k
  BY <1>2 DEF MirrorInv, GoesOn
<1>4. ASSUME NEW j \in Images, j # i PROVE JobStage(j)'
  <2>1. JobStage(j) /\ jobs'[j] = jobs[j] /\ (HasBlobs(j) => HasBlobs(j)')
    BY <1>2, <1>4 DEF MirrorInv, GoesOn, HasBlobs
  <2>2. CASE jobs[j].at \in Mirror!HasRepo
    <3>1. index' = index
      BY <1>4, <2>2 DEF MirrorInv, GoesOn
    <3> QED
      BY <2>1, <3>1 DEF JobStage, HasRead, GoodView
  <2>3. CASE jobs[j].at \notin Mirror!HasRepo
    BY <2>1, <2>3 DEF JobStage, Mirror!HasRepo
  <2> QED
    BY <2>2, <2>3
<1>5. ASSUME session.wanted # {}, index' = Mirror!Torn
      PROVE  \E j \in Images : jobs'[j].at = "write"
  <2>1. CASE new.at = "write"
    BY <1>2, <2>1
  <2>2. CASE index = Mirror!Torn /\ jobs[i].at # "write"
    <3>1. PICK j \in Images : jobs[j].at = "write"
      BY <1>1, <1>5, <2>2 DEF MirrorInv
    <3> QED
      BY <1>2, <2>2, <3>1
  <2> QED
    BY <1>5, <2>1, <2>2 DEF GoesOn
<1>6. ASSUME NEW j \in session.wanted, Settled(j)' PROVE Kept(j)'
  <2>1. CASE j = i
    BY <1>6, <2>1
  <2>2. CASE j # i
    <3>1. j \in Images
      BY <1>1, <1>6 DEF MirrorInv, MirrorTypes
    <3>2. Settled(j)
      BY <1>2, <1>6, <2>2, <3>1 DEF Settled, GoesOn
    <3> QED
      BY <1>1, <1>6, <2>2, <3>1, <3>2 DEF MirrorInv
  <2> QED
    BY <2>1, <2>2
<1>7. index' # Mirror!Torn => Legit(index)'
  BY DEF GoesOn, Legit
<1>8. session.kind' = "download" /\ session.wanted' = session.wanted
  BY <1>1
<1>9. \A j \in Images : JobStage(j)'
  BY <1>4
<1> QED
  BY <1>3, <1>5, <1>6, <1>7, <1>8, <1>9 DEF MirrorInv

\* A goroutine that changes nothing of the index takes nothing from others.
LEMMA OthersKept ==
    ASSUME MirrorInv, NEW i \in Images, NEW new, GoesOn(i, new), index' = index,
           new.at # "write"
    PROVE  \A j \in Images : Kept(j) => Kept(j)'
<1> SUFFICES ASSUME NEW j \in Images, Kept(j) PROVE Kept(j)'
  OBVIOUS
<1>1. \A k \in Images : jobs'[k].at = "write" => jobs[k].at = "write" /\ jobs'[k] = jobs[k]
  BY DEF GoesOn, MirrorInv, MirrorTypes
<1>2. HasBlobs(j)'
  BY DEF Kept, HasBlobs, GoesOn
<1>3. \A k \in Images : jobs'[k].at = "write" => Listed(jobs'[k].view, j)
  BY <1>1 DEF Kept
<1> QED
  BY <1>2, <1>3 DEF Kept, Listed, HasDigest

\* A goroutine waits, or gives up.
LEMMA WaitStep ==
    ASSUME MirrorInv, MirrorTypes', NEW i \in Images,
           \/ Mirror!AcquireHost(i) \/ Mirror!AcquireSlot(i) \/ Mirror!LockRepo(i)
           \/ Mirror!Release(i)
    PROVE  MirrorInv'
<1>1. PICK label \in {"slot", "repo", "fetch", "gone"} :
        /\ Mirror!Goto(i, label) /\ jobs[i].at \in {"host", "slot", "repo", "release"}
        /\ label # "gone" => jobs[i].at # "release"
        /\ label = "gone" => jobs[i].at = "release" \/ failed
        /\ label = "fetch" => \A j \in Images : jobs[j].at \notin Mirror!HasRepo
        /\ UNCHANGED <<blobs, index, session, failed, sessions>>
  BY DEF Mirror!AcquireHost, Mirror!AcquireSlot, Mirror!LockRepo, Mirror!Release, Mirror!At,
         Mirror!RepoIsFree, Mirror!Holding
<1>2. label \in JobStages /\ jobs[i].at \in JobStages
  BY <1>1 DEF JobStages
<1>3. PICK new \in JobRecords :
        /\ new.at = label /\ new.n = jobs[i].n /\ jobs' = [jobs EXCEPT ![i] = new]
  BY <1>1, <1>2, JobGoes DEF MirrorInv
<1>4. jobs'[i] = new
  BY <1>3 DEF MirrorInv, MirrorTypes
<1>5. GoesOn(i, new)
  <2>1. label \in Mirror!HasRepo => label = "fetch"
    BY <1>1 DEF Mirror!HasRepo
  <2> QED
    BY <1>1, <1>3, <2>1 DEF GoesOn, MirrorInv, Mirror!HasRepo
<1>6. JobStage(i)'
  BY <1>1, <1>3, <1>4 DEF JobStage, MirrorInv
<1>7. \A j \in Images : Kept(j) => Kept(j)'
  BY <1>1, <1>3, <1>5, OthersKept
<1>8. i \in session.wanted /\ Settled(i)' => Kept(i)'
  <2> SUFFICES ASSUME i \in session.wanted, Settled(i)' PROVE Kept(i)
    BY <1>7
  <2>1. Settled(i)
    BY <1>1, <1>3, <1>4 DEF Settled
  <2>2. session.kind = "download"
    BY <1>1, RunsInDownload
  <2> QED
    BY <2>1, <2>2 DEF MirrorInv
<1> QED
  BY <1>1, <1>5, <1>6, <1>7, <1>8, OneGoesOn

\* A goroutine fetches: nothing is promised of its image yet.
LEMMA FetchStep ==
    ASSUME MirrorInv, MirrorTypes', NEW i \in Images, Mirror!Fetch(i)
    PROVE  MirrorInv'
<1>1. /\ jobs[i].at = "fetch" /\ UNCHANGED <<index, session, sessions>> /\ blobs \subseteq blobs'
      /\ jobs[i].n = 1 /\ (failed => failed')
  BY DEF Mirror!Fetch, Mirror!At, MirrorInv, MirrorTypes, JobStage
<1>2. PICK label \in {"readIndex", "readTag", "release"} :
        /\ Mirror!Goto(i, label)
        /\ label = "readTag" => ~Mirror!Pinned(i) /\ i.tag # NoTag
        /\ label = "readIndex" => ~Listing(i)
        /\ label = "release" => failed'
        /\ label # "release" => HasBlobs(i)'
  <2>1. CASE failed' /\ Mirror!Goto(i, "release")
    BY <2>1
  <2>2. CASE ~(failed' /\ Mirror!Goto(i, "release"))
    <3>1. /\ blobs' = blobs \cup {i.digest} \cup (IF Mirror!Pinned(i) THEN {i.chart} ELSE {})
          /\ Mirror!Goto(i, IF Mirror!Pinned(i) \/ i.tag = NoTag THEN "readIndex" ELSE "readTag")
      BY <2>2 DEF Mirror!Fetch
    <3>2. HasBlobs(i)'
      BY <3>1 DEF HasBlobs
    <3> QED
      BY <3>1, <3>2 DEF Listing
  <2> QED
    BY <2>1, <2>2
<1>3. label \in JobStages /\ jobs[i].at \in JobStages
  BY <1>1 DEF JobStages
<1>4. PICK new \in JobRecords :
        /\ new.at = label /\ new.n = jobs[i].n /\ jobs' = [jobs EXCEPT ![i] = new]
  BY <1>2, <1>3, JobGoes DEF MirrorInv
<1>5. jobs'[i] = new
  BY <1>4 DEF MirrorInv, MirrorTypes
<1>6. GoesOn(i, new)
  BY <1>1, <1>4 DEF GoesOn, MirrorInv, Mirror!HasRepo
<1>7. JobStage(i)'
  <2>1. jobs'[i].at = label /\ jobs'[i].n = 1
    BY <1>1, <1>4, <1>5
  <2>4. jobs'[i].n # 2
    BY <2>1
  <2>2. label = "readIndex" => HasRead(i)'
    BY <1>2 DEF HasRead
  <2>3. label = "readIndex" => ~Listing(i)
    BY <1>2
  <2> QED
    BY <1>2, <2>1, <2>2, <2>3, <2>4 DEF JobStage
<1>8. \A j \in Images : Kept(j) => Kept(j)'
  BY <1>1, <1>4, <1>6, OthersKept
<1>9. ~Settled(i)'
  BY <1>2, <1>4, <1>5 DEF Settled
<1> QED
  BY <1>1, <1>6, <1>7, <1>8, <1>9, OneGoesOn

\* A goroutine reads the list of its tag, or the index: what it will write
\* lists all that has been listed.
LEMMA ReadStepKeeps ==
    ASSUME MirrorInv, MirrorTypes', NEW i \in Images, Mirror!ReadTag(i) \/ Mirror!ReadIndex(i)
    PROVE  MirrorInv'
<1>1. /\ jobs[i].at \in {"readTag", "readIndex"}
      /\ UNCHANGED <<blobs, index, session, sessions>> /\ (failed => failed')
  BY DEF Mirror!ReadTag, Mirror!ReadIndex, Mirror!At
<1>2. /\ jobs[i] \in JobRecords /\ jobs[i].n \in 1..Rewrites(i)
      /\ {"release", "readIndex", "torn"} \subseteq JobStages
      /\ jobs[i].at = "readTag" => jobs[i].n = 1 /\ Listing(i)
      /\ HasBlobs(i)
  BY <1>1 DEF MirrorInv, MirrorTypes, JobOf, Busy, JobStages, Mirror!NoJob, JobStage, Listing
<1>3. PICK new : /\ jobs' = [jobs EXCEPT ![i] = new] /\ JobStage(i)'
                 /\ new.at \in {"readIndex", "torn"} \/ (new.at = "release" /\ failed')
  <2>1. CASE index = Mirror!Torn
    <3>1. Mirror!Goto(i, "release") /\ failed'
      BY <2>1 DEF Mirror!ReadTag, Mirror!ReadIndex
    <3>2. PICK new \in JobRecords : new.at = "release" /\ jobs' = [jobs EXCEPT ![i] = new]
      BY <1>2, <3>1, JobGoes DEF MirrorInv, JobRecords
    <3>3. jobs'[i] = new
      BY <3>2 DEF MirrorInv, MirrorTypes
    <3> QED
      BY <3>1, <3>2, <3>3 DEF JobStage
  <2>2. CASE index # Mirror!Torn /\ Mirror!ReadTag(i)
    <3>1. PICK r, list, old : /\ r = jobs[i] /\ old = Mirror!TagList(index, i.tag)
                              /\ list = Mirror!UpsertManifest(old, Mirror!Desc(i))
      OBVIOUS
    <3>2. PICK new : new = [r EXCEPT !.at = "readIndex", !.list = list]
      OBVIOUS
    <3>3. new.at = "readIndex" /\ new.n = r.n /\ new.list = list
      BY <1>2, <3>1, <3>2 DEF JobRecords
    <3>4. jobs' = [jobs EXCEPT ![i] = new]
      BY <2>2, <3>1, <3>2 DEF Mirror!ReadTag
    <3>5. jobs'[i] = new
      BY <3>4 DEF MirrorInv, MirrorTypes
    <3>6. jobs[i].n = 1 /\ Listing(i)
      BY <1>2, <2>2 DEF Mirror!ReadTag, Mirror!At
    <3>7. old \subseteq TagDescs(i.tag)
      BY <2>2, <3>1, <3>6, ListedDescs DEF MirrorInv, Listing
    <3>8. Mirror!Desc(i) \in TagDescs(i.tag)
      BY DEF TagDescs
    <3>9. Mirror!Desc(i) \in list /\ list \subseteq TagDescs(i.tag)
      BY <3>1, <3>7, <3>8 DEF Mirror!UpsertManifest
    <3>10. old \subseteq list
      <4> SUFFICES ASSUME NEW d \in old, d \notin list PROVE FALSE
        OBVIOUS
      <4>1. d.digest = Mirror!Desc(i).digest \/ d.platform = Mirror!Desc(i).platform
        BY <3>1 DEF Mirror!UpsertManifest
      <4>2. d = Mirror!Desc(i)
        BY <3>6, <3>7, <3>8, <4>1, DescsApart DEF Listing
      <4> QED
        BY <3>9, <4>2
    <3>11. JobStage(i)'
      <4>1. jobs'[i].at = "readIndex" /\ jobs'[i].n = 1 /\ jobs'[i].list = list
        BY <3>1, <3>3, <3>5, <3>6
      <4>2. HasBlobs(i)' /\ index' = index
        BY <1>1, <1>2 DEF HasBlobs
      <4> QED
        BY <3>1, <3>9, <3>10, <4>1, <4>2 DEF JobStage, HasRead
    <3> QED
      BY <3>3, <3>4, <3>11
  <2>3. CASE index # Mirror!Torn /\ Mirror!ReadIndex(i)
    <3>1. PICK r, es, view : /\ r = jobs[i] /\ es = Mirror!Writes(i, r.list)[r.n]
                             /\ view = Mirror!UpsertAll(index, es)
      OBVIOUS
    <3>2. PICK new : new = [r EXCEPT !.at = "torn", !.view = view]
      OBVIOUS
    <3>3. new.at = "torn" /\ new.n = r.n /\ new.list = r.list /\ new.view = view
      BY <1>2, <3>1, <3>2 DEF JobRecords
    <3>4. jobs' = [jobs EXCEPT ![i] = new]
      BY <2>3, <3>1, <3>2 DEF Mirror!ReadIndex
    <3>5. jobs'[i] = new
      BY <3>4 DEF MirrorInv, MirrorTypes
    <3>6. /\ Listing(i) => /\ Mirror!Desc(i) \in r.list /\ r.list \subseteq TagDescs(i.tag)
                           /\ Mirror!TagList(index, i.tag) \subseteq r.list
          /\ r.n = 2 => HasDigest(index, i)
      BY <2>3, <3>1 DEF MirrorInv, JobStage, HasRead, Mirror!ReadIndex, Mirror!At
    <3>7. /\ Legit(es)
          /\ \A e \in es : IsList(e) => Mirror!TagList(index, e.ref) \subseteq e.of
      BY <1>2, <3>1, <3>6, WritesLegit
    <3>8. Legit(view) /\ Keeps(index, view) /\ es \subseteq view
      BY <2>3, <3>1, <3>7, UpsertKeeps DEF MirrorInv
    <3>9. r.n = 2 => HasDigest(view, i)
      BY <3>6, <3>8 DEF Keeps
    <3>10. JobStage(i)'
      <4>1. /\ jobs'[i].at = "torn" /\ jobs'[i].n = r.n /\ jobs'[i].list = r.list
            /\ jobs'[i].view = view
        BY <3>3, <3>5
      <4>2. HasBlobs(i)' /\ index' = index
        BY <1>1, <1>2 DEF HasBlobs
      <4>3. GoodView(i)'
        BY <3>1, <3>6, <3>8, <3>9, <4>1 DEF GoodView, HasRead, Legit, HasDigest
      <4> QED
        BY <2>3, <3>8, <4>1, <4>2, <4>3 DEF JobStage
    <3> QED
      BY <3>3, <3>4, <3>10
  <2> QED
    BY <2>1, <2>2, <2>3
<1>4. jobs'[i] = new
  BY <1>3 DEF MirrorInv, MirrorTypes
<1>5. GoesOn(i, new)
  <2>1. index' # Mirror!Torn => Legit(index')
    BY <1>1 DEF MirrorInv
  <2> QED
    BY <1>1, <1>3, <2>1 DEF GoesOn, Mirror!HasRepo
<1>6. \A j \in Images : Kept(j) => Kept(j)'
  BY <1>1, <1>3, <1>5, OthersKept
<1>7. ~Settled(i)'
  BY <1>3, <1>4 DEF Settled
<1> QED
  BY <1>1, <1>3, <1>5, <1>6, <1>7, OneGoesOn

\* A goroutine truncates index.json: what it has read is all there is to keep.
LEMMA TruncateStep ==
    ASSUME MirrorInv, MirrorTypes', NEW i \in Images, Mirror!TruncateIndex(i)
    PROVE  MirrorInv'
<1>1. /\ jobs[i].at = "torn" /\ index' = Mirror!Torn /\ Mirror!Goto(i, "write")
      /\ UNCHANGED <<blobs, session, failed, sessions>>
  BY DEF Mirror!TruncateIndex, Mirror!At
<1>2. jobs[i].at \in JobStages /\ "write" \in JobStages
  BY <1>1 DEF JobStages
<1>3. PICK new \in JobRecords :
        /\ new.at = "write" /\ new.n = jobs[i].n /\ new.list = jobs[i].list
        /\ new.view = jobs[i].view /\ jobs' = [jobs EXCEPT ![i] = new]
  BY <1>1, <1>2, JobGoes DEF MirrorInv
<1>4. jobs'[i] = new /\ \A j \in Images : j # i => jobs'[j] = jobs[j]
  BY <1>3 DEF MirrorInv, MirrorTypes
<1>5. GoesOn(i, new)
  BY <1>1, <1>3 DEF GoesOn, Mirror!HasRepo
<1>6. /\ index # Mirror!Torn /\ GoodView(i) /\ HasBlobs(i)
      /\ Keeps(index, jobs[i].view)
  BY <1>1 DEF MirrorInv, JobStage
<1>7. JobStage(i)'
  <2>1. HasBlobs(i)'
    BY <1>1, <1>6 DEF HasBlobs
  <2>2. GoodView(i)'
    BY <1>3, <1>4, <1>6 DEF GoodView, HasRead, Legit, HasDigest
  <2> QED
    BY <1>1, <1>3, <1>4, <2>1, <2>2 DEF JobStage
<1>8. ASSUME NEW j \in Images, Kept(j) PROVE Kept(j)'
  <2>1. HasBlobs(j)'
    BY <1>1, <1>8 DEF Kept, HasBlobs
  <2>2. ASSUME NEW k \in Images, jobs'[k].at = "write" PROVE Listed(jobs'[k].view, j)
    <3>1. k = i
      BY <1>1, <1>4, <2>2 DEF MirrorInv, Mirror!HasRepo
    <3>2. Listed(jobs[i].view, j)
      BY <1>6, <1>8, KeepsListed DEF Kept
    <3> QED
      BY <1>3, <1>4, <3>1, <3>2
  <2> QED
    BY <1>1, <2>1, <2>2 DEF Kept, Listed, HasDigest
<1>9. ~Settled(i)'
  BY <1>3, <1>4 DEF Settled
<1> QED
  BY <1>1, <1>5, <1>7, <1>8, <1>9, OneGoesOn

\* A goroutine writes index.json: after the last time its image is listed.
LEMMA WriteStepKeeps ==
    ASSUME MirrorInv, MirrorTypes', NEW i \in Images, Mirror!WriteIndex(i)
    PROVE  MirrorInv'
<1>1. /\ jobs[i].at = "write" /\ index' = jobs[i].view
      /\ UNCHANGED <<blobs, session, failed, sessions>>
  BY DEF Mirror!WriteIndex, Mirror!At
<1>2. jobs[i] \in JobRecords /\ jobs[i].n \in 1..Rewrites(i)
  BY <1>1 DEF MirrorInv, MirrorTypes, JobOf, Busy, JobStages, Mirror!NoJob
<1>3. GoodView(i) /\ HasBlobs(i) /\ index = Mirror!Torn
  BY <1>1 DEF MirrorInv, JobStage
<1>4. jobs[i].list \in SUBSET MirrorDescs
  BY <1>2 DEF JobRecords
<1>5. PICK r, n, label :
        /\ r = jobs[i] /\ n = r.n + 1
        /\ label = IF r.n < Rewrites(i) THEN "readIndex" ELSE "release"
  OBVIOUS
<1>6. PICK new : new = [r EXCEPT !.n = n, !.at = label]
  OBVIOUS
<1>7. new.at = label /\ new.n = n /\ new.list = r.list /\ new.view = r.view
  BY <1>2, <1>5, <1>6 DEF JobRecords
<1>8. jobs' = [jobs EXCEPT ![i] = new]
  BY <1>4, <1>5, <1>6, WritesAre DEF Mirror!WriteIndex
<1>9. jobs'[i] = new /\ \A j \in Images : j # i => jobs'[j] = jobs[j]
  BY <1>8 DEF MirrorInv, MirrorTypes
<1>10. index' # Mirror!Torn /\ Legit(index')
  BY <1>1, <1>3, LegitIsNotTorn DEF GoodView
<1>11. GoesOn(i, new)
  BY <1>1, <1>5, <1>7, <1>8, <1>10 DEF GoesOn, Mirror!HasRepo
<1>12. HasBlobs(i)'
  BY <1>1, <1>3 DEF HasBlobs
<1>13. JobStage(i)'
  <2>1. CASE label = "release"
    BY <1>7, <1>9, <2>1 DEF JobStage
  <2>2. CASE label # "release"
    <3>1. label = "readIndex" /\ Mirror!Pinned(i) /\ r.n < Rewrites(i)
      BY <1>2, <1>5, <2>2 DEF Rewrites
    <3>2. Mirror!Untagged(i) \in jobs[i].view
      BY <1>2, <1>3, <1>5, <3>1, WritesLegit DEF GoodView, HasRead
    <3>3. HasDigest(index', i)
      BY <1>1, <3>2 DEF HasDigest, Mirror!Untagged
    <3>4. ~Listing(i)
      BY <3>1 DEF Listing
    <3> QED
      BY <1>7, <1>9, <1>12, <3>1, <3>3, <3>4 DEF JobStage, HasRead, HasDigest
  <2> QED
    BY <2>1, <2>2
<1>14. \A k \in Images : jobs'[k].at # "write"
  <2>1. ASSUME NEW k \in Images, k # i PROVE jobs[k].at # "write"
    BY <1>1, <2>1 DEF MirrorInv, Mirror!HasRepo
  <2>2. jobs'[i].at # "write"
    BY <1>5, <1>7, <1>9
  <2> QED
    BY <1>9, <2>1, <2>2
<1>15. ASSUME NEW j \in Images, HasBlobs(j), Listed(jobs[i].view, j) PROVE Kept(j)'
  <2>1. HasBlobs(j)'
    BY <1>1, <1>15 DEF HasBlobs
  <2>2. Listed(index', j)
    BY <1>1, <1>15
  <2> QED
    BY <1>14, <2>1, <2>2 DEF Kept, Listed, HasDigest
<1>16. \A j \in Images : Kept(j) => Kept(j)'
  BY <1>1, <1>15 DEF Kept
<1>17. Settled(i)' => Kept(i)'
  <2> SUFFICES ASSUME Settled(i)' PROVE Kept(i)'
    OBVIOUS
  <2>1. label = "release"
    BY <1>5, <1>7, <1>9 DEF Settled
  <2>2. jobs[i].n = Rewrites(i)
    <3>1. Rewrites(i) \in Nat /\ ~(jobs[i].n < Rewrites(i))
      BY <1>5, <2>1 DEF Rewrites
    <3> QED
      BY <1>2, <3>1
  <2>3. Listed(jobs[i].view, i)
    BY <1>3, <2>2, WrittenIsListed DEF GoodView
  <2> QED
    BY <1>3, <1>15, <2>3
<1> QED
  BY <1>1, <1>11, <1>13, <1>16, <1>17, OneGoesOn

\* A kit has one list for each tag, and one index.
LEMMA KitsAreOrderly ==
    ASSUME NEW kit \in SUBSET Images, NEW d \in Mirror!KitEntries(kit),
           NEW e \in Mirror!KitEntries(kit), d.ref = e.ref, d.ref # NoTag
    PROVE  d = e
<1> DEFINE descs(tag) ==
      {Mirror!Desc(j) : j \in {k \in kit : k.tag = tag /\ ~Mirror!Pinned(k)}}
<1>1. ASSUME NEW x \in Mirror!KitEntries(kit), x.ref # NoTag
      PROVE  \/ \E i \in kit : Mirror!Pinned(i) /\ x = Mirror!ChartEntry(i) /\ x.ref = i.tag
             \/ \E i \in kit : ~Mirror!Pinned(i) /\ x = Mirror!ListEntry(i.tag, descs(i.tag))
                              /\ x.ref = i.tag
  BY <1>1 DEF Mirror!KitEntries, Mirror!Untagged, Mirror!ChartEntry, Mirror!ListEntry
<1> HIDE DEF descs
<1>2. PICK i \in kit : /\ d.ref = i.tag
                       /\ Mirror!Pinned(i) => d = Mirror!ChartEntry(i)
                       /\ ~Mirror!Pinned(i) => d = Mirror!ListEntry(i.tag, descs(i.tag))
  BY <1>1
<1>3. PICK j \in kit : /\ e.ref = j.tag
                       /\ Mirror!Pinned(j) => e = Mirror!ChartEntry(j)
                       /\ ~Mirror!Pinned(j) => e = Mirror!ListEntry(j.tag, descs(j.tag))
  BY <1>1
<1>4. i.tag = j.tag /\ i.tag # NoTag
  BY <1>2, <1>3
<1>5. (Mirror!Pinned(i) <=> Mirror!Pinned(j)) /\ (Mirror!Pinned(i) => i.chart = j.chart)
  BY <1>4, ImagesApart
<1>6. CASE Mirror!Pinned(i)
  BY <1>2, <1>3, <1>4, <1>5, <1>6 DEF Mirror!ChartEntry
<1>7. CASE ~Mirror!Pinned(i)
  BY <1>2, <1>3, <1>4, <1>5, <1>7
<1> QED
  BY <1>6, <1>7

\* What a kit brings is legitimate, and what is merged with it stays listed.
LEMMA KitsKeep ==
    ASSUME NEW kit \in SUBSET Images, NEW old, Legit(old)
    PROVE  \A e \in Mirror!KitEntries(kit) :
             /\ \/ IsImage(Mirror!Merged(old, e)) \/ IsChart(Mirror!Merged(old, e))
                \/ IsList(Mirror!Merged(old, e))
             /\ Mirror!Merged(old, e).ref = e.ref
             /\ IsList(Mirror!Merged(old, e)) =>
                  Mirror!TagList(old, Mirror!Merged(old, e).ref)
                    \subseteq Mirror!Merged(old, e).of
<1> SUFFICES ASSUME NEW e \in Mirror!KitEntries(kit), NEW x, x = Mirror!Merged(old, e)
             PROVE  /\ IsImage(x) \/ IsChart(x) \/ IsList(x)
                    /\ x.ref = e.ref
                    /\ IsList(x) => Mirror!TagList(old, x.ref) \subseteq x.of
  OBVIOUS
<1>1. IsImage(e) \/ IsChart(e) \/ IsList(e)
  <2>1. CASE \E i \in kit : e = Mirror!Untagged(i)
    BY <2>1 DEF IsImage
  <2>2. CASE \E i \in kit : Mirror!Pinned(i) /\ e = Mirror!ChartEntry(i)
    BY <2>2 DEF IsChart
  <2> DEFINE descs(tag) ==
        {Mirror!Desc(j) : j \in {k \in kit : k.tag = tag /\ ~Mirror!Pinned(k)}}
  <2>3. CASE \E i \in kit : /\ i.tag # NoTag /\ ~Mirror!Pinned(i)
                            /\ e = Mirror!ListEntry(i.tag, descs(i.tag))
    <3>1. PICK i \in kit :
            i.tag # NoTag /\ ~Mirror!Pinned(i) /\ e = Mirror!ListEntry(i.tag, descs(i.tag))
      BY <2>3
    <3>2. descs(i.tag) \in SUBSET TagDescs(i.tag)
      BY DEF TagDescs
    <3> QED
      BY <3>1, <3>2 DEF IsList
  <2>4. \/ e \in {Mirror!Untagged(i) : i \in kit}
        \/ e \in {Mirror!ChartEntry(i) : i \in {j \in kit : Mirror!Pinned(j)}}
        \/ e \in {Mirror!ListEntry(i.tag, descs(i.tag)) :
                   i \in {j \in kit : j.tag # NoTag /\ ~Mirror!Pinned(j)}}
    BY DEF Mirror!KitEntries
  <2> HIDE DEF descs
  <2> QED
    BY <2>1, <2>2, <2>3, <2>4
<1>2. CASE IsImage(e)
  <2>1. e.ref = NoTag /\ ~IsList(e)
    <3>1. e.ref = NoTag /\ e.kind = "image"
      BY <1>2 DEF IsImage, Mirror!Untagged
    <3>2. IsList(e) => e.kind = "list"
      BY DEF IsList, Mirror!ListEntry
    <3> QED
      BY <3>1, <3>2
  <2>2. x = e
    BY <2>1 DEF Mirror!Merged
  <2> QED
    BY <1>2, <2>1, <2>2
<1>3. CASE IsChart(e)
  <2>1. PICK i \in Images : Mirror!Pinned(i) /\ e = Mirror!ChartEntry(i)
    BY <1>3 DEF IsChart
  <2>2. e.ref = i.tag /\ i.tag # NoTag /\ ~IsList(e)
    BY <2>1, ImagesApart DEF IsList, Mirror!ChartEntry, Mirror!ListEntry
  <2>3. \A y \in old : y.ref = e.ref => y = e
    BY <2>1, <2>2, TagsApart
  <2>4. x = e
    BY <2>3 DEF Mirror!Merged
  <2> QED
    BY <1>3, <2>2, <2>4
<1>4. CASE IsList(e)
  <2>1. PICK i \in Images :
          /\ ~Mirror!Pinned(i) /\ i.tag # NoTag /\ e.ref = i.tag
          /\ e.of \subseteq TagDescs(i.tag) /\ e = Mirror!ListEntry(i.tag, e.of)
    BY <1>4 DEF IsList, Mirror!ListEntry
  <2>2. PICK a : a = Mirror!TagList(old, i.tag)
    OBVIOUS
  <2>3. a \subseteq TagDescs(i.tag)
    BY <2>1, <2>2, ListedDescs
  <2>4. CASE x = e /\ ~\E y \in old : y.ref = e.ref
    <3>1. a = {}
      BY <2>1, <2>2, <2>4 DEF Mirror!TagList
    <3> QED
      BY <1>4, <2>1, <2>2, <2>4, <3>1
  <2>5. CASE \E y \in old : y.ref = e.ref
    <3>1. PICK kept : kept = {c \in a : \A d \in e.of : c.digest # d.digest
                                                        /\ c.platform # d.platform}
      OBVIOUS
    <3>2. a \subseteq kept \cup e.of
      <4> SUFFICES ASSUME NEW c \in a, c \notin kept PROVE c \in e.of
        OBVIOUS
      <4>1. PICK d \in e.of : c.digest = d.digest \/ c.platform = d.platform
        BY <3>1
      <4>2. c = d
        BY <2>1, <2>3, <4>1, DescsApart
      <4> QED
        BY <4>2
    <3>3. x = IF \E y \in old : y = e THEN e ELSE Mirror!ListEntry(e.ref, kept \cup e.of)
      BY <2>1, <2>2, <2>5, <3>1 DEF Mirror!Merged
    <3>4. CASE e \in old
      <4>1. x = e
        BY <3>3, <3>4
      <4>2. \A y \in old : y.ref = i.tag => y = e
        BY <2>1, <3>4 DEF Legit
      <4>3. a \subseteq e.of
        BY <2>2, <4>2 DEF Mirror!TagList
      <4> QED
        BY <1>4, <2>1, <2>2, <4>1, <4>3
    <3>5. CASE e \notin old
      <4>1. x = Mirror!ListEntry(i.tag, kept \cup e.of)
        BY <2>1, <3>3, <3>5
      <4>2. kept \cup e.of \in SUBSET TagDescs(i.tag)
        BY <2>1, <2>3, <3>1
      <4>3. IsList(x) /\ x.ref = i.tag /\ x.of = kept \cup e.of
        BY <2>1, <4>1, <4>2 DEF IsList, Mirror!ListEntry
      <4> QED
        BY <2>1, <2>2, <3>2, <4>3
    <3> QED
      BY <3>4, <3>5
  <2> QED
    BY <2>1, <2>4, <2>5 DEF Mirror!Merged
<1> QED
  BY <1>1, <1>2, <1>3, <1>4

\* The index of a bundle is merged into that of the mirror.
LEMMA ImportKeepsListed ==
    ASSUME NEW kit \in SUBSET Images, NEW old, Legit(old), NEW es,
           es = {Mirror!Merged(old, e) : e \in Mirror!KitEntries(kit)}
    PROVE  Legit(Mirror!UpsertAll(old, es)) /\ Keeps(old, Mirror!UpsertAll(old, es))
<1>1. \A x \in es : IsImage(x) \/ IsChart(x) \/ IsList(x)
  BY KitsKeep
<1>2. \A x \in es : IsList(x) => Mirror!TagList(old, x.ref) \subseteq x.of
  BY KitsKeep
<1>3. ASSUME NEW x \in es, NEW y \in es, x.ref = y.ref, x.ref # NoTag PROVE x = y
  <2>1. PICK d \in Mirror!KitEntries(kit) : x = Mirror!Merged(old, d)
    OBVIOUS
  <2>2. PICK e \in Mirror!KitEntries(kit) : y = Mirror!Merged(old, e)
    OBVIOUS
  <2>3. d.ref = x.ref /\ e.ref = y.ref
    BY <2>1, <2>2, KitsKeep
  <2>4. d = e
    BY <1>3, <2>3, KitsAreOrderly
  <2> QED
    BY <2>1, <2>2, <2>4
<1>4. Legit(es)
  BY <1>1, <1>3 DEF Legit
<1> QED
  BY <1>2, <1>4, UpsertKeeps

\* Processes begin and end; a bundle is imported.
LEMMA SessionStep ==
    ASSUME MirrorInv, MirrorTypes',
           \/ \E wanted \in SUBSET Images : Mirror!StartDownload(wanted) \/ Mirror!StartImport(wanted)
           \/ \E i \in Images : Mirror!ImportBlobs(i)
           \/ Mirror!EndDownload \/ Mirror!ImportIndex \/ Mirror!Gone
    PROVE  MirrorInv'
<1> USE DEF MirrorInv
<1>1. ASSUME NEW wanted \in SUBSET Images, Mirror!StartDownload(wanted) PROVE MirrorInv'
  <2>1. /\ session.kind = "idle" /\ failed' = FALSE /\ UNCHANGED <<blobs, index>>
        /\ \A i \in Images : jobs[i].at \notin Mirror!HasRepo /\ jobs[i].at # "write"
    BY <1>1 DEF Mirror!StartDownload, Mirror!HasRepo
  <2>2. index' # Mirror!Torn => Legit(index)'
    BY <2>1 DEF Legit
  <2>3. CASE index = Mirror!Torn /\ wanted # {}
    <3>1. UNCHANGED <<session, jobs>>
      BY <1>1, <2>3 DEF Mirror!StartDownload
    <3>2. \A i \in Images : JobStage(i)'
      BY <2>1, <3>1 DEF JobStage, Mirror!HasRepo
    <3> QED
      BY <2>1, <2>2, <3>1, <3>2
  <2>4. CASE ~(index = Mirror!Torn /\ wanted # {})
    <3>1. PICK fresh : fresh = [at |-> "host", n |-> 1, list |-> {}, view |-> {}]
      OBVIOUS
    <3>2. session' = [kind |-> "download", wanted |-> wanted]
          /\ jobs' = [i \in Images |-> IF i \in wanted /\ ~Mirror!Cached(i) THEN fresh
                                       ELSE Mirror!NoJob]
      BY <1>1, <2>4, <3>1 DEF Mirror!StartDownload
    <3>3. \A i \in Images : /\ jobs'[i].at \in {"host", "none"}
                            /\ jobs'[i].at = "host" => jobs'[i].n = 1
                            /\ jobs'[i].at = "none" /\ i \in wanted => Mirror!Cached(i)
      BY <3>1, <3>2 DEF Mirror!NoJob
    <3>4. \A i \in Images : JobStage(i)' /\ jobs'[i].at \notin Mirror!HasRepo
      BY <3>3 DEF JobStage, Mirror!HasRepo
    <3>5. ASSUME NEW i \in wanted, Settled(i)' PROVE Kept(i)'
      <4>1. Mirror!Cached(i) /\ index # Mirror!Torn
        BY <2>4, <3>3, <3>5 DEF Settled
      <4>2. HasBlobs(i) /\ Listed(index, i)
        BY <2>1, <4>1, CachedIsListed
      <4>3. HasBlobs(i)' /\ Listed(index', i)
        BY <2>1, <4>2 DEF HasBlobs
      <4> QED
        BY <3>3, <4>3 DEF Kept, Listed, HasDigest
    <3>6. session'.kind = "download" /\ session'.wanted = wanted
      BY <3>2
    <3>7. ~(session'.wanted # {} /\ index' = Mirror!Torn)
      BY <2>1, <2>4, <3>6
    <3> QED
      BY <2>2, <3>4, <3>5, <3>6, <3>7
  <2> QED
    BY <2>3, <2>4
<1>2. ASSUME UNCHANGED <<index, jobs, failed>>, blobs \subseteq blobs',
             session.kind # "download", session'.kind \in {"idle", "import"}
      PROVE  MirrorInv'
  <2>1. \A i \in Images : jobs[i].at \in {"none", "gone"}
    BY <1>2
  <2>2. \A i \in Images : JobStage(i)' /\ jobs'[i].at \notin Mirror!HasRepo
    BY <1>2, <2>1 DEF JobStage, Mirror!HasRepo
  <2>3. index' # Mirror!Torn => Legit(index)'
    BY <1>2 DEF Legit
  <2> QED
    BY <1>2, <2>1, <2>2, <2>3
<1>3. ASSUME NEW kit \in SUBSET Images, Mirror!StartImport(kit) PROVE MirrorInv'
  <2>1. /\ UNCHANGED <<index, jobs, failed, blobs>> /\ session.kind = "idle"
        /\ session' = [kind |-> "import", kit |-> kit]
    BY <1>3 DEF Mirror!StartImport
  <2>2. session'.kind = "import"
    BY <2>1
  <2> QED
    BY <1>2, <2>1, <2>2
<1>4. ASSUME NEW i \in Images, Mirror!ImportBlobs(i) PROVE MirrorInv'
  <2>1. /\ UNCHANGED <<index, jobs, failed, session>> /\ session.kind = "import"
        /\ blobs \subseteq blobs'
    BY <1>4 DEF Mirror!ImportBlobs
  <2> QED
    BY <1>2, <2>1
<1>5. CASE Mirror!EndDownload
  <2>1. /\ session.kind = "download" /\ UNCHANGED <<blobs, index, jobs, failed, sessions>>
        /\ \A i \in Images : jobs[i].at \in {"none", "gone"}
        /\ session' = [session EXCEPT !.kind = IF failed THEN "idle" ELSE "marked"]
    BY <1>5 DEF Mirror!EndDownload
  <2>2. PICK wanted \in SUBSET Images : session = [kind |-> "download", wanted |-> wanted]
    BY <2>1 DEF MirrorTypes
  <2>3. session' = [kind |-> IF failed THEN "idle" ELSE "marked", wanted |-> wanted]
    BY <2>1, <2>2
  <2>4. /\ session'.kind \in {"idle", "marked"} /\ session'.wanted = wanted
        /\ session'.kind = "marked" => ~failed
    BY <2>3
  <2>5. \A i \in Images : JobStage(i)' /\ jobs'[i].at \notin Mirror!HasRepo
    BY <2>1 DEF JobStage, Mirror!HasRepo
  <2>6. index' # Mirror!Torn => Legit(index)'
    BY <2>1 DEF Legit
  <2>7. ASSUME NEW i \in wanted, ~failed PROVE Kept(i)' /\ index' # Mirror!Torn
    <3>1. Settled(i)
      BY <2>1, <2>7 DEF Settled
    <3>2. Kept(i)
      BY <2>1, <2>2, <3>1
    <3>3. index # Mirror!Torn
      BY <2>1, <2>2, <2>7
    <3> QED
      BY <2>1, <3>2, <3>3 DEF Kept, HasBlobs, Listed, HasDigest
  <2> QED
    BY <2>1, <2>4, <2>5, <2>6, <2>7
<1>6. CASE Mirror!ImportIndex
  <2>1. /\ session.kind = "import" /\ session' = [kind |-> "idle"]
        /\ UNCHANGED <<blobs, jobs, failed, sessions>>
    BY <1>6 DEF Mirror!ImportIndex
  <2>2. CASE index = Mirror!Torn
    <3>1. index' = index /\ session'.kind = "idle"
      BY <1>6, <2>1, <2>2 DEF Mirror!ImportIndex
    <3> QED
      BY <1>2, <2>1, <3>1
  <2>3. CASE index # Mirror!Torn
    <3>1. PICK es : es = {Mirror!Merged(index, e) : e \in Mirror!KitEntries(session.kit)}
      OBVIOUS
    <3>2. index' = Mirror!UpsertAll(index, es)
      BY <1>6, <2>3, <3>1 DEF Mirror!ImportIndex
    <3>3. Legit(index')
      BY <2>1, <2>3, <3>1, <3>2, ImportKeepsListed DEF MirrorTypes
    <3>4. \A i \in Images : jobs[i].at \in {"none", "gone"}
      BY <2>1
    <3>5. \A i \in Images : JobStage(i)' /\ jobs'[i].at \notin Mirror!HasRepo
      BY <2>1, <3>4 DEF JobStage, Mirror!HasRepo
    <3>6. session'.kind = "idle" /\ Legit(index)'
      BY <2>1, <3>3 DEF Legit
    <3> QED
      BY <2>1, <3>4, <3>5, <3>6
  <2> QED
    BY <2>2, <2>3
<1>7. CASE Mirror!Gone
  <2>1. /\ session' = [kind |-> "idle"] /\ jobs' = [i \in Images |-> Mirror!NoJob]
        /\ UNCHANGED <<blobs, index>>
    BY <1>7 DEF Mirror!Gone
  <2>2. session'.kind = "idle" /\ \A i \in Images : jobs'[i].at = "none"
    BY <2>1 DEF Mirror!NoJob
  <2>3. \A i \in Images : JobStage(i)' /\ jobs'[i].at \notin Mirror!HasRepo
    BY <2>2 DEF JobStage, Mirror!HasRepo
  <2>4. index' # Mirror!Torn => Legit(index)'
    BY <2>1 DEF Legit
  <2> QED
    BY <2>2, <2>3, <2>4
<1> QED
  BY <1>1, <1>3, <1>4, <1>5, <1>6, <1>7

\* No step breaks the invariant.
LEMMA MirrorStep == MirrorInv /\ [Mirror!Next]_mirrorVars => MirrorInv'
<1> SUFFICES ASSUME MirrorInv, [Mirror!Next]_mirrorVars PROVE MirrorInv'
  OBVIOUS
<1>1. MirrorTypes'
  BY MirrorTypesStep DEF MirrorInv
<1>2. CASE UNCHANGED mirrorVars
  <2>1. /\ index' # Mirror!Torn => Legit(index)'
        /\ \A i \in Images : (JobStage(i)' <=> JobStage(i)) /\ (Kept(i)' <=> Kept(i))
                             /\ (Settled(i)' <=> Settled(i))
    BY <1>2 DEF mirrorVars, MirrorInv, Legit, JobStage, HasBlobs, HasRead, GoodView, Keeps, Kept,
       Listed, HasDigest, Settled
  <2> QED
    BY <1>1, <1>2, <2>1 DEF mirrorVars, MirrorInv, MirrorTypes
<1>3. CASE Mirror!Next
  BY <1>1, <1>3, WaitStep, FetchStep, ReadStepKeeps, TruncateStep, WriteStepKeeps, SessionStep
     DEF Mirror!Next, Mirror!Step
<1> QED
  BY <1>2, <1>3

\* Every image that a download has marked is cached then.
LEMMA MirrorEnough == MirrorInv => Mirror!MarkedIsCached
<1> SUFFICES ASSUME MirrorInv, session.kind = "marked", NEW i \in session.wanted
             PROVE  Mirror!Cached(i)
  BY DEF Mirror!MarkedIsCached
<1>1. i \in Images /\ index # Mirror!Torn /\ Legit(index) /\ HasBlobs(i) /\ Listed(index, i)
  BY DEF MirrorInv, MirrorTypes, Kept
<1> QED
  BY <1>1, CachedIsListed

\* An import takes no image away.
LEMMA ImportTakesNothing ==
    ASSUME MirrorInv, MirrorInv', [Mirror!Next]_mirrorVars, session.kind = "import",
           NEW i \in Images, Mirror!Cached(i)
    PROVE  Mirror!Cached(i)'
<1>1. index # Mirror!Torn /\ Legit(index)
  BY DEF MirrorInv, Mirror!Cached
<1>2. HasBlobs(i) /\ Listed(index, i)
  BY <1>1, CachedIsListed
<1>3. /\ \A j \in Images : jobs[j].at \in {"none", "gone"}
      /\ session.kit \in SUBSET Images
  BY DEF MirrorInv, MirrorTypes
<1>4. blobs \subseteq blobs' /\ (index' = index \/ Mirror!ImportIndex)
  <2>1. CASE \E j \in Images : Mirror!Step(j)
    BY <1>3, <2>1 DEF Mirror!Step, Mirror!AcquireHost, Mirror!AcquireSlot, Mirror!LockRepo,
       Mirror!Fetch, Mirror!ReadTag, Mirror!ReadIndex, Mirror!TruncateIndex, Mirror!WriteIndex,
       Mirror!Release, Mirror!At
  <2>2. CASE \E wanted \in SUBSET Images : Mirror!StartDownload(wanted) \/ Mirror!StartImport(wanted)
    BY <2>2 DEF Mirror!StartDownload, Mirror!StartImport
  <2>3. CASE \/ \E j \in Images : Mirror!ImportBlobs(j)
             \/ Mirror!EndDownload \/ Mirror!ImportIndex \/ Mirror!Gone \/ UNCHANGED mirrorVars
    BY <2>3 DEF Mirror!ImportBlobs, Mirror!EndDownload, Mirror!ImportIndex, Mirror!Gone, mirrorVars
  <2> QED
    BY <2>1, <2>2, <2>3 DEF Mirror!Next
<1>5. Legit(index') /\ Listed(index', i)
  <2>1. CASE index' = index
    BY <1>1, <1>2, <2>1
  <2>2. CASE Mirror!ImportIndex
    <3>1. PICK es : es = {Mirror!Merged(index, e) : e \in Mirror!KitEntries(session.kit)}
      OBVIOUS
    <3>2. index' = Mirror!UpsertAll(index, es)
      BY <1>1, <2>2, <3>1 DEF Mirror!ImportIndex
    <3>3. Legit(index') /\ Keeps(index, index')
      BY <1>1, <1>3, <3>1, <3>2, ImportKeepsListed
    <3> QED
      BY <1>2, <3>3, KeepsListed
  <2> QED
    BY <1>4, <2>1, <2>2
<1>6. HasBlobs(i)'
  BY <1>2, <1>4 DEF HasBlobs
<1>7. /\ index' # Mirror!Torn
      /\ \A d \in Mirror!TagList(index', i.tag) :
           i.tag # NoTag /\ d.platform = i.platform => d.digest = i.digest
  BY <1>5, LegitIsNotTorn, ListedDescs
<1> QED
  BY <1>5, <1>6, <1>7 DEF Mirror!Cached, HasBlobs, Listed, HasDigest, Mirror!TagList

\* For any images that keep apart, any limits and any number of processes that
\* are killed or fail anywhere: what a download has marked is cached, and no
\* import takes an image away (components_zot.go, import.go).
THEOREM ImagesAreKept == Mirror!Spec => ImagesKept
<1>1. MirrorInv /\ [Mirror!Next]_Mirror!mvars => MirrorInv'
  BY MirrorStep DEF Mirror!mvars, mirrorVars
<1>2. MirrorInv /\ MirrorInv' /\ [Mirror!Next]_Mirror!mvars =>
        [session.kind = "import" =>
           \A i \in Images :
              Mirror!Cached(i) /\ (\A j \in session.kit : j.tag = i.tag /\ j.tag # NoTag
                                      /\ j.platform = i.platform => j.digest = i.digest)
                => Mirror!Cached(i)']_Mirror!mvars
  BY ImportTakesNothing DEF Mirror!mvars, mirrorVars
<1> QED
  BY <1>1, <1>2, MirrorBegins, MirrorEnough, PTL
     DEF Mirror!Spec, ImagesKept, Mirror!ImagesKept, Mirror!ImportKeeps

(***************************************************************************)
(* ArtifactCache.  A run that nothing disturbs has the path, its temporary *)
(* file and the retained copy to itself.                                   *)
(***************************************************************************)

\* What an inode, or a retained download, may hold.
FileRecords == [digest : Digests \cup {"none"}, complete : BOOLEAN]
FetchStages ==
    {"check", "restore", "retain", "create", "write", "rename", "cleanUp",
     "giveUp", "ok", "failed"}
FetcherRecords == [at : FetchStages, want : Digests, node : 1..MaxFetches]

\* Its own artifact, complete.
Served(f, file) == file = Artifact!File(Artifact!Want(f), TRUE)

ArtifactTypes ==
    /\ inode \in [Artifact!Inodes -> FileRecords]
    /\ inode[Artifact!NoInode] = Artifact!NoFile
    /\ dest \in Artifact!Inodes /\ tmp \in Artifact!Inodes
    /\ stored \in [Digests -> FileRecords]
    /\ DOMAIN fetcher = Fetchers
    /\ \A f \in Fetchers :
         Artifact!At(f, "resting") \/ fetcher[f] \in FetcherRecords
    /\ fetches \in 0..MaxFetches
    /\ disturbed \in [Fetchers -> BOOLEAN]

\* Those who run together have disturbed each other.
Together ==
    \A f, g \in Fetchers :
        f # g /\ ~Artifact!At(f, "resting") /\ ~Artifact!At(g, "resting") =>
            disturbed[f]

\* How far a run that nothing disturbs has come.
Progress(f) ==
    /\ Artifact!At(f, "restore") => Served(f, stored[Artifact!Want(f)])
    /\ Artifact!At(f, "write") =>
         /\ tmp = Artifact!Mine(f)
         /\ inode[tmp] = Artifact!File(Artifact!Want(f), FALSE)
    /\ Artifact!At(f, "rename") =>
         tmp = Artifact!Mine(f) /\ Served(f, inode[tmp])
    /\ Artifact!At(f, "cleanUp") \/ Artifact!At(f, "retain") => Served(f, inode[dest])
    /\ Artifact!At(f, "ok") =>
         Served(f, inode[dest]) /\ Served(f, stored[Artifact!Want(f)])

ArtifactInv ==
    /\ ArtifactTypes /\ Together
    /\ \A f \in Fetchers : ~disturbed[f] => Progress(f)

\* Nothing runs yet.
LEMMA ArtifactInitially == Artifact!Init => ArtifactInv
<1> SUFFICES ASSUME Artifact!Init PROVE ArtifactInv
  OBVIOUS
<1> USE DEF Artifact!Init, Artifact!At, Artifact!Resting
<1>1. ArtifactTypes
  BY OperationsAssumption
     DEF ArtifactTypes, FileRecords, Artifact!Inodes, Artifact!NoInode, Artifact!NoFile
<1>2. \A f \in Fetchers : Artifact!At(f, "resting")
  OBVIOUS
<1> QED
  BY <1>1, <1>2 DEF ArtifactInv, Together, Progress

\* One command moves: it is the only one that is not at rest, or is disturbed.
LEMMA OneFetcherMoves ==
    ASSUME ArtifactInv, NEW f \in Fetchers, ~Artifact!At(f, "resting"),
           NEW new, fetcher' = [fetcher EXCEPT ![f] = new],
           new.at = "resting" \/ new \in FetcherRecords,
           UNCHANGED <<fetches, disturbed>>,
           inode' \in [Artifact!Inodes -> FileRecords],
           inode'[Artifact!NoInode] = Artifact!NoFile,
           dest' \in Artifact!Inodes, tmp' \in Artifact!Inodes,
           stored' \in [Digests -> FileRecords],
           ~disturbed[f] => Progress(f)'
    PROVE  ArtifactInv'
<1>1. fetcher'[f] = new /\ \A g \in Fetchers : g # f => fetcher'[g] = fetcher[g]
  BY DEF ArtifactInv, ArtifactTypes
<1>2. ArtifactTypes'
  BY <1>1 DEF ArtifactInv, ArtifactTypes, Artifact!At
<1>3. Together'
  BY <1>1 DEF ArtifactInv, ArtifactTypes, Together, Artifact!At
<1>4. ASSUME NEW g \in Fetchers, ~disturbed'[g] PROVE Progress(g)'
  <2>1. CASE g = f
    BY <1>4, <2>1
  <2>2. CASE g # f
    <3>1. Artifact!At(g, "resting")'
      BY <1>1, <1>4, <2>2 DEF ArtifactInv, Together, Artifact!At
    <3> QED
      BY <3>1 DEF Progress, Artifact!At
  <2> QED
    BY <2>1, <2>2
<1> QED
  BY <1>2, <1>3, <1>4 DEF ArtifactInv

\* A run starts: the others, if any, and it itself are disturbed.
LEMMA StartFetch ==
    ASSUME ArtifactInv, NEW f \in Fetchers, NEW d \in Digests, Artifact!Start(f, d)
    PROVE  ArtifactInv'
<1> USE DEF Artifact!At
<1>1. PICK new : new = [at |-> "check", want |-> d, node |-> fetches + 1]
  OBVIOUS
<1>2. /\ fetches' = fetches + 1 /\ fetches < MaxFetches /\ fetcher[f].at = "resting"
      /\ fetcher' = [fetcher EXCEPT ![f] = new]
      /\ disturbed' = [g \in Fetchers |->
            IF g = f THEN \E h \in Fetchers \ {f} : fetcher[h].at # "resting"
                     ELSE disturbed[g] \/ fetcher[g].at # "resting"]
      /\ UNCHANGED <<inode, dest, tmp, stored>>
  BY <1>1 DEF Artifact!Start
<1>3. new \in FetcherRecords /\ new.at = "check"
  BY <1>1, <1>2, OperationsAssumption DEF FetcherRecords, FetchStages, ArtifactInv, ArtifactTypes
<1>4. fetcher'[f] = new /\ \A g \in Fetchers : g # f => fetcher'[g] = fetcher[g]
  BY <1>2 DEF ArtifactInv, ArtifactTypes
<1>5. ArtifactTypes'
  <2>1. disturbed' \in [Fetchers -> BOOLEAN]
    BY <1>2
  <2>2. fetches' \in 0..MaxFetches
    BY <1>2, OperationsAssumption DEF ArtifactInv, ArtifactTypes
  <2>3. DOMAIN fetcher' = Fetchers
    BY <1>2 DEF ArtifactInv, ArtifactTypes
  <2>4. \A g \in Fetchers : fetcher'[g].at = "resting" \/ fetcher'[g] \in FetcherRecords
    BY <1>3, <1>4 DEF ArtifactInv, ArtifactTypes
  <2> QED
    BY <1>2, <2>1, <2>2, <2>3, <2>4 DEF ArtifactInv, ArtifactTypes, Artifact!Inodes, Artifact!NoInode,
       Artifact!NoFile
<1>6. Together'
  BY <1>2, <1>3, <1>4 DEF ArtifactInv, ArtifactTypes, Together
<1>7. ASSUME NEW g \in Fetchers, ~disturbed'[g] PROVE Progress(g)'
  <2>1. CASE g = f
    BY <1>3, <1>4, <2>1 DEF Progress
  <2>2. CASE g # f
    BY <1>2, <1>4, <1>7, <2>2 DEF Progress, ArtifactInv, ArtifactTypes
  <2> QED
    BY <2>1, <2>2
<1> QED
  BY <1>5, <1>6, <1>7 DEF ArtifactInv

\* Copies between the retained download and the path that is served.
LEMMA CopyArtifactSteps ==
    ASSUME ArtifactInv, NEW f \in Fetchers,
           \/ Artifact!Check(f) \/ Artifact!Restore(f) \/ Artifact!Retain(f)
    PROVE  ArtifactInv'
<1> USE DEF Artifact!At
<1>1. PICK a : a = fetcher[f]
  OBVIOUS
<1>2. /\ a.at \in {"check", "restore", "retain"} /\ UNCHANGED <<tmp, fetches, disturbed>>
      /\ \E at \in FetchStages : fetcher' = [fetcher EXCEPT ![f].at = at]
  BY <1>1 DEF Artifact!Check, Artifact!Restore, Artifact!Retain, Artifact!Goto, FetchStages
<1>3. a \in FetcherRecords /\ a.want \in Digests /\ a.node \in 1..MaxFetches
  BY <1>1, <1>2 DEF ArtifactInv, ArtifactTypes, FetcherRecords
<1>4. PICK at \in FetchStages : fetcher' = [fetcher EXCEPT ![f].at = at]
  BY <1>2
<1>5. PICK new : new = [a EXCEPT !.at = at]
  OBVIOUS
<1>6. new \in FetcherRecords /\ new.at = at /\ new.want = a.want /\ new.node = a.node
  BY <1>3, <1>5 DEF FetcherRecords
<1>7. fetcher' = [fetcher EXCEPT ![f] = new] /\ fetcher'[f] = new
  BY <1>1, <1>4, <1>5 DEF ArtifactInv, ArtifactTypes
<1>8. a.node \in Artifact!Inodes /\ a.node # Artifact!NoInode
  BY <1>3, OperationsAssumption DEF Artifact!Inodes, Artifact!NoInode
<1>9. ~disturbed[f] => Progress(f)
  BY DEF ArtifactInv
<1>10. /\ inode \in [Artifact!Inodes -> FileRecords] /\ dest \in Artifact!Inodes
       /\ stored \in [Digests -> FileRecords] /\ tmp \in Artifact!Inodes
       /\ inode[Artifact!NoInode] = Artifact!NoFile
  BY DEF ArtifactInv, ArtifactTypes
<1>11. CASE Artifact!Check(f)
  <2>1. UNCHANGED <<inode, dest, stored>> /\ at = new.at
    BY <1>6, <1>11 DEF Artifact!Check
  <2>2. /\ at = "restore" => stored[a.want] = Artifact!File(a.want, TRUE)
        /\ at = "retain" => inode[dest] = Artifact!File(a.want, TRUE)
        /\ at = "ok" => /\ stored[a.want] = Artifact!File(a.want, TRUE)
                       /\ inode[dest] = Artifact!File(a.want, TRUE)
        /\ at \in {"restore", "retain", "ok", "create"}
    <3>1. Artifact!Goto(f, CASE Artifact!IsDigest(stored[a.want], a.want)
                                  /\ Artifact!IsDigest(inode[dest], a.want) -> "ok"
                            [] Artifact!IsDigest(stored[a.want], a.want)
                                  /\ ~Artifact!IsDigest(inode[dest], a.want) -> "restore"
                            [] ~Artifact!IsDigest(stored[a.want], a.want)
                                  /\ Artifact!IsDigest(inode[dest], a.want) -> "retain"
                            [] OTHER -> "create")
      BY <1>1, <1>11 DEF Artifact!Check, Artifact!Want
    <3>2. at = CASE Artifact!IsDigest(stored[a.want], a.want)
                                  /\ Artifact!IsDigest(inode[dest], a.want) -> "ok"
                            [] Artifact!IsDigest(stored[a.want], a.want)
                                  /\ ~Artifact!IsDigest(inode[dest], a.want) -> "restore"
                            [] ~Artifact!IsDigest(stored[a.want], a.want)
                                  /\ Artifact!IsDigest(inode[dest], a.want) -> "retain"
                            [] OTHER -> "create"
      <4>1. fetcher'[f].at = at
        BY <1>6, <1>7
      <4>2. f \in DOMAIN fetcher /\ "at" \in DOMAIN fetcher[f]
        BY <1>1, <1>3 DEF ArtifactInv, ArtifactTypes, FetcherRecords
      <4> QED
        BY <3>1, <4>1, <4>2 DEF Artifact!Goto
    <3> QED
      BY <3>2 DEF Artifact!IsDigest
  <2>3. Progress(f)'
    BY <1>1, <1>6, <1>7, <2>1, <2>2 DEF Progress, Served, Artifact!Want, Artifact!Mine
  <2> QED
    BY <1>1, <1>2, <1>6, <1>7, <1>10, <2>1, <2>3, OneFetcherMoves
<1>12. CASE Artifact!Restore(f)
  <2>1. UNCHANGED <<stored>> /\ a.at = "restore"
    BY <1>1, <1>12 DEF Artifact!Restore
  <2>2. CASE inode' = [inode EXCEPT ![a.node] = stored[a.want]] /\ dest' = a.node
             /\ Artifact!Goto(f, "ok")
    <3>1. at = "ok"
      BY <1>1, <1>3, <1>6, <1>7, <2>2 DEF Artifact!Goto, ArtifactInv, ArtifactTypes, FetcherRecords
    <3>2. inode' \in [Artifact!Inodes -> FileRecords] /\ inode'[Artifact!NoInode] = Artifact!NoFile
          /\ inode'[dest'] = stored[a.want]
      BY <1>3, <1>8, <1>10, <2>2
    <3>3. ~disturbed[f] => Progress(f)'
      BY <1>1, <1>6, <1>7, <1>9, <2>1, <3>1, <3>2 DEF Progress, Served, Artifact!Want
    <3> QED
      BY <1>1, <1>2, <1>6, <1>7, <1>8, <1>10, <2>1, <2>2, <3>2, <3>3, OneFetcherMoves
  <2>3. CASE Artifact!Goto(f, "failed") /\ UNCHANGED <<inode, dest>>
    <3>1. at = "failed"
      BY <1>1, <1>3, <1>6, <1>7, <2>3 DEF Artifact!Goto, ArtifactInv, ArtifactTypes, FetcherRecords
    <3>2. Progress(f)'
      BY <1>6, <1>7, <3>1 DEF Progress
    <3> QED
      BY <1>1, <1>2, <1>6, <1>7, <1>8, <1>10, <2>1, <2>3, <3>2, OneFetcherMoves
  <2> QED
    BY <1>1, <1>12, <2>2, <2>3 DEF Artifact!Restore, Artifact!Mine, Artifact!Want
<1>13. CASE Artifact!Retain(f)
  <2>1. UNCHANGED <<inode, dest>> /\ a.at = "retain"
    BY <1>1, <1>13 DEF Artifact!Retain
  <2>2. CASE stored' = [stored EXCEPT ![a.want] = inode[dest]] /\ Artifact!Goto(f, "ok")
    <3>1. at = "ok"
      BY <1>1, <1>3, <1>6, <1>7, <2>2 DEF Artifact!Goto, ArtifactInv, ArtifactTypes, FetcherRecords
    <3>2. stored' \in [Digests -> FileRecords] /\ stored'[a.want] = inode[dest]
      BY <1>3, <1>10, <2>2
    <3>3. ~disturbed[f] => Progress(f)'
      BY <1>1, <1>6, <1>7, <1>9, <2>1, <3>1, <3>2 DEF Progress, Served, Artifact!Want
    <3> QED
      BY <1>1, <1>2, <1>6, <1>7, <1>8, <1>10, <2>1, <3>2, <3>3, OneFetcherMoves
  <2>3. CASE Artifact!Goto(f, "failed") /\ UNCHANGED <<stored>>
    <3>1. at = "failed"
      BY <1>1, <1>3, <1>6, <1>7, <2>3 DEF Artifact!Goto, ArtifactInv, ArtifactTypes, FetcherRecords
    <3>2. Progress(f)'
      BY <1>6, <1>7, <3>1 DEF Progress
    <3> QED
      BY <1>1, <1>2, <1>6, <1>7, <1>8, <1>10, <2>1, <2>3, <3>2, OneFetcherMoves
  <2> QED
    BY <1>1, <1>13, <2>2, <2>3 DEF Artifact!Retain, Artifact!Want
<1> QED
  BY <1>11, <1>12, <1>13

\* A command goes on to another stage, for the same artifact.
LEMMA FetcherGoes ==
    ASSUME ArtifactInv, NEW f \in Fetchers, ~Artifact!At(f, "resting"),
           NEW at \in FetchStages, Artifact!Goto(f, at),
           UNCHANGED <<fetches, disturbed>>,
           inode' \in [Artifact!Inodes -> FileRecords],
           inode'[Artifact!NoInode] = Artifact!NoFile,
           dest' \in Artifact!Inodes, tmp' \in Artifact!Inodes,
           stored' \in [Digests -> FileRecords],
           ~disturbed[f] /\ Artifact!At(f, at)' /\ Artifact!Want(f)' = Artifact!Want(f)
             /\ Artifact!Mine(f)' = Artifact!Mine(f) => Progress(f)'
    PROVE  ArtifactInv'
<1>1. PICK a : a = fetcher[f]
  OBVIOUS
<1>2. a \in FetcherRecords
  BY <1>1 DEF ArtifactInv, ArtifactTypes, Artifact!At
<1>3. PICK new : new = [a EXCEPT !.at = at]
  OBVIOUS
<1>4. new \in FetcherRecords /\ new.at = at /\ new.want = a.want /\ new.node = a.node
  BY <1>2, <1>3 DEF FetcherRecords
<1>5. fetcher' = [fetcher EXCEPT ![f] = new] /\ fetcher'[f] = new
  BY <1>1, <1>3 DEF ArtifactInv, ArtifactTypes, Artifact!Goto
<1>6. ~disturbed[f] => Progress(f)'
  BY <1>1, <1>4, <1>5 DEF Artifact!At, Artifact!Want, Artifact!Mine
<1> QED
  BY <1>4, <1>5, <1>6, OneFetcherMoves

\* What a command wants, and the inode that it writes.
LEMMA FetcherIs ==
    ASSUME ArtifactInv, NEW f \in Fetchers, ~Artifact!At(f, "resting")
    PROVE  /\ Artifact!Want(f) \in Digests
           /\ Artifact!Mine(f) \in Artifact!Inodes
           /\ Artifact!Mine(f) # Artifact!NoInode
           /\ \A c \in BOOLEAN : Artifact!File(Artifact!Want(f), c) \in FileRecords
BY OperationsAssumption
   DEF ArtifactInv, ArtifactTypes, FetcherRecords, Artifact!At, Artifact!Want, Artifact!Mine,
       Artifact!Inodes, Artifact!NoInode, Artifact!File, FileRecords

\* A download to the temporary name, and its renaming.
LEMMA DownloadSteps ==
    ASSUME ArtifactInv, NEW f \in Fetchers,
           \/ Artifact!Create(f) \/ Artifact!Write(f) \/ Artifact!Rename(f) \/ Artifact!CleanUp(f)
    PROVE  ArtifactInv'
<1>1. /\ inode \in [Artifact!Inodes -> FileRecords] /\ dest \in Artifact!Inodes
      /\ stored \in [Digests -> FileRecords] /\ tmp \in Artifact!Inodes
      /\ inode[Artifact!NoInode] = Artifact!NoFile /\ Artifact!NoInode \in Artifact!Inodes
      /\ ~disturbed[f] => Progress(f)
  BY OperationsAssumption DEF ArtifactInv, ArtifactTypes, Artifact!Inodes, Artifact!NoInode
<1>2. ~Artifact!At(f, "resting") /\ UNCHANGED <<fetches, disturbed, stored>>
  BY DEF Artifact!At, Artifact!Create, Artifact!Write, Artifact!Rename, Artifact!CleanUp
<1>3. /\ Artifact!Want(f) \in Digests /\ Artifact!Mine(f) \in Artifact!Inodes
      /\ Artifact!Mine(f) # Artifact!NoInode
      /\ \A c \in BOOLEAN : Artifact!File(Artifact!Want(f), c) \in FileRecords
  BY <1>2, FetcherIs
<1>4. CASE Artifact!Create(f)
  <2>1. /\ tmp' = Artifact!Mine(f) /\ Artifact!Goto(f, "write") /\ UNCHANGED dest
        /\ inode' = [inode EXCEPT ![Artifact!Mine(f)] = Artifact!File(Artifact!Want(f), FALSE)]
    BY <1>4 DEF Artifact!Create
  <2>2. /\ inode' \in [Artifact!Inodes -> FileRecords]
        /\ inode'[Artifact!NoInode] = Artifact!NoFile
        /\ inode'[tmp'] = Artifact!File(Artifact!Want(f), FALSE)
    BY <1>1, <1>3, <2>1
  <2>3. Artifact!At(f, "write")' /\ Artifact!Want(f)' = Artifact!Want(f)
          /\ Artifact!Mine(f)' = Artifact!Mine(f) => Progress(f)'
    BY <2>1, <2>2 DEF Progress, Artifact!At, Artifact!File
  <2> QED
    BY <1>1, <1>2, <1>3, <2>1, <2>2, <2>3, FetcherGoes DEF FetchStages
<1>5. CASE Artifact!Write(f)
  <2>1. Artifact!At(f, "write") /\ UNCHANGED <<dest, tmp>>
    BY <1>5 DEF Artifact!Write
  <2>2. CASE inode' = [inode EXCEPT ![Artifact!Mine(f)].complete = TRUE] /\ Artifact!Goto(f, "rename")
    <3>1. PICK n, r : n = Artifact!Mine(f) /\ r = [inode[n] EXCEPT !.complete = TRUE]
      OBVIOUS
    <3>2. r \in FileRecords /\ r.digest = inode[n].digest /\ r.complete = TRUE
      BY <1>1, <1>3, <3>1 DEF FileRecords
    <3>3. inode' = [inode EXCEPT ![n] = r] /\ inode'[n] = r
      BY <1>1, <1>3, <2>2, <3>1
    <3>4. /\ inode' \in [Artifact!Inodes -> FileRecords]
          /\ inode'[Artifact!NoInode] = Artifact!NoFile
      BY <1>1, <1>3, <3>1, <3>2, <3>3
    <3>5. ~disturbed[f] => tmp = n /\ r = Artifact!File(Artifact!Want(f), TRUE)
      <4>1. SUFFICES ASSUME ~disturbed[f] PROVE tmp = n /\ r = Artifact!File(Artifact!Want(f), TRUE)
        OBVIOUS
      <4>2. tmp = n /\ inode[n] = Artifact!File(Artifact!Want(f), FALSE)
        BY <1>1, <2>1, <3>1, <4>1 DEF Progress
      <4>3. inode[n].digest = Artifact!Want(f)
        BY <4>2 DEF Artifact!File
      <4>4. r = [digest |-> r.digest, complete |-> r.complete]
        BY <3>2 DEF FileRecords
      <4> QED
        BY <3>2, <4>2, <4>3, <4>4 DEF Artifact!File
    <3>6. ~disturbed[f] /\ Artifact!At(f, "rename")' /\ Artifact!Want(f)' = Artifact!Want(f)
            /\ Artifact!Mine(f)' = Artifact!Mine(f) => Progress(f)'
      BY <2>1, <3>1, <3>3, <3>5 DEF Progress, Served, Artifact!At
    <3> QED
      BY <1>1, <1>2, <2>1, <2>2, <3>4, <3>6, FetcherGoes DEF FetchStages
  <2>3. CASE Artifact!Goto(f, "giveUp") /\ UNCHANGED inode
    <3>1. Artifact!At(f, "giveUp")' => Progress(f)'
      BY DEF Progress, Artifact!At
    <3> QED
      BY <1>1, <1>2, <2>1, <2>3, <3>1, FetcherGoes DEF FetchStages
  <2> QED
    BY <1>5, <2>2, <2>3 DEF Artifact!Write
<1>6. CASE Artifact!Rename(f)
  <2>1. Artifact!At(f, "rename") /\ UNCHANGED inode
    BY <1>6 DEF Artifact!Rename
  <2>2. CASE Artifact!Goto(f, "failed") /\ UNCHANGED <<dest, tmp>>
    <3>1. Artifact!At(f, "failed")' => Progress(f)'
      BY DEF Progress, Artifact!At
    <3> QED
      BY <1>1, <1>2, <2>1, <2>2, <3>1, FetcherGoes DEF FetchStages
  <2>3. CASE dest' = tmp /\ tmp' = Artifact!NoInode /\ Artifact!Goto(f, "cleanUp")
    <3>1. ~disturbed[f] /\ Artifact!At(f, "cleanUp")' /\ Artifact!Want(f)' = Artifact!Want(f)
            => Progress(f)'
      BY <1>1, <2>1, <2>3 DEF Progress, Served, Artifact!At
    <3> QED
      BY <1>1, <1>2, <2>1, <2>3, <3>1, FetcherGoes DEF FetchStages
  <2> QED
    BY <1>6, <2>2, <2>3 DEF Artifact!Rename
<1>7. CASE Artifact!CleanUp(f)
  <2>1. /\ tmp' = Artifact!NoInode /\ UNCHANGED <<inode, dest>>
        /\ \/ Artifact!At(f, "cleanUp") /\ Artifact!Goto(f, "retain")
           \/ Artifact!At(f, "giveUp") /\ Artifact!Goto(f, "failed")
    BY <1>7 DEF Artifact!CleanUp, Artifact!At
  <2>2. CASE Artifact!At(f, "cleanUp") /\ Artifact!Goto(f, "retain")
    <3>1. ~disturbed[f] /\ Artifact!At(f, "retain")' /\ Artifact!Want(f)' = Artifact!Want(f)
            => Progress(f)'
      BY <1>1, <2>1, <2>2 DEF Progress, Served, Artifact!At
    <3> QED
      BY <1>1, <1>2, <2>1, <2>2, <3>1, FetcherGoes DEF FetchStages
  <2>3. CASE Artifact!At(f, "giveUp") /\ Artifact!Goto(f, "failed")
    <3>1. Artifact!At(f, "failed")' => Progress(f)'
      BY DEF Progress, Artifact!At
    <3> QED
      BY <1>1, <1>2, <2>1, <2>3, <3>1, FetcherGoes DEF FetchStages
  <2> QED
    BY <2>1, <2>2, <2>3
<1> QED
  BY <1>4, <1>5, <1>6, <1>7

\* No step of ArtifactCache breaks the invariant.
LEMMA ArtifactStep == ArtifactInv /\ [Artifact!Next]_artifactVars => ArtifactInv'
<1> SUFFICES ASSUME ArtifactInv, [Artifact!Next]_artifactVars PROVE ArtifactInv'
  OBVIOUS
<1>1. CASE UNCHANGED artifactVars
  BY <1>1 DEF artifactVars, ArtifactInv, ArtifactTypes, Together, Progress, Served,
     Artifact!At, Artifact!Want, Artifact!Mine
<1>2. ASSUME NEW f \in Fetchers, Artifact!End(f) PROVE ArtifactInv'
  <2>1. PICK new : new = Artifact!Resting
    OBVIOUS
  <2>2. new.at = "resting" /\ fetcher' = [fetcher EXCEPT ![f] = new] /\ ~Artifact!At(f, "resting")
        /\ UNCHANGED <<inode, dest, tmp, stored, fetches, disturbed>>
    BY <1>2, <2>1 DEF Artifact!End, Artifact!Resting
  <2>3. fetcher'[f].at = "resting"
    BY <2>2 DEF ArtifactInv, ArtifactTypes
  <2>4. Progress(f)'
    BY <2>3 DEF Progress, Artifact!At
  <2> QED
    BY <2>2, <2>4, OneFetcherMoves DEF ArtifactInv, ArtifactTypes
<1> QED
  BY <1>1, <1>2, StartFetch, CopyArtifactSteps, DownloadSteps DEF Artifact!Next

\* The cache of an artifact, for any number of commands and architectures:
\* whatever killed and overlapping runs have left, a run that nothing else
\* disturbs ends with its own artifact at the served path and retained
\* (internal/deps/vmconfig_cache.go: reuseVMConfigArtifact).
THEOREM ArtifactsServed == Artifact!Spec => []UndisturbedServes
<1>1. ArtifactInv => UndisturbedServes
  BY DEF ArtifactInv, Progress, Served, UndisturbedServes, Artifact!UndisturbedServes
<1>2. Artifact!Spec => []ArtifactInv
  <2>1. Artifact!Init => ArtifactInv
    BY ArtifactInitially
  <2>2. ArtifactInv /\ [Artifact!Next]_Artifact!avars => ArtifactInv'
    BY ArtifactStep DEF Artifact!avars, artifactVars
  <2> QED
    BY <2>1, <2>2, PTL DEF Artifact!Spec
<1> QED
  BY <1>1, <1>2, PTL

(***************************************************************************)
(* DepsRelease.  A command that nothing disturbs knows what the cache      *)
(* holds of its release.  What a manifest marks is there, or it is spoiled *)
(* - and no file is lost that no two transfers met over and no kill tore.  *)
(***************************************************************************)

ReleaseFiles == [name : Release!Everything, rel : Release!Releases]
Manifests ==
    {Release!Missing, Release!Torn, Release!Mixed} \cup [rel : Release!Releases, marked : SUBSET ReleaseFiles]
CommandStages ==
    {"fetch", "git", "pending", "populate", "transfer", "tear", "write", "look", "lookAgain",
     "fetchSeeds", "readSeeds", "seed", "ok"}
CommandRecords ==
    [at : CommandStages, op : {"download", "seed", "seeds"}, opts : Selections \cup {{}},
     todo : SUBSET Release!Kinds, rels : [Release!Kinds -> 0..MaxRelease],
     marked : SUBSET ReleaseFiles, want : Release!Releases,
     get : SUBSET ReleaseFiles, met : SUBSET ReleaseFiles]

ReleaseTypes ==
    /\ published \in Release!Releases /\ mirror \subseteq Release!Releases
    /\ present \subseteq ReleaseFiles
    /\ cached \in [Release!Kinds -> Manifests]
    /\ DOMAIN cmd = Commands
    /\ \A c \in Commands : Release!At(c, "resting") \/ cmd[c] \in CommandRecords
    /\ runs \in 0..MaxRuns /\ meddled \in [Commands -> BOOLEAN]

\* The manifests that a download writes, in their order: those that are left.
Turns ==
    {{"vmconfig", "components"}, {"components"}, {"templates", "seeds"}, {"seeds"}}
Writing == {"tear", "write", "populate", "transfer"}

\* The manifest whose turn it is, when these are left.
TurnOf(todo) ==
    CASE "vmconfig" \in todo -> "vmconfig"
      [] "vmconfig" \notin todo /\ "components" \in todo -> "components"
      [] todo = {"templates", "seeds"} -> "templates"
      [] OTHER -> "seeds"

\* Where a command stands goes with what it is asked for.
StageOf(a) ==
    /\ a.at \in {"fetch", "git", "pending"} => a.op = "download"
    /\ a.at \in {"look", "lookAgain", "fetchSeeds", "seed"} => a.op = "seed"
    /\ a.at = "readSeeds" => a.op = "seeds"
    /\ a.at = "git" => a.rels["components"] # 0
    /\ a.at \in Writing => a.todo \in Turns /\ a.rels["seeds"] # 0
    /\ a.at = "populate" => a.todo \in {{"templates", "seeds"}, {"seeds"}}
    /\ a.at \in Writing /\ a.op # "download" => a.todo = {"seeds"}
    /\ a.at \in {"pending", "ok"} \cup Writing /\ a.op = "download" =>
         \A k \in Release!Kinds : a.rels[k] # 0

\* The files of a manifest that a download gets before it writes it.
Got(a, k) ==
    CASE k \in {"vmconfig", "components"} -> a.at \in Writing \cup {"ok"}
      [] k = "templates" -> \/ a.at = "ok"
                            \/ a.at \in Writing /\ a.todo = {"seeds"}
                            \/ a.at \in {"transfer", "tear", "write"} /\ a.todo = {"templates", "seeds"}
      [] OTHER -> \/ a.at = "ok"
                  \/ a.at \in {"transfer", "tear", "write"} /\ a.todo = {"seeds"}
NamesFor(a, k) ==
    IF k \in {"vmconfig", "components"} THEN Release!Selected(a.opts) ELSE Release!Everything

\* What a command has, and what stays so whatever others do.
HasGot(a) ==
    /\ a.marked \subseteq present \cup spoiled \cup a.get
    /\ a.met \subseteq spoiled
    /\ a.at # "transfer" => a.get = {} /\ a.met = {}
    /\ a.at = "seed" => [name |-> "seed", rel |-> a.want] \in present \cup spoiled
    /\ a.op = "download" =>
         /\ \A k \in Release!Kinds : Got(a, k) =>
              Release!FilesOf(k, NamesFor(a, k), a.rels[k]) \subseteq a.marked
         /\ a.at # "git" /\ a.rels["components"] # 0 => a.rels["components"] \in mirror

\* The manifests that it has written.
HasWritten(a, k) ==
    \/ a.at = "ok"
    \/ /\ a.at \in Writing
       /\ CASE k = "vmconfig" -> a.todo # {"vmconfig", "components"}
            [] k = "components" -> a.todo \in {{"templates", "seeds"}, {"seeds"}}
            [] k = "templates" -> a.todo = {"seeds"}
            [] OTHER -> FALSE

\* What a download has done that nothing disturbs.
Steady(a) ==
    a.op = "download" =>
        /\ a.marked \subseteq present \cup a.get /\ a.met = {}
        /\ a.at = "write" => cached[TurnOf(a.todo)] = Release!Torn
        /\ \A k \in Release!Kinds : a.rels[k] \in {0, published}
        /\ \A k \in Release!Kinds : HasWritten(a, k) =>
             /\ cached[k].rel = published
             /\ k \in {"templates", "seeds"} =>
                  cached[k].marked = Release!FilesOf(k, Release!Everything, published)

Meddled ==
    \A c, d \in Commands :
        c # d /\ ~Release!At(c, "resting") /\ ~Release!At(d, "resting") => meddled[c]

ReleaseInv ==
    /\ ReleaseTypes /\ Meddled
    /\ Release!FlaggedIsThere /\ broken \subseteq spoiled
    /\ \A c \in Commands : ~Release!At(c, "resting") => StageOf(cmd[c]) /\ HasGot(cmd[c])
    /\ \A c \in Commands : ~Release!At(c, "resting") /\ ~meddled[c] => Steady(cmd[c])

\* The kinds of manifests, and the files that they name.
LEMMA KindsAre ==
    /\ Release!Kinds = {"vmconfig", "components", "templates", "seeds"}
    /\ Release!Everything = {"vm", "chart", "seed"} \cup CoreImages \cup CloudImages \cup AddOnImages
    /\ \A k \in Release!Kinds : Release!NamesOf(k) \subseteq Release!Everything
    /\ Release!NamesOf("seeds") = {"seed"}
<1>1. Release!Kinds = {"vmconfig", "components", "templates", "seeds"}
  BY DEF Release!Kinds
<1>2. /\ Release!NamesOf("vmconfig") = {"vm"}
      /\ Release!NamesOf("components") = CoreImages \cup CloudImages \cup AddOnImages
      /\ Release!NamesOf("templates") = {"chart"}
      /\ Release!NamesOf("seeds") = {"seed"}
  BY DEF Release!NamesOf
<1>3. Release!Everything = UNION {Release!NamesOf("vmconfig"), Release!NamesOf("components"),
                                  Release!NamesOf("templates"), Release!NamesOf("seeds")}
  BY <1>1 DEF Release!Everything
<1> QED
  BY <1>1, <1>2, <1>3

\* The files of a manifest of a release that there is.
LEMMA FilesAre ==
    ASSUME NEW k \in Release!Kinds, NEW names, NEW r
    PROVE  /\ r \in Release!Releases => Release!FilesOf(k, names, r) \subseteq ReleaseFiles
           /\ \A more : names \subseteq more =>
                Release!FilesOf(k, names, r) \subseteq Release!FilesOf(k, more, r)
           /\ Release!FilesOf(k, names, r) \subseteq Release!FilesOf(k, Release!Everything, r)
           /\ Release!FilesOf("seeds", Release!Everything, r) = {[name |-> "seed", rel |-> r]}
<1>1. Release!NamesOf(k) \subseteq Release!Everything
  BY KindsAre
<1>2. r \in Release!Releases => Release!FilesOf(k, names, r) \subseteq ReleaseFiles
  BY <1>1 DEF Release!FilesOf, ReleaseFiles
<1>3. \A more : names \subseteq more => Release!FilesOf(k, names, r) \subseteq Release!FilesOf(k, more, r)
  BY DEF Release!FilesOf
<1>4. Release!FilesOf(k, names, r) \subseteq Release!FilesOf(k, Release!Everything, r)
  BY <1>1 DEF Release!FilesOf
<1>5. Release!FilesOf("seeds", Release!Everything, r) = {[name |-> "seed", rel |-> r]}
  <2>1. Release!Everything \cap Release!NamesOf("seeds") = {"seed"}
    BY KindsAre
  <2> QED
    BY <2>1 DEF Release!FilesOf
<1> QED
  BY <1>2, <1>3, <1>4, <1>5

\* The cache is empty and no command runs.
LEMMA ReleaseInitially == Release!Init => ReleaseInv
<1> SUFFICES ASSUME Release!Init PROVE ReleaseInv
  OBVIOUS
<1>1. \A c \in Commands : Release!At(c, "resting")
  BY DEF Release!Init, Release!At, Release!Resting
<1>2. ReleaseTypes
  BY <1>1, OperationsAssumption DEF ReleaseTypes, Release!Init, Release!Releases, Manifests
<1>3. Release!FlaggedIsThere
  BY DEF Release!Init, Release!FlaggedIsThere, Release!Missing
<1> QED
  BY <1>1, <1>2, <1>3 DEF ReleaseInv, Meddled, Release!Init

\* What a command has got it keeps, as long as nothing is lost unspoiled.
LEMMA WhatIsGotStays ==
    ASSUME NEW CONSTANT a, HasGot(a), present \cup spoiled \subseteq present' \cup spoiled',
           a.met \subseteq spoiled', mirror \subseteq mirror'
    PROVE  HasGot(a)'
<1>1. a.marked \subseteq present' \cup spoiled' \cup a.get
  BY DEF HasGot
<1>2. a.at = "seed" => [name |-> "seed", rel |-> a.want] \in present' \cup spoiled'
  BY DEF HasGot
<1> QED
  BY <1>1, <1>2 DEF HasGot

\* A command moves, and takes nothing away that others have got and that it
\* does not spoil.
LEMMA OneCommandMovesFiles ==
    ASSUME ReleaseInv, NEW c \in Commands, ~Release!At(c, "resting"),
           NEW new, cmd' = [cmd EXCEPT ![c] = new],
           UNCHANGED <<published, runs, meddled>>,
           present' \subseteq ReleaseFiles, broken' \subseteq spoiled',
           present \cup spoiled \subseteq present' \cup spoiled',
           \A d \in Commands : d # c /\ ~Release!At(d, "resting") =>
             cmd[d].met \subseteq spoiled',
           mirror \subseteq mirror', mirror' \subseteq Release!Releases,
           cached' \in [Release!Kinds -> Manifests], Release!FlaggedIsThere',
           \/ new.at = "resting"
           \/ /\ new \in CommandRecords /\ StageOf(new)
              /\ HasGot(cmd[c])' /\ (~meddled[c] => Steady(cmd[c])')
    PROVE  ReleaseInv'
<1>1. cmd'[c] = new /\ \A d \in Commands : d # c => cmd'[d] = cmd[d]
  BY DEF ReleaseInv, ReleaseTypes
<1>2. ReleaseTypes'
  BY <1>1 DEF ReleaseInv, ReleaseTypes, Release!At
<1>3. Meddled'
  BY <1>1 DEF ReleaseInv, ReleaseTypes, Meddled, Release!At
<1>4. ASSUME NEW d \in Commands, ~Release!At(d, "resting")'
      PROVE  /\ StageOf(cmd[d])' /\ HasGot(cmd[d])'
             /\ ~meddled'[d] => Steady(cmd[d])'
  <2>1. CASE d = c
    <3>1. new \in CommandRecords /\ StageOf(new)
      BY <1>1, <1>4, <2>1 DEF Release!At
    <3>2. StageOf(cmd[d])'
      BY <1>1, <2>1, <3>1 DEF StageOf
    <3>3. HasGot(cmd[c])' /\ (~meddled[c] => Steady(cmd[c])')
      BY <1>1, <1>4, <2>1 DEF Release!At
    <3> QED
      BY <2>1, <3>2, <3>3
  <2>2. CASE d # c
    <3>1. cmd'[d] = cmd[d] /\ ~Release!At(d, "resting") /\ StageOf(cmd[d]) /\ HasGot(cmd[d])
      BY <1>1, <1>4, <2>2 DEF ReleaseInv, Release!At
    <3>2. StageOf(cmd[d])'
      BY <3>1 DEF StageOf
    <3>3. HasGot(cmd[d])'
      <4>1. PICK x : x = cmd[d]
        OBVIOUS
      <4>2. HasGot(x)'
        BY <2>2, <3>1, <4>1, WhatIsGotStays
      <4> QED
        BY <3>1, <4>1, <4>2 DEF HasGot
    <3>4. meddled'[d]
      BY <2>2, <3>1 DEF ReleaseInv, Meddled
    <3> QED
      BY <3>2, <3>3, <3>4
  <2> QED
    BY <2>1, <2>2
<1> QED
  BY <1>2, <1>3, <1>4 DEF ReleaseInv

\* A command moves, and the files stay as they are.
LEMMA OneCommandMoves ==
    ASSUME ReleaseInv, NEW c \in Commands, ~Release!At(c, "resting"),
           NEW new, cmd' = [cmd EXCEPT ![c] = new],
           UNCHANGED <<published, present, broken, torn, spoiled, runs, meddled>>,
           mirror \subseteq mirror', mirror' \subseteq Release!Releases,
           cached' \in [Release!Kinds -> Manifests], Release!FlaggedIsThere',
           \/ new.at = "resting"
           \/ /\ new \in CommandRecords /\ StageOf(new)
              /\ HasGot(cmd[c])' /\ (~meddled[c] => Steady(cmd[c])')
    PROVE  ReleaseInv'
<1>1. present' \subseteq ReleaseFiles /\ broken' \subseteq spoiled'
      /\ present \cup spoiled \subseteq present' \cup spoiled'
  BY DEF ReleaseInv, ReleaseTypes
<1>2. \A d \in Commands : d # c /\ ~Release!At(d, "resting") => cmd[d].met \subseteq spoiled'
  BY DEF ReleaseInv, HasGot
<1> QED
  BY <1>1, <1>2, OneCommandMovesFiles

\* A command begins with nothing; those that run are disturbed.
LEMMA StartCommand ==
    ASSUME ReleaseInv, NEW c \in Commands,
           NEW op \in {"download", "seed", "seeds"}, NEW at \in {"fetch", "look", "readSeeds"},
           NEW opts \in Selections \cup {{}},
           op = "download" <=> at = "fetch", op = "seed" <=> at = "look",
           Release!Start(c, op, at, opts)
    PROVE  ReleaseInv'
<1>1. PICK new : new = [at |-> at, op |-> op, opts |-> opts, todo |-> Release!Kinds,
                 rels |-> [k \in Release!Kinds |-> 0], marked |-> {},
                 want |-> IF op = "seed" THEN published ELSE 1, get |-> {}, met |-> {}]
  OBVIOUS
<1>2. /\ runs' = runs + 1 /\ runs < MaxRuns /\ cmd[c].at = "resting"
      /\ cmd' = [cmd EXCEPT ![c] = new]
      /\ meddled' = [d \in Commands |->
            IF d = c THEN \E e \in Commands \ {c} : cmd[e].at # "resting"
                     ELSE meddled[d] \/ cmd[d].at # "resting"]
      /\ UNCHANGED <<published, present, broken, torn, spoiled, cached, mirror>>
  BY <1>1 DEF Release!Start, Release!files, Release!At
<1>3. /\ new.at = at /\ new.op = op /\ new.todo = Release!Kinds /\ new.marked = {}
      /\ new.get = {} /\ new.met = {}
      /\ \A k \in Release!Kinds : new.rels[k] = 0
  BY <1>1
<1>4. new \in CommandRecords
  <2>1. published \in Release!Releases /\ 1 \in Release!Releases
    BY OperationsAssumption DEF ReleaseInv, ReleaseTypes, Release!Releases
  <2>2. [k \in Release!Kinds |-> 0] \in [Release!Kinds -> 0..MaxRelease]
    BY OperationsAssumption
  <2> QED
    BY <1>1, <2>1, <2>2 DEF CommandRecords, CommandStages
<1>5. cmd'[c] = new /\ \A d \in Commands : d # c => cmd'[d] = cmd[d]
  BY <1>2 DEF ReleaseInv, ReleaseTypes
<1>6. ReleaseTypes'
  <2>1. meddled' \in [Commands -> BOOLEAN]
    BY <1>2
  <2>2. runs' \in 0..MaxRuns
    BY <1>2, OperationsAssumption DEF ReleaseInv, ReleaseTypes
  <2>3. DOMAIN cmd' = Commands
    BY <1>2 DEF ReleaseInv, ReleaseTypes
  <2>4. \A d \in Commands : cmd'[d].at = "resting" \/ cmd'[d] \in CommandRecords
    BY <1>4, <1>5 DEF ReleaseInv, ReleaseTypes, Release!At
  <2> QED
    BY <1>2, <2>1, <2>2, <2>3, <2>4 DEF ReleaseInv, ReleaseTypes, Release!At
<1>7. Meddled'
  BY <1>2, <1>5 DEF ReleaseInv, ReleaseTypes, Meddled, Release!At
<1>8. Release!FlaggedIsThere'
  BY <1>2 DEF ReleaseInv, Release!FlaggedIsThere
<1>9. ASSUME NEW d \in Commands, ~Release!At(d, "resting")'
      PROVE  /\ StageOf(cmd[d])' /\ HasGot(cmd[d])'
             /\ ~meddled'[d] => Steady(cmd[d])'
  <2>1. CASE d = c
    <3>1. "components" \in Release!Kinds
      BY KindsAre
    <3>2. /\ ~(new.at \in {"git", "pending", "lookAgain", "fetchSeeds", "seed", "ok"} \cup Writing)
          /\ \A k \in Release!Kinds : ~Got(new, k) /\ ~HasWritten(new, k)
      BY <1>3, KindsAre DEF Writing, Got, HasWritten
    <3>3. StageOf(cmd[d])'
      BY <1>3, <1>5, <2>1, <3>2 DEF StageOf, Writing
    <3>4. HasGot(cmd[d])'
      BY <1>3, <1>5, <2>1, <3>1, <3>2 DEF HasGot
    <3>5. Steady(cmd[d])'
      BY <1>3, <1>5, <2>1, <3>2 DEF Steady
    <3> QED
      BY <3>3, <3>4, <3>5
  <2>2. CASE d # c
    <3>1. cmd'[d] = cmd[d] /\ ~Release!At(d, "resting") /\ StageOf(cmd[d]) /\ HasGot(cmd[d])
      BY <1>5, <1>9, <2>2 DEF ReleaseInv, Release!At
    <3>2. StageOf(cmd[d])'
      BY <3>1 DEF StageOf
    <3>3. HasGot(cmd[d])'
      BY <1>2, <3>1 DEF HasGot
    <3>4. meddled'[d]
      BY <1>2, <2>2, <3>1 DEF Release!At
    <3> QED
      BY <3>2, <3>3, <3>4
  <2> QED
    BY <2>1, <2>2
<1> QED
  BY <1>2, <1>6, <1>7, <1>8, <1>9 DEF ReleaseInv

\* A command ends: it fails, is killed, or is over.
LEMMA CommandEnds ==
    ASSUME ReleaseInv, NEW c \in Commands, ~Release!At(c, "resting"),
           cmd' = [cmd EXCEPT ![c] = Release!Resting],
           UNCHANGED <<published, present, broken, torn, spoiled, cached, runs, meddled>>,
           mirror \subseteq mirror', mirror' \subseteq Release!Releases
    PROVE  ReleaseInv'
<1>1. PICK new : new = Release!Resting
  OBVIOUS
<1>2. new.at = "resting" /\ cmd' = [cmd EXCEPT ![c] = new]
  BY <1>1 DEF Release!Resting
<1>3. Release!FlaggedIsThere' /\ cached' \in [Release!Kinds -> Manifests]
  BY DEF ReleaseInv, ReleaseTypes, Release!FlaggedIsThere
<1> QED
  BY <1>2, <1>3, OneCommandMoves

\* What is known of a command that runs.
LEMMA CommandIs ==
    ASSUME ReleaseInv, NEW c \in Commands, ~Release!At(c, "resting")
    PROVE  /\ cmd[c] \in CommandRecords /\ StageOf(cmd[c]) /\ HasGot(cmd[c])
           /\ ~meddled[c] => Steady(cmd[c])
           /\ published \in Release!Releases /\ published # 0
           /\ \A k \in Release!Kinds : cmd[c].rels[k] # 0 => cmd[c].rels[k] \in Release!Releases
           /\ DOMAIN cmd = Commands /\ mirror \subseteq Release!Releases
           /\ present \subseteq ReleaseFiles /\ cached \in [Release!Kinds -> Manifests]
<1>1. cmd[c] \in CommandRecords /\ StageOf(cmd[c]) /\ HasGot(cmd[c])
  BY DEF ReleaseInv, ReleaseTypes
<1>2. \A k \in Release!Kinds : cmd[c].rels[k] # 0 => cmd[c].rels[k] \in Release!Releases
  BY <1>1, OperationsAssumption DEF CommandRecords, Release!Releases
<1> QED
  BY <1>1, <1>2, OperationsAssumption DEF ReleaseInv, ReleaseTypes, Release!Releases

\* A manifest is fetched, of the release that is the latest now.
LEMMA FetchManifestStep ==
    ASSUME ReleaseInv, NEW c \in Commands, NEW i \in 1..4, Release!FetchManifest(c, i)
    PROVE  ReleaseInv'
<1>1. PICK a, k : a = cmd[c] /\ k = Release!Order[i]
  OBVIOUS
<1>2. /\ a.at = "fetch" /\ a.rels[k] = 0 /\ ~Release!At(c, "resting")
      /\ \A j \in 1..i - 1 : a.rels[Release!Order[j]] # 0
      /\ UNCHANGED <<published, present, broken, torn, spoiled, cached, mirror, runs, meddled>>
  BY <1>1 DEF Release!FetchManifest, Release!files, Release!At
<1>3. /\ a \in CommandRecords /\ StageOf(a) /\ HasGot(a) /\ (~meddled[c] => Steady(a))
      /\ published \in Release!Releases /\ published # 0
      /\ DOMAIN cmd = Commands /\ present \subseteq ReleaseFiles
      /\ mirror \subseteq Release!Releases
  BY <1>1, <1>2, CommandIs
<1>4. /\ Release!Order[1] = "vmconfig" /\ Release!Order[2] = "components"
      /\ Release!Order[3] = "templates" /\ Release!Order[4] = "seeds"
  BY DEF Release!Order
<1>5. k \in Release!Kinds /\ (k = "components" <=> i = 2)
  BY <1>1, <1>4, KindsAre
<1>6. CASE Release!Fail(c)
  BY <1>2, <1>3, <1>6, CommandEnds DEF Release!Fail
<1>7. CASE cmd' = [cmd EXCEPT ![c].rels[Release!Order[i]] = published,
                    ![c].at = CASE i = 2 -> "git" [] i = 4 -> "pending" [] OTHER -> @]
  <2>1. PICK at : at = CASE i = 2 -> "git" [] i = 4 -> "pending" [] OTHER -> a.at
    OBVIOUS
  <2>0. PICK rels : rels = [a.rels EXCEPT ![k] = published]
    OBVIOUS
  <2>2. PICK new : new = [a EXCEPT !.rels = rels, !.at = at]
    OBVIOUS
  <2>3. cmd' = [cmd EXCEPT ![c] = new]
    <3>1. cmd' = [cmd EXCEPT ![c].rels[k] = published, ![c].at = at]
      BY <1>1, <1>3, <1>7, <2>1 DEF CommandRecords
    <3> QED
      BY <1>1, <1>3, <2>0, <2>2, <3>1 DEF CommandRecords
  <2>13. rels \in [Release!Kinds -> 0..MaxRelease] /\ rels[k] = published
         /\ \A m \in Release!Kinds : m # k => rels[m] = a.rels[m]
    BY <1>3, <1>5, <2>0, OperationsAssumption DEF CommandRecords, Release!Releases
  <2>4. at \in {"git", "pending", "fetch"} /\ (at = "git" <=> i = 2) /\ (at = "pending" <=> i = 4)
    BY <1>2, <2>1
  <2>5. /\ new \in CommandRecords /\ new.at = at /\ new.op = a.op /\ new.todo = a.todo
        /\ new.marked = a.marked /\ new.get = a.get /\ new.met = a.met
        /\ new.opts = a.opts /\ new.rels[k] = published
        /\ \A m \in Release!Kinds : m # k => new.rels[m] = a.rels[m]
    BY <1>3, <1>5, <2>2, <2>4, <2>13 DEF CommandRecords, CommandStages
  <2>6. StageOf(new)
    <3>1. i = 4 => \A m \in Release!Kinds : new.rels[m] # 0
      BY <1>1, <1>2, <1>3, <1>4, <2>5, KindsAre
    <3> QED
      BY <1>2, <1>3, <1>5, <2>4, <2>5, <3>1 DEF StageOf, Writing
  <2>7. \A m \in Release!Kinds : ~Got(new, m) /\ ~HasWritten(new, m)
    BY <2>4, <2>5, KindsAre DEF Got, HasWritten, Writing
  <2>8. HasGot(new)
    BY <1>2, <1>3, <1>5, <2>4, <2>5, <2>7, KindsAre DEF HasGot
  <2>9. ~meddled[c] => Steady(new)
    BY <1>2, <1>3, <2>4, <2>5, <2>7 DEF Steady, StageOf
  <2>10. cmd'[c] = new
    BY <1>3, <2>3
  <2>11. HasGot(cmd[c])' /\ (~meddled[c] => Steady(cmd[c])')
    BY <1>2, <2>8, <2>9, <2>10 DEF HasGot, Steady
  <2>12. Release!FlaggedIsThere' /\ cached' \in [Release!Kinds -> Manifests]
    BY <1>2 DEF ReleaseInv, ReleaseTypes, Release!FlaggedIsThere
  <2> QED
    BY <1>2, <1>3, <2>3, <2>5, <2>6, <2>11, <2>12, OneCommandMoves
<1> QED
  BY <1>6, <1>7 DEF Release!FetchManifest

\* The clone of the templates is brought up to date, or is not.
LEMMA FetchGitStep ==
    ASSUME ReleaseInv, NEW c \in Commands, Release!FetchGit(c)
    PROVE  ReleaseInv'
<1>1. PICK a : a = cmd[c]
  OBVIOUS
<1>2. /\ a.at = "git" /\ ~Release!At(c, "resting")
      /\ UNCHANGED <<published, present, broken, torn, spoiled, cached, runs, meddled>>
      /\ \E rs \in SUBSET (1..published) : mirror' = mirror \cup rs
      /\ \/ a.rels["components"] \in mirror' /\ cmd' = [cmd EXCEPT ![c].at = "fetch"]
         \/ cmd' = [cmd EXCEPT ![c] = Release!Resting]
  BY <1>1 DEF Release!FetchGit, Release!files, Release!At, Release!Loaded, Release!Goto, Release!Fail
<1>3. /\ a \in CommandRecords /\ StageOf(a) /\ HasGot(a) /\ (~meddled[c] => Steady(a))
      /\ published \in Release!Releases
      /\ DOMAIN cmd = Commands /\ present \subseteq ReleaseFiles
      /\ mirror \subseteq Release!Releases
  BY <1>1, <1>2, CommandIs
<1>4. mirror \subseteq mirror' /\ mirror' \subseteq Release!Releases
  BY <1>2, <1>3, OperationsAssumption DEF Release!Releases
<1>5. CASE cmd' = [cmd EXCEPT ![c] = Release!Resting]
  BY <1>2, <1>3, <1>4, <1>5, CommandEnds
<1>6. CASE a.rels["components"] \in mirror' /\ cmd' = [cmd EXCEPT ![c].at = "fetch"]
  <2>1. PICK new : new = [a EXCEPT !.at = "fetch"]
    OBVIOUS
  <2>2. cmd' = [cmd EXCEPT ![c] = new] /\ cmd'[c] = new
    BY <1>1, <1>3, <1>6, <2>1
  <2>3. /\ new \in CommandRecords /\ new.at = "fetch" /\ new.op = a.op /\ new.todo = a.todo
        /\ new.marked = a.marked /\ new.get = a.get /\ new.met = a.met
        /\ new.opts = a.opts /\ new.rels = a.rels
    BY <1>3, <2>1 DEF CommandRecords, CommandStages
  <2>4. \A m \in Release!Kinds : ~Got(new, m) /\ ~HasWritten(new, m)
    BY <2>3, KindsAre DEF Got, HasWritten, Writing
  <2>5. StageOf(new)
    BY <1>2, <1>3, <2>3 DEF StageOf, Writing
  <2>6. HasGot(cmd[c])'
    BY <1>2, <1>3, <1>6, <2>2, <2>3, <2>4 DEF HasGot
  <2>7. ~meddled[c] => Steady(cmd[c])'
    BY <1>2, <1>3, <2>2, <2>3, <2>4 DEF Steady, StageOf
  <2>8. Release!FlaggedIsThere' /\ cached' \in [Release!Kinds -> Manifests]
    BY <1>2 DEF ReleaseInv, ReleaseTypes, Release!FlaggedIsThere
  <2> QED
    BY <1>2, <1>3, <1>4, <2>2, <2>3, <2>5, <2>6, <2>7, <2>8, OneCommandMoves
<1> QED
  BY <1>2, <1>5, <1>6

\* What is shared with a file are files, and the file itself.
LEMMA SharedAre ==
    /\ \A f \in ReleaseFiles : Release!Shared(f) \subseteq ReleaseFiles
    /\ ReleaseFiles = Release!AllFiles
BY DEF Release!Shared, Release!ImagesOf, ReleaseFiles, Release!AllFiles

\* A transfer begins: those that it meets are warned, and nothing is lost yet.
LEMMA BeginTransferMoves ==
    ASSUME ReleaseInv, NEW c \in Commands,
           ~Release!At(c, "resting"), ~Release!At(c, "transfer"),
           NEW w, w \subseteq ReleaseFiles, NEW todo, todo \in SUBSET Release!Kinds,
           Release!BeginTransfer(c, w, todo), UNCHANGED <<published, cached, mirror, runs, meddled>>,
           NEW begun, begun = [at |-> "transfer", todo |-> todo],
           todo \in Turns, cmd[c].rels["seeds"] # 0,
           cmd[c].op # "download" => todo = {"seeds"},
           \A k \in Release!Kinds : HasWritten(begun, k) => HasWritten(cmd[c], k),
           cmd[c].op = "download" =>
             /\ cmd[c].rels["components"] \in mirror
             /\ \A k \in Release!Kinds : cmd[c].rels[k] # 0
             /\ \A k \in Release!Kinds : Got(begun, k) =>
                  Release!FilesOf(k, NamesFor(cmd[c], k), cmd[c].rels[k]) \subseteq cmd[c].marked \cup w
    PROVE  ReleaseInv'
<1>1. PICK a : a = cmd[c]
  OBVIOUS
<1>2. PICK get, others : /\ get = w \ present
                         /\ others = {d \in Commands \ {c} : Release!At(d, "transfer")}
  OBVIOUS
<1>3. PICK met : met = UNION {Release!Meets(c, get, d) : d \in others}
  OBVIOUS
<1>4. PICK new : new = [a EXCEPT !.at = "transfer", !.todo = todo, !.get = get,
                                 !.met = met, !.marked = a.marked \cup w]
  OBVIOUS
<1>5. /\ cmd' = [d \in Commands |->
            IF d = c THEN new
            ELSE IF d \in others THEN [cmd[d] EXCEPT !.met = @ \cup Release!Meets(c, get, d)]
            ELSE cmd[d]]
      /\ spoiled' = spoiled \cup met /\ UNCHANGED <<present, broken, torn>>
  BY <1>1, <1>2, <1>3, <1>4 DEF Release!BeginTransfer
<1>6. /\ a \in CommandRecords /\ StageOf(a) /\ HasGot(a) /\ (~meddled[c] => Steady(a))
      /\ present \subseteq ReleaseFiles
  BY <1>1, CommandIs
<1>7. /\ \A d \in others : Release!Meets(c, get, d) \subseteq met
      /\ \A d \in others : Release!Meets(c, get, d) \subseteq ReleaseFiles
      /\ met \subseteq ReleaseFiles /\ get \subseteq ReleaseFiles
  <2>1. get \subseteq ReleaseFiles
    BY <1>2
  <2>2. \A d \in others : Release!Meets(c, get, d) \subseteq ReleaseFiles
    BY <2>1, SharedAre DEF Release!Meets
  <2> QED
    BY <1>3, <2>1, <2>2
<1>8. /\ new \in CommandRecords /\ new.at = "transfer" /\ new.todo = todo /\ new.get = get
      /\ new.met = met /\ new.marked = a.marked \cup w
      /\ new.op = a.op /\ new.rels = a.rels /\ new.opts = a.opts
  BY <1>4, <1>6, <1>7 DEF CommandRecords, CommandStages
<1>9. cmd'[c] = new
  BY <1>5
<1>10. ASSUME NEW d \in Commands, d # c, ~Release!At(d, "resting")
       PROVE  /\ cmd'[d] \in CommandRecords /\ StageOf(cmd[d])' /\ HasGot(cmd[d])'
              /\ cmd'[d].at = cmd[d].at
  <2>1. /\ cmd[d] \in CommandRecords /\ StageOf(cmd[d]) /\ HasGot(cmd[d])
    BY <1>10, CommandIs
  <2>2. CASE d \in others
    <3>1. PICK more : more = Release!Meets(c, get, d)
      OBVIOUS
    <3>2. cmd'[d] = [cmd[d] EXCEPT !.met = cmd[d].met \cup more] /\ cmd[d].at = "transfer"
      BY <1>2, <1>5, <1>10, <2>2, <3>1 DEF Release!At
    <3>3. more \subseteq met /\ more \subseteq ReleaseFiles
      BY <1>7, <2>2, <3>1
    <3>4. /\ cmd'[d] \in CommandRecords /\ cmd'[d].at = "transfer"
          /\ cmd'[d].todo = cmd[d].todo /\ cmd'[d].op = cmd[d].op /\ cmd'[d].rels = cmd[d].rels
          /\ cmd'[d].opts = cmd[d].opts /\ cmd'[d].marked = cmd[d].marked
          /\ cmd'[d].get = cmd[d].get /\ cmd'[d].met = cmd[d].met \cup more
      BY <2>1, <3>2, <3>3 DEF CommandRecords
    <3>5. StageOf(cmd[d])'
      BY <2>1, <3>2, <3>4 DEF StageOf
    <3>6. \A k \in Release!Kinds : (Got(cmd'[d], k) <=> Got(cmd[d], k))
                                   /\ NamesFor(cmd'[d], k) = NamesFor(cmd[d], k)
      BY <3>2, <3>4 DEF Got, NamesFor
    <3>7. HasGot(cmd[d])'
      <4>1. PICK x : x = cmd'[d]
        OBVIOUS
      <4>2. x.marked \subseteq present \cup spoiled \cup x.get /\ x.met \subseteq spoiled \cup met
        BY <2>1, <3>3, <3>4, <4>1 DEF HasGot
      <4>3. x.at = "transfer" /\ (x.op = "download" =>
              /\ \A k \in Release!Kinds : Got(x, k) =>
                   Release!FilesOf(k, NamesFor(x, k), x.rels[k]) \subseteq x.marked
              /\ x.rels["components"] # 0 => x.rels["components"] \in mirror)
        BY <2>1, <3>2, <3>4, <3>6, <4>1 DEF HasGot
      <4> QED
        BY <1>5, <4>1, <4>2, <4>3 DEF HasGot
    <3> QED
      BY <3>2, <3>4, <3>5, <3>7
  <2>3. CASE d \notin others
    <3>1. cmd'[d] = cmd[d]
      BY <1>5, <1>10, <2>3
    <3>2. HasGot(cmd[d])'
      <4>1. PICK x : x = cmd[d]
        OBVIOUS
      <4>2. HasGot(x) /\ x.met \subseteq spoiled
        BY <2>1, <4>1 DEF HasGot
      <4>3. HasGot(x)'
        BY <1>5, <4>1, <4>2, WhatIsGotStays
      <4> QED
        BY <3>1, <4>1, <4>3 DEF HasGot
    <3>3. StageOf(cmd[d])'
      BY <2>1, <3>1 DEF StageOf
    <3> QED
      BY <2>1, <3>1, <3>2, <3>3
  <2> QED
    BY <2>2, <2>3
<1>11. \A d \in Commands : d # c /\ Release!At(d, "resting") => cmd'[d] = cmd[d]
  BY <1>2, <1>5 DEF Release!At
<1>12. ReleaseTypes'
  <2>1. DOMAIN cmd' = Commands
    BY <1>5
  <2>2. \A d \in Commands : cmd'[d].at = "resting" \/ cmd'[d] \in CommandRecords
    BY <1>8, <1>9, <1>10, <1>11 DEF Release!At
  <2> QED
    BY <1>5, <2>1, <2>2 DEF ReleaseInv, ReleaseTypes, Release!At
<1>13. \A d \in Commands : cmd'[d].at # "resting" => cmd[d].at # "resting"
  BY <1>10, <1>11 DEF Release!At
<1>14. Meddled'
  BY <1>13 DEF ReleaseInv, Meddled, Release!At
<1>15. Release!FlaggedIsThere' /\ (broken \subseteq spoiled)'
  BY <1>5 DEF ReleaseInv, Release!FlaggedIsThere
<1>16. StageOf(cmd[c])'
  <2>1. StageOf(new)
    BY <1>1, <1>8 DEF StageOf, Writing
  <2> QED
    BY <1>9, <2>1 DEF StageOf
<1>17. \A k \in Release!Kinds : (Got(new, k) <=> Got(begun, k))
         /\ (HasWritten(new, k) <=> HasWritten(begun, k)) /\ NamesFor(new, k) = NamesFor(a, k)
  BY <1>8 DEF Got, HasWritten, NamesFor
<1>18. new.marked \subseteq present \cup spoiled \cup get
  BY <1>1, <1>2, <1>6, <1>8 DEF HasGot, Release!At
<1>19. HasGot(cmd[c])'
  BY <1>1, <1>5, <1>8, <1>9, <1>17, <1>18 DEF HasGot
<1>20. ~meddled[c] => Steady(cmd[c])'
  <2> SUFFICES ASSUME ~meddled[c], a.op = "download" PROVE Steady(cmd[c])'
    BY <1>8, <1>9 DEF Steady
  <2>1. met = {}
    <3>1. others = {}
      BY <1>2 DEF ReleaseInv, Meddled, Release!At
    <3> QED
      BY <1>3, <3>1
  <2>2. new.marked \subseteq present \cup get
    BY <1>1, <1>2, <1>6, <1>8 DEF Steady, HasGot, Release!At
  <2> QED
    BY <1>1, <1>5, <1>6, <1>8, <1>9, <1>17, <2>1, <2>2 DEF Steady
<1>21. ASSUME NEW d \in Commands, ~Release!At(d, "resting")'
       PROVE  /\ StageOf(cmd[d])' /\ HasGot(cmd[d])' /\ (~meddled'[d] => Steady(cmd[d])')
  <2>1. CASE d = c
    BY <1>16, <1>19, <1>20, <2>1
  <2>2. CASE d # c
    <3>1. ~Release!At(d, "resting")
      BY <1>13, <1>21 DEF Release!At
    <3>2. meddled'[d]
      BY <2>2, <3>1 DEF ReleaseInv, Meddled
    <3> QED
      BY <1>10, <2>2, <3>1, <3>2
  <2> QED
    BY <2>1, <2>2
<1> QED
  BY <1>12, <1>14, <1>15, <1>21 DEF ReleaseInv

\* A download looks for what it lacks.
LEMMA DownloadPendingStep ==
    ASSUME ReleaseInv, NEW c \in Commands, Release!DownloadPending(c)
    PROVE  ReleaseInv'
<1>1. PICK a, w, todo :
        a = cmd[c] /\ w = Release!WantedFiles(c) /\ todo = {"vmconfig", "components"}
  OBVIOUS
<1>2. /\ a.at = "pending" /\ ~Release!At(c, "resting") /\ ~Release!At(c, "transfer")
      /\ UNCHANGED <<published, cached, mirror, runs, meddled>>
      /\ \/ Release!BeginTransfer(c, w, todo)
         \/ /\ cmd' = [cmd EXCEPT ![c] = Release!Resting]
            /\ UNCHANGED <<present, broken, torn, spoiled>>
  BY <1>1 DEF Release!DownloadPending, Release!At, Release!Fail, Release!files
<1>3. /\ a \in CommandRecords /\ StageOf(a) /\ HasGot(a)
      /\ \A k \in Release!Kinds : a.rels[k] # 0 => a.rels[k] \in Release!Releases
      /\ mirror \subseteq Release!Releases
  BY <1>1, <1>2, CommandIs
<1>4. /\ a.op = "download" /\ \A k \in Release!Kinds : a.rels[k] # 0
      /\ "vmconfig" \in Release!Kinds /\ "components" \in Release!Kinds /\ "seeds" \in Release!Kinds
  BY <1>2, <1>3, KindsAre DEF StageOf
<1>5. w = Release!FilesOf("vmconfig", Release!Selected(a.opts), a.rels["vmconfig"])
            \cup Release!FilesOf("components", Release!Selected(a.opts), a.rels["components"])
  BY <1>1 DEF Release!WantedFiles, Release!Loaded
<1>6. w \subseteq ReleaseFiles
  BY <1>3, <1>4, <1>5, FilesAre
<1>7. CASE cmd' = [cmd EXCEPT ![c] = Release!Resting] /\ UNCHANGED <<present, broken, torn, spoiled>>
  BY <1>2, <1>3, <1>7, CommandEnds
<1>8. CASE Release!BeginTransfer(c, w, todo)
  <2>1. PICK begun : begun = [at |-> "transfer", todo |-> todo]
    OBVIOUS
  <2>2. begun.at = "transfer" /\ begun.todo = {"vmconfig", "components"}
    BY <1>1, <2>1
  <2>3. {"vmconfig", "components"} # {"templates", "seeds"}
        /\ {"vmconfig", "components"} # {"seeds"} /\ {"vmconfig", "components"} # {"components"}
    OBVIOUS
  <2>4. \A k \in Release!Kinds : Got(begun, k) =>
          Release!FilesOf(k, NamesFor(a, k), a.rels[k]) \subseteq a.marked \cup w
    BY <1>5, <2>2, <2>3, KindsAre DEF Got, NamesFor, Writing
  <2>5. \A k \in Release!Kinds : HasWritten(begun, k) => HasWritten(a, k)
    BY <2>2, <2>3, KindsAre DEF HasWritten, Writing
  <2>6. a.rels["components"] \in mirror
    BY <1>2, <1>3, <1>4 DEF HasGot
  <2>7. todo \in SUBSET Release!Kinds /\ todo \in Turns
    BY <1>1, <1>4 DEF Turns
  <2> QED
    BY <1>1, <1>2, <1>4, <1>6, <1>8, <2>1, <2>4, <2>5, <2>6, <2>7, BeginTransferMoves
<1> QED
  BY <1>2, <1>7, <1>8

\* Templates and seeds follow, all that there are.
LEMMA PopulateStep ==
    ASSUME ReleaseInv, NEW c \in Commands, Release!Populate(c)
    PROVE  ReleaseInv'
<1>1. PICK a, kk : a = cmd[c] /\ kk = IF "templates" \in a.todo THEN "templates" ELSE "seeds"
  OBVIOUS
<1>2. PICK w, todo : w = Release!FilesOf(kk, Release!Everything, a.rels[kk]) /\ todo = a.todo
  OBVIOUS
<1>3. /\ a.at = "populate" /\ ~Release!At(c, "resting") /\ ~Release!At(c, "transfer")
      /\ UNCHANGED <<published, cached, mirror, runs, meddled>>
      /\ \/ Release!BeginTransfer(c, w, todo)
         \/ /\ cmd' = [cmd EXCEPT ![c] = Release!Resting]
            /\ UNCHANGED <<present, broken, torn, spoiled>>
  BY <1>1, <1>2 DEF Release!Populate, Release!At, Release!Fail, Release!Loaded, Release!files
<1>4. /\ a \in CommandRecords /\ StageOf(a) /\ HasGot(a)
      /\ \A k \in Release!Kinds : a.rels[k] # 0 => a.rels[k] \in Release!Releases
      /\ mirror \subseteq Release!Releases
  BY <1>1, <1>3, CommandIs
<1>5. /\ a.todo \in {{"templates", "seeds"}, {"seeds"}} /\ a.rels["seeds"] # 0
      /\ a.op # "download" => a.todo = {"seeds"}
      /\ a.op = "download" => \A k \in Release!Kinds : a.rels[k] # 0
  BY <1>3, <1>4 DEF StageOf, Writing
<1>6. kk \in {"templates", "seeds"} /\ kk \in Release!Kinds /\ a.rels[kk] # 0
      /\ (kk = "templates" <=> a.todo = {"templates", "seeds"})
      /\ (kk = "seeds" <=> a.todo = {"seeds"})
  BY <1>1, <1>5, KindsAre
<1>7. w \subseteq ReleaseFiles
  BY <1>2, <1>4, <1>6, FilesAre
<1>8. CASE cmd' = [cmd EXCEPT ![c] = Release!Resting] /\ UNCHANGED <<present, broken, torn, spoiled>>
  BY <1>3, <1>4, <1>8, CommandEnds
<1>9. CASE Release!BeginTransfer(c, w, todo)
  <2>1. PICK begun : begun = [at |-> "transfer", todo |-> todo]
    OBVIOUS
  <2>2. begun.at = "transfer" /\ begun.todo = a.todo
    BY <1>2, <2>1
  <2>3. \A k \in Release!Kinds : Got(begun, k) => Got(a, k) \/ k = kk
    BY <1>3, <1>5, <1>6, <2>2, KindsAre DEF Got, Writing
  <2>4. a.op = "download" => \A k \in Release!Kinds : Got(begun, k) =>
          Release!FilesOf(k, NamesFor(a, k), a.rels[k]) \subseteq a.marked \cup w
    BY <1>2, <1>4, <1>6, <2>3 DEF HasGot, NamesFor
  <2>5. a.op = "download" => a.rels["components"] \in mirror
    BY <1>3, <1>4, <1>5, KindsAre DEF HasGot
  <2>6. \A k \in Release!Kinds : HasWritten(begun, k) => HasWritten(a, k)
    BY <1>3, <2>2, KindsAre DEF HasWritten, Writing
  <2>7. todo \in SUBSET Release!Kinds /\ todo \in Turns
    BY <1>2, <1>4, <1>5 DEF CommandRecords, Turns
  <2>8. a.op # "download" => todo = {"seeds"}
    BY <1>2, <1>5
  <2> QED
    BY <1>1, <1>3, <1>5, <1>7, <1>9, <2>1, <2>4, <2>5, <2>6, <2>7, <2>8, BeginTransferMoves
<1> QED
  BY <1>3, <1>8, <1>9

\* A transfer is over: what is lost then is spoiled.
LEMMA TransferredStep ==
    ASSUME ReleaseInv, NEW c \in Commands, Release!Transferred(c)
    PROVE  ReleaseInv'
<1>1. PICK a, get, met : a = cmd[c] /\ get = cmd[c].get /\ met = cmd[c].met
  OBVIOUS
<1>2. PICK how, t, now :
        /\ t \in SUBSET Release!Repositories(IF how = "killed" THEN get ELSE met)
        /\ now \in SUBSET (get \cup (met \cap (present \cup broken)))
        /\ how = "done" => get \subseteq now \cup met
        /\ present' = (present \ (met \cup Release!ImagesOf(t))) \cup now
        /\ broken' = (broken \cup present \cup (IF how = "done" THEN get ELSE {})) \ present'
        /\ spoiled' = {f \in spoiled \cup Release!ImagesOf(t) :
              \/ f \notin present'
              \/ \E d \in Commands \ {c} : Release!At(d, "transfer") /\ f \in cmd[d].met}
        /\ IF how = "done"
           THEN cmd' = [cmd EXCEPT ![c].at = "tear", ![c].get = {}, ![c].met = {}]
           ELSE cmd' = [cmd EXCEPT ![c] = Release!Resting]
  BY <1>1 DEF Release!Transferred, Release!Fail
<1>3. /\ a.at = "transfer" /\ ~Release!At(c, "resting")
      /\ UNCHANGED <<published, cached, mirror, runs, meddled>>
  BY <1>1 DEF Release!Transferred, Release!At
<1>4. /\ a \in CommandRecords /\ StageOf(a) /\ HasGot(a) /\ (~meddled[c] => Steady(a))
      /\ DOMAIN cmd = Commands /\ present \subseteq ReleaseFiles
      /\ mirror \subseteq Release!Releases /\ cached \in [Release!Kinds -> Manifests]
  BY <1>1, <1>3, CommandIs
<1>5. get \subseteq ReleaseFiles /\ met \subseteq ReleaseFiles /\ met \subseteq spoiled
  BY <1>1, <1>4 DEF CommandRecords, HasGot
<1>6. present' \subseteq ReleaseFiles
  BY <1>2, <1>4, <1>5
<1>7. \A f : f \in spoiled \cup Release!ImagesOf(t) => f \in present' \cup spoiled'
  BY <1>2
<1>8. present \cup spoiled \subseteq present' \cup spoiled'
  BY <1>2, <1>5, <1>7
<1>9. broken' \subseteq spoiled'
  <2>1. broken \subseteq spoiled
    BY DEF ReleaseInv
  <2>2. ASSUME NEW f \in broken' PROVE f \in spoiled \cup Release!ImagesOf(t) /\ f \notin present'
    <3>1. f \notin present' /\ (f \in broken \/ f \in present \/ (how = "done" /\ f \in get))
      BY <1>2, <2>2
    <3>2. f \in present => f \in met \cup Release!ImagesOf(t)
      BY <1>2, <3>1
    <3>3. how = "done" /\ f \in get => f \in met
      BY <1>2, <3>1
    <3> QED
      BY <1>5, <2>1, <3>1, <3>2, <3>3
  <2> QED
    BY <1>2, <2>2
<1>10. \A d \in Commands : d # c /\ ~Release!At(d, "resting") => cmd[d].met \subseteq spoiled'
  <2>1. ASSUME NEW d \in Commands, d # c, ~Release!At(d, "resting") PROVE cmd[d].met \subseteq spoiled'
    <3>1. HasGot(cmd[d])
      BY <2>1 DEF ReleaseInv
    <3>2. cmd[d].met \subseteq spoiled /\ (cmd[d].met # {} => Release!At(d, "transfer"))
      BY <3>1 DEF HasGot, Release!At
    <3> QED
      BY <1>2, <2>1, <3>2
  <2> QED
    BY <2>1
<1>11. Release!FlaggedIsThere' /\ cached' \in [Release!Kinds -> Manifests]
  BY <1>3, <1>4, <1>8 DEF ReleaseInv, Release!FlaggedIsThere
<1>12. CASE cmd' = [cmd EXCEPT ![c] = Release!Resting]
  <2>1. PICK new : new = Release!Resting
    OBVIOUS
  <2>2. new.at = "resting" /\ cmd' = [cmd EXCEPT ![c] = new]
    BY <1>12, <2>1 DEF Release!Resting
  <2> QED
    BY <1>3, <1>4, <1>6, <1>8, <1>9, <1>10, <1>11, <2>2, OneCommandMovesFiles
<1>13. CASE how = "done" /\ cmd' = [cmd EXCEPT ![c].at = "tear", ![c].get = {}, ![c].met = {}]
  <2>1. PICK new : new = [a EXCEPT !.at = "tear", !.get = {}, !.met = {}]
    OBVIOUS
  <2>2. cmd' = [cmd EXCEPT ![c] = new] /\ cmd'[c] = new
    BY <1>1, <1>4, <1>13, <2>1
  <2>3. /\ new \in CommandRecords /\ new.at = "tear" /\ new.get = {} /\ new.met = {}
        /\ new.op = a.op /\ new.todo = a.todo /\ new.marked = a.marked /\ new.opts = a.opts
        /\ new.rels = a.rels
    BY <1>4, <2>1 DEF CommandRecords, CommandStages
  <2>4. StageOf(new)
    BY <1>3, <1>4, <2>3 DEF StageOf, Writing
  <2>5. \A k \in Release!Kinds : (Got(new, k) <=> Got(a, k))
          /\ (HasWritten(new, k) <=> HasWritten(a, k)) /\ NamesFor(new, k) = NamesFor(a, k)
    BY <1>3, <2>3, KindsAre DEF Got, HasWritten, NamesFor, Writing
  <2>6. get \subseteq present' \cup met
    BY <1>2, <1>13
  <2>7. a.marked \subseteq present' \cup spoiled'
    BY <1>1, <1>2, <1>4, <1>5, <1>7, <1>8, <2>6 DEF HasGot
  <2>8. HasGot(cmd[c])'
    BY <1>3, <1>4, <2>2, <2>3, <2>5, <2>7 DEF HasGot
  <2>9. ~meddled[c] => Steady(cmd[c])'
    <3> SUFFICES ASSUME ~meddled[c], a.op = "download" PROVE Steady(cmd[c])'
      BY <2>2, <2>3 DEF Steady
    <3>1. met = {} /\ a.marked \subseteq present \cup get
      BY <1>1, <1>4 DEF Steady
    <3>2. t = {} /\ Release!ImagesOf(t) = {}
      BY <1>2, <1>13, <3>1 DEF Release!Repositories, Release!ImagesOf
    <3>3. present \subseteq present' /\ a.marked \subseteq present'
      BY <1>2, <2>6, <3>1, <3>2
    <3> QED
      BY <1>3, <1>4, <2>2, <2>3, <2>5, <3>3 DEF Steady
  <2> QED
    BY <1>3, <1>4, <1>6, <1>8, <1>9, <1>10, <1>11, <2>2, <2>3, <2>4, <2>8, <2>9, OneCommandMovesFiles
<1> QED
  BY <1>2, <1>12, <1>13

\* The manifest whose turn it is has not been written, and its files are there.
LEMMA TurnIs ==
    ASSUME NEW c \in Commands, StageOf(cmd[c]), cmd[c].at \in {"tear", "write"}
    PROVE  /\ Release!Turn(c) \in Release!Kinds /\ ~HasWritten(cmd[c], Release!Turn(c))
           /\ cmd[c].rels[Release!Turn(c)] # 0 /\ Got(cmd[c], Release!Turn(c))
           /\ Release!Turn(c) = "vmconfig" <=> cmd[c].todo = {"vmconfig", "components"}
           /\ Release!Turn(c) = "components" <=> cmd[c].todo = {"components"}
           /\ Release!Turn(c) = "templates" <=> cmd[c].todo = {"templates", "seeds"}
           /\ Release!Turn(c) = "seeds" <=> cmd[c].todo = {"seeds"}
           /\ Release!Turn(c) # "seeds" => cmd[c].op = "download"
           /\ Release!Turn(c) = TurnOf(cmd[c].todo)
<1>1. PICK t : t = cmd[c].todo
  OBVIOUS
<1>2. t \in Turns
  BY <1>1 DEF StageOf, Writing
<1>3. Release!Turn(c) = CASE "vmconfig" \in t -> "vmconfig"
                          [] "vmconfig" \notin t /\ "components" \in t -> "components"
                          [] t = {"templates", "seeds"} -> "templates"
                          [] OTHER -> "seeds"
  BY <1>1 DEF Release!Turn
<1>4. /\ t = {"vmconfig", "components"} => Release!Turn(c) = "vmconfig"
      /\ t = {"components"} => Release!Turn(c) = "components"
      /\ t = {"templates", "seeds"} => Release!Turn(c) = "templates"
      /\ t = {"seeds"} => Release!Turn(c) = "seeds"
  BY <1>3
<1>5. /\ {"vmconfig", "components"} # {"components"}
      /\ {"vmconfig", "components"} # {"templates", "seeds"}
      /\ {"vmconfig", "components"} # {"seeds"} /\ {"components"} # {"templates", "seeds"}
      /\ {"components"} # {"seeds"} /\ {"templates", "seeds"} # {"seeds"}
  OBVIOUS
<1>6. \/ t = {"vmconfig", "components"} \/ t = {"components"}
      \/ t = {"templates", "seeds"} \/ t = {"seeds"}
  BY <1>2 DEF Turns
<1>7. Release!Turn(c) # "seeds" => cmd[c].op = "download"
  BY <1>1, <1>4, <1>6 DEF StageOf, Writing
<1>8. cmd[c].rels[Release!Turn(c)] # 0 /\ Release!Turn(c) \in Release!Kinds
  BY <1>1, <1>4, <1>6, <1>7, KindsAre DEF StageOf, Writing
<1>9. ~HasWritten(cmd[c], Release!Turn(c)) /\ Got(cmd[c], Release!Turn(c))
  BY <1>1, <1>4, <1>5, <1>6 DEF HasWritten, Got, Writing
<1>10. Release!Turn(c) = TurnOf(cmd[c].todo)
  BY DEF Release!Turn, TurnOf
<1> QED
  BY <1>1, <1>4, <1>5, <1>6, <1>7, <1>8, <1>9, <1>10

\* A manifest is truncated: it marks nothing.
LEMMA TearManifestStep ==
    ASSUME ReleaseInv, NEW c \in Commands, Release!TearManifest(c)
    PROVE  ReleaseInv'
<1>1. PICK a, t : a = cmd[c] /\ t = Release!Turn(c)
  OBVIOUS
<1>2. /\ a.at = "tear" /\ ~Release!At(c, "resting")
      /\ cached' = [cached EXCEPT ![t] = Release!Torn]
      /\ cmd' = [cmd EXCEPT ![c].at = "write"]
      /\ UNCHANGED <<published, present, broken, torn, spoiled, mirror, runs, meddled>>
  BY <1>1 DEF Release!TearManifest, Release!files, Release!At, Release!Goto
<1>3. /\ a \in CommandRecords /\ StageOf(a) /\ HasGot(a) /\ (~meddled[c] => Steady(a))
      /\ DOMAIN cmd = Commands /\ present \subseteq ReleaseFiles
      /\ mirror \subseteq Release!Releases /\ cached \in [Release!Kinds -> Manifests]
  BY <1>1, <1>2, CommandIs
<1>4. t \in Release!Kinds /\ ~HasWritten(a, t) /\ t = TurnOf(a.todo)
  BY <1>1, <1>2, <1>3, TurnIs
<1>5. PICK new : new = [a EXCEPT !.at = "write"]
  OBVIOUS
<1>6. cmd' = [cmd EXCEPT ![c] = new] /\ cmd'[c] = new
  BY <1>1, <1>2, <1>3, <1>5
<1>7. /\ new \in CommandRecords /\ new.at = "write" /\ new.op = a.op /\ new.todo = a.todo
      /\ new.marked = a.marked /\ new.get = a.get /\ new.met = a.met
        /\ new.opts = a.opts /\ new.rels = a.rels
  BY <1>3, <1>5 DEF CommandRecords, CommandStages
<1>8. StageOf(new)
  BY <1>2, <1>3, <1>7 DEF StageOf, Writing
<1>9. \A k \in Release!Kinds : (Got(new, k) => Got(a, k))
        /\ (HasWritten(new, k) => (HasWritten(a, k) /\ k # t))
  <2>1. \A k \in Release!Kinds : HasWritten(new, k) => HasWritten(a, k)
    BY <1>2, <1>7, KindsAre DEF HasWritten, Writing
  <2>2. \A k \in Release!Kinds : Got(new, k) => Got(a, k)
    BY <1>2, <1>7, KindsAre DEF Got, Writing
  <2> QED
    BY <1>4, <2>1, <2>2
<1>10. HasGot(cmd[c])'
  <2>1. \A k \in Release!Kinds : NamesFor(new, k) = NamesFor(a, k)
    BY <1>7 DEF NamesFor
  <2>2. ASSUME a.op = "download", NEW k \in Release!Kinds, Got(new, k)
        PROVE  Release!FilesOf(k, NamesFor(new, k), new.rels[k]) \subseteq new.marked
    <3>1. Got(a, k) /\ NamesFor(new, k) = NamesFor(a, k) /\ new.rels[k] = a.rels[k]
      BY <1>7, <1>9, <2>1, <2>2
    <3>2. Release!FilesOf(k, NamesFor(a, k), a.rels[k]) \subseteq a.marked
      BY <1>3, <2>2, <3>1 DEF HasGot
    <3> QED
      BY <1>7, <3>1, <3>2
  <2> QED
    BY <1>2, <1>3, <1>6, <1>7, <2>2 DEF HasGot
<1>11. ~meddled[c] => Steady(cmd[c])'
  <2>1. \A k \in Release!Kinds : k # t => cached'[k] = cached[k]
    BY <1>2, <1>3
  <2>2. \A k \in Release!Kinds : HasWritten(new, k) => (HasWritten(a, k) /\ k # t)
    BY <1>9
  <2>3. ASSUME ~meddled[c], a.op = "download", NEW k \in Release!Kinds, HasWritten(new, k)
        PROVE  /\ cached'[k].rel = published
               /\ (k \in {"templates", "seeds"} =>
                     cached'[k].marked = Release!FilesOf(k, Release!Everything, published))
    <3>1. HasWritten(a, k) /\ cached'[k] = cached[k]
      BY <2>1, <2>2, <2>3
    <3> QED
      BY <1>3, <2>3, <3>1 DEF Steady
  <2>4. ~meddled[c] /\ a.op = "download" =>
          \A k \in Release!Kinds : new.rels[k] \in {0, published}
    BY <1>3, <1>7 DEF Steady
  <2>5. cached'[TurnOf(new.todo)] = Release!Torn
    BY <1>2, <1>3, <1>4, <1>7
  <2> QED
    BY <1>2, <1>3, <1>6, <1>7, <2>3, <2>4, <2>5 DEF Steady
<1>12. cached' \in [Release!Kinds -> Manifests]
  BY <1>2, <1>3 DEF Manifests
<1>13. Release!FlaggedIsThere'
  BY <1>2, <1>3, <1>4 DEF ReleaseInv, Release!FlaggedIsThere, Release!Torn
<1> QED
  BY <1>2, <1>3, <1>6, <1>7, <1>8, <1>10, <1>11, <1>12, <1>13, OneCommandMoves

\* A manifest is written: it marks only what is there.
LEMMA WriteManifestStep ==
    ASSUME ReleaseInv, NEW c \in Commands, Release!WriteManifest(c)
    PROVE  ReleaseInv'
<1>1. PICK a, t : a = cmd[c] /\ t = Release!Turn(c)
  OBVIOUS
<1>2. PICK m : m = [rel |-> a.rels[t],
                    marked |-> a.marked \cap Release!FilesOf(t, Release!Everything, a.rels[t])]
  OBVIOUS
<1>3. PICK at : at = IF t = "vmconfig" THEN "tear"
                     ELSE IF t \in {"components", "templates"} THEN "populate"
                     ELSE IF a.op = "seed" THEN "lookAgain"
                     ELSE IF a.marked = {} THEN "populate" ELSE "ok"
  OBVIOUS
<1>4. PICK todo : todo = CASE t = "vmconfig" -> {"components"}
                           [] t = "components" -> {"templates", "seeds"}
                           [] OTHER -> {"seeds"}
  OBVIOUS
<1>5. /\ a.at = "write" /\ ~Release!At(c, "resting")
      /\ \/ cached' = [cached EXCEPT ![t] = m]
         \/ cached[t] # Release!Torn /\ cached' = [cached EXCEPT ![t] = Release!Mixed]
      /\ cmd' = [cmd EXCEPT ![c].at = at, ![c].todo = todo]
      /\ UNCHANGED <<published, present, broken, torn, spoiled, mirror, runs, meddled>>
  BY <1>1, <1>2, <1>3, <1>4
     DEF Release!WriteManifest, Release!files, Release!At, Release!Loaded, Release!Marked
<1>6. /\ a \in CommandRecords /\ StageOf(a) /\ HasGot(a) /\ (~meddled[c] => Steady(a))
      /\ DOMAIN cmd = Commands /\ present \subseteq ReleaseFiles
      /\ \A k \in Release!Kinds : a.rels[k] # 0 => a.rels[k] \in Release!Releases
      /\ mirror \subseteq Release!Releases /\ cached \in [Release!Kinds -> Manifests]
  BY <1>1, <1>5, CommandIs
<1>7. /\ t \in Release!Kinds /\ ~HasWritten(a, t) /\ a.rels[t] # 0 /\ Got(a, t)
      /\ t = "vmconfig" <=> a.todo = {"vmconfig", "components"}
      /\ t = "components" <=> a.todo = {"components"}
      /\ t = "templates" <=> a.todo = {"templates", "seeds"}
      /\ t = "seeds" <=> a.todo = {"seeds"}
      /\ t # "seeds" => a.op = "download"
  BY <1>1, <1>5, <1>6, TurnIs
<1>8. PICK new : new = [a EXCEPT !.at = at, !.todo = todo]
  OBVIOUS
<1>9. cmd' = [cmd EXCEPT ![c] = new] /\ cmd'[c] = new
  BY <1>1, <1>5, <1>6, <1>8
<1>10. /\ t = "vmconfig" => at = "tear" /\ todo = {"components"}
       /\ t = "components" => at = "populate" /\ todo = {"templates", "seeds"}
       /\ t = "templates" => at = "populate" /\ todo = {"seeds"}
       /\ t = "seeds" => todo = {"seeds"}
       /\ t = "seeds" => (at = "lookAgain" /\ a.op = "seed") \/ at \in {"populate", "ok"}
       /\ t \in {"vmconfig", "components", "templates", "seeds"}
  <2>1. t \in {"vmconfig", "components", "templates", "seeds"}
    BY <1>7, KindsAre
  <2>2. CASE t = "vmconfig"
    BY <1>3, <1>4, <2>1, <2>2
  <2>3. CASE t = "components"
    BY <1>3, <1>4, <2>1, <2>3
  <2>4. CASE t = "templates"
    BY <1>3, <1>4, <2>1, <2>4
  <2>5. CASE t = "seeds"
    <3>1. todo = {"seeds"}
      BY <1>4, <2>5
    <3>2. at = IF a.op = "seed" THEN "lookAgain" ELSE IF a.marked = {} THEN "populate" ELSE "ok"
      BY <1>3, <2>5
    <3> QED
      BY <2>1, <2>5, <3>1, <3>2
  <2> QED
    BY <2>1, <2>2, <2>3, <2>4, <2>5
<1>11. /\ new \in CommandRecords /\ new.at = at /\ new.op = a.op /\ new.todo = todo
       /\ new.marked = a.marked /\ new.get = a.get /\ new.met = a.met
        /\ new.opts = a.opts /\ new.rels = a.rels
  <2>1. todo \in SUBSET Release!Kinds
    <3>1. {"components"} \subseteq Release!Kinds /\ {"templates", "seeds"} \subseteq Release!Kinds
          /\ {"seeds"} \subseteq Release!Kinds
      BY KindsAre
    <3>2. todo \in {{"components"}, {"templates", "seeds"}, {"seeds"}}
      BY <1>10
    <3> QED
      BY <3>1, <3>2
  <2>2. at \in CommandStages
    BY <1>10 DEF CommandStages
  <2> QED
    BY <1>6, <1>8, <2>1, <2>2 DEF CommandRecords
<1>12. StageOf(new)
  <2>1. a.op = "download" => \A k \in Release!Kinds : a.rels[k] # 0
    BY <1>5, <1>6 DEF StageOf, Writing
  <2>2. a.rels["seeds"] # 0
    BY <1>5, <1>6 DEF StageOf, Writing
  <2>3. /\ at \in {"tear", "populate", "lookAgain", "ok"}
        /\ at = "lookAgain" => a.op = "seed"
        /\ at = "populate" => todo \in {{"templates", "seeds"}, {"seeds"}}
        /\ todo \in Turns
        /\ a.op # "download" => todo = {"seeds"}
    BY <1>7, <1>10 DEF Turns
  <2> QED
    BY <1>11, <2>1, <2>2, <2>3 DEF StageOf, Writing
<1>13. /\ {"vmconfig", "components"} # {"components"}
       /\ {"vmconfig", "components"} # {"templates", "seeds"}
       /\ {"vmconfig", "components"} # {"seeds"} /\ {"components"} # {"templates", "seeds"}
       /\ {"components"} # {"seeds"} /\ {"templates", "seeds"} # {"seeds"}
  OBVIOUS
<1>14. \A k \in Release!Kinds : Got(new, k) => Got(a, k)
  BY <1>5, <1>7, <1>10, <1>11, <1>13, KindsAre DEF Got, Writing
<1>15. \A k \in Release!Kinds : HasWritten(new, k) => HasWritten(a, k) \/ k = t
  BY <1>5, <1>7, <1>10, <1>11, <1>13, KindsAre DEF HasWritten, Writing
<1>16. a.op = "download" => a.rels["components"] \in mirror
  <2>1. a.op = "download" => a.rels["components"] # 0
    BY <1>5, <1>6, KindsAre DEF StageOf, Writing
  <2> QED
    BY <1>5, <1>6, <2>1 DEF HasGot
<1>17. HasGot(cmd[c])'
  <2>1. at # "seed"
    BY <1>10
  <2> QED
    BY <1>5, <1>6, <1>9, <1>11, <1>14, <1>16, <2>1 DEF HasGot, NamesFor
<1>18. m.rel = a.rels[t] /\ m.marked \subseteq a.marked /\ m \in Manifests
  <2>1. m.rel = a.rels[t] /\ m.marked \subseteq a.marked
    BY <1>2
  <2>2. a.rels[t] \in Release!Releases /\ a.marked \in SUBSET ReleaseFiles
    BY <1>6, <1>7 DEF CommandRecords
  <2> QED
    BY <1>2, <2>1, <2>2 DEF Manifests
<1>19. /\ cached' \in [Release!Kinds -> Manifests]
       /\ cached[t] = Release!Torn => cached'[t] = m
       /\ cached'[t] \in {m, Release!Mixed}
       /\ \A k \in Release!Kinds : k # t => cached'[k] = cached[k]
  <2>1. Release!Mixed \in Manifests
    BY DEF Manifests
  <2> QED
    <3>1. CASE cached' = [cached EXCEPT ![t] = m]
      BY <1>6, <1>7, <1>18, <3>1
    <3>2. CASE cached[t] # Release!Torn /\ cached' = [cached EXCEPT ![t] = Release!Mixed]
      BY <1>6, <1>7, <2>1, <3>2
    <3> QED
      BY <1>5, <3>1, <3>2
<1>20. Release!FlaggedIsThere'
  <2>1. a.marked \subseteq present \cup spoiled
    BY <1>5, <1>6 DEF HasGot
  <2>2. cached'[t].marked \subseteq present \cup spoiled
    BY <1>18, <1>19, <2>1 DEF Release!Mixed
  <2>3. \A k \in Release!Kinds : cached'[k].marked \subseteq present \cup spoiled
    BY <1>19, <2>2 DEF ReleaseInv, Release!FlaggedIsThere
  <2> QED
    BY <1>5, <2>3 DEF Release!FlaggedIsThere
<1>21. a.op = "download" /\ t \in {"templates", "seeds"} =>
          m.marked = Release!FilesOf(t, Release!Everything, a.rels[t])
  BY <1>2, <1>6, <1>7 DEF HasGot, NamesFor
<1>22. ~meddled[c] => Steady(cmd[c])'
  <2>1. SUFFICES ASSUME ~meddled[c], a.op = "download" PROVE Steady(cmd[c])'
    BY <1>9, <1>11 DEF Steady
  <2>2. a.rels[t] = published /\ cached'[t] = m
    <3>1. t = TurnOf(a.todo)
      BY <1>1, <1>5, <1>6, TurnIs
    <3>2. cached[t] = Release!Torn
      BY <1>5, <1>6, <2>1, <3>1 DEF Steady
    <3> QED
      BY <1>6, <1>7, <1>19, <2>1, <3>2 DEF Steady
  <2>3. ASSUME NEW k \in Release!Kinds, HasWritten(new, k)
        PROVE  /\ cached'[k].rel = published
               /\ k \in {"templates", "seeds"} =>
                    cached'[k].marked = Release!FilesOf(k, Release!Everything, published)
    <3>1. CASE k = t
      BY <1>18, <1>19, <1>21, <2>1, <2>2, <3>1
    <3>2. CASE k # t
      BY <1>6, <1>15, <1>19, <2>1, <2>3, <3>2 DEF Steady
    <3> QED
      BY <3>1, <3>2
  <2> QED
    BY <1>5, <1>6, <1>9, <1>10, <1>11, <2>1, <2>3 DEF Steady
<1> QED
  BY <1>5, <1>6, <1>9, <1>11, <1>12, <1>17, <1>19, <1>20, <1>22, OneCommandMoves

\* The commands that want a seed mark nothing that is not there.
LEMMA SeedSteps ==
    ASSUME ReleaseInv, NEW c \in Commands,
           Release!Look(c) \/ Release!FetchSeeds(c) \/ Release!ReadSeeds(c)
    PROVE  ReleaseInv'
<1>1. PICK a : a = cmd[c]
  OBVIOUS
<1>2. /\ ~Release!At(c, "resting") /\ a.at \in {"look", "lookAgain", "fetchSeeds", "readSeeds"}
      /\ UNCHANGED <<published, present, broken, torn, spoiled, cached, mirror, runs, meddled>>
  BY <1>1 DEF Release!Look, Release!FetchSeeds, Release!ReadSeeds, Release!files, Release!At
<1>3. /\ a \in CommandRecords /\ StageOf(a) /\ HasGot(a)
      /\ DOMAIN cmd = Commands /\ present \subseteq ReleaseFiles
      /\ published \in Release!Releases /\ published # 0
      /\ mirror \subseteq Release!Releases /\ cached \in [Release!Kinds -> Manifests]
  BY <1>1, <1>2, CommandIs
<1>4. /\ a.op # "download" /\ (a.at # "readSeeds" => a.op = "seed")
      /\ (a.at = "readSeeds" => a.op = "seeds")
  BY <1>2, <1>3 DEF StageOf
<1>5. Release!FlaggedIsThere'
  BY <1>2 DEF ReleaseInv, Release!FlaggedIsThere
<1>6. ASSUME NEW at \in {"seed", "fetchSeeds"}, a.op = "seed",
             at = "seed" => [name |-> "seed", rel |-> a.want] \in present \cup spoiled,
             cmd' = [cmd EXCEPT ![c].at = at]
      PROVE  ReleaseInv'
  <2>1. PICK new : new = [a EXCEPT !.at = at]
    OBVIOUS
  <2>2. cmd' = [cmd EXCEPT ![c] = new] /\ cmd'[c] = new
    BY <1>1, <1>3, <1>6, <2>1
  <2>3. /\ new \in CommandRecords /\ new.at = at /\ new.op = "seed"
        /\ new.marked = a.marked /\ new.get = a.get /\ new.met = a.met
        /\ new.want = a.want
    BY <1>3, <1>6, <2>1 DEF CommandRecords, CommandStages
  <2>4. StageOf(new)
    BY <2>3 DEF StageOf, Writing
  <2>5. HasGot(cmd[c])'
    BY <1>2, <1>3, <1>6, <2>2, <2>3 DEF HasGot
  <2>6. Steady(cmd[c])'
    BY <2>2, <2>3 DEF Steady
  <2> QED
    BY <1>2, <1>3, <1>5, <2>2, <2>3, <2>4, <2>5, <2>6, OneCommandMoves
<1>7. ASSUME NEW at \in {"populate", "tear"}, NEW r \in Release!Releases,
             cmd' = [cmd EXCEPT ![c].rels["seeds"] = r, ![c].todo = {"seeds"}, ![c].at = at]
      PROVE  ReleaseInv'
  <2>1. PICK rels : rels = [a.rels EXCEPT !["seeds"] = r]
    OBVIOUS
  <2>2. PICK new : new = [a EXCEPT !.rels = rels, !.todo = {"seeds"}, !.at = at]
    OBVIOUS
  <2>3. cmd' = [cmd EXCEPT ![c] = new] /\ cmd'[c] = new
    BY <1>1, <1>3, <1>7, <2>1, <2>2 DEF CommandRecords
  <2>4. rels \in [Release!Kinds -> 0..MaxRelease] /\ rels["seeds"] = r /\ r # 0
    BY <1>3, <2>1, KindsAre, OperationsAssumption DEF CommandRecords, Release!Releases
  <2>5. {"seeds"} \in SUBSET Release!Kinds
    BY KindsAre
  <2>6. /\ new \in CommandRecords /\ new.at = at /\ new.op = a.op /\ new.todo = {"seeds"}
        /\ new.marked = a.marked /\ new.get = a.get /\ new.met = a.met
        /\ new.rels = rels
    BY <1>3, <2>2, <2>4, <2>5 DEF CommandRecords, CommandStages
  <2>7. StageOf(new)
    BY <1>4, <2>4, <2>6 DEF StageOf, Writing, Turns
  <2>8. HasGot(cmd[c])'
    BY <1>2, <1>3, <1>4, <2>3, <2>6 DEF HasGot
  <2>9. Steady(cmd[c])'
    BY <1>4, <2>3, <2>6 DEF Steady
  <2> QED
    BY <1>2, <1>3, <1>5, <2>3, <2>6, <2>7, <2>8, <2>9, OneCommandMoves
<1>8. ASSUME cmd' = [cmd EXCEPT ![c] = Release!Resting] PROVE ReleaseInv'
  BY <1>2, <1>3, <1>8, CommandEnds
<1>9. CASE Release!Look(c)
  <2>1. a.op = "seed"
    BY <1>1, <1>4, <1>9 DEF Release!Look, Release!At
  <2>2. Release!SeedThere(a.want) => [name |-> "seed", rel |-> a.want] \in present \cup spoiled
    BY DEF Release!SeedThere, ReleaseInv
  <2>3. \/ Release!SeedThere(a.want) /\ cmd' = [cmd EXCEPT ![c].at = "seed"]
        \/ cmd' = [cmd EXCEPT ![c].at = "fetchSeeds"]
    BY <1>1, <1>9 DEF Release!Look, Release!Goto
  <2> QED
    BY <1>6, <2>1, <2>2, <2>3
<1>10. CASE Release!FetchSeeds(c)
  <2>1. \/ cmd' = [cmd EXCEPT ![c] = Release!Resting]
        \/ cmd' = [cmd EXCEPT ![c].rels["seeds"] = published, ![c].todo = {"seeds"},
                              ![c].at = "populate"]
    BY <1>10 DEF Release!FetchSeeds, Release!Fail
  <2> QED
    BY <1>3, <1>7, <1>8, <2>1
<1>11. CASE Release!ReadSeeds(c)
  <2>1. PICK rel, at :
          /\ rel = IF cached["seeds"] = Release!Missing THEN published ELSE cached["seeds"].rel
          /\ at = IF cached["seeds"] = Release!Missing THEN "tear" ELSE "populate"
    OBVIOUS
  <2>2. \/ cmd' = [cmd EXCEPT ![c] = Release!Resting]
        \/ /\ cached["seeds"] \notin {Release!Torn, Release!Mixed}
           /\ cmd' = [cmd EXCEPT ![c].rels["seeds"] = rel, ![c].todo = {"seeds"}, ![c].at = at]
    BY <1>11, <2>1 DEF Release!ReadSeeds, Release!Fail
  <2>3. cached["seeds"] \notin {Release!Torn, Release!Mixed} => rel \in Release!Releases
    BY <1>3, <2>1, KindsAre DEF Manifests
  <2>4. at \in {"populate", "tear"}
    BY <2>1
  <2> QED
    BY <1>7, <1>8, <2>2, <2>3, <2>4
<1> QED
  BY <1>9, <1>10, <1>11

\* No step of DepsRelease breaks the invariant.
LEMMA ReleaseStep == ReleaseInv /\ [Release!Next]_releaseVars => ReleaseInv'
<1> SUFFICES ASSUME ReleaseInv, [Release!Next]_releaseVars PROVE ReleaseInv'
  OBVIOUS
<1>1. CASE UNCHANGED releaseVars
  BY <1>1 DEF releaseVars, ReleaseInv, ReleaseTypes, Meddled, StageOf, HasGot, Steady,
     TurnOf, Release!At, Release!FlaggedIsThere
<1>2. ASSUME NEW c \in Commands, Release!End(c) PROVE ReleaseInv'
  BY <1>2, CommandEnds DEF Release!End, Release!files, ReleaseInv, ReleaseTypes
<1>3. CASE Release!Publish
  <2>1. /\ published' \in Release!Releases
        /\ meddled' \in [Commands -> BOOLEAN]
        /\ \A c \in Commands : meddled'[c] = (meddled[c] \/ ~Release!At(c, "resting"))
        /\ UNCHANGED <<present, broken, torn, spoiled, cached, mirror, cmd, runs>>
    BY <1>3, OperationsAssumption DEF Release!Publish, Release!files, ReleaseInv, ReleaseTypes, Release!Releases
  <2>2. ReleaseTypes' /\ Meddled' /\ Release!FlaggedIsThere'
    BY <2>1 DEF ReleaseInv, ReleaseTypes, Meddled, Release!At, Release!FlaggedIsThere
  <2>3. ASSUME NEW c \in Commands, ~Release!At(c, "resting")'
        PROVE  StageOf(cmd[c])' /\ HasGot(cmd[c])' /\ meddled'[c]
    <3>1. cmd'[c] = cmd[c] /\ ~Release!At(c, "resting") /\ StageOf(cmd[c]) /\ HasGot(cmd[c])
      BY <2>1, <2>3 DEF ReleaseInv, Release!At
    <3>2. StageOf(cmd[c])'
      BY <3>1 DEF StageOf
    <3>3. HasGot(cmd[c])'
      BY <2>1, <3>1 DEF HasGot
    <3> QED
      BY <2>1, <3>1, <3>2, <3>3
  <2> QED
    BY <2>1, <2>2, <2>3 DEF ReleaseInv
<1>4. ASSUME NEW c \in Commands, NEW opts \in Selections, Release!Start(c, "download", "fetch", opts)
      PROVE  ReleaseInv'
  BY <1>4, StartCommand
<1>5. ASSUME NEW c \in Commands,
             Release!Start(c, "seed", "look", {}) \/ Release!Start(c, "seeds", "readSeeds", {})
      PROVE  ReleaseInv'
  BY <1>5, StartCommand
<1> QED
  BY <1>1, <1>2, <1>3, <1>4, <1>5, FetchManifestStep, FetchGitStep, DownloadPendingStep,
     PopulateStep, TransferredStep, TearManifestStep, WriteManifestStep, SeedSteps DEF Release!Next

\* A download that is over has what is verified off-line, for its selection
\* and for every smaller one.
LEMMA ReleaseEnough == ReleaseInv => DownloadsSound
<1> SUFFICES ASSUME ReleaseInv PROVE DownloadsSound
  OBVIOUS
<1>1. Release!SeedReturned
  BY DEF ReleaseInv, Release!SeedReturned, Release!At, HasGot
<1>2. ASSUME NEW c \in Commands, Release!At(c, "ok"), cmd[c].op = "download", ~meddled[c]
      PROVE  /\ \A opts \in SUBSET cmd[c].opts : Release!VerifyOffline(opts)
             /\ ~Release!NeedsUpdate
  <2>1. PICK a : a = cmd[c]
    OBVIOUS
  <2>2. /\ a \in CommandRecords /\ StageOf(a) /\ HasGot(a) /\ Steady(a)
        /\ published \in Release!Releases /\ published # 0
    BY <1>2, <2>1, CommandIs DEF Release!At
  <2>3. /\ \A k \in Release!Kinds : a.rels[k] = published /\ cached[k].rel = published
        /\ \A k \in {"templates", "seeds"} :
             cached[k].marked = Release!FilesOf(k, Release!Everything, published)
    BY <1>2, <2>1, <2>2, KindsAre DEF StageOf, Steady, HasWritten, Release!At
  <2>4. \A k \in Release!Kinds : Release!FilesOf(k, NamesFor(a, k), published) \subseteq present
    <3>1. \A k \in Release!Kinds : Got(a, k)
      <4>1. a.at = "ok"
        BY <1>2, <2>1 DEF Release!At
      <4> QED
        BY <4>1, KindsAre DEF Got
    <3>2. a.marked \subseteq present
      BY <1>2, <2>1, <2>2 DEF HasGot, Steady, Release!At
    <3> QED
      BY <1>2, <2>1, <2>2, <2>3, <3>1, <3>2 DEF HasGot
  <2>5. published \in mirror
    BY <1>2, <2>1, <2>2, <2>3, KindsAre DEF HasGot, Release!At
  <2>6. ASSUME NEW opts \in SUBSET a.opts, NEW k \in {"vmconfig", "components"}
        PROVE  Release!Complete(k, Release!Selected(opts))
    <3>1. Release!Selected(opts) \subseteq Release!Selected(a.opts)
      BY DEF Release!Selected
    <3>2. NamesFor(a, k) = Release!Selected(a.opts) /\ k \in Release!Kinds
      BY KindsAre DEF NamesFor
    <3>3. Release!FilesOf(k, Release!Selected(opts), published)
            \subseteq Release!FilesOf(k, Release!Selected(a.opts), published)
      BY <3>1, <3>2, FilesAre
    <3>4. Release!FilesOf(k, Release!Selected(a.opts), published) \subseteq present
      BY <2>4, <3>2
    <3> QED
      BY <2>2, <2>3, <3>2, <3>3, <3>4 DEF Release!Complete
  <2>7. ASSUME NEW k \in {"templates", "seeds"} PROVE Release!Complete(k, Release!Everything)
    <3>1. NamesFor(a, k) = Release!Everything /\ k \in Release!Kinds
      BY KindsAre DEF NamesFor
    <3> QED
      BY <2>2, <2>3, <2>4, <3>1 DEF Release!Complete
  <2>8. ASSUME NEW opts \in SUBSET a.opts PROVE Release!VerifyOffline(opts)
    <3>1. opts \ {"addon"} \in SUBSET a.opts
      OBVIOUS
    <3>2. Release!Verify(opts)
      BY <2>6, <3>1 DEF Release!Verify
    <3>3. Release!Complete("components", Release!Selected(opts))
      BY <2>6
    <3> QED
      BY <2>3, <2>5, <2>7, <3>2, <3>3, KindsAre DEF Release!VerifyOffline
  <2> QED
    BY <2>1, <2>3, <2>8, KindsAre DEF Release!NeedsUpdate
<1>3. Release!DownloadRepairs
  BY <1>2 DEF Release!DownloadRepairs
<1> QED
  BY <1>1, <1>3 DEF ReleaseInv, DownloadsSound, Release!DownloadsSound

\* The cache of a release, for any number of commands, releases and
\* images: commands mark, and lose, only what is there or what two transfers
\* met over or a kill tore; a download that nothing disturbs, and that
\* succeeds, has repaired whatever others have left; a seed that is returned
\* is that of the release that was asked for, and whole with the same exception
\* (internal/deps/download.go: Download, seeds_cache.go: EnsureSeedSnapshot).
THEOREM DownloadsAreSound == Release!Spec => []DownloadsSound
<1>1. Release!Spec => []ReleaseInv
  <2>1. ReleaseInv /\ [Release!Next]_Release!dvars => ReleaseInv'
    BY ReleaseStep DEF Release!dvars, Release!files, releaseVars
  <2> QED
    BY ReleaseInitially, <2>1, PTL DEF Release!Spec
<1> QED
  BY <1>1, ReleaseEnough, PTL

\* What a command transfers and what it has met are of the same names; an image
\* whose repository cannot be read is not there.
TransfersNear ==
    \A c \in Commands : Release!At(c, "transfer") =>
        \A f \in cmd[c].met : \E g \in cmd[c].get : g.name = f.name
FilesKnown ==
    /\ spoiled \subseteq ReleaseFiles /\ broken \subseteq ReleaseFiles \ present
    /\ torn \subseteq Release!NamesOf("components")
    /\ present \cap Release!ImagesOf(torn) = {}
    /\ TransfersNear

\* Nobody begins or goes on with a transfer.
LEMMA FilesStay ==
    ASSUME FilesKnown, UNCHANGED <<present, broken, torn, spoiled>>,
           NEW c \in Commands, ~Release!At(c, "transfer")',
           \A d \in Commands \ {c} : cmd'[d] = cmd[d]
    PROVE  FilesKnown'
<1>1. \A d \in Commands : Release!At(d, "transfer")' =>
        Release!At(d, "transfer") /\ cmd'[d] = cmd[d]
  BY DEF Release!At
<1>2. TransfersNear'
  BY <1>1 DEF FilesKnown, TransfersNear
<1> QED
  BY <1>2 DEF FilesKnown, Release!ImagesOf

\* Files that share something with one another have its name.
LEMMA SharedNames ==
    ASSUME NEW f \in ReleaseFiles, NEW g \in Release!Shared(f)
    PROVE  g.name = f.name
BY DEF Release!Shared, Release!ImagesOf

\* A transfer begins (DownloadPending, Populate).
LEMMA FilesBeginTransfer ==
    ASSUME ReleaseInv, FilesKnown, NEW c \in Commands,
           NEW w, w \subseteq ReleaseFiles, NEW todo, Release!BeginTransfer(c, w, todo),
           ~Release!At(c, "resting")
    PROVE  FilesKnown'
<1>1. PICK get, others : /\ get = w \ present
                         /\ others = {d \in Commands \ {c} : Release!At(d, "transfer")}
  OBVIOUS
<1>2. PICK met : met = UNION {Release!Meets(c, get, d) : d \in others}
  OBVIOUS
<1>3. get \subseteq ReleaseFiles
  BY <1>1
<1>4. ASSUME NEW d \in others
      PROVE  /\ Release!Meets(c, get, d) \subseteq ReleaseFiles
             /\ \A f \in Release!Meets(c, get, d) :
                  /\ \E g \in get : g.name = f.name
                  /\ \E g \in cmd[d].get : g.name = f.name
  <2>1. cmd[d] \in CommandRecords
    BY <1>1 DEF ReleaseInv, ReleaseTypes, Release!At
  <2>2. ASSUME NEW f \in Release!Meets(c, get, d)
        PROVE  f \in ReleaseFiles /\ (\E g \in get : g.name = f.name)
                 /\ \E g \in cmd[d].get : g.name = f.name
    <3>1. PICK g \in get : f \in Release!Shared(g) /\ Release!Shared(g) \cap cmd[d].get # {}
      BY DEF Release!Meets
    <3>2. PICK h \in cmd[d].get : h \in Release!Shared(g)
      BY <3>1
    <3>3. g \in ReleaseFiles /\ f.name = g.name /\ h.name = g.name
      BY <1>3, <3>1, <3>2, SharedNames
    <3>4. f \in ReleaseFiles
      BY <3>1, <3>3, SharedAre
    <3> QED
      BY <3>3, <3>4
  <2> QED
    BY <2>2
<1>5. /\ cmd' = [d \in Commands |->
            IF d = c THEN [cmd[c] EXCEPT !.at = "transfer", !.todo = todo, !.get = get,
                                         !.met = met, !.marked = @ \cup w]
            ELSE IF d \in others THEN [cmd[d] EXCEPT !.met = @ \cup Release!Meets(c, get, d)]
            ELSE cmd[d]]
      /\ spoiled' = spoiled \cup met /\ UNCHANGED <<present, broken, torn>>
  BY <1>1, <1>2 DEF Release!BeginTransfer
<1>6. met \subseteq ReleaseFiles /\ \A f \in met : \E g \in get : g.name = f.name
  BY <1>2, <1>4
<1>7. ASSUME NEW d \in Commands, Release!At(d, "transfer")', NEW f \in cmd'[d].met
      PROVE  \E g \in cmd'[d].get : g.name = f.name
  <2>1. CASE d = c
    <3>1. PICK a : a = cmd[c]
      OBVIOUS
    <3>2. cmd'[d] = [a EXCEPT !.at = "transfer", !.todo = todo, !.get = get,
                              !.met = met, !.marked = @ \cup w]
      BY <1>5, <2>1, <3>1
    <3>3. cmd'[d].met \subseteq met /\ (cmd'[d].met # {} => cmd'[d].get = get)
      <4>1. a \in CommandRecords
        BY <3>1 DEF ReleaseInv, ReleaseTypes
      <4> QED
        BY <3>2, <4>1 DEF CommandRecords
    <3> QED
      BY <1>6, <1>7, <3>3
  <2>2. CASE d \in others
    <3>1. PICK a, more : a = cmd[d] /\ more = Release!Meets(c, get, d)
      OBVIOUS
    <3>2. a \in CommandRecords /\ d # c /\ Release!At(d, "transfer")
      BY <1>1, <2>2, <3>1 DEF ReleaseInv, ReleaseTypes, Release!At
    <3>3. cmd'[d] = [a EXCEPT !.met = @ \cup more]
      BY <1>5, <2>2, <3>1, <3>2
    <3>4. cmd'[d].met = a.met \cup more /\ cmd'[d].get = a.get
      BY <3>2, <3>3 DEF CommandRecords
    <3>5. CASE f \in a.met
      BY <3>1, <3>2, <3>4, <3>5 DEF FilesKnown, TransfersNear
    <3>6. CASE f \in more
      BY <1>4, <2>2, <3>1, <3>4, <3>6
    <3> QED
      BY <1>7, <3>4, <3>5, <3>6
  <2>3. CASE d # c /\ d \notin others
    BY <1>1, <1>5, <1>7, <2>3 DEF Release!At
  <2> QED
    BY <2>1, <2>2, <2>3
<1>8. TransfersNear'
  BY <1>7 DEF TransfersNear
<1> QED
  BY <1>5, <1>6, <1>8 DEF FilesKnown, Release!ImagesOf

\* A transfer is over (Transferred).
LEMMA FilesTransferred ==
    ASSUME ReleaseInv, FilesKnown, NEW c \in Commands, Release!Transferred(c)
    PROVE  FilesKnown'
<1>1. PICK get, met, a : a = cmd[c] /\ get = a.get /\ met = a.met
  OBVIOUS
<1>2. /\ a \in CommandRecords /\ Release!At(c, "transfer") /\ DOMAIN cmd = Commands
      /\ get \subseteq ReleaseFiles /\ met \subseteq ReleaseFiles /\ present \subseteq ReleaseFiles
  BY <1>1 DEF Release!Transferred, Release!At, ReleaseInv, ReleaseTypes, CommandRecords
<1>3. PICK how, t, now :
        /\ t \subseteq Release!Repositories(IF how = "killed" THEN get ELSE met)
        /\ now \subseteq get \cup (met \cap (present \cup broken))
        /\ now \cap Release!ImagesOf(t) = {}
        /\ present' = (present \ (met \cup Release!ImagesOf(t))) \cup now
        /\ broken' = (broken \cup present \cup (IF how = "done" THEN get ELSE {})) \ present'
        /\ torn' = (torn \ Release!Repositories(get)) \cup t
        /\ spoiled' \subseteq spoiled \cup Release!ImagesOf(t)
        /\ IF how = "done"
           THEN cmd' = [cmd EXCEPT ![c].at = "tear", ![c].get = {}, ![c].met = {}]
           ELSE cmd' = [cmd EXCEPT ![c] = Release!Resting]
  BY <1>1 DEF Release!Transferred, Release!Fail
<1>4. Release!ImagesOf(t) \subseteq ReleaseFiles /\ t \subseteq Release!NamesOf("components")
  BY <1>3, SharedAre DEF Release!ImagesOf, Release!Repositories
<1>5. /\ spoiled' \subseteq ReleaseFiles /\ broken' \subseteq ReleaseFiles \ present'
      /\ torn' \subseteq Release!NamesOf("components")
  BY <1>2, <1>3, <1>4 DEF FilesKnown
<1>6. ASSUME NEW f \in present', f \in Release!ImagesOf(torn') PROVE FALSE
  <2>1. f \in Release!AllFiles /\ f.name \in torn' /\ f.name \in Release!NamesOf("components")
    BY <1>6 DEF Release!ImagesOf
  <2>2. CASE f.name \in t
    <3>1. f \in Release!ImagesOf(t)
      BY <2>1, <2>2 DEF Release!ImagesOf
    <3> QED
      BY <1>3, <1>6, <3>1
  <2>3. CASE f.name \in torn \ Release!Repositories(get)
    <3>1. f \in Release!ImagesOf(torn)
      BY <2>1, <2>3 DEF Release!ImagesOf
    <3>2. f \notin present
      BY <3>1 DEF FilesKnown
    <3>3. f \in now /\ (f \in get \/ f \in met)
      BY <1>3, <1>6, <3>2
    <3>4. PICK g \in get : g.name = f.name
      BY <1>1, <1>2, <3>3 DEF FilesKnown, TransfersNear
    <3>5. f.name \in Release!Repositories(get)
      BY <2>1, <3>4 DEF Release!Repositories
    <3> QED
      BY <2>3, <3>5
  <2> QED
    BY <1>3, <2>1, <2>2, <2>3
<1>7. ~Release!At(c, "transfer")' /\ \A d \in Commands \ {c} : cmd'[d] = cmd[d]
  <2>1. CASE how = "done"
    <3>1. cmd' = [cmd EXCEPT ![c] = [a EXCEPT !.at = "tear", !.get = {}, !.met = {}]]
      BY <1>1, <1>2, <1>3, <2>1
    <3>2. cmd'[c] = [a EXCEPT !.at = "tear", !.get = {}, !.met = {}]
      BY <1>2, <3>1
    <3>3. cmd'[c].at = "tear"
      BY <1>2, <3>2 DEF CommandRecords
    <3> QED
      BY <1>2, <3>1, <3>3 DEF Release!At
  <2>2. CASE how # "done"
    BY <1>2, <1>3, <2>2 DEF Release!Resting, Release!At
  <2> QED
    BY <2>1, <2>2
<1>8. TransfersNear'
  BY <1>7 DEF FilesKnown, TransfersNear, Release!At
<1> QED
  BY <1>5, <1>6, <1>8 DEF FilesKnown

\* No step of DepsRelease gives a file that is none, or one that is both there
\* and not.
LEMMA FilesStep ==
    ReleaseInv /\ FilesKnown /\ [Release!Next]_releaseVars => FilesKnown'
<1> SUFFICES ASSUME ReleaseInv, FilesKnown, [Release!Next]_releaseVars PROVE FilesKnown'
  OBVIOUS
<1>1. CASE UNCHANGED releaseVars \/ Release!Publish
  BY <1>1 DEF Release!Publish, Release!files, releaseVars, FilesKnown, TransfersNear,
     Release!ImagesOf, Release!At
<1>2. ASSUME NEW c \in Commands, NEW op, NEW at \in {"fetch", "look", "readSeeds"}, NEW opts,
             Release!Start(c, op, at, opts)
      PROVE  FilesKnown'
  <2>1. /\ cmd'[c].at = at /\ \A d \in Commands \ {c} : cmd'[d] = cmd[d]
        /\ UNCHANGED <<present, broken, torn, spoiled>>
    BY <1>2 DEF Release!Start, Release!files, ReleaseInv, ReleaseTypes
  <2> QED
    BY <2>1, FilesStay DEF Release!At
<1>3. ASSUME NEW c \in Commands,
             \/ \E i \in 1..4 : Release!FetchManifest(c, i)
             \/ Release!FetchGit(c) \/ Release!TearManifest(c) \/ Release!WriteManifest(c)
             \/ Release!Look(c) \/ Release!FetchSeeds(c) \/ Release!ReadSeeds(c) \/ Release!End(c)
      PROVE  FilesKnown'
  <2>1. PICK a : a = cmd[c]
    OBVIOUS
  <2>2. /\ UNCHANGED <<present, broken, torn, spoiled>>
        /\ ~Release!At(c, "resting") /\ ~Release!At(c, "transfer")
    BY <1>3 DEF Release!FetchManifest, Release!FetchGit, Release!TearManifest,
       Release!WriteManifest, Release!Look, Release!FetchSeeds, Release!ReadSeeds,
       Release!End, Release!files, Release!At
  <2>3. a \in CommandRecords /\ DOMAIN cmd = Commands
    BY <2>1, <2>2 DEF ReleaseInv, ReleaseTypes
  <2>4. PICK v : cmd' = [cmd EXCEPT ![c] = v] /\ v.at # "transfer"
    <3>0. PICK rest : rest = Release!Resting
      OBVIOUS
    <3>6. rest.at # "transfer"
      BY <3>0 DEF Release!Resting
    <3>1. CASE \E i \in 1..4 : Release!FetchManifest(c, i)
      <4>1. PICK i \in 1..4 : Release!FetchManifest(c, i)
        BY <3>1
      <4>2. PICK at, rels : /\ at = CASE i = 2 -> "git" [] i = 4 -> "pending" [] OTHER -> a.at
                            /\ rels = [a.rels EXCEPT ![Release!Order[i]] = published]
        OBVIOUS
      <4>3. at # "transfer"
        BY <2>1, <2>2, <4>2 DEF Release!At
      <4>4. CASE cmd' = [cmd EXCEPT ![c].rels[Release!Order[i]] = published, ![c].at =
                           CASE i = 2 -> "git" [] i = 4 -> "pending" [] OTHER -> @]
        <5>1. PICK k : k = Release!Order[i]
          OBVIOUS
        <5>2. cmd' = [cmd EXCEPT ![c].rels[k] = published, ![c].at = at]
          BY <2>1, <2>3, <4>2, <4>4, <5>1 DEF CommandRecords
        <5>3. cmd' = [cmd EXCEPT ![c] = [a EXCEPT !.rels = rels, !.at = at]]
          <6>1. rels = [a.rels EXCEPT ![k] = published]
            BY <4>2, <5>1
          <6>2. cmd' = [cmd EXCEPT ![c] = [a EXCEPT !.rels = [a.rels EXCEPT ![k] = published],
                                                    !.at = at]]
            BY <2>1, <2>3, <5>2 DEF CommandRecords
          <6> QED
            BY <6>1, <6>2
        <5>4. [a EXCEPT !.rels = rels, !.at = at].at = at
          BY <2>3 DEF CommandRecords
        <5> QED
          BY <4>3, <5>3, <5>4
      <4> QED
        BY <4>1, <4>4 DEF Release!FetchManifest, Release!Fail, Release!Resting
    <3>2. CASE Release!FetchGit(c) \/ Release!TearManifest(c) \/ Release!Look(c)
      <4>1. PICK at \in {"fetch", "write", "seed", "fetchSeeds"} :
               Release!Goto(c, at) \/ Release!Fail(c)
        <5>1. \/ Release!Goto(c, "fetch") \/ Release!Goto(c, "write") \/ Release!Goto(c, "seed")
              \/ Release!Goto(c, "fetchSeeds") \/ Release!Fail(c)
          BY <3>2 DEF Release!FetchGit, Release!TearManifest, Release!Look
        <5> QED
          BY <5>1
      <4>2. CASE Release!Fail(c)
        BY <3>0, <3>6, <4>2 DEF Release!Fail
      <4>3. CASE Release!Goto(c, at)
        <5>1. cmd' = [cmd EXCEPT ![c] = [a EXCEPT !.at = at]] /\ [a EXCEPT !.at = at].at = at
          BY <2>1, <2>3, <4>3 DEF Release!Goto, CommandRecords
        <5> QED
          BY <5>1
      <4> QED
        BY <4>1, <4>2, <4>3
    <3>3. CASE Release!FetchSeeds(c) \/ Release!ReadSeeds(c)
      <4>1. CASE Release!Fail(c)
        BY <3>0, <3>6, <4>1 DEF Release!Fail
      <4>2. ASSUME NEW at \in {"populate", "tear"}, NEW r,
                   cmd' = [cmd EXCEPT ![c].rels["seeds"] = r, ![c].todo = {"seeds"}, ![c].at = at]
            PROVE  \E v : cmd' = [cmd EXCEPT ![c] = v] /\ v.at # "transfer"
        <5>1. PICK rels, todo : rels = [a.rels EXCEPT !["seeds"] = r] /\ todo = {"seeds"}
          OBVIOUS
        <5>2. cmd' = [cmd EXCEPT ![c] = [a EXCEPT !.rels = rels, !.todo = todo, !.at = at]]
          BY <2>1, <2>3, <4>2, <5>1 DEF CommandRecords
        <5>3. [a EXCEPT !.rels = rels, !.todo = todo, !.at = at].at = at
          BY <2>3 DEF CommandRecords
        <5> QED
          BY <5>2, <5>3
      <4>3. CASE Release!FetchSeeds(c)
        <5>1. \/ cmd' = [cmd EXCEPT ![c].rels["seeds"] = published, ![c].todo = {"seeds"},
                                     ![c].at = "populate"]
              \/ Release!Fail(c)
          BY <4>3 DEF Release!FetchSeeds
        <5> QED
          BY <4>1, <4>2, <5>1
      <4>4. CASE Release!ReadSeeds(c)
        <5>1. PICK r, at :
                /\ r = IF cached["seeds"] = Release!Missing THEN published ELSE cached["seeds"].rel
                /\ at = IF cached["seeds"] = Release!Missing THEN "tear" ELSE "populate"
          OBVIOUS
        <5>2. at \in {"populate", "tear"}
          BY <5>1
        <5>3. \/ cmd' = [cmd EXCEPT ![c].rels["seeds"] = r, ![c].todo = {"seeds"}, ![c].at = at]
              \/ Release!Fail(c)
          BY <4>4, <5>1 DEF Release!ReadSeeds
        <5> QED
          BY <4>1, <4>2, <5>2, <5>3
      <4> QED
        BY <3>3, <4>3, <4>4
    <3>4. CASE Release!WriteManifest(c)
      <4>1. PICK k : k = Release!Turn(c)
        OBVIOUS
      <4>2. PICK at, todo :
              /\ at = IF k = "vmconfig" THEN "tear"
                      ELSE IF k \in {"components", "templates"} THEN "populate"
                      ELSE IF a.op = "seed" THEN "lookAgain"
                      ELSE IF a.marked = {} THEN "populate" ELSE "ok"
              /\ todo = CASE k = "vmconfig" -> {"components"}
                          [] k = "components" -> {"templates", "seeds"}
                          [] OTHER -> {"seeds"}
        OBVIOUS
      <4>3. cmd' = [cmd EXCEPT ![c].at = at, ![c].todo = todo]
        BY <2>1, <3>4, <4>1, <4>2 DEF Release!WriteManifest
      <4>4. cmd' = [cmd EXCEPT ![c] = [a EXCEPT !.at = at, !.todo = todo]]
        BY <2>1, <2>3, <4>3 DEF CommandRecords
      <4>5. [a EXCEPT !.at = at, !.todo = todo].at = at /\ at # "transfer"
        BY <2>3, <4>2 DEF CommandRecords
      <4> QED
        BY <4>4, <4>5
    <3>5. CASE Release!End(c)
      BY <3>0, <3>6, <3>5 DEF Release!End
    <3> QED
      BY <1>3, <3>1, <3>2, <3>3, <3>4, <3>5
  <2>5. ~Release!At(c, "transfer")' /\ \A d \in Commands \ {c} : cmd'[d] = cmd[d]
    BY <2>3, <2>4 DEF Release!At
  <2> QED
    BY <2>2, <2>5, FilesStay
<1>4. ASSUME NEW c \in Commands, Release!DownloadPending(c) \/ Release!Populate(c)
      PROVE  FilesKnown'
  <2>1. ~Release!At(c, "resting")
    BY <1>4 DEF Release!DownloadPending, Release!Populate, Release!At
  <2>2. CASE Release!Fail(c) /\ UNCHANGED Release!files
    <3>1. ~Release!At(c, "transfer")' /\ \A d \in Commands \ {c} : cmd'[d] = cmd[d]
      BY <2>2 DEF Release!Fail, Release!At, Release!Resting, ReleaseInv, ReleaseTypes
    <3> QED
      BY <2>2, <3>1, FilesStay DEF Release!files
  <2>3. PICK w, todo : \/ Release!Fail(c) /\ UNCHANGED Release!files
                       \/ w \subseteq ReleaseFiles /\ Release!BeginTransfer(c, w, todo)
    <3>1. \A k \in Release!Kinds : cmd[c].rels[k] # 0 => cmd[c].rels[k] \in Release!Releases
      BY <2>1, CommandIs
    <3>2. CASE Release!DownloadPending(c)
      <4>1. \A k \in {"vmconfig", "components"} : cmd[c].rels[k] # 0 /\ k \in Release!Kinds
        <5>1. cmd[c].at = "pending" /\ StageOf(cmd[c])
          BY <2>1, <3>2, CommandIs DEF Release!DownloadPending, Release!At
        <5>2. cmd[c].op = "download"
          BY <5>1 DEF StageOf
        <5> QED
          BY <5>1, <5>2, KindsAre DEF StageOf
      <4>2. Release!WantedFiles(c) \subseteq ReleaseFiles
        BY <3>1, <4>1, FilesAre DEF Release!WantedFiles, Release!Loaded
      <4> QED
        BY <3>2, <4>2 DEF Release!DownloadPending
    <3>3. CASE Release!Populate(c)
      <4>1. PICK which : which = IF "templates" \in cmd[c].todo THEN "templates" ELSE "seeds"
        OBVIOUS
      <4>2. cmd[c].at = "populate" /\ StageOf(cmd[c])
        BY <2>1, <3>3, CommandIs DEF Release!Populate, Release!At
      <4>3. cmd[c].rels[which] # 0 /\ which \in Release!Kinds
        <5>1. CASE cmd[c].op = "download"
          BY <4>1, <4>2, <5>1, KindsAre DEF StageOf, Writing
        <5>2. CASE cmd[c].op # "download"
          <6>1. cmd[c].todo = {"seeds"} /\ cmd[c].rels["seeds"] # 0
            BY <4>2, <5>2 DEF StageOf, Writing
          <6>2. which = "seeds"
            BY <4>1, <6>1
          <6> QED
            BY <6>1, <6>2, KindsAre
        <5> QED
          BY <5>1, <5>2
      <4>4. Release!FilesOf(which, Release!Everything, Release!Loaded(c, which)) \subseteq ReleaseFiles
        BY <3>1, <4>3, FilesAre DEF Release!Loaded
      <4> QED
        BY <3>3, <4>1, <4>4 DEF Release!Populate
    <3> QED
      BY <1>4, <3>2, <3>3
  <2> QED
    BY <2>1, <2>2, <2>3, FilesBeginTransfer
<1> QED
  BY <1>1, <1>2, <1>3, <1>4, FilesTransferred DEF Release!Next

\* The files of the cache and the manifests are what they should be, at all times.
LEMMA ReleaseTypesHold == Release!Spec => []Release!TypeOK
<1>1. Release!Init => ReleaseInv /\ FilesKnown
  <2> SUFFICES ASSUME Release!Init PROVE FilesKnown
    BY ReleaseInitially
  <2>1. \A c \in Commands : ~Release!At(c, "transfer")
    BY DEF Release!Init, Release!At, Release!Resting
  <2> QED
    BY <2>1 DEF Release!Init, FilesKnown, TransfersNear
<1>2. ReleaseInv /\ FilesKnown /\ [Release!Next]_Release!dvars => ReleaseInv' /\ FilesKnown'
  BY ReleaseStep, FilesStep DEF Release!dvars, Release!files, releaseVars
<1>3. ReleaseInv /\ FilesKnown => Release!TypeOK
  <2> SUFFICES ASSUME ReleaseInv, FilesKnown PROVE Release!TypeOK
    OBVIOUS
  <2>1. /\ present \subseteq Release!AllFiles /\ spoiled \subseteq Release!AllFiles
        /\ broken \subseteq Release!AllFiles \ present
    BY SharedAre DEF ReleaseInv, ReleaseTypes, FilesKnown
  <2>2. ASSUME NEW k \in Release!Kinds PROVE cached[k].rel \in -2..MaxRelease
    <3>1. cached[k] \in Manifests
      BY DEF ReleaseInv, ReleaseTypes
    <3> QED
      BY <3>1, OperationsAssumption
         DEF Manifests, Release!Missing, Release!Torn, Release!Mixed, Release!Releases
  <2> QED
    BY <2>1, <2>2 DEF ReleaseInv, ReleaseTypes, FilesKnown, Release!TypeOK
<1> QED
  BY <1>1, <1>2, <1>3, PTL DEF Release!Spec

(***************************************************************************)
(* ProgressDisplay.  What has been shown of an item follows from how far   *)
(* its work has come and from the events that are still on their way.      *)
(***************************************************************************)

Shown == Display!Lifecycle
Events == [item : Items, type : {"started", "info", "done", "failed"}]
Displays ==
    [on : BOOLEAN, quit : BOOLEAN, plain : BOOLEAN, left : BOOLEAN, done : BOOLEAN,
     closed : BOOLEAN, err : {"none", "failed", "cancelled"},
     rows : [Items -> {"new"} \cup Shown]]

DisplayTypes ==
    /\ shown \in {"tasks", "downloads"} /\ result \in {"running", "ok", "failed"}
    /\ work \in [Items -> {"new"} \cup Shown]
    /\ DOMAIN sending = Items
    /\ \A i \in Items : sending[i] = Display!NoEvent \/ (sending[i] \in Events /\ sending[i].item = i)
    /\ channel \in Seq(Events) /\ Len(channel) <= Capacity
    /\ closedChannel \in BOOLEAN /\ stopped \in BOOLEAN
    /\ reader.at \in {"waiting", "closed", "gone", "event"}
    /\ reader.at = "event" => reader.event \in Events
    /\ display \in Displays /\ doneMsg \in {"none", "sent", "taken"}
    /\ returned \in {"none", "nil", "failed", "cancelled"} /\ dropped \subseteq Events

\* The work ends once, and what was said of its end is so.
EndIsTold ==
    /\ (closedChannel <=> result # "running")
    /\ (doneMsg # "none" <=> result # "running")
    /\ closedChannel => \A i \in Items : sending[i] = Display!NoEvent /\ work[i] # "started"
    /\ display.done <=> doneMsg = "taken"
    /\ display.done /\ display.err = "none" => result = "ok"
    /\ display.err = "failed" => result = "failed"
    /\ reader.at \in {"closed", "gone"} => closedChannel /\ channel = <<>>
    /\ display.closed <=> reader.at = "gone"

\* How a display may be left.
LeavesWell ==
    /\ display.quit /\ ~display.plain => display.done \/ display.err = "cancelled"
    /\ shown = "downloads" /\ display.quit /\ ~display.left => display.done /\ display.closed
    /\ display.plain => shown = "tasks" /\ display.quit
    /\ ~display.on => display.quit
    /\ stopped => ~display.on /\ ~display.plain
    /\ returned # "none" => ~display.on
    /\ returned # "none" /\ display.plain => closedChannel /\ channel = <<>>
    /\ returned = "nil" => result = "ok"
    /\ returned = "failed" => result = "failed"

\* The last event of item i that is on its way says what became of i; where
\* none is, the row says it.
Tells(i, e) == e.item = i /\ e.type \in Shown
Silent(i) == \A n \in 1..Len(channel) : ~Tells(i, channel[n])
Told(i) ==
    \E n \in 1..Len(channel) :
        /\ Tells(i, channel[n]) /\ channel[n].type = work[i]
        /\ \A m \in n+1..Len(channel) : ~Tells(i, channel[m])
Seen(i) ==
    IF ~display.on THEN (reader.at = "event" /\ reader.event.item = i) \/ display.rows[i] = work[i]
    ELSE IF reader.at = "event" /\ Tells(i, reader.event) THEN reader.event.type = work[i]
    ELSE display.rows[i] = work[i]
Tracked(i) ==
    IF Tells(i, sending[i]) THEN sending[i].type = work[i] ELSE Told(i) \/ (Silent(i) /\ Seen(i))

NoneLost == \A e \in dropped : e.type \notin Shown

DisplayInv ==
    /\ DisplayTypes /\ EndIsTold /\ LeavesWell
    /\ shown = "downloads" => NoneLost
    /\ NoneLost /\ (display.on \/ display.plain) => \A i \in Items : Tracked(i)
    /\ NoneLost /\ display.closed => display.rows = work

\* Nothing has been shown, and nothing has happened.
LEMMA DisplayInitially == Display!Init => DisplayInv
<1> SUFFICES ASSUME Display!Init PROVE DisplayInv
  OBVIOUS
<1>1. /\ shown \in {"tasks", "downloads"} /\ work = [i \in Items |-> "new"]
      /\ sending = [i \in Items |-> Display!NoEvent] /\ channel = <<>> /\ closedChannel = FALSE
      /\ stopped = FALSE /\ result = "running" /\ reader.at = "waiting"
      /\ display = [on |-> TRUE, quit |-> FALSE, plain |-> FALSE, left |-> FALSE,
                    done |-> FALSE, closed |-> FALSE, err |-> "none",
                    rows |-> [i \in Items |-> "new"]]
      /\ doneMsg = "none" /\ returned = "none" /\ dropped = {}
  BY DEF Display!Init
<1>2. DisplayTypes
  <2>1. display \in Displays
    BY <1>1 DEF Displays
  <2>2. channel \in Seq(Events) /\ Len(channel) <= Capacity
    BY <1>1, OperationsAssumption
  <2>3. work \in [Items -> {"new"} \cup Shown]
    BY <1>1
  <2> QED
    BY <1>1, <2>1, <2>2, <2>3 DEF DisplayTypes
<1>3. EndIsTold /\ LeavesWell
  BY <1>1 DEF EndIsTold, LeavesWell
<1>4. ASSUME NEW i \in Items PROVE Tracked(i)
  BY <1>1 DEF Tracked, Seen, Silent, Tells, Shown, Display!NoEvent, Display!Lifecycle
<1>5. shown = "downloads" => NoneLost
  BY <1>1 DEF NoneLost
<1> QED
  BY <1>1, <1>2, <1>3, <1>4, <1>5 DEF DisplayInv

\* The events of the life of an item, and none.
LEMMA EventsAre ==
    /\ Shown = {"started", "done", "failed"}
    /\ \A i \in Items : ~Tells(i, Display!NoEvent)
    /\ \A i \in Items, t \in {"started", "info", "done", "failed"} :
         LET e == Display!Event(i, t)
         IN  /\ e \in Events /\ e # Display!NoEvent /\ e.item = i /\ e.type = t
    /\ \A e \in Events : e # Display!NoEvent
BY OperationsAssumption
   DEF Shown, Tells, Events, Display!NoEvent, Display!Event, Display!Lifecycle

\* What is behind the others in the channel is the last that it tells.
LEMMA BehindOthers ==
    ASSUME NEW e \in Events, channel \in Seq(Events), channel' = Append(channel, e),
           UNCHANGED work, NEW i \in Items
    PROVE  /\ Tells(i, e) /\ e.type = work[i] => Told(i)'
           /\ ~Tells(i, e) => (Told(i) => Told(i)') /\ (Silent(i) => Silent(i)')
<1>1. /\ Len(channel') = Len(channel) + 1 /\ Len(channel) \in Nat
      /\ channel'[Len(channel) + 1] = e
      /\ \A n \in 1..Len(channel) : channel'[n] = channel[n]
  OBVIOUS
<1>2. Tells(i, e) /\ e.type = work[i] => Told(i)'
  BY <1>1 DEF Told, Tells
<1>3. ASSUME ~Tells(i, e), Told(i) PROVE Told(i)'
  <2>1. PICK n \in 1..Len(channel) :
          /\ Tells(i, channel[n]) /\ channel[n].type = work[i]
          /\ \A m \in n+1..Len(channel) : ~Tells(i, channel[m])
    BY <1>3 DEF Told
  <2>2. \A m \in n+1..Len(channel') : ~Tells(i, channel'[m])
    BY <1>1, <1>3, <2>1 DEF Tells
  <2>3. n \in 1..Len(channel') /\ channel'[n] = channel[n]
    BY <1>1, <2>1
  <2> QED
    BY <2>1, <2>2, <2>3 DEF Told, Tells
<1>4. ~Tells(i, e) /\ Silent(i) => Silent(i)'
  BY <1>1 DEF Silent, Tells
<1> QED
  BY <1>2, <1>3, <1>4

\* What is taken from the front of the channel.
LEMMA FromTheFront ==
    ASSUME channel \in Seq(Events), channel # <<>>, channel' = Tail(channel),
           UNCHANGED work, NEW i \in Items
    PROVE  /\ Head(channel) \in Events
           /\ Silent(i) => ~Tells(i, Head(channel)) /\ Silent(i)'
           /\ Told(i) => \/ Told(i)'
                         \/ /\ Tells(i, Head(channel)) /\ Head(channel).type = work[i]
                            /\ Silent(i)'
<1>1. /\ Len(channel) \in Nat \ {0} /\ Len(channel') = Len(channel) - 1
      /\ Head(channel) = channel[1] /\ channel[1] \in Events
      /\ \A n \in 1..Len(channel') : channel'[n] = channel[n + 1]
  OBVIOUS
<1>2. Silent(i) => ~Tells(i, Head(channel)) /\ Silent(i)'
  BY <1>1 DEF Silent, Tells
<1>3. ASSUME Told(i)
      PROVE  \/ Told(i)'
             \/ /\ Tells(i, Head(channel)) /\ Head(channel).type = work[i] /\ Silent(i)'
  <2>1. PICK n \in 1..Len(channel) :
          /\ Tells(i, channel[n]) /\ channel[n].type = work[i]
          /\ \A m \in n+1..Len(channel) : ~Tells(i, channel[m])
    BY <1>3 DEF Told
  <2>2. CASE n = 1
    BY <1>1, <2>1, <2>2 DEF Silent, Tells
  <2>3. CASE n # 1
    <3>1. n - 1 \in 1..Len(channel') /\ channel'[n - 1] = channel[n]
      BY <1>1, <2>1, <2>3
    <3>2. \A m \in (n - 1)+1..Len(channel') : ~Tells(i, channel'[m])
      BY <1>1, <2>1, <2>3 DEF Tells
    <3> QED
      BY <2>1, <3>1, <3>2 DEF Told, Tells
  <2> QED
    BY <2>2, <2>3
<1> QED
  BY <1>1, <1>2, <1>3

\* An item begins, or goes on.
LEMMA ItemStep ==
    ASSUME DisplayInv, NEW i \in Items, Display!Begin(i) \/ Display!Proceed(i)
    PROVE  DisplayInv'
<1>1. PICK t \in {"started", "info", "done", "failed"}, s \in {"new"} \cup Shown :
        /\ work' = [work EXCEPT ![i] = s]
        /\ sending' = [sending EXCEPT ![i] = Display!Event(i, t)]
        /\ IF t = "info" THEN s = work[i] ELSE s = t
        /\ sending[i] = Display!NoEvent /\ ~closedChannel
        /\ UNCHANGED <<shown, channel, closedChannel, stopped, result, reader, display,
                       doneMsg, returned, dropped>>
  <2>1. CASE Display!Begin(i)
    <3>1. result = "running" /\ ~closedChannel
      BY <2>1 DEF Display!Begin, DisplayInv, EndIsTold
    <3> QED
      BY <2>1, <3>1, EventsAre DEF Display!Begin, Display!Sending
  <2>2. CASE Display!Proceed(i)
    <3>1. PICK t \in {"info", "done", "failed"} :
            /\ sending' = [sending EXCEPT ![i] = Display!Event(i, t)]
            /\ work' = [work EXCEPT ![i] = IF t = "info" THEN "started" ELSE t]
      BY <2>2 DEF Display!Proceed
    <3>2. work[i] = "started" /\ ~closedChannel /\ sending[i] = Display!NoEvent
      BY <2>2 DEF Display!Proceed, Display!Sending, DisplayInv, EndIsTold
    <3> QED
      BY <2>2, <3>1, <3>2, EventsAre DEF Display!Proceed
  <2> QED
    BY <2>1, <2>2
<1>2. /\ DOMAIN work = Items /\ DOMAIN sending = Items
      /\ work'[i] = s /\ sending'[i] = Display!Event(i, t)
      /\ \A j \in Items : j # i => work'[j] = work[j] /\ sending'[j] = sending[j]
  BY <1>1 DEF DisplayInv, DisplayTypes
<1>3. DisplayTypes'
  BY <1>1, <1>2, EventsAre DEF DisplayInv, DisplayTypes
<1>4. EndIsTold' /\ LeavesWell'
  BY <1>1 DEF DisplayInv, EndIsTold, LeavesWell
<1>5. (shown = "downloads" => NoneLost)'
  BY <1>1 DEF DisplayInv, NoneLost
<1>6. ASSUME NoneLost, display.on \/ display.plain, NEW j \in Items PROVE Tracked(j)'
  <2>1. Tracked(j)
    BY <1>6 DEF DisplayInv
  <2>2. CASE j # i \/ t = "info"
    <3>1. work'[j] = work[j] /\ (Tells(j, sending'[j]) <=> Tells(j, sending[j]))
          /\ (Tells(j, sending[j]) => sending'[j] = sending[j])
      BY <1>1, <1>2, <2>2, EventsAre DEF Tells
    <3>2. /\ Told(j) => Told(j)'
          /\ Silent(j) => Silent(j)'
          /\ Seen(j) => Seen(j)'
      BY <1>1, <3>1 DEF Told, Silent, Seen, Tells
    <3> QED
      BY <2>1, <3>1, <3>2 DEF Tracked, Tells
  <2>3. CASE j = i /\ t # "info"
    BY <1>1, <1>2, <2>3, EventsAre DEF Tracked, Tells
  <2> QED
    BY <2>2, <2>3
<1>7. ~(NoneLost /\ display.closed)
  BY <1>1 DEF DisplayInv, EndIsTold
<1> QED
  BY <1>1, <1>3, <1>4, <1>5, <1>6, <1>7 DEF DisplayInv, NoneLost

\* An event gets into the channel, is dropped, or is given up.
LEMMA SendStep ==
    ASSUME DisplayInv, NEW i \in Items, Display!Send(i)
    PROVE  DisplayInv'
<1>1. /\ sending[i] # Display!NoEvent
      /\ sending' = [sending EXCEPT ![i] = Display!NoEvent]
      /\ UNCHANGED <<shown, work, closedChannel, stopped, result, reader, display,
                     doneMsg, returned>>
      /\ \/ /\ Len(channel) < Capacity
            /\ channel' = Append(channel, sending[i]) /\ UNCHANGED dropped
         \/ /\ shown = "tasks" \/ sending[i].type \notin Shown
            /\ dropped' = dropped \cup {sending[i]} /\ UNCHANGED channel
         \/ stopped /\ UNCHANGED <<channel, dropped>>
  BY DEF Display!Send, Display!Sending, Display!MayDrop, Display!Released, Shown
<1>2. /\ DOMAIN sending = Items /\ sending[i] \in Events /\ sending[i].item = i
      /\ sending'[i] = Display!NoEvent /\ ~closedChannel
      /\ \A j \in Items : j # i => sending'[j] = sending[j]
      /\ channel \in Seq(Events) /\ dropped \subseteq Events
  BY <1>1 DEF DisplayInv, DisplayTypes, EndIsTold
<1>3. DisplayTypes'
  <2>1. channel' \in Seq(Events) /\ Len(channel') <= Capacity
    BY <1>1, <1>2, OperationsAssumption DEF DisplayInv, DisplayTypes
  <2> QED
    BY <1>1, <1>2, <2>1 DEF DisplayInv, DisplayTypes
<1>4. EndIsTold' /\ LeavesWell'
  BY <1>1, <1>2 DEF DisplayInv, EndIsTold, LeavesWell
<1>5. NoneLost' => NoneLost
  BY <1>1 DEF NoneLost
<1>6. (shown = "downloads" => NoneLost)'
  BY <1>1 DEF DisplayInv, NoneLost
<1>7. ASSUME NoneLost', display.on \/ display.plain, NEW j \in Items PROVE Tracked(j)'
  <2>1. Tracked(j) /\ ~stopped
    BY <1>5, <1>7 DEF DisplayInv, LeavesWell
  <2>2. ~Tells(j, sending'[i]) /\ (Seen(j) => Seen(j)')
    BY <1>1, <1>2, EventsAre DEF Seen, Tells
  <2>3. CASE channel' = Append(channel, sending[i])
    <3>1. /\ Tells(j, sending[i]) /\ sending[i].type = work[j] => Told(j)'
          /\ ~Tells(j, sending[i]) => (Told(j) => Told(j)') /\ (Silent(j) => Silent(j)')
      BY <1>1, <1>2, <2>3, BehindOthers
    <3>2. j # i => ~Tells(j, sending[i])
      BY <1>2 DEF Tells
    <3> QED
      BY <1>1, <1>2, <2>1, <2>2, <3>1, <3>2 DEF Tracked, Tells
  <2>4. CASE dropped' = dropped \cup {sending[i]} /\ channel' = channel
    <3>1. ~Tells(j, sending[i])
      BY <1>7, <2>4 DEF NoneLost, Tells
    <3>2. (Told(j) => Told(j)') /\ (Silent(j) => Silent(j)')
      BY <1>1, <2>4 DEF Told, Silent, Tells
    <3> QED
      BY <1>1, <1>2, <2>1, <2>2, <3>1, <3>2 DEF Tracked, Tells
  <2> QED
    BY <1>1, <2>1, <2>3, <2>4
<1>8. ~(NoneLost /\ display.closed)
  BY <1>2 DEF DisplayInv, EndIsTold
<1> QED
  BY <1>1, <1>3, <1>4, <1>5, <1>6, <1>7, <1>8 DEF DisplayInv

\* The end of the work is told, and the channel closed.
LEMMA EndWorkStep == DisplayInv /\ Display!EndWork => DisplayInv'
<1> SUFFICES ASSUME DisplayInv, Display!EndWork PROVE DisplayInv'
  OBVIOUS
<1>1. /\ result = "running" /\ result' \in {"ok", "failed"} /\ closedChannel' = TRUE
      /\ doneMsg' = "sent" /\ \A i \in Items : sending[i] = Display!NoEvent /\ work[i] # "started"
      /\ UNCHANGED <<shown, work, sending, channel, stopped, reader, display, returned, dropped>>
  BY DEF Display!EndWork, Display!Sending
<1>2. ~display.done /\ ~closedChannel /\ reader.at \notin {"closed", "gone"}
  BY <1>1 DEF DisplayInv, EndIsTold
<1>3. DisplayTypes'
  BY <1>1 DEF DisplayInv, DisplayTypes
<1>4. EndIsTold' /\ LeavesWell'
  BY <1>1, <1>2 DEF DisplayInv, EndIsTold, LeavesWell
<1>5. \A i \in Items : Tracked(i)' <=> Tracked(i)
  BY <1>1 DEF Tracked, Told, Silent, Seen, Tells
<1> QED
  BY <1>1, <1>3, <1>4, <1>5 DEF DisplayInv, NoneLost

\* The reader takes an event, or finds the channel closed and empty.
LEMMA ReadStep == DisplayInv /\ Display!ReadEvent => DisplayInv'
<1> SUFFICES ASSUME DisplayInv, Display!ReadEvent PROVE DisplayInv'
  OBVIOUS
<1>1. /\ reader.at = "waiting"
      /\ \/ /\ channel # <<>> /\ channel' = Tail(channel)
            /\ reader'.at = "event" /\ reader'.event = Head(channel)
         \/ /\ channel = <<>> /\ closedChannel /\ UNCHANGED channel /\ reader'.at = "closed"
      /\ UNCHANGED <<shown, work, sending, closedChannel, stopped, result, display,
                     doneMsg, returned, dropped>>
  BY DEF Display!ReadEvent
<1>2. channel \in Seq(Events) /\ ~display.closed
  BY <1>1 DEF DisplayInv, DisplayTypes, EndIsTold
<1>3. DisplayTypes'
  <2>1. /\ channel' \in Seq(Events) /\ Len(channel') <= Capacity
        /\ reader'.at \in {"closed", "event"} /\ (reader'.at = "event" => reader'.event \in Events)
    <3>1. Len(channel) <= Capacity /\ Capacity \in Nat
      BY OperationsAssumption DEF DisplayInv, DisplayTypes
    <3>2. CASE channel # <<>>
      <4>1. Head(channel) \in Events /\ Tail(channel) \in Seq(Events)
            /\ Len(Tail(channel)) = Len(channel) - 1 /\ Len(channel) \in Nat
        BY <1>2, <3>2
      <4> QED
        BY <1>1, <3>1, <3>2, <4>1
    <3>3. CASE channel = <<>>
      BY <1>1, <1>2, <3>1, <3>3
    <3> QED
      BY <3>2, <3>3
  <2>2. UNCHANGED <<shown, work, sending, closedChannel, stopped, result, display, doneMsg,
                    returned, dropped>>
    BY <1>1
  <2> QED
    BY <2>1, <2>2 DEF DisplayInv, DisplayTypes
<1>4. EndIsTold'
  BY <1>1, <1>2 DEF DisplayInv, EndIsTold
<1>5. LeavesWell'
  BY <1>1, <1>2 DEF DisplayInv, LeavesWell
<1>6. ASSUME NoneLost, display.on \/ display.plain, NEW i \in Items PROVE Tracked(i)'
  <2>1. Tracked(i)
    BY <1>6 DEF DisplayInv
  <2>2. CASE channel # <<>>
    <3>1. /\ Head(channel) \in Events
          /\ Silent(i) => ~Tells(i, Head(channel)) /\ Silent(i)'
          /\ Told(i) => \/ Told(i)'
                        \/ /\ Tells(i, Head(channel)) /\ Head(channel).type = work[i]
                           /\ Silent(i)'
      BY <1>1, <1>2, <2>2, FromTheFront
    <3>2. Seen(i) /\ ~Tells(i, Head(channel)) => Seen(i)'
      BY <1>1, <2>2 DEF Seen, Tells
    <3>3. Tells(i, Head(channel)) /\ Head(channel).type = work[i] => Seen(i)'
      BY <1>1, <2>2 DEF Seen, Tells
    <3> QED
      BY <1>1, <2>1, <3>1, <3>2, <3>3 DEF Tracked, Tells
  <2>3. CASE channel = <<>>
    BY <1>1, <2>1, <2>3 DEF Tracked, Told, Silent, Seen, Tells
  <2> QED
    BY <2>2, <2>3
<1> QED
  BY <1>1, <1>2, <1>3, <1>4, <1>5, <1>6 DEF DisplayInv, NoneLost

\* The rows after an event: that of its item shows it, if it is one of its life.
LEMMA RowsAfter ==
    ASSUME display \in Displays, NEW e \in Events
    PROVE  /\ Display!Applied(display.rows, e) \in [Items -> {"new"} \cup Shown]
           /\ \A i \in Items : Display!Applied(display.rows, e)[i] =
                IF Tells(i, e) THEN e.type ELSE display.rows[i]
BY DEF Displays, Events, Display!Applied, Tells, Shown

\* The display shows the event that its reader brings.
LEMMA HandleEventStep == DisplayInv /\ Display!HandleEvent => DisplayInv'
<1> SUFFICES ASSUME DisplayInv, Display!HandleEvent PROVE DisplayInv'
  OBVIOUS
<1>1. PICK rows : rows = Display!Applied(display.rows, reader.event)
  OBVIOUS
<1>2. /\ display.on /\ reader.at = "event" /\ reader'.at = "waiting"
      /\ display' = [display EXCEPT !.rows = rows]
      /\ UNCHANGED <<shown, work, sending, channel, closedChannel, stopped, result,
                     doneMsg, returned, dropped>>
  BY <1>1 DEF Display!HandleEvent
<1>3. display \in Displays /\ reader.event \in Events /\ ~display.closed
  BY <1>2 DEF DisplayInv, DisplayTypes, EndIsTold
<1>4. /\ rows \in [Items -> {"new"} \cup Shown]
      /\ \A i \in Items : rows[i] = IF Tells(i, reader.event) THEN reader.event.type
                                    ELSE display.rows[i]
  BY <1>1, <1>3, RowsAfter
<1>5. /\ display' \in Displays /\ display'.rows = rows /\ display'.on = display.on
      /\ display'.quit = display.quit /\ display'.plain = display.plain
      /\ display'.left = display.left /\ display'.done = display.done
      /\ display'.closed = display.closed /\ display'.err = display.err
  BY <1>2, <1>3, <1>4 DEF Displays
<1>6. DisplayTypes'
  BY <1>2, <1>5 DEF DisplayInv, DisplayTypes
<1>7. EndIsTold' /\ LeavesWell'
  BY <1>2, <1>3, <1>5 DEF DisplayInv, EndIsTold, LeavesWell
<1>8. ASSUME NoneLost, NEW i \in Items PROVE Tracked(i)'
  <2>1. Tracked(i)
    BY <1>2, <1>8 DEF DisplayInv
  <2>2. Seen(i) => Seen(i)'
    <3>1. Seen(i) => rows[i] = work[i]
      BY <1>2, <1>4 DEF Seen
    <3>2. rows[i] = work[i] => Seen(i)'
      BY <1>2, <1>5 DEF Seen
    <3> QED
      BY <3>1, <3>2
  <2>3. (Told(i) => Told(i)') /\ (Silent(i) => Silent(i)')
    BY <1>2 DEF Told, Silent, Tells
  <2> QED
    BY <1>2, <2>1, <2>2, <2>3 DEF Tracked, Tells
<1> QED
  BY <1>2, <1>3, <1>5, <1>6, <1>7, <1>8 DEF DisplayInv, NoneLost

\* The display moves on, and its rows stay.
LEMMA LoopMoves ==
    ASSUME DisplayInv, display.on, display' \in Displays,
           display'.rows = display.rows, display'.on => display.on,
           display'.on \/ display'.plain => display.on \/ display.plain,
           UNCHANGED <<shown, work, sending, channel, closedChannel, result, dropped>>,
           \/ UNCHANGED reader /\ display'.closed = display.closed
           \/ reader.at = "closed" /\ reader'.at = "gone" /\ display'.closed,
           DisplayTypes', EndIsTold', LeavesWell'
    PROVE  DisplayInv'
<1>1. (shown = "downloads" => NoneLost)'
  BY DEF DisplayInv, NoneLost
<1>2. ASSUME NoneLost, NEW i \in Items PROVE Tracked(i)'
  <2>1. Tracked(i)
    BY <1>2 DEF DisplayInv
  <2>2. Seen(i) => Seen(i)'
    BY DEF Seen, Tells
  <2>3. (Told(i) => Told(i)') /\ (Silent(i) => Silent(i)')
    BY DEF Told, Silent, Tells
  <2> QED
    BY <2>1, <2>2, <2>3 DEF Tracked, Tells
<1>3. ASSUME NoneLost, display'.closed PROVE display'.rows = work'
  <2>1. CASE display.closed
    BY <1>3, <2>1 DEF DisplayInv
  <2>2. CASE ~display.closed
    <3>1. reader.at = "closed" /\ closedChannel /\ channel = <<>>
      BY <1>3, <2>2 DEF DisplayInv, EndIsTold
    <3>2. \A i \in Items : sending[i] = Display!NoEvent
      BY <3>1 DEF DisplayInv, EndIsTold
    <3>3. ASSUME NEW i \in Items PROVE display.rows[i] = work[i]
      <4>1. Tracked(i) /\ ~Tells(i, sending[i])
        BY <1>3, <3>2, EventsAre DEF DisplayInv
      <4>2. ~Told(i)
        BY <3>1 DEF Told
      <4> QED
        BY <3>1, <4>1, <4>2 DEF Tracked, Seen
    <3> QED
      BY <3>3 DEF DisplayInv, DisplayTypes, Displays
  <2> QED
    BY <2>1, <2>2
<1>4. NoneLost' <=> NoneLost
  BY DEF NoneLost
<1> QED
  BY <1>1, <1>2, <1>3, <1>4 DEF DisplayInv

\* The end of the work reaches the display.
LEMMA HandleDoneStep == DisplayInv /\ Display!HandleDone => DisplayInv'
<1> SUFFICES ASSUME DisplayInv, Display!HandleDone PROVE DisplayInv'
  OBVIOUS
<1>1. PICK e : e = IF result = "failed" THEN "failed" ELSE "none"
  OBVIOUS
<1>2. PICK q \in BOOLEAN :
        q = (display.quit \/ IF shown = "downloads" THEN display.closed ELSE e = "failed")
  OBVIOUS
<1>3. /\ display.on /\ doneMsg = "sent" /\ doneMsg' = "taken"
      /\ UNCHANGED <<shown, work, sending, channel, closedChannel, stopped, result, reader,
                     returned, dropped>>
  BY DEF Display!HandleDone
<1>4. display \in Displays /\ shown \in {"tasks", "downloads"}
  BY DEF DisplayInv, DisplayTypes
<1>5. display' = [display EXCEPT !.done = TRUE, !.err = e, !.quit = q]
  BY <1>1, <1>2, <1>4
     DEF Display!HandleDone, Display!Ends, Display!BothEnded, Displays
<1>6. /\ display' \in Displays /\ display'.rows = display.rows /\ display'.on = display.on
      /\ display'.quit = q /\ display'.plain = display.plain
      /\ display'.left = display.left /\ display'.done = TRUE
      /\ display'.closed = display.closed /\ display'.err = e
  BY <1>1, <1>4, <1>5 DEF Displays
<1>7. DisplayTypes'
  BY <1>3, <1>6 DEF DisplayInv, DisplayTypes
<1>8. result # "running" /\ result \in {"running", "ok", "failed"}
  BY <1>3 DEF DisplayInv, DisplayTypes, EndIsTold
<1>9. EndIsTold'
  BY <1>1, <1>3, <1>6, <1>8 DEF DisplayInv, EndIsTold
<1>10. LeavesWell'
  BY <1>2, <1>3, <1>4, <1>6 DEF DisplayInv, LeavesWell
<1> QED
  BY <1>3, <1>6, <1>7, <1>9, <1>10, LoopMoves

\* The end of the channel reaches the display.
LEMMA HandleClosedStep == DisplayInv /\ Display!HandleClosed => DisplayInv'
<1> SUFFICES ASSUME DisplayInv, Display!HandleClosed PROVE DisplayInv'
  OBVIOUS
<1>1. PICK q \in BOOLEAN :
        q = (display.quit \/ IF shown = "downloads" THEN display.done
                             ELSE display.done /\ display.err = "failed")
  OBVIOUS
<1>2. /\ display.on /\ reader.at = "closed" /\ reader'.at = "gone"
      /\ UNCHANGED <<shown, work, sending, channel, closedChannel, stopped, result, doneMsg,
                     returned, dropped>>
  BY DEF Display!HandleClosed
<1>3. display \in Displays /\ shown \in {"tasks", "downloads"}
  BY DEF DisplayInv, DisplayTypes
<1>4. display' = [display EXCEPT !.closed = TRUE, !.quit = q]
  BY <1>1, <1>3 DEF Display!HandleClosed, Display!Ends, Display!BothEnded, Displays
<1>5. /\ display' \in Displays /\ display'.rows = display.rows /\ display'.on = display.on
      /\ display'.quit = q /\ display'.plain = display.plain
      /\ display'.left = display.left /\ display'.done = display.done
      /\ display'.closed = TRUE /\ display'.err = display.err
  BY <1>3, <1>4 DEF Displays
<1>6. DisplayTypes'
  BY <1>2, <1>5 DEF DisplayInv, DisplayTypes
<1>7. EndIsTold'
  BY <1>2, <1>5 DEF DisplayInv, EndIsTold
<1>8. LeavesWell'
  BY <1>1, <1>2, <1>3, <1>5 DEF DisplayInv, LeavesWell
<1> QED
  BY <1>2, <1>5, <1>6, <1>7, <1>8, LoopMoves

\* Keys.
LEMMA KeySteps ==
    ASSUME DisplayInv, Display!AnyKey \/ Display!CtrlC \/ Display!GoPlain
    PROVE  DisplayInv'
<1>1. PICK e, l, p :
        /\ display' = [display EXCEPT !.quit = TRUE, !.err = e, !.left = l, !.plain = p]
        /\ \/ /\ e = display.err /\ l = display.left /\ p = display.plain
              /\ shown = "tasks" /\ display.done /\ display.closed
           \/ e = "cancelled" /\ l = TRUE /\ p = display.plain
           \/ e = display.err /\ l = display.left /\ p = TRUE /\ shown = "tasks"
  <2>1. display \in Displays
    BY DEF DisplayInv, DisplayTypes
  <2>2. CASE Display!AnyKey
    <3>1. display' = [display EXCEPT !.quit = TRUE, !.err = display.err,
                        !.left = display.left, !.plain = display.plain]
      BY <2>1, <2>2 DEF Display!AnyKey, Displays
    <3> QED
      BY <2>2, <3>1 DEF Display!AnyKey
  <2>3. CASE Display!CtrlC
    <3>1. display' = [display EXCEPT !.quit = TRUE, !.err = "cancelled",
                        !.left = TRUE, !.plain = display.plain]
      BY <2>1, <2>3 DEF Display!CtrlC, Displays
    <3> QED
      BY <3>1
  <2>4. CASE Display!GoPlain
    <3>1. display' = [display EXCEPT !.quit = TRUE, !.err = display.err,
                        !.left = display.left, !.plain = TRUE]
      BY <2>1, <2>4 DEF Display!GoPlain, Displays
    <3> QED
      BY <2>4, <3>1 DEF Display!GoPlain
  <2> QED
    BY <2>2, <2>3, <2>4
<1>2. /\ display.on
      /\ UNCHANGED <<shown, work, sending, channel, closedChannel, stopped, result, reader,
                     doneMsg, returned, dropped>>
  BY DEF Display!AnyKey, Display!CtrlC, Display!GoPlain
<1>3. display \in Displays
  BY DEF DisplayInv, DisplayTypes
<1>4. e \in {"none", "failed", "cancelled"} /\ l \in BOOLEAN /\ p \in BOOLEAN
  BY <1>1, <1>3 DEF Displays
<1>5. /\ display' \in Displays /\ display'.rows = display.rows /\ display'.on = display.on
      /\ display'.quit = TRUE /\ display'.plain = p /\ display'.left = l
      /\ display'.done = display.done /\ display'.closed = display.closed /\ display'.err = e
  BY <1>1, <1>3, <1>4 DEF Displays
<1>6. DisplayTypes'
  BY <1>2, <1>5 DEF DisplayInv, DisplayTypes
<1>7. EndIsTold'
  BY <1>1, <1>2, <1>5 DEF DisplayInv, EndIsTold
<1>8. LeavesWell'
  BY <1>1, <1>2, <1>5 DEF DisplayInv, LeavesWell
<1> QED
  BY <1>2, <1>5, <1>6, <1>7, <1>8, LoopMoves

\* The loop ends; with plain output the rest is still to be read.
LEMMA DisplayExitStep == DisplayInv /\ Display!Exit => DisplayInv'
<1> SUFFICES ASSUME DisplayInv, Display!Exit PROVE DisplayInv'
  OBVIOUS
<1>1. /\ display.on /\ display.quit /\ display' = [display EXCEPT !.on = FALSE]
      /\ IF display.plain THEN UNCHANGED <<returned, stopped>>
         ELSE /\ returned' = IF display.err = "none" THEN "nil" ELSE display.err
              /\ stopped' = TRUE
      /\ UNCHANGED <<shown, work, sending, channel, closedChannel, result, reader, doneMsg,
                     dropped>>
  BY DEF Display!Exit
<1>2. display \in Displays /\ returned = "none"
  BY <1>1 DEF DisplayInv, DisplayTypes, LeavesWell
<1>3. /\ display' \in Displays /\ display'.rows = display.rows /\ display'.on = FALSE
      /\ display'.quit = display.quit /\ display'.plain = display.plain
      /\ display'.left = display.left /\ display'.done = display.done
      /\ display'.closed = display.closed /\ display'.err = display.err
  BY <1>1, <1>2 DEF Displays
<1>4. DisplayTypes'
  <2>1. returned' \in {"none", "nil", "failed", "cancelled"} /\ stopped' \in BOOLEAN
    BY <1>1, <1>2 DEF Displays, DisplayInv, DisplayTypes
  <2> QED
    BY <1>1, <1>3, <2>1 DEF DisplayInv, DisplayTypes
<1>5. EndIsTold'
  BY <1>1, <1>3 DEF DisplayInv, EndIsTold
<1>6. LeavesWell'
  <2>1. CASE display.plain
    BY <1>1, <1>2, <1>3, <2>1 DEF DisplayInv, LeavesWell
  <2>2. CASE ~display.plain
    <3>1. /\ returned' = "nil" => display.err = "none" /\ display.done
          /\ returned' = "failed" => display.err = "failed"
      BY <1>1, <1>2, <2>2 DEF DisplayInv, LeavesWell, Displays
    <3>2. (returned' = "nil" => result = "ok") /\ (returned' = "failed" => result = "failed")
      BY <3>1 DEF DisplayInv, EndIsTold
    <3> QED
      BY <1>1, <1>3, <2>2, <3>2 DEF DisplayInv, LeavesWell
  <2> QED
    BY <2>1, <2>2
<1> QED
  BY <1>1, <1>3, <1>4, <1>5, <1>6, LoopMoves

\* Plain output goes on with what is in the channel.
LEMMA DrainEventStep == DisplayInv /\ Display!DrainEvent => DisplayInv'
<1> SUFFICES ASSUME DisplayInv, Display!DrainEvent PROVE DisplayInv'
  OBVIOUS
<1>1. PICK rows : rows = Display!Applied(display.rows, Head(channel))
  OBVIOUS
<1>2. /\ ~display.on /\ display.plain /\ returned = "none" /\ channel # <<>>
      /\ display' = [display EXCEPT !.rows = rows] /\ channel' = Tail(channel)
      /\ UNCHANGED <<shown, work, sending, closedChannel, stopped, result, reader, doneMsg,
                     returned, dropped>>
  BY <1>1 DEF Display!DrainEvent
<1>3. display \in Displays /\ channel \in Seq(Events) /\ ~display.closed
      /\ Head(channel) \in Events /\ reader.at \notin {"closed", "gone"}
  BY <1>2 DEF DisplayInv, DisplayTypes, EndIsTold
<1>4. /\ rows \in [Items -> {"new"} \cup Shown]
      /\ \A i \in Items : rows[i] = IF Tells(i, Head(channel)) THEN Head(channel).type
                                    ELSE display.rows[i]
  BY <1>1, <1>3, RowsAfter
<1>5. /\ display' \in Displays /\ display'.rows = rows /\ display'.on = display.on
      /\ display'.quit = display.quit /\ display'.plain = display.plain
      /\ display'.left = display.left /\ display'.done = display.done
      /\ display'.closed = display.closed /\ display'.err = display.err
  BY <1>2, <1>3, <1>4 DEF Displays
<1>6. DisplayTypes'
  <2>1. channel' \in Seq(Events) /\ Len(channel') <= Capacity
    BY <1>2, <1>3, OperationsAssumption DEF DisplayInv, DisplayTypes
  <2> QED
    BY <1>2, <1>5, <2>1 DEF DisplayInv, DisplayTypes
<1>7. EndIsTold' /\ LeavesWell'
  BY <1>2, <1>3, <1>5 DEF DisplayInv, EndIsTold, LeavesWell
<1>8. ASSUME NoneLost, NEW i \in Items PROVE Tracked(i)'
  <2>1. Tracked(i)
    BY <1>2, <1>8 DEF DisplayInv
  <2>2. /\ Silent(i) => ~Tells(i, Head(channel)) /\ Silent(i)'
        /\ Told(i) => \/ Told(i)'
                      \/ /\ Tells(i, Head(channel)) /\ Head(channel).type = work[i]
                         /\ Silent(i)'
    BY <1>2, <1>3, FromTheFront
  <2>3. Seen(i) /\ ~Tells(i, Head(channel)) => Seen(i)'
    BY <1>2, <1>4, <1>5 DEF Seen
  <2>4. Tells(i, Head(channel)) /\ Head(channel).type = work[i] => Seen(i)'
    BY <1>2, <1>4, <1>5 DEF Seen
  <2> QED
    BY <1>2, <2>1, <2>2, <2>3, <2>4 DEF Tracked, Tells
<1> QED
  BY <1>2, <1>3, <1>5, <1>6, <1>7, <1>8 DEF DisplayInv, NoneLost

\* Plain output ends with the result of the work.
LEMMA DrainDoneStep == DisplayInv /\ Display!DrainDone => DisplayInv'
<1> SUFFICES ASSUME DisplayInv, Display!DrainDone PROVE DisplayInv'
  OBVIOUS
<1>1. /\ ~display.on /\ display.plain /\ closedChannel /\ channel = <<>>
      /\ result # "running" /\ returned' = IF result = "failed" THEN "failed" ELSE "nil"
      /\ UNCHANGED <<shown, work, sending, channel, closedChannel, stopped, result, reader,
                     display, doneMsg, dropped>>
  BY DEF Display!DrainDone
<1>2. DisplayTypes' /\ EndIsTold' /\ LeavesWell'
  BY <1>1 DEF DisplayInv, DisplayTypes, EndIsTold, LeavesWell
<1>3. \A i \in Items : Tracked(i)' <=> Tracked(i)
  BY <1>1 DEF Tracked, Told, Silent, Seen, Tells
<1> QED
  BY <1>1, <1>2, <1>3 DEF DisplayInv, NoneLost

\* No step breaks the invariant.
LEMMA DisplayStays == DisplayInv /\ [Display!Next]_displayVars => DisplayInv'
<1> SUFFICES ASSUME DisplayInv, [Display!Next]_displayVars PROVE DisplayInv'
  OBVIOUS
<1>1. CASE UNCHANGED displayVars
  <2>1. \A i \in Items : Tracked(i)' <=> Tracked(i)
    BY <1>1 DEF displayVars, Tracked, Told, Silent, Seen, Tells
  <2>2. DisplayTypes' /\ EndIsTold' /\ LeavesWell'
    BY <1>1 DEF displayVars, DisplayInv, DisplayTypes, EndIsTold, LeavesWell
  <2> QED
    BY <1>1, <2>1, <2>2 DEF displayVars, DisplayInv, NoneLost
<1> QED
  BY <1>1, ItemStep, SendStep, EndWorkStep, ReadStep, HandleEventStep, HandleDoneStep,
     HandleClosedStep, KeySteps, DisplayExitStep, DrainEventStep, DrainDoneStep DEF Display!Next

\* What is shown and what is returned is true.
LEMMA DisplayEnough == DisplayInv => DisplayTrue /\ Display!TypeOK
<1> SUFFICES ASSUME DisplayInv PROVE DisplayTrue /\ Display!TypeOK
  OBVIOUS
<1>1. Display!ResultIsTrue
  BY DEF DisplayInv, LeavesWell, Display!ResultIsTrue
<1>2. Display!RowsAreFinal
  <2> SUFFICES ASSUME display.closed, dropped \cap [item : Items, type : Display!Lifecycle] = {}
               PROVE  display.rows = work
    BY DEF Display!RowsAreFinal
  <2>1. NoneLost
    <3> SUFFICES ASSUME NEW e \in dropped PROVE e.type \notin Shown
      BY DEF NoneLost
    <3>1. e \in Events
      BY DEF DisplayInv, DisplayTypes
    <3> QED
      BY <3>1 DEF Events, Shown
  <2> QED
    BY <2>1 DEF DisplayInv
<1>3. Display!DownloadsAreFinal
  BY DEF Display!DownloadsAreFinal, DisplayInv, LeavesWell
<1>4. Display!PlainMissesOne
  <2> SUFFICES ASSUME display.plain, returned \in {"nil", "failed"}, dropped = {},
                      NEW i \in Items, display.rows[i] # work[i]
               PROVE  i = reader.event.item
    BY DEF Display!PlainMissesOne
  <2>1. NoneLost /\ ~display.on /\ closedChannel /\ channel = <<>>
    BY DEF NoneLost, DisplayInv, LeavesWell
  <2>2. Tracked(i) /\ sending[i] = Display!NoEvent
    BY <2>1 DEF DisplayInv, EndIsTold
  <2>3. Seen(i)
    BY <2>1, <2>2, EventsAre DEF Tracked, Told
  <2> QED
    BY <2>1, <2>3 DEF Seen
<1>5. Display!TypeOK
  BY OperationsAssumption DEF DisplayInv, DisplayTypes, Displays, Shown, Display!TypeOK
<1> QED
  BY <1>1, <1>2, <1>3, <1>4, <1>5 DEF DisplayTrue, Display!DisplayTrue

\* What a command shows and what it returns is what has happened, whatever
\* keys were pressed and in whatever order the events of the work, its end and
\* the end of the channel reach the display (RunTaskProgress,
\* RunDownloadProgress, Update, drainTextTaskProgress): no result is made up,
\* a complete display shows every item as it ended unless there was no room
\* for its event, and plain output misses at most one.
THEOREM DisplaysAreTrue == Display!Spec => []DisplayTrue
<1>1. Display!Spec => []DisplayInv
  <2>1. DisplayInv /\ [Display!Next]_Display!dispVars => DisplayInv'
    BY DisplayStays DEF Display!dispVars, displayVars
  <2> QED
    BY <2>1, DisplayInitially, PTL DEF Display!Spec
<1> QED
  BY <1>1, DisplayEnough, PTL

(***************************************************************************)
(* Bundles.  The lock has one owner, and what a sum is written for is      *)
(* whole.                                                                  *)
(***************************************************************************)

Bundled == [in : Bundles!Contents, sum : Bundles!Contents]
BuilderStages ==
    {"resting", "check", "lock", "remove", "ready", "install", "export", "write", "written",
     "archive", "compress", "cleanup", "ok", "failed"}
Locked == {"remove", "ready", "install", "export", "write", "written", "archive",
           "compress", "cleanup"}
BuilderRecords ==
    [at : BuilderStages, sel : Wanted \cup {Bundles!NoSelection}, refresh : BOOLEAN, cleanup : BOOLEAN,
     todo : SUBSET Bundles!Platforms, open : Bundles!Platforms \cup {Bundles!NoPlatform},
     lost : SUBSET Bundles!Platforms]

BundleTypes ==
    /\ latest \in Bundles!Releases /\ frozen \in Bundles!Releases \cup {Bundles!None}
    /\ ready \in Wanted \cup {Bundles!NoSelection, Bundles!Torn}
    /\ bundleLock \in Builders \cup {NoBuilder}
    /\ staged \in [Bundles!Platforms -> Bundled]
    /\ archive \in [Bundles!Platforms -> [file : {"missing", "half", "whole"},
                                          in : Bundles!Contents]]
    /\ builder \in [Builders -> BuilderRecords]
    /\ builds \in 0..MaxBuilds
    /\ copied \in Bundled
    /\ offline \in [files : SUBSET Bundles!Contents, indexes : SUBSET Bundles!Contents,
                    manifest : Bundles!Contents]
    /\ importing \in [at : {"resting", "stage", "files", "indexes", "manifests", "imported"},
                      inventory : Bundles!Contents, files : Bundles!Contents]

\* What the manifest of a platform has is whole, in the stage and in archives.
Whole(c) == c.tools # Bundles!None /\ c.deps
NothingHalf ==
    /\ \A p \in Bundles!Platforms :
         /\ staged[p].sum # Bundles!Nothing => Whole(staged[p].sum)
         /\ archive[p].file # "missing" => Whole(archive[p].in)
    /\ copied.sum # Bundles!Nothing => Whole(copied.sum)

\* One builder is at work.
Locks == \A b \in Builders : (bundleLock = b <=> builder[b].at \in Locked)

Full(t, addons) == [tools |-> t, deps |-> TRUE, addons |-> addons]

\* A platform is staged, or has been removed in part.
StagedAs(p, t, addons) ==
    \/ staged[p] = Bundles!NoBundle
    \/ /\ staged[p].sum = Full(t, addons)
       /\ staged[p].in \in {Full(t, addons), Bundles!Nothing}
\* The stage is that of one release.
Prepared(sel, t) == \A p \in sel.platforms : StagedAs(p, t, sel.addons)

\* The archives that a builder has written.
Finished(r) ==
    r.sel.platforms \ (r.lost \cup r.todo \cup (IF r.at = "compress" THEN {r.open} ELSE {}))
Wrote(r, t) ==
    \A p \in Finished(r) : archive[p].file = "whole" /\ archive[p].in = Full(t, r.sel.addons)

\* What a builder has staged and written where it stands.
Installs(r) ==
    /\ ready = Bundles!NoSelection
    /\ \A p \in r.sel.platforms \ r.todo :
         /\ frozen # Bundles!None
         /\ staged[p].in = [tools |-> frozen, deps |-> FALSE, addons |-> "none"]
Exports(r) ==
    /\ frozen # Bundles!None /\ r.todo \subseteq r.sel.platforms
    /\ \A p \in r.sel.platforms :
         /\ staged[p].in.tools = frozen
         /\ staged[p].in.deps => staged[p].in.addons = r.sel.addons
         /\ p \notin r.todo =>
              staged[p].in = Full(frozen, r.sel.addons) /\ staged[p].sum = staged[p].in
Archives(r) ==
    /\ ready = r.sel /\ r.todo \subseteq r.sel.platforms
    /\ \E t \in Bundles!Releases : Prepared(r.sel, t) /\ Wrote(r, t)
Compresses(r) ==
    /\ ready = r.sel /\ r.todo \subseteq r.sel.platforms
    /\ r.open \in r.sel.platforms /\ r.open \notin r.todo
    /\ \E t \in Bundles!Releases :
         /\ Prepared(r.sel, t) /\ Wrote(r, t)
         /\ staged[r.open].in = Full(t, r.sel.addons)
    /\ r.open \in r.lost \/ archive[r.open] = [file |-> "half", in |-> staged[r.open].in]
Works(r) ==
    /\ r.sel \in Wanted
    /\ r.at = "install" => Installs(r)
    /\ r.at = "export" => ready = Bundles!NoSelection /\ Exports(r)
    /\ r.at = "write" => ready = Bundles!NoSelection /\ r.todo = {} /\ Exports(r)
    /\ r.at = "written" => ready = Bundles!Torn /\ r.todo = {} /\ Exports(r)
    /\ r.at = "archive" => Archives(r)
    /\ r.at = "compress" => Compresses(r)
    /\ r.at \in {"cleanup", "ok"} => r.todo = {}
    /\ r.at \in {"cleanup", "ok"} => \E t \in Bundles!Releases : Wrote(r, t)

\* What an import has, and what the cache has of it.
Imports ==
    /\ importing.at # "resting" => Whole(importing.inventory)
    /\ importing.at \in {"files", "indexes", "manifests", "imported"} =>
         importing.files = importing.inventory
    /\ importing.at \in {"indexes", "manifests", "imported"} =>
         importing.files \in offline.files
    /\ importing.at \in {"manifests", "imported"} => importing.files \in offline.indexes
    /\ Bundles!CacheStaysUsable

BundleInv ==
    /\ BundleTypes /\ NothingHalf /\ Locks
    /\ ready \in Wanted => \E t \in Bundles!Releases : Prepared(ready, t)
    /\ \A b \in Builders : builder[b].at # "resting" => Works(builder[b])
    /\ Imports

\* What is asked for, and what there is.
LEMMA BundlesAre ==
    /\ \A sel \in Wanted : /\ sel.platforms \subseteq Bundles!Platforms
                           /\ sel # Bundles!NoSelection /\ sel # Bundles!Torn
    /\ Bundles!NoSelection # Bundles!Torn
    /\ Bundles!Missing = "missing" /\ Bundles!Half = "half"
    /\ Bundles!Nothing \in Bundles!Contents /\ ~Bundles!Nothing.deps
    /\ Bundles!NoBundle \in Bundled /\ Bundles!NoBundle.sum = Bundles!Nothing
    /\ Bundles!NoFile = [file |-> "missing", in |-> Bundles!Nothing]
    /\ \A sel \in Wanted, t \in Bundles!Releases : Full(t, sel.addons) \in Bundles!Contents
    /\ \A t \in Bundles!Releases : t # Bundles!None
<1>1. \A sel \in Wanted : sel.platforms \subseteq Bundles!Platforms /\ sel.platforms # {}
  BY OperationsAssumption DEF Bundles!Platforms
<1>2. Bundles!NoSelection.platforms = {} /\ Bundles!Torn.platforms = {}
  BY DEF Bundles!NoSelection, Bundles!Torn
<1>3. Bundles!NoSelection # Bundles!Torn
  BY DEF Bundles!NoSelection, Bundles!Torn
<1>4. Bundles!Nothing \in Bundles!Contents /\ ~Bundles!Nothing.deps
  BY DEF Bundles!Nothing, Bundles!Contents
<1>5. Bundles!NoBundle \in Bundled /\ Bundles!NoBundle.sum = Bundles!Nothing
  BY <1>4 DEF Bundles!NoBundle, Bundled
<1>6. \A sel \in Wanted, t \in Bundles!Releases : Full(t, sel.addons) \in Bundles!Contents
  BY DEF Full, Bundles!Contents
<1>7. \A t \in Bundles!Releases : t # Bundles!None
  BY OperationsAssumption DEF Bundles!Releases, Bundles!None
<1> QED
  BY <1>1, <1>2, <1>3, <1>4, <1>5, <1>6, <1>7
     DEF Bundles!Missing, Bundles!Half, Bundles!NoFile

\* Nothing has been built.
LEMMA BundlesInitially == Bundles!Init => BundleInv
<1> SUFFICES ASSUME Bundles!Init PROVE BundleInv
  OBVIOUS
<1>1. /\ latest = 1 /\ frozen = Bundles!None /\ ready = Bundles!NoSelection
      /\ staged = [p \in Bundles!Platforms |-> Bundles!NoBundle]
      /\ archive = [p \in Bundles!Platforms |-> Bundles!NoFile]
      /\ bundleLock = NoBuilder /\ builds = 0
      /\ builder = [b \in Builders |-> Bundles!Resting]
      /\ copied = Bundles!NoBundle
      /\ offline = [files |-> {}, indexes |-> {}, manifest |-> Bundles!Nothing]
      /\ importing = Bundles!NoImport
  BY DEF Bundles!Init
<1>2. \A b \in Builders : builder[b].at = "resting"
  BY <1>1 DEF Bundles!Resting
<1>3. importing.at = "resting" /\ importing = [at |-> "resting", inventory |-> Bundles!Nothing,
                                               files |-> Bundles!Nothing]
  BY <1>1 DEF Bundles!NoImport
<1>4. BundleTypes
  <2>1. latest \in Bundles!Releases /\ builds \in 0..MaxBuilds
    BY <1>1, OperationsAssumption DEF Bundles!Releases
  <2>2. /\ staged \in [Bundles!Platforms -> Bundled] /\ copied \in Bundled
        /\ archive \in [Bundles!Platforms -> [file : {"missing", "half", "whole"},
                                              in : Bundles!Contents]]
    BY <1>1, BundlesAre
  <2>3. /\ offline \in [files : SUBSET Bundles!Contents, indexes : SUBSET Bundles!Contents,
                        manifest : Bundles!Contents]
        /\ importing \in [at : {"resting", "stage", "files", "indexes", "manifests",
                                "imported"},
                          inventory : Bundles!Contents, files : Bundles!Contents]
    BY <1>1, <1>3, BundlesAre
  <2>4. Bundles!Resting \in BuilderRecords
    BY DEF Bundles!Resting, BuilderRecords, BuilderStages, Bundles!NoPlatform
  <2> QED
    BY <1>1, <1>2, <2>1, <2>2, <2>3, <2>4 DEF BundleTypes
<1>5. NothingHalf
  BY <1>1, BundlesAre DEF NothingHalf
<1>6. Locks
  BY <1>1, <1>2, OperationsAssumption DEF Locks, Locked
<1>7. ready \notin Wanted
  BY <1>1, BundlesAre
<1>8. Imports
  BY <1>1, <1>3 DEF Imports, Bundles!CacheStaysUsable
<1> QED
  BY <1>2, <1>4, <1>5, <1>6, <1>7, <1>8 DEF BundleInv

\* A builder that is at work.
LEMMA BuilderIs ==
    ASSUME BundleInv, NEW b \in Builders, builder[b].at # "resting"
    PROVE  /\ builder \in [Builders -> BuilderRecords]
           /\ builder[b] \in BuilderRecords /\ Works(builder[b])
           /\ builder[b].sel \in Wanted /\ builder[b].sel.platforms \subseteq Bundles!Platforms
           /\ builder[b].todo \subseteq Bundles!Platforms
           /\ bundleLock = b <=> builder[b].at \in Locked
           /\ staged \in [Bundles!Platforms -> Bundled]
           /\ archive \in [Bundles!Platforms -> [file : {"missing", "half", "whole"},
                                                 in : Bundles!Contents]]
           /\ frozen \in Bundles!Releases \cup {Bundles!None}
           /\ latest \in Bundles!Releases
BY BundlesAre DEF BundleInv, BundleTypes, Locks, BuilderRecords, Works

\* What the others have done stays while one builds.
LEMMA OthersBuilt ==
    ASSUME BundleInv, NEW b \in Builders, NEW c \in Builders, c # b,
           builder[c].at # "resting",
           \/ UNCHANGED <<frozen, staged, ready, archive>>
           \/ /\ bundleLock = b
              /\ \A p \in Bundles!Platforms :
                   archive'[p] = archive[p] \/ archive[p].file # "whole"
    PROVE  \A r : r = builder[c] => Works(r)'
<1> SUFFICES ASSUME NEW r, r = builder[c] PROVE Works(r)'
  OBVIOUS
<1>1. Works(r) /\ r.sel.platforms \subseteq Bundles!Platforms
      /\ (bundleLock = c <=> r.at \in Locked)
  BY BuilderIs
<1>2. CASE UNCHANGED <<frozen, staged, ready, archive>>
  <2>1. Installs(r)' <=> Installs(r)
    BY <1>2 DEF Installs
  <2>2. Exports(r)' <=> Exports(r)
    BY <1>2 DEF Exports
  <2>3. \A t : (Prepared(r.sel, t)' <=> Prepared(r.sel, t)) /\ (Wrote(r, t)' <=> Wrote(r, t))
    BY <1>2 DEF Prepared, StagedAs, Wrote, Finished
  <2>4. Archives(r)' <=> Archives(r)
    BY <1>2, <2>3 DEF Archives
  <2>5. Compresses(r)' <=> Compresses(r)
    BY <1>2, <2>3 DEF Compresses
  <2> QED
    BY <1>1, <1>2, <2>1, <2>2, <2>3, <2>4, <2>5 DEF Works
<1>3. CASE /\ bundleLock = b
           /\ \A p \in Bundles!Platforms :
                archive'[p] = archive[p] \/ archive[p].file # "whole"
  <2>1. r.at \notin Locked
    BY <1>1, <1>3
  <2>2. ASSUME NEW t, Wrote(r, t) PROVE Wrote(r, t)'
    <3>1. \A p \in Finished(r) : p \in Bundles!Platforms
      BY <1>1 DEF Finished
    <3> QED
      BY <1>3, <2>2, <3>1 DEF Wrote, Finished
  <2> QED
    BY <1>1, <2>1, <2>2 DEF Works, Locked
<1> QED
  BY <1>2, <1>3

\* What is so of what a builder becomes is so of the builder.
LEMMA WorksThen ==
    ASSUME NEW b \in Builders, NEW new, builder'[b] = new, Works(new)'
    PROVE  Works(builder[b])'
<1>1. Installs(builder[b])' <=> Installs(new)'
  BY DEF Installs
<1>2. Exports(builder[b])' <=> Exports(new)'
  BY DEF Exports
<1>3. \A t : /\ Prepared(builder[b].sel, t)' <=> Prepared(new.sel, t)'
            /\ Wrote(builder[b], t)' <=> Wrote(new, t)'
  BY DEF Prepared, Wrote, Finished
<1>4. Archives(builder[b])' <=> Archives(new)'
  BY <1>3 DEF Archives
<1>5. Compresses(builder[b])' <=> Compresses(new)'
  BY <1>3 DEF Compresses
<1> QED
  BY <1>1, <1>2, <1>3, <1>4, <1>5 DEF Works

\* A builder makes a step.
LEMMA OneBuilds ==
    ASSUME BundleInv, NEW b \in Builders, builder[b].at # "resting",
           NEW new, builder' = [builder EXCEPT ![b] = new],
           UNCHANGED <<latest, builds, copied, offline, importing>>,
           frozen' \in Bundles!Releases \cup {Bundles!None},
           ready' \in Wanted \cup {Bundles!NoSelection, Bundles!Torn},
           staged' \in [Bundles!Platforms -> Bundled],
           archive' \in [Bundles!Platforms -> [file : {"missing", "half", "whole"},
                                               in : Bundles!Contents]],
           \/ UNCHANGED <<frozen, staged, ready, archive>>
           \/ /\ bundleLock = b
              /\ \A p \in Bundles!Platforms :
                   archive'[p] = archive[p] \/ archive[p].file # "whole",
           \A p \in Bundles!Platforms :
             /\ staged'[p].sum # Bundles!Nothing => Whole(staged'[p].sum)
             /\ archive'[p].file # "missing" => Whole(archive'[p].in),
           IF new.at \in Locked
           THEN bundleLock' = b /\ bundleLock \in {b, NoBuilder}
           ELSE bundleLock' = IF bundleLock = b THEN NoBuilder ELSE bundleLock,
           ready' \in Wanted => \E t \in Bundles!Releases : Prepared(ready, t)',
           new \in BuilderRecords, new.at = "resting" \/ Works(new)'
    PROVE  BundleInv'
<1>1. /\ DOMAIN builder = Builders /\ builder'[b] = new /\ DOMAIN builder' = Builders
      /\ \A c \in Builders : c # b => builder'[c] = builder[c]
  BY DEF BundleInv, BundleTypes
<1>2. /\ bundleLock' \in Builders \cup {NoBuilder}
      /\ bundleLock' = b <=> new.at \in Locked
      /\ \A c \in Builders : c # b => (bundleLock' = c <=> bundleLock = c)
  BY OperationsAssumption DEF BundleInv, BundleTypes
<1>3. BundleTypes'
  BY <1>1, <1>2 DEF BundleInv, BundleTypes
<1>4. NothingHalf' /\ Imports'
  BY DEF BundleInv, NothingHalf, Imports, Bundles!CacheStaysUsable
<1>5. Locks'
  BY <1>1, <1>2 DEF BundleInv, Locks
<1>6. ASSUME NEW c \in Builders, builder'[c].at # "resting" PROVE Works(builder[c])'
  <2>1. CASE c = b
    BY <1>1, <1>6, <2>1, WorksThen
  <2>2. CASE c # b
    <3>1. builder[c].at # "resting"
      BY <1>1, <1>6, <2>2
    <3>2. \A r : r = builder[c] => Works(r)'
      BY <2>2, <3>1, OthersBuilt
    <3>3. PICK r : r = builder[c]
      OBVIOUS
    <3>4. builder'[c] = r /\ Works(r)'
      BY <1>1, <2>2, <3>2, <3>3
    <3> QED
      BY <3>4, WorksThen
  <2> QED
    BY <2>1, <2>2
<1> QED
  BY <1>3, <1>4, <1>5, <1>6 DEF BundleInv

\* A command begins, and deletes what is in its way.
LEMMA BeginStep ==
    ASSUME BundleInv, NEW b \in Builders, NEW sel \in Wanted, NEW refresh \in BOOLEAN,
           NEW cleanup \in BOOLEAN, Bundles!Begin(b, sel, refresh, cleanup)
    PROVE  BundleInv'
<1>1. PICK new : new = [Bundles!Resting EXCEPT !.at = "check", !.sel = sel,
                          !.refresh = refresh, !.cleanup = cleanup]
  OBVIOUS
<1>2. /\ builder[b].at = "resting" /\ builds < MaxBuilds /\ builds' = builds + 1
      /\ archive' = [p \in Bundles!Platforms |->
           IF p \in sel.platforms THEN Bundles!NoFile ELSE archive[p]]
      /\ builder' = [c \in Builders |->
           IF c = b THEN new
           ELSE [builder[c] EXCEPT !.lost = builder[c].lost \cup sel.platforms]]
      /\ UNCHANGED <<latest, frozen, staged, ready, bundleLock, copied, offline, importing>>
  BY <1>1 DEF Bundles!Begin, Bundles!At, Bundles!stageVars, Bundles!there
<1>3. /\ new.at = "check" /\ new \in BuilderRecords
  <2>1. new = [at |-> "check", sel |-> sel, refresh |-> refresh, cleanup |-> cleanup,
               todo |-> {}, open |-> Bundles!NoPlatform, lost |-> {}]
    BY <1>1 DEF Bundles!Resting
  <2>2. "check" \in BuilderStages /\ {} \in SUBSET Bundles!Platforms
    BY DEF BuilderStages
  <2> QED
    BY <2>1, <2>2 DEF BuilderRecords
<1>4. ASSUME NEW c \in Builders, c # b
      PROVE  /\ builder'[c] \in BuilderRecords /\ builder'[c].at = builder[c].at
             /\ builder'[c].sel = builder[c].sel /\ builder'[c].todo = builder[c].todo
             /\ builder'[c].open = builder[c].open
             /\ builder'[c].lost = builder[c].lost \cup sel.platforms
  <2>1. builder[c] \in BuilderRecords /\ sel.platforms \subseteq Bundles!Platforms
    BY BundlesAre DEF BundleInv, BundleTypes
  <2>2. builder'[c] = [builder[c] EXCEPT !.lost = builder[c].lost \cup sel.platforms]
    BY <1>2, <1>4
  <2> QED
    BY <2>1, <2>2 DEF BuilderRecords
<1>6. BundleTypes'
  <2>1. builds' \in 0..MaxBuilds
    BY <1>2, OperationsAssumption DEF BundleInv, BundleTypes
  <2>2. archive' \in [Bundles!Platforms -> [file : {"missing", "half", "whole"},
                                            in : Bundles!Contents]]
    BY <1>2, BundlesAre DEF BundleInv, BundleTypes
  <2>3. builder' \in [Builders -> BuilderRecords]
    BY <1>2, <1>3, <1>4
  <2> QED
    BY <1>2, <2>1, <2>2, <2>3 DEF BundleInv, BundleTypes
<1>7. NothingHalf' /\ Imports'
  BY <1>2, BundlesAre DEF BundleInv, NothingHalf, Imports, Bundles!CacheStaysUsable
<1>8. Locks'
  <2>1. \A c \in Builders : builder'[c].at \in Locked <=> builder[c].at \in Locked
    BY <1>2, <1>3, <1>4 DEF Locked
  <2> QED
    BY <1>2, <2>1 DEF BundleInv, Locks
<1>9. ready' \in Wanted => \E t \in Bundles!Releases : Prepared(ready, t)'
  BY <1>2 DEF BundleInv, Prepared, StagedAs
<1>10. ASSUME NEW c \in Builders, builder'[c].at # "resting" PROVE Works(builder[c])'
  <2>1. CASE c = b
    <3>1. new.sel = sel
      BY <1>1 DEF Bundles!Resting
    <3>2. Works(new)'
      BY <1>3, <3>1 DEF Works
    <3> QED
      BY <1>2, <2>1, <3>2, WorksThen
  <2>2. CASE c # b
    <3>1. PICK r, n : r = builder[c] /\ n = builder'[c]
      OBVIOUS
    <3>2. /\ Works(r) /\ n.at = r.at /\ n.sel = r.sel /\ n.todo = r.todo /\ n.open = r.open
          /\ n.lost = r.lost \cup sel.platforms /\ r.sel.platforms \subseteq Bundles!Platforms
      BY <1>4, <1>10, <2>2, <3>1, BuilderIs
    <3>3. (Installs(r) => Installs(n)') /\ (Exports(r) => Exports(n)')
      BY <1>2, <3>2 DEF Installs, Exports
    <3>4. ASSUME NEW t, Wrote(r, t) PROVE Wrote(n, t)'
      <4>1. \A p \in Finished(n) : p \in Finished(r) /\ p \notin sel.platforms
                                   /\ p \in Bundles!Platforms
        BY <3>2 DEF Finished
      <4>2. \A p \in Finished(n) : archive'[p] = archive[p]
        BY <1>2, <4>1
      <4> QED
        BY <3>2, <3>4, <4>1, <4>2 DEF Wrote, Finished
    <3>5. \A t : Prepared(r.sel, t) => Prepared(n.sel, t)'
      BY <1>2, <3>2 DEF Prepared, StagedAs
    <3>6. Archives(r) => Archives(n)'
      BY <1>2, <3>2, <3>4, <3>5 DEF Archives
    <3>7. Compresses(r) => Compresses(n)'
      <4> SUFFICES ASSUME Compresses(r) PROVE Compresses(n)'
        OBVIOUS
      <4>1. r.open \in r.lost \/ archive[r.open] = [file |-> "half", in |-> staged[r.open].in]
        BY DEF Compresses
      <4>2. n.open \in n.lost \/ archive'[n.open] = [file |-> "half", in |-> staged'[n.open].in]
        BY <1>2, <3>2, <4>1 DEF Compresses
      <4> QED
        BY <1>2, <3>2, <3>4, <3>5, <4>2 DEF Compresses
    <3>8. Works(n)'
      BY <1>2, <3>2, <3>3, <3>4, <3>6, <3>7 DEF Works
    <3> QED
      BY <3>1, <3>8, WorksThen
  <2> QED
    BY <2>1, <2>2
<1> QED
  BY <1>6, <1>7, <1>8, <1>9, <1>10 DEF BundleInv

\* What a builder becomes when it goes on.
LEMMA BuilderGoes ==
    ASSUME NEW r \in BuilderRecords, NEW at \in BuilderStages,
           NEW todo \in SUBSET Bundles!Platforms, NEW new,
           new = [r EXCEPT !.at = at, !.todo = todo]
    PROVE  /\ new \in BuilderRecords /\ new.at = at /\ new.todo = todo /\ new.sel = r.sel
           /\ new.open = r.open /\ new.lost = r.lost
BY DEF BuilderRecords

\* A builder that stops.
LEMMA BuilderStops ==
    ASSUME NEW r \in BuilderRecords, NEW at \in BuilderStages, NEW new,
           new = [r EXCEPT !.at = at, !.todo = {}, !.open = Bundles!NoPlatform]
    PROVE  /\ new \in BuilderRecords /\ new.at = at /\ new.todo = {} /\ new.sel = r.sel
           /\ new.open = Bundles!NoPlatform /\ new.lost = r.lost
BY DEF BuilderRecords

\* The command finds archives, or takes the lock, or does not get it.
LEMMA CheckAndLock ==
    ASSUME BundleInv, NEW b \in Builders, Bundles!Check(b) \/ Bundles!Lock(b)
    PROVE  BundleInv'
<1>1. PICK r : r = builder[b]
  OBVIOUS
<1>2. PICK at \in {"lock", "failed", "remove", "ready"} :
        /\ builder' = [builder EXCEPT ![b].at = at]
        /\ IF at \in {"remove", "ready"} THEN bundleLock = NoBuilder /\ bundleLock' = b
           ELSE UNCHANGED bundleLock
  <2>1. CASE Bundles!Check(b)
    BY <2>1 DEF Bundles!Check, Bundles!Goto
  <2>2. CASE Bundles!Lock(b)
    BY <2>2 DEF Bundles!Lock, Bundles!Goto
  <2> QED
    BY <2>1, <2>2
<1>3. /\ r.at \in {"check", "lock"}
      /\ UNCHANGED <<latest, frozen, staged, ready, archive, builds, copied, offline, importing>>
  BY <1>1 DEF Bundles!Check, Bundles!Lock, Bundles!At, Bundles!stageVars, Bundles!there
<1>4. /\ r \in BuilderRecords /\ DOMAIN builder = Builders /\ bundleLock # b
  BY <1>1, <1>3, BuilderIs DEF Locked
<1>5. PICK new : new = [r EXCEPT !.at = at, !.todo = r.todo]
  OBVIOUS
<1>6. /\ new \in BuilderRecords /\ new.at = at
      /\ builder' = [builder EXCEPT ![b] = new]
  <2>1. at \in BuilderStages /\ r.todo \in SUBSET Bundles!Platforms
    BY <1>4 DEF BuilderStages, BuilderRecords
  <2>2. new \in BuilderRecords /\ new.at = at
    BY <1>4, <1>5, <2>1 DEF BuilderRecords
  <2>3. new = [r EXCEPT !.at = at]
    BY <1>4, <1>5 DEF BuilderRecords
  <2> QED
    BY <1>1, <1>2, <1>4, <2>2, <2>3
<1>7. Works(new)'
  <2>1. new.sel = r.sel /\ r.sel \in Wanted
    BY <1>1, <1>3, <1>4, <1>5, BuilderIs DEF BuilderRecords
  <2> QED
    BY <1>6, <2>1 DEF Works
<1>8. ready' \in Wanted => \E t \in Bundles!Releases : Prepared(ready, t)'
  BY <1>3 DEF BundleInv, Prepared, StagedAs
<1>9. /\ frozen' \in Bundles!Releases \cup {Bundles!None}
      /\ ready' \in Wanted \cup {Bundles!NoSelection, Bundles!Torn}
      /\ staged' \in [Bundles!Platforms -> Bundled]
      /\ archive' \in [Bundles!Platforms -> [file : {"missing", "half", "whole"},
                                             in : Bundles!Contents]]
      /\ \A p \in Bundles!Platforms :
           /\ staged'[p].sum # Bundles!Nothing => Whole(staged'[p].sum)
           /\ archive'[p].file # "missing" => Whole(archive'[p].in)
  BY <1>3 DEF BundleInv, BundleTypes, NothingHalf
<1>10. IF new.at \in Locked
       THEN bundleLock' = b /\ bundleLock \in {b, NoBuilder}
       ELSE bundleLock' = IF bundleLock = b THEN NoBuilder ELSE bundleLock
  BY <1>2, <1>4, <1>6 DEF Locked
<1> QED
  BY <1>1, <1>3, <1>6, <1>7, <1>8, <1>9, <1>10, OneBuilds

\* What the steps of a builder that leave the stage and the archives need.
LEMMA StageStays ==
    ASSUME BundleInv, UNCHANGED <<frozen, staged, ready, archive>>
    PROVE  /\ frozen' \in Bundles!Releases \cup {Bundles!None}
           /\ ready' \in Wanted \cup {Bundles!NoSelection, Bundles!Torn}
           /\ staged' \in [Bundles!Platforms -> Bundled]
           /\ archive' \in [Bundles!Platforms -> [file : {"missing", "half", "whole"},
                                                  in : Bundles!Contents]]
           /\ \A p \in Bundles!Platforms :
                /\ staged'[p].sum # Bundles!Nothing => Whole(staged'[p].sum)
                /\ archive'[p].file # "missing" => Whole(archive'[p].in)
           /\ ready' \in Wanted => \E t \in Bundles!Releases : Prepared(ready, t)'
BY DEF BundleInv, BundleTypes, NothingHalf, Prepared, StagedAs

\* The stage is removed: in part, ...
LEMMA RemoveInPart ==
    ASSUME BundleInv, NEW b \in Builders, builder[b].at \in {"remove", "cleanup"},
           Bundles!Removes,
           UNCHANGED <<latest, archive, bundleLock, builder, builds, copied, offline, importing>>
    PROVE  BundleInv'
<1>1. PICK r : r = builder[b]
  OBVIOUS
<1>2. /\ r \in BuilderRecords /\ DOMAIN builder = Builders /\ bundleLock = b /\ Works(r)
  <2>1. r.at # "resting" /\ r.at \in Locked
    BY <1>1 DEF Locked
  <2> QED
    BY <1>1, <2>1, BuilderIs
<1>3. builder' = [builder EXCEPT ![b] = r]
  <2>1. builder \in [Builders -> BuilderRecords]
    BY DEF BundleInv, BundleTypes
  <2> QED
    BY <1>1, <2>1
<1>4. /\ frozen' \in {frozen, Bundles!None} /\ ready' \in {ready, Bundles!NoSelection}
      /\ \/ UNCHANGED staged
         \/ \E p \in Bundles!Platforms :
              \E left \in {[staged[p] EXCEPT !.in = Bundles!Nothing], Bundles!NoBundle} :
                staged' = [staged EXCEPT ![p] = left]
  BY DEF Bundles!Removes
<1>5. /\ staged' \in [Bundles!Platforms -> Bundled]
      /\ \A p \in Bundles!Platforms :
           staged'[p] \in {staged[p], Bundles!NoBundle,
                           [staged[p] EXCEPT !.in = Bundles!Nothing]}
  <2>1. staged \in [Bundles!Platforms -> Bundled]
    BY DEF BundleInv, BundleTypes
  <2>2. \A p \in Bundles!Platforms :
          /\ [staged[p] EXCEPT !.in = Bundles!Nothing] \in Bundled
    BY <2>1, BundlesAre DEF Bundled
  <2> QED
    BY <1>4, <2>1, <2>2, BundlesAre
<1>6. ASSUME NEW p \in Bundles!Platforms
      PROVE  /\ staged'[p].sum \in {staged[p].sum, Bundles!Nothing}
             /\ \A t, addons : StagedAs(p, t, addons) => StagedAs(p, t, addons)'
  <2>1. staged[p] \in Bundled
    BY DEF BundleInv, BundleTypes
  <2>2. PICK left : left = [staged[p] EXCEPT !.in = Bundles!Nothing]
    OBVIOUS
  <2>3. /\ left.in = Bundles!Nothing /\ left.sum = staged[p].sum
        /\ staged[p] = Bundles!NoBundle => left = Bundles!NoBundle
    BY <2>1, <2>2 DEF Bundled, Bundles!NoBundle
  <2>4. staged'[p] \in {staged[p], Bundles!NoBundle, left}
    BY <1>5, <2>2
  <2> QED
    BY <2>3, <2>4, BundlesAre DEF StagedAs
<1>7. \A p \in Bundles!Platforms :
        staged'[p].sum # Bundles!Nothing => Whole(staged'[p].sum)
  BY <1>6 DEF BundleInv, NothingHalf
<1>8. ready' \in Wanted => \E t \in Bundles!Releases : Prepared(ready, t)'
  <2> SUFFICES ASSUME ready' \in Wanted PROVE \E t \in Bundles!Releases : Prepared(ready, t)'
    OBVIOUS
  <2>1. ready' = ready /\ ready.platforms \subseteq Bundles!Platforms
    BY <1>4, BundlesAre
  <2>2. PICK t \in Bundles!Releases : Prepared(ready, t)
    BY <2>1 DEF BundleInv
  <2>3. Prepared(ready, t)'
    BY <1>6, <2>1, <2>2 DEF Prepared
  <2> QED
    BY <2>3
<1>9. Works(r)'
  <2>1. \A t : Wrote(r, t)' <=> Wrote(r, t)
    BY DEF Wrote
  <2> QED
    BY <1>1, <1>2, <2>1 DEF Works
<1>10. /\ frozen' \in Bundles!Releases \cup {Bundles!None}
       /\ ready' \in Wanted \cup {Bundles!NoSelection, Bundles!Torn}
       /\ archive' \in [Bundles!Platforms -> [file : {"missing", "half", "whole"},
                                              in : Bundles!Contents]]
       /\ \A p \in Bundles!Platforms : archive'[p].file # "missing" => Whole(archive'[p].in)
  BY <1>4 DEF BundleInv, BundleTypes, NothingHalf
<1>11. r.at \in Locked /\ bundleLock' = b
  BY <1>1, <1>2 DEF Locked
<1> QED
  BY <1>1, <1>2, <1>3, <1>5, <1>7, <1>8, <1>9, <1>10, <1>11, OneBuilds

\* ... and at the end wholly.
LEMMA RemoveStageStep ==
    ASSUME BundleInv, NEW b \in Builders, Bundles!RemoveStage(b)
    PROVE  BundleInv'
<1>1. /\ builder[b].at \in {"remove", "cleanup"}
      /\ UNCHANGED <<latest, archive, builds, copied, offline, importing>>
  BY DEF Bundles!RemoveStage, Bundles!At, Bundles!there
<1>2. CASE Bundles!Removes /\ UNCHANGED <<builder, bundleLock>>
  BY <1>1, <1>2, RemoveInPart
<1>3. CASE /\ UNCHANGED <<frozen, staged, ready>>
           /\ IF Bundles!At(b, "remove") THEN Bundles!Goto(b, "ready") /\ UNCHANGED bundleLock
              ELSE Bundles!Stop(b, "ok")
  <2>1. PICK r : r = builder[b]
    OBVIOUS
  <2>2. r \in BuilderRecords /\ DOMAIN builder = Builders /\ bundleLock = b /\ Works(r)
        /\ "ready" \in BuilderStages /\ "ok" \in BuilderStages
    BY <1>1, <2>1, BuilderIs DEF Locked, BuilderStages
  <2>3. CASE r.at = "remove"
    <3>1. PICK new : new = [r EXCEPT !.at = "ready", !.todo = r.todo]
      OBVIOUS
    <3>2. new \in BuilderRecords /\ new.at = "ready" /\ new.sel = r.sel
      BY <2>2, <3>1, BuilderGoes DEF BuilderRecords
    <3>3. builder' = [builder EXCEPT ![b] = new] /\ UNCHANGED bundleLock
      <4>1. new = [r EXCEPT !.at = "ready"]
        BY <2>2, <3>1 DEF BuilderRecords
      <4> QED
        BY <1>3, <2>1, <2>2, <2>3, <4>1 DEF Bundles!At, Bundles!Goto
    <3>4. Works(new)' /\ new.at \in Locked
      BY <2>2, <3>2 DEF Works, Locked
    <3> QED
      BY <1>1, <1>3, <2>1, <2>2, <3>2, <3>3, <3>4, StageStays, OneBuilds
  <2>4. CASE r.at = "cleanup"
    <3>1. PICK new : new = [r EXCEPT !.at = "ok", !.todo = {}, !.open = Bundles!NoPlatform]
      OBVIOUS
    <3>2. new \in BuilderRecords /\ new.at = "ok" /\ new.todo = {} /\ new.sel = r.sel
          /\ new.lost = r.lost
      BY <2>2, <3>1, BuilderStops DEF BuilderRecords
    <3>3. builder' = [builder EXCEPT ![b] = new] /\ bundleLock' = NoBuilder
      BY <1>3, <2>1, <2>2, <2>4, <3>1 DEF Bundles!At, Bundles!Stop, Bundles!Unlock
    <3>4. Works(new)' /\ new.at \notin Locked
      <4>1. r.todo = {} /\ \E t \in Bundles!Releases : Wrote(r, t)
        BY <2>2, <2>4 DEF Works
      <4>2. Finished(new) = Finished(r)
        BY <2>4, <3>2, <4>1 DEF Finished
      <4>3. \A t : Wrote(r, t) => Wrote(new, t)'
        BY <1>1, <3>2, <4>2 DEF Wrote
      <4> QED
        BY <2>2, <3>2, <4>1, <4>3 DEF Works, Locked
    <3> QED
      BY <1>1, <1>3, <2>1, <2>2, <3>2, <3>3, <3>4, StageStays, OneBuilds
  <2> QED
    BY <1>1, <2>1, <2>3, <2>4
<1> QED
  BY <1>2, <1>3 DEF Bundles!RemoveStage, Bundles!stageVars

\* The stage is new, or goes on, or is one for others.
LEMMA ReadReadyStep ==
    ASSUME BundleInv, NEW b \in Builders, Bundles!ReadReady(b)
    PROVE  BundleInv'
<1>1. PICK r : r = builder[b]
  OBVIOUS
<1>2. /\ r.at = "ready"
      /\ UNCHANGED <<latest, frozen, staged, ready, archive, builds, copied, offline, importing>>
      /\ IF ready = Bundles!NoSelection
         THEN Bundles!GotoFor(b, "install", r.sel.platforms) /\ UNCHANGED bundleLock
         ELSE IF ready = r.sel
         THEN Bundles!GotoFor(b, "archive", r.sel.platforms) /\ UNCHANGED bundleLock
         ELSE Bundles!Stop(b, "failed")
  BY <1>1 DEF Bundles!ReadReady, Bundles!At, Bundles!Sel, Bundles!Matches, Bundles!stageVars,
     Bundles!there
<1>3. /\ r \in BuilderRecords /\ DOMAIN builder = Builders /\ bundleLock = b
      /\ r.sel \in Wanted /\ r.sel.platforms \subseteq Bundles!Platforms
  BY <1>1, <1>2, BuilderIs DEF Locked
<1>4. {"install", "archive", "failed"} \subseteq BuilderStages
  BY DEF BuilderStages
<1>5. CASE ready = Bundles!NoSelection
  <2>1. PICK new : new = [r EXCEPT !.at = "install", !.todo = r.sel.platforms]
    OBVIOUS
  <2>2. /\ new \in BuilderRecords /\ new.at = "install" /\ new.todo = r.sel.platforms
        /\ new.sel = r.sel
    BY <1>3, <1>4, <2>1, BuilderGoes DEF BuilderRecords
  <2>3. builder' = [builder EXCEPT ![b] = new] /\ UNCHANGED bundleLock
    BY <1>1, <1>2, <1>3, <1>5, <2>1 DEF Bundles!GotoFor
  <2>4. Works(new)' /\ new.at \in Locked
    BY <1>2, <1>3, <1>5, <2>2 DEF Works, Installs, Locked
  <2> QED
    BY <1>1, <1>2, <1>3, <2>2, <2>3, <2>4, StageStays, OneBuilds
<1>6. CASE ready # Bundles!NoSelection /\ ready = r.sel
  <2>1. PICK new : new = [r EXCEPT !.at = "archive", !.todo = r.sel.platforms]
    OBVIOUS
  <2>2. /\ new \in BuilderRecords /\ new.at = "archive" /\ new.todo = r.sel.platforms
        /\ new.sel = r.sel /\ new.lost = r.lost
    BY <1>3, <1>4, <2>1, BuilderGoes DEF BuilderRecords
  <2>3. builder' = [builder EXCEPT ![b] = new] /\ UNCHANGED bundleLock
    BY <1>1, <1>2, <1>3, <1>6, <2>1 DEF Bundles!GotoFor
  <2>4. Works(new)' /\ new.at \in Locked
    <3>1. PICK t \in Bundles!Releases : Prepared(r.sel, t)
      BY <1>3, <1>6 DEF BundleInv
    <3>2. Prepared(new.sel, t)'
      BY <1>2, <2>2, <3>1 DEF Prepared, StagedAs
    <3>3. Wrote(new, t)'
      BY <2>2 DEF Wrote, Finished
    <3> QED
      BY <1>2, <1>3, <1>6, <2>2, <3>2, <3>3 DEF Works, Archives, Locked
  <2> QED
    BY <1>1, <1>2, <1>3, <2>2, <2>3, <2>4, StageStays, OneBuilds
<1>7. CASE ready # Bundles!NoSelection /\ ready # r.sel
  <2>1. PICK new : new = [r EXCEPT !.at = "failed", !.todo = {}, !.open = Bundles!NoPlatform]
    OBVIOUS
  <2>2. new \in BuilderRecords /\ new.at = "failed" /\ new.sel = r.sel
    BY <1>3, <1>4, <2>1, BuilderStops DEF BuilderRecords
  <2>3. builder' = [builder EXCEPT ![b] = new] /\ bundleLock' = NoBuilder
    BY <1>1, <1>2, <1>3, <1>7, <2>1 DEF Bundles!Stop, Bundles!Unlock
  <2>4. Works(new)' /\ new.at \notin Locked
    BY <1>3, <2>2 DEF Works, Locked
  <2> QED
    BY <1>1, <1>2, <1>3, <2>2, <2>3, <2>4, StageStays, OneBuilds
<1> QED
  BY <1>5, <1>6, <1>7

\* A directory into which tools are installed.
LEMMA WithTools ==
    ASSUME NEW t, NEW d, d = [Bundles!NoBundle EXCEPT !.in.tools = t]
    PROVE  d = [in |-> [tools |-> t, deps |-> FALSE, addons |-> "none"],
                sum |-> Bundles!Nothing]
<1>1. PICK c : c = Bundles!NoBundle
  OBVIOUS
<1>2. /\ c = [in |-> Bundles!Nothing, sum |-> Bundles!Nothing]
      /\ d = [c EXCEPT !.in.tools = t]
  BY <1>1 DEF Bundles!NoBundle
<1>3. PICK n : n = Bundles!Nothing
  OBVIOUS
<1>4. /\ c.in = n /\ d.sum = Bundles!Nothing /\ d.in = [n EXCEPT !.tools = t]
      /\ DOMAIN d = {"in", "sum"}
  BY <1>2, <1>3
<1>5. n = [tools |-> Bundles!None, deps |-> FALSE, addons |-> "none"]
  BY <1>3 DEF Bundles!Nothing
<1>6. PICK y : y = d.in
  OBVIOUS
<1>7. /\ y.tools = t /\ y.deps = FALSE /\ y.addons = "none"
      /\ y = [n EXCEPT !.tools = t] /\ DOMAIN y = {"tools", "deps", "addons"}
  <2>1. y = [n EXCEPT !.tools = t]
    BY <1>4, <1>6
  <2>2. DOMAIN n = {"tools", "deps", "addons"} /\ n.deps = FALSE /\ n.addons = "none"
    BY <1>5
  <2> QED
    BY <2>1, <2>2
<1>8. y = [tools |-> t, deps |-> FALSE, addons |-> "none"]
  BY <1>7
<1> QED
  BY <1>2, <1>4, <1>6, <1>8

\* A directory into which dependencies are exported.
LEMMA WithDeps ==
    ASSUME NEW c \in Bundled, NEW a, NEW d,
           d = [c EXCEPT !.in.deps = TRUE, !.in.addons = a]
    PROVE  d = [in |-> [tools |-> c.in.tools, deps |-> TRUE, addons |-> a], sum |-> c.sum]
<1>1. d.sum = c.sum /\ DOMAIN d = {"in", "sum"}
  BY DEF Bundled
<1>2. PICK x : x = c.in
  OBVIOUS
<1>3. x \in [tools : Bundles!Releases \cup {Bundles!None}, deps : BOOLEAN,
             addons : {s.addons : s \in Wanted} \cup {"none"}]
  BY <1>2 DEF Bundled, Bundles!Contents
<1>4. d.in = [x EXCEPT !.deps = TRUE, !.addons = a]
  BY <1>2 DEF Bundled
<1>5. PICK y : y = d.in
  OBVIOUS
<1>6. /\ y.tools = x.tools /\ y.deps = TRUE /\ y.addons = a
      /\ y = [x EXCEPT !.deps = TRUE, !.addons = a]
  BY <1>3, <1>4, <1>5
<1>7. y = [tools |-> x.tools, deps |-> TRUE, addons |-> a]
  BY <1>3, <1>6
<1>8. d = [in |-> d.in, sum |-> d.sum]
  BY <1>1 DEF Bundled
<1> QED
  BY <1>1, <1>2, <1>5, <1>7, <1>8

\* What a builder finds of the next platform.
LEMMA NextIs ==
    ASSUME NEW b \in Builders, NEW p, Bundles!IsNext(b, p)
    PROVE  p \in builder[b].todo
BY DEF Bundles!IsNext

\* A platform's tools are installed into an empty directory.
LEMMA InstallStep ==
    ASSUME BundleInv, NEW b \in Builders, NEW p \in Bundles!Platforms, Bundles!Install(b, p)
    PROVE  BundleInv'
<1>1. PICK r, t, todo : /\ r = builder[b] /\ t = Bundles!Resolved /\ todo = r.todo \ {p}
  OBVIOUS
<1>2. PICK at, todo2 : /\ at = IF todo = {} THEN "export" ELSE "install"
                       /\ todo2 = IF todo = {} THEN r.sel.platforms ELSE todo
  OBVIOUS
<1>3. PICK in : in = [tools |-> t, deps |-> FALSE, addons |-> "none"]
  OBVIOUS
<1>4. /\ r.at = "install" /\ p \in r.todo /\ frozen' = t
      /\ staged' = [staged EXCEPT ![p] = [in |-> in, sum |-> Bundles!Nothing]]
      /\ builder' = [builder EXCEPT ![b].at = at, ![b].todo = todo2]
      /\ UNCHANGED <<latest, ready, archive, bundleLock, builds, copied, offline, importing>>
  <2>1. [Bundles!NoBundle EXCEPT !.in.tools = t] = [in |-> in, sum |-> Bundles!Nothing]
    BY <1>3, WithTools
  <2> QED
    BY <1>1, <1>2, <2>1, NextIs
       DEF Bundles!Install, Bundles!At, Bundles!Sel, Bundles!GotoFor, Bundles!there
<1>5. /\ r \in BuilderRecords /\ builder \in [Builders -> BuilderRecords] /\ bundleLock = b
      /\ Installs(r) /\ r.sel \in Wanted /\ r.sel.platforms \subseteq Bundles!Platforms
      /\ staged \in [Bundles!Platforms -> Bundled]
      /\ frozen \in Bundles!Releases \cup {Bundles!None} /\ latest \in Bundles!Releases
  BY <1>1, <1>4, BuilderIs DEF Locked, Works, BundleInv, BundleTypes
<1>6. t \in Bundles!Releases /\ t # Bundles!None /\ (frozen # Bundles!None => t = frozen)
  BY <1>1, <1>5, BundlesAre DEF Bundles!Resolved
<1>7. PICK new : new = [r EXCEPT !.at = at, !.todo = todo2]
  OBVIOUS
<1>8. /\ new \in BuilderRecords /\ new.at = at /\ new.todo = todo2 /\ new.sel = r.sel
      /\ new.lost = r.lost
  <2>1. at \in BuilderStages /\ todo2 \in SUBSET Bundles!Platforms
    BY <1>1, <1>2, <1>5 DEF BuilderStages, BuilderRecords
  <2> QED
    BY <1>5, <1>7, <2>1 DEF BuilderRecords
<1>9. builder' = [builder EXCEPT ![b] = new]
  BY <1>1, <1>4, <1>5, <1>7
<1>10. in \in Bundles!Contents /\ Bundles!Nothing \in Bundles!Contents
  BY <1>3, <1>6, BundlesAre DEF Bundles!Contents
<1>11. staged' \in [Bundles!Platforms -> Bundled]
  BY <1>4, <1>5, <1>10 DEF Bundled
<1>12. /\ staged'[p].in = in /\ staged'[p].sum = Bundles!Nothing
       /\ \A q \in Bundles!Platforms : q # p => staged'[q] = staged[q]
  BY <1>4, <1>5
<1>13. \A q \in r.sel.platforms \ todo : staged'[q].in = in
  BY <1>1, <1>3, <1>5, <1>6, <1>12 DEF Installs
<1>14. ready' = Bundles!NoSelection /\ ready' \notin Wanted
  BY <1>4, <1>5, BundlesAre DEF Installs
<1>15. Works(new)'
  <2>1. CASE todo = {}
    <3>1. /\ new.at = "export" /\ new.todo = r.sel.platforms
          /\ \A q \in r.sel.platforms : staged'[q].in = in
      BY <1>2, <1>8, <1>13, <2>1
    <3>2. Exports(new)'
      BY <1>3, <1>4, <1>6, <1>8, <3>1 DEF Exports
    <3> QED
      BY <1>5, <1>8, <1>14, <3>1, <3>2 DEF Works
  <2>2. CASE todo # {}
    <3>1. new.at = "install" /\ new.todo = todo
      BY <1>2, <1>8, <2>2
    <3>2. Installs(new)'
      BY <1>3, <1>4, <1>6, <1>8, <1>13, <1>14, <3>1 DEF Installs
    <3> QED
      BY <1>5, <1>8, <3>1, <3>2 DEF Works
  <2> QED
    BY <2>1, <2>2
<1>16. \A q \in Bundles!Platforms :
         /\ staged'[q].sum # Bundles!Nothing => Whole(staged'[q].sum)
         /\ archive'[q].file # "missing" => Whole(archive'[q].in)
  BY <1>4, <1>12 DEF BundleInv, NothingHalf
<1>17. /\ frozen' \in Bundles!Releases \cup {Bundles!None}
       /\ ready' \in Wanted \cup {Bundles!NoSelection, Bundles!Torn}
       /\ archive' \in [Bundles!Platforms -> [file : {"missing", "half", "whole"},
                                              in : Bundles!Contents]]
  BY <1>4, <1>6 DEF BundleInv, BundleTypes
<1>18. new.at \in Locked /\ bundleLock' = b
  BY <1>2, <1>4, <1>5, <1>8 DEF Locked
<1> QED
  BY <1>1, <1>4, <1>5, <1>8, <1>9, <1>11, <1>14, <1>15, <1>16, <1>17, <1>18, OneBuilds

\* Dependencies are downloaded and exported.
LEMMA ExportStep ==
    ASSUME BundleInv, NEW b \in Builders, NEW p \in Bundles!Platforms, Bundles!Export(b, p)
    PROVE  BundleInv'
<1>1. PICK r, x : /\ r = builder[b]
                  /\ x = [tools |-> staged[p].in.tools, deps |-> TRUE, addons |-> r.sel.addons]
  OBVIOUS
<1>2. PICK y : y = [in |-> x, sum |-> staged[p].sum]
  OBVIOUS
<1>3. /\ r.at = "export" /\ p \in r.todo
      /\ staged' = [staged EXCEPT ![p].in.deps = TRUE, ![p].in.addons = r.sel.addons]
      /\ UNCHANGED <<latest, frozen, ready, archive, bundleLock, builder, builds, copied,
                     offline, importing>>
  BY <1>1, NextIs DEF Bundles!Export, Bundles!At, Bundles!Sel, Bundles!there
<1>4. /\ r \in BuilderRecords /\ builder \in [Builders -> BuilderRecords] /\ bundleLock = b
      /\ Exports(r) /\ r.sel \in Wanted /\ r.sel.platforms \subseteq Bundles!Platforms
      /\ staged \in [Bundles!Platforms -> Bundled] /\ ready = Bundles!NoSelection
  BY <1>1, <1>3, BuilderIs DEF Locked, Works, BundleInv, BundleTypes
<1>5. /\ staged[p].in \in Bundles!Contents /\ staged[p].sum \in Bundles!Contents
      /\ staged[p] = [in |-> staged[p].in, sum |-> staged[p].sum]
  BY <1>4 DEF Bundled
<1>6. x \in Bundles!Contents /\ y \in Bundled
  BY <1>1, <1>2, <1>4, <1>5 DEF Bundles!Contents, Bundled
<1>7. staged' = [staged EXCEPT ![p] = y]
  <2>4. [staged[p] EXCEPT !.in.deps = TRUE, !.in.addons = r.sel.addons] = y
    <3>1. PICK c, d : c = staged[p] /\ d = [c EXCEPT !.in.deps = TRUE, !.in.addons = r.sel.addons]
      OBVIOUS
    <3>2. d = [in |-> [tools |-> c.in.tools, deps |-> TRUE, addons |-> r.sel.addons],
               sum |-> c.sum]
      <4>1. c \in Bundled /\ d = [c EXCEPT !.in.deps = TRUE, !.in.addons = r.sel.addons]
        BY <1>4, <3>1
      <4> QED
        BY <4>1, WithDeps
    <3> QED
      BY <1>1, <1>2, <3>1, <3>2
  <2> QED
    BY <1>3, <1>4, <2>4
<1>8. /\ staged' \in [Bundles!Platforms -> Bundled]
      /\ staged'[p].in = x /\ staged'[p].sum = staged[p].sum
      /\ \A q \in Bundles!Platforms : q # p => staged'[q] = staged[q]
  BY <1>2, <1>4, <1>6, <1>7
<1>9. Exports(r)'
  <2>1. /\ frozen # Bundles!None /\ r.todo \subseteq r.sel.platforms
        /\ \A q \in r.sel.platforms :
             /\ staged[q].in.tools = frozen
             /\ staged[q].in.deps => staged[q].in.addons = r.sel.addons
             /\ q \notin r.todo =>
                  staged[q].in = Full(frozen, r.sel.addons) /\ staged[q].sum = staged[q].in
    BY <1>4 DEF Exports
  <2>2. x.tools = frozen /\ x.addons = r.sel.addons
    BY <1>1, <1>3, <2>1
  <2> QED
    BY <1>3, <1>4, <1>8, <2>1, <2>2 DEF Exports, Full
<1>10. Works(r)'
  BY <1>3, <1>4, <1>9 DEF Works
<1>11. \A q \in Bundles!Platforms :
         /\ staged'[q].sum # Bundles!Nothing => Whole(staged'[q].sum)
         /\ archive'[q].file # "missing" => Whole(archive'[q].in)
  BY <1>3, <1>8 DEF BundleInv, NothingHalf
<1>12. /\ frozen' \in Bundles!Releases \cup {Bundles!None}
       /\ ready' \in Wanted \cup {Bundles!NoSelection, Bundles!Torn}
       /\ archive' \in [Bundles!Platforms -> [file : {"missing", "half", "whole"},
                                              in : Bundles!Contents]]
       /\ ready' \notin Wanted
  BY <1>3, <1>4, BundlesAre DEF BundleInv, BundleTypes
<1>13. /\ r.at \in Locked /\ bundleLock' = b /\ builder' = [builder EXCEPT ![b] = r]
  BY <1>1, <1>3, <1>4 DEF Locked
<1> QED
  BY <1>1, <1>3, <1>4, <1>8, <1>10, <1>11, <1>12, <1>13, OneBuilds

\* What was exported gets its manifest.
LEMMA WriteBundleManifest ==
    ASSUME BundleInv, NEW b \in Builders, NEW p \in Bundles!Platforms,
           Bundles!WriteManifest(b, p)
    PROVE  BundleInv'
<1>1. PICK r, todo, x : r = builder[b] /\ todo = r.todo \ {p} /\ x = staged[p].in
  OBVIOUS
<1>2. PICK at : at = IF todo = {} THEN "write" ELSE "export"
  OBVIOUS
<1>3. /\ r.at = "export" /\ p \in r.todo /\ x.deps
      /\ staged' = [staged EXCEPT ![p].sum = x]
      /\ builder' = [builder EXCEPT ![b].at = at, ![b].todo = todo]
      /\ UNCHANGED <<latest, frozen, ready, archive, bundleLock, builds, copied, offline,
                     importing>>
  BY <1>1, <1>2, NextIs DEF Bundles!WriteManifest, Bundles!At, Bundles!GotoFor, Bundles!there
<1>4. /\ r \in BuilderRecords /\ builder \in [Builders -> BuilderRecords] /\ bundleLock = b
      /\ Exports(r) /\ r.sel \in Wanted /\ r.sel.platforms \subseteq Bundles!Platforms
      /\ staged \in [Bundles!Platforms -> Bundled] /\ ready = Bundles!NoSelection
  BY <1>1, <1>3, BuilderIs DEF Locked, Works, BundleInv, BundleTypes
<1>5. /\ p \in r.sel.platforms /\ x.tools = frozen /\ frozen # Bundles!None
      /\ x.addons = r.sel.addons /\ x \in Bundles!Contents
  BY <1>1, <1>3, <1>4 DEF Exports, Bundled
<1>6. x = Full(frozen, r.sel.addons) /\ Whole(x)
  <2>1. x = [tools |-> x.tools, deps |-> x.deps, addons |-> x.addons]
    BY <1>5 DEF Bundles!Contents
  <2>2. x.deps = TRUE
    BY <1>3, <1>5 DEF Bundles!Contents
  <2> QED
    BY <1>5, <2>1, <2>2 DEF Full, Whole
<1>7. PICK new : new = [r EXCEPT !.at = at, !.todo = todo]
  OBVIOUS
<1>8. /\ new \in BuilderRecords /\ new.at = at /\ new.todo = todo /\ new.sel = r.sel
      /\ new.lost = r.lost
  <2>1. at \in BuilderStages /\ todo \in SUBSET Bundles!Platforms
    BY <1>1, <1>2, <1>4 DEF BuilderStages, BuilderRecords
  <2> QED
    BY <1>4, <1>7, <2>1 DEF BuilderRecords
<1>9. builder' = [builder EXCEPT ![b] = new]
  BY <1>1, <1>3, <1>4, <1>7
<1>10. /\ staged' \in [Bundles!Platforms -> Bundled]
       /\ staged'[p].in = x /\ staged'[p].sum = x
       /\ \A q \in Bundles!Platforms : q # p => staged'[q] = staged[q]
  <2>1. PICK d : d = [staged[p] EXCEPT !.sum = x]
    OBVIOUS
  <2>2. d \in Bundled /\ d.in = x /\ d.sum = x
    BY <1>1, <1>4, <1>5, <2>1 DEF Bundled
  <2>3. staged' = [staged EXCEPT ![p] = d]
    BY <1>3, <1>4, <2>1
  <2> QED
    BY <1>4, <2>2, <2>3
<1>11. Exports(new)'
  BY <1>1, <1>3, <1>4, <1>5, <1>6, <1>8, <1>10 DEF Exports
<1>12. Works(new)'
  BY <1>2, <1>3, <1>4, <1>8, <1>11 DEF Works
<1>13. \A q \in Bundles!Platforms :
         /\ staged'[q].sum # Bundles!Nothing => Whole(staged'[q].sum)
         /\ archive'[q].file # "missing" => Whole(archive'[q].in)
  BY <1>3, <1>6, <1>10 DEF BundleInv, NothingHalf
<1>14. /\ frozen' \in Bundles!Releases \cup {Bundles!None}
       /\ ready' \in Wanted \cup {Bundles!NoSelection, Bundles!Torn}
       /\ archive' \in [Bundles!Platforms -> [file : {"missing", "half", "whole"},
                                              in : Bundles!Contents]]
       /\ ready' \notin Wanted
  BY <1>3, <1>4, BundlesAre DEF BundleInv, BundleTypes
<1>15. new.at \in Locked /\ bundleLock' = b
  BY <1>2, <1>3, <1>4, <1>8 DEF Locked
<1> QED
  <2>1. \A q \in Bundles!Platforms : archive'[q] = archive[q]
    BY <1>3
  <2>2. builder[b].at # "resting"
    BY <1>1, <1>3
  <2>3. bundleLock = b /\ UNCHANGED <<latest, builds, copied, offline, importing>>
    BY <1>3, <1>4
  <2> QED
    BY <1>8, <1>9, <1>10, <1>12, <1>13, <1>14, <1>15, <2>1, <2>2, <2>3, OneBuilds

\* The staging is marked as one for this selection.
LEMMA WriteReadyStep ==
    ASSUME BundleInv, NEW b \in Builders, Bundles!WriteReady(b)
    PROVE  BundleInv'
<1>1. PICK r : r = builder[b]
  OBVIOUS
<1>2. /\ r.at \in {"write", "written"}
      /\ UNCHANGED <<latest, frozen, staged, archive, bundleLock, builds, copied, offline,
                     importing>>
      /\ \/ r.at = "write" /\ ready' = Bundles!Torn /\ Bundles!Goto(b, "written")
         \/ /\ r.at = "written" /\ ready' = r.sel
            /\ Bundles!GotoFor(b, "archive", r.sel.platforms)
  BY <1>1 DEF Bundles!WriteReady, Bundles!At, Bundles!Sel, Bundles!there
<1>3. /\ r \in BuilderRecords /\ builder \in [Builders -> BuilderRecords] /\ bundleLock = b
      /\ Exports(r) /\ r.todo = {} /\ r.sel \in Wanted
      /\ r.sel.platforms \subseteq Bundles!Platforms
  BY <1>1, <1>2, BuilderIs DEF Locked, Works, BundleInv, BundleTypes
<1>4. {"written", "archive"} \subseteq BuilderStages
  BY DEF BuilderStages
<1>5. /\ frozen' \in Bundles!Releases \cup {Bundles!None}
      /\ staged' \in [Bundles!Platforms -> Bundled]
      /\ archive' \in [Bundles!Platforms -> [file : {"missing", "half", "whole"},
                                             in : Bundles!Contents]]
      /\ \A q \in Bundles!Platforms :
           /\ staged'[q].sum # Bundles!Nothing => Whole(staged'[q].sum)
           /\ archive'[q].file # "missing" => Whole(archive'[q].in)
  BY <1>2 DEF BundleInv, BundleTypes, NothingHalf
<1>6. CASE r.at = "write"
  <2>1. PICK new : new = [r EXCEPT !.at = "written"]
    OBVIOUS
  <2>2. /\ new \in BuilderRecords /\ new.at = "written" /\ new.todo = {} /\ new.sel = r.sel
    BY <1>3, <1>4, <2>1 DEF BuilderRecords
  <2>3. builder' = [builder EXCEPT ![b] = new] /\ ready' = Bundles!Torn
    BY <1>1, <1>2, <1>3, <1>6, <2>1 DEF Bundles!Goto
  <2>4. Exports(new)'
    BY <1>2, <1>3, <2>2 DEF Exports
  <2>5. Works(new)' /\ new.at \in Locked /\ ready' \notin Wanted
    BY <1>3, <2>2, <2>3, <2>4, BundlesAre DEF Works, Locked
  <2> QED
    BY <1>1, <1>2, <1>3, <1>5, <2>2, <2>3, <2>5, OneBuilds
<1>7. CASE r.at = "written"
  <2>1. PICK new : new = [r EXCEPT !.at = "archive", !.todo = r.sel.platforms]
    OBVIOUS
  <2>2. /\ new \in BuilderRecords /\ new.at = "archive" /\ new.todo = r.sel.platforms
        /\ new.sel = r.sel
    BY <1>3, <1>4, <2>1 DEF BuilderRecords
  <2>3. builder' = [builder EXCEPT ![b] = new] /\ ready' = r.sel
    BY <1>1, <1>2, <1>3, <1>7, <2>1 DEF Bundles!GotoFor
  <2>4. frozen \in Bundles!Releases /\ Prepared(r.sel, frozen)'
    BY <1>2, <1>3 DEF Exports, Prepared, StagedAs, BundleInv, BundleTypes
  <2>5. Wrote(new, frozen)'
    BY <2>2 DEF Wrote, Finished
  <2>6. PICK t \in Bundles!Releases : Prepared(r.sel, t)' /\ Wrote(new, t)'
    BY <1>2, <2>4, <2>5 DEF Prepared, StagedAs, Wrote
  <2>7. Works(new)' /\ new.at \in Locked
    BY <1>3, <2>2, <2>3, <2>6 DEF Works, Archives, Locked
  <2>8. Prepared(ready, t)'
    BY <2>3, <2>6 DEF Prepared
  <2> QED
    BY <1>1, <1>2, <1>3, <1>5, <2>2, <2>3, <2>7, <2>8, OneBuilds
<1> QED
  BY <1>2, <1>6, <1>7

\* An archive is begun, of what is verified, where no other is.
LEMMA OpenArchiveStep ==
    ASSUME BundleInv, NEW b \in Builders, NEW p \in Bundles!Platforms, Bundles!OpenArchive(b, p)
    PROVE  BundleInv'
<1>1. PICK r, x, todo, lost : /\ r = builder[b] /\ x = staged[p].in
                              /\ todo = r.todo \ {p} /\ lost = r.lost \ {p}
  OBVIOUS
<1>2. /\ r.at = "archive" /\ p \in r.todo
      /\ UNCHANGED <<latest, frozen, staged, ready, builds, copied, offline, importing>>
      /\ \/ /\ staged[p].sum # Bundles!Nothing /\ x = staged[p].sum
            /\ archive[p].file = "missing"
            /\ archive' = [archive EXCEPT ![p] = [file |-> "half", in |-> x]]
            /\ builder' = [builder EXCEPT ![b].at = "compress", ![b].open = p,
                             ![b].todo = todo, ![b].lost = lost]
            /\ UNCHANGED bundleLock
         \/ Bundles!Stop(b, "failed") /\ UNCHANGED archive
  <2>1. builder[b].todo \ {p} = todo /\ builder[b].lost \ {p} = lost
    BY <1>1
  <2>2. Bundles!IsNext(b, p)
    BY DEF Bundles!OpenArchive
  <2> QED
    BY <1>1, <2>1, NextIs DEF Bundles!OpenArchive, Bundles!At, Bundles!Verified,
       Bundles!Missing, Bundles!Half, Bundles!stageVars, Bundles!there
<1>3. /\ r \in BuilderRecords /\ builder \in [Builders -> BuilderRecords] /\ bundleLock = b
      /\ Archives(r) /\ r.sel \in Wanted /\ r.sel.platforms \subseteq Bundles!Platforms
      /\ r.todo \subseteq r.sel.platforms
      /\ staged \in [Bundles!Platforms -> Bundled]
      /\ archive \in [Bundles!Platforms -> [file : {"missing", "half", "whole"},
                                            in : Bundles!Contents]]
  BY <1>1, <1>2, BuilderIs DEF Locked, Works, Archives, BundleInv, BundleTypes
<1>4. {"compress", "failed"} \subseteq BuilderStages
  BY DEF BuilderStages
<1>5. CASE Bundles!Stop(b, "failed") /\ UNCHANGED archive
  <2>1. PICK new : new = [r EXCEPT !.at = "failed", !.todo = {}, !.open = Bundles!NoPlatform]
    OBVIOUS
  <2>2. new \in BuilderRecords /\ new.at = "failed" /\ new.sel = r.sel
    BY <1>3, <1>4, <2>1, BuilderStops DEF BuilderRecords
  <2>3. builder' = [builder EXCEPT ![b] = new] /\ bundleLock' = NoBuilder
    BY <1>1, <1>3, <1>5, <2>1 DEF Bundles!Stop, Bundles!Unlock
  <2>4. Works(new)' /\ new.at \notin Locked
    BY <1>3, <2>2 DEF Works, Locked
  <2> QED
    BY <1>1, <1>2, <1>3, <1>5, <2>2, <2>3, <2>4, StageStays, OneBuilds
<1>6. CASE /\ staged[p].sum # Bundles!Nothing /\ x = staged[p].sum
           /\ archive[p].file = "missing"
           /\ archive' = [archive EXCEPT ![p] = [file |-> "half", in |-> x]]
           /\ builder' = [builder EXCEPT ![b].at = "compress", ![b].open = p,
                            ![b].todo = todo, ![b].lost = lost]
           /\ UNCHANGED bundleLock
  <2>1. PICK new : new = [r EXCEPT !.at = "compress", !.open = p, !.todo = todo, !.lost = lost]
    OBVIOUS
  <2>2. /\ new \in BuilderRecords /\ new.at = "compress" /\ new.sel = r.sel /\ new.open = p
        /\ new.todo = todo /\ new.lost = lost
    BY <1>1, <1>3, <1>4, <2>1 DEF BuilderRecords
  <2>3. builder' = [builder EXCEPT ![b] = new] /\ bundleLock' = b
    BY <1>1, <1>3, <1>6, <2>1
  <2>4. /\ x \in Bundles!Contents /\ Whole(x)
        /\ archive'[p] = [file |-> "half", in |-> x]
        /\ \A q \in Bundles!Platforms : q # p => archive'[q] = archive[q]
        /\ archive' \in [Bundles!Platforms -> [file : {"missing", "half", "whole"},
                                               in : Bundles!Contents]]
    <3>1. x \in Bundles!Contents /\ Whole(x)
      BY <1>1, <1>3, <1>6 DEF Bundled, BundleInv, NothingHalf
    <3>2. [file |-> "half", in |-> x] \in [file : {"missing", "half", "whole"},
                                           in : Bundles!Contents]
      BY <3>1
    <3> QED
      BY <1>3, <1>6, <3>1, <3>2
  <2>5. PICK t \in Bundles!Releases : Prepared(r.sel, t) /\ Wrote(r, t)
    BY <1>3 DEF Archives
  <2>6. p \in r.sel.platforms /\ x = Full(t, r.sel.addons)
    BY <1>1, <1>2, <1>3, <1>6, <2>5, BundlesAre DEF Prepared, StagedAs
  <2>7. Wrote(new, t)'
    <3>1. Finished(new) \subseteq Finished(r) /\ p \notin Finished(new)
          /\ \A q \in Finished(new) : q \in Bundles!Platforms
      BY <1>1, <1>2, <1>3, <2>2 DEF Finished
    <3>2. \A q \in Finished(new) : archive'[q] = archive[q]
      BY <2>4, <3>1
    <3> QED
      BY <2>2, <2>5, <3>1, <3>2 DEF Wrote, Finished
  <2>8. Prepared(r.sel, t)'
    BY <1>2, <2>5 DEF Prepared, StagedAs
  <2>9. Compresses(new)'
    BY <1>1, <1>2, <1>3, <2>2, <2>4, <2>6, <2>7, <2>8 DEF Compresses, Archives
  <2>10. Works(new)' /\ new.at \in Locked
    BY <1>3, <2>2, <2>9 DEF Works, Locked
  <2>11. \A q \in Bundles!Platforms :
           /\ staged'[q].sum # Bundles!Nothing => Whole(staged'[q].sum)
           /\ archive'[q].file # "missing" => Whole(archive'[q].in)
           /\ archive'[q] = archive[q] \/ archive[q].file # "whole"
    BY <1>2, <1>6, <2>4 DEF BundleInv, NothingHalf
  <2>12. /\ frozen' \in Bundles!Releases \cup {Bundles!None}
         /\ ready' \in Wanted \cup {Bundles!NoSelection, Bundles!Torn}
         /\ staged' \in [Bundles!Platforms -> Bundled]
         /\ ready' \in Wanted => \E s \in Bundles!Releases : Prepared(ready, s)'
    BY <1>2 DEF BundleInv, BundleTypes, Prepared, StagedAs
  <2>13. builder[b].at # "resting"
    BY <1>1, <1>2
  <2> QED
    BY <1>2, <1>3, <2>2, <2>3, <2>4, <2>10, <2>11, <2>12, <2>13, OneBuilds
<1> QED
  BY <1>2, <1>5, <1>6

\* An archive is finished, or given up.
LEMMA CloseArchiveStep ==
    ASSUME BundleInv, NEW b \in Builders, Bundles!CloseArchive(b)
    PROVE  BundleInv'
<1>1. PICK r, p, x : r = builder[b] /\ p = r.open /\ x = staged[p].in
  OBVIOUS
<1>2. /\ r.at = "compress"
      /\ UNCHANGED <<latest, frozen, staged, ready, builds, copied, offline, importing>>
      /\ \/ /\ archive' = Bundles!Written(b, p, [file |-> "whole", in |-> x])
            /\ \/ r.todo # {} /\ Bundles!Goto(b, "archive") /\ UNCHANGED bundleLock
               \/ r.todo = {} /\ Bundles!Goto(b, "cleanup") /\ UNCHANGED bundleLock
               \/ r.todo = {} /\ Bundles!Stop(b, "ok")
         \/ archive' = Bundles!Written(b, p, Bundles!NoFile) /\ Bundles!Stop(b, "failed")
  BY <1>1 DEF Bundles!CloseArchive, Bundles!At, Bundles!stageVars, Bundles!there
<1>3. /\ r \in BuilderRecords /\ builder \in [Builders -> BuilderRecords] /\ bundleLock = b
      /\ Compresses(r) /\ r.sel \in Wanted /\ r.sel.platforms \subseteq Bundles!Platforms
      /\ staged \in [Bundles!Platforms -> Bundled]
      /\ archive \in [Bundles!Platforms -> [file : {"missing", "half", "whole"},
                                            in : Bundles!Contents]]
  BY <1>1, <1>2, BuilderIs DEF Locked, Works, BundleInv, BundleTypes
<1>4. {"archive", "cleanup", "ok", "failed"} \subseteq BuilderStages
  BY DEF BuilderStages
<1>5. PICK t \in Bundles!Releases : Prepared(r.sel, t) /\ Wrote(r, t) /\ x = Full(t, r.sel.addons)
  BY <1>1, <1>3 DEF Compresses
<1>6. /\ p \in r.sel.platforms /\ p \in Bundles!Platforms /\ p \notin r.todo
      /\ (p \in r.lost \/ archive[p].file = "half") /\ ready = r.sel
      /\ x \in Bundles!Contents /\ Whole(x)
  BY <1>1, <1>3, <1>5, BundlesAre DEF Compresses, Full, Whole
<1>7. PICK file :
        /\ archive' = Bundles!Written(b, p, file)
        /\ \/ /\ file = [file |-> "whole", in |-> x]
              /\ \/ r.todo # {} /\ Bundles!Goto(b, "archive") /\ UNCHANGED bundleLock
                 \/ r.todo = {} /\ Bundles!Goto(b, "cleanup") /\ UNCHANGED bundleLock
                 \/ r.todo = {} /\ Bundles!Stop(b, "ok")
           \/ file = Bundles!NoFile /\ Bundles!Stop(b, "failed")
  BY <1>2
<1>8. /\ file \in [file : {"missing", "half", "whole"}, in : Bundles!Contents]
      /\ file.file # "missing" => Whole(file.in)
  BY <1>6, <1>7, BundlesAre
<1>9. /\ archive' = [archive EXCEPT ![p] = IF p \in r.lost THEN archive[p] ELSE file]
      /\ archive' \in [Bundles!Platforms -> [file : {"missing", "half", "whole"},
                                             in : Bundles!Contents]]
      /\ \A q \in Bundles!Platforms :
           /\ archive'[q] = IF q = p /\ p \notin r.lost THEN file ELSE archive[q]
           /\ archive'[q].file # "missing" => Whole(archive'[q].in)
           /\ archive'[q] = archive[q] \/ archive[q].file # "whole"
  <2>1. archive' = [archive EXCEPT ![p] = IF p \in r.lost THEN archive[p] ELSE file]
    BY <1>1, <1>7 DEF Bundles!Written
  <2>2. \A q \in Bundles!Platforms :
          archive'[q] = IF q = p /\ p \notin r.lost THEN file ELSE archive[q]
    BY <1>3, <1>6, <2>1
  <2>3. archive' \in [Bundles!Platforms -> [file : {"missing", "half", "whole"},
                                            in : Bundles!Contents]]
    BY <1>3, <1>6, <1>8, <2>1
  <2>4. \A q \in Bundles!Platforms :
          /\ archive'[q].file # "missing" => Whole(archive'[q].in)
          /\ archive'[q] = archive[q] \/ archive[q].file # "whole"
    BY <1>6, <1>8, <2>2 DEF BundleInv, NothingHalf
  <2> QED
    BY <2>1, <2>2, <2>3, <2>4
<1>10. /\ frozen' \in Bundles!Releases \cup {Bundles!None}
       /\ ready' \in Wanted \cup {Bundles!NoSelection, Bundles!Torn}
       /\ staged' \in [Bundles!Platforms -> Bundled]
       /\ ready' \in Wanted => \E s \in Bundles!Releases : Prepared(ready, s)'
       /\ \A q \in Bundles!Platforms :
            staged'[q].sum # Bundles!Nothing => Whole(staged'[q].sum)
  BY <1>2 DEF BundleInv, BundleTypes, NothingHalf, Prepared, StagedAs
<1>11. builder[b].at # "resting"
  BY <1>1, <1>2
<1>12. ASSUME file = [file |-> "whole", in |-> x], NEW new \in BuilderRecords,
              new.at # "compress", new.sel = r.sel, new.lost = r.lost, new.todo = r.todo
       PROVE  Wrote(new, t)'
  <2>1. \A q \in Finished(new) : (q \in Finished(r) \/ q = p) /\ q \in Bundles!Platforms
                                 /\ q \notin r.lost
    BY <1>1, <1>2, <1>3, <1>12 DEF Finished
  <2>2. \A q \in Finished(new) : archive'[q].file = "whole"
                                 /\ archive'[q].in = Full(t, r.sel.addons)
    BY <1>5, <1>9, <1>12, <2>1 DEF Wrote
  <2> QED
    BY <1>12, <2>2 DEF Wrote, Finished
<1>13. ASSUME file = [file |-> "whole", in |-> x], NEW at \in {"archive", "cleanup"},
              at = "cleanup" => r.todo = {}, Bundles!Goto(b, at), UNCHANGED bundleLock
       PROVE  BundleInv'
  <2>1. PICK new : new = [r EXCEPT !.at = at]
    OBVIOUS
  <2>2. /\ new \in BuilderRecords /\ new.at = at /\ new.sel = r.sel /\ new.lost = r.lost
        /\ new.todo = r.todo
    BY <1>3, <1>4, <1>13, <2>1 DEF BuilderRecords
  <2>3. builder' = [builder EXCEPT ![b] = new] /\ bundleLock' = b
    BY <1>1, <1>3, <1>13, <2>1 DEF Bundles!Goto
  <2>4. Wrote(new, t)' /\ Prepared(r.sel, t)'
    BY <1>2, <1>5, <1>12, <1>13, <2>2 DEF Prepared, StagedAs
  <2>5. ready' = r.sel
    BY <1>2, <1>3 DEF Compresses
  <2>6. at = "archive" => Archives(new)'
    BY <1>3, <2>2, <2>4, <2>5 DEF Archives, Compresses
  <2>7. Works(new)' /\ new.at \in Locked
    BY <1>3, <1>13, <2>2, <2>4, <2>6 DEF Works, Locked
  <2> QED
    BY <1>2, <1>3, <1>9, <1>10, <1>11, <2>2, <2>3, <2>7, OneBuilds
<1>14. ASSUME NEW at \in {"ok", "failed"}, Bundles!Stop(b, at),
              at = "ok" => file = [file |-> "whole", in |-> x] /\ r.todo = {}
       PROVE  BundleInv'
  <2>1. PICK new : new = [r EXCEPT !.at = at, !.todo = {}, !.open = Bundles!NoPlatform]
    OBVIOUS
  <2>2. /\ new \in BuilderRecords /\ new.at = at /\ new.sel = r.sel /\ new.lost = r.lost
        /\ new.todo = {}
    BY <1>3, <1>4, <1>14, <2>1, BuilderStops DEF BuilderRecords
  <2>3. builder' = [builder EXCEPT ![b] = new] /\ bundleLock' = NoBuilder
    BY <1>1, <1>3, <1>14, <2>1 DEF Bundles!Stop, Bundles!Unlock
  <2>4. at = "ok" => Wrote(new, t)'
    BY <1>12, <1>14, <2>2
  <2>5. Works(new)' /\ new.at \notin Locked
    BY <1>3, <1>14, <2>2, <2>4 DEF Works, Locked
  <2> QED
    BY <1>2, <1>3, <1>9, <1>10, <1>11, <2>2, <2>3, <2>5, OneBuilds
<1> QED
  BY <1>7, <1>13, <1>14

\* A command is over, or killed.
LEMMA EndStep ==
    ASSUME BundleInv, NEW b \in Builders, Bundles!End(b)
    PROVE  BundleInv'
<1>1. /\ builder[b].at # "resting" /\ builder' = [builder EXCEPT ![b] = Bundles!Resting]
      /\ bundleLock' = IF bundleLock = b THEN NoBuilder ELSE bundleLock
      /\ UNCHANGED <<latest, frozen, staged, ready, archive, builds, copied, offline, importing>>
  BY DEF Bundles!End, Bundles!At, Bundles!Unlock, Bundles!stageVars, Bundles!there
<1>2. PICK new : new = Bundles!Resting
  OBVIOUS
<1>3. new \in BuilderRecords /\ new.at = "resting" /\ new.at \notin Locked
  BY <1>2 DEF Bundles!Resting, BuilderRecords, BuilderStages, Bundles!NoPlatform, Locked
<1>4. builder' = [builder EXCEPT ![b] = new]
  BY <1>1, <1>2
<1> QED
  BY <1>1, <1>3, <1>4, StageStays, OneBuilds

\* What the builders have done stays while the rest moves.
LEMMA BuildersStay ==
    ASSUME BundleInv, UNCHANGED <<frozen, staged, ready, archive, bundleLock, builder, builds>>
    PROVE  /\ Locks'
           /\ ready' \in Wanted => \E t \in Bundles!Releases : Prepared(ready, t)'
           /\ \A b \in Builders : builder'[b].at # "resting" => Works(builder[b])'
<1>1. Locks'
  BY DEF BundleInv, Locks
<1>2. ready' \in Wanted => \E t \in Bundles!Releases : Prepared(ready, t)'
  BY DEF BundleInv, Prepared, StagedAs
<1>3. ASSUME NEW b \in Builders, builder'[b].at # "resting" PROVE Works(builder[b])'
  <2>1. PICK r : r = builder[b]
    OBVIOUS
  <2>2. Works(r)
    BY <1>3, <2>1 DEF BundleInv
  <2>3. Works(r)'
    <3>1. Installs(r)' <=> Installs(r)
      BY DEF Installs
    <3>2. Exports(r)' <=> Exports(r)
      BY DEF Exports
    <3>3. \A t : (Prepared(r.sel, t)' <=> Prepared(r.sel, t)) /\ (Wrote(r, t)' <=> Wrote(r, t))
      BY DEF Prepared, StagedAs, Wrote, Finished
    <3>4. Archives(r)' <=> Archives(r)
      BY <3>3 DEF Archives
    <3>5. Compresses(r)' <=> Compresses(r)
      BY <3>3 DEF Compresses
    <3> QED
      BY <2>2, <3>1, <3>2, <3>3, <3>4, <3>5 DEF Works
  <2> QED
    BY <2>1, <2>3, WorksThen
<1> QED
  BY <1>1, <1>2, <1>3

\* A release is published.
LEMMA PublishBundle == BundleInv /\ Bundles!Publish => BundleInv'
<1> SUFFICES ASSUME BundleInv, Bundles!Publish PROVE BundleInv'
  OBVIOUS
<1>1. /\ latest < MaxBundleRelease /\ latest' = latest + 1
      /\ UNCHANGED <<frozen, staged, ready, archive, bundleLock, builder, builds, copied,
                     offline, importing>>
  BY DEF Bundles!Publish, Bundles!stageVars, Bundles!there
<1>2. latest' \in Bundles!Releases
  BY <1>1, OperationsAssumption DEF BundleInv, BundleTypes, Bundles!Releases
<1>3. BundleTypes' /\ NothingHalf' /\ Imports'
  BY <1>1, <1>2 DEF BundleInv, BundleTypes, NothingHalf, Imports, Bundles!CacheStaysUsable
<1> QED
  BY <1>1, <1>3, BuildersStay DEF BundleInv

\* A bundle is extracted on another machine, or changed there.
LEMMA CopySteps ==
    ASSUME BundleInv,
           Bundles!Change \/ \E p \in Bundles!Platforms : Bundles!Extract(p)
    PROVE  BundleInv'
<1>1. UNCHANGED <<latest, frozen, staged, ready, archive, bundleLock, builder, builds, offline,
                  importing>>
  BY DEF Bundles!Change, Bundles!Extract, Bundles!here, Bundles!stageVars
<1>2. copied' \in Bundled /\ (copied'.sum # Bundles!Nothing => Whole(copied'.sum))
  <2>1. CASE Bundles!Change
    BY <2>1, BundlesAre DEF Bundles!Change, BundleInv, BundleTypes, NothingHalf, Bundled
  <2>2. ASSUME NEW p \in Bundles!Platforms, Bundles!Extract(p)
        PROVE  copied' \in Bundled /\ (copied'.sum # Bundles!Nothing => Whole(copied'.sum))
    <3>1. PICK x : x = IF archive[p].file = "half" THEN Bundles!Nothing ELSE archive[p].in
      OBVIOUS
    <3>2. archive[p].file # "missing" /\ copied' = [in |-> x, sum |-> archive[p].in]
      BY <2>2, <3>1 DEF Bundles!Extract, Bundles!Half, Bundles!Missing
    <3>3. archive[p].in \in Bundles!Contents /\ x \in Bundles!Contents /\ Whole(archive[p].in)
      BY <3>1, <3>2, BundlesAre DEF BundleInv, BundleTypes, NothingHalf
    <3> QED
      BY <3>2, <3>3 DEF Bundled
  <2> QED
    BY <2>1, <2>2
<1>3. BundleTypes' /\ NothingHalf' /\ Imports'
  BY <1>1, <1>2 DEF BundleInv, BundleTypes, NothingHalf, Imports, Bundles!CacheStaysUsable
<1> QED
  BY <1>1, <1>3, BuildersStay DEF BundleInv

ImportRecords ==
    [at : {"resting", "stage", "files", "indexes", "manifests", "imported"},
     inventory : Bundles!Contents, files : Bundles!Contents]
Caches ==
    [files : SUBSET Bundles!Contents, indexes : SUBSET Bundles!Contents,
     manifest : Bundles!Contents]

\* An import checks what it reads, and merges it.
LEMMA ImportSteps ==
    ASSUME BundleInv,
           \/ Bundles!StartImport \/ Bundles!StageImport \/ Bundles!MergeFiles
           \/ Bundles!MergeIndexes \/ Bundles!MergeManifests \/ Bundles!EndImport
    PROVE  BundleInv'
<1>1. UNCHANGED <<latest, frozen, staged, ready, archive, bundleLock, builder, builds, copied>>
  BY DEF Bundles!StartImport, Bundles!StageImport, Bundles!MergeFiles, Bundles!MergeIndexes,
     Bundles!MergeManifests, Bundles!EndImport, Bundles!here, Bundles!stageVars
<1>2. importing \in ImportRecords /\ offline \in Caches /\ copied \in Bundled /\ Imports
  BY DEF BundleInv, BundleTypes, ImportRecords, Caches
<1>3. importing' \in ImportRecords /\ offline' \in Caches /\ Imports'
  <2>1. CASE Bundles!StartImport
    <3>1. /\ importing' = [Bundles!NoImport EXCEPT !.at = "stage", !.inventory = copied.sum]
          /\ UNCHANGED offline /\ copied.sum # Bundles!Nothing
      BY <2>1 DEF Bundles!StartImport, Bundles!Verified
    <3>2. importing' = [at |-> "stage", inventory |-> copied.sum, files |-> Bundles!Nothing]
      BY <3>1 DEF Bundles!NoImport
    <3>3. copied.sum \in Bundles!Contents /\ Whole(copied.sum)
      BY <1>2, <3>1 DEF Bundled, BundleInv, NothingHalf
    <3>4. PICK x : x = importing'
      OBVIOUS
    <3>5. x.at = "stage" /\ x.inventory = copied.sum /\ x \in ImportRecords
      BY <3>2, <3>3, <3>4, BundlesAre DEF ImportRecords
    <3>6. Whole(copied.sum)'
      BY <3>3, <1>1 DEF Whole
    <3> QED
      BY <1>2, <3>1, <3>3, <3>4, <3>5 DEF Imports, Bundles!CacheStaysUsable, Whole
  <2>2. CASE Bundles!StageImport
    <3>1. /\ importing' = [importing EXCEPT !.at = "files", !.files = importing.inventory]
          /\ UNCHANGED offline /\ importing.at = "stage"
      BY <2>2 DEF Bundles!StageImport, Bundles!Copied
    <3> QED
      BY <1>2, <3>1 DEF Imports, ImportRecords, Bundles!CacheStaysUsable
  <2>3. CASE Bundles!MergeFiles
    <3>1. /\ importing' = [importing EXCEPT !.at = "indexes"] /\ importing.at = "files"
          /\ offline' = [offline EXCEPT !.files = offline.files \cup {importing.files}]
      BY <2>3 DEF Bundles!MergeFiles
    <3>2. /\ importing' \in ImportRecords /\ importing'.at = "indexes"
          /\ importing'.files = importing.files /\ importing'.inventory = importing.inventory
      BY <1>2, <3>1 DEF ImportRecords
    <3>3. /\ offline' \in Caches /\ offline'.files = offline.files \cup {importing.files}
          /\ offline'.indexes = offline.indexes /\ offline'.manifest = offline.manifest
      BY <1>2, <3>1 DEF Caches, ImportRecords
    <3> QED
      BY <1>2, <3>1, <3>2, <3>3 DEF Imports, Bundles!CacheStaysUsable
  <2>4. CASE Bundles!MergeIndexes
    <3>1. /\ importing' = [importing EXCEPT !.at = "manifests"] /\ importing.at = "indexes"
          /\ offline' = [offline EXCEPT !.indexes = offline.indexes \cup {importing.files}]
      BY <2>4 DEF Bundles!MergeIndexes
    <3>2. /\ importing' \in ImportRecords /\ importing'.at = "manifests"
          /\ importing'.files = importing.files /\ importing'.inventory = importing.inventory
      BY <1>2, <3>1 DEF ImportRecords
    <3>3. /\ offline' \in Caches /\ offline'.files = offline.files
          /\ offline'.indexes = offline.indexes \cup {importing.files}
          /\ offline'.manifest = offline.manifest
      BY <1>2, <3>1 DEF Caches, ImportRecords
    <3> QED
      BY <1>2, <3>1, <3>2, <3>3 DEF Imports, Bundles!CacheStaysUsable
  <2>5. CASE Bundles!MergeManifests
    <3>1. /\ importing' = [importing EXCEPT !.at = "imported"] /\ importing.at = "manifests"
          /\ offline' = [offline EXCEPT !.manifest = importing.inventory]
      BY <2>5 DEF Bundles!MergeManifests
    <3>2. /\ importing' \in ImportRecords /\ importing'.at = "imported"
          /\ importing'.files = importing.files /\ importing'.inventory = importing.inventory
      BY <1>2, <3>1 DEF ImportRecords
    <3>3. /\ offline' \in Caches /\ offline'.files = offline.files
          /\ offline'.indexes = offline.indexes
          /\ offline'.manifest = importing.inventory
      BY <1>2, <3>1 DEF Caches, ImportRecords
    <3> QED
      BY <1>2, <3>1, <3>2, <3>3 DEF Imports, Bundles!CacheStaysUsable, Whole
  <2>6. CASE Bundles!EndImport
    <3>1. importing' = Bundles!NoImport /\ UNCHANGED offline
      BY <2>6 DEF Bundles!EndImport
    <3>2. importing' \in ImportRecords /\ importing'.at = "resting"
      BY <3>1, BundlesAre DEF Bundles!NoImport, ImportRecords
    <3> QED
      BY <1>2, <3>1, <3>2 DEF Imports, Bundles!CacheStaysUsable
  <2> QED
    BY <2>1, <2>2, <2>3, <2>4, <2>5, <2>6
<1>4. BundleTypes' /\ NothingHalf'
  BY <1>1, <1>3 DEF BundleInv, BundleTypes, NothingHalf, ImportRecords, Caches
<1> QED
  BY <1>1, <1>3, <1>4, BuildersStay DEF BundleInv

\* No step of a builder, of an import, or of others breaks it.
LEMMA BundleStep == BundleInv /\ [Bundles!Next]_bundlesVars => BundleInv'
<1> SUFFICES ASSUME BundleInv, [Bundles!Next]_bundlesVars PROVE BundleInv'
  OBVIOUS
<1>1. CASE UNCHANGED bundlesVars
  <2>1. BundleTypes' /\ NothingHalf' /\ Imports'
    BY <1>1 DEF bundlesVars, BundleInv, BundleTypes, NothingHalf, Imports,
       Bundles!CacheStaysUsable
  <2>2. UNCHANGED <<frozen, staged, ready, archive, bundleLock, builder, builds>>
    BY <1>1 DEF bundlesVars
  <2> QED
    BY <2>1, <2>2, BuildersStay DEF BundleInv
<1>2. ASSUME NEW b \in Builders, NEW sel \in Wanted, NEW refresh \in BOOLEAN,
             NEW cleanup \in BOOLEAN, Bundles!Begin(b, sel, refresh, cleanup)
      PROVE  BundleInv'
  BY <1>2, BeginStep
<1> QED
  BY <1>1, <1>2, CheckAndLock, RemoveStageStep, ReadReadyStep, InstallStep, ExportStep,
     WriteBundleManifest, OpenArchiveStep, CloseArchiveStep, WriteReadyStep, EndStep,
     PublishBundle, CopySteps, ImportSteps DEF Bundles!Next

\* What is promised of bundles, and the types.
LEMMA BundlesEnough == BundleInv => BundlesSound /\ Bundles!TypeOK
<1> SUFFICES ASSUME BundleInv PROVE BundlesSound /\ Bundles!TypeOK
  OBVIOUS
<1>1. Bundles!ArchivesWhole
  BY DEF BundleInv, NothingHalf, Whole, Bundles!ArchivesWhole
<1>2. Bundles!ReportedBundles
  <2> SUFFICES ASSUME NEW b \in Builders, builder[b].at = "ok",
                      NEW p \in builder[b].sel.platforms \ builder[b].lost,
                      NEW q \in builder[b].sel.platforms \ builder[b].lost
               PROVE  /\ archive[p].file = "whole"
                      /\ archive[p].in.addons = builder[b].sel.addons
                      /\ archive[p].in.tools = archive[q].in.tools
    BY DEF Bundles!ReportedBundles, Bundles!At, Bundles!Sel
  <2>1. PICK r : r = builder[b]
    OBVIOUS
  <2>2. PICK t \in Bundles!Releases : Wrote(r, t)
    BY <2>1 DEF BundleInv, Works
  <2>3. r.todo = {}
    BY <2>1 DEF BundleInv, Works
  <2>4. p \in Finished(r) /\ q \in Finished(r)
    BY <2>1, <2>3 DEF Finished
  <2> QED
    BY <2>1, <2>2, <2>4 DEF Wrote, Full
<1>3. Bundles!CacheStaysUsable
  BY DEF BundleInv, Imports
<1>4. Bundles!TypeOK
  BY DEF BundleInv, BundleTypes, Bundled, Bundles!TypeOK, Bundles!Missing, Bundles!Half
<1> QED
  BY <1>1, <1>2, <1>3, <1>4 DEF BundlesSound, Bundles!BundlesSound

\* Every archive that is not cut has the tools and the dependencies of its
\* selection; archives that a command reports are of one release, with its
\* addons, also after a resume; and a cache never names what was not merged,
\* whatever is killed, published, removed or changed meanwhile
\* (bundle.go: Create, archivePrepared; import.go: Import).
THEOREM BundlesAreSound == Bundles!Spec => []BundlesSound
<1>1. Bundles!Spec => []BundleInv
  <2>1. BundleInv /\ [Bundles!Next]_Bundles!bundleVars => BundleInv'
    BY BundleStep DEF Bundles!bundleVars, bundlesVars
  <2> QED
    BY <2>1, BundlesInitially, PTL DEF Bundles!Spec
<1> QED
  BY <1>1, BundlesEnough, PTL

(***************************************************************************)
(* LocalServer.  One command at a time: a server that serves, or that      *)
(* will, can be found through the PID file, or its own step repairs that.  *)
(***************************************************************************)

(* A process with a PID that has been given out is one of Pids, and the    *)
(* stages of a server follow each other within Stages.                     *)
LEMMA StageTypes ==
  /\ Server!NoPid \notin Server!Pids
  /\ \A stage \in Server!Startup \cup {"serving", "drain", "released", "closed"} :
        Server!After(stage) \in Server!Startup \cup Server!Stopping \cup {"serving"}
  /\ Server!NoFile.pid = Server!NoPid /\ Server!NoFile.whole
  /\ Server!Startup \cup Server!Stopping \cup {"serving", "dying", "dead"} \subseteq Server!Stages
BY DEF Server!NoPid, Server!Pids, Server!After, Server!Startup, Server!Stopping, Server!NoFile, Server!Stages

(* What the PID file holds, and what is read from it, is a PID or NoPid.   *)
LEMMA PidFileType ==
  ASSUME Server!TypeOK
  PROVE  /\ pidFile.pid \in Server!Pids \cup {Server!NoPid} /\ pidFile.whole \in BOOLEAN
<1>1. CASE pidFile \in Server!PidFile
  BY <1>1 DEF Server!PidFile
<1>2. CASE pidFile = Server!NoFile
  BY <1>2, StageTypes
<1> QED BY <1>1, <1>2 DEF Server!TypeOK

(* Reading the PID file, ending a process, and going on to the next stage  *)
(* keep the types of the server processes.                                 *)
LEMMA HelperTypes ==
  ASSUME Server!TypeOK, NEW x \in Server!Pids \cup Users
  PROVE  /\ Server!ReadPid(x) => held' \in [Server!Pids \cup Users -> Server!Pids \cup {Server!NoPid}]
         /\ Server!NotRunning(x) => /\ held' \in [Server!Pids \cup Users -> Server!Pids \cup {Server!NoPid}]
                             /\ pidFile' \in Server!PidFile \cup {Server!NoFile}
<1>1. Server!ReadPid(x) => held' \in [Server!Pids \cup Users -> Server!Pids \cup {Server!NoPid}]
  BY PidFileType DEF Server!ReadPid, Server!TypeOK
<1>2. Server!NotRunning(x) => /\ held' \in [Server!Pids \cup Users -> Server!Pids \cup {Server!NoPid}]
                       /\ pidFile' \in Server!PidFile \cup {Server!NoFile}
  BY DEF Server!NotRunning, Server!TypeOK
<1> QED BY <1>1, <1>2

(* A step of a server process keeps the types.                             *)
LEMMA ServerTypes ==
  ASSUME Server!TypeOK, NEW s \in Server!Pids, Server!ServerStep(s) \/ Server!Signal(s) \/ Server!Die(s)
  PROVE  Server!TypeOK'
<1> USE DEF Server!serverVars, Server!cmdVars
<1>1. ASSUME Server!Exit(s) PROVE Server!TypeOK'
  BY <1>1, StageTypes DEF Server!Exit, Server!TypeOK
<1>2. ASSUME process[s] \in Server!Startup \cup {"serving", "drain", "released", "closed"},
             Server!Advance(s)
      PROVE  process' \in [Server!Pids -> Server!Stages]
  BY <1>2, StageTypes DEF Server!Advance, Server!TypeOK
<1>3. ASSUME Server!ServerLoad(s) PROVE Server!TypeOK'
  BY <1>1, <1>2, <1>3, HelperTypes DEF Server!ServerLoad, Server!TypeOK, Server!Startup
<1>4. ASSUME Server!ServerCheck(s) PROVE Server!TypeOK'
  BY <1>1, <1>2, <1>4, HelperTypes DEF Server!ServerCheck, Server!TypeOK, Server!Startup
<1>5. ASSUME Server!Bind(s) PROVE Server!TypeOK'
  <2>1. CASE Server!Exit(s) BY <2>1, <1>1
  <2>2. CASE ~Server!Exit(s)
    <3>1. fds' \in [Server!Pids -> SUBSET {"ingress", "vault"}]
      BY <1>5, <2>2 DEF Server!Bind, Server!TypeOK
    <3> QED BY <1>2, <1>5, <2>2, <3>1 DEF Server!Bind, Server!TypeOK, Server!Startup
  <2> QED BY <2>1, <2>2
<1>6. ASSUME Server!ListenSocket(s) PROVE Server!TypeOK'
  <2>1. CASE Server!Exit(s) BY <2>1, <1>1
  <2>2. CASE ~Server!Exit(s)
    <3>1. fds' \in [Server!Pids -> SUBSET {"ingress", "vault"}]
      BY <1>6, <2>2 DEF Server!ListenSocket, Server!TypeOK
    <3> QED BY <1>2, <1>6, <2>2, <3>1 DEF Server!ListenSocket, Server!TypeOK, Server!Startup
  <2> QED BY <2>1, <2>2
<1>7. ASSUME Server!TruncatePidFile(s) PROVE Server!TypeOK'
  BY <1>2, <1>7 DEF Server!TruncatePidFile, Server!TypeOK, Server!PidFile, Server!Startup
<1>8. ASSUME Server!WritePidFile(s) PROVE Server!TypeOK'
  BY <1>2, <1>8 DEF Server!WritePidFile, Server!TypeOK, Server!PidFile, Server!Startup
<1>9. ASSUME Server!CloseIngress(s) PROVE Server!TypeOK'
  <2>1. fds' \in [Server!Pids -> SUBSET {"ingress", "vault"}]
    BY <1>9 DEF Server!CloseIngress, Server!TypeOK
  <2> QED BY <1>2, <1>9, <2>1 DEF Server!CloseIngress, Server!TypeOK
<1>10. ASSUME Server!CloseVault(s) PROVE Server!TypeOK'
  <2>1. fds' \in [Server!Pids -> SUBSET {"ingress", "vault"}]
    BY <1>10 DEF Server!CloseVault, Server!TypeOK
  <2> QED BY <1>2, <1>10, <2>1 DEF Server!CloseVault, Server!TypeOK
<1>11. ASSUME Server!RemoveSocket(s) PROVE Server!TypeOK'
  BY <1>2, <1>11 DEF Server!RemoveSocket, Server!TypeOK
<1>12. ASSUME Server!StopClean(s) PROVE Server!TypeOK'
  BY <1>12, StageTypes DEF Server!StopClean, Server!TypeOK
<1>13. ASSUME Server!Signal(s) PROVE Server!TypeOK'
  BY <1>1, <1>2, <1>13 DEF Server!Signal, Server!TypeOK
<1> QED
  BY <1>1, <1>3, <1>4, <1>5, <1>6, <1>7, <1>8, <1>9, <1>10, <1>11, <1>12, <1>13
  DEF Server!ServerStep, Server!StopFails, Server!Killed, Server!Die

(* A command goes on, ends or is fresh with its types.                     *)
LEMMA PositionTypes ==
  ASSUME Server!TypeOK, NEW k \in Users
  PROVE  /\ \A label \in Server!PCs : Server!Goto(k, label) =>
               /\ pc' \in [Users -> Server!PCs] /\ outcome' \in [Users -> Server!Outcomes]
         /\ \A how \in Server!Outcomes : Server!End(k, how) =>
               /\ pc' \in [Users -> Server!PCs] /\ outcome' \in [Users -> Server!Outcomes]
         /\ Server!Fresh(k) =>
               /\ pc' \in [Users -> Server!PCs] /\ outcome' \in [Users -> Server!Outcomes]
               /\ order' \in [Users -> Server!AllKinds] /\ cluster' \in [Users -> Clusters]
               /\ child' \in [Users -> Server!Pids \cup {Server!NoPid}]
               /\ polls' \in [Users -> 0 .. MaxPolls]
               /\ held' \in [Server!Pids \cup Users -> Server!Pids \cup {Server!NoPid}]
<1>1. ASSUME NEW label \in Server!PCs, Server!Goto(k, label)
      PROVE  pc' \in [Users -> Server!PCs] /\ outcome' \in [Users -> Server!Outcomes]
  BY <1>1 DEF Server!Goto, Server!TypeOK
<1>2. ASSUME NEW how \in Server!Outcomes, Server!End(k, how)
      PROVE  pc' \in [Users -> Server!PCs] /\ outcome' \in [Users -> Server!Outcomes]
  BY <1>2 DEF Server!End, Server!TypeOK, Server!PCs
<1>3. ASSUME Server!Fresh(k)
      PROVE  /\ pc' \in [Users -> Server!PCs] /\ outcome' \in [Users -> Server!Outcomes]
             /\ order' \in [Users -> Server!AllKinds] /\ cluster' \in [Users -> Clusters]
             /\ child' \in [Users -> Server!Pids \cup {Server!NoPid}]
             /\ polls' \in [Users -> 0 .. MaxPolls]
             /\ held' \in [Server!Pids \cup Users -> Server!Pids \cup {Server!NoPid}]
  BY <1>3, OperationsAssumption DEF Server!Fresh, Server!TypeOK, Server!PCs, Server!Outcomes, Server!AllKinds
<1> QED BY <1>1, <1>2, <1>3

(* Where a command may go next, and result it may end.                     *)
LEMMA UserLabels ==
  /\ \A what \in Server!AllKinds : Server!FirstStep(what) \in Server!PCs
  /\ Server!PCs = {"idle", "probe", "probed", "load", "check", "spawn", "poll",
            "polled", "reap", "foreground", "up", "borrow", "vm", "stopVM",
            "cleanup", "kill", "wait", "clean", "cleanAgain", "done"}
  /\ {"ok", "failed", "panic", "noProcess"} \subseteq Server!Outcomes
  /\ \A k \in Users, how \in Server!Outcomes : Server!Result(k, how) \in Server!Outcomes
BY DEF Server!FirstStep, Server!AllKinds, Server!PCs, Server!Outcomes, Server!Result

(* A step of a command keeps the types.                                    *)
LEMMA CommandTypes ==
  ASSUME Server!TypeOK, NEW k \in Users,
         \/ \E what \in Server!AllKinds, c \in Clusters : Server!Begin(k, what, c)
         \/ Server!CmdStep(k) \/ Server!Return(k) \/ Server!Interrupt(k)
  PROVE  Server!TypeOK'
<1> USE DEF Server!serverVars, Server!cmdVars
<1>1. ASSUME NEW what \in Server!AllKinds, NEW c \in Clusters, Server!Begin(k, what, c)
      PROVE  Server!TypeOK'
  BY <1>1, UserLabels, OperationsAssumption DEF Server!Begin, Server!TypeOK
<1>2. ASSUME Server!Probe(k) PROVE Server!TypeOK'
  BY <1>2, HelperTypes, PositionTypes, UserLabels DEF Server!Probe, Server!TypeOK
<1>3. ASSUME Server!Probed(k) PROVE Server!TypeOK'
  BY <1>3, HelperTypes, PositionTypes, UserLabels DEF Server!Probed, Server!Running, Server!TypeOK
<1>4. ASSUME Server!EnsureLoad(k) PROVE Server!TypeOK'
  BY <1>4, HelperTypes, PositionTypes, UserLabels DEF Server!EnsureLoad, Server!TypeOK
<1>5. ASSUME Server!EnsureCheck(k) PROVE Server!TypeOK'
  BY <1>5, HelperTypes, PositionTypes, UserLabels DEF Server!EnsureCheck, Server!Running, Server!TypeOK
<1>6. ASSUME Server!Spawn(k) PROVE Server!TypeOK'
  BY <1>6, PositionTypes, UserLabels, StageTypes, OperationsAssumption
  DEF Server!Spawn, Server!Unborn, Server!Startup, Server!TypeOK
<1>7. ASSUME Server!Foreground(k) PROVE Server!TypeOK'
  BY <1>7, PositionTypes, UserLabels DEF Server!Foreground, Server!TypeOK
<1>8. ASSUME Server!Poll(k) PROVE Server!TypeOK'
  <2>1. polls' \in [Users -> 0 .. MaxPolls]
    BY <1>8, OperationsAssumption DEF Server!Poll, Server!PollsLeft, Server!TypeOK
  <2> QED BY <1>8, <2>1, HelperTypes, PositionTypes, UserLabels DEF Server!Poll, Server!TypeOK
<1>9. ASSUME Server!Polled(k) PROVE Server!TypeOK'
  BY <1>9, HelperTypes, PositionTypes, UserLabels DEF Server!Polled, Server!Running, Server!TypeOK
<1>10. ASSUME Server!GiveUp(k) PROVE Server!TypeOK'
  BY <1>10, PositionTypes, UserLabels, StageTypes DEF Server!GiveUp, Server!TypeOK
<1>11. ASSUME Server!Reap(k) PROVE Server!TypeOK'
  BY <1>11, PositionTypes, UserLabels DEF Server!Reap, Server!TypeOK
<1>12. ASSUME Server!UnlockVault(k) PROVE Server!TypeOK'
  BY <1>12, PositionTypes, UserLabels DEF Server!UnlockVault, Server!TypeOK
<1>13. ASSUME Server!StartVM(k) PROVE Server!TypeOK'
  BY <1>13, PositionTypes, UserLabels DEF Server!StartVM, Server!TypeOK
<1>14. ASSUME Server!DeleteSecrets(k) PROVE Server!TypeOK'
  BY <1>14, PositionTypes, UserLabels DEF Server!DeleteSecrets, Server!TypeOK
<1>15. ASSUME Server!StopVM(k) PROVE Server!TypeOK'
  BY <1>15, PositionTypes, UserLabels DEF Server!StopVM, Server!TypeOK
<1>16. ASSUME Server!Cleanup(k) PROVE Server!TypeOK'
  BY <1>16, HelperTypes, PositionTypes, UserLabels DEF Server!Cleanup, Server!TypeOK
<1>17. ASSUME Server!Kill(k) PROVE Server!TypeOK'
  BY <1>17, PositionTypes, UserLabels, StageTypes DEF Server!Kill, Server!TypeOK
<1>18. ASSUME Server!Wait(k) PROVE Server!TypeOK'
  BY <1>18, PositionTypes, UserLabels DEF Server!Wait, Server!TypeOK
<1>19. ASSUME Server!Clean(k) PROVE Server!TypeOK'
  BY <1>19, PositionTypes, UserLabels DEF Server!Clean, Server!TypeOK
<1>20. ASSUME Server!Return(k) PROVE Server!TypeOK'
  BY <1>20, PositionTypes DEF Server!Return, Server!TypeOK
<1>21. ASSUME Server!Interrupt(k) PROVE Server!TypeOK'
  BY <1>21, PositionTypes DEF Server!Interrupt, Server!TypeOK
<1> QED
  BY <1>1, <1>2, <1>3, <1>4, <1>5, <1>6, <1>7, <1>8, <1>9, <1>10, <1>11, <1>12,
     <1>13, <1>14, <1>15, <1>16, <1>17, <1>18, <1>19, <1>20, <1>21
  DEF Server!CmdStep

(* The process that advances is the only one that does.                    *)
LEMMA AdvanceEffect ==
  ASSUME Server!TypeOK, NEW s \in Server!Pids, Server!Advance(s)
  PROVE  /\ process'[s] = Server!After(process[s])
         /\ \A t \in Server!Pids : t # s => process'[t] = process[t]
BY DEF Server!Advance, Server!TypeOK

(* Reading the PID file and finding that nothing runs change what one      *)
(* process holds, and at most remove the file.                             *)
LEMMA FileEffects ==
  ASSUME Server!TypeOK, NEW x \in Server!Pids \cup Users
  PROVE  /\ Server!NotRunning(x) =>
               /\ pidFile' \in {pidFile, Server!NoFile}
               /\ \A y \in Server!Pids \cup Users : held'[y] \in {held[y], Server!NoPid}
               /\ \A y \in Server!Pids \cup Users : y # x => held'[y] = held[y]
         /\ Server!ReadPid(x) =>
               /\ pidFile.whole /\ held'[x] = pidFile.pid
               /\ \A y \in Server!Pids \cup Users : y # x => held'[y] = held[y]
<1>1. ASSUME Server!NotRunning(x)
      PROVE  /\ pidFile' \in {pidFile, Server!NoFile}
             /\ \A y \in Server!Pids \cup Users : held'[y] \in {held[y], Server!NoPid}
             /\ \A y \in Server!Pids \cup Users : y # x => held'[y] = held[y]
  BY <1>1 DEF Server!NotRunning, Server!TypeOK
<1>2. ASSUME Server!ReadPid(x)
      PROVE  /\ pidFile.whole /\ held'[x] = pidFile.pid
             /\ \A y \in Server!Pids \cup Users : y # x => held'[y] = held[y]
  BY <1>2 DEF Server!ReadPid, Server!TypeOK
<1> QED BY <1>1, <1>2

(* Going on, ending and beginning anew change the position of one command. *)
LEMMA PositionEffects ==
  ASSUME Server!TypeOK, NEW k \in Users
  PROVE  /\ \A label \in Server!PCs : Server!Goto(k, label) =>
               pc'[k] = label /\ \A j \in Users : j # k => pc'[j] = pc[j]
         /\ \A how \in Server!Outcomes : Server!End(k, how) =>
               pc'[k] = "done" /\ \A j \in Users : j # k => pc'[j] = pc[j]
         /\ Server!Fresh(k) =>
               /\ pc'[k] = "idle" /\ \A j \in Users : j # k => pc'[j] = pc[j]
               /\ \A x \in Server!Pids \cup Users : held'[x] = IF x = k THEN Server!NoPid ELSE held[x]
<1>1. ASSUME NEW label \in Server!PCs, Server!Goto(k, label)
      PROVE  pc'[k] = label /\ \A j \in Users : j # k => pc'[j] = pc[j]
  BY <1>1 DEF Server!Goto, Server!TypeOK
<1>2. ASSUME NEW how \in Server!Outcomes, Server!End(k, how)
      PROVE  pc'[k] = "done" /\ \A j \in Users : j # k => pc'[j] = pc[j]
  BY <1>2 DEF Server!End, Server!TypeOK
<1>3. ASSUME Server!Fresh(k)
      PROVE  /\ pc'[k] = "idle" /\ \A j \in Users : j # k => pc'[j] = pc[j]
             /\ \A x \in Server!Pids \cup Users : held'[x] = IF x = k THEN Server!NoPid ELSE held[x]
  BY <1>3 DEF Server!Fresh, Server!TypeOK
<1> QED BY <1>1, <1>2, <1>3

\* Servers that are up, and have not gone yet.
Out == {"serving"} \cup Server!Stopping
Owning == {"bind", "socket", "truncate", "write"}

\* One server starts at a time, and the user who started it may still wait.
OneStarts ==
    /\ \A s, t \in Server!Pids :
         process[s] \in Server!Startup /\ process[t] \in Server!Startup => s = t
    /\ \A s \in Server!Pids, u \in Users : process[s] \in Server!Startup =>
         \/ pc[u] \in {"done", "idle"}
         \/ pc[u] \in {"poll", "polled", "foreground"} /\ child[u] = s

\* Who is out is in the PID file, and has the socket as long as it serves.
OutInFile ==
    /\ \A t \in Server!Pids : process[t] \in Out => pidFile = [pid |-> t, whole |-> TRUE]
    /\ \A s \in Server!Pids : process[s] \in {"truncate", "write", "serving"} => socket = s

\* A server that owns the PID file is alone, or finds that it is not.
StartsAlone ==
    /\ \A s, t \in Server!Pids : process[t] \in Out =>
         /\ process[s] = "check" => held[s] = t
         /\ process[s] \notin Owning
    /\ \A s \in Server!Pids : process[s] = "write" => pidFile = [pid |-> s, whole |-> FALSE]
    /\ \A s \in Server!Pids : process[s] \in Server!Startup \cup {"unborn"} =>
         pidFile # [pid |-> s, whole |-> TRUE]

\* What a user has read of the PID file is still so, unless it is gone.
UserHolds(u) ==
    /\ pc[u] \in {"probed", "check", "kill", "wait"} =>
         pidFile \in {Server!NoFile, [pid |-> held[u], whole |-> TRUE]}
    /\ pc[u] = "spawn" /\ order[u] # "server" => pidFile = Server!NoFile \/ ~pidFile.whole
    /\ pc[u] \in {"poll", "polled"} /\ pidFile.whole => pidFile.pid \in {Server!NoPid, child[u]}
    /\ pc[u] = "polled" =>
         /\ held[u] \in {Server!NoPid, child[u]}
         /\ held[u] # Server!NoPid => process[held[u]] \notin Server!Startup
    /\ pc[u] \in {"wait", "clean", "cleanAgain"} =>
         \A t \in Server!Pids : process[t] \notin Out

\* Who got SIGKILL is awaited.
KilledAwaited ==
    \A s \in Server!Pids, u \in Users : process[s] = "dying" =>
        \/ pc[u] = "wait" /\ held[u] = s
        \/ pc[u] = "reap" /\ child[u] = s

ServerInv ==
    /\ Server!TypeOK /\ OneStarts /\ OutInFile /\ StartsAlone /\ KilledAwaited
    /\ \A u \in Users : UserHolds(u)

\* No server has been started.
LEMMA ServersInitially == Server!Init => ServerInv
<1> SUFFICES ASSUME Server!Init PROVE ServerInv
  OBVIOUS
<1>1. Server!TypeOK
  BY OperationsAssumption
     DEF Server!Init, Server!TypeOK, Server!Stages, Server!PCs, Server!Outcomes, Server!AllKinds
<1>2. /\ \A s \in Server!Pids : process[s] = "unborn"
      /\ \A u \in Users : pc[u] = "idle"
  BY DEF Server!Init
<1>3. "unborn" \notin Server!Startup \cup Out \cup Owning
  BY DEF Server!Startup, Out, Server!Stopping, Owning
<1>4. OneStarts /\ OutInFile
  BY <1>2, <1>3 DEF OneStarts, OutInFile
<1>5. StartsAlone /\ KilledAwaited
  <2>1. \A s \in Server!Pids : pidFile # [pid |-> s, whole |-> TRUE]
    BY StageTypes DEF Server!Init
  <2> QED
    BY <1>2, <1>3, <2>1 DEF StartsAlone, KilledAwaited
<1>6. \A u \in Users : UserHolds(u)
  BY <1>2 DEF UserHolds
<1> QED
  BY <1>1, <1>4, <1>5, <1>6 DEF ServerInv

\* Commands are not server processes.
LEMMA UsersAreNoServers ==
    ASSUME NEW s \in Server!Pids
    PROVE  s \notin Users
BY OperationsAssumption DEF Server!Pids

\* One server moves: the users see it through the PID file and its stage.
LEMMA OneServerMoves ==
    ASSUME ServerInv, NEW s \in Server!Pids, NEW stage,
           process' = [process EXCEPT ![s] = stage],
           \A x \in (Server!Pids \cup Users) \ {s} : held'[x] = held[x],
           UNCHANGED <<pc, order, child>>
    PROVE  /\ process'[s] = stage
           /\ \A t \in Server!Pids : t # s => process'[t] = process[t] /\ held'[t] = held[t]
           /\ \A u \in Users : /\ held'[u] = held[u] /\ pc'[u] = pc[u] /\ order'[u] = order[u]
                               /\ child'[u] = child[u]
<1>1. /\ process \in [Server!Pids -> Server!Stages] /\ \A u \in Users : u # s
  BY UsersAreNoServers DEF ServerInv, Server!TypeOK
<1>2. process'[s] = stage /\ \A t \in Server!Pids : t # s => process'[t] = process[t]
  BY <1>1
<1>3. \A t \in Server!Pids : t # s => held'[t] = held[t]
  OBVIOUS
<1>4. \A u \in Users : held'[u] = held[u]
  BY <1>1
<1> QED
  BY <1>2, <1>3, <1>4

\* A process that ends leaves the PID file and the socket to others.
LEMMA ExitStep ==
    ASSUME ServerInv, NEW s \in Server!Pids, Server!Exit(s), Server!TypeOK'
    PROVE  ServerInv'
<1>1. /\ process' = [process EXCEPT ![s] = "dead"]
      /\ UNCHANGED <<pc, order, child, pidFile, socket>>
      /\ \A x \in (Server!Pids \cup Users) \ {s} : held'[x] = held[x]
  BY DEF Server!Exit, Server!cmdVars, ServerInv, Server!TypeOK
<1>2. /\ process'[s] = "dead"
      /\ \A t \in Server!Pids : t # s => process'[t] = process[t] /\ held'[t] = held[t]
      /\ \A u \in Users : /\ held'[u] = held[u] /\ pc'[u] = pc[u] /\ order'[u] = order[u]
                          /\ child'[u] = child[u]
  BY <1>1, OneServerMoves
<1>3. "dead" \notin Server!Startup \cup Out \cup Owning
  BY DEF Server!Startup, Out, Owning, Server!Stopping
<1>4. OneStarts' /\ OutInFile' /\ StartsAlone' /\ KilledAwaited'
  BY <1>1, <1>2, <1>3 DEF ServerInv, OneStarts, OutInFile, StartsAlone, KilledAwaited
<1>5. ASSUME NEW u \in Users PROVE UserHolds(u)'
  BY <1>1, <1>2, <1>3 DEF ServerInv, UserHolds, Server!TypeOK
<1> QED
  BY <1>4, <1>5 DEF ServerInv

\* A server that was out stops: the file stays until the process ends.
LEMMA StopsStep ==
    ASSUME ServerInv, NEW s \in Server!Pids, process[s] \in Out, Server!TypeOK',
           NEW stage \in Server!Stopping \cup {"dead"},
           process' = [process EXCEPT ![s] = stage],
           pidFile' \in {pidFile, Server!NoFile}, pidFile' # pidFile => stage = "dead",
           UNCHANGED <<held, pc, order, child>>
    PROVE  ServerInv'
<1>1. /\ process'[s] = stage
      /\ \A t \in Server!Pids : t # s => process'[t] = process[t] /\ held'[t] = held[t]
      /\ \A u \in Users : /\ held'[u] = held[u] /\ pc'[u] = pc[u] /\ order'[u] = order[u]
                          /\ child'[u] = child[u]
  BY OneServerMoves
<1>2. /\ stage \notin Server!Startup \cup Owning \cup {"serving", "dying"}
      /\ "dead" \notin Out /\ "serving" \in Out
      /\ {"truncate", "write"} \subseteq Owning
  BY DEF Server!Startup, Out, Server!Stopping, Owning
<1>3. pidFile = [pid |-> s, whole |-> TRUE]
  BY DEF ServerInv, OutInFile
<1>4. \A t \in Server!Pids : t # s => process[t] \notin Out
  BY <1>3 DEF ServerInv, OutInFile
<1>5. \A t \in Server!Pids : process[t] \notin Owning
  BY DEF ServerInv, StartsAlone
<1>6. OneStarts' /\ KilledAwaited'
  BY <1>1, <1>2 DEF ServerInv, OneStarts, KilledAwaited
<1>7. OutInFile'
  BY <1>1, <1>2, <1>3, <1>4, <1>5 DEF OutInFile
<1>8. StartsAlone'
  <2>1. \A t \in Server!Pids : process'[t] \in Out => t = s
    BY <1>1, <1>4
  <2>2. \A t \in Server!Pids : process'[t] \notin Owning
    BY <1>1, <1>2, <1>5
  <2>3. \A t \in Server!Pids : process'[t] = "check" => held'[t] = s
    BY <1>1, <1>2 DEF ServerInv, StartsAlone, Server!Stopping
  <2>4. \A t \in Server!Pids : process'[t] \in Server!Startup \cup {"unborn"} =>
          pidFile' # [pid |-> t, whole |-> TRUE]
    <3>1. "unborn" \notin Out /\ stage # "unborn"
      BY DEF Out, Server!Stopping
    <3> QED
      BY <1>1, <1>2, <3>1, StageTypes DEF ServerInv, StartsAlone
  <2> QED
    BY <1>2, <2>1, <2>2, <2>3, <2>4 DEF StartsAlone
<1>9. ASSUME NEW u \in Users PROVE UserHolds(u)'
  <2>1. pc[u] \notin {"wait", "clean", "cleanAgain"}
    BY DEF ServerInv, UserHolds
  <2>2. pc[u] \in {"probed", "check", "kill", "wait"} =>
          pidFile' \in {Server!NoFile, [pid |-> held'[u], whole |-> TRUE]}
    BY <1>1 DEF ServerInv, UserHolds
  <2>3. pc[u] \in {"poll", "polled"} /\ pidFile'.whole =>
          pidFile'.pid \in {Server!NoPid, child[u]}
    BY StageTypes DEF ServerInv, UserHolds
  <2>4. held[u] # Server!NoPid => held[u] \in Server!Pids
    BY DEF ServerInv, Server!TypeOK
  <2>5. pc[u] = "polled" => /\ held[u] \in {Server!NoPid, child[u]}
                            /\ held[u] # Server!NoPid => process'[held[u]] \notin Server!Startup
    BY <1>1, <1>2, <2>4 DEF ServerInv, UserHolds
  <2>6. pc[u] = "spawn" /\ order[u] # "server" => pidFile' = Server!NoFile \/ ~pidFile'.whole
    BY DEF ServerInv, UserHolds
  <2> QED
    BY <1>1, <2>1, <2>2, <2>3, <2>5, <2>6 DEF UserHolds
<1> QED
  BY <1>6, <1>7, <1>8, <1>9 DEF ServerInv

\* While a server starts, its user waits for it, or has gone.
LEMMA StartsAwaited ==
    ASSUME ServerInv, NEW s \in Server!Pids, process[s] \in Server!Startup
    PROVE  /\ \A t \in Server!Pids : t # s => process[t] \notin Server!Startup
           /\ \A u \in Users : /\ pc[u] \in {"done", "idle", "poll", "polled", "foreground"}
                               /\ pc[u] \in {"poll", "polled"} => child[u] = s
                               /\ pc[u] = "polled" => held[u] = Server!NoPid
<1>1. \A t \in Server!Pids : t # s => process[t] \notin Server!Startup
  BY DEF ServerInv, OneStarts
<1>2. \A u \in Users : /\ pc[u] \in {"done", "idle", "poll", "polled", "foreground"}
                       /\ pc[u] \in {"poll", "polled"} => child[u] = s
  BY DEF ServerInv, OneStarts
<1>3. \A u \in Users : pc[u] = "polled" => held[u] = Server!NoPid
  BY <1>2 DEF ServerInv, UserHolds
<1> QED
  BY <1>1, <1>2, <1>3

\* A server that starts goes on within its start, with what it has to show.
LEMMA StartsStep ==
    ASSUME ServerInv, NEW s \in Server!Pids, process[s] \in Server!Startup, Server!TypeOK',
           NEW stage \in Server!Startup, process' = [process EXCEPT ![s] = stage],
           \A x \in (Server!Pids \cup Users) \ {s} : held'[x] = held[x],
           UNCHANGED <<pc, order, child>>,
           \A t \in Server!Pids : process[t] \in Out =>
             /\ stage \notin Owning /\ pidFile' = pidFile
             /\ stage = "check" => held'[s] = t,
           pidFile' \in {pidFile, Server!NoFile, [pid |-> s, whole |-> FALSE]},
           stage \in {"truncate", "write"} => socket' = s,
           stage \notin {"truncate", "write"} => UNCHANGED socket,
           stage = "write" => pidFile' = [pid |-> s, whole |-> FALSE]
    PROVE  ServerInv'
<1>1. /\ process'[s] = stage
      /\ \A t \in Server!Pids : t # s => process'[t] = process[t] /\ held'[t] = held[t]
      /\ \A u \in Users : /\ held'[u] = held[u] /\ pc'[u] = pc[u] /\ order'[u] = order[u]
                          /\ child'[u] = child[u]
  BY OneServerMoves
<1>2. /\ {"check", "write"} \subseteq Server!Startup /\ Owning \subseteq Server!Startup
      /\ Server!Startup \cap Out = {} /\ "dying" \notin Server!Startup
      /\ "serving" \in Out /\ {"truncate", "write"} \subseteq Owning
  BY DEF Server!Startup, Out, Server!Stopping, Owning
<1>3. /\ \A t \in Server!Pids : t # s => process[t] \notin Server!Startup
      /\ \A u \in Users : /\ pc[u] \in {"done", "idle", "poll", "polled", "foreground"}
                          /\ pc[u] \in {"poll", "polled"} => child[u] = s
                          /\ pc[u] = "polled" => held[u] = Server!NoPid
  BY StartsAwaited
<1>4. OneStarts' /\ KilledAwaited'
  BY <1>1, <1>2, <1>3 DEF ServerInv, OneStarts, KilledAwaited
<1>5. OutInFile'
  <2>1. \A t \in Server!Pids : process'[t] \in Out => pidFile' = [pid |-> t, whole |-> TRUE]
    BY <1>1, <1>2 DEF ServerInv, OutInFile
  <2>2. ASSUME NEW t \in Server!Pids, process'[t] \in {"truncate", "write", "serving"}
        PROVE  socket' = t
    <3>1. CASE t = s
      BY <1>1, <1>2, <2>2, <3>1
    <3>2. CASE t # s
      <4>1. process[t] = "serving" /\ socket = t
        BY <1>1, <1>2, <1>3, <2>2, <3>2 DEF ServerInv, OutInFile
      <4> QED
        BY <1>2, <4>1
    <3> QED
      BY <3>1, <3>2
  <2> QED
    BY <2>1, <2>2 DEF OutInFile
<1>6. StartsAlone'
  <2>1. \A t \in Server!Pids : process'[t] \in Out => t # s /\ process[t] \in Out
    BY <1>1, <1>2
  <2>2. \A t \in Server!Pids : process'[t] \in Server!Startup => t = s
    BY <1>1, <1>3
  <2>3. \A t \in Server!Pids : process'[t] \in Server!Startup \cup {"unborn"} =>
          pidFile' # [pid |-> t, whole |-> TRUE]
    <3>1. \A t \in Server!Pids : process'[t] \in Server!Startup \cup {"unborn"} =>
            process[t] \in Server!Startup \cup {"unborn"}
      BY <1>1
    <3>2. /\ [pid |-> s, whole |-> FALSE].whole = FALSE
          /\ \A t \in Server!Pids : /\ [pid |-> t, whole |-> TRUE].whole = TRUE
                                   /\ [pid |-> t, whole |-> TRUE].pid # Server!NoPid
      BY StageTypes
    <3> QED
      BY <3>1, <3>2, StageTypes DEF ServerInv, StartsAlone
  <2>4. \A t \in Server!Pids : process'[t] = "write" =>
          pidFile' = [pid |-> t, whole |-> FALSE]
    BY <1>1, <1>2, <2>2
  <2> QED
    BY <1>1, <1>2, <2>1, <2>2, <2>3, <2>4 DEF StartsAlone
<1>7. ASSUME NEW u \in Users PROVE UserHolds(u)'
  <2>1. pc[u] \in {"poll", "polled"} /\ pidFile'.whole =>
          pidFile'.pid \in {Server!NoPid, child[u]}
    <3>1. pidFile' # [pid |-> s, whole |-> FALSE] \/ ~pidFile'.whole
      OBVIOUS
    <3> QED
      BY <1>3, <3>1, StageTypes DEF ServerInv, UserHolds
  <2> QED
    BY <1>1, <1>3, <2>1 DEF UserHolds
<1> QED
  BY <1>4, <1>5, <1>6, <1>7 DEF ServerInv

\* A server has written the PID file: it serves.
LEMMA WriteStep ==
    ASSUME ServerInv, NEW s \in Server!Pids, Server!WritePidFile(s), Server!TypeOK'
    PROVE  ServerInv'
<1>1. /\ process[s] = "write" /\ process' = [process EXCEPT ![s] = "serving"]
      /\ pidFile' = [pid |-> s, whole |-> TRUE]
      /\ UNCHANGED <<socket, held, pc, order, child>>
  BY DEF Server!WritePidFile, Server!Advance, Server!After, ServerInv, StartsAlone,
     Server!cmdVars
<1>2. /\ process'[s] = "serving"
      /\ \A t \in Server!Pids : t # s => process'[t] = process[t] /\ held'[t] = held[t]
      /\ \A u \in Users : /\ held'[u] = held[u] /\ pc'[u] = pc[u] /\ order'[u] = order[u]
                          /\ child'[u] = child[u]
  BY <1>1, OneServerMoves
<1>3. /\ Server!Startup \cap Out = {} /\ "dying" \notin Server!Startup /\ "serving" \in Out
      /\ {"check", "write"} \subseteq Server!Startup /\ Owning \subseteq Server!Startup
      /\ {"truncate", "write"} \subseteq Owning
  BY DEF Server!Startup, Out, Server!Stopping, Owning
<1>4. /\ \A t \in Server!Pids : t # s => process[t] \notin Server!Startup
      /\ \A u \in Users : /\ pc[u] \in {"done", "idle", "poll", "polled", "foreground"}
                          /\ pc[u] \in {"poll", "polled"} => child[u] = s
                          /\ pc[u] = "polled" => held[u] = Server!NoPid
  BY <1>1, <1>3, StartsAwaited
<1>5. \A t \in Server!Pids : process[t] \notin Out
  BY <1>1, <1>3 DEF ServerInv, StartsAlone
<1>6. socket = s
  BY <1>1 DEF ServerInv, OutInFile
<1>7. OneStarts' /\ KilledAwaited'
  BY <1>2, <1>3, <1>4 DEF ServerInv, OneStarts, KilledAwaited
<1>8. OutInFile'
  <2>1. \A t \in Server!Pids : process'[t] \in Out => t = s
    BY <1>2, <1>5
  <2>2. \A t \in Server!Pids : process'[t] \in {"truncate", "write", "serving"} => t = s
    BY <1>2, <1>3, <1>4, <1>5
  <2> QED
    BY <1>1, <1>6, <2>1, <2>2 DEF OutInFile
<1>9. StartsAlone'
  <2>1. \A t \in Server!Pids : process'[t] \notin Server!Startup
    BY <1>2, <1>3, <1>4
  <2>2. \A t \in Server!Pids : process'[t] = "unborn" => pidFile' # [pid |-> t, whole |-> TRUE]
    BY <1>1, <1>2
  <2> QED
    BY <1>3, <2>1, <2>2 DEF StartsAlone
<1>10. \A u \in Users : UserHolds(u)'
  BY <1>1, <1>2, <1>4 DEF UserHolds
<1> QED
  BY <1>7, <1>8, <1>9, <1>10 DEF ServerInv

\* A server step keeps what servers and users rely on.
LEMMA ServerSteps ==
    ASSUME ServerInv, NEW s \in Server!Pids, Server!TypeOK',
           Server!ServerStep(s) \/ Server!Signal(s) \/ Server!Die(s)
    PROVE  ServerInv'
<1> USE DEF Server!serverVars, Server!cmdVars
<1>1. ASSUME Server!Exit(s) PROVE ServerInv'
  BY <1>1, ExitStep
<1>2. /\ {"load", "check", "bind", "socket", "truncate", "write"} \subseteq Server!Startup
      /\ Out = {"serving", "drain", "released", "closed", "unlinked"}
      /\ {"drain", "released", "closed", "unlinked"} = Server!Stopping
      /\ Owning = {"bind", "socket", "truncate", "write"}
  BY DEF Server!Startup, Out, Server!Stopping, Owning
<1>3. s \notin Users
  BY UsersAreNoServers
<1>4. ASSUME Server!ServerLoad(s), ~Server!Exit(s) PROVE ServerInv'
  <2>1. /\ process[s] = "load" /\ process' = [process EXCEPT ![s] = "check"]
        /\ Server!ReadPid(s) /\ UNCHANGED <<pidFile, socket, pc, order, child>>
    BY <1>4 DEF Server!ServerLoad, Server!Advance, Server!After
  <2>2. /\ held'[s] = pidFile.pid
        /\ \A x \in (Server!Pids \cup Users) \ {s} : held'[x] = held[x]
    BY <2>1, FileEffects DEF ServerInv
  <2>3. \A t \in Server!Pids : process[t] \in Out => held'[s] = t
    BY <2>2 DEF ServerInv, OutInFile
  <2> QED
    BY <1>2, <2>1, <2>2, <2>3, StartsStep
<1>5. ASSUME Server!ServerCheck(s), ~Server!Exit(s) PROVE ServerInv'
  <2>1. /\ process[s] = "check" /\ process' = [process EXCEPT ![s] = "bind"]
        /\ Server!NotRunning(s) /\ UNCHANGED <<socket, pc, order, child>>
    BY <1>5 DEF Server!ServerCheck, Server!Advance, Server!After
  <2>2. /\ pidFile' \in {pidFile, Server!NoFile}
        /\ \A x \in (Server!Pids \cup Users) \ {s} : held'[x] = held[x]
    BY <2>1, FileEffects DEF ServerInv
  <2>3. \A t \in Server!Pids : process[t] \notin Out
    <3> SUFFICES ASSUME NEW t \in Server!Pids, process[t] \in Out PROVE FALSE
      OBVIOUS
    <3>1. held[s] = t
      BY <2>1 DEF ServerInv, StartsAlone
    <3> QED
      BY <1>2, <2>1, <3>1, StageTypes DEF Server!NotRunning, Server!Stale, Server!Alive
  <2> QED
    BY <1>2, <2>1, <2>2, <2>3, StageTypes, StartsStep
<1>6. \A t \in Server!Pids : process[s] \in Owning => process[t] \notin Out
  BY DEF ServerInv, StartsAlone
<1>7. ASSUME Server!Bind(s), ~Server!Exit(s) PROVE ServerInv'
  <2>1. /\ process[s] = "bind" /\ process' = [process EXCEPT ![s] = "socket"]
        /\ UNCHANGED <<pidFile, held, socket, pc, order, child>>
    BY <1>7 DEF Server!Bind, Server!Advance, Server!After
  <2> QED
    BY <1>2, <1>6, <2>1, StartsStep
<1>8. ASSUME Server!ListenSocket(s), ~Server!Exit(s) PROVE ServerInv'
  <2>1. /\ process[s] = "socket" /\ process' = [process EXCEPT ![s] = "truncate"]
        /\ socket' = s /\ UNCHANGED <<pidFile, held, pc, order, child>>
    BY <1>8 DEF Server!ListenSocket, Server!Advance, Server!After
  <2> QED
    BY <1>2, <1>6, <2>1, StartsStep
<1>9. ASSUME Server!TruncatePidFile(s) PROVE ServerInv'
  <2>1. /\ process[s] = "truncate" /\ process' = [process EXCEPT ![s] = "write"]
        /\ pidFile' = [pid |-> s, whole |-> FALSE]
        /\ UNCHANGED <<held, socket, pc, order, child>>
    BY <1>9 DEF Server!TruncatePidFile, Server!Advance, Server!After
  <2>2. socket' = s
    BY <2>1 DEF ServerInv, OutInFile
  <2> QED
    BY <1>2, <1>6, <2>1, <2>2, StartsStep
<1>10. ASSUME Server!WritePidFile(s) PROVE ServerInv'
  BY <1>10, WriteStep
<1>11. ASSUME Server!Signal(s), ~Server!Exit(s) PROVE ServerInv'
  <2>1. /\ process[s] = "serving" /\ process' = [process EXCEPT ![s] = "drain"]
        /\ UNCHANGED <<pidFile, held, pc, order, child>>
    BY <1>11 DEF Server!Signal, Server!Advance, Server!After
  <2> QED
    BY <1>2, <2>1, StopsStep
<1>12. ASSUME Server!CloseIngress(s) \/ Server!CloseVault(s) \/ Server!RemoveSocket(s)
       PROVE  ServerInv'
  <2>1. PICK stage \in {"released", "closed", "unlinked"} :
          /\ process[s] \in {"drain", "released", "closed"}
          /\ process' = [process EXCEPT ![s] = stage]
          /\ UNCHANGED <<pidFile, held, pc, order, child>>
    BY <1>12 DEF Server!CloseIngress, Server!CloseVault, Server!RemoveSocket, Server!Advance,
       Server!After
  <2> QED
    BY <1>2, <2>1, StopsStep
<1>13. ASSUME Server!StopClean(s) PROVE ServerInv'
  <2>1. /\ process[s] = "unlinked" /\ process' = [process EXCEPT ![s] = "dead"]
        /\ pidFile' = Server!NoFile /\ UNCHANGED <<held, pc, order, child>>
    BY <1>13 DEF Server!StopClean
  <2> QED
    BY <1>2, <2>1, StopsStep
<1> QED
  BY <1>1, <1>4, <1>5, <1>7, <1>8, <1>9, <1>10, <1>11, <1>12, <1>13
     DEF Server!ServerStep, Server!StopFails, Server!Killed, Server!Die

\* While no user waits for a server none starts, ...
LEMMA NoneStarts ==
    ASSUME ServerInv, NEW u \in Users,
           pc[u] \notin {"done", "idle", "poll", "polled", "foreground"}
    PROVE  \A s \in Server!Pids : process[s] \notin Server!Startup
BY DEF ServerInv, OneStarts

\* ... and while none waits for one that is killed, none is.
LEMMA NoneDies ==
    ASSUME ServerInv, NEW u \in Users,
           \/ pc[u] \notin {"wait", "reap"}
           \/ pc[u] = "wait" /\ ~Server!Alive(held[u])
           \/ pc[u] = "reap" /\ ~Server!Alive(child[u])
    PROVE  \A s \in Server!Pids : process[s] # "dying"
<1> SUFFICES ASSUME NEW s \in Server!Pids, process[s] = "dying" PROVE FALSE
  OBVIOUS
<1>1. Server!Alive(s)
  BY StageTypes DEF Server!Alive
<1> QED
  BY <1>1 DEF ServerInv, KilledAwaited

\* A step of the user that leaves the servers as they are.
LEMMA UserStep ==
    ASSUME ServerInv, NEW u \in Users, Users = {u}, Server!TypeOK',
           UNCHANGED <<process, socket>>, \A s \in Server!Pids : held'[s] = held[s],
           pidFile' \in {pidFile, Server!NoFile},
           pidFile' # pidFile => \A s \in Server!Pids : process[s] \notin Out \cup {"write"},
           \/ pc'[u] \in {"done", "idle"}
           \/ \A s \in Server!Pids : process[s] \notin Server!Startup
           \/ pc'[u] \in {"poll", "polled"} /\ pc[u] \in {"poll", "polled"} /\ UNCHANGED child,
           \A s \in Server!Pids : process[s] # "dying",
           UserHolds(u)'
    PROVE  ServerInv'
<1>1. OneStarts'
  BY DEF ServerInv, OneStarts
<1>2. OutInFile' /\ KilledAwaited'
  BY DEF ServerInv, OutInFile, KilledAwaited
<1>3. StartsAlone'
  BY StageTypes DEF ServerInv, StartsAlone
<1> QED
  BY <1>1, <1>2, <1>3 DEF ServerInv

\* A whole PID file is told by the PID that is read from it.
LEMMA ReadTells ==
    ASSUME Server!TypeOK, pidFile.whole
    PROVE  pidFile \in {Server!NoFile, [pid |-> pidFile.pid, whole |-> TRUE]}
BY DEF Server!TypeOK, Server!PidFile

\* Where the user goes: what else is so there, the steps below show.
Plain == {"idle", "done", "probe", "load", "up", "borrow", "vm", "stopVM", "cleanup",
          "reap", "foreground"}
\* Where a user neither waits for a server nor reads its file.
LEMMA PlainHolds == ASSUME NEW u, pc[u] \in Plain PROVE UserHolds(u)
BY DEF Plain, UserHolds

\* The user takes a step that changes only where the user stands.
LEMMA WalkStep ==
    ASSUME ServerInv, NEW u \in Users, Users = {u}, Server!TypeOK',
           UNCHANGED <<process, socket, pidFile>>,
           \A s \in Server!Pids : held'[s] = held[s],
           pc'[u] \in Plain,
           pc'[u] \in {"done", "idle"}
             \/ pc[u] \notin {"done", "idle", "poll", "polled", "foreground"},
           \/ pc[u] \notin {"wait", "reap"}
           \/ pc[u] = "wait" /\ ~Server!Alive(held[u])
           \/ pc[u] = "reap" /\ ~Server!Alive(child[u])
    PROVE  ServerInv'
<1>1. UserHolds(u)'
  BY DEF Plain, UserHolds
<1>2. \/ pc'[u] \in {"done", "idle"}
      \/ \A s \in Server!Pids : process[s] \notin Server!Startup
  BY NoneStarts
<1>3. \A s \in Server!Pids : process[s] # "dying"
  BY NoneDies
<1> QED
  BY <1>1, <1>2, <1>3, UserStep

\* A command begins, when no server starts.
LEMMA BeginCommand ==
    ASSUME ServerInv, NEW u \in Users, Users = {u}, Server!TypeOK',
           NEW what \in Server!AllKinds, NEW c \in Clusters, Server!Begin(u, what, c)
    PROVE  ServerInv'
<1>1. /\ pc[u] = "idle" /\ UNCHANGED <<process, socket, pidFile, held>>
      /\ \A s \in Server!Pids : process[s] \notin Server!Startup
      /\ pc'[u] = Server!FirstStep(what) /\ order'[u] = what
  BY DEF Server!Begin, Server!serverVars, ServerInv, Server!TypeOK
<1>2. \/ Server!FirstStep(what) \in {"load", "stopVM", "cleanup", "probe"}
      \/ Server!FirstStep(what) = "spawn" /\ what = "server"
  BY DEF Server!FirstStep, Server!AllKinds
<1>3. UserHolds(u)'
  BY <1>1, <1>2 DEF UserHolds
<1>4. \A s \in Server!Pids : process[s] # "dying"
  BY <1>1, NoneDies
<1> QED
  BY <1>1, <1>3, <1>4, UserStep

\* A user reads the PID file, or cannot.
LEMMA ReadSteps ==
    ASSUME ServerInv, NEW u \in Users, Users = {u}, Server!TypeOK',
           Server!Probe(u) \/ Server!EnsureLoad(u) \/ Server!Cleanup(u) \/ Server!Poll(u)
    PROVE  ServerInv'
<1>1. /\ pc[u] \in {"probe", "load", "cleanup", "poll"}
      /\ UNCHANGED <<process, socket, pidFile, order, child>>
  BY DEF Server!Probe, Server!EnsureLoad, Server!Cleanup, Server!Poll, Server!serverVars
<1>2. \A s \in Server!Pids : process[s] # "dying"
  BY <1>1, NoneDies
<1>3. CASE Server!ReadPid(u) /\ pc[u] # "poll" /\ pc'[u] \in {"probed", "check", "kill", "done"}
  <2>1. /\ pidFile.whole /\ held'[u] = pidFile.pid
        /\ \A s \in Server!Pids : held'[s] = held[s]
    BY <1>3, FileEffects, UsersAreNoServers DEF ServerInv
  <2>2. pidFile \in {Server!NoFile, [pid |-> held'[u], whole |-> TRUE]}
    BY <2>1, ReadTells DEF ServerInv
  <2>3. UserHolds(u)'
    BY <1>1, <1>3, <2>2 DEF UserHolds
  <2>4. \A s \in Server!Pids : process[s] \notin Server!Startup
    BY <1>1, <1>3, NoneStarts
  <2> QED
    BY <1>1, <1>2, <2>1, <2>3, <2>4, UserStep
<1>4. CASE Server!ReadPid(u) /\ pc[u] = "poll" /\ pc'[u] = "polled"
  <2>1. /\ pidFile.whole /\ held'[u] = pidFile.pid
        /\ \A s \in Server!Pids : held'[s] = held[s]
    BY <1>4, FileEffects, UsersAreNoServers DEF ServerInv
  <2>2. pidFile.pid \in {Server!NoPid, child[u]}
    BY <1>4, <2>1 DEF ServerInv, UserHolds
  <2>3. pidFile.pid # Server!NoPid => process[pidFile.pid] \notin Server!Startup
    <3> SUFFICES ASSUME pidFile.pid # Server!NoPid, process[pidFile.pid] \in Server!Startup
                 PROVE  FALSE
      OBVIOUS
    <3>1. pidFile.pid \in Server!Pids /\ pidFile = [pid |-> pidFile.pid, whole |-> TRUE]
      BY <2>1, ReadTells, PidFileType, StageTypes DEF ServerInv
    <3> QED
      BY <3>1 DEF ServerInv, StartsAlone
  <2>4. UserHolds(u)'
    BY <1>1, <1>4, <2>1, <2>2, <2>3 DEF UserHolds
  <2> QED
    BY <1>1, <1>2, <1>4, <2>1, <2>4, UserStep
<1>5. CASE UNCHANGED held /\ pc'[u] = "done"
  BY <1>1, <1>5, WalkStep DEF Plain
<1>6. CASE UNCHANGED held /\ ~pidFile.whole /\ pc[u] = "load" /\ pc'[u] = "spawn"
  <2>1. UserHolds(u)'
    BY <1>1, <1>6 DEF UserHolds
  <2>2. \A s \in Server!Pids : process[s] \notin Server!Startup
    BY <1>6, NoneStarts
  <2> QED
    BY <1>1, <1>2, <1>6, <2>1, <2>2, UserStep
<1>7. pc \in [Users -> Server!PCs]
  BY DEF ServerInv, Server!TypeOK
<1> QED
  BY <1>1, <1>3, <1>4, <1>5, <1>6, <1>7 DEF Server!Probe, Server!EnsureLoad, Server!Cleanup,
     Server!Poll, Server!Goto, Server!End

\* A user finds that a server runs, or that none does and removes the file.
LEMMA RunningSteps ==
    ASSUME ServerInv, NEW u \in Users, Users = {u}, Server!TypeOK',
           Server!Probed(u) \/ Server!EnsureCheck(u) \/ Server!Polled(u)
    PROVE  ServerInv'
<1>1. /\ pc[u] \in {"probed", "check", "polled"}
      /\ UNCHANGED <<process, socket, order, child>>
  BY DEF Server!Probed, Server!EnsureCheck, Server!Polled
<1>2. \A s \in Server!Pids : process[s] # "dying"
  BY <1>1, NoneDies
<1>3. pc \in [Users -> Server!PCs]
  BY DEF ServerInv, Server!TypeOK
<1>4. CASE Server!Running(u) /\ pc'[u] \in {"borrow", "up", "done"}
  <2>1. UserHolds(u)'
    BY <1>4 DEF UserHolds
  <2>2. \A s \in Server!Pids : process[s] \notin Server!Startup
    <3>1. CASE pc[u] # "polled"
      BY <1>1, <3>1, NoneStarts
    <3>2. CASE pc[u] = "polled"
      <4>1. held[u] # Server!NoPid
        BY <1>4 DEF Server!Running, Server!Alive
      <4>2. process[child[u]] \notin Server!Startup
        BY <3>2, <4>1 DEF ServerInv, UserHolds
      <4> QED
        BY <3>2, <4>2 DEF ServerInv, OneStarts
    <3> QED
      BY <3>1, <3>2
  <2> QED
    BY <1>1, <1>2, <1>4, <2>1, <2>2, UserStep DEF Server!Running
<1>5. CASE /\ Server!NotRunning(u) /\ (pc[u] = "probed" => pc'[u] \in {"load", "done"})
           /\ pc[u] = "check" => pc'[u] = "spawn"
           /\ pc[u] = "polled" => pc'[u] = "poll"
  <2>1. /\ \/ held[u] = Server!NoPid /\ UNCHANGED pidFile
           \/ Server!Stale(u) /\ pidFile' = Server!NoFile
        /\ \A s \in Server!Pids : held'[s] = held[s]
    BY <1>5, FileEffects, UsersAreNoServers DEF ServerInv, Server!NotRunning
  <2>2. ASSUME Server!Stale(u), NEW s \in Server!Pids PROVE process[s] \notin Out \cup {"write"}
    <3>1. Out \cap {"unborn", "dead"} = {} /\ "write" \in Server!Startup
      BY DEF Out, Server!Stopping, Server!Startup
    <3>2. held[u] = s => process[s] \notin Out \cup {"write"}
      BY <2>2, <3>1 DEF Server!Stale, Server!Alive
    <3>3. process[s] \in Out => held[u] = s
      <4> SUFFICES ASSUME process[s] \in Out PROVE held[u] = s
        OBVIOUS
      <4>1. pidFile = [pid |-> s, whole |-> TRUE] /\ s # Server!NoPid
        BY StageTypes DEF ServerInv, OutInFile
      <4>2. CASE pc[u] # "polled"
        BY <1>1, <4>1, <4>2, StageTypes DEF ServerInv, UserHolds
      <4>3. CASE pc[u] = "polled"
        BY <2>2, <4>1, <4>3 DEF ServerInv, UserHolds, Server!Stale
      <4> QED
        BY <4>2, <4>3
    <3>4. process[s] = "write" => held[u] = s
      BY <1>1, <2>2, <3>1 DEF ServerInv, OneStarts, UserHolds, Server!Stale
    <3> QED
      BY <3>2, <3>3, <3>4
  <2>3. UserHolds(u)'
    <3>1. CASE pc[u] = "probed"
      BY <1>5, <3>1 DEF UserHolds
    <3>2. CASE pc[u] = "check"
      <4>1. pidFile' = Server!NoFile
        BY <2>1, <3>2 DEF ServerInv, UserHolds, Server!NoFile
      <4> QED
        BY <1>5, <3>2, <4>1 DEF UserHolds
    <3>3. CASE pc[u] = "polled"
      <4>1. pidFile'.whole => pidFile'.pid \in {Server!NoPid, child[u]}
        BY <2>1, <3>3, StageTypes DEF ServerInv, UserHolds
      <4> QED
        BY <1>1, <1>5, <3>3, <4>1 DEF UserHolds
    <3> QED
      BY <1>1, <3>1, <3>2, <3>3
  <2>4. \/ pc'[u] \in {"done", "idle"}
        \/ \A s \in Server!Pids : process[s] \notin Server!Startup
        \/ pc'[u] \in {"poll", "polled"} /\ pc[u] \in {"poll", "polled"} /\ UNCHANGED child
    BY <1>1, <1>5, NoneStarts
  <2> QED
    BY <1>1, <1>2, <2>1, <2>2, <2>3, <2>4, UserStep
<1>6. CASE UNCHANGED <<pidFile, held>> /\ pc'[u] = "done"
  BY <1>1, <1>6, WalkStep DEF Plain
<1> QED
  BY <1>1, <1>3, <1>4, <1>5, <1>6 DEF Server!Probed, Server!EnsureCheck, Server!Polled,
     Server!Goto, Server!End

\* A server is spawned: it is the only one that starts.
LEMMA SpawnStep ==
    ASSUME ServerInv, NEW u \in Users, Users = {u}, Server!TypeOK', Server!Spawn(u)
    PROVE  ServerInv'
<1>1. PICK s \in Server!Unborn : /\ process' = [process EXCEPT ![s] = "load"]
                                 /\ child' = [child EXCEPT ![u] = s]
  BY DEF Server!Spawn
<1>2. PICK label : label = IF order[u] = "server" THEN "foreground" ELSE "poll"
  OBVIOUS
<1>3. /\ pc[u] = "spawn" /\ pc' = [pc EXCEPT ![u] = label]
      /\ UNCHANGED <<pidFile, socket, held, order>>
  BY <1>2 DEF Server!Spawn, Server!Goto
<1>4. /\ s \in Server!Pids /\ process[s] = "unborn" /\ process'[s] = "load"
      /\ \A t \in Server!Pids : t # s => process'[t] = process[t]
      /\ pc'[u] = label /\ child'[u] = s
  BY <1>1, <1>3 DEF Server!Unborn, ServerInv, Server!TypeOK
<1>5. /\ "load" \in Server!Startup /\ "unborn" \notin Server!Startup
      /\ "load" \notin Out \cup Owning /\ "unborn" \notin Out \cup Owning
      /\ {"truncate", "write"} \subseteq Owning
  BY DEF Server!Startup, Out, Server!Stopping, Owning
<1>6. \A t \in Server!Pids : process[t] \notin Server!Startup /\ process[t] # "dying"
  BY <1>3, NoneStarts, NoneDies
<1>7. OneStarts'
  BY <1>2, <1>4, <1>6 DEF OneStarts
<1>8. OutInFile' /\ KilledAwaited'
  BY <1>3, <1>4, <1>5, <1>6 DEF ServerInv, OutInFile, KilledAwaited
<1>9. StartsAlone'
  BY <1>3, <1>4, <1>5 DEF ServerInv, StartsAlone
<1>10. UserHolds(u)'
  <2>1. label = "poll" /\ pidFile.whole => pidFile.pid \in {Server!NoPid, child'[u]}
    BY <1>2, <1>3, StageTypes DEF ServerInv, UserHolds
  <2> QED
    BY <1>2, <1>3, <1>4, <2>1 DEF UserHolds
<1> QED
  BY <1>7, <1>8, <1>9, <1>10 DEF ServerInv

\* A server gets SIGKILL: of the user who waits for it, or stops it.
LEMMA KillSteps ==
    ASSUME ServerInv, NEW u \in Users, Users = {u}, Server!TypeOK',
           Server!GiveUp(u) \/ Server!Kill(u)
    PROVE  ServerInv'
<1>1. /\ pc[u] \in {"poll", "kill"} /\ UNCHANGED <<pidFile, socket, held, order, child>>
  BY DEF Server!GiveUp, Server!Kill
<1>2. \A t \in Server!Pids : process[t] # "dying"
  BY <1>1, NoneDies
<1>3. pc \in [Users -> Server!PCs] /\ process \in [Server!Pids -> Server!Stages]
      /\ held[u] \in Server!Pids \cup {Server!NoPid}
      /\ child[u] \in Server!Pids \cup {Server!NoPid}
  BY DEF ServerInv, Server!TypeOK
<1>4. "dying" \notin Server!Startup \cup Out \cup Owning \cup {"unborn"}
  BY DEF Server!Startup, Out, Server!Stopping, Owning
<1>5. ASSUME NEW s \in Server!Pids, process' = [process EXCEPT ![s] = "dying"],
             Server!Alive(s),
             \/ pc[u] = "poll" /\ child[u] = s /\ pc'[u] = "reap"
             \/ pc[u] = "kill" /\ held[u] = s /\ pc'[u] = "wait"
      PROVE  ServerInv'
  <2>1. /\ process'[s] = "dying"
        /\ \A t \in Server!Pids : t # s => process'[t] = process[t]
    BY <1>3, <1>5
  <2>2. \A t \in Server!Pids : process'[t] \notin Server!Startup
    <3>1. pc[u] = "poll" => \A t \in Server!Pids : t # s => process[t] \notin Server!Startup
      BY <1>5 DEF ServerInv, OneStarts
    <3>2. pc[u] = "kill" => \A t \in Server!Pids : process[t] \notin Server!Startup
      BY NoneStarts
    <3> QED
      BY <1>4, <1>5, <2>1, <3>1, <3>2
  <2>3. OneStarts' /\ KilledAwaited'
    BY <1>1, <1>2, <1>5, <2>1, <2>2 DEF OneStarts, KilledAwaited
  <2>4. OutInFile'
    BY <1>1, <1>4, <2>1 DEF ServerInv, OutInFile
  <2>5. StartsAlone'
    BY <1>1, <1>4, <2>1 DEF ServerInv, StartsAlone
  <2>6. UserHolds(u)'
    <3>1. CASE pc'[u] = "reap"
      BY <3>1 DEF UserHolds
    <3>2. CASE pc[u] = "kill" /\ held[u] = s /\ pc'[u] = "wait"
      <4>1. pidFile \in {Server!NoFile, [pid |-> s, whole |-> TRUE]}
        BY <3>2 DEF ServerInv, UserHolds
      <4>2. \A t \in Server!Pids : process[t] \in Out => t = s
        BY <4>1, StageTypes DEF ServerInv, OutInFile
      <4>3. \A t \in Server!Pids : process'[t] \notin Out
        BY <1>4, <2>1, <4>2
      <4> QED
        BY <1>1, <3>2, <4>1, <4>3 DEF UserHolds
    <3> QED
      BY <1>5, <3>1, <3>2
  <2> QED
    BY <2>3, <2>4, <2>5, <2>6 DEF ServerInv
<1>6. CASE Server!GiveUp(u) /\ ~Server!Alive(child[u])
  <2>1. UNCHANGED process /\ pc'[u] = "reap"
    BY <1>3, <1>6 DEF Server!GiveUp, Server!Goto
  <2>2. \A t \in Server!Pids : process[t] \notin Server!Startup
    <3>1. pc[u] = "poll"
      BY <1>6 DEF Server!GiveUp
    <3>2. "unborn" \notin Server!Startup /\ "dead" \notin Server!Startup
      BY DEF Server!Startup
    <3>3. \A t \in Server!Pids : process[t] \in Server!Startup => child[u] = t
      BY <3>1 DEF ServerInv, OneStarts
    <3> QED
      BY <1>6, <3>2, <3>3, StageTypes DEF Server!Alive
  <2>3. UserHolds(u)'
    BY <2>1 DEF UserHolds
  <2> QED
    BY <1>1, <1>2, <2>1, <2>2, <2>3, UserStep
<1>7. CASE Server!Kill(u) /\ ~Server!Alive(held[u])
  <2>1. UNCHANGED process /\ pc[u] = "kill" /\ pc'[u] = "done"
    BY <1>3, <1>7 DEF Server!Kill, Server!End
  <2> QED
    BY <1>1, <2>1, WalkStep DEF Plain
<1>8. CASE Server!GiveUp(u) /\ Server!Alive(child[u])
  <2>1. child[u] \in Server!Pids
    BY <1>3, <1>8 DEF Server!Alive
  <2>2. process' = [process EXCEPT ![child[u]] = "dying"] /\ pc[u] = "poll" /\ pc'[u] = "reap"
    BY <1>3, <1>8 DEF Server!GiveUp, Server!Goto
  <2> QED
    BY <1>5, <1>8, <2>1, <2>2
<1>9. CASE Server!Kill(u) /\ Server!Alive(held[u])
  <2>1. held[u] \in Server!Pids
    BY <1>3, <1>9 DEF Server!Alive
  <2>2. process' = [process EXCEPT ![held[u]] = "dying"] /\ pc[u] = "kill" /\ pc'[u] = "wait"
    BY <1>3, <1>9 DEF Server!Kill, Server!Goto
  <2> QED
    BY <1>5, <1>9, <2>1, <2>2
<1> QED
  BY <1>6, <1>7, <1>8, <1>9

\* The user waits, goes on, cleans up or is done.
LEMMA WalkSteps ==
    ASSUME ServerInv, NEW u \in Users, Users = {u}, Server!TypeOK',
           \/ Server!Foreground(u) \/ Server!Reap(u) \/ Server!UnlockVault(u)
           \/ Server!StartVM(u) \/ Server!DeleteSecrets(u) \/ Server!StopVM(u)
           \/ Server!Wait(u) \/ Server!Clean(u) \/ Server!Return(u)
    PROVE  ServerInv'
<1>1. pc \in [Users -> Server!PCs] /\ held \in [Server!Pids \cup Users -> Server!Pids \cup {Server!NoPid}]
  BY DEF ServerInv, Server!TypeOK
<1>2. \A s \in Server!Pids : s # u
  BY UsersAreNoServers
<1>3. CASE \/ Server!Foreground(u) \/ Server!Reap(u) \/ Server!UnlockVault(u)
           \/ Server!StartVM(u) \/ Server!DeleteSecrets(u) \/ Server!StopVM(u)
  <2>1. /\ UNCHANGED <<process, socket, pidFile, held>>
        /\ pc[u] \in {"foreground", "reap", "up", "vm", "borrow", "stopVM"}
        /\ pc[u] = "reap" => ~Server!Alive(child[u])
        /\ pc'[u] \in {"done", "vm", "cleanup"}
        /\ pc[u] = "foreground" => pc'[u] = "done"
    BY <1>1, <1>3 DEF Server!Foreground, Server!Reap, Server!UnlockVault, Server!StartVM,
       Server!DeleteSecrets, Server!StopVM, Server!serverVars, Server!Goto, Server!End
  <2> QED
    BY <2>1, WalkStep DEF Plain
<1>4. CASE Server!Return(u)
  <2>1. /\ UNCHANGED <<process, socket, pidFile>> /\ pc[u] = "done" /\ pc'[u] = "idle"
        /\ \A s \in Server!Pids : held'[s] = held[s]
    BY <1>1, <1>2, <1>4 DEF Server!Return, Server!Fresh, Server!serverVars
  <2> QED
    BY <2>1, WalkStep DEF Plain
<1>5. CASE Server!Wait(u)
  <2>1. /\ UNCHANGED <<process, socket, pidFile, held>> /\ pc[u] = "wait"
        /\ ~Server!Alive(held[u]) /\ pc'[u] = "clean"
    BY <1>1, <1>5 DEF Server!Wait, Server!Goto, Server!serverVars
  <2>2. UserHolds(u)'
    BY <2>1 DEF ServerInv, UserHolds
  <2>3. \A s \in Server!Pids : process[s] # "dying" /\ process[s] \notin Server!Startup
    BY <2>1, NoneDies, NoneStarts
  <2> QED
    BY <2>1, <2>2, <2>3, UserStep
<1>6. CASE Server!Clean(u)
  <2>1. /\ UNCHANGED <<process, socket, held>> /\ pidFile' = Server!NoFile
        /\ pc[u] \in {"clean", "cleanAgain"} /\ pc'[u] \in {"cleanAgain", "done"}
    BY <1>1, <1>6 DEF Server!Clean, Server!Goto, Server!End
  <2>2. \A s \in Server!Pids : process[s] \notin Out
    BY <2>1 DEF ServerInv, UserHolds
  <2>3. UserHolds(u)'
    BY <2>1, <2>2 DEF UserHolds
  <2>4. \A s \in Server!Pids : process[s] # "dying" /\ process[s] \notin Server!Startup
    BY <2>1, NoneDies, NoneStarts
  <2>5. "write" \in Server!Startup
    BY DEF Server!Startup
  <2> QED
    BY <2>1, <2>2, <2>3, <2>4, <2>5, UserStep
<1> QED
  BY <1>3, <1>4, <1>5, <1>6

\* No step of the server part breaks its types, whoever uses it, ...
LEMMA ServerTypesStep == Server!TypeOK /\ [Server!Next]_serverVars => Server!TypeOK'
<1> SUFFICES ASSUME Server!TypeOK, [Server!Next]_serverVars PROVE Server!TypeOK'
  OBVIOUS
<1>1. CASE UNCHANGED serverVars
  BY <1>1 DEF serverVars, Server!TypeOK
<1>2. CASE Server!Next
  <2>1. {"server", "status", "start", "stop", "delete", "quit"} = Server!AllKinds
    BY DEF Server!AllKinds
  <2> QED
    BY <1>2, <2>1, ServerTypes, CommandTypes DEF Server!Next
<1> QED
  BY <1>1, <1>2

\* ... and none breaks the rest when one user does.
LEMMA ServerInvStep ==
    ASSUME NEW u, Users = {u}, ServerInv, [Server!Next]_serverVars
    PROVE  ServerInv'
<1>1. Server!TypeOK'
  BY ServerTypesStep DEF ServerInv
<1>2. CASE UNCHANGED serverVars
  BY <1>1, <1>2 DEF serverVars, ServerInv, OneStarts, OutInFile, StartsAlone, KilledAwaited,
     UserHolds
<1>3. ASSUME NEW s \in Server!Pids,
             Server!ServerStep(s) \/ Server!Signal(s) \/ Server!Die(s)
      PROVE  ServerInv'
  BY <1>1, <1>3, ServerSteps
<1>4. ASSUME NEW what \in Server!AllKinds, NEW c \in Clusters, Server!Begin(u, what, c)
      PROVE  ServerInv'
  BY <1>1, <1>4, BeginCommand
<1>5. ASSUME Server!CmdStep(u) PROVE ServerInv'
  BY <1>1, <1>5, ReadSteps, RunningSteps, SpawnStep, KillSteps, WalkSteps DEF Server!CmdStep
<1>6. ASSUME Server!Return(u) PROVE ServerInv'
  BY <1>1, <1>6, WalkSteps
<1>7. {"server", "status", "start", "stop", "delete", "quit"} = Server!AllKinds
  BY DEF Server!AllKinds
<1>8. CASE Server!Next
  <2>1. ~Server!Interrupt(u)
    BY DEF Server!Interrupt
  <2> QED
    BY <1>3, <1>4, <1>5, <1>6, <1>7, <1>8, <2>1 DEF Server!Next
<1> QED
  BY <1>2, <1>8

\* One command at a time: a server that serves is the one in the PID file, and
\* has the socket, whatever was killed, was signalled or failed before, and
\* whichever commands looked for a server, started or killed one
\* (server.go: ServerEnsure, ServerCleanup; pid.go: IsRunning).
THEOREM ServersAreFound ==
    ASSUME NEW u, Users = {u}
    PROVE  Server!Spec => []Discoverable
<1>1. ServerInv /\ [Server!Next]_Server!vars => ServerInv'
  BY ServerInvStep DEF Server!vars, Server!serverVars, Server!cmdVars, serverVars
<1>2. ServerInv => Discoverable
  BY DEF ServerInv, OutInFile, Out, Discoverable, Server!Discoverable
<1> QED
  BY <1>1, <1>2, ServersInitially, PTL DEF Server!Spec

(***************************************************************************)
(* The parts side by side.                                                 *)
(***************************************************************************)

\* What a part is proved to do on its own it does in the run that explores
\* the parts side by side (MCOperations).
THEOREM PartsBehave ==
    PartsSpec => /\ Spec /\ Mirror!Spec /\ Artifact!Spec /\ Release!Spec
                 /\ Display!Spec /\ Bundles!Spec /\ Server!Spec
<1>1. PartsInit => /\ Init /\ Mirror!Init /\ Artifact!Init /\ Release!Init
                   /\ Display!Init /\ Bundles!Init /\ Server!Init
  BY DEF PartsInit
<1>2. [PartsNext]_allVars =>
        /\ [Next]_vars /\ [Mirror!Next]_Mirror!mvars /\ [Artifact!Next]_Artifact!avars
        /\ [Release!Next]_Release!dvars /\ [Display!Next]_Display!dispVars
        /\ [Bundles!Next]_Bundles!bundleVars /\ [Server!Next]_Server!vars
  BY DEF PartsNext, Moves, allVars, mirrorVars, artifactVars, releaseVars, displayVars,
         bundlesVars, serverVars, Mirror!mvars, Artifact!avars, Release!dvars,
         Release!files,
         Display!dispVars, Bundles!bundleVars, Server!vars, Server!serverVars, Server!cmdVars
<1> QED
  BY <1>1, <1>2, PTL
     DEF PartsSpec, Spec, Mirror!Spec, Artifact!Spec, Release!Spec, Display!Spec,
         Bundles!Spec, Server!Spec

\* The variables of every part have their types, and the counters keep their
\* bounds.
THEOREM PartsTypeCorrect == PartsSpec => []PartsTypeOK
<1>1. Mirror!Spec => []Mirror!TypeOK
  <2>1. MirrorTypes /\ [Mirror!Next]_Mirror!mvars => MirrorTypes'
    BY MirrorTypesStep DEF Mirror!mvars, mirrorVars
  <2> QED
    BY <2>1, MirrorInitially, MirrorTypesEnough, PTL DEF Mirror!Spec
<1>2. Artifact!Spec => []Artifact!TypeOK
  <2>1. ArtifactInv /\ [Artifact!Next]_Artifact!avars => ArtifactInv'
    BY ArtifactStep DEF Artifact!avars, artifactVars
  <2>2. ArtifactInv => Artifact!TypeOK
    BY DEF ArtifactInv, ArtifactTypes, FileRecords, Artifact!TypeOK
  <2> QED
    BY <2>1, <2>2, ArtifactInitially, PTL DEF Artifact!Spec
<1>3. Release!Spec => []Release!TypeOK
  BY ReleaseTypesHold
<1>4. Display!Spec => []Display!TypeOK
  <2>1. DisplayInv /\ [Display!Next]_Display!dispVars => DisplayInv'
    BY DisplayStays DEF Display!dispVars, displayVars
  <2> QED
    BY <2>1, DisplayInitially, DisplayEnough, PTL DEF Display!Spec
<1>5. Bundles!Spec => []Bundles!TypeOK
  <2>1. BundleInv /\ [Bundles!Next]_Bundles!bundleVars => BundleInv'
    BY BundleStep DEF Bundles!bundleVars, bundlesVars
  <2> QED
    BY <2>1, BundlesInitially, BundlesEnough, PTL DEF Bundles!Spec
<1>6. Server!Spec => []Server!TypeOK
  <2>1. Server!TypeOK /\ [Server!Next]_Server!vars => Server!TypeOK'
    BY ServerTypesStep DEF Server!vars, Server!serverVars, Server!cmdVars, serverVars
  <2>2. Server!Init => Server!TypeOK
    BY ServersInitially DEF ServerInv
  <2> QED
    BY <2>1, <2>2, PTL DEF Server!Spec
<1>7. TypeOK /\ Mirror!TypeOK /\ Artifact!TypeOK /\ Release!TypeOK /\ Display!TypeOK
        /\ Bundles!TypeOK /\ Server!TypeOK => PartsTypeOK
  BY DEF PartsTypeOK
<1> QED
  BY <1>1, <1>2, <1>3, <1>4, <1>5, <1>6, <1>7, ListingTypeCorrect, PartsBehave, PTL
=============================================================================
