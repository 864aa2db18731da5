--------------------------- MODULE ArtifactCache ---------------------------
(***************************************************************************)
(* One artifact of the dependency cache: the file that the local server    *)
(* serves at a path that does not name the architecture, and the verified  *)
(* downloads that are kept by digest (internal/deps/vmconfig_cache.go,     *)
(* internal/filecache/download.go, copy.go, exists.go).                    *)
(*                                                                         *)
(* Several commands may fill the cache at once, for different              *)
(* architectures, and be killed at any step.  Nothing locks the cache.  A  *)
(* name in a directory refers to an inode, which whoever has it open goes  *)
(* on writing after the name is removed or renamed.                        *)
(***************************************************************************)
EXTENDS Integers, FiniteSets

CONSTANTS
    Fetchers,   \* commands: `podplane deps download`, `podplane local start`
    Digests,    \* of the artifact for each architecture
    MaxRuns     \* bound: runs of these commands, and inodes

VARIABLES
    inode,      \* inode -> the digest it will have, and whether it is complete
    dest,       \* the inode of the path that is served
    tmp,        \* the inode of that path with ".tmp"
    stored,     \* digest -> content of the retained download
    fetcher,    \* command -> where it stands
    runs,
    disturbed   \* command -> another one ran meanwhile

avars == <<inode, dest, tmp, stored, fetcher, runs, disturbed>>

NoInode == 0
Inodes == 0..MaxRuns
NoFile == [digest |-> "none", complete |-> FALSE]
File(d, complete) == [digest |-> d, complete |-> complete]
Resting == [at |-> "resting"]

Init ==
    /\ inode = [n \in Inodes |-> NoFile]
    /\ dest = NoInode /\ tmp = NoInode
    /\ stored = [d \in Digests |-> NoFile]
    /\ fetcher = [f \in Fetchers |-> Resting]
    /\ runs = 0 /\ disturbed = [f \in Fetchers |-> FALSE]

At(f, at) == fetcher[f].at = at
Goto(f, at) == fetcher' = [fetcher EXCEPT ![f].at = at]
Mine(f) == fetcher[f].node
Want(f) == fetcher[f].want

Start(f, d) ==
    /\ At(f, "resting") /\ runs < MaxRuns /\ runs' = runs + 1
    /\ fetcher' = [fetcher EXCEPT ![f] = [at |-> "check", want |-> d, node |-> runs + 1]]
    /\ disturbed' = [g \in Fetchers |->
          IF g = f THEN \E h \in Fetchers \ {f} : ~At(h, "resting")
                   ELSE disturbed[g] \/ ~At(g, "resting")]
    /\ UNCHANGED <<inode, dest, tmp, stored>>

\* Mutant: a file that is there is taken for what it should be.
MutantIsDigest(file, d) == file # NoFile
\* Exists: the digest of the whole content is compared.
IsDigest(file, d) == file = File(d, TRUE)

\* reuseVMConfigArtifact.
Check(f) ==
    /\ At(f, "check")
    /\ LET retained == IsDigest(stored[Want(f)], Want(f))
           active == IsDigest(inode[dest], Want(f))
       IN  Goto(f, CASE retained /\ active -> "ok"
                     [] retained /\ ~active -> "restore"
                     [] ~retained /\ active -> "retain"
                     [] OTHER -> "create")
    /\ UNCHANGED <<inode, dest, tmp, stored, runs, disturbed>>

\* Copy writes a file of its own and renames it.
Restore(f) ==
    /\ At(f, "restore")
    /\ \/ /\ inode' = [inode EXCEPT ![Mine(f)] = stored[Want(f)]]
          /\ dest' = Mine(f) /\ Goto(f, "ok")
       \/ Goto(f, "failed") /\ UNCHANGED <<inode, dest>>
    /\ UNCHANGED <<tmp, stored, runs, disturbed>>

Retain(f) ==
    /\ At(f, "retain")
    /\ \/ /\ dest # NoInode /\ stored' = [stored EXCEPT ![Want(f)] = inode[dest]]
          /\ Goto(f, "ok")
       \/ Goto(f, "failed") /\ UNCHANGED stored
    /\ UNCHANGED <<inode, dest, tmp, runs, disturbed>>

\* Download: whatever the temporary name referred to is removed.
Create(f) ==
    /\ At(f, "create") /\ tmp' = Mine(f)
    /\ inode' = [inode EXCEPT ![Mine(f)] = File(Want(f), FALSE)]
    /\ Goto(f, "write")
    /\ UNCHANGED <<dest, stored, runs, disturbed>>

\* The body is written and hashed on its way; what was received must match.
Write(f) ==
    /\ At(f, "write")
    /\ \/ inode' = [inode EXCEPT ![Mine(f)].complete = TRUE] /\ Goto(f, "rename")
       \/ Goto(f, "giveUp") /\ UNCHANGED inode
    /\ UNCHANGED <<dest, tmp, stored, runs, disturbed>>

\* os.Rename moves what the temporary name refers to by now.
Rename(f) ==
    /\ At(f, "rename")
    /\ IF tmp = NoInode THEN Goto(f, "failed") /\ UNCHANGED <<dest, tmp>>
       ELSE dest' = tmp /\ tmp' = NoInode /\ Goto(f, "cleanUp")
    /\ UNCHANGED <<inode, stored, runs, disturbed>>

\* The deferred os.Remove of the temporary name.
CleanUp(f) ==
    /\ At(f, "cleanUp") \/ At(f, "giveUp")
    /\ tmp' = NoInode
    /\ Goto(f, IF At(f, "cleanUp") THEN "retain" ELSE "failed")
    /\ UNCHANGED <<inode, dest, stored, runs, disturbed>>

\* The command ends, or is killed.
End(f) ==
    /\ ~At(f, "resting") /\ fetcher' = [fetcher EXCEPT ![f] = Resting]
    /\ UNCHANGED <<inode, dest, tmp, stored, runs, disturbed>>

Next == \E f \in Fetchers :
    \/ \E d \in Digests : Start(f, d)
    \/ Check(f) \/ Restore(f) \/ Retain(f) \/ Create(f) \/ Write(f)
    \/ Rename(f) \/ CleanUp(f) \/ End(f)

Spec == Init /\ [][Next]_avars

----------------------------------------------------------------------------

TypeOK ==
    /\ dest \in Inodes /\ tmp \in Inodes /\ runs \in 0..MaxRuns
    /\ inode[NoInode] = NoFile
    /\ \A d \in Digests : stored[d].digest \in Digests \cup {"none"}
    /\ disturbed \in [Fetchers -> BOOLEAN]

\* Whatever interrupted and overlapping runs have left, and whichever
\* architecture was served before, a run that nothing else disturbs ends with
\* its own artifact at the served path and retained (reuseVMConfigArtifact).
UndisturbedServes ==
    \A f \in Fetchers : At(f, "ok") /\ ~disturbed[f] =>
        inode[dest] = File(Want(f), TRUE) /\ stored[Want(f)] = File(Want(f), TRUE)

\* What the comment of Download says: the file is downloaded to the path and
\* its checksum verified, so that the path holds a complete file.
VerifiedOnReturn ==
    \A f \in Fetchers : At(f, "cleanUp") => inode[dest].complete
=============================================================================
