----------------------------- MODULE FakeVault -----------------------------
(***************************************************************************)
(* The secret store of the local server: FileStore                         *)
(* (internal/fakevault/store.go) together with the HTTP handlers that call *)
(* it (internal/fakevault/handler.go).                                     *)
(*                                                                         *)
(* Each secret is an encrypted file; each cluster has one vault key, kept  *)
(* in the keyring of the operating system and cached in the server         *)
(* process.  Every method of the store holds the mutex mu.  A handler may  *)
(* call several methods, and the server may be killed between any two      *)
(* effects on the disk or on the keyring.                                  *)
(*                                                                         *)
(* Requests are slots of Reqs: req holds the arguments, pc where the       *)
(* handler stands, got the local variables of the method it is in, and res *)
(* the response once there is one.                                         *)
(***************************************************************************)
EXTENDS Integers

CONSTANTS
    Clusters, Paths, Vals,
    Reqs,       \* slots for requests served at the same time
    NoReq,      \* "no request": the mutex is free, or a slot is
    NoFile,     \* "no file on the disk"
    MaxWrites,  \* bound: write requests accepted
    MaxKeys,    \* bound: vault keys ever made before deleting stops
    MaxCas,     \* bound: versions a client may name in check-and-set
    Faults      \* whether the keyring and the file system may fail

ASSUME ConstantsAssumption ==
    /\ MaxWrites \in Nat /\ MaxKeys \in Nat /\ MaxCas \in Nat
    /\ Faults \in BOOLEAN
    /\ NoReq \notin Reqs
    /\ Vals # {}

VARIABLES
    files,      \* the secret files: <root>/<cluster>/fakevault/<path>.json
    keyring,    \* the vault keys in the keyring, which outlive the server
    cache,      \* FileStore.keys, lost with the process
    nextKey,    \* the next random key
    mu,         \* FileStore.mu: the request that holds it
    up,         \* is the local server process running?
    pc, req, got, res,
    writes      \* write requests accepted so far

durable == <<files, keyring, nextKey>>
vars == <<files, keyring, cache, nextKey, mu, up, pc, req, got, res, writes>>

NoKey == 0
Keys == Nat \ {NoKey}

\* secretFile.  Files written before versions existed decode with version 0.
File == [version: Nat, archived: BOOLEAN, key: Nat, val: Vals]

\* What a client sees of a file.
View == [version: Nat, archived: BOOLEAN, val: Vals]

ASSUME NoFileAssumption == NoFile \notin File \cup View

Writes == {"set", "cas"}
OtherOps == {"read", "metadata", "archive", "restore", "destroy",
             "deleteCluster", "unlock"}
PCs == {"idle", "want", "seal", "remove", "forget", "report", "done"}
Statuses == {"none", "ok", "notFound", "conflict", "error"}

\* Requests that name at most the versions cas in check-and-set.
RequestsUpTo(cas) ==
    [op: {"set"}, c: Clusters, p: Paths, val: Vals]
        \cup [op: {"cas"}, c: Clusters, p: Paths, val: Vals, cas: cas]
        \cup [op: OtherOps, c: Clusters, p: Paths]

Request == RequestsUpTo(Nat)
Locals == [ver: Nat, key: Nat]
Response == [status: Statuses, ver: Nat]

NoLocals == [ver |-> 0, key |-> NoKey]
NoResponse == [status |-> "none", ver |-> 0]

----------------------------------------------------------------------------
(* Helpers of the store.                                                   *)

\* Mutant: versions counted from zero.
MutantCurrentVersion(f) == IF f = NoFile THEN 0 ELSE f.version - 1

\* The version a file counts as; 0 stands for a missing file.
CurrentVersion(f) ==
    IF f = NoFile THEN 0 ELSE IF f.version <= 0 THEN 1 ELSE f.version

\* Mutant: a key that is not cached is made anew, whatever the keyring holds.
MutantKeyFor(c) == IF cache[c] # NoKey THEN cache[c] ELSE nextKey

\* vaultKey: the cached key, else the key of the keyring, else a new one.
KeyFor(c) ==
    IF cache[c] # NoKey THEN cache[c]
    ELSE IF keyring[c] # NoKey THEN keyring[c] ELSE nextKey

\* decrypt: the file was sealed with the key that vaultKey returns.
Decrypts(c, f) == KeyFor(c) = f.key

\* vaultKey succeeds: the key is in the keyring before it is cached.
VaultKey(c) ==
    /\ cache' = [cache EXCEPT ![c] = KeyFor(c)]
    /\ keyring' = IF cache[c] = NoKey THEN [keyring EXCEPT ![c] = KeyFor(c)]
                                      ELSE keyring
    /\ nextKey' = IF KeyFor(c) = nextKey THEN nextKey + 1 ELSE nextKey

\* vaultKey fails: the keyring refuses a read or a write.
VaultKeyFails(c) ==
    /\ Faults
    /\ cache[c] = NoKey
    /\ UNCHANGED <<cache, keyring, nextKey>>

FileOf(r) == files[req[r].c][req[r].p]

\* A secret that GetSecret returns.
Live(f) == f # NoFile /\ ~f.archived

Respond(r, status, ver) ==
    /\ pc' = [pc EXCEPT ![r] = "done"]
    /\ res' = [res EXCEPT ![r] = [status |-> status, ver |-> ver]]

Goto(r, label) == pc' = [pc EXCEPT ![r] = label] /\ UNCHANGED res

Install(r, f) == files' = [files EXCEPT ![req[r].c][req[r].p] = f]

\* Mutant: the key is deleted without waiting for the files.
MutantEmptied(c) == TRUE

\* os.RemoveAll has emptied the directory of the cluster.
Emptied(c) == \A p \in Paths : files[c][p] = NoFile

\* Mutant: a method of the store that does not lock.
MutantEnters(r, ops) == up /\ pc[r] = "want" /\ req[r].op \in ops

\* A request that may enter the store now.
Enters(r, ops) == up /\ pc[r] = "want" /\ req[r].op \in ops /\ mu = NoReq

----------------------------------------------------------------------------
\* Either a fresh installation or one whose files predate versions.
Init ==
    /\ \/ /\ files = [c \in Clusters |-> [p \in Paths |-> NoFile]]
          /\ keyring = [c \in Clusters |-> NoKey]
          /\ nextKey = 1
       \/ /\ \E v \in Vals :
                files = [c \in Clusters |-> [p \in Paths |->
                   [version |-> 0, archived |-> FALSE, key |-> 1, val |-> v]]]
          /\ keyring = [c \in Clusters |-> 1]
          /\ nextKey = 2
    /\ cache = [c \in Clusters |-> NoKey]
    /\ mu = NoReq
    /\ up = TRUE
    /\ pc = [r \in Reqs |-> "idle"]
    /\ req = [r \in Reqs |-> NoReq]
    /\ got = [r \in Reqs |-> NoLocals]
    /\ res = [r \in Reqs |-> NoResponse]
    /\ writes = 0

(* A request arrives and passes the checks that do not read the store.     *)
ServeHTTP(r, q) ==
    /\ up /\ pc[r] = "idle"
    /\ q.op \in Writes => writes < MaxWrites
    /\ q.op = "deleteCluster" => nextKey <= MaxKeys
    /\ req' = [req EXCEPT ![r] = q]
    /\ pc' = [pc EXCEPT ![r] = "want"]
    /\ writes' = writes + (IF q.op \in Writes THEN 1 ELSE 0)
    /\ UNCHANGED <<durable, cache, mu, up, got, res>>

(* GetSecret: a missing or archived secret is not found; any other one is  *)
(* decrypted, which loads the vault key.                                   *)
GetSecret(r) ==
    /\ Enters(r, {"read"})
    /\ LET f == FileOf(r) IN
       \/ /\ ~Live(f)
          /\ Respond(r, "notFound", 0)
          /\ UNCHANGED <<got, cache, keyring, nextKey>>
       \/ /\ Live(f)
          /\ VaultKey(req[r].c)
          /\ IF Decrypts(req[r].c, f)
             THEN /\ Goto(r, "report")
                  /\ got' = [got EXCEPT ![r].ver = CurrentVersion(f)]
             ELSE Respond(r, "error", 0) /\ UNCHANGED got
       \/ /\ Live(f)
          /\ VaultKeyFails(req[r].c)
          /\ Respond(r, "error", 0)
          /\ UNCHANGED got
    /\ UNCHANGED <<files, mu, up, req, writes>>

(* setSecret up to the sealed payload: the version check, then the key.    *)
SetSecret(r) ==
    /\ Enters(r, Writes)
    /\ LET current == CurrentVersion(FileOf(r))
           matches == req[r].op = "cas" => req[r].cas = current
       IN \/ /\ ~matches
             /\ Respond(r, "conflict", 0)
             /\ UNCHANGED <<got, mu, cache, keyring, nextKey>>
          \/ /\ matches
             /\ VaultKey(req[r].c)
             /\ got' = [got EXCEPT ![r] = [ver |-> current + 1,
                                           key |-> KeyFor(req[r].c)]]
             /\ mu' = r
             /\ Goto(r, "seal")
          \/ /\ matches
             /\ VaultKeyFails(req[r].c)
             /\ Respond(r, "error", 0)
             /\ UNCHANGED <<got, mu>>
    /\ UNCHANGED <<files, up, req, writes>>

\* Mutant: the version is not moved on.
MutantSealed(r) == [version |-> got[r].ver - 1, archived |-> FALSE,
                    key |-> got[r].key, val |-> req[r].val]

\* The secretFile that setSecret builds.
Sealed(r) == [version |-> got[r].ver, archived |-> FALSE,
              key |-> got[r].key, val |-> req[r].val]

(* writeFile for setSecret.  writeFileAtomic can fail before the rename,   *)
(* and also after it, when the directory cannot be synced: the secret is   *)
(* then replaced although the client is told otherwise.                    *)
WriteFile(r) ==
    /\ up /\ pc[r] = "seal"
    /\ mu' = NoReq
    /\ \/ Install(r, Sealed(r)) /\ Goto(r, "report")
       \/ Faults /\ Install(r, Sealed(r)) /\ Respond(r, "error", 0)
       \/ Faults /\ UNCHANGED files /\ Respond(r, "error", 0)
    /\ UNCHANGED <<keyring, cache, nextKey, up, req, got, writes>>

(* secretVersion: the version that a read or a write reports is looked up  *)
(* by a second call to the store (ListSecrets), after the first one has    *)
(* released the mutex.  It is 1 when the secret or the list is not there.  *)
ReportVersion(r) ==
    /\ up /\ pc[r] = "report" /\ mu = NoReq
    /\ \/ Respond(r, "ok", IF FileOf(r) = NoFile THEN 1
                           ELSE CurrentVersion(FileOf(r)))
       \/ Faults /\ Respond(r, "ok", 1)
    /\ UNCHANGED <<durable, cache, mu, up, req, got, writes>>

(* ListSecrets, for list and metadata requests.                            *)
ListSecrets(r) ==
    /\ Enters(r, {"metadata"})
    /\ \/ FileOf(r) = NoFile /\ Respond(r, "notFound", 0)
       \/ FileOf(r) # NoFile /\ Respond(r, "ok", CurrentVersion(FileOf(r)))
       \/ Faults /\ Respond(r, "error", 0)
    /\ UNCHANGED <<durable, cache, mu, up, req, got, writes>>

(* setArchived: the file is rewritten with the flag; the ciphertext and    *)
(* the version stay.                                                       *)
SetArchived(r) ==
    /\ Enters(r, {"archive", "restore"})
    /\ LET f == FileOf(r)
           rewritten == [f EXCEPT !.archived = (req[r].op = "archive")]
       IN \/ f = NoFile /\ UNCHANGED files /\ Respond(r, "ok", 0)
          \/ f # NoFile /\ Install(r, rewritten) /\ Respond(r, "ok", 0)
          \/ Faults /\ f # NoFile /\ Install(r, rewritten) /\ Respond(r, "error", 0)
          \/ Faults /\ UNCHANGED files /\ Respond(r, "error", 0)
    /\ UNCHANGED <<keyring, cache, nextKey, mu, up, req, got, writes>>

DeleteSecret(r) ==
    /\ Enters(r, {"destroy"})
    /\ \/ Install(r, NoFile) /\ Respond(r, "ok", 0)
       \/ Faults /\ UNCHANGED files /\ Respond(r, "error", 0)
    /\ UNCHANGED <<keyring, cache, nextKey, mu, up, req, got, writes>>

(* Unlock loads the vault key, making it when absent.                      *)
Unlock(r) ==
    /\ Enters(r, {"unlock"})
    /\ \/ VaultKey(req[r].c) /\ Respond(r, "ok", 0)
       \/ VaultKeyFails(req[r].c) /\ Respond(r, "error", 0)
    /\ UNCHANGED <<files, mu, up, req, got, writes>>

(* DeleteCluster takes the mutex and removes the directory of the cluster  *)
(* one entry at a time, then the key from the keyring, then the cached     *)
(* key.                                                                    *)
DeleteCluster(r) ==
    /\ Enters(r, {"deleteCluster"})
    /\ mu' = r
    /\ Goto(r, "remove")
    /\ UNCHANGED <<durable, cache, up, req, got, writes>>

RemoveEntry(r, p) ==
    /\ up /\ pc[r] = "remove"
    /\ files[req[r].c][p] # NoFile
    /\ files' = [files EXCEPT ![req[r].c][p] = NoFile]
    /\ UNCHANGED <<keyring, cache, nextKey, mu, up, pc, req, got, res, writes>>

KeyringDelete(r) ==
    /\ up /\ pc[r] = "remove"
    /\ Emptied(req[r].c)
    /\ keyring' = [keyring EXCEPT ![req[r].c] = NoKey]
    /\ Goto(r, "forget")
    /\ UNCHANGED <<files, cache, nextKey, mu, up, req, got, writes>>

\* Mutant: the error path keeps the mutex.
MutantDeleteClusterFails(r) ==
    /\ up /\ pc[r] = "remove" /\ Faults
    /\ Respond(r, "error", 0)
    /\ UNCHANGED <<durable, cache, mu, up, req, got, writes>>

(* RemoveAll or KeyringDelete fails: what was removed stays removed.       *)
DeleteClusterFails(r) ==
    /\ up /\ pc[r] = "remove" /\ Faults
    /\ mu' = NoReq
    /\ Respond(r, "error", 0)
    /\ UNCHANGED <<durable, cache, up, req, got, writes>>

ForgetKey(r) ==
    /\ up /\ pc[r] = "forget"
    /\ cache' = [cache EXCEPT ![req[r].c] = NoKey]
    /\ mu' = NoReq
    /\ Respond(r, "ok", 0)
    /\ UNCHANGED <<durable, up, req, got, writes>>

(* The client has its response and the slot is free again.                 *)
Return(r) ==
    /\ pc[r] = "done"
    /\ pc' = [pc EXCEPT ![r] = "idle"]
    /\ req' = [req EXCEPT ![r] = NoReq]
    /\ got' = [got EXCEPT ![r] = NoLocals]
    /\ res' = [res EXCEPT ![r] = NoResponse]
    /\ UNCHANGED <<durable, cache, mu, up, writes>>

(* The server is killed (ServerKill sends SIGKILL) or exits: the disk and  *)
(* the keyring stay as they are, connections and memory are gone.          *)
Crash ==
    /\ up
    /\ up' = FALSE
    /\ cache' = [c \in Clusters |-> NoKey]
    /\ mu' = NoReq
    /\ pc' = [r \in Reqs |-> "idle"]
    /\ req' = [r \in Reqs |-> NoReq]
    /\ got' = [r \in Reqs |-> NoLocals]
    /\ res' = [r \in Reqs |-> NoResponse]
    /\ UNCHANGED <<durable, writes>>

(* NewFileStore in a new server process: no key is cached.                 *)
Restart ==
    /\ ~up
    /\ up' = TRUE
    /\ UNCHANGED <<durable, cache, mu, pc, req, got, res, writes>>

----------------------------------------------------------------------------
(* The steps of a handler that take the mutex, and those that do not wait. *)
Acquire(r) ==
    \/ GetSecret(r) \/ SetSecret(r) \/ ReportVersion(r) \/ ListSecrets(r)
    \/ SetArchived(r) \/ DeleteSecret(r) \/ Unlock(r) \/ DeleteCluster(r)

Holding(r) ==
    \/ WriteFile(r)
    \/ \E p \in Paths : RemoveEntry(r, p)
    \/ KeyringDelete(r) \/ DeleteClusterFails(r) \/ ForgetKey(r)

Next ==
    \/ \E r \in Reqs :
          \/ \E q \in RequestsUpTo(0 .. MaxCas) : ServeHTTP(r, q)
          \/ Acquire(r) \/ Holding(r) \/ Return(r)
    \/ Crash \/ Restart

Spec == Init /\ [][Next]_vars

(* sync.Mutex hands the lock to a waiter that has waited for a millisecond *)
(* (starvation mode), so a waiting request cannot be overtaken for ever;   *)
(* goroutines that wait for nothing are scheduled.                         *)
Fairness ==
    \A r \in Reqs :
        /\ SF_vars(Acquire(r))
        /\ WF_vars(Holding(r))

FairSpec == Spec /\ Fairness

----------------------------------------------------------------------------
(* Properties.                                                             *)

TypeOK ==
    /\ files \in [Clusters -> [Paths -> File \cup {NoFile}]]
    /\ keyring \in [Clusters -> Nat]
    /\ cache \in [Clusters -> Nat]
    /\ nextKey \in Keys
    /\ mu \in Reqs \cup {NoReq}
    /\ up \in BOOLEAN
    /\ pc \in [Reqs -> PCs]
    /\ req \in [Reqs -> Request \cup {NoReq}]
    /\ \A r \in Reqs : /\ pc[r] # "idle" => req[r] \in Request
                       /\ pc[r] = "seal" => req[r].op \in Writes
    /\ got \in [Reqs -> Locals]
    /\ res \in [Reqs -> Response]
    /\ writes \in Nat

(* Every secret on the disk can be decrypted with the key that the keyring *)
(* holds for its cluster: no order of writes, cluster deletions, failures, *)
(* kills and restarts leaves a file behind whose key is gone or replaced.  *)
(* (setSecret stores the key before the file, DeleteCluster removes the    *)
(* files before the key.)                                                  *)
Decryptable ==
    \A c \in Clusters, p \in Paths :
        files[c][p] # NoFile => files[c][p].key = keyring[c]

(* A sealed payload is about to replace exactly the secret it was checked  *)
(* against: between the version test of setSecret and its rename no other  *)
(* request has written, archived or removed the secret.  This is what      *)
(* makes create-only writes (version 0) and check-and-set writes atomic.   *)
SealedAgainstCurrent ==
    \A r \in Reqs : pc[r] = "seal" =>
        /\ got[r].ver = CurrentVersion(FileOf(r)) + 1
        /\ req[r].op = "cas" => req[r].cas = CurrentVersion(FileOf(r))

(* A version number identifies a value: no step changes the value of a     *)
(* secret without moving its version on, so that a client holding a stale  *)
(* version cannot overwrite a value it has not seen.                       *)
VersionIdentifiesValue ==
    [][\A c \in Clusters, p \in Paths :
          (files[c][p] # NoFile /\ files'[c][p] # NoFile) =>
             \/ /\ files'[c][p].val = files[c][p].val
                /\ CurrentVersion(files'[c][p]) >= CurrentVersion(files[c][p])
             \/ CurrentVersion(files'[c][p]) > CurrentVersion(files[c][p])]_vars

(* A check-and-set write on version n that succeeds reports version n + 1, *)
(* as TestTrustedHandlerCompareAndSetWrite asserts of serveWrite.          *)
CasReportsItsVersion ==
    \A r \in Reqs :
        (pc[r] = "done" /\ req[r].op = "cas" /\ res[r].status = "ok")
            => res[r].ver = req[r].cas + 1

(* Every request that waits for the store is answered, unless the server   *)
(* is killed: the mutex is always released, on error paths too, and no     *)
(* request starves.                                                        *)
RequestsAnswered ==
    \A r \in Reqs : pc[r] \in {"want", "report"} ~> pc[r] \in {"done", "idle"}

(* What clients can read, as a state of the abstract store: a file that    *)
(* the keyring cannot decrypt counts as a version that VaultKV never has.  *)
Readable(c, p) ==
    LET f == files[c][p] IN
    IF f = NoFile THEN NoFile
    ELSE [version |-> IF f.key = keyring[c] THEN CurrentVersion(f) ELSE -1,
          archived |-> f.archived, val |-> f.val]

kvBar == [c \in Clusters |-> [p \in Paths |-> Readable(c, p)]]

KV == INSTANCE VaultKV WITH NoSecret <- NoFile, kv <- kvBar

(* FileStore implements the versioned map of its Store interface: every    *)
(* effect on disk or keyring, every failure, kill and restart is a write,  *)
(* an archive or restore, a removal, or invisible to clients.              *)
ImplementsKV == KV!Spec
=============================================================================
