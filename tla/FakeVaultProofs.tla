-------------------------- MODULE FakeVaultProofs --------------------------
(***************************************************************************)
(* Proofs about FakeVault, for every set of clusters, paths, values and    *)
(* requests and every bound.                                               *)
(***************************************************************************)
EXTENDS FakeVault, TLAPS

----------------------------------------------------------------------------
(* Lemmas about the helpers.                                               *)

(* A request names a cluster and a path, a write also a value, and a       *)
(* check-and-set write the version it expects.                             *)
LEMMA RequestFields ==
  ASSUME NEW q \in Request
  PROVE  /\ q.c \in Clusters /\ q.p \in Paths
         /\ q.op \in Writes => q.val \in Vals
         /\ q.op = "cas" => q.cas \in Nat
BY DEF Request, RequestsUpTo, Writes, OtherOps

(* setSecret counts versions with naturals, and only a missing file counts *)
(* as version 0.                                                           *)
LEMMA VersionType ==
  ASSUME NEW f \in File \cup {NoFile}
  PROVE  /\ CurrentVersion(f) \in Nat
         /\ CurrentVersion(f) = 0 <=> f = NoFile
BY NoFileAssumption DEF CurrentVersion, File

(* vaultKey returns a key and keeps cache, keyring and key supply typed.   *)
LEMMA VaultKeyType ==
  ASSUME TypeOK, NEW c \in Clusters
  PROVE  /\ KeyFor(c) \in Keys
         /\ VaultKey(c) => /\ cache' \in [Clusters -> Nat]
                           /\ keyring' \in [Clusters -> Nat]
                           /\ nextKey' \in Keys
<1>1. KeyFor(c) \in Keys
  BY DEF TypeOK, KeyFor, Keys, NoKey
<1>2. ASSUME VaultKey(c)
      PROVE  /\ cache' \in [Clusters -> Nat] /\ keyring' \in [Clusters -> Nat]
             /\ nextKey' \in Keys
  BY <1>1, <1>2 DEF TypeOK, VaultKey, Keys, NoKey
<1> QED BY <1>1, <1>2

(* A handler that is under way has a request.                              *)
LEMMA ActiveRequest ==
  ASSUME TypeOK, NEW r \in Reqs, pc[r] # "idle"
  PROVE  /\ req[r] \in Request
         /\ req[r].c \in Clusters /\ req[r].p \in Paths
         /\ req[r].op \in Writes => req[r].val \in Vals
         /\ FileOf(r) \in File \cup {NoFile}
BY RequestFields DEF TypeOK, FileOf

(* A step of a handler within a request ends in a response or at another   *)
(* point of the handler, and leaves every handler with its request.        *)
HandlerStep(r) ==
    /\ pc[r] # "idle"
    /\ \/ \E status \in Statuses, ver \in Nat : Respond(r, status, ver)
       \/ \E label \in PCs : /\ Goto(r, label)
                             /\ label = "seal" => req[r].op \in Writes
    /\ UNCHANGED <<up, req, writes>>

(* Such a step keeps requests, points and responses typed.                 *)
LEMMA HandlerStepType ==
  ASSUME TypeOK, NEW r \in Reqs, HandlerStep(r)
  PROVE  /\ pc' \in [Reqs -> PCs] /\ res' \in [Reqs -> Response]
         /\ up' \in BOOLEAN /\ writes' \in Nat
         /\ req' \in [Reqs -> Request \cup {NoReq}]
         /\ \A q \in Reqs : /\ pc'[q] # "idle" => req'[q] \in Request
                            /\ pc'[q] = "seal" => req'[q].op \in Writes
<1>1. pc' \in [Reqs -> PCs] /\ res' \in [Reqs -> Response]
  <2>1. ASSUME NEW status \in Statuses, NEW ver \in Nat, Respond(r, status, ver)
        PROVE pc' \in [Reqs -> PCs] /\ res' \in [Reqs -> Response]
    BY <2>1 DEF TypeOK, Respond, PCs, Response
  <2>2. ASSUME NEW label \in PCs, Goto(r, label)
        PROVE pc' \in [Reqs -> PCs] /\ res' \in [Reqs -> Response]
    BY <2>2 DEF TypeOK, Goto
  <2> QED BY <2>1, <2>2 DEF HandlerStep
<1>2. \A q \in Reqs : q # r => pc'[q] = pc[q]
  BY DEF HandlerStep, TypeOK, Respond, Goto
<1>3. pc'[r] = "seal" => req[r].op \in Writes
  BY DEF HandlerStep, TypeOK, Respond, Goto
<1>4. UNCHANGED <<up, req, writes>> /\ pc[r] # "idle"
  BY DEF HandlerStep
<1>5. \A q \in Reqs : /\ pc'[q] # "idle" => req'[q] \in Request
                      /\ pc'[q] = "seal" => req'[q].op \in Writes
  BY <1>2, <1>3, <1>4 DEF TypeOK
<1> QED BY <1>1, <1>4, <1>5 DEF TypeOK

(* A file is installed where the request says.                             *)
LEMMA InstallType ==
  ASSUME TypeOK, NEW r \in Reqs, pc[r] # "idle", NEW f \in File \cup {NoFile},
         Install(r, f)
  PROVE  files' \in [Clusters -> [Paths -> File \cup {NoFile}]]
BY ActiveRequest DEF TypeOK, Install

----------------------------------------------------------------------------
(* Every file, key, mutex holder, request and response has its type.       *)
THEOREM TypeCorrect == Spec => []TypeOK
<1>1. Init => TypeOK
  <2> SUFFICES ASSUME Init PROVE TypeOK
    OBVIOUS
  <2>1. files \in [Clusters -> [Paths -> File \cup {NoFile}]]
    <3>1. \A v \in Vals : [version |-> 0, archived |-> FALSE, key |-> 1, val |-> v] \in File
      BY DEF File, Keys, NoKey
    <3> QED BY <3>1 DEF Init
  <2>2. keyring \in [Clusters -> Nat] /\ nextKey \in Keys
    BY DEF Init, Keys, NoKey
  <2>3. got \in [Reqs -> Locals] /\ res \in [Reqs -> Response]
    BY DEF Init, NoLocals, NoResponse, Locals, Response, Statuses, NoKey
  <2> QED BY <2>1, <2>2, <2>3 DEF Init, TypeOK, PCs, NoKey
<1>2. TypeOK /\ [Next]_vars => TypeOK'
  <2> SUFFICES ASSUME TypeOK, [Next]_vars PROVE TypeOK'
    OBVIOUS
  <2> USE DEF durable
  <2>1. ASSUME NEW r \in Reqs, NEW q \in RequestsUpTo(0 .. MaxCas), ServeHTTP(r, q)
        PROVE TypeOK'
    <3>1. q \in Request
      BY ConstantsAssumption DEF Request, RequestsUpTo
    <3> QED BY <2>1, <3>1 DEF ServeHTTP, TypeOK, PCs
  <2>2. ASSUME NEW r \in Reqs, GetSecret(r) PROVE TypeOK'
    <3>1. pc[r] # "idle" /\ UNCHANGED <<files, mu, up, req, writes>>
      BY <2>2 DEF GetSecret, Enters
    <3>2. HandlerStep(r)
      BY <2>2, <3>1 DEF GetSecret, HandlerStep, Statuses, PCs
    <3>3. CurrentVersion(FileOf(r)) \in Nat
      BY <3>1, ActiveRequest, VersionType
    <3>4. got' \in [Reqs -> Locals]
      BY <2>2, <3>3 DEF GetSecret, TypeOK, Locals
    <3>5. cache' \in [Clusters -> Nat] /\ keyring' \in [Clusters -> Nat] /\ nextKey' \in Keys
      BY <2>2, <3>1, ActiveRequest, VaultKeyType DEF GetSecret, VaultKeyFails, TypeOK
    <3> QED BY <3>1, <3>2, <3>4, <3>5, HandlerStepType DEF TypeOK
  <2>3. ASSUME NEW r \in Reqs, SetSecret(r) PROVE TypeOK'
    <3>1. pc[r] # "idle" /\ UNCHANGED <<files, up, req, writes>>
      BY <2>3 DEF SetSecret, Enters
    <3>2. HandlerStep(r)
      BY <2>3, <3>1 DEF SetSecret, Enters, HandlerStep, Statuses, PCs
    <3>3. CurrentVersion(FileOf(r)) + 1 \in Nat /\ KeyFor(req[r].c) \in Nat
      BY <3>1, ActiveRequest, VersionType, VaultKeyType DEF Keys
    <3>4. got' \in [Reqs -> Locals]
      BY <2>3, <3>3 DEF SetSecret, TypeOK, Locals
    <3>5. cache' \in [Clusters -> Nat] /\ keyring' \in [Clusters -> Nat] /\ nextKey' \in Keys
      BY <2>3, <3>1, ActiveRequest, VaultKeyType DEF SetSecret, VaultKeyFails, TypeOK
    <3>6. mu' \in Reqs \cup {NoReq}
      BY <2>3 DEF SetSecret, TypeOK
    <3> QED BY <3>1, <3>2, <3>4, <3>5, <3>6, HandlerStepType DEF TypeOK
  <2>4. ASSUME NEW r \in Reqs, WriteFile(r) PROVE TypeOK'
    <3>1. pc[r] # "idle" /\ mu' = NoReq
          /\ UNCHANGED <<keyring, cache, nextKey, up, req, got, writes>>
      BY <2>4 DEF WriteFile
    <3>2. HandlerStep(r)
      BY <2>4, <3>1 DEF WriteFile, HandlerStep, Statuses, PCs
    <3>3. Sealed(r) \in File
      BY <2>4, ActiveRequest DEF WriteFile, Sealed, TypeOK, Locals, File
    <3>4. files' \in [Clusters -> [Paths -> File \cup {NoFile}]]
      BY <2>4, <3>1, <3>3, InstallType DEF WriteFile, TypeOK
    <3> QED BY <3>1, <3>2, <3>4, HandlerStepType DEF TypeOK
  <2>5. ASSUME NEW r \in Reqs, ReportVersion(r) PROVE TypeOK'
    <3>1. HandlerStep(r)
      BY <2>5, ActiveRequest, VersionType DEF ReportVersion, HandlerStep, Statuses
    <3> QED BY <2>5, <3>1, HandlerStepType DEF ReportVersion, TypeOK
  <2>6. ASSUME NEW r \in Reqs, ListSecrets(r) PROVE TypeOK'
    <3>1. HandlerStep(r)
      BY <2>6, ActiveRequest, VersionType DEF ListSecrets, Enters, HandlerStep, Statuses
    <3> QED BY <2>6, <3>1, HandlerStepType DEF ListSecrets, TypeOK
  <2>7. ASSUME NEW r \in Reqs, SetArchived(r) PROVE TypeOK'
    <3>1. HandlerStep(r)
      BY <2>7 DEF SetArchived, Enters, HandlerStep, Statuses
    <3>2. files' \in [Clusters -> [Paths -> File \cup {NoFile}]]
      <4>1. pc[r] # "idle" /\ FileOf(r) \in File \cup {NoFile}
        BY <2>7, ActiveRequest DEF SetArchived, Enters
      <4>2. FileOf(r) # NoFile =>
              [FileOf(r) EXCEPT !.archived = (req[r].op = "archive")] \in File \cup {NoFile}
        BY <4>1 DEF File
      <4> QED BY <2>7, <4>1, <4>2, InstallType DEF SetArchived, TypeOK
    <3> QED BY <2>7, <3>1, <3>2, HandlerStepType DEF SetArchived, TypeOK
  <2>8. ASSUME NEW r \in Reqs, DeleteSecret(r) PROVE TypeOK'
    <3>1. HandlerStep(r)
      BY <2>8 DEF DeleteSecret, Enters, HandlerStep, Statuses
    <3>2. files' \in [Clusters -> [Paths -> File \cup {NoFile}]]
      BY <2>8, InstallType DEF DeleteSecret, Enters, TypeOK
    <3> QED BY <2>8, <3>1, <3>2, HandlerStepType DEF DeleteSecret, TypeOK
  <2>9. ASSUME NEW r \in Reqs, Unlock(r) PROVE TypeOK'
    <3>1. HandlerStep(r)
      BY <2>9 DEF Unlock, Enters, HandlerStep, Statuses
    <3>2. cache' \in [Clusters -> Nat] /\ keyring' \in [Clusters -> Nat] /\ nextKey' \in Keys
      BY <2>9, ActiveRequest, VaultKeyType DEF Unlock, Enters, VaultKeyFails, TypeOK
    <3> QED BY <2>9, <3>1, <3>2, HandlerStepType DEF Unlock, TypeOK
  <2>10. ASSUME NEW r \in Reqs, DeleteCluster(r) PROVE TypeOK'
    <3>1. HandlerStep(r)
      BY <2>10 DEF DeleteCluster, Enters, HandlerStep, PCs
    <3> QED BY <2>10, <3>1, HandlerStepType DEF DeleteCluster, TypeOK
  <2>11. ASSUME NEW r \in Reqs, NEW p \in Paths, RemoveEntry(r, p) PROVE TypeOK'
    BY <2>11, ActiveRequest DEF RemoveEntry, TypeOK
  <2>12. ASSUME NEW r \in Reqs, KeyringDelete(r) PROVE TypeOK'
    <3>1. HandlerStep(r)
      BY <2>12 DEF KeyringDelete, HandlerStep, PCs
    <3>2. keyring' \in [Clusters -> Nat]
      BY <2>12 DEF KeyringDelete, TypeOK, NoKey
    <3> QED BY <2>12, <3>1, <3>2, HandlerStepType DEF KeyringDelete, TypeOK
  <2>13. ASSUME NEW r \in Reqs, DeleteClusterFails(r) PROVE TypeOK'
    <3>1. HandlerStep(r)
      BY <2>13 DEF DeleteClusterFails, HandlerStep, Statuses
    <3> QED BY <2>13, <3>1, HandlerStepType DEF DeleteClusterFails, TypeOK
  <2>14. ASSUME NEW r \in Reqs, ForgetKey(r) PROVE TypeOK'
    <3>1. HandlerStep(r)
      BY <2>14 DEF ForgetKey, HandlerStep, Statuses
    <3>2. cache' \in [Clusters -> Nat]
      BY <2>14 DEF ForgetKey, TypeOK, NoKey
    <3> QED BY <2>14, <3>1, <3>2, HandlerStepType DEF ForgetKey, TypeOK
  <2>15. ASSUME NEW r \in Reqs, Return(r) PROVE TypeOK'
    <3>1. NoLocals \in Locals /\ NoResponse \in Response
      BY DEF NoLocals, Locals, NoResponse, Response, Statuses, NoKey
    <3> QED BY <2>15, <3>1 DEF Return, TypeOK, PCs
  <2>16. CASE Crash
    <3>1. NoLocals \in Locals /\ NoResponse \in Response
      BY DEF NoLocals, Locals, NoResponse, Response, Statuses, NoKey
    <3> QED BY <2>16, <3>1 DEF Crash, TypeOK, PCs, NoKey
  <2>17. CASE Restart
    BY <2>17 DEF Restart, TypeOK
  <2>18. CASE UNCHANGED vars
    BY <2>18 DEF vars, TypeOK
  <2> QED
    BY <2>1, <2>2, <2>3, <2>4, <2>5, <2>6, <2>7, <2>8, <2>9, <2>10, <2>11, <2>12,
       <2>13, <2>14, <2>15, <2>16, <2>17, <2>18
       DEF Next, Acquire, Holding
<1>3. QED
  BY <1>1, <1>2, PTL DEF Spec

----------------------------------------------------------------------------
(* The inductive invariant.  Decryptable alone is not inductive: it needs  *)
(* that a cached key is the one in the keyring, which DeleteCluster breaks *)
(* between KeyringDelete and ForgetKey, and only while it holds the mutex  *)
(* and the cluster has no files; and that the payload sealed by a write    *)
(* was sealed with the key that the keyring still has.                     *)

\* The points of a handler at which it holds the mutex.
Holders == {"seal", "remove", "forget"}

MutexHeld == \A r \in Reqs : pc[r] \in Holders <=> mu = r

KeysFresh == \A c \in Clusters : keyring[c] < nextKey

CacheCoherent ==
    \A c \in Clusters :
        \/ cache[c] \in {NoKey, keyring[c]}
        \/ \E r \in Reqs : pc[r] = "forget" /\ req[r].c = c

FilesKeyed ==
    \A c \in Clusters, p \in Paths :
        files[c][p] # NoFile => files[c][p].key # NoKey

SealedWithKey ==
    \A r \in Reqs : pc[r] = "seal" =>
        got[r].key # NoKey /\ got[r].key = keyring[req[r].c]

ForgottenEmpty ==
    \A r \in Reqs : pc[r] = "forget" =>
        /\ keyring[req[r].c] = NoKey
        /\ \A p \in Paths : files[req[r].c][p] = NoFile

IInv == /\ MutexHeld /\ KeysFresh /\ CacheCoherent /\ FilesKeyed /\ Decryptable
        /\ SealedWithKey /\ SealedAgainstCurrent /\ ForgottenEmpty

(* While the mutex is free, no handler is at a point that holds it.        *)
LEMMA MutexFree ==
  ASSUME MutexHeld, mu = NoReq
  PROVE  \A q \in Reqs : pc[q] \notin Holders
BY ConstantsAssumption DEF MutexHeld

(* While r holds the mutex, no other handler is at a point that holds it.  *)
LEMMA MutexExclusive ==
  ASSUME MutexHeld, NEW r \in Reqs, pc[r] \in Holders
  PROVE  mu = r /\ \A q \in Reqs : q # r => pc[q] \notin Holders
BY DEF MutexHeld

(* After a step that leaves the mutex free, nothing is sealed and no key   *)
(* is being forgotten.                                                     *)
LEMMA NobodyHolds ==
  ASSUME mu' = NoReq, \A q \in Reqs : pc'[q] \notin Holders
  PROVE  MutexHeld' /\ SealedWithKey' /\ SealedAgainstCurrent' /\ ForgottenEmpty'
BY ConstantsAssumption
   DEF MutexHeld, SealedWithKey, SealedAgainstCurrent, ForgottenEmpty, Holders

(* After a step that leaves the mutex with r, only r seals or forgets.     *)
LEMMA OneHolds ==
  ASSUME NEW r \in Reqs, mu' = r, pc'[r] \in Holders,
         \A q \in Reqs : q # r => pc'[q] \notin Holders
  PROVE  /\ MutexHeld'
         /\ pc'[r] # "seal" => SealedWithKey' /\ SealedAgainstCurrent'
         /\ pc'[r] # "forget" => ForgottenEmpty'
BY DEF MutexHeld, SealedWithKey, SealedAgainstCurrent, ForgottenEmpty, Holders

(* vaultKey, called with the mutex held, returns the key of the keyring    *)
(* when there is one, and otherwise puts a fresh key there before it       *)
(* caches it.                                                              *)
LEMMA VaultKeyInv ==
  ASSUME TypeOK, IInv, mu = NoReq, NEW c \in Clusters, VaultKey(c)
  PROVE  /\ KeyFor(c) # NoKey
         /\ keyring' = [keyring EXCEPT ![c] = KeyFor(c)]
         /\ cache' = [cache EXCEPT ![c] = KeyFor(c)]
         /\ keyring[c] \in {NoKey, KeyFor(c)}
         /\ KeysFresh'
<1>1. cache[c] \in {NoKey, keyring[c]}
  BY MutexFree DEF IInv, CacheCoherent, Holders
<1>2. KeyFor(c) # NoKey /\ keyring[c] \in {NoKey, KeyFor(c)}
  BY <1>1 DEF KeyFor, TypeOK, Keys
<1>3. keyring' = [keyring EXCEPT ![c] = KeyFor(c)]
  BY <1>1 DEF VaultKey, KeyFor, TypeOK
<1>4. KeyFor(c) < nextKey'
  BY <1>1 DEF IInv, KeysFresh, VaultKey, KeyFor, TypeOK, Keys
<1>5. nextKey' >= nextKey /\ nextKey' \in Nat
  BY DEF VaultKey, TypeOK, Keys
<1>6. KeysFresh'
  BY <1>3, <1>4, <1>5 DEF KeysFresh, IInv, TypeOK, Keys
<1> QED BY <1>2, <1>3, <1>6 DEF VaultKey

(* vaultKey keeps every file decryptable: it replaces no key.              *)
LEMMA VaultKeyKeeps ==
  ASSUME TypeOK, IInv, mu = NoReq, NEW c \in Clusters, UNCHANGED files,
         VaultKey(c) \/ VaultKeyFails(c) \/ UNCHANGED <<cache, keyring, nextKey>>
  PROVE  KeysFresh' /\ CacheCoherent' /\ FilesKeyed' /\ Decryptable'
<1>1. \A d \in Clusters : cache[d] \in {NoKey, keyring[d]}
  BY MutexFree DEF IInv, CacheCoherent, Holders
<1>2. CASE VaultKey(c)
  <2>1. /\ keyring' = [keyring EXCEPT ![c] = KeyFor(c)]
        /\ cache' = [cache EXCEPT ![c] = KeyFor(c)]
        /\ keyring[c] \in {NoKey, KeyFor(c)}
        /\ KeysFresh'
    BY <1>2, VaultKeyInv
  <2>2. CacheCoherent'
    BY <1>1, <2>1 DEF CacheCoherent, TypeOK
  <2>3. FilesKeyed'
    BY DEF FilesKeyed, IInv
  <2>4. Decryptable'
    BY <2>1 DEF Decryptable, FilesKeyed, IInv, TypeOK
  <2> QED BY <2>1, <2>2, <2>3, <2>4
<1>3. CASE VaultKeyFails(c) \/ UNCHANGED <<cache, keyring, nextKey>>
  <2>1. UNCHANGED <<cache, keyring, nextKey>>
    BY <1>3 DEF VaultKeyFails
  <2>2. CacheCoherent'
    BY <1>1, <2>1 DEF CacheCoherent
  <2> QED BY <2>1, <2>2 DEF KeysFresh, FilesKeyed, Decryptable, IInv
<1> QED BY <1>2, <1>3

(* A handler that enters the store and leaves the mutex free again, having *)
(* at most loaded the vault key, keeps the invariant.                      *)
LEMMA EntersAndLeaves ==
  ASSUME TypeOK, IInv, mu = NoReq, mu' = NoReq, NEW r \in Reqs,
         \A q \in Reqs : q # r => pc'[q] = pc[q],  pc'[r] \notin Holders
  PROVE  /\ \A c \in Clusters : cache[c] \in {NoKey, keyring[c]}
         /\ MutexHeld' /\ SealedWithKey' /\ SealedAgainstCurrent' /\ ForgottenEmpty'
BY MutexFree, NobodyHolds DEF IInv, CacheCoherent, Holders

(* A handler that holds the mutex and releases it leaves nobody holding.   *)
LEMMA Releases ==
  ASSUME TypeOK, IInv, NEW r \in Reqs, pc[r] \in Holders, mu' = NoReq,
         \A q \in Reqs : q # r => pc'[q] = pc[q],  pc'[r] \notin Holders
  PROVE  MutexHeld' /\ SealedWithKey' /\ SealedAgainstCurrent' /\ ForgottenEmpty'
BY MutexExclusive, NobodyHolds DEF IInv

(* The invariant holds in every reachable state: one step per action, and  *)
(* under it the conjuncts that the action can disturb.                     *)
LEMMA Invariant == Spec => []IInv
<1>1. Init => IInv
  BY ConstantsAssumption, NoFileAssumption DEF Init, IInv, MutexHeld, KeysFresh,
     CacheCoherent, FilesKeyed, Decryptable, SealedWithKey, SealedAgainstCurrent,
     ForgottenEmpty, Holders, NoKey
<1>2. TypeOK /\ TypeOK' /\ IInv /\ [Next]_vars => IInv'
  <2> SUFFICES ASSUME TypeOK, TypeOK', IInv, [Next]_vars PROVE IInv'
    OBVIOUS
  <2> USE DEF durable
  <2>1. ASSUME NEW r \in Reqs, NEW q \in RequestsUpTo(0 .. MaxCas), ServeHTTP(r, q)
        PROVE IInv'
    <3>1. pc[r] = "idle" /\ pc' = [pc EXCEPT ![r] = "want"] /\ req' = [req EXCEPT ![r] = q]
          /\ UNCHANGED <<files, keyring, nextKey, cache, mu, up, got, res>>
      BY <2>1 DEF ServeHTTP
    <3>2. \A p \in Reqs : pc'[p] \in Holders <=> pc[p] \in Holders
      BY <3>1 DEF TypeOK, Holders
    <3>3. \A p \in Reqs : pc[p] \in Holders => pc'[p] = pc[p] /\ req'[p] = req[p]
      BY <3>1 DEF TypeOK, Holders
    <3>4. MutexHeld' /\ KeysFresh' /\ FilesKeyed' /\ Decryptable'
      BY <3>1, <3>2 DEF IInv, MutexHeld, KeysFresh, FilesKeyed, Decryptable
    <3>5. CacheCoherent'
      BY <3>1, <3>3 DEF IInv, CacheCoherent, Holders
    <3>6. SealedWithKey' /\ SealedAgainstCurrent'
      BY <3>1, <3>2, <3>3 DEF IInv, SealedWithKey, SealedAgainstCurrent, Holders, FileOf
    <3>7. ForgottenEmpty'
      BY <3>1, <3>2, <3>3 DEF IInv, ForgottenEmpty, Holders
    <3> QED BY <3>4, <3>5, <3>6, <3>7 DEF IInv
  <2>2. ASSUME NEW r \in Reqs, GetSecret(r) PROVE IInv'
    <3>1. /\ mu = NoReq /\ UNCHANGED <<files, mu>> /\ req[r].c \in Clusters
          /\ pc'[r] \notin Holders /\ \A q \in Reqs : q # r => pc'[q] = pc[q]
      BY <2>2, ActiveRequest DEF GetSecret, Enters, Respond, Goto, Holders, TypeOK
    <3>2. \/ VaultKey(req[r].c) \/ VaultKeyFails(req[r].c)
          \/ UNCHANGED <<cache, keyring, nextKey>>
      BY <2>2 DEF GetSecret
    <3> QED BY <3>1, <3>2, EntersAndLeaves, VaultKeyKeeps DEF IInv
  <2>3. ASSUME NEW r \in Reqs, SetSecret(r) PROVE IInv'
    <3>1. /\ mu = NoReq /\ pc[r] = "want" /\ UNCHANGED <<files, req>>
          /\ req[r].op \in Writes /\ req[r].c \in Clusters
      BY <2>3, ActiveRequest DEF SetSecret, Enters
    <3>2. \A q \in Reqs : pc[q] \notin Holders
      BY <3>1, MutexFree DEF IInv
    <3>3. KeysFresh' /\ CacheCoherent' /\ FilesKeyed' /\ Decryptable'
      BY <2>3, <3>1, VaultKeyKeeps DEF SetSecret
    <3>4. CASE pc'[r] = "done"
      BY <2>3, <3>1, <3>3, <3>4, EntersAndLeaves DEF SetSecret, Respond, Goto, TypeOK, Holders, IInv
    <3>5. CASE pc'[r] # "done"
      <4>1. /\ VaultKey(req[r].c) /\ mu' = r /\ Goto(r, "seal")
            /\ got' = [got EXCEPT ![r] = [ver |-> CurrentVersion(FileOf(r)) + 1,
                                          key |-> KeyFor(req[r].c)]]
            /\ req[r].op = "cas" => req[r].cas = CurrentVersion(FileOf(r))
        BY <2>3, <3>5 DEF SetSecret, Respond, TypeOK
      <4>2. pc'[r] = "seal" /\ \A q \in Reqs : q # r => pc'[q] = pc[q]
        BY <4>1 DEF Goto, TypeOK
      <4>3. MutexHeld' /\ ForgottenEmpty'
        BY <3>2, <4>1, <4>2, OneHolds DEF Holders
      <4>4. KeyFor(req[r].c) # NoKey /\ keyring'[req[r].c] = KeyFor(req[r].c)
        BY <3>1, <4>1, VaultKeyInv DEF TypeOK
      <4>5. SealedWithKey'
        BY <3>1, <3>2, <4>1, <4>2, <4>4 DEF SealedWithKey, Holders, TypeOK
      <4>6. SealedAgainstCurrent'
        <5>1. FileOf(r)' = FileOf(r)
          BY <3>1 DEF FileOf
        <5>2. CurrentVersion(FileOf(r))' = CurrentVersion(FileOf(r))
          BY <5>1 DEF CurrentVersion
        <5>3. got'[r].ver = CurrentVersion(FileOf(r)) + 1
          BY <4>1 DEF TypeOK
        <5> QED BY <3>1, <3>2, <4>1, <4>2, <5>2, <5>3 DEF SealedAgainstCurrent, Holders
      <4> QED BY <3>3, <4>3, <4>5, <4>6 DEF IInv
    <3> QED BY <3>4, <3>5
  <2>4. ASSUME NEW r \in Reqs, WriteFile(r) PROVE IInv'
    <3>1. /\ pc[r] = "seal" /\ mu' = NoReq /\ UNCHANGED <<keyring, cache, nextKey, req>>
          /\ pc'[r] \notin Holders /\ \A q \in Reqs : q # r => pc'[q] = pc[q]
      BY <2>4 DEF WriteFile, Respond, Goto, Holders, TypeOK
    <3>2. MutexHeld' /\ SealedWithKey' /\ SealedAgainstCurrent' /\ ForgottenEmpty'
      BY <3>1, Releases DEF Holders
    <3>3. KeysFresh' /\ CacheCoherent'
      <4>1. \A q \in Reqs : pc[q] # "forget"
        BY <3>1, MutexExclusive DEF IInv, Holders
      <4> QED BY <3>1, <4>1 DEF IInv, KeysFresh, CacheCoherent
    <3>4. FilesKeyed' /\ Decryptable'
      <4>1. Sealed(r).key = keyring[req[r].c] /\ Sealed(r).key # NoKey
        BY <3>1 DEF IInv, SealedWithKey, Sealed
      <4>2. \/ UNCHANGED files
            \/ files' = [files EXCEPT ![req[r].c][req[r].p] = Sealed(r)]
        BY <2>4 DEF WriteFile, Install
      <4>3. \A c \in Clusters, p \in Paths :
               \/ files'[c][p] = files[c][p]
               \/ c = req[r].c /\ files'[c][p] = Sealed(r)
        BY <4>2 DEF TypeOK
      <4> QED BY <3>1, <4>1, <4>3 DEF IInv, FilesKeyed, Decryptable
    <3> QED BY <3>2, <3>3, <3>4 DEF IInv
  <2>5. ASSUME NEW r \in Reqs, ReportVersion(r) PROVE IInv'
    <3>1. /\ mu = NoReq /\ UNCHANGED <<files, keyring, cache, nextKey, mu>>
          /\ pc'[r] \notin Holders /\ \A q \in Reqs : q # r => pc'[q] = pc[q]
      BY <2>5 DEF ReportVersion, Respond, Holders, TypeOK
    <3>2. KeysFresh' /\ CacheCoherent' /\ FilesKeyed' /\ Decryptable'
      BY <3>1, EntersAndLeaves DEF IInv, KeysFresh, CacheCoherent, FilesKeyed, Decryptable
    <3> QED BY <3>1, <3>2, EntersAndLeaves DEF IInv
  <2>6. ASSUME NEW r \in Reqs, ListSecrets(r) PROVE IInv'
    <3>1. /\ mu = NoReq /\ UNCHANGED <<files, keyring, cache, nextKey, mu>>
          /\ pc'[r] \notin Holders /\ \A q \in Reqs : q # r => pc'[q] = pc[q]
      BY <2>6 DEF ListSecrets, Enters, Respond, Holders, TypeOK
    <3>2. KeysFresh' /\ CacheCoherent' /\ FilesKeyed' /\ Decryptable'
      BY <3>1, EntersAndLeaves DEF IInv, KeysFresh, CacheCoherent, FilesKeyed, Decryptable
    <3> QED BY <3>1, <3>2, EntersAndLeaves DEF IInv
  <2>7. ASSUME NEW r \in Reqs, SetArchived(r) PROVE IInv'
    <3>1. /\ mu = NoReq /\ UNCHANGED <<keyring, cache, nextKey, mu>>
          /\ pc'[r] \notin Holders /\ \A q \in Reqs : q # r => pc'[q] = pc[q]
      BY <2>7 DEF SetArchived, Enters, Respond, Holders, TypeOK
    <3>2. KeysFresh' /\ CacheCoherent'
      BY <3>1, EntersAndLeaves DEF IInv, KeysFresh, CacheCoherent
    <3>3. /\ pc[r] # "idle" /\ FileOf(r) \in File \cup {NoFile}
      BY <2>7, ActiveRequest DEF SetArchived, Enters
    <3>4. \/ UNCHANGED files
          \/ /\ FileOf(r) # NoFile
             /\ \E f \in File : f.key = FileOf(r).key /\ Install(r, f)
      <4>1. \A a \in BOOLEAN : FileOf(r) # NoFile =>
               LET f == [FileOf(r) EXCEPT !.archived = a]
               IN f \in File /\ f.key = FileOf(r).key
        BY <3>3 DEF File
      <4> QED BY <2>7, <4>1 DEF SetArchived
    <3>5. \A c \in Clusters, p \in Paths : files'[c][p] # NoFile =>
             files[c][p] # NoFile /\ files'[c][p].key = files[c][p].key
      <4>1. CASE UNCHANGED files
        BY <4>1
      <4>2. ASSUME FileOf(r) # NoFile,
                   NEW f \in File, f.key = FileOf(r).key, Install(r, f)
            PROVE  \A c \in Clusters, p \in Paths : files'[c][p] # NoFile =>
                      files[c][p] # NoFile /\ files'[c][p].key = files[c][p].key
        BY <4>2 DEF Install, FileOf, TypeOK
      <4> QED BY <3>4, <4>1, <4>2
    <3>6. FilesKeyed' /\ Decryptable'
      BY <3>1, <3>5 DEF IInv, FilesKeyed, Decryptable
    <3> QED BY <3>1, <3>2, <3>6, EntersAndLeaves DEF IInv
  <2>8. ASSUME NEW r \in Reqs, DeleteSecret(r) PROVE IInv'
    <3>1. /\ mu = NoReq /\ UNCHANGED <<keyring, cache, nextKey, mu>>
          /\ pc'[r] \notin Holders /\ \A q \in Reqs : q # r => pc'[q] = pc[q]
      BY <2>8 DEF DeleteSecret, Enters, Respond, Holders, TypeOK
    <3>2. KeysFresh' /\ CacheCoherent'
      BY <3>1, EntersAndLeaves DEF IInv, KeysFresh, CacheCoherent
    <3>3. \A c \in Clusters, p \in Paths : files'[c][p] \in {NoFile, files[c][p]}
      BY <2>8 DEF DeleteSecret, Install, TypeOK
    <3>4. FilesKeyed' /\ Decryptable'
      BY <3>1, <3>3 DEF IInv, FilesKeyed, Decryptable
    <3> QED BY <3>1, <3>2, <3>4, EntersAndLeaves DEF IInv
  <2>9. ASSUME NEW r \in Reqs, Unlock(r) PROVE IInv'
    <3>1. /\ mu = NoReq /\ UNCHANGED <<files, mu>> /\ req[r].c \in Clusters
          /\ pc'[r] \notin Holders /\ \A q \in Reqs : q # r => pc'[q] = pc[q]
      BY <2>9, ActiveRequest DEF Unlock, Enters, Respond, Holders, TypeOK
    <3>2. VaultKey(req[r].c) \/ VaultKeyFails(req[r].c)
      BY <2>9 DEF Unlock
    <3> QED BY <3>1, <3>2, EntersAndLeaves, VaultKeyKeeps DEF IInv
  <2>10. ASSUME NEW r \in Reqs, DeleteCluster(r) PROVE IInv'
    <3>1. /\ mu = NoReq /\ mu' = r /\ UNCHANGED <<files, keyring, cache, nextKey, req>>
          /\ pc'[r] = "remove" /\ \A q \in Reqs : q # r => pc'[q] = pc[q]
      BY <2>10 DEF DeleteCluster, Enters, Goto, TypeOK
    <3>2. \A q \in Reqs : pc[q] \notin Holders
      BY <3>1, MutexFree DEF IInv
    <3>3. MutexHeld' /\ SealedWithKey' /\ SealedAgainstCurrent' /\ ForgottenEmpty'
      BY <3>1, <3>2, OneHolds DEF Holders
    <3>4. KeysFresh' /\ CacheCoherent' /\ FilesKeyed' /\ Decryptable'
      BY <3>1, <3>2 DEF IInv, KeysFresh, CacheCoherent, FilesKeyed, Decryptable, Holders
    <3> QED BY <3>3, <3>4 DEF IInv
  <2>11. ASSUME NEW r \in Reqs, NEW p \in Paths, RemoveEntry(r, p) PROVE IInv'
    <3>1. /\ pc[r] = "remove" /\ mu' = mu /\ UNCHANGED <<keyring, cache, nextKey, req, pc, got>>
          /\ \A c \in Clusters, q \in Paths : files'[c][q] \in {NoFile, files[c][q]}
      BY <2>11 DEF RemoveEntry, TypeOK
    <3>2. mu = r /\ \A q \in Reqs : q # r => pc[q] \notin Holders
      BY <3>1, MutexExclusive DEF IInv, Holders
    <3>3. MutexHeld' /\ SealedWithKey' /\ SealedAgainstCurrent' /\ ForgottenEmpty'
      BY <3>1, <3>2, OneHolds DEF Holders
    <3>4. KeysFresh' /\ CacheCoherent' /\ FilesKeyed' /\ Decryptable'
      BY <3>1 DEF IInv, KeysFresh, CacheCoherent, FilesKeyed, Decryptable
    <3> QED BY <3>3, <3>4 DEF IInv
  <2>12. ASSUME NEW r \in Reqs, KeyringDelete(r) PROVE IInv'
    <3>1. /\ pc[r] = "remove" /\ mu' = mu /\ UNCHANGED <<files, cache, nextKey, req>>
          /\ \A p \in Paths : files[req[r].c][p] = NoFile
          /\ keyring' = [keyring EXCEPT ![req[r].c] = NoKey]
          /\ pc'[r] = "forget" /\ \A q \in Reqs : q # r => pc'[q] = pc[q]
          /\ req[r].c \in Clusters
      BY <2>12, ActiveRequest DEF KeyringDelete, Emptied, Goto, TypeOK
    <3>2. mu = r /\ \A q \in Reqs : q # r => pc[q] \notin Holders
      BY <3>1, MutexExclusive DEF IInv, Holders
    <3>3. MutexHeld' /\ SealedWithKey' /\ SealedAgainstCurrent'
      BY <3>1, <3>2, OneHolds DEF Holders
    <3>4. ForgottenEmpty'
      BY <3>1, <3>2 DEF ForgottenEmpty, Holders, TypeOK
    <3>5. KeysFresh'
      BY <3>1 DEF IInv, KeysFresh, TypeOK, NoKey, Keys
    <3>6. CacheCoherent'
      BY <3>1, <3>2 DEF IInv, CacheCoherent, Holders, TypeOK
    <3>7. FilesKeyed' /\ Decryptable'
      BY <3>1 DEF IInv, FilesKeyed, Decryptable, TypeOK
    <3> QED BY <3>3, <3>4, <3>5, <3>6, <3>7 DEF IInv
  <2>13. ASSUME NEW r \in Reqs, DeleteClusterFails(r) PROVE IInv'
    <3>1. /\ pc[r] = "remove" /\ mu' = NoReq /\ UNCHANGED <<files, keyring, cache, nextKey, req>>
          /\ pc'[r] \notin Holders /\ \A q \in Reqs : q # r => pc'[q] = pc[q]
      BY <2>13 DEF DeleteClusterFails, Respond, Holders, TypeOK
    <3>2. MutexHeld' /\ SealedWithKey' /\ SealedAgainstCurrent' /\ ForgottenEmpty'
      BY <3>1, Releases DEF Holders
    <3>3. \A q \in Reqs : pc[q] # "forget"
      BY <3>1, MutexExclusive DEF IInv, Holders
    <3>4. KeysFresh' /\ CacheCoherent' /\ FilesKeyed' /\ Decryptable'
      BY <3>1, <3>3 DEF IInv, KeysFresh, CacheCoherent, FilesKeyed, Decryptable
    <3> QED BY <3>2, <3>4 DEF IInv
  <2>14. ASSUME NEW r \in Reqs, ForgetKey(r) PROVE IInv'
    <3>1. /\ pc[r] = "forget" /\ mu' = NoReq /\ UNCHANGED <<files, keyring, nextKey, req>>
          /\ cache' = [cache EXCEPT ![req[r].c] = NoKey]
          /\ pc'[r] \notin Holders /\ \A q \in Reqs : q # r => pc'[q] = pc[q]
      BY <2>14 DEF ForgetKey, Respond, Holders, TypeOK
    <3>2. MutexHeld' /\ SealedWithKey' /\ SealedAgainstCurrent' /\ ForgottenEmpty'
      BY <3>1, Releases DEF Holders
    <3>3. \A q \in Reqs : q # r => pc[q] # "forget"
      BY <3>1, MutexExclusive DEF IInv, Holders
    <3>4. CacheCoherent'
      BY <3>1, <3>3 DEF IInv, CacheCoherent, TypeOK
    <3>5. KeysFresh' /\ FilesKeyed' /\ Decryptable'
      BY <3>1 DEF IInv, KeysFresh, FilesKeyed, Decryptable
    <3> QED BY <3>2, <3>4, <3>5 DEF IInv
  <2>15. ASSUME NEW r \in Reqs, Return(r) PROVE IInv'
    <3>1. /\ pc[r] = "done" /\ pc' = [pc EXCEPT ![r] = "idle"]
          /\ req' = [req EXCEPT ![r] = NoReq] /\ got' = [got EXCEPT ![r] = NoLocals]
          /\ UNCHANGED <<files, keyring, nextKey, cache, mu>>
      BY <2>15 DEF Return
    <3>2. \A p \in Reqs : pc'[p] \in Holders <=> pc[p] \in Holders
      BY <3>1 DEF TypeOK, Holders
    <3>3. \A p \in Reqs : pc[p] \in Holders =>
             pc'[p] = pc[p] /\ req'[p] = req[p] /\ got'[p] = got[p]
      BY <3>1 DEF TypeOK, Holders
    <3>4. MutexHeld' /\ KeysFresh' /\ FilesKeyed' /\ Decryptable'
      BY <3>1, <3>2 DEF IInv, MutexHeld, KeysFresh, FilesKeyed, Decryptable
    <3>5. CacheCoherent'
      BY <3>1, <3>3 DEF IInv, CacheCoherent, Holders
    <3>6. SealedWithKey' /\ SealedAgainstCurrent'
      BY <3>1, <3>2, <3>3 DEF IInv, SealedWithKey, SealedAgainstCurrent, Holders, FileOf
    <3>7. ForgottenEmpty'
      BY <3>1, <3>2, <3>3 DEF IInv, ForgottenEmpty, Holders
    <3> QED BY <3>4, <3>5, <3>6, <3>7 DEF IInv
  <2>16. CASE Crash
    <3>1. MutexHeld' /\ SealedWithKey' /\ SealedAgainstCurrent' /\ ForgottenEmpty'
      BY <2>16, NobodyHolds DEF Crash, Holders
    <3> QED BY <2>16, <3>1 DEF Crash, IInv, KeysFresh, CacheCoherent, FilesKeyed, Decryptable
  <2>17. CASE Restart
    BY <2>17 DEF Restart, IInv, MutexHeld, KeysFresh, CacheCoherent, FilesKeyed, Decryptable,
       SealedWithKey, SealedAgainstCurrent, ForgottenEmpty, FileOf
  <2>18. CASE UNCHANGED vars
    BY <2>18 DEF vars, IInv, MutexHeld, KeysFresh, CacheCoherent, FilesKeyed, Decryptable,
       SealedWithKey, SealedAgainstCurrent, ForgottenEmpty, FileOf
  <2> QED
    BY <2>1, <2>2, <2>3, <2>4, <2>5, <2>6, <2>7, <2>8, <2>9, <2>10, <2>11, <2>12,
       <2>13, <2>14, <2>15, <2>16, <2>17, <2>18
       DEF Next, Acquire, Holding
<1>3. QED
  BY <1>1, <1>2, TypeCorrect, PTL DEF Spec

(* No kill, restart, failure or interleaving leaves a secret that cannot   *)
(* be decrypted (setSecret, DeleteCluster, vaultKey).                      *)
THEOREM AlwaysDecryptable == Spec => []Decryptable
BY Invariant, PTL DEF IInv

(* The version test of setSecret still holds when its file is renamed into *)
(* place.                                                                  *)
THEOREM CompareAndSetAtomic == Spec => []SealedAgainstCurrent
BY Invariant, PTL DEF IInv

----------------------------------------------------------------------------
(* What a step does to the files.                                          *)

\* Replacing the file of (c, p) by f and touching no other.
Replaces(c, p, f) ==
    \A d \in Clusters, q \in Paths :
        files'[d][q] = IF d = c /\ q = p THEN f ELSE files[d][q]

(* writeFile and os.Remove change the file that the request names only.    *)
LEMMA InstallReplaces ==
  ASSUME TypeOK, NEW r \in Reqs, pc[r] # "idle", NEW f, Install(r, f)
  PROVE  Replaces(req[r].c, req[r].p, f)
BY ActiveRequest DEF Install, Replaces, TypeOK

\* A write of the next version, a change of the archived flag, or a removal.
FileStep(c, p) ==
    LET f == files[c][p] IN
    \/ \E g \in File : /\ Replaces(c, p, g)
                       /\ g.version = CurrentVersion(f) + 1
                       /\ g.archived = FALSE
    \/ \E g \in File : /\ Replaces(c, p, g)
                       /\ f # NoFile
                       /\ g.version = f.version /\ g.val = f.val
    \/ Replaces(c, p, NoFile)

(* Every step leaves the files alone or does one of these to one secret.   *)
LEMMA FileSteps ==
  ASSUME TypeOK, IInv, [Next]_vars
  PROVE  UNCHANGED files \/ \E c \in Clusters, p \in Paths : FileStep(c, p)
<1>1. ASSUME NEW r \in Reqs, WriteFile(r)
      PROVE  UNCHANGED files \/ FileStep(req[r].c, req[r].p)
  <2>1. pc[r] = "seal" /\ Sealed(r) \in File
    BY <1>1, ActiveRequest DEF WriteFile, Sealed, TypeOK, Locals, File
  <2>2. Sealed(r).version = CurrentVersion(FileOf(r)) + 1 /\ Sealed(r).archived = FALSE
    BY <2>1 DEF IInv, SealedAgainstCurrent, Sealed
  <2>3. UNCHANGED files \/ Replaces(req[r].c, req[r].p, Sealed(r))
    BY <1>1, <2>1, InstallReplaces DEF WriteFile
  <2> QED BY <2>1, <2>2, <2>3 DEF FileStep, FileOf
<1>2. ASSUME NEW r \in Reqs, SetArchived(r)
      PROVE  UNCHANGED files \/ FileStep(req[r].c, req[r].p)
  <2>1. pc[r] # "idle" /\ FileOf(r) \in File \cup {NoFile}
    BY <1>2, ActiveRequest DEF SetArchived, Enters
  <2>2. \A a \in BOOLEAN : FileOf(r) # NoFile =>
           LET g == [FileOf(r) EXCEPT !.archived = a]
           IN g \in File /\ g.version = FileOf(r).version /\ g.val = FileOf(r).val
    BY <2>1 DEF File
  <2>3. \/ UNCHANGED files
        \/ /\ FileOf(r) # NoFile
           /\ \E a \in BOOLEAN :
                 Replaces(req[r].c, req[r].p, [FileOf(r) EXCEPT !.archived = a])
    BY <1>2, <2>1, InstallReplaces DEF SetArchived
  <2> QED BY <2>2, <2>3 DEF FileStep, FileOf
<1>3. ASSUME NEW r \in Reqs, DeleteSecret(r)
      PROVE  UNCHANGED files \/ FileStep(req[r].c, req[r].p)
  BY <1>3, InstallReplaces DEF DeleteSecret, Enters, FileStep
<1>4. ASSUME NEW r \in Reqs, NEW p \in Paths, RemoveEntry(r, p)
      PROVE  FileStep(req[r].c, p)
  BY <1>4, ActiveRequest DEF RemoveEntry, FileStep, Replaces, TypeOK
<1>5. \A r \in Reqs : pc[r] # "idle" => req[r].c \in Clusters /\ req[r].p \in Paths
  BY ActiveRequest
<1> QED BY <1>1, <1>2, <1>3, <1>4, <1>5
        DEF Next, Acquire, Holding, vars, durable, ServeHTTP, GetSecret, SetSecret,
            WriteFile, ReportVersion, ListSecrets, SetArchived, DeleteSecret, Unlock,
            DeleteCluster, RemoveEntry, KeyringDelete, DeleteClusterFails, ForgetKey,
            Return, Crash, Restart, Enters

(* No step gives a secret another value under a version that a client may  *)
(* already have seen (setSecret counts up, setArchived keeps the value).   *)
THEOREM VersionsIdentifyValues == Spec => VersionIdentifiesValue
<1>1. ASSUME TypeOK, TypeOK', IInv, [Next]_vars,
             NEW c \in Clusters, NEW p \in Paths,
             files[c][p] # NoFile, files'[c][p] # NoFile
      PROVE  \/ /\ files'[c][p].val = files[c][p].val
                /\ CurrentVersion(files'[c][p]) >= CurrentVersion(files[c][p])
             \/ CurrentVersion(files'[c][p]) > CurrentVersion(files[c][p])
  <2>1. files[c][p] \in File /\ files'[c][p] \in File
    BY <1>1 DEF TypeOK
  <2>2. CASE files'[c][p] = files[c][p]
    BY <2>1, <2>2, VersionType
  <2>3. CASE files'[c][p] # files[c][p]
    <3>1. FileStep(c, p)
      <4>1. PICK d \in Clusters, q \in Paths : FileStep(d, q)
        BY <1>1, <2>3, FileSteps
      <4>2. d = c /\ q = p
        BY <4>1, <2>3 DEF FileStep, Replaces
      <4> QED BY <4>1, <4>2
    <3>2. ASSUME NEW g \in File, Replaces(c, p, g),
                 g.version = CurrentVersion(files[c][p]) + 1
          PROVE  CurrentVersion(files'[c][p]) > CurrentVersion(files[c][p])
      <4>1. files'[c][p] = g
        BY <3>2 DEF Replaces
      <4>2. CurrentVersion(files[c][p]) \in Nat /\ CurrentVersion(files[c][p]) > 0
        BY <1>1, <2>1, VersionType
      <4> QED BY <3>2, <4>1, <4>2, <1>1 DEF CurrentVersion
    <3>3. ASSUME NEW g \in File, Replaces(c, p, g),
                 g.version = files[c][p].version, g.val = files[c][p].val
          PROVE  /\ files'[c][p].val = files[c][p].val
                 /\ CurrentVersion(files'[c][p]) = CurrentVersion(files[c][p])
      BY <3>3, <1>1 DEF Replaces, CurrentVersion
    <3>4. ~Replaces(c, p, NoFile)
      BY <1>1 DEF Replaces
    <3> QED BY <2>1, <3>1, <3>2, <3>3, <3>4, VersionType DEF FileStep
  <2> QED BY <2>2, <2>3
<1>2. TypeOK /\ TypeOK' /\ IInv /\ [Next]_vars =>
        [\A c \in Clusters, p \in Paths :
            (files[c][p] # NoFile /\ files'[c][p] # NoFile) =>
               \/ /\ files'[c][p].val = files[c][p].val
                  /\ CurrentVersion(files'[c][p]) >= CurrentVersion(files[c][p])
               \/ CurrentVersion(files'[c][p]) > CurrentVersion(files[c][p])]_vars
  BY <1>1
<1> QED BY <1>2, TypeCorrect, Invariant, PTL DEF Spec, VersionIdentifiesValue

----------------------------------------------------------------------------
(* Refinement.                                                             *)

\* What a client sees of a file that can be decrypted.
Seen(f) == IF f = NoFile THEN NoFile
           ELSE [version |-> CurrentVersion(f), archived |-> f.archived, val |-> f.val]

(* Every file can be decrypted, so that clients see its version.           *)
LEMMA ReadableIsSeen ==
  ASSUME IInv, NEW c \in Clusters, NEW p \in Paths
  PROVE  Readable(c, p) = Seen(files[c][p])
BY DEF IInv, Decryptable, Readable, Seen

(* A file is seen as a secret of the abstract store, and none as none.     *)
LEMMA SeenType ==
  ASSUME NEW f \in File \cup {NoFile}
  PROVE  /\ Seen(f) \in View \cup {NoFile}
         /\ Seen(f) = NoFile <=> f = NoFile
BY VersionType, NoFileAssumption DEF Seen, View, File

(* Replacing one file replaces one secret of the abstract store.           *)
LEMMA ReplacesSeen ==
  ASSUME TypeOK, IInv, IInv', NEW c \in Clusters, NEW p \in Paths, NEW f,
         Replaces(c, p, f)
  PROVE  kvBar' = [kvBar EXCEPT ![c][p] = Seen(f)]
<1>1. \A d \in Clusters, q \in Paths : Readable(d, q) = Seen(files[d][q])
  BY ReadableIsSeen
<1>2. \A d \in Clusters, q \in Paths : Readable(d, q)' = Seen(files'[d][q])
  BY DEF IInv, Decryptable, Readable, Seen, CurrentVersion
<1>3. \A d \in Clusters, q \in Paths :
         Readable(d, q)' = IF d = c /\ q = p THEN Seen(f) ELSE Readable(d, q)
  BY <1>1, <1>2 DEF Replaces
<1> QED BY <1>3 DEF kvBar

(* The file store implements the versioned map: a rename is a Put or a     *)
(* SetArchived, a removal is a Remove, and key handling, failures, kills   *)
(* and restarts are invisible.                                             *)
THEOREM Refinement == Spec => ImplementsKV
<1>1. Init /\ TypeOK /\ IInv => KV!Init
  <2> SUFFICES ASSUME TypeOK, IInv PROVE KV!Init
    OBVIOUS
  <2>1. \A c \in Clusters, p \in Paths : Readable(c, p) \in View \cup {NoFile}
    BY ReadableIsSeen, SeenType DEF TypeOK
  <2> QED BY <2>1 DEF KV!Init, KV!Secret, kvBar, View
<1>2. TypeOK /\ TypeOK' /\ IInv /\ IInv' /\ [Next]_vars => [KV!Next]_kvBar
  <2> SUFFICES ASSUME TypeOK, TypeOK', IInv, IInv', [Next]_vars
               PROVE  [KV!Next]_kvBar
    OBVIOUS
  <2>1. CASE UNCHANGED files
    <3>1. \A c \in Clusters, p \in Paths : Readable(c, p)' = Readable(c, p)
      BY <2>1, ReadableIsSeen DEF IInv, Decryptable, Readable, Seen, CurrentVersion
    <3> QED BY <3>1 DEF kvBar
  <2>2. ASSUME NEW c \in Clusters, NEW p \in Paths, FileStep(c, p) PROVE KV!Next
    <3> DEFINE f == files[c][p]
    <3>1. /\ f \in File \cup {NoFile}
          /\ kvBar[c][p] = Seen(f)
          /\ kvBar[c][p] = NoFile <=> f = NoFile
      BY ReadableIsSeen, SeenType DEF TypeOK, kvBar
    <3>2. ASSUME NEW g \in File, Replaces(c, p, g),
                 g.version = CurrentVersion(f) + 1, g.archived = FALSE
          PROVE  \E v \in Vals : KV!Put(c, p, v)
      <4>1. KV!VersionOf(kvBar[c][p]) = CurrentVersion(f)
        BY <3>1 DEF KV!VersionOf, Seen, CurrentVersion
      <4>2. CurrentVersion(f) \in Nat
        BY <3>1, VersionType
      <4>3. Seen(g) = [version |-> KV!VersionOf(kvBar[c][p]) + 1, archived |-> FALSE,
                       val |-> g.val]
        <5>1. g # NoFile /\ g.version > 0 /\ g.version = CurrentVersion(f) + 1
          BY <3>2, <4>2, NoFileAssumption
        <5>2. CurrentVersion(g) = g.version
          BY <5>1 DEF CurrentVersion, File
        <5>3. Seen(g) = [version |-> g.version, archived |-> FALSE, val |-> g.val]
          BY <3>2, <5>1, <5>2 DEF Seen
        <5> QED BY <4>1, <5>1, <5>3
      <4>4. g.val \in Vals
        BY DEF File
      <4> QED BY <3>2, <4>3, <4>4, ReplacesSeen DEF KV!Put
    <3>3. ASSUME NEW g \in File, Replaces(c, p, g), f # NoFile,
                 g.version = f.version, g.val = f.val
          PROVE  \E a \in BOOLEAN : KV!SetArchived(c, p, a)
      <4>1. g.archived \in BOOLEAN /\ g # NoFile
        BY NoFileAssumption DEF File
      <4>2. Seen(g) = [kvBar[c][p] EXCEPT !.archived = g.archived]
        BY <3>1, <3>3, <4>1 DEF Seen, CurrentVersion
      <4> QED BY <3>1, <3>3, <4>1, <4>2, ReplacesSeen DEF KV!SetArchived
    <3>4. ASSUME Replaces(c, p, NoFile) PROVE KV!Remove(c, p)
      BY <3>4, ReplacesSeen DEF KV!Remove, Seen
    <3> QED BY <2>2, <3>2, <3>3, <3>4 DEF FileStep, KV!Next
  <2> QED BY <2>1, <2>2, FileSteps
<1> QED BY <1>1, <1>2, TypeCorrect, Invariant, PTL DEF Spec, KV!Spec, ImplementsKV
=============================================================================
