--------------------------- MODULE CloudBootstrap ---------------------------
(***************************************************************************)
(* What the OpenTofu provider makes for a new cloud cluster, in this       *)
(* order: a signing key in a secret backend, component secrets, and the    *)
(* snapshot that Netsy begins with, which holds a token that the key has   *)
(* signed (internal/tfprovider).                                           *)
(*                                                                         *)
(* Applies may overlap, each with a state of its own, be killed at any     *)
(* step and lose the answers of the cloud; a cluster may begin to write    *)
(* below the prefix of the snapshot at any time.  A value is the number of *)
(* the apply that generated it.                                            *)
(***************************************************************************)
EXTENDS Naturals, Sequences

CONSTANTS
    Applies,
    MaxRuns     \* bound: applies ever started

VARIABLES
    backend,    \* the secret backend of the cluster
    kind,       \* the key resource that is applied; the seed needs "nonce"
    secret,     \* name -> [made, versions] in the backend
    object,     \* the snapshot in the bucket
    live,       \* the prefix of the snapshot holds other objects
    ca,         \* Nstance has published its CA certificate
    state,      \* apply -> what its OpenTofu state records
    apply,      \* apply -> where it stands; history, data: the prefix held
                \* other objects when the token was signed
    runs,
    rotated     \* somebody has put another version of the key

bvars == <<backend, kind, secret, object, live, ca, state, apply, runs, rotated>>
world == <<backend, kind, live, ca, rotated>>

Foreign == 0    \* a value that is no key
NoKey == [version |-> 0, fingerprint |-> 0]
NoObject == [version |-> 0, key |-> NoKey, token |-> 0]
Resting == [at |-> "resting"]

Init ==
    /\ backend \in {"manager", "parameter", "google"}
    /\ kind \in {"ca", "sa", "nonce"}
    /\ \E v \in {<<>>, <<Foreign>>} :
         secret = [n \in {"key", "component"} |->
            [made |-> n = "key" /\ v # <<>>, versions |-> IF n = "key" THEN v ELSE <<>>]]
    /\ object = NoObject /\ live \in BOOLEAN /\ ca = FALSE
    /\ state = [p \in Applies |-> [key |-> NoKey, seed |-> 0]]
    /\ apply = [p \in Applies |-> Resting]
    /\ runs = 0 /\ rotated = FALSE

At(p, at) == apply[p].at = at
Goto(p, at) == apply' = [apply EXCEPT ![p].at = at]
Fail(p) == apply' = [apply EXCEPT ![p] = Resting]
Name(p) == apply[p].name
Versions(n) == secret[n].versions
Recorded(p) == state[p].key

\* Metadata: the current version.
Current(n) == Len(Versions(n))

----------------------------------------------------------------------------
(* The key resources.                                                      *)

Start(p, at) ==
    /\ At(p, "resting") /\ runs < MaxRuns /\ runs' = runs + 1
    /\ apply' = [apply EXCEPT ![p] = [at |-> at, no |-> runs + 1, name |-> "key",
                                      token |-> 0, data |-> FALSE]]
    /\ UNCHANGED <<world, secret, object, state>>

Create(p) == Recorded(p) = NoKey /\ Start(p, "put")

WorkloadCAKey(p) == kind = "ca" /\ Create(p)
ServiceAccountKey(p) == kind = "sa" /\ Create(p)
RegistrationKey(p) == kind = "nonce" /\ Create(p)

\* Read: the recorded version must be the current one; loss is an error.
Read(p) ==
    /\ Recorded(p) # NoKey
    /\ Recorded(p).version = Current("key")
    /\ state[p].seed # 0 => object.version = state[p].seed /\ object.key = Recorded(p)
    /\ Start(p, IF kind = "nonce" /\ state[p].seed = 0 THEN "look" ELSE "ok")

\* Mutant: what was generated is recorded, also when another one was adopted.
MutantWinner(p, n, versions) == apply[p].no
\* CreateOrAdopt returns the value that the backend has.
Winner(p, n, versions) == versions[Len(versions)]

\* The version and fingerprint of a key go to the state; a component secret
\* is validated and leaves nothing there.
Adopt(p, versions) ==
    LET n == Name(p)  v == Winner(p, n, versions)
    IN  IF v = Foreign THEN Fail(p) /\ UNCHANGED state
        ELSE IF n = "key"
        THEN /\ state' = [state EXCEPT ![p].key =
                            [version |-> Len(versions), fingerprint |-> v]]
             /\ Goto(p, IF kind = "nonce" THEN "look" ELSE "ok")
        ELSE Goto(p, "upload") /\ UNCHANGED state

\* A secret of AWS comes with its first version; the answer may be lost.
CreateAtOnce(p) ==
    LET n == Name(p)  new == <<apply[p].no>>
    IN  \/ /\ ~secret[n].made
           /\ secret' = [secret EXCEPT ![n] = [made |-> TRUE, versions |-> new]]
           /\ Adopt(p, new) \/ (Fail(p) /\ UNCHANGED state)
        \/ secret[n].made /\ UNCHANGED secret /\ Adopt(p, Versions(n))

CreateInSecretsManager(p) ==
    /\ At(p, "put") /\ backend = "manager" /\ CreateAtOnce(p)
    /\ UNCHANGED <<world, object, runs>>
CreateInParameterStore(p) ==
    /\ At(p, "put") /\ backend = "parameter" /\ CreateAtOnce(p)
    /\ UNCHANGED <<world, object, runs>>

\* Mutant: an existing secret without a version is filled.
MutantMayFill(n) == Versions(n) = <<>>
\* Only who has created a secret of Google adds its first version.
MayFill(n) == ~secret[n].made

CreateInGoogle(p) ==
    /\ At(p, "put") /\ backend = "google"
    /\ LET n == Name(p)
       IN  \/ /\ MayFill(n) /\ secret' = [secret EXCEPT ![n].made = TRUE]
              /\ Goto(p, "add") \/ Fail(p)
              /\ UNCHANGED state
           \/ /\ ~MayFill(n) /\ UNCHANGED secret
              /\ IF Versions(n) = <<>> THEN Fail(p) /\ UNCHANGED state
                                       ELSE Adopt(p, Versions(n))
    /\ UNCHANGED <<world, object, runs>>

\* After an error the latest version decides, if there is one.
AddGoogleVersion(p) ==
    /\ At(p, "add")
    /\ LET n == Name(p)  all == Append(Versions(n), apply[p].no)
       IN  \/ /\ secret' = [secret EXCEPT ![n].versions = all]
              /\ Adopt(p, all) \/ (Fail(p) /\ UNCHANGED state)
           \/ UNCHANGED secret /\ IF Versions(n) = <<>> THEN Fail(p) /\ UNCHANGED state
                                                        ELSE Adopt(p, Versions(n))
    /\ UNCHANGED <<world, object, runs>>

----------------------------------------------------------------------------
(* createSeed.                                                             *)

\* Mutant: the marker is that of the inputs, without the key.
MutantSeedCompletion(p) == object.key
\* seedCompletion: the inputs of the seed and the identity of the key.
SeedCompletion(p) == Recorded(p)

\* completedSeed: nothing there, a snapshot to adopt, or one to leave alone.
Completed(p, absent, error) ==
    IF object = NoObject THEN absent /\ UNCHANGED state
    ELSE IF object.key = SeedCompletion(p)
    THEN state' = [state EXCEPT ![p].seed = object.version] /\ Goto(p, "ok")
    ELSE error /\ UNCHANGED state

Look(p) ==
    /\ At(p, "look") /\ Completed(p, Goto(p, "empty"), Fail(p))
    /\ UNCHANGED <<world, secret, object, runs>>

\* Mutant: other objects below the prefix do not matter.
MutantIsEmpty(o) == o = NoObject
\* RequireEmpty, of everything below the prefix; what appears there later is not
\* seen.
IsEmpty(o) == o = NoObject /\ ~live

RequireEmpty(p) ==
    /\ At(p, "empty") \/ At(p, "emptyAgain")
    /\ IF IsEmpty(object)
       THEN Goto(p, IF At(p, "empty") THEN "prepare" ELSE "secrets") /\ UNCHANGED state
       ELSE Completed(p, Fail(p), Fail(p))
    /\ UNCHANGED <<world, secret, object, runs>>

\* validateBootstrapScope, resolveSeedPath, netsyseed.Prepare, WriteSnapshot.
Prepare(p) ==
    /\ At(p, "prepare")
    /\ Goto(p, "ca") \/ Fail(p)
    /\ UNCHANGED <<world, secret, object, state, runs>>

\* The CA is awaited; whoever was faster meanwhile is adopted.
WaitPublicCA(p) ==
    /\ At(p, "ca")
    /\ \/ ca /\ Completed(p, Goto(p, "metadata"), Fail(p))
       \/ Fail(p) /\ UNCHANGED state
    /\ UNCHANGED <<world, secret, object, runs>>

CheckKey(p) ==
    /\ At(p, "metadata")
    /\ IF Current("key") = Recorded(p).version THEN Goto(p, "sign") ELSE Fail(p)
    /\ UNCHANGED <<world, secret, object, state, runs>>

\* Mutant: the current version instead of the pinned one.
MutantPinned(p) == Versions("key")[Current("key")]
\* cloudSecretValue.
Pinned(p) == Versions("key")[Recorded(p).version]

Sign(p) ==
    /\ At(p, "sign")
    /\ apply' = [apply EXCEPT ![p].token = Pinned(p), ![p].data = live,
                              ![p].at = "emptyAgain"]
    /\ UNCHANGED <<world, secret, object, state, runs>>

\* Mutant: the snapshot is published first.
MutantAfterEmpty(p) == "upload"
\* ensureComponentSecret, for each secret that the components require.
AfterEmpty(p) == "put"
EnsureComponentSecret(p) ==
    /\ At(p, "secrets")
    /\ apply' = [apply EXCEPT ![p].at = AfterEmpty(p), ![p].name = "component"]
    /\ UNCHANGED <<world, secret, object, state, runs>>

\* Mutant: the object is written whatever there is.
MutantMayUpload(o) == TRUE
\* Upload is create-only, for this one object: If-None-Match, DoesNotExist.
MayUpload(o) == o = NoObject

\* addOperatorBootstrap.
Snapshot(p) == [version |-> apply[p].no, key |-> Recorded(p), token |-> apply[p].token]

Upload(p) ==
    /\ At(p, "upload")
    /\ \/ /\ MayUpload(object) /\ Goto(p, "confirm") /\ UNCHANGED state
          /\ object' = Snapshot(p)
       \/ UNCHANGED object /\ Completed(p, Fail(p), Fail(p))
    /\ UNCHANGED <<world, secret, runs>>

Confirm(p) ==
    /\ At(p, "confirm") /\ Completed(p, Fail(p), Fail(p))
    /\ UNCHANGED <<world, secret, object, runs>>

----------------------------------------------------------------------------

\* The apply ends, or is killed.
End(p) == ~At(p, "resting") /\ Fail(p) /\ UNCHANGED <<world, secret, object, state, runs>>

\* Somebody writes below the prefix: Netsy of a cluster that runs.
DataAppears ==
    /\ ~live /\ live' = TRUE
    /\ UNCHANGED <<backend, kind, secret, object, ca, state, apply, runs, rotated>>

PublishCA ==
    /\ ca' = TRUE
    /\ UNCHANGED <<backend, kind, secret, object, live, state, apply, runs, rotated>>

\* Somebody rotates the key, once.
Rotate ==
    /\ ~rotated /\ Versions("key") \notin {<<>>, <<Foreign>>} /\ rotated' = TRUE
    /\ secret' = [secret EXCEPT !["key"].versions = Append(@, MaxRuns + 1)]
    /\ UNCHANGED <<backend, kind, object, live, ca, state, apply, runs>>

\* As the error message asks: an empty secret is deleted when nobody is at it.
DeleteEmpty(n) ==
    /\ secret[n].made /\ Versions(n) = <<>>
    /\ \A p \in Applies : At(p, "add") => Name(p) # n
    /\ secret' = [secret EXCEPT ![n].made = FALSE]
    /\ UNCHANGED <<world, object, state, apply, runs>>

Next ==
    \/ \E p \in Applies :
         \/ WorkloadCAKey(p) \/ ServiceAccountKey(p) \/ RegistrationKey(p) \/ Read(p)
         \/ CreateInSecretsManager(p) \/ CreateInParameterStore(p)
         \/ CreateInGoogle(p) \/ AddGoogleVersion(p)
         \/ Look(p) \/ RequireEmpty(p) \/ Prepare(p) \/ WaitPublicCA(p)
         \/ CheckKey(p) \/ Sign(p)
         \/ EnsureComponentSecret(p) \/ Upload(p) \/ Confirm(p) \/ End(p)
    \/ DataAppears \/ PublishCA \/ Rotate
    \/ \E n \in {"key", "component"} : DeleteEmpty(n)

Spec == Init /\ [][Next]_bvars

----------------------------------------------------------------------------

TypeOK ==
    /\ runs \in 0..MaxRuns /\ object.version \in 0..MaxRuns
    /\ \A n \in DOMAIN secret : Versions(n) # <<>> => secret[n].made
    /\ \A p \in Applies : state[p].seed \in 0..MaxRuns

\* The fingerprint that a state records is that of the key in the backend
\* under the recorded version, whoever generated it (CreateOrAdopt).
KeyRecorded ==
    \A p \in Applies : Recorded(p) # NoKey =>
        /\ Recorded(p).version \in DOMAIN Versions("key")
        /\ Recorded(p).fingerprint = Versions("key")[Recorded(p).version]

\* Applies never make two versions of a key, whichever backend it is in and
\* whatever was interrupted: only a rotation does (CreateOrAdopt).
OneKey == ~rotated => Current("key") <= 1

\* The snapshot holds a token of the key version that it names, also when the
\* key is rotated meanwhile, and who records the snapshot has recorded that
\* key (createSeed, completedSeed).
SeedMatchesKey ==
    /\ object # NoObject => object.token = Versions("key")[object.key.version]
    /\ \A p \in Applies : state[p].seed # 0 =>
          object.version = state[p].seed /\ object.key = Recorded(p)

\* A cluster that can begin finds the secrets of its components (createSeed).
SecretsBeforeSeed == object # NoObject => Versions("component") # <<>>

\* A snapshot is never replaced, and the apply that publishes one has found the
\* prefix empty after it signed the token: no data that was there by then is
\* joined, however many applies overlap and whenever a cluster begins to write
\* (RequireEmpty, Upload).  What appears between that look and the upload, while
\* the component secrets are made (seed.go:226-238), is not seen.
SeedNeverReplaced ==
    [][/\ object # NoObject => object' = object
       /\ \A p \in Applies :
            object' # object /\ At(p, "upload") /\ apply'[p].at = "confirm"
               => ~apply[p].data]_bvars

\* What "never overwrite live state" (seed.go:241) may be taken for; the look
\* and the upload are two calls, so it does not hold.
NeverBesideData == [][live => object' = object]_bvars

\* Keys, states and the first snapshot agree, and the snapshot stays
\* (cloud_secret_store.go, seed.go).
BootstrapSound ==
    [](KeyRecorded /\ OneKey /\ SeedMatchesKey /\ SecretsBeforeSeed)
      /\ SeedNeverReplaced
=============================================================================
