---------------------------- MODULE StateBucket ----------------------------
(***************************************************************************)
(* The bucket of remote OpenTofu state (internal/tfstate): a command       *)
(* checks it before it generates a stack, and makes sure before it applies *)
(* that the bucket is there, private and encrypted, and of its own OIDC    *)
(* host.  S3 makes and configures a bucket in several calls, a tag says    *)
(* how far it has come; Google makes one in a single call.                 *)
(*                                                                         *)
(* Runs overlap, are killed, and lose answers.  The account's operator may *)
(* make a bucket of that name, tag it, or remove it, the latter while no   *)
(* run is under way.                                                       *)
(***************************************************************************)
EXTENDS FiniteSets, Integers, Sequences

CONSTANTS
    Runs,
    Hosts, NoHost,  \* OIDC hosts; the stack of a cluster has none
    Repeatable,     \* S3 in us-east-1: who makes a bucket that is his own is
                    \* not told that it was there
    MaxRuns         \* bound: runs ever started

VARIABLES
    cloud,   \* "s3" or "gcs"
    bucket,  \* there: whose ("nobody": it is absent), tag: how far Podplane
             \* has come ("none": it is not Podplane's), host: its markers,
             \* notes: tags of the operator, set: what is in force
    run, started,
    origin   \* as the operator made the bucket, or NoBucket

bvars == <<cloud, bucket, run, started, origin>>

\* What hardenS3 sets, in this order.
Steps == <<"versioning", "encryption", "private", "lifecycle">>
Hardened == {Steps[i] : i \in DOMAIN Steps}
Required == {"encryption", "private"}

NoBucket == [there |-> "nobody", tag |-> "none", host |-> NoHost,
             notes |-> {}, set |-> {}]
\* What somebody else may have made.
Foreign ==
    [there : {"us", "them"}, tag : {"none"}, host : Hosts \cup {NoHost},
     notes : {{}}, set : {{}, {"private"}, Required}]

Resting == [at |-> "resting", op |-> "ensure", host |-> NoHost, made |-> FALSE,
            tags |-> <<>>, step |-> 0]

Init ==
    /\ cloud \in {"s3", "gcs"}
    /\ bucket \in Foreign \cup {NoBucket} /\ origin = bucket
    /\ run = [r \in Runs |-> Resting] /\ started = 0

At(r, at) == run[r].at = at
Goto(r, at) == run' = [run EXCEPT ![r].at = at]
Idle == \A r \in Runs : run[r].at \in {"resting", "ok", "failed"}
Ours == bucket.there = "us"

\* ForCluster and ForOIDC; Preflight is Check that ignores what Ensure mends.
Begin(r, op, host) ==
    /\ At(r, "resting") /\ started < MaxRuns /\ started' = started + 1
    /\ run' = [run EXCEPT ![r] = [Resting EXCEPT !.at = "head", !.op = op, !.host = host]]
    /\ UNCHANGED <<cloud, bucket, origin>>

\* Mutant: markers that are missing are taken for the host's own.
MutantVerifyIdentity(r, host) == run[r].host \in {NoHost, host} \/ host = NoHost

\* verifyIdentity: no markers are expected by a cluster; others never adopt.
VerifyIdentity(r, host) == run[r].host \in {NoHost, host}

\* HeadBucket, or the attributes of the Google bucket.  Create is over: what
\* another process made is checked in the same way.
HeadBucket(r) ==
    /\ At(r, "head")
    /\ Goto(r, CASE bucket.there = "nobody" ->
                        IF run[r].made THEN "failed"
                        ELSE IF run[r].op = "ensure" THEN "ask" ELSE "ok"
                 [] bucket.there = "them" -> "failed"
                 [] OTHER -> IF cloud = "gcs" THEN "markers" ELSE "tags")
    /\ UNCHANGED <<cloud, bucket, started, origin>>

\* checkS3: the tags, and whether an earlier run has left it unfinished.
CheckTags(r) ==
    /\ At(r, "tags")
    /\ Goto(r, IF ~Ours \/ ~VerifyIdentity(r, bucket.host) THEN "failed"
               ELSE IF bucket.tag # "pending" THEN "verify"
               ELSE IF run[r].op = "ensure" THEN "configure" ELSE "ok")
    /\ UNCHANGED <<cloud, bucket, started, origin>>

\* verifyS3 and privateS3: versioning is only recommended.
Verify(r) ==
    /\ At(r, "verify")
    /\ Goto(r, IF Ours /\ Required \subseteq bucket.set THEN "ok" ELSE "failed")
    /\ UNCHANGED <<cloud, bucket, started, origin>>

\* checkGCS, which asks nothing of the encryption.
Markers(r) ==
    /\ At(r, "markers")
    /\ Goto(r, IF /\ Ours /\ VerifyIdentity(r, bucket.host)
                  /\ "private" \in bucket.set
               THEN "ok" ELSE "failed")
    /\ UNCHANGED <<cloud, bucket, started, origin>>

Ask(r) ==
    /\ At(r, "ask")
    /\ \E at \in {"create", "failed"} : Goto(r, at)
    /\ UNCHANGED <<cloud, bucket, started, origin>>

----------------------------------------------------------------------------
\* Mutant: the bucket gets its markers when it is configured.
MutantNewBucket(r) ==
    [there |-> "us", tag |-> IF cloud = "s3" THEN "pending" ELSE "none",
     host |-> NoHost, notes |-> {}, set |-> IF cloud = "s3" THEN {} ELSE Hardened]

\* A bucket that Podplane makes has its markers from the start.
NewBucket(r) ==
    [there |-> "us", tag |-> IF cloud = "s3" THEN "pending" ELSE "none",
     host |-> run[r].host, notes |-> {},
     set |-> IF cloud = "s3" THEN {} ELSE Hardened]

\* createS3 and createGCS.  When the call fails, or its answer is lost, they
\* look at the bucket that is there then.
Create(r) ==
    /\ At(r, "create")
    /\ IF bucket.there = "nobody"
       THEN \/ /\ bucket' = NewBucket(r) /\ origin' = NoBucket
               /\ Goto(r, IF cloud = "s3" THEN "configure" ELSE "ok")
            \/ /\ \E made \in {bucket, NewBucket(r)} :
                    /\ bucket' = made
                    /\ origin' = IF made = bucket THEN origin ELSE NoBucket
               /\ run' = [run EXCEPT ![r].at = "head", ![r].made = TRUE]
       ELSE /\ run' = [run EXCEPT ![r].made = TRUE, ![r].at =
                  IF Repeatable /\ cloud = "s3" /\ Ours THEN "configure" ELSE "head"]
            /\ UNCHANGED <<bucket, origin>>
    /\ UNCHANGED <<cloud, started>>

\* Mutant: an empty set of other tags is written back.
MutantTagsS3(r) == {}

\* Mutant: its own tags are among those that it keeps.
MutantTagsKept(r) == bucket.notes \cup {"podplane"}

\* configureS3: the tags, which are written back at the end.
TagsS3(r) == bucket.notes

Configure(r) ==
    /\ At(r, "configure")
    /\ IF Ours /\ VerifyIdentity(r, bucket.host)
       THEN run' = [run EXCEPT ![r].at = "harden", ![r].step = 1,
                      ![r].tags = <<bucket.host, TagsS3(r)>>]
       ELSE Goto(r, "failed")
    /\ UNCHANGED <<cloud, bucket, started, origin>>

\* Mutant: the bucket is marked before the lifecycle is configured.
MutantFinal == Len(Steps) - 1

\* The last step of hardenS3.
Final == Len(Steps)

\* One of the calls of hardenS3.
Harden(r) ==
    /\ At(r, "harden")
    /\ IF Ours
       THEN /\ bucket' = [bucket EXCEPT !.set = @ \cup {Steps[run[r].step]}]
            /\ run' = [run EXCEPT ![r].step = @ + 1,
                         ![r].at = IF run[r].step = Final THEN "mark" ELSE "harden"]
       ELSE Goto(r, "failed") /\ UNCHANGED bucket
    /\ UNCHANGED <<cloud, started, origin>>

\* PutBucketTagging replaces all tags: its own, and those read before.
Mark(r) ==
    /\ At(r, "mark")
    /\ IF Ours
       THEN /\ bucket' = [bucket EXCEPT !.tag = "configured",
                            !.host = run[r].tags[1], !.notes = run[r].tags[2]]
            /\ Goto(r, "ok")
       ELSE Goto(r, "failed") /\ UNCHANGED bucket
    /\ UNCHANGED <<cloud, started, origin>>

\* A call fails, the run is killed, or it is over.
End(r) ==
    /\ ~At(r, "resting") /\ run' = [run EXCEPT ![r] = Resting]
    /\ UNCHANGED <<cloud, bucket, started, origin>>

----------------------------------------------------------------------------
(* The account's operator.                                                 *)

MakeBucket ==
    /\ bucket.there = "nobody"
    /\ bucket' \in Foreign /\ origin' = bucket'
    /\ UNCHANGED <<cloud, run, started>>

\* Tags of their own, and the markers by which a bucket is adopted.
TagBucket ==
    /\ Ours /\ Idle
    /\ \/ bucket.notes = {} /\ bucket' = [bucket EXCEPT !.notes = {"team"}]
       \/ /\ bucket.host = NoHost /\ bucket.tag = "none"
          /\ \E h \in Hosts : bucket' = [bucket EXCEPT !.host = h]
    /\ origin' = IF origin = NoBucket THEN origin ELSE bucket'
    /\ UNCHANGED <<cloud, run, started>>

RemoveBucket ==
    /\ Ours /\ Idle
    /\ bucket' = NoBucket /\ origin' = NoBucket
    /\ run' = [r \in Runs |-> Resting]
    /\ UNCHANGED <<cloud, started>>

Next ==
    \/ \E r \in Runs :
         \/ \E op \in {"preflight", "ensure"}, host \in Hosts \cup {NoHost} :
              Begin(r, op, host)
         \/ HeadBucket(r) \/ CheckTags(r) \/ Verify(r) \/ Markers(r) \/ Ask(r)
         \/ Create(r) \/ Configure(r) \/ Harden(r) \/ Mark(r) \/ End(r)
    \/ MakeBucket \/ TagBucket \/ RemoveBucket

Spec == Init /\ [][Next]_bvars

----------------------------------------------------------------------------

TypeOK ==
    /\ cloud \in {"s3", "gcs"} /\ started \in 0..MaxRuns
    /\ bucket \in [there : {"nobody", "us", "them"},
                   tag : {"none", "pending", "configured"},
                   host : Hosts \cup {NoHost}, notes : SUBSET {"team"},
                   set : SUBSET Hardened]
    /\ \A r \in Runs : run[r].step \in 0..Len(Steps) + 1

\* State is only written to a private bucket of this account and, for an OIDC
\* server, one that bears its host, whoever made the bucket and however many
\* runs were killed while they configured it (Ensure).
StateIsSafe ==
    \A r \in Runs : At(r, "ok") /\ run[r].op = "ensure" =>
        /\ Ours /\ run[r].host \in {NoHost, bucket.host}
        /\ "private" \in bucket.set
        /\ cloud = "s3" => "encryption" \in bucket.set

\* A bucket that Podplane has marked, or that a run of Ensure accepted after
\* Podplane made it, has everything that hardenS3 sets (configureS3).
MadeIsHardened ==
    Ours /\ origin = NoBucket
      /\ (bucket.tag = "configured" \/ \E r \in Runs : At(r, "ok") /\ run[r].op = "ensure")
    => bucket.set = Hardened

\* What somebody else has made is never changed, only verified (checkS3).
ForeignUntouched == origin # NoBucket => bucket = origin

\* Tags that an operator has put on the bucket survive its configuration
\* (configureS3).
TagsSurvive ==
    [][\A r \in Runs : Mark(r) /\ Ours =>
         bucket.notes \subseteq bucket'.notes /\ bucket'.host = bucket.host]_bvars

\* State goes to a bucket that is safe, and only a bucket of Podplane's own is
\* configured (state.go: Ensure).
BucketSound ==
    [](StateIsSafe /\ MadeIsHardened /\ ForeignUntouched) /\ TagsSurvive
=============================================================================
