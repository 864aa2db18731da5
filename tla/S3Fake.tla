------------------------------- MODULE S3Fake -------------------------------
(***************************************************************************)
(* The bucket that the local server keeps for the registry                 *)
(* (internal/s3fake/s3fake.go): multipart uploads in directories beside it.*)
(*                                                                         *)
(* Handlers of multipart requests hold one mutex, so that a request which  *)
(* changes one file is one action; those with more steps are split where   *)
(* the server may be killed or an object may be written, which needs no    *)
(* mutex.  Objects are stored by gofakes3 in one go, or torn.  The ETag of *)
(* a part is its contents.  An upload whose record is gone is never found  *)
(* again, so what else its directory holds is left out.                    *)
(***************************************************************************)
EXTENDS Naturals, Sequences, FiniteSets

CONSTANTS
    Reqs, NoReq,    \* requests served at the same time
    Objects,        \* keys of objects
    Values,         \* what a client sends as the body of one part
    MaxUploads, MaxPart,
    MaxLength       \* bound: of the contents of an object that is copied

ASSUME ConstantsAssumption ==
    /\ NoReq \notin Reqs
    /\ MaxUploads \in Nat /\ MaxPart \in Nat /\ MaxLength \in Nat

VARIABLES
    status, object, parts, objects, torn, ended,    \* see Uploads
    mu,     \* the request that holds multipartMu, or NoReq
    req     \* of each request: where it stands and what it works on

S == INSTANCE Uploads

disk == <<status, object, parts, objects, torn, ended>>
vars == <<disk, mu, req>>

Ids == S!Ids
IsOpen(i) == S!IsOpen(i)

\* Mutant: the number of a part is not checked.
MutantPartNos == 0 .. MaxPart

PartNos == 1 .. MaxPart

NoRequest == [pc |-> "idle", id |-> 0, part |-> 0, named |-> S!NoParts]

Init ==
    /\ S!Init
    /\ mu = NoReq
    /\ req = [k \in Reqs |-> NoRequest]

----------------------------------------------------------------------------
(* What requests have in common.                                           *)

At(k, step) == req[k].pc = step

\* Mutant: a request does not wait for the mutex.
MutantFree == TRUE

Free == mu = NoReq

Begin(k, step, i, p, named) ==
    req' = [req EXCEPT ![k] = [pc |-> step, id |-> i, part |-> p, named |-> named]]

\* The answer, and deferred Unlock.
Answer(k) ==
    /\ req' = [req EXCEPT ![k] = NoRequest]
    /\ mu' = IF mu = k THEN NoReq ELSE mu

\* A part is renamed into the directory of its upload, if that is there.
PutPart(i, p, contents) ==
    /\ IsOpen(i)
    /\ parts' = [parts EXCEPT ![i] = S!With(@, p, contents)]

\* An object has been written, or only begun.
WriteObject(o, contents) ==
    /\ objects' = S!With(objects, o, contents)
    /\ torn' = torn \ {o}
TearObject(o) ==
    /\ objects' = S!Without(objects, o)
    /\ torn' = torn \cup {o}

\* RemoveAll takes one file after the other, and may fail at each.
RemoveFile(i) ==
    /\ \E p \in DOMAIN parts[i] : parts' = [parts EXCEPT ![i] = S!Without(@, p)]
    /\ UNCHANGED <<status, object, objects, torn, ended>>
RemoveRecord(i) ==
    /\ status' = [status EXCEPT ![i] = "gone"]
    /\ parts' = [parts EXCEPT ![i] = S!NoParts]
    /\ UNCHANGED <<object, objects, torn, ended>>

RemoveDirectory(k) ==
    \/ RemoveFile(req[k].id) /\ UNCHANGED <<mu, req>>
    \/ Answer(k) /\ (RemoveRecord(req[k].id) \/ UNCHANGED disk)

----------------------------------------------------------------------------
(* Requests.                                                               *)

\* The record appears with its rename; before that there is no upload.
CreateMultipartUpload ==
    /\ Free
    /\ \E i \in Ids, o \in Objects :
          /\ status[i] = "none" /\ \A j \in Ids : j < i => status[j] # "none"
          /\ status' = [status EXCEPT ![i] = "open"]
          /\ object' = [object EXCEPT ![i] = o]
    /\ UNCHANGED <<parts, objects, torn, ended, mu, req>>

\* The body is read under the mutex.  It may be cut short.
UploadPart(k) ==
    \/ /\ At(k, "idle") /\ Free /\ mu' = k
       /\ \E i \in Ids, p \in PartNos : IsOpen(i) /\ Begin(k, "body", i, p, S!NoParts)
       /\ UNCHANGED disk
    \/ /\ At(k, "body") /\ Answer(k)
       /\ UNCHANGED parts \/ \E v \in Values : PutPart(req[k].id, req[k].part, <<v>>)
       /\ UNCHANGED <<status, object, objects, torn, ended>>

\* UploadPartCopy reads its source first, without the mutex.  When the source
\* is not there, or the part cannot be made, the request is served as an
\* UploadPart without a body.  Clients do not copy what was never finished.
CopyPart(k) ==
    \/ /\ At(k, "idle")
       /\ \E i \in Ids, p \in PartNos, o \in Objects \ torn :
             /\ IsOpen(i)
             /\ IF o \in DOMAIN objects
                THEN /\ Len(objects[o]) <= MaxLength
                     /\ Begin(k, "copy", i, p, [q \in {p} |-> objects[o]])
                ELSE Begin(k, "empty", i, p, S!NoParts)
       /\ UNCHANGED <<disk, mu>>
    \/ /\ At(k, "copy") /\ Free
       /\ \/ PutPart(req[k].id, req[k].part, req[k].named[req[k].part]) /\ Answer(k)
          \/ Begin(k, "empty", req[k].id, req[k].part, S!NoParts) /\ UNCHANGED <<parts, mu>>
       /\ UNCHANGED <<status, object, objects, torn, ended>>
    \/ /\ At(k, "empty") /\ Free /\ Answer(k)
       /\ UNCHANGED parts \/ PutPart(req[k].id, req[k].part, <<>>)
       /\ UNCHANGED <<status, object, objects, torn, ended>>

\* The ETags of the parts that are there: another one names no part.
ETags == UNION {{parts[i][p] : p \in DOMAIN parts[i]} : i \in Ids}

\* Every part that the request names is there, with that ETag.
Matches(i, named) ==
    \A p \in DOMAIN named : p \in DOMAIN parts[i] /\ parts[i][p] = named[p]

\* Mutant: the upload is removed although its object was not stored.
MutantNotStored(k) ==
    /\ Answer(k)
    /\ TearObject(object[req[k].id])
    /\ status' = [status EXCEPT ![req[k].id] = "gone"]
    /\ UNCHANGED <<object, parts, ended>>

\* An upload whose object could not be stored is kept.
NotStored(k) ==
    /\ Answer(k)
    /\ TearObject(object[req[k].id]) \/ UNCHANGED <<objects, torn>>
    /\ UNCHANGED <<status, object, parts, ended>>

\* The parts are checked, then read again and stored, and then the directory
\* is renamed or removed; when neither can be done the client is not told.
CompleteMultipartUpload(k) ==
    \/ /\ At(k, "idle") /\ Free /\ mu' = k
       /\ \E i \in Ids, numbers \in SUBSET PartNos : \E named \in [numbers -> ETags] :
             IsOpen(i) /\ Matches(i, named) /\ Begin(k, "store", i, 0, named)
       /\ UNCHANGED disk
    \/ LET i == req[k].id
           numbers == DOMAIN req[k].named
       IN /\ At(k, "store")
          /\ numbers \subseteq DOMAIN parts[i]
          /\ WriteObject(object[i], S!Joined(S!Only(parts[i], numbers)))
          /\ ended' = [ended EXCEPT ![i] = @ \cup {"stored"}]
          /\ Begin(k, "close", i, 0, S!NoParts)
          /\ UNCHANGED <<status, object, parts, mu>>
    \/ At(k, "store") /\ NotStored(k)
    \/ At(k, "close") /\ RemoveDirectory(k)

AbortMultipartUpload(k) ==
    \/ /\ At(k, "idle") /\ Free /\ mu' = k
       /\ \E i \in Ids :
             /\ IsOpen(i) /\ Begin(k, "abort", i, 0, S!NoParts)
             /\ ended' = [ended EXCEPT ![i] = @ \cup {"aborted"}]
       /\ UNCHANGED <<status, object, parts, objects, torn>>
    \/ At(k, "abort") /\ RemoveDirectory(k)

\* Objects are written and deleted as a whole by others, without the mutex.
ReplaceObject ==
    /\ \E o \in Objects :
          \/ \E v \in Values : WriteObject(o, <<v>>)
          \/ objects' = S!Without(objects, o) /\ torn' = torn \ {o}
    /\ UNCHANGED <<status, object, parts, ended, mu, req>>

\* The server is killed, perhaps while it stores an object, and started again.
Restart ==
    /\ mu' = NoReq /\ req' = [k \in Reqs |-> NoRequest]
    /\ \/ UNCHANGED <<objects, torn>>
       \/ \E k \in Reqs : At(k, "store") /\ TearObject(object[req[k].id])
    /\ UNCHANGED <<status, object, parts, ended>>

Next ==
    \/ CreateMultipartUpload
    \/ \E k \in Reqs : \/ UploadPart(k) \/ CopyPart(k)
                       \/ CompleteMultipartUpload(k) \/ AbortMultipartUpload(k)
    \/ ReplaceObject
    \/ Restart

Spec == Init /\ [][Next]_vars

----------------------------------------------------------------------------
(* Properties.                                                             *)

IsParts(contents) ==
    /\ DOMAIN contents \subseteq S!PartNos
    /\ \A p \in DOMAIN contents : contents[p] \in Seq(Values)

(* Parts have valid numbers, and an object is whole or torn, never both.   *)
TypeOK ==
    /\ status \in [Ids -> {"none", "open", "gone"}]
    /\ object \in [Ids -> Objects \cup {0}]
    /\ \A i \in Ids : IsParts(parts[i])
    /\ \A o \in DOMAIN objects : o \in Objects /\ objects[o] \in Seq(Values)
    /\ torn \subseteq Objects \ DOMAIN objects
    /\ ended \in [Ids -> SUBSET {"stored", "aborted"}]
    /\ mu \in Reqs \cup {NoReq}
    /\ \A k \in Reqs : /\ req[k].pc \in {"idle", "body", "copy", "empty", "store", "close", "abort"}
                       /\ req[k].id \in Ids \cup {0} /\ req[k].part \in S!PartNos \cup {0}
                       /\ IsParts(req[k].named)

(* The server implements Uploads: whatever requests interleave with each   *)
(* other and with the server being killed, an upload is only used up by    *)
(* being stored or aborted, parts of it are only lost once it has been,    *)
(* and an object is only stored from an upload that is there.              *)
ImplementsUploads == S!Spec

(* The object that CompleteMultipartUpload stores is made of exactly the   *)
(* parts whose ETags the client named, although they are checked first and *)
(* read from the disk again afterwards, and other requests replace parts.  *)
NamedPartsStored ==
    [][\A k \in Reqs : At(k, "store") /\ At(k, "close")' =>
            objects'[object[req[k].id]] = S!Joined(req[k].named)
      ]_vars

(* An object that was torn when it was stored can be stored again: an      *)
(* upload to it is still there, unless clients have aborted one.           *)
TornCanBeStored ==
    \A o \in torn : \E i \in Ids :
        object[i] = o /\ (IsOpen(i) \/ "aborted" \in ended[i])

(* Clients send no empty parts.  UploadPartCopy, which "gofakes3 routes"   *)
(* as a "bodyless" UploadPart when it is not handled, makes none either.   *)
NoEmptyParts == \A i \in Ids : \A p \in DOMAIN parts[i] : parts[i][p] # <<>>
=============================================================================
