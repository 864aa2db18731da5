---------------------------- MODULE S3FakeProofs ----------------------------
(***************************************************************************)
(* Proofs about S3Fake: any number of requests, objects, uploads and parts.*)
(* The argument is that of a lock: what a request has found out about its  *)
(* upload stays true until it answers, because nobody else holds the mutex.*)
(***************************************************************************)
EXTENDS S3Fake, WellFoundedInduction, TLAPS

Shape ==
    /\ status \in [Ids -> {"none", "open", "gone"}]
    /\ object \in [Ids -> Objects \cup {0}]
    /\ parts = [i \in Ids |-> parts[i]]
    /\ \A i \in Ids : DOMAIN parts[i] \subseteq PartNos
    /\ ended \in [Ids -> SUBSET {"stored", "aborted"}]
    /\ mu \in Reqs \cup {NoReq}
    /\ req = [k \in Reqs |-> req[k]]

Holding(k) == req[k].pc \in {"body", "store", "close", "abort"}

\* A request that holds the mutex is the only one, and what it has found out
\* about its upload still holds.
Good(k) ==
    /\ req[k].pc \in {"idle", "body", "copy", "empty", "store", "close", "abort"}
    /\ ~At(k, "idle") => req[k].id \in Ids
    /\ At(k, "body") \/ At(k, "copy") \/ At(k, "empty") => req[k].part \in PartNos
    /\ Holding(k) => mu = k
    /\ At(k, "store") => /\ IsOpen(req[k].id)
                         /\ Matches(req[k].id, req[k].named)
                         /\ req[k].named = [p \in DOMAIN req[k].named |-> req[k].named[p]]
    /\ At(k, "close") => /\ "stored" \in ended[req[k].id]
                         /\ object[req[k].id] \notin torn
    /\ At(k, "abort") => "aborted" \in ended[req[k].id]

AllGood == \A k \in Reqs : Good(k)

EndedWasMade == \A i \in Ids : status[i] = "none" => ended[i] = {}

IInv == Shape /\ AllGood /\ EndedWasMade /\ TornCanBeStored

(* A request that answers has forgotten everything, and lets go of the     *)
(* mutex.                                                                  *)
LEMMA Answered ==
    ASSUME Shape, NEW k \in Reqs, Answer(k)
    PROVE  /\ req' = [j \in Reqs |-> req'[j]]
           /\ req'[k].pc = "idle"
           /\ \A j \in Reqs : j # k => req'[j] = req[j]
           /\ mu' \in Reqs \cup {NoReq}
           /\ mu' = mu \/ (mu = k /\ mu' = NoReq)
<1>1. req' = [j \in Reqs |-> IF j = k THEN NoRequest ELSE req[j]]
  BY DEF Shape, Answer
<1>2. req'[k].pc = "idle"
  BY <1>1 DEF NoRequest
<1>3. mu' \in Reqs \cup {NoReq} /\ (mu' = mu \/ (mu = k /\ mu' = NoReq))
  BY DEF Shape, Answer
<1> QED
  BY <1>1, <1>2, <1>3

(* A request that begins a step has written down what it needs for it.     *)
LEMMA Begun ==
    ASSUME Shape, NEW k \in Reqs, NEW step, NEW i, NEW p, NEW named,
           Begin(k, step, i, p, named)
    PROVE  /\ req' = [j \in Reqs |-> req'[j]]
           /\ req'[k] = [pc |-> step, id |-> i, part |-> p, named |-> named]
           /\ \A j \in Reqs : j # k => req'[j] = req[j]
BY DEF Shape, Begin

(* Other requests than the one that holds the mutex do not care what it    *)
(* does.                                                                   *)
LEMMA OthersStayGood ==
    ASSUME AllGood, NEW k \in Reqs \cup {NoReq}, NEW j \in Reqs, j # k,
           mu = NoReq \/ mu = k, req'[j] = req[j]
    PROVE  Good(j)'
<1>1. Good(j) /\ ~Holding(j)
  BY ConstantsAssumption DEF AllGood, Good
<1>2. j \in Reqs /\ req'[j].pc \in {"idle", "copy", "empty"}
  BY <1>1 DEF Good, Holding
<1>3. /\ req'[j].pc # "idle" => req'[j].id \in Ids
      /\ req'[j].pc = "copy" \/ req'[j].pc = "empty" => req'[j].part \in PartNos
  BY <1>1 DEF Good, At
<1> QED
  BY <1>2, <1>3 DEF Good, At, Holding

(* A part that is renamed into an upload that is there is a part of it.    *)
LEMMA PartIsPut ==
    ASSUME Shape, NEW i \in Ids, NEW p \in PartNos, NEW contents,
           PutPart(i, p, contents), UNCHANGED <<status, object, objects, torn, ended>>
    PROVE  /\ parts' = [j \in Ids |-> parts'[j]]
           /\ \A j \in Ids : DOMAIN parts'[j] \subseteq PartNos
           /\ S!SetPart(i, p)
<1>1. parts' = [j \in Ids |-> IF j = i THEN S!With(parts[i], p, contents) ELSE parts[j]]
  BY DEF Shape, PutPart
<1>2. parts'[i] = S!With(parts[i], p, contents)
  BY <1>1
<1>3. DOMAIN parts'[i] = DOMAIN parts[i] \cup {p} /\ parts'[i][p] = contents
  BY <1>2 DEF S!With
<1>4. \A j \in Ids : DOMAIN parts'[j] \subseteq PartNos
  BY <1>1, <1>3 DEF Shape
<1>5. S!SetPart(i, p)
  BY <1>3 DEF PutPart, IsOpen, S!SetPart
<1> QED
  BY <1>1, <1>4, <1>5

(* Nothing is there, and nobody asks for anything.                         *)
LEMMA InitIsGood == Init => IInv /\ S!Init
<1> SUFFICES ASSUME Init PROVE IInv
  BY DEF Init
<1>1. Shape
  BY DEF Init, S!Init, Shape, Ids, S!NoParts, NoRequest
<1>2. AllGood
  BY DEF Init, AllGood, Good, Holding, At, NoRequest
<1>3. EndedWasMade /\ TornCanBeStored
  BY DEF Init, S!Init, EndedWasMade, TornCanBeStored, Ids
<1> QED
  BY <1>1, <1>2, <1>3 DEF IInv

(* The record of a new upload appears while nobody holds the mutex.        *)
LEMMA CreateIsGood ==
    ASSUME IInv, CreateMultipartUpload
    PROVE  IInv' /\ S!Next
<1>1. PICK i \in Ids, o \in Objects :
          /\ status[i] = "none"
          /\ status' = [status EXCEPT ![i] = "open"]
          /\ object' = [object EXCEPT ![i] = o]
  BY DEF CreateMultipartUpload
<1>2. UNCHANGED <<parts, objects, torn, ended, mu, req>> /\ mu = NoReq
  BY DEF CreateMultipartUpload, Free
<1>3. Shape'
  BY <1>1, <1>2 DEF IInv, Shape
<1>4. AllGood'
  <2> SUFFICES ASSUME NEW j \in Reqs PROVE Good(j)'
    BY DEF AllGood
  <2> QED
    BY <1>2, OthersStayGood, ConstantsAssumption DEF IInv
<1>5. EndedWasMade'
  BY <1>1, <1>2 DEF IInv, Shape, EndedWasMade
<1>6. TornCanBeStored'
  <2> SUFFICES ASSUME NEW t \in torn
               PROVE  \E j \in Ids : object'[j] = t /\ (IsOpen(j)' \/ "aborted" \in ended[j])
    BY <1>2 DEF TornCanBeStored
  <2>1. PICK j \in Ids : object[j] = t /\ (IsOpen(j) \/ "aborted" \in ended[j])
    BY DEF IInv, TornCanBeStored
  <2>2. j # i
    BY <1>1, <2>1 DEF IInv, EndedWasMade, IsOpen, S!IsOpen
  <2>3. object'[j] = object[j] /\ status'[j] = status[j]
    BY <1>1, <2>2 DEF IInv, Shape
  <2> QED
    BY <2>1, <2>3 DEF IsOpen, S!IsOpen
<1>7. S!Create(i, o)
  BY <1>1, <1>2 DEF S!Create
<1> QED
  BY <1>3, <1>4, <1>5, <1>6, <1>7 DEF IInv, S!Next, Ids

(* When a request answers, nobody holds the mutex, and all requests are as *)
(* good as before.                                                         *)
LEMMA AnswerIsGood ==
    ASSUME IInv, NEW k \in Reqs, mu = NoReq \/ mu = k, Answer(k)
    PROVE  /\ AllGood'
           /\ req' = [j \in Reqs |-> req'[j]] /\ mu' \in Reqs \cup {NoReq}
<1>1. /\ req'[k].pc = "idle"
      /\ \A j \in Reqs : j # k => req'[j] = req[j]
      /\ req' = [j \in Reqs |-> req'[j]] /\ mu' \in Reqs \cup {NoReq}
  BY Answered DEF IInv
<1>2. Good(k)'
  BY <1>1 DEF Good, At, Holding
<1>3. ASSUME NEW j \in Reqs, j # k PROVE Good(j)'
  BY <1>1, <1>3, OthersStayGood DEF IInv
<1> QED
  BY <1>1, <1>2, <1>3 DEF AllGood

(* The same when it goes on with a step that is good for it.               *)
LEMMA StepIsGood ==
    ASSUME IInv, NEW k \in Reqs, mu = NoReq \/ mu = k,
           NEW step, NEW i, NEW p, NEW named, Begin(k, step, i, p, named), Good(k)'
    PROVE  AllGood' /\ req' = [j \in Reqs |-> req'[j]]
<1>1. /\ \A j \in Reqs : j # k => req'[j] = req[j]
      /\ req' = [j \in Reqs |-> req'[j]]
  BY Begun DEF IInv
<1>2. ASSUME NEW j \in Reqs, j # k PROVE Good(j)'
  BY <1>1, <1>2, OthersStayGood DEF IInv
<1> QED
  BY <1>1, <1>2 DEF AllGood

(* A part replaces another one while its upload is there.                  *)
LEMMA PartIsGood ==
    ASSUME IInv, NEW k \in Reqs, mu = NoReq \/ mu = k, Answer(k),
           NEW i \in Ids, NEW p \in PartNos, NEW contents,
           UNCHANGED parts \/ PutPart(i, p, contents),
           UNCHANGED <<status, object, objects, torn, ended>>
    PROVE  IInv' /\ [S!Next]_S!vars
<1>1. AllGood' /\ req' = [j \in Reqs |-> req'[j]] /\ mu' \in Reqs \cup {NoReq}
  BY AnswerIsGood
<1>2. EndedWasMade' /\ TornCanBeStored'
  BY DEF IInv, EndedWasMade, TornCanBeStored, IsOpen, S!IsOpen
<1>3. CASE UNCHANGED parts
  BY <1>1, <1>2, <1>3 DEF IInv, Shape, S!vars, S!uploads
<1>4. CASE PutPart(i, p, contents)
  <2>1. /\ parts' = [j \in Ids |-> parts'[j]]
        /\ \A j \in Ids : DOMAIN parts'[j] \subseteq PartNos
        /\ S!SetPart(i, p)
    BY <1>4, PartIsPut DEF IInv
  <2>2. Shape'
    BY <1>1, <2>1 DEF IInv, Shape
  <2>3. S!Next
    BY <2>1 DEF S!Next, Ids, PartNos, S!PartNos
  <2> QED
    BY <1>1, <1>2, <2>2, <2>3 DEF IInv
<1> QED
  BY <1>3, <1>4

(* A part is written while its request holds the mutex.                    *)
LEMMA UploadPartIsGood ==
    ASSUME IInv, NEW k \in Reqs, UploadPart(k)
    PROVE  IInv' /\ [S!Next]_S!vars
<1>1. CASE At(k, "idle")
  <2>1. PICK i \in Ids, p \in PartNos : Begin(k, "body", i, p, S!NoParts)
    BY <1>1 DEF UploadPart, At
  <2>2. mu = NoReq /\ mu' = k /\ UNCHANGED disk
    BY <1>1 DEF UploadPart, At, Free
  <2>3. req'[k] = [pc |-> "body", id |-> i, part |-> p, named |-> S!NoParts]
    BY <2>1, Begun DEF IInv
  <2>4. Good(k)'
    BY <2>2, <2>3 DEF Good, At, Holding
  <2>5. AllGood' /\ req' = [j \in Reqs |-> req'[j]]
    BY <2>1, <2>2, <2>4, StepIsGood
  <2>6. Shape' /\ EndedWasMade' /\ TornCanBeStored'
    BY <2>2, <2>5 DEF IInv, Shape, EndedWasMade, TornCanBeStored, IsOpen, S!IsOpen, disk
  <2> QED
    BY <2>2, <2>5, <2>6 DEF IInv, disk, S!vars, S!uploads
<1>2. CASE At(k, "body")
  <2>1. PICK contents :
            UNCHANGED parts \/ PutPart(req[k].id, req[k].part, contents)
    BY <1>2 DEF UploadPart, At
  <2>2. Answer(k) /\ UNCHANGED <<status, object, objects, torn, ended>>
    BY <1>2 DEF UploadPart, At
  <2>3. mu = k /\ req[k].id \in Ids /\ req[k].part \in PartNos
    BY <1>2 DEF IInv, AllGood, Good, At, Holding
  <2> QED
    BY <2>1, <2>2, <2>3, PartIsGood
<1> QED
  BY <1>1, <1>2 DEF UploadPart

(* A copy reads without the mutex, but writes only while it is free.       *)
LEMMA CopyPartIsGood ==
    ASSUME IInv, NEW k \in Reqs, CopyPart(k)
    PROVE  IInv' /\ [S!Next]_S!vars
<1>1. ASSUME UNCHANGED <<disk, mu>>, NEW step \in {"copy", "empty"}, NEW i \in Ids,
             NEW p \in PartNos, NEW named, Begin(k, step, i, p, named), ~Holding(k)
      PROVE  IInv' /\ UNCHANGED S!vars
  <2>1. req' = [j \in Reqs |-> req'[j]] /\ \A j \in Reqs : j # k => req'[j] = req[j]
    BY <1>1, Begun DEF IInv
  <2>2. req'[k] = [pc |-> step, id |-> i, part |-> p, named |-> named]
    BY <1>1, Begun DEF IInv
  <2>3. Good(k)'
    BY <1>1, <2>2 DEF Good, At, Holding
  <2>4. ASSUME NEW j \in Reqs, j # k PROVE Good(j)'
    <3>1. Good(j) /\ req'[j] = req[j]
      BY <2>1, <2>4 DEF IInv, AllGood
    <3> QED
      BY <1>1, <3>1 DEF Good, At, Holding, IsOpen, S!IsOpen, Matches, disk
  <2>5. Shape' /\ EndedWasMade' /\ TornCanBeStored'
    BY <1>1, <2>1 DEF IInv, Shape, EndedWasMade, TornCanBeStored, IsOpen, S!IsOpen, disk
  <2> QED
    BY <1>1, <2>3, <2>4, <2>5 DEF IInv, AllGood, disk, S!vars, S!uploads
<1>2. CASE At(k, "idle")
  <2>1. UNCHANGED <<disk, mu>> /\ ~Holding(k)
    BY <1>2 DEF CopyPart, At, Holding
  <2>2. PICK step \in {"copy", "empty"}, i \in Ids, p \in PartNos :
            \E named : Begin(k, step, i, p, named)
    BY <1>2 DEF CopyPart, At
  <2>3. PICK named : Begin(k, step, i, p, named)
    BY <2>2
  <2> QED
    BY <1>1, <2>1, <2>3
<1>3. CASE At(k, "copy")
  <2>1. mu = NoReq /\ req[k].id \in Ids /\ req[k].part \in PartNos /\ ~Holding(k)
    BY <1>3 DEF CopyPart, Free, IInv, AllGood, Good, At, Holding
  <2>2. UNCHANGED <<status, object, objects, torn, ended>>
    BY <1>3 DEF CopyPart, At
  <2>3. CASE PutPart(req[k].id, req[k].part, req[k].named[req[k].part]) /\ Answer(k)
    BY <2>1, <2>2, <2>3, PartIsGood
  <2>4. CASE /\ Begin(k, "empty", req[k].id, req[k].part, S!NoParts)
             /\ UNCHANGED <<parts, mu>>
    BY <1>1, <2>1, <2>2, <2>4 DEF disk
  <2> QED
    BY <1>3, <2>3, <2>4 DEF CopyPart, At
<1>4. CASE At(k, "empty")
  <2>1. mu = NoReq /\ req[k].id \in Ids /\ req[k].part \in PartNos
    BY <1>4 DEF CopyPart, Free, IInv, AllGood, Good, At
  <2>2. /\ Answer(k) /\ UNCHANGED <<status, object, objects, torn, ended>>
        /\ UNCHANGED parts \/ PutPart(req[k].id, req[k].part, <<>>)
    BY <1>4 DEF CopyPart, At
  <2> QED
    BY <2>1, <2>2, PartIsGood
<1> QED
  BY <1>2, <1>3, <1>4 DEF CopyPart

(* A directory is only removed when its upload has been stored or aborted; *)
(* what is left of it when that fails is still an upload.                  *)
LEMMA RemoveIsGood ==
    ASSUME IInv, NEW k \in Reqs, At(k, "close") \/ At(k, "abort"), RemoveDirectory(k)
    PROVE  IInv' /\ [S!Next]_S!vars
<1> DEFINE i == req[k].id
<1>1. i \in Ids /\ mu = k /\ ended[i] # {}
  BY DEF IInv, AllGood, Good, At, Holding
<1>2. "aborted" \in ended[i] \/ object[i] \notin torn
  BY DEF IInv, AllGood, Good, At
<1>3. CASE RemoveFile(i) /\ UNCHANGED <<mu, req>>
  <2>1. PICK p \in DOMAIN parts[i] :
            parts' = [parts EXCEPT ![i] = S!Without(@, p)]
    BY <1>3 DEF RemoveFile
  <2>2. UNCHANGED <<status, object, objects, torn, ended, mu, req>>
    BY <1>3 DEF RemoveFile
  <2>3. p \in PartNos
    BY <1>1 DEF IInv, Shape
  <2>4. parts' = [j \in Ids |-> IF j = i THEN S!Without(parts[i], p) ELSE parts[j]]
    BY <2>1 DEF IInv, Shape
  <2>5. Shape'
    <3>1. DOMAIN S!Without(parts[i], p) \subseteq PartNos
      BY <1>1 DEF IInv, Shape, S!Without
    <3>2. /\ parts' = [j \in Ids |-> parts'[j]]
          /\ \A j \in Ids : DOMAIN parts'[j] \subseteq PartNos
      BY <2>4, <3>1 DEF IInv, Shape
    <3> QED
      BY <2>2, <3>2 DEF IInv, Shape
  <2>6. AllGood'
    <3> SUFFICES ASSUME NEW j \in Reqs PROVE Good(j)'
      BY DEF AllGood
    <3>1. CASE j = k
      BY <2>2, <3>1 DEF IInv, AllGood, Good, At, Holding
    <3>2. CASE j # k
      BY <1>1, <2>2, <3>2, OthersStayGood DEF IInv
    <3> QED
      BY <3>1, <3>2
  <2>7. EndedWasMade' /\ TornCanBeStored'
    BY <2>2 DEF IInv, EndedWasMade, TornCanBeStored, IsOpen, S!IsOpen
  <2>8. S!LosePart(i, p)
    BY <1>1, <2>1, <2>2 DEF S!LosePart
  <2> QED
    BY <1>1, <2>3, <2>5, <2>6, <2>7, <2>8 DEF IInv, S!Next, Ids, PartNos, S!PartNos
<1>4. CASE Answer(k) /\ RemoveRecord(i)
  <2>1. AllGood' /\ req' = [j \in Reqs |-> req'[j]] /\ mu' \in Reqs \cup {NoReq}
    BY <1>1, <1>4, AnswerIsGood
  <2>2. /\ status' = [status EXCEPT ![i] = "gone"]
        /\ parts' = [parts EXCEPT ![i] = S!NoParts]
        /\ UNCHANGED <<object, objects, torn, ended>>
    BY <1>4 DEF RemoveRecord
  <2>3. Shape'
    BY <2>1, <2>2 DEF IInv, Shape, S!NoParts
  <2>4. EndedWasMade'
    BY <2>2 DEF IInv, Shape, EndedWasMade
  <2>5. TornCanBeStored'
    <3> SUFFICES ASSUME NEW t \in torn
                 PROVE  \E j \in Ids :
                            object[j] = t /\ (IsOpen(j)' \/ "aborted" \in ended[j])
      BY <2>2 DEF TornCanBeStored
    <3>1. PICK j \in Ids : object[j] = t /\ (IsOpen(j) \/ "aborted" \in ended[j])
      BY DEF IInv, TornCanBeStored
    <3>2. CASE j = i
      BY <1>2, <3>1, <3>2
    <3>3. CASE j # i
      BY <2>2, <3>1, <3>3 DEF IInv, Shape, IsOpen, S!IsOpen
    <3> QED
      BY <3>2, <3>3
  <2>6. S!Close(i)
    BY <1>1, <2>2 DEF S!Close
  <2> QED
    BY <1>1, <2>1, <2>3, <2>4, <2>5, <2>6 DEF IInv, S!Next, Ids
<1>5. CASE Answer(k) /\ UNCHANGED disk
  <2>1. AllGood' /\ req' = [j \in Reqs |-> req'[j]] /\ mu' \in Reqs \cup {NoReq}
    BY <1>1, <1>5, AnswerIsGood
  <2> QED
    BY <1>5, <2>1 DEF IInv, Shape, EndedWasMade, TornCanBeStored, IsOpen, S!IsOpen,
                      disk, S!vars, S!uploads
<1> QED
  BY <1>3, <1>4, <1>5 DEF RemoveDirectory

(* A store that did not begin, or was cut short, leaves its upload open.   *)
LEMMA TornIsGood ==
    ASSUME IInv, NEW k \in Reqs, At(k, "store"), TearObject(object[req[k].id]),
           UNCHANGED <<status, object, parts, ended>>
    PROVE  TornCanBeStored' /\ S!Next
<1> DEFINE i == req[k].id
<1>1. i \in Ids /\ IsOpen(i)
  BY DEF IInv, AllGood, Good, At
<1>2. torn' = torn \cup {object[i]}
  BY DEF TearObject
<1>3. TornCanBeStored'
  BY <1>1, <1>2 DEF IInv, TornCanBeStored, IsOpen, S!IsOpen
<1>4. S!Tear(i)
  BY <1>1 DEF S!Tear, TearObject, IsOpen, S!uploads
<1> QED
  BY <1>1, <1>3, <1>4 DEF S!Next, Ids

(* A complete finds parts, stores the object and removes the upload, and keeps *)
(* the mutex from one to the next.                                         *)
LEMMA CompleteIsGood ==
    ASSUME IInv, NEW k \in Reqs, CompleteMultipartUpload(k)
    PROVE  IInv' /\ [S!Next]_S!vars
<1>1. CASE At(k, "idle")
  <2>1. PICK i \in Ids, numbers \in SUBSET PartNos : \E named \in [numbers -> ETags] :
            IsOpen(i) /\ Matches(i, named) /\ Begin(k, "store", i, 0, named)
    BY <1>1 DEF CompleteMultipartUpload, At
  <2>2. PICK named \in [numbers -> ETags] :
            IsOpen(i) /\ Matches(i, named) /\ Begin(k, "store", i, 0, named)
    BY <2>1
  <2>3. mu = NoReq /\ mu' = k /\ UNCHANGED disk
    BY <1>1 DEF CompleteMultipartUpload, At, Free
  <2>4. req'[k] = [pc |-> "store", id |-> i, part |-> 0, named |-> named]
    BY <2>2, Begun DEF IInv
  <2>5. Good(k)'
    BY <2>2, <2>3, <2>4 DEF Good, At, Holding, IsOpen, S!IsOpen, Matches, disk
  <2>6. AllGood' /\ req' = [j \in Reqs |-> req'[j]]
    BY <2>2, <2>3, <2>5, StepIsGood
  <2> QED
    BY <2>3, <2>6 DEF IInv, Shape, EndedWasMade, TornCanBeStored, IsOpen, S!IsOpen,
                      disk, S!vars, S!uploads
<1>2. CASE At(k, "store") /\ ~NotStored(k)
  <2> DEFINE i == req[k].id
             numbers == DOMAIN req[k].named
             contents == S!Joined(S!Only(parts[i], numbers))
  <2>1. /\ numbers \subseteq DOMAIN parts[i]
        /\ WriteObject(object[i], contents)
        /\ ended' = [ended EXCEPT ![i] = @ \cup {"stored"}]
        /\ Begin(k, "close", i, 0, S!NoParts)
        /\ UNCHANGED <<status, object, parts, mu>>
    BY <1>2 DEF CompleteMultipartUpload, At
  <2>2. i \in Ids /\ IsOpen(i) /\ mu = k
    BY <1>2 DEF IInv, AllGood, Good, At, Holding
  <2>3. objects' = S!With(objects, object[i], contents) /\ torn' = torn \ {object[i]}
    BY <2>1 DEF WriteObject
  <2>4. ended' = [j \in Ids |-> IF j = i THEN ended[i] \cup {"stored"} ELSE ended[j]]
    BY <2>1 DEF IInv, Shape
  <2>5. req'[k] = [pc |-> "close", id |-> i, part |-> 0, named |-> S!NoParts]
    BY <2>1, Begun DEF IInv
  <2>6. Good(k)'
    BY <2>1, <2>2, <2>3, <2>4, <2>5 DEF Good, At, Holding
  <2>7. AllGood' /\ req' = [j \in Reqs |-> req'[j]]
    BY <2>1, <2>2, <2>6, StepIsGood
  <2>8. Shape'
    BY <2>1, <2>2, <2>4, <2>7 DEF IInv, Shape
  <2>9. EndedWasMade'
    BY <2>1, <2>2, <2>4 DEF IInv, EndedWasMade, IsOpen, S!IsOpen
  <2>10. TornCanBeStored'
    BY <2>1, <2>3, <2>4 DEF IInv, TornCanBeStored, IsOpen, S!IsOpen
  <2>11. numbers \in SUBSET S!PartNos
    BY <2>1, <2>2 DEF IInv, Shape, PartNos, S!PartNos
  <2>12. S!Store(i, numbers)
    BY <2>1, <2>2, <2>3 DEF S!Store, IsOpen, S!uploads
  <2> QED
    BY <2>2, <2>7, <2>8, <2>9, <2>10, <2>11, <2>12 DEF IInv, S!Next, Ids
<1>3. CASE At(k, "store") /\ NotStored(k)
  <2>1. Answer(k) /\ UNCHANGED <<status, object, parts, ended>>
    BY <1>3 DEF NotStored
  <2>2. mu = k
    BY <1>3 DEF IInv, AllGood, Good, Holding, At
  <2>3. AllGood' /\ req' = [j \in Reqs |-> req'[j]] /\ mu' \in Reqs \cup {NoReq}
    BY <2>1, <2>2, AnswerIsGood
  <2>4. Shape' /\ EndedWasMade'
    BY <2>1, <2>3 DEF IInv, Shape, EndedWasMade
  <2>5. CASE TearObject(object[req[k].id])
    BY <1>3, <2>1, <2>3, <2>4, <2>5, TornIsGood DEF IInv
  <2>6. CASE UNCHANGED <<objects, torn>>
    BY <2>1, <2>3, <2>4, <2>6 DEF IInv, TornCanBeStored, IsOpen, S!IsOpen, S!vars, S!uploads
  <2> QED
    BY <1>3, <2>5, <2>6 DEF NotStored
<1>4. CASE At(k, "close")
  BY <1>4, RemoveIsGood DEF CompleteMultipartUpload, At
<1> QED
  BY <1>1, <1>2, <1>3, <1>4 DEF CompleteMultipartUpload

(* An abort is recorded before it removes anything.                        *)
LEMMA AbortIsGood ==
    ASSUME IInv, NEW k \in Reqs, AbortMultipartUpload(k)
    PROVE  IInv' /\ [S!Next]_S!vars
<1>1. CASE At(k, "idle")
  <2>1. PICK i \in Ids :
            /\ IsOpen(i) /\ Begin(k, "abort", i, 0, S!NoParts)
            /\ ended' = [ended EXCEPT ![i] = @ \cup {"aborted"}]
    BY <1>1 DEF AbortMultipartUpload, At
  <2>2. mu = NoReq /\ mu' = k /\ UNCHANGED <<status, object, parts, objects, torn>>
    BY <1>1 DEF AbortMultipartUpload, At, Free
  <2>3. ended' = [j \in Ids |-> IF j = i THEN ended[i] \cup {"aborted"} ELSE ended[j]]
    BY <2>1 DEF IInv, Shape
  <2>4. req'[k] = [pc |-> "abort", id |-> i, part |-> 0, named |-> S!NoParts]
    BY <2>1, Begun DEF IInv
  <2>5. Good(k)'
    BY <2>2, <2>3, <2>4 DEF Good, At, Holding
  <2>6. AllGood' /\ req' = [j \in Reqs |-> req'[j]]
    BY <2>1, <2>2, <2>5, StepIsGood
  <2>7. Shape'
    BY <2>2, <2>3, <2>6 DEF IInv, Shape
  <2>8. EndedWasMade' /\ TornCanBeStored'
    BY <2>1, <2>2, <2>3 DEF IInv, EndedWasMade, TornCanBeStored, IsOpen, S!IsOpen
  <2>9. S!Abort(i)
    BY <2>1, <2>2 DEF S!Abort, IsOpen, S!uploads
  <2> QED
    BY <2>6, <2>7, <2>8, <2>9 DEF IInv, S!Next, Ids
<1>2. CASE At(k, "abort")
  BY <1>2, RemoveIsGood DEF AbortMultipartUpload, At
<1> QED
  BY <1>1, <1>2 DEF AbortMultipartUpload

(* Objects that are replaced as a whole are not torn any more.             *)
LEMMA ReplaceIsGood ==
    ASSUME IInv, ReplaceObject
    PROVE  IInv' /\ S!Next
<1>1. PICK o \in Objects :
          \/ \E v \in Values : WriteObject(o, <<v>>)
          \/ objects' = S!Without(objects, o) /\ torn' = torn \ {o}
  BY DEF ReplaceObject
<1>2. torn' = torn \ {o} /\ UNCHANGED <<status, object, parts, ended, mu, req>>
  BY <1>1 DEF ReplaceObject, WriteObject
<1>3. Shape' /\ EndedWasMade'
  BY <1>2 DEF IInv, Shape, EndedWasMade
<1>4. AllGood'
  <2> SUFFICES ASSUME NEW j \in Reqs PROVE Good(j)'
    BY DEF AllGood
  <2> QED
    BY <1>2 DEF IInv, AllGood, Good, At, Holding, IsOpen, S!IsOpen, Matches
<1>5. TornCanBeStored'
  BY <1>2 DEF IInv, TornCanBeStored, IsOpen, S!IsOpen
<1>6. S!Replace(o)
  <2>1. CASE \E v \in Values : WriteObject(o, <<v>>)
    <3>1. PICK contents : objects' = S!With(objects, o, contents)
      BY <2>1 DEF WriteObject
    <3>2. o \in DOMAIN objects' /\ objects'[o] = contents
      BY <3>1 DEF S!With
    <3> QED
      BY <1>2, <3>1, <3>2 DEF S!Replace, S!uploads
  <2>2. CASE objects' = S!Without(objects, o)
    <3>1. o \notin DOMAIN objects'
      BY <2>2 DEF S!Without
    <3> QED
      BY <1>2, <2>2, <3>1 DEF S!Replace, S!uploads
  <2> QED
    BY <1>1, <2>1, <2>2
<1> QED
  BY <1>3, <1>4, <1>5, <1>6 DEF IInv, S!Next

(* Nothing that matters is lost with the memory of the server.             *)
LEMMA RestartIsGood ==
    ASSUME IInv, Restart
    PROVE  IInv' /\ [S!Next]_S!vars
<1>1. /\ mu' = NoReq /\ req' = [k \in Reqs |-> NoRequest]
      /\ UNCHANGED <<status, object, parts, ended>>
  BY DEF Restart
<1>2. Shape' /\ EndedWasMade'
  BY <1>1 DEF IInv, Shape, EndedWasMade
<1>3. AllGood'
  BY <1>1 DEF AllGood, Good, Holding, At, NoRequest
<1>4. CASE UNCHANGED <<objects, torn>>
  BY <1>1, <1>2, <1>3, <1>4 DEF IInv, TornCanBeStored, IsOpen, S!IsOpen, S!vars, S!uploads
<1>5. CASE \E k \in Reqs : At(k, "store") /\ TearObject(object[req[k].id])
  BY <1>1, <1>2, <1>3, <1>5, TornIsGood DEF IInv
<1> QED
  BY <1>4, <1>5 DEF Restart

(* Each step keeps the invariant, and is one of Uploads, or none.          *)
LEMMA NextIsGood == IInv /\ [Next]_vars => IInv' /\ [S!Next]_S!vars
<1> SUFFICES ASSUME IInv, [Next]_vars PROVE IInv' /\ [S!Next]_S!vars
  OBVIOUS
<1>1. CASE CreateMultipartUpload
  BY <1>1, CreateIsGood
<1>2. CASE \E k \in Reqs : UploadPart(k)
  BY <1>2, UploadPartIsGood
<1>3. CASE \E k \in Reqs : CopyPart(k)
  BY <1>3, CopyPartIsGood
<1>4. CASE \E k \in Reqs : CompleteMultipartUpload(k)
  BY <1>4, CompleteIsGood
<1>5. CASE \E k \in Reqs : AbortMultipartUpload(k)
  BY <1>5, AbortIsGood
<1>6. CASE ReplaceObject
  BY <1>6, ReplaceIsGood
<1>7. CASE Restart
  BY <1>7, RestartIsGood
<1>8. CASE UNCHANGED vars
  <2>1. AllGood'
    BY <1>8 DEF IInv, AllGood, Good, At, Holding, IsOpen, S!IsOpen, Matches, vars, disk
  <2> QED
    BY <1>8, <2>1 DEF IInv, Shape, EndedWasMade, TornCanBeStored, IsOpen, S!IsOpen,
                      vars, disk, S!vars, S!uploads
<1> QED
  BY <1>1, <1>2, <1>3, <1>4, <1>5, <1>6, <1>7, <1>8 DEF Next

----------------------------------------------------------------------------

(* The S3 server implements Uploads: whatever requests interleave and      *)
(* whenever it is killed, an upload is used up only by being stored or     *)
(* aborted, and objects are only stored from uploads that are there.       *)
THEOREM UploadsAreKept == Spec => ImplementsUploads
<1>1. Init => S!Init
  BY InitIsGood
<1> QED
  BY InitIsGood, NextIsGood, <1>1, PTL DEF Spec, ImplementsUploads, S!Spec

(* An object that was torn when it was stored can be stored again.         *)
THEOREM TornIsNotLost == Spec => []TornCanBeStored
<1>1. IInv => TornCanBeStored
  BY DEF IInv
<1> QED
  BY InitIsGood, NextIsGood, <1>1, PTL DEF Spec

(* An object is stored from exactly the parts whose ETags the client named *)
(* when it completed the upload.                                           *)
THEOREM StoredAsNamed == Spec => NamedPartsStored
<1> DEFINE Step == \A k \in Reqs : At(k, "store") /\ At(k, "close")' =>
                      objects'[object[req[k].id]] = S!Joined(req[k].named)
<1>1. ASSUME IInv, Next, NEW k \in Reqs, At(k, "store"), At(k, "close")'
      PROVE  objects'[object[req[k].id]] = S!Joined(req[k].named)
  <2> DEFINE i == req[k].id
             numbers == DOMAIN req[k].named
  <2>1. Good(k) /\ mu = k
    BY <1>1 DEF IInv, AllGood, Good, Holding, At
  <2>2. \A j \in Reqs : j # k => req[j].pc \in {"idle", "copy", "empty"}
    BY <2>1, <1>1 DEF IInv, AllGood, Good, Holding
  <2>3. req'[k].pc = "close" /\ req[k].pc = "store"
    BY <1>1 DEF At
  <2>4. CompleteMultipartUpload(k)
    <3>1. req' # req
      BY <2>3
    <3>2. ~CreateMultipartUpload /\ ~ReplaceObject
      BY <3>1 DEF CreateMultipartUpload, ReplaceObject
    <3>3. ~Restart
      BY <2>3 DEF Restart, NoRequest
    <3>4. ~\E j \in Reqs : j # k /\ (UploadPart(j) \/ CompleteMultipartUpload(j)
                                       \/ AbortMultipartUpload(j))
      BY <2>1, <2>2, ConstantsAssumption
      DEF UploadPart, CompleteMultipartUpload, AbortMultipartUpload, Free, At
    <3>5. ASSUME NEW j \in Reqs, j # k, CopyPart(j) PROVE FALSE
      <4>1. \/ Answer(j)
            \/ \E step, id, p, named : Begin(j, step, id, p, named)
        BY <3>5 DEF CopyPart
      <4>2. req'[k] = req[k]
        BY <1>1, <3>5, <4>1, Answered, Begun DEF IInv
      <4> QED
        BY <2>3, <4>2
    <3>6. ~UploadPart(k) /\ ~CopyPart(k) /\ ~AbortMultipartUpload(k)
      BY <2>3 DEF UploadPart, CopyPart, AbortMultipartUpload, At
    <3> QED
      BY <1>1, <3>2, <3>3, <3>4, <3>5, <3>6 DEF Next
  <2>5. ~NotStored(k)
    BY <1>1, <2>3, Answered DEF NotStored, IInv
  <2>6. WriteObject(object[i], S!Joined(S!Only(parts[i], numbers)))
    BY <2>3, <2>4, <2>5 DEF CompleteMultipartUpload, At
  <2>7. objects'[object[i]] = S!Joined(S!Only(parts[i], numbers))
    BY <2>6 DEF WriteObject, S!With
  <2>8. S!Only(parts[i], numbers) = req[k].named
    BY <2>1, <2>3 DEF Good, At, Matches, S!Only
  <2> QED
    BY <2>7, <2>8
<1>2. IInv /\ [Next]_vars => [Step]_vars
  BY <1>1
<1>3. IInv /\ [Next]_vars => IInv'
  BY NextIsGood
<1> QED
  BY InitIsGood, <1>2, <1>3, PTL DEF Spec, NamedPartsStored

----------------------------------------------------------------------------
(* Types.  What an object holds is joined from parts by recursion.         *)

(* What comes before a number.                                             *)
Below == {p \in Nat \X Nat : p[1] < p[2]}

(* A set of natural numbers has a smallest one.                            *)
LEMMA Least ==
    ASSUME NEW T \in SUBSET Nat, T # {}
    PROVE  \E x \in T : \A y \in T : x <= y
<1>1. IsWellFoundedOn(Below, Nat)
  BY NatLessThanWellFounded DEF OpToRel, Below
<1>2. PICK x \in T : \A y \in T : <<y, x>> \notin Below
  BY <1>1, WFMin
<1>3. ASSUME NEW y \in T PROVE x <= y
  <2>1. x \in Nat /\ y \in Nat /\ <<y, x>> \notin Below
    BY <1>2
  <2>2. ~(y < x)
    BY <2>1 DEF Below
  <2> QED BY <2>1, <2>2
<1> QED BY <1>3

(* Parts that are joined are contents again: the recursion of Joined       *)
(* defines a function, because a longest prefix on which it does not would *)
(* have a shortest one, and so does its type.                              *)
LEMMA JoinedIsContents ==
    ASSUME NEW contents, IsParts(contents)
    PROVE  S!Joined(contents) \in Seq(Values)
<1> USE ConstantsAssumption DEF PartNos
<1> DEFINE Nth(f, n) == IF n = 0 THEN <<>>
                         ELSE f[n - 1] \o (IF n \in DOMAIN contents THEN contents[n] ELSE <<>>)
           IsJoin(f, m) == f = [n \in 0 .. m |-> Nth(f, n)]
           Some(m) == \E f \in [0 .. m -> Seq(Values)] : IsJoin(f, m)
           Failing == {m \in 0 .. MaxPart : ~Some(m)}
           upTo == CHOOSE f : f = [n \in 0 .. MaxPart |-> IF n = 0 THEN <<>>
            ELSE f[n - 1] \o (IF n \in DOMAIN contents THEN contents[n] ELSE <<>>)]
<1>1. S!Joined(contents) = upTo[MaxPart]
  BY DEF S!Joined
<1>2. ASSUME NEW m \in 1 .. MaxPart, Some(m - 1) PROVE Some(m)
  <2>1. PICK f \in [0 .. m - 1 -> Seq(Values)] : IsJoin(f, m - 1)
    BY <1>2
  <2> DEFINE g == [n \in 0 .. m |-> IF n = m THEN Nth(f, n) ELSE f[n]]
  <2>2. Nth(f, m) \in Seq(Values)
    <3>1. f[m - 1] \in Seq(Values)
      OBVIOUS
    <3>2. m \in DOMAIN contents => contents[m] \in Seq(Values)
      BY DEF IsParts
    <3> QED  BY <3>1, <3>2
  <2>3. g \in [0 .. m -> Seq(Values)]
    BY <2>2
  <2>4. ASSUME NEW n \in 0 .. m PROVE g[n] = Nth(g, n)
    <3>1. n # 0 => n - 1 \in 0 .. m - 1 /\ g[n - 1] = f[n - 1]
      OBVIOUS
    <3>2. Nth(g, n) = Nth(f, n)
      BY <3>1
    <3>3. n # m => n \in 0 .. m - 1
      OBVIOUS
    <3>4. n # m => f[n] = Nth(f, n)
      BY <3>3, <2>1
    <3> HIDE DEF Nth
    <3> QED  BY <3>2, <3>4
  <2>5. IsJoin(g, m)
    <3> HIDE DEF Nth
    <3>1. g = [n \in 0 .. m |-> g[n]]
      OBVIOUS
    <3> HIDE DEF g
    <3> QED  BY <3>1, <2>4
  <2> QED  BY <2>3, <2>5
<1>3. Some(0)
  <2> DEFINE f == [n \in 0 .. 0 |-> <<>>]
  <2>1. f \in [0 .. 0 -> Seq(Values)]
    OBVIOUS
  <2>2. IsJoin(f, 0)
    OBVIOUS
  <2> QED  BY <2>1, <2>2
<1>4. Failing = {}
  <2> SUFFICES ASSUME Failing # {} PROVE FALSE
    OBVIOUS
  <2> HIDE DEF Some
  <2>0. Failing \in SUBSET Nat
    OBVIOUS
  <2>1. PICK m \in Failing : \A n \in Failing : m <= n
    <3> HIDE DEF Failing
    <3> QED  BY <2>0, Least
  <2>2. m # 0 /\ m \in 1 .. MaxPart /\ ~Some(m)
    BY <1>3
  <2>3. Some(m - 1)
    BY <2>1, <2>2
  <2> QED  BY <1>2, <2>2, <2>3
<1>5. PICK f \in [0 .. MaxPart -> Seq(Values)] : IsJoin(f, MaxPart)
  <2> HIDE DEF Some
  <2>1. Some(MaxPart)
    BY <1>4
  <2> QED  BY <2>1 DEF Some
<1>6. IsJoin(upTo, MaxPart)
  BY <1>5
<1> HIDE DEF upTo
<1>7. ASSUME NEW n \in 0 .. MaxPart PROVE upTo[n] \in Seq(Values)
  <2> DEFINE Other == {k \in 0 .. MaxPart : upTo[k] # f[k]}
  <2>1. Other = {}
    <3> SUFFICES ASSUME Other # {} PROVE FALSE
      OBVIOUS
    <3>0. Other \in SUBSET Nat
      OBVIOUS
    <3>1. PICK k \in Other : \A j \in Other : k <= j
      <4> HIDE DEF Other
      <4> QED  BY <3>0, Least
    <3>2. upTo[k] = Nth(upTo, k) /\ f[k] = Nth(f, k)
      BY <1>5, <1>6
    <3>3. k # 0 => upTo[k - 1] = f[k - 1]
      BY <3>1
    <3> QED  BY <3>2, <3>3
  <2> QED  BY <2>1
<1> QED  BY <1>1, <1>7

(* Whatever is stored are contents, and an upload that is there is one to  *)
(* an object.                                                              *)
RequestTyped(k) ==
    /\ req[k].id \in Ids \cup {0} /\ req[k].part \in PartNos \cup {0}
    /\ IsParts(req[k].named)
    /\ At(k, "copy") => req[k].part \in DOMAIN req[k].named

ObjectsTyped ==
    /\ \A o \in DOMAIN objects : o \in Objects /\ objects[o] \in Seq(Values)
    /\ torn \subseteq Objects \ DOMAIN objects

UploadsTyped ==
    \A i \in Ids : IsParts(parts[i]) /\ (status[i] # "none" => object[i] \in Objects)

TInv == UploadsTyped /\ ObjectsTyped /\ \A k \in Reqs : RequestTyped(k)

(* One request changes, and leaves those of others as they are.            *)
LEMMA AnswerTyped ==
    ASSUME IInv, TInv, NEW k \in Reqs, Answer(k)
    PROVE  \A j \in Reqs : RequestTyped(j)'
<1>1. \A j \in Reqs : req'[j] = NoRequest \/ req'[j] = req[j]
  BY DEF IInv, Shape, Answer
<1> QED
  BY <1>1 DEF TInv, RequestTyped, NoRequest, At, IsParts, S!NoParts

(* A request that goes on with typed contents, and leaves those of others. *)
LEMMA BeginTyped ==
    ASSUME IInv, TInv, NEW k \in Reqs, NEW step, NEW i \in Ids, NEW p \in PartNos \cup {0},
           NEW named, IsParts(named), step = "copy" => p \in DOMAIN named,
           Begin(k, step, i, p, named)
    PROVE  \A j \in Reqs : RequestTyped(j)'
<1>1. /\ req'[k] = [pc |-> step, id |-> i, part |-> p, named |-> named]
      /\ \A j \in Reqs : j # k => req'[j] = req[j]
  BY Begun DEF IInv
<1>2. RequestTyped(k)'
  BY <1>1 DEF RequestTyped, At, IsParts
<1>3. ASSUME NEW j \in Reqs, j # k PROVE RequestTyped(j)'
  BY <1>1, <1>3 DEF TInv, RequestTyped, At
<1> QED
  BY <1>2, <1>3

(* Parts and objects that are written, torn or removed.                    *)
LEMMA PutTyped ==
    ASSUME IInv, TInv, NEW i \in Ids, NEW p \in PartNos, NEW contents \in Seq(Values),
           PutPart(i, p, contents), UNCHANGED <<status, object>>
    PROVE  UploadsTyped'
<1>1. \A j \in Ids : parts'[j] = IF j = i THEN S!With(parts[i], p, contents) ELSE parts[j]
  BY DEF IInv, Shape, PutPart
<1>2. IsParts(S!With(parts[i], p, contents))
  BY DEF TInv, UploadsTyped, IsParts, S!With, PartNos, S!PartNos
<1> QED
  BY <1>1, <1>2 DEF TInv, UploadsTyped, IsParts

(* An object that has been written is whole.                               *)
LEMMA WriteTyped ==
    ASSUME ObjectsTyped, NEW o \in Objects, NEW contents \in Seq(Values), WriteObject(o, contents)
    PROVE  ObjectsTyped'
<1>1. objects' = S!With(objects, o, contents) /\ torn' = torn \ {o}
  BY DEF WriteObject
<1>2. DOMAIN objects' = DOMAIN objects \cup {o}
  BY <1>1 DEF S!With
<1>3. \A x \in DOMAIN objects' : objects'[x] = IF x = o THEN contents ELSE objects[x]
  BY <1>1 DEF S!With
<1> QED
  BY <1>1, <1>2, <1>3 DEF ObjectsTyped

(* An object that is torn, or deleted, is not there.                       *)
LEMMA TearTyped ==
    ASSUME ObjectsTyped, NEW o \in Objects, objects' = S!Without(objects, o),
           torn' \in {torn \cup {o}, torn \ {o}}
    PROVE  ObjectsTyped'
<1>1. DOMAIN objects' = DOMAIN objects \ {o}
  BY DEF S!Without
<1>2. \A x \in DOMAIN objects' : objects'[x] = objects[x]
  BY DEF S!Without
<1> QED
  BY <1>1, <1>2 DEF ObjectsTyped

(* What is being stored has a name.                                        *)
LEMMA StoringTyped ==
    ASSUME IInv, TInv, NEW k \in Reqs, At(k, "store")
    PROVE  req[k].id \in Ids /\ object[req[k].id] \in Objects
BY DEF IInv, AllGood, Good, At, TInv, UploadsTyped, IsOpen, S!IsOpen

(* A directory that is removed, in part or whole.                          *)
LEMMA RemoveTyped ==
    ASSUME IInv, TInv, NEW k \in Reqs, At(k, "close") \/ At(k, "abort"), RemoveDirectory(k)
    PROVE  TInv'
<1> DEFINE i == req[k].id
<1>1. i \in Ids /\ ended[i] # {} /\ status[i] # "none"
  BY DEF IInv, AllGood, Good, At, EndedWasMade
<1>2. UNCHANGED <<object, objects, torn>>
  BY DEF RemoveDirectory, RemoveFile, RemoveRecord, disk
<1>3. \A j \in Reqs : RequestTyped(j)'
  <2>1. Answer(k) \/ UNCHANGED req
    BY DEF RemoveDirectory
  <2> QED
    BY <2>1, AnswerTyped DEF TInv, RequestTyped, At
<1>4. UploadsTyped'
  <2>1. CASE RemoveFile(i)
    <3>1. PICK p \in DOMAIN parts[i] : parts' = [parts EXCEPT ![i] = S!Without(@, p)]
      BY <2>1 DEF RemoveFile
    <3>2. IsParts(S!Without(parts[i], p))
      BY <1>1 DEF TInv, UploadsTyped, IsParts, S!Without
    <3>3. \A j \in Ids : parts'[j] = IF j = i THEN S!Without(parts[i], p) ELSE parts[j]
      BY <3>1 DEF IInv, Shape
    <3>4. UNCHANGED status
      BY <2>1 DEF RemoveFile
    <3> QED
      BY <1>2, <3>2, <3>3, <3>4 DEF TInv, UploadsTyped, IsParts
  <2>2. CASE RemoveRecord(i)
    <3>1. \A j \in Ids : parts'[j] = IF j = i THEN S!NoParts ELSE parts[j]
      BY <2>2 DEF IInv, Shape, RemoveRecord
    <3>2. \A j \in Ids : status'[j] = IF j = i THEN "gone" ELSE status[j]
      BY <2>2 DEF IInv, Shape, RemoveRecord
    <3>3. IsParts(S!NoParts)
      BY DEF IsParts, S!NoParts
    <3> QED
      BY <1>1, <1>2, <3>1, <3>2, <3>3 DEF TInv, UploadsTyped, IsParts
  <2>3. CASE UNCHANGED disk
    BY <2>3 DEF TInv, UploadsTyped, IsParts, disk
  <2> QED
    BY <2>1, <2>2, <2>3 DEF RemoveDirectory
<1> QED
  BY <1>2, <1>3, <1>4 DEF TInv, ObjectsTyped

(* A new upload is one to an object.                                       *)
LEMMA CreateTyped == ASSUME IInv, TInv, CreateMultipartUpload PROVE TInv'
<1>1. PICK i \in Ids, o \in Objects :
          /\ status' = [status EXCEPT ![i] = "open"]
          /\ object' = [object EXCEPT ![i] = o]
  BY DEF CreateMultipartUpload
<1>2. UNCHANGED <<parts, objects, torn, req>>
  BY DEF CreateMultipartUpload
<1>3. UploadsTyped'
  BY <1>1, <1>2 DEF IInv, Shape, TInv, UploadsTyped, IsParts
<1> QED
  BY <1>2, <1>3 DEF TInv, ObjectsTyped, RequestTyped, At

(* A body that was received.                                               *)
LEMMA UploadPartTyped == ASSUME IInv, TInv, NEW k \in Reqs, UploadPart(k) PROVE TInv'
<1>1. CASE At(k, "idle")
  <2>1. PICK i \in Ids, p \in PartNos : Begin(k, "body", i, p, S!NoParts)
    BY <1>1 DEF UploadPart, At
  <2>2. UNCHANGED disk
    BY <1>1 DEF UploadPart, At
  <2>3. \A j \in Reqs : RequestTyped(j)'
    BY <2>1, BeginTyped DEF IsParts, S!NoParts
  <2> QED
    BY <2>2, <2>3 DEF TInv, UploadsTyped, ObjectsTyped, IsParts, disk
<1>2. CASE At(k, "body")
  <2>1. Answer(k) /\ UNCHANGED <<status, object, objects, torn, ended>>
    BY <1>2 DEF UploadPart, At
  <2>2. \/ UNCHANGED parts
        \/ \E v \in Values : PutPart(req[k].id, req[k].part, <<v>>)
    BY <1>2 DEF UploadPart, At
  <2>3. req[k].id \in Ids /\ req[k].part \in PartNos
    BY <1>2 DEF IInv, AllGood, Good, At
  <2>4. CASE UNCHANGED parts
    <3>1. UploadsTyped'
      BY <2>1, <2>4 DEF TInv, UploadsTyped, IsParts
    <3> QED
      BY <2>1, <3>1, AnswerTyped DEF TInv, ObjectsTyped
  <2>5. CASE \E v \in Values : PutPart(req[k].id, req[k].part, <<v>>)
    <3>1. PICK v \in Values : PutPart(req[k].id, req[k].part, <<v>>)
      BY <2>5
    <3>2. <<v>> \in Seq(Values)
      OBVIOUS
    <3>3. UploadsTyped'
      BY <2>1, <2>3, <3>1, <3>2, PutTyped
    <3> QED
      BY <2>1, <3>3, AnswerTyped DEF TInv, ObjectsTyped
  <2> QED
    BY <2>2, <2>4, <2>5
<1> QED
  BY <1>1, <1>2 DEF UploadPart

(* A copy of an object is contents, and so is an empty part.               *)
LEMMA CopyPartTyped == ASSUME IInv, TInv, NEW k \in Reqs, CopyPart(k) PROVE TInv'
<1>1. UNCHANGED <<status, object, objects, torn>>
  BY DEF CopyPart, disk
<1>2. CASE At(k, "idle")
  <2>1. PICK i \in Ids, p \in PartNos, o \in Objects \ torn :
            IF o \in DOMAIN objects
            THEN Begin(k, "copy", i, p, [q \in {p} |-> objects[o]])
            ELSE Begin(k, "empty", i, p, S!NoParts)
    BY <1>2 DEF CopyPart, At
  <2>2. UNCHANGED parts
    BY <1>2 DEF CopyPart, At, disk
  <2>3. \A j \in Reqs : RequestTyped(j)'
    <3>1. CASE o \in DOMAIN objects
      <4>1. IsParts([q \in {p} |-> objects[o]])
        BY <3>1 DEF TInv, ObjectsTyped, IsParts, PartNos, S!PartNos
      <4> QED
        BY <2>1, <3>1, <4>1, BeginTyped
    <3>2. CASE o \notin DOMAIN objects
      BY <2>1, <3>2, BeginTyped DEF IsParts, S!NoParts
    <3> QED
      BY <3>1, <3>2
  <2> QED
    BY <1>1, <2>2, <2>3 DEF TInv, UploadsTyped, ObjectsTyped, IsParts
<1>3. CASE At(k, "copy") \/ At(k, "empty")
  <2>1. req[k].id \in Ids /\ req[k].part \in PartNos
    BY <1>3 DEF IInv, AllGood, Good, At
  <2>2. \/ UNCHANGED parts
        \/ \E contents \in Seq(Values) : PutPart(req[k].id, req[k].part, contents)
    <3>1. At(k, "copy") => req[k].named[req[k].part] \in Seq(Values)
      BY DEF TInv, RequestTyped, IsParts
    <3>2. <<>> \in Seq(Values)
      OBVIOUS
    <3> QED
      BY <1>3, <3>1, <3>2 DEF CopyPart, At
  <2>3. Answer(k) \/ Begin(k, "empty", req[k].id, req[k].part, S!NoParts)
    BY <1>3 DEF CopyPart, At
  <2>4. \A j \in Reqs : RequestTyped(j)'
    BY <2>1, <2>3, AnswerTyped, BeginTyped DEF IsParts, S!NoParts
  <2>5. UploadsTyped'
    BY <1>1, <2>1, <2>2, PutTyped DEF TInv, UploadsTyped, IsParts
  <2> QED
    BY <1>1, <2>4, <2>5 DEF TInv, ObjectsTyped
<1> QED
  BY <1>2, <1>3 DEF CopyPart

(* The parts that were found are joined to an object.                      *)
LEMMA CompleteTyped == ASSUME IInv, TInv, NEW k \in Reqs, CompleteMultipartUpload(k) PROVE TInv'
<1>1. CASE At(k, "idle")
  <2>1. PICK i \in Ids, numbers \in SUBSET PartNos : \E named \in [numbers -> ETags] :
            Matches(i, named) /\ Begin(k, "store", i, 0, named)
    BY <1>1 DEF CompleteMultipartUpload, At
  <2>2. PICK named \in [numbers -> ETags] : Matches(i, named) /\ Begin(k, "store", i, 0, named)
    BY <2>1
  <2>3. UNCHANGED disk
    BY <1>1 DEF CompleteMultipartUpload, At
  <2>4. IsParts(named)
    BY <2>2 DEF TInv, UploadsTyped, IsParts, Matches, PartNos, S!PartNos
  <2>5. \A j \in Reqs : RequestTyped(j)'
    BY <2>2, <2>4, BeginTyped
  <2> QED
    BY <2>3, <2>5 DEF TInv, UploadsTyped, ObjectsTyped, IsParts, disk
<1>2. CASE At(k, "store") /\ ~NotStored(k)
  <2> DEFINE i == req[k].id
             numbers == DOMAIN req[k].named
             contents == S!Joined(S!Only(parts[i], numbers))
  <2>1. /\ numbers \subseteq DOMAIN parts[i]
        /\ WriteObject(object[i], contents)
        /\ Begin(k, "close", i, 0, S!NoParts)
        /\ UNCHANGED <<status, object, parts>>
    BY <1>2 DEF CompleteMultipartUpload, At
  <2>2. i \in Ids /\ object[i] \in Objects
    BY <1>2, StoringTyped
  <2>3. IsParts(S!Only(parts[i], numbers))
    BY <2>1, <2>2 DEF TInv, UploadsTyped, IsParts, S!Only
  <2>4. contents \in Seq(Values)
    BY <2>3, JoinedIsContents
  <2>5. ObjectsTyped'
    BY <2>1, <2>2, <2>4, WriteTyped DEF TInv
  <2>6. \A j \in Reqs : RequestTyped(j)'
    BY <2>1, <2>2, BeginTyped DEF IsParts, S!NoParts
  <2> QED
    BY <2>1, <2>5, <2>6 DEF TInv, UploadsTyped, IsParts
<1>3. CASE At(k, "store") /\ NotStored(k)
  <2>1. Answer(k) /\ UNCHANGED <<status, object, parts>>
    BY <1>3 DEF NotStored
  <2>2. TearObject(object[req[k].id]) \/ UNCHANGED <<objects, torn>>
    BY <1>3 DEF NotStored
  <2>3. ObjectsTyped'
    BY <1>3, <2>2, StoringTyped, TearTyped DEF TInv, ObjectsTyped, TearObject
  <2> QED
    BY <2>1, <2>3, AnswerTyped DEF TInv, UploadsTyped, IsParts
<1>4. CASE At(k, "close")
  BY <1>4, RemoveTyped DEF CompleteMultipartUpload, At
<1> QED
  BY <1>1, <1>2, <1>3, <1>4 DEF CompleteMultipartUpload

(* An abort writes nothing.                                                *)
LEMMA AbortTyped == ASSUME IInv, TInv, NEW k \in Reqs, AbortMultipartUpload(k) PROVE TInv'
<1>1. CASE At(k, "idle")
  <2>1. PICK i \in Ids : Begin(k, "abort", i, 0, S!NoParts)
    BY <1>1 DEF AbortMultipartUpload, At
  <2>2. UNCHANGED <<status, object, parts, objects, torn>>
    BY <1>1 DEF AbortMultipartUpload, At
  <2>3. \A j \in Reqs : RequestTyped(j)'
    BY <2>1, BeginTyped DEF IsParts, S!NoParts
  <2> QED
    BY <2>2, <2>3 DEF TInv, UploadsTyped, ObjectsTyped, IsParts
<1>2. CASE At(k, "abort")
  BY <1>2, RemoveTyped DEF AbortMultipartUpload, At
<1> QED
  BY <1>1, <1>2 DEF AbortMultipartUpload

(* Objects that are written or deleted as a whole.                         *)
LEMMA ReplaceTyped == ASSUME IInv, TInv, ReplaceObject PROVE TInv'
<1>1. PICK o \in Objects :
          \/ \E v \in Values : WriteObject(o, <<v>>)
          \/ objects' = S!Without(objects, o) /\ torn' = torn \ {o}
  BY DEF ReplaceObject
<1>2. UNCHANGED <<status, object, parts, req>>
  BY DEF ReplaceObject
<1>3. ObjectsTyped'
  <2>1. CASE \E v \in Values : WriteObject(o, <<v>>)
    <3>1. PICK v \in Values : WriteObject(o, <<v>>)
      BY <2>1
    <3>2. <<v>> \in Seq(Values)
      OBVIOUS
    <3> QED
      BY <3>1, <3>2, WriteTyped DEF TInv
  <2>2. CASE objects' = S!Without(objects, o) /\ torn' = torn \ {o}
    BY <2>2, TearTyped DEF TInv
  <2> QED
    BY <1>1, <2>1, <2>2
<1> QED
  BY <1>2, <1>3 DEF TInv, UploadsTyped, IsParts, RequestTyped, At

(* A restart forgets the requests, and may tear an object.                 *)
LEMMA RestartTyped == ASSUME IInv, TInv, Restart PROVE TInv'
<1>1. /\ req' = [k \in Reqs |-> NoRequest]
      /\ UNCHANGED <<status, object, parts>>
  BY DEF Restart
<1>2. \A k \in Reqs : RequestTyped(k)'
  BY <1>1 DEF RequestTyped, NoRequest, At, IsParts, S!NoParts
<1>3. ObjectsTyped'
  <2>1. CASE UNCHANGED <<objects, torn>>
    BY <2>1 DEF TInv, ObjectsTyped
  <2>2. CASE \E k \in Reqs : At(k, "store") /\ TearObject(object[req[k].id])
    BY <2>2, StoringTyped, TearTyped DEF TInv, TearObject
  <2> QED
    BY <2>1, <2>2 DEF Restart
<1> QED
  BY <1>1, <1>2, <1>3 DEF TInv, UploadsTyped, IsParts

(* Each step keeps the types.                                              *)
LEMMA NextIsTyped == IInv /\ TInv /\ [Next]_vars => TInv'
<1>1. ASSUME IInv, TInv, UNCHANGED vars PROVE TInv'
  BY <1>1 DEF TInv, UploadsTyped, ObjectsTyped, RequestTyped, IsParts, At, vars, disk
<1> QED
  BY <1>1, CreateTyped, UploadPartTyped, CopyPartTyped, CompleteTyped, AbortTyped,
     ReplaceTyped, RestartTyped DEF Next

(* Parts have valid numbers, an object is whole or torn and never both,    *)
(* and what is stored, named and copied is contents.                       *)
THEOREM TypeCorrect == Spec => []TypeOK
<1>1. Init => TInv
  BY DEF Init, S!Init, TInv, UploadsTyped, ObjectsTyped, RequestTyped, IsParts, At,
         NoRequest, S!NoParts, Ids
<1>2. IInv /\ TInv => TypeOK
  BY DEF IInv, Shape, AllGood, Good, TInv, UploadsTyped, ObjectsTyped, RequestTyped,
         TypeOK, PartNos, S!PartNos
<1>3. IInv /\ [Next]_vars => IInv'
  BY NextIsGood
<1> QED
  BY InitIsGood, NextIsTyped, <1>1, <1>2, <1>3, PTL DEF Spec
=============================================================================
