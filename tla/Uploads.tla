------------------------------ MODULE Uploads ------------------------------
(***************************************************************************)
(* What the S3 server promises of multipart uploads: whole objects made    *)
(* of parts that were uploaded on their own.  An upload is used up by      *)
(* being stored or aborted and by nothing else, its parts disappear only   *)
(* once it has been, and only an upload that is still there leaves an      *)
(* object half written.  Requests, the mutex, and the process that serves  *)
(* them are not visible here.                                              *)
(***************************************************************************)
EXTENDS Naturals, Sequences

CONSTANTS
    Objects,    \* keys of objects
    MaxUploads, \* bound: uploads ever made
    MaxPart     \* the highest part number

VARIABLES
    status,     \* of each upload: "none", "open" or "gone"
    object,     \* of each upload: the object that is to be stored
    parts,      \* of each upload: the contents of the parts that are there
    objects,    \* the contents of the objects that are there
    torn,       \* objects that a store has begun to write and not finished
    ended       \* of each upload: has it been "stored", has it been "aborted"?

uploads == <<status, object, parts>>
vars == <<uploads, objects, torn, ended>>

Ids == 1 .. MaxUploads
PartNos == 1 .. MaxPart

\* A partial function with a new value, without one, and only at some places.
With(f, x, v) == [y \in DOMAIN f \cup {x} |-> IF y = x THEN v ELSE f[y]]
Without(f, x) == [y \in DOMAIN f \ {x} |-> f[y]]
Only(f, dom) == [y \in dom |-> f[y]]

NoParts == [p \in {} |-> <<>>]

IsOpen(i) == status[i] = "open"

\* Parts, one after the other.
Joined(contents) ==
    LET upTo[n \in 0 .. MaxPart] ==
            IF n = 0 THEN <<>>
            ELSE upTo[n - 1] \o (IF n \in DOMAIN contents THEN contents[n] ELSE <<>>)
    IN upTo[MaxPart]

Init ==
    /\ status = [i \in Ids |-> "none"]
    /\ object = [i \in Ids |-> 0]
    /\ parts = [i \in Ids |-> NoParts]
    /\ objects = [o \in {} |-> <<>>]
    /\ torn = {}
    /\ ended = [i \in Ids |-> {}]

Create(i, o) ==
    /\ status[i] = "none"
    /\ status' = [status EXCEPT ![i] = "open"]
    /\ object' = [object EXCEPT ![i] = o]
    /\ UNCHANGED <<parts, objects, torn, ended>>

\* A part gets contents, whatever they are.
SetPart(i, p) ==
    /\ IsOpen(i) /\ p \in DOMAIN parts'[i]
    /\ parts' = [parts EXCEPT ![i] = With(@, p, parts'[i][p])]
    /\ UNCHANGED <<status, object, objects, torn, ended>>

Store(i, numbers) ==
    /\ IsOpen(i) /\ numbers \subseteq DOMAIN parts[i]
    /\ objects' = With(objects, object[i], Joined(Only(parts[i], numbers)))
    /\ torn' = torn \ {object[i]}
    /\ ended' = [ended EXCEPT ![i] = @ \cup {"stored"}]
    /\ UNCHANGED uploads

Tear(i) ==
    /\ IsOpen(i)
    /\ objects' = Without(objects, object[i])
    /\ torn' = torn \cup {object[i]}
    /\ UNCHANGED <<uploads, ended>>

Abort(i) ==
    /\ IsOpen(i)
    /\ ended' = [ended EXCEPT ![i] = @ \cup {"aborted"}]
    /\ UNCHANGED <<uploads, objects, torn>>

LosePart(i, p) ==
    /\ ended[i] # {}
    /\ parts' = [parts EXCEPT ![i] = Without(@, p)]
    /\ UNCHANGED <<status, object, objects, torn, ended>>

Close(i) ==
    /\ ended[i] # {}
    /\ status' = [status EXCEPT ![i] = "gone"]
    /\ parts' = [parts EXCEPT ![i] = NoParts]
    /\ UNCHANGED <<object, objects, torn, ended>>

\* Objects that clients write or delete as a whole.
Replace(o) ==
    /\ IF o \in DOMAIN objects' THEN objects' = With(objects, o, objects'[o])
                               ELSE objects' = Without(objects, o)
    /\ torn' = torn \ {o}
    /\ UNCHANGED <<uploads, ended>>

Next ==
    \/ \E i \in Ids :
          \/ \E o \in Objects : Create(i, o)
          \/ \E p \in PartNos : SetPart(i, p) \/ LosePart(i, p)
          \/ \E numbers \in SUBSET PartNos : Store(i, numbers)
          \/ Tear(i) \/ Abort(i) \/ Close(i)
    \/ \E o \in Objects : Replace(o)

Spec == Init /\ [][Next]_vars
=============================================================================
