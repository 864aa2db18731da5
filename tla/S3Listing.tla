----------------------------- MODULE S3Listing -----------------------------
(***************************************************************************)
(* A client of the S3 server that lists objects, uploads or the parts of   *)
(* an upload, page by page, while others add and remove them               *)
(* (internal/s3fake/s3fake.go).  Every page is made of what is on the disk *)
(* when it is asked for; between two pages the client has only the marker. *)
(*                                                                         *)
(* Entries are numbers in the order in which a listing sorts them: names   *)
(* of objects, part numbers, or uploads by object and the time they were   *)
(* made.  Prefixes and delimiters are left out.                            *)
(***************************************************************************)
EXTENDS Naturals, FiniteSets

CONSTANTS
    MaxEntry,   \* entries that there can ever be
    ObjectOf,   \* the object to which an upload is made, a number in their order
    PageSize    \* max-keys, max-uploads or max-parts of the client

Entries == 1 .. MaxEntry

ASSUME ConstantsAssumption ==
    /\ MaxEntry \in Nat
    /\ ObjectOf \in [Entries -> Nat]
    /\ \A x, y \in Entries : x < y => ObjectOf[x] <= ObjectOf[y]
    /\ PageSize \in Nat \ {0}

VARIABLES
    entries,    \* what is there
    kind,       \* what the client lists: "objects", "uploads" or "parts"
    marker,     \* the last entry of the page before, or 0
    seen,       \* what the client has been told of
    over,       \* the last page was not truncated
    promised,   \* history: what was there when it began and has been ever since
    removed     \* history: what has been removed since it began

vars == <<entries, kind, marker, seen, over, promised, removed>>

Init ==
    /\ entries = {}
    /\ kind = "objects" /\ marker = 0 /\ seen = {} /\ over = TRUE
    /\ promised = {} /\ removed = {}

Add(x) ==
    /\ entries' = entries \cup {x}
    /\ UNCHANGED <<kind, marker, seen, over, promised, removed>>

Remove(x) ==
    /\ entries' = entries \ {x}
    /\ promised' = promised \ {x}
    /\ removed' = removed \cup {x}
    /\ UNCHANGED <<kind, marker, seen, over>>

StartList ==
    /\ over
    /\ kind' \in {"objects", "uploads", "parts"}
    /\ marker' = 0 /\ seen' = {} /\ over' = FALSE
    /\ promised' = entries /\ removed' = {}
    /\ UNCHANGED entries

\* Uploads to the marker's object follow only once the marker has been met.
UploadsAfter ==
    {x \in entries : \/ ObjectOf[x] > ObjectOf[marker]
                     \/ ObjectOf[x] = ObjectOf[marker] /\ marker \in entries /\ x > marker}

\* What is there and comes after the marker.
Rest ==
    IF marker = 0 THEN entries
    ELSE IF kind = "uploads" THEN UploadsAfter
    ELSE {x \in entries : x > marker}

\* As many as fit on a page, in their order.
FirstOf(rest) == {x \in rest : Cardinality({y \in rest : y < x}) < PageSize}

\* Mutant: the next page begins after the first entry that did not fit.
MutantEndsWith(page, rest, x) ==
    IF page = rest THEN x \in page /\ \A y \in page : y <= x
    ELSE x \in rest \ page /\ \A y \in rest \ page : x <= y

\* Mutant: the next page begins after the first entry of this one.
MutantEndsWithFirst(page, rest, x) == x \in page /\ \A y \in page : x <= y

\* The next page begins after the last entry of this one.
EndsWith(page, rest, x) == x \in page /\ \A y \in page : y <= x

\* IsTruncated is set by the first entry that does not fit.
NextPage ==
    /\ ~over
    /\ LET page == FirstOf(Rest)
       IN /\ seen' = seen \cup page
          /\ over' = (page = Rest)
          /\ \/ page = {} /\ marker' = marker
             \/ \E x \in page \cup Rest : EndsWith(page, Rest, x) /\ marker' = x
    /\ UNCHANGED <<entries, kind, promised, removed>>

Next ==
    \/ \E x \in Entries : Add(x) \/ Remove(x)
    \/ StartList
    \/ NextPage

Spec == Init /\ [][Next]_vars

----------------------------------------------------------------------------
(* Properties.                                                             *)

(* The marker is the last entry that the client has seen.                  *)
TypeOK ==
    /\ entries \subseteq Entries /\ seen \subseteq Entries
    /\ promised \subseteq entries /\ removed \subseteq Entries
    /\ kind \in {"objects", "uploads", "parts"}
    /\ marker \in seen \cup {0} /\ \A x \in seen : x <= marker
    /\ over \in BOOLEAN

(* A client that has turned all the pages has seen every object or part    *)
(* that was there all the time, whatever else was added or removed between *)
(* two pages; and every upload, if none that it had seen was removed.      *)
PagesComplete ==
    over /\ (kind = "uploads" => seen \cap removed = {}) => promised \subseteq seen

(* The same of uploads, whatever is removed.  ListMultipartUploads is said *)
(* to return "persisted in-progress uploads".                              *)
UploadsComplete == over => promised \subseteq seen
=============================================================================
