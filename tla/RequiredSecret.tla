--------------------------- MODULE RequiredSecret ---------------------------
(***************************************************************************)
(* One key of one secret provider, written by concurrent commands:         *)
(* `podplane secret create|update|delete|restore|destroy`                  *)
(* (internal/cmd/secret*.go), the prerequisites of a component that install *)
(* and deploy ensure (internal/secrets/provision.go), and those of a local *)
(* cluster (internal/local/component_secrets.go).                          *)
(*                                                                         *)
(* The operator that keeps the key is external: it may change its key pair *)
(* at any moment, refuses what was encrypted for the former one, and its   *)
(* answer may be lost after the write has happened.                        *)
(***************************************************************************)
EXTENDS Integers

CONSTANTS
    Writers,        \* commands, each run once
    MaxKeys         \* bound: key pairs the operator ever has

VARIABLES
    entry,      \* the key at the backend: its status, and who wrote the value
    operatorKey,
    writer,     \* command -> where it stands
    applied,    \* command -> writes of it that the backend took
    seen        \* command -> the key was active since the command began

rvars == <<entry, operatorKey, writer, applied, seen>>

Nobody == "nobody"
Active(e) == e.status = "active"
Waiting == [at |-> "waiting"]

Init ==
    /\ entry = [status |-> "absent", by |-> Nobody]
    /\ operatorKey = 1
    /\ writer = [w \in Writers |-> Waiting]
    /\ applied = [w \in Writers |-> 0]
    /\ seen = [w \in Writers |-> FALSE]

At(w, at) == writer[w].at = at
Goto(w, at) == writer' = [writer EXCEPT ![w].at = at]

\* Commands that run see that the key is active.
Witness == seen' = [w \in Writers |->
               seen[w] \/ (writer'[w].at # "waiting" /\ Active(entry'))]

Begin(w, op, at) ==
    /\ At(w, "waiting")
    /\ writer' = [writer EXCEPT ![w] =
         [op |-> op, key |-> 0, retried |-> FALSE, at |-> at]]
    /\ UNCHANGED <<entry, operatorKey, applied>> /\ Witness

\* The values of these are encrypted; restore and delete have none.
CreateCommand(w) == Begin(w, "create", "encrypt")
UpdateCommand(w) == Begin(w, "update", "encrypt")
DeleteCommand(w) == Begin(w, "delete", "send")
RestoreCommand(w) == Begin(w, "restore", "send")
DestroyCommand(w) == Begin(w, "destroy", "send")

\* The prerequisites of a component that is installed, or of a local cluster.
InstallCommand(w) == Begin(w, "ensure", "get")
LocalPrepare(w) == Begin(w, "local", "createLocal")

\* Mutant: an entry of any status counts as the prerequisite.
MutantSatisfied(e) == e.status # "absent"
\* Ensure: only an active entry is what is required.
Satisfied(e) == Active(e)

\* Ensure: an active entry is kept, one of another status is an error.
Get(w) ==
    /\ At(w, "get")
    /\ \/ Goto(w, IF Satisfied(entry) THEN "ok"
                  ELSE IF entry.status # "absent" THEN "failed" ELSE "encrypt")
       \/ Goto(w, "failed")
    /\ UNCHANGED <<entry, operatorKey, applied>> /\ Witness

\* EncryptedRequest: for the key pair that the operator has now.
Encrypt(w) ==
    /\ At(w, "encrypt")
    /\ \/ writer' = [writer EXCEPT ![w].at = "send", ![w].key = operatorKey]
       \/ Goto(w, "failed")
    /\ UNCHANGED <<entry, operatorKey, applied>> /\ Witness

----------------------------------------------------------------------------
(* The operator: what one request does, and what is answered.              *)

Operation(op) == IF op = "ensure" THEN "create" ELSE op

Allowed(op) == CASE op = "create" -> entry.status = "absent"
                 [] op = "update" -> Active(entry)
                 [] op = "delete" -> Active(entry)
                 [] op = "restore" -> entry.status = "archived"
                 [] op = "destroy" -> entry.status # "absent"

After(w, op) == CASE op \in {"create", "update"} -> [status |-> "active", by |-> w]
                  [] op = "delete" -> [entry EXCEPT !.status = "archived"]
                  [] op = "restore" -> [entry EXCEPT !.status = "active"]
                  [] op = "destroy" -> [status |-> "absent", by |-> Nobody]

\* Mutant: every failed write is sent once more.
MutantRetried(answer) == answer # "ok"
\* IsStalePublicKeyError: a conflict, for which nothing was written.
Retried(answer) == answer = "stale"

\* Ensure reads the metadata once more; the other commands report the error.
Answer(w, answer) ==
    LET c == writer[w]
    IN  writer' = [writer EXCEPT ![w] =
          IF answer = "ok" THEN [c EXCEPT !.at = "ok"]
          ELSE IF /\ Retried(answer) /\ ~c.retried
                  /\ Operation(c.op) \in {"create", "update"}
          THEN [c EXCEPT !.at = "encrypt", !.retried = TRUE]
          ELSE [c EXCEPT !.at = IF c.op = "ensure" THEN "reread" ELSE "failed"]]

Send(w) ==
    /\ At(w, "send")
    /\ LET op == Operation(writer[w].op)
           stale == writer[w].key \notin {0, operatorKey}
       IN  IF stale THEN Answer(w, "stale") /\ UNCHANGED <<entry, applied>>
           ELSE \/ /\ Allowed(op)
                   /\ entry' = After(w, op)
                   /\ applied' = [applied EXCEPT ![w] = @ + 1]
                   /\ \E answer \in {"ok", "lost"} : Answer(w, answer)
                \/ /\ Answer(w, "refused") /\ UNCHANGED <<entry, applied>>
    /\ UNCHANGED operatorKey /\ Witness

Reread(w) ==
    /\ At(w, "reread")
    /\ \/ Goto(w, IF Satisfied(entry) THEN "ok" ELSE "failed")
       \/ Goto(w, "failed")
    /\ UNCHANGED <<entry, operatorKey, applied>> /\ Witness

Rotate ==
    /\ operatorKey < MaxKeys /\ operatorKey' = operatorKey + 1
    /\ UNCHANGED <<entry, writer, applied>> /\ Witness

----------------------------------------------------------------------------
(* ensureComponentSecret: the store of this machine, with its own socket.  *)

CreateLocal(w) ==
    /\ At(w, "createLocal")
    /\ \/ /\ entry.status = "absent"
          /\ entry' = After(w, "create") /\ Goto(w, "ok")
          /\ applied' = [applied EXCEPT ![w] = @ + 1]
       \/ /\ entry.status # "absent" /\ Goto(w, "getLocal")
          /\ UNCHANGED <<entry, applied>>
       \/ Goto(w, "failed") /\ UNCHANGED <<entry, applied>>
    /\ UNCHANGED operatorKey /\ Witness

\* The value that is there must be valid: what "update" writes need not be.
GetLocal(w) ==
    /\ At(w, "getLocal")
    /\ \/ /\ Satisfied(entry) /\ Goto(w, "ok")
       \/ Goto(w, "failed")
    /\ UNCHANGED <<entry, operatorKey, applied>> /\ Witness

Next ==
    \/ \E w \in Writers :
         \/ CreateCommand(w) \/ UpdateCommand(w) \/ DeleteCommand(w)
         \/ RestoreCommand(w) \/ DestroyCommand(w)
         \/ InstallCommand(w) \/ LocalPrepare(w)
         \/ Get(w) \/ Encrypt(w) \/ Send(w) \/ Reread(w)
         \/ CreateLocal(w) \/ GetLocal(w)
    \/ Rotate

Spec == Init /\ [][Next]_rvars

----------------------------------------------------------------------------

TypeOK ==
    /\ entry.status \in {"absent", "active", "archived"}
    /\ entry.by \in Writers \cup {Nobody}
    /\ operatorKey \in 1..MaxKeys
    /\ applied \in [Writers -> Nat] /\ seen \in [Writers -> BOOLEAN]

\* A prerequisite that was reported as there has been active while the command
\* ran, also when the answer to its own write was lost (Ensure).
EnsuredWasActive ==
    \A w \in Writers :
        At(w, "ok") /\ writer[w].op \in {"ensure", "local"} => seen[w]

\* The retry after a rotation never sends a write again that the operator
\* took: an update cannot undo the one that followed it (PutEncrypted).
WrittenOnce == \A w \in Writers : applied[w] <= 1

\* A prerequisite is there, and written once (provision.go, client.go).
PrerequisitesHold == EnsuredWasActive /\ WrittenOnce
=============================================================================
