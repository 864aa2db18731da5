------------------------------ MODULE VaultKV ------------------------------
(***************************************************************************)
(* What the local Vault promises to its clients (interface Store of        *)
(* internal/fakevault/store.go): a map from cluster and path to a          *)
(* versioned secret.  A write replaces the value and moves the version on  *)
(* by one, archiving and restoring touch nothing but the archived flag,    *)
(* and a secret disappears only by being removed.  Encryption, keys,       *)
(* files, the mutex and the server process are not visible here: a secret  *)
(* that became unreadable would be a step this module does not allow.      *)
(***************************************************************************)
EXTENDS Integers

CONSTANTS Clusters, Paths, Vals, NoSecret

VARIABLE kv

Secret == [version: Nat, archived: BOOLEAN, val: Vals]

\* Version of a secret as clients count it: 0 means that it does not exist.
VersionOf(s) == IF s = NoSecret THEN 0 ELSE s.version

Init == kv \in [Clusters -> [Paths -> Secret \cup {NoSecret}]]

Put(c, p, v) ==
    kv' = [kv EXCEPT ![c][p] = [version  |-> VersionOf(kv[c][p]) + 1,
                                archived |-> FALSE,
                                val      |-> v]]

SetArchived(c, p, a) ==
    /\ kv[c][p] # NoSecret
    /\ kv' = [kv EXCEPT ![c][p] = [kv[c][p] EXCEPT !.archived = a]]

Remove(c, p) == kv' = [kv EXCEPT ![c][p] = NoSecret]

Next ==
    \E c \in Clusters, p \in Paths :
        \/ \E v \in Vals : Put(c, p, v)
        \/ \E a \in BOOLEAN : SetArchived(c, p, a)
        \/ Remove(c, p)

Spec == Init /\ [][Next]_kv
=============================================================================
