--------------------------- MODULE ClusterDelete ---------------------------
(***************************************************************************)
(* `podplane cluster delete` (internal/clusterdelete): it scales the       *)
(* groups of every shard to zero, waits for the instances that Nstance     *)
(* manages, destroys what OpenTofu manages, and looks once more.           *)
(*                                                                         *)
(* Nstance runs beside it, outside the program: a controller reads the     *)
(* config of its shard from time to time, launches and terminates after    *)
(* what it read, and others change the sizes.  OpenTofu removes the        *)
(* controllers with the rest.                                              *)
(***************************************************************************)
EXTENDS Integers, Sequences, FiniteSets

CONSTANTS
    ShardOrder,   \* the shards, sorted by name
    Ids,          \* instances that are ever launched
    MaxChanges,   \* bound: changes of a config by others
    MaxRuns       \* bound: runs of the command

VARIABLES
    config,    \* shard -> size: of its groups, gen: of the object
    view,      \* shard -> the size that its controller has read last
    instance,  \* id -> "none", "running", "terminating", "gone"
    stack,     \* "up", "partly": destroy has begun, "gone"
    changes, runs,
    del,       \* the command
    fresh      \* instances launched since the last listing that showed none

dvars == <<config, view, instance, stack, changes, runs, del, fresh>>
nstance == <<config, view, changes>>

Shards == {ShardOrder[i] : i \in DOMAIN ShardOrder}
Present == {i \in Ids : instance[i] \in {"running", "terminating"}}
Resting == [at |-> "resting", shard |-> 1, gen |-> 0, size |-> 0, list |-> {},
            again |-> FALSE, declined |-> FALSE]

Init ==
    /\ config = [s \in Shards |-> [size |-> 1, gen |-> 0]]
    /\ view = [s \in Shards |-> 1]
    /\ \E up \in SUBSET Ids :
         instance = [i \in Ids |-> IF i \in up THEN "running" ELSE "none"]
    /\ stack = "up" /\ changes = 0 /\ runs = 0
    /\ del = Resting /\ fresh = {}

At(at) == del.at = at
Goto(at) == del' = [del EXCEPT !.at = at]

\* OutputJSON and parseOutputs; a stack that is gone has no outputs.
Outputs ==
    /\ At("resting") /\ runs < MaxRuns /\ runs' = runs + 1
    /\ \/ /\ stack # "gone" /\ del' = [Resting EXCEPT !.at = "read"]
       \/ /\ stack # "up" /\ UNCHANGED del
    /\ fresh' = {}
    /\ UNCHANGED <<nstance, instance, stack>>

----------------------------------------------------------------------------
(* UpdateObject, for one shard after the other.                            *)

NextStep == IF del.shard = Len(ShardOrder) THEN "wait" ELSE "read"
Shard == ShardOrder[del.shard]

\* zeroShardConfig leaves an object alone that needs no change.
Read ==
    /\ At("read") /\ stack # "gone"
    /\ IF config[Shard].size = 0
       THEN del' = [del EXCEPT !.at = NextStep, !.shard = @ + 1]
       ELSE del' = [del EXCEPT !.at = "put", !.gen = config[Shard].gen,
                                !.size = config[Shard].size]
    /\ UNCHANGED <<nstance, instance, stack, runs, fresh>>

\* Mutant: the object is put whatever is there.
MutantMatches == TRUE

\* The condition of the put: the ETag, or the generation, that was read.
Matches == config[Shard].gen = del.gen

Put ==
    /\ At("put") /\ stack # "gone"
    /\ IF Matches
       THEN /\ config' = [config EXCEPT ![Shard] = [size |-> 0, gen |-> @.gen + 1]]
            /\ del' = [del EXCEPT !.at = NextStep, !.shard = @ + 1]
       ELSE del' = Resting /\ UNCHANGED config
    /\ UNCHANGED <<view, changes, instance, stack, runs, fresh>>

----------------------------------------------------------------------------
\* ManagedInstances: until none is left, or until the time is over, with what
\* was listed last.  The time may be over before anything was listed.
Wait ==
    /\ At("wait")
    /\ \/ /\ Present = {} /\ fresh' = {}
          /\ Goto("destroy")
       \/ /\ Present # {} /\ UNCHANGED fresh
          /\ del' = [del EXCEPT !.at = "waiting", !.list = Present]
    /\ UNCHANGED <<nstance, instance, stack, runs>>

\* Mutant: instances that are left after the second wait are ignored.
MutantAfterWait == IF del.again THEN "destroy" ELSE "ask"

\* Timed out: ask, or give up after it was tried.
AfterWait == IF del.again THEN "resting" ELSE "ask"

Waiting ==
    /\ At("waiting")
    /\ \/ Goto("wait")
       \/ IF AfterWait = "resting" THEN del' = Resting ELSE Goto(AfterWait)
    /\ UNCHANGED <<nstance, instance, stack, runs, fresh>>

Confirm ==
    /\ At("ask") /\ (Goto("terminate") \/ del' = Resting)
    /\ UNCHANGED <<nstance, instance, stack, runs, fresh>>

\* The cloud takes a request at once; the instances go later.
Terminated(list) ==
    [i \in Ids |-> IF i \in list /\ instance[i] = "running" THEN "terminating"
                   ELSE instance[i]]

\* Google is asked for one after the other, and may refuse one of them.
Terminate ==
    /\ At("terminate")
    /\ \/ /\ instance' = Terminated(del.list)
          /\ del' = [del EXCEPT !.at = "wait", !.again = TRUE]
       \/ /\ \E some \in SUBSET del.list : instance' = Terminated(some)
          /\ del' = Resting
    /\ UNCHANGED <<nstance, stack, runs, fresh>>

\* Destroy asks, may fail when it has begun, and is over when all is gone.
Destroy ==
    /\ At("destroy")
    /\ \/ stack' = "partly" /\ Goto("destroying")
       \/ del' = Resting /\ UNCHANGED stack
    /\ UNCHANGED <<nstance, instance, runs, fresh>>

Destroyed ==
    /\ At("destroying")
    /\ \/ stack' = "gone" /\ Goto("look")
       \/ del' = Resting /\ UNCHANGED stack
    /\ UNCHANGED <<nstance, instance, runs, fresh>>

\* Mutant: only instances that were there before are taken for dangling.
MutantDangling == Present \cap del.list

\* What was launched meanwhile.
Dangling == Present

Look ==
    /\ At("look")
    /\ del' = [del EXCEPT !.list = Dangling,
                 !.at = IF Dangling = {} THEN "ok" ELSE "offer"]
    /\ UNCHANGED <<nstance, instance, stack, runs, fresh>>

\* Who declines is told that the cluster is deleted all the same.
Offer ==
    /\ At("offer")
    /\ \/ instance' = Terminated(del.list) /\ Goto("ok")
       \/ /\ \E some \in SUBSET del.list : instance' = Terminated(some)
          /\ del' = Resting
       \/ /\ del' = [del EXCEPT !.at = "ok", !.declined = TRUE]
          /\ UNCHANGED instance
    /\ UNCHANGED <<nstance, stack, runs, fresh>>

\* A call fails, the command is killed, or it is over.
End ==
    /\ ~At("resting") /\ del' = Resting
    /\ UNCHANGED <<nstance, instance, stack, runs, fresh>>

----------------------------------------------------------------------------
(* Nstance and the cloud.                                                  *)

Change(s) ==
    /\ stack # "gone" /\ changes < MaxChanges /\ changes' = changes + 1
    /\ \E size \in {0, 1} : config' = [config EXCEPT ![s] = [size |-> size, gen |-> @.gen + 1]]
    /\ UNCHANGED <<view, instance, stack, runs, del, fresh>>

Reconcile(s) ==
    /\ stack # "gone" /\ view' = [view EXCEPT ![s] = config[s].size]
    /\ UNCHANGED <<config, changes, instance, stack, runs, del, fresh>>

Launch(i, s) ==
    /\ stack # "gone" /\ view[s] = 1 /\ instance[i] = "none"
    /\ instance' = [instance EXCEPT ![i] = "running"] /\ fresh' = fresh \cup {i}
    /\ UNCHANGED <<nstance, stack, runs, del>>

Stop(i, s) ==
    /\ stack # "gone" /\ view[s] = 0 /\ instance[i] = "running"
    /\ instance' = [instance EXCEPT ![i] = "terminating"]
    /\ UNCHANGED <<nstance, stack, runs, del, fresh>>

Gone(i) ==
    /\ instance[i] = "terminating" /\ instance' = [instance EXCEPT ![i] = "gone"]
    /\ UNCHANGED <<nstance, stack, runs, del, fresh>>

Next ==
    \/ Outputs \/ Read \/ Put \/ Wait \/ Waiting \/ Confirm \/ Terminate
    \/ Destroy \/ Destroyed \/ Look \/ Offer \/ End
    \/ \E s \in Shards :
         \/ Change(s) \/ Reconcile(s)
         \/ \E i \in Ids : Launch(i, s) \/ Stop(i, s)
    \/ \E i \in Ids : Gone(i)

Spec == Init /\ [][Next]_dvars

----------------------------------------------------------------------------

TypeOK ==
    /\ instance \in [Ids -> {"none", "running", "terminating", "gone"}]
    /\ stack \in {"up", "partly", "gone"} /\ changes \in 0..MaxChanges
    /\ runs \in 0..MaxRuns /\ del.shard \in 1..Len(ShardOrder) + 1
    /\ fresh \subseteq Ids

\* OpenTofu destroys nothing while instances are known to run: what is there
\* then was launched after a listing that showed none (Delete).
DestroysEmpty ==
    At("destroying") => Present \subseteq fresh

\* A delete that succeeds has left no instance but those that the user wanted
\* to keep, also when a controller that had read an old size launched one while
\* OpenTofu was at work (Delete).
NothingLeftRunning ==
    At("ok") /\ ~del.declined =>
        stack = "gone" /\ \A i \in Ids : instance[i] # "running"

\* Whatever others change between the two calls, a put that is let through
\* replaces the size that was read, so that nobody's change goes unseen
\* (UpdateObject).
NeverOverwrites == At("put") /\ Matches => config[Shard].size = del.size

\* What a delete destroys, leaves and overwrites (delete.go: Delete).
DeleteSound == DestroysEmpty /\ NothingLeftRunning /\ NeverOverwrites
=============================================================================
