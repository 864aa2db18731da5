----------------------------- MODULE MCStacks ------------------------------
(***************************************************************************)
(* Model checking what a cluster in a cloud is made with and deleted with. *)
(* The parts share no state: one run explores them side by side, and an    *)
(* initial state says which of them moves; one is ClusterDelete itself.    *)
(***************************************************************************)
EXTENDS ClusterDelete, Sequences

CONSTANTS
    Commands, Stacks, Platforms, Host, MaxRelease, Clis, MaxTofuRuns, \* TofuCache
    Runs, Hosts, NoHost, Repeatable, MaxStateRuns,                    \* StateBucket
    Providers                                                         \* EngineProcess

\* A cluster has a shard (parseOutputs); a mirror has the platform it is for.
ASSUME ConstantsAssumption ==
    /\ ShardOrder \in Seq(Shards) /\ ShardOrder # <<>> /\ MaxChanges \in Nat /\ MaxRuns \in Nat
    /\ Stacks # {} /\ Host \in Platforms /\ MaxRelease \in Nat \ {0}
    /\ MaxTofuRuns \in Nat /\ MaxStateRuns \in Nat

VARIABLES
    part,
    modulesOut, mirrored, modules, lock, current, platforms,
    tofuStack, tofuCmd, tofuRuns, otherTools,                 \* TofuCache
    cloud, bucket, run, started, origin,                      \* StateBucket
    call, ctx, engine, alive, done, relay,
    cliConfig, state, told, forced                            \* EngineProcess

\* Two shards.
MCShardOrder == <<"a", "b">>

Tofu == INSTANCE TofuCache WITH
    MaxRuns <- MaxTofuRuns, published <- modulesOut, mirror <- mirrored,
    disturbed <- otherTools, stack <- tofuStack, cmd <- tofuCmd,
    runs <- tofuRuns

State == INSTANCE StateBucket WITH MaxRuns <- MaxStateRuns

Engine == INSTANCE EngineProcess WITH config <- cliConfig, stack <- state

tofuVars == <<modulesOut, mirrored, modules, lock, current, platforms,
    tofuStack, tofuCmd, tofuRuns, otherTools>>
stateVars == <<cloud, bucket, run, started, origin>>
engineVars == <<call, ctx, engine, alive, done, relay, cliConfig, state, told, forced>>
allVars == <<part, dvars, tofuVars, stateVars, engineVars>>

\* Part i moves, the others stay as they are.
Moves(i) ==
    /\ part = i /\ UNCHANGED part
    /\ i # "delete" => UNCHANGED dvars
    /\ i # "tofu" => UNCHANGED tofuVars
    /\ i # "state" => UNCHANGED stateVars
    /\ i # "engine" => UNCHANGED engineVars

\* A part that does not move begins in one way only.
PartsInit ==
    /\ part \in {"delete", "tofu", "state", "engine"}
    /\ Init /\ Tofu!Init /\ State!Init /\ Engine!Init
    /\ part # "tofu" => current = 0 /\ \A s \in Stacks : tofuStack[s].main = 0
    /\ part # "state" => cloud = "s3" /\ bucket.there = "nobody"
    /\ part # "delete" => \A i \in Ids : instance[i] = "none"

PartsNext ==
    \/ Moves("delete") /\ Next
    \/ Moves("tofu") /\ Tofu!Next
    \/ Moves("state") /\ State!Next
    \/ Moves("engine") /\ Engine!Next

PartsSpec == PartsInit /\ [][PartsNext]_allVars

----------------------------------------------------------------------------

\* The type invariants of the parts.
PartsTypeOK ==
    /\ TypeOK
    /\ Tofu!TypeOK
    /\ State!TypeOK
    /\ Engine!TypeOK

\* Stacks can be initialised, restored and upgraded (TofuCache), by an engine
\* that is stopped with care (EngineProcess).
StacksWork == Tofu!StacksWork /\ Engine!EngineSound

\* State goes to a bucket that is safe (StateBucket).
BucketSound == State!BucketSound
============================================================================
