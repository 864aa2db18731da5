---------------------------- MODULE StacksProofs ---------------------------
(***************************************************************************)
(* What a cluster in a cloud is made with and deleted with, proved for any *)
(* number of commands, stacks, platforms, releases, shards, instances and  *)
(* runs.  A section for each part: its inductive invariant, one lemma for  *)
(* each group of actions, and the theorems.                                *)
(***************************************************************************)
EXTENDS MCStacks, TLAPS

(***************************************************************************)
(* ClusterDelete.  The step before Destroy has seen no instance, so what   *)
(* is there later was launched since; when the stack is gone nothing       *)
(* launches any more, so what Look finds is all there is until the delete  *)
(* ends.                                                                   *)
(***************************************************************************)

DeleteFields == {"at", "shard", "gen", "size", "list", "again", "declined"}

DeleteTypes ==
    /\ DOMAIN del = DeleteFields
    /\ instance \in [Ids -> {"none", "running", "terminating", "gone"}]

\* What is there when the stack is being destroyed was not there at the last
\* listing.
DestroysWhatIsEmpty ==
    At("destroy") \/ At("destroying") => Present \subseteq fresh

\* The second look, and what follows it, is at a stack that is gone.
LooksWhenGone == At("look") \/ At("offer") \/ At("ok") => stack = "gone"

\* Nothing was launched since the second look.
ListIsComplete == At("offer") => Present \subseteq del.list

NoneRuns == At("ok") /\ ~del.declined => \A i \in Ids : instance[i] # "running"

DeleteInv ==
    /\ DeleteTypes
    /\ DestroysWhatIsEmpty /\ LooksWhenGone /\ ListIsComplete /\ NoneRuns

\* Every change makes a later generation; a delete that is about to put has read
\* this one or an earlier one, and if this one, this size.
ReadInv ==
    /\ config \in [Shards -> [size : {0, 1}, gen : Nat]]
    /\ At("put") =>
         /\ Shard \in Shards /\ del.gen \in Nat /\ del.gen <= config[Shard].gen
         /\ del.gen = config[Shard].gen => config[Shard].size = del.size

----------------------------------------------------------------------------

\* The invariants are stronger than the property.
LEMMA DeleteEnough == DeleteInv /\ ReadInv => DeleteSound
BY DEF DeleteInv, DestroysWhatIsEmpty, LooksWhenGone, NoneRuns, DeleteSound,
       DestroysEmpty, NothingLeftRunning, NeverOverwrites, ReadInv, Matches

\* No cluster has a delete under way when it is made.
LEMMA DeleteInitHolds == Init => DeleteInv
<1>. SUFFICES ASSUME Init PROVE DeleteInv
  OBVIOUS
<1>1. DeleteTypes
  BY DEF Init, DeleteTypes, Resting, DeleteFields
<1>2. At("resting")
  BY DEF Init, Resting, At
<1>. QED  BY <1>1, <1>2 DEF DeleteInv, At, DestroysWhatIsEmpty, LooksWhenGone,
             ListIsComplete, NoneRuns

\* A command that rests asks nothing of the cluster (End, and every failure).
LEMMA RestedDeleteIsSafe ==
    ASSUME DeleteTypes', del' = Resting
    PROVE  DeleteInv'
BY DEF DeleteInv, Resting, At, DestroysWhatIsEmpty, LooksWhenGone, ListIsComplete, NoneRuns

\* The same holds at every step before it destroys (Read, Put, Waiting, ...).
LEMMA EarlyDeleteIsSafe ==
    ASSUME DeleteTypes',
           del'.at \in {"resting", "read", "put", "wait", "waiting", "ask", "terminate"}
    PROVE  DeleteInv'
BY DEF DeleteInv, At, DestroysWhatIsEmpty, LooksWhenGone, ListIsComplete, NoneRuns

----------------------------------------------------------------------------
(* One lemma for each group of actions.                                    *)

\* Steps that begin a delete and scale its shards (Outputs, Read, Put).
LEMMA ScalingKeeps ==
    ASSUME DeleteInv, Outputs \/ Read \/ Put
    PROVE  DeleteInv'
<1>. USE DEF At, Goto, nstance
<1>1. DeleteTypes'
  BY DEF DeleteInv, DeleteTypes, DeleteFields, Outputs, Read, Put, Resting
<1>2. del'.at \in {"resting", "read", "put", "wait"}
  <2>1. CASE Outputs
    BY <2>1 DEF DeleteInv, DeleteTypes, DeleteFields, Outputs, Resting
  <2>2. CASE Read
    BY <2>2 DEF DeleteInv, DeleteTypes, DeleteFields, Read, NextStep
  <2>3. CASE Put
    <3>1. \/ del' = Resting
          \/ del' = [del EXCEPT !.at = NextStep, !.shard = @ + 1]
      BY <2>3 DEF Put
    <3>2. CASE del' = Resting
      BY <3>2 DEF Resting
    <3>3. CASE del' = [del EXCEPT !.at = NextStep, !.shard = @ + 1]
      BY <3>3 DEF DeleteInv, DeleteTypes, DeleteFields, NextStep
    <3>. QED  BY <3>1, <3>2, <3>3
  <2>. QED  BY <2>1, <2>2, <2>3
<1>. QED  BY <1>1, <1>2, EarlyDeleteIsSafe

\* Steps that wait for the instances and terminate them (Wait, Waiting,
\* Confirm, Terminate): Destroy is next only when none was there.
LEMMA WaitingKeeps ==
    ASSUME DeleteInv, Wait \/ Waiting \/ Confirm \/ Terminate
    PROVE  DeleteInv'
<1>. USE DEF At, Goto, nstance
<1>1. DeleteTypes'
  BY DEF DeleteInv, DeleteTypes, DeleteFields, Wait, Waiting, AfterWait, Confirm, Terminate,
         Terminated, Resting
<1>2. CASE Wait /\ Present = {}
  <2>1. del'.at = "destroy" /\ instance' = instance
    BY <1>2 DEF Wait, DeleteInv, DeleteTypes, DeleteFields
  <2>. QED  BY <1>1, <1>2, <2>1
            DEF DeleteInv, DestroysWhatIsEmpty, LooksWhenGone, ListIsComplete, NoneRuns,
                Present
<1>3. CASE ~(Wait /\ Present = {})
  <2>1. del'.at \in {"resting", "wait", "waiting", "ask", "terminate"}
    <3>1. CASE Wait
      BY <1>3, <3>1 DEF DeleteInv, DeleteTypes, DeleteFields, Wait
    <3>2. CASE Waiting
      <4>1. AfterWait \in {"resting", "ask"}
        BY DEF AfterWait
      <4>2. \/ del' = Resting
            \/ \E at \in {"wait", "ask"} : del' = [del EXCEPT !.at = at]
        BY <3>2, <4>1 DEF Waiting
      <4>. QED  BY <4>2 DEF DeleteInv, DeleteTypes, DeleteFields, Resting
    <3>3. CASE Confirm \/ Terminate
      <4>1. \/ del' = Resting
            \/ del' = [del EXCEPT !.at = "terminate"]
            \/ del' = [del EXCEPT !.at = "wait", !.again = TRUE]
        BY <3>3 DEF Confirm, Terminate
      <4>2. CASE del' = Resting
        BY <4>2 DEF Resting
      <4>3. CASE del' = [del EXCEPT !.at = "terminate"]
        BY <4>3 DEF DeleteInv, DeleteTypes, DeleteFields
      <4>4. CASE del' = [del EXCEPT !.at = "wait", !.again = TRUE]
        BY <4>4 DEF DeleteInv, DeleteTypes, DeleteFields
      <4>. QED  BY <4>1, <4>2, <4>3, <4>4
    <3>. QED  BY <3>1, <3>2, <3>3
  <2>. QED  BY <1>1, <2>1, EarlyDeleteIsSafe
<1>. QED  BY <1>2, <1>3

\* Destroy, and what follows it: the stack is gone before anybody looks again.
LEMMA DestroyKeeps ==
    ASSUME DeleteInv, Destroy \/ Destroyed
    PROVE  DeleteInv'
<1>. USE DEF At, Goto, nstance
<1>1. DeleteTypes'
  BY DEF DeleteInv, DeleteTypes, DeleteFields, Destroy, Destroyed, Resting
<1>2. CASE del' = Resting
  BY <1>1, <1>2, RestedDeleteIsSafe
<1>3. CASE Destroy /\ del' # Resting
  <2>1. del.at = "destroy" /\ del'.at = "destroying"
    BY <1>3 DEF Destroy, DeleteInv, DeleteTypes, DeleteFields
  <2>2. Present' \subseteq fresh'
    BY <1>3, <2>1 DEF Destroy, DeleteInv, DestroysWhatIsEmpty, Present
  <2>. QED  BY <1>1, <2>1, <2>2
            DEF DeleteInv, DestroysWhatIsEmpty, LooksWhenGone, ListIsComplete, NoneRuns
<1>4. CASE Destroyed /\ del' # Resting
  <2>1. del'.at = "look" /\ stack' = "gone"
    BY <1>4 DEF Destroyed, DeleteInv, DeleteTypes, DeleteFields
  <2>. QED  BY <1>1, <2>1
            DEF DeleteInv, DestroysWhatIsEmpty, LooksWhenGone, ListIsComplete, NoneRuns
<1>. QED  BY <1>2, <1>3, <1>4

\* The second look finds all that there is.
LEMMA LookKeeps ==
    ASSUME DeleteInv, Look
    PROVE  DeleteInv'
<1>. USE DEF At, Goto, nstance
<1>1. DeleteTypes' /\ stack' = "gone" /\ instance' = instance
  BY DEF DeleteInv, DeleteTypes, DeleteFields, Look, LooksWhenGone
<1>2. del'.list = Present /\ del'.at = (IF Present = {} THEN "ok" ELSE "offer")
  BY DEF DeleteInv, DeleteTypes, DeleteFields, Look, Dangling
<1>3. Present' = Present
  BY <1>1 DEF Present
<1>4. Present = {} => \A i \in Ids : instance'[i] # "running"
  BY <1>1 DEF Present
<1>. QED  BY <1>1, <1>2, <1>3, <1>4
          DEF DeleteInv, DestroysWhatIsEmpty, LooksWhenGone, ListIsComplete, NoneRuns

\* All that was found is terminated, or the user declines.
LEMMA OfferKeeps ==
    ASSUME DeleteInv, Offer
    PROVE  DeleteInv'
<1>. USE DEF At, Goto, nstance
<1>1. DeleteTypes'
  BY DEF DeleteInv, DeleteTypes, DeleteFields, Offer, Terminated, Resting
<1>2. CASE del' = Resting
  BY <1>1, <1>2, RestedDeleteIsSafe
<1>3. CASE del' # Resting
  <2>1. stack' = "gone" /\ del'.at = "ok"
    BY <1>3 DEF Offer, DeleteInv, DeleteTypes, DeleteFields, LooksWhenGone
  <2>2. ~del'.declined => \A i \in Ids : instance'[i] # "running"
    <3>1. SUFFICES ASSUME ~del'.declined PROVE \A i \in Ids : instance'[i] # "running"
      OBVIOUS
    <3>2. instance' = Terminated(del.list)
      BY <1>3, <3>1 DEF Offer, DeleteInv, DeleteTypes, DeleteFields
    <3>3. Present \subseteq del.list
      BY DEF Offer, DeleteInv, ListIsComplete
    <3>. QED  BY <3>2, <3>3 DEF Terminated, Present
  <2>. QED  BY <1>1, <2>1, <2>2
            DEF DeleteInv, DestroysWhatIsEmpty, LooksWhenGone, ListIsComplete, NoneRuns
<1>. QED  BY <1>2, <1>3

\* What Nstance, the cloud and other users do: nothing is launched when the
\* stack is gone, and what is launched is fresh.
LEMMA OthersKeep ==
    ASSUME DeleteInv,
           \/ \E s \in Shards : Change(s) \/ Reconcile(s)
           \/ \E s \in Shards, i \in Ids : Launch(i, s) \/ Stop(i, s)
           \/ \E i \in Ids : Gone(i)
    PROVE  DeleteInv'
<1>. USE DEF nstance
<1>1. DeleteTypes' /\ del' = del /\ stack' = stack
  BY DEF DeleteInv, DeleteTypes, Change, Reconcile, Launch, Stop, Gone
<1>2. ASSUME stack = "gone"
      PROVE  /\ Present' \subseteq Present
             /\ \A i \in Ids : instance'[i] = "running" => instance[i] = "running"
  BY <1>2 DEF DeleteInv, DeleteTypes, Present, Change, Reconcile, Launch, Stop, Gone
<1>3. Present \subseteq fresh => Present' \subseteq fresh'
  BY DEF DeleteInv, DeleteTypes, Present, Change, Reconcile, Launch, Stop, Gone
<1>. QED  BY <1>1, <1>2, <1>3
          DEF DeleteInv, At, DestroysWhatIsEmpty, LooksWhenGone, ListIsComplete, NoneRuns

----------------------------------------------------------------------------

\* No step disturbs the invariant.
LEMMA DeleteNextKeeps == DeleteInv /\ [Next]_dvars => DeleteInv'
<1>. SUFFICES ASSUME DeleteInv, [Next]_dvars PROVE DeleteInv'
  OBVIOUS
<1>1. CASE End
  <2>1. DeleteTypes' /\ del' = Resting
    BY <1>1 DEF DeleteInv, DeleteTypes, DeleteFields, End, Resting, nstance
  <2>. QED  BY <2>1, RestedDeleteIsSafe
<1>2. CASE UNCHANGED dvars
  BY <1>2 DEF dvars, DeleteInv, DeleteTypes, At, DestroysWhatIsEmpty, LooksWhenGone,
              ListIsComplete, NoneRuns, Present
<1>. QED  BY <1>1, <1>2, ScalingKeeps, WaitingKeeps, DestroyKeeps, LookKeeps,
             OfferKeeps, OthersKeep DEF Next

\* A delete works on a shard that there is as long as it scales them.
DeleteTypeInv ==
    /\ TypeOK /\ DOMAIN del = DeleteFields
    /\ At("read") \/ At("put") => del.shard \in 1..Len(ShardOrder)

\* The variables of ClusterDelete keep their types.
LEMMA DeleteTypesKeep == DeleteTypeInv /\ [Next]_dvars => DeleteTypeInv'
<1>. SUFFICES ASSUME DeleteTypeInv, [Next]_dvars PROVE DeleteTypeInv'
  OBVIOUS
<1>. DEFINE World ==
       /\ instance' \in [Ids -> {"none", "running", "terminating", "gone"}]
       /\ stack' \in {"up", "partly", "gone"} /\ changes' \in 0..MaxChanges
       /\ runs' \in 0..MaxRuns /\ fresh' \subseteq Ids
<1>1. World /\ (del' = Resting => DeleteTypeInv')
  <2>1. World
    BY ConstantsAssumption DEF DeleteTypeInv, TypeOK, Next, dvars, Outputs, Read, Put, Wait,
       Waiting, Confirm, Terminate, Terminated, Destroy, Destroyed, Look, Offer, End,
       Change, Reconcile, Launch, Stop, Gone, nstance, At, Goto
  <2>. QED  BY <2>1, ConstantsAssumption DEF DeleteTypeInv, TypeOK, Resting, DeleteFields, At
<1>2. ASSUME DOMAIN del' = DeleteFields, del'.shard = del.shard,
             del'.at \notin {"read", "put"} \/ del.at \in {"read", "put"}
      PROVE  DeleteTypeInv'
  BY <1>1, <1>2 DEF DeleteTypeInv, TypeOK, At
<1>3. ASSUME NEW at \in {"wait", "waiting", "ask", "terminate", "destroy", "destroying",
                         "look", "offer", "ok"},
             \/ del' = [del EXCEPT !.at = at]
             \/ \E list : del' = [del EXCEPT !.at = at, !.list = list]
             \/ \E list : del' = [del EXCEPT !.list = list, !.at = at]
             \/ del' = [del EXCEPT !.at = at, !.again = TRUE]
             \/ del' = [del EXCEPT !.at = at, !.declined = TRUE]
      PROVE  DeleteTypeInv'
  BY <1>2, <1>3 DEF DeleteTypeInv, DeleteFields
<1>4. CASE Outputs
  <2>1. CASE del' = [Resting EXCEPT !.at = "read"]
    <3>1. DOMAIN del' = DeleteFields /\ del'.shard = 1
      BY <2>1 DEF Resting, DeleteFields
    <3>. QED  BY <1>1, <3>1, ConstantsAssumption DEF DeleteTypeInv, TypeOK
  <2>2. CASE del' = del
    BY <1>2, <2>2 DEF DeleteTypeInv
  <2>. QED  BY <1>4, <2>1, <2>2 DEF Outputs
<1>5. CASE Read \/ Put
  <2>1. del.shard \in 1..Len(ShardOrder)
    BY <1>5 DEF DeleteTypeInv, Read, Put
  <2>2. CASE del' = [del EXCEPT !.at = NextStep, !.shard = @ + 1]
    <3>1. DOMAIN del' = DeleteFields /\ del'.shard = del.shard + 1 /\ del'.at = NextStep
      BY <2>2 DEF DeleteTypeInv, DeleteFields
    <3>2. del'.shard \in 1..Len(ShardOrder) + 1
          /\ (del'.at \in {"read", "put"} => del'.shard \in 1..Len(ShardOrder))
      BY <2>1, <3>1, ConstantsAssumption DEF NextStep
    <3>. QED  BY <1>1, <3>1, <3>2 DEF DeleteTypeInv, TypeOK, At
  <2>3. CASE del' = [del EXCEPT !.at = "put", !.gen = config[Shard].gen,
                                !.size = config[Shard].size]
    BY <1>2, <1>5, <2>3 DEF DeleteTypeInv, DeleteFields, Read, Put, At
  <2>. QED  BY <1>1, <1>5, <2>2, <2>3 DEF Read, Put
<1>6. CASE Wait \/ Waiting \/ Confirm \/ Terminate
  <2>1. AfterWait \in {"resting", "ask"}
    BY DEF AfterWait
  <2>. QED  BY <1>1, <1>3, <1>6, <2>1 DEF Wait, Waiting, Confirm, Terminate, Goto
<1>7. CASE Destroy \/ Destroyed \/ Offer
  BY <1>1, <1>3, <1>7 DEF Destroy, Destroyed, Offer, Goto
<1>8. CASE Look
  <2>1. (IF Dangling = {} THEN "ok" ELSE "offer") \in {"ok", "offer"}
    OBVIOUS
  <2>. QED  BY <1>3, <1>8, <2>1 DEF Look
<1>9. CASE End
  BY <1>1, <1>9 DEF End
<1>10. CASE del' = del
  BY <1>2, <1>10 DEF DeleteTypeInv
<1>11. CASE \/ \E s \in Shards : Change(s) \/ Reconcile(s)
            \/ \E s \in Shards, i \in Ids : Launch(i, s) \/ Stop(i, s)
            \/ \E i \in Ids : Gone(i)
            \/ UNCHANGED dvars
  BY <1>10, <1>11 DEF Change, Reconcile, Launch, Stop, Gone, dvars
<1>. QED  BY <1>4, <1>5, <1>6, <1>7, <1>8, <1>9, <1>11 DEF Next

\* What is put is what was read: others only make later generations.
LEMMA ReadInvKeeps == DeleteTypeInv /\ ReadInv /\ [Next]_dvars => ReadInv'
<1>. SUFFICES ASSUME DeleteTypeInv, ReadInv, [Next]_dvars PROVE ReadInv'
  OBVIOUS
<1>1. ASSUME config' = config, del'.at # "put" \/ del' = del
      PROVE  ReadInv'
  BY <1>1 DEF ReadInv, At, Shard
<1>2. CASE Read
  <2>1. CASE del' = [del EXCEPT !.at = NextStep, !.shard = @ + 1]
    <3>1. del'.at # "put"
      BY <2>1 DEF NextStep, DeleteTypeInv, DeleteFields
    <3>. QED  BY <1>1, <1>2, <3>1 DEF Read, nstance
  <2>2. CASE del' = [del EXCEPT !.at = "put", !.gen = config[Shard].gen,
                                !.size = config[Shard].size]
    <3>1. Shard \in Shards
      BY <1>2, ConstantsAssumption DEF Read, DeleteTypeInv, Shard, Shards
    <3>2. /\ del'.shard = del.shard /\ del'.gen = config[Shard].gen
          /\ del'.size = config[Shard].size
      BY <2>2 DEF DeleteTypeInv, DeleteFields
    <3>3. config' = config
      BY <1>2 DEF Read, nstance
    <3>. QED  BY <3>1, <3>2, <3>3 DEF ReadInv, Shard
  <2>. QED  BY <1>2, <2>1, <2>2 DEF Read
<1>3. CASE Put
  <2>1. CASE Matches
    <3>1. del'.at # "put"
      BY <1>3, <2>1 DEF Put, NextStep, DeleteTypeInv, DeleteFields
    <3>2. config' \in [Shards -> [size : {0, 1}, gen : Nat]]
      BY <1>3, <2>1 DEF Put, ReadInv
    <3>. QED  BY <3>1, <3>2 DEF ReadInv, At
  <2>2. CASE ~Matches
    <3>1. del'.at # "put"
      BY <1>3, <2>2 DEF Put, Resting
    <3>. QED  BY <1>1, <1>3, <2>2, <3>1 DEF Put
  <2>. QED  BY <2>1, <2>2
<1>4. ASSUME NEW s \in Shards, Change(s)
      PROVE  ReadInv'
  <2>1. PICK size \in {0, 1} :
          config' = [config EXCEPT ![s] = [size |-> size, gen |-> @.gen + 1]]
    BY <1>4 DEF Change
  <2>2. config' \in [Shards -> [size : {0, 1}, gen : Nat]]
    BY <2>1 DEF ReadInv
  <2>3. del' = del
    BY <1>4 DEF Change
  <2>4. ASSUME At("put")
        PROVE  /\ del.gen <= config'[Shard].gen
               /\ del.gen = config'[Shard].gen => config'[Shard].size = del.size
    <3>1. CASE Shard = s
      BY <2>1, <2>4, <3>1 DEF ReadInv
    <3>2. CASE Shard # s
      BY <2>1, <2>4, <3>2 DEF ReadInv
    <3>. QED  BY <3>1, <3>2
  <2>. QED  BY <2>2, <2>3, <2>4 DEF ReadInv, At, Shard
<1>5. CASE Outputs
  BY <1>1, <1>5 DEF Outputs, Resting, nstance
<1>6. CASE Wait \/ Waiting \/ Confirm \/ Terminate
  <2>1. AfterWait \in {"resting", "ask"}
    BY DEF AfterWait
  <2>2. config' = config
    BY <1>6 DEF Wait, Waiting, Confirm, Terminate, nstance
  <2>3. \/ del' = Resting
        \/ \E at \in {"destroy", "wait", "ask", "terminate"} :
              del' = [del EXCEPT !.at = at]
        \/ del' = [del EXCEPT !.at = "waiting", !.list = Present]
        \/ del' = [del EXCEPT !.at = "wait", !.again = TRUE]
    BY <1>6, <2>1 DEF Wait, Waiting, Confirm, Terminate, Goto
  <2>4. del'.at # "put"
    <3>1. CASE del' = Resting
      BY <3>1 DEF Resting
    <3>2. CASE \E at \in {"destroy", "wait", "ask", "terminate"} :
                 del' = [del EXCEPT !.at = at]
      BY <3>2 DEF DeleteTypeInv, DeleteFields
    <3>3. CASE \/ del' = [del EXCEPT !.at = "waiting", !.list = Present]
               \/ del' = [del EXCEPT !.at = "wait", !.again = TRUE]
      BY <3>3 DEF DeleteTypeInv, DeleteFields
    <3>. QED  BY <2>3, <3>1, <3>2, <3>3
  <2>. QED  BY <1>1, <2>2, <2>4
<1>7. CASE Destroy \/ Destroyed \/ Look \/ Offer \/ End
  <2>1. config' = config
    BY <1>7 DEF Destroy, Destroyed, Look, Offer, End, nstance
  <2>2. \/ del' = Resting
        \/ \E at \in {"destroying", "look", "ok"} : del' = [del EXCEPT !.at = at]
        \/ \E at \in {"ok", "offer"} : del' = [del EXCEPT !.list = Dangling, !.at = at]
        \/ del' = [del EXCEPT !.at = "ok", !.declined = TRUE]
    BY <1>7 DEF Destroy, Destroyed, Look, Offer, End, Goto
  <2>3. del'.at # "put"
    <3>1. CASE del' = Resting
      BY <3>1 DEF Resting
    <3>2. CASE \E at \in {"destroying", "look", "ok"} : del' = [del EXCEPT !.at = at]
      BY <3>2 DEF DeleteTypeInv, DeleteFields
    <3>3. CASE \/ \E at \in {"ok", "offer"} :
                    del' = [del EXCEPT !.list = Dangling, !.at = at]
               \/ del' = [del EXCEPT !.at = "ok", !.declined = TRUE]
      BY <3>3 DEF DeleteTypeInv, DeleteFields
    <3>. QED  BY <2>2, <3>1, <3>2, <3>3
  <2>. QED  BY <1>1, <2>1, <2>3
<1>8. CASE \/ \E s \in Shards : Reconcile(s)
           \/ \E s \in Shards, i \in Ids : Launch(i, s) \/ Stop(i, s)
           \/ \E i \in Ids : Gone(i)
           \/ UNCHANGED dvars
  BY <1>1, <1>8 DEF Reconcile, Launch, Stop, Gone, nstance, dvars
<1>. QED  BY <1>2, <1>3, <1>4, <1>5, <1>6, <1>7, <1>8 DEF Next

\* A delete never destroys instances that it has seen, leaves none running that
\* the user did not want to keep, and puts a size away only as it was read,
\* whatever others have set meanwhile (delete.go: Delete).
THEOREM DeleteIsSound == Spec => []DeleteSound
<1>1. Init => DeleteTypeInv
  BY ConstantsAssumption DEF Init, DeleteTypeInv, TypeOK, Resting, DeleteFields, At
<1>2. Init => ReadInv
  BY DEF Init, ReadInv, Resting, At
<1>. QED  BY <1>1, <1>2, DeleteTypesKeep, ReadInvKeeps, DeleteInitHolds, DeleteNextKeeps,
             DeleteEnough, PTL DEF Spec

----------------------------------------------------------------------------
(***************************************************************************)
(* TofuCache.  While nobody disturbs a command it knows what its steps so  *)
(* far have put into the cache: a pinned stack is as it was found and the  *)
(* lock file that is resolved is its own; otherwise the modules, the lock  *)
(* file and the version are of one release, from the resolution on.        *)
(***************************************************************************)

MaybeVersions == Tofu!Versions \cup {Tofu!NoVersion}
Locks == [rel : MaybeVersions, cli : Clis \cup {0, 1}]
StackRecord == [main : MaybeVersions, lock : Locks]

CommandStages ==
    {"resolve", "pinned", "current", "available", "merge", "install", "lock", "version",
     "platforms", "again", "configure", "write", "ok"}

CommandRecord ==
    [at : CommandStages, op : {"deps", "create", "delete", "upgrade"}, stack : Stacks,
     cli : Clis, all : SUBSET Platforms, exact : MaybeVersions, found : StackRecord,
     version : MaybeVersions, seed : Locks]

CacheTypes ==
    /\ modulesOut \in Tofu!Versions /\ current \in MaybeVersions /\ lock \in Locks
    /\ modules \in [Tofu!Versions -> {"none", "aws", "both"}]
    /\ platforms \subseteq Platforms
    /\ tofuStack \in [Stacks -> StackRecord]
    /\ tofuCmd \in [Commands -> {Tofu!Resting} \cup CommandRecord]
    /\ otherTools \in [Commands -> BOOLEAN]

Downloading == {"merge", "install", "lock", "version", "platforms", "again"}

Pinned(c) == tofuCmd[c].exact # Tofu!NoVersion

\* What each kind of command does, and with what.
KindOf(c) ==
    LET u == tofuCmd[c] IN
    /\ u.op # "deps" => Host \in u.all
    /\ Pinned(c) => u.op \in {"create", "delete"}
    /\ u.op \in {"create", "delete"} => u.exact = u.found.main
    /\ u.op \in {"deps", "upgrade"} => u.at \notin {"pinned", "current", "available"}
    /\ u.op = "deps" => u.at \notin {"again", "configure", "write"}
    /\ u.at = "pinned" => Pinned(c)
    /\ u.at \in {"current", "available", "lock", "version", "again"} => ~Pinned(c)

\* A pinned stack stays as it was found, and what is fetched is what it names.
PinnedIsKept(c) ==
    LET u == tofuCmd[c] IN
    Pinned(c) =>
        /\ Tofu!Mine(c) = u.found /\ u.version = u.exact
        /\ u.at # "pinned" => u.seed = u.found.lock /\ Tofu!MayUse(u.seed, u.cli)
        /\ u.at \in {"configure", "write", "ok"} => Tofu!Available(u.version, u.seed, Host)

\* What a download has put into the cache so far.
Downloaded(c) ==
    LET u == tofuCmd[c] IN
    /\ u.at \in Downloading => u.version # Tofu!NoVersion /\ Tofu!MayUse(u.seed, u.cli)
    /\ u.at \in Downloading \ {"merge"} =>
         \A p \in u.all : Tofu!Packages(u.seed, p) \subseteq mirrored
    /\ u.at \in Downloading \ {"merge", "install"} => modules[u.version] = "both"

\* Otherwise it is one release, and the cache names it when it is whole.
FreshIsWhole(c) ==
    LET u == tofuCmd[c] IN
    ~Pinned(c) =>
        /\ u.at \in {"resolve", "current", "available"} => u.seed = Tofu!NoLock
        /\ u.at \in Downloading => u.version = u.seed.rel
        /\ u.at \in {"version", "platforms", "again"} => lock = u.seed
        /\ u.at \in {"platforms", "again"} => current = u.version
        /\ u.at = "configure" =>
             /\ Tofu!Available(u.version, lock, Host) /\ Tofu!MayUse(lock, u.cli)
             /\ u.op = "upgrade" => u.version = lock.rel /\ u.version = current

\* What is handed to OpenTofu.
HandedOver(c) ==
    LET u == tofuCmd[c] IN
    u.at = "write" \/ (u.at = "ok" /\ u.op # "deps") =>
        /\ Tofu!Available(u.version, Tofu!Mine(c).lock, Host)
        /\ Tofu!LockMatches(Tofu!Mine(c).lock, u.cli)
        /\ u.op = "upgrade" => u.version = Tofu!Mine(c).lock.rel /\ u.version = current
        /\ u.op = "upgrade" /\ u.at = "ok" => Tofu!Mine(c).main = u.version

CommandSound(c) ==
    tofuCmd[c].at # "resting" =>
        /\ KindOf(c)
        /\ ~otherTools[c] =>
             PinnedIsKept(c) /\ Downloaded(c) /\ FreshIsWhole(c) /\ HandedOver(c)

CacheInv == CacheTypes /\ \A c \in Commands : CommandSound(c)

----------------------------------------------------------------------------

\* The invariant is stronger than the three properties of TofuCache.
LEMMA CacheEnough == CacheInv => Tofu!StacksWork
<1>. SUFFICES ASSUME CacheInv PROVE Tofu!EnsuredUsable /\ Tofu!PinnedRestored /\ Tofu!UpgradeWhole
  BY DEF Tofu!StacksWork
<1>. USE DEF CacheInv, CommandSound, Tofu!At
<1>1. Tofu!EnsuredUsable
  BY DEF Tofu!EnsuredUsable, HandedOver
<1>2. Tofu!PinnedRestored
  BY DEF Tofu!PinnedRestored, KindOf, PinnedIsKept, Pinned
<1>3. Tofu!UpgradeWhole
  BY DEF Tofu!UpgradeWhole, HandedOver
<1>. QED  BY <1>1, <1>2, <1>3

\* The invariant holds of a cache that is empty or of the first release.
LEMMA CacheInitHolds == Tofu!Init => CacheInv
<1>. SUFFICES ASSUME Tofu!Init PROVE CacheInv
  OBVIOUS
<1>1. CacheTypes
  <2>1. 1 \in Tofu!Versions /\ 0 \in MaybeVersions /\ 1 \in MaybeVersions
    BY ConstantsAssumption DEF Tofu!Versions, MaybeVersions, Tofu!NoVersion
  <2>2. Tofu!NoLock \in Locks /\ [rel |-> 1, cli |-> 1] \in Locks
    BY <2>1 DEF Tofu!NoLock, Locks, Tofu!NoVersion
  <2>3. Tofu!NoStack \in StackRecord /\ [main |-> 1, lock |-> [rel |-> 1, cli |-> 1]] \in StackRecord
    BY <2>1, <2>2 DEF Tofu!NoStack, StackRecord, Tofu!NoVersion
  <2>. QED  BY <2>1, <2>2, <2>3 DEF Tofu!Init, CacheTypes, Tofu!NoVersion
<1>2. \A c \in Commands : CommandSound(c)
  BY DEF Tofu!Init, CommandSound, Tofu!Resting
<1>. QED  BY <1>1, <1>2 DEF CacheInv

\* A command is as sound as before when nothing of what it looks at has changed.
LEMMA NothingSeen ==
    ASSUME NEW d \in Commands, CommandSound(d), tofuCmd'[d] = tofuCmd[d],
           otherTools'[d] = otherTools[d],
           UNCHANGED <<mirrored, modules, lock, current, tofuStack>>
    PROVE  CommandSound(d)'
<1>1. KindOf(d) => KindOf(d)'
  BY DEF KindOf, Pinned
<1>2. Tofu!Mine(d)' = Tofu!Mine(d) /\ (Pinned(d)' <=> Pinned(d))
  BY DEF Tofu!Mine, Pinned
<1>3. PinnedIsKept(d) => PinnedIsKept(d)'
  BY <1>2 DEF PinnedIsKept, Tofu!MayUse, Tofu!LockMatches, Tofu!Available, Tofu!Packages
<1>4. Downloaded(d) => Downloaded(d)'
  BY DEF Downloaded, Tofu!MayUse, Tofu!LockMatches, Tofu!Packages
<1>5. FreshIsWhole(d) => FreshIsWhole(d)'
  BY <1>2 DEF FreshIsWhole, Tofu!MayUse, Tofu!LockMatches, Tofu!Available, Tofu!Packages
<1>6. HandedOver(d) => HandedOver(d)'
  BY <1>2 DEF HandedOver, Tofu!LockMatches, Tofu!Available, Tofu!Packages
<1>. QED  BY <1>1, <1>3, <1>4, <1>5, <1>6 DEF CommandSound

\* A step of a command disturbs all others, of which nothing more is known than
\* what they do.
LEMMA OneCommandMoves ==
    ASSUME NEW c \in Commands, CacheInv, CacheTypes', CommandSound(c)',
           NEW u, tofuCmd' = [tofuCmd EXCEPT ![c] = u],
           \A d \in Commands \ {c} : tofuCmd[d].at # "resting" => otherTools'[d] = TRUE
    PROVE  CacheInv'
<1>1. ASSUME NEW d \in Commands, d # c PROVE CommandSound(d)'
  BY <1>1 DEF CacheInv, CacheTypes, CommandSound, KindOf, Pinned
<1>. QED  BY <1>1 DEF CacheInv

\* Whoever writes while others run marks every other command as disturbed.
LEMMA OthersAreDisturbed ==
    ASSUME NEW c \in Commands, CacheInv, Tofu!Disturbs(c), tofuCmd[c].at # "resting"
    PROVE  /\ tofuCmd[c] \in CommandRecord /\ KindOf(c)
           /\ otherTools' \in [Commands -> BOOLEAN]
           /\ otherTools'[c] = otherTools[c]
           /\ \A d \in Commands \ {c} : tofuCmd[d].at # "resting" => otherTools'[d] = TRUE
<1>1. tofuCmd[c] \in CommandRecord /\ KindOf(c)
  BY DEF CacheInv, CacheTypes, CommandSound, Tofu!Resting
<1>. QED  BY <1>1 DEF Tofu!Disturbs, Tofu!At, CacheInv, CacheTypes

\* Goto changes nothing but the place.
LEMMA GotoMoves ==
    ASSUME NEW c \in Commands, CacheInv, tofuCmd[c].at # "resting",
           NEW at \in CommandStages, Tofu!Goto(c, at)
    PROVE  /\ tofuCmd' = [tofuCmd EXCEPT ![c] = tofuCmd'[c]]
           /\ tofuCmd' \in [Commands -> {Tofu!Resting} \cup CommandRecord]
           /\ tofuCmd'[c] = [tofuCmd[c] EXCEPT !.at = at]
           /\ tofuCmd[c] \in CommandRecord /\ tofuCmd'[c] \in CommandRecord
           /\ tofuCmd'[c].at = at
<1>1. tofuCmd[c] \in CommandRecord
  BY DEF CacheInv, CacheTypes, Tofu!Resting
<1>2. tofuCmd'[c] = [tofuCmd[c] EXCEPT !.at = at]
  BY DEF Tofu!Goto, CacheInv, CacheTypes
<1>3. tofuCmd' = [tofuCmd EXCEPT ![c] = tofuCmd'[c]]
  BY DEF Tofu!Goto, CacheInv, CacheTypes
<1>4. tofuCmd'[c] \in CommandRecord /\ tofuCmd'[c].at = at
  BY <1>1, <1>2 DEF CommandRecord
<1>. QED  BY <1>1, <1>2, <1>3, <1>4 DEF CacheInv, CacheTypes

\* A command that begins knows nothing yet of the shared cache.
LEMMA BeginKeeps ==
    ASSUME NEW c \in Commands, NEW s \in Stacks, NEW cli \in Clis,
           NEW asked \in SUBSET Platforms, NEW op \in {"deps", "create", "delete", "upgrade"},
           op # "deps" => asked = {Host},
           CacheInv, Tofu!Begin(c, op, s, cli, asked)
    PROVE  CacheInv'
<1>. DEFINE main == IF op = "deps" THEN Tofu!NoVersion ELSE tofuStack[s].main
            at == CASE op \in {"deps", "upgrade"} -> "resolve"
                    [] op \in {"create", "delete"} /\ main # Tofu!NoVersion -> "pinned"
                    [] OTHER -> "current"
            exact == IF op = "upgrade" THEN Tofu!NoVersion ELSE main
            found == IF op = "deps" THEN Tofu!NoStack ELSE tofuStack[s]
            u == [at |-> at, op |-> op, stack |-> s, cli |-> cli, all |-> asked,
                  exact |-> exact, found |-> found, version |-> main, seed |-> Tofu!NoLock]
<1>1. /\ tofuCmd' = [tofuCmd EXCEPT ![c] = u]
      /\ UNCHANGED <<modulesOut, mirrored, modules, lock, current, platforms, tofuStack>>
      /\ \A d \in Commands \ {c} : tofuCmd[d].at # "resting" => otherTools'[d] = TRUE
      /\ otherTools' \in [Commands -> BOOLEAN]
  BY DEF Tofu!Begin, Tofu!At, Tofu!cache
<1>2. /\ tofuStack[s] \in StackRecord /\ Tofu!NoStack \in StackRecord
      /\ Tofu!NoLock \in Locks /\ Tofu!NoVersion \in MaybeVersions
  BY DEF CacheInv, CacheTypes, Tofu!NoStack, Tofu!NoLock, Locks, StackRecord, MaybeVersions,
     Tofu!NoVersion
<1>3. /\ main \in MaybeVersions /\ exact \in MaybeVersions /\ found \in StackRecord
      /\ at \in CommandStages
  BY <1>2 DEF StackRecord, CommandStages
<1>4. u \in CommandRecord
  <2>. HIDE DEF main, at, exact, found
  <2>. QED  BY <1>2, <1>3 DEF CommandRecord
<1>5. CacheTypes' /\ tofuCmd'[c] = u
  <2>. HIDE DEF u
  <2>. QED  BY <1>1, <1>4 DEF CacheInv, CacheTypes
<1>6. KindOf(c)'
  BY <1>5, <1>2, ConstantsAssumption DEF KindOf, Pinned, Tofu!NoStack, Tofu!NoVersion
<1>7. PinnedIsKept(c)' /\ Downloaded(c)' /\ FreshIsWhole(c)' /\ HandedOver(c)'
  BY <1>1, <1>5 DEF PinnedIsKept, Downloaded, FreshIsWhole, HandedOver, Pinned, Tofu!Mine,
     Downloading, Tofu!NoVersion
<1>8. CommandSound(c)'
  BY <1>6, <1>7 DEF CommandSound
<1>. QED
  <2>. HIDE DEF u
  <2>. QED  BY <1>1, <1>5, <1>8, OneCommandMoves

\* Ensure, before it downloads anything.
LEMMA EnsureKeeps ==
    ASSUME NEW c \in Commands, CacheInv,
           Tofu!EnsurePinned(c) \/ Tofu!ReadCurrent(c) \/ Tofu!EnsureCurrent(c)
    PROVE  CacheInv'
<1>. DEFINE u == tofuCmd'[c]
            v == tofuCmd[c]
<1>1. /\ v \in CommandRecord /\ v.at # "resting" /\ KindOf(c)
      /\ UNCHANGED <<modulesOut, mirrored, modules, lock, current, platforms, tofuStack>>
      /\ otherTools' \in [Commands -> BOOLEAN] /\ otherTools'[c] = otherTools[c]
      /\ \A d \in Commands \ {c} : tofuCmd[d].at # "resting" => otherTools'[d] = TRUE
  <2>1. v.at # "resting" /\ Tofu!Disturbs(c)
    BY DEF Tofu!EnsurePinned, Tofu!ReadCurrent, Tofu!EnsureCurrent, Tofu!At
  <2>2. UNCHANGED <<modulesOut, mirrored, modules, lock, current, platforms, tofuStack>>
    BY DEF Tofu!EnsurePinned, Tofu!ReadCurrent, Tofu!EnsureCurrent, Tofu!cache
  <2>. QED  BY <2>1, <2>2, OthersAreDisturbed
<1>2. ASSUME tofuCmd' = [tofuCmd EXCEPT ![c] = u], u \in CommandRecord \cup {Tofu!Resting},
             CommandSound(c)'
      PROVE  CacheInv'
  BY <1>1, <1>2, OneCommandMoves DEF CacheInv, CacheTypes
<1>3. CASE Tofu!EnsurePinned(c)
  <2>1. CASE ~Tofu!MayUse(Tofu!Mine(c).lock, v.cli)
    <3>1. tofuCmd' = [tofuCmd EXCEPT ![c] = Tofu!Resting]
      BY <1>3, <2>1 DEF Tofu!EnsurePinned, Tofu!Fail
    <3>. QED  BY <1>2, <3>1 DEF CommandSound, Tofu!Resting, CacheInv, CacheTypes
  <2>2. CASE Tofu!MayUse(Tofu!Mine(c).lock, v.cli)
    <3>. DEFINE at == IF Tofu!Available(v.exact, Tofu!Mine(c).lock, Host)
                      THEN "configure" ELSE "resolve"
                l == Tofu!Mine(c).lock
    <3>1. tofuCmd' = [tofuCmd EXCEPT ![c].seed = l, ![c].at = at] /\ v.at = "pinned"
      BY <1>3, <2>2 DEF Tofu!EnsurePinned, Tofu!At
    <3>2. u = [v EXCEPT !.seed = l, !.at = at] /\ tofuCmd' = [tofuCmd EXCEPT ![c] = u]
      BY <3>1 DEF CacheInv, CacheTypes
    <3>3. l \in Locks /\ at \in CommandStages
      BY <1>1 DEF CacheInv, CacheTypes, CommandRecord, StackRecord, Tofu!Mine, CommandStages
    <3>4. /\ u \in CommandRecord /\ u.seed = l /\ u.at = at /\ u.op = v.op
          /\ u.exact = v.exact /\ u.all = v.all /\ u.found = v.found /\ u.cli = v.cli
          /\ u.stack = v.stack /\ u.version = v.version
      <4>. HIDE DEF l, at, u, v
      <4>. QED  BY <1>1, <3>2, <3>3 DEF CommandRecord
    <3>5. KindOf(c)' /\ Pinned(c) /\ Pinned(c)' /\ Tofu!Mine(c)' = Tofu!Mine(c)
      BY <1>1, <3>1, <3>4 DEF KindOf, Pinned, Tofu!Mine
    <3>6. ASSUME ~otherTools'[c] PROVE PinnedIsKept(c)'
      <4>1. Tofu!Mine(c) = v.found /\ v.version = v.exact
        BY <1>1, <3>1, <3>5, <3>6 DEF CacheInv, CommandSound, PinnedIsKept
      <4>2. at = "configure" => Tofu!Available(v.version, v.seed, Host)'
        BY <1>1, <3>4, <4>1 DEF Tofu!Available, Tofu!Packages
      <4>3. Tofu!MayUse(v.seed, v.cli)'
        BY <2>2, <3>4 DEF Tofu!MayUse, Tofu!LockMatches
      <4>. QED  BY <3>4, <3>5, <4>1, <4>2, <4>3 DEF PinnedIsKept
    <3>7. Downloaded(c)' /\ FreshIsWhole(c)' /\ HandedOver(c)'
      BY <3>4, <3>5 DEF Downloaded, FreshIsWhole, HandedOver, Downloading
    <3>8. CommandSound(c)'
      BY <3>5, <3>6, <3>7 DEF CommandSound
    <3>. QED  BY <1>2, <3>2, <3>4, <3>8
  <2>. QED  BY <2>1, <2>2
<1>4. CASE Tofu!ReadCurrent(c)
  <2>. DEFINE at == IF current = Tofu!NoVersion THEN "resolve" ELSE "available"
  <2>1. tofuCmd' = [tofuCmd EXCEPT ![c].version = current, ![c].at = at] /\ v.at = "current"
    BY <1>4 DEF Tofu!ReadCurrent, Tofu!At
  <2>2. u = [v EXCEPT !.version = current, !.at = at] /\ tofuCmd' = [tofuCmd EXCEPT ![c] = u]
    BY <2>1 DEF CacheInv, CacheTypes
  <2>3. current \in MaybeVersions /\ at \in CommandStages
    BY DEF CacheInv, CacheTypes, CommandStages
  <2>4. /\ u \in CommandRecord /\ u.seed = v.seed /\ u.at = at /\ u.op = v.op
        /\ u.exact = v.exact /\ u.all = v.all /\ u.found = v.found /\ u.cli = v.cli
        /\ u.stack = v.stack
    <3>. HIDE DEF at, u, v
    <3>. QED  BY <1>1, <2>2, <2>3 DEF CommandRecord
  <2>5. KindOf(c)' /\ ~Pinned(c) /\ ~Pinned(c)'
    BY <1>1, <2>1, <2>4 DEF KindOf, Pinned
  <2>6. otherTools'[c] \/ FreshIsWhole(c)'
    BY <1>1, <2>1, <2>4, <2>5 DEF CacheInv, CommandSound, FreshIsWhole, Downloading
  <2>7. PinnedIsKept(c)' /\ Downloaded(c)' /\ HandedOver(c)'
    BY <2>4, <2>5 DEF PinnedIsKept, Downloaded, HandedOver, Downloading
  <2>8. CommandSound(c)'
    BY <2>5, <2>6, <2>7 DEF CommandSound
  <2>. QED  BY <1>2, <2>2, <2>4, <2>8
<1>5. CASE Tofu!EnsureCurrent(c)
  <2>1. PICK at \in {"configure", "resolve"} :
          /\ Tofu!Goto(c, at) /\ v.at = "available"
          /\ at = "configure" => /\ Tofu!Available(v.version, lock, Host)
                                 /\ Tofu!MayUse(lock, v.cli)
    BY <1>5 DEF Tofu!EnsureCurrent, Tofu!At
  <2>2. at \in CommandStages
    BY DEF CommandStages
  <2>3. /\ u \in CommandRecord /\ u = [v EXCEPT !.at = at] /\ u.at = at
        /\ tofuCmd' = [tofuCmd EXCEPT ![c] = u]
    BY <1>1, <2>1, <2>2, GotoMoves
  <2>4. /\ u.seed = v.seed /\ u.op = v.op /\ u.exact = v.exact /\ u.all = v.all
        /\ u.found = v.found /\ u.cli = v.cli /\ u.stack = v.stack /\ u.version = v.version
    BY <1>1, <2>3 DEF CommandRecord
  <2>5. KindOf(c)' /\ ~Pinned(c) /\ ~Pinned(c)' /\ u.op \in {"create", "delete"}
    BY <1>1, <2>1, <2>3, <2>4 DEF KindOf, Pinned, CommandRecord
  <2>6. otherTools'[c] \/ FreshIsWhole(c)'
    BY <1>1, <2>1, <2>3, <2>4, <2>5 DEF CacheInv, CommandSound, FreshIsWhole, Downloading,
       Tofu!Available
  <2>7. PinnedIsKept(c)' /\ Downloaded(c)' /\ HandedOver(c)'
    BY <2>3, <2>5 DEF PinnedIsKept, Downloaded, HandedOver, Downloading
  <2>8. CommandSound(c)'
    BY <2>5, <2>6, <2>7 DEF CommandSound
  <2>. QED  BY <1>2, <2>3, <2>8
<1>. QED  BY <1>3, <1>4, <1>5

\* A download is of one release, or of what it was told.
LEMMA ResolveKeeps ==
    ASSUME NEW c \in Commands, CacheInv, Tofu!Resolve(c)
    PROVE  CacheInv'
<1>. DEFINE u == tofuCmd'[c]
            v == tofuCmd[c]
            version == IF v.exact = Tofu!NoVersion THEN modulesOut ELSE v.exact
            seed == IF v.seed = Tofu!NoLock THEN [rel |-> modulesOut, cli |-> v.cli]
                                            ELSE v.seed
            all == v.all \cup platforms
<1>1. v.at = "resolve" /\ Tofu!Disturbs(c)
  BY DEF Tofu!Resolve, Tofu!At
<1>2. /\ v \in CommandRecord /\ KindOf(c)
      /\ UNCHANGED <<modulesOut, mirrored, modules, lock, current, platforms, tofuStack>>
      /\ otherTools' \in [Commands -> BOOLEAN] /\ otherTools'[c] = otherTools[c]
      /\ \A d \in Commands \ {c} : tofuCmd[d].at # "resting" => otherTools'[d] = TRUE
  BY <1>1, OthersAreDisturbed DEF Tofu!Resolve, Tofu!cache
<1>3. tofuCmd' = [tofuCmd EXCEPT ![c].version = version, ![c].seed = seed,
                                 ![c].all = all, ![c].at = "merge"]
  BY DEF Tofu!Resolve, Tofu!Restored
<1>4. /\ u = [v EXCEPT !.version = version, !.seed = seed, !.all = all, !.at = "merge"]
      /\ tofuCmd' = [tofuCmd EXCEPT ![c] = u]
  BY <1>3 DEF CacheInv, CacheTypes
<1>5. /\ version \in MaybeVersions /\ version # Tofu!NoVersion /\ all \in SUBSET Platforms
      /\ seed \in Locks
  <2>1. modulesOut \in MaybeVersions /\ modulesOut # Tofu!NoVersion /\ platforms \subseteq Platforms
    BY DEF CacheInv, CacheTypes, Tofu!Versions, MaybeVersions, Tofu!NoVersion
  <2>2. [rel |-> modulesOut, cli |-> v.cli] \in Locks
    BY <1>2, <2>1 DEF CommandRecord, Locks
  <2>. QED  BY <1>2, <2>1, <2>2 DEF CommandRecord
<1>6. /\ u \in CommandRecord /\ u.version = version /\ u.seed = seed /\ u.all = all
      /\ u.at = "merge" /\ u.op = v.op /\ u.exact = v.exact /\ u.found = v.found
      /\ u.cli = v.cli /\ u.stack = v.stack
  <2>1. "merge" \in CommandStages
    BY DEF CommandStages
  <2>. HIDE DEF version, seed, all, u, v
  <2>. QED  BY <1>2, <1>4, <1>5, <2>1 DEF CommandRecord
<1>7. KindOf(c)' /\ (Pinned(c) <=> Pinned(c)')
  BY <1>2, <1>6 DEF KindOf, Pinned
<1>8. ASSUME ~otherTools'[c]
      PROVE  PinnedIsKept(c)' /\ Downloaded(c)' /\ FreshIsWhole(c)' /\ HandedOver(c)'
  <2>1. v.at # "resting" /\ PinnedIsKept(c) /\ FreshIsWhole(c)
    BY <1>1, <1>2, <1>8 DEF CacheInv, CommandSound
  <2>2. CASE Pinned(c)
    <3>1. Tofu!MayUse(v.seed, v.cli) /\ v.seed = v.found.lock /\ version = v.version
          /\ v.version = v.exact /\ Tofu!Mine(c) = v.found
      BY <1>1, <2>1, <2>2 DEF PinnedIsKept, Pinned
    <3>2. seed = v.seed
      BY <3>1 DEF Tofu!MayUse
    <3>3. PinnedIsKept(c)'
      BY <1>2, <1>6, <3>1, <3>2 DEF PinnedIsKept, Tofu!Mine, Tofu!MayUse, Tofu!LockMatches
    <3>4. Downloaded(c)'
      BY <1>5, <1>6, <3>1, <3>2 DEF Downloaded, Downloading, Tofu!MayUse, Tofu!LockMatches
    <3>. QED  BY <1>6, <1>7, <2>2, <3>3, <3>4 DEF FreshIsWhole, HandedOver
  <2>3. CASE ~Pinned(c)
    <3>1. v.seed = Tofu!NoLock /\ version = modulesOut
          /\ seed = [rel |-> modulesOut, cli |-> v.cli]
      BY <1>1, <2>1, <2>3 DEF FreshIsWhole, Pinned
    <3>2. Tofu!MayUse(seed, v.cli)
      BY <1>5, <3>1 DEF Tofu!MayUse, Tofu!LockMatches, Tofu!NoLock
    <3>3. Downloaded(c)'
      BY <1>5, <1>6, <3>2 DEF Downloaded, Downloading, Tofu!MayUse, Tofu!LockMatches
    <3>4. FreshIsWhole(c)'
      BY <1>6, <3>1 DEF FreshIsWhole, Downloading
    <3>. QED  BY <1>6, <1>7, <2>3, <3>3, <3>4 DEF PinnedIsKept, HandedOver
  <2>. QED  BY <2>2, <2>3
<1>9. CacheTypes' /\ CommandSound(c)'
  <2>1. CommandSound(c)'
    BY <1>7, <1>8 DEF CommandSound
  <2>2. CacheTypes'
    BY <1>2, <1>4, <1>6 DEF CacheInv, CacheTypes
  <2>. QED  BY <2>1, <2>2
<1>. QED  BY <1>2, <1>4, <1>9, OneCommandMoves

\* A step that changes the cache, and of the command only its place.
LEMMA StepKeeps ==
    ASSUME NEW c \in Commands, CacheInv, tofuCmd[c].at # "resting", Tofu!Disturbs(c),
           NEW at \in CommandStages, Tofu!Goto(c, at), KindOf(c)',
           /\ modulesOut' \in Tofu!Versions /\ current' \in MaybeVersions /\ lock' \in Locks
           /\ modules' \in [Tofu!Versions -> {"none", "aws", "both"}]
           /\ platforms' \subseteq Platforms
           /\ tofuStack' \in [Stacks -> StackRecord],
           PinnedIsKept(c) /\ Downloaded(c) /\ FreshIsWhole(c) /\ HandedOver(c) =>
             PinnedIsKept(c)' /\ Downloaded(c)' /\ FreshIsWhole(c)' /\ HandedOver(c)'
    PROVE  CacheInv'
<1>1. /\ otherTools' \in [Commands -> BOOLEAN] /\ otherTools'[c] = otherTools[c]
      /\ \A d \in Commands \ {c} : tofuCmd[d].at # "resting" => otherTools'[d] = TRUE
  BY OthersAreDisturbed
<1>2. /\ tofuCmd' = [tofuCmd EXCEPT ![c] = tofuCmd'[c]]
      /\ tofuCmd' \in [Commands -> {Tofu!Resting} \cup CommandRecord]
  BY GotoMoves
<1>3. CacheTypes'
  BY <1>1, <1>2 DEF CacheTypes
<1>4. CommandSound(c)'
  BY <1>1 DEF CacheInv, CommandSound
<1>. QED  BY <1>1, <1>2, <1>3, <1>4, OneCommandMoves

\* What a command may rely on when it has only moved.
LEMMA GotoKeepsFields ==
    ASSUME NEW c \in Commands, CacheInv, tofuCmd[c].at # "resting",
           NEW at \in CommandStages, Tofu!Goto(c, at)
    PROVE  /\ tofuCmd'[c].at = at /\ tofuCmd'[c].op = tofuCmd[c].op
           /\ tofuCmd'[c].stack = tofuCmd[c].stack /\ tofuCmd'[c].cli = tofuCmd[c].cli
           /\ tofuCmd'[c].all = tofuCmd[c].all /\ tofuCmd'[c].exact = tofuCmd[c].exact
           /\ tofuCmd'[c].found = tofuCmd[c].found /\ tofuCmd'[c].seed = tofuCmd[c].seed
           /\ tofuCmd'[c].version = tofuCmd[c].version
           /\ tofuCmd[c] \in CommandRecord /\ tofuCmd'[c] \in CommandRecord
<1>. DEFINE u == tofuCmd'[c]
            v == tofuCmd[c]
<1>1. u = [v EXCEPT !.at = at] /\ v \in CommandRecord /\ u \in CommandRecord
  BY GotoMoves
<1>. HIDE DEF u, v
<1>2. /\ u.at = at /\ u.op = v.op /\ u.stack = v.stack /\ u.cli = v.cli /\ u.all = v.all
      /\ u.exact = v.exact /\ u.found = v.found /\ u.seed = v.seed
      /\ u.version = v.version
  BY <1>1 DEF CommandRecord
<1>. QED  BY <1>1, <1>2 DEF u, v

\* mergeProviderMirror: the mirror only grows, and is complete in the end.
LEMMA MergeKeeps ==
    ASSUME NEW c \in Commands, CacheInv, Tofu!Merge(c)
    PROVE  CacheInv'
<1>. DEFINE needed == UNION {Tofu!Packages(tofuCmd[c].seed, p) : p \in tofuCmd[c].all}
            missing == needed \ mirrored
<1>1. /\ tofuCmd[c].at = "merge" /\ Tofu!Disturbs(c)
      /\ UNCHANGED <<modulesOut, modules, lock, current, platforms, tofuStack>>
  BY DEF Tofu!Merge, Tofu!At
<1>2. tofuCmd[c] \in CommandRecord /\ KindOf(c)
  BY <1>1, OthersAreDisturbed
<1>3. CASE missing = {} /\ Tofu!Goto(c, "install") /\ mirrored' = mirrored
  <2>1. "install" \in CommandStages
    BY DEF CommandStages
  <2>. DEFINE u == tofuCmd'[c]
              v == tofuCmd[c]
  <2>2. /\ u.at = "install" /\ u.op = v.op /\ u.stack = v.stack /\ u.cli = v.cli
        /\ u.all = v.all /\ u.exact = v.exact /\ u.found = v.found /\ u.seed = v.seed
        /\ u.version = v.version
    BY <1>1, <1>3, <2>1, GotoKeepsFields
  <2>3. KindOf(c)' /\ (Pinned(c)' <=> Pinned(c))
    BY <1>1, <1>2, <2>2 DEF KindOf, Pinned
  <2>4. \A p \in v.all : Tofu!Packages(v.seed, p) \subseteq mirrored
    <3>1. SUFFICES ASSUME NEW p \in v.all, NEW x \in Tofu!Packages(v.seed, p)
                   PROVE  x \in mirrored
      OBVIOUS
    <3>2. x \in needed
      BY <3>1
    <3>. HIDE DEF needed
    <3>. QED  BY <1>3, <3>2
  <2>5. ASSUME PinnedIsKept(c), Downloaded(c), FreshIsWhole(c)
        PROVE  PinnedIsKept(c)' /\ Downloaded(c)' /\ FreshIsWhole(c)' /\ HandedOver(c)'
    <3>1. Downloaded(c)'
      BY <1>1, <1>3, <2>2, <2>4, <2>5 DEF Downloaded, Downloading, Tofu!MayUse,
         Tofu!LockMatches, Tofu!Packages
    <3>2. PinnedIsKept(c)'
      BY <1>1, <2>2, <2>3, <2>5 DEF PinnedIsKept, Tofu!Mine, Tofu!MayUse, Tofu!LockMatches
    <3>3. FreshIsWhole(c)'
      BY <1>1, <2>2, <2>3, <2>5 DEF FreshIsWhole, Downloading
    <3>. QED  BY <2>2, <3>1, <3>2, <3>3 DEF HandedOver
  <2>. QED  BY <1>1, <1>3, <2>1, <2>3, <2>5, StepKeeps DEF CacheInv, CacheTypes
<1>4. CASE tofuCmd' = tofuCmd
  <2>1. tofuCmd' = [tofuCmd EXCEPT ![c] = tofuCmd[c]]
    BY <1>4 DEF CacheInv, CacheTypes
  <2>2. /\ otherTools' \in [Commands -> BOOLEAN] /\ otherTools'[c] = otherTools[c]
        /\ \A d \in Commands \ {c} : tofuCmd[d].at # "resting" => otherTools'[d] = TRUE
    BY <1>1, OthersAreDisturbed
  <2>3. CacheTypes'
    BY <1>1, <1>4, <2>2 DEF CacheInv, CacheTypes
  <2>4. CommandSound(c)'
    <3>1. PinnedIsKept(c) => PinnedIsKept(c)'
      BY <1>1, <1>4 DEF PinnedIsKept, Pinned, Tofu!Mine, Tofu!MayUse, Tofu!LockMatches
    <3>2. Downloaded(c) => Downloaded(c)'
      BY <1>1, <1>4 DEF Downloaded, Downloading, Tofu!MayUse, Tofu!LockMatches
    <3>3. FreshIsWhole(c) => FreshIsWhole(c)'
      BY <1>1, <1>4 DEF FreshIsWhole, Downloading, Pinned
    <3>4. KindOf(c)' /\ HandedOver(c)'
      BY <1>1, <1>2, <1>4 DEF KindOf, Pinned, HandedOver
    <3>. QED  BY <1>1, <1>4, <2>2, <3>1, <3>2, <3>3, <3>4 DEF CacheInv, CommandSound
  <2>. QED  BY <2>1, <2>2, <2>3, <2>4, OneCommandMoves
<1>5. (missing = {} /\ Tofu!Goto(c, "install") /\ mirrored' = mirrored) \/ tofuCmd' = tofuCmd
  BY DEF Tofu!Merge
<1>. HIDE DEF missing
<1>. QED  BY <1>3, <1>4, <1>5

\* The steps of a download that write to the cache, in the order of the code.
LEMMA InstallKeeps ==
    ASSUME NEW c \in Commands, CacheInv,
           Tofu!Install(c) \/ Tofu!WriteLock(c) \/ Tofu!WriteCurrent(c)
    PROVE  CacheInv'
<1>. DEFINE u == tofuCmd'[c]
            v == tofuCmd[c]
            next == CASE v.at = "install" /\ v.exact = Tofu!NoVersion -> "lock"
                      [] v.at = "lock" -> "version"
                      [] OTHER -> "platforms"
<1>1. v.at \in {"install", "lock", "version"} /\ v.at # "resting" /\ Tofu!Disturbs(c)
  BY DEF Tofu!Install, Tofu!WriteLock, Tofu!WriteCurrent, Tofu!At
<1>2. v \in CommandRecord /\ KindOf(c)
  BY <1>1, OthersAreDisturbed
<1>3. next \in CommandStages /\ Tofu!Goto(c, next)
  <2>1. next \in CommandStages
    BY DEF CommandStages
  <2>2. CASE Tofu!Install(c)
    <3>1. next = IF v.exact = Tofu!NoVersion THEN "lock" ELSE "platforms"
      BY <2>2 DEF Tofu!Install, Tofu!At
    <3>. HIDE DEF next
    <3>. QED  BY <2>1, <2>2, <3>1 DEF Tofu!Install, Tofu!Goto
  <2>3. CASE Tofu!WriteLock(c)
    <3>1. next = "version"
      BY <2>3 DEF Tofu!WriteLock, Tofu!At
    <3>. HIDE DEF next
    <3>. QED  BY <2>1, <2>3, <3>1 DEF Tofu!WriteLock, Tofu!Goto
  <2>4. CASE Tofu!WriteCurrent(c)
    <3>1. next = "platforms"
      BY <2>4 DEF Tofu!WriteCurrent, Tofu!At
    <3>. HIDE DEF next
    <3>. QED  BY <2>1, <2>4, <3>1 DEF Tofu!WriteCurrent, Tofu!Goto
  <2>. QED  BY <2>1, <2>2, <2>3, <2>4
<1>4. /\ u.at = next /\ u.op = v.op /\ u.stack = v.stack /\ u.cli = v.cli
      /\ u.all = v.all /\ u.exact = v.exact /\ u.found = v.found /\ u.seed = v.seed
      /\ u.version = v.version
  <2>. HIDE DEF next
  <2>. QED  BY <1>1, <1>3, GotoKeepsFields
<1>5. KindOf(c)' /\ (Pinned(c)' <=> Pinned(c)) /\ u.at \in {"lock", "version", "platforms"}
  <2>1. Pinned(c)' <=> Pinned(c)
    BY <1>4 DEF Pinned
  <2>2. u.at \in {"lock", "version"} => ~Pinned(c)
    BY <1>2, <1>4 DEF Tofu!Install, Tofu!WriteLock, Tofu!WriteCurrent, Tofu!At, Pinned,
       KindOf
  <2>3. u.at \in {"lock", "version", "platforms"}
    BY <1>4
  <2>. HIDE DEF next
  <2>. QED  BY <1>2, <1>4, <2>1, <2>2, <2>3 DEF KindOf
<1>6. /\ UNCHANGED <<modulesOut, mirrored, platforms, tofuStack>>
      /\ modules' = IF v.at = "install" THEN [modules EXCEPT ![v.version] = "both"]
                                        ELSE modules
      /\ lock' = IF v.at = "lock" THEN v.seed ELSE lock
      /\ current' = IF v.at = "version" THEN v.version ELSE current
      /\ u.at = (IF v.at = "lock" THEN "version" ELSE IF v.at = "version" THEN "platforms"
                 ELSE IF Pinned(c) THEN "platforms" ELSE "lock")
  BY <1>4 DEF Tofu!Install, Tofu!WriteLock, Tofu!WriteCurrent, Tofu!At, Pinned
<1>. HIDE DEF next
<1>7. /\ modulesOut' \in Tofu!Versions /\ current' \in MaybeVersions /\ lock' \in Locks
      /\ modules' \in [Tofu!Versions -> {"none", "aws", "both"}]
      /\ platforms' \subseteq Platforms /\ tofuStack' \in [Stacks -> StackRecord]
  BY <1>2, <1>6 DEF CacheInv, CacheTypes, CommandRecord
<1>8. ASSUME PinnedIsKept(c), Downloaded(c), FreshIsWhole(c)
      PROVE  PinnedIsKept(c)' /\ Downloaded(c)' /\ FreshIsWhole(c)' /\ HandedOver(c)'
  <2>1. /\ v.version # Tofu!NoVersion /\ Tofu!MayUse(v.seed, v.cli)
        /\ \A p \in v.all : Tofu!Packages(v.seed, p) \subseteq mirrored
        /\ v.at # "install" => modules[v.version] = "both"
    BY <1>1, <1>8 DEF Downloaded, Downloading
  <2>2. modules'[v.version] = "both"
    <3>1. v.version \in Tofu!Versions
      BY <1>2, <2>1 DEF CommandRecord, MaybeVersions
    <3>. QED  BY <1>6, <2>1, <3>1 DEF CacheInv, CacheTypes
  <2>3. Downloaded(c)'
    BY <1>4, <1>5, <1>6, <2>1, <2>2 DEF Downloaded, Downloading, Tofu!MayUse,
       Tofu!LockMatches, Tofu!Packages
  <2>4. PinnedIsKept(c)'
    BY <1>1, <1>4, <1>5, <1>6, <1>8 DEF PinnedIsKept, Tofu!Mine, Tofu!MayUse,
       Tofu!LockMatches
  <2>5. FreshIsWhole(c)'
    BY <1>1, <1>4, <1>5, <1>6, <1>8 DEF FreshIsWhole, Downloading
  <2>6. HandedOver(c)'
    BY <1>5 DEF HandedOver
  <2>. QED  BY <2>3, <2>4, <2>5, <2>6
<1>. QED  BY <1>1, <1>3, <1>5, <1>7, <1>8, StepKeeps

\* The end of a download: what was asked for is there.
LEMMA WritePlatformsKeeps ==
    ASSUME NEW c \in Commands, CacheInv, Tofu!WritePlatforms(c)
    PROVE  CacheInv'
<1>. DEFINE u == tofuCmd'[c]
            v == tofuCmd[c]
            next == IF v.op = "deps" THEN "ok"
                    ELSE IF v.exact # Tofu!NoVersion THEN "configure" ELSE "again"
<1>1. /\ v.at = "platforms" /\ Tofu!Disturbs(c)
      /\ UNCHANGED <<modulesOut, mirrored, modules, lock, current, tofuStack>>
      /\ platforms' = v.all /\ Tofu!Goto(c, next)
  BY DEF Tofu!WritePlatforms, Tofu!At
<1>2. v \in CommandRecord /\ KindOf(c)
  BY <1>1, OthersAreDisturbed
<1>3. next \in CommandStages
  BY DEF CommandStages
<1>4. /\ u.at = next /\ u.op = v.op /\ u.stack = v.stack /\ u.cli = v.cli
      /\ u.all = v.all /\ u.exact = v.exact /\ u.found = v.found /\ u.seed = v.seed
      /\ u.version = v.version
  <2>. HIDE DEF next
  <2>. QED  BY <1>1, <1>3, GotoKeepsFields
<1>5. KindOf(c)' /\ (Pinned(c)' <=> Pinned(c))
  BY <1>2, <1>4 DEF KindOf, Pinned
<1>6. ASSUME PinnedIsKept(c), Downloaded(c), FreshIsWhole(c)
      PROVE  PinnedIsKept(c)' /\ Downloaded(c)' /\ FreshIsWhole(c)' /\ HandedOver(c)'
  <2>1. /\ v.version # Tofu!NoVersion /\ Tofu!MayUse(v.seed, v.cli)
        /\ \A p \in v.all : Tofu!Packages(v.seed, p) \subseteq mirrored
        /\ modules[v.version] = "both"
    BY <1>1, <1>6 DEF Downloaded, Downloading
  <2>2. v.op # "deps" => Tofu!Available(v.version, v.seed, Host)
    BY <1>2, <2>1 DEF KindOf, Tofu!Available, Tofu!MayUse
  <2>3. Downloaded(c)'
    BY <1>1, <1>4, <2>1 DEF Downloaded, Downloading, Tofu!MayUse, Tofu!LockMatches,
       Tofu!Packages
  <2>4. PinnedIsKept(c)'
    <3>1. Pinned(c) => v.op # "deps"
      BY <1>2 DEF KindOf
    <3>. QED  BY <1>1, <1>4, <1>5, <1>6, <2>2, <3>1 DEF PinnedIsKept, Tofu!Mine,
                 Tofu!MayUse, Tofu!LockMatches, Tofu!Available, Tofu!Packages
  <2>5. FreshIsWhole(c)'
    BY <1>1, <1>4, <1>5, <1>6 DEF FreshIsWhole, Downloading, Pinned
  <2>6. HandedOver(c)'
    BY <1>4 DEF HandedOver
  <2>. QED  BY <2>3, <2>4, <2>5, <2>6
<1>7. platforms' \subseteq Platforms
  BY <1>1, <1>2 DEF CommandRecord
<1>. HIDE DEF next
<1>. QED  BY <1>1, <1>3, <1>5, <1>6, <1>7, StepKeeps DEF CacheInv, CacheTypes

\* currentModuleVersion, once more.
LEMMA ReadAgainKeeps ==
    ASSUME NEW c \in Commands, CacheInv, Tofu!ReadAgain(c)
    PROVE  CacheInv'
<1>. DEFINE u == tofuCmd'[c]
            v == tofuCmd[c]
<1>1. /\ v.at = "again" /\ Tofu!Disturbs(c)
      /\ UNCHANGED <<modulesOut, mirrored, modules, lock, current, platforms, tofuStack>>
      /\ tofuCmd' = [tofuCmd EXCEPT ![c].version = current, ![c].at = "configure"]
  BY DEF Tofu!ReadAgain, Tofu!At, Tofu!cache
<1>2. /\ v \in CommandRecord /\ KindOf(c)
      /\ otherTools' \in [Commands -> BOOLEAN] /\ otherTools'[c] = otherTools[c]
      /\ \A d \in Commands \ {c} : tofuCmd[d].at # "resting" => otherTools'[d] = TRUE
  BY <1>1, OthersAreDisturbed
<1>3. u = [v EXCEPT !.version = current, !.at = "configure"]
      /\ tofuCmd' = [tofuCmd EXCEPT ![c] = u]
  BY <1>1 DEF CacheInv, CacheTypes
<1>4. /\ u \in CommandRecord /\ u.at = "configure" /\ u.op = v.op /\ u.stack = v.stack
      /\ u.cli = v.cli /\ u.all = v.all /\ u.exact = v.exact /\ u.found = v.found
      /\ u.seed = v.seed /\ u.version = current
  <2>1. "configure" \in CommandStages /\ current \in MaybeVersions
    BY DEF CommandStages, CacheInv, CacheTypes
  <2>. HIDE DEF u, v
  <2>. QED  BY <1>2, <1>3, <2>1 DEF CommandRecord
<1>5. KindOf(c)' /\ ~Pinned(c) /\ ~Pinned(c)' /\ v.op # "deps"
  BY <1>1, <1>2, <1>4 DEF KindOf, Pinned
<1>6. ASSUME ~otherTools'[c] PROVE FreshIsWhole(c)'
  <2>1. Downloaded(c) /\ FreshIsWhole(c)
    BY <1>1, <1>2, <1>6 DEF CacheInv, CommandSound
  <2>2. /\ v.version # Tofu!NoVersion /\ Tofu!MayUse(v.seed, v.cli)
        /\ Tofu!Packages(v.seed, Host) \subseteq mirrored /\ modules[v.version] = "both"
        /\ lock = v.seed /\ current = v.version /\ v.version = v.seed.rel
    BY <1>1, <1>2, <1>5, <2>1 DEF Downloaded, FreshIsWhole, Downloading, KindOf
  <2>3. Tofu!Available(current, lock, Host)
    BY <2>2 DEF Tofu!Available, Tofu!MayUse
  <2>. QED  BY <1>1, <1>4, <2>2, <2>3 DEF FreshIsWhole, Downloading, Tofu!Available,
               Tofu!MayUse, Tofu!LockMatches, Tofu!Packages
<1>7. CommandSound(c)'
  BY <1>4, <1>5, <1>6 DEF CommandSound, PinnedIsKept, Downloaded, HandedOver, Downloading
<1>8. CacheTypes'
  BY <1>1, <1>2, <1>3, <1>4 DEF CacheInv, CacheTypes
<1>. QED  BY <1>2, <1>3, <1>7, <1>8, OneCommandMoves

\* What is handed over is checked once more, and a pinned lock file kept.
LEMMA ConfigureKeeps ==
    ASSUME NEW c \in Commands, CacheInv, Tofu!Configure(c)
    PROVE  CacheInv'
<1>. DEFINE u == tofuCmd'[c]
            v == tofuCmd[c]
            l == Tofu!LockFor(c)
            next == IF v.op = "delete" THEN "ok" ELSE "write"
<1>1. /\ v.at = "configure" /\ Tofu!Disturbs(c)
      /\ UNCHANGED <<modulesOut, mirrored, modules, lock, current, platforms>>
  BY DEF Tofu!Configure, Tofu!At, Tofu!cache
<1>2. /\ v \in CommandRecord /\ KindOf(c)
      /\ otherTools' \in [Commands -> BOOLEAN] /\ otherTools'[c] = otherTools[c]
      /\ \A d \in Commands \ {c} : tofuCmd[d].at # "resting" => otherTools'[d] = TRUE
  BY <1>1, OthersAreDisturbed
<1>3. CASE Tofu!Fail(c) /\ tofuStack' = tofuStack
  <2>1. tofuCmd' = [tofuCmd EXCEPT ![c] = Tofu!Resting]
    BY <1>3 DEF Tofu!Fail
  <2>2. CacheTypes' /\ CommandSound(c)'
    BY <1>1, <1>2, <1>3, <2>1 DEF CacheInv, CacheTypes, CommandSound, Tofu!Resting
  <2>. QED  BY <1>2, <2>1, <2>2, OneCommandMoves
<1>4. CASE /\ tofuStack' = [tofuStack EXCEPT ![v.stack].lock = l]
           /\ Tofu!Goto(c, next) /\ l # Tofu!NoLock
  <2>1. next \in CommandStages
    BY DEF CommandStages
  <2>2. /\ u.at = next /\ u.op = v.op /\ u.stack = v.stack /\ u.cli = v.cli
        /\ u.all = v.all /\ u.exact = v.exact /\ u.found = v.found /\ u.seed = v.seed
        /\ u.version = v.version
    <3>. HIDE DEF next, l
    <3>. QED  BY <1>1, <1>4, <2>1, GotoKeepsFields
  <2>3. /\ tofuStack[v.stack] \in StackRecord /\ l \in Locks
        /\ l = IF Pinned(c) THEN tofuStack[v.stack].lock ELSE lock
    BY <1>2 DEF CacheInv, CacheTypes, CommandRecord, StackRecord, Tofu!LockFor, Tofu!Mine,
       Pinned
  <2>4. tofuStack' \in [Stacks -> StackRecord]
    <3>. HIDE DEF l
    <3>. QED  BY <1>4, <2>3 DEF CacheInv, CacheTypes, StackRecord
  <2>5. tofuStack'[v.stack] = [tofuStack[v.stack] EXCEPT !.lock = l]
    BY <1>2, <1>4 DEF CacheInv, CacheTypes, CommandRecord
  <2>6. /\ tofuStack'[v.stack].lock = l
        /\ tofuStack'[v.stack].main = tofuStack[v.stack].main
        /\ Pinned(c) => tofuStack'[v.stack] = tofuStack[v.stack]
    <3>. HIDE DEF l
    <3>. QED  BY <2>3, <2>5 DEF StackRecord
  <2>7. KindOf(c)' /\ (Pinned(c)' <=> Pinned(c)) /\ v.op # "deps"
    BY <1>1, <1>2, <2>2 DEF KindOf, Pinned
  <2>8. ASSUME PinnedIsKept(c), FreshIsWhole(c)
        PROVE  PinnedIsKept(c)' /\ Downloaded(c)' /\ FreshIsWhole(c)' /\ HandedOver(c)'
    <3>1. PinnedIsKept(c)'
      BY <1>1, <2>2, <2>6, <2>7, <2>8 DEF PinnedIsKept, Tofu!Mine, Tofu!MayUse,
         Tofu!LockMatches, Tofu!Available, Tofu!Packages
    <3>2. Downloaded(c)' /\ FreshIsWhole(c)'
      BY <2>2 DEF Downloaded, FreshIsWhole, Downloading
    <3>3. Tofu!Available(v.version, l, Host) /\ Tofu!LockMatches(l, v.cli)
          /\ (v.op = "upgrade" => v.version = l.rel /\ v.version = current)
      <4>1. CASE Pinned(c)
        BY <1>1, <1>2, <2>3, <2>8, <4>1 DEF PinnedIsKept, Tofu!Mine, Tofu!MayUse, KindOf
      <4>2. CASE ~Pinned(c)
        BY <1>1, <2>3, <2>8, <4>2 DEF FreshIsWhole, Tofu!MayUse
      <4>. QED  BY <4>1, <4>2
    <3>4. HandedOver(c)'
      <4>1. u.op = "upgrade" => u.at = "write"
        BY <2>2
      <4>. HIDE DEF l, next
      <4>. QED  BY <1>1, <2>2, <2>6, <3>3, <4>1 DEF HandedOver, Tofu!Mine, Tofu!LockMatches,
                   Tofu!Available, Tofu!Packages
    <3>. QED  BY <3>1, <3>2, <3>4
  <2>. HIDE DEF next
  <2>. QED  BY <1>1, <1>4, <2>1, <2>4, <2>7, <2>8, StepKeeps DEF CacheInv, CacheTypes
<1>. QED  BY <1>1, <1>3, <1>4 DEF Tofu!Configure

\* main.tf is written when all that it names is there.
LEMMA WriteClusterKeeps ==
    ASSUME NEW c \in Commands, CacheInv, Tofu!WriteCluster(c)
    PROVE  CacheInv'
<1>. DEFINE u == tofuCmd'[c]
            v == tofuCmd[c]
<1>1. /\ v.at = "write" /\ Tofu!Disturbs(c) /\ Tofu!Goto(c, "ok") /\ "ok" \in CommandStages
      /\ UNCHANGED <<modulesOut, mirrored, modules, lock, current, platforms>>
      /\ tofuStack' = [tofuStack EXCEPT ![v.stack].main = v.version]
  BY DEF Tofu!WriteCluster, Tofu!At, Tofu!cache, CommandStages
<1>2. v \in CommandRecord /\ KindOf(c)
  BY <1>1, OthersAreDisturbed
<1>3. /\ u.at = "ok" /\ u.op = v.op /\ u.stack = v.stack /\ u.cli = v.cli
      /\ u.all = v.all /\ u.exact = v.exact /\ u.found = v.found /\ u.seed = v.seed
      /\ u.version = v.version
  BY <1>1, GotoKeepsFields
<1>4. tofuStack[v.stack] \in StackRecord /\ v.version \in MaybeVersions
  BY <1>2 DEF CacheInv, CacheTypes, CommandRecord
<1>5. tofuStack' \in [Stacks -> StackRecord]
  BY <1>1, <1>4 DEF CacheInv, CacheTypes, StackRecord
<1>6. tofuStack'[v.stack] = [tofuStack[v.stack] EXCEPT !.main = v.version]
  BY <1>1, <1>2 DEF CacheInv, CacheTypes, CommandRecord
<1>7. /\ tofuStack'[v.stack].main = v.version
      /\ tofuStack'[v.stack].lock = tofuStack[v.stack].lock
      /\ tofuStack[v.stack].main = v.version => tofuStack'[v.stack] = tofuStack[v.stack]
  BY <1>4, <1>6 DEF StackRecord
<1>8. KindOf(c)' /\ (Pinned(c)' <=> Pinned(c))
  BY <1>1, <1>2, <1>3 DEF KindOf, Pinned
<1>9. ASSUME PinnedIsKept(c), HandedOver(c)
      PROVE  PinnedIsKept(c)' /\ Downloaded(c)' /\ FreshIsWhole(c)' /\ HandedOver(c)'
  <2>1. Pinned(c) => tofuStack[v.stack].main = v.version
    BY <1>2, <1>9 DEF PinnedIsKept, Tofu!Mine, KindOf, Pinned
  <2>2. PinnedIsKept(c)'
    BY <1>1, <1>3, <1>7, <1>8, <1>9, <2>1 DEF PinnedIsKept, Tofu!Mine, Tofu!MayUse,
       Tofu!LockMatches, Tofu!Available, Tofu!Packages
  <2>3. Downloaded(c)' /\ FreshIsWhole(c)'
    BY <1>3 DEF Downloaded, FreshIsWhole, Downloading
  <2>4. HandedOver(c)'
    BY <1>1, <1>3, <1>7, <1>9 DEF HandedOver, Tofu!Mine, Tofu!LockMatches,
       Tofu!Available, Tofu!Packages
  <2>. QED  BY <2>2, <2>3, <2>4
<1>. QED  BY <1>1, <1>5, <1>8, <1>9, StepKeeps DEF CacheInv, CacheTypes

\* A command that is over asks nothing; upstream may publish; a cache is lost
\* only when no command runs.
LEMMA RestKeeps ==
    ASSUME CacheInv,
           \/ \E c \in Commands : Tofu!End(c)
           \/ Tofu!Publish
           \/ Tofu!LoseCache
    PROVE  CacheInv'
<1>1. ASSUME NEW c \in Commands, Tofu!End(c) PROVE CacheInv'
  <2>1. /\ tofuCmd' = [tofuCmd EXCEPT ![c] = Tofu!Resting]
        /\ otherTools' = [otherTools EXCEPT ![c] = FALSE]
        /\ UNCHANGED <<modulesOut, mirrored, modules, lock, current, platforms, tofuStack>>
    BY <1>1 DEF Tofu!End, Tofu!Fail, Tofu!cache
  <2>2. CacheTypes'
    BY <2>1 DEF CacheInv, CacheTypes
  <2>3. ASSUME NEW d \in Commands PROVE CommandSound(d)'
    <3>1. CASE d = c
      BY <2>1, <3>1 DEF CacheInv, CacheTypes, CommandSound, Tofu!Resting
    <3>2. CASE d # c
      <4>1. tofuCmd'[d] = tofuCmd[d] /\ otherTools'[d] = otherTools[d]
        BY <2>1, <3>2 DEF CacheInv, CacheTypes
      <4>. QED  BY <2>1, <4>1, NothingSeen DEF CacheInv
    <3>. QED  BY <3>1, <3>2
  <2>. QED  BY <2>2, <2>3 DEF CacheInv
<1>2. CASE Tofu!Publish
  <2>1. CacheTypes'
    BY <1>2, ConstantsAssumption DEF Tofu!Publish, Tofu!cache, CacheInv, CacheTypes,
       Tofu!Versions
  <2>2. ASSUME NEW d \in Commands PROVE CommandSound(d)'
    BY <1>2, NothingSeen DEF Tofu!Publish, Tofu!cache, CacheInv
  <2>. QED  BY <2>1, <2>2 DEF CacheInv
<1>3. CASE Tofu!LoseCache
  <2>1. CacheTypes'
    BY <1>3 DEF Tofu!LoseCache, CacheInv, CacheTypes, MaybeVersions, Locks, Tofu!NoLock,
       Tofu!NoVersion
  <2>2. \A d \in Commands : CommandSound(d)'
    BY <1>3 DEF Tofu!LoseCache, CommandSound, Tofu!At
  <2>. QED  BY <2>1, <2>2 DEF CacheInv
<1>. QED  BY <1>1, <1>2, <1>3

\* No step of TofuCache breaks the invariant.
LEMMA CacheNextKeeps == CacheInv /\ [Tofu!Next]_Tofu!tvars => CacheInv'
<1>. SUFFICES ASSUME CacheInv, [Tofu!Next]_Tofu!tvars PROVE CacheInv'
  OBVIOUS
<1>1. CASE UNCHANGED Tofu!tvars
  <2>1. CacheTypes'
    BY <1>1 DEF Tofu!tvars, CacheInv, CacheTypes
  <2>2. \A d \in Commands : CommandSound(d)'
    BY <1>1, NothingSeen DEF Tofu!tvars, CacheInv
  <2>. QED  BY <2>1, <2>2 DEF CacheInv
<1>2. ASSUME NEW c \in Commands, NEW cli \in Clis,
             \/ \E asked \in (SUBSET Platforms) \ {{}} : Tofu!DepsTF(c, cli, asked)
             \/ \E s \in Stacks : \/ Tofu!ClusterCreate(c, s, cli)
                                  \/ Tofu!ClusterDelete(c, s, cli)
                                  \/ Tofu!ClusterUpgrade(c, s, cli)
      PROVE  CacheInv'
  <2>1. \E op \in {"deps", "create", "delete", "upgrade"}, s \in Stacks,
           asked \in SUBSET Platforms :
           Tofu!Begin(c, op, s, cli, asked) /\ (op # "deps" => asked = {Host})
    <3>1. CASE \E asked \in (SUBSET Platforms) \ {{}} : Tofu!DepsTF(c, cli, asked)
      <4>1. PICK asked \in SUBSET Platforms : Tofu!DepsTF(c, cli, asked)
        BY <3>1
      <4>2. PICK s \in Stacks : s = CHOOSE x \in Stacks : TRUE
        BY ConstantsAssumption
      <4>3. Tofu!Begin(c, "deps", s, cli, asked)
        BY <4>1, <4>2 DEF Tofu!DepsTF
      <4>. QED  BY <4>3
    <3>2. CASE \E s \in Stacks : \/ Tofu!ClusterCreate(c, s, cli)
                                 \/ Tofu!ClusterDelete(c, s, cli)
                                 \/ Tofu!ClusterUpgrade(c, s, cli)
      BY <3>2, ConstantsAssumption DEF Tofu!ClusterCreate, Tofu!ClusterDelete,
         Tofu!ClusterUpgrade
    <3>. QED  BY <1>2, <3>1, <3>2
  <2>2. PICK op \in {"deps", "create", "delete", "upgrade"}, s \in Stacks,
             asked \in SUBSET Platforms :
             Tofu!Begin(c, op, s, cli, asked) /\ (op # "deps" => asked = {Host})
    BY <2>1
  <2>. QED  BY <2>2, BeginKeeps
<1>3. ASSUME NEW c \in Commands,
             \/ Tofu!EnsurePinned(c) \/ Tofu!ReadCurrent(c) \/ Tofu!EnsureCurrent(c)
             \/ Tofu!Resolve(c) \/ Tofu!Merge(c) \/ Tofu!Install(c) \/ Tofu!WriteLock(c)
             \/ Tofu!WriteCurrent(c) \/ Tofu!WritePlatforms(c) \/ Tofu!ReadAgain(c)
             \/ Tofu!Configure(c) \/ Tofu!WriteCluster(c) \/ Tofu!End(c)
      PROVE  CacheInv'
  BY <1>3, EnsureKeeps, ResolveKeeps, MergeKeeps, InstallKeeps, WritePlatformsKeeps,
     ReadAgainKeeps, ConfigureKeeps, WriteClusterKeeps, RestKeeps
<1>. QED  BY <1>1, <1>2, <1>3, RestKeeps DEF Tofu!Next

\* What a command that nobody disturbed hands to OpenTofu can be initialised
\* without a network, a stack is restored exactly as it was, and an upgrade is
\* of one release (cache.go: Ensure, Upgrade).
THEOREM CacheAlwaysWorks == Tofu!Spec => []Tofu!StacksWork
<1>. QED  BY CacheInitHolds, CacheNextKeeps, CacheEnough, PTL DEF Tofu!Spec

----------------------------------------------------------------------------
(***************************************************************************)
(* StateBucket.  A run knows of the bucket what it has read and set, since *)
(* nothing takes that back while it is under way: others only set more, or *)
(* write the same tags.                                                    *)
(***************************************************************************)

Owners == Hosts \cup {NoHost}

BucketStages ==
    {"resting", "ok", "failed", "head", "tags", "verify", "markers", "ask",
     "create", "configure", "harden", "mark"}

RunRecord ==
    [at : BucketStages, op : {"preflight", "ensure"}, host : Owners, made : BOOLEAN,
     tags : {<<>>} \cup (Owners \X SUBSET {"team"}), step : 0..5]

BucketRecord ==
    [there : {"nobody", "us", "them"}, tag : {"none", "pending", "configured"},
     host : Owners, notes : SUBSET {"team"}, set : SUBSET State!Hardened]

BucketTypes ==
    /\ cloud \in {"s3", "gcs"} /\ bucket \in BucketRecord
    /\ run \in [Runs -> RunRecord]

\* How far Podplane has come with a bucket that it made, and what the tag means.
Progress ==
    /\ bucket.there = "nobody" => origin = State!NoBucket /\ bucket.tag = "none"
    /\ State!Ours /\ origin = State!NoBucket =>
         IF cloud = "s3" THEN bucket.tag \in {"pending", "configured"}
                         ELSE bucket.set = State!Hardened
    /\ bucket.tag = "configured" => bucket.set = State!Hardened

\* What somebody else has made is as it was made.
ForeignIsLeft ==
    ~Repeatable /\ origin # State!NoBucket => bucket = origin /\ bucket.tag = "none"

\* A run that looks at the bucket, or configures it, has one of this account.
LooksAt(r) ==
    /\ run[r].at \in {"tags", "verify"} => State!Ours /\ cloud = "s3"
    /\ run[r].at = "markers" => State!Ours /\ cloud = "gcs"
    /\ run[r].at = "verify" =>
         State!VerifyIdentity(r, bucket.host) /\ bucket.tag # "pending"

Configures(r) ==
    run[r].at \in {"configure", "harden", "mark"} =>
        State!Ours /\ cloud = "s3" /\ (~Repeatable => origin = State!NoBucket)

\* What a run will write back is what is there, and it has set what it says.
HasRead(r) ==
    run[r].at \in {"harden", "mark"} =>
        /\ run[r].tags = <<bucket.host, bucket.notes>>
        /\ State!VerifyIdentity(r, bucket.host)

HasSet(r) ==
    /\ run[r].at = "harden" =>
         /\ run[r].step \in 1..4
         /\ \A i \in 1..4 : i < run[r].step => State!Steps[i] \in bucket.set
    /\ run[r].at = "mark" => bucket.set = State!Hardened

HasEnsured(r) ==
    run[r].at = "ok" /\ run[r].op = "ensure" =>
        /\ State!Ours /\ run[r].host \in {NoHost, bucket.host}
        /\ "private" \in bucket.set
        /\ cloud = "s3" => "encryption" \in bucket.set
        /\ origin = State!NoBucket => bucket.set = State!Hardened

RunSound(r) ==
    LooksAt(r) /\ Configures(r) /\ HasRead(r) /\ HasSet(r) /\ HasEnsured(r)

BucketInv ==
    BucketTypes /\ Progress /\ ForeignIsLeft /\ \A r \in Runs : RunSound(r)

----------------------------------------------------------------------------

\* The four steps of hardening are those that a hardened bucket has had.
LEMMA HardenedIs ==
    /\ State!Hardened = {"versioning", "encryption", "private", "lifecycle"}
    /\ \A i \in 1..4 : State!Steps[i] \in State!Hardened
    /\ State!Hardened = {State!Steps[i] : i \in 1..4}
    /\ State!Final = 4
BY DEF State!Hardened, State!Steps, State!Final

\* The invariant is stronger than the properties.
LEMMA BucketEnough ==
    BucketInv => /\ State!StateIsSafe /\ State!MadeIsHardened
                 /\ ~Repeatable => State!ForeignUntouched
BY DEF BucketInv, Progress, ForeignIsLeft, RunSound, HasEnsured, State!StateIsSafe,
       State!MadeIsHardened, State!ForeignUntouched, State!At, State!Ours

\* The invariant holds before any run has looked at the bucket.
LEMMA BucketInitHolds == State!Init => BucketInv
<1>. SUFFICES ASSUME State!Init PROVE BucketInv
  OBVIOUS
<1>1. BucketTypes
  BY HardenedIs DEF State!Init, BucketTypes, BucketRecord, RunRecord, State!Resting,
     State!Foreign, State!NoBucket, State!Required, Owners, BucketStages
<1>2. Progress /\ ForeignIsLeft
  BY DEF State!Init, Progress, ForeignIsLeft, State!Foreign, State!NoBucket, State!Ours
<1>3. \A r \in Runs : RunSound(r)
  BY DEF State!Init, State!Resting, RunSound, LooksAt, Configures, HasRead, HasSet,
         HasEnsured
<1>. QED  BY <1>1, <1>2, <1>3 DEF BucketInv

\* A run that leaves the bucket alone does not disturb the others.
LEMMA OneRunMoves ==
    ASSUME NEW r \in Runs, BucketInv, UNCHANGED <<cloud, bucket, origin>>,
           NEW u \in RunRecord, run' = [run EXCEPT ![r] = u], RunSound(r)'
    PROVE  BucketInv'
<1>1. BucketTypes'
  BY DEF BucketInv, BucketTypes
<1>2. Progress' /\ ForeignIsLeft'
  BY DEF BucketInv, Progress, ForeignIsLeft, State!Ours
<1>3. ASSUME NEW o \in Runs, o # r PROVE RunSound(o)'
  BY <1>3 DEF BucketInv, BucketTypes, RunSound, LooksAt, Configures, HasRead, HasSet,
     HasEnsured, State!Ours, State!VerifyIdentity
<1>. QED  BY <1>1, <1>2, <1>3 DEF BucketInv

\* A run begins, or is told where the bucket stands.
LEMMA AskingKeeps ==
    ASSUME NEW r \in Runs, BucketInv,
           \/ \E op \in {"preflight", "ensure"}, host \in Owners : State!Begin(r, op, host)
           \/ State!HeadBucket(r) \/ State!Ask(r) \/ State!End(r)
    PROVE  BucketInv'
<1>. DEFINE u == run'[r]
<1>1. /\ u \in RunRecord /\ run' = [run EXCEPT ![r] = u]
      /\ UNCHANGED <<cloud, bucket, origin>>
      /\ u.at \notin {"verify", "configure", "harden", "mark"}
      /\ u.at \in {"tags", "markers"} => State!Ours /\ (u.at = "tags" <=> cloud = "s3")
      /\ u.at = "ok" => u.op = "preflight"
  <2>1. CASE \E op \in {"preflight", "ensure"}, host \in Owners : State!Begin(r, op, host)
    <3>1. PICK op \in {"preflight", "ensure"}, host \in Owners : State!Begin(r, op, host)
      BY <2>1
    <3>2. run' = [run EXCEPT ![r] = [State!Resting EXCEPT !.at = "head", !.op = op,
                                                          !.host = host]]
      BY <3>1 DEF State!Begin
    <3>3. u = [State!Resting EXCEPT !.at = "head", !.op = op, !.host = host]
      BY <3>2 DEF BucketInv, BucketTypes
    <3>4. u = [at |-> "head", op |-> op, host |-> host, made |-> FALSE, tags |-> <<>>,
               step |-> 0]
      BY <3>3 DEF State!Resting
    <3>5. u \in RunRecord /\ u.at = "head"
      BY <3>4 DEF RunRecord, BucketStages
    <3>. QED  BY <3>1, <3>2, <3>3, <3>5 DEF State!Begin
  <2>2. CASE State!HeadBucket(r)
    BY <2>2 DEF State!HeadBucket, State!Goto, State!At, State!Ours, BucketInv, BucketTypes,
       RunRecord, BucketStages, BucketRecord
  <2>3. CASE State!Ask(r)
    BY <2>3 DEF State!Ask, State!Goto, State!At, BucketInv, BucketTypes, RunRecord,
       BucketStages
  <2>4. CASE State!End(r)
    BY <2>4 DEF State!End, State!Resting, BucketInv, BucketTypes, RunRecord, BucketStages,
       Owners
  <2>. QED  BY <2>1, <2>2, <2>3, <2>4
<1>2. RunSound(r)'
  BY <1>1 DEF BucketInv, BucketTypes, RunSound, LooksAt, Configures, HasRead, HasSet,
     HasEnsured, State!Ours
<1>. QED  BY <1>1, <1>2, OneRunMoves

\* A run looks at the bucket and accepts it only if it is safe.
LEMMA CheckingKeeps ==
    ASSUME NEW r \in Runs, BucketInv,
           State!CheckTags(r) \/ State!Verify(r) \/ State!Markers(r)
    PROVE  BucketInv'
<1>. DEFINE u == run'[r]
<1>1. /\ u \in RunRecord /\ run' = [run EXCEPT ![r] = u]
      /\ UNCHANGED <<cloud, bucket, origin>>
      /\ u.host = run[r].host /\ u.op = run[r].op
  <2>1. \E at \in {"failed", "verify", "configure", "ok"} : State!Goto(r, at)
    BY DEF State!CheckTags, State!Verify, State!Markers
  <2>2. PICK at \in BucketStages : u = [run[r] EXCEPT !.at = at]
                                   /\ run' = [run EXCEPT ![r] = u]
    BY <2>1 DEF State!Goto, BucketInv, BucketTypes, BucketStages
  <2>3. run[r] \in RunRecord
    BY DEF BucketInv, BucketTypes
  <2>. QED  BY <2>2, <2>3 DEF State!CheckTags, State!Verify, State!Markers, RunRecord
<1>2. RunSound(r)'
  <2>1. CASE State!CheckTags(r)
    <3>1. /\ State!Ours /\ cloud = "s3" /\ run[r].at = "tags"
          /\ u.at \in {"failed", "verify", "configure", "ok"}
          /\ u.at \in {"verify", "configure"} => State!VerifyIdentity(r, bucket.host)
          /\ u.at = "verify" => bucket.tag # "pending"
          /\ u.at = "configure" => bucket.tag = "pending"
          /\ u.at = "ok" => u.op # "ensure"
      BY <2>1 DEF State!CheckTags, State!Goto, State!At, BucketInv, BucketTypes, RunSound,
         LooksAt, RunRecord
    <3>2. bucket.tag = "pending" /\ ~Repeatable => origin = State!NoBucket
      BY DEF BucketInv, ForeignIsLeft
    <3>. QED  BY <1>1, <3>1, <3>2 DEF RunSound, LooksAt, Configures, HasRead, HasSet,
                 HasEnsured, State!Ours, State!VerifyIdentity
  <2>2. CASE State!Verify(r)
    <3>1. /\ State!Ours /\ cloud = "s3" /\ run[r].at = "verify"
          /\ State!VerifyIdentity(r, bucket.host) /\ bucket.tag # "pending"
          /\ u.at \in {"failed", "ok"}
          /\ u.at = "ok" => State!Required \subseteq bucket.set
      BY <2>2 DEF State!Verify, State!Goto, State!At, BucketInv, BucketTypes, RunSound,
         LooksAt, RunRecord
    <3>2. origin = State!NoBucket => bucket.set = State!Hardened
      BY <3>1 DEF BucketInv, Progress
    <3>. QED  BY <1>1, <3>1, <3>2 DEF RunSound, LooksAt, Configures, HasRead, HasSet,
                 HasEnsured, State!Ours, State!VerifyIdentity, State!Required
  <2>3. CASE State!Markers(r)
    <3>1. /\ State!Ours /\ cloud = "gcs" /\ u.at \in {"failed", "ok"}
          /\ u.at = "ok" => State!VerifyIdentity(r, bucket.host) /\ "private" \in bucket.set
      BY <2>3 DEF State!Markers, State!Goto, State!At, BucketInv, BucketTypes, RunSound,
         LooksAt, RunRecord
    <3>2. origin = State!NoBucket => bucket.set = State!Hardened
      BY <3>1 DEF BucketInv, Progress
    <3>. QED  BY <1>1, <3>1, <3>2 DEF RunSound, LooksAt, Configures, HasRead, HasSet,
                 HasEnsured, State!Ours, State!VerifyIdentity
  <2>. QED  BY <2>1, <2>2, <2>3
<1>. QED  BY <1>1, <1>2, OneRunMoves

\* createS3 and createGCS.
LEMMA CreateKeeps ==
    ASSUME NEW r \in Runs, BucketInv, State!Create(r)
    PROVE  BucketInv'
<1>. DEFINE u == run'[r]
<1>1. CASE bucket' = bucket /\ origin' = origin
  <2>1. /\ u \in RunRecord /\ run' = [run EXCEPT ![r] = u]
        /\ UNCHANGED <<cloud, bucket, origin>>
        /\ u.at \in {"head", "configure"}
    <3>1. run[r] \in RunRecord /\ (bucket # State!NewBucket(r) \/ bucket.there # "nobody")
      BY DEF BucketInv, BucketTypes, State!NewBucket
    <3>2. PICK at \in {"head", "configure"} :
            run' = [run EXCEPT ![r].at = at, ![r].made = TRUE]
      BY <1>1, <3>1 DEF State!Create, State!NewBucket
    <3>3. u = [run[r] EXCEPT !.at = at, !.made = TRUE]
      BY <3>2 DEF BucketInv, BucketTypes
    <3>4. u \in RunRecord /\ u.at = at
      BY <3>1, <3>3 DEF RunRecord, BucketStages
    <3>. QED  BY <1>1, <3>2, <3>3, <3>4 DEF State!Create
  <2>2. /\ u.at # "ok"
        /\ u.at = "configure" => State!Ours /\ cloud = "s3" /\ Repeatable
    BY <1>1 DEF State!Create, State!Goto, BucketInv, BucketTypes, RunRecord,
       State!NewBucket, State!Ours
  <2>3. RunSound(r)'
    BY <2>1, <2>2 DEF RunSound, LooksAt, Configures, HasRead, HasSet, HasEnsured, State!Ours
  <2>. QED  BY <2>1, <2>3, OneRunMoves
<1>2. CASE bucket.there = "nobody" /\ bucket' = State!NewBucket(r) /\ origin' = State!NoBucket
  <2>1. /\ u \in RunRecord /\ run' = [run EXCEPT ![r] = u] /\ cloud' = cloud
        /\ u.host = run[r].host
        /\ u.at \in {"head", "configure", "ok"}
        /\ u.at = "configure" => cloud = "s3"
        /\ u.at = "ok" => cloud = "gcs"
    BY <1>2 DEF State!Create, State!Goto, BucketInv, BucketTypes, RunRecord, BucketStages,
       State!NewBucket
  <2>2. bucket' \in BucketRecord
    BY <1>2, HardenedIs DEF State!NewBucket, BucketInv, BucketTypes, RunRecord, BucketRecord
  <2>3. BucketTypes'
    BY <2>1, <2>2 DEF BucketInv, BucketTypes
  <2>4. Progress' /\ ForeignIsLeft'
    BY <1>2, <2>1 DEF Progress, ForeignIsLeft, State!NewBucket, State!Ours, BucketInv,
       BucketTypes
  <2>5. RunSound(r)'
    BY <1>2, <2>1, HardenedIs DEF RunSound, LooksAt, Configures, HasRead, HasSet,
       HasEnsured, State!Ours, State!NewBucket
  <2>6. ASSUME NEW o \in Runs, o # r PROVE RunSound(o)'
    <3>1. run'[o] = run[o]
      BY <2>1, <2>6 DEF BucketInv, BucketTypes
    <3>. QED  BY <1>2, <3>1 DEF BucketInv, RunSound, LooksAt, Configures, HasRead, HasSet,
                 HasEnsured, State!Ours
  <2>. QED  BY <2>3, <2>4, <2>5, <2>6 DEF BucketInv
<1>. QED  BY <1>1, <1>2 DEF State!Create

\* hardenS3 and the tags that it reads before and writes back after it.
LEMMA ConfiguringKeeps ==
    ASSUME NEW r \in Runs, BucketInv, State!Configure(r)
    PROVE  BucketInv'
<1>. DEFINE u == run'[r]
<1>1. CASE State!Ours /\ State!VerifyIdentity(r, bucket.host)
  <2>1. run' = [run EXCEPT ![r].at = "harden", ![r].step = 1,
                           ![r].tags = <<bucket.host, bucket.notes>>]
    BY <1>1 DEF State!Configure, State!TagsS3
  <2>2. u = [run[r] EXCEPT !.at = "harden", !.step = 1, !.tags = <<bucket.host, bucket.notes>>]
    BY <2>1 DEF BucketInv, BucketTypes
  <2>3. /\ run[r] \in RunRecord
        /\ <<bucket.host, bucket.notes>> \in Owners \X SUBSET {"team"}
    BY DEF BucketInv, BucketTypes, BucketRecord
  <2>4. u \in RunRecord /\ u.at = "harden" /\ u.step = 1 /\ u.host = run[r].host
        /\ u.tags = <<bucket.host, bucket.notes>>
    <3>. HIDE DEF u
    <3>. DEFINE t == <<bucket.host, bucket.notes>>
                tagSets == {<<>>} \cup (Owners \X SUBSET {"team"})
    <3>1. t \in tagSets
      BY <2>3
    <3>2. u = [run[r] EXCEPT !.at = "harden", !.step = 1, !.tags = t]
      BY <2>2
    <3>3. run[r] \in [at : BucketStages, op : {"preflight", "ensure"}, host : Owners,
                      made : BOOLEAN, tags : tagSets, step : 0..5]
      BY <2>3 DEF RunRecord
    <3>4. /\ u \in [at : BucketStages, op : {"preflight", "ensure"}, host : Owners,
                    made : BOOLEAN, tags : tagSets, step : 0..5]
          /\ u.at = "harden" /\ u.step = 1 /\ u.host = run[r].host /\ u.tags = t
      <4>. HIDE DEF t, tagSets, u
      <4>1. "harden" \in BucketStages /\ 1 \in 0..5
        BY DEF BucketStages
      <4>. QED  BY <3>1, <3>2, <3>3, <4>1
    <3>. QED  BY <3>4 DEF RunRecord
  <2>5. UNCHANGED <<cloud, bucket, origin>> /\ run[r].at = "configure"
    BY DEF State!Configure, State!At
  <2>6. RunSound(r)'
    BY <1>1, <2>4, <2>5 DEF BucketInv, RunSound, LooksAt, Configures, HasRead, HasSet,
       HasEnsured, State!Ours, State!VerifyIdentity
  <2>. QED  BY <2>1, <2>2, <2>4, <2>5, <2>6, OneRunMoves
<1>2. CASE ~(State!Ours /\ State!VerifyIdentity(r, bucket.host))
  <2>1. run' = [run EXCEPT ![r].at = "failed"] /\ UNCHANGED <<cloud, bucket, origin>>
    BY <1>2 DEF State!Configure, State!Goto
  <2>2. u = [run[r] EXCEPT !.at = "failed"]
    BY <2>1 DEF BucketInv, BucketTypes
  <2>3. u \in RunRecord /\ u.at = "failed"
    BY <2>2 DEF BucketInv, BucketTypes, RunRecord, BucketStages
  <2>4. RunSound(r)'
    BY <2>3 DEF RunSound, LooksAt, Configures, HasRead, HasSet, HasEnsured
  <2>. QED  BY <2>1, <2>2, <2>3, <2>4, OneRunMoves
<1>. QED  BY <1>1, <1>2

\* A step of hardening adds one setting to a bucket that is ours.
LEMMA HardenKeeps ==
    ASSUME NEW r \in Runs, BucketInv, State!Harden(r)
    PROVE  BucketInv'
<1>. DEFINE u == run'[r]
            k == run[r].step
<1>1. /\ State!Ours /\ cloud = "s3" /\ cloud' = cloud /\ origin' = origin
      /\ ~Repeatable => origin = State!NoBucket
      /\ run[r].at = "harden" /\ k \in 1..4
      /\ \A i \in 1..4 : i < k => State!Steps[i] \in bucket.set
  BY DEF State!Harden, State!At, BucketInv, RunSound, Configures, HasSet
<1>2. /\ bucket' = [bucket EXCEPT !.set = @ \cup {State!Steps[k]}]
      /\ run' = [run EXCEPT ![r].step = @ + 1,
                            ![r].at = IF k = 4 THEN "mark" ELSE "harden"]
  BY <1>1, HardenedIs DEF State!Harden
<1>3. u = [run[r] EXCEPT !.step = @ + 1, !.at = IF k = 4 THEN "mark" ELSE "harden"]
  BY <1>2 DEF BucketInv, BucketTypes
<1>4. /\ u \in RunRecord /\ u.at = (IF k = 4 THEN "mark" ELSE "harden") /\ u.step = k + 1
      /\ u.tags = run[r].tags /\ u.host = run[r].host
  <2>1. run[r] \in RunRecord /\ k + 1 \in 0..5
    BY <1>1 DEF BucketInv, BucketTypes
  <2>2. u = [run[r] EXCEPT !.step = k + 1, !.at = IF k = 4 THEN "mark" ELSE "harden"]
    BY <1>3
  <2>. HIDE DEF u, k
  <2>. QED  BY <2>1, <2>2 DEF RunRecord, BucketStages
<1>5. /\ bucket' \in BucketRecord /\ bucket.set \subseteq bucket'.set
      /\ bucket'.set = bucket.set \cup {State!Steps[k]}
      /\ bucket'.there = bucket.there /\ bucket'.tag = bucket.tag
      /\ bucket'.host = bucket.host /\ bucket'.notes = bucket.notes
  BY <1>1, <1>2, HardenedIs DEF BucketInv, BucketTypes, BucketRecord
<1>6. bucket.set = State!Hardened => bucket'.set = State!Hardened
  BY <1>5 DEF BucketRecord
<1>7. BucketTypes'
  BY <1>1, <1>2, <1>4, <1>5 DEF BucketInv, BucketTypes
<1>8. Progress' /\ ForeignIsLeft'
  BY <1>1, <1>5, <1>6 DEF BucketInv, Progress, ForeignIsLeft, State!Ours
<1>9. RunSound(r)'
  <2>1. k = 4 => bucket'.set = State!Hardened
    BY <1>1, <1>5, HardenedIs DEF BucketRecord
  <2>2. \A i \in 1..4 : i < k + 1 => State!Steps[i] \in bucket'.set
    BY <1>1, <1>5
  <2>3. HasRead(r)'
    BY <1>1, <1>4, <1>5 DEF BucketInv, RunSound, HasRead, State!VerifyIdentity
  <2>. QED  BY <1>1, <1>4, <1>5, <2>1, <2>2, <2>3 DEF RunSound, LooksAt, Configures,
               HasSet, HasEnsured, State!Ours
<1>10. ASSUME NEW o \in Runs, o # r PROVE RunSound(o)'
  <2>1. run'[o] = run[o]
    BY <1>2, <1>10 DEF BucketInv, BucketTypes
  <2>. QED  BY <1>1, <1>5, <1>6, <2>1 DEF BucketInv, RunSound, LooksAt, Configures, HasRead,
               HasSet, HasEnsured, State!Ours, State!VerifyIdentity
<1>. QED  BY <1>7, <1>8, <1>9, <1>10 DEF BucketInv

\* What is written back are the tags that are there.
LEMMA MarkKeeps ==
    ASSUME NEW r \in Runs, BucketInv, State!Mark(r)
    PROVE  /\ BucketInv'
           /\ bucket'.notes = bucket.notes /\ bucket'.host = bucket.host
<1>. DEFINE u == run'[r]
<1>1. /\ State!Ours /\ cloud = "s3" /\ cloud' = cloud /\ origin' = origin
      /\ ~Repeatable => origin = State!NoBucket
      /\ run[r].at = "mark" /\ bucket.set = State!Hardened
      /\ run[r].tags = <<bucket.host, bucket.notes>>
      /\ State!VerifyIdentity(r, bucket.host)
  BY DEF State!Mark, State!At, BucketInv, RunSound, Configures, HasSet, HasRead
<1>2. /\ bucket' = [bucket EXCEPT !.tag = "configured", !.host = bucket.host,
                                  !.notes = bucket.notes]
      /\ run' = [run EXCEPT ![r].at = "ok"]
  BY <1>1 DEF State!Mark, State!Goto
<1>3. u = [run[r] EXCEPT !.at = "ok"]
  BY <1>2 DEF BucketInv, BucketTypes
<1>4. u \in RunRecord /\ u.at = "ok" /\ u.host = run[r].host
  BY <1>3 DEF BucketInv, BucketTypes, RunRecord, BucketStages
<1>5. /\ bucket' \in BucketRecord /\ bucket'.set = bucket.set
      /\ bucket'.there = bucket.there /\ bucket'.tag = "configured"
      /\ bucket'.host = bucket.host /\ bucket'.notes = bucket.notes
  BY <1>2 DEF BucketInv, BucketTypes, BucketRecord
<1>6. BucketTypes'
  BY <1>1, <1>2, <1>4, <1>5 DEF BucketInv, BucketTypes
<1>7. Progress' /\ ForeignIsLeft'
  BY <1>1, <1>5 DEF BucketInv, Progress, ForeignIsLeft, State!Ours
<1>8. RunSound(r)'
  BY <1>1, <1>4, <1>5, HardenedIs DEF RunSound, LooksAt, Configures, HasRead, HasSet,
     HasEnsured, State!Ours, State!VerifyIdentity
<1>9. ASSUME NEW o \in Runs, o # r PROVE RunSound(o)'
  <2>1. run'[o] = run[o]
    BY <1>2, <1>9 DEF BucketInv, BucketTypes
  <2>. QED  BY <1>1, <1>5, <2>1 DEF BucketInv, RunSound, LooksAt, Configures, HasRead,
               HasSet, HasEnsured, State!Ours, State!VerifyIdentity
<1>. QED  BY <1>5, <1>6, <1>7, <1>8, <1>9 DEF BucketInv

\* The operator tags or removes the bucket only when no run is under way.
LEMMA OperatorKeeps ==
    ASSUME BucketInv, State!MakeBucket \/ State!TagBucket \/ State!RemoveBucket
    PROVE  BucketInv'
<1>1. CASE State!MakeBucket
  <2>1. /\ bucket.there = "nobody" /\ bucket' \in State!Foreign /\ origin' = bucket'
        /\ UNCHANGED <<cloud, run>>
    BY <1>1 DEF State!MakeBucket
  <2>2. bucket' \in BucketRecord /\ bucket'.tag = "none" /\ bucket' # State!NoBucket
        /\ bucket'.there # "nobody"
    BY <2>1, HardenedIs DEF State!Foreign, BucketRecord, State!NoBucket, State!Required, Owners
  <2>3. BucketTypes'
    BY <2>1, <2>2 DEF BucketInv, BucketTypes
  <2>4. Progress' /\ ForeignIsLeft'
    BY <2>1, <2>2 DEF Progress, ForeignIsLeft
  <2>5. ASSUME NEW o \in Runs PROVE RunSound(o)'
    BY <2>1, <2>2 DEF BucketInv, RunSound, LooksAt, Configures, HasRead,
       HasSet, HasEnsured, State!Ours
  <2>. QED  BY <2>3, <2>4, <2>5 DEF BucketInv
<1>2. CASE State!TagBucket
  <2>1. /\ State!Ours /\ UNCHANGED <<cloud, run>>
        /\ \A r \in Runs : run[r].at \in {"resting", "ok", "failed"}
        /\ origin' = IF origin = State!NoBucket THEN origin ELSE bucket'
        /\ \/ bucket' = [bucket EXCEPT !.notes = {"team"}]
           \/ /\ bucket.host = NoHost /\ bucket.tag = "none"
              /\ \E h \in Hosts : bucket' = [bucket EXCEPT !.host = h]
    BY <1>2 DEF State!TagBucket, State!Idle, State!At
  <2>2. /\ bucket' \in BucketRecord /\ bucket'.set = bucket.set
        /\ bucket'.there = bucket.there /\ bucket'.tag = bucket.tag
        /\ bucket'.host = bucket.host \/ bucket.host = NoHost
    BY <2>1 DEF BucketInv, BucketTypes, BucketRecord, Owners
  <2>3. bucket' # State!NoBucket
    BY <2>1, <2>2 DEF State!NoBucket, State!Ours
  <2>4. BucketTypes'
    BY <2>1, <2>2 DEF BucketInv, BucketTypes
  <2>5. Progress' /\ ForeignIsLeft'
    BY <2>1, <2>2, <2>3 DEF BucketInv, Progress, ForeignIsLeft, State!Ours
  <2>6. ASSUME NEW o \in Runs PROVE RunSound(o)'
    BY <2>1, <2>2, <2>3 DEF BucketInv, RunSound, LooksAt, Configures, HasRead,
       HasSet, HasEnsured, State!Ours
  <2>. QED  BY <2>4, <2>5, <2>6 DEF BucketInv
<1>3. CASE State!RemoveBucket
  <2>1. bucket' = State!NoBucket /\ origin' = State!NoBucket /\ cloud' = cloud
        /\ run' = [r \in Runs |-> State!Resting]
    BY <1>3 DEF State!RemoveBucket
  <2>2. BucketTypes'
    BY <2>1, HardenedIs DEF BucketInv, BucketTypes, BucketRecord, RunRecord, BucketStages,
       State!NoBucket, State!Resting, Owners
  <2>3. Progress' /\ ForeignIsLeft'
    BY <2>1 DEF Progress, ForeignIsLeft, State!NoBucket, State!Ours
  <2>4. ASSUME NEW o \in Runs PROVE RunSound(o)'
    BY <2>1 DEF RunSound, LooksAt, Configures, HasRead, HasSet, HasEnsured, State!Resting
  <2>. QED  BY <2>2, <2>3, <2>4 DEF BucketInv
<1>. QED  BY <1>1, <1>2, <1>3

\* No step of StateBucket breaks the invariant.
LEMMA BucketNextKeeps == BucketInv /\ [State!Next]_State!bvars => BucketInv'
<1>. SUFFICES ASSUME BucketInv, [State!Next]_State!bvars PROVE BucketInv'
  OBVIOUS
<1>1. CASE UNCHANGED State!bvars
  BY <1>1 DEF State!bvars, BucketInv, BucketTypes, Progress, ForeignIsLeft, RunSound,
     LooksAt, Configures, HasRead, HasSet, HasEnsured, State!Ours, State!VerifyIdentity
<1>2. CASE State!Next
  BY <1>2, AskingKeeps, CheckingKeeps, CreateKeeps, ConfiguringKeeps, HardenKeeps,
     MarkKeeps, OperatorKeeps DEF State!Next, Owners
<1>. QED  BY <1>1, <1>2

\* State is written only to a private bucket of this account that bears the host
\* of its server, and what Podplane made and marked has all that hardenS3 sets
\* (state.go: Ensure, configureS3).
THEOREM BucketIsSafe == State!Spec => [](State!StateIsSafe /\ State!MadeIsHardened)
<1>. QED  BY BucketInitHolds, BucketNextKeeps, BucketEnough, PTL DEF State!Spec

\* Where S3 tells who creates a bucket that it was there, what somebody else has
\* made is never changed either, and the tags of an operator survive (state.go:
\* Ensure, checkS3, configureS3).
THEOREM BucketIsSound ==
    ASSUME ~Repeatable
    PROVE  State!Spec => BucketSound
<1>1. BucketInv => State!StateIsSafe /\ State!MadeIsHardened /\ State!ForeignUntouched
  BY BucketEnough
<1>2. BucketInv /\ [State!Next]_State!bvars =>
        [\A r \in Runs : State!Mark(r) /\ State!Ours =>
           bucket.notes \subseteq bucket'.notes /\ bucket'.host = bucket.host]_State!bvars
  BY MarkKeeps
<1>. QED  BY BucketInitHolds, BucketNextKeeps, <1>1, <1>2, PTL
          DEF State!Spec, BucketSound, State!BucketSound, State!TagsSurvive

----------------------------------------------------------------------------
(***************************************************************************)
(* EngineProcess.  Whether the state is saved depends on the interrupts    *)
(* that the engine got, so the invariant counts them; that nothing is left *)
(* depends on what the goroutine of cmd.Wait has seen before the deferred  *)
(* calls run; and that an interrupt is heeded, on the context, which       *)
(* stays cancelled until the result has been decided.                      *)
(***************************************************************************)

\* Steps without an engine that may run.
Before == {"resting", "config", "begin", "relay", "start"}
Watched == {"wait", "grace", "reap"}
After == {"kill", "cleanup", "stop", "remove", "returned"}

\* There are verbs to run, of the kinds that there are.
VerbsLeft ==
    /\ call.todo \in Seq(Engine!Verbs)
    /\ call.at # "resting" => call.todo # <<>>

\* What runs while the call stands where it stands.
RunsWhen ==
    /\ call.at \in Before \cup After => engine.at \in {"none", "reaped"}
    /\ call.at \in Watched => engine.at # "none" /\ (done # "none" <=> engine.at = "reaped")
    /\ call.at = "reap" => engine.at # "running"
    /\ call.at \in (Before \cup After) \ {"kill"} => alive = {}

\* The terminal is read from the step that begins it to the one that ends it;
\* the configuration is there from one step to another, too.
Reads ==
    /\ call.at \notin Watched \cup {"start", "kill", "cleanup"} => relay = "off"
    /\ call.at \in {"resting", "config", "returned"} => cliConfig = FALSE

\* The engine is interrupted once, when the call stops waiting for it.
InterruptedOnce ==
    engine.at = "running" =>
        /\ engine.interrupts \in {0, 1}
        /\ call.at = "wait" => engine.interrupts = 0

\* An engine unlocks the state when it has saved it, and ends after that.
Saves ==
    /\ state.unsaved => state.lock
    /\ engine.at # "running" /\ state.lock => forced
    /\ forced => engine.at # "running"

\* An engine that was killed is the last one of the call.
KilledLast ==
    forced => /\ call.at \in {"reap", "gone"} \cup After
              /\ call.at \in After => call.res = "cancelled"

\* Told to stop, the call finds its context cancelled when it decides.
Heeded ==
    /\ call.at \in Engine!Heeds => call.res = "none" /\ (told => Engine!Cancelled)
    /\ call.at \in {"resting", "config"} => call.res = "none" /\ ~told
    /\ told => call.res # "ok"

EngineInv ==
    /\ Engine!TypeOK /\ VerbsLeft /\ RunsWhen /\ Reads /\ InterruptedOnce
    /\ Saves /\ KilledLast /\ Heeded


\* The invariant is stronger than the property.
LEMMA EngineEnough == EngineInv => Engine!EngineSound
<1>. SUFFICES ASSUME EngineInv PROVE Engine!EngineSound
  OBVIOUS
<1>1. Engine!NothingIsLeft
  <2>. SUFFICES ASSUME call.at = "returned"
                PROVE  /\ engine.at \in {"none", "reaped"} /\ alive = {}
                       /\ relay = "off" /\ ~cliConfig
    BY DEF Engine!NothingIsLeft, Engine!At
  <2>. QED  BY DEF EngineInv, RunsWhen, Reads, Before, Watched, After
<1>2. Engine!StateIsSaved
  BY DEF EngineInv, Saves, Engine!StateIsSaved, Engine!Ended
<1>3. Engine!InterruptIsHeeded
  BY DEF EngineInv, Heeded, Engine!InterruptIsHeeded, Engine!At
<1>. QED  BY <1>1, <1>2, <1>3 DEF Engine!EngineSound

\* At first nothing runs.
LEMMA EngineInitHolds == Engine!Init => EngineInv
<1>. SUFFICES ASSUME Engine!Init PROVE EngineInv
  OBVIOUS
<1>. USE DEF Engine!Init, Engine!NoEngine
<1>1. Engine!TypeOK
  <2>1. call \in [at : Engine!Steps, todo : Seq(Engine!Verbs), res : Engine!Results]
    BY DEF Engine!Steps, Engine!Results
  <2>2. engine \in [at : {"none", "running", "exited", "reaped"}, ok : BOOLEAN,
                    interrupts : 0..2]
    OBVIOUS
  <2>. QED  BY <2>1, <2>2 DEF Engine!TypeOK
<1>2. VerbsLeft
  BY DEF VerbsLeft
<1>3. RunsWhen /\ Reads /\ InterruptedOnce /\ Saves /\ KilledLast /\ Heeded
  BY DEF RunsWhen, Reads, InterruptedOnce, Saves, KilledLast, Heeded, Before, Watched,
         After, Engine!Heeds
<1>. QED  BY <1>1, <1>2, <1>3 DEF EngineInv

\* The calls of one of the verbs, as they go on.
CallRecord == [at : Engine!Steps, todo : Seq(Engine!Verbs), res : Engine!Results]

\* A step of the call leaves the verbs as they are.
LEMMA CallMoves ==
  ASSUME call \in CallRecord, NEW at \in Engine!Steps, Engine!Goto(at)
  PROVE  call' \in CallRecord /\ call'.at = at /\ call'.todo = call.todo /\ call'.res = call.res
BY DEF CallRecord, Engine!Goto

\* A step that ends runProcess, or the wait for the engine, with a result.
LEMMA CallDecides ==
  ASSUME call \in CallRecord, NEW at \in Engine!Steps, NEW res \in Engine!Results,
         Engine!Gives(res, at)
  PROVE  call' \in CallRecord /\ call'.at = at /\ call'.todo = call.todo /\ call'.res = res
BY DEF CallRecord, Engine!Gives

\* The steps that only the call takes.
LEMMA CallKeeps ==
  ASSUME EngineInv,
         \/ Engine!CommandConfig \/ Engine!Begin \/ Engine!RelayTerminalInput
         \/ Engine!StartEngine \/ Engine!SelectDone \/ Engine!SelectCancelled
         \/ Engine!Reap \/ Engine!GraceOver \/ Engine!KillGroup \/ Engine!Cleanup
         \/ Engine!StopSignals \/ Engine!Killed
  PROVE  EngineInv'
<1>. USE DEF EngineInv, CallRecord, VerbsLeft, RunsWhen, Reads, InterruptedOnce, Saves,
       KilledLast, Heeded, Before, Watched, After, Engine!TypeOK, Engine!At,
       Engine!Heeds, Engine!Cancelled, Engine!process
<1>0. call \in CallRecord
  OBVIOUS
<1>1. ASSUME Engine!CommandConfig PROVE EngineInv'
  <2>1. ASSUME Engine!Goto("begin") PROVE EngineInv'
    <3>1. "begin" \in Engine!Steps
      BY DEF Engine!Steps, Engine!Results, Engine!Catches
    <3>2. /\ call' \in CallRecord /\ call'.at = "begin"
          /\ call'.todo = call.todo /\ call'.res = call.res
      BY <1>0, <2>1, <3>1, CallMoves
    <3>. QED  BY <1>1, <3>2 DEF Engine!CommandConfig, Engine!Goto, Engine!Gives
  <2>2. ASSUME Engine!Gives("failed", "returned") PROVE EngineInv'
    <3>1. "returned" \in Engine!Steps /\ "failed" \in Engine!Results
      BY DEF Engine!Steps, Engine!Results, Engine!Catches
    <3>2. /\ call' \in CallRecord /\ call'.at = "returned"
          /\ call'.todo = call.todo /\ call'.res = "failed"
      BY <1>0, <2>2, <3>1, CallDecides
    <3>. QED  BY <1>1, <3>2 DEF Engine!CommandConfig, Engine!Goto, Engine!Gives
  <2>. QED  BY <1>1, <2>1, <2>2 DEF Engine!CommandConfig
<1>2. ASSUME Engine!Begin PROVE EngineInv'
  <2>1. ASSUME Engine!Gives("cancelled", "stop") PROVE EngineInv'
    <3>1. "stop" \in Engine!Steps /\ "cancelled" \in Engine!Results
      BY DEF Engine!Steps, Engine!Results, Engine!Catches
    <3>2. /\ call' \in CallRecord /\ call'.at = "stop"
          /\ call'.todo = call.todo /\ call'.res = "cancelled"
      BY <1>0, <2>1, <3>1, CallDecides
    <3>. QED  BY <1>2, <3>2 DEF Engine!Begin, Engine!Goto, Engine!Gives
  <2>2. ASSUME Engine!Goto("relay") PROVE EngineInv'
    <3>1. "relay" \in Engine!Steps
      BY DEF Engine!Steps, Engine!Results, Engine!Catches
    <3>2. /\ call' \in CallRecord /\ call'.at = "relay"
          /\ call'.todo = call.todo /\ call'.res = call.res
      BY <1>0, <2>2, <3>1, CallMoves
    <3>. QED  BY <1>2, <3>2 DEF Engine!Begin, Engine!Goto, Engine!Gives
  <2>. QED  BY <1>2, <2>1, <2>2 DEF Engine!Begin
<1>3. ASSUME Engine!RelayTerminalInput PROVE EngineInv'
  <2>1. ASSUME Engine!Goto("start") PROVE EngineInv'
    <3>1. "start" \in Engine!Steps
      BY DEF Engine!Steps, Engine!Results, Engine!Catches
    <3>2. /\ call' \in CallRecord /\ call'.at = "start"
          /\ call'.todo = call.todo /\ call'.res = call.res
      BY <1>0, <2>1, <3>1, CallMoves
    <3>. QED  BY <1>3, <3>2 DEF Engine!RelayTerminalInput, Engine!Goto, Engine!Gives
  <2>2. ASSUME Engine!Gives("failed", "stop") PROVE EngineInv'
    <3>1. "stop" \in Engine!Steps /\ "failed" \in Engine!Results
      BY DEF Engine!Steps, Engine!Results, Engine!Catches
    <3>2. /\ call' \in CallRecord /\ call'.at = "stop"
          /\ call'.todo = call.todo /\ call'.res = "failed"
      BY <1>0, <2>2, <3>1, CallDecides
    <3>. QED  BY <1>3, <3>2 DEF Engine!RelayTerminalInput, Engine!Goto, Engine!Gives
  <2>. QED  BY <1>3, <2>1, <2>2 DEF Engine!RelayTerminalInput
<1>4. ASSUME Engine!StartEngine PROVE EngineInv'
  <2>1. ASSUME Engine!Goto("wait") PROVE EngineInv'
    <3>1. "wait" \in Engine!Steps
      BY DEF Engine!Steps, Engine!Results, Engine!Catches
    <3>2. /\ call' \in CallRecord /\ call'.at = "wait"
          /\ call'.todo = call.todo /\ call'.res = call.res
      BY <1>0, <2>1, <3>1, CallMoves
    <3>3. done' = "none" /\ engine' = [at |-> "running", ok |-> FALSE, interrupts |-> 0]
      BY <1>0, <1>4, <3>2 DEF Engine!StartEngine, Engine!Gives, Engine!NoEngine
    <3>. QED  BY <1>4, <3>2, <3>3 DEF Engine!StartEngine, Engine!Goto, Engine!Gives
  <2>2. ASSUME Engine!Gives("failed", "cleanup") PROVE EngineInv'
    <3>1. "cleanup" \in Engine!Steps /\ "failed" \in Engine!Results
      BY DEF Engine!Steps, Engine!Results, Engine!Catches
    <3>2. /\ call' \in CallRecord /\ call'.at = "cleanup"
          /\ call'.todo = call.todo /\ call'.res = "failed"
      BY <1>0, <2>2, <3>1, CallDecides
    <3>. QED  BY <1>4, <3>2 DEF Engine!StartEngine, Engine!Goto, Engine!Gives
  <2>. QED  BY <1>4, <2>1, <2>2 DEF Engine!StartEngine
<1>5. ASSUME Engine!SelectDone PROVE EngineInv'
  <2>1. ASSUME Engine!Gives(Engine!Result, "kill") PROVE EngineInv'
    <3>1. "kill" \in Engine!Steps /\ Engine!Result \in Engine!Results
      BY DEF Engine!Steps, Engine!Results, Engine!Catches, Engine!Result
    <3>2. /\ call' \in CallRecord /\ call'.at = "kill"
          /\ call'.todo = call.todo /\ call'.res = Engine!Result
      BY <1>0, <2>1, <3>1, CallDecides
    <3>. QED  BY <1>5, <3>2 DEF Engine!SelectDone, Engine!Result
  <2>. QED  BY <1>5, <2>1 DEF Engine!SelectDone
<1>6. ASSUME Engine!SelectCancelled PROVE EngineInv'
  <2>1. ASSUME Engine!Goto("grace") PROVE EngineInv'
    <3>1. "grace" \in Engine!Steps
      BY DEF Engine!Steps, Engine!Results, Engine!Catches
    <3>2. /\ call' \in CallRecord /\ call'.at = "grace"
          /\ call'.todo = call.todo /\ call'.res = call.res
      BY <1>0, <2>1, <3>1, CallMoves
    <3>. QED  BY <1>6, <3>2 DEF Engine!SelectCancelled, Engine!Signalled
  <2>. QED  BY <1>6, <2>1 DEF Engine!SelectCancelled
<1>7. ASSUME Engine!Reap PROVE EngineInv'
  <2>1. ASSUME Engine!Gives("cancelled", "kill") PROVE EngineInv'
    <3>1. "kill" \in Engine!Steps /\ "cancelled" \in Engine!Results
      BY DEF Engine!Steps, Engine!Results, Engine!Catches
    <3>2. /\ call' \in CallRecord /\ call'.at = "kill"
          /\ call'.todo = call.todo /\ call'.res = "cancelled"
      BY <1>0, <2>1, <3>1, CallDecides
    <3>. QED  BY <1>7, <3>2 DEF Engine!Reap
  <2>. QED  BY <1>7, <2>1 DEF Engine!Reap
<1>8. ASSUME Engine!GraceOver PROVE EngineInv'
  <2>1. ASSUME Engine!Goto("reap") PROVE EngineInv'
    <3>1. "reap" \in Engine!Steps
      BY DEF Engine!Steps, Engine!Results, Engine!Catches
    <3>2. /\ call' \in CallRecord /\ call'.at = "reap"
          /\ call'.todo = call.todo /\ call'.res = call.res
      BY <1>0, <2>1, <3>1, CallMoves
    <3>. QED  BY <1>8, <3>2 DEF Engine!GraceOver
  <2>. QED  BY <1>8, <2>1 DEF Engine!GraceOver
<1>9. ASSUME Engine!KillGroup PROVE EngineInv'
  <2>1. ASSUME Engine!Goto("cleanup") PROVE EngineInv'
    <3>1. "cleanup" \in Engine!Steps
      BY DEF Engine!Steps, Engine!Results, Engine!Catches
    <3>2. /\ call' \in CallRecord /\ call'.at = "cleanup"
          /\ call'.todo = call.todo /\ call'.res = call.res
      BY <1>0, <2>1, <3>1, CallMoves
    <3>. QED  BY <1>9, <3>2 DEF Engine!KillGroup
  <2>. QED  BY <1>9, <2>1 DEF Engine!KillGroup
<1>10. ASSUME Engine!Cleanup PROVE EngineInv'
  <2>1. ASSUME Engine!Goto("stop") PROVE EngineInv'
    <3>1. "stop" \in Engine!Steps
      BY DEF Engine!Steps, Engine!Results, Engine!Catches
    <3>2. /\ call' \in CallRecord /\ call'.at = "stop"
          /\ call'.todo = call.todo /\ call'.res = call.res
      BY <1>0, <2>1, <3>1, CallMoves
    <3>. QED  BY <1>10, <3>2 DEF Engine!Cleanup
  <2>. QED  BY <1>10, <2>1 DEF Engine!Cleanup
<1>11. ASSUME Engine!StopSignals PROVE EngineInv'
  <2>1. ASSUME Engine!Goto("remove") PROVE EngineInv'
    <3>1. "remove" \in Engine!Steps
      BY DEF Engine!Steps, Engine!Results, Engine!Catches
    <3>2. /\ call' \in CallRecord /\ call'.at = "remove"
          /\ call'.todo = call.todo /\ call'.res = call.res
      BY <1>0, <2>1, <3>1, CallMoves
    <3>. QED  BY <1>11, <3>2 DEF Engine!StopSignals
  <2>. QED  BY <1>11, <2>1 DEF Engine!StopSignals
<1>12. ASSUME Engine!Killed PROVE EngineInv'
  <2>1. ASSUME Engine!Goto("gone") PROVE EngineInv'
    <3>1. "gone" \in Engine!Steps
      BY DEF Engine!Steps, Engine!Results, Engine!Catches
    <3>2. /\ call' \in CallRecord /\ call'.at = "gone"
          /\ call'.todo = call.todo /\ call'.res = call.res
      BY <1>0, <2>1, <3>1, CallMoves
    <3>. QED  BY <1>12, <3>2 DEF Engine!Killed
  <2>. QED  BY <1>12, <2>1 DEF Engine!Killed
<1>. QED  BY <1>1, <1>2, <1>3, <1>4, <1>5, <1>6, <1>7, <1>8, <1>9, <1>10, <1>11, <1>12

\* A call has something to run.
LEMMA EngineCalls ==
  \A verbs \in Engine!Calls : verbs \in Seq(Engine!Verbs) /\ verbs # <<>>
<1>1. {"init", "apply", "destroy", "output"} \subseteq Engine!Verbs
  BY DEF Engine!Verbs
<1>2. /\ <<"init">> \in Seq(Engine!Verbs) /\ <<"init", "apply">> \in Seq(Engine!Verbs)
      /\ <<"destroy">> \in Seq(Engine!Verbs) /\ <<"output">> \in Seq(Engine!Verbs)
  BY <1>1
<1>3. /\ <<"init">> # <<>> /\ <<"init", "apply">> # <<>>
      /\ <<"destroy">> # <<>> /\ <<"output">> # <<>>
  OBVIOUS
<1>. QED  BY <1>2, <1>3 DEF Engine!Calls

\* Where a call begins, and where it goes on to the next verb.
LEMMA CallGoesOn ==
  ASSUME EngineInv, Engine!Call \/ Engine!Return
  PROVE  EngineInv'
<1>. USE DEF EngineInv, CallRecord, VerbsLeft, RunsWhen, Reads, InterruptedOnce, Saves,
       KilledLast, Heeded, Before, Watched, After, Engine!TypeOK, Engine!At,
       Engine!Heeds, Engine!Cancelled, Engine!process
<1>1. ASSUME Engine!Call PROVE EngineInv'
  <2>1. PICK verbs \in Engine!Calls : call' = [call EXCEPT !.at = "config", !.todo = verbs]
    BY <1>1 DEF Engine!Call
  <2>2. verbs \in Seq(Engine!Verbs) /\ verbs # <<>>
    BY EngineCalls
  <2>3. /\ call' \in CallRecord /\ call'.at = "config" /\ call'.todo = verbs
        /\ call'.res = call.res
    BY <2>1, <2>2 DEF Engine!Steps, Engine!Catches
  <2>4. /\ call.at = "resting"
        /\ UNCHANGED <<ctx, engine, alive, done, state, forced, relay, cliConfig, told>>
    BY <1>1 DEF Engine!Call
  <2>5. Engine!TypeOK' /\ VerbsLeft'
    BY <2>2, <2>3, <2>4
  <2>6. RunsWhen' /\ Reads' /\ InterruptedOnce' /\ Saves' /\ KilledLast' /\ Heeded'
    BY <2>3, <2>4
  <2>. QED  BY <2>5, <2>6
<1>2. ASSUME Engine!Return PROVE EngineInv'
  <2>1. CASE call.res = "ok" /\ Tail(call.todo) # <<>>
    <3>1. call' = [at |-> "config", todo |-> Tail(call.todo), res |-> "none"]
      BY <1>2, <2>1 DEF Engine!Return
    <3>2. Tail(call.todo) \in Seq(Engine!Verbs)
      BY <1>2 DEF Engine!Return
    <3>3. /\ call' \in CallRecord /\ call'.at = "config"
          /\ call'.todo = Tail(call.todo) /\ call'.res = "none"
      BY <3>1, <3>2 DEF Engine!Steps, Engine!Catches, Engine!Results
    <3>. QED  BY <1>2, <2>1, <3>3 DEF Engine!Return
  <2>2. CASE ~(call.res = "ok" /\ Tail(call.todo) # <<>>)
    <3>1. call' = [call EXCEPT !.at = "returned"]
      BY <1>2, <2>2 DEF Engine!Return
    <3>2. /\ call' \in CallRecord /\ call'.at = "returned"
          /\ call'.todo = call.todo /\ call'.res = call.res
      BY <3>1 DEF Engine!Steps, Engine!Catches
    <3>3. /\ call.at = "remove" /\ cliConfig' = FALSE
          /\ UNCHANGED <<ctx, engine, alive, done, state, forced, relay, told>>
      BY <1>2 DEF Engine!Return
    <3>. QED  BY <3>2, <3>3
  <2>. QED  BY <2>1, <2>2
<1>. QED  BY <1>1, <1>2

\* What happens to a call: signals, and the end of its time.
LEMMA CallIsTold ==
  ASSUME EngineInv, Engine!Interrupt \/ Engine!Expire
  PROVE  EngineInv'
<1>. USE DEF EngineInv, CallRecord, VerbsLeft, RunsWhen, Reads, InterruptedOnce, Saves,
       KilledLast, Heeded, Before, Watched, After, Engine!TypeOK, Engine!At,
       Engine!Heeds, Engine!Cancelled, Engine!process
<1>1. ASSUME Engine!Interrupt, call.at \in Engine!Catches PROVE EngineInv'
  <2>1. /\ ctx' = [ctx EXCEPT !.signalled = TRUE]
        /\ told' = (told \/ call.at \in Engine!Heeds)
        /\ UNCHANGED <<engine, call, relay, alive, done, cliConfig, state, forced>>
    BY <1>1 DEF Engine!Interrupt, Engine!Hears
  <2>2. ctx' \in [signalled : BOOLEAN, expired : BOOLEAN] /\ ctx'.signalled = TRUE
    BY <2>1
  <2>. QED  BY <1>1, <2>1, <2>2 DEF Engine!Catches
<1>2. ASSUME Engine!Interrupt, call.at \notin Engine!Catches PROVE EngineInv'
  <2>1. /\ call' = [call EXCEPT !.at = "gone"] /\ relay' = "off"
        /\ call.at # "resting"
        /\ UNCHANGED <<ctx, told, engine, alive, done, cliConfig, state, forced>>
    BY <1>2 DEF Engine!Interrupt, Engine!Goto
  <2>2. /\ call' \in CallRecord /\ call'.at = "gone"
        /\ call'.todo = call.todo /\ call'.res = call.res
    BY <2>1 DEF Engine!Steps
  <2>. QED  BY <2>1, <2>2
<1>3. ASSUME Engine!Expire PROVE EngineInv'
  <2>1. /\ ctx' = [ctx EXCEPT !.expired = TRUE]
        /\ told' = (told \/ call.at \in Engine!Heeds)
        /\ UNCHANGED <<engine, call, relay, alive, done, cliConfig, state, forced>>
    BY <1>3 DEF Engine!Expire
  <2>2. ctx' \in [signalled : BOOLEAN, expired : BOOLEAN] /\ ctx'.expired = TRUE
    BY <2>1
  <2>. QED  BY <2>1, <2>2
<1>. QED  BY <1>1, <1>2, <1>3

\* What the engine and its providers do, and the goroutine that waits for it.
LEMMA EngineWorks ==
  ASSUME EngineInv,
         \/ Engine!Wait \/ Engine!ChangeStack \/ Engine!Exit
         \/ \E p \in Providers : Engine!StartProvider(p) \/ Engine!EndProvider(p)
  PROVE  EngineInv'
<1>. USE DEF EngineInv, CallRecord, VerbsLeft, RunsWhen, Reads, InterruptedOnce, Saves,
       KilledLast, Heeded, Before, Watched, After, Engine!TypeOK, Engine!At,
       Engine!Heeds, Engine!Cancelled, Engine!process
<1>1. ASSUME Engine!Wait PROVE EngineInv'
  <2>1. engine' = [engine EXCEPT !.at = "reaped"] /\ done' \in {"ok", "failed"}
    BY <1>1 DEF Engine!Wait
  <2>. QED  BY <1>1, <2>1 DEF Engine!Wait
<1>2. ASSUME Engine!ChangeStack PROVE EngineInv'
  <2>1. /\ engine.at = "running"
        /\ UNCHANGED <<call, ctx, engine, alive, done, relay, cliConfig, told, forced>>
    BY <1>2 DEF Engine!ChangeStack, Engine!Works
  <2>2. /\ state' \in [lock : BOOLEAN, unsaved : BOOLEAN]
        /\ state'.unsaved => state'.lock
    BY <1>2 DEF Engine!ChangeStack
  <2>. QED  BY <2>1, <2>2
<1>3. ASSUME Engine!Exit PROVE EngineInv'
  <2>1. ~state.lock /\ \E ok \in BOOLEAN : engine' = [engine EXCEPT !.at = "exited", !.ok = ok]
    <3>1. engine.at = "running"
      BY <1>3 DEF Engine!Exit
    <3>2. engine.interrupts \in {0, 1}
      BY <3>1
    <3>3. Engine!Works
      BY <3>1, <3>2 DEF Engine!Works
    <3>. QED  BY <1>3, <3>3 DEF Engine!Exit
  <2>2. /\ engine' \in [at : {"none", "running", "exited", "reaped"}, ok : BOOLEAN,
                         interrupts : 0..2]
        /\ engine'.at = "exited"
    BY <2>1
  <2>. QED  BY <1>3, <2>1, <2>2 DEF Engine!Exit
<1>4. ASSUME NEW p \in Providers, Engine!StartProvider(p) \/ Engine!EndProvider(p)
      PROVE  EngineInv'
  BY <1>4 DEF Engine!StartProvider, Engine!EndProvider, Engine!Works
<1>. QED  BY <1>1, <1>2, <1>3, <1>4

\* No step breaks the invariant.
LEMMA EngineNextKeeps == EngineInv /\ [Engine!Next]_Engine!evars => EngineInv'
<1>1. EngineInv /\ UNCHANGED Engine!evars => EngineInv'
  BY DEF EngineInv, VerbsLeft, RunsWhen, Reads, InterruptedOnce, Saves, KilledLast,
         Heeded, Engine!TypeOK, Engine!Cancelled, Engine!evars
<1>. QED  BY <1>1, CallKeeps, CallGoesOn, CallIsTold, EngineWorks DEF Engine!Next

\* However often and whenever a run of the engine is interrupted, and however
\* long the engine hangs: a call that returns leaves nothing running, only an
\* engine that was killed leaves a state that is locked or not saved, and a
\* call that was told to stop in time does not go on (runProcess).
THEOREM EngineIsSound == Engine!Spec => []Engine!EngineSound
BY EngineEnough, EngineInitHolds, EngineNextKeeps, PTL DEF Engine!Spec

----------------------------------------------------------------------------
(***************************************************************************)
(* The composition.                                                        *)
(***************************************************************************)

\* Whatever moves, each part behaves as its own specification says.
THEOREM PartsBehave == PartsSpec => Spec /\ Tofu!Spec /\ State!Spec /\ Engine!Spec
<1>1. PartsInit => Init /\ Tofu!Init /\ State!Init /\ Engine!Init
  BY DEF PartsInit
<1>2. [PartsNext]_allVars => /\ [Next]_dvars /\ [Tofu!Next]_Tofu!tvars
                            /\ [State!Next]_State!bvars /\ [Engine!Next]_Engine!evars
  BY DEF PartsNext, Moves, allVars, tofuVars, stateVars, engineVars, Tofu!tvars,
         State!bvars, Engine!evars
<1>. QED  BY <1>1, <1>2, PTL DEF PartsSpec, Spec, Tofu!Spec, State!Spec, Engine!Spec

\* Stacks can be initialised, restored and upgraded whatever the cache has been
\* through (prepareOpenTofuStack, tfupgrade), and the engine that does it is
\* stopped with care (runProcess).
THEOREM StacksAlwaysWork == PartsSpec => []StacksWork
<1>1. Tofu!StacksWork /\ Engine!EngineSound => StacksWork
  BY DEF StacksWork
<1>. QED  BY <1>1, CacheAlwaysWorks, EngineIsSound, PartsBehave, PTL

\* The bounds are kept.
TofuBound == tofuRuns \in 0..MaxTofuRuns
StateBound == started \in 0..MaxStateRuns

\* No more commands start than the bound allows.
LEMMA TofuBoundKeeps == TofuBound /\ [Tofu!Next]_Tofu!tvars => TofuBound'
<1>. SUFFICES ASSUME tofuRuns \in 0..MaxTofuRuns, [Tofu!Next]_Tofu!tvars
              PROVE  tofuRuns' \in 0..MaxTofuRuns
  BY DEF TofuBound
<1>1. ASSUME NEW c, NEW op, NEW s, NEW cli, NEW asked, Tofu!Begin(c, op, s, cli, asked)
      PROVE  tofuRuns' \in 0..MaxTofuRuns
  <2>1. tofuRuns < MaxTofuRuns /\ tofuRuns' = tofuRuns + 1
    BY <1>1 DEF Tofu!Begin
  <2>. QED  BY <2>1, ConstantsAssumption
<1>2. ASSUME NEW c \in Commands,
             \/ Tofu!EnsurePinned(c) \/ Tofu!ReadCurrent(c) \/ Tofu!EnsureCurrent(c)
             \/ Tofu!Resolve(c) \/ Tofu!Merge(c) \/ Tofu!Install(c) \/ Tofu!WriteLock(c)
             \/ Tofu!WriteCurrent(c) \/ Tofu!WritePlatforms(c) \/ Tofu!ReadAgain(c)
             \/ Tofu!Configure(c) \/ Tofu!WriteCluster(c) \/ Tofu!End(c)
      PROVE  tofuRuns' = tofuRuns
  BY <1>2 DEF Tofu!EnsurePinned, Tofu!ReadCurrent, Tofu!EnsureCurrent, Tofu!Resolve,
     Tofu!Merge, Tofu!Install, Tofu!WriteLock, Tofu!WriteCurrent, Tofu!WritePlatforms,
     Tofu!ReadAgain, Tofu!Configure, Tofu!WriteCluster, Tofu!End
<1>3. Tofu!Publish \/ Tofu!LoseCache \/ UNCHANGED Tofu!tvars => tofuRuns' = tofuRuns
  BY DEF Tofu!Publish, Tofu!LoseCache, Tofu!tvars
<1>. QED  BY <1>1, <1>2, <1>3 DEF Tofu!Next, Tofu!DepsTF, Tofu!ClusterCreate,
             Tofu!ClusterDelete, Tofu!ClusterUpgrade

\* No more runs start than the bound allows.
LEMMA StateBoundKeeps == StateBound /\ [State!Next]_State!bvars => StateBound'
<1>. SUFFICES ASSUME started \in 0..MaxStateRuns, [State!Next]_State!bvars
              PROVE  started' \in 0..MaxStateRuns
  BY DEF StateBound
<1>1. ASSUME NEW r, NEW op, NEW host, State!Begin(r, op, host)
      PROVE  started' \in 0..MaxStateRuns
  <2>1. started < MaxStateRuns /\ started' = started + 1
    BY <1>1 DEF State!Begin
  <2>. QED  BY <2>1, ConstantsAssumption
<1>2. ASSUME NEW r \in Runs,
             \/ State!HeadBucket(r) \/ State!CheckTags(r) \/ State!Verify(r)
             \/ State!Markers(r) \/ State!Ask(r) \/ State!Create(r) \/ State!Configure(r)
             \/ State!Harden(r) \/ State!Mark(r) \/ State!End(r)
      PROVE  started' = started
  BY <1>2 DEF State!HeadBucket, State!CheckTags, State!Verify, State!Markers, State!Ask,
     State!Create, State!Configure, State!Harden, State!Mark, State!End
<1>3. State!MakeBucket \/ State!TagBucket \/ State!RemoveBucket \/ UNCHANGED State!bvars
        => started' = started
  BY DEF State!MakeBucket, State!TagBucket, State!RemoveBucket, State!bvars
<1>. QED  BY <1>1, <1>2, <1>3 DEF State!Next

\* The variables of every part have their types.
THEOREM PartsTypeCorrect == PartsSpec => []PartsTypeOK
<1>1. Init => DeleteTypeInv
  BY ConstantsAssumption DEF Init, DeleteTypeInv, TypeOK, Resting, DeleteFields, At
<1>2. Tofu!Init => TofuBound
  BY ConstantsAssumption DEF Tofu!Init, TofuBound
<1>3. State!Init => StateBound
  BY ConstantsAssumption DEF State!Init, StateBound
<1>4. CacheInv /\ TofuBound => Tofu!TypeOK
  BY DEF CacheInv, CacheTypes, MaybeVersions, StackRecord, Tofu!TypeOK, TofuBound
<1>5. BucketInv /\ StateBound => State!TypeOK
  <2>1. Len(State!Steps) + 1 = 5
    BY HardenedIs DEF State!Final
  <2>2. SUFFICES ASSUME BucketInv, StateBound PROVE State!TypeOK
    OBVIOUS
  <2>3. cloud \in {"s3", "gcs"} /\ bucket \in BucketRecord
    BY <2>2 DEF BucketInv, BucketTypes
  <2>4. \A r \in Runs : run[r].step \in 0..Len(State!Steps) + 1
    BY <2>1, <2>2 DEF BucketInv, BucketTypes, RunRecord
  <2>. QED  BY <2>2, <2>3, <2>4 DEF BucketRecord, Owners, State!TypeOK, StateBound
<1>6. Spec => []TypeOK
  <2>1. DeleteTypeInv => TypeOK
    BY DEF DeleteTypeInv
  <2>. QED  BY <1>1, <2>1, DeleteTypesKeep, PTL DEF Spec
<1>7. Tofu!Spec => []Tofu!TypeOK
  BY <1>2, <1>4, CacheInitHolds, CacheNextKeeps, TofuBoundKeeps, PTL DEF Tofu!Spec
<1>8. State!Spec => []State!TypeOK
  BY <1>3, <1>5, BucketInitHolds, BucketNextKeeps, StateBoundKeeps, PTL DEF State!Spec
<1>9. Engine!Spec => []Engine!TypeOK
  <2>1. EngineInv => Engine!TypeOK
    BY DEF EngineInv
  <2>. QED  BY <2>1, EngineInitHolds, EngineNextKeeps, PTL DEF Engine!Spec
<1>10. TypeOK /\ Tofu!TypeOK /\ State!TypeOK /\ Engine!TypeOK => PartsTypeOK
  BY DEF PartsTypeOK
<1>. QED  BY <1>6, <1>7, <1>8, <1>9, <1>10, PartsBehave, PTL
============================================================================
