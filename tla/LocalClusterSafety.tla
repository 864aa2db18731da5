------------------------ MODULE LocalClusterSafety ------------------------
(***************************************************************************)
(* What holds of a local cluster when its user runs one command after the  *)
(* other: whichever step fails, be it in the middle of a write or of a     *)
(* removal, and whatever dies, the next command finds a cluster it can go  *)
(* on with, but for the few cuts that the code never mends (`unmended').   *)
(***************************************************************************)
EXTENDS LocalClusterProofs

----------------------------------------------------------------------------
(* The inductive invariant.  Before an image is made, all that it depends  *)
(* on is there; an image is removed before anything that it depends on.    *)

\* A delete that has removed the image.
ImageRemoved(k) ==
    \/ cmd[k].pc \in {"forget", "data", "bucket", "tenants", "keys", "instances",
                     "unlink"}
    \/ cmd[k].pc \in {"ensure", "unstate"} /\ cmd[k].op = "delete"

\* The steps of a start that may make an image.
BeforeImage == {"ca", "createCA", "seed", "config", "secrets", "snapshot", "create"}

\* Where there is no image.
ImageOrder(k) ==
    /\ ImageRemoved(k) => ~vm.disk
    /\ cmd[k].pc \in BeforeImage /\ ~cmd[k].vmExisted => ~vm.disk
    /\ cmd[k].pc \in {"createCA", "snapshot", "create"} => ~cmd[k].vmExisted

\* fake Nstance has a record of the instance.
Recorded(n) == nstance.inst[n] \in {"configured", "registered"}

\* The guest is the instance that user-data, the start and fake Nstance name.
GuestKnown(k) ==
    /\ vm.guest # NoGuest =>
            /\ vm.disk /\ Recorded(vm.guest.id)
            /\ files.userData = vm.guest.id \/ "identity" \in unmended
    /\ cmd[k].pc \in Starting \ {"look"} /\ vm.guest # NoGuest =>
            cmd[k].id = vm.guest.id \/ "identity" \in unmended
    /\ cmd[k].pc \in {"stage", "userdata", "boot"} => Recorded(cmd[k].id)
    /\ cmd[k].pc = "boot" => files.userData = cmd[k].id

\* The CA key is there from before the image is made.
CAKept(k) ==
    /\ vm.disk => vault.ca # 0
    /\ cmd[k].pc \in Identified \cup {"seed"} => vault.ca # 0

\* The bucket has data from before the image is made, if it is to have any.
SeedKept(k) ==
    /\ vm.disk /\ files.config \in Seeds => bucket.seed \in Seeds \cup {Torn}
    /\ cmd[k].pc = "config" /\ cmd[k].vmExisted => files.config = cmd[k].seed
    /\ cmd[k].pc \in {"secrets", "snapshot", "create"} => files.config = cmd[k].seed
    /\ cmd[k].pc = "create" /\ cmd[k].seed \in Seeds =>
            bucket.seed \in Seeds \cup {Torn}

\* A private half is made after its public half, and only when there is none;
\* only a delete that is about to remove it leaves it alone.
PairKept(k) ==
    /\ nstance.priv # 0 /\ "pair" \notin unmended =>
            nstance.priv = nstance.pub \/ (cmd[k].pc = "keys" /\ nstance.pub = 0)
    /\ cmd[k].pc \in {"putPub", "putPriv"} => nstance.priv = 0 \/ "pair" \in unmended
    /\ cmd[k].pc = "putPriv" => nstance.pub = cmd[k].no

\* A delete is at one of the steps, or has succeeded.
DeleteAt(k, steps) ==
    /\ cmd[k].op = "delete"
    /\ cmd[k].pc \in steps \/ (cmd[k].pc = "done" /\ cmd[k].outcome = "ok")

\* How far a delete has come.
Progress(k) ==
    /\ DeleteAt(k, {"unstate", "data", "bucket", "tenants", "keys", "instances",
                    "unlink"}) =>
            ~vm.disk /\ vault.ca = 0 /\ vault.secret = 0
    /\ DeleteAt(k, {"data", "bucket", "tenants", "keys", "instances", "unlink"}) =>
            ~files.state
    /\ DeleteAt(k, {"bucket", "tenants", "keys", "instances", "unlink"}) =>
            files.userData = 0 /\ files.baseline = 0 /\ files.config = Missing
    /\ DeleteAt(k, {"tenants", "keys", "instances", "unlink"}) => bucket.seed = Missing
    /\ DeleteAt(k, {"instances", "unlink"}) => nstance.pub = 0 /\ nstance.priv = 0
    /\ DeleteAt(k, {}) => \A n \in Numbers : ~Recorded(n)

\* What is pending is pending for an instance that has a directory, and a
\* directory without its record is being removed, or was when a delete ended.
InstancesKept(k) ==
    \A n \in Numbers :
        /\ nstance.pending[n] # 0 => nstance.inst[n] # "none"
        /\ nstance.inst[n] = "orphaned" =>
                \/ "instances" \in unmended
                \/ cmd[k].pc = "unlink" /\ cmd[k].id = n

Kept(k) ==
    /\ ImageOrder(k) /\ GuestKnown(k) /\ CAKept(k) /\ SeedKept(k)
    /\ PairKept(k) /\ Progress(k) /\ InstancesKept(k)

----------------------------------------------------------------------------
(* What a step changes of the command that takes it.                       *)

\* It remembers what it is and what it works on.
Remembers(k) ==
    /\ cmd'[k].op = cmd[k].op /\ cmd'[k].no = cmd[k].no /\ cmd'[k].id = cmd[k].id
    /\ cmd'[k].seed = cmd[k].seed /\ cmd'[k].vmExisted = cmd[k].vmExisted

(* Going to a step and ending change nothing else of a command.            *)
LEMMA Moves ==
  ASSUME TInv, NEW k \in Cmds
  PROVE  /\ \A step : Goto(k, step) => cmd'[k].pc = step /\ Remembers(k)
         /\ \A result : End(k, result) =>
                /\ cmd'[k].pc = "done" /\ cmd'[k].outcome = result /\ Remembers(k)
         /\ UNCHANGED cmd =>
                /\ cmd'[k].pc = cmd[k].pc /\ cmd'[k].outcome = cmd[k].outcome
                /\ Remembers(k)
BY TInvParts DEF Goto, End, Remembers, Command

(* What a command is at the steps of a kind.                               *)
LEMMA Operations ==
  ASSUME TInv, NEW k \in Cmds
  PROVE  /\ cmd[k].pc \in Starting => cmd[k].op = "start"
         /\ cmd[k].pc \in Deleting => cmd[k].op = "delete"
         /\ cmd[k].pc \in {"kill", "cleanup"} => cmd[k].op = "stop"
         /\ cmd[k].pc = "ensure" => cmd[k].op \in {"start", "delete"}
         /\ cmd[k].pc = "unstate" => cmd[k].op \in {"stop", "delete"}
BY TInvParts DEF CommandsOK, Consistent

(* Past asking, the CA key is there, or there is no image.                 *)
LEMMA GetCAKeeps ==
  ASSUME TInv, NEW k \in Cmds, Kept(k), GetCA(k)
  PROVE  Kept(k)'
BY Moves, Fields
DEF Kept, Recorded, GetCA, At, Remembers, ImageOrder, ImageRemoved, BeforeImage,
    GuestKnown, Starting, Identified, CAKept, SeedKept, PairKept,
    Progress, DeleteAt, InstancesKept

(* The CA key is made where there is no image.                             *)
LEMMA CreateCAKeeps ==
  ASSUME TInv, NEW k \in Cmds, Kept(k), CreateCA(k)
  PROVE  Kept(k)'
<1>1. CAKept(k)'
  BY Moves, Fields, TInvParts
  DEF Kept, CreateCA, At, Remembers, CAKept, Identified, Created,
      Starting, Numbers, StateOK, VaultOK
<1>2. Progress(k)'
  BY Moves, Fields, TInvParts
  DEF Kept, Recorded, CreateCA, At, Remembers, Progress, DeleteAt, Created, StateOK,
      VaultOK
<1>3. /\ ImageOrder(k)' /\ GuestKnown(k)' /\ SeedKept(k)' /\ PairKept(k)'
      /\ InstancesKept(k)'
  BY Moves, Fields
  DEF Kept, Recorded, CreateCA, At, Remembers, ImageOrder, ImageRemoved,
      BeforeImage, GuestKnown, Starting, Identified, SeedKept, PairKept,
      InstancesKept, Created
<1> QED BY <1>1, <1>2, <1>3 DEF Kept

(* cluster.jsonc changes only where there is no image.                     *)
LEMMA WriteConfigKeeps ==
  ASSUME TInv, NEW k \in Cmds, Kept(k), WriteConfig(k)
  PROVE  Kept(k)'
<1>1. GuestKnown(k)'
  BY Moves, Fields, TInvParts
  DEF Kept, Recorded, WriteConfig, At, Remembers, GuestKnown, Starting, Identified,
      Put, Cut, Fault, StateOK, FilesOK
<1>2. SeedKept(k)'
  BY Moves, Fields, TInvParts, ConstantsAssumption
  DEF Kept, WriteConfig, At, Remembers, SeedKept, Put, Cut, Fault,
      ImageOrder, ImageRemoved, BeforeImage, StateOK, FilesOK
<1>3. Progress(k)'
  BY Moves, Fields, TInvParts
  DEF Kept, Recorded, WriteConfig, At, Remembers, Progress, DeleteAt, Put, Cut,
      Fault, StateOK, FilesOK
<1>4. ImageOrder(k)' /\ CAKept(k)' /\ PairKept(k)' /\ InstancesKept(k)'
  BY Moves, Fields
  DEF Kept, WriteConfig, At, Remembers, ImageOrder, ImageRemoved,
      BeforeImage, CAKept, Identified, PairKept, InstancesKept, Put, Cut,
      Fault
<1> QED BY <1>1, <1>2, <1>3, <1>4 DEF Kept

(* The component secrets come after the CA key.                            *)
LEMMA PrepareSecretsKeeps ==
  ASSUME TInv, NEW k \in Cmds, Kept(k), PrepareSecrets(k)
  PROVE  Kept(k)'
<1>1. CAKept(k)'
  BY Moves, Fields, TInvParts
  DEF Kept, PrepareSecrets, At, Remembers, CAKept, Identified, Created,
      NewAfter, StateOK, VaultOK
<1>2. Progress(k)'
  BY Moves, Fields, TInvParts
  DEF Kept, Recorded, PrepareSecrets, At, Remembers, Progress, DeleteAt, Created,
      NewAfter, StateOK, VaultOK
<1>3. /\ ImageOrder(k)' /\ GuestKnown(k)' /\ SeedKept(k)' /\ PairKept(k)'
      /\ InstancesKept(k)'
  BY Moves, Fields
  DEF Kept, Recorded, PrepareSecrets, At, Remembers, ImageOrder, ImageRemoved,
      BeforeImage, GuestKnown, Starting, Identified, SeedKept, PairKept,
      InstancesKept, Created, NewAfter
<1> QED BY <1>1, <1>2, <1>3 DEF Kept

(* The bucket is made before the image.                                    *)
LEMMA SeedBucketKeeps ==
  ASSUME TInv, NEW k \in Cmds, Kept(k), SeedBucket(k)
  PROVE  Kept(k)'
<1>1. SeedKept(k)'
  BY Moves, Fields, TInvParts, ConstantsAssumption
  DEF Kept, SeedBucket, At, Remembers, SeedKept, Cut, Fault, NewAfter,
      ImageOrder, ImageRemoved, StateOK, BucketOK
<1>2. Progress(k)'
  BY Moves, Fields, TInvParts
  DEF Kept, Recorded, SeedBucket, At, Remembers, Progress, DeleteAt, Cut, Fault,
      NewAfter, StateOK, BucketOK
<1>3. /\ ImageOrder(k)' /\ GuestKnown(k)' /\ CAKept(k)' /\ PairKept(k)'
      /\ InstancesKept(k)'
  BY Moves, Fields
  DEF Kept, Recorded, SeedBucket, At, Remembers, ImageOrder, ImageRemoved,
      BeforeImage, GuestKnown, Starting, Identified, CAKept, PairKept,
      InstancesKept, Cut, Fault, NewAfter
<1> QED BY <1>1, <1>2, <1>3 DEF Kept

(* The image is made when all that it depends on is there.                 *)
LEMMA CreateVMKeeps ==
  ASSUME TInv, NEW k \in Cmds, Kept(k), CreateVM(k)
  PROVE  Kept(k)'
<1>1. ImageOrder(k)'
  BY Moves, Fields, TInvParts
  DEF Kept, CreateVM, At, Remembers, ImageOrder, ImageRemoved,
      BeforeImage, Fault, NewAfter, StateOK, VmOK
<1>2. GuestKnown(k)'
  BY Moves, Fields, TInvParts
  DEF Kept, Recorded, CreateVM, At, Remembers, GuestKnown, Starting, Identified,
      Fault, NewAfter, StateOK, VmOK
<1>3. CAKept(k)'
  BY Moves, Fields, TInvParts
  DEF Kept, CreateVM, At, Remembers, CAKept, Identified, Fault, NewAfter,
      StateOK, VmOK
<1>4. SeedKept(k)'
  BY Moves, Fields, TInvParts
  DEF Kept, CreateVM, At, Remembers, SeedKept, Fault, NewAfter, StateOK,
      VmOK
<1>5. Progress(k)'
  BY Moves, Fields, TInvParts
  DEF Kept, Recorded, CreateVM, At, Remembers, Progress, DeleteAt, Fault, NewAfter,
      StateOK, VmOK
<1>6. PairKept(k)' /\ InstancesKept(k)'
  BY Moves, Fields
  DEF Kept, CreateVM, At, Remembers, PairKept, InstancesKept, Fault,
      NewAfter
<1> QED BY <1>1, <1>2, <1>3, <1>4, <1>5, <1>6 DEF Kept

(* A pair that is whole stays, or both halves are made anew.               *)
LEMMA GetKeyPairKeeps ==
  ASSUME TInv, NEW k \in Cmds, Kept(k), GetKeyPair(k)
  PROVE  Kept(k)'
BY Moves, Fields
DEF Kept, Recorded, GetKeyPair, At, Remembers, ImageOrder, ImageRemoved,
    BeforeImage, GuestKnown, Starting, Identified, CAKept, SeedKept,
    PairKept, Progress, DeleteAt, InstancesKept, PutStep

(* The public half comes first.                                            *)
LEMMA PutKeyPairKeeps ==
  ASSUME TInv, NEW k \in Cmds, Kept(k), PutKeyPair(k)
  PROVE  Kept(k)'
<1>1. GuestKnown(k)'
  BY Moves, Fields, TInvParts
  DEF Kept, Recorded, PutKeyPair, At, Remembers, GuestKnown, Starting, Identified,
      StateOK, NstanceOK
<1>2. PairKept(k)'
  BY Moves, Fields, TInvParts
  DEF Kept, PutKeyPair, At, Remembers, PairKept, StateOK, NstanceOK
<1>3. Progress(k)'
  BY Moves, Fields, TInvParts
  DEF Kept, Recorded, PutKeyPair, At, Remembers, Progress, DeleteAt, StateOK,
      NstanceOK
<1>4. InstancesKept(k)'
  BY Moves, Fields, TInvParts
  DEF Kept, PutKeyPair, At, Remembers, InstancesKept, StateOK, NstanceOK
<1>5. ImageOrder(k)' /\ CAKept(k)' /\ SeedKept(k)'
  BY Moves, Fields
  DEF Kept, PutKeyPair, At, Remembers, ImageOrder, ImageRemoved,
      BeforeImage, CAKept, Identified, SeedKept
<1> QED BY <1>1, <1>2, <1>3, <1>4, <1>5 DEF Kept

(* The tenant does not touch keys or instances.                            *)
LEMMA ConfigureTenantKeeps ==
  ASSUME TInv, NEW k \in Cmds, Kept(k), ConfigureTenant(k)
  PROVE  Kept(k)'
<1>1. GuestKnown(k)'
  BY Moves, Fields, TInvParts
  DEF Kept, Recorded, ConfigureTenant, At, Remembers, GuestKnown, Starting,
      Identified, StateOK, NstanceOK
<1>2. PairKept(k)'
  BY Moves, Fields, TInvParts
  DEF Kept, ConfigureTenant, At, Remembers, PairKept, StateOK, NstanceOK
<1>3. Progress(k)'
  BY Moves, Fields, TInvParts
  DEF Kept, Recorded, ConfigureTenant, At, Remembers, Progress, DeleteAt, StateOK,
      NstanceOK
<1>4. InstancesKept(k)'
  BY Moves, Fields, TInvParts
  DEF Kept, ConfigureTenant, At, Remembers, InstancesKept, StateOK,
      NstanceOK
<1>5. ImageOrder(k)' /\ CAKept(k)' /\ SeedKept(k)'
  BY Moves, Fields
  DEF Kept, ConfigureTenant, At, Remembers, ImageOrder, ImageRemoved,
      BeforeImage, CAKept, Identified, SeedKept
<1> QED BY <1>1, <1>2, <1>3, <1>4, <1>5 DEF Kept

(* The instance of the command is known from here on.                      *)
LEMMA ConfigureInstanceKeeps ==
  ASSUME TInv, NEW k \in Cmds, Kept(k), ConfigureInstance(k)
  PROVE  Kept(k)'
<1>1. GuestKnown(k)'
  BY Moves, Fields, TInvParts
  DEF Kept, Recorded, ConfigureInstance, At, Remembers, GuestKnown, Starting,
      Identified, Configured, StateOK, NstanceOK
<1>2. PairKept(k)'
  BY Moves, Fields, TInvParts
  DEF Kept, ConfigureInstance, At, Remembers, PairKept, Configured,
      StateOK, NstanceOK
<1>3. Progress(k)'
  BY Moves, Fields, TInvParts
  DEF Kept, Recorded, ConfigureInstance, At, Remembers, Progress, DeleteAt,
      Configured, StateOK, NstanceOK
<1>4. InstancesKept(k)'
  BY Moves, Fields, TInvParts
  DEF Kept, ConfigureInstance, At, Remembers, InstancesKept, Configured,
      StateOK, NstanceOK
<1>5. ImageOrder(k)' /\ CAKept(k)' /\ SeedKept(k)'
  BY Moves, Fields
  DEF Kept, ConfigureInstance, At, Remembers, ImageOrder, ImageRemoved,
      BeforeImage, CAKept, Identified, SeedKept, Configured
<1> QED BY <1>1, <1>2, <1>3, <1>4, <1>5 DEF Kept

(* What is staged is for a known instance.                                 *)
LEMMA StageMutableEnvKeeps ==
  ASSUME TInv, NEW k \in Cmds, Kept(k), StageMutableEnv(k)
  PROVE  Kept(k)'
<1>1. GuestKnown(k)'
  BY Moves, Fields, TInvParts
  DEF Kept, Recorded, StageMutableEnv, At, Remembers, GuestKnown, Starting,
      Identified, StateOK, NstanceOK
<1>2. PairKept(k)'
  BY Moves, Fields, TInvParts
  DEF Kept, StageMutableEnv, At, Remembers, PairKept, StateOK, NstanceOK
<1>3. Progress(k)'
  BY Moves, Fields, TInvParts
  DEF Kept, Recorded, StageMutableEnv, At, Remembers, Progress, DeleteAt, StateOK,
      NstanceOK
<1>4. InstancesKept(k)'
  BY Moves, Fields, TInvParts
  DEF Kept, Recorded, StageMutableEnv, At, Remembers, InstancesKept, GuestKnown,
      StateOK, NstanceOK
<1>5. ImageOrder(k)' /\ CAKept(k)' /\ SeedKept(k)'
  BY Moves, Fields
  DEF Kept, StageMutableEnv, At, Remembers, ImageOrder, ImageRemoved,
      BeforeImage, CAKept, Identified, SeedKept
<1> QED BY <1>1, <1>2, <1>3, <1>4, <1>5 DEF Kept

(* User-data names the instance of the guest, if there is one.             *)
LEMMA WriteUserDataKeeps ==
  ASSUME TInv, NEW k \in Cmds, Kept(k), WriteUserData(k)
  PROVE  Kept(k)'
<1>1. GuestKnown(k)'
  BY Moves, Fields, TInvParts
  DEF Kept, Recorded, WriteUserData, At, Remembers, GuestKnown, Starting,
      Identified, Put, Cut, Fault, StateOK, FilesOK
<1>2. SeedKept(k)'
  BY Moves, Fields, TInvParts
  DEF Kept, WriteUserData, At, Remembers, SeedKept, Put, Cut, Fault,
      StateOK, FilesOK
<1>3. Progress(k)'
  BY Moves, Fields, TInvParts
  DEF Kept, Recorded, WriteUserData, At, Remembers, Progress, DeleteAt, Put, Cut,
      Fault, StateOK, FilesOK
<1>4. ImageOrder(k)' /\ CAKept(k)' /\ PairKept(k)' /\ InstancesKept(k)'
  BY Moves, Fields
  DEF Kept, WriteUserData, At, Remembers, ImageOrder, ImageRemoved,
      BeforeImage, CAKept, Identified, PairKept, InstancesKept, Put, Cut,
      Fault
<1> QED BY <1>1, <1>2, <1>3, <1>4 DEF Kept

(* The guest that boots for the first time is the one of user-data.        *)
LEMMA BootVMKeeps ==
  ASSUME TInv, NEW k \in Cmds, Kept(k), BootVM(k)
  PROVE  Kept(k)'
<1>1. ImageOrder(k)'
  BY Moves, Fields, TInvParts
  DEF Kept, BootVM, At, Remembers, ImageOrder, ImageRemoved, BeforeImage,
      Cut, Fault, Booted, StateOK, VmOK
<1>2. GuestKnown(k)'
  <2>1. cmd[k].id \in Numbers /\ cmd[k].pc = "boot" /\ cmd[k].pc \in Starting \ {"look"}
    BY Fields DEF BootVM, At, Starting, Identified
  <2>2. /\ Remembers(k) /\ cmd'[k].pc \in {"done", "state"}
        /\ UNCHANGED <<files, nstance, unmended>>
    BY Moves DEF BootVM, Cut
  <2>3. CASE vm'.guest = vm.guest /\ vm'.disk = vm.disk
    BY <2>1, <2>2, <2>3 DEF Kept, Recorded, GuestKnown, Remembers
  <2>4. CASE vm'.guest = Booted(k) /\ vm'.disk = vm.disk /\ vm.disk
    BY <2>1, <2>2, <2>4 DEF Kept, Recorded, GuestKnown, Remembers, Booted
  <2> QED BY <2>3, <2>4, TInvParts DEF BootVM, StateOK, VmOK
<1>3. CAKept(k)'
  BY Moves, Fields, TInvParts
  DEF Kept, BootVM, At, Remembers, CAKept, Identified, Cut, Fault, Booted,
      StateOK, VmOK
<1>4. SeedKept(k)'
  BY Moves, Fields, TInvParts
  DEF Kept, BootVM, At, Remembers, SeedKept, Cut, Fault, Booted, StateOK,
      VmOK
<1>5. Progress(k)'
  BY Moves, Fields, TInvParts
  DEF Kept, Recorded, BootVM, At, Remembers, Progress, DeleteAt, Cut, Fault, Booted,
      StateOK, VmOK
<1>6. PairKept(k)' /\ InstancesKept(k)'
  BY Moves, Fields
  DEF Kept, BootVM, At, Remembers, PairKept, InstancesKept, Cut, Fault,
      Booted
<1> QED BY <1>1, <1>2, <1>3, <1>4, <1>5, <1>6 DEF Kept

(* The state file is of a start, not of a delete.                          *)
LEMMA WriteStateKeeps ==
  ASSUME TInv, NEW k \in Cmds, Kept(k), WriteState(k)
  PROVE  Kept(k)'
<1>1. GuestKnown(k)'
  BY Moves, Fields, TInvParts
  DEF Kept, Recorded, WriteState, At, Remembers, GuestKnown, Starting, Identified,
      Put, StateOK, FilesOK
<1>2. SeedKept(k)'
  BY Moves, Fields, TInvParts
  DEF Kept, WriteState, At, Remembers, SeedKept, Put, StateOK, FilesOK
<1>3. Progress(k)'
  BY Moves, Fields, TInvParts
  DEF Kept, Recorded, WriteState, At, Remembers, Progress, DeleteAt, Put, StateOK,
      FilesOK
<1>4. ImageOrder(k)' /\ CAKept(k)' /\ PairKept(k)' /\ InstancesKept(k)'
  BY Moves, Fields
  DEF Kept, WriteState, At, Remembers, ImageOrder, ImageRemoved,
      BeforeImage, CAKept, Identified, PairKept, InstancesKept, Put
<1> QED BY <1>1, <1>2, <1>3, <1>4 DEF Kept

(* Waiting for the services keeps everything.                              *)
LEMMA AwaitServicesKeeps ==
  ASSUME TInv, NEW k \in Cmds, Kept(k), AwaitServices(k)
  PROVE  Kept(k)'
BY Moves, Fields
DEF Kept, Recorded, AwaitServices, At, Remembers, ImageOrder, ImageRemoved,
    BeforeImage, GuestKnown, Starting, Identified, CAKept, SeedKept,
    PairKept, Progress, DeleteAt, InstancesKept

(* A guest whose forwarder changes stays the same instance.                *)
LEMMA ConfigureForwarderKeeps ==
  ASSUME TInv, NEW k \in Cmds, Kept(k), ConfigureForwarder(k)
  PROVE  Kept(k)'
<1>1. ImageOrder(k)'
  BY Moves, Fields, TInvParts
  DEF Kept, ConfigureForwarder, At, Remembers, ImageOrder, ImageRemoved, BeforeImage,
      Reachable, Running, StateOK, VmOK
<1>2. GuestKnown(k)'
  <2>1. vm'.disk = vm.disk /\ vm.guest # NoGuest /\ vm'.guest.id = vm.guest.id
    BY TInvParts
    DEF ConfigureForwarder, Reachable, Running, StateOK, VmOK, QemuHasGuest, Guest
  <2>2. Remembers(k) /\ cmd'[k].pc = "repair" /\ cmd[k].pc = "forward"
    BY Moves DEF ConfigureForwarder, At
  <2> QED BY <2>1, <2>2 DEF ConfigureForwarder, Kept, Recorded, GuestKnown, Remembers, Starting, Identified
<1>3. CAKept(k)'
  BY Moves, Fields, TInvParts
  DEF Kept, ConfigureForwarder, At, Remembers, CAKept, Identified, Reachable, Running, StateOK,
      VmOK
<1>4. SeedKept(k)'
  BY Moves, Fields, TInvParts
  DEF Kept, ConfigureForwarder, At, Remembers, SeedKept, Reachable, Running, StateOK, VmOK
<1>5. Progress(k)'
  BY Moves, Fields, TInvParts
  DEF Kept, Recorded, ConfigureForwarder, At, Remembers, Progress, DeleteAt, Reachable, Running, StateOK,
      VmOK
<1>6. PairKept(k)' /\ InstancesKept(k)'
  BY Moves, Fields
  DEF Kept, ConfigureForwarder, At, Remembers, PairKept, InstancesKept, Reachable, Running
<1> QED BY <1>1, <1>2, <1>3, <1>4, <1>5, <1>6 DEF Kept

(* A guest that is told the address stays the same instance.               *)
LEMMA RepairKeeps ==
  ASSUME TInv, NEW k \in Cmds, Kept(k), Repair(k)
  PROVE  Kept(k)'
<1>1. ImageOrder(k)'
  BY Moves, Fields, TInvParts
  DEF Kept, Repair, At, Remembers, ImageOrder, ImageRemoved, BeforeImage,
      Reachable, Running, StateOK, VmOK
<1>2. GuestKnown(k)'
  <2>1. vm'.disk = vm.disk /\ vm.guest # NoGuest /\ vm'.guest.id = vm.guest.id
    BY TInvParts
    DEF Repair, Reachable, Running, StateOK, VmOK, QemuHasGuest, Guest
  <2>2. Remembers(k) /\ cmd'[k].pc = "registered" /\ cmd[k].pc = "repair"
    BY Moves DEF Repair, At
  <2> QED BY <2>1, <2>2 DEF Repair, Kept, Recorded, GuestKnown, Remembers, Starting, Identified
<1>3. CAKept(k)'
  BY Moves, Fields, TInvParts
  DEF Kept, Repair, At, Remembers, CAKept, Identified, Reachable, Running, StateOK,
      VmOK
<1>4. SeedKept(k)'
  BY Moves, Fields, TInvParts
  DEF Kept, Repair, At, Remembers, SeedKept, Reachable, Running, StateOK, VmOK
<1>5. Progress(k)'
  BY Moves, Fields, TInvParts
  DEF Kept, Recorded, Repair, At, Remembers, Progress, DeleteAt, Reachable, Running, StateOK,
      VmOK
<1>6. PairKept(k)' /\ InstancesKept(k)'
  BY Moves, Fields
  DEF Kept, Repair, At, Remembers, PairKept, InstancesKept, Reachable, Running
<1> QED BY <1>1, <1>2, <1>3, <1>4, <1>5, <1>6 DEF Kept

(* Waiting for the registration keeps everything.                          *)
LEMMA AwaitRegistrationKeeps ==
  ASSUME TInv, NEW k \in Cmds, Kept(k), AwaitRegistration(k)
  PROVE  Kept(k)'
BY Moves, Fields
DEF Kept, Recorded, AwaitRegistration, At, Remembers, ImageOrder, ImageRemoved,
    BeforeImage, GuestKnown, Starting, Identified, CAKept, SeedKept,
    PairKept, Progress, DeleteAt, InstancesKept

(* Waiting for Netsy keeps everything.                                     *)
LEMMA AwaitReadyKeeps ==
  ASSUME TInv, NEW k \in Cmds, Kept(k), AwaitReady(k)
  PROVE  Kept(k)'
BY Moves, Fields
DEF Kept, Recorded, AwaitReady, At, Remembers, ImageOrder, ImageRemoved,
    BeforeImage, GuestKnown, Starting, Identified, CAKept, SeedKept,
    PairKept, Progress, DeleteAt, InstancesKept

(* mutable.env is of a start, not of a delete.                             *)
LEMMA WriteBaselineKeeps ==
  ASSUME TInv, NEW k \in Cmds, Kept(k), WriteBaseline(k)
  PROVE  Kept(k)'
<1>1. GuestKnown(k)'
  BY Moves, Fields, TInvParts
  DEF Kept, Recorded, WriteBaseline, At, Remembers, GuestKnown, Starting,
      Identified, Put, StateOK, FilesOK
<1>2. SeedKept(k)'
  BY Moves, Fields, TInvParts
  DEF Kept, WriteBaseline, At, Remembers, SeedKept, Put, StateOK, FilesOK
<1>3. Progress(k)'
  BY Moves, Fields, TInvParts
  DEF Kept, Recorded, WriteBaseline, At, Remembers, Progress, DeleteAt, Put,
      StateOK, FilesOK
<1>4. ImageOrder(k)' /\ CAKept(k)' /\ PairKept(k)' /\ InstancesKept(k)'
  BY Moves, Fields
  DEF Kept, WriteBaseline, At, Remembers, ImageOrder, ImageRemoved,
      BeforeImage, CAKept, Identified, PairKept, InstancesKept, Put
<1> QED BY <1>1, <1>2, <1>3, <1>4 DEF Kept

(* The Git secret does not touch the seed.                                 *)
LEMMA SetUpHostKeeps ==
  ASSUME TInv, NEW k \in Cmds, Kept(k), SetUpHost(k)
  PROVE  Kept(k)'
<1>1. SeedKept(k)'
  BY Moves, Fields, TInvParts
  DEF Kept, SetUpHost, At, Remembers, SeedKept, StateOK, BucketOK
<1>2. Progress(k)'
  BY Moves, Fields, TInvParts, Operations
  DEF Kept, Recorded, SetUpHost, At, Remembers, Progress, DeleteAt, Starting,
      Identified, StateOK, BucketOK
<1>3. /\ ImageOrder(k)' /\ GuestKnown(k)' /\ CAKept(k)' /\ PairKept(k)'
      /\ InstancesKept(k)'
  BY Moves, Fields
  DEF Kept, Recorded, SetUpHost, At, Remembers, ImageOrder, ImageRemoved,
      BeforeImage, GuestKnown, Starting, Identified, CAKept, PairKept,
      InstancesKept
<1> QED BY <1>1, <1>2, <1>3 DEF Kept

(* A wait that ends keeps everything.                                      *)
LEMMA TimeoutKeeps ==
  ASSUME TInv, NEW k \in Cmds, Kept(k), Timeout(k)
  PROVE  Kept(k)'
BY Moves, Fields
DEF Kept, Recorded, Timeout, At, Remembers, ImageOrder, ImageRemoved, BeforeImage,
    GuestKnown, Starting, Identified, CAKept, SeedKept, PairKept,
    Progress, DeleteAt, InstancesKept

(* A VM that is killed keeps its guest.                                    *)
LEMMA KillVMKeeps ==
  ASSUME TInv, NEW k \in Cmds, Kept(k), KillVM(k)
  PROVE  Kept(k)'
<1>1. ImageOrder(k)'
  BY Moves, Fields, TInvParts, Operations
  DEF Kept, KillVM, At, Remembers, ImageOrder, ImageRemoved, BeforeImage,
      StateOK, VmOK
<1>2. GuestKnown(k)'
  BY Moves, Fields, TInvParts
  DEF Kept, Recorded, KillVM, At, Remembers, GuestKnown, Starting, Identified,
      StateOK, VmOK
<1>3. CAKept(k)'
  BY Moves, Fields, TInvParts
  DEF Kept, KillVM, At, Remembers, CAKept, Identified, StateOK, VmOK
<1>4. SeedKept(k)'
  BY Moves, Fields, TInvParts
  DEF Kept, KillVM, At, Remembers, SeedKept, StateOK, VmOK
<1>5. Progress(k)'
  BY Moves, Fields, TInvParts, Operations
  DEF Kept, Recorded, KillVM, At, Remembers, Progress, DeleteAt, StateOK, VmOK
<1>6. PairKept(k)' /\ InstancesKept(k)'
  BY Moves, Fields DEF Kept, KillVM, At, Remembers, PairKept, InstancesKept
<1> QED BY <1>1, <1>2, <1>3, <1>4, <1>5, <1>6 DEF Kept

(* The state file goes after the secrets, in a delete.                     *)
LEMMA RemoveStateKeeps ==
  ASSUME TInv, NEW k \in Cmds, Kept(k), RemoveState(k)
  PROVE  Kept(k)'
<1>1. ImageOrder(k)'
  BY Moves, Fields, Operations
  DEF Kept, RemoveState, At, Remembers, ImageOrder, ImageRemoved,
      BeforeImage, Put
<1>2. GuestKnown(k)'
  BY Moves, Fields, TInvParts
  DEF Kept, Recorded, RemoveState, At, Remembers, GuestKnown, Starting, Identified,
      Put, StateOK, FilesOK
<1>3. SeedKept(k)'
  BY Moves, Fields, TInvParts
  DEF Kept, RemoveState, At, Remembers, SeedKept, Put, StateOK, FilesOK
<1>4. Progress(k)'
  BY Moves, Fields, TInvParts
  DEF Kept, Recorded, RemoveState, At, Remembers, Progress, DeleteAt, Put, StateOK,
      FilesOK
<1>5. CAKept(k)' /\ PairKept(k)' /\ InstancesKept(k)'
  BY Moves, Fields
  DEF Kept, RemoveState, At, Remembers, CAKept, Identified, PairKept,
      InstancesKept, Put
<1> QED BY <1>1, <1>2, <1>3, <1>4, <1>5 DEF Kept

(* A server that is stopped keeps everything.                              *)
LEMMA CleanupServerKeeps ==
  ASSUME TInv, NEW k \in Cmds, Kept(k), CleanupServer(k)
  PROVE  Kept(k)'
<1>1. Progress(k)'
  BY Moves, Fields, Operations
  DEF Kept, Recorded, CleanupServer, At, Remembers, Progress, DeleteAt
<1>2. /\ ImageOrder(k)' /\ GuestKnown(k)' /\ CAKept(k)' /\ SeedKept(k)'
      /\ PairKept(k)' /\ InstancesKept(k)'
  BY Moves, Fields
  DEF Kept, Recorded, CleanupServer, At, Remembers, ImageOrder, ImageRemoved,
      BeforeImage, GuestKnown, Starting, Identified, CAKept, SeedKept,
      PairKept, InstancesKept
<1> QED BY <1>1, <1>2 DEF Kept

(* The image goes first.                                                   *)
LEMMA RemoveVMKeeps ==
  ASSUME TInv, NEW k \in Cmds, Kept(k), RemoveVM(k)
  PROVE  Kept(k)'
<1>1. ImageOrder(k)'
  BY Moves, Fields, TInvParts
  DEF Kept, RemoveVM, At, Remembers, ImageOrder, ImageRemoved,
      BeforeImage, DeletesAfter, StateOK, VmOK
<1>2. GuestKnown(k)'
  BY Moves, Fields, TInvParts
  DEF Kept, Recorded, RemoveVM, At, Remembers, GuestKnown, Starting, Identified,
      DeletesAfter, StateOK, VmOK
<1>3. CAKept(k)'
  BY Moves, Fields, TInvParts
  DEF Kept, RemoveVM, At, Remembers, CAKept, Identified, DeletesAfter,
      StateOK, VmOK
<1>4. SeedKept(k)'
  BY Moves, Fields, TInvParts
  DEF Kept, RemoveVM, At, Remembers, SeedKept, DeletesAfter, StateOK, VmOK
<1>5. Progress(k)'
  BY Moves, Fields, TInvParts
  DEF Kept, Recorded, RemoveVM, At, Remembers, Progress, DeleteAt, DeletesAfter,
      StateOK, VmOK
<1>6. PairKept(k)' /\ InstancesKept(k)'
  BY Moves, Fields
  DEF Kept, RemoveVM, At, Remembers, PairKept, InstancesKept, DeletesAfter
<1> QED BY <1>1, <1>2, <1>3, <1>4, <1>5, <1>6 DEF Kept

(* The secrets go when there is no image.                                  *)
LEMMA ForgetSecretsKeeps ==
  ASSUME TInv, NEW k \in Cmds, Kept(k), ForgetSecrets(k)
  PROVE  Kept(k)'
<1>1. CAKept(k)'
  BY Moves, Fields, TInvParts
  DEF Kept, ForgetSecrets, At, Remembers, CAKept, Identified,
      DeletesAfter, ImageOrder, ImageRemoved, StateOK, VaultOK
<1>2. Progress(k)'
  BY Moves, Fields, TInvParts, Operations
  DEF Kept, Recorded, ForgetSecrets, At, Remembers, Progress, DeleteAt,
      DeletesAfter, ImageOrder, ImageRemoved, StateOK, VaultOK
<1>3. /\ ImageOrder(k)' /\ GuestKnown(k)' /\ SeedKept(k)' /\ PairKept(k)'
      /\ InstancesKept(k)'
  BY Moves, Fields
  DEF Kept, Recorded, ForgetSecrets, At, Remembers, ImageOrder, ImageRemoved,
      BeforeImage, GuestKnown, Starting, Identified, SeedKept, PairKept,
      InstancesKept, DeletesAfter
<1> QED BY <1>1, <1>2, <1>3 DEF Kept

(* The data directory goes when there is no image.                         *)
LEMMA RemoveDataKeeps ==
  ASSUME TInv, NEW k \in Cmds, Kept(k), RemoveData(k)
  PROVE  Kept(k)'
<1>1. GuestKnown(k)'
  BY Moves, Fields, TInvParts
  DEF Kept, Recorded, RemoveData, At, Remembers, GuestKnown, Starting, Identified,
      ImageOrder, ImageRemoved, StateOK, FilesOK
<1>2. SeedKept(k)'
  BY Moves, Fields, TInvParts, ConstantsAssumption
  DEF Kept, RemoveData, At, Remembers, SeedKept, ImageOrder, ImageRemoved,
      StateOK, FilesOK
<1>3. Progress(k)'
  BY Moves, Fields, TInvParts
  DEF Kept, Recorded, RemoveData, At, Remembers, Progress, DeleteAt, StateOK,
      FilesOK
<1>4. ImageOrder(k)' /\ CAKept(k)' /\ PairKept(k)' /\ InstancesKept(k)'
  BY Moves, Fields
  DEF Kept, RemoveData, At, Remembers, ImageOrder, ImageRemoved,
      BeforeImage, CAKept, Identified, PairKept, InstancesKept
<1> QED BY <1>1, <1>2, <1>3, <1>4 DEF Kept

(* The bucket goes when there is no image.                                 *)
LEMMA RemoveBucketsKeeps ==
  ASSUME TInv, NEW k \in Cmds, Kept(k), RemoveBuckets(k)
  PROVE  Kept(k)'
<1>1. SeedKept(k)'
  BY Moves, Fields, TInvParts, ConstantsAssumption
  DEF Kept, RemoveBuckets, At, Remembers, SeedKept, ImageOrder,
      ImageRemoved, StateOK, BucketOK
<1>2. Progress(k)'
  BY Moves, Fields, TInvParts
  DEF Kept, Recorded, RemoveBuckets, At, Remembers, Progress, DeleteAt, StateOK,
      BucketOK
<1>3. /\ ImageOrder(k)' /\ GuestKnown(k)' /\ CAKept(k)' /\ PairKept(k)'
      /\ InstancesKept(k)'
  BY Moves, Fields
  DEF Kept, Recorded, RemoveBuckets, At, Remembers, ImageOrder, ImageRemoved,
      BeforeImage, GuestKnown, Starting, Identified, CAKept, PairKept,
      InstancesKept
<1> QED BY <1>1, <1>2, <1>3 DEF Kept

(* The tenant goes, and one or both halves of its pair.                    *)
LEMMA RemoveTenantKeeps ==
  ASSUME TInv, NEW k \in Cmds, Kept(k), RemoveTenant(k)
  PROVE  Kept(k)'
<1>1. /\ cmd[k].pc = "tenants" /\ cmd'[k].pc = "keys" /\ Remembers(k)
      /\ UNCHANGED <<vm, files, vault, bucket, unmended>>
  BY Moves DEF RemoveTenant, At
<1>2. /\ nstance'.inst = nstance.inst /\ nstance'.pending = nstance.pending
      /\ nstance'.pub \in {nstance.pub, 0} /\ nstance'.priv \in {nstance.priv, 0}
  BY TInvParts DEF RemoveTenant, StateOK, NstanceOK
<1>3. GuestKnown(k)' /\ InstancesKept(k)'
  BY <1>1, <1>2
  DEF Kept, Remembers, GuestKnown, Recorded, Starting, Identified, InstancesKept
<1>4. PairKept(k)'
  BY <1>1, <1>2 DEF Kept, PairKept
<1>5. Progress(k)'
  BY <1>1, <1>2 DEF Kept, Recorded, Remembers, Progress, DeleteAt
<1>6. ImageOrder(k)' /\ CAKept(k)' /\ SeedKept(k)'
  BY <1>1
  DEF Kept, Remembers, ImageOrder, ImageRemoved, BeforeImage, CAKept, Identified,
      SeedKept
<1> QED BY <1>3, <1>4, <1>5, <1>6 DEF Kept

(* What is left of the pair goes.                                          *)
LEMMA RemoveKeysKeeps ==
  ASSUME TInv, NEW k \in Cmds, Kept(k), RemoveKeys(k)
  PROVE  Kept(k)'
<1>1. /\ cmd[k].pc = "keys" /\ cmd'[k].pc = "instances" /\ Remembers(k)
      /\ UNCHANGED <<vm, files, vault, bucket>>
      /\ unmended' = unmended \ {"pair"}
  BY Moves DEF RemoveKeys, At
<1>2. /\ nstance'.inst = nstance.inst /\ nstance'.pending = nstance.pending
      /\ nstance'.pub = 0 /\ nstance'.priv = 0
  BY TInvParts DEF RemoveKeys, StateOK, NstanceOK
<1>3. GuestKnown(k)' /\ InstancesKept(k)'
  BY <1>1, <1>2
  DEF Kept, Remembers, GuestKnown, Recorded, Starting, Identified, InstancesKept
<1>4. PairKept(k)'
  BY <1>1, <1>2 DEF PairKept
<1>5. Progress(k)'
  BY <1>1, <1>2 DEF Kept, Recorded, Remembers, Progress, DeleteAt
<1>6. ImageOrder(k)' /\ CAKept(k)' /\ SeedKept(k)'
  BY <1>1
  DEF Kept, Remembers, ImageOrder, ImageRemoved, BeforeImage, CAKept, Identified,
      SeedKept
<1> QED BY <1>3, <1>4, <1>5, <1>6 DEF Kept

(* Where there is no image, no guest needs an instance: a delete may take  *)
(* any of them, and what it is taking is at hand until it is gone.         *)
LEMMA RemoveInstancesKeeps ==
  ASSUME TInv, NEW k \in Cmds, Kept(k), RemoveInstances(k)
  PROVE  Kept(k)'
<1>1. /\ cmd[k].pc = "instances" /\ cmd[k].op = "delete" /\ cmd'[k].op = cmd[k].op
      /\ UNCHANGED <<vm, files, vault, bucket, unmended>>
      /\ \/ \E n \in Numbers : cmd'[k].pc = "unlink" /\ cmd'[k].id = n
         \/ cmd'[k].pc = "done" /\ cmd'[k].outcome = "ok" /\ UNCHANGED nstance
  <2>1. cmd[k] \in Command /\ cmd[k].pc = "instances"
    BY TInvParts DEF RemoveInstances, At, Command
  <2>2. cmd[k].op = "delete"
    BY <2>1, Operations DEF Deleting
  <2> QED BY <2>1, <2>2, TInvParts DEF RemoveInstances, End, Command
<1>2. ~vm.disk /\ vm.guest = NoGuest
  BY <1>1 DEF Kept, ImageOrder, ImageRemoved, GuestKnown
<1>3. nstance'.pub = nstance.pub /\ nstance'.priv = nstance.priv
  BY TInvParts DEF RemoveInstances, StateOK, NstanceOK
<1>4. GuestKnown(k)'
  BY <1>1, <1>2 DEF GuestKnown, Starting, Identified
<1>5. Progress(k)'
  <2>1. CASE cmd'[k].pc = "unlink"
    BY <1>1, <1>3, <2>1 DEF Kept, Progress, DeleteAt
  <2>2. CASE cmd'[k].pc = "done"
    <3>1. UNCHANGED nstance
      BY <1>1, <2>2
    <3>2. \A n \in Numbers : ~Recorded(n)
      BY <1>1, <2>2, TInvParts DEF RemoveInstances, Command, Owned, Recorded
    <3>3. (\A n \in Numbers : ~Recorded(n))'
      BY <3>1, <3>2 DEF Recorded
    <3> QED BY <1>1, <2>2, <3>1, <3>3 DEF Kept, Progress, DeleteAt
  <2> QED BY <1>1, <2>1, <2>2
<1>6. InstancesKept(k)'
  <2>1. CASE UNCHANGED nstance
    BY <1>1, <2>1 DEF Kept, InstancesKept
  <2>2. CASE \E n \in Numbers :
               /\ cmd' = [cmd EXCEPT ![k].pc = "unlink", ![k].id = n]
               /\ Owned(n)
               /\ \/ nstance' = [nstance EXCEPT !.inst[n] = "orphaned"]
                  \/ nstance' = [nstance EXCEPT !.pending[n] = 0]
    <3>1. PICK n \in Numbers :
               /\ cmd' = [cmd EXCEPT ![k].pc = "unlink", ![k].id = n]
               /\ Owned(n)
               /\ \/ nstance' = [nstance EXCEPT !.inst[n] = "orphaned"]
                  \/ nstance' = [nstance EXCEPT !.pending[n] = 0]
      BY <2>2
    <3>2. cmd'[k].pc = "unlink" /\ cmd'[k].id = n
      BY <3>1, TInvParts DEF Command
    <3>3. \/ /\ nstance'.inst = [nstance.inst EXCEPT ![n] = "orphaned"]
             /\ nstance'.pending = nstance.pending
          \/ /\ nstance'.pending = [nstance.pending EXCEPT ![n] = 0]
             /\ nstance'.inst = nstance.inst
      BY <3>1, TInvParts DEF StateOK, NstanceOK
    <3> QED BY <1>1, <3>2, <3>3, TInvParts DEF Kept, InstancesKept, StateOK, NstanceOK
  <2> QED BY <2>1, <2>2 DEF RemoveInstances
<1>7. PairKept(k)'
  BY <1>1, <1>3 DEF Kept, PairKept
<1>8. ImageOrder(k)' /\ CAKept(k)' /\ SeedKept(k)'
  BY <1>1, <1>2
  DEF Kept, ImageOrder, ImageRemoved, BeforeImage, CAKept, Identified, SeedKept
<1> QED BY <1>4, <1>5, <1>6, <1>7, <1>8 DEF Kept

(* The rest of the directory goes, and with it what was at hand.           *)
LEMMA UnlinkKeeps ==
  ASSUME TInv, NEW k \in Cmds, Kept(k), Unlink(k)
  PROVE  Kept(k)'
<1> DEFINE n == cmd[k].id
<1>1. cmd[k] \in Command /\ Consistent(cmd[k]) /\ cmd[k].pc = "unlink"
  BY TInvParts DEF CommandsOK, Unlink, At
<1>2. n \in Numbers /\ cmd[k].op = "delete"
  BY <1>1 DEF Consistent, Deleting
<1>3. /\ cmd'[k].pc = "instances" /\ cmd'[k].op = cmd[k].op
      /\ UNCHANGED <<vm, files, vault, bucket, unmended>>
  BY <1>1, TInvParts DEF Unlink, Command
<1>4. /\ nstance'.inst = [nstance.inst EXCEPT ![n] = "none"]
      /\ nstance'.pending = [nstance.pending EXCEPT ![n] = 0]
      /\ nstance'.pub = nstance.pub /\ nstance'.priv = nstance.priv
  BY <1>2, TInvParts DEF Unlink, StateOK, NstanceOK
<1>5. ~vm.disk /\ vm.guest = NoGuest
  BY <1>1 DEF Kept, ImageOrder, ImageRemoved, GuestKnown
<1>6. GuestKnown(k)'
  BY <1>3, <1>5 DEF GuestKnown, Starting, Identified
<1>7. Progress(k)'
  BY <1>1, <1>2, <1>3, <1>4 DEF Kept, Progress, DeleteAt
<1>8. InstancesKept(k)'
  BY <1>1, <1>2, <1>3, <1>4, TInvParts DEF Kept, InstancesKept, StateOK, NstanceOK
<1>9. PairKept(k)'
  BY <1>1, <1>3, <1>4 DEF Kept, PairKept
<1>10. ImageOrder(k)' /\ CAKept(k)' /\ SeedKept(k)'
  BY <1>3, <1>5
  DEF Kept, ImageOrder, ImageRemoved, BeforeImage, CAKept, Identified, SeedKept
<1> QED BY <1>6, <1>7, <1>8, <1>9, <1>10 DEF Kept

(* Finding the server keeps everything.                                    *)
LEMMA EnsureKeeps ==
  ASSUME TInv, NEW k \in Cmds, Kept(k), Ensure(k)
  PROVE  Kept(k)'
<1>1. cmd'[k].pc = (IF cmd[k].op = "start" THEN "look" ELSE "forget") /\ Remembers(k)
  BY TInvParts DEF Ensure, Remembers, Command
<1>2. ImageOrder(k)'
  BY <1>1, Fields, Operations
  DEF Kept, Ensure, At, Remembers, ImageOrder, ImageRemoved, BeforeImage
<1>3. /\ GuestKnown(k)' /\ CAKept(k)' /\ SeedKept(k)' /\ PairKept(k)'
      /\ Progress(k)' /\ InstancesKept(k)'
  BY <1>1, Fields
  DEF Kept, Recorded, Ensure, At, Remembers, GuestKnown, Starting, Identified,
      CAKept, SeedKept, PairKept, Progress, DeleteAt, InstancesKept
<1> QED BY <1>2, <1>3 DEF Kept

(* The start takes over the instance of the image, or there is none.       *)
LEMMA LookKeeps ==
  ASSUME TInv, NEW k \in Cmds, Kept(k), Look(k)
  PROVE  Kept(k)'
<1>1. /\ cmd'[k].pc = "ca" /\ cmd'[k].vmExisted = vm.disk
      /\ cmd'[k].id = IF vm.disk THEN files.userData ELSE 0
      /\ cmd'[k].op = cmd[k].op /\ cmd'[k].no = cmd[k].no /\ cmd'[k].seed = cmd[k].seed
  BY TInvParts DEF Look, Command, ExistingInstanceID
<1>2. ImageOrder(k)'
  BY <1>1, Fields
  DEF Kept, Look, At, Remembers, ImageOrder, ImageRemoved, BeforeImage,
      ExistingInstanceID
<1>3. GuestKnown(k)'
  BY <1>1, Fields
  DEF Kept, Recorded, Look, At, Remembers, GuestKnown, Starting, Identified,
      ExistingInstanceID
<1>4. /\ CAKept(k)' /\ SeedKept(k)' /\ PairKept(k)' /\ Progress(k)'
      /\ InstancesKept(k)'
  BY <1>1, Fields
  DEF Kept, Recorded, Look, At, Remembers, CAKept, Identified, SeedKept, PairKept,
      Progress, DeleteAt, InstancesKept, ExistingInstanceID
<1> QED BY <1>2, <1>3, <1>4 DEF Kept

(* The start takes over the seed of the image, or there is none.           *)
LEMMA ChooseSeedKeeps ==
  ASSUME TInv, NEW k \in Cmds, Kept(k), ChooseSeed(k)
  PROVE  Kept(k)'
<1>1. \/ cmd'[k].pc = "done" /\ cmd'[k].outcome = "failed" /\ Remembers(k)
      \/ /\ cmd[k].vmExisted => files.config \notin {Missing, Torn}
         /\ cmd'[k].pc = "config" /\ cmd'[k].vmExisted = cmd[k].vmExisted
         /\ cmd'[k].id = IF cmd[k].id = 0 THEN cmd[k].no ELSE cmd[k].id
         /\ cmd'[k].seed = IF cmd[k].vmExisted THEN files.config ELSE cmd[k].seed
         /\ cmd'[k].op = cmd[k].op /\ cmd'[k].no = cmd[k].no
  BY Moves, TInvParts DEF HasSeedConfig, ChooseSeed, Command
<1>2. GuestKnown(k)'
  <2>1. cmd[k].pc = "seed" /\ cmd[k].pc \in Starting \ {"look"}
    BY DEF HasSeedConfig, ChooseSeed, At, Starting
  <2>2. vm.guest # NoGuest =>
            "identity" \in unmended \/ (cmd[k].id = vm.guest.id /\ vm.guest.id # 0)
    BY <2>1, TInvParts DEF Kept, Recorded, GuestKnown, StateOK, VmOK, Guest, Numbers
  <2> QED
    BY <1>1, <2>1, <2>2
    DEF HasSeedConfig, ChooseSeed, Kept, Recorded, GuestKnown, Remembers
<1>3. CAKept(k)'
  BY <1>1, Fields
  DEF Kept, HasSeedConfig, ChooseSeed, At, Remembers, CAKept, Identified, Starting
<1>4. /\ ImageOrder(k)' /\ SeedKept(k)' /\ PairKept(k)' /\ Progress(k)'
      /\ InstancesKept(k)'
  BY <1>1, Fields
  DEF Kept, Recorded, HasSeedConfig, ChooseSeed, At, Remembers, ImageOrder, ImageRemoved,
      BeforeImage, SeedKept, PairKept, Progress, DeleteAt, InstancesKept
<1> QED BY <1>2, <1>3, <1>4 DEF Kept

(* A command that fails leaves everything as it is, and a delete that has  *)
(* removed one file of a pair or of a directory may leave the other.       *)
LEMMA FailKeeps ==
  ASSUME TInv, NEW k \in Cmds, Kept(k), Fail(k)
  PROVE  Kept(k)'
<1>1. /\ cmd'[k].pc = "done" /\ cmd'[k].outcome = "failed" /\ Remembers(k)
      /\ UNCHANGED <<vm, files, vault, nstance, bucket>>
      /\ unmended' = unmended \cup Leaves(k)
  BY Moves DEF Fail
<1>2. PairKept(k)'
  BY <1>1 DEF Kept, PairKept, Leaves, At
<1>3. InstancesKept(k)'
  BY <1>1 DEF Kept, InstancesKept, Leaves, At
<1>4. GuestKnown(k)'
  BY <1>1 DEF Kept, Recorded, GuestKnown, Starting, Identified
<1>5. ImageOrder(k)' /\ CAKept(k)' /\ SeedKept(k)' /\ Progress(k)'
  BY <1>1
  DEF Kept, ImageOrder, ImageRemoved, BeforeImage, CAKept, Identified, SeedKept,
      Progress, DeleteAt
<1> QED BY <1>2, <1>3, <1>4, <1>5 DEF Kept

(* A stop begins with everything as it is.                                 *)
LEMMA StopKeeps ==
  ASSUME TInv, NEW k \in Cmds, Kept(k), Stop(k)
  PROVE  Kept(k)'
BY Moves, Fields
DEF Kept, Recorded, Stop, At, Remembers, ImageOrder, ImageRemoved, BeforeImage,
    GuestKnown, Starting, Identified, CAKept, SeedKept, PairKept,
    Progress, DeleteAt, InstancesKept

(* A delete begins with everything as it is.                               *)
LEMMA DeleteKeeps ==
  ASSUME TInv, NEW k \in Cmds, Kept(k), Delete(k)
  PROVE  Kept(k)'
BY Moves, Fields
DEF Kept, Recorded, Delete, At, Remembers, ImageOrder, ImageRemoved, BeforeImage,
    GuestKnown, Starting, Identified, CAKept, SeedKept, PairKept,
    Progress, DeleteAt, InstancesKept, DeletesAfter

(* A command that returns leaves everything as it is.                      *)
LEMMA ReturnKeeps ==
  ASSUME TInv, NEW k \in Cmds, Kept(k), Return(k)
  PROVE  Kept(k)'
<1>1. cmd'[k] = Idle
  BY TInvParts DEF Return, Command
<1>2. /\ ImageOrder(k)' /\ GuestKnown(k)' /\ CAKept(k)' /\ SeedKept(k)'
      /\ PairKept(k)' /\ Progress(k)' /\ InstancesKept(k)'
  BY <1>1, Fields
  DEF Kept, Recorded, Return, At, Remembers, ImageOrder, ImageRemoved, BeforeImage,
      GuestKnown, Starting, Identified, CAKept, SeedKept, PairKept,
      Progress, DeleteAt, InstancesKept, Idle
<1> QED BY <1>2 DEF Kept

(* A start begins with everything as it is.                                *)
LEMMA StartKeeps ==
  ASSUME TInv, NEW k \in Cmds, Kept(k), NEW asked \in Seeds \cup {None, NotAsked},
         Start(k, asked)
  PROVE  Kept(k)'
<1>1. cmd[k].pc = "idle" /\ cmd'[k].pc \in {"done", "ensure"} /\ cmd'[k].op = "start"
  BY TInvParts DEF HasSeedConfig, Start, At, Idle, Command
<1>2. UNCHANGED <<vm, files, vault, nstance, bucket, unmended>>
  BY DEF HasSeedConfig, Start
<1> QED
  BY <1>1, <1>2
  DEF Kept, Recorded, ImageOrder, ImageRemoved, BeforeImage, GuestKnown,
      Starting, Identified, CAKept, SeedKept, PairKept, Progress, DeleteAt, InstancesKept

(* What the guest does keeps everything: it is the one that is known.      *)
LEMMA GuestKeeps ==
  ASSUME TInv, NEW k \in Cmds, Kept(k), Register \/ Deliver
  PROVE  Kept(k)'
<1>1. vm.qemu /\ vm.guest # NoGuest /\ vm.guest \in Guest /\ vm.guest.id \in Numbers
  BY TInvParts
  DEF Register, Deliver, CanRegister, CanDeliver, StateOK, VmOK, QemuHasGuest, Guest
<1>2. /\ vm'.disk = vm.disk /\ vm'.guest.id = vm.guest.id
      /\ nstance'.pub = nstance.pub /\ nstance'.priv = nstance.priv
  BY <1>1, TInvParts DEF Register, Deliver, StateOK, VmOK, Guest, NstanceOK
<1>3. vm.disk /\ Recorded(vm.guest.id)
  BY <1>1 DEF Kept, GuestKnown
<1>4. /\ \A n \in Numbers : \/ nstance'.inst[n] = nstance.inst[n]
                            \/ Recorded(n) /\ nstance'.inst[n] = "registered"
      /\ \A n \in Numbers : nstance'.pending[n] \in {nstance.pending[n], 0}
  BY <1>1, <1>3, TInvParts DEF Register, Deliver, StateOK, NstanceOK
<1>5. UNCHANGED <<files, vault, bucket, unmended, cmd>>
  BY DEF Register, Deliver
<1>6. GuestKnown(k)'
  <2>1. cmd[k].pc \in {"stage", "userdata", "boot"} => cmd[k].id \in Numbers
    BY Fields DEF Identified
  <2> QED BY <1>1, <1>2, <1>3, <1>4, <1>5, <2>1 DEF Kept, Recorded, GuestKnown
<1>7. ImageOrder(k)' /\ CAKept(k)' /\ SeedKept(k)' /\ PairKept(k)'
  BY <1>2, <1>5 DEF Kept, ImageOrder, ImageRemoved, CAKept, SeedKept, PairKept
<1>8. Progress(k)' /\ InstancesKept(k)'
  BY <1>2, <1>3, <1>4, <1>5 DEF Kept, Recorded, Progress, DeleteAt, InstancesKept
<1> QED BY <1>6, <1>7, <1>8 DEF Kept

(* A VM or a server that dies leaves everything behind.                    *)
LEMMA DeathKeeps ==
  ASSUME TInv, NEW k \in Cmds, Kept(k), VMDies \/ ServerDies \/ UNCHANGED vars
  PROVE  Kept(k)'
<1>1. vm'.disk = vm.disk /\ vm'.guest = vm.guest
  BY TInvParts DEF VMDies, ServerDies, vars, StateOK, VmOK
<1>2. UNCHANGED <<files, vault, nstance, bucket, unmended, cmd>>
  BY DEF VMDies, ServerDies, vars
<1> QED
  BY <1>1, <1>2
  DEF Kept, Recorded, ImageOrder, ImageRemoved, GuestKnown, CAKept, SeedKept, PairKept,
      Progress, DeleteAt, InstancesKept

(* At first there is nothing.                                              *)
LEMMA InitKeeps ==
  ASSUME Init, NEW k \in Cmds
  PROVE  Kept(k)
BY ConstantsAssumption
DEF Init, Idle, Kept, Recorded, ImageOrder, ImageRemoved, BeforeImage, GuestKnown, Starting,
    Identified, CAKept, SeedKept, PairKept, Progress, DeleteAt, InstancesKept

(* Every step of the only command, of its guest and of its server keeps    *)
(* the invariant.                                                          *)
LEMMA NextKeeps ==
  ASSUME NEW k, Cmds = {k}, TInv, Kept(k), [Next]_vars
  PROVE  Kept(k)'
<1>1. CASE User(k)
  BY <1>1, StartKeeps, StopKeeps, DeleteKeeps DEF User
<1>2. CASE Step(k)
  BY <1>2, EnsureKeeps, LookKeeps, GetCAKeeps, CreateCAKeeps, ChooseSeedKeeps,
     WriteConfigKeeps, PrepareSecretsKeeps, SeedBucketKeeps, CreateVMKeeps,
     GetKeyPairKeeps, PutKeyPairKeeps, ConfigureTenantKeeps,
     ConfigureInstanceKeeps, StageMutableEnvKeeps, WriteUserDataKeeps,
     BootVMKeeps, WriteStateKeeps, AwaitServicesKeeps,
     ConfigureForwarderKeeps, RepairKeeps, AwaitRegistrationKeeps,
     AwaitReadyKeeps, WriteBaselineKeeps, SetUpHostKeeps, TimeoutKeeps,
     KillVMKeeps, RemoveStateKeeps, CleanupServerKeeps, RemoveVMKeeps,
     ForgetSecretsKeeps, RemoveDataKeeps, RemoveBucketsKeeps,
     RemoveTenantKeeps, RemoveKeysKeeps, RemoveInstancesKeeps, UnlinkKeeps,
     ReturnKeeps DEF Step
<1>3. CASE Fail(k)
  BY <1>3, FailKeeps
<1>4. CASE Register \/ Deliver
  BY <1>4, GuestKeeps
<1>5. CASE VMDies \/ ServerDies \/ UNCHANGED vars
  BY <1>5, DeathKeeps
<1> QED BY <1>1, <1>2, <1>3, <1>4, <1>5 DEF Next

(* The invariant holds of a user who runs one command after the other.     *)
LEMMA AlwaysKept ==
  ASSUME NEW k, Cmds = {k}
  PROVE  Spec => [](TInv /\ Kept(k))
<1>1. Init => TInv /\ Kept(k)
  BY InitTypes, InitKeeps
<1>2. TInv /\ Kept(k) /\ [Next]_vars => (TInv /\ Kept(k))'
  BY NextTypes, NextKeeps
<1> QED BY <1>1, <1>2, PTL DEF Spec

----------------------------------------------------------------------------
(* The properties of one command at a time.                                *)

(* Between commands, user-data and fake Nstance name the instance that the *)
(* guest took over on its first boot, however many starts, stops and       *)
(* deletes failed and wherever, so that the next start finds its guest;    *)
(* the one exception is a guest whose user-data a start began to write and *)
(* was killed.                                                             *)
THEOREM IdentityIsKept ==
  ASSUME NEW k, Cmds = {k}
  PROVE  Spec => []IdentityKept
<1>1. TInv /\ Kept(k) => IdentityKept
  BY DEF Kept, Recorded, GuestKnown, IdentityKept
<1> QED BY AlwaysKept, <1>1, PTL

(* A cluster that exists is never refused because its CA key is missing:   *)
(* the key is made before the image and deleted after it.                  *)
THEOREM DiskAlwaysHasItsCA ==
  ASSUME NEW k, Cmds = {k}
  PROVE  Spec => []DiskHasItsCA
<1>1. TInv /\ Kept(k) => DiskHasItsCA
  BY DEF Kept, CAKept, DiskHasItsCA
<1> QED BY AlwaysKept, <1>1, PTL

(* A VM whose seed is recorded has a bucket that was seeded: SeedBucket    *)
(* has done its work whenever CreateVM makes the image, and nothing takes  *)
(* the data away while the image is there.  The data is torn only if the   *)
(* write of it, or the removal of the bucket, was cut.                     *)
THEOREM AlwaysSeededBeforeCreated ==
  ASSUME NEW k, Cmds = {k}
  PROVE  Spec => []SeededBeforeCreated
<1>1. TInv /\ Kept(k) => SeededBeforeCreated
  BY DEF Kept, SeedKept, SeededBeforeCreated
<1> QED BY AlwaysKept, <1>1, PTL

(* Tokens signed with the private half are verified with the public half,  *)
(* wherever localServiceAccountKeyPair was cut short: no start leaves a    *)
(* private half without its public half.  After a delete that did, the     *)
(* halves may differ until a start or a delete has dealt with both.        *)
THEOREM KeyPairAlwaysMatches ==
  ASSUME NEW k, Cmds = {k}
  PROVE  Spec => []KeyPairMatches
<1>1. TInv /\ Kept(k) => KeyPairMatches
  BY DEF Kept, PairKept, KeyPairMatches
<1> QED BY AlwaysKept, <1>1, PTL

(* After a local delete that succeeds, nothing of the cluster is left,     *)
(* whatever starts and deletes before it left half done, and although the  *)
(* guest and the server go on until the delete reaches them; only the rest *)
(* of a directory of an instance stays that an earlier delete, killed in   *)
(* the middle of it, has left without its instance.json.                   *)
THEOREM DeleteLeavesNothing ==
  ASSUME NEW k, Cmds = {k}
  PROVE  Spec => []DeletedLeavesNothing
<1>1. TInv /\ Kept(k) => DeletedLeavesNothing
  <2> SUFFICES ASSUME TInv, Kept(k), NEW c \in Cmds, At(c, "done"),
                      cmd[c].op = "delete", cmd[c].outcome = "ok"
               PROVE  /\ ~vm.disk /\ ~files.state
                      /\ files.userData = 0 /\ files.baseline = 0 /\ files.config = Missing
                      /\ vault.ca = 0 /\ vault.secret = 0 /\ bucket.seed = Missing
                      /\ nstance.pub = 0 /\ nstance.priv = 0
                      /\ \A n \in Numbers :
                           \/ nstance.inst[n] = "none" /\ nstance.pending[n] = 0
                           \/ nstance.inst[n] = "orphaned" /\ "instances" \in unmended
    BY DEF DeletedLeavesNothing
  <2>1. cmd[k].pc = "done" /\ cmd[k].op = "delete" /\ cmd[k].outcome = "ok"
    BY DEF At
  <2>2. \A n \in Numbers : nstance.inst[n] \in {"none", "orphaned"}
    BY <2>1, TInvParts DEF Kept, Progress, DeleteAt, Recorded, StateOK, NstanceOK
  <2>3. \A n \in Numbers :
           \/ nstance.inst[n] = "none" /\ nstance.pending[n] = 0
           \/ nstance.inst[n] = "orphaned" /\ "instances" \in unmended
    BY <2>1, <2>2 DEF Kept, InstancesKept
  <2> QED BY <2>1, <2>3 DEF Kept, Progress, DeleteAt
<1> QED BY AlwaysKept, <1>1, PTL
=============================================================================
