------------------------- MODULE LocalClusterProofs -------------------------
(***************************************************************************)
(* Proofs about LocalCluster.  Types, and what is never overwritten, hold  *)
(* for any number of commands at the same time; the rest is about a user   *)
(* who runs one command after the other, however often commands fail, be   *)
(* it in the middle of a write or a removal, and whatever else dies.       *)
(***************************************************************************)
EXTENDS LocalCluster, TLAPS

----------------------------------------------------------------------------
(* Commands and their types.                                               *)

Command == [pc : Steps, op : {"start", "stop", "delete"},
            no : Maybe, existed : BOOLEAN, vmExisted : BOOLEAN,
            id : Maybe, env : Maybe, seed : Seeds \cup {None},
            outcome : {"none", "ok", "running", "failed"}]

\* The steps of a start after it has chosen an instance ID, and all of them
\* after it has found its server.
Identified == {"config", "secrets", "snapshot", "create", "pair", "putPub",
               "putPriv", "tenant", "instance", "stage", "userdata", "boot",
               "state", "await", "forward", "repair", "registered", "ready",
               "baseline", "host"}
Starting == {"look", "ca", "createCA", "seed"} \cup Identified
Deleting == {"remove", "forget", "data", "bucket", "tenants", "keys",
             "instances", "unlink"}

\* What a command at a step has to be.
Consistent(c) ==
    /\ c.pc \in Starting => c.op = "start" /\ c.env \in Numbers
    /\ c.pc \in Identified => c.id \in Numbers
    /\ c.pc \in Deleting => c.op = "delete"
    /\ c.pc = "unlink" => c.id \in Numbers
    /\ c.pc \in {"kill", "cleanup"} => c.op = "stop"
    /\ c.pc = "ensure" => c.op \in {"start", "delete"}
    /\ c.pc = "unstate" => c.op \in {"stop", "delete"}
    /\ c.pc \in Starting \cup {"ensure", "remove"} => c.no \in Numbers

CommandsOK == \A k \in Cmds : cmd[k] \in Command /\ Consistent(cmd[k])

QemuHasGuest == vm.qemu => vm.guest # NoGuest

TInv == TypeOK /\ CommandsOK /\ QemuHasGuest

(* The steps of each kind are steps, and the orders of a start and of a    *)
(* delete stay within their kinds.                                         *)
LEMMA StepKinds ==
  /\ Starting \cup Deleting \cup {"idle", "ensure", "kill", "cleanup", "unstate", "done"}
        \subseteq Steps
  /\ Identified \subseteq Starting
  /\ NewAfter("secrets") = "snapshot" /\ NewAfter("snapshot") = "create"
  /\ NewAfter("create") = "pair" /\ PutStep = "putPub"
  /\ DeletesAfter("begin") = "remove" /\ DeletesAfter("remove") = "ensure"
  /\ DeletesAfter("forget") = "unstate"
BY DEF Starting, Identified, Deleting, Steps, NewAfter, PutStep, DeletesAfter

(* A command that has just begun or ended is consistent, and Idle is one.  *)
LEMMA IdleCommand == Idle \in Command /\ Consistent(Idle)
<1>1. Idle \in Command
  BY ConstantsAssumption DEF Idle, Command, Steps, Maybe
<1>2. Consistent(Idle)
  BY DEF Idle, Consistent, Starting, Identified, Deleting
<1> QED BY <1>1, <1>2

(* A step of one command to a consistent place keeps all of them so.       *)
LEMMA Replaced ==
  ASSUME TypeOK, CommandsOK, NEW k \in Cmds, NEW c \in Command, Consistent(c),
         cmd' = [cmd EXCEPT ![k] = c]
  PROVE  /\ cmd' \in [Cmds -> Command] /\ CommandsOK'
         /\ cmd'[k] = c
BY DEF TypeOK, CommandsOK, Command

(* What going to a step changes of a command.                              *)
LEMMA GotoIs ==
  ASSUME TypeOK, NEW k \in Cmds, NEW step \in Steps, Goto(k, step)
  PROVE  /\ [cmd[k] EXCEPT !.pc = step] \in Command
         /\ cmd' = [cmd EXCEPT ![k] = [cmd[k] EXCEPT !.pc = step]]
BY DEF TypeOK, Goto, Command

(* What ending changes of a command.                                       *)
LEMMA EndIs ==
  ASSUME TypeOK, NEW k \in Cmds, NEW result \in {"ok", "running", "failed"},
         End(k, result)
  PROVE  /\ [cmd[k] EXCEPT !.pc = "done", !.outcome = result] \in Command
         /\ cmd' = [cmd EXCEPT ![k] = [cmd[k] EXCEPT !.pc = "done", !.outcome = result]]
<1>1. cmd[k] \in Command
  BY DEF TypeOK, Command
<1>2. [cmd[k] EXCEPT !.pc = "done", !.outcome = result] \in Command
  BY <1>1, StepKinds DEF Command
<1>3. cmd' = [cmd EXCEPT ![k] = [cmd[k] EXCEPT !.pc = "done", !.outcome = result]]
  BY DEF TypeOK, End, Command
<1> QED BY <1>2, <1>3

(* A command that ends stays consistent.                                   *)
LEMMA Ended ==
  ASSUME TypeOK, CommandsOK, NEW k \in Cmds,
         NEW result \in {"ok", "running", "failed"}, End(k, result)
  PROVE  /\ cmd' \in [Cmds -> Command] /\ CommandsOK'
         /\ cmd'[k] = [cmd[k] EXCEPT !.pc = "done", !.outcome = result]
<1>1. Consistent([cmd[k] EXCEPT !.pc = "done", !.outcome = result])
  BY DEF CommandsOK, Consistent, Starting, Identified, Deleting, Command
<1> QED BY <1>1, EndIs, Replaced

(* A command that goes to a step which its last one leads to stays         *)
(* consistent.                                                             *)
LEMMA Gone ==
  ASSUME TypeOK, CommandsOK, NEW k \in Cmds, NEW step \in Steps, Goto(k, step),
         \/ cmd[k].pc \in Identified /\ step \in Identified
         \/ cmd[k].pc \in Starting /\ step \in Starting \ Identified
         \/ cmd[k].pc \in Deleting /\ step \in (Deleting \ {"remove", "unlink"}) \cup {"unstate"}
         \/ cmd[k].pc = "remove" /\ step = "ensure"
         \/ cmd[k].pc = "kill" /\ step = "unstate"
         \/ cmd[k].pc = "unstate" /\ cmd[k].op = "stop" /\ step = "cleanup"
         \/ cmd[k].pc = "unstate" /\ cmd[k].op # "stop" /\ step = "data"
  PROVE  /\ cmd' \in [Cmds -> Command] /\ CommandsOK'
         /\ cmd'[k] = [cmd[k] EXCEPT !.pc = step]
<1>1. Consistent(cmd[k]) /\ cmd[k] \in Command
  BY DEF CommandsOK
<1>2. Consistent([cmd[k] EXCEPT !.pc = step])
  BY <1>1 DEF Consistent, Starting, Identified, Deleting, Command
<1> QED BY <1>2, GotoIs, Replaced

----------------------------------------------------------------------------
(* Type correctness.                                                       *)

VmOK ==
    /\ vm \in [disk : BOOLEAN, qemu : BOOLEAN, pid : BOOLEAN,
               guest : Guest \cup {NoGuest}]
    /\ QemuHasGuest
FilesOK ==
    files \in [userData : Maybe, baseline : Maybe, state : BOOLEAN,
               config : Seeds \cup {None, Missing, Torn}]
VaultOK == vault \in [ca : Maybe, secret : Maybe]
NstanceOK ==
    nstance \in [pub : Maybe, priv : Maybe, tenant : Maybe,
                 inst : [Numbers -> {"none", "configured", "registered", "orphaned"}],
                 pending : [Numbers -> Maybe]]
BucketOK == bucket \in [seed : Seeds \cup {Missing, Torn}, flux : BOOLEAN]
RestOK ==
    /\ server \in Maybe /\ count \in Maybe /\ faults \in 0 .. MaxFaults
    /\ unmended \subseteq {"identity", "pair", "instances"}

StateOK == VmOK /\ FilesOK /\ VaultOK /\ NstanceOK /\ BucketOK /\ RestOK

\* The commands keep their types and are consistent after the step.
CommandsStayOK == cmd' \in [Cmds -> Command] /\ CommandsOK'

(* The type invariant, taken apart.                                        *)
LEMMA TInvParts ==
  /\ TInv <=> StateOK /\ cmd \in [Cmds -> Command] /\ CommandsOK
  /\ StateOK' /\ CommandsStayOK => TInv'
<1>1. TInv <=> StateOK /\ cmd \in [Cmds -> Command] /\ CommandsOK
  BY DEF TInv, TypeOK, StateOK, VmOK, FilesOK, VaultOK, NstanceOK, BucketOK,
         RestOK, Command
<1>2. StateOK' /\ CommandsStayOK => TInv'
  BY DEF TInv, TypeOK, StateOK, VmOK, FilesOK, VaultOK, NstanceOK, BucketOK,
         RestOK, Command, CommandsStayOK
<1> QED BY <1>1, <1>2

(* What a command remembers at the step it is at.                          *)
LEMMA Fields ==
  ASSUME TInv, NEW k \in Cmds
  PROVE  /\ cmd[k].no \in Maybe /\ cmd[k].id \in Maybe /\ cmd[k].env \in Maybe
         /\ cmd[k].seed \in Seeds \cup {None} /\ cmd[k].vmExisted \in BOOLEAN
         /\ cmd[k].pc \in Identified => cmd[k].id \in Numbers
         /\ cmd[k].pc \in Starting => /\ cmd[k].env \in Numbers
                                      /\ cmd[k].no \in Numbers
         /\ cmd[k].pc \in {"ensure", "remove"} => cmd[k].no \in Numbers
         /\ Numbers \subseteq Maybe /\ 0 \in Maybe
<1>1. cmd[k] \in Command /\ Consistent(cmd[k])
  BY DEF TInv, CommandsOK
<1> QED BY <1>1, ConstantsAssumption DEF Command, Consistent, Numbers, Maybe, Starting

(* Asking for the CA key changes nothing but the command.                  *)
LEMMA GetCATypes ==
  ASSUME TInv, NEW k \in Cmds, GetCA(k)
  PROVE  TInv'
<1>1. CommandsStayOK
  BY Ended, Gone, StepKinds
  DEF GetCA, At, CommandsStayOK, TInv, CommandsOK, Consistent,
      Identified, Starting, Deleting
<1>2. VmOK' /\ FilesOK' /\ VaultOK' /\ NstanceOK' /\ BucketOK' /\ RestOK'
  BY TInvParts
  DEF GetCA, StateOK, VmOK, FilesOK, VaultOK, NstanceOK, BucketOK, RestOK, QemuHasGuest
<1> QED BY <1>1, <1>2, TInvParts DEF StateOK

(* A CA key is a number of a command.                                      *)
LEMMA CreateCATypes ==
  ASSUME TInv, NEW k \in Cmds, CreateCA(k)
  PROVE  TInv'
<1>1. CommandsStayOK
  BY Ended, Gone, StepKinds
  DEF CreateCA, At, CommandsStayOK, TInv, CommandsOK, Consistent,
      Identified, Starting, Deleting
<1>2. VaultOK'
  BY Fields, TInvParts, ConstantsAssumption
  DEF CreateCA, At, StateOK, VaultOK, Created, Identified, Starting
<1>3. VmOK' /\ FilesOK' /\ NstanceOK' /\ BucketOK' /\ RestOK'
  BY TInvParts
  DEF CreateCA, StateOK, VmOK, FilesOK, NstanceOK, BucketOK, RestOK, QemuHasGuest
<1> QED BY <1>1, <1>2, <1>3, TInvParts DEF StateOK

(* cluster.jsonc records the seed of the command.                          *)
LEMMA WriteConfigTypes ==
  ASSUME TInv, NEW k \in Cmds, WriteConfig(k)
  PROVE  TInv'
<1>1. CommandsStayOK
  BY Ended, Gone, StepKinds
  DEF WriteConfig, At, Cut, CommandsStayOK, TInv, CommandsOK, Consistent,
      Identified, Starting, Deleting
<1>2. FilesOK'
  BY Fields, TInvParts, ConstantsAssumption
  DEF WriteConfig, At, StateOK, FilesOK, Put, Cut, Fault, Identified, Starting
<1>3. RestOK'
  BY Fields, TInvParts, ConstantsAssumption
  DEF WriteConfig, At, StateOK, RestOK, Put, Cut, Fault, Identified, Starting
<1>4. VmOK' /\ VaultOK' /\ NstanceOK' /\ BucketOK'
  BY TInvParts
  DEF WriteConfig, StateOK, VmOK, VaultOK, NstanceOK, BucketOK, QemuHasGuest
<1> QED BY <1>1, <1>2, <1>3, <1>4, TInvParts DEF StateOK

(* A component secret is a number of a command.                            *)
LEMMA PrepareSecretsTypes ==
  ASSUME TInv, NEW k \in Cmds, PrepareSecrets(k)
  PROVE  TInv'
<1>1. CommandsStayOK
  BY Ended, Gone, StepKinds
  DEF PrepareSecrets, At, CommandsStayOK, TInv, CommandsOK, Consistent,
      Identified, Starting, Deleting
<1>2. VaultOK'
  BY Fields, TInvParts, ConstantsAssumption
  DEF PrepareSecrets, At, StateOK, VaultOK, Created, Identified, Starting
<1>3. VmOK' /\ FilesOK' /\ NstanceOK' /\ BucketOK' /\ RestOK'
  BY TInvParts
  DEF PrepareSecrets, StateOK, VmOK, FilesOK, NstanceOK, BucketOK, RestOK, QemuHasGuest
<1> QED BY <1>1, <1>2, <1>3, TInvParts DEF StateOK

(* The bucket is made from the seed of the command.                        *)
LEMMA SeedBucketTypes ==
  ASSUME TInv, NEW k \in Cmds, SeedBucket(k)
  PROVE  TInv'
<1>1. CommandsStayOK
  BY Ended, Gone, StepKinds
  DEF SeedBucket, At, Cut, CommandsStayOK, TInv, CommandsOK, Consistent,
      Identified, Starting, Deleting
<1>2. BucketOK'
  BY Fields, TInvParts, ConstantsAssumption
  DEF SeedBucket, At, StateOK, BucketOK, Cut, Fault, Identified, Starting
<1>3. RestOK'
  BY Fields, TInvParts, ConstantsAssumption
  DEF SeedBucket, At, StateOK, RestOK, Cut, Fault, Identified, Starting
<1>4. VmOK' /\ FilesOK' /\ VaultOK' /\ NstanceOK'
  BY TInvParts
  DEF SeedBucket, StateOK, VmOK, FilesOK, VaultOK, NstanceOK, QemuHasGuest
<1> QED BY <1>1, <1>2, <1>3, <1>4, TInvParts DEF StateOK

(* Creating the image neither runs it nor gives it a guest.                *)
LEMMA CreateVMTypes ==
  ASSUME TInv, NEW k \in Cmds, CreateVM(k)
  PROVE  TInv'
<1>1. CommandsStayOK
  BY Ended, Gone, StepKinds
  DEF CreateVM, At, CommandsStayOK, TInv, CommandsOK, Consistent,
      Identified, Starting, Deleting
<1>2. VmOK'
  BY Fields, TInvParts, ConstantsAssumption
  DEF CreateVM, At, StateOK, VmOK, QemuHasGuest, Guest, Fault, Identified, Starting
<1>3. RestOK'
  BY Fields, TInvParts, ConstantsAssumption
  DEF CreateVM, At, StateOK, RestOK, Fault, Identified, Starting
<1>4. FilesOK' /\ VaultOK' /\ NstanceOK' /\ BucketOK'
  BY TInvParts
  DEF CreateVM, StateOK, FilesOK, VaultOK, NstanceOK, BucketOK
<1> QED BY <1>1, <1>2, <1>3, <1>4, TInvParts DEF StateOK

(* Looking at the key pair changes nothing but the command.                *)
LEMMA GetKeyPairTypes ==
  ASSUME TInv, NEW k \in Cmds, GetKeyPair(k)
  PROVE  TInv'
<1>1. CommandsStayOK
  BY Ended, Gone, StepKinds
  DEF GetKeyPair, At, CommandsStayOK, TInv, CommandsOK, Consistent,
      Identified, Starting, Deleting
<1>2. VmOK' /\ FilesOK' /\ VaultOK' /\ NstanceOK' /\ BucketOK' /\ RestOK'
  BY TInvParts
  DEF GetKeyPair, StateOK, VmOK, FilesOK, VaultOK, NstanceOK, BucketOK, RestOK, QemuHasGuest
<1> QED BY <1>1, <1>2, TInvParts DEF StateOK

(* The halves of a key pair are numbers of commands.                       *)
LEMMA PutKeyPairTypes ==
  ASSUME TInv, NEW k \in Cmds, PutKeyPair(k)
  PROVE  TInv'
<1>1. CommandsStayOK
  BY Ended, Gone, StepKinds
  DEF PutKeyPair, At, CommandsStayOK, TInv, CommandsOK, Consistent,
      Identified, Starting, Deleting
<1>2. NstanceOK'
  BY Fields, TInvParts, ConstantsAssumption
  DEF PutKeyPair, At, StateOK, NstanceOK, Identified, Starting
<1>3. VmOK' /\ FilesOK' /\ VaultOK' /\ BucketOK' /\ RestOK'
  BY TInvParts
  DEF PutKeyPair, StateOK, VmOK, FilesOK, VaultOK, BucketOK, RestOK, QemuHasGuest
<1> QED BY <1>1, <1>2, <1>3, TInvParts DEF StateOK

(* The tenant has the settings of a server.                                *)
LEMMA ConfigureTenantTypes ==
  ASSUME TInv, NEW k \in Cmds, ConfigureTenant(k)
  PROVE  TInv'
<1>1. CommandsStayOK
  BY Ended, Gone, StepKinds
  DEF ConfigureTenant, At, CommandsStayOK, TInv, CommandsOK, Consistent,
      Identified, Starting, Deleting
<1>2. NstanceOK'
  BY Fields, TInvParts, ConstantsAssumption
  DEF ConfigureTenant, At, StateOK, NstanceOK, Identified, Starting
<1>3. VmOK' /\ FilesOK' /\ VaultOK' /\ BucketOK' /\ RestOK'
  BY TInvParts
  DEF ConfigureTenant, StateOK, VmOK, FilesOK, VaultOK, BucketOK, RestOK, QemuHasGuest
<1> QED BY <1>1, <1>2, <1>3, TInvParts DEF StateOK

(* An instance is configured or stays registered.                          *)
LEMMA ConfigureInstanceTypes ==
  ASSUME TInv, NEW k \in Cmds, ConfigureInstance(k)
  PROVE  TInv'
<1>1. CommandsStayOK
  BY Ended, Gone, StepKinds
  DEF ConfigureInstance, At, CommandsStayOK, TInv, CommandsOK, Consistent,
      Identified, Starting, Deleting
<1>2. NstanceOK'
  BY Fields, TInvParts, ConstantsAssumption
  DEF ConfigureInstance, At, StateOK, NstanceOK, Configured, Identified, Starting
<1>3. VmOK' /\ FilesOK' /\ VaultOK' /\ BucketOK' /\ RestOK'
  BY TInvParts
  DEF ConfigureInstance, StateOK, VmOK, FilesOK, VaultOK, BucketOK, RestOK, QemuHasGuest
<1> QED BY <1>1, <1>2, <1>3, TInvParts DEF StateOK

(* What is staged for an instance are settings of a server.                *)
LEMMA StageMutableEnvTypes ==
  ASSUME TInv, NEW k \in Cmds, StageMutableEnv(k)
  PROVE  TInv'
<1>1. CommandsStayOK
  BY Ended, Gone, StepKinds
  DEF StageMutableEnv, At, CommandsStayOK, TInv, CommandsOK, Consistent,
      Identified, Starting, Deleting
<1>2. NstanceOK'
  BY Fields, TInvParts, ConstantsAssumption
  DEF StageMutableEnv, At, StateOK, NstanceOK, Identified, Starting
<1>3. VmOK' /\ FilesOK' /\ VaultOK' /\ BucketOK' /\ RestOK'
  BY TInvParts
  DEF StageMutableEnv, StateOK, VmOK, FilesOK, VaultOK, BucketOK, RestOK, QemuHasGuest
<1> QED BY <1>1, <1>2, <1>3, TInvParts DEF StateOK

(* User-data names the instance of the command.                            *)
LEMMA WriteUserDataTypes ==
  ASSUME TInv, NEW k \in Cmds, WriteUserData(k)
  PROVE  TInv'
<1>1. CommandsStayOK
  BY Ended, Gone, StepKinds
  DEF WriteUserData, At, Cut, CommandsStayOK, TInv, CommandsOK, Consistent,
      Identified, Starting, Deleting
<1>2. FilesOK'
  BY Fields, TInvParts, ConstantsAssumption
  DEF WriteUserData, At, StateOK, FilesOK, Put, Cut, Fault, Identified, Starting
<1>3. RestOK'
  BY Fields, TInvParts, ConstantsAssumption
  DEF WriteUserData, At, StateOK, RestOK, Put, Cut, Fault, Identified, Starting
<1>4. VmOK' /\ VaultOK' /\ NstanceOK' /\ BucketOK'
  BY TInvParts
  DEF WriteUserData, StateOK, VmOK, VaultOK, NstanceOK, BucketOK, QemuHasGuest
<1> QED BY <1>1, <1>2, <1>3, <1>4, TInvParts DEF StateOK

(* A guest that boots has an instance ID and the address of a server.      *)
LEMMA BootVMTypes ==
  ASSUME TInv, NEW k \in Cmds, BootVM(k)
  PROVE  TInv'
<1>1. CommandsStayOK
  BY Ended, Gone, StepKinds
  DEF BootVM, At, Cut, CommandsStayOK, TInv, CommandsOK, Consistent,
      Identified, Starting, Deleting
<1>2. VmOK'
  <2>1. cmd[k].id \in Numbers /\ cmd[k].env \in Numbers /\ 0 \in Maybe
    BY Fields DEF BootVM, At, Identified, Starting
  <2>2. VmOK
    BY TInvParts DEF StateOK
  <2>3. Booted(k) \in Guest \cup {NoGuest}
    BY <2>1, <2>2 DEF Booted, VmOK, Guest
  <2>4. Booted(k) # NoGuest
    BY <2>1, NoGuestAssumption DEF Booted, Guest
  <2>5. CASE UNCHANGED vm
    BY <2>2, <2>5 DEF VmOK, QemuHasGuest
  <2>6. CASE \E pid \in BOOLEAN :
               vm' = [vm EXCEPT !.pid = pid, !.qemu = TRUE, !.guest = Booted(k)]
    BY <2>2, <2>3, <2>4, <2>6 DEF VmOK, QemuHasGuest
  <2>7. CASE vm' = [vm EXCEPT !.qemu = TRUE, !.guest = Booted(k)]
    BY <2>2, <2>3, <2>4, <2>7 DEF VmOK, QemuHasGuest
  <2>8. (~vm.qemu) \in BOOLEAN
    OBVIOUS
  <2> QED BY <2>5, <2>6, <2>7, <2>8 DEF BootVM
<1>3. RestOK'
  BY TInvParts, ConstantsAssumption DEF BootVM, Cut, Fault, StateOK, RestOK, Maybe
<1>4. FilesOK' /\ VaultOK' /\ NstanceOK' /\ BucketOK'
  BY TInvParts DEF BootVM, StateOK, FilesOK, VaultOK, NstanceOK, BucketOK
<1> QED BY <1>1, <1>2, <1>3, <1>4, TInvParts DEF StateOK

(* The state file is there.                                                *)
LEMMA WriteStateTypes ==
  ASSUME TInv, NEW k \in Cmds, WriteState(k)
  PROVE  TInv'
<1>1. CommandsStayOK
  BY Ended, Gone, StepKinds
  DEF WriteState, At, CommandsStayOK, TInv, CommandsOK, Consistent,
      Identified, Starting, Deleting
<1>2. FilesOK'
  BY Fields, TInvParts, ConstantsAssumption
  DEF WriteState, At, StateOK, FilesOK, Put, Identified, Starting
<1>3. VmOK' /\ VaultOK' /\ NstanceOK' /\ BucketOK' /\ RestOK'
  BY TInvParts
  DEF WriteState, StateOK, VmOK, VaultOK, NstanceOK, BucketOK, RestOK, QemuHasGuest
<1> QED BY <1>1, <1>2, <1>3, TInvParts DEF StateOK

(* Waiting for the services changes nothing but the command.               *)
LEMMA AwaitServicesTypes ==
  ASSUME TInv, NEW k \in Cmds, AwaitServices(k)
  PROVE  TInv'
<1>1. CommandsStayOK
  BY Ended, Gone, StepKinds
  DEF AwaitServices, At, CommandsStayOK, TInv, CommandsOK, Consistent,
      Identified, Starting, Deleting
<1>2. VmOK' /\ FilesOK' /\ VaultOK' /\ NstanceOK' /\ BucketOK' /\ RestOK'
  BY TInvParts
  DEF AwaitServices, StateOK, VmOK, FilesOK, VaultOK, NstanceOK, BucketOK, RestOK, QemuHasGuest
<1> QED BY <1>1, <1>2, TInvParts DEF StateOK

(* The forwarder of a guest leads to a server.                             *)
LEMMA ConfigureForwarderTypes ==
  ASSUME TInv, NEW k \in Cmds, ConfigureForwarder(k)
  PROVE  TInv'
<1>1. CommandsStayOK
  BY Ended, Gone, StepKinds
  DEF ConfigureForwarder, At, CommandsStayOK, TInv, CommandsOK, Consistent,
      Identified, Starting, Deleting
<1>2. VmOK'
  <2>1. cmd[k].env \in Numbers
    BY Fields DEF ConfigureForwarder, At, Identified, Starting
  <2>2. VmOK /\ vm.guest \in Guest
    BY TInvParts DEF StateOK, VmOK, QemuHasGuest, ConfigureForwarder, Reachable, Running
  <2>3. [vm.guest EXCEPT !.forward = cmd[k].env] \in Guest
    BY <2>1, <2>2 DEF Guest
  <2>4. vm' \in {vm, [vm EXCEPT !.guest = [vm.guest EXCEPT !.forward = cmd[k].env]]}
    BY <2>2 DEF ConfigureForwarder, VmOK
  <2> QED BY <2>2, <2>3, <2>4, NoGuestAssumption DEF VmOK, QemuHasGuest
<1>3. FilesOK' /\ VaultOK' /\ NstanceOK' /\ BucketOK' /\ RestOK'
  BY TInvParts DEF ConfigureForwarder, StateOK, FilesOK, VaultOK, NstanceOK, BucketOK, RestOK
<1> QED BY <1>1, <1>2, <1>3, TInvParts DEF StateOK

(* A guest is told the address of a server.                                *)
LEMMA RepairTypes ==
  ASSUME TInv, NEW k \in Cmds, Repair(k)
  PROVE  TInv'
<1>1. CommandsStayOK
  BY Ended, Gone, StepKinds
  DEF Repair, At, CommandsStayOK, TInv, CommandsOK, Consistent,
      Identified, Starting, Deleting
<1>2. VmOK'
  <2>1. cmd[k].env \in Numbers
    BY Fields DEF Repair, At, Identified, Starting
  <2>2. VmOK /\ vm.guest \in Guest
    BY TInvParts DEF StateOK, VmOK, QemuHasGuest, Repair, Reachable, Running
  <2>3. [vm.guest EXCEPT !.addr = cmd[k].env] \in Guest
    BY <2>1, <2>2 DEF Guest
  <2>4. vm' \in {vm, [vm EXCEPT !.guest = [vm.guest EXCEPT !.addr = cmd[k].env]]}
    BY <2>2 DEF Repair, VmOK
  <2> QED BY <2>2, <2>3, <2>4, NoGuestAssumption DEF VmOK, QemuHasGuest
<1>3. FilesOK' /\ VaultOK' /\ NstanceOK' /\ BucketOK' /\ RestOK'
  BY TInvParts DEF Repair, StateOK, FilesOK, VaultOK, NstanceOK, BucketOK, RestOK
<1> QED BY <1>1, <1>2, <1>3, TInvParts DEF StateOK

(* Waiting for the registration changes nothing but the command.           *)
LEMMA AwaitRegistrationTypes ==
  ASSUME TInv, NEW k \in Cmds, AwaitRegistration(k)
  PROVE  TInv'
<1>1. CommandsStayOK
  BY Ended, Gone, StepKinds
  DEF AwaitRegistration, At, CommandsStayOK, TInv, CommandsOK, Consistent,
      Identified, Starting, Deleting
<1>2. VmOK' /\ FilesOK' /\ VaultOK' /\ NstanceOK' /\ BucketOK' /\ RestOK'
  BY TInvParts
  DEF AwaitRegistration, StateOK, VmOK, FilesOK, VaultOK, NstanceOK, BucketOK, RestOK, QemuHasGuest
<1> QED BY <1>1, <1>2, TInvParts DEF StateOK

(* Waiting for Netsy changes nothing but the command.                      *)
LEMMA AwaitReadyTypes ==
  ASSUME TInv, NEW k \in Cmds, AwaitReady(k)
  PROVE  TInv'
<1>1. CommandsStayOK
  BY Ended, Gone, StepKinds
  DEF AwaitReady, At, CommandsStayOK, TInv, CommandsOK, Consistent,
      Identified, Starting, Deleting
<1>2. VmOK' /\ FilesOK' /\ VaultOK' /\ NstanceOK' /\ BucketOK' /\ RestOK'
  BY TInvParts
  DEF AwaitReady, StateOK, VmOK, FilesOK, VaultOK, NstanceOK, BucketOK, RestOK, QemuHasGuest
<1> QED BY <1>1, <1>2, TInvParts DEF StateOK

(* mutable.env has the settings of a server.                               *)
LEMMA WriteBaselineTypes ==
  ASSUME TInv, NEW k \in Cmds, WriteBaseline(k)
  PROVE  TInv'
<1>1. CommandsStayOK
  BY Ended, Gone, StepKinds
  DEF WriteBaseline, At, CommandsStayOK, TInv, CommandsOK, Consistent,
      Identified, Starting, Deleting
<1>2. FilesOK'
  BY Fields, TInvParts, ConstantsAssumption
  DEF WriteBaseline, At, StateOK, FilesOK, Put, Identified, Starting
<1>3. VmOK' /\ VaultOK' /\ NstanceOK' /\ BucketOK' /\ RestOK'
  BY TInvParts
  DEF WriteBaseline, StateOK, VmOK, VaultOK, NstanceOK, BucketOK, RestOK, QemuHasGuest
<1> QED BY <1>1, <1>2, <1>3, TInvParts DEF StateOK

(* Flux has its secret or not.                                             *)
LEMMA SetUpHostTypes ==
  ASSUME TInv, NEW k \in Cmds, SetUpHost(k)
  PROVE  TInv'
<1>1. CommandsStayOK
  BY Ended, Gone, StepKinds
  DEF SetUpHost, At, CommandsStayOK, TInv, CommandsOK, Consistent,
      Identified, Starting, Deleting
<1>2. BucketOK'
  BY Fields, TInvParts, ConstantsAssumption
  DEF SetUpHost, At, StateOK, BucketOK, Identified, Starting
<1>3. VmOK' /\ FilesOK' /\ VaultOK' /\ NstanceOK' /\ RestOK'
  BY TInvParts
  DEF SetUpHost, StateOK, VmOK, FilesOK, VaultOK, NstanceOK, RestOK, QemuHasGuest
<1> QED BY <1>1, <1>2, <1>3, TInvParts DEF StateOK

(* A wait that ends changes nothing but the command.                       *)
LEMMA TimeoutTypes ==
  ASSUME TInv, NEW k \in Cmds, Timeout(k)
  PROVE  TInv'
<1>1. CommandsStayOK
  BY Ended, Gone, StepKinds
  DEF Timeout, At, CommandsStayOK, TInv, CommandsOK, Consistent,
      Identified, Starting, Deleting
<1>2. VmOK' /\ FilesOK' /\ VaultOK' /\ NstanceOK' /\ BucketOK' /\ RestOK'
  BY TInvParts
  DEF Timeout, StateOK, VmOK, FilesOK, VaultOK, NstanceOK, BucketOK, RestOK, QemuHasGuest
<1> QED BY <1>1, <1>2, TInvParts DEF StateOK

(* A VM that is killed does not run.                                       *)
LEMMA KillVMTypes ==
  ASSUME TInv, NEW k \in Cmds, KillVM(k)
  PROVE  TInv'
<1>1. CommandsStayOK
  BY Ended, Gone, StepKinds
  DEF KillVM, At, CommandsStayOK, TInv, CommandsOK, Consistent,
      Identified, Starting, Deleting
<1>2. VmOK'
  BY Fields, TInvParts, ConstantsAssumption
  DEF KillVM, At, StateOK, VmOK, QemuHasGuest, Guest, Identified, Starting
<1>3. FilesOK' /\ VaultOK' /\ NstanceOK' /\ BucketOK' /\ RestOK'
  BY TInvParts
  DEF KillVM, StateOK, FilesOK, VaultOK, NstanceOK, BucketOK, RestOK
<1> QED BY <1>1, <1>2, <1>3, TInvParts DEF StateOK

(* The state file is not there.                                            *)
LEMMA RemoveStateTypes ==
  ASSUME TInv, NEW k \in Cmds, RemoveState(k)
  PROVE  TInv'
<1>1. CommandsStayOK
  BY Ended, Gone, StepKinds
  DEF RemoveState, At, CommandsStayOK, TInv, CommandsOK, Consistent,
      Identified, Starting, Deleting
<1>2. FilesOK'
  BY Fields, TInvParts, ConstantsAssumption
  DEF RemoveState, At, StateOK, FilesOK, Put, Identified, Starting
<1>3. VmOK' /\ VaultOK' /\ NstanceOK' /\ BucketOK' /\ RestOK'
  BY TInvParts
  DEF RemoveState, StateOK, VmOK, VaultOK, NstanceOK, BucketOK, RestOK, QemuHasGuest
<1> QED BY <1>1, <1>2, <1>3, TInvParts DEF StateOK

(* No server runs.                                                         *)
LEMMA CleanupServerTypes ==
  ASSUME TInv, NEW k \in Cmds, CleanupServer(k)
  PROVE  TInv'
<1>1. CommandsStayOK
  BY Ended, Gone, StepKinds
  DEF CleanupServer, At, CommandsStayOK, TInv, CommandsOK, Consistent,
      Identified, Starting, Deleting
<1>2. RestOK'
  BY Fields, TInvParts, ConstantsAssumption
  DEF CleanupServer, At, StateOK, RestOK, Identified, Starting
<1>3. VmOK' /\ FilesOK' /\ VaultOK' /\ NstanceOK' /\ BucketOK'
  BY TInvParts
  DEF CleanupServer, StateOK, VmOK, FilesOK, VaultOK, NstanceOK, BucketOK, QemuHasGuest
<1> QED BY <1>1, <1>2, <1>3, TInvParts DEF StateOK

(* Without an image nothing runs.                                          *)
LEMMA RemoveVMTypes ==
  ASSUME TInv, NEW k \in Cmds, RemoveVM(k)
  PROVE  TInv'
<1>1. CommandsStayOK
  BY Ended, Gone, StepKinds
  DEF RemoveVM, At, CommandsStayOK, TInv, CommandsOK, Consistent,
      Identified, Starting, Deleting
<1>2. VmOK'
  <2>1. CASE UNCHANGED vm
    BY <2>1, TInvParts DEF StateOK, VmOK, QemuHasGuest
  <2>2. CASE vm' = [disk |-> FALSE, qemu |-> FALSE, pid |-> FALSE, guest |-> NoGuest]
    BY <2>2 DEF VmOK, QemuHasGuest
  <2> QED BY <2>1, <2>2 DEF RemoveVM
<1>3. FilesOK' /\ VaultOK' /\ NstanceOK' /\ BucketOK' /\ RestOK'
  BY TInvParts DEF RemoveVM, StateOK, FilesOK, VaultOK, NstanceOK, BucketOK, RestOK
<1> QED BY <1>1, <1>2, <1>3, TInvParts DEF StateOK

(* Secrets are gone.                                                       *)
LEMMA ForgetSecretsTypes ==
  ASSUME TInv, NEW k \in Cmds, ForgetSecrets(k)
  PROVE  TInv'
<1>1. CommandsStayOK
  BY Ended, Gone, StepKinds
  DEF ForgetSecrets, At, CommandsStayOK, TInv, CommandsOK, Consistent,
      Identified, Starting, Deleting
<1>2. VaultOK'
  BY Fields, TInvParts, ConstantsAssumption
  DEF ForgetSecrets, At, StateOK, VaultOK, Identified, Starting
<1>3. RestOK'
  BY Fields, TInvParts, ConstantsAssumption
  DEF ForgetSecrets, At, StateOK, RestOK, Identified, Starting
<1>4. VmOK' /\ FilesOK' /\ NstanceOK' /\ BucketOK'
  BY TInvParts
  DEF ForgetSecrets, StateOK, VmOK, FilesOK, NstanceOK, BucketOK, QemuHasGuest
<1> QED BY <1>1, <1>2, <1>3, <1>4, TInvParts DEF StateOK

(* The data directory is gone.                                             *)
LEMMA RemoveDataTypes ==
  ASSUME TInv, NEW k \in Cmds, RemoveData(k)
  PROVE  TInv'
<1>1. CommandsStayOK
  BY Ended, Gone, StepKinds
  DEF RemoveData, At, CommandsStayOK, TInv, CommandsOK, Consistent,
      Identified, Starting, Deleting
<1>2. FilesOK'
  BY Fields, TInvParts, ConstantsAssumption
  DEF RemoveData, At, StateOK, FilesOK, Identified, Starting
<1>3. VmOK' /\ VaultOK' /\ NstanceOK' /\ BucketOK' /\ RestOK'
  BY TInvParts
  DEF RemoveData, StateOK, VmOK, VaultOK, NstanceOK, BucketOK, RestOK, QemuHasGuest
<1> QED BY <1>1, <1>2, <1>3, TInvParts DEF StateOK

(* The bucket is gone.                                                     *)
LEMMA RemoveBucketsTypes ==
  ASSUME TInv, NEW k \in Cmds, RemoveBuckets(k)
  PROVE  TInv'
<1>1. CommandsStayOK
  BY Ended, Gone, StepKinds
  DEF RemoveBuckets, At, CommandsStayOK, TInv, CommandsOK, Consistent,
      Identified, Starting, Deleting
<1>2. BucketOK'
  <2>1. /\ bucket \in [seed : Seeds \cup {Missing, Torn}, flux : BOOLEAN]
        /\ bucket' \in {[seed |-> Missing, flux |-> FALSE], [bucket EXCEPT !.seed = Torn]}
    BY TInvParts DEF RemoveBuckets, StateOK, BucketOK
  <2>2. CASE bucket' = [seed |-> Missing, flux |-> FALSE]
    BY <2>2 DEF BucketOK
  <2>3. CASE bucket' = [bucket EXCEPT !.seed = Torn]
    BY <2>1, <2>3 DEF BucketOK
  <2> QED BY <2>1, <2>2, <2>3
<1>3. VmOK' /\ FilesOK' /\ VaultOK' /\ NstanceOK'
  BY TInvParts
  DEF RemoveBuckets, StateOK, VmOK, FilesOK, VaultOK, NstanceOK, QemuHasGuest
<1>4. RestOK'
  BY Fields, TInvParts, ConstantsAssumption
  DEF RemoveBuckets, Fault, StateOK, RestOK
<1> QED BY <1>1, <1>2, <1>3, <1>4, TInvParts DEF StateOK

(* The tenant is gone.                                                     *)
LEMMA RemoveTenantTypes ==
  ASSUME TInv, NEW k \in Cmds, RemoveTenant(k)
  PROVE  TInv'
<1>1. CommandsStayOK
  BY Ended, Gone, StepKinds
  DEF RemoveTenant, At, CommandsStayOK, TInv, CommandsOK, Consistent,
      Identified, Starting, Deleting
<1>2. NstanceOK'
  <2>1. NstanceOK /\ 0 \in Maybe
    BY TInvParts, ConstantsAssumption DEF StateOK, Maybe
  <2>2. PICK pub \in {nstance.pub, 0}, priv \in {nstance.priv, 0} :
          nstance' = [nstance EXCEPT !.tenant = 0, !.pub = pub, !.priv = priv]
    BY DEF RemoveTenant
  <2>3. pub \in Maybe /\ priv \in Maybe
    BY <2>1 DEF NstanceOK
  <2> QED BY <2>1, <2>2, <2>3 DEF NstanceOK
<1>3. VmOK' /\ FilesOK' /\ VaultOK' /\ BucketOK' /\ RestOK'
  BY TInvParts
  DEF RemoveTenant, StateOK, VmOK, FilesOK, VaultOK, BucketOK, RestOK, QemuHasGuest
<1> QED BY <1>1, <1>2, <1>3, TInvParts DEF StateOK

(* Both halves of the key pair are gone.                                   *)
LEMMA RemoveKeysTypes ==
  ASSUME TInv, NEW k \in Cmds, RemoveKeys(k)
  PROVE  TInv'
<1>1. CommandsStayOK
  BY Ended, Gone, StepKinds
  DEF RemoveKeys, At, CommandsStayOK, TInv, CommandsOK, Consistent,
      Identified, Starting, Deleting
<1>2. NstanceOK'
  BY Fields, TInvParts, ConstantsAssumption
  DEF RemoveKeys, At, StateOK, NstanceOK, Identified, Starting
<1>3. VmOK' /\ FilesOK' /\ VaultOK' /\ BucketOK' /\ RestOK'
  BY TInvParts
  DEF RemoveKeys, StateOK, VmOK, FilesOK, VaultOK, BucketOK, RestOK, QemuHasGuest
<1> QED BY <1>1, <1>2, <1>3, TInvParts DEF StateOK

(* A delete has chosen a directory, and its first file is gone.            *)
LEMMA RemoveInstancesTypes ==
  ASSUME TInv, NEW k \in Cmds, RemoveInstances(k)
  PROVE  TInv'
<1>1. CommandsStayOK
  <2>1. CASE \E n \in Numbers : cmd' = [cmd EXCEPT ![k].pc = "unlink", ![k].id = n]
    <3>1. PICK n \in Numbers : cmd' = [cmd EXCEPT ![k].pc = "unlink", ![k].id = n]
      BY <2>1
    <3> DEFINE c == [cmd[k] EXCEPT !.pc = "unlink", !.id = n]
    <3>2. cmd[k] \in Command /\ Consistent(cmd[k]) /\ cmd[k].pc = "instances"
      BY TInvParts DEF CommandsOK, RemoveInstances, At
    <3>3. cmd' = [cmd EXCEPT ![k] = c]
      BY <3>1, <3>2, TInvParts DEF Command
    <3>4. c \in Command
      BY <3>2, Fields, StepKinds DEF Command, Deleting
    <3>5. Consistent(c)
      BY <3>2 DEF Consistent, Starting, Identified, Deleting, Command
    <3> QED BY <3>3, <3>4, <3>5, Replaced DEF CommandsStayOK, TInv
  <2>2. CASE End(k, "ok")
    BY <2>2, Ended DEF CommandsStayOK, TInv
  <2> QED BY <2>1, <2>2 DEF RemoveInstances
<1>2. NstanceOK'
  <2>1. NstanceOK /\ 0 \in Maybe
    BY TInvParts, ConstantsAssumption DEF StateOK, Maybe
  <2>2. CASE UNCHANGED nstance
    BY <2>1, <2>2 DEF NstanceOK
  <2>3. CASE \E n \in Numbers : nstance' = [nstance EXCEPT !.inst[n] = "orphaned"]
    BY <2>1, <2>3 DEF NstanceOK
  <2>4. CASE \E n \in Numbers : nstance' = [nstance EXCEPT !.pending[n] = 0]
    BY <2>1, <2>4 DEF NstanceOK
  <2> QED BY <2>2, <2>3, <2>4 DEF RemoveInstances
<1>3. VmOK' /\ FilesOK' /\ VaultOK' /\ BucketOK' /\ RestOK'
  BY TInvParts
  DEF RemoveInstances, StateOK, VmOK, FilesOK, VaultOK, BucketOK, RestOK, QemuHasGuest
<1> QED BY <1>1, <1>2, <1>3, TInvParts DEF StateOK

(* The rest of the directory is gone.                                      *)
LEMMA UnlinkTypes ==
  ASSUME TInv, NEW k \in Cmds, Unlink(k)
  PROVE  TInv'
<1>1. CommandsStayOK
  <2> DEFINE c == [cmd[k] EXCEPT !.pc = "instances", !.id = 0]
  <2>1. cmd[k] \in Command /\ Consistent(cmd[k]) /\ cmd[k].pc = "unlink"
    BY TInvParts DEF CommandsOK, Unlink, At
  <2>2. cmd' = [cmd EXCEPT ![k] = c]
    BY <2>1, TInvParts DEF Unlink, Command
  <2>3. c \in Command
    BY <2>1, Fields, StepKinds DEF Command, Deleting
  <2>4. Consistent(c)
    BY <2>1 DEF Consistent, Starting, Identified, Deleting, Command
  <2> QED BY <2>2, <2>3, <2>4, Replaced DEF CommandsStayOK, TInv
<1>2. NstanceOK'
  <2>1. NstanceOK /\ 0 \in Maybe /\ cmd[k].id \in Numbers
    BY TInvParts, ConstantsAssumption
    DEF StateOK, Maybe, Unlink, At, CommandsOK, Consistent
  <2> DEFINE n == cmd[k].id
  <2>2. nstance' = [nstance EXCEPT !.inst = [nstance.inst EXCEPT ![n] = "none"],
                                   !.pending = [nstance.pending EXCEPT ![n] = 0]]
    BY <2>1 DEF Unlink, NstanceOK
  <2>3. /\ [nstance.inst EXCEPT ![n] = "none"]
             \in [Numbers -> {"none", "configured", "registered", "orphaned"}]
        /\ [nstance.pending EXCEPT ![n] = 0] \in [Numbers -> Maybe]
    BY <2>1 DEF NstanceOK
  <2> QED BY <2>1, <2>2, <2>3 DEF NstanceOK
<1>3. VmOK' /\ FilesOK' /\ VaultOK' /\ BucketOK' /\ RestOK'
  BY TInvParts
  DEF Unlink, StateOK, VmOK, FilesOK, VaultOK, BucketOK, RestOK, QemuHasGuest
<1> QED BY <1>1, <1>2, <1>3, TInvParts DEF StateOK

(* A start begins with a number of its own.                                *)
LEMMA StartTypes ==
  ASSUME TInv, NEW k \in Cmds, NEW asked \in Seeds \cup {None, NotAsked},
         Start(k, asked)
  PROVE  TInv'
<1>1. CommandsStayOK /\ count + 1 \in Numbers
  <2>1. count + 1 \in Numbers /\ count + 1 \in Maybe
    BY TInvParts, ConstantsAssumption DEF HasSeedConfig, Start, StateOK, RestOK, Maybe, Numbers
  <2>2. PICK step \in {"done", "ensure"}, seed \in Seeds \cup {None},
             outcome \in {"failed", "running", "none"} :
          cmd' = [cmd EXCEPT ![k] = [Idle EXCEPT !.pc = step, !.op = "start",
                    !.no = count + 1, !.existed = vm.disk, !.seed = seed,
                    !.outcome = outcome]]
    BY ConstantsAssumption DEF HasSeedConfig, Start
  <2> DEFINE c == [Idle EXCEPT !.pc = step, !.op = "start", !.no = count + 1,
                     !.existed = vm.disk, !.seed = seed, !.outcome = outcome]
  <2>3. vm.disk \in BOOLEAN
    BY TInvParts DEF StateOK, VmOK
  <2>4. c \in Command
    BY <2>1, <2>3, IdleCommand, StepKinds DEF Command
  <2>5. Consistent(c)
    BY <2>1 DEF Consistent, Idle, Starting, Identified, Deleting
  <2> QED BY <2>1, <2>2, <2>4, <2>5, Replaced DEF CommandsStayOK, TInv
<1>2. RestOK'
  BY <1>1, TInvParts DEF HasSeedConfig, Start, StateOK, RestOK, Maybe, Numbers
<1>3. VmOK' /\ FilesOK' /\ VaultOK' /\ NstanceOK' /\ BucketOK'
  BY TInvParts
  DEF HasSeedConfig, Start, StateOK, VmOK, FilesOK, VaultOK, NstanceOK, BucketOK, QemuHasGuest
<1> QED BY <1>1, <1>2, <1>3, TInvParts DEF StateOK

(* So does a delete.                                                       *)
LEMMA DeleteTypes ==
  ASSUME TInv, NEW k \in Cmds, Delete(k)
  PROVE  TInv'
<1>1. CommandsStayOK /\ count + 1 \in Numbers
  <2>1. count + 1 \in Numbers /\ count + 1 \in Maybe
    BY TInvParts, ConstantsAssumption DEF Delete, StateOK, RestOK, Maybe, Numbers
  <2> DEFINE c == [Idle EXCEPT !.pc = "remove", !.op = "delete", !.no = count + 1]
  <2>2. cmd' = [cmd EXCEPT ![k] = c]
    BY StepKinds DEF Delete
  <2>3. c \in Command
    BY <2>1, IdleCommand, StepKinds DEF Command, Deleting
  <2>4. Consistent(c)
    BY <2>1 DEF Consistent, Idle, Starting, Identified, Deleting
  <2> QED BY <2>1, <2>2, <2>3, <2>4, Replaced DEF CommandsStayOK, TInv
<1>2. RestOK'
  BY <1>1, TInvParts DEF Delete, StateOK, RestOK, Maybe, Numbers
<1>3. VmOK' /\ FilesOK' /\ VaultOK' /\ NstanceOK' /\ BucketOK'
  BY TInvParts
  DEF Delete, StateOK, VmOK, FilesOK, VaultOK, NstanceOK, BucketOK, QemuHasGuest
<1> QED BY <1>1, <1>2, <1>3, TInvParts DEF StateOK

(* A stop needs no number, and one that has returned has none.             *)
LEMMA StopReturnTypes ==
  ASSUME TInv, NEW k \in Cmds, Stop(k) \/ Return(k)
  PROVE  TInv'
<1>1. CommandsStayOK
  <2>1. CASE Stop(k)
    <3> DEFINE c == [Idle EXCEPT !.pc = "kill"]
    <3>1. c \in Command
      BY IdleCommand, StepKinds DEF Command
    <3>2. Consistent(c)
      BY DEF Consistent, Idle, Starting, Identified, Deleting
    <3> QED BY <2>1, <3>1, <3>2, Replaced DEF Stop, CommandsStayOK, TInv
  <2>2. CASE Return(k)
    BY <2>2, IdleCommand, Replaced DEF Return, CommandsStayOK, TInv
  <2> QED BY <2>1, <2>2
<1>2. VmOK' /\ FilesOK' /\ VaultOK' /\ NstanceOK' /\ BucketOK' /\ RestOK'
  BY TInvParts
  DEF Stop, Return, StateOK, VmOK, FilesOK, VaultOK, NstanceOK, BucketOK,
      RestOK, QemuHasGuest
<1> QED BY <1>1, <1>2, TInvParts DEF StateOK

(* A command that needs a server has one afterwards.                       *)
LEMMA EnsureTypes ==
  ASSUME TInv, NEW k \in Cmds, Ensure(k)
  PROVE  TInv'
<1>1. cmd[k].no \in Numbers /\ server \in Maybe /\ Numbers \subseteq Maybe
  BY Fields, TInvParts DEF Ensure, At, StateOK, RestOK
<1>2. server' \in Numbers
  BY <1>1 DEF Ensure, Maybe, Numbers
<1>3. CommandsStayOK
  <2> DEFINE c == [cmd[k] EXCEPT !.env = server',
                     !.pc = IF cmd[k].op = "start" THEN "look" ELSE "forget"]
  <2>1. cmd[k] \in Command /\ Consistent(cmd[k]) /\ cmd[k].pc = "ensure"
    BY TInvParts DEF CommandsOK, Ensure, At
  <2>2. cmd' = [cmd EXCEPT ![k] = c]
    BY <2>1, TInvParts DEF Ensure, Command
  <2>3. c \in Command
    BY <1>1, <1>2, <2>1, StepKinds DEF Command, Starting, Deleting
  <2>4. Consistent(c)
    BY <1>2, <2>1 DEF Consistent, Starting, Identified, Deleting, Command
  <2> QED BY <2>2, <2>3, <2>4, Replaced DEF CommandsStayOK, TInv
<1>4. VmOK' /\ FilesOK' /\ VaultOK' /\ NstanceOK' /\ BucketOK' /\ RestOK'
  BY <1>1, <1>2, TInvParts
  DEF Ensure, StateOK, VmOK, FilesOK, VaultOK, NstanceOK, BucketOK,
      RestOK, QemuHasGuest
<1> QED BY <1>3, <1>4, TInvParts DEF StateOK

(* A start that looks for the VM takes over its instance ID, or none.      *)
LEMMA LookTypes ==
  ASSUME TInv, NEW k \in Cmds, Look(k)
  PROVE  TInv'
<1>1. CommandsStayOK
  <2> DEFINE c == [cmd[k] EXCEPT !.pc = "ca", !.vmExisted = vm.disk,
                     !.id = IF vm.disk THEN ExistingInstanceID ELSE 0]
  <2>1. cmd[k] \in Command /\ Consistent(cmd[k]) /\ cmd[k].pc = "look"
    BY TInvParts DEF CommandsOK, Look, At
  <2>2. cmd' = [cmd EXCEPT ![k] = c]
    BY <2>1, TInvParts DEF Look, Command
  <2>3. vm.disk \in BOOLEAN /\ files.userData \in Maybe /\ 0 \in Maybe
    BY Fields, TInvParts DEF StateOK, VmOK, FilesOK
  <2>4. c \in Command
    BY <2>1, <2>3, StepKinds DEF Command, Starting, ExistingInstanceID
  <2>5. Consistent(c)
    BY <2>1 DEF Consistent, Starting, Identified, Deleting, Command
  <2> QED BY <2>2, <2>4, <2>5, Replaced DEF CommandsStayOK, TInv
<1>2. VmOK' /\ FilesOK' /\ VaultOK' /\ NstanceOK' /\ BucketOK' /\ RestOK'
  BY TInvParts
  DEF Look, StateOK, VmOK, FilesOK, VaultOK, NstanceOK, BucketOK,
      RestOK, QemuHasGuest
<1> QED BY <1>1, <1>2, TInvParts DEF StateOK

(* A start that has chosen its seed has an instance ID.                    *)
LEMMA ChooseSeedTypes ==
  ASSUME TInv, NEW k \in Cmds, ChooseSeed(k)
  PROVE  TInv'
<1>1. CommandsStayOK
  <2> DEFINE c == [cmd[k] EXCEPT !.pc = "config",
                !.seed = IF cmd[k].vmExisted THEN files.config ELSE @,
                !.id = IF @ = 0 THEN cmd[k].no ELSE @]
  <2>1. cmd[k] \in Command /\ Consistent(cmd[k]) /\ cmd[k].pc = "seed"
    BY TInvParts DEF CommandsOK, ChooseSeed, At
  <2>2. CASE End(k, "failed")
    BY <2>2, Ended DEF CommandsStayOK, TInv
  <2>3. CASE /\ ~(cmd[k].vmExisted /\ files.config \in {Missing, Torn})
             /\ ~End(k, "failed")
    <3>1. cmd' = [cmd EXCEPT ![k] = c]
      BY <2>1, <2>3, TInvParts DEF HasSeedConfig, ChooseSeed, Command
    <3>2. files.config \in Seeds \cup {None, Missing, Torn}
      BY TInvParts DEF StateOK, FilesOK
    <3>3. cmd[k].no \in Numbers /\ cmd[k].id \in Maybe /\ cmd[k].env \in Numbers
      BY <2>1, Fields DEF Starting
    <3>4. (IF cmd[k].id = 0 THEN cmd[k].no ELSE cmd[k].id) \in Numbers
      BY <3>3 DEF Maybe, Numbers
    <3>5. (IF cmd[k].vmExisted THEN files.config ELSE cmd[k].seed) \in Seeds \cup {None}
      BY <2>3, <3>2, Fields
    <3>6. "config" \in Steps /\ (IF cmd[k].id = 0 THEN cmd[k].no ELSE cmd[k].id) \in Maybe
      BY <3>4, Fields DEF Steps
    <3>7. c \in Command
      BY <2>1, <3>5, <3>6 DEF Command
    <3>8. Consistent(c)
      BY <2>1, <3>3, <3>4 DEF Consistent, Starting, Identified, Deleting, Command
    <3> QED BY <3>1, <3>7, <3>8, Replaced DEF CommandsStayOK, TInv
  <2> QED BY <2>2, <2>3 DEF HasSeedConfig, ChooseSeed
<1>2. VmOK' /\ FilesOK' /\ VaultOK' /\ NstanceOK' /\ BucketOK' /\ RestOK'
  BY TInvParts
  DEF HasSeedConfig, ChooseSeed, StateOK, VmOK, FilesOK, VaultOK, NstanceOK, BucketOK,
      RestOK, QemuHasGuest
<1> QED BY <1>1, <1>2, TInvParts DEF StateOK

(* A failure of a command, of the VM or of the server.                     *)
LEMMA FaultTypes ==
  ASSUME TInv, (\E k \in Cmds : Fail(k)) \/ VMDies \/ ServerDies
  PROVE  TInv'
<1>1. CommandsStayOK
  <2>1. CASE \E k \in Cmds : Fail(k)
    BY <2>1, Ended DEF Fail, CommandsStayOK, TInv
  <2>2. CASE VMDies \/ ServerDies
    BY <2>2, TInvParts DEF VMDies, ServerDies, CommandsStayOK, CommandsOK, Consistent
  <2> QED BY <2>1, <2>2
<1>2. VmOK'
  BY TInvParts DEF StateOK, VmOK, Fail, VMDies, ServerDies, QemuHasGuest
<1>3. RestOK'
  BY Fields, TInvParts, ConstantsAssumption
  DEF StateOK, RestOK, Fail, Leaves, VMDies, ServerDies, Fault, Maybe
<1>4. FilesOK' /\ VaultOK' /\ NstanceOK' /\ BucketOK'
  BY TInvParts
  DEF Fail, VMDies, ServerDies, StateOK, FilesOK, VaultOK, NstanceOK, BucketOK
<1> QED BY <1>1, <1>2, <1>3, <1>4, TInvParts DEF StateOK

(* The guest has the settings that fake Nstance has for it.                *)
LEMMA GuestTypes ==
  ASSUME TInv, Register \/ Deliver
  PROVE  TInv'
<1>1. VmOK /\ NstanceOK /\ vm.guest \in Guest /\ 0 \in Maybe
  BY TInvParts, ConstantsAssumption
  DEF StateOK, VmOK, QemuHasGuest, Register, Deliver, CanRegister, CanDeliver, Maybe
<1>2. vm.guest.id \in Numbers
  BY <1>1 DEF Guest
<1>3. PICK env \in Maybe :
        vm' = [vm EXCEPT !.guest = [vm.guest EXCEPT !.env = env]]
  <2>1. nstance.tenant \in Maybe /\ nstance.pending[vm.guest.id] \in Maybe
    BY <1>1, <1>2 DEF NstanceOK
  <2> QED BY <1>1, <2>1 DEF Register, Deliver, VmOK
<1>4. [vm.guest EXCEPT !.env = env] \in Guest
  BY <1>1 DEF Guest
<1>5. VmOK'
  BY <1>1, <1>3, <1>4, NoGuestAssumption DEF VmOK, QemuHasGuest
<1>6. NstanceOK'
  BY <1>1, <1>2 DEF Register, Deliver, NstanceOK
<1>7. FilesOK' /\ VaultOK' /\ BucketOK' /\ RestOK' /\ CommandsStayOK
  BY TInvParts
  DEF Register, Deliver, StateOK, FilesOK, VaultOK, BucketOK, RestOK,
      CommandsStayOK, CommandsOK, Consistent
<1> QED BY <1>5, <1>6, <1>7, TInvParts DEF StateOK

(* At the start there is nothing, which has its type.                      *)
LEMMA InitTypes == Init => TInv
<1> SUFFICES ASSUME Init PROVE TInv
  OBVIOUS
<1>1. 0 \in Maybe /\ 0 \in 0 .. MaxFaults
  BY ConstantsAssumption DEF Maybe
<1>2. cmd \in [Cmds -> Command] /\ CommandsOK
  BY IdleCommand DEF Init, CommandsOK
<1>3. StateOK
  BY <1>1
  DEF Init, StateOK, VmOK, FilesOK, VaultOK, NstanceOK, BucketOK, RestOK, QemuHasGuest
<1> QED BY <1>2, <1>3, TInvParts

(* Every step keeps the types.                                             *)
LEMMA NextTypes == TInv /\ [Next]_vars => TInv'
<1> SUFFICES ASSUME TInv, [Next]_vars PROVE TInv'
  OBVIOUS
<1>1. CASE \E k \in Cmds : User(k)
  BY <1>1, StartTypes, StopReturnTypes, DeleteTypes DEF User
<1>2. ASSUME NEW k \in Cmds, Step(k) PROVE TInv'
  BY <1>2, EnsureTypes, LookTypes, GetCATypes, CreateCATypes, ChooseSeedTypes,
     WriteConfigTypes, PrepareSecretsTypes, SeedBucketTypes, CreateVMTypes,
     GetKeyPairTypes, PutKeyPairTypes, ConfigureTenantTypes,
     ConfigureInstanceTypes, StageMutableEnvTypes, WriteUserDataTypes,
     BootVMTypes, WriteStateTypes, AwaitServicesTypes,
     ConfigureForwarderTypes, RepairTypes, AwaitRegistrationTypes,
     AwaitReadyTypes, WriteBaselineTypes, SetUpHostTypes, TimeoutTypes,
     KillVMTypes, RemoveStateTypes, CleanupServerTypes, RemoveVMTypes,
     ForgetSecretsTypes, RemoveDataTypes, RemoveBucketsTypes,
     RemoveTenantTypes, RemoveKeysTypes, RemoveInstancesTypes, UnlinkTypes,
     StopReturnTypes DEF Step
<1>3. CASE (\E k \in Cmds : Fail(k)) \/ VMDies \/ ServerDies
  BY <1>3, FaultTypes
<1>4. CASE Register \/ Deliver
  BY <1>4, GuestTypes
<1>5. CASE UNCHANGED vars
  BY <1>5, TInvParts
  DEF vars, StateOK, VmOK, FilesOK, VaultOK, NstanceOK, BucketOK, RestOK,
      QemuHasGuest, CommandsStayOK, CommandsOK, Consistent
<1> QED BY <1>1, <1>2, <1>3, <1>4, <1>5 DEF Next

(* Every command only ever leaves values of the right type behind, and     *)
(* remembers what the step it is at needs: a start has a server and, from  *)
(* cluster.jsonc on, an instance ID.  For any number of commands at a time *)
(* and with cut writes.                                                    *)
THEOREM TypeCorrect == Spec => []TypeOK
<1>1. TInv => TypeOK
  BY DEF TInv
<1> QED BY InitTypes, NextTypes, <1>1, PTL DEF Spec

(* A secret that is there is not overwritten by a step.                    *)
LEMMA SecretsStay ==
  ASSUME TInv, [Next]_vars
  PROVE  /\ vault.ca # 0 => vault'.ca \in {vault.ca, 0}
         /\ vault.secret # 0 => vault'.secret \in {vault.secret, 0}
<1>1. vault \in [ca : Maybe, secret : Maybe]
  BY TInvParts DEF StateOK, VaultOK
<1>2. ASSUME NEW k \in Cmds, CreateCA(k) \/ PrepareSecrets(k) \/ ForgetSecrets(k)
      PROVE  /\ vault.ca # 0 => vault'.ca \in {vault.ca, 0}
             /\ vault.secret # 0 => vault'.secret \in {vault.secret, 0}
  BY <1>1, <1>2 DEF CreateCA, PrepareSecrets, ForgetSecrets, Created
<1>3. CASE ~ \E k \in Cmds : CreateCA(k) \/ PrepareSecrets(k) \/ ForgetSecrets(k)
  <2>1. ASSUME NEW k \in Cmds, User(k) \/ Fail(k) PROVE UNCHANGED vault
    BY <2>1 DEF User, Start, Stop, Delete, Fail
  <2>2. ASSUME NEW k \in Cmds, Step(k) PROVE UNCHANGED vault
    BY <1>3, <2>2
    DEF Step, Ensure, Look, GetCA, ChooseSeed, WriteConfig, SeedBucket, CreateVM,
        GetKeyPair, PutKeyPair, ConfigureTenant, ConfigureInstance,
        StageMutableEnv, WriteUserData, BootVM, WriteState, AwaitServices,
        ConfigureForwarder, Repair,
        AwaitRegistration, AwaitReady, WriteBaseline, SetUpHost, Timeout, KillVM,
        RemoveState, CleanupServer, RemoveVM, RemoveData, RemoveBuckets,
        RemoveTenant, RemoveKeys, RemoveInstances, Unlink, Return
  <2>3. CASE Register \/ Deliver \/ VMDies \/ ServerDies \/ UNCHANGED vars
    BY <2>3 DEF Register, Deliver, VMDies, ServerDies, vars
  <2>4. CASE \E k \in Cmds : User(k) \/ Step(k) \/ Fail(k)
    BY <2>1, <2>2, <2>4
  <2> QED BY <2>3, <2>4 DEF Next
<1> QED BY <1>2, <1>3

(* However many starts run at the same time, a workload CA key or a        *)
(* component secret that a start has found in the Vault stays the same     *)
(* until a delete removes it: CreateSecret keeps what another start put    *)
(* there between the read and the write.                                   *)
THEOREM SecretsNeverChange == Spec => SecretsKept
<1>1. TInv /\ [Next]_vars => [/\ vault.ca # 0 => vault'.ca \in {vault.ca, 0}
                              /\ vault.secret # 0 => vault'.secret \in {vault.secret, 0}]_vars
  BY SecretsStay
<1> QED BY InitTypes, NextTypes, <1>1, PTL DEF Spec, SecretsKept
=============================================================================
