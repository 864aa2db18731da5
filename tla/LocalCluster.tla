---------------------------- MODULE LocalCluster ----------------------------
(***************************************************************************)
(* The life of one local cluster: local start, stop and delete             *)
(* (internal/local/start.go, stop.go, delete.go, internal/vm/qemu and      *)
(* internal/cmd/local_start.go).                                           *)
(*                                                                         *)
(* A start is some twenty steps that leave their results in the VM image,  *)
(* files of the cluster, the Vault of the local server, the store of fake  *)
(* Nstance and the bucket of Netsy.  Any step may fail or be the last one, *)
(* and the next command finds what is left.                                *)
(*                                                                         *)
(* Commands that make something new are numbered, and what a command makes *)
(* bears its number: an instance ID, a key, a local server process.  The   *)
(* ports of a server are random, so the settings that a VM needs           *)
(* (mutable.env) are named after the server too.  LocalServer models how   *)
(* servers are found; here a server runs (its number) or does not (0).     *)
(***************************************************************************)
EXTENDS Naturals

CONSTANTS
    Cmds,           \* CLI commands that run at the same time
    Ops,            \* the operations issued: "start", "stop", "delete"
    Seeds,          \* seeds with a snapshot that --components may name
    PlatformSeeds,  \* those of them that contain the platform components
    DefaultSeed,    \* the seed when --components is not given
    None, NotAsked, Missing, Torn, NoGuest,
    MaxCommands,    \* bound: commands that are numbered
    MaxFaults,      \* bound: failures, kills, deaths of the VM or server
    Cuts,           \* may a write be cut in its middle?
    Diligent        \* does the user stop only clusters that are not ready?

ASSUME ConstantsAssumption ==
    /\ Ops \subseteq {"start", "stop", "delete"}
    /\ PlatformSeeds \subseteq Seeds /\ DefaultSeed \in Seeds
    /\ {None, NotAsked, Missing, Torn} \cap Seeds = {}
    /\ None \notin {NotAsked, Missing, Torn}
    /\ NotAsked \notin {Missing, Torn} /\ Missing # Torn
    /\ MaxCommands \in Nat /\ MaxFaults \in Nat
    /\ {Cuts, Diligent} \subseteq BOOLEAN

VARIABLES
    vm,         \* image, QEMU process, its PID file, and what the guest holds
    files,      \* user-data, cluster.jsonc, mutable.env, the state file
    vault,      \* the workload CA key and the component secrets
    nstance,    \* the store of fake Nstance
    bucket,     \* Netsy's data: the seed it began with, the Git secret in it
    server,     \* the local server that runs, or 0
    count, faults,
    unmended,   \* what cuts have done that the code does not mend (history)
    cmd         \* of each command: where it stands and what it remembers

vars == <<vm, files, vault, nstance, bucket, server, count, faults, unmended, cmd>>

Numbers == 1 .. MaxCommands
Maybe == 0 .. MaxCommands       \* 0: there is none
\* Its instance ID, the server that its agent calls and the one that its HTTPS
\* forwarder leads to, and the settings that it has.
Guest == [id : Numbers, addr : Numbers, forward : Numbers, env : Maybe]

ASSUME NoGuestAssumption == NoGuest \notin Guest

Steps == {"idle", "ensure", "look", "ca", "createCA", "seed", "config",
          "secrets", "snapshot", "create", "pair", "putPub", "putPriv",
          "tenant", "instance", "stage", "userdata", "boot", "state", "await",
          "forward", "repair", "registered", "ready", "baseline", "host", "kill", "cleanup",
          "remove", "forget", "unstate", "data", "bucket", "tenants", "keys",
          "instances", "unlink", "done"}

Idle == [pc |-> "idle", op |-> "stop", no |-> 0, existed |-> FALSE,
         vmExisted |-> FALSE, id |-> 0, env |-> 0, seed |-> None,
         outcome |-> "none"]

Init ==
    /\ vm = [disk |-> FALSE, qemu |-> FALSE, pid |-> FALSE, guest |-> NoGuest]
    /\ files = [userData |-> 0, config |-> Missing, baseline |-> 0,
                state |-> FALSE]
    /\ vault = [ca |-> 0, secret |-> 0]
    /\ nstance = [pub |-> 0, priv |-> 0, tenant |-> 0,
                  inst |-> [n \in Numbers |-> "none"],
                  pending |-> [n \in Numbers |-> 0]]
    /\ bucket = [seed |-> Missing, flux |-> FALSE]
    /\ server = 0
    /\ count = 0
    /\ faults = 0
    /\ unmended = {}
    /\ cmd = [k \in Cmds |-> Idle]

----------------------------------------------------------------------------
(* How a command goes from step to step.                                   *)

At(k, step) == cmd[k].pc = step

Goto(k, step) == cmd' = [cmd EXCEPT ![k].pc = step]

End(k, result) ==
    cmd' = [cmd EXCEPT ![k].pc = "done", ![k].outcome = result]

Fault == faults < MaxFaults /\ faults' = faults + 1

\* A write that has begun and does not end: os.WriteFile has truncated the
\* file, or the process has no PID file yet.
Cut(k) == Cuts /\ Fault /\ End(k, "failed")

Put(field, value) == files' = [files EXCEPT ![field] = value]

----------------------------------------------------------------------------
(* local start                                                             *)

\* SeedConfig reads the seed that is recorded.
HasSeedConfig == files.config \notin {Missing, Torn}

\* What local start does before anything else: a VM that runs is left alone,
\* an existing one keeps the components that cluster.jsonc records.
Start(k, asked) ==
    /\ At(k, "idle") /\ "start" \in Ops /\ count < MaxCommands
    /\ Diligent => ~vm.pid /\ asked = NotAsked
    /\ count' = count + 1
    /\ LET unreadable == ~vm.pid /\ ~HasSeedConfig
           refused == vm.disk /\ (asked # NotAsked \/ unreadable)
           running == vm.disk /\ vm.pid
       IN cmd' = [cmd EXCEPT ![k] =
            [Idle EXCEPT
                !.pc = IF refused \/ running THEN "done" ELSE "ensure",
                !.op = "start", !.no = count + 1, !.existed = vm.disk,
                !.seed = IF asked = NotAsked THEN DefaultSeed ELSE asked,
                !.outcome = IF refused THEN "failed"
                            ELSE IF running THEN "running" ELSE "none"]]
    /\ UNCHANGED <<vm, files, vault, nstance, bucket, server, faults, unmended>>

\* ServerEnsure, of a start or a delete.
Ensure(k) ==
    /\ At(k, "ensure")
    /\ server' = IF server = 0 THEN cmd[k].no ELSE server
    /\ cmd' = [cmd EXCEPT ![k].env = server',
                  ![k].pc = IF cmd[k].op = "start" THEN "look" ELSE "forget"]
    /\ UNCHANGED <<vm, files, vault, nstance, bucket, count, faults, unmended>>

\* Mutant: a VM that exists gets a new instance ID.
MutantExistingInstanceID == 0

\* User-data that is missing or torn has no instance ID.
ExistingInstanceID == files.userData

Look(k) ==
    /\ At(k, "look")
    /\ cmd' = [cmd EXCEPT ![k].pc = "ca", ![k].vmExisted = vm.disk,
                  ![k].id = IF vm.disk THEN ExistingInstanceID ELSE 0]
    /\ UNCHANGED <<vm, files, vault, nstance, bucket, server, count, faults, unmended>>

\* The Vault must answer; only a new cluster may be without a CA key.
GetCA(k) ==
    /\ At(k, "ca")
    /\ \/ server = 0 /\ End(k, "failed")
       \/ server # 0 /\ vault.ca # 0 /\ Goto(k, "seed")
       \/ server # 0 /\ vault.ca = 0 /\ cmd[k].vmExisted /\ End(k, "failed")
       \/ server # 0 /\ vault.ca = 0 /\ ~cmd[k].vmExisted /\ Goto(k, "createCA")
    /\ UNCHANGED <<vm, files, vault, nstance, bucket, server, count, faults, unmended>>

\* Mutant: the secret is put, whether it is there or not.
MutantCreated(old, k) == cmd[k].no

\* CreateSecret: a secret that is there is kept.
Created(old, k) == IF old = 0 THEN cmd[k].no ELSE old

CreateCA(k) ==
    /\ At(k, "createCA")
    /\ \/ server = 0 /\ End(k, "failed") /\ UNCHANGED vault
       \/ server # 0 /\ Goto(k, "seed") /\ vault' = [vault EXCEPT !.ca = Created(@, k)]
    /\ UNCHANGED <<vm, files, nstance, bucket, server, count, faults, unmended>>

\* The seed that is recorded or asked for, and the instance ID.
ChooseSeed(k) ==
    /\ At(k, "seed")
    /\ IF cmd[k].vmExisted /\ ~HasSeedConfig
       THEN End(k, "failed")
       ELSE cmd' = [cmd EXCEPT ![k].pc = "config",
                ![k].seed = IF cmd[k].vmExisted THEN files.config ELSE @,
                ![k].id = IF @ = 0 THEN cmd[k].no ELSE @]
    /\ UNCHANGED <<vm, files, vault, nstance, bucket, server, count, faults, unmended>>

WriteConfig(k) ==
    /\ At(k, "config")
    /\ \/ Put("config", cmd[k].seed) /\ Goto(k, "secrets") /\ UNCHANGED faults
       \/ Put("config", Torn) /\ Cut(k)
    /\ UNCHANGED <<vm, vault, nstance, bucket, server, count, unmended>>

\* Mutant: the bucket is seeded when the VM has been created.
MutantNewAfter(step) ==
    [secrets |-> "create", create |-> "snapshot", snapshot |-> "pair"][step]

\* The order in which a new cluster is made.
NewAfter(step) ==
    [secrets |-> "snapshot", snapshot |-> "create", create |-> "pair"][step]

PrepareSecrets(k) ==
    /\ At(k, "secrets")
    /\ \/ server = 0 /\ End(k, "failed") /\ UNCHANGED vault
       \/ /\ server # 0
          /\ Goto(k, IF cmd[k].vmExisted THEN "pair" ELSE NewAfter("secrets"))
          /\ vault' = [vault EXCEPT !.secret = Created(@, k)]
    /\ UNCHANGED <<vm, files, nstance, bucket, server, count, faults, unmended>>

\* Data that is in the bucket is kept.
SeedBucket(k) ==
    /\ At(k, "snapshot")
    /\ \/ /\ cmd[k].seed = None \/ bucket.seed # Missing
          /\ Goto(k, NewAfter("snapshot")) /\ UNCHANGED <<bucket, faults>>
       \/ /\ cmd[k].seed # None /\ bucket.seed = Missing
          /\ \/ /\ bucket' = [bucket EXCEPT !.seed = cmd[k].seed]
                /\ Goto(k, NewAfter("snapshot")) /\ UNCHANGED faults
             \/ bucket' = [bucket EXCEPT !.seed = Torn] /\ Cut(k)
    /\ UNCHANGED <<vm, files, vault, nstance, server, count, unmended>>

\* A VM that cannot be created takes the local server down with it.
CreateVM(k) ==
    /\ At(k, "create")
    /\ \/ /\ ~vm.disk
          /\ vm' = [vm EXCEPT !.disk = TRUE]
          /\ Goto(k, NewAfter("create")) /\ UNCHANGED <<server, faults>>
       \/ vm.disk /\ server' = 0 /\ End(k, "failed") /\ UNCHANGED <<vm, faults>>
       \/ Fault /\ server' = 0 /\ End(k, "failed") /\ UNCHANGED vm
    /\ UNCHANGED <<files, vault, nstance, bucket, count, unmended>>

\* Mutant: the half that is missing is made anew.
MutantPutStep == IF nstance.pub # 0 THEN "putPriv" ELSE "putPub"

\* Both halves of a pair are made anew.
PutStep == "putPub"

GetKeyPair(k) ==
    /\ At(k, "pair")
    /\ Goto(k, IF nstance.pub # 0 /\ nstance.priv # 0 THEN "tenant" ELSE PutStep)
    /\ UNCHANGED <<vm, files, vault, nstance, bucket, server, count, faults, unmended>>

PutKeyPair(k) ==
    /\ \/ /\ At(k, "putPub") /\ Goto(k, "putPriv")
          /\ nstance' = [nstance EXCEPT !.pub = cmd[k].no]
          /\ UNCHANGED unmended
       \/ /\ At(k, "putPriv") /\ Goto(k, "tenant")
          /\ nstance' = [nstance EXCEPT !.priv = cmd[k].no]
          /\ unmended' = unmended \ {"pair"}
    /\ UNCHANGED <<vm, files, vault, bucket, server, count, faults>>

ConfigureTenant(k) ==
    /\ At(k, "tenant") /\ Goto(k, "instance")
    /\ nstance' = [nstance EXCEPT !.tenant = cmd[k].env]
    /\ UNCHANGED <<vm, files, vault, bucket, server, count, faults, unmended>>

\* Mutant: an instance that is known is configured again.
MutantConfigured(status) == "configured"

\* What an instance has reported when it registered is kept in instance.json.
Configured(status) == IF status \in {"none", "orphaned"} THEN "configured" ELSE status

ConfigureInstance(k) ==
    /\ At(k, "instance") /\ Goto(k, "stage")
    /\ nstance' = [nstance EXCEPT !.inst[cmd[k].id] = Configured(@)]
    /\ UNCHANGED <<vm, files, vault, bucket, server, count, faults, unmended>>

\* Settings that an existing VM has are not staged again.
StageMutableEnv(k) ==
    /\ At(k, "stage") /\ Goto(k, "userdata")
    /\ IF cmd[k].vmExisted /\ files.baseline = cmd[k].env
       THEN UNCHANGED nstance
       ELSE nstance' = [nstance EXCEPT !.pending[cmd[k].id] = cmd[k].env]
    /\ UNCHANGED <<vm, files, vault, bucket, server, count, faults, unmended>>

\* User-data that is cut has lost the ID of the guest, if there is one.
WriteUserData(k) ==
    /\ At(k, "userdata")
    /\ \/ /\ Put("userData", cmd[k].id) /\ Goto(k, "boot")
          /\ UNCHANGED <<faults, unmended>>
       \/ /\ Put("userData", 0) /\ Cut(k)
          /\ unmended' = unmended \cup (IF vm.guest = NoGuest THEN {} ELSE {"identity"})
    /\ UNCHANGED <<vm, vault, nstance, bucket, server, count>>

\* Mutant: user-data is rendered before the address of the server is known.
MutantBooted(k) ==
    IF vm.guest # NoGuest THEN vm.guest
    ELSE [id |-> cmd[k].id, addr |-> 0, forward |-> cmd[k].env, env |-> 0]

\* On its first boot the guest takes over what user-data says; cloud-init
\* does not run again, because its instance-id is the cluster's.
Booted(k) ==
    IF vm.guest # NoGuest THEN vm.guest
    ELSE [id |-> cmd[k].id, addr |-> cmd[k].env, forward |-> cmd[k].env,
          env |-> 0]

\* QEMU is started, then its PID file is written.  A second QEMU ends at
\* once, for the first one has locked the image.
BootVM(k) ==
    /\ At(k, "boot")
    /\ \/ ~vm.disk /\ server' = 0 /\ End(k, "failed") /\ UNCHANGED <<vm, faults>>
       \/ vm.disk /\ vm.pid /\ End(k, "running") /\ UNCHANGED <<vm, server, faults>>
       \/ Fault /\ server' = 0 /\ End(k, "failed") /\ UNCHANGED vm
       \/ /\ vm.disk /\ ~vm.pid
          /\ UNCHANGED server
          /\ \/ /\ vm' = [vm EXCEPT !.pid = ~vm.qemu, !.qemu = TRUE,
                                    !.guest = Booted(k)]
                /\ Goto(k, "state") /\ UNCHANGED faults
             \/ /\ vm' = [vm EXCEPT !.qemu = TRUE, !.guest = Booted(k)]
                /\ Cut(k)
    /\ UNCHANGED <<files, vault, nstance, bucket, count, unmended>>

WriteState(k) ==
    /\ At(k, "state") /\ Goto(k, "await") /\ Put("state", TRUE)
    /\ UNCHANGED <<vm, vault, nstance, bucket, server, count, faults, unmended>>

\* Shell needs a QEMU process that the CLI knows of.
Running == vm.qemu /\ vm.pid

\* Ssh, on the port of the state file, reaches the guest: cloud-init is done.
Reachable == Running /\ files.state

\* containerd, nstance-agent and Netsy run in the guest.
AwaitServices(k) ==
    /\ At(k, "await") /\ Reachable /\ Goto(k, "forward")
    /\ UNCHANGED <<vm, files, vault, nstance, bucket, server, count, faults, unmended>>

\* The guest's way to registry, Vault and Git server leads to this server.
ConfigureForwarder(k) ==
    /\ At(k, "forward") /\ Reachable /\ Goto(k, "repair")
    /\ vm' = [vm EXCEPT !.guest.forward = cmd[k].env]
    /\ UNCHANGED <<files, vault, nstance, bucket, server, count, faults, unmended>>

\* The agent of an existing guest is told the address of the server.
Repair(k) ==
    /\ At(k, "repair") /\ Reachable /\ Goto(k, "registered")
    /\ vm' = IF cmd[k].vmExisted THEN [vm EXCEPT !.guest.addr = cmd[k].env] ELSE vm
    /\ UNCHANGED <<files, vault, nstance, bucket, server, count, faults, unmended>>

IsRegistered(k) == nstance.inst[cmd[k].id] = "registered"

AwaitRegistration(k) ==
    /\ At(k, "registered") /\ IsRegistered(k) /\ Goto(k, "ready")
    /\ UNCHANGED <<vm, files, vault, nstance, bucket, server, count, faults, unmended>>

\* Netsy and the API server work with the settings of the server that runs.
IsReady(k) == Reachable /\ server = cmd[k].env /\ vm.guest.env = cmd[k].env

AwaitReady(k) ==
    /\ At(k, "ready") /\ IsReady(k) /\ Goto(k, "baseline")
    /\ UNCHANGED <<vm, files, vault, nstance, bucket, server, count, faults, unmended>>

WriteBaseline(k) ==
    /\ At(k, "baseline") /\ Goto(k, "host")
    /\ Put("baseline", cmd[k].env)
    /\ UNCHANGED <<vm, vault, nstance, bucket, server, count, faults, unmended>>

\* kubectl is configured and, when local start began without a VM, Flux gets
\* the CA of the local Git server.
SetUpHost(k) ==
    /\ At(k, "host") /\ End(k, "ok")
    /\ bucket' = IF ~cmd[k].existed /\ cmd[k].seed \in PlatformSeeds
                 THEN [bucket EXCEPT !.flux = TRUE] ELSE bucket
    /\ UNCHANGED <<vm, files, vault, nstance, server, count, faults, unmended>>

----------------------------------------------------------------------------
(* The guest: nstance-agent, and fake Nstance in the local server.         *)

CanRegister ==
    /\ vm.qemu /\ server # 0 /\ vm.guest.addr = server
    /\ vm.guest.env = 0 /\ nstance.inst[vm.guest.id] = "configured"

CanDeliver ==
    /\ vm.qemu /\ server # 0 /\ vm.guest.addr = server
    /\ nstance.inst[vm.guest.id] = "registered"
    /\ nstance.pending[vm.guest.id] # 0

\* The agent registers once, and gets the files of its tenant.
Register ==
    /\ CanRegister
    /\ nstance' = [nstance EXCEPT !.inst[vm.guest.id] = "registered"]
    /\ vm' = [vm EXCEPT !.guest.env = nstance.tenant]
    /\ UNCHANGED <<files, vault, bucket, server, count, faults, cmd, unmended>>

Deliver ==
    /\ CanDeliver
    /\ nstance' = [nstance EXCEPT !.pending[vm.guest.id] = 0]
    /\ vm' = [vm EXCEPT !.guest.env = nstance.pending[vm.guest.id]]
    /\ UNCHANGED <<files, vault, bucket, server, count, faults, cmd, unmended>>

\* The time limits of the waits are longer than what the guest still does.
Timeout(k) ==
    /\ ~CanRegister /\ ~CanDeliver
    /\ \/ cmd[k].pc \in {"await", "forward", "repair"} /\ ~Reachable
       \/ At(k, "registered") /\ ~IsRegistered(k)
       \/ At(k, "ready") /\ ~IsReady(k)
    /\ End(k, "failed")
    /\ UNCHANGED <<vm, files, vault, nstance, bucket, server, count, faults, unmended>>

----------------------------------------------------------------------------
(* local stop                                                              *)

Ready ==
    /\ Reachable /\ server # 0
    /\ nstance.inst[vm.guest.id] = "registered"
    /\ vm.guest.env = server /\ vm.guest.forward = server

Stop(k) ==
    /\ At(k, "idle") /\ "stop" \in Ops
    /\ Diligent => vm.pid /\ ~Ready
    /\ cmd' = [cmd EXCEPT ![k] = [Idle EXCEPT !.pc = "kill"]]
    /\ UNCHANGED <<vm, files, vault, nstance, bucket, server, count, faults, unmended>>

\* A VM that does not run is as good as stopped.
KillVM(k) ==
    /\ At(k, "kill") /\ Goto(k, "unstate")
    /\ vm' = [vm EXCEPT !.pid = FALSE, !.qemu = @ /\ ~vm.pid]
    /\ UNCHANGED <<files, vault, nstance, bucket, server, count, faults, unmended>>

RemoveState(k) ==
    /\ At(k, "unstate")
    /\ Goto(k, IF cmd[k].op = "stop" THEN "cleanup" ELSE "data")
    /\ Put("state", FALSE)
    /\ UNCHANGED <<vm, vault, nstance, bucket, server, count, faults, unmended>>

CleanupServer(k) ==
    /\ At(k, "cleanup") /\ End(k, "ok")
    /\ server' = 0
    /\ UNCHANGED <<vm, files, vault, nstance, bucket, count, faults, unmended>>

----------------------------------------------------------------------------
(* local delete                                                            *)

\* Mutant: the secrets are deleted before the image.
MutantDeletesAfter(step) ==
    [begin |-> "ensure", forget |-> "remove", remove |-> "unstate"][step]

\* The order of a delete: the image, the secrets, the state file.
DeletesAfter(step) ==
    [begin |-> "remove", remove |-> "ensure", forget |-> "unstate"][step]

Delete(k) ==
    /\ At(k, "idle") /\ "delete" \in Ops /\ count < MaxCommands
    /\ count' = count + 1
    /\ cmd' = [cmd EXCEPT ![k] = [Idle EXCEPT !.pc = DeletesAfter("begin"),
                                              !.op = "delete", !.no = count + 1]]
    /\ UNCHANGED <<vm, files, vault, nstance, bucket, server, faults, unmended>>

\* A QEMU without a PID file goes on with an image that has no name any more;
\* nothing here depends on it again.
RemoveVM(k) ==
    /\ At(k, "remove")
    /\ \/ vm.pid /\ End(k, "failed") /\ UNCHANGED <<vm, unmended>>
       \/ /\ ~vm.pid
          /\ Goto(k, DeletesAfter("remove"))
          /\ unmended' = unmended \ {"identity"}
          /\ vm' = [disk |-> FALSE, qemu |-> FALSE, pid |-> FALSE, guest |-> NoGuest]
    /\ UNCHANGED <<files, vault, nstance, bucket, server, count, faults>>

\* A server that was started for this is stopped again.
ForgetSecrets(k) ==
    /\ At(k, "forget")
    /\ \/ server = 0 /\ End(k, "failed") /\ UNCHANGED <<vault, server>>
       \/ /\ server # 0
          /\ Goto(k, DeletesAfter("forget"))
          /\ vault' = [ca |-> 0, secret |-> 0]
          /\ server' = IF server = cmd[k].no THEN 0 ELSE server
    /\ UNCHANGED <<vm, files, nstance, bucket, count, faults, unmended>>

RemoveData(k) ==
    /\ At(k, "data") /\ Goto(k, "bucket")
    /\ files' = [files EXCEPT !.userData = 0, !.config = Missing, !.baseline = 0]
    /\ UNCHANGED <<vm, vault, nstance, bucket, server, count, faults, unmended>>

\* os.RemoveAll unlinks one file after the other.  What a removal that is cut
\* leaves of the data of Netsy counts as data.
RemoveBuckets(k) ==
    /\ At(k, "bucket")
    /\ \/ /\ bucket' = [seed |-> Missing, flux |-> FALSE]
          /\ Goto(k, "tenants") /\ UNCHANGED faults
       \/ /\ bucket.seed # Missing /\ bucket' = [bucket EXCEPT !.seed = Torn]
          /\ Fault /\ End(k, "failed")
    /\ UNCHANGED <<vm, files, vault, nstance, server, count, unmended>>

\* The tenant is gone, then the halves of the key pair, in any order.
RemoveTenant(k) ==
    /\ At(k, "tenants") /\ Goto(k, "keys")
    /\ \E pub \in {nstance.pub, 0}, priv \in {nstance.priv, 0} :
         nstance' = [nstance EXCEPT !.tenant = 0, !.pub = pub, !.priv = priv]
    /\ UNCHANGED <<vm, files, vault, bucket, server, count, faults, unmended>>

RemoveKeys(k) ==
    /\ At(k, "keys") /\ Goto(k, "instances")
    /\ nstance' = [nstance EXCEPT !.pub = 0, !.priv = 0]
    /\ unmended' = unmended \ {"pair"}
    /\ UNCHANGED <<vm, files, vault, bucket, server, count, faults>>

\* Mutant: only the instance that the VM had is removed.
MutantOwned(n) == nstance.inst[n] = "registered"

\* The instances of this tenant, also those of starts that failed: a
\* directory without instance.json is nobody's ("orphaned") and is skipped.
Owned(n) == nstance.inst[n] \in {"configured", "registered"}

\* One directory after the other, and in a directory one file after the
\* other: instance.json, or what is pending for the guest, may go first.
RemoveInstances(k) ==
    /\ At(k, "instances")
    /\ \/ \E n \in Numbers :
             /\ Owned(n)
             /\ cmd' = [cmd EXCEPT ![k].pc = "unlink", ![k].id = n]
             /\ \/ nstance' = [nstance EXCEPT !.inst[n] = "orphaned"]
                \/ nstance' = [nstance EXCEPT !.pending[n] = 0]
       \/ (\A n \in Numbers : ~Owned(n)) /\ End(k, "ok") /\ UNCHANGED nstance
    /\ UNCHANGED <<vm, files, vault, bucket, server, count, faults, unmended>>

\* The rest of the directory.
Unlink(k) ==
    /\ At(k, "unlink")
    /\ nstance' = [nstance EXCEPT !.inst[cmd[k].id] = "none",
                                  !.pending[cmd[k].id] = 0]
    /\ cmd' = [cmd EXCEPT ![k].pc = "instances", ![k].id = 0]
    /\ UNCHANGED <<vm, files, vault, bucket, server, count, faults, unmended>>

----------------------------------------------------------------------------
(* Failures.                                                               *)

\* What a command that ends here leaves half removed and no later one mends:
\* an instance without its record, a private key without its public half.
Leaves(k) ==
    (IF At(k, "unlink") /\ nstance.inst[cmd[k].id] = "orphaned"
        THEN {"instances"} ELSE {})
    \cup (IF At(k, "keys") /\ nstance.pub = 0 /\ nstance.priv # 0
             THEN {"pair"} ELSE {})

\* A step fails, or the command is killed.
Fail(k) ==
    /\ cmd[k].pc \notin {"idle", "done"} /\ Fault /\ End(k, "failed")
    /\ unmended' = unmended \cup Leaves(k)
    /\ UNCHANGED <<vm, files, vault, nstance, bucket, server, count>>

VMDies ==
    /\ vm.qemu /\ Fault /\ vm' = [vm EXCEPT !.qemu = FALSE, !.pid = FALSE]
    /\ UNCHANGED <<files, vault, nstance, bucket, server, count, cmd, unmended>>

ServerDies ==
    /\ server # 0 /\ Fault /\ server' = 0
    /\ UNCHANGED <<vm, files, vault, nstance, bucket, count, cmd, unmended>>

Return(k) ==
    /\ At(k, "done")
    /\ cmd' = [cmd EXCEPT ![k] = Idle]
    /\ UNCHANGED <<vm, files, vault, nstance, bucket, server, count, faults, unmended>>

Step(k) ==
    \/ Ensure(k) \/ Look(k) \/ GetCA(k) \/ CreateCA(k) \/ ChooseSeed(k)
    \/ WriteConfig(k) \/ PrepareSecrets(k) \/ SeedBucket(k) \/ CreateVM(k)
    \/ GetKeyPair(k) \/ PutKeyPair(k) \/ ConfigureTenant(k)
    \/ ConfigureInstance(k) \/ StageMutableEnv(k) \/ WriteUserData(k)
    \/ BootVM(k) \/ WriteState(k) \/ AwaitServices(k) \/ ConfigureForwarder(k)
    \/ Repair(k) \/ AwaitRegistration(k) \/ AwaitReady(k) \/ WriteBaseline(k)
    \/ SetUpHost(k) \/ Timeout(k)
    \/ KillVM(k) \/ RemoveState(k) \/ CleanupServer(k)
    \/ RemoveVM(k) \/ ForgetSecrets(k) \/ RemoveData(k) \/ RemoveBuckets(k)
    \/ RemoveTenant(k) \/ RemoveKeys(k) \/ RemoveInstances(k) \/ Unlink(k)
    \/ Return(k)

User(k) ==
    \/ \E asked \in Seeds \cup {None, NotAsked} : Start(k, asked)
    \/ Stop(k) \/ Delete(k)

Next ==
    \/ \E k \in Cmds : User(k) \/ Step(k) \/ Fail(k)
    \/ Register \/ Deliver \/ VMDies \/ ServerDies

Spec == Init /\ [][Next]_vars

(* Commands and the guest go on, and a diligent user tries again.          *)
Fairness ==
    /\ \A k \in Cmds : WF_vars(Step(k)) /\ WF_vars(Start(k, NotAsked) \/ Stop(k))
    /\ WF_vars(Register) /\ WF_vars(Deliver)

FairSpec == Spec /\ Fairness

----------------------------------------------------------------------------
(* Properties.                                                             *)

TypeOK ==
    /\ vm \in [disk : BOOLEAN, qemu : BOOLEAN, pid : BOOLEAN,
               guest : Guest \cup {NoGuest}]
    /\ files \in [userData : Maybe, baseline : Maybe, state : BOOLEAN,
                  config : Seeds \cup {None, Missing, Torn}]
    /\ vault \in [ca : Maybe, secret : Maybe]
    /\ nstance \in [pub : Maybe, priv : Maybe, tenant : Maybe,
                    inst : [Numbers -> {"none", "configured", "registered", "orphaned"}],
                    pending : [Numbers -> Maybe]]
    /\ bucket \in [seed : Seeds \cup {Missing, Torn}, flux : BOOLEAN]
    /\ server \in Maybe /\ count \in Maybe /\ faults \in 0 .. MaxFaults
    /\ unmended \subseteq {"identity", "pair", "instances"}
    /\ cmd \in [Cmds -> [pc : Steps, op : {"start", "stop", "delete"},
                  no : Maybe, existed : BOOLEAN, vmExisted : BOOLEAN,
                  id : Maybe, env : Maybe, seed : Seeds \cup {None},
                  outcome : {"none", "ok", "running", "failed"}]]

AllIdle == \A k \in Cmds : At(k, "idle")

(* A VM that exists never starts with an empty bucket when its seed is     *)
(* recorded: ensureInitialNetsySnapshot runs for new VMs only, so it must  *)
(* have done its work before the image exists, whatever fails.  The bucket *)
(* then holds that a seed was put there; it is torn only if this write, or *)
(* the removal of the bucket, was cut, for ensureInitialNetsySnapshot      *)
(* takes whatever it finds for data.                                       *)
SeededBeforeCreated ==
    vm.disk /\ files.config \in Seeds => bucket.seed \in Seeds \cup {Torn}

(* The guest keeps the instance ID of its first boot, so every later start *)
(* must find that ID in user-data, and its record in fake Nstance, however *)
(* the starts and deletes before it ended; but a start that is killed in   *)
(* the middle of writing the user-data of a guest has lost the ID.         *)
IdentityKept ==
    AllIdle /\ vm.guest # NoGuest =>
        /\ files.userData = vm.guest.id \/ "identity" \in unmended
        /\ nstance.inst[vm.guest.id] \in {"configured", "registered"}

(* A VM image is never without its workload CA key: ensureWorkloadCAKey    *)
(* would refuse the cluster for ever.  Deletes may be cut short anywhere.  *)
DiskHasItsCA == vm.disk => vault.ca # 0

(* The two halves of the service-account key pair belong together, also    *)
(* when a start ended between the writes of localServiceAccountKeyPair.    *)
(* The exception is a delete that ends between the two files and leaves    *)
(* the private half: the next start may end with halves of two pairs.      *)
KeyPairMatches ==
    nstance.pub # 0 /\ nstance.priv # 0 /\ "pair" \notin unmended =>
        nstance.pub = nstance.priv

(* A local delete that succeeds leaves nothing of the cluster, whatever    *)
(* starts and deletes failed before it, except the rest of a directory     *)
(* of an instance whose instance.json an earlier delete removed before it  *)
(* was killed.                                                             *)
DeletedLeavesNothing ==
    \A k \in Cmds :
        At(k, "done") /\ cmd[k].op = "delete" /\ cmd[k].outcome = "ok" =>
            /\ ~vm.disk /\ ~files.state
            /\ files.userData = 0 /\ files.baseline = 0 /\ files.config = Missing
            /\ vault.ca = 0 /\ vault.secret = 0 /\ bucket.seed = Missing
            /\ nstance.pub = 0 /\ nstance.priv = 0
            /\ \A n \in Numbers :
                 \/ nstance.inst[n] = "none" /\ nstance.pending[n] = 0
                 \/ nstance.inst[n] = "orphaned" /\ "instances" \in unmended

(* The workload CA key and the component secrets never change while they   *)
(* exist, also when two starts create them at the same time: a key that a  *)
(* start has seen stays the key until a delete removes it.                 *)
SecretsKept ==
    [][/\ vault.ca # 0 => vault'.ca \in {vault.ca, 0}
       /\ vault.secret # 0 => vault'.secret \in {vault.secret, 0}]_vars

(* With a user who stops and starts a cluster that is not ready, it is     *)
(* ready in the end, wherever the commands before have failed: its agent   *)
(* is registered, and it has the settings of the server that runs and a    *)
(* way to it.  Writes are whole here (MCEnds): a guest whose ID a cut write *)
(* has lost is never ready again, as IdentityKept says.                    *)
RetriesSucceed == <>[]Ready

(* The seed that cluster.jsonc records is the one that the bucket has.     *)
SeedRecorded == AllIdle /\ vm.disk /\ files.config \in Seeds => bucket.seed = files.config

(* A QEMU process that runs is known to the CLI by its PID file.           *)
VMKnown == AllIdle /\ vm.qemu => vm.pid

(* A seeded cluster with platform components has its Flux Git secret when  *)
(* local start has said that the cluster is ready.                         *)
FluxAuthConfigured ==
    \A k \in Cmds :
        At(k, "done") /\ cmd[k].outcome = "ok" /\ cmd[k].op = "start"
            /\ files.config \in PlatformSeeds => bucket.flux
=============================================================================
