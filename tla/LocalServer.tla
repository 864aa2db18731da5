---------------------------- MODULE LocalServer ----------------------------
(***************************************************************************)
(* The background server that local clusters share, and the CLI commands   *)
(* that find, start and kill it through a PID file (internal/pid,          *)
(* internal/local/server.go, stop.go and delete.go,                        *)
(* internal/cmd/local_server.go).                                          *)
(*                                                                         *)
(* There is no lock between commands: a process reads the PID file, and    *)
(* acts on the copy that it holds.  A server process binds its ports (the  *)
(* ingress port is a fixed one) before it publishes its PID.               *)
(*                                                                         *)
(* Server processes are numbered in the order they are spawned; PIDs are   *)
(* not reused.  Commands are slots of Cmds.                                *)
(***************************************************************************)
EXTENDS Naturals, FiniteSets

CONSTANTS
    Cmds,       \* CLI commands that run at the same time
    Kinds,      \* the commands issued, of AllKinds
    Clusters,
    MaxPid,     \* bound: server processes ever spawned
    MaxPolls,   \* how often ServerEnsure looks for the PID file (10)
    Crashes,    \* may a server process die at any point?
    Signals,    \* may a server be asked to stop (SIGINT, SIGTERM)?
    Interrupts, \* may a command be killed at any point?
    Patient,    \* are commands issued only while no server is coming up?
    SlowExit    \* may a process outlive the ten seconds after SIGKILL?

AllKinds == {"server", "status", "start", "stop", "delete", "quit"}

ASSUME ConstantsAssumption ==
    /\ MaxPid \in Nat /\ MaxPolls \in Nat \ {0}
    /\ Kinds \subseteq AllKinds
    /\ {Crashes, Signals, Interrupts, Patient, SlowExit} \subseteq BOOLEAN
    /\ Clusters # {} /\ Cmds \cap (0 .. MaxPid) = {}

VARIABLES
    pidFile,    \* the PID file of the server
    socket,     \* the server that made the Vault socket at its path, or 0
    server,     \* where each server process stands
    fds,        \* the listeners that each server process has open
    held,       \* the PID that a process has read from the PID file
    vms,        \* clusters whose VM runs
    pc, kind, cluster, child, polls, outcome    \* of each command

serverVars == <<pidFile, socket, server, fds>>
cmdVars == <<pc, kind, cluster, child, polls, outcome>>
vars == <<serverVars, held, vms, cmdVars>>

Pids == 1 .. MaxPid
NoPid == 0

\* os.WriteFile truncates the file before it writes it: a reader in between
\* finds no JSON.  A missing file reads as PID 0.
PidFile == [pid : Pids, whole : BOOLEAN]
NoFile == [pid |-> NoPid, whole |-> TRUE]

Startup == {"load", "check", "bind", "socket", "truncate", "write"}
Stopping == {"drain", "released", "closed", "unlinked"}
Stages == {"unborn", "serving", "dying", "dead"} \cup Startup \cup Stopping

PCs == {"idle", "probe", "probed", "load", "check", "spawn", "poll", "polled",
        "reap", "foreground", "up", "borrow", "vm", "stopVM",
        "cleanup", "kill", "wait", "clean", "cleanAgain", "done"}
Outcomes == {"none", "ok", "failed", "panic", "noProcess"}

----------------------------------------------------------------------------
(* Processes and the PID file.                                             *)

\* process.PidExists: a process that is being killed still exists.
Alive(s) == s # NoPid /\ server[s] \notin {"unborn", "dead"}

Unborn == {s \in Pids : server[s] = "unborn"}

\* pid.Init: x reads the PID file.
ReadPid(x) == pidFile.whole /\ held' = [held EXCEPT ![x] = pidFile.pid]

\* The process whose PID x holds is gone: IsRunning removes the PID file.
Stale(x) == held[x] # NoPid /\ ~Alive(held[x])

\* IsRunning is false.  The file is removed by its path, whoever has written
\* it since; when it is not there any more IsRunning panics instead.
NotRunning(x) ==
    /\ \/ held[x] = NoPid /\ UNCHANGED pidFile
       \/ Stale(x) /\ pidFile # NoFile /\ pidFile' = NoFile
    /\ held' = [held EXCEPT ![x] = NoPid]

Panics(x) == Stale(x) /\ pidFile = NoFile

\* IsRunning is true.
Running(x) == Alive(held[x]) /\ UNCHANGED <<pidFile, held>>

\* Mutant: the server command removes the PID file whenever it returns.
MutantExit(s) ==
    /\ server' = [server EXCEPT ![s] = "dead"]
    /\ fds' = [fds EXCEPT ![s] = {}]
    /\ held' = [held EXCEPT ![s] = NoPid]
    /\ pidFile' = NoFile
    /\ UNCHANGED <<socket, vms, cmdVars>>

\* The process ends; the system closes its listeners, the file of the socket
\* stays.
Exit(s) ==
    /\ server' = [server EXCEPT ![s] = "dead"]
    /\ fds' = [fds EXCEPT ![s] = {}]
    /\ held' = [held EXCEPT ![s] = NoPid]
    /\ UNCHANGED <<pidFile, socket, vms, cmdVars>>

\* Mutant: the PID file is written before the ports are bound.
MutantAfter(stage) ==
    [load |-> "check", check |-> "truncate", truncate |-> "write",
     write |-> "bind", bind |-> "socket", socket |-> "serving",
     serving |-> "drain", drain |-> "released", released |-> "closed",
     closed |-> "unlinked"][stage]

\* The order in which a server starts and stops.
After(stage) ==
    [load |-> "check", check |-> "bind", bind |-> "socket",
     socket |-> "truncate", truncate |-> "write", write |-> "serving",
     serving |-> "drain", drain |-> "released", released |-> "closed",
     closed |-> "unlinked"][stage]

Advance(s) == server' = [server EXCEPT ![s] = After(server[s])]

----------------------------------------------------------------------------
Init ==
    /\ pidFile = NoFile
    /\ socket = NoPid
    /\ server = [s \in Pids |-> "unborn"]
    /\ fds = [s \in Pids |-> {}]
    /\ held = [x \in Pids \cup Cmds |-> NoPid]
    /\ vms = {}
    /\ pc = [k \in Cmds |-> "idle"]
    /\ kind = [k \in Cmds |-> "status"]
    /\ cluster = [k \in Cmds |-> CHOOSE c \in Clusters : TRUE]
    /\ child = [k \in Cmds |-> NoPid]
    /\ polls = [k \in Cmds |-> 0]
    /\ outcome = [k \in Cmds |-> "none"]

----------------------------------------------------------------------------
(* The server process: podplane local server.                              *)

ServerLoad(s) ==
    /\ server[s] = "load"
    /\ \/ ReadPid(s) /\ Advance(s) /\ UNCHANGED <<pidFile, socket, fds, vms, cmdVars>>
       \/ ~pidFile.whole /\ Exit(s)

\* Another server is running: the process ends without an error.
ServerCheck(s) ==
    /\ server[s] = "check"
    /\ \/ Alive(held[s]) /\ Exit(s)
       \/ Panics(s) /\ Exit(s)
       \/ NotRunning(s) /\ Advance(s) /\ UNCHANGED <<socket, fds, vms, cmdVars>>

\* NewServer: of its ports only that of the ingress is fixed.
Bind(s) ==
    /\ server[s] = "bind"
    /\ IF \E t \in Pids : "ingress" \in fds[t]
       THEN Exit(s)
       ELSE /\ fds' = [fds EXCEPT ![s] = @ \cup {"ingress"}]
            /\ Advance(s)
            /\ UNCHANGED <<pidFile, socket, held, vms, cmdVars>>

\* localVaultListener: a socket that answers is in use, any other is replaced.
ListenSocket(s) ==
    /\ server[s] = "socket"
    /\ IF socket # NoPid /\ "vault" \in fds[socket]
       THEN Exit(s)
       ELSE /\ socket' = s
            /\ fds' = [fds EXCEPT ![s] = @ \cup {"vault"}]
            /\ Advance(s)
            /\ UNCHANGED <<pidFile, held, vms, cmdVars>>

TruncatePidFile(s) ==
    /\ server[s] = "truncate"
    /\ pidFile' = [pid |-> s, whole |-> FALSE]
    /\ Advance(s)
    /\ UNCHANGED <<socket, fds, held, vms, cmdVars>>

\* What is written is lost when the file has been removed meanwhile.
WritePidFile(s) ==
    /\ server[s] = "write"
    /\ pidFile' = IF pidFile = [pid |-> s, whole |-> FALSE]
                  THEN [pid |-> s, whole |-> TRUE] ELSE pidFile
    /\ Advance(s)
    /\ UNCHANGED <<socket, fds, held, vms, cmdVars>>

\* SIGINT or SIGTERM: Stop begins.  Before the handler is in place, and
\* until NewServer has returned, the signal ends the process or waits.
Signal(s) ==
    /\ Signals
    /\ \/ server[s] = "serving" /\ Advance(s)
          /\ UNCHANGED <<pidFile, socket, fds, held, vms, cmdVars>>
       \/ server[s] \in {"load", "check"} /\ Exit(s)

\* Stop closes the ingress port after the guest-facing ones.
CloseIngress(s) ==
    /\ server[s] = "drain"
    /\ fds' = [fds EXCEPT ![s] = @ \ {"ingress"}]
    /\ Advance(s)
    /\ UNCHANGED <<pidFile, socket, held, vms, cmdVars>>

\* Closing a Unix listener removes whatever is at its path.
CloseVault(s) ==
    /\ server[s] = "released"
    /\ fds' = [fds EXCEPT ![s] = @ \ {"vault"}]
    /\ socket' = NoPid
    /\ Advance(s)
    /\ UNCHANGED <<pidFile, held, vms, cmdVars>>

RemoveSocket(s) ==
    /\ server[s] = "closed"
    /\ socket' = NoPid
    /\ Advance(s)
    /\ UNCHANGED <<pidFile, fds, held, vms, cmdVars>>

\* Clean at the end of Stop; the process returns from its command.
StopClean(s) ==
    /\ server[s] = "unlinked"
    /\ pidFile' = NoFile
    /\ server' = [server EXCEPT ![s] = "dead"]
    /\ UNCHANGED <<socket, fds, held, vms, cmdVars>>

\* A listener does not shut down within two seconds: Stop returns early, and
\* the PID file stays.
StopFails(s) == server[s] \in {"drain", "released", "closed"} /\ Exit(s)

Die(s) == Crashes /\ Alive(s) /\ Exit(s)

\* A process that got SIGKILL is gone.
Killed(s) == server[s] = "dying" /\ Exit(s)

\* The steps a server takes when nobody disturbs it.
ServerStep(s) ==
    \/ ServerLoad(s) \/ ServerCheck(s) \/ Bind(s) \/ ListenSocket(s)
    \/ TruncatePidFile(s) \/ WritePidFile(s)
    \/ CloseIngress(s) \/ CloseVault(s) \/ RemoveSocket(s) \/ StopClean(s)
    \/ StopFails(s) \/ Killed(s)

----------------------------------------------------------------------------
(* Commands.                                                               *)

Goto(k, label) == pc' = [pc EXCEPT ![k] = label] /\ UNCHANGED outcome

End(k, result) ==
    /\ pc' = [pc EXCEPT ![k] = "done"]
    /\ outcome' = [outcome EXCEPT ![k] = result]

FirstStep(what) ==
    CASE what = "server" -> "spawn"
      [] what = "start" -> "load"
      [] what = "stop" -> "stopVM"
      [] what = "quit" -> "cleanup"
      [] OTHER -> "probe"

\* A command begins while there are PIDs left for the servers it may spawn.
Begin(k, what, c) ==
    /\ pc[k] = "idle"
    /\ Patient => \A s \in Pids : server[s] \notin Startup
    /\ what \in {"server", "start", "delete"} =>
          Cardinality(Unborn) > Cardinality({j \in Cmds : pc[j] # "idle"})
    /\ pc' = [pc EXCEPT ![k] = FirstStep(what)]
    /\ kind' = [kind EXCEPT ![k] = what]
    /\ cluster' = [cluster EXCEPT ![k] = c]
    /\ UNCHANGED <<serverVars, held, vms, child, polls, outcome>>

\* local status and local delete look for a running server; delete refuses
\* a cluster whose VM runs.
Probe(k) ==
    /\ pc[k] = "probe"
    /\ LET refused == kind[k] = "delete" /\ cluster[k] \in vms IN
       \/ ~refused /\ ReadPid(k) /\ Goto(k, "probed")
       \/ (refused \/ ~pidFile.whole) /\ End(k, "failed") /\ UNCHANGED held
    /\ UNCHANGED <<serverVars, vms, kind, cluster, child, polls>>

Probed(k) ==
    /\ pc[k] = "probed"
    /\ \/ /\ Running(k)
          /\ IF kind[k] = "delete" THEN Goto(k, "borrow") ELSE End(k, "ok")
       \/ /\ NotRunning(k)
          /\ IF kind[k] = "delete" THEN Goto(k, "load") ELSE End(k, "ok")
       \/ Panics(k) /\ End(k, "panic") /\ UNCHANGED <<pidFile, held>>
    /\ UNCHANGED <<socket, server, fds, vms, kind, cluster, child, polls>>

\* ServerEnsure: a PID file that cannot be read counts as no server.
EnsureLoad(k) ==
    /\ pc[k] = "load"
    /\ \/ ReadPid(k) /\ Goto(k, "check")
       \/ ~pidFile.whole /\ Goto(k, "spawn") /\ UNCHANGED held
    /\ UNCHANGED <<serverVars, vms, kind, cluster, child, polls>>

EnsureCheck(k) ==
    /\ pc[k] = "check"
    /\ \/ Running(k) /\ Goto(k, "up")
       \/ NotRunning(k) /\ Goto(k, "spawn")
       \/ Panics(k) /\ End(k, "panic") /\ UNCHANGED <<pidFile, held>>
    /\ UNCHANGED <<socket, server, fds, vms, kind, cluster, child, polls>>

Spawn(k) ==
    /\ pc[k] = "spawn"
    /\ \E s \in Unborn :
          /\ \A t \in Unborn : s <= t
          /\ server' = [server EXCEPT ![s] = "load"]
          /\ child' = [child EXCEPT ![k] = s]
    /\ polls' = [polls EXCEPT ![k] = 0]
    /\ Goto(k, IF kind[k] = "server" THEN "foreground" ELSE "poll")
    /\ UNCHANGED <<pidFile, socket, fds, held, vms, kind, cluster>>

\* The user sees the server of local server come up or end.
Foreground(k) ==
    /\ pc[k] = "foreground"
    /\ server[child[k]] \notin Startup
    /\ End(k, "ok")
    /\ UNCHANGED <<serverVars, held, vms, kind, cluster, child, polls>>

\* Mutant: one poll too many.
MutantPollsLeft(k) == polls[k] <= MaxPolls

PollsLeft(k) == polls[k] < MaxPolls

\* The end of the child is seen when its Wait has returned, which may be
\* later than the end itself.
Poll(k) ==
    /\ pc[k] = "poll" /\ PollsLeft(k)
    /\ polls' = [polls EXCEPT ![k] = @ + 1]
    /\ \/ ~Alive(child[k]) /\ End(k, "failed") /\ UNCHANGED held
       \/ ~pidFile.whole /\ End(k, "failed") /\ UNCHANGED held
       \/ ReadPid(k) /\ Goto(k, "polled")
    /\ UNCHANGED <<serverVars, vms, kind, cluster, child>>

Polled(k) ==
    /\ pc[k] = "polled"
    /\ \/ Running(k) /\ Goto(k, "up")
       \/ NotRunning(k) /\ Goto(k, "poll")
       \/ Panics(k) /\ End(k, "panic") /\ UNCHANGED <<pidFile, held>>
    /\ UNCHANGED <<socket, server, fds, vms, kind, cluster, child, polls>>

\* Mutant: the child is awaited but not killed.
MutantGiveUp(k) ==
    /\ pc[k] = "poll" /\ ~PollsLeft(k)
    /\ Goto(k, "reap")
    /\ UNCHANGED <<serverVars, held, vms, kind, cluster, child, polls>>

\* After the last poll the child is killed, and awaited.
GiveUp(k) ==
    /\ pc[k] = "poll" /\ ~PollsLeft(k)
    /\ server' = IF Alive(child[k]) THEN [server EXCEPT ![child[k]] = "dying"]
                                    ELSE server
    /\ Goto(k, "reap")
    /\ UNCHANGED <<pidFile, socket, fds, held, vms, kind, cluster, child, polls>>

Reap(k) ==
    /\ pc[k] = "reap" /\ ~Alive(child[k])
    /\ End(k, "failed")
    /\ UNCHANGED <<serverVars, held, vms, kind, cluster, child, polls>>

\* The Vault of the server answers on its socket.
Reachable == socket # NoPid /\ "vault" \in fds[socket]

\* Start goes on: the vault is unlocked, later the VM is started.
UnlockVault(k) ==
    /\ pc[k] = "up" /\ kind[k] = "start"
    /\ IF Reachable THEN Goto(k, "vm") ELSE End(k, "failed")
    /\ UNCHANGED <<serverVars, held, vms, kind, cluster, child, polls>>

\* A VM that cannot be created or started makes Start clean up, one that was
\* running already does not.
StartVM(k) ==
    /\ pc[k] = "vm"
    /\ \/ cluster[k] \in vms /\ End(k, "failed") /\ UNCHANGED vms
       \/ cluster[k] \notin vms /\ vms' = vms \cup {cluster[k]} /\ End(k, "ok")
       \/ Goto(k, "cleanup") /\ UNCHANGED vms
    /\ UNCHANGED <<serverVars, held, kind, cluster, child, polls>>

\* deleteClusterSecrets, with a server that was running or with its own.
DeleteSecrets(k) ==
    /\ \/ pc[k] = "borrow" /\ End(k, IF Reachable THEN "ok" ELSE "failed")
       \/ pc[k] = "up" /\ kind[k] = "delete" /\ Goto(k, "cleanup")
    /\ UNCHANGED <<serverVars, held, vms, kind, cluster, child, polls>>

\* A VM that does not run is as good as stopped; one that cannot be killed is
\* an error.
StopVM(k) ==
    /\ pc[k] = "stopVM"
    /\ \/ vms' = vms \ {cluster[k]} /\ Goto(k, "cleanup")
       \/ cluster[k] \in vms /\ UNCHANGED vms /\ End(k, "failed")
    /\ UNCHANGED <<serverVars, held, kind, cluster, child, polls>>

\* What ServerCleanup returns is ignored by Start, which has failed anyway.
Result(k, result) == IF kind[k] = "start" THEN "failed" ELSE result

\* ServerCleanup, or local server -q: no PID, no server.
Cleanup(k) ==
    /\ pc[k] = "cleanup"
    /\ \/ pidFile = NoFile /\ ReadPid(k) /\ End(k, Result(k, "ok"))
       \/ pidFile # NoFile /\ ReadPid(k) /\ Goto(k, "kill")
       \/ ~pidFile.whole /\ End(k, Result(k, "failed")) /\ UNCHANGED held
    /\ UNCHANGED <<serverVars, vms, kind, cluster, child, polls>>

\* NewProcess fails when there is no such process.
Kill(k) ==
    /\ pc[k] = "kill"
    /\ IF Alive(held[k])
       THEN server' = [server EXCEPT ![held[k]] = "dying"] /\ Goto(k, "wait")
       ELSE End(k, Result(k, "noProcess")) /\ UNCHANGED server
    /\ UNCHANGED <<pidFile, socket, fds, held, vms, kind, cluster, child, polls>>

\* Kill waits for the process to exit; the test that should report a process
\* still running after ten rounds is never true (i > 9 in range 10).
Wait(k) ==
    /\ pc[k] = "wait"
    /\ ~Alive(held[k]) \/ SlowExit
    /\ Goto(k, "clean")
    /\ UNCHANGED <<serverVars, held, vms, kind, cluster, child, polls>>

\* Kill cleans twice; the file is removed by its path.
Clean(k) ==
    /\ \/ pc[k] = "clean" /\ Goto(k, "cleanAgain")
       \/ pc[k] = "cleanAgain" /\ End(k, Result(k, "ok"))
    /\ pidFile' = NoFile
    /\ UNCHANGED <<socket, server, fds, held, vms, kind, cluster, child, polls>>

Fresh(k) ==
    /\ pc' = [pc EXCEPT ![k] = "idle"]
    /\ kind' = [kind EXCEPT ![k] = "status"]
    /\ cluster' = [cluster EXCEPT ![k] = CHOOSE c \in Clusters : TRUE]
    /\ child' = [child EXCEPT ![k] = NoPid]
    /\ polls' = [polls EXCEPT ![k] = 0]
    /\ outcome' = [outcome EXCEPT ![k] = "none"]
    /\ held' = [held EXCEPT ![k] = NoPid]

Return(k) == pc[k] = "done" /\ Fresh(k) /\ UNCHANGED <<serverVars, vms>>

\* The command is killed; a server it has spawned goes on by itself.
Interrupt(k) ==
    /\ Interrupts
    /\ pc[k] \notin {"idle", "done", "foreground"}
    /\ Fresh(k)
    /\ UNCHANGED <<serverVars, vms>>

CmdStep(k) ==
    \/ Probe(k) \/ Probed(k) \/ EnsureLoad(k) \/ EnsureCheck(k) \/ Spawn(k)
    \/ Foreground(k) \/ Poll(k) \/ Polled(k) \/ GiveUp(k) \/ Reap(k)
    \/ UnlockVault(k) \/ StartVM(k) \/ DeleteSecrets(k) \/ StopVM(k)
    \/ Cleanup(k) \/ Kill(k) \/ Wait(k) \/ Clean(k)

Next ==
    \/ \E s \in Pids : ServerStep(s) \/ Signal(s) \/ Die(s)
    \/ \E k \in Cmds :
          \/ \E what \in Kinds, c \in Clusters : Begin(k, what, c)
          \/ CmdStep(k) \/ Return(k) \/ Interrupt(k)

Spec == Init /\ [][Next]_vars

(* Processes are scheduled, and a process that got SIGKILL ends.           *)
Fairness ==
    /\ \A s \in Pids : WF_vars(ServerStep(s))
    /\ \A k \in Cmds : WF_vars(CmdStep(k))

FairSpec == Spec /\ Fairness

----------------------------------------------------------------------------
(* Properties.                                                             *)

TypeOK ==
    /\ pidFile \in PidFile \cup {NoFile}
    /\ socket \in Pids \cup {NoPid}
    /\ server \in [Pids -> Stages]
    /\ fds \in [Pids -> SUBSET {"ingress", "vault"}]
    /\ held \in [Pids \cup Cmds -> Pids \cup {NoPid}]
    /\ vms \subseteq Clusters
    /\ pc \in [Cmds -> PCs]
    /\ kind \in [Cmds -> AllKinds]
    /\ cluster \in [Cmds -> Clusters]
    /\ child \in [Cmds -> Pids \cup {NoPid}]
    /\ polls \in [Cmds -> 0 .. MaxPolls]
    /\ outcome \in [Cmds -> Outcomes]

(* While a server serves, the PID file names it or no process at all:      *)
(* whoever finds a server through the PID file finds the one that serves.  *)
(* NewServer binds the fixed ingress port before it writes the file, so    *)
(* that no second server gets as far as writing it; commands may race, be  *)
(* killed and leave stale files at will.                                   *)
PublishedServes ==
    \A s \in Pids : server[s] = "serving" => pidFile.pid \in {NoPid, s}

(* ServerEnsure never reports a server that is still starting.             *)
EnsuredHasStarted ==
    \A k \in Cmds : pc[k] \in {"up", "borrow"} => server[held[k]] \notin Startup

(* A server that serves can be found: between commands the PID file names  *)
(* it and the Vault socket is its own, so that the next local start uses   *)
(* it and local stop and local server -q can stop it.                      *)
Discoverable ==
    (\A k \in Cmds : pc[k] \in {"idle", "done"}) =>
        \A s \in Pids : server[s] = "serving" =>
            pidFile = [pid |-> s, whole |-> TRUE] /\ socket = s

(* Every command ends: ServerEnsure gives up on a server that does not     *)
(* come up, Kill does not wait for ever.                                   *)
CommandsEnd == \A k \in Cmds : pc[k] # "idle" ~> pc[k] \in {"done", "idle"}

(* IsRunning does not panic: a PID file that is to be removed is there.    *)
NoPanic == \A k \in Cmds : outcome[k] # "panic"

(* Kill removes the PID file only once the process has exited.             *)
CleanedAfterExit == \A k \in Cmds : pc[k] = "clean" => ~Alive(held[k])

(* Kill, called by ServerKill, succeeds when the server is gone already.   *)
KillNeedsNoServer == \A k \in Cmds : outcome[k] # "noProcess"

(* ServerCleanup spares a server that a running VM needs.                  *)
CleanupSparesVMs ==
    \A k \in Cmds : pc[k] = "wait" /\ kind[k] # "quit" => vms = {}
=============================================================================
