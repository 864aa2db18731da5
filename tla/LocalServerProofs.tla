------------------------- MODULE LocalServerProofs -------------------------
(***************************************************************************)
(* Proofs about LocalServer, for any number of commands, clusters, server  *)
(* processes and polls, and whatever crashes, is signalled, is interrupted *)
(* or is slow to exit.                                                     *)
(***************************************************************************)
EXTENDS LocalServer, TLAPS

----------------------------------------------------------------------------
(* Types.                                                                  *)

(* A process with a PID that has been given out is one of Pids, and the    *)
(* stages of a server follow each other within Stages.                     *)
LEMMA StageTypes ==
  /\ NoPid \notin Pids
  /\ \A stage \in Startup \cup {"serving", "drain", "released", "closed"} :
        After(stage) \in Startup \cup Stopping \cup {"serving"}
  /\ NoFile.pid = NoPid /\ NoFile.whole
  /\ Startup \cup Stopping \cup {"serving", "dying", "dead"} \subseteq Stages
BY DEF NoPid, Pids, After, Startup, Stopping, NoFile, Stages

(* What the PID file holds, and what is read from it, is a PID or NoPid.   *)
LEMMA PidFileType ==
  ASSUME TypeOK
  PROVE  /\ pidFile.pid \in Pids \cup {NoPid} /\ pidFile.whole \in BOOLEAN
<1>1. CASE pidFile \in PidFile
  BY <1>1 DEF PidFile
<1>2. CASE pidFile = NoFile
  BY <1>2, StageTypes
<1> QED BY <1>1, <1>2 DEF TypeOK

(* Reading the PID file, ending a process, and going on to the next stage  *)
(* keep the types of the server processes.                                 *)
LEMMA HelperTypes ==
  ASSUME TypeOK, NEW x \in Pids \cup Cmds
  PROVE  /\ ReadPid(x) => held' \in [Pids \cup Cmds -> Pids \cup {NoPid}]
         /\ NotRunning(x) => /\ held' \in [Pids \cup Cmds -> Pids \cup {NoPid}]
                             /\ pidFile' \in PidFile \cup {NoFile}
<1>1. ReadPid(x) => held' \in [Pids \cup Cmds -> Pids \cup {NoPid}]
  BY PidFileType DEF ReadPid, TypeOK
<1>2. NotRunning(x) => /\ held' \in [Pids \cup Cmds -> Pids \cup {NoPid}]
                       /\ pidFile' \in PidFile \cup {NoFile}
  BY DEF NotRunning, TypeOK
<1> QED BY <1>1, <1>2

(* A step of a server process keeps the types.                             *)
LEMMA ServerTypes ==
  ASSUME TypeOK, NEW s \in Pids, ServerStep(s) \/ Signal(s) \/ Die(s)
  PROVE  TypeOK'
<1> USE DEF serverVars, cmdVars
<1>1. ASSUME Exit(s) PROVE TypeOK'
  BY <1>1, StageTypes DEF Exit, TypeOK
<1>2. ASSUME server[s] \in Startup \cup {"serving", "drain", "released", "closed"},
             Advance(s)
      PROVE  server' \in [Pids -> Stages]
  BY <1>2, StageTypes DEF Advance, TypeOK
<1>3. ASSUME ServerLoad(s) PROVE TypeOK'
  BY <1>1, <1>2, <1>3, HelperTypes DEF ServerLoad, TypeOK, Startup
<1>4. ASSUME ServerCheck(s) PROVE TypeOK'
  BY <1>1, <1>2, <1>4, HelperTypes DEF ServerCheck, TypeOK, Startup
<1>5. ASSUME Bind(s) PROVE TypeOK'
  <2>1. CASE Exit(s) BY <2>1, <1>1
  <2>2. CASE ~Exit(s)
    <3>1. fds' \in [Pids -> SUBSET {"ingress", "vault"}]
      BY <1>5, <2>2 DEF Bind, TypeOK
    <3> QED BY <1>2, <1>5, <2>2, <3>1 DEF Bind, TypeOK, Startup
  <2> QED BY <2>1, <2>2
<1>6. ASSUME ListenSocket(s) PROVE TypeOK'
  <2>1. CASE Exit(s) BY <2>1, <1>1
  <2>2. CASE ~Exit(s)
    <3>1. fds' \in [Pids -> SUBSET {"ingress", "vault"}]
      BY <1>6, <2>2 DEF ListenSocket, TypeOK
    <3> QED BY <1>2, <1>6, <2>2, <3>1 DEF ListenSocket, TypeOK, Startup
  <2> QED BY <2>1, <2>2
<1>7. ASSUME TruncatePidFile(s) PROVE TypeOK'
  BY <1>2, <1>7 DEF TruncatePidFile, TypeOK, PidFile, Startup
<1>8. ASSUME WritePidFile(s) PROVE TypeOK'
  BY <1>2, <1>8 DEF WritePidFile, TypeOK, PidFile, Startup
<1>9. ASSUME CloseIngress(s) PROVE TypeOK'
  <2>1. fds' \in [Pids -> SUBSET {"ingress", "vault"}]
    BY <1>9 DEF CloseIngress, TypeOK
  <2> QED BY <1>2, <1>9, <2>1 DEF CloseIngress, TypeOK
<1>10. ASSUME CloseVault(s) PROVE TypeOK'
  <2>1. fds' \in [Pids -> SUBSET {"ingress", "vault"}]
    BY <1>10 DEF CloseVault, TypeOK
  <2> QED BY <1>2, <1>10, <2>1 DEF CloseVault, TypeOK
<1>11. ASSUME RemoveSocket(s) PROVE TypeOK'
  BY <1>2, <1>11 DEF RemoveSocket, TypeOK
<1>12. ASSUME StopClean(s) PROVE TypeOK'
  BY <1>12, StageTypes DEF StopClean, TypeOK
<1>13. ASSUME Signal(s) PROVE TypeOK'
  BY <1>1, <1>2, <1>13 DEF Signal, TypeOK
<1> QED
  BY <1>1, <1>3, <1>4, <1>5, <1>6, <1>7, <1>8, <1>9, <1>10, <1>11, <1>12, <1>13
  DEF ServerStep, StopFails, Killed, Die

(* A command goes on, ends or is fresh with its types.                     *)
LEMMA PositionTypes ==
  ASSUME TypeOK, NEW k \in Cmds
  PROVE  /\ \A label \in PCs : Goto(k, label) =>
               /\ pc' \in [Cmds -> PCs] /\ outcome' \in [Cmds -> Outcomes]
         /\ \A result \in Outcomes : End(k, result) =>
               /\ pc' \in [Cmds -> PCs] /\ outcome' \in [Cmds -> Outcomes]
         /\ Fresh(k) =>
               /\ pc' \in [Cmds -> PCs] /\ outcome' \in [Cmds -> Outcomes]
               /\ kind' \in [Cmds -> AllKinds] /\ cluster' \in [Cmds -> Clusters]
               /\ child' \in [Cmds -> Pids \cup {NoPid}]
               /\ polls' \in [Cmds -> 0 .. MaxPolls]
               /\ held' \in [Pids \cup Cmds -> Pids \cup {NoPid}]
<1>1. ASSUME NEW label \in PCs, Goto(k, label)
      PROVE  pc' \in [Cmds -> PCs] /\ outcome' \in [Cmds -> Outcomes]
  BY <1>1 DEF Goto, TypeOK
<1>2. ASSUME NEW result \in Outcomes, End(k, result)
      PROVE  pc' \in [Cmds -> PCs] /\ outcome' \in [Cmds -> Outcomes]
  BY <1>2 DEF End, TypeOK, PCs
<1>3. ASSUME Fresh(k)
      PROVE  /\ pc' \in [Cmds -> PCs] /\ outcome' \in [Cmds -> Outcomes]
             /\ kind' \in [Cmds -> AllKinds] /\ cluster' \in [Cmds -> Clusters]
             /\ child' \in [Cmds -> Pids \cup {NoPid}]
             /\ polls' \in [Cmds -> 0 .. MaxPolls]
             /\ held' \in [Pids \cup Cmds -> Pids \cup {NoPid}]
  BY <1>3, ConstantsAssumption DEF Fresh, TypeOK, PCs, Outcomes, AllKinds
<1> QED BY <1>1, <1>2, <1>3

(* Where a command may go next, and how it may end.                        *)
LEMMA Labels ==
  /\ \A what \in AllKinds : FirstStep(what) \in PCs
  /\ PCs = {"idle", "probe", "probed", "load", "check", "spawn", "poll",
            "polled", "reap", "foreground", "up", "borrow", "vm", "stopVM",
            "cleanup", "kill", "wait", "clean", "cleanAgain", "done"}
  /\ {"ok", "failed", "panic", "noProcess"} \subseteq Outcomes
  /\ \A k \in Cmds, result \in Outcomes : Result(k, result) \in Outcomes
BY DEF FirstStep, AllKinds, PCs, Outcomes, Result

(* A step of a command keeps the types.                                    *)
LEMMA CommandTypes ==
  ASSUME TypeOK, NEW k \in Cmds,
         \/ \E what \in Kinds, c \in Clusters : Begin(k, what, c)
         \/ CmdStep(k) \/ Return(k) \/ Interrupt(k)
  PROVE  TypeOK'
<1> USE DEF serverVars, cmdVars
<1>1. ASSUME NEW what \in Kinds, NEW c \in Clusters, Begin(k, what, c)
      PROVE  TypeOK'
  BY <1>1, Labels, ConstantsAssumption DEF Begin, TypeOK
<1>2. ASSUME Probe(k) PROVE TypeOK'
  BY <1>2, HelperTypes, PositionTypes, Labels DEF Probe, TypeOK
<1>3. ASSUME Probed(k) PROVE TypeOK'
  BY <1>3, HelperTypes, PositionTypes, Labels DEF Probed, Running, TypeOK
<1>4. ASSUME EnsureLoad(k) PROVE TypeOK'
  BY <1>4, HelperTypes, PositionTypes, Labels DEF EnsureLoad, TypeOK
<1>5. ASSUME EnsureCheck(k) PROVE TypeOK'
  BY <1>5, HelperTypes, PositionTypes, Labels DEF EnsureCheck, Running, TypeOK
<1>6. ASSUME Spawn(k) PROVE TypeOK'
  BY <1>6, PositionTypes, Labels, StageTypes, ConstantsAssumption
  DEF Spawn, Unborn, Startup, TypeOK
<1>7. ASSUME Foreground(k) PROVE TypeOK'
  BY <1>7, PositionTypes, Labels DEF Foreground, TypeOK
<1>8. ASSUME Poll(k) PROVE TypeOK'
  <2>1. polls' \in [Cmds -> 0 .. MaxPolls]
    BY <1>8, ConstantsAssumption DEF Poll, PollsLeft, TypeOK
  <2> QED BY <1>8, <2>1, HelperTypes, PositionTypes, Labels DEF Poll, TypeOK
<1>9. ASSUME Polled(k) PROVE TypeOK'
  BY <1>9, HelperTypes, PositionTypes, Labels DEF Polled, Running, TypeOK
<1>10. ASSUME GiveUp(k) PROVE TypeOK'
  BY <1>10, PositionTypes, Labels, StageTypes DEF GiveUp, TypeOK
<1>11. ASSUME Reap(k) PROVE TypeOK'
  BY <1>11, PositionTypes, Labels DEF Reap, TypeOK
<1>12. ASSUME UnlockVault(k) PROVE TypeOK'
  BY <1>12, PositionTypes, Labels DEF UnlockVault, TypeOK
<1>13. ASSUME StartVM(k) PROVE TypeOK'
  BY <1>13, PositionTypes, Labels DEF StartVM, TypeOK
<1>14. ASSUME DeleteSecrets(k) PROVE TypeOK'
  BY <1>14, PositionTypes, Labels DEF DeleteSecrets, TypeOK
<1>15. ASSUME StopVM(k) PROVE TypeOK'
  BY <1>15, PositionTypes, Labels DEF StopVM, TypeOK
<1>16. ASSUME Cleanup(k) PROVE TypeOK'
  BY <1>16, HelperTypes, PositionTypes, Labels DEF Cleanup, TypeOK
<1>17. ASSUME Kill(k) PROVE TypeOK'
  BY <1>17, PositionTypes, Labels, StageTypes DEF Kill, TypeOK
<1>18. ASSUME Wait(k) PROVE TypeOK'
  BY <1>18, PositionTypes, Labels DEF Wait, TypeOK
<1>19. ASSUME Clean(k) PROVE TypeOK'
  BY <1>19, PositionTypes, Labels DEF Clean, TypeOK
<1>20. ASSUME Return(k) PROVE TypeOK'
  BY <1>20, PositionTypes DEF Return, TypeOK
<1>21. ASSUME Interrupt(k) PROVE TypeOK'
  BY <1>21, PositionTypes DEF Interrupt, TypeOK
<1> QED
  BY <1>1, <1>2, <1>3, <1>4, <1>5, <1>6, <1>7, <1>8, <1>9, <1>10, <1>11, <1>12,
     <1>13, <1>14, <1>15, <1>16, <1>17, <1>18, <1>19, <1>20, <1>21
  DEF CmdStep

(* PID file, sockets, stages, listeners and commands have their types,     *)
(* also after crashes and interrupts.                                      *)
THEOREM TypeCorrect == Spec => []TypeOK
<1>1. Init => TypeOK
  BY ConstantsAssumption
  DEF Init, TypeOK, Stages, PCs, Outcomes, AllKinds
<1>2. TypeOK /\ [Next]_vars => TypeOK'
  <2>1. ASSUME TypeOK, Next PROVE TypeOK'
    BY <2>1, ServerTypes, CommandTypes DEF Next
  <2>2. ASSUME TypeOK, UNCHANGED vars PROVE TypeOK'
    BY <2>2 DEF TypeOK, vars, serverVars, cmdVars
  <2> QED BY <2>1, <2>2
<1> QED BY <1>1, <1>2, PTL DEF Spec

----------------------------------------------------------------------------
(* The inductive invariant.                                                *)

\* The stages between binding the ingress port and closing it.
Bound == {"socket", "truncate", "write", "serving", "drain"}

IngressHeld == \A s \in Pids : server[s] \in Bound => "ingress" \in fds[s]

IngressOnce ==
    \A s, t \in Pids : "ingress" \in fds[s] /\ "ingress" \in fds[t] => s = t

\* A server that has truncated the PID file and still has the port.
FileOfBound ==
    \A s \in Pids : server[s] \in {"write", "serving"} => pidFile.pid \in {NoPid, s}

\* Who the PID file names has got as far as writing it.
FilePublished ==
    pidFile.pid # NoPid =>
        /\ server[pidFile.pid] \notin {"unborn", "load", "check", "bind", "socket", "truncate"}
        /\ pidFile.whole => server[pidFile.pid] # "write"

Started(s) == server[s] \notin Startup \cup {"unborn"}

HeldStarted == \A x \in Pids \cup Cmds : held[x] # NoPid => Started(held[x])

UpHolds == \A k \in Cmds : pc[k] \in {"up", "borrow"} => held[k] # NoPid

IInv == /\ IngressHeld /\ IngressOnce /\ FileOfBound /\ FilePublished
        /\ HeldStarted /\ UpHolds

(* What is read from a whole PID file has started.                         *)
LEMMA ReadStarted ==
  ASSUME TypeOK, IInv, pidFile.whole, pidFile.pid # NoPid
  PROVE  Started(pidFile.pid)
BY DEF IInv, FilePublished, Started, Startup

(* A step that leaves servers and listeners alone, at most removes the PID *)
(* file, and lets at most one process read it, keeps the invariant as long *)
(* as a command that is up has a PID.                                      *)
LEMMA QuietStep ==
  ASSUME TypeOK, IInv, UNCHANGED <<server, fds>>,
         pidFile' \in {pidFile, NoFile},
         \A x \in Pids \cup Cmds :
            \/ held'[x] \in {held[x], NoPid}
            \/ pidFile.whole /\ held'[x] = pidFile.pid,
         UpHolds'
  PROVE  IInv'
<1>1. FileOfBound' /\ FilePublished'
  BY StageTypes DEF IInv, FileOfBound, FilePublished
<1>2. HeldStarted'
  <2> SUFFICES ASSUME NEW x \in Pids \cup Cmds, held'[x] # NoPid
               PROVE  Started(held'[x])
    BY DEF HeldStarted, Started
  <2> QED BY ReadStarted DEF IInv, HeldStarted
<1> QED BY <1>1, <1>2 DEF IInv, IngressHeld, IngressOnce

(* A process that exits takes its listeners with it and keeps the rest of  *)
(* the invariant.                                                          *)
LEMMA ExitInv ==
  ASSUME TypeOK, IInv, NEW s \in Pids, Exit(s)
  PROVE  IInv'
<1> USE DEF Exit
<1>0. s \notin Cmds
  BY ConstantsAssumption DEF Pids
<1>1. /\ \A t \in Pids : server'[t] = IF t = s THEN "dead" ELSE server[t]
      /\ \A t \in Pids : fds'[t] = IF t = s THEN {} ELSE fds[t]
      /\ \A x \in Pids \cup Cmds : held'[x] \in {held[x], NoPid}
      /\ \A k \in Cmds : held'[k] = held[k] /\ pc'[k] = pc[k]
      /\ pidFile' = pidFile
  <2>1. \A t \in Pids : server'[t] = IF t = s THEN "dead" ELSE server[t]
    BY DEF TypeOK
  <2>2. \A t \in Pids : fds'[t] = IF t = s THEN {} ELSE fds[t]
    BY DEF TypeOK
  <2>3. \A x \in Pids \cup Cmds : held'[x] = IF x = s THEN NoPid ELSE held[x]
    BY DEF TypeOK
  <2>4. pc' = pc /\ pidFile' = pidFile
    BY DEF cmdVars
  <2> QED BY <1>0, <2>1, <2>2, <2>3, <2>4
<1>2. IngressHeld' /\ IngressOnce'
  BY <1>1 DEF IInv, IngressHeld, IngressOnce, Bound
<1>3. FileOfBound' /\ FilePublished'
  BY <1>1, PidFileType DEF IInv, FileOfBound, FilePublished
<1>4. HeldStarted'
  BY <1>1 DEF IInv, HeldStarted, Started, TypeOK, Startup
<1>5. UpHolds'
  BY <1>1 DEF IInv, UpHolds
<1> QED BY <1>2, <1>3, <1>4, <1>5 DEF IInv

(* A server that goes from one stage to the next within its startup or its *)
(* end, before it owns the PID file or after it has stopped serving,       *)
(* disturbs nobody: its listeners may change as long as the ingress port   *)
(* is never shared and is held while the stage says so.                    *)
LEMMA StageStep ==
  ASSUME TypeOK, IInv, NEW s \in Pids, server[s] # "unborn",
         \A t \in Pids : t # s => server'[t] = server[t] /\ fds'[t] = fds[t],
         server'[s] \notin {"write", "serving", "unborn"},
         Started(s) => server'[s] \notin Startup,
         server[s] = "write" => server'[s] \notin Startup,
         IngressHeld', IngressOnce',
         pidFile' \in {pidFile, NoFile},
         \A x \in Pids \cup Cmds :
            \/ held'[x] \in {held[x], NoPid}
            \/ pidFile.whole /\ held'[x] = pidFile.pid,
         UpHolds'
  PROVE  IInv'
<1>1. FileOfBound'
  BY StageTypes DEF IInv, FileOfBound
<1>2. FilePublished'
  BY StageTypes, PidFileType DEF IInv, FilePublished, Started, Startup
<1>3. HeldStarted'
  <2> SUFFICES ASSUME NEW x \in Pids \cup Cmds, held'[x] # NoPid
               PROVE  server'[held'[x]] \notin Startup \cup {"unborn"}
    BY DEF HeldStarted, Started
  <2>1. held'[x] \in Pids /\ Started(held'[x])
    BY ReadStarted, PidFileType DEF IInv, HeldStarted, TypeOK
  <2> QED BY <2>1 DEF Started
<1> QED BY <1>1, <1>2, <1>3 DEF IInv

(* The process that advances is the only one that does.                    *)
LEMMA AdvanceEffect ==
  ASSUME TypeOK, NEW s \in Pids, Advance(s)
  PROVE  /\ server'[s] = After(server[s])
         /\ \A t \in Pids : t # s => server'[t] = server[t]
BY DEF Advance, TypeOK

(* Reading the PID file and finding that nothing runs change what one      *)
(* process holds, and at most remove the file.                             *)
LEMMA FileEffects ==
  ASSUME TypeOK, NEW x \in Pids \cup Cmds
  PROVE  /\ NotRunning(x) =>
               /\ pidFile' \in {pidFile, NoFile}
               /\ \A y \in Pids \cup Cmds : held'[y] \in {held[y], NoPid}
               /\ \A y \in Pids \cup Cmds : y # x => held'[y] = held[y]
         /\ ReadPid(x) =>
               /\ pidFile.whole /\ held'[x] = pidFile.pid
               /\ \A y \in Pids \cup Cmds : y # x => held'[y] = held[y]
<1>1. ASSUME NotRunning(x)
      PROVE  /\ pidFile' \in {pidFile, NoFile}
             /\ \A y \in Pids \cup Cmds : held'[y] \in {held[y], NoPid}
             /\ \A y \in Pids \cup Cmds : y # x => held'[y] = held[y]
  BY <1>1 DEF NotRunning, TypeOK
<1>2. ASSUME ReadPid(x)
      PROVE  /\ pidFile.whole /\ held'[x] = pidFile.pid
             /\ \A y \in Pids \cup Cmds : y # x => held'[y] = held[y]
  BY <1>2 DEF ReadPid, TypeOK
<1> QED BY <1>1, <1>2

(* Commands are not server processes, and a step of a server process that  *)
(* touches at most its own copy of the PID leaves every command its PID.   *)
LEMMA ServersSpareCommands ==
  ASSUME TypeOK, IInv, NEW s \in Pids, UNCHANGED pc,
         \A y \in Pids \cup Cmds : y # s => held'[y] = held[y]
  PROVE  UpHolds'
<1>1. s \notin Cmds
  BY ConstantsAssumption DEF Pids
<1> QED BY <1>1 DEF IInv, UpHolds

(* Every step of a server process keeps the invariant.                     *)
LEMMA ServerInv ==
  ASSUME TypeOK, IInv, NEW s \in Pids, ServerStep(s) \/ Signal(s) \/ Die(s)
  PROVE  IInv'
<1> USE DEF serverVars, cmdVars
<1>1. ASSUME Exit(s) PROVE IInv'
  BY <1>1, ExitInv
<1>2. ASSUME ServerLoad(s), ~Exit(s) PROVE IInv'
  <2>1. server[s] = "load" /\ server'[s] = "check" /\ UNCHANGED <<pidFile, fds, pc>>
    BY <1>2, AdvanceEffect, FileEffects DEF ServerLoad, After
  <2>2. UpHolds'
    BY <1>2, <2>1, AdvanceEffect, FileEffects, ServersSpareCommands DEF ServerLoad
  <2>3. IngressHeld' /\ IngressOnce'
    BY <1>2, <2>1, AdvanceEffect, FileEffects DEF ServerLoad, IInv, IngressHeld, IngressOnce, Bound
  <2> QED BY <1>2, <2>1, <2>2, <2>3, AdvanceEffect, FileEffects, StageStep DEF ServerLoad, Started, Startup
<1>3. ASSUME ServerCheck(s), ~Exit(s) PROVE IInv'
  <2>1. server[s] = "check" /\ server'[s] = "bind" /\ UNCHANGED <<fds, pc>>
    BY <1>3, AdvanceEffect, FileEffects DEF ServerCheck, After
  <2>2. UpHolds'
    BY <1>3, <2>1, AdvanceEffect, FileEffects, ServersSpareCommands DEF ServerCheck
  <2>3. IngressHeld' /\ IngressOnce'
    BY <1>3, <2>1, AdvanceEffect, FileEffects DEF ServerCheck, IInv, IngressHeld, IngressOnce, Bound
  <2> QED BY <1>3, <2>1, <2>2, <2>3, AdvanceEffect, FileEffects, StageStep DEF ServerCheck, Started, Startup
<1>4. ASSUME Bind(s), ~Exit(s) PROVE IInv'
  <2>1. /\ server[s] = "bind" /\ server'[s] = "socket"
        /\ UNCHANGED <<pidFile, held, pc>>
        /\ \A t \in Pids : t # s => server'[t] = server[t]
        /\ \A t \in Pids : "ingress" \notin fds[t]
    BY <1>4, AdvanceEffect, FileEffects DEF Bind, After
  <2>2. /\ \A t \in Pids : t # s => fds'[t] = fds[t]
        /\ "ingress" \in fds'[s]
    BY <1>4 DEF Bind, TypeOK
  <2>3. UpHolds'
    BY <2>1, ServersSpareCommands
  <2>4. IngressHeld' /\ IngressOnce'
    BY <2>1, <2>2 DEF IInv, IngressHeld, IngressOnce
  <2> QED BY <2>1, <2>2, <2>3, <2>4, StageStep DEF Started, Startup
<1>5. ASSUME ListenSocket(s), ~Exit(s) PROVE IInv'
  <2>1. /\ server[s] = "socket" /\ server'[s] = "truncate"
        /\ UNCHANGED <<pidFile, held, pc>>
        /\ \A t \in Pids : t # s => server'[t] = server[t]
    BY <1>5, AdvanceEffect, FileEffects DEF ListenSocket, After
  <2>2. /\ \A t \in Pids : t # s => fds'[t] = fds[t]
        /\ fds'[s] = fds[s] \cup {"vault"}
    BY <1>5 DEF ListenSocket, TypeOK
  <2>3. UpHolds'
    BY <2>1, ServersSpareCommands
  <2>4. IngressHeld' /\ IngressOnce'
    BY <2>1, <2>2 DEF IInv, IngressHeld, IngressOnce, Bound
  <2> QED BY <2>1, <2>2, <2>3, <2>4, StageStep DEF Started, Startup
<1>6. ASSUME TruncatePidFile(s) PROVE IInv'
  <2>1. /\ server[s] = "truncate" /\ server'[s] = "write"
        /\ \A t \in Pids : t # s => server'[t] = server[t]
        /\ pidFile'.pid = s /\ ~pidFile'.whole
        /\ UNCHANGED <<held, fds, pc>>
    BY <1>6, AdvanceEffect, FileEffects DEF TruncatePidFile, After
  <2>2. IngressHeld' /\ IngressOnce'
    BY <2>1 DEF IInv, IngressHeld, IngressOnce, Bound
  <2>3. FileOfBound'
    BY <2>1 DEF IInv, FileOfBound, IngressHeld, IngressOnce, Bound
  <2>4. FilePublished'
    BY <2>1 DEF FilePublished
  <2>5. HeldStarted'
    BY <2>1 DEF IInv, HeldStarted, Started, Startup, TypeOK
  <2> QED BY <2>1, <2>2, <2>3, <2>4, <2>5 DEF IInv, UpHolds
<1>7. ASSUME WritePidFile(s) PROVE IInv'
  <2>1. /\ server[s] = "write" /\ server'[s] = "serving"
        /\ \A t \in Pids : t # s => server'[t] = server[t]
        /\ UNCHANGED <<held, fds, pc>>
    BY <1>7, AdvanceEffect, FileEffects DEF WritePidFile, After
  <2>2. /\ pidFile'.pid = pidFile.pid
        /\ pidFile.pid # s => pidFile' = pidFile
    BY <1>7 DEF WritePidFile
  <2>3. IngressHeld' /\ IngressOnce'
    BY <2>1 DEF IInv, IngressHeld, IngressOnce, Bound
  <2>4. FileOfBound'
    BY <2>1, <2>2 DEF IInv, FileOfBound
  <2>5. FilePublished'
    BY <2>1, <2>2, PidFileType DEF IInv, FilePublished
  <2>6. HeldStarted'
    BY <2>1 DEF IInv, HeldStarted, Started, Startup, TypeOK
  <2> QED BY <2>1, <2>3, <2>4, <2>5, <2>6 DEF IInv, UpHolds
<1>8. ASSUME Signal(s), ~Exit(s) PROVE IInv'
  <2>1. /\ server[s] = "serving" /\ server'[s] = "drain"
        /\ \A t \in Pids : t # s => server'[t] = server[t]
        /\ UNCHANGED <<pidFile, held, fds, pc>>
    BY <1>8, AdvanceEffect, FileEffects DEF Signal, After
  <2>2. UpHolds'
    BY <2>1, ServersSpareCommands
  <2>3. IngressHeld' /\ IngressOnce'
    BY <2>1 DEF IInv, IngressHeld, IngressOnce, Bound
  <2> QED BY <2>1, <2>2, <2>3, StageStep DEF Startup
<1>9. ASSUME CloseIngress(s) \/ CloseVault(s) \/ RemoveSocket(s) \/ StopClean(s)
      PROVE  IInv'
  <2>1. /\ server[s] \in Stopping
        /\ server'[s] \in {"released", "closed", "unlinked", "dead"}
        /\ \A t \in Pids : t # s => server'[t] = server[t]
        /\ pidFile' \in {pidFile, NoFile}
        /\ UNCHANGED <<held, pc>>
    BY <1>9, AdvanceEffect, FileEffects
    DEF CloseIngress, CloseVault, RemoveSocket, StopClean, After, Stopping, TypeOK
  <2>2. /\ \A t \in Pids : t # s => fds'[t] = fds[t]
        /\ fds'[s] \subseteq fds[s]
    BY <1>9 DEF CloseIngress, CloseVault, RemoveSocket, StopClean, TypeOK
  <2>3. UpHolds'
    BY <2>1, ServersSpareCommands
  <2>4. IngressHeld' /\ IngressOnce'
    BY <2>1, <2>2 DEF IInv, IngressHeld, IngressOnce, Bound
  <2> QED BY <2>1, <2>2, <2>3, <2>4, StageStep DEF Startup, Stopping
<1> QED
  BY <1>1, <1>2, <1>3, <1>4, <1>5, <1>6, <1>7, <1>8, <1>9
  DEF ServerStep, StopFails, Killed, Die

(* A command that changes its own position and PID only leaves every       *)
(* command that is up its PID, if it has one itself when it is up.         *)
LEMMA CommandUp ==
  ASSUME TypeOK, IInv, NEW k \in Cmds,
         \A j \in Cmds : j # k => pc'[j] = pc[j] /\ held'[j] = held[j],
         pc'[k] \in {"up", "borrow"} => held'[k] # NoPid
  PROVE  UpHolds'
BY DEF IInv, UpHolds

(* Going on, ending and beginning anew change the position of one command. *)
LEMMA PositionEffects ==
  ASSUME TypeOK, NEW k \in Cmds
  PROVE  /\ \A label \in PCs : Goto(k, label) =>
               pc'[k] = label /\ \A j \in Cmds : j # k => pc'[j] = pc[j]
         /\ \A result \in Outcomes : End(k, result) =>
               pc'[k] = "done" /\ \A j \in Cmds : j # k => pc'[j] = pc[j]
         /\ Fresh(k) =>
               /\ pc'[k] = "idle" /\ \A j \in Cmds : j # k => pc'[j] = pc[j]
               /\ \A x \in Pids \cup Cmds : held'[x] = IF x = k THEN NoPid ELSE held[x]
<1>1. ASSUME NEW label \in PCs, Goto(k, label)
      PROVE  pc'[k] = label /\ \A j \in Cmds : j # k => pc'[j] = pc[j]
  BY <1>1 DEF Goto, TypeOK
<1>2. ASSUME NEW result \in Outcomes, End(k, result)
      PROVE  pc'[k] = "done" /\ \A j \in Cmds : j # k => pc'[j] = pc[j]
  BY <1>2 DEF End, TypeOK
<1>3. ASSUME Fresh(k)
      PROVE  /\ pc'[k] = "idle" /\ \A j \in Cmds : j # k => pc'[j] = pc[j]
             /\ \A x \in Pids \cup Cmds : held'[x] = IF x = k THEN NoPid ELSE held[x]
  BY <1>3 DEF Fresh, TypeOK
<1> QED BY <1>1, <1>2, <1>3

(* A step of a command that neither touches the PID file nor any PID, and  *)
(* that does not make the command up, keeps the invariant.                 *)
LEMMA IdleStep ==
  ASSUME TypeOK, IInv, NEW k \in Cmds, UNCHANGED <<server, fds, pidFile, held>>,
         \/ \E label \in PCs \ {"up", "borrow"} : Goto(k, label)
         \/ \E result \in Outcomes : End(k, result)
  PROVE  IInv'
<1>1. /\ \A j \in Cmds : j # k => pc'[j] = pc[j]
      /\ pc'[k] \notin {"up", "borrow"}
  BY PositionEffects
<1>2. UpHolds'
  BY <1>1, CommandUp
<1> QED BY <1>2, QuietStep

(* Every step of a command keeps the invariant.                            *)
LEMMA CommandInv ==
  ASSUME TypeOK, IInv, NEW k \in Cmds,
         \/ \E what \in Kinds, c \in Clusters : Begin(k, what, c)
         \/ CmdStep(k) \/ Return(k) \/ Interrupt(k)
  PROVE  IInv'
<1> USE DEF serverVars, cmdVars
<1>1. ASSUME NEW what \in Kinds, NEW c \in Clusters, Begin(k, what, c)
      PROVE  IInv'
  <2>1. /\ pc'[k] \notin {"up", "borrow"}
        /\ \A j \in Cmds : j # k => pc'[j] = pc[j]
        /\ UNCHANGED <<server, fds, pidFile, held>>
    BY <1>1 DEF Begin, FirstStep, TypeOK
  <2> QED BY <2>1, CommandUp, QuietStep
<1>2. ASSUME Probe(k) PROVE IInv'
  <2>1. CASE ReadPid(k) /\ Goto(k, "probed")
    <3>1. UpHolds'
      BY <2>1, FileEffects, PositionEffects, Labels, CommandUp
    <3> QED BY <1>2, <2>1, <3>1, FileEffects, QuietStep DEF Probe
  <2>2. CASE End(k, "failed") /\ UNCHANGED held
    BY <1>2, <2>2, Labels, IdleStep DEF Probe
  <2> QED BY <1>2, <2>1, <2>2 DEF Probe
<1>3. ASSUME Probed(k) \/ EnsureCheck(k) \/ Polled(k) PROVE IInv'
  <2>1. CASE Running(k)
    <3>1. held[k] # NoPid /\ UNCHANGED <<server, fds, pidFile, held>>
      BY <1>3, <2>1 DEF Running, Alive, Probed, EnsureCheck, Polled
    <3>2. \A j \in Cmds : j # k => pc'[j] = pc[j]
      BY <1>3, PositionEffects, Labels DEF Probed, EnsureCheck, Polled
    <3> QED BY <3>1, <3>2, CommandUp, QuietStep
  <2>2. CASE NotRunning(k) /\ ~Running(k)
    <3>1. /\ pc'[k] \notin {"up", "borrow"}
          /\ \A j \in Cmds : j # k => pc'[j] = pc[j]
      <4>1. ASSUME Probed(k)
            PROVE Goto(k, "load") \/ End(k, "ok") \/ End(k, "panic")
        BY <4>1, <2>2 DEF Probed
      <4>2. ASSUME EnsureCheck(k)
            PROVE Goto(k, "spawn") \/ End(k, "panic")
        BY <4>2, <2>2 DEF EnsureCheck
      <4>3. ASSUME Polled(k)
            PROVE Goto(k, "poll") \/ End(k, "panic")
        BY <4>3, <2>2 DEF Polled
      <4> QED BY <1>3, <4>1, <4>2, <4>3, PositionEffects, Labels
    <3>2. UpHolds'
      BY <2>2, <3>1, FileEffects, CommandUp
    <3> QED BY <1>3, <2>2, <3>2, FileEffects, QuietStep DEF Probed, EnsureCheck, Polled
  <2>3. CASE End(k, "panic") /\ UNCHANGED <<pidFile, held>>
    BY <1>3, <2>3, Labels, IdleStep DEF Probed, EnsureCheck, Polled
  <2> QED BY <1>3, <2>1, <2>2, <2>3 DEF Probed, EnsureCheck, Polled
<1>4. ASSUME EnsureLoad(k) \/ Poll(k) \/ Cleanup(k) PROVE IInv'
  <2>1. UNCHANGED <<server, fds, pidFile>>
    BY <1>4 DEF EnsureLoad, Poll, Cleanup
  <2>2. CASE ReadPid(k)
    <3>1. /\ pc'[k] \notin {"up", "borrow"}
          /\ \A j \in Cmds : j # k => pc'[j] = pc[j]
      <4>1. \/ \E label \in PCs \ {"up", "borrow"} : Goto(k, label)
            \/ \E result \in Outcomes : End(k, result)
        BY <1>4, Labels DEF EnsureLoad, Poll, Cleanup
      <4> QED BY <4>1, PositionEffects
    <3>2. UpHolds'
      BY <2>2, <3>1, FileEffects, CommandUp
    <3> QED BY <2>1, <2>2, <3>2, FileEffects, QuietStep
  <2>3. CASE UNCHANGED held
    <3>1. \/ \E label \in PCs \ {"up", "borrow"} : Goto(k, label)
          \/ \E result \in Outcomes : End(k, result)
      BY <1>4, Labels DEF EnsureLoad, Poll, Cleanup
    <3> QED BY <2>1, <2>3, <3>1, IdleStep
  <2> QED BY <1>4, <2>2, <2>3 DEF EnsureLoad, Poll, Cleanup
<1>5. ASSUME Spawn(k) PROVE IInv'
  <2>1. PICK s \in Unborn : server' = [server EXCEPT ![s] = "load"]
    BY <1>5 DEF Spawn
  <2>2. /\ s \in Pids /\ server[s] = "unborn" /\ server'[s] = "load"
        /\ \A t \in Pids : t # s => server'[t] = server[t]
        /\ UNCHANGED <<pidFile, fds, held>>
    BY <1>5, <2>1 DEF Spawn, Unborn, TypeOK
  <2>3. UpHolds'
    BY <1>5, <2>2, PositionEffects, Labels, CommandUp DEF Spawn
  <2>4. IngressHeld' /\ IngressOnce' /\ FileOfBound'
    BY <2>2 DEF IInv, IngressHeld, IngressOnce, FileOfBound, Bound
  <2>5. FilePublished' /\ HeldStarted'
    BY <2>2, PidFileType DEF IInv, FilePublished, HeldStarted, Started, TypeOK
  <2> QED BY <2>3, <2>4, <2>5 DEF IInv
<1>6. ASSUME GiveUp(k) \/ Kill(k) PROVE IInv'
  <2>1. /\ UNCHANGED <<pidFile, fds, held>>
        /\ \/ \E label \in PCs \ {"up", "borrow"} : Goto(k, label)
           \/ \E result \in Outcomes : End(k, result)
    BY <1>6, Labels DEF GiveUp, Kill, Result
  <2>2. CASE UNCHANGED server
    BY <2>1, <2>2, IdleStep
  <2>3. CASE server' # server
    <3>1. PICK s \in Pids : Alive(s) /\ server' = [server EXCEPT ![s] = "dying"]
      BY <1>6, <2>3 DEF GiveUp, Kill, Alive, TypeOK
    <3>2. /\ server[s] # "unborn" /\ server'[s] = "dying"
          /\ \A t \in Pids : t # s => server'[t] = server[t]
      BY <3>1 DEF Alive, TypeOK
    <3>3. UpHolds'
      BY <2>1, PositionEffects, CommandUp
    <3>4. IngressHeld' /\ IngressOnce'
      BY <2>1, <3>2 DEF IInv, IngressHeld, IngressOnce, Bound
    <3> QED BY <2>1, <3>2, <3>3, <3>4, StageStep DEF Startup
  <2> QED BY <2>2, <2>3
<1>7. ASSUME \/ Foreground(k) \/ Reap(k) \/ UnlockVault(k) \/ StartVM(k)
             \/ DeleteSecrets(k) \/ StopVM(k) \/ Wait(k)
      PROVE  IInv'
  <2>1. /\ UNCHANGED <<server, fds, pidFile, held>>
        /\ \/ \E label \in PCs \ {"up", "borrow"} : Goto(k, label)
           \/ \E result \in Outcomes : End(k, result)
    BY <1>7, Labels
    DEF Foreground, Reap, UnlockVault, StartVM, DeleteSecrets, StopVM, Wait
  <2> QED BY <2>1, IdleStep
<1>8. ASSUME Clean(k) PROVE IInv'
  <2>1. /\ UNCHANGED <<server, fds, held>> /\ pidFile' = NoFile
        /\ \/ \E label \in PCs \ {"up", "borrow"} : Goto(k, label)
           \/ \E result \in Outcomes : End(k, result)
    BY <1>8, Labels DEF Clean
  <2>2. UpHolds'
    BY <2>1, PositionEffects, CommandUp
  <2> QED BY <2>1, <2>2, QuietStep
<1>9. ASSUME Return(k) \/ Interrupt(k) PROVE IInv'
  <2>1. UNCHANGED <<server, fds, pidFile>> /\ Fresh(k)
    BY <1>9 DEF Return, Interrupt
  <2>2. UpHolds'
    BY <2>1, PositionEffects, CommandUp
  <2> QED BY <2>1, <2>2, PositionEffects, QuietStep
<1> QED
  BY <1>1, <1>2, <1>3, <1>4, <1>5, <1>6, <1>7, <1>8, <1>9 DEF CmdStep

(* The ingress port has one owner, and who has been published in the PID   *)
(* file has come up, in every state of the local server and its commands.  *)
LEMMA Invariant == Spec => []IInv
<1>1. Init => IInv
  BY StageTypes
  DEF Init, IInv, IngressHeld, IngressOnce, FileOfBound, FilePublished,
      HeldStarted, UpHolds, Bound
<1>2. TypeOK /\ IInv /\ [Next]_vars => IInv'
  <2>1. ASSUME TypeOK, IInv, Next PROVE IInv'
    BY <2>1, ServerInv, CommandInv DEF Next
  <2>2. ASSUME TypeOK, IInv, UNCHANGED vars PROVE IInv'
    BY <2>2
    DEF vars, serverVars, cmdVars, IInv, IngressHeld, IngressOnce, FileOfBound,
        FilePublished, HeldStarted, Started, UpHolds
  <2> QED BY <2>1, <2>2
<1> QED BY <1>1, <1>2, TypeCorrect, PTL DEF Spec

----------------------------------------------------------------------------
(* While a server serves, the PID file names it or nobody: NewServer has   *)
(* the ingress port before it writes the file and keeps it while serving.  *)
THEOREM ServesAsPublished == Spec => []PublishedServes
<1>1. IInv => PublishedServes
  BY DEF IInv, FileOfBound, PublishedServes
<1> QED BY <1>1, Invariant, PTL

(* ServerEnsure reports no server that is still starting: the PID file is  *)
(* written by the last step of the startup.                                *)
THEOREM EnsuredStarted == Spec => []EnsuredHasStarted
<1>1. IInv => EnsuredHasStarted
  BY DEF IInv, UpHolds, HeldStarted, Started, EnsuredHasStarted
<1> QED BY <1>1, Invariant, PTL
=============================================================================
