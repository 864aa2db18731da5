--------------------------- MODULE EngineProcess ---------------------------
(***************************************************************************)
(* OpenTofu or Terraform as a child of the CLI (internal/tfexec): one call *)
(* of an apply (init, then apply), a destroy or an output.  runProcess     *)
(* gives the engine and its providers a process group of their own, waits  *)
(* for the engine in a goroutine, and when it is told to stop, interrupts  *)
(* the engine, waits for it, and kills the group when it takes too long.   *)
(*                                                                         *)
(* The engine is external: it may hang, keeps what it has made in memory   *)
(* until it saves it, unlocks the state last, and exits at once, unsaved,  *)
(* when it is interrupted a second time.                                   *)
(***************************************************************************)
EXTENDS Naturals, Sequences

CONSTANT Providers     \* plugin processes, which are in the engine's group

VARIABLES
    call,      \* where the call stands, the verbs left to run, its result
    ctx,       \* a signal was caught by this runProcess; the deadline is over
    engine,    \* the process: where it stands, how it exited, interrupts it got
    alive,     \* providers that run
    done,      \* what cmd.Wait has returned
    relay,     \* the goroutine that reads the terminal: "off" or "reading"
    config,    \* the private CLI configuration is in the temporary directory
    stack,     \* the state of the stack: locked, with resources it lacks
    told,      \* the call was told to stop while runProcess could heed it
    forced     \* the engine was killed

evars == <<call, ctx, engine, alive, done, relay, config, stack, told, forced>>
process == <<engine, alive, done, stack, forced>>

Verbs == {"init", "apply", "destroy", "output"}
Calls == {<<"init">>, <<"init", "apply">>, <<"destroy">>, <<"output">>}
NoEngine == [at |-> "none", ok |-> FALSE, interrupts |-> 0]

Init ==
    /\ call = [at |-> "resting", todo |-> <<>>, res |-> "none"]
    /\ ctx = [signalled |-> FALSE, expired |-> FALSE]
    /\ engine = NoEngine /\ alive = {} /\ done = "none"
    /\ relay = "off" /\ config = FALSE
    /\ stack = [lock |-> FALSE, unsaved |-> FALSE]
    /\ told = FALSE /\ forced = FALSE

At(at) == call.at = at
Goto(at) == call' = [call EXCEPT !.at = at]
Gives(res, at) == call' = [call EXCEPT !.at = at, !.res = res]
Cancelled == ctx.signalled \/ ctx.expired
Ended == engine.at \in {"none", "exited", "reaped"}

\* Steps at which runProcess has yet to look at its context.
Heeds == {"begin", "relay", "start", "wait", "grace", "reap"}
\* Steps between signal.NotifyContext and stop.
Catches == Heeds \cup {"kill", "cleanup", "stop"}

----------------------------------------------------------------------------
(* The call.                                                               *)

\* Init, InitApply, Destroy, OutputJSON.
Call ==
    /\ At("resting")
    /\ \E verbs \in Calls : call' = [call EXCEPT !.at = "config", !.todo = verbs]
    /\ UNCHANGED <<ctx, process, relay, config, told>>

\* commandConfig: a copy of the configuration is made for a development provider.
CommandConfig ==
    /\ At("config")
    /\ \/ Goto("begin") /\ config' \in BOOLEAN
       \/ Gives("failed", "returned") /\ UNCHANGED config
    /\ UNCHANGED <<ctx, process, relay, told>>

\* runProcess does not start when its context is done.
Begin ==
    /\ At("begin")
    /\ IF Cancelled THEN Gives("cancelled", "stop") ELSE Goto("relay")
    /\ UNCHANGED <<ctx, process, relay, config, told>>

\* relayTerminalInput, for the verbs that may ask a question.
RelayTerminalInput ==
    /\ At("relay")
    /\ \/ Goto("start") /\ UNCHANGED relay
       \/ Goto("start") /\ Head(call.todo) # "output" /\ relay' = "reading"
       \/ Gives("failed", "stop") /\ Head(call.todo) # "output" /\ UNCHANGED relay
    /\ UNCHANGED <<ctx, process, config, told>>

StartEngine ==
    /\ At("start")
    /\ \/ /\ Goto("wait") /\ done' = "none"
          /\ engine' = [NoEngine EXCEPT !.at = "running"]
       \/ Gives("failed", "cleanup") /\ UNCHANGED <<engine, done>>
    /\ UNCHANGED <<ctx, alive, relay, config, stack, told, forced>>

\* cmd.Wait: a provider that keeps the output open is an error.
Wait ==
    /\ call.at \in {"wait", "grace", "reap"} /\ engine.at = "exited"
    /\ engine' = [engine EXCEPT !.at = "reaped"]
    /\ \/ done' = IF engine.ok THEN "ok" ELSE "failed"
       \/ Head(call.todo) = "output" /\ alive # {} /\ done' = "failed"
    /\ UNCHANGED <<call, ctx, alive, relay, config, stack, told, forced>>

\* Mutant: the exit status of the engine decides, whatever the user wants.
MutantResult == done

\* What the end of the engine means while nobody has been seen to cancel.
Result == IF Cancelled THEN "cancelled" ELSE done

SelectDone ==
    /\ At("wait") /\ done # "none" /\ Gives(Result, "kill")
    /\ UNCHANGED <<ctx, process, relay, config, told>>

\* cmd.Process.Signal: the engine only, its providers are its own to stop.
Signalled == [engine EXCEPT !.interrupts = IF @ = 2 THEN 2 ELSE @ + 1]

SelectCancelled ==
    /\ At("wait") /\ Cancelled /\ Goto("grace")
    /\ engine' = IF engine.at = "running" THEN Signalled ELSE engine
    /\ UNCHANGED <<ctx, alive, done, relay, config, stack, told, forced>>

\* The engine has ended within the time of grace, or after it was killed.
Reap ==
    /\ call.at \in {"grace", "reap"} /\ done # "none"
    /\ Gives("cancelled", "kill")
    /\ UNCHANGED <<ctx, process, relay, config, told>>

\* The timer: the group is killed, with the engine.
GraceOver ==
    /\ At("grace") /\ Goto("reap")
    /\ alive' = {}
    /\ IF engine.at = "running"
       THEN engine' = [engine EXCEPT !.at = "exited"] /\ forced' = TRUE
       ELSE UNCHANGED <<engine, forced>>
    /\ UNCHANGED <<ctx, done, relay, config, stack, told>>

\* The deferred calls of runProcess, in their order.
KillGroup ==
    /\ At("kill") /\ Goto("cleanup") /\ alive' = {}
    /\ UNCHANGED <<ctx, engine, done, relay, config, stack, told, forced>>

Cleanup ==
    /\ At("cleanup") /\ Goto("stop") /\ relay' = "off"
    /\ UNCHANGED <<ctx, process, config, told>>

StopSignals ==
    /\ At("stop") /\ Goto("remove") /\ ctx' = [ctx EXCEPT !.signalled = FALSE]
    /\ UNCHANGED <<process, relay, config, told>>

\* run returns; InitApply goes on with apply after an init that went well.
Return ==
    /\ At("remove") /\ config' = FALSE
    /\ call' = IF call.res = "ok" /\ Tail(call.todo) # <<>>
               THEN [at |-> "config", todo |-> Tail(call.todo), res |-> "none"]
               ELSE [call EXCEPT !.at = "returned"]
    /\ UNCHANGED <<ctx, process, relay, told>>

----------------------------------------------------------------------------
(* What may happen to it.                                                  *)

\* Mutant: the engine is in the foreground group of the terminal.
MutantHears == TRUE

\* A signal of the terminal reaches the engine too.
Hears == FALSE

\* Ctrl-C or SIGTERM: caught, once or more, or else the end of the CLI.
Interrupt ==
    /\ ~call.at \in {"resting", "returned", "gone"}
    /\ IF call.at \in Catches
       THEN /\ ctx' = [ctx EXCEPT !.signalled = TRUE]
            /\ told' = (told \/ call.at \in Heeds)
            /\ engine' = IF Hears THEN Signalled ELSE engine
            /\ UNCHANGED <<call, relay>>
       ELSE Goto("gone") /\ relay' = "off" /\ UNCHANGED <<ctx, told, engine>>
    /\ UNCHANGED <<alive, done, config, stack, forced>>

\* The deadline that the caller has put on the call.
Expire ==
    /\ ~call.at \in {"resting", "returned", "gone"}
    /\ ctx' = [ctx EXCEPT !.expired = TRUE]
    /\ told' = (told \/ call.at \in Heeds)
    /\ UNCHANGED <<call, process, relay, config>>

Killed ==
    /\ ~call.at \in {"resting", "returned", "gone"}
    /\ Goto("gone") /\ relay' = "off"
    /\ UNCHANGED <<ctx, process, config, told>>

----------------------------------------------------------------------------
(* The engine and its providers.                                           *)

Works == engine.at = "running" /\ engine.interrupts < 2

StartProvider(p) ==
    /\ Works /\ alive' = alive \cup {p}
    /\ UNCHANGED <<call, ctx, engine, done, relay, config, stack, told, forced>>

EndProvider(p) ==
    /\ p \in alive /\ alive' = alive \ {p}
    /\ UNCHANGED <<call, ctx, engine, done, relay, config, stack, told, forced>>

\* The state is locked, resources are made and saved, the state is unlocked.
ChangeStack ==
    /\ Works /\ Head(call.todo) \in {"apply", "destroy"}
    /\ \/ ~stack.lock /\ stack' = [stack EXCEPT !.lock = TRUE]
       \/ stack.lock /\ alive # {} /\ stack' = [stack EXCEPT !.unsaved = TRUE]
       \/ stack.unsaved /\ stack' = [stack EXCEPT !.unsaved = FALSE]
       \/ stack.lock /\ ~stack.unsaved /\ stack' = [stack EXCEPT !.lock = FALSE]
    /\ UNCHANGED <<call, ctx, engine, alive, done, relay, config, told, forced>>

Exit ==
    /\ engine.at = "running"
    /\ \/ Works /\ ~stack.lock /\ \E ok \in BOOLEAN :
            engine' = [engine EXCEPT !.at = "exited", !.ok = ok]
       \/ ~Works /\ engine' = [engine EXCEPT !.at = "exited"]
    /\ UNCHANGED <<call, ctx, alive, done, relay, config, stack, told, forced>>

Next ==
    \/ Call \/ CommandConfig \/ Begin \/ RelayTerminalInput \/ StartEngine
    \/ Wait \/ SelectDone \/ SelectCancelled \/ Reap \/ GraceOver
    \/ KillGroup \/ Cleanup \/ StopSignals \/ Return
    \/ Interrupt \/ Expire \/ Killed \/ ChangeStack \/ Exit
    \/ \E p \in Providers : StartProvider(p) \/ EndProvider(p)

Spec == Init /\ [][Next]_evars

----------------------------------------------------------------------------

Steps == Catches \cup {"resting", "config", "remove", "returned", "gone"}
Results == {"none", "ok", "failed", "cancelled"}

TypeOK ==
    /\ call \in [at : Steps, todo : Seq(Verbs), res : Results]
    /\ ctx \in [signalled : BOOLEAN, expired : BOOLEAN]
    /\ engine \in [at : {"none", "running", "exited", "reaped"}, ok : BOOLEAN,
                   interrupts : 0..2]
    /\ alive \subseteq Providers /\ done \in {"none", "ok", "failed"}
    /\ relay \in {"off", "reading"} /\ config \in BOOLEAN
    /\ stack \in [lock : BOOLEAN, unsaved : BOOLEAN]
    /\ told \in BOOLEAN /\ forced \in BOOLEAN

\* A call that has returned leaves no engine, no provider, no reader of the
\* terminal and no file behind (runProcess, relayTerminalInput, commandConfig).
NothingIsLeft ==
    At("returned") =>
        /\ engine.at \in {"none", "reaped"} /\ alive = {}
        /\ relay = "off" /\ ~config

\* However often it is told to stop, an engine that ends has saved what it has
\* made and unlocked the state, unless it had its time of grace (runProcess
\* interrupts it once, in a group that no signal of the terminal reaches).
StateIsSaved == Ended /\ (stack.lock \/ stack.unsaved) => forced

\* A call that was told to stop while it could still heed it never reports
\* that all went well, nor goes on to the apply (runProcess looks at its
\* context after the engine has ended as well).
InterruptIsHeeded == told => call.res # "ok" /\ ~At("config")

EngineSound == NothingIsLeft /\ StateIsSaved /\ InterruptIsHeeded
============================================================================
