-------------------------- MODULE ProgressDisplay --------------------------
(***************************************************************************)
(* The displays in which a command shows its work: RunTaskProgress for     *)
(* tasks that follow each other, RunDownloadProgress for downloads side by *)
(* side (internal/tui/task_progress.go, download_progress.go).             *)
(*                                                                         *)
(* The work runs in a goroutine of its own and sends its events over a     *)
(* channel.  Another one reads them, one for each message that the update  *)
(* loop has handled; that loop takes messages in any order: events, the    *)
(* end of the work, the end of the channel, keys.                          *)
(***************************************************************************)
EXTENDS Integers, Sequences

CONSTANTS
    Items,     \* tasks, or artifacts
    Capacity   \* of the channel: 64 for tasks, 256 for downloads

VARIABLES
    kind,      \* "tasks" or "downloads"
    state,     \* item -> "new", "started", "done", "failed"
    sending,   \* item -> the event that its goroutine waits to send, or NoEvent
    channel, closedChannel, stopped,
    work,      \* "running", "ok", "failed": what run returned
    reader,    \* "waiting", "closed", "gone", or the event it has read
    display,   \* the model: on, quit, rows, done, closed, err, plain; and
               \* left: whether the user has pressed ctrl+c
    doneMsg,   \* "none", "sent", "taken"
    returned,  \* what the command gets: "none", "nil", "failed", "cancelled"
    dropped    \* events for which there was no room

dispVars == <<kind, state, sending, channel, closedChannel, stopped, work, reader,
              display, doneMsg, returned, dropped>>

NoEvent == [item |-> "none", type |-> "none"]
Event(i, type) == [item |-> i, type |-> type]
Lifecycle == {"started", "done", "failed"}

Init ==
    /\ kind \in {"tasks", "downloads"}
    /\ state = [i \in Items |-> "new"] /\ sending = [i \in Items |-> NoEvent]
    /\ channel = <<>> /\ closedChannel = FALSE /\ stopped = FALSE
    /\ work = "running" /\ reader = [at |-> "waiting", event |-> NoEvent]
    /\ display = [on |-> TRUE, quit |-> FALSE, plain |-> FALSE, left |-> FALSE,
                  done |-> FALSE, closed |-> FALSE, err |-> "none",
                  rows |-> [i \in Items |-> "new"]]
    /\ doneMsg = "none" /\ returned = "none" /\ dropped = {}

----------------------------------------------------------------------------
(* The work.                                                               *)

Sending(i) == sending[i] # NoEvent

\* Tasks follow each other, downloads do not wait; after a failure no more begin.
Begin(i) ==
    /\ work = "running" /\ state[i] = "new" /\ ~Sending(i)
    /\ \A j \in Items : state[j] # "failed"
    /\ kind = "tasks" => \A j \in Items : state[j] # "started" /\ ~Sending(j)
    /\ state' = [state EXCEPT ![i] = "started"]
    /\ sending' = [sending EXCEPT ![i] = Event(i, "started")]
    /\ UNCHANGED <<kind, channel, closedChannel, stopped, work, reader, display,
                   doneMsg, returned, dropped>>

\* A message, or bytes that were received; or the end of the item.
Proceed(i) ==
    /\ state[i] = "started" /\ ~Sending(i)
    /\ \E type \in {"info", "done", "failed"} :
         /\ sending' = [sending EXCEPT ![i] = Event(i, type)]
         /\ state' = [state EXCEPT ![i] = IF type = "info" THEN "started" ELSE type]
    /\ UNCHANGED <<kind, channel, closedChannel, stopped, work, reader, display,
                   doneMsg, returned, dropped>>

\* Mutant: a download may lose any of its events.
MutantMayDrop(e) == TRUE

\* Every event of a task, and the progress of a download.
MayDrop(e) == kind = "tasks" \/ e.type \notin Lifecycle

\* Mutant: nobody tells the goroutines that the display is over.
MutantReleased == FALSE

\* The display has exited.
Released == kind = "downloads" /\ stopped

Send(i) ==
    /\ Sending(i)
    /\ \/ /\ Len(channel) < Capacity
          /\ channel' = Append(channel, sending[i]) /\ UNCHANGED dropped
       \/ /\ Len(channel) = Capacity /\ MayDrop(sending[i])
          /\ dropped' = dropped \cup {sending[i]} /\ UNCHANGED channel
       \/ Released /\ UNCHANGED <<channel, dropped>>
    /\ sending' = [sending EXCEPT ![i] = NoEvent]
    /\ UNCHANGED <<kind, state, closedChannel, stopped, work, reader, display,
                   doneMsg, returned>>

\* run returns: close(events), then its result, which tasks also put into a
\* channel of its own.
EndWork ==
    /\ work = "running" /\ \A i \in Items : ~Sending(i) /\ state[i] # "started"
    /\ (\A i \in Items : state[i] = "done") \/ (\E i \in Items : state[i] = "failed")
    /\ work' = IF \E i \in Items : state[i] = "failed" THEN "failed" ELSE "ok"
    /\ closedChannel' = TRUE /\ doneMsg' = "sent"
    /\ UNCHANGED <<kind, state, sending, channel, stopped, reader, display, returned,
                   dropped>>

----------------------------------------------------------------------------
(* The display.                                                            *)

\* waitForEvent; the goroutine is still there when the display is over.
ReadEvent ==
    /\ reader.at = "waiting"
    /\ \/ /\ channel # <<>> /\ channel' = Tail(channel)
          /\ reader' = [at |-> "event", event |-> Head(channel)]
       \/ /\ channel = <<>> /\ closedChannel /\ UNCHANGED channel
          /\ reader' = [at |-> "closed", event |-> NoEvent]
    /\ UNCHANGED <<kind, state, sending, closedChannel, stopped, work, display, doneMsg,
                   returned, dropped>>

\* applyEvent.
Applied(rows, e) ==
    [rows EXCEPT ![e.item] = IF e.type \in Lifecycle THEN e.type ELSE @]

HandleEvent ==
    /\ display.on /\ reader.at = "event"
    /\ display' = [display EXCEPT !.rows = Applied(display.rows, reader.event)]
    /\ reader' = [at |-> "waiting", event |-> NoEvent]
    /\ UNCHANGED <<kind, state, sending, channel, closedChannel, stopped, work, doneMsg,
                   returned, dropped>>

\* Mutant: the display is over when the work is.
MutantBothEnded(done, closed) == done

\* The work is over, and all of its events were handled.
BothEnded(done, closed) == done /\ closed

\* A display of downloads ends by itself; tasks wait for a key, or end when
\* the work has failed.
Ends(d) ==
    IF kind = "downloads" THEN BothEnded(d.done, d.closed)
    ELSE d.done /\ d.err = "failed"

HandleDone ==
    /\ display.on /\ doneMsg = "sent" /\ doneMsg' = "taken"
    /\ LET d == [display EXCEPT !.done = TRUE,
                   !.err = IF work = "failed" THEN "failed" ELSE "none"]
       IN  display' = [d EXCEPT !.quit = @ \/ Ends(d)]
    /\ UNCHANGED <<kind, state, sending, channel, closedChannel, stopped, work, reader,
                   returned, dropped>>

HandleClosed ==
    /\ display.on /\ reader.at = "closed"
    /\ LET d == [display EXCEPT !.closed = TRUE]
       IN  display' = [d EXCEPT !.quit = @ \/ Ends(d)]
    /\ reader' = [at |-> "gone", event |-> NoEvent]
    /\ UNCHANGED <<kind, state, sending, channel, closedChannel, stopped, work, doneMsg,
                   returned, dropped>>

\* Any key ends a display of tasks that are over; ctrl+c cancels; p goes on
\* with plain output when the terminal is too small.
AnyKey ==
    /\ display.on /\ kind = "tasks" /\ display.done /\ display.closed
    /\ display' = [display EXCEPT !.quit = TRUE]
    /\ UNCHANGED <<kind, state, sending, channel, closedChannel, stopped, work, reader,
                   doneMsg, returned, dropped>>

CtrlC ==
    /\ display.on /\ ~(kind = "tasks" /\ display.done /\ display.closed)
    /\ display' = [display EXCEPT !.quit = TRUE, !.err = "cancelled",
                   !.left = TRUE]
    /\ UNCHANGED <<kind, state, sending, channel, closedChannel, stopped, work, reader,
                   doneMsg, returned, dropped>>

GoPlain ==
    /\ display.on /\ kind = "tasks" /\ ~(display.done /\ display.closed)
    /\ display' = [display EXCEPT !.quit = TRUE, !.plain = TRUE]
    /\ UNCHANGED <<kind, state, sending, channel, closedChannel, stopped, work, reader,
                   doneMsg, returned, dropped>>

\* The message by which the loop ends; others may be handled before it.
Exit ==
    /\ display.on /\ display.quit
    /\ display' = [display EXCEPT !.on = FALSE]
    /\ IF display.plain THEN UNCHANGED <<returned, stopped>>
       ELSE /\ returned' = IF display.err = "none" THEN "nil" ELSE display.err
            /\ stopped' = TRUE
    /\ UNCHANGED <<kind, state, sending, channel, closedChannel, work, reader, doneMsg,
                   dropped>>

\* drainTextTaskProgress, while the old reader waits for the same channel.
DrainEvent ==
    /\ ~display.on /\ display.plain /\ returned = "none" /\ channel # <<>>
    /\ display' = [display EXCEPT !.rows = Applied(display.rows, Head(channel))]
    /\ channel' = Tail(channel)
    /\ UNCHANGED <<kind, state, sending, closedChannel, stopped, work, reader, doneMsg,
                   returned, dropped>>

DrainDone ==
    /\ ~display.on /\ display.plain /\ returned = "none"
    /\ closedChannel /\ channel = <<>> /\ work # "running"
    /\ returned' = IF work = "failed" THEN "failed" ELSE "nil"
    /\ UNCHANGED <<kind, state, sending, channel, closedChannel, stopped, work, reader,
                   display, doneMsg, dropped>>

Loop == HandleEvent \/ HandleDone \/ HandleClosed \/ AnyKey \/ Exit
Drain == DrainEvent \/ DrainDone

Next ==
    \/ \E i \in Items : Begin(i) \/ Proceed(i) \/ Send(i)
    \/ EndWork \/ ReadEvent
    \/ HandleEvent \/ HandleDone \/ HandleClosed \/ Exit
    \/ AnyKey \/ CtrlC \/ GoPlain \/ DrainEvent \/ DrainDone

Spec == Init /\ [][Next]_dispVars

----------------------------------------------------------------------------

TypeOK ==
    /\ state \in [Items -> {"new"} \cup Lifecycle]
    /\ display.rows \in [Items -> {"new"} \cup Lifecycle]
    /\ Len(channel) \in 0..Capacity
    /\ returned \in {"none", "nil", "failed", "cancelled"}
    /\ doneMsg \in {"none", "sent", "taken"}
    /\ work \in {"running", "ok", "failed"}

\* Nobody is told that the work was done unless it was, and a failure is not
\* taken for a success, whatever keys were pressed (RunTaskProgress,
\* RunDownloadProgress).
ResultIsTrue ==
    /\ returned = "nil" => work = "ok"
    /\ returned = "failed" => work = "failed"

\* A display that is complete shows every item as it ended, in whatever order
\* the ends of the work and of the channel were seen; only tasks for which the
\* channel had no room may be missing (Update).
RowsAreFinal ==
    display.done /\ display.closed /\ dropped \cap [item : Items, type : Lifecycle] = {}
        => display.rows = state

\* A display of downloads that nobody has cancelled shows them all as they
\* ended, though progress may have been dropped (runCommand).
DownloadsAreFinal ==
    kind = "downloads" /\ returned # "none" /\ ~display.left =>
        display.rows = state

\* Who goes on with plain output misses at most the event that the display had
\* asked for (drainTextTaskProgress).
PlainMissesOne ==
    display.plain /\ returned \in {"nil", "failed"} /\ dropped = {} =>
        \A i, j \in Items : display.rows[i] # state[i] /\ display.rows[j] # state[j] => i = j

\* No goroutine of the work is stuck with an event, also when the display was
\* left while the channel was full; and when the work is over the command
\* returns (runCommand, Update).
DisplayEnds ==
    /\ \A i \in Items : Sending(i) ~> ~Sending(i)
    /\ work # "running" ~> returned # "none"

\* What is shown and what is returned is what happened (task_progress.go,
\* download_progress.go: Update).
DisplayTrue == ResultIsTrue /\ RowsAreFinal /\ DownloadsAreFinal /\ PlainMissesOne
=============================================================================
