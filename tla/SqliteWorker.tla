---------------------------- MODULE SqliteWorker ----------------------------
(***************************************************************************)
(* The thread that owns an actor's SQLite connection, the futures that     *)
(* queue commands for it, the guard that cancels a command when its future *)
(* is dropped, and close (crates/rivet-depot-client-pinned/src/worker.rs). *)
(*                                                                         *)
(* A call is named by its command id; 0 is no command.  Every step reads   *)
(* or writes one atomic, one channel or one lock.  The only step inside    *)
(* SQLite is the command itself, which sqlite3_interrupt may reach from    *)
(* another thread.  The store that publishes a command has Release and the *)
(* load that follows it Acquire ordering, so other threads may see the     *)
(* store after the load: it waits in a buffer until Flush.                 *)
(***************************************************************************)
EXTENDS Naturals, Sequences

CONSTANTS
  MaxCalls,  \* bound: calls of exec and execute
  Closers,   \* tasks that call close
  Capacity,  \* SQLITE_WORKER_QUEUE_CAPACITY
  MayPanic   \* whether a command may panic on the worker thread

ASSUME WorkerAssumption ==
  /\ MaxCalls \in Nat
  /\ Capacity \in Nat \ {0}
  /\ MayPanic \in BOOLEAN

Calls == 1 .. MaxCalls
Canceling == MaxCalls + 1   \* ACTIVE_COMMAND_CANCELING, no call's id

VARIABLES
  \* SqliteWorkerInner
  state,        \* STATE_RUNNING, ...
  active,       \* active_command
  connection,   \* the pointer is not null
  joinable,     \* join still holds the thread's handle
  \* channels
  queue,        \* sql_tx
  closeSent,    \* close_tx holds a request
  held,         \* a SqliteWorkerHandle, and so both senders, exist
  receiving,    \* the worker has not dropped its receivers
  replies,      \* per call: what its oneshot channel holds
  \* exec and execute
  pc,           \* per call: where it is, the drop of its guard included
  abandoned,    \* calls whose receiver is dropped
  cancelled,    \* calls whose cancelled flag is set
  interrupted,  \* history: calls for which sqlite3_interrupt was called
  missed,       \* history: calls whose guard came before the buffered store
  \* the worker thread
  worker,
  command,      \* the command it has taken
  buffered,     \* its store to active_command is not visible yet
  open,         \* the connection is open
  \* close
  closers,      \* per closer: where close is
  notified,     \* closers whose Notified future has been notified
  behind        \* history: commands that were queued at mark_closing

coreVars == <<state, active, connection, open>>
chanVars == <<queue, closeSent, held, receiving, replies>>
flagVars == <<abandoned, cancelled, interrupted, missed>>
threadVars == <<worker, command, buffered>>
closeVars == <<closers, notified, joinable, behind>>
vars == <<coreVars, chanVars, pc, flagVars, threadVars, closeVars>>

Init ==
  /\ state = "running"
  /\ active = 0
  /\ connection = FALSE
  /\ joinable = TRUE
  /\ queue = << >>
  /\ closeSent = FALSE
  /\ held = TRUE
  /\ receiving = TRUE
  /\ replies = [c \in Calls |-> "none"]
  /\ pc = [c \in Calls |-> "idle"]
  /\ abandoned = {}
  /\ cancelled = {}
  /\ interrupted = {}
  /\ missed = {}
  /\ worker = "opening"
  /\ command = 0
  /\ buffered = FALSE
  /\ open = FALSE
  /\ closers = [k \in Closers |-> "idle"]
  /\ notified = {}
  /\ behind = {}

-----------------------------------------------------------------------------
(* exec and execute *)

CallStep(c, from, to) ==
  /\ pc[c] = from
  /\ pc' = [pc EXCEPT ![c] = to]
  /\ UNCHANGED <<threadVars, closeVars>>

\* enqueue looks at the state; an error drops the armed guard.
Call(c) ==
  /\ held
  /\ CallStep(c, "idle", IF state = "running" THEN "sending" ELSE "cancel")
  /\ UNCHANGED <<coreVars, chanVars, flagVars>>

\* Mutant: send without a look at the capacity.
SendUnbounded(c) ==
  /\ CallStep(c, "sending", IF receiving THEN "waiting" ELSE "cancel")
  /\ queue' = IF receiving THEN Append(queue, c) ELSE queue
  /\ UNCHANGED <<coreVars, closeSent, held, receiving, replies, flagVars>>

\* try_send: a full queue is actor.overloaded, a dropped receiver is fatal.
Send(c) ==
  LET fits == receiving /\ Len(queue) < Capacity
  IN  /\ CallStep(c, "sending", IF fits THEN "waiting" ELSE "cancel")
      /\ queue' = IF fits THEN Append(queue, c) ELSE queue
      /\ UNCHANGED <<coreVars, closeSent, held, receiving, replies, flagVars>>

\* The reply, or the loss of its sender, ends the await; the guard is disarmed.
Receive(c) ==
  /\ replies[c] # "none"
  /\ CallStep(c, "waiting", "returned")
  /\ UNCHANGED <<coreVars, chanVars, flagVars>>

\* The future is dropped while it awaits: first its receiver goes ...
Abandon(c) ==
  /\ CallStep(c, "waiting", "cancel")
  /\ abandoned' = abandoned \cup {c}
  /\ UNCHANGED <<coreVars, chanVars, cancelled, interrupted, missed>>

\* ... then the guard: the flag is set,
Cancel(c) ==
  /\ CallStep(c, "cancel", "claim")
  /\ cancelled' = cancelled \cup {c}
  /\ UNCHANGED <<coreVars, chanVars, abandoned, interrupted, missed>>

\* the command is claimed if the worker is at it,
Claim(c) ==
  /\ CallStep(c, "claim", IF active = c THEN "load" ELSE "dropped")
  /\ active' = IF active = c THEN Canceling ELSE active
  /\ missed' = IF buffered /\ command = c THEN missed \cup {c} ELSE missed
  /\ UNCHANGED <<state, connection, open, chanVars, abandoned, cancelled,
                 interrupted>>

\* the pointer is loaded,
Load(c) ==
  /\ CallStep(c, "load", IF connection THEN "interrupt" ELSE "restore")
  /\ UNCHANGED <<coreVars, chanVars, flagVars>>

\* sqlite3_interrupt is called,
Interrupt(c) ==
  /\ CallStep(c, "interrupt", "restore")
  /\ interrupted' = interrupted \cup {c}
  /\ UNCHANGED <<coreVars, chanVars, abandoned, cancelled, missed>>

\* and the worker is let go.
Restore(c) ==
  /\ CallStep(c, "restore", "dropped")
  /\ active' = 0
  /\ UNCHANGED <<state, connection, open, chanVars, flagVars>>

-----------------------------------------------------------------------------
(* worker_main *)

ThreadStep(from, to) ==
  /\ worker = from
  /\ worker' = to
  /\ UNCHANGED <<pc, flagVars, closeVars>>

\* A oneshot channel takes one value.
Answer(calls, reply) ==
  replies' = [c \in Calls |->
                IF c \in calls /\ replies[c] = "none" THEN reply
                                                      ELSE replies[c]]

Queued == {queue[i] : i \in 1 .. Len(queue)}

\* fail_queued_sql, with a command already taken.
FailQueued(taken) ==
  /\ Answer(Queued \cup taken, "closing")
  /\ queue' = << >>

OpenConnection ==
  /\ ThreadStep("opening", "check")
  /\ open' = TRUE
  /\ connection' = TRUE
  /\ UNCHANGED <<state, active, chanVars, command, buffered>>

OpenFails ==
  /\ ThreadStep("opening", "failed")
  /\ FailQueued({})
  /\ UNCHANGED <<coreVars, closeSent, held, receiving, command, buffered>>

\* The head of the loop looks for a close before it takes a command.
CheckClose ==
  /\ closeSent' = FALSE
  /\ IF closeSent \/ state = "closing"
       THEN ThreadStep("check", "closing") /\ FailQueued({})
       ELSE ThreadStep("check", "select") /\ UNCHANGED <<queue, replies>>
  /\ UNCHANGED <<coreVars, held, receiving, command, buffered>>

\* select_biased: a close request, or the loss of its sender, comes first,
SelectClose ==
  /\ closeSent \/ ~held
  /\ ThreadStep("select", "closing")
  /\ closeSent' = FALSE
  /\ FailQueued({})
  /\ UNCHANGED <<coreVars, held, receiving, command, buffered>>

\* then a command.
SelectCommand ==
  /\ held /\ ~closeSent /\ queue # << >>
  /\ ThreadStep("select", "taken")
  /\ command' = Head(queue)
  /\ queue' = Tail(queue)
  /\ UNCHANGED <<coreVars, closeSent, held, receiving, replies, buffered>>

\* Mutant: a command taken after mark_closing runs.
TakenUnchecked ==
  /\ ThreadStep("taken", "begin")
  /\ UNCHANGED <<coreVars, chanVars, command, buffered>>

\* A command taken after mark_closing fails with everything behind it.
Taken ==
  /\ IF state = "closing"
       THEN ThreadStep("taken", "closing") /\ FailQueued({command})
       ELSE ThreadStep("taken", "begin") /\ UNCHANGED <<queue, replies>>
  /\ UNCHANGED <<coreVars, closeSent, held, receiving, command, buffered>>

\* begin_command: look at the flag,
Begin ==
  /\ ThreadStep("begin", IF command \in cancelled THEN "skip" ELSE "publish")
  /\ UNCHANGED <<coreVars, chanVars, command, buffered>>

\* publish the command,
Publish ==
  /\ ThreadStep("publish", "recheck")
  /\ buffered' = TRUE
  /\ UNCHANGED <<coreVars, chanVars, command>>

\* which other threads see now or later,
Flush ==
  /\ buffered
  /\ active' = command
  /\ buffered' = FALSE
  /\ UNCHANGED <<state, connection, open, chanVars, pc, flagVars, worker, command,
                 closeVars>>

\* Mutant: nothing is looked at after the command is published.
RecheckNothing ==
  /\ ThreadStep("recheck", "execute")
  /\ UNCHANGED <<coreVars, chanVars, command, buffered>>

\* and look again; a command whose receiver is gone is skipped, too.
Recheck ==
  /\ ThreadStep("recheck", IF command \in cancelled \cup abandoned
                             THEN "skip" ELSE "execute")
  /\ UNCHANGED <<coreVars, chanVars, command, buffered>>

\* The command has run, to its end or to an interrupt.
Execute ==
  /\ ThreadStep("execute", "finish")
  /\ UNCHANGED <<coreVars, chanVars, command, buffered>>

\* Mutant: the worker does not wait for the guard that holds its command.
FinishAtOnce(from, to) ==
  /\ ThreadStep(from, to)
  /\ ~buffered
  /\ active' = IF active = command THEN 0 ELSE active
  /\ UNCHANGED <<state, connection, open, chanVars, command, buffered>>

\* Mutant: the command stays published.
FinishPublished(from, to) ==
  /\ ThreadStep(from, to)
  /\ ~buffered /\ active # Canceling
  /\ UNCHANGED <<coreVars, chanVars, command, buffered>>

\* finish_command, which waits while a guard holds the command.  Its
\* compare-exchange comes after the store to the same atomic.  Another
\* command there would be a panic, which FinishFindsOwn excludes.
FinishCommand(from, to) ==
  /\ ThreadStep(from, to)
  /\ ~buffered
  /\ active \in {0, command}
  /\ active' = 0
  /\ UNCHANGED <<state, connection, open, chanVars, command, buffered>>

Reply ==
  /\ ThreadStep("reply", "check")
  /\ Answer({command}, "result")
  /\ UNCHANGED <<coreVars, queue, closeSent, held, receiving, command, buffered>>

\* Nobody waits for the reply of a command that is skipped.
RunCommand ==
  \/ Begin \/ Publish \/ Flush \/ Recheck \/ Execute
  \/ FinishCommand("skip", "check")
  \/ FinishCommand("finish", "reply") \/ Reply

\* After the loop: the pointer and the active command are cleared,
Disconnect ==
  /\ ThreadStep("closing", "close")
  /\ connection' = FALSE
  /\ active' = 0
  /\ UNCHANGED <<state, open, chanVars, command, buffered>>

\* the connection is closed,
CloseConnection ==
  /\ ThreadStep("close", "closed")
  /\ open' = FALSE
  /\ UNCHANGED <<state, active, connection, chanVars, command, buffered>>

\* Mutant: the end of the thread notifies nobody.
MarkEndSilent(from, end, to) ==
  /\ ThreadStep(from, to)
  /\ state' = end
  /\ UNCHANGED <<active, connection, open, chanVars, command, buffered>>

\* the state is stored and notify_waiters called,
MarkEnd(from, end, to) ==
  /\ worker = from
  /\ ~buffered
  /\ worker' = to
  /\ state' = end
  /\ notified' = notified \cup
                   {k \in Closers : closers[k] \in {"look", "parked"}}
  /\ UNCHANGED <<active, connection, open, chanVars, pc, flagVars, command,
                 buffered, closers, joinable, behind>>

\* Mutant: commands queued since the drain are kept with their senders.
LeaveQueued ==
  /\ ThreadStep("leaving", "gone")
  /\ receiving' = FALSE
  /\ UNCHANGED <<coreVars, queue, closeSent, held, replies, command, buffered>>

\* and the receivers go, with whatever was queued since the drain.
Leave ==
  /\ ThreadStep("leaving", "gone")
  /\ receiving' = FALSE
  /\ queue' = << >>
  /\ Answer(Queued, "dropped")
  /\ UNCHANGED <<coreVars, closeSent, held, command, buffered>>

\* A panic in a command unwinds worker_main: the connection and the receivers
\* go first, the pointer and the active command stay.
Panic ==
  /\ MayPanic
  /\ ThreadStep("execute", "panicked")
  /\ open' = FALSE
  /\ receiving' = FALSE
  /\ queue' = << >>
  /\ Answer(Queued \cup {command}, "dropped")
  /\ UNCHANGED <<state, active, connection, closeSent, held, command, buffered>>

Thread ==
  \/ OpenConnection \/ OpenFails \/ MarkEnd("failed", "dead", "leaving")
  \/ CheckClose \/ SelectClose \/ SelectCommand \/ Taken \/ RunCommand
  \/ Disconnect \/ CloseConnection \/ MarkEnd("closed", "closed", "leaving")
  \/ Leave
  \/ Panic \/ MarkEnd("panicked", "dead", "gone")

-----------------------------------------------------------------------------
(* close *)

CloseStep(k, from, to) ==
  /\ closers[k] = from
  /\ closers' = [closers EXCEPT ![k] = to]
  /\ UNCHANGED <<active, connection, open, queue, held, receiving, replies, pc,
                 flagVars, threadVars>>

\* mark_closing: one caller changes the state and will send the request.
MarkClosing(k) ==
  /\ held
  /\ CloseStep(k, "idle", IF state = "running" THEN "request" ELSE "listen")
  /\ state' = IF state = "running" THEN "closing" ELSE state
  /\ behind' = IF state = "running" THEN Queued ELSE behind
  /\ UNCHANGED <<closeSent, notified, joinable>>

\* try_send on a channel of its own.
RequestClose(k) ==
  /\ CloseStep(k, "request", "listen")
  /\ closeSent' = receiving
  /\ UNCHANGED <<state, notified, joinable, behind>>

\* The wait: create the Notified future, look at the state,
Listen(k) ==
  /\ CloseStep(k, "listen", "look")
  /\ notified' = notified \ {k}
  /\ UNCHANGED <<state, closeSent, joinable, behind>>

Look(k) ==
  /\ CloseStep(k, "look", CASE state = "closed" -> "join"
                            [] state = "dead" -> "error"
                            [] OTHER -> "parked")
  /\ UNCHANGED <<state, closeSent, notified, joinable, behind>>

\* and await the future,
Wake(k) ==
  /\ k \in notified
  /\ CloseStep(k, "parked", "listen")
  /\ UNCHANGED <<state, closeSent, notified, joinable, behind>>

\* for at most SQLITE_WORKER_CLOSE_TIMEOUT; then the join is left to a task.
CloseTimeout(k) ==
  /\ CloseStep(k, "parked", "error")
  /\ joinable' = FALSE
  /\ UNCHANGED <<state, closeSent, notified, behind>>

\* join_worker: whoever gets the handle waits for the thread.
Join(k) ==
  /\ CloseStep(k, "join", IF joinable THEN "joining" ELSE "ok")
  /\ joinable' = FALSE
  /\ UNCHANGED <<state, closeSent, notified, behind>>

Joined(k) ==
  /\ worker = "gone"
  /\ CloseStep(k, "joining", "ok")
  /\ UNCHANGED <<state, closeSent, notified, joinable, behind>>

\* No future that borrows the handle is left.
Idle ==
  /\ \A c \in Calls : pc[c] \in {"idle", "dropped", "returned"}
  /\ \A k \in Closers : closers[k] \in {"idle", "ok", "error"}

DropHandle ==
  /\ held
  /\ Idle
  /\ held' = FALSE
  /\ UNCHANGED <<coreVars, queue, closeSent, receiving, replies, pc, flagVars,
                 threadVars, closeVars>>

-----------------------------------------------------------------------------
\* The thread rests without work, or it is gone.
Finished ==
  /\ worker \in {"select", "gone"}
  /\ Idle
  /\ UNCHANGED vars

Caller(c) ==
  \/ Send(c) \/ Receive(c) \/ Cancel(c) \/ Claim(c) \/ Load(c) \/ Interrupt(c)
  \/ Restore(c)

Closer(k) ==
  \/ RequestClose(k) \/ Listen(k) \/ Look(k) \/ Wake(k) \/ Join(k) \/ Joined(k)

Next ==
  \/ \E c \in Calls : Call(c) \/ Abandon(c) \/ Caller(c)
  \/ Thread
  \/ \E k \in Closers : MarkClosing(k) \/ CloseTimeout(k) \/ Closer(k)
  \/ DropHandle
  \/ Finished

Spec == Init /\ [][Next]_vars

\* The thread and the tasks run, and SQLite returns from a command.  Nothing
\* forces a call, a drop, a close or the close timeout.
Fairness ==
  /\ \A c \in Calls : WF_vars(Caller(c))
  /\ WF_vars(Thread)
  /\ \A k \in Closers : WF_vars(Closer(k))

FairSpec == Spec /\ Fairness

-----------------------------------------------------------------------------
(* Properties *)

\* The atomics, the channels and the program counters keep their types, and
\* the queue its bound.
TypeOK ==
  /\ state \in {"running", "closing", "closed", "dead"}
  /\ active \in 0 .. Canceling
  /\ connection \in BOOLEAN
  /\ joinable \in BOOLEAN
  /\ queue \in Seq(Calls) /\ Len(queue) <= Capacity
  /\ closeSent \in BOOLEAN
  /\ held \in BOOLEAN
  /\ receiving \in BOOLEAN
  /\ replies \in [Calls -> {"none", "result", "closing", "dropped"}]
  /\ abandoned \subseteq Calls
  /\ pc \in [Calls -> {"idle", "sending", "waiting", "cancel", "claim", "load",
                       "interrupt", "restore", "dropped", "returned"}]
  /\ cancelled \subseteq Calls
  /\ interrupted \subseteq Calls
  /\ missed \subseteq Calls
  /\ worker \in {"opening", "check", "select", "taken", "begin", "publish",
                 "recheck", "execute", "finish", "skip", "reply", "closing",
                 "close", "closed", "failed", "leaving", "panicked", "gone"}
  /\ command \in 0 .. MaxCalls
  /\ buffered \in BOOLEAN
  /\ open \in BOOLEAN
  /\ closers \in [Closers -> {"idle", "request", "listen", "look", "parked",
                              "join", "joining", "ok", "error"}]
  /\ notified \subseteq Closers
  /\ behind \subseteq Calls

\* Between the publication of a command and its finish_command.
AtCommand == {"recheck", "execute", "finish", "skip"}

\* finish_command finds nothing, its own command or a guard that holds it, so
\* its panic ("sqlite worker active command changed") is never reached.
FinishFindsOwn ==
  worker \in {"finish", "skip"} => active \in {0, command, Canceling}

\* sqlite3_interrupt is called for the command the worker is at and on an open
\* connection, however long the guard is delayed after its compare-exchange ("a
\* delayed interrupt can never target the following command").  A panic, which
\* leaves the pointer behind, is the exception.
InterruptsOwn ==
  \A c \in Calls :
    pc[c] = "interrupt" =>
      /\ command = c
      /\ \/ worker \in AtCommand /\ open
         \/ worker = "panicked" \/ state = "dead"

\* No cancellation is lost in the two looks of begin_command: when the guard of
\* a call has been dropped, the worker executes its command only if
\* sqlite3_interrupt was called for it, or if the guard looked while the store
\* that publishes the command was still buffered.
CancelReaches ==
  worker = "execute" /\ command # 0 /\ pc[command] = "dropped" =>
    command \in interrupted \cup missed

\* A command that is queued when close is called never starts, also when the
\* worker takes it before it sees the request ("shutdown cannot be delayed by
\* commands already sitting behind the active call").
BehindNeverStarts == worker = "execute" => command \notin behind

\* Every call of exec or execute returns, also one that enqueues between the
\* worker's last drain and the end of its receivers.
CallsReturn ==
  \A c \in Calls : pc[c] # "idle" ~> pc[c] \in {"dropped", "returned"}

\* Every close returns without the help of its timeout: no notification is
\* missed, and a full queue does not keep the request out.
ClosesReturn ==
  \A k \in Closers : closers[k] # "idle" ~> closers[k] \in {"ok", "error"}
=============================================================================
