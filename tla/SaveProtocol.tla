---------------------------- MODULE SaveProtocol ----------------------------
(***************************************************************************)
(* How one actor generation saves its state: the callers of                *)
(* ActorSession.Save, the poll goroutine that receives StatePersisted, the *)
(* actor worker that closes the session, and the native side that runs the *)
(* save and settles the stop (internal/pump/pump.go and                    *)
(* crates/rivetkit-go-ffi/src/actor_proxy.rs).                             *)
(*                                                                         *)
(* Saves are numbered by the order in which they install their result      *)
(* channel; 0 stands for nil.  StatePersisted carries no number in the     *)
(* code: the "save" field of an acknowledgement is what the wire does not  *)
(* say, and what the properties are about.                                 *)
(***************************************************************************)
EXTENDS Naturals, Sequences

CONSTANTS
  Callers,      \* goroutines that may call Save: handlers, Run, user goroutines
  NoCaller,     \* saveMu is free
  MaxSaves,     \* bound: saves that reach the session's result slot
  MaxAbandons,  \* bound: saves whose caller stops waiting
  MaxSQLite,    \* bound: concurrent SQLite operations of the session
  MayPanic      \* whether a handler of this actor may panic

ASSUME SaveAssumption ==
  /\ NoCaller \notin Callers
  /\ MaxSaves \in Nat
  /\ MaxAbandons \in Nat
  /\ MaxSQLite \in Nat
  /\ MayPanic \in BOOLEAN

Saves == 1 .. MaxSaves
Acks == [save : Saves, ok : BOOLEAN]
NoAck == [save |-> 0, ok |-> FALSE]
SaveState(n) == [kind |-> "SaveState", save |-> n]
ActorStopResult == [kind |-> "ActorStopResult", save |-> 0]
PanicResult == [kind |-> "PanicResult", save |-> 0]
Commands == [kind : {"SaveState", "ActorStopResult", "PanicResult"},
             save : 0 .. MaxSaves]

VARIABLES
  \* ActorSession
  saveMu,        \* the caller that holds saveMu
  pc,            \* where each caller is in Save
  saves,         \* number of the newest save that installed its channel
  saveResult,    \* the save whose channel is installed, or 0
  results,       \* content of each save's one-slot channel
  savePoisoned,
  accepting,
  done,          \* s.done is closed
  activeSaves,
  activeSQLite,
  abandons,      \* counts what MaxAbandons bounds
  lastOk,        \* history: newest save if it returned success, else 0
  \* Pump
  registered,    \* the worker is in p.actors
  lateSave,      \* the identity is in p.lateSaves
  workerErrors,  \* p.workerErrors is not empty
  poller,        \* where the poll goroutine is
  ack,           \* the StatePersisted event it is handling
  fatal,         \* why the poll goroutine ended
  worker,        \* where the actor worker is
  \* native runner
  commands,      \* command queue, in submission order
  events,        \* StatePersisted events not polled yet
  live,          \* the generation is in ActorProxy.actors
  asked,         \* RunGracefulCleanup has emitted ActorStop
  ending,        \* a panic result tells run_actor_inner to return
  stopping,      \* ActorOperationState.stopping
  inFlight,      \* saves that hold an ActorOperationGuard
  saving,        \* saves that core has not settled
  stop,          \* the task that waits for idle and resolves the stop
  woken,         \* its Notified future has been notified
  persisted      \* the save whose snapshot is in storage

callVars == <<saveMu, pc, activeSaves>>
slotVars == <<saves, saveResult, results, savePoisoned, lastOk>>
gateVars == <<accepting, done, activeSQLite>>
pollVars == <<poller, ack, fatal>>
workVars == <<registered, worker, workerErrors>>
opVars == <<stopping, inFlight, saving, stop, woken>>
actorVars == <<live, asked, ending>>
nativeVars == <<commands, events, opVars, actorVars, persisted>>
vars == <<callVars, slotVars, gateVars, abandons, lateSave, pollVars, workVars,
          nativeVars>>

Init ==
  /\ saveMu = NoCaller
  /\ pc = [c \in Callers |-> "idle"]
  /\ saves = 0
  /\ saveResult = 0
  /\ results = [n \in Saves |-> NoAck]
  /\ savePoisoned = FALSE
  /\ accepting = TRUE
  /\ done = FALSE
  /\ activeSaves = 0
  /\ activeSQLite = 0
  /\ abandons = 0
  /\ lastOk = 0
  /\ registered = TRUE
  /\ lateSave = FALSE
  /\ workerErrors = FALSE
  /\ poller = "polling"
  /\ ack = NoAck
  /\ fatal = "none"
  /\ worker = "running"
  /\ commands = << >>
  /\ events = << >>
  /\ live = TRUE
  /\ asked = FALSE
  /\ ending = FALSE
  /\ stopping = FALSE
  /\ inFlight = {}
  /\ saving = {}
  /\ stop = "none"
  /\ woken = FALSE
  /\ persisted = 0

-----------------------------------------------------------------------------
(* Save, by the caller that holds saveMu *)

\* saveMu.Lock and an accepted beginSave.  A rejected one changes nothing.
SaveBegin(c) ==
  /\ pc[c] = "idle"
  /\ saveMu = NoCaller
  /\ saves < MaxSaves
  /\ accepting
  /\ saveMu' = c
  /\ activeSaves' = activeSaves + 1
  /\ pc' = [pc EXCEPT ![c] = "begun"]
  /\ UNCHANGED <<slotVars, gateVars, abandons, lateSave, pollVars, workVars,
                 nativeVars>>

\* Mutant: the poison of an abandoned save is not looked at.
SaveArmIgnoringPoison(c) ==
  /\ pc[c] = "begun"
  /\ saveResult = 0
  /\ saves' = saves + 1
  /\ saveResult' = saves + 1
  /\ lastOk' = 0
  /\ pc' = [pc EXCEPT ![c] = "armed"]
  /\ UNCHANGED <<saveMu, activeSaves, results, savePoisoned, gateVars, abandons,
                 lateSave, pollVars, workVars, nativeVars>>

\* The section under saveStateMu that installs the result channel.
SaveArm(c) ==
  /\ pc[c] = "begun"
  /\ ~savePoisoned
  /\ saveResult = 0
  /\ saves' = saves + 1
  /\ saveResult' = saves + 1
  /\ lastOk' = 0
  /\ pc' = [pc EXCEPT ![c] = "armed"]
  /\ UNCHANGED <<saveMu, activeSaves, results, savePoisoned, gateVars, abandons,
                 lateSave, pollVars, workVars, nativeVars>>

\* Mutant: an early return releases the reservation by hand, too.
SaveRefuseTwice(c) ==
  /\ pc[c] = "begun"
  /\ activeSaves' = activeSaves - 1
  /\ pc' = [pc EXCEPT ![c] = "returning"]
  /\ UNCHANGED <<saveMu, slotVars, gateVars, abandons, lateSave,
                 pollVars, workVars, nativeVars>>

\* Mutant: an early return skips the deferred finishSave.
SaveRefuseLeaks(c) ==
  /\ pc[c] = "begun"
  /\ pc' = [pc EXCEPT ![c] = "idle"]
  /\ saveMu' = NoCaller
  /\ UNCHANGED <<activeSaves, slotVars, gateVars, abandons, lateSave,
                 pollVars, workVars, nativeVars>>

\* Mutant: a poisoned session makes Save wait instead of fail.
SaveRefuseWaits(c) ==
  /\ pc[c] = "begun"
  /\ ~savePoisoned
  /\ pc' = [pc EXCEPT ![c] = "returning"]
  /\ UNCHANGED <<saveMu, activeSaves, slotVars, gateVars, abandons, lateSave,
                 pollVars, workVars, nativeVars>>

\* Early returns: cancelled context, unresolved earlier save, pending save.
SaveRefuse(c) ==
  /\ pc[c] = "begun"
  /\ pc' = [pc EXCEPT ![c] = "returning"]
  /\ UNCHANGED <<saveMu, activeSaves, slotVars, gateVars, abandons, lateSave,
                 pollVars, workVars, nativeVars>>

SaveSubmit(c) ==
  /\ pc[c] = "armed"
  /\ commands' = Append(commands, SaveState(saves))
  /\ pc' = [pc EXCEPT ![c] = "waiting"]
  /\ UNCHANGED <<saveMu, activeSaves, slotVars, gateVars, abandons, lateSave,
                 pollVars, workVars, events, opVars, actorVars, persisted>>

\* Mutant: clearSaveResult is missing.
SaveSubmitFailsKeepsSlot(c) ==
  /\ pc[c] = "armed"
  /\ pc' = [pc EXCEPT ![c] = "returning"]
  /\ UNCHANGED <<saveMu, activeSaves, slotVars,
                 gateVars, abandons, lateSave, pollVars, workVars, nativeVars>>

\* submitInternal fails (backpressure, runner stopped): clearSaveResult.
SaveSubmitFails(c) ==
  /\ pc[c] = "armed"
  /\ saveResult' = IF saveResult = saves THEN 0 ELSE saveResult
  /\ pc' = [pc EXCEPT ![c] = "returning"]
  /\ UNCHANGED <<saveMu, activeSaves, saves, results, savePoisoned, lastOk,
                 gateVars, abandons, lateSave, pollVars, workVars, nativeVars>>

SaveResult(c) ==
  /\ pc[c] = "waiting"
  /\ results[saves] # NoAck
  /\ lastOk' = IF results[saves].ok THEN saves ELSE 0
  /\ pc' = [pc EXCEPT ![c] = "returning"]
  /\ UNCHANGED <<saveMu, activeSaves, saves, saveResult, results, savePoisoned,
                 gateVars, abandons, lateSave, pollVars, workVars, nativeVars>>

\* Mutant: markLateSave is missing.
SaveAbandonUnmarked(c) ==
  /\ pc[c] = "waiting"
  /\ abandons < MaxAbandons
  /\ abandons' = abandons + 1
  /\ saveResult' = IF saveResult = saves THEN 0 ELSE saveResult
  /\ savePoisoned' = (savePoisoned \/ saveResult = saves)
  /\ UNCHANGED lateSave
  /\ pc' = [pc EXCEPT ![c] = "returning"]
  /\ UNCHANGED <<saveMu, activeSaves, saves, results, lastOk, gateVars,
                 pollVars, workVars, nativeVars>>

\* The context or the 35 s timer fires: abandonSave.
SaveAbandon(c) ==
  /\ pc[c] = "waiting"
  /\ abandons < MaxAbandons
  /\ abandons' = abandons + 1
  /\ saveResult' = IF saveResult = saves THEN 0 ELSE saveResult
  /\ savePoisoned' = (savePoisoned \/ saveResult = saves)
  /\ lateSave' = (lateSave \/ saveResult = saves)
  /\ pc' = [pc EXCEPT ![c] = "returning"]
  /\ UNCHANGED <<saveMu, activeSaves, saves, results, lastOk, gateVars,
                 pollVars, workVars, nativeVars>>

\* The session's done channel wakes the caller; nothing is marked late.
SaveInterrupted(c) ==
  /\ pc[c] = "waiting"
  /\ done
  /\ pc' = [pc EXCEPT ![c] = "returning"]
  /\ UNCHANGED <<saveMu, activeSaves, slotVars, gateVars, abandons, lateSave,
                 pollVars, workVars, nativeVars>>

\* The deferred finishSave and saveMu.Unlock.
SaveReturn(c) ==
  /\ pc[c] = "returning"
  /\ activeSaves' = activeSaves - 1
  /\ saveMu' = NoCaller
  /\ pc' = [pc EXCEPT ![c] = "idle"]
  /\ UNCHANGED <<slotVars, gateVars, abandons, lateSave, pollVars, workVars,
                 nativeVars>>

\* SQLite calls share the fence that closes the session.
SQLiteBegin ==
  /\ accepting
  /\ activeSQLite < MaxSQLite
  /\ activeSQLite' = activeSQLite + 1
  /\ UNCHANGED <<callVars, slotVars, accepting, done, abandons, lateSave,
                 pollVars, workVars, nativeVars>>

SQLiteFinish ==
  /\ activeSQLite > 0
  /\ activeSQLite' = activeSQLite - 1
  /\ UNCHANGED <<callVars, slotVars, accepting, done, abandons, lateSave,
                 pollVars, workVars, nativeVars>>

-----------------------------------------------------------------------------
(* The poll goroutine: handleInternalEvent on StatePersisted *)

PollerFails(code) ==
  /\ fatal' = code
  /\ poller' = "exiting"

PollerDone ==
  /\ poller' = "polling"
  /\ fatal' = fatal

\* Takes the event and looks the worker up in p.actors.
PollAck ==
  /\ poller = "polling"
  /\ events # << >>
  /\ ack' = Head(events)
  /\ events' = Tail(events)
  /\ poller' = IF registered THEN "complete" ELSE "orphan"
  /\ UNCHANGED <<callVars, slotVars, gateVars, abandons, lateSave, fatal,
                 workVars, commands, opVars, actorVars, persisted>>

\* consumeLateSave for a worker that is gone.
PollOrphan ==
  /\ poller = "orphan"
  /\ lateSave' = FALSE
  /\ IF lateSave THEN PollerDone ELSE PollerFails("unknown_actor")
  /\ UNCHANGED <<callVars, slotVars, gateVars, abandons, ack, workVars,
                 nativeVars>>

\* completeSave: the event settles whatever channel is installed.
PollComplete ==
  /\ poller = "complete"
  /\ IF saveResult # 0
       THEN /\ results' = [results EXCEPT ![saveResult] = ack]
            /\ saveResult' = 0
            /\ poller' = "polling"
       ELSE /\ poller' = "abandoned"
            /\ UNCHANGED <<results, saveResult>>
  /\ UNCHANGED <<callVars, saves, savePoisoned, lastOk, gateVars, abandons,
                 lateSave, ack, fatal, workVars, nativeVars>>

\* completeAbandonedSave up to the unlock of saveStateMu ...
PollAbandoned ==
  /\ poller = "abandoned"
  /\ savePoisoned' = FALSE
  /\ poller' = IF savePoisoned THEN "consume" ELSE "unclaimed"
  /\ UNCHANGED <<callVars, saves, saveResult, results, lastOk, gateVars,
                 abandons, lateSave, ack, fatal, workVars, nativeVars>>

\* ... and its consumeLateSave, under a different mutex.
PollConsume ==
  /\ poller = "consume"
  /\ lateSave' = FALSE
  /\ poller' = IF lateSave THEN "polling" ELSE "unclaimed"
  /\ UNCHANGED <<callVars, slotVars, gateVars, abandons, ack, fatal, workVars,
                 nativeVars>>

\* The last consumeLateSave before the event is a protocol error.
PollUnclaimed ==
  /\ poller = "unclaimed"
  /\ lateSave' = FALSE
  /\ IF lateSave THEN PollerDone ELSE PollerFails("no_pending_save")
  /\ UNCHANGED <<callVars, slotVars, gateVars, abandons, ack, workVars,
                 nativeVars>>

\* pollLoop returns: an error of this actor's worker, or anything that has
\* nothing to do with it (RunnerStopped, a failed poll, another actor).
PollLoopReturns ==
  /\ poller = "polling"
  /\ \/ workerErrors /\ workerErrors' = FALSE /\ PollerFails("worker")
     \/ UNCHANGED workerErrors /\ PollerFails("stopped")
  /\ UNCHANGED <<callVars, slotVars, gateVars, abandons, lateSave, ack,
                 registered, worker, nativeVars>>

\* The deferred cancelActorWorkers: cancel and abort every registered worker.
PumpExit ==
  /\ poller = "exiting"
  /\ poller' = "exited"
  /\ accepting' = (accepting /\ ~registered)
  /\ done' = (done \/ registered)
  /\ UNCHANGED <<callVars, slotVars, activeSQLite, abandons, lateSave, ack,
                 fatal, workVars, nativeVars>>

-----------------------------------------------------------------------------
(* The actor worker: the ends of actorWorker.run *)

\* ActorStop: closeGracefully refuses new work ...
WorkerStop ==
  /\ worker = "running"
  /\ asked
  /\ accepting' = FALSE
  /\ worker' = "closing"
  /\ UNCHANGED <<callVars, slotVars, done, activeSQLite, abandons, lateSave,
                 pollVars, registered, workerErrors, nativeVars>>

\* Mutant: closeGracefully does not wait for saves.
WorkerClosedEarly ==
  /\ worker = "closing"
  /\ activeSQLite = 0
  /\ done' = TRUE
  /\ worker' = "closed"
  /\ UNCHANGED <<callVars, slotVars, accepting, activeSQLite, abandons,
                 lateSave, pollVars, registered, workerErrors, nativeVars>>

\* ... and waits for the work it accepted before it closes done.
WorkerClosed ==
  /\ worker = "closing"
  /\ activeSaves = 0
  /\ activeSQLite = 0
  /\ done' = TRUE
  /\ worker' = "closed"
  /\ UNCHANGED <<callVars, slotVars, accepting, activeSQLite, abandons,
                 lateSave, pollVars, registered, workerErrors, nativeVars>>

\* ActorStopResult is submitted, or its submission fails the pump.
WorkerStopResult ==
  /\ worker = "closed"
  /\ worker' = "aborting"
  /\ \/ /\ commands' = Append(commands, ActorStopResult)
        /\ UNCHANGED workerErrors
     \/ /\ workerErrors' = TRUE
        /\ UNCHANGED commands
  /\ UNCHANGED <<callVars, slotVars, gateVars, abandons, lateSave, pollVars,
                 registered, events, opVars, actorVars, persisted>>

\* A handler panic or a failed start is reported to the native side and ends
\* the worker without closeGracefully.
WorkerPanic ==
  /\ MayPanic
  /\ worker = "running"
  /\ commands' = Append(commands, PanicResult)
  /\ worker' = "aborting"
  /\ UNCHANGED <<callVars, slotVars, gateVars, abandons, lateSave, pollVars,
                 registered, workerErrors, events, opVars, actorVars, persisted>>

\* The result of a handler cannot be submitted: the worker ends and asks the
\* poll goroutine to end the pump.
WorkerSubmitFails ==
  /\ worker = "running"
  /\ worker' = "aborting"
  /\ workerErrors' = TRUE
  /\ UNCHANGED <<callVars, slotVars, gateVars, abandons, lateSave, pollVars,
                 registered, nativeVars>>

\* The pump cancelled the worker's context.
WorkerCancelled ==
  /\ worker = "running"
  /\ poller = "exited"
  /\ worker' = "aborting"
  /\ UNCHANGED <<callVars, slotVars, gateVars, abandons, lateSave, pollVars,
                 registered, workerErrors, nativeVars>>

\* Deferred session.abort: wakes pending operations first ...
WorkerAbort ==
  /\ worker = "aborting"
  /\ accepting' = FALSE
  /\ done' = TRUE
  /\ worker' = "aborted"
  /\ UNCHANGED <<callVars, slotVars, activeSQLite, abandons, lateSave, pollVars,
                 registered, workerErrors, nativeVars>>

\* ... then waits for them; deferred removeActor follows.
WorkerRemove ==
  /\ worker = "aborted"
  /\ activeSaves = 0
  /\ activeSQLite = 0
  /\ registered' = FALSE
  /\ worker' = "gone"
  /\ UNCHANGED <<callVars, slotVars, gateVars, abandons, lateSave, pollVars,
                 workerErrors, nativeVars>>

-----------------------------------------------------------------------------
(* The native side: ActorProxy.handle_command and the tasks it spawns *)

\* dispatch_save_state: a guard for a live, unstopped generation; otherwise an
\* immediate acknowledgement with an error.
DispatchSave ==
  /\ commands # << >>
  /\ Head(commands).kind = "SaveState"
  /\ commands' = Tail(commands)
  /\ LET n == Head(commands).save
     IN  IF live /\ ~stopping
           THEN /\ inFlight' = inFlight \cup {n}
                /\ saving' = saving \cup {n}
                /\ UNCHANGED events
           ELSE /\ events' = Append(events, [save |-> n, ok |-> FALSE])
                /\ UNCHANGED <<inFlight, saving>>
  /\ UNCHANGED <<callVars, slotVars, gateVars, abandons, lateSave, pollVars,
                 workVars, stopping, stop, woken, actorVars, persisted>>

\* ActorStopResult: begin_stop and the task that waits for idle.  Without the
\* actor there is nobody left to resolve.
DispatchStop ==
  /\ commands # << >>
  /\ Head(commands).kind = "ActorStopResult"
  /\ commands' = Tail(commands)
  /\ stopping' = (stopping \/ live)
  /\ stop' = IF live THEN "spawned" ELSE "late"
  /\ UNCHANGED <<callVars, slotVars, gateVars, abandons, lateSave, pollVars,
                 workVars, events, inFlight, saving, woken, actorVars, persisted>>

\* The failed result reaches run_actor_inner, which returns its error.
DispatchPanic ==
  /\ commands # << >>
  /\ Head(commands).kind = "PanicResult"
  /\ commands' = Tail(commands)
  /\ ending' = TRUE
  /\ UNCHANGED <<callVars, slotVars, gateVars, abandons, lateSave, pollVars,
                 workVars, events, opVars, live, asked, persisted>>

\* save_state when core confirms the write.
SaveConfirmed(n) ==
  /\ n \in saving
  /\ persisted' = n
  /\ saving' = saving \ {n}
  /\ events' = Append(events, [save |-> n, ok |-> TRUE])
  /\ UNCHANGED <<callVars, slotVars, gateVars, abandons, lateSave, pollVars,
                 workVars, commands, stopping, inFlight, stop, woken, actorVars>>

\* save_state when core fails or the 30 s timeout drops the future: storage may
\* have taken the write all the same.
SaveUnconfirmed(n) ==
  /\ n \in saving
  /\ persisted' \in {persisted, n}
  /\ saving' = saving \ {n}
  /\ events' = Append(events, [save |-> n, ok |-> FALSE])
  /\ UNCHANGED <<callVars, slotVars, gateVars, abandons, lateSave, pollVars,
                 workVars, commands, stopping, inFlight, stop, woken, actorVars>>

\* Mutant: the last guard to go does not call notify_waiters.
GuardDropSilent(n) ==
  /\ n \in inFlight \ saving
  /\ inFlight' = inFlight \ {n}
  /\ UNCHANGED <<callVars, slotVars, gateVars, abandons, lateSave, pollVars,
                 workVars, commands, events, stopping, saving, stop, woken,
                 actorVars, persisted>>

\* Drop of the ActorOperationGuard: notify_waiters when the last one goes.
GuardDrop(n) ==
  /\ n \in inFlight \ saving
  /\ inFlight' = inFlight \ {n}
  /\ woken' = (woken \/ (inFlight = {n} /\ stop \in {"listening", "parked"}))
  /\ UNCHANGED <<callVars, slotVars, gateVars, abandons, lateSave, pollVars,
                 workVars, commands, events, stopping, saving, stop, actorVars,
                 persisted>>

\* wait_idle: create the Notified future ...
StopListen ==
  /\ stop = "spawned"
  /\ stop' = "listening"
  /\ woken' = FALSE
  /\ UNCHANGED <<callVars, slotVars, gateVars, abandons, lateSave, pollVars,
                 workVars, commands, events, stopping, inFlight, saving,
                 actorVars, persisted>>

\* Mutant: the stop is resolved with operations in flight.
StopCheckBusy ==
  /\ stop = "listening"
  /\ stop' = "resolved"
  /\ UNCHANGED <<callVars, slotVars, gateVars, abandons, lateSave, pollVars,
                 workVars, commands, events, stopping, inFlight, saving, woken,
                 actorVars, persisted>>

\* ... look at in_flight, and resolve the stop or await the future.
StopCheck ==
  /\ stop = "listening"
  /\ stop' = IF inFlight = {} THEN "resolved" ELSE "parked"
  /\ UNCHANGED <<callVars, slotVars, gateVars, abandons, lateSave, pollVars,
                 workVars, commands, events, stopping, inFlight, saving, woken,
                 actorVars, persisted>>

StopWake ==
  /\ stop = "parked"
  /\ woken
  /\ stop' = "spawned"
  /\ UNCHANGED <<callVars, slotVars, gateVars, abandons, lateSave, pollVars,
                 workVars, commands, events, stopping, inFlight, saving, woken,
                 actorVars, persisted>>

\* RunGracefulCleanup: ActorStop is emitted and reaches the worker's mailbox.
ActorStopRequested ==
  /\ live
  /\ ~ending
  /\ ~asked
  /\ asked' = TRUE
  /\ UNCHANGED <<callVars, slotVars, gateVars, abandons, lateSave, pollVars,
                 workVars, commands, events, opVars, live, ending, persisted>>

\* run_actor removes the generation: the stop is resolved, core's shutdown
\* deadline cut it short, or a handler panicked.
ActorEnds ==
  /\ live
  /\ ending \/ asked
  /\ live' = FALSE
  /\ UNCHANGED <<callVars, slotVars, gateVars, abandons, lateSave, pollVars,
                 workVars, commands, events, opVars, asked, ending, persisted>>

-----------------------------------------------------------------------------
\* Everything has ended and nothing is in transit.
Finished ==
  /\ worker = "gone"
  /\ commands = << >>
  /\ inFlight = {}
  /\ events = << >> \/ poller = "exited"
  /\ UNCHANGED vars

Caller(c) ==
  \/ SaveArm(c) \/ SaveRefuse(c) \/ SaveSubmit(c) \/ SaveSubmitFails(c)
  \/ SaveResult(c) \/ SaveAbandon(c) \/ SaveInterrupted(c) \/ SaveReturn(c)

Poller ==
  \/ PollAck \/ PollOrphan \/ PollComplete \/ PollAbandoned \/ PollConsume
  \/ PollUnclaimed \/ PollLoopReturns \/ PumpExit

WorkerEnd ==
  \/ WorkerStop \/ WorkerClosed \/ WorkerStopResult \/ WorkerCancelled
  \/ WorkerAbort \/ WorkerRemove

SaveTask(n) == SaveConfirmed(n) \/ SaveUnconfirmed(n) \/ GuardDrop(n)

Dispatch == DispatchSave \/ DispatchStop \/ DispatchPanic

StopTask == StopListen \/ StopCheck \/ StopWake

Next ==
  \/ \E c \in Callers : SaveBegin(c) \/ Caller(c)
  \/ SQLiteBegin
  \/ SQLiteFinish
  \/ Poller
  \/ WorkerEnd
  \/ WorkerPanic
  \/ WorkerSubmitFails
  \/ Dispatch
  \/ \E n \in Saves : SaveTask(n)
  \/ StopTask
  \/ ActorStopRequested
  \/ ActorEnds
  \/ Finished

Spec == Init /\ [][Next]_vars

\* Goroutines and tasks that can run do run; core settles every save (it is
\* bounded by SAVE_STATE_TIMEOUT) and SQLite calls return.  Nothing forces a
\* call to Save, an abandonment, a panic, a failed submission, a stop or the
\* shutdown deadline.
Fairness ==
  /\ \A c \in Callers : WF_vars(Caller(c))
  /\ WF_vars(SQLiteFinish)
  /\ WF_vars(Poller)
  /\ WF_vars(WorkerEnd)
  /\ WF_vars(Dispatch)
  /\ \A n \in Saves : WF_vars(SaveTask(n))
  /\ WF_vars(StopTask)

FairSpec == Spec /\ Fairness

-----------------------------------------------------------------------------
(* Properties *)

\* Every variable of the session, the pump and the native side keeps its type.
TypeOK ==
  /\ saveMu \in Callers \cup {NoCaller}
  /\ pc \in [Callers -> {"idle", "begun", "armed", "waiting", "returning"}]
  /\ saves \in 0 .. MaxSaves
  /\ saveResult \in 0 .. MaxSaves
  /\ results \in [Saves -> Acks \cup {NoAck}]
  /\ savePoisoned \in BOOLEAN
  /\ accepting \in BOOLEAN
  /\ done \in BOOLEAN
  /\ activeSaves \in Nat
  /\ activeSQLite \in 0 .. MaxSQLite
  /\ abandons \in 0 .. MaxAbandons
  /\ lastOk \in 0 .. MaxSaves
  /\ registered \in BOOLEAN
  /\ lateSave \in BOOLEAN
  /\ workerErrors \in BOOLEAN
  /\ poller \in {"polling", "orphan", "complete", "abandoned", "consume",
                 "unclaimed", "exiting", "exited"}
  /\ ack \in Acks \cup {NoAck}
  /\ fatal \in {"none", "unknown_actor", "no_pending_save", "worker",
               "stopped"}
  /\ worker \in {"running", "closing", "closed", "aborting", "aborted", "gone"}
  /\ commands \in Seq(Commands)
  /\ events \in Seq(Acks)
  /\ live \in BOOLEAN
  /\ asked \in BOOLEAN
  /\ ending \in BOOLEAN
  /\ stopping \in BOOLEAN
  /\ inFlight \in SUBSET Saves
  /\ saving \in SUBSET Saves
  /\ stop \in {"none", "spawned", "listening", "parked", "resolved", "late"}
  /\ woken \in BOOLEAN
  /\ persisted \in 0 .. MaxSaves

\* StatePersisted does not say which save it acknowledges; the slot and the
\* poison flag of the session still hand every acknowledgement to its own save
\* (Save's comment: it "cannot be mistaken for a later save").
AckMatchesSave == \A n \in Saves : results[n] # NoAck => results[n].save = n

\* A save that passed beginSave finds the result slot free: the "already
\* pending" branch of Save is unreachable, whatever interrupted the last save.
SlotFree == \A c \in Callers : pc[c] = "begun" => saveResult = 0

\* The session is fenced before the stop is acknowledged: nothing is submitted
\* after ActorStopResult, no save or SQLite call is active, none is admitted.
StopIsLast ==
  (\E i \in 1 .. Len(commands) : commands[i] = ActorStopResult) =>
     /\ commands[Len(commands)] = ActorStopResult
     /\ activeSaves = 0 /\ activeSQLite = 0 /\ ~accepting

\* The state of the generation behaves as a StateCell: an older snapshot never
\* overwrites a newer one, a save that returned success is what storage holds
\* until the next save is issued, and storage is frozen once the stop is
\* resolved (save_state, ActorOperations and Save together).
Cell == INSTANCE StateCell WITH
  issued <- saves, durable <- persisted, lastOk <- lastOk,
  sealed <- stop = "resolved"
ImplementsStateCell == Cell!Spec

\* No acknowledgement of a save is a protocol error that ends a pump no worker
\* has already failed: the late-save mark covers every save whose caller
\* stopped waiting (handleInternalEvent on StatePersisted).
AcksNeverFatal ==
  fatal \in {"unknown_actor", "no_pending_save"} => workerErrors

\* Every call of Save returns.
SaveReturns == \A c \in Callers : pc[c] # "idle" ~> pc[c] = "idle"

\* A worker that begins to stop leaves the actor table.
StopCompletes == worker = "closing" ~> worker = "gone"

\* A stop acknowledged by Go for a live generation is resolved natively: the
\* wait for idle misses no wake-up of the last operation guard.
StopResolves == stop = "spawned" ~> stop = "resolved"
=============================================================================
