--------------------------- MODULE PumpOperations ---------------------------
(***************************************************************************)
(* The calls an actor makes through its session (internal/pump/pump.go):   *)
(* intents and schedules, waits on the durable queue, key-value calls,     *)
(* SQLite calls and sends.  They share the submission queue and its        *)
(* goroutine, the native runner, the poll goroutine with its tables of     *)
(* waiters, and the order in which the pump ends.                          *)
(*                                                                         *)
(* An event carries, besides its id, the call it answers: the wire does    *)
(* not say it, and OwnResult is about it.  The counters of the intent and  *)
(* SQLite tables are 64 bits wide; here they give any free id that no      *)
(* running call has, so that ids return as after the counter wrapped.      *)
(* The key-value table keeps no tombstones and its counter is taken not    *)
(* to wrap.                                                                *)
(***************************************************************************)
EXTENDS Naturals, Sequences, FiniteSets

CONSTANTS
  Calls,        \* calls through the session, each made at most once
  Strays,       \* those made by goroutines the worker does not wait for
  Worker,       \* the actor's worker, which submits ActorStopResult
  NoCall,       \* a nil channel in a table of waiters
  Kinds,        \* the methods the calls may be, as functions on Calls
  ReadOnly,     \* calls whose statement DefinitelyReadOnly accepts
  Ids,          \* ids of the tables; 0 is skipped by the code
  QueueSize,    \* capacity of submitQueue
  MaxBatch,     \* maxSubmitBatch
  ResultSize,   \* capacity of a SQLite result channel
  MaxChunks,    \* bound: chunks of one SQLite answer
  MaxBusy       \* bound: batches the native queue refuses

(* The methods of ActorSession, by what they submit through.  Each builds   *)
(* one command, and turns the event it gets into its result or an error.   *)
ScheduleOps == {"SetAlarm", "ScheduleAfter", "ScheduleAt", "CancelSchedule",
                "GetSchedule", "ListSchedules"}
QueueOps == {"QueueSend", "QueueEnqueueWait", "QueueNext", "QueueComplete", "QueueRetry"}
StopOps == {"Sleep", "Destroy"}
KVOps == {"KVGet", "KVList", "KVPut", "KVDelete"}
SQLiteOps == {"SQLiteExec", "SQLiteQuery", "SQLiteBegin", "SQLiteCommit", "SQLiteRollback"}
WebSocketOps == {"SendWebSocket", "CloseWebSocket", "Broadcast"}
HTTPOps == {"StartHTTPResponse", "WriteHTTPResponseChunk"}

\* submitActorOperation's: acknowledged by an ActorIntentResult.
Operations == ScheduleOps \cup QueueOps \cup StopOps \cup {"BeginManagedWork"}
\* Not acknowledged, and repeated while the native queue is full.
Sends == WebSocketOps \cup HTTPOps \cup {"EndManagedWork"}
AllKinds == Operations \cup KVOps \cup SQLiteOps \cup Sends
\* Their answer may have rows, and so several chunks.
Statements == {"SQLiteExec", "SQLiteQuery"}
QueueWaits == {"QueueNext", "QueueEnqueueWait"}
\* Submitted with the background context, and without an argument to refuse.
Background == {"SetAlarm", "EndManagedWork"} \cup StopOps
\* Do not ask whether the session accepts calls.
Unchecked == Sends \ {"Broadcast"}
Tables == {"intent", "kv", "sqlite"}

ASSUME PumpAssumption ==
  /\ Strays \subseteq Calls /\ ReadOnly \subseteq Calls
  /\ Worker \notin Calls /\ NoCall \notin Calls \cup {Worker}
  /\ Kinds \subseteq [Calls -> AllKinds] /\ Kinds # {}
  /\ Ids \subseteq Nat \ {0} /\ Ids # {}
  /\ {QueueSize, MaxBatch, ResultSize, MaxChunks} \subseteq Nat \ {0}
  /\ MaxBusy \in Nat

VARIABLES
  kind,      \* the kind of each call
  pc,        \* where each call is
  id,        \* the id a call was given, 0 before
  chan,      \* result channel of a call
  gaveUp,    \* calls that returned because their submission failed
  pending,   \* the tables: what each id has, a call, a tombstone or nothing
  queue,     \* submitQueue
  reply,     \* result channel of a request: what submitLoop answered
  loop,      \* submitLoop: "idle", "submit", "exited"
  batch,     \* the requests it is submitting
  busy,      \* counts what MaxBusy bounds
  native,    \* operations core has accepted and not answered
  events,    \* events the native side has to be polled for
  runner,    \* native handle: "open", "closed"
  poller,    \* where the poll goroutine is
  event,     \* the event it is handling
  target,    \* the call whose channel it is sending to
  stopMail,  \* ActorStop is in the worker's mailbox
  worker,    \* "running", "closing", "offer", "waiting", "leaving", "gone"
  session,   \* "open", "closing", "done"
  workerErrors, stopSub, done,
  shutdown   \* Run's context and shutdownRequested: "no", "cancelled", "requested"

queueVars == <<queue, reply>>
loopVars == <<loop, batch, busy>>
nativeVars == <<native, events, runner>>
pollVars == <<poller, event, target>>
workVars == <<stopMail, worker, session, workerErrors>>
stopVars == <<stopSub, done, shutdown>>
\* What no call changes, and what only calls and the tables are.
pumpVars == <<kind, loopVars, nativeVars, pollVars, workVars, stopVars>>
callVars == <<kind, pc, id, chan, gaveUp, pending>>
vars == <<callVars, queueVars, loopVars, nativeVars, pollVars, workVars, stopVars>>

Requesters == Calls \cup {Worker}
Free == [call |-> NoCall, dead |-> FALSE]
Tombstone == [call |-> NoCall, dead |-> TRUE]
Waiter(c) == [call |-> c, dead |-> FALSE]
Request(c, what) == [from |-> c, what |-> what]
Requests == [from : Requesters, what : {"op", "QueueCancel", "ActorStopResult"}]
Answer(x, last) == [name |-> "Result", call |-> x.call, id |-> x.id, last |-> last]
Signal(name) == [name |-> name, call |-> NoCall, id |-> 0, last |-> TRUE]
Results == [name : {"Result"}, call : Calls, id : Ids, last : BOOLEAN]
Events == Results \cup {Signal("ActorStop"), Signal("RunnerStopped"), Signal("None")}

TableOf(c) == IF kind[c] \in Operations THEN "intent"
              ELSE IF kind[c] \in KVOps THEN "kv" ELSE "sqlite"
\* A statement that is not certainly read-only, and the transaction's calls.
MayWrite(c) ==
  kind[c] \in SQLiteOps /\ ~(kind[c] \in Statements /\ c \in ReadOnly)
Active(c) == pc[c] \notin {"idle", "returned"}
ActiveSQLite == {c \in Calls : kind[c] \in SQLiteOps /\ Active(c)}

Init ==
  /\ kind \in Kinds
  /\ pc = [c \in Calls |-> "idle"]
  /\ id = [c \in Calls |-> 0]
  /\ chan = [c \in Calls |-> <<>>]
  /\ gaveUp = {}
  /\ pending = [t \in Tables |-> [i \in Ids |-> Free]]
  /\ queue = <<>> /\ reply = [r \in Requesters |-> "none"]
  /\ loop = "idle" /\ batch = <<>> /\ busy = 0
  /\ native = {} /\ events = <<>> /\ runner = "open"
  /\ poller = "poll" /\ event = Signal("None") /\ target = NoCall
  /\ stopMail = FALSE /\ worker = "running" /\ session = "open"
  /\ workerErrors = FALSE
  /\ stopSub = FALSE /\ done = FALSE /\ shutdown = "no"

-----------------------------------------------------------------------------
(* The tables of waiters.                                                  *)

\* The counter skips 0 and the ids in the table.
AddWaiter(table, c, i) ==
  /\ pending[table][i] = Free
  /\ pending' = [pending EXCEPT ![table][i] = Waiter(c)]
  /\ id' = [id EXCEPT ![c] = i]

AddActorIntentWaiter(c) ==
  \E i \in Ids :
    /\ AddWaiter("intent", c, i)
    /\ \A d \in Calls : kind[d] \in Operations /\ Active(d) => id[d] # i

AddSQLiteWaiter(c) ==
  \E i \in Ids :
    /\ AddWaiter("sqlite", c, i)
    /\ \A d \in ActiveSQLite : id[d] # i

AddKVWaiter(c) ==
  \E i \in Ids :
    /\ AddWaiter("kv", c, i)
    /\ \A d \in Calls : kind[d] \in KVOps => id[d] # i

\* delete(table, id)
Removed(c) == [pending EXCEPT ![TableOf(c)][id[c]] = Free]

\* Mutated: an abandoned id is deleted.
AbandonedDeletes(c) == Removed(c)

\* A tombstone, if the id is still in the table.
Abandoned(c) ==
  IF pending[TableOf(c)][id[c]] = Free THEN pending
  ELSE [pending EXCEPT ![TableOf(c)][id[c]] = Tombstone]

Goto(c, place) == pc' = [pc EXCEPT ![c] = place]

-----------------------------------------------------------------------------
(* A call begins: submitActorOperation, kv, sqlite and the sends.          *)

MayCall(c, kinds) == pc[c] = "idle" /\ kind[c] \in kinds /\ (c \in Strays \/ worker = "running")
Accepted(c) == Goto(c, "offer") /\ UNCHANGED <<chan, gaveUp, queueVars, pumpVars>>

BeginOperation(c) ==
  /\ MayCall(c, Operations) /\ session = "open"
  /\ AddActorIntentWaiter(c)
  /\ Accepted(c)

BeginKV(c) ==
  /\ MayCall(c, KVOps) /\ session = "open"
  /\ AddKVWaiter(c)
  /\ Accepted(c)

\* beginSQLite: from here the call counts as active.
BeginSQLite(c) ==
  /\ MayCall(c, SQLiteOps) /\ session = "open"
  /\ AddSQLiteWaiter(c)
  /\ Accepted(c)

BeginSend(c) ==
  /\ MayCall(c, Sends)
  /\ kind[c] \in Unchecked \/ session = "open"
  /\ Accepted(c)
  /\ UNCHANGED <<pending, id>>

\* An argument is invalid, the context is already done, or the session does
\* not accept calls any more.
Refuse(c) ==
  /\ MayCall(c, AllKinds)
  /\ kind[c] \notin Background \/ (kind[c] \notin Unchecked /\ session # "open")
  /\ Goto(c, "returned")
  /\ UNCHANGED <<id, chan, gaveUp, pending, queueVars, pumpVars>>

-----------------------------------------------------------------------------
(* enqueueSubmit.                                                          *)

\* The first select of enqueueSubmit: the queue has room.
Enqueue(r, what) ==
  /\ Len(queue) < QueueSize
  /\ queue' = Append(queue, Request(r, what))
  /\ UNCHANGED reply

Offer(c) ==
  /\ pc[c] = "offer"
  /\ Enqueue(c, "op")
  /\ Goto(c, "waiting")
  /\ UNCHANGED <<id, chan, gaveUp, pending, pumpVars>>

\* submitInternal failed: the waiter is removed, without a tombstone.
Unsubmitted(c) ==
  /\ Goto(c, "returned")
  /\ gaveUp' = gaveUp \cup {c}
  /\ pending' = IF kind[c] \in Sends THEN pending ELSE Removed(c)
  /\ reply' = [reply EXCEPT ![c] = "none"]
  /\ UNCHANGED <<id, chan, queue, pumpVars>>

\* The context is done in one of the selects, or between two attempts of a
\* send.  A write is submitted WithoutCancel.
SubmitCancelled(c) ==
  /\ pc[c] \in {"offer", "waiting"}
  /\ kind[c] \notin Background /\ ~MayWrite(c)
  /\ Unsubmitted(c)

\* submitStop or p.done is closed.
SubmitInterrupted(c) ==
  /\ \/ pc[c] = "offer" /\ (stopSub \/ done)
     \/ pc[c] = "waiting" /\ done /\ reply[c] = "none"
  /\ Unsubmitted(c)

SubmitFailed(c) ==
  /\ pc[c] = "waiting"
  /\ reply[c] = "stopped" \/ (reply[c] = "busy" /\ kind[c] \notin Sends)
  /\ Unsubmitted(c)

Submitted(c) ==
  /\ pc[c] = "waiting" /\ reply[c] = "ok"
  /\ reply' = [reply EXCEPT ![c] = "none"]
  /\ Goto(c, IF kind[c] \in Sends THEN "returned" ELSE "await")
  /\ UNCHANGED <<id, chan, gaveUp, pending, queue, pumpVars>>

\* Backpressure: wait for the timer and try again, unless everything ends.
Backoff(c, kinds) ==
  /\ pc[c] = "waiting" /\ reply[c] = "busy" /\ kind[c] \in kinds
  /\ reply' = [reply EXCEPT ![c] = "none"]
  /\ Goto(c, "offer") \/ (Goto(c, "returned") /\ (session = "done" \/ done))
  /\ UNCHANGED <<id, chan, gaveUp, pending, queue, pumpVars>>

SubmitWebSocket(c) == Backoff(c, WebSocketOps)
SubmitHTTP(c) == Backoff(c, HTTPOps)
EndManagedWork(c) == Backoff(c, {"EndManagedWork"})

-----------------------------------------------------------------------------
(* Waiting for the answer.                                                 *)

\* An acknowledgement or a key-value result.
ReceiveResult(c) ==
  /\ pc[c] = "await" /\ kind[c] \notin SQLiteOps /\ chan[c] # <<>>
  /\ chan' = [chan EXCEPT ![c] = Tail(@)]
  /\ Goto(c, "returned")
  /\ UNCHANGED <<id, gaveUp, pending, queueVars, pumpVars>>

\* sqliteResponseAssembler.add: the last chunk completes the response, any
\* other may be rejected because of the limit of 32 MiB.
ReceiveChunk(c) ==
  /\ pc[c] = "await" /\ kind[c] \in SQLiteOps /\ chan[c] # <<>>
  /\ chan' = [chan EXCEPT ![c] = Tail(@)]
  /\ \/ Goto(c, "returned") /\ pending' = Abandoned(c)
     \/ ~Head(chan[c]).last /\ UNCHANGED <<pc, pending>>
  /\ UNCHANGED <<id, gaveUp, queueVars, pumpVars>>

StopWaiting(c) ==
  /\ pc[c] = "await"
  /\ Goto(c, "returned")
  /\ pending' = IF kind[c] \in KVOps THEN Removed(c) ELSE Abandoned(c)
  /\ UNCHANGED <<id, chan, gaveUp, queueVars, pumpVars>>

\* The context is done, or the 35 seconds of an operation are over.  A write
\* remembers that its context is done and waits on.
WaitCancelled(c) == ~MayWrite(c) /\ kind[c] \notin QueueWaits /\ StopWaiting(c)

\* The session's done channel or the pump's is closed.
WaitClosed(c) == (session = "done" \/ done) /\ StopWaiting(c)

-----------------------------------------------------------------------------
(* settleQueueCancellation: a cancelled wait on the queue asks core to     *)
(* cancel it and takes the answer that comes all the same.                 *)

CancelWait(c) ==
  /\ pc[c] = "await" /\ kind[c] \in QueueWaits
  /\ Goto(c, "cancelOffer")
  /\ UNCHANGED <<id, chan, gaveUp, pending, queueVars, pumpVars>>

OfferCancel(c) ==
  /\ pc[c] = "cancelOffer"
  /\ Enqueue(c, "QueueCancel")
  /\ Goto(c, "cancelWaiting")
  /\ UNCHANGED <<id, chan, gaveUp, pending, pumpVars>>

CancelSubmitted(c) ==
  /\ pc[c] = "cancelWaiting" /\ reply[c] = "ok"
  /\ reply' = [reply EXCEPT ![c] = "none"]
  /\ Goto(c, "settle")
  /\ UNCHANGED <<id, chan, gaveUp, pending, queue, pumpVars>>

\* The answer: a result to return or an error, after which abandon finds
\* nothing in the table.
Settled(c) ==
  /\ pc[c] = "settle" /\ chan[c] # <<>>
  /\ chan' = [chan EXCEPT ![c] = Tail(@)]
  /\ Goto(c, "returned")
  /\ pending' = Abandoned(c)
  /\ UNCHANGED <<id, gaveUp, queueVars, pumpVars>>

Unsettled(c) ==
  /\ Goto(c, "returned")
  /\ pending' = Abandoned(c)
  /\ reply' = [reply EXCEPT ![c] = "none"]
  /\ UNCHANGED <<id, chan, gaveUp, queue, pumpVars>>

\* QueueCancel was not submitted, or everything ends while it waits.
CancelFailed(c) ==
  /\ \/ pc[c] = "cancelOffer" /\ (stopSub \/ done)
     \/ /\ pc[c] = "cancelWaiting"
        /\ reply[c] \in {"busy", "stopped"} \/ (done /\ reply[c] = "none")
     \/ pc[c] = "settle" /\ (session = "done" \/ done)
  /\ Unsettled(c)

\* No answer came within intentTimeout.
SettleTimeout(c) == pc[c] = "settle" /\ Unsettled(c)

-----------------------------------------------------------------------------
(* submitLoop and the native side.                                         *)

\* Mutated: the batch is collected while it has at most maxSubmitBatch.
TakeBatchOneMore ==
  /\ loop = "idle" /\ queue # <<>>
  /\ LET n == IF Len(queue) <= MaxBatch THEN Len(queue) ELSE MaxBatch + 1 IN
     /\ batch' = SubSeq(queue, 1, n)
     /\ queue' = SubSeq(queue, n + 1, Len(queue))
  /\ loop' = "submit"
  /\ UNCHANGED <<callVars, reply, busy, nativeVars, pollVars, workVars, stopVars>>

TakeBatch ==
  /\ loop = "idle" /\ queue # <<>>
  /\ LET n == IF Len(queue) < MaxBatch THEN Len(queue) ELSE MaxBatch IN
     /\ batch' = SubSeq(queue, 1, n)
     /\ queue' = SubSeq(queue, n + 1, Len(queue))
  /\ loop' = "submit"
  /\ UNCHANGED <<callVars, reply, busy, nativeVars, pollVars, workVars, stopVars>>

\* Every request gets the result of its batch, on a channel of its own that
\* nobody reads once the caller has left.
Expects(r) == IF r = Worker THEN worker = "waiting" ELSE pc[r] \in {"waiting", "cancelWaiting"}
Replied(requests, result) ==
  [r \in Requesters |->
     IF Expects(r) /\ \E k \in 1 .. Len(requests) : requests[k].from = r
     THEN result ELSE reply[r]]

\* Once the poll goroutine has left its loop, no event is polled any more and
\* what core still does is not seen.
Polled == poller \in {"poll", "dispatch", "deliver"}

\* Core takes the operations of the batch, or has no room for it.
SubmitBatch ==
  /\ loop = "submit"
  /\ \/ /\ native' = native \cup {[call |-> c, id |-> id[c]] :
             c \in {d \in Calls : /\ Polled /\ kind[d] \notin Sends
                                  /\ \E k \in 1 .. Len(batch) : batch[k] = Request(d, "op")}}
        /\ reply' = Replied(batch, "ok")
        /\ UNCHANGED busy
     \/ /\ busy < MaxBusy
        /\ busy' = busy + 1
        /\ reply' = Replied(batch, "busy")
        /\ UNCHANGED native
  /\ loop' = "idle" /\ batch' = <<>>
  /\ UNCHANGED <<callVars, queue, events, runner, pollVars, workVars, stopVars>>

\* submitStop is closed: reject what is queued and return.
RejectQueued ==
  /\ loop = "idle" /\ stopSub
  /\ reply' = Replied(queue, "stopped")
  /\ queue' = <<>>
  /\ loop' = "exited"
  /\ UNCHANGED <<callVars, batch, busy, nativeVars, pollVars, workVars, stopVars>>

\* Core answers with one event, or with the chunks of a SQLite result.
NativeAnswer ==
  /\ Polled
  /\ \E x \in native : \E n \in 1 .. (IF kind[x.call] \in Statements THEN MaxChunks ELSE 1) :
       /\ native' = native \ {x}
       /\ events' = events \o [k \in 1 .. n |-> Answer(x, k = n)]
  /\ UNCHANGED <<callVars, queueVars, loopVars, runner, pollVars, workVars, stopVars>>

InEvents(name) == \E k \in 1 .. Len(events) : events[k].name = name

\* Core stops the actor, once: it sleeps, is destroyed or the runner drains.
NativeStopActor ==
  /\ Polled
  /\ ~stopMail /\ worker = "running" /\ ~InEvents("ActorStop")
  /\ events' = Append(events, Signal("ActorStop"))
  /\ UNCHANGED <<callVars, queueVars, loopVars, native, runner, pollVars, workVars, stopVars>>

\* The drain is complete or its deadline has passed.
NativeStopped ==
  /\ Polled /\ shutdown = "requested"
  /\ event.name # "RunnerStopped" /\ ~InEvents("RunnerStopped")
  /\ events' = Append(events, Signal("RunnerStopped"))
  /\ UNCHANGED <<callVars, queueVars, loopVars, native, runner, pollVars, workVars, stopVars>>

-----------------------------------------------------------------------------
(* pollLoop.                                                               *)

\* ctx of Run is cancelled.
RequestStop ==
  /\ Polled
  /\ shutdown = "no" /\ shutdown' = "cancelled"
  /\ UNCHANGED <<callVars, queueVars, loopVars, nativeVars, pollVars, workVars, stopSub, done>>

PollWorkerError ==
  /\ poller = "poll" /\ workerErrors
  /\ poller' = "abort"
  /\ UNCHANGED <<callVars, queueVars, loopVars, nativeVars, event, target, workVars, stopVars>>

\* Poll fails, or its batch is not one or not the next one.
PollFails ==
  /\ poller = "poll"
  /\ poller' = "abort"
  /\ UNCHANGED <<callVars, queueVars, loopVars, nativeVars, event, target, workVars, stopVars>>

\* runner.Shutdown, which may fail.
PollShutdown ==
  /\ poller = "poll" /\ shutdown = "cancelled"
  /\ shutdown' = "requested"
  /\ poller' \in {"poll", "abort"}
  /\ UNCHANGED <<callVars, queueVars, loopVars, nativeVars, event, target, workVars,
                 stopSub, done>>

NextEvent(name) ==
  /\ poller = "poll" /\ events # <<>> /\ Head(events).name = name
  /\ event' = Head(events)
  /\ events' = Tail(events)
  /\ UNCHANGED <<kind, pc, id, chan, gaveUp, queueVars, loopVars, native, runner,
                 worker, session, workerErrors, stopVars>>

\* handleInternalEvent of a result: find the waiter, remove it unless more
\* chunks follow, and send the event when there is a channel.
HandleResult ==
  /\ NextEvent("Result")
  /\ LET t == TableOf(Head(events).call)
         i == Head(events).id IN
     /\ target' = pending[t][i].call
     /\ pending' = IF Head(events).last THEN [pending EXCEPT ![t][i] = Free] ELSE pending
     /\ poller' = IF pending[t][i].call = NoCall THEN "dispatch" ELSE "deliver"
  /\ UNCHANGED stopMail

ChannelSize(c) == IF kind[c] \in SQLiteOps THEN ResultSize ELSE 1

\* result <- event: blocks while the channel is full.
Deliver ==
  /\ poller = "deliver"
  /\ Len(chan[target]) < ChannelSize(target)
  /\ chan' = [chan EXCEPT ![target] = Append(@, event)]
  /\ target' = NoCall /\ poller' = "dispatch"
  /\ UNCHANGED <<kind, pc, id, gaveUp, pending, queueVars, loopVars, nativeVars,
                 event, workVars, stopVars>>

\* ActorStop goes to the mailbox of a registered worker; without one it is
\* an error that ends the pump.
HandleActorStop ==
  /\ NextEvent("ActorStop")
  /\ stopMail' = (worker # "gone")
  /\ poller' = IF worker = "gone" THEN "abort" ELSE "dispatch"
  /\ UNCHANGED <<pending, target>>

HandleStopped ==
  /\ NextEvent("RunnerStopped")
  /\ poller' = "dispatch"
  /\ UNCHANGED <<pending, target, stopMail>>

\* Every event goes to every subscriber: the step waits until each of them
\* has read it or has cancelled.
Dispatch ==
  /\ poller = "dispatch"
  /\ poller' = IF event.name = "RunnerStopped" THEN "abort" ELSE "poll"
  /\ event' = Signal("None")
  /\ UNCHANGED <<callVars, queueVars, loopVars, nativeVars, target, workVars, stopVars>>

-----------------------------------------------------------------------------
(* The deferred end of pollLoop, in its order.                             *)

\* What every step of it leaves alone.
endRest == <<kind, pc, id, chan, gaveUp, queueVars, loopVars, event, target,
             stopMail, worker, workerErrors>>
nativeRest == <<native, events, shutdown>>

\* The loop has returned: its context and what is not polled matter no more.
\* cancelActorWorkers: cancel the worker and close the session's done ...
Abort ==
  /\ poller = "abort" /\ poller' = "aborting"
  /\ native' = {} /\ events' = <<>> /\ shutdown' = "no"
  /\ session' = "done"
  /\ UNCHANGED <<endRest, pending, stopSub, runner, done>>

\* Mutated: actorWG.Wait is missing.
AwaitWorkersNot ==
  /\ poller = "aborting" /\ poller' = "stop"
  /\ UNCHANGED <<endRest, nativeRest, session, pending, stopSub, runner, done>>

\* ... and wait for its SQLite calls, then for the workers.
AwaitWorkers ==
  /\ poller = "aborting" /\ poller' = "stop"
  /\ ActiveSQLite = {} /\ worker = "gone"
  /\ UNCHANGED <<endRest, nativeRest, session, pending, stopSub, runner, done>>

StopSubmissions ==
  /\ poller = "stop" /\ poller' = "stopping"
  /\ stopSub' = TRUE
  /\ UNCHANGED <<endRest, nativeRest, session, pending, runner, done>>

\* submitWG.Wait, then the three tables are emptied.
FailWaiters ==
  /\ poller = "stopping" /\ poller' = "close"
  /\ loop = "exited"
  /\ pending' = [t \in Tables |-> [i \in Ids |-> Free]]
  /\ UNCHANGED <<endRest, nativeRest, session, stopSub, runner, done>>

CloseRunner ==
  /\ poller = "close" /\ poller' = "closed"
  /\ runner' = "closed"
  /\ UNCHANGED <<endRest, nativeRest, session, pending, stopSub, done>>

\* closeSubscribers and close(done).
CloseDone ==
  /\ poller = "closed" /\ poller' = "ended"
  /\ done' = TRUE
  /\ UNCHANGED <<endRest, nativeRest, session, pending, stopSub, runner>>

-----------------------------------------------------------------------------
(* The worker, as far as the pump waits for it.  Its handler has returned  *)
(* when every call it made has.                                            *)

HandlerIdle == \A c \in Calls \ Strays : ~Active(c)
WorkerCancelled == poller \in {"aborting", "stop", "stopping", "close", "closed", "ended"}
workRest == <<callVars, loopVars, nativeVars, pollVars, stopMail, stopVars>>

\* ActorStop reaches the worker; closeGracefully refuses new SQLite calls ...
BeginStop ==
  /\ worker = "running" /\ stopMail /\ HandlerIdle
  /\ worker' = "closing"
  /\ session' = IF session = "open" THEN "closing" ELSE session
  /\ UNCHANGED <<workRest, queueVars, workerErrors>>

\* Mutated: it does not wait.
FinishStopAtOnce ==
  /\ worker = "closing"
  /\ worker' = "offer" /\ session' = "done"
  /\ UNCHANGED <<workRest, queueVars, workerErrors>>

\* ... and waits for the ones it has admitted.
FinishStop ==
  /\ worker = "closing" /\ ActiveSQLite = {}
  /\ worker' = "offer" /\ session' = "done"
  /\ UNCHANGED <<workRest, queueVars, workerErrors>>

OfferStopResult ==
  /\ worker = "offer"
  /\ Enqueue(Worker, "ActorStopResult")
  /\ worker' = "waiting"
  /\ UNCHANGED <<workRest, session, workerErrors>>

\* Mutated: an idle worker does not see that it is cancelled.
LeaveStopOnlyBusy ==
  /\ \/ worker = "waiting" /\ reply[Worker] = "ok" /\ UNCHANGED workerErrors
     \/ /\ \/ worker = "waiting" /\ reply[Worker] \in {"busy", "stopped"}
           \/ worker \in {"offer", "waiting"} /\ (WorkerCancelled \/ done)
           \/ worker = "offer" /\ stopSub
        /\ workerErrors' = TRUE
  /\ worker' = "leaving" /\ session' = "done"
  /\ UNCHANGED <<workRest, queueVars>>

\* The result is submitted, or not: reportWorkerError.  An idle worker leaves
\* when it is cancelled.  Deferred: abort closes the session's done channel.
LeaveStop ==
  /\ \/ worker = "waiting" /\ reply[Worker] = "ok" /\ UNCHANGED workerErrors
     \/ /\ \/ worker = "waiting" /\ reply[Worker] \in {"busy", "stopped"}
           \/ worker \in {"offer", "waiting"} /\ (WorkerCancelled \/ done)
           \/ worker = "offer" /\ stopSub
        /\ workerErrors' = TRUE
     \/ worker = "running" /\ WorkerCancelled /\ HandlerIdle /\ UNCHANGED workerErrors
  /\ worker' = "leaving" /\ session' = "done"
  /\ UNCHANGED <<workRest, queueVars>>

WorkerDone ==
  /\ worker = "leaving" /\ ActiveSQLite = {}
  /\ worker' = "gone"
  /\ UNCHANGED <<workRest, queueVars, session, workerErrors>>

-----------------------------------------------------------------------------

BeginCall(c) == BeginOperation(c) \/ BeginKV(c) \/ BeginSQLite(c) \/ BeginSend(c)
CallStep(c) ==
  \/ Offer(c) \/ SubmitInterrupted(c) \/ SubmitFailed(c) \/ Submitted(c)
  \/ SubmitWebSocket(c) \/ SubmitHTTP(c) \/ EndManagedWork(c)
  \/ ReceiveResult(c) \/ ReceiveChunk(c) \/ WaitClosed(c)
  \/ OfferCancel(c) \/ CancelSubmitted(c) \/ Settled(c) \/ CancelFailed(c)
GiveUp(c) == SubmitCancelled(c) \/ WaitCancelled(c) \/ CancelWait(c) \/ SettleTimeout(c)
LoopStep == TakeBatch \/ SubmitBatch \/ RejectQueued
NativeStep == NativeAnswer \/ NativeStopActor \/ NativeStopped
PollStep == PollWorkerError \/ PollShutdown \/ HandleResult \/ Deliver
            \/ HandleActorStop \/ HandleStopped \/ Dispatch
EndStep == Abort \/ AwaitWorkers \/ StopSubmissions \/ FailWaiters \/ CloseRunner \/ CloseDone
WorkerStep == BeginStop \/ FinishStop \/ OfferStopResult \/ LeaveStop \/ WorkerDone

\* The pump has ended and the calls have returned.
Terminated ==
  /\ done /\ \A c \in Calls : ~Active(c)
  /\ UNCHANGED vars

Next ==
  \/ \E c \in Calls : BeginCall(c) \/ Refuse(c) \/ CallStep(c) \/ GiveUp(c)
  \/ LoopStep \/ NativeStep \/ RequestStop \/ PollFails \/ PollStep \/ EndStep \/ WorkerStep
  \/ Terminated

Spec == Init /\ [][Next]_vars

\* Goroutines that can run do run, subscribers read, and core ends a drain by
\* its deadline.  Contexts, timeouts and core's answers owe nothing.
Fairness ==
  /\ \A c \in Calls : WF_vars(CallStep(c))
  /\ WF_vars(LoopStep) /\ WF_vars(PollStep \/ EndStep) /\ WF_vars(WorkerStep)
  /\ WF_vars(NativeStopped)

FairSpec == Spec /\ Fairness

-----------------------------------------------------------------------------
(* Properties.                                                             *)

\* The variables have their types; queue, batch and channels keep within
\* submitQueue's capacity, maxSubmitBatch and the channels' sizes, and an
\* entry of a table holds the channel of the call that has its id.
TypeOK ==
  /\ kind \in Kinds
  /\ pc \in [Calls -> {"idle", "offer", "waiting", "await", "cancelOffer",
                       "cancelWaiting", "settle", "returned"}]
  /\ id \in [Calls -> Ids \cup {0}]
  /\ \A c \in Calls : chan[c] \in Seq(Results) /\ Len(chan[c]) <= ChannelSize(c)
  /\ gaveUp \subseteq Calls
  /\ \A t \in Tables : \A i \in Ids :
       \/ pending[t][i] \in {Free, Tombstone}
       \/ \E c \in Calls : pending[t][i] = Waiter(c) /\ TableOf(c) = t /\ id[c] = i
  /\ queue \in Seq(Requests) /\ Len(queue) <= QueueSize
  /\ batch \in Seq(Requests) /\ Len(batch) <= MaxBatch
  /\ reply \in [Requesters -> {"none", "ok", "busy", "stopped"}]
  /\ loop \in {"idle", "submit", "exited"}
  /\ busy \in 0 .. MaxBusy
  /\ native \subseteq [call : Calls, id : Ids]
  /\ events \in Seq(Events) /\ event \in Events
  /\ runner \in {"open", "closed"}
  /\ poller \in {"poll", "deliver", "dispatch", "abort", "aborting", "stop",
                 "stopping", "close", "closed", "ended"}
  /\ target \in Calls \cup {NoCall}
  /\ worker \in {"running", "closing", "offer", "waiting", "leaving", "gone"}
  /\ session \in {"open", "closing", "done"}
  /\ shutdown \in {"no", "cancelled", "requested"}
  /\ {stopMail, workerErrors, stopSub, done} \subseteq BOOLEAN

\* Tombstones (abandonActorIntentWaiter, abandonSQLiteWaiter): a call gets the
\* answer of another only when some other call with its id has left the table
\* while its command was still being submitted, which is where the code removes
\* the id without a tombstone.
OwnResult ==
  \A c \in Calls : \A k \in 1 .. Len(chan[c]) :
    \/ chan[c][k].call = c
    \/ \E d \in gaveUp \ {c} : TableOf(d) = TableOf(c) /\ id[d] = id[c]

\* The order of pollLoop's deferred calls: when Runner.Close frees the native
\* handle, submitLoop has returned and neither the worker nor a SQLite call
\* that could still submit through it is left.
HandleClosedLast ==
  runner = "closed" => loop = "exited" /\ worker = "gone" /\ ActiveSQLite = {}

\* closeGracefully: while ActorStopResult is on its way no SQLite call of the
\* generation is between its begin and its return.
StopResultAfterSQLite ==
  worker \in {"offer", "waiting"} => ActiveSQLite = {}

\* Once Run's context is cancelled, or a fatal error has made the poll
\* goroutine leave its loop, the pump ends and no call is left behind:
\* although callers, worker, poller and submitLoop wait for one another, and
\* also for a call queued after submitLoop rejected the queue or one whose
\* waiter was dropped.
ShutdownCompletes ==
  (shutdown # "no" \/ poller = "abort") ~> [](done /\ \A c \in Calls : ~Active(c))

\* "Delivery must never block the poller" (actorMailbox): the poll goroutine
\* always gets past the channel of a waiter.
DeliveryProceeds == poller = "deliver" ~> poller # "deliver"
=============================================================================
