----------------------------- MODULE ActorTurn -----------------------------
(***************************************************************************)
(* One actor generation as the pump runs it: the poll goroutine puts the   *)
(* generation's events into its mailbox, the worker goroutine              *)
(* (actorWorker.run) takes them and calls the typed adapter                *)
(* (rivet/actor.go), and the goroutine of Actor.Run shares the actor's     *)
(* turn with it.  With them go the tables of WebSockets and connections,   *)
(* an HTTP request with its body and response writer, and detached work.   *)
(*                                                                         *)
(* A scenario says what the native side may send, whether the actor has a  *)
(* Run, and which connections it restores.  Events that the pump refuses   *)
(* (of an actor it does not know) are the subject of ActorLifecycle.       *)
(***************************************************************************)
EXTENDS Naturals, Sequences, FiniteSets, SequencesExt

CONSTANTS
  Conns,        \* ids of ActorConnect connections
  Sockets,      \* ids of raw WebSockets
  Hibernatable, \* the sockets whose WsOpen says can_hibernate
  None,         \* no id, no holder, no connection
  Scenarios,    \* records [events, run, restored, draining, faults]
  MaxChunks,    \* bound: response chunks of one request
  MaxYields,    \* bound: how often Run gives the turn away
  MaxTasks      \* bound: tasks WaitUntil starts

Ids == Conns \cup Sockets

ASSUME TurnAssumption ==
  /\ Hibernatable \subseteq Sockets /\ Conns \cap Sockets = {}
  /\ None \notin Ids
  /\ {MaxChunks, MaxYields, MaxTasks} \subseteq Nat

VARIABLES
  \* the pump
  plan,        \* events the native side may still send
  mailbox,
  websockets,  \* ids in Pump.websockets
  registered,  \* the generation is in Pump.actors
  draining,    \* Pump.shuttingDown
  polling,     \* the poll loop runs
  workerError, \* a worker has reported an error
  \* the worker
  wpc, ev, out,
  needsAck,
  cancelled,   \* the worker's context is done
  stopResult,  \* "none", or what ActorStopResult says
  \* the turn
  turn,        \* who holds turnMu
  current,     \* currentConnection
  saved,       \* the connection a waiting callback took along
  \* Run
  rpc, runCancelled, yields,
  \* Context
  connections,
  raw,         \* the connections with rawWebSocket set
  managed,     \* detached work and the database handle
  \* the HTTP request
  http, writer,
  response,    \* HTTP commands handed to the native side
  \* history
  scenario,
  opened,      \* sockets that OnConnect accepted, connections reported open
  left,        \* how often OnDisconnect was called for a socket
  hibernated   \* sockets detached without a close

pumpVars == <<plan, mailbox, websockets, registered, draining, polling, workerError, scenario>>
workerVars == <<wpc, ev, out, needsAck, cancelled, stopResult>>
turnVars == <<turn, current, saved>>
runVars == <<rpc, runCancelled, yields>>
connVars == <<connections, raw, opened, left, hibernated>>
httpVars == <<http, writer, response>>
fixed == <<registered, draining, polling, workerError, scenario>>
others == <<workerVars, turnVars, runVars, managed>>
vars == <<pumpVars, workerVars, turnVars, runVars, connVars, managed, httpVars>>

Event(kind, id) == [kind |-> kind, id |-> id]
ActorStart == Event("start", None)
Outcomes == {"ok", "error", "panic"}

Init ==
  /\ scenario \in Scenarios
  /\ plan = scenario.events /\ mailbox = <<>> /\ websockets = {}
  /\ registered = TRUE /\ draining = FALSE /\ polling = TRUE
  /\ workerError = FALSE
  /\ wpc = "body" /\ ev = ActorStart /\ out = "ok" /\ needsAck = FALSE
  /\ cancelled = FALSE /\ stopResult = "none"
  /\ turn = None /\ current = None /\ saved = None
  /\ rpc = "none" /\ runCancelled = FALSE /\ yields = 0
  /\ connections = scenario.restored /\ raw = {}
  /\ opened = scenario.restored \cap Conns /\ left = [s \in Sockets |-> 0] /\ hibernated = {}
  /\ managed = [stopping |-> FALSE, tasks |-> 0, started |-> 0,
                cancelled |-> FALSE, db |-> "open"]
  /\ http = [pending |-> FALSE, chunks |-> 0, finished |-> FALSE, closed |-> FALSE,
             failed |-> FALSE, cancelled |-> FALSE]
  /\ writer = [live |-> FALSE, started |-> FALSE, finished |-> FALSE, failed |-> FALSE]
  /\ response = <<>>

-----------------------------------------------------------------------------
(* The poll goroutine.                                                     *)

\* Kinds of events that the native side sends before those of the second set
\* that have the same id.
Precedes ==
  {<<{"wsOpen", "wsResume"}, {"wsMessage", "wsClose"}>>,
   <<{"preflight"}, {"connOpen"}>>, <<{"action"}, {"connClose"}>>,
   <<{"http"}, {"chunk", "lastChunk", "abort"}>>,
   <<{"chunk"}, {"lastChunk", "abort"}>>, <<{"lastChunk"}, {"abort"}>>}

\* The next event may be e.  The native side names a connection only once it
\* has been told that it is open.
Arrives(e) ==
  /\ polling
  /\ \A p \in Precedes, f \in plan :
       f.id = e.id /\ f.kind \in p[1] => e.kind \notin p[2]
  /\ e.kind \in {"action", "connClose"} => e.id \in opened \cup {None}
  /\ plan' = plan \ {e}

\* The poll loop handles an event of one of these kinds.
Polls(kinds, Handle(_)) ==
  \E e \in plan : e.kind \in kinds /\ Arrives(e) /\ Handle(e)

Put(events) == mailbox' = mailbox \o events

\* Events that go straight to the mailbox.
Forward ==
  /\ registered
  /\ Polls({"action", "alarm", "preflight", "connOpen", "connClose"}, LAMBDA e : Put(<<e>>))
  /\ UNCHANGED <<websockets, fixed, others, connVars, httpVars>>

\* EventHTTPRequest: the request with its body enters httpPending.
HttpRequest ==
  /\ registered
  /\ Polls({"http"}, LAMBDA e : Put(<<e>>))
  /\ http' = [http EXCEPT !.pending = TRUE, !.chunks = 1, !.cancelled = cancelled]
  /\ UNCHANGED <<websockets, fixed, others, connVars, writer, response>>

\* append: a body that is closed or finished takes no bytes.
AppendBody(e) ==
  http' = [http EXCEPT !.chunks = IF http.closed \/ http.finished THEN @ ELSE @ + 1,
                       !.finished = @ \/ e.kind = "lastChunk"]

\* EventHTTPRequestChunk.
HttpRequestChunk ==
  /\ http.pending
  /\ Polls({"chunk", "lastChunk"}, AppendBody)
  /\ UNCHANGED <<mailbox, websockets, fixed, others, connVars, writer, response>>

\* The poll loop returns; its deferred cancelActorWorkers cancels the worker.
PollLoopReturns ==
  /\ polling' = FALSE
  /\ cancelled' = (cancelled \/ registered)
  /\ http' = [http EXCEPT !.cancelled = @ \/ registered]
  /\ UNCHANGED <<mailbox, registered, draining, workerError, scenario, wpc, ev, out, needsAck,
                 stopResult, turnVars, runVars, managed, connVars, writer, response>>

\* A chunk of a request that the worker has finished is an error.
UnknownRequestChunk ==
  /\ ~http.pending
  /\ Polls({"chunk", "lastChunk"}, LAMBDA e : PollLoopReturns)
  /\ UNCHANGED websockets

\* A worker has reported an error, or Poll has failed.
PollLoopFails ==
  /\ polling /\ (scenario.faults \/ workerError)
  /\ PollLoopReturns
  /\ UNCHANGED <<plan, websockets>>

AbortBody(h) ==
  [h EXCEPT !.cancelled = TRUE, !.finished = TRUE, !.failed = @ \/ ~h.finished]

\* EventHTTPRequestAbort; nothing when the request is over.
HttpRequestAbort ==
  /\ Polls({"abort"}, LAMBDA e : http' = IF http.pending THEN AbortBody(http) ELSE http)
  /\ UNCHANGED <<mailbox, websockets, fixed, others, connVars, writer, response>>

\* EventWSOpen: the socket gets its owner.
Own(e) == websockets' = websockets \cup {e.id} /\ Put(<<e>>)

WsOpen ==
  /\ registered
  /\ Polls({"wsOpen", "wsResume"}, Own)
  /\ UNCHANGED <<fixed, others, connVars, httpVars>>

\* websocketActor: ignored when the table does not have the socket.
WsMessage ==
  /\ Polls({"wsMessage"}, LAMBDA e : Put(IF e.id \in websockets /\ registered THEN <<e>> ELSE <<>>))
  /\ UNCHANGED <<websockets, fixed, others, connVars, httpVars>>

\* removeWebSocket.
Disown(e) ==
  /\ websockets' = websockets \ {e.id}
  /\ Put(IF e.id \in websockets /\ registered THEN <<e>> ELSE <<>>)

WsClose ==
  /\ Polls({"wsClose"}, Disown)
  /\ UNCHANGED <<fixed, others, connVars, httpVars>>

\* The sockets that detachActorWebSockets hibernates instead of closing them.
Hibernating(reason) ==
  IF reason = "sleep" /\ ~draining THEN websockets \cap Hibernatable ELSE {}

\* Mutant: the stop goes into the mailbox before the close events.
DetachAndStopFirst(e) ==
  /\ hibernated' = hibernated \cup Hibernating(e.kind)
  /\ websockets' = {}
  /\ \E closing \in SetToSeqs(websockets \ Hibernating(e.kind)) :
       Put(<<e>> \o [i \in DOMAIN closing |-> Event("wsClose", closing[i])])

\* detachActorWebSockets: close events, in any order, precede the stop.
DetachAndStop(e) ==
  /\ hibernated' = hibernated \cup Hibernating(e.kind)
  /\ websockets' = {}
  /\ \E closing \in SetToSeqs(websockets \ Hibernating(e.kind)) :
       Put([i \in DOMAIN closing |-> Event("wsClose", closing[i])] \o <<e>>)

\* EventActorStop.
ActorStop ==
  /\ registered
  /\ Polls({"sleep", "stop"}, DetachAndStop)
  /\ UNCHANGED <<fixed, others, connections, raw, opened, left, httpVars>>

\* The hibernate commands cannot be submitted.
ActorStopFails ==
  /\ registered /\ scenario.faults
  /\ Polls({"sleep"}, LAMBDA e : Hibernating(e.kind) # {} /\ PollLoopReturns)
  /\ websockets' = {}

\* The context of Pump.Run is done.
BeginDrain ==
  /\ scenario.draining /\ polling /\ ~draining
  /\ draining' = TRUE
  /\ UNCHANGED <<plan, mailbox, websockets, registered, polling, workerError, scenario,
                 others, connVars, httpVars>>

Poller ==
  \/ Forward \/ HttpRequest \/ HttpRequestChunk \/ UnknownRequestChunk \/ HttpRequestAbort
  \/ WsOpen \/ WsMessage \/ WsClose \/ ActorStop \/ ActorStopFails
  \/ BeginDrain \/ PollLoopFails

-----------------------------------------------------------------------------
(* The worker: one event at a time, its callback under the turn.           *)

RunOver == rpc \in {"none", "done"}

\* mailbox.take, and what run does before it calls the adapter.
Take ==
  /\ wpc = "take" /\ mailbox # <<>>
  /\ ev' = Head(mailbox)
  /\ mailbox' = Tail(mailbox)
  /\ wpc' = IF ev'.kind \in {"sleep", "stop"} THEN "stop" ELSE "lock"
  /\ out' = "ok"
  /\ needsAck' = (ev'.kind = "wsMessage" /\ ev'.id \in websockets \cap Hibernatable)
  /\ runCancelled' = (runCancelled \/ ev'.kind \in {"sleep", "stop"})
  /\ UNCHANGED <<plan, websockets, fixed, cancelled, stopResult, turnVars, rpc, yields,
                 connVars, managed, httpVars>>

\* take finds the queue empty and the context done.
TakeCancelled ==
  /\ wpc = "take" /\ mailbox = <<>> /\ cancelled
  /\ wpc' = "teardown"
  /\ UNCHANGED <<pumpVars, ev, out, needsAck, cancelled, stopResult, turnVars, runVars,
                 connVars, managed, httpVars>>

\* The adapter has the turn and calls the actor's function.
Callback == wpc' = "body" /\ turn' = "worker" /\ UNCHANGED out

\* It returns without having called it, and gives the turn back.
Skip(o) == wpc' = "result" /\ out' = o /\ UNCHANGED turn

Locks(kinds) ==
  /\ wpc = "lock" /\ ev.kind \in kinds /\ turn = None
  /\ UNCHANGED <<pumpVars, ev, needsAck, cancelled, stopResult, saved, runVars, hibernated,
                 managed, http, response>>

\* Action: no such action, or no such connection; else the caller is set.
EnterAction ==
  /\ Locks({"action"})
  /\ \/ Skip("error") /\ UNCHANGED current
     \/ /\ ev.id = None \/ ev.id \in connections
        /\ Callback
        /\ current' = IF ev.id \in connections \ raw THEN ev.id ELSE None
  /\ UNCHANGED <<connections, raw, opened, left, writer>>

\* Alarm and ConnectionPreflight.
EnterPlain ==
  /\ Locks({"alarm", "preflight"})
  /\ Callback \/ Skip("error")
  /\ UNCHANGED <<current, connections, raw, opened, left, writer>>

EnterFetch ==
  /\ Locks({"http"})
  /\ \/ Skip("error") /\ UNCHANGED writer
     \/ Callback /\ writer' = [writer EXCEPT !.live = TRUE]
  /\ UNCHANGED <<current, connections, raw, opened, left>>

EnterConnectionOpen ==
  /\ Locks({"connOpen"})
  /\ \/ Skip("error") /\ UNCHANGED connections
     \/ ev.id \notin connections /\ Callback /\ connections' = connections \cup {ev.id}
  /\ UNCHANGED <<current, raw, opened, left, writer>>

EnterConnectionClose ==
  /\ Locks({"connClose"})
  /\ Callback
  /\ connections' = connections \ {ev.id}
  /\ UNCHANGED <<current, raw, opened, left, writer>>

\* A resumed socket is not announced to the actor.
EnterWebSocketOpen ==
  /\ Locks({"wsOpen", "wsResume"})
  /\ connections' = connections \cup {ev.id}
  /\ raw' = raw \cup {ev.id}
  /\ \/ ev.kind = "wsResume" /\ Skip("ok") /\ opened' = opened \cup {ev.id}
     \/ ev.kind = "wsOpen" /\ Callback /\ UNCHANGED opened
  /\ UNCHANGED <<current, left, writer>>

EnterWebSocketMessage ==
  /\ Locks({"wsMessage"})
  /\ IF ev.id \in connections THEN Callback ELSE Skip("ok")
  /\ UNCHANGED <<current, connections, raw, opened, left, writer>>

\* The socket leaves the table, and OnDisconnect is called if it was there.
EnterWebSocketClose ==
  /\ Locks({"wsClose"})
  /\ connections' = connections \ {ev.id}
  /\ raw' = raw \ {ev.id}
  /\ \/ ev.id \in connections /\ Callback /\ left' = [left EXCEPT ![ev.id] = @ + 1]
     \/ ev.id \notin connections /\ Skip("ok") /\ UNCHANGED left
  /\ UNCHANGED <<current, opened, writer>>

Enter ==
  \/ EnterAction \/ EnterPlain \/ EnterFetch \/ EnterConnectionOpen \/ EnterConnectionClose
  \/ EnterWebSocketOpen \/ EnterWebSocketMessage \/ EnterWebSocketClose

InCallback == wpc = "body" /\ ev.kind # "start"

\* Mutant: the caller's connection stays current while others have the turn.
YieldTurnKeepsCaller ==
  /\ InCallback /\ yields < MaxYields
  /\ wpc' = "waiting" /\ yields' = yields + 1
  /\ saved' = current /\ turn' = None
  /\ UNCHANGED <<pumpVars, ev, out, needsAck, cancelled, stopResult, rpc, runCancelled,
                 current, connVars, managed, httpVars>>

\* yieldTurn, around a callback's wait on a queue ...
YieldTurn ==
  /\ InCallback /\ yields < MaxYields
  /\ wpc' = "waiting" /\ yields' = yields + 1
  /\ saved' = current /\ current' = None /\ turn' = None
  /\ UNCHANGED <<pumpVars, ev, out, needsAck, cancelled, stopResult, rpc, runCancelled,
                 connVars, managed, httpVars>>

\* ... and the function it returns.
ResumeTurn ==
  /\ wpc = "waiting" /\ turn = None
  /\ wpc' = "body"
  /\ turn' = "worker" /\ current' = saved /\ saved' = None
  /\ UNCHANGED <<pumpVars, ev, out, needsAck, cancelled, stopResult, runVars, connVars,
                 managed, httpVars>>

\* Mutant: a socket that OnConnect rejects leaves the table but stays raw.
LeaveKeepsRaw(o) ==
  /\ wpc' = "result" /\ out' = o
  /\ turn' = None /\ current' = None
  /\ LET failed == IF ev.kind \in {"connOpen", "wsOpen"} /\ o = "error" THEN {ev.id} ELSE {}
     IN connections' = connections \ failed
  /\ opened' = IF ev.kind = "wsOpen" /\ o = "ok" THEN opened \cup {ev.id} ELSE opened
  /\ UNCHANGED <<pumpVars, ev, needsAck, cancelled, stopResult, saved, runVars, raw, left,
                 hibernated, managed, http>>

\* The callback returns with o: the deferred calls clear the caller and release
\* the turn.  A connection whose open hook fails is forgotten; not so after a panic.
Leave(o) ==
  /\ wpc' = "result" /\ out' = o
  /\ turn' = None /\ current' = None
  /\ LET failed == IF ev.kind \in {"connOpen", "wsOpen"} /\ o = "error" THEN {ev.id} ELSE {}
     IN connections' = connections \ failed /\ raw' = raw \ failed
  /\ opened' = IF ev.kind = "wsOpen" /\ o = "ok" THEN opened \cup {ev.id} ELSE opened
  /\ UNCHANGED <<pumpVars, ev, needsAck, cancelled, stopResult, saved, runVars, left,
                 hibernated, managed, http>>

Return ==
  /\ InCallback /\ ev.kind # "http"
  /\ \E o \in Outcomes :
       /\ o = "error" => ev.kind \notin {"wsMessage", "wsClose"}
       /\ Leave(o)
  /\ UNCHANGED <<writer, response>>

-----------------------------------------------------------------------------
(* The response writer and the request body.                               *)

\* submitHTTP: accepted, refused, or accepted although the caller gave up.
Submissions(s, command) ==
  {[w |-> [s.w EXCEPT !.failed = ~ok], r |-> IF ok \/ sent THEN Append(s.r, command) ELSE s.r] :
     ok \in BOOLEAN, sent \in BOOLEAN}

\* writeHeaderLocked.
Headers(s) ==
  IF s.w.started \/ s.w.finished \/ s.w.failed THEN {s}
  ELSE Submissions([s EXCEPT !.w.started = TRUE], "start")

\* Mutant: Write does not look at finished.
ChunksAfterFinish(s) ==
  UNION {IF h.w.failed THEN {h} ELSE Submissions(h, "chunk") :
           h \in IF s.w.started THEN {s} ELSE Headers(s)}

\* Write, one chunk.
Chunks(s) ==
  UNION {IF h.w.finished \/ h.w.failed THEN {h} ELSE Submissions(h, "chunk") :
           h \in IF s.w.started THEN {s} ELSE Headers(s)}

\* finish.
Finishes(s) ==
  IF s.w.finished THEN {s}
  ELSE UNION {LET f == [h EXCEPT !.w.finished = TRUE]
              IN IF f.w.failed THEN {f} ELSE Submissions(f, "final") : h \in Headers(s)}

Answering(s) == writer' = s.w /\ response' = s.r

\* The handler, or a goroutine it has left behind, writes.
Write ==
  /\ writer.live /\ Len(response) < MaxChunks
  /\ \E s \in Chunks([w |-> writer, r |-> response]) : Answering(s)
  /\ UNCHANGED <<pumpVars, others, connVars, http>>

\* httpRequestBody.Read takes a chunk.
Read ==
  /\ writer.live /\ http.chunks > 0
  /\ http' = [http EXCEPT !.chunks = @ - 1]
  /\ UNCHANGED <<pumpVars, others, connVars, writer, response>>

\* OnFetch returns, and Fetch finishes the response.
ReturnFetch ==
  /\ InCallback /\ ev.kind = "http"
  /\ \E s \in Finishes([w |-> writer, r |-> response]) :
       Answering(s) /\ Leave(IF s.w.failed THEN "error" ELSE "ok")

PanicFetch ==
  /\ InCallback /\ ev.kind = "http"
  /\ Leave("panic")
  /\ UNCHANGED <<writer, response>>

-----------------------------------------------------------------------------
(* The results the worker submits, and the start and stop of the actor.    *)

MayFail == cancelled \/ scenario.faults

\* reportWorkerError, and the worker's deferred calls follow.
GiveUp(place) ==
  /\ MayFail
  /\ workerError' = TRUE /\ wpc' = place
  /\ UNCHANGED <<plan, mailbox, websockets, registered, draining, polling, scenario, ev, out,
                 needsAck, cancelled, stopResult, turnVars, runVars, connVars, managed>>

\* The result is submitted.  A panic in an action ends the worker; after any
\* other it asks for its own stop, reporting an error when that fails.
SubmitResult ==
  /\ wpc = "result" /\ ev.kind \notin {"start", "http"}
  /\ wpc' = IF ev.kind = "action" /\ out = "panic" THEN "teardown" ELSE "take"
  /\ websockets' = IF ev.kind \in {"wsOpen", "wsResume"} /\ out # "ok" THEN websockets \ {ev.id}
                   ELSE websockets
  /\ opened' = IF ev.kind = "connOpen" /\ out = "ok" THEN opened \cup {ev.id} ELSE opened
  /\ \/ UNCHANGED workerError
     \/ ev.kind # "action" /\ out = "panic" /\ MayFail /\ workerError' = TRUE
  /\ UNCHANGED <<plan, mailbox, registered, draining, polling, scenario, ev, out, needsAck,
                 cancelled, stopResult, turnVars, runVars, connections, raw, left, hibernated,
                 managed, httpVars>>

\* OnMessage without an acknowledgement and OnDisconnect have no result.
SubmitResultFails ==
  /\ wpc = "result" /\ ev.kind \notin {"start", "http", "wsClose"}
  /\ ev.kind = "wsMessage" => needsAck
  /\ GiveUp("teardown")
  /\ UNCHANGED httpVars

\* failHTTP after an error, then finishHTTPRequest.
FinishRequest ==
  /\ wpc = "result" /\ ev.kind = "http"
  /\ response' = IF out = "ok" THEN response ELSE Append(response, "error")
  /\ http' = [http EXCEPT !.pending = FALSE, !.closed = @ \/ http.pending,
                          !.cancelled = @ \/ http.pending]
  /\ wpc' = IF out = "panic" THEN "teardown" ELSE "take"
  /\ UNCHANGED <<pumpVars, ev, out, needsAck, cancelled, stopResult, turnVars, runVars,
                 connVars, managed, writer>>

FailHTTPFails ==
  /\ wpc = "result" /\ ev.kind = "http" /\ out # "ok"
  /\ GiveUp("teardown")
  /\ response' \in {response, Append(response, "error")}
  /\ UNCHANGED <<http, writer>>

\* OnStart returns; after a failure cleanupFailedActorStart follows.
StartReturns ==
  /\ wpc = "body" /\ ev.kind = "start"
  /\ \E o \in Outcomes :
       /\ out' = o
       /\ wpc' = IF o = "ok" THEN "result" ELSE "drain"
       /\ managed' = [managed EXCEPT !.stopping = @ \/ o # "ok", !.cancelled = @ \/ o # "ok"]
  /\ UNCHANGED <<pumpVars, ev, needsAck, cancelled, stopResult, turnVars, runVars, connVars,
                 httpVars>>

\* ActorStartResult; Run begins.
SubmitStart ==
  /\ wpc = "result" /\ ev.kind = "start"
  /\ wpc' = IF out = "ok" THEN "take" ELSE "exit"
  /\ rpc' = IF out = "ok" /\ scenario.run THEN "lock" ELSE "none"
  /\ UNCHANGED <<pumpVars, ev, out, needsAck, cancelled, stopResult, turnVars, runCancelled,
                 yields, connVars, managed, httpVars>>

SubmitStartFails ==
  /\ wpc = "result" /\ ev.kind = "start"
  /\ GiveUp("exit")
  /\ UNCHANGED httpVars

Stops(place, o, m) ==
  /\ wpc' = place /\ out' = o /\ managed' = m
  /\ UNCHANGED <<pumpVars, ev, needsAck, cancelled, stopResult, current, saved, runVars,
                 connVars, httpVars>>

\* runDone is closed: Stop refuses new detached work and goes for the turn.
RunJoined ==
  /\ wpc = "stop" /\ RunOver
  /\ Stops("lockStop", out, [managed EXCEPT !.stopping = TRUE])
  /\ UNCHANGED turn

\* Mutant: the worker waits for runDone without a limit.
RunTimeoutNever == FALSE /\ UNCHANGED vars

\* defaultRunStopTimeout: OnStop is not called.
RunTimeout ==
  /\ wpc = "stop" /\ ~RunOver
  /\ Stops("stopResult", "error", managed)
  /\ UNCHANGED turn

EnterStop ==
  /\ wpc = "lockStop" /\ turn = None
  /\ Stops("onStop", out, managed)
  /\ turn' = "worker"

StopReturns ==
  /\ wpc = "onStop"
  /\ \E o \in Outcomes : Stops("drain", o, managed)
  /\ UNCHANGED turn

\* drainManaged.
Drained ==
  /\ wpc \in {"drain", "drainLate"} /\ managed.tasks = 0
  /\ Stops("closeDB", out, managed)
  /\ UNCHANGED turn

DrainTimeout ==
  /\ wpc = "drain" /\ managed.tasks > 0
  /\ Stops("drainLate", out, [managed EXCEPT !.cancelled = TRUE])
  /\ UNCHANGED turn

DrainFails ==
  /\ wpc = "drainLate" /\ managed.tasks > 0
  /\ Stops("closeDB", IF out = "ok" THEN "error" ELSE out, managed)
  /\ UNCHANGED turn

\* completeActorStop, and the end of cleanupFailedActorStart.
CloseDB ==
  /\ wpc = "closeDB"
  /\ \E o \in {out, IF out = "ok" THEN "error" ELSE out} :
       Stops(IF ev.kind = "start" THEN "result" ELSE "stopResult", o,
             [managed EXCEPT !.cancelled = TRUE, !.db = "closed"])
  /\ turn' = None

SubmitStop ==
  /\ wpc = "stopResult"
  /\ stopResult' = IF out = "ok" THEN "ok" ELSE "error"
  /\ wpc' = "teardown"
  /\ UNCHANGED <<pumpVars, ev, out, needsAck, cancelled, turnVars, runVars, connVars, managed,
                 httpVars>>

SubmitStopFails ==
  /\ wpc = "stopResult"
  /\ GiveUp("teardown")
  /\ UNCHANGED httpVars

\* CloseWebSockets, outside the turn; a sleeping actor's sockets live on.
CloseWebSockets ==
  /\ wpc = "teardown"
  /\ wpc' = "exit"
  /\ left' = [s \in Sockets |-> IF s \in raw /\ ev.kind # "sleep" THEN left[s] + 1 ELSE left[s]]
  /\ connections' = {} /\ raw' = {}
  /\ UNCHANGED <<pumpVars, ev, out, needsAck, cancelled, stopResult, turnVars, runVars, opened,
                 hibernated, managed, httpVars>>

\* ActorSession.abort: requests of the generation that nobody answers any more.
AbortSession ==
  /\ wpc = "exit"
  /\ wpc' = "remove"
  /\ http' = IF http.pending THEN [AbortBody(http) EXCEPT !.pending = FALSE] ELSE http
  /\ UNCHANGED <<pumpVars, ev, out, needsAck, cancelled, stopResult, turnVars, runVars, connVars,
                 managed, writer, response>>

\* removeActor, and the worker's context ends.
RemoveActor ==
  /\ wpc = "remove"
  /\ wpc' = "done"
  /\ websockets' = {} /\ registered' = FALSE /\ cancelled' = TRUE
  /\ UNCHANGED <<plan, mailbox, draining, polling, workerError, scenario, ev, out, needsAck,
                 stopResult, turnVars, runVars, connVars, managed, httpVars>>

Worker ==
  \/ Take \/ TakeCancelled \/ Enter \/ ResumeTurn \/ Return \/ ReturnFetch \/ PanicFetch
  \/ SubmitResult \/ SubmitResultFails \/ FinishRequest \/ FailHTTPFails
  \/ StartReturns \/ SubmitStart \/ SubmitStartFails
  \/ RunJoined \/ RunTimeout \/ EnterStop \/ StopReturns \/ Drained \/ DrainTimeout \/ DrainFails
  \/ CloseDB \/ SubmitStop \/ SubmitStopFails \/ CloseWebSockets \/ AbortSession \/ RemoveActor

-----------------------------------------------------------------------------
(* The goroutine of Run, and detached work.                                *)

Runs(place, holder) ==
  /\ rpc' = place /\ turn' = holder
  /\ UNCHANGED <<plan, mailbox, websockets, registered, draining, polling, scenario, workerVars,
                 runCancelled, connVars, httpVars, saved>>

\* Run has the turn: at first, and after each time it gave it away.
RunLocks ==
  /\ rpc \in {"lock", "waiting", "away"} /\ turn = None
  /\ Runs("body", "run")
  /\ UNCHANGED <<workerError, yields, current, managed>>

\* A wait on the queue: yieldTurn.
RunYields ==
  /\ rpc = "body" /\ yields < MaxYields
  /\ Runs("waiting", None)
  /\ yields' = yields + 1
  /\ current' = None
  /\ UNCHANGED <<workerError, managed>>

\* RunContext.KeepAwake.
RunKeepsAwake ==
  /\ rpc = "body" /\ yields < MaxYields /\ ~managed.stopping
  /\ Runs("away", None)
  /\ yields' = yields + 1
  /\ UNCHANGED <<workerError, current, managed>>

\* Run returns or panics; ActorRunResult may meet a failing pump.
RunReturns ==
  /\ rpc = "body"
  /\ Runs("done", None)
  /\ workerError' \in {workerError, scenario.faults \/ workerError}
  /\ UNCHANGED <<yields, current, managed>>

\* Context.WaitUntil, called from a callback or from Run.
WaitUntil ==
  /\ wpc = "body" \/ rpc = "body"
  /\ ~managed.stopping /\ managed.started < MaxTasks
  /\ managed' = [managed EXCEPT !.tasks = @ + 1, !.started = @ + 1]
  /\ UNCHANGED <<pumpVars, workerVars, turnVars, runVars, connVars, httpVars>>

TaskEnds ==
  /\ managed.tasks > 0
  /\ managed' = [managed EXCEPT !.tasks = @ - 1]
  /\ UNCHANGED <<pumpVars, workerVars, turnVars, runVars, connVars, httpVars>>

\* Nothing to do: the worker is gone, or waits for its next event.
Rest ==
  /\ wpc = "done" \/ (wpc = "take" /\ mailbox = <<>> /\ ~cancelled)
  /\ UNCHANGED vars

Next ==
  \/ Poller \/ Worker \/ YieldTurn \/ Write \/ Read
  \/ RunLocks \/ RunYields \/ RunKeepsAwake \/ RunReturns
  \/ WaitUntil \/ TaskEnds \/ Rest

Spec == Init /\ [][Next]_vars

\* Callbacks return, timers fire, and Run, while it has the turn, returns or
\* gives it away.  Its waits, and the work of KeepAwake and of WaitUntil, need
\* never end.
FairSpec == Spec /\ WF_vars(Worker) /\ WF_vars(RunReturns)

-----------------------------------------------------------------------------
(* Properties.                                                             *)

Kinds == {"start", "action", "alarm", "preflight", "connOpen", "connClose", "http", "chunk",
          "lastChunk", "abort", "wsOpen", "wsResume", "wsMessage", "wsClose", "sleep", "stop"}
Events == [kind : Kinds, id : Ids \cup {None}]

\* The state has its shape: the tables hold only ids of their kind, a raw socket
\* is a connection, and no more detached work runs than was started.
TypeOK ==
  /\ plan \subseteq Events /\ mailbox \in Seq(Events) /\ ev \in Events
  /\ websockets \subseteq Sockets /\ opened \subseteq Ids /\ hibernated \subseteq Hibernatable
  /\ {registered, draining, polling, workerError, needsAck, cancelled, runCancelled} \subseteq BOOLEAN
  /\ wpc \in {"body", "take", "lock", "waiting", "result", "stop", "lockStop", "onStop", "drain",
              "drainLate", "closeDB", "stopResult", "teardown", "exit", "remove", "done"}
  /\ out \in Outcomes /\ stopResult \in {"none", "ok", "error"}
  /\ turn \in {None, "worker", "run"} /\ {current, saved} \subseteq Conns \cup {None}
  /\ rpc \in {"none", "lock", "body", "waiting", "away", "done"} /\ yields \in 0 .. MaxYields
  /\ connections \subseteq Ids /\ raw \subseteq connections \cap Sockets
  /\ managed.tasks \in 0 .. managed.started /\ managed.started \in 0 .. MaxTasks
  /\ {managed.stopping, managed.cancelled} \subseteq BOOLEAN /\ managed.db \in {"open", "closed"}
  /\ http.chunks \in Nat
  /\ {http.pending, http.finished, http.closed, http.failed, http.cancelled} \subseteq BOOLEAN
  /\ {writer.live, writer.started, writer.finished, writer.failed} \subseteq BOOLEAN
  /\ response \in Seq({"start", "chunk", "final", "error"})
  /\ left \in [Sockets -> Nat]

\* Actor code is serialized: a callback of the worker and Run each have the turn
\* while they execute, an action finds its own caller in CurrentConnection, also
\* after it has waited on a queue, and Run and every other callback find none.
TurnOwned ==
  /\ InCallback \/ wpc = "onStop" => turn = "worker"
  /\ InCallback => current = IF ev.kind = "action" THEN ev.id ELSE None
  /\ rpc = "body" => turn = "run" /\ current = None

\* A graceful stop is in order: no socket gets a second OnDisconnect; OnStop runs
\* when Run is over and every socket that OnConnect accepted has had its
\* OnDisconnect or hibernates; a stop reported as a success leaves no detached
\* work, no open database and no Run behind.
CleanStop ==
  /\ \A s \in Sockets : left[s] <= 1
  /\ wpc = "onStop" => RunOver /\ \A s \in opened \cap Sockets : left[s] = 1 \/ s \in hibernated
  /\ stopResult = "ok" => RunOver /\ managed.tasks = 0 /\ managed.db = "closed"

\* A response starts once, and nothing follows its final chunk, whoever still
\* holds the writer, unless the submission of that chunk was reported to fail.
ResponseEndsOnce ==
  \A i, j \in DOMAIN response :
    i < j => /\ response[i] = "start" => response[j] # "start"
             /\ response[i] = "final" => writer.failed

\* A worker whose stop is in the mailbox, or whose context is done, ends, though
\* work that Run or WaitUntil started never returns.
StopCompletes ==
  (cancelled \/ \E i \in DOMAIN mailbox : mailbox[i].kind \in {"sleep", "stop"}) ~> (wpc = "done")

=============================================================================
