--------------------------- MODULE ActorLifecycle ---------------------------
(***************************************************************************)
(* The successive generations of one actor: the native loop that asks Go   *)
(* for one thing at a time (run_actor_inner in                             *)
(* crates/rivetkit-go-ffi/src/actor_proxy.rs), the correlation table that  *)
(* carries the answers and their deadlines (correlation.rs), and the Go    *)
(* worker of each generation (actorWorker.run in internal/pump/pump.go).   *)
(*                                                                         *)
(* Requests are numbered by their correlation id.  An ActionCall and a     *)
(* connection event carry that id to Go and back.  ActorStart, ActorStop   *)
(* and ActorAlarm do not: their results name the generation only, and      *)
(* LifecyclePending finds the id.  A WebSocket message has no result; it   *)
(* is numbered here with the requests.                                     *)
(*                                                                         *)
(* Core is external: it runs one generation after another, hands the loop  *)
(* one event at a time, and sends nothing after RunGracefulCleanup.        *)
(***************************************************************************)
EXTENDS Naturals, Sequences

CONSTANTS
  MaxGens,      \* bound: generations of the actor
  MaxCalls,     \* bound: correlation ids
  Kinds,        \* the requests core makes of a running actor
  Failures,     \* how a handler may fail: "error", "panic"
  MaxTimeouts,  \* bound: correlations that expire
  MayOverrun    \* whether core's shutdown deadline may cut a stop short

\* "Connection" is a preflight or an open, "Close" the end of a connection.
AllKinds == {"Action", "Connection", "Close", "Alarm", "Message"}

ASSUME LifecycleAssumption ==
  /\ MaxGens \in Nat
  /\ MaxCalls \in Nat
  /\ Kinds \subseteq AllKinds
  /\ Failures \subseteq {"error", "panic"}
  /\ MaxTimeouts \in Nat
  /\ MayOverrun \in BOOLEAN

Gens == 1 .. MaxGens
Calls == 1 .. MaxCalls
Statuses == {"ok", "error", "panic"}
Keyed == {"Start", "Stop", "Alarm"}   \* LifecycleKind

NoCall == [gen |-> 0, kind |-> "None"]
NoAnswer == [status |-> "none", by |-> 0]
Expired == [status |-> "timeout", by |-> 0]
Result(id, status) == [kind |-> "Result", call |-> id, status |-> status]
StopIntent(id) == [kind |-> "StopIntent", call |-> id, status |-> "ok"]
Commands == [kind : {"Result", "StopIntent"}, call : Calls, status : Statuses]

VARIABLES
  \* native runner
  loop,        \* per generation: where run_actor_inner is
  current,     \* per generation: the request it awaits
  calls,       \* per id: generation and kind of the request
  nextId,      \* CorrelationTable.next_id
  table,       \* ids in CorrelationTable.entries
  answers,     \* per id: what its oneshot channel holds
  pending,     \* LifecyclePending.entries; 0 is no entry
  sweeper,     \* the runner task: expire, then sweep_pending
  timeouts,    \* counts what MaxTimeouts bounds
  stopAsked,   \* generations that core was told to stop
  \* boundary
  events,
  commands,
  \* Go
  worker,      \* per generation: where actorWorker.run is
  item,        \* per generation: the event it handles
  mailbox,
  detached,    \* generations whose WebSockets ActorStop has detached
  poller,
  ran,         \* history, per id: how its Go handler ended
  misdirected  \* history: a StopIntent stopped another generation

callVars == <<calls, nextId>>
tableVars == <<table, answers, pending>>
sweepVars == <<sweeper, timeouts>>
loopVars == <<loop, current>>
workVars == <<worker, item, mailbox, detached, ran>>
stopVars == <<stopAsked, misdirected>>
vars == <<callVars, tableVars, sweepVars, loopVars, workVars, stopVars, events,
          commands, poller>>

Init ==
  /\ loop = [g \in Gens |-> "none"]
  /\ current = [g \in Gens |-> 0]
  /\ calls = [id \in Calls |-> NoCall]
  /\ nextId = 0
  /\ table = {}
  /\ answers = [id \in Calls |-> NoAnswer]
  /\ pending = [g \in Gens |-> [k \in Keyed |-> 0]]
  /\ sweeper = "expire"
  /\ timeouts = 0
  /\ stopAsked = {}
  /\ events = << >>
  /\ commands = << >>
  /\ worker = [g \in Gens |-> "none"]
  /\ item = [g \in Gens |-> 0]
  /\ mailbox = [g \in Gens |-> << >>]
  /\ detached = {}
  /\ poller = "polling"
  /\ ran = [id \in Calls |-> "no"]
  /\ misdirected = FALSE

-----------------------------------------------------------------------------
(* The native loop of a generation *)

NewCall(g, kind) ==
  /\ nextId < MaxCalls
  /\ nextId' = nextId + 1
  /\ calls' = [calls EXCEPT ![nextId + 1] = [gen |-> g, kind |-> kind]]

\* Mutant: the entry gets the counter's old value.
RequestOff(g, kind) ==
  /\ NewCall(g, kind)
  /\ table' = table \cup {nextId}

\* CorrelationTable.insert.
Request(g, kind) ==
  /\ NewCall(g, kind)
  /\ table' = table \cup {nextId + 1}

Await(g, state) ==
  /\ events' = Append(events, nextId + 1)
  /\ current' = [current EXCEPT ![g] = nextId + 1]
  /\ loop' = [loop EXCEPT ![g] = state]

\* run_actor: core starts a generation when the one before has ended.
StartActor(g) ==
  /\ loop[g] = "none"
  /\ g > 1 => loop[g - 1] = "ended"
  /\ Request(g, "Start")
  /\ pending' = [pending EXCEPT ![g]["Start"] = nextId + 1]
  /\ Await(g, "starting")
  /\ UNCHANGED <<answers, sweepVars, workVars, stopVars, commands,
                 poller>>

\* request_action, request_connection: the result will carry the id.
CallActor(g, kind) ==
  /\ loop[g] = "ready"
  /\ Request(g, kind)
  /\ Await(g, "calling")
  /\ UNCHANGED <<answers, pending, sweepVars, workVars, stopVars,
                 commands, poller>>

\* request_alarm: the result is found through LifecyclePending.
FireAlarm(g) ==
  /\ loop[g] = "ready"
  /\ pending[g]["Alarm"] = 0
  /\ Request(g, "Alarm")
  /\ pending' = [pending EXCEPT ![g]["Alarm"] = nextId + 1]
  /\ Await(g, "calling")
  /\ UNCHANGED <<answers, sweepVars, workVars, stopVars, commands,
                 poller>>

\* request_alarm with an entry left over: the entry is replaced, the alarm
\* fails with alarm_correlation_failed and no event is sent.
RefuseAlarm(g) ==
  /\ loop[g] = "ready"
  /\ pending[g]["Alarm"] # 0
  /\ Request(g, "Alarm")
  /\ pending' = [pending EXCEPT ![g]["Alarm"] = nextId + 1]
  /\ UNCHANGED <<answers, sweepVars, loopVars, workVars, stopVars, events,
                 commands, poller>>

\* websocket_message: a callback outside the loop, with nothing to await.
EmitMessage(g) ==
  /\ loop[g] \in {"ready", "calling", "stopping"}
  /\ NewCall(g, "Message")
  /\ events' = Append(events, nextId + 1)
  /\ UNCHANGED <<tableVars, sweepVars, loopVars, workVars, stopVars,
                 commands, poller>>

\* RunGracefulCleanup: sleep, destroy, drain, or an error stop.
StopActor(g) ==
  /\ loop[g] = "ready"
  /\ Request(g, "Stop")
  /\ pending' = [pending EXCEPT ![g]["Stop"] = nextId + 1]
  /\ Await(g, "stopping")
  /\ UNCHANGED <<answers, sweepVars, workVars, stopVars, commands,
                 poller>>

\* Mutant: a panic in any handler ends the factory future.
ProceedPanicEnds(kind, status) ==
  IF kind = "Stop"
    THEN (IF status = "ok" THEN "drained" ELSE "ended")
    ELSE IF (kind = "Start" /\ status # "ok") \/ status = "panic"
           THEN "ended" ELSE "ready"

\* Where the loop goes with an answer.  An error returned from it ends the
\* factory future; after a good stop it waits for core to close its events.
Proceed(kind, status) ==
  IF kind = "Stop"
    THEN (IF status = "ok" THEN "drained" ELSE "ended")
    ELSE IF \/ kind = "Start" /\ status # "ok"
            \/ kind \in {"Action", "Alarm", "Close"} /\ status = "panic"
           THEN "ended" ELSE "ready"

\* request_alarm returns a timeout before it removes its pending entry; the
\* other keyed requests remove theirs first.
Forgets(kind, status) ==
  \/ kind \in {"Start", "Stop"}
  \/ kind = "Alarm" /\ status # "timeout"

\* The receiver yields: the reply goes to core, and the loop goes on or ends.
Resume(g) ==
  LET id == current[g]
      kind == calls[id].kind
      status == answers[id].status
  IN  /\ loop[g] \in {"starting", "calling", "stopping"}
      /\ status # "none"
      /\ loop' = [loop EXCEPT ![g] = Proceed(kind, status)]
      /\ current' = [current EXCEPT ![g] = 0]
      /\ pending' = IF Forgets(kind, status)
                      THEN [pending EXCEPT ![g][kind] = 0] ELSE pending
      /\ UNCHANGED <<callVars, table, answers, sweepVars, workVars, stopVars,
                     events, commands, poller>>

\* Core closes the event channel of a stopped actor.
EventsClosed(g) ==
  /\ loop[g] = "drained"
  /\ loop' = [loop EXCEPT ![g] = "ended"]
  /\ UNCHANGED <<callVars, tableVars, sweepVars, current, workVars, stopVars,
                 events, commands, poller>>

\* Core's shutdown deadline wins the select in request_lifecycle.
Overrun(g) ==
  /\ MayOverrun
  /\ loop[g] = "stopping"
  /\ pending' = [pending EXCEPT ![g]["Stop"] = 0]
  /\ loop' = [loop EXCEPT ![g] = "ended"]
  /\ current' = [current EXCEPT ![g] = 0]
  /\ UNCHANGED <<callVars, table, answers, sweepVars, workVars, stopVars,
                 events, commands, poller>>

-----------------------------------------------------------------------------
(* The runner task *)

\* Mutant: the entry goes and its receiver hears nothing.
ExpireSilent(id) ==
  /\ sweeper = "expire"
  /\ id \in table
  /\ timeouts < MaxTimeouts
  /\ timeouts' = timeouts + 1
  /\ table' = table \ {id}
  /\ sweeper' = "sweep"
  /\ UNCHANGED <<callVars, answers, pending, loopVars, workVars, stopVars, events,
                 commands, poller>>

\* CorrelationTable.expire, for one entry whose deadline has passed.
Expire(id) ==
  /\ sweeper = "expire"
  /\ id \in table
  /\ timeouts < MaxTimeouts
  /\ timeouts' = timeouts + 1
  /\ table' = table \ {id}
  /\ answers' = [answers EXCEPT ![id] = Expired]
  /\ sweeper' = "sweep"
  /\ UNCHANGED <<callVars, pending, loopVars, workVars, stopVars, events,
                 commands, poller>>

\* sweep_pending: retain_live.
Sweep ==
  /\ sweeper = "sweep"
  /\ sweeper' = "expire"
  /\ pending' = [g \in Gens |-> [k \in Keyed |->
                   IF pending[g][k] \in table THEN pending[g][k] ELSE 0]]
  /\ UNCHANGED <<callVars, table, answers, timeouts, loopVars, workVars,
                 stopVars, events, commands, poller>>

-----------------------------------------------------------------------------
(* ActorProxy.handle_command *)

\* Mutant: the entry stays in the table.
ResolveKept(id, command) ==
  /\ table' = table
  /\ answers' = [answers EXCEPT ![id] =
                   [status |-> command.status, by |-> command.call]]

\* CorrelationTable.resolve.
Resolve(id, command) ==
  /\ table' = table \ {id}
  /\ answers' = [answers EXCEPT ![id] =
                   [status |-> command.status, by |-> command.call]]

\* Mutant: every result is taken for the request that the loop awaits.
TargetAwaited(command) == current[calls[command.call].gen]

\* The id a result resolves: its own, or the one LifecyclePending holds.
Target(command) ==
  LET call == calls[command.call]
  IN  IF call.kind \in Keyed THEN pending[call.gen][call.kind]
                             ELSE command.call

DispatchResult ==
  /\ commands # << >>
  /\ Head(commands).kind = "Result"
  /\ commands' = Tail(commands)
  /\ LET command == Head(commands)
         call == calls[command.call]
         id == Target(command)
     IN  /\ pending' = IF call.kind \in Keyed
                         THEN [pending EXCEPT ![call.gen][call.kind] = 0]
                         ELSE pending
         /\ IF id \in table THEN Resolve(id, command)
                            ELSE UNCHANGED <<table, answers>>
  /\ UNCHANGED <<callVars, sweepVars, loopVars, workVars, stopVars, events,
                 poller>>

Live(g) == loop[g] \notin {"none", "ended"}

\* Mutant: the stop is recorded and not asked for.
DispatchIntentDropped ==
  /\ commands # << >>
  /\ Head(commands).kind = "StopIntent"
  /\ commands' = Tail(commands)
  /\ UNCHANGED <<callVars, tableVars, sweepVars, loopVars, workVars, stopVars,
                 events, poller>>

\* StopIntent names the actor only: actor_current takes the newest generation.
DispatchStopIntent ==
  /\ commands # << >>
  /\ Head(commands).kind = "StopIntent"
  /\ commands' = Tail(commands)
  /\ LET live == {g \in Gens : Live(g)}
         newest == {g \in live : \A h \in live : h <= g}
     IN  /\ stopAsked' = stopAsked \cup newest
         /\ misdirected' =
              (misdirected \/ newest \ {calls[Head(commands).call].gen} # {})
  /\ UNCHANGED <<callVars, tableVars, sweepVars, loopVars, workVars, events,
                 poller>>

-----------------------------------------------------------------------------
(* Go: the poll goroutine and the workers *)

Registered(g) == worker[g] \notin {"none", "gone"}

\* handleInternalEvent takes one event.
NextEvent(id) ==
  /\ poller = "polling"
  /\ events # << >>
  /\ id = Head(events)
  /\ events' = Tail(events)

PollStart(id) ==
  LET g == calls[id].gen
  IN  /\ NextEvent(id)
      /\ calls[id].kind = "Start"
      /\ worker' = [worker EXCEPT ![g] = "busy"]
      /\ item' = [item EXCEPT ![g] = id]
      /\ UNCHANGED <<callVars, tableVars, sweepVars, loopVars, mailbox, detached,
                     ran, stopVars, commands, poller>>

Accepts(id) ==
  /\ Registered(calls[id].gen)
  /\ calls[id].kind = "Message" => calls[id].gen \notin detached

PollDeliver(id) ==
  LET g == calls[id].gen
  IN  /\ NextEvent(id)
      /\ calls[id].kind # "Start"
      /\ Accepts(id)
      /\ mailbox' = [mailbox EXCEPT ![g] = Append(@, id)]
      /\ detached' = IF calls[id].kind = "Stop" THEN detached \cup {g}
                                               ELSE detached
      /\ UNCHANGED <<callVars, tableVars, sweepVars, loopVars, worker, item, ran,
                     stopVars, commands, poller>>

\* A message for a WebSocket that has no owner any more is dropped.
PollIgnore(id) ==
  /\ NextEvent(id)
  /\ calls[id].kind = "Message"
  /\ ~Accepts(id)
  /\ UNCHANGED <<callVars, tableVars, sweepVars, loopVars, workVars, stopVars,
                 commands, poller>>

\* Any other event for a generation without a worker ends the pump.
PollUnknown(id) ==
  /\ NextEvent(id)
  /\ calls[id].kind \notin {"Start", "Message"}
  /\ ~Accepts(id)
  /\ poller' = "unknown_actor"
  /\ UNCHANGED <<callVars, tableVars, sweepVars, loopVars, workVars, stopVars,
                 commands>>

Take(g) ==
  /\ worker[g] = "idle"
  /\ mailbox[g] # << >>
  /\ item' = [item EXCEPT ![g] = Head(mailbox[g])]
  /\ mailbox' = [mailbox EXCEPT ![g] = Tail(@)]
  /\ worker' = [worker EXCEPT ![g] = "busy"]
  /\ UNCHANGED <<callVars, tableVars, sweepVars, loopVars, detached, ran,
                 stopVars, events, commands, poller>>

\* Mutant: the worker goes on after an action panic, as it does after others.
AfterAlike(kind, status) ==
  CASE kind = "Stop" \/ (kind = "Start" /\ status # "ok") -> "leaving"
    [] status = "panic" -> "stopping"
    [] OTHER -> "idle"

\* Mutant: a panic in any handler makes the worker return.
AfterPanicLeaves(kind, status) ==
  CASE kind = "Stop" \/ (kind = "Start" /\ status # "ok") -> "leaving"
    [] status = "panic" -> "leaving"
    [] OTHER -> "idle"

\* Where the worker goes when a handler has ended.
After(kind, status) ==
  CASE kind = "Stop" \/ (kind = "Start" /\ status # "ok") -> "leaving"
    [] kind = "Action" /\ status = "panic" -> "leaving"
    [] kind \in {"Connection", "Close", "Alarm", "Message"} /\ status = "panic"
         -> "stopping"
    [] OTHER -> "idle"

\* A handler returns and the worker submits its result, if it has one.
Finish(g, status) ==
  LET id == item[g]
  IN  /\ worker[g] = "busy"
      /\ status \in {"ok"} \cup Failures
      /\ ran' = [ran EXCEPT ![id] = status]
      /\ commands' = IF calls[id].kind = "Message" THEN commands
                       ELSE Append(commands, Result(id, status))
      /\ worker' = [worker EXCEPT ![g] = After(calls[id].kind, status)]
      /\ UNCHANGED <<callVars, tableVars, sweepVars, loopVars, item, mailbox,
                     detached, stopVars, events, poller>>

\* requestErrorStop, a submission of its own.
RequestErrorStop(g) ==
  /\ worker[g] = "stopping"
  /\ commands' = Append(commands, StopIntent(item[g]))
  /\ worker' = [worker EXCEPT ![g] = "idle"]
  /\ UNCHANGED <<callVars, tableVars, sweepVars, loopVars, item, mailbox,
                 detached, ran, stopVars, events, poller>>

\* The deferred calls of run: removeActor.
Leave(g) ==
  /\ worker[g] = "leaving"
  /\ worker' = [worker EXCEPT ![g] = "gone"]
  /\ UNCHANGED <<callVars, tableVars, sweepVars, loopVars, item, mailbox,
                 detached, ran, stopVars, events, commands, poller>>

-----------------------------------------------------------------------------
\* The actor rests, the bounds are used up, or the pump has failed.
Finished ==
  /\ \A g \in Gens : loop[g] \in {"none", "ready", "ended"} \/ poller # "polling"
  /\ events = << >> \/ poller # "polling"
  /\ commands = << >>
  /\ \A g \in Gens : worker[g] \in {"none", "idle", "gone"}
  /\ UNCHANGED vars

Worker(g) ==
  \/ Take(g)
  \/ \E status \in Statuses : Finish(g, status)
  \/ RequestErrorStop(g)
  \/ Leave(g)

Poll ==
  \E id \in Calls :
    PollStart(id) \/ PollDeliver(id) \/ PollIgnore(id) \/ PollUnknown(id)

Dispatch == DispatchResult \/ DispatchStopIntent

Next ==
  \/ \E g \in Gens :
       \/ StartActor(g)
       \/ \E kind \in Kinds \cap {"Action", "Connection", "Close"} :
            CallActor(g, kind)
       \/ "Alarm" \in Kinds /\ FireAlarm(g)
       \/ "Alarm" \in Kinds /\ RefuseAlarm(g)
       \/ "Message" \in Kinds /\ EmitMessage(g)
       \/ StopActor(g)
       \/ Resume(g)
       \/ EventsClosed(g)
       \/ Overrun(g)
       \/ Worker(g)
  \/ \E id \in Calls : Expire(id)
  \/ Sweep
  \/ Dispatch
  \/ Poll
  \/ Finished

Spec == Init /\ [][Next]_vars

\* Native tasks that can run do run and deadlines pass; nothing is asked of Go.
NativeFairness ==
  /\ \A g \in Gens : WF_vars(Resume(g)) /\ WF_vars(EventsClosed(g))
  /\ \A id \in Calls : WF_vars(Expire(id))
  /\ WF_vars(Sweep)
  /\ WF_vars(Dispatch)

NativeSpec == Spec /\ NativeFairness

\* Native tasks and goroutines run, handlers return, and core stops a generation
\* it was told to stop.  Nothing forces core to start or call the actor, a
\* handler to fail, or a deadline to pass.
Fairness ==
  /\ \A g \in Gens : WF_vars(Resume(g)) /\ WF_vars(EventsClosed(g))
  /\ \A g \in Gens : WF_vars(Worker(g))
  /\ \A g \in Gens : WF_vars(g \in stopAsked /\ StopActor(g))
  /\ WF_vars(Sweep)
  /\ WF_vars(Dispatch)
  /\ WF_vars(Poll)

FairSpec == Spec /\ Fairness

-----------------------------------------------------------------------------
(* Properties *)

\* The native tables, the boundary queues and the Go workers keep their types.
TypeOK ==
  /\ loop \in [Gens -> {"none", "starting", "ready", "calling", "stopping",
                        "drained", "ended"}]
  /\ current \in [Gens -> 0 .. MaxCalls]
  /\ calls \in [Calls -> [gen : Gens, kind : Keyed \cup Kinds] \cup {NoCall}]
  /\ nextId \in 0 .. MaxCalls
  /\ table \subseteq Calls
  /\ answers \in [Calls -> [status : Statuses, by : Calls]
                             \cup {NoAnswer, Expired}]
  /\ pending \in [Gens -> [Keyed -> 0 .. MaxCalls]]
  /\ sweeper \in {"expire", "sweep"}
  /\ timeouts \in 0 .. MaxTimeouts
  /\ stopAsked \subseteq Gens
  /\ events \in Seq(Calls)
  /\ commands \in Seq(Commands)
  /\ worker \in [Gens -> {"none", "busy", "idle", "stopping", "leaving", "gone"}]
  /\ item \in [Gens -> 0 .. MaxCalls]
  /\ mailbox \in [Gens -> Seq(Calls)]
  /\ detached \subseteq Gens
  /\ poller \in {"polling", "unknown_actor"}
  /\ ran \in [Calls -> Statuses \cup {"no"}]
  /\ misdirected \in BOOLEAN

\* An action or connection event is answered by its own handler, however late
\* the handlers of earlier ones return ("a late ActionResult is ignored without
\* consuming another call's correlation").  Starts and stops are matched by
\* generation and still get their own answer.
OwnAnswer ==
  \A id \in Calls :
    answers[id].status \in Statuses /\ calls[id].kind # "Alarm" =>
      answers[id].by = id

\* Core hears success of an alarm only after the hook of that alarm returned.
AlarmAfterHook ==
  \A id \in Calls :
    answers[id].status = "ok" /\ calls[id].kind = "Alarm" => ran[id] # "no"

\* A correlation is resolved once: no later result, deadline or sweep changes
\* what its receiver was given.
AnsweredOnce ==
  [][\A id \in Calls : answers[id] # NoAnswer => answers'[id] = answers[id]]_vars

\* No event of a generation reaches the pump after the worker left its table:
\* handleInternalEvent's "unknown actor" errors, which end the pump for every
\* actor, do not occur.
PumpSurvives == poller = "polling"

\* A StopIntent stops the generation whose handler panicked and no other,
\* though it names only the actor: it is dispatched before that generation has
\* ended.
StopsOwnGeneration == ~misdirected

\* No request holds the loop of a generation for ever: its answer or its
\* deadline lets the loop go on, even when Go never answers.
LoopsGoOn ==
  \A g \in Gens :
    loop[g] \in {"starting", "calling", "stopping"} ~>
      loop[g] \in {"ready", "drained", "ended"}

\* When the native side of a generation has ended, its Go worker leaves too.
WorkersFollow ==
  \A g \in Gens : loop[g] = "ended" ~> worker[g] = "gone"

\* After a StopIntent the worker gets its ActorStop and leaves (or the bound on
\* requests is used up).
IntentEndsWorker ==
  \A g \in Gens :
    worker[g] = "stopping" ~> worker[g] = "gone" \/ nextId = MaxCalls
=============================================================================
