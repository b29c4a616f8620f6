------------------------ MODULE ActorLifecycleProofs ------------------------
(***************************************************************************)
(* Proofs about ActorLifecycle, for any number of generations, requests    *)
(* and timeouts and any handler failures.                                  *)
(*                                                                         *)
(* A result of ActorStart or ActorStop names a generation only.  It still  *)
(* finds its own request because a generation starts once and stops once   *)
(* (OnceInv), which the phases of the native loop ensure (PhaseInv), and   *)
(* because LifecyclePending only holds ids of its key (KeyInv).            *)
(*                                                                         *)
(* When no correlation expires, the loop of a generation has one request   *)
(* open (OpenInv), which is at one place of its way through the queues     *)
(* (LineInv), and a worker leaves only with the handler of that request    *)
(* (FinalInv): no event is left behind for a worker that has gone.         *)
(***************************************************************************)
EXTENDS ActorLifecycle, TLAPS

-----------------------------------------------------------------------------
(* The inductive invariant *)

\* Ids above the counter are unused.
FreshInv ==
  \A id \in Calls :
    /\ id > nextId => calls[id] = NoCall /\ id \notin table
    /\ id > nextId \/ id \in table => answers[id] = NoAnswer

KeyInv ==
  \A g \in Gens, k \in Keyed :
    pending[g][k] # 0 => calls[pending[g][k]] = [gen |-> g, kind |-> k]

OnceInv ==
  \A i, j \in Calls :
    calls[i].kind \in {"Start", "Stop"} /\ calls[i] = calls[j] => i = j

PhaseInv ==
  \A id \in Calls :
    /\ calls[id].kind = "Start" => loop[calls[id].gen] # "none"
    /\ calls[id].kind = "Stop" =>
         loop[calls[id].gen] \in {"stopping", "drained", "ended"}

\* The loop awaits a request of its own.
AwaitInv ==
  \A g \in Gens :
    /\ loop[g] \in {"starting", "calling", "stopping"} => current[g] \in Calls
    /\ loop[g] = "stopping" => calls[current[g]].kind = "Stop"

BusyInv ==
  \A g \in Gens : worker[g] \in {"busy", "stopping"} => item[g] \in Calls

IInv == TypeOK /\ FreshInv /\ KeyInv /\ OnceInv /\ PhaseInv /\ AwaitInv
        /\ BusyInv /\ OwnAnswer

LEMMA Initially == Init => IInv
<1> SUFFICES ASSUME Init PROVE IInv
  BY Zenon
<1> USE LifecycleAssumption DEF Init
<1>1. TypeOK
  <2>1. misdirected \in BOOLEAN
    BY Zenon
  <2> QED
    BY <2>1 DEF TypeOK, Calls, Gens, NoCall, NoAnswer
<1>2. FreshInv /\ KeyInv /\ OnceInv /\ PhaseInv
  BY Zenon DEF FreshInv, KeyInv, OnceInv, PhaseInv, NoCall
<1>3. AwaitInv /\ BusyInv
  BY Zenon DEF AwaitInv, BusyInv
<1>4. OwnAnswer
  BY Zenon DEF OwnAnswer, NoAnswer, Statuses
<1> QED
  BY <1>1, <1>2, <1>3, <1>4, Zenon DEF IInv

-----------------------------------------------------------------------------
(* Steps *)

\* What taking the head off a queue leaves.
LEMMA QueueHead ==
  ASSUME NEW S, NEW q \in Seq(S), q # << >>
  PROVE  Head(q) \in S /\ Tail(q) \in Seq(S)
OBVIOUS

\* The shape of Next that the invariance proofs follow.
LEMMA NextCases ==
  ASSUME Next
  PROVE  \/ \E g \in Gens :
             \/ StartActor(g)
             \/ \E kind \in Kinds \cap {"Action", "Connection", "Close"} :
                  CallActor(g, kind)
             \/ "Alarm" \in Kinds /\ FireAlarm(g)
             \/ "Alarm" \in Kinds /\ RefuseAlarm(g)
             \/ "Message" \in Kinds /\ EmitMessage(g)
             \/ StopActor(g)
             \/ Resume(g)
             \/ EventsClosed(g)
             \/ Overrun(g)
             \/ Take(g)
             \/ \E status \in Statuses : Finish(g, status)
             \/ RequestErrorStop(g)
             \/ Leave(g)
         \/ \E id \in Calls : Expire(id)
         \/ Sweep
         \/ DispatchResult
         \/ DispatchStopIntent
         \/ \E id \in Calls :
             PollStart(id) \/ PollDeliver(id) \/ PollIgnore(id) \/ PollUnknown(id)
         \/ Finished
BY Zenon DEF Next, Worker, Poll, Dispatch

\* A new request gets the next id, and it is fresh.
LEMMA NewId ==
  ASSUME TypeOK, nextId < MaxCalls
  PROVE  nextId + 1 \in Calls /\ nextId + 1 # 0 /\ nextId \in Nat
BY LifecycleAssumption DEF TypeOK, Calls

LEMMA AfterType ==
  ASSUME NEW kind, NEW status
  PROVE  After(kind, status) \in {"leaving", "stopping", "idle"}
BY Zenon DEF After

LEMMA ProceedType ==
  ASSUME NEW kind, NEW status
  PROVE  Proceed(kind, status) \in {"ready", "drained", "ended"}
BY Zenon DEF Proceed

\* Removing an entry of LifecyclePending.
LEMMA Removed ==
  ASSUME NEW p \in [Gens -> [Keyed -> 0 .. MaxCalls]], NEW g, NEW k
  PROVE  /\ [p EXCEPT ![g][k] = 0] \in [Gens -> [Keyed -> 0 .. MaxCalls]]
         /\ \A h \in Gens, m \in Keyed :
              [p EXCEPT ![g][k] = 0][h][m] \in {0, p[h][m]}
<1>0. 0 \in 0 .. MaxCalls
  BY LifecycleAssumption
<1>1. CASE g \in Gens
  <2> DEFINE row == [p[g] EXCEPT ![k] = 0]
  <2>1. p[g] \in [Keyed -> 0 .. MaxCalls]
    BY <1>1, Zenon
  <2>2. row \in [Keyed -> 0 .. MaxCalls] /\ \A m \in Keyed : row[m] \in {0, p[g][m]}
    BY <1>0, <2>1, Zenon
  <2>3. [p EXCEPT ![g][k] = 0] = [p EXCEPT ![g] = row]
    BY <1>1, Zenon
  <2> HIDE DEF row
  <2> QED
    BY <1>1, <2>2, <2>3, Zenon
<1>2. CASE g \notin Gens
  <2>1. [p EXCEPT ![g][k] = 0] = p
    BY <1>2, Zenon
  <2> QED
    BY <2>1, Zenon
<1> QED
  BY <1>1, <1>2, Zenon

LEMMA TypeStep ==
  ASSUME TypeOK, BusyInv, [Next]_vars
  PROVE  TypeOK'
<1> USE LifecycleAssumption
<1> USE DEF callVars, tableVars, sweepVars, loopVars, workVars, stopVars
<1>1. ASSUME NEW g \in Gens, NEW kind \in Keyed \cup Kinds, NewCall(g, kind)
      PROVE  /\ calls' \in [Calls -> [gen : Gens, kind : Keyed \cup Kinds]
                                       \cup {NoCall}]
             /\ nextId' \in 0 .. MaxCalls
             /\ nextId + 1 \in Calls
  BY <1>1 DEF TypeOK, NewCall, Calls
<1>2. ASSUME NEW g \in Gens, NEW kind \in Keyed \cup Kinds, NEW state,
             Request(g, kind), Await(g, state),
             state \in {"starting", "calling", "stopping"}
      PROVE  /\ table' \subseteq Calls
             /\ events' \in Seq(Calls)
             /\ current' \in [Gens -> 0 .. MaxCalls]
             /\ loop' \in [Gens -> {"none", "starting", "ready", "calling",
                                    "stopping", "drained", "ended"}]
  <2>1. nextId + 1 \in Calls
    BY <1>1, <1>2, Zenon DEF Request
  <2> QED
    BY <1>2, <2>1 DEF TypeOK, Request, Await, Calls
<1>3. ASSUME NEW g \in Gens, NEW k \in Keyed, nextId + 1 \in Calls
      PROVE  [pending EXCEPT ![g][k] = nextId + 1]
               \in [Gens -> [Keyed -> 0 .. MaxCalls]]
  BY <1>3 DEF TypeOK, Calls
<1>4. ASSUME NEW g \in Gens, StartActor(g)
      PROVE  TypeOK'
  <2>1. "Start" \in Keyed
    BY Zenon DEF Keyed
  <2> QED
    BY <1>4, <1>1, <1>2, <1>3, <2>1, SMTT(30) DEF TypeOK, StartActor, Request
<1>5. ASSUME NEW g \in Gens,
             NEW kind \in Kinds \cap {"Action", "Connection", "Close"},
             CallActor(g, kind)
      PROVE  TypeOK'
  BY <1>5, <1>1, <1>2, Zenon DEF TypeOK, CallActor, Request
<1>6. ASSUME NEW g \in Gens, FireAlarm(g)
      PROVE  TypeOK'
  <2>1. "Alarm" \in Keyed
    BY Zenon DEF Keyed
  <2> QED
    BY <1>6, <1>1, <1>2, <1>3, <2>1, Zenon DEF TypeOK, FireAlarm, Request
<1>7. ASSUME NEW g \in Gens, RefuseAlarm(g)
      PROVE  TypeOK'
  <2>1. "Alarm" \in Keyed
    BY DEF Keyed
  <2>2. nextId + 1 \in Calls
    BY <1>7, <1>1, <2>1, Zenon DEF RefuseAlarm, Request
  <2> QED
    BY <1>7, <1>1, <1>3, <2>1, <2>2 DEF TypeOK, RefuseAlarm, Request
<1>8. ASSUME NEW g \in Gens, "Message" \in Kinds, EmitMessage(g)
      PROVE  TypeOK'
  BY <1>8, <1>1 DEF TypeOK, EmitMessage
<1>9. ASSUME NEW g \in Gens, StopActor(g)
      PROVE  TypeOK'
  <2>1. "Stop" \in Keyed
    BY Zenon DEF Keyed
  <2> QED
    BY <1>9, <1>1, <1>2, <1>3, <2>1, SMTT(30) DEF TypeOK, StopActor, Request
<1>10. ASSUME NEW g \in Gens, Resume(g) \/ EventsClosed(g) \/ Overrun(g)
       PROVE  TypeOK'
  <2>1. loop' \in [Gens -> {"none", "starting", "ready", "calling", "stopping",
                            "drained", "ended"}]
    <3>1. PICK state \in {"ready", "drained", "ended"} :
            loop' = [loop EXCEPT ![g] = state]
      BY <1>10, ProceedType, Zenon DEF Resume, EventsClosed, Overrun
    <3> QED
      BY <3>1, Zenon DEF TypeOK
  <2>2. pending' \in [Gens -> [Keyed -> 0 .. MaxCalls]]
    <3>1. pending \in [Gens -> [Keyed -> 0 .. MaxCalls]]
      BY Zenon DEF TypeOK
    <3>2. \/ pending' = pending
          \/ \E k : pending' = [pending EXCEPT ![g][k] = 0]
      BY <1>10, Zenon DEF Resume, EventsClosed, Overrun
    <3> QED
      BY <3>1, <3>2, Removed
  <2>3. current' \in [Gens -> 0 .. MaxCalls]
    <3>1. current' = current \/ current' = [current EXCEPT ![g] = 0]
      BY <1>10, Zenon DEF Resume, EventsClosed, Overrun
    <3>2. 0 \in 0 .. MaxCalls
      BY LifecycleAssumption
    <3> QED
      BY <3>1, <3>2, Zenon DEF TypeOK
  <2>4. UNCHANGED <<callVars, table, answers, sweepVars, workVars, stopVars,
                    events, commands, poller>>
    BY <1>10, Zenon DEF Resume, EventsClosed, Overrun
  <2> QED
    BY <2>1, <2>2, <2>3, <2>4 DEF TypeOK
<1>11. ASSUME NEW g \in Gens, Take(g)
       PROVE  TypeOK'
  <2>1. Head(mailbox[g]) \in Calls /\ Tail(mailbox[g]) \in Seq(Calls)
    <3>1. mailbox[g] \in Seq(Calls) /\ mailbox[g] # << >>
      BY <1>11, Zenon DEF TypeOK, Take
    <3> QED
      BY <3>1, QueueHead, Zenon
  <2>2. item' \in [Gens -> 0 .. MaxCalls]
    BY <1>11, <2>1 DEF TypeOK, Take, Calls
  <2>3. mailbox' \in [Gens -> Seq(Calls)]
    BY <1>11, <2>1, Zenon DEF TypeOK, Take
  <2>4. worker' \in [Gens -> {"none", "busy", "idle", "stopping", "leaving", "gone"}]
    BY <1>11, Zenon DEF TypeOK, Take
  <2> QED
    BY <1>11, <2>2, <2>3, <2>4, Zenon DEF TypeOK, Take
<1>12. ASSUME NEW g \in Gens, NEW status \in Statuses, Finish(g, status)
       PROVE  TypeOK'
  <2>1. Result(item[g], status) \in Commands
    BY <1>12, Zenon DEF BusyInv, Finish, Result, Commands
  <2>2. commands' \in Seq(Commands)
    BY <1>12, <2>1 DEF TypeOK, Finish
  <2> QED
    BY <1>12, <2>2, AfterType, Zenon DEF TypeOK, Finish
<1>13. ASSUME NEW g \in Gens, RequestErrorStop(g) \/ Leave(g)
       PROVE  TypeOK'
  <2>1. worker[g] = "stopping" => StopIntent(item[g]) \in Commands
    BY Zenon DEF BusyInv, StopIntent, Commands, Statuses
  <2>2. CASE RequestErrorStop(g)
    <3>1. commands' \in Seq(Commands)
      BY <2>1, <2>2 DEF TypeOK, RequestErrorStop
    <3> QED
      BY <2>2, <3>1, Zenon DEF TypeOK, RequestErrorStop
  <2>3. CASE Leave(g)
    BY <2>3, Zenon DEF TypeOK, Leave
  <2> QED
    BY <1>13, <2>2, <2>3, Zenon
<1>14. ASSUME NEW id \in Calls, Expire(id)
       PROVE  TypeOK'
  BY <1>14 DEF TypeOK, Expire
<1>15. CASE Sweep
  BY <1>15 DEF TypeOK, Sweep
<1>16. CASE DispatchResult
  <2> DEFINE command == Head(commands)
  <2>1. command \in Commands /\ Tail(commands) \in Seq(Commands)
    BY <1>16, QueueHead, Zenon DEF TypeOK, DispatchResult
  <2>2. /\ pending' \in [Gens -> [Keyed -> 0 .. MaxCalls]]
        /\ commands' \in Seq(Commands)
    <3>1. commands' \in Seq(Commands)
      BY <1>16, <2>1, Zenon DEF DispatchResult
    <3>2. \/ pending' = pending
          \/ \E g, k : pending' = [pending EXCEPT ![g][k] = 0]
      BY <1>16, Zenon DEF DispatchResult
    <3>3. pending \in [Gens -> [Keyed -> 0 .. MaxCalls]]
      BY Zenon DEF TypeOK
    <3>4. ASSUME NEW g, NEW k
          PROVE  [pending EXCEPT ![g][k] = 0] \in [Gens -> [Keyed -> 0 .. MaxCalls]]
      BY <3>3, Removed, Zenon
    <3>5. pending' \in [Gens -> [Keyed -> 0 .. MaxCalls]]
      <4>1. CASE pending' = pending
        BY <4>1, <3>3, Zenon
      <4>2. CASE \E g, k : pending' = [pending EXCEPT ![g][k] = 0]
        <5>1. PICK g, k : pending' = [pending EXCEPT ![g][k] = 0]
          BY <4>2, Zenon
        <5> QED
          BY <5>1, <3>4, Zenon
      <4> QED
        BY <3>2, <4>1, <4>2, Zenon
    <3> QED
      BY <3>1, <3>5
  <2>3. [status |-> command.status, by |-> command.call]
          \in [status : Statuses, by : Calls]
    BY <2>1 DEF Commands
  <2>4. table' \subseteq Calls
    BY <1>16, Zenon DEF TypeOK, DispatchResult, Resolve
  <2>5. answers' \in [Calls -> [status : Statuses, by : Calls]
                                 \cup {NoAnswer, Expired}]
    BY <1>16, <2>3, Zenon DEF TypeOK, DispatchResult, Resolve
  <2> QED
    BY <1>16, <2>2, <2>4, <2>5, Zenon DEF TypeOK, DispatchResult
<1>17. CASE DispatchStopIntent
  <2>1. commands' \in Seq(Commands)
    BY <1>17, QueueHead, Zenon DEF TypeOK, DispatchStopIntent
  <2>2. misdirected' \in BOOLEAN
    BY <1>17, Zenon DEF DispatchStopIntent
  <2>3. stopAsked' \subseteq Gens
    BY <1>17, Zenon DEF TypeOK, DispatchStopIntent
  <2> QED
    BY <1>17, <2>1, <2>2, <2>3, Zenon DEF TypeOK, DispatchStopIntent
<1>18. ASSUME NEW id \in Calls,
              PollStart(id) \/ PollDeliver(id) \/ PollIgnore(id) \/ PollUnknown(id)
       PROVE  TypeOK'
  <2>1. NextEvent(id) => events' \in Seq(Calls)
    BY QueueHead DEF TypeOK, NextEvent
  <2>2. CASE PollStart(id)
    <3>1. calls[id].gen \in Gens
      BY <2>2 DEF TypeOK, PollStart, NoCall
    <3>2. id \in 0 .. MaxCalls
      BY DEF Calls
    <3> QED
      BY <2>1, <2>2, <3>1, <3>2, SMTT(30) DEF TypeOK, PollStart
  <2>3. CASE PollDeliver(id)
    <3>1. mailbox' \in [Gens -> Seq(Calls)]
      <4> DEFINE g == calls[id].gen
      <4>1. mailbox' = [mailbox EXCEPT ![g] = Append(@, id)]
        BY <2>3, Zenon DEF PollDeliver
      <4>2. CASE g \in Gens
        <5>1. Append(mailbox[g], id) \in Seq(Calls)
          BY <4>2 DEF TypeOK
        <5> QED
          BY <4>1, <4>2, <5>1, Zenon DEF TypeOK
      <4>3. CASE g \notin Gens
        BY <4>1, <4>3, Zenon DEF TypeOK
      <4> QED
        BY <4>2, <4>3, Zenon
    <3>2. calls[id].kind = "Stop" => calls[id].gen \in Gens
      BY DEF TypeOK, NoCall
    <3>3. detached' \subseteq Gens
      BY <2>3, <3>2, Zenon DEF TypeOK, PollDeliver
    <3> QED
      BY <2>1, <2>3, <3>1, <3>3, SMTT(30) DEF TypeOK, PollDeliver
  <2>4. CASE PollIgnore(id)
    BY <2>1, <2>4, Zenon DEF TypeOK, PollIgnore
  <2>5. CASE PollUnknown(id)
    BY <2>1, <2>5, Zenon DEF TypeOK, PollUnknown
  <2> QED
    BY <1>18, <2>2, <2>3, <2>4, <2>5, Zenon
<1>19. CASE UNCHANGED vars
  BY <1>19, Zenon DEF TypeOK, vars
<1>20. CASE Finished
  BY <1>19, <1>20, Zenon DEF Finished
<1> QED
  BY NextCases, <1>4, <1>5, <1>6, <1>7, <1>8, <1>9, <1>10, <1>11, <1>12, <1>13,
     <1>14, <1>15, <1>16, <1>17, <1>18, <1>19, <1>20, Zenon
-----------------------------------------------------------------------------
(* What the steps do to the native tables *)

\* A request or a message takes the next id.
Opens(g, kind) ==
  /\ NewCall(g, kind)
  /\ answers' = answers
  /\ table' \in {table, table \cup {nextId + 1}}
  /\ \/ pending' = pending
     \/ kind \in Keyed /\ pending' = [pending EXCEPT ![g][kind] = nextId + 1]
  /\ \/ kind \in Kinds /\ UNCHANGED loopVars
     \/ kind \in Kinds /\ loop[g] = "ready" /\ Await(g, "calling")
     \/ kind = "Start" /\ loop[g] = "none" /\ Await(g, "starting")
     \/ kind = "Stop" /\ loop[g] = "ready" /\ Await(g, "stopping")

\* Entries of LifecyclePending go away.
Shrinks ==
  \A g \in Gens, k \in Keyed : pending'[g][k] \in {0, pending[g][k]}

\* An entry of the table is answered, by the deadline or by a result for it.
Closes(id) ==
  /\ id \in table
  /\ table' = table \ {id}
  /\ \/ answers' = [answers EXCEPT ![id] = Expired]
     \/ \E command \in Commands :
          id = Target(command) /\ Resolve(id, command)

\* The loop of a generation goes on, or ends.
Moves(g) ==
  /\ loop[g] # "none"
  /\ \E state \in {"ready", "drained", "ended"} :
       /\ loop' = [loop EXCEPT ![g] = state]
       /\ loop[g] \in {"stopping", "drained", "ended"} => state # "ready"

Shape ==
  \/ \E g \in Gens, kind \in Keyed \cup Kinds : Opens(g, kind)
  \/ /\ UNCHANGED <<calls, nextId>>
     /\ Shrinks
     /\ \/ \E id \in Calls : Closes(id) /\ UNCHANGED loopVars
        \/ \E g \in Gens : Moves(g) /\ UNCHANGED <<table, answers>>
                             /\ \/ current' = [current EXCEPT ![g] = 0]
                                \/ current' = current
        \/ UNCHANGED <<table, answers, loopVars>>

\* After a stop the loop does not become ready again.
LEMMA ProceedFromStop ==
  ASSUME NEW status
  PROVE  Proceed("Stop", status) # "ready"
BY Zenon DEF Proceed

LEMMA Shapes ==
  ASSUME TypeOK, AwaitInv, [Next]_vars
  PROVE  Shape
<1> USE DEF callVars, tableVars, loopVars
<1>1. ASSUME NEW g \in Gens, StartActor(g)
      PROVE  Shape
  <2>1. "Start" \in Keyed
    BY Zenon DEF Keyed
  <2>2. Opens(g, "Start")
    BY <1>1, <2>1, Zenon DEF StartActor, Opens, Request
  <2> QED
    BY <2>1, <2>2, Zenon DEF Shape
<1>2. ASSUME NEW g \in Gens,
             NEW kind \in Kinds \cap {"Action", "Connection", "Close"},
             CallActor(g, kind)
      PROVE  Shape
  <2>1. kind \in Kinds
    BY Zenon
  <2>2. Opens(g, kind)
    BY <1>2, <2>1, Zenon DEF CallActor, Opens, Request
  <2> QED
    BY <2>1, <2>2, Zenon DEF Shape
<1>3. ASSUME NEW g \in Gens, "Alarm" \in Kinds, FireAlarm(g) \/ RefuseAlarm(g)
      PROVE  Shape
  <2>1. "Alarm" \in Keyed
    BY Zenon DEF Keyed
  <2>2. Opens(g, "Alarm")
    BY <1>3, <2>1, Zenon DEF FireAlarm, RefuseAlarm, Opens, Request
  <2> QED
    BY <2>1, <2>2, Zenon DEF Shape
<1>4. ASSUME NEW g \in Gens, "Message" \in Kinds, EmitMessage(g)
      PROVE  Shape
  <2>1. Opens(g, "Message")
    BY <1>4, Zenon DEF EmitMessage, Opens
  <2> QED
    BY <1>4, <2>1, Zenon DEF Shape
<1>5. ASSUME NEW g \in Gens, StopActor(g)
      PROVE  Shape
  <2>1. "Stop" \in Keyed
    BY Zenon DEF Keyed
  <2>2. Opens(g, "Stop")
    BY <1>5, <2>1, Zenon DEF StopActor, Opens, Request
  <2> QED
    BY <2>1, <2>2, Zenon DEF Shape
<1>6. pending' = pending => Shrinks
  BY Zenon DEF Shrinks
<1>7. ASSUME NEW g, NEW k, pending' = [pending EXCEPT ![g][k] = 0]
      PROVE  Shrinks
  BY <1>7, Removed, Zenon DEF TypeOK, Shrinks
<1>8. ASSUME NEW g \in Gens, Resume(g) \/ EventsClosed(g) \/ Overrun(g)
      PROVE  Shape
  <2>1. Shrinks
    BY <1>6, <1>7, <1>8, Zenon DEF Resume, EventsClosed, Overrun
  <2>2. Moves(g)
    <3>1. CASE Resume(g)
      BY <3>1, ProceedType, ProceedFromStop, Zenon DEF Resume, Moves, AwaitInv
    <3>2. CASE EventsClosed(g)
      BY <3>2, Zenon DEF EventsClosed, Moves
    <3>3. CASE Overrun(g)
      BY <3>3, Zenon DEF Overrun, Moves
    <3> QED
      BY <1>8, <3>1, <3>2, <3>3, Zenon
  <2> QED
    BY <1>8, <2>1, <2>2, Zenon DEF Shape, Resume, EventsClosed, Overrun
<1>9. ASSUME NEW id \in Calls, Expire(id)
      PROVE  Shape
  <2>1. Closes(id)
    BY <1>9, Zenon DEF Expire, Closes
  <2> QED
    BY <1>6, <1>9, <2>1, Zenon DEF Expire, Shape
<1>10. CASE Sweep
  <2>1. Shrinks
    BY <1>10, Zenon DEF Sweep, Shrinks
  <2> QED
    BY <1>10, <2>1, Zenon DEF Sweep, Shape
<1>11. CASE DispatchResult
  <2> DEFINE command == Head(commands)
  <2>1. command \in Commands
    BY <1>11, QueueHead, Zenon DEF TypeOK, DispatchResult
  <2>2. Shrinks
    BY <1>6, <1>7, <1>11, Zenon DEF DispatchResult
  <2>3. CASE Target(command) \in table
    <3>1. Closes(Target(command)) /\ Target(command) \in Calls
      BY <1>11, <2>1, <2>3, Zenon DEF TypeOK, DispatchResult, Closes, Resolve
    <3> QED
      BY <1>11, <2>2, <3>1, Zenon DEF DispatchResult, Shape
  <2>4. CASE Target(command) \notin table
    BY <1>11, <2>2, <2>4, Zenon DEF DispatchResult, Shape
  <2> QED
    BY <2>3, <2>4
<1>12. ASSUME UNCHANGED <<callVars, tableVars, loopVars>>
       PROVE  Shape
  BY <1>6, <1>12, Zenon DEF Shape
<1>13. ASSUME NEW g \in Gens,
              \/ Take(g) \/ RequestErrorStop(g) \/ Leave(g)
              \/ \E status \in Statuses : Finish(g, status)
       PROVE  Shape
  BY <1>12, <1>13, Zenon DEF Take, RequestErrorStop, Leave, Finish
<1>14. ASSUME NEW id \in Calls,
              PollStart(id) \/ PollDeliver(id) \/ PollIgnore(id) \/ PollUnknown(id)
       PROVE  Shape
  BY <1>12, <1>14, Zenon DEF PollStart, PollDeliver, PollIgnore, PollUnknown
<1>15. CASE DispatchStopIntent
  BY <1>12, <1>15, Zenon DEF DispatchStopIntent
<1>16. CASE Finished \/ UNCHANGED vars
  BY <1>12, <1>16, Zenon DEF Finished, vars
<1> QED
  BY NextCases, <1>1, <1>2, <1>3, <1>4, <1>5, <1>8, <1>9, <1>10, <1>11, <1>13,
     <1>14, <1>15, <1>16, Zenon
-----------------------------------------------------------------------------
(* The invariant is inductive *)

\* What the next id is before and after a step opens it.
NextIsFresh(g, kind) ==
  /\ nextId + 1 \in Calls
  /\ nextId' = nextId + 1
  /\ nextId \in Nat
  /\ calls[nextId + 1] = NoCall
  /\ calls'[nextId + 1] = [gen |-> g, kind |-> kind]
  /\ \A id \in Calls : id # nextId + 1 => calls'[id] = calls[id]
  /\ answers[nextId + 1] = NoAnswer

LEMMA Opened ==
  ASSUME TypeOK, FreshInv, NEW g \in Gens, NEW kind \in Keyed \cup Kinds,
         Opens(g, kind)
  PROVE  NextIsFresh(g, kind)
<1>1. nextId + 1 \in Calls /\ nextId' = nextId + 1 /\ nextId \in Nat
  BY NewId, Zenon DEF Opens, NewCall
<1>2. calls' = [calls EXCEPT ![nextId + 1] = [gen |-> g, kind |-> kind]]
  BY Zenon DEF Opens, NewCall
<1>3. calls[nextId + 1] = NoCall /\ answers[nextId + 1] = NoAnswer
  BY <1>1 DEF FreshInv
<1> QED
  BY <1>1, <1>2, <1>3, Zenon DEF TypeOK, NextIsFresh

LEMMA FreshStep ==
  ASSUME TypeOK, FreshInv, Shape
  PROVE  FreshInv'
<1>1. ASSUME NEW g \in Gens, NEW kind \in Keyed \cup Kinds, Opens(g, kind)
      PROVE  FreshInv'
  <2>1. answers' = answers /\ table' \in {table, table \cup {nextId + 1}}
    BY <1>1, Zenon DEF Opens
  <2>2. NextIsFresh(g, kind)
    BY <1>1, Opened, Zenon
  <2> QED
    BY <2>1, <2>2 DEF FreshInv, NextIsFresh, Calls
<1>2. ASSUME UNCHANGED <<calls, nextId>>, NEW id \in Calls, Closes(id)
      PROVE  FreshInv'
  <2>1. id <= nextId
    BY <1>2 DEF FreshInv, Closes, Calls, TypeOK
  <2>2. \A i \in Calls : i # id => answers'[i] = answers[i]
    BY <1>2, Zenon DEF TypeOK, Closes, Resolve
  <2> QED
    BY <1>2, <2>1, <2>2, Zenon DEF FreshInv, Closes, Calls, TypeOK
<1>3. ASSUME UNCHANGED <<calls, nextId, table, answers>>
      PROVE  FreshInv'
  BY <1>3, Zenon DEF FreshInv
<1> QED
  BY <1>1, <1>2, <1>3, Zenon DEF Shape

LEMMA KeyStep ==
  ASSUME TypeOK, FreshInv, KeyInv, Shape
  PROVE  KeyInv'
<1>1. ASSUME NEW g \in Gens, NEW kind \in Keyed \cup Kinds, Opens(g, kind)
      PROVE  KeyInv'
  <2> SUFFICES ASSUME NEW h \in Gens, NEW k \in Keyed, pending'[h][k] # 0
               PROVE  calls'[pending'[h][k]] = [gen |-> h, kind |-> k]
    BY Zenon DEF KeyInv
  <2>0. NextIsFresh(g, kind)
    BY <1>1, Opened, Zenon
  <2>1. pending[h][k] \in 0 .. MaxCalls
    BY Zenon DEF TypeOK
  <2>2. CASE pending'[h][k] = pending[h][k]
    <3>1. calls[pending[h][k]] = [gen |-> h, kind |-> k] /\ pending[h][k] \in Calls
      BY <2>1, <2>2 DEF KeyInv, Calls
    <3>2. [gen |-> h, kind |-> k] # NoCall
      BY Zenon DEF NoCall, Keyed
    <3> QED
      BY <2>0, <2>2, <3>1, <3>2 DEF NextIsFresh
  <2>3. CASE pending'[h][k] # pending[h][k]
    <3>1. h = g /\ k = kind /\ pending'[h][k] = nextId + 1
      BY <1>1, <2>3, SMTT(30) DEF Opens, TypeOK
    <3> QED
      BY <2>0, <3>1, Zenon DEF NextIsFresh
  <2> QED
    BY <2>2, <2>3, Zenon
<1>2. ASSUME UNCHANGED calls, Shrinks
      PROVE  KeyInv'
  BY <1>2 DEF KeyInv, Shrinks
<1> QED
  BY <1>1, <1>2, Zenon DEF Shape

LEMMA PhaseStep ==
  ASSUME TypeOK, FreshInv, PhaseInv, OnceInv, AwaitInv, Shape
  PROVE  PhaseInv' /\ OnceInv' /\ AwaitInv'
<1>1. ASSUME NEW g \in Gens, NEW kind \in Keyed \cup Kinds, Opens(g, kind)
      PROVE  PhaseInv' /\ OnceInv' /\ AwaitInv'
  <2>0. kind \in Kinds => kind \notin {"Start", "Stop"}
    BY LifecycleAssumption, Zenon DEF AllKinds
  <2>1. NextIsFresh(g, kind)
    BY <1>1, Opened, Zenon
  <2>2. /\ \A h \in Gens \ {g} : loop'[h] = loop[h] /\ current'[h] = current[h]
        /\ \/ kind \in Kinds /\ loop'[g] = loop[g] /\ current'[g] = current[g]
           \/ /\ current'[g] = nextId + 1
              /\ \/ kind \in Kinds /\ loop[g] = "ready" /\ loop'[g] = "calling"
                 \/ kind = "Start" /\ loop[g] = "none" /\ loop'[g] = "starting"
                 \/ kind = "Stop" /\ loop[g] = "ready" /\ loop'[g] = "stopping"
    BY <1>1, Zenon DEF Opens, Await, loopVars, TypeOK
  <2>3. ASSUME NEW id \in Calls
        PROVE  /\ calls'[id].kind = "Start" => loop'[calls'[id].gen] # "none"
               /\ calls'[id].kind = "Stop" =>
                    loop'[calls'[id].gen] \in {"stopping", "drained", "ended"}
    <3>1. CASE id = nextId + 1
      <4>1. calls'[id].gen = g /\ calls'[id].kind = kind
        BY <2>1, <3>1 DEF NextIsFresh
      <4> QED
        BY <2>0, <2>2, <4>1, Zenon
    <3>2. CASE id # nextId + 1
      <4>1. calls'[id] = calls[id]
        BY <2>1, <3>2, Zenon DEF NextIsFresh
      <4>2. calls[id].kind \in {"Start", "Stop"} => calls[id].gen \in Gens
        BY DEF TypeOK, NoCall
      <4> QED
        BY <2>2, <4>1, <4>2 DEF PhaseInv
    <3> QED
      BY <3>1, <3>2, Zenon
  <2>4. OnceInv'
    <3>1. ASSUME NEW id \in Calls, kind \in {"Start", "Stop"}
          PROVE  calls[id] # [gen |-> g, kind |-> kind]
      BY <2>0, <2>2, <3>1 DEF PhaseInv
    <3> SUFFICES ASSUME NEW i \in Calls, NEW j \in Calls,
                        calls'[i].kind \in {"Start", "Stop"},
                        calls'[i] = calls'[j], i # j
                 PROVE  FALSE
      BY Zenon DEF OnceInv
    <3>2. CASE i # nextId + 1 /\ j # nextId + 1
      BY <2>1, <3>2, Zenon DEF OnceInv, NextIsFresh
    <3>3. CASE i = nextId + 1
      BY <2>1, <3>1, <3>3 DEF NextIsFresh
    <3>4. CASE j = nextId + 1
      BY <2>1, <3>1, <3>4 DEF NextIsFresh
    <3> QED
      BY <3>2, <3>3, <3>4, Zenon
  <2>5. ASSUME NEW h \in Gens
        PROVE  /\ loop'[h] \in {"starting", "calling", "stopping"} =>
                    current'[h] \in Calls
               /\ loop'[h] = "stopping" => calls'[current'[h]].kind = "Stop"
    <3>1. CASE loop'[h] = loop[h] /\ current'[h] = current[h]
      <4>1. calls[nextId + 1].kind # "Stop"
        BY <2>1 DEF NextIsFresh, NoCall
      <4> QED
        BY <2>1, <3>1, <4>1, ZenonT(30) DEF AwaitInv, NextIsFresh
    <3>2. CASE h = g /\ current'[g] = nextId + 1 /\ loop'[g] # loop[g]
      BY <2>0, <2>1, <2>2, <3>2 DEF NextIsFresh
    <3> QED
      BY <2>2, <3>1, <3>2, Zenon
  <2> QED
    BY <2>3, <2>4, <2>5, Zenon DEF PhaseInv, AwaitInv
<1>2. ASSUME UNCHANGED calls, NEW g \in Gens, Moves(g),
             current' = [current EXCEPT ![g] = 0] \/ current' = current
      PROVE  PhaseInv' /\ OnceInv' /\ AwaitInv'
  <2>1. PICK state \in {"ready", "drained", "ended"} :
          /\ loop' = [loop EXCEPT ![g] = state]
          /\ loop[g] \in {"stopping", "drained", "ended"} => state # "ready"
    BY <1>2, Zenon DEF Moves
  <2>2. PhaseInv'
    BY <1>2, <2>1 DEF PhaseInv, TypeOK
  <2>3. OnceInv'
    BY <1>2, Zenon DEF OnceInv
  <2>4. AwaitInv'
    BY <1>2, <2>1 DEF AwaitInv, TypeOK
  <2> QED
    BY <2>2, <2>3, <2>4, Zenon
<1>3. ASSUME UNCHANGED <<calls, loopVars>>
      PROVE  PhaseInv' /\ OnceInv' /\ AwaitInv'
  BY <1>3, Zenon DEF PhaseInv, OnceInv, AwaitInv, loopVars
<1> QED
  BY <1>1, <1>2, <1>3, Zenon DEF Shape
LEMMA BusyStep ==
  ASSUME TypeOK, BusyInv, [Next]_vars
  PROVE  BusyInv'
<1> USE DEF workVars
<1>1. ASSUME UNCHANGED <<worker, item>>
      PROVE  BusyInv'
  BY <1>1, Zenon DEF BusyInv
<1>2. ASSUME NEW g \in Gens, Take(g)
      PROVE  BusyInv'
  <2>1. Head(mailbox[g]) \in Calls
    BY <1>2, QueueHead, Zenon DEF TypeOK, Take
  <2> QED
    BY <1>2, <2>1, Zenon DEF TypeOK, BusyInv, Take
<1>3. ASSUME NEW g \in Gens, NEW status \in Statuses, Finish(g, status)
      PROVE  BusyInv'
  BY <1>3, Zenon DEF TypeOK, BusyInv, Finish
<1>4. ASSUME NEW g \in Gens, RequestErrorStop(g) \/ Leave(g)
      PROVE  BusyInv'
  BY <1>4, Zenon DEF TypeOK, BusyInv, RequestErrorStop, Leave
<1>5. ASSUME NEW id \in Calls, PollStart(id)
      PROVE  BusyInv'
  BY <1>5, Zenon DEF TypeOK, BusyInv, PollStart
<1>6. ASSUME NEW id \in Calls, PollDeliver(id) \/ PollIgnore(id) \/ PollUnknown(id)
      PROVE  UNCHANGED <<worker, item>>
  BY <1>6, Zenon DEF PollDeliver, PollIgnore, PollUnknown
<1>7. ASSUME NEW g \in Gens,
             \/ StartActor(g) \/ FireAlarm(g) \/ RefuseAlarm(g) \/ EmitMessage(g)
             \/ StopActor(g) \/ Resume(g) \/ EventsClosed(g) \/ Overrun(g)
             \/ \E kind \in Kinds : CallActor(g, kind)
      PROVE  UNCHANGED <<worker, item>>
  BY <1>7, Zenon DEF StartActor, FireAlarm, RefuseAlarm, EmitMessage, StopActor,
                     Resume, EventsClosed, Overrun, CallActor
<1>8. ASSUME \/ Sweep \/ DispatchResult \/ DispatchStopIntent \/ Finished
             \/ UNCHANGED vars \/ \E id \in Calls : Expire(id)
      PROVE  UNCHANGED <<worker, item>>
  BY <1>8, Zenon DEF Sweep, DispatchResult, DispatchStopIntent, Finished, Expire,
                     vars
<1> QED
  BY NextCases, <1>1, <1>2, <1>3, <1>4, <1>5, <1>6, <1>7, <1>8, Zenon

\* A result that finds an entry of the table has found its own request, or
\* that of an alarm.
LEMMA TargetIsOwn ==
  ASSUME TypeOK, KeyInv, OnceInv, NEW command \in Commands,
         Target(command) \in table
  PROVE  \/ command.call = Target(command)
         \/ calls[Target(command)].kind = "Alarm"
<1> DEFINE call == calls[command.call]
           id == Target(command)
<1>1. command.call \in Calls /\ id \in Calls
  BY Zenon DEF Commands, TypeOK
<1>2. CASE call.kind \notin Keyed
  BY <1>2, Zenon DEF Target
<1>3. CASE call.kind \in Keyed
  <2>1. call \in [gen : Gens, kind : Keyed \cup Kinds]
    BY <1>1, <1>3 DEF TypeOK, NoCall, Keyed
  <2>2. id = pending[call.gen][call.kind] /\ id # 0
    BY <1>1, <1>3, SMTT(30) DEF Target, Calls
  <2>3. calls[id] = [gen |-> call.gen, kind |-> call.kind]
    <3>1. call.gen \in Gens /\ call.kind \in Keyed
      BY <1>3, <2>1, Zenon
    <3> QED
      BY <3>1, <2>2 DEF KeyInv
  <2>4. calls[id] = call
    BY <2>1, <2>3, Zenon
  <2> QED
    BY <1>1, <1>3, <2>4 DEF OnceInv, Keyed
<1> QED
  BY <1>2, <1>3, Zenon

LEMMA AnswerStep ==
  ASSUME TypeOK, FreshInv, KeyInv, OnceInv, OwnAnswer, Shape
  PROVE  OwnAnswer'
<1>1. ASSUME NEW g \in Gens, NEW kind \in Keyed \cup Kinds, Opens(g, kind)
      PROVE  OwnAnswer'
  <2>1. NextIsFresh(g, kind) /\ answers' = answers
    BY <1>1, Opened, Zenon DEF Opens
  <2>2. NoAnswer.status \notin Statuses
    BY Zenon DEF NoAnswer, Statuses
  <2> QED
    BY <2>1, <2>2, Zenon DEF OwnAnswer, NextIsFresh
<1>2. ASSUME UNCHANGED calls, NEW id \in Calls, Closes(id)
      PROVE  OwnAnswer'
  <2>1. CASE answers' = [answers EXCEPT ![id] = Expired]
    <3>1. Expired.status \notin Statuses
      BY DEF Expired, Statuses
    <3> QED
      BY <1>2, <2>1, <3>1, Zenon DEF OwnAnswer, TypeOK
  <2>2. ASSUME NEW command \in Commands, id = Target(command), Resolve(id, command)
        PROVE  OwnAnswer'
    <3>1. command.call = id \/ calls[id].kind = "Alarm"
      BY <1>2, <2>2, TargetIsOwn, Zenon DEF Closes
    <3> QED
      BY <1>2, <2>2, <3>1, Zenon DEF OwnAnswer, TypeOK, Resolve
  <2> QED
    BY <1>2, <2>1, <2>2, Zenon DEF Closes
<1>3. ASSUME UNCHANGED <<calls, answers>>
      PROVE  OwnAnswer'
  BY <1>3, Zenon DEF OwnAnswer
<1> QED
  BY <1>1, <1>2, <1>3, Zenon DEF Shape

LEMMA Invariance == Spec => []IInv
<1>1. IInv /\ [Next]_vars => IInv'
  <2> SUFFICES ASSUME IInv, [Next]_vars PROVE IInv'
    BY Zenon
  <2>1. TypeOK /\ FreshInv /\ KeyInv /\ OnceInv /\ PhaseInv /\ AwaitInv /\ BusyInv
        /\ OwnAnswer
    BY Zenon DEF IInv
  <2>2. Shape
    BY <2>1, Shapes, Zenon
  <2>3. TypeOK' /\ BusyInv'
    BY <2>1, TypeStep, BusyStep, Zenon
  <2>4. FreshInv' /\ KeyInv' /\ OwnAnswer'
    BY <2>1, <2>2, FreshStep, KeyStep, AnswerStep, Zenon
  <2>5. PhaseInv' /\ OnceInv' /\ AwaitInv'
    BY <2>1, <2>2, PhaseStep, Zenon
  <2> QED
    BY <2>3, <2>4, <2>5, Zenon DEF IInv
<1> QED
  BY Initially, <1>1, PTL DEF Spec

-----------------------------------------------------------------------------
(* Theorems *)

\* The native tables, the boundary queues and the workers keep their types.
THEOREM LifecycleTypes == Spec => []TypeOK
<1>1. IInv => TypeOK
  BY Zenon DEF IInv
<1> QED
  BY Invariance, <1>1, PTL

\* Whatever times out, overruns or panics, no start, stop, action or connection
\* event is answered with the result of another.
THEOREM AnswersAreOwn == Spec => []OwnAnswer
<1>1. IInv => OwnAnswer
  BY Zenon DEF IInv
<1> QED
  BY Invariance, <1>1, PTL

\* A receiver of the correlation table is given one answer: the table never
\* holds an id that was answered, so neither a late result nor the sweep finds
\* it again.
THEOREM OneAnswer == Spec => AnsweredOnce
<1> DEFINE Once ==
      \A id \in Calls : answers[id] # NoAnswer => answers'[id] = answers[id]
<1>1. IInv /\ [Next]_vars => [Once]_vars
  <2> SUFFICES ASSUME IInv, [Next]_vars PROVE Once
    BY Zenon
  <2>1. TypeOK /\ FreshInv /\ AwaitInv
    BY Zenon DEF IInv
  <2>2. Shape
    BY <2>1, Shapes, Zenon
  <2>3. ASSUME NEW id \in Calls, Closes(id)
        PROVE  Once
    BY <2>1, <2>3, Zenon DEF TypeOK, FreshInv, Closes, Resolve
  <2>4. ASSUME answers' = answers
        PROVE  Once
    BY <2>4, Zenon
  <2>5. (\E id \in Calls : Closes(id)) \/ answers' = answers
    BY <2>2, Zenon DEF Shape, Opens
  <2> QED
    BY <2>3, <2>4, <2>5, Zenon
<1> QED
  BY Invariance, <1>1, PTL DEF Spec, AnsweredOnce

-----------------------------------------------------------------------------
(* The way of a request through the queues, when no correlation expires *)

Has(q, x) == \E i \in 1 .. Len(q) : q[i] = x
Rising(q) == \A i, j \in 1 .. Len(q) : i < j => q[i] < q[j]

Waits(g) == loop[g] \in {"starting", "calling", "stopping"}
Left(g) == worker[g] \in {"leaving", "gone"}
Asked(id) == calls[id].kind \notin {"None", "Message"}

\* A handler has ended the way that makes the worker return.
Final(id) == ran[id] # "no" /\ After(calls[id].kind, ran[id]) = "leaving"

\* Requests go to Go in the order of their ids and each handler runs once.
LineInv ==
  /\ Rising(events)
  /\ \A id \in Calls :
       /\ Has(events, id) => calls[id] # NoCall /\ ran[id] = "no"
       /\ id > nextId => ran[id] = "no"
  /\ \A g \in Gens :
       /\ Rising(mailbox[g])
       /\ \A id \in Calls : Has(mailbox[g], id) =>
            /\ calls[id].gen = g
            /\ ran[id] = "no"
            /\ \A j \in Calls : Has(events, j) => id < j
       /\ worker[g] = "busy" =>
            /\ ran[item[g]] = "no"
            /\ \A j \in Calls : Has(mailbox[g], j) \/ Has(events, j) => item[g] < j
       /\ worker[g] \in {"busy", "stopping"} => calls[item[g]].gen = g

\* Before the worker of a generation exists, and when its Start is on its way.
YoungInv ==
  /\ \A g \in Gens :
       /\ worker[g] = "none" => /\ loop[g] \in {"none", "starting"}
                                /\ mailbox[g] = << >>
                                /\ \A id \in Calls : calls[id].gen = g => ran[id] = "no"
       /\ loop[g] = "none" => /\ worker[g] = "none"
                              /\ \A id \in Calls : calls[id].gen # g
  /\ \A id \in Calls :
       Has(events, id) /\ calls[id].kind = "Start" => worker[calls[id].gen] = "none"

\* No two results in the queue are of one request.
Single(q) ==
  \A i, j \in 1 .. Len(q) :
    q[i].kind = "Result" /\ q[j].kind = "Result" /\ q[i].call = q[j].call => i = j

ResultInv ==
  /\ Single(commands)
  /\ \A c \in Commands : Has(commands, c) /\ c.kind = "Result" =>
       ran[c.call] = c.status /\ Asked(c.call) /\ answers[c.call] = NoAnswer
  /\ \A id \in Calls : answers[id] # NoAnswer =>
       answers[id].status \in Statuses /\ ran[id] = answers[id].status

\* The loop awaits its one open request; the pending entry is of that one.
OpenInv ==
  /\ \A g \in Gens :
       /\ Waits(g) => /\ calls[current[g]].gen = g
                      /\ Asked(current[g])
                      /\ loop[g] = "starting" => calls[current[g]].kind = "Start"
       /\ \A k \in Keyed : pending[g][k] # 0 => Waits(g) /\ current[g] = pending[g][k]
  /\ \A id \in Calls : Asked(id) /\ answers[id] = NoAnswer =>
       \/ Waits(calls[id].gen) /\ current[calls[id].gen] = id
       \/ loop[calls[id].gen] = "ended" /\ calls[id].kind = "Stop"

\* A worker leaves with its last handler, which the loop awaits or has awaited.
FinalInv ==
  /\ \A g \in Gens : Left(g) <=> \E id \in Calls : calls[id].gen = g /\ Final(id)
  /\ \A id \in Calls : Final(id) =>
       /\ \/ loop[calls[id].gen] \in {"drained", "ended"}
          \/ Waits(calls[id].gen) /\ current[calls[id].gen] = id
       /\ \A j \in Calls : Asked(j) /\ calls[j].gen = calls[id].gen => ran[j] # "no"

PInv == LineInv /\ YoungInv /\ ResultInv /\ OpenInv /\ FinalInv /\ PumpSurvives

\* Appending to a queue, and taking its head.
LEMMA QueueAppend ==
  ASSUME NEW S, NEW q \in Seq(S), NEW x \in S
  PROVE  \A y : Has(Append(q, x), y) <=> Has(q, y) \/ y = x
<1>1. /\ Len(Append(q, x)) = Len(q) + 1
      /\ \A i \in 1 .. Len(q) : Append(q, x)[i] = q[i]
      /\ Append(q, x)[Len(q) + 1] = x
      /\ Len(q) \in Nat
  OBVIOUS
<1> QED
  BY <1>1 DEF Has

\* The rest of a queue after its head is taken.
LEMMA QueueTail ==
  ASSUME NEW S, NEW q \in Seq(S), q # << >>
  PROVE  /\ \A y : Has(q, y) <=> Has(Tail(q), y) \/ y = Head(q)
         /\ Head(q) \in S
<1>1. /\ Len(Tail(q)) = Len(q) - 1
      /\ \A i \in 1 .. Len(q) - 1 : Tail(q)[i] = q[i + 1]
      /\ Head(q) = q[1] /\ Head(q) \in S
      /\ Len(q) \in Nat \ {0}
  OBVIOUS
<1>2. ASSUME NEW y, Has(q, y) PROVE Has(Tail(q), y) \/ y = Head(q)
  <2>1. PICK i \in 1 .. Len(q) : q[i] = y
    BY <1>2, Zenon DEF Has
  <2>2. CASE i = 1
    BY <1>1, <2>1, <2>2, Zenon
  <2>3. CASE i # 1
    <3>1. i - 1 \in 1 .. Len(Tail(q)) /\ Tail(q)[i - 1] = y
      BY <1>1, <2>1, <2>3
    <3> QED
      BY <3>1, Zenon DEF Has
  <2> QED
    BY <2>2, <2>3, Zenon
<1>3. ASSUME NEW y, Has(Tail(q), y) PROVE Has(q, y)
  <2>1. PICK i \in 1 .. Len(Tail(q)) : Tail(q)[i] = y
    BY <1>3, Zenon DEF Has
  <2>2. i + 1 \in 1 .. Len(q) /\ q[i + 1] = y
    BY <1>1, <2>1
  <2> QED
    BY <2>2, Zenon DEF Has
<1>4. Has(q, Head(q))
  BY <1>1 DEF Has
<1> QED
  BY <1>1, <1>2, <1>3, <1>4, Zenon

\* A new id at the end of a rising queue keeps it rising.
LEMMA RisingAppend ==
  ASSUME NEW q \in Seq(Calls), Rising(q), NEW x \in Calls,
         \A y \in Calls : Has(q, y) => y < x
  PROVE  Rising(Append(q, x))
<1>1. /\ Len(Append(q, x)) = Len(q) + 1
      /\ \A i \in 1 .. Len(q) : Append(q, x)[i] = q[i] /\ q[i] \in Calls
      /\ Append(q, x)[Len(q) + 1] = x
      /\ Len(q) \in Nat
  OBVIOUS
<1>2. \A i \in 1 .. Len(q) : q[i] < x
  BY <1>1, Zenon DEF Has
<1> QED
  BY <1>1, <1>2 DEF Rising

\* The rest of a rising queue rises, above the head that was taken.
LEMMA RisingTail ==
  ASSUME NEW q \in Seq(Calls), q # << >>, Rising(q)
  PROVE  /\ Rising(Tail(q))
         /\ \A y \in Calls : Has(Tail(q), y) => Head(q) < y
<1>1. /\ Len(Tail(q)) = Len(q) - 1
      /\ \A i \in 1 .. Len(q) - 1 : Tail(q)[i] = q[i + 1]
      /\ Head(q) = q[1]
      /\ Len(q) \in Nat \ {0}
  OBVIOUS
<1> QED
  BY <1>1 DEF Has, Rising

\* The result of a request that had none in the queue stays the only one.
LEMMA SingleAppend ==
  ASSUME NEW q \in Seq(Commands), NEW x \in Commands, Single(q),
         x.kind = "Result" =>
           \A c \in Commands : Has(q, c) /\ c.kind = "Result" => c.call # x.call
  PROVE  Single(Append(q, x))
<1>1. /\ Len(Append(q, x)) = Len(q) + 1
      /\ \A i \in 1 .. Len(q) : Append(q, x)[i] = q[i] /\ q[i] \in Commands
      /\ Append(q, x)[Len(q) + 1] = x
      /\ Len(q) \in Nat
  OBVIOUS
<1>2. \A i \in 1 .. Len(q) :
        x.kind = "Result" /\ q[i].kind = "Result" => q[i].call # x.call
  BY <1>1, Zenon DEF Has
<1> QED
  BY <1>1, <1>2 DEF Single

\* Taking a result leaves none of the same request.
LEMMA SingleTail ==
  ASSUME NEW q \in Seq(Commands), q # << >>, Single(q)
  PROVE  /\ Single(Tail(q))
         /\ \A c \in Commands : Has(Tail(q), c) /\ c.kind = "Result"
              /\ Head(q).kind = "Result" => c.call # Head(q).call
<1>1. /\ Len(Tail(q)) = Len(q) - 1
      /\ \A i \in 1 .. Len(q) - 1 : Tail(q)[i] = q[i + 1]
      /\ Head(q) = q[1]
      /\ Len(q) \in Nat \ {0}
  OBVIOUS
<1>2. ASSUME NEW i \in 1 .. Len(Tail(q)), NEW j \in 1 .. Len(Tail(q)),
             Tail(q)[i].kind = "Result", Tail(q)[j].kind = "Result",
             Tail(q)[i].call = Tail(q)[j].call
      PROVE  i = j
  <2>1. i + 1 \in 1 .. Len(q) /\ j + 1 \in 1 .. Len(q)
    BY <1>1
  <2>2. i + 1 = j + 1
    BY <1>1, <1>2, <2>1, Zenon DEF Single
  <2> QED
    BY <2>2
<1>3. ASSUME NEW c \in Commands, Has(Tail(q), c), c.kind = "Result",
             Head(q).kind = "Result"
      PROVE  c.call # Head(q).call
  <2>1. PICK i \in 1 .. Len(Tail(q)) : Tail(q)[i] = c
    BY <1>3, Zenon DEF Has
  <2>2. i + 1 \in 1 .. Len(q) /\ q[i + 1] = c /\ 1 \in 1 .. Len(q) /\ i + 1 # 1
    BY <1>1, <2>1
  <2> QED
    BY <1>1, <1>3, <2>2, Zenon DEF Single
<1> QED
  BY <1>2, <1>3, Zenon DEF Single

-----------------------------------------------------------------------------
(* The steps, when no correlation expires *)

\* A request gets the next id and goes to Go; its loop awaits it.
Sends(g, kind) ==
  /\ NewCall(g, kind)
  /\ kind # "Message"
  /\ events' = Append(events, nextId + 1)
  /\ current' = [current EXCEPT ![g] = nextId + 1]
  /\ \/ pending' = pending
     \/ kind \in Keyed /\ pending' = [pending EXCEPT ![g][kind] = nextId + 1]
  /\ \/ /\ kind = "Start" /\ loop[g] = "none" /\ (g > 1 => loop[g - 1] = "ended")
        /\ loop' = [loop EXCEPT ![g] = "starting"]
     \/ kind = "Stop" /\ loop[g] = "ready" /\ loop' = [loop EXCEPT ![g] = "stopping"]
     \/ kind \in Kinds /\ loop[g] = "ready" /\ loop' = [loop EXCEPT ![g] = "calling"]
  /\ UNCHANGED <<answers, commands, worker, item, mailbox, ran, poller>>

Goes(g) == Resume(g) \/ EventsClosed(g) \/ Overrun(g)

Quiet == UNCHANGED <<callVars, loopVars, answers, pending, worker, item, mailbox, ran,
                     events, commands, poller>>

PumpStep ==
  \/ \E g \in Gens, kind \in Keyed \cup Kinds : Sends(g, kind)
  \/ \E g \in Gens : EmitMessage(g) /\ "Message" \in Kinds
  \/ \E g \in Gens : Goes(g)
  \/ \E g \in Gens : Take(g) \/ RequestErrorStop(g) \/ Leave(g)
  \/ \E g \in Gens, status \in Statuses : Finish(g, status)
  \/ Sweep
  \/ DispatchResult
  \/ DispatchStopIntent
  \/ \E id \in Calls :
       PollStart(id) \/ PollDeliver(id) \/ PollIgnore(id) \/ PollUnknown(id)
  \/ Quiet

\* Every step of the module, when no correlation expires, is one of these.
LEMMA PumpSteps ==
  ASSUME MaxTimeouts = 0, IInv, PInv, [Next]_vars
  PROVE  PumpStep
<1> USE DEF callVars, tableVars, sweepVars, loopVars, workVars, stopVars
<1>0. TypeOK /\ OpenInv
  BY Zenon DEF IInv, PInv
<1>1. ASSUME NEW g \in Gens, StartActor(g)
      PROVE  PumpStep
  <2>1. "Start" \in Keyed
    BY Zenon DEF Keyed
  <2>2. Sends(g, "Start")
    BY <1>1, <2>1, Zenon DEF StartActor, Sends, Request, Await
  <2> QED
    BY <2>1, <2>2, Zenon DEF PumpStep
<1>2. ASSUME NEW g \in Gens, NEW kind \in Kinds \cap {"Action", "Connection", "Close"},
             CallActor(g, kind)
      PROVE  PumpStep
  <2>1. kind \in Kinds /\ kind # "Message"
    BY Zenon
  <2>2. Sends(g, kind)
    BY <1>2, <2>1, Zenon DEF CallActor, Sends, Request, Await
  <2> QED
    BY <2>1, <2>2, Zenon DEF PumpStep
<1>3. ASSUME NEW g \in Gens, "Alarm" \in Kinds, FireAlarm(g)
      PROVE  PumpStep
  <2>1. "Alarm" \in Keyed
    BY Zenon DEF Keyed
  <2>2. Sends(g, "Alarm")
    BY <1>3, <2>1, Zenon DEF FireAlarm, Sends, Request, Await
  <2> QED
    BY <2>1, <2>2, Zenon DEF PumpStep
<1>4. ASSUME NEW g \in Gens, RefuseAlarm(g)
      PROVE  FALSE
  <2>1. "Alarm" \in Keyed
    BY DEF Keyed
  <2> QED
    BY <1>0, <1>4, <2>1, ZenonT(30) DEF RefuseAlarm, OpenInv, Waits
<1>5. ASSUME NEW g \in Gens, StopActor(g)
      PROVE  PumpStep
  <2>1. "Stop" \in Keyed
    BY Zenon DEF Keyed
  <2>2. Sends(g, "Stop")
    BY <1>5, <2>1, Zenon DEF StopActor, Sends, Request, Await
  <2> QED
    BY <2>1, <2>2, Zenon DEF PumpStep
<1>6. ASSUME NEW id \in Calls, Expire(id)
      PROVE  FALSE
  BY <1>0, <1>6 DEF Expire, TypeOK
<1>7. CASE Finished \/ UNCHANGED vars
  <2>1. Quiet
    BY <1>7, Zenon DEF Finished, vars, Quiet
  <2> QED
    BY <2>1, Zenon DEF PumpStep
<1>8. CASE Next
  BY NextCases, <1>1, <1>2, <1>3, <1>4, <1>5, <1>6, <1>7, <1>8, Zenon DEF PumpStep, Goes
<1> QED
  BY <1>7, <1>8, Zenon

\* The queues start empty and no generation exists.
LEMMA PInitially == Init => PInv
<1> SUFFICES ASSUME Init PROVE PInv
  BY Zenon
<1> USE LifecycleAssumption DEF Init
<1>0. \A x : ~Has(<< >>, x)
  BY DEF Has
<1>1. Rising(<< >>) /\ Single(<< >>)
  BY DEF Rising, Single
<1>2. \A id \in Calls : ~Asked(id) /\ ~Final(id) /\ calls[id].gen = 0
  BY Zenon DEF Asked, Final, NoCall
<1>3. 0 \notin Gens
  BY DEF Gens
<1>4. LineInv
  BY <1>0, <1>1, Zenon DEF LineInv
<1>5. YoungInv
  BY <1>0, <1>2, <1>3, Zenon DEF YoungInv
<1>6. ResultInv
  BY <1>0, <1>1, Zenon DEF ResultInv
<1>7. OpenInv
  BY <1>2, Zenon DEF OpenInv, Waits, Keyed
<1>8. FinalInv
  BY <1>2, Zenon DEF FinalInv, Left
<1> QED
  BY <1>4, <1>5, <1>6, <1>7, <1>8, Zenon DEF PInv, PumpSurvives

\* Generations are positive, and a request that has one is not above the counter.
LEMMA Used ==
  ASSUME IInv
  PROVE  /\ 0 \notin Gens
         /\ \A id \in Calls : calls[id] # NoCall =>
              /\ calls[id].gen \in Gens /\ calls[id].kind \in Keyed \cup Kinds
              /\ id <= nextId
         /\ \A id \in Calls : calls[id].gen \in Gens => calls[id] # NoCall
         /\ \A id \in Calls : Asked(id) => calls[id] # NoCall
         /\ Calls \subseteq Nat /\ nextId \in Nat
         /\ \A kind \in Keyed \cup Kinds : kind # "None"
<1>1. TypeOK /\ FreshInv
  BY Zenon DEF IInv
<1>2. 0 \notin Gens /\ NoCall.gen = 0 /\ NoCall.kind = "None"
  BY LifecycleAssumption DEF Gens, NoCall
<1>3. Calls \subseteq Nat /\ nextId \in Nat
  BY <1>1, LifecycleAssumption DEF Calls, TypeOK
<1>4. \A id \in Calls : calls[id] # NoCall => id <= nextId
  BY <1>1, <1>3 DEF FreshInv
<1>5. \A id \in Calls : calls[id] # NoCall =>
        calls[id].gen \in Gens /\ calls[id].kind \in Keyed \cup Kinds
  BY <1>1, Zenon DEF TypeOK
<1>6. \A kind \in Keyed \cup Kinds : kind # "None"
  BY LifecycleAssumption, Zenon DEF Keyed, AllKinds
<1> QED
  BY <1>2, <1>3, <1>4, <1>5, <1>6, Zenon DEF Asked

\* The id a new request gets.
LEMMA Numbered ==
  ASSUME IInv, PInv, NEW g \in Gens, NEW kind \in Keyed \cup Kinds, NewCall(g, kind)
  PROVE  /\ nextId + 1 \in Calls /\ nextId' = nextId + 1
         /\ calls[nextId + 1] = NoCall /\ answers[nextId + 1] = NoAnswer
         /\ ran[nextId + 1] = "no"
         /\ calls'[nextId + 1] = [gen |-> g, kind |-> kind]
         /\ \A id \in Calls : id # nextId + 1 => calls'[id] = calls[id]
         /\ ~Has(events, nextId + 1)
         /\ \A id \in Calls : calls[id] # NoCall => id < nextId + 1 /\ calls'[id] = calls[id]
<1>1. TypeOK /\ FreshInv /\ LineInv
  BY Zenon DEF IInv, PInv
<1>2. nextId + 1 \in Calls /\ nextId \in Nat /\ nextId' = nextId + 1
  BY <1>1, NewId, Zenon DEF NewCall
<1>3. calls[nextId + 1] = NoCall /\ answers[nextId + 1] = NoAnswer
  BY <1>1, <1>2 DEF FreshInv
<1>4. ran[nextId + 1] = "no"
  BY <1>1, <1>2 DEF LineInv
<1>5. /\ calls'[nextId + 1] = [gen |-> g, kind |-> kind]
      /\ \A id \in Calls : id # nextId + 1 => calls'[id] = calls[id]
  BY <1>1, <1>2, Zenon DEF NewCall, TypeOK
<1>6. ~Has(events, nextId + 1)
  BY <1>1, <1>2, <1>3, Zenon DEF LineInv
<1>7. \A id \in Calls : calls[id] # NoCall => id < nextId + 1
  BY Used, <1>2
<1> QED
  BY <1>2, <1>3, <1>4, <1>5, <1>6, <1>7, Zenon

\* Handlers run one by one: the queues and the worker of a generation share no id.
LEMMA LineStep ==
  ASSUME IInv, PInv, PumpStep
  PROVE  LineInv'
<1> USE DEF callVars, tableVars, sweepVars, loopVars, workVars, stopVars
<1>0. TypeOK /\ BusyInv /\ LineInv /\ YoungInv
  BY Zenon DEF IInv, PInv
<1>1. ASSUME UNCHANGED <<calls, nextId, events, mailbox, worker, item, ran>>
      PROVE  LineInv'
  BY <1>0, <1>1, Zenon DEF LineInv
<1>2. ASSUME NEW g \in Gens, NEW kind \in Keyed \cup Kinds, NewCall(g, kind),
             events' = Append(events, nextId + 1),
             UNCHANGED <<mailbox, worker, item, ran>>
      PROVE  LineInv'
  <2> DEFINE n == nextId + 1
  <2>1. /\ n \in Calls /\ nextId' = n /\ ran[n] = "no"
        /\ calls'[n] = [gen |-> g, kind |-> kind]
        /\ \A id \in Calls : calls[id] # NoCall => id < n /\ calls'[id] = calls[id]
    BY <1>2, Numbered, Zenon
  <2>2. calls'[n] # NoCall
    BY <2>1 DEF NoCall, Keyed, Gens
  <2>3. \A y : Has(events', y) <=> Has(events, y) \/ y = n
    BY <1>0, <1>2, <2>1, QueueAppend DEF TypeOK
  <2>4. \A y \in Calls : Has(events, y) => y < n
    BY <1>0, <2>1, Zenon DEF LineInv
  <2>5. Rising(events')
    BY <1>0, <1>2, <2>1, <2>4, RisingAppend, Zenon DEF TypeOK, LineInv
  <2>6. ASSUME NEW id \in Calls
        PROVE  /\ Has(events', id) => calls'[id] # NoCall /\ ran'[id] = "no"
               /\ id > nextId' => ran'[id] = "no"
    <3>1. Has(events', id) => calls'[id] # NoCall /\ ran'[id] = "no"
      BY <1>0, <1>2, <2>1, <2>2, <2>3, ZenonT(30) DEF LineInv
    <3>2. id > nextId' => id > nextId
      BY <2>1, Used
    <3> QED
      BY <1>0, <1>2, <3>1, <3>2, Zenon DEF LineInv
  <2>7. ASSUME NEW h \in Gens
        PROVE  (/\ Rising(mailbox[h])
                /\ \A id \in Calls : Has(mailbox[h], id) =>
                     /\ calls[id].gen = h
                     /\ ran[id] = "no"
                     /\ \A j \in Calls : Has(events, j) => id < j
                /\ worker[h] = "busy" =>
                     /\ ran[item[h]] = "no"
                     /\ \A j \in Calls : Has(mailbox[h], j) \/ Has(events, j) => item[h] < j
                /\ worker[h] \in {"busy", "stopping"} => calls[item[h]].gen = h)'
    <3>1. \A id \in Calls : calls[id].gen = h => id < n /\ calls'[id] = calls[id]
      BY <2>1, Used, Zenon
    <3>2. worker[h] \in {"busy", "stopping"} => item[h] \in Calls /\ item[h] < n
             /\ calls'[item[h]] = calls[item[h]]
      BY <1>0, <3>1, Zenon DEF LineInv, BusyInv
    <3> QED
      BY <1>0, <1>2, <2>3, <3>1, <3>2, SMTT(30) DEF LineInv
  <2> QED
    BY <2>5, <2>6, <2>7, Zenon DEF LineInv
<1>3. ASSUME NEW id \in Calls, NextEvent(id), UNCHANGED <<calls, nextId, ran>>
      PROVE  /\ Has(events, id) /\ Rising(events')
             /\ \A y : Has(events, y) <=> Has(events', y) \/ y = id
             /\ \A y \in Calls : Has(events', y) => id < y
             /\ calls[id] # NoCall /\ ran[id] = "no" /\ calls[id].gen \in Gens
  <2>1. events \in Seq(Calls) /\ events # << >> /\ id = Head(events) /\ events' = Tail(events)
    BY <1>0, <1>3, Zenon DEF TypeOK, NextEvent
  <2>2. /\ \A y : Has(events, y) <=> Has(events', y) \/ y = id
        /\ Rising(events')
        /\ \A y \in Calls : Has(events', y) => id < y
    BY <1>0, <2>1, QueueTail, RisingTail, Zenon DEF LineInv
  <2> QED
    BY <1>0, <2>2, Used, Zenon DEF LineInv
<1>4. ASSUME NEW id \in Calls, PollStart(id)
      PROVE  LineInv'
  <2> DEFINE g == calls[id].gen
  <2>1. NextEvent(id) /\ UNCHANGED <<calls, nextId, ran, mailbox>> /\ calls[id].kind = "Start"
    BY <1>4, Zenon DEF PollStart
  <2>2. g \in Gens /\ worker[g] = "none" /\ mailbox[g] = << >>
    BY <1>0, <1>3, <2>1, Zenon DEF YoungInv
  <2>3. \A y : ~Has(mailbox[g], y)
    BY <2>2 DEF Has
  <2>4. /\ worker'[g] = "busy" /\ item'[g] = id
        /\ \A h \in Gens \ {g} : worker'[h] = worker[h] /\ item'[h] = item[h]
    BY <1>0, <1>4, <2>2, Zenon DEF PollStart, TypeOK
  <2> HIDE DEF g
  <2>5. calls[id].gen = g
    BY Zenon DEF g
  <2>6. \A h \in Gens :
          /\ worker'[h] = "busy" =>
               /\ ran[item'[h]] = "no"
               /\ \A j \in Calls : Has(mailbox[h], j) \/ Has(events', j) => item'[h] < j
          /\ worker'[h] \in {"busy", "stopping"} => calls[item'[h]].gen = h
    BY <1>0, <1>3, <2>1, <2>3, <2>4, <2>5, SMTT(30) DEF LineInv
  <2> QED
    BY <1>0, <1>3, <2>1, <2>6, Zenon DEF LineInv
<1>5. ASSUME NEW id \in Calls, PollDeliver(id)
      PROVE  LineInv'
  <2> DEFINE g == calls[id].gen
  <2>1. NextEvent(id) /\ UNCHANGED <<calls, nextId, ran, worker, item>>
    BY <1>5, Zenon DEF PollDeliver
  <2>2. g \in Gens /\ mailbox[g] \in Seq(Calls)
    BY <1>0, <1>3, <2>1, Zenon DEF TypeOK
  <2>3. /\ mailbox'[g] = Append(mailbox[g], id)
        /\ \A h \in Gens \ {g} : mailbox'[h] = mailbox[h]
    BY <1>0, <1>5, <2>2, Zenon DEF PollDeliver, TypeOK
  <2>4. \A y : Has(mailbox'[g], y) <=> Has(mailbox[g], y) \/ y = id
    BY <2>2, <2>3, QueueAppend
  <2>5. \A y \in Calls : Has(mailbox[g], y) => y < id
    BY <1>0, <1>3, <2>1, <2>2, Zenon DEF LineInv
  <2>6. Rising(mailbox'[g])
    BY <1>0, <2>2, <2>3, <2>5, RisingAppend DEF LineInv
  <2> HIDE DEF g
  <2>7. calls[id].gen = g
    BY DEF g
  <2>8. ASSUME NEW h \in Gens
        PROVE  /\ Rising(mailbox'[h])
               /\ \A j \in Calls : Has(mailbox'[h], j) =>
                     Has(mailbox[h], j) \/ (j = id /\ h = g)
    BY <1>0, <2>3, <2>4, <2>6, Zenon DEF LineInv
  <2> QED
    BY <1>0, <1>3, <2>1, <2>7, <2>8, SMTT(30) DEF LineInv
<1>6. ASSUME NEW id \in Calls, PollIgnore(id) \/ PollUnknown(id)
      PROVE  LineInv'
  <2>1. NextEvent(id) /\ UNCHANGED <<calls, nextId, ran, worker, item, mailbox>>
    BY <1>6, Zenon DEF PollIgnore, PollUnknown
  <2> QED
    BY <1>0, <1>3, <2>1, Zenon DEF LineInv
<1>7. ASSUME NEW g \in Gens, Take(g)
      PROVE  LineInv'
  <2>1. mailbox[g] \in Seq(Calls) /\ mailbox[g] # << >>
        /\ UNCHANGED <<calls, nextId, ran, events>>
    BY <1>0, <1>7, Zenon DEF TypeOK, Take
  <2>2. /\ mailbox'[g] = Tail(mailbox[g]) /\ item'[g] = Head(mailbox[g])
        /\ \A h \in Gens \ {g} : mailbox'[h] = mailbox[h] /\ item'[h] = item[h]
                                  /\ worker'[h] = worker[h]
    BY <1>0, <1>7, Zenon DEF TypeOK, Take
  <2>3. /\ Head(mailbox[g]) \in Calls
        /\ \A y : Has(mailbox[g], y) <=> Has(mailbox'[g], y) \/ y = Head(mailbox[g])
        /\ Rising(mailbox'[g])
        /\ \A y \in Calls : Has(mailbox'[g], y) => Head(mailbox[g]) < y
    BY <1>0, <2>1, <2>2, QueueTail, RisingTail DEF LineInv
  <2> QED
    BY <1>0, <2>1, <2>2, <2>3, SMTT(30) DEF LineInv
<1>8. ASSUME NEW g \in Gens, NEW status \in Statuses, Finish(g, status)
      PROVE  LineInv'
  <2> DEFINE id == item[g]
  <2>1. /\ worker[g] = "busy" /\ UNCHANGED <<calls, nextId, item, mailbox, events>>
        /\ id \in Calls
    BY <1>0, <1>8, Zenon DEF Finish, BusyInv
  <2>2. /\ \A j \in Calls : j # id => ran'[j] = ran[j]
        /\ worker'[g] # "busy"
        /\ \A h \in Gens \ {g} : worker'[h] = worker[h]
    BY <1>0, <1>8, AfterType, Zenon DEF Finish, TypeOK
  <2>3. calls[id].gen = g /\ ~Has(events, id) /\ ~Has(mailbox[g], id) /\ ~(id > nextId)
    <3>1. calls[id].gen = g /\ \A j \in Calls : Has(mailbox[g], j) \/ Has(events, j) => id < j
      BY <1>0, <2>1, Zenon DEF LineInv
    <3>2. id <= nextId /\ id \in Nat /\ nextId \in Nat
      BY <2>1, <3>1, Used, Zenon
    <3>3. ~(id < id) /\ ~(id > nextId)
      BY <3>2
    <3> QED
      BY <2>1, <3>1, <3>3, Zenon
  <2> HIDE DEF id
  <2>4. \A h \in Gens \ {g} : worker[h] \in {"busy", "stopping"} => item[h] # id /\ item[h] \in Calls
    BY <1>0, <2>3, Zenon DEF LineInv, BusyInv
  <2>5. item[g] = id
    BY Zenon DEF id
  <2> QED
    BY <1>0, <2>1, <2>2, <2>3, <2>4, <2>5, SMTT(30) DEF LineInv
<1>9. ASSUME NEW g \in Gens, RequestErrorStop(g) \/ Leave(g)
      PROVE  LineInv'
  <2>1. /\ UNCHANGED <<calls, nextId, item, mailbox, events, ran>>
        /\ worker'[g] \notin {"busy", "stopping"}
        /\ \A h \in Gens \ {g} : worker'[h] = worker[h]
    BY <1>0, <1>9, Zenon DEF RequestErrorStop, Leave, TypeOK
  <2> QED
    BY <1>0, <2>1, Zenon DEF LineInv
<1>10. ASSUME NEW g \in Gens, NEW kind \in Keyed \cup Kinds, Sends(g, kind)
       PROVE  LineInv'
  BY <1>2, <1>10, Zenon DEF Sends
<1>11. ASSUME NEW g \in Gens, EmitMessage(g), "Message" \in Kinds
       PROVE  LineInv'
  BY <1>2, <1>11, Zenon DEF EmitMessage
<1>12. ASSUME NEW g \in Gens, Goes(g)
       PROVE  LineInv'
  BY <1>1, <1>12, Zenon DEF Goes, Resume, EventsClosed, Overrun
<1>13. CASE Sweep \/ DispatchResult \/ DispatchStopIntent \/ Quiet
  BY <1>1, <1>13, Zenon DEF Sweep, DispatchResult, DispatchStopIntent, Quiet
<1> QED
  BY <1>4, <1>5, <1>6, <1>7, <1>8, <1>9, <1>10, <1>11, <1>12, <1>13, Zenon DEF PumpStep

\* Taking the next event leaves the later ones.
LEMMA Polled ==
  ASSUME IInv, PInv, NEW id \in Calls, NextEvent(id)
  PROVE  /\ Has(events, id)
         /\ \A y : Has(events', y) => Has(events, y)
         /\ ~Has(events', id)
         /\ calls[id] # NoCall /\ ran[id] = "no" /\ calls[id].gen \in Gens
<1>0. TypeOK /\ LineInv
  BY Zenon DEF IInv, PInv
<1>1. events \in Seq(Calls) /\ events # << >> /\ id = Head(events) /\ events' = Tail(events)
  BY <1>0, Zenon DEF TypeOK, NextEvent
<1>2. /\ \A y : Has(events, y) <=> Has(events', y) \/ y = id
      /\ \A y \in Calls : Has(events', y) => id < y
  BY <1>0, <1>1, QueueTail, RisingTail, Zenon DEF LineInv
<1>3. ~(id < id)
  BY Used
<1> QED
  BY <1>0, <1>2, <1>3, Used, Zenon DEF LineInv

\* A result of Go is the answer of a request that Go has handled.
LEMMA Answered ==
  ASSUME PInv, NEW id \in Calls, ran[id] = "no"
  PROVE  answers[id] = NoAnswer
<1>1. ResultInv
  BY Zenon DEF PInv
<1>2. "no" \notin Statuses
  BY Zenon DEF Statuses
<1> QED
  BY <1>1, <1>2, Zenon DEF ResultInv

\* The loop only resumes with the answer to its own request.
LEMMA Resumed ==
  ASSUME IInv, PInv, NEW g \in Gens, Resume(g)
  PROVE  /\ Waits(g) /\ current[g] \in Calls /\ calls[current[g]].gen = g
         /\ answers[current[g]] # NoAnswer
         /\ answers[current[g]].status \in Statuses
         /\ ran[current[g]] = answers[current[g]].status /\ ran[current[g]] # "no"
<1>0. AwaitInv /\ OpenInv /\ ResultInv
  BY Zenon DEF IInv, PInv
<1>1. Waits(g) /\ answers[current[g]].status # "none"
  BY Zenon DEF Resume, Waits
<1>2. current[g] \in Calls /\ calls[current[g]].gen = g
  BY <1>0, <1>1, Zenon DEF AwaitInv, OpenInv, Waits
<1>3. answers[current[g]] # NoAnswer
  BY <1>1 DEF NoAnswer
<1>4. "no" \notin Statuses
  BY Zenon DEF Statuses
<1> QED
  BY <1>0, <1>1, <1>2, <1>3, <1>4, Zenon DEF ResultInv

\* What a step of the loop does to it.
LEMMA Gone ==
  ASSUME IInv, PInv, NEW g \in Gens, Goes(g)
  PROVE  /\ loop[g] # "none" /\ worker[g] # "none"
         /\ loop'[g] \in {"ready", "drained", "ended"}
         /\ \A h \in Gens \ {g} : loop'[h] = loop[h] /\ current'[h] = current[h]
         /\ UNCHANGED <<calls, nextId, events, mailbox, worker, item, ran, answers, commands, poller>>
<1> USE DEF callVars, tableVars, sweepVars, loopVars, workVars, stopVars
<1>0. TypeOK /\ AwaitInv /\ YoungInv
  BY Zenon DEF IInv, PInv
<1>1. UNCHANGED <<calls, nextId, events, mailbox, worker, item, ran, answers, commands, poller>>
  BY Zenon DEF Goes, Resume, EventsClosed, Overrun
<1>2. /\ loop'[g] \in {"ready", "drained", "ended"}
      /\ \A h \in Gens \ {g} : loop'[h] = loop[h] /\ current'[h] = current[h]
  <2>1. PICK state \in {"ready", "drained", "ended"} :
          loop' = [loop EXCEPT ![g] = state]
    BY ProceedType, Zenon DEF Goes, Resume, EventsClosed, Overrun
  <2>2. current' = current \/ current' = [current EXCEPT ![g] = 0]
    BY Zenon DEF Goes, Resume, EventsClosed, Overrun
  <2> QED
    BY <1>0, <2>1, <2>2, Zenon DEF TypeOK
<1>3. loop[g] # "none" /\ worker[g] # "none"
  <2>1. CASE Resume(g)
    <3>1. Waits(g) /\ current[g] \in Calls /\ calls[current[g]].gen = g /\ ran[current[g]] # "no"
      BY <2>1, Resumed, Zenon
    <3> QED
      BY <1>0, <3>1, Zenon DEF YoungInv, Waits
  <2>2. CASE EventsClosed(g) \/ Overrun(g)
    <3>1. loop[g] \in {"drained", "stopping"}
      BY <2>2, Zenon DEF EventsClosed, Overrun
    <3> QED
      BY <1>0, <3>1, Zenon DEF YoungInv
  <2> QED
    BY <2>1, <2>2, Zenon DEF Goes
<1> QED
  BY <1>1, <1>2, <1>3, Zenon

\* Until the Start of a generation is taken off the queue, nothing of it is anywhere
\* else, and then Go has its worker.
LEMMA YoungStep ==
  ASSUME IInv, PInv, PumpStep
  PROVE  YoungInv'
<1> USE DEF callVars, tableVars, sweepVars, loopVars, workVars, stopVars
<1>0. TypeOK /\ BusyInv /\ LineInv /\ YoungInv /\ OnceInv
  BY Zenon DEF IInv, PInv
<1>1. ASSUME UNCHANGED <<calls, loop, events, mailbox, worker, ran>>
      PROVE  YoungInv'
  BY <1>0, <1>1, Zenon DEF YoungInv
<1>2. ASSUME NEW g \in Gens, NEW kind \in Keyed \cup Kinds, NewCall(g, kind),
             events' = Append(events, nextId + 1),
             UNCHANGED <<mailbox, worker, ran>>,
             kind = "Start" => loop[g] = "none" /\ loop'[g] = "starting",
             kind # "Start" => loop[g] \notin {"none", "starting"}
                               /\ loop'[g] \notin {"none", "starting"},
             \A h \in Gens \ {g} : loop'[h] = loop[h]
      PROVE  YoungInv'
  <2> DEFINE n == nextId + 1
  <2>1. /\ n \in Calls /\ ran[n] = "no" /\ calls[n] = NoCall
        /\ calls'[n] = [gen |-> g, kind |-> kind]
        /\ \A id \in Calls : id # n => calls'[id] = calls[id]
    BY <1>2, Numbered, Zenon
  <2>2. calls'[n].gen = g /\ calls'[n].kind = kind
    BY <2>1
  <2>3. \A y : Has(events', y) <=> Has(events, y) \/ y = n
    BY <1>0, <1>2, <2>1, QueueAppend DEF TypeOK
  <2> HIDE DEF n
  <2>4. ASSUME NEW h \in Gens
        PROVE  /\ worker'[h] = "none" =>
                    /\ loop'[h] \in {"none", "starting"}
                    /\ mailbox'[h] = << >>
                    /\ \A id \in Calls : calls'[id].gen = h => ran'[id] = "no"
               /\ loop'[h] = "none" =>
                    worker'[h] = "none" /\ \A id \in Calls : calls'[id].gen # h
    <3>1. CASE h = g
      BY <1>0, <1>2, <2>1, <2>2, <3>1, SMTT(30) DEF YoungInv
    <3>2. CASE h # g
      BY <1>0, <1>2, <2>1, <2>2, <3>2, SMTT(30) DEF YoungInv
    <3> QED
      BY <3>1, <3>2, Zenon
  <2>5. ASSUME NEW id \in Calls, Has(events', id), calls'[id].kind = "Start"
        PROVE  worker'[calls'[id].gen] = "none"
    <3>1. CASE id = n
      BY <1>0, <1>2, <2>2, <2>5, <3>1, Zenon DEF YoungInv
    <3>2. CASE id # n
      BY <1>0, <1>2, <2>1, <2>3, <2>5, <3>2, SMTT(30) DEF YoungInv
    <3> QED
      BY <3>1, <3>2, Zenon
  <2> QED
    BY <2>4, <2>5, Zenon DEF YoungInv
<1>3. ASSUME NEW g \in Gens, NEW kind \in Keyed \cup Kinds, Sends(g, kind)
      PROVE  YoungInv'
  <2>1. /\ NewCall(g, kind) /\ events' = Append(events, nextId + 1)
        /\ UNCHANGED <<mailbox, worker, ran>>
    BY <1>3, Zenon DEF Sends
  <2>2. kind \in Kinds => kind \notin {"Start", "Stop"}
    BY LifecycleAssumption, Zenon DEF AllKinds
  <2>3. /\ kind = "Start" => loop[g] = "none" /\ loop'[g] = "starting"
        /\ kind # "Start" => loop[g] \notin {"none", "starting"}
                               /\ loop'[g] \notin {"none", "starting"}
        /\ \A h \in Gens \ {g} : loop'[h] = loop[h]
    BY <1>0, <1>3, <2>2, Zenon DEF Sends, TypeOK
  <2> QED
    BY <1>2, <2>1, <2>3, Zenon
<1>4. ASSUME NEW g \in Gens, EmitMessage(g), "Message" \in Kinds
      PROVE  YoungInv'
  <2>1. /\ NewCall(g, "Message") /\ events' = Append(events, nextId + 1)
        /\ UNCHANGED <<mailbox, worker, ran, loop>>
        /\ loop[g] \notin {"none", "starting"}
    BY <1>4, Zenon DEF EmitMessage
  <2> QED
    BY <1>2, <1>4, <2>1, Zenon
<1>5. ASSUME NEW g \in Gens, Goes(g)
      PROVE  YoungInv'
  <2>1. /\ loop[g] # "none" /\ worker[g] # "none"
        /\ loop'[g] # "none"
        /\ \A h \in Gens \ {g} : loop'[h] = loop[h]
        /\ UNCHANGED <<calls, events, mailbox, worker, ran>>
    BY <1>5, Gone, Zenon
  <2> QED
    BY <1>0, <2>1, ZenonT(30) DEF YoungInv
<1>6. ASSUME NEW id \in Calls, PollStart(id)
      PROVE  YoungInv'
  <2> DEFINE g == calls[id].gen
  <2>1. NextEvent(id) /\ UNCHANGED <<calls, ran, mailbox, loop>> /\ calls[id].kind = "Start"
    BY <1>6, Zenon DEF PollStart
  <2>2. g \in Gens /\ ~Has(events', id) /\ \A y : Has(events', y) => Has(events, y)
    BY <2>1, Polled, Zenon
  <2>3. worker'[g] = "busy" /\ \A h \in Gens \ {g} : worker'[h] = worker[h]
    BY <1>0, <1>6, <2>2, Zenon DEF PollStart, TypeOK
  <2>4. calls[id] # NoCall
    BY <2>1, Polled, Zenon
  <2>5. loop[g] # "none"
    BY <1>0, <2>2, Zenon DEF YoungInv
  <2>6. \A j \in Calls : calls[j].kind = "Start" /\ calls[j].gen = g => j = id
    <3>1. ASSUME NEW j \in Calls, calls[j].kind = "Start", calls[j].gen = g PROVE calls[j] = calls[id]
      <4>1. calls[j] \in [gen : Gens, kind : Keyed \cup Kinds] /\ calls[id] \in [gen : Gens, kind : Keyed \cup Kinds]
        BY <1>0, <2>4, <3>1 DEF TypeOK, NoCall
      <4> QED
        BY <2>1, <3>1, <4>1
    <3> QED
      BY <1>0, <2>1, <3>1, Zenon DEF OnceInv
  <2>7. ASSUME NEW j \in Calls, Has(events', j), calls[j].kind = "Start"
        PROVE  worker'[calls[j].gen] = "none"
    <3>1. j # id /\ Has(events, j)
      BY <2>2, <2>7, Zenon
    <3>2. calls[j].gen # g /\ calls[j].gen \in Gens
      BY <1>0, <2>6, <2>7, <3>1, Used, Zenon DEF LineInv
    <3> QED
      BY <1>0, <2>3, <2>7, <3>1, <3>2, SMTT(30) DEF YoungInv
  <2> HIDE DEF g
  <2> QED
    BY <1>0, <2>1, <2>2, <2>3, <2>5, <2>7, SMTT(30) DEF YoungInv
<1>7. ASSUME NEW id \in Calls, PollDeliver(id)
      PROVE  YoungInv'
  <2> DEFINE g == calls[id].gen
  <2>1. NextEvent(id) /\ UNCHANGED <<calls, ran, worker, loop>> /\ worker[g] # "none"
    BY <1>7, Zenon DEF PollDeliver, Accepts, Registered
  <2>2. g \in Gens /\ \A y : Has(events', y) => Has(events, y)
    BY <2>1, Polled, Zenon
  <2>3. \A h \in Gens \ {g} : mailbox'[h] = mailbox[h]
    BY <1>0, <1>7, <2>2, Zenon DEF PollDeliver, TypeOK
  <2> HIDE DEF g
  <2> QED
    BY <1>0, <2>1, <2>2, <2>3, ZenonT(30) DEF YoungInv
<1>8. ASSUME NEW id \in Calls, PollIgnore(id) \/ PollUnknown(id)
      PROVE  YoungInv'
  <2>1. NextEvent(id) /\ UNCHANGED <<calls, ran, worker, loop, mailbox>>
    BY <1>8, Zenon DEF PollIgnore, PollUnknown
  <2>2. \A y : Has(events', y) => Has(events, y)
    BY <2>1, Polled, Zenon
  <2> QED
    BY <1>0, <2>1, <2>2, Zenon DEF YoungInv
<1>9. ASSUME NEW g \in Gens, Take(g) \/ RequestErrorStop(g) \/ Leave(g)
      PROVE  YoungInv'
  <2>1. /\ UNCHANGED <<calls, ran, events, loop>>
        /\ worker[g] # "none" /\ worker'[g] # "none"
        /\ \A h \in Gens \ {g} : worker'[h] = worker[h] /\ mailbox'[h] = mailbox[h]
    BY <1>0, <1>9, Zenon DEF Take, RequestErrorStop, Leave, TypeOK
  <2>2. loop[g] # "none"
    BY <1>0, <2>1, Zenon DEF YoungInv
  <2>3. \A id \in Calls : Has(events, id) /\ calls[id].kind = "Start" =>
           calls[id].gen # g /\ calls[id].gen \in Gens
    BY <1>0, <2>1, Used, SMTT(30) DEF YoungInv, LineInv
  <2> QED
    BY <1>0, <2>1, <2>2, <2>3, SMTT(30) DEF YoungInv
<1>10. ASSUME NEW g \in Gens, NEW status \in Statuses, Finish(g, status)
       PROVE  YoungInv'
  <2>1. /\ UNCHANGED <<calls, events, loop, mailbox>> /\ worker[g] = "busy"
        /\ item[g] \in Calls /\ calls[item[g]].gen = g
    BY <1>0, <1>10, Zenon DEF Finish, BusyInv, LineInv
  <2>2. /\ worker'[g] # "none"
        /\ \A h \in Gens \ {g} : worker'[h] = worker[h]
        /\ \A j \in Calls : j # item[g] => ran'[j] = ran[j]
    BY <1>0, <1>10, AfterType, Zenon DEF Finish, TypeOK
  <2>3. loop[g] # "none"
    BY <1>0, <2>1, Zenon DEF YoungInv
  <2>4. \A id \in Calls : Has(events, id) /\ calls[id].kind = "Start" =>
           calls[id].gen # g /\ calls[id].gen \in Gens
    BY <1>0, <2>1, Used, ZenonT(30) DEF YoungInv, LineInv
  <2>5. \A h \in Gens \ {g} : \A j \in Calls : calls[j].gen = h => ran'[j] = ran[j]
    BY <2>1, <2>2, Zenon
  <2> QED
    BY <1>0, <2>1, <2>2, <2>3, <2>4, <2>5, SMTT(30) DEF YoungInv
<1>11. CASE Sweep \/ DispatchResult \/ DispatchStopIntent \/ Quiet
  BY <1>1, <1>11, Zenon DEF Sweep, DispatchResult, DispatchStopIntent, Quiet
<1> QED
  BY <1>3, <1>4, <1>5, <1>6, <1>7, <1>8, <1>9, <1>10, <1>11, Zenon DEF PumpStep

\* A result is of a request whose handler has run, and no other is of the same.
LEMMA ResultStep ==
  ASSUME IInv, PInv, PumpStep
  PROVE  ResultInv'
<1> USE DEF callVars, tableVars, sweepVars, loopVars, workVars, stopVars
<1>0. TypeOK /\ BusyInv /\ LineInv /\ ResultInv /\ OpenInv
  BY Zenon DEF IInv, PInv
<1>1. ASSUME UNCHANGED <<calls, commands, ran, answers>>
      PROVE  ResultInv'
  BY <1>0, <1>1, Zenon DEF ResultInv, Asked
<1>2. ASSUME NEW g \in Gens, NEW kind \in Keyed \cup Kinds, NewCall(g, kind),
             UNCHANGED <<commands, ran, answers>>
      PROVE  ResultInv'
  <2>1. \A id \in Calls : calls[id] # NoCall => calls'[id] = calls[id]
    BY <1>2, Numbered, Zenon
  <2>2. \A id \in Calls : Asked(id) => Asked(id)'
    BY <2>1, Used, Zenon DEF Asked
  <2>3. \A c \in Commands : c.call \in Calls
    BY Zenon DEF Commands
  <2> QED
    BY <1>0, <1>2, <2>2, <2>3, Zenon DEF ResultInv
<1>3. ASSUME NEW g \in Gens, NEW status \in Statuses, Finish(g, status)
      PROVE  ResultInv'
  <2> DEFINE id == item[g]
             c == Result(id, status)
  <2>1. /\ worker[g] = "busy" /\ UNCHANGED <<calls, answers>>
        /\ id \in Calls /\ calls[id].gen = g /\ ran[id] = "no"
    BY <1>0, <1>3, Zenon DEF Finish, BusyInv, LineInv
  <2>2. ran'[id] = status /\ \A j \in Calls : j # id => ran'[j] = ran[j]
    BY <1>0, <1>3, <2>1, Zenon DEF Finish, TypeOK
  <2>3. answers[id] = NoAnswer
    BY <2>1, Answered, Zenon
  <2>4. "no" \notin Statuses
    BY Zenon DEF Statuses
  <2>5. \A d \in Commands : Has(commands, d) /\ d.kind = "Result" => d.call # id
    <3>1. \A d \in Commands : d.status \in Statuses
      BY Zenon DEF Commands
    <3> QED
      BY <1>0, <2>1, <2>4, <3>1, Zenon DEF ResultInv
  <2>6. c \in Commands /\ c.kind = "Result" /\ c.call = id /\ c.status = status
    BY <2>1, Zenon DEF Commands, Result
  <2>7. calls[id].kind # "Message" => Asked(id)
    BY <2>1, Used, Zenon DEF Asked
  <2>8. \/ commands' = commands
        \/ commands' = Append(commands, c) /\ calls[id].kind # "Message"
    BY <1>3, Zenon DEF Finish
  <2> HIDE DEF c, id
  <2>9. Single(commands')
    BY <1>0, <2>5, <2>6, <2>8, SingleAppend, Zenon DEF TypeOK, ResultInv
  <2>10. \A d \in Commands : Has(commands', d) =>
            Has(commands, d) \/ (d = c /\ calls[id].kind # "Message")
    <3>1. CASE commands' = commands
      BY <3>1, Zenon
    <3>2. CASE commands' = Append(commands, c) /\ calls[id].kind # "Message"
      <4>1. \A d : Has(commands', d) <=> Has(commands, d) \/ d = c
        BY <1>0, <2>6, <3>2, QueueAppend, Zenon DEF TypeOK
      <4> QED
        BY <3>2, <4>1, Zenon
    <3> QED
      BY <2>8, <3>1, <3>2, Zenon
  <2>11. ASSUME NEW d \in Commands, Has(commands', d), d.kind = "Result"
         PROVE  ran'[d.call] = d.status /\ Asked(d.call)' /\ answers'[d.call] = NoAnswer
    <3>1. CASE Has(commands, d)
      <4>1. d.call \in Calls /\ d.call # id
        BY <2>5, <2>11, <3>1, Zenon DEF Commands
      <4> QED
        BY <1>0, <2>1, <2>2, <2>11, <3>1, <4>1, Zenon DEF ResultInv, Asked
    <3>2. CASE d = c /\ calls[id].kind # "Message"
      BY <2>1, <2>2, <2>3, <2>6, <2>7, <3>2, Zenon DEF Asked
    <3> QED
      BY <2>10, <2>11, <3>1, <3>2, Zenon
  <2>12. ASSUME NEW j \in Calls, answers'[j] # NoAnswer
         PROVE  answers'[j].status \in Statuses /\ ran'[j] = answers'[j].status
    BY <1>0, <2>1, <2>2, <2>3, <2>12, Zenon DEF ResultInv
  <2> QED
    BY <2>9, <2>11, <2>12, Zenon DEF ResultInv
<1>4. ASSUME NEW g \in Gens, RequestErrorStop(g)
      PROVE  ResultInv'
  <2> DEFINE c == StopIntent(item[g])
  <2>1. /\ UNCHANGED <<calls, answers, ran>> /\ commands' = Append(commands, c)
        /\ item[g] \in Calls
    BY <1>0, <1>4, Zenon DEF RequestErrorStop, BusyInv
  <2>2. c \in Commands /\ c.kind # "Result"
    BY <2>1, Zenon DEF StopIntent, Commands, Statuses
  <2> HIDE DEF c
  <2>3. Single(commands')
    BY <1>0, <2>1, <2>2, SingleAppend, Zenon DEF TypeOK, ResultInv
  <2>4. \A d \in Commands : Has(commands', d) => Has(commands, d) \/ d = c
    BY <1>0, <2>1, <2>2, QueueAppend, Zenon DEF TypeOK
  <2> QED
    BY <1>0, <2>1, <2>2, <2>3, <2>4, Zenon DEF ResultInv, Asked
<1>5. ASSUME commands # << >>, commands' = Tail(commands)
      PROVE  /\ Head(commands) \in Commands
             /\ Has(commands, Head(commands))
             /\ Single(commands')
             /\ \A d : Has(commands', d) => Has(commands, d)
             /\ \A d \in Commands : Has(commands', d) /\ d.kind = "Result"
                  /\ Head(commands).kind = "Result" => d.call # Head(commands).call
  BY <1>0, <1>5, QueueTail, SingleTail, Zenon DEF TypeOK, ResultInv
<1>6. CASE DispatchStopIntent
  <2>1. /\ UNCHANGED <<calls, answers, ran>> /\ commands # << >>
        /\ commands' = Tail(commands)
    BY <1>6, Zenon DEF DispatchStopIntent
  <2> QED
    BY <1>0, <1>5, <2>1, Zenon DEF ResultInv, Asked
<1>7. CASE DispatchResult
  <2> DEFINE c == Head(commands)
  <2>1. /\ UNCHANGED <<calls, ran>> /\ commands # << >> /\ commands' = Tail(commands)
        /\ c.kind = "Result"
    BY <1>7, Zenon DEF DispatchResult
  <2>2. c \in Commands /\ Has(commands, c) /\ c.call \in Calls /\ c.status \in Statuses
    BY <1>5, <2>1, Zenon DEF Commands
  <2>3. ran[c.call] = c.status /\ Asked(c.call) /\ answers[c.call] = NoAnswer
    BY <1>0, <2>1, <2>2, Zenon DEF ResultInv
  <2>4. Target(c) \in table => Target(c) = c.call
    <3> DEFINE call == calls[c.call]
    <3>1. call.gen \in Gens
      BY <2>2, <2>3, Used, Zenon
    <3>2. CASE call.kind \in Keyed
      <4>1. Target(c) = pending[call.gen][call.kind]
        BY <3>2, Zenon DEF Target
      <4>2. Target(c) \in table => Target(c) # 0
        BY <1>0 DEF TypeOK, Calls
      <4>3. Target(c) # 0 => Waits(call.gen) /\ current[call.gen] = Target(c)
        BY <1>0, <3>1, <3>2, <4>1, SMTT(30) DEF OpenInv
      <4>4. Waits(call.gen) => current[call.gen] = c.call
        BY <1>0, <2>2, <2>3, ZenonT(30) DEF OpenInv, Waits
      <4> QED
        BY <4>2, <4>3, <4>4, Zenon
    <3>3. CASE call.kind \notin Keyed
      BY <3>3, Zenon DEF Target
    <3> QED
      BY <3>2, <3>3, Zenon
  <2>5. \/ answers' = answers
        \/ answers' = [answers EXCEPT ![c.call] = [status |-> c.status, by |-> c.call]]
    BY <1>7, <2>4, Zenon DEF DispatchResult, Resolve
  <2> HIDE DEF c
  <2>6. \A j \in Calls : j # c.call => answers'[j] = answers[j]
    BY <1>0, <2>5, Zenon DEF TypeOK
  <2>7. answers'[c.call] # NoAnswer => answers'[c.call].status = c.status
    BY <1>0, <2>2, <2>3, <2>5 DEF TypeOK
  <2>8. ASSUME NEW d \in Commands, Has(commands', d), d.kind = "Result"
        PROVE  ran'[d.call] = d.status /\ Asked(d.call)' /\ answers'[d.call] = NoAnswer
    <3>1. d.call \in Calls /\ d.call # c.call /\ Has(commands, d)
      BY <1>5, <2>1, <2>8, Zenon DEF Commands, c
    <3> QED
      BY <1>0, <2>1, <2>6, <2>8, <3>1, Zenon DEF ResultInv, Asked
  <2>9. ASSUME NEW j \in Calls, answers'[j] # NoAnswer
        PROVE  answers'[j].status \in Statuses /\ ran'[j] = answers'[j].status
    <3>1. CASE j = c.call
      BY <2>1, <2>2, <2>3, <2>7, <2>9, <3>1, Zenon
    <3>2. CASE j # c.call
      BY <1>0, <2>1, <2>6, <2>9, <3>2, Zenon DEF ResultInv
    <3> QED
      BY <3>1, <3>2, Zenon
  <2> QED
    BY <1>5, <2>1, <2>8, <2>9, Zenon DEF ResultInv
<1>8. ASSUME NEW g \in Gens, NEW kind \in Keyed \cup Kinds, Sends(g, kind)
      PROVE  ResultInv'
  BY <1>2, <1>8, Zenon DEF Sends
<1>9. ASSUME NEW g \in Gens, EmitMessage(g), "Message" \in Kinds
      PROVE  ResultInv'
  BY <1>2, <1>9, Zenon DEF EmitMessage
<1>10. ASSUME NEW g \in Gens, Goes(g)
       PROVE  ResultInv'
  BY <1>1, <1>10, Gone, Zenon
<1>11. ASSUME NEW g \in Gens, Take(g) \/ Leave(g)
       PROVE  ResultInv'
  BY <1>1, <1>11, Zenon DEF Take, Leave
<1>12. ASSUME NEW id \in Calls,
              PollStart(id) \/ PollDeliver(id) \/ PollIgnore(id) \/ PollUnknown(id)
       PROVE  ResultInv'
  BY <1>1, <1>12, Zenon DEF PollStart, PollDeliver, PollIgnore, PollUnknown
<1>13. CASE Sweep \/ Quiet
  BY <1>1, <1>13, Zenon DEF Sweep, Quiet
<1> QED
  BY <1>3, <1>4, <1>6, <1>7, <1>8, <1>9, <1>10, <1>11, <1>12, <1>13, Zenon DEF PumpStep

\* The loop of a generation has one request open, the one it awaits.
LEMMA OpenStep ==
  ASSUME IInv, PInv, PumpStep
  PROVE  OpenInv'
<1> USE DEF callVars, tableVars, sweepVars, loopVars, workVars, stopVars
<1>0. TypeOK /\ KeyInv /\ AwaitInv /\ LineInv /\ OpenInv /\ ResultInv
  BY Zenon DEF IInv, PInv
<1>1. ASSUME UNCHANGED <<calls, loop, current>>,
             \A g \in Gens, k \in Keyed : pending'[g][k] \in {0, pending[g][k]},
             \A id \in Calls : answers'[id] = NoAnswer => answers[id] = NoAnswer
      PROVE  OpenInv'
  <2>1. \A g \in Gens, k \in Keyed : pending'[g][k] # 0 => pending'[g][k] = pending[g][k]
    BY <1>1, Zenon
  <2> QED
    BY <1>0, <1>1, <2>1, SMTT(30) DEF OpenInv, Waits, Asked
<1>2. ASSUME UNCHANGED <<calls, loop, current, pending, answers>>
      PROVE  OpenInv'
  BY <1>0, <1>2, SMTT(30) DEF OpenInv, Waits, Asked
<1>3. ASSUME NEW g \in Gens, NEW kind \in Keyed \cup Kinds, Sends(g, kind)
      PROVE  OpenInv'
  <2> DEFINE n == nextId + 1
  <2>1. /\ n \in Calls /\ calls[n] = NoCall
        /\ calls'[n] = [gen |-> g, kind |-> kind]
        /\ \A id \in Calls : id # n => calls'[id] = calls[id]
        /\ \A id \in Calls : calls[id] # NoCall => calls'[id] = calls[id]
    BY <1>3, Numbered, Zenon DEF Sends
  <2>2. calls'[n].gen = g /\ calls'[n].kind = kind /\ kind # "None" /\ kind # "Message"
    BY <1>3, <2>1, Used DEF Sends
  <2>3. kind \in Kinds => kind \notin {"Start", "Stop"}
    BY LifecycleAssumption, Zenon DEF AllKinds
  <2>4. /\ loop'[g] \in {"starting", "calling", "stopping"} /\ current'[g] = n
        /\ loop[g] \in {"none", "ready"}
        /\ loop'[g] = "starting" => kind = "Start"
        /\ \A h \in Gens \ {g} : loop'[h] = loop[h] /\ current'[h] = current[h]
        /\ answers' = answers
    BY <1>0, <1>3, <2>3, Zenon DEF Sends, TypeOK
  <2>5. /\ \A k \in Keyed : pending'[g][k] = pending[g][k] \/ pending'[g][k] = n
        /\ \A h \in Gens \ {g}, k \in Keyed : pending'[h][k] = pending[h][k]
    BY <1>0, <1>3 DEF Sends, TypeOK
  <2>6. \A k \in Keyed : pending[g][k] = 0
    BY <1>0, <2>4 DEF OpenInv, Waits
  <2>7. n # 0
    BY <2>1 DEF Calls
  <2> HIDE DEF n
  <2>8. ASSUME NEW h \in Gens
        PROVE  (/\ Waits(h) => /\ calls[current[h]].gen = h
                               /\ Asked(current[h])
                               /\ loop[h] = "starting" => calls[current[h]].kind = "Start"
                /\ \A k \in Keyed : pending[h][k] # 0 => Waits(h) /\ current[h] = pending[h][k])'
    <3>1. CASE h = g
      BY <2>2, <2>4, <2>5, <2>6, <2>7, <3>1, Zenon DEF Waits, Asked
    <3>2. CASE h # g
      <4>1. Waits(h) => calls'[current[h]] = calls[current[h]]
        BY <1>0, <2>1, Used, SMTT(30) DEF OpenInv, AwaitInv, Waits
      <4> QED
        BY <1>0, <2>4, <2>5, <3>2, <4>1, SMTT(30) DEF OpenInv, Waits, Asked
    <3> QED
      BY <3>1, <3>2, Zenon
  <2>9. ASSUME NEW id \in Calls, Asked(id)', answers'[id] = NoAnswer
        PROVE  (\/ Waits(calls[id].gen) /\ current[calls[id].gen] = id
                \/ loop[calls[id].gen] = "ended" /\ calls[id].kind = "Stop")'
    <3>1. CASE id = n
      BY <2>2, <2>4, <3>1, Zenon DEF Waits
    <3>2. CASE id # n
      <4>1. calls'[id] = calls[id] /\ Asked(id) /\ calls[id].gen \in Gens
        BY <2>1, <2>9, <3>2, Used, Zenon DEF Asked
      <4>2. calls[id].gen # g
        BY <1>0, <2>4, <2>9, <4>1, Zenon DEF OpenInv, Waits
      <4> QED
        BY <1>0, <2>4, <2>9, <4>1, <4>2, SMTT(30) DEF OpenInv, Waits
    <3> QED
      BY <3>1, <3>2, Zenon
  <2> QED
    BY <2>8, <2>9, Zenon DEF OpenInv
<1>4. ASSUME NEW g \in Gens, EmitMessage(g), "Message" \in Kinds
      PROVE  OpenInv'
  <2> DEFINE n == nextId + 1
  <2>1. /\ n \in Calls /\ calls[n] = NoCall
        /\ calls'[n] = [gen |-> g, kind |-> "Message"]
        /\ \A id \in Calls : id # n => calls'[id] = calls[id]
        /\ \A id \in Calls : calls[id] # NoCall => calls'[id] = calls[id]
    BY <1>4, Numbered, Zenon DEF EmitMessage
  <2>2. calls'[n].kind = "Message"
    BY <2>1
  <2>3. UNCHANGED <<loop, current, pending, answers>>
    BY <1>4, Zenon DEF EmitMessage
  <2> HIDE DEF n
  <2>4. \A h \in Gens : Waits(h) => calls'[current[h]] = calls[current[h]]
    BY <1>0, <2>1, Used, SMTT(30) DEF OpenInv, AwaitInv, Waits
  <2>5. \A id \in Calls : Asked(id)' => Asked(id) /\ calls'[id] = calls[id]
    BY <2>1, <2>2, Zenon DEF Asked
  <2> QED
    BY <1>0, <2>3, <2>4, <2>5, SMTT(30) DEF OpenInv, Waits, Asked
<1>5. ASSUME NEW g \in Gens, Goes(g)
      PROVE  OpenInv'
  <2>1. /\ loop'[g] \in {"ready", "drained", "ended"}
        /\ \A h \in Gens \ {g} : loop'[h] = loop[h] /\ current'[h] = current[h]
        /\ UNCHANGED <<calls, answers>>
    BY <1>5, Gone, Zenon
  <2>2. \A h \in Gens \ {g}, k \in Keyed : pending'[h][k] = pending[h][k]
    <3>1. pending' = pending \/ \E k : pending' = [pending EXCEPT ![g][k] = 0]
      BY <1>5, Zenon DEF Goes, Resume, EventsClosed, Overrun
    <3> QED
      BY <1>0, <3>1, Zenon DEF TypeOK
  <2>3. ASSUME NEW k \in Keyed PROVE pending'[g][k] = 0
    <3>0. pending[g][k] # 0 => Waits(g) /\ current[g] = pending[g][k] /\ calls[current[g]].kind = k
      <4>1. pending[g][k] # 0 => calls[pending[g][k]].kind = k
        <5>1. pending[g][k] # 0 => calls[pending[g][k]] = [gen |-> g, kind |-> k]
          BY <1>0, Zenon DEF KeyInv
        <5> QED
          BY <5>1
      <4> QED
        BY <1>0, <4>1, SMTT(30) DEF OpenInv
    <3>1. CASE Resume(g)
      <4> DEFINE kind == calls[current[g]].kind
                 status == answers[current[g]].status
      <4>1. status \in Statuses
        BY <3>1, Resumed, Zenon
      <4>2. kind \in Keyed => Forgets(kind, status)
        BY <4>1, Zenon DEF Forgets, Keyed, Statuses
      <4>3. pending' = IF Forgets(kind, status)
                      THEN [pending EXCEPT ![g][kind] = 0] ELSE pending
        BY <3>1, Zenon DEF Resume
      <4> HIDE DEF kind, status
      <4>4. pending[g][k] # 0 => kind = k
        BY <3>0, Zenon DEF kind
      <4> QED
        BY <1>0, <4>2, <4>3, <4>4, Zenon DEF TypeOK
    <3>2. CASE EventsClosed(g)
      BY <3>0, <3>2, Zenon DEF EventsClosed, Waits
    <3>3. CASE Overrun(g)
      <4>1. calls[current[g]].kind = "Stop" /\ pending' = [pending EXCEPT ![g]["Stop"] = 0]
        BY <1>0, <3>3, Zenon DEF Overrun, AwaitInv
      <4> QED
        BY <1>0, <3>0, <4>1, Zenon DEF TypeOK
    <3> QED
      BY <1>5, <3>1, <3>2, <3>3, Zenon DEF Goes
  <2>4. ASSUME NEW id \in Calls, Asked(id), answers[id] = NoAnswer, calls[id].gen = g
        PROVE  loop'[g] = "ended" /\ calls[id].kind = "Stop"
    <3>0. \/ Waits(g) /\ current[g] = id
          \/ loop[g] = "ended" /\ calls[id].kind = "Stop"
      BY <1>0, <2>4, Zenon DEF OpenInv
    <3>1. CASE Resume(g)
      <4>1. Waits(g) /\ answers[current[g]] # NoAnswer
        BY <3>1, Resumed, Zenon
      <4> QED
        BY <2>4, <3>0, <4>1, Zenon DEF Waits
    <3>2. CASE EventsClosed(g)
      BY <3>0, <3>2, Zenon DEF EventsClosed, Waits
    <3>3. CASE Overrun(g)
      <4>1. loop[g] = "stopping" /\ loop'[g] = "ended" /\ calls[current[g]].kind = "Stop"
        BY <1>0, <3>3, Zenon DEF Overrun, AwaitInv, TypeOK
      <4> QED
        BY <3>0, <4>1, Zenon
    <3> QED
      BY <1>5, <3>1, <3>2, <3>3, Zenon DEF Goes
  <2>5. ASSUME NEW h \in Gens
        PROVE  (/\ Waits(h) => /\ calls[current[h]].gen = h
                               /\ Asked(current[h])
                               /\ loop[h] = "starting" => calls[current[h]].kind = "Start"
                /\ \A k \in Keyed : pending[h][k] # 0 => Waits(h) /\ current[h] = pending[h][k])'
    BY <1>0, <2>1, <2>2, <2>3, SMTT(30) DEF OpenInv, Waits, Asked
  <2>6. ASSUME NEW id \in Calls, Asked(id)', answers'[id] = NoAnswer
        PROVE  (\/ Waits(calls[id].gen) /\ current[calls[id].gen] = id
                \/ loop[calls[id].gen] = "ended" /\ calls[id].kind = "Stop")'
    <3>1. Asked(id) /\ answers[id] = NoAnswer /\ calls'[id] = calls[id] /\ calls[id].gen \in Gens
      BY <2>1, <2>6, Used, Zenon DEF Asked
    <3>2. CASE calls[id].gen = g
      BY <2>1, <2>4, <3>1, <3>2, Zenon
    <3>3. CASE calls[id].gen # g
      BY <1>0, <2>1, <3>1, <3>3, SMTT(30) DEF OpenInv, Waits
    <3> QED
      BY <3>2, <3>3, Zenon
  <2> QED
    BY <2>5, <2>6, Zenon DEF OpenInv
<1>6. CASE Sweep
  <2>1. \A g \in Gens, k \in Keyed : pending'[g][k] \in {0, pending[g][k]}
    BY <1>6, Zenon DEF Sweep
  <2> QED
    BY <1>1, <1>6, <2>1, Zenon DEF Sweep
<1>7. CASE DispatchResult
  <2>1. \A g \in Gens, k \in Keyed : pending'[g][k] \in {0, pending[g][k]}
    <3>1. pending' = pending \/ \E g, k : pending' = [pending EXCEPT ![g][k] = 0]
      BY <1>7, Zenon DEF DispatchResult
    <3>2. CASE pending' = pending
      BY <3>2, Zenon
    <3>3. CASE \E g, k : pending' = [pending EXCEPT ![g][k] = 0]
      <4>1. PICK g, k : pending' = [pending EXCEPT ![g][k] = 0]
        BY <3>3, Zenon
      <4>2. pending \in [Gens -> [Keyed -> 0 .. MaxCalls]]
        BY <1>0, Zenon DEF TypeOK
      <4> QED
        BY <4>1, <4>2, Removed, Zenon
    <3> QED
      BY <3>1, <3>2, <3>3, Zenon
  <2> DEFINE c == Head(commands)
             id == Target(c)
  <2>2. /\ \/ answers' = answers
           \/ answers' = [answers EXCEPT ![id] = [status |-> c.status, by |-> c.call]]
        /\ c \in Commands
    <3>1. \/ answers' = answers
          \/ answers' = [answers EXCEPT ![id] = [status |-> c.status, by |-> c.call]]
      BY <1>7, Zenon DEF DispatchResult, Resolve
    <3>2. c \in Commands
      BY <1>0, <1>7, QueueHead, Zenon DEF TypeOK, DispatchResult
    <3> QED
      BY <3>1, <3>2, Zenon
  <2> HIDE DEF c, id
  <2>3. ASSUME NEW j \in Calls, answers'[j] = NoAnswer PROVE answers[j] = NoAnswer
    <3>1. CASE answers'[j] = answers[j]
      BY <2>3, <3>1, Zenon
    <3>2. CASE answers'[j] # answers[j]
      <4>1. answers'[j] = [status |-> c.status, by |-> c.call]
        BY <1>0, <2>2, <3>2, Zenon DEF TypeOK
      <4>2. c.status \in Statuses /\ "none" \notin Statuses /\ NoAnswer.status = "none"
        BY <2>2, Zenon DEF Commands, Statuses, NoAnswer
      <4>3. answers'[j].status = c.status
        BY <4>1
      <4> QED
        BY <2>3, <4>2, <4>3, Zenon
    <3> QED
      BY <3>1, <3>2, Zenon
  <2> QED
    BY <1>1, <1>7, <2>1, <2>3, Zenon DEF DispatchResult
<1>8. ASSUME NEW g \in Gens, \/ Take(g) \/ RequestErrorStop(g) \/ Leave(g)
                             \/ \E status \in Statuses : Finish(g, status)
      PROVE  OpenInv'
  BY <1>2, <1>8, Zenon DEF Take, RequestErrorStop, Leave, Finish
<1>9. ASSUME NEW id \in Calls,
             PollStart(id) \/ PollDeliver(id) \/ PollIgnore(id) \/ PollUnknown(id)
      PROVE  OpenInv'
  BY <1>2, <1>9, Zenon DEF PollStart, PollDeliver, PollIgnore, PollUnknown
<1>10. CASE DispatchStopIntent \/ Quiet
  BY <1>2, <1>10, Zenon DEF DispatchStopIntent, Quiet
<1> QED
  BY <1>3, <1>4, <1>5, <1>6, <1>7, <1>8, <1>9, <1>10, Zenon DEF PumpStep

\* When a worker returns after a handler, the loop ends with its result.
LEMMA LeavingEnds ==
  ASSUME NEW kind, NEW status, After(kind, status) = "leaving"
  PROVE  /\ Proceed(kind, status) \in {"drained", "ended"}
         /\ kind \in {"Start", "Stop", "Action"}
BY Zenon DEF After, Proceed

\* A worker that leaves does so with the handler of the request the loop awaits, or
\* awaited last.
LEMMA FinalStep ==
  ASSUME IInv, PInv, PumpStep
  PROVE  FinalInv'
<1> USE DEF callVars, tableVars, sweepVars, loopVars, workVars, stopVars
<1>0. TypeOK /\ BusyInv /\ OnceInv /\ LineInv /\ YoungInv /\ ResultInv /\ OpenInv /\ FinalInv
  BY Zenon DEF IInv, PInv
<1>1. ASSUME UNCHANGED <<calls, loop, current, ran, worker>>
      PROVE  FinalInv'
  BY <1>0, <1>1, SMTT(30) DEF FinalInv, Waits, Left, Asked, Final
<1>2. ASSUME NEW g \in Gens, NEW kind \in Keyed \cup Kinds, NewCall(g, kind),
             UNCHANGED <<worker, ran>>,
             \A h \in Gens \ {g} : loop'[h] = loop[h] /\ current'[h] = current[h],
             \/ kind # "Message" /\ loop[g] \in {"none", "ready"}
             \/ kind = "Message" /\ UNCHANGED <<loop, current>>
      PROVE  FinalInv'
  <2> DEFINE n == nextId + 1
  <2>1. /\ n \in Calls /\ calls[n] = NoCall /\ ran[n] = "no"
        /\ calls'[n] = [gen |-> g, kind |-> kind]
        /\ \A id \in Calls : id # n => calls'[id] = calls[id]
    BY <1>2, Numbered, Zenon
  <2>2. calls'[n].gen = g /\ calls'[n].kind = kind
    BY <2>1
  <2> HIDE DEF n
  <2>3. \A id \in Calls : /\ Final(id)' <=> Final(id)
                          /\ Final(id) => calls'[id] = calls[id] /\ id # n
    BY <1>2, <2>1, Zenon DEF Final
  <2>4. \A id \in Calls : Final(id) => calls[id].gen \in Gens
    <3>1. ASSUME NEW id \in Calls, Final(id) PROVE calls[id].gen \in Gens
      <4>1. calls[id].kind \in {"Start", "Stop", "Action"}
        BY <3>1, LeavingEnds, Zenon DEF Final
      <4> QED
        BY <4>1, Used, Zenon DEF Asked
    <3> QED
      BY <3>1, Zenon
  <2>5. ASSUME NEW h \in Gens
        PROVE  Left(h)' <=> \E id \in Calls : calls'[id].gen = h /\ Final(id)'
    <3>1. Left(h)' <=> Left(h)
      BY <1>2, Zenon DEF Left
    <3>2. Left(h) <=> \E id \in Calls : calls[id].gen = h /\ Final(id)
      BY <1>0, Zenon DEF FinalInv
    <3> QED
      BY <2>3, <3>1, <3>2, Zenon
  <2>6. ASSUME NEW id \in Calls, Final(id)'
        PROVE  (/\ \/ loop[calls[id].gen] \in {"drained", "ended"}
                   \/ Waits(calls[id].gen) /\ current[calls[id].gen] = id
                /\ \A j \in Calls : Asked(j) /\ calls[j].gen = calls[id].gen => ran[j] # "no")'
    <3>1. Final(id) /\ calls'[id] = calls[id] /\ calls[id].gen \in Gens
      BY <2>3, <2>4, <2>6, Zenon
    <3>2. /\ \/ loop[calls[id].gen] \in {"drained", "ended"}
             \/ Waits(calls[id].gen) /\ current[calls[id].gen] = id
          /\ \A j \in Calls : Asked(j) /\ calls[j].gen = calls[id].gen => ran[j] # "no"
      BY <1>0, <3>1, Zenon DEF FinalInv
    <3>3. kind # "Message" => calls[id].gen # g
      BY <1>2, <3>2, Zenon DEF Waits
    <3>4. UNCHANGED <<loop[calls[id].gen], current[calls[id].gen]>>
      BY <1>2, <3>1, <3>3, Zenon
    <3>5. \A j \in Calls : Asked(j)' /\ calls'[j].gen = calls[id].gen => ran[j] # "no"
      BY <2>1, <2>2, <3>2, <3>3, Zenon DEF Asked
    <3> QED
      BY <1>2, <3>1, <3>2, <3>4, <3>5, Zenon DEF Waits
  <2> QED
    BY <2>5, <2>6, Zenon DEF FinalInv
<1>3. ASSUME NEW g \in Gens, NEW kind \in Keyed \cup Kinds, Sends(g, kind)
      PROVE  FinalInv'
  <2>1. /\ NewCall(g, kind) /\ UNCHANGED <<worker, ran>> /\ kind # "Message"
        /\ loop[g] \in {"none", "ready"}
    BY <1>3, Zenon DEF Sends
  <2>2. \A h \in Gens \ {g} : loop'[h] = loop[h] /\ current'[h] = current[h]
    BY <1>0, <1>3, Zenon DEF Sends, TypeOK
  <2> QED
    BY <1>2, <2>1, <2>2, Zenon
<1>4. ASSUME NEW g \in Gens, EmitMessage(g), "Message" \in Kinds
      PROVE  FinalInv'
  <2>1. NewCall(g, "Message") /\ UNCHANGED <<worker, ran, loop, current>>
    BY <1>4, Zenon DEF EmitMessage
  <2> QED
    BY <1>2, <1>4, <2>1, Zenon
<1>5. ASSUME NEW g \in Gens, Goes(g)
      PROVE  FinalInv'
  <2>1. /\ \A h \in Gens \ {g} : loop'[h] = loop[h] /\ current'[h] = current[h]
        /\ UNCHANGED <<calls, ran, worker>>
    BY <1>5, Gone, Zenon
  <2>2. \A id \in Calls : Final(id)' <=> Final(id)
    BY <2>1, Zenon DEF Final
  <2>3. ASSUME NEW id \in Calls, Final(id), calls[id].gen = g
        PROVE  loop'[g] \in {"drained", "ended"}
    <3>0. loop[g] \in {"drained", "ended"} \/ (Waits(g) /\ current[g] = id)
      BY <1>0, <2>3, Zenon DEF FinalInv
    <3>1. CASE Resume(g)
      <4>1. Waits(g) /\ ran[current[g]] = answers[current[g]].status
        BY <3>1, Resumed, Zenon
      <4>2. current[g] = id
        BY <3>0, <4>1, Zenon DEF Waits
      <4>3. Proceed(calls[id].kind, ran[id]) \in {"drained", "ended"}
        BY <2>3, LeavingEnds, Zenon DEF Final
      <4>4. loop' = [loop EXCEPT ![g] = Proceed(calls[id].kind, ran[id])]
        BY <3>1, <4>1, <4>2, Zenon DEF Resume
      <4> QED
        BY <1>0, <4>3, <4>4, Zenon DEF TypeOK
    <3>2. CASE EventsClosed(g) \/ Overrun(g)
      BY <1>0, <3>2, Zenon DEF EventsClosed, Overrun, TypeOK
    <3> QED
      BY <1>5, <3>1, <3>2, Zenon DEF Goes
  <2>4. ASSUME NEW id \in Calls, Final(id)'
        PROVE  (/\ \/ loop[calls[id].gen] \in {"drained", "ended"}
                   \/ Waits(calls[id].gen) /\ current[calls[id].gen] = id
                /\ \A j \in Calls : Asked(j) /\ calls[j].gen = calls[id].gen => ran[j] # "no")'
    <3>1. Final(id) /\ calls[id].gen \in Gens
      <4>1. calls[id].kind \in {"Start", "Stop", "Action"}
        BY <2>2, <2>4, LeavingEnds, Zenon DEF Final
      <4> QED
        BY <2>2, <2>4, <4>1, Used, Zenon DEF Asked
    <3>2. /\ \/ loop[calls[id].gen] \in {"drained", "ended"}
             \/ Waits(calls[id].gen) /\ current[calls[id].gen] = id
          /\ \A j \in Calls : Asked(j) /\ calls[j].gen = calls[id].gen => ran[j] # "no"
      BY <1>0, <3>1, Zenon DEF FinalInv
    <3>3. CASE calls[id].gen = g
      BY <2>1, <2>3, <3>1, <3>2, <3>3, Zenon DEF Asked
    <3>4. CASE calls[id].gen # g
      BY <2>1, <3>1, <3>2, <3>4, Zenon DEF Asked, Waits
    <3> QED
      BY <3>3, <3>4, Zenon
  <2>5. ASSUME NEW h \in Gens
        PROVE  Left(h)' <=> \E id \in Calls : calls'[id].gen = h /\ Final(id)'
    <3>1. Left(h)' <=> Left(h)
      BY <2>1, Zenon DEF Left
    <3>2. Left(h) <=> \E id \in Calls : calls[id].gen = h /\ Final(id)
      BY <1>0, Zenon DEF FinalInv
    <3> QED
      BY <2>1, <2>2, <3>1, <3>2, Zenon
  <2> QED
    BY <2>4, <2>5, Zenon DEF FinalInv
<1>6. ASSUME UNCHANGED <<calls, loop, current, ran>>, \A h \in Gens : Left(h)' <=> Left(h)
      PROVE  FinalInv'
  <2>1. \A id \in Calls : (Final(id)' <=> Final(id)) /\ (Asked(id)' <=> Asked(id))
    BY <1>6, Zenon DEF Final, Asked
  <2>2. \A h : Waits(h)' <=> Waits(h)
    BY <1>6, Zenon DEF Waits
  <2> QED
    BY <1>0, <1>6, <2>1, <2>2, Zenon DEF FinalInv
<1>7. ASSUME NEW id \in Calls, PollStart(id)
      PROVE  FinalInv'
  <2> DEFINE g == calls[id].gen
  <2>1. NextEvent(id) /\ UNCHANGED <<calls, loop, current, ran>> /\ calls[id].kind = "Start"
    BY <1>7, Zenon DEF PollStart
  <2>2. g \in Gens /\ worker[g] = "none"
    BY <1>0, <2>1, Polled, Zenon DEF YoungInv
  <2>3. worker'[g] = "busy" /\ \A h \in Gens \ {g} : worker'[h] = worker[h]
    BY <1>0, <1>7, <2>2, Zenon DEF PollStart, TypeOK
  <2> HIDE DEF g
  <2>4. \A h \in Gens : Left(h)' <=> Left(h)
    BY <2>2, <2>3, Zenon DEF Left
  <2> QED
    BY <1>6, <2>1, <2>4, Zenon
<1>8. ASSUME NEW g \in Gens, Take(g) \/ RequestErrorStop(g) \/ Leave(g)
      PROVE  FinalInv'
  <2>1. UNCHANGED <<calls, loop, current, ran>>
    BY <1>8, Zenon DEF Take, RequestErrorStop, Leave
  <2>2. \A h \in Gens : Left(h)' <=> Left(h)
    BY <1>0, <1>8, Zenon DEF Take, RequestErrorStop, Leave, Left, TypeOK
  <2> QED
    BY <1>6, <2>1, <2>2, Zenon
<1>9. ASSUME NEW g \in Gens, NEW status \in Statuses, Finish(g, status)
      PROVE  FinalInv'
  <2>0. PICK id \in Calls : id = item[g]
    BY <1>0, <1>9, Zenon DEF Finish, BusyInv
  <2>1. /\ worker[g] = "busy" /\ UNCHANGED <<calls, loop, current>>
        /\ calls[id].gen = g /\ ran[id] = "no"
    BY <1>0, <1>9, <2>0, Zenon DEF Finish, LineInv
  <2>2. /\ ran'[id] = status /\ \A j \in Calls : j # id => ran'[j] = ran[j]
        /\ worker'[g] = After(calls[id].kind, status)
        /\ \A h \in Gens \ {g} : worker'[h] = worker[h]
    BY <1>0, <1>9, <2>0, <2>1, Zenon DEF Finish, TypeOK
  <2>3. "no" \notin Statuses
    BY Zenon DEF Statuses
  <2>4. Final(id)' <=> worker'[g] = "leaving"
    BY <2>1, <2>2, <2>3, Zenon DEF Final
  <2>5. \A j \in Calls : j # id => (Final(j)' <=> Final(j))
    BY <2>1, <2>2, Zenon DEF Final
  <2>6. \A j \in Calls : Final(j) => calls[j].gen # g
    BY <1>0, <2>1, Zenon DEF FinalInv, Left
  <2>7. Left(g)' <=> worker'[g] = "leaving"
    BY <2>2, AfterType, ZenonT(30) DEF Left
  <2>8. ASSUME NEW h \in Gens
        PROVE  Left(h)' <=> \E j \in Calls : calls'[j].gen = h /\ Final(j)'
    <3>1. CASE h = g
      BY <2>1, <2>4, <2>5, <2>6, <2>7, <3>1, Zenon
    <3>2. CASE h # g
      <4>1. Left(h)' <=> Left(h)
        BY <2>2, <3>2, Zenon DEF Left
      <4>2. Left(h) <=> \E j \in Calls : calls[j].gen = h /\ Final(j)
        BY <1>0, Zenon DEF FinalInv
      <4> QED
        BY <2>1, <2>5, <3>2, <4>1, <4>2, Zenon
    <3> QED
      BY <3>1, <3>2, Zenon
  <2>9. ASSUME NEW i \in Calls, Final(i)'
        PROVE  (/\ \/ loop[calls[i].gen] \in {"drained", "ended"}
                   \/ Waits(calls[i].gen) /\ current[calls[i].gen] = i
                /\ \A j \in Calls : Asked(j) /\ calls[j].gen = calls[i].gen => ran[j] # "no")'
    <3>1. CASE i = id
      <4>1. Asked(id)
        <5>1. calls[id].kind \in {"Start", "Stop", "Action"}
          BY <2>2, <2>9, <3>1, <2>1, LeavingEnds, Zenon DEF Final
        <5> QED
          BY <5>1, Zenon DEF Asked
      <4>2. ASSUME NEW j \in Calls, Asked(j), calls[j].gen = g, ran[j] = "no"
            PROVE  \/ Waits(g) /\ current[g] = j
                   \/ loop[g] = "ended" /\ calls[j].kind = "Stop"
        BY <1>0, <4>2, Answered, Zenon DEF OpenInv
      <4>3. ASSUME NEW j \in Calls, Asked(j), calls[j].gen = g, ran[j] = "no"
            PROVE  j = id
        <5>1. CASE Waits(g)
          BY <2>1, <4>1, <4>2, <4>3, <5>1, Zenon DEF Waits
        <5>2. CASE ~Waits(g)
          <6>1. calls[j].kind = "Stop" /\ calls[id].kind = "Stop"
            BY <2>1, <4>1, <4>2, <4>3, <5>2, Zenon
          <6>2. calls[j] = calls[id]
            <7>1. /\ calls[j] \in [gen : Gens, kind : Keyed \cup Kinds]
                  /\ calls[id] \in [gen : Gens, kind : Keyed \cup Kinds]
              BY <1>0, <6>1 DEF TypeOK, NoCall
            <7> QED
              BY <2>1, <4>3, <6>1, <7>1
          <6> QED
            BY <1>0, <2>1, <6>1, <6>2, Zenon DEF OnceInv
        <5> QED
          BY <5>1, <5>2, Zenon
      <4>4. \/ Waits(g) /\ current[g] = id
            \/ loop[g] = "ended"
        BY <2>1, <4>1, <4>2, Zenon
      <4>5. \A j \in Calls : Asked(j) /\ calls[j].gen = g => ran'[j] # "no"
        BY <2>2, <2>3, <4>3, Zenon
      <4> QED
        BY <2>1, <3>1, <4>4, <4>5, Zenon DEF Waits, Asked
    <3>2. CASE i # id
      <4>1. Final(i) /\ calls[i].gen # g
        BY <2>5, <2>6, <2>9, <3>2, Zenon
      <4>2. /\ \/ loop[calls[i].gen] \in {"drained", "ended"}
               \/ Waits(calls[i].gen) /\ current[calls[i].gen] = i
            /\ \A j \in Calls : Asked(j) /\ calls[j].gen = calls[i].gen => ran[j] # "no"
        BY <1>0, <4>1, Zenon DEF FinalInv
      <4>3. \A j \in Calls : Asked(j) /\ calls[j].gen = calls[i].gen => ran'[j] # "no"
        BY <2>1, <2>2, <4>1, <4>2, Zenon
      <4> QED
        BY <2>1, <4>2, <4>3, Zenon DEF Waits, Asked
    <3> QED
      BY <3>1, <3>2, Zenon
  <2> QED
    BY <2>8, <2>9, Zenon DEF FinalInv
<1>10. ASSUME NEW id \in Calls, PollDeliver(id) \/ PollIgnore(id) \/ PollUnknown(id)
       PROVE  FinalInv'
  BY <1>1, <1>10, Zenon DEF PollDeliver, PollIgnore, PollUnknown
<1>11. CASE Sweep \/ DispatchResult \/ DispatchStopIntent \/ Quiet
  BY <1>1, <1>11, Zenon DEF Sweep, DispatchResult, DispatchStopIntent, Quiet
<1> QED
  BY <1>3, <1>4, <1>5, <1>7, <1>8, <1>9, <1>10, <1>11, Zenon DEF PumpStep

\* An event for a generation finds its worker: the event is of the request the
\* loop awaits, and a worker that has left did so with that request.
LEMMA SurvivesStep ==
  ASSUME IInv, PInv, PumpStep
  PROVE  PumpSurvives'
<1> USE DEF callVars, tableVars, sweepVars, loopVars, workVars, stopVars
<1>0. YoungInv /\ OpenInv /\ FinalInv /\ poller = "polling"
  BY Zenon DEF PInv, PumpSurvives
<1>1. ASSUME NEW id \in Calls, PollUnknown(id)
      PROVE  FALSE
  <2> DEFINE g == calls[id].gen
  <2>1. /\ NextEvent(id) /\ calls[id].kind \notin {"Start", "Message"}
        /\ ~Registered(g)
    BY <1>1, Zenon DEF PollUnknown, Accepts
  <2>2. /\ calls[id] # NoCall /\ ran[id] = "no" /\ g \in Gens
    BY <2>1, Polled, Zenon
  <2>3. answers[id] = NoAnswer /\ Asked(id)
    BY <2>1, <2>2, Answered, Used, Zenon DEF Asked
  <2> HIDE DEF g
  <2>4. \/ Waits(g) /\ current[g] = id
        \/ loop[g] = "ended"
    BY <1>0, <2>3, Zenon DEF OpenInv, g
  <2>5. CASE worker[g] = "none"
    BY <1>0, <2>1, <2>2, <2>4, <2>5, SMTT(30) DEF YoungInv, OpenInv, Waits, g
  <2>6. CASE worker[g] = "gone"
    <3>1. PICK j \in Calls : calls[j].gen = g /\ Final(j)
      BY <1>0, <2>2, <2>6, Zenon DEF FinalInv, Left
    <3> QED
      BY <1>0, <2>2, <2>3, <3>1, Zenon DEF FinalInv, g
  <2> QED
    BY <2>1, <2>5, <2>6, Zenon DEF Registered
<1>2. poller' = poller \/ \E id \in Calls : PollUnknown(id)
  BY Zenon DEF PumpStep, Sends, EmitMessage, Goes, Resume, EventsClosed, Overrun, Take,
               RequestErrorStop, Leave, Finish, Sweep, DispatchResult, DispatchStopIntent,
               PollStart, PollDeliver, PollIgnore, Quiet
<1> QED
  BY <1>0, <1>1, <1>2, Zenon DEF PumpSurvives

\* The invariant holds in every state when no correlation expires.
LEMMA PumpInvariance ==
  ASSUME MaxTimeouts = 0
  PROVE  Spec => [](IInv /\ PInv)
<1>1. IInv /\ PInv /\ [Next]_vars => PInv'
  <2> SUFFICES ASSUME IInv, PInv, [Next]_vars PROVE PInv'
    BY Zenon
  <2>1. PumpStep
    BY PumpSteps, Zenon
  <2>2. LineInv' /\ YoungInv' /\ ResultInv'
    BY <2>1, LineStep, YoungStep, ResultStep, Zenon
  <2>3. OpenInv' /\ FinalInv' /\ PumpSurvives'
    BY <2>1, OpenStep, FinalStep, SurvivesStep, Zenon
  <2> QED
    BY <2>2, <2>3, Zenon DEF PInv
<1> QED
  BY Invariance, PInitially, <1>1, PTL DEF Spec

\* When no request outlasts its deadline, the poll goroutine is never given an event
\* for a generation without a worker (handleInternalEvent's error, which ends the pump),
\* however handlers fail, actors stop and the sleep timer overruns.
THEOREM PumpOutlivesActors ==
  ASSUME MaxTimeouts = 0
  PROVE  Spec => []PumpSurvives
<1>1. PInv => PumpSurvives
  BY Zenon DEF PInv
<1> QED
  BY PumpInvariance, <1>1, PTL

-----------------------------------------------------------------------------
(* Whom a StopIntent stops *)

\* Generations follow each other.
SeqInv == \A g, h \in Gens : h < g /\ loop[g] # "none" => loop[h] = "ended"

\* A loop is over when its worker's last handler has been answered for.
EndInv ==
  \A g \in Gens : loop[g] \in {"drained", "ended"} =>
    \E id \in Calls : calls[id].gen = g /\ Final(id) /\ answers[id] # NoAnswer

\* The last result of a worker comes after its StopIntents.
IntentInv ==
  \A i \in 1 .. Len(commands) : commands[i].kind = "StopIntent" =>
    /\ calls[commands[i].call] # NoCall
    /\ \A id \in Calls : calls[id].gen = calls[commands[i].call].gen /\ Final(id) =>
         \E j \in 1 .. Len(commands) :
           i < j /\ commands[j].kind = "Result" /\ commands[j].call = id

\* Core makes no request that is not one of Kinds.
AskedInv == \A id \in Calls : calls[id].kind # "Alarm"

SInv == AskedInv /\ SeqInv /\ EndInv /\ IntentInv /\ StopsOwnGeneration

\* The loop ends with a result that makes the worker return, and with no other.
LEMMA EndsLeaving ==
  ASSUME NEW kind, kind \in Keyed \cup Kinds, Kinds \cap {"Alarm", "Close"} = {},
         kind # "Alarm", NEW status, Proceed(kind, status) \in {"drained", "ended"}
  PROVE  After(kind, status) = "leaving"
BY LifecycleAssumption, Zenon DEF After, Proceed, Keyed, AllKinds

\* What a step keeps of handlers that have ended and of answers.
LEMMA Stays ==
  ASSUME IInv, PInv, PumpStep
  PROVE  /\ \A id \in Calls : calls[id] # NoCall => calls'[id] = calls[id]
         /\ \A id \in Calls : Final(id) => Final(id)' /\ calls'[id] = calls[id]
         /\ \A id \in Calls : answers[id] # NoAnswer => answers'[id] # NoAnswer
<1> USE DEF callVars, tableVars, sweepVars, loopVars, workVars, stopVars
<1>0. TypeOK /\ BusyInv /\ LineInv
  BY Zenon DEF IInv, PInv
<1>1. \A id \in Calls : calls[id] # NoCall => calls'[id] = calls[id]
  <2>1. \/ calls' = calls
        \/ \E g \in Gens, kind \in Keyed \cup Kinds : NewCall(g, kind)
    BY Zenon DEF PumpStep, Sends, EmitMessage, Goes, Resume, EventsClosed, Overrun, Take,
                 RequestErrorStop, Leave, Finish, Sweep, DispatchResult,
                 DispatchStopIntent, PollStart, PollDeliver, PollIgnore, PollUnknown, Quiet
  <2>2. ASSUME NEW g \in Gens, NEW kind \in Keyed \cup Kinds, NewCall(g, kind),
               NEW id \in Calls, calls[id] # NoCall
        PROVE  calls'[id] = calls[id]
    BY <2>2, Numbered, Zenon
  <2> QED
    BY <2>1, <2>2, Zenon
<1>2. \A id \in Calls : ran[id] # "no" => ran'[id] = ran[id]
  <2>1. ran' = ran \/ \E g \in Gens, status \in Statuses : Finish(g, status)
    BY Zenon DEF PumpStep, Sends, EmitMessage, Goes, Resume, EventsClosed, Overrun, Take,
                 RequestErrorStop, Leave, Sweep, DispatchResult,
                 DispatchStopIntent, PollStart, PollDeliver, PollIgnore, PollUnknown, Quiet
  <2>2. ASSUME NEW g \in Gens, NEW status \in Statuses, Finish(g, status),
               NEW id \in Calls, ran[id] # "no"
        PROVE  ran'[id] = ran[id]
    <3>1. worker[g] = "busy" /\ ran' = [ran EXCEPT ![item[g]] = status]
      BY <2>2, Zenon DEF Finish
    <3>2. id # item[g]
      BY <1>0, <2>2, <3>1, Zenon DEF LineInv
    <3> QED
      BY <1>0, <3>1, <3>2, Zenon DEF TypeOK
  <2> QED
    BY <2>1, <2>2, Zenon
<1>3. \A id \in Calls : Final(id) => calls[id] # NoCall
  <2>1. ASSUME NEW id \in Calls, Final(id)
        PROVE  calls[id] # NoCall
    <3>1. calls[id].kind \in {"Start", "Stop", "Action"}
      BY <2>1, LeavingEnds, Zenon DEF Final
    <3> QED
      BY <3>1 DEF NoCall
  <2> QED
    BY <2>1, Zenon
<1>4. \A id \in Calls : Final(id) => Final(id)' /\ calls'[id] = calls[id]
  BY <1>1, <1>2, <1>3, Zenon DEF Final
<1>5. \A id \in Calls : answers[id] # NoAnswer => answers'[id] # NoAnswer
  <2>1. answers' = answers \/ DispatchResult
    BY Zenon DEF PumpStep, Sends, EmitMessage, Goes, Resume, EventsClosed, Overrun, Take,
                 RequestErrorStop, Leave, Finish, Sweep,
                 DispatchStopIntent, PollStart, PollDeliver, PollIgnore, PollUnknown, Quiet
  <2>2. CASE DispatchResult
    <3> DEFINE c == Head(commands)
               answer == [status |-> c.status, by |-> c.call]
    <3>1. \/ answers' = answers
          \/ answers' = [answers EXCEPT ![Target(c)] = answer]
      BY <2>2, Zenon DEF DispatchResult, Resolve
    <3>2. answer # NoAnswer
      <4>1. c \in Commands
        BY <1>0, <2>2, QueueHead, Zenon DEF TypeOK, DispatchResult
      <4>2. answer.status \in Statuses /\ NoAnswer.status \notin Statuses
        BY <4>1, Zenon DEF Commands, NoAnswer, Statuses
      <4> QED
        BY <4>2, Zenon
    <3> HIDE DEF answer, c
    <3> QED
      BY <1>0, <3>1, <3>2, Zenon DEF TypeOK
  <2> QED
    BY <2>1, <2>2, Zenon
<1> QED
  BY <1>1, <1>4, <1>5, Zenon

\* A generation starts only after the one before it has ended.
LEMMA SeqStep ==
  ASSUME IInv, PInv, SeqInv, PumpStep
  PROVE  SeqInv'
<1> USE DEF callVars, tableVars, sweepVars, loopVars, workVars, stopVars
<1>0. TypeOK
  BY Zenon DEF IInv
<1>1. ASSUME NEW g \in Gens, NEW kind \in Keyed \cup Kinds, Sends(g, kind)
      PROVE  SeqInv'
  <2>1. loop'[g] # "none" /\ loop[g] # "ended"
        /\ \A h \in Gens \ {g} : loop'[h] = loop[h]
    BY <1>0, <1>1, Zenon DEF Sends, TypeOK
  <2>2. CASE loop[g] = "none"
    <3>1. g > 1 => loop[g - 1] = "ended"
      BY <1>1, <2>2, Zenon DEF Sends
    <3>2. \A h \in Gens : h < g => loop[h] = "ended"
      BY <3>1, LifecycleAssumption DEF SeqInv, Gens
    <3> QED
      BY <2>1, <2>2, <3>2, Zenon DEF SeqInv, Gens
  <2>3. CASE loop[g] # "none"
    BY <2>1, <2>3, Zenon DEF SeqInv
  <2> QED
    BY <2>2, <2>3, Zenon
<1>2. ASSUME NEW g \in Gens, Goes(g)
      PROVE  SeqInv'
  <2>1. loop[g] # "none" /\ \A h \in Gens \ {g} : loop'[h] = loop[h]
    BY <1>2, Gone, Zenon
  <2>2. loop[g] # "ended"
    BY <1>2, Zenon DEF Goes, Resume, EventsClosed, Overrun
  <2> QED
    BY <2>1, <2>2, Zenon DEF SeqInv
<1>3. ASSUME loop' = loop
      PROVE  SeqInv'
  BY <1>3, Zenon DEF SeqInv
<1>4. \/ loop' = loop
      \/ \E g \in Gens, kind \in Keyed \cup Kinds : Sends(g, kind)
      \/ \E g \in Gens : Goes(g)
  BY Zenon DEF PumpStep, EmitMessage, Take, RequestErrorStop, Leave, Finish, Sweep,
               DispatchResult, DispatchStopIntent, PollStart, PollDeliver, PollIgnore,
               PollUnknown, Quiet
<1> QED
  BY <1>1, <1>2, <1>3, <1>4, Zenon

\* Core only makes requests of the kinds it is given.
LEMMA AskedStep ==
  ASSUME "Alarm" \notin Kinds, IInv, PInv, AskedInv, PumpStep
  PROVE  AskedInv'
<1> USE DEF callVars, tableVars, sweepVars, loopVars, workVars, stopVars
<1>1. \/ calls' = calls
      \/ \E g \in Gens, kind \in Keyed \cup Kinds : NewCall(g, kind) /\ kind # "Alarm"
  <2>1. ASSUME NEW g \in Gens, NEW kind \in Keyed \cup Kinds, Sends(g, kind)
        PROVE  NewCall(g, kind) /\ kind # "Alarm"
    BY <2>1, Zenon DEF Sends
  <2>2. ASSUME NEW g \in Gens, EmitMessage(g)
        PROVE  NewCall(g, "Message") /\ "Message" # "Alarm"
    BY <2>2, Zenon DEF EmitMessage
  <2> QED
    BY <2>1, <2>2, Zenon
       DEF PumpStep, Goes, Resume, EventsClosed, Overrun, Take,
           RequestErrorStop, Leave, Finish, Sweep, DispatchResult,
           DispatchStopIntent, PollStart, PollDeliver, PollIgnore, PollUnknown, Quiet
<1>2. ASSUME NEW g \in Gens, NEW kind \in Keyed \cup Kinds, NewCall(g, kind), kind # "Alarm"
      PROVE  AskedInv'
  <2>1. /\ calls'[nextId + 1] = [gen |-> g, kind |-> kind]
        /\ \A id \in Calls : id # nextId + 1 => calls'[id] = calls[id]
    BY <1>2, Numbered, Zenon
  <2> QED
    BY <1>2, <2>1 DEF AskedInv
<1>3. CASE calls' = calls
  BY <1>3, Zenon DEF AskedInv
<1> QED
  BY <1>1, <1>2, <1>3, Zenon

\* The last handler of a worker keeps being answered for once the loop has ended.
LEMMA EndStep ==
  ASSUME ~MayOverrun, Kinds \cap {"Alarm", "Close"} = {}, IInv, PInv, AskedInv, EndInv,
         PumpStep
  PROVE  EndInv'
<1> USE DEF callVars, tableVars, sweepVars, loopVars, workVars, stopVars
<1>0. TypeOK /\ OpenInv
  BY Zenon DEF IInv, PInv
<1>1. ASSUME NEW g \in Gens, loop[g] \in {"drained", "ended"}
      PROVE  \E id \in Calls : calls'[id].gen = g /\ Final(id)' /\ answers'[id] # NoAnswer
  <2>1. PICK id \in Calls : calls[id].gen = g /\ Final(id) /\ answers[id] # NoAnswer
    BY <1>1, Zenon DEF EndInv
  <2>2. calls'[id].gen = g /\ Final(id)' /\ answers'[id] # NoAnswer
    BY <2>1, Stays, Zenon
  <2> QED
    BY <2>2, Zenon
<1>2. ASSUME NEW g \in Gens, Resume(g), loop'[g] \in {"drained", "ended"}
      PROVE  \E id \in Calls : calls'[id].gen = g /\ Final(id)' /\ answers'[id] # NoAnswer
  <2>1. PICK id \in Calls : id = current[g]
    BY <1>2, Resumed, Zenon
  <2>2. /\ calls[id].gen = g /\ answers[id] # NoAnswer /\ Waits(g)
        /\ ran[id] = answers[id].status /\ ran[id] # "no"
    BY <1>2, <2>1, Resumed, Zenon
  <2>3. calls[id].kind \in Keyed \cup Kinds /\ calls[id].kind # "Alarm"
    BY <2>2, Used, Zenon DEF AskedInv
  <2>4. loop'[g] = Proceed(calls[id].kind, ran[id])
    BY <1>0, <1>2, <2>1, <2>2, Zenon DEF Resume, TypeOK
  <2>5. After(calls[id].kind, ran[id]) = "leaving"
    BY <1>2, <2>3, <2>4, EndsLeaving
  <2>6. Final(id)
    BY <2>2, <2>5, Zenon DEF Final
  <2> QED
    BY <2>2, <2>6, Stays, Zenon
<1>3. ASSUME NEW g \in Gens, loop'[g] \in {"drained", "ended"},
             loop[g] \notin {"drained", "ended"}
      PROVE  Resume(g)
  <2>1. ASSUME NEW h \in Gens, NEW kind \in Keyed \cup Kinds, Sends(h, kind)
        PROVE  FALSE
    BY <1>0, <1>3, <2>1, Zenon DEF Sends, TypeOK
  <2>2. ASSUME NEW h \in Gens, Goes(h)
        PROVE  Resume(g)
    <3>1. h = g
      BY <1>3, <2>2, Gone, Zenon
    <3> QED
      BY <1>3, <2>2, <3>1, Zenon DEF Goes, EventsClosed, Overrun
  <2>3. loop' # loop
    BY <1>3, Zenon
  <2> QED
    BY <2>1, <2>2, <2>3, Zenon
       DEF PumpStep, EmitMessage, Take, RequestErrorStop, Leave, Finish, Sweep,
           DispatchResult, DispatchStopIntent, PollStart, PollDeliver, PollIgnore,
           PollUnknown, Quiet
<1> QED
  BY <1>1, <1>2, <1>3, Zenon DEF EndInv

\* The StopIntents of a worker are in the queue before its last result.
LEMMA IntentStep ==
  ASSUME IInv, PInv, IntentInv, PumpStep
  PROVE  IntentInv'
<1> USE DEF callVars, tableVars, sweepVars, loopVars, workVars, stopVars
<1>0. TypeOK /\ BusyInv /\ LineInv /\ FinalInv
  BY Zenon DEF IInv, PInv
<1>1. \A i \in 1 .. Len(commands) : commands[i] \in Commands /\ commands[i].call \in Calls
  <2>1. ASSUME NEW i \in 1 .. Len(commands)
        PROVE  commands[i] \in Commands
    BY <1>0, <2>1 DEF TypeOK
  <2>2. \A c \in Commands : c.call \in Calls
    BY Zenon DEF Commands
  <2> QED
    BY <2>1, <2>2, Zenon
<1>2. ASSUME commands' = commands, \A id \in Calls : Final(id)' => Final(id)
      PROVE  IntentInv'
  <2>1. \A i \in 1 .. Len(commands) : commands[i].kind = "StopIntent" =>
          calls'[commands[i].call] = calls[commands[i].call]
    BY <1>1, Stays, Zenon DEF IntentInv
  <2>2. \A id \in Calls : Final(id)' => Final(id) /\ calls'[id] = calls[id]
    BY <1>2, Stays, Zenon
  <2> QED
    BY <1>1, <1>2, <2>1, <2>2, SMTT(30) DEF IntentInv
<1>3. ASSUME calls' = calls, ran' = ran
      PROVE  \A id \in Calls : Final(id)' <=> Final(id)
  BY <1>3, Zenon DEF Final
<1>4. ASSUME NEW g \in Gens, NEW kind \in Keyed \cup Kinds, NewCall(g, kind),
             UNCHANGED <<commands, ran>>
      PROVE  IntentInv'
  <2>1. /\ ran[nextId + 1] = "no"
        /\ \A id \in Calls : id # nextId + 1 => calls'[id] = calls[id]
    BY <1>4, Numbered, Zenon
  <2>2. \A id \in Calls : Final(id)' => Final(id)
    BY <1>4, <2>1, Zenon DEF Final
  <2> QED
    BY <1>2, <1>4, <2>2, Zenon
<1>5. ASSUME NEW c \in Commands, commands' = Append(commands, c)
      PROVE  /\ Len(commands') = Len(commands) + 1 /\ Len(commands) \in Nat
             /\ \A i \in 1 .. Len(commands) : commands'[i] = commands[i]
             /\ commands'[Len(commands) + 1] = c
  BY <1>0, <1>5 DEF TypeOK
<1>6. ASSUME NEW g \in Gens, NEW status \in Statuses, Finish(g, status)
      PROVE  IntentInv'
  <2>0. PICK id \in Calls : id = item[g]
    BY <1>0, <1>6, Zenon DEF Finish, BusyInv
  <2> DEFINE c == Result(id, status)
  <2>1. /\ calls' = calls /\ ran' = [ran EXCEPT ![id] = status]
        /\ \/ commands' = commands /\ calls[id].kind = "Message"
           \/ commands' = Append(commands, c)
    BY <1>6, <2>0, Zenon DEF Finish
  <2>2. \A j \in Calls : j # id => (Final(j)' => Final(j))
    <3>1. \A j \in Calls : j # id => ran'[j] = ran[j]
      BY <1>0, <2>1, Zenon DEF TypeOK
    <3> QED
      BY <2>1, <3>1, Zenon DEF Final
  <2>3. CASE commands' = commands /\ calls[id].kind = "Message"
    <3>1. ~Final(id)'
      <4>1. Final(id)' => calls'[id].kind \in {"Start", "Stop", "Action"}
        BY LeavingEnds, Zenon DEF Final
      <4> QED
        BY <2>1, <2>3, <4>1, Zenon
    <3> QED
      BY <1>2, <2>2, <2>3, <3>1, Zenon
  <2>4. CASE commands' = Append(commands, c)
    <3>1. c \in Commands /\ c.kind = "Result" /\ c.call = id
      BY Zenon DEF Commands, Result
    <3> HIDE DEF c
    <3>2. /\ Len(commands') = Len(commands) + 1 /\ Len(commands) \in Nat
          /\ \A i \in 1 .. Len(commands) : commands'[i] = commands[i]
          /\ commands'[Len(commands) + 1] = c
      BY <1>5, <2>4, <3>1, Zenon
    <3> SUFFICES ASSUME NEW i \in 1 .. Len(commands'), commands'[i].kind = "StopIntent"
                 PROVE  /\ calls'[commands'[i].call] # NoCall
                        /\ \A j \in Calls : calls'[j].gen = calls'[commands'[i].call].gen
                                            /\ Final(j)' =>
                             \E k \in 1 .. Len(commands') :
                               i < k /\ commands'[k].kind = "Result" /\ commands'[k].call = j
      BY Zenon DEF IntentInv
    <3>3. i \in 1 .. Len(commands) /\ commands'[i] = commands[i]
      BY <3>1, <3>2
    <3>4. calls[commands[i].call] # NoCall
      BY <3>3, Zenon DEF IntentInv
    <3>5. ASSUME NEW j \in Calls, calls[j].gen = calls[commands[i].call].gen, Final(j)'
          PROVE  \E k \in 1 .. Len(commands') :
                   i < k /\ commands'[k].kind = "Result" /\ commands'[k].call = j
      <4>1. CASE j = id
        BY <3>1, <3>2, <3>3, <4>1
      <4>2. CASE j # id
        <5>1. PICK k \in 1 .. Len(commands) :
                i < k /\ commands[k].kind = "Result" /\ commands[k].call = j
          BY <2>2, <3>3, <3>5, <4>2, ZenonT(30) DEF IntentInv
        <5> QED
          BY <3>2, <5>1
      <4> QED
        BY <4>1, <4>2, Zenon
    <3> QED
      BY <2>1, <3>3, <3>4, <3>5, Zenon
  <2> QED
    BY <2>1, <2>3, <2>4, Zenon
<1>7. ASSUME NEW g \in Gens, RequestErrorStop(g)
      PROVE  IntentInv'
  <2> DEFINE c == StopIntent(item[g])
  <2>1. /\ calls' = calls /\ ran' = ran /\ commands' = Append(commands, c)
        /\ worker[g] = "stopping"
    BY <1>7, Zenon DEF RequestErrorStop
  <2>2. item[g] \in Calls /\ calls[item[g]].gen = g
    BY <1>0, <2>1, Zenon DEF BusyInv, LineInv
  <2>3. c \in Commands /\ c.kind = "StopIntent" /\ c.call = item[g]
    BY <2>2, Zenon DEF StopIntent, Commands, Statuses
  <2>4. \A j \in Calls : Final(j) => calls[j].gen # g
    BY <1>0, <2>1, Zenon DEF FinalInv, Left
  <2> HIDE DEF c
  <2>5. /\ Len(commands') = Len(commands) + 1 /\ Len(commands) \in Nat
        /\ \A i \in 1 .. Len(commands) : commands'[i] = commands[i]
        /\ commands'[Len(commands) + 1] = c
    BY <1>5, <2>1, <2>3, Zenon
  <2>6. \A j \in Calls : Final(j)' <=> Final(j)
    BY <1>3, <2>1, Zenon
  <2> SUFFICES ASSUME NEW i \in 1 .. Len(commands'), commands'[i].kind = "StopIntent"
               PROVE  /\ calls'[commands'[i].call] # NoCall
                      /\ \A j \in Calls : calls'[j].gen = calls'[commands'[i].call].gen
                                          /\ Final(j)' =>
                           \E k \in 1 .. Len(commands') :
                             i < k /\ commands'[k].kind = "Result" /\ commands'[k].call = j
    BY Zenon DEF IntentInv
  <2>7. CASE i \in 1 .. Len(commands)
    <3>1. commands'[i] = commands[i] /\ calls[commands[i].call] # NoCall
      BY <2>5, <2>7, Zenon DEF IntentInv
    <3>2. ASSUME NEW j \in Calls, calls[j].gen = calls[commands[i].call].gen, Final(j)
          PROVE  \E k \in 1 .. Len(commands') :
                   i < k /\ commands'[k].kind = "Result" /\ commands'[k].call = j
      <4>1. PICK k \in 1 .. Len(commands) :
              i < k /\ commands[k].kind = "Result" /\ commands[k].call = j
        BY <2>7, <3>1, <3>2, Zenon DEF IntentInv
      <4> QED
        BY <2>5, <4>1
    <3> QED
      BY <2>1, <2>6, <3>1, <3>2, SMTT(30)
  <2>8. CASE i = Len(commands) + 1
    <3>1. commands'[i].call = item[g]
      BY <2>3, <2>5, <2>8, Zenon
    <3> QED
      BY <2>1, <2>2, <2>4, <2>6, <3>1, Used, Zenon
  <2> QED
    BY <2>5, <2>7, <2>8
<1>8. ASSUME commands # << >>, commands' = Tail(commands), calls' = calls, ran' = ran
      PROVE  IntentInv'
  <2>1. /\ Len(commands') = Len(commands) - 1 /\ Len(commands) \in Nat \ {0}
        /\ \A i \in 1 .. Len(commands) - 1 : commands'[i] = commands[i + 1]
    BY <1>0, <1>8 DEF TypeOK
  <2>2. \A j \in Calls : Final(j)' <=> Final(j)
    BY <1>3, <1>8, Zenon
  <2> SUFFICES ASSUME NEW i \in 1 .. Len(commands'), commands'[i].kind = "StopIntent"
               PROVE  /\ calls'[commands'[i].call] # NoCall
                      /\ \A j \in Calls : calls'[j].gen = calls'[commands'[i].call].gen
                                          /\ Final(j)' =>
                           \E k \in 1 .. Len(commands') :
                             i < k /\ commands'[k].kind = "Result" /\ commands'[k].call = j
    BY Zenon DEF IntentInv
  <2>3. i + 1 \in 1 .. Len(commands) /\ commands'[i] = commands[i + 1]
    BY <2>1
  <2>4. calls[commands[i + 1].call] # NoCall
    BY <2>3, Zenon DEF IntentInv
  <2>5. ASSUME NEW j \in Calls, calls[j].gen = calls[commands[i + 1].call].gen, Final(j)
        PROVE  \E k \in 1 .. Len(commands') :
                 i < k /\ commands'[k].kind = "Result" /\ commands'[k].call = j
    <3>1. PICK k \in 1 .. Len(commands) :
            i + 1 < k /\ commands[k].kind = "Result" /\ commands[k].call = j
      BY <2>3, <2>5, Zenon DEF IntentInv
    <3>2. k - 1 \in 1 .. Len(commands') /\ i < k - 1 /\ commands'[k - 1] = commands[k]
      BY <2>1, <3>1
    <3> QED
      BY <3>1, <3>2, Zenon
  <2>6. calls' = calls /\ commands'[i].call = commands[i + 1].call
    BY <1>8, <2>3, Zenon
  <2>7. ASSUME NEW j \in Calls, calls'[j].gen = calls'[commands'[i].call].gen, Final(j)'
        PROVE  \E k \in 1 .. Len(commands') :
                 i < k /\ commands'[k].kind = "Result" /\ commands'[k].call = j
    <3>1. calls[j].gen = calls[commands[i + 1].call].gen
      BY <2>6, <2>7, Zenon
    <3>2. Final(j)
      BY <2>2, <2>7, Zenon
    <3> QED
      BY <2>5, <3>1, <3>2, Zenon
  <2>8. calls'[commands'[i].call] # NoCall
    BY <2>4, <2>6, Zenon
  <2> QED
    BY <2>7, <2>8, Zenon
<1>9. ASSUME NEW g \in Gens, NEW kind \in Keyed \cup Kinds, Sends(g, kind)
      PROVE  IntentInv'
  BY <1>4, <1>9, Zenon DEF Sends
<1>10. ASSUME NEW g \in Gens, EmitMessage(g), "Message" \in Kinds
       PROVE  IntentInv'
  BY <1>4, <1>10, Zenon DEF EmitMessage
<1>11. ASSUME UNCHANGED <<calls, ran, commands>>
       PROVE  IntentInv'
  BY <1>2, <1>3, <1>11, Zenon
<1>12. ASSUME NEW g \in Gens, Goes(g) \/ Take(g) \/ Leave(g)
       PROVE  IntentInv'
  BY <1>11, <1>12, Zenon DEF Goes, Resume, EventsClosed, Overrun, Take, Leave
<1>13. ASSUME NEW id \in Calls,
              PollStart(id) \/ PollDeliver(id) \/ PollIgnore(id) \/ PollUnknown(id)
       PROVE  IntentInv'
  BY <1>11, <1>13, Zenon DEF PollStart, PollDeliver, PollIgnore, PollUnknown
<1>14. CASE DispatchResult \/ DispatchStopIntent
  BY <1>8, <1>14, Zenon DEF DispatchResult, DispatchStopIntent
<1>15. CASE Sweep \/ Quiet
  BY <1>11, <1>15, Zenon DEF Sweep, Quiet
<1> QED
  BY <1>6, <1>7, <1>9, <1>10, <1>12, <1>13, <1>14, <1>15, Zenon DEF PumpStep

\* The generation of a StopIntent is the newest one that lives.
LEMMA OwnStep ==
  ASSUME IInv, PInv, SInv, PumpStep, [Next]_vars
  PROVE  StopsOwnGeneration'
<1> USE DEF callVars, tableVars, sweepVars, loopVars, workVars, stopVars
<1>0. TypeOK /\ YoungInv /\ ResultInv /\ SeqInv /\ EndInv /\ IntentInv /\ ~misdirected
  BY Zenon DEF IInv, PInv, SInv, StopsOwnGeneration
<1>1. CASE DispatchStopIntent
  <2> DEFINE c == Head(commands)
             g == calls[c.call].gen
             live == {h \in Gens : Live(h)}
             newest == {h \in live : \A k \in live : k <= h}
  <2>1. /\ commands \in Seq(Commands) /\ commands # << >> /\ c.kind = "StopIntent"
        /\ misdirected' = (misdirected \/ newest \ {g} # {})
    BY <1>0, <1>1, Zenon DEF DispatchStopIntent, TypeOK
  <2>2. c = commands[1] /\ 1 \in 1 .. Len(commands) /\ c.call \in Calls
        /\ \A j \in 1 .. Len(commands) : commands[j] \in Commands /\ Has(commands, commands[j])
    <3>1. c = commands[1] /\ 1 \in 1 .. Len(commands) /\ c \in Commands
      BY <2>1
    <3>2. \A j \in 1 .. Len(commands) : commands[j] \in Commands
      BY <2>1
    <3> QED
      BY <3>1, <3>2, Zenon DEF Has, Commands
  <2>3. calls[c.call] # NoCall /\ g \in Gens
    BY <1>0, <2>1, <2>2, Used, ZenonT(30) DEF IntentInv
  <2>4. loop[g] # "none"
    BY <1>0, <2>2, <2>3, Zenon DEF YoungInv
  <2>5. loop[g] \notin {"drained", "ended"}
    <3> SUFFICES ASSUME loop[g] \in {"drained", "ended"} PROVE FALSE
      BY Zenon
    <3>1. PICK id \in Calls : calls[id].gen = g /\ Final(id) /\ answers[id] # NoAnswer
      BY <1>0, <2>3, Zenon DEF EndInv
    <3>2. PICK j \in 1 .. Len(commands) : commands[j].kind = "Result" /\ commands[j].call = id
      BY <1>0, <2>1, <2>2, <3>1, SMTT(30) DEF IntentInv
    <3> QED
      BY <1>0, <2>2, <3>1, <3>2, Zenon DEF ResultInv
  <2>6. g \in live
    BY <2>3, <2>4, <2>5, Zenon DEF Live
  <2>7. ASSUME NEW h \in live PROVE ~(g < h)
    BY <1>0, <2>3, <2>5, Zenon DEF SeqInv, Live
  <2> HIDE DEF c, g
  <2>8. newest \subseteq {g}
    BY <2>6, <2>7 DEF Gens
  <2> HIDE DEF newest
  <2> QED
    BY <1>0, <2>1, <2>8, Zenon DEF StopsOwnGeneration
<1>2. misdirected' = misdirected \/ DispatchStopIntent
  BY NextCases, Zenon DEF vars, StartActor, CallActor, FireAlarm, RefuseAlarm, EmitMessage,
       StopActor, Resume, EventsClosed, Overrun, Take, Finish, RequestErrorStop, Leave, Expire,
       Sweep, DispatchResult, PollStart, PollDeliver, PollIgnore, PollUnknown, Finished
<1> QED
  BY <1>0, <1>1, <1>2, Zenon DEF StopsOwnGeneration

\* When neither a request nor the sleep timer overruns, and core sends no alarms and no
\* ends of connections (a panic in their handler ends the native loop before
\* requestErrorStop is submitted), a StopIntent is dispatched while the generation whose
\* handler panicked lives, and never stops a later one.
THEOREM IntentsStopTheirOwn ==
  ASSUME MaxTimeouts = 0, ~MayOverrun, Kinds \cap {"Alarm", "Close"} = {}
  PROVE  Spec => []StopsOwnGeneration
<1>1. Init => SInv
  <2> SUFFICES ASSUME Init PROVE SInv
    BY Zenon
  <2>1. AskedInv /\ SeqInv /\ EndInv /\ IntentInv
    BY DEF Init, AskedInv, SeqInv, EndInv, IntentInv, NoCall
  <2> QED
    BY <2>1, Zenon DEF Init, SInv, StopsOwnGeneration
<1>2. IInv /\ PInv /\ SInv /\ [Next]_vars => SInv'
  <2> SUFFICES ASSUME IInv, PInv, SInv, [Next]_vars PROVE SInv'
    BY Zenon
  <2>1. AskedInv /\ SeqInv /\ EndInv /\ IntentInv
    BY Zenon DEF SInv
  <2>2. PumpStep
    BY PumpSteps, Zenon
  <2>3. "Alarm" \notin Kinds
    BY Zenon
  <2>4. AskedInv' /\ SeqInv' /\ EndInv'
    BY <2>1, <2>2, <2>3, AskedStep, SeqStep, EndStep, Zenon
  <2>5. IntentInv' /\ StopsOwnGeneration'
    BY <2>1, <2>2, IntentStep, OwnStep, Zenon
  <2> QED
    BY <2>4, <2>5, Zenon DEF SInv
<1>3. SInv => StopsOwnGeneration
  BY Zenon DEF SInv
<1> QED
  BY PumpInvariance, <1>1, <1>2, <1>3, PTL DEF Spec

=============================================================================
