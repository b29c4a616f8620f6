------------------------ MODULE PumpOperationsProofs ------------------------
(***************************************************************************)
(* The inductive invariant of PumpOperations, for any set of calls, ids    *)
(* and any bounds, the steps that keep it and the theorems that follow.    *)
(*                                                                         *)
(* That a call gets its own answer rests on where a call is.  Its request  *)
(* is at one place of its way to core and back (Travelled), and as long as *)
(* it is there its id is kept: by its waiter, or by the tombstone that     *)
(* took its place when the call was abandoned (Kept).  No other call can   *)
(* be given an id that is kept (Apart), so the answer that comes back with *)
(* it is the answer of the call the table names (Own).  The one exception  *)
(* is a call that leaves while its command is being submitted: the code    *)
(* removes its id without a tombstone, and the invariant says nothing of   *)
(* the calls that share the id with it.                                    *)
(*                                                                         *)
(* The step lemmas do not go through the actions one by one: WaySteps      *)
(* sorts the actions into the ways a step can move a call, its entry and   *)
(* its answer, and the parts of the invariant are proved for those.        *)
(***************************************************************************)
EXTENDS PumpOperations, TLAPS

-----------------------------------------------------------------------------
(* The inductive invariant *)

Places == {"idle", "offer", "waiting", "await", "cancelOffer", "cancelWaiting", "settle",
           "returned"}
Entries == {Free, Tombstone} \cup {Waiter(c) : c \in Calls}

\* The types, with the tables and channels as functions.
ChannelTypes ==
  chan \in [Calls -> Seq(Results)] /\ \A c \in Calls : Len(chan[c]) <= ChannelSize(c)
CallTypes ==
  /\ kind \in Kinds /\ pc \in [Calls -> Places] /\ id \in [Calls -> Ids \cup {0}]
  /\ gaveUp \subseteq Calls /\ pending \in [Tables -> [Ids -> Entries]]
QueueTypes == queue \in Seq(Requests) /\ Len(queue) <= QueueSize
ReplyTypes == reply \in [Requesters -> {"none", "ok", "busy", "stopped"}]
LoopTypes ==
  /\ loop \in {"idle", "submit", "exited"}
  /\ batch \in Seq(Requests) /\ Len(batch) <= MaxBatch /\ busy \in 0 .. MaxBusy
NativeTypes ==
  native \subseteq [call : Calls, id : Ids] /\ events \in Seq(Events) /\ event \in Events
PlaceTypes ==
  /\ runner \in {"open", "closed"}
  /\ poller \in {"poll", "deliver", "dispatch", "abort", "aborting", "stop",
                 "stopping", "close", "closed", "ended"}
  /\ target \in Calls \cup {NoCall}
  /\ worker \in {"running", "closing", "offer", "waiting", "leaving", "gone"}
  /\ session \in {"open", "closing", "done"}
  /\ shutdown \in {"no", "cancelled", "requested"}
FlagTypes ==
  stopMail \in BOOLEAN /\ workerErrors \in BOOLEAN /\ stopSub \in BOOLEAN /\ done \in BOOLEAN
Types ==
  /\ CallTypes /\ ChannelTypes /\ QueueTypes /\ ReplyTypes /\ LoopTypes /\ NativeTypes
  /\ PlaceTypes /\ FlagTypes

\* Where a call is, what it has of the tables.
AtPlace(c) ==
  /\ pc[c] = "idle" => id[c] = 0 /\ chan[c] = << >>
  /\ c \in gaveUp => pc[c] = "returned"
  /\ kind[c] \notin Sends /\ Active(c) => id[c] \in Ids
  /\ kind[c] \in Sends => pc[c] \in {"idle", "offer", "waiting", "returned"}
HasEntry(c) ==
  \A t \in Tables, i \in Ids : pending[t][i] = Waiter(c) =>
    TableOf(c) = t /\ id[c] = i /\ c \notin gaveUp /\ pc[c] # "idle" /\ kind[c] \notin Sends
Placed == \A c \in Calls : AtPlace(c) /\ HasEntry(c)

\* The way of a call: submitQueue, a batch, core and the events to be polled.
InQueue(q, c) == \E k \in 1 .. Len(q) : q[k] = Request(c, "op")
InNative(c) == \E x \in native : x.call = c
Answered(c) == \E k \in 1 .. Len(events) : events[k].call = c
Travels(c) == InQueue(queue, c) \/ InQueue(batch, c) \/ InNative(c) \/ Answered(c)

\* No call is twice in a queue.
Distinct(q) ==
  \A j, k \in 1 .. Len(q) :
    q[j] = q[k] /\ q[j].what = "op" /\ kind[q[j].from] \notin Sends => j = k

\* A call is at one place of its way.
OneWay(c) ==
  /\ pc[c] \in {"idle", "offer"} => ~Travels(c)
  /\ Travels(c) => id[c] \in Ids
  /\ InQueue(queue, c) => ~InQueue(batch, c) /\ ~InNative(c) /\ ~Answered(c)
  /\ InQueue(batch, c) => ~InNative(c) /\ ~Answered(c)
  /\ InNative(c) => ~Answered(c)

\* Core answers with the id it was given, and the last chunk comes last.
NativeIds == \A x \in native : x.id = id[x.call] /\ kind[x.call] \notin Sends
EventIds ==
  \A k \in 1 .. Len(events) : events[k].call \in Calls =>
    /\ events[k].id = id[events[k].call]
    /\ kind[events[k].call] \notin Sends
    /\ \A j \in 1 .. Len(events) : j < k /\ events[j].call = events[k].call => ~events[j].last

Travelled ==
  /\ Distinct(queue) /\ Distinct(batch)
  /\ \A c \in Calls : kind[c] \notin Sends => OneWay(c)
  /\ NativeIds /\ EventIds

Clean(c) == \A d \in gaveUp \ {c} : ~(TableOf(d) = TableOf(c) /\ id[d] = id[c])
Tabled(c) == kind[c] \in Operations \cup SQLiteOps

\* The calls whose answer may still come, and did not leave before it was asked for.
Open(c) == c \notin gaveUp /\ Clean(c) /\ (pc[c] = "offer" \/ Travels(c))

\* An id of the key-value table is given once.
KVNumbered ==
  \A c, d \in Calls :
    kind[c] \in KVOps /\ kind[d] \in KVOps /\ id[c] = id[d] /\ id[c] # 0 => c = d

\* Any other is kept, by its waiter or a tombstone, until the last of the answer ...
KeepsId(c) ==
  Tabled(c) /\ Open(c) => pending[TableOf(c)][id[c]] \in {Waiter(c), Tombstone}

\* ... and no call is given an id that is kept or that a running call has.
Holds(c) == Open(c) \/ Active(c)
Apart(c, d) ==
  Tabled(c) /\ Tabled(d) /\ TableOf(d) = TableOf(c) /\ id[d] = id[c] /\ Holds(c) /\ Holds(d)
    => c = d
Kept == KVNumbered /\ (Polled => \A c \in Calls : KeepsId(c) /\ \A d \in Calls : Apart(c, d))

\* An answer is of the call it is for, unless that call shares its id with one that
\* left before it was submitted.
Rightly(e, c) == e.call = c \/ ~Clean(c)
Own ==
  /\ \A c \in Calls : \A k \in 1 .. Len(chan[c]) : Rightly(chan[c][k], c)
  /\ poller = "deliver" =>
       \E c \in Calls : target = c /\ event \in Results /\ pc[c] # "idle" /\ Rightly(event, c)

\* The order in which the worker and the pump end.
Ended ==
  /\ session # "open" \/ worker = "running"
  /\ worker \in {"offer", "waiting", "gone"} => session = "done" /\ ActiveSQLite = {}
  /\ worker = "leaving" => session = "done"
  /\ poller \in {"stop", "stopping", "close", "closed", "ended"} => worker = "gone"
  /\ poller \in {"close", "closed", "ended"} => loop = "exited"
  /\ runner = "closed" => poller \in {"closed", "ended"}

IInv == Types /\ Placed /\ Travelled /\ Kept /\ Own /\ Ended

-----------------------------------------------------------------------------
(* Kinds and sequences *)

\* The four sorts of methods are disjoint, so that a call has one table.
LEMMA KindSorts ==
  /\ Operations \cap KVOps = {} /\ Operations \cap SQLiteOps = {} /\ Operations \cap Sends = {}
  /\ KVOps \cap SQLiteOps = {} /\ KVOps \cap Sends = {} /\ SQLiteOps \cap Sends = {}
  /\ AllKinds = Operations \cup KVOps \cup SQLiteOps \cup Sends
BY Zenon DEF Operations, KVOps, SQLiteOps, Sends, AllKinds, ScheduleOps, QueueOps, StopOps,
  WebSocketOps, HTTPOps

\* What a queue holds after a send to it.
LEMMA AppendFacts ==
  ASSUME NEW S, NEW q \in Seq(S), NEW x \in S
  PROVE  /\ Append(q, x) \in Seq(S) /\ Len(Append(q, x)) = Len(q) + 1
         /\ \A k \in 1 .. Len(q) : Append(q, x)[k] = q[k]
         /\ Append(q, x)[Len(q) + 1] = x
OBVIOUS

\* What a queue holds after a receive from it.
LEMMA TailFacts ==
  ASSUME NEW S, NEW q \in Seq(S), q # << >>
  PROVE  /\ Tail(q) \in Seq(S) /\ Len(Tail(q)) = Len(q) - 1 /\ Len(q) \in Nat \ {0}
         /\ \A k \in 1 .. Len(Tail(q)) : Tail(q)[k] = q[k + 1]
         /\ Head(q) = q[1] /\ q[1] \in S
OBVIOUS

\* The batch that submitLoop takes and the rest of its queue.
LEMMA SplitFacts ==
  ASSUME NEW S, NEW q \in Seq(S), NEW n \in 1 .. Len(q)
  PROVE  /\ SubSeq(q, 1, n) \in Seq(S) /\ Len(SubSeq(q, 1, n)) = n
         /\ \A k \in 1 .. n : SubSeq(q, 1, n)[k] = q[k]
         /\ SubSeq(q, n + 1, Len(q)) \in Seq(S)
         /\ Len(SubSeq(q, n + 1, Len(q))) = Len(q) - n
         /\ \A k \in 1 .. Len(q) - n : SubSeq(q, n + 1, Len(q))[k] = q[n + k]
OBVIOUS

\* The chunks of an answer, after the events that wait to be polled.
LEMMA ConcatFacts ==
  ASSUME NEW S, NEW q \in Seq(S), NEW n \in Nat, NEW r \in [1 .. n -> S]
  PROVE  /\ q \o r \in Seq(S) /\ Len(q \o r) = Len(q) + n
         /\ \A k \in 1 .. Len(q) : (q \o r)[k] = q[k]
         /\ \A k \in 1 .. n : (q \o r)[Len(q) + k] = r[k]
<1>1. r \in Seq(S) /\ Len(r) = n
  OBVIOUS
<1> QED
  BY <1>1

-----------------------------------------------------------------------------
(* What the steps do to the calls, the tables and the way to core and back *)

\* A call that will be answered begins and gets an id.
Begins(c) ==
  /\ pc[c] = "idle" /\ kind[c] \notin Sends
  /\ \E i \in Ids :
       /\ pending[TableOf(c)][i] = Free
       /\ pending' = [pending EXCEPT ![TableOf(c)][i] = Waiter(c)]
       /\ id' = [id EXCEPT ![c] = i]
       /\ \A d \in Calls : kind[d] \notin Sends /\ TableOf(d) = TableOf(c)
                           /\ (Active(d) \/ kind[c] \in KVOps) => id[d] # i
  /\ pc' = [pc EXCEPT ![c] = "offer"]
  /\ UNCHANGED <<kind, chan, gaveUp, queue, batch, native, events, event, poller, target>>

\* A send, a refused call, or a call further on its way.
Moves(c) ==
  /\ \E p \in Places \ {"idle"} :
       /\ pc' = [pc EXCEPT ![c] = p]
       /\ \/ kind[c] \in Sends /\ pc[c] \in {"idle", "waiting"} /\ p \in {"offer", "returned"}
          \/ pc[c] = "idle" /\ p = "returned"
          \/ /\ pc[c] \in {"waiting", "await", "cancelOffer", "cancelWaiting"}
             /\ kind[c] \notin Sends
             /\ p \in {"await", "cancelOffer", "cancelWaiting", "settle"}
  /\ queue' = queue \/ queue' = Append(queue, Request(c, "QueueCancel"))
  /\ UNCHANGED <<kind, id, chan, gaveUp, pending, batch, native, events, event, poller, target>>

Offers(c) ==
  /\ pc[c] = "offer" /\ pc' = [pc EXCEPT ![c] = "waiting"]
  /\ queue' = Append(queue, Request(c, "op"))
  /\ UNCHANGED <<kind, id, chan, gaveUp, pending, batch, native, events, event, poller, target>>

GivesUp(c) ==
  /\ pc[c] \in {"offer", "waiting"} /\ pc' = [pc EXCEPT ![c] = "returned"]
  /\ gaveUp' = gaveUp \cup {c}
  /\ pending' = IF kind[c] \in Sends THEN pending ELSE Removed(c)
  /\ UNCHANGED <<kind, id, chan, queue, batch, native, events, event, poller, target>>

\* A call that waits for its answer takes a part of it, or leaves.
Leaves(c) ==
  /\ pc[c] \in {"await", "cancelOffer", "cancelWaiting", "settle"}
  /\ pc' \in {pc, [pc EXCEPT ![c] = "returned"]}
  /\ chan' = chan \/ (chan[c] # << >> /\ chan' = [chan EXCEPT ![c] = Tail(chan[c])])
  /\ \/ pending' \in {pending, Abandoned(c)}
     \/ kind[c] \in KVOps /\ pending' = Removed(c)
  /\ UNCHANGED <<kind, id, gaveUp, queue, batch, native, events, event, poller, target>>

Takes ==
  /\ \E n \in 1 .. Len(queue) : /\ batch' = SubSeq(queue, 1, n)
                                /\ queue' = SubSeq(queue, n + 1, Len(queue))
  /\ UNCHANGED <<kind, pc, id, chan, gaveUp, pending, native, events, event, poller, target>>

Submits ==
  /\ batch' = << >>
  /\ native' \in {native, native \cup {[call |-> c, id |-> id[c]] :
       c \in {d \in Calls : Polled /\ kind[d] \notin Sends /\ InQueue(batch, d)}}}
  /\ UNCHANGED <<kind, pc, id, chan, gaveUp, pending, queue, events, event, poller, target>>

\* submitLoop rejects its queue, or the worker sends to it.
Requeues ==
  /\ \/ queue' = queue \/ queue' = << >>
     \/ queue' = Append(queue, Request(Worker, "ActorStopResult"))
  /\ UNCHANGED <<kind, pc, id, chan, gaveUp,
                 pending, batch, native, events, event, poller, target>>

Answers ==
  /\ \E x \in native, n \in Nat \ {0} :
       /\ native' = native \ {x}
       /\ events' = events \o [k \in 1 .. n |-> Answer(x, k = n)]
  /\ UNCHANGED <<kind, pc, id, chan, gaveUp, pending, queue, batch, event, poller, target>>

Signals ==
  /\ \E name \in {"ActorStop", "RunnerStopped"} : events' = Append(events, Signal(name))
  /\ UNCHANGED <<kind, pc, id, chan, gaveUp,
                 pending, queue, batch, native, event, poller, target>>

Handles ==
  /\ poller = "poll" /\ events # << >> /\ Head(events).name = "Result"
  /\ event' = Head(events) /\ events' = Tail(events)
  /\ LET t == TableOf(Head(events).call)
         i == Head(events).id IN
     /\ target' = pending[t][i].call
     /\ pending' = IF Head(events).last THEN [pending EXCEPT ![t][i] = Free] ELSE pending
     /\ poller' = IF pending[t][i].call = NoCall THEN "dispatch" ELSE "deliver"
  /\ UNCHANGED <<kind, pc, id, chan, gaveUp, queue, batch, native>>

Delivers ==
  /\ poller = "deliver" /\ poller' = "dispatch"
  /\ chan' = [chan EXCEPT ![target] = Append(chan[target], event)]
  /\ target' = NoCall
  /\ UNCHANGED <<kind, pc, id, gaveUp, pending, queue, batch, native, events, event>>

\* The poll goroutine goes on or ends, without an answer.
Polls ==
  /\ poller' # "deliver" /\ (Polled' => Polled)
  /\ pending' = pending \/ (~Polled' /\ pending' = [t \in Tables |-> [i \in Ids |-> Free]])
  /\ \/ UNCHANGED <<native, events>>
     \/ native' = {} /\ events' = << >>
     \/ events # << >> /\ events' = Tail(events) /\ native' = native
  /\ UNCHANGED <<kind, pc, id, chan, gaveUp, queue, batch>>

WayStep ==
  \/ \E c \in Calls : Begins(c) \/ Moves(c) \/ Offers(c) \/ GivesUp(c) \/ Leaves(c)
  \/ Takes \/ Submits \/ Requeues \/ Answers \/ Signals \/ Handles \/ Delivers \/ Polls

-----------------------------------------------------------------------------

USE DEF vars, callVars, queueVars, loopVars, nativeVars, pollVars, workVars, stopVars, pumpVars,
  endRest, nativeRest, workRest

\* Every step of the module is one of these.
LEMMA WaySteps == ASSUME Types, Placed, [Next]_vars PROVE WayStep
<1> USE PumpAssumption
<1>k. kind \in [Calls -> AllKinds]
  BY Zenon DEF Types, CallTypes
<1>1. ASSUME NEW c \in Calls, BeginOperation(c) PROVE WayStep
  <2>1. TableOf(c) = "intent" /\ kind[c] \notin Sends /\ kind[c] \notin KVOps
    BY <1>1, KindSorts, Zenon DEF BeginOperation, MayCall, TableOf
  <2>2. \A d \in Calls : kind[d] \notin Sends /\ TableOf(d) = "intent" => kind[d] \in Operations
    BY Zenon DEF TableOf
  <2>3. Begins(c)
    BY <1>1, <2>1, <2>2, Zenon DEF BeginOperation, MayCall, AddActorIntentWaiter, AddWaiter,
       Accepted,
      Begins, Goto
  <2> QED
    BY <2>3, Zenon DEF WayStep
<1>2. ASSUME NEW c \in Calls, BeginKV(c) PROVE WayStep
  <2>1. TableOf(c) = "kv" /\ kind[c] \notin Sends
    BY <1>2, KindSorts, Zenon DEF BeginKV, MayCall, TableOf
  <2>2. \A d \in Calls : kind[d] \notin Sends /\ TableOf(d) = "kv" => kind[d] \in KVOps
    BY Zenon DEF TableOf
  <2>3. Begins(c)
    BY <1>2, <2>1, <2>2, Zenon DEF BeginKV, MayCall, AddKVWaiter, AddWaiter, Accepted, Begins, Goto
  <2> QED
    BY <2>3 DEF WayStep
<1>3. ASSUME NEW c \in Calls, BeginSQLite(c) PROVE WayStep
  <2>1. TableOf(c) = "sqlite" /\ kind[c] \notin Sends /\ kind[c] \notin KVOps
    BY <1>3, KindSorts, Zenon DEF BeginSQLite, MayCall, TableOf
  <2>2. \A d \in Calls : kind[d] \notin Sends /\ TableOf(d) = "sqlite" /\ Active(d)
                         => d \in ActiveSQLite
    <3> TAKE d \in Calls
    <3>1. kind[d] \in AllKinds
      BY <1>k, Zenon
    <3> QED
      BY <3>1, KindSorts, Zenon DEF TableOf, ActiveSQLite
  <2>3. Begins(c)
    BY <1>3, <2>1, <2>2, Zenon DEF BeginSQLite, MayCall, AddSQLiteWaiter, AddWaiter, Accepted,
       Begins,
      Goto
  <2> QED
    BY <2>3, Zenon DEF WayStep
<1>4. ASSUME NEW c \in Calls,
             BeginSend(c) \/ Refuse(c) \/ Submitted(c) \/ SubmitWebSocket(c) \/ SubmitHTTP(c)
               \/ EndManagedWork(c) \/ OfferCancel(c) \/ CancelSubmitted(c) \/ CancelWait(c)
      PROVE  WayStep
  <2>s. WebSocketOps \subseteq Sends /\ HTTPOps \subseteq Sends
        /\ {"EndManagedWork"} \subseteq Sends
    BY Zenon DEF Sends
  <2>q. QueueWaits \cap Sends = {}
    BY Zenon DEF QueueWaits, Sends, WebSocketOps, HTTPOps
  <2>p. {"offer", "returned", "await", "cancelOffer", "cancelWaiting", "settle"}
          \subseteq Places \ {"idle"}
    BY Zenon DEF Places
  <2>0. BeginSend(c) => Moves(c)
    BY <2>p, Zenon DEF BeginSend, MayCall, Accepted, Goto, Moves
  <2>1. Refuse(c) => Moves(c)
    BY <2>p, Zenon DEF Refuse, MayCall, Goto, Moves
  <2>2. Submitted(c) => Moves(c)
    BY <2>p, Zenon DEF Submitted, Goto, Moves
  <2>3. SubmitWebSocket(c) \/ SubmitHTTP(c) \/ EndManagedWork(c) => Moves(c)
    BY <2>p, <2>s, Zenon DEF SubmitWebSocket, SubmitHTTP, EndManagedWork, Backoff, Goto, Moves
  <2>4. pc[c] \in {"cancelOffer", "cancelWaiting"} => kind[c] \notin Sends
    BY Zenon DEF Placed, AtPlace
  <2>a. OfferCancel(c) => Moves(c)
    BY <2>p, <2>4, Zenon DEF OfferCancel, Enqueue, Goto, Moves
  <2>5. CancelSubmitted(c) => Moves(c)
    BY <2>p, <2>4, Zenon DEF CancelSubmitted, Goto, Moves
  <2>6. CancelWait(c) => Moves(c)
    BY <2>p, <2>q, Zenon DEF CancelWait, Goto, Moves
  <2> QED
    BY <1>4, <2>0, <2>1, <2>2, <2>3, <2>a, <2>5, <2>6, Zenon DEF WayStep
<1>5. ASSUME NEW c \in Calls, Offer(c) PROVE WayStep
  BY <1>5, Zenon DEF Offer, Enqueue, Goto, Offers, WayStep
<1>6. ASSUME NEW c \in Calls, SubmitInterrupted(c) \/ SubmitFailed(c) \/ SubmitCancelled(c)
      PROVE  WayStep
  <2>1. GivesUp(c)
    BY <1>6, Zenon DEF SubmitInterrupted, SubmitFailed, SubmitCancelled, Unsubmitted, Goto, GivesUp
  <2> QED
    BY <2>1, Zenon DEF WayStep
<1>7. ASSUME NEW c \in Calls,
             ReceiveResult(c) \/ ReceiveChunk(c) \/ WaitClosed(c) \/ WaitCancelled(c)
               \/ Settled(c) \/ CancelFailed(c) \/ SettleTimeout(c)
      PROVE  WayStep
  <2>1. ReceiveResult(c) => Leaves(c)
    BY Zenon DEF ReceiveResult, Goto, Leaves
  <2>2. ReceiveChunk(c) => Leaves(c)
    BY Zenon DEF ReceiveChunk, Goto, Leaves
  <2>3. WaitClosed(c) \/ WaitCancelled(c) => Leaves(c)
    BY Zenon DEF WaitClosed, WaitCancelled, StopWaiting, Goto, Leaves
  <2>4. Settled(c) => Leaves(c)
    BY Zenon DEF Settled, Goto, Leaves
  <2>5. CancelFailed(c) \/ SettleTimeout(c) => Leaves(c)
    BY Zenon DEF CancelFailed, SettleTimeout, Unsettled, Goto, Leaves
  <2> QED
    BY <1>7, <2>1, <2>2, <2>3, <2>4, <2>5, Zenon DEF WayStep
<1>8. ASSUME TakeBatch PROVE WayStep
  <2> DEFINE n == IF Len(queue) < MaxBatch THEN Len(queue) ELSE MaxBatch
  <2>1. queue \in Seq(Requests) /\ queue # << >>
    BY <1>8, Zenon DEF Types, QueueTypes, TakeBatch
  <2>2. n \in 1 .. Len(queue)
    BY <2>1, TailFacts
  <2>3. batch' = SubSeq(queue, 1, n) /\ queue' = SubSeq(queue, n + 1, Len(queue))
    BY <1>8, Zenon DEF TakeBatch
  <2>4. UNCHANGED <<kind, pc, id, chan, gaveUp, pending, native, events, event, poller, target>>
    BY <1>8, Zenon DEF TakeBatch
  <2> HIDE DEF n
  <2>5. Takes
    BY <2>2, <2>3, <2>4, Zenon DEF Takes
  <2> QED
    BY <2>5, Zenon DEF WayStep
<1>9. ASSUME SubmitBatch PROVE WayStep
  <2>1. Submits
    BY <1>9, Zenon DEF SubmitBatch, Submits, InQueue
  <2> QED
    BY <2>1, Zenon DEF WayStep
<1>10. ASSUME RejectQueued \/ OfferStopResult PROVE WayStep
  BY <1>10, Zenon DEF RejectQueued, OfferStopResult, Enqueue, Requeues, WayStep
<1>11. ASSUME NativeAnswer PROVE WayStep
  <2>1. PICK x \in native : \E n \in 1 .. (IF kind[x.call] \in Statements THEN MaxChunks ELSE 1) :
          /\ native' = native \ {x}
          /\ events' = events \o [k \in 1 .. n |-> Answer(x, k = n)]
    BY <1>11, Zenon DEF NativeAnswer
  <2>2. PICK n \in 1 .. (IF kind[x.call] \in Statements THEN MaxChunks ELSE 1) :
          /\ native' = native \ {x}
          /\ events' = events \o [k \in 1 .. n |-> Answer(x, k = n)]
    BY <2>1, Zenon
  <2>3. n \in Nat \ {0}
    BY <2>2
  <2>4. UNCHANGED <<kind, pc, id, chan, gaveUp, pending, queue, batch, event, poller, target>>
    BY <1>11, Zenon DEF NativeAnswer
  <2>5. Answers
    BY <2>2, <2>3, <2>4, Zenon DEF Answers
  <2> QED
    BY <2>5, Zenon DEF WayStep
<1>12. ASSUME NativeStopActor \/ NativeStopped PROVE WayStep
  BY <1>12, Zenon DEF NativeStopActor, NativeStopped, Signals, WayStep
<1>13. ASSUME HandleResult PROVE WayStep
  <2>1. Handles
    BY <1>13, Zenon DEF HandleResult, NextEvent, Handles
  <2> QED
    BY <2>1, Zenon DEF WayStep
<1>14. ASSUME Deliver PROVE WayStep
  <2>1. Delivers
    BY <1>14, Zenon DEF Deliver, Delivers
  <2> QED
    BY <2>1, Zenon DEF WayStep
<1>15. ASSUME PollWorkerError \/ PollFails \/ PollShutdown \/ HandleActorStop \/ HandleStopped
              \/ Dispatch \/ Abort \/ AwaitWorkers \/ StopSubmissions \/ FailWaiters
              \/ CloseRunner \/ CloseDone
       PROVE WayStep
  <2>1. PollWorkerError \/ PollFails \/ PollShutdown => Polls
    BY Zenon DEF PollWorkerError, PollFails, PollShutdown, Polls, Polled
  <2>2. HandleActorStop \/ HandleStopped => Polls
    BY Zenon DEF HandleActorStop, HandleStopped, NextEvent, Polls, Polled
  <2>3. Dispatch => Polls
    BY Zenon DEF Dispatch, Polls, Polled
  <2>4. Abort \/ AwaitWorkers \/ StopSubmissions => Polls
    BY Zenon DEF Abort, AwaitWorkers, StopSubmissions, Polls, Polled
  <2>5. FailWaiters \/ CloseRunner \/ CloseDone => Polls
    BY Zenon DEF FailWaiters, CloseRunner, CloseDone, Polls, Polled
  <2> QED
    BY <1>15, <2>1, <2>2, <2>3, <2>4, <2>5, Zenon DEF WayStep
<1>16. ASSUME RequestStop \/ BeginStop \/ FinishStop \/ LeaveStop \/ WorkerDone \/ Terminated
              \/ UNCHANGED vars
       PROVE WayStep
  BY <1>16, Zenon DEF RequestStop, BeginStop, FinishStop, LeaveStop, WorkerDone, Terminated,
     Requeues,
    WayStep
<1> QED
  BY <1>1, <1>2, <1>3, <1>4, <1>5, <1>6, <1>7, <1>8, <1>9, <1>10, <1>11, <1>12, <1>13, <1>14,
     <1>15, <1>16, Zenon
  DEF Next, BeginCall, CallStep, GiveUp, LoopStep, NativeStep, PollStep, EndStep, WorkerStep

HIDE DEF vars, callVars, queueVars, loopVars, nativeVars, pollVars, workVars, stopVars, pumpVars,
  endRest, nativeRest, workRest

-----------------------------------------------------------------------------
(* Types *)

\* An entry of a table names a call or none.
LEMMA EntryFacts ==
  /\ Free \in Entries /\ Tombstone \in Entries /\ \A c \in Calls : Waiter(c) \in Entries
  /\ \A e \in Entries : e.call \in Calls \cup {NoCall}
  /\ \A e \in Entries : e.call # NoCall => e = Waiter(e.call)
  /\ Free.call = NoCall /\ Tombstone.call = NoCall /\ Free # Tombstone
  /\ \A c \in Calls : Waiter(c) # Free /\ Waiter(c) # Tombstone /\ Waiter(c).call = c
<1>1. /\ Free \in Entries /\ Tombstone \in Entries /\ \A c \in Calls : Waiter(c) \in Entries
      /\ \A e \in Entries : \/ e = Free \/ e = Tombstone \/ \E c \in Calls : e = Waiter(c)
  BY Zenon DEF Entries
<1>2. /\ Free.call = NoCall /\ Tombstone.call = NoCall /\ Free # Tombstone
      /\ \A c \in Calls : Waiter(c) # Free /\ Waiter(c) # Tombstone /\ Waiter(c).call = c
  BY PumpAssumption, Zenon DEF Free, Tombstone, Waiter
<1> QED
  BY <1>1, <1>2

\* A changed entry leaves a table of entries, and every other entry as it was.
LEMMA EntryChange ==
  ASSUME pending \in [Tables -> [Ids -> Entries]], NEW t \in Tables, NEW i, NEW e \in Entries
  PROVE  /\ [pending EXCEPT ![t][i] = e] \in [Tables -> [Ids -> Entries]]
         /\ \A u \in Tables, j \in Ids :
              [pending EXCEPT ![t][i] = e][u][j] = IF u = t /\ j = i THEN e ELSE pending[u][j]
BY Zenon
\* removeSQLiteWaiter, abandonSQLiteWaiter and their siblings leave tables of entries.
LEMMA TableTypes ==
  ASSUME CallTypes, NEW c \in Calls
  PROVE  TableOf(c) \in Tables /\ Removed(c) \in [Tables -> [Ids -> Entries]]
         /\ Abandoned(c) \in [Tables -> [Ids -> Entries]]
<1>1. TableOf(c) \in Tables
  BY Zenon DEF TableOf, Tables
<1>2. pending \in [Tables -> [Ids -> Entries]]
  BY Zenon DEF CallTypes
<1> QED
  BY <1>1, <1>2, EntryFacts, EntryChange, Zenon DEF Removed, Abandoned

\* The events are of their types.
LEMMA EventFacts ==
  /\ \A e \in Events : e.name = "Result" => e \in Results
  /\ \A e \in Events : e.call \in Calls => e \in Results
  /\ Signal("ActorStop") \in Events /\ Signal("RunnerStopped") \in Events
  /\ Signal("None") \in Events /\ Results \subseteq Events
BY PumpAssumption DEF Events, Results, Signal

\* The calls and the tables.
LEMMA CallTypeStep == ASSUME Types, Placed, WayStep PROVE CallTypes'
<1> USE PumpAssumption
<1>0. CallTypes
  BY Zenon DEF Types
<1>p. {"idle", "offer", "waiting", "await", "cancelOffer", "cancelWaiting", "settle", "returned"}
        \subseteq Places
  BY Zenon DEF Places
<1>1. ASSUME NEW c \in Calls, Begins(c) PROVE CallTypes'
  <2>1. PICK i \in Ids : pending' = [pending EXCEPT ![TableOf(c)][i] = Waiter(c)]
                         /\ id' = [id EXCEPT ![c] = i]
    BY <1>1, Zenon DEF Begins
  <2>2. pending' \in [Tables -> [Ids -> Entries]]
    BY <1>0, <2>1, TableTypes, EntryFacts, EntryChange, Zenon DEF CallTypes
  <2>3. UNCHANGED <<kind, gaveUp>> /\ pc' = [pc EXCEPT ![c] = "offer"]
    BY <1>1, Zenon DEF Begins
  <2> QED
    BY <1>0, <1>p, <2>1, <2>2, <2>3, Zenon DEF CallTypes
<1>2. ASSUME NEW c \in Calls, Moves(c) PROVE CallTypes'
  BY <1>0, <1>2 DEF CallTypes, Moves
<1>3. ASSUME NEW c \in Calls, Offers(c) PROVE CallTypes'
  BY <1>0, <1>3, <1>p, Zenon DEF CallTypes, Offers
<1>4. ASSUME NEW c \in Calls, GivesUp(c) PROVE CallTypes'
  <2>1. pending' \in [Tables -> [Ids -> Entries]]
    BY <1>0, <1>4, TableTypes, Zenon DEF GivesUp, CallTypes
  <2> QED
    BY <1>0, <1>4, <1>p, <2>1, Zenon DEF CallTypes, GivesUp
<1>5. ASSUME NEW c \in Calls, Leaves(c) PROVE CallTypes'
  <2>1. pending' \in [Tables -> [Ids -> Entries]]
    BY <1>0, <1>5, TableTypes DEF Leaves, CallTypes
  <2> QED
    BY <1>0, <1>5, <1>p, <2>1 DEF CallTypes, Leaves
<1>6. ASSUME Handles PROVE CallTypes'
  <2>1. events \in Seq(Events) /\ events # << >> /\ Head(events).name = "Result"
    BY <1>6, Zenon DEF Handles, Types, NativeTypes
  <2>2. Head(events) \in Results
    BY <2>1, TailFacts, EventFacts
  <2>3. PICK c \in Calls, i \in Ids : c = Head(events).call /\ i = Head(events).id
    BY <2>2, Zenon DEF Results
  <2>4. pending' = (IF Head(events).last THEN [pending EXCEPT ![TableOf(c)][i] = Free] ELSE pending)
        /\ UNCHANGED <<kind, pc, id, gaveUp>>
    BY <1>6, <2>3, Zenon DEF Handles
  <2>5. pending' \in [Tables -> [Ids -> Entries]]
    BY <1>0, <2>4, TableTypes, EntryFacts, EntryChange, Zenon DEF CallTypes
  <2> QED
    BY <1>0, <2>4, <2>5, Zenon DEF CallTypes
<1>7. ASSUME Polls PROVE CallTypes'
  BY <1>0, <1>7, EntryFacts DEF CallTypes, Polls
<1>8. ASSUME Takes \/ Submits \/ Requeues \/ Answers \/ Signals \/ Delivers PROVE CallTypes'
  <2>1. UNCHANGED <<kind, pc, id, gaveUp, pending>>
    BY <1>8, Zenon DEF Takes, Submits, Requeues, Answers, Signals, Delivers
  <2> QED
    BY <1>0, <2>1, Zenon DEF CallTypes
<1> QED
  BY <1>1, <1>2, <1>3, <1>4, <1>5, <1>6, <1>7, <1>8, Zenon DEF WayStep

\* The queues on the way to core and back.
LEMMA QueueTypeStep ==
  ASSUME Types, Travelled, WayStep
  PROVE  native' \subseteq [call : Calls, id : Ids] /\ events' \in Seq(Events)
         /\ queue' \in Seq(Requests) /\ batch' \in Seq(Requests)
<1> USE PumpAssumption
<1> DEFINE NT == native \subseteq [call : Calls, id : Ids]
<1>0. NT /\ events \in Seq(Events) /\ queue \in Seq(Requests) /\ batch \in Seq(Requests)
  BY Zenon DEF Types, NativeTypes, QueueTypes, LoopTypes
<1>r. /\ \A c \in Calls : Request(c, "op") \in Requests /\ Request(c, "QueueCancel") \in Requests
      /\ Request(Worker, "ActorStopResult") \in Requests
  BY Zenon DEF Request, Requests, Requesters
<1> DEFINE Goal == NT' /\ events' \in Seq(Events) /\ queue' \in Seq(Requests)
                   /\ batch' \in Seq(Requests)
<1>1. ASSUME NEW c \in Calls, Begins(c) \/ GivesUp(c) \/ Leaves(c) PROVE Goal
  <2>1. UNCHANGED <<native, events, queue, batch>>
    BY <1>1, Zenon DEF Begins, GivesUp, Leaves
  <2> QED
    BY <1>0, <2>1, Zenon
<1>2. ASSUME NEW c \in Calls, Moves(c) \/ Offers(c) PROVE Goal
  <2>1. UNCHANGED <<native, events, batch>>
        /\ \/ queue' = queue \/ queue' = Append(queue, Request(c, "QueueCancel"))
           \/ queue' = Append(queue, Request(c, "op"))
    BY <1>2, Zenon DEF Moves, Offers
  <2>2. queue' \in Seq(Requests)
    <3>1. /\ Append(queue, Request(c, "QueueCancel")) \in Seq(Requests)
          /\ Append(queue, Request(c, "op")) \in Seq(Requests)
      BY <1>0, <1>r, AppendFacts, Zenon
    <3> QED
      BY <1>0, <2>1, <3>1, Zenon
  <2> QED
    BY <1>0, <2>1, <2>2, Zenon
<1>3. ASSUME Takes PROVE Goal
  <2>1. UNCHANGED <<native, events>> /\ batch' \in Seq(Requests) /\ queue' \in Seq(Requests)
    BY <1>0, <1>3, SplitFacts DEF Takes
  <2> QED
    BY <1>0, <2>1, Zenon
<1>4. ASSUME Submits PROVE Goal
  <2>1. UNCHANGED <<events, queue>> /\ batch' = << >>
    BY <1>4, Zenon DEF Submits
  <2>2. \A d \in Calls : kind[d] \notin Sends /\ InQueue(batch, d) => id[d] \in Ids
    BY Zenon DEF Travelled, OneWay, Travels
  <2>3. NT'
    BY <1>0, <1>4, <2>2 DEF Submits
  <2>4. << >> \in Seq(Requests)
    OBVIOUS
  <2> QED
    BY <1>0, <2>1, <2>3, <2>4, Zenon
<1>5. ASSUME Requeues PROVE Goal
  <2>1. UNCHANGED <<native, events, batch>>
    BY <1>5, Zenon DEF Requeues
  <2>2. queue' \in Seq(Requests)
    <3>1. << >> \in Seq(Requests)
          /\ Append(queue, Request(Worker, "ActorStopResult")) \in Seq(Requests)
      BY <1>0, <1>r, AppendFacts
    <3> QED
      BY <1>0, <1>5, <3>1, Zenon DEF Requeues
  <2> QED
    BY <1>0, <2>1, <2>2, Zenon
<1>6. ASSUME Answers PROVE Goal
  <2>1. PICK x \in native, n \in Nat \ {0} :
          /\ native' = native \ {x}
          /\ events' = events \o [k \in 1 .. n |-> Answer(x, k = n)]
    BY <1>6, Zenon DEF Answers
  <2>2. \A k \in 1 .. n : Answer(x, k = n) \in Events
    <3>1. x \in [call : Calls, id : Ids]
      BY <1>0, <2>1, Zenon
    <3>2. \A k \in 1 .. n : Answer(x, k = n) \in Results
      BY <3>1, Zenon DEF Answer, Results
    <3> QED
      BY <3>2, EventFacts, Zenon
  <2> DEFINE r == [k \in 1 .. n |-> Answer(x, k = n)]
  <2>3. r \in [1 .. n -> Events]
    BY <2>2, Zenon
  <2> HIDE DEF r
  <2>4. events \o r \in Seq(Events)
    BY <1>0, <2>1, <2>3, ConcatFacts, Zenon
  <2>5. NT' /\ events' \in Seq(Events)
    BY <1>0, <2>1, <2>4, Zenon DEF r
  <2>6. UNCHANGED <<queue, batch>>
    BY <1>6, Zenon DEF Answers
  <2> QED
    BY <1>0, <2>5, <2>6, Zenon
<1>7. ASSUME Signals PROVE Goal
  <2>1. UNCHANGED <<native, queue, batch>>
    BY <1>7, Zenon DEF Signals
  <2>2. events' \in Seq(Events)
    BY <1>0, <1>7, EventFacts, AppendFacts DEF Signals
  <2> QED
    BY <1>0, <2>1, <2>2, Zenon
<1>8. ASSUME Handles \/ Polls \/ Delivers PROVE Goal
  <2>1. UNCHANGED <<queue, batch>> /\ native' \in {native, {}}
        /\ \/ events' = events \/ events' = << >>
           \/ events # << >> /\ events' = Tail(events)
    BY <1>8, Zenon DEF Handles, Polls, Delivers
  <2>2. events' \in Seq(Events)
    <3>1. << >> \in Seq(Events) /\ (events # << >> => Tail(events) \in Seq(Events))
      BY <1>0, TailFacts
    <3> QED
      BY <1>0, <2>1, <3>1, Zenon
  <2>3. NT'
    BY <1>0, <2>1, Zenon
  <2> QED
    BY <1>0, <2>1, <2>2, <2>3, Zenon
<1> QED
  BY <1>1, <1>2, <1>3, <1>4, <1>5, <1>6, <1>7, <1>8, Zenon DEF WayStep

USE DEF vars, callVars, queueVars, loopVars, nativeVars, pollVars, workVars, stopVars, pumpVars,
  endRest, nativeRest, workRest

\* What a call changes of the queue, its reply and its channel; it leaves the rest alone.
LEMMA CallEffect ==
  ASSUME NEW c \in Calls, BeginCall(c) \/ Refuse(c) \/ CallStep(c) \/ GiveUp(c)
  PROVE  /\ UNCHANGED pumpVars
         /\ \/ queue' = queue
            \/ /\ Len(queue) < QueueSize
               /\ queue' = Append(queue, Request(c, "op"))
                  \/ queue' = Append(queue, Request(c, "QueueCancel"))
         /\ reply' = reply \/ reply' = [reply EXCEPT ![c] = "none"]
         /\ \/ chan' = chan
            \/ chan[c] # << >> /\ chan' = [chan EXCEPT ![c] = Tail(chan[c])]
<1> DEFINE Goal ==
      /\ UNCHANGED pumpVars
      /\ \/ queue' = queue
         \/ /\ Len(queue) < QueueSize
            /\ queue' = Append(queue, Request(c, "op"))
               \/ queue' = Append(queue, Request(c, "QueueCancel"))
      /\ reply' = reply \/ reply' = [reply EXCEPT ![c] = "none"]
      /\ \/ chan' = chan
         \/ chan[c] # << >> /\ chan' = [chan EXCEPT ![c] = Tail(chan[c])]
<1>1. BeginOperation(c) \/ BeginKV(c) \/ BeginSQLite(c) \/ BeginSend(c) => Goal
  BY Zenon DEF BeginOperation, BeginKV, BeginSQLite, BeginSend, Accepted
<1>2. Refuse(c) \/ CancelWait(c) => Goal
  BY Zenon DEF Refuse, CancelWait
<1>3. Offer(c) \/ OfferCancel(c) => Goal
  BY Zenon DEF Offer, OfferCancel, Enqueue
<1>4. SubmitInterrupted(c) \/ SubmitFailed(c) \/ SubmitCancelled(c) => Goal
  BY Zenon DEF SubmitInterrupted, SubmitFailed, SubmitCancelled, Unsubmitted
<1>5. Submitted(c) \/ CancelSubmitted(c) => Goal
  BY Zenon DEF Submitted, CancelSubmitted
<1>6. SubmitWebSocket(c) \/ SubmitHTTP(c) \/ EndManagedWork(c) => Goal
  BY Zenon DEF SubmitWebSocket, SubmitHTTP, EndManagedWork, Backoff
<1>7. ReceiveResult(c) \/ ReceiveChunk(c) \/ Settled(c) => Goal
  BY Zenon DEF ReceiveResult, ReceiveChunk, Settled
<1>8. WaitClosed(c) \/ WaitCancelled(c) \/ CancelFailed(c) \/ SettleTimeout(c) => Goal
  BY Zenon DEF WaitClosed, WaitCancelled, CancelFailed, SettleTimeout, StopWaiting, Unsettled
<1> HIDE DEF Goal
<1>9. Goal
  BY <1>1, <1>2, <1>3, <1>4, <1>5, <1>6, <1>7, <1>8, Zenon DEF BeginCall, CallStep, GiveUp
<1> QED
  BY <1>9, Zenon DEF Goal

\* The flags.
LEMMA FlagStep == ASSUME FlagTypes, [Next]_vars PROVE FlagTypes'
<1>1. ASSUME NEW c \in Calls, BeginCall(c) \/ Refuse(c) \/ CallStep(c) \/ GiveUp(c) PROVE FlagTypes'
  BY <1>1, CallEffect, Zenon DEF FlagTypes
<1>2. TakeBatch \/ SubmitBatch \/ RejectQueued => UNCHANGED <<workVars, stopVars>>
  BY Zenon DEF TakeBatch, SubmitBatch, RejectQueued
<1>3. NativeStep => UNCHANGED <<workVars, stopVars>>
  BY Zenon DEF NativeStep, NativeAnswer, NativeStopActor, NativeStopped
<1>4. RequestStop \/ PollFails \/ PollWorkerError \/ PollShutdown \/ Dispatch \/ Deliver
      => UNCHANGED <<workVars, stopSub, done>>
  BY Zenon DEF RequestStop, PollFails, PollWorkerError, PollShutdown, Dispatch, Deliver
<1>5. HandleResult \/ HandleStopped => UNCHANGED <<stopMail, workerErrors, stopVars>>
  BY Zenon DEF HandleResult, HandleStopped, NextEvent
<1>6. HandleActorStop => stopMail' \in BOOLEAN /\ UNCHANGED <<workerErrors, stopVars>>
  BY Zenon DEF HandleActorStop, NextEvent
<1>7. EndStep => UNCHANGED <<stopMail, workerErrors>> /\ stopSub' \in {stopSub, TRUE}
                 /\ done' \in {done, TRUE}
  BY Zenon DEF EndStep, Abort, AwaitWorkers, StopSubmissions, FailWaiters, CloseRunner, CloseDone
<1>8. WorkerStep => UNCHANGED <<stopMail, stopSub, done>> /\ workerErrors' \in {workerErrors, TRUE}
  BY Zenon DEF WorkerStep, BeginStop, FinishStop, OfferStopResult, LeaveStop, WorkerDone
<1>9. UNCHANGED vars => UNCHANGED <<workVars, stopVars>>
  BY Zenon
<1> QED
  BY <1>1, <1>2, <1>3, <1>4, <1>5, <1>6, <1>7, <1>8, <1>9, Zenon
  DEF Next, LoopStep, PollStep, FlagTypes, Terminated

\* Where the goroutines are.
LEMMA PlaceStep == ASSUME Types, [Next]_vars PROVE PlaceTypes' /\ event' \in Events
<1> USE PumpAssumption
<1> DEFINE Goal == PlaceTypes' /\ event' \in Events
<1>0. PlaceTypes /\ event \in Events /\ events \in Seq(Events)
  BY Zenon DEF Types, NativeTypes
<1>s. ASSUME UNCHANGED <<runner, poller, target, worker, session, shutdown, event>> PROVE Goal
  BY <1>0, <1>s, ZenonT(30) DEF PlaceTypes
<1>1. ASSUME NEW c \in Calls, BeginCall(c) \/ Refuse(c) \/ CallStep(c) \/ GiveUp(c) PROVE Goal
  BY <1>1, <1>s, CallEffect, Zenon
<1>2. ASSUME LoopStep \/ NativeStep \/ UNCHANGED vars \/ Terminated PROVE Goal
  <2>1. UNCHANGED <<runner, poller, target, worker, session, shutdown, event>>
    BY <1>2, Zenon DEF LoopStep, TakeBatch, SubmitBatch, RejectQueued, NativeStep, NativeAnswer,
      NativeStopActor, NativeStopped, Terminated
  <2> QED
    BY <2>1, <1>s, Zenon
<1>3. ASSUME RequestStop \/ PollFails \/ PollWorkerError \/ PollShutdown \/ Dispatch \/ Deliver
      PROVE  Goal
  <2>1. UNCHANGED <<runner, worker, session>> /\ event' \in {event, Signal("None")}
        /\ shutdown' \in {shutdown, "cancelled", "requested"}
        /\ poller' \in {poller, "abort", "poll", "dispatch"} /\ target' \in {target, NoCall}
    BY <1>3, Zenon DEF RequestStop, PollFails, PollWorkerError, PollShutdown, Dispatch, Deliver
  <2> QED
    BY <1>0, <2>1, EventFacts DEF PlaceTypes
<1>4. ASSUME NEW name, NextEvent(name)
      PROVE  event' \in Events /\ event' = Head(events)
             /\ UNCHANGED <<runner, worker, session, shutdown>>
  BY <1>0, <1>4, TailFacts DEF NextEvent
<1>5. ASSUME HandleActorStop \/ HandleStopped PROVE Goal
  <2>1. PICK name : NextEvent(name)
    BY <1>5, Zenon DEF HandleActorStop, HandleStopped
  <2>2. UNCHANGED target /\ poller' \in {"abort", "dispatch"}
    BY <1>5, Zenon DEF HandleActorStop, HandleStopped
  <2> QED
    BY <1>0, <2>1, <2>2, <1>4 DEF PlaceTypes
<1>6. ASSUME HandleResult PROVE Goal
  <2>1. NextEvent("Result") /\ events # << >> /\ Head(events).name = "Result"
    BY <1>6, Zenon DEF HandleResult, NextEvent
  <2>2. Head(events) \in Results
    BY <2>1, <1>0, TailFacts, EventFacts
  <2>3. PICK c \in Calls, i \in Ids : c = Head(events).call /\ i = Head(events).id
    BY <2>2, Zenon DEF Results
  <2>4. target' = pending[TableOf(c)][i].call /\ poller' \in {"dispatch", "deliver"}
    BY <1>6, <2>3, Zenon DEF HandleResult
  <2>5. CallTypes
    BY Zenon DEF Types
  <2>6. pending[TableOf(c)][i] \in Entries
    BY <2>5, TableTypes DEF CallTypes
  <2>7. target' \in Calls \cup {NoCall}
    BY <2>4, <2>6, EntryFacts, Zenon
  <2> QED
    BY <1>0, <2>1, <2>4, <2>7, <1>4, Zenon DEF PlaceTypes
<1>7. ASSUME EndStep PROVE Goal
  <2>1. UNCHANGED <<event, target, worker>>
        /\ shutdown' \in {shutdown, "no"} /\ session' \in {session, "done"}
        /\ runner' \in {runner, "closed"}
        /\ poller' \in {"aborting", "stop", "stopping", "close", "closed", "ended"}
    BY <1>7, Zenon DEF EndStep, Abort, AwaitWorkers, StopSubmissions, FailWaiters, CloseRunner,
       CloseDone
  <2> QED
    BY <1>0, <2>1 DEF PlaceTypes
<1>8. ASSUME WorkerStep PROVE Goal
  <2>1. UNCHANGED <<runner, poller, target, shutdown, event>>
        /\ worker' \in {"closing", "offer", "waiting", "leaving", "gone"}
        /\ session' \in {session, "closing", "done"}
    BY <1>8, Zenon DEF WorkerStep, BeginStop, FinishStop, OfferStopResult, LeaveStop, WorkerDone
  <2> QED
    BY <1>0, <2>1 DEF PlaceTypes
<1> HIDE DEF Goal
<1>9. Goal
  BY <1>1, <1>2, <1>3, <1>5, <1>6, <1>7, <1>8, Zenon DEF Next, PollStep
<1> QED
  BY <1>9, Zenon DEF Goal

\* The capacities of submitQueue, of a batch and of the channels.
LEMMA SizeStep ==
  ASSUME Types, Own, CallTypes', [Next]_vars
  PROVE  /\ Len(queue') <= QueueSize /\ Len(batch') <= MaxBatch /\ ReplyTypes'
         /\ loop' \in {"idle", "submit", "exited"} /\ busy' \in 0 .. MaxBusy /\ ChannelTypes'
<1> USE PumpAssumption
<1> DEFINE LT == loop \in {"idle", "submit", "exited"} /\ busy \in 0 .. MaxBusy
                 /\ Len(batch) <= MaxBatch
           QT == Len(queue) <= QueueSize
<1>0. LT /\ QT /\ ReplyTypes /\ ChannelTypes /\ queue \in Seq(Requests)
  BY Zenon DEF Types, LoopTypes, QueueTypes
<1>k. kind' = kind
  <2>1. CASE \E c \in Calls : BeginCall(c) \/ Refuse(c) \/ CallStep(c) \/ GiveUp(c)
    BY <2>1, CallEffect, Zenon
  <2>2. CASE LoopStep \/ NativeStep \/ RequestStop \/ PollFails \/ UNCHANGED vars \/ Terminated
    BY <2>2, Zenon DEF LoopStep, TakeBatch, SubmitBatch, RejectQueued, NativeStep, NativeAnswer,
      NativeStopActor, NativeStopped, Terminated, RequestStop, PollFails
  <2>3. CASE PollStep \/ EndStep
    BY <2>3, Zenon DEF PollStep, PollWorkerError, PollShutdown, Dispatch, Deliver, HandleActorStop,
      HandleResult, HandleStopped, NextEvent, EndStep, Abort, AwaitWorkers, StopSubmissions,
      FailWaiters, CloseRunner, CloseDone
  <2>4. CASE WorkerStep
    BY <2>4, Zenon DEF WorkerStep, BeginStop, FinishStop, OfferStopResult, LeaveStop, WorkerDone
  <2> QED
    BY <2>1, <2>2, <2>3, <2>4, Zenon DEF Next
<1>c. ASSUME chan' = chan PROVE ChannelTypes'
  BY <1>0, <1>k, <1>c, Zenon DEF ChannelTypes, ChannelSize
<1>e. ASSUME NEW x \in Requests, Len(queue) < QueueSize, queue' = Append(queue, x) PROVE QT'
  BY <1>0, <1>e, AppendFacts
<1>q. /\ \A c \in Calls : Request(c, "op") \in Requests /\ Request(c, "QueueCancel") \in Requests
      /\ Request(Worker, "ActorStopResult") \in Requests
  BY Zenon DEF Request, Requests, Requesters
<1> DEFINE Goal == LT' /\ QT' /\ ReplyTypes' /\ ChannelTypes'
<1>u. ASSUME UNCHANGED loopVars PROVE LT'
  BY <1>0, <1>u, Zenon
<1>v. ASSUME UNCHANGED queueVars PROVE QT' /\ ReplyTypes'
  BY <1>0, <1>v, Zenon DEF ReplyTypes
<1>1. ASSUME NEW c \in Calls, BeginCall(c) \/ Refuse(c) \/ CallStep(c) \/ GiveUp(c) PROVE Goal
  <2>1. QT'
    BY <1>0, <1>1, <1>e, <1>q, CallEffect, Zenon
  <2>2. ReplyTypes'
    <3>1. c \in Requesters
      BY Zenon DEF Requesters
    <3>2. reply' = reply \/ reply' = [reply EXCEPT ![c] = "none"]
      BY <1>1, CallEffect, Zenon
    <3> QED
      BY <1>0, <3>1, <3>2, Zenon DEF ReplyTypes
  <2>3. ChannelTypes'
    <3>1. CASE chan[c] # << >> /\ chan' = [chan EXCEPT ![c] = Tail(chan[c])]
      <4>1. chan[c] \in Seq(Results) /\ Len(chan[c]) <= ChannelSize(c)
        BY <1>0, Zenon DEF ChannelTypes
      <4>2. Tail(chan[c]) \in Seq(Results) /\ Len(Tail(chan[c])) = Len(chan[c]) - 1
            /\ Len(chan[c]) \in Nat
        BY <3>1, <4>1, TailFacts, Zenon
      <4>3. \A d \in Calls : ChannelSize(d)' = ChannelSize(d) /\ ChannelSize(d) \in Nat
        BY <1>k, Zenon DEF ChannelSize
      <4>4. chan' \in [Calls -> Seq(Results)]
        BY <1>0, <3>1, <4>2, Zenon DEF ChannelTypes
      <4>7. chan \in [Calls -> Seq(Results)]
        BY <1>0, Zenon DEF ChannelTypes
      <4>5. \A d \in Calls : chan'[d] = IF d = c THEN Tail(chan[c]) ELSE chan[d]
        BY <3>1, <4>7, Zenon
      <4>6. \A d \in Calls : Len(chan'[d]) <= ChannelSize(d)
        <5> TAKE d \in Calls
        <5>1. CASE d = c
          <6>1. Len(Tail(chan[c])) <= ChannelSize(c)
            <7>1. ChannelSize(c) \in Nat
              BY <4>3, Zenon
            <7> HIDE <4>3
            <7> QED
              BY <4>1, <4>2, <7>1
          <6>2. chan'[d] = Tail(chan[c])
            BY <4>5, <5>1, Zenon
          <6> QED
            BY <5>1, <6>1, <6>2, Zenon
        <5>2. CASE d # c
          BY <1>0, <4>5, <5>2, Zenon DEF ChannelTypes
        <5> QED
          BY <5>1, <5>2, Zenon
      <4> QED
        BY <4>3, <4>4, <4>6, Zenon DEF ChannelTypes
    <3> QED
      BY <1>1, <1>c, <3>1, CallEffect, Zenon
  <2>4. LT'
    BY <1>1, <1>u, CallEffect, Zenon
  <2> QED
    BY <2>1, <2>2, <2>3, <2>4, Zenon
<1>2. ASSUME TakeBatch PROVE Goal
  <2> DEFINE n == IF Len(queue) < MaxBatch THEN Len(queue) ELSE MaxBatch
  <2>1. queue # << >> /\ UNCHANGED <<reply, chan, busy>> /\ loop' = "submit"
    BY <1>2, Zenon DEF TakeBatch
  <2>2. n \in 1 .. Len(queue) /\ n <= MaxBatch /\ Len(queue) \in Nat
    BY <1>0, <2>1, TailFacts
  <2>3. batch' = SubSeq(queue, 1, n) /\ queue' = SubSeq(queue, n + 1, Len(queue))
    BY <1>2, Zenon DEF TakeBatch
  <2> HIDE DEF n
  <2>4. QT' /\ Len(batch') <= MaxBatch
    BY <1>0, <2>2, <2>3, SplitFacts
  <2>5. LT'
    BY <1>0, <2>1, <2>4, Zenon
  <2>6. ReplyTypes' /\ ChannelTypes'
    BY <1>0, <1>c, <2>1, Zenon DEF ReplyTypes
  <2> QED
    BY <2>4, <2>5, <2>6, Zenon
<1>r. ASSUME NEW q, NEW result \in {"none", "ok", "busy", "stopped"}, reply' = Replied(q, result)
      PROVE  ReplyTypes'
  BY <1>0, <1>r, Zenon DEF Replied, ReplyTypes
<1>3. ASSUME SubmitBatch PROVE Goal
  <2>1. ReplyTypes'
    BY <1>3, <1>r, Zenon DEF SubmitBatch
  <2>2. batch' = << >> /\ loop' = "idle" /\ UNCHANGED <<queue, chan>>
    BY <1>3, Zenon DEF SubmitBatch
  <2>3. busy' \in 0 .. MaxBusy
    BY <1>0, <1>3 DEF SubmitBatch
  <2>4. LT' /\ QT'
    BY <1>0, <2>2, <2>3
  <2> QED
    BY <2>1, <2>2, <2>4, <1>c, Zenon
<1>4. ASSUME RejectQueued PROVE Goal
  <2>1. ReplyTypes'
    BY <1>4, <1>r, Zenon DEF RejectQueued
  <2>2. queue' = << >> /\ loop' = "exited" /\ UNCHANGED <<batch, busy, chan>>
    BY <1>4, Zenon DEF RejectQueued
  <2>3. LT' /\ QT'
    BY <1>0, <2>2
  <2> QED
    BY <2>1, <2>2, <2>3, <1>c, Zenon
<1>5. ASSUME Deliver PROVE Goal
  <2>1. target \in Calls /\ event \in Results /\ Len(chan[target]) < ChannelSize(target)
        /\ chan' = [chan EXCEPT ![target] = Append(chan[target], event)]
        /\ UNCHANGED <<loopVars, queueVars>>
    BY <1>5, Zenon DEF Deliver, Own
  <2>2. chan[target] \in Seq(Results)
    BY <1>0, <2>1, Zenon DEF ChannelTypes
  <2>3. Append(chan[target], event) \in Seq(Results)
        /\ Len(Append(chan[target], event)) = Len(chan[target]) + 1 /\ Len(chan[target]) \in Nat
    BY <2>1, <2>2, AppendFacts
  <2>4. \A d \in Calls : ChannelSize(d)' = ChannelSize(d) /\ ChannelSize(d) \in Nat
    BY <1>k, Zenon DEF ChannelSize
  <2>5. Len(Append(chan[target], event)) <= ChannelSize(target)
    BY <2>1, <2>3, <2>4
  <2>6. ChannelTypes'
    BY <1>0, <2>1, <2>3, <2>4, <2>5 DEF ChannelTypes
  <2> QED
    BY <2>1, <2>6, <1>u, <1>v, Zenon
<1>6. ASSUME OfferStopResult PROVE Goal
  <2>1. QT'
    BY <1>6, <1>e, <1>q, Zenon DEF OfferStopResult, Enqueue
  <2>2. UNCHANGED <<reply, chan, loopVars>>
    BY <1>6, Zenon DEF OfferStopResult, Enqueue
  <2> QED
    BY <1>0, <2>1, <2>2, <1>c, <1>u, Zenon DEF ReplyTypes
<1>7. ASSUME \/ NativeStep \/ RequestStop \/ PollFails \/ UNCHANGED vars \/ Terminated
             \/ PollWorkerError \/ PollShutdown \/ Dispatch
      PROVE  Goal
  <2>1. UNCHANGED <<chan, loopVars, queueVars>>
    BY <1>7, Zenon DEF NativeStep, NativeAnswer, NativeStopActor, NativeStopped, Terminated,
       RequestStop,
      PollFails, PollWorkerError, PollShutdown, Dispatch
  <2> QED
    BY <2>1, <1>c, <1>u, <1>v, Zenon
<1>8. ASSUME HandleActorStop \/ HandleResult \/ HandleStopped \/ EndStep PROVE Goal
  <2>1. UNCHANGED <<chan, loopVars, queueVars>>
    BY <1>8, Zenon DEF HandleActorStop, HandleResult, HandleStopped, NextEvent, EndStep, Abort,
      AwaitWorkers, StopSubmissions, FailWaiters, CloseRunner, CloseDone
  <2> QED
    BY <2>1, <1>c, <1>u, <1>v
<1>9. ASSUME BeginStop \/ FinishStop \/ LeaveStop \/ WorkerDone PROVE Goal
  <2>1. UNCHANGED <<chan, loopVars, queueVars>>
    BY <1>9, Zenon DEF BeginStop, FinishStop, LeaveStop, WorkerDone
  <2> QED
    BY <2>1, <1>c, <1>u, <1>v
<1> HIDE DEF Goal
<1>10. Goal
  BY <1>1, <1>2, <1>3, <1>4, <1>5, <1>6, <1>7, <1>8, <1>9, Zenon
  DEF Next, LoopStep, PollStep, WorkerStep
<1> QED
  BY <1>10, Zenon DEF Goal

\* All types.
LEMMA TypeStep == ASSUME Types, Placed, Travelled, Own, [Next]_vars PROVE Types'
<1>1. WayStep
  BY WaySteps, Zenon
<1>2. CallTypes'
  BY <1>1, CallTypeStep, Zenon
<1> QED
  BY <1>1, <1>2, QueueTypeStep, FlagStep, PlaceStep, SizeStep, Zenon
  DEF Types, QueueTypes, LoopTypes, NativeTypes

HIDE DEF vars, callVars, queueVars, loopVars, nativeVars, pollVars, workVars, stopVars, pumpVars,
  endRest, nativeRest, workRest

-----------------------------------------------------------------------------
(* Where a call is *)

\* Where a call goes, and what its entry of a table says of it.
LEMMA PlacedStep == ASSUME Types, Placed, Own, WayStep PROVE Placed'
<1> USE PumpAssumption
<1>0. /\ pending \in [Tables -> [Ids -> Entries]] /\ id \in [Calls -> Ids \cup {0}]
      /\ pc \in [Calls -> Places] /\ chan \in [Calls -> Seq(Results)] /\ CallTypes
  BY Zenon DEF Types, CallTypes, ChannelTypes
<1>w. \A c, d \in Calls : Waiter(c) # Free /\ Waiter(c) # Tombstone
                          /\ (Waiter(d) = Waiter(c) => d = c)
  BY EntryFacts, Zenon
<1>a. \A c \in Calls : AtPlace(c)
  BY Zenon DEF Placed
<1>e. \A c \in Calls : HasEntry(c)
  BY Zenon DEF Placed
<1>t. kind' = kind
  BY Zenon DEF WayStep, Begins, Moves, Offers, GivesUp, Leaves, Takes, Submits, Requeues, Answers,
    Signals, Handles, Delivers, Polls
<1>T. \A c \in Calls : TableOf(c)' = TableOf(c) /\ TableOf(c) \in Tables
  BY <1>0, <1>t, TableTypes, Zenon DEF TableOf
<1>1. ASSUME NEW c \in Calls, Begins(c) PROVE Placed'
  <2>1. PICK i \in Ids : pending' = [pending EXCEPT ![TableOf(c)][i] = Waiter(c)]
                         /\ id' = [id EXCEPT ![c] = i]
    BY <1>1, Zenon DEF Begins
  <2>2. UNCHANGED <<kind, chan, gaveUp>> /\ pc' = [pc EXCEPT ![c] = "offer"]
        /\ pc[c] = "idle" /\ kind[c] \notin Sends
    BY <1>1, Zenon DEF Begins
  <2>3. c \notin gaveUp /\ id[c] = 0
    BY <1>a, <2>2, Zenon DEF AtPlace
  <2>4. \A d \in Calls : /\ pc'[d] = IF d = c THEN "offer" ELSE pc[d]
                         /\ id'[d] = IF d = c THEN i ELSE id[d]
    BY <1>0, <2>1, <2>2, Zenon
  <2>5. \A d \in Calls : AtPlace(d)'
    BY <1>a, <2>2, <2>3, <2>4 DEF AtPlace, Active
  <2>6. \A u \in Tables, j \in Ids :
          pending'[u][j] = IF u = TableOf(c) /\ j = i THEN Waiter(c) ELSE pending[u][j]
    BY <1>0, <1>T, <2>1, EntryFacts, EntryChange
  <2>7. ASSUME NEW d \in Calls, NEW u \in Tables, NEW j \in Ids, pending'[u][j] = Waiter(d)
        PROVE  TableOf(d)' = u /\ id'[d] = j /\ d \notin gaveUp' /\ pc'[d] # "idle"
               /\ kind'[d] \notin Sends
    <3>1. CASE u = TableOf(c) /\ j = i
      <4>1. d = c
        BY <1>w, <2>6, <2>7, <3>1, Zenon
      <4> QED
        BY <3>1, <4>1, <1>T, <2>2, <2>3, <2>4
    <3>2. CASE ~(u = TableOf(c) /\ j = i)
      <4>1. pending[u][j] = Waiter(d)
        BY <2>6, <2>7, <3>2, Zenon
      <4>2. TableOf(d) = u /\ id[d] = j /\ d \notin gaveUp /\ pc[d] # "idle" /\ kind[d] \notin Sends
        BY <1>e, <4>1, Zenon DEF HasEntry
      <4> QED
        BY <4>2, <1>T, <2>2, <2>4, Zenon
    <3> QED
      BY <3>1, <3>2, Zenon
  <2> QED
    BY <2>5, <2>7, Zenon DEF Placed, HasEntry
<1>g. ASSUME id' = id,
             \A t \in Tables, i \in Ids : \/ pending'[t][i] = pending[t][i]
                                          \/ pending'[t][i] \in {Free, Tombstone},
             gaveUp' = gaveUp, \A d \in Calls : pc[d] # "idle" => pc'[d] # "idle"
      PROVE  \A d \in Calls : HasEntry(d)'
  <2> SUFFICES ASSUME NEW d \in Calls, NEW u \in Tables, NEW j \in Ids, pending'[u][j] = Waiter(d)
               PROVE  TableOf(d)' = u /\ id'[d] = j /\ d \notin gaveUp' /\ pc'[d] # "idle"
                      /\ kind'[d] \notin Sends
    BY Zenon DEF HasEntry
  <2>1. pending[u][j] = Waiter(d)
    BY <1>g, <1>w, Zenon
  <2>2. TableOf(d) = u /\ id[d] = j /\ d \notin gaveUp /\ pc[d] # "idle" /\ kind[d] \notin Sends
    BY <1>e, <2>1, Zenon DEF HasEntry
  <2> QED
    BY <2>2, <1>T, <1>g, <1>t, Zenon
<1>m. /\ \A c \in Calls : \A t \in Tables, i \in Ids :
           /\ Removed(c)[t][i] \in {pending[t][i], Free}
           /\ Abandoned(c)[t][i] \in {pending[t][i], Tombstone}
      /\ \A c \in Calls : id[c] \in Ids => Removed(c)[TableOf(c)][id[c]] = Free
  <2> SUFFICES ASSUME NEW c \in Calls
               PROVE  /\ \A t \in Tables, i \in Ids :
                           /\ Removed(c)[t][i] \in {pending[t][i], Free}
                           /\ Abandoned(c)[t][i] \in {pending[t][i], Tombstone}
                      /\ id[c] \in Ids => Removed(c)[TableOf(c)][id[c]] = Free
    BY Zenon
  <2>1. TableOf(c) \in Tables /\ Free \in Entries /\ Tombstone \in Entries
    BY <1>T, EntryFacts, Zenon
  <2>2. \A t \in Tables, i \in Ids :
          /\ [pending EXCEPT ![TableOf(c)][id[c]] = Free][t][i] =
               IF t = TableOf(c) /\ i = id[c] THEN Free ELSE pending[t][i]
          /\ [pending EXCEPT ![TableOf(c)][id[c]] = Tombstone][t][i] =
               IF t = TableOf(c) /\ i = id[c] THEN Tombstone ELSE pending[t][i]
    BY <1>0, <2>1, EntryChange
  <2> QED
    BY <2>1, <2>2 DEF Removed, Abandoned
<1>2. ASSUME NEW c \in Calls, Moves(c) PROVE Placed'
  <2>1. PICK p \in Places \ {"idle"} :
          /\ pc' = [pc EXCEPT ![c] = p]
          /\ \/ kind[c] \in Sends /\ pc[c] \in {"idle", "waiting"} /\ p \in {"offer", "returned"}
             \/ pc[c] = "idle" /\ p = "returned"
             \/ /\ pc[c] \in {"waiting", "await", "cancelOffer", "cancelWaiting"}
                /\ kind[c] \notin Sends
                /\ p \in {"await", "cancelOffer", "cancelWaiting", "settle"}
    BY <1>2, Zenon DEF Moves
  <2>2. UNCHANGED <<id, chan, gaveUp, pending>>
    BY <1>2, Zenon DEF Moves
  <2>3. \A d \in Calls : pc'[d] = IF d = c THEN p ELSE pc[d]
    BY <1>0, <2>1, Zenon
  <2>4. \A d \in Calls : AtPlace(d)'
    BY <1>a, <1>t, <2>1, <2>2, <2>3, ZenonT(30) DEF AtPlace, Active
  <2>5. \A d \in Calls : pc[d] # "idle" => pc'[d] # "idle"
    BY <2>1, <2>3, Zenon
  <2> QED
    BY <1>g, <2>2, <2>4, <2>5, Zenon DEF Placed
<1>3. ASSUME NEW c \in Calls, Offers(c) PROVE Placed'
  <2>1. UNCHANGED <<id, chan, gaveUp, pending>> /\ pc[c] = "offer"
    BY <1>3, Zenon DEF Offers
  <2>2. \A d \in Calls : pc'[d] = IF d = c THEN "waiting" ELSE pc[d]
    BY <1>0, <1>3, Zenon DEF Offers
  <2>3. \A d \in Calls : AtPlace(d)'
    BY <1>a, <1>t, <2>1, <2>2, Zenon DEF AtPlace, Active
  <2>4. \A d \in Calls : pc[d] # "idle" => pc'[d] # "idle"
    BY <2>2, Zenon
  <2> QED
    BY <1>g, <2>1, <2>3, <2>4, Zenon DEF Placed
<1>4. ASSUME NEW c \in Calls, Leaves(c) PROVE Placed'
  <2>1. UNCHANGED <<id, gaveUp>> /\ Active(c) /\ pc[c] # "idle"
    BY <1>4, Zenon DEF Leaves, Active
  <2>2. \A d \in Calls : pc'[d] = pc[d] \/ (d = c /\ pc'[d] = "returned")
    BY <1>0, <1>4, Zenon DEF Leaves
  <2>3. \A d \in Calls : d # c => chan'[d] = chan[d]
    BY <1>0, <1>4, Zenon DEF Leaves
  <2>4. \A d \in Calls : AtPlace(d)'
    BY <1>a, <1>t, <2>1, <2>2, <2>3, Zenon DEF AtPlace, Active
  <2>5. \A t \in Tables, i \in Ids : \/ pending'[t][i] = pending[t][i]
                                     \/ pending'[t][i] \in {Free, Tombstone}
    <3>1. pending' = pending \/ pending' = Abandoned(c) \/ pending' = Removed(c)
      BY <1>4, Zenon DEF Leaves
    <3> QED
      BY <3>1, <1>m, EntryFacts
  <2>6. \A d \in Calls : pc[d] # "idle" => pc'[d] # "idle"
    BY <2>2, Zenon
  <2> QED
    BY <1>g, <2>1, <2>4, <2>5, <2>6, Zenon DEF Placed
<1>5. ASSUME NEW c \in Calls, GivesUp(c) PROVE Placed'
  <2>1. UNCHANGED <<id, chan>> /\ gaveUp' = gaveUp \cup {c} /\ pc[c] \in {"offer", "waiting"}
        /\ pending' = IF kind[c] \in Sends THEN pending ELSE Removed(c)
    BY <1>5, Zenon DEF GivesUp
  <2>2. \A d \in Calls : pc'[d] = IF d = c THEN "returned" ELSE pc[d]
    BY <1>0, <1>5, Zenon DEF GivesUp
  <2>3. \A d \in Calls : AtPlace(d)'
    BY <1>a, <1>t, <2>1, <2>2, Zenon DEF AtPlace, Active
  <2>4. ASSUME NEW d \in Calls, NEW u \in Tables, NEW j \in Ids, pending'[u][j] = Waiter(d)
        PROVE  TableOf(d)' = u /\ id'[d] = j /\ d \notin gaveUp' /\ pc'[d] # "idle"
               /\ kind'[d] \notin Sends
    <3>1. pending[u][j] = Waiter(d)
      BY <2>1, <2>4, <1>m, <1>w, EntryFacts
    <3>2. TableOf(d) = u /\ id[d] = j /\ d \notin gaveUp /\ pc[d] # "idle" /\ kind[d] \notin Sends
      BY <1>e, <3>1, Zenon DEF HasEntry
    <3>3. d # c
      <4>1. SUFFICES ASSUME d = c PROVE FALSE
        BY Zenon
      <4>2. pending'[u][j] = Free
        BY <2>1, <3>2, <4>1, <1>m, EntryFacts, Zenon
      <4> QED
        BY <2>4, <4>2, <1>w, Zenon
    <3> QED
      BY <3>2, <3>3, <2>1, <2>2, <1>t, <1>T, Zenon
  <2> QED
    BY <2>3, <2>4, Zenon DEF Placed, HasEntry
<1>6. ASSUME Takes \/ Submits \/ Requeues \/ Answers \/ Signals PROVE Placed'
  <2>1. UNCHANGED <<pc, id, chan, gaveUp, pending>>
    BY <1>6, Zenon DEF Takes, Submits, Requeues, Answers, Signals
  <2>2. \A d \in Calls : AtPlace(d)'
    BY <1>a, <1>t, <2>1, Zenon DEF AtPlace, Active
  <2> QED
    BY <1>g, <2>1, <2>2, Zenon DEF Placed
<1>7. ASSUME Delivers PROVE Placed'
  <2>1. UNCHANGED <<pc, id, gaveUp, pending>>
    BY <1>7, Zenon DEF Delivers
  <2>2. pc[target] # "idle" /\ \A d \in Calls \ {target} : chan'[d] = chan[d]
    BY <1>0, <1>7, Zenon DEF Delivers, Own
  <2>3. \A d \in Calls : AtPlace(d)'
    BY <1>a, <1>t, <2>1, <2>2, Zenon DEF AtPlace, Active
  <2> QED
    BY <1>g, <2>1, <2>3, Zenon DEF Placed
<1>8. ASSUME Handles \/ Polls PROVE Placed'
  <2>1. UNCHANGED <<pc, id, chan, gaveUp>>
    BY <1>8, Zenon DEF Handles, Polls
  <2>2. \A d \in Calls : AtPlace(d)'
    BY <1>a, <1>t, <2>1, Zenon DEF AtPlace, Active
  <2>3. \A t \in Tables, i \in Ids : \/ pending'[t][i] = pending[t][i]
                                     \/ pending'[t][i] \in {Free, Tombstone}
    <3>1. CASE Handles
      <4>1. events \in Seq(Events) /\ events # << >> /\ Head(events).name = "Result"
        BY <3>1, Zenon DEF Handles, Types, NativeTypes
      <4>2. Head(events) \in Results
        BY <4>1, TailFacts, EventFacts
      <4>3. PICK c \in Calls, i \in Ids : c = Head(events).call /\ i = Head(events).id
        BY <4>2, Zenon DEF Results
      <4>4. pending' = IF Head(events).last
                       THEN [pending EXCEPT ![TableOf(c)][i] = Free] ELSE pending
        BY <3>1, <4>3, Zenon DEF Handles
      <4> QED
        BY <4>4, <1>0, <1>T, EntryFacts, EntryChange
    <3>2. CASE Polls
      BY <3>2, Zenon DEF Polls
    <3> QED
      BY <1>8, <3>1, <3>2, Zenon
  <2> QED
    BY <1>g, <2>1, <2>2, <2>3, Zenon DEF Placed
<1> QED
  BY <1>1, <1>2, <1>3, <1>4, <1>5, <1>6, <1>7, <1>8, Zenon DEF WayStep

-----------------------------------------------------------------------------
(* The way to core and back *)

\* The requests of a queue after a send.
LEMMA InAppend ==
  ASSUME NEW q \in Seq(Requests), NEW x \in Requests
  PROVE  \A c \in Calls : InQueue(Append(q, x), c) <=> InQueue(q, c) \/ x = Request(c, "op")
<1> SUFFICES ASSUME NEW c \in Calls
             PROVE  InQueue(Append(q, x), c) <=> InQueue(q, c) \/ x = Request(c, "op")
  BY Zenon
<1>1. /\ Len(Append(q, x)) = Len(q) + 1 /\ Append(q, x)[Len(q) + 1] = x /\ Len(q) \in Nat
      /\ \A k \in 1 .. Len(q) : Append(q, x)[k] = q[k]
  BY AppendFacts
<1>2. ASSUME InQueue(Append(q, x), c) PROVE InQueue(q, c) \/ x = Request(c, "op")
  BY <1>1, <1>2 DEF InQueue
<1>3. ASSUME InQueue(q, c) \/ x = Request(c, "op") PROVE InQueue(Append(q, x), c)
  BY <1>1, <1>3 DEF InQueue
<1> QED
  BY <1>2, <1>3, Zenon

\* A request that was not in the queue, or is none of a call, keeps it without doubles.
LEMMA DistinctAppend ==
  ASSUME NEW q \in Seq(Requests), NEW x \in Requests, Distinct(q),
         x.what = "op" /\ kind[x.from] \notin Sends => \A k \in 1 .. Len(q) : q[k] # x
  PROVE  Distinct(Append(q, x))
<1>1. /\ Len(Append(q, x)) = Len(q) + 1 /\ Append(q, x)[Len(q) + 1] = x /\ Len(q) \in Nat
      /\ \A k \in 1 .. Len(q) : Append(q, x)[k] = q[k]
  BY AppendFacts
<1> DEFINE r == Append(q, x)
<1> SUFFICES ASSUME NEW j \in 1 .. Len(r), NEW k \in 1 .. Len(r),
                    r[j] = r[k], r[j].what = "op", kind[r[j].from] \notin Sends
             PROVE  j = k
  BY Zenon DEF Distinct
<1> HIDE DEF r
<1>2. (j \in 1 .. Len(q) /\ r[j] = q[j]) \/ (j = Len(q) + 1 /\ r[j] = x)
  BY <1>1 DEF r
<1>3. (k \in 1 .. Len(q) /\ r[k] = q[k]) \/ (k = Len(q) + 1 /\ r[k] = x)
  BY <1>1 DEF r
<1>4. CASE j \in 1 .. Len(q) /\ r[j] = q[j] /\ k \in 1 .. Len(q) /\ r[k] = q[k]
  BY <1>4, Zenon DEF Distinct
<1> QED
  BY <1>2, <1>3, <1>4, Zenon

\* The batch and the rest of the queue have the queue's requests, none of them both.
LEMMA SplitWay ==
  ASSUME NEW q \in Seq(Requests), NEW n \in 1 .. Len(q), Distinct(q)
  PROVE  LET b == SubSeq(q, 1, n)
             r == SubSeq(q, n + 1, Len(q))
         IN  /\ Distinct(b) /\ Distinct(r)
             /\ \A c \in Calls : InQueue(b, c) \/ InQueue(r, c) => InQueue(q, c)
             /\ \A c \in Calls : kind[c] \notin Sends => ~(InQueue(b, c) /\ InQueue(r, c))
<1> DEFINE b == SubSeq(q, 1, n)
           r == SubSeq(q, n + 1, Len(q))
<1>1. /\ Len(b) = n /\ \A k \in 1 .. n : b[k] = q[k]
      /\ Len(r) = Len(q) - n /\ \A k \in 1 .. Len(q) - n : r[k] = q[n + k]
      /\ Len(q) \in Nat
  BY SplitFacts
<1> HIDE DEF b, r
<1>2. Distinct(b)
  BY <1>1 DEF Distinct
<1>3. Distinct(r)
  <2> SUFFICES ASSUME NEW j \in 1 .. Len(r), NEW k \in 1 .. Len(r),
                      r[j] = r[k], r[j].what = "op", kind[r[j].from] \notin Sends
               PROVE  j = k
    BY Zenon DEF Distinct
  <2>1. n + j \in 1 .. Len(q) /\ n + k \in 1 .. Len(q) /\ r[j] = q[n + j] /\ r[k] = q[n + k]
    BY <1>1
  <2>2. n + j = n + k
    BY <2>1, Zenon DEF Distinct
  <2> QED
    BY <1>1, <2>2
<1>4. \A c \in Calls : InQueue(b, c) => InQueue(q, c)
  <2> SUFFICES ASSUME NEW c \in Calls, NEW k \in 1 .. Len(b), b[k] = Request(c, "op")
               PROVE  InQueue(q, c)
    BY Zenon DEF InQueue
  <2>1. k \in 1 .. Len(q) /\ b[k] = q[k]
    BY <1>1
  <2> QED
    BY <2>1, Zenon DEF InQueue
<1>5. \A c \in Calls : InQueue(r, c) => InQueue(q, c)
  <2> SUFFICES ASSUME NEW c \in Calls, NEW k \in 1 .. Len(r), r[k] = Request(c, "op")
               PROVE  InQueue(q, c)
    BY Zenon DEF InQueue
  <2>1. n + k \in 1 .. Len(q) /\ r[k] = q[n + k]
    BY <1>1
  <2> QED
    BY <2>1, Zenon DEF InQueue
<1>6. ASSUME NEW c \in Calls, kind[c] \notin Sends, InQueue(b, c), InQueue(r, c) PROVE FALSE
  <2>1. PICK j \in 1 .. Len(b) : b[j] = Request(c, "op")
    BY <1>6, Zenon DEF InQueue
  <2>2. PICK k \in 1 .. Len(r) : r[k] = Request(c, "op")
    BY <1>6, Zenon DEF InQueue
  <2>3. j \in 1 .. Len(q) /\ n + k \in 1 .. Len(q) /\ j # n + k
        /\ q[j] = Request(c, "op") /\ q[n + k] = Request(c, "op")
    BY <1>1, <2>1, <2>2
  <2>4. Request(c, "op").what = "op" /\ Request(c, "op").from = c
    BY Zenon DEF Request
  <2> QED
    BY <2>3, <2>4, <1>6, Zenon DEF Distinct
<1> QED
  BY <1>2, <1>3, <1>4, <1>5, <1>6, Zenon DEF b, r

\* A call that will be answered goes on its way and does not come back to a place.
Reach(c) == pc[c] = "offer" \/ Travels(c)
\* A request moves from one place of its way to the next, and a call that was not on its
\* way is only put there by its own submission.
LEMMA TravelledStep ==
  ASSUME Types, Placed, Travelled, WayStep
  PROVE  /\ Travelled'
         /\ \A c \in Calls : kind[c] \notin Sends /\ Reach(c)' => Reach(c) \/ Begins(c)
<1> USE PumpAssumption
<1>0. /\ id \in [Calls -> Ids \cup {0}] /\ pc \in [Calls -> Places]
      /\ native \subseteq [call : Calls, id : Ids] /\ events \in Seq(Events)
      /\ queue \in Seq(Requests) /\ batch \in Seq(Requests)
  BY Zenon DEF Types, CallTypes, NativeTypes, QueueTypes, LoopTypes
<1>t. kind' = kind
  BY Zenon DEF WayStep, Begins, Moves, Offers, GivesUp, Leaves, Takes, Submits, Requeues, Answers,
    Signals, Handles, Delivers, Polls
<1>r. /\ \A c \in Calls : Request(c, "op") \in Requests /\ Request(c, "QueueCancel") \in Requests
      /\ Request(Worker, "ActorStopResult") \in Requests
      /\ \A c, d \in Calls : Request(c, "QueueCancel") # Request(d, "op")
                             /\ Request(Worker, "ActorStopResult") # Request(d, "op")
                             /\ (Request(c, "op") = Request(d, "op") => c = d)
      /\ \A c \in Calls : Request(c, "QueueCancel").what # "op"
      /\ Request(Worker, "ActorStopResult").what # "op"
      /\ \A c \in Calls : Request(c, "op").what = "op" /\ Request(c, "op").from = c
  BY Zenon DEF Request, Requests, Requesters
<1>o. \A c \in Calls : kind[c] \notin Sends => OneWay(c)
  BY Zenon DEF Travelled
<1> DEFINE Goal == /\ Travelled'
                   /\ \A c \in Calls : kind[c] \notin Sends /\ Reach(c)' => Reach(c) \/ Begins(c)

\* The step leaves the queues, or shortens them.
<1>s. ASSUME Distinct(queue)', Distinct(batch)', NativeIds', EventIds',
             \A c \in Calls : kind[c] \notin Sends =>
               /\ InQueue(queue, c)' => InQueue(queue, c)
               /\ InQueue(batch, c)' => InQueue(batch, c)
               /\ InNative(c)' => InNative(c)
               /\ Answered(c)' => Answered(c)
               /\ pc'[c] \in {"idle", "offer"} => pc'[c] = pc[c]
               /\ id'[c] = id[c]
      PROVE  Goal
  <2>1. ASSUME NEW c \in Calls, kind[c] \notin Sends PROVE OneWay(c)' /\ (Reach(c)' => Reach(c))
    <3>1. OneWay(c)
      BY <1>o, <2>1, Zenon
    <3>2. Travels(c)' => Travels(c)
      BY <1>s, <2>1, Zenon DEF Travels
    <3>3. OneWay(c)'
      BY <1>s, <2>1, <3>1, <3>2, Zenon DEF OneWay
    <3> QED
      BY <1>s, <2>1, <3>2, <3>3, Zenon DEF Reach
  <2> QED
    BY <1>s, <1>t, <2>1, Zenon DEF Travelled
<1>q. ASSUME queue' = queue
      PROVE  Distinct(queue)' /\ \A c \in Calls : InQueue(queue, c)' <=> InQueue(queue, c)
  BY <1>q, <1>t DEF Travelled, Distinct, InQueue
<1>b. ASSUME batch' = batch
      PROVE  Distinct(batch)' /\ \A c \in Calls : InQueue(batch, c)' <=> InQueue(batch, c)
  BY <1>b, <1>t DEF Travelled, Distinct, InQueue
<1>n. ASSUME native' \subseteq native, id' = id
      PROVE  NativeIds' /\ \A c \in Calls : InNative(c)' => InNative(c)
  BY <1>n, <1>t, Zenon DEF Travelled, NativeIds, InNative
<1>e. ASSUME \/ events' = events \/ events' = << >> \/ (events # << >> /\ events' = Tail(events)),
             id' = id
      PROVE  EventIds' /\ \A c \in Calls : Answered(c)' => Answered(c)
  <2>0. EventIds
    BY Zenon DEF Travelled
  <2>1. CASE events' = events
    BY <1>e, <1>t, <2>0, <2>1, Zenon DEF EventIds, Answered
  <2>2. CASE events' = << >>
    BY <2>2 DEF EventIds, Answered
  <2>3. CASE events # << >> /\ events' = Tail(events)
    <3>1. Len(events) \in Nat /\ Len(events') = Len(events) - 1
          /\ \A k \in 1 .. Len(events') : events'[k] = events[k + 1] /\ k + 1 \in 1 .. Len(events)
      BY <1>0, <2>3, TailFacts
    <3>2. \A c \in Calls : Answered(c)' => Answered(c)
      BY <3>1, Zenon DEF Answered
    <3>3. EventIds'
      <4> SUFFICES ASSUME NEW k \in 1 .. Len(events'), events'[k].call \in Calls
                   PROVE  /\ events'[k].id = id'[events'[k].call]
                          /\ kind'[events'[k].call] \notin Sends
                          /\ \A j \in 1 .. Len(events') :
                               j < k /\ events'[j].call = events'[k].call => ~events'[j].last
        BY Zenon DEF EventIds
      <4>1. events'[k] = events[k + 1] /\ k + 1 \in 1 .. Len(events)
        BY <3>1, Zenon
      <4>2. \A j \in 1 .. Len(events') : j < k => j + 1 < k + 1 /\ j + 1 \in 1 .. Len(events)
                                                  /\ events'[j] = events[j + 1]
        BY <3>1
      <4>3. /\ events[k + 1].id = id[events[k + 1].call]
            /\ kind[events[k + 1].call] \notin Sends
            /\ \A i \in 1 .. Len(events) :
                 i < k + 1 /\ events[i].call = events[k + 1].call => ~events[i].last
        BY <2>0, <4>1, Zenon DEF EventIds
      <4>4. \A j \in 1 .. Len(events') :
              j < k /\ events'[j].call = events'[k].call => ~events'[j].last
        BY <4>1, <4>2, <4>3
      <4> QED
        BY <1>e, <1>t, <4>1, <4>3, <4>4, Zenon
    <3> QED
      BY <3>2, <3>3, Zenon
  <2> QED
    BY <1>e, <2>1, <2>2, <2>3, Zenon
<1>1. ASSUME NEW c \in Calls, Begins(c) PROVE Goal
  <2>1. PICK i \in Ids : id' = [id EXCEPT ![c] = i]
    BY <1>1, Zenon DEF Begins
  <2>2. UNCHANGED <<queue, batch, native, events>> /\ pc[c] = "idle" /\ kind[c] \notin Sends
        /\ pc' = [pc EXCEPT ![c] = "offer"]
    BY <1>1, Zenon DEF Begins
  <2>3. OneWay(c) /\ ~Travels(c)
    BY <1>o, <2>2, Zenon DEF OneWay
  <2>4. \A d \in Calls : /\ pc'[d] = IF d = c THEN "offer" ELSE pc[d]
                         /\ id'[d] = IF d = c THEN i ELSE id[d]
    BY <1>0, <2>1, <2>2, Zenon
  <2>5. \A d \in Calls : /\ InNative(d)' <=> InNative(d)
                         /\ Answered(d)' <=> Answered(d)
    BY <2>2, Zenon DEF InNative, Answered
  <2>6. Distinct(queue)' /\ Distinct(batch)'
    BY <1>q, <1>b, <2>2, Zenon
  <2>7. NativeIds'
    <3>1. \A x \in native : x.call \in Calls /\ x.call # c
      BY <1>0, <2>3, Zenon DEF Travels, InNative
    <3> QED
      BY <1>t, <2>2, <2>4, <3>1, Zenon DEF NativeIds, Travelled
  <2>8. EventIds'
    <3>1. \A k \in 1 .. Len(events) : events[k].call # c
      BY <2>3, Zenon DEF Travels, Answered
    <3> QED
      BY <1>t, <2>2, <2>4, <3>1, Zenon DEF EventIds, Travelled
  <2>9. ASSUME NEW d \in Calls, kind[d] \notin Sends
        PROVE  OneWay(d)' /\ (Reach(d)' => Reach(d) \/ Begins(d))
    <3>1. OneWay(d)
      BY <1>o, <2>9, Zenon
    <3>2. Travels(d)' <=> Travels(d)
      BY <1>q, <1>b, <2>2, <2>5, Zenon DEF Travels
    <3>3. CASE d = c
      <4>1. ~Travels(d)'
        BY <2>3, <3>2, <3>3, Zenon
      <4>2. OneWay(d)'
        BY <4>1, Zenon DEF OneWay, Travels
      <4> QED
        BY <1>1, <3>3, <4>2, Zenon
    <3>4. CASE d # c
      <4>1. pc'[d] = pc[d] /\ id'[d] = id[d]
        BY <2>4, <3>4, Zenon
      <4>2. OneWay(d)'
        BY <1>q, <1>b, <2>2, <2>5, <3>1, <3>2, <4>1, Zenon DEF OneWay
      <4> QED
        BY <3>2, <4>1, <4>2, Zenon DEF Reach
    <3> QED
      BY <3>3, <3>4, Zenon
  <2> QED
    BY <1>t, <2>6, <2>7, <2>8, <2>9, Zenon DEF Travelled
<1>2. ASSUME NEW c \in Calls, Moves(c) PROVE Goal
  <2>1. PICK p \in Places \ {"idle"} :
          pc' = [pc EXCEPT ![c] = p] /\ (kind[c] \in Sends \/ p # "offer")
    BY <1>2, Zenon DEF Moves
  <2>2. UNCHANGED <<id, batch, native, events>>
        /\ (queue' = queue \/ queue' = Append(queue, Request(c, "QueueCancel")))
    BY <1>2, Zenon DEF Moves
  <2>3. Distinct(queue)' /\ \A d \in Calls : InQueue(queue, d)' => InQueue(queue, d)
    <3>1. CASE queue' = Append(queue, Request(c, "QueueCancel"))
      <4>1. Distinct(Append(queue, Request(c, "QueueCancel")))
        BY <1>0, <1>r, DistinctAppend, Zenon DEF Travelled
      <4>2. Distinct(queue)'
        BY <1>t, <3>1, <4>1, Zenon DEF Distinct
      <4>3. \A d \in Calls :
              InQueue(Append(queue, Request(c, "QueueCancel")), d) => InQueue(queue, d)
        BY <1>0, <1>r, InAppend
      <4> QED
        BY <3>1, <4>2, <4>3, Zenon DEF InQueue
    <3> QED
      BY <1>q, <2>2, <3>1, Zenon
  <2>4. \A d \in Calls : kind[d] \notin Sends /\ pc'[d] \in {"idle", "offer"} => pc'[d] = pc[d]
    BY <1>0, <2>1, Zenon
  <2> QED
    BY <1>s, <1>b, <1>n, <1>e, <2>2, <2>3, <2>4, Zenon
<1>3. ASSUME NEW c \in Calls, GivesUp(c) \/ Leaves(c) PROVE Goal
  <2>1. UNCHANGED <<id, queue, batch, native, events>>
    BY <1>3, Zenon DEF GivesUp, Leaves
  <2>2. \A d \in Calls : pc'[d] \in {"idle", "offer"} => pc'[d] = pc[d]
    BY <1>0, <1>3, Zenon DEF GivesUp, Leaves
  <2> QED
    BY <1>s, <1>q, <1>b, <1>n, <1>e, <2>1, <2>2, Zenon
<1>4. ASSUME Handles \/ Delivers \/ Polls PROVE Goal
  <2>1. UNCHANGED <<pc, id, queue, batch>> /\ (native' = native \/ native' = {})
        /\ (\/ events' = events \/ events' = << >> \/ (events # << >> /\ events' = Tail(events)))
    BY <1>4, Zenon DEF Handles, Delivers, Polls
  <2>2. native' \subseteq native
    BY <2>1, Zenon
  <2> QED
    BY <1>s, <1>q, <1>b, <1>n, <1>e, <2>1, <2>2, Zenon
<1>5. ASSUME Requeues PROVE Goal
  <2>1. UNCHANGED <<pc, id, batch, native, events>>
    BY <1>5, Zenon DEF Requeues
  <2>2. Distinct(queue)' /\ \A d \in Calls : InQueue(queue, d)' => InQueue(queue, d)
    <3> DEFINE x == Request(Worker, "ActorStopResult")
    <3>1. CASE queue' = Append(queue, x)
      <4>1. Distinct(Append(queue, x))
        BY <1>0, <1>r, DistinctAppend, Zenon DEF Travelled
      <4>2. Distinct(queue)'
        BY <1>t, <3>1, <4>1, Zenon DEF Distinct
      <4>3. \A d \in Calls : InQueue(Append(queue, x), d) => InQueue(queue, d)
        BY <1>0, <1>r, InAppend, Zenon
      <4> QED
        BY <3>1, <4>2, <4>3, Zenon DEF InQueue
    <3>2. CASE queue' = << >>
      BY <3>2 DEF Distinct, InQueue
    <3> QED
      BY <1>5, <1>q, <3>1, <3>2, Zenon DEF Requeues
  <2>3. native' \subseteq native
    BY <2>1, Zenon
  <2> QED
    BY <1>s, <1>b, <1>n, <1>e, <2>1, <2>2, <2>3, Zenon
<1>6. ASSUME Signals PROVE Goal
  <2>1. UNCHANGED <<pc, id, queue, batch, native>>
    BY <1>6, Zenon DEF Signals
  <2>2. PICK name \in {"ActorStop", "RunnerStopped"} : events' = Append(events, Signal(name))
    BY <1>6, Zenon DEF Signals
  <2>3. Signal(name) \in Events /\ Signal(name).call \notin Calls
    BY EventFacts, Zenon DEF Signal
  <2>4. /\ Len(events') = Len(events) + 1 /\ Len(events) \in Nat
        /\ \A k \in 1 .. Len(events) : events'[k] = events[k]
        /\ events'[Len(events) + 1].call \notin Calls
    BY <1>0, <2>2, <2>3, AppendFacts
  <2>5. \A k \in 1 .. Len(events') : events'[k].call \in Calls =>
          k \in 1 .. Len(events) /\ events'[k] = events[k]
    BY <2>4
  <2>6. \A d \in Calls : Answered(d)' => Answered(d)
    BY <2>5, Zenon DEF Answered
  <2>7. EventIds'
    BY <1>t, <2>1, <2>5, Zenon DEF EventIds, Travelled
  <2>8. native' \subseteq native
    BY <2>1, Zenon
  <2> QED
    BY <1>s, <1>q, <1>b, <1>n, <2>1, <2>6, <2>7, <2>8, Zenon
<1>7. ASSUME NEW c \in Calls, Offers(c) PROVE Goal
  <2> DEFINE x == Request(c, "op")
  <2>1. UNCHANGED <<id, batch, native, events>> /\ queue' = Append(queue, x) /\ pc[c] = "offer"
    BY <1>7, Zenon DEF Offers
  <2>2. \A d \in Calls : pc'[d] = IF d = c THEN "waiting" ELSE pc[d]
    BY <1>0, <1>7, Zenon DEF Offers
  <2>3. \A d \in Calls : InQueue(queue, d)' <=> InQueue(queue, d) \/ d = c
    <3>1. \A d \in Calls : InQueue(Append(queue, x), d) <=> InQueue(queue, d) \/ d = c
      BY <1>0, <1>r, InAppend
    <3> QED
      BY <2>1, <3>1, Zenon DEF InQueue
  <2>4. Distinct(queue)'
    <3>1. kind[c] \notin Sends => \A k \in 1 .. Len(queue) : queue[k] # x
      BY <1>o, <2>1, Zenon DEF OneWay, Travels, InQueue
    <3>2. Distinct(Append(queue, x))
      BY <1>0, <1>r, <3>1, DistinctAppend, Zenon DEF Travelled
    <3> QED
      BY <1>t, <2>1, <3>2, Zenon DEF Distinct
  <2>5. Distinct(batch)' /\ NativeIds' /\ EventIds'
        /\ \A d \in Calls : /\ InQueue(batch, d)' <=> InQueue(batch, d)
                            /\ InNative(d)' <=> InNative(d)
                            /\ Answered(d)' <=> Answered(d)
    <3>1. NativeIds' /\ \A d \in Calls : InNative(d)' <=> InNative(d)
      BY <1>t, <2>1, Zenon DEF Travelled, NativeIds, InNative
    <3>2. EventIds' /\ \A d \in Calls : Answered(d)' <=> Answered(d)
      BY <1>t, <2>1, Zenon DEF Travelled, EventIds, Answered
    <3> QED
      BY <1>b, <2>1, <3>1, <3>2, Zenon
  <2>6. ASSUME NEW d \in Calls, kind[d] \notin Sends
        PROVE  OneWay(d)' /\ (Reach(d)' => Reach(d))
    <3>1. OneWay(d)
      BY <1>o, <2>6, Zenon
    <3>2. CASE d = c
      <4>1. ~Travels(c) /\ pc[c] = "offer"
        BY <2>1, <3>1, <3>2, Zenon DEF OneWay
      <4>2. id[c] \in Ids
        BY <2>1, <2>6, <3>2, Zenon DEF Placed, AtPlace, Active
      <4>3. ~InQueue(batch, d)' /\ ~InNative(d)' /\ ~Answered(d)'
        BY <2>5, <3>2, <4>1, Zenon DEF Travels
      <4>4. pc'[d] = "waiting" /\ id'[d] = id[d]
        BY <2>1, <2>2, <3>2, Zenon
      <4>5. OneWay(d)'
        BY <3>2, <4>2, <4>3, <4>4, Zenon DEF OneWay
      <4> QED
        BY <2>1, <3>2, <4>5, Zenon DEF Reach
    <3>3. CASE d # c
      <4>1. pc'[d] = pc[d] /\ id'[d] = id[d] /\ (InQueue(queue, d)' <=> InQueue(queue, d))
        BY <2>1, <2>2, <2>3, <3>3, Zenon
      <4>2. Travels(d)' <=> Travels(d)
        BY <2>5, <4>1, Zenon DEF Travels
      <4>3. OneWay(d)'
        BY <2>5, <3>1, <4>1, <4>2, Zenon DEF OneWay
      <4> QED
        BY <4>1, <4>2, <4>3, Zenon DEF Reach
    <3> QED
      BY <3>2, <3>3, Zenon
  <2> QED
    BY <1>t, <2>4, <2>5, <2>6, Zenon DEF Travelled
<1>8. ASSUME Takes PROVE Goal
  <2>1. PICK n \in 1 .. Len(queue) : batch' = SubSeq(queue, 1, n)
                                     /\ queue' = SubSeq(queue, n + 1, Len(queue))
    BY <1>8, Zenon DEF Takes
  <2>2. UNCHANGED <<pc, id, native, events>>
    BY <1>8, Zenon DEF Takes
  <2> DEFINE b == SubSeq(queue, 1, n)
             r == SubSeq(queue, n + 1, Len(queue))
  <2>3. /\ Distinct(b) /\ Distinct(r)
        /\ \A c \in Calls : InQueue(b, c) \/ InQueue(r, c) => InQueue(queue, c)
        /\ \A c \in Calls : kind[c] \notin Sends => ~(InQueue(b, c) /\ InQueue(r, c))
    BY <1>0, <2>1, SplitWay, Zenon DEF Travelled
  <2> HIDE DEF b, r
  <2>4. batch' = b /\ queue' = r
    BY <2>1, Zenon DEF b, r
  <2>5. Distinct(queue)' /\ Distinct(batch)'
    BY <1>t, <2>3, <2>4, ZenonT(30) DEF Distinct
  <2>6. \A c \in Calls : /\ InQueue(batch, c)' => InQueue(queue, c)
                         /\ InQueue(queue, c)' => InQueue(queue, c)
                         /\ kind[c] \notin Sends => ~(InQueue(batch, c)' /\ InQueue(queue, c)')
    BY <2>3, <2>4, Zenon DEF InQueue
  <2>7. NativeIds' /\ EventIds'
        /\ \A d \in Calls : /\ InNative(d)' <=> InNative(d)
                            /\ Answered(d)' <=> Answered(d)
    BY <1>t, <2>2, Zenon DEF Travelled, NativeIds, EventIds, InNative, Answered
  <2>8. ASSUME NEW d \in Calls, kind[d] \notin Sends
        PROVE  OneWay(d)' /\ (Reach(d)' => Reach(d))
    <3>1. OneWay(d)
      BY <1>o, <2>8, Zenon
    <3>2. Travels(d)' => Travels(d)
      BY <2>6, <2>7, Zenon DEF Travels
    <3>3. OneWay(d)'
      BY <2>2, <2>6, <2>7, <2>8, <3>1, <3>2, Zenon DEF OneWay
    <3> QED
      BY <2>2, <3>2, <3>3, Zenon DEF Reach
  <2> QED
    BY <1>t, <2>5, <2>7, <2>8, Zenon DEF Travelled
<1>9. ASSUME Submits PROVE Goal
  <2>1. UNCHANGED <<pc, id, queue, events>> /\ batch' = << >>
    BY <1>9, Zenon DEF Submits
  <2>2. \A x \in native' : x \in native \/ \E d \in Calls :
          x = [call |-> d, id |-> id[d]] /\ kind[d] \notin Sends /\ InQueue(batch, d)
    BY <1>9 DEF Submits
  <2>3. NativeIds'
    BY <1>t, <2>1, <2>2 DEF NativeIds, Travelled
  <2>4. \A d \in Calls : InNative(d)' => InNative(d) \/ InQueue(batch, d)
    BY <2>2 DEF InNative
  <2>5. Distinct(batch)' /\ \A d \in Calls : ~InQueue(batch, d)'
    BY <2>1 DEF Distinct, InQueue
  <2>6. EventIds' /\ \A d \in Calls : Answered(d)' <=> Answered(d)
    BY <1>t, <2>1, Zenon DEF Travelled, EventIds, Answered
  <2>7. ASSUME NEW d \in Calls, kind[d] \notin Sends
        PROVE  OneWay(d)' /\ (Reach(d)' => Reach(d))
    <3>1. OneWay(d) /\ (InQueue(queue, d)' <=> InQueue(queue, d))
      BY <1>o, <1>q, <2>1, <2>7, Zenon
    <3>2. Travels(d)' => Travels(d)
      BY <2>4, <2>5, <2>6, <3>1, Zenon DEF Travels
    <3>3. OneWay(d)'
      BY <2>1, <2>4, <2>5, <2>6, <3>1, <3>2, Zenon DEF OneWay
    <3> QED
      BY <2>1, <3>2, <3>3, Zenon DEF Reach
  <2> QED
    BY <1>q, <1>t, <2>1, <2>3, <2>5, <2>6, <2>7, Zenon DEF Travelled
<1>10. ASSUME Answers PROVE Goal
  <2>1. PICK x \in native, n \in Nat \ {0} :
          /\ native' = native \ {x}
          /\ events' = events \o [k \in 1 .. n |-> Answer(x, k = n)]
    BY <1>10, Zenon DEF Answers
  <2>2. UNCHANGED <<pc, id, queue, batch>>
    BY <1>10, Zenon DEF Answers
  <2>3. x \in [call : Calls, id : Ids] /\ x.id = id[x.call] /\ kind[x.call] \notin Sends
    BY <1>0, <2>1, Zenon DEF Travelled, NativeIds
  <2>4. PICK c \in Calls : c = x.call
    BY <2>3, Zenon
  <2>5. native' \subseteq native /\ ~InNative(c)'
    <3>1. \A y \in native : y.call = c => y = x
      <4> SUFFICES ASSUME NEW y \in native, y.call = c PROVE y = x
        BY Zenon
      <4>1. y \in [call : Calls, id : Ids] /\ y.id = id[y.call]
        BY <1>0, Zenon DEF Travelled, NativeIds
      <4> QED
        BY <2>3, <2>4, <4>1
    <3> QED
      BY <2>1, <3>1, Zenon DEF InNative
  <2>6. InNative(c) /\ ~Answered(c)
    <3>1. InNative(c)
      BY <2>1, <2>4, Zenon DEF InNative
    <3> QED
      BY <1>o, <2>3, <2>4, <3>1, Zenon DEF OneWay
  <2> DEFINE r == [k \in 1 .. n |-> Answer(x, k = n)]
  <2>7. /\ r \in [1 .. n -> Events]
        /\ \A k \in 1 .. n : r[k].call = c /\ r[k].id = id[c] /\ (r[k].last <=> k = n)
    <3>1. \A k \in 1 .. n : Answer(x, k = n) \in Results /\ Answer(x, k = n).call = c
                            /\ Answer(x, k = n).id = id[c] /\ (Answer(x, k = n).last <=> k = n)
      BY <2>3, <2>4, Zenon DEF Answer, Results
    <3> QED
      BY <3>1, EventFacts, Zenon
  <2>8. events' = events \o r
    BY <2>1, Zenon
  <2> HIDE DEF r
  <2>9. /\ Len(events') = Len(events) + n /\ Len(events) \in Nat
        /\ \A k \in 1 .. Len(events) : events'[k] = events[k]
        /\ \A k \in 1 .. n : events'[Len(events) + k] = r[k]
    <3>1. n \in Nat /\ Len(events) \in Nat
      BY <1>0, <2>1
    <3>2. /\ Len(events \o r) = Len(events) + n
          /\ \A k \in 1 .. Len(events) : (events \o r)[k] = events[k]
          /\ \A k \in 1 .. n : (events \o r)[Len(events) + k] = r[k]
      BY <1>0, <2>7, <3>1, ConcatFacts, SMTT(30)
    <3> QED
      BY <2>8, <3>1, <3>2, Zenon
  <2>10. ASSUME NEW k \in 1 .. Len(events')
         PROVE  \/ k \in 1 .. Len(events) /\ events'[k] = events[k]
                \/ /\ k \in Len(events) + 1 .. Len(events) + n
                   /\ events'[k].call = c /\ events'[k].id = id[c]
                   /\ events'[k].last <=> k = Len(events) + n
    <3>1. CASE k \in 1 .. Len(events)
      BY <2>9, <3>1, Zenon
    <3>2. CASE k \notin 1 .. Len(events)
      <4>1. PICK i \in 1 .. n : k = Len(events) + i
        <5>1. k - Len(events) \in 1 .. n /\ k = Len(events) + (k - Len(events))
          BY <2>1, <2>9, <3>2
        <5> QED
          BY <5>1, Zenon
      <4>2. events'[k] = r[i]
        BY <2>9, <4>1, Zenon
      <4>3. i = n <=> k = Len(events) + n
        <5>1. i \in Nat /\ n \in Nat /\ Len(events) \in Nat
          BY <2>1, <2>9, <4>1
        <5> QED
          BY <4>1, <5>1
      <4> QED
        BY <2>1, <2>7, <2>9, <4>1, <4>2, <4>3
    <3> QED
      BY <3>1, <3>2, Zenon
  <2>11. \A d \in Calls : Answered(d)' => Answered(d) \/ d = c
    BY <2>10, Zenon DEF Answered
  <2>12. EventIds'
    <3> SUFFICES ASSUME NEW k \in 1 .. Len(events'), events'[k].call \in Calls
                 PROVE  /\ events'[k].id = id'[events'[k].call]
                        /\ kind'[events'[k].call] \notin Sends
                        /\ \A j \in 1 .. Len(events') :
                             j < k /\ events'[j].call = events'[k].call => ~events'[j].last
      BY Zenon DEF EventIds
    <3>0. EventIds
      BY Zenon DEF Travelled
    <3>1. CASE k \in 1 .. Len(events) /\ events'[k] = events[k]
      <4>1. \A j \in 1 .. Len(events') : j < k => j \in 1 .. Len(events) /\ events'[j] = events[j]
        BY <2>9, <3>1
      <4> QED
        BY <1>t, <2>2, <3>0, <3>1, <4>1, Zenon DEF EventIds
    <3>2. CASE /\ k \in Len(events) + 1 .. Len(events) + n
               /\ events'[k].call = c /\ events'[k].id = id[c]
      <4>1. ASSUME NEW j \in 1 .. Len(events'), j < k, events'[j].call = c PROVE ~events'[j].last
        <5>1. j \notin 1 .. Len(events) \/ events'[j] # events[j]
          BY <2>6, <4>1, Zenon DEF Answered
        <5>2. (events'[j].last <=> j = Len(events) + n) /\ j \in Nat
          BY <2>10, <5>1, SMTT(30)
        <5> QED
          BY <2>1, <2>9, <3>2, <4>1, <5>2, SMTT(30)
      <4> QED
        BY <1>t, <2>2, <2>3, <2>4, <3>2, <4>1, ZenonT(30)
    <3> QED
      BY <2>10, <3>1, <3>2, Zenon
  <2>13. NativeIds' /\ \A d \in Calls : InNative(d)' => InNative(d)
    BY <1>n, <2>2, <2>5, Zenon
  <2>14. ASSUME NEW d \in Calls, kind[d] \notin Sends
         PROVE  OneWay(d)' /\ (Reach(d)' => Reach(d))
    <3>1. OneWay(d) /\ (InQueue(queue, d)' <=> InQueue(queue, d))
          /\ (InQueue(batch, d)' <=> InQueue(batch, d))
      BY <1>o, <1>q, <1>b, <2>2, <2>14, Zenon
    <3>2. Travels(d)' => Travels(d)
      BY <2>6, <2>11, <2>13, <3>1, Zenon DEF Travels
    <3>3. OneWay(d)'
      <4>1. CASE d = c
        BY <2>2, <2>5, <2>6, <3>1, <3>2, <4>1, Zenon DEF OneWay
      <4>2. CASE d # c
        BY <2>2, <2>11, <2>13, <3>1, <3>2, <4>2, Zenon DEF OneWay
      <4> QED
        BY <4>1, <4>2, Zenon
    <3> QED
      BY <2>2, <3>2, <3>3, Zenon DEF Reach
  <2> QED
    BY <1>q, <1>b, <1>t, <2>2, <2>12, <2>13, <2>14, Zenon DEF Travelled
<1> HIDE DEF Goal
<1>11. Goal
  BY <1>1, <1>2, <1>3, <1>4, <1>5, <1>6, <1>7, <1>8, <1>9, <1>10, Zenon DEF WayStep
<1> QED
  BY <1>11, Zenon DEF Goal

-----------------------------------------------------------------------------
(* Ids and tombstones *)

\* What every step leaves of kinds, ids and places.
LEMMA StepBasics ==
  ASSUME Types, WayStep
  PROVE  /\ kind' = kind /\ gaveUp \subseteq gaveUp' /\ (Polled' => Polled)
         /\ \A c \in Calls : id'[c] = id[c] \/ Begins(c)
         /\ \A c \in Calls : Active(c)' => Active(c) \/ kind[c] \in Sends \/ Begins(c)
         /\ \A c \in Calls : TableOf(c)' = TableOf(c) /\ TableOf(c) \in Tables
<1>0. id \in [Calls -> Ids \cup {0}] /\ pc \in [Calls -> Places] /\ CallTypes
  BY Zenon DEF Types, CallTypes
<1>1. kind' = kind
  BY Zenon DEF WayStep, Begins, Moves, Offers, GivesUp, Leaves, Takes, Submits, Requeues, Answers,
    Signals, Handles, Delivers, Polls
<1>2. gaveUp \subseteq gaveUp'
  BY Zenon DEF WayStep, Begins, Moves, Offers, GivesUp, Leaves, Takes, Submits, Requeues, Answers,
    Signals, Handles, Delivers, Polls
<1>3. Polled' => Polled
  BY Zenon DEF WayStep, Begins, Moves, Offers, GivesUp, Leaves, Takes, Submits, Requeues, Answers,
    Signals, Handles, Delivers, Polls, Polled
<1>4. ASSUME NEW c \in Calls, Begins(c)
      PROVE  \A d \in Calls : d # c => id'[d] = id[d] /\ pc'[d] = pc[d]
  BY <1>0, <1>4, Zenon DEF Begins
<1>5. ASSUME NEW c \in Calls, Moves(c) \/ Offers(c) \/ GivesUp(c) \/ Leaves(c)
      PROVE  id' = id /\ \A d \in Calls : Active(d)' => Active(d) \/ kind[d] \in Sends
  <2>1. id' = id
    BY <1>5, Zenon DEF Moves, Offers, GivesUp, Leaves
  <2>2. \A d \in Calls : pc'[d] \notin {"idle", "returned"} =>
          pc[d] \notin {"idle", "returned"} \/ kind[d] \in Sends
    BY <1>0, <1>5, Zenon DEF Moves, Offers, GivesUp, Leaves
  <2> QED
    BY <2>1, <2>2, Zenon DEF Active
<1>6. ASSUME Takes \/ Submits \/ Requeues \/ Answers \/ Signals \/ Handles \/ Delivers \/ Polls
      PROVE  id' = id /\ pc' = pc
  BY <1>6, Zenon DEF Takes, Submits, Requeues, Answers, Signals, Handles, Delivers, Polls
<1>7. \A c \in Calls : id'[c] = id[c] \/ Begins(c)
  BY <1>4, <1>5, <1>6, Zenon DEF WayStep
<1>8. \A c \in Calls : Active(c)' => Active(c) \/ kind[c] \in Sends \/ Begins(c)
  BY <1>4, <1>5, <1>6, Zenon DEF WayStep, Active
<1>9. \A c \in Calls : TableOf(c)' = TableOf(c) /\ TableOf(c) \in Tables
  BY <1>0, <1>1, TableTypes, Zenon DEF TableOf
<1> QED
  BY <1>1, <1>2, <1>3, <1>7, <1>8, <1>9, Zenon

\* A call that shares its id with one that left early keeps doing so.
LEMMA CleanStays ==
  ASSUME Types, Placed, WayStep, NEW c \in Calls, ~Begins(c), Clean(c)'
  PROVE  Clean(c)
<1> SUFFICES ASSUME NEW d \in gaveUp \ {c}, TableOf(d) = TableOf(c), id[d] = id[c] PROVE FALSE
  BY Zenon DEF Clean
<1>1. d \in Calls /\ d \in gaveUp' \ {c}
  BY StepBasics, Zenon DEF Types, CallTypes
<1>2. pc[d] = "returned"
  BY <1>1, Zenon DEF Placed, AtPlace
<1>3. ~Begins(d)
  BY <1>2, Zenon DEF Begins
<1>4. id'[d] = id'[c] /\ TableOf(d)' = TableOf(c)'
  BY <1>1, <1>3, StepBasics, Zenon
<1> QED
  BY <1>1, <1>4, Zenon DEF Clean

\* A call that was not open does not become so, unless it begins.
LEMMA OpenStays ==
  ASSUME Types, Placed, Travelled, WayStep, NEW c \in Calls, ~Begins(c), kind[c] \notin Sends,
         Open(c)'
  PROVE  Open(c)
<1>1. Clean(c)
  BY CleanStays, Zenon DEF Open
<1>2. c \notin gaveUp
  BY StepBasics, Zenon DEF Open
<1>3. Reach(c)
  BY TravelledStep, Zenon DEF Open, Reach
<1> QED
  BY <1>1, <1>2, <1>3, Zenon DEF Open, Reach

\* A call with an entry in the intent or the SQLite table.
LEMMA TabledFacts ==
  ASSUME Types, NEW c \in Calls
  PROVE  /\ Tabled(c) => kind[c] \notin Sends /\ TableOf(c) # "kv"
         /\ kind[c] \notin Sends /\ TableOf(c) # "kv" => Tabled(c)
         /\ kind[c] \in KVOps <=> TableOf(c) = "kv"
<1>1. kind[c] \in AllKinds
  BY PumpAssumption DEF Types, CallTypes
<1> QED
  BY <1>1, KindSorts, Zenon DEF Tabled, TableOf

\* Whoever holds an id has one.
LEMMA HoldersId ==
  ASSUME Types, Placed, Travelled, NEW c \in Calls, kind[c] \notin Sends, Holds(c)
  PROVE  id[c] \in Ids
<1>1. Active(c) => id[c] \in Ids
  BY Zenon DEF Placed, AtPlace
<1>2. Travels(c) => id[c] \in Ids
  BY Zenon DEF Travelled, OneWay
<1> QED
  BY <1>1, <1>2, Zenon DEF Holds, Open, Active

\* The event at the head is of a call on its way, with the id of the call.
LEMMA HeadFacts ==
  ASSUME Types, Travelled, Handles
  PROVE  \E c \in Calls :
           /\ c = Head(events).call /\ id[c] = Head(events).id /\ id[c] \in Ids
           /\ kind[c] \notin Sends /\ Travels(c)
           /\ Head(events).last => ~Reach(c)'
<1>1. events \in Seq(Events) /\ events # << >> /\ Head(events).name = "Result"
  BY Zenon DEF Handles, Types, NativeTypes
<1>2. Head(events) \in Results /\ Head(events) = events[1] /\ 1 \in 1 .. Len(events)
      /\ Len(events) \in Nat
  BY <1>1, TailFacts, EventFacts
<1>3. PICK c \in Calls : c = Head(events).call
  BY <1>2, Zenon DEF Results
<1>4. Answered(c)
  BY <1>2, <1>3, Zenon DEF Answered
<1>5. id[c] = Head(events).id /\ kind[c] \notin Sends
  BY <1>2, <1>3, Zenon DEF Travelled, EventIds
<1>6. OneWay(c)
  BY <1>5, Zenon DEF Travelled
<1>7. id[c] \in Ids /\ Travels(c)
  BY <1>4, <1>6, Zenon DEF OneWay, Travels
<1>8. ASSUME Head(events).last PROVE ~Reach(c)'
  <2>1. events' = Tail(events) /\ UNCHANGED <<pc, queue, batch, native>>
    BY Zenon DEF Handles
  <2>2. ~Answered(c)'
    <3> SUFFICES ASSUME NEW k \in 1 .. Len(events'), events'[k].call = c PROVE FALSE
      BY Zenon DEF Answered
    <3>1. events'[k] = events[k + 1] /\ k + 1 \in 1 .. Len(events) /\ 1 < k + 1
      BY <1>1, <1>2, <2>1, TailFacts
    <3>2. ~events[1].last
      BY <1>2, <1>3, <3>1 DEF Travelled, EventIds
    <3> QED
      BY <1>2, <1>8, <3>2, Zenon
  <2>3. ~InQueue(queue, c) /\ ~InQueue(batch, c) /\ ~InNative(c) /\ pc[c] # "offer"
    BY <1>4, <1>6, <1>7, Zenon DEF OneWay
  <2>4. ~InQueue(queue, c)' /\ ~InQueue(batch, c)' /\ ~InNative(c)'
    BY <2>1, <2>3, Zenon DEF InQueue, InNative
  <2> QED
    BY <2>1, <2>2, <2>3, <2>4, Zenon DEF Reach, Travels
<1> QED
  BY <1>3, <1>5, <1>7, <1>8, Zenon

\* Of two calls with one id, an answer is of the one that is open, or one of that id
\* left before it was submitted.
LEMMA SharedId ==
  ASSUME Types, Placed, Travelled, Kept, Polled, NEW c \in Calls, NEW d \in Calls, d # c,
         Tabled(c), kind[d] \notin Sends, TableOf(d) = TableOf(c), id[d] = id[c],
         c \notin gaveUp, Clean(c), Travels(d)
  PROVE  Open(d) /\ Tabled(d)
<1>1. Tabled(d)
  BY TabledFacts, Zenon
<1>2. d \notin gaveUp
  BY Zenon DEF Clean
<1>3. Clean(d)
  BY Zenon DEF Clean
<1> QED
  BY <1>1, <1>2, <1>3, Zenon DEF Open

\* Ids are kept until the last chunk, and no kept id is given again.
LEMMA KeptStep == ASSUME Types, Placed, Travelled, Kept, WayStep PROVE Kept'
<1> USE PumpAssumption
<1>0. /\ pending \in [Tables -> [Ids -> Entries]] /\ id \in [Calls -> Ids \cup {0}]
      /\ pc \in [Calls -> Places] /\ CallTypes
  BY Zenon DEF Types, CallTypes
<1>b. /\ kind' = kind /\ (Polled' => Polled)
      /\ \A c \in Calls : id'[c] = id[c] \/ Begins(c)
      /\ \A c \in Calls : Active(c)' => Active(c) \/ kind[c] \in Sends \/ Begins(c)
      /\ \A c \in Calls : TableOf(c)' = TableOf(c) /\ TableOf(c) \in Tables
  BY StepBasics, Zenon
<1>T. \A c \in Calls : Tabled(c)' <=> Tabled(c)
  BY <1>b, Zenon DEF Tabled
<1>n. \A c \in Calls : Tabled(c) => kind[c] \notin Sends /\ TableOf(c) # "kv"
  BY TabledFacts, Zenon
<1>h. ASSUME NEW c \in Calls, Tabled(c), ~Begins(c)
      PROVE  (Open(c)' => Open(c)) /\ (Holds(c)' => Holds(c)) /\ id'[c] = id[c]
  <2>1. Open(c)' => Open(c)
    BY <1>h, <1>n, OpenStays, Zenon
  <2> QED
    BY <2>1, <1>b, <1>h, <1>n, Zenon DEF Holds
<1>k. Polled' => \A c \in Calls : KeepsId(c) /\ \A d \in Calls : Apart(c, d)
  BY <1>b, Zenon DEF Kept
<1>w. \A c \in Calls : Waiter(c) # Free /\ Tombstone # Free /\ Waiter(c) \in Entries
                       /\ \A d \in Calls : Waiter(d) = Waiter(c) => d = c
  BY EntryFacts, Zenon
<1>1. ASSUME NEW b \in Calls, Begins(b) PROVE Kept'
  <2>1. PICK i \in Ids :
          /\ pending[TableOf(b)][i] = Free
          /\ pending' = [pending EXCEPT ![TableOf(b)][i] = Waiter(b)]
          /\ id' = [id EXCEPT ![b] = i]
          /\ \A d \in Calls : kind[d] \notin Sends /\ TableOf(d) = TableOf(b)
                              /\ (Active(d) \/ kind[b] \in KVOps) => id[d] # i
    BY <1>1, Zenon DEF Begins
  <2>2. kind[b] \notin Sends /\ pc[b] = "idle"
    BY <1>1, Zenon DEF Begins
  <2>3. \A d \in Calls : id'[d] = IF d = b THEN i ELSE id[d]
    BY <1>0, <2>1, ZenonT(30)
  <2>4. \A u \in Tables, j \in Ids :
          pending'[u][j] = IF u = TableOf(b) /\ j = i THEN Waiter(b) ELSE pending[u][j]
    BY <1>0, <1>b, <1>w, <2>1, EntryChange
  <2>5. \A d \in Calls : d # b => ~Begins(d)
    <3> SUFFICES ASSUME NEW d \in Calls, d # b, Begins(d) PROVE FALSE
      BY Zenon
    <3>1. pc'[b] = "offer"
      BY <1>0, <1>1, Zenon DEF Begins
    <3>2. pc'[b] = pc[b]
      BY <1>0, Zenon DEF Begins
    <3> QED
      BY <2>2, <3>1, <3>2, Zenon
  <2>6. KVNumbered'
    <3> SUFFICES ASSUME NEW c \in Calls, NEW d \in Calls, kind[c] \in KVOps, kind[d] \in KVOps,
                        id'[c] = id'[d], id'[c] # 0
                 PROVE  c = d
      BY <1>b, Zenon DEF KVNumbered
    <3>1. kind[c] \notin Sends /\ kind[d] \notin Sends /\ TableOf(c) = "kv" /\ TableOf(d) = "kv"
      BY KindSorts, Zenon DEF TableOf
    <3> QED
      BY <2>1, <2>3, <3>1 DEF Kept, KVNumbered
  <2>7. ASSUME Polled', NEW c \in Calls PROVE KeepsId(c)'
    <3>1. SUFFICES ASSUME Tabled(c), Open(c)'
                   PROVE  pending'[TableOf(c)][id'[c]] \in {Waiter(c), Tombstone}
      BY <1>b, <1>T, Zenon DEF KeepsId
    <3>2. CASE c = b
      <4>1. pending'[TableOf(b)][i] = Waiter(b)
        BY <1>b, <2>4, Zenon
      <4> QED
        BY <2>3, <3>2, <4>1, Zenon
    <3>3. CASE c # b
      <4>1. Open(c) /\ id'[c] = id[c]
        BY <1>h, <2>5, <3>1, <3>3, Zenon
      <4>2. pending[TableOf(c)][id[c]] \in {Waiter(c), Tombstone}
        BY <1>k, <2>7, <3>1, <4>1, Zenon DEF KeepsId
      <4>3. id[c] \in Ids
        BY <1>n, <3>1, <4>1, HoldersId, Zenon DEF Holds
      <4>4. ~(TableOf(c) = TableOf(b) /\ id[c] = i)
        BY <1>w, <2>1, <4>2, Zenon
      <4>5. pending'[TableOf(c)][id[c]] = pending[TableOf(c)][id[c]]
        BY <1>b, <2>4, <4>3, <4>4, Zenon
      <4> QED
        BY <4>1, <4>2, <4>5, Zenon
    <3> QED
      BY <3>2, <3>3, Zenon
  <2>8. ASSUME Polled', NEW d \in Calls, d # b, Tabled(d), Tabled(b), Holds(d)',
               TableOf(d) = TableOf(b), id'[d] = i
        PROVE  FALSE
    <3>1. ~Begins(d)
      BY <2>5, <2>8, Zenon
    <3>2. Holds(d) /\ id[d] = i
      BY <1>h, <2>8, <3>1, Zenon
    <3>3. CASE Active(d)
      BY <1>n, <2>1, <2>8, <3>2, <3>3, Zenon
    <3>4. CASE Open(d)
      <4>1. pending[TableOf(d)][id[d]] \in {Waiter(d), Tombstone}
        BY <1>k, <2>8, <3>4, Zenon DEF KeepsId
      <4> QED
        BY <1>w, <2>1, <2>8, <3>2, <4>1, Zenon
    <3> QED
      BY <3>2, <3>3, <3>4, Zenon DEF Holds
  <2>9. ASSUME Polled', NEW c \in Calls, NEW d \in Calls PROVE Apart(c, d)'
    <3>1. SUFFICES ASSUME Tabled(c), Tabled(d), TableOf(d) = TableOf(c), id'[d] = id'[c],
                          Holds(c)', Holds(d)'
                   PROVE  c = d
      BY <1>b, <1>T, Zenon DEF Apart
    <3>2. CASE c = b \/ d = b
      BY <2>3, <2>8, <2>9, <3>1, <3>2, Zenon
    <3>3. CASE c # b /\ d # b
      <4>1. Holds(c) /\ Holds(d) /\ id[c] = id[d]
        BY <1>h, <2>5, <3>1, <3>3, Zenon
      <4> QED
        BY <1>k, <2>9, <3>1, <4>1, Zenon DEF Apart
    <3> QED
      BY <3>2, <3>3, Zenon
  <2> QED
    BY <2>6, <2>7, <2>9, Zenon DEF Kept
<1>2. ASSUME \A c \in Calls : ~Begins(c),
             ASSUME Polled', NEW c \in Calls, Tabled(c), Open(c), Open(c)', id[c] \in Ids,
                    pending[TableOf(c)][id[c]] \in {Waiter(c), Tombstone}
             PROVE  pending'[TableOf(c)][id[c]] \in {Waiter(c), Tombstone}
      PROVE  Kept'
  <2>1. KVNumbered'
    BY <1>2, <1>b, Zenon DEF Kept, KVNumbered
  <2>2. ASSUME Polled', NEW c \in Calls PROVE KeepsId(c)'
    <3>1. SUFFICES ASSUME Tabled(c), Open(c)'
                   PROVE  pending'[TableOf(c)][id'[c]] \in {Waiter(c), Tombstone}
      BY <1>b, <1>T, Zenon DEF KeepsId
    <3>2. Open(c) /\ id'[c] = id[c]
      BY <1>2, <1>h, <3>1, Zenon
    <3>3. pending[TableOf(c)][id[c]] \in {Waiter(c), Tombstone}
      BY <1>k, <2>2, <3>1, <3>2, Zenon DEF KeepsId
    <3>4. id[c] \in Ids
      BY <1>n, <3>1, <3>2, HoldersId, Zenon DEF Holds
    <3> QED
      BY <1>2, <2>2, <3>1, <3>2, <3>3, <3>4, Zenon
  <2>3. ASSUME Polled', NEW c \in Calls, NEW d \in Calls PROVE Apart(c, d)'
    <3>1. SUFFICES ASSUME Tabled(c), Tabled(d), TableOf(d) = TableOf(c), id'[d] = id'[c],
                          Holds(c)', Holds(d)'
                   PROVE  c = d
      BY <1>b, <1>T, Zenon DEF Apart
    <3>2. Holds(c) /\ Holds(d) /\ id[c] = id[d]
      BY <1>h, <1>2, <3>1, Zenon
    <3> QED
      BY <1>k, <2>3, <3>1, <3>2, Zenon DEF Apart
  <2> QED
    BY <2>1, <2>2, <2>3, Zenon DEF Kept
<1>a. ASSUME NEW c \in Calls, NEW e \in Calls, Polled', Tabled(c), Open(c), Active(e),
             kind[e] \notin Sends, TableOf(e) = TableOf(c), id[e] = id[c]
      PROVE  e = c
  <2>1. Tabled(e)
    BY <1>a, <1>n, TabledFacts, Zenon
  <2> QED
    BY <1>a, <1>k, <2>1, Zenon DEF Apart, Holds
<1>3. ASSUME NEW e \in Calls, GivesUp(e), \A c \in Calls : ~Begins(c) PROVE Kept'
  <2>1. ASSUME Polled', NEW c \in Calls, Tabled(c), Open(c), Open(c)', id[c] \in Ids,
               pending[TableOf(c)][id[c]] \in {Waiter(c), Tombstone}
        PROVE  pending'[TableOf(c)][id[c]] \in {Waiter(c), Tombstone}
    <3>1. e # c /\ Active(e)
      BY <1>3, <2>1, Zenon DEF GivesUp, Open, Active
    <3>2. CASE kind[e] \in Sends
      BY <1>3, <2>1, <3>2, Zenon DEF GivesUp
    <3>3. CASE kind[e] \notin Sends
      <4>1. pending' = [pending EXCEPT ![TableOf(e)][id[e]] = Free]
        BY <1>3, <3>3, Zenon DEF GivesUp, Removed
      <4>2. ~(TableOf(c) = TableOf(e) /\ id[c] = id[e])
        BY <1>a, <2>1, <3>1, <3>3, ZenonT(30)
      <4>3. pending'[TableOf(c)][id[c]] = pending[TableOf(c)][id[c]]
        BY <1>0, <1>b, <2>1, <4>1, <4>2, EntryFacts, EntryChange
      <4> QED
        BY <2>1, <4>3, Zenon
    <3> QED
      BY <3>2, <3>3, Zenon
  <2> QED
    BY <1>2, <1>3, <2>1, Zenon
<1>4. ASSUME NEW e \in Calls, Leaves(e), \A c \in Calls : ~Begins(c) PROVE Kept'
  <2>1. ASSUME Polled', NEW c \in Calls, Tabled(c), Open(c), Open(c)', id[c] \in Ids,
               pending[TableOf(c)][id[c]] \in {Waiter(c), Tombstone}
        PROVE  pending'[TableOf(c)][id[c]] \in {Waiter(c), Tombstone}
    <3>1. Active(e) /\ kind[e] \notin Sends
      BY <1>4, Zenon DEF Leaves, Active, Placed, AtPlace
    <3>2. CASE pending' = pending
      BY <2>1, <3>2, Zenon
    <3>3. CASE kind[e] \in KVOps /\ pending' = Removed(e)
      <4>1. TableOf(e) = "kv" /\ TableOf(c) # "kv"
        BY <2>1, <3>3, TabledFacts, Zenon
      <4>2. pending'[TableOf(c)][id[c]] = pending[TableOf(c)][id[c]]
        BY <1>0, <1>b, <2>1, <3>3, <4>1, EntryFacts, EntryChange, Zenon DEF Removed
      <4> QED
        BY <2>1, <4>2
    <3>4. CASE pending' = [pending EXCEPT ![TableOf(e)][id[e]] = Tombstone]
      <4>1. pending'[TableOf(c)][id[c]] =
              IF TableOf(c) = TableOf(e) /\ id[c] = id[e] THEN Tombstone
              ELSE pending[TableOf(c)][id[c]]
        <5>1. TableOf(c) \in Tables /\ TableOf(e) \in Tables /\ id[c] \in Ids
          BY <1>b, <2>1, Zenon
        <5>2. [pending EXCEPT ![TableOf(e)][id[e]] = Tombstone][TableOf(c)][id[c]] =
                IF TableOf(c) = TableOf(e) /\ id[c] = id[e] THEN Tombstone
                ELSE pending[TableOf(c)][id[c]]
          BY <1>0, <5>1, EntryFacts, EntryChange
        <5> QED
          BY <3>4, <5>2
      <4> QED
        BY <2>1, <4>1, ZenonT(30)
    <3> QED
      BY <1>4, <3>2, <3>3, <3>4, Zenon DEF Leaves, Abandoned
  <2> QED
    BY <1>2, <1>4, <2>1, Zenon
<1>5. ASSUME Handles, \A c \in Calls : ~Begins(c) PROVE Kept'
  <2>1. ASSUME Polled', NEW c \in Calls, Tabled(c), Open(c), Open(c)', id[c] \in Ids,
               pending[TableOf(c)][id[c]] \in {Waiter(c), Tombstone}
        PROVE  pending'[TableOf(c)][id[c]] \in {Waiter(c), Tombstone}
    <3>1. PICK e \in Calls :
            /\ e = Head(events).call /\ id[e] = Head(events).id /\ id[e] \in Ids
            /\ kind[e] \notin Sends /\ Travels(e)
            /\ Head(events).last => ~Reach(e)'
      BY <1>5, HeadFacts, Zenon
    <3>2. CASE ~Head(events).last
      BY <1>5, <2>1, <3>2, Zenon DEF Handles
    <3>3. CASE Head(events).last
      <4>1. pending' = [pending EXCEPT ![TableOf(e)][id[e]] = Free]
        BY <1>5, <3>1, <3>3, Zenon DEF Handles
      <4>2. e # c
        BY <2>1, <3>1, <3>3, Zenon DEF Open, Reach
      <4>3. ~(TableOf(c) = TableOf(e) /\ id[c] = id[e])
        <5>1. SUFFICES ASSUME TableOf(c) = TableOf(e), id[c] = id[e] PROVE FALSE
          BY Zenon
        <5>2. Polled
          BY <1>b, <2>1, Zenon
        <5>3. Open(e) /\ Tabled(e)
          BY <2>1, <3>1, <4>2, <5>1, <5>2, SharedId, ZenonT(30) DEF Open
        <5> QED
          BY <1>k, <2>1, <4>2, <5>1, <5>3, Zenon DEF Apart, Holds
      <4>4. pending'[TableOf(c)][id[c]] = pending[TableOf(c)][id[c]]
        BY <1>0, <1>b, <2>1, <4>1, <4>3, EntryFacts, EntryChange
      <4> QED
        BY <2>1, <4>4, Zenon
    <3> QED
      BY <3>2, <3>3, Zenon
  <2> QED
    BY <1>2, <1>5, <2>1, Zenon
<1>6. ASSUME \A c \in Calls : ~Begins(c),
             \/ \E c \in Calls : Moves(c) \/ Offers(c)
             \/ Takes \/ Submits \/ Requeues \/ Answers \/ Signals \/ Delivers \/ Polls
      PROVE  Kept'
  <2>1. Polled' => pending' = pending
    BY <1>6, Zenon DEF Moves, Offers, Takes, Submits, Requeues, Answers, Signals, Delivers, Polls
  <2> QED
    BY <1>2, <1>6, <2>1, Zenon
<1> QED
  BY <1>1, <1>3, <1>4, <1>5, <1>6, Zenon DEF WayStep

\* A result is sent to the call it answers, unless ids were mixed up.
LEMMA OwnStep == ASSUME Types, Placed, Travelled, Kept, Own, WayStep PROVE Own'
<1> USE PumpAssumption
<1>0. chan \in [Calls -> Seq(Results)] /\ pending \in [Tables -> [Ids -> Entries]]
      /\ event \in Events
  BY Zenon DEF Types, CallTypes, ChannelTypes, NativeTypes
<1>b. /\ kind' = kind
      /\ \A c \in Calls : TableOf(c)' = TableOf(c) /\ TableOf(c) \in Tables
  BY StepBasics, Zenon
<1>c. \A c \in Calls : ~Begins(c) /\ ~Clean(c) => ~Clean(c)'
  BY CleanStays, ZenonT(30)
<1>p. \A c \in Calls : pc[c] # "idle" => ~Begins(c) /\ pc'[c] # "idle"
  <2>1. pc \in [Calls -> Places]
    BY Zenon DEF Types, CallTypes
  <2> QED
    BY <2>1, ZenonT(30) DEF WayStep, Begins, Moves, Offers, GivesUp, Leaves, Takes, Submits,
       Requeues, Answers,
      Signals, Handles, Delivers, Polls
<1>o. \A c \in Calls : \A k \in 1 .. Len(chan[c]) : Rightly(chan[c][k], c)
  BY Zenon DEF Own
<1>i. \A c \in Calls : Begins(c) => chan[c] = << >>
  BY Zenon DEF Begins, Placed, AtPlace
<1>1. ASSUME NEW c \in Calls, chan'[c] = chan[c]
      PROVE  \A k \in 1 .. Len(chan'[c]) : Rightly(chan[c][k], c)'
  BY <1>1, <1>c, <1>i, <1>o DEF Rightly
<1>2. \A c \in Calls : \A k \in 1 .. Len(chan'[c]) : Rightly(chan[c][k], c)'
  <2>1. CASE chan' = chan
    BY <1>1, <2>1, Zenon
  <2>2. CASE \E d \in Calls : Leaves(d)
    <3>1. PICK d \in Calls : Leaves(d)
      BY <2>2, Zenon
    <3>2. CASE chan[d] # << >> /\ chan' = [chan EXCEPT ![d] = Tail(chan[d])]
      <4>1. \A c \in Calls : c # d => chan'[c] = chan[c]
        BY <1>0, <3>2, Zenon
      <4>2. chan'[d] = Tail(chan[d]) /\ chan[d] \in Seq(Results)
        BY <1>0, <3>2, Zenon
      <4>3. ~Begins(d)
        BY <1>i, <3>2, Zenon
      <4>4. \A k \in 1 .. Len(chan'[d]) :
              chan'[d][k] = chan[d][k + 1] /\ k + 1 \in 1 .. Len(chan[d])
        <5>1. chan[d] # << >>
          BY <3>2, Zenon
        <5>2. /\ Len(Tail(chan[d])) = Len(chan[d]) - 1 /\ Len(chan[d]) \in Nat \ {0}
              /\ \A k \in 1 .. Len(Tail(chan[d])) : Tail(chan[d])[k] = chan[d][k + 1]
          BY <4>2, <5>1, TailFacts
        <5> QED
          BY <4>2, <5>2
      <4>5. \A k \in 1 .. Len(chan'[d]) : Rightly(chan[d][k], d)'
        BY <1>c, <1>o, <4>3, <4>4, Zenon DEF Rightly
      <4> QED
        BY <1>1, <4>1, <4>5, Zenon
    <3> QED
      BY <2>1, <3>1, <3>2, Zenon DEF Leaves
  <2>3. CASE Delivers
    <3>1. PICK d \in Calls : d = target
      BY <2>3, Zenon DEF Delivers, Own
    <3>2. event \in Results /\ pc[d] # "idle" /\ Rightly(event, d)
          /\ chan' = [chan EXCEPT ![d] = Append(chan[d], event)]
      BY <2>3, <3>1, Zenon DEF Delivers, Own
    <3>3. \A c \in Calls : c # d => chan'[c] = chan[c]
      BY <1>0, <3>2, Zenon
    <3>4. chan'[d] = Append(chan[d], event) /\ chan[d] \in Seq(Results)
      BY <1>0, <3>2, Zenon
    <3>5. ~Begins(d)
      BY <1>p, <3>2, Zenon
    <3>6. ASSUME NEW k \in 1 .. Len(chan'[d])
          PROVE  (k \in 1 .. Len(chan[d]) /\ chan'[d][k] = chan[d][k]) \/ chan'[d][k] = event
      BY <3>2, <3>4, AppendFacts
    <3>7. \A k \in 1 .. Len(chan'[d]) : Rightly(chan[d][k], d)'
      BY <1>c, <1>o, <3>2, <3>5, <3>6, Zenon DEF Rightly
    <3> QED
      BY <1>1, <3>3, <3>7, Zenon
  <2>4. chan' = chan \/ (\E d \in Calls : Leaves(d)) \/ Delivers
    BY Zenon DEF WayStep, Begins, Moves, Offers, GivesUp, Takes, Submits, Requeues, Answers,
       Signals,
      Handles, Polls
  <2> QED
    BY <2>1, <2>2, <2>3, <2>4, Zenon
<1>3. ASSUME poller' = "deliver"
      PROVE  \E c \in Calls : target' = c /\ event' \in Results /\ pc'[c] # "idle"
                              /\ Rightly(event, c)'
  <2>1. CASE poller = "deliver" /\ UNCHANGED <<event, target>>
    <3>1. PICK c \in Calls : target = c /\ event \in Results /\ pc[c] # "idle" /\ Rightly(event, c)
      BY <2>1, Zenon DEF Own
    <3>2. Rightly(event, c)'
      BY <2>1, <3>1, <1>c, <1>p, Zenon DEF Rightly
    <3> QED
      BY <2>1, <3>1, <3>2, <1>p, Zenon
  <2>2. CASE Handles
    <3>1. PICK d \in Calls :
            /\ d = Head(events).call /\ id[d] = Head(events).id /\ id[d] \in Ids
            /\ kind[d] \notin Sends /\ Travels(d)
      BY <2>2, HeadFacts, Zenon
    <3>2. event' = Head(events) /\ poller = "poll" /\ UNCHANGED pc
          /\ target' = pending[TableOf(d)][id[d]].call /\ pending[TableOf(d)][id[d]].call # NoCall
      BY <2>2, <1>3, <3>1, Zenon DEF Handles
    <3>3. pending[TableOf(d)][id[d]] \in Entries
      <4>1. TableOf(d) \in Tables /\ id[d] \in Ids /\ pending \in [Tables -> [Ids -> Entries]]
        BY <1>0, <1>b, <3>1, Zenon
      <4> QED
        BY <4>1, ZenonT(30)
    <3>4. PICK c \in Calls : c = target' /\ pending[TableOf(d)][id[d]] = Waiter(c)
      BY <3>2, <3>3, EntryFacts, Zenon
    <3>5. TableOf(c) = TableOf(d) /\ id[c] = id[d] /\ c \notin gaveUp /\ pc[c] # "idle"
          /\ kind[c] \notin Sends
      <4>1. TableOf(d) \in Tables /\ id[d] \in Ids /\ HasEntry(c)
        BY <1>b, <3>1, Zenon DEF Placed
      <4> QED
        BY <3>4, <4>1, Zenon DEF HasEntry
    <3>6. event' \in Results
      BY <2>2, <3>2, TailFacts, EventFacts DEF Handles, Types, NativeTypes
    <3>7. d = c \/ ~Clean(c)
      <4>1. SUFFICES ASSUME d # c, Clean(c) PROVE FALSE
        BY Zenon
      <4>2. CASE TableOf(c) = "kv"
        <5>1. kind[c] \in KVOps /\ kind[d] \in KVOps /\ id[c] # 0
          BY <3>1, <3>5, <4>2, TabledFacts, Zenon
        <5> QED
          BY <3>5, <4>1, <5>1, Zenon DEF Kept, KVNumbered
      <4>3. CASE TableOf(c) # "kv"
        <5>1. Polled /\ Tabled(c)
          BY <3>2, <3>5, <4>3, TabledFacts, Zenon DEF Polled
        <5>2. Open(d) /\ Tabled(d)
          BY <3>1, <3>5, <4>1, <5>1, SharedId, Zenon
        <5>3. pending[TableOf(d)][id[d]] \in {Waiter(d), Tombstone}
          BY <5>1, <5>2, Zenon DEF Kept, KeepsId
        <5> QED
          BY <3>4, <4>1, <5>3, EntryFacts, Zenon
      <4> QED
        BY <4>2, <4>3, Zenon
    <3>8. Rightly(event, c)'
      BY <1>c, <1>p, <3>1, <3>2, <3>5, <3>7, Zenon DEF Rightly
    <3> QED
      BY <3>2, <3>4, <3>5, <3>6, <3>8, Zenon
  <2>3. (poller = "deliver" /\ UNCHANGED <<event, target>>) \/ Handles
    BY <1>3, Zenon DEF WayStep, Begins, Moves, Offers, GivesUp, Leaves, Takes, Submits, Requeues,
       Answers,
      Signals, Delivers, Polls
  <2> QED
    BY <2>1, <2>2, <2>3, Zenon
<1> QED
  BY <1>2, <1>3, Zenon DEF Own

USE DEF vars, callVars, queueVars, loopVars, nativeVars, pollVars, workVars, stopVars, pumpVars,
  endRest, nativeRest, workRest

-----------------------------------------------------------------------------
(* The end of the worker and of the pump *)

\* No SQLite call begins once the session is closing.
LEMMA SQLiteStep ==
  ASSUME Types, [Next]_vars, session # "open", ActiveSQLite = {}
  PROVE  ActiveSQLite' = {}
<1> USE PumpAssumption
<1>0. pc \in [Calls -> Places] /\ kind \in [Calls -> AllKinds]
  BY Zenon DEF Types, CallTypes
<1>d. \A d \in Calls : kind[d] \in SQLiteOps => ~Active(d)
  BY Zenon DEF ActiveSQLite
<1>g. ASSUME kind' = kind, \A d \in Calls : kind[d] \in SQLiteOps => pc'[d] = pc[d]
                                                                  \/ pc'[d] = "returned"
      PROVE  ActiveSQLite' = {}
  BY <1>d, <1>g, Zenon DEF ActiveSQLite, Active
<1>1. ASSUME NEW c \in Calls, BeginCall(c) \/ Refuse(c) \/ CallStep(c) \/ GiveUp(c)
      PROVE  ActiveSQLite' = {}
  <2>1. kind' = kind
    BY <1>1, CallEffect, Zenon
  <2>2. \A d \in Calls : d # c => pc'[d] = pc[d]
    <3>1. BeginCall(c) => \A d \in Calls : d # c => pc'[d] = pc[d]
      BY <1>0, Zenon DEF BeginCall, BeginOperation, BeginKV, BeginSQLite, BeginSend, Accepted, Goto
    <3>2. Refuse(c) \/ GiveUp(c) => \A d \in Calls : d # c => pc'[d] = pc[d]
      BY <1>0, Zenon DEF Refuse, GiveUp, SubmitCancelled, WaitCancelled, CancelWait, SettleTimeout,
        Unsubmitted, StopWaiting, Unsettled, Goto
    <3>3. CallStep(c) => \A d \in Calls : d # c => pc'[d] = pc[d]
      BY <1>0, Zenon DEF CallStep, Offer, SubmitInterrupted, SubmitFailed, Submitted,
         SubmitWebSocket,
        SubmitHTTP, EndManagedWork, Backoff, ReceiveResult, ReceiveChunk, WaitClosed, OfferCancel,
        CancelSubmitted, Settled, CancelFailed, Unsubmitted, StopWaiting, Unsettled, Goto
    <3> QED
      BY <1>1, <3>1, <3>2, <3>3, Zenon
  <2>3. kind[c] \in SQLiteOps => pc'[c] = pc[c] \/ pc'[c] = "returned"
    <3> SUFFICES ASSUME kind[c] \in SQLiteOps PROVE pc'[c] = pc[c] \/ pc'[c] = "returned"
      BY Zenon
    <3>1. pc[c] \in {"idle", "returned"}
      BY <1>d, Zenon DEF Active
    <3>2. ~BeginCall(c)
      BY KindSorts, Zenon DEF BeginCall, BeginOperation, BeginKV, BeginSQLite, BeginSend, MayCall
    <3>3. Refuse(c) => pc'[c] = "returned"
      BY <1>0, Zenon DEF Refuse, Goto
    <3>4. ~CallStep(c)
      BY <3>1, Zenon DEF CallStep, Offer, SubmitInterrupted, SubmitFailed, Submitted,
         SubmitWebSocket,
        SubmitHTTP, EndManagedWork, Backoff, ReceiveResult, ReceiveChunk, WaitClosed, OfferCancel,
        CancelSubmitted, Settled, CancelFailed, StopWaiting
    <3>5. ~GiveUp(c)
      BY <3>1, Zenon DEF GiveUp, SubmitCancelled, WaitCancelled, CancelWait, SettleTimeout,
         StopWaiting
    <3> QED
      BY <1>1, <3>2, <3>3, <3>4, <3>5, Zenon
  <2> QED
    BY <1>g, <2>1, <2>2, <2>3, Zenon
<1>2. ASSUME LoopStep \/ NativeStep \/ RequestStop \/ PollFails \/ Terminated \/ UNCHANGED vars
      PROVE  ActiveSQLite' = {}
  <2>1. UNCHANGED <<kind, pc>>
    BY <1>2, Zenon DEF LoopStep, TakeBatch, SubmitBatch, RejectQueued, NativeStep, NativeAnswer,
      NativeStopActor, NativeStopped, RequestStop, PollFails, Terminated
  <2> QED
    BY <1>g, <2>1, Zenon
<1>3. ASSUME PollStep \/ EndStep PROVE ActiveSQLite' = {}
  <2>1. UNCHANGED <<kind, pc>>
    BY <1>3, Zenon DEF PollStep, PollWorkerError, PollShutdown, HandleResult, Deliver,
       HandleActorStop,
      HandleStopped, NextEvent, Dispatch, EndStep, Abort, AwaitWorkers, StopSubmissions,
      FailWaiters, CloseRunner, CloseDone
  <2> QED
    BY <1>g, <2>1, Zenon
<1>4. ASSUME WorkerStep PROVE ActiveSQLite' = {}
  <2>1. UNCHANGED <<kind, pc>>
    BY <1>4, Zenon DEF WorkerStep, BeginStop, FinishStop, OfferStopResult, LeaveStop, WorkerDone
  <2> QED
    BY <1>g, <2>1, Zenon
<1> QED
  BY <1>1, <1>2, <1>3, <1>4, Zenon DEF Next

\* The worker ends after its SQLite calls, and the pump after the worker and submitLoop.
LEMMA EndedStep == ASSUME Types, Ended, [Next]_vars PROVE Ended'
<1>q. session # "open" /\ ActiveSQLite = {} => ActiveSQLite' = {}
  BY SQLiteStep, Zenon
<1>o. session = "open" => worker = "running"
  BY Zenon DEF Ended
<1>1. ASSUME UNCHANGED <<worker, session, poller, loop, runner>> PROVE Ended'
  BY <1>1, <1>q, Zenon DEF Ended
<1>2. ASSUME NEW c \in Calls, BeginCall(c) \/ Refuse(c) \/ CallStep(c) \/ GiveUp(c) PROVE Ended'
  BY <1>1, <1>2, CallEffect, Zenon
<1>3. ASSUME LoopStep PROVE Ended'
  <2>1. UNCHANGED <<worker, session, poller, runner>> /\ loop # "exited"
    BY <1>3, Zenon DEF LoopStep, TakeBatch, SubmitBatch, RejectQueued
  <2> QED
    BY <1>q, <2>1, Zenon DEF Ended
<1>4. ASSUME NativeStep \/ RequestStop \/ Terminated \/ UNCHANGED vars PROVE Ended'
  <2>1. UNCHANGED <<worker, session, poller, loop, runner>>
    BY <1>4, Zenon DEF NativeStep, NativeAnswer, NativeStopActor, NativeStopped, RequestStop,
       Terminated
  <2> QED
    BY <1>1, <2>1, Zenon
<1>5. ASSUME PollStep \/ PollFails PROVE Ended'
  <2>1. UNCHANGED <<worker, session, loop, runner>>
        /\ poller' \in {"poll", "abort", "dispatch", "deliver"}
        /\ poller \in {"poll", "dispatch", "deliver"}
    BY <1>5, Zenon DEF PollStep, PollFails, PollWorkerError, PollShutdown, HandleResult, Deliver,
      HandleActorStop, HandleStopped, NextEvent, Dispatch
  <2> QED
    BY <1>q, <2>1, Zenon DEF Ended
<1>6. ASSUME EndStep PROVE Ended'
  <2>1. Abort => Ended'
    BY <1>q, <1>o, Zenon DEF Abort, Ended
  <2>2. AwaitWorkers => Ended'
    BY <1>q, Zenon DEF AwaitWorkers, Ended
  <2>3. StopSubmissions \/ FailWaiters => Ended'
    BY <1>q, Zenon DEF StopSubmissions, FailWaiters, Ended
  <2>4. CloseRunner \/ CloseDone => Ended'
    BY <1>q, Zenon DEF CloseRunner, CloseDone, Ended
  <2> QED
    BY <1>6, <2>1, <2>2, <2>3, <2>4, Zenon DEF EndStep
<1>7. ASSUME WorkerStep PROVE Ended'
  <2>1. UNCHANGED <<poller, loop, runner>> /\ worker # "gone" /\ UNCHANGED <<kind, pc>>
    BY <1>7, Zenon DEF WorkerStep, BeginStop, FinishStop, OfferStopResult, LeaveStop, WorkerDone
  <2>2. ActiveSQLite' = ActiveSQLite
    BY <2>1, Zenon DEF ActiveSQLite, Active
  <2>3. /\ session' # "open"
        /\ worker' \in {"offer", "waiting", "gone"} => session' = "done" /\ ActiveSQLite = {}
        /\ worker' = "leaving" => session' = "done"
    BY <1>7, Zenon DEF WorkerStep, BeginStop, FinishStop, OfferStopResult, LeaveStop, WorkerDone,
       Ended
  <2> QED
    BY <2>1, <2>2, <2>3, Zenon DEF Ended
<1> QED
  BY <1>2, <1>3, <1>4, <1>5, <1>6, <1>7, Zenon DEF Next

-----------------------------------------------------------------------------
(* The invariant *)
\* Before the first call there is nothing on its way.
LEMMA Initially == Init => IInv
<1> SUFFICES ASSUME Init PROVE IInv
  BY Zenon
<1> USE PumpAssumption
<1>1. CallTypes /\ ChannelTypes
  <2>1. \A c \in Calls : ChannelSize(c) \in Nat
    BY Zenon DEF ChannelSize
  <2> QED
    BY <2>1, EntryFacts DEF Init, CallTypes, ChannelTypes, Places
<1>2. QueueTypes /\ ReplyTypes /\ LoopTypes
  BY DEF Init, QueueTypes, ReplyTypes, LoopTypes
<1>3. NativeTypes /\ PlaceTypes
  BY EventFacts DEF Init, NativeTypes, PlaceTypes
<1>4. FlagTypes
  BY Zenon DEF Init, FlagTypes
<1>5. Placed
  BY EntryFacts, Zenon DEF Init, Placed, AtPlace, HasEntry, Active
<1>6. \A c \in Calls : ~Travels(c) /\ ~Active(c) /\ pc[c] = "idle"
  BY SMTT(30) DEF Init, Travels, InQueue, InNative, Answered, Active
<1>7. Travelled
  BY <1>6 DEF Init, Travelled, OneWay, Travels, Distinct, NativeIds, EventIds
<1>8. \A c \in Calls : ~Open(c) /\ ~Holds(c)
  BY <1>6, Zenon DEF Open, Holds
<1>9. Kept
  BY <1>8, Zenon DEF Init, Kept, KVNumbered, KeepsId, Apart
<1>10. Own
  BY DEF Init, Own
<1>11. Ended
  BY Zenon DEF Init, Ended
<1> QED
  BY <1>1, <1>2, <1>3, <1>4, <1>5, <1>7, <1>9, <1>10, <1>11, Zenon DEF IInv, Types

\* The invariant holds in every state.
LEMMA Invariance == Spec => []IInv
<1>1. IInv /\ [Next]_vars => IInv'
  <2> SUFFICES ASSUME IInv, [Next]_vars PROVE IInv'
    BY Zenon
  <2>1. Types /\ Placed /\ Travelled /\ Kept /\ Own /\ Ended
    BY Zenon DEF IInv
  <2>2. WayStep
    BY <2>1, WaySteps, Zenon
  <2> QED
    BY <2>1, <2>2, TypeStep, PlacedStep, TravelledStep, KeptStep, OwnStep, EndedStep, Zenon
    DEF IInv
<1> QED
  BY <1>1, Initially, PTL DEF Spec

\* The tables, queues and channels keep their types and capacities: submitQueue, the
\* batches and the result channels never hold more than they may, and an entry of a table
\* is the channel of the call that has its id.
THEOREM PumpTypes == Spec => []TypeOK
<1>1. IInv => TypeOK
  <2> SUFFICES ASSUME IInv PROVE TypeOK
    BY Zenon
  <2>0. CallTypes /\ ChannelTypes /\ QueueTypes /\ ReplyTypes /\ LoopTypes /\ NativeTypes
        /\ PlaceTypes /\ FlagTypes /\ Placed
    BY Zenon DEF IInv, Types
  <2>1. ASSUME NEW t \in Tables, NEW i \in Ids
        PROVE  \/ pending[t][i] \in {Free, Tombstone}
               \/ \E c \in Calls : pending[t][i] = Waiter(c) /\ TableOf(c) = t /\ id[c] = i
    <3>1. pending[t][i] \in Entries
      BY <2>0, Zenon DEF CallTypes
    <3>2. ASSUME NEW c \in Calls, pending[t][i] = Waiter(c) PROVE TableOf(c) = t /\ id[c] = i
      BY <2>0, <3>2, Zenon DEF Placed, HasEntry
    <3> QED
      BY <3>1, <3>2, Zenon DEF Entries
  <2>2. {stopMail, workerErrors, stopSub, done} \subseteq BOOLEAN
    BY <2>0, Zenon DEF FlagTypes
  <2>3. kind \in Kinds /\ id \in [Calls -> Ids \cup {0}] /\ gaveUp \subseteq Calls
        /\ pc \in [Calls -> {"idle", "offer", "waiting", "await", "cancelOffer",
                             "cancelWaiting", "settle", "returned"}]
    BY <2>0, Zenon DEF CallTypes, Places
  <2>4. \A c \in Calls : chan[c] \in Seq(Results) /\ Len(chan[c]) <= ChannelSize(c)
    BY <2>0, Zenon DEF ChannelTypes
  <2> QED
    BY <2>0, <2>1, <2>2, <2>3, <2>4, Zenon
    DEF TypeOK, QueueTypes, ReplyTypes, LoopTypes, NativeTypes, PlaceTypes
<1> QED
  BY <1>1, Invariance, PTL

\* A call is only ever sent the answer to another call of its id when some call of that id
\* was removed from its table while it was being submitted: abandoned ids keep their
\* tombstone until the last chunk, in whatever order calls leave and ids return.
THEOREM ResultsAreOwn == Spec => []OwnResult
<1>1. IInv => OwnResult
  BY Zenon DEF IInv, Own, Rightly, Clean, OwnResult
<1> QED
  BY <1>1, Invariance, PTL

\* Runner.Close frees the native handle after submitLoop, the worker and the SQLite calls.
THEOREM HandleIsClosedLast == Spec => []HandleClosedLast
<1>1. IInv => HandleClosedLast
  BY Zenon DEF IInv, Ended, HandleClosedLast
<1> QED
  BY <1>1, Invariance, PTL

\* ActorStopResult is submitted after the last SQLite call of the generation has returned.
THEOREM StopResultIsLast == Spec => []StopResultAfterSQLite
<1>1. IInv => StopResultAfterSQLite
  BY Zenon DEF IInv, Ended, StopResultAfterSQLite
<1> QED
  BY <1>1, Invariance, PTL
=============================================================================
