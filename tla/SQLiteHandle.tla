---------------------------- MODULE SQLiteHandle ----------------------------
(***************************************************************************)
(* The SQLite handle of one actor generation (rivet/sqlite.go): statements *)
(* and transactions of the actor's goroutines, the fence that Sleep puts   *)
(* up, and the close by Destroy and by the stop (rivet/actor.go), over the *)
(* client of the Actor Runtime Socket (internal/sqlitesocket/client.go).   *)
(*                                                                         *)
(* Every process makes one request at a time.  Ids are any that the        *)
(* pending table does not hold, as after the 32-bit counter wrapped; a     *)
(* message remembers, as the wire does not, which process waits for it.    *)
(***************************************************************************)
EXTENDS Naturals, FiniteSets

CONSTANTS
  Users,     \* goroutines that use the handle
  Sleeper,   \* the goroutines that call Context.Sleep, one after another
  Destroyer, \* the goroutine that calls Context.Destroy
  Stopper,   \* the actor worker, which runs Stop
  Nobody,    \* a free mutex, a free id
  Dead,      \* a tombstone in the pending table
  Ids,       \* request ids
  MaxOps,    \* bound: operations that are admitted
  MaxSleeps, \* bound: calls of Sleep
  MaxTx,     \* bound: transactions that are begun
  MayBreak   \* whether the connection may fail by itself

Closers == {Destroyer, Stopper}
Procs == Users \cup {Sleeper} \cup Closers
Txs == 1 .. MaxTx

ASSUME HandleAssumption ==
  /\ Users \cap ({Sleeper} \cup Closers) = {} /\ Sleeper \notin Closers
  /\ Destroyer # Stopper /\ Nobody # Dead
  /\ Procs \cap {Nobody, Dead} = {}
  /\ MaxOps \in Nat /\ MaxSleeps \in Nat /\ MaxTx \in Nat /\ MayBreak \in BOOLEAN

VARIABLES
  \* DB
  closing, sleepPrepared, active, beginning,
  transactions,  \* registered transactions
  terminal,      \* transactions whose terminal flag is set
  begun,         \* transactions begun so far
  given,         \* transactions Begin has returned
  sleepIntentMu,
  closer,        \* who runs closeOnce; Nobody before
  closeDone,     \* the channel closeDone is closed
  \* Context
  lifecycleMu, lifecycleStopping, destroyRequested,
  asleep,        \* core has accepted a sleep intent
  \* processes
  pc, tx, todo,
  sleeps,        \* calls of Sleep so far
  ops,           \* operations admitted so far
  \* Client
  phase,         \* "none", "write", "await", "ok" or "error" of the request
  what, id, response, pending,
  closed,        \* the client is closed
  server,        \* requests the native side has not answered
  \* history
  ended          \* how often each transaction was sent a commit or rollback

dbVars == <<closing, sleepPrepared, active, beginning, transactions, terminal,
            begun, given, closer, closeDone>>
contextVars == <<sleepIntentMu, lifecycleMu, lifecycleStopping, destroyRequested, asleep>>
procVars == <<pc, tx, todo, sleeps, ops>>
requestVars == <<phase, what, ended>>
clientVars == <<id, response, pending, closed, server>>
vars == <<dbVars, contextVars, procVars, requestVars, clientVars>>

Whats == {"read", "write", "begin", "commit", "rollback"}

Init ==
  /\ closing = FALSE /\ sleepPrepared = FALSE /\ active = 0 /\ beginning = FALSE
  /\ transactions = {} /\ terminal = {} /\ begun = 0 /\ given = {}
  /\ closer = Nobody /\ closeDone = FALSE
  /\ sleepIntentMu = Nobody /\ lifecycleMu = Nobody
  /\ lifecycleStopping = FALSE /\ destroyRequested = FALSE /\ asleep = FALSE
  /\ pc = [p \in Procs |-> "idle"] /\ tx = [p \in Procs |-> 0]
  /\ todo = [p \in Procs |-> {}] /\ ops = 0 /\ sleeps = 0
  /\ phase = [p \in Procs |-> "none"] /\ what = [p \in Procs |-> "read"]
  /\ ended = [t \in Txs |-> 0]
  /\ id = [p \in Procs |-> 0] /\ response = [p \in Procs |-> Nobody]
  /\ pending = [i \in Ids |-> Nobody] /\ closed = FALSE /\ server = {}

-----------------------------------------------------------------------------
(* Client.request.                                                         *)

Goto(p, place) == pc' = [pc EXCEPT ![p] = place]

\* A call of the backend: the process goes on from "place" with its result.
Request(p, w, t, place) ==
  /\ Goto(p, place)
  /\ tx' = [tx EXCEPT ![p] = t]
  /\ phase' = [phase EXCEPT ![p] = "write"]
  /\ what' = [what EXCEPT ![p] = w]
  /\ ended' = IF w \in {"commit", "rollback"} THEN [ended EXCEPT ![t] = @ + 1] ELSE ended
  /\ id' = [id EXCEPT ![p] = 0]
  /\ response' = [response EXCEPT ![p] = Nobody]
  /\ UNCHANGED <<todo, pending, closed, server>>

Result(p, r) == phase' = [phase EXCEPT ![p] = r]
Message(p, i) == [from |-> p, id |-> i]

\* The process no longer waits for the answers it has not got.
LeftBehind(p) == {[x EXCEPT !.from = IF @ = p THEN Nobody ELSE @] : x \in server}

\* addPending, then writeFrame succeeds.
Write(p) ==
  /\ phase[p] = "write" /\ ~closed
  /\ \E i \in Ids :
       /\ pending[i] = Nobody
       /\ pending' = [pending EXCEPT ![i] = p]
       /\ id' = [id EXCEPT ![p] = i]
       /\ server' = server \cup {Message(p, i)}
  /\ Result(p, "await")
  /\ UNCHANGED <<dbVars, contextVars, procVars, what, ended, response, closed>>

\* The context is done, or the client closed, before the frame is started:
\* removePending, and the connection is good.
WriteNotStarted(p) ==
  /\ phase[p] = "write"
  /\ Result(p, "error")
  /\ UNCHANGED <<dbVars, contextVars, procVars, what, ended, clientVars>>

\* Close, once: the waiters get an error; ids, tombstones and whatever the
\* server still answers are dropped.
CloseClient(failed) ==
  /\ closed' = TRUE
  /\ pending' = [i \in Ids |-> Nobody]
  /\ server' = {}
  /\ phase' = [p \in Procs |-> IF p \in failed \/ phase[p] = "await" THEN "error" ELSE phase[p]]

\* The write fails after it was started; the server may have the frame.
WriteBroken(p) ==
  /\ phase[p] = "write" /\ ~closed /\ MayBreak
  /\ CloseClient({p})
  /\ UNCHANGED <<dbVars, contextVars, procVars, what, ended, id, response>>

\* readLoop cannot read or decode a frame.
ReadBroken ==
  /\ ~closed /\ MayBreak
  /\ CloseClient({})
  /\ UNCHANGED <<dbVars, contextVars, procVars, what, ended, id, response>>

\* The server answers; readLoop deletes the id and hands the response to its
\* waiter, if it has one, which goes on with it.
Answer ==
  /\ \E x \in server, ok \in BOOLEAN :
       /\ server' = server \ {x}
       /\ pending' = [pending EXCEPT ![x.id] = Nobody]
       /\ IF pending[x.id] \in {Nobody, Dead} THEN UNCHANGED <<phase, response>>
          ELSE /\ Result(pending[x.id], IF ok THEN "ok" ELSE "error")
               /\ response' = [response EXCEPT ![pending[x.id]] = x.from]
  /\ UNCHANGED <<dbVars, contextVars, procVars, what, ended, id, closed>>

\* Mutated: the id of an abandoned request is deleted.
WaitCancelledDeletes(p) ==
  /\ phase[p] = "await" /\ what[p] = "read"
  /\ pending' = [pending EXCEPT ![id[p]] = Nobody]
  /\ server' = LeftBehind(p)
  /\ Result(p, "error")
  /\ UNCHANGED <<dbVars, contextVars, procVars, what, ended, id, response, closed>>

\* The context of a read is done: abandonPending.  Other requests remember
\* that theirs is and wait on.
WaitCancelled(p) ==
  /\ phase[p] = "await" /\ what[p] = "read"
  /\ pending' = [pending EXCEPT ![id[p]] = Dead]
  /\ server' = LeftBehind(p)
  /\ Result(p, "error")
  /\ UNCHANGED <<dbVars, contextVars, procVars, what, ended, id, response, closed>>

-----------------------------------------------------------------------------
(* DB: statements and transactions of the users.                           *)

Returned(p) == phase[p] \in {"ok", "error"}
\* The call of the backend is over.
Forget(p) ==
  /\ Result(p, "none")
  /\ tx' = [tx EXCEPT ![p] = 0]
  /\ what' = [what EXCEPT ![p] = "read"]
  /\ id' = [id EXCEPT ![p] = 0]
  /\ response' = [response EXCEPT ![p] = Nobody]
  /\ UNCHANGED <<pending, closed, server>>

Resting == UNCHANGED <<requestVars, clientVars>>

\* beginOperation admits the call.
BeginOperation(u, place, t) ==
  /\ pc[u] = "idle" /\ ops < MaxOps
  /\ ~closing /\ ~sleepPrepared
  /\ active' = active + 1
  /\ ops' = ops + 1
  /\ Goto(u, place)
  /\ tx' = [tx EXCEPT ![u] = t]
  /\ UNCHANGED <<closing, sleepPrepared, beginning, transactions, terminal, begun, given,
                 closer, closeDone, contextVars, todo, sleeps>>
  /\ Resting

\* finishOperation.
Finish(u) == active' = active - 1 /\ Goto(u, "idle")

\* Exec, Query, Begin; and Exec, Query, Commit and Rollback of a transaction
\* that Begin returned, to any goroutine.
Admit(u) ==
  \/ BeginOperation(u, "statement", 0)
  \/ begun < MaxTx /\ BeginOperation(u, "begin", 0)
  \/ \E t \in given : BeginOperation(u, "statement", t) \/ BeginOperation(u, "end", t)

\* The statement goes to the backend, unless its transaction is terminal.
Statement(u) ==
  /\ pc[u] = "statement" /\ tx[u] \notin terminal
  /\ \E w \in {"read", "write"} : Request(u, w, tx[u], "done")
  /\ UNCHANGED <<dbVars, contextVars, sleeps, ops>>

Done(u) ==
  /\ pc[u] = "done" /\ Returned(u)
  /\ Finish(u) /\ Forget(u)
  /\ UNCHANGED <<closing, sleepPrepared, beginning, transactions, terminal, begun, given, closer,
                 closeDone, contextVars, todo, sleeps, ops, ended>>

\* Mutated: the call returns without finishOperation.
DeclinedLeaks(u) ==
  /\ \/ pc[u] = "begin" /\ (beginning \/ transactions # {} \/ begun = MaxTx)
     \/ pc[u] \in {"statement", "end"} /\ tx[u] \in terminal
  /\ Goto(u, "idle")
  /\ UNCHANGED <<dbVars, contextVars, tx, todo, sleeps, ops>>
  /\ Resting

\* Another transaction is open or being begun; or this one is terminal.
Declined(u) ==
  /\ \/ pc[u] = "begin" /\ (beginning \/ transactions # {} \/ begun = MaxTx)
     \/ pc[u] \in {"statement", "end"} /\ tx[u] \in terminal
  /\ Finish(u)
  /\ UNCHANGED <<closing, sleepPrepared, beginning, transactions, terminal, begun, given, closer,
                 closeDone, contextVars, tx, todo, sleeps, ops>>
  /\ Resting

BeginTx(u) ==
  /\ pc[u] = "begin" /\ ~beginning /\ transactions = {} /\ begun < MaxTx
  /\ beginning' = TRUE
  /\ begun' = begun + 1
  /\ Request(u, "begin", begun', "begun")
  /\ UNCHANGED <<closing, sleepPrepared, active, transactions, terminal, given, closer, closeDone,
                 contextVars, sleeps, ops>>

\* The backend has begun the transaction and the handle is still open: it is
\* registered.
Registered(u) ==
  /\ pc[u] = "begun" /\ phase[u] = "ok" /\ ~closing /\ ~sleepPrepared
  /\ transactions' = transactions \cup {tx[u]}
  /\ given' = given \cup {tx[u]}
  /\ beginning' = FALSE
  /\ Finish(u) /\ Forget(u)
  /\ UNCHANGED <<closing, sleepPrepared, terminal, begun, closer, closeDone, contextVars, todo,
                 sleeps, ops, ended>>

\* A fence or a close overtook Begin: it rolls its transaction back itself.
Overtaken(u) ==
  /\ pc[u] = "begun" /\ phase[u] = "ok" /\ (closing \/ sleepPrepared)
  /\ Request(u, "rollback", tx[u], "undone")
  /\ UNCHANGED <<dbVars, contextVars, sleeps, ops>>

BeginFailed(u) ==
  /\ \/ pc[u] = "begun" /\ phase[u] = "error"
     \/ pc[u] = "undone" /\ Returned(u)
  /\ terminal' = IF pc[u] = "undone" THEN terminal \cup {tx[u]} ELSE terminal
  /\ beginning' = FALSE
  /\ Finish(u) /\ Forget(u)
  /\ UNCHANGED <<closing, sleepPrepared, transactions, begun, given, closer, closeDone, contextVars,
                 todo, sleeps, ops, ended>>

\* Mutated: the terminal flag is set when the backend has answered.
EndTxLate(u) ==
  /\ pc[u] = "end" /\ tx[u] \notin terminal
  /\ \E w \in {"commit", "rollback"} : Request(u, w, tx[u], "ended")
  /\ UNCHANGED <<dbVars, contextVars, sleeps, ops>>

\* Commit or Rollback wins the compare-and-swap of the terminal flag.
EndTx(u) ==
  /\ pc[u] = "end" /\ tx[u] \notin terminal
  /\ terminal' = terminal \cup {tx[u]}
  /\ \E w \in {"commit", "rollback"} : Request(u, w, tx[u], "ended")
  /\ UNCHANGED <<closing, sleepPrepared, active, beginning, transactions, begun, given, closer,
                 closeDone, contextVars, sleeps, ops>>

TxEnded(u) ==
  /\ pc[u] = "ended" /\ Returned(u)
  /\ transactions' = transactions \ {tx[u]}
  /\ Finish(u) /\ Forget(u)
  /\ UNCHANGED <<closing, sleepPrepared, beginning, terminal, begun, given, closer, closeDone,
                 contextVars, todo, sleeps, ops, ended>>

-----------------------------------------------------------------------------
(* The fence and the close.                                                *)

Draining == {"drain", "drainFailed"}

\* drainOperations takes the next transaction of its snapshot: one that is
\* terminal already belongs to somebody else.
DrainSkip(p) ==
  /\ pc[p] \in Draining /\ phase[p] = "none"
  /\ \E t \in todo[p] \cap terminal : todo' = [todo EXCEPT ![p] = @ \ {t}]
  /\ UNCHANGED <<dbVars, contextVars, pc, tx, sleeps, ops>>
  /\ Resting

DrainTx(p) ==
  /\ pc[p] \in Draining /\ phase[p] = "none"
  /\ \E t \in todo[p] \ terminal :
       /\ terminal' = terminal \cup {t}
       /\ Request(p, "rollback", t, pc[p])
  /\ UNCHANGED <<closing, sleepPrepared, active, beginning, transactions, begun, given, closer,
                 closeDone, contextVars, sleeps, ops>>

\* The rollback returns; an expired or unknown lease is no error.
DrainedTx(p) ==
  /\ pc[p] \in Draining /\ Returned(p)
  /\ transactions' = transactions \ {tx[p]}
  /\ todo' = [todo EXCEPT ![p] = @ \ {tx[p]}]
  /\ \/ Goto(p, pc[p])
     \/ phase[p] = "error" /\ Goto(p, "drainFailed")
  /\ Forget(p)
  /\ UNCHANGED <<closing, sleepPrepared, active, beginning, terminal, begun, given, closer,
                 closeDone, contextVars, sleeps, ops, ended>>

\* Mutated: admitted operations are not waited for.
DrainedAtOnce(p) == pc[p] \in Draining /\ phase[p] = "none" /\ todo[p] = {}

Drained(p) == pc[p] \in Draining /\ phase[p] = "none" /\ todo[p] = {} /\ active = 0

\* fenceSQLiteAndRequestSleep takes its mutex and calls prepareForSleep.
SleepBegin(s) ==
  /\ pc[s] = "idle" /\ sleepIntentMu = Nobody /\ sleeps < MaxSleeps
  /\ sleeps' = sleeps + 1
  /\ \/ closing /\ UNCHANGED <<pc, sleepPrepared, todo, sleepIntentMu>>
     \/ /\ ~closing /\ sleepPrepared
        /\ Goto(s, "redundant") /\ sleepIntentMu' = s
        /\ UNCHANGED <<sleepPrepared, todo>>
     \/ /\ ~closing /\ ~sleepPrepared
        /\ sleepPrepared' = TRUE
        /\ todo' = [todo EXCEPT ![s] = transactions]
        /\ Goto(s, "drain") /\ sleepIntentMu' = s
  /\ UNCHANGED <<closing, active, beginning, transactions, terminal, begun, given, closer, closeDone,
                 lifecycleMu, lifecycleStopping, destroyRequested, asleep, tx, ops>>
  /\ Resting

SleepDrained(s) ==
  /\ Drained(s) /\ pc[s] = "drain"
  /\ Goto(s, "intent")
  /\ UNCHANGED <<dbVars, contextVars, tx, todo, sleeps, ops>>
  /\ Resting

\* Mutated: a redundant Sleep that fails takes the fence down.
SleepFailedReopens(s) ==
  /\ \/ Drained(s) /\ pc[s] = "drainFailed"
     \/ pc[s] \in {"intent", "redundant"}
  /\ sleepPrepared' = IF closing THEN sleepPrepared ELSE FALSE
  /\ Goto(s, "idle") /\ sleepIntentMu' = Nobody
  /\ UNCHANGED <<closing, active, beginning, transactions, terminal, begun, given, closer, closeDone,
                 lifecycleMu, lifecycleStopping, destroyRequested, asleep, tx, todo, sleeps, ops>>
  /\ Resting

\* The drain or the intent fails: resumeAfterSleepFailure, by the Sleep that
\* put the fence up.
SleepFailed(s) ==
  /\ \/ Drained(s) /\ pc[s] = "drainFailed"
     \/ pc[s] \in {"intent", "redundant"}
  /\ sleepPrepared' = IF closing \/ pc[s] = "redundant" THEN sleepPrepared ELSE FALSE
  /\ Goto(s, "idle") /\ sleepIntentMu' = Nobody
  /\ UNCHANGED <<closing, active, beginning, transactions, terminal, begun, given, closer, closeDone,
                 lifecycleMu, lifecycleStopping, destroyRequested, asleep, tx, todo, sleeps, ops>>
  /\ Resting

SleepAccepted(s) ==
  /\ pc[s] \in {"intent", "redundant"}
  /\ asleep' = TRUE
  /\ Goto(s, "idle") /\ sleepIntentMu' = Nobody
  /\ UNCHANGED <<dbVars, lifecycleMu, lifecycleStopping, destroyRequested, tx, todo, sleeps, ops>>
  /\ Resting

\* Destroy takes the lifecycle mutex of the context and holds it to its end.
DestroyBegin(c) ==
  /\ c = Destroyer /\ pc[c] = "idle" /\ lifecycleMu = Nobody
  /\ IF lifecycleStopping \/ destroyRequested
       THEN Goto(c, "returned") /\ UNCHANGED lifecycleMu
       ELSE Goto(c, "close") /\ lifecycleMu' = c
  /\ UNCHANGED <<dbVars, sleepIntentMu, lifecycleStopping, destroyRequested, asleep, tx, todo, sleeps, ops>>
  /\ Resting

StopBegin(c) ==
  /\ c = Stopper /\ pc[c] = "idle" /\ lifecycleMu = Nobody
  /\ lifecycleStopping' = TRUE
  /\ Goto(c, "close")
  /\ UNCHANGED <<dbVars, sleepIntentMu, lifecycleMu, destroyRequested, asleep, tx, todo, sleeps, ops>>
  /\ Resting

\* closeTransport: closeOnce is run by one caller, the others wait.
CloseTransport(c) ==
  /\ pc[c] = "close"
  /\ IF closer = Nobody
       THEN /\ closer' = c /\ closing' = TRUE
            /\ todo' = [todo EXCEPT ![c] = transactions]
            /\ Goto(c, "drain")
       ELSE Goto(c, "wait") /\ UNCHANGED <<closer, closing, todo>>
  /\ UNCHANGED <<sleepPrepared, active, beginning, transactions, terminal, begun, given, closeDone,
                 contextVars, tx, sleeps, ops>>
  /\ Resting

Closed(c) == IF c = Destroyer THEN "intent" ELSE "returned"

\* The operations are drained, with or without errors: the backend is closed.
CloseBackend(c) ==
  /\ c \in Closers /\ Drained(c)
  /\ IF closed THEN UNCHANGED <<closed, pending, server, phase>> ELSE CloseClient({})
  /\ closeDone' = TRUE
  /\ Goto(c, Closed(c))
  /\ UNCHANGED <<closing, sleepPrepared, active, beginning, transactions, terminal, begun, given,
                 closer, contextVars, tx, todo, sleeps, ops, what, ended, id, response>>

CloseWaited(c) ==
  /\ pc[c] = "wait" /\ closeDone
  /\ Goto(c, Closed(c))
  /\ UNCHANGED <<dbVars, contextVars, tx, todo, sleeps, ops>>
  /\ Resting

\* The destroy intent is submitted even when the close failed.
DestroyIntent(c) ==
  /\ c = Destroyer /\ pc[c] = "intent"
  /\ destroyRequested' \in BOOLEAN
  /\ Goto(c, "returned") /\ lifecycleMu' = Nobody
  /\ UNCHANGED <<dbVars, sleepIntentMu, lifecycleStopping, asleep, tx, todo, sleeps, ops>>
  /\ Resting

-----------------------------------------------------------------------------
\* The steps a process takes once it has called, other than giving up.
Proceed(p) ==
  \/ Write(p) \/ (closed /\ WriteNotStarted(p))
  \/ Statement(p) \/ Done(p) \/ Declined(p)
  \/ BeginTx(p) \/ Registered(p) \/ Overtaken(p) \/ BeginFailed(p) \/ EndTx(p) \/ TxEnded(p)
  \/ DrainSkip(p) \/ DrainTx(p) \/ DrainedTx(p)
  \/ p = Sleeper /\ (SleepDrained(p) \/ SleepFailed(p) \/ SleepAccepted(p))
  \/ p \in Closers /\ (CloseTransport(p) \/ CloseBackend(p) \/ CloseWaited(p) \/ DestroyIntent(p))

\* The context of a call is done, or its write fails.
GiveUp(p) == WriteNotStarted(p) \/ WriteBroken(p) \/ WaitCancelled(p)

\* Nobody is inside a call.
Rest == (\A p \in Procs : pc[p] \in {"idle", "returned"}) /\ UNCHANGED vars

Next ==
  \/ \E u \in Users : Admit(u)
  \/ SleepBegin(Sleeper)
  \/ \E c \in Closers : DestroyBegin(c) \/ StopBegin(c)
  \/ \E p \in Procs : Proceed(p) \/ GiveUp(p)
  \/ Answer \/ ReadBroken
  \/ Rest

Spec == Init /\ [][Next]_vars

\* Goroutines are scheduled and the native side answers every request it has
\* received; calls, cancellations and faults happen or not.
FairSpec ==
  /\ Spec
  /\ \A p \in Procs : WF_vars(Proceed(p))
  /\ WF_vars(Answer)

-----------------------------------------------------------------------------
(* Properties.                                                             *)

\* The state is well typed: active counts the users inside an operation
\* (beginOperation and finishOperation are paired on every path), only
\* registered transactions are rolled back by a drain, and the two mutexes
\* are held by the processes that can hold them.
TypeOK ==
  /\ closing \in BOOLEAN /\ sleepPrepared \in BOOLEAN /\ beginning \in BOOLEAN
  /\ active = Cardinality({u \in Users : pc[u] # "idle"})
  /\ transactions \subseteq given /\ given \subseteq 1 .. begun /\ begun \in 0 .. MaxTx
  /\ terminal \subseteq 1 .. begun
  /\ closer \in Closers \cup {Nobody} /\ closeDone \in BOOLEAN
  /\ sleepIntentMu \in {Sleeper, Nobody} /\ lifecycleMu \in {Destroyer, Nobody}
  /\ lifecycleStopping \in BOOLEAN /\ destroyRequested \in BOOLEAN /\ asleep \in BOOLEAN
  /\ \A p \in Procs :
       /\ pc[p] \in {"idle", "statement", "done", "begin", "begun", "undone", "end", "ended", "drain",
                     "drainFailed", "intent", "redundant", "close", "wait", "returned"}
       /\ tx[p] \in 0 .. MaxTx /\ todo[p] \subseteq Txs
       /\ phase[p] \in {"none", "write", "await", "ok", "error"}
       /\ what[p] \in Whats
       /\ id[p] \in Ids \cup {0}
       /\ response[p] \in Procs \cup {Nobody}
  /\ ops \in 0 .. MaxOps /\ sleeps \in 0 .. MaxSleeps
  /\ \A i \in Ids : pending[i] \in Procs \cup {Nobody, Dead}
  /\ closed \in BOOLEAN

\* The response a caller is handed answers the caller's own request, also
\* when its id was used before by a read that was given up: abandonPending
\* keeps the id taken until the late answer has come, and a write that may
\* have reached the server ends the connection.
OwnResponse == \A p \in Procs : phase[p] = "ok" => response[p] = p

\* At most one commit or rollback is sent for a transaction: Commit, Rollback,
\* the fence of Sleep, the close of Destroy and Stop, and a Begin that was
\* overtaken all race for it.
EndedOnce == \A t \in Txs : ended[t] <= 1

\* When core has accepted a sleep, the handle admits no operation any more, no
\* admitted one is running, and no transaction is registered, unless a close,
\* which drains them too, is under way (fenceSQLiteAndRequestSleep).
SleepFenced ==
  asleep => /\ sleepPrepared \/ closing
            /\ closing \/ transactions = {}
            /\ active = 0

\* The backend is closed under no admitted operation (closeTransport).
ClosedIdle == closeDone => closing /\ closed /\ active = 0 /\ transactions \subseteq terminal

\* A close that has started is completed and a Sleep that holds the fence
\* returns: the drains wait for each other's operations and for the server,
\* never for one another.
DrainsComplete ==
  /\ closing ~> closeDone
  /\ (sleepIntentMu # Nobody) ~> (sleepIntentMu = Nobody)
=============================================================================
