---------------------------- MODULE DurableQueue ----------------------------
(***************************************************************************)
(* One actor's durable queue as the SDK hands it out: rivet/queue.go on    *)
(* top of ActorSession.Queue* of internal/pump and of the queue commands   *)
(* of actor_proxy.rs.                                                      *)
(*                                                                         *)
(* A record received as completable stays in core, hidden from other       *)
(* receives, while a completion handle for it exists.  The proxy keeps the *)
(* handle in a table keyed by generation and message id until the Go side  *)
(* completes or retries the message, or the generation is cleaned up.  Go  *)
(* callers may stop waiting at any moment (context, intent timeout,        *)
(* session end) while their command runs on.                               *)
(*                                                                         *)
(* Receives are the calls of Queue.Next and the QueueMessage each returns; *)
(* Ops are the calls of Complete and Retry.  Bodies, names and responses   *)
(* do not influence any of this and are left out.                          *)
(***************************************************************************)
EXTENDS Naturals

CONSTANTS Messages, Receives, Ops, NoOp

VARIABLES
  core,      \* the record of each message id in core
  gen,       \* the actor's generation
  phase,     \* "live", "stopping" (operations refused), "removed" (out of
             \* the active actors, tables not yet cleaned), "down"
  table,     \* queue_messages of the proxy: [gen, msg] of retained handles
  stage,     \* the receive: see Receive, Take, Retain, Deliver
  rgen,      \* the generation the receive was made in
  rmsg,      \* the message it got
  settled,   \* QueueMessage.settled
  mu,        \* holder of QueueMessage.completeMu
  ost,       \* the call of Complete or Retry
  okind,
  orecv,     \* the QueueMessage it was called on
  ores       \* its outcome on the native side

coreVars == <<core, table>>
genVars  == <<gen, phase>>
recvVars == <<stage, rgen, rmsg>>
goVars   == <<settled, mu>>
opVars   == <<ost, okind, orecv, ores>>
vars == <<core, gen, phase, table, stage, rgen, rmsg, settled, mu,
          ost, okind, orecv, ores>>

Records == {"absent", "queued", "held", "gone"}
Phases  == {"live", "stopping", "removed", "down"}
Stages  == {"idle", "asked", "taken", "sent", "open"}
Steps   == {"idle", "submitted", "running", "answered", "returned"}

Init ==
  /\ core = [m \in Messages |-> "absent"]
  /\ gen = 1 /\ phase = "live"
  /\ table = {}
  /\ stage = [h \in Receives |-> "idle"]
  /\ rgen = [h \in Receives |-> 0]
  /\ rmsg \in [Receives -> Messages]
  /\ settled = [h \in Receives |-> FALSE]
  /\ mu = [h \in Receives |-> NoOp]
  /\ ost = [o \in Ops |-> "idle"]
  /\ okind = [o \in Ops |-> "complete"]
  /\ orecv \in [Ops -> Receives]
  /\ ores = [o \in Ops |-> "none"]

\* The key of queue_messages: the generation and the message, not the receive.
Key(h) == [gen |-> rgen[h], msg |-> rmsg[h]]

\* The generation of a receive is still in the table of active actors.
Active(h) == rgen[h] = gen /\ phase \in {"live", "stopping"}

\* begin_queue_operation: the exact generation is active and not stopping.
Admits(h) == rgen[h] = gen /\ phase = "live"

----------------------------------------------------------------------------
\* Queue.Send: core accepts the record durably before the call returns.
Send(m) ==
  /\ phase = "live"
  /\ core[m] = "absent"
  /\ core' = [core EXCEPT ![m] = "queued"]
  /\ UNCHANGED <<table, genVars, recvVars, goVars, opVars>>

\* Queue.Next with Completable: a blocking receive.  It holds no operation
\* guard, so teardown does not wait for it.
Receive(h) ==
  /\ stage[h] = "idle"
  /\ phase = "live"
  /\ stage' = [stage EXCEPT ![h] = "asked"]
  /\ rgen' = [rgen EXCEPT ![h] = gen]
  /\ UNCHANGED <<rmsg, coreVars, genVars, goVars, opVars>>

\* Core gives the receive a record: the future returned by next resolves.
Take(h, m) ==
  /\ stage[h] = "asked"
  /\ core[m] = "queued"
  /\ core' = [core EXCEPT ![m] = "held"]
  /\ stage' = [stage EXCEPT ![h] = "taken"]
  /\ rmsg' = [rmsg EXCEPT ![h] = m]
  /\ UNCHANGED <<table, rgen, genVars, goVars, opVars>>

\* The receive ends without a message: timeout, cancelled wait, actor abort.
TakeNothing(h) ==
  /\ stage[h] = "asked"
  /\ stage' = [stage EXCEPT ![h] = "idle"]
  /\ UNCHANGED <<rgen, rmsg, coreVars, genVars, goVars, opVars>>

\* retain_queue_message_if_actor_active.  A handle that is not retained is
\* dropped, which releases the record.
RetainOrDrop(h) ==
  IF Active(h)
  THEN table' = table \cup {Key(h)} /\ core' = core
  ELSE core' = [core EXCEPT ![rmsg[h]] = "queued"] /\ table' = table

\* The task of QueueNext retains the handle and emits the result either way.
Retain(h) ==
  /\ stage[h] = "taken"
  /\ RetainOrDrop(h)
  /\ stage' = [stage EXCEPT ![h] = "sent"]
  /\ UNCHANGED <<rgen, rmsg, genVars, goVars, opVars>>

\* ActorSession.QueueNext returns and Queue.message builds the QueueMessage.
Deliver(h) ==
  /\ stage[h] = "sent"
  /\ stage' = [stage EXCEPT ![h] = "open"]
  /\ UNCHANGED <<rgen, rmsg, coreVars, genVars, goVars, opVars>>

\* The receiver left and its cancellation did not settle: the result is
\* discarded, the handle stays in the table.
Discard(h) ==
  /\ stage[h] = "sent"
  /\ stage' = [stage EXCEPT ![h] = "idle"]
  /\ UNCHANGED <<rgen, rmsg, coreVars, genVars, goVars, opVars>>

----------------------------------------------------------------------------
\* QueueMessage.Complete and Retry up to the submitted command: the mutex is
\* taken and a settled message refused.
Settle(o, h, k) ==
  /\ ost[o] = "idle"
  /\ stage[h] = "open"
  /\ mu[h] = NoOp
  /\ ~settled[h]
  /\ mu' = [mu EXCEPT ![h] = o]
  /\ ost' = [ost EXCEPT ![o] = "submitted"]
  /\ okind' = [okind EXCEPT ![o] = k]
  /\ orecv' = [orecv EXCEPT ![o] = h]
  /\ UNCHANGED <<ores, settled, coreVars, genVars, recvVars>>

Complete(o, h) == Settle(o, h, "complete")
Retry(o, h) == Settle(o, h, "retry")

Answer(o, result) ==
  /\ ost' = [ost EXCEPT ![o] = "answered"]
  /\ ores' = [ores EXCEPT ![o] = result]

\* The command is dispatched but the generation is stale or stopping, or the
\* table has no handle under its key.
DispatchRefused(o) ==
  /\ ost[o] = "submitted"
  /\ ~Admits(orecv[o]) \/ Key(orecv[o]) \notin table
  /\ Answer(o, "error")
  /\ UNCHANGED <<okind, orecv, coreVars, genVars, recvVars, goVars>>

\* dispatch_queue_complete takes the handle out of the table, then awaits core.
DispatchComplete(o) ==
  /\ ost[o] = "submitted" /\ okind[o] = "complete"
  /\ Admits(orecv[o])
  /\ Key(orecv[o]) \in table
  /\ table' = table \ {Key(orecv[o])}
  /\ ost' = [ost EXCEPT ![o] = "running"]
  /\ UNCHANGED <<core, okind, orecv, ores, genVars, recvVars, goVars>>

CoreCompletes(o) ==
  /\ ost[o] = "running"
  /\ core' = [core EXCEPT ![rmsg[orecv[o]]] = "gone"]
  /\ Answer(o, "ok")
  /\ UNCHANGED <<table, okind, orecv, genVars, recvVars, goVars>>

\* A completion core refuses puts the handle back if the actor is still there.
CoreFails(o) ==
  /\ ost[o] = "running"
  /\ RetainOrDrop(orecv[o])
  /\ Answer(o, "error")
  /\ UNCHANGED <<okind, orecv, genVars, recvVars, goVars>>

\* dispatch_queue_retry drops the handle, which releases the record.
DispatchRetry(o) ==
  /\ ost[o] = "submitted" /\ okind[o] = "retry"
  /\ Admits(orecv[o])
  /\ Key(orecv[o]) \in table
  /\ table' = table \ {Key(orecv[o])}
  /\ core' = [core EXCEPT ![rmsg[orecv[o]]] = "queued"]
  /\ Answer(o, "ok")
  /\ UNCHANGED <<okind, orecv, genVars, recvVars, goVars>>

\* The caller gets the answer, marks a success and unlocks.
Return(o) ==
  /\ ost[o] = "answered"
  /\ mu[orecv[o]] = o
  /\ mu' = [mu EXCEPT ![orecv[o]] = NoOp]
  /\ settled' = [settled EXCEPT ![orecv[o]] = (ores[o] = "ok")]
  /\ ost' = [ost EXCEPT ![o] = "returned"]
  /\ UNCHANGED <<okind, orecv, ores, coreVars, genVars, recvVars>>

\* The caller stops waiting: context, intent timeout, session or pump end.
\* The command goes on, and the message may be settled again.
GiveUp(o) ==
  /\ ost[o] \in {"submitted", "running", "answered"}
  /\ mu[orecv[o]] = o
  /\ mu' = [mu EXCEPT ![orecv[o]] = NoOp]
  /\ UNCHANGED <<settled, coreVars, genVars, recvVars, opVars>>

\* The command could not be submitted (backpressure, shutting down).
Unsubmitted(o) ==
  /\ ost[o] = "submitted"
  /\ mu[orecv[o]] = o
  /\ mu' = [mu EXCEPT ![orecv[o]] = NoOp]
  /\ ost' = [ost EXCEPT ![o] = "returned"]
  /\ ores' = [ores EXCEPT ![o] = "error"]
  /\ UNCHANGED <<settled, okind, orecv, coreVars, genVars, recvVars>>

----------------------------------------------------------------------------
\* ActorOperations.begin_stop.
BeginStop ==
  /\ phase = "live"
  /\ phase' = "stopping"
  /\ UNCHANGED <<gen, coreVars, recvVars, goVars, opVars>>

\* run_actor ends: the actor leaves the table of active actors first ...
RemoveActor ==
  /\ phase \in {"live", "stopping"}
  /\ phase' = "removed"
  /\ UNCHANGED <<gen, coreVars, recvVars, goVars, opVars>>

\* ... and remove_queue_messages drops its handles after that.
RemoveQueueMessages ==
  /\ phase = "removed"
  /\ phase' = "down"
  /\ table' = {e \in table : e.gen # gen}
  /\ core' = [m \in Messages |->
                IF [gen |-> gen, msg |-> m] \in table THEN "queued" ELSE core[m]]
  /\ UNCHANGED <<gen, recvVars, goVars, opVars>>

\* The actor wakes in its next generation.
Wake ==
  /\ phase = "down"
  /\ phase' = "live"
  /\ gen' = gen + 1
  /\ UNCHANGED <<coreVars, recvVars, goVars, opVars>>

Next ==
  \/ \E m \in Messages : Send(m)
  \/ \E h \in Receives :
       \/ Receive(h) \/ TakeNothing(h) \/ Retain(h) \/ Deliver(h) \/ Discard(h)
       \/ \E m \in Messages : Take(h, m)
       \/ \E o \in Ops : Complete(o, h) \/ Retry(o, h)
  \/ \E o \in Ops :
       \/ DispatchRefused(o) \/ DispatchComplete(o) \/ DispatchRetry(o)
       \/ CoreCompletes(o) \/ CoreFails(o)
       \/ Return(o) \/ GiveUp(o) \/ Unsubmitted(o)
  \/ BeginStop \/ RemoveActor \/ RemoveQueueMessages \/ Wake

Spec == Init /\ [][Next]_vars

----------------------------------------------------------------------------
\* A record of core is held by its handle in the table, by the receive that
\* has just taken it, or by the completion in progress.
HeldBySomeone(m) ==
  \/ \E e \in table : e.msg = m
  \/ \E h \in Receives : stage[h] = "taken" /\ rmsg[h] = m
  \/ \E o \in Ops : ost[o] = "running" /\ rmsg[orecv[o]] = m

\* A record hidden in core has a holder in the proxy, so whatever happens to
\* the callers and to the generation it can still be settled, or it is
\* released when the generation is cleaned (queue.go: "Completable messages
\* remain in core until Complete succeeds", "generation shutdown also releases
\* unsettled messages").
NeverStranded == \A m \in Messages : core[m] = "held" => HeldBySomeone(m)

\* Once remove_queue_messages has run for a generation no handle of it is in
\* the table, although receives hold no operation guard and completions may
\* fail late (the comment of retain_queue_message_if_actor_active: "a queue
\* task cannot reinsert a late completable message after its generation was
\* cleaned").
NoLateHandle == \A e \in table : e.gen = gen /\ phase # "down"

\* A successful completion removes the record for good, and only one succeeds
\* per message, whichever receives, generations and abandoned calls raced.
CompletedOnce ==
  \A o \in Ops :
    ores[o] = "ok" /\ okind[o] = "complete" =>
      /\ core[rmsg[orecv[o]]] = "gone"
      /\ \A p \in Ops \ {o} :
           ~ (/\ ores[p] = "ok" /\ okind[p] = "complete"
              /\ rmsg[orecv[p]] = rmsg[orecv[o]])

\* At most one of the calls of Complete and Retry on a QueueMessage returns
\* success to its caller, even when earlier callers gave up on theirs.
SettledOnce ==
  \A o, p \in Ops :
    /\ ost[o] = "returned" /\ ores[o] = "ok"
    /\ ost[p] = "returned" /\ ores[p] = "ok"
    /\ orecv[o] = orecv[p]
    => o = p
====
