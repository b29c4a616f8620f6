------------------------------ MODULE SoakChat ------------------------------
(***************************************************************************)
(* The chat workload of the soak test (cmd/soak) in its active phase: one  *)
(* worker sends chat messages to an actor that broadcasts each of them to  *)
(* every connected WebSocket; chatOracle keeps a ledger per client of what *)
(* it must receive; chaos disconnects, stalls and replaces the clients and *)
(* restarts the engine meanwhile, kept from the workload by workGate.  The *)
(* runtime under test is correct here, delivering in order and once: what  *)
(* is at stake is whether the test's own concurrency accuses it wrongly.   *)
(*                                                                         *)
(* A receipt is its sequence number; tokens, one per message, are dropped. *)
(* No context expires: see SoakWorkload for the end of the active phase.   *)
(***************************************************************************)
EXTENDS Naturals, Sequences

CONSTANTS
  Labels,      \* client labels, each used once
  NumClients,  \* config.clients
  Others       \* the other workers that hold the gate

VARIABLES
  failed,      \* errorSink holds an error
  paused, holding,   \* workGate; holding are the workers it counts as active
  chat,        \* where runChat is
  targets,     \* the labels it has read
  truth,       \* chatOracle.state.Sequence
  observed,    \* chatOracle.observedToken
  ledgers, connected, expecting, expected, received,   \* chatOracle.ledgers
  clients,     \* clientManager.clients
  stalled,     \* clients whose read loop is paused
  inbox,       \* messages on their way to the actor
  seq,         \* the actor's state
  conns,       \* the actor's connections whose client has not closed
  net,         \* per client, broadcasts on their way to it
  chaos,       \* what the holder of chaosMu is doing
  victim,      \* the label it does it to
  before,      \* stall: how much was expected of the victim before
  missing      \* clients still to connect

vars == <<failed, paused, holding, chat, targets, truth, observed, ledgers,
          connected, expecting, expected, received, clients, stalled, inbox,
          seq, conns, net, chaos, victim, before, missing>>
gate == <<paused, holding>>
worker == <<chat, targets>>
oracle == <<truth, observed>>
members == <<ledgers, connected, expecting, clients, conns>>
receipts == <<expected, received, net>>
actor == <<inbox, seq>>
chaosVars == <<stalled, chaos, victim, before, missing>>

Chat == "chat"

\* createWorkload is about to connect the clients.
Init ==
  /\ failed = FALSE /\ paused = FALSE /\ holding = {}
  /\ chat = "unborn" /\ targets = {}
  /\ truth = 0 /\ observed = 0 /\ seq = 0 /\ inbox = {}
  /\ ledgers = {} /\ connected = {} /\ expecting = {}
  /\ clients = {} /\ conns = {}
  /\ expected = [l \in Labels |-> << >>]
  /\ received = [l \in Labels |-> << >>]
  /\ net = [l \in Labels |-> << >>]
  /\ stalled = {}
  /\ chaos = "joining" /\ victim \in Labels /\ before = 0
  /\ missing = NumClients

\* The first error ends the test; what the oracle holds after it is of no
\* interest, so a step goes on all the same.
Report(bad) == failed' = (failed \/ bad)

-----------------------------------------------------------------------------
(* workGate.                                                               *)

Acquire(w) == ~paused /\ holding' = holding \cup {w} /\ UNCHANGED paused
Release(w) == holding' = holding \ {w} /\ UNCHANGED paused

OtherAcquires(w) ==
  /\ w \in Others /\ chat # "unborn"
  /\ Acquire(w)
  /\ UNCHANGED <<failed, worker, oracle, members, receipts, actor, chaosVars>>

OtherReleases(w) ==
  /\ w \in Others
  /\ Release(w)
  /\ UNCHANGED <<failed, worker, oracle, members, receipts, actor, chaosVars>>

-----------------------------------------------------------------------------
(* runChat.                                                                *)

ChatAcquire ==
  /\ chat = "idle"
  /\ Acquire(Chat)
  /\ chat' = "admitted"
  /\ UNCHANGED <<failed, targets, oracle, members, receipts, actor, chaosVars>>

ChatLabels ==
  /\ chat = "admitted"
  /\ Report(clients = {})
  /\ targets' = clients
  /\ chat' = "labelled"
  /\ UNCHANGED <<gate, oracle, members, receipts, actor, chaosVars>>

\* expectIntent: every label must be expecting; all get the next receipt.
ExpectIntent ==
  /\ chat = "labelled"
  /\ Report(~(targets \subseteq expecting))
  /\ truth' = truth + 1
  /\ expected' = [l \in Labels |-> IF l \in targets
                                   THEN Append(expected[l], truth + 1)
                                   ELSE expected[l]]
  /\ chat' = "expected"
  /\ UNCHANGED <<gate, targets, observed, members, received, net, actor, chaosVars>>

\* One of the clients writes the message; its connection must be open.
ChatWrite ==
  /\ chat = "expected"
  /\ \E sender \in targets : Report(sender \notin conns)
  /\ inbox' = inbox \cup {truth}
  /\ chat' = "written"
  /\ UNCHANGED <<gate, targets, oracle, members, receipts, seq, chaosVars>>

ChatObserved ==
  /\ chat = "written" /\ observed = truth
  /\ Release(Chat)
  /\ chat' = "idle"
  /\ UNCHANGED <<failed, targets, oracle, members, receipts, actor, chaosVars>>

-----------------------------------------------------------------------------
(* The chat actor and the clients' read loops.                             *)

\* OnMessage: save, broadcast to whoever is connected, observeMessage.
OnMessage ==
  /\ inbox # {}
  /\ \E message \in inbox : inbox' = inbox \ {message}
  /\ seq' = seq + 1
  /\ net' = [l \in Labels |-> IF l \in conns THEN Append(net[l], seq + 1)
                                             ELSE net[l]]
  /\ Report(seq + 1 # truth)
  /\ observed' = seq + 1
  /\ UNCHANGED <<gate, worker, truth, members, expected, received, chaosVars>>

OnConnect ==
  /\ chaos = "dialing"
  /\ ledgers' = ledgers \cup {victim} /\ connected' = connected \cup {victim}
  /\ conns' = conns \cup {victim}
  /\ chaos' = "connected"
  /\ UNCHANGED <<failed, gate, worker, oracle, expecting, clients, receipts,
                 actor, stalled, victim, before, missing>>

OnDisconnect ==
  /\ chaos = "leaving"
  /\ connected' = connected \ {victim} /\ conns' = conns \ {victim}
  /\ chaos' = "joining"
  /\ UNCHANGED <<failed, gate, worker, oracle, ledgers, expecting, clients,
                 receipts, actor, stalled, victim, before, missing>>

\* record: the label has a ledger, and sequence numbers increase.
Misordered(l, receipt) ==
  \/ l \notin ledgers
  \/ \E i \in 1 .. Len(received[l]) : received[l][i] >= receipt

\* readLoop: one broadcast.
Receive(l) ==
  /\ net[l] # << >> /\ l \notin stalled
  /\ net' = [net EXCEPT ![l] = Tail(@)]
  /\ Report(Misordered(l, Head(net[l])))
  /\ received' = [received EXCEPT ![l] = Append(@, Head(net[l]))]
  /\ UNCHANGED <<gate, worker, oracle, members, expected, actor, chaosVars>>

Converged(l) == received[l] = expected[l]

-----------------------------------------------------------------------------
(* Chaos; chaosMu admits one operation at a time.                          *)

\* gate.pause for a disconnect or a restart; for a stall see below.
Pause ==
  /\ chaos = "idle"
  /\ chaos' = "pausing" /\ paused' = TRUE
  /\ UNCHANGED <<failed, holding, worker, oracle, members, receipts, actor,
                 stalled, victim, before, missing>>

\* disconnectAndReplace, after the pause: it needs a client to disconnect.
Disconnect(l) ==
  /\ chaos = "pausing" /\ holding = {} /\ l \in clients
  /\ clients' = clients \ {l} /\ expecting' = expecting \ {l}
  /\ chaos' = "draining" /\ victim' = l /\ missing' = 1
  /\ UNCHANGED <<failed, gate, worker, oracle, ledgers, connected, conns,
                 receipts, actor, stalled, before>>

Drained ==
  /\ chaos = "draining" /\ Converged(victim)
  /\ chaos' = "leaving"
  /\ UNCHANGED <<failed, gate, worker, oracle, members, receipts, actor,
                 stalled, victim, before, missing>>

\* restartChaos: quiesce, then close every client and restart the engine.  A
\* closed client reads nothing any more, whenever the actor learns of it.
Quiesce ==
  /\ chaos = "pausing" /\ holding = {}
  /\ expecting' = {}
  /\ chaos' = "quiescing"
  /\ UNCHANGED <<failed, gate, worker, oracle, ledgers, connected, clients,
                 conns, receipts, actor, stalled, victim, before, missing>>

CloseAll ==
  /\ chaos = "quiescing" /\ \A l \in ledgers : Converged(l)
  /\ clients' = {} /\ conns' = {} /\ connected' = {}
  /\ chaos' = "joining" /\ missing' = NumClients
  /\ UNCHANGED <<failed, gate, worker, oracle, ledgers, expecting, receipts,
                 actor, stalled, victim, before>>

\* connect, once per missing client.
Dial(l) ==
  /\ chaos = "joining" /\ missing > 0 /\ l \notin ledgers
  /\ chaos' = "dialing" /\ victim' = l
  /\ UNCHANGED <<failed, gate, worker, oracle, members, receipts, actor,
                 stalled, before, missing>>

StartExpecting ==
  /\ chaos = "connected"
  /\ Report(victim \notin connected)
  /\ expecting' = expecting \cup {victim} /\ clients' = clients \cup {victim}
  /\ chaos' = "joining" /\ missing' = missing - 1
  /\ UNCHANGED <<gate, worker, oracle, ledgers, connected, conns, receipts,
                 actor, stalled, victim, before>>

\* gate.resume; the first time, startWorkload.
Resume ==
  /\ chaos = "joining" /\ missing = 0
  /\ chaos' = "idle" /\ paused' = FALSE
  /\ chat' = IF chat = "unborn" THEN "idle" ELSE chat
  /\ UNCHANGED <<failed, holding, targets, oracle, members, receipts, actor,
                 stalled, victim, before, missing>>

\* stall: a client stops reading while the workload goes on; then the gate is
\* paused until its ledger has caught up; it must have missed something.
Stall(l) ==
  /\ chaos = "idle" /\ l \in clients
  /\ chaos' = "stalling" /\ victim' = l /\ stalled' = {l}
  /\ before' = Len(expected[l])
  /\ UNCHANGED <<failed, gate, worker, oracle, members, receipts, actor, missing>>

StallPause ==
  /\ chaos = "stalling"
  /\ chaos' = "stallPausing" /\ paused' = TRUE
  /\ UNCHANGED <<failed, holding, worker, oracle, members, receipts, actor,
                 stalled, victim, before, missing>>

Unstall ==
  /\ chaos = "stallPausing" /\ holding = {}
  /\ chaos' = "catchingUp" /\ stalled' = {}
  /\ UNCHANGED <<failed, gate, worker, oracle, members, receipts, actor, victim,
                 before, missing>>

CaughtUp ==
  /\ chaos = "catchingUp" /\ Converged(victim)
  /\ Len(expected[victim]) > before
  /\ chaos' = "idle" /\ paused' = FALSE
  /\ UNCHANGED <<failed, holding, worker, oracle, members, receipts, actor,
                 stalled, victim, before, missing>>

Next ==
  \/ \E w \in Others : OtherAcquires(w) \/ OtherReleases(w)
  \/ ChatAcquire \/ ChatLabels \/ ExpectIntent \/ ChatWrite \/ ChatObserved
  \/ OnMessage \/ OnConnect \/ OnDisconnect
  \/ \E l \in Labels : Receive(l) \/ Disconnect(l) \/ Dial(l) \/ Stall(l)
  \/ Pause \/ Drained \/ Quiesce \/ CloseAll \/ StartExpecting \/ Resume
  \/ StallPause \/ Unstall \/ CaughtUp

Spec == Init /\ [][Next]_vars

-----------------------------------------------------------------------------
(* Properties.                                                             *)

\* runChat reads the labels, advances the oracle and writes in three steps,
\* while chaos removes and adds clients in several of its own: thanks to the
\* gate, a label never stops expecting in between, and no report is made.
NoFalseAlarm == ~failed

\* disconnect, stall and finalOracles wait for a ledger to converge: a client's
\* receipts are always the first of those expected of it, so waiting can end,
\* and none is received that was never expected.
ReceiptsArePrefix ==
  \A l \in Labels :
    /\ Len(received[l]) <= Len(expected[l])
    /\ \A i \in 1 .. Len(received[l]) : received[l][i] = expected[l][i]
=============================================================================
