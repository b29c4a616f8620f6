--------------------------- MODULE HarnessProofs ---------------------------
(***************************************************************************)
(* Proofs about the development engine's process and about the workloads   *)
(* of the soak test: chat, and counters, SQL and alarms.                   *)
(***************************************************************************)
EXTENDS SoakChat, TLAPS

CONSTANT Callers

VARIABLES process, launched, running, done, doing, held

Engine == INSTANCE DevEngine

-----------------------------------------------------------------------------
(* The engine's process.                                                   *)

\* Processes are numbered as launched; what was reaped does not run.
EngineInv ==
  /\ launched \in Nat /\ process \in 0 .. launched
  /\ running \subseteq 1 .. launched /\ done \subseteq 1 .. launched
  /\ held \in [Callers -> 0 .. launched]
  /\ running \cap done = {}
  /\ Engine!OneEngine

\* Whatever the callers of Start, Stop and Kill do at the same time, the engine
\* has one process at a time and never loses sight of it.
THEOREM OneEngineAtATime == Engine!Spec => []Engine!OneEngine
<1> USE DEF EngineInv, Engine!OneEngine, Engine!ClearProcess
<1>1. Engine!Init => EngineInv
  BY DEF Engine!Init
<1>2. EngineInv /\ [Engine!Next]_Engine!vars => EngineInv'
  <2> SUFFICES ASSUME EngineInv, [Engine!Next]_Engine!vars PROVE EngineInv'
    BY Zenon
  <2>1. CASE UNCHANGED Engine!vars
    BY <2>1, Zenon DEF Engine!vars
  <2>2. ASSUME NEW c \in Callers, Engine!Start(c) PROVE EngineInv'
    BY <2>2 DEF Engine!Start
  <2>3. ASSUME NEW c \in Callers,
               Engine!Healthy(c) \/ Engine!NotReady(c) \/ Engine!StopExpires(c)
                 \/ Engine!GiveUp(c)
        PROVE EngineInv'
    BY <2>3, Zenon DEF Engine!Healthy, Engine!NotReady, Engine!StopExpires, Engine!GiveUp
  <2>4. ASSUME NEW c \in Callers, Engine!ExitedEarly(c) \/ Engine!Reaped(c)
        PROVE EngineInv'
    <3>1. /\ held[c] \in done /\ done' = done /\ running' = running
          /\ launched' = launched /\ held' = held
      BY <2>4, Zenon DEF Engine!ExitedEarly, Engine!Reaped
    <3>2. process' = IF process = held[c] THEN 0 ELSE process
      BY <2>4, Zenon DEF Engine!ExitedEarly, Engine!Reaped
    <3>3. held[c] \notin running
      BY <3>1, Zenon
    <3> QED
      BY <3>1, <3>2, <3>3
  <2>5. ASSUME NEW c \in Callers, Engine!Kill(c) \/ Engine!Stop(c)
        PROVE EngineInv'
    BY <2>5, Zenon DEF Engine!Kill, Engine!Stop
  <2>6. ASSUME NEW n \in 1 .. launched, Engine!Exit(n) PROVE EngineInv'
    BY <2>6, Zenon DEF Engine!Exit
  <2>7. ASSUME NEW n \in 1 .. launched, Engine!Reap(n) PROVE EngineInv'
    BY <2>7, Zenon DEF Engine!Reap
  <2> QED
    BY <2>1, <2>2, <2>3, <2>4, <2>5, <2>6, <2>7, Zenon DEF Engine!Next
<1> QED
  BY <1>1, <1>2, PTL DEF Engine!Spec

-----------------------------------------------------------------------------
(* The chat workload.                                                      *)

ChatType ==
  /\ failed \in BOOLEAN /\ paused \in BOOLEAN
  /\ holding \subseteq Others \cup {Chat}
  /\ chat \in {"unborn", "idle", "admitted", "labelled", "expected", "written"}
  /\ targets \subseteq Labels
  /\ truth \in Nat /\ observed \in Nat /\ seq \in Nat /\ inbox \subseteq Nat
  /\ ledgers \subseteq Labels /\ connected \subseteq Labels
  /\ expecting \subseteq Labels /\ clients \subseteq Labels
  /\ conns \subseteq Labels /\ stalled \subseteq Labels
  /\ expected \in [Labels -> Seq(Nat)]
  /\ received \in [Labels -> Seq(Nat)]
  /\ net \in [Labels -> Seq(Nat)]
  /\ chaos \in {"idle", "pausing", "draining", "leaving", "quiescing", "joining",
                "dialing", "connected", "stalling", "stallPausing", "catchingUp"}
  /\ victim \in Labels
  /\ missing \in Nat

\* Chaos changes the clients only while nobody holds the gate.
Exclusive == {"draining", "leaving", "quiescing", "joining", "dialing", "connected"}

GateInv ==
  /\ chat \notin {"unborn", "idle"} => Chat \in holding
  /\ chat = "unborn" => holding = {} /\ chaos \in {"joining", "dialing", "connected"}
  /\ chaos = "pausing" => paused
  /\ chaos \in Exclusive => holding = {} /\ (paused \/ chat = "unborn")

\* Otherwise the manager, the oracle and the actor agree on who is there.
MemberInv ==
  /\ conns \subseteq ledgers
  /\ chat \in {"labelled", "expected", "written"} => targets = clients
  /\ chaos \notin Exclusive => clients # {}
  /\ chaos = "joining" /\ missing = 0 => clients # {}
  /\ chaos \in {"dialing", "connected"} => missing > 0
  /\ chaos = "connected" => victim \in connected
  /\ IF chaos = "quiescing" THEN expecting = {} ELSE expecting = clients
  /\ IF chaos \in {"draining", "leaving", "connected"}
     THEN conns = clients \cup {victim}
     ELSE conns = clients
  /\ chaos \in {"draining", "leaving"} => victim \notin clients /\ missing = 1

\* One message at a time: the oracle is at most one ahead of the actor.
IntentInv ==
  /\ observed <= seq
  /\ chat = "expected" => truth = seq + 1 /\ inbox = {}
  /\ chat = "written" => \/ truth = seq + 1 /\ inbox = {truth}
                         \/ truth = seq /\ inbox = {}
  /\ chat \notin {"expected", "written"} => truth = seq /\ inbox = {}

\* Expected of l and not yet broadcast by the actor.
Due(l) == IF truth # seq /\ l \in targets THEN 1 ELSE 0

\* What is expected of a client is what it has received, then what is on its
\* way, then what the actor has still to broadcast.
Ledger(l) ==
  /\ Len(expected[l]) = Len(received[l]) + Len(net[l]) + Due(l)
  /\ \A i \in 1 .. Len(received[l]) : received[l][i] = expected[l][i]
  /\ \A i \in 1 .. Len(net[l]) : net[l][i] = expected[l][Len(received[l]) + i]
  /\ Due(l) = 1 => expected[l][Len(expected[l])] = truth
  /\ \A i \in 1 .. Len(expected[l]) : expected[l][i] <= truth
  /\ \A i, j \in 1 .. Len(expected[l]) : i < j => expected[l][i] < expected[l][j]
  /\ Len(expected[l]) > 0 => l \in ledgers

LedgerInv == \A l \in Labels : Ledger(l)

\* Most steps leave the receipts alone.
LEMMA LedgerFrame ==
  ASSUME LedgerInv, ledgers \subseteq ledgers',
         UNCHANGED <<truth, seq, targets, expected, received, net>>
  PROVE  LedgerInv'
  BY Zenon DEF LedgerInv, Ledger, Due

LEMMA ChatTypeStep ==
  ASSUME Chat \notin Others, NumClients \in Nat \ {0}, ChatType, MemberInv,
     [Next]_vars
  PROVE  ChatType'
<1> USE DEF ChatType
<1>1. CASE UNCHANGED vars
  BY <1>1, Zenon DEF vars
<1>2. ASSUME NEW w \in Others, OtherAcquires(w) PROVE ChatType'
  BY <1>2, Zenon DEF OtherAcquires, Acquire, worker, oracle, members, receipts,
     actor, chaosVars
<1>3. ASSUME NEW w \in Others, OtherReleases(w) PROVE ChatType'
  BY <1>3, Zenon DEF OtherReleases, Release, worker, oracle, members, receipts,
     actor, chaosVars
<1>4. CASE ChatAcquire
  BY <1>4, Zenon DEF ChatAcquire, Acquire, oracle, members, receipts, actor, chaosVars
<1>5. CASE ChatLabels
  BY <1>5, Zenon DEF ChatLabels, Report, gate, oracle, members, receipts, actor,
     chaosVars
<1>6. CASE ExpectIntent
  BY <1>6 DEF ExpectIntent, Report, gate, members, actor, chaosVars
<1>7. CASE ChatWrite
  BY <1>7, Zenon DEF ChatWrite, Report, gate, oracle, members, receipts, chaosVars
<1>8. CASE ChatObserved
  BY <1>8, Zenon DEF ChatObserved, Release, oracle, members, receipts, actor, chaosVars
<1>9. CASE OnMessage
  BY <1>9 DEF OnMessage, Report, gate, worker, members, chaosVars
<1>10. CASE OnConnect
  BY <1>10, Zenon DEF OnConnect, gate, worker, oracle, receipts, actor
<1>11. CASE OnDisconnect
  BY <1>11, Zenon DEF OnDisconnect, gate, worker, oracle, receipts, actor
<1>12. ASSUME NEW l \in Labels, Receive(l) PROVE ChatType'
  <2>1. failed' \in BOOLEAN
    BY <1>12, Zenon DEF Receive, Report
  <2>2. /\ received' \in [Labels -> Seq(Nat)]
        /\ net' \in [Labels -> Seq(Nat)]
    BY <1>12 DEF Receive
  <2> QED
    BY <1>12, <2>1, <2>2, Zenon DEF Receive, gate, worker, oracle, members,
       actor, chaosVars
<1>13. ASSUME NEW l \in Labels, Disconnect(l) PROVE ChatType'
  BY <1>13, Zenon DEF Disconnect, gate, worker, oracle, receipts, actor
<1>14. ASSUME NEW l \in Labels, Dial(l) PROVE ChatType'
  BY <1>14, Zenon DEF Dial, gate, worker, oracle, members, receipts, actor
<1>15. ASSUME NEW l \in Labels, Stall(l) PROVE ChatType'
  BY <1>15, Zenon DEF Stall, gate, worker, oracle, members, receipts, actor
<1>16. CASE Pause
  BY <1>16, Zenon DEF Pause, worker, oracle, members, receipts, actor
<1>17. CASE Drained
  BY <1>17, Zenon DEF Drained, gate, worker, oracle, members, receipts, actor
<1>18. CASE Quiesce
  BY <1>18, Zenon DEF Quiesce, gate, worker, oracle, receipts, actor
<1>19. CASE CloseAll
  BY <1>19, Zenon DEF CloseAll, gate, worker, oracle, receipts, actor
<1>20. CASE StartExpecting
  BY <1>20 DEF StartExpecting, Report, MemberInv, gate, worker, oracle,
     receipts, actor
<1>21. CASE Resume
  BY <1>21, Zenon DEF Resume, oracle, members, receipts, actor
<1>22. CASE StallPause
  BY <1>22, Zenon DEF StallPause, worker, oracle, members, receipts, actor
<1>23. CASE Unstall
  BY <1>23, Zenon DEF Unstall, gate, worker, oracle, members, receipts, actor
<1>24. CASE CaughtUp
  BY <1>24, Zenon DEF CaughtUp, worker, oracle, members, receipts, actor
<1> QED
  BY <1>1, <1>2, <1>3, <1>4, <1>5, <1>6, <1>7, <1>8, <1>9, <1>10, <1>11,
     <1>12, <1>13, <1>14, <1>15, <1>16, <1>17, <1>18, <1>19, <1>20, <1>21,
     <1>22, <1>23, <1>24, Zenon DEF Next

LEMMA GateStep ==
  ASSUME Chat \notin Others, NumClients \in Nat \ {0}, ChatType, GateInv,
     [Next]_vars
  PROVE  GateInv'
<1> USE DEF ChatType, GateInv, Exclusive
<1>1. CASE UNCHANGED vars
  BY <1>1, Zenon DEF vars
<1>2. ASSUME NEW w \in Others, OtherAcquires(w) PROVE GateInv'
  BY <1>2, Zenon DEF OtherAcquires, Acquire, worker, oracle, members, receipts,
     actor, chaosVars
<1>3. ASSUME NEW w \in Others, OtherReleases(w) PROVE GateInv'
  BY <1>3, Zenon DEF OtherReleases, Release, worker, oracle, members, receipts,
     actor, chaosVars
<1>4. CASE ChatAcquire
  BY <1>4, Zenon DEF ChatAcquire, Acquire, oracle, members, receipts, actor, chaosVars
<1>5. CASE ChatLabels
  BY <1>5, Zenon DEF ChatLabels, gate, oracle, members, receipts, actor, chaosVars
<1>6. CASE ExpectIntent
  BY <1>6, Zenon DEF ExpectIntent, gate, members, actor, chaosVars
<1>7. CASE ChatWrite
  BY <1>7, Zenon DEF ChatWrite, gate, oracle, members, receipts, chaosVars
<1>8. CASE ChatObserved
  BY <1>8, Zenon DEF ChatObserved, Release, oracle, members, receipts, actor, chaosVars
<1>9. CASE OnMessage
  BY <1>9, Zenon DEF OnMessage, gate, worker, members, chaosVars
<1>10. CASE OnConnect
  BY <1>10, Zenon DEF OnConnect, gate, worker, oracle, receipts, actor
<1>11. CASE OnDisconnect
  BY <1>11, Zenon DEF OnDisconnect, gate, worker, oracle, receipts, actor
<1>12. ASSUME NEW l \in Labels, Receive(l) PROVE GateInv'
  BY <1>12, Zenon DEF Receive, gate, worker, oracle, members, actor, chaosVars
<1>13. ASSUME NEW l \in Labels, Disconnect(l) PROVE GateInv'
  BY <1>13, Zenon DEF Disconnect, gate, worker, oracle, receipts, actor
<1>14. ASSUME NEW l \in Labels, Dial(l) PROVE GateInv'
  BY <1>14, Zenon DEF Dial, gate, worker, oracle, members, receipts, actor
<1>15. ASSUME NEW l \in Labels, Stall(l) PROVE GateInv'
  BY <1>15, Zenon DEF Stall, gate, worker, oracle, members, receipts, actor
<1>16. CASE Pause
  BY <1>16, Zenon DEF Pause, worker, oracle, members, receipts, actor
<1>17. CASE Drained
  BY <1>17, Zenon DEF Drained, gate, worker, oracle, members, receipts, actor
<1>18. CASE Quiesce
  BY <1>18, Zenon DEF Quiesce, gate, worker, oracle, receipts, actor
<1>19. CASE CloseAll
  BY <1>19, Zenon DEF CloseAll, gate, worker, oracle, receipts, actor
<1>20. CASE StartExpecting
  BY <1>20, Zenon DEF StartExpecting, gate, worker, oracle, receipts, actor
<1>21. CASE Resume
  BY <1>21, Zenon DEF Resume, oracle, members, receipts, actor
<1>22. CASE StallPause
  BY <1>22, Zenon DEF StallPause, worker, oracle, members, receipts, actor
<1>23. CASE Unstall
  BY <1>23, Zenon DEF Unstall, gate, worker, oracle, members, receipts, actor
<1>24. CASE CaughtUp
  BY <1>24, Zenon DEF CaughtUp, worker, oracle, members, receipts, actor
<1> QED
  BY <1>1, <1>2, <1>3, <1>4, <1>5, <1>6, <1>7, <1>8, <1>9, <1>10, <1>11,
     <1>12, <1>13, <1>14, <1>15, <1>16, <1>17, <1>18, <1>19, <1>20, <1>21,
     <1>22, <1>23, <1>24, Zenon DEF Next

LEMMA MemberStep ==
  ASSUME Chat \notin Others, NumClients \in Nat \ {0}, ChatType, GateInv,
     MemberInv, [Next]_vars
  PROVE  MemberInv'
<1> USE DEF ChatType, GateInv, MemberInv, Exclusive
<1>1. CASE UNCHANGED vars
  BY <1>1, Zenon DEF vars
<1>2. ASSUME NEW w \in Others, OtherAcquires(w) PROVE MemberInv'
  BY <1>2, Zenon DEF OtherAcquires, Acquire, worker, oracle, members, receipts,
     actor, chaosVars
<1>3. ASSUME NEW w \in Others, OtherReleases(w) PROVE MemberInv'
  BY <1>3, Zenon DEF OtherReleases, Release, worker, oracle, members, receipts,
     actor, chaosVars
<1>4. CASE ChatAcquire
  BY <1>4, Zenon DEF ChatAcquire, Acquire, oracle, members, receipts, actor, chaosVars
<1>5. CASE ChatLabels
  BY <1>5, Zenon DEF ChatLabels, gate, oracle, members, receipts, actor, chaosVars
<1>6. CASE ExpectIntent
  BY <1>6, Zenon DEF ExpectIntent, gate, members, actor, chaosVars
<1>7. CASE ChatWrite
  BY <1>7, Zenon DEF ChatWrite, gate, oracle, members, receipts, chaosVars
<1>8. CASE ChatObserved
  BY <1>8, Zenon DEF ChatObserved, Release, oracle, members, receipts, actor, chaosVars
<1>9. CASE OnMessage
  BY <1>9, Zenon DEF OnMessage, gate, worker, members, chaosVars
<1>10. CASE OnConnect
  BY <1>10, Zenon DEF OnConnect, gate, worker, oracle, receipts, actor
<1>11. CASE OnDisconnect
  BY <1>11 DEF OnDisconnect, gate, worker, oracle, receipts, actor
<1>12. ASSUME NEW l \in Labels, Receive(l) PROVE MemberInv'
  BY <1>12, Zenon DEF Receive, gate, worker, oracle, members, actor, chaosVars
<1>13. ASSUME NEW l \in Labels, Disconnect(l) PROVE MemberInv'
  BY <1>13 DEF Disconnect, gate, worker, oracle, receipts, actor
<1>14. ASSUME NEW l \in Labels, Dial(l) PROVE MemberInv'
  BY <1>14, Zenon DEF Dial, gate, worker, oracle, members, receipts, actor
<1>15. ASSUME NEW l \in Labels, Stall(l) PROVE MemberInv'
  BY <1>15, Zenon DEF Stall, gate, worker, oracle, members, receipts, actor
<1>16. CASE Pause
  BY <1>16, Zenon DEF Pause, worker, oracle, members, receipts, actor
<1>17. CASE Drained
  BY <1>17, Zenon DEF Drained, gate, worker, oracle, members, receipts, actor
<1>18. CASE Quiesce
  BY <1>18, Zenon DEF Quiesce, gate, worker, oracle, receipts, actor
<1>19. CASE CloseAll
  BY <1>19, Zenon DEF CloseAll, gate, worker, oracle, receipts, actor
<1>20. CASE StartExpecting
  BY <1>20, Zenon DEF StartExpecting, gate, worker, oracle, receipts, actor
<1>21. CASE Resume
  BY <1>21, Zenon DEF Resume, oracle, members, receipts, actor
<1>22. CASE StallPause
  BY <1>22, Zenon DEF StallPause, worker, oracle, members, receipts, actor
<1>23. CASE Unstall
  BY <1>23, Zenon DEF Unstall, gate, worker, oracle, members, receipts, actor
<1>24. CASE CaughtUp
  BY <1>24, Zenon DEF CaughtUp, worker, oracle, members, receipts, actor
<1> QED
  BY <1>1, <1>2, <1>3, <1>4, <1>5, <1>6, <1>7, <1>8, <1>9, <1>10, <1>11,
     <1>12, <1>13, <1>14, <1>15, <1>16, <1>17, <1>18, <1>19, <1>20, <1>21,
     <1>22, <1>23, <1>24, Zenon DEF Next

LEMMA IntentStep ==
  ASSUME Chat \notin Others, NumClients \in Nat \ {0}, ChatType, GateInv,
     MemberInv, IntentInv, [Next]_vars
  PROVE  IntentInv'
<1> USE DEF ChatType, GateInv, MemberInv, IntentInv
<1>1. CASE UNCHANGED vars
  BY <1>1, Zenon DEF vars
<1>2. ASSUME NEW w \in Others, OtherAcquires(w) PROVE IntentInv'
  BY <1>2, Zenon DEF OtherAcquires, Acquire, worker, oracle, members, receipts,
     actor, chaosVars
<1>3. ASSUME NEW w \in Others, OtherReleases(w) PROVE IntentInv'
  BY <1>3, Zenon DEF OtherReleases, Release, worker, oracle, members, receipts,
     actor, chaosVars
<1>4. CASE ChatAcquire
  BY <1>4, Zenon DEF ChatAcquire, Acquire, oracle, members, receipts, actor, chaosVars
<1>5. CASE ChatLabels
  BY <1>5, Zenon DEF ChatLabels, gate, oracle, members, receipts, actor, chaosVars
<1>6. CASE ExpectIntent
  BY <1>6, Zenon DEF ExpectIntent, gate, members, actor, chaosVars
<1>7. CASE ChatWrite
  BY <1>7, Zenon DEF ChatWrite, gate, oracle, members, receipts, chaosVars
<1>8. CASE ChatObserved
  BY <1>8 DEF ChatObserved, Release, oracle, members, receipts, actor, chaosVars
<1>9. CASE OnMessage
  BY <1>9 DEF OnMessage, gate, worker, members, chaosVars
<1>10. CASE OnConnect
  BY <1>10, Zenon DEF OnConnect, gate, worker, oracle, receipts, actor
<1>11. CASE OnDisconnect
  BY <1>11, Zenon DEF OnDisconnect, gate, worker, oracle, receipts, actor
<1>12. ASSUME NEW l \in Labels, Receive(l) PROVE IntentInv'
  BY <1>12, Zenon DEF Receive, gate, worker, oracle, members, actor, chaosVars
<1>13. ASSUME NEW l \in Labels, Disconnect(l) PROVE IntentInv'
  BY <1>13, Zenon DEF Disconnect, gate, worker, oracle, receipts, actor
<1>14. ASSUME NEW l \in Labels, Dial(l) PROVE IntentInv'
  BY <1>14, Zenon DEF Dial, gate, worker, oracle, members, receipts, actor
<1>15. ASSUME NEW l \in Labels, Stall(l) PROVE IntentInv'
  BY <1>15, Zenon DEF Stall, gate, worker, oracle, members, receipts, actor
<1>16. CASE Pause
  BY <1>16, Zenon DEF Pause, worker, oracle, members, receipts, actor
<1>17. CASE Drained
  BY <1>17, Zenon DEF Drained, gate, worker, oracle, members, receipts, actor
<1>18. CASE Quiesce
  BY <1>18, Zenon DEF Quiesce, gate, worker, oracle, receipts, actor
<1>19. CASE CloseAll
  BY <1>19, Zenon DEF CloseAll, gate, worker, oracle, receipts, actor
<1>20. CASE StartExpecting
  BY <1>20, Zenon DEF StartExpecting, gate, worker, oracle, receipts, actor
<1>21. CASE Resume
  BY <1>21, Zenon DEF Resume, oracle, members, receipts, actor
<1>22. CASE StallPause
  BY <1>22, Zenon DEF StallPause, worker, oracle, members, receipts, actor
<1>23. CASE Unstall
  BY <1>23, Zenon DEF Unstall, gate, worker, oracle, members, receipts, actor
<1>24. CASE CaughtUp
  BY <1>24, Zenon DEF CaughtUp, worker, oracle, members, receipts, actor
<1> QED
  BY <1>1, <1>2, <1>3, <1>4, <1>5, <1>6, <1>7, <1>8, <1>9, <1>10, <1>11,
     <1>12, <1>13, <1>14, <1>15, <1>16, <1>17, <1>18, <1>19, <1>20, <1>21,
     <1>22, <1>23, <1>24, Zenon DEF Next

LEMMA LedgerStep ==
  ASSUME Chat \notin Others, NumClients \in Nat \ {0}, ChatType, GateInv,
     MemberInv, IntentInv, LedgerInv, [Next]_vars
  PROVE  LedgerInv'
<1> USE DEF ChatType
<1>1. CASE UNCHANGED vars
  BY <1>1, LedgerFrame, Zenon DEF vars
<1>2. ASSUME NEW w \in Others, OtherAcquires(w) PROVE LedgerInv'
  <2>1. /\ UNCHANGED <<truth, seq, targets, expected, received, net>>
        /\ ledgers \subseteq ledgers'
    BY <1>2, Zenon DEF OtherAcquires, worker, oracle, members, receipts, actor
  <2> QED
    BY <2>1, LedgerFrame, Zenon
<1>3. ASSUME NEW w \in Others, OtherReleases(w) PROVE LedgerInv'
  <2>1. /\ UNCHANGED <<truth, seq, targets, expected, received, net>>
        /\ ledgers \subseteq ledgers'
    BY <1>3, Zenon DEF OtherReleases, worker, oracle, members, receipts, actor
  <2> QED
    BY <2>1, LedgerFrame
<1>4. CASE ChatAcquire
  <2>1. /\ UNCHANGED <<truth, seq, targets, expected, received, net>>
        /\ ledgers \subseteq ledgers'
    BY <1>4, Zenon DEF ChatAcquire, worker, oracle, members, receipts, actor
  <2> QED
    BY <2>1, LedgerFrame, Zenon
<1>5. CASE ChatLabels
  <2>1. truth = seq /\ truth' = seq'
    BY <1>5, Zenon DEF ChatLabels, IntentInv, oracle, actor
  <2>2. \A l \in Labels : Due(l) = 0 /\ Due(l)' = 0
    BY <2>1, Zenon DEF Due
  <2>3. UNCHANGED <<truth, ledgers, expected, received, net>>
    BY <1>5, Zenon DEF ChatLabels, oracle, members, receipts
  <2> QED
    BY <2>2, <2>3 DEF LedgerInv, Ledger
<1>6. CASE ExpectIntent
  <2>1. truth = seq /\ truth' = truth + 1 /\ seq' = seq /\ targets' = targets
    BY <1>6, Zenon DEF ExpectIntent, IntentInv, actor
  <2>2. received' = received /\ net' = net /\ ledgers' = ledgers
    BY <1>6, Zenon DEF ExpectIntent, members
  <2>3. targets \subseteq ledgers
    BY <1>6, Zenon DEF ExpectIntent, MemberInv, GateInv, Exclusive
  <2> SUFFICES ASSUME NEW l \in Labels PROVE Ledger(l)'
    BY Zenon DEF LedgerInv
  <2>4. Ledger(l) /\ Due(l) = 0
    BY <2>1, Zenon DEF LedgerInv, Due
  <2>5. CASE l \in targets
    <3>1. expected'[l] = Append(expected[l], truth + 1) /\ Due(l)' = 1
      BY <1>6, <2>1, <2>5 DEF ExpectIntent, Due
    <3>2. /\ Len(expected'[l]) = Len(expected[l]) + 1
          /\ expected'[l][Len(expected[l]) + 1] = truth + 1
          /\ \A i \in 1 .. Len(expected[l]) : expected'[l][i] = expected[l][i]
      BY <3>1
    <3>3. /\ Len(expected[l]) \in Nat /\ Len(received[l]) \in Nat
          /\ Len(net[l]) \in Nat
          /\ \A i \in 1 .. Len(expected[l]) : expected[l][i] \in Nat
      OBVIOUS
    <3>4. Len(expected'[l]) = Len(received'[l]) + Len(net'[l]) + Due(l)'
      BY <2>2, <2>4, <3>1, <3>2, <3>3 DEF Ledger
    <3>5. \A i \in 1 .. Len(received'[l]) : received'[l][i] = expected'[l][i]
      <4>1. Len(received[l]) <= Len(expected[l])
        <5>1. Len(expected[l]) = Len(received[l]) + Len(net[l]) + 0
          BY <2>4, Zenon DEF Ledger
        <5> QED
          BY <3>3, <5>1
      <4> SUFFICES ASSUME NEW i \in 1 .. Len(received[l])
                   PROVE  received[l][i] = expected'[l][i]
        BY <2>2, Zenon
      <4>2. i \in 1 .. Len(expected[l])
        BY <3>3, <4>1
      <4> QED
        BY <2>4, <3>2, <4>2, Zenon DEF Ledger
    <3>6. \A i \in 1 .. Len(net'[l]) :
            net'[l][i] = expected'[l][Len(received'[l]) + i]
      <4> SUFFICES ASSUME NEW i \in 1 .. Len(net[l])
                   PROVE  net[l][i] = expected'[l][Len(received[l]) + i]
        BY <2>2, Zenon
      <4>1. Len(received[l]) + i \in 1 .. Len(expected[l])
        BY <2>4, <3>3 DEF Ledger
      <4> QED
        BY <2>4, <3>2, <4>1, Zenon DEF Ledger
    <3>7. expected'[l][Len(expected'[l])] = truth'
      BY <2>1, <3>2, Zenon
    <3>8. \A i \in 1 .. Len(expected'[l]) : expected'[l][i] <= truth'
      <4> SUFFICES ASSUME NEW i \in 1 .. Len(expected'[l])
                   PROVE  expected'[l][i] <= truth + 1
        BY <2>1, Zenon
      <4>1. CASE i \in 1 .. Len(expected[l])
        <5>1. expected'[l][i] = expected[l][i] /\ expected[l][i] <= truth
          BY <2>4, <3>2, <4>1, Zenon DEF Ledger
        <5>2. expected[l][i] \in Nat
          BY <3>3, <4>1, Zenon
        <5> QED
          BY <5>1, <5>2
      <4>2. CASE i = Len(expected[l]) + 1
        BY <3>2, <4>2
      <4> QED
        BY <3>2, <3>3, <4>1, <4>2
    <3>9. \A i, j \in 1 .. Len(expected'[l]) :
            i < j => expected'[l][i] < expected'[l][j]
      <4> SUFFICES ASSUME NEW i \in 1 .. Len(expected'[l]),
                          NEW j \in 1 .. Len(expected'[l]), i < j
                   PROVE  expected'[l][i] < expected'[l][j]
        BY Zenon
      <4>1. /\ i \in 1 .. Len(expected[l])
            /\ j \in 1 .. Len(expected[l]) \/ j = Len(expected[l]) + 1
        BY <3>2, <3>3, SMTT(30)
      <4>2. expected'[l][i] = expected[l][i] /\ expected[l][i] <= truth
        BY <2>4, <3>2, <4>1, Zenon DEF Ledger
      <4>3. CASE j \in 1 .. Len(expected[l])
        BY <2>4, <3>2, <4>1, <4>2, <4>3, Zenon DEF Ledger
      <4>4. CASE j = Len(expected[l]) + 1
        <5>1. expected'[l][j] = truth + 1 /\ expected[l][i] \in Nat
          BY <3>2, <3>3, <4>1, <4>4, Zenon
        <5> QED
          BY <4>2, <5>1
      <4> QED
        BY <4>1, <4>3, <4>4, Zenon
    <3>10. l \in ledgers'
      BY <2>2, <2>3, <2>5, Zenon
    <3> QED
      BY <3>4, <3>5, <3>6, <3>7, <3>8, <3>9, <3>10, Zenon DEF Ledger
  <2>6. CASE l \notin targets
    <3>1. expected'[l] = expected[l] /\ Due(l)' = 0
      BY <1>6, <2>1, <2>6, Zenon DEF ExpectIntent, Due
    <3> QED
      BY <2>1, <2>2, <2>4, <3>1 DEF Ledger
  <2> QED
    BY <2>5, <2>6, Zenon
<1>7. CASE ChatWrite
  <2>1. /\ UNCHANGED <<truth, seq, targets, expected, received, net>>
        /\ ledgers \subseteq ledgers'
    BY <1>7, Zenon DEF ChatWrite, worker, oracle, members, receipts, actor
  <2> QED
    BY <2>1, LedgerFrame, Zenon
<1>8. CASE ChatObserved
  <2>1. /\ UNCHANGED <<truth, seq, targets, expected, received, net>>
        /\ ledgers \subseteq ledgers'
    BY <1>8, Zenon DEF ChatObserved, worker, oracle, members, receipts, actor
  <2> QED
    BY <2>1, LedgerFrame
<1>9. CASE OnMessage
  <2>1. truth = seq + 1 /\ truth' = truth /\ seq' = seq + 1
    BY <1>9, Zenon DEF OnMessage, IntentInv
  <2>2. /\ received' = received /\ expected' = expected /\ ledgers' = ledgers
        /\ targets' = targets
    BY <1>9, Zenon DEF OnMessage, members, worker
  <2>3. targets = conns
    BY <2>1 DEF IntentInv, MemberInv, GateInv, Exclusive
  <2> SUFFICES ASSUME NEW l \in Labels PROVE Ledger(l)'
    BY Zenon DEF LedgerInv
  <2>4. Ledger(l) /\ Due(l)' = 0
    BY <2>1, Zenon DEF LedgerInv, Due
  <2>5. CASE l \in targets
    <3>1. net'[l] = Append(net[l], truth) /\ Due(l) = 1
      BY <1>9, <2>1, <2>3, <2>5 DEF OnMessage, Due
    <3>2. /\ Len(net'[l]) = Len(net[l]) + 1
          /\ net'[l][Len(net[l]) + 1] = truth
          /\ \A i \in 1 .. Len(net[l]) : net'[l][i] = net[l][i]
      BY <3>1
    <3>3. Len(received[l]) \in Nat /\ Len(net[l]) \in Nat
      OBVIOUS
    <3>4. Len(expected'[l]) = Len(received'[l]) + Len(net'[l]) + Due(l)'
      BY <2>2, <2>4, <3>1, <3>2, <3>3 DEF Ledger
    <3>5. \A i \in 1 .. Len(net'[l]) :
            net'[l][i] = expected'[l][Len(received'[l]) + i]
      <4> SUFFICES ASSUME NEW i \in 1 .. Len(net'[l])
                   PROVE  net'[l][i] = expected[l][Len(received[l]) + i]
        BY <2>2, Zenon
      <4>1. CASE i \in 1 .. Len(net[l])
        BY <2>4, <3>2, <4>1, Zenon DEF Ledger
      <4>2. CASE i = Len(net[l]) + 1
        <5>1. Len(received[l]) + i = Len(expected[l])
          BY <2>4, <3>1, <3>3, <4>2 DEF Ledger
        <5> QED
          BY <2>4, <3>1, <3>2, <4>2, <5>1, Zenon DEF Ledger
      <4> QED
        BY <3>2, <3>3, <4>1, <4>2
    <3>6. /\ \A i \in 1 .. Len(received'[l]) : received'[l][i] = expected'[l][i]
          /\ \A i \in 1 .. Len(expected'[l]) : expected'[l][i] <= truth'
          /\ \A i, j \in 1 .. Len(expected'[l]) :
               i < j => expected'[l][i] < expected'[l][j]
          /\ Len(expected'[l]) > 0 => l \in ledgers'
      BY <2>1, <2>2, <2>4, Zenon DEF Ledger
    <3>7. Due(l)' # 1
      BY <2>4
    <3> QED
      BY <3>4, <3>5, <3>6, <3>7, Zenon DEF Ledger
  <2>6. CASE l \notin targets
    <3>1. net'[l] = net[l] /\ Due(l) = 0
      BY <1>9, <2>3, <2>6, Zenon DEF OnMessage, Due
    <3> QED
      BY <2>1, <2>2, <2>4, <3>1, Zenon DEF Ledger
  <2> QED
    BY <2>5, <2>6, Zenon
<1>10. CASE OnConnect
  <2>1. /\ UNCHANGED <<truth, seq, targets, expected, received, net>>
        /\ ledgers \subseteq ledgers'
    BY <1>10, Zenon DEF OnConnect, worker, oracle, members, receipts, actor
  <2> QED
    BY <2>1, LedgerFrame, Zenon
<1>11. CASE OnDisconnect
  <2>1. /\ UNCHANGED <<truth, seq, targets, expected, received, net>>
        /\ ledgers \subseteq ledgers'
    BY <1>11, Zenon DEF OnDisconnect, worker, oracle, members, receipts, actor
  <2> QED
    BY <2>1, LedgerFrame
<1>12. ASSUME NEW l \in Labels, Receive(l) PROVE LedgerInv'
  <2>1. /\ truth' = truth /\ seq' = seq /\ targets' = targets
        /\ ledgers' = ledgers /\ expected' = expected
    BY <1>12, Zenon DEF Receive, oracle, actor, worker, members
  <2> SUFFICES ASSUME NEW k \in Labels PROVE Ledger(k)'
    BY Zenon DEF LedgerInv
  <2>2. Ledger(k) /\ Due(k)' = Due(k)
    BY <2>1, Zenon DEF LedgerInv, Due
  <2>3. CASE k = l
    <3>1. net[l] # << >> /\ net'[l] = Tail(net[l])
          /\ received'[l] = Append(received[l], Head(net[l]))
      BY <1>12, Zenon DEF Receive
    <3>2. /\ Len(net[l]) > 0 /\ Len(net'[l]) = Len(net[l]) - 1
          /\ \A i \in 1 .. Len(net'[l]) : net'[l][i] = net[l][i + 1]
      BY <3>1
    <3>3. /\ Len(received'[l]) = Len(received[l]) + 1
          /\ received'[l][Len(received[l]) + 1] = net[l][1]
          /\ \A i \in 1 .. Len(received[l]) : received'[l][i] = received[l][i]
      BY <3>1
    <3>4. /\ Len(expected[l]) = Len(received[l]) + Len(net[l]) + Due(l)
          /\ \A i \in 1 .. Len(received[l]) : received[l][i] = expected[l][i]
          /\ \A i \in 1 .. Len(net[l]) : net[l][i] = expected[l][Len(received[l]) + i]
      BY <2>2, <2>3, Zenon DEF Ledger
    <3>5. Due(l) \in {0, 1}
      BY Zenon DEF Due
    <3>6. Len(received[l]) \in Nat /\ Len(net[l]) \in Nat
      OBVIOUS
    <3>7. Len(expected'[l]) = Len(received'[l]) + Len(net'[l]) + Due(l)'
      BY <2>1, <2>2, <2>3, <3>2, <3>3, <3>4, <3>5, <3>6
    <3>8. \A i \in 1 .. Len(received'[l]) : received'[l][i] = expected'[l][i]
      <4> SUFFICES ASSUME NEW i \in 1 .. Len(received'[l])
                   PROVE  received'[l][i] = expected[l][i]
        BY <2>1, Zenon
      <4>1. i \in 1 .. Len(received[l]) \/ i = Len(received[l]) + 1
        BY <3>3, <3>6, SMTT(30)
      <4>2. net[l][1] = expected[l][Len(received[l]) + 1]
        BY <3>2, <3>4, <3>6
      <4> QED
        BY <3>3, <3>4, <4>1, <4>2, Zenon
    <3>9. \A i \in 1 .. Len(net'[l]) :
            net'[l][i] = expected'[l][Len(received'[l]) + i]
      <4> SUFFICES ASSUME NEW i \in 1 .. Len(net'[l])
                   PROVE  net'[l][i] = expected[l][Len(received'[l]) + i]
        BY <2>1, Zenon
      <4>1. i + 1 \in 1 .. Len(net[l]) /\ net'[l][i] = net[l][i + 1]
        BY <3>2, <3>6
      <4>2. net[l][i + 1] = expected[l][Len(received[l]) + (i + 1)]
        BY <3>4, <4>1, Zenon
      <4>3. Len(received'[l]) + i = Len(received[l]) + (i + 1)
        BY <3>3, <3>6, <4>1
      <4> QED
        BY <4>1, <4>2, <4>3, Zenon
    <3> QED
      BY <2>1, <2>2, <2>3, <3>7, <3>8, <3>9, Zenon DEF Ledger
  <2>4. CASE k # l
    <3>1. net'[k] = net[k] /\ received'[k] = received[k]
      BY <1>12, <2>4, Zenon DEF Receive
    <3> QED
      BY <2>1, <2>2, <3>1, Zenon DEF Ledger
  <2> QED
    BY <2>3, <2>4, Zenon
<1>13. ASSUME NEW l \in Labels, Disconnect(l) PROVE LedgerInv'
  <2>1. /\ UNCHANGED <<truth, seq, targets, expected, received, net>>
        /\ ledgers \subseteq ledgers'
    BY <1>13, Zenon DEF Disconnect, worker, oracle, members, receipts, actor
  <2> QED
    BY <2>1, LedgerFrame, Zenon
<1>14. ASSUME NEW l \in Labels, Dial(l) PROVE LedgerInv'
  <2>1. /\ UNCHANGED <<truth, seq, targets, expected, received, net>>
        /\ ledgers \subseteq ledgers'
    BY <1>14, Zenon DEF Dial, worker, oracle, members, receipts, actor
  <2> QED
    BY <2>1, LedgerFrame, Zenon
<1>15. ASSUME NEW l \in Labels, Stall(l) PROVE LedgerInv'
  <2>1. /\ UNCHANGED <<truth, seq, targets, expected, received, net>>
        /\ ledgers \subseteq ledgers'
    BY <1>15, Zenon DEF Stall, worker, oracle, members, receipts, actor
  <2> QED
    BY <2>1, LedgerFrame
<1>16. CASE Pause
  <2>1. /\ UNCHANGED <<truth, seq, targets, expected, received, net>>
        /\ ledgers \subseteq ledgers'
    BY <1>16, Zenon DEF Pause, worker, oracle, members, receipts, actor
  <2> QED
    BY <2>1, LedgerFrame, Zenon
<1>17. CASE Drained
  <2>1. /\ UNCHANGED <<truth, seq, targets, expected, received, net>>
        /\ ledgers \subseteq ledgers'
    BY <1>17, Zenon DEF Drained, worker, oracle, members, receipts, actor
  <2> QED
    BY <2>1, LedgerFrame
<1>18. CASE Quiesce
  <2>1. /\ UNCHANGED <<truth, seq, targets, expected, received, net>>
        /\ ledgers \subseteq ledgers'
    BY <1>18, Zenon DEF Quiesce, worker, oracle, members, receipts, actor
  <2> QED
    BY <2>1, LedgerFrame
<1>19. CASE CloseAll
  <2>1. /\ UNCHANGED <<truth, seq, targets, expected, received, net>>
        /\ ledgers \subseteq ledgers'
    BY <1>19, Zenon DEF CloseAll, worker, oracle, members, receipts, actor
  <2> QED
    BY <2>1, LedgerFrame
<1>20. CASE StartExpecting
  <2>1. /\ UNCHANGED <<truth, seq, targets, expected, received, net>>
        /\ ledgers \subseteq ledgers'
    BY <1>20, Zenon DEF StartExpecting, worker, oracle, members, receipts, actor
  <2> QED
    BY <2>1, LedgerFrame
<1>21. CASE Resume
  <2>1. /\ UNCHANGED <<truth, seq, targets, expected, received, net>>
        /\ ledgers \subseteq ledgers'
    BY <1>21, Zenon DEF Resume, worker, oracle, members, receipts, actor
  <2> QED
    BY <2>1, LedgerFrame
<1>22. CASE StallPause
  <2>1. /\ UNCHANGED <<truth, seq, targets, expected, received, net>>
        /\ ledgers \subseteq ledgers'
    BY <1>22, Zenon DEF StallPause, worker, oracle, members, receipts, actor
  <2> QED
    BY <2>1, LedgerFrame
<1>23. CASE Unstall
  <2>1. /\ UNCHANGED <<truth, seq, targets, expected, received, net>>
        /\ ledgers \subseteq ledgers'
    BY <1>23, Zenon DEF Unstall, worker, oracle, members, receipts, actor
  <2> QED
    BY <2>1, LedgerFrame
<1>24. CASE CaughtUp
  <2>1. /\ UNCHANGED <<truth, seq, targets, expected, received, net>>
        /\ ledgers \subseteq ledgers'
    BY <1>24, Zenon DEF CaughtUp, worker, oracle, members, receipts, actor
  <2> QED
    BY <2>1, LedgerFrame
<1> QED
  BY <1>1, <1>2, <1>3, <1>4, <1>5, <1>6, <1>7, <1>8, <1>9, <1>10, <1>11,
     <1>12, <1>13, <1>14, <1>15, <1>16, <1>17, <1>18, <1>19, <1>20, <1>21,
     <1>22, <1>23, <1>24, Zenon DEF Next

LEMMA AlarmStep ==
  ASSUME Chat \notin Others, NumClients \in Nat \ {0}, ChatType, GateInv,
     MemberInv, IntentInv, LedgerInv, NoFalseAlarm, [Next]_vars
  PROVE  NoFalseAlarm'
<1> USE DEF ChatType, NoFalseAlarm
<1>1. CASE UNCHANGED vars
  BY <1>1, Zenon DEF vars
<1>2. ASSUME NEW w \in Others, OtherAcquires(w) PROVE NoFalseAlarm'
  BY <1>2, Zenon DEF OtherAcquires, Acquire, worker, oracle, members, receipts,
     actor, chaosVars
<1>3. ASSUME NEW w \in Others, OtherReleases(w) PROVE NoFalseAlarm'
  BY <1>3, Zenon DEF OtherReleases, Release, worker, oracle, members, receipts,
     actor, chaosVars
<1>4. CASE ChatAcquire
  BY <1>4, Zenon DEF ChatAcquire, Acquire, oracle, members, receipts, actor, chaosVars
<1>5. CASE ChatLabels
  <2>1. clients # {}
    BY <1>5, Zenon DEF ChatLabels, GateInv, MemberInv, Exclusive
  <2> QED
    BY <1>5, <2>1, Zenon DEF ChatLabels, Report
<1>6. CASE ExpectIntent
  <2>1. targets \subseteq expecting
    BY <1>6, Zenon DEF ExpectIntent, GateInv, MemberInv, Exclusive
  <2> QED
    BY <1>6, <2>1, Zenon DEF ExpectIntent, Report
<1>7. CASE ChatWrite
  <2>1. targets \subseteq conns
    BY <1>7, Zenon DEF ChatWrite, GateInv, MemberInv, Exclusive
  <2> QED
    BY <1>7, <2>1, Zenon DEF ChatWrite, Report
<1>8. CASE ChatObserved
  BY <1>8, Zenon DEF ChatObserved, Release, oracle, members, receipts, actor, chaosVars
<1>9. CASE OnMessage
  <2>1. seq + 1 = truth
    BY <1>9, Zenon DEF OnMessage, IntentInv
  <2> QED
    BY <1>9, <2>1, Zenon DEF OnMessage, Report
<1>10. CASE OnConnect
  BY <1>10, Zenon DEF OnConnect, gate, worker, oracle, receipts, actor
<1>11. CASE OnDisconnect
  BY <1>11, Zenon DEF OnDisconnect, gate, worker, oracle, receipts, actor
<1>12. ASSUME NEW l \in Labels, Receive(l) PROVE NoFalseAlarm'
  <2>1. Ledger(l) /\ net[l] # << >> /\ Due(l) \in {0, 1}
    BY <1>12, Zenon DEF Receive, LedgerInv, Due
  <2>2. Len(net[l]) > 0 /\ Head(net[l]) = net[l][1]
    BY <2>1
  <2>3. l \in ledgers
    BY <2>1, <2>2 DEF Ledger
  <2>4. \A i \in 1 .. Len(received[l]) : received[l][i] < Head(net[l])
    <3> SUFFICES ASSUME NEW i \in 1 .. Len(received[l])
                 PROVE  received[l][i] < Head(net[l])
      BY Zenon
    <3>1. received[l][i] = expected[l][i]
      BY <2>1, Zenon DEF Ledger
    <3>2. Head(net[l]) = expected[l][Len(received[l]) + 1]
      BY <2>1, <2>2 DEF Ledger
    <3>3. i < Len(received[l]) + 1 /\ Len(received[l]) + 1 \in 1 .. Len(expected[l])
          /\ i \in 1 .. Len(expected[l])
      <4>1. Len(received[l]) \in Nat /\ Len(net[l]) \in Nat
        OBVIOUS
      <4>2. Len(expected[l]) = Len(received[l]) + Len(net[l]) + Due(l)
        BY <2>1, Zenon DEF Ledger
      <4>3. Len(net[l]) > 0 /\ (Due(l) = 0 \/ Due(l) = 1)
        BY <2>1, <2>2, Zenon
      <4>4. Len(received[l]) + 1 <= Len(expected[l]) /\ Len(expected[l]) \in Nat
        BY <4>1, <4>2, <4>3, SMTT(30)
      <4> QED
        BY <4>1, <4>4, SMTT(30)
    <3> QED
      BY <2>1, <3>1, <3>2, <3>3, ZenonT(30) DEF Ledger
  <2>5. \A i \in 1 .. Len(received[l]) : received[l][i] \in Nat
    OBVIOUS
  <2>6. Head(net[l]) \in Nat
    BY <2>2
  <2>7. ~(\E i \in 1 .. Len(received[l]) : received[l][i] >= Head(net[l]))
    BY <2>4, <2>5, <2>6
  <2> QED
    BY <1>12, <2>3, <2>7, Zenon DEF Receive, Report, Misordered
<1>13. ASSUME NEW l \in Labels, Disconnect(l) PROVE NoFalseAlarm'
  BY <1>13, Zenon DEF Disconnect, gate, worker, oracle, receipts, actor
<1>14. ASSUME NEW l \in Labels, Dial(l) PROVE NoFalseAlarm'
  BY <1>14, Zenon DEF Dial, gate, worker, oracle, members, receipts, actor
<1>15. ASSUME NEW l \in Labels, Stall(l) PROVE NoFalseAlarm'
  BY <1>15, Zenon DEF Stall, gate, worker, oracle, members, receipts, actor
<1>16. CASE Pause
  BY <1>16, Zenon DEF Pause, worker, oracle, members, receipts, actor
<1>17. CASE Drained
  BY <1>17, Zenon DEF Drained, gate, worker, oracle, members, receipts, actor
<1>18. CASE Quiesce
  BY <1>18, Zenon DEF Quiesce, gate, worker, oracle, receipts, actor
<1>19. CASE CloseAll
  BY <1>19, Zenon DEF CloseAll, gate, worker, oracle, receipts, actor
<1>20. CASE StartExpecting
  <2>1. victim \in connected
    BY <1>20, Zenon DEF StartExpecting, MemberInv
  <2> QED
    BY <1>20, <2>1, Zenon DEF StartExpecting, Report
<1>21. CASE Resume
  BY <1>21, Zenon DEF Resume, oracle, members, receipts, actor
<1>22. CASE StallPause
  BY <1>22, Zenon DEF StallPause, worker, oracle, members, receipts, actor
<1>23. CASE Unstall
  BY <1>23, Zenon DEF Unstall, gate, worker, oracle, members, receipts, actor
<1>24. CASE CaughtUp
  BY <1>24, Zenon DEF CaughtUp, worker, oracle, members, receipts, actor
<1> QED
  BY <1>1, <1>2, <1>3, <1>4, <1>5, <1>6, <1>7, <1>8, <1>9, <1>10, <1>11,
     <1>12, <1>13, <1>14, <1>15, <1>16, <1>17, <1>18, <1>19, <1>20, <1>21,
     <1>22, <1>23, <1>24, Zenon DEF Next

ChatInv ==
  ChatType /\ GateInv /\ MemberInv /\ IntentInv /\ LedgerInv /\ NoFalseAlarm

\* For any number of clients and of other workers, and however the workload,
\* the read loops and chaos interleave: the chat oracle never accuses a correct
\* runtime, and every ledger can still converge.
THEOREM ChatIsSound ==
  ASSUME Chat \notin Others, NumClients \in Nat \ {0}
  PROVE  Spec => [](NoFalseAlarm /\ ReceiptsArePrefix)
<1>1. Init => ChatInv
  <2> SUFFICES ASSUME Init PROVE ChatInv
    BY Zenon
  <2>1. ChatType
    <3>1. << >> \in Seq(Nat)
      OBVIOUS
    <3> QED
      BY <3>1, Zenon DEF Init, ChatType
  <2>2. GateInv
    BY Zenon DEF Init, GateInv, Exclusive
  <2>3. MemberInv
    BY Zenon DEF Init, MemberInv, Exclusive
  <2>4. IntentInv
    BY DEF Init, IntentInv
  <2>5. LedgerInv
    <3> SUFFICES ASSUME NEW l \in Labels PROVE Ledger(l)
      BY Zenon DEF LedgerInv
    <3>1. /\ expected[l] = << >> /\ received[l] = << >> /\ net[l] = << >>
          /\ Due(l) = 0
      BY Zenon DEF Init, Due
    <3>2. Len(<< >>) = 0
      BY Zenon
    <3> QED
      BY <3>1, <3>2 DEF Ledger
  <2>6. NoFalseAlarm
    BY Zenon DEF Init, NoFalseAlarm
  <2> QED
    BY <2>1, <2>2, <2>3, <2>4, <2>5, <2>6, Zenon DEF ChatInv
<1>2. ChatInv /\ [Next]_vars => ChatInv'
  BY ChatTypeStep, GateStep, MemberStep, IntentStep, LedgerStep, AlarmStep, Zenon
     DEF ChatInv
<1>3. ChatInv => ReceiptsArePrefix
  <2> SUFFICES ASSUME ChatInv, NEW l \in Labels
               PROVE  /\ Len(received[l]) <= Len(expected[l])
                      /\ \A i \in 1 .. Len(received[l]) :
                           received[l][i] = expected[l][i]
    BY Zenon DEF ReceiptsArePrefix
  <2>1. /\ Len(received[l]) \in Nat /\ Len(net[l]) \in Nat
        /\ Len(expected[l]) \in Nat
    BY DEF ChatInv, ChatType
  <2>2. Ledger(l)
    BY Zenon DEF ChatInv, LedgerInv
  <2>3. Due(l) = 0 \/ Due(l) = 1
    BY Zenon DEF Due
  <2>4. Len(expected[l]) = Len(received[l]) + Len(net[l]) + Due(l)
    BY <2>2, Zenon DEF Ledger
  <2>5. Len(received[l]) <= Len(expected[l])
    <3> DEFINE e == Len(expected[l]) r == Len(received[l]) n == Len(net[l])
               d == Due(l)
    <3>1. /\ e \in Nat /\ r \in Nat /\ n \in Nat /\ (d = 0 \/ d = 1)
          /\ e = r + n + d
      BY <2>1, <2>3, <2>4, Zenon
    <3> HIDE DEF e, r, n, d
    <3>2. r <= e
      BY <3>1
    <3> QED
      BY <3>2, Zenon DEF r, e
  <2> QED
    BY <2>2, <2>5, Zenon DEF Ledger
<1> QED
  BY <1>1, <1>2, <1>3, PTL DEF Spec, ChatInv

-----------------------------------------------------------------------------
(* The counter, SQL and alarm workloads.                                   *)

CONSTANTS Counters, Sql, Alarm

VARIABLES over, workFailed, workPaused, workHolding, place, cut, workTruth, actual, workOracle,
          alarm, due, fired, restart

Work == INSTANCE SoakWorkload WITH
  failed <- workFailed, paused <- workPaused, holding <- workHolding, truth <- workTruth,
  oracle <- workOracle

DistinctWorkers == Sql \notin Counters /\ Alarm \notin Work!Mutators

WorkType ==
  /\ over \in BOOLEAN /\ workFailed \in BOOLEAN /\ workPaused \in BOOLEAN /\ due \in BOOLEAN
  /\ place \in [Work!Workers -> {"idle", "sent", "applied", "waiting", "abandoned",
                            "stopped"}]
  /\ workHolding \subseteq Work!Workers
  /\ cut \subseteq Work!Workers
  /\ workTruth \in [Work!Mutators -> Nat] /\ actual \in [Work!Mutators -> Nat]
  /\ workOracle \in [armed : Nat, fired : Nat] /\ alarm \in [armed : Nat, fired : Nat]
  /\ restart \in {"idle", "pausing", "restarting", "stopped"}

\* Who holds the gate, and what only the cancellation brings about.
HoldersInv ==
  /\ \A w \in Work!Workers :
       /\ place[w] \in {"sent", "applied", "waiting"} => w \in workHolding
       /\ place[w] \in {"abandoned", "stopped"} => over
       /\ w \in cut => place[w] \in {"abandoned", "stopped"}
       /\ place[w] = "abandoned" => w \in cut
  /\ \A w \in Work!Mutators : place[w] # "waiting"
  /\ place[Alarm] # "applied"
  /\ Sql \notin cut
  /\ restart \in {"pausing", "restarting"} => workPaused
  /\ restart = "restarting" => workHolding = {}

\* A model differs from its actor only between the update and the answer.
CountersInv ==
  \A w \in Work!Mutators \ cut :
    actual[w] = IF place[w] = "applied" THEN workTruth[w] + 1 ELSE workTruth[w]

\* No alarm is pending, or exactly the last one armed is.
Settled ==
  /\ alarm = workOracle /\ workOracle.fired = workOracle.armed
  /\ ~due /\ fired = {}

Pending ==
  /\ alarm.armed = workOracle.armed /\ workOracle.fired + 1 = workOracle.armed
  /\ \/ due /\ alarm.fired = workOracle.fired /\ fired = {}
     \/ ~due /\ alarm.fired = workOracle.armed /\ fired = {workOracle.armed}

Sent ==
  /\ workOracle.armed = alarm.armed + 1 /\ workOracle.fired = alarm.fired
  /\ alarm.fired = alarm.armed
  /\ ~due /\ fired = {}

AlarmInv ==
  Alarm \notin cut =>
    /\ place[Alarm] = "idle" => Settled
    /\ place[Alarm] = "sent" => Sent
    /\ place[Alarm] = "waiting" => Pending
    /\ place[Alarm] = "stopped" => Settled \/ Pending

LEMMA WorkTypeStep ==
  ASSUME DistinctWorkers, WorkType, HoldersInv, [Work!Next]_Work!vars
  PROVE  WorkType'
<1> USE DEF WorkType, Work!Workers, Work!Mutators
<1>1. CASE UNCHANGED Work!vars
  BY <1>1, Zenon DEF Work!vars, Work!gateVars, Work!alarmVars, Work!countVars
<1>2. CASE Work!TimerFires
  BY <1>2, Zenon DEF Work!TimerFires, Work!Goto, Work!gateVars, Work!alarmVars, Work!countVars
<1>3. ASSUME NEW w \in Work!Workers, Work!Finish(w) PROVE WorkType'
  BY <1>3, Zenon DEF Work!Finish, Work!Goto, Work!gateVars, Work!alarmVars, Work!countVars
<1>4. ASSUME NEW w \in Work!Workers, Work!Send(w) PROVE WorkType'
  BY <1>4, Zenon DEF Work!Send, Work!Goto, Work!Acquire, Work!gateVars, Work!alarmVars,
     Work!countVars
<1>5. ASSUME NEW w \in Work!Workers, Work!Apply(w) PROVE WorkType'
  BY <1>5 DEF Work!Apply, Work!Goto, Work!gateVars, Work!alarmVars, Work!countVars
<1>6. ASSUME NEW w \in Work!Workers, Work!Answered(w) PROVE WorkType'
  <2>1. w \in Work!Mutators
    BY <1>6, Zenon DEF Work!Answered, HoldersInv, DistinctWorkers
  <2>2. workTruth' \in [Work!Mutators -> Nat]
    BY <1>6, <2>1 DEF Work!Answered
  <2>3. workFailed' \in BOOLEAN
    BY <1>6, Zenon DEF Work!Answered, Work!Compare
  <2> QED
    BY <1>6, <2>2, <2>3, Zenon DEF Work!Answered, Work!Goto, Work!Release, Work!gateVars,
       Work!alarmVars,
       Work!countVars
<1>7. ASSUME NEW w \in Work!Workers, Work!CutOff(w) PROVE WorkType'
  BY <1>7, Zenon DEF Work!CutOff, Work!Goto, Work!Release, Work!gateVars, Work!alarmVars,
     Work!countVars
<1>8. ASSUME NEW w \in Work!Workers, Work!LateApply(w) PROVE WorkType'
  BY <1>8 DEF Work!LateApply, Work!Goto, Work!gateVars, Work!alarmVars, Work!countVars
<1>9. CASE Work!ExpectArm
  BY <1>9 DEF Work!ExpectArm, Work!Goto, Work!Acquire, Work!gateVars, Work!alarmVars, Work!countVars
<1>10. CASE Work!Arm
  BY <1>10 DEF Work!Arm, Work!Goto, Work!Compare, Work!gateVars, Work!alarmVars, Work!countVars
<1>11. CASE Work!OnAlarm
  <2>1. alarm' \in [armed : Nat, fired : Nat]
    BY <1>11 DEF Work!OnAlarm
  <2> QED
    BY <1>11, <2>1, Zenon DEF Work!OnAlarm, Work!gateVars, Work!countVars
<1>12. CASE Work!AlarmTaken
  BY <1>12 DEF Work!AlarmTaken, Work!Goto, Work!Release, Work!ExpectFire, Work!gateVars,
     Work!alarmVars,
     Work!countVars
<1>13. CASE Work!AlarmCutOff
  BY <1>13, Zenon DEF Work!AlarmCutOff, Work!Goto, Work!Release, Work!gateVars, Work!alarmVars,
     Work!countVars
<1>14. CASE Work!LateArm
  <2>1. CASE alarm' = [alarm EXCEPT !.armed = alarm.armed + 1] /\ due' = TRUE
    <3>1. alarm' \in [armed : Nat, fired : Nat]
      BY <2>1
    <3>2. due' \in BOOLEAN
      BY <2>1, Zenon
    <3> QED
      BY <1>14, <3>1, <3>2, Zenon DEF Work!LateArm, Work!Goto, Work!gateVars, Work!countVars
  <2>2. CASE UNCHANGED <<alarm, due>>
    BY <1>14, <2>2, Zenon DEF Work!LateArm, Work!Goto, Work!gateVars, Work!countVars
  <2> QED
    BY <1>14, <2>1, <2>2, Zenon DEF Work!LateArm
<1>15. CASE Work!RestartPause
  BY <1>15, Zenon DEF Work!RestartPause, Work!Goto, Work!gateVars, Work!alarmVars, Work!countVars
<1>16. CASE Work!RestartBegin
  BY <1>16, Zenon DEF Work!RestartBegin, Work!Goto, Work!gateVars, Work!alarmVars, Work!countVars
<1>17. CASE Work!RestartDone
  BY <1>17, Zenon DEF Work!RestartDone, Work!Goto, Work!gateVars, Work!alarmVars, Work!countVars
<1>18. CASE Work!RestartCutOff
  BY <1>18, Zenon DEF Work!RestartCutOff, Work!Goto, Work!gateVars, Work!alarmVars, Work!countVars
<1>19. CASE Work!FinalFire
  BY <1>19 DEF Work!FinalFire, Work!Goto, Work!ExpectFire, Work!AllStopped, Work!gateVars,
     Work!alarmVars,
     Work!countVars
<1>20. CASE Work!FinalOracles
  BY <1>20, Zenon DEF Work!FinalOracles, Work!Goto, Work!AllStopped, Work!gateVars, Work!alarmVars,
     Work!countVars
<1> HIDE DEF WorkType, Work!Workers, Work!Mutators
<1> QED
  BY <1>1, <1>2, <1>3, <1>4, <1>5, <1>6, <1>7, <1>8, <1>9,
     <1>10, <1>11, <1>12, <1>13, <1>14, <1>15, <1>16, <1>17, <1>18,
     <1>19, <1>20, Zenon DEF Work!Next

LEMMA HoldersStep ==
  ASSUME DistinctWorkers, WorkType, HoldersInv, [Work!Next]_Work!vars
  PROVE  HoldersInv'
<1> USE DEF WorkType, HoldersInv, DistinctWorkers, Work!Workers, Work!Mutators
<1>1. CASE UNCHANGED Work!vars
  BY <1>1, Zenon DEF Work!vars, Work!gateVars, Work!alarmVars, Work!countVars
<1>2. CASE Work!TimerFires
  BY <1>2, Zenon DEF Work!TimerFires, Work!Goto, Work!gateVars, Work!alarmVars, Work!countVars
<1>3. ASSUME NEW w \in Work!Workers, Work!Finish(w) PROVE HoldersInv'
  BY <1>3, Zenon DEF Work!Finish, Work!Goto, Work!gateVars, Work!alarmVars, Work!countVars
<1>4. ASSUME NEW w \in Work!Workers, Work!Send(w) PROVE HoldersInv'
  BY <1>4, Zenon DEF Work!Send, Work!Goto, Work!Acquire, Work!gateVars, Work!alarmVars,
     Work!countVars
<1>5. ASSUME NEW w \in Work!Workers, Work!Apply(w) PROVE HoldersInv'
  BY <1>5, Zenon DEF Work!Apply, Work!Goto, Work!gateVars, Work!alarmVars, Work!countVars
<1>6. ASSUME NEW w \in Work!Workers, Work!Answered(w) PROVE HoldersInv'
  BY <1>6, Zenon DEF Work!Answered, Work!Goto, Work!Release, Work!Compare, Work!gateVars,
     Work!alarmVars, Work!countVars
<1>7. ASSUME NEW w \in Work!Workers, Work!CutOff(w) PROVE HoldersInv'
  BY <1>7, Zenon DEF Work!CutOff, Work!Goto, Work!Release, Work!gateVars, Work!alarmVars,
     Work!countVars
<1>8. ASSUME NEW w \in Work!Workers, Work!LateApply(w) PROVE HoldersInv'
  BY <1>8, Zenon DEF Work!LateApply, Work!Goto, Work!gateVars, Work!alarmVars, Work!countVars
<1>9. CASE Work!ExpectArm
  BY <1>9, Zenon DEF Work!ExpectArm, Work!Goto, Work!Acquire, Work!gateVars, Work!alarmVars,
     Work!countVars
<1>10. CASE Work!Arm
  BY <1>10, Zenon DEF Work!Arm, Work!Goto, Work!Compare, Work!gateVars, Work!alarmVars,
     Work!countVars
<1>11. CASE Work!OnAlarm
  BY <1>11, Zenon DEF Work!OnAlarm, Work!Goto, Work!gateVars, Work!alarmVars, Work!countVars
<1>12. CASE Work!AlarmTaken
  BY <1>12, Zenon DEF Work!AlarmTaken, Work!Goto, Work!Release, Work!ExpectFire, Work!gateVars,
     Work!alarmVars,
     Work!countVars
<1>13. CASE Work!AlarmCutOff
  BY <1>13, Zenon DEF Work!AlarmCutOff, Work!Goto, Work!Release, Work!gateVars, Work!alarmVars,
     Work!countVars
<1>14. CASE Work!LateArm
  BY <1>14, Zenon DEF Work!LateArm, Work!Goto, Work!gateVars, Work!alarmVars, Work!countVars
<1>15. CASE Work!RestartPause
  BY <1>15, Zenon DEF Work!RestartPause, Work!Goto, Work!gateVars, Work!alarmVars, Work!countVars
<1>16. CASE Work!RestartBegin
  BY <1>16, Zenon DEF Work!RestartBegin, Work!Goto, Work!gateVars, Work!alarmVars, Work!countVars
<1>17. CASE Work!RestartDone
  BY <1>17, Zenon DEF Work!RestartDone, Work!Goto, Work!gateVars, Work!alarmVars, Work!countVars
<1>18. CASE Work!RestartCutOff
  BY <1>18, Zenon DEF Work!RestartCutOff, Work!Goto, Work!gateVars, Work!alarmVars, Work!countVars
<1>19. CASE Work!FinalFire
  BY <1>19, Zenon DEF Work!FinalFire, Work!Goto, Work!ExpectFire, Work!AllStopped, Work!gateVars,
     Work!alarmVars,
     Work!countVars
<1>20. CASE Work!FinalOracles
  BY <1>20, Zenon DEF Work!FinalOracles, Work!Goto, Work!AllStopped, Work!gateVars, Work!alarmVars,
     Work!countVars
<1> HIDE DEF WorkType, HoldersInv, DistinctWorkers, Work!Workers, Work!Mutators
<1> QED
  BY <1>1, <1>2, <1>3, <1>4, <1>5, <1>6, <1>7, <1>8, <1>9,
     <1>10, <1>11, <1>12, <1>13, <1>14, <1>15, <1>16, <1>17, <1>18,
     <1>19, <1>20, Zenon DEF Work!Next

LEMMA CountersStep ==
  ASSUME DistinctWorkers, WorkType, HoldersInv, CountersInv, [Work!Next]_Work!vars
  PROVE  CountersInv'
<1> USE DEF WorkType, HoldersInv, CountersInv, DistinctWorkers, Work!Workers, Work!Mutators
<1>1. CASE UNCHANGED Work!vars
  BY <1>1, Zenon DEF Work!vars, Work!gateVars, Work!alarmVars, Work!countVars
<1>2. CASE Work!TimerFires
  BY <1>2, Zenon DEF Work!TimerFires, Work!Goto, Work!gateVars, Work!alarmVars, Work!countVars
<1>3. ASSUME NEW w \in Work!Workers, Work!Finish(w) PROVE CountersInv'
  BY <1>3, Zenon DEF Work!Finish, Work!Goto, Work!gateVars, Work!alarmVars, Work!countVars
<1>4. ASSUME NEW w \in Work!Workers, Work!Send(w) PROVE CountersInv'
  BY <1>4, Zenon DEF Work!Send, Work!Goto, Work!Acquire, Work!gateVars, Work!alarmVars,
     Work!countVars
<1>5. ASSUME NEW w \in Work!Workers, Work!Apply(w) PROVE CountersInv'
  BY <1>5, Zenon DEF Work!Apply, Work!Goto, Work!gateVars, Work!alarmVars, Work!countVars
<1>6. ASSUME NEW w \in Work!Workers, Work!Answered(w) PROVE CountersInv'
  BY <1>6, Zenon DEF Work!Answered, Work!Goto, Work!Release, Work!Compare, Work!gateVars,
     Work!alarmVars, Work!countVars
<1>7. ASSUME NEW w \in Work!Workers, Work!CutOff(w) PROVE CountersInv'
  BY <1>7, Zenon DEF Work!CutOff, Work!Goto, Work!Release, Work!gateVars, Work!alarmVars,
     Work!countVars
<1>8. ASSUME NEW w \in Work!Workers, Work!LateApply(w) PROVE CountersInv'
  BY <1>8 DEF Work!LateApply, Work!Goto, Work!gateVars, Work!alarmVars, Work!countVars
<1>9. CASE Work!ExpectArm
  BY <1>9, Zenon DEF Work!ExpectArm, Work!Goto, Work!Acquire, Work!gateVars, Work!alarmVars,
     Work!countVars
<1>10. CASE Work!Arm
  BY <1>10, Zenon DEF Work!Arm, Work!Goto, Work!Compare, Work!gateVars, Work!alarmVars,
     Work!countVars
<1>11. CASE Work!OnAlarm
  BY <1>11, Zenon DEF Work!OnAlarm, Work!Goto, Work!gateVars, Work!alarmVars, Work!countVars
<1>12. CASE Work!AlarmTaken
  BY <1>12, Zenon DEF Work!AlarmTaken, Work!Goto, Work!Release, Work!ExpectFire, Work!gateVars,
     Work!alarmVars,
     Work!countVars
<1>13. CASE Work!AlarmCutOff
  BY <1>13, Zenon DEF Work!AlarmCutOff, Work!Goto, Work!Release, Work!gateVars, Work!alarmVars,
     Work!countVars
<1>14. CASE Work!LateArm
  BY <1>14, Zenon DEF Work!LateArm, Work!Goto, Work!gateVars, Work!alarmVars, Work!countVars
<1>15. CASE Work!RestartPause
  BY <1>15, Zenon DEF Work!RestartPause, Work!Goto, Work!gateVars, Work!alarmVars, Work!countVars
<1>16. CASE Work!RestartBegin
  BY <1>16, Zenon DEF Work!RestartBegin, Work!Goto, Work!gateVars, Work!alarmVars, Work!countVars
<1>17. CASE Work!RestartDone
  BY <1>17, Zenon DEF Work!RestartDone, Work!Goto, Work!gateVars, Work!alarmVars, Work!countVars
<1>18. CASE Work!RestartCutOff
  BY <1>18, Zenon DEF Work!RestartCutOff, Work!Goto, Work!gateVars, Work!alarmVars, Work!countVars
<1>19. CASE Work!FinalFire
  BY <1>19, Zenon DEF Work!FinalFire, Work!Goto, Work!ExpectFire, Work!AllStopped, Work!gateVars,
     Work!alarmVars,
     Work!countVars
<1>20. CASE Work!FinalOracles
  BY <1>20, Zenon DEF Work!FinalOracles, Work!Goto, Work!AllStopped, Work!gateVars, Work!alarmVars,
     Work!countVars
<1> HIDE DEF WorkType, HoldersInv, CountersInv, DistinctWorkers, Work!Workers, Work!Mutators
<1> QED
  BY <1>1, <1>2, <1>3, <1>4, <1>5, <1>6, <1>7, <1>8, <1>9,
     <1>10, <1>11, <1>12, <1>13, <1>14, <1>15, <1>16, <1>17, <1>18,
     <1>19, <1>20, Zenon DEF Work!Next

LEMMA ArmedStep ==
  ASSUME DistinctWorkers, WorkType, HoldersInv, AlarmInv, [Work!Next]_Work!vars
  PROVE  AlarmInv'
<1> USE DEF WorkType, HoldersInv, AlarmInv, Settled, Pending, Sent,
  DistinctWorkers, Work!Workers, Work!Mutators
<1>1. CASE UNCHANGED Work!vars
  BY <1>1, Zenon DEF Work!vars, Work!gateVars, Work!alarmVars, Work!countVars
<1>2. CASE Work!TimerFires
  BY <1>2, Zenon DEF Work!TimerFires, Work!Goto, Work!gateVars, Work!alarmVars, Work!countVars
<1>3. ASSUME NEW w \in Work!Workers, Work!Finish(w) PROVE AlarmInv'
  BY <1>3, Zenon DEF Work!Finish, Work!Goto, Work!gateVars, Work!alarmVars, Work!countVars
<1>4. ASSUME NEW w \in Work!Workers, Work!Send(w) PROVE AlarmInv'
  BY <1>4, Zenon DEF Work!Send, Work!Goto, Work!Acquire, Work!gateVars, Work!alarmVars,
     Work!countVars
<1>5. ASSUME NEW w \in Work!Workers, Work!Apply(w) PROVE AlarmInv'
  BY <1>5, Zenon DEF Work!Apply, Work!Goto, Work!gateVars, Work!alarmVars, Work!countVars
<1>6. ASSUME NEW w \in Work!Workers, Work!Answered(w) PROVE AlarmInv'
  BY <1>6, Zenon DEF Work!Answered, Work!Goto, Work!Release, Work!Compare, Work!gateVars,
     Work!alarmVars, Work!countVars
<1>7. ASSUME NEW w \in Work!Workers, Work!CutOff(w) PROVE AlarmInv'
  BY <1>7, Zenon DEF Work!CutOff, Work!Goto, Work!Release, Work!gateVars, Work!alarmVars,
     Work!countVars
<1>8. ASSUME NEW w \in Work!Workers, Work!LateApply(w) PROVE AlarmInv'
  BY <1>8, Zenon DEF Work!LateApply, Work!Goto, Work!gateVars, Work!alarmVars, Work!countVars
<1>9. CASE Work!ExpectArm
  BY <1>9, Zenon DEF Work!ExpectArm, Work!Goto, Work!Acquire, Work!gateVars, Work!alarmVars,
     Work!countVars
<1>10. CASE Work!Arm
  BY <1>10, Zenon DEF Work!Arm, Work!Goto, Work!Compare, Work!gateVars, Work!alarmVars,
     Work!countVars
<1>11. CASE Work!OnAlarm
  BY <1>11, Zenon DEF Work!OnAlarm, Work!Goto, Work!gateVars, Work!alarmVars, Work!countVars
<1>12. CASE Work!AlarmTaken
  BY <1>12 DEF Work!AlarmTaken, Work!Goto, Work!Release, Work!ExpectFire, Work!gateVars,
     Work!alarmVars,
     Work!countVars
<1>13. CASE Work!AlarmCutOff
  BY <1>13, Zenon DEF Work!AlarmCutOff, Work!Goto, Work!Release, Work!gateVars, Work!alarmVars,
     Work!countVars
<1>14. CASE Work!LateArm
  BY <1>14, Zenon DEF Work!LateArm, Work!Goto, Work!gateVars, Work!alarmVars, Work!countVars
<1>15. CASE Work!RestartPause
  BY <1>15, Zenon DEF Work!RestartPause, Work!Goto, Work!gateVars, Work!alarmVars, Work!countVars
<1>16. CASE Work!RestartBegin
  BY <1>16, Zenon DEF Work!RestartBegin, Work!Goto, Work!gateVars, Work!alarmVars, Work!countVars
<1>17. CASE Work!RestartDone
  BY <1>17, Zenon DEF Work!RestartDone, Work!Goto, Work!gateVars, Work!alarmVars, Work!countVars
<1>18. CASE Work!RestartCutOff
  BY <1>18, Zenon DEF Work!RestartCutOff, Work!Goto, Work!gateVars, Work!alarmVars, Work!countVars
<1>19. CASE Work!FinalFire
  BY <1>19 DEF Work!FinalFire, Work!Goto, Work!ExpectFire, Work!AllStopped, Work!gateVars,
     Work!alarmVars,
     Work!countVars
<1>20. CASE Work!FinalOracles
  BY <1>20, Zenon DEF Work!FinalOracles, Work!Goto, Work!AllStopped, Work!gateVars, Work!alarmVars,
     Work!countVars
<1> HIDE DEF WorkType, HoldersInv, AlarmInv, Settled, Pending, Sent,
  DistinctWorkers, Work!Workers, Work!Mutators
<1> QED
  BY <1>1, <1>2, <1>3, <1>4, <1>5, <1>6, <1>7, <1>8, <1>9,
     <1>10, <1>11, <1>12, <1>13, <1>14, <1>15, <1>16, <1>17, <1>18,
     <1>19, <1>20, Zenon DEF Work!Next

LEMMA AccusesStep ==
  ASSUME DistinctWorkers, WorkType, HoldersInv, CountersInv, AlarmInv,
     Work!AccusesOnlyWhenCut, [Work!Next]_Work!vars
  PROVE  Work!AccusesOnlyWhenCut'
<1> USE DEF WorkType, HoldersInv, CountersInv, AlarmInv, Work!AccusesOnlyWhenCut,
   Settled, Pending,
            Sent, DistinctWorkers, Work!Workers, Work!Mutators
<1>1. CASE UNCHANGED Work!vars
  BY <1>1, Zenon DEF Work!vars, Work!gateVars, Work!alarmVars, Work!countVars
<1>2. CASE Work!TimerFires
  BY <1>2, Zenon DEF Work!TimerFires, Work!Goto, Work!gateVars, Work!alarmVars, Work!countVars
<1>3. ASSUME NEW w \in Work!Workers, Work!Finish(w) PROVE Work!AccusesOnlyWhenCut'
  BY <1>3, Zenon DEF Work!Finish, Work!Goto, Work!gateVars, Work!alarmVars, Work!countVars
<1>4. ASSUME NEW w \in Work!Workers, Work!Send(w) PROVE Work!AccusesOnlyWhenCut'
  BY <1>4, Zenon DEF Work!Send, Work!Goto, Work!Acquire, Work!gateVars, Work!alarmVars,
     Work!countVars
<1>5. ASSUME NEW w \in Work!Workers, Work!Apply(w) PROVE Work!AccusesOnlyWhenCut'
  BY <1>5, Zenon DEF Work!Apply, Work!Goto, Work!gateVars, Work!alarmVars, Work!countVars
<1>6. ASSUME NEW w \in Work!Workers, Work!Answered(w) PROVE Work!AccusesOnlyWhenCut'
  BY <1>6, Zenon DEF Work!Answered, Work!Goto, Work!Release, Work!Compare, Work!gateVars,
     Work!alarmVars, Work!countVars
<1>7. ASSUME NEW w \in Work!Workers, Work!CutOff(w) PROVE Work!AccusesOnlyWhenCut'
  BY <1>7, Zenon DEF Work!CutOff, Work!Goto, Work!Release, Work!gateVars, Work!alarmVars,
     Work!countVars
<1>8. ASSUME NEW w \in Work!Workers, Work!LateApply(w) PROVE Work!AccusesOnlyWhenCut'
  BY <1>8, Zenon DEF Work!LateApply, Work!Goto, Work!gateVars, Work!alarmVars, Work!countVars
<1>9. CASE Work!ExpectArm
  BY <1>9, Zenon DEF Work!ExpectArm, Work!Goto, Work!Acquire, Work!gateVars, Work!alarmVars,
     Work!countVars
<1>10. CASE Work!Arm
  BY <1>10 DEF Work!Arm, Work!Goto, Work!Compare, Work!gateVars, Work!alarmVars, Work!countVars
<1>11. CASE Work!OnAlarm
  BY <1>11, Zenon DEF Work!OnAlarm, Work!Goto, Work!gateVars, Work!alarmVars, Work!countVars
<1>12. CASE Work!AlarmTaken
  BY <1>12 DEF Work!AlarmTaken, Work!Goto, Work!Release, Work!ExpectFire, Work!gateVars,
     Work!alarmVars,
     Work!countVars
<1>13. CASE Work!AlarmCutOff
  BY <1>13, Zenon DEF Work!AlarmCutOff, Work!Goto, Work!Release, Work!gateVars, Work!alarmVars,
     Work!countVars
<1>14. CASE Work!LateArm
  BY <1>14, Zenon DEF Work!LateArm, Work!Goto, Work!gateVars, Work!alarmVars, Work!countVars
<1>15. CASE Work!RestartPause
  BY <1>15, Zenon DEF Work!RestartPause, Work!Goto, Work!gateVars, Work!alarmVars, Work!countVars
<1>16. CASE Work!RestartBegin
  BY <1>16, Zenon DEF Work!RestartBegin, Work!Goto, Work!gateVars, Work!alarmVars, Work!countVars
<1>17. CASE Work!RestartDone
  BY <1>17, Zenon DEF Work!RestartDone, Work!Goto, Work!gateVars, Work!alarmVars, Work!countVars
<1>18. CASE Work!RestartCutOff
  BY <1>18, Zenon DEF Work!RestartCutOff, Work!Goto, Work!gateVars, Work!alarmVars, Work!countVars
<1>19. CASE Work!FinalFire
  BY <1>19 DEF Work!FinalFire, Work!Goto, Work!ExpectFire, Work!AllStopped, Work!gateVars,
     Work!alarmVars,
     Work!countVars
<1>20. CASE Work!FinalOracles
  BY <1>20 DEF Work!FinalOracles, Work!Goto, Work!AllStopped, Work!gateVars, Work!alarmVars,
     Work!countVars
<1> HIDE DEF WorkType, HoldersInv, CountersInv, AlarmInv, Work!AccusesOnlyWhenCut,
   Settled, Pending,
            Sent, DistinctWorkers, Work!Workers, Work!Mutators
<1> QED
  BY <1>1, <1>2, <1>3, <1>4, <1>5, <1>6, <1>7, <1>8, <1>9,
     <1>10, <1>11, <1>12, <1>13, <1>14, <1>15, <1>16, <1>17, <1>18,
     <1>19, <1>20, Zenon DEF Work!Next

WorkInv == WorkType /\ HoldersInv /\ CountersInv /\ AlarmInv /\ Work!AccusesOnlyWhenCut

\* For any number of counters and any moment at which the timer fires, the
\* soak test's comparisons accuse a correct runtime only for a request that the
\* timer cut off; its row count is exact; a restart finds the alarm settled.
THEOREM WorkloadIsSound ==
  ASSUME DistinctWorkers
  PROVE  Work!Spec => [](Work!AccusesOnlyWhenCut /\ Work!RowsExact /\ Work!RestartConverges)
<1>1. Work!Init => WorkInv
  <2> SUFFICES ASSUME Work!Init PROVE WorkInv
    BY Zenon
  <2>1. WorkType
    BY Zenon DEF Work!Init, WorkType, Work!Workers, Work!Mutators
  <2>2. HoldersInv
    BY Zenon DEF Work!Init, HoldersInv, Work!Workers, Work!Mutators
  <2>3. CountersInv
    BY Zenon DEF Work!Init, CountersInv, Work!Workers, Work!Mutators
  <2>4. AlarmInv
    BY Zenon DEF Work!Init, AlarmInv, Settled, Work!Workers
  <2>5. Work!AccusesOnlyWhenCut
    BY Zenon DEF Work!Init, Work!AccusesOnlyWhenCut
  <2> QED
    BY <2>1, <2>2, <2>3, <2>4, <2>5, Zenon DEF WorkInv
<1>2. WorkInv /\ [Work!Next]_Work!vars => WorkInv'
  BY WorkTypeStep, HoldersStep, CountersStep, ArmedStep, AccusesStep, Zenon DEF WorkInv
<1>3. WorkInv => Work!RowsExact
  BY Zenon DEF WorkInv, CountersInv, HoldersInv, Work!RowsExact, Work!Mutators
<1>4. WorkInv => Work!RestartConverges
  BY Zenon DEF WorkInv, WorkType, HoldersInv, AlarmInv, Settled, Work!RestartConverges,
     Work!Workers
<1>5. WorkInv => Work!AccusesOnlyWhenCut
  BY Zenon DEF WorkInv
<1> QED
  BY <1>1, <1>2, <1>3, <1>4, <1>5, PTL DEF Work!Spec
=============================================================================
