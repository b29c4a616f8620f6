------------------------- MODULE SaveProtocolProofs -------------------------
(***************************************************************************)
(* The inductive invariant of SaveProtocol, for any set of callers and any *)
(* bounds, the steps that keep it and the theorems that follow.            *)
(*                                                                         *)
(* StatePersisted is anonymous, so the argument is that there is never     *)
(* more than one save between its submission and the poll goroutine's      *)
(* decision about its acknowledgement: OneInTransit.  That in turn rests   *)
(* on the session's slot: as long as a save is in transit, the slot holds  *)
(* it or the session is poisoned, and both keep the next save out.         *)
(***************************************************************************)
EXTENDS SaveProtocol, TLAPS

-----------------------------------------------------------------------------
(* The inductive invariant *)

\* saveMu serialises Save, and activeSaves counts its holder.
LockInv ==
  /\ \A c \in Callers : pc[c] # "idle" => saveMu = c
  /\ activeSaves = IF saveMu = NoCaller THEN 0 ELSE 1

Handling == poller \in {"orphan", "complete", "abandoned"}
Queued(i) == i \in 1 .. Len(commands) /\ commands[i].kind = "SaveState"
Quiet ==
  /\ \A i \in 1 .. Len(commands) : commands[i].kind # "SaveState"
  /\ saving = {}
  /\ events = << >>
  /\ ~Handling

\* A save in transit is the newest one, and the slot or the poison records it.
Recorded(n) ==
  /\ n = saves
  /\ n # 0
  /\ saveResult = saves \/ (saveResult = 0 /\ savePoisoned)

TransitInv ==
  /\ \A i \in 1 .. Len(commands) :
       commands[i].kind = "SaveState" => Recorded(commands[i].save)
  /\ \A n \in saving : Recorded(n)
  /\ \A i \in 1 .. Len(events) : Recorded(events[i].save)
  /\ Handling => Recorded(ack.save) /\ ack \in Acks

\* A save is in one place at a time.
OneInTransit ==
  /\ \A i, j \in 1 .. Len(commands) : Queued(i) /\ Queued(j) => i = j
  /\ Len(events) <= 1
  /\ \A i \in 1 .. Len(commands) :
       commands[i].kind = "SaveState" =>
         saving = {} /\ events = << >> /\ ~Handling
  /\ saving # {} => events = << >> /\ ~Handling
  /\ events # << >> => ~Handling

SlotInv ==
  /\ saveResult \in {0, saves}
  /\ done => ~accepting
  /\ \A c \in Callers :
       /\ pc[c] = "begun" => saveResult = 0 /\ saves < MaxSaves
       /\ pc[c] = "armed" => Quiet /\ saveResult = saves
       /\ pc[c] \in {"armed", "waiting"} => saves # 0 /\ lastOk = 0
       /\ pc[c] = "returning" => saveResult = 0 \/ ~accepting
  /\ saveMu = NoCaller => saveResult = 0 \/ ~accepting

\* A positive acknowledgement is truthful wherever it is.
AckInv ==
  /\ \A n \in Saves : n > saves => results[n] = NoAck
  /\ \A n \in Saves : results[n] # NoAck => results[n].save = n
  /\ \A i \in 1 .. Len(events) : events[i].ok => persisted = events[i].save
  /\ Handling /\ ack.ok => persisted = ack.save
  /\ \A n \in Saves : n = saves /\ results[n] # NoAck =>
       /\ Quiet
       /\ saveResult = 0
       /\ results[n].ok => persisted = n
       /\ \A c \in Callers : pc[c] # "armed"
  /\ lastOk # 0 => lastOk = saves /\ results[lastOk].ok

Fenced == ~accepting /\ activeSaves = 0 /\ activeSQLite = 0

StopInv ==
  /\ worker = "closing" => ~accepting
  /\ worker = "closed" => Fenced
  /\ \A i \in 1 .. Len(commands) : commands[i].kind = "ActorStopResult" =>
       /\ i = Len(commands)
       /\ Fenced
       /\ worker \in {"aborting", "aborted", "gone"}
  /\ stop # "none" =>
       /\ commands = << >>
       /\ Fenced
       /\ worker \in {"aborting", "aborted", "gone"}
  /\ saving \subseteq inFlight
  /\ stop = "resolved" => inFlight = {}

IInv == TypeOK /\ LockInv /\ TransitInv /\ OneInTransit /\ SlotInv /\ AckInv
        /\ StopInv

-----------------------------------------------------------------------------
(* Initialisation *)

LEMMA Initially == Init => IInv
<1> SUFFICES ASSUME Init PROVE IInv
  BY Zenon
<1> USE SaveAssumption DEF Init
<1>1. TypeOK
  <2>1. /\ {savePoisoned, done, lateSave, workerErrors, asked, ending, stopping,
            woken} \subseteq BOOLEAN
        /\ {accepting, registered, live} \subseteq BOOLEAN
    BY Zenon
  <2>2. pc \in [Callers -> {"idle", "begun", "armed", "waiting", "returning"}]
    BY Zenon
  <2> QED
    BY <2>1, <2>2 DEF TypeOK, Saves, Acks
<1>2. LockInv /\ TransitInv /\ OneInTransit /\ StopInv
  BY DEF LockInv, TransitInv, OneInTransit, StopInv, Handling, Queued
<1>3. SlotInv
  BY Zenon DEF SlotInv
<1>4. AckInv
  BY DEF AckInv, Saves, Handling
<1> QED
  BY <1>1, <1>2, <1>3, <1>4, Zenon DEF IInv

-----------------------------------------------------------------------------
(* Steps *)

\* What taking the head off a queue leaves.
LEMMA QueueHead ==
  ASSUME NEW S, NEW q \in Seq(S), q # << >>
  PROVE  /\ Head(q) = q[1]
         /\ 1 \in 1 .. Len(q)
         /\ Tail(q) \in Seq(S)
         /\ Len(Tail(q)) = Len(q) - 1
         /\ \A i \in 1 .. Len(Tail(q)) :
              Tail(q)[i] = q[i + 1] /\ i + 1 \in 1 .. Len(q)
OBVIOUS

\* The shape of Next that the invariance proofs follow.
LEMMA NextCases ==
  ASSUME Next
  PROVE  \/ \E c \in Callers :
             \/ SaveBegin(c)
             \/ SaveArm(c)
             \/ SaveRefuse(c)
             \/ SaveSubmit(c)
             \/ SaveSubmitFails(c)
             \/ SaveResult(c)
             \/ SaveAbandon(c)
             \/ SaveInterrupted(c)
             \/ SaveReturn(c)
         \/ \E n \in Saves : SaveConfirmed(n) \/ SaveUnconfirmed(n) \/ GuardDrop(n)
         \/ SQLiteBegin
         \/ SQLiteFinish
         \/ PollAck
         \/ PollOrphan
         \/ PollComplete
         \/ PollAbandoned
         \/ PollConsume
         \/ PollUnclaimed
         \/ PollLoopReturns
         \/ PumpExit
         \/ WorkerStop
         \/ WorkerClosed
         \/ WorkerStopResult
         \/ WorkerPanic
         \/ WorkerSubmitFails
         \/ WorkerCancelled
         \/ WorkerAbort
         \/ WorkerRemove
         \/ DispatchSave
         \/ DispatchStop
         \/ DispatchPanic
         \/ StopListen
         \/ StopCheck
         \/ StopWake
         \/ ActorStopRequested
         \/ ActorEnds
         \/ Finished
BY ZenonT(60), Zenon DEF Next, Caller, Poller, WorkerEnd, SaveTask, Dispatch, StopTask

\* Every step keeps the types.
LEMMA TypeStep ==
  ASSUME TypeOK, LockInv, TransitInv, OneInTransit, SlotInv, AckInv, StopInv,
         [Next]_vars
  PROVE  TypeOK'
<1> USE SaveAssumption DEF callVars, slotVars, gateVars, pollVars,
    workVars, opVars, actorVars, nativeVars
<1>1. ASSUME NEW c \in Callers, SaveBegin(c)
     PROVE  TypeOK'
  BY <1>1 DEF SaveBegin, TypeOK
<1>2. ASSUME NEW c \in Callers, SaveArm(c)
     PROVE  TypeOK'
  BY <1>2 DEF SaveArm, SlotInv, TypeOK
<1>3. ASSUME NEW c \in Callers, SaveRefuse(c)
     PROVE  TypeOK'
  BY <1>3 DEF SaveRefuse, TypeOK
<1>4. ASSUME NEW c \in Callers, SaveSubmit(c)
     PROVE  TypeOK'
  BY <1>4 DEF SaveSubmit, Commands, SaveState, TypeOK
<1>5. ASSUME NEW c \in Callers, SaveSubmitFails(c)
     PROVE  TypeOK'
  BY <1>5 DEF SaveSubmitFails, TypeOK
<1>6. ASSUME NEW c \in Callers, SaveResult(c)
     PROVE  TypeOK'
  BY <1>6 DEF SaveResult, TypeOK
<1>7. ASSUME NEW c \in Callers, SaveAbandon(c)
     PROVE  TypeOK'
  BY <1>7 DEF SaveAbandon, TypeOK
<1>8. ASSUME NEW c \in Callers, SaveInterrupted(c)
     PROVE  TypeOK'
  BY <1>8 DEF SaveInterrupted, TypeOK
<1>9. ASSUME NEW c \in Callers, SaveReturn(c)
     PROVE  TypeOK'
  BY <1>9 DEF SaveReturn, LockInv, TypeOK
<1>10. ASSUME NEW n \in Saves, SaveConfirmed(n)
     PROVE  TypeOK'
  BY <1>10 DEF SaveConfirmed, Acks, Saves, TypeOK
<1>11. ASSUME NEW n \in Saves, SaveUnconfirmed(n)
     PROVE  TypeOK'
  BY <1>11 DEF SaveUnconfirmed, Acks, Saves, TypeOK
<1>12. ASSUME NEW n \in Saves, GuardDrop(n)
     PROVE  TypeOK'
  BY <1>12 DEF GuardDrop, TypeOK
<1>13. CASE SQLiteBegin
  BY <1>13 DEF SQLiteBegin, TypeOK
<1>14. CASE SQLiteFinish
  BY <1>14 DEF SQLiteFinish, TypeOK
<1>15. CASE PollAck
  BY <1>15 DEF PollAck, TypeOK
<1>16. CASE PollOrphan
  <2>1. lateSave' \in BOOLEAN
    BY <1>16, Zenon DEF PollOrphan
  <2> QED
    BY <1>16, <2>1 DEF PollOrphan, TypeOK, PollerFails, PollerDone
<1>17. CASE PollComplete
  BY <1>17 DEF PollComplete, TypeOK
<1>18. CASE PollAbandoned
  <2>1. savePoisoned' \in BOOLEAN
    BY <1>18, Zenon DEF PollAbandoned
  <2> QED
    BY <1>18, <2>1 DEF PollAbandoned, TypeOK
<1>19. CASE PollConsume
  <2>1. lateSave' \in BOOLEAN
    BY <1>19, Zenon DEF PollConsume
  <2> QED
    BY <1>19, <2>1 DEF PollConsume, TypeOK
<1>20. CASE PollUnclaimed
  <2>1. lateSave' \in BOOLEAN
    BY <1>20, Zenon DEF PollUnclaimed
  <2> QED
    BY <1>20, <2>1 DEF PollUnclaimed, TypeOK, PollerFails, PollerDone
<1>21. CASE PollLoopReturns
  <2>1. workerErrors' \in BOOLEAN
    BY <1>21, Zenon DEF PollLoopReturns, TypeOK
  <2> QED
    BY <1>21, <2>1 DEF PollLoopReturns, TypeOK, PollerFails, PollerDone
<1>22. CASE PumpExit
  BY <1>22 DEF PumpExit, TypeOK
<1>23. CASE WorkerStop
  <2>1. accepting' \in BOOLEAN
    BY <1>23, Zenon DEF WorkerStop
  <2> QED
    BY <1>23, <2>1 DEF WorkerStop, TypeOK
<1>24. CASE WorkerClosed
  BY <1>24 DEF WorkerClosed, TypeOK
<1>25. CASE WorkerStopResult
  <2>1. ActorStopResult \in Commands
    BY DEF ActorStopResult, Commands
  <2>2. CASE commands' = Append(commands, ActorStopResult) /\ UNCHANGED workerErrors
    BY <1>25, <2>1, <2>2 DEF WorkerStopResult, TypeOK
  <2>3. CASE workerErrors' = TRUE /\ UNCHANGED commands
    <3>1. workerErrors' \in BOOLEAN
      BY <2>3, Zenon
    <3> QED
      BY <1>25, <2>3, <3>1 DEF WorkerStopResult, TypeOK
  <2> QED
    BY <1>25, <2>2, <2>3, Zenon DEF WorkerStopResult
<1>26. CASE WorkerPanic
  BY <1>26 DEF WorkerPanic, Commands, PanicResult, TypeOK
<1>27. CASE WorkerCancelled
  BY <1>27 DEF WorkerCancelled, TypeOK
<1>40. CASE WorkerSubmitFails
  <2>1. workerErrors' \in BOOLEAN
    BY <1>40, Zenon DEF WorkerSubmitFails
  <2> QED
    BY <1>40, <2>1 DEF WorkerSubmitFails, TypeOK
<1>28. CASE WorkerAbort
  <2>1. accepting' \in BOOLEAN
    BY <1>28, Zenon DEF WorkerAbort
  <2> QED
    BY <1>28, <2>1 DEF WorkerAbort, TypeOK
<1>29. CASE WorkerRemove
  <2>1. registered' \in BOOLEAN
    BY <1>29, Zenon DEF WorkerRemove
  <2> QED
    BY <1>29, <2>1 DEF WorkerRemove, TypeOK
<1>30. CASE DispatchSave
  <2> DEFINE n == Head(commands).save
  <2>1. /\ n \in Saves
        /\ Tail(commands) \in Seq(Commands)
    BY <1>30 DEF DispatchSave, TypeOK, TransitInv, Recorded, Saves
  <2>2. CASE live /\ ~stopping
    BY <1>30, <2>1, <2>2 DEF DispatchSave, TypeOK
  <2>3. CASE ~(live /\ ~stopping)
    <3>1. [save |-> n, ok |-> FALSE] \in Acks
      BY <2>1, Zenon DEF Acks
    <3>2. events' = Append(events, [save |-> n, ok |-> FALSE])
      BY <1>30, <2>3, Zenon DEF DispatchSave
    <3>3. events' \in Seq(Acks)
      BY <3>1, <3>2 DEF TypeOK
    <3> QED
      BY <1>30, <2>1, <2>3, <3>3 DEF DispatchSave, TypeOK
  <2> QED
    BY <2>2, <2>3, Zenon
<1>31. CASE DispatchStop
  BY <1>31 DEF DispatchStop, TypeOK
<1>32. CASE DispatchPanic
  BY <1>32 DEF DispatchPanic, TypeOK
<1>33. CASE StopListen
  <2>1. woken' \in BOOLEAN
    BY <1>33, Zenon DEF StopListen
  <2> QED
    BY <1>33, <2>1 DEF StopListen, TypeOK
<1>34. CASE StopCheck
  BY <1>34 DEF StopCheck, TypeOK
<1>35. CASE StopWake
  BY <1>35 DEF StopWake, TypeOK
<1>36. CASE ActorStopRequested
  BY <1>36 DEF ActorStopRequested, TypeOK
<1>37. CASE ActorEnds
  <2>1. live' \in BOOLEAN
    BY <1>37, Zenon DEF ActorEnds
  <2> QED
    BY <1>37, <2>1 DEF ActorEnds, TypeOK
<1>38. CASE Finished
  BY <1>38 DEF Finished, vars, TypeOK
<1>39. CASE UNCHANGED vars
  BY <1>39 DEF vars, TypeOK
<1> QED
  BY NextCases, <1>40, <1>1, <1>2, <1>3, <1>4, <1>5, <1>6, <1>7, <1>8, <1>9, <1>10,
      <1>11, <1>12, <1>13, <1>14, <1>15, <1>16, <1>17, <1>18, <1>19, <1>20,
      <1>21, <1>22, <1>23, <1>24, <1>25, <1>26, <1>27, <1>28, <1>29, <1>30,
      <1>31, <1>32, <1>33, <1>34, <1>35, <1>36, <1>37, <1>38, <1>39, Zenon

\* Every step keeps saveMu and activeSaves in line with the callers.
LEMMA LockStep ==
  ASSUME TypeOK, LockInv, TransitInv, OneInTransit, SlotInv, AckInv, StopInv,
         [Next]_vars
  PROVE  LockInv'
<1> USE SaveAssumption DEF callVars, slotVars, gateVars, pollVars,
    workVars, opVars, actorVars, nativeVars
<1>1. ASSUME NEW c \in Callers, SaveBegin(c)
     PROVE  LockInv'
  BY <1>1 DEF SaveBegin, LockInv, TypeOK
<1>2. ASSUME NEW c \in Callers, SaveArm(c)
     PROVE  LockInv'
  BY <1>2, Zenon DEF SaveArm, LockInv, TypeOK
<1>3. ASSUME NEW c \in Callers, SaveRefuse(c)
     PROVE  LockInv'
  BY <1>3, Zenon DEF SaveRefuse, LockInv, TypeOK
<1>4. ASSUME NEW c \in Callers, SaveSubmit(c)
     PROVE  LockInv'
  BY <1>4, Zenon DEF SaveSubmit, LockInv, TypeOK
<1>5. ASSUME NEW c \in Callers, SaveSubmitFails(c)
     PROVE  LockInv'
  BY <1>5, Zenon DEF SaveSubmitFails, LockInv, TypeOK
<1>6. ASSUME NEW c \in Callers, SaveResult(c)
     PROVE  LockInv'
  BY <1>6, Zenon DEF SaveResult, LockInv, TypeOK
<1>7. ASSUME NEW c \in Callers, SaveAbandon(c)
     PROVE  LockInv'
  BY <1>7, Zenon DEF SaveAbandon, LockInv, TypeOK
<1>8. ASSUME NEW c \in Callers, SaveInterrupted(c)
     PROVE  LockInv'
  BY <1>8, Zenon DEF SaveInterrupted, LockInv, TypeOK
<1>9. ASSUME NEW c \in Callers, SaveReturn(c)
     PROVE  LockInv'
  BY <1>9 DEF SaveReturn, LockInv, TypeOK
<1>10. ASSUME NEW n \in Saves,
            SaveConfirmed(n) \/ SaveUnconfirmed(n) \/ GuardDrop(n)
     PROVE  LockInv'
  <2>1. UNCHANGED <<saveMu, pc, activeSaves>>
    BY <1>10, Zenon DEF SaveConfirmed, SaveUnconfirmed, GuardDrop
  <2> QED
    BY <2>1, Zenon DEF LockInv
<1>11. CASE SQLiteBegin \/ SQLiteFinish \/ PollAck \/ PollOrphan \/ PollComplete
              \/ PollAbandoned \/ PollConsume \/ PollUnclaimed \/
              PollLoopReturns \/ PumpExit \/ WorkerStop \/ WorkerClosed \/
              WorkerStopResult \/ WorkerPanic \/ WorkerSubmitFails \/ WorkerCancelled \/
              WorkerAbort \/ WorkerRemove \/ DispatchSave \/ DispatchStop \/
              DispatchPanic \/ StopListen \/ StopCheck \/ StopWake \/
              ActorStopRequested \/ ActorEnds \/ Finished
  <2>1. UNCHANGED <<saveMu, pc, activeSaves>>
    BY <1>11, Zenon DEF SQLiteBegin, SQLiteFinish, PollAck, PollOrphan, PollComplete,
        PollAbandoned, PollConsume, PollUnclaimed, PollLoopReturns, PumpExit,
        WorkerStop, WorkerClosed, WorkerStopResult, WorkerPanic,
        WorkerCancelled, WorkerSubmitFails, WorkerAbort, WorkerRemove, DispatchSave,
        DispatchStop, DispatchPanic, StopListen, StopCheck, StopWake,
        ActorStopRequested, ActorEnds, Finished, vars
  <2> QED
    BY <2>1, Zenon DEF LockInv
<1>12. CASE UNCHANGED vars
  BY <1>12, Zenon DEF vars, LockInv
<1> QED
  BY NextCases, <1>1, <1>2, <1>3, <1>4, <1>5, <1>6, <1>7, <1>8, <1>9, <1>10,
      <1>11, <1>12, Zenon

\* The slot or the poison goes on recording the save in transit.
LEMMA TransitStep ==
  ASSUME TypeOK, LockInv, TransitInv, OneInTransit, SlotInv, AckInv, StopInv,
         [Next]_vars
  PROVE  TransitInv'
<1> USE SaveAssumption DEF callVars, slotVars, gateVars, pollVars,
    workVars, opVars, actorVars, nativeVars
<1>1. ASSUME NEW c \in Callers, SaveArm(c)
     PROVE  TransitInv'
  BY <1>1, Zenon DEF SaveArm, Quiet, OneInTransit, SlotInv, TransitInv, Recorded,
      Handling, TypeOK
<1>2. ASSUME NEW c \in Callers, SaveSubmit(c)
     PROVE  TransitInv'
  <2>1. Quiet /\ saves # 0 /\ saveResult = saves
    BY <1>2, Zenon DEF SaveSubmit, SlotInv
  <2>2. \A i \in 1 .. Len(commands') :
          commands'[i].kind = "SaveState" => commands'[i].save = saves
    BY <1>2, <2>1 DEF SaveSubmit, SaveState, Quiet, TypeOK
  <2> QED
    BY <1>2, <2>1, <2>2, Zenon DEF SaveSubmit, Quiet, TransitInv, Recorded, Handling, TypeOK
<1>3. ASSUME NEW c \in Callers, SaveSubmitFails(c)
     PROVE  TransitInv'
  BY <1>3 DEF SaveSubmitFails, SlotInv, Quiet, TransitInv, Recorded, Handling,
      TypeOK
<1>4. ASSUME NEW c \in Callers, SaveAbandon(c)
     PROVE  TransitInv'
  BY <1>4, Zenon DEF SaveAbandon, TransitInv, Recorded, Handling, TypeOK
<1>5. ASSUME NEW c \in Callers,
            SaveBegin(c) \/ SaveRefuse(c) \/ SaveResult(c) \/
                SaveInterrupted(c) \/ SaveReturn(c)
     PROVE  TransitInv'
  <2>1. UNCHANGED <<commands, saving, events, poller, ack, saves, saveResult,
               savePoisoned>>
    BY <1>5, ZenonT(60), Zenon DEF SaveBegin, SaveRefuse, SaveResult, SaveInterrupted, SaveReturn
  <2> QED
    BY <2>1, Zenon DEF TransitInv, Recorded, Handling
<1>6. ASSUME NEW n \in Saves, SaveConfirmed(n)
     PROVE  TransitInv'
  <2>1. UNCHANGED <<commands, poller, ack, saves, saveResult, savePoisoned>>
    BY <1>6, Zenon DEF SaveConfirmed, slotVars, pollVars
  <2>2. /\ \A i \in 1 .. Len(events') :
             (i \in 1 .. Len(events) /\ events'[i] = events[i]) \/ events'[i].save = n
        /\ n \in saving /\ saving' \subseteq saving
    BY <1>6 DEF SaveConfirmed, TypeOK
  <2>3. Recorded(n)
    BY <2>2, Zenon DEF TransitInv
  <2> QED
    BY <2>1, <2>2, <2>3, Zenon DEF TransitInv, Recorded, Handling
<1>7. ASSUME NEW n \in Saves, SaveUnconfirmed(n)
     PROVE  TransitInv'
  BY <1>7 DEF SaveUnconfirmed, TransitInv, Recorded, Handling, TypeOK
<1>8. ASSUME NEW n \in Saves,
            GuardDrop(n)
     PROVE  TransitInv'
  <2>1. UNCHANGED <<commands, saving, events, poller, ack, saves, saveResult,
               savePoisoned>>
    BY <1>8, Zenon DEF GuardDrop
  <2> QED
    BY <2>1, Zenon DEF TransitInv, Recorded, Handling
<1>9. CASE PollAck
  BY <1>9 DEF PollAck, TransitInv, Recorded, Handling, TypeOK
<1>10. CASE PollOrphan
  BY <1>10, Zenon DEF PollOrphan, PollerFails, PollerDone, TransitInv, Recorded,
      Handling, TypeOK
<1>11. CASE PollComplete
  BY <1>11 DEF PollComplete, OneInTransit, TransitInv, Recorded, Handling, TypeOK
<1>12. CASE PollAbandoned
  BY <1>12 DEF PollAbandoned, OneInTransit, TransitInv, Recorded, Handling, TypeOK
<1>13. CASE PollConsume
  BY <1>13, Zenon DEF PollConsume, TransitInv, Recorded, Handling, TypeOK
<1>14. CASE PollUnclaimed
  BY <1>14, Zenon DEF PollUnclaimed, PollerFails, PollerDone, TransitInv, Recorded,
      Handling, TypeOK
<1>15. CASE PollLoopReturns
  BY <1>15, Zenon DEF PollLoopReturns, PollerFails, PollerDone, TransitInv, Recorded,
      Handling, TypeOK
<1>16. CASE PumpExit
  BY <1>16, Zenon DEF PumpExit, TransitInv, Recorded, Handling, TypeOK
<1>17. CASE WorkerStopResult
  <2>1. CASE commands' = Append(commands, ActorStopResult) /\ UNCHANGED workerErrors
    BY <1>17, <2>1 DEF WorkerStopResult, TransitInv, Recorded, Handling, TypeOK,
       ActorStopResult
  <2>2. CASE UNCHANGED commands
    BY <1>17, <2>2, Zenon DEF WorkerStopResult, TransitInv, Recorded, Handling, TypeOK,
       ActorStopResult
  <2> QED
    BY <1>17, <2>1, <2>2, Zenon DEF WorkerStopResult
<1>18. CASE WorkerPanic
  BY <1>18 DEF WorkerPanic, PanicResult, TransitInv, Recorded, Handling, TypeOK
<1>19. CASE DispatchSave
  <2> DEFINE n == Head(commands).save
  <2>1. commands \in Seq(Commands) /\ commands # << >>
    BY <1>19, Zenon DEF DispatchSave, TypeOK
  <2>2. /\ Recorded(n)
        /\ \A i \in 1 .. Len(Tail(commands)) :
             /\ Tail(commands)[i].kind = "SaveState" =>
                  Recorded(Tail(commands)[i].save)
    BY <1>19, <2>1, QueueHead DEF DispatchSave, TransitInv
  <2>3. \A i \in 1 .. Len(events') : Recorded(events'[i].save)
    <3>1. CASE events' = events
      BY <3>1, Zenon DEF TransitInv
    <3>2. CASE events' = Append(events, [save |-> n, ok |-> FALSE])
      BY <2>2, <3>2 DEF TransitInv, TypeOK
    <3> QED
      BY <1>19, <3>1, <3>2, Zenon DEF DispatchSave
  <2>4. \A m \in saving' : Recorded(m)
    BY <1>19, <2>2, Zenon DEF DispatchSave, TransitInv
  <2> QED
    BY <1>19, <2>2, <2>3, <2>4, Zenon DEF DispatchSave, TransitInv, Recorded, Handling
<1>20. CASE DispatchStop
  BY <1>20 DEF DispatchStop, TransitInv, Recorded, Handling, TypeOK
<1>21. CASE DispatchPanic
  BY <1>21 DEF DispatchPanic, TransitInv, Recorded, Handling, TypeOK
<1>22. CASE SQLiteBegin \/ SQLiteFinish \/ WorkerStop \/ WorkerClosed \/
              WorkerCancelled \/ WorkerSubmitFails \/ WorkerAbort \/ WorkerRemove \/ StopListen \/
              StopCheck \/ StopWake \/ ActorStopRequested \/ ActorEnds \/
              Finished
  <2>1. UNCHANGED <<commands, saving, events, poller, ack, saves, saveResult,
               savePoisoned>>
    BY <1>22, ZenonT(60), Zenon DEF SQLiteBegin, SQLiteFinish, WorkerStop, WorkerClosed,
        WorkerCancelled, WorkerSubmitFails, WorkerAbort, WorkerRemove, StopListen, StopCheck,
        StopWake, ActorStopRequested, ActorEnds, Finished, vars
  <2> QED
    BY <2>1, Zenon DEF TransitInv, Recorded, Handling
<1>23. CASE UNCHANGED vars
  BY <1>23, Zenon DEF vars, TransitInv, Recorded, Handling
<1> QED
  BY NextCases, <1>1, <1>2, <1>3, <1>4, <1>5, <1>6, <1>7, <1>8, <1>9, <1>10,
      <1>11, <1>12, <1>13, <1>14, <1>15, <1>16, <1>17, <1>18, <1>19, <1>20,
      <1>21, <1>22, <1>23, Zenon

\* A save stays in one place.
LEMMA OneStep ==
  ASSUME TypeOK, LockInv, TransitInv, OneInTransit, SlotInv, AckInv, StopInv,
         [Next]_vars
  PROVE  OneInTransit'
<1> USE SaveAssumption DEF callVars, slotVars, gateVars, pollVars,
    workVars, opVars, actorVars, nativeVars
<1>1. ASSUME NEW c \in Callers, SaveSubmit(c)
     PROVE  OneInTransit'
  <2>1. Quiet
    BY <1>1, Zenon DEF SaveSubmit, SlotInv
  <2>2. UNCHANGED <<saving, events, poller>>
    BY <1>1, Zenon DEF SaveSubmit
  <2>3. commands \in Seq(Commands)
    BY Zenon DEF TypeOK
  <2>4. /\ Len(commands') = Len(commands) + 1
        /\ \A i \in 1 .. Len(commands) : commands'[i] = commands[i]
    BY <1>1, <2>3 DEF SaveSubmit
  <2>5. \A i \in 1 .. Len(commands') :
          commands'[i].kind = "SaveState" => i = Len(commands')
    BY <2>1, <2>3, <2>4 DEF Quiet
  <2> QED
    BY <2>1, <2>2, <2>5, Zenon DEF OneInTransit, Quiet, Queued, Handling
<1>2. ASSUME NEW c \in Callers,
            SaveBegin(c) \/ SaveArm(c) \/ SaveRefuse(c) \/ SaveSubmitFails(c)
                \/ SaveResult(c) \/ SaveAbandon(c) \/ SaveInterrupted(c) \/
                SaveReturn(c)
     PROVE  OneInTransit'
  <2>1. UNCHANGED <<commands, saving, events, poller>>
    BY <1>2, ZenonT(60), Zenon DEF SaveBegin, SaveArm, SaveRefuse, SaveSubmitFails, SaveResult,
        SaveAbandon, SaveInterrupted, SaveReturn
  <2> QED
    BY <2>1, Zenon DEF OneInTransit, Queued, Handling
<1>3. ASSUME NEW n \in Saves, SaveConfirmed(n)
     PROVE  OneInTransit'
  BY <1>3 DEF SaveConfirmed, TransitInv, Recorded, OneInTransit, Queued,
      Handling, TypeOK
<1>4. ASSUME NEW n \in Saves, SaveUnconfirmed(n)
     PROVE  OneInTransit'
  BY <1>4 DEF SaveUnconfirmed, TransitInv, Recorded, OneInTransit, Queued,
      Handling, TypeOK
<1>5. ASSUME NEW n \in Saves,
            GuardDrop(n)
     PROVE  OneInTransit'
  <2>1. UNCHANGED <<commands, saving, events, poller>>
    BY <1>5, ZenonT(60), Zenon DEF GuardDrop
  <2> QED
    BY <2>1, Zenon DEF OneInTransit, Queued, Handling
<1>6. CASE PollAck
  BY <1>6 DEF PollAck, OneInTransit, Queued, Handling, TypeOK
<1>7. CASE PollOrphan
  BY <1>7, Zenon DEF PollOrphan, PollerFails, PollerDone, OneInTransit, Queued,
      Handling, TypeOK
<1>8. CASE PollComplete
  BY <1>8, Zenon DEF PollComplete, OneInTransit, Queued, Handling, TypeOK
<1>9. CASE PollAbandoned
  BY <1>9, Zenon DEF PollAbandoned, OneInTransit, Queued, Handling, TypeOK
<1>10. CASE PollConsume
  BY <1>10, Zenon DEF PollConsume, OneInTransit, Queued, Handling, TypeOK
<1>11. CASE PollUnclaimed
  BY <1>11, Zenon DEF PollUnclaimed, PollerFails, PollerDone, OneInTransit, Queued,
      Handling, TypeOK
<1>12. CASE PollLoopReturns
  BY <1>12, Zenon DEF PollLoopReturns, PollerFails, PollerDone, OneInTransit, Queued,
      Handling, TypeOK
<1>13. CASE PumpExit
  BY <1>13, Zenon DEF PumpExit, OneInTransit, Queued, Handling, TypeOK
<1>14. CASE WorkerStopResult
  <2>1. CASE commands' = Append(commands, ActorStopResult) /\ UNCHANGED workerErrors
    BY <1>14, <2>1 DEF WorkerStopResult, OneInTransit, Queued, Handling, TypeOK,
       ActorStopResult
  <2>2. CASE UNCHANGED commands
    BY <1>14, <2>2, Zenon DEF WorkerStopResult, OneInTransit, Queued, Handling, TypeOK,
       ActorStopResult
  <2> QED
    BY <1>14, <2>1, <2>2, Zenon DEF WorkerStopResult
<1>15. CASE WorkerPanic
  BY <1>15 DEF WorkerPanic, PanicResult, OneInTransit, Queued, Handling, TypeOK
<1>16. CASE DispatchSave
  BY <1>16 DEF DispatchSave, OneInTransit, Queued, Handling, TypeOK
<1>17. CASE DispatchStop
  BY <1>17 DEF DispatchStop, OneInTransit, Queued, Handling, TypeOK
<1>18. CASE DispatchPanic
  BY <1>18 DEF DispatchPanic, OneInTransit, Queued, Handling, TypeOK
<1>19. CASE SQLiteBegin \/ SQLiteFinish \/ WorkerStop \/ WorkerClosed \/
              WorkerCancelled \/ WorkerSubmitFails \/ WorkerAbort \/ WorkerRemove \/ StopListen \/
              StopCheck \/ StopWake \/ ActorStopRequested \/ ActorEnds \/
              Finished
  <2>1. UNCHANGED <<commands, saving, events, poller>>
    BY <1>19, ZenonT(60), Zenon DEF SQLiteBegin, SQLiteFinish, WorkerStop, WorkerClosed,
        WorkerCancelled, WorkerSubmitFails, WorkerAbort, WorkerRemove, StopListen, StopCheck,
        StopWake, ActorStopRequested, ActorEnds, Finished, vars
  <2> QED
    BY <2>1, Zenon DEF OneInTransit, Queued, Handling
<1>20. CASE UNCHANGED vars
  BY <1>20, Zenon DEF vars, OneInTransit, Queued, Handling
<1> QED
  BY NextCases, <1>1, <1>2, <1>3, <1>4, <1>5, <1>6, <1>7, <1>8, <1>9, <1>10,
      <1>11, <1>12, <1>13, <1>14, <1>15, <1>16, <1>17, <1>18, <1>19, <1>20, Zenon

\* The slot is free for whoever passes beginSave.
LEMMA SlotStep ==
  ASSUME TypeOK, LockInv, TransitInv, OneInTransit, SlotInv, AckInv, StopInv,
         [Next]_vars
  PROVE  SlotInv'
<1> USE SaveAssumption DEF callVars, slotVars, gateVars, pollVars,
    workVars, opVars, actorVars, nativeVars
<1>1. ASSUME NEW c \in Callers, SaveBegin(c)
     PROVE  SlotInv'
  BY <1>1, Zenon DEF SaveBegin, SlotInv, LockInv, Quiet, Handling, TypeOK
<1>2. ASSUME NEW c \in Callers, SaveArm(c)
     PROVE  SlotInv'
  BY <1>2 DEF SaveArm, TransitInv, Recorded, SlotInv, LockInv, Quiet, Handling,
      TypeOK
<1>3. ASSUME NEW c \in Callers, SaveRefuse(c)
     PROVE  SlotInv'
  BY <1>3, Zenon DEF SaveRefuse, SlotInv, LockInv, Quiet, Handling, TypeOK
<1>4. ASSUME NEW c \in Callers, SaveSubmit(c)
     PROVE  SlotInv'
  BY <1>4, ZenonT(30) DEF SaveSubmit, SlotInv, LockInv, Quiet, Handling, TypeOK
<1>5. ASSUME NEW c \in Callers, SaveSubmitFails(c)
     PROVE  SlotInv'
  BY <1>5, Zenon DEF SaveSubmitFails, SlotInv, LockInv, Quiet, Handling, TypeOK
<1>6. ASSUME NEW c \in Callers, SaveResult(c)
     PROVE  SlotInv'
  BY <1>6 DEF SaveResult, AckInv, Saves, SlotInv, LockInv, Quiet, Handling,
      TypeOK
<1>7. ASSUME NEW c \in Callers, SaveAbandon(c)
     PROVE  SlotInv'
  BY <1>7, Zenon DEF SaveAbandon, SlotInv, LockInv, Quiet, Handling, TypeOK
<1>8. ASSUME NEW c \in Callers, SaveInterrupted(c)
     PROVE  SlotInv'
  BY <1>8, Zenon DEF SaveInterrupted, SlotInv, LockInv, Quiet, Handling, TypeOK
<1>9. ASSUME NEW c \in Callers, SaveReturn(c)
     PROVE  SlotInv'
  BY <1>9, Zenon DEF SaveReturn, SlotInv, LockInv, Quiet, Handling, TypeOK
<1>10. ASSUME NEW n \in Saves, SaveConfirmed(n)
     PROVE  SlotInv'
  BY <1>10, Zenon DEF SaveConfirmed, SlotInv, LockInv, Quiet, Handling, TypeOK
<1>11. ASSUME NEW n \in Saves, SaveUnconfirmed(n)
     PROVE  SlotInv'
  BY <1>11, Zenon DEF SaveUnconfirmed, SlotInv, LockInv, Quiet, Handling, TypeOK
<1>12. ASSUME NEW n \in Saves,
            GuardDrop(n)
     PROVE  SlotInv'
  <2>1. UNCHANGED <<saveMu, pc, saves, saveResult, lastOk, done, accepting,
               commands, saving, events, poller>>
    BY <1>12, Zenon DEF GuardDrop
  <2> QED
    BY <2>1, Zenon DEF SlotInv, LockInv, Quiet, Handling
<1>13. CASE PollAck
  BY <1>13, Zenon DEF PollAck, SlotInv, LockInv, Quiet, Handling, TypeOK
<1>14. CASE PollOrphan
  BY <1>14, Zenon DEF PollOrphan, PollerFails, PollerDone, SlotInv, LockInv, Quiet,
      Handling, TypeOK
<1>15. CASE PollComplete
  BY <1>15, Zenon DEF PollComplete, TransitInv, Recorded, SlotInv, LockInv, Quiet,
      Handling, TypeOK
<1>16. CASE PollAbandoned
  BY <1>16, Zenon DEF PollAbandoned, SlotInv, LockInv, Quiet, Handling, TypeOK
<1>17. CASE PollConsume
  BY <1>17, Zenon DEF PollConsume, SlotInv, LockInv, Quiet, Handling, TypeOK
<1>18. CASE PollUnclaimed
  BY <1>18, Zenon DEF PollUnclaimed, PollerFails, PollerDone, SlotInv, LockInv, Quiet,
      Handling, TypeOK
<1>19. CASE PollLoopReturns
  BY <1>19, Zenon DEF PollLoopReturns, PollerFails, PollerDone, SlotInv, LockInv, Quiet,
      Handling, TypeOK
<1>20. CASE PumpExit
  BY <1>20, Zenon DEF PumpExit, SlotInv, LockInv, Quiet, Handling, TypeOK
<1>21. CASE WorkerStop
  BY <1>21, Zenon DEF WorkerStop, SlotInv, LockInv, Quiet, Handling, TypeOK
<1>22. CASE WorkerClosed
  BY <1>22, Zenon DEF WorkerClosed, StopInv, SlotInv, LockInv, Quiet, Handling, TypeOK
<1>23. CASE WorkerStopResult
  <2>1. CASE commands' = Append(commands, ActorStopResult) /\ UNCHANGED workerErrors
    BY <1>23, <2>1 DEF WorkerStopResult, SlotInv, Quiet, Handling, TypeOK, ActorStopResult
  <2>2. CASE UNCHANGED commands
    BY <1>23, <2>2, Zenon DEF WorkerStopResult, SlotInv, Quiet, Handling, TypeOK, ActorStopResult
  <2> QED
    BY <1>23, <2>1, <2>2, Zenon DEF WorkerStopResult
<1>24. CASE WorkerPanic
  BY <1>24 DEF WorkerPanic, PanicResult, SlotInv, LockInv, Quiet, Handling, TypeOK
<1>25. CASE WorkerAbort
  BY <1>25, Zenon DEF WorkerAbort, SlotInv, LockInv, Quiet, Handling, TypeOK
<1>26. CASE DispatchSave
  BY <1>26 DEF DispatchSave, SlotInv, LockInv, Quiet, Handling, TypeOK
<1>27. CASE DispatchStop
  BY <1>27 DEF DispatchStop, SlotInv, LockInv, Quiet, Handling, TypeOK
<1>28. CASE DispatchPanic
  BY <1>28 DEF DispatchPanic, SlotInv, LockInv, Quiet, Handling, TypeOK
<1>29. CASE SQLiteBegin \/ SQLiteFinish \/ WorkerCancelled \/ WorkerSubmitFails \/ WorkerRemove \/
              StopListen \/ StopCheck \/ StopWake \/ ActorStopRequested \/
              ActorEnds \/ Finished
  <2>1. UNCHANGED <<saveMu, pc, saves, saveResult, lastOk, done, accepting,
               commands, saving, events, poller>>
    BY <1>29, Zenon DEF SQLiteBegin, SQLiteFinish, WorkerCancelled, WorkerSubmitFails, WorkerRemove,
        StopListen, StopCheck, StopWake, ActorStopRequested, ActorEnds,
        Finished, vars
  <2> QED
    BY <2>1, Zenon DEF SlotInv, LockInv, Quiet, Handling
<1>30. CASE UNCHANGED vars
  BY <1>30, Zenon DEF vars, SlotInv, LockInv, Quiet, Handling
<1> QED
  BY NextCases, <1>1, <1>2, <1>3, <1>4, <1>5, <1>6, <1>7, <1>8, <1>9, <1>10,
      <1>11, <1>12, <1>13, <1>14, <1>15, <1>16, <1>17, <1>18, <1>19, <1>20,
      <1>21, <1>22, <1>23, <1>24, <1>25, <1>26, <1>27, <1>28, <1>29, <1>30, Zenon

\* The fence around the stop holds.
LEMMA StopStep ==
  ASSUME TypeOK, LockInv, TransitInv, OneInTransit, SlotInv, AckInv, StopInv,
         [Next]_vars
  PROVE  StopInv'
<1> USE SaveAssumption DEF callVars, slotVars, gateVars, pollVars,
    workVars, opVars, actorVars, nativeVars
<1>1. ASSUME NEW c \in Callers, SaveBegin(c)
     PROVE  StopInv'
  BY <1>1, Zenon DEF SaveBegin, StopInv, LockInv, Fenced, TypeOK
<1>2. ASSUME NEW c \in Callers, SaveSubmit(c)
     PROVE  StopInv'
  BY <1>2 DEF SaveSubmit, SaveState, StopInv, LockInv, Fenced, TypeOK
<1>3. ASSUME NEW c \in Callers, SaveReturn(c)
     PROVE  StopInv'
  BY <1>3 DEF SaveReturn, StopInv, LockInv, Fenced, TypeOK
<1>4. ASSUME NEW c \in Callers,
            SaveArm(c) \/ SaveRefuse(c) \/ SaveSubmitFails(c) \/ SaveResult(c)
                \/ SaveAbandon(c) \/ SaveInterrupted(c)
     PROVE  StopInv'
  <2>1. UNCHANGED <<worker, accepting, activeSaves, activeSQLite, commands,
               stop, saving, inFlight>>
    BY <1>4, Zenon DEF SaveArm, SaveRefuse, SaveSubmitFails, SaveResult, SaveAbandon,
        SaveInterrupted
  <2> QED
    BY <2>1, Zenon DEF StopInv, LockInv, Fenced
<1>5. ASSUME NEW n \in Saves, SaveConfirmed(n)
     PROVE  StopInv'
  BY <1>5, Zenon DEF SaveConfirmed, StopInv, LockInv, Fenced, TypeOK
<1>6. ASSUME NEW n \in Saves, SaveUnconfirmed(n)
     PROVE  StopInv'
  BY <1>6, Zenon DEF SaveUnconfirmed, StopInv, LockInv, Fenced, TypeOK
<1>7. ASSUME NEW n \in Saves, GuardDrop(n)
     PROVE  StopInv'
  BY <1>7, Zenon DEF GuardDrop, StopInv, LockInv, Fenced, TypeOK
<1>8. CASE SQLiteBegin
  BY <1>8, Zenon DEF SQLiteBegin, StopInv, LockInv, Fenced, TypeOK
<1>9. CASE SQLiteFinish
  BY <1>9 DEF SQLiteFinish, StopInv, LockInv, Fenced, TypeOK
<1>10. CASE PumpExit
  BY <1>10, Zenon DEF PumpExit, StopInv, LockInv, Fenced, TypeOK
<1>11. CASE WorkerStop
  BY <1>11, Zenon DEF WorkerStop, StopInv, LockInv, Fenced, TypeOK
<1>12. CASE WorkerClosed
  BY <1>12, Zenon DEF WorkerClosed, StopInv, LockInv, Fenced, TypeOK
<1>13. CASE WorkerStopResult
  BY <1>13 DEF WorkerStopResult, ActorStopResult, StopInv, LockInv, Fenced, TypeOK
<1>14. CASE WorkerPanic
  BY <1>14 DEF WorkerPanic, PanicResult, StopInv, LockInv, Fenced, TypeOK
<1>15. CASE WorkerCancelled \/ WorkerSubmitFails
  BY <1>15, Zenon DEF WorkerCancelled, WorkerSubmitFails, StopInv, LockInv, Fenced, TypeOK
<1>16. CASE WorkerAbort
  BY <1>16, Zenon DEF WorkerAbort, StopInv, LockInv, Fenced, TypeOK
<1>17. CASE WorkerRemove
  BY <1>17, Zenon DEF WorkerRemove, StopInv, LockInv, Fenced, TypeOK
<1>18. CASE DispatchSave
  BY <1>18 DEF DispatchSave, StopInv, LockInv, Fenced, TypeOK
<1>19. CASE DispatchStop
  BY <1>19 DEF DispatchStop, StopInv, LockInv, Fenced, TypeOK
<1>20. CASE DispatchPanic
  BY <1>20 DEF DispatchPanic, StopInv, LockInv, Fenced, TypeOK
<1>21. CASE StopListen
  BY <1>21, Zenon DEF StopListen, StopInv, LockInv, Fenced, TypeOK
<1>22. CASE StopCheck
  BY <1>22, Zenon DEF StopCheck, StopInv, LockInv, Fenced, TypeOK
<1>23. CASE StopWake
  BY <1>23, Zenon DEF StopWake, StopInv, LockInv, Fenced, TypeOK
<1>24. CASE PollAck \/ PollOrphan \/ PollComplete \/ PollAbandoned \/
              PollConsume \/ PollUnclaimed \/ PollLoopReturns \/
              ActorStopRequested \/ ActorEnds \/ Finished
  <2>1. UNCHANGED <<worker, accepting, activeSaves, activeSQLite, commands,
               stop, saving, inFlight>>
    BY <1>24, Zenon DEF PollAck, PollOrphan, PollComplete, PollAbandoned, PollConsume,
        PollUnclaimed, PollLoopReturns, ActorStopRequested, ActorEnds,
        Finished, vars
  <2> QED
    BY <2>1, Zenon DEF StopInv, LockInv, Fenced
<1>25. CASE UNCHANGED vars
  BY <1>25, Zenon DEF vars, StopInv, LockInv, Fenced
<1> QED
  BY NextCases, <1>1, <1>2, <1>3, <1>4, <1>5, <1>6, <1>7, <1>8, <1>9, <1>10,
      <1>11, <1>12, <1>13, <1>14, <1>15, <1>16, <1>17, <1>18, <1>19, <1>20,
      <1>21, <1>22, <1>23, <1>24, <1>25, Zenon

\* Acknowledgements reach their own save and tell the truth.
LEMMA AckStep ==
  ASSUME TypeOK, LockInv, TransitInv, OneInTransit, SlotInv, AckInv, StopInv,
         [Next]_vars
  PROVE  AckInv'
<1> USE SaveAssumption DEF callVars, slotVars, gateVars, pollVars,
    workVars, opVars, actorVars, nativeVars
<1>1. ASSUME NEW c \in Callers, SaveBegin(c)
     PROVE  AckInv'
  BY <1>1, ZenonT(30) DEF SaveBegin, LockInv, AckInv, Saves, Quiet, Handling, TypeOK
<1>2. ASSUME NEW c \in Callers, SaveArm(c)
     PROVE  AckInv'
  BY <1>2 DEF SaveArm, LockInv, SlotInv, AckInv, Saves, Quiet, Handling, TypeOK
<1>3. ASSUME NEW c \in Callers, SaveRefuse(c)
     PROVE  AckInv'
  BY <1>3, ZenonT(30) DEF SaveRefuse, AckInv, Saves, Quiet, Handling, TypeOK
<1>4. ASSUME NEW c \in Callers, SaveSubmit(c)
     PROVE  AckInv'
  BY <1>4, Zenon DEF SaveSubmit, LockInv, SlotInv, AckInv, Saves, Quiet, Handling,
      TypeOK
<1>5. ASSUME NEW c \in Callers, SaveSubmitFails(c)
     PROVE  AckInv'
  BY <1>5, SMTT(20) DEF SaveSubmitFails, AckInv, Saves, Quiet, Handling, TypeOK
<1>6. ASSUME NEW c \in Callers, SaveResult(c)
     PROVE  AckInv'
  BY <1>6, Zenon DEF SaveResult, AckInv, Saves, Quiet, Handling, TypeOK
<1>7. ASSUME NEW c \in Callers, SaveAbandon(c)
     PROVE  AckInv'
  BY <1>7, Zenon DEF SaveAbandon, AckInv, Saves, Quiet, Handling, TypeOK
<1>8. ASSUME NEW c \in Callers, SaveInterrupted(c)
     PROVE  AckInv'
  BY <1>8, Zenon DEF SaveInterrupted, AckInv, Saves, Quiet, Handling, TypeOK
<1>9. ASSUME NEW c \in Callers, SaveReturn(c)
     PROVE  AckInv'
  BY <1>9, ZenonT(30) DEF SaveReturn, AckInv, Saves, Quiet, Handling, TypeOK
<1>10. ASSUME NEW n \in Saves, SaveConfirmed(n)
     PROVE  AckInv'
  BY <1>10, SMTT(30) DEF SaveConfirmed, TransitInv, OneInTransit, Recorded, AckInv, Saves,
      Quiet, Handling, TypeOK
<1>11. ASSUME NEW n \in Saves, SaveUnconfirmed(n)
     PROVE  AckInv'
  BY <1>11 DEF SaveUnconfirmed, TransitInv, OneInTransit, Recorded, AckInv, Saves,
      Quiet, Handling, TypeOK
<1>12. ASSUME NEW n \in Saves,
            GuardDrop(n)
     PROVE  AckInv'
  <2>1. UNCHANGED <<saves, results, events, persisted, poller, ack, commands,
               saving, saveResult, pc, lastOk>>
    BY <1>12, ZenonT(30) DEF GuardDrop
  <2> QED
    BY <2>1, Zenon DEF AckInv, Saves, Quiet, Handling
<1>13. CASE PollAck
  BY <1>13 DEF PollAck, TransitInv, OneInTransit, Recorded, AckInv, Saves, Quiet,
      Handling, TypeOK
<1>14. CASE PollOrphan
  BY <1>14, Zenon DEF PollOrphan, PollerFails, PollerDone, AckInv, Saves, Quiet,
      Handling, TypeOK
<1>15. CASE PollComplete
  <2>1. ack.save = saves /\ saves \in Saves /\ ack \in Acks
    BY <1>15 DEF PollComplete, TransitInv, Recorded, Handling, TypeOK, Saves
  <2>2. CASE saveResult = 0
    BY <1>15, <2>2, Zenon DEF PollComplete, AckInv, Saves, Quiet, Handling, TypeOK
  <2>3. CASE saveResult # 0
    <3>1. /\ saveResult = saves
          /\ results' = [results EXCEPT ![saves] = ack]
          /\ saveResult' = 0
          /\ poller' = "polling"
      BY <1>15, <2>3, Zenon DEF PollComplete, SlotInv
    <3>2. Quiet'
      BY <1>15, <3>1, ZenonT(30) DEF PollComplete, Quiet, Handling, OneInTransit
    <3>3. lastOk = 0
      BY <1>15, <2>1, <3>1, <2>3 DEF PollComplete, AckInv, Saves, NoAck
    <3>4. \A c \in Callers : pc[c] # "armed"
      BY <1>15, Zenon DEF PollComplete, SlotInv, Quiet, Handling
    <3> QED
      BY <1>15, <2>1, <3>1, <3>2, <3>3, <3>4 DEF PollComplete, AckInv, Saves, Handling, TypeOK
  <2> QED
    BY <2>2, <2>3, Zenon
<1>16. CASE PollAbandoned
  BY <1>16, Zenon DEF PollAbandoned, AckInv, Saves, Quiet, Handling, TypeOK
<1>17. CASE PollConsume
  BY <1>17, Zenon DEF PollConsume, AckInv, Saves, Quiet, Handling, TypeOK
<1>18. CASE PollUnclaimed
  BY <1>18, Zenon DEF PollUnclaimed, PollerFails, PollerDone, AckInv, Saves, Quiet,
      Handling, TypeOK
<1>19. CASE PollLoopReturns
  BY <1>19, Zenon DEF PollLoopReturns, PollerFails, PollerDone, AckInv, Saves, Quiet,
      Handling, TypeOK
<1>20. CASE PumpExit
  BY <1>20, ZenonT(30) DEF PumpExit, AckInv, Saves, Quiet, Handling, TypeOK
<1>21. CASE WorkerStopResult
  <2>1. CASE commands' = Append(commands, ActorStopResult) /\ UNCHANGED workerErrors
    BY <1>21, <2>1 DEF WorkerStopResult, AckInv, Saves, Quiet, Handling, TypeOK,
       ActorStopResult
  <2>2. CASE UNCHANGED commands
    BY <1>21, <2>2, ZenonT(30) DEF WorkerStopResult, AckInv, Saves, Quiet, Handling, TypeOK,
       ActorStopResult
  <2> QED
    BY <1>21, <2>1, <2>2, Zenon DEF WorkerStopResult
<1>22. CASE WorkerPanic
  BY <1>22 DEF WorkerPanic, PanicResult, AckInv, Saves, Quiet, Handling, TypeOK
<1>23. CASE DispatchSave
  <2> DEFINE n == Head(commands).save
  <2>1. commands \in Seq(Commands) /\ commands # << >>
    BY <1>23, Zenon DEF DispatchSave, TypeOK
  <2>2. ~Quiet
    BY <1>23, <2>1, QueueHead, Zenon DEF DispatchSave, Quiet
  <2>3. \A i \in 1 .. Len(events') : events'[i].ok => persisted' = events'[i].save
    <3>1. CASE events' = events
      BY <1>23, <3>1, ZenonT(30) DEF DispatchSave, AckInv
    <3>2. CASE events' = Append(events, [save |-> n, ok |-> FALSE])
      BY <1>23, <3>2, SMTT(30) DEF DispatchSave, AckInv, TypeOK
    <3> QED
      BY <1>23, <3>1, <3>2, Zenon DEF DispatchSave
  <2> QED
    BY <1>23, <2>2, <2>3, Zenon DEF DispatchSave, AckInv, Handling
<1>24. CASE DispatchStop
  BY <1>24, SMTT(30) DEF DispatchStop, AckInv, Saves, Quiet, Handling, TypeOK
<1>25. CASE DispatchPanic
  BY <1>25 DEF DispatchPanic, AckInv, Saves, Quiet, Handling, TypeOK
<1>26. CASE SQLiteBegin \/ SQLiteFinish \/ WorkerStop \/ WorkerClosed \/
              WorkerCancelled \/ WorkerSubmitFails \/ WorkerAbort \/ WorkerRemove \/ StopListen \/
              StopCheck \/ StopWake \/ ActorStopRequested \/ ActorEnds \/
              Finished
  <2>1. UNCHANGED <<saves, results, events, persisted, poller, ack, commands,
               saving, saveResult, pc, lastOk>>
    BY <1>26, ZenonT(60), Zenon DEF SQLiteBegin, SQLiteFinish, WorkerStop, WorkerClosed,
        WorkerCancelled, WorkerSubmitFails, WorkerAbort, WorkerRemove, StopListen, StopCheck,
        StopWake, ActorStopRequested, ActorEnds, Finished, vars
  <2> QED
    BY <2>1, Zenon DEF AckInv, Saves, Quiet, Handling
<1>27. CASE UNCHANGED vars
  BY <1>27, Zenon DEF vars, AckInv, Saves, Quiet, Handling
<1> QED
  BY NextCases, <1>1, <1>2, <1>3, <1>4, <1>5, <1>6, <1>7, <1>8, <1>9, <1>10,
      <1>11, <1>12, <1>13, <1>14, <1>15, <1>16, <1>17, <1>18, <1>19, <1>20,
      <1>21, <1>22, <1>23, <1>24, <1>25, <1>26, <1>27, Zenon

-----------------------------------------------------------------------------
(* Theorems *)

\* The strengthened invariant holds throughout.
LEMMA Invariance == Spec => []IInv
<1>1. ASSUME IInv, [Next]_vars PROVE IInv'
  BY <1>1, TypeStep, LockStep, TransitStep, OneStep, SlotStep, AckStep, StopStep, Zenon
  DEF IInv
<1> QED
  BY <1>1, Initially, PTL DEF Spec

\* The session, the pump and the native side keep their types, for every set
\* of callers and every bound.
THEOREM TypeCorrect == Spec => []TypeOK
BY Invariance, PTL DEF IInv

\* completeSave hands every StatePersisted to the save it acknowledges.
THEOREM AcksMatch == Spec => []AckMatchesSave
<1>1. IInv => AckMatchesSave
  BY Zenon DEF IInv, AckInv, AckMatchesSave
<1> QED
  BY <1>1, Invariance, PTL

\* The "actor save is already pending" branch of Save is unreachable.
THEOREM SlotIsFree == Spec => []SlotFree
<1>1. IInv => SlotFree
  BY Zenon DEF IInv, SlotInv, SlotFree
<1> QED
  BY <1>1, Invariance, PTL

\* closeGracefully fences the session before ActorStopResult is submitted.
THEOREM StopFence == Spec => []StopIsLast
<1>1. IInv => StopIsLast
  BY DEF IInv, StopInv, Fenced, StopIsLast, ActorStopResult
<1> QED
  BY <1>1, Invariance, PTL

\* The saves of a generation implement StateCell: no stale snapshot overwrites
\* a newer one, success means stored, nothing is stored after the stop.
THEOREM Refinement == Spec => ImplementsStateCell
<1>1. Init => Cell!Init
  BY SMTT(60) DEF Init, Cell!Init
<1>2. ASSUME IInv, [Next]_vars PROVE [Cell!Next]_(Cell!vars)
  <2> USE SaveAssumption DEF Cell!vars
  <2>0. TypeOK /\ TransitInv /\ SlotInv /\ AckInv /\ StopInv
    BY <1>2, Zenon DEF IInv
  <2>1. ASSUME NEW c \in Callers, SaveArm(c) PROVE Cell!Issue
    BY <2>1, Zenon DEF SaveArm, Cell!Issue, workVars, opVars, actorVars, nativeVars
  <2>2. ASSUME NEW c \in Callers, SaveResult(c)
        PROVE  Cell!Acknowledge \/ UNCHANGED Cell!vars
    <3>1. saves \in Saves /\ lastOk = 0
      BY <2>0, <2>2 DEF SaveResult, SlotInv, TypeOK, Saves
    <3>2. results[saves].ok => persisted = saves
      BY <2>0, <2>2, <3>1, Zenon DEF SaveResult, AckInv
    <3> QED
      BY <2>2, <3>1, <3>2, Zenon DEF SaveResult, Cell!Acknowledge, opVars, actorVars,
         nativeVars, Saves
  <2>3. ASSUME NEW n \in saving
        PROVE  n = saves /\ n # 0 /\ lastOk = 0 /\ stop # "resolved"
    BY <2>0, <2>3 DEF TransitInv, Recorded, AckInv, StopInv, TypeOK, Quiet,
       Saves, NoAck
  <2>4. ASSUME NEW n \in Saves, SaveConfirmed(n) PROVE Cell!Write
    BY <2>3, <2>4, Zenon DEF SaveConfirmed, Cell!Write, slotVars
  <2>5. ASSUME NEW n \in Saves, SaveUnconfirmed(n)
        PROVE  Cell!Write \/ UNCHANGED Cell!vars
    BY <2>3, <2>5, Zenon DEF SaveUnconfirmed, Cell!Write, slotVars
  <2>6. CASE StopCheck
    BY <2>6, Zenon DEF StopCheck, Cell!Next, Cell!Seal, slotVars
  <2>7. CASE DispatchStop
    <3>1. stop = "none"
      BY <2>0, <2>7, Zenon DEF DispatchStop, StopInv
    <3> QED
      BY <2>7, <3>1, Zenon DEF DispatchStop, slotVars
  <2>8. ASSUME NEW c \in Callers,
               SaveBegin(c) \/ SaveRefuse(c) \/ SaveSubmit(c)
               \/ SaveSubmitFails(c) \/ SaveAbandon(c) \/ SaveInterrupted(c)
               \/ SaveReturn(c)
        PROVE  UNCHANGED Cell!vars
    BY <2>8, Zenon DEF SaveBegin, SaveRefuse, SaveSubmit, SaveSubmitFails, SaveAbandon,
       SaveInterrupted, SaveReturn, slotVars, opVars, nativeVars
  <2>9. ASSUME NEW n \in Saves, GuardDrop(n) PROVE UNCHANGED Cell!vars
    BY <2>9, Zenon DEF GuardDrop, slotVars
  <2>10. CASE SQLiteBegin \/ SQLiteFinish \/ PollAck \/ PollOrphan
              \/ PollComplete \/ PollAbandoned \/ PollConsume \/ PollUnclaimed
              \/ PollLoopReturns \/ PumpExit
    <3>1. UNCHANGED <<saves, persisted, lastOk, stop>>
      BY <2>10, ZenonT(60), Zenon DEF SQLiteBegin, SQLiteFinish, PollAck, PollOrphan,
         PollComplete, PollAbandoned, PollConsume, PollUnclaimed,
         PollLoopReturns, PumpExit, slotVars, opVars, nativeVars
    <3> QED
      BY <3>1, Zenon
  <2>11. CASE WorkerStop \/ WorkerClosed \/ WorkerStopResult \/ WorkerPanic
              \/ WorkerCancelled \/ WorkerSubmitFails \/ WorkerAbort \/ WorkerRemove
    <3>1. UNCHANGED <<saves, persisted, lastOk, stop>>
      BY <2>11, ZenonT(60), Zenon DEF WorkerStop, WorkerClosed, WorkerStopResult,
         WorkerPanic, WorkerCancelled, WorkerSubmitFails, WorkerAbort,
         WorkerRemove, slotVars, opVars, nativeVars
    <3> QED
      BY <3>1
  <2>12. CASE DispatchSave \/ DispatchPanic \/ StopListen \/ StopWake
              \/ ActorStopRequested \/ ActorEnds \/ Finished
    BY <2>12, Zenon DEF DispatchSave, DispatchPanic, StopListen, StopWake,
       ActorStopRequested, ActorEnds, Finished, slotVars, opVars, nativeVars, vars
  <2>13. CASE UNCHANGED vars
    BY <2>13, Zenon DEF vars, slotVars, opVars, nativeVars
  <2> QED
    BY <1>2, NextCases, <2>1, <2>2, <2>4, <2>5, <2>6, <2>7, <2>8, <2>9, <2>10, <2>11,
       <2>12, <2>13, Zenon DEF Cell!Next
<1> QED
  BY <1>1, <1>2, Invariance, PTL DEF Spec, Cell!Spec, ImplementsStateCell

-----------------------------------------------------------------------------
(* Acknowledgements and the end of the pump.                               *)

\* The poll goroutine is on its way out, or the pump has a reason to end.
Ended == poller \in {"exiting", "exited"}
Failing == workerErrors \/ Ended

\* The mark in p.lateSaves covers the one abandoned save for as long as it is
\* in transit, and the poison is lifted before the mark is taken away.
LateInv ==
  /\ abandons = 0 => ~savePoisoned /\ ~lateSave
  /\ saveResult # 0 => ~savePoisoned
  /\ poller = "consume" => lateSave /\ ~savePoisoned
  /\ poller = "abandoned" => savePoisoned
  /\ poller # "unclaimed"
  /\ savePoisoned /\ ~Quiet => lateSave

\* Only a pump that is failing interrupts a save that waits, and only then is
\* a worker gone before the saves it accepted have left the slot.
EndInv ==
  /\ worker \in {"aborting", "aborted", "gone"} => Fenced \/ Failing
  /\ done => Fenced \/ Failing
  /\ \A c \in Callers : pc[c] = "returning" => saveResult = 0 \/ Failing
  /\ saveMu = NoCaller => saveResult = 0 \/ Failing
  /\ ~registered => worker = "gone"
  /\ poller = "orphan" => ~registered
  /\ fatal # "none" => Ended
  /\ AcksNeverFatal

\* Only SaveSubmit puts a save in transit.
LEMMA QuietStays ==
  ASSUME TypeOK, Quiet, [Next]_vars, \A c \in Callers : ~SaveSubmit(c)
  PROVE  Quiet'
<1> USE DEF callVars, slotVars, gateVars, pollVars, workVars, opVars, actorVars, nativeVars
<1>1. ASSUME NEW c \in Callers,
             SaveBegin(c) \/ SaveArm(c) \/ SaveRefuse(c) \/ SaveSubmitFails(c) \/ SaveResult(c)
               \/ SaveAbandon(c) \/ SaveInterrupted(c) \/ SaveReturn(c)
      PROVE  Quiet'
  <2>1. UNCHANGED <<commands, saving, events, poller>>
    BY <1>1, Zenon DEF SaveBegin, SaveArm, SaveRefuse, SaveSubmitFails, SaveResult, SaveAbandon,
       SaveInterrupted, SaveReturn
  <2> QED
    BY <2>1, Zenon DEF Quiet, Handling
<1>2. ASSUME NEW n \in Saves, SaveConfirmed(n) \/ SaveUnconfirmed(n) \/ GuardDrop(n)
      PROVE  Quiet'
  <2>1. GuardDrop(n)
    BY <1>2, Zenon DEF SaveConfirmed, SaveUnconfirmed, Quiet
  <2> QED
    BY <2>1, Zenon DEF GuardDrop, Quiet, Handling
<1>3. CASE PollAck \/ PollOrphan \/ PollComplete \/ PollAbandoned \/ PollConsume \/ PollUnclaimed
             \/ PollLoopReturns \/ PumpExit
  <2>1. UNCHANGED <<commands, saving, events>> /\ poller' \notin {"orphan", "complete", "abandoned"}
    BY <1>3, Zenon DEF PollAck, PollOrphan, PollComplete, PollAbandoned, PollConsume, PollUnclaimed,
       PollLoopReturns, PumpExit, PollerDone, PollerFails, Quiet, Handling
  <2> QED
    BY <2>1, Zenon DEF Quiet, Handling
<1>4. CASE WorkerStopResult \/ WorkerPanic
  <2>1. UNCHANGED <<saving, events, poller>>
    BY <1>4, Zenon DEF WorkerStopResult, WorkerPanic
  <2>2. commands' \in {commands, Append(commands, ActorStopResult), Append(commands, PanicResult)}
    BY <1>4, Zenon DEF WorkerStopResult, WorkerPanic
  <2>3. commands \in Seq(Commands)
    BY Zenon DEF TypeOK
  <2> QED
    BY <2>1, <2>2, <2>3, SMTT(30) DEF Quiet, Handling, ActorStopResult, PanicResult
<1>5. CASE DispatchSave
  <2>1. commands \in Seq(Commands) /\ commands # << >> /\ Head(commands).kind = "SaveState"
    BY <1>5, Zenon DEF DispatchSave, TypeOK
  <2> QED
    BY <2>1, QueueHead, Zenon DEF Quiet
<1>6. CASE DispatchStop \/ DispatchPanic
  <2>1. /\ commands \in Seq(Commands) /\ commands # << >>
        /\ commands' = Tail(commands) /\ UNCHANGED <<saving, events, poller>>
    BY <1>6, Zenon DEF DispatchStop, DispatchPanic, TypeOK
  <2> QED
    BY <2>1, QueueHead, Zenon DEF Quiet, Handling
<1>7. CASE SQLiteBegin \/ SQLiteFinish \/ WorkerStop \/ WorkerClosed \/ WorkerSubmitFails
             \/ WorkerCancelled \/ WorkerAbort \/ WorkerRemove \/ StopListen \/ StopCheck
             \/ StopWake \/ ActorStopRequested \/ ActorEnds \/ Finished \/ UNCHANGED vars
  <2>1. UNCHANGED <<commands, saving, events, poller>>
    BY <1>7, Zenon DEF SQLiteBegin, SQLiteFinish, WorkerStop, WorkerClosed, WorkerSubmitFails,
       WorkerCancelled, WorkerAbort, WorkerRemove, StopListen, StopCheck, StopWake,
       ActorStopRequested, ActorEnds, Finished, vars
  <2> QED
    BY <2>1, Zenon DEF Quiet, Handling
<1> QED
  BY NextCases, <1>1, <1>2, <1>3, <1>4, <1>5, <1>6, <1>7, Zenon

\* With one abandoned save at most, the late-save mark stays until that save's
\* acknowledgement has been consumed.
LEMMA LateStep ==
  ASSUME MaxAbandons \in {0, 1}, IInv, LateInv, [Next]_vars
  PROVE  LateInv'
<1> USE DEF callVars, slotVars, gateVars, pollVars, workVars, opVars, actorVars, nativeVars
<1>0. /\ savePoisoned \in BOOLEAN /\ lateSave \in BOOLEAN
      /\ abandons \in 0 .. MaxAbandons /\ saves \in Nat /\ saveResult \in {0, saves}
      /\ TypeOK
  BY SaveAssumption DEF IInv, TypeOK, SlotInv
<1>1. ASSUME NEW c \in Callers, SaveSubmit(c) PROVE LateInv'
  <2>1. ~savePoisoned
    BY <1>1, Zenon DEF SaveSubmit, IInv, SlotInv, LateInv
  <2>2. UNCHANGED <<abandons, savePoisoned, lateSave, saveResult, poller>>
    BY <1>1, Zenon DEF SaveSubmit
  <2> QED
    BY <2>1, <2>2, Zenon DEF LateInv
<1> SUFFICES ASSUME \A c \in Callers : ~SaveSubmit(c) PROVE LateInv'
  BY <1>1, Zenon
<1>2. ~Quiet' => ~Quiet
  BY <1>0, QuietStays, Zenon
<1>3. ASSUME NEW c \in Callers, SaveArm(c) PROVE LateInv'
  <2>1. ~savePoisoned /\ UNCHANGED <<abandons, savePoisoned, lateSave, poller>>
    BY <1>3, Zenon DEF SaveArm
  <2> QED
    BY <1>2, <2>1, Zenon DEF LateInv
<1>4. ASSUME NEW c \in Callers, SaveSubmitFails(c) PROVE LateInv'
  <2>1. saveResult' \in {0, saveResult} /\ UNCHANGED <<abandons, savePoisoned, lateSave, poller>>
    BY <1>4, Zenon DEF SaveSubmitFails
  <2> QED
    BY <1>2, <2>1, Zenon DEF LateInv
<1>5. ASSUME NEW c \in Callers, SaveAbandon(c) PROVE LateInv'
  <2>1. /\ saves # 0 /\ abandons = 0 /\ abandons' = 1 /\ poller' = poller
    BY <1>0, <1>5 DEF SaveAbandon, IInv, SlotInv
  <2>2. ~savePoisoned /\ ~lateSave /\ poller # "consume"
    BY <2>1, Zenon DEF LateInv
  <2>3. saveResult' = 0
    BY <1>0, <1>5, Zenon DEF SaveAbandon
  <2>4. savePoisoned' = lateSave'
    BY <1>0, <1>5, <2>2, Zenon DEF SaveAbandon
  <2>5. savePoisoned => savePoisoned'
    BY <2>2, Zenon
  <2> QED
    BY <2>1, <2>2, <2>3, <2>4, <2>5 DEF LateInv
<1>6. CASE PollAck
  <2>1. poller' \in {"complete", "orphan"} /\ UNCHANGED <<abandons, savePoisoned, lateSave, saveResult>>
    BY <1>6, Zenon DEF PollAck
  <2> QED
    BY <1>2, <2>1, Zenon DEF LateInv
<1>7. CASE PollOrphan
  <2>1. /\ lateSave' = FALSE /\ poller' \in {"polling", "exiting"}
        /\ UNCHANGED <<abandons, savePoisoned, saveResult, commands, saving, events>>
    BY <1>7, Zenon DEF PollOrphan, PollerDone, PollerFails
  <2>2. Quiet'
    BY <1>7, <2>1, Zenon DEF PollOrphan, IInv, OneInTransit, Quiet, Handling
  <2> QED
    BY <2>1, <2>2, Zenon DEF LateInv
<1>8. CASE PollComplete
  <2>1. UNCHANGED <<abandons, savePoisoned, lateSave>> /\ saveResult' \in {0, saveResult}
    BY <1>8, Zenon DEF PollComplete
  <2>2. poller' \in {"polling", "abandoned"}
    BY <1>8, Zenon DEF PollComplete
  <2>3. poller' = "abandoned" => savePoisoned
    BY <1>8, Zenon DEF PollComplete, IInv, TransitInv, Recorded, Handling
  <2> QED
    BY <1>2, <2>1, <2>2, <2>3, Zenon DEF LateInv
<1>9. CASE PollAbandoned
  <2>1. savePoisoned /\ lateSave
    BY <1>9, Zenon DEF PollAbandoned, LateInv, Quiet, Handling
  <2>2. /\ savePoisoned' = FALSE /\ poller' = "consume"
        /\ UNCHANGED <<abandons, lateSave, saveResult>>
    BY <1>9, <2>1, Zenon DEF PollAbandoned
  <2> QED
    BY <2>1, <2>2, Zenon DEF LateInv
<1>10. CASE PollConsume
  <2>1. lateSave /\ ~savePoisoned
    BY <1>10, Zenon DEF PollConsume, LateInv
  <2>2. lateSave' = FALSE /\ poller' = "polling" /\ UNCHANGED <<abandons, savePoisoned, saveResult>>
    BY <1>10, <2>1, Zenon DEF PollConsume
  <2> QED
    BY <2>1, <2>2, Zenon DEF LateInv
<1>11. CASE PollUnclaimed
  BY <1>11, Zenon DEF PollUnclaimed, LateInv
<1>12. CASE PollLoopReturns \/ PumpExit
  <2>1. poller' \in {"exiting", "exited"} /\ UNCHANGED <<abandons, savePoisoned, lateSave, saveResult>>
    BY <1>12, Zenon DEF PollLoopReturns, PumpExit, PollerFails
  <2> QED
    BY <1>2, <2>1, Zenon DEF LateInv
<1>13. CASE UNCHANGED <<abandons, savePoisoned, lateSave, saveResult, poller>>
  BY <1>2, <1>13, Zenon DEF LateInv
<1>14. ASSUME NEW c \in Callers,
              SaveBegin(c) \/ SaveRefuse(c) \/ SaveResult(c) \/ SaveInterrupted(c) \/ SaveReturn(c)
       PROVE  UNCHANGED <<abandons, savePoisoned, lateSave, saveResult, poller>>
  BY <1>14, Zenon DEF SaveBegin, SaveRefuse, SaveResult, SaveInterrupted, SaveReturn
<1>15. ASSUME NEW n \in Saves, SaveConfirmed(n) \/ SaveUnconfirmed(n) \/ GuardDrop(n)
       PROVE  UNCHANGED <<abandons, savePoisoned, lateSave, saveResult, poller>>
  BY <1>15, Zenon DEF SaveConfirmed, SaveUnconfirmed, GuardDrop
<1>16. CASE SQLiteBegin \/ SQLiteFinish \/ WorkerStop \/ WorkerClosed \/ WorkerStopResult
              \/ WorkerPanic \/ WorkerSubmitFails \/ WorkerCancelled \/ WorkerAbort \/ WorkerRemove
              \/ DispatchSave \/ DispatchStop \/ DispatchPanic \/ StopListen \/ StopCheck
              \/ StopWake \/ ActorStopRequested \/ ActorEnds \/ Finished \/ UNCHANGED vars
  <2>1. UNCHANGED <<abandons, savePoisoned, lateSave, saveResult, poller>>
    BY <1>16, Zenon DEF SQLiteBegin, SQLiteFinish, WorkerStop, WorkerClosed, WorkerStopResult,
       WorkerPanic, WorkerSubmitFails, WorkerCancelled, WorkerAbort, WorkerRemove,
       DispatchSave, DispatchStop, DispatchPanic, StopListen, StopCheck, StopWake,
       ActorStopRequested, ActorEnds, Finished, vars
  <2> QED
    BY <1>13, <2>1, Zenon
<1> QED
  BY NextCases, <1>3, <1>4, <1>5, <1>6, <1>7, <1>8, <1>9, <1>10, <1>11, <1>12, <1>13,
     <1>14, <1>15, <1>16, Zenon

\* A fenced session stays fenced: beginSave and the SQLite gate refuse.
LEMMA FencedStays ==
  ASSUME IInv, Fenced, [Next]_vars
  PROVE  Fenced'
<1> USE DEF callVars, slotVars, gateVars, pollVars, workVars, opVars, actorVars, nativeVars
<1>1. ASSUME NEW c \in Callers, SaveBegin(c) \/ SaveReturn(c) PROVE Fenced'
  <2>1. SaveReturn(c) /\ saveMu = c /\ c # NoCaller
    BY <1>1, SaveAssumption, Zenon DEF SaveBegin, SaveReturn, Fenced, IInv, LockInv
  <2> QED
    BY <2>1 DEF Fenced, IInv, LockInv
<1>2. CASE SQLiteBegin \/ SQLiteFinish
  BY <1>2 DEF SQLiteBegin, SQLiteFinish, Fenced
<1>3. CASE PumpExit \/ WorkerStop \/ WorkerAbort
  <2>1. UNCHANGED <<activeSaves, activeSQLite>>
    BY <1>3, Zenon DEF PumpExit, WorkerStop, WorkerAbort
  <2>2. ~accepting'
    BY <1>3, Zenon DEF PumpExit, WorkerStop, WorkerAbort, Fenced
  <2> QED
    BY <2>1, <2>2, Zenon DEF Fenced
<1>4. CASE UNCHANGED <<accepting, activeSaves, activeSQLite>>
  BY <1>4, Zenon DEF Fenced
<1>5. ASSUME NEW c \in Callers,
             SaveArm(c) \/ SaveRefuse(c) \/ SaveSubmit(c) \/ SaveSubmitFails(c) \/ SaveResult(c)
               \/ SaveAbandon(c) \/ SaveInterrupted(c)
      PROVE  UNCHANGED <<accepting, activeSaves, activeSQLite>>
  BY <1>5, Zenon DEF SaveArm, SaveRefuse, SaveSubmit, SaveSubmitFails, SaveResult, SaveAbandon,
     SaveInterrupted
<1>6. ASSUME NEW n \in Saves, SaveConfirmed(n) \/ SaveUnconfirmed(n) \/ GuardDrop(n)
      PROVE  UNCHANGED <<accepting, activeSaves, activeSQLite>>
  BY <1>6, Zenon DEF SaveConfirmed, SaveUnconfirmed, GuardDrop
<1>7. CASE PollAck \/ PollOrphan \/ PollComplete \/ PollAbandoned \/ PollConsume \/ PollUnclaimed
             \/ PollLoopReturns \/ WorkerClosed \/ WorkerStopResult \/ WorkerPanic
             \/ WorkerSubmitFails \/ WorkerCancelled \/ WorkerRemove \/ DispatchSave
             \/ DispatchStop \/ DispatchPanic \/ StopListen \/ StopCheck \/ StopWake
             \/ ActorStopRequested \/ ActorEnds \/ Finished \/ UNCHANGED vars
  <2>1. UNCHANGED <<accepting, activeSaves, activeSQLite>>
    BY <1>7, Zenon DEF PollAck, PollOrphan, PollComplete, PollAbandoned, PollConsume,
       PollUnclaimed, PollLoopReturns, WorkerClosed, WorkerStopResult, WorkerPanic,
       WorkerSubmitFails, WorkerCancelled, WorkerRemove, DispatchSave, DispatchStop,
       DispatchPanic, StopListen, StopCheck, StopWake, ActorStopRequested, ActorEnds,
       Finished, vars
  <2> QED
    BY <1>4, <2>1, Zenon
<1> QED
  BY NextCases, <1>1, <1>2, <1>3, <1>4, <1>5, <1>6, <1>7, Zenon

\* A failing pump goes on to fail: a worker's error is taken only by pollLoop's
\* return.
LEMMA FailingStays ==
  ASSUME Failing, [Next]_vars
  PROVE  Failing'
<1> USE DEF callVars, slotVars, gateVars, pollVars, workVars, opVars, actorVars, nativeVars
<1>1. CASE PollLoopReturns \/ PumpExit
  BY <1>1, Zenon DEF PollLoopReturns, PumpExit, PollerFails, Failing, Ended
<1>2. CASE PollAck \/ PollOrphan \/ PollComplete \/ PollAbandoned \/ PollConsume \/ PollUnclaimed
  <2>1. ~Ended /\ workerErrors' = workerErrors
    BY <1>2, Zenon DEF PollAck, PollOrphan, PollComplete, PollAbandoned, PollConsume,
       PollUnclaimed, Ended
  <2> QED
    BY <2>1, Zenon DEF Failing
<1>3. CASE WorkerStopResult \/ WorkerSubmitFails
  BY <1>3, Zenon DEF WorkerStopResult, WorkerSubmitFails, Failing, Ended
<1>4. CASE UNCHANGED <<workerErrors, poller>>
  BY <1>4, Zenon DEF Failing, Ended
<1>5. ASSUME NEW c \in Callers,
             SaveBegin(c) \/ SaveArm(c) \/ SaveRefuse(c) \/ SaveSubmit(c) \/ SaveSubmitFails(c)
               \/ SaveResult(c) \/ SaveAbandon(c) \/ SaveInterrupted(c) \/ SaveReturn(c)
      PROVE  UNCHANGED <<workerErrors, poller>>
  BY <1>5, Zenon DEF SaveBegin, SaveArm, SaveRefuse, SaveSubmit, SaveSubmitFails, SaveResult,
     SaveAbandon, SaveInterrupted, SaveReturn
<1>6. ASSUME NEW n \in Saves, SaveConfirmed(n) \/ SaveUnconfirmed(n) \/ GuardDrop(n)
      PROVE  UNCHANGED <<workerErrors, poller>>
  BY <1>6, Zenon DEF SaveConfirmed, SaveUnconfirmed, GuardDrop
<1>7. CASE SQLiteBegin \/ SQLiteFinish \/ WorkerStop \/ WorkerClosed \/ WorkerPanic
             \/ WorkerCancelled \/ WorkerAbort \/ WorkerRemove \/ DispatchSave \/ DispatchStop
             \/ DispatchPanic \/ StopListen \/ StopCheck \/ StopWake \/ ActorStopRequested
             \/ ActorEnds \/ Finished \/ UNCHANGED vars
  <2>1. UNCHANGED <<workerErrors, poller>>
    BY <1>7, Zenon DEF SQLiteBegin, SQLiteFinish, WorkerStop, WorkerClosed, WorkerPanic,
       WorkerCancelled, WorkerAbort, WorkerRemove, DispatchSave, DispatchStop, DispatchPanic,
       StopListen, StopCheck, StopWake, ActorStopRequested, ActorEnds, Finished, vars
  <2> QED
    BY <1>4, <2>1, Zenon
<1> QED
  BY NextCases, <1>1, <1>2, <1>3, <1>4, <1>5, <1>6, <1>7, Zenon

\* A step that neither touches the slot nor ends anything keeps EndInv.
LEMMA EndKept ==
  ASSUME IInv, EndInv, [Next]_vars,
         UNCHANGED <<worker, done, registered, fatal, poller, workerErrors, saveResult>>,
         \A c \in Callers : pc'[c] = "returning" => pc[c] = "returning" \/ saveResult = 0 \/ Failing,
         saveMu' = NoCaller => saveMu = NoCaller \/ saveResult = 0 \/ Failing
  PROVE  EndInv'
  BY FencedStays, FailingStays, Zenon DEF EndInv, AcksNeverFatal, Ended

\* Without panics, only a failing pump interrupts a save that waits, and an
\* acknowledgement that finds neither worker nor mark finds the pump failing.
LEMMA EndStep ==
  ASSUME ~MayPanic, IInv, LateInv, EndInv, [Next]_vars
  PROVE  EndInv'
<1> USE DEF callVars, slotVars, gateVars, pollVars, workVars, opVars, actorVars, nativeVars
<1>0. (Fenced => Fenced') /\ (Failing => Failing')
  BY FencedStays, FailingStays, Zenon
<1>1. ASSUME NEW c \in Callers PROVE pc[c] # "idle" => saveMu = c /\ c # NoCaller /\ ~Fenced
  BY SaveAssumption DEF IInv, LockInv, Fenced
<1>2. ASSUME NEW c \in Callers, SaveArm(c) PROVE EndInv'
  <2>1. /\ UNCHANGED <<worker, done, registered, fatal, poller, workerErrors, saveMu>>
        /\ pc[c] = "begun" /\ pc' = [pc EXCEPT ![c] = "armed"]
    BY <1>2, Zenon DEF SaveArm
  <2>2. \A d \in Callers : pc'[d] # "returning"
    BY <1>1, <2>1, Zenon DEF IInv, TypeOK
  <2> QED
    BY <1>0, <1>1, <2>1, <2>2, Zenon DEF EndInv, AcksNeverFatal, Ended
<1>3. ASSUME NEW c \in Callers, SaveSubmitFails(c) \/ SaveAbandon(c) PROVE EndInv'
  <2>1. UNCHANGED <<worker, done, registered, fatal, poller, workerErrors, saveMu>>
    BY <1>3, Zenon DEF SaveSubmitFails, SaveAbandon
  <2>2. saveResult' = 0
    BY <1>3, Zenon DEF SaveSubmitFails, SaveAbandon, IInv, SlotInv
  <2> QED
    BY <1>0, <2>1, <2>2, Zenon DEF EndInv, AcksNeverFatal, Ended
<1>4. ASSUME NEW c \in Callers,
             SaveBegin(c) \/ SaveRefuse(c) \/ SaveSubmit(c) \/ SaveResult(c)
               \/ SaveInterrupted(c) \/ SaveReturn(c)
      PROVE  EndInv'
  <2>1. UNCHANGED <<worker, done, registered, fatal, poller, workerErrors, saveResult>>
    BY <1>4, Zenon DEF SaveBegin, SaveRefuse, SaveSubmit, SaveResult, SaveInterrupted, SaveReturn
  <2>2. ASSUME NEW d \in Callers, pc'[d] = "returning", pc[d] # "returning"
        PROVE  saveResult = 0 \/ Failing
    <3>1. d = c /\ (SaveRefuse(c) \/ SaveResult(c) \/ SaveInterrupted(c))
      BY <1>4, <2>2, Zenon DEF SaveBegin, SaveRefuse, SaveSubmit, SaveResult, SaveInterrupted,
         SaveReturn, IInv, TypeOK
    <3>2. CASE SaveRefuse(c)
      BY <3>2, Zenon DEF SaveRefuse, IInv, SlotInv
    <3>3. CASE SaveResult(c)
      <4>1. pc[c] = "waiting" /\ results[saves] # NoAck
        BY <3>3, Zenon DEF SaveResult
      <4>2. saves \in Saves
        BY <4>1, SaveAssumption DEF IInv, SlotInv, TypeOK, Saves
      <4> QED
        BY <4>1, <4>2, Zenon DEF IInv, AckInv
    <3>4. CASE SaveInterrupted(c)
      BY <1>1, <3>4, Zenon DEF SaveInterrupted, EndInv
    <3> QED
      BY <3>1, <3>2, <3>3, <3>4, Zenon
  <2>3. saveMu' = NoCaller => saveMu = NoCaller \/ saveResult = 0 \/ Failing
    BY <1>1, <1>4, Zenon DEF SaveBegin, SaveRefuse, SaveSubmit, SaveResult, SaveInterrupted,
       SaveReturn,
       EndInv
  <2> QED
    BY <2>1, <2>2, <2>3, EndKept, Zenon
<1>5. CASE PollAck
  <2>1. UNCHANGED <<worker, done, registered, fatal, workerErrors, saveMu, pc, saveResult>>
    BY <1>5, Zenon DEF PollAck
  <2>2. /\ poller = "polling"
        /\ poller' \in {"complete", "orphan"} /\ (poller' = "orphan" => ~registered)
    BY <1>5, Zenon DEF PollAck
  <2> QED
    BY <1>0, <2>1, <2>2, Zenon DEF EndInv, AcksNeverFatal, Ended
<1>6. CASE PollOrphan
  <2>1. UNCHANGED <<worker, done, registered, workerErrors, saveMu, pc, saveResult>>
    BY <1>6, Zenon DEF PollOrphan
  <2>2. /\ poller = "orphan" /\ worker = "gone" /\ fatal = "none" /\ ~Ended
        /\ IF lateSave THEN poller' = "polling" /\ fatal' = fatal
                       ELSE poller' = "exiting" /\ fatal' = "unknown_actor"
    BY <1>6, Zenon DEF PollOrphan, PollerDone, PollerFails, EndInv, Ended
  <2>3. lateSave \/ workerErrors
    <3>1. CASE Fenced
      <4>1. saveMu = NoCaller
        BY <3>1 DEF Fenced, IInv, LockInv
      <4>2. saveResult = 0 => savePoisoned
        BY <2>2, Zenon DEF IInv, TransitInv, Recorded, Handling
      <4>3. savePoisoned => lateSave
        BY <2>2, Zenon DEF LateInv, Quiet, Handling
      <4> QED
        BY <2>2, <4>1, <4>2, <4>3, Zenon DEF EndInv, Failing
    <3> QED
      BY <2>2, <3>1, Zenon DEF EndInv, Failing
  <2> QED
    BY <1>0, <2>1, <2>2, <2>3, Zenon DEF EndInv, AcksNeverFatal, Ended
<1>7. CASE PollComplete
  <2>1. UNCHANGED <<worker, done, registered, fatal, workerErrors, saveMu, pc>>
    BY <1>7, Zenon DEF PollComplete
  <2>2. /\ poller = "complete" /\ poller' \in {"polling", "abandoned"}
        /\ saveResult' \in {0, saveResult}
    BY <1>7, Zenon DEF PollComplete
  <2> QED
    BY <1>0, <2>1, <2>2, Zenon DEF EndInv, AcksNeverFatal, Ended
<1>8. CASE PollAbandoned \/ PollConsume \/ PollUnclaimed
  <2>1. UNCHANGED <<worker, done, registered, fatal, workerErrors, saveMu, pc, saveResult>>
    BY <1>8, Zenon DEF PollAbandoned, PollConsume, PollUnclaimed, LateInv
  <2>2. poller \notin {"exiting", "exited"} /\ poller' # "orphan"
    BY <1>8, Zenon DEF PollAbandoned, PollConsume, PollUnclaimed, LateInv
  <2> QED
    BY <1>0, <2>1, <2>2, Zenon DEF EndInv, AcksNeverFatal, Ended
<1>9. CASE PollLoopReturns
  <2>1. UNCHANGED <<worker, done, registered, saveMu, pc, saveResult>>
    BY <1>9, Zenon DEF PollLoopReturns
  <2>2. poller' = "exiting" /\ fatal' \in {"worker", "stopped"}
    BY <1>9, Zenon DEF PollLoopReturns, PollerFails
  <2> QED
    BY <1>0, <2>1, <2>2, Zenon DEF EndInv, AcksNeverFatal, Ended, Failing
<1>10. CASE PumpExit
  <2>1. UNCHANGED <<worker, registered, fatal, workerErrors, saveMu, pc, saveResult>>
    BY <1>10, Zenon DEF PumpExit
  <2>2. poller' = "exited"
    BY <1>10, Zenon DEF PumpExit
  <2> QED
    BY <1>0, <2>1, <2>2, Zenon DEF EndInv, AcksNeverFatal, Ended, Failing
<1>11. CASE WorkerClosed
  <2>1. UNCHANGED <<registered, fatal, poller, workerErrors, saveMu, pc, saveResult>>
    BY <1>11, Zenon DEF WorkerClosed
  <2>2. Fenced' /\ worker' = "closed" /\ registered
    BY <1>11, Zenon DEF WorkerClosed, Fenced, IInv, StopInv, EndInv
  <2> QED
    BY <1>0, <2>1, <2>2, Zenon DEF EndInv, AcksNeverFatal, Ended
<1>12. CASE WorkerStop \/ WorkerStopResult \/ WorkerSubmitFails \/ WorkerCancelled \/ WorkerAbort
              \/ WorkerRemove
  <2>1. UNCHANGED <<fatal, poller, saveMu, pc, saveResult>>
    BY <1>12, Zenon DEF WorkerStop, WorkerStopResult, WorkerSubmitFails, WorkerCancelled,
       WorkerAbort, WorkerRemove
  <2>2. /\ worker' \in {"aborting", "aborted", "gone"} => Fenced' \/ Failing'
        /\ done' => Fenced' \/ Failing'
    <3>1. WorkerStop \/ WorkerStopResult => done' = done
      BY <1>12, Zenon DEF WorkerStop, WorkerStopResult
    <3>2. CASE WorkerStop
      BY <1>0, <3>1, <3>2, Zenon DEF WorkerStop, EndInv
    <3>3. CASE WorkerStopResult
      BY <1>0, <3>1, <3>3, Zenon DEF WorkerStopResult, EndInv, IInv, StopInv
    <3>4. CASE WorkerSubmitFails
      BY <3>4, Zenon DEF WorkerSubmitFails, Failing
    <3>5. CASE WorkerCancelled
      BY <3>5, Zenon DEF WorkerCancelled, Failing, Ended
    <3>6. CASE WorkerAbort
      BY <1>0, <3>6, Zenon DEF WorkerAbort, EndInv
    <3>7. CASE WorkerRemove
      BY <1>0, <3>7, Zenon DEF WorkerRemove, EndInv
    <3> QED
      BY <1>12, <3>2, <3>3, <3>4, <3>5, <3>6, <3>7, Zenon
  <2>3. ~registered' => worker' = "gone"
    BY <1>12, Zenon DEF WorkerStop, WorkerStopResult, WorkerSubmitFails, WorkerCancelled,
       WorkerAbort, WorkerRemove, EndInv
  <2>4. poller = "orphan" => ~registered'
    BY <1>12, Zenon DEF WorkerStop, WorkerStopResult, WorkerSubmitFails, WorkerCancelled,
       WorkerAbort, WorkerRemove, EndInv
  <2>5. workerErrors => workerErrors'
    BY <1>12, Zenon DEF WorkerStop, WorkerStopResult, WorkerSubmitFails, WorkerCancelled,
       WorkerAbort, WorkerRemove
  <2> QED
    BY <1>0, <2>1, <2>2, <2>3, <2>4, <2>5, Zenon DEF EndInv, AcksNeverFatal, Ended
<1>13. CASE WorkerPanic
  BY <1>13, Zenon DEF WorkerPanic
<1>14. ASSUME NEW n \in Saves, SaveConfirmed(n) \/ SaveUnconfirmed(n) \/ GuardDrop(n)
       PROVE  EndInv'
  <2>1. UNCHANGED <<worker, done, registered, fatal, poller, workerErrors, saveResult, pc, saveMu>>
    BY <1>14, Zenon DEF SaveConfirmed, SaveUnconfirmed, GuardDrop
  <2> QED
    BY <2>1, EndKept, Zenon
<1>15. CASE SQLiteBegin \/ SQLiteFinish \/ DispatchSave \/ DispatchStop \/ DispatchPanic
              \/ StopListen \/ StopCheck \/ StopWake \/ ActorStopRequested \/ ActorEnds
              \/ Finished \/ UNCHANGED vars
  <2>1. UNCHANGED <<worker, done, registered, fatal, poller, workerErrors, saveResult, pc, saveMu>>
    BY <1>15, Zenon DEF SQLiteBegin, SQLiteFinish, DispatchSave, DispatchStop, DispatchPanic,
       StopListen, StopCheck, StopWake, ActorStopRequested, ActorEnds, Finished, vars
  <2> QED
    BY <2>1, EndKept, Zenon
<1> QED
  BY NextCases, <1>2, <1>3, <1>4, <1>5, <1>6, <1>7, <1>8, <1>9, <1>10, <1>11, <1>12, <1>13,
     <1>14, <1>15, Zenon

\* As long as one save at most is abandoned and no handler panics, no
\* acknowledgement is fatal for a pump that is not failing already, for every
\* number of callers, saves and SQLite calls.  SaveTwoLate shows that the bound
\* is sharp: a second abandoned save can lose the mark of the first.
THEOREM AcksAreNeverFatal ==
  ASSUME MaxAbandons \in {0, 1}, ~MayPanic
  PROVE  Spec => []AcksNeverFatal
<1>1. Init => LateInv /\ EndInv
  BY Zenon DEF Init, LateInv, EndInv, Ended, Failing, AcksNeverFatal
<1>2. IInv /\ LateInv /\ EndInv /\ [Next]_vars => LateInv' /\ EndInv'
  BY LateStep, EndStep, Zenon
<1>3. EndInv => AcksNeverFatal
  BY Zenon DEF EndInv
<1> QED
  BY <1>1, <1>2, <1>3, Invariance, PTL DEF Spec
=============================================================================
