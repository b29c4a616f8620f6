----------------------------- MODULE SDKProofs -----------------------------
(***************************************************************************)
(* Proofs about the registry, and about the durable queue for any number   *)
(* of messages, receives and calls.                                        *)
(*                                                                         *)
(* The queue's inductive invariant is lease accounting.  A record is       *)
(* hidden in core exactly while one place of the proxy owns its completion *)
(* handle: the table, a receive that has just taken it, or a completion in *)
(* progress.  A handle is never owned twice, so a completion that succeeds *)
(* leaves nothing behind that could complete or release the record again.  *)
(***************************************************************************)
EXTENDS DurableQueue, TLAPS

CONSTANTS Names, Registrars, Servers, MaxActors, Nobody

VARIABLES serving, actors, size, mutex, at, name, server, manifest

Reg == INSTANCE Registry

-----------------------------------------------------------------------------
(* The registry.                                                           *)

\* The mutex belongs to the registrar behind Lock.  A registrar whose second
\* look found nobody serving keeps a server that has claimed the registry from
\* copying it, so none is left when a copy exists.
RegistryInv ==
  /\ mutex \in Registrars \cup {Nobody}
  /\ at \in [Registrars -> {"idle", "checked", "locked", "cleared"}]
  /\ server \in [Servers -> {"idle", "claimed", "running"}]
  /\ manifest \in [Servers -> SUBSET Names] /\ actors \subseteq Names
  /\ name \in [Registrars -> Names]
  /\ \A r \in Registrars : at[r] \in {"locked", "cleared"} => mutex = r
  /\ \A s \in Servers : server[s] = "running" =>
       \A r \in Registrars : at[r] # "cleared"
  /\ Reg!ManifestMatches
  /\ Reg!ServesOnce

\* Registrations that race with Serve are either part of the copy it serves or
\* refused, and one server serves at a time.
THEOREM RegistryIsSound ==
  ASSUME Nobody \notin Registrars
  PROVE  Reg!Spec => [](Reg!ManifestMatches /\ Reg!ServesOnce)
<1> USE DEF RegistryInv, Reg!ManifestMatches, Reg!ServesOnce, Reg!Goto
<1>1. Reg!Init => RegistryInv
  BY DEF Reg!Init
<1>2. RegistryInv /\ [Reg!Next]_Reg!vars => RegistryInv'
  <2> SUFFICES ASSUME RegistryInv, [Reg!Next]_Reg!vars PROVE RegistryInv'
    OBVIOUS
  <2>1. CASE UNCHANGED Reg!vars
    BY <2>1 DEF Reg!vars
  <2>2. ASSUME NEW r \in Registrars, NEW n \in Names, Reg!Register(r, n)
        PROVE  RegistryInv'
    BY <2>2 DEF Reg!Register
  <2>3. ASSUME NEW r \in Registrars, Reg!Lock(r) PROVE RegistryInv'
    BY <2>3 DEF Reg!Lock
  <2>4. ASSUME NEW r \in Registrars, Reg!Recheck(r) PROVE RegistryInv'
    BY <2>4 DEF Reg!Recheck
  <2>5. ASSUME NEW r \in Registrars, Reg!Insert(r) PROVE RegistryInv'
    BY <2>5 DEF Reg!Insert
  <2>6. ASSUME NEW s \in Servers, Reg!Serve(s) PROVE RegistryInv'
    BY <2>6 DEF Reg!Serve
  <2>7. ASSUME NEW s \in Servers, Reg!SnapshotActors(s) PROVE RegistryInv'
    BY <2>7 DEF Reg!SnapshotActors
  <2>8. ASSUME NEW s \in Servers, Reg!Return(s) PROVE RegistryInv'
    BY <2>8 DEF Reg!Return
  <2>q. QED
    BY <2>1, <2>2, <2>3, <2>4, <2>5, <2>6, <2>7, <2>8 DEF Reg!Next
<1>3. RegistryInv => Reg!ManifestMatches /\ Reg!ServesOnce
  OBVIOUS
<1>q. QED
  BY <1>1, <1>2, <1>3, PTL DEF Reg!Spec

-----------------------------------------------------------------------------
(* The durable queue.                                                      *)

Entries == [gen : Nat, msg : Messages]

QueueType ==
  /\ core \in [Messages -> Records]
  /\ gen \in Nat
  /\ phase \in Phases
  /\ table \subseteq Entries
  /\ stage \in [Receives -> Stages]
  /\ rgen \in [Receives -> Nat]
  /\ rmsg \in [Receives -> Messages]
  /\ settled \in [Receives -> BOOLEAN]
  /\ mu \in [Receives -> Ops \cup {NoOp}]
  /\ ost \in [Ops -> Steps]
  /\ okind \in [Ops -> {"complete", "retry"}]
  /\ orecv \in [Ops -> Receives]
  /\ ores \in [Ops -> {"none", "ok", "error"}]

Taken(h) == stage[h] = "taken"
Running(o) == ost[o] = "running"
OpMsg(o) == rmsg[orecv[o]]

\* Every owner of a handle owns a hidden record, and no record has two owners.
Leases ==
  /\ \A e \in table : core[e.msg] = "held"
  /\ \A h \in Receives : Taken(h) =>
       /\ core[rmsg[h]] = "held"
       /\ \A e \in table : e.msg # rmsg[h]
       /\ \A g \in Receives : Taken(g) /\ rmsg[g] = rmsg[h] => g = h
  /\ \A o \in Ops : Running(o) =>
       /\ core[OpMsg(o)] = "held"
       /\ \A e \in table : e.msg # OpMsg(o)
       /\ \A h \in Receives : Taken(h) => rmsg[h] # OpMsg(o)
       /\ \A p \in Ops : Running(p) /\ OpMsg(p) = OpMsg(o) => p = o

\* A call that has begun is on a message the Go side holds.
Calls ==
  /\ \A o \in Ops : ost[o] # "idle" => stage[orecv[o]] = "open"
  /\ \A o \in Ops : ores[o] = "ok" => ost[o] \in {"answered", "returned"}
  /\ \A o \in Ops : Running(o) => okind[o] = "complete"
  /\ \A o \in Ops : ores[o] = "ok" /\ okind[o] = "complete" => core[OpMsg(o)] = "gone"

\* completeMu and settled keep two successes apart.
Mutex ==
  /\ \A h \in Receives : mu[h] # NoOp =>
       ~settled[h] /\ orecv[mu[h]] = h /\ ost[mu[h]] \notin {"idle", "returned"}
  /\ \A o \in Ops : ost[o] = "returned" /\ ores[o] = "ok" => settled[orecv[o]]

QueueInv ==
  /\ QueueType
  /\ Leases
  /\ NeverStranded
  /\ NoLateHandle
  /\ Calls
  /\ CompletedOnce
  /\ Mutex
  /\ SettledOnce
\* Every step keeps the variables in their types.
LEMMA TypeStep ==
  ASSUME QueueType, [Next]_vars
  PROVE  QueueType'
<1>1. ASSUME NEW m \in Messages, Send(m)
      PROVE  QueueType'
  BY <1>1 DEF Send, genVars, recvVars, goVars, opVars, QueueType, Entries,
     Records, Phases, Stages, Steps
<1>2. ASSUME NEW h \in Receives, Receive(h)
      PROVE  QueueType'
  BY <1>2 DEF Receive, coreVars, genVars, goVars, opVars, QueueType, Entries,
     Records, Phases, Stages, Steps
<1>3. ASSUME NEW h \in Receives, TakeNothing(h)
      PROVE  QueueType'
  BY <1>3 DEF TakeNothing, coreVars, genVars, goVars, opVars, QueueType, Entries,
     Records, Phases, Stages, Steps
<1>4. ASSUME NEW h \in Receives, Retain(h)
      PROVE  QueueType'
  BY <1>4 DEF Retain, RetainOrDrop, Active, Key, genVars, goVars, opVars,
     QueueType, Entries, Records, Phases, Stages, Steps
<1>5. ASSUME NEW h \in Receives, Deliver(h)
      PROVE  QueueType'
  BY <1>5 DEF Deliver, coreVars, genVars, goVars, opVars, QueueType, Entries,
     Records, Phases, Stages, Steps
<1>6. ASSUME NEW h \in Receives, Discard(h)
      PROVE  QueueType'
  BY <1>6 DEF Discard, coreVars, genVars, goVars, opVars, QueueType, Entries,
     Records, Phases, Stages, Steps
<1>7. ASSUME NEW h \in Receives, NEW m \in Messages, Take(h, m)
      PROVE  QueueType'
  BY <1>7 DEF Take, genVars, goVars, opVars, QueueType, Entries, Records, Phases,
     Stages, Steps
<1>8. ASSUME NEW o \in Ops, NEW h \in Receives, Complete(o, h)
      PROVE  QueueType'
  BY <1>8 DEF Complete, Settle, coreVars, genVars, recvVars, QueueType, Entries,
     Records, Phases, Stages, Steps
<1>9. ASSUME NEW o \in Ops, NEW h \in Receives, Retry(o, h)
      PROVE  QueueType'
  BY <1>9 DEF Retry, Settle, coreVars, genVars, recvVars, QueueType, Entries,
     Records, Phases, Stages, Steps
<1>10. ASSUME NEW o \in Ops, DispatchRefused(o)
      PROVE  QueueType'
  BY <1>10 DEF DispatchRefused, Admits, Key, Answer, coreVars, genVars, recvVars,
     goVars, QueueType, Entries, Records, Phases, Stages, Steps
<1>11. ASSUME NEW o \in Ops, DispatchComplete(o)
      PROVE  QueueType'
  BY <1>11 DEF DispatchComplete, Admits, Key, genVars, recvVars, goVars,
     QueueType, Entries, Records, Phases, Stages, Steps
<1>12. ASSUME NEW o \in Ops, DispatchRetry(o)
      PROVE  QueueType'
  BY <1>12 DEF DispatchRetry, Admits, Key, Answer, genVars, recvVars, goVars,
     QueueType, Entries, Records, Phases, Stages, Steps
<1>13. ASSUME NEW o \in Ops, CoreCompletes(o)
      PROVE  QueueType'
  BY <1>13 DEF CoreCompletes, Answer, genVars, recvVars, goVars, QueueType,
     Entries, Records, Phases, Stages, Steps
<1>14. ASSUME NEW o \in Ops, CoreFails(o)
      PROVE  QueueType'
  BY <1>14 DEF CoreFails, RetainOrDrop, Active, Key, Answer, genVars, recvVars,
     goVars, QueueType, Entries, Records, Phases, Stages, Steps
<1>15. ASSUME NEW o \in Ops, Return(o)
      PROVE  QueueType'
  BY <1>15 DEF Return, coreVars, genVars, recvVars, QueueType, Entries, Records,
     Phases, Stages, Steps
<1>16. ASSUME NEW o \in Ops, GiveUp(o)
      PROVE  QueueType'
  BY <1>16 DEF GiveUp, coreVars, genVars, recvVars, opVars, QueueType, Entries,
     Records, Phases, Stages, Steps
<1>17. ASSUME NEW o \in Ops, Unsubmitted(o)
      PROVE  QueueType'
  BY <1>17 DEF Unsubmitted, coreVars, genVars, recvVars, QueueType, Entries,
     Records, Phases, Stages, Steps
<1>18. CASE BeginStop
  BY <1>18 DEF BeginStop, coreVars, recvVars, goVars, opVars, QueueType, Entries,
     Records, Phases, Stages, Steps
<1>19. CASE RemoveActor
  BY <1>19 DEF RemoveActor, coreVars, recvVars, goVars, opVars, QueueType,
     Entries, Records, Phases, Stages, Steps
<1>20. CASE RemoveQueueMessages
  BY <1>20 DEF RemoveQueueMessages, recvVars, goVars, opVars, QueueType, Entries,
     Records, Phases, Stages, Steps
<1>21. CASE Wake
  BY <1>21 DEF Wake, coreVars, recvVars, goVars, opVars, QueueType, Entries,
     Records, Phases, Stages, Steps
<1>22. CASE UNCHANGED vars
  BY <1>22 DEF vars, QueueType, Entries, Records, Phases, Stages, Steps
<1>q. QED
  BY <1>1, <1>2, <1>3, <1>4, <1>5, <1>6, <1>7, <1>8, <1>9, <1>10, <1>11, <1>12,
     <1>13, <1>14, <1>15, <1>16, <1>17, <1>18, <1>19, <1>20, <1>21, <1>22 DEF Next

\* Every step keeps the owners of completion handles apart.
LEMMA LeasesStep ==
  ASSUME QueueType, Leases, NoLateHandle, Calls, [Next]_vars
  PROVE  Leases'
<1>1. ASSUME NEW m \in Messages, Send(m)
      PROVE  Leases'
  BY <1>1 DEF Send, genVars, recvVars, goVars, opVars, Leases, Taken, Running,
     OpMsg, NoLateHandle, Calls, QueueType, Entries
<1>2. ASSUME NEW h \in Receives, Receive(h)
      PROVE  Leases'
  BY <1>2 DEF Receive, coreVars, genVars, goVars, opVars, Leases, Taken, Running,
     OpMsg, NoLateHandle, Calls, QueueType, Entries
<1>3. ASSUME NEW h \in Receives, TakeNothing(h)
      PROVE  Leases'
  BY <1>3 DEF TakeNothing, coreVars, genVars, goVars, opVars, Leases, Taken,
     Running, OpMsg, NoLateHandle, Calls, QueueType, Entries
<1>4. ASSUME NEW h \in Receives, Retain(h)
      PROVE  Leases'
  BY <1>4 DEF Retain, RetainOrDrop, Active, Key, genVars, goVars, opVars, Leases,
     Taken, Running, OpMsg, NoLateHandle, Calls, QueueType, Entries
<1>5. ASSUME NEW h \in Receives, Deliver(h)
      PROVE  Leases'
  BY <1>5 DEF Deliver, coreVars, genVars, goVars, opVars, Leases, Taken, Running,
     OpMsg, NoLateHandle, Calls, QueueType, Entries
<1>6. ASSUME NEW h \in Receives, Discard(h)
      PROVE  Leases'
  BY <1>6 DEF Discard, coreVars, genVars, goVars, opVars, Leases, Taken, Running,
     OpMsg, NoLateHandle, Calls, QueueType, Entries
<1>7. ASSUME NEW h \in Receives, NEW m \in Messages, Take(h, m)
      PROVE  Leases'
  BY <1>7 DEF Take, genVars, goVars, opVars, Leases, Taken, Running, OpMsg,
     NoLateHandle, Calls, QueueType, Entries
<1>8. ASSUME NEW o \in Ops, NEW h \in Receives, Complete(o, h)
      PROVE  Leases'
  BY <1>8 DEF Complete, Settle, coreVars, genVars, recvVars, Leases, Taken,
     Running, OpMsg, NoLateHandle, Calls, QueueType, Entries
<1>9. ASSUME NEW o \in Ops, NEW h \in Receives, Retry(o, h)
      PROVE  Leases'
  BY <1>9 DEF Retry, Settle, coreVars, genVars, recvVars, Leases, Taken, Running,
     OpMsg, NoLateHandle, Calls, QueueType, Entries
<1>10. ASSUME NEW o \in Ops, DispatchRefused(o)
      PROVE  Leases'
  BY <1>10 DEF DispatchRefused, Admits, Key, Answer, coreVars, genVars, recvVars,
     goVars, Leases, Taken, Running, OpMsg, NoLateHandle, Calls, QueueType,
     Entries
<1>11. ASSUME NEW o \in Ops, DispatchComplete(o)
      PROVE  Leases'
  BY <1>11 DEF DispatchComplete, Admits, Key, genVars, recvVars, goVars, Leases,
     Taken, Running, OpMsg, NoLateHandle, Calls, QueueType, Entries
<1>12. ASSUME NEW o \in Ops, DispatchRetry(o)
      PROVE  Leases'
  BY <1>12 DEF DispatchRetry, Admits, Key, Answer, genVars, recvVars, goVars,
     Leases, Taken, Running, OpMsg, NoLateHandle, Calls, QueueType, Entries
<1>13. ASSUME NEW o \in Ops, CoreCompletes(o)
      PROVE  Leases'
  BY <1>13 DEF CoreCompletes, Answer, genVars, recvVars, goVars, Leases, Taken,
     Running, OpMsg, NoLateHandle, Calls, QueueType, Entries
<1>14. ASSUME NEW o \in Ops, CoreFails(o)
      PROVE  Leases'
  BY <1>14 DEF CoreFails, RetainOrDrop, Active, Key, Answer, genVars, recvVars,
     goVars, Leases, Taken, Running, OpMsg, NoLateHandle, Calls, QueueType,
     Entries
<1>15. ASSUME NEW o \in Ops, Return(o)
      PROVE  Leases'
  BY <1>15 DEF Return, coreVars, genVars, recvVars, Leases, Taken, Running,
     OpMsg, NoLateHandle, Calls, QueueType, Entries
<1>16. ASSUME NEW o \in Ops, Unsubmitted(o)
      PROVE  Leases'
  BY <1>16 DEF Unsubmitted, coreVars, genVars, recvVars, Leases, Taken, Running,
     OpMsg, NoLateHandle, Calls, QueueType, Entries
<1>17. CASE RemoveQueueMessages
  BY <1>17, SMTT(30) DEF RemoveQueueMessages, recvVars, goVars, opVars, Leases, Taken,
     Running, OpMsg, NoLateHandle, Calls, QueueType, Entries
<1>18. CASE UNCHANGED <<core, table, stage, rmsg, ost, orecv>>
  BY <1>18 DEF Leases, Taken, Running, OpMsg, NoLateHandle, Calls
<1>19. ASSUME \/ \E o \in Ops : GiveUp(o)
              \/ BeginStop \/ RemoveActor \/ Wake
      PROVE  UNCHANGED <<core, table, stage, rmsg, ost, orecv>>
  BY <1>19 DEF GiveUp, coreVars, genVars, recvVars, opVars, BeginStop, goVars,
     RemoveActor, Wake
<1>20. CASE UNCHANGED vars
  BY <1>20, <1>18 DEF vars
<1>q. QED
  BY <1>1, <1>2, <1>3, <1>4, <1>5, <1>6, <1>7, <1>8, <1>9, <1>10, <1>11, <1>12,
     <1>13, <1>14, <1>15, <1>16, <1>17, <1>18, <1>19, <1>20 DEF Next

\* Every step leaves a hidden record with an owner: a handle that is not
\* retained is dropped, and dropping it releases the record.
LEMMA StrandedStep ==
  ASSUME QueueType, Calls, NeverStranded, [Next]_vars
  PROVE  NeverStranded'
<1>1. ASSUME NEW m \in Messages, Send(m)
      PROVE  NeverStranded'
  BY <1>1 DEF Send, genVars, recvVars, goVars, opVars, NeverStranded,
     HeldBySomeone, QueueType, Entries
<1>2. ASSUME NEW h \in Receives, Receive(h)
      PROVE  NeverStranded'
  BY <1>2 DEF Receive, coreVars, genVars, goVars, opVars, NeverStranded,
     HeldBySomeone, QueueType, Entries
<1>3. ASSUME NEW h \in Receives, TakeNothing(h)
      PROVE  NeverStranded'
  BY <1>3 DEF TakeNothing, coreVars, genVars, goVars, opVars, NeverStranded,
     HeldBySomeone, QueueType, Entries
<1>4. ASSUME NEW h \in Receives, Retain(h)
      PROVE  NeverStranded'
  <2> SUFFICES ASSUME NEW n \in Messages, core'[n] = "held"
               PROVE  HeldBySomeone(n)'
    BY DEF NeverStranded
  <2>1. core[n] = "held"
    BY <1>4 DEF Retain, RetainOrDrop, QueueType
  <2>2. HeldBySomeone(n)
    BY <2>1 DEF NeverStranded
  <2>3. CASE rmsg[h] = n
    <3>1. table' = table \cup {Key(h)}
      BY <1>4, <2>3 DEF Retain, RetainOrDrop, QueueType
    <3>2. Key(h).msg = n
      BY <2>3 DEF Key
    <3>q. QED
      BY <3>1, <3>2 DEF HeldBySomeone
  <2>4. CASE rmsg[h] # n
    <3>1. table \subseteq table'
      BY <1>4 DEF Retain, RetainOrDrop
    <3>2. \A g \in Receives : stage[g] = "taken" /\ rmsg[g] = n
                             => stage'[g] = "taken" /\ rmsg'[g] = n
      BY <1>4, <2>4 DEF Retain, QueueType
    <3>3. UNCHANGED <<rmsg, opVars>>
      BY <1>4 DEF Retain
    <3>q. QED
      BY <2>2, <3>1, <3>2, <3>3 DEF HeldBySomeone, opVars
  <2>q. QED
    BY <2>3, <2>4
<1>5. ASSUME NEW h \in Receives, Deliver(h)
      PROVE  NeverStranded'
  BY <1>5 DEF Deliver, coreVars, genVars, goVars, opVars, NeverStranded,
     HeldBySomeone, QueueType, Entries
<1>6. ASSUME NEW h \in Receives, Discard(h)
      PROVE  NeverStranded'
  BY <1>6 DEF Discard, coreVars, genVars, goVars, opVars, NeverStranded,
     HeldBySomeone, QueueType, Entries
<1>7. ASSUME NEW h \in Receives, NEW m \in Messages, Take(h, m)
      PROVE  NeverStranded'
  <2> SUFFICES ASSUME NEW n \in Messages, core'[n] = "held"
               PROVE  HeldBySomeone(n)'
    BY DEF NeverStranded
  <2>1. CASE n = m
    <3>1. stage'[h] = "taken" /\ rmsg'[h] = n
      BY <1>7, <2>1 DEF Take, QueueType
    <3>q. QED
      BY <3>1 DEF HeldBySomeone
  <2>2. CASE n # m
    <3>1. HeldBySomeone(n)
      BY <1>7, <2>2 DEF Take, NeverStranded, QueueType
    <3>2. \A g \in Receives : stage[g] = "taken" => stage'[g] = "taken" /\ rmsg'[g] = rmsg[g]
      BY <1>7 DEF Take, QueueType
    <3>3. \A o \in Ops : ost[o] = "running" => rmsg'[orecv[o]] = rmsg[orecv[o]]
      BY <1>7 DEF Take, QueueType, Calls
    <3>4. UNCHANGED <<table, opVars>>
      BY <1>7 DEF Take
    <3>q. QED
      BY <3>1, <3>2, <3>3, <3>4 DEF HeldBySomeone, opVars
  <2>q. QED
    BY <2>1, <2>2
<1>8. ASSUME NEW o \in Ops, NEW h \in Receives, Complete(o, h)
      PROVE  NeverStranded'
  BY <1>8, SMTT(30) DEF Complete, Settle, coreVars, genVars, recvVars, NeverStranded,
     HeldBySomeone, QueueType, Entries
<1>9. ASSUME NEW o \in Ops, NEW h \in Receives, Retry(o, h)
      PROVE  NeverStranded'
  BY <1>9, SMTT(30) DEF Retry, Settle, coreVars, genVars, recvVars, NeverStranded,
     HeldBySomeone, QueueType, Entries
<1>10. ASSUME NEW o \in Ops, DispatchRefused(o)
      PROVE  NeverStranded'
  BY <1>10 DEF DispatchRefused, Admits, Key, Answer, coreVars, genVars, recvVars,
     goVars, NeverStranded, HeldBySomeone, QueueType, Entries
<1>11. ASSUME NEW o \in Ops, DispatchComplete(o)
      PROVE  NeverStranded'
  BY <1>11 DEF DispatchComplete, Admits, Key, genVars, recvVars, goVars,
     NeverStranded, HeldBySomeone, QueueType, Entries
<1>12. ASSUME NEW o \in Ops, DispatchRetry(o)
      PROVE  NeverStranded'
  BY <1>12 DEF DispatchRetry, Admits, Key, Answer, genVars, recvVars, goVars,
     NeverStranded, HeldBySomeone, QueueType, Entries
<1>13. ASSUME NEW o \in Ops, CoreCompletes(o)
      PROVE  NeverStranded'
  BY <1>13 DEF CoreCompletes, Answer, genVars, recvVars, goVars, NeverStranded,
     HeldBySomeone, QueueType, Entries
<1>14. ASSUME NEW o \in Ops, CoreFails(o)
      PROVE  NeverStranded'
  <2> SUFFICES ASSUME NEW n \in Messages, core'[n] = "held"
               PROVE  HeldBySomeone(n)'
    BY DEF NeverStranded
  <2> DEFINE h == orecv[o]
  <2>0. h \in Receives /\ rmsg[h] \in Messages
    BY DEF QueueType
  <2>1. core[n] = "held"
    BY <1>14, <2>0 DEF CoreFails, RetainOrDrop, QueueType
  <2>2. HeldBySomeone(n)
    BY <2>1 DEF NeverStranded
  <2>3. CASE rmsg[h] = n
    <3>1. table' = table \cup {Key(h)}
      BY <1>14, <2>3 DEF CoreFails, RetainOrDrop, QueueType
    <3>2. Key(h).msg = n
      BY <2>3 DEF Key
    <3>q. QED
      BY <3>1, <3>2 DEF HeldBySomeone
  <2>4. CASE rmsg[h] # n
    <3>1. table \subseteq table'
      BY <1>14 DEF CoreFails, RetainOrDrop
    <3>2. \A p \in Ops : ost[p] = "running" /\ rmsg[orecv[p]] = n => ost'[p] = "running"
      BY <1>14, <2>4, SMTT(30) DEF CoreFails, Answer, QueueType
    <3>3. UNCHANGED <<orecv, recvVars>>
      BY <1>14 DEF CoreFails
    <3>q. QED
      BY <2>2, <3>1, <3>2, <3>3, SMTT(30) DEF HeldBySomeone, recvVars
  <2>q. QED
    BY <2>3, <2>4
<1>15. ASSUME NEW o \in Ops, Return(o)
      PROVE  NeverStranded'
  BY <1>15, SMTT(30) DEF Return, coreVars, genVars, recvVars, NeverStranded, HeldBySomeone,
     QueueType, Entries
<1>16. ASSUME NEW o \in Ops, Unsubmitted(o)
      PROVE  NeverStranded'
  BY <1>16 DEF Unsubmitted, coreVars, genVars, recvVars, NeverStranded,
     HeldBySomeone, QueueType, Entries
<1>17. CASE RemoveQueueMessages
  BY <1>17, SMTT(30) DEF RemoveQueueMessages, recvVars, goVars, opVars, NeverStranded,
     HeldBySomeone, QueueType, Entries
<1>18. CASE UNCHANGED <<core, table, stage, rmsg, ost, orecv>>
  BY <1>18, SMTT(30) DEF NeverStranded, HeldBySomeone
<1>19. ASSUME \/ \E o \in Ops : GiveUp(o)
              \/ BeginStop \/ RemoveActor \/ Wake
      PROVE  UNCHANGED <<core, table, stage, rmsg, ost, orecv>>
  BY <1>19 DEF GiveUp, coreVars, genVars, recvVars, opVars, BeginStop, goVars,
     RemoveActor, Wake
<1>20. CASE UNCHANGED vars
  BY <1>20, <1>18 DEF vars
<1>q. QED
  BY <1>1, <1>2, <1>3, <1>4, <1>5, <1>6, <1>7, <1>8, <1>9, <1>10, <1>11, <1>12,
     <1>13, <1>14, <1>15, <1>16, <1>17, <1>18, <1>19, <1>20 DEF Next

\* Handles are only inserted while their generation is among the active
\* actors, and the cleanup that follows the removal takes them all.
LEMMA LateStep ==
  ASSUME QueueType, NoLateHandle, [Next]_vars
  PROVE  NoLateHandle'
<1>1. ASSUME NEW h \in Receives, Retain(h)
      PROVE  NoLateHandle'
  BY <1>1 DEF Retain, RetainOrDrop, Active, Key, genVars, goVars, opVars,
     NoLateHandle, QueueType, Entries
<1>2. ASSUME NEW o \in Ops, DispatchComplete(o)
      PROVE  NoLateHandle'
  BY <1>2 DEF DispatchComplete, Admits, Key, genVars, recvVars, goVars,
     NoLateHandle, QueueType, Entries
<1>3. ASSUME NEW o \in Ops, DispatchRetry(o)
      PROVE  NoLateHandle'
  BY <1>3 DEF DispatchRetry, Admits, Key, Answer, genVars, recvVars, goVars,
     NoLateHandle, QueueType, Entries
<1>4. ASSUME NEW o \in Ops, CoreFails(o)
      PROVE  NoLateHandle'
  BY <1>4 DEF CoreFails, RetainOrDrop, Active, Key, Answer, genVars, recvVars,
     goVars, NoLateHandle, QueueType, Entries
<1>5. CASE BeginStop
  BY <1>5 DEF BeginStop, coreVars, recvVars, goVars, opVars, NoLateHandle,
     QueueType, Entries
<1>6. CASE RemoveActor
  BY <1>6 DEF RemoveActor, coreVars, recvVars, goVars, opVars, NoLateHandle,
     QueueType, Entries
<1>7. CASE RemoveQueueMessages
  BY <1>7 DEF RemoveQueueMessages, recvVars, goVars, opVars, NoLateHandle,
     QueueType, Entries
<1>8. CASE Wake
  BY <1>8 DEF Wake, coreVars, recvVars, goVars, opVars, NoLateHandle, QueueType,
     Entries
<1>9. CASE UNCHANGED <<table, gen, phase>>
  BY <1>9, SMTT(30) DEF NoLateHandle
<1>10. ASSUME \/ \E m \in Messages : Send(m)
              \/ \E h \in Receives : Receive(h) \/ TakeNothing(h)
                 \/ Deliver(h) \/ Discard(h)
              \/ \E h \in Receives, m \in Messages : Take(h, m)
              \/ \E o \in Ops, h \in Receives : Complete(o, h) \/ Retry(o, h)
              \/ \E o \in Ops : DispatchRefused(o) \/ CoreCompletes(o)
                 \/ Return(o) \/ GiveUp(o) \/ Unsubmitted(o)
      PROVE  UNCHANGED <<table, gen, phase>>
  BY <1>10, ZenonT(40) DEF Send, genVars, recvVars, goVars, opVars, Receive, coreVars,
     TakeNothing, Deliver, Discard, Take, Complete, Settle, Retry,
     DispatchRefused, Admits, Key, Answer, CoreCompletes, Return, GiveUp,
     Unsubmitted
<1>11. CASE UNCHANGED vars
  BY <1>11, <1>9 DEF vars
<1>q. QED
  BY <1>1, <1>2, <1>3, <1>4, <1>5, <1>6, <1>7, <1>8, <1>9, <1>10, <1>11 DEF Next

\* Every step keeps what is known of the calls: a success is final, and a
\* successful completion means that the record is gone.
LEMMA CallsStep ==
  ASSUME QueueType, Leases, NoLateHandle, Calls, [Next]_vars
  PROVE  Calls'
<1>1. ASSUME NEW m \in Messages, Send(m)
      PROVE  Calls'
  BY <1>1 DEF Send, genVars, recvVars, goVars, opVars, Calls, Running, OpMsg,
     Leases, NoLateHandle, Taken, QueueType, Entries
<1>2. ASSUME NEW h \in Receives, Receive(h)
      PROVE  Calls'
  BY <1>2 DEF Receive, coreVars, genVars, goVars, opVars, Calls, Running, OpMsg,
     Leases, NoLateHandle, Taken, QueueType, Entries
<1>3. ASSUME NEW h \in Receives, TakeNothing(h)
      PROVE  Calls'
  BY <1>3, SMTT(30) DEF TakeNothing, coreVars, genVars, goVars, opVars, Calls, Running,
     OpMsg, Leases, NoLateHandle, Taken, QueueType, Entries
<1>4. ASSUME NEW h \in Receives, Retain(h)
      PROVE  Calls'
  BY <1>4, SMTT(30) DEF Retain, RetainOrDrop, Active, Key, genVars, goVars, opVars, Calls,
     Running, OpMsg, Leases, NoLateHandle, Taken, QueueType, Entries
<1>5. ASSUME NEW h \in Receives, Deliver(h)
      PROVE  Calls'
  BY <1>5, SMTT(30) DEF Deliver, coreVars, genVars, goVars, opVars, Calls, Running, OpMsg,
     Leases, NoLateHandle, Taken, QueueType, Entries
<1>6. ASSUME NEW h \in Receives, Discard(h)
      PROVE  Calls'
  BY <1>6, SMTT(30) DEF Discard, coreVars, genVars, goVars, opVars, Calls, Running, OpMsg,
     Leases, NoLateHandle, Taken, QueueType, Entries
<1>7. ASSUME NEW h \in Receives, NEW m \in Messages, Take(h, m)
      PROVE  Calls'
  BY <1>7, SMTT(30) DEF Take, genVars, goVars, opVars, Calls, Running, OpMsg, Leases,
     NoLateHandle, Taken, QueueType, Entries
<1>8. ASSUME NEW o \in Ops, NEW h \in Receives, Complete(o, h)
      PROVE  Calls'
  BY <1>8, SMTT(30) DEF Complete, Settle, coreVars, genVars, recvVars, Calls, Running,
     OpMsg, Leases, NoLateHandle, Taken, QueueType, Entries
<1>9. ASSUME NEW o \in Ops, NEW h \in Receives, Retry(o, h)
      PROVE  Calls'
  BY <1>9, SMTT(30) DEF Retry, Settle, coreVars, genVars, recvVars, Calls, Running, OpMsg,
     Leases, NoLateHandle, Taken, QueueType, Entries
<1>10. ASSUME NEW o \in Ops, DispatchRefused(o)
      PROVE  Calls'
  BY <1>10, SMTT(30) DEF DispatchRefused, Admits, Key, Answer, coreVars, genVars, recvVars,
     goVars, Calls, Running, OpMsg, Leases, NoLateHandle, Taken, QueueType,
     Entries
<1>11. ASSUME NEW o \in Ops, DispatchComplete(o)
      PROVE  Calls'
  BY <1>11, SMTT(30) DEF DispatchComplete, Admits, Key, genVars, recvVars, goVars, Calls,
     Running, OpMsg, Leases, NoLateHandle, Taken, QueueType, Entries
<1>12. ASSUME NEW o \in Ops, DispatchRetry(o)
      PROVE  Calls'
  BY <1>12, SMTT(30) DEF DispatchRetry, Admits, Key, Answer, genVars, recvVars, goVars,
     Calls, Running, OpMsg, Leases, NoLateHandle, Taken, QueueType, Entries
<1>13. ASSUME NEW o \in Ops, CoreCompletes(o)
      PROVE  Calls'
  BY <1>13, SMTT(30) DEF CoreCompletes, Answer, genVars, recvVars, goVars, Calls, Running,
     OpMsg, Leases, NoLateHandle, Taken, QueueType, Entries
<1>14. ASSUME NEW o \in Ops, CoreFails(o)
      PROVE  Calls'
  BY <1>14, SMTT(30) DEF CoreFails, RetainOrDrop, Active, Key, Answer, genVars, recvVars,
     goVars, Calls, Running, OpMsg, Leases, NoLateHandle, Taken, QueueType,
     Entries
<1>15. ASSUME NEW o \in Ops, Return(o)
      PROVE  Calls'
  BY <1>15, SMTT(30) DEF Return, coreVars, genVars, recvVars, Calls, Running, OpMsg,
     Leases, NoLateHandle, Taken, QueueType, Entries
<1>16. ASSUME NEW o \in Ops, Unsubmitted(o)
      PROVE  Calls'
  BY <1>16, SMTT(30) DEF Unsubmitted, coreVars, genVars, recvVars, Calls, Running, OpMsg,
     Leases, NoLateHandle, Taken, QueueType, Entries
<1>17. CASE RemoveQueueMessages
  BY <1>17, SMTT(30) DEF RemoveQueueMessages, recvVars, goVars, opVars, Calls, Running,
     OpMsg, Leases, NoLateHandle, Taken, QueueType, Entries
<1>18. CASE UNCHANGED <<ost, stage, orecv, ores, okind, core, rmsg>>
  BY <1>18, SMTT(30) DEF Calls, Running, OpMsg, Leases, NoLateHandle, Taken
<1>19. ASSUME \/ \E o \in Ops : GiveUp(o)
              \/ BeginStop \/ RemoveActor \/ Wake
      PROVE  UNCHANGED <<ost, stage, orecv, ores, okind, core, rmsg>>
  BY <1>19 DEF GiveUp, coreVars, genVars, recvVars, opVars, BeginStop, goVars,
     RemoveActor, Wake
<1>20. CASE UNCHANGED vars
  BY <1>20, <1>18, SMTT(30) DEF vars
<1>q. QED
  BY <1>1, <1>2, <1>3, <1>4, <1>5, <1>6, <1>7, <1>8, <1>9, <1>10, <1>11, <1>12,
     <1>13, <1>14, <1>15, <1>16, <1>17, <1>18, <1>19, <1>20 DEF Next

\* A completion that succeeds had the only handle, so no other succeeded.
LEMMA OnceStep ==
  ASSUME QueueType, Leases, Calls, CompletedOnce, [Next]_vars
  PROVE  CompletedOnce'
<1>1. ASSUME NEW m \in Messages, Send(m)
      PROVE  CompletedOnce'
  BY <1>1, SMTT(30) DEF Send, genVars, recvVars, goVars, opVars, CompletedOnce, Calls,
     Leases, Running, OpMsg, Taken, QueueType, Entries
<1>2. ASSUME NEW h \in Receives, Retain(h)
      PROVE  CompletedOnce'
  BY <1>2, SMTT(30) DEF Retain, RetainOrDrop, Active, Key, genVars, goVars, opVars,
     CompletedOnce, Calls, Leases, Running, OpMsg, Taken, QueueType, Entries
<1>3. ASSUME NEW h \in Receives, NEW m \in Messages, Take(h, m)
      PROVE  CompletedOnce'
  BY <1>3, SMTT(30) DEF Take, genVars, goVars, opVars, CompletedOnce, Calls, Leases,
     Running, OpMsg, Taken, QueueType, Entries
<1>4. ASSUME NEW o \in Ops, NEW h \in Receives, Complete(o, h)
      PROVE  CompletedOnce'
  BY <1>4, SMTT(30) DEF Complete, Settle, coreVars, genVars, recvVars, CompletedOnce,
     Calls, Leases, Running, OpMsg, Taken, QueueType, Entries
<1>5. ASSUME NEW o \in Ops, NEW h \in Receives, Retry(o, h)
      PROVE  CompletedOnce'
  BY <1>5, SMTT(30) DEF Retry, Settle, coreVars, genVars, recvVars, CompletedOnce, Calls,
     Leases, Running, OpMsg, Taken, QueueType, Entries
<1>6. ASSUME NEW o \in Ops, DispatchRefused(o)
      PROVE  CompletedOnce'
  BY <1>6, SMTT(30) DEF DispatchRefused, Admits, Key, Answer, coreVars, genVars, recvVars,
     goVars, CompletedOnce, Calls, Leases, Running, OpMsg, Taken, QueueType,
     Entries
<1>7. ASSUME NEW o \in Ops, DispatchRetry(o)
      PROVE  CompletedOnce'
  BY <1>7, SMTT(30) DEF DispatchRetry, Admits, Key, Answer, genVars, recvVars, goVars,
     CompletedOnce, Calls, Leases, Running, OpMsg, Taken, QueueType, Entries
<1>8. ASSUME NEW o \in Ops, CoreCompletes(o)
      PROVE  CompletedOnce'
  BY <1>8, SMTT(30) DEF CoreCompletes, Answer, genVars, recvVars, goVars, CompletedOnce,
     Calls, Leases, Running, OpMsg, Taken, QueueType, Entries
<1>9. ASSUME NEW o \in Ops, CoreFails(o)
      PROVE  CompletedOnce'
  BY <1>9, SMTT(30) DEF CoreFails, RetainOrDrop, Active, Key, Answer, genVars, recvVars,
     goVars, CompletedOnce, Calls, Leases, Running, OpMsg, Taken, QueueType,
     Entries
<1>10. ASSUME NEW o \in Ops, Unsubmitted(o)
      PROVE  CompletedOnce'
  BY <1>10, SMTT(30) DEF Unsubmitted, coreVars, genVars, recvVars, CompletedOnce, Calls,
     Leases, Running, OpMsg, Taken, QueueType, Entries
<1>11. CASE RemoveQueueMessages
  BY <1>11, SMTT(30) DEF RemoveQueueMessages, recvVars, goVars, opVars, CompletedOnce,
     Calls, Leases, Running, OpMsg, Taken, QueueType, Entries
<1>12. CASE UNCHANGED <<ores, okind, core, rmsg, orecv>>
  BY <1>12, ZenonT(40) DEF CompletedOnce, OpMsg
<1>13. ASSUME \/ \E h \in Receives : Receive(h) \/ TakeNothing(h)
                 \/ Deliver(h) \/ Discard(h)
              \/ \E o \in Ops : DispatchComplete(o) \/ Return(o) \/ GiveUp(o)
              \/ BeginStop \/ RemoveActor \/ Wake
      PROVE  UNCHANGED <<ores, okind, core, rmsg, orecv>>
  BY <1>13, ZenonT(40) DEF Receive, coreVars, genVars, goVars, opVars, TakeNothing, Deliver,
     Discard, DispatchComplete, Admits, Key, recvVars, Return, GiveUp, BeginStop,
     RemoveActor, Wake
<1>14. CASE UNCHANGED vars
  BY <1>14, <1>12 DEF vars
<1>q. QED
  BY SMTT(30), <1>1, <1>2, <1>3, <1>4, <1>5, <1>6, <1>7, <1>8, <1>9, <1>10, <1>11, <1>12,
     <1>13, <1>14 DEF Next

\* completeMu is held by a call under way on an unsettled message.
LEMMA MutexStep ==
  ASSUME QueueType, Calls, Mutex, [Next]_vars, NoOp \notin Ops
  PROVE  Mutex'
<1>1. ASSUME NEW o \in Ops, NEW h \in Receives, Complete(o, h)
      PROVE  Mutex'
  BY <1>1, SMTT(30) DEF Complete, Settle, coreVars, genVars, recvVars, Mutex, Calls,
     QueueType, Entries
<1>2. ASSUME NEW o \in Ops, NEW h \in Receives, Retry(o, h)
      PROVE  Mutex'
  BY <1>2, SMTT(30) DEF Retry, Settle, coreVars, genVars, recvVars, Mutex, Calls,
     QueueType, Entries
<1>3. ASSUME NEW o \in Ops, DispatchRefused(o)
      PROVE  Mutex'
  BY <1>3, SMTT(30) DEF DispatchRefused, Admits, Key, Answer, coreVars, genVars, recvVars,
     goVars, Mutex, Calls, QueueType, Entries
<1>4. ASSUME NEW o \in Ops, DispatchComplete(o)
      PROVE  Mutex'
  BY <1>4, SMTT(30) DEF DispatchComplete, Admits, Key, genVars, recvVars, goVars, Mutex,
     Calls, QueueType, Entries
<1>5. ASSUME NEW o \in Ops, DispatchRetry(o)
      PROVE  Mutex'
  BY <1>5, SMTT(30) DEF DispatchRetry, Admits, Key, Answer, genVars, recvVars, goVars,
     Mutex, Calls, QueueType, Entries
<1>6. ASSUME NEW o \in Ops, CoreCompletes(o)
      PROVE  Mutex'
  BY <1>6, SMTT(30) DEF CoreCompletes, Answer, genVars, recvVars, goVars, Mutex, Calls,
     QueueType, Entries
<1>7. ASSUME NEW o \in Ops, CoreFails(o)
      PROVE  Mutex'
  BY <1>7 DEF CoreFails, RetainOrDrop, Active, Key, Answer, genVars, recvVars,
     goVars, Mutex, Calls, QueueType, Entries
<1>8. ASSUME NEW o \in Ops, Return(o)
      PROVE  Mutex'
  <2>1. CASE ores[o] = "ok"
    <3>1. settled' = [settled EXCEPT ![orecv[o]] = TRUE]
      BY <1>8, <2>1, ZenonT(40) DEF Return
    <3>q. QED
      BY <1>8, <2>1, <3>1, SMTT(30) DEF Return, coreVars, genVars, recvVars, QueueType,
         Steps, Mutex, Calls
  <2>2. CASE ores[o] # "ok"
    <3>1. settled' = [settled EXCEPT ![orecv[o]] = FALSE]
      BY <1>8, <2>2, ZenonT(40) DEF Return
    <3>a. orecv[o] \in Receives /\ mu[orecv[o]] # NoOp
      BY <1>8 DEF Return, QueueType
    <3>b. settled[orecv[o]] = FALSE
      BY <3>a DEF QueueType, Mutex
    <3>2. settled' = settled
      BY <3>1, <3>a, <3>b DEF QueueType
    <3>q. QED
      BY <1>8, <2>2, <3>2 DEF Return, coreVars, genVars, recvVars, QueueType,
         Steps, Mutex, Calls
  <2>q. QED
    BY <2>1, <2>2, SMTT(30)
<1>9. ASSUME NEW o \in Ops, GiveUp(o)
      PROVE  Mutex'
  BY <1>9 DEF GiveUp, coreVars, genVars, recvVars, opVars, Mutex, Calls,
     QueueType, Entries
<1>10. ASSUME NEW o \in Ops, Unsubmitted(o)
      PROVE  Mutex'
  BY <1>10, SMTT(30) DEF Unsubmitted, coreVars, genVars, recvVars, Mutex, Calls, QueueType,
     Entries
<1>11. CASE UNCHANGED <<mu, settled, orecv, ost, ores>>
  BY <1>11, ZenonT(40) DEF Mutex, Calls
<1>12. ASSUME \/ \E m \in Messages : Send(m)
              \/ \E h \in Receives : Receive(h) \/ TakeNothing(h) \/ Retain(h)
                 \/ Deliver(h) \/ Discard(h)
              \/ \E h \in Receives, m \in Messages : Take(h, m)
              \/ BeginStop \/ RemoveActor \/ RemoveQueueMessages \/ Wake
      PROVE  UNCHANGED <<mu, settled, orecv, ost, ores>>
  BY <1>12, ZenonT(40) DEF Send, genVars, recvVars, goVars, opVars, Receive, coreVars,
     TakeNothing, Retain, RetainOrDrop, Active, Key, Deliver, Discard, Take,
     BeginStop, RemoveActor, RemoveQueueMessages, Wake
<1>13. CASE UNCHANGED vars
  BY <1>13, <1>11, SMTT(30) DEF vars
<1>q. QED
  BY <1>1, <1>2, <1>3, <1>4, <1>5, <1>6, <1>7, <1>8, <1>9, <1>10, <1>11, <1>12,
     <1>13 DEF Next

\* A call that returns success found the message unsettled, so no earlier
\* one had returned success.
LEMMA SettledStep ==
  ASSUME QueueType, Mutex, SettledOnce, [Next]_vars, NoOp \notin Ops
  PROVE  SettledOnce'
<1>1. ASSUME NEW o \in Ops, NEW h \in Receives, Complete(o, h)
      PROVE  SettledOnce'
  BY <1>1, SMTT(30) DEF Complete, Settle, coreVars, genVars, recvVars, SettledOnce, Mutex,
     QueueType, Entries
<1>2. ASSUME NEW o \in Ops, NEW h \in Receives, Retry(o, h)
      PROVE  SettledOnce'
  BY <1>2, SMTT(30) DEF Retry, Settle, coreVars, genVars, recvVars, SettledOnce, Mutex,
     QueueType, Entries
<1>3. ASSUME NEW o \in Ops, DispatchRefused(o)
      PROVE  SettledOnce'
  BY <1>3, SMTT(30) DEF DispatchRefused, Admits, Key, Answer, coreVars, genVars, recvVars,
     goVars, SettledOnce, Mutex, QueueType, Entries
<1>4. ASSUME NEW o \in Ops, DispatchComplete(o)
      PROVE  SettledOnce'
  BY <1>4, SMTT(30) DEF DispatchComplete, Admits, Key, genVars, recvVars, goVars,
     SettledOnce, Mutex, QueueType, Entries
<1>5. ASSUME NEW o \in Ops, DispatchRetry(o)
      PROVE  SettledOnce'
  BY <1>5, SMTT(30) DEF DispatchRetry, Admits, Key, Answer, genVars, recvVars, goVars,
     SettledOnce, Mutex, QueueType, Entries
<1>6. ASSUME NEW o \in Ops, CoreCompletes(o)
      PROVE  SettledOnce'
  BY <1>6, SMTT(30) DEF CoreCompletes, Answer, genVars, recvVars, goVars, SettledOnce,
     Mutex, QueueType, Entries
<1>7. ASSUME NEW o \in Ops, CoreFails(o)
      PROVE  SettledOnce'
  BY <1>7 DEF CoreFails, RetainOrDrop, Active, Key, Answer, genVars, recvVars,
     goVars, SettledOnce, Mutex, QueueType, Entries
<1>8. ASSUME NEW o \in Ops, Return(o)
      PROVE  SettledOnce'
  <2>1. CASE ores[o] = "ok"
    <3>1. settled' = [settled EXCEPT ![orecv[o]] = TRUE]
      BY <1>8, <2>1, ZenonT(40) DEF Return
    <3>q. QED
      BY <1>8, <2>1, <3>1, SMTT(30) DEF Return, coreVars, genVars, recvVars, QueueType,
         Steps, SettledOnce, Mutex
  <2>2. CASE ores[o] # "ok"
    <3>1. settled' = [settled EXCEPT ![orecv[o]] = FALSE]
      BY <1>8, <2>2, ZenonT(40) DEF Return
    <3>a. orecv[o] \in Receives /\ mu[orecv[o]] # NoOp
      BY <1>8 DEF Return, QueueType
    <3>b. settled[orecv[o]] = FALSE
      BY <3>a DEF QueueType, Mutex
    <3>2. settled' = settled
      BY <3>1, <3>a, <3>b, SMTT(30) DEF QueueType
    <3>q. QED
      BY <1>8, <2>2, <3>2, SMTT(30) DEF Return, coreVars, genVars, recvVars, QueueType,
         Steps, SettledOnce, Mutex
  <2>q. QED
    BY <2>1, <2>2, SMTT(30)
<1>9. ASSUME NEW o \in Ops, Unsubmitted(o)
      PROVE  SettledOnce'
  BY <1>9, SMTT(30) DEF Unsubmitted, coreVars, genVars, recvVars, SettledOnce, Mutex,
     QueueType, Entries
<1>10. CASE UNCHANGED <<ost, ores, orecv>>
  BY <1>10, SMTT(30) DEF SettledOnce, Mutex
<1>11. ASSUME \/ \E m \in Messages : Send(m)
              \/ \E h \in Receives : Receive(h) \/ TakeNothing(h) \/ Retain(h)
                 \/ Deliver(h) \/ Discard(h)
              \/ \E h \in Receives, m \in Messages : Take(h, m)
              \/ \E o \in Ops : GiveUp(o)
              \/ BeginStop \/ RemoveActor \/ RemoveQueueMessages \/ Wake
      PROVE  UNCHANGED <<ost, ores, orecv>>
  BY <1>11, ZenonT(40) DEF Send, genVars, recvVars, goVars, opVars, Receive, coreVars,
     TakeNothing, Retain, RetainOrDrop, Active, Key, Deliver, Discard, Take,
     GiveUp, BeginStop, RemoveActor, RemoveQueueMessages, Wake
<1>12. CASE UNCHANGED vars
  BY <1>12, <1>10 DEF vars
<1>q. QED
  BY SMTT(30), <1>1, <1>2, <1>3, <1>4, <1>5, <1>6, <1>7, <1>8, <1>9, <1>10, <1>11,
     <1>12 DEF Next

\* The queue keeps its promises in every behaviour: a hidden record always
\* has an owner, a cleaned generation keeps no handle, a message is completed
\* at most once and for good, and at most one call per received message
\* returns success.
THEOREM QueueIsSound ==
  ASSUME NoOp \notin Ops
  PROVE  Spec => [](NeverStranded /\ NoLateHandle /\ CompletedOnce /\ SettledOnce)
<1>1. Init => QueueInv
  <2> SUFFICES ASSUME Init PROVE QueueInv
    OBVIOUS
  <2>1. QueueType
    BY DEF Init, QueueType, Records, Phases, Stages, Steps
  <2>2. Leases /\ NeverStranded /\ NoLateHandle
    BY SMTT(30) DEF Init, Leases, NeverStranded, NoLateHandle, Taken, Running
  <2>3. Calls /\ CompletedOnce /\ Mutex /\ SettledOnce
    BY DEF Init, Calls, CompletedOnce, Mutex, SettledOnce, Running
  <2>q. QED
    BY <2>1, <2>2, <2>3 DEF QueueInv
<1>2. QueueInv /\ [Next]_vars => QueueInv'
  BY TypeStep, LeasesStep, StrandedStep, LateStep, CallsStep, OnceStep, MutexStep,
     SettledStep DEF QueueInv
<1>3. QueueInv => NeverStranded /\ NoLateHandle /\ CompletedOnce /\ SettledOnce
  BY DEF QueueInv
<1>q. QED
  BY <1>1, <1>2, <1>3, PTL DEF Spec
====
