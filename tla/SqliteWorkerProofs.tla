------------------------- MODULE SqliteWorkerProofs -------------------------
(***************************************************************************)
(* The guard of a dropped call and the worker thread share one atomic.     *)
(* ActiveInv says what its value means to both sides, FlagInv why either   *)
(* the worker sees the flag or the guard sees the command (or looks while  *)
(* the store that publishes it is buffered), and BehindInv why a command   *)
(* that close finds in the queue cannot start.                             *)
(***************************************************************************)
EXTENDS SqliteWorker, TLAPS

Holds(c) == pc[c] \in {"load", "interrupt", "restore"}

\* The active command is the worker's, and a guard that holds it is its own.
ActiveInv ==
  /\ active \in {0, command, Canceling}
  /\ active # 0 => \/ worker \in AtCommand \cup {"panicked"}
                   \/ worker = "gone" /\ state = "dead"
  /\ buffered => active = 0 /\ worker \in AtCommand \cup {"panicked"}
  /\ \A c \in Calls : Holds(c) => active = Canceling /\ command = c
  /\ worker \in AtCommand \cup {"taken", "begin", "publish", "panicked"} =>
       command \in Calls
  /\ worker \notin {"opening", "closing", "close", "closed", "failed", "leaving",
                    "panicked", "gone"} => open /\ connection

\* A cancellation is seen by the worker's second look or by the guard's claim.
FlagInv ==
  /\ \A c \in Calls :
       c \in cancelled <=> pc[c] \in {"claim", "load", "interrupt", "restore",
                                      "dropped"}
  /\ worker \in {"recheck", "execute"} /\ command \notin cancelled =>
       active = command \/ buffered
  /\ worker = "execute" =>
       /\ pc[command] = "claim" => active = command \/ buffered
       /\ pc[command] \in {"restore", "dropped"} =>
            command \in interrupted \cup missed

\* A call is queued once, and what close finds queued is not the command.
BehindInv ==
  /\ \A i, j \in 1 .. Len(queue) : queue[i] = queue[j] => i = j
  /\ \A i \in 1 .. Len(queue) :
       queue[i] # command /\ pc[queue[i]] \notin {"idle", "sending"}
  /\ command # 0 => pc[command] \notin {"idle", "sending"}
  /\ state = "running" => behind = {}
  /\ worker \notin {"leaving", "gone"} => state \in {"running", "closing"}
  /\ worker \in AtCommand \cup {"begin", "publish"} => command \notin behind

IInv == TypeOK /\ ActiveInv /\ FlagInv /\ BehindInv

-----------------------------------------------------------------------------
(* The cases of Next *)

CallNext(c) == Call(c) \/ Abandon(c) \/ Caller(c)
FinishNext ==
  FinishCommand("skip", "check") \/ FinishCommand("finish", "reply")
EndNext ==
  \/ MarkEnd("failed", "dead", "leaving")
  \/ MarkEnd("closed", "closed", "leaving")
  \/ MarkEnd("panicked", "dead", "gone")
CloseNext(k) == MarkClosing(k) \/ CloseTimeout(k) \/ Closer(k)

\* A reply that is sent keeps the type of the channels.
LEMMA AnswerType ==
  ASSUME TypeOK, NEW calls, NEW reply \in {"result", "closing", "dropped"},
         Answer(calls, reply)
  PROVE  replies' \in [Calls -> {"none", "result", "closing", "dropped"}]
BY DEF Answer, TypeOK

\* So does the drain of the queue, which leaves it empty.
LEMMA FailType ==
  ASSUME TypeOK, NEW taken, FailQueued(taken)
  PROVE  /\ replies' \in [Calls -> {"none", "result", "closing", "dropped"}]
         /\ queue' \in Seq(Calls) /\ Len(queue') <= Capacity
<1>1. queue' = << >>
  BY DEF FailQueued
<1>2. Answer(Queued \cup taken, "closing")
  BY DEF FailQueued
<1> QED
  BY <1>1, <1>2, AnswerType, WorkerAssumption

\* Every step keeps the types.
LEMMA TypeStep ==
  ASSUME TypeOK, [Next]_vars
  PROVE  TypeOK'
<1> USE WorkerAssumption DEF coreVars, chanVars, flagVars, threadVars, closeVars
<1>1. ASSUME NEW c \in Calls, Call(c) PROVE TypeOK'
  BY <1>1 DEF Call, CallStep, TypeOK
<1>2. ASSUME NEW c \in Calls, Receive(c) PROVE TypeOK'
  BY <1>2 DEF Receive, CallStep, TypeOK
<1>3. ASSUME NEW c \in Calls, Abandon(c) PROVE TypeOK'
  BY <1>3 DEF Abandon, CallStep, TypeOK
<1>4. ASSUME NEW c \in Calls, Cancel(c) PROVE TypeOK'
  BY <1>4 DEF Cancel, CallStep, TypeOK
<1>5. ASSUME NEW c \in Calls, Load(c) PROVE TypeOK'
  BY <1>5 DEF Load, CallStep, TypeOK
<1>6. ASSUME NEW c \in Calls, Interrupt(c) PROVE TypeOK'
  BY <1>6 DEF Interrupt, CallStep, TypeOK
<1>7. ASSUME NEW c \in Calls, Send(c) PROVE TypeOK'
  <2>1. pc' \in [Calls -> {"idle", "sending", "waiting", "cancel", "claim",
                      "load", "interrupt", "restore", "dropped", "returned"}]
    BY <1>7 DEF Send, CallStep, TypeOK
  <2>2. queue' \in Seq(Calls) /\ Len(queue') <= Capacity
    BY <1>7 DEF Send, TypeOK
  <2> QED
    BY <1>7, <2>1, <2>2, SMTT(30), SMTT(60) DEF Send, CallStep, TypeOK
<1>8. ASSUME NEW c \in Calls, Claim(c) PROVE TypeOK'
  BY <1>8 DEF Claim, CallStep, Canceling, TypeOK
<1>9. ASSUME NEW c \in Calls, Restore(c) PROVE TypeOK'
  BY <1>9 DEF Restore, CallStep, Canceling, TypeOK
<1>10. CASE OpenConnection
  <2> QED
    BY <1>10, ZenonT(30), ZenonT(60) DEF OpenConnection, ThreadStep, TypeOK
<1>11. CASE Begin
  BY <1>11 DEF Begin, ThreadStep, TypeOK
<1>12. CASE Recheck
  BY <1>12 DEF Recheck, ThreadStep, TypeOK
<1>13. CASE Execute
  BY <1>13 DEF Execute, ThreadStep, TypeOK
<1>14. CASE CloseConnection
  <2> QED
    BY <1>14, ZenonT(30), ZenonT(60) DEF CloseConnection, ThreadStep, TypeOK
<1>15. CASE OpenFails
  <2>1. /\ replies' \in [Calls -> {"none", "result", "closing", "dropped"}]
        /\ queue' \in Seq(Calls) /\ Len(queue') <= Capacity
    BY <1>15, FailType DEF OpenFails
  <2> QED
    BY <1>15, <2>1, SMTT(30), SMTT(60) DEF OpenFails, ThreadStep, TypeOK
<1>16. CASE CheckClose
  <2>1. /\ replies' \in [Calls -> {"none", "result", "closing", "dropped"}]
        /\ queue' \in Seq(Calls) /\ Len(queue') <= Capacity
    BY <1>16, FailType, Zenon DEF CheckClose, TypeOK
  <2> QED
    BY <1>16, <2>1, ZenonT(60) DEF CheckClose, ThreadStep, TypeOK
<1>17. CASE SelectClose
  <2>1. /\ replies' \in [Calls -> {"none", "result", "closing", "dropped"}]
        /\ queue' \in Seq(Calls) /\ Len(queue') <= Capacity
    BY <1>17, FailType DEF SelectClose
  <2> QED
    BY <1>17, <2>1, ZenonT(30), ZenonT(60) DEF SelectClose, ThreadStep, TypeOK
<1>18. CASE Taken
  <2>1. /\ replies' \in [Calls -> {"none", "result", "closing", "dropped"}]
        /\ queue' \in Seq(Calls) /\ Len(queue') <= Capacity
    BY <1>18, FailType, Zenon DEF Taken, TypeOK
  <2> QED
    BY <1>18, <2>1, SMTT(30), SMTT(60) DEF Taken, ThreadStep, TypeOK
<1>19. CASE SelectCommand
  <2>1. /\ queue' \in Seq(Calls) /\ Len(queue') <= Capacity
        /\ command' \in 0 .. MaxCalls
    BY <1>19 DEF SelectCommand, TypeOK, Calls
  <2> QED
    BY <1>19, <2>1, ZenonT(30), ZenonT(60) DEF SelectCommand, ThreadStep, TypeOK
<1>20. CASE Publish
  <2>1. buffered' \in BOOLEAN
    BY <1>20, Zenon DEF Publish
  <2> QED
    BY <1>20, <2>1, ZenonT(30), ZenonT(60) DEF Publish, ThreadStep, TypeOK
<1>21. CASE Flush
  <2>1. active' \in 0 .. Canceling
    BY <1>21 DEF Flush, TypeOK, Canceling
  <2>2. buffered' \in BOOLEAN
    BY <1>21, Zenon DEF Flush
  <2> QED
    BY <1>21, <2>1, <2>2, SMTT(30), SMTT(60) DEF Flush, TypeOK
<1>22. CASE Disconnect
  <2>1. active' \in 0 .. Canceling
    BY <1>22 DEF Disconnect, TypeOK, Canceling
  <2> QED
    BY <1>22, <2>1, ZenonT(30), ZenonT(60) DEF Disconnect, ThreadStep, TypeOK
<1>23. CASE Reply
  <2>1. replies' \in [Calls -> {"none", "result", "closing", "dropped"}]
    BY <1>23, AnswerType DEF Reply
  <2> QED
    BY <1>23, <2>1, SMTT(30), SMTT(60) DEF Reply, ThreadStep, TypeOK
<1>24. CASE Leave
  <2>1. replies' \in [Calls -> {"none", "result", "closing", "dropped"}]
    BY <1>24, AnswerType DEF Leave
  <2>2. queue' \in Seq(Calls) /\ Len(queue') <= Capacity
    BY <1>24 DEF Leave
  <2> QED
    BY <1>24, <2>1, <2>2, ZenonT(30), ZenonT(60) DEF Leave, ThreadStep, TypeOK
<1>25. CASE Panic
  <2>1. replies' \in [Calls -> {"none", "result", "closing", "dropped"}]
    BY <1>25, AnswerType DEF Panic
  <2>2. queue' \in Seq(Calls) /\ Len(queue') <= Capacity
    BY <1>25 DEF Panic
  <2> QED
    BY <1>25, <2>1, <2>2, ZenonT(30), ZenonT(60) DEF Panic, ThreadStep, TypeOK
<1>26. CASE FinishNext
  <2>1. active' \in 0 .. Canceling
    BY <1>26 DEF FinishNext, FinishCommand, Canceling
  <2> QED
    BY <1>26, <2>1, SMTT(30), SMTT(60) DEF FinishNext, FinishCommand, ThreadStep, TypeOK
<1>27. CASE EndNext
  BY <1>27 DEF EndNext, MarkEnd, TypeOK
<1>28. ASSUME NEW k \in Closers, RequestClose(k) PROVE TypeOK'
  BY <1>28 DEF RequestClose, CloseStep, TypeOK
<1>29. ASSUME NEW k \in Closers, Listen(k) PROVE TypeOK'
  BY <1>29 DEF Listen, CloseStep, TypeOK
<1>30. ASSUME NEW k \in Closers, Look(k) PROVE TypeOK'
  BY <1>30 DEF Look, CloseStep, TypeOK
<1>31. ASSUME NEW k \in Closers, Wake(k) PROVE TypeOK'
  BY <1>31 DEF Wake, CloseStep, TypeOK
<1>32. ASSUME NEW k \in Closers, Joined(k) PROVE TypeOK'
  BY <1>32 DEF Joined, CloseStep, TypeOK
<1>33. ASSUME NEW k \in Closers, CloseTimeout(k) PROVE TypeOK'
  <2>1. joinable' \in BOOLEAN
    BY <1>33, Zenon DEF CloseTimeout
  <2>2. closers' \in [Closers -> {"idle", "request", "listen", "look", "parked",
                              "join", "joining", "ok", "error"}]
    BY <1>33 DEF CloseTimeout, CloseStep, TypeOK
  <2> QED
    BY <1>33, <2>1, <2>2, SMTT(30), SMTT(60) DEF CloseTimeout, CloseStep, TypeOK
<1>34. ASSUME NEW k \in Closers, Join(k) PROVE TypeOK'
  <2>1. joinable' \in BOOLEAN
    BY <1>34, Zenon DEF Join
  <2>2. closers' \in [Closers -> {"idle", "request", "listen", "look", "parked",
                              "join", "joining", "ok", "error"}]
    BY <1>34 DEF Join, CloseStep, TypeOK
  <2> QED
    BY <1>34, <2>1, <2>2, SMTT(30), SMTT(60) DEF Join, CloseStep, TypeOK
<1>35. ASSUME NEW k \in Closers, MarkClosing(k) PROVE TypeOK'
  <2>1. closers' \in [Closers -> {"idle", "request", "listen", "look", "parked",
                              "join", "joining", "ok", "error"}]
    BY <1>35 DEF MarkClosing, CloseStep, TypeOK
  <2>2. state' \in {"running", "closing", "closed", "dead"}
    BY <1>35 DEF MarkClosing, TypeOK
  <2>3. behind' \subseteq Calls
    BY <1>35 DEF MarkClosing, Queued, TypeOK
  <2> QED
    BY <1>35, <2>1, <2>2, <2>3, SMTT(30), SMTT(60) DEF MarkClosing, CloseStep, TypeOK
<1>36. CASE DropHandle
  <2>1. held' \in BOOLEAN
    BY <1>36, Zenon DEF DropHandle
  <2> QED
    BY <1>36, <2>1, SMTT(30), SMTT(60) DEF DropHandle, TypeOK
<1>37. CASE UNCHANGED vars
  BY <1>37 DEF vars, TypeOK
<1> QED
  BY <1>1, <1>2, <1>3, <1>4, <1>5, <1>6, <1>7, <1>8, <1>9, <1>10, <1>11,
     <1>12, <1>13, <1>14, <1>15, <1>16, <1>17, <1>18, <1>19, <1>20, <1>21,
     <1>22, <1>23, <1>24, <1>25, <1>26, <1>27, <1>28, <1>29, <1>30, <1>31,
     <1>32, <1>33, <1>34, <1>35, <1>36, <1>37, ZenonT(30), ZenonT(60)
  DEF Next, CallNext, Caller, Thread, RunCommand, Closer, CloseNext, FinishNext,
      EndNext, Finished

\* Every step keeps the meaning of the active command.
LEMMA ActiveStep ==
  ASSUME IInv, [Next]_vars
  PROVE  ActiveInv'
<1> USE WorkerAssumption DEF coreVars, chanVars, flagVars, threadVars, closeVars
<1>1. ASSUME NEW c \in Calls, Call(c) PROVE ActiveInv'
  BY <1>1 DEF Call, CallStep,
     IInv, TypeOK, ActiveInv, Holds, AtCommand, Canceling, Calls
<1>2. ASSUME NEW c \in Calls, Abandon(c) PROVE ActiveInv'
  BY <1>2 DEF Abandon, CallStep,
     IInv, TypeOK, ActiveInv, Holds, AtCommand, Canceling, Calls
<1>3. ASSUME NEW c \in Calls, Send(c) PROVE ActiveInv'
  BY <1>3 DEF Send, CallStep,
     IInv, TypeOK, ActiveInv, Holds, AtCommand, Canceling, Calls
<1>4. ASSUME NEW c \in Calls, Receive(c) PROVE ActiveInv'
  BY <1>4 DEF Receive, CallStep,
     IInv, TypeOK, ActiveInv, Holds, AtCommand, Canceling, Calls
<1>5. ASSUME NEW c \in Calls, Cancel(c) PROVE ActiveInv'
  BY <1>5 DEF Cancel, CallStep,
     IInv, TypeOK, ActiveInv, Holds, AtCommand, Canceling, Calls
<1>6. ASSUME NEW c \in Calls, Claim(c) PROVE ActiveInv'
  BY <1>6 DEF Claim, CallStep,
     IInv, TypeOK, ActiveInv, Holds, AtCommand, Canceling, Calls
<1>7. ASSUME NEW c \in Calls, Load(c) PROVE ActiveInv'
  BY <1>7 DEF Load, CallStep,
     IInv, TypeOK, ActiveInv, Holds, AtCommand, Canceling, Calls
<1>8. ASSUME NEW c \in Calls, Interrupt(c) PROVE ActiveInv'
  BY <1>8 DEF Interrupt, CallStep,
     IInv, TypeOK, ActiveInv, Holds, AtCommand, Canceling, Calls
<1>9. ASSUME NEW c \in Calls, Restore(c) PROVE ActiveInv'
  BY <1>9 DEF Restore, CallStep,
     IInv, TypeOK, ActiveInv, Holds, AtCommand, Canceling, Calls
<1>10. CASE OpenConnection
  BY <1>10 DEF OpenConnection, ThreadStep,
     IInv, TypeOK, ActiveInv, Holds, AtCommand, Canceling, Calls
<1>11. CASE OpenFails
  BY <1>11 DEF OpenFails, ThreadStep,
     IInv, TypeOK, ActiveInv, Holds, AtCommand, Canceling, Calls
<1>12. CASE CheckClose
  BY <1>12 DEF CheckClose, ThreadStep,
     IInv, TypeOK, ActiveInv, Holds, AtCommand, Canceling, Calls
<1>13. CASE SelectClose
  BY <1>13 DEF SelectClose, ThreadStep,
     IInv, TypeOK, ActiveInv, Holds, AtCommand, Canceling, Calls
<1>14. CASE SelectCommand
  BY <1>14 DEF SelectCommand, ThreadStep,
     IInv, TypeOK, ActiveInv, Holds, AtCommand, Canceling, Calls
<1>15. CASE Taken
  BY <1>15 DEF Taken, ThreadStep,
     IInv, TypeOK, ActiveInv, Holds, AtCommand, Canceling, Calls
<1>16. CASE Begin
  BY <1>16 DEF Begin, ThreadStep,
     IInv, TypeOK, ActiveInv, Holds, AtCommand, Canceling, Calls
<1>17. CASE Publish
  BY <1>17 DEF Publish, ThreadStep,
     IInv, TypeOK, ActiveInv, Holds, AtCommand, Canceling, Calls
<1>18. CASE Recheck
  BY <1>18 DEF Recheck, ThreadStep,
     IInv, TypeOK, ActiveInv, Holds, AtCommand, Canceling, Calls
<1>19. CASE Execute
  BY <1>19 DEF Execute, ThreadStep,
     IInv, TypeOK, ActiveInv, Holds, AtCommand, Canceling, Calls
<1>20. CASE Reply
  BY <1>20 DEF Reply, ThreadStep,
     IInv, TypeOK, ActiveInv, Holds, AtCommand, Canceling, Calls
<1>21. CASE Disconnect
  BY <1>21 DEF Disconnect, ThreadStep,
     IInv, TypeOK, ActiveInv, Holds, AtCommand, Canceling, Calls
<1>22. CASE CloseConnection
  BY <1>22 DEF CloseConnection, ThreadStep,
     IInv, TypeOK, ActiveInv, Holds, AtCommand, Canceling, Calls
<1>23. CASE Leave
  BY <1>23 DEF Leave, ThreadStep,
     IInv, TypeOK, ActiveInv, Holds, AtCommand, Canceling, Calls
<1>24. CASE Panic
  BY <1>24 DEF Panic, ThreadStep,
     IInv, TypeOK, ActiveInv, Holds, AtCommand, Canceling, Calls
<1>25. CASE Flush
  BY <1>25 DEF Flush,
     IInv, TypeOK, ActiveInv, Holds, AtCommand, Canceling, Calls
<1>26. CASE FinishNext
  BY <1>26 DEF FinishNext, FinishCommand, ThreadStep,
     IInv, TypeOK, ActiveInv, Holds, AtCommand, Canceling, Calls
<1>27. CASE EndNext
  BY <1>27 DEF EndNext, MarkEnd,
     IInv, TypeOK, ActiveInv, Holds, AtCommand, Canceling, Calls
<1>28. ASSUME NEW k \in Closers, CloseNext(k) PROVE ActiveInv'
  BY <1>28 DEF CloseNext, Closer, MarkClosing, RequestClose, Listen, Look,
         Wake, CloseTimeout, Join, Joined, CloseStep,
     IInv, TypeOK, ActiveInv, Holds, AtCommand, Canceling, Calls
<1>29. CASE DropHandle
  BY <1>29 DEF DropHandle,
     IInv, TypeOK, ActiveInv, Holds, AtCommand, Canceling, Calls
<1>30. CASE UNCHANGED vars
  BY <1>30 DEF vars,
     IInv, TypeOK, ActiveInv, Holds, AtCommand, Canceling, Calls
<1> QED
  BY <1>1, <1>2, <1>3, <1>4, <1>5, <1>6, <1>7, <1>8, <1>9, <1>10, <1>11,
     <1>12, <1>13, <1>14, <1>15, <1>16, <1>17, <1>18, <1>19, <1>20, <1>21,
     <1>22, <1>23, <1>24, <1>25, <1>26, <1>27, <1>28, <1>29, <1>30, ZenonT(30), ZenonT(60)
  DEF Next, CallNext, Caller, Thread, RunCommand, CloseNext, FinishNext,
      EndNext, Finished

\* Every step keeps the agreement of flag and active command.
LEMMA FlagStep ==
  ASSUME IInv, [Next]_vars
  PROVE  FlagInv'
<1> USE WorkerAssumption DEF coreVars, chanVars, flagVars, threadVars, closeVars
<1>1. ASSUME NEW c \in Calls, Call(c) PROVE FlagInv'
  BY <1>1 DEF Call, CallStep,
     IInv, TypeOK, ActiveInv, FlagInv, BehindInv, Holds, AtCommand, Canceling, Calls
<1>2. ASSUME NEW c \in Calls, Abandon(c) PROVE FlagInv'
  BY <1>2 DEF Abandon, CallStep,
     IInv, TypeOK, ActiveInv, FlagInv, BehindInv, Holds, AtCommand, Canceling, Calls
<1>3. ASSUME NEW c \in Calls, Send(c) PROVE FlagInv'
  BY <1>3 DEF Send, CallStep,
     IInv, TypeOK, ActiveInv, FlagInv, BehindInv, Holds, AtCommand, Canceling, Calls
<1>4. ASSUME NEW c \in Calls, Receive(c) PROVE FlagInv'
  BY <1>4 DEF Receive, CallStep,
     IInv, TypeOK, ActiveInv, FlagInv, BehindInv, Holds, AtCommand, Canceling, Calls
<1>5. ASSUME NEW c \in Calls, Cancel(c) PROVE FlagInv'
  BY <1>5 DEF Cancel, CallStep,
     IInv, TypeOK, ActiveInv, FlagInv, BehindInv, Holds, AtCommand, Canceling, Calls
<1>6. ASSUME NEW c \in Calls, Claim(c) PROVE FlagInv'
  BY <1>6 DEF Claim, CallStep,
     IInv, TypeOK, ActiveInv, FlagInv, BehindInv, Holds, AtCommand, Canceling, Calls
<1>7. ASSUME NEW c \in Calls, Load(c) PROVE FlagInv'
  BY <1>7 DEF Load, CallStep,
     IInv, TypeOK, ActiveInv, FlagInv, BehindInv, Holds, AtCommand, Canceling, Calls
<1>8. ASSUME NEW c \in Calls, Interrupt(c) PROVE FlagInv'
  BY <1>8 DEF Interrupt, CallStep,
     IInv, TypeOK, ActiveInv, FlagInv, BehindInv, Holds, AtCommand, Canceling, Calls
<1>9. ASSUME NEW c \in Calls, Restore(c) PROVE FlagInv'
  BY <1>9 DEF Restore, CallStep,
     IInv, TypeOK, ActiveInv, FlagInv, BehindInv, Holds, AtCommand, Canceling, Calls
<1>10. CASE OpenConnection
  BY <1>10 DEF OpenConnection, ThreadStep,
     IInv, TypeOK, ActiveInv, FlagInv, BehindInv, Holds, AtCommand, Canceling, Calls
<1>11. CASE OpenFails
  BY <1>11 DEF OpenFails, ThreadStep,
     IInv, TypeOK, ActiveInv, FlagInv, BehindInv, Holds, AtCommand, Canceling, Calls
<1>12. CASE CheckClose
  BY <1>12 DEF CheckClose, ThreadStep,
     IInv, TypeOK, ActiveInv, FlagInv, BehindInv, Holds, AtCommand, Canceling, Calls
<1>13. CASE SelectClose
  BY <1>13 DEF SelectClose, ThreadStep,
     IInv, TypeOK, ActiveInv, FlagInv, BehindInv, Holds, AtCommand, Canceling, Calls
<1>14. CASE SelectCommand
  BY <1>14 DEF SelectCommand, ThreadStep,
     IInv, TypeOK, ActiveInv, FlagInv, BehindInv, Holds, AtCommand, Canceling, Calls
<1>15. CASE Taken
  BY <1>15 DEF Taken, ThreadStep,
     IInv, TypeOK, ActiveInv, FlagInv, BehindInv, Holds, AtCommand, Canceling, Calls
<1>16. CASE Begin
  BY <1>16 DEF Begin, ThreadStep,
     IInv, TypeOK, ActiveInv, FlagInv, BehindInv, Holds, AtCommand, Canceling, Calls
<1>17. CASE Publish
  BY <1>17 DEF Publish, ThreadStep,
     IInv, TypeOK, ActiveInv, FlagInv, BehindInv, Holds, AtCommand, Canceling, Calls
<1>18. CASE Recheck
  BY <1>18 DEF Recheck, ThreadStep,
     IInv, TypeOK, ActiveInv, FlagInv, BehindInv, Holds, AtCommand, Canceling, Calls
<1>19. CASE Execute
  BY <1>19 DEF Execute, ThreadStep,
     IInv, TypeOK, ActiveInv, FlagInv, BehindInv, Holds, AtCommand, Canceling, Calls
<1>20. CASE Reply
  BY <1>20 DEF Reply, ThreadStep,
     IInv, TypeOK, ActiveInv, FlagInv, BehindInv, Holds, AtCommand, Canceling, Calls
<1>21. CASE Disconnect
  BY <1>21 DEF Disconnect, ThreadStep,
     IInv, TypeOK, ActiveInv, FlagInv, BehindInv, Holds, AtCommand, Canceling, Calls
<1>22. CASE CloseConnection
  BY <1>22 DEF CloseConnection, ThreadStep,
     IInv, TypeOK, ActiveInv, FlagInv, BehindInv, Holds, AtCommand, Canceling, Calls
<1>23. CASE Leave
  BY <1>23 DEF Leave, ThreadStep,
     IInv, TypeOK, ActiveInv, FlagInv, BehindInv, Holds, AtCommand, Canceling, Calls
<1>24. CASE Panic
  BY <1>24 DEF Panic, ThreadStep,
     IInv, TypeOK, ActiveInv, FlagInv, BehindInv, Holds, AtCommand, Canceling, Calls
<1>25. CASE Flush
  BY <1>25 DEF Flush,
     IInv, TypeOK, ActiveInv, FlagInv, BehindInv, Holds, AtCommand, Canceling, Calls
<1>26. CASE FinishNext
  BY <1>26 DEF FinishNext, FinishCommand, ThreadStep,
     IInv, TypeOK, ActiveInv, FlagInv, BehindInv, Holds, AtCommand, Canceling, Calls
<1>27. CASE EndNext
  BY <1>27 DEF EndNext, MarkEnd,
     IInv, TypeOK, ActiveInv, FlagInv, BehindInv, Holds, AtCommand, Canceling, Calls
<1>28. ASSUME NEW k \in Closers, CloseNext(k) PROVE FlagInv'
  BY <1>28 DEF CloseNext, Closer, MarkClosing, RequestClose, Listen, Look,
         Wake, CloseTimeout, Join, Joined, CloseStep,
     IInv, TypeOK, ActiveInv, FlagInv, BehindInv, Holds, AtCommand, Canceling, Calls
<1>29. CASE DropHandle
  BY <1>29 DEF DropHandle,
     IInv, TypeOK, ActiveInv, FlagInv, BehindInv, Holds, AtCommand, Canceling, Calls
<1>30. CASE UNCHANGED vars
  BY <1>30 DEF vars,
     IInv, TypeOK, ActiveInv, FlagInv, BehindInv, Holds, AtCommand, Canceling, Calls
<1> QED
  BY <1>1, <1>2, <1>3, <1>4, <1>5, <1>6, <1>7, <1>8, <1>9, <1>10, <1>11,
     <1>12, <1>13, <1>14, <1>15, <1>16, <1>17, <1>18, <1>19, <1>20, <1>21,
     <1>22, <1>23, <1>24, <1>25, <1>26, <1>27, <1>28, <1>29, <1>30, ZenonT(30), ZenonT(60)
  DEF Next, CallNext, Caller, Thread, RunCommand, CloseNext, FinishNext,
      EndNext, Finished

\* Every step keeps the order of close and the commands.
LEMMA BehindStep ==
  ASSUME IInv, [Next]_vars
  PROVE  BehindInv'
<1> USE WorkerAssumption DEF coreVars, chanVars, flagVars, threadVars, closeVars
<1>1. ASSUME NEW c \in Calls, Call(c) PROVE BehindInv'
  BY <1>1 DEF Call, CallStep,
     IInv, TypeOK, ActiveInv, BehindInv, AtCommand, FailQueued, Queued, Calls
<1>2. ASSUME NEW c \in Calls, Abandon(c) PROVE BehindInv'
  BY <1>2 DEF Abandon, CallStep,
     IInv, TypeOK, ActiveInv, BehindInv, AtCommand, FailQueued, Queued, Calls
<1>3. ASSUME NEW c \in Calls, Send(c) PROVE BehindInv'
  <2> DEFINE fits == receiving /\ Len(queue) < Capacity
  <2>1. CASE ~fits
    <3>1. queue' = queue /\ pc' = [pc EXCEPT ![c] = "cancel"] /\ pc[c] = "sending"
      BY <1>3, <2>1, Zenon DEF Send, CallStep
    <3>2. UNCHANGED <<command, worker, state, behind>>
      BY <1>3, Zenon DEF Send, CallStep
    <3> QED
      BY <3>1, <3>2 DEF IInv, TypeOK, BehindInv
  <2>2. CASE fits
    <3>1. queue' = Append(queue, c) /\ pc' = [pc EXCEPT ![c] = "waiting"]
      BY <1>3, <2>2 DEF Send, CallStep
    <3>2. UNCHANGED <<command, worker, state, behind>>
      BY <1>3, Zenon DEF Send, CallStep
    <3>3. pc[c] = "sending" /\ c # 0
      BY <1>3 DEF Send, CallStep, Calls
    <3>4. /\ Len(queue') = Len(queue) + 1 /\ queue'[Len(queue) + 1] = c
          /\ \A i \in 1 .. Len(queue) : queue'[i] = queue[i] /\ queue[i] \in Calls
          /\ Len(queue) \in Nat
      BY <3>1 DEF IInv, TypeOK
    <3>5. /\ c # command
          /\ \A i \in 1 .. Len(queue) : queue[i] # c
      BY <3>3, <3>4 DEF IInv, BehindInv
    <3>6. \A i, j \in 1 .. Len(queue') : queue'[i] = queue'[j] => i = j
      BY <3>4, <3>5 DEF IInv, BehindInv
    <3>7. \A i \in 1 .. Len(queue') :
            queue'[i] # command' /\ pc'[queue'[i]] \notin {"idle", "sending"}
      BY <3>1, <3>2, <3>4, <3>5 DEF IInv, BehindInv, TypeOK
    <3>8. command' # 0 => pc'[command'] \notin {"idle", "sending"}
      BY <3>1, <3>2, <3>5 DEF IInv, BehindInv, TypeOK, Calls
    <3> QED
      BY <3>2, <3>6, <3>7, <3>8 DEF IInv, BehindInv
  <2> QED
    BY <2>1, <2>2
<1>4. ASSUME NEW c \in Calls, Receive(c) PROVE BehindInv'
  BY <1>4 DEF Receive, CallStep,
     IInv, TypeOK, ActiveInv, BehindInv, AtCommand, FailQueued, Queued, Calls
<1>5. ASSUME NEW c \in Calls, Cancel(c) PROVE BehindInv'
  BY <1>5 DEF Cancel, CallStep,
     IInv, TypeOK, ActiveInv, BehindInv, AtCommand, FailQueued, Queued, Calls
<1>6. ASSUME NEW c \in Calls, Claim(c) PROVE BehindInv'
  BY <1>6 DEF Claim, CallStep,
     IInv, TypeOK, ActiveInv, BehindInv, AtCommand, FailQueued, Queued, Calls
<1>7. ASSUME NEW c \in Calls, Load(c) PROVE BehindInv'
  BY <1>7 DEF Load, CallStep,
     IInv, TypeOK, ActiveInv, BehindInv, AtCommand, FailQueued, Queued, Calls
<1>8. ASSUME NEW c \in Calls, Interrupt(c) PROVE BehindInv'
  BY <1>8 DEF Interrupt, CallStep,
     IInv, TypeOK, ActiveInv, BehindInv, AtCommand, FailQueued, Queued, Calls
<1>9. ASSUME NEW c \in Calls, Restore(c) PROVE BehindInv'
  BY <1>9 DEF Restore, CallStep,
     IInv, TypeOK, ActiveInv, BehindInv, AtCommand, FailQueued, Queued, Calls
<1>10. CASE OpenConnection
  BY <1>10 DEF OpenConnection, ThreadStep,
     IInv, TypeOK, ActiveInv, BehindInv, AtCommand, FailQueued, Queued, Calls
<1>11. CASE OpenFails
  BY <1>11 DEF OpenFails, ThreadStep,
     IInv, TypeOK, ActiveInv, BehindInv, AtCommand, FailQueued, Queued, Calls
<1>12. CASE CheckClose
  <2>1. UNCHANGED <<command, pc, state, behind>>
    BY <1>12, Zenon DEF CheckClose, ThreadStep
  <2>2. CASE closeSent \/ state = "closing"
    <3>1. queue' = << >> /\ worker' = "closing"
      BY <1>12, <2>2 DEF CheckClose, ThreadStep, FailQueued
    <3> QED
      BY <1>12, <2>1, <3>1
      DEF CheckClose, ThreadStep, IInv, BehindInv, AtCommand
  <2>3. CASE ~(closeSent \/ state = "closing")
    <3>1. queue' = queue /\ worker' = "select"
      BY <1>12, <2>3 DEF CheckClose, ThreadStep
    <3>2. worker = "check"
      BY <1>12, <2>3 DEF CheckClose, ThreadStep
    <3> QED
      BY <2>1, <2>3, <3>1, <3>2 DEF IInv, BehindInv, ActiveInv, TypeOK, AtCommand
  <2> QED
    BY <2>2, <2>3
<1>13. CASE SelectClose
  BY <1>13 DEF SelectClose, ThreadStep,
     IInv, TypeOK, ActiveInv, BehindInv, AtCommand, FailQueued, Queued, Calls
<1>14. CASE SelectCommand
  BY <1>14 DEF SelectCommand, ThreadStep,
     IInv, TypeOK, ActiveInv, BehindInv, AtCommand, FailQueued, Queued, Calls
<1>15. CASE Taken
  <2>1. UNCHANGED <<command, pc, state, behind>>
    BY <1>15, Zenon DEF Taken, ThreadStep
  <2>2. CASE state = "closing"
    <3>1. queue' = << >> /\ worker' = "closing"
      BY <1>15, <2>2 DEF Taken, ThreadStep, FailQueued
    <3> QED
      BY <1>15, <2>1, <3>1
      DEF Taken, ThreadStep, IInv, BehindInv, AtCommand
  <2>3. CASE ~(state = "closing")
    <3>1. queue' = queue /\ worker' = "begin"
      BY <1>15, <2>3 DEF Taken, ThreadStep
    <3>2. worker = "taken"
      BY <1>15, <2>3 DEF Taken, ThreadStep
    <3> QED
      BY <2>1, <2>3, <3>1, <3>2 DEF IInv, BehindInv, ActiveInv, TypeOK, AtCommand
  <2> QED
    BY <2>2, <2>3
<1>16. CASE Begin
  BY <1>16 DEF Begin, ThreadStep,
     IInv, TypeOK, ActiveInv, BehindInv, AtCommand, FailQueued, Queued, Calls
<1>17. CASE Publish
  BY <1>17 DEF Publish, ThreadStep,
     IInv, TypeOK, ActiveInv, BehindInv, AtCommand, FailQueued, Queued, Calls
<1>18. CASE Recheck
  BY <1>18 DEF Recheck, ThreadStep,
     IInv, TypeOK, ActiveInv, BehindInv, AtCommand, FailQueued, Queued, Calls
<1>19. CASE Execute
  BY <1>19 DEF Execute, ThreadStep,
     IInv, TypeOK, ActiveInv, BehindInv, AtCommand, FailQueued, Queued, Calls
<1>20. CASE Reply
  BY <1>20 DEF Reply, ThreadStep,
     IInv, TypeOK, ActiveInv, BehindInv, AtCommand, FailQueued, Queued, Calls
<1>21. CASE Disconnect
  BY <1>21 DEF Disconnect, ThreadStep,
     IInv, TypeOK, ActiveInv, BehindInv, AtCommand, FailQueued, Queued, Calls
<1>22. CASE CloseConnection
  BY <1>22 DEF CloseConnection, ThreadStep,
     IInv, TypeOK, ActiveInv, BehindInv, AtCommand, FailQueued, Queued, Calls
<1>23. CASE Leave
  BY <1>23 DEF Leave, ThreadStep,
     IInv, TypeOK, ActiveInv, BehindInv, AtCommand, FailQueued, Queued, Calls
<1>24. CASE Panic
  BY <1>24 DEF Panic, ThreadStep,
     IInv, TypeOK, ActiveInv, BehindInv, AtCommand, FailQueued, Queued, Calls
<1>25. CASE Flush
  BY <1>25 DEF Flush,
     IInv, TypeOK, ActiveInv, BehindInv, AtCommand, FailQueued, Queued, Calls
<1>26. CASE FinishNext
  BY <1>26, Zenon DEF FinishNext, FinishCommand, ThreadStep,
     IInv, BehindInv, AtCommand
<1>27. CASE EndNext
  BY <1>27, Zenon DEF EndNext, MarkEnd, IInv, BehindInv, AtCommand
<1>28. ASSUME NEW k \in Closers, CloseNext(k) PROVE BehindInv'
  <2>1. UNCHANGED <<queue, command, worker, pc>>
    BY <1>28, ZenonT(30), ZenonT(60)
    DEF CloseNext, Closer, MarkClosing, RequestClose, Listen, Look, Wake,
        CloseTimeout, Join, Joined, CloseStep
  <2>2. \/ UNCHANGED <<state, behind>>
        \/ state = "running" /\ state' = "closing" /\ behind' = Queued
    <3>1. CASE MarkClosing(k)
      BY <3>1, Zenon DEF MarkClosing
    <3>2. CASE CloseTimeout(k) \/ Closer(k)
      BY <3>2, Zenon
      DEF Closer, RequestClose, Listen, Look, Wake, CloseTimeout, Join, Joined
    <3> QED
      BY <1>28, <3>1, <3>2 DEF CloseNext
  <2>3. command \notin Queued
    BY DEF IInv, BehindInv, Queued
  <2> QED
    BY <2>1, <2>2, <2>3 DEF IInv, BehindInv
<1>29. CASE DropHandle
  BY <1>29 DEF DropHandle,
     IInv, TypeOK, ActiveInv, BehindInv, AtCommand, FailQueued, Queued, Calls
<1>30. CASE UNCHANGED vars
  BY <1>30 DEF vars,
     IInv, TypeOK, ActiveInv, BehindInv, AtCommand, FailQueued, Queued, Calls
<1> QED
  BY <1>1, <1>2, <1>3, <1>4, <1>5, <1>6, <1>7, <1>8, <1>9, <1>10, <1>11,
     <1>12, <1>13, <1>14, <1>15, <1>16, <1>17, <1>18, <1>19, <1>20, <1>21,
     <1>22, <1>23, <1>24, <1>25, <1>26, <1>27, <1>28, <1>29, <1>30, ZenonT(30), ZenonT(60)
  DEF Next, CallNext, Caller, Thread, RunCommand, CloseNext, FinishNext,
      EndNext, Finished

\* A worker starts in the invariant.
LEMMA Initially == Init => IInv
<1> SUFFICES ASSUME Init PROVE IInv
  OBVIOUS
<1>1. TypeOK
  <2>1. /\ connection \in BOOLEAN /\ joinable \in BOOLEAN /\ closeSent \in BOOLEAN
        /\ held \in BOOLEAN /\ receiving \in BOOLEAN /\ open \in BOOLEAN
        /\ buffered \in BOOLEAN
    BY Zenon DEF Init
  <2>2. /\ active \in 0 .. Canceling /\ command \in 0 .. MaxCalls
        /\ queue \in Seq(Calls) /\ Len(queue) <= Capacity
    BY WorkerAssumption DEF Init, Canceling
  <2> QED
    BY <2>1, <2>2, Zenon DEF Init, TypeOK
<1>2. ActiveInv
  BY DEF Init, ActiveInv, Holds, AtCommand
<1>3. FlagInv
  BY DEF Init, FlagInv
<1>4. BehindInv
  BY DEF Init, BehindInv, AtCommand
<1> QED
  BY <1>1, <1>2, <1>3, <1>4 DEF IInv

\* The invariant holds in every state the worker, its callers and closers reach.
LEMMA Invariance == Spec => []IInv
<1>1. IInv /\ [Next]_vars => IInv'
  BY TypeStep, ActiveStep, FlagStep, BehindStep DEF IInv
<1> QED
  BY <1>1, Initially, PTL DEF Spec

-----------------------------------------------------------------------------
(* Theorems *)

\* However long calls, closers and the thread are delayed, the atomics and the
\* channels keep their types and the queue its capacity.
THEOREM WorkerTypes == Spec => []TypeOK
<1>1. IInv => TypeOK
  BY DEF IInv
<1> QED
  BY <1>1, Invariance, PTL

\* The panic in finish_command is unreachable: the active command is never
\* another call's.
THEOREM FinishIsOwn == Spec => []FinishFindsOwn
<1>1. IInv => FinishFindsOwn
  BY DEF IInv, ActiveInv, FinishFindsOwn
<1> QED
  BY <1>1, Invariance, PTL

\* A delayed sqlite3_interrupt reaches the command it is for and an open
\* connection, for any number of calls.
THEOREM InterruptIsOwn == Spec => []InterruptsOwn
<1>1. ASSUME IInv, NEW c \in Calls, pc[c] = "interrupt"
      PROVE  /\ command = c
             /\ \/ worker \in AtCommand /\ open
                \/ worker = "panicked" \/ state = "dead"
  <2>1. active = Canceling /\ command = c /\ active # 0
    BY <1>1, WorkerAssumption DEF IInv, ActiveInv, Holds, Canceling
  <2>2. \/ worker \in AtCommand \cup {"panicked"}
        \/ worker = "gone" /\ state = "dead"
    BY <1>1, <2>1 DEF IInv, ActiveInv
  <2>3. worker \in AtCommand => open
    BY <1>1 DEF IInv, ActiveInv, AtCommand
  <2> QED
    BY <2>1, <2>2, <2>3
<1>2. IInv => InterruptsOwn
  BY <1>1 DEF InterruptsOwn
<1> QED
  BY <1>2, Invariance, PTL

\* Between the two looks of begin_command and the guard's compare-exchange no
\* cancellation is lost but one that meets a buffered store.
THEOREM CancelIsSeen == Spec => []CancelReaches
<1>1. IInv => CancelReaches
  BY DEF IInv, FlagInv, CancelReaches
<1> QED
  BY <1>1, Invariance, PTL

\* What close finds queued is failed, never executed.
THEOREM BehindIsFailed == Spec => []BehindNeverStarts
<1>1. IInv => BehindNeverStarts
  BY DEF IInv, BehindInv, BehindNeverStarts, AtCommand
<1> QED
  BY <1>1, Invariance, PTL
=============================================================================
