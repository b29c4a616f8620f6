------------------------ MODULE SQLiteHandleProofs -------------------------
(***************************************************************************)
(* What the SQLite handle of an actor keeps for every number of users,     *)
(* operations, transactions and request ids: the safety properties of      *)
(* SQLiteHandle, from one inductive invariant.  None of them is inductive  *)
(* alone.  That a response is the caller's own rests on how pending, the   *)
(* server and the callers' ids fit together (Waiting); that a transaction  *)
(* is ended once, on whose it is between BeginTx and Registered (Numbered) *)
(* and on a terminal mark preceding every commit and rollback (Ending);    *)
(* that a fence or a close leaves nothing behind, on the snapshot a drain  *)
(* works through containing every open transaction (RolledBack).           *)
(***************************************************************************)
EXTENDS SQLiteHandle, TLAPS

-----------------------------------------------------------------------------
(* The inductive invariant.                                                *)

UserPlaces == {"idle", "statement", "done", "begin", "begun", "undone", "end", "ended"}

\* A user's process inside Client.request.
Calling(p) == pc[p] \in {"done", "begun", "undone", "ended"}

\* Process p is about to take t out of DB.transactions.
Removes(p, t) == tx[p] = t /\ (pc[p] = "ended" \/ (pc[p] \in Draining /\ phase[p] # "none"))

\* The flags, the mutexes' holders and the bounded counters.
Types ==
  /\ closing \in BOOLEAN /\ sleepPrepared \in BOOLEAN /\ beginning \in BOOLEAN
  /\ closer \in Closers \cup {Nobody} /\ closeDone \in BOOLEAN
  /\ sleepIntentMu \in {Sleeper, Nobody} /\ lifecycleMu \in {Destroyer, Nobody}
  /\ lifecycleStopping \in BOOLEAN /\ destroyRequested \in BOOLEAN /\ asleep \in BOOLEAN
  /\ what \in [Procs -> Whats]
  /\ closed \in BOOLEAN
  /\ ops \in 0 .. MaxOps /\ sleeps \in 0 .. MaxSleeps

\* Where the users, the Sleep and the closers can be, and where a request is
\* under way.
Places ==
  /\ pc \in [Procs -> UserPlaces \cup {"drain", "drainFailed", "intent", "redundant", "close",
                                       "wait", "returned"}]
  /\ phase \in [Procs -> {"none", "write", "await", "ok", "error"}]
  /\ \A u \in Users : pc[u] \in UserPlaces
  /\ pc[Sleeper] \in {"idle", "drain", "drainFailed", "intent", "redundant"}
  /\ \A c \in Closers :
       pc[c] \in {"idle", "close", "wait", "drain", "drainFailed", "intent", "returned"}
  /\ \A p \in Procs : /\ Calling(p) => phase[p] # "none"
                      /\ phase[p] # "none" => Calling(p) \/ pc[p] \in Draining

\* pending and the callers that wait name each other, and what the server
\* still holds is the request of the caller that waits for its id, or one
\* whose caller gave up and left a tombstone.
Waiting ==
  /\ id \in [Procs -> Ids \cup {0}]
  /\ response \in [Procs -> Procs \cup {Nobody}]
  /\ pending \in [Ids -> Procs \cup {Nobody, Dead}]
  /\ server \subseteq [from : Procs \cup {Nobody}, id : Ids]
  /\ \A p \in Procs : phase[p] = "await" => id[p] \in Ids /\ pending[id[p]] = p
  /\ \A i \in Ids : pending[i] \in Procs => phase[pending[i]] = "await" /\ id[pending[i]] = i
  /\ \A x \in server : \/ pending[x.id] \in Procs /\ x.from = pending[x.id]
                       \/ pending[x.id] = Dead /\ x.from = Nobody
  /\ \A x, y \in server : x.id = y.id => x = y
  /\ OwnResponse

\* Transactions are numbered in the order they are begun; those handed to a
\* user are registered until they are removed.
Recorded ==
  /\ begun \in 0 .. MaxTx
  /\ given \subseteq 1 .. begun /\ terminal \subseteq 1 .. begun /\ transactions \subseteq given
  /\ todo \in [Procs -> SUBSET given]

\* Whose transaction a process is at.  At most one Begin is under way, and its
\* transaction is in nobody else's hands.
Numbered ==
  /\ tx \in [Procs -> 0 .. MaxTx]
  /\ \A u \in Users : pc[u] = "statement" => tx[u] \in given \cup {0}
  /\ \A u \in Users : pc[u] \in {"end", "ended"} => tx[u] \in given
  /\ \A p \in Procs : pc[p] \in Draining /\ phase[p] # "none" => tx[p] \in given
  /\ \A u \in Users : pc[u] \in {"begun", "undone"} =>
       /\ beginning /\ begun # 0 /\ tx[u] = begun
       /\ begun \notin given /\ begun \notin terminal
       /\ \A v \in Users : pc[v] \in {"begun", "undone"} => u = v

\* A transaction that is not terminal has not been ended.
Ending ==
  /\ ended \in [Txs -> {0, 1}]
  /\ \A t \in Txs : t > begun \/ t \in given \ terminal => ended[t] = 0
  /\ \A u \in Users : pc[u] = "begun" => ended[begun] = 0

\* The users that DB.active counts.
Inside == {u \in Users : pc[u] # "idle"}
Counted == IsFiniteSet(Inside) /\ active = Cardinality(Inside)

\* What the fence of Sleep has established at each place of Sleep, and after it.
Fenced ==
  /\ pc[Sleeper] \in {"drain", "drainFailed", "intent"} => sleepPrepared
  /\ pc[Sleeper] = "idle" /\ sleepPrepared => asleep \/ closing
  /\ pc[Sleeper] = "redundant" => asleep
  /\ pc[Sleeper] = "intent" => Inside = {} /\ (closing \/ transactions = {})
  /\ asleep => /\ Inside = {}
               /\ \/ closing
                  \/ /\ sleepPrepared /\ transactions = {}
                     /\ pc[Sleeper] \in {"idle", "redundant"}

\* The close has one closer, and its end finds nothing left.
Closing ==
  /\ closing <=> closer # Nobody
  /\ \A c \in Closers : pc[c] \in Draining => closer = c
  /\ closeDone => closing /\ closed /\ Inside = {} /\ transactions \subseteq terminal

\* The snapshot a drain works through contains every open transaction that is
\* not terminal, and a terminal one that is still registered is being removed.
RolledBack ==
  /\ \A p \in Procs : pc[p] \in Draining => transactions \ terminal \subseteq todo[p]
  /\ \A t \in transactions \cap terminal : \E p \in Procs : Removes(p, t)

IInv ==
  /\ Types /\ Places /\ Waiting /\ Recorded /\ Numbered /\ Ending
  /\ Counted /\ Fenced /\ Closing /\ RolledBack

-----------------------------------------------------------------------------
(* Lemmas.                                                                 *)

\* Users, the Sleep and the closers are different goroutines of one actor.
LEMMA Roles ==
  /\ Users \subseteq Procs /\ Sleeper \in Procs /\ Closers \subseteq Procs
  /\ Nobody \notin Procs /\ Dead \notin Procs /\ Nobody # Dead
  /\ Sleeper \notin Users /\ Sleeper \notin Closers /\ Users \cap Closers = {}
  BY HandleAssumption, Zenon DEF Procs, Closers

\* Only a user is inside one of the operations of the handle.
LEMMA OfUsers ==
  ASSUME Places, NEW p \in Procs, pc[p] \in UserPlaces \ {"idle"}
  PROVE  p \in Users /\ p # Sleeper /\ p \notin Closers
  BY Roles, Zenon DEF Places, UserPlaces, Procs

\* A step is one of the handlers': the disjuncts of Next, written out once.
LEMMA Steps ==
  ASSUME [Next]_vars
  PROVE  \/ \E u \in Users : Admit(u)
         \/ \E p \in Procs : Write(p) \/ WriteNotStarted(p) \/ WriteBroken(p)
              \/ WaitCancelled(p) \/ Statement(p) \/ Done(p) \/ Declined(p)
              \/ BeginTx(p) \/ Registered(p) \/ Overtaken(p) \/ BeginFailed(p)
              \/ EndTx(p) \/ TxEnded(p) \/ DrainSkip(p) \/ DrainTx(p)
              \/ DrainedTx(p)
         \/ \E c \in Closers : DestroyBegin(c) \/ StopBegin(c) \/ CloseTransport(c)
              \/ CloseBackend(c) \/ CloseWaited(c) \/ DestroyIntent(c)
         \/ SleepBegin(Sleeper) \/ SleepDrained(Sleeper) \/ SleepFailed(Sleeper)
              \/ SleepAccepted(Sleeper)
         \/ Answer \/ ReadBroken
         \/ UNCHANGED vars
  BY Zenon DEF Next, Proceed, GiveUp, Rest

\* An answer settles the request that waits for it, with that request's own
\* response, or removes a tombstone (Client.readLoop).
LEMMA AnswerEffect ==
  ASSUME Places, Waiting, Answer
  PROVE  \E x \in server :
           /\ server' = server \ {x}
           /\ pending' = [pending EXCEPT ![x.id] = Nobody]
           /\ \/ pending[x.id] = Dead /\ UNCHANGED <<phase, response>>
              \/ /\ pending[x.id] \in Procs /\ phase[pending[x.id]] = "await"
                 /\ \E r \in {"ok", "error"} : phase' = [phase EXCEPT ![pending[x.id]] = r]
                 /\ response' = [response EXCEPT ![pending[x.id]] = pending[x.id]]
<1>1. PICK x \in server, ok \in BOOLEAN :
        /\ server' = server \ {x}
        /\ pending' = [pending EXCEPT ![x.id] = Nobody]
        /\ IF pending[x.id] \in {Nobody, Dead} THEN UNCHANGED <<phase, response>>
           ELSE /\ Result(pending[x.id], IF ok THEN "ok" ELSE "error")
                /\ response' = [response EXCEPT ![pending[x.id]] = x.from]
  BY Zenon DEF Answer
<1>2. x.id \in Ids
  BY Zenon DEF Waiting
<1>3. \/ pending[x.id] \in Procs /\ x.from = pending[x.id]
      \/ pending[x.id] = Dead
  BY Zenon DEF Waiting
<1>4. CASE pending[x.id] = Dead
  BY <1>1, <1>4, Zenon
<1>5. CASE pending[x.id] \in Procs /\ x.from = pending[x.id]
  <2>1. pending[x.id] \notin {Nobody, Dead}
    BY <1>5, Roles, Zenon
  <2>2. phase[pending[x.id]] = "await"
    BY <1>2, <1>5, Zenon DEF Waiting
  <2>3. \E r \in {"ok", "error"} : phase' = [phase EXCEPT ![pending[x.id]] = r]
    BY <1>1, <2>1, Zenon DEF Result
  <2> QED
    BY <1>1, <1>5, <2>1, <2>2, <2>3, Zenon
<1> QED
  BY <1>3, <1>4, <1>5, Zenon

\* Every handler keeps the flags Boolean, the mutexes with their holders and
\* the counters in their bounds.
LEMMA TypesStep ==
  ASSUME Types, [Next]_vars
  PROVE  Types'
<1> USE DEF dbVars, contextVars, procVars, requestVars, clientVars
<1>1. ASSUME NEW u \in Users, Admit(u) PROVE Types'
  BY <1>1, Roles, HandleAssumption DEF Types, Whats, Closers, Admit, BeginOperation,
         Goto, Resting
<1>2. ASSUME SleepBegin(Sleeper) PROVE Types'
  <2>1. sleeps' \in 0 .. MaxSleeps
    BY <1>2, HandleAssumption DEF Types, SleepBegin
  <2>2. sleepPrepared' \in BOOLEAN /\ sleepIntentMu' \in {Sleeper, Nobody}
    BY <1>2, Zenon DEF Types, SleepBegin
  <2> QED
    BY <1>2, <2>1, <2>2, Zenon DEF Types, SleepBegin, Resting
<1>3. ASSUME NEW c \in Closers, DestroyBegin(c) PROVE Types'
  BY <1>3, Roles, HandleAssumption DEF Types, Whats, Closers, DestroyBegin, Goto,
         Resting
<1>4. ASSUME NEW c \in Closers, StopBegin(c) PROVE Types'
  BY <1>4, Roles, HandleAssumption DEF Types, Whats, Closers, StopBegin, Goto,
         Resting
<1>5. ASSUME NEW p \in Procs, WriteBroken(p) PROVE Types'
  BY <1>5, Roles, HandleAssumption, Zenon DEF Types, Whats, Closers, WriteBroken,
         CloseClient
<1>6. ASSUME NEW p \in Procs, Statement(p) PROVE Types'
  BY <1>6, Roles, HandleAssumption DEF Types, Whats, Closers, Statement, Request,
         Goto
<1>7. ASSUME NEW p \in Procs, Done(p) PROVE Types'
  BY <1>7, Roles, HandleAssumption DEF Types, Whats, Closers, Done, Finish, Goto,
         Forget, Result
<1>8. ASSUME NEW p \in Procs, BeginTx(p) PROVE Types'
  BY <1>8, Roles, HandleAssumption DEF Types, Whats, Closers, BeginTx, Request, Goto
<1>9. ASSUME NEW p \in Procs, Registered(p) PROVE Types'
  BY <1>9, Roles, HandleAssumption, Zenon DEF Types, Whats, Closers, Registered, Finish,
         Goto, Forget, Result
<1>10. ASSUME NEW p \in Procs, Overtaken(p) PROVE Types'
  BY <1>10, Roles, HandleAssumption DEF Types, Whats, Closers, Overtaken, Request,
         Goto
<1>11. ASSUME NEW p \in Procs, BeginFailed(p) PROVE Types'
  BY <1>11, Roles, HandleAssumption, ZenonT(30) DEF Types, Whats, Closers, BeginFailed, Finish,
         Goto, Forget, Result
<1>12. ASSUME NEW p \in Procs, EndTx(p) PROVE Types'
  BY <1>12, Roles, HandleAssumption DEF Types, Whats, Closers, EndTx, Request, Goto
<1>13. ASSUME NEW p \in Procs, TxEnded(p) PROVE Types'
  BY <1>13, Roles, HandleAssumption DEF Types, Whats, Closers, TxEnded, Finish, Goto,
         Forget, Result
<1>14. ASSUME NEW p \in Procs, DrainTx(p) PROVE Types'
  BY <1>14, Roles, HandleAssumption DEF Types, Whats, Closers, DrainTx, Request,
         Goto
<1>15. ASSUME NEW p \in Procs, DrainedTx(p) PROVE Types'
  BY <1>15, Roles, HandleAssumption DEF Types, Whats, Closers, DrainedTx, Goto,
         Forget, Result
<1>16. ASSUME SleepFailed(Sleeper) PROVE Types'
  BY <1>16, Roles, HandleAssumption, ZenonT(30) DEF Types, Whats, Closers, SleepFailed, Drained,
         Goto, Resting
<1>17. ASSUME SleepAccepted(Sleeper) PROVE Types'
  BY <1>17, Roles, HandleAssumption DEF Types, Whats, Closers, SleepAccepted, Goto,
         Resting
<1>18. ASSUME NEW c \in Closers, CloseTransport(c) PROVE Types'
  <2>1. closing' \in BOOLEAN /\ closer' \in Closers \cup {Nobody}
    BY <1>18, Zenon DEF Types, CloseTransport
  <2> QED
    BY <1>18, <2>1, Zenon DEF Types, CloseTransport, Resting
<1>19. ASSUME NEW c \in Closers, CloseBackend(c) PROVE Types'
  BY <1>19, Roles, HandleAssumption, ZenonT(30) DEF Types, Whats, Closers, CloseBackend,
         CloseClient, Drained, Goto, Closed
<1>20. ASSUME NEW c \in Closers, DestroyIntent(c) PROVE Types'
  BY <1>20, Roles, HandleAssumption, Zenon DEF Types, Whats, Closers, DestroyIntent, Goto,
         Resting
<1>21. ASSUME ReadBroken PROVE Types'
  BY <1>21, Roles, HandleAssumption DEF Types, Whats, Closers, ReadBroken,
         CloseClient
<1>22. ASSUME \/ \E p \in Procs : Write(p) \/ WriteNotStarted(p) \/ WaitCancelled(p)
                   \/ Declined(p) \/ DrainSkip(p)
              \/ \E c \in Closers : CloseWaited(c)
              \/ SleepDrained(Sleeper)
              \/ Answer
              \/ UNCHANGED vars
      PROVE  UNCHANGED <<closing, sleepPrepared, beginning, closer, closeDone,
                         sleepIntentMu, lifecycleMu, lifecycleStopping,
                         destroyRequested, asleep, sleeps, ops, what, closed>>
  BY <1>22, Zenon DEF Write, Result, Message, WriteNotStarted, WaitCancelled, LeftBehind,
         Declined, Resting, Finish, Goto, DrainSkip, SleepDrained, Drained,
         CloseWaited, Closed, Answer, vars
<1>23. CASE \/ \E p \in Procs : Write(p) \/ WriteNotStarted(p) \/ WaitCancelled(p)
                 \/ Declined(p) \/ DrainSkip(p)
            \/ \E c \in Closers : CloseWaited(c)
            \/ SleepDrained(Sleeper)
            \/ Answer
            \/ UNCHANGED vars
  BY <1>22, <1>23 DEF Types, Whats, Closers
<1> QED
  BY <1>1, <1>2, <1>3, <1>4, <1>5, <1>6, <1>7, <1>8, <1>9, <1>10, <1>11, <1>12,
     <1>13, <1>14, <1>15, <1>16, <1>17, <1>18, <1>19, <1>20, <1>21, <1>23, Steps

\* Every handler keeps the goroutines in the places of their own code, with a
\* request under way exactly where the code is inside Client.request.
LEMMA PlacesStep ==
  ASSUME Places, Waiting, [Next]_vars
  PROVE  Places'
<1> USE DEF dbVars, contextVars, procVars, requestVars, clientVars
<1>1. ASSUME NEW u \in Users, Admit(u) PROVE Places'
  BY <1>1, Roles DEF Places, UserPlaces, Calling, Returned, Draining, Admit,
         BeginOperation, Goto, Resting
<1>2. ASSUME SleepBegin(Sleeper) PROVE Places'
  BY <1>2, Roles DEF Places, UserPlaces, Calling, Returned, Draining, SleepBegin,
         Goto, Resting
<1>3. ASSUME NEW c \in Closers, DestroyBegin(c) PROVE Places'
  BY <1>3, Roles DEF Places, UserPlaces, Calling, Returned, Draining, DestroyBegin,
         Goto, Resting
<1>4. ASSUME NEW c \in Closers, StopBegin(c) PROVE Places'
  BY <1>4, Roles, Zenon DEF Places, UserPlaces, Calling, Returned, Draining, StopBegin,
         Goto, Resting
<1>5. ASSUME NEW p \in Procs, Write(p) PROVE Places'
  BY <1>5, Roles DEF Places, UserPlaces, Calling, Returned, Draining, Write, Result,
         Message
<1>6. ASSUME NEW p \in Procs, WriteNotStarted(p) PROVE Places'
  BY <1>6, Roles, Zenon DEF Places, UserPlaces, Calling, Returned, Draining,
         WriteNotStarted, Result
<1>7. ASSUME NEW p \in Procs, WriteBroken(p) PROVE Places'
  BY <1>7, Roles, Zenon DEF Places, UserPlaces, Calling, Returned, Draining, WriteBroken,
         CloseClient
<1>8. ASSUME NEW p \in Procs, WaitCancelled(p) PROVE Places'
  BY <1>8, Roles, Zenon DEF Places, UserPlaces, Calling, Returned, Draining, WaitCancelled,
         LeftBehind, Result
<1>9. ASSUME NEW p \in Procs, Statement(p) PROVE Places'
  BY <1>9, Roles DEF Places, UserPlaces, Calling, Returned, Draining, Statement,
         Request, Goto
<1>10. ASSUME NEW p \in Procs, Done(p) PROVE Places'
  BY <1>10, Roles, Zenon DEF Places, UserPlaces, Calling, Returned, Draining, Done, Finish,
         Goto, Forget, Result
<1>11. ASSUME NEW p \in Procs, Declined(p) PROVE Places'
  BY <1>11, Roles, Zenon DEF Places, UserPlaces, Calling, Returned, Draining, Declined,
         Resting, Finish, Goto
<1>12. ASSUME NEW p \in Procs, BeginTx(p) PROVE Places'
  BY <1>12, Roles, Zenon DEF Places, UserPlaces, Calling, Returned, Draining, BeginTx,
         Request, Goto
<1>13. ASSUME NEW p \in Procs, Registered(p) PROVE Places'
  BY <1>13, Roles, Zenon DEF Places, UserPlaces, Calling, Returned, Draining, Registered,
         Finish, Goto, Forget, Result
<1>14. ASSUME NEW p \in Procs, Overtaken(p) PROVE Places'
  BY <1>14, Roles, Zenon DEF Places, UserPlaces, Calling, Returned, Draining, Overtaken,
         Request, Goto
<1>15. ASSUME NEW p \in Procs, BeginFailed(p) PROVE Places'
  BY <1>15, Roles, Zenon DEF Places, UserPlaces, Calling, Returned, Draining, BeginFailed,
         Finish, Goto, Forget, Result
<1>16. ASSUME NEW p \in Procs, EndTx(p) PROVE Places'
  BY <1>16, Roles DEF Places, UserPlaces, Calling, Returned, Draining, EndTx,
         Request, Goto
<1>17. ASSUME NEW p \in Procs, TxEnded(p) PROVE Places'
  BY <1>17, Roles, Zenon DEF Places, UserPlaces, Calling, Returned, Draining, TxEnded,
         Finish, Goto, Forget, Result
<1>18. ASSUME NEW p \in Procs, DrainTx(p) PROVE Places'
  BY <1>18, Roles DEF Places, UserPlaces, Calling, Returned, Draining, DrainTx,
         Request, Goto
<1>19. ASSUME NEW p \in Procs, DrainedTx(p) PROVE Places'
  BY <1>19, Roles DEF Places, UserPlaces, Calling, Returned, Draining, DrainedTx,
         Goto, Forget, Result
<1>20. ASSUME SleepDrained(Sleeper) PROVE Places'
  BY <1>20, Roles, Zenon DEF Places, UserPlaces, Calling, Returned, Draining, SleepDrained,
         Drained, Goto, Resting
<1>21. ASSUME SleepFailed(Sleeper) PROVE Places'
  BY <1>21, Roles, Zenon DEF Places, UserPlaces, Calling, Returned, Draining, SleepFailed,
         Drained, Goto, Resting
<1>22. ASSUME SleepAccepted(Sleeper) PROVE Places'
  BY <1>22, Roles, Zenon DEF Places, UserPlaces, Calling, Returned, Draining, SleepAccepted,
         Goto, Resting
<1>23. ASSUME NEW c \in Closers, CloseTransport(c) PROVE Places'
  BY <1>23, Roles DEF Places, UserPlaces, Calling, Returned, Draining,
         CloseTransport, Goto, Resting
<1>24. ASSUME NEW c \in Closers, CloseBackend(c) PROVE Places'
  BY <1>24, Roles DEF Places, UserPlaces, Calling, Returned, Draining, CloseBackend,
         CloseClient, Drained, Goto, Closed
<1>25. ASSUME NEW c \in Closers, CloseWaited(c) PROVE Places'
  BY <1>25, Roles, Zenon DEF Places, UserPlaces, Calling, Returned, Draining, CloseWaited,
         Closed, Goto, Resting
<1>26. ASSUME NEW c \in Closers, DestroyIntent(c) PROVE Places'
  BY <1>26, Roles DEF Places, UserPlaces, Calling, Returned, Draining, DestroyIntent,
         Goto, Resting
<1>27. ASSUME Answer PROVE Places'
  <2>1. PICK q \in Procs, r \in {"ok", "error"} :
          \/ phase' = phase
          \/ phase[q] = "await" /\ phase' = [phase EXCEPT ![q] = r]
    BY <1>27, AnswerEffect, Roles, Zenon
  <2>2. pc' = pc
    BY <1>27, Zenon DEF Answer
  <2> QED
    BY <2>1, <2>2, Zenon DEF Places, Calling
<1>28. ASSUME ReadBroken PROVE Places'
  BY <1>28, Roles, Zenon DEF Places, UserPlaces, Calling, Returned, Draining, ReadBroken,
         CloseClient
<1>29. ASSUME \/ \E p \in Procs : DrainSkip(p)
              \/ UNCHANGED vars
      PROVE  UNCHANGED <<pc, phase>>
  BY <1>29, Zenon DEF DrainSkip, Resting, vars
<1>30. CASE \/ \E p \in Procs : DrainSkip(p)
            \/ UNCHANGED vars
  BY <1>29, <1>30, Zenon DEF Places, UserPlaces, Calling, Returned, Draining
<1> QED
  BY <1>1, <1>2, <1>3, <1>4, <1>5, <1>6, <1>7, <1>8, <1>9, <1>10, <1>11, <1>12,
     <1>13, <1>14, <1>15, <1>16, <1>17, <1>18, <1>19, <1>20, <1>21, <1>22, <1>23,
     <1>24, <1>25, <1>26, <1>27, <1>28, <1>30, Steps, Zenon

\* A step that leaves pending and the server alone, and lets nobody wait or
\* stop waiting, keeps Waiting.
LEMMA WaitingKept ==
  ASSUME Waiting, Places, NEW p \in Procs, phase[p] # "await", NEW r \in {"none", "write"},
         phase' = [phase EXCEPT ![p] = r], id' = [id EXCEPT ![p] = 0],
         response' = [response EXCEPT ![p] = Nobody], UNCHANGED <<pending, server>>
  PROVE  Waiting'
  BY Roles DEF Waiting, Places, OwnResponse

\* Every handler keeps pending, the server and the waiting callers matched:
\* Client.request and its abandonPending, readLoop and the close of the client.
LEMMA WaitingStep ==
  ASSUME Waiting, Places, [Next]_vars
  PROVE  Waiting'
<1> USE DEF dbVars, contextVars, procVars, requestVars, clientVars
<1>1. ASSUME NEW p \in Procs, Write(p) PROVE Waiting'
  BY <1>1, Roles DEF Waiting, Places, OwnResponse, Write, Result, Message
<1>2. ASSUME NEW p \in Procs, WriteNotStarted(p) PROVE Waiting'
  BY <1>2, Roles DEF Waiting, Places, OwnResponse, WriteNotStarted, Result
<1>3. ASSUME NEW p \in Procs, WriteBroken(p) PROVE Waiting'
  BY <1>3, Roles, Zenon DEF Waiting, Places, OwnResponse, WriteBroken, CloseClient
<1>4. ASSUME NEW p \in Procs, WaitCancelled(p) PROVE Waiting'
  BY <1>4, Roles DEF Waiting, Places, OwnResponse, WaitCancelled, LeftBehind, Result
<1>5. ASSUME NEW p \in Procs, Statement(p) PROVE Waiting'
  <2>1. phase[p] # "await"
    BY <1>5, Zenon DEF Places, Calling, Draining, Statement
  <2> QED
    BY <1>5, <2>1, WaitingKept, Zenon DEF Statement, Request
<1>6. ASSUME NEW p \in Procs, Done(p) PROVE Waiting'
  <2>1. phase[p] # "await"
    BY <1>6, Zenon DEF Places, Calling, Draining, Done, Returned
  <2> QED
    BY <1>6, <2>1, WaitingKept, Zenon DEF Done, Forget, Result
<1>7. ASSUME NEW p \in Procs, BeginTx(p) PROVE Waiting'
  <2>1. phase[p] # "await"
    BY <1>7, Zenon DEF Places, Calling, Draining, BeginTx
  <2> QED
    BY <1>7, <2>1, WaitingKept, Zenon DEF BeginTx, Request
<1>8. ASSUME NEW p \in Procs, Registered(p) PROVE Waiting'
  <2>1. phase[p] # "await"
    BY <1>8, Zenon DEF Places, Calling, Draining, Registered, Returned
  <2> QED
    BY <1>8, <2>1, WaitingKept, Zenon DEF Registered, Forget, Result
<1>9. ASSUME NEW p \in Procs, Overtaken(p) PROVE Waiting'
  <2>1. phase[p] # "await"
    BY <1>9, Zenon DEF Places, Calling, Draining, Overtaken
  <2> QED
    BY <1>9, <2>1, WaitingKept, Zenon DEF Overtaken, Request
<1>10. ASSUME NEW p \in Procs, BeginFailed(p) PROVE Waiting'
  <2>1. phase[p] # "await"
    BY <1>10, Zenon DEF Places, Calling, Draining, BeginFailed, Returned
  <2> QED
    BY <1>10, <2>1, WaitingKept, Zenon DEF BeginFailed, Forget, Result
<1>11. ASSUME NEW p \in Procs, EndTx(p) PROVE Waiting'
  <2>1. phase[p] # "await"
    BY <1>11, Zenon DEF Places, Calling, Draining, EndTx
  <2> QED
    BY <1>11, <2>1, WaitingKept, Zenon DEF EndTx, Request
<1>12. ASSUME NEW p \in Procs, TxEnded(p) PROVE Waiting'
  <2>1. phase[p] # "await"
    BY <1>12, Zenon DEF Places, Calling, Draining, TxEnded, Returned
  <2> QED
    BY <1>12, <2>1, WaitingKept, Zenon DEF TxEnded, Forget, Result
<1>13. ASSUME NEW p \in Procs, DrainTx(p) PROVE Waiting'
  <2>1. phase[p] # "await"
    BY <1>13, Zenon DEF Places, Calling, Draining, DrainTx
  <2> QED
    BY <1>13, <2>1, WaitingKept, Zenon DEF DrainTx, Request
<1>14. ASSUME NEW p \in Procs, DrainedTx(p) PROVE Waiting'
  <2>1. phase[p] # "await"
    BY <1>14, Zenon DEF Places, Calling, Draining, DrainedTx, Returned
  <2> QED
    BY <1>14, <2>1, WaitingKept, Zenon DEF DrainedTx, Forget, Result
<1>15. ASSUME NEW c \in Closers, CloseBackend(c) PROVE Waiting'
  <2>1. CASE closed
    BY <1>15, <2>1, Zenon DEF CloseBackend, Waiting, OwnResponse
  <2>2. CASE ~closed
    BY <1>15, <2>2, Roles DEF CloseBackend, CloseClient, Waiting, Places, OwnResponse
  <2> QED
    BY <2>1, <2>2, Zenon
<1>16. ASSUME Answer PROVE Waiting'
  <2>1. PICK x \in server :
          /\ server' = server \ {x}
          /\ pending' = [pending EXCEPT ![x.id] = Nobody]
          /\ \/ pending[x.id] = Dead /\ UNCHANGED <<phase, response>>
             \/ /\ pending[x.id] \in Procs /\ phase[pending[x.id]] = "await"
                /\ \E r \in {"ok", "error"} : phase' = [phase EXCEPT ![pending[x.id]] = r]
                /\ response' = [response EXCEPT ![pending[x.id]] = pending[x.id]]
    BY <1>16, AnswerEffect, Zenon
  <2>2. id' = id
    BY <1>16, Zenon DEF Answer
  <2>3. CASE pending[x.id] = Dead /\ UNCHANGED <<phase, response>>
    BY <2>1, <2>2, <2>3, Roles DEF Waiting, Places, OwnResponse
  <2>4. ASSUME NEW q \in Procs, q = pending[x.id], phase[q] = "await",
               NEW r \in {"ok", "error"}, phase' = [phase EXCEPT ![q] = r],
               response' = [response EXCEPT ![q] = q]
        PROVE Waiting'
    BY <2>1, <2>2, <2>4, Roles DEF Waiting, Places, OwnResponse
  <2> QED
    BY <2>1, <2>3, <2>4, Zenon
<1>17. ASSUME ReadBroken PROVE Waiting'
  BY <1>17, Roles, Zenon DEF Waiting, Places, OwnResponse, ReadBroken, CloseClient
<1>18. ASSUME \/ \E u \in Users : Admit(u)
              \/ \E p \in Procs : Declined(p) \/ DrainSkip(p)
              \/ \E c \in Closers : DestroyBegin(c) \/ StopBegin(c)
                   \/ CloseTransport(c) \/ CloseWaited(c) \/ DestroyIntent(c)
              \/ SleepBegin(Sleeper) \/ SleepDrained(Sleeper)
                   \/ SleepFailed(Sleeper) \/ SleepAccepted(Sleeper)
              \/ UNCHANGED vars
      PROVE  UNCHANGED <<phase, id, response, pending, server>>
  BY <1>18, Zenon DEF Admit, BeginOperation, Goto, Resting, SleepBegin, DestroyBegin,
         StopBegin, Declined, Finish, DrainSkip, SleepDrained, Drained, SleepFailed,
         SleepAccepted, CloseTransport, CloseWaited, Closed, DestroyIntent, vars
<1>19. CASE \/ \E u \in Users : Admit(u)
            \/ \E p \in Procs : Declined(p) \/ DrainSkip(p)
            \/ \E c \in Closers : DestroyBegin(c) \/ StopBegin(c)
                 \/ CloseTransport(c) \/ CloseWaited(c) \/ DestroyIntent(c)
            \/ SleepBegin(Sleeper) \/ SleepDrained(Sleeper) \/ SleepFailed(Sleeper)
                 \/ SleepAccepted(Sleeper)
            \/ UNCHANGED vars
  BY <1>18, <1>19 DEF Waiting, Places, OwnResponse
<1> QED
  BY <1>1, <1>2, <1>3, <1>4, <1>5, <1>6, <1>7, <1>8, <1>9, <1>10, <1>11, <1>12,
     <1>13, <1>14, <1>15, <1>16, <1>17, <1>19, Steps, Zenon

\* A step that moves no user and begins no rollback keeps Numbered.
LEMMA NumberedKept ==
  ASSUME Numbered, UNCHANGED <<tx, begun, given, terminal, beginning>>,
         \A u \in Users : pc'[u] = pc[u],
         \A p \in Procs : pc'[p] \in Draining /\ phase'[p] # "none" =>
                            pc[p] \in Draining /\ phase[p] # "none"
  PROVE  Numbered'
  BY Zenon DEF Numbered

\* The first commit or rollback of a transaction leaves it ended once.
LEMMA EndRequest ==
  ASSUME NEW p, NEW t, NEW w \in {"commit", "rollback"}, NEW place,
         Request(p, w, t, place), ended[t] = 0
  PROVE  ended' = [ended EXCEPT ![t] = 1]
<1>1. ended' = [ended EXCEPT ![t] = ended[t] + 1]
  BY Zenon DEF Request
<1>2. ended[t] + 1 = 1
  OBVIOUS
<1> QED
  BY <1>1, <1>2, Zenon

\* A step that ends no transaction and frees none keeps Ending.
LEMMA EndingKept ==
  ASSUME Ending, UNCHANGED <<ended, begun, given, terminal>>,
         \A u \in Users : pc'[u] = "begun" => pc[u] = "begun"
  PROVE  Ending'
  BY Zenon DEF Ending

\* Every handler keeps the registered and the terminal transactions among
\* those begun (DB.Begin, Tx.finish and the drains).
LEMMA RecordedStep ==
  ASSUME Recorded, Numbered, Places, [Next]_vars
  PROVE  Recorded'
<1> USE DEF dbVars, contextVars, procVars, requestVars, clientVars
<1>1. ASSUME SleepBegin(Sleeper) PROVE Recorded'
  BY <1>1, Roles, HandleAssumption, Zenon DEF Recorded, Numbered, Draining, SleepBegin,
         Goto, Resting
<1>2. ASSUME NEW p \in Procs, BeginTx(p) PROVE Recorded'
  BY <1>2, Roles, HandleAssumption DEF Recorded, Numbered, Draining, BeginTx,
         Request, Goto
<1>3. ASSUME NEW p \in Procs, Registered(p) PROVE Recorded'
  <2>1. p \in Users
    BY <1>3, OfUsers, Zenon DEF UserPlaces, Registered
  <2>2. tx[p] = begun /\ begun \in 1 .. begun
    BY <1>3, <2>1 DEF Registered, Numbered, Recorded
  <2>3. given \subseteq given' /\ todo' = todo
    BY <1>3, Zenon DEF Registered
  <2>4. todo' \in [Procs -> SUBSET given']
    BY <2>3, Zenon DEF Recorded
  <2> QED
    BY <1>3, <2>2, <2>4, Zenon DEF Registered, Recorded
<1>4. ASSUME NEW p \in Procs, BeginFailed(p) PROVE Recorded'
  <2>1. p \in Users
    BY <1>4, OfUsers, Zenon DEF UserPlaces, BeginFailed
  <2>2. tx[p] = begun /\ begun \in 1 .. begun
    BY <1>4, <2>1 DEF BeginFailed, Numbered, Recorded
  <2> QED
    BY <1>4, <2>2, Zenon DEF BeginFailed, Recorded
<1>5. ASSUME NEW p \in Procs, EndTx(p) PROVE Recorded'
  <2>1. p \in Users
    BY <1>5, OfUsers, Zenon DEF UserPlaces, EndTx
  <2>2. tx[p] \in given
    BY <1>5, <2>1, Zenon DEF EndTx, Numbered
  <2> QED
    BY <1>5, <2>2, Zenon DEF EndTx, Request, Recorded
<1>6. ASSUME NEW p \in Procs, TxEnded(p) PROVE Recorded'
  BY <1>6, Roles, HandleAssumption, Zenon DEF Recorded, Numbered, Draining, TxEnded, Finish,
         Goto, Forget, Result
<1>7. ASSUME NEW p \in Procs, DrainSkip(p) PROVE Recorded'
  BY <1>7, Roles, HandleAssumption DEF Recorded, Numbered, Draining, DrainSkip,
         Resting
<1>8. ASSUME NEW p \in Procs, DrainTx(p) PROVE Recorded'
  BY <1>8, Roles, HandleAssumption DEF Recorded, Numbered, Draining, DrainTx,
         Request, Goto
<1>9. ASSUME NEW p \in Procs, DrainedTx(p) PROVE Recorded'
  BY <1>9, Roles, HandleAssumption, Zenon DEF Recorded, Numbered, Draining, DrainedTx, Goto,
         Forget, Result
<1>10. ASSUME NEW c \in Closers, CloseTransport(c) PROVE Recorded'
  BY <1>10, Roles, HandleAssumption, ZenonT(30) DEF Recorded, Numbered, Draining, CloseTransport,
         Goto, Resting
<1>11. ASSUME \/ \E u \in Users : Admit(u)
              \/ \E p \in Procs : Write(p) \/ WriteNotStarted(p) \/ WriteBroken(p)
                   \/ WaitCancelled(p) \/ Statement(p) \/ Done(p) \/ Declined(p)
                   \/ Overtaken(p)
              \/ \E c \in Closers : DestroyBegin(c) \/ StopBegin(c)
                   \/ CloseBackend(c) \/ CloseWaited(c) \/ DestroyIntent(c)
              \/ SleepDrained(Sleeper) \/ SleepFailed(Sleeper)
                   \/ SleepAccepted(Sleeper)
              \/ Answer \/ ReadBroken
              \/ UNCHANGED vars
      PROVE  UNCHANGED <<transactions, terminal, begun, given, todo>>
  BY <1>11, ZenonT(30) DEF Admit, BeginOperation, Goto, Resting, DestroyBegin, StopBegin, Write,
         Result, Message, WriteNotStarted, WriteBroken, CloseClient, WaitCancelled,
         LeftBehind, Statement, Request, Done, Finish, Forget, Declined, Overtaken,
         SleepDrained, Drained, SleepFailed, SleepAccepted, CloseBackend, Closed,
         CloseWaited, DestroyIntent, Answer, ReadBroken, vars
<1>12. CASE \/ \E u \in Users : Admit(u)
            \/ \E p \in Procs : Write(p) \/ WriteNotStarted(p) \/ WriteBroken(p)
                 \/ WaitCancelled(p) \/ Statement(p) \/ Done(p) \/ Declined(p)
                 \/ Overtaken(p)
            \/ \E c \in Closers : DestroyBegin(c) \/ StopBegin(c) \/ CloseBackend(c)
                 \/ CloseWaited(c) \/ DestroyIntent(c)
            \/ SleepDrained(Sleeper) \/ SleepFailed(Sleeper)
                 \/ SleepAccepted(Sleeper)
            \/ Answer \/ ReadBroken
            \/ UNCHANGED vars
  BY <1>11, <1>12, Zenon DEF Recorded, Numbered, Draining
<1> QED
  BY <1>1, <1>2, <1>3, <1>4, <1>5, <1>6, <1>7, <1>8, <1>9, <1>10, <1>12, Steps, Zenon

\* Every handler keeps the transaction of each process: the one it was handed,
\* or, during Begin, one that nobody else knows.
LEMMA NumberedStep ==
  ASSUME Recorded, Numbered, Types, Places, Waiting, [Next]_vars
  PROVE  Numbered'
<1> USE DEF dbVars, contextVars, procVars, requestVars, clientVars
<1>1. ASSUME NEW u \in Users, Admit(u) PROVE Numbered'
  BY <1>1, Roles, HandleAssumption DEF Numbered, Recorded, Places, Draining, Admit,
         BeginOperation, Goto, Resting
<1>2. ASSUME SleepBegin(Sleeper) PROVE Numbered'
  <2>1. \A q \in Procs : pc'[q] \in Draining /\ phase'[q] # "none" =>
                            pc[q] \in Draining /\ phase[q] # "none"
    BY <1>2, Zenon DEF Places, Calling, Draining, SleepBegin, Goto, Resting
  <2>2. \A u \in Users : pc'[u] = pc[u]
    BY <1>2, Roles, Zenon DEF Places, SleepBegin, Goto, Resting
  <2> QED
    BY <1>2, <2>1, <2>2, NumberedKept, Zenon DEF SleepBegin, Goto, Resting
<1>3. ASSUME NEW c \in Closers, DestroyBegin(c) PROVE Numbered'
  BY <1>3, Roles, HandleAssumption DEF Numbered, Recorded, Places, Draining,
         DestroyBegin, Goto, Resting
<1>4. ASSUME NEW c \in Closers, StopBegin(c) PROVE Numbered'
  BY <1>4, Roles, HandleAssumption DEF Numbered, Recorded, Places, Draining,
         StopBegin, Goto, Resting
<1>5. ASSUME NEW p \in Procs, Write(p) PROVE Numbered'
  BY <1>5, Roles, HandleAssumption DEF Numbered, Recorded, Places, Draining, Write,
         Result, Message
<1>6. ASSUME NEW p \in Procs, WriteNotStarted(p) PROVE Numbered'
  BY <1>6, Roles, HandleAssumption, Zenon DEF Numbered, Recorded, Places, Draining,
         WriteNotStarted, Result
<1>7. ASSUME NEW p \in Procs, WriteBroken(p) PROVE Numbered'
  BY <1>7, Roles, HandleAssumption, Zenon DEF Numbered, Recorded, Places, Draining,
         WriteBroken, CloseClient
<1>8. ASSUME NEW p \in Procs, WaitCancelled(p) PROVE Numbered'
  BY <1>8, Roles, HandleAssumption, Zenon DEF Numbered, Recorded, Places, Draining,
         WaitCancelled, LeftBehind, Result
<1>9. ASSUME NEW p \in Procs, Statement(p) PROVE Numbered'
  <2>1. p \in Users
    BY <1>9, OfUsers, Zenon DEF UserPlaces, Statement
  <2> QED
    BY <1>9, <2>1, Roles, HandleAssumption DEF Recorded, Numbered, Places, Draining, Goto,
       Statement, Request
<1>10. ASSUME NEW p \in Procs, Done(p) PROVE Numbered'
  <2>1. p \in Users
    BY <1>10, OfUsers, Zenon DEF UserPlaces, Done
  <2> QED
    BY <1>10, <2>1, Roles, HandleAssumption DEF Recorded, Numbered, Places, Draining, Goto, Done,
       Finish, Forget, Result
<1>11. ASSUME NEW p \in Procs, Declined(p) PROVE Numbered'
  <2>1. p \in Users
    BY <1>11, OfUsers, Zenon DEF UserPlaces, Declined
  <2> QED
    BY <1>11, <2>1, Roles, HandleAssumption DEF Recorded, Numbered, Places, Draining, Goto,
       Declined, Finish, Resting
<1>12. ASSUME NEW p \in Procs, BeginTx(p) PROVE Numbered'
  <2>1. p \in Users
    BY <1>12, OfUsers, Zenon DEF UserPlaces, BeginTx
  <2> QED
    BY <1>12, <2>1, Roles, HandleAssumption DEF Recorded, Numbered, Places, Draining, Goto,
       BeginTx, Request
<1>13. ASSUME NEW p \in Procs, Registered(p) PROVE Numbered'
  <2>1. p \in Users
    BY <1>13, OfUsers, Zenon DEF UserPlaces, Registered
  <2> QED
    BY <1>13, <2>1, Roles, HandleAssumption DEF Recorded, Numbered, Places, Draining, Goto,
       Registered, Finish, Forget, Result
<1>14. ASSUME NEW p \in Procs, Overtaken(p) PROVE Numbered'
  <2>1. p \in Users
    BY <1>14, OfUsers, Zenon DEF UserPlaces, Overtaken
  <2> QED
    BY <1>14, <2>1, Roles, HandleAssumption DEF Recorded, Numbered, Places, Draining, Goto,
       Overtaken, Request
<1>15. ASSUME NEW p \in Procs, BeginFailed(p) PROVE Numbered'
  <2>1. p \in Users
    BY <1>15, OfUsers, Zenon DEF UserPlaces, BeginFailed
  <2> QED
    BY <1>15, <2>1, Roles, HandleAssumption DEF Recorded, Numbered, Places, Draining, Goto,
       BeginFailed, Finish, Forget, Result
<1>16. ASSUME NEW p \in Procs, EndTx(p) PROVE Numbered'
  <2>1. p \in Users
    BY <1>16, OfUsers, Zenon DEF UserPlaces, EndTx
  <2> QED
    BY <1>16, <2>1, Roles, HandleAssumption DEF Recorded, Numbered, Places, Draining, Goto,
       EndTx, Request
<1>17. ASSUME NEW p \in Procs, TxEnded(p) PROVE Numbered'
  <2>1. p \in Users
    BY <1>17, OfUsers, Zenon DEF UserPlaces, TxEnded
  <2> QED
    BY <1>17, <2>1, Roles, HandleAssumption DEF Recorded, Numbered, Places, Draining, Goto,
       TxEnded, Finish, Forget, Result
<1>18. ASSUME NEW p \in Procs, DrainTx(p) PROVE Numbered'
  BY <1>18, Roles, HandleAssumption DEF Numbered, Recorded, Places, Draining,
         DrainTx, Request, Goto
<1>19. ASSUME NEW p \in Procs, DrainedTx(p) PROVE Numbered'
  BY <1>19, Roles, HandleAssumption DEF Numbered, Recorded, Places, Draining,
         DrainedTx, Goto, Forget, Result
<1>20. ASSUME SleepDrained(Sleeper) PROVE Numbered'
  BY <1>20, Roles, HandleAssumption, Zenon DEF Numbered, Recorded, Places, Draining,
         SleepDrained, Drained, Goto, Resting
<1>21. ASSUME SleepFailed(Sleeper) PROVE Numbered'
  BY <1>21, Roles, HandleAssumption DEF Numbered, Recorded, Places, Draining,
         SleepFailed, Drained, Goto, Resting
<1>22. ASSUME SleepAccepted(Sleeper) PROVE Numbered'
  BY <1>22, Roles, HandleAssumption DEF Numbered, Recorded, Places, Draining,
         SleepAccepted, Goto, Resting
<1>23. ASSUME NEW c \in Closers, CloseTransport(c) PROVE Numbered'
  <2>1. \A q \in Procs : pc'[q] \in Draining /\ phase'[q] # "none" =>
                            pc[q] \in Draining /\ phase[q] # "none"
    BY <1>23, Zenon DEF Places, Calling, Draining, CloseTransport, Goto, Resting
  <2>2. \A u \in Users : pc'[u] = pc[u]
    BY <1>23, Roles, Zenon DEF Places, CloseTransport, Goto, Resting
  <2> QED
    BY <1>23, <2>1, <2>2, NumberedKept, Zenon DEF CloseTransport, Goto, Resting
<1>24. ASSUME NEW c \in Closers, CloseBackend(c) PROVE Numbered'
  BY <1>24, Roles, HandleAssumption DEF Numbered, Recorded, Places, Draining,
         CloseBackend, CloseClient, Drained, Goto, Closed
<1>25. ASSUME NEW c \in Closers, CloseWaited(c) PROVE Numbered'
  BY <1>25, Roles, HandleAssumption DEF Numbered, Recorded, Places, Draining,
         CloseWaited, Closed, Goto, Resting
<1>26. ASSUME NEW c \in Closers, DestroyIntent(c) PROVE Numbered'
  BY <1>26, Roles, HandleAssumption DEF Numbered, Recorded, Places, Draining,
         DestroyIntent, Goto, Resting
<1>27. ASSUME Answer PROVE Numbered'
  <2>1. \A q \in Procs : phase'[q] # "none" => phase[q] # "none"
    BY <1>27, AnswerEffect, Zenon DEF Places
  <2> QED
    BY <1>27, <2>1, NumberedKept, Zenon DEF Answer
<1>28. ASSUME ReadBroken PROVE Numbered'
  BY <1>28, Roles, HandleAssumption, Zenon DEF Numbered, Recorded, Places, Draining,
         ReadBroken, CloseClient
<1>29. ASSUME \/ \E p \in Procs : DrainSkip(p)
              \/ UNCHANGED vars
      PROVE  UNCHANGED <<beginning, terminal, begun, given, pc, tx, phase>>
  BY <1>29, Zenon DEF DrainSkip, Resting, vars
<1>30. CASE \/ \E p \in Procs : DrainSkip(p)
            \/ UNCHANGED vars
  BY <1>29, <1>30 DEF Numbered, Recorded, Places, Draining
<1> QED
  BY <1>1, <1>2, <1>3, <1>4, <1>5, <1>6, <1>7, <1>8, <1>9, <1>10, <1>11, <1>12,
     <1>13, <1>14, <1>15, <1>16, <1>17, <1>18, <1>19, <1>20, <1>21, <1>22, <1>23,
     <1>24, <1>25, <1>26, <1>27, <1>28, <1>30, Steps, Zenon

\* Every handler sends a commit or a rollback only for a transaction that it
\* has just marked terminal, or that a Begin overtaken by a close still owns.
LEMMA EndingStep ==
  ASSUME Ending, Recorded, Numbered, Places, [Next]_vars
  PROVE  Ending'
<1> USE DEF dbVars, contextVars, procVars, requestVars, clientVars
<1>1. ASSUME NEW u \in Users, Admit(u) PROVE Ending'
  <2>1. \A v \in Users : pc'[v] = "begun" => pc[v] = "begun"
    BY <1>1, Roles, Zenon DEF Places, Admit, BeginOperation, Goto, Resting
  <2> QED
    BY <1>1, <2>1, EndingKept, Zenon DEF Admit, BeginOperation, Goto, Resting
<1>2. ASSUME SleepBegin(Sleeper) PROVE Ending'
  <2>1. \A v \in Users : pc'[v] = "begun" => pc[v] = "begun"
    BY <1>2, Roles, Zenon DEF Places, SleepBegin, Goto, Resting
  <2> QED
    BY <1>2, <2>1, EndingKept, Zenon DEF SleepBegin, Goto, Resting
<1>3. ASSUME NEW c \in Closers, DestroyBegin(c) PROVE Ending'
  <2>1. \A v \in Users : pc'[v] = "begun" => pc[v] = "begun"
    BY <1>3, Roles, Zenon DEF Places, DestroyBegin, Goto, Resting
  <2> QED
    BY <1>3, <2>1, EndingKept, Zenon DEF DestroyBegin, Goto, Resting
<1>4. ASSUME NEW c \in Closers, StopBegin(c) PROVE Ending'
  <2>1. \A v \in Users : pc'[v] = "begun" => pc[v] = "begun"
    BY <1>4, Roles, Zenon DEF Places, StopBegin, Goto, Resting
  <2> QED
    BY <1>4, <2>1, EndingKept, Zenon DEF StopBegin, Goto, Resting
<1>5. ASSUME NEW p \in Procs, Statement(p) PROVE Ending'
  <2>1. p \in Users
    BY <1>5, OfUsers, Zenon DEF UserPlaces, Statement
  <2> QED
    BY <1>5, <2>1, Roles, HandleAssumption DEF Ending, Recorded, Numbered, Txs, Goto, Statement,
       Request
<1>6. ASSUME NEW p \in Procs, Done(p) PROVE Ending'
  <2>1. p \in Users
    BY <1>6, OfUsers, Zenon DEF UserPlaces, Done
  <2> QED
    BY <1>6, <2>1, Roles, HandleAssumption DEF Ending, Recorded, Numbered, Txs, Goto, Done,
       Finish, Forget, Result
<1>7. ASSUME NEW p \in Procs, Declined(p) PROVE Ending'
  <2>1. p \in Users
    BY <1>7, OfUsers, Zenon DEF UserPlaces, Declined
  <2> QED
    BY <1>7, <2>1, Roles, HandleAssumption DEF Ending, Recorded, Numbered, Txs, Goto, Declined,
       Finish, Resting
<1>8. ASSUME NEW p \in Procs, BeginTx(p) PROVE Ending'
  <2>1. p \in Users
    BY <1>8, OfUsers, Zenon DEF UserPlaces, BeginTx
  <2> QED
    BY <1>8, <2>1, Roles, HandleAssumption DEF Ending, Recorded, Numbered, Txs, Goto, BeginTx,
       Request
<1>9. ASSUME NEW p \in Procs, Registered(p) PROVE Ending'
  <2>1. p \in Users
    BY <1>9, OfUsers, Zenon DEF UserPlaces, Registered
  <2> QED
    BY <1>9, <2>1, Roles, HandleAssumption, Zenon DEF Ending, Recorded, Numbered, Txs, Goto,
       Registered, Finish, Forget, Result
<1>10. ASSUME NEW p \in Procs, Overtaken(p) PROVE Ending'
  <2>1. p \in Users
    BY <1>10, OfUsers, Zenon DEF UserPlaces, Overtaken
  <2>2. /\ tx[p] = begun /\ begun \in Txs /\ begun \notin given
        /\ \A v \in Users : pc[v] = "begun" => v = p
    BY <1>10, <2>1, HandleAssumption DEF Overtaken, Numbered, Recorded, Txs
  <2>3. ended' = [ended EXCEPT ![begun] = 1]
    <3>1. ended[begun] = 0
      BY <1>10, <2>1, Zenon DEF Overtaken, Ending
    <3> QED
      BY <1>10, <2>2, <3>1, EndRequest, Zenon DEF Overtaken
  <2>4. \A v \in Users : pc'[v] # "begun"
    BY <1>10, <2>1, <2>2 DEF Overtaken, Request, Goto, Places
  <2>5. begun' = begun /\ given' = given /\ terminal' = terminal
    BY <1>10, Zenon DEF Overtaken
  <2> QED
    BY <2>2, <2>3, <2>4, <2>5 DEF Ending, Recorded, Txs
<1>11. ASSUME NEW p \in Procs, BeginFailed(p) PROVE Ending'
  <2>1. p \in Users
    BY <1>11, OfUsers, Zenon DEF UserPlaces, BeginFailed
  <2> QED
    BY <1>11, <2>1, Roles, HandleAssumption DEF Ending, Recorded, Numbered, Txs, Goto,
       BeginFailed, Finish, Forget, Result
<1>12. ASSUME NEW p \in Procs, EndTx(p) PROVE Ending'
  <2>1. p \in Users
    BY <1>12, OfUsers, Zenon DEF UserPlaces, EndTx
  <2> QED
    BY <1>12, <2>1, Roles, HandleAssumption DEF Ending, Recorded, Numbered, Txs, Goto, EndTx,
       Request
<1>13. ASSUME NEW p \in Procs, TxEnded(p) PROVE Ending'
  <2>1. p \in Users
    BY <1>13, OfUsers, Zenon DEF UserPlaces, TxEnded
  <2> QED
    BY <1>13, <2>1, Roles, HandleAssumption DEF Ending, Recorded, Numbered, Txs, Goto, TxEnded,
       Finish, Forget, Result
<1>14. ASSUME NEW p \in Procs, DrainTx(p) PROVE Ending'
  <2>1. PICK t \in todo[p] \ terminal :
          terminal' = terminal \cup {t} /\ Request(p, "rollback", t, pc[p])
    BY <1>14, Zenon DEF DrainTx
  <2>2. t \in given /\ t \in Txs
    BY <2>1, HandleAssumption DEF Recorded, Txs
  <2>3. ended' = [ended EXCEPT ![t] = 1]
    <3>1. ended[t] = 0
      BY <2>1, <2>2, Zenon DEF Ending
    <3> QED
      BY <2>1, <2>2, <3>1, EndRequest, Zenon
  <2>4. \A v \in Users : pc'[v] = pc[v]
    BY <2>1, Zenon DEF Request, Goto, Places
  <2>5. begun' = begun /\ given' = given
    BY <1>14, Zenon DEF DrainTx
  <2>6. \A v \in Users : pc[v] = "begun" => begun # t
    BY <2>2, Zenon DEF Numbered
  <2> QED
    BY <2>1, <2>2, <2>3, <2>4, <2>5, <2>6 DEF Ending, Recorded, Txs
<1>15. ASSUME NEW p \in Procs, DrainedTx(p) PROVE Ending'
  <2>1. \A v \in Users : pc'[v] = "begun" => pc[v] = "begun"
    BY <1>15, Roles, Zenon DEF Places, DrainedTx, Goto, Forget
  <2> QED
    BY <1>15, <2>1, EndingKept, Zenon DEF DrainedTx, Goto, Forget
<1>16. ASSUME SleepDrained(Sleeper) PROVE Ending'
  <2>1. \A v \in Users : pc'[v] = "begun" => pc[v] = "begun"
    BY <1>16, Roles, Zenon DEF Places, SleepDrained, Goto, Resting
  <2> QED
    BY <1>16, <2>1, EndingKept, Zenon DEF SleepDrained, Goto, Resting
<1>17. ASSUME SleepFailed(Sleeper) PROVE Ending'
  <2>1. \A v \in Users : pc'[v] = "begun" => pc[v] = "begun"
    BY <1>17, Roles, Zenon DEF Places, SleepFailed, Goto, Resting
  <2> QED
    BY <1>17, <2>1, EndingKept, Zenon DEF SleepFailed, Goto, Resting
<1>18. ASSUME SleepAccepted(Sleeper) PROVE Ending'
  <2>1. \A v \in Users : pc'[v] = "begun" => pc[v] = "begun"
    BY <1>18, Roles, Zenon DEF Places, SleepAccepted, Goto, Resting
  <2> QED
    BY <1>18, <2>1, EndingKept, Zenon DEF SleepAccepted, Goto, Resting
<1>19. ASSUME NEW c \in Closers, CloseTransport(c) PROVE Ending'
  <2>1. \A v \in Users : pc'[v] = "begun" => pc[v] = "begun"
    BY <1>19, Roles, Zenon DEF Places, CloseTransport, Goto, Resting
  <2> QED
    BY <1>19, <2>1, EndingKept, Zenon DEF CloseTransport, Goto, Resting
<1>20. ASSUME NEW c \in Closers, CloseBackend(c) PROVE Ending'
  <2>1. \A v \in Users : pc'[v] = "begun" => pc[v] = "begun"
    BY <1>20, Roles, Zenon DEF Places, CloseBackend, Closed, Goto
  <2> QED
    BY <1>20, <2>1, EndingKept, Zenon DEF CloseBackend, Closed, Goto
<1>21. ASSUME NEW c \in Closers, CloseWaited(c) PROVE Ending'
  <2>1. \A v \in Users : pc'[v] = "begun" => pc[v] = "begun"
    BY <1>21, Roles, Zenon DEF Places, CloseWaited, Closed, Goto, Resting
  <2> QED
    BY <1>21, <2>1, EndingKept, Zenon DEF CloseWaited, Closed, Goto, Resting
<1>22. ASSUME NEW c \in Closers, DestroyIntent(c) PROVE Ending'
  <2>1. \A v \in Users : pc'[v] = "begun" => pc[v] = "begun"
    BY <1>22, Roles, Zenon DEF Places, DestroyIntent, Goto, Resting
  <2> QED
    BY <1>22, <2>1, EndingKept, Zenon DEF DestroyIntent, Goto, Resting
<1>23. ASSUME \/ \E p \in Procs : Write(p) \/ WriteNotStarted(p) \/ WriteBroken(p)
                   \/ WaitCancelled(p) \/ DrainSkip(p)
              \/ Answer \/ ReadBroken
              \/ UNCHANGED vars
      PROVE  UNCHANGED <<terminal, begun, given, pc, ended>>
  BY <1>23, Zenon DEF Write, Result, Message, WriteNotStarted, WriteBroken, CloseClient,
         WaitCancelled, LeftBehind, DrainSkip, Resting, Answer, ReadBroken, vars
<1>24. CASE \/ \E p \in Procs : Write(p) \/ WriteNotStarted(p) \/ WriteBroken(p)
                 \/ WaitCancelled(p) \/ DrainSkip(p)
            \/ Answer \/ ReadBroken
            \/ UNCHANGED vars
  BY <1>23, <1>24, Zenon DEF Ending, Recorded, Numbered, Txs, Draining
<1> QED
  BY <1>1, <1>2, <1>3, <1>4, <1>5, <1>6, <1>7, <1>8, <1>9, <1>10, <1>11, <1>12,
     <1>13, <1>14, <1>15, <1>16, <1>17, <1>18, <1>19, <1>20, <1>21, <1>22, <1>24, Steps, Zenon

\* Behind a fence or a close no operation is admitted and no transaction is
\* registered: beginOperation and the second check of Begin.
LEMMA NoAdmission ==
  ASSUME Places, closing \/ sleepPrepared, [Next]_vars
  PROVE  Inside' \subseteq Inside /\ transactions' \subseteq transactions
<1> USE DEF dbVars, contextVars, procVars, requestVars, clientVars
<1>1. ASSUME NEW u \in Users, Admit(u)
      PROVE  Inside' \subseteq Inside /\ transactions' \subseteq transactions
  BY <1>1, Zenon DEF Admit, BeginOperation
<1>2. ASSUME NEW p \in Procs, Registered(p)
      PROVE  Inside' \subseteq Inside /\ transactions' \subseteq transactions
  BY <1>2, Zenon DEF Registered
<1>3. ASSUME NEW p \in Procs, Write(p) \/ WriteNotStarted(p) \/ WriteBroken(p)
      PROVE  Inside' \subseteq Inside /\ transactions' \subseteq transactions
  BY <1>3, Roles, Zenon DEF Write, Result, Message, WriteNotStarted, WriteBroken,
           CloseClient, Inside, Places, Draining
<1>4. ASSUME NEW p \in Procs, WaitCancelled(p) \/ Statement(p) \/ Done(p)
      PROVE  Inside' \subseteq Inside /\ transactions' \subseteq transactions
  BY <1>4, Roles, Zenon DEF WaitCancelled, LeftBehind, Result, Statement, Request, Goto,
           Done, Finish, Forget, Inside, Places, Draining
<1>5. ASSUME NEW p \in Procs, Declined(p) \/ BeginTx(p) \/ Overtaken(p)
      PROVE  Inside' \subseteq Inside /\ transactions' \subseteq transactions
  BY <1>5, Roles, Zenon DEF Declined, Resting, Finish, Goto, BeginTx, Request, Overtaken,
           Inside, Places, Draining
<1>6. ASSUME NEW p \in Procs, BeginFailed(p) \/ EndTx(p) \/ TxEnded(p)
      PROVE  Inside' \subseteq Inside /\ transactions' \subseteq transactions
  BY <1>6, Roles, Zenon DEF BeginFailed, Finish, Goto, Forget, Result, EndTx, Request,
           TxEnded, Inside, Places, Draining
<1>7. ASSUME NEW p \in Procs, DrainSkip(p) \/ DrainTx(p) \/ DrainedTx(p)
      PROVE  Inside' \subseteq Inside /\ transactions' \subseteq transactions
  BY <1>7, Roles, Zenon DEF DrainSkip, Resting, DrainTx, Request, Goto, DrainedTx, Forget,
           Result, Inside, Places, Draining
<1>8. ASSUME NEW c \in Closers, DestroyBegin(c) \/ StopBegin(c) \/ CloseTransport(c)
      PROVE  Inside' \subseteq Inside /\ transactions' \subseteq transactions
  BY <1>8, Roles, Zenon DEF DestroyBegin, Goto, Resting, StopBegin, CloseTransport,
           Inside, Places, Draining
<1>9. ASSUME NEW c \in Closers, CloseBackend(c) \/ CloseWaited(c)
                 \/ DestroyIntent(c)
      PROVE  Inside' \subseteq Inside /\ transactions' \subseteq transactions
  BY <1>9, Roles, Zenon DEF CloseBackend, CloseClient, Drained, Goto, Closed, CloseWaited,
           Resting, DestroyIntent, Inside, Places, Draining
<1>10. ASSUME SleepBegin(Sleeper) \/ SleepDrained(Sleeper) \/ SleepFailed(Sleeper)
      PROVE  Inside' \subseteq Inside /\ transactions' \subseteq transactions
  BY <1>10, Roles, Zenon DEF SleepBegin, Goto, Resting, SleepDrained, Drained,
           SleepFailed, Inside, Places, Draining
<1>11. ASSUME SleepAccepted(Sleeper)
      PROVE  Inside' \subseteq Inside /\ transactions' \subseteq transactions
  BY <1>11, Roles, Zenon DEF SleepAccepted, Goto, Resting, Inside, Places, Draining
<1>12. ASSUME Answer \/ ReadBroken
      PROVE  Inside' \subseteq Inside /\ transactions' \subseteq transactions
  BY <1>12, Roles, Zenon DEF Answer, Result, ReadBroken, CloseClient, Inside, Places,
           Draining
<1>13. ASSUME UNCHANGED vars
      PROVE  Inside' \subseteq Inside /\ transactions' \subseteq transactions
  BY <1>13, Roles, Zenon DEF vars, Inside, Places, Draining
<1> QED
  BY <1>1, <1>2, <1>3, <1>4, <1>5, <1>6, <1>7, <1>8, <1>9, <1>10, <1>11, <1>12,
     <1>13, Steps, Zenon

\* A step that leaves the fence and the Sleep alone keeps Fenced.
LEMMA FencedKept ==
  ASSUME Fenced, Places, [Next]_vars,
         UNCHANGED <<sleepPrepared, asleep, closing>>,
         pc'[Sleeper] = pc[Sleeper] \/ {pc[Sleeper], pc'[Sleeper]} \subseteq Draining
  PROVE  Fenced'
<1>1. closing \/ sleepPrepared =>
        Inside' \subseteq Inside /\ transactions' \subseteq transactions
  BY NoAdmission, Zenon
<1> QED
  BY <1>1, Zenon DEF Fenced, Draining

\* Every handler keeps what the fence of Sleep established
\* (fenceSQLiteAndRequestSleep), a close that overtakes it included.
LEMMA FencedStep ==
  ASSUME Fenced, Closing, RolledBack, active = 0 => Inside = {}, Places, [Next]_vars
  PROVE  Fenced'
<1> USE DEF dbVars, contextVars, procVars, requestVars, clientVars
<1>1. ASSUME SleepBegin(Sleeper) PROVE Fenced'
  <2>1. Inside' = Inside /\ transactions' = transactions /\ asleep' = asleep /\ closing' = closing
    BY <1>1, Roles DEF SleepBegin, Goto, Inside, Places
  <2> QED
    BY <1>1, <2>1, Roles DEF SleepBegin, Goto, Fenced, Places
<1>2. ASSUME SleepDrained(Sleeper) PROVE Fenced'
  <2>1. Inside' = Inside /\ UNCHANGED <<transactions, sleepPrepared, asleep, closing>>
    BY <1>2, Roles, Zenon DEF SleepDrained, Goto, Inside, Places
  <2>2. Inside = {}
    BY <1>2, Zenon DEF SleepDrained, Drained
  <2>3. closing \/ transactions = {}
    <3> SUFFICES ASSUME ~closing, NEW t \in transactions PROVE FALSE
      BY Zenon
    <3>1. t \in terminal
      BY <1>2, Roles, Zenon DEF SleepDrained, Drained, RolledBack
    <3>2. PICK p \in Procs : Removes(p, t)
      BY <3>1, Zenon DEF RolledBack
    <3>3. p \notin Users
      BY <2>2, <3>2, Zenon DEF Removes, Inside, Draining
    <3>4. p # Sleeper
      BY <1>2, <3>2, Zenon DEF Removes, SleepDrained, Drained
    <3>5. p \in Closers /\ pc[p] \in Draining
      BY <3>2, <3>3, <3>4, Zenon DEF Removes, Procs, Places
    <3> QED
      BY <3>5, Roles, Zenon DEF Closing
  <2> QED
    BY <1>2, <2>1, <2>2, <2>3, Roles DEF SleepDrained, Goto, Fenced, Places
<1>3. ASSUME SleepFailed(Sleeper) PROVE Fenced'
  <2>1. Inside' = Inside /\ UNCHANGED <<transactions, asleep, closing>>
    BY <1>3, Roles, Zenon DEF SleepFailed, Goto, Inside, Places
  <2> QED
    BY <1>3, <2>1, Roles DEF SleepFailed, Drained, Goto, Fenced, Places
<1>4. ASSUME SleepAccepted(Sleeper) PROVE Fenced'
  <2>1. Inside' = Inside /\ UNCHANGED <<transactions, sleepPrepared, closing>>
    BY <1>4, Roles, Zenon DEF SleepAccepted, Goto, Inside, Places
  <2> QED
    BY <1>4, <2>1, Roles DEF SleepAccepted, Goto, Fenced, Places
<1>5. ASSUME NEW c \in Closers, CloseTransport(c) PROVE Fenced'
  <2>1. Inside' = Inside /\ UNCHANGED <<transactions, sleepPrepared, asleep>>
        /\ pc'[Sleeper] = pc[Sleeper]
    BY <1>5, Roles, Zenon DEF CloseTransport, Goto, Inside, Places
  <2>2. closing' = TRUE \/ closing' = closing
    BY <1>5, Zenon DEF CloseTransport
  <2> QED
    BY <2>1, <2>2, Zenon DEF Fenced, Places
<1>6. ASSUME NEW u \in Users, Admit(u)
      PROVE  Fenced'
  <2>1. /\ sleepPrepared' = sleepPrepared /\ asleep' = asleep /\ closing' = closing
        /\ pc'[Sleeper] = pc[Sleeper] \/ {pc[Sleeper], pc'[Sleeper]} \subseteq Draining
    BY <1>6, Roles, Zenon DEF Admit, BeginOperation, Goto, Resting, Places, Draining
  <2> QED
    BY <2>1, FencedKept, Zenon
<1>7. ASSUME NEW p \in Procs, Write(p) \/ WriteNotStarted(p) \/ WriteBroken(p)
                 \/ WaitCancelled(p)
      PROVE  Fenced'
  <2>1. /\ sleepPrepared' = sleepPrepared /\ asleep' = asleep /\ closing' = closing
        /\ pc'[Sleeper] = pc[Sleeper] \/ {pc[Sleeper], pc'[Sleeper]} \subseteq Draining
    BY <1>7, Roles, Zenon DEF Write, Result, Message, WriteNotStarted, WriteBroken,
           CloseClient, WaitCancelled, LeftBehind, Places, Draining
  <2> QED
    BY <2>1, FencedKept, Zenon
<1>8. ASSUME NEW p \in Procs, Statement(p) \/ Done(p) \/ Declined(p) \/ BeginTx(p)
      PROVE  Fenced'
  <2>1. /\ sleepPrepared' = sleepPrepared /\ asleep' = asleep /\ closing' = closing
        /\ pc'[Sleeper] = pc[Sleeper] \/ {pc[Sleeper], pc'[Sleeper]} \subseteq Draining
    BY <1>8, Roles, Zenon DEF Statement, Request, Goto, Done, Finish, Forget, Result,
           Declined, Resting, BeginTx, Places, Draining
  <2> QED
    BY <2>1, FencedKept
<1>9. ASSUME NEW p \in Procs, Registered(p) \/ Overtaken(p) \/ BeginFailed(p)
                 \/ EndTx(p)
      PROVE  Fenced'
  <2>1. /\ sleepPrepared' = sleepPrepared /\ asleep' = asleep /\ closing' = closing
        /\ pc'[Sleeper] = pc[Sleeper] \/ {pc[Sleeper], pc'[Sleeper]} \subseteq Draining
    BY <1>9, Roles, Zenon DEF Registered, Finish, Goto, Forget, Result, Overtaken, Request,
           BeginFailed, EndTx, Places, Draining
  <2> QED
    BY <2>1, FencedKept
<1>10. ASSUME NEW p \in Procs, TxEnded(p) \/ DrainSkip(p) \/ DrainTx(p)
                 \/ DrainedTx(p)
      PROVE  Fenced'
  <2>1. /\ sleepPrepared' = sleepPrepared /\ asleep' = asleep /\ closing' = closing
        /\ pc'[Sleeper] = pc[Sleeper] \/ {pc[Sleeper], pc'[Sleeper]} \subseteq Draining
    BY <1>10, Roles, Zenon DEF TxEnded, Finish, Goto, Forget, Result, DrainSkip, Resting,
           DrainTx, Request, DrainedTx, Places, Draining
  <2> QED
    BY <2>1, FencedKept
<1>11. ASSUME NEW c \in Closers, DestroyBegin(c) \/ StopBegin(c) \/ CloseBackend(c)
                 \/ CloseWaited(c)
      PROVE  Fenced'
  <2>1. /\ sleepPrepared' = sleepPrepared /\ asleep' = asleep /\ closing' = closing
        /\ pc'[Sleeper] = pc[Sleeper] \/ {pc[Sleeper], pc'[Sleeper]} \subseteq Draining
    BY <1>11, Roles, Zenon DEF DestroyBegin, Goto, Resting, StopBegin, CloseBackend,
           CloseClient, Drained, Closed, CloseWaited, Places, Draining
  <2> QED
    BY <2>1, FencedKept
<1>12. ASSUME NEW c \in Closers, DestroyIntent(c)
      PROVE  Fenced'
  <2>1. /\ sleepPrepared' = sleepPrepared /\ asleep' = asleep /\ closing' = closing
        /\ pc'[Sleeper] = pc[Sleeper] \/ {pc[Sleeper], pc'[Sleeper]} \subseteq Draining
    BY <1>12, Roles, Zenon DEF DestroyIntent, Goto, Resting, Places, Draining
  <2> QED
    BY <2>1, FencedKept
<1>13. ASSUME Answer \/ ReadBroken
      PROVE  Fenced'
  <2>1. /\ sleepPrepared' = sleepPrepared /\ asleep' = asleep /\ closing' = closing
        /\ pc'[Sleeper] = pc[Sleeper] \/ {pc[Sleeper], pc'[Sleeper]} \subseteq Draining
    BY <1>13, Roles, Zenon DEF Answer, Result, ReadBroken, CloseClient, Places, Draining
  <2> QED
    BY <2>1, FencedKept, Zenon
<1>14. ASSUME UNCHANGED vars
      PROVE  Fenced'
  <2>1. /\ sleepPrepared' = sleepPrepared /\ asleep' = asleep /\ closing' = closing
        /\ pc'[Sleeper] = pc[Sleeper] \/ {pc[Sleeper], pc'[Sleeper]} \subseteq Draining
    BY <1>14, Roles, Zenon DEF vars, Places, Draining
  <2> QED
    BY <2>1, FencedKept
<1> QED
  BY <1>1, <1>2, <1>3, <1>4, <1>5, <1>6, <1>7, <1>8, <1>9, <1>10, <1>11, <1>12,
     <1>13, <1>14, Steps, ZenonT(30)

\* A step that is not one of closeTransport's keeps Closing.
LEMMA ClosingKept ==
  ASSUME Closing, Places, [Next]_vars,
         UNCHANGED <<closing, closer, closeDone>>,
         closed => closed', terminal \subseteq terminal',
         \A d \in Closers : pc'[d] \in Draining => pc[d] \in Draining
  PROVE  Closing'
<1>1. closing => Inside' \subseteq Inside /\ transactions' \subseteq transactions
  BY NoAdmission, Zenon
<1> QED
  BY <1>1, Zenon DEF Closing

\* Every handler keeps the close's promise: one closer, and nothing admitted
\* or open when it is done (closeTransport).
LEMMA ClosingStep ==
  ASSUME Closing, RolledBack, active = 0 => Inside = {}, Places, [Next]_vars
  PROVE  Closing'
<1> USE DEF dbVars, contextVars, procVars, requestVars, clientVars
<1>1. ASSUME SleepFailed(Sleeper) PROVE Closing'
  <2>1. UNCHANGED <<closing, closer, closeDone, terminal, closed>>
    BY <1>1, Zenon DEF SleepFailed, Resting
  <2>2. \A d \in Closers : pc'[d] \in Draining => pc[d] \in Draining
    BY <1>1, Roles, Zenon DEF SleepFailed, Goto, Places
  <2> QED
    BY <2>1, <2>2, ClosingKept, Zenon
<1>2. ASSUME SleepAccepted(Sleeper) PROVE Closing'
  <2>1. UNCHANGED <<closing, closer, closeDone, terminal, closed>>
    BY <1>2, Zenon DEF SleepAccepted, Resting
  <2>2. \A d \in Closers : pc'[d] \in Draining => pc[d] \in Draining
    BY <1>2, Roles, Zenon DEF SleepAccepted, Goto, Places
  <2> QED
    BY <2>1, <2>2, ClosingKept
<1>3. ASSUME NEW c \in Closers, CloseTransport(c) PROVE Closing'
  <2>1. Inside' = Inside /\ UNCHANGED <<transactions, terminal, closeDone, closed>>
    BY <1>3, Roles, Zenon DEF CloseTransport, Goto, Resting, Inside, Places
  <2>2. CASE closer = Nobody
    BY <1>3, <2>1, <2>2, Roles DEF CloseTransport, Goto, Closing, Places, Draining
  <2>3. CASE closer # Nobody
    BY <1>3, <2>1, <2>3, Roles DEF CloseTransport, Goto, Closing, Places, Draining
  <2> QED
    BY <2>2, <2>3, Zenon
<1>4. ASSUME NEW c \in Closers, CloseBackend(c) PROVE Closing'
  <2>1. Inside' = Inside /\ UNCHANGED <<transactions, terminal, closer, closing>> /\ closed'
    BY <1>4, Roles, Zenon DEF CloseBackend, CloseClient, Goto, Closed, Inside, Places
  <2>2. Inside = {}
    BY <1>4, Zenon DEF CloseBackend, Drained
  <2>3. closing /\ transactions \subseteq terminal
    BY <1>4, Roles, Zenon DEF CloseBackend, Drained, Closing, RolledBack, Places
  <2>4. \A d \in Closers : pc'[d] \in Draining => pc[d] \in Draining
    BY <1>4, Roles, Zenon DEF CloseBackend, Closed, Goto, Places, Draining
  <2> QED
    BY <2>1, <2>2, <2>3, <2>4, Zenon DEF Closing
<1>5. ASSUME NEW u \in Users, Admit(u)
      PROVE  Closing'
  <2>1. /\ closing' = closing /\ closer' = closer /\ closeDone' = closeDone
        /\ (closed => closed') /\ terminal \subseteq terminal'
        /\ \A d \in Closers : pc'[d] \in Draining => pc[d] \in Draining
    BY <1>5, Roles DEF Admit, BeginOperation, Goto, Resting, Places, Draining
  <2> QED
    BY <2>1, ClosingKept, ZenonT(30)
<1>6. ASSUME NEW p \in Procs, Write(p) \/ WriteNotStarted(p)
      PROVE  Closing'
  <2>1. /\ closing' = closing /\ closer' = closer /\ closeDone' = closeDone
        /\ (closed => closed') /\ terminal \subseteq terminal'
        /\ \A d \in Closers : pc'[d] \in Draining => pc[d] \in Draining
    BY <1>6, Roles DEF Write, Result, Message, WriteNotStarted, Places, Draining
  <2> QED
    BY <2>1, ClosingKept, Zenon
<1>7. ASSUME NEW p \in Procs, WriteBroken(p) \/ WaitCancelled(p)
      PROVE  Closing'
  <2>1. /\ closing' = closing /\ closer' = closer /\ closeDone' = closeDone
        /\ (closed => closed') /\ terminal \subseteq terminal'
        /\ \A d \in Closers : pc'[d] \in Draining => pc[d] \in Draining
    BY <1>7, Roles DEF WriteBroken, CloseClient, WaitCancelled, LeftBehind, Result,
           Places, Draining
  <2> QED
    BY <2>1, ClosingKept
<1>8. ASSUME NEW p \in Procs, Statement(p) \/ Done(p)
      PROVE  Closing'
  <2>1. /\ closing' = closing /\ closer' = closer /\ closeDone' = closeDone
        /\ (closed => closed') /\ terminal \subseteq terminal'
        /\ \A d \in Closers : pc'[d] \in Draining => pc[d] \in Draining
    BY <1>8, Roles, SMTT(30) DEF Statement, Request, Goto, Done, Finish, Forget, Result,
           Places, Draining
  <2> QED
    BY <2>1, ClosingKept
<1>9. ASSUME NEW p \in Procs, Declined(p) \/ BeginTx(p)
      PROVE  Closing'
  <2>1. UNCHANGED <<closing, closer, closeDone, terminal, closed>>
    BY <1>9, Zenon DEF Declined, Resting, Finish, BeginTx, Request
  <2>2. pc' \in {[pc EXCEPT ![p] = "idle"], [pc EXCEPT ![p] = "begun"]}
    BY <1>9, Zenon DEF Declined, Finish, Goto, BeginTx, Request
  <2>3. \A d \in Closers : pc'[d] \in Draining => pc[d] \in Draining
    BY <2>2, Roles DEF Places, Draining
  <2> QED
    BY <2>1, <2>3, ClosingKept, Zenon
<1>10. ASSUME NEW p \in Procs, Registered(p) \/ Overtaken(p)
      PROVE  Closing'
  <2>1. /\ closing' = closing /\ closer' = closer /\ closeDone' = closeDone
        /\ (closed => closed') /\ terminal \subseteq terminal'
        /\ \A d \in Closers : pc'[d] \in Draining => pc[d] \in Draining
    BY <1>10, Roles DEF Registered, Finish, Goto, Forget, Result, Overtaken, Request,
           Places, Draining
  <2> QED
    BY <2>1, ClosingKept
<1>11. ASSUME NEW p \in Procs, BeginFailed(p) \/ EndTx(p)
      PROVE  Closing'
  <2>1. /\ closing' = closing /\ closer' = closer /\ closeDone' = closeDone
        /\ (closed => closed') /\ terminal \subseteq terminal'
        /\ \A d \in Closers : pc'[d] \in Draining => pc[d] \in Draining
    BY <1>11, Roles DEF BeginFailed, Finish, Goto, Forget, Result, EndTx, Request,
           Places, Draining
  <2> QED
    BY <2>1, ClosingKept
<1>12. ASSUME NEW p \in Procs, TxEnded(p) \/ DrainSkip(p)
      PROVE  Closing'
  <2>1. /\ closing' = closing /\ closer' = closer /\ closeDone' = closeDone
        /\ (closed => closed') /\ terminal \subseteq terminal'
        /\ \A d \in Closers : pc'[d] \in Draining => pc[d] \in Draining
    BY <1>12, Roles DEF TxEnded, Finish, Goto, Forget, Result, DrainSkip, Resting,
           Places, Draining
  <2> QED
    BY <2>1, ClosingKept
<1>13. ASSUME NEW p \in Procs, DrainTx(p) \/ DrainedTx(p)
      PROVE  Closing'
  <2>1. /\ closing' = closing /\ closer' = closer /\ closeDone' = closeDone
        /\ (closed => closed') /\ terminal \subseteq terminal'
        /\ \A d \in Closers : pc'[d] \in Draining => pc[d] \in Draining
    BY <1>13, Roles DEF DrainTx, Request, Goto, DrainedTx, Forget, Result, Places,
           Draining
  <2> QED
    BY <2>1, ClosingKept
<1>14. ASSUME NEW c \in Closers, DestroyBegin(c) \/ StopBegin(c)
      PROVE  Closing'
  <2>1. /\ closing' = closing /\ closer' = closer /\ closeDone' = closeDone
        /\ (closed => closed') /\ terminal \subseteq terminal'
        /\ \A d \in Closers : pc'[d] \in Draining => pc[d] \in Draining
    BY <1>14, Roles DEF DestroyBegin, Goto, Resting, StopBegin, Places, Draining
  <2> QED
    BY <2>1, ClosingKept, Zenon
<1>15. ASSUME NEW c \in Closers, CloseWaited(c) \/ DestroyIntent(c)
      PROVE  Closing'
  <2>1. /\ closing' = closing /\ closer' = closer /\ closeDone' = closeDone
        /\ (closed => closed') /\ terminal \subseteq terminal'
        /\ \A d \in Closers : pc'[d] \in Draining => pc[d] \in Draining
    BY <1>15, Roles DEF CloseWaited, Closed, Goto, Resting, DestroyIntent, Places,
           Draining
  <2> QED
    BY <2>1, ClosingKept
<1>16. ASSUME SleepBegin(Sleeper) \/ SleepDrained(Sleeper)
      PROVE  Closing'
  <2>1. /\ closing' = closing /\ closer' = closer /\ closeDone' = closeDone
        /\ (closed => closed') /\ terminal \subseteq terminal'
        /\ \A d \in Closers : pc'[d] \in Draining => pc[d] \in Draining
    BY <1>16, Roles DEF SleepBegin, Goto, Resting, SleepDrained, Drained, Places,
           Draining
  <2> QED
    BY <2>1, ClosingKept, Zenon
<1>17. ASSUME Answer \/ ReadBroken
      PROVE  Closing'
  <2>1. /\ closing' = closing /\ closer' = closer /\ closeDone' = closeDone
        /\ (closed => closed') /\ terminal \subseteq terminal'
        /\ \A d \in Closers : pc'[d] \in Draining => pc[d] \in Draining
    BY <1>17, Roles DEF Answer, Result, ReadBroken, CloseClient, Places, Draining
  <2> QED
    BY <2>1, ClosingKept
<1>18. ASSUME UNCHANGED vars
      PROVE  Closing'
  <2>1. /\ closing' = closing /\ closer' = closer /\ closeDone' = closeDone
        /\ (closed => closed') /\ terminal \subseteq terminal'
        /\ \A d \in Closers : pc'[d] \in Draining => pc[d] \in Draining
    BY <1>18, Roles, Zenon DEF vars, Places, Draining
  <2> QED
    BY <2>1, ClosingKept
<1> QED
  BY <1>1, <1>2, <1>3, <1>4, <1>5, <1>6, <1>7, <1>8, <1>9, <1>10, <1>11, <1>12,
     <1>13, <1>14, <1>15, <1>16, <1>17, <1>18, Steps, SMTT(30)

\* A step that takes no snapshot and ends no transaction keeps RolledBack.
LEMMA RolledBackKept ==
  ASSUME RolledBack, UNCHANGED <<transactions, terminal, todo>>,
         \A q \in Procs : pc'[q] \in Draining => pc[q] \in Draining,
         \A q \in Procs, t \in terminal : Removes(q, t) => Removes(q, t)'
  PROVE  RolledBack'
  BY Zenon DEF RolledBack

\* Every handler keeps each drain's snapshot complete: a transaction is open
\* only if it is in the snapshot, terminal, or already someone's to remove.
LEMMA RolledBackStep ==
  ASSUME RolledBack, Fenced, Closing, Recorded, Numbered, Places, Waiting,
         [Next]_vars
  PROVE  RolledBack'
<1> USE DEF dbVars, contextVars, procVars, requestVars, clientVars
<1>1. ASSUME NEW u \in Users, Admit(u) PROVE RolledBack'
  <2>1. PICK place \in UserPlaces \ {"idle"}, t \in given \cup {0} : BeginOperation(u, place, t)
    BY <1>1, Zenon DEF Admit, UserPlaces
  <2>2. /\ pc[u] = "idle" /\ pc' = [pc EXCEPT ![u] = place] /\ tx' = [tx EXCEPT ![u] = t]
        /\ UNCHANGED <<transactions, terminal, todo, phase>>
    BY <2>1, Zenon DEF BeginOperation, Goto, Resting
  <2>3. \A q \in Procs, s \in terminal : Removes(q, s) => Removes(q, s)'
    BY <2>2, Zenon DEF Removes, Places, Numbered, Draining
  <2>4. \A q \in Procs : pc'[q] \in Draining => pc[q] \in Draining
    BY <2>2, Zenon DEF Places, Draining, UserPlaces
  <2> QED
    BY <2>2, <2>3, <2>4, RolledBackKept, Zenon
<1>2. ASSUME SleepBegin(Sleeper) PROVE RolledBack'
  <2>1. UNCHANGED <<transactions, terminal>>
    BY <1>2, Zenon DEF SleepBegin
  <2>2. \A q \in Procs, t \in terminal : Removes(q, t) => Removes(q, t)'
    BY <1>2, Roles, Zenon DEF SleepBegin, Goto, Resting, Removes, Places, Draining
  <2>3. CASE todo' = todo /\ pc'[Sleeper] \notin Draining
    BY <1>2, <2>1, <2>2, <2>3, Roles, Zenon DEF SleepBegin, Goto, RolledBack, Places
  <2>4. CASE todo' = [todo EXCEPT ![Sleeper] = transactions]
    BY <1>2, <2>1, <2>2, <2>4, Roles, Zenon DEF SleepBegin, Goto, RolledBack, Recorded, Places
  <2> QED
    BY <1>2, <2>3, <2>4, Roles, Zenon DEF SleepBegin, Goto, Places, Draining
<1>3. ASSUME NEW p \in Procs, Registered(p) PROVE RolledBack'
  <2>1. p \in Users
    BY <1>3, OfUsers, Zenon DEF UserPlaces, Registered
  <2>2. \A q \in Procs : pc[q] \notin Draining
    BY <1>3, Roles, Zenon DEF Registered, Procs, Places, UserPlaces, Draining, Fenced, Closing
  <2>3. tx[p] = begun /\ begun \notin terminal
    BY <1>3, <2>1, Zenon DEF Registered, Numbered
  <2>4. /\ transactions' = transactions \cup {begun} /\ terminal' = terminal
        /\ pc' = [pc EXCEPT ![p] = "idle"] /\ tx' = [tx EXCEPT ![p] = 0]
    BY <1>3, <2>3, Zenon DEF Registered, Finish, Goto, Forget
  <2>5. \A q \in Procs, t \in terminal : Removes(q, t) => Removes(q, t)'
    BY <1>3, <2>2, <2>4, Zenon DEF Registered, Removes, Places, Numbered
  <2> QED
    BY <2>2, <2>3, <2>4, <2>5, Zenon DEF RolledBack, Places, Draining
<1>4. ASSUME NEW p \in Procs, BeginFailed(p) PROVE RolledBack'
  <2>1. p \in Users
    BY <1>4, OfUsers, Zenon DEF UserPlaces, BeginFailed
  <2>2. tx[p] = begun /\ begun \notin transactions
    BY <1>4, <2>1, Zenon DEF BeginFailed, Numbered, Recorded
  <2>3. /\ transactions' = transactions /\ todo' = todo
        /\ terminal \subseteq terminal' /\ terminal' \subseteq terminal \cup {begun}
    BY <1>4, <2>2, Zenon DEF BeginFailed
  <2>4. \A q \in Procs, t \in terminal : Removes(q, t) => Removes(q, t)'
    BY <1>4 DEF BeginFailed, Finish, Goto, Forget, Result, Removes, Places, Draining
  <2>5. \A q \in Procs : pc'[q] \in Draining => pc[q] \in Draining
    BY <1>4, Zenon DEF BeginFailed, Finish, Goto, Places, Draining
  <2> QED
    BY <2>2, <2>3, <2>4, <2>5, Zenon DEF RolledBack
<1>5. ASSUME NEW p \in Procs, EndTx(p) PROVE RolledBack'
  <2>1. p \in Users
    BY <1>5, OfUsers, Zenon DEF UserPlaces, EndTx
  <2>2. /\ transactions' = transactions /\ terminal' = terminal \cup {tx[p]} /\ todo' = todo
        /\ pc' = [pc EXCEPT ![p] = "ended"] /\ tx' = tx /\ phase' = [phase EXCEPT ![p] = "write"]
    BY <1>5, Zenon DEF EndTx, Request, Goto, Numbered
  <2>3. Removes(p, tx[p])'
    BY <2>2, Zenon DEF Removes, Places, Numbered
  <2>4. \A q \in Procs, t \in terminal : Removes(q, t) => Removes(q, t)'
    BY <1>5, <2>2, Zenon DEF EndTx, Removes, Places, Draining
  <2> QED
    BY <2>2, <2>3, <2>4, Zenon DEF RolledBack, Places, Draining
<1>6. ASSUME NEW p \in Procs, TxEnded(p) PROVE RolledBack'
  <2>1. transactions' = transactions \ {tx[p]} /\ terminal' = terminal /\ todo' = todo
    BY <1>6, Zenon DEF TxEnded
  <2>2. \A q \in Procs, t \in terminal : t # tx[p] /\ Removes(q, t) => Removes(q, t)'
    BY <1>6, Zenon DEF TxEnded, Finish, Goto, Forget, Result, Removes, Places, Draining, Numbered
  <2>3. \A q \in Procs : pc'[q] \in Draining => pc[q] \in Draining
    BY <1>6, Zenon DEF TxEnded, Finish, Goto, Places, Draining
  <2> QED
    BY <2>1, <2>2, <2>3, Zenon DEF RolledBack
<1>7. ASSUME NEW p \in Procs, DrainSkip(p) PROVE RolledBack'
  <2>1. PICK t \in todo[p] \cap terminal : todo' = [todo EXCEPT ![p] = todo[p] \ {t}]
    BY <1>7, Zenon DEF DrainSkip
  <2>2. UNCHANGED <<transactions, terminal, pc, tx, phase>>
    BY <1>7, Zenon DEF DrainSkip, Resting
  <2>3. \A q \in Procs : todo[q] \ terminal \subseteq todo'[q]
    BY <2>1, Zenon DEF Recorded
  <2> QED
    BY <2>2, <2>3, Zenon DEF RolledBack, Removes
<1>8. ASSUME NEW p \in Procs, DrainTx(p) PROVE RolledBack'
  <2>1. PICK t \in todo[p] \ terminal :
          terminal' = terminal \cup {t} /\ Request(p, "rollback", t, pc[p])
    BY <1>8, Zenon DEF DrainTx
  <2>2. /\ transactions' = transactions /\ todo' = todo /\ pc' = pc
        /\ tx' = [tx EXCEPT ![p] = t] /\ phase' = [phase EXCEPT ![p] = "write"]
    BY <1>8, <2>1, Zenon DEF DrainTx, Request, Goto, Places
  <2>3. Removes(p, t)'
    BY <1>8, <2>2, Zenon DEF DrainTx, Removes, Places, Numbered
  <2>4. \A q \in Procs, s \in terminal : Removes(q, s) => Removes(q, s)'
    BY <1>8, <2>2, Zenon DEF DrainTx, Removes, Places, Numbered, Draining
  <2> QED
    BY <2>1, <2>2, <2>3, <2>4, Zenon DEF RolledBack
<1>9. ASSUME NEW p \in Procs, DrainedTx(p) PROVE RolledBack'
  <2>1. /\ transactions' = transactions \ {tx[p]} /\ terminal' = terminal
        /\ todo' = [todo EXCEPT ![p] = todo[p] \ {tx[p]}]
    BY <1>9, Zenon DEF DrainedTx
  <2>2. \A q \in Procs, t \in terminal : t # tx[p] /\ Removes(q, t) => Removes(q, t)'
    BY <1>9, Zenon DEF DrainedTx, Goto, Forget, Result, Removes, Places, Draining, Numbered
  <2>3. \A q \in Procs : pc'[q] \in Draining => pc[q] \in Draining
    BY <1>9, Zenon DEF DrainedTx, Goto, Places, Draining
  <2>4. \A q \in Procs : todo[q] \ {tx[p]} \subseteq todo'[q]
    BY <2>1, Zenon DEF Recorded
  <2> QED
    BY <2>1, <2>2, <2>3, <2>4, Zenon DEF RolledBack
<1>10. ASSUME NEW c \in Closers, CloseTransport(c) PROVE RolledBack'
  <2>1. UNCHANGED <<transactions, terminal>>
    BY <1>10, Zenon DEF CloseTransport
  <2>2. \A q \in Procs, t \in terminal : Removes(q, t) => Removes(q, t)'
    BY <1>10, Roles, Zenon DEF CloseTransport, Goto, Resting, Removes, Places, Draining
  <2>3. CASE todo' = todo /\ pc'[c] \notin Draining
    BY <1>10, <2>1, <2>2, <2>3, Roles, Zenon DEF CloseTransport, Goto, RolledBack, Places
  <2>4. CASE todo' = [todo EXCEPT ![c] = transactions]
    BY <1>10, <2>1, <2>2, <2>4, Roles, Zenon DEF CloseTransport, Goto, RolledBack, Recorded, Places
  <2> QED
    BY <1>10, <2>3, <2>4, Roles, Zenon DEF CloseTransport, Goto, Places, Draining
<1>11. ASSUME NEW p \in Procs, Write(p)
      PROVE  RolledBack'
  <2>1. /\ UNCHANGED <<transactions, terminal, todo>>
        /\ \A q \in Procs : pc'[q] \in Draining => pc[q] \in Draining
        /\ \A q \in Procs, t \in terminal : Removes(q, t) => Removes(q, t)'
    BY <1>11, Roles, ZenonT(30) DEF Write, Result, Message, Removes, Places, Draining, Returned
  <2> QED
    BY <2>1, RolledBackKept, Zenon
<1>12. ASSUME NEW p \in Procs, WriteNotStarted(p)
      PROVE  RolledBack'
  <2>1. /\ UNCHANGED <<transactions, terminal, todo>>
        /\ \A q \in Procs : pc'[q] \in Draining => pc[q] \in Draining
        /\ \A q \in Procs, t \in terminal : Removes(q, t) => Removes(q, t)'
    BY <1>12, Roles, Zenon DEF WriteNotStarted, Result, Removes, Places, Draining, Returned
  <2> QED
    BY <2>1, RolledBackKept
<1>13. ASSUME NEW p \in Procs, WriteBroken(p)
      PROVE  RolledBack'
  <2>1. /\ UNCHANGED <<transactions, terminal, todo>>
        /\ \A q \in Procs : pc'[q] \in Draining => pc[q] \in Draining
        /\ \A q \in Procs, t \in terminal : Removes(q, t) => Removes(q, t)'
    BY <1>13, Roles, Zenon DEF WriteBroken, CloseClient, Removes, Places, Draining,
           Returned
  <2> QED
    BY <2>1, RolledBackKept
<1>14. ASSUME NEW p \in Procs, WaitCancelled(p)
      PROVE  RolledBack'
  <2>1. /\ UNCHANGED <<transactions, terminal, todo>>
        /\ \A q \in Procs : pc'[q] \in Draining => pc[q] \in Draining
        /\ \A q \in Procs, t \in terminal : Removes(q, t) => Removes(q, t)'
    BY <1>14, Roles, ZenonT(30) DEF WaitCancelled, LeftBehind, Result, Removes, Places, Draining,
           Returned
  <2> QED
    BY <2>1, RolledBackKept
<1>15. ASSUME NEW p \in Procs, Statement(p)
      PROVE  RolledBack'
  <2>1. /\ UNCHANGED <<transactions, terminal, todo>>
        /\ \A q \in Procs : pc'[q] \in Draining => pc[q] \in Draining
        /\ \A q \in Procs, t \in terminal : Removes(q, t) => Removes(q, t)'
    BY <1>15, Roles DEF Statement, Request, Goto, Removes, Places, Draining,
           Returned
  <2> QED
    BY <2>1, RolledBackKept
<1>16. ASSUME NEW p \in Procs, Done(p)
      PROVE  RolledBack'
  <2>1. /\ UNCHANGED <<transactions, terminal, todo>>
        /\ \A q \in Procs : pc'[q] \in Draining => pc[q] \in Draining
        /\ \A q \in Procs, t \in terminal : Removes(q, t) => Removes(q, t)'
    BY <1>16, Roles DEF Done, Finish, Goto, Forget, Result, Removes, Places,
           Draining, Returned
  <2> QED
    BY <2>1, RolledBackKept
<1>17. ASSUME NEW p \in Procs, Declined(p)
      PROVE  RolledBack'
  <2>1. /\ UNCHANGED <<transactions, terminal, todo>>
        /\ \A q \in Procs : pc'[q] \in Draining => pc[q] \in Draining
        /\ \A q \in Procs, t \in terminal : Removes(q, t) => Removes(q, t)'
    BY <1>17, Roles, Zenon DEF Declined, Resting, Finish, Goto, Removes, Places, Draining,
           Returned
  <2> QED
    BY <2>1, RolledBackKept
<1>18. ASSUME NEW p \in Procs, BeginTx(p)
      PROVE  RolledBack'
  <2>1. /\ UNCHANGED <<transactions, terminal, todo>>
        /\ \A q \in Procs : pc'[q] \in Draining => pc[q] \in Draining
        /\ \A q \in Procs, t \in terminal : Removes(q, t) => Removes(q, t)'
    BY <1>18, Roles, SMTT(30) DEF BeginTx, Request, Goto, Removes, Places, Draining, Returned
  <2> QED
    BY <2>1, RolledBackKept
<1>19. ASSUME NEW p \in Procs, Overtaken(p)
      PROVE  RolledBack'
  <2>1. /\ UNCHANGED <<transactions, terminal, todo>>
        /\ \A q \in Procs : pc'[q] \in Draining => pc[q] \in Draining
        /\ \A q \in Procs, t \in terminal : Removes(q, t) => Removes(q, t)'
    BY <1>19, Roles DEF Overtaken, Request, Goto, Removes, Places, Draining,
           Returned
  <2> QED
    BY <2>1, RolledBackKept
<1>20. ASSUME NEW c \in Closers, DestroyBegin(c)
      PROVE  RolledBack'
  <2>1. /\ UNCHANGED <<transactions, terminal, todo>>
        /\ \A q \in Procs : pc'[q] \in Draining => pc[q] \in Draining
        /\ \A q \in Procs, t \in terminal : Removes(q, t) => Removes(q, t)'
    BY <1>20, Roles, Zenon DEF DestroyBegin, Goto, Resting, Removes, Places, Draining,
           Returned
  <2> QED
    BY <2>1, RolledBackKept, Zenon
<1>21. ASSUME NEW c \in Closers, StopBegin(c)
      PROVE  RolledBack'
  <2>1. /\ UNCHANGED <<transactions, terminal, todo>>
        /\ \A q \in Procs : pc'[q] \in Draining => pc[q] \in Draining
        /\ \A q \in Procs, t \in terminal : Removes(q, t) => Removes(q, t)'
    BY <1>21, Roles, Zenon DEF StopBegin, Goto, Resting, Removes, Places, Draining,
           Returned
  <2> QED
    BY <2>1, RolledBackKept
<1>22. ASSUME NEW c \in Closers, CloseBackend(c)
      PROVE  RolledBack'
  <2>1. /\ UNCHANGED <<transactions, terminal, todo>>
        /\ \A q \in Procs : pc'[q] \in Draining => pc[q] \in Draining
        /\ \A q \in Procs, t \in terminal : Removes(q, t) => Removes(q, t)'
    BY <1>22, Roles, Zenon DEF CloseBackend, CloseClient, Drained, Goto, Closed, Removes,
           Places, Draining, Returned
  <2> QED
    BY <2>1, RolledBackKept
<1>23. ASSUME NEW c \in Closers, CloseWaited(c)
      PROVE  RolledBack'
  <2>1. /\ UNCHANGED <<transactions, terminal, todo>>
        /\ \A q \in Procs : pc'[q] \in Draining => pc[q] \in Draining
        /\ \A q \in Procs, t \in terminal : Removes(q, t) => Removes(q, t)'
    BY <1>23, Roles, Zenon DEF CloseWaited, Closed, Goto, Resting, Removes, Places,
           Draining, Returned
  <2> QED
    BY <2>1, RolledBackKept
<1>24. ASSUME NEW c \in Closers, DestroyIntent(c)
      PROVE  RolledBack'
  <2>1. /\ UNCHANGED <<transactions, terminal, todo>>
        /\ \A q \in Procs : pc'[q] \in Draining => pc[q] \in Draining
        /\ \A q \in Procs, t \in terminal : Removes(q, t) => Removes(q, t)'
    BY <1>24, Roles, Zenon DEF DestroyIntent, Goto, Resting, Removes, Places, Draining,
           Returned
  <2> QED
    BY <2>1, RolledBackKept
<1>25. ASSUME SleepDrained(Sleeper)
      PROVE  RolledBack'
  <2>1. /\ UNCHANGED <<transactions, terminal, todo>>
        /\ \A q \in Procs : pc'[q] \in Draining => pc[q] \in Draining
        /\ \A q \in Procs, t \in terminal : Removes(q, t) => Removes(q, t)'
    BY <1>25, Roles, Zenon DEF SleepDrained, Drained, Goto, Resting, Removes, Places,
           Draining, Returned
  <2> QED
    BY <2>1, RolledBackKept, Zenon
<1>26. ASSUME SleepFailed(Sleeper)
      PROVE  RolledBack'
  <2>1. /\ UNCHANGED <<transactions, terminal, todo>>
        /\ \A q \in Procs : pc'[q] \in Draining => pc[q] \in Draining
        /\ \A q \in Procs, t \in terminal : Removes(q, t) => Removes(q, t)'
    BY <1>26, Roles, Zenon DEF SleepFailed, Drained, Goto, Resting, Removes, Places,
           Draining, Returned
  <2> QED
    BY <2>1, RolledBackKept
<1>27. ASSUME SleepAccepted(Sleeper)
      PROVE  RolledBack'
  <2>1. /\ UNCHANGED <<transactions, terminal, todo>>
        /\ \A q \in Procs : pc'[q] \in Draining => pc[q] \in Draining
        /\ \A q \in Procs, t \in terminal : Removes(q, t) => Removes(q, t)'
    BY <1>27, Roles, Zenon DEF SleepAccepted, Goto, Resting, Removes, Places, Draining,
           Returned
  <2> QED
    BY <2>1, RolledBackKept
<1>28. ASSUME Answer
      PROVE  RolledBack'
  <2>1. /\ UNCHANGED <<transactions, terminal, todo>>
        /\ \A q \in Procs : pc'[q] \in Draining => pc[q] \in Draining
        /\ \A q \in Procs, t \in terminal : Removes(q, t) => Removes(q, t)'
    BY <1>28, Roles, Zenon DEF Answer, Result, Removes, Places, Draining, Returned
  <2> QED
    BY <2>1, RolledBackKept
<1>29. ASSUME ReadBroken
      PROVE  RolledBack'
  <2>1. /\ UNCHANGED <<transactions, terminal, todo>>
        /\ \A q \in Procs : pc'[q] \in Draining => pc[q] \in Draining
        /\ \A q \in Procs, t \in terminal : Removes(q, t) => Removes(q, t)'
    BY <1>29, Roles, Zenon DEF ReadBroken, CloseClient, Removes, Places, Draining, Returned
  <2> QED
    BY <2>1, RolledBackKept
<1>30. ASSUME UNCHANGED vars
      PROVE  RolledBack'
  <2>1. /\ UNCHANGED <<transactions, terminal, todo>>
        /\ \A q \in Procs : pc'[q] \in Draining => pc[q] \in Draining
        /\ \A q \in Procs, t \in terminal : Removes(q, t) => Removes(q, t)'
    BY <1>30, Roles, Zenon DEF vars, Removes, Places, Draining, Returned
  <2> QED
    BY <2>1, RolledBackKept
<1> QED
  BY <1>1, <1>2, <1>3, <1>4, <1>5, <1>6, <1>7, <1>8, <1>9, <1>10, <1>11, <1>12,
     <1>13, <1>14, <1>15, <1>16, <1>17, <1>18, <1>19, <1>20, <1>21, <1>22, <1>23,
     <1>24, <1>25, <1>26, <1>27, <1>28, <1>29, <1>30, Steps, SMTT(30)

-----------------------------------------------------------------------------
(* The count of the admitted operations.                                   *)

INSTANCE FiniteSetTheorems

\* The drain's condition, active = 0, says that no user is inside.
LEMMA NoneInside == ASSUME Counted PROVE active = 0 => Inside = {}
  BY FS_EmptySet, Zenon DEF Counted

\* Every handler keeps DB.active the number of the users inside an operation:
\* beginOperation adds one and finishOperation, on every path, takes it away.
LEMMA CountedStep ==
  ASSUME Counted, Places, [Next]_vars
  PROVE  Counted'
<1> USE DEF dbVars, contextVars, procVars, requestVars, clientVars
<1>1. ASSUME NEW u \in Users, Admit(u) PROVE Counted'
  <2>1. Inside' = Inside \cup {u} /\ u \notin Inside /\ active' = active + 1
    <3>1. PICK place \in UserPlaces \ {"idle"}, t \in given \cup {0} : BeginOperation(u, place, t)
      BY <1>1, Zenon DEF Admit, UserPlaces
    <3>2. pc[u] = "idle" /\ pc' = [pc EXCEPT ![u] = place] /\ active' = active + 1
      BY <3>1, Zenon DEF BeginOperation, Goto
    <3> QED
      BY <3>2, Roles, Zenon DEF Inside, Places
  <2> QED
    BY <2>1, FS_AddElement, FS_CardinalityType, Zenon DEF Counted
<1>2. ASSUME NEW p \in Procs, Done(p) PROVE Counted'
  <2>1. Inside' = Inside \ {p} /\ p \in Inside /\ active' = active - 1
    BY <1>2, OfUsers DEF Done, Finish, Goto, Inside, Places, UserPlaces
  <2> QED
    BY <2>1, FS_RemoveElement, FS_CardinalityType, Zenon DEF Counted
<1>3. ASSUME NEW p \in Procs, Declined(p) PROVE Counted'
  <2>1. Inside' = Inside \ {p} /\ p \in Inside /\ active' = active - 1
    BY <1>3, OfUsers DEF Declined, Finish, Goto, Inside, Places, UserPlaces
  <2> QED
    BY <2>1, FS_RemoveElement, FS_CardinalityType DEF Counted
<1>4. ASSUME NEW p \in Procs, Registered(p) PROVE Counted'
  <2>1. Inside' = Inside \ {p} /\ p \in Inside /\ active' = active - 1
    BY <1>4, OfUsers DEF Registered, Finish, Goto, Inside, Places, UserPlaces
  <2> QED
    BY <2>1, FS_RemoveElement, FS_CardinalityType DEF Counted
<1>5. ASSUME NEW p \in Procs, BeginFailed(p) PROVE Counted'
  <2>1. Inside' = Inside \ {p} /\ p \in Inside /\ active' = active - 1
    BY <1>5, OfUsers DEF BeginFailed, Finish, Goto, Inside, Places, UserPlaces
  <2> QED
    BY <2>1, FS_RemoveElement, FS_CardinalityType DEF Counted
<1>6. ASSUME NEW p \in Procs, TxEnded(p) PROVE Counted'
  <2>1. Inside' = Inside \ {p} /\ p \in Inside /\ active' = active - 1
    BY <1>6, OfUsers DEF TxEnded, Finish, Goto, Inside, Places, UserPlaces
  <2> QED
    BY <2>1, FS_RemoveElement, FS_CardinalityType DEF Counted
<1>7. ASSUME NEW p \in Procs, Write(p) \/ WriteNotStarted(p) \/ WriteBroken(p)
      PROVE  Counted'
  <2>1. Inside' = Inside /\ active' = active
    BY <1>7, Roles, Zenon DEF Write, Result, Message, WriteNotStarted, WriteBroken,
           CloseClient, Inside, Places, Draining
  <2> QED
    BY <2>1, Zenon DEF Counted
<1>8. ASSUME NEW p \in Procs, WaitCancelled(p) \/ Statement(p) \/ BeginTx(p)
      PROVE  Counted'
  <2>1. Inside' = Inside /\ active' = active
    BY <1>8, Roles DEF WaitCancelled, LeftBehind, Result, Statement, Request, Goto,
           BeginTx, Inside, Places, Draining
  <2> QED
    BY <2>1 DEF Counted
<1>9. ASSUME NEW p \in Procs, Overtaken(p) \/ EndTx(p) \/ DrainSkip(p)
      PROVE  Counted'
  <2>1. Inside' = Inside /\ active' = active
    BY <1>9, Roles, SMTT(30) DEF Overtaken, Request, Goto, EndTx, DrainSkip, Resting, Inside,
           Places, Draining
  <2> QED
    BY <2>1 DEF Counted
<1>10. ASSUME NEW p \in Procs, DrainTx(p) \/ DrainedTx(p)
      PROVE  Counted'
  <2>1. Inside' = Inside /\ active' = active
    BY <1>10, Roles, ZenonT(30) DEF DrainTx, Request, Goto, DrainedTx, Forget, Result, Inside,
           Places, Draining
  <2> QED
    BY <2>1 DEF Counted
<1>11. ASSUME NEW c \in Closers, DestroyBegin(c) \/ StopBegin(c)
                 \/ CloseTransport(c)
      PROVE  Counted'
  <2>1. Inside' = Inside /\ active' = active
    BY <1>11, Roles DEF DestroyBegin, Goto, Resting, StopBegin, CloseTransport,
           Inside, Places, Draining
  <2> QED
    BY <2>1 DEF Counted
<1>12. ASSUME NEW c \in Closers, CloseBackend(c) \/ CloseWaited(c)
                 \/ DestroyIntent(c)
      PROVE  Counted'
  <2>1. Inside' = Inside /\ active' = active
    BY <1>12, Roles DEF CloseBackend, CloseClient, Drained, Goto, Closed,
           CloseWaited, Resting, DestroyIntent, Inside, Places, Draining
  <2> QED
    BY <2>1 DEF Counted
<1>13. ASSUME SleepBegin(Sleeper) \/ SleepDrained(Sleeper) \/ SleepFailed(Sleeper)
      PROVE  Counted'
  <2>1. Inside' = Inside /\ active' = active
    BY <1>13, Roles, ZenonT(30) DEF SleepBegin, Goto, Resting, SleepDrained, Drained,
           SleepFailed, Inside, Places, Draining
  <2> QED
    BY <2>1, Zenon DEF Counted
<1>14. ASSUME SleepAccepted(Sleeper)
      PROVE  Counted'
  <2>1. Inside' = Inside /\ active' = active
    BY <1>14, Roles, Zenon DEF SleepAccepted, Goto, Resting, Inside, Places, Draining
  <2> QED
    BY <2>1 DEF Counted
<1>15. ASSUME Answer \/ ReadBroken
      PROVE  Counted'
  <2>1. Inside' = Inside /\ active' = active
    BY <1>15, Roles, Zenon DEF Answer, Result, ReadBroken, CloseClient, Inside, Places,
           Draining
  <2> QED
    BY <2>1 DEF Counted
<1>16. ASSUME UNCHANGED vars
      PROVE  Counted'
  <2>1. Inside' = Inside /\ active' = active
    BY <1>16, Roles, Zenon DEF vars, Inside, Places, Draining
  <2> QED
    BY <2>1 DEF Counted
<1> QED
  BY <1>1, <1>2, <1>3, <1>4, <1>5, <1>6, <1>7, <1>8, <1>9, <1>10, <1>11, <1>12,
     <1>13, <1>14, <1>15, <1>16, Steps

-----------------------------------------------------------------------------
(* The theorems.                                                           *)

\* A handle that has just been opened satisfies the invariant.
LEMMA Initially == Init => IInv
<1> SUFFICES ASSUME Init PROVE IInv
  BY Zenon
<1> USE Roles, HandleAssumption DEF Init
<1>1. Types
  <2>1. /\ closing \in BOOLEAN /\ sleepPrepared \in BOOLEAN /\ beginning \in BOOLEAN
        /\ closeDone \in BOOLEAN /\ lifecycleStopping \in BOOLEAN
        /\ destroyRequested \in BOOLEAN /\ asleep \in BOOLEAN /\ closed \in BOOLEAN
    BY Zenon
  <2>2. ops \in 0 .. MaxOps /\ sleeps \in 0 .. MaxSleeps
    BY SMT
  <2>3. what \in [Procs -> Whats]
    BY Zenon DEF Whats
  <2>4. /\ closer \in Closers \cup {Nobody} /\ sleepIntentMu \in {Sleeper, Nobody}
        /\ lifecycleMu \in {Destroyer, Nobody}
    BY Zenon
  <2> QED
    BY <2>1, <2>2, <2>3, <2>4, Zenon DEF Types
<1>2. Places
  BY Zenon DEF Places, UserPlaces, Calling
<1>3. Waiting
  BY Zenon DEF Waiting, OwnResponse
<1>4. Recorded /\ Numbered /\ Ending
  BY DEF Recorded, Numbered, Ending, Draining, Txs
<1>5. Inside = {}
  BY Zenon DEF Inside
<1>6. Counted
  BY <1>5, FS_EmptySet, Zenon DEF Counted
<1>7. Fenced /\ Closing /\ RolledBack
  BY <1>5, Zenon DEF Fenced, Closing, RolledBack, Draining
<1> QED
  BY <1>1, <1>2, <1>3, <1>4, <1>6, <1>7, Zenon DEF IInv

\* Every step keeps the invariant, conjunct by conjunct.
LEMMA Invariance == Spec => []IInv
<1>1. IInv /\ [Next]_vars => IInv'
  BY TypesStep, PlacesStep, WaitingStep, RecordedStep, NumberedStep, EndingStep,
     CountedStep, NoneInside, FencedStep, ClosingStep, RolledBackStep, Zenon DEF IInv
<1> QED
  BY Initially, <1>1, PTL DEF Spec

\* Every variable keeps its type; above all, DB.active counts exactly the users
\* inside an operation, on every error path of every operation.
THEOREM HandleTypes == Spec => []TypeOK
<1>1. IInv => TypeOK
  <2> SUFFICES ASSUME IInv PROVE TypeOK
    BY Zenon
  <2> USE DEF IInv
  <2>1. active = Cardinality({u \in Users : pc[u] # "idle"})
    BY Zenon DEF Counted, Inside
  <2>2. /\ transactions \subseteq given /\ given \subseteq 1 .. begun /\ begun \in 0 .. MaxTx
        /\ terminal \subseteq 1 .. begun
    BY ZenonT(30) DEF Recorded
  <2>3. ASSUME NEW p \in Procs
        PROVE  /\ pc[p] \in {"idle", "statement", "done", "begin", "begun", "undone", "end",
                             "ended", "drain", "drainFailed", "intent", "redundant", "close",
                             "wait", "returned"}
               /\ tx[p] \in 0 .. MaxTx /\ todo[p] \subseteq Txs
               /\ phase[p] \in {"none", "write", "await", "ok", "error"}
               /\ what[p] \in Whats
               /\ id[p] \in Ids \cup {0}
               /\ response[p] \in Procs \cup {Nobody}
    <3>1. pc[p] \in UserPlaces \cup {"drain", "drainFailed", "intent", "redundant", "close",
                                     "wait", "returned"}
      BY Zenon DEF Places
    <3>2. todo[p] \subseteq Txs
      <4>1. todo[p] \subseteq given
        BY Zenon DEF Recorded
      <4>2. 1 .. begun \subseteq 1 .. MaxTx
        BY <2>2, HandleAssumption
      <4> QED
        BY <4>1, <4>2, <2>2, Zenon DEF Txs
    <3> QED
      BY <3>1, <3>2 DEF UserPlaces, Places, Numbered, Types, Waiting
  <2>4. \A i \in Ids : pending[i] \in Procs \cup {Nobody, Dead}
    BY Zenon DEF Waiting
  <2> QED
    BY <2>1, <2>2, <2>3, <2>4, Zenon DEF TypeOK, Types
<1> QED
  BY Invariance, <1>1, PTL

\* A caller of Client.request is never handed the answer to another request,
\* though ids are reused and callers give up while the server still works.
THEOREM ResponsesAreOwn == Spec => []OwnResponse
<1>1. IInv => OwnResponse
  BY Zenon DEF IInv, Waiting
<1> QED
  BY Invariance, <1>1, PTL

\* No interleaving of Commit, Rollback, Sleep, Destroy and Stop sends a second
\* commit or rollback for a transaction.
THEOREM TransactionsEndOnce == Spec => []EndedOnce
<1>1. IInv => EndedOnce
  BY DEF IInv, Ending, EndedOnce
<1> QED
  BY Invariance, <1>1, PTL

\* A sleep that core has accepted found no operation running and no transaction
\* registered, and admits none (fenceSQLiteAndRequestSleep).
THEOREM SleepIsFenced == Spec => []SleepFenced
<1>1. IInv => SleepFenced
  BY FS_EmptySet, Zenon DEF IInv, Fenced, Counted, SleepFenced
<1> QED
  BY Invariance, <1>1, PTL

\* closeTransport closes the backend only when no admitted operation is running
\* and every registered transaction has been ended.
THEOREM CloseIsIdle == Spec => []ClosedIdle
<1>1. IInv => ClosedIdle
  BY FS_EmptySet, Zenon DEF IInv, Closing, Counted, ClosedIdle
<1> QED
  BY Invariance, <1>1, PTL

=============================================================================
