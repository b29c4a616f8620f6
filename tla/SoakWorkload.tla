---------------------------- MODULE SoakWorkload ----------------------------
(***************************************************************************)
(* The counter, SQL and alarm workloads of the soak test (cmd/soak): each  *)
(* worker holds the work gate while it sends one request to an actor and   *)
(* compares the answer with a model of its own; a restart of the engine    *)
(* pauses the gate; a timer ends the active phase by cancelling the        *)
(* workers' context, whatever they are doing; then finalOracles compares   *)
(* everything once more.  The runtime under test is correct here: what is  *)
(* at stake is whether the test accuses it wrongly.                        *)
(*                                                                         *)
(* A counter or a table is abstracted to the number of updates applied to  *)
(* it, an alarm's nonce to the number of its cycle.  The runtime answers   *)
(* within the test's timeouts.                                             *)
(***************************************************************************)
EXTENDS Naturals

CONSTANTS
  Counters,  \* the workers of runCounter
  Sql,       \* the worker of runSQL
  Alarm      \* the worker of runAlarms

VARIABLES
  over,     \* the active context is cancelled
  failed,   \* some comparison has failed
  paused, holding,   \* workGate; holding are the workers it counts as active
  place,    \* where each worker is
  cut,      \* workers whose request the cancellation cut off
  truth,    \* per counter and table: counterTruth, sqlRows
  actual,   \* per counter and table: the actor's state
  oracle,   \* alarmOracle.state: how many armed, how many fired
  alarm,    \* the alarm actor's state
  due,      \* the alarm actor has an alarm scheduled
  fired,    \* alarmOracle.fired: nonces not yet taken
  restart   \* restartChaos: "idle", "pausing", "restarting" or "stopped"

vars == <<over, failed, paused, holding, place, cut, truth, actual, oracle,
          alarm, due, fired, restart>>
gateVars == <<paused, holding>>
alarmVars == <<oracle, alarm, due, fired>>
countVars == <<truth, actual>>

Mutators == Counters \cup {Sql}
Workers == Mutators \cup {Alarm}

Init ==
  /\ over = FALSE /\ failed = FALSE /\ paused = FALSE /\ due = FALSE
  /\ holding = {} /\ cut = {} /\ fired = {}
  /\ place = [w \in Workers |-> "idle"]
  /\ truth = [w \in Mutators |-> 0] /\ actual = [w \in Mutators |-> 0]
  /\ oracle = [armed |-> 0, fired |-> 0] /\ alarm = [armed |-> 0, fired |-> 0]
  /\ restart = "idle"

Goto(w, there) == place' = [place EXCEPT ![w] = there]

\* A failed comparison ends the test: what the oracles hold then is of no
\* interest, so a step goes on all the same.
Compare(got, want) == failed' = (failed \/ got # want)

\* workGate.acquire looks at the context only when the gate is paused.
Acquire(w) ==
  /\ place[w] = "idle" /\ ~paused
  /\ holding' = holding \cup {w}
  /\ UNCHANGED paused

Release(w) == holding' = holding \ {w} /\ UNCHANGED paused

\* The loop ends at the end of a turn, or while it waits for the gate.
Finish(w) ==
  /\ place[w] = "idle" /\ over
  /\ Goto(w, "stopped")
  /\ UNCHANGED <<over, failed, gateVars, cut, countVars, alarmVars, restart>>

\* activeTimer; the workers see the cancellation when they next look.
TimerFires ==
  /\ ~over
  /\ over' = TRUE
  /\ UNCHANGED <<failed, gateVars, place, cut, countVars, alarmVars, restart>>

-----------------------------------------------------------------------------
(* runCounter and runSQL, and the actors' "apply" and "insert".            *)

Send(w) ==
  /\ w \in Mutators /\ Acquire(w)
  /\ Goto(w, "sent")
  /\ UNCHANGED <<over, failed, cut, countVars, alarmVars, restart>>

Apply(w) ==
  /\ place[w] = "sent" /\ w \in Mutators
  /\ actual' = [actual EXCEPT ![w] = @ + 1]
  /\ Goto(w, "applied")
  /\ UNCHANGED <<over, failed, gateVars, cut, truth, alarmVars, restart>>

Answered(w) ==
  /\ place[w] = "applied"
  /\ Compare(actual[w], truth[w] + 1)
  /\ truth' = [truth EXCEPT ![w] = @ + 1]
  /\ Release(w)
  /\ Goto(w, "idle")
  /\ UNCHANGED <<over, cut, actual, alarmVars, restart>>

\* The context of a counter's request derives from the active one: cancelled,
\* the request fails, applied or not, and the worker leaves without a report.
CutOff(w) ==
  /\ over /\ w \in Counters /\ place[w] \in {"sent", "applied"}
  /\ cut' = cut \cup {w}
  /\ Release(w)
  /\ Goto(w, IF place[w] = "sent" THEN "abandoned" ELSE "stopped")
  /\ UNCHANGED <<over, failed, countVars, alarmVars, restart>>

\* A request that was cancelled may have reached the actor or not.
LateApply(w) ==
  /\ place[w] = "abandoned" /\ w \in Counters
  /\ actual' \in {actual, [actual EXCEPT ![w] = @ + 1]}
  /\ Goto(w, "stopped")
  /\ UNCHANGED <<over, failed, gateVars, cut, truth, alarmVars, restart>>

-----------------------------------------------------------------------------
(* runAlarms, and the alarm actor's "arm" and OnAlarm.                     *)

ExpectArm ==
  /\ Acquire(Alarm)
  /\ oracle' = [oracle EXCEPT !.armed = @ + 1]
  /\ Goto(Alarm, "sent")
  /\ UNCHANGED <<over, failed, cut, countVars, alarm, due, fired, restart>>

\* The answer is the state at this moment; nothing changes the oracle's before
\* it is compared.
Arm ==
  /\ place[Alarm] = "sent"
  /\ alarm' = [alarm EXCEPT !.armed = @ + 1]
  /\ due' = TRUE
  /\ Compare(alarm', oracle)
  /\ Goto(Alarm, "waiting")
  /\ UNCHANGED <<over, gateVars, cut, countVars, oracle, fired, restart>>

OnAlarm ==
  /\ due
  /\ due' = FALSE
  /\ alarm' = [alarm EXCEPT !.fired = @ + 1]
  /\ fired' = fired \cup {alarm.armed}
  /\ UNCHANGED <<over, failed, gateVars, place, cut, countVars, oracle, restart>>

\* expectFire: an arm must be pending, and be this one.
ExpectFire(nonce) ==
  /\ nonce \in fired
  /\ fired' = fired \ {nonce}
  /\ failed' = (failed \/ oracle.fired >= oracle.armed \/ nonce # oracle.armed)
  /\ oracle' = [oracle EXCEPT !.fired = @ + 1]
  /\ UNCHANGED <<alarm, due>>

AlarmTaken ==
  /\ place[Alarm] = "waiting"
  /\ \E nonce \in fired : ExpectFire(nonce)
  /\ Release(Alarm)
  /\ Goto(Alarm, "idle")
  /\ UNCHANGED <<over, cut, countVars, restart>>

\* Cancelled before the arm was sent or answered, the oracle has counted it.
AlarmCutOff ==
  /\ over /\ place[Alarm] \in {"sent", "waiting"}
  /\ cut' = IF place[Alarm] = "sent" THEN cut \cup {Alarm} ELSE cut
  /\ Release(Alarm)
  /\ Goto(Alarm, IF place[Alarm] = "sent" THEN "abandoned" ELSE "stopped")
  /\ UNCHANGED <<over, failed, countVars, alarmVars, restart>>

LateArm ==
  /\ place[Alarm] = "abandoned"
  /\ \/ alarm' = [alarm EXCEPT !.armed = @ + 1] /\ due' = TRUE
     \/ UNCHANGED <<alarm, due>>
  /\ Goto(Alarm, "stopped")
  /\ UNCHANGED <<over, failed, gateVars, cut, countVars, oracle, fired, restart>>

-----------------------------------------------------------------------------
(* restartChaos and finalOracles.                                          *)

RestartPause ==
  /\ restart = "idle"
  /\ restart' = "pausing"
  /\ paused' = TRUE
  /\ UNCHANGED <<over, failed, holding, place, cut, countVars, alarmVars>>

RestartBegin ==
  /\ restart = "pausing" /\ holding = {}
  /\ restart' = "restarting"
  /\ UNCHANGED <<over, failed, gateVars, place, cut, countVars, alarmVars>>

\* The engine is back and the alarm actor woken: its state must be the oracle's.
RestartDone ==
  /\ restart = "restarting"
  /\ failed' = (failed \/ (alarm # oracle /\ ~over))
  /\ restart' = "idle"
  /\ paused' = FALSE
  /\ UNCHANGED <<over, holding, place, cut, countVars, alarmVars>>

\* Cancelled while it waits for the gate, it leaves it paused.
RestartCutOff ==
  /\ restart \in {"idle", "pausing"} /\ over
  /\ restart' = "stopped"
  /\ UNCHANGED <<over, failed, gateVars, place, cut, countVars, alarmVars>>

AllStopped == restart = "stopped" /\ \A w \in Workers : place[w] = "stopped"

\* finalOracles takes what fired since, then compares every state.
FinalFire ==
  /\ AllStopped /\ oracle.fired # oracle.armed
  /\ \E nonce \in fired : ExpectFire(nonce)
  /\ UNCHANGED <<over, gateVars, place, cut, countVars, restart>>

FinalOracles ==
  /\ AllStopped /\ oracle.fired = oracle.armed
  /\ failed' = (failed \/ actual # truth \/ alarm # oracle)
  /\ UNCHANGED <<over, gateVars, place, cut, countVars, alarmVars, restart>>

Next ==
  \/ TimerFires \/ \E w \in Workers : Finish(w)
  \/ \E w \in Workers :
       Send(w) \/ Apply(w) \/ Answered(w) \/ CutOff(w) \/ LateApply(w)
  \/ ExpectArm \/ Arm \/ OnAlarm \/ AlarmTaken \/ AlarmCutOff \/ LateArm
  \/ RestartPause \/ RestartBegin \/ RestartDone \/ RestartCutOff
  \/ FinalFire \/ FinalOracles

Spec == Init /\ [][Next]_vars

-----------------------------------------------------------------------------
(* Properties.                                                             *)

\* The immediate comparisons of the workers, the one after a restart and those
\* of finalOracles accuse a correct runtime only when the timer has cut a
\* counter's request or an arm off.
AccusesOnlyWhenCut == failed => cut # {}

\* runSQL finishes an admitted insert "so the committed-row oracle cannot lose
\* an acknowledged insert": at rest the oracle has exactly the table's rows,
\* whenever the timer fires.
RowsExact == place[Sql] # "applied" => truth[Sql] = actual[Sql]

\* restartChaos compares the alarm actor's state while the gate is paused: every
\* arm has fired and was taken by then.
RestartConverges == restart = "restarting" /\ Alarm \notin cut /\ ~over => alarm = oracle
=============================================================================
