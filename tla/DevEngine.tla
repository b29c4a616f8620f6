----------------------------- MODULE DevEngine -----------------------------
(***************************************************************************)
(* The engine process of the development tools (internal/devengine):       *)
(* goroutines start, stop and kill it while it may exit by itself, be slow *)
(* to die, or die without having been reaped.  Its guard, peer and metrics *)
(* ports and its storage directory are fixed, so two at a time would       *)
(* corrupt each other.  Process n is the n-th the Engine has launched.     *)
(***************************************************************************)
EXTENDS Naturals

CONSTANTS Callers   \* goroutines that use one Engine

VARIABLES
  process,   \* Engine.process: 0 is nil
  launched,  \* how many processes were launched
  running,   \* processes that run
  done,      \* processes whose done channel is closed: Wait has returned
  doing,     \* what each caller is doing
  held       \* the process it does it to

vars == <<process, launched, running, done, doing, held>>

Init ==
  /\ process = 0 /\ launched = 0
  /\ running = {} /\ done = {}
  /\ doing = [c \in Callers |-> "idle"]
  /\ held = [c \in Callers |-> 0]

Goto(c, what) == doing' = [doing EXCEPT ![c] = what]

\* clearProcess forgets the process it is given and no other.
ClearProcess(n) == process' = IF process = n THEN 0 ELSE process

\* Start, up to the unlock; an Engine that has a process refuses.
Start(c) ==
  /\ doing[c] = "idle" /\ process = 0
  /\ launched' = launched + 1
  /\ process' = launched + 1
  /\ running' = running \cup {launched + 1}
  /\ held' = [held EXCEPT ![c] = launched + 1]
  /\ Goto(c, "readying")
  /\ UNCHANGED done

\* The process exits: by itself, interrupted or killed.
Exit(n) ==
  /\ n \in running
  /\ running' = running \ {n}
  /\ UNCHANGED <<process, launched, done, doing, held>>

\* The goroutine of Start that waits for it.
Reap(n) ==
  /\ n \in 1 .. launched /\ n \notin running
  /\ done' = done \cup {n}
  /\ UNCHANGED <<process, launched, running, doing, held>>

\* waitReady: the health endpoint answers.
Healthy(c) ==
  /\ doing[c] = "readying"
  /\ Goto(c, "idle")
  /\ UNCHANGED <<process, launched, running, done, held>>

\* It has exited: forget it, then Start calls killProcess all the same.
ExitedEarly(c) ==
  /\ doing[c] = "readying" /\ held[c] \in done
  /\ ClearProcess(held[c])
  /\ Goto(c, "killing")
  /\ UNCHANGED <<launched, running, done, held>>

NotReady(c) ==
  /\ doing[c] = "readying"
  /\ Goto(c, "killing")
  /\ UNCHANGED <<process, launched, running, done, held>>

\* Kill and Stop take the process under the lock and act on it without.
Kill(c) ==
  /\ doing[c] = "idle" /\ process # 0
  /\ held' = [held EXCEPT ![c] = process]
  /\ Goto(c, "killing")
  /\ UNCHANGED <<process, launched, running, done>>

Stop(c) ==
  /\ doing[c] = "idle" /\ process # 0
  /\ held' = [held EXCEPT ![c] = process]
  /\ Goto(c, "stopping")
  /\ UNCHANGED <<process, launched, running, done>>

\* The process is reaped, killed or stopped.
Reaped(c) ==
  /\ doing[c] \in {"killing", "stopping"} /\ held[c] \in done
  /\ ClearProcess(held[c])
  /\ Goto(c, "idle")
  /\ UNCHANGED <<launched, running, done, held>>

\* Stop falls back to killProcess when its context expires.
StopExpires(c) ==
  /\ doing[c] = "stopping"
  /\ Goto(c, "killing")
  /\ UNCHANGED <<process, launched, running, done, held>>

\* Not reaped within five seconds, or the signal failed: it stays registered.
GiveUp(c) ==
  /\ doing[c] \in {"killing", "stopping"}
  /\ Goto(c, "idle")
  /\ UNCHANGED <<process, launched, running, done, held>>

Next ==
  \/ \E c \in Callers :
       \/ Start(c) \/ Healthy(c) \/ ExitedEarly(c) \/ NotReady(c) \/ Kill(c)
       \/ Stop(c) \/ Reaped(c) \/ StopExpires(c) \/ GiveUp(c)
  \/ \E n \in 1 .. launched : Exit(n) \/ Reap(n)

Spec == Init /\ [][Next]_vars

\* Start refuses while a process is registered, and clearProcess forgets only a
\* process that was reaped: however Start, Stop and Kill overlap and give up,
\* a process that runs is the registered one, so there is never a second.
OneEngine == \A n \in running : n = process
=============================================================================
