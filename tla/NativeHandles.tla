--------------------------- MODULE NativeHandles ---------------------------
(***************************************************************************)
(* The native handles a process owns (internal/ffi/ffi_supported.go): the  *)
(* lease that allows one native runner per process, runner handles that    *)
(* goroutines call, close and abandon to the finalizer at the same time,   *)
(* error handles, the buffers the library hands out, and the three         *)
(* counters ActiveHandleCounts reports.  A read lock on Runner.mu is held  *)
(* by every goroutine that is inside a call on the runner, so it is not a  *)
(* variable of its own.                                                    *)
(***************************************************************************)
EXTENDS Integers, FiniteSets

CONSTANTS
  Goroutines,
  Runners,     \* the Runner values a process may create
  NoRunner     \* not one of them

VARIABLES
  active,   \* processRunnerActive
  pc,       \* where each goroutine is
  at,       \* the runner it calls or closes, or NoRunner
  ptr,      \* Runner.ptr: "none" before NewRunner, "live", then "nil"
  once,     \* Runner.once: "new", "running" or "done"
  errs,     \* goroutines that own a native error
  bufs,     \* the native buffers owned, <<goroutine, kind>>
  activeRunners, activeErrors, activeBuffers

vars ==
  <<active, pc, at, ptr, once, errs, bufs, activeRunners, activeErrors,
    activeBuffers>>

Places ==
  {"idle", "new", "release", "native", "error", "json", "close", "unlock",
   "lock", "freeing", "drop"}

\* Inside Poll, Submit or Shutdown, from RLock to RUnlock.
Reading == {"native", "error", "json", "close", "unlock"}

Init ==
  /\ active = FALSE
  /\ pc = [g \in Goroutines |-> "idle"]
  /\ at = [g \in Goroutines |-> NoRunner]
  /\ ptr = [r \in Runners |-> "none"]
  /\ once = [r \in Runners |-> "new"]
  /\ errs = {} /\ bufs = {}
  /\ activeRunners = 0 /\ activeErrors = 0 /\ activeBuffers = 0

Goto(g, place) == pc' = [pc EXCEPT ![g] = place]

\* newError, and Error.Close.
NewError(g) == errs' = errs \cup {g} /\ activeErrors' = activeErrors + 1

\* A buffer the library returns, and bytesFree.
TakeBuffer(g, kind) ==
  bufs' = bufs \cup {<<g, kind>>} /\ activeBuffers' = activeBuffers + 1

FreeBuffer(g, kind) ==
  bufs' = bufs \ {<<g, kind>>} /\ activeBuffers' = activeBuffers - 1

-----------------------------------------------------------------------------
(* NewRunner.                                                              *)

AcquireLease(g) ==
  /\ pc[g] = "idle" /\ ~active
  /\ active' = TRUE
  /\ Goto(g, "new")
  /\ UNCHANGED <<at, ptr, once, errs, bufs, activeRunners, activeErrors,
                 activeBuffers>>

\* runnerNew returns a runner, which owns the lease from now on; an error that
\* came with it is the caller's to close.
RunnerNew(g) ==
  /\ pc[g] = "new"
  /\ \E r \in Runners : ptr[r] = "none" /\ ptr' = [ptr EXCEPT ![r] = "live"]
  /\ activeRunners' = activeRunners + 1
  /\ \/ NewError(g) /\ Goto(g, "error")
     \/ Goto(g, "idle") /\ UNCHANGED <<errs, activeErrors>>
  /\ UNCHANGED <<active, at, once, bufs, activeBuffers>>

\* It returns none: the deferred release gives the lease back.
RunnerNewFails(g) ==
  /\ pc[g] = "new"
  /\ NewError(g) \/ UNCHANGED <<errs, activeErrors>>
  /\ Goto(g, "release")
  /\ UNCHANGED <<active, at, ptr, once, bufs, activeRunners, activeBuffers>>

ReleaseLease(g) ==
  /\ pc[g] = "release"
  /\ active' = FALSE
  /\ Goto(g, IF g \in errs THEN "error" ELSE "idle")
  /\ UNCHANGED <<at, ptr, once, errs, bufs, activeRunners, activeErrors,
                 activeBuffers>>

-----------------------------------------------------------------------------
(* Poll, Submit and Shutdown.                                              *)

\* RLock waits for a writer; a closed runner answers with an error.
Call(g, r) ==
  /\ pc[g] = "idle" /\ ptr[r] = "live"
  /\ \A h \in Goroutines : at[h] = r => pc[h] # "freeing"
  /\ at' = [at EXCEPT ![g] = r]
  /\ Goto(g, "native")
  /\ UNCHANGED <<active, ptr, once, errs, bufs, activeRunners, activeErrors,
                 activeBuffers>>

\* The native call returns: only Poll returns a payload, any an error.
Return(g) ==
  /\ pc[g] = "native"
  /\ TakeBuffer(g, "payload") \/ UNCHANGED <<bufs, activeBuffers>>
  /\ \/ NewError(g) /\ Goto(g, "error")
     \/ Goto(g, "unlock") /\ UNCHANGED <<errs, activeErrors>>
  /\ UNCHANGED <<active, at, ptr, once, activeRunners>>

\* Error.JSON: a copy of the text, in a buffer of the library.
ErrorJSON(g) ==
  /\ pc[g] = "error"
  /\ \/ TakeBuffer(g, "json") /\ Goto(g, "json")
     \/ Goto(g, "close") /\ UNCHANGED <<bufs, activeBuffers>>
  /\ UNCHANGED <<active, at, ptr, once, errs, activeRunners, activeErrors>>

JSONCopied(g) ==
  /\ pc[g] = "json"
  /\ FreeBuffer(g, "json")
  /\ Goto(g, "close")
  /\ UNCHANGED <<active, at, ptr, once, errs, activeRunners, activeErrors>>

CloseError(g) ==
  /\ pc[g] = "close"
  /\ errs' = errs \ {g} /\ activeErrors' = activeErrors - 1
  /\ Goto(g, IF at[g] = NoRunner THEN "idle" ELSE "unlock")
  /\ UNCHANGED <<active, at, ptr, once, bufs, activeRunners, activeBuffers>>

\* The deferred calls: the payload is freed, then the read lock given back.
Leave(g) ==
  /\ pc[g] = "unlock"
  /\ IF <<g, "payload">> \in bufs
     THEN FreeBuffer(g, "payload")
     ELSE UNCHANGED <<bufs, activeBuffers>>
  /\ at' = [at EXCEPT ![g] = NoRunner]
  /\ Goto(g, "idle")
  /\ UNCHANGED <<active, ptr, once, errs, activeRunners, activeErrors>>

-----------------------------------------------------------------------------
(* Runner.Close.                                                           *)

\* The first caller runs it; later ones wait for it and do nothing.
Close(g, r) ==
  /\ pc[g] = "idle" /\ ptr[r] # "none" /\ once[r] = "new"
  /\ once' = [once EXCEPT ![r] = "running"]
  /\ at' = [at EXCEPT ![g] = r]
  /\ Goto(g, "lock")
  /\ UNCHANGED <<active, ptr, errs, bufs, activeRunners, activeErrors,
                 activeBuffers>>

\* The finalizer closes a runner nobody refers to any more.
Finalize(g, r) ==
  /\ \A h \in Goroutines : at[h] # r
  /\ Close(g, r)

\* Lock waits for every call in progress.
Lock(g) ==
  /\ pc[g] = "lock"
  /\ \A h \in Goroutines : at[h] = at[g] => pc[h] \notin Reading
  /\ Goto(g, "freeing")
  /\ UNCHANGED <<active, at, ptr, once, errs, bufs, activeRunners,
                 activeErrors, activeBuffers>>

Free(g) ==
  /\ pc[g] = "freeing"
  /\ ptr' = [ptr EXCEPT ![at[g]] = "nil"]
  /\ activeRunners' = activeRunners - 1
  /\ Goto(g, "drop")
  /\ UNCHANGED <<active, at, once, errs, bufs, activeErrors, activeBuffers>>

\* The deferred release runs after the unlock.
Drop(g) ==
  /\ pc[g] = "drop"
  /\ active' = FALSE
  /\ once' = [once EXCEPT ![at[g]] = "done"]
  /\ at' = [at EXCEPT ![g] = NoRunner]
  /\ Goto(g, "idle")
  /\ UNCHANGED <<ptr, errs, bufs, activeRunners, activeErrors, activeBuffers>>

Step(g) ==
  \/ AcquireLease(g) \/ RunnerNew(g) \/ RunnerNewFails(g) \/ ReleaseLease(g)
  \/ \E r \in Runners : Call(g, r) \/ Close(g, r) \/ Finalize(g, r)
  \/ Return(g) \/ ErrorJSON(g) \/ JSONCopied(g) \/ CloseError(g) \/ Leave(g)
  \/ Lock(g) \/ Free(g) \/ Drop(g)

Next == \E g \in Goroutines : Step(g)

Spec == Init /\ [][Next]_vars

-----------------------------------------------------------------------------
(* Properties.                                                             *)

\* NewRunner takes the lease before it calls runnerNew, and Runner.Close gives
\* it back after runnerFree: two native runners never exist at the same time,
\* however calls of NewRunner and Close overlap.
OneRunner ==
  \A r, s \in Runners : ptr[r] = "live" /\ ptr[s] = "live" => r = s

\* Poll, Submit and Shutdown keep the read lock until they have copied what
\* the library returned: Close frees no runner that a goroutine is using.
NoUseAfterFree ==
  \A g \in Goroutines :
    pc[g] \in Reading /\ at[g] # NoRunner => ptr[at[g]] = "live"

\* ActiveHandleCounts, which the soak test expects to be zero after the drain,
\* is what the Go side still has to free: every path frees what it took,
\* errors of failed calls included.
CountsExact ==
  /\ activeRunners = IF \E r \in Runners : ptr[r] = "live" THEN 1 ELSE 0
  /\ activeErrors = Cardinality(errs)
  /\ activeBuffers = Cardinality(bufs)
  /\ (\A g \in Goroutines : pc[g] = "idle") => errs = {} /\ bufs = {}
=============================================================================
