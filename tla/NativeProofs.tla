---------------------------- MODULE NativeProofs ----------------------------
(***************************************************************************)
(* Proofs about the native library's cache and about the native handles of *)
(* a process.                                                              *)
(***************************************************************************)
EXTENDS NativeHandles, FiniteSetTheorems, TLAPS

CONSTANTS Procs, Last

VARIABLES
  cache, stage, task, art, temp, opened

Cache == INSTANCE LibraryCache

-----------------------------------------------------------------------------
(* The cache.                                                              *)

\* A process that was promised a file with the pinned digest holds a path
\* whose file cannot have another one; temporary files are complete before
\* they are renamed.
CacheInv ==
  /\ cache \in [1 .. Last -> {"absent", "pinned", "other"}]
  /\ stage \in [Procs -> Cache!Stages]
  /\ art \in [Procs -> 1 .. Last]
  /\ temp \in [Procs -> {"none", "partial", "pinned"}]
  /\ opened \in [Procs -> {"none", "override", "pinned"}]
  /\ \A p \in Procs :
       /\ stage[p] = "rename" => temp[p] = "pinned"
       /\ stage[p] \in {"secure", "acquired"} => cache[art[p]] # "other"

LEMMA CacheStep ==
  ASSUME Last \in Nat \ {0}, CacheInv, [Cache!Next]_Cache!vars
  PROVE  /\ CacheInv'
         /\ \A a \in 1 .. Last : cache[a] # "other" => cache'[a] # "other"
<1> USE DEF Cache!At, Cache!Goto, Cache!File, Cache!SetFile, Cache!Stages,
            CacheInv
<1>1. CASE UNCHANGED Cache!vars
  BY <1>1 DEF Cache!vars
<1>2. ASSUME NEW p \in Procs, Cache!Step(p)
      PROVE  /\ CacheInv'
             /\ \A a \in 1 .. Last : cache[a] # "other" => cache'[a] # "other"
  <2>1. CASE Cache!Inspect(p)
    BY <2>1 DEF Cache!Inspect
  <2>2. CASE Cache!Verify(p)
    BY <2>2 DEF Cache!Verify
  <2>3. CASE Cache!Secure(p)
    BY <2>3 DEF Cache!Secure
  <2>4. CASE Cache!Remove(p)
    BY <2>4 DEF Cache!Remove
  <2>5. CASE Cache!Download(p)
    BY <2>5 DEF Cache!Download
  <2>6. CASE Cache!CreateTemp(p)
    BY <2>6 DEF Cache!CreateTemp
  <2>7. CASE Cache!WriteTemp(p)
    BY <2>7 DEF Cache!WriteTemp
  <2>8. CASE Cache!Rename(p)
    BY <2>8 DEF Cache!Rename
  <2>9. CASE Cache!RenameFails(p)
    BY <2>9 DEF Cache!RenameFails
  <2>10. CASE Cache!AcquireFails(p)
    BY <2>10 DEF Cache!AcquireFails
  <2>11. CASE Cache!Begin(p)
    BY <2>11 DEF Cache!Begin
  <2>12. CASE Cache!LoadOverride(p)
    BY <2>12 DEF Cache!LoadOverride
  <2>13. CASE Cache!Open(p)
    BY <2>13 DEF Cache!Open
  <2>14. CASE Cache!OpenFails(p)
    <3>1. CASE art[p] < Last
      <4>1. art' = [art EXCEPT ![p] = @ + 1] /\ art[p] + 1 \in 1 .. Last
        BY <2>14, <3>1 DEF Cache!OpenFails, Cache!NextArtifact
      <4>2. stage' = [stage EXCEPT ![p] = "acquire"]
        BY <2>14, <3>1 DEF Cache!OpenFails, Cache!NextArtifact
      <4>3. cache' = cache /\ temp' = temp /\ opened' = opened
        BY <2>14 DEF Cache!OpenFails
      <4> QED
        BY <4>1, <4>2, <4>3
    <3>2. CASE ~(art[p] < Last)
      BY <2>14, <3>2 DEF Cache!OpenFails, Cache!NextArtifact
    <3> QED
      BY <3>1, <3>2
  <2>15. CASE Cache!Bind(p)
    BY <2>15 DEF Cache!Bind
  <2>16. CASE Cache!Prefetch(p)
    <3>1. CASE art[p] < Last
      <4>1. art' = [art EXCEPT ![p] = @ + 1] /\ art[p] + 1 \in 1 .. Last
        BY <2>16, <3>1 DEF Cache!Prefetch, Cache!NextArtifact
      <4>2. stage' = [stage EXCEPT ![p] = "acquire"]
        BY <2>16, <3>1 DEF Cache!Prefetch, Cache!NextArtifact
      <4>3. cache' = cache /\ temp' = temp /\ opened' = opened
        BY <2>16 DEF Cache!Prefetch
      <4> QED
        BY <4>1, <4>2, <4>3
    <3>2. CASE ~(art[p] < Last)
      BY <2>16, <3>2 DEF Cache!Prefetch, Cache!NextArtifact
    <3> QED
      BY <3>1, <3>2
  <2>17. CASE Cache!Crash(p)
    BY <2>17 DEF Cache!Crash
  <2> QED
    BY <1>2, <2>1, <2>2, <2>3, <2>4, <2>5, <2>6, <2>7, <2>8, <2>9, <2>10, <2>11,
       <2>12, <2>13, <2>14, <2>15, <2>16, <2>17 DEF Cache!Step
<1> QED
  BY <1>1, <1>2 DEF Cache!Next

\* No interleaving of loading, prefetching and dying processes puts bytes into
\* the cache whose digest was not checked, or makes a process open such bytes.
THEOREM CacheIsSafe ==
  ASSUME Last \in Nat \ {0}
  PROVE  Cache!Spec => []Cache!OpensPinned /\ Cache!StaysPinned
<1>1. Cache!Init => CacheInv
  BY DEF Cache!Init, CacheInv, Cache!Artifacts, Cache!Contents, Cache!Stages
<1>2. CacheInv /\ [Cache!Next]_Cache!vars => CacheInv'
  BY CacheStep
<1>3. CacheInv => Cache!OpensPinned
  BY DEF CacheInv, Cache!OpensPinned
<1>4. CacheInv /\ [Cache!Next]_Cache!vars
        => [\A a \in Cache!Artifacts :
              cache[a] # "other" => cache'[a] # "other"]_Cache!vars
  BY CacheStep DEF Cache!Artifacts
<1> QED
  BY <1>1, <1>2, <1>3, <1>4, PTL DEF Cache!Spec, Cache!StaysPinned

-----------------------------------------------------------------------------
(* The handles.                                                            *)

HandlesType ==
  /\ active \in BOOLEAN
  /\ pc \in [Goroutines -> Places]
  /\ at \in [Goroutines -> Runners \cup {NoRunner}]
  /\ ptr \in [Runners -> {"none", "live", "nil"}]
  /\ once \in [Runners -> {"new", "running", "done"}]
  /\ errs \subseteq Goroutines
  /\ bufs \subseteq Goroutines \X {"payload", "json"}
  /\ activeRunners \in Int /\ activeErrors \in Int /\ activeBuffers \in Int

\* Goroutines that own the lease themselves: before runnerNew has returned a
\* runner, and after Close has freed one.
Owning == {"new", "release", "drop"}

Closing == {"lock", "freeing", "drop"}

\* The lease has one owner, a goroutine or a live runner; a runner has one
\* closer, which frees it only when nobody reads it.
LeaseInv ==
  /\ \A g \in Goroutines :
       /\ pc[g] \in {"idle", "new", "release"} => at[g] = NoRunner
       /\ pc[g] \in {"native", "unlock", "lock", "freeing", "drop"}
            => at[g] \in Runners
       /\ pc[g] \in Reading /\ at[g] # NoRunner => ptr[at[g]] = "live"
       /\ pc[g] \in {"lock", "freeing"} => ptr[at[g]] = "live"
       /\ pc[g] \in Closing => once[at[g]] = "running"
       /\ pc[g] \in Owning => active
  /\ \A r \in Runners :
       /\ ptr[r] = "live" => active
       /\ ptr[r] = "none" => once[r] = "new"
       /\ ptr[r] = "nil" => once[r] # "new"
  /\ \A g, h \in Goroutines :
       /\ pc[g] \in Owning /\ pc[h] \in Owning => g = h
       /\ pc[g] \in Closing /\ pc[h] \in Closing /\ at[g] = at[h] => g = h
       /\ pc[g] = "freeing" /\ at[h] = at[g] => pc[h] \notin Reading
  /\ \A g \in Goroutines, r \in Runners :
       ~(pc[g] \in Owning /\ ptr[r] = "live")
  /\ \A r, s \in Runners : ptr[r] = "live" /\ ptr[s] = "live" => r = s

\* What a goroutine owns follows from where it is.
CountInv ==
  /\ IsFiniteSet(errs) /\ IsFiniteSet(bufs)
  /\ \A g \in errs : pc[g] \in {"release", "error", "json", "close"}
  /\ \A g \in Goroutines : pc[g] \in {"error", "json", "close"} => g \in errs
  /\ \A g \in Goroutines : <<g, "json">> \in bufs <=> pc[g] = "json"
  /\ \A g \in Goroutines :
       <<g, "payload">> \in bufs
         => pc[g] \in {"error", "json", "close", "unlock"} /\ at[g] # NoRunner
  /\ activeErrors = Cardinality(errs)
  /\ activeBuffers = Cardinality(bufs)
  /\ activeRunners = IF \E r \in Runners : ptr[r] = "live" THEN 1 ELSE 0

\* A counter that follows a finite set.
LEMMA CountAdd ==
  ASSUME NEW S, IsFiniteSet(S), NEW x, x \notin S
  PROVE  /\ IsFiniteSet(S \cup {x})
         /\ Cardinality(S \cup {x}) = Cardinality(S) + 1
  BY FS_AddElement

LEMMA CountRemove ==
  ASSUME NEW S, IsFiniteSet(S), NEW x \in S
  PROVE  /\ IsFiniteSet(S \ {x})
         /\ Cardinality(S \ {x}) = Cardinality(S) - 1
  BY FS_RemoveElement

LEMMA HandlesTypeStep ==
  ASSUME NoRunner \notin Runners, HandlesType, LeaseInv,
         [Next]_vars
  PROVE  HandlesType'
<1> USE DEF Goto, HandlesType, Places
<1>1. CASE UNCHANGED vars
  BY <1>1 DEF vars
<1>2. ASSUME NEW g \in Goroutines, Step(g)
      PROVE  HandlesType'
  <2>1. CASE AcquireLease(g)
    BY <2>1 DEF AcquireLease
  <2>2. CASE RunnerNew(g)
    BY <2>2 DEF RunnerNew, NewError
  <2>3. CASE RunnerNewFails(g)
    BY <2>3 DEF RunnerNewFails, NewError
  <2>4. CASE ReleaseLease(g)
    BY <2>4 DEF ReleaseLease
  <2>5. CASE Return(g)
    BY <2>5 DEF Return, NewError, TakeBuffer
  <2>6. CASE ErrorJSON(g)
    BY <2>6 DEF ErrorJSON, TakeBuffer
  <2>7. CASE JSONCopied(g)
    BY <2>7 DEF JSONCopied, FreeBuffer
  <2>8. CASE CloseError(g)
    BY <2>8 DEF CloseError
  <2>9. CASE Leave(g)
    BY <2>9 DEF Leave, FreeBuffer
  <2>10. CASE Lock(g)
    BY <2>10 DEF Lock
  <2>11. CASE Free(g)
    BY <2>11 DEF Free, LeaseInv
  <2>12. CASE Drop(g)
    BY <2>12 DEF Drop
  <2>13. ASSUME NEW r \in Runners, Call(g, r)
        PROVE  HandlesType'
    BY <2>13 DEF Call
  <2>14. ASSUME NEW r \in Runners, Close(g, r)
        PROVE  HandlesType'
    BY <2>14 DEF Close
  <2>15. ASSUME NEW r \in Runners, Finalize(g, r)
        PROVE  HandlesType'
    BY <2>15 DEF Finalize, Close
  <2> QED
    BY <1>2, <2>1, <2>2, <2>3, <2>4, <2>5, <2>6, <2>7, <2>8, <2>9,
       <2>10, <2>11, <2>12, <2>13, <2>14, <2>15
    DEF Step
<1> QED
  BY <1>1, <1>2 DEF Next

LEMMA LeaseStep ==
  ASSUME NoRunner \notin Runners, HandlesType, LeaseInv,
         [Next]_vars
  PROVE  LeaseInv'
<1> USE DEF Goto, HandlesType, LeaseInv, Places,
            Reading, Owning, Closing
<1>1. CASE UNCHANGED vars
  BY <1>1 DEF vars
<1>2. ASSUME NEW g \in Goroutines, Step(g)
      PROVE  LeaseInv'
  <2>1. CASE AcquireLease(g)
    BY <2>1 DEF AcquireLease
  <2>2. CASE RunnerNew(g)
    BY <2>2 DEF RunnerNew, NewError
  <2>3. CASE RunnerNewFails(g)
    BY <2>3 DEF RunnerNewFails, NewError
  <2>4. CASE ReleaseLease(g)
    BY <2>4 DEF ReleaseLease
  <2>5. CASE Return(g)
    BY <2>5 DEF Return, NewError, TakeBuffer
  <2>6. CASE ErrorJSON(g)
    BY <2>6 DEF ErrorJSON, TakeBuffer
  <2>7. CASE JSONCopied(g)
    BY <2>7 DEF JSONCopied, FreeBuffer
  <2>8. CASE CloseError(g)
    BY <2>8 DEF CloseError
  <2>9. CASE Leave(g)
    BY <2>9 DEF Leave, FreeBuffer
  <2>10. CASE Lock(g)
    BY <2>10 DEF Lock
  <2>11. CASE Free(g)
    BY <2>11 DEF Free
  <2>12. CASE Drop(g)
    BY <2>12 DEF Drop
  <2>13. ASSUME NEW r \in Runners, Call(g, r)
        PROVE  LeaseInv'
    BY <2>13 DEF Call
  <2>14. ASSUME NEW r \in Runners, Close(g, r)
        PROVE  LeaseInv'
    BY <2>14 DEF Close
  <2>15. ASSUME NEW r \in Runners, Finalize(g, r)
        PROVE  LeaseInv'
    BY <2>15 DEF Finalize, Close
  <2> QED
    BY <1>2, <2>1, <2>2, <2>3, <2>4, <2>5, <2>6, <2>7, <2>8, <2>9,
       <2>10, <2>11, <2>12, <2>13, <2>14, <2>15
    DEF Step
<1> QED
  BY <1>1, <1>2 DEF Next

LEMMA CountStep ==
  ASSUME NoRunner \notin Runners, HandlesType, LeaseInv, CountInv,
         [Next]_vars
  PROVE  CountInv'
<1> USE DEF Goto, HandlesType, LeaseInv, CountInv, Places,
            Reading, Owning, Closing
<1>1. CASE UNCHANGED vars
  BY <1>1 DEF vars
<1>2. ASSUME NEW g \in Goroutines, Step(g)
      PROVE  CountInv'
  <2>1. CASE AcquireLease(g)
    BY <2>1 DEF AcquireLease
  <2>2. CASE RunnerNew(g)
    <3>1. IsFiniteSet(errs') /\ activeErrors' = Cardinality(errs')
      <4>1. CASE NewError(g)
        <5>1. g \notin errs
          BY <2>2 DEF RunnerNew
        <5> QED
          BY <4>1, <5>1, CountAdd DEF NewError
      <4>2. CASE UNCHANGED <<errs, activeErrors>>
        BY <4>2
      <4> QED
        BY <2>2, <4>1, <4>2 DEF RunnerNew
    <3>2. IsFiniteSet(bufs') /\ activeBuffers' = Cardinality(bufs')
      BY <2>2 DEF RunnerNew
    <3>3. activeRunners' = IF \E r \in Runners : ptr'[r] = "live" THEN 1 ELSE 0
      <4>1. PICK r \in Runners : ptr[r] = "none" /\ ptr' = [ptr EXCEPT ![r] = "live"]
        BY <2>2 DEF RunnerNew
      <4>2. activeRunners = 0 /\ activeRunners' = 1 /\ ptr'[r] = "live"
        BY <2>2, <4>1 DEF RunnerNew
      <4> QED
        BY <4>2
    <3> QED
      BY <2>2, <3>1, <3>2, <3>3 DEF RunnerNew, NewError
  <2>3. CASE RunnerNewFails(g)
    <3>1. IsFiniteSet(errs') /\ activeErrors' = Cardinality(errs')
      <4>1. CASE NewError(g)
        <5>1. g \notin errs
          BY <2>3 DEF RunnerNewFails
        <5> QED
          BY <4>1, <5>1, CountAdd DEF NewError
      <4>2. CASE UNCHANGED <<errs, activeErrors>>
        BY <4>2
      <4> QED
        BY <2>3, <4>1, <4>2 DEF RunnerNewFails
    <3>2. IsFiniteSet(bufs') /\ activeBuffers' = Cardinality(bufs')
      BY <2>3 DEF RunnerNewFails
    <3>3. activeRunners' = IF \E r \in Runners : ptr'[r] = "live" THEN 1 ELSE 0
      BY <2>3 DEF RunnerNewFails
    <3> QED
      BY <2>3, <3>1, <3>2, <3>3 DEF RunnerNewFails, NewError
  <2>4. CASE ReleaseLease(g)
    BY <2>4 DEF ReleaseLease
  <2>5. CASE Return(g)
    <3>1. IsFiniteSet(errs') /\ activeErrors' = Cardinality(errs')
      <4>1. CASE NewError(g)
        <5>1. g \notin errs
          BY <2>5 DEF Return
        <5> QED
          BY <4>1, <5>1, CountAdd DEF NewError
      <4>2. CASE UNCHANGED <<errs, activeErrors>>
        BY <4>2
      <4> QED
        BY <2>5, <4>1, <4>2 DEF Return
    <3>2. IsFiniteSet(bufs') /\ activeBuffers' = Cardinality(bufs')
      <4>1. CASE TakeBuffer(g, "payload")
        <5>1. <<g, "payload">> \notin bufs
          BY <2>5 DEF Return
        <5> QED
          BY <4>1, <5>1, CountAdd DEF TakeBuffer
      <4>2. CASE UNCHANGED <<bufs, activeBuffers>>
        BY <4>2
      <4> QED
        BY <2>5, <4>1, <4>2 DEF Return
    <3>3. activeRunners' = IF \E r \in Runners : ptr'[r] = "live" THEN 1 ELSE 0
      BY <2>5 DEF Return
    <3> QED
      BY <2>5, <3>1, <3>2, <3>3 DEF Return, NewError, TakeBuffer
  <2>6. CASE ErrorJSON(g)
    <3>1. IsFiniteSet(errs') /\ activeErrors' = Cardinality(errs')
      BY <2>6 DEF ErrorJSON
    <3>2. IsFiniteSet(bufs') /\ activeBuffers' = Cardinality(bufs')
      <4>1. CASE TakeBuffer(g, "json")
        <5>1. <<g, "json">> \notin bufs
          BY <2>6 DEF ErrorJSON
        <5> QED
          BY <4>1, <5>1, CountAdd DEF TakeBuffer
      <4>2. CASE UNCHANGED <<bufs, activeBuffers>>
        BY <4>2
      <4> QED
        BY <2>6, <4>1, <4>2 DEF ErrorJSON
    <3>3. activeRunners' = IF \E r \in Runners : ptr'[r] = "live" THEN 1 ELSE 0
      BY <2>6 DEF ErrorJSON
    <3> QED
      BY <2>6, <3>1, <3>2, <3>3 DEF ErrorJSON, TakeBuffer
  <2>7. CASE JSONCopied(g)
    <3>1. IsFiniteSet(errs') /\ activeErrors' = Cardinality(errs')
      BY <2>7 DEF JSONCopied
    <3>2. IsFiniteSet(bufs') /\ activeBuffers' = Cardinality(bufs')
      <4>1. <<g, "json">> \in bufs
        BY <2>7 DEF JSONCopied
      <4> QED
        BY <2>7, <4>1, CountRemove DEF JSONCopied, FreeBuffer
    <3>3. activeRunners' = IF \E r \in Runners : ptr'[r] = "live" THEN 1 ELSE 0
      BY <2>7 DEF JSONCopied
    <3> QED
      BY <2>7, <3>1, <3>2, <3>3 DEF JSONCopied, FreeBuffer
  <2>8. CASE CloseError(g)
    <3>1. IsFiniteSet(errs') /\ activeErrors' = Cardinality(errs')
      <4>1. g \in errs
        BY <2>8 DEF CloseError
      <4> QED
        BY <2>8, <4>1, CountRemove DEF CloseError
    <3>2. IsFiniteSet(bufs') /\ activeBuffers' = Cardinality(bufs')
      BY <2>8 DEF CloseError
    <3>3. activeRunners' = IF \E r \in Runners : ptr'[r] = "live" THEN 1 ELSE 0
      BY <2>8 DEF CloseError
    <3> QED
      BY <2>8, <3>1, <3>2, <3>3 DEF CloseError
  <2>9. CASE Leave(g)
    <3>1. IsFiniteSet(errs') /\ activeErrors' = Cardinality(errs')
      BY <2>9 DEF Leave
    <3>2. IsFiniteSet(bufs') /\ activeBuffers' = Cardinality(bufs')
      <4>1. CASE <<g, "payload">> \in bufs
        BY <2>9, <4>1, CountRemove DEF Leave, FreeBuffer
      <4>2. CASE <<g, "payload">> \notin bufs
        BY <2>9, <4>2 DEF Leave
      <4> QED
        BY <4>1, <4>2
    <3>3. activeRunners' = IF \E r \in Runners : ptr'[r] = "live" THEN 1 ELSE 0
      BY <2>9 DEF Leave
    <3> QED
      BY <2>9, <3>1, <3>2, <3>3 DEF Leave, FreeBuffer
  <2>10. CASE Lock(g)
    BY <2>10 DEF Lock
  <2>11. CASE Free(g)
    BY <2>11 DEF Free
  <2>12. CASE Drop(g)
    BY <2>12 DEF Drop
  <2>13. ASSUME NEW r \in Runners, Call(g, r)
        PROVE  CountInv'
    BY <2>13 DEF Call
  <2>14. ASSUME NEW r \in Runners, Close(g, r)
        PROVE  CountInv'
    BY <2>14 DEF Close
  <2>15. ASSUME NEW r \in Runners, Finalize(g, r)
        PROVE  CountInv'
    BY <2>15 DEF Finalize, Close
  <2> QED
    BY <1>2, <2>1, <2>2, <2>3, <2>4, <2>5, <2>6, <2>7, <2>8, <2>9,
       <2>10, <2>11, <2>12, <2>13, <2>14, <2>15
    DEF Step
<1> QED
  BY <1>1, <1>2 DEF Next

HandlesInv == HandlesType /\ LeaseInv /\ CountInv

\* However calls of NewRunner, of a runner's methods and of Close overlap, and
\* whatever the library returns: one native runner at a time, no call on a
\* freed one, and counters that tell exactly what is still to be freed.
THEOREM HandlesAreSafe ==
  ASSUME NoRunner \notin Runners
  PROVE  Spec
           => [](OneRunner /\ NoUseAfterFree /\ CountsExact)
<1>1. Init => HandlesInv
  <2> SUFFICES ASSUME Init PROVE HandlesInv
    OBVIOUS
  <2>1. HandlesType
    <3>1. errs \subseteq Goroutines /\ bufs \subseteq Goroutines \X {"payload", "json"}
      BY DEF Init
    <3>2. active \in BOOLEAN
      BY DEF Init
    <3> QED
      BY <3>1, <3>2 DEF Init, HandlesType, Places
  <2>2. LeaseInv
    BY DEF Init, LeaseInv, Reading, Owning, Closing
  <2>3. CountInv
    <3>1. IsFiniteSet({}) /\ Cardinality({}) = 0
      BY FS_EmptySet
    <3>2. \A r \in Runners : ptr[r] # "live"
      BY DEF Init
    <3>3. \A g \in Goroutines : pc[g] = "idle"
      BY DEF Init
    <3>4. errs = {} /\ bufs = {} /\ activeErrors = 0 /\ activeBuffers = 0 /\ activeRunners = 0
      BY DEF Init
    <3> QED
      BY <3>1, <3>2, <3>3, <3>4 DEF CountInv
  <2> QED
    BY <2>1, <2>2, <2>3 DEF HandlesInv
<1>2. HandlesInv /\ [Next]_vars => HandlesInv'
  BY HandlesTypeStep, LeaseStep, CountStep DEF HandlesInv
<1>3. HandlesInv => OneRunner /\ NoUseAfterFree
  BY DEF HandlesInv, LeaseInv, OneRunner, NoUseAfterFree
<1>4. HandlesInv => CountsExact
  <2> SUFFICES ASSUME HandlesInv PROVE CountsExact
    OBVIOUS
  <2>1. (\A g \in Goroutines : pc[g] = "idle") => errs = {} /\ bufs = {}
    <3> SUFFICES ASSUME \A g \in Goroutines : pc[g] = "idle"
                 PROVE  errs = {} /\ bufs = {}
      OBVIOUS
    <3>1. errs = {}
      BY DEF HandlesInv, HandlesType, CountInv
    <3>2. \A b \in bufs : FALSE
      <4> SUFFICES ASSUME NEW b \in bufs PROVE FALSE
        OBVIOUS
      <4>1. PICK g \in Goroutines, k \in {"payload", "json"} : b = <<g, k>>
        BY DEF HandlesInv, HandlesType
      <4> QED
        BY <4>1 DEF HandlesInv, CountInv
    <3> QED
      BY <3>1, <3>2
  <2> QED
    <3>1. /\ activeRunners = IF \E r \in Runners : ptr[r] = "live" THEN 1 ELSE 0
          /\ activeErrors = Cardinality(errs)
          /\ activeBuffers = Cardinality(bufs)
      BY DEF HandlesInv, CountInv
    <3> QED
      BY <2>1, <3>1 DEF CountsExact
<1> QED
  BY <1>1, <1>2, <1>3, <1>4, PTL DEF Spec
=============================================================================
