---------------------------- MODULE LibraryCache ----------------------------
(***************************************************************************)
(* The cache of the native library (internal/ffi/acquire.go), which        *)
(* processes share without a lock, and what a process opens from it        *)
(* (ffi_supported.go, nativeAPI.load).  A cached file is absent, has the   *)
(* pinned digest ("pinned") or has any other ("other"): one that was       *)
(* truncated or changed before.  A process may be killed at any step.      *)
(***************************************************************************)
EXTENDS Naturals

CONSTANTS
  Procs,  \* processes that load or prefetch
  Last    \* nativeArtifacts, the candidates of the platform, are 1 .. Last

VARIABLES
  cache,   \* the cached file of each artifact
  stage,   \* where each process is
  task,    \* "load" or "prefetch"
  art,     \* the artifact a process is at
  temp,    \* its temporary file: "none", "partial" or a content
  opened   \* what it has opened: "none", "override" or a content

vars == <<cache, stage, task, art, temp, opened>>

Artifacts == 1 .. Last
Contents == {"absent", "pinned", "other"}
Stages ==
  {"idle", "acquire", "read", "secure", "remove", "download", "create", "write",
   "rename", "acquired", "bind", "loaded", "prefetched", "failed"}

\* Whatever earlier versions and an administrator left behind.
Init ==
  /\ cache \in [Artifacts -> Contents]
  /\ stage = [p \in Procs |-> "idle"]
  /\ task = [p \in Procs |-> "load"]
  /\ art = [p \in Procs |-> 1]
  /\ temp = [p \in Procs |-> "none"]
  /\ opened = [p \in Procs |-> "none"]

File(p) == cache[art[p]]
SetFile(p, content) == cache' = [cache EXCEPT ![art[p]] = content]
At(p, place) == stage[p] = place
Goto(p, place) == stage' = [stage EXCEPT ![p] = place]

-----------------------------------------------------------------------------
(* cachedVerifiedLibrary.                                                  *)

\* Lstat.
Inspect(p) ==
  /\ At(p, "acquire")
  /\ Goto(p, IF File(p) = "absent" THEN "download" ELSE "read")
  /\ UNCHANGED <<cache, task, art, temp, opened>>

\* ReadFile and the digest; a file that cannot be read is removed too.
Verify(p) ==
  /\ At(p, "read")
  /\ \/ File(p) = "pinned" /\ Goto(p, "secure")
     \/ Goto(p, "remove")
  /\ UNCHANGED <<cache, task, art, temp, opened>>

\* Chmod fails when the file has gone.
Secure(p) ==
  /\ At(p, "secure")
  /\ Goto(p, IF File(p) = "absent" THEN "failed" ELSE "acquired")
  /\ UNCHANGED <<cache, task, art, temp, opened>>

\* Remove takes the file away that is there now, and fails when none is.
Remove(p) ==
  /\ At(p, "remove")
  /\ SetFile(p, "absent")
  /\ Goto(p, IF File(p) = "absent" THEN "failed" ELSE "download")
  /\ UNCHANGED <<task, art, temp, opened>>

-----------------------------------------------------------------------------
(* downloadArtifact and storeVerifiedLibrary.                              *)

\* Only bytes with the pinned digest are stored.
Download(p) ==
  /\ At(p, "download")
  /\ \E content \in {"pinned", "other"} :
       Goto(p, IF content = "pinned" THEN "create" ELSE "failed")
  /\ UNCHANGED <<cache, task, art, temp, opened>>

CreateTemp(p) ==
  /\ At(p, "create")
  /\ temp' = [temp EXCEPT ![p] = "partial"]
  /\ Goto(p, "write")
  /\ UNCHANGED <<cache, task, art, opened>>

WriteTemp(p) ==
  /\ At(p, "write")
  /\ temp' = [temp EXCEPT ![p] = "pinned"]
  /\ Goto(p, "rename")
  /\ UNCHANGED <<cache, task, art, opened>>

\* The rename replaces what another process may have put there.
Rename(p) ==
  /\ At(p, "rename")
  /\ SetFile(p, temp[p])
  /\ temp' = [temp EXCEPT ![p] = "none"]
  /\ Goto(p, "acquired")
  /\ UNCHANGED <<task, art, opened>>

\* It fails: a file that has the digest will do.
RenameFails(p) ==
  /\ At(p, "rename")
  /\ temp' = [temp EXCEPT ![p] = "none"]
  /\ Goto(p, IF File(p) = "pinned" THEN "acquired" ELSE "failed")
  /\ UNCHANGED <<cache, task, art, opened>>

\* Any other call fails; the temporary file is removed.
AcquireFails(p) ==
  /\ stage[p] \in {"acquire", "secure", "remove", "download", "create", "write"}
  /\ temp' = [temp EXCEPT ![p] = "none"]
  /\ Goto(p, "failed")
  /\ UNCHANGED <<cache, task, art, opened>>

-----------------------------------------------------------------------------
(* Load and Prefetch.                                                      *)

Begin(p) ==
  /\ At(p, "idle")
  /\ task' \in {[task EXCEPT ![p] = t] : t \in {"load", "prefetch"}}
  /\ Goto(p, "acquire")
  /\ UNCHANGED <<cache, art, temp, opened>>

\* RIVET_GO_FFI_LIB: the operator's own file.
LoadOverride(p) ==
  /\ At(p, "idle")
  /\ \/ Goto(p, "bind") /\ opened' = [opened EXCEPT ![p] = "override"]
     \/ Goto(p, "failed") /\ UNCHANGED opened
  /\ UNCHANGED <<cache, task, art, temp>>

NextArtifact(p, otherwise) ==
  IF art[p] < Last
  THEN art' = [art EXCEPT ![p] = @ + 1] /\ Goto(p, "acquire")
  ELSE UNCHANGED art /\ Goto(p, otherwise)

\* openLibrary opens the file that is at the path by now.
Open(p) ==
  /\ At(p, "acquired") /\ task[p] = "load" /\ File(p) # "absent"
  /\ opened' = [opened EXCEPT ![p] = File(p)]
  /\ Goto(p, "bind")
  /\ UNCHANGED <<cache, task, art, temp>>

\* The file has gone or is for another libc: try the next candidate.
OpenFails(p) ==
  /\ At(p, "acquired") /\ task[p] = "load"
  /\ NextArtifact(p, "failed")
  /\ UNCHANGED <<cache, task, temp, opened>>

\* bindAndValidate; a library of another ABI version is closed again.
Bind(p) ==
  /\ At(p, "bind")
  /\ \/ Goto(p, "loaded") /\ UNCHANGED opened
     \/ Goto(p, "failed") /\ opened' = [opened EXCEPT ![p] = "none"]
  /\ UNCHANGED <<cache, task, art, temp>>

Prefetch(p) ==
  /\ At(p, "acquired") /\ task[p] = "prefetch"
  /\ NextArtifact(p, "prefetched")
  /\ UNCHANGED <<cache, task, temp, opened>>

\* The process is killed; its temporary file stays.
Crash(p) ==
  /\ Goto(p, "failed")
  /\ UNCHANGED <<cache, task, art, temp, opened>>

Step(p) ==
  \/ Inspect(p) \/ Verify(p) \/ Secure(p) \/ Remove(p)
  \/ Download(p) \/ CreateTemp(p) \/ WriteTemp(p) \/ Rename(p) \/ RenameFails(p)
  \/ AcquireFails(p) \/ Begin(p) \/ LoadOverride(p) \/ Open(p) \/ OpenFails(p)
  \/ Bind(p) \/ Prefetch(p) \/ Crash(p)

Next == \E p \in Procs : Step(p)

Spec == Init /\ [][Next]_vars

-----------------------------------------------------------------------------
(* Properties.                                                             *)

\* storeVerifiedLibrary renames a complete file, and only after the digest was
\* checked: no step of any process, killed or not, turns a cached file that is
\* absent or has the pinned digest into one that has not.
StaysPinned ==
  [][\A a \in Artifacts : cache[a] # "other" => cache'[a] # "other"]_vars

\* acquireVerifiedLibrary checks the digest long before openLibrary opens the
\* path, and other processes remove and replace the file in between.  What a
\* process opens from the cache has the pinned digest all the same.
OpensPinned == \A p \in Procs : opened[p] \in {"none", "override", "pinned"}
=============================================================================
