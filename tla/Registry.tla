------------------------------ MODULE Registry ------------------------------
(***************************************************************************)
(* rivet.Registry: goroutines register actor definitions while others      *)
(* serve the registry.  Serve claims the registry with a compare-and-swap  *)
(* on an atomic flag and then copies the registrations under the read      *)
(* lock; Register looks at the flag twice, before and under the write      *)
(* lock.  The copy becomes both the engine's manifest and the dispatch     *)
(* table of the pump.                                                      *)
(***************************************************************************)
EXTENDS Naturals

CONSTANTS
  Names,      \* actor names
  Registrars, \* goroutines that call Register
  Servers,    \* goroutines that call Serve
  MaxActors,  \* maxRegisteredActors
  Nobody

VARIABLES
  serving,    \* Registry.serving
  actors,     \* Registry.actors
  size,       \* its length
  mutex,      \* who write-locks Registry.mu
  at,         \* where each registrar is
  name,       \* the name it registers
  server,     \* where each server is
  manifest    \* the registrations it copied

vars == <<serving, actors, size, mutex, at, name, server, manifest>>

Init ==
  /\ serving = FALSE
  /\ actors = {} /\ size = 0
  /\ mutex = Nobody
  /\ at = [r \in Registrars |-> "idle"]
  /\ name \in [Registrars -> Names]
  /\ server = [s \in Servers |-> "idle"]
  /\ manifest = [s \in Servers |-> {}]

Goto(r, where) == at' = [at EXCEPT ![r] = where]

\* Register: the arguments are valid and nobody serves.
Register(r, n) ==
  /\ at[r] = "idle" /\ ~serving
  /\ Goto(r, "checked")
  /\ name' = [name EXCEPT ![r] = n]
  /\ UNCHANGED <<serving, actors, size, mutex, server, manifest>>

Lock(r) ==
  /\ at[r] = "checked" /\ mutex = Nobody
  /\ mutex' = r
  /\ Goto(r, "locked")
  /\ UNCHANGED <<serving, actors, size, name, server, manifest>>

\* The second look at the flag.
Recheck(r) ==
  /\ at[r] = "locked"
  /\ IF serving
     THEN Goto(r, "idle") /\ mutex' = Nobody
     ELSE Goto(r, "cleared") /\ mutex' = mutex
  /\ UNCHANGED <<serving, actors, size, name, server, manifest>>

\* A new name is entered unless the registry is full; the lock is released.
Insert(r) ==
  /\ at[r] = "cleared"
  /\ IF name[r] \notin actors /\ size < MaxActors
     THEN actors' = actors \cup {name[r]} /\ size' = size + 1
     ELSE UNCHANGED <<actors, size>>
  /\ mutex' = Nobody
  /\ Goto(r, "idle")
  /\ UNCHANGED <<serving, name, server, manifest>>

\* Serve: the compare-and-swap; a second server is refused.
Serve(s) ==
  /\ server[s] = "idle" /\ ~serving
  /\ serving' = TRUE
  /\ server' = [server EXCEPT ![s] = "claimed"]
  /\ UNCHANGED <<actors, size, mutex, at, name, manifest>>

\* snapshotActors, under the read lock.
SnapshotActors(s) ==
  /\ server[s] = "claimed" /\ mutex = Nobody
  /\ manifest' = [manifest EXCEPT ![s] = actors]
  /\ server' = [server EXCEPT ![s] = "running"]
  /\ UNCHANGED <<serving, actors, size, mutex, at, name>>

\* The configuration is refused, the runner does not start, or the pump ends;
\* the deferred store lets others register and serve again.
Return(s) ==
  /\ server[s] = "running"
  /\ server' = [server EXCEPT ![s] = "idle"]
  /\ serving' = FALSE
  /\ UNCHANGED <<actors, size, mutex, at, name, manifest>>

Next ==
  \/ \E r \in Registrars :
       (\E n \in Names : Register(r, n)) \/ Lock(r) \/ Recheck(r) \/ Insert(r)
  \/ \E s \in Servers : Serve(s) \/ SnapshotActors(s) \/ Return(s)

Spec == Init /\ [][Next]_vars

-----------------------------------------------------------------------------
\* "Registrations are immutable while Serve is running so the engine manifest
\* and Go dispatcher always describe the same actor names and actions"
\* (Register): whatever calls of Register were under way when Serve claimed the
\* registry, nothing is entered behind the copy that is being served.
ManifestMatches == \A s \in Servers : server[s] = "running" => manifest[s] = actors

\* "Registry ... may serve only once at a time": one server is past the
\* compare-and-swap, and the flag is up until it returns.
ServesOnce ==
  \A s \in Servers : server[s] # "idle" =>
    serving /\ \A t \in Servers \ {s} : server[t] = "idle"
=============================================================================
