---------------------------- MODULE OrbitRouter -----------------------------
(***************************************************************************)
(* How the daemon places a Station into an Orbit, holds the Orbit vacant   *)
(* for exclusive work, and drains on shutdown (src/orbits/router.rs, with  *)
(* the Station's own lifecycle from src/orbital/hosting.rs and             *)
(* crates/runtime/src/lifecycle.rs).  One Orbit is modelled: Orbits meet   *)
(* only in the lifecycle lock and in shutdown's loop over the slots.       *)
(*                                                                         *)
(* The slot's lock is a tokio Mutex, granted in the order it was asked     *)
(* for: `queue` says of whoever asked who asked no later, and the one with *)
(* nobody before it holds the lock.                                        *)
(***************************************************************************)
EXTENDS Integers, FiniteSets

CONSTANTS
    Requests,      \* tasks that route a request to the Orbit
    Connections,   \* those served for a control connection; the others are the daemon's
    Upgrades,      \* the World upgrade worker's, routed without the lifecycle guard
    Ids,           \* bound: StationHost instances alive at a time
    FaultSets      \* what may go wrong together in one behaviour: subsets of Faults

\* What may go wrong.
\*   idle      a Station stops on its own (idle window, store watchdog);
\*   silent    a serving host misses a probe's or a subscription's deadline;
\*   drain     a client of the StationHost outlasts the runner's 5 s drain;
\*   join      a drain outlasts the 10 s (or 15 s) a placement waits for it;
\*   stop      shutdown's waits for connections and for placements expire;
\*   upgrade   the World upgrade worker places Stations.
Faults == {"idle", "silent", "drain", "join", "stop", "upgrade"}

ASSUME RouterAssumption ==
    /\ Connections \subseteq Requests
    /\ Upgrades \subseteq Requests \ Connections
    /\ Ids \subseteq Nat \ {0} /\ IsFiniteSet(Ids)
    /\ FaultSets \subseteq SUBSET Faults
    /\ Requests \cap {"vacate", "shutdown"} = {}

VARIABLES
    req,       \* where each request is in place_address_with_host and after it
    uses,      \* the owned StationHost a request holds an Arc of, 0 for none
    queue,     \* the slot lock: who asked no later than each of its waiters
    known,     \* the Orbit has a slot in the occupancy map
    occ,       \* the Placement in the slot
    alive,     \* that Placement's reachability flag
    starting,  \* the Station a placement in flight has started, 0 for none
    host,      \* the StationHost instances
    lock,      \* the per-home daemon lock: who holds it
    lease,     \* the Orbit's store lock: who holds it
    vac,       \* Router::vacate and the exclusive operation behind it
    sd,        \* Router::shutdown
    joining,   \* the Stations vacate and shutdown wait for
    late,      \* shutdown went on without the lifecycle guard
    hub,       \* the identity's transport endpoints are open
    faults     \* what may go wrong in this behaviour

vars == <<req, uses, queue, known, occ, alive, starting, host, lock, lease, vac, sd,
          joining, late, hub, faults>>

\* Whoever may ask for the slot's lock.
Actors == Requests \cup {"vacate", "shutdown"}

Placing == {"probe", "start", "opening", "ready", "stopping", "retry"}

\* The exclusive operation, as a holder of the store lock.
Operation == -1

None == [mode |-> "vacant", id |-> 0]

Nobody == [stage |-> "none", at |-> "here", stop |-> FALSE]

TypeOK ==
    /\ req \in [Requests -> {"idle", "checked", "queued", "using"} \cup Placing]
    /\ uses \in [Requests -> {0} \cup Ids]
    /\ queue \in [Actors -> SUBSET Actors]
    /\ known \in BOOLEAN
    /\ occ \in [mode : {"vacant", "owned", "attached"}, id : {0} \cup Ids]
    /\ alive \in BOOLEAN
    /\ starting \in {0} \cup Ids
    /\ host \in [Ids -> [stage : {"none", "opening", "up", "draining", "leaked"},
                         at : {"here", "elsewhere"}, stop : BOOLEAN]]
    /\ lock \in {0} \cup Ids
    /\ lease \in {0} \cup Ids \cup {Operation}
    /\ vac \in {"idle", "queued", "draining", "held", "working"}
    /\ sd \in {"run", "connections", "workers", "lifecycle", "collect", "queued", "join", "hub", "done"}
    /\ joining \in [{"vacate", "shutdown"} -> {0} \cup Ids]
    /\ late \in BOOLEAN
    /\ hub \in BOOLEAN
    /\ faults \in FaultSets
    /\ occ.mode = "owned" <=> occ.id # 0
    /\ starting # 0 <=> \E r \in Requests : req[r] \in {"opening", "ready", "stopping"}

Here(i) == host[i].at = "here"

Up == {i \in Ids : host[i].stage = "up"}

\* An id nothing refers to any more.
Free ==
    {i \in Ids : /\ host[i] = Nobody
                 /\ i \notin {occ.id, starting, joining["vacate"], joining["shutdown"]}
                 /\ \A r \in Requests : uses[r] # i}

\* The slot's lock: an actor asks behind those who have, holds the lock when it
\* is first, and gives up its place where its guard or its wait is dropped.
Ask(actor) == queue' = [queue EXCEPT ![actor] = {a \in Actors : queue[a] # {}} \cup {actor}]

Holds(actor) == queue[actor] = {actor}

Leave(S) == queue' = [a \in Actors |-> IF a \in S THEN {} ELSE queue[a] \ S]

\* StationStop::stop.
Stopped(h, i) == IF i = 0 THEN h ELSE [h EXCEPT ![i].stop = (@ \/ h[i].stage # "none")]

\* The lifecycle read side: held from the shutdown check to the answer, by all
\* but advance_world_upgrade.
Readers == {r \in Requests \ Upgrades : req[r] \notin {"idle", "using"}}

\* A tokio RwLock lets no reader past a waiting writer.
WriteAsked == sd \in {"lifecycle", "collect", "queued", "join", "hub", "done"}

-----------------------------------------------------------------------------
(***************************************************************************)
(* Routing a request: place_address_with_host and get_or_try_place.        *)
(***************************************************************************)

Enter(r) ==
    /\ req[r] = "idle"
    /\ ~WriteAsked
    /\ r \in Connections \cup Upgrades => sd = "run"
    /\ r \in Upgrades => "upgrade" \in faults
    /\ req' = [req EXCEPT ![r] = "checked"]
    /\ UNCHANGED <<uses, queue, known, occ, alive, starting, host, lock, lease, vac, sd,
                   joining, late, hub, faults>>

\* get_or_try_place finds or makes the slot and asks for its lock.
Lookup(r) ==
    /\ req[r] = "checked"
    /\ req' = [req EXCEPT ![r] = "queued"]
    /\ Ask(r)
    /\ known' = TRUE
    /\ UNCHANGED <<uses, occ, alive, starting, host, lock, lease, vac, sd, joining,
                   late, hub, faults>>

\* Placement::is_live.
IsLive ==
    /\ alive
    /\ occ.mode = "owned" => host[occ.id].stage \in {"up", "draining"}

\* The answer: an owned host that can still be upgraded is used in place, any
\* other way of serving the request holds nothing of ours.
Answer(r, placement) ==
    /\ Leave({r})
    /\ \/ /\ placement.mode = "owned"
          /\ req' = [req EXCEPT ![r] = "using"]
          /\ uses' = [uses EXCEPT ![r] = placement.id]
       \/ req' = [req EXCEPT ![r] = "idle"] /\ UNCHANGED uses

Reuse(r) ==
    /\ req[r] = "queued" /\ Holds(r)
    /\ occ # None /\ IsLive
    /\ Answer(r, occ)
    /\ UNCHANGED <<known, occ, alive, starting, host, lock, lease, vac, sd, joining,
                   late, hub, faults>>

\* Dropping the last Arc of an owned Placement signals its Station to stop.
Dropped(h, i, users) == IF users = {} THEN Stopped(h, i) ELSE h

\* The slot is vacant, or what is in it is dead and is dropped.
Vacant(r) ==
    /\ req[r] = "queued" /\ Holds(r)
    /\ occ = None \/ ~IsLive
    /\ occ' = None
    /\ host' = Dropped(host, occ.id, {u \in Requests : uses[u] = occ.id})
    /\ req' = [req EXCEPT ![r] = "probe"]
    /\ UNCHANGED <<uses, queue, known, alive, starting, lock, lease, vac, sd,
                   joining, late, hub, faults>>

Establish(r, placement) ==
    /\ occ' = placement
    /\ alive' = TRUE
    /\ starting' = 0
    /\ Answer(r, placement)
    /\ UNCHANGED <<known, host, lock, lease, vac, sd, joining, late, hub, faults>>

\* establish: control::probe answers Healthy, first or while retrying.
Attach(r) ==
    /\ req[r] \in {"probe", "retry"}
    /\ Up # {}
    /\ Establish(r, [mode |-> "attached", id |-> 0])

\* Mutant: the slot's guard outlives a placement that failed.
FailKeepsSlot(r) ==
    /\ req' = [req EXCEPT ![r] = "idle"]
    /\ starting' = 0
    /\ UNCHANGED <<uses, queue, known, occ, alive, host, lock, lease, vac, sd,
                   joining, late, hub, faults>>

Fail(r) ==
    /\ req' = [req EXCEPT ![r] = "idle"]
    /\ Leave({r})
    /\ starting' = 0
    /\ UNCHANGED <<uses, known, occ, alive, host, lock, lease, vac, sd, joining,
                   late, hub, faults>>

\* control::probe answers Foreign: someone accepts and does not answer, or
\* speaks another protocol.
ProbeForeign(r) ==
    /\ req[r] \in {"probe", "retry"}
    /\ \E i \in Ids : \/ host[i].stage = "draining"
                      \/ host[i].stage = "up" /\ ("silent" \in faults \/ ~Here(i))
    /\ Fail(r)

\* control::probe answers Absent.
ProbeAbsent(r) ==
    /\ req[r] = "probe"
    /\ Up = {}
    /\ req' = [req EXCEPT ![r] = "start"]
    /\ UNCHANGED <<uses, queue, known, occ, alive, starting, host, lock, lease, vac,
                   sd, joining, late, hub, faults>>

\* StationRunner::start_inner takes the daemon lock or fails.
Start(r) ==
    /\ req[r] = "start"
    /\ lock = 0
    /\ \E i \in Free :
        /\ host' = [host EXCEPT ![i] = [stage |-> "opening", at |-> "here", stop |-> FALSE]]
        /\ lock' = i
        /\ starting' = i
    /\ req' = [req EXCEPT ![r] = "opening"]
    /\ UNCHANGED <<uses, queue, known, occ, alive, lease, vac, sd, joining, late,
                   hub, faults>>

StartLocked(r) ==
    /\ req[r] = "start"
    /\ lock # 0
    /\ req' = [req EXCEPT ![r] = "retry"]
    /\ UNCHANGED <<uses, queue, known, occ, alive, starting, host, lock, lease, vac,
                   sd, joining, late, hub, faults>>

\* Mutant: the store is opened without its lock.
OpenedUnleased(r) ==
    /\ req[r] = "opening"
    /\ hub
    /\ host' = [host EXCEPT ![starting].stage = "up"]
    /\ lease' = starting
    /\ req' = [req EXCEPT ![r] = "ready"]
    /\ UNCHANGED <<uses, queue, known, occ, alive, starting, lock, vac, sd, joining,
                   late, hub, faults>>

\* StationHost::open_inner: transport and store; the runner is spawned.
Opened(r) ==
    /\ req[r] = "opening"
    /\ lease = 0 /\ hub
    /\ host' = [host EXCEPT ![starting].stage = "up"]
    /\ lease' = starting
    /\ req' = [req EXCEPT ![r] = "ready"]
    /\ UNCHANGED <<uses, queue, known, occ, alive, starting, lock, vac, sd, joining,
                   late, hub, faults>>

\* Mutant: the failed start is still taken for the one in flight.
OpenFailsKept(r) ==
    /\ req[r] = "opening"
    /\ host' = [host EXCEPT ![starting] = Nobody]
    /\ lock' = 0
    /\ req' = [req EXCEPT ![r] = "retry"]
    /\ UNCHANGED <<uses, queue, known, occ, alive, starting, lease, vac, sd, joining,
                   late, hub, faults>>

OpenFails(r) ==
    /\ req[r] = "opening"
    /\ host' = [host EXCEPT ![starting] = Nobody]
    /\ lock' = 0
    /\ starting' = 0
    /\ req' = [req EXCEPT ![r] = "retry"]
    /\ UNCHANGED <<uses, queue, known, occ, alive, lease, vac, sd, joining, late,
                   hub, faults>>

\* wait_until_control_ready.
Ready(r) ==
    /\ req[r] = "ready"
    /\ host[starting].stage = "up"
    /\ Establish(r, [mode |-> "owned", id |-> starting])

\* It fails: the runner is stopped, and waited for within a bound.
NotReady(r) ==
    /\ req[r] = "ready"
    /\ host[starting].stage # "up" \/ "silent" \in faults
    /\ host' = Stopped(host, starting)
    /\ req' = [req EXCEPT ![r] = "stopping"]
    /\ UNCHANGED <<uses, queue, known, occ, alive, starting, lock, lease, vac, sd,
                   joining, late, hub, faults>>

RunnerAwaited(r) ==
    /\ req[r] = "stopping"
    /\ host[starting].stage \in {"none", "leaked"} \/ "join" \in faults
    /\ starting' = 0
    /\ req' = [req EXCEPT ![r] = "retry"]
    /\ UNCHANGED <<uses, queue, known, occ, alive, host, lock, lease, vac, sd,
                   joining, late, hub, faults>>

\* establish gives the winner of the lock a second to become healthy.
GiveUp(r) == req[r] = "retry" /\ Fail(r)

\* The request is answered and lets go of the placement and its host.
Done(r) ==
    /\ req[r] = "using"
    /\ req' = [req EXCEPT ![r] = "idle"]
    /\ uses' = [uses EXCEPT ![r] = 0]
    /\ host' = IF occ.id = uses[r] THEN host
               ELSE Dropped(host, uses[r], {u \in Requests \ {r} : uses[u] = uses[r]})
    /\ UNCHANGED <<queue, known, occ, alive, starting, lock, lease, vac, sd, joining,
                   late, hub, faults>>

\* The doorbell pump: a host that cannot be reached clears the flag.
PumpEnds ==
    /\ occ # None /\ alive
    /\ \/ Up = {} \/ "silent" \in faults
       \/ occ.mode = "owned" /\ host[occ.id].stage # "up"
    /\ alive' = FALSE
    /\ UNCHANGED <<req, uses, queue, known, occ, starting, host, lock, lease, vac,
                   sd, joining, late, hub, faults>>

-----------------------------------------------------------------------------
(***************************************************************************)
(* A StationHost: StationRunner::run, and a host in another process.       *)
(***************************************************************************)

\* Mutants: one of the locks goes as soon as the host stops serving.
StopServingUnlocked(i) ==
    /\ host[i].stage = "up"
    /\ host[i].stop \/ "idle" \in faults \/ ~Here(i)
    /\ host' = [host EXCEPT ![i].stage = "draining", ![i].stop = TRUE]
    /\ lock' = 0
    /\ UNCHANGED <<req, uses, queue, known, occ, alive, starting, lease, vac, sd,
                   joining, late, hub, faults>>

StopServingUnleased(i) ==
    /\ host[i].stage = "up"
    /\ host[i].stop \/ "idle" \in faults \/ ~Here(i)
    /\ host' = [host EXCEPT ![i].stage = "draining", ![i].stop = TRUE]
    /\ lease' = 0
    /\ UNCHANGED <<req, uses, queue, known, occ, alive, starting, lock, vac, sd,
                   joining, late, hub, faults>>

\* serve leaves its loop: told to stop, or of its own accord.
StopServing(i) ==
    /\ host[i].stage = "up"
    /\ host[i].stop \/ "idle" \in faults \/ ~Here(i)
    /\ host' = [host EXCEPT ![i].stage = "draining", ![i].stop = TRUE]
    /\ UNCHANGED <<req, uses, queue, known, occ, alive, starting, lock, lease, vac,
                   sd, joining, late, hub, faults>>

Users(i) == {r \in Requests : uses[r] = i}

\* run: every owner has let go; vacate releases the store lock, then the daemon
\* lock goes.
Drained(i) ==
    /\ host[i].stage = "draining"
    /\ Users(i) = {}
    /\ host' = [host EXCEPT ![i] = Nobody]
    /\ lock' = IF lock = i THEN 0 ELSE lock
    /\ lease' = IF lease = i THEN 0 ELSE lease
    /\ UNCHANGED <<req, uses, queue, known, occ, alive, starting, vac, sd, joining,
                   late, hub, faults>>

\* run: an owner outlasts the drain; the early return drops the daemon lock and
\* leaves the Station to that owner.
DrainTimeout(i) ==
    /\ "drain" \in faults
    /\ host[i].stage = "draining"
    /\ Users(i) # {}
    /\ host' = [host EXCEPT ![i].stage = "leaked"]
    /\ lock' = IF lock = i THEN 0 ELSE lock
    /\ UNCHANGED <<req, uses, queue, known, occ, alive, starting, lease, vac, sd,
                   joining, late, hub, faults>>

\* The last owner drops the Station, and with it the store lock.
LeakEnds(i) ==
    /\ host[i].stage = "leaked"
    /\ Users(i) = {}
    /\ host' = [host EXCEPT ![i] = Nobody]
    /\ lease' = IF lease = i THEN 0 ELSE lease
    /\ UNCHANGED <<req, uses, queue, known, occ, alive, starting, lock, vac, sd,
                   joining, late, hub, faults>>

\* Another process hosts the Orbit.
ElsewhereStarts ==
    /\ lock = 0 /\ lease = 0
    /\ \E i \in Free :
        /\ host' = [host EXCEPT ![i] = [stage |-> "up", at |-> "elsewhere", stop |-> FALSE]]
        /\ lock' = i
        /\ lease' = i
    /\ UNCHANGED <<req, uses, queue, known, occ, alive, starting, vac, sd, joining,
                   late, hub, faults>>

-----------------------------------------------------------------------------
(***************************************************************************)
(* Router::vacate and the exclusive operation it makes room for.           *)
(***************************************************************************)

\* Asked for by the upgrade worker (rebuild) or the fan-out (withdraw_locally).
Vacate ==
    /\ vac = "idle"
    /\ sd = "run"
    /\ vac' = "queued"
    /\ Ask("vacate")
    /\ known' = TRUE
    /\ UNCHANGED <<req, uses, occ, alive, starting, host, lock, lease, sd, joining,
                   late, hub, faults>>

\* Placement::shutdown of what occupied the slot, if it is ours to stop.
VacateTake ==
    /\ vac = "queued" /\ Holds("vacate")
    /\ occ' = None
    /\ host' = Stopped(host, occ.id)
    /\ joining' = [joining EXCEPT !["vacate"] = occ.id]
    /\ vac' = "draining"
    /\ UNCHANGED <<req, uses, queue, known, alive, starting, lock, lease, sd, late,
                   hub, faults>>

\* The runner's task has answered Ok, or has answered at all.
Ended(i) == i \in Ids => host[i].stage = "none"

Returned(i) == i \in Ids => host[i].stage \in {"none", "leaked"}

\* Mutant: vacate answers before the drain it asked for has ended.
VacatedAtOnce ==
    /\ vac = "draining"
    /\ vac' = "held"
    /\ joining' = [joining EXCEPT !["vacate"] = 0]
    /\ UNCHANGED <<req, uses, queue, known, occ, alive, starting, host, lock, lease,
                   sd, late, hub, faults>>

Vacated ==
    /\ vac = "draining"
    /\ Ended(joining["vacate"])
    /\ vac' = "held"
    /\ joining' = [joining EXCEPT !["vacate"] = 0]
    /\ UNCHANGED <<req, uses, queue, known, occ, alive, starting, host, lock, lease,
                   sd, late, hub, faults>>

\* Mutant: the vacancy is leaked instead of dropped.
ReleaseKeepsSlot ==
    /\ vac' = "idle"
    /\ UNCHANGED queue
    /\ joining' = [joining EXCEPT !["vacate"] = 0]

Release ==
    /\ vac' = "idle"
    /\ Leave({"vacate"})
    /\ joining' = [joining EXCEPT !["vacate"] = 0]

\* The placement's shutdown answers Err; the guard goes with it.
VacateFails ==
    /\ vac = "draining"
    /\ joining["vacate"] # 0
    /\ host[joining["vacate"]].stage = "leaked" \/ "join" \in faults
    /\ Release
    /\ UNCHANGED <<req, uses, known, occ, alive, starting, host, lock, lease, sd,
                   late, hub, faults>>

\* rebuild_prior takes the Orbit's store lock, or is refused.
Operate ==
    /\ vac = "held"
    /\ lease = 0
    /\ lease' = Operation
    /\ vac' = "working"
    /\ UNCHANGED <<req, uses, queue, known, occ, alive, starting, host, lock, sd,
                   joining, late, hub, faults>>

OperationRefused ==
    /\ vac = "held"
    /\ lease # 0
    /\ Release
    /\ UNCHANGED <<req, uses, known, occ, alive, starting, host, lock, lease, sd,
                   late, hub, faults>>

OperationEnds ==
    /\ vac = "working"
    /\ lease' = 0
    /\ Release
    /\ UNCHANGED <<req, uses, known, occ, alive, starting, host, lock, sd, late, hub,
                   faults>>

-----------------------------------------------------------------------------
(***************************************************************************)
(* Shutdown: Runner::run, Listener::serve's drain, Router::shutdown.       *)
(***************************************************************************)

BeginStop ==
    /\ sd = "run"
    /\ sd' = "connections"
    /\ UNCHANGED <<req, uses, queue, known, occ, alive, starting, host, lock, lease,
                   vac, joining, late, hub, faults>>

ConnectionsDrained ==
    /\ sd = "connections"
    /\ \A r \in Connections : req[r] = "idle"
    /\ sd' = "workers"
    /\ UNCHANGED <<req, uses, queue, known, occ, alive, starting, host, lock, lease,
                   vac, joining, late, hub, faults>>

\* Mutant: a cancelled request's guard is not dropped with it.
ConnectionsAbortedHolding ==
    LET cut == {r \in Connections : req[r] \notin {"idle", "using"}} IN
    /\ "stop" \in faults
    /\ sd = "connections"
    /\ \E r \in Connections : req[r] # "idle"
    /\ req' = [r \in Requests |-> IF r \in cut THEN "idle" ELSE req[r]]
    /\ IF \E r \in cut : req[r] = "opening"
       THEN host' = [host EXCEPT ![starting] = Nobody] /\ lock' = 0
       ELSE UNCHANGED <<host, lock>>
    /\ starting' = IF \E r \in cut : req[r] \in Placing THEN 0 ELSE starting
    /\ sd' = "workers"
    /\ UNCHANGED <<uses, queue, known, occ, alive, lease, vac, joining, late, hub,
                   faults>>

\* The 10 s pass: the JoinSet is dropped and every task in it is cancelled where
\* it awaits.  A Station still opening goes with its future; one that was
\* spawned runs on.
ConnectionsAborted ==
    LET cut == {r \in Connections : req[r] \notin {"idle", "using"}} IN
    /\ "stop" \in faults
    /\ sd = "connections"
    /\ \E r \in Connections : req[r] # "idle"
    /\ req' = [r \in Requests |-> IF r \in cut THEN "idle" ELSE req[r]]
    /\ Leave(cut)
    /\ IF \E r \in cut : req[r] = "opening"
       THEN host' = [host EXCEPT ![starting] = Nobody] /\ lock' = 0
       ELSE UNCHANGED <<host, lock>>
    /\ starting' = IF \E r \in cut : req[r] \in Placing THEN 0 ELSE starting
    /\ sd' = "workers"
    /\ UNCHANGED <<uses, known, occ, alive, lease, vac, joining, late, hub, faults>>

\* Daemon::serve joins the daemon's own tasks, each for 5 s at most: one that
\* does not finish is left running.
WorkersJoined ==
    /\ sd = "workers"
    /\ "stop" \in faults \/ (vac = "idle" /\ \A r \in Upgrades : req[r] = "idle")
    /\ sd' = "lifecycle"
    /\ UNCHANGED <<req, uses, queue, known, occ, alive, starting, host, lock, lease,
                   vac, joining, late, hub, faults>>

\* Mutant: shutdown goes on as if it had the guard.
GuardedAtOnce ==
    /\ sd = "lifecycle"
    /\ sd' = "collect"
    /\ UNCHANGED <<req, uses, queue, known, occ, alive, starting, host, lock, lease,
                   vac, joining, late, hub, faults>>

\* The write side of the lifecycle lock, or its deadline.
Guarded ==
    /\ sd = "lifecycle"
    /\ Readers = {}
    /\ sd' = "collect"
    /\ UNCHANGED <<req, uses, queue, known, occ, alive, starting, host, lock, lease,
                   vac, joining, late, hub, faults>>

Deadline ==
    /\ "stop" \in faults
    /\ sd = "lifecycle"
    /\ Readers # {}
    /\ sd' = "collect"
    /\ late' = TRUE
    /\ UNCHANGED <<req, uses, queue, known, occ, alive, starting, host, lock, lease,
                   vac, joining, hub, faults>>

\* OrbitOccupancy::placements locks every slot the map holds.
Collect ==
    /\ sd = "collect"
    /\ IF known
       THEN sd' = "queued" /\ Ask("shutdown")
       ELSE sd' = "hub" /\ UNCHANGED queue
    /\ UNCHANGED <<req, uses, known, occ, alive, starting, host, lock, lease, vac,
                   joining, late, hub, faults>>

\* Placement::shutdown of what the slot holds.
Collected ==
    /\ sd = "queued" /\ Holds("shutdown")
    /\ Leave({"shutdown"})
    /\ alive' = FALSE
    /\ host' = Stopped(host, occ.id)
    /\ joining' = [joining EXCEPT !["shutdown"] = occ.id]
    /\ sd' = "join"
    /\ UNCHANGED <<req, uses, known, occ, starting, lock, lease, vac, late, hub,
                   faults>>

\* Mutant: the placements are told to stop and not waited for.
JoinedAtOnce ==
    /\ sd = "join"
    /\ sd' = "hub"
    /\ joining' = [joining EXCEPT !["shutdown"] = 0]
    /\ UNCHANGED <<req, uses, queue, known, occ, alive, starting, host, lock, lease,
                   vac, late, hub, faults>>

Joined ==
    /\ sd = "join"
    /\ "join" \in faults \/ Returned(joining["shutdown"])
    /\ sd' = "hub"
    /\ joining' = [joining EXCEPT !["shutdown"] = 0]
    /\ UNCHANGED <<req, uses, queue, known, occ, alive, starting, host, lock, lease,
                   vac, late, hub, faults>>

\* TransportHubFactory::shutdown.  What still runs goes on until the runtime is
\* torn down.
CloseHub ==
    /\ sd = "hub"
    /\ hub' = FALSE
    /\ sd' = "done"
    /\ UNCHANGED <<req, uses, queue, known, occ, alive, starting, host, lock, lease,
                   vac, joining, late, faults>>

-----------------------------------------------------------------------------

Init ==
    /\ req = [r \in Requests |-> "idle"]
    /\ uses = [r \in Requests |-> 0]
    /\ queue = [a \in Actors |-> {}]
    /\ known = FALSE
    /\ occ = None
    /\ alive = FALSE
    /\ starting = 0
    /\ host = [i \in Ids |-> Nobody]
    /\ lock = 0
    /\ lease = 0
    /\ vac = "idle"
    /\ sd = "run"
    /\ joining = [a \in {"vacate", "shutdown"} |-> 0]
    /\ late = FALSE
    /\ hub = TRUE
    /\ faults \in FaultSets

\* What a request's task does by itself once it has entered.
Route(r) ==
    \/ Lookup(r) \/ Reuse(r) \/ Vacant(r) \/ Attach(r) \/ ProbeForeign(r) \/ ProbeAbsent(r)
    \/ Start(r) \/ StartLocked(r) \/ Opened(r) \/ OpenFails(r) \/ Ready(r) \/ NotReady(r)
    \/ RunnerAwaited(r) \/ GiveUp(r) \/ Done(r)

Drain(i) == (host[i].stop /\ StopServing(i)) \/ Drained(i) \/ DrainTimeout(i) \/ LeakEnds(i)

Exclude ==
    VacateTake \/ Vacated \/ VacateFails \/ Operate \/ OperationRefused \/ OperationEnds

Shutdown ==
    \/ ConnectionsDrained \/ ConnectionsAborted \/ WorkersJoined \/ Guarded \/ Deadline \/ Collect
    \/ Collected \/ Joined \/ CloseHub

Next ==
    \/ \E r \in Requests : Enter(r) \/ Route(r)
    \/ \E i \in Ids : StopServing(i) \/ Drained(i) \/ DrainTimeout(i) \/ LeakEnds(i)
    \/ PumpEnds \/ ElsewhereStarts
    \/ Vacate \/ Exclude
    \/ BeginStop \/ Shutdown

\* Every task the runtime polls makes progress, and the work done under a host
\* ends; nothing obliges a client to ask, a vacancy to be wanted, a Station to
\* idle out, another process to stop or this one to be stopped.
Spec ==
    /\ Init /\ [][Next]_vars
    /\ \A r \in Requests : WF_vars(Route(r))
    /\ \A i \in Ids : WF_vars(Drain(i))
    /\ WF_vars(Exclude)
    /\ WF_vars(Shutdown)

-----------------------------------------------------------------------------
(***************************************************************************)
(* Properties.                                                             *)
(***************************************************************************)

\* Wherever placements are lost, replaced, raced by another process or cut off,
\* two Stations never have the Orbit's store at a time, and none has it while an
\* exclusive operation does.
StoreHasOneOwner ==
    \A i \in Ids : host[i].stage \in {"up", "draining", "leaked"} => lease = i

\* "The runner holds the per-home daemon lock from before activation until after
\* the Station has gone dormant", unless a client outlasts the runner's drain.
LockCoversStation == "drain" \notin faults => \A i \in Ids : host[i].stage # "none" => lock = i

\* No Station stops on its own and no wait expires.
Calm == faults \subseteq {"upgrade"}

\* "Hold the Orbit vacant, so an exclusive store operation can have the lock this
\* process was holding": once vacate has answered, no Station of this daemon has
\* anything of the Orbit left.  Any fault can break it: a Station that is dead and
\* drains is dropped from its slot, and no vacancy waits for it.
VacancyIsVacant ==
    Calm /\ vac \in {"held", "working"} => \A i \in Ids : Here(i) => host[i].stage = "none"

\* "Only after every placement has joined may the identity endpoints close": so it
\* is while nothing outlasts its wait.
HubOutlivesStations == Calm /\ ~hub => \A i \in Ids : Here(i) => host[i].stage = "none"

\* The write side "prevents any new Station from appearing behind its snapshot":
\* once shutdown holds the guard, no placement starts a Station.
NothingBehindSnapshot ==
    [][~(/\ sd \in {"join", "hub"} /\ ~late
         /\ \E i \in Ids : host[i].stage = "none" /\ host'[i].stage = "opening")]_vars

\* Every routed request is answered, whatever happens to the host it meets.
Answered == \A r \in Requests : req[r] # "idle" ~> req[r] = "idle"

\* Router::shutdown: a daemon that is told to stop does, whoever holds or waits for
\* the lifecycle lock, the slot or a Station when it is told.
Stops == sd # "run" ~> sd = "done"

=============================================================================
