-------------------------- MODULE OrbitRouterProofs --------------------------
(***************************************************************************)
(* The Orbit router's safety, for any number of requests and of Stations.  *)
(* One inductive invariant, RouterInv, carries all of it; its parts are    *)
(* the slot's lock and who holds it, the two locks of the store, the order *)
(* shutdown goes in, and what a calm behaviour knows of every Station.     *)
(***************************************************************************)
EXTENDS OrbitRouter, TLAPS

Owning == {"up", "draining", "leaked"}

\* Shutdown has asked for the lifecycle guard and gone on, with it or late.
Behind == {"collect", "queued", "join", "hub", "done"}

\* The parts of the type invariant, and the two facts it states of the slot.
ReqShape ==
    /\ req \in [Requests -> {"idle", "checked", "queued", "using"} \cup Placing]
    /\ uses \in [Requests -> {0} \cup Ids]
    /\ queue \in [Actors -> SUBSET Actors]

HostShape ==
    /\ host \in [Ids -> [stage : {"none", "opening", "up", "draining", "leaked"},
                         at : {"here", "elsewhere"}, stop : BOOLEAN]]
    /\ lock \in {0} \cup Ids
    /\ lease \in {0} \cup Ids \cup {Operation}

SlotShape ==
    /\ known \in BOOLEAN /\ alive \in BOOLEAN
    /\ occ \in [mode : {"vacant", "owned", "attached"}, id : {0} \cup Ids]
    /\ occ.mode = "owned" <=> occ.id # 0

StopShape ==
    /\ vac \in {"idle", "queued", "draining", "held", "working"}
    /\ sd \in {"run", "connections", "workers", "lifecycle", "collect", "queued", "join", "hub", "done"}
    /\ joining \in [{"vacate", "shutdown"} -> {0} \cup Ids]
    /\ late \in BOOLEAN /\ hub \in BOOLEAN /\ faults \in FaultSets

StartShape ==
    /\ starting \in {0} \cup Ids
    /\ starting # 0 <=> \E r \in Requests : req[r] \in {"opening", "ready", "stopping"}

\* The slot's lock is granted in one order: any two who asked are related by it.
QueueInv ==
    /\ \A a \in Actors : queue[a] # {} => a \in queue[a]
    /\ \A a, b \in Actors : queue[a] # {} /\ queue[b] # {} => a \in queue[b] \/ b \in queue[a]
    /\ \A a, b \in Actors : b \in queue[a] => queue[b] # {}

\* Whoever waits for the slot or works under it has asked, and no one else has.
AskInv ==
    /\ \A r \in Requests : queue[r] # {} <=> req[r] \in {"queued"} \cup Placing
    /\ queue["vacate"] # {} <=> vac # "idle"
    /\ queue["shutdown"] # {} <=> sd = "queued"
    /\ ~known => \A a \in Actors : queue[a] = {}

\* A placement and a vacancy work under the slot's lock, and under it the slot is empty.
HoldInv ==
    /\ \A r \in Requests : req[r] \in Placing => Holds(r) /\ occ = None
    /\ vac \in {"draining", "held", "working"} => Holds("vacate") /\ occ = None

\* The Station that opens is the one the placement in flight has started.
StartInv ==
    /\ \A r \in Requests :
        req[r] = "opening" => host[starting] = [stage |-> "opening", at |-> "here", stop |-> FALSE]
    /\ \A i \in Ids : host[i].stage = "opening" =>
          i = starting /\ \E r \in Requests : req[r] = "opening"
    /\ \A r \in Requests : starting # 0 => uses[r] # starting

\* The exclusive operation has the store lock as long as it works.
LeaseInv == StoreHasOneOwner /\ (vac = "working" <=> lease = Operation)

\* What vacate and shutdown wait for, and what each step of shutdown leaves behind.
StopInv ==
    /\ vac # "draining" => joining["vacate"] = 0
    /\ sd # "join" => joining["shutdown"] = 0
    /\ hub <=> sd # "done"
    /\ ~known => occ = None
    /\ late => "stop" \in faults
    /\ "stop" \notin faults /\ WriteAsked => vac = "idle"

\* The lifecycle guard keeps requests out of the steps behind it, and the join of the
\* workers keeps the upgrades out, unless a wait expired.
GuardInv ==
    /\ ~late /\ sd \in Behind => \A r \in Requests \ Upgrades : req[r] \in {"idle", "using"}
    /\ \A r \in Upgrades : req[r] # "idle" => "upgrade" \in faults
    /\ "stop" \notin faults /\ WriteAsked => \A r \in Upgrades : req[r] = "idle"

\* Where nothing stops on its own and no wait expires, every Station of this daemon is
\* the one in the slot, the one being started or one that is waited for.
CalmHosts ==
    Calm => \A i \in Ids :
        /\ host[i].stage # "leaked"
        /\ Here(i) /\ host[i].stage # "none" =>
              i \in {occ.id, starting, joining["vacate"], joining["shutdown"]}

\* The one in the slot serves until shutdown collects it.
CalmSlot ==
    Calm /\ occ.mode = "owned" /\ sd \notin {"join", "hub", "done"} =>
        alive /\ host[occ.id] = [stage |-> "up", at |-> "here", stop |-> FALSE]

\* The one that has opened serves until it is in the slot.
CalmPlacing ==
    Calm => \A r \in Requests :
        /\ req[r] # "stopping"
        /\ req[r] = "ready" => host[starting] = [stage |-> "up", at |-> "here", stop |-> FALSE]

\* The one shutdown waits for is the last.
CalmStop ==
    Calm => /\ sd = "join" => occ.id \in {0, joining["shutdown"]}
            /\ sd \in {"hub", "done"} => \A i \in Ids : Here(i) => host[i].stage = "none"

RouterInv ==
    /\ ReqShape /\ HostShape /\ SlotShape /\ StopShape /\ StartShape
    /\ QueueInv /\ AskInv /\ HoldInv /\ StartInv
    /\ LeaseInv /\ LockCoversStation
    /\ StopInv /\ GuardInv /\ CalmHosts /\ CalmSlot /\ CalmPlacing /\ CalmStop


-----------------------------------------------------------------------------
(***************************************************************************)
(* The slot's lock.                                                        *)
(***************************************************************************)

LEMMA TypeParts == TypeOK <=> ReqShape /\ HostShape /\ SlotShape /\ StopShape /\ StartShape
  BY DEF TypeOK, ReqShape, HostShape, SlotShape, StopShape, StartShape

\* The lock has one holder.
LEMMA OneHolder ==
    ASSUME ReqShape, QueueInv, NEW a \in Actors, NEW b \in Actors, Holds(a), Holds(b)
    PROVE  a = b
  BY DEF QueueInv, Holds

\* Asking puts an actor that had not asked behind all who had.
LEMMA AskFacts ==
    ASSUME ReqShape, QueueInv, NEW a \in Actors, queue[a] = {}, Ask(a)
    PROVE  /\ queue' \in [Actors -> SUBSET Actors] /\ QueueInv'
           /\ queue'[a] # {}
           /\ \A b \in Actors \ {a} : queue'[b] = queue[b]
  <1>1. queue \in [Actors -> SUBSET Actors]
    BY DEF ReqShape
  <1>2. queue' = [queue EXCEPT ![a] = {b \in Actors : queue[b] # {}} \cup {a}]
    BY DEF Ask
  <1>3. queue' \in [Actors -> SUBSET Actors]
    BY <1>1, <1>2
  <1>4. queue'[a] = {b \in Actors : queue[b] # {}} \cup {a}
    BY <1>1, <1>2
  <1>5. \A b \in Actors \ {a} : queue'[b] = queue[b]
    BY <1>1, <1>2
  <1>6. \A b, c \in Actors : c \in queue[b] => c # a
    BY DEF QueueInv
  <1>7. QueueInv'
    BY <1>3, <1>4, <1>5, <1>6 DEF QueueInv
  <1> QED
    BY <1>3, <1>4, <1>5, <1>7

\* Leaving takes an actor's place and keeps everyone else's; who is first stays first.
LEMMA LeaveFacts ==
    ASSUME ReqShape, QueueInv, NEW S, Leave(S)
    PROVE  /\ queue' \in [Actors -> SUBSET Actors] /\ QueueInv'
           /\ \A a \in Actors : queue'[a] # {} <=> queue[a] # {} /\ a \notin S
           /\ \A a \in Actors \ S : Holds(a) => Holds(a)'
  <1>1. queue \in [Actors -> SUBSET Actors]
    BY DEF ReqShape
  <1>2. queue' = [a \in Actors |-> IF a \in S THEN {} ELSE queue[a] \ S]
    BY DEF Leave
  <1>3. queue' \in [Actors -> SUBSET Actors]
    BY <1>1, <1>2
  <1>4. \A a \in Actors : a \in S => queue'[a] = {}
    BY <1>2
  <1>5. \A a \in Actors : a \notin S => queue'[a] = queue[a] \ S
    BY <1>2
  <1>6. \A a \in Actors : queue'[a] # {} <=> queue[a] # {} /\ a \notin S
    BY <1>1, <1>4, <1>5 DEF QueueInv
  <1>7. QueueInv'
    BY <1>1, <1>3, <1>4, <1>5, <1>6 DEF QueueInv
  <1>8. \A a \in Actors \ S : Holds(a) => Holds(a)'
    BY <1>5 DEF Holds
  <1> QED
    BY <1>3, <1>6, <1>7, <1>8

\* Who holds the lock, and is no placement under way itself, meets none.
LEMMA Alone ==
    ASSUME RouterInv, NEW a \in Actors, Holds(a)
    PROVE  /\ \A r \in Requests \ {a} : req[r] \notin Placing
           /\ a # "vacate" => vac \in {"idle", "queued"}
           /\ (a \in Requests => req[a] \notin {"opening", "ready", "stopping"}) => starting = 0
  <1>0. ReqShape /\ QueueInv /\ HoldInv /\ StopShape /\ StartShape /\ Requests \subseteq Actors /\ "vacate" \in Actors
    BY DEF RouterInv, Actors
  <1>1. \A r \in Requests \ {a} : req[r] \notin Placing
    BY <1>0, OneHolder DEF HoldInv
  <1>2. a # "vacate" => vac \in {"idle", "queued"}
    BY <1>0, OneHolder DEF HoldInv, StopShape
  <1>3. (a \in Requests => req[a] \notin {"opening", "ready", "stopping"}) => starting = 0
    BY <1>0, <1>1 DEF StartShape, Placing
  <1> QED
    BY <1>1, <1>2, <1>3

\* Signalling a Station to stop changes no more than its flag.
LEMMA StoppedFacts ==
    ASSUME HostShape, NEW i \in {0} \cup Ids
    PROVE  /\ Stopped(host, i) \in [Ids -> [stage : {"none", "opening", "up", "draining", "leaked"},
                                            at : {"here", "elsewhere"}, stop : BOOLEAN]]
           /\ \A j \in Ids : /\ Stopped(host, i)[j].stage = host[j].stage
                             /\ Stopped(host, i)[j].at = host[j].at
                             /\ j # i => Stopped(host, i)[j] = host[j]
  <1>1. CASE i = 0
    BY <1>1 DEF Stopped, HostShape
  <1>2. CASE i # 0
    BY <1>2 DEF Stopped, HostShape
  <1> QED
    BY <1>1, <1>2

\* The values a host can have.
LEMMA HostType ==
    ASSUME HostShape, NEW i \in Ids
    PROVE  /\ host[i].stage \in {"none", "opening", "up", "draining", "leaked"}
           /\ host[i].at \in {"here", "elsewhere"} /\ host[i].stop \in BOOLEAN
           /\ host[i] = [stage |-> host[i].stage, at |-> host[i].at, stop |-> host[i].stop]
           /\ i # 0 /\ i # Operation
  BY RouterAssumption DEF HostShape, Operation

\* A calm daemon that collects its placements has no request and no vacancy under way.
LEMMA CalmBehind ==
    ASSUME RouterInv, Calm, sd \in Behind
    PROVE  /\ \A r \in Requests : req[r] \in {"idle", "using"}
           /\ starting = 0 /\ vac = "idle" /\ joining["vacate"] = 0
  <1>0. StartShape /\ ReqShape /\ StopInv /\ GuardInv /\ "stop" \notin faults
    BY DEF RouterInv, Calm
  <1>1. vac = "idle" /\ \A r \in Upgrades : req[r] = "idle"
    BY <1>0 DEF StopInv, GuardInv, WriteAsked, Behind
  <1>2. \A r \in Requests \ Upgrades : req[r] \in {"idle", "using"}
    BY <1>0 DEF StopInv, GuardInv
  <1>3. \A r \in Requests : req[r] \in {"idle", "using"}
    BY <1>1, <1>2
  <1>4. starting = 0
    BY <1>0, <1>3 DEF StartShape
  <1> QED
    BY <1>0, <1>1, <1>3, <1>4 DEF StopInv

LEMMA NoId == 0 \notin Ids /\ Operation \notin Ids /\ Operation # 0
  BY RouterAssumption DEF Operation

-----------------------------------------------------------------------------
(***************************************************************************)
(* Routing a request.                                                      *)
(***************************************************************************)

LEMMA EnterKeeps ==
    ASSUME RouterInv, NEW r \in Requests, Enter(r)
    PROVE  RouterInv'
  <1>0. /\ ReqShape /\ HostShape /\ SlotShape /\ StopShape /\ StartShape
        /\ QueueInv /\ AskInv /\ HoldInv /\ StartInv /\ LeaseInv /\ LockCoversStation
        /\ StopInv /\ GuardInv /\ CalmHosts /\ CalmSlot /\ CalmPlacing /\ CalmStop
    BY DEF RouterInv
  <1>1. UNCHANGED <<uses, queue, known, occ, alive, starting, host, lock, lease, vac, sd,
                    joining, late, hub, faults>>
    BY DEF Enter
  <1>4. /\ req[r] = "idle"
        /\ req'[r] = "checked"
        /\ \A s \in Requests \ {r} : req'[s] = req[s]
        /\ ~WriteAsked
        /\ r \in Upgrades => sd = "run" /\ "upgrade" \in faults
    BY <1>0 DEF Enter, ReqShape
  <1>a. ReqShape'
    BY <1>0, <1>1 DEF Enter, ReqShape, Placing
  <1>e. StartShape'
    BY <1>0, <1>1, <1>4 DEF StartShape, ReqShape
  <1>k. AskInv'
    BY <1>0, <1>1, <1>4 DEF AskInv, Placing, Actors
  <1>h. HoldInv'
    BY <1>0, <1>1, <1>4 DEF HoldInv, Holds, Placing, Actors
  <1>s. StartInv'
    BY <1>0, <1>1, <1>4 DEF StartInv, StartShape, ReqShape
  <1>r. GuardInv'
    BY <1>0, <1>1, <1>4, RouterAssumption DEF GuardInv, WriteAsked, Behind
  <1>y. CalmPlacing'
    BY <1>0, <1>1, <1>4 DEF CalmPlacing, Calm, StartShape
  <1>f. /\ HostShape' /\ SlotShape' /\ StopShape' /\ QueueInv' /\ LeaseInv'
        /\ LockCoversStation' /\ StopInv' /\ CalmHosts' /\ CalmSlot' /\ CalmStop'
    BY <1>0, <1>1 DEF HostShape, SlotShape, StopShape, QueueInv, LeaseInv, StoreHasOneOwner,
       LockCoversStation, StopInv, WriteAsked, CalmHosts, Calm, Here, CalmSlot, CalmStop
  <1> QED
    BY <1>a, <1>e, <1>k, <1>h, <1>s, <1>r, <1>y, <1>f DEF RouterInv

LEMMA LookupKeeps ==
    ASSUME RouterInv, NEW r \in Requests, Lookup(r)
    PROVE  RouterInv'
  <1>0. /\ ReqShape /\ HostShape /\ SlotShape /\ StopShape /\ StartShape
        /\ QueueInv /\ AskInv /\ HoldInv /\ StartInv /\ LeaseInv /\ LockCoversStation
        /\ StopInv /\ GuardInv /\ CalmHosts /\ CalmSlot /\ CalmPlacing /\ CalmStop
    BY DEF RouterInv
  <1>1. UNCHANGED <<uses, occ, alive, starting, host, lock, lease, vac, sd, joining, late, hub,
                    faults>>
    BY DEF Lookup
  <1>2. Ask(r) /\ queue[r] = {} /\ r \in Actors
    BY <1>0 DEF Lookup, AskInv, Actors, Placing
  <1>3. /\ queue' \in [Actors -> SUBSET Actors] /\ QueueInv'
        /\ queue'[r] # {}
        /\ \A a \in Actors \ {r} : queue'[a] = queue[a]
    BY <1>0, <1>2, AskFacts
  <1>4. /\ req[r] = "checked"
        /\ req'[r] = "queued"
        /\ \A s \in Requests \ {r} : req'[s] = req[s]
        /\ known'
    BY <1>0 DEF Lookup, ReqShape
  <1>a. ReqShape'
    BY <1>0, <1>1, <1>3 DEF Lookup, ReqShape, Placing
  <1>c. SlotShape'
    BY <1>0, <1>1 DEF Lookup, SlotShape
  <1>e. StartShape'
    BY <1>0, <1>1, <1>4 DEF StartShape, ReqShape
  <1>q. QueueInv'
    BY <1>3
  <1>k. AskInv'
    BY <1>0, <1>1, <1>4, <1>3, RouterAssumption DEF AskInv, Placing, Actors
  <1>h. HoldInv'
    BY <1>0, <1>1, <1>4, <1>3, RouterAssumption DEF HoldInv, Holds, Placing, Actors
  <1>s. StartInv'
    BY <1>0, <1>1, <1>4 DEF StartInv, StartShape, ReqShape
  <1>p. StopInv'
    BY <1>0, <1>1, <1>4 DEF StopInv, WriteAsked, StopShape
  <1>r. GuardInv'
    BY <1>0, <1>1, <1>4, RouterAssumption DEF GuardInv, WriteAsked, Behind
  <1>y. CalmPlacing'
    BY <1>0, <1>1, <1>4 DEF CalmPlacing, Calm, StartShape
  <1>f. /\ HostShape' /\ StopShape' /\ LeaseInv' /\ LockCoversStation' /\ CalmHosts'
        /\ CalmSlot' /\ CalmStop'
    BY <1>0, <1>1 DEF HostShape, StopShape, LeaseInv, StoreHasOneOwner, LockCoversStation,
       CalmHosts, Calm, Here, CalmSlot, CalmStop
  <1> QED
    BY <1>a, <1>c, <1>e, <1>q, <1>k, <1>h, <1>s, <1>p, <1>r, <1>y, <1>f DEF RouterInv

LEMMA ReuseKeeps ==
    ASSUME RouterInv, NEW r \in Requests, Reuse(r)
    PROVE  RouterInv'
  <1>0. /\ ReqShape /\ HostShape /\ SlotShape /\ StopShape /\ StartShape
        /\ QueueInv /\ AskInv /\ HoldInv /\ StartInv /\ LeaseInv /\ LockCoversStation
        /\ StopInv /\ GuardInv /\ CalmHosts /\ CalmSlot /\ CalmPlacing /\ CalmStop
    BY DEF RouterInv
  <1>1. UNCHANGED <<known, occ, alive, starting, host, lock, lease, vac, sd, joining, late, hub,
                    faults>>
    BY DEF Reuse, Answer
  <1>2. Leave({r})
    BY DEF Reuse, Answer
  <1>3. /\ queue' \in [Actors -> SUBSET Actors] /\ QueueInv'
        /\ \A a \in Actors : queue'[a] # {} <=> queue[a] # {} /\ a # r
        /\ \A a \in Actors : a # r /\ Holds(a) => Holds(a)'
    BY <1>0, <1>2, LeaveFacts
  <1>4. /\ req[r] = "queued"
        /\ req'[r] \in {"using", "idle"}
        /\ \A s \in Requests \ {r} : req'[s] = req[s]
        /\ uses'[r] \in {uses[r], occ.id}
        /\ \A s \in Requests \ {r} : uses'[s] = uses[s]
    BY <1>0 DEF Reuse, Answer, ReqShape
  <1>a5. r \in Actors /\ r # "vacate" /\ Holds(r) /\ req[r] \notin {"opening", "ready", "stopping"}
    BY <1>0, RouterAssumption DEF Reuse, Answer, HoldInv, Actors, Placing
  <1>5. /\ \A s \in Requests \ {r} : req[s] \notin Placing
        /\ vac \in {"idle", "queued"}
        /\ starting = 0
    BY <1>a5, Alone
  <1>6. Calm => sd \notin Behind
    BY <1>4, CalmBehind
  <1>7. known
    BY <1>0, <1>a5 DEF AskInv, Holds
  <1>a. ReqShape'
    BY <1>0, <1>3, <1>4 DEF Reuse, Answer, ReqShape, SlotShape, Placing
  <1>e. StartShape'
    BY <1>0, <1>1, <1>4, <1>5 DEF StartShape, ReqShape
  <1>q. QueueInv'
    BY <1>3
  <1>k. AskInv'
    BY <1>0, <1>1, <1>4, <1>5, <1>7, <1>3, RouterAssumption DEF AskInv, Placing, Actors
  <1>h. HoldInv'
    BY <1>0, <1>1, <1>4, <1>5, <1>3, RouterAssumption DEF HoldInv, Placing, Actors
  <1>s. StartInv'
    BY <1>0, <1>1, <1>4, <1>5 DEF StartInv, StartShape, ReqShape
  <1>r. GuardInv'
    BY <1>0, <1>1, <1>4, RouterAssumption DEF GuardInv, WriteAsked, Behind
  <1>y. CalmPlacing'
    BY <1>0, <1>1, <1>4, <1>5 DEF CalmPlacing, Calm, StartShape
  <1>f. /\ HostShape' /\ SlotShape' /\ StopShape' /\ LeaseInv' /\ LockCoversStation'
        /\ StopInv' /\ CalmHosts' /\ CalmSlot' /\ CalmStop'
    BY <1>0, <1>1 DEF HostShape, SlotShape, StopShape, LeaseInv, StoreHasOneOwner,
       LockCoversStation, StopInv, WriteAsked, CalmHosts, Calm, Here, CalmSlot, CalmStop
  <1> QED
    BY <1>a, <1>e, <1>q, <1>k, <1>h, <1>s, <1>r, <1>y, <1>f DEF RouterInv

LEMMA VacantKeeps ==
    ASSUME RouterInv, NEW r \in Requests, Vacant(r)
    PROVE  RouterInv'
  <1>0. /\ ReqShape /\ HostShape /\ SlotShape /\ StopShape /\ StartShape
        /\ QueueInv /\ AskInv /\ HoldInv /\ StartInv /\ LeaseInv /\ LockCoversStation
        /\ StopInv /\ GuardInv /\ CalmHosts /\ CalmSlot /\ CalmPlacing /\ CalmStop
    BY DEF RouterInv
  <1>1. UNCHANGED <<uses, queue, known, alive, starting, lock, lease, vac, sd, joining, late,
                    hub, faults>>
    BY DEF Vacant
  <1>g. req[r] = "queued" /\ Holds(r) /\ occ' = None /\ (occ = None \/ ~IsLive)
    BY DEF Vacant
  <1>i. host' \in {host, Stopped(host, occ.id)} /\ occ.id \in {0} \cup Ids
    BY <1>0 DEF Vacant, Dropped, SlotShape
  <1>j. host' \in [Ids -> [stage : {"none", "opening", "up", "draining", "leaked"},
                              at : {"here", "elsewhere"}, stop : BOOLEAN]]
    BY <1>0, <1>i, StoppedFacts DEF HostShape
  <1>m. /\ \A j \in Ids : host'[j].stage = host[j].stage /\ host'[j].at = host[j].at
        /\ \A j \in Ids : j # occ.id => host'[j] = host[j]
    <2>1. CASE host' = host
      BY <2>1
    <2>2. CASE host' = Stopped(host, occ.id)
      BY <1>0, <1>i, <2>2, StoppedFacts
    <2> QED
      BY <1>i, <2>1, <2>2
  <1>4. /\ req'[r] = "probe"
        /\ \A s \in Requests \ {r} : req'[s] = req[s]
    BY <1>0 DEF Vacant, ReqShape
  <1>a5. r \in Actors /\ r # "vacate" /\ Holds(r) /\ req[r] \notin {"opening", "ready", "stopping"}
    BY <1>0, RouterAssumption DEF Vacant, HoldInv, Actors, Placing
  <1>5. /\ \A s \in Requests \ {r} : req[s] \notin Placing
        /\ vac \in {"idle", "queued"}
        /\ starting = 0
    BY <1>a5, Alone
  <1>6. Calm => sd \notin Behind
    BY <1>g, CalmBehind
  <1>8. Calm => occ.id = 0
    BY <1>0, <1>g, <1>6 DEF CalmSlot, IsLive, SlotShape, None, Behind
  <1>a. ReqShape'
    BY <1>0, <1>1 DEF Vacant, ReqShape, Placing
  <1>b. HostShape'
    BY <1>0, <1>1, <1>j DEF HostShape
  <1>c. SlotShape'
    BY <1>0, <1>1 DEF Vacant, SlotShape, None
  <1>e. StartShape'
    BY <1>0, <1>1, <1>g, <1>m, <1>4, <1>5, <1>8 DEF StartShape, ReqShape
  <1>k. AskInv'
    BY <1>0, <1>1, <1>g, <1>m, <1>4, <1>5, <1>8 DEF AskInv, Placing, Actors
  <1>h. HoldInv'
    BY <1>0, <1>1, <1>g, <1>m, <1>4, <1>5, <1>8, <1>a5 DEF HoldInv, Holds, Placing, Actors, None
  <1>s. StartInv'
    BY <1>0, <1>1, <1>g, <1>m, <1>4, <1>5, <1>8 DEF StartInv, StartShape, ReqShape
  <1>l. LeaseInv'
    BY <1>0, <1>1, <1>g, <1>m, <1>4, <1>8, NoId DEF LeaseInv, StoreHasOneOwner, HostShape
  <1>o. LockCoversStation'
    BY <1>0, <1>1, <1>g, <1>m, <1>4, <1>8, NoId DEF LockCoversStation, HostShape
  <1>p. StopInv'
    BY <1>0, <1>1, <1>g, <1>m, <1>4, <1>8 DEF StopInv, WriteAsked, StopShape
  <1>r. GuardInv'
    BY <1>0, <1>1, <1>g, <1>m, <1>4, <1>8, RouterAssumption DEF GuardInv, WriteAsked, Behind
  <1>w. CalmHosts'
    BY <1>0, <1>1, <1>g, <1>m, <1>4, <1>5, <1>8, NoId DEF CalmHosts, Calm, Here, HostShape, None
  <1>x. CalmSlot'
    BY <1>0, <1>1, <1>g, <1>m, <1>4, <1>6, <1>8 DEF CalmSlot, Calm, SlotShape, None
  <1>y. CalmPlacing'
    BY <1>0, <1>1, <1>g, <1>m, <1>4, <1>5, <1>8 DEF CalmPlacing, Calm, StartShape
  <1>z. CalmStop'
    BY <1>0, <1>1, <1>g, <1>m, <1>4, <1>6, <1>8 DEF CalmStop, Calm, Here, Behind, None
  <1>f. /\ StopShape' /\ QueueInv'
    BY <1>0, <1>1 DEF StopShape, QueueInv
  <1> QED
    BY <1>a, <1>b, <1>c, <1>e, <1>k, <1>h, <1>s, <1>l, <1>o, <1>p, <1>r, <1>w, <1>x, <1>y, <1>z,
       <1>f DEF RouterInv

LEMMA AttachKeeps ==
    ASSUME RouterInv, NEW r \in Requests, Attach(r)
    PROVE  RouterInv'
  <1>0. /\ ReqShape /\ HostShape /\ SlotShape /\ StopShape /\ StartShape
        /\ QueueInv /\ AskInv /\ HoldInv /\ StartInv /\ LeaseInv /\ LockCoversStation
        /\ StopInv /\ GuardInv /\ CalmHosts /\ CalmSlot /\ CalmPlacing /\ CalmStop
    BY DEF RouterInv
  <1>1. UNCHANGED <<known, host, lock, lease, vac, sd, joining, late, hub, faults>>
    BY DEF Attach, Establish, Answer
  <1>2. Leave({r})
    BY DEF Attach, Establish, Answer
  <1>3. /\ queue' \in [Actors -> SUBSET Actors] /\ QueueInv'
        /\ \A a \in Actors : queue'[a] # {} <=> queue[a] # {} /\ a # r
        /\ \A a \in Actors : a # r /\ Holds(a) => Holds(a)'
    BY <1>0, <1>2, LeaveFacts
  <1>4. /\ req[r] \in {"probe", "retry"}
        /\ req'[r] = "idle"
        /\ \A s \in Requests \ {r} : req'[s] = req[s]
        /\ occ' = [mode |-> "attached", id |-> 0]
        /\ starting' = 0
        /\ uses' = uses
        /\ alive'
    BY <1>0 DEF Attach, Establish, Answer, ReqShape
  <1>a5. r \in Actors /\ r # "vacate" /\ Holds(r) /\ req[r] \notin {"opening", "ready", "stopping"}
    BY <1>0, RouterAssumption DEF Attach, Establish, Answer, HoldInv, Actors, Placing
  <1>5. /\ \A s \in Requests \ {r} : req[s] \notin Placing
        /\ vac \in {"idle", "queued"}
        /\ starting = 0
    BY <1>a5, Alone
  <1>6. Calm => sd \notin Behind
    BY <1>4, CalmBehind
  <1>7. known
    BY <1>0, <1>a5 DEF AskInv, Holds
  <1>a. ReqShape'
    BY <1>0, <1>1, <1>3 DEF Attach, Establish, Answer, ReqShape, Placing
  <1>c. SlotShape'
    BY <1>0, <1>1 DEF Attach, Establish, Answer, SlotShape, None
  <1>e. StartShape'
    BY <1>0, <1>1, <1>4, <1>5 DEF StartShape, ReqShape
  <1>q. QueueInv'
    BY <1>3
  <1>k. AskInv'
    BY <1>0, <1>1, <1>4, <1>5, <1>7, <1>3, RouterAssumption DEF AskInv, Placing, Actors
  <1>h. HoldInv'
    BY <1>0, <1>1, <1>4, <1>5, <1>3, RouterAssumption DEF HoldInv, Placing, Actors, None
  <1>s. StartInv'
    BY <1>0, <1>1, <1>4, <1>5 DEF StartInv, StartShape, ReqShape
  <1>p. StopInv'
    BY <1>0, <1>1, <1>4, <1>7 DEF StopInv, WriteAsked, StopShape
  <1>r. GuardInv'
    BY <1>0, <1>1, <1>4, RouterAssumption DEF GuardInv, WriteAsked, Behind
  <1>w. CalmHosts'
    BY <1>0, <1>1, <1>4, <1>5, NoId DEF CalmHosts, Calm, Here, HostShape, HoldInv, Placing, None
  <1>x. CalmSlot'
    BY <1>0, <1>1, <1>4, <1>6 DEF CalmSlot, Calm, SlotShape
  <1>y. CalmPlacing'
    BY <1>0, <1>1, <1>4, <1>5 DEF CalmPlacing, Calm, StartShape
  <1>z. CalmStop'
    BY <1>0, <1>1, <1>4, <1>6 DEF CalmStop, Calm, Here, Behind
  <1>f. /\ HostShape' /\ StopShape' /\ LeaseInv' /\ LockCoversStation'
    BY <1>0, <1>1 DEF HostShape, StopShape, LeaseInv, StoreHasOneOwner, LockCoversStation
  <1> QED
    BY <1>a, <1>c, <1>e, <1>q, <1>k, <1>h, <1>s, <1>p, <1>r, <1>w, <1>x, <1>y, <1>z, <1>f
       DEF RouterInv

LEMMA ProbeForeignKeeps ==
    ASSUME RouterInv, NEW r \in Requests, ProbeForeign(r)
    PROVE  RouterInv'
  <1>0. /\ ReqShape /\ HostShape /\ SlotShape /\ StopShape /\ StartShape
        /\ QueueInv /\ AskInv /\ HoldInv /\ StartInv /\ LeaseInv /\ LockCoversStation
        /\ StopInv /\ GuardInv /\ CalmHosts /\ CalmSlot /\ CalmPlacing /\ CalmStop
    BY DEF RouterInv
  <1>1. UNCHANGED <<uses, known, occ, alive, host, lock, lease, vac, sd, joining, late, hub,
                    faults>>
    BY DEF ProbeForeign, Fail
  <1>2. Leave({r})
    BY DEF ProbeForeign, Fail
  <1>3. /\ queue' \in [Actors -> SUBSET Actors] /\ QueueInv'
        /\ \A a \in Actors : queue'[a] # {} <=> queue[a] # {} /\ a # r
        /\ \A a \in Actors : a # r /\ Holds(a) => Holds(a)'
    BY <1>0, <1>2, LeaveFacts
  <1>4. /\ req[r] \in {"probe", "retry"}
        /\ req'[r] = "idle"
        /\ \A s \in Requests \ {r} : req'[s] = req[s]
        /\ starting' = 0
    BY <1>0 DEF ProbeForeign, Fail, ReqShape
  <1>a5. r \in Actors /\ r # "vacate" /\ Holds(r) /\ req[r] \notin {"opening", "ready", "stopping"}
    BY <1>0, RouterAssumption DEF ProbeForeign, Fail, HoldInv, Actors, Placing
  <1>5. /\ \A s \in Requests \ {r} : req[s] \notin Placing
        /\ vac \in {"idle", "queued"}
        /\ starting = 0
    BY <1>a5, Alone
  <1>a. ReqShape'
    BY <1>0, <1>1, <1>3 DEF ProbeForeign, Fail, ReqShape, Placing
  <1>e. StartShape'
    BY <1>0, <1>1, <1>4, <1>5 DEF StartShape, ReqShape
  <1>q. QueueInv'
    BY <1>3
  <1>k. AskInv'
    BY <1>0, <1>1, <1>4, <1>5, <1>3, RouterAssumption DEF AskInv, Placing, Actors
  <1>h. HoldInv'
    BY <1>0, <1>1, <1>4, <1>5, <1>3, RouterAssumption DEF HoldInv, Placing, Actors
  <1>s. StartInv'
    BY <1>0, <1>1, <1>4, <1>5 DEF StartInv, StartShape, ReqShape
  <1>r. GuardInv'
    BY <1>0, <1>1, <1>4, RouterAssumption DEF GuardInv, WriteAsked, Behind
  <1>w. CalmHosts'
    BY <1>0, <1>1, <1>4, <1>5, NoId DEF CalmHosts, Calm, Here, HostShape
  <1>y. CalmPlacing'
    BY <1>0, <1>1, <1>4, <1>5 DEF CalmPlacing, Calm, StartShape
  <1>f. /\ HostShape' /\ SlotShape' /\ StopShape' /\ LeaseInv' /\ LockCoversStation'
        /\ StopInv' /\ CalmSlot' /\ CalmStop'
    BY <1>0, <1>1 DEF HostShape, SlotShape, StopShape, LeaseInv, StoreHasOneOwner,
       LockCoversStation, StopInv, WriteAsked, CalmSlot, Calm, CalmStop, Here
  <1> QED
    BY <1>a, <1>e, <1>q, <1>k, <1>h, <1>s, <1>r, <1>w, <1>y, <1>f DEF RouterInv

LEMMA ProbeAbsentKeeps ==
    ASSUME RouterInv, NEW r \in Requests, ProbeAbsent(r)
    PROVE  RouterInv'
  <1>0. /\ ReqShape /\ HostShape /\ SlotShape /\ StopShape /\ StartShape
        /\ QueueInv /\ AskInv /\ HoldInv /\ StartInv /\ LeaseInv /\ LockCoversStation
        /\ StopInv /\ GuardInv /\ CalmHosts /\ CalmSlot /\ CalmPlacing /\ CalmStop
    BY DEF RouterInv
  <1>1. UNCHANGED <<uses, queue, known, occ, alive, starting, host, lock, lease, vac, sd,
                    joining, late, hub, faults>>
    BY DEF ProbeAbsent
  <1>4. /\ req[r] = "probe"
        /\ req'[r] = "start"
        /\ \A s \in Requests \ {r} : req'[s] = req[s]
    BY <1>0 DEF ProbeAbsent, ReqShape
  <1>a5. r \in Actors /\ r # "vacate" /\ Holds(r) /\ req[r] \notin {"opening", "ready", "stopping"}
    BY <1>0, RouterAssumption DEF ProbeAbsent, HoldInv, Actors, Placing
  <1>5. /\ \A s \in Requests \ {r} : req[s] \notin Placing
        /\ vac \in {"idle", "queued"}
        /\ starting = 0
    BY <1>a5, Alone
  <1>a. ReqShape'
    BY <1>0, <1>1 DEF ProbeAbsent, ReqShape, Placing
  <1>e. StartShape'
    BY <1>0, <1>1, <1>4, <1>5 DEF StartShape, ReqShape
  <1>k. AskInv'
    BY <1>0, <1>1, <1>4, <1>5 DEF AskInv, Placing, Actors
  <1>h. HoldInv'
    BY <1>0, <1>1, <1>4, <1>5 DEF HoldInv, Holds, Placing, Actors
  <1>s. StartInv'
    BY <1>0, <1>1, <1>4, <1>5 DEF StartInv, StartShape, ReqShape
  <1>r. GuardInv'
    BY <1>0, <1>1, <1>4, RouterAssumption DEF GuardInv, WriteAsked, Behind
  <1>y. CalmPlacing'
    BY <1>0, <1>1, <1>4, <1>5 DEF CalmPlacing, Calm, StartShape
  <1>f. /\ HostShape' /\ SlotShape' /\ StopShape' /\ QueueInv' /\ LeaseInv'
        /\ LockCoversStation' /\ StopInv' /\ CalmHosts' /\ CalmSlot' /\ CalmStop'
    BY <1>0, <1>1 DEF HostShape, SlotShape, StopShape, QueueInv, LeaseInv, StoreHasOneOwner,
       LockCoversStation, StopInv, WriteAsked, CalmHosts, Calm, Here, CalmSlot, CalmStop
  <1> QED
    BY <1>a, <1>e, <1>k, <1>h, <1>s, <1>r, <1>y, <1>f DEF RouterInv

LEMMA StartKeeps ==
    ASSUME RouterInv, NEW r \in Requests, Start(r)
    PROVE  RouterInv'
  <1>0. /\ ReqShape /\ HostShape /\ SlotShape /\ StopShape /\ StartShape
        /\ QueueInv /\ AskInv /\ HoldInv /\ StartInv /\ LeaseInv /\ LockCoversStation
        /\ StopInv /\ GuardInv /\ CalmHosts /\ CalmSlot /\ CalmPlacing /\ CalmStop
    BY DEF RouterInv
  <1>1. UNCHANGED <<uses, queue, known, occ, alive, lease, vac, sd, joining, late, hub, faults>>
    BY DEF Start
  <1>i. PICK i \in Free : /\ host' = [host EXCEPT ![i] = [stage |-> "opening", at |-> "here", stop |-> FALSE]]
                        /\ lock' = i /\ starting' = i
    BY DEF Start
  <1>j. i \in Ids /\ host[i] = [stage |-> "none", at |-> "here", stop |-> FALSE]
        /\ i # occ.id /\ i # starting
        /\ i # joining["vacate"] /\ i # joining["shutdown"] /\ \A s \in Requests : uses[s] # i
    BY DEF Free, Nobody
  <1>4. /\ req[r] = "start"
        /\ req'[r] = "opening"
        /\ \A s \in Requests \ {r} : req'[s] = req[s]
        /\ lock = 0
        /\ host'[i] = [stage |-> "opening", at |-> "here", stop |-> FALSE]
        /\ \A j \in Ids \ {i} : host'[j] = host[j]
        /\ lock' = i
        /\ starting' = i
    BY <1>0, <1>i, <1>j DEF Start, ReqShape, HostShape
  <1>a5. r \in Actors /\ r # "vacate" /\ Holds(r) /\ req[r] \notin {"opening", "ready", "stopping"}
    BY <1>0, RouterAssumption DEF Start, HoldInv, Actors, Placing
  <1>5. /\ \A s \in Requests \ {r} : req[s] \notin Placing
        /\ vac \in {"idle", "queued"}
        /\ starting = 0
    BY <1>a5, Alone
  <1>6. Calm => sd \notin Behind
    BY <1>4, CalmBehind
  <1>7. known
    BY <1>0, <1>a5 DEF AskInv, Holds
  <1>a. ReqShape'
    BY <1>0, <1>1 DEF Start, ReqShape, Placing
  <1>b. HostShape'
    BY <1>0, <1>i, <1>j, <1>1 DEF HostShape
  <1>e. StartShape'
    BY <1>0, <1>1, <1>j, <1>4, <1>5 DEF StartShape, ReqShape
  <1>k. AskInv'
    BY <1>0, <1>1, <1>j, <1>4, <1>5, <1>7 DEF AskInv, Placing, Actors
  <1>h. HoldInv'
    BY <1>0, <1>1, <1>j, <1>4, <1>5 DEF HoldInv, Holds, Placing, Actors
  <1>s. StartInv'
    BY <1>0, <1>1, <1>j, <1>4, <1>5 DEF StartInv, StartShape, ReqShape
  <1>l. LeaseInv'
    BY <1>0, <1>1, <1>j, <1>4, NoId DEF LeaseInv, StoreHasOneOwner, HostShape
  <1>o. LockCoversStation'
    BY <1>0, <1>1, <1>j, <1>4, NoId DEF LockCoversStation, HostShape
  <1>r. GuardInv'
    BY <1>0, <1>1, <1>j, <1>4, RouterAssumption DEF GuardInv, WriteAsked, Behind
  <1>w. CalmHosts'
    BY <1>0, <1>1, <1>j, <1>4, <1>5, NoId DEF CalmHosts, Calm, Here, HostShape
  <1>x. CalmSlot'
    BY <1>0, <1>1, <1>j, <1>4, <1>6 DEF CalmSlot, Calm, SlotShape
  <1>y. CalmPlacing'
    BY <1>0, <1>1, <1>j, <1>4, <1>5 DEF CalmPlacing, Calm, StartShape
  <1>z. CalmStop'
    BY <1>0, <1>1, <1>j, <1>4, <1>6 DEF CalmStop, Calm, Here, Behind
  <1>f. /\ SlotShape' /\ StopShape' /\ QueueInv' /\ StopInv'
    BY <1>0, <1>1 DEF SlotShape, StopShape, QueueInv, StopInv, WriteAsked
  <1> QED
    BY <1>a, <1>b, <1>e, <1>k, <1>h, <1>s, <1>l, <1>o, <1>r, <1>w, <1>x, <1>y, <1>z, <1>f
       DEF RouterInv

LEMMA StartLockedKeeps ==
    ASSUME RouterInv, NEW r \in Requests, StartLocked(r)
    PROVE  RouterInv'
  <1>0. /\ ReqShape /\ HostShape /\ SlotShape /\ StopShape /\ StartShape
        /\ QueueInv /\ AskInv /\ HoldInv /\ StartInv /\ LeaseInv /\ LockCoversStation
        /\ StopInv /\ GuardInv /\ CalmHosts /\ CalmSlot /\ CalmPlacing /\ CalmStop
    BY DEF RouterInv
  <1>1. UNCHANGED <<uses, queue, known, occ, alive, starting, host, lock, lease, vac, sd,
                    joining, late, hub, faults>>
    BY DEF StartLocked
  <1>4. /\ req[r] = "start"
        /\ req'[r] = "retry"
        /\ \A s \in Requests \ {r} : req'[s] = req[s]
    BY <1>0 DEF StartLocked, ReqShape
  <1>a5. r \in Actors /\ r # "vacate" /\ Holds(r) /\ req[r] \notin {"opening", "ready", "stopping"}
    BY <1>0, RouterAssumption DEF StartLocked, HoldInv, Actors, Placing
  <1>5. /\ \A s \in Requests \ {r} : req[s] \notin Placing
        /\ vac \in {"idle", "queued"}
        /\ starting = 0
    BY <1>a5, Alone
  <1>a. ReqShape'
    BY <1>0, <1>1 DEF StartLocked, ReqShape, Placing
  <1>e. StartShape'
    BY <1>0, <1>1, <1>4, <1>5 DEF StartShape, ReqShape
  <1>k. AskInv'
    BY <1>0, <1>1, <1>4, <1>5 DEF AskInv, Placing, Actors
  <1>h. HoldInv'
    BY <1>0, <1>1, <1>4, <1>5 DEF HoldInv, Holds, Placing, Actors
  <1>s. StartInv'
    BY <1>0, <1>1, <1>4, <1>5 DEF StartInv, StartShape, ReqShape
  <1>r. GuardInv'
    BY <1>0, <1>1, <1>4, RouterAssumption DEF GuardInv, WriteAsked, Behind
  <1>y. CalmPlacing'
    BY <1>0, <1>1, <1>4, <1>5 DEF CalmPlacing, Calm, StartShape
  <1>f. /\ HostShape' /\ SlotShape' /\ StopShape' /\ QueueInv' /\ LeaseInv'
        /\ LockCoversStation' /\ StopInv' /\ CalmHosts' /\ CalmSlot' /\ CalmStop'
    BY <1>0, <1>1 DEF HostShape, SlotShape, StopShape, QueueInv, LeaseInv, StoreHasOneOwner,
       LockCoversStation, StopInv, WriteAsked, CalmHosts, Calm, Here, CalmSlot, CalmStop
  <1> QED
    BY <1>a, <1>e, <1>k, <1>h, <1>s, <1>r, <1>y, <1>f DEF RouterInv

LEMMA OpenedKeeps ==
    ASSUME RouterInv, NEW r \in Requests, Opened(r)
    PROVE  RouterInv'
  <1>0. /\ ReqShape /\ HostShape /\ SlotShape /\ StopShape /\ StartShape
        /\ QueueInv /\ AskInv /\ HoldInv /\ StartInv /\ LeaseInv /\ LockCoversStation
        /\ StopInv /\ GuardInv /\ CalmHosts /\ CalmSlot /\ CalmPlacing /\ CalmStop
    BY DEF RouterInv
  <1>1. UNCHANGED <<uses, queue, known, occ, alive, starting, lock, vac, sd, joining, late, hub,
                    faults>>
    BY DEF Opened
  <1>i. starting \in Ids /\ starting # 0 /\ host[starting] = [stage |-> "opening", at |-> "here", stop |-> FALSE]
    BY <1>0 DEF Opened, StartShape, StartInv
  <1>j. /\ host' \in [Ids -> [stage : {"none", "opening", "up", "draining", "leaked"},
                              at : {"here", "elsewhere"}, stop : BOOLEAN]]
        /\ \A j \in Ids \ {starting} : host'[j] = host[j]
    BY <1>0, <1>i DEF Opened, HostShape
  <1>m. host'[starting].stage = "up" /\ host'[starting].at = host[starting].at
        /\ host'[starting].stop = host[starting].stop
    BY <1>0, <1>i DEF Opened, HostShape
  <1>u. host'[starting].stage = "up" /\ host'[starting].at = "here" /\ host'[starting].stop = FALSE
    BY <1>i, <1>m
  <1>n. /\ host'[starting] = [stage |-> "up", at |-> "here", stop |-> FALSE]
        /\ \A j \in Ids \ {starting} : host'[j] = host[j]
    BY <1>i, <1>j, <1>u
  <1>4. /\ req[r] = "opening"
        /\ req'[r] = "ready"
        /\ \A s \in Requests \ {r} : req'[s] = req[s]
        /\ lease = 0
        /\ lease' = starting
    BY <1>0, <1>i DEF Opened, ReqShape, HostShape, Nobody
  <1>a5. r \in Actors /\ r # "vacate" /\ Holds(r)
    BY <1>0, RouterAssumption DEF Opened, HoldInv, Actors, Placing
  <1>5. /\ \A s \in Requests \ {r} : req[s] \notin Placing
        /\ vac \in {"idle", "queued"}
    BY <1>a5, Alone
  <1>6. Calm => sd \notin Behind
    BY <1>4, CalmBehind
  <1>7. known
    BY <1>0, <1>a5 DEF AskInv, Holds
  <1>a. ReqShape'
    BY <1>0, <1>1 DEF Opened, ReqShape, Placing
  <1>b. HostShape'
    BY <1>0, <1>1 DEF Opened, HostShape, Nobody, StartShape
  <1>e. StartShape'
    BY <1>0, <1>1, <1>i, <1>n, <1>4, <1>5 DEF StartShape, ReqShape
  <1>k. AskInv'
    BY <1>0, <1>1, <1>i, <1>n, <1>4, <1>5, <1>7 DEF AskInv, Placing, Actors
  <1>h. HoldInv'
    BY <1>0, <1>1, <1>i, <1>n, <1>4, <1>5 DEF HoldInv, Holds, Placing, Actors
  <1>s. StartInv'
    BY <1>0, <1>1, <1>i, <1>n, <1>4, <1>5 DEF StartInv, StartShape, ReqShape
  <1>l. LeaseInv'
    BY <1>0, <1>1, <1>i, <1>n, <1>4, NoId DEF LeaseInv, StoreHasOneOwner, HostShape
  <1>o. LockCoversStation'
    BY <1>0, <1>1, <1>i, <1>n, <1>4, NoId DEF LockCoversStation, HostShape
  <1>r. GuardInv'
    BY <1>0, <1>1, <1>i, <1>n, <1>4, RouterAssumption DEF GuardInv, WriteAsked, Behind
  <1>w. CalmHosts'
    BY <1>0, <1>1, <1>i, <1>n, <1>4, <1>5, NoId DEF CalmHosts, Calm, Here, HostShape
  <1>x. CalmSlot'
    BY <1>0, <1>1, <1>i, <1>n, <1>4, <1>6 DEF CalmSlot, Calm, SlotShape
  <1>y. CalmPlacing'
    BY <1>0, <1>1, <1>i, <1>n, <1>4, <1>5 DEF CalmPlacing, Calm, StartShape
  <1>z. CalmStop'
    BY <1>0, <1>1, <1>i, <1>n, <1>4, <1>6 DEF CalmStop, Calm, Here, Behind
  <1>f. /\ SlotShape' /\ StopShape' /\ QueueInv' /\ StopInv'
    BY <1>0, <1>1 DEF SlotShape, StopShape, QueueInv, StopInv, WriteAsked
  <1> QED
    BY <1>a, <1>b, <1>e, <1>k, <1>h, <1>s, <1>l, <1>o, <1>r, <1>w, <1>x, <1>y, <1>z, <1>f
       DEF RouterInv

LEMMA OpenFailsKeeps ==
    ASSUME RouterInv, NEW r \in Requests, OpenFails(r)
    PROVE  RouterInv'
  <1>0. /\ ReqShape /\ HostShape /\ SlotShape /\ StopShape /\ StartShape
        /\ QueueInv /\ AskInv /\ HoldInv /\ StartInv /\ LeaseInv /\ LockCoversStation
        /\ StopInv /\ GuardInv /\ CalmHosts /\ CalmSlot /\ CalmPlacing /\ CalmStop
    BY DEF RouterInv
  <1>1. UNCHANGED <<uses, queue, known, occ, alive, lease, vac, sd, joining, late, hub, faults>>
    BY DEF OpenFails
  <1>i. starting \in Ids /\ starting # 0 /\ host[starting] = [stage |-> "opening", at |-> "here", stop |-> FALSE]
    BY <1>0 DEF OpenFails, StartShape, StartInv
  <1>4. /\ req[r] = "opening"
        /\ req'[r] = "retry"
        /\ \A s \in Requests \ {r} : req'[s] = req[s]
        /\ lock' = 0
        /\ starting' = 0
        /\ host'[starting] = [stage |-> "none", at |-> "here", stop |-> FALSE]
        /\ \A j \in Ids \ {starting} : host'[j] = host[j]
    BY <1>0, <1>i DEF OpenFails, ReqShape, HostShape, Nobody
  <1>a5. r \in Actors /\ r # "vacate" /\ Holds(r)
    BY <1>0, RouterAssumption DEF OpenFails, HoldInv, Actors, Placing
  <1>5. /\ \A s \in Requests \ {r} : req[s] \notin Placing
        /\ vac \in {"idle", "queued"}
    BY <1>a5, Alone
  <1>6. Calm => sd \notin Behind
    BY <1>4, CalmBehind
  <1>7. known
    BY <1>0, <1>a5 DEF AskInv, Holds
  <1>a. ReqShape'
    BY <1>0, <1>1 DEF OpenFails, ReqShape, Placing
  <1>b. HostShape'
    BY <1>0, <1>1 DEF OpenFails, HostShape, Nobody, StartShape
  <1>e. StartShape'
    BY <1>0, <1>1, <1>i, <1>4, <1>5 DEF StartShape, ReqShape
  <1>k. AskInv'
    BY <1>0, <1>1, <1>i, <1>4, <1>5, <1>7 DEF AskInv, Placing, Actors
  <1>h. HoldInv'
    BY <1>0, <1>1, <1>i, <1>4, <1>5 DEF HoldInv, Holds, Placing, Actors
  <1>s. StartInv'
    BY <1>0, <1>1, <1>i, <1>4, <1>5 DEF StartInv, StartShape, ReqShape, Placing
  <1>l. LeaseInv'
    BY <1>0, <1>1, <1>i, <1>4, NoId DEF LeaseInv, StoreHasOneOwner, HostShape
  <1>o. LockCoversStation'
    BY <1>0, <1>1, <1>i, <1>4, NoId DEF LockCoversStation, HostShape
  <1>r. GuardInv'
    BY <1>0, <1>1, <1>i, <1>4, RouterAssumption DEF GuardInv, WriteAsked, Behind
  <1>w. CalmHosts'
    BY <1>0, <1>1, <1>i, <1>4, <1>5, NoId DEF CalmHosts, Calm, Here, HostShape
  <1>x. CalmSlot'
    BY <1>0, <1>1, <1>i, <1>4, <1>6 DEF CalmSlot, Calm, SlotShape
  <1>y. CalmPlacing'
    BY <1>0, <1>1, <1>i, <1>4, <1>5 DEF CalmPlacing, Calm, StartShape
  <1>z. CalmStop'
    BY <1>0, <1>1, <1>i, <1>4, <1>6 DEF CalmStop, Calm, Here, Behind
  <1>f. /\ SlotShape' /\ StopShape' /\ QueueInv' /\ StopInv'
    BY <1>0, <1>1 DEF SlotShape, StopShape, QueueInv, StopInv, WriteAsked
  <1> QED
    BY <1>a, <1>b, <1>e, <1>k, <1>h, <1>s, <1>l, <1>o, <1>r, <1>w, <1>x, <1>y, <1>z, <1>f
       DEF RouterInv

LEMMA ReadyKeeps ==
    ASSUME RouterInv, NEW r \in Requests, Ready(r)
    PROVE  RouterInv'
  <1>0. /\ ReqShape /\ HostShape /\ SlotShape /\ StopShape /\ StartShape
        /\ QueueInv /\ AskInv /\ HoldInv /\ StartInv /\ LeaseInv /\ LockCoversStation
        /\ StopInv /\ GuardInv /\ CalmHosts /\ CalmSlot /\ CalmPlacing /\ CalmStop
    BY DEF RouterInv
  <1>1. UNCHANGED <<known, host, lock, lease, vac, sd, joining, late, hub, faults>>
    BY DEF Ready, Establish, Answer
  <1>i. starting \in Ids /\ starting # 0
    BY <1>0 DEF Ready, StartShape
  <1>2. Leave({r})
    BY DEF Ready, Establish, Answer
  <1>3. /\ queue' \in [Actors -> SUBSET Actors] /\ QueueInv'
        /\ \A a \in Actors : queue'[a] # {} <=> queue[a] # {} /\ a # r
        /\ \A a \in Actors : a # r /\ Holds(a) => Holds(a)'
    BY <1>0, <1>2, LeaveFacts
  <1>4. /\ req[r] = "ready"
        /\ req'[r] \in {"using", "idle"}
        /\ \A s \in Requests \ {r} : req'[s] = req[s]
        /\ uses'[r] \in {uses[r], starting}
        /\ \A s \in Requests \ {r} : uses'[s] = uses[s]
        /\ occ' = [mode |-> "owned", id |-> starting]
        /\ starting' = 0
        /\ alive'
    BY <1>0, <1>i DEF Ready, Establish, Answer, ReqShape
  <1>a5. r \in Actors /\ r # "vacate" /\ Holds(r)
    BY <1>0, RouterAssumption DEF Ready, Establish, Answer, HoldInv, Actors, Placing
  <1>5. /\ \A s \in Requests \ {r} : req[s] \notin Placing
        /\ vac \in {"idle", "queued"}
    BY <1>a5, Alone
  <1>6. Calm => sd \notin Behind
    BY <1>4, CalmBehind
  <1>7. known
    BY <1>0, <1>a5 DEF AskInv, Holds
  <1>a. ReqShape'
    BY <1>0, <1>3, <1>4, <1>i DEF Ready, Establish, Answer, ReqShape, Placing
  <1>c. SlotShape'
    BY <1>0, <1>1, <1>4, <1>i DEF SlotShape
  <1>e. StartShape'
    BY <1>0, <1>1, <1>i, <1>4, <1>5 DEF StartShape, ReqShape
  <1>q. QueueInv'
    BY <1>3
  <1>k. AskInv'
    BY <1>0, <1>1, <1>i, <1>4, <1>5, <1>7, <1>3, RouterAssumption DEF AskInv, Placing, Actors
  <1>h. HoldInv'
    BY <1>0, <1>1, <1>i, <1>4, <1>5, <1>3, RouterAssumption DEF HoldInv, Placing, Actors, None
  <1>s. StartInv'
    BY <1>0, <1>1, <1>i, <1>4, <1>5 DEF StartInv, StartShape, ReqShape, Placing
  <1>p. StopInv'
    BY <1>0, <1>1, <1>i, <1>4, <1>7 DEF StopInv, WriteAsked, StopShape
  <1>r. GuardInv'
    BY <1>0, <1>1, <1>i, <1>4, RouterAssumption DEF GuardInv, WriteAsked, Behind
  <1>w. CalmHosts'
    BY <1>0, <1>1, <1>i, <1>4, <1>5, NoId
       DEF CalmHosts, Calm, Here, HostShape, HoldInv, Placing, None
  <1>x. CalmSlot'
    BY <1>0, <1>1, <1>i, <1>4, <1>6 DEF CalmSlot, Calm, SlotShape, CalmPlacing
  <1>y. CalmPlacing'
    BY <1>0, <1>1, <1>i, <1>4, <1>5 DEF CalmPlacing, Calm, StartShape, Placing
  <1>z. CalmStop'
    BY <1>0, <1>1, <1>i, <1>4, <1>6 DEF CalmStop, Calm, Here, Behind
  <1>f. /\ HostShape' /\ StopShape' /\ LeaseInv' /\ LockCoversStation'
    BY <1>0, <1>1 DEF HostShape, StopShape, LeaseInv, StoreHasOneOwner, LockCoversStation
  <1> QED
    BY <1>a, <1>c, <1>e, <1>q, <1>k, <1>h, <1>s, <1>p, <1>r, <1>w, <1>x, <1>y, <1>z, <1>f
       DEF RouterInv

LEMMA NotReadyKeeps ==
    ASSUME RouterInv, NEW r \in Requests, NotReady(r)
    PROVE  RouterInv'
  <1>0. /\ ReqShape /\ HostShape /\ SlotShape /\ StopShape /\ StartShape
        /\ QueueInv /\ AskInv /\ HoldInv /\ StartInv /\ LeaseInv /\ LockCoversStation
        /\ StopInv /\ GuardInv /\ CalmHosts /\ CalmSlot /\ CalmPlacing /\ CalmStop
    BY DEF RouterInv
  <1>1. UNCHANGED <<uses, queue, known, occ, alive, starting, lock, lease, vac, sd, joining,
                    late, hub, faults>>
    BY DEF NotReady
  <1>i. /\ host' = Stopped(host, starting) /\ starting \in {0} \cup Ids
    BY <1>0 DEF NotReady, StartShape
  <1>j. host' \in [Ids -> [stage : {"none", "opening", "up", "draining", "leaked"},
                              at : {"here", "elsewhere"}, stop : BOOLEAN]]
    BY <1>0, <1>i, StoppedFacts
  <1>m. /\ \A j \in Ids : host'[j].stage = host[j].stage /\ host'[j].at = host[j].at
        /\ \A j \in Ids : j # starting => host'[j] = host[j]
    BY <1>0, <1>i, StoppedFacts
  <1>4. /\ req[r] = "ready"
        /\ req'[r] = "stopping"
        /\ \A s \in Requests \ {r} : req'[s] = req[s]
        /\ host[starting].stage # "up" \/ "silent" \in faults
    BY <1>0 DEF NotReady, ReqShape
  <1>a5. r \in Actors /\ r # "vacate" /\ Holds(r)
    BY <1>0, RouterAssumption DEF NotReady, HoldInv, Actors, Placing
  <1>5. /\ \A s \in Requests \ {r} : req[s] \notin Placing
        /\ vac \in {"idle", "queued"}
    BY <1>a5, Alone
  <1>6. Calm => sd \notin Behind
    BY <1>4, CalmBehind
  <1>7. known
    BY <1>0, <1>a5 DEF AskInv, Holds
  <1>a. ReqShape'
    BY <1>0, <1>1 DEF NotReady, ReqShape, Placing
  <1>b. HostShape'
    BY <1>0, <1>1, <1>j DEF HostShape
  <1>e. StartShape'
    BY <1>0, <1>1, <1>m, <1>4, <1>5 DEF StartShape, ReqShape
  <1>k. AskInv'
    BY <1>0, <1>1, <1>m, <1>4, <1>5, <1>7 DEF AskInv, Placing, Actors
  <1>h. HoldInv'
    BY <1>0, <1>1, <1>m, <1>4, <1>5 DEF HoldInv, Holds, Placing, Actors
  <1>s. StartInv'
    BY <1>0, <1>1, <1>m, <1>4, <1>5 DEF StartInv, StartShape, ReqShape
  <1>l. LeaseInv'
    BY <1>0, <1>1, <1>m, NoId DEF LeaseInv, StoreHasOneOwner, HostShape
  <1>o. LockCoversStation'
    BY <1>0, <1>1, <1>m, NoId DEF LockCoversStation, HostShape
  <1>r. GuardInv'
    BY <1>0, <1>1, <1>m, <1>4, RouterAssumption DEF GuardInv, WriteAsked, Behind
  <1>w. CalmHosts'
    BY <1>0, <1>1, <1>m, <1>4, <1>5, NoId DEF CalmHosts, Calm, Here, HostShape, CalmPlacing
  <1>x. CalmSlot'
    BY <1>0, <1>1, <1>m, <1>4, <1>6 DEF CalmSlot, Calm, SlotShape, CalmPlacing
  <1>y. CalmPlacing'
    BY <1>0, <1>1, <1>m, <1>4, <1>5 DEF CalmPlacing, Calm, StartShape
  <1>z. CalmStop'
    BY <1>0, <1>1, <1>m, <1>4, <1>6 DEF CalmStop, Calm, Here, Behind, CalmPlacing
  <1>f. /\ SlotShape' /\ StopShape' /\ QueueInv' /\ StopInv'
    BY <1>0, <1>1 DEF SlotShape, StopShape, QueueInv, StopInv, WriteAsked
  <1> QED
    BY <1>a, <1>b, <1>e, <1>k, <1>h, <1>s, <1>l, <1>o, <1>r, <1>w, <1>x, <1>y, <1>z, <1>f
       DEF RouterInv

LEMMA RunnerAwaitedKeeps ==
    ASSUME RouterInv, NEW r \in Requests, RunnerAwaited(r)
    PROVE  RouterInv'
  <1>0. /\ ReqShape /\ HostShape /\ SlotShape /\ StopShape /\ StartShape
        /\ QueueInv /\ AskInv /\ HoldInv /\ StartInv /\ LeaseInv /\ LockCoversStation
        /\ StopInv /\ GuardInv /\ CalmHosts /\ CalmSlot /\ CalmPlacing /\ CalmStop
    BY DEF RouterInv
  <1>1. UNCHANGED <<uses, queue, known, occ, alive, host, lock, lease, vac, sd, joining, late,
                    hub, faults>>
    BY DEF RunnerAwaited
  <1>4. /\ req[r] = "stopping"
        /\ req'[r] = "retry"
        /\ \A s \in Requests \ {r} : req'[s] = req[s]
        /\ starting' = 0
    BY <1>0 DEF RunnerAwaited, ReqShape
  <1>a5. r \in Actors /\ r # "vacate" /\ Holds(r)
    BY <1>0, RouterAssumption DEF RunnerAwaited, HoldInv, Actors, Placing
  <1>5. /\ \A s \in Requests \ {r} : req[s] \notin Placing
        /\ vac \in {"idle", "queued"}
    BY <1>a5, Alone
  <1>6. Calm => sd \notin Behind
    BY <1>4, CalmBehind
  <1>7. known
    BY <1>0, <1>a5 DEF AskInv, Holds
  <1>a. ReqShape'
    BY <1>0, <1>1 DEF RunnerAwaited, ReqShape, Placing
  <1>e. StartShape'
    BY <1>0, <1>1, <1>4, <1>5 DEF StartShape, ReqShape
  <1>k. AskInv'
    BY <1>0, <1>1, <1>4, <1>5, <1>7 DEF AskInv, Placing, Actors
  <1>h. HoldInv'
    BY <1>0, <1>1, <1>4, <1>5 DEF HoldInv, Holds, Placing, Actors
  <1>s. StartInv'
    BY <1>0, <1>1, <1>4, <1>5 DEF StartInv, StartShape, ReqShape, Placing
  <1>r. GuardInv'
    BY <1>0, <1>1, <1>4, RouterAssumption DEF GuardInv, WriteAsked, Behind
  <1>w. CalmHosts'
    BY <1>0, <1>1, <1>4, <1>5, NoId DEF CalmHosts, Calm, Here, HostShape, CalmPlacing
  <1>y. CalmPlacing'
    BY <1>0, <1>1, <1>4, <1>5 DEF CalmPlacing, Calm, StartShape
  <1>f. /\ HostShape' /\ SlotShape' /\ StopShape' /\ QueueInv' /\ LeaseInv'
        /\ LockCoversStation' /\ StopInv' /\ CalmSlot' /\ CalmStop'
    BY <1>0, <1>1 DEF HostShape, SlotShape, StopShape, QueueInv, LeaseInv, StoreHasOneOwner,
       LockCoversStation, StopInv, WriteAsked, CalmSlot, Calm, CalmStop, Here
  <1> QED
    BY <1>a, <1>e, <1>k, <1>h, <1>s, <1>r, <1>w, <1>y, <1>f DEF RouterInv

LEMMA GiveUpKeeps ==
    ASSUME RouterInv, NEW r \in Requests, GiveUp(r)
    PROVE  RouterInv'
  <1>0. /\ ReqShape /\ HostShape /\ SlotShape /\ StopShape /\ StartShape
        /\ QueueInv /\ AskInv /\ HoldInv /\ StartInv /\ LeaseInv /\ LockCoversStation
        /\ StopInv /\ GuardInv /\ CalmHosts /\ CalmSlot /\ CalmPlacing /\ CalmStop
    BY DEF RouterInv
  <1>1. UNCHANGED <<uses, known, occ, alive, host, lock, lease, vac, sd, joining, late, hub,
                    faults>>
    BY DEF GiveUp, Fail
  <1>2. Leave({r})
    BY DEF GiveUp, Fail
  <1>3. /\ queue' \in [Actors -> SUBSET Actors] /\ QueueInv'
        /\ \A a \in Actors : queue'[a] # {} <=> queue[a] # {} /\ a # r
        /\ \A a \in Actors : a # r /\ Holds(a) => Holds(a)'
    BY <1>0, <1>2, LeaveFacts
  <1>4. /\ req[r] = "retry"
        /\ req'[r] = "idle"
        /\ \A s \in Requests \ {r} : req'[s] = req[s]
        /\ starting' = 0
    BY <1>0 DEF GiveUp, Fail, ReqShape
  <1>a5. r \in Actors /\ r # "vacate" /\ Holds(r) /\ req[r] \notin {"opening", "ready", "stopping"}
    BY <1>0, RouterAssumption DEF GiveUp, Fail, HoldInv, Actors, Placing
  <1>5. /\ \A s \in Requests \ {r} : req[s] \notin Placing
        /\ vac \in {"idle", "queued"}
        /\ starting = 0
    BY <1>a5, Alone
  <1>a. ReqShape'
    BY <1>0, <1>1, <1>3 DEF GiveUp, Fail, ReqShape, Placing
  <1>e. StartShape'
    BY <1>0, <1>1, <1>4, <1>5 DEF StartShape, ReqShape
  <1>q. QueueInv'
    BY <1>3
  <1>k. AskInv'
    BY <1>0, <1>1, <1>4, <1>5, <1>3, RouterAssumption DEF AskInv, Placing, Actors
  <1>h. HoldInv'
    BY <1>0, <1>1, <1>4, <1>5, <1>3, RouterAssumption DEF HoldInv, Placing, Actors
  <1>s. StartInv'
    BY <1>0, <1>1, <1>4, <1>5 DEF StartInv, StartShape, ReqShape
  <1>r. GuardInv'
    BY <1>0, <1>1, <1>4, RouterAssumption DEF GuardInv, WriteAsked, Behind
  <1>w. CalmHosts'
    BY <1>0, <1>1, <1>4, <1>5, NoId DEF CalmHosts, Calm, Here, HostShape
  <1>y. CalmPlacing'
    BY <1>0, <1>1, <1>4, <1>5 DEF CalmPlacing, Calm, StartShape
  <1>f. /\ HostShape' /\ SlotShape' /\ StopShape' /\ LeaseInv' /\ LockCoversStation'
        /\ StopInv' /\ CalmSlot' /\ CalmStop'
    BY <1>0, <1>1 DEF HostShape, SlotShape, StopShape, LeaseInv, StoreHasOneOwner,
       LockCoversStation, StopInv, WriteAsked, CalmSlot, Calm, CalmStop, Here
  <1> QED
    BY <1>a, <1>e, <1>q, <1>k, <1>h, <1>s, <1>r, <1>w, <1>y, <1>f DEF RouterInv

LEMMA DoneKeeps ==
    ASSUME RouterInv, NEW r \in Requests, Done(r)
    PROVE  RouterInv'
  <1>0. /\ ReqShape /\ HostShape /\ SlotShape /\ StopShape /\ StartShape
        /\ QueueInv /\ AskInv /\ HoldInv /\ StartInv /\ LeaseInv /\ LockCoversStation
        /\ StopInv /\ GuardInv /\ CalmHosts /\ CalmSlot /\ CalmPlacing /\ CalmStop
    BY DEF RouterInv
  <1>1. UNCHANGED <<queue, known, occ, alive, starting, lock, lease, vac, sd, joining, late, hub,
                    faults>>
    BY DEF Done
  <1>i. /\ uses[r] \in {0} \cup Ids
        /\ host' = host \/ (host' = Stopped(host, uses[r]) /\ occ.id # uses[r])
    BY <1>0 DEF Done, Dropped, ReqShape
  <1>j. host' \in [Ids -> [stage : {"none", "opening", "up", "draining", "leaked"},
                              at : {"here", "elsewhere"}, stop : BOOLEAN]]
    BY <1>0, <1>i, StoppedFacts DEF HostShape
  <1>m. /\ \A j \in Ids : host'[j].stage = host[j].stage /\ host'[j].at = host[j].at
        /\ \A j \in Ids : j # uses[r] => host'[j] = host[j]
        /\ occ.id \in Ids => host'[occ.id] = host[occ.id]
    <2>1. CASE host' = host
      BY <2>1
    <2>2. CASE host' = Stopped(host, uses[r]) /\ occ.id # uses[r]
      BY <1>0, <1>i, <2>2, StoppedFacts
    <2> QED
      BY <1>i, <2>1, <2>2
  <1>4. /\ req[r] = "using"
        /\ req'[r] = "idle"
        /\ \A s \in Requests \ {r} : req'[s] = req[s]
        /\ uses'[r] = 0
        /\ \A s \in Requests \ {r} : uses'[s] = uses[s]
    BY <1>0 DEF Done, ReqShape
  <1>a. ReqShape'
    BY <1>0, <1>1 DEF Done, ReqShape, Placing
  <1>b. HostShape'
    BY <1>0, <1>1, <1>j DEF HostShape
  <1>e. StartShape'
    BY <1>0, <1>1, <1>m, <1>4 DEF StartShape, ReqShape
  <1>k. AskInv'
    BY <1>0, <1>1, <1>m, <1>4 DEF AskInv, Placing, Actors
  <1>h. HoldInv'
    BY <1>0, <1>1, <1>m, <1>4 DEF HoldInv, Holds, Placing, Actors
  <1>s. StartInv'
    BY <1>0, <1>1, <1>m, <1>4 DEF StartInv, StartShape, ReqShape
  <1>l. LeaseInv'
    BY <1>0, <1>1, <1>m, <1>4, NoId DEF LeaseInv, StoreHasOneOwner, HostShape
  <1>o. LockCoversStation'
    BY <1>0, <1>1, <1>m, <1>4, NoId DEF LockCoversStation, HostShape
  <1>r. GuardInv'
    BY <1>0, <1>1, <1>m, <1>4, RouterAssumption DEF GuardInv, WriteAsked, Behind
  <1>w. CalmHosts'
    BY <1>0, <1>1, <1>m, <1>4, NoId DEF CalmHosts, Calm, Here, HostShape
  <1>x. CalmSlot'
    BY <1>0, <1>1, <1>m, <1>4 DEF CalmSlot, Calm, SlotShape
  <1>y. CalmPlacing'
    BY <1>0, <1>1, <1>m, <1>4 DEF CalmPlacing, Calm, StartShape, StartInv
  <1>z. CalmStop'
    BY <1>0, <1>1, <1>m, <1>4 DEF CalmStop, Calm, Here, Behind
  <1>f. /\ SlotShape' /\ StopShape' /\ QueueInv' /\ StopInv'
    BY <1>0, <1>1 DEF SlotShape, StopShape, QueueInv, StopInv, WriteAsked
  <1> QED
    BY <1>a, <1>b, <1>e, <1>k, <1>h, <1>s, <1>l, <1>o, <1>r, <1>w, <1>x, <1>y, <1>z, <1>f
       DEF RouterInv

LEMMA PumpEndsKeeps ==
    ASSUME RouterInv, PumpEnds
    PROVE  RouterInv'
  <1>0. /\ ReqShape /\ HostShape /\ SlotShape /\ StopShape /\ StartShape
        /\ QueueInv /\ AskInv /\ HoldInv /\ StartInv /\ LeaseInv /\ LockCoversStation
        /\ StopInv /\ GuardInv /\ CalmHosts /\ CalmSlot /\ CalmPlacing /\ CalmStop
    BY DEF RouterInv
  <1>1. UNCHANGED <<req, uses, queue, known, occ, starting, host, lock, lease, vac, sd, joining,
                    late, hub, faults>>
    BY DEF PumpEnds
  <1>4. /\ occ # None
        /\ alive' = FALSE
        /\ \/ Up = {} \/ "silent" \in faults
           \/ occ.mode = "owned" /\ host[occ.id].stage # "up"
    BY <1>0 DEF PumpEnds, None
  <1>c. SlotShape'
    BY <1>0, <1>1 DEF PumpEnds, SlotShape
  <1>x. CalmSlot'
    BY <1>0, <1>1, <1>4 DEF CalmSlot, Calm, SlotShape, Up, HostShape, None
  <1>f. /\ ReqShape' /\ HostShape' /\ StopShape' /\ StartShape' /\ QueueInv'
        /\ AskInv' /\ HoldInv' /\ StartInv' /\ LeaseInv' /\ LockCoversStation'
        /\ StopInv' /\ GuardInv' /\ CalmHosts' /\ CalmPlacing' /\ CalmStop'
    BY <1>0, <1>1 DEF ReqShape, HostShape, StopShape, StartShape, QueueInv, AskInv, HoldInv,
       Holds, StartInv, LeaseInv, StoreHasOneOwner, LockCoversStation, StopInv, WriteAsked,
       GuardInv, CalmHosts, Calm, Here, CalmPlacing, CalmStop
  <1> QED
    BY <1>c, <1>x, <1>f DEF RouterInv

-----------------------------------------------------------------------------
(***************************************************************************)
(* A StationHost, and a host in another process.                           *)
(***************************************************************************)

LEMMA StopServingKeeps ==
    ASSUME RouterInv, NEW i \in Ids, StopServing(i)
    PROVE  RouterInv'
  <1>0. /\ ReqShape /\ HostShape /\ SlotShape /\ StopShape /\ StartShape
        /\ QueueInv /\ AskInv /\ HoldInv /\ StartInv /\ LeaseInv /\ LockCoversStation
        /\ StopInv /\ GuardInv /\ CalmHosts /\ CalmSlot /\ CalmPlacing /\ CalmStop
    BY DEF RouterInv
  <1>1. UNCHANGED <<req, uses, queue, known, occ, alive, starting, lock, lease, vac, sd, joining,
                    late, hub, faults>>
    BY DEF StopServing
  <1>g. host[i].stage = "up" /\ (host[i].stop \/ "idle" \in faults \/ ~Here(i))
    BY DEF StopServing
  <1>j. host' \in [Ids -> [stage : {"none", "opening", "up", "draining", "leaked"},
                              at : {"here", "elsewhere"}, stop : BOOLEAN]]
    BY <1>0 DEF StopServing, HostShape
  <1>m. /\ host'[i].stage = "draining" /\ host'[i].at = host[i].at
        /\ \A j \in Ids \ {i} : host'[j] = host[j]
    BY <1>0 DEF StopServing, HostShape
  <1>b. HostShape'
    BY <1>0, <1>1, <1>j DEF HostShape
  <1>s. StartInv'
    BY <1>0, <1>1, <1>g, <1>m DEF StartInv, StartShape, ReqShape
  <1>l. LeaseInv'
    BY <1>0, <1>1, <1>g, <1>m, NoId DEF LeaseInv, StoreHasOneOwner, HostShape
  <1>o. LockCoversStation'
    BY <1>0, <1>1, <1>g, <1>m, NoId DEF LockCoversStation, HostShape
  <1>w. CalmHosts'
    BY <1>0, <1>1, <1>g, <1>m, NoId DEF CalmHosts, Calm, Here, HostShape
  <1>x. CalmSlot'
    BY <1>0, <1>1, <1>g, <1>m DEF CalmSlot, Calm, SlotShape, Here
  <1>y. CalmPlacing'
    BY <1>0, <1>1, <1>g, <1>m DEF CalmPlacing, Calm, StartShape, Here
  <1>z. CalmStop'
    BY <1>0, <1>1, <1>g, <1>m DEF CalmStop, Calm, Here, Behind
  <1>f. /\ ReqShape' /\ SlotShape' /\ StopShape' /\ StartShape' /\ QueueInv'
        /\ AskInv' /\ HoldInv' /\ StopInv' /\ GuardInv'
    BY <1>0, <1>1 DEF ReqShape, SlotShape, StopShape, StartShape, QueueInv, AskInv, HoldInv,
       Holds, StopInv, WriteAsked, GuardInv
  <1> QED
    BY <1>b, <1>s, <1>l, <1>o, <1>w, <1>x, <1>y, <1>z, <1>f DEF RouterInv

LEMMA DrainedKeeps ==
    ASSUME RouterInv, NEW i \in Ids, Drained(i)
    PROVE  RouterInv'
  <1>0. /\ ReqShape /\ HostShape /\ SlotShape /\ StopShape /\ StartShape
        /\ QueueInv /\ AskInv /\ HoldInv /\ StartInv /\ LeaseInv /\ LockCoversStation
        /\ StopInv /\ GuardInv /\ CalmHosts /\ CalmSlot /\ CalmPlacing /\ CalmStop
    BY DEF RouterInv
  <1>1. UNCHANGED <<req, uses, queue, known, occ, alive, starting, vac, sd, joining, late, hub,
                    faults>>
    BY DEF Drained
  <1>g. /\ host[i].stage = "draining"
        /\ lock' = (IF lock = i THEN 0 ELSE lock)
        /\ lease' = (IF lease = i THEN 0 ELSE lease)
    BY DEF Drained
  <1>m. /\ host'[i] = [stage |-> "none", at |-> "here", stop |-> FALSE]
        /\ \A j \in Ids \ {i} : host'[j] = host[j]
    BY <1>0 DEF Drained, HostShape, Nobody
  <1>b. HostShape'
    BY <1>0, <1>1 DEF Drained, HostShape, Nobody, StartShape
  <1>s. StartInv'
    BY <1>0, <1>1, <1>g, <1>m DEF StartInv, StartShape, ReqShape
  <1>l. LeaseInv'
    BY <1>0, <1>1, <1>g, <1>m, NoId DEF LeaseInv, StoreHasOneOwner, HostShape
  <1>o. LockCoversStation'
    BY <1>0, <1>1, <1>g, <1>m, NoId DEF LockCoversStation, HostShape
  <1>w. CalmHosts'
    BY <1>0, <1>1, <1>g, <1>m, NoId DEF CalmHosts, Calm, Here, HostShape
  <1>x. CalmSlot'
    BY <1>0, <1>1, <1>g, <1>m DEF CalmSlot, Calm, SlotShape
  <1>y. CalmPlacing'
    BY <1>0, <1>1, <1>g, <1>m DEF CalmPlacing, Calm, StartShape
  <1>z. CalmStop'
    BY <1>0, <1>1, <1>g, <1>m DEF CalmStop, Calm, Here, Behind
  <1>f. /\ ReqShape' /\ SlotShape' /\ StopShape' /\ StartShape' /\ QueueInv'
        /\ AskInv' /\ HoldInv' /\ StopInv' /\ GuardInv'
    BY <1>0, <1>1 DEF ReqShape, SlotShape, StopShape, StartShape, QueueInv, AskInv, HoldInv,
       Holds, StopInv, WriteAsked, GuardInv
  <1> QED
    BY <1>b, <1>s, <1>l, <1>o, <1>w, <1>x, <1>y, <1>z, <1>f DEF RouterInv

LEMMA DrainTimeoutKeeps ==
    ASSUME RouterInv, NEW i \in Ids, DrainTimeout(i)
    PROVE  RouterInv'
  <1>0. /\ ReqShape /\ HostShape /\ SlotShape /\ StopShape /\ StartShape
        /\ QueueInv /\ AskInv /\ HoldInv /\ StartInv /\ LeaseInv /\ LockCoversStation
        /\ StopInv /\ GuardInv /\ CalmHosts /\ CalmSlot /\ CalmPlacing /\ CalmStop
    BY DEF RouterInv
  <1>1. UNCHANGED <<req, uses, queue, known, occ, alive, starting, lease, vac, sd, joining, late,
                    hub, faults>>
    BY DEF DrainTimeout
  <1>g. /\ host[i].stage = "draining" /\ "drain" \in faults /\ ~Calm
    BY DEF DrainTimeout, Calm
  <1>j. host' \in [Ids -> [stage : {"none", "opening", "up", "draining", "leaked"},
                              at : {"here", "elsewhere"}, stop : BOOLEAN]]
    BY <1>0 DEF DrainTimeout, HostShape
  <1>m. /\ host'[i].stage = "leaked" /\ host'[i].at = host[i].at
        /\ \A j \in Ids \ {i} : host'[j] = host[j]
    BY <1>0 DEF DrainTimeout, HostShape
  <1>b. HostShape'
    BY <1>0, <1>1, <1>j DEF DrainTimeout, HostShape
  <1>s. StartInv'
    BY <1>0, <1>1, <1>g, <1>m DEF StartInv, StartShape, ReqShape
  <1>l. LeaseInv'
    BY <1>0, <1>1, <1>g, <1>m, NoId DEF LeaseInv, StoreHasOneOwner, HostShape
  <1>o. LockCoversStation'
    BY <1>0, <1>1, <1>g, <1>m, NoId DEF LockCoversStation, HostShape
  <1>w. CalmHosts'
    BY <1>0, <1>1, <1>g, <1>m, NoId DEF CalmHosts, Calm, Here, HostShape
  <1>x. CalmSlot'
    BY <1>0, <1>1, <1>g, <1>m DEF CalmSlot, Calm, SlotShape
  <1>y. CalmPlacing'
    BY <1>0, <1>1, <1>g, <1>m DEF CalmPlacing, Calm, StartShape
  <1>z. CalmStop'
    BY <1>0, <1>1, <1>g, <1>m DEF CalmStop, Calm, Here, Behind
  <1>f. /\ ReqShape' /\ SlotShape' /\ StopShape' /\ StartShape' /\ QueueInv'
        /\ AskInv' /\ HoldInv' /\ StopInv' /\ GuardInv'
    BY <1>0, <1>1 DEF ReqShape, SlotShape, StopShape, StartShape, QueueInv, AskInv, HoldInv,
       Holds, StopInv, WriteAsked, GuardInv
  <1> QED
    BY <1>b, <1>s, <1>l, <1>o, <1>w, <1>x, <1>y, <1>z, <1>f DEF RouterInv

LEMMA LeakEndsKeeps ==
    ASSUME RouterInv, NEW i \in Ids, LeakEnds(i)
    PROVE  RouterInv'
  <1>0. /\ ReqShape /\ HostShape /\ SlotShape /\ StopShape /\ StartShape
        /\ QueueInv /\ AskInv /\ HoldInv /\ StartInv /\ LeaseInv /\ LockCoversStation
        /\ StopInv /\ GuardInv /\ CalmHosts /\ CalmSlot /\ CalmPlacing /\ CalmStop
    BY DEF RouterInv
  <1>1. UNCHANGED <<req, uses, queue, known, occ, alive, starting, lock, vac, sd, joining, late,
                    hub, faults>>
    BY DEF LeakEnds
  <1>g. /\ host[i].stage = "leaked"
        /\ lease' = (IF lease = i THEN 0 ELSE lease)
    BY DEF LeakEnds
  <1>m. /\ host'[i] = [stage |-> "none", at |-> "here", stop |-> FALSE]
        /\ \A j \in Ids \ {i} : host'[j] = host[j]
    BY <1>0 DEF LeakEnds, HostShape, Nobody
  <1>b. HostShape'
    BY <1>0, <1>1 DEF LeakEnds, HostShape, Nobody, StartShape
  <1>s. StartInv'
    BY <1>0, <1>1, <1>g, <1>m DEF StartInv, StartShape, ReqShape
  <1>l. LeaseInv'
    BY <1>0, <1>1, <1>g, <1>m, NoId DEF LeaseInv, StoreHasOneOwner, HostShape
  <1>o. LockCoversStation'
    BY <1>0, <1>1, <1>g, <1>m, NoId DEF LockCoversStation, HostShape
  <1>w. CalmHosts'
    BY <1>0, <1>1, <1>g, <1>m, NoId DEF CalmHosts, Calm, Here, HostShape
  <1>x. CalmSlot'
    BY <1>0, <1>1, <1>g, <1>m DEF CalmSlot, Calm, SlotShape
  <1>y. CalmPlacing'
    BY <1>0, <1>1, <1>g, <1>m DEF CalmPlacing, Calm, StartShape
  <1>z. CalmStop'
    BY <1>0, <1>1, <1>g, <1>m DEF CalmStop, Calm, Here, Behind
  <1>f. /\ ReqShape' /\ SlotShape' /\ StopShape' /\ StartShape' /\ QueueInv'
        /\ AskInv' /\ HoldInv' /\ StopInv' /\ GuardInv'
    BY <1>0, <1>1 DEF ReqShape, SlotShape, StopShape, StartShape, QueueInv, AskInv, HoldInv,
       Holds, StopInv, WriteAsked, GuardInv
  <1> QED
    BY <1>b, <1>s, <1>l, <1>o, <1>w, <1>x, <1>y, <1>z, <1>f DEF RouterInv

LEMMA ElsewhereStartsKeeps ==
    ASSUME RouterInv, ElsewhereStarts
    PROVE  RouterInv'
  <1>0. /\ ReqShape /\ HostShape /\ SlotShape /\ StopShape /\ StartShape
        /\ QueueInv /\ AskInv /\ HoldInv /\ StartInv /\ LeaseInv /\ LockCoversStation
        /\ StopInv /\ GuardInv /\ CalmHosts /\ CalmSlot /\ CalmPlacing /\ CalmStop
    BY DEF RouterInv
  <1>1. UNCHANGED <<req, uses, queue, known, occ, alive, starting, vac, sd, joining, late, hub,
                    faults>>
    BY DEF ElsewhereStarts
  <1>i. PICK i \in Free : /\ host' = [host EXCEPT ![i] = [stage |-> "up", at |-> "elsewhere", stop |-> FALSE]]
                        /\ lock' = i /\ lease' = i
    BY DEF ElsewhereStarts
  <1>j. i \in Ids /\ host[i] = [stage |-> "none", at |-> "here", stop |-> FALSE]
        /\ i # occ.id /\ i # starting
        /\ i # joining["vacate"] /\ i # joining["shutdown"] /\ \A s \in Requests : uses[s] # i
    BY DEF Free, Nobody
  <1>4. /\ lock = 0
        /\ lease = 0
        /\ lock' = i
        /\ lease' = i
        /\ host'[i] = [stage |-> "up", at |-> "elsewhere", stop |-> FALSE]
        /\ \A j \in Ids \ {i} : host'[j] = host[j]
    BY <1>0, <1>i, <1>j DEF ElsewhereStarts, HostShape
  <1>b. HostShape'
    BY <1>0, <1>i, <1>j, <1>1 DEF HostShape
  <1>s. StartInv'
    BY <1>0, <1>1, <1>j, <1>4 DEF StartInv, StartShape, ReqShape
  <1>l. LeaseInv'
    BY <1>0, <1>1, <1>j, <1>4, NoId DEF LeaseInv, StoreHasOneOwner, HostShape
  <1>o. LockCoversStation'
    BY <1>0, <1>1, <1>j, <1>4, NoId DEF LockCoversStation, HostShape
  <1>w. CalmHosts'
    BY <1>0, <1>1, <1>j, <1>4, NoId DEF CalmHosts, Calm, Here, HostShape
  <1>x. CalmSlot'
    BY <1>0, <1>1, <1>j, <1>4 DEF CalmSlot, Calm, SlotShape
  <1>y. CalmPlacing'
    BY <1>0, <1>1, <1>j, <1>4 DEF CalmPlacing, Calm, StartShape
  <1>z. CalmStop'
    BY <1>0, <1>1, <1>j, <1>4 DEF CalmStop, Calm, Here, Behind
  <1>f. /\ ReqShape' /\ SlotShape' /\ StopShape' /\ StartShape' /\ QueueInv'
        /\ AskInv' /\ HoldInv' /\ StopInv' /\ GuardInv'
    BY <1>0, <1>1 DEF ReqShape, SlotShape, StopShape, StartShape, QueueInv, AskInv, HoldInv,
       Holds, StopInv, WriteAsked, GuardInv
  <1> QED
    BY <1>b, <1>s, <1>l, <1>o, <1>w, <1>x, <1>y, <1>z, <1>f DEF RouterInv

-----------------------------------------------------------------------------
(***************************************************************************)
(* Vacating the Orbit for an exclusive operation.                          *)
(***************************************************************************)

LEMMA VacateKeeps ==
    ASSUME RouterInv, Vacate
    PROVE  RouterInv'
  <1>0. /\ ReqShape /\ HostShape /\ SlotShape /\ StopShape /\ StartShape
        /\ QueueInv /\ AskInv /\ HoldInv /\ StartInv /\ LeaseInv /\ LockCoversStation
        /\ StopInv /\ GuardInv /\ CalmHosts /\ CalmSlot /\ CalmPlacing /\ CalmStop
    BY DEF RouterInv
  <1>1. UNCHANGED <<req, uses, occ, alive, starting, host, lock, lease, sd, joining, late, hub,
                    faults>>
    BY DEF Vacate
  <1>2. Ask("vacate") /\ queue["vacate"] = {} /\ "vacate" \in Actors
    BY <1>0 DEF Vacate, AskInv, Actors, Placing
  <1>3. /\ queue' \in [Actors -> SUBSET Actors] /\ QueueInv'
        /\ queue'["vacate"] # {}
        /\ \A a \in Actors \ {"vacate"} : queue'[a] = queue[a]
    BY <1>0, <1>2, AskFacts
  <1>4. /\ vac = "idle"
        /\ sd = "run"
        /\ vac' = "queued"
        /\ known'
    BY <1>0 DEF Vacate, ReqShape
  <1>a. ReqShape'
    BY <1>0, <1>1, <1>3 DEF Vacate, ReqShape
  <1>c. SlotShape'
    BY <1>0, <1>1 DEF Vacate, SlotShape
  <1>d. StopShape'
    BY <1>0, <1>1 DEF Vacate, StopShape
  <1>q. QueueInv'
    BY <1>3
  <1>k. AskInv'
    BY <1>0, <1>1, <1>4, <1>3, RouterAssumption DEF AskInv, Placing, Actors
  <1>h. HoldInv'
    BY <1>0, <1>1, <1>4, <1>3, RouterAssumption DEF HoldInv, Holds, Placing, Actors
  <1>l. LeaseInv'
    BY <1>0, <1>1, <1>4, NoId DEF LeaseInv, StoreHasOneOwner, HostShape
  <1>p. StopInv'
    BY <1>0, <1>1, <1>4 DEF StopInv, WriteAsked, StopShape
  <1>f. /\ HostShape' /\ StartShape' /\ StartInv' /\ LockCoversStation' /\ GuardInv'
        /\ CalmHosts' /\ CalmSlot' /\ CalmPlacing' /\ CalmStop'
    BY <1>0, <1>1 DEF HostShape, StartShape, StartInv, LockCoversStation, GuardInv, WriteAsked,
       CalmHosts, Calm, Here, CalmSlot, CalmPlacing, CalmStop
  <1> QED
    BY <1>a, <1>c, <1>d, <1>q, <1>k, <1>h, <1>l, <1>p, <1>f DEF RouterInv

LEMMA VacateTakeKeeps ==
    ASSUME RouterInv, VacateTake
    PROVE  RouterInv'
  <1>0. /\ ReqShape /\ HostShape /\ SlotShape /\ StopShape /\ StartShape
        /\ QueueInv /\ AskInv /\ HoldInv /\ StartInv /\ LeaseInv /\ LockCoversStation
        /\ StopInv /\ GuardInv /\ CalmHosts /\ CalmSlot /\ CalmPlacing /\ CalmStop
    BY DEF RouterInv
  <1>1. UNCHANGED <<req, uses, queue, known, alive, starting, lock, lease, sd, late, hub, faults>>
    BY DEF VacateTake
  <1>i. /\ host' = Stopped(host, occ.id) /\ occ.id \in {0} \cup Ids
    BY <1>0 DEF VacateTake, SlotShape
  <1>j. host' \in [Ids -> [stage : {"none", "opening", "up", "draining", "leaked"},
                              at : {"here", "elsewhere"}, stop : BOOLEAN]]
    BY <1>0, <1>i, StoppedFacts
  <1>m. /\ \A j \in Ids : host'[j].stage = host[j].stage /\ host'[j].at = host[j].at
        /\ \A j \in Ids : j # occ.id => host'[j] = host[j]
    BY <1>0, <1>i, StoppedFacts
  <1>4. /\ vac = "queued"
        /\ vac' = "draining"
        /\ occ' = None
        /\ joining'["vacate"] = occ.id
        /\ joining'["shutdown"] = joining["shutdown"]
    BY <1>0 DEF VacateTake, StopShape
  <1>a5. "vacate" \in Actors /\ "vacate" \notin Requests /\ Holds("vacate")
    BY <1>0, RouterAssumption DEF VacateTake, HoldInv, Actors
  <1>5. /\ \A s \in Requests \ {"vacate"} : req[s] \notin Placing
        /\ starting = 0
    BY <1>a5, Alone
  <1>6. Calm => sd \notin Behind
    BY <1>4, CalmBehind
  <1>b. HostShape'
    BY <1>0, <1>1, <1>j DEF HostShape
  <1>c. SlotShape'
    BY <1>0, <1>1 DEF VacateTake, SlotShape, None
  <1>d. StopShape'
    BY <1>0, <1>1 DEF VacateTake, StopShape, SlotShape
  <1>k. AskInv'
    BY <1>0, <1>1, <1>m, <1>4, <1>5 DEF AskInv, Placing, Actors
  <1>h. HoldInv'
    BY <1>0, <1>1, <1>m, <1>4, <1>5, <1>a5 DEF HoldInv, Holds, Placing, Actors, None
  <1>s. StartInv'
    BY <1>0, <1>1, <1>m, <1>4, <1>5 DEF StartInv, StartShape, ReqShape
  <1>l. LeaseInv'
    BY <1>0, <1>1, <1>m, <1>4, NoId DEF LeaseInv, StoreHasOneOwner, HostShape
  <1>o. LockCoversStation'
    BY <1>0, <1>1, <1>m, NoId DEF LockCoversStation, HostShape
  <1>p. StopInv'
    BY <1>0, <1>1, <1>m, <1>4 DEF StopInv, WriteAsked, StopShape
  <1>w. CalmHosts'
    BY <1>0, <1>1, <1>m, <1>4, <1>5, NoId DEF CalmHosts, Calm, Here, HostShape, StopInv, None
  <1>x. CalmSlot'
    BY <1>0, <1>1, <1>m, <1>4, <1>6 DEF CalmSlot, Calm, SlotShape, None
  <1>y. CalmPlacing'
    BY <1>0, <1>1, <1>m, <1>4, <1>5 DEF CalmPlacing, Calm, StartShape
  <1>z. CalmStop'
    BY <1>0, <1>1, <1>m, <1>4, <1>6 DEF CalmStop, Calm, Here, Behind
  <1>f. /\ ReqShape' /\ StartShape' /\ QueueInv' /\ GuardInv'
    BY <1>0, <1>1 DEF ReqShape, StartShape, QueueInv, GuardInv, WriteAsked
  <1> QED
    BY <1>b, <1>c, <1>d, <1>k, <1>h, <1>s, <1>l, <1>o, <1>p, <1>w, <1>x, <1>y, <1>z, <1>f
       DEF RouterInv

LEMMA VacatedKeeps ==
    ASSUME RouterInv, Vacated
    PROVE  RouterInv'
  <1>0. /\ ReqShape /\ HostShape /\ SlotShape /\ StopShape /\ StartShape
        /\ QueueInv /\ AskInv /\ HoldInv /\ StartInv /\ LeaseInv /\ LockCoversStation
        /\ StopInv /\ GuardInv /\ CalmHosts /\ CalmSlot /\ CalmPlacing /\ CalmStop
    BY DEF RouterInv
  <1>1. UNCHANGED <<req, uses, queue, known, occ, alive, starting, host, lock, lease, sd, late,
                    hub, faults>>
    BY DEF Vacated
  <1>4. /\ vac = "draining"
        /\ vac' = "held"
        /\ joining'["vacate"] = 0
        /\ joining'["shutdown"] = joining["shutdown"]
        /\ joining["vacate"] # 0 => host[joining["vacate"]].stage = "none"
    BY <1>0 DEF Vacated, StopShape, Ended
  <1>d. StopShape'
    BY <1>0, <1>1 DEF Vacated, StopShape
  <1>k. AskInv'
    BY <1>0, <1>1, <1>4 DEF AskInv, Placing, Actors
  <1>h. HoldInv'
    BY <1>0, <1>1, <1>4 DEF HoldInv, Holds, Placing, Actors
  <1>l. LeaseInv'
    BY <1>0, <1>1, <1>4, NoId DEF LeaseInv, StoreHasOneOwner, HostShape
  <1>p. StopInv'
    BY <1>0, <1>1, <1>4 DEF StopInv, WriteAsked, StopShape
  <1>w. CalmHosts'
    BY <1>0, <1>1, <1>4, NoId DEF CalmHosts, Calm, Here, HostShape
  <1>z. CalmStop'
    BY <1>0, <1>1, <1>4 DEF CalmStop, Calm, Here, Behind
  <1>f. /\ ReqShape' /\ HostShape' /\ SlotShape' /\ StartShape' /\ QueueInv'
        /\ StartInv' /\ LockCoversStation' /\ GuardInv' /\ CalmSlot' /\ CalmPlacing'
    BY <1>0, <1>1 DEF ReqShape, HostShape, SlotShape, StartShape, QueueInv, StartInv,
       LockCoversStation, GuardInv, WriteAsked, CalmSlot, Calm, CalmPlacing
  <1> QED
    BY <1>d, <1>k, <1>h, <1>l, <1>p, <1>w, <1>z, <1>f DEF RouterInv

LEMMA VacateFailsKeeps ==
    ASSUME RouterInv, VacateFails
    PROVE  RouterInv'
  <1>0. /\ ReqShape /\ HostShape /\ SlotShape /\ StopShape /\ StartShape
        /\ QueueInv /\ AskInv /\ HoldInv /\ StartInv /\ LeaseInv /\ LockCoversStation
        /\ StopInv /\ GuardInv /\ CalmHosts /\ CalmSlot /\ CalmPlacing /\ CalmStop
    BY DEF RouterInv
  <1>1. UNCHANGED <<req, uses, known, occ, alive, starting, host, lock, lease, sd, late, hub,
                    faults>>
    BY DEF VacateFails, Release
  <1>2. Leave({"vacate"})
    BY DEF VacateFails, Release
  <1>3. /\ queue' \in [Actors -> SUBSET Actors] /\ QueueInv'
        /\ \A a \in Actors : queue'[a] # {} <=> queue[a] # {} /\ a # "vacate"
        /\ \A a \in Actors : a # "vacate" /\ Holds(a) => Holds(a)'
    BY <1>0, <1>2, LeaveFacts
  <1>4. /\ vac = "draining"
        /\ vac' = "idle"
        /\ joining'["vacate"] = 0
        /\ joining'["shutdown"] = joining["shutdown"]
        /\ joining["vacate"] \in Ids
        /\ host[joining["vacate"]].stage = "leaked" \/ "join" \in faults
    BY <1>0 DEF VacateFails, Release, StopShape
  <1>a. ReqShape'
    BY <1>0, <1>1, <1>3 DEF VacateFails, Release, ReqShape
  <1>d. StopShape'
    BY <1>0, <1>1 DEF VacateFails, Release, StopShape
  <1>q. QueueInv'
    BY <1>3
  <1>k. AskInv'
    BY <1>0, <1>1, <1>4, <1>3, RouterAssumption DEF AskInv, Placing, Actors
  <1>h. HoldInv'
    BY <1>0, <1>1, <1>4, <1>3, RouterAssumption DEF HoldInv, Placing, Actors
  <1>l. LeaseInv'
    BY <1>0, <1>1, <1>4, NoId DEF LeaseInv, StoreHasOneOwner, HostShape
  <1>p. StopInv'
    BY <1>0, <1>1, <1>4 DEF StopInv, WriteAsked, StopShape
  <1>w. CalmHosts'
    BY <1>0, <1>1, <1>4, NoId DEF CalmHosts, Calm, Here, HostShape
  <1>z. CalmStop'
    BY <1>0, <1>1, <1>4 DEF CalmStop, Calm, Here, Behind
  <1>f. /\ HostShape' /\ SlotShape' /\ StartShape' /\ StartInv' /\ LockCoversStation'
        /\ GuardInv' /\ CalmSlot' /\ CalmPlacing'
    BY <1>0, <1>1 DEF HostShape, SlotShape, StartShape, StartInv, LockCoversStation, GuardInv,
       WriteAsked, CalmSlot, Calm, CalmPlacing
  <1> QED
    BY <1>a, <1>d, <1>q, <1>k, <1>h, <1>l, <1>p, <1>w, <1>z, <1>f DEF RouterInv

LEMMA OperateKeeps ==
    ASSUME RouterInv, Operate
    PROVE  RouterInv'
  <1>0. /\ ReqShape /\ HostShape /\ SlotShape /\ StopShape /\ StartShape
        /\ QueueInv /\ AskInv /\ HoldInv /\ StartInv /\ LeaseInv /\ LockCoversStation
        /\ StopInv /\ GuardInv /\ CalmHosts /\ CalmSlot /\ CalmPlacing /\ CalmStop
    BY DEF RouterInv
  <1>1. UNCHANGED <<req, uses, queue, known, occ, alive, starting, host, lock, sd, joining, late,
                    hub, faults>>
    BY DEF Operate
  <1>4. /\ vac = "held"
        /\ lease = 0
        /\ lease' = Operation
        /\ vac' = "working"
    BY <1>0 DEF Operate, ReqShape
  <1>b. HostShape'
    BY <1>0, <1>1 DEF Operate, HostShape, Nobody, StartShape
  <1>d. StopShape'
    BY <1>0, <1>1 DEF Operate, StopShape
  <1>k. AskInv'
    BY <1>0, <1>1, <1>4 DEF AskInv, Placing, Actors
  <1>h. HoldInv'
    BY <1>0, <1>1, <1>4 DEF HoldInv, Holds, Placing, Actors
  <1>l. LeaseInv'
    BY <1>0, <1>1, <1>4, NoId DEF LeaseInv, StoreHasOneOwner, HostShape
  <1>p. StopInv'
    BY <1>0, <1>1, <1>4 DEF StopInv, WriteAsked, StopShape
  <1>f. /\ ReqShape' /\ SlotShape' /\ StartShape' /\ QueueInv' /\ StartInv'
        /\ LockCoversStation' /\ GuardInv' /\ CalmHosts' /\ CalmSlot' /\ CalmPlacing'
        /\ CalmStop'
    BY <1>0, <1>1 DEF ReqShape, SlotShape, StartShape, QueueInv, StartInv, LockCoversStation,
       GuardInv, WriteAsked, CalmHosts, Calm, Here, CalmSlot, CalmPlacing, CalmStop
  <1> QED
    BY <1>b, <1>d, <1>k, <1>h, <1>l, <1>p, <1>f DEF RouterInv

LEMMA OperationRefusedKeeps ==
    ASSUME RouterInv, OperationRefused
    PROVE  RouterInv'
  <1>0. /\ ReqShape /\ HostShape /\ SlotShape /\ StopShape /\ StartShape
        /\ QueueInv /\ AskInv /\ HoldInv /\ StartInv /\ LeaseInv /\ LockCoversStation
        /\ StopInv /\ GuardInv /\ CalmHosts /\ CalmSlot /\ CalmPlacing /\ CalmStop
    BY DEF RouterInv
  <1>1. UNCHANGED <<req, uses, known, occ, alive, starting, host, lock, lease, sd, late, hub,
                    faults>>
    BY DEF OperationRefused, Release
  <1>2. Leave({"vacate"})
    BY DEF OperationRefused, Release
  <1>3. /\ queue' \in [Actors -> SUBSET Actors] /\ QueueInv'
        /\ \A a \in Actors : queue'[a] # {} <=> queue[a] # {} /\ a # "vacate"
        /\ \A a \in Actors : a # "vacate" /\ Holds(a) => Holds(a)'
    BY <1>0, <1>2, LeaveFacts
  <1>4. /\ vac = "held"
        /\ vac' = "idle"
        /\ joining'["vacate"] = 0
        /\ joining'["shutdown"] = joining["shutdown"]
    BY <1>0 DEF OperationRefused, Release, StopShape
  <1>a. ReqShape'
    BY <1>0, <1>1, <1>3 DEF OperationRefused, Release, ReqShape
  <1>d. StopShape'
    BY <1>0, <1>1 DEF OperationRefused, Release, StopShape
  <1>q. QueueInv'
    BY <1>3
  <1>k. AskInv'
    BY <1>0, <1>1, <1>4, <1>3, RouterAssumption DEF AskInv, Placing, Actors
  <1>h. HoldInv'
    BY <1>0, <1>1, <1>4, <1>3, RouterAssumption DEF HoldInv, Placing, Actors
  <1>l. LeaseInv'
    BY <1>0, <1>1, <1>4, NoId DEF LeaseInv, StoreHasOneOwner, HostShape
  <1>p. StopInv'
    BY <1>0, <1>1, <1>4 DEF StopInv, WriteAsked, StopShape
  <1>w. CalmHosts'
    BY <1>0, <1>1, <1>4, NoId DEF CalmHosts, Calm, Here, HostShape, StopInv
  <1>z. CalmStop'
    BY <1>0, <1>1, <1>4 DEF CalmStop, Calm, Here, Behind
  <1>f. /\ HostShape' /\ SlotShape' /\ StartShape' /\ StartInv' /\ LockCoversStation'
        /\ GuardInv' /\ CalmSlot' /\ CalmPlacing'
    BY <1>0, <1>1 DEF HostShape, SlotShape, StartShape, StartInv, LockCoversStation, GuardInv,
       WriteAsked, CalmSlot, Calm, CalmPlacing
  <1> QED
    BY <1>a, <1>d, <1>q, <1>k, <1>h, <1>l, <1>p, <1>w, <1>z, <1>f DEF RouterInv

LEMMA OperationEndsKeeps ==
    ASSUME RouterInv, OperationEnds
    PROVE  RouterInv'
  <1>0. /\ ReqShape /\ HostShape /\ SlotShape /\ StopShape /\ StartShape
        /\ QueueInv /\ AskInv /\ HoldInv /\ StartInv /\ LeaseInv /\ LockCoversStation
        /\ StopInv /\ GuardInv /\ CalmHosts /\ CalmSlot /\ CalmPlacing /\ CalmStop
    BY DEF RouterInv
  <1>1. UNCHANGED <<req, uses, known, occ, alive, starting, host, lock, sd, late, hub, faults>>
    BY DEF OperationEnds, Release
  <1>2. Leave({"vacate"})
    BY DEF OperationEnds, Release
  <1>3. /\ queue' \in [Actors -> SUBSET Actors] /\ QueueInv'
        /\ \A a \in Actors : queue'[a] # {} <=> queue[a] # {} /\ a # "vacate"
        /\ \A a \in Actors : a # "vacate" /\ Holds(a) => Holds(a)'
    BY <1>0, <1>2, LeaveFacts
  <1>4. /\ vac = "working"
        /\ lease' = 0
        /\ vac' = "idle"
        /\ joining'["vacate"] = 0
        /\ joining'["shutdown"] = joining["shutdown"]
    BY <1>0 DEF OperationEnds, Release, StopShape
  <1>a. ReqShape'
    BY <1>0, <1>1, <1>3 DEF OperationEnds, Release, ReqShape
  <1>b. HostShape'
    BY <1>0, <1>1 DEF OperationEnds, Release, HostShape, Nobody, StartShape
  <1>d. StopShape'
    BY <1>0, <1>1 DEF OperationEnds, Release, StopShape
  <1>q. QueueInv'
    BY <1>3
  <1>k. AskInv'
    BY <1>0, <1>1, <1>4, <1>3, RouterAssumption DEF AskInv, Placing, Actors
  <1>h. HoldInv'
    BY <1>0, <1>1, <1>4, <1>3, RouterAssumption DEF HoldInv, Placing, Actors
  <1>l. LeaseInv'
    BY <1>0, <1>1, <1>4, NoId DEF LeaseInv, StoreHasOneOwner, HostShape
  <1>p. StopInv'
    BY <1>0, <1>1, <1>4 DEF StopInv, WriteAsked, StopShape
  <1>w. CalmHosts'
    BY <1>0, <1>1, <1>4, NoId DEF CalmHosts, Calm, Here, HostShape, StopInv
  <1>z. CalmStop'
    BY <1>0, <1>1, <1>4 DEF CalmStop, Calm, Here, Behind
  <1>f. /\ SlotShape' /\ StartShape' /\ StartInv' /\ LockCoversStation' /\ GuardInv'
        /\ CalmSlot' /\ CalmPlacing'
    BY <1>0, <1>1 DEF SlotShape, StartShape, StartInv, LockCoversStation, GuardInv, WriteAsked,
       CalmSlot, Calm, CalmPlacing
  <1> QED
    BY <1>a, <1>b, <1>d, <1>q, <1>k, <1>h, <1>l, <1>p, <1>w, <1>z, <1>f DEF RouterInv

-----------------------------------------------------------------------------
(***************************************************************************)
(* Shutdown.                                                               *)
(***************************************************************************)

LEMMA BeginStopKeeps ==
    ASSUME RouterInv, BeginStop
    PROVE  RouterInv'
  <1>0. /\ ReqShape /\ HostShape /\ SlotShape /\ StopShape /\ StartShape
        /\ QueueInv /\ AskInv /\ HoldInv /\ StartInv /\ LeaseInv /\ LockCoversStation
        /\ StopInv /\ GuardInv /\ CalmHosts /\ CalmSlot /\ CalmPlacing /\ CalmStop
    BY DEF RouterInv
  <1>1. UNCHANGED <<req, uses, queue, known, occ, alive, starting, host, lock, lease, vac,
                    joining, late, hub, faults>>
    BY DEF BeginStop
  <1>4. /\ sd = "run"
        /\ sd' = "connections"
    BY <1>0 DEF BeginStop, ReqShape
  <1>d. StopShape'
    BY <1>0, <1>1 DEF BeginStop, StopShape
  <1>k. AskInv'
    BY <1>0, <1>1, <1>4 DEF AskInv, Placing, Actors
  <1>p. StopInv'
    BY <1>0, <1>1, <1>4 DEF StopInv, WriteAsked, StopShape
  <1>r. GuardInv'
    BY <1>0, <1>1, <1>4, RouterAssumption DEF GuardInv, WriteAsked, Behind
  <1>x. CalmSlot'
    BY <1>0, <1>1, <1>4 DEF CalmSlot, Calm, SlotShape
  <1>z. CalmStop'
    BY <1>0, <1>1, <1>4 DEF CalmStop, Calm, Here, Behind
  <1>f. /\ ReqShape' /\ HostShape' /\ SlotShape' /\ StartShape' /\ QueueInv'
        /\ HoldInv' /\ StartInv' /\ LeaseInv' /\ LockCoversStation' /\ CalmHosts'
        /\ CalmPlacing'
    BY <1>0, <1>1 DEF ReqShape, HostShape, SlotShape, StartShape, QueueInv, HoldInv, Holds,
       StartInv, LeaseInv, StoreHasOneOwner, LockCoversStation, CalmHosts, Calm, Here, CalmPlacing
  <1> QED
    BY <1>d, <1>k, <1>p, <1>r, <1>x, <1>z, <1>f DEF RouterInv

LEMMA ConnectionsDrainedKeeps ==
    ASSUME RouterInv, ConnectionsDrained
    PROVE  RouterInv'
  <1>0. /\ ReqShape /\ HostShape /\ SlotShape /\ StopShape /\ StartShape
        /\ QueueInv /\ AskInv /\ HoldInv /\ StartInv /\ LeaseInv /\ LockCoversStation
        /\ StopInv /\ GuardInv /\ CalmHosts /\ CalmSlot /\ CalmPlacing /\ CalmStop
    BY DEF RouterInv
  <1>1. UNCHANGED <<req, uses, queue, known, occ, alive, starting, host, lock, lease, vac,
                    joining, late, hub, faults>>
    BY DEF ConnectionsDrained
  <1>4. /\ sd = "connections"
        /\ sd' = "workers"
    BY <1>0 DEF ConnectionsDrained, ReqShape
  <1>d. StopShape'
    BY <1>0, <1>1 DEF ConnectionsDrained, StopShape
  <1>k. AskInv'
    BY <1>0, <1>1, <1>4 DEF AskInv, Placing, Actors
  <1>p. StopInv'
    BY <1>0, <1>1, <1>4 DEF StopInv, WriteAsked, StopShape
  <1>r. GuardInv'
    BY <1>0, <1>1, <1>4, RouterAssumption DEF GuardInv, WriteAsked, Behind
  <1>x. CalmSlot'
    BY <1>0, <1>1, <1>4 DEF CalmSlot, Calm, SlotShape
  <1>z. CalmStop'
    BY <1>0, <1>1, <1>4 DEF CalmStop, Calm, Here, Behind
  <1>f. /\ ReqShape' /\ HostShape' /\ SlotShape' /\ StartShape' /\ QueueInv'
        /\ HoldInv' /\ StartInv' /\ LeaseInv' /\ LockCoversStation' /\ CalmHosts'
        /\ CalmPlacing'
    BY <1>0, <1>1 DEF ReqShape, HostShape, SlotShape, StartShape, QueueInv, HoldInv, Holds,
       StartInv, LeaseInv, StoreHasOneOwner, LockCoversStation, CalmHosts, Calm, Here, CalmPlacing
  <1> QED
    BY <1>d, <1>k, <1>p, <1>r, <1>x, <1>z, <1>f DEF RouterInv

LEMMA WorkersJoinedKeeps ==
    ASSUME RouterInv, WorkersJoined
    PROVE  RouterInv'
  <1>0. /\ ReqShape /\ HostShape /\ SlotShape /\ StopShape /\ StartShape
        /\ QueueInv /\ AskInv /\ HoldInv /\ StartInv /\ LeaseInv /\ LockCoversStation
        /\ StopInv /\ GuardInv /\ CalmHosts /\ CalmSlot /\ CalmPlacing /\ CalmStop
    BY DEF RouterInv
  <1>1. UNCHANGED <<req, uses, queue, known, occ, alive, starting, host, lock, lease, vac,
                    joining, late, hub, faults>>
    BY DEF WorkersJoined
  <1>4. /\ sd = "workers"
        /\ sd' = "lifecycle"
        /\ "stop" \in faults \/ (vac = "idle" /\ \A r \in Upgrades : req[r] = "idle")
    BY <1>0 DEF WorkersJoined, ReqShape
  <1>d. StopShape'
    BY <1>0, <1>1 DEF WorkersJoined, StopShape
  <1>k. AskInv'
    BY <1>0, <1>1, <1>4 DEF AskInv, Placing, Actors
  <1>p. StopInv'
    BY <1>0, <1>1, <1>4 DEF StopInv, WriteAsked, StopShape
  <1>r. GuardInv'
    BY <1>0, <1>1, <1>4, RouterAssumption DEF GuardInv, WriteAsked, Behind
  <1>x. CalmSlot'
    BY <1>0, <1>1, <1>4 DEF CalmSlot, Calm, SlotShape
  <1>z. CalmStop'
    BY <1>0, <1>1, <1>4 DEF CalmStop, Calm, Here, Behind
  <1>f. /\ ReqShape' /\ HostShape' /\ SlotShape' /\ StartShape' /\ QueueInv'
        /\ HoldInv' /\ StartInv' /\ LeaseInv' /\ LockCoversStation' /\ CalmHosts'
        /\ CalmPlacing'
    BY <1>0, <1>1 DEF ReqShape, HostShape, SlotShape, StartShape, QueueInv, HoldInv, Holds,
       StartInv, LeaseInv, StoreHasOneOwner, LockCoversStation, CalmHosts, Calm, Here, CalmPlacing
  <1> QED
    BY <1>d, <1>k, <1>p, <1>r, <1>x, <1>z, <1>f DEF RouterInv

LEMMA GuardedKeeps ==
    ASSUME RouterInv, Guarded
    PROVE  RouterInv'
  <1>0. /\ ReqShape /\ HostShape /\ SlotShape /\ StopShape /\ StartShape
        /\ QueueInv /\ AskInv /\ HoldInv /\ StartInv /\ LeaseInv /\ LockCoversStation
        /\ StopInv /\ GuardInv /\ CalmHosts /\ CalmSlot /\ CalmPlacing /\ CalmStop
    BY DEF RouterInv
  <1>1. UNCHANGED <<req, uses, queue, known, occ, alive, starting, host, lock, lease, vac,
                    joining, late, hub, faults>>
    BY DEF Guarded
  <1>4. /\ sd = "lifecycle"
        /\ sd' = "collect"
        /\ Readers = {}
    BY <1>0 DEF Guarded, ReqShape
  <1>d. StopShape'
    BY <1>0, <1>1 DEF Guarded, StopShape
  <1>k. AskInv'
    BY <1>0, <1>1, <1>4 DEF AskInv, Placing, Actors
  <1>p. StopInv'
    BY <1>0, <1>1, <1>4 DEF StopInv, WriteAsked, StopShape
  <1>r. GuardInv'
    BY <1>0, <1>1, <1>4, RouterAssumption DEF GuardInv, WriteAsked, Behind, Readers, ReqShape
  <1>x. CalmSlot'
    BY <1>0, <1>1, <1>4 DEF CalmSlot, Calm, SlotShape
  <1>z. CalmStop'
    BY <1>0, <1>1, <1>4 DEF CalmStop, Calm, Here, Behind
  <1>f. /\ ReqShape' /\ HostShape' /\ SlotShape' /\ StartShape' /\ QueueInv'
        /\ HoldInv' /\ StartInv' /\ LeaseInv' /\ LockCoversStation' /\ CalmHosts'
        /\ CalmPlacing'
    BY <1>0, <1>1 DEF ReqShape, HostShape, SlotShape, StartShape, QueueInv, HoldInv, Holds,
       StartInv, LeaseInv, StoreHasOneOwner, LockCoversStation, CalmHosts, Calm, Here, CalmPlacing
  <1> QED
    BY <1>d, <1>k, <1>p, <1>r, <1>x, <1>z, <1>f DEF RouterInv

LEMMA DeadlineKeeps ==
    ASSUME RouterInv, Deadline
    PROVE  RouterInv'
  <1>0. /\ ReqShape /\ HostShape /\ SlotShape /\ StopShape /\ StartShape
        /\ QueueInv /\ AskInv /\ HoldInv /\ StartInv /\ LeaseInv /\ LockCoversStation
        /\ StopInv /\ GuardInv /\ CalmHosts /\ CalmSlot /\ CalmPlacing /\ CalmStop
    BY DEF RouterInv
  <1>1. UNCHANGED <<req, uses, queue, known, occ, alive, starting, host, lock, lease, vac,
                    joining, hub, faults>>
    BY DEF Deadline
  <1>4. /\ sd = "lifecycle"
        /\ sd' = "collect"
        /\ "stop" \in faults
        /\ late'
    BY <1>0 DEF Deadline, ReqShape
  <1>d. StopShape'
    BY <1>0, <1>1 DEF Deadline, StopShape
  <1>k. AskInv'
    BY <1>0, <1>1, <1>4 DEF AskInv, Placing, Actors
  <1>p. StopInv'
    BY <1>0, <1>1, <1>4 DEF StopInv, WriteAsked, StopShape
  <1>r. GuardInv'
    BY <1>0, <1>1, <1>4, RouterAssumption DEF GuardInv, WriteAsked, Behind
  <1>x. CalmSlot'
    BY <1>0, <1>1, <1>4 DEF CalmSlot, Calm, SlotShape
  <1>z. CalmStop'
    BY <1>0, <1>1, <1>4 DEF CalmStop, Calm, Here, Behind
  <1>f. /\ ReqShape' /\ HostShape' /\ SlotShape' /\ StartShape' /\ QueueInv'
        /\ HoldInv' /\ StartInv' /\ LeaseInv' /\ LockCoversStation' /\ CalmHosts'
        /\ CalmPlacing'
    BY <1>0, <1>1 DEF ReqShape, HostShape, SlotShape, StartShape, QueueInv, HoldInv, Holds,
       StartInv, LeaseInv, StoreHasOneOwner, LockCoversStation, CalmHosts, Calm, Here, CalmPlacing
  <1> QED
    BY <1>d, <1>k, <1>p, <1>r, <1>x, <1>z, <1>f DEF RouterInv

LEMMA CollectedKeeps ==
    ASSUME RouterInv, Collected
    PROVE  RouterInv'
  <1>0. /\ ReqShape /\ HostShape /\ SlotShape /\ StopShape /\ StartShape
        /\ QueueInv /\ AskInv /\ HoldInv /\ StartInv /\ LeaseInv /\ LockCoversStation
        /\ StopInv /\ GuardInv /\ CalmHosts /\ CalmSlot /\ CalmPlacing /\ CalmStop
    BY DEF RouterInv
  <1>1. UNCHANGED <<req, uses, known, occ, starting, lock, lease, vac, late, hub, faults>>
    BY DEF Collected
  <1>i. /\ host' = Stopped(host, occ.id) /\ occ.id \in {0} \cup Ids
    BY <1>0 DEF Collected, SlotShape
  <1>j. host' \in [Ids -> [stage : {"none", "opening", "up", "draining", "leaked"},
                              at : {"here", "elsewhere"}, stop : BOOLEAN]]
    BY <1>0, <1>i, StoppedFacts
  <1>m. /\ \A j \in Ids : host'[j].stage = host[j].stage /\ host'[j].at = host[j].at
        /\ \A j \in Ids : j # occ.id => host'[j] = host[j]
    BY <1>0, <1>i, StoppedFacts
  <1>2. Leave({"shutdown"})
    BY DEF Collected
  <1>3. /\ queue' \in [Actors -> SUBSET Actors] /\ QueueInv'
        /\ \A a \in Actors : queue'[a] # {} <=> queue[a] # {} /\ a # "shutdown"
        /\ \A a \in Actors : a # "shutdown" /\ Holds(a) => Holds(a)'
    BY <1>0, <1>2, LeaveFacts
  <1>4. /\ sd = "queued"
        /\ sd' = "join"
        /\ joining'["shutdown"] = occ.id
        /\ joining'["vacate"] = joining["vacate"]
        /\ alive' = FALSE
    BY <1>0 DEF Collected, StopShape
  <1>a5. "shutdown" \in Actors /\ "shutdown" \notin Requests /\ Holds("shutdown")
    BY <1>0, RouterAssumption DEF Collected, HoldInv, Actors
  <1>5. /\ \A s \in Requests \ {"shutdown"} : req[s] \notin Placing
        /\ vac \in {"idle", "queued"}
        /\ starting = 0
    BY <1>a5, Alone
  <1>a. ReqShape'
    BY <1>0, <1>1, <1>3 DEF Collected, ReqShape
  <1>b. HostShape'
    BY <1>0, <1>1, <1>j DEF HostShape
  <1>c. SlotShape'
    BY <1>0, <1>1 DEF Collected, SlotShape
  <1>d. StopShape'
    BY <1>0, <1>1 DEF Collected, StopShape, SlotShape
  <1>q. QueueInv'
    BY <1>3
  <1>k. AskInv'
    BY <1>0, <1>1, <1>m, <1>4, <1>5, <1>3, RouterAssumption DEF AskInv, Placing, Actors
  <1>h. HoldInv'
    BY <1>0, <1>1, <1>m, <1>4, <1>5, <1>3, RouterAssumption DEF HoldInv, Placing, Actors
  <1>s. StartInv'
    BY <1>0, <1>1, <1>m, <1>4, <1>5 DEF StartInv, StartShape, ReqShape
  <1>l. LeaseInv'
    BY <1>0, <1>1, <1>m, <1>4, NoId DEF LeaseInv, StoreHasOneOwner, HostShape
  <1>o. LockCoversStation'
    BY <1>0, <1>1, <1>m, <1>4, NoId DEF LockCoversStation, HostShape
  <1>p. StopInv'
    BY <1>0, <1>1, <1>m, <1>4 DEF StopInv, WriteAsked, StopShape
  <1>r. GuardInv'
    BY <1>0, <1>1, <1>m, <1>4, RouterAssumption DEF GuardInv, WriteAsked, Behind
  <1>w. CalmHosts'
    BY <1>0, <1>1, <1>m, <1>4, <1>5, NoId DEF CalmHosts, Calm, Here, HostShape, StopInv
  <1>x. CalmSlot'
    BY <1>0, <1>1, <1>m, <1>4 DEF CalmSlot, Calm, SlotShape
  <1>y. CalmPlacing'
    BY <1>0, <1>1, <1>m, <1>4, <1>5 DEF CalmPlacing, Calm, StartShape
  <1>z. CalmStop'
    BY <1>0, <1>1, <1>m, <1>4 DEF CalmStop, Calm, Here, Behind
  <1>f. /\ StartShape'
    BY <1>0, <1>1 DEF StartShape
  <1> QED
    BY <1>a, <1>b, <1>c, <1>d, <1>q, <1>k, <1>h, <1>s, <1>l, <1>o, <1>p, <1>r, <1>w, <1>x, <1>y,
       <1>z, <1>f DEF RouterInv

LEMMA JoinedKeeps ==
    ASSUME RouterInv, Joined
    PROVE  RouterInv'
  <1>0. /\ ReqShape /\ HostShape /\ SlotShape /\ StopShape /\ StartShape
        /\ QueueInv /\ AskInv /\ HoldInv /\ StartInv /\ LeaseInv /\ LockCoversStation
        /\ StopInv /\ GuardInv /\ CalmHosts /\ CalmSlot /\ CalmPlacing /\ CalmStop
    BY DEF RouterInv
  <1>1. UNCHANGED <<req, uses, queue, known, occ, alive, starting, host, lock, lease, vac, late,
                    hub, faults>>
    BY DEF Joined
  <1>4. /\ sd = "join"
        /\ sd' = "hub"
        /\ joining'["shutdown"] = 0
        /\ joining'["vacate"] = joining["vacate"]
        /\ "join" \in faults \/ Returned(joining["shutdown"])
    BY <1>0 DEF Joined, StopShape
  <1>8. Calm => \A i \in Ids : Here(i) => host[i].stage = "none"
    BY <1>0, <1>1, <1>4, NoId, CalmBehind DEF Calm, CalmHosts, CalmStop, Returned, Behind
  <1>d. StopShape'
    BY <1>0, <1>1 DEF Joined, StopShape
  <1>k. AskInv'
    BY <1>0, <1>1, <1>4, <1>8 DEF AskInv, Placing, Actors
  <1>p. StopInv'
    BY <1>0, <1>1, <1>4, <1>8 DEF StopInv, WriteAsked, StopShape
  <1>r. GuardInv'
    BY <1>0, <1>1, <1>4, <1>8, RouterAssumption DEF GuardInv, WriteAsked, Behind
  <1>w. CalmHosts'
    BY <1>0, <1>1, <1>4, <1>8, NoId DEF CalmHosts, Calm, Here, HostShape
  <1>x. CalmSlot'
    BY <1>0, <1>1, <1>4, <1>8 DEF CalmSlot, Calm, SlotShape
  <1>z. CalmStop'
    BY <1>0, <1>1, <1>4, <1>8 DEF CalmStop, Calm, Here, Behind
  <1>f. /\ ReqShape' /\ HostShape' /\ SlotShape' /\ StartShape' /\ QueueInv'
        /\ HoldInv' /\ StartInv' /\ LeaseInv' /\ LockCoversStation' /\ CalmPlacing'
    BY <1>0, <1>1 DEF ReqShape, HostShape, SlotShape, StartShape, QueueInv, HoldInv, Holds,
       StartInv, LeaseInv, StoreHasOneOwner, LockCoversStation, CalmPlacing, Calm
  <1> QED
    BY <1>d, <1>k, <1>p, <1>r, <1>w, <1>x, <1>z, <1>f DEF RouterInv

LEMMA CloseHubKeeps ==
    ASSUME RouterInv, CloseHub
    PROVE  RouterInv'
  <1>0. /\ ReqShape /\ HostShape /\ SlotShape /\ StopShape /\ StartShape
        /\ QueueInv /\ AskInv /\ HoldInv /\ StartInv /\ LeaseInv /\ LockCoversStation
        /\ StopInv /\ GuardInv /\ CalmHosts /\ CalmSlot /\ CalmPlacing /\ CalmStop
    BY DEF RouterInv
  <1>1. UNCHANGED <<req, uses, queue, known, occ, alive, starting, host, lock, lease, vac,
                    joining, late, faults>>
    BY DEF CloseHub
  <1>4. /\ sd = "hub"
        /\ sd' = "done"
        /\ hub' = FALSE
    BY <1>0 DEF CloseHub, ReqShape
  <1>d. StopShape'
    BY <1>0, <1>1 DEF CloseHub, StopShape
  <1>k. AskInv'
    BY <1>0, <1>1, <1>4 DEF AskInv, Placing, Actors
  <1>p. StopInv'
    BY <1>0, <1>1, <1>4 DEF StopInv, WriteAsked, StopShape
  <1>r. GuardInv'
    BY <1>0, <1>1, <1>4, RouterAssumption DEF GuardInv, WriteAsked, Behind
  <1>x. CalmSlot'
    BY <1>0, <1>1, <1>4 DEF CalmSlot, Calm, SlotShape
  <1>z. CalmStop'
    BY <1>0, <1>1, <1>4 DEF CalmStop, Calm, Here, Behind
  <1>f. /\ ReqShape' /\ HostShape' /\ SlotShape' /\ StartShape' /\ QueueInv'
        /\ HoldInv' /\ StartInv' /\ LeaseInv' /\ LockCoversStation' /\ CalmHosts'
        /\ CalmPlacing'
    BY <1>0, <1>1 DEF ReqShape, HostShape, SlotShape, StartShape, QueueInv, HoldInv, Holds,
       StartInv, LeaseInv, StoreHasOneOwner, LockCoversStation, CalmHosts, Calm, Here, CalmPlacing
  <1> QED
    BY <1>d, <1>k, <1>p, <1>r, <1>x, <1>z, <1>f DEF RouterInv

LEMMA CollectKeeps ==
    ASSUME RouterInv, Collect
    PROVE  RouterInv'
  <1>0. /\ ReqShape /\ HostShape /\ SlotShape /\ StopShape /\ StartShape
        /\ QueueInv /\ AskInv /\ HoldInv /\ StartInv /\ LeaseInv /\ LockCoversStation
        /\ StopInv /\ GuardInv /\ CalmHosts /\ CalmSlot /\ CalmPlacing /\ CalmStop
    BY DEF RouterInv
  <1>1. UNCHANGED <<req, uses, known, occ, alive, starting, host, lock, lease, vac, joining,
                    late, hub, faults>>
    BY DEF Collect
  <1>2. /\ sd = "collect" /\ sd' \in {"queued", "hub"}
        /\ known => sd' = "queued" /\ Ask("shutdown")
        /\ ~known => sd' = "hub" /\ queue' = queue
    BY DEF Collect
  <1>3. "shutdown" \in Actors /\ queue["shutdown"] = {}
    BY <1>0, <1>2 DEF Actors, AskInv
  <1>4. /\ queue' \in [Actors -> SUBSET Actors] /\ QueueInv'
        /\ known <=> queue'["shutdown"] # {}
        /\ \A a \in Actors : a # "shutdown" => queue'[a] = queue[a]
    <2>1. CASE known
      BY <1>0, <1>2, <1>3, <2>1, AskFacts
    <2>2. CASE ~known
      BY <1>0, <1>2, <1>3, <2>2 DEF ReqShape, QueueInv
    <2> QED
      BY <2>1, <2>2
  <1>a. ReqShape'
    BY <1>0, <1>1, <1>4 DEF ReqShape
  <1>d. StopShape'
    BY <1>0, <1>1, <1>2 DEF StopShape
  <1>k. AskInv'
    BY <1>0, <1>1, <1>2, <1>3, <1>4, RouterAssumption DEF AskInv, Actors
  <1>h. HoldInv'
    BY <1>0, <1>1, <1>4, RouterAssumption DEF HoldInv, Holds, Actors
  <1>p. StopInv'
    BY <1>0, <1>1, <1>2 DEF StopInv, WriteAsked
  <1>r. GuardInv'
    BY <1>0, <1>1, <1>2 DEF GuardInv, WriteAsked, Behind
  <1>x. CalmSlot'
    BY <1>0, <1>1, <1>2 DEF CalmSlot, Calm
  <1>z. CalmStop'
    <2>1. CASE known
      BY <1>1, <1>2, <2>1 DEF CalmStop
    <2>2. CASE ~known
      <3>1. occ.id = 0 /\ joining["shutdown"] = 0
        BY <1>0, <1>2, <2>2 DEF StopInv, None
      <3>2. Calm => starting = 0 /\ joining["vacate"] = 0
        BY <1>2, CalmBehind DEF Behind
      <3>3. Calm => \A i \in Ids : Here(i) => host[i].stage = "none"
        BY <1>0, <3>1, <3>2, NoId DEF CalmHosts
      <3> QED
        BY <1>1, <1>2, <2>2, <3>3 DEF CalmStop, Calm, Here
    <2> QED
      BY <2>1, <2>2
  <1>f. /\ HostShape' /\ SlotShape' /\ StartShape' /\ StartInv'
        /\ LeaseInv' /\ LockCoversStation' /\ CalmHosts' /\ CalmPlacing'
    BY <1>0, <1>1 DEF HostShape, SlotShape, StartShape, StartInv, LeaseInv, StoreHasOneOwner,
       LockCoversStation, CalmHosts, Calm, Here, CalmPlacing
  <1> QED
    BY <1>4, <1>a, <1>d, <1>k, <1>h, <1>p, <1>r, <1>x, <1>z, <1>f DEF RouterInv

\* Cancelling the connections takes their places in the slot's queue, and the Station
\* that one of them was opening goes with it.
LEMMA ConnectionsAbortedKeeps ==
    ASSUME RouterInv, ConnectionsAborted
    PROVE  RouterInv'
  <1> DEFINE cut == {r \in Connections : req[r] \notin {"idle", "using"}}
  <1>0. /\ ReqShape /\ HostShape /\ SlotShape /\ StopShape /\ StartShape
        /\ QueueInv /\ AskInv /\ HoldInv /\ StartInv /\ LeaseInv /\ LockCoversStation
        /\ StopInv /\ GuardInv /\ CalmHosts /\ CalmSlot /\ CalmPlacing /\ CalmStop
    BY DEF RouterInv
  <1>1. UNCHANGED <<uses, known, occ, alive, lease, vac, joining, late, hub, faults>>
    BY DEF ConnectionsAborted
  <1>2. sd = "connections" /\ sd' = "workers" /\ ~Calm /\ Leave(cut)
    BY DEF ConnectionsAborted, Calm
  <1>3. /\ req' = [r \in Requests |-> IF r \in cut THEN "idle" ELSE req[r]]
        /\ IF \E r \in cut : req[r] = "opening"
           THEN host' = [host EXCEPT ![starting] = Nobody] /\ lock' = 0
           ELSE UNCHANGED <<host, lock>>
        /\ starting' = IF \E r \in cut : req[r] \in Placing THEN 0 ELSE starting
    BY DEF ConnectionsAborted
  <1>4. /\ cut \subseteq Requests /\ cut \cap Upgrades = {}
        /\ \A r \in cut : req[r] \notin {"idle", "using"}
        /\ "vacate" \notin cut /\ "shutdown" \notin cut
    BY RouterAssumption
  <1> HIDE DEF cut
  <1>5. /\ \A r \in cut : req'[r] = "idle"
        /\ \A r \in Requests : r \notin cut => req'[r] = req[r]
    BY <1>3, <1>4
  <1>6. /\ queue' \in [Actors -> SUBSET Actors] /\ QueueInv'
        /\ \A a \in Actors : queue'[a] # {} <=> queue[a] # {} /\ a \notin cut
        /\ \A a \in Actors \ cut : Holds(a) => Holds(a)'
    BY <1>0, <1>2, LeaveFacts
  <1>7. Requests \subseteq Actors /\ "vacate" \in Actors /\ "shutdown" \in Actors
    BY DEF Actors
  <1>8. \A r, s \in Requests : req[r] \in Placing /\ req[s] \in Placing => r = s
    BY <1>0, <1>7, OneHolder DEF HoldInv
  \* Who is left under way after the cut was under way before it, and alone.
  <1>9. \/ /\ starting' = starting
           /\ \A r \in cut : req[r] \notin Placing
           /\ UNCHANGED <<host, lock>>
        \/ /\ starting' = 0
           /\ \A r \in Requests : req'[r] \notin Placing
           /\ \/ UNCHANGED <<host, lock>> /\ \A r \in Requests : req[r] # "opening"
              \/ /\ \E r \in cut : req[r] = "opening"
                 /\ host' = [host EXCEPT ![starting] = Nobody] /\ lock' = 0
    <2>1. CASE \A r \in cut : req[r] \notin Placing
      <3>1. ~\E r \in cut : req[r] = "opening"
        BY <2>1 DEF Placing
      <3>2. starting' = starting /\ UNCHANGED <<host, lock>>
        BY <1>3, <2>1, <3>1
      <3> QED
        BY <2>1, <3>2
    <2>2. CASE \E r \in cut : req[r] \in Placing
      <3>1. PICK r \in cut : req[r] \in Placing
        BY <2>2
      <3>2. starting' = 0
        BY <1>3, <2>2
      <3>3. \A s \in Requests : s # r => req[s] \notin Placing
        BY <1>4, <1>8, <3>1
      <3>4. \A s \in Requests : req'[s] \notin Placing
        BY <1>4, <1>5, <3>3 DEF Placing
      <3>5. CASE req[r] = "opening"
        BY <1>3, <3>1, <3>2, <3>4, <3>5
      <3>6. CASE req[r] # "opening"
        <4>1. \A s \in Requests : req[s] # "opening"
          BY <3>3, <3>6 DEF Placing
        <4> QED
          BY <1>3, <1>4, <3>2, <3>4, <4>1
      <3> QED
        BY <3>5, <3>6
    <2> QED
      BY <2>1, <2>2
  <1>10. \/ /\ starting' = starting
            /\ \A r \in cut : req[r] \notin Placing
            /\ UNCHANGED <<host, lock>>
         \/ /\ starting' = 0
            /\ \A r \in Requests : req'[r] \notin Placing
            /\ \/ UNCHANGED <<host, lock>> /\ \A r \in Requests : req[r] # "opening"
               \/ /\ starting \in Ids /\ host[starting].stage = "opening" /\ lock' = 0
                  /\ host'[starting] = [stage |-> "none", at |-> "here", stop |-> FALSE]
                  /\ \A j \in Ids : j # starting => host'[j] = host[j]
    <2>1. CASE \E r \in cut : req[r] = "opening"
      <3>1. starting \in Ids /\ host[starting].stage = "opening"
        BY <1>0, <1>4, <2>1 DEF StartInv, StartShape
      <3>2. host' = [host EXCEPT ![starting] = Nobody] /\ lock' = 0
        BY <1>3, <2>1
      <3>3. /\ host'[starting] = [stage |-> "none", at |-> "here", stop |-> FALSE]
            /\ \A j \in Ids : j # starting => host'[j] = host[j]
        BY <1>0, <3>1, <3>2 DEF HostShape, Nobody
      <3>4. starting' = 0 /\ \A r \in Requests : req'[r] \notin Placing
        BY <1>9, <2>1 DEF Placing
      <3> QED
        BY <3>1, <3>2, <3>3, <3>4
    <2> QED
      BY <1>9, <2>1
  <1>a. ReqShape'
    <2>1. req' \in [Requests -> {"idle", "checked", "queued", "using"} \cup Placing]
      BY <1>0, <1>3 DEF ReqShape
    <2> QED
      BY <1>0, <1>1, <1>6, <2>1 DEF ReqShape
  <1>b. HostShape'
    <2>1. CASE UNCHANGED <<host, lock>>
      BY <1>0, <1>1, <2>1 DEF HostShape
    <2>2. CASE host' = [host EXCEPT ![starting] = Nobody] /\ lock' = 0
      BY <1>0, <1>1, <2>2 DEF HostShape, Nobody
    <2> QED
      BY <1>9, <2>1, <2>2
  <1>d. StopShape'
    BY <1>0, <1>1, <1>2 DEF StopShape
  <1>e. StartShape'
    <2>1. CASE starting' = starting /\ \A r \in cut : req[r] \notin Placing
      BY <1>0, <1>4, <1>5, <2>1 DEF StartShape, Placing
    <2>2. CASE starting' = 0 /\ \A r \in Requests : req'[r] \notin Placing
      BY <2>2 DEF StartShape, Placing
    <2> QED
      BY <1>10, <2>1, <2>2
  <1>k. AskInv'
    BY <1>0, <1>1, <1>2, <1>4, <1>5, <1>6, <1>7 DEF AskInv, ReqShape, Placing
  <1>h. HoldInv'
    BY <1>0, <1>1, <1>4, <1>5, <1>6, <1>7 DEF HoldInv, Placing
  <1>s. StartInv'
    <2>1. CASE starting' = starting /\ UNCHANGED <<host, lock>> /\ \A r \in cut : req[r] \notin Placing
      BY <1>0, <1>1, <1>4, <1>5, <2>1 DEF StartInv, Placing
    <2>2. CASE starting' = 0 /\ \A r \in Requests : req'[r] \notin Placing
      <3>1. \A i \in Ids : host'[i].stage # "opening"
        <4>1. CASE UNCHANGED <<host, lock>> /\ \A r \in Requests : req[r] # "opening"
          BY <1>0, <4>1 DEF StartInv
        <4>2. CASE UNCHANGED <<host, lock>> /\ \A r \in cut : req[r] \notin Placing
          BY <1>0, <1>4, <1>5, <2>2, <4>2 DEF StartInv, Placing
        <4>3. CASE /\ host'[starting] = [stage |-> "none", at |-> "here", stop |-> FALSE]
                   /\ \A j \in Ids : j # starting => host'[j] = host[j]
          BY <1>0, <4>3 DEF StartInv
        <4> QED
          BY <1>10, <4>1, <4>2, <4>3
      <3> QED
        BY <2>2, <3>1 DEF StartInv, Placing
    <2> QED
      BY <1>10, <2>1, <2>2
  <1>l. LeaseInv'
    BY <1>0, <1>1, <1>10 DEF LeaseInv, StoreHasOneOwner
  <1>o. LockCoversStation'
    BY <1>0, <1>1, <1>10, NoId DEF LockCoversStation
  <1>p. StopInv'
    BY <1>0, <1>1, <1>2 DEF StopInv, WriteAsked
  <1>r. GuardInv'
    BY <1>0, <1>1, <1>2, <1>4, <1>5, RouterAssumption DEF GuardInv, WriteAsked, Behind
  <1>w. CalmHosts' /\ CalmSlot' /\ CalmPlacing' /\ CalmStop'
    BY <1>1, <1>2 DEF CalmHosts, CalmSlot, CalmPlacing, CalmStop, Calm
  <1>f. SlotShape'
    BY <1>0, <1>1 DEF SlotShape
  <1> QED
    BY <1>6, <1>a, <1>b, <1>d, <1>e, <1>k, <1>h, <1>s, <1>l, <1>o, <1>p, <1>r, <1>w, <1>f
       DEF RouterInv

-----------------------------------------------------------------------------
(***************************************************************************)
(* The theorems.                                                           *)
(***************************************************************************)

LEMMA InitRouter == Init => RouterInv
  <1> SUFFICES ASSUME Init PROVE RouterInv
    OBVIOUS
  <1> USE DEF Init
  <1>1. ReqShape /\ HostShape
    BY DEF ReqShape, HostShape, Nobody
  <1>2. SlotShape /\ StopShape /\ StartShape
    BY DEF SlotShape, StopShape, StartShape, None
  <1>3. QueueInv /\ AskInv /\ HoldInv
    BY RouterAssumption DEF QueueInv, AskInv, HoldInv, Actors, Placing
  <1>4. StartInv /\ LeaseInv /\ LockCoversStation
    BY NoId DEF StartInv, LeaseInv, StoreHasOneOwner, LockCoversStation, Nobody
  <1>5. StopInv /\ GuardInv
    BY RouterAssumption DEF StopInv, GuardInv, WriteAsked, Behind
  <1>6. CalmHosts /\ CalmSlot /\ CalmPlacing /\ CalmStop
    BY DEF CalmHosts, CalmSlot, CalmPlacing, CalmStop, None, Nobody
  <1> QED
    BY <1>1, <1>2, <1>3, <1>4, <1>5, <1>6 DEF RouterInv

LEMMA StutterRouter == RouterInv /\ UNCHANGED vars => RouterInv'
  <1> SUFFICES ASSUME RouterInv, UNCHANGED vars PROVE RouterInv'
    OBVIOUS
  <1> USE DEF RouterInv, vars
  <1>1. ReqShape' /\ HostShape'
    BY DEF ReqShape, HostShape
  <1>2. SlotShape' /\ StopShape' /\ StartShape'
    BY DEF SlotShape, StopShape, StartShape
  <1>3. QueueInv' /\ AskInv' /\ HoldInv'
    BY DEF QueueInv, AskInv, HoldInv, Holds
  <1>4. StartInv' /\ LeaseInv' /\ LockCoversStation'
    BY DEF StartInv, LeaseInv, StoreHasOneOwner, LockCoversStation
  <1>5. StopInv' /\ GuardInv'
    BY DEF StopInv, GuardInv, WriteAsked
  <1>6. CalmHosts' /\ CalmSlot' /\ CalmPlacing' /\ CalmStop'
    BY DEF CalmHosts, CalmSlot, CalmPlacing, CalmStop, Calm, Here
  <1> QED
    BY <1>1, <1>2, <1>3, <1>4, <1>5, <1>6

LEMMA NextRouter == RouterInv /\ Next => RouterInv'
  <1> SUFFICES ASSUME RouterInv, Next PROVE RouterInv'
    OBVIOUS
  <1>1. ASSUME NEW r \in Requests, Enter(r) \/ Route(r) PROVE RouterInv'
    BY <1>1, EnterKeeps, LookupKeeps, ReuseKeeps, VacantKeeps, AttachKeeps, ProbeForeignKeeps,
       ProbeAbsentKeeps, StartKeeps, StartLockedKeeps, OpenedKeeps, OpenFailsKeeps, ReadyKeeps,
       NotReadyKeeps, RunnerAwaitedKeeps, GiveUpKeeps, DoneKeeps DEF Route
  <1>2. ASSUME NEW i \in Ids, StopServing(i) \/ Drained(i) \/ DrainTimeout(i) \/ LeakEnds(i)
        PROVE  RouterInv'
    BY <1>2, StopServingKeeps, DrainedKeeps, DrainTimeoutKeeps, LeakEndsKeeps
  <1>3. ASSUME PumpEnds \/ ElsewhereStarts \/ Vacate \/ BeginStop PROVE RouterInv'
    BY <1>3, PumpEndsKeeps, ElsewhereStartsKeeps, VacateKeeps, BeginStopKeeps
  <1>4. ASSUME Exclude PROVE RouterInv'
    BY <1>4, VacateTakeKeeps, VacatedKeeps, VacateFailsKeeps, OperateKeeps, OperationRefusedKeeps,
       OperationEndsKeeps DEF Exclude
  <1>5. ASSUME Shutdown PROVE RouterInv'
    BY <1>5, ConnectionsDrainedKeeps, ConnectionsAbortedKeeps, WorkersJoinedKeeps, GuardedKeeps,
       DeadlineKeeps, CollectKeeps, CollectedKeeps, JoinedKeeps, CloseHubKeeps DEF Shutdown
  <1> QED
    BY <1>1, <1>2, <1>3, <1>4, <1>5 DEF Next

\* The inductive invariant holds of every behaviour, whatever may go wrong in it.
THEOREM RouterInvHolds == Spec => []RouterInv
<1>1. Init => RouterInv
  BY InitRouter
<1>2. RouterInv /\ [Next]_vars => RouterInv'
  BY NextRouter, StutterRouter
<1> QED
  BY <1>1, <1>2, PTL DEF Spec

\* The slot, the hosts and shutdown's steps stay in their types; a slot is owned exactly
\* when it names a Station, and a Station is being started exactly while a placement is.
THEOREM RouterTyped == Spec => []TypeOK
<1>1. RouterInv => TypeOK
  BY TypeParts DEF RouterInv
<1> QED
  BY <1>1, RouterInvHolds, PTL

\* For any number of requests, Stations and other processes, and whatever fails: no two
\* Stations have the Orbit's store at a time, nor a Station and an exclusive operation.
THEOREM StoreOwnedOnce == Spec => []StoreHasOneOwner
<1>1. RouterInv => StoreHasOneOwner
  BY DEF RouterInv, LeaseInv
<1> QED
  BY <1>1, RouterInvHolds, PTL

\* Unless a client outlasts a drain, the daemon lock is held by every Station from before
\* it opens until after it is gone; so there is one at most.
THEOREM LockCovers == Spec => []LockCoversStation
<1>1. RouterInv => LockCoversStation
  BY DEF RouterInv
<1> QED
  BY <1>1, RouterInvHolds, PTL

\* Router::vacate answers only when no Station of this daemon has anything of the Orbit
\* left, as long as none stops on its own and no wait expires.
THEOREM VacancyHolds == Spec => []VacancyIsVacant
<1>1. ASSUME RouterInv PROVE VacancyIsVacant
  <2> SUFFICES ASSUME Calm, vac \in {"held", "working"}, NEW i \in Ids, Here(i)
               PROVE  host[i].stage = "none"
    BY DEF VacancyIsVacant
  <2>1. "vacate" \in Actors /\ "vacate" \notin Requests /\ Holds("vacate") /\ occ = None
    BY <1>1, RouterAssumption DEF RouterInv, HoldInv, Actors
  <2>2. starting = 0
    BY <1>1, <2>1, Alone
  <2>3. joining["vacate"] = 0
    BY <1>1 DEF RouterInv, StopInv
  <2>4. joining["shutdown"] = 0
    <3>1. sd \notin Behind
      BY <1>1, CalmBehind
    <3> QED
      BY <1>1, <3>1 DEF RouterInv, StopInv, Behind
  <2>5. host[i].stage # "none" => i \in {occ.id, starting, joining["vacate"], joining["shutdown"]}
    BY <1>1 DEF RouterInv, CalmHosts
  <2> QED
    BY <2>1, <2>2, <2>3, <2>4, <2>5, NoId DEF None
<1> QED
  BY <1>1, RouterInvHolds, PTL

\* The identity's endpoints close after the last Station of this daemon has gone, as long
\* as nothing outlasts its wait.
THEOREM HubClosesLast == Spec => []HubOutlivesStations
<1>1. RouterInv => HubOutlivesStations
  BY DEF RouterInv, StopInv, CalmStop, HubOutlivesStations
<1> QED
  BY <1>1, RouterInvHolds, PTL

\* Only StationRunner::start_inner makes a Station of nothing that is still opening.
LEMMA OnlyStartOpens ==
    ASSUME RouterInv, Next, NEW i \in Ids, host[i].stage = "none", host'[i].stage = "opening"
    PROVE  \E r \in Requests : req[r] = "start"
  <1>1. HostShape /\ StartShape /\ SlotShape /\ ReqShape /\ StartInv
    BY DEF RouterInv
  <1>2. CASE \E r \in Requests : Enter(r) \/ Route(r)
    <2>1. PICK r \in Requests : Enter(r) \/ Route(r)
      BY <1>2
    <2>2. CASE \/ Enter(r) \/ Lookup(r) \/ Reuse(r) \/ Attach(r) \/ ProbeForeign(r) \/ ProbeAbsent(r)
               \/ StartLocked(r) \/ Ready(r) \/ RunnerAwaited(r) \/ GiveUp(r)
      BY <2>2 DEF Enter, Lookup, Reuse, Attach, ProbeForeign, ProbeAbsent, StartLocked, Ready,
         RunnerAwaited, GiveUp, Establish, Fail
    <2>3. CASE Start(r)
      BY <2>3 DEF Start
    <2>4. CASE Opened(r) \/ OpenFails(r)
      BY <1>1, <2>4 DEF Opened, OpenFails, HostShape, Nobody
    <2>5. CASE NotReady(r) \/ Vacant(r) \/ Done(r)
      <3>1. PICK x \in {0} \cup Ids : host' = host \/ host' = Stopped(host, x)
        BY <1>1, <2>5 DEF NotReady, Vacant, Done, Dropped, StartShape, SlotShape, ReqShape
      <3> QED
        BY <1>1, <3>1, StoppedFacts
    <2> QED
      BY <2>1, <2>2, <2>3, <2>4, <2>5 DEF Route
  <1>3. CASE \E j \in Ids : StopServing(j) \/ Drained(j) \/ DrainTimeout(j) \/ LeakEnds(j)
    BY <1>1, <1>3 DEF StopServing, Drained, DrainTimeout, LeakEnds, HostShape, Nobody
  <1>4. CASE ElsewhereStarts
    BY <1>1, <1>4 DEF ElsewhereStarts, HostShape, Free
  <1>5. CASE VacateTake \/ Collected
    <2>1. host' = Stopped(host, occ.id) /\ occ.id \in {0} \cup Ids
      BY <1>1, <1>5 DEF VacateTake, Collected, SlotShape
    <2> QED
      BY <1>1, <2>1, StoppedFacts
  <1>6. CASE ConnectionsAborted
    BY <1>1, <1>6 DEF ConnectionsAborted, HostShape, Nobody
  <1>7. CASE \/ PumpEnds \/ Vacate \/ BeginStop
             \/ Vacated \/ VacateFails \/ Operate \/ OperationRefused \/ OperationEnds
    BY <1>7 DEF PumpEnds, Vacate, BeginStop, Vacated, VacateFails, Operate, OperationRefused,
       OperationEnds
  <1>8. CASE \/ ConnectionsDrained \/ WorkersJoined \/ Guarded \/ Deadline \/ Collect \/ Joined \/ CloseHub
    BY <1>8 DEF ConnectionsDrained, WorkersJoined, Guarded, Deadline, Collect, Joined, CloseHub
  <1> QED
    BY <1>2, <1>3, <1>4, <1>5, <1>6, <1>7, <1>8 DEF Next, Exclude, Shutdown

\* Once Router::shutdown has the lifecycle guard, no placement starts a Station behind its
\* snapshot.  The guard does not cover the upgrade worker, which only its join keeps out:
\* hence no behaviour in which that join may expire while the worker places Stations.
THEOREM SnapshotCovers ==
    ASSUME \A F \in FaultSets : ~({"upgrade", "stop"} \subseteq F)
    PROVE  Spec => NothingBehindSnapshot
<1> DEFINE Covered == ~(/\ sd \in {"join", "hub"} /\ ~late
                        /\ \E i \in Ids : host[i].stage = "none" /\ host'[i].stage = "opening")
<1>1. ASSUME RouterInv, Next PROVE Covered
  <2> SUFFICES ASSUME sd \in {"join", "hub"}, ~late, NEW i \in Ids,
                      host[i].stage = "none", host'[i].stage = "opening"
               PROVE  FALSE
    OBVIOUS
  <2>1. PICK r \in Requests : req[r] = "start"
    BY <1>1, OnlyStartOpens
  <2>2. r \in Upgrades
    BY <1>1, <2>1 DEF RouterInv, GuardInv, Behind
  <2>3. "upgrade" \in faults
    BY <1>1, <2>1, <2>2 DEF RouterInv, GuardInv
  <2>4. "stop" \notin faults
    BY <1>1, <2>3 DEF RouterInv, StopShape
  <2> QED
    BY <1>1, <2>1, <2>2, <2>4 DEF RouterInv, GuardInv, WriteAsked
<1>2. RouterInv /\ [Next]_vars => [Covered]_vars
  BY <1>1
<1> QED
  BY <1>2, RouterInvHolds, PTL DEF Spec, NothingBehindSnapshot

=============================================================================
