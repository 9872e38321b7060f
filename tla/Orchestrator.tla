---------------------------- MODULE Orchestrator ----------------------------
(***************************************************************************)
(* The orchestrator service: the only holder of the Docker socket.  It     *)
(* gives every learner session an environment -- one internal network, one *)
(* container per target of the lab and one TCP relay per target -- and     *)
(* keeps a lease on it in memory.                                          *)
(*                                                                         *)
(* Request handlers are synchronous functions run in a thread pool, and a  *)
(* daemon thread, the reaper, wakes every 15 seconds.  They share the      *)
(* lease store (one lock, held for one operation at a time) and the Docker *)
(* daemon, and nothing serialises two requests for one session.  A step of *)
(* this module is therefore one operation of the store, one Docker call or *)
(* one relay start or stop; `pc' says which comes next.                    *)
(*                                                                         *)
(* Docker is external: a network name is unique and a network with a       *)
(* running container attached cannot be removed; a container name is       *)
(* unique, and a handle on a container is good for that container only,    *)
(* not for a later one of the same name (field `by').                      *)
(***************************************************************************)
EXTENDS Naturals, FiniteSets

CONSTANTS
    Session,    \* session ids
    Worker,     \* threads that serve requests
    Reaper,     \* the reaper thread
    Port,       \* the ephemeral ports relays may be given
    NTargets,   \* targets of the lab's manifest
    NetTries,   \* passes destroy_session makes over the networks (4 in the code)
    Faults,     \* kinds of failure the daemon may show, a subset of FaultKind
    MaxFaults,  \* bound on the number of such failures in a behaviour
    Expiry,     \* when a lease may run out: "never", while "idle", at "any" time
    QuickSweep, \* whether a sweep always takes less than GRACE_SECONDS
    Overlap,    \* whether a session may get a request while one is served
    None        \* no session, no reason, nobody

FaultKind == {"list", "remove", "network", "create", "start", "crash"}

ASSUME ConstantsOK ==
    /\ Reaper \notin Worker
    /\ None \notin Session \cup Worker
    /\ NTargets \in Nat \ {0}
    /\ NetTries \in Nat \ {0}
    /\ Faults \subseteq FaultKind
    /\ MaxFaults \in Nat
    /\ Expiry \in {"never", "idle", "any"}
    /\ QuickSweep \in BOOLEAN
    /\ Overlap \in BOOLEAN

Actor  == Worker \cup {Reaper}
Target == 1..NTargets

VARIABLES
    leases,      \* _leases: per session "none", "live" or "expired"
    targets,     \* ports of the relays the lease advertises
    registered,  \* _relays: ports of the relays the store will close
    listening,   \* ports with an open relay socket
    networks,    \* sessions whose network kw-<sid> exists
    containers,  \* per session and target, the container kw-<sid>-<target>
    pc,          \* per actor, the step it takes next
    sid,         \* per actor, the session it is working on
    why,         \* per actor, the reason it will give to store.drop
    next,        \* per worker, the target being brought up
    exposed,     \* per worker, the relays of the provision in flight
    tries,       \* per actor, passes made over the networks
    closing,     \* per actor, relays popped by store.drop and not yet stopped
    doomed,      \* the reaper's copy of store.expired()
    live,        \* the reaper's copy of store.live()
    young,       \* sessions reconcile found inside the grace period
    listed,      \* containers it has listed and not visited, as <<session, target>>
    todo,        \* sessions whose network it has listed and not visited
    serving,     \* whether the application accepts requests
    faults       \* failures so far

store   == <<leases, targets, registered>>
docker  == <<networks, containers>>
request == <<next, exposed>>
control == <<pc, sid, why>>
sweep   == <<doomed, live, young, listed, todo>>
mode    == <<serving, faults>>
vars    == <<store, listening, docker, control, request, tries, closing, sweep, mode>>

-----------------------------------------------------------------------------
(* Containers. *)

Absent == [state |-> "absent", by |-> None]

ContainerStates ==
    {Absent} \cup [state : {"created", "young", "old"}, by : Worker]

\* No container of session s.
NoContainers == [t \in Target |-> Absent]

Running(c) == c.state \in {"young", "old"}

\* A running container holds an endpoint of the session's network, which
\* Docker then refuses to remove.
Attached(s) == \E t \in Target : Running(containers[s][t])

HasContainer(s) == \E t \in Target : containers[s][t] # Absent

\* The container that worker w created for the target it is bringing up still
\* exists.
Mine(w) == containers[sid[w]][next[w]].by = w

\* The containers of session s with those of the targets in T removed.
Without(s, T) ==
    [t \in Target |-> IF t \in T THEN Absent ELSE containers[s][t]]

\* Those containers are removed; the reaper's handles on them are good for
\* nothing any more.
Remove(s, T) ==
    /\ containers' = [containers EXCEPT ![s] = Without(s, T)]
    /\ listed'     = listed \ ({s} \X T)

-----------------------------------------------------------------------------
(* The store.  Every operation runs under the store's lock. *)

Upsert(s, ports) ==
    /\ leases'  = [leases  EXCEPT ![s] = "live"]
    /\ targets' = [targets EXCEPT ![s] = ports]

\* One more failure of the given kind, if the bound allows it.
Fault(kind) ==
    /\ kind \in Faults
    /\ faults < MaxFaults
    /\ faults' = faults + 1

NoFault == UNCHANGED faults

-----------------------------------------------------------------------------
(* Control. *)

\* Actor a is about to take step l.  An actor first stops the relays that its
\* last store.drop popped.
At(a, l) == pc[a] = l /\ closing[a] = {}

Goto(a, l) == pc' = [pc EXCEPT ![a] = l]

\* Actor a starts destroy_session, and will then drop the lease for reason r.
Destroying(a, r) ==
    /\ pc'  = [pc  EXCEPT ![a] = "containers"]
    /\ why' = [why EXCEPT ![a] = r]

\* The request of worker w is answered, with a result or an error.
Return(w) ==
    /\ pc'      = [pc      EXCEPT ![w] = "idle"]
    /\ sid'     = [sid     EXCEPT ![w] = None]
    /\ why'     = [why     EXCEPT ![w] = None]
    /\ next'    = [next    EXCEPT ![w] = 1]
    /\ exposed' = [exposed EXCEPT ![w] = {}]

\* Some request is working on session s.
Busy(s) == \E w \in Worker : sid[w] = s

Init ==
    /\ leases     = [s \in Session |-> "none"]
    /\ targets    = [s \in Session |-> {}]
    /\ registered = [s \in Session |-> {}]
    /\ listening  = {}
    /\ networks   = {}
    /\ containers = [s \in Session |-> NoContainers]
    /\ pc         = [a \in Actor |-> IF a = Reaper THEN "sleep" ELSE "idle"]
    /\ sid        = [a \in Actor |-> None]
    /\ why        = [a \in Actor |-> None]
    /\ next       = [w \in Worker |-> 1]
    /\ exposed    = [w \in Worker |-> {}]
    /\ tries      = [a \in Actor |-> 0]
    /\ closing    = [a \in Actor |-> {}]
    /\ doomed     = {}
    /\ live       = {}
    /\ young      = {}
    /\ listed     = {}
    /\ todo       = {}
    /\ serving    = TRUE
    /\ faults     = 0

-----------------------------------------------------------------------------
(* Requests. *)

\* A request for session s: provision it, reset it (destroy, then provision
\* again) or destroy it.  Nothing in the code makes a request wait for another one
\* of the same session; with Overlap = FALSE its clients do.
Arrive(w, s) ==
    /\ serving
    /\ At(w, "idle")
    /\ Overlap \/ ~Busy(s)
    /\ sid' = [sid EXCEPT ![w] = s]
    /\ \/ Goto(w, "admit") /\ UNCHANGED why
       \/ \E reason \in {"reset", "destroyed"} : Destroying(w, reason)
    /\ UNCHANGED <<store, listening, docker, request, tries, closing, sweep, mode>>

\* POST /v1/orch/sessions/{sid}/extend: one operation of the store.  Only the
\* case that changes the abstract lease is a step: an expired lease that the
\* reaper has not dropped yet comes back to life.
Extend(s) ==
    /\ serving
    /\ leases[s] = "expired"
    /\ leases' = [leases EXCEPT ![s] = "live"]
    /\ UNCHANGED <<targets, registered, listening, docker, control, request,
                   tries, closing, sweep, mode>>

-----------------------------------------------------------------------------
(* destroy_session followed by store.drop: five call sites share it. *)

\* List the session's containers and remove each; a failed removal is
\* swallowed and leaves its container behind.
RemoveContainers(a) ==
    /\ At(a, "containers")
    /\ \/ /\ Remove(sid[a], Target)
          /\ NoFault
       \/ /\ Fault("remove")
          /\ \E gone \in SUBSET Target : Remove(sid[a], gone)
    /\ tries' = [tries EXCEPT ![a] = 0]
    /\ Goto(a, "networks")
    /\ UNCHANGED <<store, listening, networks, sid, why, request, closing,
                   doomed, live, young, todo, serving>>

\* One pass over the session's networks; done when none is listed or after the
\* last pass.  A failed removal is swallowed.
RemoveNetwork(a) ==
    /\ At(a, "networks")
    /\ \/ /\ sid[a] \notin networks
          /\ Goto(a, "drop")
          /\ NoFault
          /\ UNCHANGED <<networks, tries>>
       \/ /\ sid[a] \in networks
          /\ tries' = [tries EXCEPT ![a] = @ + 1]
          /\ Goto(a, IF tries[a] + 1 < NetTries THEN "networks" ELSE "drop")
          /\ \/ /\ networks' = IF Attached(sid[a]) THEN networks
                                                   ELSE networks \ {sid[a]}
                /\ NoFault
             \/ /\ Fault("remove")
                /\ UNCHANGED networks
    /\ todo' = todo \cap networks'
    /\ UNCHANGED <<store, listening, containers, sid, why, request, closing,
                   doomed, live, young, listed, serving>>

\* Listing fails and destroy_session raises.  A handler answers with an error
\* and leaves the lease as it is; the reaper's `finally' drops the lease, and
\* then the exception ends the reaper's thread.
ListFails(a) ==
    /\ At(a, "containers") \/ At(a, "networks")
    /\ Fault("list")
    /\ IF a = Reaper
         THEN /\ Goto(a, "drop")
              /\ why' = [why EXCEPT ![a] = "raised"]
              /\ UNCHANGED <<sid, request>>
         ELSE Return(a)
    /\ UNCHANGED <<store, listening, docker, tries, closing, sweep, serving>>

\* Where the actor goes on after store.drop(sid, why).
AfterDrop(reason) ==
    CASE reason = "reprovision" -> "relet"
      [] reason = "reset"       -> "admit"
      [] reason = "expired"     -> "reap"
      [] reason = "raised"      -> "dead"
      [] OTHER                  -> "idle"

\* Mutant: the relays of a dropped session stay registered.
ForgetLeaseOnly(s) ==
    /\ leases'  = [leases  EXCEPT ![s] = "none"]
    /\ targets' = [targets EXCEPT ![s] = {}]
    /\ UNCHANGED registered

\* The store loses all it knew of session s.
Forget(s) ==
    /\ leases'     = [leases     EXCEPT ![s] = "none"]
    /\ targets'    = [targets    EXCEPT ![s] = {}]
    /\ registered' = [registered EXCEPT ![s] = {}]

\* store.drop: lease and relays leave the store together; the relays are
\* stopped afterwards, outside the lock (StopDropped).
Drop(a) ==
    /\ At(a, "drop")
    /\ Forget(sid[a])
    /\ closing' = [closing EXCEPT ![a] = registered[sid[a]]]
    /\ IF AfterDrop(why[a]) = "idle"
         THEN Return(a)
         ELSE /\ Goto(a, AfterDrop(why[a]))
              /\ UNCHANGED <<sid, why, request>>
    /\ UNCHANGED <<listening, docker, tries, sweep, mode>>

StopDropped(a) ==
    \E p \in closing[a] :
        /\ closing'   = [closing EXCEPT ![a] = @ \ {p}]
        /\ listening' = listening \ {p}
        /\ UNCHANGED <<store, docker, control, request, tries, sweep, mode>>

-----------------------------------------------------------------------------
(* provision *)

\* The manifest or an image is refused, or there is no Docker client.
Reject(w) ==
    /\ At(w, "admit")
    /\ Return(w)
    /\ UNCHANGED <<store, listening, docker, tries, closing, sweep, mode>>

\* The lease is registered before Docker is touched.
Admit(w) ==
    /\ At(w, "admit")
    /\ Upsert(sid[w], {})
    /\ Destroying(w, "reprovision")
    /\ UNCHANGED <<registered, listening, docker, sid, request, tries, closing,
                   sweep, mode>>

\* Mutant: the lease is registered before the drop only.
NoRelet(w) ==
    /\ At(w, "relet")
    /\ Goto(w, "network")
    /\ UNCHANGED <<store, listening, docker, sid, why, request, tries, closing,
                   sweep, mode>>

\* The drop that closed stale relays took the lease too: register it again.
Relet(w) ==
    /\ At(w, "relet")
    /\ Upsert(sid[w], {})
    /\ Goto(w, "network")
    /\ UNCHANGED <<registered, listening, docker, sid, why, request, tries,
                   closing, sweep, mode>>

\* A name in use or an exhausted address pool fails the request, which then
\* drops the session's lease without touching Docker again.
CreateNetwork(w) ==
    /\ At(w, "network")
    /\ \/ /\ sid[w] \notin networks
          /\ networks' = networks \cup {sid[w]}
          /\ Goto(w, "create")
          /\ NoFault
          /\ UNCHANGED why
       \/ /\ (sid[w] \in networks /\ NoFault) \/ Fault("network")
          /\ Goto(w, "drop")
          /\ why' = [why EXCEPT ![w] = "provision-failed"]
          /\ UNCHANGED networks
    /\ UNCHANGED <<store, listening, containers, sid, request, tries, closing,
                   sweep, serving>>

\* run_target, first half.
CreateContainer(w) ==
    /\ At(w, "create")
    /\ \/ /\ containers[sid[w]][next[w]] = Absent
          /\ containers' = [containers EXCEPT ![sid[w]][next[w]] =
                                [state |-> "created", by |-> w]]
          /\ Goto(w, "start")
          /\ NoFault
       \/ /\ \/ containers[sid[w]][next[w]] # Absent /\ NoFault
             \/ Fault("create")
          /\ Goto(w, "unwind")
          /\ UNCHANGED containers
    /\ UNCHANGED <<store, listening, networks, sid, why, request, tries,
                   closing, sweep, serving>>

\* run_target, second half.  Starting needs the container and the network; it
\* is tried twice and then the container is removed, best effort.
StartContainer(w) ==
    LET startable == Mine(w) /\ sid[w] \in networks
    IN  /\ At(w, "start")
        /\ \/ /\ startable
              /\ containers' = [containers EXCEPT ![sid[w]][next[w]].state = "young"]
              /\ Goto(w, "ready")
              /\ NoFault
              /\ UNCHANGED listed
           \/ /\ (~startable /\ NoFault) \/ Fault("start")
              /\ Remove(sid[w], IF Mine(w) THEN {next[w]} ELSE {})
              /\ Goto(w, "unwind")
           \/ /\ ~startable
              /\ Fault("remove")
              /\ Goto(w, "unwind")
              /\ UNCHANGED <<containers, listed>>
        /\ UNCHANGED <<store, listening, networks, sid, why, request, tries,
                       closing, doomed, live, young, todo, serving>>

\* Wait for an address and for the health check to answer, for a bounded time.
AwaitReady(w) ==
    /\ At(w, "ready")
    /\ \/ Mine(w) /\ Goto(w, "relay")
       \/ Goto(w, "unwind")
    /\ UNCHANGED <<store, listening, docker, sid, why, request, tries, closing,
                   sweep, mode>>

\* Mutant: the loop runs once too often.
LastTargetLate(w) == next[w] > NTargets

\* The loop over the manifest's targets is at its end.
LastTarget(w) == next[w] = NTargets

\* The operating system picks a free port.
StartRelay(w) ==
    /\ At(w, "relay")
    /\ \/ \E p \in Port \ listening :
            /\ listening' = listening \cup {p}
            /\ exposed'   = [exposed EXCEPT ![w] = @ \cup {p}]
            /\ IF LastTarget(w)
                 THEN /\ Goto(w, "register")
                      /\ UNCHANGED next
                 ELSE /\ next' = [next EXCEPT ![w] = @ + 1]
                      /\ Goto(w, "create")
       \/ /\ Port \subseteq listening
          /\ Goto(w, "unwind")
          /\ UNCHANGED <<listening, request>>
    /\ UNCHANGED <<store, docker, sid, why, tries, closing, sweep, mode>>

\* Any failure after the network: stop this request's relays, one by one ...
StopOwn(w) ==
    /\ At(w, "unwind")
    /\ \E p \in exposed[w] :
        /\ exposed'   = [exposed EXCEPT ![w] = @ \ {p}]
        /\ listening' = listening \ {p}
    /\ UNCHANGED <<store, docker, control, next, tries, closing, sweep, mode>>

\* ... then destroy the session and drop its lease.
Unwind(w) ==
    /\ At(w, "unwind")
    /\ exposed[w] = {}
    /\ Destroying(w, "provision-failed")
    /\ UNCHANGED <<store, listening, docker, sid, request, tries, closing,
                   sweep, mode>>

\* Mutant: the relays replace those another provision has registered.
AddRelaysReplace(w) ==
    /\ At(w, "register")
    /\ registered' = [registered EXCEPT ![sid[w]] = exposed[w]]
    /\ Goto(w, "publish")
    /\ UNCHANGED <<leases, targets, listening, docker, sid, why, request,
                   tries, closing, sweep, mode>>

\* Hand the relays to the store; from here on `exposed' only says what the
\* lease will advertise.
AddRelays(w) ==
    /\ At(w, "register")
    /\ registered' = [registered EXCEPT ![sid[w]] = @ \cup exposed[w]]
    /\ Goto(w, "publish")
    /\ UNCHANGED <<leases, targets, listening, docker, sid, why, request,
                   tries, closing, sweep, mode>>

\* The lease advertises the targets, and the request succeeds.
Publish(w) ==
    /\ At(w, "publish")
    /\ Upsert(sid[w], exposed[w])
    /\ Return(w)
    /\ UNCHANGED <<registered, listening, docker, tries, closing, sweep, mode>>

-----------------------------------------------------------------------------
(* The reaper. *)

\* Mutants: the comparison of expires_at reversed; no grace for a container that
\* has just started; grace for every running container.
UnexpiredLeases   == {s \in Session : leases[s] = "live"}
SparedNone(s)     == {}
SparedRunning(s)  == {t \in Target : Running(containers[s][t])}

\* store.expired() and store.live(): copies taken under the lock.
ExpiredLeases  == {s \in Session : leases[s] = "expired"}
LeasedSessions == {s \in Session : leases[s] # "none"}

\* The containers of session s that started less than GRACE_SECONDS ago.  One
\* that was created and never started carries the year 1 as its start.
Spared(s) == {t \in Target : containers[s][t].state = "young"}

\* Every 15 seconds: copy the expired leases ...
Wake ==
    /\ At(Reaper, "sleep")
    /\ doomed' = ExpiredLeases
    /\ Goto(Reaper, "reap")
    /\ UNCHANGED <<store, listening, docker, sid, why, request, tries, closing,
                   live, young, listed, todo, mode>>

\* ... destroy each session of the copy, then drop its lease ...
Reap(s) ==
    /\ At(Reaper, "reap")
    /\ s \in doomed
    /\ doomed' = doomed \ {s}
    /\ sid' = [sid EXCEPT ![Reaper] = s]
    /\ Destroying(Reaper, "expired")
    /\ UNCHANGED <<store, listening, docker, request, tries, closing, live,
                   young, listed, todo, mode>>

\* ... and reconcile Docker with a copy of the sessions that hold a lease.
StartReconcile ==
    /\ At(Reaper, "reap")
    /\ doomed = {}
    /\ live' = LeasedSessions
    /\ sid' = [sid EXCEPT ![Reaper] = None]
    /\ why' = [why EXCEPT ![Reaper] = None]
    /\ Goto(Reaper, "list containers")
    /\ UNCHANGED <<store, listening, docker, request, tries, closing, doomed,
                   young, listed, todo, mode>>

\* The containers of unleased sessions, as the daemon lists them now.
ListContainers ==
    /\ At(Reaper, "list containers")
    /\ listed' = {c \in (Session \ live) \X Target : containers[c[1]][c[2]] # Absent}
    /\ Goto(Reaper, "sweep containers")
    /\ UNCHANGED <<store, listening, docker, sid, why, request, tries, closing,
                   doomed, live, young, todo, mode>>

\* A spared container marks its session young; another is removed, and a failure
\* to remove it is swallowed.
SweepContainer(s, t) ==
    /\ At(Reaper, "sweep containers")
    /\ <<s, t>> \in listed
    /\ \/ /\ t \in Spared(s)
          /\ young'  = young \cup {s}
          /\ listed' = listed \ {<<s, t>>}
          /\ NoFault
          /\ UNCHANGED containers
       \/ /\ t \notin Spared(s)
          /\ \/ Remove(s, {t}) /\ NoFault
             \/ /\ Fault("remove")
                /\ listed' = listed \ {<<s, t>>}
                /\ UNCHANGED containers
          /\ UNCHANGED young
    /\ UNCHANGED <<store, listening, networks, control, request, tries,
                   closing, doomed, live, todo, serving>>

\* Then the networks, as listed now, of the sessions neither leased nor young.
ListNetworks ==
    /\ At(Reaper, "sweep containers")
    /\ listed = {}
    /\ todo' = networks \ (live \cup young)
    /\ Goto(Reaper, "sweep networks")
    /\ UNCHANGED <<store, listening, docker, sid, why, request, tries, closing,
                   doomed, live, young, listed, mode>>

SweepNetwork(s) ==
    /\ At(Reaper, "sweep networks")
    /\ s \in todo
    /\ todo' = todo \ {s}
    /\ \/ /\ networks' = IF Attached(s) THEN networks ELSE networks \ {s}
          /\ NoFault
       \/ /\ Fault("remove")
          /\ UNCHANGED networks
    /\ UNCHANGED <<store, listening, containers, control, request, tries,
                   closing, doomed, live, young, listed, serving>>

\* The end of reconcile: everything was visited, or a listing failed and was
\* swallowed.  The first reconcile runs before the application serves.
EndReconcile ==
    /\ \/ At(Reaper, "sweep networks") /\ todo = {} /\ NoFault
       \/ /\ \/ At(Reaper, "list containers")
             \/ At(Reaper, "sweep containers") /\ listed = {}
          /\ Fault("list")
    /\ live'    = {}
    /\ young'   = {}
    /\ serving' = TRUE
    /\ Goto(Reaper, "sleep")
    /\ UNCHANGED <<store, listening, docker, sid, why, request, tries, closing,
                   doomed, listed, todo>>

-----------------------------------------------------------------------------
(* Time and crashes. *)

\* expires_at passes.  Under "idle" a lease outlasts the request that made it.
Expire(s) ==
    /\ Expiry = "any" \/ (Expiry = "idle" /\ ~Busy(s))
    /\ leases[s] = "live"
    /\ leases' = [leases EXCEPT ![s] = "expired"]
    /\ UNCHANGED <<targets, registered, listening, docker, control, request,
                   tries, closing, sweep, mode>>

\* GRACE_SECONDS pass since the container started.  With QuickSweep a container
\* does not reach that age between two steps of one sweep.
Age(s, t) ==
    /\ containers[s][t].state = "young"
    /\ QuickSweep => pc[Reaper] \notin {"list containers", "sweep containers"}
    /\ containers' = [containers EXCEPT ![s][t].state = "old"]
    /\ UNCHANGED <<store, listening, networks, control, request, tries,
                   closing, sweep, mode>>

\* The process dies and starts again: store, relays and requests are gone,
\* Docker keeps what it has, and lifespan reconciles with an empty store.
Crash ==
    /\ Fault("crash")
    /\ leases'     = [s \in Session |-> "none"]
    /\ targets'    = [s \in Session |-> {}]
    /\ registered' = [s \in Session |-> {}]
    /\ listening'  = {}
    /\ pc'      = [a \in Actor |-> IF a = Reaper THEN "list containers" ELSE "idle"]
    /\ sid'     = [a \in Actor |-> None]
    /\ why'     = [a \in Actor |-> None]
    /\ next'    = [w \in Worker |-> 1]
    /\ exposed' = [w \in Worker |-> {}]
    /\ tries'   = [a \in Actor |-> 0]
    /\ closing' = [a \in Actor |-> {}]
    /\ doomed'  = {}
    /\ live'    = {}
    /\ young'   = {}
    /\ listed'  = {}
    /\ todo'    = {}
    /\ serving' = FALSE
    /\ UNCHANGED docker

-----------------------------------------------------------------------------

\* A step of a request already accepted.
WorkerStep(w) ==
    \/ RemoveContainers(w) \/ RemoveNetwork(w) \/ ListFails(w)
    \/ Drop(w) \/ StopDropped(w)
    \/ Reject(w) \/ Admit(w) \/ Relet(w) \/ CreateNetwork(w)
    \/ CreateContainer(w) \/ StartContainer(w) \/ AwaitReady(w)
    \/ StartRelay(w) \/ StopOwn(w) \/ Unwind(w) \/ AddRelays(w) \/ Publish(w)

ReaperStep ==
    \/ Wake
    \/ \E s \in Session : Reap(s)
    \/ RemoveContainers(Reaper) \/ RemoveNetwork(Reaper) \/ ListFails(Reaper)
    \/ Drop(Reaper) \/ StopDropped(Reaper)
    \/ StartReconcile
    \/ ListContainers
    \/ \E s \in Session, t \in Target : SweepContainer(s, t)
    \/ ListNetworks
    \/ \E s \in Session : SweepNetwork(s)
    \/ EndReconcile

Next ==
    \/ \E w \in Worker, s \in Session : Arrive(w, s)
    \/ \E w \in Worker : WorkerStep(w)
    \/ ReaperStep
    \/ \E s \in Session : Extend(s) \/ Expire(s)
    \/ \E s \in Session, t \in Target : Age(s, t)
    \/ Crash

Spec == Init /\ [][Next]_vars

\* Threads that can run do run and clocks advance; requests need not arrive,
\* leases need not expire and nothing has to fail.
Fairness ==
    /\ WF_vars(ReaperStep)
    /\ \A w \in Worker : WF_vars(WorkerStep(w))
    /\ \A s \in Session, t \in Target : WF_vars(Age(s, t))

FairSpec == Spec /\ Fairness

-----------------------------------------------------------------------------
(* Properties. *)

Labels == {"idle", "admit", "containers", "networks", "drop", "relet",
           "network", "create", "start", "ready", "relay", "unwind",
           "register", "publish", "sleep", "reap", "list containers",
           "sweep containers", "sweep networks", "dead"}

Reasons == {"reprovision", "provision-failed", "reset", "destroyed",
            "expired", "raised"}

StoreType ==
    /\ leases     \in [Session -> {"none", "live", "expired"}]
    /\ targets    \in [Session -> SUBSET Port]
    /\ registered \in [Session -> SUBSET Port]
    /\ listening  \in SUBSET Port

DockerType ==
    /\ networks   \in SUBSET Session
    /\ containers \in [Session -> [Target -> ContainerStates]]

ControlType ==
    /\ pc    \in [Actor -> Labels]
    /\ sid   \in [Actor -> Session \cup {None}]
    /\ why   \in [Actor -> Reasons \cup {None}]
    /\ tries \in [Actor -> 0..NetTries]

RequestType ==
    /\ next    \in [Worker -> Target]
    /\ exposed \in [Worker -> SUBSET Port]
    /\ closing \in [Actor -> SUBSET Port]

ReaperType ==
    /\ doomed  \in SUBSET Session
    /\ live    \in SUBSET Session
    /\ young   \in SUBSET Session
    /\ listed  \in SUBSET (Session \X Target)
    /\ todo    \in SUBSET Session
    /\ serving \in BOOLEAN
    /\ faults  \in 0..MaxFaults

\* Every variable has its type; in particular a request never asks for a target
\* past the end of its manifest (the loop of provision), and destroy_session
\* makes no more passes than it should.
TypeOK == StoreType /\ DockerType /\ ControlType /\ RequestType /\ ReaperType

\* The relays that worker w alone can stop: those of a provision that has not
\* handed them to the store.
Own(w) ==
    IF pc[w] \in {"create", "start", "ready", "relay", "unwind", "register"}
      THEN exposed[w]
      ELSE {}

\* Every open relay socket has a holder that will stop it -- a provision in
\* flight, the store, or an actor that has just dropped it -- and no two
\* holders share one, so that none is closed twice, which could close the
\* socket of a later relay that was given the same port.
RelayOwnership ==
    /\ \A p \in Port :
          (p \in listening) <=> \/ \E w \in Worker  : p \in Own(w)
                                \/ \E s \in Session : p \in registered[s]
                                \/ \E a \in Actor   : p \in closing[a]
    /\ \A w \in Worker, s \in Session : Own(w) \cap registered[s] = {}
    /\ \A w \in Worker, a \in Actor : Own(w) \cap closing[a] = {}
    /\ \A s \in Session, a \in Actor : registered[s] \cap closing[a] = {}
    /\ \A v, w \in Worker : v # w => Own(v) \cap Own(w) = {}
    /\ \A s, z \in Session : s # z => registered[s] \cap registered[z] = {}
    /\ \A a, b \in Actor : a # b => closing[a] \cap closing[b] = {}

\* Relays registered for a session are backed by a lease, so that expiry or a
\* destroy will find and close them; the one exception lasts from add_relays to
\* the final upsert of the provision that added them.
RelaysBacked ==
    \A s \in Session :
        registered[s] # {} =>
            \/ leases[s] # "none"
            \/ \E w \in Worker : pc[w] = "publish" /\ sid[w] = s

\* "register lease BEFORE touching docker: the reaper/reconcile would otherwise
\* garbage-collect our containers mid-provisioning": a session has a lease while
\* a provision creates things for it.
LeaseCoversBuild ==
    \A w \in Worker :
        pc[w] \in {"network", "create", "start", "ready", "relay", "register"} =>
            leases[sid[w]] # "none"

\* What a lease advertises is there: its relays are open and registered for that
\* session, every target's container runs and the network exists, unless a
\* request is changing the session at the moment.
LeaseWhole ==
    \A s \in Session :
        leases[s] # "none" /\ targets[s] # {} /\ ~Busy(s) =>
            /\ targets[s] = registered[s]
            /\ targets[s] \subseteq listening
            /\ \A t \in Target : Running(containers[s][t])
            /\ s \in networks

\* Containers of a session whose lease has run out are removed, unless the lease
\* is renewed first: the reaper survives whatever the daemon does.
ExpiredGone ==
    \A s \in Session :
        (leases[s] = "expired" /\ HasContainer(s))
            ~> (~HasContainer(s) \/ leases[s] = "live")

\* Leftovers of a crash or of a failed removal do not stay: a session that has
\* containers and neither lease nor request gets rid of one or the other.
OrphanSwept ==
    \A s \in Session :
        LET orphan == HasContainer(s) /\ leases[s] = "none" /\ ~Busy(s)
        IN  orphan ~> ~orphan

-----------------------------------------------------------------------------
(* The abstract specification of the relays. *)

\* Relays of the provisions in flight for session s.
BuildingFor(s) == UNION {Own(w) : w \in {v \in Worker : sid[v] = s}}

Pool == INSTANCE RelayPool WITH
            building <- [s \in Session |-> BuildingFor(s)],
            serving  <- registered,
            closing  <- UNION {closing[a] : a \in Actor}

\* The orchestrator's handling of relays -- store.drop popping them under the
\* lock and stopping them after it, provision holding its own until it hands them
\* over -- keeps the promise of RelayPool.
KeepsPool == Pool!Spec

=============================================================================
