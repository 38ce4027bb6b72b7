---------------------------- MODULE ClusterHealth ---------------------------
(***************************************************************************)
(* Which node may a federated query be delegated to?  The health monitor   *)
(* of crates/queryfabric-cluster sweeps the registered nodes, one message  *)
(* at a time, and keeps a circuit breaker and a cached health for each;    *)
(* the hub of crates/queryfabric-federation registers nodes and asks the   *)
(* monitor to reset their breakers; the transport probe writes the Flight  *)
(* endpoint it learns into the registry the hub writes too; routing reads  *)
(* cache and registry at any time.  Nodes crash and come back elsewhere,   *)
(* their storage fails and recovers, probes time out, the hub restarts     *)
(* with nothing in memory.                                                 *)
(*                                                                         *)
(* A node is identified with its name and the id the host assigns to it.   *)
(* Its boots are numbered, and the endpoint of a boot is its number: 0 is  *)
(* no endpoint.  Time is reduced to whether a cooldown has elapsed.        *)
(***************************************************************************)
EXTENDS Integers, Sequences

CONSTANTS
    Nodes,
    Threshold,      \* CircuitConfig::open_threshold
    MaxBoot,        \* bound on the boots of a node
    MaxTicks,       \* bound on the sweeps waiting in the monitor's mailbox
    Budget          \* how many events of each kind a behaviour contains

\* Crashes of a node and of the hub, storage checks that change their result,
\* probes of a live node that time out, registrations the host refuses,
\* cooldowns that elapse between two readings of the clock.
Events == {"crash", "hubcrash", "storage", "timeout", "reject", "late"}

ASSUME HealthAssumptions ==
    /\ Threshold \in Nat \ {0}
    /\ MaxBoot \in Nat
    /\ MaxTicks \in Nat
    /\ Budget \in [Events -> Nat]

VARIABLES
    node,       \* the cluster nodes themselves
    calls,      \* RegisterCluster requests on their way to the hub
    hub,        \* the registration the hub is working on
    refs,       \* cluster_refs: the Flight endpoint in each node's handle
    known,      \* history: the boot each handle was registered for
    mailbox,    \* of the health monitor
    sweeping,   \* the monitor is inside CheckAllClusters
    probes,     \* its probe futures
    circuits,   \* its circuit breakers
    cache,      \* health_cache
    source,     \* history: the boot that reported a cached health
    budget

hubVars == <<hub, refs, known>>
monitorVars == <<mailbox, sweeping, probes, circuits, cache, source>>
vars == <<node, calls, hub, refs, known, mailbox, sweeping, probes, circuits,
          cache, source, budget>>

-----------------------------------------------------------------------------
(* Types.                                                                  *)

Boot == 0..MaxBoot

\* "enrol": what the node's host still has to do about its registration.
Node == [up : BOOLEAN, storage : BOOLEAN, boot : Boot, flight : Boot,
         enrol : {"need", "sent", "done"}]

Call == [node : Nodes, boot : Boot]

\* A handle without a Flight endpoint holds 0; a node that never registered
\* with this hub process has no handle.
NoHandle == -1
Handle == Boot \cup {NoHandle}

Health == {"Healthy", "Degraded", "Unreachable"}
Cached == Health \cup {"Absent"}

Phase == {"Closed", "Open", "HalfOpen"}
\* consecutive_failures counts no further than the threshold it is compared
\* with; "cooled" says that the cooldown since opened_at has elapsed.
Circuit == [phase : Phase, failures : 0..Threshold, cooled : BOOLEAN]
ClosedCircuit == [phase |-> "Closed", failures |-> 0, cooled |-> FALSE]

\* "from" is history: the boot that answered the ping.
Probe == [pc : {"none", "skipped", "ping", "endpoint", "put", "done"},
          health : Health, reply : Boot, from : Boot]
NoProbe == [pc |-> "none", health |-> "Unreachable", reply |-> 0, from |-> 0]

CheckAllClusters == [type |-> "CheckAllClusters"]
ResetCircuitBreaker(n) == [type |-> "ResetCircuitBreaker", id |-> n]
Message == {CheckAllClusters} \cup {ResetCircuitBreaker(n) : n \in Nodes}

NoRegistration == [pc |-> "idle"]
Registration == {NoRegistration} \cup
                {[pc |-> "tell", call |-> c] : c \in Call}

-----------------------------------------------------------------------------
(* Helpers.                                                                *)

Spend(event) == /\ budget[event] > 0
                /\ budget' = [budget EXCEPT ![event] = @ - 1]

Registered == {n \in Nodes : refs[n] # NoHandle}

\* What a node answers to HealthPing.
Status(n) == IF node[n].storage THEN "Healthy" ELSE "Degraded"

\* Is the cached health of n good enough to delegate to it?
IsDelegatable(n) == cache[n] \in {"Healthy", "Degraded"}

\* The endpoint routing delegates to, 0 if it does not delegate.
HealthyEndpoint(n) ==
    IF IsDelegatable(n) /\ n \in Registered THEN refs[n] ELSE 0

\* The probe of n has its result.
Done(n, health) ==
    probes' = [probes EXCEPT ![n].pc = "done", ![n].health = health]

Pending(type) == Len(SelectSeq(mailbox, LAMBDA m : m.type = type))

\* The message at the head of the mailbox is handled next.
Receive(message) ==
    /\ ~sweeping
    /\ mailbox # <<>>
    /\ Head(mailbox) = message
    /\ mailbox' = Tail(mailbox)

-----------------------------------------------------------------------------
(* Faulty variants of definitions below, each one slip away from the code: *)
(* the properties must tell them from it.                                  *)

\* A reset forgets the circuit.
HandleResetCircuitBreaker_CacheOnly(n) ==
    /\ Receive(ResetCircuitBreaker(n))
    /\ cache' = [cache EXCEPT ![n] = "Absent"]
    /\ UNCHANGED <<node, calls, hubVars, sweeping, probes, circuits, source,
                   budget>>

\* A reset forgets the cached health.
HandleResetCircuitBreaker_CircuitOnly(n) ==
    /\ Receive(ResetCircuitBreaker(n))
    /\ circuits' = [circuits EXCEPT ![n] = ClosedCircuit]
    /\ UNCHANGED <<node, calls, hubVars, sweeping, probes, cache, source,
                   budget>>

\* An open circuit is skipped whether or not its cooldown has elapsed.
HandleCheckAllClusters_SkipsForEver(late) ==
    /\ Receive(CheckAllClusters)
    /\ late = {}
    /\ sweeping' = (Registered # {})
    /\ probes' = [n \in Nodes |->
         [NoProbe EXCEPT !.pc = IF n \notin Registered THEN "none"
                                ELSE IF circuits[n].phase = "Open"
                                THEN "skipped" ELSE "ping"]]
    /\ UNCHANGED <<node, calls, hubVars, circuits, cache, source, budget>>

-----------------------------------------------------------------------------
(* Cluster nodes and their hosts.                                          *)

\* A node process starts, with or without a Flight endpoint.
BootNode(n) ==
    /\ ~node[n].up
    /\ node[n].boot < MaxBoot
    /\ \E flight \in {0, node[n].boot + 1} :
         node' = [node EXCEPT ![n] =
                    [up |-> TRUE, storage |-> TRUE, boot |-> @.boot + 1,
                     flight |-> flight, enrol |-> "need"]]
    /\ UNCHANGED <<calls, hubVars, monitorVars, budget>>

CrashNode(n) ==
    /\ node[n].up
    /\ Spend("crash")
    /\ node' = [node EXCEPT ![n].up = FALSE]
    /\ UNCHANGED <<calls, hubVars, monitorVars>>

\* storage_ok changes its mind.
FlipStorage(n) ==
    /\ node[n].up
    /\ Spend("storage")
    /\ node' = [node EXCEPT ![n].storage = ~@]
    /\ UNCHANGED <<calls, hubVars, monitorVars>>

\* The host of a node asks the hub to register it.
SendRegister(n) ==
    /\ node[n].up
    /\ node[n].enrol = "need"
    /\ node' = [node EXCEPT ![n].enrol = "sent"]
    /\ calls' = calls \cup {[node |-> n, boot |-> node[n].boot]}
    /\ UNCHANGED <<hubVars, monitorVars, budget>>

\* The reply to a call reaches the boot that made it, if that still runs.
Answered(c, enrol) ==
    IF node[c.node].up /\ node[c.node].boot = c.boot
    THEN [node EXCEPT ![c.node].enrol = enrol]
    ELSE node

-----------------------------------------------------------------------------
(* The hub.                                                                *)

\* register_cluster accepts; the handle is inserted, or replaced, without an
\* endpoint.
RegisterCluster(c) ==
    /\ hub = NoRegistration
    /\ calls' = calls \ {c}
    /\ refs' = [refs EXCEPT ![c.node] = 0]
    /\ known' = [known EXCEPT ![c.node] = c.boot]
    /\ hub' = [pc |-> "tell", call |-> c]
    /\ UNCHANGED <<node, monitorVars, budget>>

\* The host refuses; the node's host tries again.
RegisterClusterFails(c) ==
    /\ hub = NoRegistration
    /\ Spend("reject")
    /\ calls' = calls \ {c}
    /\ node' = Answered(c, "need")
    /\ UNCHANGED <<hubVars, monitorVars>>

\* reset_circuit, and the reply.
ResetCircuit ==
    /\ hub.pc = "tell"
    /\ mailbox' = Append(mailbox, ResetCircuitBreaker(hub.call.node))
    /\ hub' = NoRegistration
    /\ node' = Answered(hub.call, "done")
    /\ UNCHANGED <<calls, refs, known, sweeping, probes, circuits, cache,
                   source, budget>>

\* The process of hub and monitor restarts: all of this is in memory, and
\* the nodes have to register again.
CrashHub ==
    /\ Spend("hubcrash")
    /\ calls' = {}
    /\ hub' = NoRegistration
    /\ refs' = [n \in Nodes |-> NoHandle]
    /\ known' = [n \in Nodes |-> 0]
    /\ mailbox' = <<>>
    /\ sweeping' = FALSE
    /\ probes' = [n \in Nodes |-> NoProbe]
    /\ circuits' = [n \in Nodes |-> ClosedCircuit]
    /\ cache' = [n \in Nodes |-> "Absent"]
    /\ source' = [n \in Nodes |-> 0]
    /\ node' = [n \in Nodes |-> [node[n] EXCEPT !.enrol = "need"]]

-----------------------------------------------------------------------------
(* The health monitor.                                                     *)

\* The ticker.
Tick ==
    /\ Pending("CheckAllClusters") < MaxTicks
    /\ mailbox' = Append(mailbox, CheckAllClusters)
    /\ UNCHANGED <<node, calls, hubVars, sweeping, probes, circuits, cache,
                   source, budget>>

CoolDown(n) ==
    /\ circuits[n].phase = "Open"
    /\ ~circuits[n].cooled
    /\ circuits' = [circuits EXCEPT ![n].cooled = TRUE]
    /\ UNCHANGED <<node, calls, hubVars, mailbox, sweeping, probes, cache,
                   source, budget>>

\* CheckAllClusters up to its first await: a cooled circuit becomes half
\* open, one that is still open is skipped.  maybe_transition_to_half_open
\* and should_skip_probe read the clock one after the other, so a circuit in
\* "late" is probed without having become half open.
HandleCheckAllClusters(late) ==
    LET skip == {n \in Registered \ late :
                    circuits[n].phase = "Open" /\ ~circuits[n].cooled}
    IN
    /\ Receive(CheckAllClusters)
    /\ late \subseteq {n \in Registered :
                          circuits[n].phase = "Open" /\ ~circuits[n].cooled}
    /\ IF late = {} THEN UNCHANGED budget ELSE Spend("late")
    /\ sweeping' = (Registered # {})
    /\ circuits' = [n \in Nodes |->
         CASE n \in late -> [circuits[n] EXCEPT !.cooled = TRUE]
           [] n \in Registered /\ circuits[n].phase = "Open"
                               /\ circuits[n].cooled
                -> [circuits[n] EXCEPT !.phase = "HalfOpen"]
           [] OTHER -> circuits[n]]
    /\ probes' = [n \in Nodes |->
         [NoProbe EXCEPT !.pc = IF n \in skip THEN "skipped"
                                ELSE IF n \in Registered THEN "ping"
                                ELSE "none"]]
    /\ UNCHANGED <<node, calls, hubVars, cache, source>>

\* health_ping: the node answers with its status, or the transport fails.
Ping(n) ==
    /\ probes[n].pc = "ping"
    /\ IF node[n].up
       THEN probes' = [probes EXCEPT ![n] =
                         [pc |-> "endpoint", health |-> Status(n),
                          reply |-> 0, from |-> node[n].boot]]
       ELSE Done(n, "Unreachable")
    /\ UNCHANGED <<node, calls, hubVars, mailbox, sweeping, circuits, cache,
                   source, budget>>

\* get_flight_endpoint: an error is ignored.
AskEndpoint(n) ==
    /\ probes[n].pc = "endpoint"
    /\ IF node[n].up
       THEN probes' = [probes EXCEPT ![n].pc = "put",
                                     ![n].reply = node[n].flight]
       ELSE Done(n, probes[n].health)
    /\ UNCHANGED <<node, calls, hubVars, mailbox, sweeping, circuits, cache,
                   source, budget>>

\* The reply has arrived: an endpoint goes into the handle, over whatever the
\* hub has put there since the sweep began.
PutEndpoint(n) ==
    /\ probes[n].pc = "put"
    /\ refs' = IF probes[n].reply = 0 THEN refs
               ELSE [refs EXCEPT ![n] = probes[n].reply]
    /\ Done(n, probes[n].health)
    /\ UNCHANGED <<node, calls, hub, known, mailbox, sweeping, circuits, cache,
                   source, budget>>

\* tokio::time::timeout drops the probe wherever it is waiting.
ProbeTimesOut(n) ==
    /\ probes[n].pc \in {"ping", "endpoint", "put"}
    /\ Spend("timeout")
    /\ Done(n, "Unreachable")
    /\ UNCHANGED <<node, calls, hubVars, mailbox, sweeping, circuits, cache,
                   source>>

\* What a probe's result does to the circuit.
RecordSuccess == ClosedCircuit
RecordFailure(c) ==
    LET failures == IF c.failures < Threshold THEN c.failures + 1
                                              ELSE Threshold
    IN  IF failures >= Threshold
        THEN [phase |-> "Open", failures |-> failures, cooled |-> FALSE]
        ELSE [c EXCEPT !.failures = failures]

\* The rest of CheckAllClusters, once every probe has its result.
RecordResults ==
    /\ sweeping
    /\ \A n \in Nodes : probes[n].pc \in {"none", "skipped", "done"}
    /\ cache' = [n \in Nodes |->
         CASE probes[n].pc = "done" -> probes[n].health
           [] probes[n].pc = "skipped" -> "Unreachable"
           [] OTHER -> cache[n]]
    /\ source' = [n \in Nodes |->
         IF probes[n].pc = "done" THEN probes[n].from ELSE source[n]]
    /\ circuits' = [n \in Nodes |->
         IF probes[n].pc # "done" THEN circuits[n]
         ELSE IF probes[n].health = "Unreachable"
              THEN RecordFailure(circuits[n]) ELSE RecordSuccess]
    /\ probes' = [n \in Nodes |-> NoProbe]
    /\ sweeping' = FALSE
    /\ UNCHANGED <<node, calls, hubVars, mailbox, budget>>

\* A circuit that is closed keeps its count of failures.
HandleResetCircuitBreaker(n) ==
    /\ Receive(ResetCircuitBreaker(n))
    /\ circuits' = IF circuits[n].phase = "Closed" THEN circuits
                   ELSE [circuits EXCEPT ![n] = ClosedCircuit]
    /\ cache' = [cache EXCEPT ![n] = "Absent"]
    /\ UNCHANGED <<node, calls, hubVars, sweeping, probes, source, budget>>

-----------------------------------------------------------------------------
Init ==
    /\ node = [n \in Nodes |-> [up |-> FALSE, storage |-> TRUE, boot |-> 0,
                                flight |-> 0, enrol |-> "need"]]
    /\ calls = {}
    /\ hub = NoRegistration
    /\ refs = [n \in Nodes |-> NoHandle]
    /\ known = [n \in Nodes |-> 0]
    /\ mailbox = <<>>
    /\ sweeping = FALSE
    /\ probes = [n \in Nodes |-> NoProbe]
    /\ circuits = [n \in Nodes |-> ClosedCircuit]
    /\ cache = [n \in Nodes |-> "Absent"]
    /\ source = [n \in Nodes |-> 0]
    /\ budget = Budget

ProbeStep(n) == Ping(n) \/ AskEndpoint(n) \/ PutEndpoint(n)

Monitor == \/ \E late \in SUBSET Nodes : HandleCheckAllClusters(late)
           \/ \E n \in Nodes : HandleResetCircuitBreaker(n)
           \/ RecordResults

Hub == ResetCircuit \/ \E c \in calls : RegisterCluster(c)

Next ==
    \/ \E n \in Nodes : \/ BootNode(n) \/ CrashNode(n) \/ FlipStorage(n)
                        \/ SendRegister(n) \/ CoolDown(n) \/ ProbeStep(n)
                        \/ ProbeTimesOut(n)
    \/ \E c \in calls : RegisterClusterFails(c)
    \/ Hub \/ CrashHub \/ Tick \/ Monitor

Spec == Init /\ [][Next]_vars

\* The ticker ticks, time passes, the runtime polls the actors and their
\* probes, and the host of a running node registers it.
Fairness == /\ WF_vars(Tick) /\ WF_vars(Monitor) /\ WF_vars(Hub)
            /\ \A n \in Nodes : /\ WF_vars(ProbeStep(n))
                                /\ WF_vars(CoolDown(n))
                                /\ WF_vars(SendRegister(n))

FairSpec == Spec /\ Fairness
-----------------------------------------------------------------------------
(* Properties.                                                             *)

\* Every variable has its type.
TypeOK ==
    /\ node \in [Nodes -> Node]
    /\ calls \in SUBSET Call
    /\ hub \in Registration
    /\ refs \in [Nodes -> Handle]
    /\ known \in [Nodes -> Boot]
    /\ mailbox \in Seq(Message)
    /\ sweeping \in BOOLEAN
    /\ probes \in [Nodes -> Probe]
    /\ circuits \in [Nodes -> Circuit]
    /\ cache \in [Nodes -> Cached]
    /\ source \in [Nodes -> Boot]
    /\ budget \in [Events -> Nat]

\* Nothing is delegated to a node whose circuit is not closed: breaker and
\* cache agree at every moment, inside a sweep and after a reset too.
OpenIsAvoided ==
    \A n \in Nodes : circuits[n].phase # "Closed" => cache[n] = "Unreachable"

\* The breaker is open from the threshold on, and half open only while the
\* probe that decides about it is under way.
BreakerCounts ==
    \A n \in Nodes :
        /\ circuits[n].phase = "Closed" <=> circuits[n].failures < Threshold
        /\ circuits[n].phase = "HalfOpen" =>
               sweeping /\ probes[n].pc \notin {"none", "skipped"}

Holds(s, m) == \E i \in 1..Len(s) : s[i] = m

\* The hub's registration of n has not got through to the monitor yet.
ResetPending(n) ==
    \/ hub # NoRegistration /\ hub.call.node = n
    \/ Holds(mailbox, ResetCircuitBreaker(n))

\* Once a registration has got through to the monitor, a node is delegated to
\* only on the word of the registered boot or a later one, never on what an
\* earlier boot answered to a sweep that was still under way.
HealthIsFresh ==
    \A n \in Nodes :
        IsDelegatable(n) /\ ~ResetPending(n) => source[n] >= known[n]

\* Routing follows the nodes.  A node that stays as it is is in the end either
\* down and not delegated to, or up and cached with the status it reports, at
\* the endpoint it has: no breaker, reset, lost registration or restart of
\* the hub keeps it out for ever.
RoutingConverges ==
    \A n \in Nodes :
        /\ <>[](~node[n].up) => <>[](HealthyEndpoint(n) = 0)
        /\ <>[](node[n].up /\ node[n].storage) => <>[](cache[n] = "Healthy")
        /\ <>[](node[n].up /\ ~node[n].storage) => <>[](cache[n] = "Degraded")
        /\ <>[](node[n].up /\ node[n].flight # 0) =>
               <>[](HealthyEndpoint(n) = node[n].flight)
=============================================================================
