------------------------- MODULE ClusterHealthProofs ------------------------
(***************************************************************************)
(* Theorems about ClusterHealth, for every set of nodes, every threshold   *)
(* and every budget of crashes, restarts, timeouts and storage failures.   *)
(***************************************************************************)
EXTENDS ClusterHealth, TLAPS

USE HealthAssumptions

\* What the monitor is sent.
LEMMA MessageTypes ==
    /\ CheckAllClusters \in Message
    /\ \A n \in Nodes : ResetCircuitBreaker(n) \in Message
  BY DEF Message

\* The initial values have their types.
LEMMA InitialTypes ==
    /\ NoProbe \in Probe
    /\ ClosedCircuit \in Circuit
    /\ NoRegistration \in Registration
    /\ NoHandle \in Handle /\ 0 \in Handle /\ 0 \in Boot
  BY DEF NoProbe, Probe, Boot, Health, ClosedCircuit, Circuit, Phase,
         NoRegistration, Registration, NoHandle, Handle

\* Spending keeps the budget a function into the naturals.
LEMMA SpendType ==
    ASSUME budget \in [Events -> Nat], NEW e \in Events, Spend(e)
    PROVE  budget' \in [Events -> Nat]
  BY DEF Spend

\* Recording a failure yields a circuit.
LEMMA RecordFailureType ==
    ASSUME NEW c \in Circuit
    PROVE  RecordFailure(c) \in Circuit
  BY DEF RecordFailure, Circuit, Phase

\* Giving a probe its result yields probes.
LEMMA DoneType ==
    ASSUME TypeOK, NEW n \in Nodes, NEW h \in Health, Done(n, h)
    PROVE  probes' \in [Nodes -> Probe]
  BY DEF TypeOK, Done, Probe

\* An answered registration leaves nodes.
LEMMA AnsweredType ==
    ASSUME TypeOK, NEW c \in Call, NEW e \in {"need", "sent", "done"}
    PROVE  Answered(c, e) \in [Nodes -> Node]
  <1>1. c.node \in Nodes /\ node[c.node] \in Node
    BY DEF TypeOK, Call
  <1>2. [node[c.node] EXCEPT !.enrol = e] \in Node
    BY <1>1 DEF Node
  <1> QED
    BY <1>1, <1>2 DEF TypeOK, Answered

\* The steps of nodes and their hosts keep the types.
LEMMA NodeTypes ==
    ASSUME TypeOK, NEW n \in Nodes,
           BootNode(n) \/ CrashNode(n) \/ FlipStorage(n) \/ SendRegister(n)
    PROVE  TypeOK'
  <1> USE DEF hubVars, monitorVars
  <1>1. CASE BootNode(n)
    <2>1. node[n].boot + 1 \in Boot /\ 0 \in Boot
      BY <1>1 DEF BootNode, TypeOK, Node, Boot
    <2>2. node' \in [Nodes -> Node]
      BY <1>1, <2>1 DEF BootNode, TypeOK, Node
    <2> QED
      BY <1>1, <2>2 DEF BootNode, TypeOK
  <1>2. CASE CrashNode(n)
    <2>1. node' \in [Nodes -> Node]
      BY <1>2 DEF CrashNode, TypeOK, Node
    <2> QED
      BY <1>2, <2>1, SpendType DEF CrashNode, TypeOK, Events
  <1>3. CASE FlipStorage(n)
    <2>1. node' \in [Nodes -> Node]
      BY <1>3 DEF FlipStorage, TypeOK, Node
    <2> QED
      BY <1>3, <2>1, SpendType DEF FlipStorage, TypeOK, Events
  <1>4. CASE SendRegister(n)
    <2>1. node' \in [Nodes -> Node] /\ calls' \in SUBSET Call
      BY <1>4 DEF SendRegister, TypeOK, Node, Call
    <2> QED
      BY <1>4, <2>1 DEF SendRegister, TypeOK
  <1> QED
    BY <1>1, <1>2, <1>3, <1>4

\* The steps of the hub keep the types.
LEMMA HubTypes ==
    ASSUME TypeOK,
           \/ ResetCircuit \/ CrashHub
           \/ \E c \in calls : RegisterCluster(c) \/ RegisterClusterFails(c)
    PROVE  TypeOK'
  <1> USE DEF hubVars, monitorVars
  <1>1. CASE ResetCircuit
    <2>1. hub.call \in Call /\ hub.call.node \in Nodes
      BY <1>1 DEF ResetCircuit, TypeOK, Registration, NoRegistration, Call
    <2>2. node' \in [Nodes -> Node]
      BY <1>1, <2>1, AnsweredType DEF ResetCircuit
    <2>3. mailbox' \in Seq(Message)
      BY <1>1, <2>1, MessageTypes DEF ResetCircuit, TypeOK
    <2> QED
      BY <1>1, <2>2, <2>3, InitialTypes DEF ResetCircuit, TypeOK
  <1>2. CASE CrashHub
    <2>1. node' \in [Nodes -> Node]
      BY <1>2 DEF CrashHub, TypeOK, Node
    <2>2. budget' \in [Events -> Nat]
      BY <1>2, SpendType DEF CrashHub, TypeOK, Events
    <2>3. mailbox' \in Seq(Message) /\ calls' \in SUBSET Call
      BY <1>2 DEF CrashHub
    <2>4. /\ refs' \in [Nodes -> Handle] /\ known' \in [Nodes -> Boot]
          /\ source' \in [Nodes -> Boot] /\ cache' \in [Nodes -> Cached]
      BY <1>2, InitialTypes DEF CrashHub, Cached
    <2>5. /\ probes' \in [Nodes -> Probe] /\ circuits' \in [Nodes -> Circuit]
          /\ sweeping' \in BOOLEAN /\ hub' \in Registration
      BY <1>2, InitialTypes DEF CrashHub
    <2> QED
      BY <2>1, <2>2, <2>3, <2>4, <2>5 DEF TypeOK
  <1>3. ASSUME NEW c \in calls, RegisterCluster(c)
        PROVE  TypeOK'
    <2>1. c \in Call /\ c.node \in Nodes /\ c.boot \in Boot
      BY DEF TypeOK, Call
    <2>2. hub' \in Registration
      BY <1>3, <2>1 DEF RegisterCluster, Registration
    <2> QED
      BY <1>3, <2>1, <2>2, InitialTypes DEF RegisterCluster, TypeOK
  <1>4. ASSUME NEW c \in calls, RegisterClusterFails(c)
        PROVE  TypeOK'
    <2>1. c \in Call
      BY DEF TypeOK
    <2>2. node' \in [Nodes -> Node]
      BY <1>4, <2>1, AnsweredType DEF RegisterClusterFails
    <2> QED
      BY <1>4, <2>2, SpendType DEF RegisterClusterFails, TypeOK, Events
  <1> QED
    BY <1>1, <1>2, <1>3, <1>4

\* Receiving a message leaves a mailbox.
LEMMA ReceiveType ==
    ASSUME TypeOK, NEW m, Receive(m)
    PROVE  mailbox' \in Seq(Message)
  BY DEF TypeOK, Receive

\* The steps of the health monitor keep the types.
LEMMA MonitorTypes ==
    ASSUME TypeOK,
           \/ Tick \/ Monitor
           \/ \E n \in Nodes : CoolDown(n)
    PROVE  TypeOK'
  <1> USE DEF hubVars
  <1>1. CASE Tick
    <2>1. mailbox' \in Seq(Message)
      BY <1>1, MessageTypes DEF Tick, TypeOK
    <2> QED
      BY <1>1, <2>1 DEF Tick, TypeOK
  <1>2. ASSUME NEW n \in Nodes, CoolDown(n)
        PROVE  TypeOK'
    <2>0. [circuits[n] EXCEPT !.cooled = TRUE] \in Circuit
      BY DEF TypeOK, Circuit
    <2>1. circuits' \in [Nodes -> Circuit]
      BY <1>2, <2>0 DEF CoolDown, TypeOK
    <2> QED
      BY <1>2, <2>1 DEF CoolDown, TypeOK
  <1>3. ASSUME NEW late \in SUBSET Nodes, HandleCheckAllClusters(late)
        PROVE  TypeOK'
    <2>1. circuits' \in [Nodes -> Circuit]
      BY <1>3 DEF HandleCheckAllClusters, TypeOK, Circuit, Phase
    <2>2. probes' \in [Nodes -> Probe]
      BY <1>3 DEF HandleCheckAllClusters, NoProbe, Probe, Health, Boot
    <2>3. budget' \in [Events -> Nat]
      BY <1>3, SpendType DEF HandleCheckAllClusters, TypeOK, Events
    <2>4. mailbox' \in Seq(Message)
      BY <1>3, ReceiveType DEF HandleCheckAllClusters
    <2> QED
      BY <1>3, <2>1, <2>2, <2>3, <2>4 DEF HandleCheckAllClusters, TypeOK
  <1>4. ASSUME NEW n \in Nodes, HandleResetCircuitBreaker(n)
        PROVE  TypeOK'
    <2>1. mailbox' \in Seq(Message)
      BY <1>4, ReceiveType DEF HandleResetCircuitBreaker
    <2> QED
      BY <1>4, <2>1, InitialTypes DEF HandleResetCircuitBreaker, TypeOK, Cached
  <1>5. CASE RecordResults
    <2>1. circuits' \in [Nodes -> Circuit]
      BY <1>5, RecordFailureType, InitialTypes
      DEF RecordResults, TypeOK, RecordSuccess
    <2>2. cache' \in [Nodes -> Cached] /\ source' \in [Nodes -> Boot]
      BY <1>5 DEF RecordResults, TypeOK, Cached, Health, Probe
    <2> QED
      BY <1>5, <2>1, <2>2, InitialTypes DEF RecordResults, TypeOK
  <1> QED
    BY <1>1, <1>2, <1>3, <1>4, <1>5 DEF Monitor

\* The steps of a probe keep the types.
LEMMA ProbeTypes ==
    ASSUME TypeOK, NEW n \in Nodes, ProbeStep(n) \/ ProbeTimesOut(n)
    PROVE  TypeOK'
  <1> USE DEF hubVars
  <1>0. /\ probes[n] \in Probe /\ probes[n].health \in Health
        /\ "Unreachable" \in Health /\ Status(n) \in Health
        /\ node[n].flight \in Boot /\ node[n].boot \in Boot
        /\ probes[n].reply \in Boot
    BY DEF TypeOK, Probe, Health, Status, Node
  <1>1. CASE Ping(n)
    <2>1. probes' \in [Nodes -> Probe]
      <3>1. [pc |-> "endpoint", health |-> Status(n), reply |-> 0,
             from |-> node[n].boot] \in Probe
        BY <1>0, InitialTypes DEF Probe
      <3> QED
        BY <1>0, <1>1, <3>1, DoneType DEF Ping, TypeOK
    <2> QED
      BY <1>1, <2>1 DEF Ping, TypeOK
  <1>2. CASE AskEndpoint(n)
    <2>1. probes' \in [Nodes -> Probe]
      <3>1. [probes[n] EXCEPT !.pc = "put", !.reply = node[n].flight] \in Probe
        BY <1>0 DEF Probe
      <3> QED
        BY <1>0, <1>2, <3>1, DoneType DEF AskEndpoint, TypeOK
    <2> QED
      BY <1>2, <2>1 DEF AskEndpoint, TypeOK
  <1>3. CASE PutEndpoint(n)
    <2>1. probes' \in [Nodes -> Probe]
      BY <1>0, <1>3, DoneType DEF PutEndpoint
    <2>2. refs' \in [Nodes -> Handle]
      BY <1>0, <1>3 DEF PutEndpoint, TypeOK, Handle
    <2> QED
      BY <1>3, <2>1, <2>2 DEF PutEndpoint, TypeOK
  <1>4. CASE ProbeTimesOut(n)
    <2>1. probes' \in [Nodes -> Probe]
      BY <1>0, <1>4, DoneType DEF ProbeTimesOut
    <2> QED
      BY <1>4, <2>1, SpendType DEF ProbeTimesOut, TypeOK, Events
  <1> QED
    BY <1>1, <1>2, <1>3, <1>4 DEF ProbeStep

\* Every variable keeps its type, whatever nodes, hub and monitor do.
THEOREM TypeCorrect == Spec => []TypeOK
  <1>1. Init => TypeOK
    <2> SUFFICES ASSUME Init PROVE TypeOK
      OBVIOUS
    <2>1. node \in [Nodes -> Node]
      BY DEF Init, Node, Boot
    <2>2. mailbox \in Seq(Message)
      BY DEF Init
    <2> QED
      BY <2>1, <2>2, InitialTypes DEF Init, TypeOK, Cached
  <1>2. TypeOK /\ [Next]_vars => TypeOK'
    <2> SUFFICES ASSUME TypeOK, [Next]_vars PROVE TypeOK'
      OBVIOUS
    <2>1. CASE UNCHANGED vars
      BY <2>1 DEF vars, TypeOK
    <2> QED
      BY <2>1, NodeTypes, HubTypes, MonitorTypes, ProbeTypes DEF Next, Hub
  <1> QED
    BY <1>1, <1>2, PTL DEF Spec

-----------------------------------------------------------------------------
(* Breaker and cache.                                                      *)

\* Steps outside the monitor, and the steps of a probe, change neither
\* circuits nor cache, and no probe that is under way ceases to be.
LEMMA BreakerFrame ==
    ASSUME OpenIsAvoided, BreakerCounts,
           UNCHANGED <<circuits, cache, sweeping>>,
           \A n \in Nodes : probes[n].pc \notin {"none", "skipped"} =>
                                probes'[n].pc \notin {"none", "skipped"}
    PROVE  OpenIsAvoided' /\ BreakerCounts'
  BY DEF OpenIsAvoided, BreakerCounts

\* Giving probe n its result touches no other probe, nor what it reported.
LEMMA DoneEffect ==
    ASSUME TypeOK, NEW n \in Nodes, NEW h, Done(n, h)
    PROVE  /\ \A m \in Nodes \ {n} : probes'[m] = probes[m]
           /\ probes'[n].pc = "done"
           /\ probes'[n].health = h
           /\ probes'[n].from = probes[n].from
  <1>1. probes[n] \in Probe
    BY DEF TypeOK
  <1> QED
    BY <1>1 DEF TypeOK, Done, Probe

\* A step of a probe concerns this probe only, leaves it under way or done,
\* and what it says of the node comes from the boot that answered.
LEMMA ProbeEffect ==
    ASSUME TypeOK, NEW n \in Nodes, ProbeStep(n) \/ ProbeTimesOut(n)
    PROVE  /\ UNCHANGED <<node, calls, known, hub, mailbox, circuits, cache,
                          sweeping, source>>
           /\ \A m \in Nodes \ {n} : probes'[m] = probes[m]
           /\ probes[n].pc \in {"ping", "endpoint", "put"}
           /\ probes'[n].pc \in {"endpoint", "put", "done"}
           /\ \/ probes'[n].health = "Unreachable"
              \/ probes'[n].from = node[n].boot
              \/ /\ probes[n].pc \in {"endpoint", "put"}
                 /\ probes'[n].health = probes[n].health
                 /\ probes'[n].from = probes[n].from
  <1>0. probes[n] \in Probe /\ probes \in [Nodes -> Probe]
    BY DEF TypeOK
  <1>1. CASE Ping(n)
    <2>1. CASE node[n].up
      BY <1>0, <1>1, <2>1 DEF Ping, hubVars
    <2>2. CASE ~node[n].up
      BY <1>1, <2>2, DoneEffect DEF Ping, hubVars
    <2> QED
      BY <2>1, <2>2
  <1>2. CASE AskEndpoint(n)
    <2>1. CASE node[n].up
      BY <1>0, <1>2, <2>1 DEF AskEndpoint, hubVars, Probe
    <2>2. CASE ~node[n].up
      BY <1>2, <2>2, DoneEffect DEF AskEndpoint, hubVars
    <2> QED
      BY <2>1, <2>2
  <1>3. CASE PutEndpoint(n)
    BY <1>3, DoneEffect DEF PutEndpoint
  <1>4. CASE ProbeTimesOut(n)
    BY <1>4, DoneEffect DEF ProbeTimesOut, hubVars
  <1> QED
    BY <1>1, <1>2, <1>3, <1>4 DEF ProbeStep

\* The monitor's own steps.
LEMMA BreakerMonitor ==
    ASSUME TypeOK, OpenIsAvoided, BreakerCounts,
           Monitor \/ \E n \in Nodes : CoolDown(n)
    PROVE  OpenIsAvoided' /\ BreakerCounts'
  <1>0. \A n \in Nodes : circuits[n] \in Circuit /\ probes[n] \in Probe
    BY DEF TypeOK
  <1>1. ASSUME NEW n \in Nodes, CoolDown(n)
        PROVE  OpenIsAvoided' /\ BreakerCounts'
    <2>1. \A m \in Nodes : /\ circuits'[m].phase = circuits[m].phase
                           /\ circuits'[m].failures = circuits[m].failures
      BY <1>0, <1>1 DEF CoolDown, Circuit, TypeOK
    <2> QED
      BY <1>1, <2>1 DEF CoolDown, OpenIsAvoided, BreakerCounts
  <1>2. ASSUME NEW late \in SUBSET Nodes, HandleCheckAllClusters(late)
        PROVE  OpenIsAvoided' /\ BreakerCounts'
    <2>1. ~sweeping /\ cache' = cache /\ sweeping' = (Registered # {})
      BY <1>2 DEF HandleCheckAllClusters, Receive
    <2>2. \A n \in Nodes : circuits[n].phase # "HalfOpen"
      BY <2>1 DEF BreakerCounts
    <2>3. \A n \in Nodes :
            /\ circuits'[n].failures = circuits[n].failures
            /\ circuits'[n].phase = "Closed" <=> circuits[n].phase = "Closed"
      BY <1>0, <1>2, <2>2 DEF HandleCheckAllClusters, Circuit, Phase
    <2>4. ASSUME NEW n \in Nodes, circuits'[n].phase = "HalfOpen"
          PROVE  sweeping' /\ probes'[n].pc = "ping"
      <3>1. /\ n \in Registered /\ n \notin late
            /\ circuits[n].phase = "Open" /\ circuits[n].cooled
        BY <1>0, <1>2, <2>2, <2>4 DEF HandleCheckAllClusters, Circuit
      <3> QED
        BY <1>2, <2>1, <3>1 DEF HandleCheckAllClusters, NoProbe
    <2> QED
      BY <2>1, <2>3, <2>4 DEF OpenIsAvoided, BreakerCounts
  <1>3. ASSUME NEW n \in Nodes, HandleResetCircuitBreaker(n)
        PROVE  OpenIsAvoided' /\ BreakerCounts'
    <2>1. /\ \A m \in Nodes \ {n} : /\ circuits'[m] = circuits[m]
                                    /\ cache'[m] = cache[m]
          /\ \/ circuits'[n] = circuits[n] /\ circuits[n].phase = "Closed"
             \/ circuits'[n] = ClosedCircuit
          /\ UNCHANGED <<sweeping, probes>>
      BY <1>3 DEF HandleResetCircuitBreaker, TypeOK
    <2>2. /\ ClosedCircuit.phase = "Closed"
          /\ ClosedCircuit.failures < Threshold
      BY DEF ClosedCircuit
    <2> QED
      BY <2>1, <2>2 DEF OpenIsAvoided, BreakerCounts
  <1>4. CASE RecordResults
    <2> SUFFICES ASSUME NEW n \in Nodes
                 PROVE  /\ circuits'[n].phase # "Closed" =>
                               cache'[n] = "Unreachable"
                        /\ circuits'[n].phase = "Closed"
                               <=> circuits'[n].failures < Threshold
                        /\ circuits'[n].phase # "HalfOpen"
      BY DEF OpenIsAvoided, BreakerCounts
    <2>1. CASE probes[n].pc # "done"
      <3>1. circuits'[n] = circuits[n] /\ probes[n].pc \in {"none", "skipped"}
        BY <1>4, <2>1 DEF RecordResults
      <3>2. cache'[n] \in {cache[n], "Unreachable"}
        BY <1>4, <2>1 DEF RecordResults
      <3> QED
        BY <3>1, <3>2 DEF OpenIsAvoided, BreakerCounts
    <2>2. CASE probes[n].pc = "done" /\ probes[n].health = "Unreachable"
      <3>1. /\ cache'[n] = "Unreachable"
            /\ circuits'[n] = RecordFailure(circuits[n])
        BY <1>4, <2>2 DEF RecordResults
      <3>2. /\ circuits[n].failures \in 0..Threshold
            /\ circuits[n].phase = "Closed"
                   <=> circuits[n].failures < Threshold
            /\ circuits[n] \in Circuit
        BY <1>0 DEF Circuit, BreakerCounts
      <3> QED
        BY <3>1, <3>2 DEF RecordFailure, Circuit
    <2>3. CASE probes[n].pc = "done" /\ probes[n].health # "Unreachable"
      <3>1. circuits'[n] = ClosedCircuit
        BY <1>4, <2>3 DEF RecordResults, RecordSuccess
      <3> QED
        BY <3>1 DEF ClosedCircuit
    <2> QED
      BY <2>1, <2>2, <2>3
  <1> QED
    BY <1>1, <1>2, <1>3, <1>4 DEF Monitor

\* Every step keeps breaker and cache in agreement.
LEMMA BreakerStep ==
    ASSUME TypeOK, OpenIsAvoided, BreakerCounts, [Next]_vars
    PROVE  OpenIsAvoided' /\ BreakerCounts'
  <1>1. ASSUME NEW n \in Nodes,
               BootNode(n) \/ CrashNode(n) \/ FlipStorage(n) \/ SendRegister(n)
        PROVE  OpenIsAvoided' /\ BreakerCounts'
    BY <1>1, BreakerFrame
    DEF BootNode, CrashNode, FlipStorage, SendRegister, monitorVars
  <1>2. ASSUME NEW c \in calls, RegisterCluster(c) \/ RegisterClusterFails(c)
        PROVE  OpenIsAvoided' /\ BreakerCounts'
    BY <1>2, BreakerFrame
    DEF RegisterCluster, RegisterClusterFails, monitorVars
  <1>3. CASE ResetCircuit \/ Tick \/ UNCHANGED vars
    BY <1>3, BreakerFrame DEF ResetCircuit, Tick, vars
  <1>4. CASE CrashHub
    BY <1>4 DEF CrashHub, OpenIsAvoided, BreakerCounts, ClosedCircuit
  <1>5. ASSUME NEW n \in Nodes, ProbeStep(n) \/ ProbeTimesOut(n)
        PROVE  OpenIsAvoided' /\ BreakerCounts'
    <2>1. \A m \in Nodes : probes[m].pc \notin {"none", "skipped"} =>
                               probes'[m].pc \notin {"none", "skipped"}
      BY <1>5, ProbeEffect
    <2> QED
      BY <1>5, <2>1, ProbeEffect, BreakerFrame
  <1> QED
    BY <1>1, <1>2, <1>3, <1>4, <1>5, BreakerMonitor DEF Next, Hub

\* Breaker and cache are inductive together with the types.
LEMMA BreakerInvariant == Spec => [](OpenIsAvoided /\ BreakerCounts)
  <1>1. Init => OpenIsAvoided /\ BreakerCounts
    BY DEF Init, OpenIsAvoided, BreakerCounts, ClosedCircuit
  <1>2. /\ TypeOK /\ OpenIsAvoided /\ BreakerCounts /\ [Next]_vars
        => OpenIsAvoided' /\ BreakerCounts'
    BY BreakerStep
  <1> QED
    BY <1>1, <1>2, TypeCorrect, PTL DEF Spec

\* Routing never delegates to a node whose circuit is not closed.
THEOREM OpenIsAvoidedCorrect == Spec => []OpenIsAvoided
  BY BreakerInvariant, PTL

\* The breaker opens exactly at the threshold, and is half open only while
\* the deciding probe is under way.
THEOREM BreakerCountsCorrect == Spec => []BreakerCounts
  BY BreakerInvariant, PTL

-----------------------------------------------------------------------------
(* Fresh health.                                                           *)

\* The hub knows no boot that has not happened, nor does a call to it.
BootsHappened ==
    /\ \A n \in Nodes : known[n] <= node[n].boot
    /\ \A c \in calls : c.boot <= node[c.node].boot

\* Probes exist during a sweep only.
ProbesInSweep == ~sweeping => \A n \in Nodes : probes[n].pc = "none"

\* What a probe is about to report is as fresh as what is cached must be.
ProbesAreFresh ==
    \A n \in Nodes :
        /\ probes[n].pc \in {"endpoint", "put", "done"}
        /\ probes[n].health # "Unreachable"
        /\ ~ResetPending(n)
        => probes[n].from >= known[n]

FreshInv == BootsHappened /\ ProbesInSweep /\ ProbesAreFresh /\ HealthIsFresh

\* What a mailbox holds after a message was sent.
LEMMA HoldsAppend ==
    ASSUME NEW s \in Seq(Message), NEW x \in Message, NEW m
    PROVE  Holds(Append(s, x), m) <=> Holds(s, m) \/ x = m
  <1>1. /\ Len(s) \in Nat
        /\ Len(Append(s, x)) = Len(s) + 1
        /\ \A i \in 1..Len(s) : Append(s, x)[i] = s[i]
        /\ Append(s, x)[Len(s) + 1] = x
    OBVIOUS
  <1> QED
    BY <1>1 DEF Holds

\* What a mailbox holds and is not received now stays in it.
LEMMA HoldsTail ==
    ASSUME NEW s \in Seq(Message), s # <<>>, NEW m, Holds(s, m), Head(s) # m
    PROVE  Holds(Tail(s), m)
  <1>1. /\ Len(s) \in Nat \ {0}
        /\ Len(Tail(s)) = Len(s) - 1
        /\ \A i \in 1..Len(Tail(s)) : Tail(s)[i] = s[i + 1]
        /\ Head(s) = s[1]
    OBVIOUS
  <1>2. PICK i \in 1..Len(s) : s[i] = m
    BY DEF Holds
  <1>3. i - 1 \in 1..Len(Tail(s)) /\ Tail(s)[i - 1] = m
    BY <1>1, <1>2
  <1> QED
    BY <1>3 DEF Holds

\* A reset stays pending until the monitor handles it.
LEMMA ResetStaysPending ==
    ASSUME TypeOK, NEW n \in Nodes, ResetPending(n), NEW m, Receive(m),
           m # ResetCircuitBreaker(n), hub' = hub
    PROVE  ResetPending(n)'
  <1>1. CASE Holds(mailbox, ResetCircuitBreaker(n))
    <2>1. /\ mailbox \in Seq(Message) /\ mailbox # <<>>
          /\ Head(mailbox) = m /\ mailbox' = Tail(mailbox)
      BY DEF TypeOK, Receive
    <2>2. Holds(mailbox', ResetCircuitBreaker(n))
      BY <1>1, <2>1, HoldsTail
    <2> QED
      BY <2>2 DEF ResetPending
  <1> QED
    BY <1>1 DEF ResetPending

\* A step that keeps known boots, probes, cache and pending resets keeps the
\* invariant if it invents no boot.
LEMMA FreshFrame ==
    ASSUME FreshInv, BootsHappened',
           UNCHANGED <<known, sweeping, probes, cache, source>>,
           \A n \in Nodes : ResetPending(n) => ResetPending(n)'
    PROVE  FreshInv'
  BY DEF FreshInv, ProbesInSweep, ProbesAreFresh, HealthIsFresh, IsDelegatable

\* The steps of nodes and their hosts.
LEMMA FreshNode ==
    ASSUME TypeOK, FreshInv, NEW n \in Nodes,
           BootNode(n) \/ CrashNode(n) \/ FlipStorage(n) \/ SendRegister(n)
    PROVE  FreshInv'
  <1> USE DEF hubVars, monitorVars
  <1>1. UNCHANGED <<hub, known, mailbox, sweeping, probes, cache, source>>
    BY DEF BootNode, CrashNode, FlipStorage, SendRegister
  <1>2. /\ \A m \in Nodes : /\ node'[m].boot \in Nat
                            /\ node[m].boot \in Nat
                            /\ known[m] \in Nat
                            /\ node'[m].boot >= node[m].boot
        /\ \A c \in calls' : \/ c \in calls
                             \/ /\ c.node \in Nodes
                                /\ c.boot = node'[c.node].boot
    <2>0. \A m \in Nodes : /\ node[m] \in Node /\ node[m].boot \in Nat
                           /\ known[m] \in Nat
      BY DEF TypeOK, Node, Boot
    <2>1. CASE BootNode(n)
      BY <2>0, <2>1 DEF BootNode, TypeOK
    <2>2. CASE CrashNode(n)
      BY <2>0, <2>2 DEF CrashNode, TypeOK, Node
    <2>3. CASE FlipStorage(n)
      BY <2>0, <2>3 DEF FlipStorage, TypeOK, Node
    <2>4. CASE SendRegister(n)
      BY <2>0, <2>4 DEF SendRegister, TypeOK, Node
    <2> QED
      BY <2>1, <2>2, <2>3, <2>4
  <1>3. \A c \in calls : c.node \in Nodes /\ c.boot \in Nat
    BY DEF TypeOK, Call, Boot
  <1>4. BootsHappened'
    BY <1>1, <1>2, <1>3 DEF FreshInv, BootsHappened
  <1>5. \A m \in Nodes : ResetPending(m) => ResetPending(m)'
    BY <1>1 DEF ResetPending
  <1> QED
    BY <1>1, <1>4, <1>5, FreshFrame

\* An answered registration changes no boot.
LEMMA AnsweredBoot ==
    ASSUME TypeOK, NEW c \in Call, NEW e, NEW m \in Nodes
    PROVE  Answered(c, e)[m].boot = node[m].boot
  <1>1. c.node \in Nodes /\ \A n \in Nodes : node[n] \in Node
    BY DEF TypeOK, Call
  <1> QED
    BY <1>1 DEF TypeOK, Answered, Node

\* The steps of the hub.
LEMMA FreshHub ==
    ASSUME TypeOK, FreshInv,
           \/ ResetCircuit \/ CrashHub
           \/ \E c \in calls : RegisterCluster(c) \/ RegisterClusterFails(c)
    PROVE  FreshInv'
  <1> USE DEF hubVars, monitorVars
  <1>0. /\ \A c \in calls : c \in Call /\ c.node \in Nodes
        /\ \A n \in Nodes : node[n] \in Node
    BY DEF TypeOK, Call
  <1>1. CASE ResetCircuit
    <2>1. hub.call \in Call /\ hub.call.node \in Nodes
      BY <1>1 DEF ResetCircuit, TypeOK, Registration, NoRegistration, Call
    <2>2. \A n \in Nodes : Holds(mailbox', ResetCircuitBreaker(n))
            <=> \/ Holds(mailbox, ResetCircuitBreaker(n))
                \/ ResetCircuitBreaker(hub.call.node) = ResetCircuitBreaker(n)
      <3>1. mailbox \in Seq(Message)
        BY DEF TypeOK
      <3> QED
        BY <1>1, <2>1, <3>1, MessageTypes, HoldsAppend DEF ResetCircuit
    <2>3. \A n \in Nodes : ResetPending(n) => ResetPending(n)'
      BY <2>2 DEF ResetPending
    <2>4. BootsHappened'
      BY <1>0, <1>1, <2>1, AnsweredBoot
      DEF ResetCircuit, FreshInv, BootsHappened
    <2> QED
      BY <1>1, <2>3, <2>4, FreshFrame DEF ResetCircuit
  <1>2. CASE CrashHub
    <2>1. \A n \in Nodes : node'[n].boot \in Nat
      BY <1>0, <1>2 DEF CrashHub, Node, Boot
    <2> QED
      BY <1>2, <2>1 DEF CrashHub, FreshInv, BootsHappened, ProbesInSweep,
                        ProbesAreFresh, HealthIsFresh, IsDelegatable, NoProbe
  <1>3. ASSUME NEW c \in calls, RegisterCluster(c)
        PROVE  FreshInv'
    <2>1. /\ UNCHANGED <<node, mailbox, sweeping, probes, cache, source>>
          /\ hub' # NoRegistration /\ hub'.call = c
          /\ calls' \subseteq calls
          /\ known'[c.node] = c.boot
          /\ \A n \in Nodes \ {c.node} : known'[n] = known[n]
      BY <1>0, <1>3 DEF RegisterCluster, TypeOK, NoRegistration
    <2>2. hub = NoRegistration
      BY <1>3 DEF RegisterCluster
    <2>3. \A n \in Nodes : ResetPending(n)' <=> n = c.node \/ ResetPending(n)
      BY <2>1, <2>2 DEF ResetPending
    <2>4. BootsHappened'
      BY <1>0, <2>1 DEF FreshInv, BootsHappened
    <2>5. ProbesInSweep'
      BY <2>1 DEF FreshInv, ProbesInSweep
    <2>6. ProbesAreFresh'
      BY <2>1, <2>3 DEF FreshInv, ProbesAreFresh
    <2>7. HealthIsFresh'
      BY <2>1, <2>3 DEF FreshInv, HealthIsFresh, IsDelegatable
    <2> QED
      BY <2>4, <2>5, <2>6, <2>7 DEF FreshInv
  <1>4. ASSUME NEW c \in calls, RegisterClusterFails(c)
        PROVE  FreshInv'
    <2>1. BootsHappened'
      BY <1>0, <1>4, AnsweredBoot
      DEF RegisterClusterFails, FreshInv, BootsHappened
    <2>2. \A n \in Nodes : ResetPending(n) => ResetPending(n)'
      BY <1>4 DEF RegisterClusterFails, ResetPending
    <2> QED
      BY <1>4, <2>1, <2>2, FreshFrame DEF RegisterClusterFails
  <1> QED
    BY <1>1, <1>2, <1>3, <1>4

\* The steps of a probe.
LEMMA FreshProbe ==
    ASSUME TypeOK, FreshInv, NEW n \in Nodes, ProbeStep(n) \/ ProbeTimesOut(n)
    PROVE  FreshInv'
  <1>1. BootsHappened' /\ HealthIsFresh'
    BY ProbeEffect DEF FreshInv, BootsHappened, HealthIsFresh, ResetPending,
                       IsDelegatable
  <1>2. ProbesInSweep'
    BY ProbeEffect DEF FreshInv, ProbesInSweep
  <1>3. node[n].boot >= known[n]
    BY DEF FreshInv, BootsHappened, TypeOK, Node, Boot
  <1>4. \A m \in Nodes : ResetPending(m)' <=> ResetPending(m)
    BY ProbeEffect DEF ResetPending
  <1>5. ProbesAreFresh'
    BY <1>3, <1>4, ProbeEffect DEF FreshInv, ProbesAreFresh
  <1> QED
    BY <1>1, <1>2, <1>5 DEF FreshInv

\* The steps of the health monitor.
LEMMA FreshMonitor ==
    ASSUME TypeOK, FreshInv, Tick \/ Monitor \/ \E n \in Nodes : CoolDown(n)
    PROVE  FreshInv'
  <1> USE DEF hubVars
  <1>1. CASE Tick
    <2>1. \A n \in Nodes : ResetPending(n) => ResetPending(n)'
      <3>1. mailbox \in Seq(Message)
        BY DEF TypeOK
      <3> QED
        BY <1>1, <3>1, MessageTypes, HoldsAppend DEF Tick, ResetPending
    <2>2. BootsHappened'
      BY <1>1 DEF Tick, FreshInv, BootsHappened
    <2> QED
      BY <1>1, <2>1, <2>2, FreshFrame DEF Tick
  <1>2. ASSUME NEW n \in Nodes, CoolDown(n)
        PROVE  FreshInv'
    <2>1. BootsHappened' /\ \A m \in Nodes : ResetPending(m) => ResetPending(m)'
      BY <1>2 DEF CoolDown, FreshInv, BootsHappened, ResetPending
    <2> QED
      BY <1>2, <2>1, FreshFrame DEF CoolDown
  <1>3. ASSUME NEW late \in SUBSET Nodes, HandleCheckAllClusters(late)
        PROVE  FreshInv'
    <2>1. \A n \in Nodes : ResetPending(n) => ResetPending(n)'
      <3>1. \A n \in Nodes : CheckAllClusters # ResetCircuitBreaker(n)
        BY DEF CheckAllClusters, ResetCircuitBreaker
      <3> QED
        BY <1>3, <3>1, ResetStaysPending DEF HandleCheckAllClusters
    <2>2. \A n \in Nodes : /\ probes'[n].pc \in {"skipped", "ping", "none"}
                           /\ ~sweeping' => probes'[n].pc = "none"
      BY <1>3 DEF HandleCheckAllClusters, NoProbe, Registered
    <2>3. UNCHANGED <<node, calls, known, cache, source>>
      BY <1>3 DEF HandleCheckAllClusters
    <2> QED
      BY <2>1, <2>2, <2>3
      DEF FreshInv, BootsHappened, ProbesInSweep, ProbesAreFresh,
          HealthIsFresh, IsDelegatable
  <1>4. ASSUME NEW n \in Nodes, HandleResetCircuitBreaker(n)
        PROVE  FreshInv'
    <2>1. ~sweeping /\ UNCHANGED <<node, calls, hub, known, sweeping, probes,
                                   source>>
      BY <1>4 DEF HandleResetCircuitBreaker, Receive
    <2>2. \A m \in Nodes : probes[m].pc = "none"
      BY <2>1 DEF FreshInv, ProbesInSweep
    <2>3. /\ cache'[n] = "Absent"
          /\ \A m \in Nodes \ {n} : cache'[m] = cache[m]
      BY <1>4 DEF HandleResetCircuitBreaker, TypeOK
    <2>4. \A m \in Nodes \ {n} : ResetPending(m) => ResetPending(m)'
      <3>1. \A m \in Nodes \ {n} :
              ResetCircuitBreaker(n) # ResetCircuitBreaker(m)
        BY DEF ResetCircuitBreaker
      <3> QED
        BY <1>4, <2>1, <3>1, ResetStaysPending DEF HandleResetCircuitBreaker
    <2>5. HealthIsFresh'
      BY <2>1, <2>3, <2>4 DEF FreshInv, HealthIsFresh, IsDelegatable
    <2> QED
      BY <2>1, <2>2, <2>5
      DEF FreshInv, BootsHappened, ProbesInSweep, ProbesAreFresh
  <1>5. CASE RecordResults
    <2>1. UNCHANGED <<node, calls, hub, known, mailbox>>
      BY <1>5 DEF RecordResults
    <2>2. \A n \in Nodes : probes'[n].pc = "none"
      BY <1>5 DEF RecordResults, NoProbe
    <2>3. \A n \in Nodes : ResetPending(n)' <=> ResetPending(n)
      BY <2>1 DEF ResetPending
    <2>4. ASSUME NEW n \in Nodes, IsDelegatable(n)', ~ResetPending(n)
          PROVE  source'[n] >= known[n]
      <3>1. CASE probes[n].pc = "done"
        <4>1. /\ cache'[n] = probes[n].health
              /\ source'[n] = probes[n].from
          BY <1>5, <3>1 DEF RecordResults
        <4> QED
          BY <2>4, <3>1, <4>1 DEF FreshInv, ProbesAreFresh, IsDelegatable
      <3>2. CASE probes[n].pc # "done"
        <4>1. /\ cache'[n] \in {cache[n], "Unreachable"}
              /\ source'[n] = source[n]
          BY <1>5, <3>2 DEF RecordResults
        <4> QED
          BY <2>4, <4>1 DEF FreshInv, HealthIsFresh, IsDelegatable
      <3> QED
        BY <3>1, <3>2
    <2>5. HealthIsFresh'
      BY <2>1, <2>3, <2>4 DEF HealthIsFresh
    <2> QED
      BY <2>1, <2>2, <2>5
      DEF FreshInv, BootsHappened, ProbesInSweep, ProbesAreFresh
  <1> QED
    BY <1>1, <1>2, <1>3, <1>4, <1>5 DEF Monitor

\* Once a registration has got through to the monitor, a node is delegated to
\* only on the word of the registered boot or a later one.
THEOREM HealthIsFreshCorrect == Spec => []HealthIsFresh
  <1>1. Init => FreshInv
    BY DEF Init, FreshInv, BootsHappened, ProbesInSweep, ProbesAreFresh,
           HealthIsFresh, IsDelegatable, NoProbe
  <1>2. TypeOK /\ FreshInv /\ [Next]_vars => FreshInv'
    <2> SUFFICES ASSUME TypeOK, FreshInv, [Next]_vars PROVE FreshInv'
      OBVIOUS
    <2>1. CASE UNCHANGED vars
      BY <2>1 DEF vars, FreshInv, BootsHappened, ProbesInSweep,
                  ProbesAreFresh, HealthIsFresh, IsDelegatable, ResetPending
    <2> QED
      BY <2>1, FreshNode, FreshHub, FreshProbe, FreshMonitor DEF Next, Hub
  <1>3. FreshInv => HealthIsFresh
    BY DEF FreshInv
  <1> QED
    BY <1>1, <1>2, <1>3, TypeCorrect, PTL DEF Spec
=============================================================================
