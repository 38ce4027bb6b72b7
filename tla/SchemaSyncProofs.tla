-------------------------- MODULE SchemaSyncProofs --------------------------
(***************************************************************************)
(* Proofs about SchemaSync, for any nodes, resources, migrations, queue    *)
(* lengths and numbers of events.                                          *)
(***************************************************************************)
EXTENDS SchemaSync, TLAPS

USE SyncAssumptions

-----------------------------------------------------------------------------
(* The inductive invariant.                                                *)

\* The hub waits for an answer of n.
Asked(n) == hub.pc = "ask" /\ hub.asked = n

LiveTask(n) == task[n] # NoTask /\ task[n].request.live

\* At most one request is live, and it is at the node the hub is waiting for:
\* a second answer to one broadcast cannot arrive.
OneLive(n) ==
    /\ LiveTask(n) => Asked(n)
    /\ \A i \in DOMAIN inbox[n] : inbox[n][i].live =>
          /\ Asked(n) /\ ~LiveTask(n)
          /\ \A j \in DOMAIN inbox[n] : inbox[n][j].live => j = i

\* What a node has applied is a prefix of the migrations; the version it
\* keeps, or the loop under way has reached, is its length; and what was
\* reported of it is no more.
Prefix(n) ==
    /\ \A i \in DOMAIN schema[n] : schema[n][i] = i /\ ddl_allowed(i)
    /\ up[n] /\ task[n] = NoTask => version[n] = Len(schema[n])
    /\ task[n] # NoTask => up[n] /\ task[n].applied = Len(schema[n])
    /\ Len(schema[n]) >= report[n]

Inv == TypeOK /\ \A n \in Nodes : OneLive(n) /\ Prefix(n)

-----------------------------------------------------------------------------
(* Types.                                                                  *)

\* The hub is in a broadcast unless it is idle.
LEMMA HubType ==
    ASSUME TypeOK, hub.pc # "idle"
    PROVE  hub \in Broadcast
BY DEF TypeOK, NoBroadcast

\* A node that handles a request has a task.
LEMMA TaskType ==
    ASSUME TypeOK, NEW n \in Nodes, task[n] # NoTask
    PROVE  /\ task[n] \in Task
           /\ task[n].request \in Request
           /\ task[n].request.target \in Version
           /\ task[n].request.live \in BOOLEAN
           /\ task[n].applied \in Version
BY DEF TypeOK, Task, Request

\* The migration a task is at is the next one, and one of the migrations.
LEMMA PendingType ==
    ASSUME TypeOK, NEW n \in Nodes, Pending(task[n]) # 0
    PROVE  /\ task[n] # NoTask
           /\ Pending(task[n]) = task[n].applied + 1
           /\ Pending(task[n]) \in 1..MaxVersion
           /\ Pending(task[n]) <= task[n].request.target
<1>1. task[n] # NoTask /\ task[n].applied < task[n].request.target
  BY DEF Pending
<1>2. task[n].request.target \in Version /\ task[n].applied \in Version
  BY <1>1, TaskType
<1>3. QED
  BY <1>1, <1>2 DEF Pending, Version

\* Spending leaves a budget.
LEMMA SpendType ==
    ASSUME TypeOK, NEW e \in Events, Spend(e)
    PROVE  budget' \in [Events -> Nat]
BY DEF TypeOK, Spend

\* What a node has applied is no longer than the list of migrations.
LEMMA SchemaLength ==
    ASSUME TypeOK, NEW n \in Nodes, Prefix(n)
    PROVE  Len(schema[n]) \in Version
<1>1. schema[n] \in Seq(1..MaxVersion)
  BY DEF TypeOK
<1>2. CASE Len(schema[n]) = 0
  BY <1>2 DEF Version
<1>3. CASE Len(schema[n]) # 0
  <2>1. Len(schema[n]) \in Nat /\ Len(schema[n]) \in DOMAIN schema[n]
    BY <1>1, <1>3
  <2>2. schema[n][Len(schema[n])] \in 1..MaxVersion
    BY <1>1, <2>1
  <2>3. schema[n][Len(schema[n])] = Len(schema[n])
    BY <2>1 DEF Prefix
  <2>4. QED
    BY <2>1, <2>2, <2>3 DEF Version
<1>4. QED
  BY <1>2, <1>3

\* An answer leaves versions, tasks, reports and a broadcast.
LEMMA ReplyType ==
    ASSUME TypeOK, NEW n \in Nodes, OneLive(n), task[n] # NoTask,
           NEW success \in BOOLEAN, SyncReply(n, success)
    PROVE  /\ version' \in [Nodes -> Version]
           /\ task' \in [Nodes -> Task \cup {NoTask}]
           /\ report' \in [Nodes -> Version]
           /\ hub' \in Broadcast \cup {NoBroadcast}
<1>1. version' \in [Nodes -> Version] /\ task' \in [Nodes -> Task \cup {NoTask}]
  BY TaskType DEF TypeOK, SyncReply
<1>2. CASE task[n].request.live
  <2>1. hub \in Broadcast
    BY <1>2, HubType DEF OneLive, LiveTask, Asked
  <2>2. hub' \in Broadcast
    BY <1>2, <2>1 DEF SyncReply, Broadcast
  <2>3. report' \in [Nodes -> Version]
    <3>1. 0 \in Version /\ task[n].request.target \in Version
      BY TaskType DEF Version
    <3>2. report' = [report EXCEPT ![n] =
                        IF success THEN task[n].request.target ELSE 0]
      BY <1>2 DEF SyncReply
    <3>3. QED
      BY <3>1, <3>2 DEF TypeOK
  <2>4. QED
    BY <1>1, <2>2, <2>3
<1>3. CASE ~task[n].request.live
  BY <1>1, <1>3 DEF SyncReply, TypeOK
<1>4. QED
  BY <1>2, <1>3

\* The hub's steps keep the types.
LEMMA HubTypes ==
    ASSUME TypeOK, Release \/ SyncAllSchemas \/ HubStep
    PROVE  TypeOK'
<1> USE DEF hubVars, nodeVars, localityVars
<1>1. CASE Release
  BY <1>1 DEF Release, TypeOK, Version
<1>2. CASE SyncAllSchemas
  <2>1. hub' \in Broadcast
    BY <1>2 DEF SyncAllSchemas, Broadcast, TypeOK
  <2>2. QED
    BY <1>2, <2>1 DEF SyncAllSchemas, TypeOK
<1>3. CASE BroadcastEnds
  BY <1>3 DEF BroadcastEnds, TypeOK
<1>4. ASSUME NEW n \in Nodes, AskNode(n) PROVE TypeOK'
  <2>1. hub \in Broadcast
    BY <1>4, HubType DEF AskNode
  <2>2. hub' \in Broadcast
    BY <1>4, <2>1 DEF AskNode, Broadcast
  <2>3. [target |-> hub.target, live |-> TRUE] \in Request
    BY <2>1 DEF Broadcast, Request
  <2>4. inbox' \in [Nodes -> Seq(Request)]
    BY <1>4, <2>3 DEF AskNode, TypeOK
  <2>5. QED
    BY <1>4, <2>2, <2>4 DEF AskNode, TypeOK
<1>5. CASE AskFails
  <2> DEFINE n == hub.asked
  <2>1. hub \in Broadcast
    BY <1>5, HubType DEF AskFails
  <2>2. hub' \in Broadcast
    BY <1>5, <2>1 DEF AskFails, Broadcast
  <2>3. budget' \in [Events -> Nat]
    BY <1>5, SpendType DEF AskFails, TypeOK, Events
  <2>4. report' \in [Nodes -> Version]
    <3>1. 0 \in Version
      BY DEF Version
    <3>2. report' = [report EXCEPT ![n] = 0]
      BY <1>5 DEF AskFails
    <3>3. QED
      BY <3>1, <3>2 DEF TypeOK
  <2>5. ASSUME NEW m \in Nodes PROVE Abandon(inbox[m]) \in Seq(Request)
    <3>1. inbox[m] \in Seq(Request)
      BY DEF TypeOK
    <3>2. \A i \in DOMAIN inbox[m] :
             [inbox[m][i] EXCEPT !.live = FALSE] \in Request
      <4> SUFFICES ASSUME NEW i \in DOMAIN inbox[m]
                   PROVE  [inbox[m][i] EXCEPT !.live = FALSE] \in Request
        OBVIOUS
      <4>1. inbox[m][i] \in Request
        BY <3>1
      <4>2. QED
        BY <4>1 DEF Request
    <3>3. /\ DOMAIN inbox[m] = 1..Len(inbox[m])
          /\ Len(inbox[m]) \in Nat
      BY <3>1
    <3>4. QED
      BY <3>2, <3>3 DEF Abandon
  <2>6. inbox' \in [Nodes -> Seq(Request)]
    BY <1>5, <2>5 DEF AskFails, TypeOK
  <2>7. ASSUME NEW m \in Nodes, task[m] # NoTask
        PROVE  [task[m] EXCEPT !.request.live = FALSE] \in Task
    BY <2>7, TaskType DEF Task, Request
  <2>8. task' \in [Nodes -> Task \cup {NoTask}]
    BY <1>5, <2>7 DEF AskFails, TypeOK
  <2>9. QED
    BY <1>5, <2>2, <2>3, <2>4, <2>6, <2>8 DEF AskFails, TypeOK
<1>6. QED
  BY <1>1, <1>2, <1>3, <1>4, <1>5 DEF HubStep

\* The steps of a node keep the types.
LEMMA NodeTypes ==
    ASSUME Inv, NEW n \in Nodes, NodeStep(n) \/ CrashNode(n) \/ StartNode(n)
    PROVE  TypeOK'
<1> USE DEF hubVars, nodeVars, localityVars
<1>0. TypeOK /\ OneLive(n) /\ Prefix(n)
  BY DEF Inv
<1>1. CASE HandleSchemaSync(n)
  <2>1. inbox[n] \in Seq(Request) /\ inbox[n] # <<>>
    BY <1>0, <1>1 DEF HandleSchemaSync, TypeOK
  <2>2. Head(inbox[n]) \in Request /\ Tail(inbox[n]) \in Seq(Request)
    BY <2>1
  <2>3. [request |-> Head(inbox[n]), applied |-> version[n]] \in Task
    BY <1>0, <2>2 DEF Task, TypeOK
  <2>4. inbox' \in [Nodes -> Seq(Request)]
    BY <1>0, <1>1, <2>2 DEF HandleSchemaSync, TypeOK
  <2>5. task' \in [Nodes -> Task \cup {NoTask}]
    BY <1>0, <1>1, <2>3 DEF HandleSchemaSync, TypeOK
  <2>6. QED
    BY <1>0, <1>1, <2>4, <2>5 DEF HandleSchemaSync, TypeOK
<1>2. CASE MigrationApplied(n)
  <2> DEFINE v == Pending(task[n])
  <2>1. v \in 1..MaxVersion /\ task[n] # NoTask
    BY <1>0, <1>2, PendingType DEF MigrationApplied
  <2>2. schema' \in [Nodes -> Seq(1..MaxVersion)]
    <3> HIDE DEF v
    <3>1. schema[n] \in Seq(1..MaxVersion)
      BY <1>0 DEF TypeOK
    <3>2. Append(schema[n], v) \in Seq(1..MaxVersion)
      BY <2>1, <3>1
    <3>3. schema' = [schema EXCEPT ![n] = Append(schema[n], v)]
      BY <1>2 DEF MigrationApplied, v
    <3>4. QED
      BY <1>0, <3>2, <3>3 DEF TypeOK
  <2>3. [task[n] EXCEPT !.applied = v] \in Task
    BY <1>0, <2>1, TaskType DEF Task, Version
  <2>4. task' \in [Nodes -> Task \cup {NoTask}]
    BY <1>0, <1>2, <2>3 DEF MigrationApplied, TypeOK
  <2>5. QED
    BY <1>0, <1>2, <2>2, <2>4 DEF MigrationApplied, TypeOK
<1>3. CASE MigrationFails(n)
  <2>1. task[n] # NoTask
    BY <1>0, <1>3, PendingType DEF MigrationFails
  <2>2. budget' \in [Events -> Nat]
    BY <1>0, <1>3, SpendType DEF MigrationFails, Events
  <2>3. SyncReply(n, FALSE)
    BY <1>3 DEF MigrationFails
  <2>4. QED
    BY <1>0, <1>3, <2>1, <2>2, <2>3, ReplyType DEF MigrationFails, TypeOK
<1>4. CASE MigrationRefused(n)
  <2>1. task[n] # NoTask
    BY <1>0, <1>4, PendingType DEF MigrationRefused
  <2>2. SyncReply(n, FALSE)
    BY <1>4 DEF MigrationRefused
  <2>3. QED
    BY <1>0, <1>4, <2>1, <2>2, ReplyType DEF MigrationRefused, TypeOK
<1>5. CASE LoopEnds(n)
  <2>1. SyncReply(n, TRUE) /\ task[n] # NoTask
    BY <1>5 DEF LoopEnds
  <2>2. QED
    BY <1>0, <1>5, <2>1, ReplyType DEF LoopEnds, TypeOK
<1>6. CASE CrashNode(n)
  <2>1. budget' \in [Events -> Nat]
    BY <1>0, <1>6, SpendType DEF CrashNode, Events
  <2>2. <<>> \in Seq(Request) /\ 0 \in Version
    BY DEF Version
  <2>3. QED
    BY <1>0, <1>6, <2>1, <2>2 DEF CrashNode, TypeOK
<1>7. CASE StartNode(n)
  BY <1>0, <1>7, SchemaLength DEF StartNode, TypeOK
<1>8. QED
  BY <1>1, <1>2, <1>3, <1>4, <1>5, <1>6, <1>7 DEF NodeStep

\* Announcements keep the types.
LEMMA LocalityTypes ==
    ASSUME TypeOK, NEW n \in Nodes,
           \/ LoseAnnouncement(n) \/ Announced(n)
           \/ \E r \in Resources, action \in Action : Announce(n, r, action)
    PROVE  TypeOK'
<1> USE DEF hubVars, nodeVars
<1>1. notes[n] \in Seq(Announcement)
  BY DEF TypeOK
<1>2. ASSUME notes[n] # <<>>
      PROVE  /\ Head(notes[n]) \in Announcement
             /\ Head(notes[n]).resource \in Resources
             /\ Tail(notes[n]) \in Seq(Announcement)
  <2>1. Head(notes[n]) \in Announcement /\ Tail(notes[n]) \in Seq(Announcement)
    BY <1>1, <1>2
  <2>2. QED
    BY <2>1 DEF Announcement
<1>3. CASE LoseAnnouncement(n)
  <2>1. budget' \in [Events -> Nat]
    BY <1>3, SpendType DEF LoseAnnouncement, Events
  <2>2. notes' \in [Nodes -> Seq(Announcement)] /\ lost' \subseteq Resources
    BY <1>2, <1>3 DEF LoseAnnouncement, TypeOK
  <2>3. QED
    BY <1>3, <2>1, <2>2 DEF LoseAnnouncement, TypeOK
<1>4. CASE Announced(n)
  <2>1. notes' \in [Nodes -> Seq(Announcement)]
    BY <1>2, <1>4 DEF Announced, TypeOK
  <2>2. index' \in [Resources -> Nodes \cup {Hub}]
    BY <1>4 DEF Announced, TypeOK
  <2>3. erased' \subseteq Resources
    BY <1>2, <1>4 DEF Announced, Erased, TypeOK
  <2>4. QED
    BY <1>4, <2>1, <2>2, <2>3 DEF Announced, TypeOK
<1>5. ASSUME NEW r \in Resources, NEW action \in Action, Announce(n, r, action)
      PROVE  TypeOK'
  <2>1. budget' \in [Events -> Nat]
    BY <1>5, SpendType DEF Announce, Events
  <2>2. [resource |-> r, action |-> action] \in Announcement
    BY DEF Announcement
  <2>3. notes' \in [Nodes -> Seq(Announcement)]
    BY <1>1, <1>5, <2>2 DEF Announce, TypeOK
  <2>4. owner' \in [Resources -> Nodes \cup {Hub}]
    BY <1>5 DEF Announce, TypeOK
  <2>5. QED
    BY <1>5, <2>1, <2>3, <2>4 DEF Announce, TypeOK
<1>6. QED
  BY <1>3, <1>4, <1>5

-----------------------------------------------------------------------------
(* Requests and answers.                                                   *)

\* What concerns neither requests nor the hub keeps them.
LEMMA LiveWaits ==
    ASSUME NEW n \in Nodes, OneLive(n), inbox'[n] = inbox[n], task'[n] = task[n],
           UNCHANGED hub
    PROVE  OneLive(n)'
BY DEF OneLive, LiveTask, Asked

\* A node without a live request is not concerned by what the hub does.
NoLive(n) ==
    /\ ~LiveTask(n)
    /\ \A i \in DOMAIN inbox[n] : ~inbox[n][i].live

LEMMA NoLiveWaits ==
    ASSUME NEW n \in Nodes, NoLive(n), inbox'[n] = inbox[n], task'[n] = task[n]
    PROVE  OneLive(n)'
BY DEF OneLive, LiveTask, NoLive

\* Only the node the hub is waiting for has one.
LEMMA OnlyAsked ==
    ASSUME NEW n \in Nodes, OneLive(n), ~Asked(n)
    PROVE  NoLive(n)
BY DEF OneLive, NoLive

\* The hub's steps keep requests live at one place.
LEMMA HubLive ==
    ASSUME Inv, Release \/ SyncAllSchemas \/ HubStep, NEW n \in Nodes
    PROVE  OneLive(n)'
<1> USE DEF nodeVars
<1>0. TypeOK /\ OneLive(n)
  BY DEF Inv
<1>1. CASE Release
  BY <1>0, <1>1, LiveWaits DEF Release
<1>2. CASE SyncAllSchemas \/ BroadcastEnds
  <2>1. NoLive(n)
    BY <1>0, <1>2, OnlyAsked DEF SyncAllSchemas, BroadcastEnds, Asked
  <2>2. QED
    BY <1>2, <2>1, NoLiveWaits DEF SyncAllSchemas, BroadcastEnds
<1>3. ASSUME NEW m \in Nodes, AskNode(m) PROVE OneLive(n)'
  <2>1. NoLive(n)
    BY <1>0, <1>3, OnlyAsked DEF AskNode, Asked
  <2>2. task'[n] = task[n]
    BY <1>3 DEF AskNode
  <2>3. CASE n # m \/ ~up[m]
    BY <1>0, <1>3, <2>1, <2>2, <2>3, NoLiveWaits DEF AskNode, TypeOK
  <2>4. CASE n = m /\ up[m]
    <3> DEFINE e == [target |-> hub.target, live |-> TRUE]
    <3>1. hub \in Broadcast
      BY <1>0, <1>3, HubType DEF AskNode
    <3>2. Asked(n)'
      BY <1>3, <2>4, <3>1 DEF AskNode, Asked, Broadcast
    <3>3. inbox[n] \in Seq(Request) /\ e \in Request
      BY <1>0, <3>1 DEF TypeOK, Request, Broadcast
    <3>4. inbox'[n] = Append(inbox[n], e)
      BY <1>0, <1>3, <2>4 DEF AskNode, TypeOK
    <3> HIDE DEF e
    <3>5. /\ DOMAIN inbox'[n] = 1..(Len(inbox[n]) + 1)
          /\ DOMAIN inbox[n] = 1..Len(inbox[n])
          /\ Len(inbox[n]) \in Nat
          /\ \A i \in 1..Len(inbox[n]) : inbox'[n][i] = inbox[n][i]
      BY <3>3, <3>4
    <3>6. \A i \in DOMAIN inbox'[n] : inbox'[n][i].live => i = Len(inbox[n]) + 1
      <4> SUFFICES ASSUME NEW i \in DOMAIN inbox'[n], i # Len(inbox[n]) + 1
                   PROVE  ~inbox'[n][i].live
        OBVIOUS
      <4>1. i \in 1..Len(inbox[n])
        BY <3>5
      <4>2. ~inbox[n][i].live
        BY <2>1, <3>5, <4>1 DEF NoLive
      <4>3. QED
        BY <3>5, <4>1, <4>2
    <3>7. ~LiveTask(n)'
      BY <2>1, <2>2 DEF NoLive, LiveTask
    <3>8. QED
      BY <3>2, <3>6, <3>7 DEF OneLive
  <2>5. QED
    BY <2>3, <2>4
<1>4. CASE AskFails
  <2>1. CASE n # hub.asked
    <3>1. NoLive(n)
      BY <1>0, <2>1, OnlyAsked DEF Asked
    <3>2. inbox'[n] = inbox[n] /\ task'[n] = task[n]
      BY <1>0, <1>4, <2>1 DEF AskFails, TypeOK
    <3>3. QED
      BY <3>1, <3>2, NoLiveWaits
  <2>2. CASE n = hub.asked
    <3>1. inbox'[n] = Abandon(inbox[n])
      BY <1>0, <1>4, <2>2 DEF AskFails, TypeOK
    <3>2. \A i \in DOMAIN inbox'[n] : ~inbox'[n][i].live
      <4> SUFFICES ASSUME NEW i \in DOMAIN inbox'[n] PROVE ~inbox'[n][i].live
        OBVIOUS
      <4>1. i \in DOMAIN inbox[n]
        BY <3>1 DEF Abandon
      <4>2. inbox[n] \in Seq(Request)
        BY <1>0 DEF TypeOK
      <4>3. inbox[n][i] \in Request
        BY <4>1, <4>2
      <4>4. inbox'[n][i] = [inbox[n][i] EXCEPT !.live = FALSE]
        BY <3>1, <4>1 DEF Abandon
      <4>5. QED
        BY <4>3, <4>4 DEF Request
    <3>3. ~LiveTask(n)'
      <4>1. task'[n] = IF task[n] = NoTask THEN task[n]
                       ELSE [task[n] EXCEPT !.request.live = FALSE]
        BY <1>0, <1>4, <2>2 DEF AskFails, TypeOK
      <4>2. CASE task[n] = NoTask
        BY <4>1, <4>2 DEF LiveTask
      <4>3. CASE task[n] # NoTask
        BY <1>0, <4>1, <4>3, TaskType DEF LiveTask, Task, Request
      <4>4. QED
        BY <4>2, <4>3
    <3>4. QED
      BY <3>2, <3>3 DEF OneLive
  <2>3. QED
    BY <2>1, <2>2
<1>5. QED
  BY <1>1, <1>2, <1>3, <1>4 DEF HubStep

\* An answer takes the only live request with it.
LEMMA ReplyLive ==
    ASSUME Inv, NEW m \in Nodes, NEW n \in Nodes, task[m] # NoTask,
           NEW success \in BOOLEAN, SyncReply(m, success), inbox' = inbox
    PROVE  OneLive(n)'
<1>0. TypeOK /\ OneLive(n) /\ OneLive(m)
  BY DEF Inv
<1>1. task' = [task EXCEPT ![m] = NoTask]
  BY DEF SyncReply
<1>2. CASE n = m
  <2>1. ~LiveTask(n)'
    BY <1>0, <1>1, <1>2 DEF LiveTask, TypeOK
  <2>2. CASE task[m].request.live
    <3>1. \A i \in DOMAIN inbox[n] : ~inbox[n][i].live
      BY <1>0, <1>2, <2>2 DEF OneLive, LiveTask
    <3>2. QED
      BY <2>1, <3>1 DEF OneLive
  <2>3. CASE ~task[m].request.live
    <3>1. UNCHANGED hub
      BY <2>3 DEF SyncReply
    <3>2. QED
      BY <1>0, <2>1, <3>1 DEF OneLive, Asked
  <2>4. QED
    BY <2>2, <2>3
<1>3. CASE n # m
  <2>1. task'[n] = task[n]
    BY <1>0, <1>1, <1>3 DEF TypeOK
  <2>2. CASE task[m].request.live
    <3>1. ~Asked(n)
      BY <1>0, <1>3, <2>2 DEF OneLive, LiveTask, Asked
    <3>2. QED
      BY <1>0, <2>1, <3>1, OnlyAsked, NoLiveWaits
  <2>3. CASE ~task[m].request.live
    BY <1>0, <2>1, <2>3, LiveWaits DEF SyncReply
  <2>4. QED
    BY <2>2, <2>3
<1>4. QED
  BY <1>2, <1>3

\* The steps of a node keep requests live at one place.
LEMMA NodeLive ==
    ASSUME Inv, NEW m \in Nodes, NEW n \in Nodes,
           NodeStep(m) \/ CrashNode(m) \/ StartNode(m)
    PROVE  OneLive(n)'
<1> USE DEF hubVars
<1>0. TypeOK /\ OneLive(n) /\ OneLive(m)
  BY DEF Inv
<1>1. CASE HandleSchemaSync(m)
  <2>1. CASE n # m
    BY <1>0, <1>1, <2>1, LiveWaits DEF HandleSchemaSync, TypeOK
  <2>2. CASE n = m
    <3> DEFINE box == inbox[n]
               new == inbox'[n]
    <3>1. box \in Seq(Request) /\ box # <<>> /\ task[n] = NoTask
      BY <1>0, <1>1, <2>2 DEF HandleSchemaSync, TypeOK
    <3>2. new = Tail(box)
      BY <1>0, <1>1, <2>2 DEF HandleSchemaSync, TypeOK
    <3>3. task'[n] = [request |-> box[1], applied |-> version[n]]
      BY <1>0, <1>1, <2>2, <3>1 DEF HandleSchemaSync, TypeOK
    <3>4. UNCHANGED hub
      BY <1>1 DEF HandleSchemaSync
    <3>5. \A i \in DOMAIN box : box[i].live =>
             Asked(n) /\ \A j \in DOMAIN box : box[j].live => j = i
      BY <1>0 DEF OneLive
    <3>6. LiveTask(n)' => box[1].live
      BY <3>3 DEF LiveTask
    <3> HIDE DEF box, new
    <3>7. /\ DOMAIN box = 1..Len(box) /\ Len(box) \in Nat /\ Len(box) > 0
          /\ DOMAIN new = 1..(Len(box) - 1)
          /\ \A i \in DOMAIN new : new[i] = box[i + 1] /\ i + 1 \in DOMAIN box
      BY <3>1, <3>2
    <3>8. LiveTask(n)' => Asked(n)
      BY <3>5, <3>6, <3>7
    <3>9. ASSUME NEW i \in DOMAIN new, new[i].live
          PROVE  /\ Asked(n) /\ ~LiveTask(n)'
                 /\ \A j \in DOMAIN new : new[j].live => j = i
      <4>1. box[i + 1].live /\ i + 1 \in DOMAIN box /\ i + 1 # 1
        BY <3>7, <3>9
      <4>2. ~box[1].live
        BY <3>5, <3>7, <4>1
      <4>3. \A j \in DOMAIN new : new[j].live => j + 1 = i + 1
        BY <3>5, <3>7, <4>1
      <4>4. QED
        BY <3>5, <3>6, <3>7, <4>1, <4>2, <4>3
    <3>10. Asked(n)' = Asked(n)
      BY <3>4 DEF Asked
    <3>11. QED
      BY <3>8, <3>9, <3>10 DEF OneLive, new
  <2>3. QED
    BY <2>1, <2>2
<1>2. CASE MigrationApplied(m)
  <2>1. inbox' = inbox /\ hub' = hub
    BY <1>2 DEF MigrationApplied
  <2>2. CASE n # m
    BY <1>0, <1>2, <2>1, <2>2, LiveWaits DEF MigrationApplied, TypeOK
  <2>3. CASE n = m
    <3>1. task[n] # NoTask
      BY <1>0, <1>2, <2>3, PendingType DEF MigrationApplied
    <3>2. task'[n] = [task[n] EXCEPT !.applied = Pending(task[m])]
      BY <1>0, <1>2, <2>3 DEF MigrationApplied, TypeOK
    <3>3. task'[n].request = task[n].request
      BY <1>0, <3>1, <3>2, TaskType DEF Task
    <3>4. LiveTask(n)' => LiveTask(n)
      BY <3>1, <3>3 DEF LiveTask
    <3>5. QED
      BY <1>0, <2>1, <3>4 DEF OneLive, Asked
  <2>4. QED
    BY <2>2, <2>3
<1>3. CASE MigrationFails(m)
  <2>1. task[m] # NoTask /\ SyncReply(m, FALSE) /\ inbox' = inbox
    BY <1>0, <1>3, PendingType DEF MigrationFails
  <2>2. QED
    BY <2>1, ReplyLive
<1>4. CASE MigrationRefused(m)
  <2>1. task[m] # NoTask /\ SyncReply(m, FALSE) /\ inbox' = inbox
    BY <1>0, <1>4, PendingType DEF MigrationRefused
  <2>2. QED
    BY <2>1, ReplyLive
<1>5. CASE LoopEnds(m)
  <2>1. task[m] # NoTask /\ SyncReply(m, TRUE) /\ inbox' = inbox
    BY <1>5 DEF LoopEnds
  <2>2. QED
    BY <2>1, ReplyLive
<1>6. CASE CrashNode(m)
  <2>1. CASE n # m
    BY <1>0, <1>6, <2>1, LiveWaits DEF CrashNode, TypeOK
  <2>2. CASE n = m
    <3>1. inbox'[n] = <<>> /\ task'[n] = NoTask
      BY <1>0, <1>6, <2>2 DEF CrashNode, TypeOK
    <3>2. QED
      BY <3>1 DEF OneLive, LiveTask
  <2>3. QED
    BY <2>1, <2>2
<1>7. CASE StartNode(m)
  BY <1>0, <1>7, LiveWaits DEF StartNode
<1>8. QED
  BY <1>1, <1>2, <1>3, <1>4, <1>5, <1>6, <1>7 DEF NodeStep

-----------------------------------------------------------------------------
(* What nodes have applied.                                                *)

\* A node none of whose variables changes keeps its prefix.
LEMMA PrefixWaits ==
    ASSUME NEW n \in Nodes, Prefix(n), schema'[n] = schema[n],
           version'[n] = version[n], task'[n] = task[n], up'[n] = up[n],
           report'[n] = report[n]
    PROVE  Prefix(n)'
BY DEF Prefix

\* The hub's steps keep the prefixes: a request that failed reports nothing.
LEMMA HubPrefix ==
    ASSUME Inv, Release \/ SyncAllSchemas \/ HubStep, NEW n \in Nodes
    PROVE  Prefix(n)'
<1> USE DEF nodeVars
<1>0. TypeOK /\ Prefix(n)
  BY DEF Inv
<1>1. CASE ~AskFails
  BY <1>0, <1>1, PrefixWaits DEF Release, SyncAllSchemas, HubStep, BroadcastEnds, AskNode
<1>2. CASE AskFails
  <2>1. UNCHANGED <<schema, version, up>>
    BY <1>2 DEF AskFails
  <2>2. CASE n # hub.asked
    BY <1>0, <1>2, <2>1, <2>2, PrefixWaits DEF AskFails, TypeOK
  <2>3. CASE n = hub.asked
    <3>1. report'[n] = 0 /\ Len(schema[n]) \in Nat
      BY <1>0, <1>2, <2>3 DEF AskFails, TypeOK
    <3>2. task'[n] = IF task[n] = NoTask THEN task[n]
                     ELSE [task[n] EXCEPT !.request.live = FALSE]
      BY <1>0, <1>2, <2>3 DEF AskFails, TypeOK
    <3>3. CASE task[n] = NoTask
      BY <1>0, <2>1, <3>1, <3>2, <3>3 DEF Prefix
    <3>4. CASE task[n] # NoTask
      <4>1. task'[n].applied = task[n].applied
        BY <1>0, <3>2, <3>4, TaskType DEF Task
      <4>2. task'[n] # NoTask
        BY <1>0, <3>2, <3>4, TaskType DEF Task, NoTask
      <4>3. QED
        BY <1>0, <2>1, <3>1, <3>4, <4>1, <4>2 DEF Prefix
    <3>5. QED
      BY <3>3, <3>4
  <2>4. QED
    BY <2>2, <2>3
<1>3. QED
  BY <1>1, <1>2

\* An answer stores the length of the prefix, and reports success only when
\* the target is in it.
LEMMA ReplyPrefix ==
    ASSUME Inv, NEW m \in Nodes, NEW n \in Nodes, task[m] # NoTask,
           NEW success \in BOOLEAN, SyncReply(m, success),
           success => Pending(task[m]) = 0, UNCHANGED <<schema, up>>
    PROVE  Prefix(n)'
<1>0. TypeOK /\ Prefix(n) /\ Prefix(m)
  BY DEF Inv
<1>1. CASE n # m
  BY <1>0, <1>1, PrefixWaits DEF SyncReply, TypeOK
<1>2. CASE n = m
  <2>1. version'[n] = Len(schema[n]) /\ task'[n] = NoTask
    BY <1>0, <1>2 DEF SyncReply, TypeOK, Prefix
  <2>2. success => task[m].request.target <= Len(schema[n])
    <3>1. /\ task[m].applied = Len(schema[n])
          /\ task[m].applied \in Version /\ task[m].request.target \in Version
      BY <1>0, <1>2, TaskType DEF Prefix
    <3>2. success => ~(task[m].applied < task[m].request.target)
      BY <3>1 DEF Pending, Version
    <3>3. QED
      BY <3>1, <3>2 DEF Version
  <2>3. Len(schema[n]) >= report'[n]
    <3>1. Len(schema[n]) \in Nat
      BY <1>0 DEF TypeOK
    <3>2. \/ report'[n] = report[n]
          \/ report'[n] = 0
          \/ success /\ report'[n] = task[m].request.target
      BY <1>0, <1>2 DEF SyncReply, TypeOK
    <3>3. task[m].request.target \in Nat
      BY <1>0, TaskType DEF Version
    <3>4. QED
      BY <1>0, <2>2, <3>1, <3>2, <3>3 DEF Prefix
  <2>4. QED
    BY <1>0, <2>1, <2>3 DEF Prefix
<1>3. QED
  BY <1>1, <1>2

\* The steps of a node keep the prefixes.
LEMMA NodePrefix ==
    ASSUME Inv, NEW m \in Nodes, NEW n \in Nodes,
           NodeStep(m) \/ CrashNode(m) \/ StartNode(m)
    PROVE  Prefix(n)'
<1> USE DEF hubVars
<1>0. TypeOK /\ Prefix(n) /\ Prefix(m)
  BY DEF Inv
<1>1. CASE HandleSchemaSync(m)
  <2>1. UNCHANGED <<schema, version, up, report>>
    BY <1>1 DEF HandleSchemaSync
  <2>2. CASE n # m
    BY <1>0, <1>1, <2>1, <2>2, PrefixWaits DEF HandleSchemaSync, TypeOK
  <2>3. CASE n = m
    <3>1. up[n] /\ task[n] = NoTask
      BY <1>1, <2>3 DEF HandleSchemaSync
    <3>2. task'[n].applied = version[n]
      BY <1>0, <1>1, <2>3 DEF HandleSchemaSync, TypeOK
    <3>3. QED
      BY <1>0, <2>1, <3>1, <3>2 DEF Prefix
  <2>4. QED
    BY <2>2, <2>3
<1>2. CASE MigrationApplied(m)
  <2>1. UNCHANGED <<version, up, report>>
    BY <1>2 DEF MigrationApplied
  <2>2. CASE n # m
    BY <1>0, <1>2, <2>1, <2>2, PrefixWaits DEF MigrationApplied, TypeOK
  <2>3. CASE n = m
    <3> DEFINE v == Pending(task[n])
    <3>1. /\ task[n] # NoTask /\ v = task[n].applied + 1
          /\ v \in 1..MaxVersion /\ ddl_allowed(v)
      BY <1>0, <1>2, <2>3, PendingType DEF MigrationApplied
    <3>2. task'[n] = [task[n] EXCEPT !.applied = v]
      BY <1>0, <1>2, <2>3 DEF MigrationApplied, TypeOK
    <3>3. schema'[n] = Append(schema[n], v)
      BY <1>0, <1>2, <2>3 DEF MigrationApplied, TypeOK
    <3>4. task'[n].applied = v /\ task'[n] # NoTask
      BY <1>0, <3>1, <3>2, TaskType DEF Task, NoTask
    <3> HIDE DEF v
    <3>5. schema[n] \in Seq(1..MaxVersion) /\ v = Len(schema[n]) + 1 /\ up[n]
      BY <1>0, <3>1 DEF TypeOK, Prefix
    <3>6. /\ Len(schema'[n]) = v
          /\ DOMAIN schema'[n] = 1..v
          /\ DOMAIN schema[n] = 1..Len(schema[n]) /\ Len(schema[n]) \in Nat
          /\ schema'[n][v] = v
          /\ \A i \in 1..Len(schema[n]) : schema'[n][i] = schema[n][i]
      BY <3>1, <3>3, <3>5
    <3>7. \A i \in DOMAIN schema'[n] : schema'[n][i] = i /\ ddl_allowed(i)
      <4> SUFFICES ASSUME NEW i \in DOMAIN schema'[n]
                   PROVE  schema'[n][i] = i /\ ddl_allowed(i)
        OBVIOUS
      <4>1. CASE i = v
        BY <3>1, <3>6, <4>1
      <4>2. CASE i # v
        <5>1. i \in 1..Len(schema[n])
          BY <3>5, <3>6, <4>2
        <5>2. schema[n][i] = i /\ ddl_allowed(i)
          BY <1>0, <3>6, <5>1 DEF Prefix
        <5>3. QED
          BY <3>6, <5>1, <5>2
      <4>3. QED
        BY <4>1, <4>2
    <3>8. Len(schema'[n]) >= report'[n]
      <4>1. report[n] \in Nat
        BY <1>0 DEF TypeOK, Version
      <4>2. QED
        BY <1>0, <2>1, <3>5, <3>6, <4>1 DEF Prefix
    <3>9. QED
      BY <2>1, <3>4, <3>5, <3>6, <3>7, <3>8 DEF Prefix, ddl_allowed
  <2>4. QED
    BY <2>2, <2>3
<1>3. CASE MigrationFails(m)
  <2>1. task[m] # NoTask /\ SyncReply(m, FALSE) /\ UNCHANGED <<schema, up>>
    BY <1>0, <1>3, PendingType DEF MigrationFails
  <2>2. QED
    BY <2>1, ReplyPrefix
<1>4. CASE MigrationRefused(m)
  <2>1. task[m] # NoTask /\ SyncReply(m, FALSE) /\ UNCHANGED <<schema, up>>
    BY <1>0, <1>4, PendingType DEF MigrationRefused
  <2>2. QED
    BY <2>1, ReplyPrefix
<1>5. CASE LoopEnds(m)
  <2>1. /\ task[m] # NoTask /\ SyncReply(m, TRUE) /\ UNCHANGED <<schema, up>>
        /\ Pending(task[m]) = 0
    BY <1>5 DEF LoopEnds
  <2>2. QED
    BY <2>1, ReplyPrefix
<1>6. CASE CrashNode(m)
  <2>1. UNCHANGED <<schema, report>>
    BY <1>6 DEF CrashNode
  <2>2. CASE n # m
    BY <1>0, <1>6, <2>1, <2>2, PrefixWaits DEF CrashNode, TypeOK
  <2>3. CASE n = m
    <3>1. task'[n] = NoTask /\ ~up'[n]
      BY <1>0, <1>6, <2>3 DEF CrashNode, TypeOK
    <3>2. QED
      BY <1>0, <2>1, <3>1 DEF Prefix
  <2>4. QED
    BY <2>2, <2>3
<1>7. CASE StartNode(m)
  <2>1. UNCHANGED <<schema, report, task>>
    BY <1>7 DEF StartNode
  <2>2. CASE n # m
    BY <1>0, <1>7, <2>1, <2>2, PrefixWaits DEF StartNode, TypeOK
  <2>3. CASE n = m
    <3>1. task[n] = NoTask /\ version'[n] = Len(schema[n])
      BY <1>0, <1>7, <2>3 DEF StartNode, TypeOK, Prefix
    <3>2. QED
      BY <1>0, <2>1, <3>1 DEF Prefix
  <2>4. QED
    BY <2>2, <2>3
<1>8. QED
  BY <1>1, <1>2, <1>3, <1>4, <1>5, <1>6, <1>7 DEF NodeStep

-----------------------------------------------------------------------------
(* Theorems.                                                               *)

\* The initial state satisfies the invariant.
LEMMA InvInit == Init => Inv
<1> SUFFICES ASSUME Init PROVE Inv
  OBVIOUS
<1>1. 0 \in Version /\ <<>> \in Seq(1..MaxVersion)
  BY DEF Version
<1>2. TypeOK
  BY <1>1 DEF Init, TypeOK
<1>3. ASSUME NEW n \in Nodes PROVE OneLive(n) /\ Prefix(n)
  BY DEF Init, OneLive, LiveTask, Prefix
<1>4. QED
  BY <1>2, <1>3 DEF Inv

\* Every step keeps it.
LEMMA InvStep == Inv /\ [Next]_vars => Inv'
<1> SUFFICES ASSUME Inv, [Next]_vars PROVE Inv'
  OBVIOUS
<1>0. TypeOK
  BY DEF Inv
<1>1. CASE Release \/ SyncAllSchemas \/ HubStep
  BY <1>0, <1>1, HubTypes, HubLive, HubPrefix DEF Inv
<1>2. ASSUME NEW m \in Nodes, NodeStep(m) \/ CrashNode(m) \/ StartNode(m)
      PROVE  Inv'
  BY <1>2, NodeTypes, NodeLive, NodePrefix DEF Inv
<1>3. ASSUME NEW m \in Nodes,
             \/ LoseAnnouncement(m) \/ Announced(m)
             \/ \E r \in Resources, action \in Action : Announce(m, r, action)
      PROVE  Inv'
  <2>1. UNCHANGED <<hubVars, up, nodeVars>>
    BY <1>3 DEF LoseAnnouncement, Announced, Announce
  <2>2. ASSUME NEW n \in Nodes PROVE (OneLive(n) /\ Prefix(n))'
    BY <2>1, LiveWaits, PrefixWaits DEF Inv, hubVars, nodeVars
  <2>3. QED
    BY <1>0, <1>3, <2>2, LocalityTypes DEF Inv
<1>4. CASE UNCHANGED vars
  <2>1. TypeOK'
    BY <1>0, <1>4 DEF TypeOK, vars, hubVars, nodeVars, localityVars
  <2>2. ASSUME NEW n \in Nodes PROVE (OneLive(n) /\ Prefix(n))'
    BY <1>4, LiveWaits, PrefixWaits DEF Inv, vars, hubVars, nodeVars
  <2>3. QED
    BY <2>1, <2>2 DEF Inv
<1>5. QED
  BY <1>1, <1>2, <1>3, <1>4 DEF Next

\* The invariant holds always.
LEMMA Invariant == Spec => []Inv
BY InvInit, InvStep, PTL DEF Spec

(***************************************************************************)
(* Every variable keeps its type; above all, an answer of a node always    *)
(* finds the hub in the broadcast that asked for it.                       *)
(***************************************************************************)
THEOREM TypeCorrect == Spec => []TypeOK
<1>1. Inv => TypeOK
  BY DEF Inv
<1>2. QED
  BY <1>1, Invariant, PTL

(***************************************************************************)
(* apply_schema_sync applies each migration once, in order and without a   *)
(* gap, whatever the number of nodes, overlapping broadcasts, failures and *)
(* crashes.                                                                *)
(***************************************************************************)
THEOREM AppliedInOrderCorrect == Spec => []AppliedInOrder
<1>1. Inv => AppliedInOrder
  BY DEF Inv, Prefix, AppliedInOrder
<1>2. QED
  BY <1>1, Invariant, PTL

(***************************************************************************)
(* A node that is not in the middle of apply_schema_sync reports the       *)
(* version its storage is at.                                              *)
(***************************************************************************)
THEOREM VersionIsHonestCorrect == Spec => []VersionIsHonest
<1>1. Inv => VersionIsHonest
  BY DEF Inv, Prefix, VersionIsHonest
<1>2. QED
  BY <1>1, Invariant, PTL

(***************************************************************************)
(* SyncAllSchemas reports success only for a node that has every migration *)
(* of the broadcast, and it keeps them.                                    *)
(***************************************************************************)
THEOREM SuccessMeansCurrentCorrect == Spec => []SuccessMeansCurrent
<1>1. Inv => SuccessMeansCurrent
  BY DEF Inv, Prefix, SuccessMeansCurrent
<1>2. QED
  BY <1>1, Invariant, PTL

-----------------------------------------------------------------------------
(* The locality index.                                                     *)

\* An announcement of node n about resource r is on its way to the hub.
HasNote(n, r) == \E i \in DOMAIN notes[n] : notes[n][i].resource = r

\* Position i holds the newest announcement of n about r.
Newest(n, r, i) ==
    /\ notes[n][i].resource = r
    /\ \A k \in DOMAIN notes[n] : k > i => notes[n][k].resource # r

\* The newest announcement under way says whether its node has the resource.
LastWord(n, r) ==
    \A i \in DOMAIN notes[n] : Newest(n, r, i) =>
        (notes[n][i].action = "Removed" <=> owner[r] # n)

\* The hub's entry is the last thing it was told.  A node whose announcements
\* have all arrived owns the resource if the entry names it; it is named if it
\* owns the resource, unless a Removed that came too late has erased the entry
\* or another node, which will withdraw it, still has a say.
Located(r) ==
    r \notin lost =>
        /\ \A m \in Nodes : LastWord(m, r)
        /\ \A m \in Nodes : index[r] = m /\ ~HasNote(m, r) => owner[r] = m
        /\ \A m \in Nodes :
              owner[r] = m /\ ~HasNote(m, r) /\ index[r] = Hub => r \in erased
        /\ r \in erased => index[r] = Hub

Locality ==
    /\ \A r \in Resources : Located(r)
    /\ \A n \in Nodes : Len(notes[n]) <= MaxAnnounced

\* What the hub has been told of a resource does not change when neither the
\* announcements about it nor its place change.
LEMMA LocatedWaits ==
    ASSUME UNCHANGED localityVars, NEW r \in Resources, Located(r)
    PROVE  Located(r)'
BY DEF Located, HasNote, LastWord, Newest, localityVars

\* One announcement more: it is the newest about its resource, and nothing
\* changes for the others.
LEMMA NoteAppended ==
    ASSUME TypeOK, NEW n \in Nodes, NEW a \in Announcement,
           notes' = [notes EXCEPT ![n] = Append(@, a)]
    PROVE  /\ \A m \in Nodes \ {n} : notes'[m] = notes[m]
           /\ HasNote(n, a.resource)'
           /\ \A i \in DOMAIN notes'[n] :
                 Newest(n, a.resource, i)' => notes'[n][i] = a
           /\ \A q \in Resources \ {a.resource} :
                 /\ HasNote(n, q)' <=> HasNote(n, q)
                 /\ \A i \in DOMAIN notes'[n] : Newest(n, q, i)' =>
                       i \in DOMAIN notes[n] /\ Newest(n, q, i)
                           /\ notes'[n][i] = notes[n][i]
<1> DEFINE s == notes[n]
           t == notes'[n]
           l == Len(s)
<1>1. s \in Seq(Announcement) /\ t = Append(s, a)
  BY DEF TypeOK
<1>2. \A m \in Nodes \ {n} : notes'[m] = notes[m]
  BY DEF TypeOK
<1> HIDE DEF s, t
<1>3. /\ l \in Nat /\ DOMAIN s = 1..l /\ DOMAIN t = 1..(l + 1)
      /\ t[l + 1] = a
      /\ \A i \in 1..l : t[i] = s[i]
  BY <1>1
<1> HIDE DEF l
<1>4. HasNote(n, a.resource)'
  <2>1. l + 1 \in DOMAIN t /\ t[l + 1].resource = a.resource
    BY <1>3
  <2>2. QED
    BY <2>1 DEF HasNote, t
<1>5. ASSUME NEW i \in DOMAIN t, Newest(n, a.resource, i)'
      PROVE  t[i] = a
  <2>1. \A k \in DOMAIN t : k > i => t[k].resource # a.resource
    BY <1>5 DEF Newest, t
  <2>2. i = l + 1
    BY <1>3, <2>1
  <2>3. QED
    BY <1>3, <2>2
<1>6. ASSUME NEW q \in Resources \ {a.resource}
      PROVE  HasNote(n, q)' <=> HasNote(n, q)
  <2>1. ASSUME NEW i \in DOMAIN t, t[i].resource = q
        PROVE  i \in DOMAIN s /\ s[i].resource = q
    BY <1>3, <1>6, <2>1
  <2>2. ASSUME NEW i \in DOMAIN s, s[i].resource = q
        PROVE  i \in DOMAIN t /\ t[i].resource = q
    BY <1>3, <2>2
  <2>3. QED
    BY <2>1, <2>2 DEF HasNote, s, t
<1>7. ASSUME NEW q \in Resources \ {a.resource}, NEW i \in DOMAIN t,
             Newest(n, q, i)'
      PROVE  i \in DOMAIN s /\ Newest(n, q, i) /\ t[i] = s[i]
  <2>1. t[i].resource = q /\ \A k \in DOMAIN t : k > i => t[k].resource # q
    BY <1>7 DEF Newest, t
  <2>2. i \in 1..l /\ t[i] = s[i]
    BY <1>3, <1>7, <2>1
  <2>3. \A k \in DOMAIN s : k > i => s[k].resource # q
    BY <1>3, <2>1
  <2>4. QED
    BY <1>3, <2>1, <2>2, <2>3 DEF Newest, s
<1>8. QED
  BY <1>2, <1>4, <1>5, <1>6, <1>7 DEF s, t

\* One announcement less: the newest ones stay the newest, and when it was the
\* only one about its resource it was the newest.
LEMMA NoteTaken ==
    ASSUME TypeOK, NEW n \in Nodes, notes[n] # <<>>,
           NEW r, r = Head(notes[n]).resource,
           notes' = [notes EXCEPT ![n] = Tail(@)]
    PROVE  /\ \A m \in Nodes \ {n} : notes'[m] = notes[m]
           /\ Head(notes[n]) \in Announcement
           /\ r \in Resources /\ HasNote(n, r)
           /\ HasNote(n, r)' \/
                 /\ 1 \in DOMAIN notes[n] /\ notes[n][1] = Head(notes[n])
                 /\ Newest(n, r, 1)
           /\ \A q \in Resources : HasNote(n, q)' => HasNote(n, q)
           /\ \A q \in Resources \ {r} :
                 HasNote(n, q)' <=> HasNote(n, q)
           /\ \A q \in Resources, i \in DOMAIN notes'[n] : Newest(n, q, i)' =>
                 /\ i + 1 \in DOMAIN notes[n] /\ Newest(n, q, i + 1)
                 /\ notes'[n][i] = notes[n][i + 1]
<1> DEFINE s == notes[n]
           t == notes'[n]
           l == Len(s)
           a == Head(s)
<1>1. s \in Seq(Announcement) /\ s # <<>> /\ t = Tail(s)
  BY DEF TypeOK
<1>2. \A m \in Nodes \ {n} : notes'[m] = notes[m]
  BY DEF TypeOK
<1> HIDE DEF s, t
<1>3. /\ l \in Nat /\ l > 0 /\ DOMAIN s = 1..l /\ DOMAIN t = 1..(l - 1)
      /\ a = s[1] /\ a \in Announcement
      /\ \A i \in 1..(l - 1) : t[i] = s[i + 1]
  BY <1>1
<1>3a. a.resource = r /\ r \in Resources
  BY <1>3 DEF a, s, Announcement
<1> HIDE DEF l, a
<1>4. HasNote(n, r)
  BY <1>3, <1>3a DEF HasNote, s
<1>5. ASSUME NEW q, NEW i \in DOMAIN s, i # 1, s[i].resource = q
      PROVE  HasNote(n, q)'
  <2>1. i - 1 \in DOMAIN t /\ t[i - 1] = s[i]
    BY <1>3, <1>5
  <2>2. QED
    BY <1>5, <2>1 DEF HasNote, t
<1>6. ASSUME ~HasNote(n, r)'
      PROVE  1 \in DOMAIN s /\ s[1] = a /\ Newest(n, r, 1)
  <2>1. ASSUME NEW k \in DOMAIN s, k > 1 PROVE s[k].resource # r
    <3>1. k # 1
      BY <1>3, <2>1
    <3>2. QED
      BY <1>5, <1>6, <3>1
  <2>2. QED
    BY <1>3, <1>3a, <2>1 DEF Newest, s
<1>7. ASSUME NEW q \in Resources, HasNote(n, q)' PROVE HasNote(n, q)
  <2>1. PICK i \in DOMAIN t : t[i].resource = q
    BY <1>7 DEF HasNote, t
  <2>2. i + 1 \in DOMAIN s /\ s[i + 1].resource = q
    BY <1>3, <2>1
  <2>3. QED
    BY <2>2 DEF HasNote, s
<1>8. ASSUME NEW q \in Resources \ {r}, HasNote(n, q)
      PROVE  HasNote(n, q)'
  <2>1. PICK i \in DOMAIN s : s[i].resource = q
    BY <1>8 DEF HasNote, s
  <2>2. i # 1
    BY <1>3, <1>3a, <2>1
  <2>3. QED
    BY <1>5, <2>1, <2>2
<1>9. ASSUME NEW q \in Resources, NEW i \in DOMAIN t, Newest(n, q, i)'
      PROVE  i + 1 \in DOMAIN s /\ Newest(n, q, i + 1) /\ t[i] = s[i + 1]
  <2>1. t[i].resource = q /\ \A k \in DOMAIN t : k > i => t[k].resource # q
    BY <1>9 DEF Newest, t
  <2>2. i \in 1..(l - 1) /\ i + 1 \in DOMAIN s /\ t[i] = s[i + 1]
    BY <1>3
  <2>3. ASSUME NEW k \in DOMAIN s, k > i + 1 PROVE s[k].resource # q
    <3>1. k - 1 \in DOMAIN t /\ k - 1 > i /\ t[k - 1] = s[k]
      BY <1>3, <2>2, <2>3
    <3>2. QED
      BY <2>1, <3>1
  <2>4. QED
    BY <2>1, <2>2, <2>3 DEF Newest, s
<1>10. QED
  BY <1>2, <1>3, <1>3a, <1>4, <1>6, <1>7, <1>8, <1>9 DEF s, t, a

\* A node that announces a resource has it, or gets it from the hub: whoever
\* else has spoken of it has given it up.
LEMMA LocatedAnnounce ==
    ASSUME TypeOK, NEW n \in Nodes, NEW r \in Resources, NEW action \in Action,
           Announce(n, r, action), NEW q \in Resources, Located(q)
    PROVE  Located(q)'
<1> DEFINE a == [resource |-> r, action |-> action]
<1>1. /\ a \in Announcement /\ a.resource = r /\ a.action = action
      /\ notes' = [notes EXCEPT ![n] = Append(@, a)]
      /\ index' = index /\ lost' = lost /\ erased' = erased
      /\ owner[r] \in {n, Hub}
      /\ owner' = [owner EXCEPT ![r] = IF action = "Removed" THEN Hub ELSE n]
  BY DEF Announce, Announcement
<1> HIDE DEF a
<1>2. /\ \A m \in Nodes \ {n} : notes'[m] = notes[m]
      /\ HasNote(n, r)'
      /\ \A i \in DOMAIN notes'[n] : Newest(n, r, i)' => notes'[n][i] = a
      /\ \A p \in Resources \ {r} :
            /\ HasNote(n, p)' <=> HasNote(n, p)
            /\ \A i \in DOMAIN notes'[n] : Newest(n, p, i)' =>
                  i \in DOMAIN notes[n] /\ Newest(n, p, i)
                      /\ notes'[n][i] = notes[n][i]
  BY <1>1, NoteAppended
<1>3. \A m \in Nodes \ {n} : /\ HasNote(m, q)' <=> HasNote(m, q)
                             /\ \A i : Newest(m, q, i)' <=> Newest(m, q, i)
  BY <1>2 DEF HasNote, Newest
<1> SUFFICES ASSUME q \notin lost' PROVE Located(q)'
  BY DEF Located
<1>4. /\ \A m \in Nodes : LastWord(m, q)
      /\ \A m \in Nodes : index[q] = m /\ ~HasNote(m, q) => owner[q] = m
      /\ \A m \in Nodes :
            owner[q] = m /\ ~HasNote(m, q) /\ index[q] = Hub => q \in erased
      /\ q \in erased => index[q] = Hub
  BY <1>1 DEF Located
<1>5. CASE q # r
  <2>1. index'[q] = index[q] /\ owner'[q] = owner[q]
    BY <1>1, <1>5 DEF TypeOK
  <2>2. \A m \in Nodes : HasNote(m, q)' <=> HasNote(m, q)
    BY <1>2, <1>3, <1>5
  <2>3. \A m \in Nodes : LastWord(m, q)'
    BY <1>2, <1>3, <1>4, <1>5, <2>1 DEF LastWord
  <2>4. QED
    BY <1>1, <1>4, <2>1, <2>2, <2>3 DEF Located
<1>6. CASE q = r
  <2>1. /\ owner'[r] = IF action = "Removed" THEN Hub ELSE n
        /\ n # Hub
    BY <1>1, SyncAssumptions DEF TypeOK
  <2>2. LastWord(n, r)'
    BY <1>1, <1>2, <2>1 DEF LastWord
  <2>3. ASSUME NEW m \in Nodes \ {n} PROVE LastWord(m, r)'
    <3>1. owner[r] # m /\ owner'[r] # m
      BY <1>1, <2>1, SyncAssumptions
    <3>2. \A i \in DOMAIN notes[m] : Newest(m, r, i) => notes[m][i].action = "Removed"
      BY <1>4, <1>6, <3>1 DEF LastWord
    <3>3. QED
      BY <1>2, <1>3, <1>6, <3>1, <3>2 DEF LastWord
  <2>4. ASSUME NEW m \in Nodes, index'[r] = m, ~HasNote(m, r)'
        PROVE  owner'[r] = m
    <3>1. m # n /\ ~HasNote(m, r) /\ index[r] = m
      BY <1>1, <1>2, <1>3, <1>6, <2>4
    <3>2. owner[r] = m
      BY <1>4, <1>6, <3>1
    <3>3. QED
      BY <1>1, <3>1, <3>2, SyncAssumptions
  <2>5. ASSUME NEW m \in Nodes, owner'[r] = m, ~HasNote(m, r)' PROVE FALSE
    BY <1>2, <2>1, <2>5, SyncAssumptions
  <2>6. QED
    BY <1>1, <1>4, <1>6, <2>2, <2>3, <2>4, <2>5 DEF Located
<1>7. QED
  BY <1>5, <1>6

\* The hub follows the announcement it takes, which is the last word of its
\* node unless that has sent another about the same resource.
LEMMA LocatedAnnounced ==
    ASSUME TypeOK, NEW n \in Nodes, Announced(n) \/ LoseAnnouncement(n),
           NEW q \in Resources, Located(q)
    PROVE  Located(q)'
<1> DEFINE a == Head(notes[n])
<1>0. notes[n] # <<>> /\ notes' = [notes EXCEPT ![n] = Tail(@)]
      /\ owner' = owner
  BY DEF Announced, LoseAnnouncement
<1>1. /\ \A m \in Nodes \ {n} : notes'[m] = notes[m]
      /\ HasNote(n, q)' => HasNote(n, q)
      /\ q # a.resource => (HasNote(n, q)' <=> HasNote(n, q))
      /\ q = a.resource => HasNote(n, q)
      /\ q = a.resource /\ ~HasNote(n, q)' =>
            /\ 1 \in DOMAIN notes[n] /\ notes[n][1] = a
            /\ Newest(n, q, 1)
      /\ \A i \in DOMAIN notes'[n] : Newest(n, q, i)' =>
            /\ i + 1 \in DOMAIN notes[n] /\ Newest(n, q, i + 1)
            /\ notes'[n][i] = notes[n][i + 1]
  <2>1. PICK r : r = a.resource
    OBVIOUS
  <2>2. QED
    BY <1>0, <2>1, NoteTaken
<1>2. \A m \in Nodes \ {n} : /\ HasNote(m, q)' <=> HasNote(m, q)
                             /\ \A i : Newest(m, q, i)' <=> Newest(m, q, i)
  BY <1>1 DEF HasNote, Newest
<1> SUFFICES ASSUME q \notin lost' PROVE Located(q)'
  BY DEF Located
<1>3. q \notin lost
  BY DEF Announced, LoseAnnouncement
<1>3a. /\ \A m \in Nodes : LastWord(m, q)
       /\ \A m \in Nodes : index[q] = m /\ ~HasNote(m, q) => owner[q] = m
       /\ \A m \in Nodes :
             owner[q] = m /\ ~HasNote(m, q) /\ index[q] = Hub => q \in erased
       /\ q \in erased => index[q] = Hub
  BY <1>3 DEF Located
<1>4. \A m \in Nodes : LastWord(m, q)'
  BY <1>0, <1>1, <1>2, <1>3a DEF LastWord
<1>5. CASE q # a.resource
  <2>1. index'[q] = index[q] /\ (q \in erased' <=> q \in erased)
    BY <1>5 DEF Announced, LoseAnnouncement, Erased, TypeOK
  <2>2. \A m \in Nodes : HasNote(m, q)' <=> HasNote(m, q)
    BY <1>1, <1>2, <1>5
  <2>3. QED
    BY <1>0, <1>3a, <1>4, <2>1, <2>2 DEF Located
<1>6. CASE q = a.resource
  <2>1. Announced(n)
    BY <1>6 DEF LoseAnnouncement
  <2>2. /\ index'[q] = IF a.action = "Removed" THEN Hub ELSE n
        /\ q \in erased' <=> a.action = "Removed" /\ owner[q] \notin {n, Hub}
    BY <1>6, <2>1 DEF Announced, Erased, TypeOK
  <2>3. ~HasNote(n, q)' => (a.action = "Removed" <=> owner[q] # n)
    BY <1>1, <1>3a, <1>6 DEF LastWord
  <2> HIDE DEF a
  <2>4. ASSUME NEW m \in Nodes, index'[q] = m, ~HasNote(m, q)'
        PROVE  owner'[q] = m
    BY <1>0, <2>2, <2>3, <2>4, SyncAssumptions
  <2>5. ASSUME NEW m \in Nodes, owner'[q] = m, ~HasNote(m, q)', index'[q] = Hub
        PROVE  q \in erased'
    BY <1>0, <2>2, <2>3, <2>5, SyncAssumptions
  <2>6. q \in erased' => index'[q] = Hub
    BY <2>2
  <2>7. QED
    BY <1>4, <2>4, <2>5, <2>6 DEF Located
<1>7. QED
  BY <1>5, <1>6

\* Every step keeps the announcements in order.
LEMMA LocalityStep == TypeOK /\ Locality /\ [Next]_vars => Locality'
<1> SUFFICES ASSUME TypeOK, Locality, [Next]_vars PROVE Locality'
  OBVIOUS
<1>1. CASE UNCHANGED localityVars
  <2>1. UNCHANGED notes
    BY <1>1 DEF localityVars
  <2>2. QED
    BY <1>1, <2>1, LocatedWaits DEF Locality
<1>2. ASSUME NEW n \in Nodes, Announced(n) \/ LoseAnnouncement(n)
      PROVE  Locality'
  <2>1. \A q \in Resources : Located(q)'
    BY <1>2, LocatedAnnounced DEF Locality
  <2>2. notes[n] \in Seq(Announcement) /\ notes[n] # <<>>
    BY <1>2 DEF Announced, LoseAnnouncement, TypeOK
  <2>3. Len(Tail(notes[n])) = Len(notes[n]) - 1 /\ Len(notes[n]) \in Nat
    BY <2>2
  <2>4. \A m \in Nodes : notes'[m] = IF m = n THEN Tail(notes[n]) ELSE notes[m]
    BY <1>2 DEF Announced, LoseAnnouncement, TypeOK
  <2>5. ASSUME NEW m \in Nodes PROVE Len(notes'[m]) <= MaxAnnounced
    <3>1. Len(notes[m]) <= MaxAnnounced
      BY DEF Locality
    <3>2. CASE m = n
      <4>1. notes'[m] = Tail(notes[n])
        BY <2>4, <3>2
      <4>2. Len(notes'[m]) = Len(notes[n]) - 1 /\ Len(notes[n]) <= MaxAnnounced
        BY <2>3, <3>1, <3>2, <4>1
      <4>3. QED
        BY <2>3, <4>2
    <3>3. CASE m # n
      BY <2>4, <3>1, <3>3
    <3>4. QED
      BY <3>2, <3>3
  <2>6. QED
    BY <2>1, <2>5 DEF Locality
<1>3. ASSUME NEW n \in Nodes, NEW r \in Resources, NEW action \in Action,
             Announce(n, r, action)
      PROVE  Locality'
  <2> DEFINE a == [resource |-> r, action |-> action]
  <2>1. \A q \in Resources : Located(q)'
    BY <1>3, LocatedAnnounce DEF Locality
  <2>2. /\ notes[n] \in Seq(Announcement) /\ a \in Announcement
        /\ Len(notes[n]) < MaxAnnounced
    BY <1>3 DEF Announce, TypeOK, Announcement
  <2>3. \A m \in Nodes : notes'[m] = IF m = n THEN Append(notes[n], a) ELSE notes[m]
    BY <1>3 DEF Announce, TypeOK
  <2> HIDE DEF a
  <2>4. Len(Append(notes[n], a)) = Len(notes[n]) + 1 /\ Len(notes[n]) \in Nat
    BY <2>2
  <2>5. ASSUME NEW m \in Nodes PROVE Len(notes'[m]) <= MaxAnnounced
    <3>1. Len(notes[m]) <= MaxAnnounced
      BY DEF Locality
    <3>2. CASE m = n
      <4>1. notes'[m] = Append(notes[n], a)
        BY <2>3, <3>2
      <4>2. Len(notes'[m]) = Len(notes[n]) + 1
        BY <2>4, <4>1
      <4>3. QED
        BY <2>2, <2>4, <4>2
    <3>3. CASE m # n
      BY <2>3, <3>1, <3>3
    <3>4. QED
      BY <3>2, <3>3
  <2>6. QED
    BY <2>1, <2>5 DEF Locality
<1>4. CASE Release \/ SyncAllSchemas \/ HubStep \/ UNCHANGED vars
  <2>1. UNCHANGED localityVars
    BY <1>4 DEF Release, SyncAllSchemas, HubStep, AskFails, BroadcastEnds,
                AskNode, vars
  <2>2. QED
    BY <1>1, <2>1
<1>5. ASSUME NEW n \in Nodes, NodeStep(n) \/ CrashNode(n) \/ StartNode(n)
      PROVE  Locality'
  <2>1. UNCHANGED localityVars
    BY <1>5 DEF NodeStep, HandleSchemaSync, MigrationApplied, MigrationFails,
                MigrationRefused, LoopEnds, CrashNode, StartNode
  <2>2. QED
    BY <1>1, <2>1
<1>6. QED
  BY <1>2, <1>3, <1>4, <1>5 DEF Next

(***************************************************************************)
(* Queries are routed to where a resource lives once its announcements     *)
(* have arrived, or to the hub when a Removed of an old owner came last,   *)
(* for any nodes, resources and number of announcements.                   *)
(***************************************************************************)
THEOREM IndexSettlesCorrect == Spec => []IndexSettles
<1>1. Init => Locality
  <2> SUFFICES ASSUME Init PROVE Locality
    OBVIOUS
  <2>1. \A n \in Nodes : notes[n] = <<>>
    BY DEF Init
  <2>2. \A n \in Nodes, r \in Resources : ~HasNote(n, r) /\ LastWord(n, r)
    BY <2>1 DEF HasNote, LastWord
  <2>3. \A r \in Resources : index[r] = Hub /\ owner[r] = Hub
    BY DEF Init
  <2>4. \A n \in Nodes : Len(notes[n]) <= MaxAnnounced
    BY <2>1
  <2>5. QED
    BY <2>2, <2>3, <2>4, SyncAssumptions DEF Locality, Located
<1>2. TypeOK /\ Locality => IndexSettles
  <2> SUFFICES ASSUME TypeOK, Locality, NEW r \in Resources, r \notin lost,
                      \A n \in Nodes, i \in 1..MaxAnnounced :
                          i \in DOMAIN notes[n] => notes[n][i].resource # r
               PROVE  r \in resolve_locality(Resources)
                               [IF r \in erased THEN Hub ELSE owner[r]]
    BY DEF IndexSettles
  <2>1. \A n \in Nodes : ~HasNote(n, r)
    <3> SUFFICES ASSUME NEW n \in Nodes, NEW i \in DOMAIN notes[n]
                 PROVE  notes[n][i].resource # r
      BY DEF HasNote
    <3>1. /\ notes[n] \in Seq(Announcement)
          /\ Len(notes[n]) <= MaxAnnounced
      BY DEF TypeOK, Locality
    <3>2. i \in 1..MaxAnnounced
      BY <3>1
    <3>3. QED
      BY <3>2
  <2>2. Located(r)
    BY DEF Locality
  <2>3. index[r] = IF r \in erased THEN Hub ELSE owner[r]
    <3>1. index[r] \in Nodes \cup {Hub} /\ owner[r] \in Nodes \cup {Hub}
      BY DEF TypeOK
    <3>2. CASE index[r] \in Nodes
      BY <2>1, <2>2, <3>2, SyncAssumptions DEF Located
    <3>3. CASE index[r] = Hub
      BY <2>1, <2>2, <3>1, <3>3 DEF Located
    <3>4. QED
      BY <3>1, <3>2, <3>3
  <2>4. QED
    BY <2>3 DEF resolve_locality, TypeOK
<1>3. QED
  BY <1>1, <1>2, LocalityStep, TypeCorrect, PTL DEF Spec
=============================================================================
