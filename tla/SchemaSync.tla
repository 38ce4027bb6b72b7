----------------------------- MODULE SchemaSync -----------------------------
(***************************************************************************)
(* What the hub of crates/queryfabric-federation tells its nodes and what  *)
(* they tell it: SyncAllSchemas broadcasts the migrations of the hub's     *)
(* host, one registered node after the other; a node applies the ones it   *)
(* has not applied; nodes announce the resources they gain and lose, which *)
(* fills the locality index that routing reads.  The hub and each node are *)
(* actors, which handle one message at a time.  Nodes crash between two    *)
(* migrations and come back, migrations fail or are refused, requests and  *)
(* announcements get lost, and the hub gives up on an answer that is still *)
(* being worked on.                                                        *)
(*                                                                         *)
(* Migrations are numbered by version.  What a node has applied is durable *)
(* and kept as a sequence.  A node starts at the schema_version its host   *)
(* passes in ClusterNodeArgs; that this is the version of the node's       *)
(* storage is an assumption on the host, which nothing here enforces.  All *)
(* nodes are registered: ClusterHealth is about registration.              *)
(***************************************************************************)
EXTENDS Naturals, Sequences, FiniteSets

CONSTANTS
    Nodes,
    Resources,
    MaxVersion,     \* bound on the hub's schema version
    IsDdl,          \* which migrations are CREATE or ALTER
    Hub,            \* where resources live that no node has announced
    MaxInbox,       \* bound on the requests waiting at a node
    MaxAnnounced,   \* bound on the announcements of a node under way
    Budgets         \* how many events of each kind a behaviour may contain

\* Crashes of nodes, migrations the node's storage fails to apply, messages
\* that get lost (requests the transport reports as failed, announcements),
\* resources that come to a node or leave it.
Events == {"crash", "fault", "lost", "move"}

ASSUME SyncAssumptions ==
    /\ MaxVersion \in Nat
    /\ MaxInbox \in Nat \ {0}
    /\ MaxAnnounced \in Nat \ {0}
    /\ IsDdl \in [1..MaxVersion -> BOOLEAN]
    /\ Hub \notin Nodes
    /\ Budgets \subseteq [Events -> Nat]

VARIABLES
    released,   \* the hub host's schema_version, and its migrations 1..released
    hub,        \* the broadcast under way
    report,     \* the version the last broadcast reported success for; 0 if none
    up,         \* which nodes are running
    schema,     \* the migrations in each node's storage, in order
    version,    \* ClusterNodeActor::schema_version
    inbox,      \* the SchemaSync requests waiting at each node
    task,       \* the SchemaSync each node is handling
    owner,      \* where each resource really lives
    notes,      \* announcements on their way to the hub, in order per node
    index,      \* the hub's ResourceLocalityIndex
    lost,       \* history: resources of which an announcement was lost
    erased,     \* history: resources about which the last announcement to
                \* arrive was the Removed of a node they have left for another
    budget

hubVars == <<released, hub, report>>
nodeVars == <<schema, version, inbox, task>>
localityVars == <<owner, notes, index, lost, erased>>
vars == <<hubVars, up, nodeVars, localityVars, budget>>

-----------------------------------------------------------------------------
(* Types.                                                                  *)

Version == 0..MaxVersion

\* A broadcast has taken the handles and the migrations of its beginning.
\* While it waits for the answer of a node, "asked" is that node.
NoBroadcast == [pc |-> "idle"]
Broadcast == [pc : {"send", "ask"}, todo : SUBSET Nodes, asked : Nodes \cup {Hub},
              target : Version]

\* A request nobody waits for any more is not "live".
Request == [target : Version, live : BOOLEAN]

\* The loop of apply_schema_sync: the version it has reached and will store.
NoTask == [request |-> "none"]
Task == [request : Request, applied : Version]

Action == {"Added", "Updated", "Removed"}
Announcement == [resource : Resources, action : Action]

TypeOK ==
    /\ released \in Version
    /\ hub \in Broadcast \cup {NoBroadcast}
    /\ report \in [Nodes -> Version]
    /\ up \in [Nodes -> BOOLEAN]
    /\ schema \in [Nodes -> Seq(1..MaxVersion)]
    /\ version \in [Nodes -> Version]
    /\ inbox \in [Nodes -> Seq(Request)]
    /\ task \in [Nodes -> Task \cup {NoTask}]
    /\ owner \in [Resources -> Nodes \cup {Hub}]
    /\ notes \in [Nodes -> Seq(Announcement)]
    /\ index \in [Resources -> Nodes \cup {Hub}]
    /\ lost \subseteq Resources /\ erased \subseteq Resources
    /\ budget \in [Events -> Nat]

-----------------------------------------------------------------------------
(* Helpers.                                                                *)

Spend(event) == /\ budget[event] > 0
                /\ budget' = [budget EXCEPT ![event] = @ - 1]

\* The body of a migration may be executed on a node.
ddl_allowed(v) == IsDdl[v]

\* The migration apply_schema_sync is at: the first one above the version it
\* has reached; 0 when none is left.
Pending(t) == IF t # NoTask /\ t.applied < t.request.target THEN t.applied + 1 ELSE 0

\* What an announcement of n makes of the history: was it a Removed that came
\* too late?
Erased(n, a) ==
    IF a.action = "Removed" /\ owner[a.resource] \notin {n, Hub}
    THEN erased \cup {a.resource} ELSE erased \ {a.resource}

Abandon(requests) == [i \in DOMAIN requests |-> [requests[i] EXCEPT !.live = FALSE]]

-----------------------------------------------------------------------------
(* Faulty variants of definitions below.                                   *)

\* version.store and the answer, which nobody reads if the hub has given up.
\* An answer with success confirms every migration of the request.
SyncReply(n, success) ==
    /\ version' = [version EXCEPT ![n] = task[n].applied]
    /\ task' = [task EXCEPT ![n] = NoTask]
    /\ IF task[n].request.live
       THEN /\ report' = [report EXCEPT ![n] =
                            IF success THEN task[n].request.target ELSE 0]
            /\ hub' = [hub EXCEPT !.pc = "send", !.asked = Hub]
       ELSE UNCHANGED <<report, hub>>

\* A migration that fails is skipped instead of ending the sync.
MigrationFails_Skips(n) ==
    /\ Pending(task[n]) # 0 /\ ddl_allowed(Pending(task[n]))
    /\ Spend("fault")
    /\ task' = [task EXCEPT ![n].applied = Pending(task[n])]
    /\ UNCHANGED <<hubVars, up, schema, version, inbox, localityVars>>

\* A refused migration is not reported as an error.
MigrationRefused_Silent(n) ==
    /\ Pending(task[n]) # 0 /\ ~ddl_allowed(Pending(task[n]))
    /\ SyncReply(n, TRUE)
    /\ UNCHANGED <<released, up, schema, inbox, localityVars, budget>>

\* The version of a sync is stored only when all of it succeeded.
MigrationRefused_Reverts(n) ==
    /\ Pending(task[n]) # 0 /\ ~ddl_allowed(Pending(task[n]))
    /\ task' = [task EXCEPT ![n] = NoTask]
    /\ IF task[n].request.live
       THEN /\ report' = [report EXCEPT ![n] = 0]
            /\ hub' = [hub EXCEPT !.pc = "send", !.asked = Hub]
       ELSE UNCHANGED <<report, hub>>
    /\ UNCHANGED <<released, up, schema, version, inbox, localityVars, budget>>

\* The hub waits for the answer of a node that has gone.
AskFails_OnlyErrors ==
    LET n == hub.asked IN
    /\ hub.pc = "ask" /\ Spend("lost")
    /\ report' = [report EXCEPT ![n] = 0]
    /\ hub' = [hub EXCEPT !.pc = "send", !.asked = Hub]
    /\ inbox' = [inbox EXCEPT ![n] = Abandon(@)]
    /\ task' = [task EXCEPT ![n] = IF @ = NoTask THEN @
                                   ELSE [@ EXCEPT !.request.live = FALSE]]
    /\ UNCHANGED <<released, up, schema, version, localityVars>>

\* The entry of a removed resource stays.
Announced_KeepsEntry(n) ==
    /\ hub.pc = "idle" /\ notes[n] # <<>>
    /\ LET a == Head(notes[n]) IN
       /\ index' = [index EXCEPT ![a.resource] =
                       IF a.action = "Removed" THEN @ ELSE n]
       /\ erased' = Erased(n, a)
    /\ notes' = [notes EXCEPT ![n] = Tail(@)]
    /\ UNCHANGED <<hubVars, up, nodeVars, owner, lost, budget>>

-----------------------------------------------------------------------------
(* The hub.                                                                *)

\* The hub's host gets a new migration.
Release ==
    /\ released < MaxVersion
    /\ released' = released + 1
    /\ UNCHANGED <<hub, report, up, nodeVars, localityVars, budget>>

\* SyncAllSchemas: the handles and migrations of this moment.
SyncAllSchemas ==
    /\ hub.pc = "idle"
    /\ hub' = [pc |-> "send", todo |-> Nodes, asked |-> Hub, target |-> released]
    /\ UNCHANGED <<released, report, up, nodeVars, localityVars, budget>>

\* transport.schema_sync asks the next node, in the order of the map.
AskNode(n) ==
    /\ hub.pc = "send" /\ n \in hub.todo /\ Len(inbox[n]) < MaxInbox
    /\ hub' = [hub EXCEPT !.pc = "ask", !.todo = @ \ {n}, !.asked = n]
    /\ inbox' = IF up[n]
                THEN [inbox EXCEPT ![n] = Append(@, [target |-> hub.target,
                                                     live |-> TRUE])]
                ELSE inbox
    /\ UNCHANGED <<released, report, up, schema, version, task,
                   localityVars, budget>>

\* The transport reports an error: the node is not there any more, or the
\* request fails on the way although the node may go on with it.
AskFails ==
    LET n == hub.asked IN
    /\ hub.pc = "ask"
    /\ \/ /\ Spend("lost")
       \/ /\ ~ \E i \in DOMAIN inbox[n] : inbox[n][i].live
          /\ ~ (task[n] # NoTask /\ task[n].request.live)
          /\ UNCHANGED budget
    /\ report' = [report EXCEPT ![n] = 0]
    /\ hub' = [hub EXCEPT !.pc = "send", !.asked = Hub]
    /\ inbox' = [inbox EXCEPT ![n] = Abandon(@)]
    /\ task' = [task EXCEPT ![n] = IF @ = NoTask THEN @
                                   ELSE [@ EXCEPT !.request.live = FALSE]]
    /\ UNCHANGED <<released, up, schema, version, localityVars>>

BroadcastEnds ==
    /\ hub.pc = "send" /\ hub.todo = {}
    /\ hub' = NoBroadcast
    /\ UNCHANGED <<released, report, up, nodeVars, localityVars, budget>>

-----------------------------------------------------------------------------
(* A node: apply_schema_sync, cut at each migration.                       *)

HandleSchemaSync(n) ==
    /\ up[n] /\ task[n] = NoTask /\ inbox[n] # <<>>
    /\ inbox' = [inbox EXCEPT ![n] = Tail(@)]
    /\ task' = [task EXCEPT ![n] = [request |-> Head(inbox[n]), applied |-> version[n]]]
    /\ UNCHANGED <<hubVars, up, schema, version, localityVars, budget>>

\* host.apply_ddl succeeds.
MigrationApplied(n) ==
    LET v == Pending(task[n]) IN
    /\ v # 0 /\ ddl_allowed(v)
    /\ schema' = [schema EXCEPT ![n] = Append(@, v)]
    /\ task' = [task EXCEPT ![n].applied = v]
    /\ UNCHANGED <<hubVars, up, version, inbox, localityVars, budget>>

\* host.apply_ddl fails: the loop is left and the error reported.
MigrationFails(n) ==
    /\ Pending(task[n]) # 0 /\ ddl_allowed(Pending(task[n]))
    /\ Spend("fault")
    /\ SyncReply(n, FALSE)
    /\ UNCHANGED <<released, up, schema, inbox, localityVars>>

\* A migration that is not DDL is refused, in the same way.
MigrationRefused(n) ==
    /\ Pending(task[n]) # 0 /\ ~ddl_allowed(Pending(task[n]))
    /\ SyncReply(n, FALSE)
    /\ UNCHANGED <<released, up, schema, inbox, localityVars, budget>>

LoopEnds(n) ==
    /\ task[n] # NoTask /\ Pending(task[n]) = 0
    /\ SyncReply(n, TRUE)
    /\ UNCHANGED <<released, up, schema, inbox, localityVars, budget>>

\* A crash forgets the version and the requests of the node; its storage and
\* its resources stay, and announcements it has sent are still under way.
CrashNode(n) ==
    /\ up[n] /\ Spend("crash")
    /\ up' = [up EXCEPT ![n] = FALSE]
    /\ version' = [version EXCEPT ![n] = 0]
    /\ inbox' = [inbox EXCEPT ![n] = <<>>]
    /\ task' = [task EXCEPT ![n] = NoTask]
    /\ UNCHANGED <<hubVars, schema, localityVars>>

\* The host starts the node at the version it finds in the storage.
StartNode(n) ==
    /\ ~up[n]
    /\ up' = [up EXCEPT ![n] = TRUE]
    /\ version' = [version EXCEPT ![n] = Len(schema[n])]
    /\ UNCHANGED <<hubVars, schema, inbox, task, localityVars, budget>>

-----------------------------------------------------------------------------
(* Locality.                                                               *)

\* The host of a node gains a resource or loses it, and tells the hub.
Announce(n, r, action) ==
    /\ up[n] /\ Len(notes[n]) < MaxAnnounced /\ Spend("move")
    /\ owner[r] = IF action = "Added" THEN Hub ELSE n
    /\ owner' = [owner EXCEPT ![r] = IF action = "Removed" THEN Hub ELSE n]
    /\ notes' = [notes EXCEPT ![n] = Append(@, [resource |-> r, action |-> action])]
    /\ UNCHANGED <<hubVars, up, nodeVars, index, lost, erased>>

\* The fire-and-forget message is lost.
LoseAnnouncement(n) ==
    /\ notes[n] # <<>> /\ Spend("lost")
    /\ lost' = lost \cup {Head(notes[n]).resource}
    /\ notes' = [notes EXCEPT ![n] = Tail(@)]
    /\ UNCHANGED <<hubVars, up, nodeVars, owner, index, erased>>

\* The hub updates its index, whoever the entry belongs to, and then its host.
Announced(n) ==
    /\ hub.pc = "idle" /\ notes[n] # <<>>
    /\ LET a == Head(notes[n]) IN
       /\ index' = [index EXCEPT ![a.resource] =
                       IF a.action = "Removed" THEN Hub ELSE n]
       /\ erased' = Erased(n, a)
    /\ notes' = [notes EXCEPT ![n] = Tail(@)]
    /\ UNCHANGED <<hubVars, up, nodeVars, owner, lost, budget>>

\* resolve_locality: the groups a query over the resources rs is split into.
\* Resources without an entry are taken for the hub's own.
resolve_locality(rs) ==
    [n \in Nodes \cup {Hub} |-> {r \in rs : index[r] = n}]

-----------------------------------------------------------------------------
Init ==
    /\ released = 0 /\ hub = NoBroadcast
    /\ report = [n \in Nodes |-> 0]
    /\ up = [n \in Nodes |-> TRUE]
    /\ schema = [n \in Nodes |-> <<>>]
    /\ version = [n \in Nodes |-> 0]
    /\ inbox = [n \in Nodes |-> <<>>]
    /\ task = [n \in Nodes |-> NoTask]
    /\ owner = [r \in Resources |-> Hub]
    /\ notes = [n \in Nodes |-> <<>>]
    /\ index = [r \in Resources |-> Hub]
    /\ lost = {} /\ erased = {}
    /\ budget \in Budgets

HubStep ==
    \/ AskFails \/ BroadcastEnds
    \/ \E n \in Nodes : AskNode(n)

NodeStep(n) ==
    \/ HandleSchemaSync(n) \/ MigrationApplied(n) \/ MigrationFails(n)
    \/ MigrationRefused(n) \/ LoopEnds(n)

Next ==
    \/ Release \/ SyncAllSchemas \/ HubStep
    \/ \E n \in Nodes :
          \/ NodeStep(n) \/ CrashNode(n) \/ StartNode(n)
          \/ LoseAnnouncement(n) \/ Announced(n)
          \/ \E r \in Resources, action \in Action : Announce(n, r, action)

Spec == Init /\ [][Next]_vars

\* The actors handle their messages and the admin keeps asking for
\* broadcasts; nobody has to release, or start a node again.
FairSpec ==
    /\ Spec
    /\ WF_vars(HubStep)
    /\ WF_vars(SyncAllSchemas)
    /\ \A n \in Nodes : WF_vars(NodeStep(n)) /\ WF_vars(Announced(n))

-----------------------------------------------------------------------------
(* Properties.                                                             *)

\* However broadcasts overlap with failures, crashes and requests the hub has
\* given up on, a node applies each migration once and in order, without a
\* gap, and never one that is not DDL.
AppliedInOrder ==
    \A n \in Nodes : \A i \in DOMAIN schema[n] :
        schema[n][i] = i /\ ddl_allowed(i)

\* A node that is not in the middle of a sync reports exactly the version its
\* storage is at, also after a sync that failed half way.
VersionIsHonest ==
    \A n \in Nodes : up[n] /\ task[n] = NoTask => version[n] = Len(schema[n])

\* Where SyncAllSchemas reports success, the node has every migration the
\* broadcast was about, and keeps it through crashes.
SuccessMeansCurrent ==
    \A n \in Nodes : Len(schema[n]) >= report[n]

\* Once the announcements about a resource have arrived, however those of its
\* old and new owners overtook each other, queries about it are routed to where
\* it lives - provided none was lost.  It is never routed to a node that has
\* given it up.  One deviation: Removed deletes the entry whoever it names, so
\* that of an old owner, arriving last, makes the resource look like the hub's.
IndexSettles ==
    \A r \in Resources :
        /\ r \notin lost
        /\ \A n \in Nodes, i \in 1..MaxAnnounced :
              i \in DOMAIN notes[n] => notes[n][i].resource # r
        => r \in resolve_locality(Resources)[IF r \in erased THEN Hub ELSE owner[r]]

\* A broadcast ends, and a node that stays up gets every
\* migration up to the first one that is not DDL.
NodesCatchUp ==
    /\ hub.pc # "idle" ~> hub.pc = "idle"
    /\ \A n \in Nodes, v \in 1..MaxVersion :
          (\A i \in 1..v : ddl_allowed(i)) /\ <>[](up[n])
             => ((released >= v) ~> Len(schema[n]) >= v)
=============================================================================
