----------------------------- MODULE DataRights -----------------------------
(***************************************************************************)
(* Access decisions and the audit trail.  A request asks evaluate_access,  *)
(* which reads owner, groups, authorized groups and agreements one after   *)
(* the other, each under the lock of the registry, while the host changes  *)
(* them; what is allowed is recorded in the append-only provenance store.  *)
(* The Flight service leaves the decision to its host, here one that       *)
(* fetches the snapshot of its SnapshotAccessDecision for the request.     *)
(* The order of a history by timestamp, reasons and attributes are left    *)
(* out.                                                                    *)
(***************************************************************************)
EXTENDS Naturals, Sequences, FiniteSets

CONSTANTS Clients, Subjects, Resources, Groups,
          Operator,      \* the account the host is seeded with
          Inputs,        \* the requests clients may send
          Budgets,       \* how often a request, a change of the registry and
                         \* a failure of the store may happen
          MaxLog         \* bound on the entries of the store

Events == {"request", "change", "fault"}

Policies == {"Open", "Registered", "Restricted"}
Operations == {"erase", "export", "get"}
Activities == {"deleted", "accessed", "amended"}

Requests == [op : Operations, id : Subjects, registered : BOOLEAN,
             resource : Resources, policy : Policies]
Entries == [resource : Resources, actor : Subjects, activity : Activities,
            rows : Nat]

ASSUME ConstantsAssumption ==
    /\ Inputs \subseteq Requests
    /\ Operator \in Subjects
    /\ Resources # {}
    /\ Budgets \subseteq [Events -> Nat]
    /\ MaxLog \in Nat

VARIABLES
    accounts,      \* InMemoryOwnership: the registered accounts,
    owner,         \* the owner of a resource,
    members,       \* the members of a group,
    authorized,    \* the groups authorized for a resource,
    agreements,    \* the accepted data-use agreements
    log,           \* VecProvenanceStore.entries
    pc,            \* what the handler of a client does next
    request,       \* its request
    found,         \* the groups groups_for has returned to it
    history,       \* the entries history has returned to it
    answer,        \* what it has been answered
    budget,        \* what is left of its budget
    \* What the properties remember:
    held,          \* the grants a request has had at every moment so far
    had,           \* what the registry said of it at some moment before it
                   \* was decided
    past           \* the entries of its resource when it began

registry == <<accounts, owner, members, authorized, agreements>>
handler == <<pc, request, found, history, answer>>
ghosts == <<held, had, past>>
vars == <<registry, log, handler, budget, ghosts>>

Spend(e) == budget[e] > 0 /\ budget' = [budget EXCEPT ![e] = @ - 1]

\* The entries of a resource, by their place in the log.
HistoryOf(r) == {i \in 1..Len(log) : log[i].resource = r}

IsOwner(s, r) == owner[r] = s /\ s \in accounts
GroupsFor(s) == {g \in Groups : s \in members[g]}

\* Everything that entitles s to a restricted resource.
Grants(s, r) ==
    [owner |-> IsOwner(s, r), groups |-> GroupsFor(s) \cap authorized[r],
     agreement |-> <<s, r>> \in agreements]
Granted == [owner : BOOLEAN, groups : SUBSET Groups, agreement : BOOLEAN]
NoGrant == [owner |-> FALSE, groups |-> {}, agreement |-> FALSE]
Common(a, b) == [owner |-> a.owner /\ b.owner, groups |-> a.groups \cap b.groups,
                 agreement |-> a.agreement /\ b.agreement]

\* The facts the decision about s and r reads one by one.
Facts(s, r) ==
    [owner |-> IsOwner(s, r), groups |-> GroupsFor(s), authorized |-> authorized[r],
     agreement |-> <<s, r>> \in agreements]
Noted == [owner : BOOLEAN, groups : SUBSET Groups, authorized : SUBSET Groups,
          agreement : BOOLEAN]
NoFact == [owner |-> FALSE, groups |-> {}, authorized |-> {}, agreement |-> FALSE]
Either(a, b) == [owner |-> a.owner \/ b.owner, groups |-> a.groups \cup b.groups,
                 authorized |-> a.authorized \cup b.authorized,
                 agreement |-> a.agreement \/ b.agreement]

\* The handler has not decided yet.
Deciding(c) == pc[c] \in {"evaluate", "owner", "groups", "resource_groups", "agreement"}

-----------------------------------------------------------------------------
(* A request arrives.  The host authenticates it (a token of an active,    *)
(* verified account with the role of the operation, else it is refused)    *)
(* and the Flight service interprets its ticket.                           *)

Begin(c, q) ==
    /\ pc[c] = "idle"
    /\ Spend("request")
    /\ request' = [request EXCEPT ![c] = q]
    /\ found' = [found EXCEPT ![c] = {}]
    /\ history' = [history EXCEPT ![c] = {}]
    /\ answer' = [answer EXCEPT ![c] = "none"]
    /\ held' = [held EXCEPT ![c] = Grants(q.id, q.resource)]
    /\ had' = [had EXCEPT ![c] = Facts(q.id, q.resource)]
    /\ past' = [past EXCEPT ![c] = HistoryOf(q.resource)]
    /\ UNCHANGED <<registry, log>>

Authenticated(c, q) ==
    /\ q.op # "get" => q.registered
    /\ q.op = "erase" => q.policy = "Restricted"
    /\ q.op = "export" => q.policy = "Open"
    /\ Begin(c, q)
    /\ pc' = [pc EXCEPT ![c] = IF q.op = "export" THEN "history" ELSE "evaluate"]

Answer(c, a) ==
    /\ pc' = [pc EXCEPT ![c] = "idle"]
    /\ answer' = [answer EXCEPT ![c] = a]

\* missing or invalid token, inactive account, missing role, unknown ticket
Refused(c) ==
    /\ pc[c] = "idle"
    /\ Answer(c, "refused")
    /\ UNCHANGED <<registry, log, request, found, history, budget, ghosts>>

-----------------------------------------------------------------------------
(* evaluate_access                                                         *)

\* What follows an Allow: erase records the deletion, do_get streams.
Allowed(c) ==
    IF request[c].op = "erase"
    THEN /\ pc' = [pc EXCEPT ![c] = "append"]
         /\ UNCHANGED answer
    ELSE Answer(c, "allowed")

Denied(c) == Answer(c, "denied")

evaluate_access(c) ==
    /\ pc[c] = "evaluate"
    /\ CASE request[c].policy = "Open" -> Allowed(c)
         [] request[c].policy = "Registered" ->
                IF request[c].registered THEN Allowed(c) ELSE Denied(c)
         [] request[c].policy = "Restricted" ->
                /\ pc' = [pc EXCEPT ![c] = "owner"]
                /\ UNCHANGED answer
    /\ UNCHANGED <<registry, log, request, found, history, budget, ghosts>>

ReadOwner(c) ==
    /\ pc[c] = "owner"
    /\ IF IsOwner(request[c].id, request[c].resource)
       THEN Allowed(c)
       ELSE /\ pc' = [pc EXCEPT ![c] = "groups"]
            /\ UNCHANGED answer
    /\ UNCHANGED <<registry, log, request, found, history, budget, ghosts>>

ReadGroups(c) ==
    /\ pc[c] = "groups"
    /\ LET mine == GroupsFor(request[c].id)
       IN /\ found' = [found EXCEPT ![c] = mine]
          /\ pc' = [pc EXCEPT ![c] =
                      IF mine = {} THEN "agreement" ELSE "resource_groups"]
    /\ UNCHANGED <<registry, log, request, history, answer, budget, ghosts>>

\* Having a group is taken for having a group of the resource.
InAuthorizedGroup_AnyGroup(c) == found[c] # {}

InAuthorizedGroup(c) == found[c] \cap authorized[request[c].resource] # {}

\* Whoever has groups, but none of the resource, is denied at once.
ReadResourceGroups_NoAgreement(c) ==
    /\ pc[c] = "resource_groups"
    /\ IF InAuthorizedGroup(c) THEN Allowed(c) ELSE Denied(c)
    /\ UNCHANGED <<registry, log, request, found, history, budget, ghosts>>

ReadResourceGroups(c) ==
    /\ pc[c] = "resource_groups"
    /\ IF InAuthorizedGroup(c)
       THEN Allowed(c)
       ELSE /\ pc' = [pc EXCEPT ![c] = "agreement"]
            /\ UNCHANGED answer
    /\ UNCHANGED <<registry, log, request, found, history, budget, ghosts>>

ReadAgreement(c) ==
    /\ pc[c] = "agreement"
    /\ IF <<request[c].id, request[c].resource>> \in agreements
       THEN Allowed(c) ELSE Denied(c)
    /\ UNCHANGED <<registry, log, request, found, history, budget, ghosts>>

-----------------------------------------------------------------------------
(* DataRights: what is recorded in the provenance store.                   *)

Entry(r, s, activity, rows) ==
    [resource |-> r, actor |-> s, activity |-> activity, rows |-> rows]

Append1(entry) == Len(log) < MaxLog /\ log' = Append(log, entry)

soft_delete(c) ==
    /\ pc[c] = "append"
    /\ Append1(Entry(request[c].resource, request[c].id, "deleted", 0))
    /\ Answer(c, "erased")
    /\ UNCHANGED <<registry, request, found, history, budget, ghosts>>

ReadHistory(c) ==
    /\ pc[c] = "history"
    /\ history' = [history EXCEPT ![c] = HistoryOf(request[c].resource)]
    /\ pc' = [pc EXCEPT ![c] = "record"]
    /\ UNCHANGED <<registry, log, request, found, answer, budget, ghosts>>

RecordAccess(c) ==
    /\ pc[c] = "record"
    /\ Append1(Entry(request[c].resource, request[c].id, "accessed",
                     Cardinality(history[c])))
    /\ Answer(c, "exported")
    /\ UNCHANGED <<registry, request, found, history, budget, ghosts>>

\* The error of the audit entry is dropped.
StoreFails_Ignored(c) ==
    /\ pc[c] \in {"append", "history", "record"}
    /\ Spend("fault")
    /\ Answer(c, IF pc[c] = "record" THEN "exported" ELSE "error")
    /\ UNCHANGED <<registry, log, request, found, history, ghosts>>

\* append or history returns an error.
StoreFails(c) ==
    /\ pc[c] \in {"append", "history", "record"}
    /\ Spend("fault")
    /\ Answer(c, "error")
    /\ UNCHANGED <<registry, log, request, found, history, ghosts>>

\* The host records that it has rectified a field or restored a resource.
HostRecords(r) ==
    /\ Append1(Entry(r, Operator, "amended", 0))
    /\ UNCHANGED <<registry, handler, budget, ghosts>>

-----------------------------------------------------------------------------
(* The host changes the registry.                                          *)

Change ==
    /\ Spend("change")
    /\ UNCHANGED <<log, handler, past>>
    /\ held' = [c \in Clients |->
                  Common(held[c], Grants(request[c].id, request[c].resource)')]
    /\ had' = [c \in Clients |->
                 IF Deciding(c)
                 THEN Either(had[c], Facts(request[c].id, request[c].resource)')
                 ELSE had[c]]

add_account(s) ==
    /\ accounts' = accounts \cup {s}
    /\ UNCHANGED <<owner, members, authorized, agreements>>
    /\ Change

\* A group of the same id is replaced, its members with it.
add_group(g, m) ==
    /\ members' = [members EXCEPT ![g] = m]
    /\ UNCHANGED <<accounts, owner, authorized, agreements>>
    /\ Change

set_owner(r, s) ==
    /\ owner' = [owner EXCEPT ![r] = s]
    /\ UNCHANGED <<accounts, members, authorized, agreements>>
    /\ Change

authorize_group(r, g) ==
    /\ authorized' = [authorized EXCEPT ![r] = @ \cup {g}]
    /\ UNCHANGED <<accounts, owner, members, agreements>>
    /\ Change

accept_agreement(s, r) ==
    /\ agreements' = agreements \cup {<<s, r>>}
    /\ UNCHANGED <<accounts, owner, members, authorized>>
    /\ Change

-----------------------------------------------------------------------------
Init ==
    /\ accounts = {Operator}
    /\ owner = [r \in Resources |-> Operator]
    /\ members = [g \in Groups |-> {}]
    /\ authorized = [r \in Resources |-> {}]
    /\ agreements = {}
    /\ log = << >>
    /\ pc = [c \in Clients |-> "idle"]
    /\ request = [c \in Clients |-> CHOOSE q \in Requests : q.id = Operator]
    /\ found = [c \in Clients |-> {}]
    /\ history = [c \in Clients |-> {}]
    /\ answer = [c \in Clients |-> "none"]
    /\ budget \in Budgets
    /\ held = [c \in Clients |-> NoGrant]
    /\ had = [c \in Clients |-> NoFact]
    /\ past = [c \in Clients |-> {}]

Handler(c) ==
    \/ (\E q \in Inputs : Authenticated(c, q)) \/ Refused(c)
    \/ evaluate_access(c) \/ ReadOwner(c) \/ ReadGroups(c)
    \/ ReadResourceGroups(c) \/ ReadAgreement(c)
    \/ soft_delete(c) \/ ReadHistory(c) \/ RecordAccess(c) \/ StoreFails(c)

Host ==
    \/ \E s \in Subjects : add_account(s)
    \/ \E g \in Groups, m \in SUBSET Subjects : add_group(g, m)
    \/ \E r \in Resources, s \in Subjects :
           set_owner(r, s) \/ accept_agreement(s, r)
    \/ \E r \in Resources, g \in Groups : authorize_group(r, g)
    \/ \E r \in Resources : HostRecords(r)

Next == Host \/ \E c \in Clients : Handler(c)

Spec == Init /\ [][Next]_vars

-----------------------------------------------------------------------------
Steps == {"idle", "evaluate", "owner", "groups", "resource_groups",
          "agreement", "append", "history", "record"}
Answers == {"none", "refused", "allowed", "denied", "erased", "exported", "error"}

\* Every variable has its type.
TypeOK ==
    /\ accounts \subseteq Subjects
    /\ owner \in [Resources -> Subjects]
    /\ members \in [Groups -> SUBSET Subjects]
    /\ authorized \in [Resources -> SUBSET Groups]
    /\ agreements \subseteq Subjects \X Resources
    /\ log \in Seq(Entries)
    /\ pc \in [Clients -> Steps]
    /\ request \in [Clients -> Requests]
    /\ found \in [Clients -> SUBSET Groups]
    /\ history \in [Clients -> SUBSET (1..Len(log))]
    /\ answer \in [Clients -> Answers]
    /\ budget \in [Events -> Nat]
    /\ held \in [Clients -> Granted]
    /\ had \in [Clients -> Noted]
    /\ past \in [Clients -> SUBSET (1..Len(log))]

(***************************************************************************)
(* A subject that owns the resource, or is in an authorized group, or has  *)
(* an agreement, during the whole of a request is not denied, although     *)
(* evaluate_access (decision.rs) reads these facts at different moments    *)
(* and other grants come and go between them.                              *)
(***************************************************************************)
GrantIsHonoured ==
    \A c \in Clients :
        answer[c] = "denied" /\ request[c].policy = "Restricted"
            => held[c] = NoGrant

Entitled(f) == f.owner \/ f.groups \cap f.authorized # {} \/ f.agreement

(***************************************************************************)
(* Whoever erases a resource (http.rs erase) owned it, had accepted its    *)
(* agreement, or was in a group and that group authorized for it, while    *)
(* the request was being decided: what was withdrawn before it, and what   *)
(* an earlier request found, lets nobody through.  Membership and          *)
(* authorization may have held at different moments of the request,        *)
(* because evaluate_access reads them one after the other.  Groups and     *)
(* agreements count, although the comment of erase says owner-only.        *)
(***************************************************************************)
ErasureWasGranted ==
    \A c \in Clients :
        pc[c] = "append" \/ answer[c] = "erased" => Entitled(had[c])

(***************************************************************************)
(* An access export (rights.rs access_export) that was answered contains   *)
(* everything that had been recorded when it was asked for, a deletion     *)
(* above all, and has left an entry behind it that tells how much was      *)
(* handed out; a store that fails in between yields no export.             *)
(***************************************************************************)
ExportIsAudited ==
    \A c \in Clients : answer[c] = "exported" =>
        /\ past[c] \subseteq history[c]
        /\ \E i \in 1..Len(log) \ history[c] :
              log[i] = Entry(request[c].resource, request[c].id, "accessed",
                             Cardinality(history[c]))
=============================================================================
