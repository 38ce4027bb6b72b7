-------------------------- MODULE DataRightsProofs --------------------------
(***************************************************************************)
(* Proofs about DataRights, for any clients, subjects, resources, groups   *)
(* and bounds.                                                             *)
(***************************************************************************)
EXTENDS DataRights, FiniteSetTheorems, TLAPS

USE ConstantsAssumption

-----------------------------------------------------------------------------
(* Types.                                                                  *)

\* The entries of a resource have places in the log.
LEMMA HistoryType == \A r : HistoryOf(r) \in SUBSET (1..Len(log))
BY DEF HistoryOf

\* What is granted at a moment is a grant.
LEMMA GrantsType ==
    ASSUME TypeOK, NEW s \in Subjects, NEW r \in Resources
    PROVE  Grants(s, r) \in Granted
BY DEF TypeOK, Grants, Granted, IsOwner, GroupsFor

\* What two grants have in common is one.
LEMMA CommonType ==
    ASSUME NEW a \in Granted, NEW b \in Granted
    PROVE  Common(a, b) \in Granted
BY DEF Common, Granted

\* What the registry says at a moment is noted, and so is what it said at
\* either of two.
LEMMA FactsType ==
    ASSUME TypeOK, NEW s \in Subjects, NEW r \in Resources
    PROVE  Facts(s, r) \in Noted
BY DEF TypeOK, Facts, Noted, IsOwner, GroupsFor

LEMMA EitherType ==
    ASSUME NEW a \in Noted, NEW b \in Noted
    PROVE  Either(a, b) \in Noted
BY DEF Either, Noted

\* An append leaves the places of earlier entries where they were.
LEMMA AppendGrows ==
    ASSUME TypeOK, NEW e \in Entries, Append1(e)
    PROVE  /\ log' \in Seq(Entries)
           /\ Len(log') = Len(log) + 1
           /\ Len(log) \in Nat
           /\ log'[Len(log) + 1] = e
           /\ \A i \in 1..Len(log) : log'[i] = log[i]
           /\ 1..Len(log) \subseteq 1..Len(log')
           /\ history \in [Clients -> SUBSET (1..Len(log'))]
           /\ past \in [Clients -> SUBSET (1..Len(log'))]
<1>1. log \in Seq(Entries) /\ log' = Append(log, e)
  BY DEF TypeOK, Append1
<1>2. /\ log' \in Seq(Entries)
      /\ Len(log') = Len(log) + 1
      /\ Len(log) \in Nat
      /\ log'[Len(log) + 1] = e
      /\ \A i \in 1..Len(log) : log'[i] = log[i]
  BY <1>1
<1>3. 1..Len(log) \subseteq 1..Len(log')
  BY <1>2
<1>4. QED
  BY <1>2, <1>3 DEF TypeOK

\* The number of entries that are handed out is a number.
LEMMA RowsType ==
    ASSUME TypeOK, NEW c \in Clients
    PROVE  Cardinality(history[c]) \in Nat
<1>1. history[c] \subseteq 1..Len(log) /\ Len(log) \in Nat
  BY DEF TypeOK
<1>2. IsFiniteSet(1..Len(log))
  BY <1>1, FS_Interval
<1>3. IsFiniteSet(history[c])
  BY <1>1, <1>2, FS_Subset
<1>4. QED
  BY <1>3, FS_CardinalityType

\* Spending leaves a budget.
LEMMA SpendType ==
    ASSUME TypeOK, NEW e \in Events, Spend(e)
    PROVE  budget' \in [Events -> Nat]
BY DEF TypeOK, Spend

\* The initial state has the types.
LEMMA InitTypes == Init => TypeOK
<1>1. PICK r \in Resources : TRUE
  OBVIOUS
<1>2. [op |-> "get", id |-> Operator, registered |-> FALSE, resource |-> r,
       policy |-> "Open"] \in {q \in Requests : q.id = Operator}
  BY DEF Requests, Operations, Policies
<1>3. (CHOOSE q \in Requests : q.id = Operator) \in Requests
  BY <1>2
<1>4. NoGrant \in Granted /\ NoFact \in Noted
  BY DEF NoGrant, Granted, NoFact, Noted
<1> SUFFICES ASSUME Init PROVE TypeOK
  OBVIOUS
<1>5. /\ accounts \subseteq Subjects
      /\ owner \in [Resources -> Subjects]
      /\ members \in [Groups -> SUBSET Subjects]
      /\ authorized \in [Resources -> SUBSET Groups]
      /\ agreements \subseteq Subjects \X Resources
      /\ budget \in [Events -> Nat]
  BY DEF Init
<1>6. log \in Seq(Entries)
  BY DEF Init
<1>7. request \in [Clients -> Requests]
  BY <1>3 DEF Init
<1>8. /\ pc \in [Clients -> Steps]
      /\ found \in [Clients -> SUBSET Groups]
      /\ answer \in [Clients -> Answers]
      /\ held \in [Clients -> Granted]
      /\ had \in [Clients -> Noted]
  BY <1>4 DEF Init, Steps, Answers
<1>9. /\ history \in [Clients -> SUBSET (1..Len(log))]
      /\ past \in [Clients -> SUBSET (1..Len(log))]
  BY DEF Init
<1>10. QED
  BY <1>5, <1>6, <1>7, <1>8, <1>9 DEF TypeOK

\* The steps of a handler that leave the store alone keep the types.
LEMMA ReadTypes ==
    ASSUME TypeOK, NEW c \in Clients,
           \/ Refused(c) \/ evaluate_access(c) \/ ReadOwner(c) \/ ReadGroups(c)
           \/ ReadResourceGroups(c) \/ ReadAgreement(c) \/ ReadHistory(c)
           \/ StoreFails(c)
    PROVE  TypeOK'
<1> USE DEF registry, ghosts, Answer, Allowed, Denied, Steps, Answers
<1>1. CASE Refused(c)
  BY <1>1 DEF TypeOK, Refused
<1>2. CASE evaluate_access(c)
  BY <1>2 DEF TypeOK, evaluate_access, Requests, Policies
<1>3. CASE ReadOwner(c)
  BY <1>3 DEF TypeOK, ReadOwner
<1>4. CASE ReadGroups(c)
  BY <1>4 DEF TypeOK, ReadGroups, GroupsFor
<1>5. CASE ReadResourceGroups(c)
  BY <1>5 DEF TypeOK, ReadResourceGroups
<1>6. CASE ReadAgreement(c)
  BY <1>6 DEF TypeOK, ReadAgreement
<1>7. CASE ReadHistory(c)
  BY <1>7, HistoryType DEF TypeOK, ReadHistory
<1>8. CASE StoreFails(c)
  BY <1>8, SpendType DEF TypeOK, StoreFails, Events
<1>9. QED
  BY <1>1, <1>2, <1>3, <1>4, <1>5, <1>6, <1>7, <1>8

\* So does the beginning of a request.
LEMMA BeginTypes ==
    ASSUME TypeOK, NEW c \in Clients, NEW q \in Inputs, Authenticated(c, q)
    PROVE  TypeOK'
<1>1. q \in Requests /\ q.id \in Subjects /\ q.resource \in Resources
  BY DEF Requests
<1>2. Grants(q.id, q.resource) \in Granted /\ Facts(q.id, q.resource) \in Noted
  BY <1>1, GrantsType, FactsType
<1>3. budget' \in [Events -> Nat]
  BY SpendType DEF Authenticated, Begin, Events
<1>4. /\ pc' \in [Clients -> Steps]
      /\ request' \in [Clients -> Requests]
      /\ found' \in [Clients -> SUBSET Groups]
      /\ answer' \in [Clients -> Answers]
      /\ held' \in [Clients -> Granted]
      /\ had' \in [Clients -> Noted]
  BY <1>1, <1>2 DEF TypeOK, Authenticated, Begin, Steps, Answers
<1>5. log' = log
  BY DEF Authenticated, Begin
<1>6. /\ history' \in [Clients -> SUBSET (1..Len(log))]
      /\ past' \in [Clients -> SUBSET (1..Len(log))]
  BY HistoryType DEF TypeOK, Authenticated, Begin
<1>7. QED
  BY <1>3, <1>4, <1>5, <1>6 DEF TypeOK, Authenticated, Begin, registry

\* So do the steps that append to the store.
LEMMA AppendTypes ==
    ASSUME TypeOK,
           \/ \E c \in Clients : soft_delete(c) \/ RecordAccess(c)
           \/ \E r \in Resources : HostRecords(r)
    PROVE  TypeOK'
<1> USE DEF registry, handler, ghosts, Answer
<1>1. ASSUME NEW c \in Clients, soft_delete(c) PROVE TypeOK'
  <2> DEFINE e == Entry(request[c].resource, request[c].id, "deleted", 0)
  <2>1. e \in Entries
    BY DEF TypeOK, Requests, Entry, Entries, Activities
  <2>2. Append1(e)
    BY <1>1 DEF soft_delete
  <2> HIDE DEF e
  <2>3. QED
    BY <1>1, <2>1, <2>2, AppendGrows DEF TypeOK, soft_delete, Steps, Answers
<1>2. ASSUME NEW c \in Clients, RecordAccess(c) PROVE TypeOK'
  <2> DEFINE e == Entry(request[c].resource, request[c].id, "accessed",
                        Cardinality(history[c]))
  <2>1. e \in Entries
    BY RowsType DEF TypeOK, Requests, Entry, Entries, Activities
  <2>2. Append1(e)
    BY <1>2 DEF RecordAccess
  <2> HIDE DEF e
  <2>3. QED
    BY <1>2, <2>1, <2>2, AppendGrows DEF TypeOK, RecordAccess, Steps, Answers
<1>3. ASSUME NEW r \in Resources, HostRecords(r) PROVE TypeOK'
  <2> DEFINE e == Entry(r, Operator, "amended", 0)
  <2>1. e \in Entries
    BY DEF Entry, Entries, Activities
  <2>2. Append1(e)
    BY <1>3 DEF HostRecords
  <2> HIDE DEF e
  <2>3. QED
    BY <1>3, <2>1, <2>2, AppendGrows DEF TypeOK, HostRecords
<1>4. QED
  BY <1>1, <1>2, <1>3

RegistryChange ==
    \/ \E s \in Subjects : add_account(s)
    \/ \E g \in Groups, m \in SUBSET Subjects : add_group(g, m)
    \/ \E r \in Resources, s \in Subjects :
           set_owner(r, s) \/ accept_agreement(s, r)
    \/ \E r \in Resources, g \in Groups : authorize_group(r, g)

\* So do the changes of the registry.
LEMMA ChangeTypes ==
    ASSUME TypeOK, RegistryChange
    PROVE  TypeOK'
<1>1. /\ accounts' \subseteq Subjects
      /\ owner' \in [Resources -> Subjects]
      /\ members' \in [Groups -> SUBSET Subjects]
      /\ authorized' \in [Resources -> SUBSET Groups]
      /\ agreements' \subseteq Subjects \X Resources
  <2>1. CASE \E s \in Subjects : add_account(s)
    BY <2>1 DEF TypeOK, add_account
  <2>2. CASE \E g \in Groups, m \in SUBSET Subjects : add_group(g, m)
    BY <2>2 DEF TypeOK, add_group
  <2>3. CASE \E r \in Resources, s \in Subjects : set_owner(r, s)
    BY <2>3 DEF TypeOK, set_owner
  <2>4. CASE \E r \in Resources, s \in Subjects : accept_agreement(s, r)
    BY <2>4 DEF TypeOK, accept_agreement
  <2>5. CASE \E r \in Resources, g \in Groups : authorize_group(r, g)
    BY <2>5 DEF TypeOK, authorize_group
  <2>6. QED
    BY <2>1, <2>2, <2>3, <2>4, <2>5 DEF RegistryChange
<1>2. Change
  BY DEF RegistryChange, add_account, add_group, set_owner,
         accept_agreement, authorize_group
<1>3. ASSUME NEW c \in Clients
      PROVE  Common(held[c], Grants(request[c].id, request[c].resource)')
               \in Granted
  <2>1. request[c].id \in Subjects /\ request[c].resource \in Resources
    BY DEF TypeOK, Requests
  <2>2. request'[c] = request[c]
    BY <1>2 DEF Change, handler
  <2>3. Grants(request[c].id, request[c].resource)' \in Granted
    BY <1>1, <2>1, <2>2 DEF Grants, Granted, IsOwner, GroupsFor
  <2>4. held[c] \in Granted
    BY DEF TypeOK
  <2>5. QED
    BY <2>3, <2>4, CommonType
<1>4. held' \in [Clients -> Granted]
  BY <1>2, <1>3 DEF Change
<1>5. budget' \in [Events -> Nat]
  BY <1>2, SpendType DEF Change, Events
<1>6. ASSUME NEW c \in Clients
      PROVE  Either(had[c], Facts(request[c].id, request[c].resource)') \in Noted
  <2>1. request[c].id \in Subjects /\ request[c].resource \in Resources
    BY DEF TypeOK, Requests
  <2>2. request'[c] = request[c]
    BY <1>2 DEF Change, handler
  <2>3. Facts(request[c].id, request[c].resource)' \in Noted
    BY <1>1, <2>1, <2>2 DEF Facts, Noted, IsOwner, GroupsFor
  <2>4. had[c] \in Noted
    BY DEF TypeOK
  <2>5. QED
    BY <2>3, <2>4, EitherType
<1>7. had' \in [Clients -> Noted]
  BY <1>2, <1>6 DEF Change, TypeOK
<1>8. QED
  BY <1>1, <1>2, <1>4, <1>5, <1>7 DEF TypeOK, Change, handler

\* Every step keeps the types.
LEMMA TypeStep == TypeOK /\ [Next]_vars => TypeOK'
<1> SUFFICES ASSUME TypeOK, [Next]_vars PROVE TypeOK'
  OBVIOUS
<1>1. CASE Next
  BY <1>1, ReadTypes, BeginTypes, AppendTypes, ChangeTypes
  DEF Next, Host, Handler, RegistryChange
<1>2. CASE UNCHANGED vars
  BY <1>2 DEF TypeOK, vars, registry, handler, ghosts
<1>3. QED
  BY <1>1, <1>2

(***************************************************************************)
(* The registry, the store and the handlers of decision.rs, rights.rs and  *)
(* store.rs keep their types.                                              *)
(***************************************************************************)
THEOREM TypeCorrect == Spec => []TypeOK
BY InitTypes, TypeStep, PTL DEF Spec

-----------------------------------------------------------------------------
(* Erasures.  What the registry says while a request is decided is noted,  *)
(* so whatever one of its reads finds has been noted, and stays noted when *)
(* the registry changes before the next read.                              *)

Within(a, b) ==
    /\ a.owner => b.owner
    /\ a.groups \subseteq b.groups
    /\ a.authorized \subseteq b.authorized
    /\ a.agreement => b.agreement

\* What a handler on its way to an erasure has found out.
ErasingAt(c) ==
    /\ Deciding(c) => Within(Facts(request[c].id, request[c].resource), had[c])
    /\ pc[c] = "evaluate" /\ request[c].op = "erase"
          => request[c].policy = "Restricted"
    /\ pc[c] = "resource_groups" => found[c] \subseteq had[c].groups
    /\ pc[c] = "append" \/ answer[c] = "erased" => Entitled(had[c])
Erasing == \A c \in Clients : ErasingAt(c)

\* What holds at either of two moments contains what holds at each.
LEMMA EitherWithin ==
    ASSUME NEW a \in Noted, NEW b \in Noted
    PROVE  Within(a, Either(a, b)) /\ Within(b, Either(a, b))
BY DEF Within, Either, Noted

\* More facts entitle to no less.
LEMMA EntitledGrows ==
    ASSUME NEW a \in Noted, NEW b \in Noted, Within(a, b), Entitled(a)
    PROVE  Entitled(b)
BY DEF Within, Entitled, Noted

\* A decision leads to the record of the deletion or to an answer.
LEMMA DecisionSteps ==
    ASSUME TypeOK, NEW c \in Clients, Allowed(c) \/ Denied(c)
    PROVE  /\ pc'[c] \in {"append", "idle"}
           /\ \A d \in Clients \ {c} : pc'[d] = pc[d] /\ answer'[d] = answer[d]
           /\ answer'[c] \in {answer[c], "allowed", "denied"}
           /\ pc'[c] = "append" => answer'[c] = answer[c]
BY DEF TypeOK, Allowed, Denied, Answer

\* A handler works on its own request.
LEMMA OwnRequest ==
    ASSUME TypeOK, NEW c \in Clients, Handler(c), NEW d \in Clients \ {c}
    PROVE  /\ pc'[d] = pc[d] /\ request'[d] = request[d] /\ found'[d] = found[d]
           /\ history'[d] = history[d] /\ answer'[d] = answer[d]
           /\ held'[d] = held[d] /\ had'[d] = had[d] /\ past'[d] = past[d]
<1> USE DEF registry, handler, ghosts
<1>1. CASE \E q \in Inputs : Authenticated(c, q)
  BY <1>1 DEF TypeOK, Authenticated, Begin
<1>2. CASE Refused(c) \/ StoreFails(c) \/ soft_delete(c) \/ RecordAccess(c)
  BY <1>2 DEF TypeOK, Refused, StoreFails, soft_delete, RecordAccess, Answer
<1>3. CASE evaluate_access(c)
  <2>1. request[c].policy \in Policies
    BY DEF TypeOK, Requests
  <2>2. CASE Allowed(c) \/ Denied(c)
    BY <1>3, <2>2, DecisionSteps DEF evaluate_access
  <2>3. CASE pc' = [pc EXCEPT ![c] = "owner"] /\ UNCHANGED answer
    BY <1>3, <2>3 DEF TypeOK, evaluate_access
  <2>4. QED
    BY <1>3, <2>1, <2>2, <2>3 DEF evaluate_access, Policies
<1>4. CASE ReadOwner(c)
  BY <1>4, DecisionSteps DEF TypeOK, ReadOwner
<1>5. CASE ReadGroups(c)
  BY <1>5 DEF TypeOK, ReadGroups
<1>6. CASE ReadResourceGroups(c)
  BY <1>6, DecisionSteps DEF TypeOK, ReadResourceGroups
<1>7. CASE ReadAgreement(c)
  BY <1>7, DecisionSteps DEF TypeOK, ReadAgreement
<1>8. CASE ReadHistory(c)
  BY <1>8 DEF TypeOK, ReadHistory
<1>9. QED
  BY <1>1, <1>2, <1>3, <1>4, <1>5, <1>6, <1>7, <1>8 DEF Handler

\* A step that leaves a request and the registry alone keeps what is known.
LEMMA ErasingWaits ==
    ASSUME NEW c \in Clients, ErasingAt(c), UNCHANGED registry,
           pc'[c] = pc[c], request'[c] = request[c], found'[c] = found[c],
           answer'[c] = answer[c], had'[c] = had[c]
    PROVE  ErasingAt(c)'
BY DEF registry, ErasingAt, Deciding, Entitled, Within, Facts, IsOwner, GroupsFor

\* A change of the registry is noted.
LEMMA ErasingChange ==
    ASSUME TypeOK, RegistryChange, NEW c \in Clients, ErasingAt(c)
    PROVE  ErasingAt(c)'
<1>1. Change
  BY DEF RegistryChange, add_account, add_group, set_owner,
         accept_agreement, authorize_group
<1>2. TypeOK'
  BY ChangeTypes
<1>3. UNCHANGED handler
  BY <1>1 DEF Change
<1>4. PICK s \in Subjects, r \in Resources :
          s = request[c].id /\ r = request[c].resource
  BY DEF TypeOK, Requests
<1>5. PICK f \in Noted : f = Facts(s, r)'
  <2>1. /\ accounts' \subseteq Subjects
        /\ owner' \in [Resources -> Subjects]
        /\ members' \in [Groups -> SUBSET Subjects]
        /\ authorized' \in [Resources -> SUBSET Groups]
    BY <1>2 DEF TypeOK
  <2>2. Facts(s, r)' \in Noted
    BY <2>1 DEF Facts, Noted, IsOwner, GroupsFor
  <2>3. QED
    BY <2>2
<1>6. Facts(request[c].id, request[c].resource)' = f
  BY <1>3, <1>4, <1>5 DEF handler, Facts, IsOwner, GroupsFor
<1>7. had'[c] = IF Deciding(c) THEN Either(had[c], f) ELSE had[c]
  BY <1>1, <1>6 DEF Change
<1>8. had[c] \in Noted /\ had'[c] \in Noted
  BY <1>2 DEF TypeOK
<1>9. Within(had[c], had'[c]) /\ (Deciding(c) => Within(f, had'[c]))
  <2>1. CASE Deciding(c)
    BY <1>5, <1>7, <1>8, <2>1, EitherWithin
  <2>2. CASE ~Deciding(c)
    BY <1>7, <2>2 DEF Within
  <2>3. QED
    BY <2>1, <2>2
<1>10. Entitled(had[c]) => Entitled(had'[c])
  BY <1>8, <1>9, EntitledGrows
<1>11. /\ pc' = pc /\ request' = request /\ found' = found /\ answer' = answer
       /\ Deciding(c)' = Deciding(c)
  BY <1>3 DEF handler, Deciding
<1>12. pc[c] = "resource_groups" => found[c] \subseteq had'[c].groups
  BY <1>9 DEF ErasingAt, Within
<1>13. Entitled(had[c])' = Entitled(had'[c])
  BY DEF Entitled
<1>14. Within(Facts(request[c].id, request[c].resource), had[c])' = Within(f, had'[c])
  BY <1>6 DEF Within
<1>15. QED
  BY <1>9, <1>10, <1>11, <1>12, <1>13, <1>14 DEF ErasingAt

\* What a reading step of an erasure concludes was true at that moment.
LEMMA ErasingReads ==
    ASSUME TypeOK, NEW c \in Clients, ErasingAt(c), Handler(c)
    PROVE  ErasingAt(c)'
<1> USE DEF handler, ghosts
<1>1. PICK s \in Subjects, r \in Resources :
          s = request[c].id /\ r = request[c].resource
  BY DEF TypeOK, Requests
<1>2. PICK f : f = Facts(s, r)
  OBVIOUS
<1>2a. Deciding(c) => Within(f, had[c])
  BY <1>1, <1>2 DEF ErasingAt
<1>3. ASSUME UNCHANGED <<registry, had, request>>, Deciding(c)
      PROVE  Within(Facts(request[c].id, request[c].resource), had[c])'
  <2>1. Within(Facts(request[c].id, request[c].resource), had[c])
    BY <1>3 DEF ErasingAt
  <2>2. QED
    BY <1>3, <2>1 DEF registry, Within, Facts, IsOwner, GroupsFor
<1>4. ASSUME UNCHANGED <<registry, had, request>>, Allowed(c), Entitled(had[c])
      PROVE  ErasingAt(c)'
  <2>1. pc'[c] \in {"append", "idle"}
    BY <1>4, DecisionSteps
  <2>2. Entitled(had[c])'
    BY <1>4 DEF Entitled
  <2>3. QED
    BY <2>1, <2>2 DEF ErasingAt, Deciding
<1>5. ASSUME pc'[c] = "idle", answer'[c] # "erased" PROVE ErasingAt(c)'
  BY <1>5 DEF ErasingAt, Deciding
<1>6. ASSUME UNCHANGED <<registry, had, request, answer>>, Deciding(c),
             pc'[c] \in {"owner", "groups", "agreement"}
      PROVE  ErasingAt(c)'
  <2>1. Within(Facts(request[c].id, request[c].resource), had[c])'
    BY <1>3, <1>6
  <2>2. answer[c] = "erased" => Entitled(had[c])
    BY DEF ErasingAt
  <2>3. QED
    BY <1>6, <2>1, <2>2 DEF ErasingAt, Entitled
<1>7. CASE \E q \in Inputs : Authenticated(c, q)
  <2>1. PICK q \in Inputs : Authenticated(c, q)
    BY <1>7
  <2>2. /\ request'[c] = q /\ answer'[c] = "none"
        /\ had'[c] = Facts(q.id, q.resource)
        /\ pc'[c] \in {"history", "evaluate"}
        /\ q.op = "erase" => q.policy = "Restricted"
        /\ UNCHANGED registry
    BY <2>1 DEF TypeOK, Authenticated, Begin
  <2>3. Within(Facts(request[c].id, request[c].resource), had[c])'
    BY <2>2 DEF Within, registry, Facts, IsOwner, GroupsFor
  <2>4. QED
    BY <2>2, <2>3 DEF ErasingAt
<1>8. CASE evaluate_access(c)
  <2>1. /\ request[c].policy \in Policies /\ Deciding(c) /\ pc[c] = "evaluate"
        /\ UNCHANGED <<registry, had, request>>
    BY <1>8 DEF TypeOK, Requests, evaluate_access, Deciding
  <2>2. CASE request[c].policy = "Restricted"
    <3>1. pc'[c] = "owner" /\ UNCHANGED answer
      BY <1>8, <2>2 DEF TypeOK, evaluate_access
    <3>2. QED
      BY <1>6, <2>1, <3>1
  <2>3. CASE request[c].policy # "Restricted"
    <3>1. Allowed(c) \/ Denied(c)
      BY <1>8, <2>1, <2>3 DEF evaluate_access, Policies
    <3>2. request[c].op # "erase"
      BY <2>1, <2>3 DEF ErasingAt
    <3>3. pc'[c] = "idle" /\ answer'[c] \in {"allowed", "denied"}
      BY <3>1, <3>2 DEF TypeOK, Allowed, Denied, Answer
    <3>4. QED
      BY <1>5, <3>3
  <2>4. QED
    BY <2>2, <2>3
<1>9. CASE ReadOwner(c)
  <2>1. Deciding(c) /\ UNCHANGED <<registry, had, request>>
    BY <1>9 DEF ReadOwner, Deciding
  <2>2. CASE IsOwner(s, r)
    <3>1. Entitled(had[c])
      BY <1>2, <1>2a, <2>1, <2>2 DEF Within, Facts, Entitled
    <3>2. QED
      BY <1>1, <1>4, <1>9, <2>1, <2>2, <3>1 DEF ReadOwner
  <2>3. CASE ~IsOwner(s, r)
    <3>1. pc'[c] = "groups" /\ UNCHANGED answer
      BY <1>1, <1>9, <2>3 DEF TypeOK, ReadOwner
    <3>2. QED
      BY <1>6, <2>1, <3>1
  <2>4. QED
    BY <2>2, <2>3
<1>10. CASE ReadGroups(c)
  <2>1. /\ Deciding(c) /\ UNCHANGED <<registry, had, request, answer>>
        /\ found'[c] = GroupsFor(s)
        /\ pc'[c] \in {"agreement", "resource_groups"}
    BY <1>1, <1>10 DEF TypeOK, ReadGroups, Deciding
  <2>2. GroupsFor(s) \subseteq had[c].groups
    BY <1>2, <1>2a, <2>1 DEF Within, Facts
  <2>3. Within(Facts(request[c].id, request[c].resource), had[c])'
    BY <1>3, <2>1
  <2>4. answer[c] = "erased" => Entitled(had[c])
    BY DEF ErasingAt
  <2>5. QED
    BY <2>1, <2>2, <2>3, <2>4 DEF ErasingAt, Entitled
<1>11. CASE ReadResourceGroups(c)
  <2>1. /\ Deciding(c) /\ UNCHANGED <<registry, had, request>>
        /\ pc[c] = "resource_groups"
    BY <1>11 DEF ReadResourceGroups, Deciding
  <2>2. CASE InAuthorizedGroup(c)
    <3>1. found[c] \subseteq had[c].groups
      BY <2>1 DEF ErasingAt
    <3>2. authorized[r] \subseteq had[c].authorized
      BY <1>2, <1>2a, <2>1 DEF Within, Facts
    <3>3. Entitled(had[c])
      BY <1>1, <2>2, <3>1, <3>2 DEF InAuthorizedGroup, Entitled
    <3>4. QED
      BY <1>4, <1>11, <2>1, <2>2, <3>3 DEF ReadResourceGroups
  <2>3. CASE ~InAuthorizedGroup(c)
    <3>1. pc'[c] = "agreement" /\ UNCHANGED answer
      BY <1>11, <2>3 DEF TypeOK, ReadResourceGroups
    <3>2. QED
      BY <1>6, <2>1, <3>1
  <2>4. QED
    BY <2>2, <2>3
<1>12. CASE ReadAgreement(c)
  <2>1. Deciding(c) /\ UNCHANGED <<registry, had, request>>
    BY <1>12 DEF ReadAgreement, Deciding
  <2>2. CASE <<s, r>> \in agreements
    <3>1. Entitled(had[c])
      BY <1>2, <1>2a, <2>1, <2>2 DEF Within, Facts, Entitled
    <3>2. QED
      BY <1>1, <1>4, <1>12, <2>1, <2>2, <3>1 DEF ReadAgreement
  <2>3. CASE <<s, r>> \notin agreements
    <3>1. pc'[c] = "idle" /\ answer'[c] = "denied"
      BY <1>1, <1>12, <2>3 DEF TypeOK, ReadAgreement, Denied, Answer
    <3>2. QED
      BY <1>5, <3>1
  <2>4. QED
    BY <2>2, <2>3
<1>13. CASE Refused(c) \/ StoreFails(c) \/ RecordAccess(c)
  <2>1. pc'[c] = "idle" /\ answer'[c] # "erased"
    BY <1>13 DEF TypeOK, Refused, StoreFails, RecordAccess, Answer
  <2>2. QED
    BY <1>5, <2>1
<1>14. CASE soft_delete(c)
  <2>1. pc[c] = "append" /\ pc'[c] = "idle" /\ had' = had
    BY <1>14 DEF TypeOK, soft_delete, Answer
  <2>2. Entitled(had[c])
    BY <2>1 DEF ErasingAt
  <2>3. QED
    BY <2>1, <2>2 DEF ErasingAt, Deciding, Entitled
<1>15. CASE ReadHistory(c)
  <2>1. pc'[c] = "record" /\ answer' = answer /\ had' = had
    BY <1>15 DEF TypeOK, ReadHistory
  <2>2. QED
    BY <2>1 DEF ErasingAt, Deciding, Entitled
<1>16. QED
  BY <1>7, <1>8, <1>9, <1>10, <1>11, <1>12, <1>13, <1>14, <1>15 DEF Handler

\* Every step keeps what handlers have found out true.
LEMMA ErasingStep ==
    ASSUME TypeOK, Erasing, [Next]_vars
    PROVE  Erasing'
<1> SUFFICES ASSUME NEW d \in Clients PROVE ErasingAt(d)'
  BY DEF Erasing
<1>1. ErasingAt(d)
  BY DEF Erasing
<1>2. ASSUME NEW c \in Clients, Handler(c) PROVE ErasingAt(d)'
  <2>1. CASE d = c
    BY <1>1, <1>2, <2>1, ErasingReads
  <2>2. CASE d # c
    <3>1. UNCHANGED registry
      BY <1>2 DEF Handler, Authenticated, Begin, Refused, evaluate_access,
         ReadOwner, ReadGroups, ReadResourceGroups, ReadAgreement, soft_delete,
         ReadHistory, RecordAccess, StoreFails, registry
    <3>2. QED
      BY <1>1, <1>2, <2>2, <3>1, OwnRequest, ErasingWaits
  <2>3. QED
    BY <2>1, <2>2
<1>3. CASE RegistryChange
  BY <1>1, <1>3, ErasingChange
<1>4. ASSUME NEW r \in Resources, HostRecords(r) PROVE ErasingAt(d)'
  BY <1>1, <1>4, ErasingWaits DEF HostRecords, handler, ghosts
<1>5. CASE UNCHANGED vars
  BY <1>1, <1>5, ErasingWaits DEF vars, handler, ghosts
<1>6. QED
  BY <1>2, <1>3, <1>4, <1>5 DEF Next, Host, RegistryChange

(***************************************************************************)
(* No interleaving of the reads of evaluate_access with the writes of the  *)
(* registry lets anyone erase a resource whose grounds did not hold while  *)
(* the request was decided.                                                *)
(***************************************************************************)
THEOREM ErasureWasGrantedCorrect == Spec => []ErasureWasGranted
<1>1. Init => TypeOK /\ Erasing
  BY InitTypes DEF Init, Erasing, ErasingAt, Deciding
<1>2. TypeOK /\ Erasing /\ [Next]_vars => (TypeOK /\ Erasing)'
  BY TypeStep, ErasingStep
<1>3. Erasing => ErasureWasGranted
  BY DEF Erasing, ErasingAt, ErasureWasGranted
<1>4. QED
  BY <1>1, <1>2, <1>3, PTL DEF Spec

-----------------------------------------------------------------------------
(* Denials.  What a request has had all the time, held, is below what it   *)
(* has now; so whatever a read finds missing was not held.                 *)

Below(a, b) ==
    /\ a.owner => b.owner
    /\ a.groups \subseteq b.groups
    /\ a.agreement => b.agreement

HeldNow(c) ==
    pc[c] # "idle" => Below(held[c], Grants(request[c].id, request[c].resource))

\* What the reads so far have ruled out.
RuledOut(c) ==
    /\ pc[c] \in {"groups", "resource_groups", "agreement"} => ~held[c].owner
    /\ pc[c] = "resource_groups" => held[c].groups \subseteq found[c]
    /\ pc[c] = "agreement" => held[c].groups = {}

DeniedRightly(c) ==
    answer[c] = "denied" /\ request[c].policy = "Restricted" => held[c] = NoGrant

Honoured == \A c \in Clients : HeldNow(c) /\ RuledOut(c) /\ DeniedRightly(c)

\* What two grants have in common is below both.
LEMMA CommonBelow ==
    ASSUME NEW a \in Granted, NEW b \in Granted
    PROVE  Below(Common(a, b), a) /\ Below(Common(a, b), b)
BY DEF Common, Below, Granted

\* A grant below none is none.
LEMMA BelowNone ==
    ASSUME NEW a \in Granted, Below(a, NoGrant)
    PROVE  a = NoGrant
BY DEF Below, Granted, NoGrant

\* A step that leaves a request and the registry alone keeps what is known.
LEMMA HonouredWaits ==
    ASSUME NEW c \in Clients, HeldNow(c), RuledOut(c), DeniedRightly(c),
           UNCHANGED registry, pc'[c] = pc[c], request'[c] = request[c],
           found'[c] = found[c], answer'[c] = answer[c], held'[c] = held[c]
    PROVE  (HeldNow(c) /\ RuledOut(c) /\ DeniedRightly(c))'
BY DEF registry, HeldNow, RuledOut, DeniedRightly, Grants, IsOwner, GroupsFor

\* A change of the registry takes from held what is no more.
LEMMA HonouredChange ==
    ASSUME TypeOK, RegistryChange, NEW c \in Clients,
           HeldNow(c), RuledOut(c), DeniedRightly(c)
    PROVE  (HeldNow(c) /\ RuledOut(c) /\ DeniedRightly(c))'
<1>1. Change
  BY DEF RegistryChange, add_account, add_group, set_owner,
         accept_agreement, authorize_group
<1>2. TypeOK'
  BY ChangeTypes
<1>3. UNCHANGED handler
  BY <1>1 DEF Change
<1>4. PICK s \in Subjects, r \in Resources :
          s = request[c].id /\ r = request[c].resource
  BY DEF TypeOK, Requests
<1>5. PICK g \in Granted : g = Grants(s, r)'
  <2>1. /\ accounts' \subseteq Subjects
        /\ owner' \in [Resources -> Subjects]
        /\ members' \in [Groups -> SUBSET Subjects]
        /\ authorized' \in [Resources -> SUBSET Groups]
    BY <1>2 DEF TypeOK
  <2>2. Grants(s, r)' \in Granted
    BY <2>1 DEF Grants, Granted, IsOwner, GroupsFor
  <2>3. QED
    BY <2>2
<1>6. Grants(request[c].id, request[c].resource)' = g
  BY <1>3, <1>4, <1>5 DEF handler, Grants, IsOwner, GroupsFor
<1>7. held'[c] = Common(held[c], g)
  BY <1>1, <1>6 DEF Change
<1>8. held[c] \in Granted /\ held'[c] \in Granted
  BY <1>2 DEF TypeOK
<1>9. Below(held'[c], held[c]) /\ Below(held'[c], g)
  BY <1>5, <1>7, <1>8, CommonBelow
<1>10. HeldNow(c)'
  BY <1>6, <1>9 DEF HeldNow, Below
<1>11. RuledOut(c)'
  BY <1>3, <1>9 DEF RuledOut, Below, handler
<1>12. DeniedRightly(c)'
  BY <1>3, <1>8, <1>9, BelowNone DEF DeniedRightly, handler
<1>13. QED
  BY <1>10, <1>11, <1>12

\* The steps of its handler read what rules a grant out.
LEMMA HonouredReads ==
    ASSUME TypeOK, NEW c \in Clients, Handler(c),
           HeldNow(c), RuledOut(c), DeniedRightly(c)
    PROVE  (HeldNow(c) /\ RuledOut(c) /\ DeniedRightly(c))'
<1> USE DEF handler, ghosts
<1>1. PICK s \in Subjects, r \in Resources :
          s = request[c].id /\ r = request[c].resource
  BY DEF TypeOK, Requests
<1>2. PICK g \in Granted : g = Grants(s, r)
  BY GrantsType
<1>3. held[c] \in Granted
  BY DEF TypeOK
<1>4. ASSUME UNCHANGED <<registry, held, request>>, pc[c] # "idle"
      PROVE  HeldNow(c)'
  BY <1>4 DEF registry, HeldNow, Grants, IsOwner, GroupsFor
<1>5. ASSUME pc'[c] \notin {"groups", "resource_groups", "agreement"}
      PROVE  RuledOut(c)'
  BY <1>5 DEF RuledOut
<1>6. ASSUME UNCHANGED <<held, request>>,
             answer'[c] = answer[c] \/ answer'[c] # "denied"
      PROVE  DeniedRightly(c)'
  BY <1>6 DEF DeniedRightly
<1>7. ASSUME Allowed(c)
      PROVE  /\ pc'[c] \in {"append", "idle"}
             /\ answer'[c] = answer[c] \/ answer'[c] # "denied"
  BY <1>7 DEF TypeOK, Allowed, Answer
<1>8. ASSUME Denied(c)
      PROVE  pc'[c] = "idle" /\ answer'[c] = "denied"
  BY <1>8 DEF TypeOK, Denied, Answer
<1>9. ASSUME pc[c] # "idle"
      PROVE  Below(held[c], g)
  BY <1>1, <1>2, <1>9 DEF HeldNow
<1>10. ASSUME NEW q \in Inputs, Authenticated(c, q)
       PROVE  (HeldNow(c) /\ RuledOut(c) /\ DeniedRightly(c))'
  <2>1. /\ request'[c] = q /\ answer'[c] = "none"
        /\ held'[c] = Grants(q.id, q.resource)
        /\ pc'[c] \in {"history", "evaluate"}
        /\ UNCHANGED registry
    BY <1>10 DEF TypeOK, Authenticated, Begin
  <2>2. HeldNow(c)'
    BY <2>1 DEF HeldNow, Below, registry, Grants, IsOwner, GroupsFor
  <2>3. QED
    BY <1>5, <2>1, <2>2 DEF DeniedRightly
<1>11. CASE Refused(c)
  <2>1. pc'[c] = "idle" /\ answer'[c] = "refused" /\ UNCHANGED <<held, request>>
    BY <1>11 DEF TypeOK, Refused, Answer
  <2>2. QED
    BY <1>5, <1>6, <2>1 DEF HeldNow
<1>12. CASE soft_delete(c) \/ RecordAccess(c) \/ StoreFails(c)
  <2>1. pc'[c] = "idle" /\ answer'[c] # "denied" /\ UNCHANGED <<held, request>>
    BY <1>12 DEF TypeOK, soft_delete, RecordAccess, StoreFails, Answer
  <2>2. QED
    BY <1>5, <1>6, <2>1 DEF HeldNow
<1>13. CASE ReadHistory(c)
  <2>1. /\ pc[c] = "history" /\ pc'[c] = "record"
        /\ UNCHANGED <<registry, held, request, answer>>
    BY <1>13 DEF TypeOK, ReadHistory
  <2>2. QED
    BY <1>4, <1>5, <1>6, <2>1
<1>14. CASE evaluate_access(c)
  <2>1. pc[c] = "evaluate" /\ UNCHANGED <<registry, held, request>>
    BY <1>14 DEF evaluate_access
  <2>2. request[c].policy \in Policies
    BY DEF TypeOK, Requests
  <2>3. CASE request[c].policy = "Restricted"
    <3>1. pc'[c] = "owner" /\ UNCHANGED answer
      BY <1>14, <2>3 DEF TypeOK, evaluate_access
    <3>2. QED
      BY <1>4, <1>5, <1>6, <2>1, <3>1
  <2>4. CASE request[c].policy # "Restricted"
    <3>1. Allowed(c) \/ Denied(c)
      BY <1>14, <2>2, <2>4 DEF evaluate_access, Policies
    <3>2. pc'[c] \in {"append", "idle"}
      BY <1>7, <1>8, <3>1
    <3>3. DeniedRightly(c)'
      BY <2>1, <2>4 DEF DeniedRightly
    <3>4. QED
      BY <1>4, <1>5, <2>1, <3>2, <3>3
  <2>5. QED
    BY <2>3, <2>4
<1>15. CASE ReadOwner(c)
  <2>1. pc[c] = "owner" /\ UNCHANGED <<registry, held, request>>
    BY <1>15 DEF ReadOwner
  <2>2. CASE IsOwner(s, r)
    <3>1. Allowed(c)
      BY <1>1, <1>15, <2>2 DEF ReadOwner
    <3>2. QED
      BY <1>4, <1>5, <1>6, <1>7, <2>1, <3>1
  <2>3. CASE ~IsOwner(s, r)
    <3>1. pc'[c] = "groups" /\ UNCHANGED answer
      BY <1>1, <1>15, <2>3 DEF TypeOK, ReadOwner
    <3>2. ~held[c].owner
      BY <1>2, <1>9, <2>1, <2>3 DEF Below, Grants
    <3>3. QED
      BY <1>4, <1>6, <2>1, <3>1, <3>2 DEF RuledOut
  <2>4. QED
    BY <2>2, <2>3
<1>16. CASE ReadGroups(c)
  <2>1. /\ pc[c] = "groups" /\ UNCHANGED <<registry, held, request, answer>>
        /\ found'[c] = GroupsFor(s)
        /\ pc'[c] = IF GroupsFor(s) = {} THEN "agreement" ELSE "resource_groups"
    BY <1>1, <1>16 DEF TypeOK, ReadGroups
  <2>2. held[c].groups \subseteq GroupsFor(s)
    BY <1>2, <1>9, <2>1 DEF Below, Grants
  <2>3. RuledOut(c)'
    BY <2>1, <2>2 DEF RuledOut
  <2>4. QED
    BY <1>4, <1>6, <2>1, <2>3
<1>17. CASE ReadResourceGroups(c)
  <2>1. pc[c] = "resource_groups" /\ UNCHANGED <<registry, held, request>>
    BY <1>17 DEF ReadResourceGroups
  <2>2. CASE InAuthorizedGroup(c)
    <3>1. Allowed(c)
      BY <1>17, <2>2 DEF ReadResourceGroups
    <3>2. QED
      BY <1>4, <1>5, <1>6, <1>7, <2>1, <3>1
  <2>3. CASE ~InAuthorizedGroup(c)
    <3>1. pc'[c] = "agreement" /\ UNCHANGED answer
      BY <1>17, <2>3 DEF TypeOK, ReadResourceGroups
    <3>2. held[c].groups \subseteq found[c]
      BY <2>1 DEF RuledOut
    <3>3. held[c].groups \subseteq authorized[r]
      BY <1>2, <1>9, <2>1 DEF Below, Grants
    <3>4. held[c].groups = {}
      BY <1>1, <2>3, <3>2, <3>3 DEF InAuthorizedGroup
    <3>5. RuledOut(c)'
      BY <2>1, <3>1, <3>4 DEF RuledOut
    <3>6. QED
      BY <1>4, <1>6, <2>1, <3>1, <3>5
  <2>4. QED
    BY <2>2, <2>3
<1>18. CASE ReadAgreement(c)
  <2>1. pc[c] = "agreement" /\ UNCHANGED <<registry, held, request>>
    BY <1>18 DEF ReadAgreement
  <2>2. CASE <<s, r>> \in agreements
    <3>1. Allowed(c)
      BY <1>1, <1>18, <2>2 DEF ReadAgreement
    <3>2. QED
      BY <1>4, <1>5, <1>6, <1>7, <2>1, <3>1
  <2>3. CASE <<s, r>> \notin agreements
    <3>1. Denied(c)
      BY <1>1, <1>18, <2>3 DEF ReadAgreement
    <3>2. ~held[c].agreement
      BY <1>2, <1>9, <2>1, <2>3 DEF Below, Grants
    <3>3. ~held[c].owner /\ held[c].groups = {}
      BY <2>1 DEF RuledOut
    <3>4. held[c] = NoGrant
      BY <1>3, <3>2, <3>3, BelowNone DEF Below, NoGrant
    <3>5. DeniedRightly(c)'
      BY <2>1, <3>4 DEF DeniedRightly
    <3>6. QED
      BY <1>4, <1>5, <1>8, <2>1, <3>1, <3>5
  <2>4. QED
    BY <2>2, <2>3
<1>19. QED
  BY <1>10, <1>11, <1>12, <1>13, <1>14, <1>15, <1>16, <1>17, <1>18 DEF Handler

\* Every step keeps grants honoured.
LEMMA HonouredStep ==
    ASSUME TypeOK, Honoured, [Next]_vars
    PROVE  Honoured'
<1> SUFFICES ASSUME NEW d \in Clients
             PROVE  (HeldNow(d) /\ RuledOut(d) /\ DeniedRightly(d))'
  BY DEF Honoured
<1>1. HeldNow(d) /\ RuledOut(d) /\ DeniedRightly(d)
  BY DEF Honoured
<1>2. ASSUME NEW c \in Clients, Handler(c)
      PROVE  (HeldNow(d) /\ RuledOut(d) /\ DeniedRightly(d))'
  <2>1. CASE d = c
    BY <1>1, <1>2, <2>1, HonouredReads
  <2>2. CASE d # c
    <3>1. UNCHANGED registry
      BY <1>2 DEF Handler, Authenticated, Begin, Refused, evaluate_access,
         ReadOwner, ReadGroups, ReadResourceGroups, ReadAgreement, soft_delete,
         ReadHistory, RecordAccess, StoreFails, registry
    <3>2. QED
      BY <1>1, <1>2, <2>2, <3>1, OwnRequest, HonouredWaits
  <2>3. QED
    BY <2>1, <2>2
<1>3. CASE RegistryChange
  BY <1>1, <1>3, HonouredChange
<1>4. ASSUME NEW r \in Resources, HostRecords(r)
      PROVE  (HeldNow(d) /\ RuledOut(d) /\ DeniedRightly(d))'
  BY <1>1, <1>4, HonouredWaits DEF HostRecords, handler, ghosts
<1>5. CASE UNCHANGED vars
  BY <1>1, <1>5, HonouredWaits DEF vars, handler, ghosts
<1>6. QED
  BY <1>2, <1>3, <1>4, <1>5 DEF Next, Host, RegistryChange

(***************************************************************************)
(* Whoever keeps a grant during a request is not denied by                 *)
(* evaluate_access, whatever else changes between its reads.               *)
(***************************************************************************)
THEOREM GrantIsHonouredCorrect == Spec => []GrantIsHonoured
<1>1. Init => TypeOK /\ Honoured
  BY InitTypes DEF Init, Honoured, HeldNow, RuledOut, DeniedRightly
<1>2. TypeOK /\ Honoured /\ [Next]_vars => (TypeOK /\ Honoured)'
  BY TypeStep, HonouredStep
<1>3. Honoured => GrantIsHonoured
  BY DEF Honoured, DeniedRightly, GrantIsHonoured
<1>4. QED
  BY <1>1, <1>2, <1>3, PTL DEF Spec

-----------------------------------------------------------------------------
(* Exports.  The log only grows, so what was there when a request began is *)
(* still there when its history is read, and the entry of the access comes *)
(* after all of it.                                                        *)

Audited(c) ==
    /\ past[c] \subseteq history[c]
    /\ \E i \in 1..Len(log) \ history[c] :
          log[i] = Entry(request[c].resource, request[c].id, "accessed",
                         Cardinality(history[c]))

ExportAt(c) ==
    /\ pc[c] # "idle" => answer[c] = "none"
    /\ pc[c] = "history" => past[c] \subseteq HistoryOf(request[c].resource)
    /\ pc[c] = "record" => past[c] \subseteq history[c]
    /\ answer[c] = "exported" => Audited(c)

Exporting == \A c \in Clients : ExportAt(c)

\* What a step does to the log.
LogGrows ==
    /\ Len(log) \in Nat
    /\ 1..Len(log) \subseteq 1..Len(log')
    /\ \A i \in 1..Len(log) : log'[i] = log[i]

\* Entries stay where they are.
LEMMA LogStep ==
    ASSUME TypeOK, [Next]_vars
    PROVE  LogGrows
<1> USE DEF registry, handler, ghosts
<1>1. ASSUME NEW e \in Entries, Append1(e) PROVE LogGrows
  BY <1>1, AppendGrows DEF LogGrows
<1>2. ASSUME log' = log PROVE LogGrows
  BY <1>2 DEF LogGrows, TypeOK
<1>3. ASSUME NEW c \in Clients, soft_delete(c) PROVE LogGrows
  <2> DEFINE e == Entry(request[c].resource, request[c].id, "deleted", 0)
  <2>1. e \in Entries
    BY DEF TypeOK, Requests, Entry, Entries, Activities
  <2>2. Append1(e)
    BY <1>3 DEF soft_delete
  <2> HIDE DEF e
  <2>3. QED
    BY <1>1, <2>1, <2>2
<1>4. ASSUME NEW c \in Clients, RecordAccess(c) PROVE LogGrows
  <2> DEFINE e == Entry(request[c].resource, request[c].id, "accessed",
                        Cardinality(history[c]))
  <2>1. e \in Entries
    BY RowsType DEF TypeOK, Requests, Entry, Entries, Activities
  <2>2. Append1(e)
    BY <1>4 DEF RecordAccess
  <2> HIDE DEF e
  <2>3. QED
    BY <1>1, <2>1, <2>2
<1>5. ASSUME NEW r \in Resources, HostRecords(r) PROVE LogGrows
  <2> DEFINE e == Entry(r, Operator, "amended", 0)
  <2>1. e \in Entries
    BY DEF Entry, Entries, Activities
  <2>2. Append1(e)
    BY <1>5 DEF HostRecords
  <2> HIDE DEF e
  <2>3. QED
    BY <1>1, <2>1, <2>2
<1>6. CASE RegistryChange \/ UNCHANGED vars
  <2>1. log' = log
    BY <1>6 DEF RegistryChange, add_account, add_group, set_owner,
       accept_agreement, authorize_group, Change, vars
  <2>2. QED
    BY <1>2, <2>1
<1>7. ASSUME NEW c \in Clients, Handler(c), ~soft_delete(c), ~RecordAccess(c)
      PROVE  LogGrows
  <2>1. log' = log
    BY <1>7 DEF Handler, Authenticated, Begin, Refused, evaluate_access,
       ReadOwner, ReadGroups, ReadResourceGroups, ReadAgreement, ReadHistory,
       StoreFails
  <2>2. QED
    BY <1>2, <2>1
<1>8. QED
  BY <1>3, <1>4, <1>5, <1>6, <1>7 DEF Next, Host, RegistryChange

\* A growing log keeps what is known of an export that waits.
LEMMA ExportWaits ==
    ASSUME LogGrows, NEW c \in Clients, ExportAt(c), pc'[c] = pc[c],
           request'[c] = request[c], history'[c] = history[c],
           answer'[c] = answer[c], past'[c] = past[c]
    PROVE  ExportAt(c)'
<1>1. PICK r : r = request[c].resource
  OBVIOUS
<1>2. HistoryOf(r) \subseteq HistoryOf(r)'
  BY DEF LogGrows, HistoryOf
<1>3. HistoryOf(request[c].resource) \subseteq HistoryOf(request[c].resource)'
  BY <1>1, <1>2 DEF HistoryOf
<1>4. Audited(c) => Audited(c)'
  BY DEF Audited, LogGrows, Entry
<1>5. QED
  BY <1>3, <1>4 DEF ExportAt

\* The steps of its handler carry an export on.
LEMMA ExportReads ==
    ASSUME TypeOK, NEW c \in Clients, ExportAt(c), Handler(c)
    PROVE  ExportAt(c)'
<1> USE DEF handler, ghosts
<1>1. ASSUME pc'[c] \notin {"history", "record"}, answer'[c] # "exported",
             pc'[c] # "idle" => answer'[c] = "none"
      PROVE  ExportAt(c)'
  BY <1>1 DEF ExportAt
<1>2. ASSUME pc[c] # "idle", Allowed(c) \/ Denied(c) PROVE ExportAt(c)'
  BY <1>1, <1>2 DEF TypeOK, ExportAt, Allowed, Denied, Answer
<1>3. ASSUME NEW q \in Inputs, Authenticated(c, q) PROVE ExportAt(c)'
  <2>1. /\ request'[c] = q /\ answer'[c] = "none"
        /\ past'[c] = HistoryOf(q.resource)
        /\ pc'[c] \in {"history", "evaluate"} /\ log' = log
    BY <1>3 DEF TypeOK, Authenticated, Begin
  <2>2. QED
    BY <2>1 DEF ExportAt, HistoryOf
<1>4. CASE Refused(c) \/ StoreFails(c) \/ soft_delete(c)
  BY <1>1, <1>4 DEF TypeOK, Refused, StoreFails, soft_delete, Answer
<1>5. CASE evaluate_access(c)
  <2>1. pc[c] = "evaluate" /\ request[c].policy \in Policies
    BY <1>5 DEF evaluate_access, TypeOK, Requests
  <2>2. CASE request[c].policy = "Restricted"
    <3>1. pc'[c] = "owner" /\ answer'[c] = answer[c]
      BY <1>5, <2>2 DEF TypeOK, evaluate_access
    <3>2. QED
      BY <1>1, <2>1, <3>1 DEF ExportAt
  <2>3. CASE request[c].policy # "Restricted"
    BY <1>2, <1>5, <2>1, <2>3 DEF evaluate_access, Policies
  <2>4. QED
    BY <2>2, <2>3
<1>6. CASE ReadOwner(c) \/ ReadResourceGroups(c)
  <2>1. pc[c] \in {"owner", "resource_groups"}
    BY <1>6 DEF ReadOwner, ReadResourceGroups
  <2>2. CASE Allowed(c)
    BY <1>2, <2>1, <2>2
  <2>3. CASE ~Allowed(c)
    <3>1. pc'[c] \in {"groups", "agreement"} /\ answer'[c] = answer[c]
      BY <1>6, <2>3 DEF TypeOK, ReadOwner, ReadResourceGroups
    <3>2. QED
      BY <1>1, <2>1, <3>1 DEF ExportAt
  <2>4. QED
    BY <2>2, <2>3
<1>7. CASE ReadGroups(c)
  <2>1. /\ pc[c] = "groups" /\ answer'[c] = answer[c]
        /\ pc'[c] \in {"agreement", "resource_groups"}
    BY <1>7 DEF TypeOK, ReadGroups
  <2>2. QED
    BY <1>1, <2>1 DEF ExportAt
<1>8. CASE ReadAgreement(c)
  BY <1>2, <1>8 DEF ReadAgreement
<1>9. CASE ReadHistory(c)
  <2>1. /\ pc[c] = "history" /\ pc'[c] = "record"
        /\ history'[c] = HistoryOf(request[c].resource)
        /\ answer'[c] = answer[c] /\ past'[c] = past[c]
    BY <1>9 DEF TypeOK, ReadHistory
  <2>2. QED
    BY <2>1 DEF ExportAt
<1>10. CASE RecordAccess(c)
  <2> DEFINE e == Entry(request[c].resource, request[c].id, "accessed",
                        Cardinality(history[c]))
  <2>1. e \in Entries
    BY RowsType DEF TypeOK, Requests, Entry, Entries, Activities
  <2>2. Append1(e) /\ UNCHANGED <<request, history, past>>
    BY <1>10 DEF RecordAccess
  <2>3. e = Entry(request'[c].resource, request'[c].id, "accessed",
                  Cardinality(history'[c]))
    BY <2>2
  <2> HIDE DEF e
  <2>4. /\ Len(log') = Len(log) + 1 /\ Len(log) \in Nat
        /\ log'[Len(log) + 1] = e
    BY <2>1, <2>2, AppendGrows
  <2>5. Len(log) + 1 \in 1..Len(log') \ history'[c]
    <3>1. history[c] \subseteq 1..Len(log)
      BY DEF TypeOK
    <3>2. Len(log) + 1 \notin history[c]
      BY <2>4, <3>1
    <3>3. QED
      BY <2>2, <2>4, <3>2
  <2>6. past'[c] \subseteq history'[c]
    BY <1>10, <2>2 DEF ExportAt, RecordAccess
  <2>7. Audited(c)'
    BY <2>3, <2>4, <2>5, <2>6 DEF Audited, Entry
  <2>8. pc'[c] = "idle"
    BY <1>10 DEF TypeOK, RecordAccess, Answer
  <2>9. QED
    BY <2>7, <2>8 DEF ExportAt
<1>11. QED
  BY <1>3, <1>4, <1>5, <1>6, <1>7, <1>8, <1>9, <1>10 DEF Handler

\* Every step carries every export on.
LEMMA ExportStep ==
    ASSUME TypeOK, Exporting, [Next]_vars
    PROVE  Exporting'
<1> SUFFICES ASSUME NEW d \in Clients PROVE ExportAt(d)'
  BY DEF Exporting
<1>1. ExportAt(d) /\ LogGrows
  BY LogStep DEF Exporting
<1>2. ASSUME NEW c \in Clients, Handler(c) PROVE ExportAt(d)'
  <2>1. CASE d = c
    BY <1>1, <1>2, <2>1, ExportReads
  <2>2. CASE d # c
    BY <1>1, <1>2, <2>2, OwnRequest, ExportWaits
  <2>3. QED
    BY <2>1, <2>2
<1>3. CASE Host \/ UNCHANGED vars
  <2>1. UNCHANGED <<handler, past>>
    BY <1>3 DEF Host, add_account, add_group, set_owner, accept_agreement,
       authorize_group, HostRecords, Change, vars, ghosts
  <2>2. QED
    BY <1>1, <2>1, ExportWaits DEF handler
<1>4. QED
  BY <1>2, <1>3 DEF Next

(***************************************************************************)
(* An answered access_export contains all that had been recorded when it   *)
(* was asked for, and its own entry follows it in the store.               *)
(***************************************************************************)
THEOREM ExportIsAuditedCorrect == Spec => []ExportIsAudited
<1>1. Init => TypeOK /\ Exporting
  BY InitTypes DEF Init, Exporting, ExportAt
<1>2. TypeOK /\ Exporting /\ [Next]_vars => (TypeOK /\ Exporting)'
  BY TypeStep, ExportStep
<1>3. Exporting => ExportIsAudited
  BY DEF Exporting, ExportAt, Audited, ExportIsAudited
<1>4. QED
  BY <1>1, <1>2, <1>3, PTL DEF Spec
=============================================================================
