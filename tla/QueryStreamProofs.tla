------------------------- MODULE QueryStreamProofs -------------------------
(***************************************************************************)
(* Proofs about QueryStream, for any hosts, capacity of the channel, size  *)
(* of a result and limits.                                                 *)
(***************************************************************************)
EXTENDS QueryStream, TLAPS

-----------------------------------------------------------------------------
(* The inductive invariant.                                                *)

TaskPc == {"off", "send", "read", "put", "fail", "end", "panicked"}
Task == [pc : TaskPc, host : Nat, held : Seq(Nat), rest : {"good", "garbage"}]

\* Every variable has its type.
TypeOK ==
    /\ call \in [op : Operations, mode : ExecutionRuntimeMode, size : Nat]
    /\ state \in {"new", "authorized", "streaming", "waiting"} \cup Ended
    /\ cancel \in BOOLEAN /\ polled \in BOOLEAN /\ open \in BOOLEAN
    /\ task \in Task
    /\ sent \in Nat /\ ran \in Nat /\ before \in Nat
    /\ chan \in Seq(Nat) /\ seen \in Seq(Nat)

\* Where the caller and the task can be at the same time.  A caller that is
\* still streaming has a channel, and only such a caller; one that awaits the
\* answer itself waits exactly as long as the task is at work.
Control ==
    /\ open <=> state = "streaming"
    /\ ~open => chan = <<>> /\ ~polled
    /\ task.pc \in {"off", "send", "read", "fail"} => task.held = <<>>
    /\ task.pc = "off" => sent = 0 /\ seen = <<>>
    /\ state \in {"new", "authorized"} => task.pc = "off"
    /\ call.op = "stream" =>
          /\ state # "waiting"
          /\ task.pc = "off" => state # "streaming" /\ state # "complete"
    /\ call.op # "stream" =>
          /\ state \notin {"authorized", "streaming"} /\ ~cancel
          /\ task.pc \in {"off", "send", "read", "end"}
          /\ state = "waiting" <=> task.pc \in {"send", "read"}

\* The last item of the channel is the error of the task.
Failed == chan # <<>> /\ chan[Len(chan)] = Failure

\* The batches 1..sent of the body are with the caller, in the channel and
\* with the task, in this order.
Flow ==
    /\ sent <= call.size
    /\ \A i \in 1..Len(seen) : seen[i] = i
    /\ \A i \in 1..Len(task.held) : task.held[i] = sent - Len(task.held) + i
    /\ Len(seen) <= sent
    /\ state = "streaming" =>
          /\ task.pc = "end" => task.held = <<>>
          /\ Failed =>
                /\ task.pc = "end"
                /\ Len(seen) + Len(chan) = sent + 1
                /\ \A i \in 1..(Len(chan) - 1) : chan[i] = Len(seen) + i
          /\ ~Failed =>
                /\ Len(seen) + Len(chan) + Len(task.held) = sent
                /\ \A i \in 1..Len(chan) : chan[i] = Len(seen) + i
                /\ task.pc = "end" => sent = call.size
    /\ state = "complete" /\ task.pc # "panicked" => Len(seen) = call.size

\* What a collected SELECT has given and an INSERT has done.
Unary ==
    /\ call.op = "select" =>
          seen = IF state = "complete" THEN Batches(call.size) ELSE <<>>
    /\ call.op = "select" /\ state = "complete" => task.pc = "end"
    /\ call.op = "insert" =>
          /\ seen = <<>> /\ task.pc # "read"
          /\ task.pc \in {"off", "send"} => ran = 0
          /\ ran <= 1
          /\ state = "complete" => IF task.pc = "off" THEN call.size = 0 ELSE ran = 1

\* Once the token has fired, a poll that has not looked at it is the last.
Stopping == cancel => Len(seen) <= before + (IF polled THEN 0 ELSE 1)

Inv == /\ TypeOK /\ Control /\ Unary /\ Stopping
       /\ call.op = "stream" => Flow

-----------------------------------------------------------------------------
(* Types.                                                                  *)

\* The task is a record of its own kind after every assignment.
LEMMA TaskType ==
    ASSUME TypeOK
    PROVE  /\ task.pc \in TaskPc /\ task.host \in Nat
           /\ task.held \in Seq(Nat) /\ task.rest \in {"good", "garbage"}
           /\ \A pc \in TaskPc :
                 /\ [task EXCEPT !.pc = pc].pc = pc
                 /\ [task EXCEPT !.pc = pc].held = task.held
                 /\ [task EXCEPT !.pc = pc] \in Task
BY DEF TypeOK, Task

\* Sequences of batches.
LEMMA SeqType ==
    /\ <<>> \in Seq(Nat)
    /\ \A s \in Seq(Nat), x \in Nat : Append(s, x) \in Seq(Nat)
    /\ \A s \in Seq(Nat) : s # <<>> => Head(s) \in Nat /\ Tail(s) \in Seq(Nat)
    /\ \A k \in Nat, b \in Nat : [i \in 1..k |-> b + i] \in Seq(Nat)
    /\ \A k \in Nat : Batches(k) \in Seq(Nat)
BY DEF Batches

\* A stream that is dropped leaves an empty, closed channel.
LEMMA EndCallType ==
    ASSUME NEW how, EndCall(how)
    PROVE  /\ state' = how /\ chan' \in Seq(Nat)
           /\ open' \in BOOLEAN /\ polled' \in BOOLEAN
BY SeqType DEF EndCall

\* A request has a mode.
LEMMA ModeType ==
    ASSUME NEW bytes \in Nat, NEW hint \in QueryTimeoutClass
    PROVE  resolve_runtime_mode(bytes, hint) \in ExecutionRuntimeMode
<1>1. runtime_mode_for_estimate(bytes) \in ExecutionRuntimeMode
  BY DEF runtime_mode_for_estimate, ExecutionRuntimeMode
<1>2. CASE hint \in {"None", "Interactive"}
  BY <1>1, <1>2 DEF resolve_runtime_mode
<1>3. CASE hint = "Batch"
  BY <1>1, <1>3 DEF resolve_runtime_mode, ExecutionRuntimeMode
<1>4. CASE hint = "Export"
  BY <1>4 DEF resolve_runtime_mode, ExecutionRuntimeMode
<1>5. QED
  BY <1>2, <1>3, <1>4 DEF QueryTimeoutClass

\* The initial state satisfies the invariant.
LEMMA InvInit == Init => Inv
<1> SUFFICES ASSUME Init PROVE Inv
  OBVIOUS
<1>1. PICK op \in Operations, bytes \in Estimates, hint \in QueryTimeoutClass,
           n \in 0..MaxBatches :
         call = [op |-> op, mode |-> resolve_runtime_mode(bytes, hint), size |-> n]
  BY DEF Init
<1>2. resolve_runtime_mode(bytes, hint) \in ExecutionRuntimeMode
  BY ModeType, StreamAssumption
<1>3. call \in [op : Operations, mode : ExecutionRuntimeMode, size : Nat]
  BY <1>1, <1>2
<1>4. /\ task \in Task
      /\ task.pc = "off" /\ task.held = <<>>
  BY DEF Init, Idle, TaskPc, Task
<1>5. TypeOK
  BY <1>3, <1>4, SeqType DEF Init, TypeOK
<1>6. Control
  BY <1>4 DEF Init, Control
<1>7. Unary
  BY <1>4 DEF Init, Unary
<1>8. Stopping
  BY DEF Init, Stopping
<1>9. Flow
  BY <1>3, <1>4 DEF Init, Flow
<1>10. QED
  BY <1>5, <1>6, <1>7, <1>8, <1>9 DEF Inv

\* An error of the task, of either kind of call.
LEMMA GiveUpType ==
    ASSUME TypeOK, GiveUp
    PROVE  /\ task' \in Task
           /\ state' \in {state, "failed"}
BY TaskType DEF GiveUp, TaskPc

\* The steps of the task keep the types.
LEMMA TaskTypes == TypeOK /\ TaskStep => TypeOK'
<1> SUFFICES ASSUME TypeOK, TaskStep PROVE TypeOK'
  OBVIOUS
<1> USE DEF connection
<1>1. CASE RetryNextHost
  <2>1. task' = [task EXCEPT !.host = task.host + 1] /\ task \in Task
    BY <1>1 DEF RetryNextHost, TypeOK
  <2>2. task' \in Task
    BY <2>1 DEF Task
  <2>3. ran' \in Nat
    BY <1>1 DEF RetryNextHost, Runs, TypeOK
  <2>4. QED
    BY <1>1, <2>2, <2>3 DEF RetryNextHost, TypeOK
<1>2. CASE SendFails
  BY <1>2, GiveUpType DEF SendFails, Runs, TypeOK, Ended
<1>3. CASE SendSucceeds
  <2>1. task' \in Task
    BY <1>3, TaskType DEF SendSucceeds, TaskPc
  <2>2. state' \in {state, "complete"} /\ ran' \in Nat
    BY <1>3 DEF SendSucceeds, TypeOK
  <2>3. QED
    BY <1>3, <2>1, <2>2 DEF SendSucceeds, TypeOK, Ended
<1>4. CASE Collect
  <2>1. Batches(call.size) \in Seq(Nat)
    BY SeqType DEF TypeOK
  <2>2. task' \in Task
    BY <1>4, GiveUpType, TaskType DEF Collect, TaskPc
  <2>3. seen' \in Seq(Nat) /\ state' \in {state, "failed", "complete"}
    BY <1>4, <2>1, GiveUpType DEF Collect, TypeOK
  <2>4. QED
    BY <1>4, <2>2, <2>3 DEF Collect, TypeOK, Ended
<1>5. CASE Chunk
  <2>1. PICK k \in 0..(call.size - sent), rest \in {"good", "garbage"} :
          /\ task' = [task EXCEPT !.pc = "put", !.rest = rest,
                                  !.held = [i \in 1..k |-> sent + i]]
          /\ sent' = sent + k
    BY <1>5 DEF Chunk
  <2>2. k \in Nat /\ [i \in 1..k |-> sent + i] \in Seq(Nat)
    BY SeqType DEF TypeOK
  <2> DEFINE held == [i \in 1..k |-> sent + i]
  <2>3. task' \in Task /\ sent' \in Nat
    <3>1. /\ task' = [task EXCEPT !.pc = "put", !.rest = rest, !.held = held]
          /\ task \in Task /\ held \in Seq(Nat)
      BY <2>1, <2>2 DEF TypeOK
    <3> HIDE DEF held
    <3>2. task' \in Task
      BY <3>1 DEF Task, TaskPc
    <3>3. QED
      BY <2>1, <2>2, <3>2 DEF TypeOK
  <2>4. QED
    BY <1>5, <2>3 DEF Chunk, TypeOK
<1>6. CASE PutBatch
  <2>1. task.held # <<>> => Head(task.held) \in Nat /\ Tail(task.held) \in Seq(Nat)
    BY TaskType
  <2>2. task' \in Task
    BY <1>6, <2>1, TaskType DEF PutBatch, TypeOK, TaskPc, Task
  <2>3. chan' \in Seq(Nat)
    <3>1. chan \in Seq(Nat) /\ Head(task.held) \in Nat
      BY <1>6, <2>1 DEF PutBatch, TypeOK
    <3>2. chan' = chan \/ chan' = Append(chan, Head(task.held))
      BY <1>6 DEF PutBatch
    <3>3. QED
      BY <3>1, <3>2, SeqType
  <2>4. QED
    BY <1>6, <2>2, <2>3 DEF PutBatch, TypeOK
<1>7. CASE ChunkDone
  BY <1>7, TaskType DEF ChunkDone, TypeOK, TaskPc
<1>8. CASE BodyEnds
  BY <1>8, TaskType DEF BodyEnds, TypeOK, TaskPc
<1>9. CASE BodyBreaks
  BY <1>9, GiveUpType DEF BodyBreaks, TypeOK, Ended
<1>10. CASE PutFailure
  <2>1. chan' \in Seq(Nat)
    BY <1>10, SeqType DEF PutFailure, TypeOK, Failure
  <2>2. QED
    BY <1>10, <2>1, TaskType DEF PutFailure, TypeOK, TaskPc
<1>11. QED
  BY <1>1, <1>2, <1>3, <1>4, <1>5, <1>6, <1>7, <1>8, <1>9, <1>10 DEF TaskStep

\* A panic keeps them.
LEMMA PanicTypes == TypeOK /\ TaskPanics => TypeOK'
BY TaskType DEF TaskPanics, TypeOK, TaskPc

\* The steps of the caller and of its surroundings keep them as well.
LEMMA CallerTypes == TypeOK /\ (Caller \/ Cancel \/ ClientGone) => TypeOK'
<1> SUFFICES ASSUME TypeOK, Caller \/ Cancel \/ ClientGone PROVE TypeOK'
  OBVIOUS
<1> USE DEF connection
<1>1. CASE Authorize
  BY <1>1 DEF Authorize, TypeOK, Ended
<1>2. CASE Execute
  <2>1. task' \in Task
    BY <1>2, TaskType DEF Execute, TaskPc, TypeOK
  <2>2. chan' \in Seq(Nat) /\ open' \in BOOLEAN /\ polled' \in BOOLEAN
    BY <1>2, EndCallType DEF Execute, TypeOK
  <2>3. state' \in {"streaming"} \cup Ended
    BY <1>2 DEF Execute, EndCall, Ended, RuntimeError
  <2>4. QED
    BY <1>2, <2>1, <2>2, <2>3 DEF Execute, TypeOK
<1>3. CASE StartUnary
  <2>1. task' \in Task
    BY <1>3, TaskType DEF StartUnary, TaskPc, TypeOK
  <2>2. QED
    BY <1>3, <2>1 DEF StartUnary, TypeOK, Ended
<1>4. CASE PollToken
  BY <1>4, EndCallType DEF PollToken, TypeOK, Ended, RuntimeError
<1>5. CASE PollNext
  <2>1. chan # <<>> => Head(chan) \in Nat /\ Tail(chan) \in Seq(Nat)
    BY SeqType DEF TypeOK
  <2>2. seen' \in Seq(Nat) /\ chan' \in Seq(Nat)
    BY <1>5, <2>1, EndCallType, SeqType DEF PollNext, TypeOK
  <2>3. /\ state' \in {state, "Adapter", "complete"}
        /\ open' \in BOOLEAN /\ polled' \in BOOLEAN
    BY <1>5 DEF PollNext, EndCall, TypeOK
  <2>4. QED
    BY <1>5, <2>2, <2>3 DEF PollNext, TypeOK, Ended, RuntimeError
<1>6. CASE Cancel
  BY <1>6 DEF Cancel, TypeOK
<1>7. CASE ClientGone
  BY <1>7, EndCallType DEF ClientGone, TypeOK, Ended
<1>8. QED
  BY <1>1, <1>2, <1>3, <1>4, <1>5, <1>6, <1>7 DEF Caller

\* Every step keeps the types.
LEMMA TypeStep == TypeOK /\ [Next]_vars => TypeOK'
<1>1. UNCHANGED vars /\ TypeOK => TypeOK'
  BY DEF vars, TypeOK
<1>2. QED
  BY <1>1, TaskTypes, PanicTypes, CallerTypes DEF Next, Terminated

-----------------------------------------------------------------------------
(* Control.                                                                *)

\* A call that is ended has no channel.
LEMMA EndCallControl ==
    ASSUME NEW how, EndCall(how)
    PROVE  state' = how /\ ~open' /\ chan' = <<>> /\ ~polled'
BY DEF EndCall

\* Giving up, of either kind of call.
LEMMA GiveUpControl ==
    ASSUME TypeOK, GiveUp
    PROVE  /\ task'.held = task.held
           /\ call.op = "stream" => task'.pc = "fail" /\ state' = state
           /\ call.op # "stream" => task'.pc = "end" /\ state' = "failed"
BY TaskType DEF GiveUp, TaskPc

\* The steps of the task keep it where the caller expects it.
LEMMA TaskControl == TypeOK /\ Control /\ TaskStep => Control'
<1> SUFFICES ASSUME TypeOK, Control, TaskStep PROVE Control'
  OBVIOUS
<1>1. CASE RetryNextHost
  <2>1. task'.pc = task.pc /\ task'.held = task.held
    BY <1>1 DEF RetryNextHost, TypeOK, Task
  <2>2. QED
    BY <1>1, <2>1 DEF RetryNextHost, Control
<1>2. CASE SendFails
  BY <1>2, GiveUpControl DEF SendFails, Control
<1>3. CASE SendSucceeds
  <2>1. /\ task'.held = task.held
        /\ call.op = "insert" => task'.pc = "end" /\ state' = "complete"
        /\ call.op # "insert" => task'.pc = "read" /\ state' = state
    BY <1>3, TaskType DEF SendSucceeds, TaskPc
  <2>2. QED
    BY <1>3, <2>1 DEF SendSucceeds, Control
<1>4. CASE Collect
  <2>1. /\ task'.held = task.held /\ task'.pc = "end"
        /\ state' \in {"failed", "complete"}
    BY <1>4, GiveUpControl, TaskType DEF Collect, TaskPc
  <2>2. QED
    BY <1>4, <2>1 DEF Collect, Control
<1>5. CASE Chunk
  <2>1. task'.pc = "put"
    BY <1>5 DEF Chunk, TypeOK, Task
  <2>2. QED
    BY <1>5, <2>1 DEF Chunk, Control
<1>6. CASE PutBatch
  <2>1. task'.pc \in {"put", "end"} /\ call.op = "stream" /\ task.pc = "put"
    BY <1>6 DEF PutBatch, TypeOK, Task, Control
  <2>2. QED
    BY <1>6, <2>1 DEF PutBatch, Control
<1>7. CASE ChunkDone
  <2>1. task'.pc \in {"read", "fail"} /\ task'.held = <<>> /\ call.op = "stream"
    BY <1>7, TaskType DEF ChunkDone, Control, TaskPc
  <2>2. QED
    BY <1>7, <2>1 DEF ChunkDone, Control
<1>8. CASE BodyEnds
  <2>1. task'.pc = "end" /\ task'.held = task.held
    BY <1>8, TaskType DEF BodyEnds, TaskPc
  <2>2. QED
    BY <1>8, <2>1 DEF BodyEnds, Control
<1>9. CASE BodyBreaks
  BY <1>9, GiveUpControl DEF BodyBreaks, Control
<1>10. CASE PutFailure
  <2>1. task'.pc = "end" /\ task'.held = task.held /\ call.op = "stream"
    BY <1>10, TaskType DEF PutFailure, Control, TaskPc
  <2>2. QED
    BY <1>10, <2>1 DEF PutFailure, Control
<1>11. QED
  BY <1>1, <1>2, <1>3, <1>4, <1>5, <1>6, <1>7, <1>8, <1>9, <1>10 DEF TaskStep

\* A panic ends the task and leaves the caller where it is.
LEMMA PanicControl == TypeOK /\ Control /\ TaskPanics => Control'
<1> SUFFICES ASSUME TypeOK, Control, TaskPanics PROVE Control'
  OBVIOUS
<1>1. task'.pc = "panicked" /\ call.op = "stream"
  BY TaskType DEF TaskPanics, TaskPc
<1>2. task.pc # "off"
  BY DEF TaskPanics
<1>3. QED
  BY <1>1, <1>2 DEF TaskPanics, Control

\* So do the steps of the caller.
LEMMA CallerControl ==
    TypeOK /\ Control /\ (Caller \/ Cancel \/ ClientGone) => Control'
<1> SUFFICES ASSUME TypeOK, Control, Caller \/ Cancel \/ ClientGone
             PROVE  Control'
  OBVIOUS
<1> USE DEF connection
<1>1. CASE Authorize
  BY <1>1 DEF Authorize, Control, Refused
<1>2. CASE Execute
  <2>1. call.op = "stream" /\ task.pc = "off" /\ task.held = <<>>
    BY <1>2 DEF Execute, Control
  <2>2. CASE EndCall("NotImplemented") \/ EndCall("Cancelled") \/ EndCall("Adapter")
    <3>1. UNCHANGED <<call, task, sent, seen>>
      BY <1>2, <2>2, EndCallControl DEF Execute
    <3>2. /\ state' \in {"NotImplemented", "Cancelled", "Adapter"}
          /\ ~open' /\ chan' = <<>> /\ ~polled'
      BY <2>2, EndCallControl
    <3>3. QED
      BY <2>1, <3>1, <3>2 DEF Control
  <2>3. CASE state' = "streaming" /\ task' = [task EXCEPT !.pc = "send"]
             /\ open' = TRUE
    <3>1. task'.pc = "send" /\ task'.held = task.held
      BY <2>3, TaskType DEF TaskPc
    <3>2. QED
      BY <1>2, <2>1, <2>3, <3>1 DEF Execute, Control
  <2>4. QED
    BY <1>2, <2>2, <2>3 DEF Execute
<1>3. CASE StartUnary
  <2>1. CASE state' \in {"failed", "complete"} /\ UNCHANGED task
    BY <1>3, <2>1 DEF StartUnary, Control
  <2>2. CASE state' = "waiting" /\ task' = [task EXCEPT !.pc = "send"]
    <3>1. task'.pc = "send" /\ task'.held = task.held
      BY <2>2, TaskType DEF TaskPc
    <3>2. QED
      BY <1>3, <2>2, <3>1 DEF StartUnary, Control
  <2>3. QED
    BY <1>3, <2>1, <2>2 DEF StartUnary
<1>4. CASE PollToken
  <2>1. UNCHANGED <<call, cancel, task, sent, seen>>
    BY <1>4 DEF PollToken
  <2>2. \/ UNCHANGED <<state, chan, open>> /\ open
        \/ state' = "Cancelled" /\ ~open' /\ chan' = <<>> /\ ~polled'
    BY <1>4, EndCallControl DEF PollToken, Control
  <2>3. QED
    BY <1>4, <2>1, <2>2 DEF PollToken, Control
<1>5. CASE PollNext
  <2>1. /\ UNCHANGED <<call, cancel, task, sent>>
        /\ state = "streaming" /\ task.pc # "off" /\ call.op = "stream" /\ open
    BY <1>5 DEF PollNext, Control, TypeOK, Operations
  <2>2. \/ UNCHANGED <<state, open>> /\ ~polled'
        \/ state' \in {"Adapter", "complete"} /\ ~open' /\ chan' = <<>> /\ ~polled'
    BY <1>5, EndCallControl DEF PollNext
  <2>3. QED
    BY <2>1, <2>2 DEF Control
<1>6. CASE Cancel
  BY <1>6 DEF Cancel, Control
<1>7. CASE ClientGone
  <2>1. state' = "gone" /\ ~open' /\ chan' = <<>> /\ ~polled'
    BY <1>7, EndCallControl DEF ClientGone
  <2>2. QED
    BY <1>7, <2>1 DEF ClientGone, Control
<1>8. QED
  BY <1>1, <1>2, <1>3, <1>4, <1>5, <1>6, <1>7 DEF Caller

\* Every step keeps control.
LEMMA ControlStep == TypeOK /\ Control /\ [Next]_vars => Control'
<1>1. UNCHANGED vars /\ Control => Control'
  BY DEF vars, Control
<1>2. QED
  BY <1>1, TaskControl, PanicControl, CallerControl DEF Next, Terminated

-----------------------------------------------------------------------------
(* SELECTs that are collected, INSERTs, and the token.                     *)

\* The steps of a collected SELECT.
LEMMA SelectStep ==
    ASSUME TypeOK, Control, Unary, [Next]_vars, call.op = "select"
    PROVE  /\ seen' = IF state' = "complete" THEN Batches(call.size) ELSE <<>>
           /\ state' = "complete" => task'.pc = "end"
<1> USE DEF connection
<1>0. /\ state \notin {"authorized", "streaming"}
      /\ task.pc \in {"off", "send", "read", "end"}
      /\ state = "waiting" <=> task.pc \in {"send", "read"}
      /\ state = "new" => task.pc = "off"
      /\ seen = IF state = "complete" THEN Batches(call.size) ELSE <<>>
      /\ state = "complete" => task.pc = "end"
  BY DEF Control, Unary
<1>1. CASE RetryNextHost
  BY <1>0, <1>1 DEF RetryNextHost
<1>2. CASE SendFails
  BY <1>0, <1>2, GiveUpControl DEF SendFails
<1>3. CASE SendSucceeds
  BY <1>0, <1>3 DEF SendSucceeds
<1>4. CASE Collect
  BY <1>0, <1>4, GiveUpControl, TaskType DEF Collect, TaskPc
<1>5. CASE StartUnary
  BY <1>0, <1>5 DEF StartUnary
<1>6. CASE UNCHANGED <<state, seen, task>>
  BY <1>0, <1>6
<1>7. QED
  BY <1>0, <1>1, <1>2, <1>3, <1>4, <1>5, <1>6
  DEF Next, TaskStep, TaskPanics, Chunk, PutBatch, ChunkDone, BodyEnds, BodyBreaks, PutFailure,
      Caller, Authorize, Execute, PollToken, PollNext, Cancel, ClientGone, Terminated,
      vars

\* What the invariant says of an INSERT.
Insert ==
    /\ seen = <<>> /\ task.pc # "read"
    /\ task.pc \in {"off", "send"} => ran = 0
    /\ ran <= 1
    /\ state = "complete" => IF task.pc = "off" THEN call.size = 0 ELSE ran = 1

\* The steps of an INSERT: it is sent once, to the configured host.
LEMMA InsertStep ==
    ASSUME TypeOK, Control, Unary, [Next]_vars, call.op = "insert"
    PROVE  Insert'
<1> USE DEF connection
<1>0. /\ state \notin {"authorized", "streaming"}
      /\ task.pc \in {"off", "send", "end"}
      /\ state = "waiting" <=> task.pc = "send"
      /\ state = "new" => task.pc = "off"
      /\ Insert /\ ran \in Nat
  BY DEF Control, Unary, TypeOK, Insert
<1>1. CASE SendFails
  <2>1. task'.pc = "end" /\ state' = "failed"
    BY <1>1, GiveUpControl DEF SendFails
  <2>2. QED
    BY <1>0, <1>1, <2>1 DEF SendFails, Runs, Insert
<1>2. CASE SendSucceeds
  <2>1. task'.pc = "end" /\ state' = "complete"
    BY <1>2, TaskType DEF SendSucceeds, TaskPc
  <2>2. QED
    BY <1>0, <1>2, <2>1 DEF SendSucceeds, Insert
<1>3. CASE StartUnary
  <2>1. CASE task' = task
    BY <1>0, <1>3, <2>1 DEF StartUnary, Insert
  <2>2. CASE state' = "waiting" /\ task' = [task EXCEPT !.pc = "send"]
    <3>1. task'.pc = "send"
      BY <2>2, TaskType DEF TaskPc
    <3>2. QED
      BY <1>0, <1>3, <2>2, <3>1 DEF StartUnary, Insert
  <2>3. QED
    BY <1>3, <2>1, <2>2 DEF StartUnary
<1>4. CASE UNCHANGED <<call, state, seen, task, ran>>
  BY <1>0, <1>4 DEF Insert
<1>5. QED
  BY <1>0, <1>1, <1>2, <1>3, <1>4
  DEF Next, TaskStep, TaskPanics, RetryNextHost, Collect, Chunk, PutBatch, ChunkDone, BodyEnds,
      BodyBreaks, PutFailure, Caller, Authorize, Execute, PollToken, PollNext, Cancel,
      ClientGone, Terminated, vars

\* No step changes what is asked for.
LEMMA CallStays == [Next]_vars => UNCHANGED call
BY DEF Next, TaskStep, TaskPanics, RetryNextHost, SendFails, SendSucceeds, Collect, Chunk, PutBatch,
       ChunkDone, BodyEnds, BodyBreaks, PutFailure, Caller, Authorize, Execute,
       StartUnary, PollToken, PollNext, Cancel, ClientGone, Terminated, vars, connection

\* Both together.
LEMMA UnaryStep == TypeOK /\ Control /\ Unary /\ [Next]_vars => Unary'
<1> SUFFICES ASSUME TypeOK, Control, Unary, [Next]_vars PROVE Unary'
  OBVIOUS
<1>1. call' = call
  BY CallStays
<1>2. Batches(call.size)' = Batches(call.size)
  BY <1>1 DEF Batches
<1>3. QED
  BY <1>1, <1>2, SelectStep, InsertStep DEF Unary, Insert

\* After the token has fired, one poll that has already looked at it delivers.
LEMMA StoppingStep == TypeOK /\ Control /\ Stopping /\ [Next]_vars => Stopping'
<1> SUFFICES ASSUME TypeOK, Control, Stopping, [Next]_vars PROVE Stopping'
  OBVIOUS
<1> USE DEF connection
<1>0. Len(seen) \in Nat /\ before \in Nat
  BY DEF TypeOK
<1>1. CASE Collect
  BY <1>1 DEF Collect, Control, Stopping
<1>2. CASE PollNext
  <2>1. CASE seen' = Append(seen, Head(chan)) /\ chan # <<>> /\ ~polled'
    <3>1. Head(chan) \in Nat
      BY <2>1 DEF TypeOK
    <3>2. Len(seen') = Len(seen) + 1
      BY <2>1, <3>1 DEF TypeOK
    <3>3. QED
      BY <1>0, <1>2, <2>1, <3>2 DEF PollNext, Stopping
  <2>2. CASE seen' = seen
    BY <1>0, <1>2, <2>2 DEF PollNext, EndCall, Stopping
  <2>3. QED
    BY <1>2, <2>1, <2>2 DEF PollNext
<1>3. CASE Cancel
  BY <1>0, <1>3 DEF Cancel, Stopping
<1>4. CASE PollToken
  BY <1>0, <1>4 DEF PollToken, EndCall, Stopping
<1>5. CASE Execute \/ ClientGone
  <2>1. UNCHANGED <<cancel, seen, before>> /\ (polled' = FALSE \/ polled' = polled)
    BY <1>5 DEF Execute, ClientGone, EndCall
  <2>2. QED
    BY <1>0, <2>1 DEF Stopping
<1>6. CASE UNCHANGED <<cancel, seen, before, polled>>
  BY <1>6 DEF Stopping
<1>7. QED
  BY <1>1, <1>2, <1>3, <1>4, <1>5, <1>6
  DEF Next, TaskStep, TaskPanics, RetryNextHost, SendFails, SendSucceeds, Chunk, PutBatch,
      ChunkDone, BodyEnds, BodyBreaks, PutFailure, Caller, Authorize, StartUnary,
      Terminated, vars

-----------------------------------------------------------------------------
(* The flow of batches.                                                    *)

\* An item more at the end of a sequence.
LEMMA Appended ==
    ASSUME NEW s \in Seq(Nat), NEW x \in Nat
    PROVE  /\ Len(s) \in Nat /\ Len(Append(s, x)) = Len(s) + 1
           /\ Append(s, x)[Len(s) + 1] = x /\ Append(s, x) # <<>>
           /\ \A i \in 1..Len(s) : Append(s, x)[i] = s[i]
OBVIOUS

\* An item less at its front.
LEMMA Taken ==
    ASSUME NEW s \in Seq(Nat), s # <<>>
    PROVE  /\ Len(s) \in Nat \ {0} /\ Len(Tail(s)) = Len(s) - 1
           /\ Head(s) = s[1] /\ s[1] \in Nat
           /\ \A i \in 1..(Len(s) - 1) : Tail(s)[i] = s[i + 1]
OBVIOUS

\* The empty sequence is the one of length 0.
LEMMA Empty == \A s \in Seq(Nat) : Len(s) \in Nat /\ (s = <<>> <=> Len(s) = 0)
OBVIOUS

\* Nothing happens to the batches: the task moves on without having failed
\* or come to the end of the body, or the stream is over.
LEMMA FlowFrame ==
    ASSUME Flow, UNCHANGED <<call, sent, seen>>, task'.held = task.held,
           task.pc = "panicked" => task'.pc = "panicked",
           \/ state' = state /\ chan' = chan /\ task'.pc # "end"
                 /\ (state = "streaming" => ~Failed)
           \/ state' = state /\ chan' = chan /\ task'.pc = task.pc
           \/ state' \notin {"streaming", "complete"}
           \/ state' = state /\ state' # "streaming"
    PROVE  Flow'
BY DEF Flow, Failed

\* A chunk continues where the last one ended.
LEMMA FlowChunk == TypeOK /\ Control /\ Flow /\ Chunk => Flow'
<1> SUFFICES ASSUME TypeOK, Control, Flow, Chunk PROVE Flow'
  OBVIOUS
<1>1. PICK k \in 0..(call.size - sent), rest \in {"good", "garbage"} :
        /\ task' = [task EXCEPT !.pc = "put", !.rest = rest,
                                !.held = [i \in 1..k |-> sent + i]]
        /\ sent' = sent + k
  BY DEF Chunk
<1>2. /\ task.pc = "read" /\ task.held = <<>> /\ Len(task.held) = 0
      /\ UNCHANGED <<call, state, chan, seen>>
  BY DEF Chunk, Control
<1>3. task'.pc = "put" /\ task'.held = [i \in 1..k |-> sent + i]
  BY <1>1 DEF TypeOK, Task
<1>4. k \in Nat /\ Len(task'.held) = k /\ \A i \in 1..k : task'.held[i] = sent + i
  BY <1>1, <1>3 DEF TypeOK
<1>5. Len(seen) \in Nat /\ Len(chan) \in Nat /\ sent \in Nat /\ call.size \in Nat
  BY DEF TypeOK
<1>6. sent' <= call.size /\ Len(seen) <= sent'
  BY <1>1, <1>4, <1>5 DEF Flow
<1>7. \A i \in 1..Len(task'.held) : task'.held[i] = sent' - Len(task'.held) + i
  BY <1>1, <1>4, <1>5
<1>8. Failed' = Failed
  BY <1>2 DEF Failed
<1>9. CASE state = "streaming"
  <2>1. ~Failed
    BY <1>2, <1>9 DEF Flow
  <2>2. Len(seen) + Len(chan) + Len(task'.held) = sent'
    BY <1>1, <1>2, <1>4, <1>5, <1>9, <2>1 DEF Flow
  <2>3. QED
    BY <1>2, <1>3, <1>6, <1>7, <1>8, <1>9, <2>1, <2>2 DEF Flow
<1>10. CASE state # "streaming"
  BY <1>2, <1>6, <1>7, <1>10 DEF Flow
<1>11. QED
  BY <1>9, <1>10

\* The task puts the next batch into the channel.
LEMMA FlowPut == TypeOK /\ Control /\ Flow /\ PutBatch => Flow'
<1> SUFFICES ASSUME TypeOK, Control, Flow, PutBatch PROVE Flow'
  OBVIOUS
<1> DEFINE held == task.held
           c == Len(chan)
           h == Len(held)
           s == Len(seen)
<1>1. task.pc = "put" /\ held # <<>> /\ UNCHANGED <<call, state, sent, seen>>
  BY DEF PutBatch
<1>2. held \in Seq(Nat) /\ chan \in Seq(Nat) /\ seen \in Seq(Nat)
  BY TaskType DEF TypeOK
<1>3. CASE ~open
  <2>1. task'.held = held /\ state' # "streaming"
    BY <1>1, <1>3, TaskType DEF PutBatch, Control, TaskPc
  <2>2. QED
    BY <1>1, <2>1, FlowFrame
<1>4. CASE open
  <2>1. /\ state = "streaming" /\ ~Failed
        /\ s + c + h = sent
        /\ \A i \in 1..c : chan[i] = s + i
    BY <1>1, <1>4 DEF Control, Flow
  <2>2. /\ task'.held = Tail(held) /\ task'.pc = "put"
        /\ chan' = Append(chan, Head(held))
    BY <1>1, <1>4 DEF PutBatch, TypeOK, Task
  <2>3. /\ h \in Nat \ {0} /\ Len(task'.held) = h - 1
        /\ Head(held) = held[1] /\ held[1] \in Nat
        /\ \A i \in 1..(h - 1) : task'.held[i] = held[i + 1]
    BY <1>1, <1>2, <2>2, Taken
  <2>4. /\ c \in Nat /\ Len(chan') = c + 1 /\ chan'[c + 1] = held[1]
        /\ \A i \in 1..c : chan'[i] = chan[i]
    BY <1>2, <2>2, <2>3, Appended
  <2>5. s \in Nat /\ sent \in Nat
    BY <1>2 DEF TypeOK
  <2>6. \A i \in 1..h : held[i] = sent - h + i
    BY DEF Flow
  <2> HIDE DEF held, c, h, s
  <2>7. held[1] = s + c + 1
    <3>1. 1 \in 1..h
      BY <2>3
    <3>2. held[1] = sent - h + 1
      BY <2>6, <3>1
    <3>3. QED
      BY <2>1, <2>3, <2>4, <2>5, <3>2
  <2>8. \A i \in 1..Len(chan') : chan'[i] = s + i
    BY <2>1, <2>4, <2>5, <2>7
  <2>9. ~Failed'
    BY <2>4, <2>5, <2>7 DEF Failed, Failure
  <2>10. \A i \in 1..Len(task'.held) : task'.held[i] = sent - Len(task'.held) + i
    BY <2>3, <2>5, <2>6
  <2>11. s + Len(chan') + Len(task'.held) = sent
    BY <2>1, <2>3, <2>4, <2>5
  <2>12. QED
    BY <1>1, <2>1, <2>2, <2>8, <2>9, <2>10, <2>11 DEF Flow, s
<1>5. QED
  BY <1>3, <1>4

\* The task puts its error behind the batches.
LEMMA FlowFailure == TypeOK /\ Control /\ Flow /\ PutFailure => Flow'
<1> SUFFICES ASSUME TypeOK, Control, Flow, PutFailure PROVE Flow'
  OBVIOUS
<1>1. /\ task.pc = "fail" /\ UNCHANGED <<call, state, sent, seen>>
      /\ task'.pc = "end" /\ task'.held = task.held /\ task.held = <<>>
  BY TaskType DEF PutFailure, TaskPc, Control
<1>2. CASE ~open
  <2>1. state' # "streaming"
    BY <1>1, <1>2 DEF Control
  <2>2. QED
    BY <1>1, <2>1, FlowFrame
<1>3. CASE open
  <2> DEFINE c == Len(chan)
             s == Len(seen)
  <2>1. /\ state = "streaming" /\ ~Failed
        /\ s + c + Len(task.held) = sent
        /\ \A i \in 1..c : chan[i] = s + i
    BY <1>1, <1>3 DEF Control, Flow
  <2>2. chan' = Append(chan, Failure) /\ chan \in Seq(Nat) /\ Failure \in Nat
    BY <1>3 DEF PutFailure, TypeOK, Failure
  <2>3. /\ c \in Nat /\ Len(chan') = c + 1 /\ chan'[c + 1] = Failure
        /\ chan' # <<>> /\ \A i \in 1..c : chan'[i] = chan[i]
    BY <2>2, Appended
  <2>4. s \in Nat /\ sent \in Nat /\ Len(task.held) = 0
    BY <1>1 DEF TypeOK
  <2>5. Failed'
    BY <2>3 DEF Failed
  <2> HIDE DEF c, s
  <2>6. s + Len(chan') = sent + 1 /\ \A i \in 1..(Len(chan') - 1) : chan'[i] = s + i
    BY <2>1, <2>3, <2>4
  <2>7. QED
    BY <1>1, <2>1, <2>5, <2>6 DEF Flow, s
<1>4. QED
  BY <1>2, <1>3

\* The caller is given the next batch, the error, or the end.
LEMMA FlowPoll == TypeOK /\ Control /\ Flow /\ PollNext => Flow'
<1> SUFFICES ASSUME TypeOK, Control, Flow, PollNext PROVE Flow'
  OBVIOUS
<1> DEFINE c == Len(chan)
           s == Len(seen)
           h == Len(task.held)
<1>1. state = "streaming" /\ UNCHANGED <<call, task, sent>>
  BY DEF PollNext
<1>2. /\ chan \in Seq(Nat) /\ seen \in Seq(Nat) /\ task.held \in Seq(Nat)
      /\ c \in Nat /\ s \in Nat /\ h \in Nat /\ sent \in Nat
  BY TaskType DEF TypeOK
<1>3. CASE /\ chan # <<>> /\ Head(chan) # Failure
           /\ seen' = Append(seen, Head(chan)) /\ chan' = Tail(chan)
           /\ UNCHANGED state
  <2>1. /\ c \in Nat \ {0} /\ Len(chan') = c - 1
        /\ Head(chan) = chan[1] /\ chan[1] \in Nat
        /\ \A i \in 1..(c - 1) : chan'[i] = chan[i + 1]
    BY <1>2, <1>3, Taken
  <2>2. /\ Len(seen') = s + 1 /\ seen'[s + 1] = chan[1]
        /\ \A i \in 1..s : seen'[i] = seen[i]
    BY <1>2, <1>3, <2>1, Appended
  <2>3. Failed => c # 1
    BY <1>3, <2>1 DEF Failed
  <2>4. chan' = <<>> <=> c = 1
    <3>1. chan' \in Seq(Nat)
      BY <1>2, <1>3, SeqType
    <3>2. chan' = <<>> <=> Len(chan') = 0
      BY <3>1, Empty
    <3> HIDE DEF c
    <3>3. QED
      BY <2>1, <3>2
  <2>5. c # 1 => chan'[Len(chan')] = chan[c]
    BY <2>1
  <2>6. Failed' <=> Failed
    BY <1>3, <2>3, <2>4, <2>5, <2>1 DEF Failed, Failure
  <2>7. \A i \in 1..s : seen[i] = i
    BY DEF Flow
  <2>8. CASE Failed
    <3>1. task.pc = "end" /\ s + c = sent + 1 /\ \A i \in 1..(c - 1) : chan[i] = s + i
      BY <1>1, <2>8 DEF Flow
    <3> HIDE DEF c, s, h
    <3>2. chan[1] = s + 1
      BY <1>2, <2>1, <2>3, <2>8, <3>1
    <3>3. \A i \in 1..Len(seen') : seen'[i] = i
      BY <1>2, <2>2, <2>7, <3>2
    <3>4. /\ Len(seen') <= sent /\ Len(seen') + Len(chan') = sent + 1
          /\ \A i \in 1..(Len(chan') - 1) : chan'[i] = Len(seen') + i
      BY <1>2, <2>1, <2>2, <2>3, <2>8, <3>1
    <3>5. QED
      BY <1>1, <1>3, <2>6, <2>8, <3>1, <3>3, <3>4 DEF Flow
  <2>9. CASE ~Failed
    <3>1. s + c + h = sent /\ \A i \in 1..c : chan[i] = s + i
      BY <1>1, <2>9 DEF Flow
    <3>2. task'.held = task.held /\ Len(task'.held) = h
      BY <1>1
    <3> HIDE DEF c, s, h
    <3>3. chan[1] = s + 1
      BY <1>2, <2>1, <3>1
    <3>4. \A i \in 1..Len(seen') : seen'[i] = i
      BY <1>2, <2>2, <2>7, <3>3
    <3>5. /\ Len(seen') <= sent /\ Len(seen') + Len(chan') + h = sent
          /\ \A i \in 1..Len(chan') : chan'[i] = Len(seen') + i
      BY <1>2, <2>1, <2>2, <3>1
    <3>6. QED
      BY <1>1, <1>3, <2>6, <2>9, <3>2, <3>4, <3>5 DEF Flow
  <2>10. QED
    BY <2>8, <2>9
<1>4. CASE EndCall("Adapter") /\ UNCHANGED seen
  <2>1. state' = "Adapter"
    BY <1>4, EndCallControl
  <2>2. QED
    BY <1>1, <1>4, <2>1, FlowFrame
<1>5. CASE chan = <<>> /\ TaskOver /\ EndCall("complete") /\ UNCHANGED seen
  <2>1. state' = "complete" /\ c = 0 /\ ~Failed
    BY <1>5, EndCallControl DEF Failed
  <2>2. ASSUME task.pc # "panicked" PROVE s = call.size
    <3>1. h = 0 /\ s + c + h = sent /\ sent = call.size
      BY <1>1, <1>5, <2>1, <2>2 DEF Flow, TaskOver
    <3>2. QED
      BY <1>2, <2>1, <3>1
  <2>3. QED
    BY <1>1, <1>5, <2>1, <2>2 DEF Flow
<1>6. QED
  BY <1>3, <1>4, <1>5 DEF PollNext

\* The caller starts a task, whose channel is empty.
LEMMA FlowExecute == TypeOK /\ Control /\ Flow /\ Execute => Flow'
<1> SUFFICES ASSUME TypeOK, Control, Flow, Execute PROVE Flow'
  OBVIOUS
<1>1. /\ task.pc = "off" /\ task.held = <<>> /\ sent = 0 /\ seen = <<>>
      /\ chan = <<>> /\ UNCHANGED <<call, sent, seen>>
  BY DEF Execute, Control
<1>2. CASE EndCall("NotImplemented") \/ EndCall("Cancelled") \/ EndCall("Adapter")
  <2>1. task' = task /\ state' \in {"NotImplemented", "Cancelled", "Adapter"}
    BY <1>2, EndCallControl DEF Execute
  <2>2. QED
    BY <1>1, <2>1, FlowFrame
<1>3. CASE /\ state' = "streaming" /\ task' = [task EXCEPT !.pc = "send"]
           /\ chan' = chan
  <2>1. task'.pc = "send" /\ task'.held = <<>>
    BY <1>1, <1>3, TaskType DEF TaskPc
  <2>2. ~Failed'
    BY <1>1, <1>3 DEF Failed
  <2>3. QED
    BY <1>1, <1>3, <2>1, <2>2 DEF Flow
<1>4. QED
  BY <1>2, <1>3 DEF Execute

\* Every step of a streamed SELECT keeps the flow.
LEMMA FlowStep ==
    ASSUME TypeOK, Control, Flow, [Next]_vars, call.op = "stream"
    PROVE  Flow'
<1> USE DEF connection
<1>1. CASE RetryNextHost
  <2>1. task'.pc = task.pc /\ task'.held = task.held
    BY <1>1 DEF RetryNextHost, TypeOK, Task
  <2>2. QED
    BY <1>1, <2>1, FlowFrame DEF RetryNextHost
<1>2. CASE SendFails \/ BodyBreaks
  <2>1. task'.pc = "fail" /\ task'.held = task.held /\ state' = state
    BY <1>2, GiveUpControl DEF SendFails, BodyBreaks
  <2>2. state = "streaming" => ~Failed
    BY <1>2 DEF SendFails, BodyBreaks, Flow
  <2>3. QED
    BY <1>2, <2>1, <2>2, FlowFrame DEF SendFails, BodyBreaks
<1>3. CASE SendSucceeds \/ ChunkDone
  <2>1. task'.pc \in {"read", "fail"} /\ task'.held = task.held /\ state' = state
    BY <1>3, TaskType DEF SendSucceeds, ChunkDone, TaskPc
  <2>2. state = "streaming" => ~Failed
    BY <1>3 DEF SendSucceeds, ChunkDone, Flow
  <2>3. QED
    BY <1>3, <2>1, <2>2, FlowFrame DEF SendSucceeds, ChunkDone
<1>4. CASE BodyEnds
  <2>1. task'.pc = "end" /\ task'.held = task.held /\ task.held = <<>>
    BY <1>4, TaskType DEF BodyEnds, TaskPc, Control
  <2>2. /\ task.pc = "read" /\ sent = call.size
        /\ UNCHANGED <<call, state, chan, sent, seen>>
    BY <1>4 DEF BodyEnds
  <2>3. Failed' = Failed
    BY <2>2 DEF Failed
  <2>4. QED
    BY <2>1, <2>2, <2>3 DEF Flow
<1>5. CASE Authorize
  BY <1>5, FlowFrame DEF Authorize, Refused
<1>6. CASE PollToken \/ ClientGone
  <2>1. \/ state' = state /\ chan' = chan
        \/ state' \in {"Cancelled", "gone"}
    BY <1>6, EndCallControl DEF PollToken, ClientGone
  <2>2. QED
    BY <1>6, <2>1, FlowFrame DEF PollToken, ClientGone
<1>7. CASE Cancel \/ UNCHANGED vars
  BY <1>7, FlowFrame DEF Cancel, vars
<1>7a. CASE TaskPanics
  <2>1. task'.pc = "panicked" /\ task'.held = task.held
    BY <1>7a, TaskType DEF TaskPanics, TaskPc
  <2>2. state = "streaming" => ~Failed
    BY <1>7a DEF TaskPanics, Flow
  <2>3. QED
    BY <1>7a, <2>1, <2>2, FlowFrame DEF TaskPanics
<1>8. QED
  BY <1>1, <1>2, <1>3, <1>4, <1>5, <1>6, <1>7, <1>7a, FlowChunk, FlowPut, FlowFailure,
     FlowPoll, FlowExecute
  DEF Next, TaskStep, TaskPanics, Collect, Caller, StartUnary, Terminated

-----------------------------------------------------------------------------
(* Theorems.                                                               *)

\* The invariant holds always.
LEMMA Invariant == Spec => []Inv
<1>1. Inv /\ [Next]_vars => Inv'
  <2> SUFFICES ASSUME Inv, [Next]_vars PROVE Inv'
    OBVIOUS
  <2>1. TypeOK /\ Control /\ Unary /\ Stopping /\ (call.op = "stream" => Flow)
    BY DEF Inv
  <2>2. call' = call
    BY CallStays
  <2>3. QED
    BY <2>1, <2>2, TypeStep, ControlStep, UnaryStep, StoppingStep, FlowStep DEF Inv
<1>2. QED
  BY <1>1, InvInit, PTL DEF Spec

(***************************************************************************)
(* Every variable keeps its type.                                          *)
(***************************************************************************)
THEOREM TypeCorrect == Spec => []TypeOK
<1>1. Inv => TypeOK
  BY DEF Inv
<1>2. QED
  BY <1>1, Invariant, PTL

(***************************************************************************)
(* query_arrow_stream and query_arrow give the batches of the result in    *)
(* order, none twice and none left out, and all of them when they report   *)
(* no error and the task did not panic, for any number of hosts, batches   *)
(* and places in the channel.                                              *)
(***************************************************************************)
THEOREM StreamIsFaithfulCorrect == Spec => []StreamIsFaithful
<1>1. Inv => StreamIsFaithful
  <2> SUFFICES ASSUME Inv PROVE StreamIsFaithful
    OBVIOUS
  <2>1. /\ call.op \in {"stream", "select", "insert"} /\ call.size \in Nat
        /\ sent \in Nat /\ seen \in Seq(Nat)
    BY DEF Inv, TypeOK, Operations
  <2>2. Len(Batches(call.size)) = call.size
    BY <2>1 DEF Batches
  <2>3. CASE call.op = "stream"
    <3>1. /\ Len(seen) <= call.size /\ \A i \in 1..Len(seen) : seen[i] = i
          /\ state = "complete" /\ task.pc # "panicked" => Len(seen) = call.size
      BY <2>1, <2>3 DEF Inv, Flow
    <3>2. SubSeq(seen, 1, Len(seen)) = SubSeq(Batches(call.size), 1, Len(seen))
      BY <2>1, <3>1 DEF Batches
    <3>3. QED
      BY <2>2, <3>1, <3>2 DEF StreamIsFaithful, IsPrefix
  <2>4. CASE call.op = "insert"
    <3>1. seen = <<>>
      BY <2>4 DEF Inv, Unary
    <3>2. IsPrefix(seen, Batches(call.size))
      BY <2>1, <2>2, <3>1 DEF IsPrefix, Batches
    <3>3. QED
      BY <2>4, <3>2 DEF StreamIsFaithful
  <2>5. CASE call.op = "select"
    <3>1. seen = IF state = "complete" THEN Batches(call.size) ELSE <<>>
      BY <2>5 DEF Inv, Unary
    <3>2. IsPrefix(seen, Batches(call.size))
      BY <2>1, <2>2, <3>1 DEF IsPrefix, Batches
    <3>3. QED
      BY <2>2, <3>1, <3>2 DEF StreamIsFaithful
  <2>6. QED
    BY <2>1, <2>3, <2>4, <2>5
<1>2. QED
  BY <1>1, Invariant, PTL

(***************************************************************************)
(* A cancelled stream delivers at most the batch of the poll that had      *)
(* already looked at the token.                                            *)
(***************************************************************************)
THEOREM StopsOnCancelCorrect == Spec => []StopsOnCancel
<1>1. Inv => StopsOnCancel
  <2>1. TypeOK => Len(seen) \in Nat /\ before \in Nat
    BY DEF TypeOK
  <2>2. QED
    BY <2>1 DEF Inv, Stopping, StopsOnCancel
<1>2. QED
  BY <1>1, Invariant, PTL

(***************************************************************************)
(* insert_arrow runs an INSERT at most once, and reports it as done only   *)
(* when it has run, whatever the hosts and whatever fails.                 *)
(***************************************************************************)
THEOREM InsertRunsOnceCorrect == Spec => []InsertRunsOnce
<1>1. Inv => InsertRunsOnce
  <2> SUFFICES ASSUME Inv, call.op = "insert"
               PROVE  /\ ran <= 1
                      /\ (state = "complete" /\ call.size > 0) => ran = 1
    BY DEF InsertRunsOnce
  <2>1. /\ ran <= 1
        /\ state = "complete" => IF task.pc = "off" THEN call.size = 0 ELSE ran = 1
    BY DEF Inv, Unary
  <2>2. QED
    BY <2>1
<1>2. QED
  BY <1>1, Invariant, PTL
=============================================================================
