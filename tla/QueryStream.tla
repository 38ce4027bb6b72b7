---------------------------- MODULE QueryStream ----------------------------
(***************************************************************************)
(* One call of the ClickHouse client: a Flight DoGet that streams a        *)
(* SELECT, a SELECT that is collected, or an INSERT.                       *)
(*                                                                         *)
(* Three parties run side by side.  The caller polls a stream (runtime.rs) *)
(* and may cancel its token or disconnect.  The background task of         *)
(* query_arrow_stream (driver.rs) sends the statement, host by host, reads *)
(* the body and puts batches into a bounded channel.  The server, which is *)
(* not part of the repository, answers, breaks off or sends something that *)
(* is no Arrow.  A result is the batches 1..size in this order.            *)
(***************************************************************************)
EXTENDS Integers, Sequences, SequencesExt

CONSTANTS
    Host,              \* ClickHouseConfig.host
    FallbackHosts,     \* ClickHouseConfig.fallback_hosts, a sequence
    NoHost,            \* a fallback entry that is blank once trimmed
    Capacity,          \* of the channel, 32 in the code
    MaxBatches,        \* bound: batches of a result
    InteractiveLimit,  \* BackendExecutionLimits.interactive_byte_limit
    BatchLimit,        \* BackendExecutionLimits.batch_byte_limit
    Estimates          \* memory estimates to try

ASSUME StreamAssumption ==
    /\ Capacity \in Nat \ {0}
    /\ MaxBatches \in Nat
    /\ FallbackHosts \in Seq({Host, NoHost} \cup Range(FallbackHosts))
    /\ InteractiveLimit \in Nat /\ BatchLimit \in Nat /\ Estimates \subseteq Nat

VARIABLES
    call,      \* what is asked: the operation, its mode and its size
    state,     \* how far the caller is, or how the call ended
    cancel,    \* the CancellationToken has fired
    polled,    \* the poll in progress found the token not fired
    task,      \* the background task
    sent,      \* batches the server has put into the body of the response
    ran,       \* how often some server has run the statement
    chan,      \* the mpsc channel
    open,      \* its receiver is alive
    seen,      \* batches the caller has been given
    before     \* how many of them when the token fired

vars == <<call, state, cancel, polled, task, sent, ran, chan, open, seen, before>>
connection == <<task, sent, ran, chan, open>>

Operations == {"stream", "select", "insert"}
ExecutionRuntimeMode == {"Interactive", "Batch", "Isolated", "Federated"}
QueryTimeoutClass == {"None", "Interactive", "Batch", "Export"}
RuntimeError == {"NotImplemented", "Cancelled", "Adapter"}
Refused == {"Unauthenticated", "BadTicket", "PermissionDenied"}
Ended == RuntimeError \cup Refused \cup {"complete", "failed", "gone"}

Failure == 0       \* the error item of the channel; batches are 1, 2, ...
Idle == [pc |-> "off", host |-> 1, held |-> <<>>, rest |-> "good"]

(***************************************************************************)
(* runtime_mode_for_estimate and resolve_runtime_mode.                     *)
(***************************************************************************)
runtime_mode_for_estimate(bytes) ==
    IF bytes > BatchLimit THEN "Isolated"
    ELSE IF bytes > InteractiveLimit THEN "Batch" ELSE "Interactive"

resolve_runtime_mode(bytes, hint) ==
    LET estimated == runtime_mode_for_estimate(bytes)
    IN  CASE hint \in {"None", "Interactive"} -> estimated
          [] hint = "Batch" -> IF estimated = "Interactive" THEN "Batch" ELSE estimated
          [] hint = "Export" -> "Isolated"

(***************************************************************************)
(* from_config and select_base_urls: the configured host first, then the   *)
(* fallbacks that are neither blank nor that host again.                   *)
(***************************************************************************)
select_base_urls ==
    <<Host>> \o SelectSeq(FallbackHosts, LAMBDA h : h # NoHost /\ h # Host)

Batches(n) == [i \in 1..n |-> i]

Init ==
    /\ \E op \in Operations, bytes \in Estimates, hint \in QueryTimeoutClass,
          n \in 0..MaxBatches :
         call = [op |-> op, mode |-> resolve_runtime_mode(bytes, hint), size |-> n]
    /\ state = "new" /\ cancel = FALSE /\ polled = FALSE
    /\ task = Idle /\ sent = 0 /\ ran = 0
    /\ chan = <<>> /\ open = FALSE
    /\ seen = <<>> /\ before = 0

(***************************************************************************)
(* Dropping the stream closes the channel and discards what is in it.      *)
(***************************************************************************)
EndCall(how) ==
    /\ state' = how
    /\ open' = FALSE /\ chan' = <<>> /\ polled' = FALSE

(***************************************************************************)
(* FlightSkeleton.do_get: authenticate, interpret the ticket, ask the      *)
(* access decision, and only then call the host's handler.                 *)
(***************************************************************************)
Authorize ==
    /\ state = "new" /\ call.op = "stream"
    /\ state' \in Refused \cup {"authorized"}
    /\ UNCHANGED <<call, cancel, polled, connection, seen, before>>

(***************************************************************************)
(* ClickHouseRuntime.execute, called by the handler: the mode, the token,  *)
(* the SQL artifact, and then query_arrow_stream starts the task.          *)
(***************************************************************************)
Execute ==
    /\ state = "authorized"
    /\ \/ /\ call.mode # "Interactive"
          /\ EndCall("NotImplemented") /\ UNCHANGED task
       \/ /\ call.mode = "Interactive" /\ cancel
          /\ EndCall("Cancelled") /\ UNCHANGED task
       \/ /\ call.mode = "Interactive" /\ ~cancel
          /\ EndCall("Adapter") /\ UNCHANGED task
       \/ /\ call.mode = "Interactive" /\ ~cancel
          /\ state' = "streaming"
          /\ task' = [task EXCEPT !.pc = "send"]
          /\ open' = TRUE /\ UNCHANGED <<chan, polled>>
    /\ UNCHANGED <<call, cancel, sent, ran, seen, before>>

(***************************************************************************)
(* The caller of query_arrow, query_json, insert_arrow or execute awaits   *)
(* the answer itself: no channel and no token.                             *)
(***************************************************************************)
StartUnary ==
    /\ state = "new" /\ call.op # "stream"
    /\ \/ call.op = "insert" /\ state' = "failed" /\ UNCHANGED task    \* render_table_identifier
       \/ call.op = "insert" /\ call.size = 0 /\ state' = "complete" /\ UNCHANGED task
       \/ /\ ~(call.op = "insert" /\ call.size = 0)
          /\ state' = "waiting" /\ task' = [task EXCEPT !.pc = "send"]
    /\ UNCHANGED <<call, cancel, polled, sent, ran, chan, open, seen, before>>

(***************************************************************************)
(* An error ends the task after its last item, or is returned.             *)
(***************************************************************************)
GiveUp ==
    IF call.op = "stream"
    THEN task' = [task EXCEPT !.pc = "fail"] /\ UNCHANGED state
    ELSE task' = [task EXCEPT !.pc = "end"] /\ state' = "failed"

(***************************************************************************)
(* send_select_to.  A statement that reached the server may have run even  *)
(* when its sender sees an error.                                          *)
(***************************************************************************)
Runs == ran' \in {ran, ran + 1}

IsLastHost == task.host = Len(select_base_urls)

\* Mutant: an INSERT is sent to the fallback hosts as well.
RetryNextHost_InsertToo ==
    /\ task.pc = "send" /\ ~IsLastHost
    /\ Runs
    /\ task' = [task EXCEPT !.host = @ + 1]
    /\ UNCHANGED <<call, state, cancel, polled, sent, chan, open, seen, before>>

(* select_send_error_is_retryable and a host is left.  An INSERT knows the *)
(* configured host only.                                                   *)
RetryNextHost ==
    /\ task.pc = "send" /\ call.op # "insert" /\ ~IsLastHost
    /\ Runs
    /\ task' = [task EXCEPT !.host = @ + 1]
    /\ UNCHANGED <<call, state, cancel, polled, sent, chan, open, seen, before>>

(* No host is left or the error is not of the kind that is retried, or the *)
(* answer has an error status (check_response).                            *)
SendFails ==
    /\ task.pc = "send"
    /\ Runs
    /\ GiveUp
    /\ UNCHANGED <<call, cancel, polled, sent, chan, open, seen, before>>

SendSucceeds ==
    /\ task.pc = "send"
    /\ ran' = ran + 1
    /\ IF call.op = "insert"
       THEN task' = [task EXCEPT !.pc = "end"] /\ state' = "complete"
       ELSE task' = [task EXCEPT !.pc = "read"] /\ UNCHANGED state
    /\ UNCHANGED <<call, cancel, polled, sent, chan, open, seen, before>>

(***************************************************************************)
(* query_arrow: the whole body, then the whole result or an error.         *)
(***************************************************************************)
Collect ==
    /\ task.pc = "read" /\ call.op = "select"
    /\ \/ GiveUp /\ UNCHANGED seen
       \/ /\ task' = [task EXCEPT !.pc = "end"]
          /\ state' = "complete" /\ seen' = Batches(call.size)
    /\ UNCHANGED <<call, cancel, polled, sent, ran, chan, open, before>>

(***************************************************************************)
(* The loop over bytes_stream.  A chunk completes some batches, and may go *)
(* on with bytes that the decoder refuses.                                 *)
(***************************************************************************)
Chunk ==
    /\ task.pc = "read" /\ call.op = "stream"
    /\ \E k \in 0..(call.size - sent), rest \in {"good", "garbage"} :
         /\ k = 0 => rest = "garbage"
         /\ task' = [task EXCEPT !.pc = "put", !.rest = rest,
                                 !.held = [i \in 1..k |-> sent + i]]
         /\ sent' = sent + k
    /\ UNCHANGED <<call, state, cancel, polled, ran, chan, open, seen, before>>

\* Mutant: the task waits for room when nobody reads any more.
PutBatch_IgnoresDrop ==
    /\ task.pc = "put" /\ task.held # <<>>
    /\ open /\ Len(chan) < Capacity
    /\ chan' = Append(chan, Head(task.held))
    /\ task' = [task EXCEPT !.held = Tail(@)]
    /\ UNCHANGED <<call, state, cancel, polled, sent, ran, open, seen, before>>

(* tx.send: waits for room; an error, once the receiver is gone, ends the  *)
(* task.                                                                   *)
PutBatch ==
    /\ task.pc = "put" /\ task.held # <<>>
    /\ \/ ~open /\ task' = [task EXCEPT !.pc = "end"] /\ UNCHANGED chan
       \/ /\ open /\ Len(chan) < Capacity
          /\ chan' = Append(chan, Head(task.held))
          /\ task' = [task EXCEPT !.held = Tail(@)]
    /\ UNCHANGED <<call, state, cancel, polled, sent, ran, open, seen, before>>

ChunkDone ==
    /\ task.pc = "put" /\ task.held = <<>>
    /\ task' = [task EXCEPT !.pc = IF task.rest = "garbage" THEN "fail" ELSE "read"]
    /\ UNCHANGED <<call, state, cancel, polled, sent, ran, chan, open, seen, before>>

(* The body ends where the server ended it: decoder.finish agrees.         *)
BodyEnds ==
    /\ task.pc = "read" /\ call.op = "stream" /\ sent = call.size
    /\ task' = [task EXCEPT !.pc = "end"]
    /\ UNCHANGED <<call, state, cancel, polled, sent, ran, chan, open, seen, before>>

\* Mutant: a body that breaks is asked for again at the next host.
BodyBreaks_FailsOver ==
    /\ task.pc = "read" /\ call.op = "stream"
    /\ IF IsLastHost THEN GiveUp /\ UNCHANGED sent
       ELSE /\ task' = [task EXCEPT !.pc = "send", !.host = @ + 1]
            /\ sent' = 0 /\ UNCHANGED state
    /\ UNCHANGED <<call, cancel, polled, ran, chan, open, seen, before>>

(* The connection breaks, or the body stops inside a message.              *)
BodyBreaks ==
    /\ task.pc = "read" /\ call.op = "stream"
    /\ GiveUp
    /\ UNCHANGED <<call, cancel, polled, sent, ran, chan, open, seen, before>>

(* let _ = tx.send(Err(...)).                                              *)
PutFailure ==
    /\ task.pc = "fail"
    /\ \/ ~open /\ UNCHANGED chan
       \/ open /\ Len(chan) < Capacity /\ chan' = Append(chan, Failure)
    /\ task' = [task EXCEPT !.pc = "end"]
    /\ UNCHANGED <<call, state, cancel, polled, sent, ran, open, seen, before>>

(* The task panics, in the Arrow decoder for one: spawn_traced catches and *)
(* logs it and the sender is dropped, with no error item behind the        *)
(* batches that are in the channel.                                        *)
TaskPanics ==
    /\ call.op = "stream" /\ task.pc \in {"send", "read", "put", "fail"}
    /\ task' = [task EXCEPT !.pc = "panicked"]
    /\ UNCHANGED <<call, state, cancel, polled, sent, ran, chan, open, seen, before>>

(* The sender of the channel has been dropped.                             *)
TaskOver == task.pc \in {"end", "panicked"}

(***************************************************************************)
(* One poll of the stream that execute returned: select polls the token    *)
(* first.  A poll ends at once or waits to be woken.                       *)
(***************************************************************************)
Woken == cancel \/ chan # <<>> \/ TaskOver

\* Mutant: the token is looked at by execute only.
PollToken_Once ==
    /\ state = "streaming" /\ ~polled /\ Woken
    /\ polled' = TRUE
    /\ UNCHANGED <<call, state, cancel, connection, seen, before>>

PollToken ==
    /\ state = "streaming" /\ ~polled /\ Woken
    /\ IF cancel
       THEN EndCall("Cancelled")
       ELSE polled' = TRUE /\ UNCHANGED <<state, chan, open>>
    /\ UNCHANGED <<call, cancel, task, sent, ran, seen, before>>

(* An error item ends the RPC, and with it the stream.                     *)
PollNext ==
    /\ state = "streaming" /\ polled
    /\ \/ /\ chan # <<>> /\ Head(chan) # Failure
          /\ seen' = Append(seen, Head(chan)) /\ chan' = Tail(chan)
          /\ polled' = FALSE /\ UNCHANGED <<state, open>>
       \/ /\ chan # <<>> /\ Head(chan) = Failure
          /\ EndCall("Adapter") /\ UNCHANGED seen
       \/ /\ chan = <<>> /\ TaskOver
          /\ EndCall("complete") /\ UNCHANGED seen
    /\ UNCHANGED <<call, cancel, task, sent, ran, before>>

(***************************************************************************)
(* The environment: the token fires, the client disconnects.               *)
(***************************************************************************)
Cancel ==
    /\ call.op = "stream" /\ ~cancel /\ state \notin Ended
    /\ cancel' = TRUE /\ before' = Len(seen)
    /\ UNCHANGED <<call, state, polled, connection, seen>>

ClientGone ==
    /\ state = "streaming"
    /\ EndCall("gone")
    /\ UNCHANGED <<call, cancel, task, sent, ran, seen, before>>

Terminated == state \in Ended /\ (TaskOver \/ task.pc = "off") /\ UNCHANGED vars

TaskStep ==
    \/ RetryNextHost \/ SendFails \/ SendSucceeds \/ Collect
    \/ Chunk \/ PutBatch \/ ChunkDone \/ BodyEnds \/ BodyBreaks \/ PutFailure

Caller == Authorize \/ Execute \/ StartUnary \/ PollToken \/ PollNext

Next == TaskStep \/ TaskPanics \/ Caller \/ Cancel \/ ClientGone \/ Terminated

(***************************************************************************)
(* The task and the caller are scheduled, and the server answers or breaks *)
(* off: the client sets no timeout, so that is assumed of the server.      *)
(***************************************************************************)
Spec == Init /\ [][Next]_vars /\ WF_vars(TaskStep) /\ WF_vars(Caller)

----------------------------------------------------------------------------
(* The caller is given the batches of the result in order, none twice and  *)
(* none left out, whatever hosts were tried; and a call that ends without  *)
(* an error gave all of them (query_arrow_stream, query_arrow).  The one   *)
(* exception is a stream whose task panicked: its caller sees a normal end *)
(* with batches missing.                                                   *)
StreamIsFaithful ==
    /\ IsPrefix(seen, Batches(call.size))
    /\ state = "complete" /\ call.op # "insert" /\ task.pc # "panicked"
          => Len(seen) = call.size

(* Once the token has fired, at most the batch of the poll that had just   *)
(* looked at it is still delivered (the select in execute).                *)
StopsOnCancel == cancel => Len(seen) <= before + 1

(* An INSERT is run at most once, whatever fails, and one that is reported *)
(* as done has run (insert_arrow; SELECTs alone go to fallback hosts).     *)
InsertRunsOnce ==
    call.op = "insert" =>
        /\ ran <= 1
        /\ (state = "complete" /\ call.size > 0) => ran = 1

(* Every call ends and leaves no task behind: not when it is cancelled,    *)
(* nor when the client disconnects while the task waits for room in the    *)
(* channel (the is_err arm of tx.send).                                    *)
EveryCallEnds ==
    (state # "new") ~> (state \in Ended /\ (TaskOver \/ task.pc = "off"))
============================================================================
