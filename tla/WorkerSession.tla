---------------------------- MODULE WorkerSession ----------------------------
(***************************************************************************)
(* One worker session: run_agent_process with the threads that read the    *)
(* worker's two streams into a bounded queue, the thread that writes its   *)
(* prompt, deferred signals, the timeout, the stop regexes, and the worker *)
(* itself: a leader, descendants in its process group, and possibly a      *)
(* descendant that left the group and still holds the pipes.               *)
(*                                                                         *)
(* A chunk of output is <<stream, kind>>, where kind is "text", "match"    *)
(* (with it the output matches a stop regex) or "noise" (output no         *)
(* property tells apart: not remembered).                                  *)
(***************************************************************************)
EXTENDS Filters

CONSTANTS
    Streams,      \* stdout and stderr
    QueueSize,    \* _OUTPUT_QUEUE_SIZE
    DrainLimit,   \* _OUTPUT_DRAIN_LIMIT
    PipeSize,     \* chunks a pipe holds before a writer blocks
    MaxChunks,    \* remembered chunks per stream: bounds the model
    Noise,        \* may the worker write without end?
    Escapes,      \* may a descendant leave the process group?
    None

ASSUME SessionAssumption ==
    /\ QueueSize \in Nat \ {0} /\ DrainLimit \in Nat \ {0}
    /\ PipeSize \in Nat \ {0} /\ MaxChunks \in Nat
    /\ Noise \in BOOLEAN /\ Escapes \in BOOLEAN
    /\ None \notin {"result", "launch-failed", "io-failed", "thread-failed",
                    "signal", "stop-regex", "timeout", "poll", "alive",
                    "close"}

VARIABLES
    leader,      \* the launched process: "none", "running" or "exited"
    group,       \* do descendants in its group run?
    escaped,     \* does one outside it run?
    pipe,        \* [Streams -> chunks in the pipe]
    written,     \* [Streams -> remembered chunks ever written]
    reader,      \* [Streams -> where in _read_stream the thread is]
    item,        \* [Streams -> what the thread puts next, or None]
    queue,       \* output_queue
    stdin,       \* the _write_stdin thread: "none", "writing" or "done"
    cancel,      \* reader_cancel
    pc,          \* where run_agent_process is
    next,        \* where it goes after _terminate_process_group
    final,       \* is it in the final drain?
    drained,     \* items taken by the _drain_output_queue under way
    transcript,  \* chunks in the order the handler wrote them
    stop,        \* stop_reason
    timer,       \* "off" (no --timeout), "armed" or "expired"
    pending,     \* a deferred SIGINT or SIGTERM
    ending       \* None, "result", or what the function raises

process == <<leader, group, escaped>>
output  == <<pipe, written>>
threads == <<reader, item, stdin>>
main    == <<next, final, drained, transcript, stop, ending>>
vars == <<process, output, threads, main, queue, cancel, pc, timer, pending>>

Kinds == {"text", "match"} \union (IF Noise THEN {"noise"} ELSE {})

Init ==
    /\ leader = "none" /\ group = FALSE /\ escaped = FALSE
    /\ pipe = [s \in Streams |-> << >>]
    /\ written = [s \in Streams |-> << >>]
    /\ reader = [s \in Streams |-> "none"]
    /\ item = [s \in Streams |-> None]
    /\ queue = << >> /\ stdin = "none" /\ cancel = FALSE
    /\ pc = "launch" /\ next = None /\ final = FALSE /\ drained = 0
    /\ transcript = << >> /\ stop = None /\ ending = None
    /\ timer \in {"off", "armed"}
    /\ pending = FALSE

-----------------------------------------------------------------------------
(* The worker *)

GroupAlive == leader = "running" \/ group
Alive == GroupAlive \/ escaped

WorkerWrites(s) ==
    /\ Alive
    /\ Len(pipe[s]) < PipeSize
    /\ \E c \in Kinds :
          /\ c # "noise" => Len(written[s]) < MaxChunks
          /\ pipe' = [pipe EXCEPT ![s] = Append(@, <<s, c>>)]
          /\ written' = IF c = "noise" THEN written
                        ELSE [written EXCEPT ![s] = Append(@, <<s, c>>)]
    /\ UNCHANGED <<process, threads, main, queue, cancel, pc, timer, pending>>

\* The leader starts a descendant, exits, or the descendants do.
WorkerChanges ==
    /\ Alive
    /\ \/ /\ leader = "running"
          /\ \/ group' = TRUE /\ UNCHANGED <<leader, escaped>>
             \/ Escapes /\ escaped' = TRUE /\ UNCHANGED <<leader, group>>
             \/ leader' = "exited" /\ UNCHANGED <<group, escaped>>
       \/ group /\ group' = FALSE /\ UNCHANGED <<leader, escaped>>
       \/ escaped /\ escaped' = FALSE /\ UNCHANGED <<leader, group>>
    /\ UNCHANGED <<output, threads, main, queue, cancel, pc, timer, pending>>

-----------------------------------------------------------------------------
(* The threads *)

ThreadMoves(s, place, thing) ==
    /\ reader' = [reader EXCEPT ![s] = place]
    /\ item' = [item EXCEPT ![s] = thing]
    /\ UNCHANGED <<process, written, stdin, main, cancel, pc, timer, pending>>

\* The loop condition: it goes into os.read, or ends once cancelled.
ReaderLoops(s) ==
    /\ reader[s] = "loop"
    /\ ThreadMoves(s, IF cancel THEN "done" ELSE "read", None)
    /\ UNCHANGED <<pipe, queue>>

ReaderReads(s) ==
    /\ reader[s] = "read"
    /\ pipe[s] # << >>
    /\ pipe' = [pipe EXCEPT ![s] = Tail(@)]
    /\ ThreadMoves(s, "put", Head(pipe[s]))
    /\ UNCHANGED queue

\* Mutant: only cancellation makes a reader leave its loop.
ReaderEndsCancelled(s) ==
    /\ reader[s] = "read"
    /\ pipe[s] = << >> /\ ~Alive /\ cancel
    /\ ThreadMoves(s, "done", None)
    /\ UNCHANGED <<pipe, queue>>

\* End of file, once nobody holds the pipe's other end.
ReaderEnds(s) ==
    /\ reader[s] = "read"
    /\ pipe[s] = << >> /\ ~Alive
    /\ ThreadMoves(s, "done", None)
    /\ UNCHANGED <<pipe, queue>>

\* An exception is handed to the main thread, unless it is cleaning up.
ReaderFails(s) ==
    /\ reader[s] = "read"
    /\ ThreadMoves(s, IF cancel THEN "done" ELSE "put",
                      IF cancel THEN None ELSE <<s, "failure">>)
    /\ UNCHANGED <<pipe, queue>>

ReaderPuts(s) ==
    /\ reader[s] = "put"
    /\ ~cancel
    /\ Len(queue) < QueueSize
    /\ queue' = Append(queue, item[s])
    /\ ThreadMoves(s, IF item[s][2] = "failure" THEN "done" ELSE "loop", None)
    /\ UNCHANGED pipe

\* Mutant: a put that only space in the queue ends.
ReaderNeverGivesUp(s) == FALSE

\* Cancellation also releases a thread that waits for space in the queue.
ReaderGivesUp(s) ==
    /\ reader[s] = "put"
    /\ cancel
    /\ ThreadMoves(s, "done", None)
    /\ UNCHANGED <<pipe, queue>>

\* What a reader does of itself; nothing makes it fail.
ReaderRuns(s) ==
    \/ ReaderLoops(s) \/ ReaderReads(s) \/ ReaderEnds(s)
    \/ ReaderPuts(s) \/ ReaderGivesUp(s)

\* The prompt is written once the worker has read it, or nobody can.
PromptWritten ==
    /\ stdin = "writing"
    /\ stdin' = "done"
    /\ UNCHANGED <<process, output, reader, item, main, queue, cancel, pc,
                   timer, pending>>

-----------------------------------------------------------------------------
(* run_agent_process: launch *)

Continue(label) == pc' = label

\* An exception is raised inside the try block.
Raise(what) ==
    /\ Continue("finally")
    /\ ending' = what
    /\ UNCHANGED <<next, final, drained, transcript, stop>>

Launch ==
    /\ pc = "launch"
    /\ \/ /\ leader' = "running"
          /\ Continue("record")
          /\ UNCHANGED main
       \/ Raise("launch-failed") /\ UNCHANGED leader
    /\ UNCHANGED <<group, escaped, output, threads, queue, cancel, timer, pending>>

\* process_started: record_process may fail to write the state.
Record ==
    /\ pc = "record"
    /\ \/ Continue("start") /\ UNCHANGED main
       \/ Raise("io-failed")
    /\ UNCHANGED <<process, output, threads, queue, cancel, timer, pending>>

\* The readers start one by one and the prompt thread last; a start may fail.
StartThreads ==
    /\ pc = "start"
    /\ \/ /\ reader' = [s \in Streams |-> "loop"]
          /\ stdin' = "writing"
          /\ Continue("top")
          /\ UNCHANGED main
       \/ /\ \E started \in SUBSET Streams :
                reader' = [s \in Streams |->
                             IF s \in started THEN "loop" ELSE "none"]
          /\ UNCHANGED stdin
          /\ Raise("thread-failed")
    /\ UNCHANGED <<process, output, item, queue, cancel, timer, pending>>

-----------------------------------------------------------------------------
(* The loop *)

Top ==
    /\ pc = "top"
    /\ IF pending THEN Raise("signal")
       ELSE /\ Continue("get")
            /\ drained' = 0
            /\ UNCHANGED <<next, final, transcript, stop, ending>>
    /\ UNCHANGED <<process, output, threads, queue, cancel, timer, pending>>

Matches == \E i \in DOMAIN transcript : transcript[i][2] = "match"

Remembered(chunk) == chunk[2] \in {"text", "match"}

\* _write_stream_item: a failure is raised, and the transcript or the live
\* stream may fail.
TakeItem ==
    /\ queue' = Tail(queue)
    /\ \/ /\ Head(queue)[2] # "failure"
          /\ drained' = drained + 1
          /\ transcript' = IF Remembered(Head(queue))
                           THEN Append(transcript, Head(queue))
                           ELSE transcript
          /\ UNCHANGED <<pc, next, final, stop, ending>>
       \/ Raise("io-failed")

\* Mutant: _drain_output_queue drains until the queue is empty.
GetUnbudgeted ==
    /\ pc = "get"
    /\ IF queue # << >>
       THEN /\ queue' = Tail(queue)
            /\ transcript' = IF Remembered(Head(queue))
                             THEN Append(transcript, Head(queue))
                             ELSE transcript
            /\ drained' = 1
            /\ UNCHANGED <<pc, next, final, stop, ending>>
       ELSE Continue("check") /\ UNCHANGED <<main, queue>>
    /\ UNCHANGED <<process, output, threads, cancel, timer, pending>>

\* _drain_output_queue ends when the queue is empty or its budget is spent.
Get ==
    /\ pc = "get"
    /\ IF drained < DrainLimit /\ queue # << >> THEN TakeItem
       ELSE Continue("check") /\ UNCHANGED <<main, queue>>
    /\ UNCHANGED <<process, output, threads, cancel, timer, pending>>

StopsBy(reason, where) ==
    /\ stop' = reason
    /\ Continue(where)
    /\ next' = IF where = "term" THEN "poll" ELSE next
    /\ UNCHANGED <<final, drained, transcript, ending>>

\* Mutant: the regexes are not searched again in the final drain.
CheckNotFinal ==
    /\ pc = "check"
    /\ \/ /\ stop = None /\ drained > 0 /\ Matches /\ ~final
          /\ StopsBy("stop-regex", "term")
       \/ /\ ~(stop = None /\ drained > 0 /\ Matches /\ ~final)
          /\ IF stop = None /\ timer = "expired" /\ ~final
             THEN StopsBy("timeout", "term")
             ELSE /\ Continue(IF final THEN "alive" ELSE "poll")
                  /\ UNCHANGED main
    /\ UNCHANGED <<process, output, threads, queue, cancel, timer, pending>>

\* After each drain: the stop regexes and, in the first loop, the timeout.
Check ==
    /\ pc = "check"
    /\ \/ /\ stop = None /\ drained > 0 /\ Matches
          /\ StopsBy("stop-regex", IF final THEN "alive" ELSE "term")
       \/ /\ ~(stop = None /\ drained > 0 /\ Matches)
          /\ IF stop = None /\ timer = "expired" /\ ~final
             THEN StopsBy("timeout", "term")
             ELSE /\ Continue(IF final THEN "alive" ELSE "poll")
                  /\ UNCHANGED main
    /\ UNCHANGED <<process, output, threads, queue, cancel, timer, pending>>

\* The leader has exited: its group is terminated and the final drain begins.
Poll ==
    /\ pc = "poll"
    /\ IF leader = "exited"
       THEN Continue("term") /\ next' = "alive" /\ final' = TRUE
       ELSE Continue("top") /\ UNCHANGED <<next, final>>
    /\ UNCHANGED <<process, output, threads, drained, transcript, stop, ending,
                   queue, cancel, timer, pending>>

\* Mutant: a group whose leader exited is left alone.
TerminateLeader ==
    /\ pc = "term"
    /\ leader' = "exited"
    /\ Continue(next)
    /\ UNCHANGED <<group, escaped, output, threads, main, queue, cancel, timer,
                   pending>>

\* _terminate_process_group: SIGTERM, a grace period, SIGKILL.
TerminateGroup ==
    /\ pc = "term"
    /\ leader' = "exited" /\ group' = FALSE
    /\ Continue(next)
    /\ UNCHANGED <<escaped, output, threads, main, queue, cancel, timer, pending>>

-----------------------------------------------------------------------------
(* The final drain and the cleanup *)

Reading(s) == reader[s] \notin {"none", "done"}

\* Mutant: once a reader has ended, what it put is not waited for.
ReadersAliveAny ==
    /\ pc = "alive"
    /\ IF \A s \in Streams : Reading(s)
       THEN Continue("get") /\ drained' = 0
       ELSE Continue("empty") /\ UNCHANGED drained
    /\ UNCHANGED <<process, output, threads, next, final, transcript, stop,
                   ending, queue, cancel, timer, pending>>

\* The condition of the final drain is read in two steps: is a reader alive ...
ReadersAlive ==
    /\ pc = "alive"
    /\ IF \E s \in Streams : Reading(s)
       THEN Continue("get") /\ drained' = 0
       ELSE Continue("empty") /\ UNCHANGED drained
    /\ UNCHANGED <<process, output, threads, next, final, transcript, stop,
                   ending, queue, cancel, timer, pending>>

\* ... and, if none is, does the queue still hold items.
QueueEmpty ==
    /\ pc = "empty"
    /\ IF queue # << >>
       THEN Continue("get") /\ drained' = 0
       ELSE Continue("finish") /\ UNCHANGED drained
    /\ UNCHANGED <<process, output, threads, next, final, transcript, stop,
                   ending, queue, cancel, timer, pending>>

\* The last writes to the live streams and the transcript.
Finish ==
    /\ pc = "finish"
    /\ Raise("result") \/ Raise("io-failed")
    /\ UNCHANGED <<process, output, threads, queue, cancel, timer, pending>>

\* A session that was launched and has no result kills the group here.
Finally ==
    /\ pc = "finally"
    /\ cancel' = TRUE
    /\ IF ending \notin {"result", "launch-failed"}
       THEN Continue("term") /\ next' = "close"
       ELSE Continue("close") /\ UNCHANGED next
    /\ UNCHANGED <<process, output, threads, final, drained, transcript, stop,
                   ending, queue, timer, pending>>

\* Closing stdin waits for the thread that is writing to it; the threads
\* are joined with a bound.
ClosePipes ==
    /\ pc = "close"
    /\ stdin # "writing"
    /\ Continue("restore")
    /\ UNCHANGED <<process, output, threads, main, queue, cancel, timer, pending>>

\* Leaving the managed signals raises the deferred one, whatever the result.
RestoreSignals ==
    /\ pc = "restore"
    /\ Continue("done")
    /\ ending' = IF pending THEN "signal" ELSE ending
    /\ UNCHANGED <<process, output, threads, next, final, drained, transcript,
                   stop, queue, cancel, timer, pending>>

-----------------------------------------------------------------------------
(* The environment and the specification *)

Expire ==
    /\ timer = "armed" /\ pc \notin {"launch", "record", "start", "done"}
    /\ timer' = "expired"
    /\ UNCHANGED <<process, output, threads, main, queue, cancel, pc, pending>>

Signal ==
    /\ pc # "done" /\ ~pending
    /\ pending' = TRUE
    /\ UNCHANGED <<process, output, threads, main, queue, cancel, pc, timer>>

MainStep ==
    \/ Launch \/ Record \/ StartThreads \/ Top \/ Get \/ Check \/ Poll
    \/ TerminateGroup \/ ReadersAlive \/ QueueEmpty \/ Finish \/ Finally
    \/ ClosePipes \/ RestoreSignals

Next ==
    \/ MainStep
    \/ \E s \in Streams :
          ReaderRuns(s) \/ ReaderFails(s) \/ WorkerWrites(s)
    \/ PromptWritten \/ WorkerChanges \/ Expire \/ Signal

Spec == Init /\ [][Next]_vars

\* The handler's threads are scheduled and time passes; a write to a pipe
\* nobody can read fails.  Nothing is assumed of the worker.
FairSpec ==
    /\ Spec
    /\ WF_vars(MainStep)
    /\ \A s \in Streams : WF_vars(ReaderRuns(s))
    /\ WF_vars(Expire)
    /\ WF_vars(~Alive /\ PromptWritten)

-----------------------------------------------------------------------------
(* Properties *)

Kept(s, q) == Filter(q, {s} \X {"text", "match"})

\* A session reports a result only with everything the worker and its
\* descendants wrote, each stream in its order: neither the end of the
\* leader, a reader that ends or fails, nor a full queue loses output.
NothingLost ==
    ending = "result" =>
        \A s \in Streams : Kept(s, transcript) = written[s]

\* A session whose output matches a stop regex never reports a plain
\* result, not even if the match arrives after the worker has exited.
MatchStops == ending = "result" /\ Matches => stop # None

\* However a session ends, no process of the worker's group survives it.
NoWorkerLeft == pc = "done" => ~GroupAlive

\* With a timeout, or once a signal has arrived, a session ends, whatever the
\* worker does or writes, unless a descendant leaves the group.
SessionEnds == timer # "off" \/ pending ~> pc = "done" \/ escaped

\* Once the worker and all its descendants are gone the session ends, whatever
\* they left in the pipes and wherever a descendant that outlived the group
\* had kept the readers, the final drain or the close of stdin.
WorkerGoneEnds == leader = "exited" /\ ~Alive ~> pc = "done"

\* The threads of an ended session end, too: one that waits for space in a queue
\* nobody empties any more is released.
ThreadsEnd ==
    pc = "done" ~>
        escaped \/ (stdin # "writing" /\ \A s \in Streams : ~Reading(s))
=============================================================================
