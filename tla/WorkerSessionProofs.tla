------------------------- MODULE WorkerSessionProofs -------------------------
(***************************************************************************)
(* A session loses no output, misses no match and leaves no worker of the  *)
(* group, for all streams, queue and pipe sizes, budgets and outputs.      *)
(***************************************************************************)
EXTENDS WorkerSession, FilterProofs

\* A chunk, or a reader's exception, of stream s.
ItemsOf(s) == {s} \X {"text", "match", "noise", "failure"}
Items == Streams \X {"text", "match", "noise", "failure"}

SessionType ==
    /\ leader \in {"none", "running", "exited"}
    /\ group \in BOOLEAN /\ escaped \in BOOLEAN
    /\ pipe \in [Streams -> Seq(Items)]
    /\ \A s \in Streams : pipe[s] \in Seq(ItemsOf(s))
    /\ written \in [Streams -> Seq(Items)]
    /\ reader \in [Streams -> {"none", "loop", "read", "put", "done"}]
    /\ item \in [Streams -> Items \union {None}]
    /\ \A s \in Streams : reader[s] = "put" => item[s] \in ItemsOf(s)
    /\ queue \in Seq(Items) /\ transcript \in Seq(Items)
    /\ cancel \in BOOLEAN /\ final \in BOOLEAN /\ pending \in BOOLEAN
    /\ drained \in Nat

Looping == {"top", "get", "check", "poll", "alive", "empty", "finish"}
Closing == {"close", "restore", "done"}

\* Where run_agent_process is, what it has decided and whether the readers
\* were told to stop.
Places ==
    /\ pc \in {"launch", "record", "start", "finally", "term"}
              \union Looping \union Closing
    /\ pc = "term" => next \in {"poll", "alive", "close"}
    /\ ending = None <=>
          \/ pc \in {"launch", "record", "start"} \union Looping
          \/ pc = "term" /\ next # "close"
    /\ ending = None \/ pc = "finally" => ~cancel

\* No reader starts before the loop, and each has started in it.
Started ==
    /\ pc \in {"launch", "record", "start"} =>
          \A s \in Streams : reader[s] = "none"
    /\ ending = None /\ pc \notin {"launch", "record", "start"} =>
          \A s \in Streams : reader[s] # "none"

\* Nothing can come any more once the final drain has ended.
Drained ==
    /\ pc \in {"empty", "finish"} \/ ending = "result" =>
          \A s \in Streams : reader[s] = "done"
    /\ pc = "finish" \/ ending = "result" => queue = << >>

FailureQueued(q) == \E i \in 1 .. Len(q) : q[i][2] = "failure"

\* A reader nobody cancelled has ended at the end of its stream, or its
\* exception is still to be raised.
EndsAtEnd ==
    ending \in {None, "result"} =>
        \A s \in Streams : reader[s] = "done" =>
            (pipe[s] = << >> /\ ~Alive) \/ FailureQueued(queue)

\* What a reader has taken from its pipe and not yet put in the queue.
Held(s) == IF reader[s] = "put" THEN One(item[s]) ELSE << >>

\* What the worker wrote is in the transcript, the queue, a reader's hands or
\* the pipe, in that order.
Flow ==
    ending \in {None, "result"} =>
        \A s \in Streams :
            written[s] = Cat(Kept(s, transcript),
                             Cat(Kept(s, queue),
                                 Cat(Kept(s, Held(s)), Kept(s, pipe[s]))))

\* A match that is not yet a reason to stop is about to be searched for.
Noticed ==
    Matches /\ ending \in {None, "result"} =>
        stop # None \/ (pc \in {"get", "check"} /\ drained > 0)

\* The group is gone once it has been terminated, and it never comes back.
Gone ==
    /\ pc = "launch" \/ (pc = "finally" /\ ending = "launch-failed") =>
          leader = "none" /\ ~group /\ ~escaped
    /\ final /\ ~(pc = "term" /\ next = "alive") => ~GroupAlive
    /\ pc \in {"alive", "empty", "finish"} \/ ending = "result" => final
    /\ pc = "term" /\ next = "alive" => final
    /\ pc \in Closing => ~GroupAlive
    /\ pc = "launch" => ~final

SessionInv ==
    /\ SessionType /\ Places /\ Started /\ Drained
    /\ EndsAtEnd /\ Flow /\ Noticed /\ Gone

-----------------------------------------------------------------------------
(* Types *)

LEMMA TypeThread ==
    ASSUME SessionType, NEW s \in Streams, ReaderRuns(s) \/ ReaderFails(s)
    PROVE  SessionType'
  <1> USE DEF SessionType, ThreadMoves, process, main, Items, ItemsOf
  <1>1. CASE ReaderLoops(s)
    BY <1>1 DEF ReaderLoops
  <1>2. CASE ReaderReads(s)
    <2>1. /\ Head(pipe[s]) \in ItemsOf(s) /\ Head(pipe[s]) \in Items
          /\ Tail(pipe[s]) \in Seq(ItemsOf(s)) /\ Tail(pipe[s]) \in Seq(Items)
      BY <1>2, HeadTailProperties DEF ReaderReads
    <2> QED
      BY <1>2, <2>1 DEF ReaderReads
  <1>3. CASE ReaderEnds(s)
    BY <1>3 DEF ReaderEnds
  <1>4. CASE ReaderPuts(s)
    <2>1. item[s] \in Items /\ Append(queue, item[s]) \in Seq(Items)
      BY <1>4, AppendProperties DEF ReaderPuts
    <2> QED
      BY <1>4, <2>1 DEF ReaderPuts
  <1>5. CASE ReaderGivesUp(s)
    BY <1>5 DEF ReaderGivesUp
  <1>6. CASE ReaderFails(s)
    BY <1>6 DEF ReaderFails
  <1> QED
    BY <1>1, <1>2, <1>3, <1>4, <1>5, <1>6 DEF ReaderRuns

LEMMA TypeWrites ==
    ASSUME SessionType, NEW s \in Streams, WorkerWrites(s)
    PROVE  SessionType'
  <1> USE DEF SessionType, threads, process, main, Items, ItemsOf
  <1>1. PICK c \in Kinds :
          /\ pipe' = [pipe EXCEPT ![s] = Append(@, <<s, c>>)]
          /\ written' = IF c = "noise" THEN written
                        ELSE [written EXCEPT ![s] = Append(@, <<s, c>>)]
    BY DEF WorkerWrites
  <1>2. <<s, c>> \in ItemsOf(s) /\ <<s, c>> \in Items
    BY DEF Kinds
  <1>3. /\ Append(pipe[s], <<s, c>>) \in Seq(ItemsOf(s))
        /\ Append(pipe[s], <<s, c>>) \in Seq(Items)
        /\ Append(written[s], <<s, c>>) \in Seq(Items)
    BY <1>2, AppendProperties
  <1>4. pipe' \in [Streams -> Seq(Items)] /\ written' \in [Streams -> Seq(Items)]
    BY <1>1, <1>3
  <1>5. \A t \in Streams : pipe'[t] \in Seq(ItemsOf(t))
    BY <1>1, <1>3
  <1> QED
    BY <1>4, <1>5 DEF WorkerWrites

LEMMA TypeMain ==
    ASSUME SessionType, MainStep
    PROVE  SessionType'
  <1> USE DEF SessionType, threads, output, process, main, Continue, Raise
  <1>1. CASE Get
    <2>1. CASE pc' = pc /\ queue # << >> /\ TakeItem
      <3>1. /\ Head(queue) \in Items /\ Tail(queue) \in Seq(Items)
            /\ Append(transcript, Head(queue)) \in Seq(Items)
        BY <2>1, HeadTailProperties, AppendProperties
      <3>2. queue' \in Seq(Items) /\ transcript' \in Seq(Items)
        BY <2>1, <3>1 DEF TakeItem
      <3>3. drained' \in Nat /\ UNCHANGED final
        BY <2>1 DEF TakeItem
      <3> QED
        BY <1>1, <3>2, <3>3 DEF Get
    <2>2. CASE queue # << >> /\ queue' = Tail(queue) /\ Raise("io-failed")
      BY <1>1, <2>2, HeadTailProperties DEF Get
    <2>3. CASE UNCHANGED <<main, queue>>
      BY <1>1, <2>3 DEF Get
    <2> QED
      BY <1>1, <2>1, <2>2, <2>3 DEF Get, TakeItem
  <1>2. CASE Launch \/ Record \/ Top
    BY <1>2 DEF Launch, Record, Top
  <1>3. CASE StartThreads
    BY <1>3 DEF StartThreads
  <1>4. CASE Check
    BY <1>4 DEF Check, StopsBy
  <1>5. CASE Poll \/ TerminateGroup
    BY <1>5 DEF Poll, TerminateGroup
  <1>6. CASE ReadersAlive \/ QueueEmpty \/ Finish
    BY <1>6 DEF ReadersAlive, QueueEmpty, Finish
  <1>7. CASE Finally \/ ClosePipes \/ RestoreSignals
    BY <1>7 DEF Finally, ClosePipes, RestoreSignals
  <1> QED
    BY <1>1, <1>2, <1>3, <1>4, <1>5, <1>6, <1>7 DEF MainStep

LEMMA TypeStep ==
    ASSUME SessionType, [Next]_vars
    PROVE  SessionType'
  <1>1. CASE PromptWritten \/ WorkerChanges \/ Expire \/ Signal
             \/ UNCHANGED vars
    BY <1>1 DEF SessionType, PromptWritten, WorkerChanges, Expire, Signal,
                vars, threads, output, process, main
  <1> QED
    BY <1>1, TypeThread, TypeWrites, TypeMain DEF Next

-----------------------------------------------------------------------------
(* Where the session is *)

LEMMA PlacesStep ==
    ASSUME SessionType, Places, [Next]_vars
    PROVE  Places'
  <1> USE SessionAssumption DEF Places, Looping, Closing, SessionType, main
  <1>1. CASE MainStep
    <2> USE DEF Continue, Raise
    <2>1. CASE Launch \/ Record \/ StartThreads \/ Top \/ Get
      BY <2>1 DEF Launch, Record, StartThreads, Top, Get, TakeItem
    <2>2. CASE Poll \/ Check \/ TerminateGroup
      BY <2>2 DEF Poll, Check, StopsBy, TerminateGroup
    <2>3. CASE ReadersAlive \/ QueueEmpty \/ Finish
      BY <2>3 DEF ReadersAlive, QueueEmpty, Finish
    <2>4. CASE Finally \/ ClosePipes \/ RestoreSignals
      BY <2>4 DEF Finally, ClosePipes, RestoreSignals
    <2> QED
      BY <1>1, <2>1, <2>2, <2>3, <2>4 DEF MainStep
  <1>2. ASSUME NEW s \in Streams, ReaderRuns(s) \/ ReaderFails(s)
        PROVE  Places'
    BY <1>2 DEF ReaderRuns, ReaderLoops, ReaderReads, ReaderEnds, ReaderPuts,
                ReaderGivesUp, ReaderFails, ThreadMoves
  <1>3. ASSUME NEW s \in Streams, WorkerWrites(s)
        PROVE  Places'
    BY <1>3 DEF WorkerWrites
  <1>4. CASE PromptWritten \/ WorkerChanges \/ Expire \/ Signal
             \/ UNCHANGED vars
    BY <1>4 DEF PromptWritten, WorkerChanges, Expire, Signal, vars
  <1> QED
    BY <1>1, <1>2, <1>3, <1>4 DEF Next

LEMMA StartedStep ==
    ASSUME SessionType, Places, Started, [Next]_vars
    PROVE  Started'
  <1> USE SessionAssumption
          DEF Places, Started, Looping, Closing, SessionType, main, threads
  <1>1. CASE MainStep
    <2> USE DEF Continue, Raise
    <2>1. CASE Launch \/ Record \/ StartThreads \/ Top \/ Get
      BY <2>1 DEF Launch, Record, StartThreads, Top, Get, TakeItem
    <2>2. CASE Poll \/ Check \/ TerminateGroup
      BY <2>2 DEF Poll, Check, StopsBy, TerminateGroup
    <2>3. CASE ReadersAlive \/ QueueEmpty \/ Finish
      BY <2>3 DEF ReadersAlive, QueueEmpty, Finish
    <2>4. CASE Finally \/ ClosePipes \/ RestoreSignals
      BY <2>4 DEF Finally, ClosePipes, RestoreSignals
    <2> QED
      BY <1>1, <2>1, <2>2, <2>3, <2>4 DEF MainStep
  <1>2. ASSUME NEW s \in Streams, ReaderRuns(s) \/ ReaderFails(s)
        PROVE  Started'
    BY <1>2 DEF ReaderRuns, ReaderLoops, ReaderReads, ReaderEnds, ReaderPuts,
                ReaderGivesUp, ReaderFails, ThreadMoves
  <1>3. ASSUME NEW s \in Streams, WorkerWrites(s)
        PROVE  Started'
    BY <1>3 DEF WorkerWrites
  <1>4. CASE PromptWritten \/ WorkerChanges \/ Expire \/ Signal
             \/ UNCHANGED vars
    BY <1>4 DEF PromptWritten, WorkerChanges, Expire, Signal, vars
  <1> QED
    BY <1>1, <1>2, <1>3, <1>4 DEF Next

LEMMA GoneStep ==
    ASSUME SessionType, Places, Gone, [Next]_vars
    PROVE  Gone'
  <1> USE SessionAssumption
          DEF Places, Gone, GroupAlive, Looping, Closing, SessionType, main,
              process
  <1>1. CASE MainStep
    <2> USE DEF Continue, Raise
    <2>1. CASE Launch \/ Record \/ StartThreads \/ Top \/ Get
      BY <2>1 DEF Launch, Record, StartThreads, Top, Get, TakeItem
    <2>2. CASE Poll \/ Check \/ TerminateGroup
      BY <2>2 DEF Poll, Check, StopsBy, TerminateGroup
    <2>3. CASE ReadersAlive \/ QueueEmpty \/ Finish
      BY <2>3 DEF ReadersAlive, QueueEmpty, Finish
    <2>4. CASE Finally \/ ClosePipes \/ RestoreSignals
      BY <2>4 DEF Finally, ClosePipes, RestoreSignals
    <2> QED
      BY <1>1, <2>1, <2>2, <2>3, <2>4 DEF MainStep
  <1>2. ASSUME NEW s \in Streams, ReaderRuns(s) \/ ReaderFails(s)
        PROVE  Gone'
    BY <1>2 DEF ReaderRuns, ReaderLoops, ReaderReads, ReaderEnds, ReaderPuts,
                ReaderGivesUp, ReaderFails, ThreadMoves
  <1>3. ASSUME NEW s \in Streams, WorkerWrites(s)
        PROVE  Gone'
    BY <1>3 DEF WorkerWrites
  <1>4. CASE PromptWritten \/ WorkerChanges \/ Expire \/ Signal
             \/ UNCHANGED vars
    BY <1>4 DEF PromptWritten, WorkerChanges, Expire, Signal, vars
  <1> QED
    BY <1>1, <1>2, <1>3, <1>4 DEF Next

LEMMA DrainedStep ==
    ASSUME SessionType, Places, Started, Drained, [Next]_vars
    PROVE  Drained'
  <1> USE SessionAssumption
          DEF Places, Started, Drained, Looping, Closing, SessionType, main,
              threads
  <1>1. CASE MainStep
    <2> USE DEF Continue, Raise
    <2>1. CASE Launch \/ Record \/ StartThreads \/ Top \/ Get
      BY <2>1 DEF Launch, Record, StartThreads, Top, Get, TakeItem
    <2>2. CASE Poll \/ Check \/ TerminateGroup
      BY <2>2 DEF Poll, Check, StopsBy, TerminateGroup
    <2>3. CASE ReadersAlive \/ QueueEmpty \/ Finish
      BY <2>3 DEF ReadersAlive, QueueEmpty, Finish, Reading
    <2>4. CASE Finally \/ ClosePipes \/ RestoreSignals
      BY <2>4 DEF Finally, ClosePipes, RestoreSignals
    <2> QED
      BY <1>1, <2>1, <2>2, <2>3, <2>4 DEF MainStep
  <1>2. ASSUME NEW s \in Streams, ReaderRuns(s) \/ ReaderFails(s)
        PROVE  Drained'
    BY <1>2 DEF ReaderRuns, ReaderLoops, ReaderReads, ReaderEnds, ReaderPuts,
                ReaderGivesUp, ReaderFails, ThreadMoves
  <1>3. ASSUME NEW s \in Streams, WorkerWrites(s)
        PROVE  Drained'
    BY <1>3 DEF WorkerWrites
  <1>4. CASE PromptWritten \/ WorkerChanges \/ Expire \/ Signal
             \/ UNCHANGED vars
    BY <1>4 DEF PromptWritten, WorkerChanges, Expire, Signal, vars
  <1> QED
    BY <1>1, <1>2, <1>3, <1>4 DEF Next

LEMMA NoticedStep ==
    ASSUME SessionType, Places, Noticed, [Next]_vars
    PROVE  Noticed'
  <1> USE SessionAssumption
          DEF Places, Noticed, Matches, Looping, Closing, SessionType, main
  <1>1. CASE MainStep
    <2> USE DEF Continue, Raise
    <2>1. CASE Get
      BY <2>1 DEF Get, TakeItem
    <2>2. CASE Launch \/ Record \/ StartThreads \/ Top
      BY <2>2 DEF Launch, Record, StartThreads, Top
    <2>3. CASE Check
      BY <2>3 DEF Check, StopsBy
    <2>4. CASE Poll \/ TerminateGroup \/ ReadersAlive \/ QueueEmpty \/ Finish
      BY <2>4 DEF Poll, TerminateGroup, ReadersAlive, QueueEmpty, Finish
    <2>5. CASE Finally \/ ClosePipes \/ RestoreSignals
      BY <2>5 DEF Finally, ClosePipes, RestoreSignals
    <2> QED
      BY <1>1, <2>1, <2>2, <2>3, <2>4, <2>5 DEF MainStep
  <1>2. ASSUME NEW s \in Streams, ReaderRuns(s) \/ ReaderFails(s)
        PROVE  Noticed'
    BY <1>2 DEF ReaderRuns, ReaderLoops, ReaderReads, ReaderEnds, ReaderPuts,
                ReaderGivesUp, ReaderFails, ThreadMoves
  <1>3. ASSUME NEW s \in Streams, WorkerWrites(s)
        PROVE  Noticed'
    BY <1>3 DEF WorkerWrites
  <1>4. CASE PromptWritten \/ WorkerChanges \/ Expire \/ Signal
             \/ UNCHANGED vars
    BY <1>4 DEF PromptWritten, WorkerChanges, Expire, Signal, vars
  <1> QED
    BY <1>1, <1>2, <1>3, <1>4 DEF Next

-----------------------------------------------------------------------------
(* The ends of the streams *)

LEMMA FailureStays ==
    ASSUME NEW E, NEW q \in Seq(E), FailureQueued(q)
    PROVE  /\ \A x \in E : FailureQueued(Append(q, x))
           /\ Head(q)[2] # "failure" => FailureQueued(Tail(q))
  BY DEF FailureQueued

LEMMA EndsAtEndMain ==
    ASSUME SessionType, Places, Started, EndsAtEnd, MainStep
    PROVE  EndsAtEnd'
  <1> USE SessionAssumption DEF Places, Looping, Closing
  <1>1. CASE ending' \notin {None, "result"}
    BY <1>1 DEF EndsAtEnd
  <1>2. CASE Get /\ ending' \in {None, "result"}
    <2> USE DEF Get, main, Raise
    <2>1. ending = None /\ UNCHANGED <<process, pipe, reader>>
      BY <1>2 DEF threads, output
    <2>2. FailureQueued(queue) => FailureQueued(queue')
      BY <1>2, FailureStays DEF TakeItem, SessionType
    <2> QED
      BY <2>1, <2>2 DEF EndsAtEnd, Alive, GroupAlive, process
  <1>3. CASE Launch \/ StartThreads
    BY <1>3 DEF Launch, StartThreads, Started, EndsAtEnd, SessionType, main,
                Raise, Continue, process, output, threads
  <1>4. CASE TerminateGroup
    BY <1>4 DEF TerminateGroup, EndsAtEnd, Alive, GroupAlive, main, output,
                threads
  <1>5. CASE /\ ending' \in {None, "result"}
             /\ \/ Record \/ Top \/ Check \/ Poll \/ ReadersAlive
                \/ QueueEmpty \/ Finish \/ Finally \/ ClosePipes
                \/ RestoreSignals
    <2>1. /\ ending \in {None, "result"}
          /\ UNCHANGED <<process, pipe, reader, queue>>
      BY <1>5 DEF Record, Top, Check, Poll, ReadersAlive, QueueEmpty, Finish,
                  Finally, ClosePipes, RestoreSignals, StopsBy, Raise,
                  Continue, main, output, threads
    <2> QED
      BY <2>1 DEF EndsAtEnd, Alive, GroupAlive, process
  <1> QED
    BY <1>1, <1>2, <1>3, <1>4, <1>5 DEF MainStep

LEMMA EndsAtEndStep ==
    ASSUME SessionType, Places, Started, Drained, EndsAtEnd, [Next]_vars
    PROVE  EndsAtEnd'
  <1> USE SessionAssumption
  <1>2. ASSUME NEW s \in Streams, ReaderRuns(s) \/ ReaderFails(s)
        PROVE  EndsAtEnd'
    <2> SUFFICES ASSUME ending \in {None, "result"}
                 PROVE  EndsAtEnd'
      BY <1>2 DEF ReaderRuns, ReaderLoops, ReaderReads, ReaderEnds,
                  ReaderPuts, ReaderGivesUp, ReaderFails, ThreadMoves, main,
                  EndsAtEnd
    <2>1. reader[s] # "done" /\ ~cancel
      BY <1>2 DEF ReaderRuns, ReaderLoops, ReaderReads, ReaderEnds,
                  ReaderPuts, ReaderGivesUp, ReaderFails, Drained, Places
    <2>2. \A t \in Streams : t # s => UNCHANGED <<reader[t], pipe[t]>>
      BY <1>2 DEF ReaderRuns, ReaderLoops, ReaderReads, ReaderEnds,
                  ReaderPuts, ReaderGivesUp, ReaderFails, ThreadMoves,
                  SessionType
    <2>3. UNCHANGED <<process, ending>>
      BY <1>2 DEF ReaderRuns, ReaderLoops, ReaderReads, ReaderEnds,
                  ReaderPuts, ReaderGivesUp, ReaderFails, ThreadMoves, main
    <2>4. CASE ReaderPuts(s)
      <3>1. /\ item[s] \in Items /\ queue \in Seq(Items)
            /\ queue' = Append(queue, item[s])
        BY <2>4 DEF ReaderPuts, SessionType, Items, ItemsOf
      <3>2. FailureQueued(queue) => FailureQueued(queue')
        BY <3>1, FailureStays
      <3>3. item[s][2] = "failure" => FailureQueued(queue')
        BY <3>1 DEF FailureQueued
      <3>4. reader'[s] = "done" => item[s][2] = "failure"
        BY <2>4 DEF ReaderPuts, ThreadMoves, SessionType
      <3> QED
        BY <2>2, <2>3, <3>2, <3>3, <3>4
           DEF EndsAtEnd, Alive, GroupAlive, process
    <2>5. CASE ReaderEnds(s)
      BY <2>2, <2>3, <2>5
         DEF ReaderEnds, EndsAtEnd, Alive, GroupAlive, process
    <2>6. CASE ReaderLoops(s) \/ ReaderReads(s) \/ ReaderFails(s)
      <3>1. reader'[s] # "done" /\ UNCHANGED queue
        BY <2>1, <2>6 DEF ReaderLoops, ReaderReads, ReaderFails, ThreadMoves,
                          SessionType
      <3> QED
        BY <2>2, <2>3, <3>1 DEF EndsAtEnd, Alive, GroupAlive, process
    <2> QED
      BY <1>2, <2>1, <2>4, <2>5, <2>6 DEF ReaderRuns, ReaderGivesUp
  <1>3. ASSUME NEW s \in Streams, WorkerWrites(s)
        PROVE  EndsAtEnd'
    BY <1>3 DEF WorkerWrites, EndsAtEnd, Alive, GroupAlive, process, threads,
                main
  <1>4. CASE WorkerChanges
    BY <1>4 DEF WorkerChanges, EndsAtEnd, Alive, GroupAlive, output, threads,
                main, SessionType
  <1>5. CASE PromptWritten \/ Expire \/ Signal \/ UNCHANGED vars
    BY <1>5 DEF PromptWritten, Expire, Signal, vars, EndsAtEnd, Alive,
                GroupAlive, process, output, threads, main
  <1> QED
    BY <1>2, <1>3, <1>4, <1>5, EndsAtEndMain DEF Next

-----------------------------------------------------------------------------
(* The way of a chunk *)

LEMMA KeptType ==
    ASSUME NEW s \in Streams, NEW q \in Seq(Items)
    PROVE  Kept(s, q) \in Seq(Items)
  BY FilterType DEF Kept

LEMMA KeptAdds ==
    ASSUME NEW s \in Streams, NEW q \in Seq(Items), NEW x \in Items,
           NEW t, t = Append(q, x)
    PROVE  Kept(s, t) = Cat(Kept(s, q), Kept(s, One(x)))
  <1>1. t = Cat(q, One(x))
    BY AppendIsCat
  <1> QED
    BY <1>1, FilterAdd DEF Kept

LEMMA KeptTakes ==
    ASSUME NEW s \in Streams, NEW q \in Seq(Items), q # << >>
    PROVE  Kept(s, q) = Cat(Kept(s, One(Head(q))), Kept(s, Tail(q)))
  <1>1. /\ Tail(q) \in Seq(Items) /\ One(Head(q)) \in Seq(Items)
        /\ q = Cat(One(Head(q)), Tail(q))
    BY HeadCatTail
  <1> DEFINE a == One(Head(q))
             b == Tail(q)
  <1> HIDE DEF a, b
  <1>2. \A S : Filter(Cat(a, b), S) = Cat(Filter(a, S), Filter(b, S))
    BY <1>1, FilterConcat DEF a, b
  <1> QED
    BY <1>1, <1>2, Zenon DEF Kept, a, b

LEMMA KeptOne ==
    ASSUME NEW s \in Streams, NEW x \in Items
    PROVE  Kept(s, One(x)) =
              IF x[1] = s /\ x[2] \in {"text", "match"} THEN One(x) ELSE << >>
  <1>1. x \in {s} \X {"text", "match"} <=>
           x[1] = s /\ x[2] \in {"text", "match"}
    BY DEF Items
  <1> QED
    BY <1>1, FilterSingle DEF Kept

LEMMA HeldType ==
    ASSUME SessionType, NEW s \in Streams
    PROVE  Held(s) \in Seq(Items)
  <1>1. CASE reader[s] = "put"
    <2>1. item[s] \in Items
      BY <1>1 DEF SessionType, Items, ItemsOf
    <2> QED
      BY <1>1, <2>1 DEF Held, One
  <1>2. CASE reader[s] # "put"
    BY <1>2 DEF Held
  <1> QED
    BY <1>1, <1>2

LEMMA FlowMain ==
    ASSUME SessionType, Places, Started, Flow, MainStep
    PROVE  Flow'
  <1> USE SessionAssumption DEF Places, Looping, Closing
  <1>1. CASE ending' \notin {None, "result"}
    BY <1>1 DEF Flow
  <1>2. CASE Get /\ ending' \in {None, "result"} /\ queue' # queue
    <2>1. /\ ending = None /\ UNCHANGED <<pipe, written, reader, item>>
      BY <1>2 DEF Get, threads, output
    <2>2. /\ queue # << >> /\ queue' = Tail(queue)
          /\ transcript' = IF Remembered(Head(queue))
                           THEN Append(transcript, Head(queue))
                           ELSE transcript
      BY <1>2, <2>1 DEF Get, TakeItem, main, Raise
    <2>3. Head(queue) \in Items /\ Tail(queue) \in Seq(Items)
      BY <2>2, HeadTailProperties DEF SessionType
    <2> SUFFICES ASSUME NEW s \in Streams
                 PROVE  written'[s] = Cat(Kept(s, transcript'),
                             Cat(Kept(s, queue'),
                                 Cat(Kept(s, Held(s)'), Kept(s, pipe'[s]))))
      BY DEF Flow
    <2> DEFINE h == Kept(s, One(Head(queue)))
               k == Kept(s, transcript)
               u == Kept(s, Tail(queue))
               v == Cat(Kept(s, Held(s)), Kept(s, pipe[s]))
    <2>4. /\ k \in Seq(Items) /\ h \in Seq(Items) /\ u \in Seq(Items)
          /\ v \in Seq(Items)
      BY <2>3, KeptType, HeldType, CatType, AppendIsCat DEF SessionType
    <2>5. Kept(s, transcript') = Cat(k, h)
      <3>1. transcript \in Seq(Items)
        BY DEF SessionType
      <3>2. CASE Remembered(Head(queue))
        <4>1. transcript' = Append(transcript, Head(queue))
          BY <2>2, <3>2
        <4> QED
          BY <2>3, <3>1, <4>1, KeptAdds
      <3>3. CASE ~Remembered(Head(queue))
        <4>1. h = << >>
          BY <2>3, <3>3, KeptOne DEF Remembered
        <4>2. transcript' = transcript
          BY <2>2, <3>3
        <4> HIDE DEF h
        <4> QED
          BY <2>4, <4>1, <4>2, CatEmpty
      <3> QED
        BY <3>2, <3>3
    <2>6. Kept(s, queue) = Cat(h, u)
      BY <2>2, KeptTakes DEF SessionType
    <2>7. written[s] = Cat(k, Cat(Cat(h, u), v))
      BY <2>1, <2>6 DEF Flow
    <2>8. Held(s)' = Held(s)
      BY <2>1 DEF Held
    <2> HIDE DEF h, k, u, v
    <2>9. Cat(k, Cat(Cat(h, u), v)) = Cat(Cat(k, h), Cat(u, v))
      BY <2>4, CatAssociates, CatType
    <2> QED
      BY <2>1, <2>2, <2>5, <2>7, <2>8, <2>9 DEF u, v
  <1>3. CASE /\ ending' \in {None, "result"}
             /\ UNCHANGED <<written, transcript, queue, pipe, reader, item>>
    <2>1. ending \in {None, "result"}
      BY <1>3 DEF MainStep, Launch, Record, StartThreads, Top, Get, TakeItem,
                  Check, Poll, TerminateGroup, ReadersAlive, QueueEmpty,
                  Finish, Finally, ClosePipes, RestoreSignals, StopsBy, Raise,
                  Continue, main
    <2>2. \A s \in Streams : Held(s)' = Held(s)
      BY <1>3 DEF Held
    <2> QED
      BY <1>3, <2>1, <2>2 DEF Flow
  <1>4. CASE StartThreads /\ ending' \in {None, "result"}
    <2>1. UNCHANGED <<ending, written, transcript, queue, pipe>>
      BY <1>4 DEF StartThreads, Raise, Continue, output, main
    <2>2. \A s \in Streams : Held(s) = << >> /\ Held(s)' = << >>
      BY <1>4 DEF StartThreads, Started, Held
    <2> QED
      BY <2>1, <2>2 DEF Flow
  <1>5. ASSUME ~StartThreads, ending' \in {None, "result"}, ~Get
        PROVE  UNCHANGED <<written, transcript, queue, pipe, reader, item>>
    BY <1>5 DEF MainStep, Launch, Record, Top, Check, Poll, TerminateGroup,
                ReadersAlive, QueueEmpty, Finish, Finally, ClosePipes,
                RestoreSignals, StopsBy, Raise, Continue, main, output, threads
  <1>6. ASSUME Get, ending' \in {None, "result"}, queue' = queue
        PROVE  UNCHANGED <<written, transcript, queue, pipe, reader, item>>
    <2>1. queue # << >> => queue # Tail(queue)
      BY HeadTailProperties DEF SessionType
    <2> QED
      BY <1>6, <2>1 DEF Get, TakeItem, Raise, Continue, main, output, threads
  <1> QED
    BY <1>1, <1>2, <1>3, <1>4, <1>5, <1>6

LEMMA FlowThread ==
    ASSUME SessionType, Places, Drained, Flow, NEW s \in Streams,
           ReaderRuns(s) \/ ReaderFails(s)
    PROVE  Flow'
  <1> SUFFICES ASSUME ending' \in {None, "result"}, NEW t \in Streams
               PROVE  written'[t] = Cat(Kept(t, transcript'),
                          Cat(Kept(t, queue'),
                              Cat(Kept(t, Held(t)'), Kept(t, pipe'[t]))))
    BY DEF Flow
  <1>1. UNCHANGED <<written, transcript, ending>>
    BY DEF ReaderRuns, ReaderLoops, ReaderReads, ReaderEnds, ReaderPuts,
           ReaderGivesUp, ReaderFails, ThreadMoves, main
  <1>2. reader[s] # "done" /\ ~cancel
    BY <1>1, SessionAssumption
       DEF ReaderRuns, ReaderLoops, ReaderReads, ReaderEnds, ReaderPuts,
           ReaderGivesUp, ReaderFails, Drained, Places
  <1> DEFINE k == Kept(t, transcript)
             q == Kept(t, queue)
             h == Kept(t, Held(t))
             p == Kept(t, pipe[t])
  <1>3. written[t] = Cat(k, Cat(q, Cat(h, p)))
    BY <1>1 DEF Flow
  <1>4. /\ k \in Seq(Items) /\ q \in Seq(Items) /\ h \in Seq(Items)
        /\ p \in Seq(Items)
    BY KeptType, HeldType DEF SessionType
  <1>5. Kept(t, << >>) = << >>
    BY FilterEmpty DEF Kept
  <1>6. SUFFICES Cat(Kept(t, queue'), Cat(Kept(t, Held(t)'), Kept(t, pipe'[t])))
                    = Cat(q, Cat(h, p))
    BY <1>1, <1>3
  <1>7. CASE UNCHANGED <<queue, reader[t], item[t], pipe[t]>>
    BY <1>7 DEF Held
  <1>8. CASE t = s /\ ReaderReads(s)
    <2>1. /\ pipe[t] # << >> /\ pipe'[t] = Tail(pipe[t]) /\ queue' = queue
          /\ Held(t) = << >> /\ Held(t)' = One(Head(pipe[t]))
      BY <1>8 DEF ReaderReads, ThreadMoves, Held, SessionType
    <2>2. p = Cat(Kept(t, One(Head(pipe[t]))), Kept(t, Tail(pipe[t])))
      BY <2>1, KeptTakes DEF SessionType
    <2>3. h = << >>
      BY <2>1, <1>5
    <2> HIDE DEF h, p, q
    <2>4. Cat(h, p) = p
      BY <1>4, <2>3, CatEmpty
    <2> QED
      BY <2>1, <2>2, <2>4 DEF q
  <1>9. CASE t = s /\ ReaderPuts(s)
    <2>1. /\ item[t] \in Items /\ queue' = Append(queue, item[t])
          /\ pipe' = pipe /\ Held(t) = One(item[t]) /\ Held(t)' = << >>
      BY <1>9 DEF ReaderPuts, ThreadMoves, Held, SessionType, Items, ItemsOf
    <2>2. Kept(t, queue') = Cat(q, h)
      <3>1. queue \in Seq(Items) /\ h = Kept(t, One(item[t]))
        BY <2>1 DEF SessionType
      <3> QED
        BY <2>1, <3>1, KeptAdds
    <2>3. Kept(t, Held(t)') = << >>
      BY <2>1, <1>5
    <2> HIDE DEF h, p, q
    <2>4. Cat(<< >>, p) = p /\ Cat(Cat(q, h), p) = Cat(q, Cat(h, p))
      BY <1>4, CatEmpty, CatAssociates
    <2> QED
      BY <2>1, <2>2, <2>3, <2>4 DEF p
  <1>10. CASE t # s /\ ReaderPuts(s)
    <2>1. /\ item[s] \in Items /\ item[s][1] = s
          /\ queue' = Append(queue, item[s])
          /\ pipe' = pipe /\ Held(t)' = Held(t)
      BY <1>10 DEF ReaderPuts, ThreadMoves, Held, SessionType, Items, ItemsOf
    <2>2. Kept(t, queue') = Cat(q, Kept(t, One(item[s])))
      BY <2>1, KeptAdds DEF SessionType
    <2>3. Kept(t, One(item[s])) = << >>
      BY <2>1, <1>10, KeptOne
    <2> HIDE DEF h, p, q
    <2>4. Cat(q, << >>) = q
      BY <1>4, CatEmpty
    <2> QED
      BY <2>1, <2>2, <2>3, <2>4 DEF h, p
  <1>11. CASE t = s /\ ReaderFails(s)
    <2>1. /\ Held(t) = << >> /\ Held(t)' = One(<<t, "failure">>)
          /\ <<t, "failure">> \in Items
          /\ queue' = queue /\ pipe' = pipe
      BY <1>2, <1>11 DEF ReaderFails, ThreadMoves, Held, SessionType, Items
    <2>2. Kept(t, One(<<t, "failure">>)) = << >>
      BY <2>1, KeptOne
    <2> QED
      BY <2>1, <2>2, <1>5
  <1>12. CASE t = s /\ (ReaderLoops(s) \/ ReaderEnds(s))
    <2>1. /\ Held(t) = << >> /\ Held(t)' = << >>
          /\ queue' = queue /\ pipe' = pipe
      BY <1>12 DEF ReaderLoops, ReaderEnds, ThreadMoves, Held, SessionType
    <2> QED
      BY <2>1
  <1>13. ASSUME t # s, ~ReaderPuts(s)
         PROVE  UNCHANGED <<queue, reader[t], item[t], pipe[t]>>
    BY <1>2, <1>13 DEF ReaderRuns, ReaderLoops, ReaderReads, ReaderEnds,
       ReaderGivesUp, ReaderFails, ThreadMoves, SessionType
  <1> QED
    BY <1>2, <1>7, <1>8, <1>9, <1>10, <1>11, <1>12, <1>13
       DEF ReaderRuns, ReaderGivesUp

LEMMA FlowWrites ==
    ASSUME SessionType, Flow, NEW s \in Streams, WorkerWrites(s)
    PROVE  Flow'
  <1> SUFFICES ASSUME ending \in {None, "result"}, NEW t \in Streams
               PROVE  written'[t] = Cat(Kept(t, transcript'),
                          Cat(Kept(t, queue'),
                              Cat(Kept(t, Held(t)'), Kept(t, pipe'[t]))))
    BY DEF Flow, WorkerWrites, main
  <1> DEFINE k == Kept(t, transcript)
             q == Kept(t, queue)
             h == Kept(t, Held(t))
             p == Kept(t, pipe[t])
  <1>1. written[t] = Cat(k, Cat(q, Cat(h, p)))
    BY DEF Flow
  <1>2. /\ k \in Seq(Items) /\ q \in Seq(Items) /\ h \in Seq(Items)
        /\ p \in Seq(Items)
    BY KeptType, HeldType DEF SessionType
  <1>3. UNCHANGED <<transcript, queue>> /\ Held(t)' = Held(t)
    BY DEF WorkerWrites, threads, main, Held
  <1>4. CASE t # s
    BY <1>1, <1>3, <1>4 DEF WorkerWrites, SessionType
  <1>5. CASE t = s
    <2>1. PICK c \in Kinds :
             /\ pipe' = [pipe EXCEPT ![s] = Append(@, <<s, c>>)]
             /\ written' = IF c = "noise" THEN written
                           ELSE [written EXCEPT ![s] = Append(@, <<s, c>>)]
      BY DEF WorkerWrites
    <2> DEFINE x == <<s, c>>
    <2>2. /\ x \in Items /\ x[1] = s
          /\ x[2] \in {"text", "match"} <=> c # "noise"
      BY DEF Items, Kinds
    <2>3. /\ pipe'[s] = Append(pipe[s], x) /\ pipe[s] \in Seq(Items)
          /\ written'[s] = IF c = "noise" THEN written[s]
                           ELSE Append(written[s], x)
          /\ written[s] \in Seq(Items)
      BY <2>1 DEF SessionType
    <2> DEFINE e == Kept(t, One(x))
    <2>4. Kept(t, pipe'[t]) = Cat(p, e)
      BY <2>2, <2>3, <1>5, KeptAdds
    <2>5. e \in Seq(Items) /\ e = IF c = "noise" THEN << >> ELSE One(x)
      <3>1. e = IF c = "noise" THEN << >> ELSE One(x)
        BY <2>2, <1>5, KeptOne
      <3>2. One(x) \in Seq(Items) /\ << >> \in Seq(Items)
        BY <2>2 DEF One
      <3> QED
        BY <3>1, <3>2
    <2> HIDE DEF x, e
    <2>6. written'[t] = Cat(written[t], e)
      <3>1. CASE c = "noise"
        BY <3>1, <2>3, <2>5, <1>5, CatEmpty
      <3>2. CASE c # "noise"
        <4>1. written'[s] = Append(written[s], x)
          BY <3>2, <2>3
        <4>2. written[s] \in Seq(Items) /\ x \in Items
          BY <2>2, <2>3
        <4>3. written'[s] = Cat(written[s], One(x))
          BY <4>1, <4>2, AppendIsCat
        <4> QED
          BY <4>3, <3>2, <2>5, <1>5
      <3> QED
        BY <3>1, <3>2
    <2> HIDE DEF k, q, h, p
    <2>7. Cat(Cat(k, Cat(q, Cat(h, p))), e) = Cat(k, Cat(q, Cat(h, Cat(p, e))))
      <3>0. e \in Seq(Items)
        BY <2>5
      <3>1. Cat(Cat(h, p), e) = Cat(h, Cat(p, e)) /\ Cat(h, p) \in Seq(Items)
        BY <1>2, <3>0, CatAssociates, CatType
      <3>2. /\ Cat(Cat(q, Cat(h, p)), e) = Cat(q, Cat(Cat(h, p), e))
            /\ Cat(q, Cat(h, p)) \in Seq(Items)
        BY <1>2, <3>0, <3>1, CatAssociates, CatType
      <3>3. Cat(Cat(k, Cat(q, Cat(h, p))), e) = Cat(k, Cat(Cat(q, Cat(h, p)), e))
        BY <1>2, <3>0, <3>2, CatAssociates
      <3> QED
        BY <3>1, <3>2, <3>3
    <2> QED
      BY <1>1, <1>3, <2>4, <2>6, <2>7 DEF k, q, h
  <1> QED
    BY <1>4, <1>5

LEMMA FlowStep ==
    ASSUME SessionType, Places, Started, Drained, Flow, [Next]_vars
    PROVE  Flow'
  <1>1. CASE PromptWritten \/ WorkerChanges \/ Expire \/ Signal
             \/ UNCHANGED vars
    <2>1. UNCHANGED <<ending, written, transcript, queue, pipe, reader, item>>
      BY <1>1 DEF PromptWritten, WorkerChanges, Expire, Signal, vars, output,
                  threads, main
    <2>2. \A s \in Streams : Held(s)' = Held(s)
      BY <2>1 DEF Held
    <2> QED
      BY <2>1, <2>2 DEF Flow
  <1> QED
    BY <1>1, FlowMain, FlowThread, FlowWrites DEF Next

-----------------------------------------------------------------------------
(* The theorems *)

LEMMA SessionInit ==
    ASSUME Init
    PROVE  SessionInv
  <1> USE SessionAssumption DEF Init
  <1>1. SessionType
    <2>1. << >> \in Seq(Items) /\ \A s \in Streams : << >> \in Seq(ItemsOf(s))
      OBVIOUS
    <2> QED
      BY <2>1 DEF SessionType
  <1>2. Places /\ Started /\ Drained /\ EndsAtEnd /\ Gone
    BY DEF Places, Started, Drained, EndsAtEnd, Gone, Looping, Closing,
           GroupAlive
  <1>3. Noticed
    BY DEF Noticed, Matches
  <1>4. Flow
    <2>1. \A s \in Streams : /\ Kept(s, << >>) = << >>
                             /\ Held(s) = << >>
                             /\ pipe[s] = << >> /\ written[s] = << >>
      BY FilterEmpty DEF Kept, Held
    <2>2. Cat(<< >>, << >>) = << >>
      BY CatEmpties
    <2> QED
      BY <2>1, <2>2 DEF Flow
  <1> QED
    BY <1>1, <1>2, <1>3, <1>4 DEF SessionInv

LEMMA SessionInvariant == Spec => []SessionInv
  <1>1. SessionInv /\ [Next]_vars => SessionInv'
    BY TypeStep, PlacesStep, StartedStep, DrainedStep, EndsAtEndStep, FlowStep,
       NoticedStep, GoneStep DEF SessionInv
  <1> QED
    BY <1>1, SessionInit, PTL DEF Spec

\* Whatever is written, read, failed or interrupted, in any order, a result
\* comes with every remembered chunk, each stream in its order (NothingLost,
\* run_agent_process's final drain).
THEOREM SessionLosesNothing == Spec => []NothingLost
  <1>1. SessionInv => NothingLost
    <2> SUFFICES ASSUME SessionInv, ending = "result", NEW s \in Streams
                 PROVE  Kept(s, transcript) = written[s]
      BY DEF NothingLost
    <2>1. reader[s] = "done" /\ queue = << >>
      BY DEF SessionInv, Drained
    <2>2. pipe[s] = << >> /\ Held(s) = << >>
      BY <2>1 DEF SessionInv, EndsAtEnd, FailureQueued, Held
    <2>3. Kept(s, << >>) = << >>
      BY FilterEmpty DEF Kept
    <2> DEFINE k == Kept(s, transcript)
    <2>4. written[s] = Cat(k, Cat(<< >>, Cat(<< >>, << >>)))
      BY <2>1, <2>2, <2>3 DEF SessionInv, Flow
    <2>5. k \in Seq(Items)
      BY KeptType DEF SessionInv, SessionType
    <2> HIDE DEF k
    <2>6. Cat(<< >>, << >>) = << >> /\ Cat(k, << >>) = k
      BY <2>5, CatEmpty, CatEmpties
    <2> QED
      BY <2>4, <2>6 DEF k
  <1> QED
    BY <1>1, SessionInvariant, PTL

\* A match is a reason to stop, or about to be found, from the moment it is in
\* the transcript, before and after the worker's exit (MatchStops).
THEOREM SessionMissesNoMatch == Spec => []MatchStops
  <1>1. SessionInv => MatchStops
    BY SessionAssumption
       DEF SessionInv, Noticed, MatchStops, Places, Looping
  <1> QED
    BY <1>1, SessionInvariant, PTL

\* Each way out of run_agent_process passes through the end of the worker's
\* group, or through a launch that made none (NoWorkerLeft).
THEOREM SessionLeavesNoWorker == Spec => []NoWorkerLeft
  <1>1. SessionInv => NoWorkerLeft
    BY DEF SessionInv, Gone, NoWorkerLeft, Closing
  <1> QED
    BY <1>1, SessionInvariant, PTL
=============================================================================
