---------------------------- MODULE WrapperProofs ----------------------------
(***************************************************************************)
(* A block is the provider's last word, the provider's exit code comes     *)
(* with all it wrote, and it is kept, for outputs of all lengths.          *)
(***************************************************************************)
EXTENDS Wrapper, FilterProofs

Diagnosed == {"text", "tagged"}
Kinds == Diagnosed \union {"valid", "invalid", "empty", "failed", "garbled"}
Shown == {"line", "part", "rest", "block", "response"}

ThreadTypes ==
    /\ child \in {"none", "running", "exited"}
    /\ holder \in BOOLEAN /\ forked \in BOOLEAN
    /\ failures \in BOOLEAN /\ pending \in BOOLEAN /\ unread \in BOOLEAN
    /\ taken \in [Streams -> Nat]
    /\ relay \in [Streams -> {"none", "read", "write", "record", "end", "done",
                              "failed"}]
    /\ hiding \subseteq Streams

DataTypes ==
    /\ Provider \in Providers
    /\ written \in [Streams -> Seq(Kinds)]
    /\ \A s \in Streams : taken[s] <= Len(written[s])
    /\ shown \in [Streams -> Seq(Shown)]
    /\ final \in [text : Responses \union {None}, error : BOOLEAN]
    /\ file \in Responses \union {None}

WrapperType == ThreadTypes /\ DataTypes

\* The loop and what follows it, and the response that is read then.
Waiting == {"poll", "get", "join", "failures"}
Answering == {"message", "emit"}

\* Steps of neither the main thread nor a relay.
Outside == PromptEnds \/ ProviderChanges \/ Signal \/ ReaderLeaves

\* Where the main thread is, and what it knows there.
Course ==
    /\ pc \in {"spawn", "start", "terminate", "close", "rejoin", "restore",
               "done"} \union Waiting \union Answering
    /\ pc \in {"spawn", "start"} =>
          \A s \in Streams : relay[s] = "none" /\ taken[s] = 0
    /\ pc \in Waiting \union Answering =>
          \A s \in Streams : relay[s] # "none"
    /\ pc \in {"join", "failures"} \union Answering => child = "exited"
    /\ ending = None <=>
          pc \in {"spawn", "start"} \union Waiting \union Answering
    /\ holder => forked

\* Nothing but these keeps a relay or the main thread from writing.
Hindered == unread \/ \E p \in Providers : "garbled" \in Answers[p]

\* Why the wrapper ends as it does.
Reasons ==
    /\ ending = "error" => Hindered \/ \E s \in Streams : relay[s] = "none"
    /\ ending = "error" => pc \notin {"spawn", "start"}
    /\ ending = "signal" => pending
    /\ ending \in {None, "code", "error", "signal", "uncleaned"}

\* The pipes are closed one after the other; a relay that finds its pipe closed
\* fails too late to matter, and none is left when the wrapper ends.
Closing ==
    /\ closed \in {{}, {"stdin"}, {"stdin", "stdout"},
                    {"stdin", "stdout", "stderr"}}
    /\ pc \notin {"close", "rejoin", "restore", "done"} => closed = {}
    /\ pc = "close" => "stderr" \notin closed
    /\ pc = "rejoin" => Streams \subseteq closed
    /\ pc = "restore" => \A s \in Streams : Finished(s)
    /\ (\E s \in Streams : relay[s] = "failed") =>
          Hindered \/ pc \in {"close", "rejoin", "restore", "done"}

\* A failed relay is in the queue until the main thread has taken it.
Reported ==
    /\ failures => \E s \in Streams : relay[s] = "failed"
    /\ pc \in {"spawn", "start"} \union Waiting =>
          \A s \in Streams : relay[s] = "failed" => failures

\* A relay that has reached the end has taken all that is ever written.
Ended ==
    \A s \in Streams : relay[s] \in {"end", "done"} =>
        taken[s] = Len(written[s]) /\ ~Open

\* Responses are lines of Claude's stdout, and only there.
Sorted ==
    /\ \A i \in 1 .. Len(written["stderr"]) : written["stderr"][i] \in Diagnosed
    /\ Provider = "codex" =>
          /\ \A i \in 1 .. Len(written["stdout"]) :
                written["stdout"][i] \in Diagnosed
          /\ final = [text |-> None, error |-> FALSE]
    /\ Provider # "codex" =>
          \A i \in 1 .. Len(written["stdout"]) :
             written["stdout"][i] \in Responses \union Diagnosed
    /\ \A s \in Streams :
          /\ relay[s] = "write" => taken[s] > 0 /\ Line(s) \in Diagnosed
          /\ relay[s] = "record" =>
                s = "stdout" /\ taken[s] > 0 /\ Line(s) \in Responses

\* final is the last response a relay has taken; is_error follows its text.
FinalIsLast ==
    LET w == written["stdout"]
        n == taken["stdout"]
    IN  /\ final.text = None => \A i \in 1 .. n : w[i] \notin Responses
        /\ final.text # None =>
              \E i \in 1 .. n : /\ w[i] = final.text
                                /\ \A j \in i + 1 .. n : w[j] \notin Responses
        /\ relay["stdout"] = "record" => final.text = w[n]
        /\ relay["stdout"] # "record" => final.error = (final.text = "failed")

\* No response is still to be taken.
Answered ==
    /\ child = "exited" /\ relay["stdout"] # "record"
    /\ \A i \in taken["stdout"] + 1 .. Len(written["stdout"]) :
          written["stdout"][i] \notin Responses

Answer == IF Provider = "codex" THEN file ELSE final.text

\* What the join and the look at the queue after it are good for.
AllAnswered ==
    /\ pc = "failures" => failures \/ Answered
    /\ pc \in Answering => Answered
    /\ pc = "emit" => message = Answer

BlockShown == \E i \in DOMAIN shown["stdout"] : IsAt(i, "block")

BlockIsLast == BlockShown => Answered /\ Answer = "valid" /\ ending # None

\* Without a descendant, the relays have ended before the response is read.
AllEnded ==
    ~forked =>
        /\ pc = "failures" =>
              failures \/ \A s \in Streams : relay[s] = "done"
        /\ pc \in Answering \/ ending = "code" =>
              \A s \in Streams : relay[s] = "done"

\* The lines a relay has dealt with, and those of them that are diagnosed.
Dealt(s) ==
    [i \in 1 .. (IF relay[s] \in {"write", "record"} THEN taken[s] - 1
                 ELSE taken[s]) |-> written[s][i]]

Seen(s) == Filter(Dealt(s), Diagnosed)

\* A stream is shown as the pieces of the lines dealt with; in the end, of all.
ShownSoFar ==
    /\ ending = None =>
          \A s \in Streams :
             /\ relay[s] \notin {"done", "failed"} =>
                   /\ s \in hiding <=> Tags(Seen(s)) # {}
                   /\ shown[s] = Pieces(Seen(s))
             /\ relay[s] = "done" => shown[s] = Whole(s)
    /\ ending = "code" /\ ~forked =>
          /\ shown["stderr"] = Whole("stderr")
          /\ shown["stdout"] = Whole("stdout") \o Said

WrapperInv ==
    /\ WrapperType /\ Course /\ Reasons /\ Closing /\ Reported /\ Ended
    /\ Sorted /\ FinalIsLast /\ AllAnswered /\ BlockIsLast /\ AllEnded /\ ShownSoFar

-----------------------------------------------------------------------------
(* Types *)

LEMMA Answerable ==
    ASSUME WrapperType
    PROVE  /\ Responses \subseteq {"valid", "invalid", "empty", "failed",
                                   "garbled"}
           /\ None \notin Responses
           /\ Provider \in {"codex", "claude"}
           /\ Provider = "codex" => "failed" \notin Responses
           /\ Responses \subseteq Kinds
  BY WrapperAssumption DEF WrapperType, DataTypes, Responses, Kinds

LEMMA SameProvider ==
    ASSUME [Next]_vars
    PROVE  Provider' = Provider /\ Responses' = Responses
  <1>1. Provider' = Provider
    BY DEF Next, vars, provider, MainStep, Spawn, StartThreads, Poll, Get,
           Join, Failures, ReadMessage, Emit, Terminate, ClosePipe, JoinAgain,
           Restore, PromptEnds, ProviderChanges, Signal, ReaderLeaves,
           RelayRuns, RelayReads, RelayRecords, RelayWrites, RelayReachesEnd,
           RelayEnds, RelayFindsClosed, RelayCannotWrite, Fails, ProviderWrites
  <1> QED
    BY <1>1 DEF Responses

LEMMA RelayType ==
    ASSUME WrapperType, Sorted, NEW s \in Streams,
           RelayRuns(s)
    PROVE  WrapperType'
  <1>0. Responses' = Responses
    BY SameProvider DEF Next
  <1> USE <1>0 DEF WrapperType, ThreadTypes, DataTypes, provider, RelayMoves
  <1>1. CASE RelayReads(s)
    <2>1. /\ taken'[s] = taken[s] + 1 /\ taken[s] < Len(written[s])
          /\ taken' \in [Streams -> Nat]
          /\ \A t \in Streams : taken'[t] <= Len(written[t])
      BY <1>1 DEF RelayReads
    <2>2. final' \in [text : Responses \union {None}, error : BOOLEAN]
      BY <1>1 DEF RelayReads
    <2>3. relay' \in [Streams -> {"none", "read", "write", "record", "end",
                                  "done", "failed"}]
      BY <1>1 DEF RelayReads
    <2> QED
      BY <1>1, <2>1, <2>2, <2>3 DEF RelayReads
  <1>2. CASE RelayRecords(s)
    BY <1>2 DEF RelayRecords
  <1>3. CASE RelayWrites(s)
    <2>1. \A x \in Shown : Append(shown[s], x) \in Seq(Shown)
      BY AppendProperties
    <2>2. shown' \in [Streams -> Seq(Shown)]
      BY <1>3, <2>1 DEF RelayWrites, Shown
    <2> QED
      BY <1>3, <2>2 DEF RelayWrites
  <1>4. CASE RelayReachesEnd(s)
    BY <1>4 DEF RelayReachesEnd
  <1>5. CASE RelayEnds(s)
    <2>1. Append(shown[s], "rest") \in Seq(Shown)
      BY AppendProperties DEF Shown
    <2>2. shown' \in [Streams -> Seq(Shown)]
      BY <1>5, <2>1 DEF RelayEnds
    <2> QED
      BY <1>5, <2>2 DEF RelayEnds
  <1>6. CASE RelayFindsClosed(s) \/ RelayCannotWrite(s)
    BY <1>6 DEF RelayFindsClosed, RelayCannotWrite, Fails
  <1> QED
    BY <1>1, <1>2, <1>3, <1>4, <1>5, <1>6 DEF RelayRuns

LEMMA WritesType ==
    ASSUME WrapperType, NEW s \in Streams, ProviderWrites(s)
    PROVE  WrapperType'
  <1>0. Responses' = Responses
    BY SameProvider DEF Next
  <1>1. PICK l \in Lines : written' = [written EXCEPT ![s] = Append(@, l)]
    BY DEF ProviderWrites
  <1>2. l \in Kinds
    BY Answerable DEF Lines, Kinds, Diagnosed
  <1>3. /\ Append(written[s], l) \in Seq(Kinds)
        /\ Len(Append(written[s], l)) = Len(written[s]) + 1
        /\ Len(written[s]) \in Nat
    BY <1>2, AppendProperties DEF WrapperType, DataTypes
  <1>4. /\ written' \in [Streams -> Seq(Kinds)]
        /\ \A t \in Streams : taken[t] <= Len(written'[t])
    <2>1. /\ written'[s] = Append(written[s], l)
          /\ \A t \in Streams : t # s => written'[t] = written[t]
      BY <1>1 DEF WrapperType, DataTypes
    <2>2. written' \in [Streams -> Seq(Kinds)]
      BY <1>1, <1>3 DEF WrapperType, DataTypes
    <2>3. taken[s] <= Len(written'[s])
      BY <2>1, <1>3 DEF WrapperType, ThreadTypes, DataTypes
    <2> QED
      BY <2>1, <2>2, <2>3 DEF WrapperType, DataTypes
  <1> QED
    BY <1>0, <1>4 DEF WrapperType, ThreadTypes, DataTypes, ProviderWrites,
                      relays

LEMMA MainType ==
    ASSUME WrapperType, Course, MainStep
    PROVE  WrapperType'
  <1>0. Responses' = Responses
    BY SameProvider DEF Next
  <1> USE <1>0 DEF WrapperType, ThreadTypes, DataTypes, provider, relays, Others
  <1>1. CASE Spawn \/ Poll \/ Get \/ Join \/ Failures
    BY <1>1 DEF Spawn, Poll, Get, Join, Failures
  <1>2. CASE StartThreads
    BY <1>2 DEF StartThreads
  <1>3. CASE Emit
    <2>1. Emission(message, final.error) \in Seq(Shown)
      <3>1. << >> \in Seq(Shown) /\ \A x \in Shown : <<x>> \in Seq(Shown)
        OBVIOUS
      <3> QED
        BY <3>1 DEF Emission, Shown
    <2>2. shown["stdout"] \o Emission(message, final.error) \in Seq(Shown)
      BY <2>1, ConcatProperties DEF Streams
    <2>3. shown' \in [Streams -> Seq(Shown)]
      <3>1. shown' = shown \/
            shown' = [shown EXCEPT !["stdout"] =
                                @ \o Emission(message, final.error)]
        BY <1>3 DEF Emit
      <3> QED
        BY <2>2, <3>1
    <2> QED
      BY <1>3, <2>3 DEF Emit
  <1>4. CASE ReadMessage \/ Terminate \/ JoinAgain \/ Restore
    BY <1>4 DEF ReadMessage, Terminate, JoinAgain, Restore
  <1>5. CASE ClosePipe
    BY <1>5 DEF ClosePipe
  <1> QED
    BY <1>1, <1>2, <1>3, <1>4, <1>5 DEF MainStep

LEMMA TypeStep ==
    ASSUME WrapperType, Course, Sorted, [Next]_vars
    PROVE  WrapperType'
  <1>1. CASE Outside \/ UNCHANGED vars
    <2>1. Responses' = Responses
      BY SameProvider
    <2> QED
      BY <1>1, <2>1 DEF Outside, PromptEnds, ProviderChanges, Signal,
                        ReaderLeaves, vars, WrapperType, ThreadTypes,
                        DataTypes, provider, relays
  <1> QED
    BY <1>1, RelayType, WritesType, MainType DEF Next, Outside

-----------------------------------------------------------------------------
(* The main thread and the relays *)

LEMMA CourseStep ==
    ASSUME WrapperType, Course, [Next]_vars
    PROVE  Course'
  <1> USE DEF WrapperType, ThreadTypes, Course, Waiting, Answering, Streams
  <1>1. CASE MainStep
    <2> USE WrapperAssumption DEF provider, relays, Others, Goto, Raise
    <2>1. CASE Spawn \/ Poll \/ Join
      BY <2>1 DEF Spawn, Poll, Join
    <2>6. CASE Get \/ Failures
      BY <2>6 DEF Get, Failures
    <2>2. CASE StartThreads
      BY <2>2 DEF StartThreads
    <2>3. CASE ReadMessage
      BY <2>3 DEF ReadMessage
    <2>7. CASE Emit
      BY <2>7 DEF Emit
    <2>4. CASE Terminate \/ JoinAgain \/ Restore
      BY <2>4 DEF Terminate, JoinAgain, Restore
    <2>5. CASE ClosePipe
      BY <2>5 DEF ClosePipe
    <2> QED
      BY <1>1, <2>1, <2>2, <2>3, <2>4, <2>5, <2>6, <2>7 DEF MainStep
  <1>2. ASSUME NEW s \in Streams, RelayRuns(s)
        PROVE  Course'
    BY <1>2 DEF RelayRuns, RelayReads, RelayRecords, RelayWrites,
                RelayReachesEnd, RelayEnds, RelayFindsClosed, RelayCannotWrite,
                Fails, RelayMoves, provider
  <1>3. ASSUME NEW s \in Streams, ProviderWrites(s)
        PROVE  Course'
    BY <1>3 DEF ProviderWrites, relays
  <1>4. CASE Outside \/ UNCHANGED vars
    BY <1>4 DEF Outside, PromptEnds, ProviderChanges, Signal, ReaderLeaves,
                vars, provider, relays
  <1> QED
    BY <1>1, <1>2, <1>3, <1>4 DEF Next, Outside

LEMMA ReportedStep ==
    ASSUME WrapperType, Course, Reported, [Next]_vars
    PROVE  Reported'
  <1> USE DEF WrapperType, ThreadTypes, Course, Reported, Waiting, Answering
  <1>1. CASE MainStep
    <2> USE DEF provider, relays, Others, Goto, Raise
    <2>1. CASE Spawn \/ Poll \/ Join
      BY <2>1 DEF Spawn, Poll, Join
    <2>6. CASE Get \/ Failures
      BY <2>6 DEF Get, Failures
    <2>2. CASE StartThreads
      BY <2>2 DEF StartThreads
    <2>3. CASE ReadMessage
      BY <2>3 DEF ReadMessage
    <2>7. CASE Emit
      BY <2>7 DEF Emit
    <2>4. CASE Terminate \/ JoinAgain \/ Restore
      BY <2>4 DEF Terminate, JoinAgain, Restore
    <2>5. CASE ClosePipe
      BY <2>5 DEF ClosePipe
    <2> QED
      BY <1>1, <2>1, <2>2, <2>3, <2>4, <2>5, <2>6, <2>7 DEF MainStep
  <1>2. ASSUME NEW s \in Streams, RelayRuns(s)
        PROVE  Reported'
    BY <1>2 DEF RelayRuns, RelayReads, RelayRecords, RelayWrites,
                RelayReachesEnd, RelayEnds, RelayFindsClosed, RelayCannotWrite,
                Fails, RelayMoves, provider
  <1>3. ASSUME NEW s \in Streams, ProviderWrites(s)
        PROVE  Reported'
    BY <1>3 DEF ProviderWrites, relays
  <1>4. CASE Outside \/ UNCHANGED vars
    BY <1>4 DEF Outside, PromptEnds, ProviderChanges, Signal, ReaderLeaves,
                vars, provider, relays
  <1> QED
    BY <1>1, <1>2, <1>3, <1>4 DEF Next, Outside

\* The main thread cannot write a response for the same reasons.
LEMMA EmitRaises ==
    ASSUME WrapperType, AllAnswered, Emit
    PROVE  ending' = "code" \/ (ending' = "error" /\ Hindered)
  <1>1. message = "garbled" => "garbled" \in Answers[Provider]
    BY WrapperAssumption
    DEF AllAnswered, Emit, Answer, WrapperType, DataTypes, Responses
  <1> QED
    BY <1>1 DEF Emit, Raise, Hindered, WrapperType, DataTypes

LEMMA Hinders ==
    ASSUME [Next]_vars, Hindered
    PROVE  Hindered'
  <1>1. unread => unread'
    BY DEF Next, vars, MainStep, Spawn, StartThreads, Poll, Get, Join, Failures,
           ReadMessage, Emit, Terminate, ClosePipe, JoinAgain, Restore, Others,
           PromptEnds, ProviderChanges, Signal, ReaderLeaves, RelayRuns,
           RelayReads, RelayRecords, RelayWrites, RelayReachesEnd, RelayEnds,
           RelayFindsClosed, RelayCannotWrite, Fails, ProviderWrites
  <1> QED
    BY <1>1 DEF Hindered

LEMMA ReasonsStep ==
    ASSUME WrapperType, Course, Reported, Closing, AllAnswered, Reasons,
           [Next]_vars
    PROVE  Reasons'
  <1>0. Hindered => Hindered'
    BY Hinders
  <1> USE WrapperAssumption
          DEF WrapperType, ThreadTypes, Course, Reasons, Waiting, Answering
  <1>1. CASE MainStep
    <2> USE DEF provider, relays, Others, Goto, Raise
    <2>1. CASE Spawn \/ Poll \/ Join
      BY <1>0, <2>1 DEF Spawn, Poll, Join, Streams
    <2>2. CASE Get \/ Failures
      <3>1. failures => Hindered
        BY <2>2 DEF Get, Failures, Reported, Closing
      <3> QED
        BY <1>0, <2>2, <3>1 DEF Get, Failures
    <2>3. CASE StartThreads
      BY <1>0, <2>3 DEF StartThreads, Streams
    <2>4. CASE ReadMessage
      <3>1. message' = "garbled" => Hindered
        BY <2>4 DEF ReadMessage, DataTypes, Responses, Hindered
      <3> QED
        BY <1>0, <2>4, <3>1 DEF ReadMessage
    <2>5. CASE Emit
      BY <1>0, <2>5, EmitRaises DEF Emit
    <2>6. CASE Terminate \/ JoinAgain
      BY <1>0, <2>6 DEF Terminate, JoinAgain
    <2>7. CASE Restore
      <3>1. \A s \in Streams : relay[s] \notin {"write", "end"}
        BY <2>7 DEF Restore, Closing, Finished
      <3>2. unread => Hindered
        BY DEF Hindered
      <3> QED
        BY <1>0, <2>7, <3>1, <3>2 DEF Restore
    <2>8. CASE ClosePipe
      BY <1>0, <2>8 DEF ClosePipe
    <2> QED
      BY <1>1, <2>1, <2>2, <2>3, <2>4, <2>5, <2>6, <2>7, <2>8 DEF MainStep
  <1>2. ASSUME NEW s \in Streams, RelayRuns(s)
        PROVE  Reasons'
    BY <1>0, <1>2
       DEF RelayRuns, RelayReads, RelayRecords, RelayWrites, RelayReachesEnd,
           RelayEnds, RelayFindsClosed, RelayCannotWrite, Fails, RelayMoves,
           provider
  <1>3. ASSUME NEW s \in Streams, ProviderWrites(s)
        PROVE  Reasons'
    BY <1>0, <1>3 DEF ProviderWrites, relays
  <1>4. CASE Outside \/ UNCHANGED vars
    BY <1>0, <1>4 DEF Outside, PromptEnds, ProviderChanges, Signal,
                      ReaderLeaves, vars, provider, relays
  <1> QED
    BY <1>1, <1>2, <1>3, <1>4 DEF Next, Outside

LEMMA ClosingStep ==
    ASSUME WrapperType, Course, Closing, [Next]_vars
    PROVE  Closing'
  <1>0. Hindered => Hindered'
    BY Hinders
  <1> USE DEF WrapperType, ThreadTypes, Closing, Finished, Streams
  <1>1. CASE MainStep
    <2> USE DEF provider, relays, Others, Goto, Raise
    <2>1. CASE Spawn \/ StartThreads \/ Poll \/ Get \/ Join \/ Failures
      BY <1>0, <2>1 DEF Spawn, StartThreads, Poll, Get, Join, Failures, Course
    <2>2. CASE ReadMessage \/ Emit \/ Terminate \/ Restore
      BY <1>0, <2>2 DEF ReadMessage, Emit, Terminate, Restore
    <2>3. CASE ClosePipe
      <3> DEFINE order == <<"stdin", "stdout", "stderr">>
                 i == CHOOSE n \in 1 .. 3 :
                         /\ order[n] \notin closed
                         /\ \A k \in 1 .. n - 1 : order[k] \in closed
      <3>1. /\ pc = "close" /\ closed' = closed \union {order[i]}
            /\ pc' = IF i = 3 THEN "rejoin" ELSE "close"
            /\ UNCHANGED <<relay, unread>>
        BY <2>3 DEF ClosePipe
      <3>2. 1 .. 3 = {1, 2, 3} /\ 1 .. 0 = {} /\ 1 .. 1 = {1} /\ 1 .. 2 = {1, 2}
        OBVIOUS
      <3>3. \/ closed = {} /\ i = 1
            \/ closed = {"stdin"} /\ i = 2
            \/ closed = {"stdin", "stdout"} /\ i = 3
        <4>1. CASE closed = {}
          BY <3>2, <4>1
        <4>2. CASE closed = {"stdin"}
          BY <3>2, <4>2
        <4>3. CASE closed = {"stdin", "stdout"}
          BY <3>2, <4>3
        <4> QED
          BY <3>1, <4>1, <4>2, <4>3
      <3> HIDE DEF i
      <3> QED
        BY <1>0, <3>1, <3>3
    <2>4. CASE JoinAgain
      BY <1>0, <2>4 DEF JoinAgain, Joined, MayOutlastJoin
    <2> QED
      BY <1>1, <2>1, <2>2, <2>3, <2>4 DEF MainStep
  <1>2. ASSUME NEW s \in Streams, RelayRuns(s)
        PROVE  Closing'
    <2>1. CASE RelayFindsClosed(s) \/ RelayCannotWrite(s)
      <3>1. RelayCannotWrite(s) => Hindered
        BY DEF RelayCannotWrite, Hindered, DataTypes, Responses
      <3>2. UNCHANGED <<pc, closed>> /\ pc # "restore"
        BY <2>1 DEF RelayFindsClosed, RelayCannotWrite, Fails
      <3> QED
        BY <1>0, <2>1, <3>1, <3>2 DEF RelayFindsClosed
    <2>2. CASE ~RelayFindsClosed(s) /\ ~RelayCannotWrite(s)
      BY <1>0, <1>2, <2>2
         DEF RelayRuns, RelayReads, RelayRecords, RelayWrites, RelayReachesEnd,
             RelayEnds, RelayMoves
    <2> QED
      BY <2>1, <2>2
  <1>3. ASSUME NEW s \in Streams, ProviderWrites(s)
        PROVE  Closing'
    BY <1>0, <1>3 DEF ProviderWrites, relays
  <1>4. CASE Outside \/ UNCHANGED vars
    BY <1>0, <1>4 DEF Outside, PromptEnds, ProviderChanges, Signal,
                      ReaderLeaves, vars, relays
  <1> QED
    BY <1>1, <1>2, <1>3, <1>4 DEF Next, Outside

LEMMA EndedStep ==
    ASSUME WrapperType, Course, Ended, [Next]_vars
    PROVE  Ended'
  <1> USE DEF WrapperType, ThreadTypes, Ended, Open
  <1>1. CASE Spawn \/ StartThreads \/ Terminate
    BY <1>1 DEF Spawn, StartThreads, Terminate, Course, provider, relays,
                Others
  <1>2. CASE MainStep /\ ~Spawn /\ ~StartThreads /\ ~Terminate
    <2>1. UNCHANGED <<relay, taken, written, child, holder>>
      BY <1>2 DEF MainStep, Poll, Get, Join, Failures, ReadMessage, Emit,
                  ClosePipe, JoinAgain, Restore, provider, relays, Others
    <2> QED
      BY <2>1
  <1>3. ASSUME NEW s \in Streams, RelayReachesEnd(s)
        PROVE  Ended'
    BY <1>3 DEF RelayReachesEnd, RelayMoves, provider
  <1>4. ASSUME NEW s \in Streams, RelayRuns(s),
               ~RelayReachesEnd(s)
        PROVE  Ended'
    BY <1>4 DEF RelayRuns, RelayReads, RelayRecords, RelayWrites, RelayEnds,
                RelayFindsClosed, RelayCannotWrite, Fails, RelayMoves, provider
  <1>5. ASSUME NEW s \in Streams, ProviderWrites(s)
        PROVE  Ended'
    BY <1>5 DEF ProviderWrites, relays
  <1>6. CASE Outside \/ UNCHANGED vars
    BY <1>6 DEF Outside, PromptEnds, ProviderChanges, Signal, ReaderLeaves,
                vars, provider, relays
  <1> QED
    BY <1>1, <1>2, <1>3, <1>4, <1>5, <1>6 DEF Next, Outside, MainStep

LEMMA AllEndedStep ==
    ASSUME WrapperType, Course, Reasons, Reported, AllEnded, [Next]_vars
    PROVE  AllEnded'
  <1> USE WrapperAssumption
          DEF WrapperType, ThreadTypes, Course, AllEnded, Waiting, Answering
  <1>1. CASE MainStep
    <2> USE DEF provider, relays, Others, Goto, Raise
    <2>1. CASE Spawn \/ Poll \/ Get
      BY <2>1 DEF Spawn, Poll, Get
    <2>2. CASE StartThreads
      BY <2>2 DEF StartThreads
    <2>3. CASE Join
      <3> USE <2>3 DEF Join
      <3>1. UNCHANGED <<relay, forked, holder, failures, ending>>
        OBVIOUS
      <3>2. ~forked => \A s \in Streams : relay[s] \in {"done", "failed"}
        BY DEF Joined, Finished, MayOutlastJoin
      <3> QED
        BY <3>1, <3>2 DEF Reported
    <2>4. CASE Failures
      BY <2>4 DEF Failures
    <2>5. CASE ReadMessage
      BY <2>5 DEF ReadMessage
    <2>6. CASE Emit
      BY <2>6 DEF Emit
    <2>7. CASE Terminate \/ JoinAgain \/ Restore
      BY <2>7 DEF Terminate, JoinAgain, Restore
    <2>8. CASE ClosePipe
      BY <2>8 DEF ClosePipe
    <2> QED
      BY <1>1, <2>1, <2>2, <2>3, <2>4, <2>5, <2>6, <2>7, <2>8 DEF MainStep
  <1>2. ASSUME NEW s \in Streams, RelayRuns(s)
        PROVE  AllEnded'
    BY <1>2 DEF RelayRuns, RelayReads, RelayRecords, RelayWrites,
                RelayReachesEnd, RelayEnds, RelayFindsClosed, RelayCannotWrite,
                Fails, RelayMoves, provider
  <1>3. ASSUME NEW s \in Streams, ProviderWrites(s)
        PROVE  AllEnded'
    BY <1>3 DEF ProviderWrites, relays
  <1>4. CASE Outside \/ UNCHANGED vars
    BY <1>4 DEF Outside, PromptEnds, ProviderChanges, Signal, ReaderLeaves,
                vars, provider, relays
  <1> QED
    BY <1>1, <1>2, <1>3, <1>4 DEF Next, Outside

-----------------------------------------------------------------------------
(* The provider's last response *)

LEMMA SortedStep ==
    ASSUME WrapperType, Sorted, [Next]_vars
    PROVE  Sorted'
  <1>0. Provider' = Provider /\ Responses' = Responses
    BY SameProvider
  <1> USE <1>0 DEF Sorted, WrapperType, ThreadTypes, Line
  <1>1. CASE StartThreads
    BY <1>1 DEF StartThreads, provider
  <1>2. CASE MainStep /\ ~StartThreads
    <2>1. UNCHANGED <<relay, taken, written, final>>
      BY <1>2 DEF MainStep, Spawn, Poll, Get, Join, Failures, ReadMessage,
                  Emit, Terminate, ClosePipe, JoinAgain, Restore, provider,
                  relays, Others
    <2> QED
      BY <2>1
  <1>3. ASSUME NEW s \in Streams, RelayReads(s)
        PROVE  Sorted'
    <2> DEFINE l == written[s][taken[s] + 1]
    <2>1. /\ taken[s] + 1 \in 1 .. Len(written[s]) /\ taken[s] \in Nat
          /\ taken'[s] = taken[s] + 1
          /\ \A t \in Streams : t # s => taken'[t] = taken[t]
          /\ written' = written
      BY <1>3 DEF RelayReads, provider, DataTypes
    <2>2. l \in Responses \union Diagnosed
      BY <2>1, <1>3 DEF Streams
    <2>3. l \in Responses => s = "stdout" /\ Provider # "codex"
      BY <2>1, Answerable DEF Streams, Diagnosed
    <2>4. CASE l \in Responses
      BY <1>3, <2>1, <2>3, <2>4 DEF RelayReads, RelayMoves
    <2>5. CASE l \notin Responses
      BY <1>3, <2>1, <2>2, <2>5 DEF RelayReads, RelayMoves
    <2> QED
      BY <2>4, <2>5
  <1>4. ASSUME NEW s \in Streams, RelayRuns(s),
               ~RelayReads(s), ~RelayRecords(s)
        PROVE  Sorted'
    BY <1>4 DEF RelayRuns, RelayWrites, RelayReachesEnd, RelayEnds,
                RelayFindsClosed, RelayCannotWrite, Fails, RelayMoves, provider
  <1>7. ASSUME NEW s \in Streams, RelayRecords(s)
        PROVE  Sorted'
    <2>1. /\ s = "stdout" /\ taken[s] \in 1 .. Len(written[s])
          /\ written[s][taken[s]] \in Responses
      BY <1>7 DEF RelayRecords, DataTypes
    <2>2. Provider # "codex"
      BY <2>1, Answerable DEF Diagnosed
    <2> QED
      BY <1>7, <2>2 DEF RelayRecords, RelayMoves, provider
  <1>5. ASSUME NEW s \in Streams, ProviderWrites(s)
        PROVE  Sorted'
    <2>1. PICK l \in Lines :
             /\ l \in Responses => s = "stdout"
             /\ written' = [written EXCEPT ![s] = Append(@, l)]
      BY <1>5 DEF ProviderWrites
    <2>2. /\ l \in Responses \union Diagnosed
          /\ Provider = "codex" => l \in Diagnosed
      BY <2>1, Answerable DEF Lines, Diagnosed
    <2>3. /\ \A t \in Streams : t # s => written'[t] = written[t]
          /\ written'[s] = Append(written[s], l)
          /\ \A t \in Streams : Len(written[t]) \in Nat /\ taken[t] <= Len(written[t])
      BY <2>1 DEF DataTypes
    <2>4. /\ Len(written'[s]) = Len(written[s]) + 1
          /\ written'[s][Len(written[s]) + 1] = l
          /\ \A i \in 1 .. Len(written[s]) : written'[s][i] = written[s][i]
      BY <2>1, <2>3, AppendProperties DEF DataTypes
    <2>5. UNCHANGED <<taken, relay, final>>
      BY <1>5 DEF ProviderWrites, relays
    <2> QED
      BY <2>1, <2>2, <2>3, <2>4, <2>5 DEF Streams
  <1>6. CASE Outside \/ UNCHANGED vars
    BY <1>6 DEF Outside, PromptEnds, ProviderChanges, Signal, ReaderLeaves,
                vars, provider, relays
  <1> QED
    BY <1>1, <1>2, <1>3, <1>4, <1>5, <1>6, <1>7 DEF Next, Outside

LEMMA FinalIsLastStep ==
    ASSUME WrapperType, Course, Sorted, FinalIsLast, [Next]_vars
    PROVE  FinalIsLast'
  <1>0. Provider' = Provider /\ Responses' = Responses
    BY SameProvider
  <1> DEFINE w == written["stdout"]
             n == taken["stdout"]
  <1>1. n \in Nat /\ Len(w) \in Nat /\ n <= Len(w)
    BY DEF WrapperType, ThreadTypes, DataTypes, Streams
  <1>2. CASE /\ UNCHANGED <<taken, written, final>>
             /\ relay["stdout"] = "record" <=> relay'["stdout"] = "record"
    BY <1>0, <1>2 DEF FinalIsLast
  <1>3. CASE StartThreads
    BY <1>0, <1>3 DEF FinalIsLast, StartThreads, Course, Streams, provider
  <1>4. ASSUME MainStep, ~StartThreads
        PROVE  UNCHANGED <<relay, taken, written, final>>
    BY <1>4 DEF MainStep, Spawn, Poll, Get, Join, Failures, ReadMessage, Emit,
                Terminate, ClosePipe, JoinAgain, Restore, provider, relays,
                Others
  <1>5. CASE RelayReads("stdout")
    <2>1. /\ n + 1 \in 1 .. Len(w) /\ taken'["stdout"] = n + 1
          /\ written' = written /\ relay["stdout"] = "read"
      BY <1>1, <1>5 DEF RelayReads, provider, WrapperType, ThreadTypes, Streams
    <2>2. CASE w[n + 1] \in Responses
      <3>1. /\ relay'["stdout"] = "record" /\ final'.text = w[n + 1]
            /\ None \notin Responses
        BY <1>5, <2>2, Answerable DEF RelayReads, RelayMoves, WrapperType,
           ThreadTypes, DataTypes, Streams
      <3> QED
        BY <1>0, <1>1, <2>1, <2>2, <3>1 DEF FinalIsLast
    <2>3. CASE w[n + 1] \notin Responses
      <3>1. relay'["stdout"] = "write" /\ final' = final
        BY <1>5, <2>3 DEF RelayReads, RelayMoves, WrapperType, ThreadTypes,
                          Streams
      <3> QED
        BY <1>0, <1>1, <2>1, <2>3, <3>1 DEF FinalIsLast
    <2> QED
      BY <2>2, <2>3
  <1>6. CASE RelayRecords("stdout")
    <2>1. /\ final'.text = final.text
          /\ final'.error = (w[n] = "failed")
          /\ relay["stdout"] = "record" /\ relay'["stdout"] = "read"
          /\ UNCHANGED <<taken, written>>
      BY <1>6 DEF RelayRecords, RelayMoves, Line, provider, WrapperType,
                  ThreadTypes, DataTypes, Streams
    <2> QED
      BY <1>0, <2>1 DEF FinalIsLast
  <1>7. ASSUME NEW s \in Streams, RelayRuns(s),
               ~RelayReads("stdout"), ~RelayRecords("stdout")
        PROVE  /\ UNCHANGED <<taken["stdout"], written, final>>
               /\ relay["stdout"] = "record" <=> relay'["stdout"] = "record"
    <2>1. CASE RelayReads(s)
      <3> s # "stdout"
        BY <1>7, <2>1, Zenon
      <3>1. s = "stderr" /\ taken[s] + 1 \in 1 .. Len(written[s])
        BY <2>1 DEF Streams, RelayReads, WrapperType, ThreadTypes,
                          DataTypes
      <3>2. written[s][taken[s] + 1] \notin Responses
        BY <3>1, Answerable DEF Sorted, Diagnosed
      <3> QED
        BY <2>1, <3>1, <3>2 DEF RelayReads, RelayMoves, provider, WrapperType,
                                ThreadTypes, Streams
    <2>2. CASE RelayRecords(s)
      BY <1>7, <2>2 DEF RelayRecords, Sorted
    <2>3. CASE ~RelayReads(s) /\ ~RelayRecords(s)
      BY <1>7, <2>3 DEF RelayRuns, RelayWrites, RelayReachesEnd, RelayEnds,
                        RelayFindsClosed, RelayCannotWrite, Fails, RelayMoves,
                        provider, WrapperType, ThreadTypes, Streams
    <2> QED
      BY <2>1, <2>2, <2>3
  <1>8. CASE /\ UNCHANGED <<taken["stdout"], written, final>>
             /\ relay["stdout"] = "record" <=> relay'["stdout"] = "record"
    BY <1>0, <1>8 DEF FinalIsLast
  <1>9. ASSUME NEW s \in Streams, ProviderWrites(s)
        PROVE  FinalIsLast'
    <2>1. UNCHANGED <<taken, final, relay>>
      BY <1>9 DEF ProviderWrites, relays
    <2>2. \A i \in 1 .. Len(w) : written'["stdout"][i] = w[i]
      <3>1. PICK l : written' = [written EXCEPT ![s] = Append(@, l)]
        BY <1>9 DEF ProviderWrites
      <3> QED
        BY <3>1, AppendProperties DEF WrapperType, DataTypes, Streams
    <2>3. relay["stdout"] = "record" => n > 0
      BY DEF Sorted, Streams
    <2> QED
      BY <1>0, <1>1, <2>1, <2>2, <2>3 DEF FinalIsLast
  <1>10. CASE Outside \/ UNCHANGED vars
    BY <1>2, <1>10 DEF Outside, PromptEnds, ProviderChanges, Signal,
                       ReaderLeaves, vars, provider, relays
  <1> QED
    BY <1>2, <1>3, <1>4, <1>5, <1>6, <1>7, <1>8, <1>9, <1>10 DEF Next, Outside

LEMMA AnsweredStays ==
    ASSUME WrapperType, Course, Sorted, Answered, pc \notin {"spawn", "start"},
           [Next]_vars
    PROVE  Answered' /\ Answer' = Answer /\ final' = final
  <1>0. Provider' = Provider /\ Responses' = Responses
    BY SameProvider
  <1>1. CASE MainStep
    <2>1. /\ UNCHANGED <<relay, taken, written, final, file>>
          /\ child' = "exited"
      <3>1. CASE Spawn \/ StartThreads
        BY <3>1 DEF Spawn, StartThreads
      <3>2. CASE Poll \/ Get \/ Join \/ Failures
        BY <3>2 DEF Poll, Get, Join, Failures, provider, relays, Others,
                    Answered
      <3>3. CASE ReadMessage \/ Terminate \/ ClosePipe \/ JoinAgain \/ Restore
        BY <3>3 DEF ReadMessage, Terminate, ClosePipe, JoinAgain, Restore,
                    provider, relays, Others, Answered
      <3>4. CASE Emit
        BY <3>4 DEF Emit, provider, relays, Answered
      <3> QED
        BY <1>1, <3>1, <3>2, <3>3, <3>4 DEF MainStep
    <2> QED
      BY <1>0, <2>1 DEF Answered, Answer
  <1>2. ASSUME NEW s \in Streams, RelayRuns(s)
        PROVE  Answered' /\ Answer' = Answer /\ final' = final
    <2>1. CASE RelayReads(s)
      <3>1. /\ taken[s] \in Nat /\ Len(written[s]) \in Nat
            /\ taken[s] + 1 \in taken[s] + 1 .. Len(written[s])
            /\ taken[s] + 1 \in 1 .. Len(written[s])
        BY <2>1 DEF RelayReads, WrapperType, ThreadTypes, DataTypes
      <3>2. written[s][taken[s] + 1] \notin Responses
        BY <3>1, Answerable DEF Answered, Sorted, Diagnosed, Streams
      <3>3. /\ UNCHANGED <<child, written, final, file>>
            /\ relay' = [relay EXCEPT ![s] = "write"]
            /\ taken' = [taken EXCEPT ![s] = @ + 1]
        BY <2>1, <3>2 DEF RelayReads, RelayMoves, provider
      <3> QED
        BY <1>0, <3>1, <3>3
           DEF Answered, Answer, WrapperType, ThreadTypes, Streams
    <2>2. CASE RelayRecords(s)
      BY <2>2 DEF RelayRecords, Answered, Sorted
    <2>3. CASE ~RelayReads(s) /\ ~RelayRecords(s)
      BY <1>0, <1>2, <2>3
         DEF RelayRuns, RelayWrites, RelayReachesEnd, RelayEnds,
             RelayFindsClosed, RelayCannotWrite, Fails, RelayMoves, provider,
             Answered, Answer, WrapperType, ThreadTypes, Streams
    <2> QED
      BY <2>1, <2>2, <2>3
  <1>3. ASSUME NEW s \in Streams, ProviderWrites(s)
        PROVE  Answered' /\ Answer' = Answer /\ final' = final
    <2>1. PICK l \in Lines :
             /\ child = "running" \/ (holder /\ l = "text")
             /\ written' = [written EXCEPT ![s] = Append(@, l)]
      BY <1>3 DEF ProviderWrites
    <2>2. l \notin Responses
      BY <2>1, Answerable DEF Answered
    <2>3. /\ written[s] \in Seq(Kinds) /\ l \in Kinds
          /\ written'[s] = Append(written[s], l)
          /\ \A t \in Streams : t # s => written'[t] = written[t]
      BY <2>1, Answerable DEF Lines, Kinds, Diagnosed, WrapperType, DataTypes
    <2>4. /\ Len(written'[s]) = Len(written[s]) + 1
          /\ written'[s][Len(written[s]) + 1] = l
          /\ \A i \in 1 .. Len(written[s]) : written'[s][i] = written[s][i]
          /\ Len(written[s]) \in Nat /\ taken[s] \in Nat
      BY <2>3, AppendProperties DEF WrapperType, ThreadTypes
    <2>5. UNCHANGED <<child, taken, relay, final, file>>
      BY <1>3 DEF ProviderWrites, relays
    <2>6. \A i \in taken["stdout"] + 1 .. Len(written'["stdout"]) :
             written'["stdout"][i] \notin Responses
      <3>1. CASE s = "stdout"
        BY <2>2, <2>4, <3>1 DEF Answered
      <3>2. CASE s # "stdout"
        BY <2>3, <3>2 DEF Answered, Streams
      <3> QED
        BY <3>1, <3>2
    <2> QED
      BY <1>0, <2>5, <2>6 DEF Answered, Answer
  <1>4. CASE Outside \/ UNCHANGED vars
    <2>1. UNCHANGED <<child, relay, taken, written, final, file>>
      BY <1>4 DEF Outside, PromptEnds, ProviderChanges, Signal, ReaderLeaves,
                  vars, provider, relays, Answered
    <2> QED
      BY <1>0, <2>1 DEF Answered, Answer
  <1> QED
    BY <1>1, <1>2, <1>3, <1>4 DEF Next, Outside

LEMMA AllAnsweredStep ==
    ASSUME WrapperType, Course, Reasons, Reported, Ended, Sorted, AllAnswered,
           [Next]_vars
    PROVE  AllAnswered'
  <1> USE DEF Answering
  <1>1. ASSUME Answered, pc \in {"failures"} \union Answering
        PROVE  Answered' /\ Answer' = Answer
    BY <1>1, AnsweredStays
  <1>2. CASE MainStep
    <2> USE DEF AllAnswered, Goto, Raise, Others, provider, relays
    <2>1. CASE Spawn \/ StartThreads \/ Poll \/ Get
      BY <2>1 DEF Spawn, StartThreads, Poll, Get
    <2>2. CASE Join
      <3> USE <2>2 DEF Join
      <3>1. /\ UNCHANGED <<relay, taken, written, child, failures, Provider>>
            /\ pc' = "failures" /\ child = "exited" /\ Responses' = Responses
        BY DEF Course, Responses
      <3>2. /\ Finished("stdout") \/ MayOutlastJoin("stdout")
            /\ taken["stdout"] \in Nat /\ Len(written["stdout"]) \in Nat
        BY DEF Joined, Streams, WrapperType, ThreadTypes, DataTypes
      <3>3. CASE relay["stdout"] = "failed"
        BY <3>1, <3>3 DEF Reported, Streams, Waiting, Course
      <3>4. CASE relay["stdout"] \in {"done", "read"}
        <4>1. taken["stdout"] = Len(written["stdout"])
          BY <3>2, <3>4 DEF Finished, MayOutlastJoin, Ended, Streams
        <4> QED
          BY <3>1, <3>2, <3>4, <4>1 DEF Answered
      <3>5. relay["stdout"] \in {"failed", "done", "read"}
        BY <3>2 DEF Course, Waiting, Finished, MayOutlastJoin, Streams
      <3> QED
        BY <3>3, <3>4, <3>5
    <2>3. CASE Failures
      BY <1>1, <2>3 DEF Failures
    <2>4. CASE ReadMessage
      <3>1. Answered' /\ Answer' = Answer
        BY <1>1, <2>4 DEF ReadMessage
      <3>2. /\ message' = Answer
            /\ pc' \notin {"failures", "message"}
        BY <2>4 DEF ReadMessage, Answer
      <3> QED
        BY <3>1, <3>2
    <2>5. CASE Emit
      BY <2>5 DEF Emit
    <2>6. CASE Terminate \/ ClosePipe \/ JoinAgain \/ Restore
      BY <2>6 DEF Terminate, ClosePipe, JoinAgain, Restore
    <2> QED
      BY <1>2, <2>1, <2>2, <2>3, <2>4, <2>5, <2>6 DEF MainStep
  <1>3. ASSUME pc' = pc, message' = message, failures => failures'
        PROVE  AllAnswered'
    BY <1>1, <1>3 DEF AllAnswered
  <1>4. ASSUME NEW s \in Streams, RelayRuns(s)
        PROVE  pc' = pc /\ message' = message /\ (failures => failures')
    BY <1>4 DEF RelayRuns, RelayReads, RelayRecords, RelayWrites,
                RelayReachesEnd, RelayEnds, RelayFindsClosed, RelayCannotWrite,
                Fails
  <1>5. ASSUME NEW s \in Streams, ProviderWrites(s)
        PROVE  pc' = pc /\ message' = message /\ failures' = failures
    BY <1>5 DEF ProviderWrites
  <1>6. CASE Outside \/ UNCHANGED vars
    <2>1. pc' = pc /\ message' = message /\ failures' = failures
      BY <1>6 DEF Outside, PromptEnds, ProviderChanges, Signal, ReaderLeaves,
                  vars
    <2> QED
      BY <1>3, <2>1
  <1> QED
    BY <1>2, <1>3, <1>4, <1>5, <1>6 DEF Next, Outside

\* The last response taken is the last one given, once all are taken.
LEMMA AuthorityIs ==
    ASSUME WrapperType, Sorted, FinalIsLast, Answered
    PROVE  Authority = Answer
  <1> DEFINE w == written["stdout"]
             n == taken["stdout"]
             given == {i \in DOMAIN w : w[i] \in Responses}
             last == CHOOSE i \in given : \A j \in given : j <= i
  <1>1. n \in Nat /\ Len(w) \in Nat /\ n <= Len(w) /\ DOMAIN w = 1 .. Len(w)
    BY DEF WrapperType, ThreadTypes, DataTypes, Streams
  <1>2. CASE Provider = "codex"
    BY <1>2 DEF Authority, Answer
  <1>3. CASE Provider # "codex" /\ final.text = None
    <2>1. given = {}
      BY <1>1, <1>3 DEF FinalIsLast, Answered
    <2> QED
      BY <1>3, <2>1 DEF Authority, Answer
  <1>4. CASE Provider # "codex" /\ final.text # None
    <2>1. final.text \in Responses
      BY <1>4 DEF WrapperType, DataTypes
    <2>2. PICK i \in 1 .. n : /\ w[i] = final.text
                             /\ \A j \in i + 1 .. n : w[j] \notin Responses
      BY <1>4 DEF FinalIsLast
    <2>3. i \in given /\ \A j \in given : j <= i
      BY <1>1, <2>1, <2>2 DEF Answered
    <2>4. last \in given /\ \A j \in given : j <= last
      BY <2>3
    <2>5. last = i
      <3> last \in Nat /\ i \in Nat
        BY <1>1, <2>4
      <3> HIDE DEF last
      <3> QED
        BY <2>3, <2>4
    <2>6. given # {}
      BY <2>3
    <2> QED
      BY <1>4, <2>2, <2>5, <2>6 DEF Authority, Answer
  <1> QED
    BY <1>2, <1>3, <1>4

\* What is written for the last response is what is to be said of it.
LEMMA EmissionIsSaid ==
    ASSUME WrapperType, Course, Sorted, FinalIsLast, AllAnswered, pc = "emit"
    PROVE  Emission(message, final.error) = Said
  <1>1. Answered /\ message = Answer
    BY DEF AllAnswered, Answering
  <1>2. Authority = message
    BY <1>1, AuthorityIs
  <1>3. message \in Responses \union {None} /\ final.error = (final.text = "failed")
    BY <1>1 DEF Answer, WrapperType, DataTypes, FinalIsLast, Answered
  <1>4. Provider = "codex" => message # "failed" /\ final.error = FALSE
    BY <1>3, Answerable, WrapperAssumption DEF Sorted
  <1>5. Provider # "codex" => final.error = (message = "failed")
    BY <1>1, <1>3 DEF Answer
  <1>6. /\ message \in {"valid", "invalid", "empty", "failed", "garbled", None}
        /\ None # "valid" /\ None # "failed" /\ None # "empty"
    BY <1>1, <1>3, Answerable, WrapperAssumption
  <1> QED
    BY <1>2, <1>4, <1>5, <1>6 DEF Said, Emission

LEMMA EndingStays ==
    ASSUME Course, ending # None, [Next]_vars
    PROVE  ending' # None
  <1> USE WrapperAssumption DEF Course, Waiting, Answering
  <1>1. CASE MainStep
    BY <1>1 DEF MainStep, Spawn, StartThreads, Poll, Get, Join, Failures,
                ReadMessage, Emit, Terminate, ClosePipe, JoinAgain, Restore,
                Goto, Raise
  <1>2. ASSUME NEW s \in Streams, RelayRuns(s)
        PROVE  ending' = ending
    BY <1>2 DEF RelayRuns, RelayReads, RelayRecords, RelayWrites,
                RelayReachesEnd, RelayEnds, RelayFindsClosed, RelayCannotWrite,
                Fails
  <1>3. ASSUME NEW s \in Streams, ProviderWrites(s)
        PROVE  ending' = ending
    BY <1>3 DEF ProviderWrites
  <1>4. CASE Outside \/ UNCHANGED vars
    BY <1>4 DEF Outside, PromptEnds, ProviderChanges, Signal, ReaderLeaves,
                vars
  <1> QED
    BY <1>1, <1>2, <1>3, <1>4 DEF Next, Outside

\* Only Emit writes a block.
LEMMA BlockIsEmitted ==
    ASSUME WrapperType, ~BlockShown, BlockShown', [Next]_vars
    PROVE  Emit /\ Emission(message, final.error) = <<"block">>
  <1>1. shown["stdout"] \in Seq(Shown)
    BY DEF WrapperType, DataTypes, Streams
  <1>2. CASE shown'["stdout"] = shown["stdout"]
    BY <1>2 DEF BlockShown, IsAt
  <1>3. ASSUME NEW x \in Shown, shown'["stdout"] = Append(shown["stdout"], x),
               x # "block"
        PROVE  FALSE
    BY <1>1, <1>3, AppendProperties DEF BlockShown, IsAt
  <1>4. ASSUME NEW s \in Streams, RelayRuns(s)
        PROVE  \/ shown'["stdout"] = shown["stdout"]
               \/ \E x \in {"line", "part", "rest"} :
                     shown'["stdout"] = Append(shown["stdout"], x)
    <2>1. CASE RelayWrites(s)
      <3>1. \/ shown' = shown
            \/ \E x \in {"line", "part", "rest"} :
                  shown' = [shown EXCEPT ![s] = Append(@, x)]
        BY <2>1 DEF RelayWrites
      <3>2. "stdout" \in DOMAIN shown
        BY DEF WrapperType, DataTypes, Streams
      <3>3. CASE s = "stdout"
        BY <3>1, <3>2, <3>3
      <3>4. CASE s # "stdout"
        BY <3>1, <3>2, <3>4
      <3> QED
        BY <3>3, <3>4
    <2>2. CASE RelayEnds(s)
      BY <2>2 DEF RelayEnds, WrapperType, DataTypes
    <2>3. CASE ~RelayWrites(s) /\ ~RelayEnds(s)
      BY <1>4, <2>3 DEF RelayRuns, RelayReads, RelayRecords, RelayReachesEnd,
                        RelayFindsClosed, RelayCannotWrite, Fails
    <2> QED
      BY <2>1, <2>2, <2>3
  <1>5. ASSUME NEW s \in Streams, ProviderWrites(s)
        PROVE  shown' = shown
    BY <1>5 DEF ProviderWrites
  <1>6. CASE Outside \/ UNCHANGED vars
    BY <1>2, <1>6 DEF Outside, PromptEnds, ProviderChanges, Signal,
                      ReaderLeaves, vars
  <1>7. CASE MainStep /\ ~Emit
    BY <1>2, <1>7 DEF MainStep, Spawn, StartThreads, Poll, Get, Join, Failures,
                      ReadMessage, Terminate, ClosePipe, JoinAgain, Restore,
                      Others
  <1>8. CASE Emit
    <2>1. \/ shown'["stdout"] = shown["stdout"] \o Emission(message, final.error)
          \/ shown' = shown
      BY <1>8 DEF Emit, WrapperType, DataTypes, Streams
    <2>2. CASE Emission(message, final.error) = << >>
      BY <1>1, <1>2, <2>1, <2>2
    <2>3. CASE Emission(message, final.error) = <<"response">>
      <3>1. \/ shown'["stdout"] = Append(shown["stdout"], "response")
            \/ shown' = shown
        BY <1>1, <2>1, <2>3, AppendIsConcat DEF Shown
      <3> QED
        BY <1>2, <1>3, <3>1 DEF Shown
    <2> QED
      BY <1>8, <2>2, <2>3 DEF Emission
  <1> QED
    BY <1>2, <1>3, <1>4, <1>5, <1>6, <1>7, <1>8 DEF Next, Outside, Shown

LEMMA BlockIsLastStep ==
    ASSUME WrapperType, Course, Reasons, Sorted, FinalIsLast, AllAnswered,
           BlockIsLast, [Next]_vars
    PROVE  BlockIsLast'
  <1>1. CASE BlockShown
    <2>1. pc \notin {"spawn", "start"}
      BY <1>1 DEF BlockIsLast, Course
    <2>2. Answered /\ Answer = "valid" /\ ending # None
      BY <1>1 DEF BlockIsLast
    <2>3. Answered' /\ Answer' = Answer
      BY <2>1, <2>2, AnsweredStays
    <2> QED
      BY <2>2, <2>3, EndingStays DEF BlockIsLast
  <1>2. CASE ~BlockShown /\ BlockShown'
    <2>1. Emit /\ Emission(message, final.error) = <<"block">>
      BY <1>2, BlockIsEmitted
    <2>2. pc = "emit" /\ ending' # None
      BY <2>1, WrapperAssumption DEF Emit, Raise
    <2>3. Said = <<"block">>
      BY <2>1, <2>2, EmissionIsSaid
    <2>4. Authority = "valid"
      BY <2>3 DEF Said
    <2>5. Answered
      BY <2>2 DEF AllAnswered, Answering
    <2>6. Answer = "valid" /\ Answered' /\ Answer' = Answer
      BY <2>2, <2>4, <2>5, AuthorityIs, AnsweredStays
    <2> QED
      BY <2>2, <2>6 DEF BlockIsLast
  <1>3. CASE ~BlockShown'
    BY <1>3 DEF BlockIsLast
  <1> QED
    BY <1>1, <1>2, <1>3

-----------------------------------------------------------------------------
(* What is shown of the lines *)

LEMMA FirstTagIs ==
    ASSUME NEW d \in Seq(Diagnosed), Tags(d) # {}
    PROVE  /\ FirstTag(d) \in Tags(d) /\ FirstTag(d) \in 1 .. Len(d)
           /\ \A j \in Tags(d) : FirstTag(d) <= j
  <1>1. Tags(d) \in SUBSET Nat /\ DOMAIN d = 1 .. Len(d)
    BY DEF Tags
  <1>2. PICK i \in Tags(d) : \A j \in Tags(d) : i <= j
    BY <1>1, Least
  <1>3. /\ FirstTag(d) \in Tags(d)
        /\ \A j \in Tags(d) : FirstTag(d) <= j
    BY <1>2, Zenon DEF FirstTag
  <1> QED
    BY <1>1, <1>3 DEF Tags

LEMMA PiecesType ==
    ASSUME NEW d \in Seq(Diagnosed)
    PROVE  Pieces(d) \in Seq(Shown)
  <1>1. CASE Tags(d) = {}
    BY <1>1 DEF Pieces, Shown
  <1>2. CASE Tags(d) # {}
    <2> DEFINE k == FirstTag(d)
    <2>1. k \in Nat
      BY <1>2, FirstTagIs
    <2>2. Pieces(d) = [i \in 1 .. k |-> IF i < k THEN "line" ELSE "part"]
      BY <1>2 DEF Pieces
    <2> HIDE DEF k
    <2> QED
      BY <2>1, <2>2 DEF Shown
  <1> QED
    BY <1>1, <1>2

LEMMA PiecesAppend ==
    ASSUME NEW d \in Seq(Diagnosed), NEW l \in Diagnosed
    PROVE  /\ Tags(Append(d, l)) # {} <=> Tags(d) # {} \/ l = "tagged"
           /\ Pieces(Append(d, l)) =
                 IF Tags(d) # {} THEN Pieces(d)
                 ELSE Append(Pieces(d), IF l = "tagged" THEN "part" ELSE "line")
  <1> DEFINE e == Append(d, l)
             n == Len(d)
  <1>1. /\ e \in Seq(Diagnosed) /\ Len(e) = n + 1 /\ n \in Nat
        /\ e[n + 1] = l /\ \A i \in 1 .. n : e[i] = d[i]
        /\ DOMAIN e = 1 .. n + 1 /\ DOMAIN d = 1 .. n
    BY AppendProperties
  <1> HIDE DEF e, n
  <1>2. Tags(e) = IF l = "tagged" THEN Tags(d) \union {n + 1} ELSE Tags(d)
    BY <1>1 DEF Tags
  <1>3. Tags(e) # {} <=> Tags(d) # {} \/ l = "tagged"
    BY <1>2
  <1>4. CASE Tags(d) # {}
    <2> DEFINE k == FirstTag(d)
               m == FirstTag(e)
    <2>1. /\ k \in Tags(d) /\ k \in 1 .. n /\ \A j \in Tags(d) : k <= j
      BY <1>4, FirstTagIs DEF n
    <2>2. /\ m \in Tags(e) /\ m \in Nat /\ \A j \in Tags(e) : m <= j
      BY <1>1, <1>3, <1>4, FirstTagIs
    <2> HIDE DEF k, m
    <2>3. m = k
      BY <1>1, <1>2, <2>1, <2>2
    <2> QED
      BY <1>3, <1>4, <2>3 DEF Pieces, k, m, e
  <1>5. CASE Tags(d) = {} /\ l = "tagged"
    <2>1. Tags(e) = {n + 1}
      BY <1>2, <1>5
    <2>2. FirstTag(e) = n + 1
      BY <2>1 DEF FirstTag
    <2>3. Pieces(e) = [i \in 1 .. n + 1 |-> IF i < n + 1 THEN "line" ELSE "part"]
      BY <2>1, <2>2 DEF Pieces
    <2>4. Pieces(d) = [i \in 1 .. n |-> "line"]
      BY <1>1, <1>5 DEF Pieces
    <2>5. Append(Pieces(d), "part") = Pieces(e)
      BY <1>1, <2>3, <2>4
    <2> QED
      BY <1>3, <1>5, <2>5 DEF e
  <1>6. CASE Tags(d) = {} /\ l # "tagged"
    <2>1. Tags(e) = {}
      BY <1>2, <1>6
    <2>2. Pieces(e) = [i \in 1 .. n + 1 |-> "line"]
      BY <1>1, <2>1 DEF Pieces
    <2>3. Pieces(d) = [i \in 1 .. n |-> "line"]
      BY <1>1, <1>6 DEF Pieces
    <2>4. Append(Pieces(d), "line") = Pieces(e)
      BY <1>1, <2>2, <2>3
    <2> QED
      BY <1>3, <1>6, <2>4 DEF e
  <1> QED
    BY <1>4, <1>5, <1>6

LEMMA DealtType ==
    ASSUME WrapperType, NEW s \in Streams
    PROVE  Dealt(s) \in Seq(Kinds) /\ Seen(s) \in Seq(Diagnosed)
  <1> DEFINE m == IF relay[s] \in {"write", "record"} THEN taken[s] - 1
                  ELSE taken[s]
  <1>1. /\ written[s] \in Seq(Kinds) /\ Len(written[s]) \in Nat
        /\ m \in Int /\ m <= Len(written[s])
    BY DEF WrapperType, ThreadTypes, DataTypes
  <1>2. Dealt(s) = [i \in 1 .. m |-> written[s][i]]
    BY DEF Dealt
  <1> HIDE DEF m
  <1>3. \A i \in 1 .. m : written[s][i] \in Kinds
    BY <1>1
  <1>4. CASE m < 0
    <2>1. 1 .. m = {} /\ 1 .. 0 = {}
      BY <1>1, <1>4
    <2>2. Dealt(s) \in [1 .. 0 -> Kinds]
      BY <1>2, <2>1
    <2>3. Dealt(s) \in Seq(Kinds)
      BY <2>2
    <2> QED
      BY <2>3, FilterType DEF Seen
  <1>5. CASE m >= 0
    <2>1. Dealt(s) \in Seq(Kinds)
      BY <1>1, <1>2, <1>3, <1>5
    <2> QED
      BY <2>1, FilterType DEF Seen
  <1> QED
    BY <1>1, <1>4, <1>5

LEMMA SeenSame ==
    ASSUME WrapperType, NEW s \in Streams, Dealt(s)' = Dealt(s)
    PROVE  Seen(s)' = Seen(s)
  BY DEF Seen

LEMMA WholeSame ==
    ASSUME written' = written
    PROVE  \A s \in Streams : Whole(s)' = Whole(s)
  BY DEF Whole

\* The pieces shown of a stream, while nothing has ended the wrapper.
ShownOf(s) ==
    /\ relay[s] \notin {"done", "failed"} =>
          /\ s \in hiding <=> Tags(Seen(s)) # {}
          /\ shown[s] = Pieces(Seen(s))
    /\ relay[s] = "done" => shown[s] = Whole(s)

LEMMA RelayShows ==
    ASSUME WrapperType, Ended, Sorted, NEW s \in Streams, ShownOf(s),
           RelayRuns(s)
    PROVE  ShownOf(s)'
  <1>0. /\ taken[s] \in Nat /\ Len(written[s]) \in Nat
        /\ taken[s] <= Len(written[s]) /\ written[s] \in Seq(Kinds)
    BY DEF WrapperType, ThreadTypes, DataTypes
  <1>1. CASE RelayReads(s)
    <2>1. /\ relay[s] = "read" /\ relay'[s] \in {"write", "record"}
          /\ taken'[s] = taken[s] + 1 /\ UNCHANGED <<written, hiding, shown>>
      BY <1>1 DEF RelayReads, RelayMoves, provider, WrapperType, ThreadTypes
    <2>2. Dealt(s)' = Dealt(s)
      BY <1>0, <2>1 DEF Dealt
    <2> QED
      BY <2>1, <2>2, SeenSame DEF ShownOf
  <1>2. CASE RelayRecords(s) \/ RelayWrites(s)
    <2>1. /\ relay[s] \in {"record", "write"} /\ relay'[s] = "read"
          /\ UNCHANGED <<written, taken>>
      BY <1>2 DEF RelayRecords, RelayWrites, RelayMoves, provider, WrapperType,
                  ThreadTypes
    <2> DEFINE k == taken[s] - 1
    <2>2. /\ taken[s] > 0 /\ k \in Nat /\ k + 1 = taken[s]
          /\ relay[s] = "write" => Line(s) \in Diagnosed
          /\ relay[s] = "record" => Line(s) \notin Diagnosed
          /\ Line(s) = written[s][k + 1]
      <3>1. \A x \in Responses : x \notin Diagnosed
        BY Answerable DEF Diagnosed
      <3>2. /\ relay[s] = "write" => taken[s] > 0 /\ Line(s) \in Diagnosed
            /\ relay[s] = "record" => taken[s] > 0 /\ Line(s) \in Responses
        BY DEF Sorted
      <3> QED
        BY <1>0, <2>1, <3>1, <3>2 DEF Line
    <2>3. Dealt(s) = [i \in 1 .. k |-> written[s][i]]
      BY <2>1 DEF Dealt
    <2>4. Dealt(s)' = [i \in 1 .. k + 1 |-> written[s][i]]
      BY <2>1, <2>2 DEF Dealt
    <2>5. Line(s) \in Kinds /\ Dealt(s) \in Seq(Kinds)
      BY <1>0, <2>2, DealtType
    <2>6. Dealt(s)' = Append(Dealt(s), Line(s))
      <3> HIDE DEF k
      <3>1. [i \in 1 .. k + 1 |-> written[s][i]] =
               Append([i \in 1 .. k |-> written[s][i]], written[s][k + 1])
        BY <2>2
      <3> QED
        BY <2>2, <2>3, <2>4, <3>1
    <2>7. Seen(s)' = IF Line(s) \in Diagnosed THEN Append(Seen(s), Line(s))
                     ELSE Seen(s)
      BY <2>5, <2>6, FilterAppend DEF Seen
    <2>8. Seen(s) \in Seq(Diagnosed)
      BY DealtType
    <2>9. CASE relay[s] = "record"
      <3>1. UNCHANGED <<hiding, shown>> /\ Seen(s)' = Seen(s)
        BY <1>2, <2>2, <2>7, <2>9 DEF RelayRecords, RelayWrites
      <3> QED
        BY <2>1, <2>9, <3>1 DEF ShownOf
    <2>10. CASE relay[s] = "write"
      <3> DEFINE d == Seen(s)
                 l == Line(s)
      <3>1. /\ Seen(s)' = Append(d, l) /\ d \in Seq(Diagnosed)
            /\ l \in Diagnosed
        BY <2>2, <2>7, <2>8, <2>10
      <3>2. /\ s \in hiding <=> Tags(d) # {}
            /\ shown[s] = Pieces(d)
        BY <2>10 DEF ShownOf
      <3>3. /\ s \in hiding' <=> s \in hiding \/ l = "tagged"
            /\ shown'[s] = IF s \in hiding THEN shown[s]
                           ELSE Append(shown[s],
                                       IF l = "tagged" THEN "part" ELSE "line")
        BY <1>2, <2>10 DEF RelayWrites, RelayRecords, WrapperType, ThreadTypes,
                           DataTypes
      <3> HIDE DEF d, l
      <3>4. /\ Tags(Append(d, l)) # {} <=> Tags(d) # {} \/ l = "tagged"
            /\ Pieces(Append(d, l)) =
                 IF Tags(d) # {} THEN Pieces(d)
                 ELSE Append(Pieces(d), IF l = "tagged" THEN "part" ELSE "line")
        BY <3>1, PiecesAppend
      <3> DEFINE e == Append(d, l)
                 pd == Pieces(d)
                 x == IF l = "tagged" THEN "part" ELSE "line"
                 px == Append(pd, x)
      <3>5. s \in hiding' <=> Tags(e) # {}
        BY <3>2, <3>3, <3>4
      <3>6. shown'[s] = Pieces(e)
        BY <3>2, <3>3, <3>4
      <3> HIDE DEF e
      <3>7. Seen(s)' = e
        BY <3>1 DEF e
      <3> QED
        BY <2>1, <3>5, <3>6, <3>7 DEF ShownOf
    <2> QED
      BY <2>1, <2>9, <2>10
  <1>3. CASE RelayReachesEnd(s)
    <2>1. /\ relay[s] = "read" /\ relay'[s] = "end"
          /\ UNCHANGED <<written, taken, hiding, shown>>
      BY <1>3 DEF RelayReachesEnd, RelayMoves, provider, WrapperType,
                  ThreadTypes
    <2>2. Dealt(s)' = Dealt(s)
      BY <2>1 DEF Dealt
    <2> QED
      BY <2>1, <2>2, SeenSame DEF ShownOf
  <1>4. CASE RelayEnds(s)
    <2>1. /\ relay[s] = "end" /\ relay'[s] = "done"
          /\ shown'[s] = IF s \in hiding THEN Append(shown[s], "rest")
                         ELSE shown[s]
          /\ UNCHANGED written
      BY <1>4 DEF RelayEnds, RelayMoves, provider, WrapperType, ThreadTypes,
                  DataTypes
    <2>2. Dealt(s) = written[s]
      <3>1. taken[s] = Len(written[s])
        BY <2>1 DEF Ended
      <3>2. Dealt(s) = [i \in 1 .. Len(written[s]) |-> written[s][i]]
        BY <2>1, <3>1 DEF Dealt
      <3> QED
        BY <1>0, <3>2
    <2>3. Filter(written[s], {"text", "tagged"}) = Seen(s)
      BY <2>2 DEF Seen, Diagnosed
    <2> DEFINE d == Seen(s)
    <2>4. Whole(s) = IF Tags(d) = {} THEN Pieces(d) ELSE Append(Pieces(d), "rest")
      <3> HIDE DEF d
      <3> QED
        BY <2>3 DEF Whole, d
    <2>5. s \in hiding <=> Tags(d) # {}
      BY <2>1 DEF ShownOf
    <2>6. shown[s] = Pieces(d)
      BY <2>1 DEF ShownOf
    <2> HIDE DEF d
    <2>7. shown'[s] = Whole(s)
      BY <2>1, <2>4, <2>5, <2>6
    <2> QED
      BY <2>1, <2>7, WholeSame DEF ShownOf
  <1>5. CASE RelayFindsClosed(s) \/ RelayCannotWrite(s)
    BY <1>5 DEF RelayFindsClosed, RelayCannotWrite, Fails, RelayMoves, ShownOf,
                WrapperType, ThreadTypes
  <1> QED
    BY <1>1, <1>2, <1>3, <1>4, <1>5 DEF RelayRuns

\* What ShownOf(s) speaks of.
Same(s) ==
    /\ UNCHANGED <<relay[s], taken[s], written[s], shown[s]>>
    /\ s \in hiding <=> s \in hiding'

LEMMA SameShows ==
    ASSUME NEW s \in Streams, ShownOf(s), Same(s)
    PROVE  ShownOf(s)'
  <1>1. Dealt(s)' = Dealt(s)
    BY DEF Dealt, Same
  <1>2. Seen(s)' = Seen(s) /\ Whole(s)' = Whole(s)
    BY <1>1 DEF Seen, Whole, Same
  <1> QED
    BY <1>2 DEF ShownOf, Same

LEMMA WritesShow ==
    ASSUME WrapperType, Ended, NEW s \in Streams, ShownOf(s), ProviderWrites(s)
    PROVE  ShownOf(s)'
  <1>1. PICK l \in Lines : /\ child = "running" \/ holder
                          /\ written' = [written EXCEPT ![s] = Append(@, l)]
    BY DEF ProviderWrites
  <1>2. /\ written[s] \in Seq(Kinds) /\ l \in Kinds
        /\ written'[s] = Append(written[s], l)
        /\ taken[s] \in Nat /\ taken[s] <= Len(written[s])
    BY <1>1, Answerable DEF Lines, Kinds, Diagnosed, WrapperType, ThreadTypes,
       DataTypes
  <1>3. /\ Len(written[s]) \in Nat
        /\ \A i \in 1 .. Len(written[s]) : written'[s][i] = written[s][i]
    BY <1>2, AppendProperties
  <1>4. UNCHANGED <<relay, taken, shown, hiding>>
    BY DEF ProviderWrites, relays
  <1>5. Dealt(s)' = Dealt(s)
    BY <1>2, <1>3, <1>4 DEF Dealt
  <1>6. relay[s] # "done"
    BY <1>1 DEF Ended, Open
  <1> QED
    BY <1>4, <1>5, <1>6, SeenSame DEF ShownOf

LEMMA NothingSeen ==
    ASSUME WrapperType, Course, NEW s \in Streams, StartThreads, ShownOf(s)
    PROVE  ShownOf(s)'
  <1>1. /\ relay[s] = "none" /\ relay'[s] \in {"none", "read"}
        /\ taken[s] = 0 /\ UNCHANGED <<taken, written, shown, hiding>>
    BY DEF StartThreads, Course, provider
  <1>2. Dealt(s)' = Dealt(s)
    BY <1>1 DEF Dealt
  <1> QED
    BY <1>1, <1>2, SeenSame DEF ShownOf

LEMMA ShownSoFarIs ==
    ShownSoFar <=> /\ ending = None => \A s \in Streams : ShownOf(s)
                   /\ ending = "code" /\ ~forked =>
                         /\ shown["stderr"] = Whole("stderr")
                         /\ shown["stdout"] = Whole("stdout") \o Said
  BY DEF ShownSoFar, ShownOf

LEMMA ShownAtFirst ==
    ASSUME WrapperType, Course, Ended, Sorted, ShownSoFar, ending' = None,
           [Next]_vars
    PROVE  \A s \in Streams : ShownOf(s)'
  <1>1. \A s \in Streams : ShownOf(s)
    BY EndingStays, ShownSoFarIs
  <1> SUFFICES ASSUME NEW t \in Streams
               PROVE  ShownOf(t)'
    OBVIOUS
  <1>2. CASE StartThreads
    BY <1>1, <1>2, NothingSeen
  <1>3. CASE MainStep /\ ~StartThreads
    <2>1. ~Emit
      BY WrapperAssumption DEF Emit, Raise
    <2>2. UNCHANGED <<relay, taken, written, shown, hiding>>
      BY <1>3, <2>1 DEF MainStep, Spawn, Poll, Get, Join, Failures,
                        ReadMessage, Terminate, ClosePipe, JoinAgain, Restore,
                        provider, relays, Others
    <2> QED
      BY <1>1, <2>2, SameShows DEF Same
  <1>4. ASSUME NEW s \in Streams, RelayRuns(s)
        PROVE  ShownOf(t)'
    <2>1. CASE s = t
      BY <1>1, <1>4, <2>1, RelayShows
    <2>2. CASE s # t
      <3>1. Same(t)
        BY <1>4, <2>2
           DEF RelayRuns, RelayReads, RelayRecords, RelayWrites,
               RelayReachesEnd, RelayEnds, RelayFindsClosed, RelayCannotWrite,
               Fails, RelayMoves, provider, Same, WrapperType, ThreadTypes,
               DataTypes
      <3> QED
        BY <1>1, <3>1, SameShows
    <2> QED
      BY <2>1, <2>2
  <1>5. ASSUME NEW s \in Streams, ProviderWrites(s)
        PROVE  ShownOf(t)'
    <2>1. CASE s = t
      BY <1>1, <1>5, <2>1, WritesShow
    <2>2. CASE s # t
      <3>1. Same(t)
        BY <1>5, <2>2 DEF ProviderWrites, relays, Same, WrapperType, DataTypes
      <3> QED
        BY <1>1, <3>1, SameShows
    <2> QED
      BY <2>1, <2>2
  <1>6. CASE Outside \/ UNCHANGED vars
    <2>1. UNCHANGED <<relay, taken, written, shown, hiding>>
      BY <1>6 DEF Outside, PromptEnds, ProviderChanges, Signal, ReaderLeaves,
                  vars, provider, relays
    <2> QED
      BY <1>1, <2>1, SameShows DEF Same
  <1> QED
    BY <1>2, <1>3, <1>4, <1>5, <1>6 DEF Next, Outside

\* Once the relays have ended nothing is written any more, to or by the wrapper.
LEMMA ShownAtLast ==
    ASSUME WrapperType, Course, Ended, AllEnded, ending = "code", ~forked',
           [Next]_vars
    PROVE  ~forked /\ UNCHANGED <<Provider, file, written, shown>>
  <1> USE WrapperAssumption DEF Course, Waiting, Answering
  <1>1. ~forked
    BY DEF Next, vars, provider, MainStep, Spawn, StartThreads, Poll, Get,
           Join, Failures, ReadMessage, Emit, Terminate, ClosePipe, JoinAgain,
           Restore, PromptEnds, ProviderChanges, Signal, ReaderLeaves,
           RelayRuns, RelayReads, RelayRecords, RelayWrites, RelayReachesEnd,
           RelayEnds, RelayFindsClosed, RelayCannotWrite, Fails, ProviderWrites
  <1>2. (\A s \in Streams : relay[s] = "done") /\ child # "running" /\ ~holder
    BY <1>1 DEF AllEnded, Ended, Open, Streams
  <1>3. CASE MainStep
    BY <1>3 DEF MainStep, Spawn, StartThreads, Poll, Get, Join, Failures,
                ReadMessage, Emit, Terminate, ClosePipe, JoinAgain, Restore,
                provider, Others
  <1>4. ASSUME NEW s \in Streams, RelayRuns(s)
        PROVE  FALSE
    BY <1>2, <1>4 DEF RelayRuns, RelayReads, RelayRecords, RelayWrites,
                      RelayReachesEnd, RelayEnds, RelayFindsClosed,
                      RelayCannotWrite
  <1>5. ASSUME NEW s \in Streams, ProviderWrites(s)
        PROVE  FALSE
    BY <1>2, <1>5 DEF ProviderWrites
  <1>6. CASE Outside \/ UNCHANGED vars
    BY <1>2, <1>6 DEF Outside, PromptEnds, ProviderChanges, Signal,
                      ReaderLeaves, vars, provider
  <1> QED
    BY <1>1, <1>3, <1>4, <1>5, <1>6 DEF Next, Outside

LEMMA ShownSoFarStep ==
    ASSUME WrapperType, Course, Reasons, Ended, Sorted, FinalIsLast, AllAnswered,
           AllEnded, ShownSoFar, [Next]_vars
    PROVE  ShownSoFar'
  <1>1. ASSUME ending' = "code", ~forked'
        PROVE  /\ shown'["stderr"] = Whole("stderr")'
               /\ shown'["stdout"] = Whole("stdout")' \o Said'
    <2>1. CASE ending = "code"
      <3>1. ~forked /\ UNCHANGED <<Provider, file, written, shown>>
        BY <1>1, <2>1, ShownAtLast
      <3>2. Responses' = Responses
        BY <3>1 DEF Responses
      <3>3. Authority' = Authority
        BY <3>1, <3>2 DEF Authority
      <3>4. Said' = Said
        BY <3>3 DEF Said
      <3> QED
        BY <2>1, <3>1, <3>4, WholeSame, ShownSoFarIs DEF Streams
    <2>2. CASE ending # "code"
      <3>1. Emit
        BY <1>1, <2>2, WrapperAssumption
           DEF Next, vars, MainStep, Spawn, StartThreads, Poll, Get, Join,
               Failures, ReadMessage, Terminate, ClosePipe, JoinAgain, Restore,
               PromptEnds, ProviderChanges, Signal, ReaderLeaves, RelayRuns,
               RelayReads,
               RelayRecords, RelayWrites, RelayReachesEnd, RelayEnds,
               RelayFindsClosed, RelayCannotWrite, Fails, ProviderWrites, Goto,
               Raise
      <3>2. /\ pc = "emit" /\ UNCHANGED <<Provider, file, written, forked>>
            /\ shown' = [shown EXCEPT !["stdout"] =
                                  @ \o Emission(message, final.error)]
        BY <1>1, <3>1 DEF Emit, Raise, provider
      <3>3. Emission(message, final.error) = Said
        BY <3>2, EmissionIsSaid
      <3>4. \A s \in Streams : relay[s] = "done"
        BY <1>1, <3>2 DEF AllEnded, Answering
      <3>5. ending = None
        BY <3>2 DEF Course, Answering
      <3>6. \A s \in Streams : shown[s] = Whole(s)
        BY <3>4, <3>5, ShownSoFarIs DEF ShownOf
      <3>7. Responses' = Responses
        BY <3>2 DEF Responses
      <3>8. Authority' = Authority
        BY <3>2, <3>7 DEF Authority
      <3>9. Said' = Said
        BY <3>8 DEF Said
      <3>10. /\ shown'["stderr"] = shown["stderr"]
             /\ shown'["stdout"] = shown["stdout"] \o Said
        BY <3>2, <3>3 DEF WrapperType, DataTypes, Streams
      <3> QED
        BY <3>2, <3>6, <3>9, <3>10, WholeSame DEF Streams
    <2> QED
      BY <2>1, <2>2
  <1> QED
    BY <1>1, ShownAtFirst DEF ShownSoFar, ShownOf

-----------------------------------------------------------------------------
(* The theorems *)

LEMMA WrapperInit ==
    ASSUME Init
    PROVE  WrapperInv
  <1> USE WrapperAssumption DEF Init
  <1>1. WrapperType
    <2>1. << >> \in Seq(Kinds) /\ << >> \in Seq(Shown) /\ Len(<< >>) = 0
      OBVIOUS
    <2>2. ThreadTypes
      BY DEF ThreadTypes
    <2>3. final \in [text : Responses \union {None}, error : BOOLEAN]
      OBVIOUS
    <2>4. DataTypes
      BY <2>1, <2>3 DEF DataTypes
    <2> QED
      BY <2>2, <2>4 DEF WrapperType
  <1>2. Course /\ Reasons /\ Closing /\ Reported /\ Ended /\ AllEnded
    BY DEF Course, Reasons, Closing, Reported, Ended, AllEnded, Waiting,
           Answering
  <1>3. Sorted /\ FinalIsLast
    <2>1. \A s \in Streams : written[s] = << >> /\ taken[s] = 0 /\ relay[s] = "none"
      OBVIOUS
    <2>2. final.text = None /\ final.error = FALSE /\ None # "failed"
      OBVIOUS
    <2>3. Sorted
      BY <2>1 DEF Sorted, Streams
    <2>4. taken["stdout"] = 0 /\ relay["stdout"] # "record"
      BY <2>1 DEF Streams
    <2>5. 1 .. 0 = {} /\ final.error = (final.text = "failed")
      <3>1. (final.text = "failed") = FALSE
        BY <2>2, Zenon
      <3>2. final.error = FALSE
        BY <2>2, Zenon
      <3>3. 1 .. 0 = {}
        OBVIOUS
      <3> HIDE DEF Init
      <3> QED
        BY <3>1, <3>2, <3>3, Zenon
    <2>6. FinalIsLast
      <3> HIDE DEF Init
      <3> QED
        BY <2>2, <2>4, <2>5 DEF FinalIsLast
    <2> QED
      BY <2>3, <2>6
  <1>4. AllAnswered
    BY DEF AllAnswered, Answering
  <1>5. BlockIsLast
    BY DEF BlockIsLast, BlockShown, Streams
  <1>6. ShownSoFar
    <2>1. \A s \in Streams : Dealt(s) = << >>
      BY DEF Dealt
    <2>2. \A s \in Streams : Seen(s) = << >>
      BY <2>1, FilterEmpty DEF Seen
    <2>3. Tags(<< >>) = {}
      BY DEF Tags
    <2>4. Pieces(<< >>) = << >>
      BY <2>3 DEF Pieces
    <2> QED
      BY <2>2, <2>3, <2>4 DEF ShownSoFar
  <1> QED
    BY <1>1, <1>2, <1>3, <1>4, <1>5, <1>6 DEF WrapperInv

LEMMA WrapperInvariant == Spec => []WrapperInv
  <1>1. WrapperInv /\ [Next]_vars => WrapperInv'
    BY TypeStep, CourseStep, ReasonsStep, ClosingStep, ReportedStep, EndedStep,
       SortedStep, FinalIsLastStep, AllAnsweredStep, BlockIsLastStep, AllEndedStep,
       ShownSoFarStep DEF WrapperInv
  <1> QED
    BY <1>1, WrapperInit, PTL DEF Spec

\* A result block is only ever what the provider's last response says, however
\* long a descendant of the provider keeps a relay reading
\* (BlockIsAuthoritative).
THEOREM WrapperSpeaksForTheProvider == Spec => []BlockIsAuthoritative
  <1>1. WrapperInv => BlockIsAuthoritative
    BY AuthorityIs DEF WrapperInv, BlockIsLast, BlockShown,
                       BlockIsAuthoritative
  <1> QED
    BY <1>1, WrapperInvariant, PTL

\* The provider's exit code is the wrapper's only with all of the provider's
\* output and with what its last response says (CodeMeansRelayed).
THEOREM WrapperRelaysAll == Spec => []CodeMeansRelayed
  <1>1. WrapperInv => CodeMeansRelayed
    BY DEF WrapperInv, ShownSoFar, CodeMeansRelayed
  <1> QED
    BY <1>1, WrapperInvariant, PTL

\* The exit code is lost to nothing but a failed start, a signal, a reader that
\* has gone or a directory that cannot be removed, if stdout can encode what the
\* provider writes and the final-message file is UTF-8 (CodeIsKept).
THEOREM WrapperKeepsTheCode ==
    ASSUME \A p \in Providers : "garbled" \notin Answers[p]
    PROVE  Spec => []CodeIsKept
  <1>1. WrapperInv => CodeIsKept
    <2> SUFFICES ASSUME WrapperInv, pc = "done", ~unread,
                        \A s \in Streams : relay[s] # "none"
                 PROVE  pending \/ ending \in {"code", "uncleaned"}
      BY DEF CodeIsKept
    <2>1. ~Hindered
      BY DEF Hindered
    <2>2. ending # None
      BY DEF WrapperInv, Course, Waiting, Answering
    <2> QED
      BY <2>1, <2>2 DEF WrapperInv, Reasons
  <1> QED
    BY <1>1, WrapperInvariant, PTL
=============================================================================
