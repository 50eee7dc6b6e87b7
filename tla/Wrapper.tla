------------------------------- MODULE Wrapper -------------------------------
(***************************************************************************)
(* One run of a bundled provider wrapper (provider_wrappers): it launches  *)
(* the provider, a thread each writes the prompt and relays the two        *)
(* streams, and the main thread waits for the provider, joins the threads  *)
(* for at most a second each, and writes the final response.               *)
(*                                                                         *)
(* A line is "text", or "tagged": text and then the opening tag of a block *)
(* that is not closed.  Codex leaves its final response in a file; Claude  *)
(* writes it as a line of its stdout, and the last such line counts.  A    *)
(* response is "valid" (a result block), "invalid", "empty" (blank, or not *)
(* a text), "failed" (Claude says is_error of a text that would be valid)  *)
(* or "garbled": a file that is not UTF-8 or, from Claude, whose other     *)
(* lines may be so too, what stdout cannot encode (a lone surrogate).      *)
(***************************************************************************)
EXTENDS Filters

CONSTANTS
    Providers,  \* "codex" and "claude", or one of them
    Answers,    \* [Providers -> the responses it may give]
    MaxLines,   \* [Streams -> lines written to it]: bounds the model
    None

Streams == {"stdout", "stderr"}

ASSUME WrapperAssumption ==
    /\ Providers \subseteq {"codex", "claude"}
    /\ Answers \in [Providers ->
                      SUBSET {"valid", "invalid", "empty", "failed", "garbled"}]
    /\ MaxLines \in [Streams -> Nat]
    /\ "codex" \in Providers => "failed" \notin Answers["codex"]
    /\ None \notin {"text", "tagged", "valid", "invalid", "empty", "failed",
                    "garbled", "code", "error", "signal", "abort", "uncleaned"}

VARIABLES
    Provider,  \* which provider it is
    child,     \* its process: "none", "running" or "exited"
    holder,    \* does a descendant of it hold its pipes?
    forked,    \* has one ever?
    file,      \* the final-message file (Codex), or None
    written,   \* [Streams -> lines the provider wrote]
    taken,     \* [Streams -> how many of them readline returned]
    relay,     \* [Streams -> where its relay thread is]
    hiding,    \* relays whose filter is inside an unfinished block
    shown,     \* [Streams -> what the wrapper wrote: a "line", a "part" of a line
               \* whose end is hidden, the "rest" of it once the stream is over;
               \* the result "block", or a "response" rendered as diagnostics]
    failures,  \* the failures queue is not empty
    prompt,    \* the write_stdin thread: "none", "writing" or "done"
    final,     \* _FinalResult: text (a response) and is_error
    closed,    \* pipes close_process_pipes has closed
    pc,        \* where the main thread is
    message,   \* final_message, as read by the main thread
    pending,   \* a deferred SIGINT or SIGTERM
    unread,    \* has the reader of the wrapper's output gone?
    ending     \* None, "code" (the provider's), or what main raises

provider == <<Provider, child, holder, forked, file, written>>
relays   == <<taken, relay, hiding, final>>
vars == <<provider, relays, shown, failures, prompt, closed, pc, message,
          pending, unread, ending>>

Responses == Answers[Provider]

Lines == {"text", "tagged"} \union
            IF Provider = "claude" THEN Responses ELSE {}

Init ==
    /\ Provider \in Providers
    /\ child = "none" /\ holder = FALSE /\ forked = FALSE /\ file = None
    /\ written = [s \in Streams |-> << >>]
    /\ taken = [s \in Streams |-> 0]
    /\ relay = [s \in Streams |-> "none"]
    /\ hiding = {}
    /\ shown = [s \in Streams |-> << >>]
    /\ failures = FALSE /\ prompt = "none"
    /\ final = [text |-> None, error |-> FALSE]
    /\ closed = {} /\ pc = "spawn" /\ message = None
    /\ pending = FALSE /\ unread = FALSE /\ ending = None

-----------------------------------------------------------------------------
(* The provider *)

Open == child = "running" \/ holder

\* Only the provider itself gives a response; a descendant may write text.
ProviderWrites(s) ==
    /\ Len(written[s]) < MaxLines[s]
    /\ \E l \in Lines :
          /\ child = "running" \/ (holder /\ l = "text")
          /\ l \in Responses => s = "stdout"
          /\ written' = [written EXCEPT ![s] = Append(@, l)]
    /\ UNCHANGED <<Provider, child, holder, forked, file, relays, shown,
                   failures, prompt, closed, pc, message, pending, unread,
                   ending>>

ProviderChanges ==
    /\ \/ /\ child = "running"
          /\ \/ /\ holder' = TRUE /\ forked' = TRUE
                /\ UNCHANGED <<child, file>>
             \/ /\ Provider = "codex" /\ file' \in Responses
                /\ UNCHANGED <<child, holder, forked>>
             \/ child' = "exited" /\ UNCHANGED <<holder, forked, file>>
       \/ holder /\ holder' = FALSE /\ UNCHANGED <<child, forked, file>>
    /\ UNCHANGED <<Provider, written, relays, shown, failures, prompt, closed, pc,
                   message, pending, unread, ending>>

-----------------------------------------------------------------------------
(* The threads; they end with the process *)

RelayMoves(s, place) == relay' = [relay EXCEPT ![s] = place]

Line(s) == written[s][taken[s]]

\* readline returns a line.
RelayReads(s) ==
    /\ pc # "done" /\ relay[s] = "read" /\ s \notin closed
    /\ taken[s] < Len(written[s])
    /\ taken' = [taken EXCEPT ![s] = @ + 1]
    /\ LET l == written[s][taken[s] + 1]
       IN  IF l \in Responses
           THEN /\ RelayMoves(s, "record")
                /\ final' = [final EXCEPT !.text = l]
           ELSE RelayMoves(s, "write") /\ UNCHANGED final
    /\ UNCHANGED <<provider, hiding, shown, failures, prompt, closed, pc,
                   message, pending, unread, ending>>

\* Mutant: is_error is taken from the first result event only.
RelayRecordsOnce(s) ==
    /\ pc # "done" /\ relay[s] = "record"
    /\ final' = [final EXCEPT !.error = FALSE]
    /\ RelayMoves(s, "read")
    /\ UNCHANGED <<provider, taken, hiding, shown, failures, prompt, closed,
                   pc, message, pending, unread, ending>>

\* _record_result assigns is_error after the text.
RelayRecords(s) ==
    /\ pc # "done" /\ relay[s] = "record"
    /\ final' = [final EXCEPT !.error = (Line(s) = "failed")]
    /\ RelayMoves(s, "read")
    /\ UNCHANGED <<provider, taken, hiding, shown, failures, prompt, closed,
                   pc, message, pending, unread, ending>>

\* The visible part of a line is written; nothing is, inside a block.
RelayWrites(s) ==
    /\ pc # "done" /\ relay[s] = "write"
    /\ IF s \in hiding THEN UNCHANGED <<hiding, shown>>
       ELSE IF Line(s) = "tagged"
       THEN /\ hiding' = hiding \union {s}
            /\ shown' = [shown EXCEPT ![s] = Append(@, "part")]
       ELSE /\ shown' = [shown EXCEPT ![s] = Append(@, "line")]
            /\ UNCHANGED hiding
    /\ RelayMoves(s, "read")
    /\ UNCHANGED <<provider, taken, final, failures, prompt, closed, pc,
                   message, pending, unread, ending>>

\* End of file.
RelayReachesEnd(s) ==
    /\ pc # "done" /\ relay[s] = "read" /\ s \notin closed
    /\ taken[s] = Len(written[s]) /\ ~Open
    /\ RelayMoves(s, "end")
    /\ UNCHANGED <<provider, taken, hiding, final, shown, failures, prompt,
                   closed, pc, message, pending, unread, ending>>

\* Mutant: an unfinished block and line are dropped.
RelayEndsSilently(s) ==
    /\ pc # "done" /\ relay[s] = "end"
    /\ hiding' = hiding \ {s}
    /\ RelayMoves(s, "done")
    /\ UNCHANGED <<provider, taken, final, shown, failures, prompt, closed, pc,
                   message, pending, unread, ending>>

\* The filter and the renderer are finished; what an unfinished block hid is
\* written.
RelayEnds(s) ==
    /\ pc # "done" /\ relay[s] = "end"
    /\ s \in hiding => ~unread
    /\ shown' = IF s \in hiding THEN [shown EXCEPT ![s] = Append(@, "rest")]
                ELSE shown
    /\ hiding' = hiding \ {s}
    /\ RelayMoves(s, "done")
    /\ UNCHANGED <<provider, taken, final, failures, prompt, closed, pc,
                   message, pending, unread, ending>>

Fails(s) ==
    /\ RelayMoves(s, "failed")
    /\ failures' = TRUE
    /\ UNCHANGED <<provider, taken, hiding, final, shown, prompt, closed, pc,
                   message, pending, unread, ending>>

\* readline on a pipe the main thread has closed.
RelayFindsClosed(s) ==
    /\ pc # "done" /\ relay[s] = "read" /\ s \in closed
    /\ Fails(s)

\* Nobody reads the wrapper's output any more, or a line of Claude's is not to
\* be decoded or encoded.  A line may leave nothing to write.
RelayCannotWrite(s) ==
    /\ pc # "done" /\ relay[s] \in {"write", "end"}
    /\ \/ unread
       \/ /\ Provider = "claude" /\ "garbled" \in Responses /\ s = "stdout"
          /\ relay[s] = "write" \/ s \in hiding
    /\ Fails(s)

\* write_stdin ends when the prompt is written or the pipe is broken; on its
\* own only then.
PromptEnds ==
    /\ pc # "done" /\ prompt = "writing"
    /\ prompt' = "done"
    /\ UNCHANGED <<provider, relays, shown, failures, closed, pc, message,
                   pending, unread, ending>>

-----------------------------------------------------------------------------
(* The main thread *)

Others == <<relays, shown, prompt, pending, unread>>

Goto(place) == pc' = place /\ UNCHANGED ending
Raise(what) == pc' = "terminate" /\ ending' = what

Spawn ==
    /\ pc = "spawn"
    /\ \/ child' = "running" /\ Goto("start")
       \/ /\ pc' = "restore" /\ ending' = "error"
          /\ UNCHANGED child
    /\ UNCHANGED <<Provider, holder, forked, file, written, Others, failures,
                   closed, message>>

\* The threads start one after the other; one may fail to.
StartThreads ==
    /\ pc = "start"
    /\ \E started \in {{}, {"stdout"}, Streams} :
          /\ relay' = [s \in Streams |->
                         IF s \in started THEN "read" ELSE "none"]
          /\ prompt' \in {"writing"} \union
                           (IF started = {} THEN {"none"} ELSE {})
          /\ IF started = Streams THEN Goto("poll") ELSE Raise("error")
    /\ UNCHANGED <<provider, taken, hiding, final, shown, pending, unread,
                   failures, closed, message>>

\* Mutant: a deferred signal is only looked at when the provider has exited.
PollUnaware ==
    /\ pc = "poll"
    /\ Goto(IF child = "exited" THEN "join" ELSE "get")
    /\ UNCHANGED <<provider, Others, failures, closed, message>>

Poll ==
    /\ pc = "poll"
    /\ IF child = "exited" THEN Goto("join")
       ELSE IF pending THEN Raise("signal")
       ELSE Goto("get")
    /\ UNCHANGED <<provider, Others, failures, closed, message>>

\* Mutant: the queue is waited for without a timeout.
GetForever ==
    /\ pc = "get" /\ failures
    /\ failures' = FALSE
    /\ Raise("error")
    /\ UNCHANGED <<provider, Others, closed, message>>

\* failures.get(timeout=0.05)
Get ==
    /\ pc = "get"
    /\ failures' = FALSE
    /\ IF failures THEN Raise("error") ELSE Goto("poll")
    /\ UNCHANGED <<provider, Others, closed, message>>

Finished(s) == relay[s] \in {"none", "done", "failed"}

\* A relay that can go on does so within the second (the reader of the
\* wrapper's output does not stall); one that waits for a descendant of the
\* provider does not.
MayOutlastJoin(s) ==
    /\ holder /\ relay[s] = "read" /\ s \notin closed
    /\ taken[s] = Len(written[s])

\* _join_threads: each thread is waited for, for a second.
Joined ==
    /\ prompt = "writing" => holder \/ child = "running"
    /\ \A s \in Streams : Finished(s) \/ MayOutlastJoin(s)

\* Mutant: the threads are not joined.
JoinNot ==
    /\ pc = "join"
    /\ Goto("failures")
    /\ UNCHANGED <<provider, Others, failures, closed, message>>

Join ==
    /\ pc = "join" /\ Joined
    /\ Goto("failures")
    /\ UNCHANGED <<provider, Others, failures, closed, message>>

\* Mutant: the queue is not looked at again.
FailuresIgnored ==
    /\ pc = "failures"
    /\ Goto("message")
    /\ UNCHANGED <<provider, Others, failures, closed, message>>

\* failures.get_nowait
Failures ==
    /\ pc = "failures"
    /\ failures' = FALSE
    /\ IF failures THEN Raise("error") ELSE Goto("message")
    /\ UNCHANGED <<provider, Others, closed, message>>

\* Mutant: a missing response is an error.
ReadMessageRaises ==
    /\ pc = "message"
    /\ message' = IF Provider = "codex" THEN file ELSE final.text
    /\ IF message' = None \/ (Provider = "codex" /\ message' = "garbled")
       THEN Raise("error") ELSE Goto("emit")
    /\ UNCHANGED <<provider, Others, failures, closed>>

\* A missing file is no response; a file that is not UTF-8 raises.
ReadMessage ==
    /\ pc = "message"
    /\ message' = IF Provider = "codex" THEN file ELSE final.text
    /\ IF Provider = "codex" /\ message' = "garbled"
       THEN Raise("error") ELSE Goto("emit")
    /\ UNCHANGED <<provider, Others, failures, closed>>

\* Mutant: is_error is not looked at.
EmissionOf(m, error) ==
    IF m \in {None, "empty"} THEN << >>
    ELSE IF m \in {"valid", "failed"} THEN <<"block">> ELSE <<"response">>

\* A valid response becomes a block; is_error is read now.
Emission(m, error) ==
    IF m \in {None, "empty"} THEN << >>
    ELSE IF m \in {"valid", "failed"} /\ ~error THEN <<"block">>
    ELSE <<"response">>

\* A block stays in stdout's buffer, unless it is long; a rendered response is
\* flushed.  Nothing catches what the write raises.
Emit ==
    /\ pc = "emit"
    /\ LET out == Emission(message, final.error)
       IN  \/ /\ message # "garbled" /\ (unread => out # <<"response">>)
              /\ shown' = [shown EXCEPT !["stdout"] = @ \o out]
              /\ Raise("code")
           \/ /\ out # << >> /\ (unread \/ message = "garbled")
              /\ UNCHANGED shown /\ Raise("error")
    /\ UNCHANGED <<provider, relays, failures, prompt, closed, message, pending,
                   unread>>

\* terminate_child: SIGTERM, half a second, SIGKILL, to the provider alone.
Terminate ==
    /\ pc = "terminate"
    /\ child' = "exited"
    /\ Goto("close")
    /\ UNCHANGED <<Provider, holder, forked, file, written, Others, failures,
                   closed, message>>

\* close waits for a thread that is inside a read or write of the pipe.
Closable(p) ==
    IF p = "stdin" THEN prompt # "writing" ELSE relay[p] # "read"

ClosePipe ==
    /\ pc = "close"
    /\ LET order == <<"stdin", "stdout", "stderr">>
           i == CHOOSE n \in 1 .. 3 : order[n] \notin closed
                          /\ \A k \in 1 .. n - 1 : order[k] \in closed
       IN  /\ Closable(order[i])
           /\ closed' = closed \union {order[i]}
           /\ Goto(IF i = 3 THEN "rejoin" ELSE "close")
    /\ UNCHANGED <<provider, Others, failures, message>>

JoinAgain ==
    /\ pc = "rejoin" /\ Joined
    /\ Goto("restore")
    /\ UNCHANGED <<provider, Others, failures, closed, message>>

IsAt(i, piece) == shown["stdout"][i] = piece

\* A deferred signal is raised, Codex's temporary directory is removed and the
\* interpreter ends: it aborts if a thread is inside a write to stdout or
\* stderr, and fails to flush a block that nobody reads.
Restore ==
    /\ pc = "restore"
    /\ pc' = "done"
    /\ IF \E s \in Streams : relay[s] \in {"write", "end"}
       THEN ending' = "abort"
       ELSE \/ ending' = IF pending THEN "signal" ELSE ending
            \/ Provider = "codex" /\ ending' = "uncleaned"
            \/ /\ unread /\ \E i \in DOMAIN shown["stdout"] : IsAt(i, "block")
               /\ ending' = "error"
    /\ UNCHANGED <<provider, Others, failures, closed, message>>

-----------------------------------------------------------------------------
(* The specification *)

Signal ==
    /\ pc # "done" /\ ~pending
    /\ pending' = TRUE
    /\ UNCHANGED <<provider, relays, shown, failures, prompt, closed, pc,
                   message, unread, ending>>

\* The handler that reads the wrapper's output dies, or closes the pipes.
ReaderLeaves ==
    /\ pc # "done" /\ ~unread
    /\ unread' = TRUE
    /\ UNCHANGED <<provider, relays, shown, failures, prompt, closed, pc,
                   message, pending, ending>>

MainStep ==
    \/ Spawn \/ StartThreads \/ Poll \/ Get \/ Join \/ Failures \/ ReadMessage
    \/ Emit \/ Terminate \/ ClosePipe \/ JoinAgain \/ Restore

RelayRuns(s) ==
    \/ RelayReads(s) \/ RelayRecords(s) \/ RelayWrites(s)
    \/ RelayReachesEnd(s) \/ RelayEnds(s) \/ RelayFindsClosed(s)
    \/ RelayCannotWrite(s)

Next ==
    \/ MainStep \/ PromptEnds \/ ProviderChanges \/ Signal \/ ReaderLeaves
    \/ \E s \in Streams : RelayRuns(s) \/ ProviderWrites(s)

Spec == Init /\ [][Next]_vars

\* The wrapper's threads are scheduled, a write ends (its output is read, or
\* nobody can read it and the write fails); nothing is assumed of the provider.
FairSpec ==
    /\ Spec
    /\ WF_vars(MainStep)
    /\ \A s \in Streams : WF_vars(RelayRuns(s))
    /\ WF_vars(~Open /\ PromptEnds)

-----------------------------------------------------------------------------
(* Properties *)

\* The provider's final response, whatever the threads have seen of it.
Authority ==
    IF Provider = "codex" THEN file
    ELSE LET given == {i \in DOMAIN written["stdout"] :
                          written["stdout"][i] \in Responses}
             last == CHOOSE i \in given : \A j \in given : j <= i
         IN  IF given = {} THEN None ELSE written["stdout"][last]

\* A result block is only ever what the provider's last response says, even
\* while a descendant of the provider keeps a relay beyond its join.
BlockIsAuthoritative ==
    \A i \in DOMAIN shown["stdout"] : IsAt(i, "block") => Authority = "valid"

Tags(d) == {i \in DOMAIN d : d[i] = "tagged"}
FirstTag(d) == CHOOSE i \in Tags(d) : \A j \in Tags(d) : i <= j

\* The pieces that diagnosed lines are shown as: nothing is, after a tag.
Pieces(d) ==
    IF Tags(d) = {} THEN [i \in DOMAIN d |-> "line"]
    ELSE [i \in 1 .. FirstTag(d) |-> IF i < FirstTag(d) THEN "line" ELSE "part"]

\* What a stream is shown as when all of it is relayed.
Whole(s) ==
    LET d == Filter(written[s], {"text", "tagged"})
    IN  IF Tags(d) = {} THEN Pieces(d) ELSE Append(Pieces(d), "rest")

\* What is to be said of the provider's last response.
Said == IF Authority \in {None, "empty"} THEN << >>
        ELSE <<IF Authority = "valid" THEN "block" ELSE "response">>

\* A wrapper that exits with the provider's code has said what the provider's
\* response says and relayed everything it wrote before, unless a descendant
\* of the provider held its pipes.
CodeMeansRelayed ==
    pc = "done" /\ ending = "code" /\ ~forked =>
        /\ shown["stderr"] = Whole("stderr")
        /\ shown["stdout"] = Whole("stdout") \o Said

\* Once its threads have started, the wrapper keeps the provider's exit code,
\* whatever the provider writes and whichever descendant of it holds the pipes,
\* unless it was told to stop, the reader of its output went away or Codex's
\* temporary directory could not be removed.
CodeIsKept ==
    /\ pc = "done" /\ ~unread
    /\ \A s \in Streams : relay[s] # "none"
    => pending \/ ending \in {"code", "uncleaned"}

\* Once the provider has exited, or a signal has arrived, the wrapper ends: its
\* waits for the threads are bounded, except while a descendant of the provider
\* holds the pipes that it closes.
WrapperEnds == pending \/ child = "exited" ~> pc = "done" \/ holder
=============================================================================
