----------------------------- MODULE Providers -----------------------------
(***************************************************************************)
(* The queries to CI providers and the processes behind them.              *)
(*                                                                         *)
(* Each thread of the daemon handles one request: a query that runs        *)
(* `claude -p` (claude_code), a query that runs curl (generic_api), or the *)
(* start of a workflow script (flow).  A thread may also belong to a       *)
(* program that keeps an ollama provider, or the mock provider of the      *)
(* tests, and queries it several times.                                    *)
(*                                                                         *)
(* The threads share one process: its open descriptors, which every fork   *)
(* copies, and its SIGCHLD handler, which reaps any child.  A pipe ends    *)
(* for its reader only when the last copy of its write end is closed.      *)
(*                                                                         *)
(* A request is at most 16 KB, so a prompt fits into a pipe and writing it *)
(* neither blocks nor stops half way.  Failures to allocate memory are     *)
(* left out.                                                               *)
(***************************************************************************)
EXTENDS Naturals, Sequences, FiniteSets

CONSTANTS
  Threads,
  Kinds,        \* what each thread may be: sets of the names below
  MaxQueries,   \* bound: queries of an ollama or a mock provider
  MaxCanned,    \* bound: answers given to a mock provider
  MaxParts      \* bound: pieces in which a server sends its answer

ASSUME ProviderBounds ==
  /\ MaxQueries \in Nat \ {0} /\ MaxParts \in Nat \ {0} /\ MaxCanned \in Nat \ {0}
  /\ Kinds \in [Threads -> SUBSET {"claude", "api", "flow", "ollama", "mock"}]

VARIABLES
  kind,     \* what each thread is
  pc,       \* where it is
  result,   \* what its last query returned
  given,    \* what the callback got in this query: [of, count]
  up,       \* the daemon runs
  ends,     \* pipe ends open in the daemon
  child,    \* the child process of each thread
  held,     \* pipe ends open in each child
  code,     \* exit status of each child, 0 for success
  sigchld,  \* SIGCHLD is pending
  temp,     \* threads whose request is in a file under /tmp
  link,     \* the connection of each ollama provider
  canned    \* the answers of each mock provider: how many, the next one, and the
            \* number of queries since they were set

pipes == <<ends, child, held, code, sigchld>>
vars == <<kind, pc, result, given, up, pipes, temp, link, canned>>

End == [of : Threads, pipe : {"in", "out"}, end : {"read", "write"}]
Of(t) == {e \in End : e.of = t}
In(t, x) == [of |-> t, pipe |-> "in", end |-> x]
Out(t, x) == [of |-> t, pipe |-> "out", end |-> x]

\* A piece of the server's answer to query number "of": the headers; text of
\* the response, also with a brace in it; the end of the text; the end of the
\* object.  Or a line with a token, one whose line or token is too long for the
\* buffers of ollama_stream, and the last line.
Piece == [of : 1..MaxQueries,
          part : {"head", "text", "brace", "string", "whole", "token", "long", "done"}]

\* The connection, the number of the query, and what the server has sent for
\* it, what waits to be received and what has been.
Link == [connected : BOOLEAN, query : 0..MaxQueries, mode : {"query", "stream"},
         asked : 0..MaxQueries, sent : Seq(Piece), inbox : Seq(Piece),
         seen : SUBSET Piece, server : {"open", "closed", "reset"}]
NoLink == [connected |-> FALSE, query |-> 0, mode |-> "query", asked |-> 0, sent |-> <<>>,
           inbox |-> <<>>, seen |-> {}, server |-> "closed"]

TypeOK ==
  /\ kind \in [Threads -> {"claude", "api", "flow", "ollama", "mock"}]
  /\ pc \in [Threads -> {"idle", "connected", "piped", "ready", "forked", "parent", "written", "reading",
                         "waiting", "connect", "build", "send", "recv", "done"}]
  /\ result \in [Threads -> {"none", "ok", "error"}]
  /\ given \in [Threads -> [of : Nat, count : 0..MaxParts]]
  /\ up \in BOOLEAN /\ sigchld \in BOOLEAN
  /\ ends \subseteq End /\ temp \subseteq Threads
  /\ child \in [Threads -> {"none", "forked", "running", "answering", "spilling", "flooding",
                            "exited", "reaped"}]
  /\ held \in [Threads -> SUBSET End]
  /\ code \in [Threads -> {0, 1}]
  /\ link \in [Threads -> Link]
  /\ canned \in [Threads -> [count : 0..MaxCanned, next : 0..(MaxCanned - 1), since : 0..MaxQueries]]

Nothing == [of |-> 0, count |-> 0]

Init ==
  /\ kind \in [Threads -> UNION {Kinds[t] : t \in Threads}]
  /\ \A t \in Threads : kind[t] \in Kinds[t]
  /\ pc = [t \in Threads |-> "idle"]
  /\ result = [t \in Threads |-> "none"]
  /\ given = [t \in Threads |-> Nothing]
  /\ up = TRUE
  /\ ends = {} /\ temp = {} /\ sigchld = FALSE
  /\ child = [t \in Threads |-> "none"]
  /\ held = [t \in Threads |-> {}]
  /\ code = [t \in Threads |-> 0]
  /\ link = [t \in Threads |-> NoLink]
  /\ canned = [t \in Threads |-> [count |-> 0, next |-> 0, since |-> 0]]

At(t, k, here) == up /\ kind[t] = k /\ pc[t] = here
GoTo(t, place) == pc' = [pc EXCEPT ![t] = place]
Returns(t, r) == GoTo(t, "done") /\ result' = [result EXCEPT ![t] = r]

\* Nobody has this end of a pipe open: the daemon or any child.
Closed(e) == e \notin ends /\ \A t \in Threads : e \notin held[t]

\* The child keeps the ends it makes its stdin and stdout, closes the other
\* ends of its own pipes, and has a copy of everything else.
Fork(t, own) ==
  /\ child' = [child EXCEPT ![t] = "forked"]
  /\ held' = [held EXCEPT ![t] = (ends \ Of(t)) \cup own]
  /\ UNCHANGED <<code, sigchld>>

---------------------------------------------------------------------------
(* claude_code_query and claude_code_execute_with_streaming. *)

\* claude_code_connect fails only where no shell can be started.
ClaudeConnect(t) ==
  /\ At(t, "claude", "idle")
  /\ \/ GoTo(t, "connected") /\ UNCHANGED result
     \/ Returns(t, "error")
  /\ UNCHANGED <<kind, given, up, pipes, temp, link, canned>>

PipeIn(t) ==
  /\ At(t, "claude", "connected")
  /\ \/ ends' = ends \cup {In(t, "read"), In(t, "write")} /\ GoTo(t, "piped") /\ UNCHANGED result
     \/ Returns(t, "error") /\ UNCHANGED ends
  /\ UNCHANGED <<kind, given, up, child, held, code, sigchld, temp, link, canned>>

\* Or it fails, and the first pipe is closed.
PipeOut(t) ==
  /\ At(t, "claude", "piped")
  /\ \/ ends' = ends \cup {Out(t, "read"), Out(t, "write")} /\ GoTo(t, "ready") /\ UNCHANGED result
     \/ ends' = ends \ Of(t) /\ Returns(t, "error")
  /\ UNCHANGED <<kind, given, up, child, held, code, sigchld, temp, link, canned>>

ForkClaude(t) ==
  /\ At(t, "claude", "ready")
  /\ Fork(t, {In(t, "read"), Out(t, "write")})
  /\ GoTo(t, "forked")
  /\ UNCHANGED <<kind, result, given, up, ends, temp, link, canned>>

ForkClaudeFailsLeaking(t) ==
  /\ At(t, "claude", "ready")
  /\ Returns(t, "error")
  /\ UNCHANGED <<kind, given, up, pipes, temp, link, canned>>

ForkClaudeFails(t) ==
  /\ At(t, "claude", "ready")
  /\ ends' = ends \ Of(t)
  /\ Returns(t, "error")
  /\ UNCHANGED <<kind, given, up, child, held, code, sigchld, temp, link, canned>>

CloseChildEnds(t) ==
  /\ At(t, "claude", "forked")
  /\ ends' = ends \ {In(t, "read"), Out(t, "write")}
  /\ GoTo(t, "parent")
  /\ UNCHANGED <<kind, result, given, up, child, held, code, sigchld, temp, link, canned>>

\* With no reader left the write raises SIGPIPE, which ends the daemon.
WritePrompt(t) ==
  /\ At(t, "claude", "parent")
  /\ IF Closed(In(t, "read"))
     THEN up' = FALSE /\ ends' = {} /\ UNCHANGED pc
     ELSE GoTo(t, "written") /\ UNCHANGED <<up, ends>>
  /\ UNCHANGED <<kind, result, given, child, held, code, sigchld, temp, link, canned>>

CloseStdinForgotten(t) ==
  /\ At(t, "claude", "written")
  /\ GoTo(t, "reading")
  /\ UNCHANGED <<kind, result, given, up, pipes, temp, link, canned>>

CloseStdin(t) ==
  /\ At(t, "claude", "written")
  /\ ends' = ends \ {In(t, "write")}
  /\ GoTo(t, "reading")
  /\ UNCHANGED <<kind, result, given, up, child, held, code, sigchld, temp, link, canned>>

\* Reads to the end of the output, or until response_content is full.
ReadResponse(t) ==
  /\ At(t, "claude", "reading")
  /\ Closed(Out(t, "write")) \/ child[t] \in {"spilling", "flooding"}
  /\ ends' = ends \ {Out(t, "read")}
  /\ GoTo(t, "waiting")
  /\ UNCHANGED <<kind, result, given, up, child, held, code, sigchld, temp, link, canned>>

\* waitpid; it fails when the signal handler has reaped the child already.
WaitChild(t) ==
  /\ At(t, "claude", "waiting") /\ child[t] \in {"exited", "reaped"}
  /\ child' = [child EXCEPT ![t] = "reaped"]
  /\ IF child[t] = "exited" /\ code[t] = 0
     THEN Returns(t, "ok") /\ given' = [given EXCEPT ![t] = [of |-> 1, count |-> @.count + 1]]
     ELSE Returns(t, "error") /\ UNCHANGED given
  /\ UNCHANGED <<kind, up, ends, held, code, sigchld, temp, link, canned>>

ClaudeStep(t) ==
  \/ ClaudeConnect(t) \/ PipeIn(t) \/ PipeOut(t) \/ ForkClaude(t) \/ ForkClaudeFails(t) \/ CloseChildEnds(t)
  \/ WritePrompt(t) \/ CloseStdin(t) \/ ReadResponse(t) \/ WaitChild(t)

---------------------------------------------------------------------------
(* generic_api_query, api_http_post_json and http_execute. *)

\* generic_api_init; connecting does nothing.
ApiInit(t) ==
  /\ At(t, "api", "idle")
  /\ GoTo(t, "connected")
  /\ UNCHANGED <<kind, result, given, up, pipes, temp, link, canned>>

\* The prompt is too long, or there is no temporary file.
ApiFails(t) ==
  /\ At(t, "api", "connected")
  /\ Returns(t, "error")
  /\ UNCHANGED <<kind, given, up, pipes, temp, link, canned>>

\* The body goes to a temporary file.
ApiBody(t) ==
  /\ At(t, "api", "connected")
  /\ temp' = temp \cup {t}
  /\ GoTo(t, "ready")
  /\ UNCHANGED <<kind, result, given, up, pipes, link, canned>>

\* popen; its pipe is close-on-exec, so the other children do not keep it.
Popen(t) ==
  /\ At(t, "api", "ready")
  /\ Fork(t, {Out(t, "write")})
  /\ GoTo(t, "reading")
  /\ UNCHANGED <<kind, result, given, up, ends, temp, link, canned>>

PopenFails(t) ==
  /\ At(t, "api", "ready")
  /\ temp' = temp \ {t}
  /\ Returns(t, "error")
  /\ UNCHANGED <<kind, given, up, pipes, link, canned>>

\* read_http_response, to the end of curl's output.
ReadHttpResponse(t) ==
  /\ At(t, "api", "reading") /\ Closed(Out(t, "write"))
  /\ GoTo(t, "waiting")
  /\ UNCHANGED <<kind, result, given, up, pipes, temp, link, canned>>

\* pclose and unlink; then the status and the content of the answer.  The exit
\* status of curl is not used.
ApiAnswer(t) ==
  /\ At(t, "api", "waiting") /\ child[t] \in {"exited", "reaped"}
  /\ child' = [child EXCEPT ![t] = "reaped"]
  /\ temp' = temp \ {t}
  /\ \/ /\ Returns(t, "ok")
        /\ given' = [given EXCEPT ![t] = [of |-> 1, count |-> @.count + 1]]
     \/ Returns(t, "error") /\ UNCHANGED given
  /\ UNCHANGED <<kind, up, ends, held, code, sigchld, link, canned>>

ApiStep(t) ==
  \/ ApiInit(t) \/ ApiFails(t) \/ ApiBody(t) \/ Popen(t) \/ PopenFails(t)
  \/ ReadHttpResponse(t) \/ ApiAnswer(t)

---------------------------------------------------------------------------
(* daemon_execute_bash_workflow. *)

FlowPipe(t) ==
  /\ At(t, "flow", "idle")
  /\ \/ ends' = ends \cup {In(t, "read"), In(t, "write")} /\ GoTo(t, "ready") /\ UNCHANGED result
     \/ Returns(t, "error") /\ UNCHANGED ends
  /\ UNCHANGED <<kind, given, up, child, held, code, sigchld, temp, link, canned>>

FlowFork(t) ==
  /\ At(t, "flow", "ready")
  /\ Fork(t, {In(t, "read")})
  /\ GoTo(t, "forked")
  /\ UNCHANGED <<kind, result, given, up, ends, temp, link, canned>>

FlowForkFails(t) ==
  /\ At(t, "flow", "ready")
  /\ ends' = ends \ Of(t)
  /\ Returns(t, "error")
  /\ UNCHANGED <<kind, given, up, child, held, code, sigchld, temp, link, canned>>

\* The write end stays open for input; nothing closes it.
FlowStarted(t) ==
  /\ At(t, "flow", "forked")
  /\ ends' = ends \ {In(t, "read")}
  /\ Returns(t, "ok")
  /\ UNCHANGED <<kind, given, up, child, held, code, sigchld, temp, link, canned>>

FlowStep(t) == FlowPipe(t) \/ FlowFork(t) \/ FlowForkFails(t) \/ FlowStarted(t)

---------------------------------------------------------------------------
(* The children. *)

Exits(t, status) ==
  /\ child' = [child EXCEPT ![t] = "exited"]
  /\ held' = [held EXCEPT ![t] = {}]
  /\ code' = [code EXCEPT ![t] = status]
  /\ sigchld' = TRUE
  /\ UNCHANGED <<kind, pc, result, given, up, ends, temp, link, canned>>

Becomes(t, state) ==
  /\ child' = [child EXCEPT ![t] = state]
  /\ UNCHANGED <<kind, pc, result, given, up, ends, held, code, sigchld, temp, link, canned>>

\* execlp, or its failure.
Exec(t) == child[t] = "forked" /\ (Becomes(t, "running") \/ Exits(t, 1))

\* claude -p reads its prompt to the end of its stdin.
SeesEof(t) == child[t] = "running" /\ kind[t] = "claude" /\ Closed(In(t, "write")) /\ Becomes(t, "answering")

\* It answers and exits; or it answers more than response_content has room for,
\* and the excess fits into the pipe or not.
Answers(t) ==
  /\ child[t] = "answering"
  /\ \/ \E s \in {0, 1} : Exits(t, s)
     \/ Becomes(t, "spilling") \/ Becomes(t, "flooding")

\* Nothing stops a child whose excess is in the pipe; the next write of any
\* other one fails when nobody reads.
Overflows(t) ==
  \/ child[t] = "spilling" /\ \E s \in {0, 1} : Exits(t, s)
  \/ child[t] = "flooding" /\ Closed(Out(t, "read")) /\ Exits(t, 1)

\* curl stops after --max-time.
CurlEnds(t) == child[t] = "running" /\ kind[t] = "api" /\ \E s \in {0, 1} : Exits(t, s)

ScriptEnds(t) == child[t] = "running" /\ kind[t] = "flow" /\ \E s \in {0, 1} : Exits(t, s)

ChildStep(t) == Exec(t) \/ SeesEof(t) \/ Answers(t) \/ Overflows(t) \/ CurlEnds(t)

ReapOne ==
  /\ up /\ sigchld
  /\ sigchld' = FALSE
  /\ LET zombies == {t \in Threads : child[t] = "exited"}
     IN  IF zombies = {} THEN UNCHANGED child
         ELSE child' = [child EXCEPT ![CHOOSE t \in zombies : TRUE] = "reaped"]
  /\ UNCHANGED <<kind, pc, result, given, up, ends, held, code, temp, link, canned>>

\* sigchld_handler: waitpid(-1) until there is no zombie left.
SigchldHandler ==
  /\ up /\ sigchld
  /\ sigchld' = FALSE
  /\ child' = [t \in Threads |-> IF child[t] = "exited" THEN "reaped" ELSE child[t]]
  /\ UNCHANGED <<kind, pc, result, given, up, ends, held, code, temp, link, canned>>

---------------------------------------------------------------------------
(* An ollama provider: one query after the other. *)

rest == <<kind, up, pipes, temp, canned>>

\* ollama_disconnect: what the server sent or will send is lost.
Disconnected(l) == [l EXCEPT !.connected = FALSE, !.asked = 0, !.inbox = <<>>, !.seen = {},
                             !.server = "closed"]

\* ollama_query or ollama_stream is called.
Ask(t) ==
  /\ At(t, "ollama", "idle") /\ link[t].query < MaxQueries
  /\ \E m \in {"query", "stream"} :
       link' = [link EXCEPT ![t] = [link[t] EXCEPT !.query = link[t].query + 1, !.mode = m]]
  /\ result' = [result EXCEPT ![t] = "none"]
  /\ given' = [given EXCEPT ![t] = Nothing]
  /\ GoTo(t, "connect")
  /\ UNCHANGED rest

\* The query ends with an error, and the provider is idle again.
Refuses(t, l) ==
  /\ link' = [link EXCEPT ![t] = l]
  /\ result' = [result EXCEPT ![t] = "error"]
  /\ GoTo(t, "idle")
  /\ UNCHANGED <<given, rest>>

\* ARGO_ENSURE_CONNECTED and connect_to_ollama.
EnsureConnected(t) ==
  /\ At(t, "ollama", "connect")
  /\ \/ /\ link' = [link EXCEPT ![t] = IF @.connected THEN @
                                       ELSE [@ EXCEPT !.connected = TRUE, !.server = "open"]]
        /\ GoTo(t, "build")
        /\ UNCHANGED <<result, given, rest>>
     \/ ~link[t].connected /\ Refuses(t, link[t])

\* build_http_request; a prompt that is too long leaves the connection open.
BuildRequest(t) ==
  /\ At(t, "ollama", "build")
  /\ \/ GoTo(t, "send") /\ UNCHANGED <<result, given, link, rest>>
     \/ Refuses(t, link[t])

SendRequest(t) ==
  /\ At(t, "ollama", "send")
  /\ \/ /\ link[t].server # "reset"
        /\ link' = [link EXCEPT ![t] = [@ EXCEPT !.asked = link[t].query, !.sent = <<>>, !.seen = {}]]
        /\ GoTo(t, "recv")
        /\ UNCHANGED <<result, given, rest>>
     \/ Refuses(t, Disconnected(link[t]))

\* The server answers piece by piece.
Following(l) ==
  LET last == l.sent[Len(l.sent)].part
  IN  CASE l.sent = <<>>              -> {"head"}
        [] l.sent # <<>> /\ last \in {"whole", "done"} -> {}
        [] l.sent # <<>> /\ last = "string" -> {"whole"}
        [] OTHER -> IF l.mode = "query" THEN {"text", "brace", "string", "whole"} ELSE {"token", "long", "done"}

ServerSends(t) ==
  /\ kind[t] = "ollama" /\ link[t].connected /\ link[t].server = "open"
  /\ link[t].asked # 0 /\ Len(link[t].sent) <= MaxParts
  /\ \E p \in Following(link[t]) :
       LET piece == [of |-> link[t].asked, part |-> p]
       IN  link' = [link EXCEPT ![t].sent = Append(@, piece), ![t].inbox = Append(@, piece)]
  /\ UNCHANGED <<pc, result, given, rest>>

ServerCloses(t) ==
  /\ kind[t] = "ollama" /\ link[t].connected /\ link[t].server = "open"
  /\ \E s \in {"closed", "reset"} : link' = [link EXCEPT ![t].server = s]
  /\ UNCHANGED <<pc, result, given, rest>>

\* The loop ends.  A query has its answer if the text of it is complete.
Finish(t, l) ==
  LET complete == {p \in l.seen : l.mode = "query" /\ p.part \in {"string", "whole"}}
  IN  \/ \E p \in complete :
           /\ link' = [link EXCEPT ![t] = Disconnected(l)]
           /\ result' = [result EXCEPT ![t] = "ok"]
           /\ given' = [given EXCEPT ![t] = [of |-> p.of, count |-> @.count + 1]]
           /\ GoTo(t, "idle")
           /\ UNCHANGED rest
      \/ complete = {} /\ Refuses(t, Disconnected(l))

AfterRecv(l) == [l EXCEPT !.inbox = Tail(@), !.seen = @ \cup {Head(l.inbox)}]

\* One recv of ollama_query, with a piece of the answer; the first brace ends it.
RecvQuery(t) ==
  /\ At(t, "ollama", "recv") /\ link[t].inbox # <<>> /\ link[t].mode = "query"
  /\ IF Head(link[t].inbox).part \in {"brace", "whole"} THEN Finish(t, AfterRecv(link[t]))
     ELSE /\ link' = [link EXCEPT ![t] = AfterRecv(link[t])]
          /\ UNCHANGED <<pc, result, given, rest>>

\* One line of a stream: its token is passed on if line and token fit into their
\* buffers, and passed over if not.
RecvStream(t) ==
  /\ At(t, "ollama", "recv") /\ link[t].inbox # <<>> /\ link[t].mode = "stream"
  /\ LET m == Head(link[t].inbox)
     IN  IF m.part = "done"
         THEN /\ link' = [link EXCEPT ![t] = Disconnected(link[t])]
              /\ result' = [result EXCEPT ![t] = "ok"]
              /\ GoTo(t, "idle")
              /\ UNCHANGED <<given, rest>>
         ELSE /\ link' = [link EXCEPT ![t] = AfterRecv(link[t])]
              /\ given' = IF m.part = "token"
                          THEN [given EXCEPT ![t] = [of |-> m.of, count |-> @.count + 1]]
                          ELSE given
              /\ UNCHANGED <<pc, result, rest>>

\* recv returns 0.
RecvEnds(t) ==
  /\ At(t, "ollama", "recv") /\ link[t].inbox = <<>> /\ link[t].server = "closed"
  /\ Finish(t, link[t])

\* recv fails, which may lose what has arrived.
RecvFails(t) ==
  /\ At(t, "ollama", "recv") /\ link[t].server = "reset"
  /\ Refuses(t, Disconnected(link[t]))

RecvTimesOutConnected(t) ==
  /\ At(t, "ollama", "recv")
  /\ Refuses(t, link[t])

\* OLLAMA_TIMEOUT_SECONDS have passed.
RecvTimesOut(t) ==
  /\ At(t, "ollama", "recv")
  /\ Finish(t, link[t])

\* ollama_cleanup
Cleanup(t) ==
  /\ At(t, "ollama", "idle")
  /\ link' = [link EXCEPT ![t] = Disconnected(@)]
  /\ GoTo(t, "done")
  /\ UNCHANGED <<result, given, rest>>

OllamaStep(t) ==
  \/ EnsureConnected(t) \/ BuildRequest(t) \/ SendRequest(t)
  \/ RecvQuery(t) \/ RecvStream(t) \/ RecvEnds(t) \/ RecvFails(t) \/ RecvTimesOut(t)

---------------------------------------------------------------------------
(* The mock provider. *)

\* mock_provider_set_response and mock_provider_set_responses
SetResponses(t) ==
  /\ At(t, "mock", "idle")
  /\ \E n \in 1..MaxCanned : canned' = [canned EXCEPT ![t] = [count |-> n, next |-> 0, since |-> 0]]
  /\ given' = [given EXCEPT ![t] = Nothing]
  /\ result' = [result EXCEPT ![t] = "none"]
  /\ UNCHANGED <<kind, pc, up, pipes, temp, link>>

\* The number of the answer, 0 for the default.
Given(c) == IF c.count > 0 THEN c.next + 1 ELSE 0

\* mock_query cycles through the answers.
MockQuery(t) ==
  /\ At(t, "mock", "idle") /\ canned[t].since < MaxQueries
  /\ given' = [given EXCEPT ![t] = [of |-> Given(canned[t]), count |-> 1]]
  /\ result' = [result EXCEPT ![t] = "ok"]
  /\ canned' = [canned EXCEPT ![t].next = IF canned[t].count > 0 THEN (@ + 1) % canned[t].count ELSE @,
                               ![t].since = @ + 1]
  /\ UNCHANGED <<kind, pc, up, pipes, temp, link>>

\* mock_cleanup
MockCleanup(t) ==
  /\ At(t, "mock", "idle")
  /\ GoTo(t, "done")
  /\ UNCHANGED <<kind, result, given, up, pipes, temp, link, canned>>

---------------------------------------------------------------------------

ThreadStep(t) == ClaudeStep(t) \/ ApiStep(t) \/ FlowStep(t) \/ OllamaStep(t)

Next ==
  \/ \E t \in Threads : \/ ThreadStep(t) \/ ChildStep(t) \/ ScriptEnds(t)
                        \/ Ask(t) \/ Cleanup(t) \/ ServerSends(t) \/ ServerCloses(t)
                        \/ SetResponses(t) \/ MockQuery(t) \/ MockCleanup(t)
  \/ SigchldHandler

\* Threads and processes are scheduled and signals delivered.  claude answers
\* once it has its prompt; nothing makes a script or a server act.
Fairness ==
  /\ \A t \in Threads : WF_vars(ThreadStep(t)) /\ WF_vars(ChildStep(t))
  /\ WF_vars(SigchldHandler)

Spec == Init /\ [][Next]_vars /\ Fairness

---------------------------------------------------------------------------

\* A thread that is done has closed its pipes, its connection and its file,
\* whatever failed on the way; a workflow keeps the write end of its stdin
\* (claude_code_execute_with_streaming, http_execute, ollama_cleanup).
ResourcesReturned ==
  \A t \in Threads : pc[t] = "done" =>
    /\ ends \cap Of(t) \subseteq (IF kind[t] = "flow" THEN {In(t, "write")} ELSE {})
    /\ t \notin temp /\ ~link[t].connected

\* A callback gets an answer to its own query and to no earlier one, once, and
\* exactly when the query succeeds (claude's may be cut to response_content); a
\* stream that succeeds has passed on every token but the ones too long for its
\* buffers, each once; and a mock provider gives its answers in turn
\* (ollama_query, ollama_stream, claude_code_query, generic_api_query, mock_query).
AnswersTrue ==
  \A t \in Threads :
    /\ kind[t] # "ollama" => given[t].count = IF result[t] = "ok" /\ kind[t] # "flow" THEN 1 ELSE 0
    /\ kind[t] = "mock" /\ canned[t].since > 0 /\ canned[t].count > 0 =>
         given[t].of = ((canned[t].since - 1) % canned[t].count) + 1
    /\ kind[t] = "ollama" => given[t].of \in {0, link[t].query}
    /\ kind[t] = "ollama" /\ link[t].mode = "query" =>
         given[t].count = IF result[t] = "ok" THEN 1 ELSE 0
    /\ kind[t] = "ollama" /\ link[t].mode = "stream" /\ result[t] = "ok" =>
         given[t].count = Cardinality({k \in DOMAIN link[t].sent : link[t].sent[k].part = "token"})

\* Another process has an end of t's pipes that keeps t or its child waiting.
Inherited(t) == \E s \in Threads \ {t} : held[s] \cap {In(t, "write"), Out(t, "write"), Out(t, "read")} # {}

\* A thread waits for ever only for an end that another child inherited: there
\* is no other way to hang in the pipes, the wait or the polls.
ThreadsReturn ==
  \A t \in Threads : []<>(pc[t] \in {"idle", "done"} \/ ~up \/ Inherited(t))

\* Every child that exits is reaped, by its thread or by the handler, although
\* several exits may raise one SIGCHLD (sigchld_handler).
ChildrenReaped ==
  \A t \in Threads : child[t] = "exited" ~> child[t] = "reaped" \/ ~up

\* "Close stdin to signal EOF to Claude" (argo_claude_code.c): once the daemon
\* has closed its end, claude sees the end of its prompt.
EofReachesClaude ==
  \A t \in Threads : pc[t] = "reading" /\ child[t] = "running" ~> child[t] # "running" \/ ~up
=============================================================================
