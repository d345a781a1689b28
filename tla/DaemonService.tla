--------------------------- MODULE DaemonService ---------------------------
(***************************************************************************)
(* The daemon as a service: the processes that share its TCP port.         *)
(*                                                                         *)
(* A client is one arc or ci process: it probes the daemon, starts one if  *)
(* the probe fails (arc_ensure_daemon_running), sends its requests and     *)
(* ends.  A daemon is one argo-daemon process: it kills a process on its   *)
(* port (kill_existing_daemon), binds, and serves each connection on a     *)
(* thread (http_server_start, handle_connection).  A flow is one workflow  *)
(* script that a daemon forked.                                            *)
(*                                                                         *)
(* Sockets are not close-on-exec, so a script holds the listening socket   *)
(* of the daemon that forked it: while it runs the port accepts            *)
(* connections that nobody answers, and no other daemon can bind.          *)
(*                                                                         *)
(* Times are abstracted: a timeout may happen at any moment, except that a *)
(* process that got SIGKILL is gone before the last poll for the port.     *)
(* SIGPIPE is not ignored, so a write to a peer that has gone may end the  *)
(* daemon.  Where memory runs out in a client or a thread is left out.     *)
(***************************************************************************)
EXTENDS Naturals, Sequences, FiniteSets

CONSTANTS
  Clients, Daemons, Flows,
  None,         \* no daemon, no flow, no client
  Named,        \* bound: the flows whose id users type
  Commands,     \* what the user of each client may run
  MaxPolls,     \* DAEMON_PORT_FREE_MAX_ATTEMPTS
  MaxLines,     \* bound: lines typed into each client
  MaxLate       \* bound: answers that come after the client gave up

ASSUME ServiceBounds == MaxPolls \in Nat \ {0} /\ MaxLines \in [Clients -> Nat] /\ MaxLate \in Nat

VARIABLES
  daemon,   \* where the main thread of each daemon process is
  polls,    \* attempt of kill_existing_daemon
  client,   \* where each client is: its command, the workflow it names or was
            \* given, the request it is sending, lines typed
  wire,     \* connections to the port: requests sent and not answered
  flow,     \* the scripts
  late      \* history: answers that clients did not wait for

vars == <<daemon, polls, client, wire, flow, late>>

\* 200, or any other status: clients only print the difference.
Statuses == {"none", "ok", "refused"}
Ends == {"ok", "error", "shot"}
Requests == {"health", "start", "status", "list", "abandon", "input", "query"}

\* None is no name, and no two processes are the same.
ASSUME ServiceNames ==
  /\ Named \subseteq Flows /\ None \notin Clients \cup Daemons \cup Flows \cup Requests
  /\ Daemons \cap (Clients \cup Flows) = {} /\ Clients \cap Flows = {}

Flow == [state : {"none", "forked", "running", "ended", "removed"},
         by : Daemons \cup {None}, for : Clients \cup {None}]
Connection == [from : Clients, req : Requests, flow : Flows \cup {None}, to : Daemons,
               open : BOOLEAN, status : Statuses]
Client == [pc : {"idle", "ensure", "spawning", "sleeping", "connect",
                 "asking", "found", "attached"} \cup Ends,
           cmd : (UNION {Commands[c] : c \in Clients}) \cup {None}, flow : Flows \cup {None}, req : Requests,
           lines : Nat]

\* A process that has not started, or that has ended.
Inactive(place) == [pc |-> place, cmd |-> None, flow |-> None, req |-> "health", lines |-> 0]

TypeOK ==
  /\ daemon \in [Daemons -> {"unborn", "starting", "found", "polling", "binding",
                             "serving", "dying", "dead"}]
  /\ polls \in [Daemons -> 0..MaxPolls]
  /\ client \in [Clients -> Client]
  /\ wire \subseteq Connection
  /\ flow \in [Flows -> Flow]
  /\ late \in 0..MaxLate

Init ==
  /\ \E s \in {"unborn", "serving"}, e \in {CHOOSE d \in Daemons : TRUE} :
       daemon = [d \in Daemons |-> IF d = e THEN s ELSE "unborn"]
  /\ polls = [d \in Daemons |-> 0]
  /\ client = [c \in Clients |-> Inactive("idle")]
  /\ wire = {}
  /\ flow = [w \in Flows |-> [state |-> "none", by |-> None, for |-> None]]
  /\ late = 0

---------------------------------------------------------------------------
(* The port. *)

Alive(w) == flow[w].state \in {"forked", "running"}

\* Processes with the listening socket that d made.
Holders(d) == (IF daemon[d] \in {"serving", "dying"} THEN {d} ELSE {})
                \cup {w \in Flows : Alive(w) /\ flow[w].by = d}

PortInUse == \E d \in Daemons : Holders(d) # {}

\* The socket that a connect reaches.
Listening == CHOOSE d \in Daemons : Holders(d) # {}

\* lsof -ti tcp:PORT lists both ends of every connection.
Listed == (UNION {Holders(d) : d \in Daemons}) \cup {m.from : m \in {n \in wire : n.open}}

OpenOf(c) == {m \in wire : m.from = c /\ m.open}

\* Connections of clients that are gone, whose thread is still in the daemon.
Abandoned(S) == {[m EXCEPT !.open = FALSE] : m \in {n \in S : daemon[n.to] = "serving"}}

At(c, place) ==
  client' = [client EXCEPT ![c] = IF place \in Ends THEN Inactive(place)
                                  ELSE [@ EXCEPT !.pc = place]]

---------------------------------------------------------------------------
(* argo-daemon: main and kill_existing_daemon. *)

\* A new process; which one it is makes no difference.
Born ==
  /\ \E d \in Daemons : daemon[d] = "unborn"
  /\ daemon' = [daemon EXCEPT ![CHOOSE d \in Daemons : daemon[d] = "unborn"] = "starting"]

\* A user starts a daemon by hand.
RunDaemon ==
  /\ Born
  /\ UNCHANGED <<polls, client, wire, flow, late>>

\* kill_existing_daemon connects, and closes the connection.
FindPort(d) ==
  /\ daemon[d] = "starting"
  /\ daemon' = [daemon EXCEPT ![d] = IF PortInUse THEN "found" ELSE "binding"]
  /\ UNCHANGED <<polls, client, wire, flow, late>>

\* SIGKILL for the first process that lsof lists; the list is sorted by pid.
KillDaemon(d, e) ==
  /\ e \in Daemons \cap Listed
  /\ daemon' = [daemon EXCEPT ![d] = "polling", ![e] = "dying"]
  /\ wire' = {m \in wire : m.open \/ m.to # e}
  /\ UNCHANGED <<client, flow>>

KillClient(d, c) ==
  /\ c \in Clients \cap Listed
  /\ daemon' = [daemon EXCEPT ![d] = "polling"]
  /\ client' = [client EXCEPT ![c] = Inactive("shot")]
  /\ wire' = {m \in wire : m.from # c \/ ~m.open} \cup Abandoned(OpenOf(c))
  /\ UNCHANGED flow

KillScript(d, w) ==
  /\ w \in Flows \cap Listed
  /\ daemon' = [daemon EXCEPT ![d] = "polling"]
  /\ flow' = [flow EXCEPT ![w].state = "ended"]
  /\ UNCHANGED <<client, wire>>

KillNobody(d) ==
  /\ Listed = {}
  /\ daemon' = [daemon EXCEPT ![d] = "polling"]
  /\ UNCHANGED <<client, wire, flow>>

KillExistingNoPoll(d) ==
  /\ daemon[d] = "found"
  /\ \E e \in Daemons \cap Listed :
       /\ daemon' = [daemon EXCEPT ![d] = "binding", ![e] = "dying"]
       /\ wire' = {m \in wire : m.open \/ m.to # e}
  /\ UNCHANGED <<polls, client, flow, late>>

KillExisting(d) ==
  /\ daemon[d] = "found"
  /\ \/ \E p \in Listed : KillDaemon(d, p) \/ KillClient(d, p) \/ KillScript(d, p)
     \/ KillNobody(d)
  /\ UNCHANGED <<polls, late>>

PollUntilFree(d) ==
  /\ daemon[d] = "polling" /\ ~PortInUse
  /\ daemon' = [daemon EXCEPT ![d] = "binding"]
  /\ UNCHANGED <<polls, client, wire, flow, late>>

\* Waits for the port, at most MaxPolls times.
Poll(d) ==
  /\ daemon[d] = "polling"
  /\ IF PortInUse /\ polls[d] + 1 < MaxPolls
     THEN /\ polls' = [polls EXCEPT ![d] = @ + 1]
          /\ UNCHANGED daemon
     ELSE /\ ~\E e \in Daemons : daemon[e] = "dying"
          /\ daemon' = [daemon EXCEPT ![d] = "binding"]
          /\ polls' = [polls EXCEPT ![d] = 0]
  /\ UNCHANGED <<client, wire, flow, late>>

\* http_server_start: bind and listen succeed.
Bindable(d) == daemon[d] = "binding" /\ ~PortInUse

\* argo_daemon_start: the routes, the services thread, and the accept loop.
Serve(d) ==
  /\ Bindable(d)
  /\ daemon' = [daemon EXCEPT ![d] = "serving"]
  /\ UNCHANGED <<polls, client, wire, flow, late>>

\* argo_daemon_destroy: the services thread is stopped and the process ends.
Destroy(d) == daemon' = [daemon EXCEPT ![d] = "dead"]

\* A bad option or no HOME; or, after the kill, argo_daemon_create, the services
\* thread, socket or listen fails although the port is free.  main returns 1.
StartFails(d) ==
  /\ daemon[d] = "starting" \/ Bindable(d)
  /\ Destroy(d)
  /\ UNCHANGED <<polls, client, wire, flow, late>>

\* The port is taken: http_server_start fails and main returns 1.
BindFails(d) ==
  /\ daemon[d] = "binding" /\ ~Bindable(d)
  /\ Destroy(d)
  /\ UNCHANGED <<polls, client, wire, flow, late>>

\* The kernel closes the sockets of a killed daemon.
Dies(d) ==
  /\ daemon[d] = "dying"
  /\ daemon' = [daemon EXCEPT ![d] = "dead"]
  /\ UNCHANGED <<polls, client, wire, flow, late>>

---------------------------------------------------------------------------
(* The threads of a daemon: handle_connection, one thread per connection. *)

Message ==
  [health  |-> [method |-> "HEAD",   path |-> <<"api", "health">>],
   start   |-> [method |-> "POST",   path |-> <<"api", "workflow", "start">>],
   list    |-> [method |-> "GET",    path |-> <<"api", "workflow", "list">>],
   status  |-> [method |-> "GET",    path |-> <<"api", "workflow", "status", "id">>],
   abandon |-> [method |-> "DELETE", path |-> <<"api", "workflow", "abandon", "id">>],
   input   |-> [method |-> "POST",   path |-> <<"api", "workflow", "input", "id">>],
   query   |-> [method |-> "POST",   path |-> <<"api", "ci", "query">>]]

BasicRoutes == <<
  [method |-> "GET",    path |-> <<"api", "health">>,              handler |-> "health"],
  [method |-> "GET",    path |-> <<"api", "version">>,             handler |-> "version"],
  [method |-> "POST",   path |-> <<"api", "shutdown">>,            handler |-> "shutdown"]>>

ApiRoutes == <<
  [method |-> "POST",   path |-> <<"api", "workflow", "start">>,   handler |-> "start"],
  [method |-> "GET",    path |-> <<"api", "workflow", "list">>,    handler |-> "list"],
  [method |-> "GET",    path |-> <<"api", "workflow", "status">>,  handler |-> "status"],
  [method |-> "DELETE", path |-> <<"api", "workflow", "abandon">>, handler |-> "abandon"],
  [method |-> "POST",   path |-> <<"api", "workflow", "pause">>,   handler |-> "pause"],
  [method |-> "POST",   path |-> <<"api", "workflow", "resume">>,  handler |-> "resume"],
  [method |-> "POST",   path |-> <<"api", "workflow", "input">>,   handler |-> "input"],
  [method |-> "GET",    path |-> <<"api", "registry", "ci">>,      handler |-> "registry"],
  [method |-> "POST",   path |-> <<"api", "ci", "query">>,         handler |-> "query"]>>

\* The table as http_server_add_route fills it.
Routes == BasicRoutes \o ApiRoutes

\* http_method_from_string: a HEAD request has no method that a route could have.
Method(str) == IF str \in {"GET", "POST", "DELETE", "PUT"} THEN str ELSE "UNKNOWN"

\* find_route: the first route with the method whose path is the request's,
\* or a prefix of it that ends at a separator.
FindRoute(request) ==
  LET Fits(k) == LET p == Routes[k].path
                 IN  /\ Routes[k].method = Method(request.method)
                     /\ Len(p) <= Len(request.path) /\ SubSeq(request.path, 1, Len(p)) = p
      fitting == {k \in DOMAIN Routes : Fits(k)}
  IN  IF fitting = {} THEN None
      ELSE Routes[CHOOSE k \in fitting : \A l \in fitting : k <= l].handler

HandlerOf == [r \in Requests |-> FindRoute(Message[r])]

\* A connection that a thread of its daemon has not answered yet.
Reading(m, handler) ==
  /\ m \in wire /\ m.status = "none" /\ daemon[m.to] = "serving"
  /\ HandlerOf[m.req] = handler
Done(m, status, w) ==
  wire' = (wire \ {m}) \cup {[m EXCEPT !.status = status, !.flow = w]}

\* SIGPIPE: the thread that serves m ends its process, with all its threads.
Sigpipe(m) ==
  /\ daemon' = [daemon EXCEPT ![m.to] = "dead"]
  /\ wire' = {n \in wire : n.open \/ n.to # m.to}
  /\ UNCHANGED <<polls, client, flow, late>>

Known(d, w) == w # None /\ flow[w].by = d /\ flow[w].state \in {"forked", "running", "ended"}

NotFound(m) == Reading(m, None) /\ Done(m, "refused", m.flow) /\ UNCHANGED flow

\* The one read of the connection returned the headers without the body.
MissingBody(m) ==
  /\ \E h \in {"start", "input", "query"} : Reading(m, h)
  /\ Done(m, "refused", m.flow) /\ UNCHANGED flow

\* generate_workflow_id: an id that no workflow in the list has.
NewId(w) == w = CHOOSE v \in Flows : flow[v].state = "none"

HandleStart(m) ==
  /\ Reading(m, "start")
  /\ \E w \in Flows :
       /\ flow[w].state = "none" /\ NewId(w)
       /\ flow' = [flow EXCEPT ![w] = [state |-> "forked", by |-> m.to, for |-> m.from]]
       /\ Done(m, "ok", w)

\* The id is taken, or fork or pipe fails.
HandleStartFails(m) ==
  /\ Reading(m, "start")
  /\ Done(m, "refused", None)
  /\ UNCHANGED flow

HandleStatus(m) ==
  /\ Reading(m, "status")
  /\ Done(m, IF Known(m.to, m.flow) THEN "ok" ELSE "refused", m.flow)
  /\ UNCHANGED flow

HandleList(m) == Reading(m, "list") /\ Done(m, "ok", m.flow) /\ UNCHANGED flow

\* SIGTERM; kill fails for a script that was reaped.
HandleAbandon(m) ==
  /\ Reading(m, "abandon")
  /\ IF Known(m.to, m.flow) /\ Alive(m.flow)
     THEN flow' = [flow EXCEPT ![m.flow].state = "ended"] /\ Done(m, "ok", m.flow)
     ELSE Done(m, "refused", m.flow) /\ UNCHANGED flow

HandleInput(m) ==
  /\ Reading(m, "input")
  /\ \/ Known(m.to, m.flow) /\ Alive(m.flow) /\ Done(m, "ok", m.flow)
     \/ Done(m, "refused", m.flow)
  /\ UNCHANGED flow

\* The workflow is in the list, and nothing reads the standard input of its script.
InputSigpipe(m) ==
  /\ Reading(m, "input")
  /\ Known(m.to, m.flow) /\ flow[m.flow].state # "forked"
  /\ Sigpipe(m)

\* No query in the body or an unknown provider; a provider that fails.
HandleQuery(m) ==
  /\ Reading(m, "query")
  /\ \E s \in {"ok", "refused"} : Done(m, s, m.flow)
  /\ UNCHANGED flow

\* claude has ended, or could not be executed, before it read its prompt.
QuerySigpipe(m) == Reading(m, "query") /\ Sigpipe(m)

Handle(m) ==
  /\ \/ NotFound(m) \/ MissingBody(m) \/ HandleStart(m) \/ HandleStartFails(m)
     \/ HandleStatus(m) \/ HandleList(m) \/ HandleAbandon(m) \/ HandleInput(m) \/ HandleQuery(m)
  /\ UNCHANGED <<daemon, polls, client, late>>

\* What a client does next: a workflow that was started is attached, and a
\* line that was typed leaves the client attached whatever the answer.
After(c, m) ==
  CASE m.req = "input"  -> [client[c] EXCEPT !.pc = "attached"]
    [] m.req = "start" /\ m.status = "ok" ->
         [client[c] EXCEPT !.pc = "ensure", !.req = "status", !.flow = m.flow]
    [] m.req = "status" /\ m.status = "ok" /\ client[c].cmd # "status" ->
         [client[c] EXCEPT !.pc = "found"]
    [] OTHER -> Inactive(IF m.status = "ok" THEN "ok" ELSE "error")

Reply(m) ==
  /\ m \in wire /\ m.status # "none" /\ m.open /\ daemon[m.to] = "serving"
  /\ wire' = wire \ {m}
  /\ client' = [client EXCEPT ![m.from] = After(m.from, m)]
  /\ UNCHANGED <<daemon, polls, flow, late>>

\* The client has left: the writes are lost, or the second one ends the daemon.
ReplyToNobody(m) ==
  /\ m \in wire /\ m.status # "none" /\ ~m.open /\ daemon[m.to] = "serving"
  /\ \/ wire' = wire \ {m} /\ UNCHANGED <<daemon, polls, client, flow, late>>
     \/ Sigpipe(m)

---------------------------------------------------------------------------
(* The scripts. *)

\* The child redirects its output: the log file exists from now on.
ScriptLogs(w) ==
  /\ flow[w].state = "forked"
  /\ flow' = [flow EXCEPT ![w].state = "running"]
  /\ UNCHANGED <<daemon, polls, client, wire, late>>

ScriptEnds(w) ==
  /\ flow[w].state = "running"
  /\ flow' = [flow EXCEPT ![w].state = "ended"]
  /\ UNCHANGED <<daemon, polls, client, wire, late>>

\* workflow_completion_task
Complete(w) ==
  /\ flow[w].state = "ended" /\ daemon[flow[w].by] = "serving"
  /\ flow' = [flow EXCEPT ![w].state = "removed"]
  /\ UNCHANGED <<daemon, polls, client, wire, late>>

---------------------------------------------------------------------------
(* arc and ci. *)

Failed(c) == IF client[c].req = "input" THEN "attached" ELSE "error"

\* A command ends before it reaches the daemon.
EndsEarly(c, k, place) ==
  /\ client[c].pc = "idle" /\ k \in Commands[c]
  /\ At(c, place)
  /\ UNCHANGED <<daemon, polls, wire, flow, late>>

\* Or it begins with a request, about a workflow that the user names.
Begins(c, k, r, W) ==
  /\ client[c].pc = "idle" /\ k \in Commands[c]
  /\ \E w \in W : client' = [client EXCEPT ![c] = [@ EXCEPT !.pc = "ensure", !.cmd = k,
                                                             !.flow = w, !.req = r]]
  /\ UNCHANGED <<daemon, polls, wire, flow, late>>

\* No such template; or the start request.
ArcStart(c) == EndsEarly(c, "start", "error") \/ Begins(c, "start", "start", {None})
ArcAttach(c) == Begins(c, "attach", "status", Named)
ArcStatus(c) == EndsEarly(c, "status", "error") \/ Begins(c, "status", "status", Named)
ArcList(c) == Begins(c, "list", "list", {None})
ArcStates(c) == Begins(c, "states", "list", {None})
\* The user does not confirm; or the request.
ArcAbandon(c) == EndsEarly(c, "abandon", "ok") \/ Begins(c, "abandon", "abandon", Named)
\* Both give arc_http_post no body, which it refuses.
ArcPause(c) == EndsEarly(c, "pause", "error")
ArcResume(c) == EndsEarly(c, "resume", "error")
CiQuery(c) == EndsEarly(c, "query", "error") \/ Begins(c, "query", "query", {None})

Invoke(c) ==
  \/ ArcStart(c) \/ ArcAttach(c) \/ ArcStatus(c) \/ ArcList(c) \/ ArcStates(c)
  \/ ArcAbandon(c) \/ ArcPause(c) \/ ArcResume(c) \/ CiQuery(c)

\* is_daemon_running: a HEAD request that any answer satisfies.
Probe(c) ==
  /\ client[c].pc \in {"ensure", "sleeping"}
  /\ \E d \in Daemons : daemon[d] = "serving"
  /\ At(c, "connect")
  /\ UNCHANGED <<daemon, polls, wire, flow, late>>

\* The connection is refused, nobody answers, or the daemon takes too long
\* and answers a client that has left.
ProbeFails(c) ==
  /\ client[c].pc \in {"ensure", "sleeping"}
  /\ IF \E d \in Daemons : daemon[d] = "serving"
     THEN /\ late < MaxLate /\ late' = late + 1
          /\ wire' = wire \cup {[from |-> c, req |-> "health", flow |-> None,
                                 to |-> Listening, open |-> FALSE, status |-> "none"]}
     ELSE UNCHANGED <<wire, late>>
  /\ At(c, IF client[c].pc = "ensure" THEN "spawning" ELSE Failed(c))
  /\ UNCHANGED <<daemon, polls, flow>>

\* start_daemon: fork, exec and sleep; exec may fail in the child.
Spawn(c) ==
  /\ client[c].pc = "spawning"
  /\ \/ Born
     \/ UNCHANGED daemon
  /\ At(c, "sleeping")
  /\ UNCHANGED <<polls, wire, flow, late>>

SpawnFails(c) ==
  /\ client[c].pc = "spawning"
  /\ At(c, Failed(c))
  /\ UNCHANGED <<daemon, polls, wire, flow, late>>

Send(c, method) ==
  /\ client[c].pc = "connect" /\ Message[client[c].req].method = method
  /\ IF PortInUse
     THEN /\ At(c, "asking")
          /\ wire' = wire \cup {[from |-> c, req |-> client[c].req, flow |-> client[c].flow,
                                 to |-> Listening, open |-> TRUE, status |-> "none"]}
     ELSE /\ At(c, Failed(c))
          /\ UNCHANGED wire
  /\ UNCHANGED <<daemon, polls, flow, late>>

HttpGet(c) == Send(c, "GET")
HttpPost(c) == client[c].req # "query" /\ Send(c, "POST")
HttpDelete(c) == Send(c, "DELETE")
CiHttpPost(c) == client[c].req = "query" /\ Send(c, "POST")

\* The client closes its connection.  A thread that serves it goes on.
Leave(c) ==
  /\ wire' = {m \in wire : m.from # c \/ ~m.open} \cup Abandoned(OpenOf(c))
  /\ IF Abandoned(OpenOf(c)) = {} THEN UNCHANGED late ELSE late < MaxLate /\ late' = late + 1

TimesOutOnReset(c) ==
  /\ client[c].pc = "asking"
  /\ \E m \in wire : m.from = c /\ m.open /\ Holders(m.to) = {}
  /\ Leave(c)
  /\ At(c, Failed(c))
  /\ UNCHANGED <<daemon, polls, flow>>

TimesOutAndRetries(c) ==
  /\ client[c].pc = "asking"
  /\ Leave(c)
  /\ At(c, "ensure")
  /\ UNCHANGED <<daemon, polls, flow>>

\* No answer in time, or the connection is reset.
TimesOut(c) ==
  /\ client[c].pc = "asking"
  /\ Leave(c)
  /\ At(c, Failed(c))
  /\ UNCHANGED <<daemon, polls, flow>>

\* The log of the workflow, which the script makes when it begins.
OpenLog(c) ==
  /\ client[c].pc = "found"
  /\ At(c, IF flow[client[c].flow].state = "forked" THEN "error" ELSE "attached")
  /\ UNCHANGED <<daemon, polls, wire, flow, late>>

TypeLine(c) ==
  /\ client[c].pc = "attached" /\ client[c].lines < MaxLines[c]
  /\ client' = [client EXCEPT ![c].pc = "ensure", ![c].req = "input",
                               ![c].lines = @ + 1]
  /\ UNCHANGED <<daemon, polls, wire, flow, late>>

Detach(c) ==
  /\ client[c].pc = "attached"
  /\ At(c, "ok")
  /\ UNCHANGED <<daemon, polls, wire, flow, late>>

---------------------------------------------------------------------------

DaemonStep(d) ==
  \/ FindPort(d) \/ KillExisting(d) \/ Poll(d) \/ Serve(d)
  \/ StartFails(d) \/ BindFails(d) \/ Dies(d)

ClientStep(c) ==
  \/ Probe(c) \/ ProbeFails(c) \/ Spawn(c) \/ SpawnFails(c)
  \/ HttpGet(c) \/ HttpPost(c) \/ HttpDelete(c) \/ CiHttpPost(c) \/ TimesOut(c) \/ OpenLog(c)

Next ==
  \/ RunDaemon
  \/ \E d \in Daemons : DaemonStep(d)
  \/ \E m \in wire :
       Handle(m) \/ InputSigpipe(m) \/ QuerySigpipe(m) \/ Reply(m) \/ ReplyToNobody(m)
  \/ \E w \in Flows : ScriptLogs(w) \/ ScriptEnds(w) \/ Complete(w)
  \/ \E c \in Clients :
       Invoke(c) \/ ClientStep(c) \/ TypeLine(c) \/ Detach(c)

\* Processes and threads are scheduled.  Nothing makes a user act or a script end.
Fairness ==
  /\ \A d \in Daemons : WF_vars(DaemonStep(d))
  /\ \A c \in Clients :
       WF_vars(ClientStep(c)) /\ WF_vars(\E m \in OpenOf(c) : Handle(m) \/ Reply(m))

Spec == Init /\ [][Next]_vars /\ Fairness

---------------------------------------------------------------------------

\* A start command starts at most one workflow, whatever fails on the way and
\* whoever replaces the daemon: arc_http_post sends its request once.
StartedOnce ==
  \A c \in Clients : Cardinality({w \in Flows : flow[w].for = c}) <= 1

Working == \E d \in Daemons : daemon[d] \notin {"unborn", "dead"}
Orphaned == \E w \in Flows : Alive(w) /\ daemon[flow[w].by] = "dead"

\* The steps of one daemon that end it, whatever the others do.
Perishes ==
  \/ \E m \in wire : InputSigpipe(m) \/ QuerySigpipe(m) \/ ReplyToNobody(m)
  \/ \E d \in Daemons : StartFails(d)

\* The takeover of the port does not lose the service.  The last daemon is gone
\* only after SIGPIPE, in a start that fails for want of a resource, or because a
\* script of a dead daemon keeps the port: never because a daemon killed another
\* one and then found the port taken (kill_existing_daemon polls before
\* http_server_start binds).
ServiceKept == [][Working /\ ~Working' => Orphaned \/ Perishes]_vars

\* Every command ends or is attached, even when the port accepts connections
\* that no process will answer (the timeouts of arc_http_client.c).
CommandsEnd ==
  \A c \in Clients : client[c].pc # "idle" ~> client[c].pc \in Ends \cup {"attached"}

\* A daemon that was started serves, gives up or is killed: its wait for the
\* port is bounded (DAEMON_PORT_FREE_MAX_ATTEMPTS).
StartersDecide ==
  \A d \in Daemons : daemon[d] = "starting" ~> daemon[d] \in {"serving", "dead"}
=============================================================================
