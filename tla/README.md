# TLA+ models of Argo

This directory holds specifications of the parts of Argo whose correctness depends on
the order in which things happen: the daemon that executes workflows, the signal
handler and queue that tell it about finished processes, its background task thread,
the takeover of its port and the commands that talk to it, the providers it forks and
connects to, the registry, life cycle and message socket of CIs, the environment and
configuration a process reads, and the shell scripts that relay a workflow through
a shared state file. TLC checks each of them on small instances; TLAPS proves the
safety properties of all of them for every value of the constants. `PROJECT.json` is the index:
which definition translates which lines, what every run checks, a mutation that breaks
each property, the hazards the properties are aimed at, and the places where the
documentation and the code disagree. Paths below are relative to the repository.

Running:

    tlc -workers 2 -config Lifecycle.cfg MCLifecycle
    tlapm LifecycleProofs.tla

## 1. Inventory of the system

| Component | State it keeps | Operations | What makes it correct |
|---|---|---|---|
| Exit queue, `sigchld_handler` (`src/daemon/argo_daemon_exit_queue.c`, `argo_daemon.c`) | ring of exit codes, two indices, a drop counter | push (signal handler), pop and get_dropped (completion task) | no exit lost, torn, duplicated or reordered between handler and task; every exit is seen or found the queue full |
| Workflow execution and control (`argo_daemon_workflow*.c`, `argo_daemon_tasks.c`) | per entry: state, pid, pipe, retry count, abandon flag | start, abandon, pause, resume, input; completion, retry and timeout tasks | no process without an entry, one process per start at a time, bounded retries, abandoned means not executed again, every exit acted on |
| Workflow registry (`argo_workflow_registry.c`) | linked list of entries, no lock | add, find, list, update_state, remove; save, load, prune (never called) | ids unique; pointers handed out stay valid; no node lost |
| Daemon process (`argo_daemon.c`, `argo_daemon_main.c`), HTTP server (`argo_http_server.c`, `argo_daemon_api_routes.c`), CI query (`argo_daemon_ci_api.c`) | the above; a listening socket, one detached thread per connection | start, kill the owner of the port, bind, accept, route, answer | a takeover keeps a service; what a restart forgets |
| Command lines (`arc/src`, `ci/src`) | where a command is, its connection | probe, start a daemon, one request with a timeout, follow a log, type input | a command starts at most one workflow, and ends |
| Shared services (`argo_shared_services.c`) | table of periodic tasks, running and should_stop flags, one thread | register, unregister, enable, start, stop, destroy | table consistent, stop returns and leaves no thread, every enabled task runs |
| CI registry (`argo_registry.c`, `argo_registry_persistence.c`) | entries with role, port, status; a state file | add, remove, allocate a port, update, save, load | a port has one owner, also after a crash while saving |
| CI life cycle (`argo_lifecycle*.c`) | status, task, missed heartbeats of every CI | create, start, stop, restart, assign, complete, error, heartbeat, check | its status agrees with the registry's; an active CI keeps its port |
| CI message socket (`src/foundation/argo_socket.c`) | table of pollfds, pending requests with deadlines | init, run (poll, accept, read, route, close, time out), send, cleanup | table and open connections agree, a request's callback is called once, nobody is forgotten |
| Providers (`src/providers/*.c`, `src/foundation/argo_http.c`) | pipes and a child per query, a connection, a temporary file, canned answers | connect, query, stream, cleanup | descriptors and files returned, the answer belongs to its query, every child reaped, no thread waits for ever |
| Environment and configuration (`src/foundation/argo_env_*.c`, `argo_config.c`, `argo_init.c`, `argo_daemon_client.c`) | array of variables, list of configuration entries, the daemon's address | load, expand, set, unset, clear, configure, reload, init, exit | the last definition wins, references resolve in any order, configuration and environment belong to one project |
| Workflow relay (`workflows/orchestrator.sh`, `start_workflow.sh`, `phases/*.sh`, `lib/state_file.sh`) | `state.json`, `orchestrator.pid`, git branches and worktrees | start, poll, four phase handlers, builders, edits of the user | no committed work is thrown away, a finished workflow is merged, the relay advances, SIGTERM ends it, one orchestrator per project |
| Workflow libraries (`workflows/lib/*`) | checkpoints, session directories, project registry | create, list, restore, next id | ids unique, the restored checkpoint is the asked one |
| Task tools (`workflows/tools/*`) | - | resolve dependencies, validate | order respects dependencies, cycles reported |
| JSON, YAML, logging, template loader, `argo-term`, templates, utilities, scripts | little or none | input, output, text | out of scope for a state machine |

Interactions. A connection thread of the HTTP server calls the workflow operations
directly. Those fork a script and store its pid in a registry entry. When the script
ends, the kernel sends SIGCHLD, some thread of the daemon runs `sigchld_handler`, which
reaps every zombie and pushes its code into the exit queue. The completion task, which
the shared services thread calls about every five seconds, pops the queue, looks the
pid up in the registry and removes the entry or forks a retry; the timeout task, on the
same thread, signals and flags old workflows. A CI query forks `claude`, or `curl` through
a shell, from the same process, so its children meet the same signal handler, and every child
inherits the descriptors that are open at its fork: the listening socket and other queries'
pipes. `arc` and `ci` start a daemon when none answers, and a starting daemon kills the owner of
its port. The life cycle manager is separate: it
drives the CI registry, through function calls on one thread. The shell relay is
separate again: its processes share only files, git and signals.

Hard behaviours. Threads without locks (registry, exit queue); memory freed by one
thread while another holds a pointer to it; signals that coalesce, are delivered to any
thread and can arrive between any two instructions; a pid stored after the process it
names may have ended; retry against abandon against timeout; ports at their limit; a
crash halfway through a save; read-modify-write of a JSON file by several processes
with one temporary name; kill and relaunch of a script that is waiting for a child; a table
that shifts while a loop walks it; descriptors that outlive their owner in a child; a late
answer on a connection that is used again.
`PROJECT.json` lists forty of these at their lines.

## 2. Modules

| Module | Models | Extends / composes |
|---|---|---|
| `BoundedFifo` | abstract queue: accept, discard when full, take | - |
| `ExitQueue` | ring buffer at the grain of memory accesses, with kernel, handler threads and completion task | refines `BoundedFifo` (`ImplementsFifo`) |
| `ExitQueueProofs` | theorems | `ExitQueue`, TLAPS |
| `WorkflowDaemon`, `WorkflowDaemonProofs` | HTTP threads, services thread, registry, processes, crash and restart | takes the queue as the FIFO that `ExitQueue` implements (`QueueIsFifo`) |
| `SharedServices` | task table and background thread | - |
| `Lifecycle`, `LifecycleProofs` | CI registry, its file, life cycle manager | - |
| `Orchestrator`, `OrchestratorProofs` | state-file relay, start script, handlers, builders, user | - |
| `DaemonService`, `DaemonServiceProofs` | daemons that take over one port, their connection threads, `arc` and `ci` commands, scripts | takes a workflow as one process; `WorkflowDaemon` has its registry |
| `Providers`, `ProvidersProofs` | threads of the daemon with their children, pipes and connections | the signal handler of `ExitQueue` as one step, the start of a workflow as a sequence of forks and closes |
| `SocketServer`, `SocketServerProofs` | event loop, slots, requests, clients | - |
| `Environment` | variables, configuration, files | - |
| `FoundationProofs` | theorems | `SharedServices`, `Environment`, TLAPS |
| `MC*` | instances for TLC | the module they are named after |

### ExitQueue

`entries`, `write_idx`, `read_idx`, `dropped` are the fields of `exit_code_queue_t`;
`hpc`, `hpid`, ... and `cpc`, `cread`, ... are program counters and locals of the handler
threads and of the completion task. One action is one load or store of shared memory:
`PushLoad`, `PushFull`/`PushRoom`, `PushPid`, `PushCode`, `PushValid`, `PushPublish` are
`exit_queue_push`, `PopEmpty`/`PopNonEmpty` to `PopAdvance` are `exit_queue_pop`,
`DropLoad`/`DropStore` and `GetDroppedLoad`/`GetDroppedReset` are the unsynchronised
counter; as the increment races the reset, a dropped exit may go uncounted, and no property
is about the count. The project is built with `-g` and no optimisation, and the model keeps the
order of the C statements. `published`, `popped`, `lost` and `reported` are history.

### WorkflowDaemon

The registry is `linked`, the nodes in the list, over `heap`, what the memory of each
node holds. `workflow_registry_remove` unlinks a node and leaves its contents, and the
next `workflow_registry_add` may be given the same memory, so a stale pointer reads and
writes what it would in C. A search is one step; every test, store and system
call made through a pointer that `workflow_registry_find` returned is another. `workflow_registry_add` and
`workflow_registry_remove` are two steps, the search (`StartAdd`, `StartPipeFails`, `CompletionRemove`, ...:
`Begin`) and the stores that change the list (`Link`, `Unlink`); `updates` has those under way with the nodes
they saw, and `Torn` is what stores made from a stale `head` or `next` may leave in the list. `raced` records that
two updates have overlapped. Processes
are forked, run, are stopped, become zombies, are reaped into the queue (or dropped when
it is full) or are orphaned by the end of the daemon. `DaemonGone` covers both a crash
and the SIGPIPE that a write of input to a finished script raises; `Restart` begins with
the empty registry that `argo_daemon_create` makes. `Ops` says which requests and faults
the environment makes in an instance.

Abstractions: exit codes are success or failure, times are nondeterministic (a workflow
can be found expired at any scan), a pid is used once, the handler's reaping is atomic
(its interleavings are `ExitQueue`'s), the list's order is not kept: of several nodes with one id a
search may find any. The copy of the entry into a new node is part of the step that links it, the number of nodes
in `reg->count` is left out, and a list that a reader copies is one step. A SIGSTOP that the daemon sends to its
own process group, when a stale entry has pid 0, stops the daemon until somebody continues it and is modelled as a delay.

### SharedServices

What is done under `svc->lock` is one step. The background thread releases the lock to
call a task and goes on with its pointer into the table: `ReadFn`, `ReadContext` and
`CallReturns` act on whatever the slot holds by then. A task stands for a function with
its context; time is whether a task is due. One thread starts, stops and destroys the
service, which is how the daemon uses it.

### Lifecycle

`registry` is the CI registry, `cis` the life cycle manager's records, `file` the saved
state, `stale` the CIs whose last heartbeat is too old. Every operation of
`argo_lifecycle.c` is an action together with the registry calls it makes; refused calls
are actions that change nothing. `CrashInSave` loses the process while the file is being
written, which truncates it after any of the entries.

### Orchestrator

`state` and `tmp` are `state.json` and `state.json.tmp`. An update is four steps: the shell
opens and truncates the temporary (`OpenTmp`), jq reads the state (`ReadState`) and writes (`WriteText`), `mv`
renames (`Rename`); `SkipRename` and `DeleteTmp` are what a caller does when jq fails. All writers share the temporary
name, and `job` has the file that each still has open: one writer can rename what another has only truncated
(`Empty`), and write into a file that was renamed to `state.json` meanwhile, over a longer text whose end stays
(`torn`). A state fits one buffer of jq, so that its read and its write are one step each. Each process has a `todo` list of commands; a handler is started by putting its
program there (`DesignProgram`, `DesignBuild`, `Execution`, `MergeBuild`), so updates of
the start script, of two orchestrators and of the user interleave command by command. Fields
on which no decision depends are not kept, but updating them is still a step (`Touch`).
`StopPrevious`, `Launch` and `SavePid` are the tail of `start_workflow.sh`; `CheckPidFile`,
`WritePid`, `Poll`, `ReadOwner`, `ReadNeeded`, `HandlerReturns` and `Cleanup` are
`orchestrator.sh`. `MonitorBuilders` is one pass over the builders: it counts a finished builder whatever
becomes of its update, and does not look again. `MergeBuildFails` are the returns of merge_build.sh that leave the phase as it is.
The user (`ApproveDesign`, `ResolveConflicts`, `NameHandler`) edits
the file as the guides describe.

### DaemonService

`daemon` says where each process of `main` is: kill_existing_daemon (`FindPort`, `KillExisting`,
`Poll`), `Serve`, `BindFails` or `StartFails` (memory, socket, listen, the services thread), and `Dies` when the kernel is done with a killed one. `Holders` are
the processes with the listening socket: a daemon and every script it forked, as the socket is
not close-on-exec. `Listed` is what `lsof` prints, which includes clients. `wire` has one record per
connection, from connect to close; the thread of a connection (`Handle...`, `Reply`) works on it.
SIGPIPE ends the daemon in `ReplyToNobody` (an answer to a client that is gone), `InputSigpipe` (input for a script
that has ended) and `QuerySigpipe` (a prompt for a `claude` that has ended). A command goes through
`Probe`, `Spawn`, `Send` and `Leave` or `TimesOut`; `late` bounds how often a live daemon is too slow.
`pause` and `resume` end before they send anything, as in the code.

### Providers

Each thread of the daemon makes one kind of call: a `claude` query, an API query through `curl`,
ollama queries, mock queries, or the start of a workflow. `ends` are the pipe ends open in the daemon,
`held` those each child has, a copy of `ends` at its fork less what it closes. A read ends when no
process has the write end. The signal handler reaps every exited child, so a thread's `waitpid` may
come too late. A `claude` whose answer is longer than the buffer and the pipe together dies of SIGPIPE; one whose
excess fits the pipe exits 0, and the cut answer is a success ("spilling"). For ollama `link` is the connection with
what the server sent, tagged by the query it
answers; `RecvQuery` is the receive loop of ollama_query and `RecvStream` that of ollama_stream, which skips a "long"
line or token without an error. `up` is lost to SIGPIPE.

### SocketServer

`pollfds` and `nfds` are the table as it is, with the stale `revents` of slots that are not in use;
the loop of `socket_server_run` is one step per slot it handles, `i` and `ready` its index and count.
Clients act between any two steps, and `AcceptFails` is an accept that returns an error. `check_request_timeouts` is one step per request, and its callback
may send another request before the expired one is removed. `answered` is history.

### Environment

`argo_env` is the array of variables in its order, on which the expansion depends: a value is a
sequence of names (references, `Names`) and of pieces of text (`Texts`). A file is the sequence of assignments it
gives or `Missing`. `LoadEnv` does what argo_loadenv does in one step, as no other thread sees the array before the
mutex is released. The loops are recursive functions: `LoadFile` goes through the lines of a file,
`Expansion` through the nested calls of the expansion up to `MaxDepth`, `ExpandAll` through the array, where an
entry is expanded with the values that earlier entries already have. `MaxLen` is the length of the buffer of one expansion, and
`Cut` what it does with a value that is longer. The names begin with `Env` so that the
module can be extended beside `SharedServices`. `config` is the value of the one key in which the sources differ, and `url` the cached address.

## 3. Runs

| Run | Instance | Checks | Outcome |
|---|---|---|---|
| `exit_queue` | ring of 3, one handler thread, 4 children | `TypeOK`, `PopFindsValidEntry`, `NothingLostInOrder`, `ImplementsFifo`, `EveryExitIsHandled` | hold |
| `workflow_daemon` | 2 request threads, 1 id, 2 nodes, 2 starts, 2 processes, all requests but input, all faults | `TypeOK`, `NoUnownedProcess`, `OneProcessPerStart` | hold |
| `workflow_abandon` | 2 request threads, 3 processes, 1 retry allowed, abandon, input and timeout | `AbandonedNeverRetried`, `ExitIsActedOn` | hold |
| `workflow_completion` | 1 request thread | `CompletionDetected` | violated: the exit is popped before the pid is stored |
| `lifecycle` | 2 CIs, 2 roles, one port each | `TypeOK`, `PortsUnique`, `StatusAgrees`, `ActiveKeepsPort` | hold |
| `shared_services` | 3 tasks, 2 slots | `TypeOK`, `NoDuplicates`, `StoppedIsQuiet`, `StopReturns`, `EveryTaskRuns` | hold |
| `orchestrator` | at most 1 builder, 1 start | `TypeOK`, `NoWorkDiscarded`, `FinishedMeansMerged`, `RelayCompletes`, `ExitsOnSignal` | hold |
| `daemon_service` | 2 clients, 2 daemons, 2 workflows, 2 polls, 1 late answer | `StartedOnce`, `ServiceKept`, `CommandsEnd`, `StartersDecide` | hold |
| `providers` | a claude query beside a thread of any kind, 2 queries each | `ResourcesReturned`, `AnswersTrue`, `ThreadsReturn`, `ChildrenReaped` | hold |
| `claude_eof` | two claude queries | `EofReachesClaude` | violated: each child holds the other's stdin open |
| `socket_server` | 3 clients, 4 slots, 2 pending and 3 sent requests | `TypeOK`, `TableAgrees`, `RequestsOnce`, `ClientsServed`, `RequestsEnd` | hold |
| `environment` | 16 file systems, 3 variables, 1 edit | `EnvTypeOK`, `LoadedRight`, `ConfigOfProject` | hold |

A violated run states what a comment or a document of the repository claims;
`PROJECT.json` quotes the line beside the run. Several properties hold only in part, which
their comments say, because the code does not keep the whole.

- `NoUnownedProcess`, `OneProcessPerStart` and `AbandonedNeverRetried` say what holds as long as no two updates of the registry's
  list have overlapped (`~raced`), `ExitIsActedOn` counts such an overlap as an end of the wait. The registry has no lock, and
  without the premise TLC finds `NoUnownedProcess` violated by two starts: both read the same head, the second store
  cuts off the first node, and its script has no entry. What the properties then show is that everything
  else the threads do to each other, the use of freed entries included, forgets no process.
- `AbandonedNeverRetried` is checked without pause requests, with which TLC finds it violated.
- `NothingLostInOrder` is checked with one thread in the handler, and two threads violate it.
- `FinishedMeansMerged` and `RelayCompletes` say what holds as long as `state.json` is not empty or torn (`Spoiled`), which
  two writers of the temporary can make it; updates that are only lost are covered. `TypeOK`, `NoWorkDiscarded` and
  `ExitsOnSignal` hold also when it is.
- `ServiceKept` and `ThreadsReturn` name the exceptions that the code has and exclude every other.

Bounds and why they are enough.

- `exit_queue`: three slots hold two events, so four children make the ring wrap, fill
  and overflow; the statuses are a success, two failures and a death by signal.
- `workflow_daemon`: two starts of one id with two nodes let freed memory be given to
  the next workflow while a request still holds the old pointer; two requests at once
  give every pair of operations. `workflow_abandon` has one process more than the
  retries allow, so that exceeding the bound would be possible. A queue of one lets
  an exit be dropped. Inputs touch only a pipe and the life of the daemon, so they are left to `workflow_abandon`.
  `RacedBound` is a constraint: once two updates of the list have overlapped, a behaviour is followed
  only while threads start workflows and one process was forked, which keeps the instance at 1.7 million states.
  The invariants but `TypeOK` say nothing of what comes after an overlap.
- `lifecycle`: one port for each role makes the second CI of a role meet an exhausted
  range; neighbouring ranges make an off-by-one collide with the other role.
- `shared_services`: a full table and a task behind a removed one. The instance with three
  slots, 738 thousand states, was checked as well and has no error.
- `orchestrator`: one builder, whose merge fails, conflicts or succeeds, beside the updates of the start script, the
  orchestrator and the user. A second builder brings the case that one merges while the other conflicts; with the four
  steps of every update it is beyond TLC, and theorem `WorkOfOneStart` covers any number of builders.
- `daemon_service`: two daemons are a takeover, and the Init with one that serves makes
  it a takeover of a service that is in use; a second workflow is what a repeated start request would make. One
  late answer lets a timeout meet a request that is being carried out. The second client abandons.
- `providers`: two threads are what a race for pipe ends, for a child or for a signal needs; the
  second query of a thread meets what the first left behind. Three parts of an answer are a token, the last
  token and what comes after.
- `socket_server`: three clients are needed for the loop to meet stale events: one is removed, one is accepted
  into a slot with old events, and one is ready and passed over, which leaves the count for the new one. Two
  pending requests fill the table, and a third is sent by a callback. `MaxBusy` keeps all of
  this at once out of the instance: three connections without requests, or one with three.
- `environment`: the files override, refer forwards and backwards, and move ARGO_ROOT. A buffer of three
  parts cuts some of the values. A depth of
  three is what the longest chain of the files needs. `LoadedRight` is about files in which no chain of references
  is cyclic or longer than the limit (`Acyclic`) and all expanded values fit the buffer (`Fits`); an edit of the run can make a cycle.

Deadlock is checked except in `daemon_service` (all commands and daemons have ended) and the runs of `Providers` (threads that are done, or block
each other). `Over` in `Orchestrator` is the stuttering of a project
whose orchestrators have all ended.

Fairness and why the code justifies it.

- `ExitQueue`: the kernel runs every thread and delivers a pending signal. Children are
  not obliged to exit.
- `WorkflowDaemon`: a request or task that has begun goes on; SIGCHLD is delivered. The
  completion task gets strong fairness: the services loop visits every due task in table
  order, so the timeout task on the same thread cannot keep it out. Nothing obliges users to
  send requests or scripts to end.
- `SharedServices`: both threads are scheduled, task functions return, time passes, the
  mutex starves nobody.
- `Orchestrator`: scripts run on, builders end, and what is tried again and again (a
  query of the CI, merge_build's use of the repository, a merge) succeeds in the end. `RelayCompletes` is conditional on
  `UserFairness`, in which the user answers, not every edit of his is lost, and he also names the next handler
  (`NameHandler`), because the phase handlers name two that do not exist (see findings);
  without that condition the relay waits for ever. `ExitsOnSignal` assumes nothing of
  the user.
- `SocketServer`: the program that embeds the library keeps calling `socket_server_run`, and
  deadlines pass; accept() does not fail for ever while a client waits. Clients need not do anything. `RequestsEnd` is conditional on poll timing out
  again and again, as the code looks at deadlines only then.
- `DaemonService`: daemon processes, commands and the connection threads of commands that wait are scheduled; a
  user types, detaches or starts something when he likes, and a script need not end.
- `Providers`: threads are scheduled, children run and signals are delivered; `claude` answers once it has
  its prompt and `curl` stops at its `--max-time`. Scripts and servers need not act: ollama queries
  end by their timeout.
- `Environment` has no liveness property.

## 4. Proofs

| Theorem | Statement |
|---|---|
| `ExitQueueProofs!TypeCorrect` | `Spec => []TypeOK`, any number of handler threads |
| `ExitQueueProofs!NothingLost` | with at most one handler thread, no exit is lost, torn or reordered |
| `ExitQueueProofs!PopNeverFindsInvalid` | the "Should never happen" branch of pop is unreachable |
| `ExitQueueProofs!QueueImplementsFifo` | the ring buffer implements `BoundedFifo` |
| `LifecycleProofs!TypeCorrect`, `PortsStayUnique`, `StatusesAgree`, `ActiveCIsKeepPorts` | the four properties of the run |
| `FoundationProofs!TypeCorrect`, `TableHasNoDuplicates`, `StopLeavesNoThread` | the three invariants of `shared_services` |
| `FoundationProofs!EnvTypeCorrect`, `LoadsAreRight`, `ConfigIsOfProject` | the type invariant and the two action properties of `environment`, for any files, variables and depth limit |
| `WorkflowDaemonProofs!TypeCorrect`, `ProcessesOwned`, `ExecutionsNeverOverlap` | the three invariants of `workflow_daemon`, each as long as no two updates of the list have overlapped |
| `WorkflowDaemonProofs!ExecutionsBounded` | as long as no two updates have overlapped, a start is executed at most `MaxRetries + 1` times |
| `WorkflowDaemonProofs!QueueIsFifo` | whatever happens to the list: until the daemon ends, its exit queue takes only steps of `BoundedFifo` |
| `WorkflowDaemonProofs!NoRetryOfAbandoned` | `"pause" \notin Ops` implies `Spec => AbandonedNeverRetried` |
| `SocketServerProofs!TypeCorrect`, `TableAlwaysAgrees`, `RequestsAnsweredOnce` | the three invariants of the run |
| `DaemonServiceProofs!TypeCorrect`, `AtMostOneStart`, `ServiceSurvives` | the types, `StartedOnce` and the action property `ServiceKept` |
| `ProvidersProofs!TypeCorrect`, `EverythingReturned`, `AnswersAreTrue` | the types, `ResourcesReturned` and `AnswersTrue` |
| `OrchestratorProofs!TypeCorrect` | `Spec => []TypeOK`, any number of starts: the first text of a file is a state or nothing |
| `OrchestratorProofs!WorkNeverDiscarded` | `Spec /\ []NoOverlap => []NoWorkDiscarded`, any number of starts |
| `OrchestratorProofs!WorkOfOneStart` | `NoWorkDiscarded` for `MaxStarts = 1` |
| `OrchestratorProofs!WholeWithOneWriter` | `Spec /\ []OneWriter => []~Spoiled`: the state is never empty or torn when no two updates overlap |

They hold for every queue size, number of children, CIs, roles, ports, tasks, slots, threads, clients,
daemons, workflows, requests, retries, builders, variables and files that the named ASSUMEs of the modules allow.
Those assumptions bound nothing: they say that sizes are natural numbers, that things of different
kinds are different (a null is no node, a client no daemon, a reference no text) and what the files of
`Environment` are made of. A theorem that needs more says so in its
hypothesis, and each such hypothesis is needed: with two threads in the signal handler, with overlapping updates of
the registry's list or of the state file, with pause
requests, or with a second start of the workflow, TLC finds the property violated.

Exit queue. `NothingLostInOrder` is not inductive: it says nothing of a push or a pop that
is under way. The inductive invariant `QueueInv` adds three parts. `WriterInv`: a handler
between load and publish works on the slot at `write_idx`, which is not occupied, and
has stored there what its program counter says. `ReaderInv`: a pop under way concerns
the slot at `read_idx`, which is occupied, and its copy agrees with it. `RingInv`: the
occupied slots, in ring order, hold the pushed events that have not been popped, and all
but the one being cleared are valid. The step from a full to a wrapped ring is isolated
in lemmas about `NextIdx` and `SlotAt` so that no leaf needs modular arithmetic. The
refinement also needs `StageInv`, that an event which is being pushed was not pushed or
discarded before, since a child is reaped once.

Life cycle. `Inv` adds to the type that ports are unique in the registry and in the
file (a restart loads what a crash left there), and that the two statuses agree.
`AllocatedPortIsFree` is the main lemma: whether a port was free or was taken from an
offline CI, nobody else has it afterwards, provided that the ports were unique before.

Shared services. `Inv` adds `ControlInv`: where the controlling thread is determines
`running`, `should_stop` and whether a background thread can exist. `StoppedIsQuiet` alone
is not inductive because stop clears `running` only after the join.

Workflow daemon. `NoUnownedProcess` and `OneProcessPerStart` follow from `ProcessInv`: a process whose
exit the completion task has not seen is in one of three places, the entry of its workflow, the
locals of the thread that forked it and has not stored the pid, or those of the completion task
between the fork of a retry and its store. Each place rules the others out (`StartsInv`: an entry that is
being started has no pid; `ServiceInv`: an entry the completion task works on names a process it has seen
exit). This survives the writes through stale pointers because `HoldsInv` says that the memory they
reach is an entry, whosever it is by then, and those writes touch neither pid nor id. All of it is proved for
behaviours in which no two updates of the list have overlapped, which cannot be undone once it is so: `AloneInv` says
that then at most one update is under way, the list is still the one its search saw, and its stores leave just what the
search meant to (`Torn` is the list itself). `AbandonInv` adds,
for `AbandonedNeverRetried`, that without pause requests an entry whose exit was matched is RUNNING, so an
abandon that comes between the decision to retry and the fork must signal a process that is
reaped, and is refused. `FreshInv` says that a process that was not forked yet belongs to no start.
`ExecutionsBounded` counts: `CountsInv` says that an entry's workflow has been executed at most `retry_count + 1`
times, and at most `retry_count` times while the completion task is between raising the count and the
fork; `FirstForkInv`, that nothing was executed for a start before its first fork. `CountSteps` shows that all
but four actions leave these counts alone, the stores through stale pointers included.
`QueueIsFifo` adds a history variable, the exits taken, to the specification and shows that reaping is `Put` or
`Discard`, the pop is `Take`, and every other step but the end of the daemon is a stutter of `BoundedFifo`. What
`WorkflowDaemon` assumes of the queue is thus what `ExitQueueProofs` proves of the ring buffer. Its invariant, `ExitsInv`,
does not mention the registry, so that the theorem holds also after updates that overlap.

Socket server. `SlotsInv`: the slots in use hold different open connections and every open
connection has one; `BacklogInv`: poll's word about the listener is still true when the loop uses
it. `RequestsInv` is that of the ids given out so far each is pending or answered, in one place. Counting
is left to the last step, where a cardinality is taken of a set that the invariant has described.

Daemon service. A start request has a life of its own once it is sent: the client may time out and be
gone while a connection thread forks the script. `StartInv` follows the request: the client may still
send it, or it is on a connection without an answer, or there is the script, one of them at a time.
`ServiceInv`, that a dying daemon leaves the one that killed it polling, gives `ServiceKept`: of the steps that end a daemon,
the proof goes through all, and those by which the last one goes are the ones that the property names.

Providers. The invariant is about one thread at a time, since threads share the descriptor table but not
the ends in it: `Owned` has the ends, the file and the connection a thread may have at each program
counter, `Once` and `Cycled` what it has passed on, and `Linked` that what an ollama thread has received is a
prefix of what the server sent for this very query, with as many tokens passed on as that prefix has that fit the buffers.

Environment. The actions load and expand whole arrays, so the work is in lemmas about the recursive functions,
and the invariant is little more than the type. Two facts are proved first. `RecursionExists`: a function defined by
recursion over a range of numbers exists and satisfies its equations. `UpTo`: a set of numbers that holds 0 and the
successor of each member below n holds all numbers up to n; it rests on the least element of a set of
naturals and is induction in a form that needs no operator parameter. With
them `LoadMatches` says that after each line of a file, and after each file, the array has the variables assigned
so far, each once, with the value of its last assignment. `LevelsAre` describes the nested calls of the expansion.
The heart is `ExpandsToFinal`, for files whose values fit the buffer (`Fits`), so that nothing is cut: call final the value that a variable has when every reference is replaced for good.
By induction on the rank that `Acyclic` gives, a variable of rank r is final after r levels, whether the
variables it refers to are still raw or have already been overwritten with their final values; hence the order in which
`expand_all_variables` walks the array does not matter (`ExpandAllFinal`) and `LoadsAreRight` follows.
`ConfigIsOfProject` needs only that a file that does not define ARGO_ROOT leaves it (`LoadKeeps`) and that a
value without references survives the expansion (`ExpandAllKeepsPlain`), cut or not.

Relay. `TypeInv` is the type with what makes an update well defined. `JobInv`: who is between open and rename
has the update as its first command and writes what it has read. `FilesInv`: a file is nothing or begins with a state.
Commands about builders exist only when there is a table of builders; a builder runs only while its orchestrator waits for it.
`WorkNeverDiscarded` needs `NoOverlap`, at most one live orchestrator: with a second start, one
builder is enough for TLC to find a branch that the new orchestrator merges and deletes
while the old one's builder still commits to it (the hazard at `start_workflow.sh:93`). It needs nothing of the state
file: a branch is deleted in the step after its merge, by the process that merged it (`GitInv`).
`WholeWithOneWriter` says what exclusion, which nothing provides, would give: `StageInv` follows one update
through its four steps, with jq's refusals, and a temporary that is renamed then holds a whole state.

TLC checked these inductive invariants on small instances as well.

Only model-checked. Liveness and everything that rests on fairness (`EveryExitIsHandled`,
`ExitIsActedOn`, `StopReturns`, `EveryTaskRuns`, `RelayCompletes`, `ExitsOnSignal`, `ClientsServed`,
`RequestsEnd`, `CommandsEnd`, `StartersDecide`, `ThreadsReturn`, `ChildrenReaped`) is out of
the prover's reach. `FinishedMeansMerged`, whose premise `[]~Spoiled` makes it a formula about whole behaviours, is left to TLC as
well. Every other safety property of a passing run is a theorem. Some are narrower than the
model, which their hypotheses or their own premises say: one thread in the signal handler, no two updates of the list at
once, no pause requests, and starts that do not overlap; without it TLC finds each violated.

## 5. Where documentation and code disagree

The findings of `PROJECT.json`, in short: two signal handlers can be in the exit queue at
once; a full queue drops the newest exit, not the oldest; the registry's list is changed by several threads
without a lock and can lose a running workflow; registry entries are freed under
requests; an early exit is never detected; abandon does not signal a paused workflow; the
registry does not survive a restart; completing a task undoes a graceful shutdown, and a
restart of a CI leaves it in shutdown; the task thread uses a slot after releasing its lock;
a launched orchestrator can refuse to run because of its own pid; a second start overlaps the
first; updates of the state file share a temporary and can publish an empty or a torn state; two phase handlers are named that do not exist; builders run one after another.

In the parts around the workflows: a takeover of the port fails while a script of the killed daemon
runs, and may kill a client instead; an answer to a client that is gone ends the daemon; graceful shutdown sets
flags that nothing reads; `arc pause` and `arc resume` never send their request, and `arc states` prints an empty
column; concurrent claude queries can block each other for ever, an answered query fails when the
signal handler reaps first, an API error leaks its response, and streams call a callback of another
type; an ollama stream drops what is too long and succeeds; a new socket client can be closed because of the events of its predecessor, unread data is
dropped at a hang-up, and answers are never matched with requests; a broadcast goes to one CI; a second
`argo_init` keeps the first configuration, `argo_getenv` returns memory another thread may free, and a failed
load leaves its variables to the next; the generated workflow ids repeat after 99.

## 6. Not modelled

JSON and YAML reading, logging, the template loader, help and listing commands, utilities and
`argo-term` read or write text and keep no state others depend on; the syntax of requests and of
lines in files is abstracted to what they say. `argo_claude_process.c` and `argo_claude_memory.c` have no caller.
The messaging functions of the CI registry add statistics to what `SocketServer` has. The
conversation scripts and the older shell libraries run as one process each.
Of the list of the workflow registry `WorkflowDaemon` has the nodes that are linked, not their order; a search or a copy that runs
while another thread changes the list is one step before or after the change, and a walk through freed memory, which is undefined in C, is left out.
Allocation failures and failing mutex calls are left out everywhere. In `Lifecycle` the
history of transitions, in `SharedServices` the two statistics are left out, as nothing
reads them. `workflow_registry_save`, `_load` and `_prune` are not called by the daemon.
The shutdown request and the signal handler of `main` set flags that nothing reads; the daemon
ends by being killed, which `Crash` and `KillDaemon` cover.

## 7. Plan

Done, in the order of importance: `ExitQueue`, `WorkflowDaemon`, `Lifecycle`,
`SharedServices`, `Orchestrator`, `DaemonService`, `Providers`, `SocketServer`, `Environment`, and the
proofs about all of them. Every safety property that a passing run checks is a theorem but `FinishedMeansMerged`. Its proof,
which is left, needs an invariant that says what a handler, the user and a late rename still owe to the state. For several
starts of the relay nothing more is to be had than the types and `WorkNeverDiscarded`: `FinishedMeansMerged`
fails even when start_workflow.sh is only run while no orchestrator is alive, because the second
design may leave out a component whose commits an earlier conflict kept from being merged (TLC, one builder). The rest of what is
left is liveness, which stays with TLC, and the components that section 6 leaves out.
