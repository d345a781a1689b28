--------------------------- MODULE WorkflowDaemon ---------------------------
(***************************************************************************)
(* How argo-daemon runs workflows.  Three kinds of threads share the       *)
(* workflow registry without a lock: one detached thread per HTTP request  *)
(* (start, abandon, pause, resume, input), the shared services thread      *)
(* (completion and timeout tasks), and, through the exit queue, whatever   *)
(* thread executes sigchld_handler.  One step is one search of the         *)
(* registry, or one test, store or system call that uses the entry pointer *)
(* which workflow_registry_find returned.  workflow_registry_add and       *)
(* workflow_registry_remove are two steps each: the search of the list,    *)
(* and the stores that change it.                                          *)
(*                                                                         *)
(* The registry is the set of nodes linked in its list; of several nodes   *)
(* with one id, a search may find any.  A freed node keeps its contents    *)
(* until workflow_registry_add is given its memory.                        *)
(* The exit queue appears as the bounded FIFO of BoundedFifo, with the     *)
(* reaping handler atomic; ExitQueue refines it.  A pid is used once.      *)
(***************************************************************************)
EXTENDS Naturals, Sequences, FiniteSets

CONSTANTS
  Threads,      \* HTTP connection threads
  Workflows,    \* workflow ids that requests name
  Nodes,        \* memory for registry nodes
  Null,         \* the null pointer
  MaxPid,       \* bound: processes forked in a behaviour
  MaxStarts,    \* bound: workflows started in a behaviour
  MaxRetries,   \* DEFAULT_MAX_RETRY_ATTEMPTS
  QueueLen,     \* EXIT_QUEUE_SIZE - 1
  Ops           \* which requests and faults the environment makes

ASSUME BoundsAssumption ==
  /\ MaxPid \in Nat /\ MaxStarts \in Nat /\ MaxRetries \in Nat /\ QueueLen \in Nat
ASSUME OpsAssumption ==
  Ops \subseteq {"abandon", "pause", "resume", "input", "timeout", "crash"}

VARIABLES
  linked,       \* nodes in the registry's list
  allocated,    \* nodes that were allocated and not freed
  updates,      \* additions and removals between their search and their stores
  raced,        \* history: two of them have overlapped
  heap,         \* what each node's memory holds
  status,       \* of each process: where it is in its life
  owner,        \* history: the start (a number) each process was forked for
  termed,       \* processes that were sent SIGTERM, until they are reaped
  exitq,        \* the exit queue: pids and exit codes
  dropped,      \* pids whose exit found the queue full
  tpc, loc,     \* HTTP threads: program counter and locals
  spc, sloc,    \* shared services thread: program counter and locals
  starts,       \* number of successful workflow_registry_add calls
  acked,        \* history: starts whose abandon request was answered with success
  up            \* the daemon process exists

list == <<linked, allocated, updates, raced>>
registry == <<list, heap, starts>>
procs == <<status, owner, termed>>
queue == <<exitq, dropped>>
http == <<tpc, loc>>
service == <<spc, sloc>>
vars == <<registry, procs, queue, http, service, acked, up>>

Pids == 1..MaxPid
Starts == 1..MaxStarts
ExitCodes == {0, 1}               \* success and failure
States == {"PENDING", "RUNNING", "PAUSED", "FAILED"}

(* workflow_entry_t; executor_pid and stdin_pipe are 0 when unset, and a   *)
(* pipe is named by the process that reads it.                             *)
Entry == [id : Workflows, state : States, executor_pid : 0..MaxPid,
          stdin_pipe : 0..MaxPid, retry_count : 0..MaxRetries,
          abandon_requested : BOOLEAN, job : Starts]
ASSUME NullAssumption == Null \notin Threads \cup Nodes \cup Workflows \cup Entry
NewEntry(id) == [id |-> id, state |-> "PENDING", executor_pid |-> 0,
                 stdin_pipe |-> 0, retry_count |-> 0,
                 abandon_requested |-> FALSE, job |-> starts + 1]

(* The environment can only name a process that was not forked before.     *)
NewPids == {p \in Pids : status[p] = "none"}
Alive(p) == status[p] \in {"running", "stopped"}
Unreaped(p) == status[p] \in {"running", "stopped", "zombie"}
\* kill(2) succeeds for a zombie and fails with ESRCH once it is reaped; pid 0
\* names the daemon's whole process group
KillOk(p) == IF p = 0 THEN TRUE ELSE Unreaped(p)

Find(id) == {n \in linked : heap[n].id = id}

NoLoc == [id |-> Null, node |-> Null, pid |-> 0, job |-> 0]
NoTask == [id |-> Null, node |-> Null, pid |-> 0, exit_code |-> 0]

Init ==
  /\ linked = {} /\ allocated = {} /\ updates = {} /\ raced = FALSE
  /\ heap = [n \in Nodes |-> Null]
  /\ status = [p \in Pids |-> "none"]
  /\ owner = [p \in Pids |-> 0]
  /\ termed = {}
  /\ exitq = << >> /\ dropped = {}
  /\ tpc = [t \in Threads |-> "idle"]
  /\ loc = [t \in Threads |-> NoLoc]
  /\ spc = "idle" /\ sloc = NoTask
  /\ starts = 0 /\ acked = {} /\ up = TRUE
-----------------------------------------------------------------------------
(* Thread bookkeeping. *)
Goto(t, pc) == tpc' = [tpc EXCEPT ![t] = pc]
GotoWith(t, pc, l) == Goto(t, pc) /\ loc' = [loc EXCEPT ![t] = l]
Respond(t) == GotoWith(t, "idle", NoLoc)      \* the response ends the thread
At(t, pc) == up /\ tpc[t] = pc

(* workflow_registry_update_state: nothing happens when the id is unknown. *)
UpdateState(id, s) ==
  \/ \E n \in Find(id) : heap' = [heap EXCEPT ![n].state = s]
  \/ Find(id) = {} /\ UNCHANGED heap

(* An addition or removal under way: the thread that makes it (Null for    *)
(* the services thread), its node, and the nodes it saw in the list.       *)
Update == [by : Threads \cup {Null}, node : Nodes, seen : SUBSET Nodes]

Begin(who, n) ==
  /\ updates' = updates \cup {[by |-> who, node |-> n, seen |-> linked]}
  /\ raced' = (raced \/ updates # {})

(* What the stores of an update that saw the nodes `seen' may leave in the *)
(* list: a store to reg->head cuts off the nodes that were linked since,   *)
(* and a stale next pointer leads back to nodes that were unlinked since.  *)
Torn(seen) == {(linked \cap seen) \cup s :
                 s \in SUBSET ((linked \cup seen) \ (linked \cap seen))}

\* node->next = reg->head; reg->head = node
Link(u) ==
  /\ linked' \in {m \cup {u.node} : m \in Torn(u.seen)}
  /\ updates' = updates \ {u}
  /\ UNCHANGED <<allocated, raced>>

\* prev->next = node->next (or the head) and free(node); when prev has left the
\* list meanwhile, the node stays in it
Unlink(u) ==
  /\ \/ linked' \in {m \ {u.node} : m \in Torn(u.seen)}
     \/ linked # u.seen /\ linked' \in Torn(u.seen)
  /\ allocated' = allocated \ {u.node}
  /\ updates' = updates \ {u}
  /\ UNCHANGED raced

(* fork(): the child runs, on behalf of start j. *)
Fork(p, j) ==
  /\ status' = [status EXCEPT ![p] = "running"]
  /\ owner' = [owner EXCEPT ![p] = j]
  /\ UNCHANGED termed

(* kill(p, SIGTERM) *)
Terminate(p) == /\ termed' = termed \cup (IF p = 0 THEN {q \in Pids : Alive(q)} ELSE {p})
                /\ UNCHANGED <<status, owner>>

(* kill(p, SIGSTOP) and kill(p, SIGCONT); sent to the daemon itself they   *)
(* only delay it *)
Signal(p, from, to) ==
  status' = [q \in Pids |-> IF p \in {0, q} /\ status[q] = from THEN to ELSE status[q]]
-----------------------------------------------------------------------------
(* POST /api/workflow/start: daemon_execute_bash_workflow *)

\* workflow_registry_add: E_DUPLICATE when the id is taken
StartDuplicate(t, id) ==
  /\ At(t, "idle") /\ Find(id) # {}
  /\ UNCHANGED vars

\* the id is free, and calloc gives the memory of a node
StartAdd(t, id) ==
  /\ At(t, "idle") /\ Find(id) = {}
  /\ starts < MaxStarts
  /\ \E n \in Nodes \ allocated : Begin(t, n) /\ allocated' = allocated \cup {n}
  /\ GotoWith(t, "start_link", [NoLoc EXCEPT !.id = id])
  /\ UNCHANGED <<linked, heap, starts, procs, queue, service, acked, up>>

\* the entry is copied into the node and the node is linked; two additions may
\* have found the id free
StartLink(t) ==
  /\ At(t, "start_link") /\ starts < MaxStarts
  /\ \E u \in updates :
       /\ u.by = t /\ Link(u)
       /\ heap' = [heap EXCEPT ![u.node] = NewEntry(loc[t].id)]
  /\ starts' = starts + 1
  /\ GotoWith(t, "start_fork", [loc[t] EXCEPT !.job = starts + 1])
  /\ UNCHANGED <<procs, queue, service, acked, up>>

\* pipe() failed: workflow_registry_remove searches the list
StartPipeFails(t) ==
  /\ At(t, "start_fork")
  /\ \/ \E n \in Find(loc[t].id) : Begin(t, n) /\ Goto(t, "start_unlink") /\ UNCHANGED loc
     \/ Find(loc[t].id) = {} /\ Respond(t) /\ UNCHANGED <<updates, raced>>
  /\ UNCHANGED <<linked, allocated, heap, starts, procs, queue, service, acked, up>>

StartUnlink(t) ==
  /\ At(t, "start_unlink")
  /\ \E u \in updates : u.by = t /\ Unlink(u)
  /\ Respond(t)
  /\ UNCHANGED <<heap, starts, procs, queue, service, acked, up>>

\* fork() failed: workflow_registry_update_state(FAILED)
StartForkFails(t) ==
  /\ At(t, "start_fork")
  /\ UpdateState(loc[t].id, "FAILED")
  /\ Respond(t)
  /\ UNCHANGED <<list, starts, procs, queue, service, acked, up>>

StartFork(t) ==
  /\ At(t, "start_fork")
  /\ \E p \in NewPids :
       /\ Fork(p, loc[t].job)
       /\ GotoWith(t, "start_running", [loc[t] EXCEPT !.pid = p])
  /\ UNCHANGED <<registry, queue, service, acked, up>>

\* workflow_registry_update_state(RUNNING)
StartRunning(t) ==
  /\ At(t, "start_running")
  /\ UpdateState(loc[t].id, "RUNNING")
  /\ Goto(t, "start_pid")
  /\ UNCHANGED <<list, starts, loc, procs, queue, service, acked, up>>

\* mutable_entry->executor_pid = pid, if workflow_registry_find has found the entry
StartStorePid(t) ==
  /\ At(t, "start_pid")
  /\ \/ \E n \in Find(loc[t].id) :
          /\ heap' = [heap EXCEPT ![n].executor_pid = loc[t].pid]
          /\ GotoWith(t, "start_pipe", [loc[t] EXCEPT !.node = n])
     \/ Find(loc[t].id) = {} /\ UNCHANGED heap /\ Respond(t)
  /\ UNCHANGED <<list, starts, procs, queue, service, acked, up>>

\* mutable_entry->stdin_pipe = pipe_fds[1]
StartStorePipe(t) ==
  /\ At(t, "start_pipe")
  /\ heap' = [heap EXCEPT ![loc[t].node].stdin_pipe = loc[t].pid]
  /\ Respond(t)
  /\ UNCHANGED <<list, starts, procs, queue, service, acked, up>>
-----------------------------------------------------------------------------
(* Every other request starts with workflow_registry_find. *)
FirstPc == [abandon |-> "abandon_flag", pause |-> "pause_test",
            resume |-> "resume_test", input |-> "input_test"]

RequestNotFound(t, op, id) ==
  /\ At(t, "idle") /\ op \in Ops /\ Find(id) = {}
  /\ UNCHANGED vars

RequestFind(t, op, id) ==
  /\ At(t, "idle") /\ op \in Ops
  /\ \E n \in Find(id) :
       GotoWith(t, FirstPc[op], [id |-> id, node |-> n, pid |-> 0,
                                 job |-> heap[n].job])
  /\ UNCHANGED <<registry, procs, queue, service, acked, up>>

Held(t) == heap[loc[t].node]      \* *entry, wherever the pointer now leads

(* DELETE /api/workflow/abandon/{id} *)

AbandonFlag(t) ==
  /\ At(t, "abandon_flag")
  /\ heap' = [heap EXCEPT ![loc[t].node].abandon_requested = TRUE]
  /\ Goto(t, "abandon_test")
  /\ UNCHANGED <<list, starts, loc, procs, queue, service, acked, up>>

\* entry->executor_pid > 0 && entry->state == WORKFLOW_STATE_RUNNING
MustKill(t) == Held(t).executor_pid > 0 /\ Held(t).state = "RUNNING"

AbandonNothingToKill(t) ==
  /\ At(t, "abandon_test") /\ ~MustKill(t)
  /\ acked' = acked \cup {loc[t].job}
  /\ Respond(t)
  /\ UNCHANGED <<registry, procs, queue, service, up>>

AbandonTest(t) ==
  /\ At(t, "abandon_test") /\ MustKill(t)
  /\ Goto(t, "abandon_kill")
  /\ UNCHANGED <<registry, loc, procs, queue, service, acked, up>>

AbandonKill(t) ==
  /\ At(t, "abandon_kill")
  /\ KillOk(Held(t).executor_pid)
  /\ Terminate(Held(t).executor_pid)
  /\ acked' = acked \cup {loc[t].job}
  /\ Respond(t)
  /\ UNCHANGED <<registry, queue, service, up>>

\* mutant: a process that is already gone counts as killed
AbandonKillIgnoresError(t) ==
  /\ At(t, "abandon_kill")
  /\ ~KillOk(Held(t).executor_pid)
  /\ acked' = acked \cup {loc[t].job}
  /\ Respond(t)
  /\ UNCHANGED <<registry, procs, queue, service, up>>

\* 500: the flag stays set
AbandonKillFails(t) ==
  /\ At(t, "abandon_kill")
  /\ ~KillOk(Held(t).executor_pid)
  /\ Respond(t)
  /\ UNCHANGED <<registry, procs, queue, service, acked, up>>

(* POST /api/workflow/pause/{id} and /resume/{id} *)

PauseTest(t) ==
  /\ At(t, "pause_test")
  /\ IF Held(t).state = "RUNNING"
       THEN Goto(t, "pause_pid") /\ UNCHANGED loc
       ELSE Respond(t)
  /\ UNCHANGED <<registry, procs, queue, service, acked, up>>

\* entry->executor_pid > 0
PausePid(t) ==
  /\ At(t, "pause_pid")
  /\ Goto(t, IF Held(t).executor_pid > 0 THEN "pause_kill" ELSE "pause_set")
  /\ UNCHANGED <<registry, loc, procs, queue, service, acked, up>>

\* kill(SIGSTOP) of the pid the entry now has
PauseKill(t) ==
  /\ At(t, "pause_kill")
  /\ LET p == Held(t).executor_pid IN
     \/ KillOk(p) /\ Signal(p, "running", "stopped") /\ Goto(t, "pause_set") /\ UNCHANGED loc
     \/ ~KillOk(p) /\ Respond(t) /\ UNCHANGED status
  /\ UNCHANGED <<registry, owner, termed, queue, service, acked, up>>

PauseSet(t) ==
  /\ At(t, "pause_set")
  /\ heap' = [heap EXCEPT ![loc[t].node].state = "PAUSED"]
  /\ Respond(t)
  /\ UNCHANGED <<list, starts, procs, queue, service, acked, up>>

ResumeTest(t) ==
  /\ At(t, "resume_test")
  /\ IF Held(t).state = "PAUSED"
       THEN Goto(t, "resume_pid") /\ UNCHANGED loc
       ELSE Respond(t)
  /\ UNCHANGED <<registry, procs, queue, service, acked, up>>

\* entry->executor_pid > 0
ResumePid(t) ==
  /\ At(t, "resume_pid")
  /\ Goto(t, IF Held(t).executor_pid > 0 THEN "resume_kill" ELSE "resume_set")
  /\ UNCHANGED <<registry, loc, procs, queue, service, acked, up>>

\* kill(SIGCONT) of the pid the entry now has
ResumeKill(t) ==
  /\ At(t, "resume_kill")
  /\ LET p == Held(t).executor_pid IN
     \/ KillOk(p) /\ Signal(p, "stopped", "running") /\ Goto(t, "resume_set") /\ UNCHANGED loc
     \/ ~KillOk(p) /\ Respond(t) /\ UNCHANGED status
  /\ UNCHANGED <<registry, owner, termed, queue, service, acked, up>>

ResumeSet(t) ==
  /\ At(t, "resume_set")
  /\ heap' = [heap EXCEPT ![loc[t].node].state = "RUNNING"]
  /\ Respond(t)
  /\ UNCHANGED <<list, starts, procs, queue, service, acked, up>>

(* POST /api/workflow/input/{id} *)

\* refused in another state, without a pipe, and when the body has no input
InputTest(t) ==
  /\ At(t, "input_test")
  /\ \/ /\ Held(t).state \in {"RUNNING", "PAUSED"} /\ Held(t).stdin_pipe > 0
        /\ Goto(t, "input_write") /\ UNCHANGED loc
     \/ Respond(t)
  /\ UNCHANGED <<registry, procs, queue, service, acked, up>>

\* what the script has started may read the pipe longer than the script itself
InputWrite(t) ==
  /\ At(t, "input_write")
  /\ Respond(t)
  /\ UNCHANGED <<registry, procs, queue, service, acked, up>>

(* What is left when the daemon process ends: its threads, its registry    *)
(* and its exit queue are gone, the children are adopted by init.          *)
DaemonGone ==
  /\ up' = FALSE
  /\ linked' = {} /\ allocated' = {} /\ updates' = {}
  /\ heap' = [n \in Nodes |-> Null]
  /\ status' = [p \in Pids |-> IF Alive(p) THEN "orphan"
                               ELSE IF status[p] = "zombie" THEN "reaped" ELSE status[p]]
  /\ exitq' = << >>
  /\ tpc' = [t \in Threads |-> "idle"] /\ loc' = [t \in Threads |-> NoLoc]
  /\ spc' = "idle" /\ sloc' = NoTask
  /\ UNCHANGED <<raced, starts, owner, termed, dropped, acked>>

\* write() to a pipe nobody reads raises SIGPIPE, which the daemon does not
\* handle; descriptor 0 is its own standard input
InputSigpipe(t) ==
  /\ At(t, "input_write")
  /\ Held(t).stdin_pipe # 0 /\ ~Alive(Held(t).stdin_pipe)
  /\ DaemonGone

\* kill_existing_daemon of a second daemon, or any other end of the process
Crash == up /\ "crash" \in Ops /\ DaemonGone

\* argo_daemon_create: an empty registry; workflow_registry_load is not called
Restart == ~up /\ up' = TRUE /\ UNCHANGED <<registry, procs, queue, http, service, acked>>
-----------------------------------------------------------------------------
(* The children and sigchld_handler. *)

ProcessExits(p) ==
  /\ status[p] = "running"
  /\ status' = [status EXCEPT ![p] = "zombie"]
  /\ UNCHANGED <<registry, owner, termed, queue, http, service, acked, up>>

OrphanExits(p) ==
  /\ status[p] = "orphan"
  /\ status' = [status EXCEPT ![p] = "reaped"]
  /\ UNCHANGED <<registry, owner, termed, queue, http, service, acked, up>>

\* mutant: waitpid with WUNTRACED, a stopped child is taken for an ended one
ReapStopped(p) ==
  /\ up /\ status[p] \in {"zombie", "stopped"}
  /\ status' = [status EXCEPT ![p] = IF @ = "zombie" THEN "reaped" ELSE @]
  /\ \E c \in ExitCodes : exitq' = Append(exitq, [pid |-> p, exit_code |-> c])
  /\ Len(exitq) < QueueLen
  /\ UNCHANGED <<registry, owner, termed, dropped, http, service, acked, up>>

\* waitpid, which reports the exit code, and exit_queue_push
Reap(p) ==
  /\ up /\ status[p] = "zombie"
  /\ status' = [status EXCEPT ![p] = "reaped"]
  /\ termed' = termed \ {p}
  /\ IF Len(exitq) < QueueLen
       THEN /\ \E c \in ExitCodes : exitq' = Append(exitq, [pid |-> p, exit_code |-> c])
            /\ UNCHANGED dropped
       ELSE dropped' = dropped \cup {p} /\ UNCHANGED exitq
  /\ UNCHANGED <<registry, owner, http, service, acked, up>>
-----------------------------------------------------------------------------
(* workflow_completion_task, on the shared services thread. *)
SAt(pc) == up /\ spc = pc
SGoto(pc, l) == spc' = pc /\ sloc' = l

CompletionPop ==
  /\ SAt("idle") /\ exitq # << >>
  /\ SGoto("match", [NoTask EXCEPT !.pid = Head(exitq).pid,
                                  !.exit_code = Head(exitq).exit_code])
  /\ exitq' = Tail(exitq)
  /\ UNCHANGED <<registry, procs, dropped, http, acked, up>>

\* entry->executor_pid == exit_entry.pid && entry->state == RUNNING, in the
\* snapshot that workflow_registry_list returned
Matches(p) == {n \in linked : heap[n].executor_pid = p /\ heap[n].state = "RUNNING"}

CompletionUnmatched ==
  /\ SAt("match") /\ Matches(sloc.pid) = {}
  /\ SGoto("idle", NoTask)
  /\ UNCHANGED <<registry, procs, queue, http, acked, up>>

CompletionMatch ==
  /\ SAt("match")
  /\ \E n \in Matches(sloc.pid) : SGoto("decide", [sloc EXCEPT !.id = heap[n].id])
  /\ UNCHANGED <<registry, procs, queue, http, acked, up>>

\* mutant: the entry of an abandoned workflow is left in the registry
DecideKeepsAbandoned ==
  /\ SAt("decide")
  /\ \E n \in Find(sloc.id) :
       SGoto(IF heap[n].abandon_requested THEN "idle"
             ELSE IF sloc.exit_code = 0 THEN "remove" ELSE "failed", sloc)
  /\ UNCHANGED <<registry, procs, queue, http, acked, up>>

\* abandon_requested or exit code 0: remove; else handle_workflow_failure
CompletionDecide ==
  /\ SAt("decide")
  /\ \E n \in Find(sloc.id) :
       SGoto(IF heap[n].abandon_requested \/ sloc.exit_code = 0 THEN "remove"
                                                               ELSE "failed", sloc)
  /\ UNCHANGED <<registry, procs, queue, http, acked, up>>

\* the entry is no longer in the registry
CompletionNotFound ==
  /\ up /\ spc \in {"decide", "failed", "remove"} /\ Find(sloc.id) = {}
  /\ SGoto("idle", NoTask)
  /\ UNCHANGED <<registry, procs, queue, http, acked, up>>

\* workflow_registry_remove searches the list
CompletionRemove ==
  /\ SAt("remove")
  /\ \E n \in Find(sloc.id) : Begin(Null, n)
  /\ SGoto("unlink", sloc)
  /\ UNCHANGED <<linked, allocated, heap, starts, procs, queue, http, acked, up>>

CompletionUnlink ==
  /\ SAt("unlink")
  /\ \E u \in updates : u.by = Null /\ Unlink(u)
  /\ SGoto("idle", NoTask)
  /\ UNCHANGED <<heap, starts, procs, queue, http, acked, up>>

\* mutant: retry_count <= max_retries
FailureRetryOnceMore ==
  /\ SAt("failed")
  /\ \E n \in Find(sloc.id) :
       /\ heap[n].retry_count <= MaxRetries
       /\ heap' = [heap EXCEPT ![n].retry_count = @ + 1]
       /\ SGoto("fork", [sloc EXCEPT !.node = n])
  /\ UNCHANGED <<list, starts, procs, queue, http, acked, up>>

\* retry_count < max_retries: retry_count++
FailureRetry ==
  /\ SAt("failed")
  /\ \E n \in Find(sloc.id) :
       /\ heap[n].retry_count < MaxRetries
       /\ heap' = [heap EXCEPT ![n].retry_count = @ + 1]
       /\ SGoto("fork", [sloc EXCEPT !.node = n])
  /\ UNCHANGED <<list, starts, procs, queue, http, acked, up>>

FailureNoRetry ==
  /\ SAt("failed")
  /\ \E n \in Find(sloc.id) : heap[n].retry_count >= MaxRetries
  /\ SGoto("remove", sloc)
  /\ UNCHANGED <<registry, procs, queue, http, acked, up>>

\* retry_workflow_execution: the child sleeps and executes the script again
RetryFork ==
  /\ SAt("fork")
  /\ \E p \in NewPids :
       /\ Fork(p, heap[sloc.node].job)
       /\ SGoto("store", [sloc EXCEPT !.pid = p])
  /\ UNCHANGED <<registry, queue, http, acked, up>>

RetryForkFails ==
  /\ SAt("fork")
  /\ SGoto("idle", NoTask)
  /\ UNCHANGED <<registry, procs, queue, http, acked, up>>

\* mutable_entry->executor_pid = retry_pid
RetryStorePid ==
  /\ SAt("store")
  /\ heap' = [heap EXCEPT ![sloc.node].executor_pid = sloc.pid]
  /\ SGoto("rerun", sloc)
  /\ UNCHANGED <<list, starts, procs, queue, http, acked, up>>

RetryRunning ==
  /\ SAt("rerun")
  /\ UpdateState(sloc.id, "RUNNING")
  /\ SGoto("idle", NoTask)
  /\ UNCHANGED <<list, starts, procs, queue, http, acked, up>>
-----------------------------------------------------------------------------
(* workflow_timeout_task, on the same thread, for one entry of its          *)
(* snapshot that has run for longer than its timeout.                       *)

TimeoutFound ==
  /\ SAt("idle") /\ "timeout" \in Ops
  /\ \E n \in linked :
       /\ heap[n].state = "RUNNING"
       /\ SGoto("expired", [NoTask EXCEPT !.id = heap[n].id, !.pid = heap[n].executor_pid])
  /\ UNCHANGED <<registry, procs, queue, http, acked, up>>

TimeoutKill ==
  /\ SAt("expired")
  /\ IF sloc.pid > 0 /\ KillOk(sloc.pid) THEN Terminate(sloc.pid) ELSE UNCHANGED procs
  /\ SGoto("expire_flag", sloc)
  /\ UNCHANGED <<registry, queue, http, acked, up>>

\* mutant: a workflow that timed out is removed without waiting for its exit
TimeoutRemoves ==
  /\ SAt("expire_flag")
  /\ linked' = linked \ Find(sloc.id) /\ allocated' = allocated \ Find(sloc.id)
  /\ SGoto("idle", NoTask)
  /\ UNCHANGED <<updates, raced, heap, starts, procs, queue, http, acked, up>>

TimeoutFlag ==
  /\ SAt("expire_flag")
  /\ \/ \E n \in Find(sloc.id) : heap' = [heap EXCEPT ![n].abandon_requested = TRUE]
     \/ Find(sloc.id) = {} /\ UNCHANGED heap
  /\ SGoto("idle", NoTask)
  /\ UNCHANGED <<list, starts, procs, queue, http, acked, up>>
-----------------------------------------------------------------------------
Request(t, id) ==
  \/ StartDuplicate(t, id) \/ StartAdd(t, id)
  \/ \E op \in DOMAIN FirstPc : RequestNotFound(t, op, id) \/ RequestFind(t, op, id)

Start(t) == \/ StartLink(t) \/ StartPipeFails(t) \/ StartUnlink(t)
            \/ StartForkFails(t) \/ StartFork(t)
            \/ StartRunning(t) \/ StartStorePid(t) \/ StartStorePipe(t)
Abandon(t) == \/ AbandonFlag(t) \/ AbandonNothingToKill(t) \/ AbandonTest(t)
              \/ AbandonKill(t) \/ AbandonKillFails(t)
Control(t) == \/ PauseTest(t) \/ PausePid(t) \/ PauseKill(t) \/ PauseSet(t)
              \/ ResumeTest(t) \/ ResumePid(t) \/ ResumeKill(t) \/ ResumeSet(t)
              \/ InputTest(t) \/ InputWrite(t) \/ InputSigpipe(t)
Serve(t) == Start(t) \/ Abandon(t) \/ Control(t)

Completion == \/ CompletionPop \/ CompletionUnmatched \/ CompletionMatch
              \/ CompletionDecide \/ CompletionNotFound
              \/ CompletionRemove \/ CompletionUnlink
              \/ FailureRetry \/ FailureNoRetry
              \/ RetryFork \/ RetryForkFails \/ RetryStorePid \/ RetryRunning
Timeout == TimeoutFound \/ TimeoutKill \/ TimeoutFlag

Next == \/ \E t \in Threads : Serve(t) \/ \E id \in Workflows : Request(t, id)
        \/ \E p \in Pids : Reap(p) \/ OrphanExits(p) \/ ProcessExits(p)
        \/ Completion \/ Timeout
        \/ Crash \/ Restart

Spec == Init /\ [][Next]_vars

(* A thread that has begun a request or a task goes on and SIGCHLD is       *)
(* delivered.  The loop of the services thread gives every registered task  *)
(* its turn, so timeouts cannot starve the completion task: strong fairness.*)
Fairness == /\ \A t \in Threads : WF_vars(Serve(t))
            /\ \A p \in Pids : WF_vars(Reap(p))
            /\ SF_vars(Completion) /\ WF_vars(TimeoutKill \/ TimeoutFlag)
FairSpec == Spec /\ Fairness
-----------------------------------------------------------------------------
ListTypes ==
  /\ allocated \subseteq Nodes /\ updates \subseteq Update /\ raced \in BOOLEAN
StateTypes ==
  /\ linked \subseteq Nodes
  /\ heap \in [Nodes -> Entry \cup {Null}]
  /\ status \in [Pids -> {"none", "running", "stopped", "zombie", "reaped", "orphan"}]
  /\ owner \in [Pids -> 0..MaxStarts]
  /\ termed \subseteq Pids /\ dropped \subseteq Pids
  /\ exitq \in Seq([pid : Pids, exit_code : ExitCodes])
  /\ tpc \in [Threads -> {"idle", "start_link", "start_unlink", "start_fork",
       "start_running", "start_pid", "start_pipe", "abandon_flag", "abandon_test",
       "abandon_kill", "pause_test", "pause_pid", "pause_kill", "pause_set",
       "resume_test", "resume_pid", "resume_kill", "resume_set", "input_test",
       "input_write"}]
  /\ loc \in [Threads -> [id : Workflows \cup {Null}, node : Nodes \cup {Null},
                          pid : 0..MaxPid, job : 0..MaxStarts]]
  /\ spc \in {"idle", "match", "decide", "remove", "unlink", "failed", "fork", "store",
              "rerun", "expired", "expire_flag"}
  /\ sloc \in [id : Workflows \cup {Null}, node : Nodes \cup {Null},
               pid : 0..MaxPid, exit_code : ExitCodes]
  /\ starts \in 0..MaxStarts /\ acked \subseteq Starts /\ up \in BOOLEAN

\* Every variable keeps the type its C declaration and the bounds give it, also
\* when updates of the list overlap; in particular retry_count never exceeds
\* max_retries.
TypeOK == ListTypes /\ StateTypes

Registered(j) == \E n \in linked : heap[n].job = j
Processes(j) == {p \in Pids : owner[p] = j}

\* As long as no two updates of the list overlap, a child that is not reaped
\* belongs to a workflow that is still in the registry: the completion task never
\* forgets a workflow whose process lives, and no stale entry pointer, timeout or
\* failed start makes it do so.  (Updates that overlap can cut the entry of a
\* running script out of the list: the registry has no lock.)
NoUnownedProcess ==
  ~raced => \A p \in Pids : Unreaped(p) => Registered(owner[p])

\* Retries never overlap while updates of the list do not: of the processes
\* forked for one start, at most one has an exit that the completion task has not
\* seen.
OneProcessPerStart ==
  ~raced => \A j \in Starts :
    Cardinality({p \in Processes(j) : Unreaped(p) \/ \E i \in DOMAIN exitq : exitq[i].pid = p})
      <= 1

\* Once an abandon request has been answered with success, the workflow is
\* not executed again, however the request is interleaved with the exit of its
\* process and with handle_workflow_failure.  Pause requests are left out of the
\* run: of a paused workflow the request asks neither for a live process nor for SIGTERM.
AbandonedNeverRetried ==
  [][~raced' => \A j \in acked : Processes(j) # {} => Processes(j)' = Processes(j)]_vars

\* p is the process of a running workflow that has been retried k times
Executes(p, k) == \E n \in linked : /\ heap[n].state = "RUNNING"
                                    /\ heap[n].executor_pid = p
                                    /\ heap[n].retry_count = k

\* The exit of the process of a running workflow is acted on: the workflow is
\* removed, or a retry is counted and attempted, unless the exit did not fit
\* into the exit queue.
ExitIsActedOn ==
  \A p \in Pids, k \in 0..MaxRetries :
    (status[p] = "zombie" /\ Executes(p, k)) ~> (~Executes(p, k) \/ p \in dropped \/ raced)

-----------------------------------------------------------------------------
(* What the repository says of the daemon and the code does not keep. *)

\* "Detects workflow completion by checking if executor process still exists":
\* a workflow whose process has ended is removed or given another process.
CompletionDetected ==
  \A p \in Pids :
    (status[p] = "reaped" /\ \E n \in linked : heap[n].executor_pid = p)
      ~> ~ \E n \in linked : heap[n].executor_pid = p
=============================================================================
