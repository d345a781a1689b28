------------------------ MODULE WorkflowDaemonProofs ------------------------
(***************************************************************************)
(* Proofs about WorkflowDaemon, for any number of connection threads,      *)
(* workflows, registry nodes, processes, starts and retries, and any       *)
(* length of the exit queue.  As long as no two updates of the list have   *)
(* overlapped: the types, that the process of a workflow is never          *)
(* forgotten, that the processes of one start never overlap and are at     *)
(* most one more than the retries allowed, and that without pause requests *)
(* an abandoned workflow is not retried.  And in any behaviour, that the   *)
(* exit queue is the FIFO that ExitQueue implements.                       *)
(***************************************************************************)
EXTENDS WorkflowDaemon, FiniteSetTheorems, TLAPS

USE DEF list

-----------------------------------------------------------------------------
(* The inductive invariant.                                                *)
(*                                                                         *)
(* A process whose exit the completion task has not seen is in one of      *)
(* three places: its pid is in the entry of its workflow, or the thread    *)
(* that forked it has not stored the pid yet, or the completion task has   *)
(* not.  Each place rules the other two out, because an entry that is      *)
(* being started has no pid yet, and one the completion task works on has  *)
(* the pid of a process whose exit was seen.                               *)

\* threads in daemon_execute_bash_workflow that have not stored the pid, and
\* those of them that have forked
Starting == {"start_unlink", "start_fork", "start_running", "start_pid"}
Forked == {"start_running", "start_pid"}
\* threads that use an entry pointer, and those in api_workflow_abandon
Abandoning == {"abandon_flag", "abandon_test", "abandon_kill"}
Pausing == {"pause_test", "pause_pid", "pause_kill", "pause_set"}
Resuming == {"resume_pid", "resume_kill", "resume_set"}
Holding == {"start_pipe", "resume_test", "input_test", "input_write"}
             \cup Abandoning \cup Pausing \cup Resuming
\* the completion task between the match of an exit and the store of the
\* retried process
Working == {"decide", "remove", "unlink", "failed", "fork", "store"}

Queued(p) == \E i \in DOMAIN exitq : exitq[i].pid = p
Unseen(p) == Unreaped(p) \/ Queued(p)
Seen(p) == p \in Pids /\ status[p] = "reaped" /\ ~Queued(p)

RegistryInv ==
  /\ \A n \in linked : heap[n] \in Entry /\ heap[n].job <= starts
  /\ \A n, m \in linked : n # m => /\ heap[n].id # heap[m].id
                                   /\ heap[n].job # heap[m].job

QueueInv ==
  /\ \A i \in DOMAIN exitq : status[exitq[i].pid] = "reaped"
  /\ \A i, k \in DOMAIN exitq : exitq[i].pid = exitq[k].pid => i = k

\* the entry that thread t is starting is registered and has no process yet
StartsEntry(t) == \E n \in linked : /\ heap[n].id = loc[t].id
                                    /\ heap[n].job = loc[t].job
                                    /\ heap[n].executor_pid = 0
StartsInv ==
  /\ \A t \in Threads : tpc[t] \in Starting => StartsEntry(t)
  /\ \A t, u \in Threads : tpc[t] \in Starting /\ tpc[u] \in Starting
                             /\ loc[t].job = loc[u].job => t = u

HoldsEntry(t) == loc[t].node \in Nodes /\ heap[loc[t].node] \in Entry
                   /\ loc[t].job \in 1..starts
HoldsInv == \A t \in Threads : tpc[t] \in Holding => HoldsEntry(t)

\* the completion task works on a registered entry whose process it has seen exit
ServiceInv ==
  /\ spc = "match" => Seen(sloc.pid)
  /\ spc \in Working => \E n \in linked : heap[n].id = sloc.id /\ Seen(heap[n].executor_pid)

InEntry(p) == \E n \in linked : heap[n].job = owner[p] /\ heap[n].executor_pid = p
InStart(p) == \E t \in Threads : tpc[t] \in Forked /\ loc[t].pid = p
                                   /\ loc[t].job = owner[p]
InRetry(p) == spc = "store" /\ sloc.pid = p
                /\ \E n \in linked : heap[n].id = sloc.id /\ heap[n].job = owner[p]
ProcessInv == \A p \in Pids : Unseen(p) => InEntry(p) \/ InStart(p) \/ InRetry(p)

Inv == /\ StateTypes /\ RegistryInv /\ QueueInv /\ StartsInv /\ HoldsInv
       /\ ServiceInv /\ ProcessInv

(* As long as no two updates of the list overlapped, at most one is under   *)
(* way, the list is still what it saw, and so its stores do what its search *)
(* intended; the pointer that a retry keeps leads to the entry it works on. *)

UpdateInv(u) ==
  /\ updates = {u} /\ u.seen = linked /\ u.node \in allocated
  /\ \A t \in Threads : u.by = t =>
       /\ tpc[t] = "start_link" => u.node \notin linked /\ loc[t].id \in Workflows
                                     /\ Find(loc[t].id) = {}
       /\ tpc[t] = "start_unlink" => Find(loc[t].id) = {u.node}
  /\ u.by = Null /\ spc = "unlink" => Find(sloc.id) = {u.node}
RetryNodeInv == spc \in {"fork", "store"} => sloc.node \in Find(sloc.id)
AloneInv == /\ ListTypes /\ linked \subseteq allocated /\ RetryNodeInv
            /\ \A u \in updates : UpdateInv(u)

(* Without pause requests a workflow that an exit matched stays RUNNING,   *)
(* so an abandon request that comes between the completion task's decision *)
(* and its retry has to signal the process that was just reaped, and fails.*)

AckedInv == /\ \A j \in acked : j <= starts
            /\ \A n \in linked : heap[n].job \in acked => heap[n].abandon_requested
OwnersInv == \A p \in Pids : owner[p] <= starts
NoneIsPaused == \A n \in Nodes : heap[n] \in Entry => heap[n].state # "PAUSED"

\* a start forks once; there is no pause request; an abandon request that still
\* holds a registered entry holds that of its own workflow, and has flagged it
RequestInv(t) ==
  /\ tpc[t] = "start_fork" => \A p \in Pids : owner[p] # loc[t].job
  /\ tpc[t] \notin Pausing \cup Resuming
  /\ tpc[t] \in Abandoning =>
       \A n \in linked : heap[n].job = loc[t].job =>
         /\ n = loc[t].node
         /\ tpc[t] # "abandon_flag" => heap[n].abandon_requested

RetriedInv ==
  \A n \in linked : heap[n].id = sloc.id =>
    /\ spc \in {"decide", "failed", "fork"} => heap[n].state = "RUNNING"
    /\ spc \in {"failed", "fork"} => heap[n].job \notin acked

AbandonInv == /\ AckedInv /\ OwnersInv /\ NoneIsPaused /\ RetriedInv
              /\ \A t \in Threads : RequestInv(t)
-----------------------------------------------------------------------------
(* Types. *)

TPcs == {"idle", "start_link", "start_unlink", "start_fork",
         "start_running", "start_pid", "start_pipe", "abandon_flag", "abandon_test",
         "abandon_kill", "pause_test", "pause_pid", "pause_kill", "pause_set",
         "resume_test", "resume_pid", "resume_kill", "resume_set", "input_test",
         "input_write"}
Locals == [id : Workflows \cup {Null}, node : Nodes \cup {Null},
           pid : 0..MaxPid, job : 0..MaxStarts]
Heaps == [Nodes -> Entry \cup {Null}]
Statuses == {"none", "running", "stopped", "zombie", "reaped", "orphan"}

LEMMA NoLocIsLocal == NoLoc \in Locals
  BY BoundsAssumption DEF NoLoc, Locals

LEMMA NoTaskIsTask ==
  NoTask \in [id : Workflows \cup {Null}, node : Nodes \cup {Null},
              pid : 0..MaxPid, exit_code : ExitCodes]
  BY BoundsAssumption DEF NoTask, ExitCodes

\* Entries keep their identity and their process.
KeepsEntries == \A n \in Nodes : heap[n] \in Entry =>
                  /\ heap'[n] \in Entry
                  /\ heap'[n].id = heap[n].id /\ heap'[n].job = heap[n].job
                  /\ heap'[n].executor_pid = heap[n].executor_pid

LEMMA SameHeap == ASSUME heap' = heap, StateTypes
                  PROVE  heap' \in Heaps /\ KeepsEntries
  BY DEF KeepsEntries, Heaps, StateTypes

\* A store through an entry pointer that leaves id, job and process alone.
LEMMA StoreKeeps ==
  ASSUME StateTypes, NEW n \in Nodes, heap[n] \in Entry, NEW e \in Entry,
         heap' = [heap EXCEPT ![n] = e],
         e.id = heap[n].id, e.job = heap[n].job, e.executor_pid = heap[n].executor_pid
  PROVE  heap' \in Heaps /\ KeepsEntries
  BY DEF KeepsEntries, Heaps, StateTypes

\* of the entries with one id there is at most one
LEMMA UpdatedEntries ==
  ASSUME StateTypes, RegistryInv, NEW id, NEW s, UpdateState(id, s)
  PROVE  /\ DOMAIN heap' = Nodes
         /\ \A n \in Nodes : heap'[n] = IF n \in Find(id) THEN [heap[n] EXCEPT !.state = s]
                                                          ELSE heap[n]
<1>1. DOMAIN heap = Nodes
  BY DEF StateTypes
<1>2. CASE \E n \in Find(id) : heap' = [heap EXCEPT ![n].state = s]
  <2>1. PICK n \in Find(id) : heap' = [heap EXCEPT ![n].state = s]
    BY <1>2
  <2>2. n \in Nodes /\ \A m \in Find(id) : m = n
    BY DEF Find, RegistryInv, StateTypes
  <2> QED  BY <1>1, <2>1, <2>2
<1>3. CASE Find(id) = {} /\ heap' = heap
  BY <1>1, <1>3
<1> QED  BY <1>2, <1>3 DEF UpdateState

LEMMA FlaggedEntries ==
  ASSUME Inv, TimeoutFlag
  PROVE  \A n \in Nodes : heap'[n] = IF n \in Find(sloc.id)
                                     THEN [heap[n] EXCEPT !.abandon_requested = TRUE]
                                     ELSE heap[n]
<1>1. DOMAIN heap = Nodes
  BY DEF Inv, StateTypes
<1>2. CASE \E n \in Find(sloc.id) : heap' = [heap EXCEPT ![n].abandon_requested = TRUE]
  <2>1. PICK n \in Find(sloc.id) : heap' = [heap EXCEPT ![n].abandon_requested = TRUE]
    BY <1>2
  <2>2. n \in Nodes /\ \A m \in Find(sloc.id) : m = n
    BY DEF Find, Inv, RegistryInv, StateTypes
  <2> QED  BY <1>1, <2>1, <2>2
<1>3. CASE Find(sloc.id) = {} /\ heap' = heap
  BY <1>1, <1>3
<1> QED  BY <1>2, <1>3 DEF TimeoutFlag

LEMMA UpdateStateKeeps ==
  ASSUME StateTypes, RegistryInv, NEW id, NEW s \in States, UpdateState(id, s)
  PROVE  heap' \in Heaps /\ KeepsEntries
<1>1. CASE \E n \in Find(id) : heap' = [heap EXCEPT ![n].state = s]
  <2>1. PICK n \in Find(id) : heap' = [heap EXCEPT ![n].state = s]
    BY <1>1
  <2>2. n \in Nodes /\ heap[n] \in Entry
    BY DEF Find, RegistryInv, StateTypes
  <2> DEFINE e == [heap[n] EXCEPT !.state = s]
  <2>3. e \in Entry /\ e.id = heap[n].id /\ e.job = heap[n].job
          /\ e.executor_pid = heap[n].executor_pid
    BY <2>2 DEF Entry
  <2>4. heap' = [heap EXCEPT ![n] = e]
    BY <2>1
  <2> HIDE DEF e
  <2> QED  BY <2>2, <2>3, <2>4, StoreKeeps
<1>2. CASE heap' = heap
  BY <1>2, SameHeap
<1> QED  BY <1>1, <1>2 DEF UpdateState

LEMMA ThreadTypes ==
  ASSUME StateTypes, NEW t \in Threads, NEW pc \in TPcs, NEW l \in Locals,
         tpc' = [tpc EXCEPT ![t] = pc], loc' = [loc EXCEPT ![t] = l]
  PROVE  tpc' \in [Threads -> TPcs] /\ loc' \in [Threads -> Locals]
  BY DEF StateTypes, TPcs, Locals

-----------------------------------------------------------------------------
(* Steps that neither add nor remove an entry, nor fork, nor store a pid,  *)
(* nor touch the exit queue.                                               *)

ThreadsMove ==
  \A t \in Threads :
    /\ tpc'[t] \in Starting => /\ tpc[t] \in Starting
                               /\ loc'[t].id = loc[t].id /\ loc'[t].job = loc[t].job
    /\ tpc[t] \in Forked => /\ tpc'[t] \in Forked
                            /\ loc'[t].pid = loc[t].pid /\ loc'[t].job = loc[t].job
    /\ tpc'[t] \in Holding => /\ loc'[t].node \in Nodes /\ heap'[loc'[t].node] \in Entry
                              /\ loc'[t].job \in 1..starts'

ServiceMoves ==
  /\ spc' = "match" => Seen(sloc'.pid)
  /\ spc' \in Working => \E n \in linked : heap[n].id = sloc'.id /\ Seen(heap[n].executor_pid)
  /\ spc = "store" => spc' = "store" /\ sloc' = sloc

\* No process becomes unreaped, and what was reaped stays so.
ProcessesMove ==
  \A p \in Pids : /\ status'[p] \in {"running", "stopped", "zombie"} => Unreaped(p)
                  /\ status[p] = "reaped" => status'[p] = "reaped"

Links == RegistryInv /\ QueueInv /\ StartsInv /\ HoldsInv /\ ServiceInv /\ ProcessInv

LEMMA SeenStays ==
  ASSUME ProcessesMove, exitq' = exitq
  PROVE  /\ \A p : Seen(p) => Seen(p)'
         /\ \A p \in Pids : Unseen(p)' => Unseen(p)
  BY DEF ProcessesMove, Seen, Unseen, Queued, Unreaped

LEMMA QueuePids == ASSUME StateTypes
                   PROVE  \A i \in DOMAIN exitq : exitq[i].pid \in Pids
<1>1. \A i \in DOMAIN exitq : exitq[i] \in [pid : Pids, exit_code : ExitCodes]
  <2> DEFINE E == [pid : Pids, exit_code : ExitCodes]
  <2>1. exitq \in Seq(E)
    BY DEF StateTypes
  <2> HIDE DEF E
  <2>2. \A i \in DOMAIN exitq : exitq[i] \in E
    BY <2>1
  <2> QED  BY <2>2 DEF E
<1> QED  BY <1>1

LEMMA FrameStep ==
  ASSUME StateTypes, Links, linked' = linked, starts' = starts, KeepsEntries,
         owner' = owner, exitq' = exitq, ProcessesMove, ThreadsMove, ServiceMoves
  PROVE  Links'
<1> USE DEF Links
<1>0. \A n \in linked : n \in Nodes /\ heap[n] \in Entry
  BY DEF StateTypes, RegistryInv
<1>1. \A n \in linked : /\ heap'[n] \in Entry
                        /\ heap'[n].id = heap[n].id /\ heap'[n].job = heap[n].job
                        /\ heap'[n].executor_pid = heap[n].executor_pid
  BY <1>0 DEF KeepsEntries
<1>2. RegistryInv'
  BY <1>1 DEF RegistryInv
<1>3. QueueInv'
  BY QueuePids DEF QueueInv, ProcessesMove
<1>4. StartsInv'
  BY <1>1 DEF StartsInv, StartsEntry, ThreadsMove
<1>5. HoldsInv'
  BY DEF HoldsInv, HoldsEntry, ThreadsMove
<1>6. ServiceInv'
  <2>1. spc' = "match" => Seen(sloc.pid)'
    BY SeenStays DEF ServiceMoves
  <2>2. spc' \in Working => \E n \in linked' : heap'[n].id = sloc'.id /\ Seen(heap[n].executor_pid)'
    BY <1>1, SeenStays DEF ServiceMoves
  <2> QED  BY <2>1, <2>2 DEF ServiceInv
<1>7. ProcessInv'
  <2> SUFFICES ASSUME NEW p \in Pids, Unseen(p)'
               PROVE  InEntry(p)' \/ InStart(p)' \/ InRetry(p)'
    BY DEF ProcessInv
  <2>1. InEntry(p) \/ InStart(p) \/ InRetry(p)
    BY SeenStays DEF ProcessInv
  <2>2. InEntry(p) => InEntry(p)'
    BY <1>1 DEF InEntry
  <2>3. InStart(p) => InStart(p)'
    BY DEF InStart, ThreadsMove
  <2>4. InRetry(p) => InRetry(p)'
    BY <1>1 DEF InRetry, ServiceMoves
  <2> QED  BY <2>1, <2>2, <2>3, <2>4
<1> QED  BY <1>2, <1>3, <1>4, <1>5, <1>6, <1>7

\* The steps of connection threads and the services thread leave each other alone.
LEMMA ThreadsStay ==
  ASSUME Links, KeepsEntries, starts' = starts, tpc' = tpc, loc' = loc
  PROVE  ThreadsMove
  BY DEF Links, ThreadsMove, HoldsInv, HoldsEntry, KeepsEntries

LEMMA ServiceStays == ASSUME Links, spc' = spc, sloc' = sloc
                      PROVE  ServiceMoves
  BY DEF Links, ServiceMoves, ServiceInv

LEMMA ProcessesStay == ASSUME status' = status
                       PROVE  ProcessesMove
  BY DEF ProcessesMove, Unreaped

\* Thread t leaves a program counter at which it does not hold a process.
LEMMA ThreadMoves ==
  ASSUME StateTypes, Links, KeepsEntries, starts' = starts,
         NEW t \in Threads, NEW pc \in TPcs \ Starting, NEW l \in Locals,
         tpc[t] \notin Forked,
         tpc' = [tpc EXCEPT ![t] = pc], loc' = [loc EXCEPT ![t] = l],
         pc \in Holding => l.node \in Nodes /\ heap[l.node] \in Entry /\ l.job \in 1..starts
  PROVE  ThreadsMove
<1>1. /\ tpc'[t] = pc /\ loc'[t] = l
      /\ \A u \in Threads \ {t} : tpc'[u] = tpc[u] /\ loc'[u] = loc[u]
  BY DEF StateTypes
<1>2. \A u \in Threads \ {t} : tpc[u] \in Holding => HoldsEntry(u)
  BY DEF Links, HoldsInv
<1> QED  BY <1>1, <1>2 DEF ThreadsMove, KeepsEntries, HoldsEntry

-----------------------------------------------------------------------------
(* Requests to workflows: each thread uses the entry it found. *)

LEMMA HeldEntry ==
  ASSUME StateTypes, Links, NEW t \in Threads, tpc[t] \in Holding
  PROVE  /\ loc[t].node \in Nodes /\ heap[loc[t].node] \in Entry
         /\ loc[t].job \in 1..starts /\ loc[t] \in Locals
         /\ Held(t) = heap[loc[t].node]
  BY DEF Links, HoldsInv, HoldsEntry, Held, StateTypes, Locals

\* A step of thread t that leaves entries, processes and the queue alone, or
\* changes only flags of an entry and whether a process is stopped.
LEMMA RequestStep ==
  ASSUME Inv, KeepsEntries, heap' \in Heaps, linked' = linked, starts' = starts,
         ProcessesMove, status' \in [Pids -> Statuses], owner' = owner,
         termed' \subseteq Pids, acked' \subseteq Starts,
         NEW t \in Threads, NEW pc \in TPcs \ Starting, NEW l \in Locals,
         tpc[t] \notin Forked,
         tpc' = [tpc EXCEPT ![t] = pc], loc' = [loc EXCEPT ![t] = l],
         pc \in Holding => l.node \in Nodes /\ heap[l.node] \in Entry /\ l.job \in 1..starts,
         UNCHANGED <<queue, service, up>>
  PROVE  Inv'
<1>1. StateTypes /\ Links
  BY DEF Inv, Links
<1>2. /\ exitq' = exitq /\ dropped' = dropped /\ spc' = spc /\ sloc' = sloc /\ up' = up
  BY DEF queue, service
<1>3. ThreadsMove
  BY <1>1, ThreadMoves
<1>4. Links'
  BY <1>1, <1>2, <1>3, ServiceStays, FrameStep
<1>5. tpc' \in [Threads -> TPcs] /\ loc' \in [Threads -> Locals]
  BY <1>1, ThreadTypes
<1>6. StateTypes'
  BY <1>1, <1>2, <1>5 DEF StateTypes, Heaps, Statuses, TPcs, Locals
<1> QED  BY <1>4, <1>6 DEF Inv, Links

LEMMA Unmoved ==
  ASSUME Inv
  PROVE  /\ StateTypes /\ Links /\ status \in [Pids -> Statuses]
         /\ termed \subseteq Pids /\ acked \subseteq Starts
         /\ NoLoc \in Locals /\ starts \in 0..MaxStarts
         /\ \A t \in Threads : tpc[t] \in TPcs /\ loc[t] \in Locals
         /\ loc \in [Threads -> Locals]
  BY NoLocIsLocal DEF Inv, Links, StateTypes, Statuses, TPcs, Locals

LEMMA SameLoc == ASSUME NEW t \in Threads, StateTypes, loc' = loc
                 PROVE  loc' = [loc EXCEPT ![t] = loc[t]]
  BY DEF StateTypes

LEMMA RequestFinds ==
  ASSUME Inv, NEW t \in Threads, NEW op \in DOMAIN FirstPc, NEW id \in Workflows,
         RequestFind(t, op, id)
  PROVE  Inv'
<1>1. PICK n \in Find(id) :
        GotoWith(t, FirstPc[op], [id |-> id, node |-> n, pid |-> 0, job |-> heap[n].job])
  BY DEF RequestFind
<1> DEFINE l == [id |-> id, node |-> n, pid |-> 0, job |-> heap[n].job]
<1>2. n \in Nodes /\ heap[n] \in Entry /\ heap[n].job <= starts
  BY Unmoved DEF Find, StateTypes, Links, RegistryInv
<1>3. heap[n].job \in Starts /\ heap[n].job \in 1..starts /\ heap[n].job \in 0..MaxStarts
  BY <1>2, Unmoved, BoundsAssumption DEF Entry, Starts
<1>4. l \in Locals /\ l.node = n /\ l.job = heap[n].job
  BY <1>2, <1>3, BoundsAssumption DEF Locals
<1>5. FirstPc[op] \in {"abandon_flag", "pause_test", "resume_test", "input_test"}
  BY DEF FirstPc
<1>6. FirstPc[op] \in TPcs \ Starting
  BY <1>5 DEF TPcs, Starting
<1>7. /\ tpc' = [tpc EXCEPT ![t] = FirstPc[op]] /\ loc' = [loc EXCEPT ![t] = l]
      /\ tpc[t] = "idle"
  BY <1>1 DEF GotoWith, Goto, RequestFind, At
<1>8. /\ UNCHANGED <<queue, service, up>> /\ heap' = heap /\ linked' = linked
      /\ starts' = starts /\ status' = status /\ owner' = owner /\ termed' = termed
      /\ acked' = acked
  BY DEF RequestFind, registry, procs
<1>9. tpc[t] \notin Forked
  BY <1>7 DEF Forked
<1>10. heap' \in Heaps /\ KeepsEntries /\ ProcessesMove
  BY <1>8, Unmoved, SameHeap, ProcessesStay
<1> HIDE DEF l
<1> QED  BY <1>2, <1>3, <1>4, <1>6, <1>7, <1>8, <1>9, <1>10, Unmoved, RequestStep

\* A thread that holds an entry goes on with it, or answers.
LEMMA HeldStep ==
  ASSUME Inv, KeepsEntries, heap' \in Heaps, linked' = linked, starts' = starts,
         ProcessesMove, status' \in [Pids -> Statuses], owner' = owner,
         termed' \subseteq Pids, acked' \subseteq Starts,
         NEW t \in Threads, tpc[t] \in Holding,
         Respond(t) \/ \E pc \in Holding : Goto(t, pc) /\ loc' = loc,
         UNCHANGED <<queue, service, up>>
  PROVE  Inv'
<1>1. /\ loc[t].node \in Nodes /\ heap[loc[t].node] \in Entry
      /\ loc[t].job \in 1..starts /\ loc[t] \in Locals
  BY Unmoved, HeldEntry
<1>2. tpc[t] \notin Forked /\ Holding \subseteq TPcs \ Starting
  BY DEF Forked, Holding, TPcs, Starting, Abandoning, Pausing, Resuming
<1>3. CASE Respond(t)
  <2>1. tpc' = [tpc EXCEPT ![t] = "idle"] /\ loc' = [loc EXCEPT ![t] = NoLoc]
    BY <1>3 DEF Respond, GotoWith, Goto
  <2>2. "idle" \in TPcs \ Starting /\ "idle" \notin Holding
    BY DEF TPcs, Starting, Holding, Abandoning, Pausing, Resuming
  <2> QED  BY <1>2, <2>1, <2>2, Unmoved, RequestStep
<1>4. CASE \E pc \in Holding : Goto(t, pc) /\ loc' = loc
  <2>1. PICK pc \in Holding : tpc' = [tpc EXCEPT ![t] = pc] /\ loc' = loc
    BY <1>4 DEF Goto
  <2>2. loc' = [loc EXCEPT ![t] = loc[t]]
    BY <2>1, Unmoved, SameLoc
  <2>3. pc \in TPcs \ Starting
    BY <1>2
  <2> QED  BY <1>1, <1>2, <2>1, <2>2, <2>3, RequestStep
<1> QED  BY <1>3, <1>4

\* The same when it touches neither the registry nor a process.
LEMMA QuietStep ==
  ASSUME Inv, UNCHANGED <<registry, procs, queue, service, up>>, acked' \subseteq Starts,
         NEW t \in Threads, tpc[t] \in Holding,
         Respond(t) \/ \E pc \in Holding : Goto(t, pc) /\ loc' = loc
  PROVE  Inv'
<1>1. /\ UNCHANGED <<queue, service, up>> /\ heap' = heap /\ linked' = linked
      /\ starts' = starts /\ status' = status /\ owner' = owner /\ termed' = termed
  BY DEF registry, procs
<1>2. heap' \in Heaps /\ KeepsEntries /\ ProcessesMove
  BY <1>1, Unmoved, SameHeap, ProcessesStay
<1> QED  BY <1>1, <1>2, Unmoved, HeldStep

\* The same when it stores into the entry it holds.
LEMMA StoreStep ==
  ASSUME Inv, UNCHANGED <<linked, starts, procs, queue, service, acked, up>>,
         NEW t \in Threads, tpc[t] \in Holding, NEW e \in Entry,
         heap' = [heap EXCEPT ![loc[t].node] = e],
         e.id = Held(t).id, e.job = Held(t).job, e.executor_pid = Held(t).executor_pid,
         Respond(t) \/ \E pc \in Holding : Goto(t, pc) /\ loc' = loc
  PROVE  Inv'
<1>1. /\ UNCHANGED <<queue, service, up>> /\ linked' = linked
      /\ starts' = starts /\ status' = status /\ owner' = owner /\ termed' = termed
      /\ acked' = acked
  BY DEF procs
<1>2. heap' \in Heaps /\ KeepsEntries
  BY Unmoved, HeldEntry, StoreKeeps
<1>3. ProcessesMove
  BY <1>1, ProcessesStay
<1> QED  BY <1>1, <1>2, <1>3, Unmoved, HeldStep

LEMMA HoldingPcs ==
  /\ "start_pipe" \in Holding
  /\ "abandon_flag" \in Holding /\ "abandon_test" \in Holding /\ "abandon_kill" \in Holding
  /\ "pause_test" \in Holding /\ "pause_pid" \in Holding
  /\ "pause_kill" \in Holding /\ "pause_set" \in Holding
  /\ "resume_test" \in Holding /\ "resume_pid" \in Holding /\ "resume_kill" \in Holding /\ "resume_set" \in Holding
  /\ "input_test" \in Holding /\ "input_write" \in Holding
  BY DEF Holding, Abandoning, Pausing, Resuming

LEMMA AbandonStep ==
  ASSUME Inv, NEW t \in Threads, Abandon(t)
  PROVE  Inv'
<1>1. CASE AbandonFlag(t)
  <2> DEFINE e == [Held(t) EXCEPT !.abandon_requested = TRUE]
  <2>1. tpc[t] \in Holding
    BY <1>1, HoldingPcs DEF AbandonFlag, At
  <2>2. Held(t) \in Entry /\ Held(t) = heap[loc[t].node]
    BY <2>1, Unmoved, HeldEntry
  <2>3. e \in Entry /\ e.id = Held(t).id /\ e.job = Held(t).job
          /\ e.executor_pid = Held(t).executor_pid
    BY <2>2 DEF Entry
  <2>4. heap' = [heap EXCEPT ![loc[t].node] = e]
    BY <1>1, <2>2 DEF AbandonFlag
  <2>5. Goto(t, "abandon_test") /\ loc' = loc
    BY <1>1 DEF AbandonFlag
  <2>6. UNCHANGED <<linked, starts, procs, queue, service, acked, up>>
    BY <1>1 DEF AbandonFlag
  <2> HIDE DEF e
  <2> QED  BY <2>1, <2>3, <2>4, <2>5, <2>6, HoldingPcs, StoreStep
<1>2. CASE AbandonNothingToKill(t) \/ AbandonTest(t) \/ AbandonKillFails(t)
  <2>1. tpc[t] \in Holding
    BY <1>2, HoldingPcs DEF AbandonNothingToKill, AbandonTest, AbandonKillFails, At
  <2>2. loc[t].job \in Starts /\ acked \subseteq Starts
    BY <2>1, Unmoved, HeldEntry, BoundsAssumption DEF Starts
  <2>3. acked' \subseteq Starts
    BY <1>2, <2>2 DEF AbandonNothingToKill, AbandonTest, AbandonKillFails
  <2>4. UNCHANGED <<registry, procs, queue, service, up>>
    BY <1>2 DEF AbandonNothingToKill, AbandonTest, AbandonKillFails
  <2>5. Respond(t) \/ (Goto(t, "abandon_kill") /\ loc' = loc)
    BY <1>2 DEF AbandonNothingToKill, AbandonTest, AbandonKillFails
  <2> QED  BY <2>1, <2>3, <2>4, <2>5, HoldingPcs, QuietStep
<1>3. CASE AbandonKill(t)
  <2>1. tpc[t] \in Holding
    BY <1>3, HoldingPcs DEF AbandonKill, At
  <2>2. loc[t].job \in Starts /\ acked \subseteq Starts
    BY <2>1, Unmoved, HeldEntry, BoundsAssumption DEF Starts
  <2>3. Held(t).executor_pid \in 0..MaxPid
    BY <2>1, Unmoved, HeldEntry DEF Entry
  <2>4. acked' \subseteq Starts /\ termed' \subseteq Pids
    BY <1>3, <2>2, <2>3, Unmoved, BoundsAssumption DEF AbandonKill, Terminate, Pids
  <2>5. /\ UNCHANGED <<queue, service, up>> /\ heap' = heap /\ linked' = linked
        /\ starts' = starts /\ status' = status /\ owner' = owner
    BY <1>3 DEF AbandonKill, Terminate, registry
  <2>6. heap' \in Heaps /\ KeepsEntries /\ ProcessesMove
    BY <2>5, Unmoved, SameHeap, ProcessesStay
  <2>7. Respond(t)
    BY <1>3 DEF AbandonKill
  <2> QED  BY <2>1, <2>4, <2>5, <2>6, <2>7, Unmoved, HeldStep
<1> QED  BY <1>1, <1>2, <1>3 DEF Abandon

\* SIGSTOP and SIGCONT only move a process between running and stopped.
LEMMA SignalStep ==
  ASSUME Inv, NEW t \in Threads, tpc[t] \in Holding,
         NEW p, NEW from \in {"running", "stopped"}, NEW to \in {"running", "stopped"},
         Signal(p, from, to),
         \E pc \in Holding : Goto(t, pc) /\ loc' = loc,
         UNCHANGED <<registry, owner, termed, queue, service, acked, up>>
  PROVE  Inv'
<1>1. /\ UNCHANGED <<queue, service, up>> /\ heap' = heap /\ linked' = linked
      /\ starts' = starts /\ owner' = owner /\ termed' = termed /\ acked' = acked
  BY DEF registry
<1>2. heap' \in Heaps /\ KeepsEntries
  BY <1>1, Unmoved, SameHeap
<1>3. ProcessesMove /\ status' \in [Pids -> Statuses]
  BY Unmoved DEF Signal, ProcessesMove, Unreaped, Statuses
<1> QED  BY <1>1, <1>2, <1>3, Unmoved, HeldStep

LEMMA DaemonGoneStep ==
  ASSUME Inv, DaemonGone
  PROVE  Inv'
<1> USE DEF DaemonGone
<1>1. status' \in [Pids -> Statuses]
  BY Unmoved DEF Statuses
<1>2. tpc' \in [Threads -> TPcs] /\ loc' \in [Threads -> Locals]
  BY Unmoved DEF TPcs
<1>3. exitq' \in Seq([pid : Pids, exit_code : ExitCodes])
  OBVIOUS
<1>4. StateTypes'
  BY <1>1, <1>2, <1>3, NoTaskIsTask DEF Inv, StateTypes, Statuses, TPcs, Locals
<1>5. \A p \in Pids : ~Unseen(p)'
  BY Unmoved DEF Unseen, Unreaped, Queued, Alive, Statuses
<1>6. RegistryInv' /\ QueueInv' /\ StartsInv' /\ HoldsInv' /\ ServiceInv'
  BY DEF RegistryInv, QueueInv, StartsInv, HoldsInv, ServiceInv, Starting, Holding, Working,
         Abandoning, Pausing, Resuming
<1>7. ProcessInv'
  BY <1>5 DEF ProcessInv
<1> QED  BY <1>4, <1>6, <1>7 DEF Inv

LEMMA ControlStep ==
  ASSUME Inv, NEW t \in Threads, Control(t)
  PROVE  Inv'
<1>1. CASE \/ PauseTest(t) \/ PausePid(t) \/ ResumeTest(t) \/ ResumePid(t)
           \/ InputTest(t) \/ InputWrite(t)
  <2>1. tpc[t] \in Holding
    BY <1>1, HoldingPcs
       DEF PauseTest, PausePid, ResumeTest, ResumePid, InputTest, InputWrite, At
  <2>2. UNCHANGED <<registry, procs, queue, service, up>> /\ acked' = acked
    BY <1>1 DEF PauseTest, PausePid, ResumeTest, ResumePid, InputTest, InputWrite
  <2>3. Respond(t) \/ \E pc \in {"pause_pid", "pause_kill", "pause_set", "resume_pid",
                                "resume_kill", "resume_set", "input_write"} :
                        Goto(t, pc) /\ loc' = loc
    BY <1>1 DEF PauseTest, PausePid, ResumeTest, ResumePid, InputTest, InputWrite
  <2> QED  BY <2>1, <2>2, <2>3, HoldingPcs, Unmoved, QuietStep
<1>2. CASE PauseKill(t)
  <2> DEFINE p == Held(t).executor_pid
  <2>1. tpc[t] \in Holding
    BY <1>2, HoldingPcs DEF PauseKill, At
  <2>3. UNCHANGED <<registry, owner, termed, queue, service, acked, up>>
    BY <1>2 DEF PauseKill
  <2>4. CASE Signal(p, "running", "stopped") /\ Goto(t, "pause_set") /\ UNCHANGED loc
    <3>2. \E pc \in Holding : Goto(t, pc) /\ loc' = loc
      BY <2>4, HoldingPcs
    <3>3. Signal(p, "running", "stopped")
      BY <2>4
    <3> HIDE DEF p
    <3> QED  BY <2>1, <2>3, <3>2, <3>3, SignalStep
  <2>5. CASE status' = status /\ Respond(t)
    <3>1. UNCHANGED <<registry, procs, queue, service, up>> /\ acked' = acked
      BY <2>3, <2>5 DEF procs
    <3> QED  BY <2>1, <2>5, <3>1, HoldingPcs, Unmoved, QuietStep
  <2> QED  BY <1>2, <2>4, <2>5 DEF PauseKill
<1>3. CASE ResumeKill(t)
  <2> DEFINE p == Held(t).executor_pid
  <2>1. tpc[t] \in Holding
    BY <1>3, HoldingPcs DEF ResumeKill, At
  <2>3. UNCHANGED <<registry, owner, termed, queue, service, acked, up>>
    BY <1>3 DEF ResumeKill
  <2>4. CASE Signal(p, "stopped", "running") /\ Goto(t, "resume_set") /\ UNCHANGED loc
    <3>2. \E pc \in Holding : Goto(t, pc) /\ loc' = loc
      BY <2>4, HoldingPcs
    <3>3. Signal(p, "stopped", "running")
      BY <2>4
    <3> HIDE DEF p
    <3> QED  BY <2>1, <2>3, <3>2, <3>3, SignalStep
  <2>5. CASE status' = status /\ Respond(t)
    <3>1. UNCHANGED <<registry, procs, queue, service, up>> /\ acked' = acked
      BY <2>3, <2>5 DEF procs
    <3> QED  BY <2>1, <2>5, <3>1, HoldingPcs, Unmoved, QuietStep
  <2> QED  BY <1>3, <2>4, <2>5 DEF ResumeKill
<1>4. CASE PauseSet(t)
  <2> DEFINE e == [Held(t) EXCEPT !.state = "PAUSED"]
  <2>1. tpc[t] \in Holding
    BY <1>4, HoldingPcs DEF PauseSet, At
  <2>2. Held(t) \in Entry /\ Held(t) = heap[loc[t].node]
    BY <2>1, Unmoved, HeldEntry
  <2>3. e \in Entry /\ e.id = Held(t).id /\ e.job = Held(t).job
          /\ e.executor_pid = Held(t).executor_pid
    BY <2>2 DEF Entry, States
  <2>4. heap' = [heap EXCEPT ![loc[t].node] = e] /\ Respond(t)
    BY <1>4, <2>2 DEF PauseSet
  <2>5. UNCHANGED <<linked, starts, procs, queue, service, acked, up>>
    BY <1>4 DEF PauseSet
  <2> HIDE DEF e
  <2> QED  BY <2>1, <2>3, <2>4, <2>5, StoreStep
<1>5. CASE ResumeSet(t)
  <2> DEFINE e == [Held(t) EXCEPT !.state = "RUNNING"]
  <2>1. tpc[t] \in Holding
    BY <1>5, HoldingPcs DEF ResumeSet, At
  <2>2. Held(t) \in Entry /\ Held(t) = heap[loc[t].node]
    BY <2>1, Unmoved, HeldEntry
  <2>3. e \in Entry /\ e.id = Held(t).id /\ e.job = Held(t).job
          /\ e.executor_pid = Held(t).executor_pid
    BY <2>2 DEF Entry, States
  <2>4. heap' = [heap EXCEPT ![loc[t].node] = e] /\ Respond(t)
    BY <1>5, <2>2 DEF ResumeSet
  <2>5. UNCHANGED <<linked, starts, procs, queue, service, acked, up>>
    BY <1>5 DEF ResumeSet
  <2> HIDE DEF e
  <2> QED  BY <2>1, <2>3, <2>4, <2>5, StoreStep
<1>6. CASE InputSigpipe(t)
  BY <1>6, DaemonGoneStep DEF InputSigpipe
<1> QED  BY <1>1, <1>2, <1>3, <1>4, <1>5, <1>6 DEF Control

-----------------------------------------------------------------------------
(* daemon_execute_bash_workflow *)

\* the entry that thread t is starting, the only one with its id
LEMMA StartedEntry ==
  ASSUME Inv, NEW t \in Threads, tpc[t] \in Starting
  PROVE  \E n \in linked : /\ Find(loc[t].id) = {n}
                           /\ n \in Nodes /\ heap[n] \in Entry
                           /\ heap[n].id = loc[t].id /\ heap[n].job = loc[t].job
                           /\ heap[n].executor_pid = 0 /\ loc[t].job \in 1..starts
<1>1. PICK n \in linked : /\ heap[n].id = loc[t].id /\ heap[n].job = loc[t].job
                          /\ heap[n].executor_pid = 0
  BY DEF Inv, StartsInv, StartsEntry
<1>2. n \in Nodes /\ heap[n] \in Entry /\ heap[n].job <= starts
  BY DEF Inv, StateTypes, RegistryInv
<1>3. heap[n].job \in 1..starts
  BY <1>2, Unmoved, BoundsAssumption DEF Entry, Starts
<1>4. Find(loc[t].id) = {n}
  BY <1>1 DEF Find, Inv, RegistryInv
<1> QED  BY <1>1, <1>2, <1>3, <1>4

\* the entry the completion task works on, the only one with its id
LEMMA WorkedEntry ==
  ASSUME Inv, spc \in Working
  PROVE  \E n \in linked : /\ Find(sloc.id) = {n}
                           /\ n \in Nodes /\ heap[n] \in Entry
                           /\ heap[n].id = sloc.id /\ Seen(heap[n].executor_pid)
<1>1. PICK n \in linked : heap[n].id = sloc.id /\ Seen(heap[n].executor_pid)
  BY DEF Inv, ServiceInv
<1>2. n \in Nodes /\ heap[n] \in Entry
  BY DEF Inv, StateTypes, RegistryInv
<1>3. Find(sloc.id) = {n}
  BY <1>1 DEF Find, Inv, RegistryInv
<1> QED  BY <1>1, <1>2, <1>3

LEMMA SeenIsPositive == \A p : Seen(p) => p # 0 /\ ~Unseen(p)
  BY DEF Seen, Unseen, Unreaped, Pids

\* workflow_registry_remove of an entry whose process, if it had one, was seen
\* to exit, and which nobody else is starting or working on.
LEMMA RemoveStep ==
  ASSUME StateTypes, Links, NEW id, linked' = linked \ Find(id), heap' = heap, starts' = starts,
         owner' = owner, exitq' = exitq, ProcessesMove, ThreadsMove, ServiceMoves,
         \A t \in Threads : tpc'[t] \in Starting => loc[t].id # id,
         \A n \in Find(id) : heap[n].executor_pid = 0 \/ Seen(heap[n].executor_pid),
         spc' \in Working => sloc'.id # id
  PROVE  Links'
<1> USE DEF Links
<1>1. \A n : n \in linked' <=> n \in linked /\ heap[n].id # id
  BY DEF Find
<1>2. RegistryInv' /\ QueueInv' /\ HoldsInv'
  <2>1. RegistryInv'
    BY <1>1 DEF RegistryInv
  <2>2. QueueInv'
    BY QueuePids DEF QueueInv, ProcessesMove
  <2>3. HoldsInv'
    BY DEF HoldsInv, HoldsEntry, ThreadsMove
  <2> QED  BY <2>1, <2>2, <2>3
<1>3. StartsInv'
  BY <1>1 DEF StartsInv, StartsEntry, ThreadsMove
<1>4. ServiceInv'
  <2>1. spc' = "match" => Seen(sloc.pid)'
    BY SeenStays DEF ServiceMoves
  <2>2. spc' \in Working => \E n \in linked' : heap'[n].id = sloc'.id /\ Seen(heap[n].executor_pid)'
    BY <1>1, SeenStays DEF ServiceMoves
  <2> QED  BY <2>1, <2>2 DEF ServiceInv
<1>5. ProcessInv'
  <2> SUFFICES ASSUME NEW p \in Pids, Unseen(p)'
               PROVE  InEntry(p)' \/ InStart(p)' \/ InRetry(p)'
    BY DEF ProcessInv
  <2>1. Unseen(p) /\ (InEntry(p) \/ InStart(p) \/ InRetry(p))
    BY SeenStays DEF ProcessInv
  <2>2. InEntry(p) => InEntry(p)'
    <3> SUFFICES ASSUME NEW n \in linked, heap[n].job = owner[p], heap[n].executor_pid = p
                 PROVE  n \in linked'
      BY DEF InEntry
    <3>1. p # 0 /\ ~Seen(p)
      BY <2>1, SeenIsPositive DEF Pids
    <3> QED  BY <3>1, <1>1 DEF Find
  <2>3. InStart(p) => InStart(p)'
    BY DEF InStart, ThreadsMove
  <2>4. InRetry(p) => InRetry(p)'
    BY <1>1 DEF InRetry, ServiceMoves, Working
  <2> QED  BY <2>1, <2>2, <2>3, <2>4
<1> QED  BY <1>2, <1>3, <1>4, <1>5

\* An update that nothing has overlapped does what its search intended.
LEMMA TornAlone == Torn(linked) = {linked}
<1>1. linked \cap linked = linked /\ (linked \cup linked) \ linked = {} /\ SUBSET {} = {{}}
  OBVIOUS
<1>2. Torn(linked) = {linked \cup s : s \in {{}}}
  BY <1>1 DEF Torn
<1>3. linked \cup {} = linked
  OBVIOUS
<1> QED  BY <1>2, <1>3

LEMMA UnlinksFound ==
  ASSUME AloneInv, NEW u \in updates, NEW id, Find(id) = {u.node}, Unlink(u)
  PROVE  linked' = linked \ Find(id) /\ updates' = {}
<1>1. u.seen = linked /\ updates = {u}
  BY DEF AloneInv, UpdateInv
<1>2. linked' \in {m \ {u.node} : m \in Torn(linked)} /\ updates' = updates \ {u}
  BY <1>1 DEF Unlink
<1> QED  BY <1>1, <1>2, TornAlone

LEMMA ThreadUnlinks ==
  ASSUME AloneInv, NEW t \in Threads, StartUnlink(t)
  PROVE  linked' = linked \ Find(loc[t].id) /\ updates' = {}
<1>1. PICK u \in updates : u.by = t /\ Unlink(u)
  BY DEF StartUnlink
<1>2. Find(loc[t].id) = {u.node}
  BY <1>1 DEF AloneInv, UpdateInv, StartUnlink, At
<1> QED  BY <1>1, <1>2, UnlinksFound

LEMMA ServiceUnlinks ==
  ASSUME AloneInv, CompletionUnlink
  PROVE  linked' = linked \ Find(sloc.id) /\ updates' = {}
<1>1. PICK u \in updates : u.by = Null /\ Unlink(u)
  BY DEF CompletionUnlink
<1>2. Find(sloc.id) = {u.node}
  BY <1>1 DEF AloneInv, UpdateInv, CompletionUnlink, SAt
<1> QED  BY <1>1, <1>2, UnlinksFound

LEMMA ThreadLinks ==
  ASSUME StateTypes, AloneInv, NEW t \in Threads, StartLink(t)
  PROVE  /\ loc[t].id \in Workflows /\ Find(loc[t].id) = {} /\ updates' = {}
         /\ allocated' = allocated
         /\ \E n \in Nodes \ linked : /\ linked' = linked \cup {n} /\ n \in allocated
                                     /\ heap' = [heap EXCEPT ![n] = NewEntry(loc[t].id)]
<1>1. PICK u \in updates : /\ u.by = t /\ Link(u)
                           /\ heap' = [heap EXCEPT ![u.node] = NewEntry(loc[t].id)]
  BY DEF StartLink
<1>2. /\ updates = {u} /\ u.seen = linked /\ u.node \notin linked /\ u.node \in allocated
      /\ loc[t].id \in Workflows /\ Find(loc[t].id) = {} /\ u.node \in Nodes
  BY <1>1 DEF AloneInv, UpdateInv, StartLink, At, ListTypes, Update
<1>3. linked' \in {m \cup {u.node} : m \in Torn(linked)} /\ updates' = updates \ {u}
      /\ allocated' = allocated
  BY <1>1, <1>2 DEF Link
<1>4. linked' = linked \cup {u.node} /\ updates' = {}
  BY <1>2, <1>3, TornAlone
<1> QED  BY <1>1, <1>2, <1>3, <1>4

\* workflow_registry_remove has found the entry that the thread has added
LEMMA StartPipeFailsStep ==
  ASSUME Inv, NEW t \in Threads, StartPipeFails(t)
  PROVE  Inv'
<1>1. PICK n \in linked : Find(loc[t].id) = {n}
  BY StartedEntry DEF StartPipeFails, At, Starting
<1>2. /\ tpc[t] = "start_fork" /\ tpc' = [tpc EXCEPT ![t] = "start_unlink"] /\ loc' = loc
      /\ linked' = linked /\ heap' = heap /\ starts' = starts /\ status' = status
      /\ owner' = owner /\ termed' = termed /\ exitq' = exitq /\ dropped' = dropped
      /\ spc' = spc /\ sloc' = sloc /\ acked' = acked /\ up' = up
  BY <1>1 DEF StartPipeFails, At, Goto, procs, queue, service
<1>3. StateTypes /\ Links /\ heap' \in Heaps /\ KeepsEntries /\ ProcessesMove /\ ServiceMoves
  BY <1>2, Unmoved, SameHeap, ProcessesStay, ServiceStays
<1>4. "start_unlink" \in TPcs /\ "start_unlink" \notin Holding /\ tpc[t] \notin Forked
      /\ tpc[t] \in Starting
  BY <1>2 DEF TPcs, Starting, Holding, Abandoning, Pausing, Resuming, Forked
<1>5. ThreadsMove
  <2>1. tpc'[t] = "start_unlink" /\ \A u \in Threads \ {t} : tpc'[u] = tpc[u]
    BY <1>2, <1>3 DEF StateTypes
  <2>2. \A u \in Threads \ {t} : tpc[u] \in Holding => HoldsEntry(u)
    BY <1>3 DEF Links, HoldsInv
  <2> QED  BY <1>2, <1>3, <1>4, <2>1, <2>2 DEF ThreadsMove, KeepsEntries, HoldsEntry
<1>6. Links'
  BY <1>2, <1>3, <1>5, FrameStep
<1>7. loc' = [loc EXCEPT ![t] = loc[t]] /\ loc[t] \in Locals
  BY <1>2, <1>3, SameLoc, Unmoved
<1>8. tpc' \in [Threads -> TPcs] /\ loc' \in [Threads -> Locals]
  BY <1>2, <1>3, <1>4, <1>7, ThreadTypes
<1>9. StateTypes'
  BY <1>2, <1>3, <1>8 DEF StateTypes, TPcs, Locals
<1> QED  BY <1>6, <1>9 DEF Inv, Links

LEMMA StartUnlinkStep ==
  ASSUME Inv, AloneInv, NEW t \in Threads, StartUnlink(t)
  PROVE  Inv'
<1>1. /\ tpc[t] = "start_unlink" /\ linked' = linked \ Find(loc[t].id)
      /\ tpc' = [tpc EXCEPT ![t] = "idle"] /\ loc' = [loc EXCEPT ![t] = NoLoc]
      /\ heap' = heap /\ starts' = starts /\ status' = status /\ owner' = owner
      /\ termed' = termed /\ exitq' = exitq /\ dropped' = dropped
      /\ spc' = spc /\ sloc' = sloc /\ acked' = acked /\ up' = up
  BY ThreadUnlinks DEF StartUnlink, At, Respond, GotoWith, Goto, procs, queue, service
<1>2. PICK n \in linked : /\ Find(loc[t].id) = {n} /\ heap[n].executor_pid = 0
                          /\ heap[n].id = loc[t].id /\ heap[n].job = loc[t].job
  BY <1>1, StartedEntry DEF Starting
<1>3. StateTypes /\ Links /\ heap' \in Heaps /\ KeepsEntries /\ ProcessesMove /\ ServiceMoves
  BY <1>1, Unmoved, SameHeap, ProcessesStay, ServiceStays
<1>4. "idle" \in TPcs \ Starting /\ "idle" \notin Holding /\ tpc[t] \notin Forked
  BY <1>1 DEF TPcs, Starting, Holding, Abandoning, Pausing, Resuming, Forked
<1>5. ThreadsMove
  BY <1>1, <1>3, <1>4, NoLocIsLocal, ThreadMoves
<1>6. \A u \in Threads : tpc'[u] \in Starting => loc[u].id # loc[t].id
  <2> SUFFICES ASSUME NEW u \in Threads, tpc'[u] \in Starting, loc[u].id = loc[t].id
               PROVE  FALSE
    OBVIOUS
  <2>1. u # t /\ tpc[u] \in Starting
    BY <1>1, <1>4, <1>3 DEF StateTypes
  <2>2. PICK m \in linked : Find(loc[u].id) = {m} /\ heap[m].job = loc[u].job
    BY <2>1, StartedEntry
  <2>3. m = n
    BY <2>2, <1>2
  <2> QED  BY <1>1, <1>2, <2>1, <2>2, <2>3 DEF Inv, StartsInv, Starting
<1>7. spc' \in Working => sloc'.id # loc[t].id
  <2> SUFFICES ASSUME spc \in Working, sloc.id = loc[t].id
               PROVE  FALSE
    BY <1>1
  <2>1. PICK m \in linked : Find(sloc.id) = {m} /\ Seen(heap[m].executor_pid)
    BY WorkedEntry
  <2> QED  BY <1>2, <2>1, SeenIsPositive
<1>8. Links'
  BY <1>1, <1>2, <1>3, <1>5, <1>6, <1>7, RemoveStep
<1>9. tpc' \in [Threads -> TPcs] /\ loc' \in [Threads -> Locals]
  BY <1>1, <1>3, <1>4, NoLocIsLocal, ThreadTypes
<1>10. StateTypes'
  BY <1>1, <1>3, <1>9 DEF StateTypes, TPcs, Locals
<1> QED  BY <1>8, <1>10 DEF Inv, Links

LEMMA StartForkFailsStep ==
  ASSUME Inv, NEW t \in Threads, StartForkFails(t)
  PROVE  Inv'
<1>1. /\ tpc[t] = "start_fork" /\ UpdateState(loc[t].id, "FAILED")
      /\ tpc' = [tpc EXCEPT ![t] = "idle"] /\ loc' = [loc EXCEPT ![t] = NoLoc]
      /\ linked' = linked /\ starts' = starts /\ status' = status /\ owner' = owner
      /\ termed' = termed /\ acked' = acked
  BY DEF StartForkFails, At, Respond, GotoWith, Goto, procs
<1>2. UNCHANGED <<queue, service, up>>
  BY DEF StartForkFails
<1>3. heap' \in Heaps /\ KeepsEntries
  BY <1>1, Unmoved, UpdateStateKeeps DEF States, Links
<1>4. "idle" \in TPcs \ Starting /\ "idle" \notin Holding /\ tpc[t] \notin Forked
  BY <1>1 DEF TPcs, Starting, Holding, Abandoning, Pausing, Resuming, Forked
<1>5. ProcessesMove
  BY <1>1, ProcessesStay
<1> QED  BY <1>1, <1>2, <1>3, <1>4, <1>5, Unmoved, RequestStep

LEMMA StartRunningStep ==
  ASSUME Inv, NEW t \in Threads, StartRunning(t)
  PROVE  Inv'
<1>1. /\ tpc[t] = "start_running" /\ UpdateState(loc[t].id, "RUNNING")
      /\ tpc' = [tpc EXCEPT ![t] = "start_pid"] /\ loc' = loc
      /\ linked' = linked /\ starts' = starts /\ status' = status /\ owner' = owner
      /\ termed' = termed /\ acked' = acked /\ exitq' = exitq /\ dropped' = dropped
      /\ spc' = spc /\ sloc' = sloc /\ up' = up
  BY DEF StartRunning, At, Goto, procs, queue, service
<1>2. StateTypes /\ Links /\ heap' \in Heaps /\ KeepsEntries /\ ProcessesMove /\ ServiceMoves
  BY <1>1, Unmoved, UpdateStateKeeps, ProcessesStay, ServiceStays DEF States, Links
<1>3. "start_pid" \in TPcs /\ "start_pid" \notin Holding /\ "start_pid" \in Forked
      /\ tpc[t] \in Starting
  BY <1>1 DEF TPcs, Starting, Holding, Abandoning, Pausing, Resuming, Forked
<1>4. ThreadsMove
  <2>1. tpc'[t] = "start_pid" /\ \A u \in Threads \ {t} : tpc'[u] = tpc[u]
    BY <1>1, <1>2 DEF StateTypes
  <2>2. \A u \in Threads \ {t} : tpc[u] \in Holding => HoldsEntry(u)
    BY <1>2 DEF Links, HoldsInv
  <2> QED  BY <1>1, <1>2, <1>3, <2>1, <2>2 DEF ThreadsMove, KeepsEntries, HoldsEntry
<1>5. Links'
  BY <1>1, <1>2, <1>4, FrameStep
<1>6. loc' = [loc EXCEPT ![t] = loc[t]] /\ loc[t] \in Locals
  BY <1>1, <1>2, SameLoc, Unmoved
<1>7. tpc' \in [Threads -> TPcs] /\ loc' \in [Threads -> Locals]
  BY <1>1, <1>2, <1>3, <1>6, ThreadTypes
<1>8. StateTypes'
  BY <1>1, <1>2, <1>7 DEF StateTypes, TPcs, Locals, Heaps
<1> QED  BY <1>5, <1>8 DEF Inv, Links

LEMMA StartStorePipeStep ==
  ASSUME Inv, NEW t \in Threads, StartStorePipe(t)
  PROVE  Inv'
<1> DEFINE e == [Held(t) EXCEPT !.stdin_pipe = loc[t].pid]
<1>1. tpc[t] \in Holding
  BY HoldingPcs DEF StartStorePipe, At
<1>2. Held(t) \in Entry /\ Held(t) = heap[loc[t].node] /\ loc[t].pid \in 0..MaxPid
  BY <1>1, Unmoved, HeldEntry DEF Locals
<1>3. e \in Entry /\ e.id = Held(t).id /\ e.job = Held(t).job
        /\ e.executor_pid = Held(t).executor_pid
  BY <1>2 DEF Entry
<1>4. heap' = [heap EXCEPT ![loc[t].node] = e] /\ Respond(t)
  BY <1>2 DEF StartStorePipe
<1>5. UNCHANGED <<linked, starts, procs, queue, service, acked, up>>
  BY DEF StartStorePipe
<1> HIDE DEF e
<1> QED  BY <1>1, <1>3, <1>4, <1>5, StoreStep

LEMMA StartAddStep ==
  ASSUME Inv, NEW t \in Threads, NEW id \in Workflows, StartAdd(t, id)
  PROVE  Inv'
<1> DEFINE l == [NoLoc EXCEPT !.id = id]
<1>1. /\ tpc[t] = "idle" /\ linked' = linked /\ heap' = heap /\ starts' = starts
      /\ tpc' = [tpc EXCEPT ![t] = "start_link"] /\ loc' = [loc EXCEPT ![t] = l]
      /\ status' = status /\ owner' = owner /\ termed' = termed /\ acked' = acked
      /\ UNCHANGED <<queue, service, up>>
  BY DEF StartAdd, At, GotoWith, Goto, procs
<1>2. l \in Locals
  BY BoundsAssumption DEF NoLoc, Locals
<1>3. "start_link" \in TPcs \ Starting /\ "start_link" \notin Holding /\ tpc[t] \notin Forked
  BY <1>1 DEF TPcs, Starting, Holding, Abandoning, Pausing, Resuming, Forked
<1>4. heap' \in Heaps /\ KeepsEntries /\ ProcessesMove
  BY <1>1, Unmoved, SameHeap, ProcessesStay
<1> HIDE DEF l
<1> QED  BY <1>1, <1>2, <1>3, <1>4, Unmoved, RequestStep

LEMMA NewLocal ==
  ASSUME NEW k \in Locals, NEW j \in 0..MaxStarts
  PROVE  LET l == [k EXCEPT !.job = j]
         IN  l \in Locals /\ l.id = k.id /\ l.job = j
  BY DEF Locals

LEMMA StartLinkStep ==
  ASSUME Inv, AloneInv, NEW t \in Threads, StartLink(t)
  PROVE  Inv'
<1> DEFINE id == loc[t].id
           l == [loc[t] EXCEPT !.job = starts + 1]
           e == NewEntry(id)
<1>0. StateTypes /\ id \in Workflows /\ Find(id) = {}
  BY ThreadLinks DEF Inv
<1>1. PICK n \in Nodes \ linked : linked' = linked \cup {n} /\ heap' = [heap EXCEPT ![n] = e]
  BY <1>0, ThreadLinks
<1>2. /\ tpc[t] = "start_link" /\ Find(id) = {} /\ starts < MaxStarts /\ starts' = starts + 1
      /\ tpc' = [tpc EXCEPT ![t] = "start_fork"] /\ loc' = [loc EXCEPT ![t] = l]
      /\ status' = status /\ owner' = owner
      /\ termed' = termed /\ exitq' = exitq /\ dropped' = dropped
      /\ spc' = spc /\ sloc' = sloc /\ acked' = acked /\ up' = up
  BY <1>0 DEF StartLink, At, GotoWith, Goto, procs, queue, service
<1>3. StateTypes /\ Links /\ starts \in Nat /\ starts + 1 \in Starts /\ starts + 1 \in 0..MaxStarts
  BY <1>2, Unmoved, BoundsAssumption DEF Starts
<1>4. e \in Entry /\ e.id = id /\ e.job = starts + 1 /\ e.executor_pid = 0
  BY <1>0, <1>3, BoundsAssumption DEF NewEntry, Entry, States
<1>5. l \in Locals /\ l.id = id /\ l.job = starts + 1
  BY <1>3, Unmoved, NewLocal
<1>6. "start_fork" \in TPcs /\ "start_fork" \in Starting /\ "start_fork" \notin Holding
      /\ "start_fork" \notin Forked
  BY DEF TPcs, Starting, Holding, Abandoning, Pausing, Resuming, Forked
<1> HIDE DEF e, l, id
<1>7. /\ heap'[n] = e /\ \A m \in Nodes \ {n} : heap'[m] = heap[m]
      /\ heap' \in Heaps
  BY <1>1, <1>3, <1>4 DEF StateTypes, Heaps
<1>8. \A m \in linked : /\ m # n /\ m \in Nodes /\ heap'[m] = heap[m] /\ heap[m] \in Entry
                        /\ heap[m].id # id /\ heap[m].job \in Starts /\ heap[m].job <= starts
  BY <1>1, <1>2, <1>3, <1>7 DEF StateTypes, Links, RegistryInv, Find, Entry
<1>9. /\ tpc'[t] = "start_fork" /\ loc'[t] = l
      /\ \A u \in Threads \ {t} : tpc'[u] = tpc[u] /\ loc'[u] = loc[u]
  BY <1>2, <1>3 DEF StateTypes
<1>10. RegistryInv'
  BY <1>1, <1>2, <1>3, <1>4, <1>7, <1>8 DEF RegistryInv, Links, Starts
<1>11. QueueInv'
  BY <1>2, <1>3 DEF Links, QueueInv
<1>12. StartsInv'
  <2>1. \A u \in Threads \ {t} : tpc[u] \in Starting => loc[u].job \in 1..starts /\ StartsEntry(u)
    BY StartedEntry DEF Inv, StartsInv
  <2>2. StartsEntry(t)'
    BY <1>1, <1>4, <1>5, <1>7, <1>9 DEF StartsEntry
  <2>3. \A u \in Threads : tpc'[u] \in Starting => StartsEntry(u)'
    BY <1>1, <1>8, <1>9, <2>1, <2>2 DEF StartsEntry
  <2>4. \A u \in Threads : tpc'[u] \in Starting /\ u # t => loc'[u].job # loc'[t].job
    BY <1>3, <1>5, <1>9, <2>1
  <2>5. \A u, v \in Threads \ {t} :
          tpc'[u] \in Starting /\ tpc'[v] \in Starting /\ loc'[u].job = loc'[v].job => u = v
    BY <1>3, <1>9 DEF Links, StartsInv
  <2> QED  BY <2>3, <2>4, <2>5 DEF StartsInv
<1>13. HoldsInv'
  <2>1. \A m \in Nodes : heap[m] \in Entry => heap'[m] \in Entry
    BY <1>4, <1>7
  <2>2. \A u \in Threads \ {t} : tpc[u] \in Holding => HoldsEntry(u)
    BY <1>3 DEF Links, HoldsInv
  <2> QED  BY <1>2, <1>3, <1>6, <1>9, <2>1, <2>2 DEF HoldsInv, HoldsEntry
<1>14. ServiceInv'
  <2>1. \A p : Seen(p)' <=> Seen(p)
    BY <1>2 DEF Seen, Queued
  <2> QED  BY <1>1, <1>2, <1>3, <1>8, <2>1 DEF Links, ServiceInv, Seen, Queued
<1>15. ProcessInv'
  <2> SUFFICES ASSUME NEW p \in Pids, Unseen(p)'
               PROVE  InEntry(p)' \/ InStart(p)' \/ InRetry(p)'
    BY DEF ProcessInv
  <2>1. InEntry(p) \/ InStart(p) \/ InRetry(p)
    BY <1>2, <1>3 DEF Links, ProcessInv, Unseen, Unreaped, Queued
  <2>2. InEntry(p) => InEntry(p)'
    BY <1>1, <1>2, <1>8 DEF InEntry
  <2>3. InStart(p) => InStart(p)'
    BY <1>2, <1>9 DEF InStart, Forked
  <2>4. InRetry(p) => InRetry(p)'
    BY <1>1, <1>2, <1>8 DEF InRetry
  <2> QED  BY <2>1, <2>2, <2>3, <2>4
<1>16. tpc' \in [Threads -> TPcs] /\ loc' \in [Threads -> Locals]
  BY <1>2, <1>3, <1>5, <1>6, ThreadTypes
<1>17. StateTypes'
  BY <1>1, <1>2, <1>3, <1>7, <1>16 DEF StateTypes, TPcs, Locals, Heaps
<1> QED  BY <1>10, <1>11, <1>12, <1>13, <1>14, <1>15, <1>17 DEF Inv

\* fork() gives a process that was never there before.
LEMMA ForkFacts ==
  ASSUME StateTypes, Links, NEW p \in NewPids, NEW j \in 0..MaxStarts, Fork(p, j), exitq' = exitq
  PROVE  /\ p \in Pids /\ status' \in [Pids -> Statuses] /\ owner' \in [Pids -> 0..MaxStarts]
         /\ owner'[p] = j /\ termed' = termed
         /\ \A q : Seen(q) => Seen(q)'
         /\ \A q \in Pids \ {p} : owner'[q] = owner[q] /\ (Unseen(q)' => Unseen(q))
         /\ QueueInv'
<1>1. p \in Pids /\ status[p] = "none"
  BY DEF NewPids
<1>2. \A q \in Pids : status'[q] = IF q = p THEN "running" ELSE status[q]
  BY <1>1 DEF Fork, StateTypes
<1>3. QueueInv'
  BY <1>1, <1>2, QueuePids DEF Links, QueueInv
<1>4. \A q : Seen(q) => Seen(q)'
  BY <1>1, <1>2 DEF Seen, Queued
<1>5. \A q \in Pids \ {p} : Unseen(q)' => Unseen(q)
  BY <1>2 DEF Unseen, Unreaped, Queued
<1> QED  BY <1>1, <1>3, <1>4, <1>5 DEF Fork, StateTypes, Statuses

LEMMA StartForkStep ==
  ASSUME Inv, NEW t \in Threads, StartFork(t)
  PROVE  Inv'
<1>1. PICK p \in NewPids : /\ Fork(p, loc[t].job)
                           /\ GotoWith(t, "start_running", [loc[t] EXCEPT !.pid = p])
  BY DEF StartFork
<1> DEFINE l == [loc[t] EXCEPT !.pid = p]
<1>2. /\ tpc[t] = "start_fork" /\ linked' = linked /\ heap' = heap /\ starts' = starts
      /\ tpc' = [tpc EXCEPT ![t] = "start_running"] /\ loc' = [loc EXCEPT ![t] = l]
      /\ exitq' = exitq /\ dropped' = dropped
      /\ spc' = spc /\ sloc' = sloc /\ acked' = acked /\ up' = up
  BY <1>1 DEF StartFork, At, GotoWith, Goto, registry, queue, service
<1>3. StateTypes /\ Links /\ loc[t] \in Locals /\ loc[t].job \in 0..MaxStarts
  BY Unmoved DEF Locals
<1>4. /\ p \in Pids /\ status' \in [Pids -> Statuses] /\ owner' \in [Pids -> 0..MaxStarts]
      /\ owner'[p] = loc[t].job /\ termed' = termed
      /\ \A q : Seen(q) => Seen(q)'
      /\ \A q \in Pids \ {p} : owner'[q] = owner[q] /\ (Unseen(q)' => Unseen(q))
      /\ QueueInv'
  BY <1>1, <1>2, <1>3, ForkFacts
<1>5. l \in Locals /\ l.id = loc[t].id /\ l.job = loc[t].job /\ l.pid = p
  <2>1. p \in 0..MaxPid
    BY <1>4, BoundsAssumption DEF Pids
  <2>2. l \in Locals
    BY <1>3, <2>1 DEF Locals
  <2>3. l.id = loc[t].id /\ l.job = loc[t].job /\ l.pid = p
    BY <1>3 DEF Locals
  <2> QED  BY <2>2, <2>3
<1>6. "start_running" \in TPcs /\ "start_running" \in Starting
      /\ "start_running" \notin Holding /\ "start_running" \in Forked
      /\ tpc[t] \notin Forked /\ tpc[t] \in Starting
  BY <1>2 DEF TPcs, Starting, Holding, Abandoning, Pausing, Resuming, Forked
<1> HIDE DEF l
<1>7. /\ tpc'[t] = "start_running" /\ loc'[t] = l
      /\ \A u \in Threads \ {t} : tpc'[u] = tpc[u] /\ loc'[u] = loc[u]
  BY <1>2, <1>3 DEF StateTypes
<1>8. RegistryInv'
  BY <1>2, <1>3 DEF Links, RegistryInv
<1>9. StartsInv'
  <2>1. \A u \in Threads : /\ tpc'[u] \in Starting <=> tpc[u] \in Starting
                           /\ loc'[u].id = loc[u].id /\ loc'[u].job = loc[u].job
    BY <1>5, <1>6, <1>7
  <2> QED  BY <1>2, <1>3, <2>1 DEF Links, StartsInv, StartsEntry
<1>10. HoldsInv'
  BY <1>2, <1>3, <1>6, <1>7 DEF Links, HoldsInv, HoldsEntry
<1>11. ServiceInv'
  BY <1>2, <1>3, <1>4 DEF Links, ServiceInv
<1>12. ProcessInv'
  <2> SUFFICES ASSUME NEW q \in Pids, Unseen(q)'
               PROVE  InEntry(q)' \/ InStart(q)' \/ InRetry(q)'
    BY DEF ProcessInv
  <2>1. CASE q = p
    BY <1>4, <1>5, <1>6, <1>7, <2>1 DEF InStart
  <2>2. CASE q # p
    <3>1. owner'[q] = owner[q] /\ (InEntry(q) \/ InStart(q) \/ InRetry(q))
      BY <1>3, <1>4, <2>2 DEF Links, ProcessInv
    <3>2. InStart(q) => InStart(q)'
      BY <1>6, <1>7, <3>1 DEF InStart
    <3>3. (InEntry(q) => InEntry(q)') /\ (InRetry(q) => InRetry(q)')
      BY <1>2, <3>1 DEF InEntry, InRetry
    <3> QED  BY <3>1, <3>2, <3>3
  <2> QED  BY <2>1, <2>2
<1>13. tpc' \in [Threads -> TPcs] /\ loc' \in [Threads -> Locals]
  BY <1>2, <1>3, <1>5, <1>6, ThreadTypes
<1>14. StateTypes'
  BY <1>2, <1>3, <1>4, <1>13 DEF StateTypes, TPcs, Locals, Statuses
<1> QED  BY <1>4, <1>8, <1>9, <1>10, <1>11, <1>12, <1>14 DEF Inv

LEMMA StartStorePidStep ==
  ASSUME Inv, NEW t \in Threads, StartStorePid(t)
  PROVE  Inv'
<1>0. tpc[t] = "start_pid"
  BY DEF StartStorePid, At
<1>1. PICK n \in linked : /\ Find(loc[t].id) = {n}
                          /\ n \in Nodes /\ heap[n] \in Entry
                          /\ heap[n].id = loc[t].id /\ heap[n].job = loc[t].job
                          /\ heap[n].executor_pid = 0 /\ loc[t].job \in 1..starts
  BY <1>0, StartedEntry DEF Starting
<1> DEFINE l == [loc[t] EXCEPT !.node = n]
           e == [heap[n] EXCEPT !.executor_pid = loc[t].pid]
<1>2. /\ heap' = [heap EXCEPT ![n] = e]
      /\ linked' = linked /\ starts' = starts
      /\ tpc' = [tpc EXCEPT ![t] = "start_pipe"] /\ loc' = [loc EXCEPT ![t] = l]
      /\ status' = status /\ owner' = owner /\ termed' = termed
      /\ exitq' = exitq /\ dropped' = dropped
      /\ spc' = spc /\ sloc' = sloc /\ acked' = acked /\ up' = up
  BY <1>1 DEF StartStorePid, GotoWith, Goto, procs, queue, service
<1>3. StateTypes /\ Links /\ loc[t] \in Locals /\ loc[t].pid \in 0..MaxPid
  BY Unmoved DEF Locals
<1>4. e \in Entry /\ e.id = heap[n].id /\ e.job = heap[n].job /\ e.executor_pid = loc[t].pid
  BY <1>1, <1>3 DEF Entry
<1>5. l \in Locals /\ l.node = n /\ l.job = loc[t].job
  BY <1>1, <1>3 DEF Locals
<1>6. "start_pipe" \in TPcs /\ "start_pipe" \in Holding /\ "start_pipe" \notin Starting
      /\ "start_pipe" \notin Forked /\ tpc[t] \in Starting
  BY <1>0, HoldingPcs DEF TPcs, Starting, Forked
<1> HIDE DEF e, l
<1>7. /\ tpc'[t] = "start_pipe" /\ loc'[t] = l
      /\ \A u \in Threads \ {t} : tpc'[u] = tpc[u] /\ loc'[u] = loc[u]
  BY <1>2, <1>3 DEF StateTypes
<1>8. /\ heap'[n] = e /\ \A m \in Nodes \ {n} : heap'[m] = heap[m]
      /\ heap' \in Heaps
  BY <1>1, <1>2, <1>3, <1>4 DEF StateTypes, Heaps
<1>9. \A m \in linked : heap'[m] \in Entry /\ heap'[m].id = heap[m].id /\ heap'[m].job = heap[m].job
  BY <1>3, <1>4, <1>8 DEF StateTypes, Links, RegistryInv
<1>10. RegistryInv'
  BY <1>2, <1>3, <1>9 DEF Links, RegistryInv
<1>11. QueueInv'
  BY <1>2, <1>3 DEF Links, QueueInv
<1>12. StartsInv'
  <2>1. \A u \in Threads : tpc'[u] \in Starting => u # t /\ tpc[u] \in Starting /\ loc'[u] = loc[u]
    BY <1>6, <1>7
  <2>2. ASSUME NEW u \in Threads, tpc'[u] \in Starting
        PROVE  StartsEntry(u)'
    <3>1. u # t /\ tpc[u] \in Starting /\ loc'[u] = loc[u] /\ loc[u].job # loc[t].job
      BY <1>3, <1>6, <2>1, <2>2 DEF Links, StartsInv
    <3>2. PICK m \in linked : /\ heap[m].id = loc[u].id /\ heap[m].job = loc[u].job
                              /\ heap[m].executor_pid = 0
      BY <1>3, <3>1 DEF Links, StartsInv, StartsEntry
    <3>3. m # n /\ m \in Nodes
      BY <1>1, <1>3, <3>1, <3>2 DEF StateTypes
    <3> QED  BY <1>2, <1>8, <3>1, <3>2, <3>3 DEF StartsEntry
  <2> QED  BY <1>3, <2>1, <2>2 DEF Links, StartsInv
<1>13. HoldsInv'
  <2>1. \A m \in Nodes : heap[m] \in Entry => heap'[m] \in Entry
    BY <1>4, <1>8
  <2>2. \A u \in Threads \ {t} : tpc[u] \in Holding => HoldsEntry(u)
    BY <1>3 DEF Links, HoldsInv
  <2> QED  BY <1>1, <1>2, <1>5, <1>7, <2>1, <2>2 DEF HoldsInv, HoldsEntry
<1>14. \A p : (Seen(p)' <=> Seen(p)) /\ (Unseen(p)' <=> Unseen(p))
  BY <1>2 DEF Seen, Unseen, Unreaped, Queued
<1>15. ServiceInv'
  <2>1. spc' = "match" => Seen(sloc.pid)'
    BY <1>2, <1>3, <1>14 DEF Links, ServiceInv
  <2>2. ASSUME spc \in Working
        PROVE  \E m \in linked' : heap'[m].id = sloc'.id /\ Seen(heap[m].executor_pid)'
    <3>1. PICK m \in linked : heap[m].id = sloc.id /\ Seen(heap[m].executor_pid)
      BY <1>3, <2>2 DEF Links, ServiceInv
    <3>2. m # n /\ m \in Nodes
      BY <1>1, <1>3, <3>1, SeenIsPositive DEF StateTypes
    <3>3. heap'[m] = heap[m] /\ Seen(heap'[m].executor_pid)
      BY <1>8, <3>1, <3>2
    <3>4. Seen(heap[m].executor_pid)'
      BY <1>2, <3>3 DEF Seen, Queued
    <3> QED  BY <1>2, <3>1, <3>3, <3>4
  <2> QED  BY <1>2, <2>1, <2>2 DEF ServiceInv
<1>16. ProcessInv'
  <2> SUFFICES ASSUME NEW p \in Pids, Unseen(p)'
               PROVE  InEntry(p)' \/ InStart(p)' \/ InRetry(p)'
    BY DEF ProcessInv
  <2>1. InEntry(p) \/ InStart(p) \/ InRetry(p)
    BY <1>3, <1>14 DEF Links, ProcessInv
  <2>2. InEntry(p) => InEntry(p)'
    <3> SUFFICES ASSUME NEW m \in linked, heap[m].job = owner[p], heap[m].executor_pid = p
                 PROVE  heap'[m].job = owner[p] /\ heap'[m].executor_pid = p
      BY <1>2 DEF InEntry
    <3>1. m # n /\ m \in Nodes
      BY <1>1, <1>3 DEF Pids, StateTypes
    <3> QED  BY <1>8, <3>1
  <2>3. InStart(p) => InStart(p)' \/ InEntry(p)'
    <3> SUFFICES ASSUME NEW u \in Threads, tpc[u] \in Forked, loc[u].pid = p, loc[u].job = owner[p]
                 PROVE  InStart(p)' \/ InEntry(p)'
      BY DEF InStart
    <3>1. CASE u = t
      BY <1>1, <1>2, <1>4, <1>8, <3>1 DEF InEntry
    <3>2. CASE u # t
      BY <1>2, <1>7, <3>2 DEF InStart
    <3> QED  BY <3>1, <3>2
  <2>4. InRetry(p) => InRetry(p)'
    BY <1>2, <1>9 DEF InRetry
  <2> QED  BY <2>1, <2>2, <2>3, <2>4
<1>17. tpc' \in [Threads -> TPcs] /\ loc' \in [Threads -> Locals]
  BY <1>2, <1>3, <1>5, <1>6, ThreadTypes
<1>18. StateTypes'
  BY <1>2, <1>3, <1>8, <1>17 DEF StateTypes, TPcs, Locals, Heaps
<1> QED  BY <1>10, <1>11, <1>12, <1>13, <1>15, <1>16, <1>18 DEF Inv

LEMMA StartStep ==
  ASSUME Inv, AloneInv, NEW t \in Threads, Start(t)
  PROVE  Inv'
  BY StartLinkStep, StartUnlinkStep, StartPipeFailsStep, StartForkFailsStep, StartForkStep, StartRunningStep,
     StartStorePidStep, StartStorePipeStep DEF Start

-----------------------------------------------------------------------------
(* The children and sigchld_handler *)

LEMMA ExitStep ==
  ASSUME Inv, NEW p \in Pids, ProcessExits(p) \/ OrphanExits(p)
  PROVE  Inv'
<1>1. /\ linked' = linked /\ heap' = heap /\ starts' = starts /\ owner' = owner
      /\ termed' = termed /\ exitq' = exitq /\ dropped' = dropped /\ tpc' = tpc /\ loc' = loc
      /\ spc' = spc /\ sloc' = sloc /\ acked' = acked /\ up' = up
  BY DEF ProcessExits, OrphanExits, registry, queue, http, service
<1>2. StateTypes /\ Links /\ KeepsEntries
  BY <1>1, Unmoved, SameHeap
<1>3. ProcessesMove /\ status' \in [Pids -> Statuses]
  BY Unmoved DEF ProcessExits, OrphanExits, ProcessesMove, Unreaped, Statuses
<1>4. ThreadsMove /\ ServiceMoves
  BY <1>1, <1>2, ThreadsStay, ServiceStays
<1>5. Links'
  BY <1>1, <1>2, <1>3, <1>4, FrameStep
<1>6. StateTypes'
  BY <1>1, <1>2, <1>3 DEF StateTypes, Statuses
<1> QED  BY <1>5, <1>6 DEF Inv, Links

LEMMA AppendExit ==
  ASSUME exitq \in Seq([pid : Pids, exit_code : ExitCodes]), NEW p \in Pids, NEW c \in ExitCodes,
         exitq' = Append(exitq, [pid |-> p, exit_code |-> c])
  PROVE  /\ exitq' \in Seq([pid : Pids, exit_code : ExitCodes])
         /\ DOMAIN exitq' = 1..(Len(exitq) + 1) /\ DOMAIN exitq = 1..Len(exitq)
         /\ Len(exitq) \in Nat
         /\ exitq'[Len(exitq) + 1].pid = p
         /\ \A k \in DOMAIN exitq : exitq'[k] = exitq[k]
<1> DEFINE E == [pid : Pids, exit_code : ExitCodes]
           x == [pid |-> p, exit_code |-> c]
<1>1. exitq \in Seq(E) /\ x \in E /\ x.pid = p
  OBVIOUS
<1> HIDE DEF E, x
<1>2. exitq' = Append(exitq, x)
  BY DEF x
<1>3. /\ exitq' \in Seq(E) /\ DOMAIN exitq' = 1..(Len(exitq) + 1)
      /\ DOMAIN exitq = 1..Len(exitq) /\ Len(exitq) \in Nat /\ exitq'[Len(exitq) + 1] = x
      /\ \A k \in DOMAIN exitq : exitq'[k] = exitq[k]
  BY <1>1, <1>2
<1> QED  BY <1>1, <1>3 DEF E

\* Reaping a zombie leaves the other processes as they are, and its exit unseen
\* unless the queue is full.
LEMMA ReapStep ==
  ASSUME Inv, NEW p \in Pids, Reap(p)
  PROVE  Inv'
<1>1. /\ linked' = linked /\ heap' = heap /\ starts' = starts /\ owner' = owner
      /\ tpc' = tpc /\ loc' = loc /\ spc' = spc /\ sloc' = sloc /\ acked' = acked /\ up' = up
      /\ status[p] = "zombie" /\ status' = [status EXCEPT ![p] = "reaped"]
      /\ termed' = termed \ {p}
  BY DEF Reap, registry, http, service
<1>2. StateTypes /\ Links
  BY Unmoved
<1>3. /\ status' \in [Pids -> Statuses] /\ status'[p] = "reaped"
      /\ \A q \in Pids \ {p} : status'[q] = status[q]
  BY <1>1, Unmoved DEF Statuses
<1>4. \A i \in DOMAIN exitq : exitq[i].pid \in Pids \ {p}
  BY <1>1, <1>2, QueuePids DEF Links, QueueInv
<1>5. /\ exitq' \in Seq([pid : Pids, exit_code : ExitCodes]) /\ dropped' \subseteq Pids
      /\ QueueInv'
      /\ \A q : Queued(q) => Queued(q)'
      /\ \A q \in Pids \ {p} : Queued(q)' => Queued(q)
  <2>1. CASE exitq' = exitq /\ dropped' = dropped \cup {p}
    <3>1. QueueInv'
      BY <1>2, <1>3, <1>4, <2>1 DEF Links, QueueInv
    <3> QED  BY <1>2, <2>1, <3>1 DEF StateTypes, Queued
  <2>2. CASE dropped' = dropped
             /\ \E c \in ExitCodes : exitq' = Append(exitq, [pid |-> p, exit_code |-> c])
    <3>1. /\ exitq' \in Seq([pid : Pids, exit_code : ExitCodes])
          /\ DOMAIN exitq' = 1..(Len(exitq) + 1) /\ DOMAIN exitq = 1..Len(exitq)
          /\ Len(exitq) \in Nat
          /\ exitq'[Len(exitq) + 1].pid = p
          /\ \A k \in DOMAIN exitq : exitq'[k] = exitq[k]
      BY <1>2, <2>2, AppendExit DEF StateTypes
    <3>2. \A k \in DOMAIN exitq' : k \in DOMAIN exitq \/ k = Len(exitq) + 1
      BY <3>1
    <3>3. QueueInv'
      BY <1>2, <1>3, <1>4, <3>1, <3>2 DEF Links, QueueInv
    <3>4. \A q : Queued(q) => Queued(q)'
      BY <3>1 DEF Queued
    <3>5. \A q \in Pids \ {p} : Queued(q)' => Queued(q)
      BY <3>1, <3>2 DEF Queued
    <3> QED  BY <1>2, <2>2, <3>1, <3>3, <3>4, <3>5 DEF StateTypes
  <2> QED  BY <2>1, <2>2 DEF Reap
<1>6. \A q : Seen(q) => Seen(q)'
  <2> SUFFICES ASSUME NEW q \in Pids, status[q] = "reaped", ~Queued(q)
               PROVE  status'[q] = "reaped" /\ ~Queued(q)'
    BY DEF Seen
  <2>1. q # p
    BY <1>1
  <2> QED  BY <1>3, <1>5, <2>1
<1>7. \A q \in Pids : Unseen(q)' => Unseen(q)
  BY <1>1, <1>3, <1>5 DEF Unseen, Unreaped
<1>8. RegistryInv' /\ StartsInv' /\ HoldsInv'
  BY <1>1, <1>2 DEF Links, RegistryInv, StartsInv, StartsEntry, HoldsInv, HoldsEntry
<1>9. ServiceInv'
  BY <1>1, <1>2, <1>6 DEF Links, ServiceInv
<1>10. ProcessInv'
  BY <1>1, <1>2, <1>7 DEF Links, ProcessInv, InEntry, InStart, InRetry
<1>11. StateTypes'
  BY <1>1, <1>2, <1>3, <1>5 DEF StateTypes, Statuses
<1> QED  BY <1>5, <1>8, <1>9, <1>10, <1>11 DEF Inv

-----------------------------------------------------------------------------
(* workflow_completion_task and workflow_timeout_task *)

SPcs == {"idle", "match", "decide", "remove", "unlink", "failed", "fork", "store",
         "rerun", "expired", "expire_flag"}
Tasks == [id : Workflows \cup {Null}, node : Nodes \cup {Null},
          pid : 0..MaxPid, exit_code : ExitCodes]

\* A step of the services thread that forks nothing and changes only flags and
\* counters of an entry.
LEMMA ServiceStep ==
  ASSUME Inv, KeepsEntries, heap' \in Heaps, linked' = linked, starts' = starts,
         status' = status, owner' = owner, termed' \subseteq Pids,
         spc' \in SPcs, sloc' \in Tasks, ServiceMoves,
         UNCHANGED <<queue, http, acked, up>>
  PROVE  Inv'
<1>1. exitq' = exitq /\ dropped' = dropped /\ tpc' = tpc /\ loc' = loc
  BY DEF queue, http
<1>2. StateTypes /\ Links
  BY Unmoved
<1>3. ThreadsMove /\ ProcessesMove
  BY <1>1, <1>2, ThreadsStay, ProcessesStay
<1>4. Links'
  BY <1>1, <1>2, <1>3, FrameStep
<1>5. StateTypes'
  BY <1>1, <1>2 DEF StateTypes, Heaps, SPcs, Tasks
<1> QED  BY <1>4, <1>5 DEF Inv, Links

\* The same when it touches neither the registry nor a process.
LEMMA ServiceQuietStep ==
  ASSUME Inv, UNCHANGED <<registry, procs, queue, http, acked, up>>,
         spc' \in SPcs, sloc' \in Tasks, ServiceMoves
  PROVE  Inv'
<1>1. /\ linked' = linked /\ heap' = heap /\ starts' = starts /\ status' = status
      /\ owner' = owner /\ termed' = termed /\ UNCHANGED <<queue, http, acked, up>>
  BY DEF registry, procs
<1>2. KeepsEntries /\ heap' \in Heaps
  BY <1>1, Unmoved, SameHeap
<1> QED  BY <1>1, <1>2, Unmoved, ServiceStep

LEMMA ServiceNow ==
  ASSUME Inv
  PROVE  NoTask \in Tasks /\ sloc \in Tasks /\ spc \in SPcs
  BY NoTaskIsTask DEF Inv, StateTypes, Tasks, SPcs

\* The services thread goes to a place where it holds nothing.
LEMMA GoesFree ==
  ASSUME spc' \in {"idle", "rerun", "expired", "expire_flag"}, spc # "store"
  PROVE  ServiceMoves /\ spc' \in SPcs
  BY DEF ServiceMoves, SPcs, Working

\* The services thread goes on with the entry it works on.
LEMMA GoesOn ==
  ASSUME Inv, spc \in Working \ {"store"}, sloc'.id = sloc.id,
         spc' \in {"remove", "unlink", "failed", "fork"}
  PROVE  ServiceMoves /\ spc' \in SPcs
<1>1. PICK n \in linked : heap[n].id = sloc.id /\ Seen(heap[n].executor_pid)
  BY WorkedEntry
<1> QED  BY <1>1 DEF ServiceMoves, SPcs

LEMMA TailExit ==
  ASSUME exitq \in Seq([pid : Pids, exit_code : ExitCodes]), exitq # << >>, exitq' = Tail(exitq)
  PROVE  /\ exitq' \in Seq([pid : Pids, exit_code : ExitCodes])
         /\ Len(exitq) \in Nat /\ DOMAIN exitq = 1..Len(exitq) /\ 1 \in DOMAIN exitq
         /\ Head(exitq) = exitq[1] /\ Head(exitq) \in [pid : Pids, exit_code : ExitCodes]
         /\ \A k \in DOMAIN exitq' : k + 1 \in DOMAIN exitq /\ k \in Nat /\ k + 1 # 1
                                       /\ exitq'[k] = exitq[k + 1]
<1> DEFINE E == [pid : Pids, exit_code : ExitCodes]
<1>1. exitq \in Seq(E)
  OBVIOUS
<1> HIDE DEF E
<1>2. /\ exitq' \in Seq(E) /\ DOMAIN exitq' = 1..(Len(exitq) - 1)
      /\ DOMAIN exitq = 1..Len(exitq) /\ Len(exitq) \in Nat /\ Len(exitq) > 0
      /\ Head(exitq) = exitq[1] /\ exitq[1] \in E
      /\ \A k \in 1..(Len(exitq) - 1) : exitq'[k] = exitq[k + 1]
  BY <1>1
<1>3. \A k \in DOMAIN exitq' : k + 1 \in DOMAIN exitq /\ k \in Nat /\ k + 1 # 1
                                 /\ exitq'[k] = exitq[k + 1]
  BY <1>2
<1>4. 1 \in DOMAIN exitq
  BY <1>2
<1> QED  BY <1>2, <1>3, <1>4 DEF E

LEMMA CompletionPopStep ==
  ASSUME Inv, CompletionPop
  PROVE  Inv'
<1> DEFINE l == [NoTask EXCEPT !.pid = Head(exitq).pid, !.exit_code = Head(exitq).exit_code]
<1>1. /\ linked' = linked /\ heap' = heap /\ starts' = starts /\ status' = status
      /\ owner' = owner /\ termed' = termed /\ dropped' = dropped
      /\ tpc' = tpc /\ loc' = loc /\ acked' = acked /\ up' = up
      /\ spc = "idle" /\ exitq # << >> /\ exitq' = Tail(exitq) /\ spc' = "match" /\ sloc' = l
  BY DEF CompletionPop, SAt, SGoto, registry, procs, http
<1>2. StateTypes /\ Links
  BY Unmoved
<1>3. /\ exitq' \in Seq([pid : Pids, exit_code : ExitCodes])
      /\ Len(exitq) \in Nat /\ DOMAIN exitq = 1..Len(exitq) /\ 1 \in DOMAIN exitq
      /\ Head(exitq) = exitq[1] /\ Head(exitq) \in [pid : Pids, exit_code : ExitCodes]
      /\ \A k \in DOMAIN exitq' : k + 1 \in DOMAIN exitq /\ k \in Nat /\ k + 1 # 1
                                    /\ exitq'[k] = exitq[k + 1]
  BY <1>1, <1>2, TailExit DEF StateTypes
<1>4. l \in Tasks
  <2>1. Head(exitq).pid \in 0..MaxPid /\ Head(exitq).exit_code \in ExitCodes
    BY <1>3, BoundsAssumption DEF Pids
  <2> QED  BY <2>1 DEF NoTask, Tasks
<1>5. l.pid = exitq[1].pid
  BY <1>3 DEF NoTask
<1> HIDE DEF l
<1>6. QueueInv'
  <2>1. \A k \in DOMAIN exitq' : status'[exitq'[k].pid] = "reaped"
    BY <1>1, <1>2, <1>3 DEF Links, QueueInv
  <2>2. ASSUME NEW k \in DOMAIN exitq', NEW m \in DOMAIN exitq', exitq'[k].pid = exitq'[m].pid
        PROVE  k = m
    <3>1. k + 1 = m + 1
      BY <1>2, <1>3, <2>2 DEF Links, QueueInv
    <3> QED  BY <1>3, <3>1
  <2> QED  BY <2>1, <2>2 DEF QueueInv
<1>7. \A q : Queued(q)' => Queued(q)
  BY <1>3 DEF Queued
<1>9. Seen(sloc.pid)'
  <2>1. exitq[1].pid \in Pids /\ status'[exitq[1].pid] = "reaped"
    BY <1>1, <1>2, <1>3, QueuePids DEF Links, QueueInv
  <2>2. sloc'.pid = exitq[1].pid
    BY <1>1, <1>5
  <2>3. \A k \in DOMAIN exitq' : exitq'[k].pid # exitq[1].pid
    BY <1>2, <1>3 DEF Links, QueueInv
  <2> QED  BY <2>1, <2>2, <2>3 DEF Seen, Queued
<1>10. ServiceInv'
  BY <1>1, <1>9 DEF ServiceInv, Working
<1>11. RegistryInv' /\ StartsInv' /\ HoldsInv'
  BY <1>1, <1>2 DEF Links, RegistryInv, StartsInv, StartsEntry, HoldsInv, HoldsEntry
<1>12. ProcessInv'
  <2>1. \A q \in Pids : Unseen(q)' => Unseen(q)
    BY <1>1, <1>7 DEF Unseen, Unreaped
  <2> QED  BY <1>1, <1>2, <2>1 DEF Links, ProcessInv, InEntry, InStart, InRetry
<1>13. StateTypes'
  BY <1>1, <1>2, <1>3, <1>4 DEF StateTypes, Tasks
<1> QED  BY <1>6, <1>10, <1>11, <1>12, <1>13 DEF Inv

LEMMA CompletionMatchStep ==
  ASSUME Inv, CompletionMatch
  PROVE  Inv'
<1>1. PICK n \in Matches(sloc.pid) : spc' = "decide" /\ sloc' = [sloc EXCEPT !.id = heap[n].id]
  BY DEF CompletionMatch, SGoto
<1>2. n \in linked /\ heap[n].executor_pid = sloc.pid /\ heap[n] \in Entry
  BY DEF Matches, Inv, RegistryInv
<1>3. sloc' \in Tasks /\ sloc'.id = heap[n].id /\ spc' \in SPcs
  BY <1>1, <1>2, ServiceNow DEF Tasks, Entry, SPcs
<1>4. spc = "match" /\ UNCHANGED <<registry, procs, queue, http, acked, up>>
  BY DEF CompletionMatch, SAt
<1>5. Seen(heap[n].executor_pid)
  BY <1>2, <1>4 DEF Inv, ServiceInv
<1>6. ServiceMoves
  BY <1>1, <1>2, <1>3, <1>4, <1>5 DEF ServiceMoves
<1> QED  BY <1>3, <1>4, <1>6, ServiceQuietStep

LEMMA CompletionQuietStep ==
  ASSUME Inv, \/ CompletionUnmatched \/ CompletionDecide \/ CompletionNotFound
              \/ FailureNoRetry \/ RetryForkFails
  PROVE  Inv'
<1>1. UNCHANGED <<registry, procs, queue, http, acked, up>>
  BY DEF CompletionUnmatched, CompletionDecide, CompletionNotFound, FailureNoRetry,
         RetryForkFails
<1>2. CASE CompletionUnmatched \/ CompletionNotFound \/ RetryForkFails
  <2>1. spc # "store" /\ spc' = "idle" /\ sloc' = NoTask
    BY <1>2 DEF CompletionUnmatched, CompletionNotFound, RetryForkFails, SAt, SGoto
  <2> QED  BY <1>1, <2>1, GoesFree, ServiceNow, ServiceQuietStep
<1>3. CASE CompletionDecide \/ FailureNoRetry
  <2>1. spc \in Working \ {"store"} /\ spc' \in {"remove", "failed", "fork"} /\ sloc' = sloc
    BY <1>3 DEF CompletionDecide, FailureNoRetry, SAt, SGoto, Working
  <2> QED  BY <1>1, <2>1, GoesOn, ServiceNow, ServiceQuietStep
<1> QED  BY <1>2, <1>3

LEMMA CompletionRemoveStep ==
  ASSUME Inv, CompletionRemove
  PROVE  Inv'
<1>1. /\ spc = "remove" /\ spc' = "unlink" /\ sloc' = sloc
      /\ linked' = linked /\ heap' = heap /\ starts' = starts /\ status' = status
      /\ owner' = owner /\ termed' = termed /\ UNCHANGED <<queue, http, acked, up>>
  BY DEF CompletionRemove, SAt, SGoto, procs
<1>2. heap' \in Heaps /\ KeepsEntries
  BY <1>1, Unmoved, SameHeap
<1>3. ServiceMoves /\ spc' \in SPcs
  BY <1>1, GoesOn DEF Working
<1> QED  BY <1>1, <1>2, <1>3, Unmoved, ServiceNow, ServiceStep

LEMMA CompletionUnlinkStep ==
  ASSUME Inv, AloneInv, CompletionUnlink
  PROVE  Inv'
<1>1. /\ spc = "unlink" /\ linked' = linked \ Find(sloc.id) /\ spc' = "idle" /\ sloc' = NoTask
      /\ heap' = heap /\ starts' = starts /\ status' = status /\ owner' = owner
      /\ termed' = termed /\ exitq' = exitq /\ dropped' = dropped
      /\ tpc' = tpc /\ loc' = loc /\ acked' = acked /\ up' = up
  BY ServiceUnlinks DEF CompletionUnlink, SAt, SGoto, procs, queue, http
<1>2. PICK n \in linked : Find(sloc.id) = {n} /\ Seen(heap[n].executor_pid)
  BY <1>1, WorkedEntry DEF Working
<1>3. StateTypes /\ Links /\ heap' \in Heaps /\ KeepsEntries /\ ProcessesMove
  BY <1>1, Unmoved, SameHeap, ProcessesStay
<1>4. ThreadsMove /\ ServiceMoves
  BY <1>1, <1>3, ThreadsStay, GoesFree
<1>5. \A u \in Threads : tpc'[u] \in Starting => loc[u].id # sloc.id
  <2> SUFFICES ASSUME NEW u \in Threads, tpc[u] \in Starting, loc[u].id = sloc.id
               PROVE  FALSE
    BY <1>1
  <2>1. PICK m \in linked : Find(loc[u].id) = {m} /\ heap[m].executor_pid = 0
    BY StartedEntry
  <2> QED  BY <1>2, <2>1, SeenIsPositive
<1>6. spc' \notin Working
  BY <1>1 DEF Working
<1>7. Links'
  BY <1>1, <1>2, <1>3, <1>4, <1>5, <1>6, RemoveStep
<1>8. StateTypes'
  BY <1>1, <1>3, NoTaskIsTask DEF StateTypes
<1> QED  BY <1>7, <1>8 DEF Inv, Links

LEMMA FailureRetryStep ==
  ASSUME Inv, FailureRetry
  PROVE  Inv'
<1>1. PICK n \in Find(sloc.id) : /\ heap[n].retry_count < MaxRetries
                                 /\ heap' = [heap EXCEPT ![n].retry_count = @ + 1]
                                 /\ sloc' = [sloc EXCEPT !.node = n]
  BY DEF FailureRetry, SGoto
<1>2. n \in Nodes /\ heap[n] \in Entry
  BY DEF Find, Inv, StateTypes, RegistryInv
<1>0. sloc' \in Tasks /\ sloc'.id = sloc.id
  BY <1>1, <1>2, ServiceNow DEF Tasks
<1> DEFINE e == [heap[n] EXCEPT !.retry_count = heap[n].retry_count + 1]
<1>3. e \in Entry /\ e.id = heap[n].id /\ e.job = heap[n].job
        /\ e.executor_pid = heap[n].executor_pid
  <2>1. heap[n].retry_count + 1 \in 0..MaxRetries
    BY <1>1, <1>2, BoundsAssumption DEF Entry
  <2> DEFINE c == heap[n].retry_count + 1
  <2> HIDE DEF c
  <2>2. c \in 0..MaxRetries
    BY <2>1 DEF c
  <2>3. LET f == [heap[n] EXCEPT !.retry_count = c]
        IN  f \in Entry /\ f.id = heap[n].id /\ f.job = heap[n].job
              /\ f.executor_pid = heap[n].executor_pid
    BY <1>2, <2>2 DEF Entry
  <2> QED  BY <2>3 DEF c
<1>4. heap' = [heap EXCEPT ![n] = e]
  BY <1>1
<1>5. /\ spc = "failed" /\ spc' = "fork" /\ linked' = linked
      /\ starts' = starts /\ status' = status /\ owner' = owner /\ termed' = termed
      /\ UNCHANGED <<queue, http, acked, up>>
  BY DEF FailureRetry, SAt, SGoto, procs
<1> HIDE DEF e
<1>6. heap' \in Heaps /\ KeepsEntries
  BY <1>2, <1>3, <1>4, Unmoved, StoreKeeps
<1>7. ServiceMoves /\ spc' \in SPcs
  BY <1>0, <1>5, GoesOn DEF Working
<1> QED  BY <1>0, <1>5, <1>6, <1>7, Unmoved, ServiceStep

LEMMA RetryRunningStep ==
  ASSUME Inv, RetryRunning
  PROVE  Inv'
<1>1. /\ spc = "rerun" /\ spc' = "idle" /\ sloc' = NoTask /\ linked' = linked
      /\ starts' = starts /\ status' = status /\ owner' = owner /\ termed' = termed
      /\ UNCHANGED <<queue, http, acked, up>> /\ UpdateState(sloc.id, "RUNNING")
  BY DEF RetryRunning, SAt, SGoto, procs
<1>2. heap' \in Heaps /\ KeepsEntries
  BY <1>1, Unmoved, UpdateStateKeeps DEF States, Links
<1> QED  BY <1>1, <1>2, GoesFree, Unmoved, ServiceNow, ServiceStep

LEMMA RetryForkStep ==
  ASSUME Inv, AloneInv, RetryFork
  PROVE  Inv'
<1>0. spc = "fork"
  BY DEF RetryFork, SAt
<1>1. PICK n \in linked : /\ Find(sloc.id) = {n} /\ n \in Nodes /\ heap[n] \in Entry
                          /\ heap[n].id = sloc.id /\ Seen(heap[n].executor_pid)
  BY <1>0, WorkedEntry DEF Working
<1>2. PICK p \in NewPids : Fork(p, heap[n].job) /\ spc' = "store" /\ sloc' = [sloc EXCEPT !.pid = p]
  BY <1>0, <1>1 DEF RetryFork, SGoto, AloneInv, RetryNodeInv
<1>3. /\ linked' = linked /\ heap' = heap /\ starts' = starts /\ tpc' = tpc /\ loc' = loc
      /\ exitq' = exitq /\ dropped' = dropped /\ acked' = acked /\ up' = up
  BY DEF RetryFork, registry, queue, http
<1>4. StateTypes /\ Links /\ heap[n].job \in 0..MaxStarts
  BY <1>1, Unmoved, BoundsAssumption DEF Entry, Starts
<1>5. /\ p \in Pids /\ status' \in [Pids -> Statuses] /\ owner' \in [Pids -> 0..MaxStarts]
      /\ owner'[p] = heap[n].job /\ termed' = termed
      /\ \A q : Seen(q) => Seen(q)'
      /\ \A q \in Pids \ {p} : owner'[q] = owner[q] /\ (Unseen(q)' => Unseen(q))
      /\ QueueInv'
  BY <1>2, <1>3, <1>4, ForkFacts
<1>6. sloc' \in Tasks /\ sloc'.id = sloc.id /\ sloc'.pid = p
  <2>1. p \in 0..MaxPid
    BY <1>5, BoundsAssumption DEF Pids
  <2>2. sloc' \in Tasks
    BY <1>2, <2>1, ServiceNow DEF Tasks
  <2>3. sloc'.id = sloc.id /\ sloc'.pid = p
    BY <1>2, ServiceNow DEF Tasks
  <2> QED  BY <2>2, <2>3
<1>7. RegistryInv' /\ StartsInv' /\ HoldsInv'
  BY <1>3, <1>4 DEF Links, RegistryInv, StartsInv, StartsEntry, HoldsInv, HoldsEntry
<1>8. ServiceInv'
  <2>1. Seen(heap[n].executor_pid)'
    BY <1>1, <1>3, <1>5
  <2> QED  BY <1>1, <1>2, <1>3, <1>6, <2>1 DEF ServiceInv
<1>9. ProcessInv'
  <2> SUFFICES ASSUME NEW q \in Pids, Unseen(q)'
               PROVE  InEntry(q)' \/ InStart(q)' \/ InRetry(q)'
    BY DEF ProcessInv
  <2>1. CASE q = p
    BY <1>1, <1>2, <1>3, <1>5, <1>6, <2>1 DEF InRetry
  <2>2. CASE q # p
    <3>1. owner'[q] = owner[q] /\ (InEntry(q) \/ InStart(q))
      BY <1>0, <1>4, <1>5, <2>2 DEF Links, ProcessInv, InRetry
    <3> QED  BY <1>3, <3>1 DEF InEntry, InStart
  <2> QED  BY <2>1, <2>2
<1>10. StateTypes'
  BY <1>2, <1>3, <1>4, <1>5, <1>6 DEF StateTypes, Statuses, Tasks
<1> QED  BY <1>5, <1>7, <1>8, <1>9, <1>10 DEF Inv

LEMMA RetryStorePidStep ==
  ASSUME Inv, AloneInv, RetryStorePid
  PROVE  Inv'
<1>0. spc = "store"
  BY DEF RetryStorePid, SAt
<1>1. PICK n \in linked : /\ Find(sloc.id) = {n} /\ n \in Nodes /\ heap[n] \in Entry
                          /\ heap[n].id = sloc.id /\ Seen(heap[n].executor_pid)
  BY <1>0, WorkedEntry DEF Working
<1> DEFINE e == [heap[n] EXCEPT !.executor_pid = sloc.pid]
<1>2. /\ heap' = [heap EXCEPT ![n] = e] /\ spc' = "rerun" /\ sloc' = sloc
      /\ linked' = linked /\ starts' = starts /\ status' = status /\ owner' = owner
      /\ termed' = termed /\ tpc' = tpc /\ loc' = loc
      /\ exitq' = exitq /\ dropped' = dropped /\ acked' = acked /\ up' = up
  BY <1>0, <1>1 DEF RetryStorePid, SGoto, procs, queue, http, AloneInv, RetryNodeInv
<1>3. StateTypes /\ Links /\ sloc \in Tasks /\ sloc.pid \in 0..MaxPid
  BY Unmoved, ServiceNow DEF Tasks
<1>4. e \in Entry /\ e.id = heap[n].id /\ e.job = heap[n].job /\ e.executor_pid = sloc.pid
  BY <1>1, <1>3 DEF Entry
<1> HIDE DEF e
<1>5. /\ heap'[n] = e /\ \A m \in Nodes \ {n} : heap'[m] = heap[m]
      /\ heap' \in Heaps
  BY <1>1, <1>2, <1>3, <1>4 DEF StateTypes, Heaps
<1>6. \A m \in linked : heap'[m] \in Entry /\ heap'[m].id = heap[m].id /\ heap'[m].job = heap[m].job
  BY <1>3, <1>4, <1>5 DEF StateTypes, Links, RegistryInv
<1>7. RegistryInv' /\ QueueInv'
  BY <1>2, <1>3, <1>6 DEF Links, RegistryInv, QueueInv
<1>8. StartsInv'
  <2>1. ASSUME NEW u \in Threads, tpc'[u] \in Starting
        PROVE  StartsEntry(u)'
    <3>1. PICK m \in linked : /\ heap[m].id = loc[u].id /\ heap[m].job = loc[u].job
                              /\ heap[m].executor_pid = 0
      BY <1>2, <1>3, <2>1 DEF Links, StartsInv, StartsEntry
    <3>2. m # n /\ m \in Nodes
      BY <1>1, <1>3, <3>1, SeenIsPositive DEF StateTypes
    <3> QED  BY <1>2, <1>5, <3>1, <3>2 DEF StartsEntry
  <2> QED  BY <1>2, <1>3, <2>1 DEF Links, StartsInv
<1>9. HoldsInv'
  <2>1. \A m \in Nodes : heap[m] \in Entry => heap'[m] \in Entry
    BY <1>4, <1>5
  <2> QED  BY <1>2, <1>3, <2>1 DEF Links, HoldsInv, HoldsEntry
<1>10. ServiceInv'
  BY <1>2 DEF ServiceInv, Working
<1>11. ProcessInv'
  <2> SUFFICES ASSUME NEW p \in Pids, Unseen(p)'
               PROVE  InEntry(p)' \/ InStart(p)' \/ InRetry(p)'
    BY DEF ProcessInv
  <2>0. Unseen(p)
    BY <1>2 DEF Unseen, Unreaped, Queued
  <2>1. InEntry(p) \/ InStart(p) \/ InRetry(p)
    BY <1>3, <2>0 DEF Links, ProcessInv
  <2>2. InEntry(p) => InEntry(p)'
    <3> SUFFICES ASSUME NEW m \in linked, heap[m].job = owner[p], heap[m].executor_pid = p
                 PROVE  heap'[m].job = owner[p] /\ heap'[m].executor_pid = p
      BY <1>2 DEF InEntry
    <3>1. m # n /\ m \in Nodes
      BY <1>1, <1>3, <2>0, SeenIsPositive DEF StateTypes
    <3> QED  BY <1>5, <3>1
  <2>3. InStart(p) => InStart(p)'
    BY <1>2 DEF InStart
  <2>4. InRetry(p) => InEntry(p)'
    BY <1>1, <1>2, <1>4, <1>5 DEF InRetry, InEntry, Find
  <2> QED  BY <2>1, <2>2, <2>3, <2>4
<1>12. StateTypes'
  BY <1>2, <1>3, <1>5 DEF StateTypes, Heaps
<1> QED  BY <1>7, <1>8, <1>9, <1>10, <1>11, <1>12 DEF Inv

LEMMA CompletionStep ==
  ASSUME Inv, AloneInv, Completion
  PROVE  Inv'
  BY CompletionPopStep, CompletionMatchStep, CompletionQuietStep, CompletionRemoveStep,
     CompletionUnlinkStep,
     FailureRetryStep, RetryForkStep, RetryStorePidStep, RetryRunningStep DEF Completion

LEMMA TimeoutStep ==
  ASSUME Inv, Timeout
  PROVE  Inv'
<1>1. CASE TimeoutFound
  <2>1. PICK n \in linked :
          /\ spc' = "expired"
          /\ sloc' = [NoTask EXCEPT !.id = heap[n].id, !.pid = heap[n].executor_pid]
    BY <1>1 DEF TimeoutFound, SGoto
  <2>2. heap[n] \in Entry
    BY DEF Inv, RegistryInv
  <2>3. heap[n].id \in Workflows /\ heap[n].executor_pid \in 0..MaxPid
    BY <2>2 DEF Entry
  <2>4. sloc' \in Tasks
    BY <2>1, <2>3 DEF NoTask, Tasks, ExitCodes
  <2>5. spc = "idle" /\ UNCHANGED <<registry, procs, queue, http, acked, up>>
    BY <1>1 DEF TimeoutFound, SAt
  <2> QED  BY <2>1, <2>4, <2>5, GoesFree, ServiceQuietStep
<1>2. CASE TimeoutKill
  <2>1. /\ spc = "expired" /\ spc' = "expire_flag" /\ sloc' = sloc
        /\ linked' = linked /\ heap' = heap /\ starts' = starts
        /\ UNCHANGED <<queue, http, acked, up>>
    BY <1>2 DEF TimeoutKill, SAt, SGoto, registry
  <2>2. sloc.pid \in 0..MaxPid
    BY ServiceNow DEF Tasks
  <2>3. status' = status /\ owner' = owner /\ termed' \subseteq Pids
    BY <1>2, <2>2, Unmoved, BoundsAssumption DEF TimeoutKill, Terminate, procs, Pids
  <2>4. KeepsEntries /\ heap' \in Heaps
    BY <2>1, Unmoved, SameHeap
  <2> QED  BY <2>1, <2>3, <2>4, GoesFree, ServiceNow, ServiceStep
<1>3. CASE TimeoutFlag
  <2>1. /\ spc = "expire_flag" /\ spc' = "idle" /\ sloc' = NoTask
        /\ linked' = linked /\ starts' = starts /\ status' = status /\ owner' = owner
        /\ termed' = termed /\ UNCHANGED <<queue, http, acked, up>>
    BY <1>3 DEF TimeoutFlag, SAt, SGoto, procs
  <2>2. KeepsEntries /\ heap' \in Heaps
    <3>1. CASE \E n \in Find(sloc.id) : heap' = [heap EXCEPT ![n].abandon_requested = TRUE]
      <4>1. PICK n \in Find(sloc.id) : heap' = [heap EXCEPT ![n].abandon_requested = TRUE]
        BY <3>1
      <4>2. n \in Nodes /\ heap[n] \in Entry
        BY DEF Find, Inv, RegistryInv, StateTypes
      <4> DEFINE e == [heap[n] EXCEPT !.abandon_requested = TRUE]
      <4>3. e \in Entry /\ e.id = heap[n].id /\ e.job = heap[n].job
              /\ e.executor_pid = heap[n].executor_pid
        BY <4>2 DEF Entry
      <4>4. heap' = [heap EXCEPT ![n] = e]
        BY <4>1
      <4> HIDE DEF e
      <4> QED  BY <4>2, <4>3, <4>4, Unmoved, StoreKeeps
    <3>2. CASE heap' = heap
      BY <3>2, Unmoved, SameHeap
    <3> QED  BY <1>3, <3>1, <3>2 DEF TimeoutFlag
  <2> QED  BY <2>1, <2>2, GoesFree, ServiceNow, Unmoved, ServiceStep
<1> QED  BY <1>1, <1>2, <1>3 DEF Timeout

-----------------------------------------------------------------------------
(* The invariant holds. *)

LEMMA InitInv == Init => Inv
<1> SUFFICES ASSUME Init PROVE Inv
  OBVIOUS
<1> USE DEF Init
<1>1. exitq \in Seq([pid : Pids, exit_code : ExitCodes])
  OBVIOUS
<1>2. tpc \in [Threads -> TPcs] /\ loc \in [Threads -> Locals]
  BY NoLocIsLocal DEF TPcs
<1>3. StateTypes
  BY <1>1, <1>2, NoTaskIsTask, BoundsAssumption DEF StateTypes, TPcs, Locals
<1>4. \A p \in Pids : ~Unseen(p)
  BY DEF Unseen, Unreaped, Queued
<1>5. RegistryInv /\ QueueInv /\ StartsInv /\ HoldsInv /\ ServiceInv
  BY DEF RegistryInv, QueueInv, StartsInv, HoldsInv, ServiceInv, Starting, Holding, Working,
         Abandoning, Pausing, Resuming
<1>6. ProcessInv
  BY <1>4 DEF ProcessInv
<1> QED  BY <1>3, <1>5, <1>6 DEF Inv

LEMMA InvIgnores ==
  ASSUME Inv, UNCHANGED <<registry, procs, queue, http, service, acked>>, up' \in BOOLEAN
  PROVE  Inv'
<1>1. /\ linked' = linked /\ heap' = heap /\ starts' = starts /\ status' = status
      /\ owner' = owner /\ termed' = termed /\ exitq' = exitq /\ dropped' = dropped
      /\ tpc' = tpc /\ loc' = loc /\ spc' = spc /\ sloc' = sloc /\ acked' = acked
  BY DEF registry, procs, queue, http, service
<1>2. StateTypes'
  BY <1>1 DEF Inv, StateTypes
<1>3. StateTypes /\ Links /\ KeepsEntries /\ ProcessesMove /\ ThreadsMove /\ ServiceMoves
  BY <1>1, Unmoved, SameHeap, ProcessesStay, ThreadsStay, ServiceStays
<1>4. Links'
  BY <1>1, <1>3, FrameStep
<1> QED  BY <1>2, <1>4 DEF Inv, Links

LEMMA StepInv == Inv /\ AloneInv /\ [Next]_vars => Inv'
<1> SUFFICES ASSUME Inv, AloneInv, [Next]_vars PROVE Inv'
  OBVIOUS
<1>0. up \in BOOLEAN
  BY DEF Inv, StateTypes
<1>1. ASSUME NEW t \in Threads, Serve(t) PROVE Inv'
  BY <1>1, StartStep, AbandonStep, ControlStep DEF Serve
<1>2. ASSUME UNCHANGED vars PROVE Inv'
  BY <1>0, <1>2, InvIgnores DEF vars
<1>3. ASSUME NEW t \in Threads, NEW id \in Workflows, Request(t, id) PROVE Inv'
  BY <1>2, <1>3, StartAddStep, RequestFinds DEF Request, StartDuplicate, RequestNotFound
<1>4. ASSUME NEW p \in Pids, Reap(p) \/ OrphanExits(p) \/ ProcessExits(p) PROVE Inv'
  BY <1>4, ReapStep, ExitStep
<1>5. CASE Completion \/ Timeout
  BY <1>5, CompletionStep, TimeoutStep
<1>6. CASE Crash
  BY <1>6, DaemonGoneStep DEF Crash
<1>7. CASE Restart
  BY <1>7, InvIgnores DEF Restart
<1> QED  BY <1>1, <1>2, <1>3, <1>4, <1>5, <1>6, <1>7 DEF Next

-----------------------------------------------------------------------------
(* One update of the list at a time. *)

\* No entry in the list changes its id.
KeepsIds == \A n \in linked : heap'[n].id = heap[n].id

Stored(n) ==
  \E v : \/ heap' = [heap EXCEPT ![n].state = v]
        \/ heap' = [heap EXCEPT ![n].executor_pid = v]
        \/ heap' = [heap EXCEPT ![n].stdin_pipe = v]
        \/ heap' = [heap EXCEPT ![n].retry_count = v]
        \/ heap' = [heap EXCEPT ![n].abandon_requested = v]

LEMMA StoredKeepsIds ==
  ASSUME Inv, NEW n \in Nodes, heap[n] \in Entry, Stored(n)
  PROVE  KeepsIds
<1>1. linked \subseteq Nodes /\ DOMAIN heap = Nodes
  BY DEF Inv, StateTypes
<1>2. PICK v : \/ heap' = [heap EXCEPT ![n].state = v]
               \/ heap' = [heap EXCEPT ![n].executor_pid = v]
               \/ heap' = [heap EXCEPT ![n].stdin_pipe = v]
               \/ heap' = [heap EXCEPT ![n].retry_count = v]
               \/ heap' = [heap EXCEPT ![n].abandon_requested = v]
  BY DEF Stored
<1>3. \A m \in Nodes \ {n} : heap'[m] = heap[m]
  BY <1>1, <1>2
<1>4. heap'[n].id = heap[n].id
  BY <1>1, <1>2 DEF Entry
<1> QED  BY <1>1, <1>3, <1>4 DEF KeepsIds

LEMMA FoundStored ==
  ASSUME Inv, NEW id, \E n \in Find(id) : Stored(n)
  PROVE  KeepsIds
<1>1. \A n \in Find(id) : n \in Nodes /\ heap[n] \in Entry
  BY DEF Find, Inv, StateTypes, RegistryInv
<1> QED  BY <1>1, StoredKeepsIds

LEMMA UpdatedKeepsIds ==
  ASSUME Inv, NEW id, NEW v, UpdateState(id, v)
  PROVE  KeepsIds
<1>1. CASE \E n \in Find(id) : heap' = [heap EXCEPT ![n].state = v]
  BY <1>1, FoundStored DEF Stored
<1>2. CASE heap' = heap
  BY <1>2 DEF KeepsIds
<1> QED  BY <1>1, <1>2 DEF UpdateState

\* A step that leaves the list and the updates under way alone.
LEMMA AloneFrame ==
  ASSUME AloneInv, UNCHANGED list, KeepsIds,
         \A t \in Threads : tpc'[t] \in {"start_link", "start_unlink"} =>
           tpc'[t] = tpc[t] /\ loc'[t].id = loc[t].id,
         spc' = "unlink" => spc = "unlink" /\ sloc'.id = sloc.id,
         spc' \in {"fork", "store"} => sloc'.node \in Find(sloc'.id)
  PROVE  AloneInv'
<1>1. \A x : {n \in linked' : heap'[n].id = x} = Find(x)
  BY DEF KeepsIds, Find
<1>2. ListTypes' /\ linked' \subseteq allocated'
  BY DEF AloneInv, ListTypes
<1>3. RetryNodeInv'
  BY <1>1 DEF RetryNodeInv, Find
<1>4. ASSUME NEW u \in updates'
      PROVE  UpdateInv(u)'
  <2>1. u \in updates /\ UpdateInv(u)
    BY <1>4 DEF AloneInv
  <2>2. updates' = {u} /\ u.seen = linked' /\ u.node \in allocated'
    BY <2>1 DEF UpdateInv
  <2>3. ASSUME NEW t \in Threads, u.by = t, tpc'[t] = "start_link"
        PROVE  u.node \notin linked' /\ loc'[t].id \in Workflows
                 /\ {n \in linked' : heap'[n].id = loc'[t].id} = {}
    BY <1>1, <2>1, <2>3 DEF UpdateInv
  <2>4. ASSUME NEW t \in Threads, u.by = t, tpc'[t] = "start_unlink"
        PROVE  {n \in linked' : heap'[n].id = loc'[t].id} = {u.node}
    BY <1>1, <2>1, <2>4 DEF UpdateInv
  <2>5. u.by = Null /\ spc' = "unlink" => {n \in linked' : heap'[n].id = sloc'.id} = {u.node}
    BY <1>1, <2>1 DEF UpdateInv
  <2> QED  BY <2>2, <2>3, <2>4, <2>5 DEF UpdateInv, Find
<1> QED  BY <1>2, <1>3, <1>4 DEF AloneInv

\* Where a step of thread t may lead without beginning an update.
GoesElsewhere(t) ==
  \/ Respond(t)
  \/ \E pc \in TPcs \ {"start_link", "start_unlink"} :
       Goto(t, pc) /\ (loc' = loc \/ \E l : loc' = [loc EXCEPT ![t] = l])

\* The same for a step of thread t.
LEMMA ThreadAlone ==
  ASSUME Inv, AloneInv, UNCHANGED list, KeepsIds, NEW t \in Threads,
         GoesElsewhere(t), UNCHANGED service
  PROVE  AloneInv'
<1>1. DOMAIN tpc = Threads /\ DOMAIN loc = Threads
  BY DEF Inv, StateTypes
<1>2. \A u \in Threads : tpc'[u] \in {"start_link", "start_unlink"} =>
        tpc'[u] = tpc[u] /\ loc'[u].id = loc[u].id
  BY <1>1 DEF GoesElsewhere, Respond, GotoWith, Goto
<1>3. spc' = spc /\ sloc' = sloc
  BY DEF service
<1>4. spc' \in {"fork", "store"} => sloc'.node \in Find(sloc'.id)
  BY <1>3 DEF AloneInv, RetryNodeInv
<1> QED  BY <1>2, <1>3, <1>4, AloneFrame

\* An update begins: nothing else is under way.
LEMMA BeginAlone ==
  ASSUME AloneInv, NEW who, NEW n, Begin(who, n), ~raced'
  PROVE  updates = {} /\ updates' = {[by |-> who, node |-> n, seen |-> linked]}
         /\ raced' \in BOOLEAN
<1>1. updates = {} /\ raced' = FALSE
  BY DEF Begin, AloneInv, ListTypes
<1> QED  BY <1>1 DEF Begin

LEMMA StartAddAlone ==
  ASSUME Inv, AloneInv, ~raced', NEW t \in Threads, NEW id \in Workflows, StartAdd(t, id)
  PROVE  AloneInv'
<1>1. PICK n \in Nodes \ allocated : Begin(t, n) /\ allocated' = allocated \cup {n}
  BY DEF StartAdd
<1>2. /\ Find(id) = {} /\ linked' = linked /\ heap' = heap /\ spc' = spc /\ sloc' = sloc
      /\ tpc' = [tpc EXCEPT ![t] = "start_link"]
      /\ loc' = [loc EXCEPT ![t] = [NoLoc EXCEPT !.id = id]]
  BY DEF StartAdd, GotoWith, Goto, service
<1>3. updates' = {[by |-> t, node |-> n, seen |-> linked]} /\ raced' \in BOOLEAN
  BY <1>1, BeginAlone
<1>4. t # Null /\ linked \subseteq Nodes /\ allocated \subseteq Nodes /\ linked \subseteq allocated
  BY NullAssumption DEF Inv, StateTypes, AloneInv, ListTypes
<1>5. tpc'[t] = "start_link" /\ loc'[t].id = id
  BY <1>2 DEF Inv, StateTypes, NoLoc
<1>6. ListTypes' /\ linked' \subseteq allocated'
  BY <1>1, <1>2, <1>3, <1>4 DEF ListTypes, Update
<1>7. RetryNodeInv'
  BY <1>2 DEF AloneInv, RetryNodeInv, Find
<1>8. ASSUME NEW u \in updates'
      PROVE  UpdateInv(u)'
  <2>1. updates' = {u} /\ u.by = t /\ u.node = n /\ u.seen = linked
    BY <1>3, <1>8
  <2> QED  BY <1>1, <1>2, <1>4, <1>5, <2>1 DEF UpdateInv, Find
<1> QED  BY <1>6, <1>7, <1>8 DEF AloneInv

LEMMA StartPipeFailsAlone ==
  ASSUME Inv, AloneInv, ~raced', NEW t \in Threads, StartPipeFails(t)
  PROVE  AloneInv'
<1>1. PICK n \in linked : Find(loc[t].id) = {n}
  BY StartedEntry DEF StartPipeFails, At, Starting
<1>2. /\ Begin(t, n) /\ linked' = linked /\ heap' = heap /\ spc' = spc /\ sloc' = sloc
      /\ tpc' = [tpc EXCEPT ![t] = "start_unlink"] /\ loc' = loc /\ allocated' = allocated
  BY <1>1 DEF StartPipeFails, Goto, service
<1>3. updates' = {[by |-> t, node |-> n, seen |-> linked]} /\ raced' \in BOOLEAN
  BY <1>2, BeginAlone
<1>4. t # Null /\ linked \subseteq Nodes /\ allocated \subseteq Nodes /\ linked \subseteq allocated
  BY NullAssumption DEF Inv, StateTypes, AloneInv, ListTypes
<1>5. tpc'[t] = "start_unlink"
  BY <1>2 DEF Inv, StateTypes
<1>6. ListTypes' /\ linked' \subseteq allocated'
  BY <1>2, <1>3, <1>4 DEF ListTypes, Update
<1>7. RetryNodeInv'
  BY <1>2 DEF AloneInv, RetryNodeInv, Find
<1>8. ASSUME NEW u \in updates'
      PROVE  UpdateInv(u)'
  <2>1. updates' = {u} /\ u.by = t /\ u.node = n /\ u.seen = linked
    BY <1>3, <1>8
  <2> QED  BY <1>1, <1>2, <1>4, <1>5, <2>1 DEF UpdateInv, Find
<1> QED  BY <1>6, <1>7, <1>8 DEF AloneInv

LEMMA CompletionRemoveAlone ==
  ASSUME Inv, AloneInv, ~raced', CompletionRemove
  PROVE  AloneInv'
<1>1. PICK n \in linked : Find(sloc.id) = {n}
  BY WorkedEntry DEF CompletionRemove, SAt, Working
<1>2. /\ Begin(Null, n) /\ linked' = linked /\ heap' = heap /\ tpc' = tpc /\ loc' = loc
      /\ spc' = "unlink" /\ sloc' = sloc /\ allocated' = allocated
  BY <1>1 DEF CompletionRemove, SGoto, http
<1>3. updates' = {[by |-> Null, node |-> n, seen |-> linked]} /\ raced' \in BOOLEAN
  BY <1>2, BeginAlone
<1>4. Null \notin Threads /\ linked \subseteq Nodes /\ allocated \subseteq Nodes
      /\ linked \subseteq allocated
  BY NullAssumption DEF Inv, StateTypes, AloneInv, ListTypes
<1>6. ListTypes' /\ linked' \subseteq allocated'
  BY <1>2, <1>3, <1>4 DEF ListTypes, Update
<1>7. RetryNodeInv'
  BY <1>2 DEF RetryNodeInv
<1>8. ASSUME NEW u \in updates'
      PROVE  UpdateInv(u)'
  <2>1. updates' = {u} /\ u.by = Null /\ u.node = n /\ u.seen = linked
    BY <1>3, <1>8
  <2> QED  BY <1>1, <1>2, <1>4, <2>1 DEF UpdateInv, Find
<1> QED  BY <1>6, <1>7, <1>8 DEF AloneInv

LEMMA StartLinkAlone ==
  ASSUME Inv, AloneInv, NEW t \in Threads, StartLink(t)
  PROVE  AloneInv'
<1>1. StateTypes /\ updates' = {} /\ allocated' = allocated
  BY ThreadLinks DEF Inv
<1>2. PICK n \in Nodes \ linked : /\ linked' = linked \cup {n} /\ n \in allocated
                                  /\ heap' = [heap EXCEPT ![n] = NewEntry(loc[t].id)]
  BY <1>1, ThreadLinks
<1>3. raced' = raced /\ spc' = spc /\ sloc' = sloc
  BY DEF StartLink, Link, service
<1>4. \A m \in linked : m \in Nodes /\ m # n /\ heap'[m] = heap[m]
  BY <1>1, <1>2 DEF StateTypes
<1>5. ListTypes' /\ linked' \subseteq allocated'
  BY <1>1, <1>2, <1>3 DEF AloneInv, ListTypes
<1>6. RetryNodeInv'
  BY <1>2, <1>3, <1>4 DEF AloneInv, RetryNodeInv, Find
<1> QED  BY <1>1, <1>5, <1>6 DEF AloneInv

LEMMA StartUnlinkAlone ==
  ASSUME Inv, AloneInv, NEW t \in Threads, StartUnlink(t)
  PROVE  AloneInv'
<1>1. tpc[t] \in Starting /\ heap' = heap /\ spc' = spc /\ sloc' = sloc
  BY DEF StartUnlink, At, Starting, service
<1>2. linked' = linked \ Find(loc[t].id) /\ updates' = {}
  BY ThreadUnlinks
<1>3. PICK u \in updates : u.by = t /\ Unlink(u)
  BY DEF StartUnlink
<1>4. allocated' = allocated \ {u.node} /\ raced' = raced /\ Find(loc[t].id) = {u.node}
  BY <1>3 DEF Unlink, AloneInv, UpdateInv, StartUnlink, At
<1>5. ListTypes' /\ linked' \subseteq allocated'
  BY <1>2, <1>4 DEF AloneInv, ListTypes
<1>6. RetryNodeInv'
  <2> SUFFICES ASSUME spc \in {"fork", "store"}
               PROVE  sloc.node \in linked' /\ heap[sloc.node].id = sloc.id
    BY <1>1 DEF RetryNodeInv, Find
  <2>1. PICK m \in linked : Find(sloc.id) = {m} /\ Seen(heap[m].executor_pid)
    BY WorkedEntry DEF Working
  <2>2. PICK n \in linked : Find(loc[t].id) = {n} /\ heap[n].executor_pid = 0
    BY <1>1, StartedEntry
  <2>3. sloc.node \in Find(sloc.id)
    BY DEF AloneInv, RetryNodeInv
  <2>4. sloc.node = m /\ m # n
    BY <2>1, <2>2, <2>3, SeenIsPositive
  <2> QED  BY <1>2, <2>2, <2>3, <2>4 DEF Find
<1> QED  BY <1>2, <1>5, <1>6 DEF AloneInv

LEMMA CompletionUnlinkAlone ==
  ASSUME Inv, AloneInv, CompletionUnlink
  PROVE  AloneInv'
<1>1. linked' = linked \ Find(sloc.id) /\ updates' = {} /\ spc' = "idle"
  BY ServiceUnlinks DEF CompletionUnlink, SGoto
<1>2. PICK u \in updates : u.by = Null /\ Unlink(u)
  BY DEF CompletionUnlink
<1>3. allocated' = allocated \ {u.node} /\ raced' = raced /\ Find(sloc.id) = {u.node}
  BY <1>2 DEF Unlink, AloneInv, UpdateInv, CompletionUnlink, SAt
<1>4. ListTypes' /\ linked' \subseteq allocated'
  BY <1>1, <1>3 DEF AloneInv, ListTypes
<1> QED  BY <1>1, <1>4 DEF AloneInv, RetryNodeInv

LEMMA DaemonGoneAlone ==
  ASSUME AloneInv, DaemonGone
  PROVE  AloneInv'
  BY DEF DaemonGone, AloneInv, ListTypes, RetryNodeInv


LEMMA SameIds == ASSUME heap' = heap PROVE KeepsIds
  BY DEF KeepsIds

LEMMA StartAlone ==
  ASSUME Inv, AloneInv, ~raced', NEW t \in Threads, Start(t)
  PROVE  AloneInv'
<1>1. CASE StartLink(t)
  BY <1>1, StartLinkAlone
<1>2. CASE StartPipeFails(t)
  BY <1>2, StartPipeFailsAlone
<1>3. CASE StartUnlink(t)
  BY <1>3, StartUnlinkAlone
<1>4. CASE StartForkFails(t)
  <2>1. KeepsIds
    BY <1>4, UpdatedKeepsIds DEF StartForkFails
  <2> QED  BY <1>4, <2>1, ThreadAlone DEF StartForkFails, GoesElsewhere
<1>5. CASE StartFork(t)
  <2>1. KeepsIds /\ GoesElsewhere(t) /\ UNCHANGED list /\ UNCHANGED service
    BY <1>5, SameIds DEF StartFork, registry, GoesElsewhere, GotoWith, TPcs
  <2> QED  BY <2>1, ThreadAlone
<1>6. CASE StartRunning(t)
  <2>1. KeepsIds
    BY <1>6, UpdatedKeepsIds DEF StartRunning
  <2>2. GoesElsewhere(t) /\ UNCHANGED list /\ UNCHANGED service
    BY <1>6 DEF StartRunning, GoesElsewhere, TPcs
  <2> QED  BY <2>1, <2>2, ThreadAlone
<1>7. CASE StartStorePid(t)
  <2>1. ASSUME \E n \in Find(loc[t].id) : heap' = [heap EXCEPT ![n].executor_pid = loc[t].pid]
        PROVE  KeepsIds
    BY <2>1, FoundStored DEF Stored
  <2>2. ASSUME heap' = heap
        PROVE  KeepsIds
    BY <2>2, SameIds
  <2>3. KeepsIds
    BY <1>7, <2>1, <2>2 DEF StartStorePid
  <2>4. GoesElsewhere(t) /\ UNCHANGED list /\ UNCHANGED service
    BY <1>7 DEF StartStorePid, GoesElsewhere, GotoWith, TPcs
  <2> QED  BY <2>3, <2>4, ThreadAlone
<1>8. CASE StartStorePipe(t)
  <2>1. loc[t].node \in Nodes /\ heap[loc[t].node] \in Entry
    BY <1>8 DEF StartStorePipe, At, Inv, HoldsInv, HoldsEntry, Holding
  <2>2. KeepsIds
    BY <1>8, <2>1, StoredKeepsIds DEF StartStorePipe, Stored
  <2>3. GoesElsewhere(t) /\ UNCHANGED list /\ UNCHANGED service
    BY <1>8 DEF StartStorePipe, GoesElsewhere
  <2> QED  BY <2>2, <2>3, ThreadAlone
<1> QED  BY <1>1, <1>2, <1>3, <1>4, <1>5, <1>6, <1>7, <1>8 DEF Start

LEMMA HeldAlone ==
  ASSUME Inv, AloneInv, NEW t \in Threads, Abandon(t) \/ Control(t)
  PROVE  AloneInv'
<1>1. tpc[t] \in Holding /\ up => loc[t].node \in Nodes /\ heap[loc[t].node] \in Entry
  BY DEF Inv, HoldsInv, HoldsEntry
<1>2. CASE AbandonFlag(t)
  <2>1. KeepsIds
    BY <1>1, <1>2, StoredKeepsIds DEF AbandonFlag, At, Stored, Holding, Abandoning
  <2>2. GoesElsewhere(t) /\ UNCHANGED list /\ UNCHANGED service
    BY <1>2 DEF AbandonFlag, GoesElsewhere, TPcs
  <2> QED  BY <2>1, <2>2, ThreadAlone
<1>3. CASE PauseSet(t)
  <2>1. KeepsIds
    BY <1>1, <1>3, StoredKeepsIds DEF PauseSet, At, Stored, Holding, Pausing
  <2>2. GoesElsewhere(t) /\ UNCHANGED list /\ UNCHANGED service
    BY <1>3 DEF PauseSet, GoesElsewhere
  <2> QED  BY <2>1, <2>2, ThreadAlone
<1>4. CASE ResumeSet(t)
  <2>1. KeepsIds
    BY <1>1, <1>4, StoredKeepsIds DEF ResumeSet, At, Stored, Holding, Resuming
  <2>2. GoesElsewhere(t) /\ UNCHANGED list /\ UNCHANGED service
    BY <1>4 DEF ResumeSet, GoesElsewhere
  <2> QED  BY <2>1, <2>2, ThreadAlone
<1>5. CASE InputSigpipe(t)
  BY <1>5, DaemonGoneAlone DEF InputSigpipe
<1>6. ASSUME GoesElsewhere(t), UNCHANGED registry, UNCHANGED service
      PROVE  AloneInv'
  <2>1. KeepsIds /\ UNCHANGED list
    BY <1>6, SameIds DEF registry
  <2> QED  BY <1>6, <2>1, ThreadAlone
<1>7. CASE AbandonNothingToKill(t) \/ AbandonTest(t) \/ AbandonKill(t) \/ AbandonKillFails(t)
  BY <1>6, <1>7 DEF AbandonNothingToKill, AbandonTest, AbandonKill, AbandonKillFails,
                    GoesElsewhere, TPcs
<1>8. CASE PauseTest(t) \/ ResumeTest(t) \/ InputTest(t) \/ InputWrite(t)
  BY <1>6, <1>8 DEF PauseTest, ResumeTest, InputTest, InputWrite, GoesElsewhere, TPcs
<1>9. CASE PausePid(t) \/ ResumePid(t)
  BY <1>6, <1>9 DEF PausePid, ResumePid, GoesElsewhere, TPcs
<1>10. CASE PauseKill(t) \/ ResumeKill(t)
  BY <1>6, <1>10 DEF PauseKill, ResumeKill, GoesElsewhere, TPcs
<1> QED  BY <1>2, <1>3, <1>4, <1>5, <1>7, <1>8, <1>9, <1>10 DEF Abandon, Control

LEMMA RequestAlone ==
  ASSUME Inv, AloneInv, NEW t \in Threads, NEW id \in Workflows, NEW op \in DOMAIN FirstPc,
         RequestFind(t, op, id)
  PROVE  AloneInv'
<1>1. FirstPc[op] \in TPcs \ {"start_link", "start_unlink"}
  BY DEF FirstPc, TPcs
<1>2. GoesElsewhere(t) /\ UNCHANGED registry /\ UNCHANGED service
  BY <1>1 DEF RequestFind, GoesElsewhere, GotoWith
<1>3. KeepsIds /\ UNCHANGED list
  BY <1>2, SameIds DEF registry
<1> QED  BY <1>2, <1>3, ThreadAlone

\* The same frame for the services thread.
LEMMA ServiceAlone ==
  ASSUME AloneInv, UNCHANGED list, KeepsIds, UNCHANGED http, spc' # "unlink",
         spc' \in {"fork", "store"} => sloc'.node \in Find(sloc'.id)
  PROVE  AloneInv'
<1>1. tpc' = tpc /\ loc' = loc
  BY DEF http
<1> QED  BY <1>1, AloneFrame

LEMMA CompletionAlone ==
  ASSUME Inv, AloneInv, ~raced', Completion \/ Timeout
  PROVE  AloneInv'
<1>1. ASSUME UNCHANGED registry, UNCHANGED http, spc' \notin {"unlink", "fork", "store"}
      PROVE  AloneInv'
  <2>1. KeepsIds /\ UNCHANGED list
    BY <1>1, SameIds DEF registry
  <2> QED  BY <1>1, <2>1, ServiceAlone
<1>2. CASE CompletionPop \/ CompletionUnmatched \/ CompletionMatch
  BY <1>1, <1>2 DEF CompletionPop, CompletionUnmatched, CompletionMatch, SGoto
<1>3. CASE CompletionDecide \/ CompletionNotFound \/ FailureNoRetry \/ RetryForkFails
  BY <1>1, <1>3 DEF CompletionDecide, CompletionNotFound, FailureNoRetry, RetryForkFails, SGoto
<1>4. CASE CompletionRemove
  BY <1>4, CompletionRemoveAlone
<1>5. CASE CompletionUnlink
  BY <1>5, CompletionUnlinkAlone
<1>6. CASE FailureRetry
  <2>1. PICK n \in Find(sloc.id) :
          /\ heap' = [heap EXCEPT ![n].retry_count = @ + 1]
          /\ sloc' = [sloc EXCEPT !.node = n]
    BY <1>6 DEF FailureRetry, SGoto
  <2>2. KeepsIds
    BY <2>1, FoundStored DEF Stored
  <2>3. sloc'.node \in Find(sloc'.id)
    BY <2>1 DEF Inv, StateTypes
  <2> QED  BY <1>6, <2>2, <2>3, ServiceAlone DEF FailureRetry, SGoto
<1>7. CASE RetryFork
  <2>1. PICK p \in Pids : sloc' = [sloc EXCEPT !.pid = p]
    BY <1>7 DEF RetryFork, SGoto, NewPids
  <2>2. sloc'.node \in Find(sloc'.id)
    BY <1>7, <2>1 DEF RetryFork, SAt, AloneInv, RetryNodeInv, Inv, StateTypes
  <2>3. KeepsIds /\ UNCHANGED list /\ UNCHANGED http /\ spc' # "unlink"
    BY <1>7, SameIds DEF RetryFork, registry, SGoto
  <2> QED  BY <2>2, <2>3, ServiceAlone
<1>8. CASE RetryStorePid
  <2>1. sloc.node \in Find(sloc.id)
    BY <1>8 DEF RetryStorePid, SAt, AloneInv, RetryNodeInv
  <2>2. KeepsIds
    BY <1>8, <2>1, FoundStored DEF RetryStorePid, Stored
  <2> QED  BY <1>8, <2>2, ServiceAlone DEF RetryStorePid, SGoto
<1>9. CASE RetryRunning
  <2>1. KeepsIds
    BY <1>9, UpdatedKeepsIds DEF RetryRunning
  <2> QED  BY <1>9, <2>1, ServiceAlone DEF RetryRunning, SGoto
<1>10. CASE TimeoutFound \/ TimeoutKill
  BY <1>1, <1>10 DEF TimeoutFound, TimeoutKill, SGoto
<1>11. CASE TimeoutFlag
  <2>1. ASSUME \E n \in Find(sloc.id) : heap' = [heap EXCEPT ![n].abandon_requested = TRUE]
        PROVE  KeepsIds
    BY <2>1, FoundStored DEF Stored
  <2>2. ASSUME heap' = heap
        PROVE  KeepsIds
    BY <2>2, SameIds
  <2>3. KeepsIds
    BY <1>11, <2>1, <2>2 DEF TimeoutFlag
  <2> QED  BY <1>11, <2>3, ServiceAlone DEF TimeoutFlag, SGoto
<1> QED  BY <1>2, <1>3, <1>4, <1>5, <1>6, <1>7, <1>8, <1>9, <1>10, <1>11 DEF Completion, Timeout

LEMMA AloneIgnores ==
  ASSUME AloneInv, UNCHANGED <<registry, http, service>>
  PROVE  AloneInv'
<1>1. KeepsIds /\ UNCHANGED list /\ tpc' = tpc /\ loc' = loc /\ spc' = spc /\ sloc' = sloc
  BY SameIds DEF registry, http, service
<1>2. spc' \in {"fork", "store"} => sloc'.node \in Find(sloc'.id)
  BY <1>1 DEF AloneInv, RetryNodeInv
<1> QED  BY <1>1, <1>2, AloneFrame

LEMMA StepAlone == Inv /\ AloneInv /\ ~raced' /\ [Next]_vars => AloneInv'
<1> SUFFICES ASSUME Inv, AloneInv, ~raced', [Next]_vars PROVE AloneInv'
  OBVIOUS
<1>1. ASSUME NEW t \in Threads, Serve(t) PROVE AloneInv'
  BY <1>1, StartAlone, HeldAlone DEF Serve
<1>2. ASSUME UNCHANGED vars PROVE AloneInv'
  BY <1>2, AloneIgnores DEF vars
<1>3. ASSUME NEW t \in Threads, NEW id \in Workflows, Request(t, id) PROVE AloneInv'
  BY <1>2, <1>3, StartAddAlone, RequestAlone DEF Request, StartDuplicate, RequestNotFound
<1>4. ASSUME NEW p \in Pids, Reap(p) \/ OrphanExits(p) \/ ProcessExits(p) PROVE AloneInv'
  BY <1>4, AloneIgnores DEF Reap, OrphanExits, ProcessExits
<1>5. CASE Completion \/ Timeout
  BY <1>5, CompletionAlone
<1>6. CASE Crash
  BY <1>6, DaemonGoneAlone DEF Crash
<1>7. CASE Restart
  BY <1>7, AloneIgnores DEF Restart
<1> QED  BY <1>1, <1>2, <1>3, <1>4, <1>5, <1>6, <1>7 DEF Next

LEMMA InitAlone == Init => AloneInv
  BY DEF Init, AloneInv, ListTypes, RetryNodeInv


\* That two updates have overlapped is not forgotten.
LEMMA RacedStays == raced /\ [Next]_vars => raced'
<1> SUFFICES ASSUME raced, [Next]_vars PROVE raced'
  OBVIOUS
<1>1. ASSUME UNCHANGED list PROVE raced'
  BY <1>1
<1>2. ASSUME UNCHANGED registry PROVE raced'
  BY <1>2 DEF registry
<1>3. ASSUME NEW who, NEW n, Begin(who, n) PROVE raced'
  BY <1>3 DEF Begin
<1>4. ASSUME NEW u, Link(u) \/ Unlink(u) PROVE raced'
  BY <1>4 DEF Link, Unlink
<1>5. ASSUME DaemonGone PROVE raced'
  BY <1>5 DEF DaemonGone
<1>6. ASSUME NEW t \in Threads, Start(t) PROVE raced'
  <2>1. CASE StartLink(t) \/ StartUnlink(t)
    BY <1>4, <2>1 DEF StartLink, StartUnlink
  <2>2. CASE StartPipeFails(t)
    BY <1>3, <2>2 DEF StartPipeFails
  <2>3. CASE StartForkFails(t) \/ StartRunning(t) \/ StartStorePid(t) \/ StartStorePipe(t)
    BY <1>1, <2>3 DEF StartForkFails, StartRunning, StartStorePid, StartStorePipe
  <2>4. CASE StartFork(t)
    BY <1>2, <2>4 DEF StartFork
  <2> QED  BY <1>6, <2>1, <2>2, <2>3, <2>4 DEF Start
<1>7. ASSUME NEW t \in Threads, Abandon(t) \/ Control(t) PROVE raced'
  <2>1. CASE AbandonFlag(t) \/ PauseSet(t) \/ ResumeSet(t)
    BY <1>1, <2>1 DEF AbandonFlag, PauseSet, ResumeSet
  <2>2. CASE AbandonNothingToKill(t) \/ AbandonTest(t) \/ AbandonKill(t) \/ AbandonKillFails(t)
    BY <1>2, <2>2 DEF AbandonNothingToKill, AbandonTest, AbandonKill, AbandonKillFails
  <2>3. CASE PauseTest(t) \/ PausePid(t) \/ PauseKill(t) \/ InputTest(t) \/ InputWrite(t)
    BY <1>2, <2>3 DEF PauseTest, PausePid, PauseKill, InputTest, InputWrite
  <2>4. CASE ResumeTest(t) \/ ResumePid(t) \/ ResumeKill(t)
    BY <1>2, <2>4 DEF ResumeTest, ResumePid, ResumeKill
  <2>5. CASE InputSigpipe(t)
    BY <1>5, <2>5 DEF InputSigpipe
  <2> QED  BY <1>7, <2>1, <2>2, <2>3, <2>4, <2>5 DEF Abandon, Control
<1>8. ASSUME NEW t \in Threads, NEW id \in Workflows, Request(t, id) PROVE raced'
  <2>1. CASE StartAdd(t, id)
    BY <1>3, <2>1 DEF StartAdd
  <2>2. CASE StartDuplicate(t, id) \/ \E op \in DOMAIN FirstPc : RequestNotFound(t, op, id)
    BY <1>2, <2>2 DEF StartDuplicate, RequestNotFound, vars
  <2>3. CASE \E op \in DOMAIN FirstPc : RequestFind(t, op, id)
    BY <1>2, <2>3 DEF RequestFind
  <2> QED  BY <1>8, <2>1, <2>2, <2>3 DEF Request
<1>9. ASSUME NEW p \in Pids, Reap(p) \/ OrphanExits(p) \/ ProcessExits(p) PROVE raced'
  BY <1>2, <1>9 DEF Reap, OrphanExits, ProcessExits
<1>10. CASE Completion
  <2>1. CASE CompletionRemove
    BY <1>3, <2>1 DEF CompletionRemove
  <2>2. CASE CompletionUnlink
    BY <1>4, <2>2 DEF CompletionUnlink
  <2>3. CASE FailureRetry \/ RetryStorePid \/ RetryRunning
    BY <1>1, <2>3 DEF FailureRetry, RetryStorePid, RetryRunning
  <2>4. CASE CompletionPop \/ CompletionUnmatched \/ CompletionMatch \/ CompletionDecide
    BY <1>2, <2>4 DEF CompletionPop, CompletionUnmatched, CompletionMatch, CompletionDecide
  <2>5. CASE CompletionNotFound \/ FailureNoRetry \/ RetryFork \/ RetryForkFails
    BY <1>2, <2>5 DEF CompletionNotFound, FailureNoRetry, RetryFork, RetryForkFails
  <2> QED  BY <1>10, <2>1, <2>2, <2>3, <2>4, <2>5 DEF Completion
<1>11. CASE Timeout
  BY <1>1, <1>2, <1>11 DEF Timeout, TimeoutFound, TimeoutKill, TimeoutFlag
<1>12. CASE Crash \/ Restart
  BY <1>2, <1>5, <1>12 DEF Crash, Restart
<1>13. CASE UNCHANGED vars
  BY <1>2, <1>13 DEF vars
<1> QED  BY <1>6, <1>7, <1>8, <1>9, <1>10, <1>11, <1>12, <1>13 DEF Next, Serve

\* In every state that is reached without two overlapping updates of the list, the
\* process of each start is where the daemon can find it, whatever the threads,
\* the services thread and crashes do.
THEOREM InvHolds == Spec => [](~raced => Inv /\ AloneInv)
<1>1. Init => (~raced => Inv /\ AloneInv)
  BY InitInv, InitAlone
<1>2. (~raced => Inv /\ AloneInv) /\ [Next]_vars => (~raced => Inv /\ AloneInv)'
  BY StepInv, StepAlone, RacedStays
<1> QED  BY <1>1, <1>2, PTL DEF Spec

\* Every variable keeps its type for every value of the constants as long as no
\* two updates of the list overlap; in particular the retry count of an entry
\* never passes max_retries.
THEOREM TypeCorrect == Spec => [](~raced => TypeOK)
<1>1. (~raced => Inv /\ AloneInv) => (~raced => TypeOK)
  BY DEF Inv, AloneInv, TypeOK
<1> QED  BY <1>1, InvHolds, PTL

LEMMA InvOwned == (~raced => Inv) => NoUnownedProcess
<1> SUFFICES ASSUME Inv, NEW p \in Pids, Unreaped(p)
             PROVE  Registered(owner[p])
  BY DEF NoUnownedProcess
<1>1. InEntry(p) \/ InStart(p) \/ InRetry(p)
  BY DEF Inv, ProcessInv, Unseen
<1>2. InStart(p) => Registered(owner[p])
  <2> SUFFICES ASSUME NEW t \in Threads, tpc[t] \in Forked, loc[t].job = owner[p]
               PROVE  Registered(owner[p])
    BY DEF InStart
  <2>1. tpc[t] \in Starting
    BY DEF Starting, Forked
  <2> QED  BY <2>1, StartedEntry DEF Registered
<1> QED  BY <1>1, <1>2 DEF InEntry, InRetry, Registered

\* As long as no two updates of the list overlap, a child that is not reaped
\* belongs to a workflow that is still registered: workflow_completion_task never
\* removes the entry of a workflow whose process lives, however starts, requests,
\* retries, timeouts and exits interleave.
THEOREM ProcessesOwned == Spec => []NoUnownedProcess
  BY InvOwned, InvHolds, PTL

\* Two processes of one start whose exits were not seen are the same process:
\* the three places a process can be in exclude each other.
LEMMA UnseenUnique ==
  ASSUME Inv, NEW p \in Pids, NEW q \in Pids, Unseen(p), Unseen(q), owner[p] = owner[q]
  PROVE  p = q
<1>1. (InEntry(p) \/ InStart(p) \/ InRetry(p)) /\ (InEntry(q) \/ InStart(q) \/ InRetry(q))
  BY DEF Inv, ProcessInv
<1>2. ASSUME NEW n \in linked, NEW m \in linked, heap[n].job = heap[m].job
      PROVE  n = m
  BY <1>2 DEF Inv, RegistryInv
<1>3. ASSUME NEW r \in Pids, InStart(r)
      PROVE  \E n \in linked : heap[n].job = owner[r] /\ heap[n].executor_pid = 0
  <2>1. PICK t \in Threads : tpc[t] \in Forked /\ loc[t].job = owner[r]
    BY <1>3 DEF InStart
  <2>2. tpc[t] \in Starting
    BY <2>1 DEF Starting, Forked
  <2> QED  BY <2>1, <2>2, StartedEntry
<1>4. ASSUME NEW r \in Pids, InRetry(r)
      PROVE  \E n \in linked : heap[n].job = owner[r] /\ Seen(heap[n].executor_pid)
  <2>1. PICK n \in linked : heap[n].id = sloc.id /\ heap[n].job = owner[r]
    BY <1>4 DEF InRetry
  <2>2. PICK m \in linked : heap[m].id = sloc.id /\ Seen(heap[m].executor_pid)
    BY <1>4 DEF InRetry, Inv, ServiceInv, Working
  <2>3. n = m
    BY <2>1, <2>2 DEF Inv, RegistryInv
  <2> QED  BY <2>1, <2>2, <2>3
<1>5. ~Seen(p) /\ ~Seen(q) /\ p # 0 /\ q # 0
  BY SeenIsPositive DEF Pids
<1>6. CASE InEntry(p)
  <2>1. PICK n \in linked : heap[n].job = owner[p] /\ heap[n].executor_pid = p
    BY <1>6 DEF InEntry
  <2>2. ~InStart(q)
    BY <1>2, <1>3, <1>5, <2>1
  <2>3. ~InRetry(q)
    BY <1>2, <1>4, <1>5, <2>1
  <2> QED  BY <1>1, <1>2, <2>1, <2>2, <2>3 DEF InEntry
<1>7. CASE InStart(p)
  <2>1. PICK n \in linked : heap[n].job = owner[p] /\ heap[n].executor_pid = 0
    BY <1>3, <1>7
  <2>2. ~InEntry(q)
    BY <1>2, <1>5, <2>1 DEF InEntry
  <2>3. ~InRetry(q)
    BY <1>2, <1>4, <2>1, SeenIsPositive
  <2>4. PICK t \in Threads : tpc[t] \in Forked /\ loc[t].pid = p /\ loc[t].job = owner[p]
    BY <1>7 DEF InStart
  <2>5. PICK u \in Threads : tpc[u] \in Forked /\ loc[u].pid = q /\ loc[u].job = owner[q]
    BY <1>1, <2>2, <2>3 DEF InStart
  <2>6. tpc[t] \in Starting /\ tpc[u] \in Starting
    BY <2>4, <2>5 DEF Starting, Forked
  <2>7. t = u
    BY <2>4, <2>5, <2>6 DEF Inv, StartsInv
  <2> QED  BY <2>4, <2>5, <2>7
<1>8. CASE InRetry(p)
  <2>1. PICK n \in linked : heap[n].job = owner[p] /\ Seen(heap[n].executor_pid)
    BY <1>4, <1>8
  <2>2. ~InEntry(q)
    BY <1>2, <1>5, <2>1 DEF InEntry
  <2>3. ~InStart(q)
    BY <1>2, <1>3, <2>1, SeenIsPositive
  <2> QED  BY <1>1, <1>8, <2>2, <2>3 DEF InRetry
<1> QED  BY <1>1, <1>6, <1>7, <1>8

LEMMA InvOneProcess == (~raced => Inv) => OneProcessPerStart
<1> SUFFICES ASSUME Inv, NEW j \in Starts
             PROVE  Cardinality({p \in Processes(j) : Unseen(p)}) <= 1
  BY DEF OneProcessPerStart, Unseen, Queued
<1> DEFINE S == {p \in Processes(j) : Unseen(p)}
<1>1. \A p, q \in S : p = q
  BY UnseenUnique DEF Processes
<1>2. CASE S = {}
  BY <1>2, FS_EmptySet
<1>3. CASE S # {}
  <2>1. PICK p : p \in S
    BY <1>3
  <2>2. S = {p}
    BY <1>1, <2>1
  <2>3. Cardinality({p}) = 1
    BY FS_Singleton
  <2> HIDE DEF S
  <2> QED  BY <2>2, <2>3 DEF S
<1> QED  BY <1>2, <1>3

\* Of the processes forked for one start, by daemon_execute_bash_workflow or by
\* retry_workflow_execution, at most one has an exit that the completion task has
\* not seen: executions of one workflow never overlap, unless updates of the list did.
THEOREM ExecutionsNeverOverlap == Spec => []OneProcessPerStart
  BY InvOneProcess, InvHolds, PTL

-----------------------------------------------------------------------------
(* Without pause requests an abandoned workflow is not retried. *)

\* Entries keep their identity, and a flag once set stays set.
KeepsNames == \A n \in Nodes : heap[n] \in Entry =>
                /\ heap'[n] \in Entry
                /\ heap'[n].id = heap[n].id /\ heap'[n].job = heap[n].job
                /\ heap[n].abandon_requested => heap'[n].abandon_requested
\* A running entry stays so.
KeepsRunning == \A n \in linked : heap[n].state = "RUNNING" => heap'[n].state = "RUNNING"

LEMMA LinkedEntries == ASSUME Inv
                       PROVE  \A n \in linked : n \in Nodes /\ heap[n] \in Entry
  BY DEF Inv, StateTypes, RegistryInv

LEMMA SameNames == ASSUME Inv, AbandonInv, heap' = heap
                   PROVE  KeepsNames /\ KeepsRunning /\ NoneIsPaused'
  BY DEF KeepsNames, KeepsRunning, NoneIsPaused, AbandonInv

LEMMA StoreNames ==
  ASSUME Inv, AbandonInv, NEW n \in Nodes, heap[n] \in Entry, NEW e \in Entry,
         heap' = [heap EXCEPT ![n] = e], e.id = heap[n].id, e.job = heap[n].job,
         heap[n].abandon_requested => e.abandon_requested, e.state = heap[n].state
  PROVE  KeepsNames /\ KeepsRunning /\ NoneIsPaused'
<1>1. heap'[n] = e /\ \A m \in Nodes \ {n} : heap'[m] = heap[m]
  BY DEF Inv, StateTypes
<1> QED  BY <1>1, LinkedEntries DEF KeepsNames, KeepsRunning, NoneIsPaused, AbandonInv

LEMMA UpdateNames ==
  ASSUME Inv, AbandonInv, NEW id, NEW s \in {"RUNNING", "FAILED"}, UpdateState(id, s)
  PROVE  /\ KeepsNames /\ NoneIsPaused'
         /\ \A n \in linked : heap'[n].state = IF heap[n].id = id THEN s ELSE heap[n].state
<1>1. ASSUME NEW n \in Nodes, heap[n] \in Entry
      PROVE  LET e == [heap[n] EXCEPT !.state = s] IN
             e \in Entry /\ e.id = heap[n].id /\ e.job = heap[n].job
               /\ e.abandon_requested = heap[n].abandon_requested /\ e.state = s
  BY <1>1 DEF Entry, States
<1>2. \A n \in Nodes : heap'[n] = IF n \in Find(id) THEN [heap[n] EXCEPT !.state = s] ELSE heap[n]
  BY UpdatedEntries DEF Inv
<1>3. KeepsNames
  BY <1>1, <1>2 DEF KeepsNames
<1>4. NoneIsPaused'
  BY <1>1, <1>2, LinkedEntries DEF NoneIsPaused, AbandonInv, Find
<1>5. \A n \in linked : heap'[n].state = IF heap[n].id = id THEN s ELSE heap[n].state
  BY <1>1, <1>2, LinkedEntries DEF Find
<1> QED  BY <1>3, <1>4, <1>5

LEMMA AckedStays ==
  ASSUME Inv, AbandonInv, KeepsNames, linked' \subseteq linked, starts' = starts, acked' = acked
  PROVE  AckedInv'
  BY LinkedEntries DEF AbandonInv, AckedInv, KeepsNames

LEMMA RetriedStays ==
  ASSUME Inv, AbandonInv, KeepsNames, KeepsRunning, linked' \subseteq linked,
         acked' = acked, spc' = spc, sloc' = sloc
  PROVE  RetriedInv'
  BY LinkedEntries DEF AbandonInv, RetriedInv, KeepsNames, KeepsRunning

\* Threads that a step leaves alone.
LEMMA RequestStays ==
  ASSUME Inv, AbandonInv, KeepsNames, linked' \subseteq linked, owner' = owner,
         NEW u \in Threads, tpc'[u] = tpc[u], loc'[u] = loc[u]
  PROVE  RequestInv(u)'
  BY LinkedEntries DEF AbandonInv, RequestInv, KeepsNames

LEMMA AbandonFrame ==
  ASSUME Inv, AbandonInv, KeepsNames, NoneIsPaused', linked' \subseteq linked,
         starts' = starts, owner' = owner, AckedInv', RetriedInv',
         \A u \in Threads : RequestInv(u)' \/ (tpc'[u] = tpc[u] /\ loc'[u] = loc[u])
  PROVE  AbandonInv'
<1>1. OwnersInv'
  BY DEF AbandonInv, OwnersInv
<1>2. \A u \in Threads : RequestInv(u)'
  BY RequestStays
<1> QED  BY <1>1, <1>2 DEF AbandonInv

\* A connection thread moves to a place about which nothing is required.
Elsewhere == {"idle", "start_link", "start_unlink", "start_running", "start_pid",
              "start_pipe", "resume_test", "input_test", "input_write"}

LEMMA ThreadElsewhere ==
  ASSUME Inv, AbandonInv, KeepsNames, KeepsRunning, NoneIsPaused', linked' \subseteq linked,
         starts' = starts, owner' = owner, acked' = acked, spc' = spc, sloc' = sloc,
         NEW t \in Threads, NEW pc \in Elsewhere, tpc' = [tpc EXCEPT ![t] = pc],
         \A u \in Threads \ {t} : loc'[u] = loc[u]
  PROVE  AbandonInv'
<1>1. tpc'[t] = pc /\ \A u \in Threads \ {t} : tpc'[u] = tpc[u]
  BY DEF Inv, StateTypes
<1>2. RequestInv(t)'
  BY <1>1 DEF RequestInv, Elsewhere, Pausing, Resuming, Abandoning
<1>3. AckedInv' /\ RetriedInv'
  BY AckedStays, RetriedStays
<1> QED  BY <1>1, <1>2, <1>3, AbandonFrame

LEMMA OtherLocs == ASSUME Inv, NEW t \in Threads, NEW l, loc' = [loc EXCEPT ![t] = l]
                   PROVE  loc'[t] = l /\ \A u \in Threads \ {t} : loc'[u] = loc[u]
  BY DEF Inv, StateTypes

LEMMA DaemonGoneAbandon ==
  ASSUME Inv, AbandonInv, DaemonGone
  PROVE  AbandonInv'
<1> USE DEF DaemonGone
<1>1. Null \notin Entry
  BY NullAssumption
<1> QED  BY <1>1 DEF AbandonInv, AckedInv, OwnersInv, NoneIsPaused, RetriedInv, RequestInv,
              Pausing, Resuming, Abandoning

LEMMA RequestFindAbandon ==
  ASSUME Inv, AbandonInv, "pause" \notin Ops,
         NEW t \in Threads, NEW op \in DOMAIN FirstPc, NEW id \in Workflows,
         RequestFind(t, op, id)
  PROVE  AbandonInv'
<1>1. PICK n \in Find(id) :
        GotoWith(t, FirstPc[op], [id |-> id, node |-> n, pid |-> 0, job |-> heap[n].job])
  BY DEF RequestFind
<1> DEFINE l == [id |-> id, node |-> n, pid |-> 0, job |-> heap[n].job]
<1>2. FirstPc[op] \in {"abandon_flag", "resume_test", "input_test"}
  BY DEF FirstPc, RequestFind
<1>3. /\ heap' = heap /\ linked' = linked /\ starts' = starts /\ owner' = owner
      /\ acked' = acked /\ spc' = spc /\ sloc' = sloc
      /\ tpc' = [tpc EXCEPT ![t] = FirstPc[op]] /\ loc' = [loc EXCEPT ![t] = l]
  BY <1>1 DEF RequestFind, GotoWith, Goto, registry, procs, service
<1>4. /\ tpc'[t] = FirstPc[op] /\ loc'[t] = l
      /\ \A u \in Threads \ {t} : tpc'[u] = tpc[u] /\ loc'[u] = loc[u]
  BY <1>3 DEF Inv, StateTypes
<1>5. KeepsNames /\ KeepsRunning /\ NoneIsPaused' /\ AckedInv' /\ RetriedInv'
  BY <1>3, SameNames, AckedStays, RetriedStays
<1>6. \A m \in linked : heap[m].job = heap[n].job => m = n
  BY DEF Find, Inv, RegistryInv
<1>7. l.node = n /\ l.job = heap[n].job
  OBVIOUS
<1> HIDE DEF l
<1>8. RequestInv(t)'
  BY <1>2, <1>3, <1>4, <1>6, <1>7 DEF RequestInv, Pausing, Resuming, Abandoning
<1> QED  BY <1>3, <1>4, <1>5, <1>8, AbandonFrame

LEMMA StartAddAbandon ==
  ASSUME Inv, AbandonInv, NEW t \in Threads, NEW id \in Workflows, StartAdd(t, id)
  PROVE  AbandonInv'
<1>1. /\ tpc' = [tpc EXCEPT ![t] = "start_link"]
      /\ loc' = [loc EXCEPT ![t] = [NoLoc EXCEPT !.id = id]]
      /\ heap' = heap /\ linked' = linked /\ starts' = starts /\ owner' = owner
      /\ acked' = acked /\ spc' = spc /\ sloc' = sloc /\ "start_link" \in Elsewhere
  BY DEF StartAdd, GotoWith, Goto, procs, service, Elsewhere
<1> QED  BY <1>1, SameNames, OtherLocs, ThreadElsewhere

LEMMA StartLinkAbandon ==
  ASSUME Inv, AloneInv, AbandonInv, NEW t \in Threads, StartLink(t)
  PROVE  AbandonInv'
<1> DEFINE id == loc[t].id
           l == [loc[t] EXCEPT !.job = starts + 1]
           e == NewEntry(id)
<1>0. StateTypes /\ Find(id) = {} /\ loc[t] \in Locals
  BY ThreadLinks, Unmoved DEF Inv
<1>1. PICK n \in Nodes \ linked : linked' = linked \cup {n} /\ heap' = [heap EXCEPT ![n] = e]
  BY <1>0, ThreadLinks
<1>2. /\ starts' = starts + 1 /\ Find(id) = {} /\ starts < MaxStarts
      /\ tpc' = [tpc EXCEPT ![t] = "start_fork"] /\ loc' = [loc EXCEPT ![t] = l]
      /\ owner' = owner /\ acked' = acked /\ spc' = spc /\ sloc' = sloc
  BY <1>0 DEF StartLink, GotoWith, Goto, procs, service
<1>3. starts \in Nat /\ starts + 1 \in 0..MaxStarts
  BY <1>2, Unmoved, BoundsAssumption
<1>4. e.id = id /\ e.job = starts + 1 /\ e.state = "PENDING"
  BY DEF NewEntry
<1>5. l.job = starts + 1
  BY <1>0, <1>3, NewLocal
<1> HIDE DEF e, l, id
<1>6. heap'[n] = e /\ \A m \in Nodes \ {n} : heap'[m] = heap[m]
  BY <1>1 DEF Inv, StateTypes
<1>7. \A m \in linked : heap'[m] = heap[m] /\ heap[m].id # id /\ heap[m].job <= starts
                        /\ heap[m].job \in Nat
  BY <1>1, <1>2, <1>6, LinkedEntries DEF Find, Inv, RegistryInv, Entry, Starts
<1>8. /\ tpc'[t] = "start_fork" /\ loc'[t] = l
      /\ \A u \in Threads \ {t} : tpc'[u] = tpc[u] /\ loc'[u] = loc[u]
  BY <1>2 DEF Inv, StateTypes
<1>9. acked \subseteq Nat /\ \A p \in Pids : owner[p] \in Nat
  BY DEF Inv, StateTypes, Starts
<1>10. starts + 1 \notin acked /\ \A p \in Pids : owner[p] # starts + 1
  BY <1>3, <1>9 DEF AbandonInv, AckedInv, OwnersInv
<1>11. AckedInv'
  BY <1>1, <1>2, <1>3, <1>4, <1>6, <1>7, <1>9, <1>10 DEF AbandonInv, AckedInv
<1>12. OwnersInv'
  BY <1>2, <1>3, <1>9 DEF AbandonInv, OwnersInv
<1>13. NoneIsPaused'
  BY <1>4, <1>6 DEF AbandonInv, NoneIsPaused
<1>14. RetriedInv'
  <2>1. spc \in {"decide", "failed", "fork"} => sloc.id # id
    BY <1>2, WorkedEntry DEF Working
  <2> QED  BY <1>1, <1>2, <1>4, <1>6, <1>7, <2>1 DEF AbandonInv, RetriedInv
<1>15. RequestInv(t)'
  BY <1>2, <1>5, <1>8, <1>10 DEF RequestInv, Pausing, Resuming, Abandoning
<1>16. ASSUME NEW u \in Threads \ {t}
       PROVE  RequestInv(u)'
  <2>1. tpc[u] \in Abandoning => loc[u].job \in 1..starts
    BY DEF Inv, HoldsInv, HoldsEntry, Holding
  <2>2. tpc[u] \in Abandoning => loc[u].job # starts + 1
    BY <1>3, <2>1
  <2>3. RequestInv(u)
    BY DEF AbandonInv
  <2> QED  BY <1>1, <1>2, <1>4, <1>6, <1>7, <1>8, <2>2, <2>3 DEF RequestInv
<1> QED  BY <1>11, <1>12, <1>13, <1>14, <1>15, <1>16 DEF AbandonInv

\* fork() on behalf of start j, by thread t or by the services thread.
LEMMA ForkAbandon ==
  ASSUME Inv, AbandonInv, NEW p \in Pids, NEW j \in 1..starts,
         owner' = [owner EXCEPT ![p] = j], heap' = heap, linked' = linked, starts' = starts,
         acked' = acked, RetriedInv',
         \A u \in Threads : \/ tpc'[u] \in Elsewhere
                            \/ /\ tpc'[u] = tpc[u] /\ loc'[u] = loc[u]
                               /\ tpc[u] = "start_fork" => loc[u].job # j
  PROVE  AbandonInv'
<1>1. owner'[p] = j /\ \A q \in Pids \ {p} : owner'[q] = owner[q]
  BY DEF Inv, StateTypes
<1>2. OwnersInv'
  BY <1>1 DEF AbandonInv, OwnersInv
<1>3. AckedInv' /\ NoneIsPaused'
  BY DEF AbandonInv, AckedInv, NoneIsPaused
<1>4. ASSUME NEW u \in Threads
      PROVE  RequestInv(u)'
  <2>1. CASE tpc'[u] \in Elsewhere
    BY <2>1 DEF RequestInv, Elsewhere, Pausing, Resuming, Abandoning
  <2>2. CASE /\ tpc'[u] = tpc[u] /\ loc'[u] = loc[u]
             /\ tpc[u] = "start_fork" => loc[u].job # j
    BY <1>1, <2>2 DEF AbandonInv, RequestInv
  <2> QED  BY <2>1, <2>2
<1> QED  BY <1>2, <1>3, <1>4 DEF AbandonInv

LEMMA StartAbandon ==
  ASSUME Inv, AloneInv, AbandonInv, NEW t \in Threads, Start(t)
  PROVE  AbandonInv'
<1>0. CASE StartPipeFails(t)
  <2>1. PICK n \in linked : Find(loc[t].id) = {n}
    BY <1>0, StartedEntry DEF StartPipeFails, At, Starting
  <2>2. /\ tpc' = [tpc EXCEPT ![t] = "start_unlink"] /\ loc' = loc
        /\ heap' = heap /\ linked' = linked /\ starts' = starts /\ owner' = owner
        /\ acked' = acked /\ spc' = spc /\ sloc' = sloc /\ "start_unlink" \in Elsewhere
    BY <1>0, <2>1 DEF StartPipeFails, Goto, procs, service, Elsewhere
  <2> QED  BY <2>2, SameNames, ThreadElsewhere
<1>1. CASE StartUnlink(t)
  <2>1. linked' \subseteq linked
    BY <1>1, ThreadUnlinks
  <2>2. /\ tpc' = [tpc EXCEPT ![t] = "idle"] /\ loc' = [loc EXCEPT ![t] = NoLoc]
        /\ heap' = heap /\ starts' = starts /\ owner' = owner
        /\ acked' = acked /\ spc' = spc /\ sloc' = sloc /\ "idle" \in Elsewhere
    BY <1>1 DEF StartUnlink, Respond, GotoWith, Goto, procs, service, Elsewhere
  <2> QED  BY <2>1, <2>2, SameNames, OtherLocs, ThreadElsewhere
<1>2. CASE StartForkFails(t)
  <2>1. /\ tpc[t] = "start_fork" /\ UpdateState(loc[t].id, "FAILED")
        /\ tpc' = [tpc EXCEPT ![t] = "idle"] /\ loc' = [loc EXCEPT ![t] = NoLoc]
        /\ linked' = linked /\ starts' = starts /\ owner' = owner
        /\ acked' = acked /\ spc' = spc /\ sloc' = sloc
    BY <1>2 DEF StartForkFails, At, Respond, GotoWith, Goto, procs, service
  <2>2. /\ KeepsNames /\ NoneIsPaused'
        /\ \A n \in linked : heap'[n].state =
             IF heap[n].id = loc[t].id THEN "FAILED" ELSE heap[n].state
    BY <2>1, UpdateNames
  <2>3. spc \in {"decide", "failed", "fork"} => sloc.id # loc[t].id
    <3> SUFFICES ASSUME spc \in Working, sloc.id = loc[t].id PROVE FALSE
      BY DEF Working
    <3>1. PICK m \in linked : Find(sloc.id) = {m} /\ Seen(heap[m].executor_pid)
      BY WorkedEntry
    <3>2. PICK n \in linked : Find(loc[t].id) = {n} /\ heap[n].executor_pid = 0
      BY <2>1, StartedEntry DEF Starting
    <3> QED  BY <3>1, <3>2, SeenIsPositive
  <2>4. RetriedInv'
    BY <2>1, <2>2, <2>3, LinkedEntries DEF AbandonInv, RetriedInv, KeepsNames
  <2>5. AckedInv'
    BY <2>1, <2>2, AckedStays
  <2>6. tpc'[t] = "idle" /\ \A u \in Threads \ {t} : tpc'[u] = tpc[u] /\ loc'[u] = loc[u]
    BY <2>1 DEF Inv, StateTypes
  <2>7. RequestInv(t)'
    BY <2>6 DEF RequestInv, Pausing, Resuming, Abandoning
  <2> QED  BY <2>1, <2>2, <2>4, <2>5, <2>6, <2>7, AbandonFrame
<1>3. CASE StartFork(t)
  <2>1. PICK p \in NewPids : /\ Fork(p, loc[t].job)
                             /\ GotoWith(t, "start_running", [loc[t] EXCEPT !.pid = p])
    BY <1>3 DEF StartFork
  <2>2. /\ tpc[t] = "start_fork" /\ heap' = heap /\ linked' = linked /\ starts' = starts
        /\ owner' = [owner EXCEPT ![p] = loc[t].job] /\ p \in Pids
        /\ acked' = acked /\ spc' = spc /\ sloc' = sloc
        /\ tpc' = [tpc EXCEPT ![t] = "start_running"]
        /\ loc' = [loc EXCEPT ![t] = [loc[t] EXCEPT !.pid = p]]
    BY <1>3, <2>1 DEF StartFork, At, Fork, GotoWith, Goto, registry, service, NewPids
  <2>3. loc[t].job \in 1..starts
    BY <2>2, StartedEntry DEF Starting
  <2>4. /\ tpc'[t] \in Elsewhere
        /\ \A u \in Threads \ {t} : tpc'[u] = tpc[u] /\ loc'[u] = loc[u]
    BY <2>2 DEF Inv, StateTypes, Elsewhere
  <2>5. \A u \in Threads \ {t} : tpc[u] = "start_fork" => loc[u].job # loc[t].job
    BY <2>2 DEF Inv, StartsInv, Starting
  <2>6. RetriedInv'
    BY <2>2 DEF AbandonInv, RetriedInv
  <2>7. \A u \in Threads : \/ tpc'[u] \in Elsewhere
                           \/ /\ tpc'[u] = tpc[u] /\ loc'[u] = loc[u]
                              /\ tpc[u] = "start_fork" => loc[u].job # loc[t].job
    BY <2>4, <2>5
  <2> QED  BY <2>2, <2>3, <2>6, <2>7, ForkAbandon
<1>4. CASE StartRunning(t)
  <2>1. /\ UpdateState(loc[t].id, "RUNNING") /\ tpc' = [tpc EXCEPT ![t] = "start_pid"]
        /\ loc' = loc /\ linked' = linked /\ starts' = starts /\ owner' = owner
        /\ acked' = acked /\ spc' = spc /\ sloc' = sloc
    BY <1>4 DEF StartRunning, Goto, procs, service
  <2>2. KeepsNames /\ NoneIsPaused' /\ KeepsRunning
    BY <2>1, UpdateNames DEF KeepsRunning
  <2>3. "start_pid" \in Elsewhere
    BY DEF Elsewhere
  <2> QED  BY <2>1, <2>2, <2>3, ThreadElsewhere
<1>5. CASE StartStorePid(t)
  <2>0. Find(loc[t].id) # {}
    BY <1>5, StartedEntry DEF StartStorePid, At, Starting
  <2>1. PICK n \in linked : /\ heap' = [heap EXCEPT ![n].executor_pid = loc[t].pid]
                            /\ GotoWith(t, "start_pipe", [loc[t] EXCEPT !.node = n])
    BY <1>5, <2>0 DEF StartStorePid, Find
  <2>2. n \in Nodes /\ heap[n] \in Entry /\ loc[t].pid \in 0..MaxPid
    BY LinkedEntries, Unmoved DEF Locals
  <2> DEFINE e == [heap[n] EXCEPT !.executor_pid = loc[t].pid]
  <2>3. e \in Entry /\ e.id = heap[n].id /\ e.job = heap[n].job /\ e.state = heap[n].state
          /\ e.abandon_requested = heap[n].abandon_requested
    BY <2>2 DEF Entry
  <2>4. /\ heap' = [heap EXCEPT ![n] = e] /\ tpc' = [tpc EXCEPT ![t] = "start_pipe"]
        /\ loc' = [loc EXCEPT ![t] = [loc[t] EXCEPT !.node = n]]
        /\ linked' = linked /\ starts' = starts /\ owner' = owner
        /\ acked' = acked /\ spc' = spc /\ sloc' = sloc
    BY <1>5, <2>1 DEF StartStorePid, GotoWith, Goto, procs, service
  <2> HIDE DEF e
  <2>5. KeepsNames /\ KeepsRunning /\ NoneIsPaused' /\ "start_pipe" \in Elsewhere
    BY <2>2, <2>3, <2>4, StoreNames DEF Elsewhere
  <2> QED  BY <2>4, <2>5, OtherLocs, ThreadElsewhere
<1>6. CASE StartStorePipe(t)
  <2> DEFINE n == loc[t].node
             e == [heap[n] EXCEPT !.stdin_pipe = loc[t].pid]
  <2>1. tpc[t] = "start_pipe"
    BY <1>6 DEF StartStorePipe, At
  <2>2. n \in Nodes /\ heap[n] \in Entry /\ loc[t].pid \in 0..MaxPid
    BY <2>1, HoldingPcs, HeldEntry, Unmoved DEF Locals
  <2>3. e \in Entry /\ e.id = heap[n].id /\ e.job = heap[n].job /\ e.state = heap[n].state
          /\ e.abandon_requested = heap[n].abandon_requested
    BY <2>2 DEF Entry
  <2>4. /\ heap' = [heap EXCEPT ![n] = e] /\ tpc' = [tpc EXCEPT ![t] = "idle"]
        /\ loc' = [loc EXCEPT ![t] = NoLoc]
        /\ linked' = linked /\ starts' = starts /\ owner' = owner
        /\ acked' = acked /\ spc' = spc /\ sloc' = sloc
    BY <1>6 DEF StartStorePipe, Respond, GotoWith, Goto, procs, service
  <2> HIDE DEF e, n
  <2>5. KeepsNames /\ KeepsRunning /\ NoneIsPaused' /\ "idle" \in Elsewhere
    BY <2>2, <2>3, <2>4, StoreNames DEF Elsewhere
  <2> QED  BY <2>4, <2>5, OtherLocs, ThreadElsewhere
<1> QED  BY <1>0, <1>1, <1>2, <1>3, <1>4, <1>5, <1>6, StartLinkAbandon DEF Start

\* An abandon request is answered with success only when the completion task is
\* not past its decision about the workflow: there the entry is RUNNING and the
\* process it names is reaped, so the request must signal it and cannot.
LEMMA AckAbandon ==
  ASSUME Inv, AbandonInv, NEW t \in Threads, AbandonNothingToKill(t) \/ AbandonKill(t)
  PROVE  AbandonInv'
<1>1. /\ heap' = heap /\ linked' = linked /\ starts' = starts /\ owner' = owner
      /\ spc' = spc /\ sloc' = sloc /\ acked' = acked \cup {loc[t].job}
      /\ tpc[t] \in {"abandon_test", "abandon_kill"}
      /\ tpc' = [tpc EXCEPT ![t] = "idle"] /\ loc' = [loc EXCEPT ![t] = NoLoc]
  BY DEF AbandonNothingToKill, AbandonKill, At, Respond, GotoWith, Goto, Terminate,
         registry, procs, service
<1>2. tpc[t] \in Abandoning /\ tpc[t] # "abandon_flag" /\ tpc[t] \in Holding
  BY <1>1, HoldingPcs DEF Abandoning
<1>3. \A n \in linked : heap[n].job = loc[t].job => n = loc[t].node /\ heap[n].abandon_requested
  BY <1>2 DEF AbandonInv, RequestInv
<1>4. loc[t].job \in 1..starts /\ Held(t) = heap[loc[t].node]
  BY <1>2, HeldEntry, Unmoved
<1>5. KeepsNames /\ NoneIsPaused'
  BY <1>1, SameNames
<1>6. AckedInv'
  BY <1>1, <1>3, <1>4 DEF AbandonInv, AckedInv
<1>7. RetriedInv'
  <2> SUFFICES ASSUME NEW n \in linked, heap[n].id = sloc.id, spc \in {"failed", "fork"},
                      heap[n].job = loc[t].job
               PROVE  FALSE
    BY <1>1 DEF AbandonInv, RetriedInv
  <2>1. heap[n].state = "RUNNING" /\ heap[n] = Held(t)
    BY <1>3, <1>4 DEF AbandonInv, RetriedInv
  <2>2. Seen(heap[n].executor_pid)
    BY WorkedEntry DEF Working, Find
  <2>3. heap[n].executor_pid \in Pids /\ status[heap[n].executor_pid] = "reaped"
    BY <2>2 DEF Seen
  <2>4. heap[n].executor_pid > 0
    BY <2>3, BoundsAssumption DEF Pids
  <2> QED  BY <2>1, <2>3, <2>4 DEF AbandonNothingToKill, MustKill, AbandonKill, KillOk, Unreaped
<1>8. tpc'[t] = "idle" /\ \A u \in Threads \ {t} : tpc'[u] = tpc[u] /\ loc'[u] = loc[u]
  BY <1>1 DEF Inv, StateTypes
<1>9. RequestInv(t)'
  BY <1>8 DEF RequestInv, Pausing, Resuming, Abandoning
<1> QED  BY <1>1, <1>5, <1>6, <1>7, <1>8, <1>9, AbandonFrame

LEMMA AbandonRequestAbandon ==
  ASSUME Inv, AbandonInv, NEW t \in Threads, Abandon(t)
  PROVE  AbandonInv'
<1>1. CASE AbandonFlag(t)
  <2> DEFINE n == loc[t].node
             e == [heap[n] EXCEPT !.abandon_requested = TRUE]
  <2>1. tpc[t] = "abandon_flag"
    BY <1>1 DEF AbandonFlag, At
  <2>2. n \in Nodes /\ heap[n] \in Entry
    BY <2>1, HoldingPcs, HeldEntry, Unmoved
  <2>3. e \in Entry /\ e.id = heap[n].id /\ e.job = heap[n].job /\ e.state = heap[n].state
          /\ e.abandon_requested
    BY <2>2 DEF Entry
  <2>4. /\ heap' = [heap EXCEPT ![n] = e] /\ tpc' = [tpc EXCEPT ![t] = "abandon_test"]
        /\ loc' = loc /\ linked' = linked /\ starts' = starts /\ owner' = owner
        /\ acked' = acked /\ spc' = spc /\ sloc' = sloc
    BY <1>1 DEF AbandonFlag, Goto, procs, service
  <2>5. \A m \in linked : heap[m].job = loc[t].job => m = n
    BY <2>1 DEF AbandonInv, RequestInv, Abandoning
  <2> HIDE DEF e
  <2>6. heap'[n] = e
    BY <2>2, <2>4 DEF Inv, StateTypes
  <2>7. KeepsNames /\ KeepsRunning /\ NoneIsPaused'
    BY <2>2, <2>3, <2>4, StoreNames
  <2>8. AckedInv' /\ RetriedInv'
    BY <2>4, <2>7, AckedStays, RetriedStays
  <2>9. tpc'[t] = "abandon_test" /\ \A u \in Threads \ {t} : tpc'[u] = tpc[u]
    BY <2>4 DEF Inv, StateTypes
  <2>10. RequestInv(t)'
    <3>1. \A m \in linked : heap'[m].job = loc[t].job => m = n
      BY <2>5, <2>7, LinkedEntries DEF KeepsNames
    <3> QED  BY <2>3, <2>4, <2>6, <2>9, <3>1 DEF RequestInv, Pausing, Resuming
  <2> QED  BY <2>4, <2>7, <2>8, <2>9, <2>10, AbandonFrame
<1>2. CASE AbandonTest(t)
  <2>1. /\ heap' = heap /\ linked' = linked /\ starts' = starts /\ owner' = owner
        /\ acked' = acked /\ spc' = spc /\ sloc' = sloc /\ loc' = loc
        /\ tpc[t] = "abandon_test" /\ tpc' = [tpc EXCEPT ![t] = "abandon_kill"]
    BY <1>2 DEF AbandonTest, At, Goto, registry, procs, service
  <2>2. KeepsNames /\ KeepsRunning /\ NoneIsPaused' /\ AckedInv' /\ RetriedInv'
    BY <2>1, SameNames, AckedStays, RetriedStays
  <2>3. tpc'[t] = "abandon_kill" /\ \A u \in Threads \ {t} : tpc'[u] = tpc[u]
    BY <2>1 DEF Inv, StateTypes
  <2>4. RequestInv(t)
    BY DEF AbandonInv
  <2>5. RequestInv(t)'
    BY <2>1, <2>3, <2>4 DEF RequestInv, Pausing, Resuming, Abandoning
  <2> QED  BY <2>1, <2>2, <2>3, <2>5, AbandonFrame
<1>3. CASE AbandonKillFails(t)
  <2>1. /\ heap' = heap /\ linked' = linked /\ starts' = starts /\ owner' = owner
        /\ acked' = acked /\ spc' = spc /\ sloc' = sloc
        /\ tpc' = [tpc EXCEPT ![t] = "idle"] /\ loc' = [loc EXCEPT ![t] = NoLoc]
        /\ "idle" \in Elsewhere
    BY <1>3 DEF AbandonKillFails, Respond, GotoWith, Goto, registry, procs, service, Elsewhere
  <2> QED  BY <2>1, SameNames, OtherLocs, ThreadElsewhere
<1> QED  BY <1>1, <1>2, <1>3, AckAbandon DEF Abandon

LEMMA ControlAbandon ==
  ASSUME Inv, AbandonInv, NEW t \in Threads, Control(t)
  PROVE  AbandonInv'
<1>1. tpc[t] \notin Pausing \cup Resuming
  BY DEF AbandonInv, RequestInv
<1>2. CASE InputSigpipe(t)
  BY <1>2, DaemonGoneAbandon DEF InputSigpipe
<1>3. CASE ResumeTest(t) \/ InputTest(t) \/ InputWrite(t)
  <2>1. ResumeTest(t) => Respond(t)
    <3> SUFFICES ASSUME ResumeTest(t) PROVE Held(t).state # "PAUSED"
      BY DEF ResumeTest
    <3>1. loc[t].node \in Nodes /\ heap[loc[t].node] \in Entry /\ Held(t) = heap[loc[t].node]
      BY HoldingPcs, HeldEntry, Unmoved DEF ResumeTest, At
    <3> QED  BY <3>1 DEF AbandonInv, NoneIsPaused
  <2>2. /\ heap' = heap /\ linked' = linked /\ starts' = starts /\ owner' = owner
        /\ acked' = acked /\ spc' = spc /\ sloc' = sloc
    BY <1>3 DEF ResumeTest, InputTest, InputWrite, registry, procs, service
  <2>3. KeepsNames /\ KeepsRunning /\ NoneIsPaused' /\ "idle" \in Elsewhere
        /\ "input_write" \in Elsewhere
    BY <2>2, SameNames DEF Elsewhere
  <2>4. CASE Respond(t)
    <3>1. tpc' = [tpc EXCEPT ![t] = "idle"] /\ loc' = [loc EXCEPT ![t] = NoLoc]
      BY <2>4 DEF Respond, GotoWith, Goto
    <3> QED  BY <2>2, <2>3, <3>1, OtherLocs, ThreadElsewhere
  <2>5. CASE Goto(t, "input_write") /\ loc' = loc
    <3>1. tpc' = [tpc EXCEPT ![t] = "input_write"] /\ loc' = loc
      BY <2>5 DEF Goto
    <3> QED  BY <2>2, <2>3, <3>1, ThreadElsewhere
  <2> QED  BY <1>3, <2>1, <2>4, <2>5 DEF InputTest, InputWrite
<1> QED  BY <1>1, <1>2, <1>3 DEF Control, PauseTest, PausePid, PauseKill, PauseSet,
              ResumePid, ResumeKill, ResumeSet, At, Pausing, Resuming

\* A step of the services thread that leaves connection threads alone.
LEMMA ServiceAbandon ==
  ASSUME Inv, AbandonInv, KeepsNames, NoneIsPaused', linked' \subseteq linked,
         starts' = starts, owner' = owner, acked' = acked, tpc' = tpc, loc' = loc, RetriedInv'
  PROVE  AbandonInv'
  BY AckedStays, AbandonFrame

LEMMA Unretried == ASSUME spc' \notin {"decide", "failed", "fork"}
                   PROVE  RetriedInv'
  BY DEF RetriedInv

LEMMA CompletionAbandon ==
  ASSUME Inv, AloneInv, AbandonInv, Completion
  PROVE  AbandonInv'
<1>0. CASE CompletionUnlink
  <2>1. linked' \subseteq linked
    BY <1>0, ServiceUnlinks
  <2>2. /\ heap' = heap /\ starts' = starts /\ owner' = owner
        /\ acked' = acked /\ tpc' = tpc /\ loc' = loc /\ spc' = "idle"
    BY <1>0 DEF CompletionUnlink, SGoto, procs, http
  <2> QED  BY <2>1, <2>2, SameNames, Unretried, ServiceAbandon
<1>1. CASE CompletionPop \/ CompletionUnmatched \/ CompletionNotFound \/ CompletionRemove
           \/ RetryForkFails \/ FailureNoRetry
  <2>1. /\ heap' = heap /\ linked' = linked /\ starts' = starts /\ owner' = owner
        /\ acked' = acked /\ tpc' = tpc /\ loc' = loc
        /\ spc' \in {"idle", "match", "remove", "unlink"}
    BY <1>1 DEF CompletionPop, CompletionUnmatched, CompletionNotFound, CompletionRemove,
                RetryForkFails, FailureNoRetry, SGoto, registry, procs, http
  <2> QED  BY <2>1, SameNames, Unretried, ServiceAbandon
<1>2. CASE CompletionMatch
  <2>1. PICK n \in Matches(sloc.pid) : spc' = "decide" /\ sloc' = [sloc EXCEPT !.id = heap[n].id]
    BY <1>2 DEF CompletionMatch, SGoto
  <2>2. /\ heap' = heap /\ linked' = linked /\ starts' = starts /\ owner' = owner
        /\ acked' = acked /\ tpc' = tpc /\ loc' = loc
    BY <1>2 DEF CompletionMatch, registry, procs, http
  <2>3. sloc'.id = heap[n].id /\ n \in linked /\ heap[n].state = "RUNNING"
    BY <2>1, ServiceNow DEF Tasks, Matches
  <2>4. \A m \in linked : heap[m].id = sloc'.id => m = n
    BY <2>3 DEF Inv, RegistryInv
  <2>5. RetriedInv'
    BY <2>1, <2>2, <2>3, <2>4 DEF RetriedInv
  <2> QED  BY <2>2, <2>5, SameNames, ServiceAbandon
<1>3. CASE CompletionDecide
  <2>1. PICK n \in Find(sloc.id) :
          /\ spc' = (IF heap[n].abandon_requested \/ sloc.exit_code = 0 THEN "remove" ELSE "failed")
          /\ sloc' = sloc
    BY <1>3 DEF CompletionDecide, SGoto
  <2>2. /\ heap' = heap /\ linked' = linked /\ starts' = starts /\ owner' = owner
        /\ acked' = acked /\ tpc' = tpc /\ loc' = loc /\ spc = "decide"
    BY <1>3 DEF CompletionDecide, SAt, registry, procs, http
  <2>3. \A m \in linked : heap[m].id = sloc.id => m = n
    BY DEF Find, Inv, RegistryInv
  <2>4. RetriedInv'
    BY <2>1, <2>2, <2>3 DEF AbandonInv, AckedInv, RetriedInv
  <2> QED  BY <2>2, <2>4, SameNames, ServiceAbandon
<1>4. CASE FailureRetry
  <2>1. PICK n \in Find(sloc.id) : /\ heap[n].retry_count < MaxRetries
                                   /\ heap' = [heap EXCEPT ![n].retry_count = @ + 1]
                                   /\ sloc' = [sloc EXCEPT !.node = n]
    BY <1>4 DEF FailureRetry, SGoto
  <2>2. n \in Nodes /\ heap[n] \in Entry
    BY LinkedEntries DEF Find
  <2> DEFINE c == heap[n].retry_count + 1
             e == [heap[n] EXCEPT !.retry_count = c]
  <2>3. c \in 0..MaxRetries
    BY <2>1, <2>2, BoundsAssumption DEF Entry
  <2>4. heap' = [heap EXCEPT ![n] = e]
    BY <2>1
  <2> HIDE DEF c
  <2>5. e \in Entry /\ e.id = heap[n].id /\ e.job = heap[n].job /\ e.state = heap[n].state
          /\ e.abandon_requested = heap[n].abandon_requested
    BY <2>2, <2>3 DEF Entry
  <2> HIDE DEF e
  <2>6. KeepsNames /\ KeepsRunning /\ NoneIsPaused'
    BY <2>2, <2>4, <2>5, StoreNames
  <2>7. /\ linked' = linked /\ starts' = starts /\ owner' = owner /\ acked' = acked
        /\ tpc' = tpc /\ loc' = loc /\ spc = "failed" /\ spc' = "fork" /\ sloc'.id = sloc.id
    BY <1>4, <2>1 DEF FailureRetry, SAt, SGoto, procs, http, Inv, StateTypes
  <2>8. RetriedInv'
    BY <2>6, <2>7, LinkedEntries DEF AbandonInv, RetriedInv, KeepsNames, KeepsRunning
  <2> QED  BY <2>6, <2>7, <2>8, ServiceAbandon
<1>5. CASE RetryFork
  <2>0. spc = "fork"
    BY <1>5 DEF RetryFork, SAt
  <2>1. PICK n \in linked : /\ Find(sloc.id) = {n} /\ n \in Nodes /\ heap[n] \in Entry
                            /\ heap[n].id = sloc.id /\ Seen(heap[n].executor_pid)
    BY <2>0, WorkedEntry DEF Working
  <2>2. PICK p \in NewPids : Fork(p, heap[n].job) /\ spc' = "store"
    BY <1>5, <2>0, <2>1 DEF RetryFork, SGoto, AloneInv, RetryNodeInv
  <2>3. /\ heap' = heap /\ linked' = linked /\ starts' = starts /\ tpc' = tpc /\ loc' = loc
        /\ acked' = acked /\ p \in Pids /\ owner' = [owner EXCEPT ![p] = heap[n].job]
    BY <1>5, <2>2 DEF RetryFork, Fork, NewPids, registry, http
  <2>4. heap[n].job \in 1..starts
    BY <2>1, Unmoved, BoundsAssumption DEF Inv, RegistryInv, Entry, Starts
  <2>5. ASSUME NEW u \in Threads, tpc[u] = "start_fork", loc[u].job = heap[n].job
        PROVE  FALSE
    <3>1. PICK m \in linked : heap[m].job = loc[u].job /\ heap[m].executor_pid = 0
      BY <2>5, StartedEntry DEF Starting
    <3>2. m = n
      BY <2>1, <2>5, <3>1 DEF Inv, RegistryInv
    <3> QED  BY <2>1, <3>1, <3>2, SeenIsPositive
  <2>6. RetriedInv'
    BY <2>2, Unretried
  <2> QED  BY <2>3, <2>4, <2>5, <2>6, ForkAbandon
<1>6. CASE RetryStorePid
  <2>1. PICK n \in Find(sloc.id) : heap' = [heap EXCEPT ![n].executor_pid = sloc.pid]
    BY <1>6 DEF RetryStorePid, SAt, AloneInv, RetryNodeInv
  <2>2. n \in Nodes /\ heap[n] \in Entry /\ sloc.pid \in 0..MaxPid
    BY LinkedEntries, ServiceNow DEF Find, Tasks
  <2> DEFINE e == [heap[n] EXCEPT !.executor_pid = sloc.pid]
  <2>3. e \in Entry /\ e.id = heap[n].id /\ e.job = heap[n].job /\ e.state = heap[n].state
          /\ e.abandon_requested = heap[n].abandon_requested
    BY <2>2 DEF Entry
  <2>4. heap' = [heap EXCEPT ![n] = e]
    BY <2>1
  <2> HIDE DEF e
  <2>5. KeepsNames /\ NoneIsPaused'
    BY <2>2, <2>3, <2>4, StoreNames
  <2>6. /\ linked' = linked /\ starts' = starts /\ owner' = owner /\ acked' = acked
        /\ tpc' = tpc /\ loc' = loc /\ spc' = "rerun"
    BY <1>6 DEF RetryStorePid, SGoto, procs, http
  <2> QED  BY <2>5, <2>6, Unretried, ServiceAbandon
<1>7. CASE RetryRunning
  <2>1. /\ UpdateState(sloc.id, "RUNNING")
        /\ linked' = linked /\ starts' = starts /\ owner' = owner /\ acked' = acked
        /\ tpc' = tpc /\ loc' = loc /\ spc' = "idle"
    BY <1>7 DEF RetryRunning, SGoto, procs, http
  <2> QED  BY <2>1, UpdateNames, Unretried, ServiceAbandon
<1> QED  BY <1>0, <1>1, <1>2, <1>3, <1>4, <1>5, <1>6, <1>7 DEF Completion

LEMMA TimeoutAbandon ==
  ASSUME Inv, AbandonInv, Timeout
  PROVE  AbandonInv'
<1>1. /\ linked' = linked /\ starts' = starts /\ owner' = owner /\ acked' = acked
      /\ tpc' = tpc /\ loc' = loc /\ spc' \in {"expired", "expire_flag", "idle"}
  BY DEF Timeout, TimeoutFound, TimeoutKill, TimeoutFlag, Terminate, SGoto, registry, procs, http
<1>2. CASE TimeoutFound \/ TimeoutKill
  <2>1. heap' = heap
    BY <1>2 DEF TimeoutFound, TimeoutKill, registry
  <2> QED  BY <1>1, <2>1, SameNames, Unretried, ServiceAbandon
<1>3. CASE TimeoutFlag
  <2>1. \A n \in Nodes : heap'[n] = IF n \in Find(sloc.id)
                                    THEN [heap[n] EXCEPT !.abandon_requested = TRUE] ELSE heap[n]
    BY <1>3, FlaggedEntries
  <2>2. ASSUME NEW n \in Nodes, heap[n] \in Entry
        PROVE  LET e == [heap[n] EXCEPT !.abandon_requested = TRUE] IN
               e \in Entry /\ e.id = heap[n].id /\ e.job = heap[n].job
                 /\ e.abandon_requested /\ e.state = heap[n].state
    BY <2>2 DEF Entry
  <2>3. KeepsNames
    BY <2>1, <2>2 DEF KeepsNames
  <2>4. NoneIsPaused'
    <3>1. \A n \in Find(sloc.id) : n \in Nodes /\ heap[n] \in Entry
      BY LinkedEntries DEF Find
    <3>2. \A n \in Nodes : heap[n] \in Entry => heap[n].state # "PAUSED"
      BY DEF AbandonInv, NoneIsPaused
    <3>3. \A n \in Nodes : heap'[n] \in Entry => heap'[n].state # "PAUSED"
      BY <2>1, <2>2, <3>1, <3>2
    <3> QED  BY <3>3 DEF NoneIsPaused
  <2> QED  BY <1>1, <2>3, <2>4, Unretried, ServiceAbandon
<1> QED  BY <1>2, <1>3 DEF Timeout

LEMMA InitAbandon == Init => AbandonInv
  BY BoundsAssumption, NullAssumption DEF Init, AbandonInv, AckedInv, OwnersInv, NoneIsPaused,
     RetriedInv, RequestInv, Pausing, Resuming, Abandoning

LEMMA QuietAbandon ==
  ASSUME Inv, AbandonInv, UNCHANGED <<registry, owner, http, service, acked>>
  PROVE  AbandonInv'
<1>1. /\ linked' = linked /\ heap' = heap /\ starts' = starts /\ owner' = owner
      /\ tpc' = tpc /\ loc' = loc /\ spc' = spc /\ sloc' = sloc /\ acked' = acked
  BY DEF registry, http, service
<1> QED  BY <1>1, SameNames, RetriedStays, ServiceAbandon

LEMMA StepAbandon ==
  ASSUME "pause" \notin Ops, Inv, AloneInv, AbandonInv, [Next]_vars
  PROVE  AbandonInv'
<1>1. ASSUME NEW t \in Threads, Serve(t) PROVE AbandonInv'
  BY <1>1, StartAbandon, AbandonRequestAbandon, ControlAbandon DEF Serve
<1>2. ASSUME UNCHANGED vars PROVE AbandonInv'
  BY <1>2, QuietAbandon DEF vars, procs
<1>3. ASSUME NEW t \in Threads, NEW id \in Workflows, Request(t, id) PROVE AbandonInv'
  BY <1>2, <1>3, StartAddAbandon, RequestFindAbandon
  DEF Request, StartDuplicate, RequestNotFound
<1>4. ASSUME NEW p \in Pids, Reap(p) \/ OrphanExits(p) \/ ProcessExits(p) PROVE AbandonInv'
  <2>1. UNCHANGED <<registry, owner, http, service, acked>>
    BY <1>4 DEF Reap, OrphanExits, ProcessExits
  <2> QED  BY <2>1, QuietAbandon
<1>5. CASE Completion \/ Timeout
  BY <1>5, CompletionAbandon, TimeoutAbandon
<1>6. CASE Crash
  BY <1>6, DaemonGoneAbandon DEF Crash
<1>7. CASE Restart
  BY <1>7, QuietAbandon DEF Restart, procs
<1> QED  BY <1>1, <1>2, <1>3, <1>4, <1>5, <1>6, <1>7 DEF Next

\* Only the two forks say for whom a process runs, and of a pid not yet used.
FreshInv == \A p \in Pids : status[p] = "none" => owner[p] = 0

OwnersStay == owner' = owner /\ \A p \in Pids : status'[p] = "none" => status[p] = "none"

LEMMA OwnerSteps ==
  ASSUME Inv, [Next]_vars
  PROVE  OwnersStay \/ RetryFork \/ \E t \in Threads : StartFork(t)
<1>0. status \in [Pids -> Statuses]
  BY Unmoved
<1> USE DEF OwnersStay
<1>1. ASSUME UNCHANGED procs PROVE OwnersStay
  BY <1>1 DEF procs
<1>2. ASSUME NEW p, Terminate(p) PROVE OwnersStay
  BY <1>2 DEF Terminate
<1>3. ASSUME DaemonGone PROVE OwnersStay
  BY <1>3 DEF DaemonGone, Alive
<1>4. ASSUME NEW t \in Threads, Serve(t) PROVE OwnersStay \/ StartFork(t)
  <2>1. CASE Start(t) /\ ~StartFork(t)
    BY <1>1, <2>1 DEF Start, StartLink, StartPipeFails, StartUnlink, StartForkFails,
                      StartRunning, StartStorePid, StartStorePipe
  <2>2. CASE Abandon(t)
    BY <1>1, <1>2, <2>2 DEF Abandon, AbandonFlag, AbandonNothingToKill, AbandonTest, AbandonKill,
                            AbandonKillFails
  <2>3. CASE PauseKill(t) \/ ResumeKill(t)
    <3>1. owner' = owner
      BY <2>3 DEF PauseKill, ResumeKill
    <3>2. \A q \in Pids : status'[q] = "none" => status[q] = "none"
      BY <2>3 DEF PauseKill, ResumeKill, Signal
    <3> QED  BY <3>1, <3>2
  <2>4. CASE InputSigpipe(t)
    BY <1>3, <2>4 DEF InputSigpipe
  <2>5. CASE \/ PauseTest(t) \/ PausePid(t) \/ PauseSet(t) \/ ResumeTest(t)
             \/ ResumePid(t) \/ ResumeSet(t) \/ InputTest(t) \/ InputWrite(t)
    BY <1>1, <2>5 DEF PauseTest, PausePid, PauseSet, ResumeTest, ResumePid, ResumeSet,
                      InputTest, InputWrite
  <2> QED  BY <1>4, <2>1, <2>2, <2>3, <2>4, <2>5 DEF Serve, Control
<1>5. ASSUME NEW t \in Threads, NEW id \in Workflows, Request(t, id) PROVE OwnersStay
  <2>1. UNCHANGED procs
    BY <1>5 DEF Request, StartDuplicate, RequestNotFound, StartAdd, RequestFind, vars
  <2> QED  BY <1>1, <2>1
<1>6. ASSUME NEW p \in Pids, Reap(p) \/ OrphanExits(p) \/ ProcessExits(p) PROVE OwnersStay
  BY <1>0, <1>6 DEF Reap, OrphanExits, ProcessExits
<1>7. CASE Completion \/ Timeout
  <2>1. CASE Completion /\ ~RetryFork
    BY <1>1, <2>1 DEF Completion, CompletionPop, CompletionUnmatched, CompletionMatch,
         CompletionDecide, CompletionNotFound, CompletionRemove, CompletionUnlink, FailureRetry, FailureNoRetry, RetryForkFails,
         RetryStorePid, RetryRunning
  <2>2. CASE Timeout
    BY <1>1, <1>2, <2>2 DEF Timeout, TimeoutFound, TimeoutKill, TimeoutFlag
  <2> QED  BY <1>7, <2>1, <2>2
<1>8. CASE Crash \/ Restart \/ UNCHANGED vars
  BY <1>1, <1>3, <1>8 DEF Crash, Restart, vars
<1> QED  BY <1>4, <1>5, <1>6, <1>7, <1>8 DEF Next

\* A fork for start j: no process of an acknowledged start is added or taken away
\* unless it is the first one of its start.
LEMMA ForkNotAbandoned ==
  ASSUME Inv, AbandonInv, FreshInv, NEW p \in NewPids, NEW j \in 1..MaxStarts, Fork(p, j),
         j \in acked => \A q \in Pids : owner[q] # j
  PROVE  /\ FreshInv'
         /\ \A k \in acked : Processes(k) # {} => Processes(k)' = Processes(k)
<1>1. p \in Pids /\ status[p] = "none" /\ owner[p] = 0
  BY DEF NewPids, FreshInv
<1>2. /\ owner'[p] = j /\ \A q \in Pids \ {p} : owner'[q] = owner[q]
      /\ status'[p] = "running" /\ \A q \in Pids \ {p} : status'[q] = status[q]
  BY <1>1 DEF Fork, Inv, StateTypes
<1>3. FreshInv'
  BY <1>2 DEF FreshInv
<1>4. 0 \notin acked
  BY DEF Inv, StateTypes, Starts
<1>5. ASSUME NEW k \in acked, Processes(k) # {}
      PROVE  Processes(k)' = Processes(k)
  <2>1. k # j /\ k # 0
    BY <1>4, <1>5 DEF Processes
  <2> QED  BY <1>1, <1>2, <2>1 DEF Processes
<1> QED  BY <1>3, <1>5

LEMMA NotRetriedStep ==
  ASSUME Inv, AloneInv, AbandonInv, FreshInv, [Next]_vars
  PROVE  /\ FreshInv'
         /\ \A k \in acked : Processes(k) # {} => Processes(k)' = Processes(k)
<1>1. CASE OwnersStay
  BY <1>1 DEF OwnersStay, FreshInv, Processes
<1>2. CASE RetryFork
  <2>0. spc = "fork"
    BY <1>2 DEF RetryFork, SAt
  <2>1. PICK n \in linked : Find(sloc.id) = {n} /\ heap[n] \in Entry /\ heap[n].id = sloc.id
    BY <2>0, WorkedEntry DEF Working
  <2>2. PICK p \in NewPids : Fork(p, heap[n].job)
    BY <1>2, <2>0, <2>1 DEF RetryFork, AloneInv, RetryNodeInv
  <2>3. heap[n].job \notin acked
    BY <2>0, <2>1 DEF AbandonInv, RetriedInv
  <2>4. heap[n].job \in 1..MaxStarts
    BY <2>1 DEF Entry, Starts
  <2> QED  BY <2>2, <2>3, <2>4, ForkNotAbandoned
<1>3. ASSUME NEW t \in Threads, StartFork(t)
      PROVE  /\ FreshInv'
             /\ \A k \in acked : Processes(k) # {} => Processes(k)' = Processes(k)
  <2>1. tpc[t] = "start_fork"
    BY <1>3 DEF StartFork, At
  <2>2. PICK p \in NewPids : Fork(p, loc[t].job)
    BY <1>3 DEF StartFork
  <2>3. \A q \in Pids : owner[q] # loc[t].job
    BY <2>1 DEF AbandonInv, RequestInv
  <2>4. loc[t].job \in 1..MaxStarts
    <3>1. loc[t].job \in 1..starts
      BY <2>1, StartedEntry DEF Starting
    <3> QED  BY <3>1, Unmoved, BoundsAssumption
  <2> QED  BY <2>2, <2>3, <2>4, ForkNotAbandoned
<1> QED  BY <1>1, <1>2, <1>3, OwnerSteps

LEMMA InitFresh == Init => FreshInv
  BY DEF Init, FreshInv

\* When no pause requests are made and no two updates of the list overlap, a
\* workflow whose abandon request was answered with success is not executed again,
\* however the request is interleaved with the exit of its process and with
\* handle_workflow_failure.
THEOREM NoRetryOfAbandoned ==
  ASSUME "pause" \notin Ops
  PROVE  Spec => AbandonedNeverRetried
<1> DEFINE J == ~raced => Inv /\ AloneInv /\ AbandonInv /\ FreshInv
           Kept == \A j \in acked : Processes(j) # {} => Processes(j)' = Processes(j)
<1>1. Init => J
  BY InitInv, InitAlone, InitAbandon, InitFresh
<1>2. J /\ [Next]_vars => J'
  BY StepInv, StepAlone, StepAbandon, NotRetriedStep, RacedStays
<1>3. J /\ [Next]_vars => [~raced' => Kept]_vars
  BY NotRetriedStep, RacedStays
<1> QED  BY <1>1, <1>2, <1>3, PTL DEF Spec, AbandonedNeverRetried
-----------------------------------------------------------------------------
(* A workflow is executed at most once more than it may be retried.        *)
(*                                                                         *)
(* retry_count is raised before retry_workflow_execution forks, and a      *)
(* start forks once: an entry's workflow has been executed at most         *)
(* retry_count + 1 times, and at most retry_count times while the raised   *)
(* count waits for its fork.                                               *)

BoundedExecutions == \A j \in Starts : Cardinality(Processes(j)) <= MaxRetries + 1

CountsInv ==
  \A n \in linked :
    /\ Cardinality(Processes(heap[n].job)) <= heap[n].retry_count + 1
    /\ spc = "fork" /\ heap[n].id = sloc.id =>
         Cardinality(Processes(heap[n].job)) <= heap[n].retry_count
FirstForkInv == \A t \in Threads : tpc[t] = "start_fork" => Processes(loc[t].job) = {}
ExecInv == OwnersInv /\ BoundedExecutions /\ CountsInv /\ FirstForkInv

\* What every step but a fork, workflow_registry_add and retry_count++ does.
KeepsCounts ==
  /\ linked' \subseteq linked
  /\ \A n \in linked' : /\ heap'[n].id = heap[n].id /\ heap'[n].job = heap[n].job
                        /\ heap'[n].retry_count = heap[n].retry_count
ForksStay ==
  /\ \A t \in Threads : tpc'[t] = "start_fork" => tpc[t] = "start_fork" /\ loc'[t].job = loc[t].job
  /\ spc' = "fork" => spc = "fork" /\ sloc' = sloc
CountsStay == KeepsCounts /\ ForksStay /\ owner' = owner /\ starts' = starts

LEMMA CountsFrame ==
  ASSUME Inv, ExecInv, CountsStay
  PROVE  ExecInv'
<1>1. \A j : Processes(j)' = Processes(j)
  BY DEF CountsStay, Processes
<1>2. OwnersInv' /\ BoundedExecutions'
  BY <1>1 DEF ExecInv, CountsStay, OwnersInv, BoundedExecutions
<1>3. CountsInv'
  BY <1>1 DEF ExecInv, CountsStay, CountsInv, KeepsCounts, ForksStay
<1>4. FirstForkInv'
  BY <1>1 DEF ExecInv, CountsStay, FirstForkInv, ForksStay
<1> QED  BY <1>2, <1>3, <1>4 DEF ExecInv

LEMMA StoreCounts ==
  ASSUME Inv, NEW n \in Nodes, heap[n] \in Entry, NEW e \in Entry, linked' \subseteq linked,
         heap' = [heap EXCEPT ![n] = e], e.id = heap[n].id, e.job = heap[n].job,
         e.retry_count = heap[n].retry_count
  PROVE  KeepsCounts
<1>1. heap'[n] = e /\ \A m \in Nodes \ {n} : heap'[m] = heap[m]
  BY DEF Inv, StateTypes
<1> QED  BY <1>1, LinkedEntries DEF KeepsCounts

LEMMA UpdateCounts ==
  ASSUME Inv, NEW id, NEW s \in States, UpdateState(id, s), linked' = linked
  PROVE  KeepsCounts
<1>1. ASSUME NEW n \in Nodes, heap[n] \in Entry
      PROVE  LET e == [heap[n] EXCEPT !.state = s] IN
             e.id = heap[n].id /\ e.job = heap[n].job /\ e.retry_count = heap[n].retry_count
  BY <1>1 DEF Entry
<1>2. \A n \in Nodes : heap'[n] = IF n \in Find(id) THEN [heap[n] EXCEPT !.state = s] ELSE heap[n]
  BY UpdatedEntries DEF Inv
<1> QED  BY <1>1, <1>2, LinkedEntries DEF KeepsCounts

LEMMA SameCounts == ASSUME heap' = heap, linked' \subseteq linked
                    PROVE  KeepsCounts
  BY DEF KeepsCounts

\* A connection thread goes anywhere but to its fork.
LEMMA ThreadForks ==
  ASSUME Inv, NEW t \in Threads, NEW pc, pc # "start_fork", tpc' = [tpc EXCEPT ![t] = pc],
         \A u \in Threads \ {t} : loc'[u] = loc[u], spc' = spc, sloc' = sloc
  PROVE  ForksStay
<1>1. tpc'[t] = pc /\ \A u \in Threads \ {t} : tpc'[u] = tpc[u]
  BY DEF Inv, StateTypes
<1> QED  BY <1>1 DEF ForksStay

LEMMA ServiceForks ==
  ASSUME tpc' = tpc, loc' = loc, spc' # "fork"
  PROVE  ForksStay
  BY DEF ForksStay

LEMMA GoneCounts == ASSUME DaemonGone PROVE CountsStay
  BY DEF DaemonGone, CountsStay, KeepsCounts, ForksStay

LEMMA StartCounts ==
  ASSUME Inv, AloneInv, NEW t \in Threads, Start(t), ~StartFork(t), ~StartLink(t)
  PROVE  CountsStay
<1>1. /\ owner' = owner /\ starts' = starts /\ spc' = spc /\ sloc' = sloc
  BY DEF Start, StartPipeFails, StartUnlink, StartForkFails, StartRunning, StartStorePid,
         StartStorePipe, procs, service
<1>2. CASE StartPipeFails(t)
  <2>1. PICK n \in linked : Find(loc[t].id) = {n}
    BY <1>2, StartedEntry DEF StartPipeFails, At, Starting
  <2>2. /\ heap' = heap /\ linked' = linked
        /\ tpc' = [tpc EXCEPT ![t] = "start_unlink"] /\ loc' = loc
    BY <1>2, <2>1 DEF StartPipeFails, Goto
  <2> QED  BY <1>1, <2>2, SameCounts, ThreadForks DEF CountsStay
<1>7. CASE StartUnlink(t)
  <2>1. heap' = heap /\ linked' \subseteq linked
    BY <1>7, ThreadUnlinks DEF StartUnlink
  <2>2. tpc' = [tpc EXCEPT ![t] = "idle"] /\ loc' = [loc EXCEPT ![t] = NoLoc]
    BY <1>7 DEF StartUnlink, Respond, GotoWith, Goto
  <2> QED  BY <1>1, <2>1, <2>2, SameCounts, OtherLocs, ThreadForks DEF CountsStay
<1>3. CASE StartForkFails(t)
  <2>1. linked' = linked /\ UpdateState(loc[t].id, "FAILED")
    BY <1>3 DEF StartForkFails
  <2>2. tpc' = [tpc EXCEPT ![t] = "idle"] /\ loc' = [loc EXCEPT ![t] = NoLoc]
    BY <1>3 DEF StartForkFails, Respond, GotoWith, Goto
  <2>3. KeepsCounts
    BY <2>1, UpdateCounts DEF States
  <2> QED  BY <1>1, <2>2, <2>3, OtherLocs, ThreadForks DEF CountsStay
<1>4. CASE StartRunning(t)
  <2>1. linked' = linked /\ UpdateState(loc[t].id, "RUNNING")
    BY <1>4 DEF StartRunning
  <2>2. tpc' = [tpc EXCEPT ![t] = "start_pid"] /\ loc' = loc
    BY <1>4 DEF StartRunning, Goto
  <2>3. KeepsCounts
    BY <2>1, UpdateCounts DEF States
  <2> QED  BY <1>1, <2>2, <2>3, ThreadForks DEF CountsStay
<1>5. CASE StartStorePid(t)
  <2>0. Find(loc[t].id) # {}
    BY <1>5, StartedEntry DEF StartStorePid, At, Starting
  <2>1. PICK n \in Find(loc[t].id) :
          /\ heap' = [heap EXCEPT ![n].executor_pid = loc[t].pid]
          /\ GotoWith(t, "start_pipe", [loc[t] EXCEPT !.node = n])
    BY <1>5, <2>0 DEF StartStorePid
  <2>2. n \in Nodes /\ heap[n] \in Entry /\ linked' = linked
    BY <1>5, LinkedEntries DEF Find, StartStorePid
  <2>3. loc[t].pid \in 0..MaxPid
    BY DEF Inv, StateTypes
  <2> DEFINE e == [heap[n] EXCEPT !.executor_pid = loc[t].pid]
  <2>4. e \in Entry /\ e.id = heap[n].id /\ e.job = heap[n].job
        /\ e.retry_count = heap[n].retry_count
    BY <2>2, <2>3 DEF Entry
  <2>5. heap' = [heap EXCEPT ![n] = e]
    BY <2>1
  <2> HIDE DEF e
  <2>6. KeepsCounts
    BY <2>2, <2>4, <2>5, StoreCounts
  <2>7. tpc' = [tpc EXCEPT ![t] = "start_pipe"] /\ \A u \in Threads \ {t} : loc'[u] = loc[u]
    BY <2>1, OtherLocs DEF GotoWith, Goto
  <2> QED  BY <1>1, <2>6, <2>7, ThreadForks DEF CountsStay
<1>6. CASE StartStorePipe(t)
  <2>1. /\ heap' = [heap EXCEPT ![loc[t].node].stdin_pipe = loc[t].pid] /\ linked' = linked
        /\ tpc' = [tpc EXCEPT ![t] = "idle"] /\ loc' = [loc EXCEPT ![t] = NoLoc]
        /\ tpc[t] \in Holding
    BY <1>6 DEF StartStorePipe, Respond, GotoWith, Goto, At, Holding
  <2>2. loc[t].node \in Nodes /\ heap[loc[t].node] \in Entry /\ loc[t].pid \in 0..MaxPid
    BY <2>1, Unmoved, HeldEntry DEF Locals
  <2> DEFINE n == loc[t].node
             e == [heap[n] EXCEPT !.stdin_pipe = loc[t].pid]
  <2>3. e \in Entry /\ e.id = heap[n].id /\ e.job = heap[n].job
        /\ e.retry_count = heap[n].retry_count
    BY <2>2 DEF Entry
  <2>4. heap' = [heap EXCEPT ![n] = e]
    BY <2>1
  <2> HIDE DEF e
  <2>5. KeepsCounts
    BY <2>1, <2>2, <2>3, <2>4, StoreCounts
  <2> QED  BY <1>1, <2>1, <2>5, OtherLocs, ThreadForks DEF CountsStay
<1> QED  BY <1>2, <1>3, <1>4, <1>5, <1>6, <1>7 DEF Start

\* A thread that holds an entry goes on with it, or answers.
LEMMA HeldCounts ==
  ASSUME Inv, NEW t \in Threads, KeepsCounts, owner' = owner, starts' = starts,
         spc' = spc, sloc' = sloc,
         Respond(t) \/ \E pc \in Holding : Goto(t, pc) /\ loc' = loc
  PROVE  CountsStay
<1>1. CASE Respond(t)
  <2>1. tpc' = [tpc EXCEPT ![t] = "idle"] /\ loc' = [loc EXCEPT ![t] = NoLoc]
    BY <1>1 DEF Respond, GotoWith, Goto
  <2> QED  BY <2>1, OtherLocs, ThreadForks DEF CountsStay
<1>2. CASE \E pc \in Holding : Goto(t, pc) /\ loc' = loc
  <2>1. PICK pc \in Holding : tpc' = [tpc EXCEPT ![t] = pc] /\ loc' = loc
    BY <1>2 DEF Goto
  <2>2. pc # "start_fork"
    BY DEF Holding, Abandoning, Pausing, Resuming
  <2> QED  BY <2>1, <2>2, ThreadForks DEF CountsStay
<1> QED  BY <1>1, <1>2

\* It stores a flag or a state.
LEMMA FlagCounts ==
  ASSUME Inv, NEW t \in Threads, tpc[t] \in Holding, linked' = linked,
         \/ heap' = [heap EXCEPT ![loc[t].node].abandon_requested = TRUE]
         \/ \E s \in States : heap' = [heap EXCEPT ![loc[t].node].state = s]
  PROVE  KeepsCounts
<1>1. loc[t].node \in Nodes /\ heap[loc[t].node] \in Entry
  BY Unmoved, HeldEntry
<1> DEFINE n == loc[t].node
<1>2. PICK e \in Entry : /\ heap' = [heap EXCEPT ![n] = e] /\ e.id = heap[n].id
                         /\ e.job = heap[n].job /\ e.retry_count = heap[n].retry_count
  <2>1. CASE heap' = [heap EXCEPT ![loc[t].node].abandon_requested = TRUE]
    <3> DEFINE e == [heap[n] EXCEPT !.abandon_requested = TRUE]
    <3>1. e \in Entry /\ e.id = heap[n].id /\ e.job = heap[n].job
          /\ e.retry_count = heap[n].retry_count
      BY <1>1 DEF Entry
    <3>2. heap' = [heap EXCEPT ![n] = e]
      BY <2>1
    <3> HIDE DEF e
    <3> QED  BY <3>1, <3>2
  <2>2. ASSUME NEW s \in States, heap' = [heap EXCEPT ![loc[t].node].state = s]
        PROVE  \E e \in Entry : /\ heap' = [heap EXCEPT ![n] = e] /\ e.id = heap[n].id
                                /\ e.job = heap[n].job /\ e.retry_count = heap[n].retry_count
    <3> DEFINE e == [heap[n] EXCEPT !.state = s]
    <3>1. e \in Entry /\ e.id = heap[n].id /\ e.job = heap[n].job
          /\ e.retry_count = heap[n].retry_count
      BY <1>1 DEF Entry
    <3>2. heap' = [heap EXCEPT ![n] = e]
      BY <2>2
    <3> HIDE DEF e
    <3> QED  BY <3>1, <3>2
  <2> QED  BY <2>1, <2>2
<1> QED  BY <1>1, <1>2, StoreCounts

LEMMA HeldRequestCounts ==
  ASSUME Inv, NEW t \in Threads, Abandon(t) \/ Control(t)
  PROVE  CountsStay
<1>1. CASE InputSigpipe(t)
  BY <1>1, GoneCounts DEF InputSigpipe
<1>2. CASE Abandon(t) \/ (Control(t) /\ ~InputSigpipe(t))
  <2>1. /\ owner' = owner /\ starts' = starts /\ spc' = spc /\ sloc' = sloc /\ linked' = linked
    BY <1>2 DEF Abandon, AbandonFlag, AbandonNothingToKill, AbandonTest, AbandonKill,
         AbandonKillFails, Control, PauseTest, PausePid, PauseKill, PauseSet, ResumeTest,
         ResumePid, ResumeKill, ResumeSet, InputTest, InputWrite, Terminate, procs, service,
         registry
  <2>2. /\ tpc[t] \in Holding
        /\ \/ heap' = heap
           \/ heap' = [heap EXCEPT ![loc[t].node].abandon_requested = TRUE]
           \/ \E s \in States : heap' = [heap EXCEPT ![loc[t].node].state = s]
    BY <1>2 DEF Abandon, AbandonFlag, AbandonNothingToKill, AbandonTest, AbandonKill,
         AbandonKillFails, Control, PauseTest, PausePid, PauseKill, PauseSet, ResumeTest,
         ResumePid, ResumeKill, ResumeSet, InputTest, InputWrite, registry, At, Holding,
         Abandoning, Pausing, Resuming, States
  <2>3. Respond(t) \/ \E pc \in Holding : Goto(t, pc) /\ loc' = loc
    <3>1. CASE Abandon(t)
      BY <3>1, HoldingPcs DEF Abandon, AbandonFlag, AbandonNothingToKill, AbandonTest, AbandonKill,
           AbandonKillFails
    <3>2. CASE PauseTest(t) \/ PauseKill(t) \/ PauseSet(t)
      BY <3>2, HoldingPcs DEF PauseTest, PauseKill, PauseSet
    <3>3. CASE ResumeTest(t) \/ ResumeKill(t) \/ ResumeSet(t)
      BY <3>3, HoldingPcs DEF ResumeTest, ResumeKill, ResumeSet
    <3>4. CASE InputTest(t) \/ InputWrite(t)
      BY <3>4, HoldingPcs DEF InputTest, InputWrite
    <3>5. CASE PausePid(t) \/ ResumePid(t)
      BY <3>5, HoldingPcs DEF PausePid, ResumePid
    <3> QED  BY <1>2, <3>1, <3>2, <3>3, <3>4, <3>5 DEF Control
  <2>4. KeepsCounts
    BY <2>1, <2>2, SameCounts, FlagCounts
  <2> QED  BY <2>1, <2>3, <2>4, HeldCounts
<1> QED  BY <1>1, <1>2

LEMMA RequestFindCounts ==
  ASSUME Inv, NEW t \in Threads, NEW op \in DOMAIN FirstPc, NEW id \in Workflows,
         RequestFind(t, op, id)
  PROVE  CountsStay
<1>1. PICK n \in Find(id) :
        GotoWith(t, FirstPc[op], [id |-> id, node |-> n, pid |-> 0, job |-> heap[n].job])
  BY DEF RequestFind
<1>2. FirstPc[op] # "start_fork"
  BY DEF FirstPc
<1>3. /\ owner' = owner /\ starts' = starts /\ spc' = spc /\ sloc' = sloc /\ linked' = linked
      /\ heap' = heap
  BY DEF RequestFind, procs, service, registry
<1>4. tpc' = [tpc EXCEPT ![t] = FirstPc[op]] /\ \A u \in Threads \ {t} : loc'[u] = loc[u]
  BY <1>1, OtherLocs DEF GotoWith, Goto
<1> QED  BY <1>2, <1>3, <1>4, SameCounts, ThreadForks DEF CountsStay

LEMMA ServiceCounts ==
  ASSUME Inv, AloneInv, Completion \/ Timeout, ~RetryFork, ~FailureRetry
  PROVE  CountsStay
<1>0. \/ Completion /\ ~RetryFork /\ ~FailureRetry
      \/ Timeout
  OBVIOUS
<1>1. /\ owner' = owner /\ starts' = starts /\ tpc' = tpc /\ loc' = loc /\ linked' \subseteq linked
  <2>1. CASE Completion /\ ~RetryFork /\ ~FailureRetry
    BY <2>1, ServiceUnlinks DEF Completion, CompletionPop, CompletionUnmatched, CompletionMatch,
         CompletionDecide, CompletionNotFound, CompletionRemove, CompletionUnlink,
         FailureNoRetry, RetryForkFails, RetryStorePid, RetryRunning, procs, registry, http
  <2>2. CASE TimeoutFound
    BY <2>2 DEF TimeoutFound, procs, registry, http
  <2>3. CASE TimeoutKill
    BY <2>3 DEF TimeoutKill, Terminate, procs, registry, http
  <2>4. CASE TimeoutFlag
    BY <2>4 DEF TimeoutFlag, procs, registry, http
  <2> QED  BY <1>0, <2>1, <2>2, <2>3, <2>4 DEF Timeout
<1>2. spc' # "fork"
  <2>1. CASE Completion /\ ~RetryFork /\ ~FailureRetry
    BY <2>1 DEF Completion, CompletionPop, CompletionUnmatched, CompletionMatch,
         CompletionDecide, CompletionNotFound, CompletionRemove, CompletionUnlink,
         FailureNoRetry, RetryForkFails, RetryStorePid, RetryRunning, SGoto
  <2>2. CASE TimeoutFound
    BY <2>2 DEF TimeoutFound, SGoto
  <2>3. CASE TimeoutKill
    BY <2>3 DEF TimeoutKill, SGoto
  <2>4. CASE TimeoutFlag
    BY <2>4 DEF TimeoutFlag, SGoto
  <2> QED  BY <1>0, <2>1, <2>2, <2>3, <2>4 DEF Timeout
<1>3. ForksStay
  BY <1>1, <1>2, ServiceForks
<1>4. CASE RetryStorePid
  <2>1. PICK n \in Find(sloc.id) : heap' = [heap EXCEPT ![n].executor_pid = sloc.pid]
    BY <1>4 DEF RetryStorePid, SAt, AloneInv, RetryNodeInv
  <2>2. n \in Nodes /\ heap[n] \in Entry /\ sloc.pid \in 0..MaxPid
    BY LinkedEntries DEF Find, Inv, StateTypes
  <2> DEFINE e == [heap[n] EXCEPT !.executor_pid = sloc.pid]
  <2>3. e \in Entry /\ e.id = heap[n].id /\ e.job = heap[n].job
        /\ e.retry_count = heap[n].retry_count
    BY <2>2 DEF Entry
  <2>4. heap' = [heap EXCEPT ![n] = e]
    BY <2>1
  <2> HIDE DEF e
  <2>5. KeepsCounts
    BY <1>1, <2>2, <2>3, <2>4, StoreCounts
  <2> QED  BY <1>1, <1>3, <2>5 DEF CountsStay
<1>5. CASE RetryRunning
  <2>1. UpdateState(sloc.id, "RUNNING") /\ linked' = linked /\ "RUNNING" \in States
    BY <1>5 DEF RetryRunning, States
  <2>2. KeepsCounts
    BY <2>1, UpdateCounts
  <2> QED  BY <1>1, <1>3, <2>2 DEF CountsStay
<1>6. CASE TimeoutFlag
  <2>1. \A n \in Nodes : heap'[n] = IF n \in Find(sloc.id)
                                     THEN [heap[n] EXCEPT !.abandon_requested = TRUE]
                                     ELSE heap[n]
    BY <1>6, FlaggedEntries
  <2>2. ASSUME NEW n \in Nodes, heap[n] \in Entry
        PROVE  LET e == [heap[n] EXCEPT !.abandon_requested = TRUE] IN
               e.id = heap[n].id /\ e.job = heap[n].job /\ e.retry_count = heap[n].retry_count
    BY <2>2 DEF Entry
  <2>3. KeepsCounts
    BY <1>1, <2>1, <2>2, LinkedEntries DEF KeepsCounts
  <2> QED  BY <1>1, <1>3, <2>3 DEF CountsStay
<1>7. CASE ~RetryStorePid /\ ~RetryRunning /\ ~TimeoutFlag
  <2>1. heap' = heap
    <3>1. CASE Completion /\ ~RetryFork /\ ~FailureRetry /\ ~RetryStorePid /\ ~RetryRunning
      BY <3>1 DEF Completion, CompletionPop, CompletionUnmatched, CompletionMatch,
         CompletionDecide, CompletionNotFound, CompletionRemove, CompletionUnlink,
         FailureNoRetry, RetryForkFails, registry
    <3>2. CASE TimeoutFound
      BY <3>2 DEF TimeoutFound, registry
    <3>3. CASE TimeoutKill
      BY <3>3 DEF TimeoutKill, registry
    <3> QED  BY <1>0, <1>7, <3>1, <3>2, <3>3 DEF Timeout
  <2> QED  BY <1>1, <1>3, <2>1, SameCounts DEF CountsStay
<1> QED  BY <1>4, <1>5, <1>6, <1>7

LEMMA QuietCounts ==
  ASSUME UNCHANGED <<registry, owner, http, service>>
  PROVE  CountsStay
  BY DEF registry, http, service, CountsStay, KeepsCounts, ForksStay

LEMMA StartAddCounts ==
  ASSUME Inv, NEW t \in Threads, NEW id \in Workflows, StartAdd(t, id)
  PROVE  CountsStay
<1>1. /\ owner' = owner /\ starts' = starts /\ spc' = spc /\ sloc' = sloc /\ linked' = linked
      /\ heap' = heap /\ tpc' = [tpc EXCEPT ![t] = "start_link"]
      /\ loc' = [loc EXCEPT ![t] = [NoLoc EXCEPT !.id = id]]
  BY DEF StartAdd, GotoWith, Goto, procs, service
<1> QED  BY <1>1, SameCounts, OtherLocs, ThreadForks DEF CountsStay

LEMMA CountSteps ==
  ASSUME Inv, AloneInv, [Next]_vars
  PROVE  \/ CountsStay \/ RetryFork \/ FailureRetry
         \/ \E t \in Threads : StartFork(t) \/ StartLink(t)
<1>1. ASSUME NEW t \in Threads, Serve(t) PROVE CountsStay \/ StartFork(t) \/ StartLink(t)
  BY <1>1, StartCounts, HeldRequestCounts DEF Serve
<1>2. ASSUME UNCHANGED vars PROVE CountsStay
  BY <1>2, QuietCounts DEF vars, procs
<1>3. ASSUME NEW t \in Threads, NEW id \in Workflows, Request(t, id)
      PROVE  CountsStay
  BY <1>2, <1>3, RequestFindCounts, StartAddCounts DEF Request, StartDuplicate, RequestNotFound
<1>4. ASSUME NEW p \in Pids, Reap(p) \/ OrphanExits(p) \/ ProcessExits(p) PROVE CountsStay
  <2>1. UNCHANGED <<registry, owner, http, service>>
    BY <1>4 DEF Reap, OrphanExits, ProcessExits
  <2> QED  BY <2>1, QuietCounts
<1>5. CASE Completion \/ Timeout
  BY <1>5, ServiceCounts
<1>6. CASE Crash
  BY <1>6, GoneCounts DEF Crash
<1>7. CASE Restart
  BY <1>7, QuietCounts DEF Restart, procs
<1> QED  BY <1>1, <1>2, <1>3, <1>4, <1>5, <1>6, <1>7 DEF Next

\* The processes of a start are finitely many, and a fork adds one to those of
\* its own start only.
\* the processes of start j after the step
After(j) == {p \in Pids : owner'[p] = j}

LEMMA ProcessesFinite ==
  ASSUME NEW j
  PROVE  /\ IsFiniteSet(Processes(j)) /\ Cardinality(Processes(j)) \in Nat
         /\ IsFiniteSet(After(j)) /\ Cardinality(After(j)) \in Nat
<1>1. IsFiniteSet(Pids)
  BY BoundsAssumption, FS_Interval DEF Pids
<1>2. Processes(j) \subseteq Pids /\ After(j) \subseteq Pids
  BY DEF Processes, After
<1> QED  BY <1>1, <1>2, FS_Subset, FS_CardinalityType

LEMMA ForkCounts ==
  ASSUME Inv, NEW p \in NewPids, NEW j \in Starts, Fork(p, j)
  PROVE  /\ Cardinality(After(j)) <= Cardinality(Processes(j)) + 1
         /\ \A k \in Starts \ {j} : /\ Cardinality(After(k)) <= Cardinality(Processes(k))
                                    /\ Processes(k) = {} => After(k) = {}
         /\ \A q \in Pids : owner'[q] \in {j, owner[q]}
<1>1. p \in Pids /\ owner'[p] = j /\ \A q \in Pids \ {p} : owner'[q] = owner[q]
  BY DEF NewPids, Fork, Inv, StateTypes
<1>2. After(j) = Processes(j) \cup {p}
  BY <1>1 DEF Processes, After
<1>3. Cardinality(Processes(j) \cup {p}) <= Cardinality(Processes(j)) + 1
  <2> DEFINE S == Processes(j)
             c == Cardinality(S)
  <2>1. IsFiniteSet(S) /\ c \in Nat
    BY ProcessesFinite
  <2> HIDE DEF S
  <2>2. Cardinality(S \cup {p}) = IF p \in S THEN c ELSE c + 1
    BY <2>1, FS_AddElement
  <2> HIDE DEF c
  <2>3. Cardinality(S \cup {p}) <= c + 1
    BY <2>1, <2>2
  <2> QED  BY <2>3 DEF S, c
<1>4. ASSUME NEW k \in Starts \ {j}
      PROVE  /\ Cardinality(After(k)) <= Cardinality(Processes(k))
             /\ Processes(k) = {} => After(k) = {}
  <2>1. After(k) \subseteq Processes(k)
    BY <1>1 DEF Processes, After
  <2> QED  BY <2>1, ProcessesFinite, FS_Subset
<1> QED  BY <1>1, <1>2, <1>3, <1>4

\* The four steps that change the counts.
LEMMA StartLinkExec ==
  ASSUME Inv, AloneInv, ExecInv, NEW t \in Threads, StartLink(t)
  PROVE  ExecInv'
<1> DEFINE id == loc[t].id
           l == [loc[t] EXCEPT !.job = starts + 1]
<1>0. StateTypes /\ loc[t] \in Locals
  BY Unmoved DEF Inv
<1>1. PICK n \in Nodes \ linked : /\ linked' = linked \cup {n}
                                  /\ heap' = [heap EXCEPT ![n] = NewEntry(id)]
  BY <1>0, ThreadLinks
<1>2. /\ starts' = starts + 1 /\ owner' = owner /\ spc' = spc /\ sloc' = sloc
      /\ tpc' = [tpc EXCEPT ![t] = "start_fork"] /\ loc' = [loc EXCEPT ![t] = l]
  BY DEF StartLink, GotoWith, Goto, procs, service
<1>3. l.job = starts + 1
  BY <1>0 DEF Locals
<1> HIDE DEF l, id
<1>4. starts \in Nat /\ starts < MaxStarts /\ \A p \in Pids : owner[p] \in Nat /\ owner[p] <= starts
  BY Unmoved, BoundsAssumption DEF StartLink, Inv, StateTypes, ExecInv, OwnersInv
<1>5. \A j : After(j) = Processes(j)
  BY <1>2 DEF Processes, After
<1>6. Processes(starts + 1) = {}
  BY <1>4 DEF Processes, After
<1>7. /\ heap'[n].job = starts + 1 /\ heap'[n].retry_count = 0 /\ heap'[n].id = id
      /\ \A m \in linked : heap'[m] = heap[m]
  BY <1>1 DEF Inv, StateTypes, NewEntry
<1>8. OwnersInv' /\ BoundedExecutions'
  BY <1>2, <1>4, <1>5 DEF ExecInv, OwnersInv, BoundedExecutions, After, Processes
<1>9. CountsInv'
  <2>1. ASSUME NEW m \in linked
        PROVE  /\ Cardinality(After(heap[m].job)) <= heap'[m].retry_count + 1
               /\ spc' = "fork" /\ heap'[m].id = sloc'.id =>
                    Cardinality(After(heap[m].job)) <= heap'[m].retry_count
    BY <1>2, <1>5, <1>7 DEF ExecInv, CountsInv
  <2>2. Cardinality(After(starts + 1)) = 0
    BY <1>5, <1>6, FS_EmptySet
  <2>3. \A m \in linked' :
          /\ Cardinality(After(heap'[m].job)) <= heap'[m].retry_count + 1
          /\ spc' = "fork" /\ heap'[m].id = sloc'.id =>
               Cardinality(After(heap'[m].job)) <= heap'[m].retry_count
    BY <1>1, <1>7, <2>1, <2>2
  <2> QED  BY <2>3 DEF CountsInv, Processes, After
<1>10. FirstForkInv'
  <2>1. loc'[t] = l /\ \A u \in Threads \ {t} : tpc'[u] = tpc[u] /\ loc'[u] = loc[u]
    BY <1>2 DEF Inv, StateTypes
  <2> QED  BY <1>3, <1>5, <1>6, <2>1 DEF ExecInv, FirstForkInv, After, Processes
<1> QED  BY <1>8, <1>9, <1>10 DEF ExecInv

LEMMA StartForkExec ==
  ASSUME Inv, ExecInv, NEW t \in Threads, StartFork(t)
  PROVE  ExecInv'
<1>1. PICK p \in NewPids :
        /\ Fork(p, loc[t].job)
        /\ GotoWith(t, "start_running", [loc[t] EXCEPT !.pid = p])
  BY DEF StartFork
<1>2. tpc[t] = "start_fork" /\ tpc[t] \in Starting
  BY DEF StartFork, At, Starting
<1>3. PICK n \in linked : /\ heap[n].job = loc[t].job /\ heap[n].executor_pid = 0
                          /\ heap[n].id = loc[t].id /\ heap[n] \in Entry
                          /\ loc[t].job \in 1..starts
  BY <1>2, StartedEntry
<1> DEFINE j == loc[t].job
<1>4. j \in Starts /\ j \in 1..starts /\ Processes(j) = {} /\ Cardinality(Processes(j)) = 0
  BY <1>2, <1>3, FS_EmptySet DEF ExecInv, FirstForkInv, Entry
<1>5. Fork(p, j) /\ heap' = heap /\ linked' = linked /\ starts' = starts /\ spc' = spc /\ sloc' = sloc
  BY <1>1 DEF StartFork, registry, service
<1>6. /\ tpc'[t] = "start_running" /\ \A u \in Threads \ {t} : tpc'[u] = tpc[u] /\ loc'[u] = loc[u]
  BY <1>1 DEF GotoWith, Goto, Inv, StateTypes
<1>7. \A u \in Threads \ {t} : tpc[u] = "start_fork" => loc[u].job # j /\ loc[u].job \in Starts
  <2>1. ASSUME NEW u \in Threads \ {t}, tpc[u] = "start_fork"
        PROVE  loc[u].job # j /\ loc[u].job \in Starts
    <3>1. tpc[u] \in Starting
      BY <2>1 DEF Starting
    <3>2. loc[u].job \in Starts
      BY <3>1, StartedEntry DEF Entry
    <3> QED  BY <1>2, <3>1, <3>2 DEF Inv, StartsInv
  <2> QED  BY <2>1
<1> HIDE DEF j
<1>8. /\ Cardinality(After(j)) <= 1
      /\ \A k \in Starts \ {j} : /\ Cardinality(After(k)) <= Cardinality(Processes(k))
                                 /\ Processes(k) = {} => After(k) = {}
      /\ \A q \in Pids : owner'[q] \in {j, owner[q]}
  <2>1. /\ Cardinality(After(j)) <= Cardinality(Processes(j)) + 1
        /\ \A k \in Starts \ {j} : /\ Cardinality(After(k)) <= Cardinality(Processes(k))
                                   /\ Processes(k) = {} => After(k) = {}
        /\ \A q \in Pids : owner'[q] \in {j, owner[q]}
    BY <1>4, <1>5, ForkCounts
  <2> QED  BY <1>4, <2>1
<1>9. \A k : Cardinality(Processes(k)) \in Nat /\ Cardinality(After(k)) \in Nat
  BY ProcessesFinite
<1>10. OwnersInv' /\ BoundedExecutions'
  <2>1. OwnersInv'
    BY <1>4, <1>5, <1>8 DEF ExecInv, OwnersInv
  <2>2. ASSUME NEW k \in Starts PROVE Cardinality(After(k)) <= MaxRetries + 1
    <3>1. CASE k = j
      BY <1>8, <1>9, <3>1, BoundsAssumption
    <3>2. CASE k # j
      <4>1. Cardinality(Processes(k)) <= MaxRetries + 1
        BY DEF ExecInv, BoundedExecutions
      <4> QED  BY <1>8, <1>9, <3>2, <4>1, BoundsAssumption
    <3> QED  BY <3>1, <3>2
  <2> QED  BY <2>1, <2>2 DEF BoundedExecutions, Starts, After, Processes
<1>11. CountsInv'
  <2>1. ASSUME NEW m \in linked
        PROVE  /\ Cardinality(After(heap[m].job)) <= heap[m].retry_count + 1
               /\ spc = "fork" /\ heap[m].id = sloc.id =>
                    Cardinality(After(heap[m].job)) <= heap[m].retry_count
    <3>1. heap[m] \in Entry /\ heap[m].job \in Starts /\ heap[m].retry_count \in Nat
      BY LinkedEntries, BoundsAssumption DEF Entry
    <3>2. CASE heap[m].job # j
      <4> DEFINE k == heap[m].job
      <4>1. /\ Cardinality(Processes(k)) <= heap[m].retry_count + 1
            /\ spc = "fork" /\ heap[m].id = sloc.id => Cardinality(Processes(k)) <= heap[m].retry_count
        BY DEF ExecInv, CountsInv
      <4>2. Cardinality(After(k)) <= Cardinality(Processes(k))
        BY <1>8, <3>1, <3>2
      <4> HIDE DEF k
      <4>3. /\ Cardinality(After(k)) <= heap[m].retry_count + 1
            /\ spc = "fork" /\ heap[m].id = sloc.id => Cardinality(After(k)) <= heap[m].retry_count
        BY <1>9, <3>1, <4>1, <4>2
      <4> QED  BY <4>3 DEF k
    <3>3. CASE heap[m].job = j
      <4>1. m = n
        BY <1>3, <3>3 DEF Inv, RegistryInv, j
      <4>2. ~(spc = "fork" /\ heap[m].id = sloc.id)
        <5>1. ASSUME spc = "fork", heap[m].id = sloc.id PROVE FALSE
          <6>1. PICK w \in linked : Find(sloc.id) = {w} /\ Seen(heap[w].executor_pid)
            BY <5>1, WorkedEntry DEF Working
          <6>2. w = m
            BY <5>1, <6>1 DEF Find
          <6> QED  BY <1>3, <4>1, <6>1, <6>2, SeenIsPositive
        <5> QED  BY <5>1
      <4>3. Cardinality(After(j)) <= heap[m].retry_count + 1
        BY <1>8, <1>9, <3>1
      <4> QED  BY <3>3, <4>2, <4>3
    <3> QED  BY <3>2, <3>3
  <2> QED  BY <1>5, <2>1 DEF CountsInv, After, Processes
<1>12. FirstForkInv'
  BY <1>6, <1>7, <1>8 DEF ExecInv, FirstForkInv, After, Processes
<1> QED  BY <1>10, <1>11, <1>12 DEF ExecInv

LEMMA RetryForkExec ==
  ASSUME Inv, AloneInv, ExecInv, RetryFork
  PROVE  ExecInv'
<1>1. spc = "fork" /\ spc \in Working
  BY DEF RetryFork, SAt, Working
<1>2. PICK n \in linked : /\ Find(sloc.id) = {n} /\ heap[n] \in Entry /\ heap[n].id = sloc.id
                          /\ Seen(heap[n].executor_pid)
  BY <1>1, WorkedEntry
<1> DEFINE j == heap[n].job
<1>3. PICK p \in NewPids : Fork(p, j)
  BY <1>1, <1>2 DEF RetryFork, AloneInv, RetryNodeInv
<1>4. /\ j \in Starts /\ j <= starts /\ starts \in Nat
      /\ heap[n].retry_count \in 0..MaxRetries /\ Cardinality(Processes(j)) <= heap[n].retry_count
  BY <1>1, <1>2, Unmoved, BoundsAssumption DEF Entry, Inv, RegistryInv, ExecInv, CountsInv
<1>5. /\ heap' = heap /\ linked' = linked /\ starts' = starts /\ spc' = "store"
      /\ tpc' = tpc /\ loc' = loc
  BY DEF RetryFork, registry, http, SGoto
<1> HIDE DEF j
<1>6. /\ Cardinality(After(j)) <= Cardinality(Processes(j)) + 1
      /\ \A k \in Starts \ {j} : /\ Cardinality(After(k)) <= Cardinality(Processes(k))
                                 /\ Processes(k) = {} => After(k) = {}
      /\ \A q \in Pids : owner'[q] \in {j, owner[q]}
  BY <1>3, <1>4, ForkCounts
<1>7. \A k : Cardinality(Processes(k)) \in Nat /\ Cardinality(After(k)) \in Nat
  BY ProcessesFinite
<1>8. Cardinality(After(j)) <= heap[n].retry_count + 1
  BY <1>4, <1>6, <1>7
<1>9. OwnersInv'
  BY <1>4, <1>5, <1>6 DEF ExecInv, OwnersInv
<1>10. BoundedExecutions'
  <2>1. ASSUME NEW k \in Starts PROVE Cardinality(After(k)) <= MaxRetries + 1
    <3>1. CASE k = j
      BY <1>4, <1>7, <1>8, <3>1, BoundsAssumption
    <3>2. CASE k # j
      <4>1. Cardinality(Processes(k)) <= MaxRetries + 1
        BY DEF ExecInv, BoundedExecutions
      <4> QED  BY <1>6, <1>7, <3>2, <4>1, BoundsAssumption
    <3> QED  BY <3>1, <3>2
  <2> QED  BY <2>1 DEF BoundedExecutions, Starts, After, Processes
<1>11. CountsInv'
  <2>1. ASSUME NEW m \in linked
        PROVE  Cardinality(After(heap[m].job)) <= heap[m].retry_count + 1
    <3>1. heap[m] \in Entry /\ heap[m].job \in Starts /\ heap[m].retry_count \in Nat
      BY LinkedEntries, BoundsAssumption DEF Entry
    <3>2. CASE heap[m].job # j
      <4> DEFINE k == heap[m].job
      <4>1. Cardinality(Processes(k)) <= heap[m].retry_count + 1
        BY DEF ExecInv, CountsInv
      <4>2. Cardinality(After(k)) <= Cardinality(Processes(k))
        BY <1>6, <3>1, <3>2
      <4> HIDE DEF k
      <4>3. Cardinality(After(k)) <= heap[m].retry_count + 1
        BY <1>7, <3>1, <4>1, <4>2
      <4> QED  BY <4>3 DEF k
    <3>3. CASE heap[m].job = j
      <4>1. m = n
        BY <3>3 DEF Inv, RegistryInv, j
      <4> QED  BY <1>8, <3>3, <4>1
    <3> QED  BY <3>2, <3>3
  <2> QED  BY <1>5, <2>1 DEF CountsInv, After, Processes
<1>12. FirstForkInv'
  <2>1. ASSUME NEW t \in Threads, tpc[t] = "start_fork" PROVE After(loc[t].job) = {}
    <3>1. PICK m \in linked : /\ heap[m].job = loc[t].job /\ heap[m].executor_pid = 0
                              /\ heap[m] \in Entry
      BY <2>1, StartedEntry DEF Starting
    <3>2. m # n
      BY <1>2, <3>1, SeenIsPositive
    <3>3. loc[t].job # j /\ loc[t].job \in Starts
      BY <3>1, <3>2 DEF Inv, RegistryInv, j, Entry
    <3> QED  BY <1>6, <2>1, <3>3 DEF ExecInv, FirstForkInv
  <2> QED  BY <1>5, <2>1 DEF FirstForkInv, After, Processes
<1> QED  BY <1>9, <1>10, <1>11, <1>12 DEF ExecInv

LEMMA FailureRetryExec ==
  ASSUME Inv, ExecInv, FailureRetry
  PROVE  ExecInv'
<1>1. spc \in Working
  BY DEF FailureRetry, SAt, Working
<1>2. PICK n \in linked : /\ Find(sloc.id) = {n} /\ n \in Nodes /\ heap[n] \in Entry
                          /\ heap[n].id = sloc.id
  BY <1>1, WorkedEntry
<1> DEFINE e == [heap[n] EXCEPT !.retry_count = @ + 1]
<1>3. heap' = [heap EXCEPT ![n] = e]
  BY <1>2 DEF FailureRetry
<1>4. e.id = heap[n].id /\ e.job = heap[n].job /\ e.retry_count = heap[n].retry_count + 1
  BY <1>2 DEF Entry
<1> HIDE DEF e
<1>5. heap'[n] = e /\ \A m \in linked \ {n} : heap'[m] = heap[m]
  BY <1>2, <1>3, LinkedEntries DEF Inv, StateTypes
<1>6. /\ linked' = linked /\ starts' = starts /\ owner' = owner /\ tpc' = tpc /\ loc' = loc
      /\ sloc'.id = sloc.id
  BY DEF FailureRetry, procs, http, SGoto, Inv, StateTypes
<1>7. \A j : After(j) = Processes(j)
  BY <1>6 DEF After, Processes
<1>8. OwnersInv' /\ BoundedExecutions' /\ FirstForkInv'
  BY <1>6 DEF ExecInv, OwnersInv, BoundedExecutions, FirstForkInv, Processes
<1>9. CountsInv'
  <2>1. ASSUME NEW m \in linked
        PROVE  /\ Cardinality(After(heap'[m].job)) <= heap'[m].retry_count + 1
               /\ heap'[m].id = sloc.id => Cardinality(After(heap'[m].job)) <= heap'[m].retry_count
    <3>1. heap[m].retry_count \in Nat /\ Cardinality(Processes(heap[m].job)) \in Nat
      BY LinkedEntries, BoundsAssumption, ProcessesFinite DEF Entry
    <3>2. Cardinality(Processes(heap[m].job)) <= heap[m].retry_count + 1
      BY DEF ExecInv, CountsInv
    <3>3. CASE m # n
      <4>1. heap'[m] = heap[m] /\ heap[m].id # sloc.id
        BY <1>2, <1>5, <3>3 DEF Inv, RegistryInv
      <4> QED  BY <1>7, <3>2, <4>1
    <3>4. CASE m = n
      <4>1. heap'[m].job = heap[m].job /\ heap'[m].retry_count = heap[m].retry_count + 1
        BY <1>4, <1>5, <3>4
      <4> QED  BY <1>7, <3>1, <3>2, <4>1
    <3> QED  BY <3>3, <3>4
  <2> QED  BY <1>6, <2>1 DEF CountsInv, After, Processes
<1> QED  BY <1>8, <1>9 DEF ExecInv

LEMMA InitExec == Init => ExecInv
<1> SUFFICES ASSUME Init PROVE ExecInv
  OBVIOUS
<1>1. ASSUME NEW j \in Starts PROVE Cardinality(Processes(j)) = 0
  <2>1. Processes(j) = {}
    BY DEF Init, Processes, Starts
  <2> QED  BY <2>1, FS_EmptySet
<1>2. OwnersInv /\ CountsInv /\ FirstForkInv
  BY BoundsAssumption DEF Init, OwnersInv, CountsInv, FirstForkInv
<1> QED  BY <1>1, <1>2, BoundsAssumption DEF ExecInv, BoundedExecutions

LEMMA StepExec ==
  ASSUME Inv, AloneInv, ExecInv, [Next]_vars
  PROVE  ExecInv'
  BY CountSteps, CountsFrame, RetryForkExec, FailureRetryExec, StartForkExec, StartLinkExec

\* However requests, exits, timeouts, retries and ends of the daemon interleave, as
\* long as no two updates of the list overlap, handle_workflow_failure executes a workflow at most MaxRetries times after the
\* execution that daemon_execute_bash_workflow started: no exit is retried twice.
THEOREM ExecutionsBounded == Spec => [](~raced => BoundedExecutions)
<1> DEFINE J == ~raced => Inv /\ AloneInv /\ ExecInv
<1>1. Init => J
  BY InitInv, InitAlone, InitExec
<1>2. J /\ [Next]_vars => J'
  BY StepInv, StepAlone, StepExec, RacedStays
<1>3. J => (~raced => BoundedExecutions)
  BY DEF ExecInv
<1> QED  BY <1>1, <1>2, <1>3, PTL DEF Spec
-----------------------------------------------------------------------------
(* The exit queue of this module is the FIFO that ExitQueue implements.    *)
(*                                                                         *)
(* taken is history: the processes whose exits the completion task took.   *)
(* A daemon that ends takes what waits in its queue with it, which is no   *)
(* step of a FIFO; that a pid is put once, also by the next daemon, rests  *)
(* on a child being reaped once.                                           *)

VARIABLE taken

TakenNext == /\ Next
             /\ taken' = IF CompletionPop THEN Append(taken, Head(exitq).pid) ELSE taken
TakenSpec == Init /\ taken = << >> /\ [][TakenNext]_<<vars, taken>>

PidsOf(s) == [i \in DOMAIN s |-> s[i].pid]
Fifo == INSTANCE BoundedFifo WITH
          Events <- Pids, Capacity <- QueueLen, waiting <- PidsOf(exitq),
          discarded <- dropped

Reaped(p) == status[p] = "reaped"
FifoInv == /\ Len(exitq) <= QueueLen
           /\ \A p \in dropped : Reaped(p)
           /\ taken \in Seq(Pids) /\ \A i \in DOMAIN taken : Reaped(taken[i])

Exits == [pid : Pids, exit_code : ExitCodes]

LEMMA PidsOfAppend ==
  ASSUME NEW s \in Seq(Exits), NEW x \in Exits
  PROVE  PidsOf(Append(s, x)) = Append(PidsOf(s), x.pid) /\ Len(PidsOf(s)) = Len(s)
<1> DEFINE f == PidsOf(s)
           a == Append(s, x)
           b == Append(f, x.pid)
           n == Len(s)
           E == Exits
<1>0. x \in E /\ x.pid \in Pids /\ \A y \in E : y.pid \in Pids
  BY DEF Exits
<1> HIDE DEF E
<1>1. n \in Nat /\ DOMAIN s = 1..n /\ a \in Seq(E) /\ Len(a) = n + 1 /\ DOMAIN a = 1..(n + 1)
      /\ a[n + 1] = x /\ \A i \in 1..n : a[i] = s[i] /\ s[i] \in E
  BY <1>0 DEF E
<1>2. f = [i \in 1..n |-> s[i].pid] /\ f \in [1..n -> Pids]
  BY <1>0, <1>1 DEF PidsOf
<1>3. f \in Seq(Pids) /\ Len(f) = n
  BY <1>1, <1>2
<1> HIDE DEF f, n
<1>4. DOMAIN b = 1..(n + 1) /\ b[n + 1] = x.pid /\ \A i \in 1..n : b[i] = f[i]
  BY <1>0, <1>1, <1>3
<1>5. b = [i \in 1..(n + 1) |-> b[i]]
  BY <1>0, <1>3, <1>4
<1> HIDE DEF a, b
<1>6. PidsOf(a) = [i \in 1..(n + 1) |-> a[i].pid]
  BY <1>1 DEF PidsOf
<1>7. \A i \in 1..(n + 1) : a[i].pid = b[i]
  <2>1. ASSUME NEW i \in 1..(n + 1) PROVE a[i].pid = b[i]
    <3>1. i = n + 1 \/ i \in 1..n
      BY <1>1
    <3>2. CASE i \in 1..n
      BY <1>1, <1>2, <1>4, <3>2
    <3> QED  BY <1>1, <1>4, <3>1, <3>2
  <2> QED  BY <2>1
<1>8. PidsOf(a) = b
  BY <1>5, <1>6, <1>7
<1> QED  BY <1>3, <1>8 DEF a, b, f, n

LEMMA PidsOfTail ==
  ASSUME NEW s \in Seq(Exits), s # << >>
  PROVE  /\ PidsOf(s) # << >> /\ Head(PidsOf(s)) = Head(s).pid /\ Head(s) \in Exits
         /\ PidsOf(Tail(s)) = Tail(PidsOf(s)) /\ Len(Tail(s)) <= Len(s)
<1> DEFINE f == PidsOf(s)
           a == Tail(s)
           b == Tail(f)
           n == Len(s)
           E == Exits
<1>0. \A y \in E : y.pid \in Pids
  BY DEF Exits
<1> HIDE DEF E
<1>1. n \in Nat /\ n > 0 /\ DOMAIN s = 1..n /\ a \in Seq(E) /\ Len(a) = n - 1
      /\ DOMAIN a = 1..(n - 1) /\ Head(s) = s[1] /\ s[1] \in E
      /\ (\A i \in 1..(n - 1) : a[i] = s[i + 1]) /\ \A i \in 1..n : s[i] \in E
  BY DEF E
<1>2. f = [i \in 1..n |-> s[i].pid] /\ f \in [1..n -> Pids]
  BY <1>0, <1>1 DEF PidsOf
<1>3. f \in Seq(Pids) /\ Len(f) = n
  BY <1>1, <1>2
<1>4. f[1] = s[1].pid
  BY <1>1, <1>2
<1> HIDE DEF f, n
<1>5. /\ f # << >> /\ Head(f) = f[1] /\ DOMAIN b = 1..(n - 1) /\ b \in Seq(Pids)
      /\ \A i \in 1..(n - 1) : b[i] = f[i + 1]
  BY <1>1, <1>3
<1> HIDE DEF a, b
<1>6. b = [i \in 1..(n - 1) |-> b[i]]
  BY <1>5
<1>7. PidsOf(a) = [i \in 1..(n - 1) |-> a[i].pid]
  BY <1>1 DEF PidsOf
<1>8. \A i \in 1..(n - 1) : a[i].pid = b[i]
  <2>1. ASSUME NEW i \in 1..(n - 1) PROVE a[i].pid = b[i]
    <3>1. i + 1 \in 1..n
      BY <1>1
    <3> QED  BY <1>1, <1>2, <1>5, <3>1
  <2> QED  BY <2>1
<1>9. PidsOf(a) = b
  BY <1>6, <1>7, <1>8
<1> QED  BY <1>1, <1>4, <1>5, <1>9 DEF a, b, f, n, E

\* Only the handler, the completion task's pop and the end of the daemon change
\* the queue, and a process that was reaped stays so.  None of this depends on the
\* registry, so overlapping updates of its list do not matter.
QueueMoves == UNCHANGED queue \/ CompletionPop \/ DaemonGone \/ \E p \in Pids : Reap(p)
ReapedStay == /\ status' \in [Pids -> Statuses]
              /\ \A p \in Pids : Reaped(p) => Reaped(p)'

LEMMA ReapedFork ==
  ASSUME status \in [Pids -> Statuses], NEW p \in NewPids, NEW j, Fork(p, j)
  PROVE  ReapedStay
<1>1. status[p] = "none" /\ p \in Pids /\ status' = [status EXCEPT ![p] = "running"]
  BY DEF NewPids, Fork
<1>2. status' \in [Pids -> Statuses] /\ \A q \in Pids : status[q] = "reaped" => status'[q] = "reaped"
  BY <1>1 DEF Statuses
<1> QED  BY <1>2 DEF ReapedStay, Reaped

LEMMA QueueSteps ==
  ASSUME status \in [Pids -> Statuses], [Next]_vars
  PROVE  ReapedStay /\ QueueMoves
<1> USE DEF QueueMoves
<1>0. status \in [Pids -> Statuses]
  OBVIOUS
<1>1. ASSUME UNCHANGED procs PROVE ReapedStay
  BY <1>0, <1>1 DEF procs, ReapedStay, Reaped
<1>2. ASSUME NEW p, Terminate(p) PROVE ReapedStay
  BY <1>0, <1>2 DEF Terminate, ReapedStay, Reaped
<1>3. ASSUME DaemonGone PROVE ReapedStay /\ QueueMoves
  <2>1. \A p \in Pids : status[p] = "reaped" => status'[p] = "reaped"
    BY <1>3 DEF DaemonGone, Alive
  <2>2. status' \in [Pids -> Statuses]
    BY <1>0, <1>3 DEF DaemonGone, Alive, Statuses
  <2> QED  BY <1>3, <2>1, <2>2 DEF ReapedStay, Reaped
<1>4. ASSUME NEW t \in Threads, Serve(t) PROVE ReapedStay /\ QueueMoves
  <2>1. CASE StartFork(t)
    <3>1. PICK p \in NewPids : Fork(p, loc[t].job)
      BY <2>1 DEF StartFork
    <3>2. ReapedStay
      BY <1>0, <3>1, ReapedFork
    <3> QED  BY <2>1, <3>2 DEF StartFork
  <2>2. CASE Start(t) /\ ~StartFork(t)
    BY <1>1, <2>2 DEF Start, StartLink, StartPipeFails, StartUnlink, StartForkFails,
                      StartRunning, StartStorePid, StartStorePipe
  <2>3. CASE Abandon(t)
    BY <1>1, <1>2, <2>3 DEF Abandon, AbandonFlag, AbandonNothingToKill, AbandonTest, AbandonKill,
                            AbandonKillFails
  <2>4. CASE PauseKill(t) \/ ResumeKill(t)
    <3>1. UNCHANGED queue
      BY <2>4 DEF PauseKill, ResumeKill
    <3>2. status' = status \/ \E p : \/ Signal(p, "running", "stopped")
                                      \/ Signal(p, "stopped", "running")
      BY <2>4 DEF PauseKill, ResumeKill
    <3>3. /\ status' \in [Pids -> Statuses]
          /\ \A q \in Pids : status[q] = "reaped" => status'[q] = "reaped"
      BY <1>0, <3>2 DEF Signal, Statuses
    <3> QED  BY <3>1, <3>3 DEF ReapedStay, Reaped
  <2>5. CASE InputSigpipe(t)
    BY <1>3, <2>5 DEF InputSigpipe
  <2>6. CASE \/ PauseTest(t) \/ PausePid(t) \/ PauseSet(t) \/ ResumeTest(t)
             \/ ResumePid(t) \/ ResumeSet(t) \/ InputTest(t) \/ InputWrite(t)
    BY <1>1, <2>6 DEF PauseTest, PausePid, PauseSet, ResumeTest, ResumePid, ResumeSet,
                      InputTest, InputWrite
  <2> QED  BY <1>4, <2>1, <2>2, <2>3, <2>4, <2>5, <2>6 DEF Serve, Control
<1>5. ASSUME NEW t \in Threads, NEW id \in Workflows, Request(t, id) PROVE ReapedStay /\ QueueMoves
  <2>1. UNCHANGED procs /\ UNCHANGED queue
    BY <1>5 DEF Request, StartDuplicate, RequestNotFound, StartAdd, RequestFind, vars
  <2> QED  BY <1>1, <2>1
<1>6. ASSUME NEW p \in Pids, Reap(p) PROVE ReapedStay /\ QueueMoves
  BY <1>0, <1>6 DEF Reap, ReapedStay, Reaped, Statuses
<1>7. ASSUME NEW p \in Pids, OrphanExits(p) \/ ProcessExits(p) PROVE ReapedStay /\ QueueMoves
  BY <1>0, <1>7 DEF OrphanExits, ProcessExits, ReapedStay, Reaped, Statuses
<1>8. CASE Completion
  <2>1. CASE RetryFork
    <3>1. PICK p \in NewPids : Fork(p, heap[sloc.node].job)
      BY <2>1 DEF RetryFork
    <3>2. ReapedStay
      BY <1>0, <3>1, ReapedFork
    <3> QED  BY <2>1, <3>2 DEF RetryFork
  <2>2. CASE CompletionPop
    BY <1>1, <2>2 DEF CompletionPop
  <2>3. CASE Completion /\ ~RetryFork /\ ~CompletionPop
    BY <1>1, <2>3 DEF Completion, CompletionUnmatched, CompletionMatch, CompletionDecide,
         CompletionNotFound, CompletionRemove, CompletionUnlink, FailureRetry, FailureNoRetry,
         RetryForkFails, RetryStorePid, RetryRunning
  <2> QED  BY <1>8, <2>1, <2>2, <2>3
<1>9. CASE Timeout
  <2>1. CASE TimeoutFound
    BY <1>1, <2>1 DEF TimeoutFound
  <2>2. CASE TimeoutKill
    BY <1>1, <1>2, <2>2 DEF TimeoutKill
  <2>3. CASE TimeoutFlag
    BY <1>1, <2>3 DEF TimeoutFlag
  <2> QED  BY <1>9, <2>1, <2>2, <2>3 DEF Timeout
<1>10. CASE Crash \/ Restart \/ UNCHANGED vars
  BY <1>1, <1>3, <1>10 DEF Crash, Restart, vars
<1> HIDE DEF QueueMoves
<1> QED  BY <1>4, <1>5, <1>6, <1>7, <1>8, <1>9, <1>10 DEF Next

LEMMA PidsOfLen == ASSUME NEW s \in Seq(Exits)
                   PROVE  Len(PidsOf(s)) = Len(s)
<1>1. Len(s) \in Nat /\ DOMAIN s = 1..Len(s)
  OBVIOUS
<1>2. DOMAIN PidsOf(s) = 1..Len(s)
  BY <1>1 DEF PidsOf
<1> QED  BY <1>1, <1>2

\* What the queue needs to know of the processes.
ExitsInv == /\ status \in [Pids -> Statuses] /\ dropped \subseteq Pids
            /\ exitq \in Seq(Exits) /\ QueueInv

LEMMA ExitsKept ==
  ASSUME ExitsInv, ReapedStay, QueueMoves
  PROVE  ExitsInv'
<1>1. status' \in [Pids -> Statuses] /\ \A p \in Pids : status[p] = "reaped" => status'[p] = "reaped"
  BY DEF ReapedStay, Reaped
<1>2. exitq \in Seq([pid : Pids, exit_code : ExitCodes]) /\ dropped \subseteq Pids
  BY DEF ExitsInv, Exits
<1>3. \A i \in DOMAIN exitq : exitq[i].pid \in Pids /\ status[exitq[i].pid] = "reaped"
  <2>1. exitq \in Seq(Exits)
    BY DEF ExitsInv
  <2>2. \A i \in DOMAIN exitq : exitq[i] \in Exits
    BY <2>1
  <2> QED  BY <2>2 DEF ExitsInv, QueueInv, Exits
<1>4. \A i, k \in DOMAIN exitq : exitq[i].pid = exitq[k].pid => i = k
  BY DEF ExitsInv, QueueInv
<1>5. ASSUME exitq' = exitq
      PROVE  QueueInv'
  BY <1>1, <1>3, <1>4, <1>5 DEF QueueInv
<1>6. CASE UNCHANGED queue
  BY <1>1, <1>2, <1>5, <1>6 DEF queue, ExitsInv, Exits
<1>7. CASE DaemonGone
  BY <1>1, <1>2, <1>7 DEF DaemonGone, ExitsInv, QueueInv
<1>8. CASE CompletionPop
  <2>1. exitq # << >> /\ exitq' = Tail(exitq) /\ dropped' = dropped
    BY <1>8 DEF CompletionPop
  <2>2. /\ exitq' \in Seq([pid : Pids, exit_code : ExitCodes])
        /\ \A k \in DOMAIN exitq' : k + 1 \in DOMAIN exitq /\ k \in Nat /\ k + 1 # 1
                                       /\ exitq'[k] = exitq[k + 1]
    BY <1>2, <2>1, TailExit
  <2>3. \A k \in DOMAIN exitq' : status'[exitq'[k].pid] = "reaped"
    BY <1>1, <1>3, <2>2
  <2>4. ASSUME NEW k \in DOMAIN exitq', NEW m \in DOMAIN exitq', exitq'[k].pid = exitq'[m].pid
        PROVE  k = m
    <3>1. k + 1 = m + 1 /\ k \in Nat /\ m \in Nat
      BY <1>4, <2>2, <2>4
    <3> QED  BY <3>1
  <2> QED  BY <1>1, <1>2, <2>1, <2>2, <2>3, <2>4 DEF ExitsInv, QueueInv, Exits
<1>9. ASSUME NEW p \in Pids, Reap(p)
      PROVE  ExitsInv'
  <2>1. status[p] = "zombie" /\ status'[p] = "reaped"
    BY <1>9 DEF Reap, ExitsInv
  <2>2. CASE exitq' = exitq /\ dropped' = dropped \cup {p}
    BY <1>1, <1>2, <1>5, <2>2 DEF ExitsInv, Exits
  <2>3. ASSUME NEW c \in ExitCodes, exitq' = Append(exitq, [pid |-> p, exit_code |-> c]),
               dropped' = dropped
        PROVE  ExitsInv'
    <3>1. /\ exitq' \in Seq([pid : Pids, exit_code : ExitCodes])
          /\ DOMAIN exitq' = 1..(Len(exitq) + 1) /\ DOMAIN exitq = 1..Len(exitq)
          /\ Len(exitq) \in Nat
          /\ exitq'[Len(exitq) + 1].pid = p
          /\ \A k \in DOMAIN exitq : exitq'[k] = exitq[k]
      BY <1>2, <2>3, AppendExit
    <3>2. \A k \in DOMAIN exitq' : k \in DOMAIN exitq \/ k = Len(exitq) + 1
      BY <3>1
    <3>3. QueueInv'
      BY <1>1, <1>3, <1>4, <2>1, <3>1, <3>2 DEF QueueInv
    <3> QED  BY <1>1, <1>2, <2>3, <3>1, <3>3 DEF ExitsInv, Exits
  <2> QED  BY <1>9, <2>2, <2>3 DEF Reap
<1> QED  BY <1>6, <1>7, <1>8, <1>9 DEF QueueMoves

LEMMA FifoFresh ==
  ASSUME ExitsInv, FifoInv, NEW p \in Pids, status[p] = "zombie"
  PROVE  Fifo!Fresh(p)
<1>1. p \notin dropped
  BY DEF FifoInv, Reaped
<1>2. p \notin Fifo!ElementsOf(taken)
  BY DEF FifoInv, Reaped, Fifo!ElementsOf
<1>3. p \notin Fifo!ElementsOf(PidsOf(exitq))
  <2>1. \A i \in DOMAIN exitq : exitq[i].pid # p
    BY DEF ExitsInv, QueueInv
  <2>2. DOMAIN PidsOf(exitq) = DOMAIN exitq
        /\ \A i \in DOMAIN exitq : PidsOf(exitq)[i] = exitq[i].pid
    BY DEF PidsOf
  <2> QED  BY <2>1, <2>2 DEF Fifo!ElementsOf
<1> QED  BY <1>1, <1>2, <1>3 DEF Fifo!Fresh

LEMMA ExitsInQueue == ASSUME ExitsInv
                      PROVE  exitq \in Seq(Exits) /\ Len(exitq) \in Nat
  BY DEF ExitsInv

LEMMA ReapFifo ==
  ASSUME ExitsInv, FifoInv, NEW p \in Pids, Reap(p), taken' = taken, ReapedStay
  PROVE  FifoInv' /\ Fifo!FifoNext
<1>1. status[p] = "zombie" /\ Reaped(p)'
  BY DEF ExitsInv, Reap, Reaped
<1>2. \A i \in DOMAIN taken : taken[i] \in Pids /\ Reaped(taken[i])
  BY DEF FifoInv
<1>3. taken' \in Seq(Pids) /\ \A i \in DOMAIN taken' : Reaped(taken[i])'
  BY <1>2 DEF FifoInv, ReapedStay
<1>4. \A q \in dropped : q \in Pids /\ Reaped(q)'
  BY DEF ExitsInv, FifoInv, ReapedStay
<1>5. CASE Len(exitq) < QueueLen
  <2>1. PICK c \in ExitCodes : exitq' = Append(exitq, [pid |-> p, exit_code |-> c])
    BY <1>5 DEF Reap
  <2> DEFINE x == [pid |-> p, exit_code |-> c]
  <2>2. x \in Exits /\ x.pid = p
    BY DEF Exits
  <2>3. exitq' = Append(exitq, x) /\ dropped' = dropped
    BY <1>5, <2>1 DEF Reap
  <2> HIDE DEF x
  <2>4. PidsOf(exitq)' = Append(PidsOf(exitq), p) /\ Len(PidsOf(exitq)) = Len(exitq)
    BY <2>2, <2>3, ExitsInQueue, PidsOfAppend DEF PidsOf
  <2>5. Len(exitq') <= QueueLen
    <3>1. Len(exitq') = Len(exitq) + 1
      BY <2>2, <2>3, ExitsInQueue
    <3> QED  BY <1>5, <3>1, ExitsInQueue, BoundsAssumption
  <2>6. FifoInv'
    BY <1>3, <1>4, <2>3, <2>5 DEF FifoInv, Reaped
  <2>7. Fifo!Put(p)
    BY <1>1, <1>5, <2>3, <2>4, FifoFresh DEF Fifo!Put
  <2> QED  BY <2>6, <2>7 DEF Fifo!FifoNext
<1>6. CASE ~(Len(exitq) < QueueLen)
  <2>1. exitq' = exitq /\ dropped' = dropped \cup {p}
    BY <1>6 DEF Reap
  <2>2. Len(exitq) = QueueLen
    BY <1>6, ExitsInQueue, BoundsAssumption DEF FifoInv
  <2>3. FifoInv'
    BY <1>1, <1>3, <1>4, <2>1 DEF FifoInv, Reaped
  <2>4. Len(PidsOf(exitq)) = Len(exitq)
    BY PidsOfLen, ExitsInQueue
  <2>5. PidsOf(exitq)' = PidsOf(exitq)
    BY <2>1 DEF PidsOf
  <2>6. Fifo!Discard(p)
    BY <1>1, <2>1, <2>2, <2>4, <2>5, FifoFresh DEF Fifo!Discard
  <2> QED  BY <2>3, <2>6 DEF Fifo!FifoNext
<1> QED  BY <1>5, <1>6

LEMMA PopFifo ==
  ASSUME ExitsInv, FifoInv, CompletionPop, taken' = Append(taken, Head(exitq).pid), ReapedStay
  PROVE  FifoInv' /\ Fifo!FifoNext
<1>1. exitq # << >> /\ exitq' = Tail(exitq) /\ dropped' = dropped
  BY DEF CompletionPop
<1> DEFINE q == Head(exitq).pid
<1>2. /\ PidsOf(exitq) # << >> /\ Head(PidsOf(exitq)) = q
      /\ PidsOf(exitq)' = Tail(PidsOf(exitq)) /\ Len(exitq') <= Len(exitq)
      /\ Head(exitq) \in Exits
  BY <1>1, ExitsInQueue, PidsOfTail DEF PidsOf
<1>3. q \in Pids /\ Reaped(q)
  <2>1. q \in Pids
    BY <1>2 DEF Exits
  <2>2. 1 \in DOMAIN exitq /\ Head(exitq) = exitq[1]
    BY <1>1, ExitsInQueue
  <2>3. \A i \in DOMAIN exitq : status[exitq[i].pid] = "reaped"
    BY DEF ExitsInv, QueueInv
  <2> QED  BY <2>1, <2>2, <2>3 DEF Reaped
<1>4. Len(exitq') <= QueueLen
  <2>1. Len(exitq') \in Nat
    BY <1>1, ExitsInQueue
  <2> QED  BY <1>2, <2>1, ExitsInQueue, BoundsAssumption DEF FifoInv
<1>5. taken' = Append(taken, q)
  OBVIOUS
<1> HIDE DEF q
<1>6. /\ taken' \in Seq(Pids) /\ \A i \in DOMAIN taken' : taken'[i] = q \/ \E k \in DOMAIN taken : taken'[i] = taken[k]
  BY <1>3, <1>5 DEF FifoInv
<1>7. \A k \in DOMAIN taken : taken[k] \in Pids /\ Reaped(taken[k])
  BY DEF FifoInv
<1>8. \A p \in Pids : status[p] = "reaped" => status'[p] = "reaped"
  BY DEF ReapedStay, Reaped
<1>9. \A i \in DOMAIN taken' : status'[taken'[i]] = "reaped"
  BY <1>3, <1>6, <1>7, <1>8 DEF Reaped
<1>10. \A p \in dropped' : status'[p] = "reaped"
  BY <1>1, <1>8 DEF FifoInv, Reaped, ExitsInv
<1>11. FifoInv'
  BY <1>4, <1>6, <1>9, <1>10 DEF FifoInv, Reaped
<1>12. Fifo!Take
  BY <1>1, <1>2, <1>5 DEF Fifo!Take
<1> QED  BY <1>11, <1>12 DEF Fifo!FifoNext

LEMMA StillFifo ==
  ASSUME ExitsInv, FifoInv, UNCHANGED queue \/ DaemonGone, taken' = taken, ReapedStay
  PROVE  FifoInv' /\ (UNCHANGED (Fifo!fifoVars) \/ DaemonGone)
<1>1. dropped' = dropped /\ (exitq' = exitq \/ exitq' = << >>)
  BY DEF queue, DaemonGone
<1>2. \A p \in Pids : status[p] = "reaped" => status'[p] = "reaped"
  BY DEF ReapedStay, Reaped
<1>3. \A k \in DOMAIN taken : taken[k] \in Pids /\ Reaped(taken[k])
  BY DEF FifoInv
<1>4. dropped \subseteq Pids
  BY DEF ExitsInv
<1>5. Len(exitq') <= QueueLen
  BY <1>1, BoundsAssumption DEF FifoInv
<1>6. FifoInv'
  BY <1>1, <1>2, <1>3, <1>4, <1>5 DEF FifoInv, Reaped
<1>7. UNCHANGED queue => UNCHANGED (Fifo!fifoVars)
  BY DEF queue, Fifo!fifoVars, PidsOf
<1> QED  BY <1>6, <1>7

LEMMA FifoStep ==
  ASSUME ExitsInv, FifoInv, [TakenNext]_<<vars, taken>>
  PROVE  ExitsInv' /\ FifoInv' /\ [Fifo!FifoNext \/ DaemonGone]_(Fifo!fifoVars)
<1>1. [Next]_vars
  BY DEF TakenNext
<1>2. ReapedStay /\ QueueMoves
  BY <1>1, QueueSteps DEF ExitsInv
<1>5. ExitsInv'
  BY <1>2, ExitsKept
<1>3. CASE CompletionPop
  <2>1. exitq # << >> /\ exitq' = Tail(exitq)
    BY <1>3 DEF CompletionPop
  <2>2. exitq' # exitq
    <3>1. Len(exitq') # Len(exitq)
      BY <2>1, ExitsInQueue
    <3> QED  BY <3>1
  <2>3. ~UNCHANGED <<vars, taken>>
    BY <2>2 DEF vars, queue
  <2>4. taken' = Append(taken, Head(exitq).pid)
    BY <1>3, <2>3 DEF TakenNext
  <2> QED  BY <1>2, <1>3, <1>5, <2>4, PopFifo
<1>4. CASE ~CompletionPop
  <2>1. taken' = taken
    BY <1>4 DEF TakenNext
  <2>2. CASE \E p \in Pids : Reap(p)
    BY <1>2, <1>5, <2>1, <2>2, ReapFifo
  <2>3. CASE UNCHANGED queue \/ DaemonGone
    BY <1>2, <1>5, <2>1, <2>3, StillFifo
  <2> QED  BY <1>2, <1>4, <2>2, <2>3 DEF QueueMoves
<1> QED  BY <1>3, <1>4

\* As long as the daemon lives its exit queue is the bounded FIFO that the ring
\* buffer of argo_daemon_exit_queue.c implements while one thread is in the handler
\* (ExitQueueProofs): sigchld_handler puts the exit of every child once, or discards
\* it when the queue is full, and workflow_completion_task takes exits in the order
\* they were put.
THEOREM QueueIsFifo ==
  TakenSpec => Fifo!FifoInit /\ [][Fifo!FifoNext \/ DaemonGone]_(Fifo!fifoVars)
<1> DEFINE J == ExitsInv /\ FifoInv
<1>1. Init /\ taken = << >> => J
  BY BoundsAssumption DEF Init, FifoInv, ExitsInv, QueueInv, Statuses
<1>2. J /\ [TakenNext]_<<vars, taken>> => J'
  BY FifoStep
<1>3. J /\ [TakenNext]_<<vars, taken>> => [Fifo!FifoNext \/ DaemonGone]_(Fifo!fifoVars)
  BY FifoStep
<1>4. Init /\ taken = << >> => Fifo!FifoInit
  <2> SUFFICES ASSUME Init, taken = << >> PROVE Fifo!FifoInit
    OBVIOUS
  <2>1. PidsOf(exitq) = << >>
    BY DEF Init, PidsOf
  <2> QED  BY <2>1 DEF Init, Fifo!FifoInit
<1> QED  BY <1>1, <1>2, <1>3, <1>4, PTL DEF TakenSpec
=============================================================================
