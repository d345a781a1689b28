----------------------------- MODULE ExitQueue -----------------------------
(***************************************************************************)
(* The path of a child's exit from the kernel to the completion task:      *)
(* sigchld_handler (argo_daemon.c) reaps zombies and pushes their exit     *)
(* codes into the ring buffer of argo_daemon_exit_queue.c; the completion  *)
(* task on the shared services thread pops them.                           *)
(*                                                                         *)
(* One step is one access to memory the two sides share.  SIGCHLD is       *)
(* blocked only in the thread that is handling it, so Handlers is the set  *)
(* of threads that may be inside the handler at the same time; the queue's *)
(* header assumes that there is one.                                       *)
(***************************************************************************)
EXTENDS Naturals, Sequences

CONSTANTS Size,         \* EXIT_QUEUE_SIZE
          Handlers,     \* threads that can execute sigchld_handler
          Children,     \* pids of the children the daemon forks
          Status,       \* what waitpid reports of each child
          NoChild       \* the pid in a slot that was never written

ASSUME SizeAssumption == Size \in Nat /\ Size > 1
ASSUME StatusAssumption == Status \in [Children -> [exited : BOOLEAN, code : 0..255]]
ASSUME NoChildAssumption == NoChild \notin Children

VARIABLES
  zombies,      \* exited children nobody has waited for
  alive,        \* children that still run
  pending,      \* SIGCHLD is pending for the process (signals coalesce)
  entries, write_idx, read_idx, dropped,         \* exit_code_queue_t
  hpc, hpid, hwrite, hdrop,   \* handler threads: program counter and locals
  cpc, cread, centry, cdrop,  \* completion task: program counter and locals
  published,    \* history: events made visible by a push, in order
  popped,       \* history: events returned by a pop, in order
  lost,         \* history: events for which push returned false
  reported      \* history: total of what exit_queue_get_dropped returned

queue == <<entries, write_idx, read_idx, dropped>>
handler == <<hpc, hpid, hwrite, hdrop>>
consumer == <<cpc, cread, centry, cdrop>>
kernel == <<zombies, alive, pending>>
history == <<published, popped, lost, reported>>
vars == <<kernel, queue, handler, consumer, history>>

Slots == 0..(Size - 1)
NextIdxNoWrap(i) == i + 1                      \* mutant: % EXIT_QUEUE_SIZE forgotten
NextIdx(i) == (i + 1) % Size

\* int exit_code = WIFEXITED(status) ? WEXITSTATUS(status) : 1;
ExitCode(c) == IF Status[c].exited THEN Status[c].code ELSE 1
Event(c) == [pid |-> c, exit_code |-> ExitCode(c)]
Events == {Event(c) : c \in Children}
Entry == [pid : Children \cup {NoChild}, exit_code : 0..255, valid : BOOLEAN]
EmptyEntry == [pid |-> NoChild, exit_code |-> 0, valid |-> FALSE]
EventOf(entry) == [pid |-> entry.pid, exit_code |-> entry.exit_code]

(* exit_queue_init, and every thread outside the code modelled here. *)
Init == /\ zombies = {} /\ alive = Children /\ pending = FALSE
        /\ entries = [i \in Slots |-> EmptyEntry]
        /\ write_idx = 0 /\ read_idx = 0 /\ dropped = 0
        /\ hpc = [h \in Handlers |-> "idle"]
        /\ hpid = [h \in Handlers |-> NoChild]
        /\ hwrite = [h \in Handlers |-> 0]
        /\ hdrop = [h \in Handlers |-> 0]
        /\ cpc = "sleep" /\ cread = 0 /\ centry = EmptyEntry /\ cdrop = 0
        /\ published = << >> /\ popped = << >> /\ lost = {} /\ reported = 0

-----------------------------------------------------------------------------
(* The kernel. *)

ChildExits(c) ==
  /\ c \in alive
  /\ alive' = alive \ {c}
  /\ zombies' = zombies \cup {c}
  /\ pending' = TRUE
  /\ UNCHANGED <<queue, handler, consumer, history>>

DeliverSigchld(h) ==
  /\ hpc[h] = "idle" /\ pending
  /\ pending' = FALSE
  /\ hpc' = [hpc EXCEPT ![h] = "wait"]
  /\ UNCHANGED <<zombies, alive, queue, hpid, hwrite, hdrop, consumer, history>>

-----------------------------------------------------------------------------
(* sigchld_handler and exit_queue_push, executed by thread h. *)

\* while ((pid = waitpid(-1, &status, WNOHANG)) > 0)
Reap(h) ==
  /\ hpc[h] = "wait"
  /\ \E c \in zombies :
       /\ zombies' = zombies \ {c}
       /\ hpid' = [hpid EXCEPT ![h] = c]
  /\ hpc' = [hpc EXCEPT ![h] = "load"]
  /\ UNCHANGED <<alive, pending, queue, hwrite, hdrop, consumer, history>>

HandlerReturns(h) ==
  /\ hpc[h] = "wait" /\ zombies = {}
  /\ hpc' = [hpc EXCEPT ![h] = "idle"]
  /\ UNCHANGED <<kernel, queue, hpid, hwrite, hdrop, consumer, history>>

\* int current_write = queue->write_idx;
PushLoad(h) ==
  /\ hpc[h] = "load"
  /\ hwrite' = [hwrite EXCEPT ![h] = write_idx]
  /\ hpc' = [hpc EXCEPT ![h] = "check"]
  /\ UNCHANGED <<kernel, queue, hpid, hdrop, consumer, history>>

IsFullIgnored(h) == FALSE                      \* mutant: no full check
IsFullEarly(h) ==                              \* mutant: one more slot kept free
  NextIdx(NextIdx(hwrite[h])) = read_idx
IsFull(h) == NextIdx(hwrite[h]) = read_idx

\* if (next_write == queue->read_idx): no room
PushFull(h) ==
  /\ hpc[h] = "check" /\ IsFull(h)
  /\ hpc' = [hpc EXCEPT ![h] = "dropLoad"]
  /\ lost' = lost \cup {Event(hpid[h])}
  /\ UNCHANGED <<kernel, queue, hpid, hwrite, hdrop, consumer,
                 published, popped, reported>>

PushRoom(h) ==
  /\ hpc[h] = "check" /\ ~IsFull(h)
  /\ hpc' = [hpc EXCEPT ![h] = "pid"]
  /\ UNCHANGED <<kernel, queue, hpid, hwrite, hdrop, consumer, history>>

\* queue->dropped++ on a volatile int: a load and a store
DropLoad(h) ==
  /\ hpc[h] = "dropLoad"
  /\ hdrop' = [hdrop EXCEPT ![h] = dropped]
  /\ hpc' = [hpc EXCEPT ![h] = "dropStore"]
  /\ UNCHANGED <<kernel, queue, hpid, hwrite, consumer, history>>

DropStore(h) ==
  /\ hpc[h] = "dropStore"
  /\ dropped' = hdrop[h] + 1
  /\ hpc' = [hpc EXCEPT ![h] = "wait"]
  /\ UNCHANGED <<kernel, entries, write_idx, read_idx, hpid, hwrite, hdrop,
                 consumer, history>>

PushPid(h) ==
  /\ hpc[h] = "pid"
  /\ entries' = [entries EXCEPT ![hwrite[h]].pid = hpid[h]]
  /\ hpc' = [hpc EXCEPT ![h] = "code"]
  /\ UNCHANGED <<kernel, write_idx, read_idx, dropped, hpid, hwrite, hdrop,
                 consumer, history>>

\* mutant: valid is not set
PushCodeSkipsValid(h) ==
  /\ hpc[h] = "code"
  /\ entries' = [entries EXCEPT ![hwrite[h]].exit_code = ExitCode(hpid[h])]
  /\ hpc' = [hpc EXCEPT ![h] = "publish"]
  /\ UNCHANGED <<kernel, write_idx, read_idx, dropped, hpid, hwrite, hdrop,
                 consumer, history>>

PushCode(h) ==
  /\ hpc[h] = "code"
  /\ entries' = [entries EXCEPT ![hwrite[h]].exit_code = ExitCode(hpid[h])]
  /\ hpc' = [hpc EXCEPT ![h] = "valid"]
  /\ UNCHANGED <<kernel, write_idx, read_idx, dropped, hpid, hwrite, hdrop,
                 consumer, history>>

PushValid(h) ==
  /\ hpc[h] = "valid"
  /\ entries' = [entries EXCEPT ![hwrite[h]].valid = TRUE]
  /\ hpc' = [hpc EXCEPT ![h] = "publish"]
  /\ UNCHANGED <<kernel, write_idx, read_idx, dropped, hpid, hwrite, hdrop,
                 consumer, history>>

\* mutant: the handler reaps one child per signal (if instead of while)
PushPublishAndReturn(h) ==
  /\ hpc[h] = "publish"
  /\ write_idx' = NextIdx(hwrite[h])
  /\ published' = Append(published, Event(hpid[h]))
  /\ hpc' = [hpc EXCEPT ![h] = "idle"]
  /\ UNCHANGED <<kernel, entries, read_idx, dropped, hpid, hwrite, hdrop,
                 consumer, popped, lost, reported>>

\* queue->write_idx = next_write;
PushPublish(h) ==
  /\ hpc[h] = "publish"
  /\ write_idx' = NextIdx(hwrite[h])
  /\ published' = Append(published, Event(hpid[h]))
  /\ hpc' = [hpc EXCEPT ![h] = "wait"]
  /\ UNCHANGED <<kernel, entries, read_idx, dropped, hpid, hwrite, hdrop,
                 consumer, popped, lost, reported>>

-----------------------------------------------------------------------------
(* The queue accesses of workflow_completion_task: exit_queue_get_dropped, *)
(* then exit_queue_pop until it returns false.                             *)

TaskDue ==
  /\ cpc = "sleep"
  /\ cpc' = "getDropped"
  /\ UNCHANGED <<kernel, queue, handler, cread, centry, cdrop, history>>

GetDroppedLoad ==
  /\ cpc = "getDropped"
  /\ cdrop' = dropped
  /\ cpc' = "resetDropped"
  /\ UNCHANGED <<kernel, queue, handler, cread, centry, history>>

GetDroppedReset ==
  /\ cpc = "resetDropped"
  /\ dropped' = 0
  /\ reported' = reported + cdrop
  /\ cpc' = "pop"
  /\ UNCHANGED <<kernel, entries, write_idx, read_idx, handler, cread, centry,
                 cdrop, published, popped, lost>>

PopEmpty ==
  /\ cpc = "pop" /\ read_idx = write_idx
  /\ cpc' = "sleep"
  /\ UNCHANGED <<kernel, queue, handler, cread, centry, cdrop, history>>

PopNonEmpty ==
  /\ cpc = "pop" /\ read_idx # write_idx
  /\ cread' = read_idx
  /\ cpc' = "test"
  /\ UNCHANGED <<kernel, queue, handler, centry, cdrop, history>>

\* if (!queue->entries[current_read].valid) return false;
PopTest ==
  /\ cpc = "test"
  /\ cpc' = IF entries[cread].valid THEN "copy" ELSE "sleep"
  /\ UNCHANGED <<kernel, queue, handler, cread, centry, cdrop, history>>

PopCopy ==
  /\ cpc = "copy"
  /\ centry' = entries[cread]
  /\ cpc' = "clear"
  /\ UNCHANGED <<kernel, queue, handler, cread, cdrop, history>>

PopClear ==
  /\ cpc = "clear"
  /\ entries' = [entries EXCEPT ![cread].valid = FALSE]
  /\ cpc' = "advance"
  /\ UNCHANGED <<kernel, write_idx, read_idx, dropped, handler, cread, centry,
                 cdrop, history>>

PopAdvance ==
  /\ cpc = "advance"
  /\ read_idx' = NextIdx(cread)
  /\ popped' = Append(popped, EventOf(centry))
  /\ cpc' = "pop"
  /\ UNCHANGED <<kernel, entries, write_idx, dropped, handler, cread, centry,
                 cdrop, published, lost, reported>>

-----------------------------------------------------------------------------
Handle(h) == \/ Reap(h) \/ HandlerReturns(h) \/ PushLoad(h)
             \/ PushFull(h) \/ PushRoom(h) \/ DropLoad(h) \/ DropStore(h)
             \/ PushPid(h) \/ PushCode(h) \/ PushValid(h) \/ PushPublish(h)

Consume == \/ TaskDue \/ GetDroppedLoad \/ GetDroppedReset
           \/ PopEmpty \/ PopNonEmpty \/ PopTest
           \/ PopCopy \/ PopClear \/ PopAdvance

Next == \/ \E c \in Children : ChildExits(c)
        \/ \E h \in Handlers : DeliverSigchld(h) \/ Handle(h)
        \/ Consume

(* The kernel delivers a pending signal and runs every thread; children    *)
(* exit when they like.                                                    *)
Fairness == /\ \A h \in Handlers : WF_vars(Handle(h))
            /\ WF_vars(\E h \in Handlers : DeliverSigchld(h))
            /\ WF_vars(Consume)

Spec == Init /\ [][Next]_vars
FairSpec == Spec /\ Fairness

-----------------------------------------------------------------------------
(* The slots from read_idx up to write_idx, as a sequence. *)
Count == IF write_idx >= read_idx THEN write_idx - read_idx
                                  ELSE write_idx + Size - read_idx
SlotAt(k) == IF read_idx + k < Size THEN read_idx + k ELSE read_idx + k - Size
Contents == [k \in 1..Count |-> EventOf(entries[SlotAt(k - 1)])]

\* Every variable keeps the type its C declaration and the index arithmetic of
\* exit_queue_push and exit_queue_pop give it.
TypeOK ==
  /\ zombies \subseteq Children /\ alive \subseteq Children
  /\ pending \in BOOLEAN
  /\ entries \in [Slots -> Entry]
  /\ write_idx \in Slots /\ read_idx \in Slots /\ dropped \in Nat
  /\ hpc \in [Handlers -> {"idle", "wait", "load", "check", "dropLoad",
                           "dropStore", "pid", "code", "valid", "publish"}]
  /\ hpid \in [Handlers -> Children \cup {NoChild}]
  /\ hwrite \in [Handlers -> Slots] /\ hdrop \in [Handlers -> Nat]
  /\ cpc \in {"sleep", "getDropped", "resetDropped", "pop", "test", "copy",
              "clear", "advance"}
  /\ cread \in Slots /\ cdrop \in Nat
  /\ centry \in Entry
  /\ published \in Seq(Events)
  /\ popped \in Seq([pid : Children \cup {NoChild}, exit_code : 0..255])
  /\ lost \subseteq Events /\ reported \in Nat

\* The entry between read_idx and write_idx that a pop is about to return is
\* complete: the "Should never happen" return of exit_queue_pop is unreachable.
PopFindsValidEntry == cpc = "test" => entries[cread].valid

\* No exit event disappears or is delivered twice or torn: the events popped,
\* followed by the events between read_idx and write_idx, are exactly the
\* events pushed, in the order of the pushes.
NothingLostInOrder == published = popped \o Contents

(* The invariant behind it, for one handler thread.  Writer: the slot the  *)
(* handler fills is the one at write_idx, outside the occupied slots.      *)
(* Reader: a pop under way concerns the oldest occupied slot.  Ring: the   *)
(* occupied slots hold the pushed events that have not been popped.        *)
Filling == {"pid", "code", "valid", "publish"}

WriterInv == \A h \in Handlers :
  /\ hpc[h] \in Filling \cup {"check"} => hwrite[h] = write_idx
  /\ hpc[h] \in Filling => NextIdx(write_idx) # read_idx
  /\ hpc[h] \in Filling \ {"pid"} => entries[write_idx].pid = hpid[h]
  /\ hpc[h] \in {"valid", "publish"} =>
       entries[write_idx].exit_code = ExitCode(hpid[h])
  /\ hpc[h] = "publish" => entries[write_idx].valid

ReaderInv ==
  /\ cpc \in {"test", "copy", "clear", "advance"} =>
       cread = read_idx /\ read_idx # write_idx
  /\ cpc \in {"clear", "advance"} => EventOf(centry) = EventOf(entries[read_idx])

RingInv ==
  /\ Len(published) = Len(popped) + Count
  /\ \A k \in 1..Len(popped) : popped[k] = published[k]
  /\ \A k \in 0..(Count - 1) :
       /\ EventOf(entries[SlotAt(k)]) = published[Len(popped) + k + 1]
       /\ entries[SlotAt(k)].valid \/ (k = 0 /\ cpc = "advance")

(* The queue implements the bounded FIFO, with one slot always unused. *)
Fifo == INSTANCE BoundedFifo WITH
          Capacity <- Size - 1, waiting <- Contents,
          taken <- popped, discarded <- lost

\* The ring buffer behaves as a FIFO of Size - 1 events that discards the
\* newest event when it is full, whatever memory access the handler and the
\* completion task are interrupted at.
ImplementsFifo == Fifo!FifoSpec

\* Every child that exits is waited for and its exit event reaches the
\* completion task or found the queue full, although several exits may raise
\* one SIGCHLD.  Nothing is claimed of the number that exit_queue_get_dropped
\* reports: its reset races the increment in the handler, and counts are lost.
EveryExitIsHandled ==
  \A c \in Children :
    c \in zombies ~> \/ Event(c) \in lost
                     \/ \E i \in DOMAIN popped : popped[i] = Event(c)
=============================================================================
