--------------------------- MODULE SharedServices ---------------------------
(***************************************************************************)
(* The shared services of the daemon (argo_shared_services.c): a table of  *)
(* periodic tasks and one background thread that runs the ones that are    *)
(* due.                                                                    *)
(*                                                                         *)
(* Everything a thread does while it holds svc->lock is one step, so the   *)
(* lock is not seen between steps.  The background thread drops the lock   *)
(* to call a task but goes on using its pointer into the table: it reads   *)
(* fn and context from the slot, calls, and afterwards stores last_run     *)
(* into the slot, whatever the slot holds by then.                         *)
(*                                                                         *)
(* One thread starts, stops and destroys the service, as the daemon does;  *)
(* any number of threads register, unregister, enable and disable tasks.   *)
(* A task stands for a function and the context it is registered with.     *)
(* Times are abstracted to whether the interval of a task has passed; the  *)
(* two statistics, total_task_runs and started_at, are left out.           *)
(***************************************************************************)
EXTENDS Naturals, FiniteSets

CONSTANTS
  Tasks,        \* functions that can be registered, each with its context
  MaxTasks,     \* SHARED_SERVICES_MAX_TASKS
  None          \* no task: a slot that was never written, no call in progress

ASSUME MaxTasksAssumption == MaxTasks \in Nat \ {0}
ASSUME NoneAssumption == None \notin Tasks

VARIABLES
  tasks,        \* svc->tasks
  task_count,   \* svc->task_count
  running,      \* svc->running
  should_stop,  \* svc->should_stop
  freed,        \* svc was destroyed
  pc,           \* where the background thread is
  slot,         \* its loop index i
  fn, context,  \* the task whose function, and the one whose context, it took
  control,      \* where the thread that starts and stops the service is
  destroying    \* its call of stop was made by destroy

vars == <<tasks, task_count, running, should_stop, freed, pc, slot, fn, context,
          control, destroying>>
tableVars == <<tasks, task_count>>
threadVars == <<pc, slot, fn, context>>
controlVars == <<running, should_stop, freed, control, destroying>>

Slots == 0..(MaxTasks - 1)
Entry == [task : Tasks \cup {None}, enabled : BOOLEAN, due : BOOLEAN]
NoEntry == [task |-> None, enabled |-> FALSE, due |-> FALSE]
NewEntry(t) == [task |-> t, enabled |-> TRUE, due |-> FALSE]

Init ==
  /\ tasks = [i \in Slots |-> NoEntry] /\ task_count = 0
  /\ running = FALSE /\ should_stop = FALSE /\ freed = FALSE
  /\ pc = "none" /\ slot = 0 /\ fn = None /\ context = None
  /\ control = "idle" /\ destroying = FALSE

\* The slots in use, and the ones that hold task t.
Used == 0..(task_count - 1)
Find(t) == {i \in Used : tasks[i].task = t}
-----------------------------------------------------------------------------
(* The task table. *)

RegisterTaskOverfull(t) ==
  /\ ~freed
  /\ task_count <= MaxTasks
  /\ Find(t) = {}
  /\ tasks' = [tasks EXCEPT ![task_count] = NewEntry(t)]
  /\ task_count' = task_count + 1
  /\ UNCHANGED <<threadVars, controlVars>>

RegisterTaskTwice(t) ==
  /\ ~freed
  /\ task_count < MaxTasks
  /\ tasks' = [tasks EXCEPT ![task_count] = NewEntry(t)]
  /\ task_count' = task_count + 1
  /\ UNCHANGED <<threadVars, controlVars>>

\* A full table and a task that is registered already are refused unchanged.
RegisterTask(t) ==
  /\ ~freed
  /\ task_count < MaxTasks
  /\ Find(t) = {}
  /\ tasks' = [tasks EXCEPT ![task_count] = NewEntry(t)]
  /\ task_count' = task_count + 1
  /\ UNCHANGED <<threadVars, controlVars>>

\* The slot behind the last task keeps what it held.
Shifted(found) ==
  [i \in Slots |-> IF i >= found /\ i < task_count - 1 THEN tasks[i + 1] ELSE tasks[i]]

UnregisterTask(t) ==
  /\ ~freed
  /\ \E found \in Find(t) : tasks' = Shifted(found)
  /\ task_count' = task_count - 1
  /\ UNCHANGED <<threadVars, controlVars>>

EnableTask(t, enable) ==
  /\ ~freed
  /\ \E found \in Find(t) : tasks' = [tasks EXCEPT ![found].enabled = enable]
  /\ UNCHANGED <<task_count, threadVars, controlVars>>

\* The interval of a task has passed.
BecomesDue(t) ==
  /\ ~freed
  /\ \E found \in Find(t) : tasks' = [tasks EXCEPT ![found].due = TRUE]
  /\ UNCHANGED <<task_count, threadVars, controlVars>>
-----------------------------------------------------------------------------
(* Starting, stopping and destroying. *)

Start ==
  /\ ~freed /\ control = "idle" /\ ~running
  /\ should_stop' = FALSE
  /\ running' = TRUE
  /\ pc' = "test"
  /\ UNCHANGED <<tableVars, slot, fn, context, freed, control, destroying>>

\* pthread_create fails.
StartFails ==
  /\ ~freed /\ control = "idle" /\ ~running
  /\ should_stop' = FALSE
  /\ UNCHANGED <<tableVars, threadVars, running, freed, control, destroying>>

StopUnsignalled(byDestroy) ==
  /\ ~freed /\ control = "idle" /\ running
  /\ control' = "joining"
  /\ destroying' = byDestroy
  /\ UNCHANGED <<tableVars, threadVars, running, should_stop, freed>>

\* The first critical section of stop, called by itself or by destroy.
Stop(byDestroy) ==
  /\ ~freed /\ control = "idle" /\ running
  /\ should_stop' = TRUE
  /\ control' = "joining"
  /\ destroying' = byDestroy
  /\ UNCHANGED <<tableVars, threadVars, running, freed>>

JoinWithoutWaiting ==
  /\ control = "joining"
  /\ control' = "joined"
  /\ UNCHANGED <<tableVars, threadVars, running, should_stop, freed, destroying>>

Join ==
  /\ control = "joining" /\ pc = "exited"
  /\ pc' = "none"
  /\ control' = "joined"
  /\ UNCHANGED <<tableVars, slot, fn, context, running, should_stop, freed, destroying>>

\* The second critical section of stop; destroy then frees the service.
Stopped ==
  /\ control = "joined"
  /\ running' = FALSE
  /\ control' = "idle"
  /\ freed' = destroying
  /\ destroying' = FALSE
  /\ UNCHANGED <<tableVars, threadVars, should_stop>>

Destroy ==
  /\ ~freed /\ control = "idle" /\ ~running
  /\ freed' = TRUE
  /\ UNCHANGED <<tableVars, threadVars, running, should_stop, control, destroying>>

\* A service is created anew, in memory that is cleared.
Create ==
  /\ freed
  /\ tasks' = [i \in Slots |-> NoEntry] /\ task_count' = 0
  /\ running' = FALSE /\ should_stop' = FALSE /\ freed' = FALSE
  /\ UNCHANGED <<threadVars, control, destroying>>
-----------------------------------------------------------------------------
(* The background thread. *)

Test ==
  /\ pc = "test"
  /\ pc' = IF should_stop THEN "exited" ELSE "scan"
  /\ slot' = 0
  /\ UNCHANGED <<tableVars, fn, context, controlVars>>

CandidatesUpToDisabled(from) ==
  {i \in Used : i >= from /\ tasks[i].due /\ \A j \in from..i : tasks[j].enabled}

\* The slots from "from" on whose task is enabled and due.
Candidates(from) == {i \in Used : i >= from /\ tasks[i].enabled /\ tasks[i].due}

\* The loop over the slots, up to the next task that is to run.
Scan ==
  /\ pc = "scan"
  /\ \/ /\ Candidates(slot) = {}
        /\ pc' = "test" /\ slot' = 0
     \/ \E i \in Candidates(slot) :
          /\ \A j \in Candidates(slot) : i <= j
          /\ pc' = "fn" /\ slot' = i
  /\ UNCHANGED <<tableVars, fn, context, controlVars>>

ReadFn ==
  /\ pc = "fn"
  /\ fn' = tasks[slot].task
  /\ pc' = "context"
  /\ UNCHANGED <<tableVars, slot, context, controlVars>>

ReadContext ==
  /\ pc = "context"
  /\ context' = tasks[slot].task
  /\ pc' = "call"
  /\ UNCHANGED <<tableVars, slot, fn, controlVars>>

\* The function has returned; last_run of the slot becomes the present.
CallReturns ==
  /\ pc = "call"
  /\ tasks' = [tasks EXCEPT ![slot].due = FALSE]
  /\ fn' = None /\ context' = None
  /\ slot' = slot + 1
  /\ pc' = "scan"
  /\ UNCHANGED <<task_count, controlVars>>

Thread == Test \/ Scan \/ ReadFn \/ ReadContext \/ CallReturns
Control == Start \/ StartFails \/ (\E d \in BOOLEAN : Stop(d)) \/ Join \/ Stopped \/ Destroy \/ Create

Next ==
  \/ Thread
  \/ Control
  \/ \E t \in Tasks : RegisterTask(t) \/ UnregisterTask(t) \/ BecomesDue(t)
  \/ \E t \in Tasks, enable \in BOOLEAN : EnableTask(t, enable)

\* The background thread and the thread in stop are scheduled, task functions
\* return, the mutex does not starve a thread, and time passes.
Fairness ==
  /\ WF_vars(Thread)
  /\ WF_vars(Join) /\ WF_vars(Stopped)
  /\ \A t \in Tasks : WF_vars(BecomesDue(t))

Spec == Init /\ [][Next]_vars /\ Fairness
-----------------------------------------------------------------------------
\* The table is never longer than its array, and the background thread never
\* leaves it: the loop index is a slot whenever the thread uses it as a pointer.
TypeOK ==
  /\ tasks \in [Slots -> Entry] /\ task_count \in 0..MaxTasks
  /\ running \in BOOLEAN /\ should_stop \in BOOLEAN /\ freed \in BOOLEAN
  /\ pc \in {"none", "test", "scan", "fn", "context", "call", "exited"}
  /\ slot \in 0..MaxTasks
  /\ pc \in {"fn", "context", "call"} => slot \in Slots
  /\ fn \in Tasks \cup {None} /\ context \in Tasks \cup {None}
  /\ control \in {"idle", "joining", "joined"} /\ destroying \in BOOLEAN

\* A task is in the table at most once, however registering and unregistering
\* interleave with the thread that runs the tasks.
NoDuplicates == \A i, j \in Used : tasks[i].task = tasks[j].task => i = j

\* When stop has returned, and when the service has been freed, no thread is left
\* that could call a task or touch the table.
StoppedIsQuiet == ~running \/ freed => pc = "none"

\* A call of stop returns, also while tasks are registered, run and become due.
StopReturns == control = "joining" ~> control = "idle"

Live(t) == running /\ ~should_stop /\ \E i \in Find(t) : tasks[i].enabled

\* A task that stays registered and enabled in a running service is called again
\* and again: a task that another one's removal moves to a lower slot may be
\* skipped, and its last_run advanced without a call, but never for ever.
EveryTaskRuns ==
  \A t \in Tasks : Live(t) ~> (pc = "call" /\ fn = t) \/ ~Live(t)
=============================================================================
