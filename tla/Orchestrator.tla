---------------------------- MODULE Orchestrator ----------------------------
(***************************************************************************)
(* The state-file relay of the workflow scripts: orchestrator.sh polls     *)
(* state.json and runs the phase handler that action_needed names when     *)
(* action_owner is "code"; start_workflow.sh resets the state and launches *)
(* an orchestrator; the user, or a CI, edits state.json when it is their   *)
(* turn, as the user guide tells them to.                                  *)
(*                                                                         *)
(* Every update of state.json is four steps: the shell opens and truncates *)
(* state.json.tmp, jq reads state.json, jq writes, and mv renames.  All    *)
(* writers use the same temporary name and no lock, so one can rename what *)
(* another has only truncated, and write into a file that has been renamed *)
(* to state.json meanwhile.  A state fits one buffer of jq: a read and a   *)
(* write are one step each.  A process is the list of commands it has      *)
(* still to do, updates and calls of git or of builders.  The fields that  *)
(* no decision depends on (error_recovery, timestamps, execution.status,   *)
(* merge_conflicts) are not kept, but updating them is a step like any     *)
(* other.  A handler's wait for a builder is part of spawn_builder: the    *)
(* command substitution that reads the pid ends when the builder closes    *)
(* its output.                                                             *)
(***************************************************************************)
EXTENDS Naturals, Sequences, FiniteSets, SequencesExt

CONSTANTS
  Builders,     \* ids of components that a design can have
  MaxStarts,    \* how often start_workflow.sh is run; orchestrators are 1..MaxStarts
  StartScript,  \* the run of start_workflow.sh in progress, as a writer of the state
  Editor,       \* the user or CI, as a writer of the state
  Empty,        \* a file of length 0, the output of a jq that has no input
  None          \* null, an absent file

Pids == 1..MaxStarts
Processes == Pids \cup {StartScript, Editor}
Phases == {"init", "design", "execution", "merge_build", "storage"}
\* The executable scripts in phases/ that the relay can name.
Handlers == {"design_program", "design_build", "execution", "merge_build"}
Owners == {"ci", "code", "user"}
Needs == Handlers \cup {"gather_requirements", "approve_design", "spawn_builders",
                        "merge_branches", "resolve_conflicts", "none"}

\* What the state keeps of the builders of a design.
BuilderRecord == [status : {"pending", "running", "completed"}, pid : Pids \cup {None}]
Tables == UNION {[components -> BuilderRecord] : components \in SUBSET Builders}

\* A whole state.json, and what a read of an empty one gives.
States == [phase : Phases, owner : Owners, needed : Needs, query : BOOLEAN,
           components : {None} \cup SUBSET Builders, execution : {None} \cup Tables]
Blank == [phase |-> "", owner |-> "", needed |-> "", query |-> FALSE,
          components |-> None, execution |-> None]

\* A design is finite, the writers are different processes, and null and the empty
\* file are nothing else.
ASSUME RelayAssumption ==
  /\ IsFiniteSet(Builders) /\ MaxStarts \in Nat
  /\ {StartScript, Editor} \cap Pids = {} /\ StartScript # Editor
  /\ None \notin Pids \cup Tables \cup States \cup Handlers \cup Phases \cup {"", "tmp", "state", "gone"}
  /\ Empty \notin States \cup {None}

VARIABLES
  state,        \* .argo-project/state.json
  tmp,          \* .argo-project/state.json.tmp
  pidfile,      \* .argo-project/orchestrator.pid
  todo,         \* commands each process has still to do
  torn,         \* files in which the end of a longer text is left behind a shorter one
  job,          \* the update each process is at
  starts,       \* runs of start_workflow.sh so far
  launcher,     \* where the present run is
  pc,           \* where each orchestrator is
  handler,      \* the handler it has chosen
  terminated,   \* orchestrators that got SIGTERM
  conflicts,    \* orchestrators whose merge_build met a conflict
  alive,        \* builder processes, as pairs of an orchestrator and a builder
  branches,     \* builders with a branch and a worktree
  unmerged      \* builders with commits that are not in the main branch

vars == <<state, tmp, torn, pidfile, todo, job, starts, launcher, pc, handler, terminated,
          conflicts, alive, branches, unmerged>>
fileVars == <<state, tmp, torn>>
gitVars == <<alive, branches, unmerged>>
startVars == <<starts, launcher>>

\* The state that init_state_file writes.
InitialState == [phase |-> "init", owner |-> "ci", needed |-> "gather_requirements",
                 query |-> FALSE, components |-> None, execution |-> None]

\* No update under way.  Otherwise: what is next, the file that the output is open on
\* (renamed or deleted meanwhile), the output, and whether jq succeeded.
Idle == [at |-> "open", file |-> None, text |-> None, ok |-> TRUE]

Init ==
  /\ state = InitialState /\ tmp = None /\ torn = {} /\ pidfile = None
  /\ todo = [p \in Processes |-> <<>>] /\ job = [p \in Processes |-> Idle]
  /\ starts = 0 /\ launcher = "idle"
  /\ pc = [o \in Pids |-> "unborn"] /\ handler = [o \in Pids |-> None]
  /\ terminated = {} /\ conflicts = {}
  /\ alive = {} /\ branches = {} /\ unmerged = {}
-----------------------------------------------------------------------------
(* Updates of state.json. *)

\* What to do when jq fails: update_state deletes the temporary file and goes on, the
\* save of a design gives up, "jq && mv" leaves out the mv, and the edits of the user
\* guide do the mv all the same.
Set(fields) == [op |-> "set", fields |-> fields, failure |-> "delete"]
Save(fields) == [op |-> "set", fields |-> fields, failure |-> "abort"]
Edit(fields) == [op |-> "set", fields |-> fields, failure |-> "ignore"]
SetBuilder(b, fields) ==
  [op |-> "builder", builder |-> b, fields |-> fields, failure |-> "skip"]
\* Updates of a field that is not kept.
Touch == Set(<<>>)
SaveConflicts == [op |-> "set", fields |-> <<>>, failure |-> "skip"]

\* What jq prints of state.json.  Of a torn file it prints the first text.
Now == IF state = Empty THEN Blank ELSE state

\* jq replaces the fields that an update names and keeps the others.
Overwrite(s, fields) ==
  [f \in DOMAIN s \cup DOMAIN fields |-> IF f \in DOMAIN fields THEN fields[f] ELSE s[f]]

Apply(s, c) ==
  CASE c.op = "set" -> Overwrite(s, c.fields)
    [] c.op = "builder" ->
         IF c.builder \in DOMAIN s.execution
         THEN [s EXCEPT !.execution = [s.execution EXCEPT ![c.builder] = Overwrite(s.execution[c.builder], c.fields)]]
         ELSE s

\* jq fails on builders that are null and at the end of a torn text.
Rejects(c) == c.op = "builder" /\ Now.execution = None

OpenTmp(p) ==
  /\ todo[p] # <<>> /\ Head(todo[p]).op \in {"set", "builder"} /\ job[p].at = "open"
  /\ tmp' = Empty
  /\ torn' = torn \ {"tmp"}
  /\ job' = [job EXCEPT ![p] = [at |-> "read", file |-> "tmp", text |-> None, ok |-> TRUE]]
  /\ UNCHANGED <<state, pidfile, todo, startVars, pc, handler, terminated, conflicts, gitVars>>

ReadState(p) ==
  /\ job[p].at = "read"
  /\ LET c == Head(todo[p])
         silent == state = Empty \/ Rejects(c)
     IN job' = [job EXCEPT ![p] =
                 [at |-> "write", file |-> job[p].file,
                  text |-> IF silent THEN Empty ELSE Apply(state, c),
                  ok |-> state = Empty \/ ~(Rejects(c) \/ "state" \in torn)]]
  /\ UNCHANGED <<fileVars, pidfile, todo, startVars, pc, handler, terminated, conflicts, gitVars>>

\* The text lands at the beginning of the file that is open, which is then closed.  A
\* longer text that is there already, from a process that opened the same file, keeps
\* its end.
WriteText(p) ==
  /\ job[p].at = "write"
  /\ LET file == job[p].file
         lands(name) == file = name /\ job[p].text # Empty
         old == IF file = "tmp" THEN tmp ELSE state
     IN /\ state' = IF lands("state") THEN job[p].text ELSE state
        /\ tmp' = IF lands("tmp") THEN job[p].text ELSE tmp
        /\ \E tears \in IF old = Empty THEN {FALSE} ELSE BOOLEAN :
             torn' = IF ~(lands("state") \/ lands("tmp")) THEN torn
                     ELSE IF tears THEN torn \cup {file}
                     ELSE torn \ {file}
  /\ job' = [job EXCEPT ![p] = [at |-> "rename", file |-> None, text |-> None, ok |-> job[p].ok]]
  /\ UNCHANGED <<pidfile, todo, startVars, pc, handler, terminated, conflicts, gitVars>>

\* The update of p is over; the others' open files are now called as names says.
EndUpdate(p, names) ==
  job' = [q \in Processes |->
            IF q = p THEN Idle
            ELSE IF job[q].file \in DOMAIN names THEN [job[q] EXCEPT !.file = names[job[q].file]]
            ELSE job[q]]

\* mv fails, unnoticed, when another process has renamed or deleted the file.
Rename(p) ==
  /\ job[p].at = "rename" /\ (job[p].ok \/ Head(todo[p]).failure = "ignore")
  /\ tmp' = None
  /\ IF tmp = None
     THEN EndUpdate(p, <<>>) /\ UNCHANGED <<state, torn>>
     ELSE /\ state' = tmp
          /\ torn' = IF "tmp" \in torn THEN {"state"} ELSE {}
          /\ EndUpdate(p, [state |-> "gone", tmp |-> "state"])
  /\ todo' = [todo EXCEPT ![p] = Tail(@)]
  /\ UNCHANGED <<pidfile, startVars, pc, handler, terminated, conflicts, gitVars>>

SkipRename(p) ==
  /\ job[p].at = "rename" /\ ~job[p].ok /\ Head(todo[p]).failure = "skip"
  /\ EndUpdate(p, <<>>)
  /\ todo' = [todo EXCEPT ![p] = Tail(@)]
  /\ UNCHANGED <<fileVars, pidfile, startVars, pc, handler, terminated, conflicts, gitVars>>

\* start_workflow.sh gives up when it cannot save the query.
DeleteTmp(p) ==
  /\ job[p].at = "rename" /\ ~job[p].ok /\ Head(todo[p]).failure \in {"delete", "abort"}
  /\ tmp' = None
  /\ torn' = torn \ {"tmp"}
  /\ EndUpdate(p, [tmp |-> "gone"])
  /\ IF Head(todo[p]).failure = "abort"
     THEN /\ todo' = [todo EXCEPT ![p] = <<>>]
          /\ launcher' = IF p = StartScript THEN "idle" ELSE launcher
     ELSE /\ todo' = [todo EXCEPT ![p] = Tail(@)]
          /\ UNCHANGED launcher
  /\ UNCHANGED <<state, pidfile, starts, pc, handler, terminated, conflicts, gitVars>>

UpdateState(p) ==
  OpenTmp(p) \/ ReadState(p) \/ WriteText(p) \/ Rename(p) \/ SkipRename(p) \/ DeleteTmp(p)
-----------------------------------------------------------------------------
(* start_workflow.sh *)

StartWorkflow ==
  /\ launcher = "idle" /\ starts < MaxStarts
  /\ starts' = starts + 1
  /\ launcher' = "update"
  /\ todo' = [todo EXCEPT ![StartScript] =
       <<Save([query |-> TRUE]), Set([phase |-> "init"]), Set([owner |-> "code"]),
         Set([needed |-> "design_program"])>>]
  /\ UNCHANGED <<fileVars, pidfile, job, pc, handler, terminated, conflicts, gitVars>>

Alive(o) == pc[o] \notin {"unborn", "refused", "dead"}

\* The orchestrator that the pid file names is signalled if it runs.
StopPrevious ==
  /\ launcher = "update" /\ todo[StartScript] = <<>>
  /\ terminated' = terminated \cup {o \in Pids : o = pidfile /\ Alive(o)}
  /\ launcher' = "launch"
  /\ UNCHANGED <<fileVars, pidfile, todo, job, starts, pc, handler, conflicts, gitVars>>

\* One second later: the pid file is removed and a new orchestrator launched.
Launch ==
  /\ launcher = "launch"
  /\ pidfile' = None
  /\ pc' = [pc EXCEPT ![starts] = "check"]
  /\ launcher' = "pid"
  /\ UNCHANGED <<fileVars, todo, job, starts, handler, terminated, conflicts, gitVars>>

SavePid ==
  /\ launcher = "pid"
  /\ pidfile' = starts
  /\ launcher' = "idle"
  /\ UNCHANGED <<fileVars, todo, job, starts, pc, handler, terminated, conflicts, gitVars>>

Start == StopPrevious \/ Launch \/ SavePid \/ UpdateState(StartScript)
-----------------------------------------------------------------------------
(* orchestrator.sh *)

\* The pid file is compared with the running processes; a stale one is removed.
CheckPidFile(o) ==
  /\ pc[o] = "check"
  /\ IF \E other \in Pids : other = pidfile /\ Alive(other)
     THEN pc' = [pc EXCEPT ![o] = "refused"] /\ UNCHANGED pidfile
     ELSE pc' = [pc EXCEPT ![o] = "writepid"] /\ pidfile' = None
  /\ UNCHANGED <<fileVars, todo, job, startVars, handler, terminated, conflicts, gitVars>>

WritePid(o) ==
  /\ pc[o] = "writepid"
  /\ pidfile' = o
  /\ pc' = [pc EXCEPT ![o] = "poll"]
  /\ UNCHANGED <<fileVars, todo, job, startVars, handler, terminated, conflicts, gitVars>>

PollUnstoppable(o) ==
  /\ pc[o] = "poll"
  /\ pc' = [pc EXCEPT ![o] = IF Now.phase = "storage" THEN "cleanup" ELSE "owner"]
  /\ handler' = [handler EXCEPT ![o] = Now.phase]
  /\ UNCHANGED <<fileVars, pidfile, todo, job, startVars, terminated, conflicts, gitVars>>

\* The loop condition, and the first of the three reads of the state: its phase is the
\* handler until action_needed names another.
Poll(o) ==
  /\ pc[o] = "poll"
  /\ pc' = [pc EXCEPT ![o] =
              IF o \in terminated \/ Now.phase = "storage" THEN "cleanup" ELSE "owner"]
  /\ handler' = [handler EXCEPT ![o] = Now.phase]
  /\ UNCHANGED <<fileVars, pidfile, todo, job, startVars, terminated, conflicts, gitVars>>

ReadOwner(o) ==
  /\ pc[o] = "owner"
  /\ IF Now.owner = "code"
     THEN pc' = [pc EXCEPT ![o] = "needed"] /\ UNCHANGED handler
     ELSE pc' = [pc EXCEPT ![o] = "poll"] /\ handler' = [handler EXCEPT ![o] = None]
  /\ UNCHANGED <<fileVars, pidfile, todo, job, startVars, terminated, conflicts, gitVars>>

\* action_needed decides unless it is empty.
ReadNeeded(o) ==
  /\ pc[o] = "needed"
  /\ LET name == IF Now.needed = "" THEN handler[o] ELSE Now.needed
     IN IF name \in Handlers
        THEN pc' = [pc EXCEPT ![o] = "begin"] /\ handler' = [handler EXCEPT ![o] = name]
        ELSE pc' = [pc EXCEPT ![o] = "poll"] /\ handler' = [handler EXCEPT ![o] = None]
  /\ UNCHANGED <<fileVars, pidfile, todo, job, startVars, terminated, conflicts, gitVars>>

\* The handler has returned.
HandlerReturns(o) ==
  /\ pc[o] = "handler" /\ todo[o] = <<>>
  /\ pc' = [pc EXCEPT ![o] = "poll"]
  /\ handler' = [handler EXCEPT ![o] = None]
  /\ conflicts' = conflicts \ {o}
  /\ UNCHANGED <<fileVars, pidfile, todo, job, startVars, terminated, gitVars>>

Cleanup(o) ==
  /\ pc[o] = "cleanup"
  /\ pidfile' = None
  /\ pc' = [pc EXCEPT ![o] = "dead"]
  /\ UNCHANGED <<fileVars, todo, job, startVars, handler, terminated, conflicts, gitVars>>
-----------------------------------------------------------------------------
(* The phase handlers. *)

\* Handler h of orchestrator o starts with the commands of program.
Begin(o, h, program) ==
  /\ pc[o] = "begin" /\ handler[o] = h
  /\ pc' = [pc EXCEPT ![o] = "handler"]
  /\ todo' = [todo EXCEPT ![o] = program]
  /\ UNCHANGED <<fileVars, pidfile, job, startVars, handler, terminated, conflicts>>

DesignProgramSwapped(o) ==
  /\ Now.query
  /\ Begin(o, "design_program",
       <<Save([components |-> {}]), Set([phase |-> "ci"]), Set([owner |-> "design"]),
         Set([needed |-> "approve_design"])>>)
  /\ UNCHANGED gitVars

DesignProgram(o) ==
  /\ Now.query
  /\ Begin(o, "design_program",
       <<Save([components |-> {}]), Set([phase |-> "design"]), Set([owner |-> "ci"]),
         Set([needed |-> "approve_design"])>>)
  /\ UNCHANGED gitVars

\* The CI tool is missing or fails, or there is no query.
DesignProgramFails(o) == Begin(o, "design_program", <<Touch>>) /\ UNCHANGED gitVars

\* Each component gets a builder and, unless git refuses, a branch and a worktree.
DesignBuild(o) ==
  IF Now.components = None
  THEN Begin(o, "design_build", <<Touch>>) /\ UNCHANGED gitVars
  ELSE /\ Begin(o, "design_build",
            <<Save([execution |-> [b \in Now.components |-> [status |-> "pending", pid |-> None]]]),
              Set([phase |-> "execution"]), Set([needed |-> "spawn_builders"])>>)
       /\ \E created \in SUBSET Now.components : branches' = branches \cup created
       /\ UNCHANGED <<alive, unmerged>>

Spawn(b) == [op |-> "spawn", builder |-> b]
\* A pass of the loop that waits for the builders: the index it is at, the number of
\* builders, and all_complete.
Monitor(i, count, complete) == [op |-> "monitor", index |-> i, count |-> count, complete |-> complete]
Merge(b) == [op |-> "merge", builder |-> b]
Conclude == [op |-> "conclude"]

\* The loops over the builders: two commands, or one, for each of them.
SpawnAll(builders) ==
  LET seq == SetToSeq(builders)
  IN [i \in 1..(2 * Cardinality(builders)) |->
        IF i % 2 = 1 THEN SetBuilder(seq[(i + 1) \div 2], [status |-> "running"])
        ELSE Spawn(seq[i \div 2])]

MergeAll(builders) ==
  LET seq == SetToSeq(builders) IN [i \in 1..Cardinality(builders) |-> Merge(seq[i])]

Execution(o) ==
  /\ Begin(o, "execution",
       IF Now.execution = None THEN <<>>
       ELSE IF Now.execution = <<>> THEN <<Set([phase |-> "merge_build"])>>
       ELSE SpawnAll(DOMAIN Now.execution)
            \o <<Monitor(1, Cardinality(DOMAIN Now.execution), TRUE),
                 Set([phase |-> "merge_build"]), Touch, Set([needed |-> "merge_branches"])>>)
  /\ UNCHANGED gitVars

\* Only builders that are completed are merged.
MergeBuild(o) ==
  /\ Begin(o, "merge_build",
       IF Now.execution = None THEN <<>>
       ELSE IF Now.execution = <<>>
       THEN <<Set([phase |-> "storage"]), Set([owner |-> "user"])>>
       ELSE MergeAll({b \in DOMAIN Now.execution : Now.execution[b].status = "completed"})
            \o <<Conclude>>)
  /\ UNCHANGED gitVars

\* The project is not a git repository, or main and master cannot be checked out.
MergeBuildFails(o) == Begin(o, "merge_build", <<>>) /\ UNCHANGED gitVars
-----------------------------------------------------------------------------
(* The commands of the handlers that are not updates of the state. *)

Executes(o, op) == todo[o] # <<>> /\ Head(todo[o]).op = op

\* The first command of o is replaced by the commands of program.
Replace(o, program) ==
  /\ todo' = [todo EXCEPT ![o] = program \o Tail(@)]
  /\ UNCHANGED <<fileVars, pidfile, job, startVars, pc, handler, terminated>>

\* Without a worktree the builder's shell ends at once; without the CI tool
\* there is no process and no pid.
SpawnBuilder(o) ==
  /\ Executes(o, "spawn")
  /\ LET b == Head(todo[o]).builder IN
     \/ /\ Replace(o, <<[op |-> "await", builder |-> b], SetBuilder(b, [pid |-> o])>>)
        /\ alive' = IF b \in branches THEN alive \cup {<<o, b>>} ELSE alive
     \/ /\ Replace(o, <<>>)
        /\ UNCHANGED alive
  /\ UNCHANGED <<conflicts, branches, unmerged>>

\* $(spawn_builder) returns when the builder has closed its output.
SpawnReturns(o) ==
  /\ Executes(o, "await") /\ <<o, Head(todo[o]).builder>> \notin alive
  /\ Replace(o, <<>>)
  /\ UNCHANGED <<conflicts, gitVars>>

\* The builder at an index of the present table.
BuilderAt(i) ==
  IF Now.execution # None /\ i <= Cardinality(DOMAIN Now.execution)
  THEN SetToSeq(DOMAIN Now.execution)[i] ELSE None
Running(b) == b # None /\ Now.execution[b].status = "running"
EndedWithPid(b) == Now.execution[b].pid # None /\ <<Now.execution[b].pid, b>> \notin alive
\* A builder without a pid counts as ended.
Ended(b) == <<Now.execution[b].pid, b>> \notin alive

\* One builder of a pass.  One that has ended is done for this loop, whatever becomes
\* of the update; one that runs is a reason for another pass.
MonitorBuilders(o) ==
  /\ Executes(o, "monitor")
  /\ LET c == Head(todo[o])
         b == BuilderAt(c.index)
     IN Replace(o,
          IF c.index > c.count
          THEN IF c.complete THEN <<>> ELSE <<Monitor(1, c.count, TRUE)>>
          ELSE (IF Running(b) /\ Ended(b) THEN <<SetBuilder(b, [status |-> "completed"])>> ELSE <<>>)
               \o <<Monitor(c.index + 1, c.count, c.complete /\ (Running(b) => Ended(b)))>>)
  /\ UNCHANGED <<conflicts, gitVars>>

MergeSkipped(o) ==
  /\ Executes(o, "merge") /\ Head(todo[o]).builder \notin branches
  /\ Replace(o, <<>>)
  /\ UNCHANGED <<conflicts, gitVars>>

MergeClean(o) ==
  /\ Executes(o, "merge") /\ Head(todo[o]).builder \in branches
  /\ Replace(o, <<>>)
  /\ branches' = branches \ {Head(todo[o]).builder}
  /\ unmerged' = unmerged \ {Head(todo[o]).builder}
  /\ UNCHANGED <<conflicts, alive>>

MergeConflictsCleaned(o) ==
  /\ Executes(o, "merge") /\ Head(todo[o]).builder \in branches \cap unmerged
  /\ Replace(o, <<>>)
  /\ conflicts' = conflicts \cup {o}
  /\ branches' = branches \ {Head(todo[o]).builder}
  /\ UNCHANGED <<alive, unmerged>>

\* The merge is aborted; branch and worktree stay.
MergeConflicts(o) ==
  /\ Executes(o, "merge") /\ Head(todo[o]).builder \in branches \cap unmerged
  /\ Replace(o, <<>>)
  /\ conflicts' = conflicts \cup {o}
  /\ UNCHANGED gitVars

ConcludeRegardless(o) ==
  /\ Executes(o, "conclude")
  /\ Replace(o, <<Set([phase |-> "storage"]), Set([owner |-> "user"]), Set([needed |-> "none"])>>)
  /\ UNCHANGED <<conflicts, gitVars>>

ConcludeMerge(o) ==
  /\ Executes(o, "conclude")
  /\ Replace(o, IF o \in conflicts
                THEN <<Set([needed |-> "resolve_conflicts"]), Set([owner |-> "ci"]), SaveConflicts>>
                ELSE <<Set([phase |-> "storage"]), Set([owner |-> "user"]), Set([needed |-> "none"])>>)
  /\ UNCHANGED <<conflicts, gitVars>>
-----------------------------------------------------------------------------
(* Builders, the user and signals. *)

\* A builder's CI session ends, with or without commits; its exit code is not used.
BuilderEnds(o, b) ==
  /\ <<o, b>> \in alive
  /\ alive' = alive \ {<<o, b>>}
  /\ \E commits \in {{}, {b}} : unmerged' = unmerged \cup commits
  /\ UNCHANGED <<fileVars, pidfile, todo, job, startVars, pc, handler, terminated, conflicts, branches>>

UserEdits(fields) ==
  /\ todo[Editor] = <<>>
  /\ todo' = [todo EXCEPT ![Editor] = <<Edit(fields)>>]
  /\ UNCHANGED <<fileVars, pidfile, job, startVars, pc, handler, terminated, conflicts, gitVars>>

\* The design is approved as it is or with components added.
ApproveDesign ==
  /\ Now.owner = "ci" /\ Now.phase = "design"
  /\ \E components \in SUBSET Builders :
       UserEdits([owner |-> "code", needed |-> "design_build", components |-> components])

\* What the user guide says to do after a conflict.
ResolveConflicts ==
  /\ Now.owner = "ci" /\ Now.phase = "merge_build"
  /\ UserEdits([owner |-> "code", needed |-> "merge_branches"])

HandlerOf(phase) == IF phase = "design" THEN "design_build" ELSE phase

\* The user sees that the relay does not move and names the handler of the phase.
NameHandler ==
  /\ Now.owner = "code" /\ Now.phase \in {"design", "execution", "merge_build"}
  /\ Now.needed # HandlerOf(Now.phase)
  /\ UserEdits([needed |-> HandlerOf(Now.phase)])

Terminate(o) ==
  /\ Alive(o) /\ o \notin terminated
  /\ terminated' = terminated \cup {o}
  /\ UNCHANGED <<fileVars, pidfile, todo, job, startVars, pc, handler, conflicts, gitVars>>

Loop(o) ==
  \/ CheckPidFile(o) \/ WritePid(o) \/ Poll(o) \/ ReadOwner(o) \/ ReadNeeded(o)
  \/ HandlerReturns(o) \/ Cleanup(o)
Handle(o) ==
  \/ DesignProgram(o) \/ DesignProgramFails(o) \/ DesignBuild(o) \/ Execution(o)
  \/ MergeBuild(o) \/ MergeBuildFails(o)
  \/ SpawnBuilder(o) \/ SpawnReturns(o) \/ MonitorBuilders(o)
  \/ MergeSkipped(o) \/ MergeClean(o) \/ MergeConflicts(o) \/ ConcludeMerge(o)
  \/ UpdateState(o)
User == ApproveDesign \/ ResolveConflicts \/ NameHandler \/ UpdateState(Editor)

\* Everything is over: the last orchestrator has ended and will not be replaced.
Over ==
  /\ starts = MaxStarts /\ launcher = "idle"
  /\ \A o \in Pids : ~Alive(o)
  /\ UNCHANGED vars

Next ==
  \/ StartWorkflow \/ Start \/ User \/ Over
  \/ \E o \in Pids : Loop(o) \/ Handle(o) \/ Terminate(o) \/ \E b \in Builders : BuilderEnds(o, b)

\* The rename of an edit that is still in the temporary file, with no other update
\* under way.
EditLands ==
  /\ tmp \notin {Empty, None} /\ todo[Editor] # <<>>
  /\ tmp = Apply(tmp, Head(todo[Editor]))
  /\ \A p \in Processes \ {Editor} : job[p].at = "open"
  /\ Rename(Editor)

\* Scripts run on and builders end.  What is tried again and again succeeds in the
\* end: a query of the CI, merge_build's use of the repository, and a merge.
Fairness ==
  /\ WF_vars(Start)
  /\ \A o \in Pids :
       /\ WF_vars(Loop(o) \/ Handle(o))
       /\ SF_vars(DesignProgram(o)) /\ SF_vars(MergeBuild(o)) /\ SF_vars(MergeClean(o))
       /\ \A b \in Builders : WF_vars(BuilderEnds(o, b))

Spec == Init /\ [][Next]_vars /\ Fairness

\* The user acts when it is the user's turn, and an edit, which takes milliseconds of
\* the seconds between two polls, is not lost every time.
UserFairness ==
  /\ WF_vars(User)
  /\ []<><<Rename(Editor)>>_vars => []<><<EditLands>>_vars
-----------------------------------------------------------------------------
\* state.json and the temporary file hold a state or nothing: however the updates of
\* several processes truncate, read, write and rename, the first text of a file has all
\* fields with their values and every builder a status.
TypeOK ==
  /\ state \in States \cup {Empty} /\ tmp \in States \cup {Empty, None} /\ torn \subseteq {"state", "tmp"}
  /\ pidfile \in Pids \cup {None}
  /\ \A p \in Processes :
       /\ job[p].at \in {"open", "read", "write", "rename"} /\ job[p].ok \in BOOLEAN
       /\ job[p].file \in {None, "tmp", "state", "gone"} /\ job[p].text \in States \cup {Empty, None}
  /\ starts \in 0..MaxStarts /\ launcher \in {"idle", "update", "launch", "pid"}
  /\ \A o \in Pids :
       /\ pc[o] \in {"unborn", "check", "refused", "writepid", "poll", "owner", "needed", "begin",
                    "handler", "cleanup", "dead"}
       /\ handler[o] \in Handlers \cup Phases \cup {"", None}
  /\ terminated \subseteq Pids /\ conflicts \subseteq Pids
  /\ alive \subseteq Pids \X Builders /\ branches \subseteq Builders /\ unmerged \subseteq Builders

\* The commits of a builder stay on its branch until they are merged: merge_build.sh
\* removes a branch and its worktree only after a merge, and after the builder has ended.
NoWorkDiscarded == unmerged \subseteq branches

\* An update has published a file that another one had truncated or was writing.
Spoiled == state = Empty \/ "state" \in torn

\* A workflow that has reached storage has merged what its builders committed, also
\* when an earlier attempt met conflicts and edits of the user raced the handlers and
\* were lost, as long as state.json was not spoiled on the way.
FinishedMeansMerged == []~Spoiled => [](Now.phase = "storage" => unmerged = {})

\* An orchestrator that polls brings the workflow to storage or is told to stop,
\* provided that the user answers and keeps naming the handler of the phase, and that
\* state.json is not spoiled.  Updates of either side that only get lost do not stop it.
RelayCompletes ==
  UserFairness /\ []~Spoiled =>
    \A o \in Pids : pc[o] = "poll" ~> Now.phase = "storage" \/ o \in terminated

\* SIGTERM ends an orchestrator, wherever it is and whatever it waits for: after the
\* handler that is running, and also when nobody answers.
ExitsOnSignal == \A o \in Pids : o \in terminated ~> ~Alive(o)
=============================================================================
