-------------------------- MODULE FoundationProofs --------------------------
(***************************************************************************)
(* Proofs about the two parts everything else of a process stands on: the  *)
(* shared services, for every set of tasks and every size of the table,    *)
(* and the environment with the configuration, for all files, names and    *)
(* values.                                                                 *)
(*                                                                         *)
(* ControlInv is what makes StoppedIsQuiet inductive: a thread exists only *)
(* in a running service, and a service that is being stopped is running    *)
(* until its thread has been joined.                                       *)
(*                                                                         *)
(* Of the environment, Matches relates the array to the assignments read   *)
(* so far and is kept by every assignment; that expansion in place is      *)
(* right rests on one fixed set of final values, which every variable      *)
(* expands to at each moment of the walk along the array.                  *)
(***************************************************************************)
EXTENDS SharedServices, Environment, FiniteSetTheorems, SequenceTheorems, TLAPS

ControlInv ==
  /\ pc # "none" => running
  /\ freed => ~running
  /\ control # "idle" => running
  /\ control = "joined" => pc = "none"

Inv == TypeOK /\ NoDuplicates /\ ControlInv

\* The slots in use are slots of the array.
LEMMA UsedAreSlots == TypeOK => Used \subseteq Slots
  BY MaxTasksAssumption DEF TypeOK, Used, Slots

\* An entry of the table whose fields are assigned keeps its type.
LEMMA EntryUpdates ==
  ASSUME NEW e \in Entry, NEW b \in BOOLEAN
  PROVE  /\ [e EXCEPT !.due = b] \in Entry /\ [e EXCEPT !.due = b].task = e.task
         /\ [e EXCEPT !.enabled = b] \in Entry /\ [e EXCEPT !.enabled = b].task = e.task
  BY DEF Entry

\* A change of the fields enabled and due keeps the table sound.
LEMMA SameTasks ==
  ASSUME Inv, tasks' \in [Slots -> Entry],
         \A i \in Slots : tasks'[i].task = tasks[i].task, task_count' = task_count
  PROVE  NoDuplicates'
  <1> USE DEF Inv
  <1>1. Used' = Used BY DEF Used
  <1>2. Used \subseteq Slots BY UsedAreSlots
  <1> QED BY <1>1, <1>2 DEF NoDuplicates

\* register_task refuses a full table and a task that is there already.
LEMMA RegisterPreserves ==
  ASSUME Inv, NEW t \in Tasks, RegisterTask(t)
  PROVE  Inv'
  <1> USE DEF Inv
  <1>1. task_count \in Slots /\ task_count' \in 0..MaxTasks
    BY MaxTasksAssumption DEF RegisterTask, TypeOK, Slots
  <1>2. NewEntry(t) \in Entry /\ NewEntry(t).task = t BY DEF NewEntry, Entry
  <1>3. /\ tasks' \in [Slots -> Entry] /\ tasks'[task_count].task = t
        /\ \A i \in Slots : i # task_count => tasks'[i] = tasks[i]
    BY <1>1, <1>2 DEF RegisterTask, TypeOK
  <1>4. TypeOK'
    BY <1>1, <1>3 DEF RegisterTask, TypeOK, threadVars, controlVars
  <1>5. Used' = Used \cup {task_count} /\ Used \subseteq Slots /\ task_count \notin Used
    BY <1>1, UsedAreSlots DEF RegisterTask, TypeOK, Used, Slots
  <1>6. \A i \in Used : tasks[i].task # t BY DEF RegisterTask, Find
  <1>7. NoDuplicates' BY <1>1, <1>3, <1>5, <1>6 DEF NoDuplicates
  <1>8. ControlInv' BY DEF RegisterTask, ControlInv, threadVars, controlVars
  <1> QED BY <1>4, <1>7, <1>8

\* unregister_task moves the tasks behind the removed one down by one slot.
LEMMA UnregisterPreserves ==
  ASSUME Inv, NEW t \in Tasks, UnregisterTask(t)
  PROVE  Inv'
  <1> USE DEF Inv
  <1>1. PICK found \in Find(t) : tasks' = Shifted(found) BY DEF UnregisterTask
  <1>2. found \in Used /\ Used \subseteq Slots BY <1>1, UsedAreSlots DEF Find
  <1>3. task_count \in 1..MaxTasks /\ task_count' = task_count - 1
    BY <1>2, MaxTasksAssumption DEF TypeOK, Used, UnregisterTask
  <1>4. \A i \in Slots : i < task_count - 1 => i \in Used /\ i + 1 \in Used
    BY <1>3, MaxTasksAssumption DEF Used, Slots
  <1>5. tasks' \in [Slots -> Entry] BY <1>1, <1>2, <1>4 DEF Shifted, TypeOK
  <1>6. TypeOK'
    BY <1>3, <1>5, MaxTasksAssumption DEF TypeOK, UnregisterTask, threadVars, controlVars
  <1> DEFINE From(i) == IF i >= found THEN i + 1 ELSE i
  <1>7. \A i \in Used' : /\ i \in Slots /\ i \in Nat /\ From(i) \in Used
                         /\ tasks'[i] = tasks[From(i)]
    BY <1>1, <1>2, <1>3, <1>4, MaxTasksAssumption DEF Used, Slots, Shifted
  <1>8. \A i, j \in Used' : From(i) = From(j) => i = j
    BY <1>2, <1>7, MaxTasksAssumption DEF Used, Slots
  <1>9. NoDuplicates'
    <2> SUFFICES ASSUME NEW i \in Used', NEW j \in Used', tasks'[i].task = tasks'[j].task
                 PROVE  i = j
      BY DEF NoDuplicates
    <2>1. From(i) \in Used /\ From(j) \in Used /\ tasks[From(i)].task = tasks[From(j)].task
      BY <1>7
    <2>2. From(i) = From(j) BY <2>1 DEF NoDuplicates
    <2> QED BY <2>2, <1>8
  <1>10. ControlInv' BY DEF UnregisterTask, ControlInv, threadVars, controlVars
  <1> QED BY <1>6, <1>9, <1>10

\* What enable_task and the clock change.
LEMMA FieldPreserves ==
  ASSUME Inv, NEW t \in Tasks, NEW b \in BOOLEAN, EnableTask(t, b) \/ BecomesDue(t)
  PROVE  Inv'
  <1> USE DEF Inv
  <1>1. UNCHANGED <<task_count, threadVars, controlVars>> BY DEF EnableTask, BecomesDue
  <1>2. PICK found \in Find(t) : \/ tasks' = [tasks EXCEPT ![found].enabled = b]
                                 \/ tasks' = [tasks EXCEPT ![found].due = TRUE]
    BY DEF EnableTask, BecomesDue
  <1>3. found \in Slots /\ tasks[found] \in Entry BY UsedAreSlots DEF Find, TypeOK
  <1>4. PICK e \in Entry : e.task = tasks[found].task /\ tasks' = [tasks EXCEPT ![found] = e]
    <2>1. CASE tasks' = [tasks EXCEPT ![found].enabled = b]
      BY <2>1, <1>3, EntryUpdates
    <2>2. CASE tasks' = [tasks EXCEPT ![found].due = TRUE]
      BY <2>2, <1>3, EntryUpdates
    <2> QED BY <1>2, <2>1, <2>2
  <1>5. tasks' \in [Slots -> Entry] /\ \A i \in Slots : tasks'[i].task = tasks[i].task
    BY <1>3, <1>4 DEF TypeOK
  <1>6. TypeOK' BY <1>1, <1>5 DEF TypeOK, threadVars, controlVars
  <1>7. NoDuplicates' BY <1>1, <1>5, SameTasks
  <1>8. ControlInv' BY <1>1 DEF ControlInv, threadVars, controlVars
  <1> QED BY <1>6, <1>7, <1>8

\* The steps that start, stop, free and create the service.
LEMMA ControlPreserves ==
  ASSUME Inv, Control
  PROVE  Inv'
  <1> USE DEF Inv
  <1>1. CASE Create
    <2>1. NoEntry \in Entry BY DEF NoEntry, Entry
    <2>2. TypeOK'
      <3>1. tasks' \in [Slots -> Entry] BY <1>1, <2>1 DEF Create
      <3>2. task_count' \in 0..MaxTasks BY <1>1, MaxTasksAssumption DEF Create
      <3> QED BY <1>1, <3>1, <3>2 DEF Create, TypeOK, threadVars
    <2>3. Used' = {} BY <1>1 DEF Create, Used
    <2>4. ControlInv' BY <1>1 DEF Create, ControlInv, threadVars
    <2> QED BY <2>2, <2>3, <2>4 DEF NoDuplicates
  <1>2. CASE ~Create
    <2>1. UNCHANGED tableVars
      BY <1>2 DEF Control, Start, StartFails, Stop, Join, Stopped, Destroy
    <2>2. TypeOK'
      BY <1>2 DEF Control, Start, StartFails, Stop, Join, Stopped, Destroy, TypeOK,
                  tableVars, threadVars
    <2>3. NoDuplicates' BY <2>1 DEF tableVars, NoDuplicates, Used
    <2>4. ControlInv'
      BY <1>2 DEF Control, Start, StartFails, Stop, Join, Stopped, Destroy, ControlInv,
                  tableVars, threadVars
    <2> QED BY <2>2, <2>3, <2>4
  <1> QED BY <1>1, <1>2

\* The steps of the background thread.
LEMMA ThreadPreserves ==
  ASSUME Inv, Thread
  PROVE  Inv'
  <1> USE DEF Inv
  <1>1. CASE Test \/ Scan \/ ReadFn \/ ReadContext
    <2>1. UNCHANGED tableVars BY <1>1 DEF Test, Scan, ReadFn, ReadContext
    <2>2. NoDuplicates' BY <2>1 DEF tableVars, NoDuplicates, Used
    <2>3. ControlInv'
      BY <1>1 DEF Test, Scan, ReadFn, ReadContext, ControlInv, controlVars
    <2>4. CASE Test
      BY <2>2, <2>3, <2>4, MaxTasksAssumption DEF Test, TypeOK, tableVars, controlVars
    <2>5. CASE Scan
      <3>1. \A i \in Candidates(slot) : i \in Slots BY UsedAreSlots DEF Candidates
      <3>2. slot' \in 0..MaxTasks /\ (pc' \in {"fn", "context", "call"} => slot' \in Slots)
        BY <2>5, <3>1, MaxTasksAssumption DEF Scan, Slots
      <3>3. TypeOK' BY <2>5, <3>2 DEF Scan, TypeOK, tableVars, controlVars
      <3> QED BY <2>2, <2>3, <3>3
    <2>6. CASE ReadFn \/ ReadContext
      <3>1. slot \in Slots BY <2>6 DEF ReadFn, ReadContext, TypeOK
      <3>2. tasks[slot].task \in Tasks \cup {None} BY <3>1 DEF TypeOK, Entry
      <3>3. TypeOK'
        BY <2>6, <3>1, <3>2 DEF ReadFn, ReadContext, TypeOK, tableVars, controlVars
      <3> QED BY <2>2, <2>3, <3>3
    <2> QED BY <1>1, <2>4, <2>5, <2>6
  <1>2. CASE CallReturns
    <2>1. slot \in Slots /\ tasks[slot] \in Entry BY <1>2 DEF CallReturns, TypeOK
    <2>2. tasks' \in [Slots -> Entry] /\ \A i \in Slots : tasks'[i].task = tasks[i].task
      BY <1>2, <2>1, EntryUpdates DEF CallReturns, TypeOK
    <2>3. slot' \in 0..MaxTasks BY <1>2, <2>1, MaxTasksAssumption DEF CallReturns, Slots
    <2>4. TypeOK' BY <1>2, <2>2, <2>3 DEF CallReturns, TypeOK, controlVars
    <2>5. NoDuplicates' BY <1>2, <2>2, SameTasks DEF CallReturns
    <2>6. ControlInv' BY <1>2 DEF CallReturns, ControlInv, controlVars
    <2> QED BY <2>4, <2>5, <2>6
  <1> QED BY <1>1, <1>2 DEF Thread

\* Inv is an invariant of the service.
LEMMA InvHolds == Spec => []Inv
  <1>1. Init => Inv
    <2> SUFFICES ASSUME Init PROVE Inv OBVIOUS
    <2>1. NoEntry \in Entry BY DEF NoEntry, Entry
    <2>2. TypeOK
      <3>1. tasks \in [Slots -> Entry] BY <2>1 DEF Init
      <3>2. task_count \in 0..MaxTasks /\ slot \in 0..MaxTasks BY MaxTasksAssumption DEF Init
      <3> QED BY <3>1, <3>2 DEF Init, TypeOK
    <2>3. Used = {} BY DEF Init, Used
    <2> QED BY <2>2, <2>3 DEF Inv, NoDuplicates, ControlInv, Init
  <1>2. Inv /\ [Next]_vars => Inv'
    <2> SUFFICES ASSUME Inv, [Next]_vars PROVE Inv' OBVIOUS
    <2>1. CASE Thread BY <2>1, ThreadPreserves
    <2>2. CASE Control BY <2>2, ControlPreserves
    <2>3. ASSUME NEW t \in Tasks, RegisterTask(t) PROVE Inv' BY <2>3, RegisterPreserves
    <2>4. ASSUME NEW t \in Tasks, UnregisterTask(t) PROVE Inv' BY <2>4, UnregisterPreserves
    <2>5. ASSUME NEW t \in Tasks, BecomesDue(t) PROVE Inv' BY <2>5, FieldPreserves
    <2>6. ASSUME NEW t \in Tasks, NEW b \in BOOLEAN, EnableTask(t, b) PROVE Inv'
      BY <2>6, FieldPreserves
    <2>7. CASE UNCHANGED vars
      BY <2>7 DEF Inv, TypeOK, NoDuplicates, ControlInv, Used, vars
    <2> QED BY <2>1, <2>2, <2>3, <2>4, <2>5, <2>6, <2>7 DEF Next
  <1> QED BY <1>1, <1>2, PTL DEF Spec

\* The table never outgrows its array and the background thread's pointer never
\* leaves it, for every size of the table.
THEOREM TypeCorrect == Spec => []TypeOK
  <1>1. Inv => TypeOK BY DEF Inv
  <1> QED BY <1>1, InvHolds, PTL

\* No task is ever in the table twice.
THEOREM TableHasNoDuplicates == Spec => []NoDuplicates
  <1>1. Inv => NoDuplicates BY DEF Inv
  <1> QED BY <1>1, InvHolds, PTL

\* After stop, and after destroy, the background thread is gone.
THEOREM StopLeavesNoThread == Spec => []StoppedIsQuiet
  <1>1. Inv => StoppedIsQuiet BY DEF Inv, ControlInv, StoppedIsQuiet
  <1> QED BY <1>1, InvHolds, PTL
-----------------------------------------------------------------------------
(* Induction and recursion over the naturals, as facts about sets. *)

\* A set of naturals that is not empty has a least element.
LEMMA LeastNatural ==
  ASSUME NEW S \in SUBSET Nat, S # {}
  PROVE  \E x \in S : \A y \in S : x <= y
  <1>1. PICK x \in S : \A y \in S : ~(<<y, x>> \in OpToRel(<, Nat))
    BY NatLessThanWellFounded, WFMin
  <1>2. \A y \in S : ~(y < x) BY <1>1 DEF OpToRel
  <1> QED BY <1>2

\* Induction up to a bound: a set with 0 and with the successor of each of its members has
\* all naturals up to the bound.
LEMMA UpTo ==
  ASSUME NEW N \in Nat, NEW S, 0 \in S, \A k \in 0..(N - 1) : k \in S => k + 1 \in S
  PROVE  \A k \in 0..N : k \in S
  <1> DEFINE Bad == {k \in 0..N : k \notin S}
  <1> SUFFICES ASSUME Bad # {} PROVE FALSE OBVIOUS
  <1>1. Bad \in SUBSET Nat OBVIOUS
  <1>2. PICK x \in Bad : \A y \in Bad : x <= y BY <1>1, LeastNatural
  <1>3. x \in 1..N BY <1>2
  <1>4. x - 1 \in 0..(N - 1) /\ ~(x <= x - 1) BY <1>3
  <1>5. x - 1 \in S BY <1>2, <1>4
  <1>6. (x - 1) + 1 \in S BY <1>4, <1>5
  <1> QED BY <1>2, <1>3, <1>6

\* f begins with base and takes its k-th value from the one before by F[k].
Iterates(f, N, T, base, F) ==
  f \in [0..N -> T] /\ f[0] = base /\ \A k \in 1..N : f[k] = F[k][f[k - 1]]

\* The values of a recursion from 0 up to a bound exist.
LEMMA RecursionExists ==
  ASSUME NEW N \in Nat, NEW T, NEW base \in T, NEW F \in [1..N -> [T -> T]]
  PROVE  \E f : Iterates(f, N, T, base, F)
  <1> DEFINE Upto(g, n) == /\ g \in [0..n -> T] /\ g[0] = base
                           /\ \A k \in 1..n : g[k] = F[k][g[k - 1]]
             Good == {n \in 0..N : \E g : Upto(g, n)}
  <1>1. 0 \in Good
    <2>1. Upto([i \in 0..0 |-> base], 0) OBVIOUS
    <2> HIDE DEF Upto
    <2> QED BY <2>1
  <1>2. ASSUME NEW n \in 0..(N - 1), n \in Good
        PROVE  n + 1 \in Good
    <2>1. PICK g : Upto(g, n) BY <1>2
    <2> DEFINE h == [i \in 0..(n + 1) |-> IF i = n + 1 THEN F[n + 1][g[n]] ELSE g[i]]
    <2>2. n \in 0..n /\ n + 1 \in 1..N /\ n \in Nat OBVIOUS
    <2>3. g[n] \in T /\ F[n + 1] \in [T -> T] BY <2>1, <2>2
    <2>4. F[n + 1][g[n]] \in T BY <2>3
    <2>5. h \in [0..(n + 1) -> T] BY <2>1, <2>4
    <2>6. h[0] = base BY <2>1
    <2>7. ASSUME NEW k \in 1..(n + 1)
          PROVE  h[k] = F[k][h[k - 1]]
      <3>1. CASE k = n + 1
        <4>1. h[k] = F[n + 1][g[n]] /\ h[k - 1] = g[n] BY <3>1
        <4> QED BY <3>1, <4>1
      <3>2. CASE k # n + 1
        <4>1. k \in 1..n /\ k - 1 \in 0..n BY <3>2
        <4>2. h[k] = g[k] /\ h[k - 1] = g[k - 1] BY <4>1
        <4> QED BY <2>1, <4>1, <4>2
      <3> QED BY <3>1, <3>2
    <2>8. Upto(h, n + 1) BY <2>5, <2>6, <2>7
    <2> HIDE DEF Upto, h
    <2> QED BY <2>2, <2>8
  <1>3. N \in Good
    <2>1. \A n \in 0..(N - 1) : n \in Good => n + 1 \in Good BY <1>2
    <2> HIDE DEF Good
    <2>2. \A k \in 0..N : k \in Good BY <1>1, <2>1, UpTo
    <2> QED BY <2>2
  <1> QED BY <1>3 DEF Iterates
-----------------------------------------------------------------------------
(* The array of the environment and the files that are read into it. *)

\* An array of the environment: no name is twice in it.
Unique(env) == \A j, k \in DOMAIN env : env[j].name = env[k].name => j = k
Arrays == {env \in Seq(Entries) : Unique(env)}

\* The empty array is one.
LEMMA EmptyArray == <<>> \in Arrays
  <1>1. <<>> \in Seq(Entries) /\ DOMAIN <<>> = {} BY EmptySeq
  <1> QED BY <1>1 DEF Arrays, Unique

\* The index of a name is where the name is.
LEMMA IndexIs ==
  ASSUME NEW env, NEW n, Defined(env, n)
  PROVE  Index(env, n) \in DOMAIN env /\ env[Index(env, n)].name = n
  BY DEF Defined, Index

\* In an array the value of a name is the one of its only entry.
LEMMA ValueIs ==
  ASSUME NEW env \in Arrays, NEW k \in DOMAIN env
  PROVE  Defined(env, env[k].name) /\ Value(env, env[k].name) = env[k].value
  <1>1. Defined(env, env[k].name) BY DEF Defined
  <1>2. Index(env, env[k].name) = k BY <1>1, IndexIs DEF Arrays, Unique
  <1> QED BY <1>1, <1>2 DEF Value

\* The elements of a sequence of entries are entries.
LEMMA EntriesOf ==
  ASSUME NEW env \in Seq(Entries)
  PROVE  /\ DOMAIN env = 1..Len(env) /\ Len(env) \in Nat
         /\ \A k \in DOMAIN env : env[k] \in Entries /\ env[k].name \in Names
                                  /\ env[k].value \in Seq(Parts)
  <1>1. DOMAIN env = 1..Len(env) /\ Len(env) \in Nat OBVIOUS
  <1>2. \A k \in DOMAIN env : env[k] \in Entries BY <1>1
  <1> QED BY <1>1, <1>2 DEF Entries

\* env holds exactly what the assignments of all, the last of each name, say.
Matches(env, all) ==
  /\ env \in Arrays /\ all \in Seq(Entries)
  /\ \A j \in DOMAIN env : \E k \in DOMAIN all :
       all[k] = env[j] /\ \A i \in DOMAIN all : i > k => all[i].name # env[j].name
  /\ \A k \in DOMAIN all : \E j \in DOMAIN env : env[j].name = all[k].name

\* set_env_internal keeps the array an array and lets the new assignment win.
LEMMA SetMatches ==
  ASSUME NEW env, NEW all, Matches(env, all), NEW e \in Entries
  PROVE  Matches(SetInternal(env, e), Append(all, e))
  <1> DEFINE new == SetInternal(env, e)
             more == Append(all, e)
  <1>1. env \in Seq(Entries) /\ all \in Seq(Entries) /\ Unique(env) BY DEF Matches, Arrays
  <1>2. /\ DOMAIN env = 1..Len(env) /\ Len(env) \in Nat
        /\ DOMAIN all = 1..Len(all) /\ Len(all) \in Nat
    BY <1>1
  <1>3. /\ more \in Seq(Entries) /\ DOMAIN more = 1..(Len(all) + 1)
        /\ more[Len(all) + 1] = e /\ \A k \in DOMAIN all : more[k] = all[k]
    BY <1>1, <1>2
  <1> DEFINE at == IF Defined(env, e.name) THEN Index(env, e.name) ELSE Len(env) + 1
  <1>4. /\ new \in Seq(Entries) /\ DOMAIN new = DOMAIN env \cup {at} /\ at \in DOMAIN new
        /\ new[at] = e /\ \A j \in DOMAIN env : j # at => new[j] = env[j]
        /\ \A j \in DOMAIN env : env[j].name = e.name <=> j = at
    <2>1. CASE Defined(env, e.name)
      <3> DEFINE i == Index(env, e.name)
      <3>1. i \in DOMAIN env /\ env[i].name = e.name BY <2>1, IndexIs
      <3>2. new = [env EXCEPT ![i] = e] /\ at = i BY <2>1 DEF SetInternal
      <3> HIDE DEF i, new, at
      <3>3. new \in Seq(Entries) /\ DOMAIN new = DOMAIN env BY <1>1, <1>2, <3>1, <3>2
      <3>4. new[i] = e /\ \A j \in DOMAIN env : j # i => new[j] = env[j] BY <3>1, <3>2
      <3>5. \A j \in DOMAIN env : env[j].name = e.name <=> j = i BY <1>1, <3>1 DEF Unique
      <3> QED BY <3>1, <3>2, <3>3, <3>4, <3>5
    <2>2. CASE ~Defined(env, e.name)
      <3>1. new = Append(env, e) /\ at = Len(env) + 1 BY <2>2 DEF SetInternal
      <3>2. \A j \in DOMAIN env : env[j].name # e.name BY <2>2 DEF Defined
      <3> HIDE DEF new, at
      <3>3. /\ new \in Seq(Entries) /\ DOMAIN new = 1..(Len(env) + 1)
            /\ new[Len(env) + 1] = e /\ \A j \in DOMAIN env : new[j] = env[j]
        BY <1>1, <1>2, <3>1
      <3> QED BY <1>2, <3>1, <3>2, <3>3
    <2> QED BY <2>1, <2>2
  <1> HIDE DEF new, more, at
  <1>5. Unique(new)
    BY <1>1, <1>4 DEF Unique
  <1>6. ASSUME NEW j \in DOMAIN new
        PROVE  \E k \in DOMAIN more : more[k] = new[j] /\
                 \A i \in DOMAIN more : i > k => more[i].name # new[j].name
    <2>1. CASE j = at
      <3>1. Len(all) + 1 \in DOMAIN more /\ \A i \in DOMAIN more : ~(i > Len(all) + 1)
        BY <1>2, <1>3
      <3> QED BY <2>1, <3>1, <1>3, <1>4
    <2>2. CASE j # at
      <3>1. j \in DOMAIN env /\ new[j] = env[j] /\ env[j].name # e.name BY <2>2, <1>4
      <3>2. PICK k \in DOMAIN all : all[k] = env[j]
                 /\ \A i \in DOMAIN all : i > k => all[i].name # env[j].name
        BY <3>1 DEF Matches
      <3>3. k \in DOMAIN more /\ more[k] = new[j] BY <3>1, <3>2, <1>2, <1>3
      <3>4. \A i \in DOMAIN more : i > k => more[i].name # new[j].name
        BY <3>1, <3>2, <1>2, <1>3
      <3> QED BY <3>3, <3>4
    <2> QED BY <2>1, <2>2
  <1>7. ASSUME NEW k \in DOMAIN more
        PROVE  \E j \in DOMAIN new : new[j].name = more[k].name
    <2>1. CASE k = Len(all) + 1 BY <2>1, <1>3, <1>4
    <2>2. CASE k # Len(all) + 1
      <3>1. k \in DOMAIN all /\ more[k] = all[k] BY <2>2, <1>2, <1>3
      <3>2. PICK j \in DOMAIN env : env[j].name = all[k].name BY <3>1 DEF Matches
      <3>3. CASE j = at BY <3>1, <3>2, <3>3, <1>4
      <3>4. CASE j # at BY <3>1, <3>2, <3>4, <1>4
      <3> QED BY <3>3, <3>4
    <2> QED BY <2>1, <2>2
  <1>8. Matches(new, more) BY <1>3, <1>4, <1>5, <1>6, <1>7 DEF Matches, Arrays
  <1> QED BY <1>8 DEF new, more

\* load_env_file is its assignments made one after the other.
LEMMA LoadFileIs ==
  ASSUME NEW env \in Seq(Entries), NEW content \in Seq(Entries), content # Missing
  PROVE  \E f \in [0..Len(content) -> Seq(Entries)] :
           /\ f[0] = env /\ LoadFile(env, content) = f[Len(content)]
           /\ \A k \in 1..Len(content) : f[k] = SetInternal(f[k - 1], content[k])
  <1> DEFINE N == Len(content)
             T == Seq(Entries)
             Rec(g) == [k \in 0..N |-> IF k = 0 THEN env ELSE SetInternal(g[k - 1], content[k])]
             F == [k \in 1..N |-> [e \in T |-> SetInternal(e, content[k])]]
             after == CHOOSE g : g = Rec(g)
  <1>1. N \in Nat /\ \A k \in 1..N : content[k] \in Entries OBVIOUS
  <1>2. \A k \in 1..N : \A e \in T : SetInternal(e, content[k]) \in T
    <2> SUFFICES ASSUME NEW k \in 1..N, NEW e \in T PROVE SetInternal(e, content[k]) \in T
      OBVIOUS
    <2>1. CASE Defined(e, content[k].name)
      <3> DEFINE i == Index(e, content[k].name)
      <3>1. i \in 1..Len(e) BY <2>1, IndexIs
      <3> HIDE DEF i
      <3>2. [e EXCEPT ![i] = content[k]] \in Seq(Entries) BY <1>1, <3>1, ExceptSeq
      <3> QED BY <2>1, <3>2 DEF SetInternal, i
    <2>2. CASE ~Defined(e, content[k].name) BY <2>2, <1>1 DEF SetInternal
    <2> QED BY <2>1, <2>2
  <1>3. F \in [1..N -> [T -> T]] BY <1>2
  <1>4. PICK f \in [0..N -> T] : f[0] = env /\ \A k \in 1..N : f[k] = F[k][f[k - 1]]
    <2> HIDE DEF N, T, F
    <2>1. env \in T BY DEF T
    <2>2. N \in Nat BY <1>1
    <2>3. \E f : Iterates(f, N, T, env, F) BY <2>1, <2>2, <1>3, RecursionExists
    <2> QED BY <2>3 DEF Iterates
  <1>5. \A k \in 1..N : f[k] = SetInternal(f[k - 1], content[k]) /\ k - 1 \in 0..N
    <2> SUFFICES ASSUME NEW k \in 1..N
                 PROVE  f[k] = SetInternal(f[k - 1], content[k]) /\ k - 1 \in 0..N
      OBVIOUS
    <2>1. k - 1 \in 0..N BY <1>1
    <2>2. f[k - 1] \in T BY <2>1, <1>4
    <2>3. F[k][f[k - 1]] = SetInternal(f[k - 1], content[k]) BY <2>2
    <2> QED BY <2>1, <2>3, <1>4
  <1> HIDE DEF N, T, F
  <1>6. f = Rec(f) BY <1>1, <1>4, <1>5
  <1>7. after = Rec(after)
    <2> HIDE DEF Rec
    <2> QED BY <1>6
  <1>8. LoadFile(env, content) = after[N] BY DEF LoadFile, N
  <1> DEFINE Same == {k \in 0..N : after[k] = f[k]}
  <1> HIDE DEF after
  <1>9. 0 \in Same BY <1>1, <1>4, <1>7
  <1>10. ASSUME NEW k \in 0..(N - 1), k \in Same PROVE k + 1 \in Same
    <2>1. k + 1 \in 1..N /\ k + 1 \in 0..N /\ (k + 1) - 1 = k /\ k + 1 # 0 BY <1>1
    <2>2. after[k + 1] = SetInternal(after[(k + 1) - 1], content[k + 1]) BY <1>7, <2>1
    <2>3. f[k + 1] = SetInternal(f[(k + 1) - 1], content[k + 1]) BY <1>5, <2>1
    <2> QED BY <2>1, <2>2, <2>3, <1>10
  <1>11. N \in Same
    <2> HIDE DEF Same
    <2>1. \A k \in 0..N : k \in Same BY <1>1, <1>9, <1>10, UpTo
    <2> QED BY <2>1, <1>1
  <1>12. LoadFile(env, content) = f[N] BY <1>8, <1>11
  <1> QED BY <1>4, <1>5, <1>12 DEF N, T

\* What a file gives is a sequence of assignments.
LEMMA GivenIs ==
  ASSUME NEW content \in Contents
  PROVE  Given(content) \in Seq(Entries)
  <1>1. CASE content = Missing BY <1>1, EmptySeq DEF Given
  <1>2. CASE content # Missing BY <1>2, EnvironmentFiles DEF Given
  <1> QED BY <1>1, <1>2

\* Loading a file adds its assignments to the ones before.
LEMMA LoadMatches ==
  ASSUME NEW env, NEW all, Matches(env, all), NEW content \in Contents
  PROVE  Matches(LoadFile(env, content), all \o Given(content))
  <1>1. env \in Seq(Entries) /\ all \in Seq(Entries) BY DEF Matches, Arrays
  <1>2. CASE content = Missing
    <2>1. all \o <<>> = all BY <1>1, ConcatEmptySeq
    <2> QED BY <1>2, <2>1 DEF LoadFile, Given
  <1>3. CASE content # Missing
    <2>1. content \in Seq(Entries) /\ Given(content) = content
      BY <1>3, EnvironmentFiles DEF Given
    <2> DEFINE N == Len(content)
    <2>2. N \in Nat BY <2>1
    <2>3. PICK f \in [0..N -> Seq(Entries)] :
               /\ f[0] = env /\ LoadFile(env, content) = f[N]
               /\ \A k \in 1..N : f[k] = SetInternal(f[k - 1], content[k])
      BY <1>1, <1>3, <2>1, LoadFileIs
    <2> DEFINE S == {k \in 0..N : Matches(f[k], all \o SubSeq(content, 1, k))}
    <2>4. 0 \in S
      <3>1. SubSeq(content, 1, 0) = <<>> BY SubSeqEmpty
      <3>2. all \o <<>> = all BY <1>1, ConcatEmptySeq
      <3>3. Matches(f[0], all \o SubSeq(content, 1, 0)) BY <2>3, <3>1, <3>2, Zenon
      <3> QED BY <2>2, <3>3
    <2>5. ASSUME NEW k \in 0..(N - 1), k \in S PROVE k + 1 \in S
      <3>1. k + 1 \in 1..N /\ k + 1 \in 0..N /\ (k + 1) - 1 = k /\ k \in Nat BY <2>2
      <3>2. content[k + 1] \in Entries BY <2>1, <3>1
      <3>3. f[k + 1] = SetInternal(f[k], content[k + 1]) BY <2>3, <3>1
      <3>4. SubSeq(content, 1, k + 1) = Append(SubSeq(content, 1, k), content[k + 1])
        BY <2>1, <3>1
      <3>5. SubSeq(content, 1, k) \in Seq(Entries) BY <2>1, <3>1
      <3>6. all \o SubSeq(content, 1, k + 1)
              = Append(all \o SubSeq(content, 1, k), content[k + 1])
        <4> DEFINE pre == SubSeq(content, 1, k)
        <4> HIDE DEF pre
        <4>1. all \o Append(pre, content[k + 1]) = Append(all \o pre, content[k + 1])
          BY <1>1, <3>2, <3>5 DEF pre
        <4> QED BY <3>4, <4>1 DEF pre
      <3>7. Matches(f[k], all \o SubSeq(content, 1, k)) BY <2>5
      <3>8. Matches(f[k + 1], all \o SubSeq(content, 1, k + 1))
        BY <3>2, <3>3, <3>6, <3>7, SetMatches
      <3> QED BY <3>1, <3>8
    <2>6. N \in S
      <3> HIDE DEF S, N
      <3>1. \A k \in 0..N : k \in S BY <2>2, <2>4, <2>5, UpTo
      <3> QED BY <2>2, <3>1
    <2>7. SubSeq(content, 1, N) = content BY <2>1, SubSeqFull
    <2> QED BY <2>1, <2>3, <2>6, <2>7
  <1> QED BY <1>2, <1>3

\* An array matches its own entries as assignments, and the empty one no assignments.
LEMMA MatchesItself ==
  ASSUME NEW env \in Arrays
  PROVE  Matches(env, env)
  <1>1. env \in Seq(Entries) /\ Unique(env) BY DEF Arrays
  <1>2. \A j \in DOMAIN env : j \in Nat /\ ~(j > j) BY <1>1
  <1>3. \A j, i \in DOMAIN env : i > j => env[i].name # env[j].name
    BY <1>1, <1>2 DEF Unique
  <1> QED BY <1>1, <1>2, <1>3 DEF Matches
-----------------------------------------------------------------------------
(* References in values. *)

\* FlattenSeq appends the sequences one after the other.
LEMMA FlattenIs ==
  ASSUME NEW S, NEW seqs \in Seq(Seq(S)), Len(seqs) # 0
  PROVE  \E f \in [1..Len(seqs) -> Seq(S)] :
           /\ f[1] = seqs[1] /\ FlattenSeq(seqs) = f[Len(seqs)]
           /\ \A i \in 2..Len(seqs) : f[i] = f[i - 1] \o seqs[i]
  <1> DEFINE N == Len(seqs)
             T == Seq(S)
             Rec(g) == [i \in 1..N |-> IF i = 1 THEN seqs[i] ELSE g[i - 1] \o seqs[i]]
             F == [k \in 1..(N - 1) |-> [s \in T |-> s \o seqs[k + 1]]]
             flatten == CHOOSE g : g = Rec(g)
  <1>1. N \in Nat /\ N >= 1 /\ N - 1 \in Nat /\ \A i \in 1..N : seqs[i] \in T OBVIOUS
  <1>2. F \in [1..(N - 1) -> [T -> T]]
    <2>1. \A k \in 1..(N - 1) : k + 1 \in 1..N BY <1>1
    <2>2. \A k \in 1..(N - 1) : \A s \in T : s \o seqs[k + 1] \in T
      BY <1>1, <2>1, ConcatProperties
    <2> QED BY <2>2
  <1>3. PICK h : Iterates(h, N - 1, T, seqs[1], F)
    <2> HIDE DEF N, T, F
    <2>1. seqs[1] \in T /\ N - 1 \in Nat BY <1>1
    <2> QED BY <1>2, <2>1, RecursionExists
  <1>4. h \in [0..(N - 1) -> T] /\ h[0] = seqs[1] BY <1>3 DEF Iterates
  <1>5. ASSUME NEW k \in 1..(N - 1) PROVE h[k] = h[k - 1] \o seqs[k + 1]
    <2>1. k - 1 \in 0..(N - 1) BY <1>1
    <2>2. h[k - 1] \in T BY <2>1, <1>4
    <2>3. h[k] = F[k][h[k - 1]] BY <1>3 DEF Iterates
    <2> QED BY <2>2, <2>3
  <1> DEFINE f == [i \in 1..N |-> h[i - 1]]
  <1> HIDE DEF N, T, F
  <1>6. f \in [1..N -> T]
    <2>1. \A i \in 1..N : i - 1 \in 0..(N - 1) BY <1>1
    <2> QED BY <1>4, <2>1
  <1>7. f[1] = seqs[1] BY <1>1, <1>4
  <1>8. ASSUME NEW i \in 2..N PROVE f[i] = f[i - 1] \o seqs[i] /\ i - 1 \in 1..N
    <2>1. i - 1 \in 1..(N - 1) /\ i - 1 \in 1..N /\ (i - 1) + 1 = i /\ i \in 1..N BY <1>1
    <2>2. h[i - 1] = h[(i - 1) - 1] \o seqs[(i - 1) + 1] BY <1>5, <2>1
    <2>3. f[i] = h[i - 1] /\ f[i - 1] = h[(i - 1) - 1] BY <2>1
    <2> QED BY <2>1, <2>2, <2>3
  <1> HIDE DEF f
  <1>9. f = Rec(f)
    <2>1. ASSUME NEW i \in 1..N PROVE f[i] = Rec(f)[i]
      <3>1. CASE i = 1 BY <3>1, <1>7
      <3>2. CASE i # 1
        <4>1. i \in 2..N BY <3>2, <1>1
        <4> QED BY <3>2, <4>1, <1>8
      <3> QED BY <3>1, <3>2
    <2>2. DOMAIN Rec(f) = 1..N /\ Rec(f) = [i \in 1..N |-> Rec(f)[i]] OBVIOUS
    <2> HIDE DEF Rec
    <2>3. f = [i \in 1..N |-> f[i]] BY <1>6
    <2> QED BY <2>1, <2>2, <2>3
  <1>10. flatten = Rec(flatten)
    <2> HIDE DEF Rec
    <2> QED BY <1>9
  <1>11. FlattenSeq(seqs) = flatten[N] BY <1>1 DEF FlattenSeq, N
  <1> DEFINE Same == {k \in 0..(N - 1) : flatten[k + 1] = f[k + 1]}
  <1> HIDE DEF flatten
  <1>12. 0 \in Same BY <1>1, <1>7, <1>10
  <1>13. ASSUME NEW k \in 0..((N - 1) - 1), k \in Same PROVE k + 1 \in Same
    <2>1. /\ (k + 1) + 1 \in 2..N /\ (k + 1) + 1 \in 1..N /\ k + 1 \in 0..(N - 1)
          /\ ((k + 1) + 1) - 1 = k + 1 /\ (k + 1) + 1 # 1
      BY <1>1
    <2> DEFINE m == (k + 1) + 1
    <2> HIDE DEF m
    <2>2. flatten[m] = flatten[m - 1] \o seqs[m] BY <1>10, <2>1 DEF m
    <2>3. f[m] = f[m - 1] \o seqs[m] BY <1>8, <2>1 DEF m
    <2>4. flatten[m - 1] = f[m - 1] BY <2>1, <1>13 DEF m
    <2>5. flatten[m] = f[m] BY <2>2, <2>3, <2>4
    <2> QED BY <2>1, <2>5 DEF m
  <1>14. N - 1 \in Same
    <2> DEFINE M == N - 1
    <2>1. M \in Nat BY <1>1
    <2>2. \A k \in 0..(M - 1) : k \in Same => k + 1 \in Same BY <1>13
    <2> HIDE DEF Same, M
    <2>3. \A k \in 0..M : k \in Same BY <1>12, <2>1, <2>2, UpTo
    <2> QED BY <2>1, <2>3 DEF M
  <1>15. FlattenSeq(seqs) = f[N] BY <1>1, <1>11, <1>14
  <1> QED BY <1>6, <1>7, <1>8, <1>15 DEF N, T

\* Flattening gives a sequence of the same elements.
LEMMA FlattenType ==
  ASSUME NEW S, NEW seqs \in Seq(Seq(S))
  PROVE  FlattenSeq(seqs) \in Seq(S)
  <1>1. CASE Len(seqs) = 0
    <2>1. seqs = <<>> BY <1>1, EmptySeq
    <2> QED BY <1>1, <2>1, EmptySeq DEF FlattenSeq
  <1>2. CASE Len(seqs) # 0
    <2>1. Len(seqs) \in 1..Len(seqs) BY <1>2
    <2>2. PICK f \in [1..Len(seqs) -> Seq(S)] : FlattenSeq(seqs) = f[Len(seqs)]
      BY <1>2, FlattenIs
    <2> QED BY <2>1, <2>2
  <1> QED BY <1>1, <1>2

\* What Substituted puts in the place of each part.
Pieces(value, by) ==
  [k \in 1..Len(value) |->
    IF value[k] \notin Names THEN <<value[k]>>
    ELSE IF value[k] \in DOMAIN by THEN by[value[k]] ELSE <<>>]

\* A value keeps to the elements its text and its references have.
LEMMA SubstitutedType ==
  ASSUME NEW S, Texts \subseteq S, NEW value \in Seq(Parts), NEW by,
         \A k \in 1..Len(value) :
           value[k] \in Names /\ value[k] \in DOMAIN by => by[value[k]] \in Seq(S)
  PROVE  Substituted(value, by) \in Seq(S)
  <1>1. \A k \in 1..Len(value) : value[k] \in Parts OBVIOUS
  <1>2. ASSUME NEW k \in 1..Len(value) PROVE Pieces(value, by)[k] \in Seq(S)
    <2>1. CASE value[k] \notin Names
      <3>1. value[k] \in S BY <1>1, <2>1 DEF Parts
      <3>2. <<value[k]>> \in Seq(S) BY <3>1
      <3> QED BY <2>1, <3>2 DEF Pieces
    <2>2. CASE value[k] \in Names BY <2>2, EmptySeq DEF Pieces
    <2> QED BY <2>1, <2>2
  <1>3. Pieces(value, by) \in Seq(Seq(S))
    <2>1. Len(value) \in Nat /\ DOMAIN Pieces(value, by) = 1..Len(value) BY DEF Pieces
    <2>2. Pieces(value, by) \in [1..Len(value) -> Seq(S)] BY <1>2, <2>1 DEF Pieces
    <2> HIDE DEF Pieces
    <2> QED BY <2>1, <2>2, SeqDef
  <1> QED BY <1>3, FlattenType DEF Substituted, Pieces

\* Only what the references of a value stand for matters.
LEMMA SubstitutedSame ==
  ASSUME NEW value, NEW by1, NEW by2, DOMAIN by1 = DOMAIN by2,
         \A k \in 1..Len(value) : value[k] \in DOMAIN by1 => by1[value[k]] = by2[value[k]]
  PROVE  Substituted(value, by1) = Substituted(value, by2)
  <1>1. Pieces(value, by1) = Pieces(value, by2) BY DEF Pieces
  <1> QED BY <1>1 DEF Substituted, Pieces

\* A value without references stays as it is.
LEMMA SubstitutedText ==
  ASSUME NEW value \in Seq(Texts), NEW by
  PROVE  Substituted(value, by) = value
  <1> DEFINE P == Pieces(value, by)
             N == Len(value)
  <1>1. N \in Nat /\ \A k \in 1..N : value[k] \in Texts OBVIOUS
  <1>2. \A k \in 1..N : P[k] = <<value[k]>>
    BY <1>1, EnvironmentNames DEF Pieces
  <1>3. DOMAIN P = 1..N BY DEF Pieces
  <1>4. \A k \in 1..N : P[k] \in Seq(Texts)
    <2>1. \A k \in 1..N : <<value[k]>> \in Seq(Texts) BY <1>1
    <2> QED BY <1>2, <2>1
  <1>5. P \in [1..N -> Seq(Texts)] BY <1>4 DEF Pieces
  <1> HIDE DEF P
  <1>6. P \in Seq(Seq(Texts)) /\ Len(P) = N
    <2>1. P \in Seq(Seq(Texts)) BY <1>1, <1>5, SeqDef
    <2>2. Len(P) \in Nat /\ DOMAIN P = 1..Len(P) BY <2>1, LenProperties
    <2> DEFINE L == Len(P)
    <2>3. 1..N = 1..L /\ L \in Nat BY <1>3, <2>2
    <2> HIDE DEF L, N
    <2>4. (L >= 1 => L \in 1..N) /\ (N >= 1 => N \in 1..L) BY <1>1, <2>3
    <2>5. L = N BY <1>1, <2>3, <2>4
    <2> QED BY <2>1, <2>5 DEF L
  <1>7. Substituted(value, by) = FlattenSeq(P) BY DEF Substituted, P, Pieces
  <1>8. CASE N = 0
    <2>1. value = <<>> /\ P = <<>> BY <1>8, <1>6, EmptySeq
    <2> QED BY <1>6, <1>7, <1>8, <2>1 DEF FlattenSeq
  <1>9. CASE N # 0
    <2>1. PICK f \in [1..N -> Seq(Texts)] :
               /\ f[1] = P[1] /\ FlattenSeq(P) = f[N]
               /\ \A i \in 2..N : f[i] = f[i - 1] \o P[i]
      <3> HIDE DEF N
      <3> QED BY <1>6, <1>9, FlattenIs
    <2> DEFINE M == N - 1
               Good == {k \in 0..M : f[k + 1] = SubSeq(value, 1, k + 1)}
    <2>2. M \in Nat /\ 1 \in 1..N BY <1>1, <1>9
    <2>3. 0 \in Good
      <3>1. SubSeq(value, 1, 1) = SubSeq(value, 1, 1 - 1) \o <<value[1]>>
        BY <1>1, <1>9, <2>2, SubSeqRecursiveSecond
      <3>2. SubSeq(value, 1, 1 - 1) = <<>> BY SubSeqEmpty
      <3>3. <<value[1]>> \in Seq(Texts) BY <1>1, <2>2
      <3>4. SubSeq(value, 1, 1) = <<value[1]>> BY <3>1, <3>2, <3>3, ConcatEmptySeq, Zenon
      <3>5. f[1] = SubSeq(value, 1, 1) BY <1>2, <2>1, <2>2, <3>4
      <3> QED BY <2>2, <3>5
    <2>4. ASSUME NEW k \in 0..(M - 1), k \in Good PROVE k + 1 \in Good
      <3> DEFINE m == (k + 1) + 1
      <3>1. m \in 2..N /\ m \in 1..N /\ k + 1 \in 0..M /\ m - 1 = k + 1 BY <1>1, <1>9
      <3> HIDE DEF m
      <3>2. f[m] = f[m - 1] \o <<value[m]>> BY <1>2, <2>1, <3>1
      <3>3. f[m - 1] = SubSeq(value, 1, m - 1) BY <2>4, <3>1
      <3>4. SubSeq(value, 1, m) = SubSeq(value, 1, m - 1) \o <<value[m]>>
        BY <1>1, <3>1, SubSeqRecursiveSecond
      <3>5. f[m] = SubSeq(value, 1, m) BY <3>2, <3>3, <3>4
      <3> QED BY <3>1, <3>5 DEF m
    <2>5. M \in Good
      <3> HIDE DEF Good, M
      <3>1. \A k \in 0..M : k \in Good BY <2>2, <2>3, <2>4, UpTo
      <3> QED BY <2>2, <3>1
    <2>6. f[N] = SubSeq(value, 1, N) BY <2>5, <1>1
    <2>7. SubSeq(value, 1, N) = value BY SubSeqFull
    <2> QED BY <1>7, <2>1, <2>6, <2>7
  <1> QED BY <1>8, <1>9
-----------------------------------------------------------------------------
(* Expansion. *)

\* The values one level above the values by.
LevelAbove(env, by) == [n \in NamesIn(env) |-> Expanded(Value(env, n), by)]

\* The value of a name that is there is a value.
LEMMA ValueType ==
  ASSUME NEW env \in Seq(Entries), NEW n \in NamesIn(env)
  PROVE  Defined(env, n) /\ Value(env, n) \in Seq(Parts) /\ n \in Names
  <1>1. Defined(env, n) BY DEF NamesIn, Defined
  <1> QED BY <1>1, IndexIs, EntriesOf DEF Value

\* What Cut makes of a value is a value.
LEMMA CutType ==
  ASSUME NEW value \in Seq(Parts), NEW by, \A p \in DOMAIN by : by[p] \in Seq(Parts)
  PROVE  Cut(value, by) \in Seq(Parts)
  <1> DEFINE N == Len(value)
             T == Seq(Parts)
             Piece(k) == Substituted(<<value[k]>>, by)
             Room(k) == IF value[k] \in Names THEN MaxLen - 1 ELSE MaxLen
             Longer(s, k) == IF Len(s) + Len(Piece(k)) <= Room(k) THEN s \o Piece(k) ELSE s
             Rec(g) == [k \in 0..N |-> IF k = 0 THEN <<>> ELSE Longer(g[k - 1], k)]
             F == [k \in 1..N |-> [s \in T |-> Longer(s, k)]]
             upto == CHOOSE g : g = Rec(g)
  <1>1. N \in Nat /\ <<>> \in T BY EmptySeq
  <1>2. ASSUME NEW k \in 1..N PROVE Piece(k) \in T
    <2>1. value[k] \in Parts OBVIOUS
    <2> DEFINE v == <<value[k]>>
    <2>2. v \in Seq(Parts) /\ \A j \in 1..Len(v) : v[j] \in DOMAIN by => by[v[j]] \in Seq(Parts)
      BY <2>1
    <2>3. Texts \subseteq Parts BY DEF Parts
    <2> HIDE DEF v
    <2>4. Substituted(v, by) \in Seq(Parts) BY <2>2, <2>3, SubstitutedType
    <2> QED BY <2>4 DEF v
  <1>3. F \in [1..N -> [T -> T]]
    <2>1. ASSUME NEW k \in 1..N, NEW s \in T PROVE Longer(s, k) \in T
      <3>1. Piece(k) \in T BY <1>2
      <3> HIDE DEF Piece, Room
      <3>2. s \o Piece(k) \in T BY <3>1
      <3> QED BY <3>2
    <2> HIDE DEF Longer, T, N
    <2> QED BY <2>1
  <1>4. PICK f : Iterates(f, N, T, <<>>, F)
    <2> HIDE DEF N, T, F
    <2> QED BY <1>1, <1>3, RecursionExists
  <1>5. f \in [0..N -> T] /\ f[0] = <<>> BY <1>4 DEF Iterates
  <1> HIDE DEF Longer
  <1>6. ASSUME NEW k \in 1..N PROVE f[k] = Longer(f[k - 1], k) /\ k - 1 \in 0..N
    <2>1. k - 1 \in 0..N BY <1>1
    <2>2. f[k - 1] \in T BY <2>1, <1>5
    <2>3. f[k] = F[k][f[k - 1]] BY <1>4 DEF Iterates
    <2>4. F[k][f[k - 1]] = Longer(f[k - 1], k) BY <2>2
    <2> QED BY <2>1, <2>3, <2>4
  <1>7. Cut(value, by) = upto[N] BY DEF Cut, Longer
  <1> HIDE DEF N, T, F
  <1>8. f = Rec(f) BY <1>1, <1>5, <1>6
  <1>9. upto = Rec(upto)
    <2> HIDE DEF Rec
    <2> QED BY <1>8
  <1> DEFINE Same == {k \in 0..N : upto[k] = f[k]}
  <1> HIDE DEF upto
  <1>10. 0 \in Same BY <1>1, <1>5, <1>9
  <1>11. ASSUME NEW k \in 0..(N - 1), k \in Same PROVE k + 1 \in Same
    <2>1. k + 1 \in 1..N /\ k + 1 \in 0..N /\ (k + 1) - 1 = k /\ k + 1 # 0 BY <1>1
    <2>2. upto[k + 1] = Longer(upto[(k + 1) - 1], k + 1) BY <1>9, <2>1
    <2>3. f[k + 1] = Longer(f[(k + 1) - 1], k + 1) BY <1>6, <2>1
    <2> QED BY <2>1, <2>2, <2>3, <1>11
  <1>12. N \in Same
    <2>1. \A k \in 0..(N - 1) : k \in Same => k + 1 \in Same BY <1>11
    <2> HIDE DEF Same
    <2>2. \A k \in 0..N : k \in Same BY <1>1, <1>10, <2>1, UpTo
    <2> QED BY <2>2, <1>1
  <1>13. f[N] \in T BY <1>1, <1>5
  <1> QED BY <1>7, <1>12, <1>13 DEF T

\* What expand_value makes of a value is a value.
LEMMA ExpandedType ==
  ASSUME NEW value \in Seq(Parts), NEW by, \A p \in DOMAIN by : by[p] \in Seq(Parts)
  PROVE  Expanded(value, by) \in Seq(Parts)
  <1>1. Cut(value, by) \in Seq(Parts) BY CutType
  <1>2. Texts \subseteq Parts BY DEF Parts
  <1>3. Substituted(value, by) \in Seq(Parts) BY <1>2, SubstitutedType
  <1> QED BY <1>1, <1>3 DEF Expanded

\* expand_value is its levels computed one after the other, from the depth limit upward.
LEMMA LevelsAre ==
  ASSUME NEW env \in Seq(Entries)
  PROVE  \E level \in [0..MaxDepth -> [NamesIn(env) -> Seq(Parts)]] :
           /\ level[0] = ValuesIn(env) /\ Expansion(env) = level[MaxDepth]
           /\ \A h \in 1..MaxDepth : level[h] = LevelAbove(env, level[h - 1])
  <1> DEFINE N == MaxDepth
             T == [NamesIn(env) -> Seq(Parts)]
             Rec(g) == [h \in 0..N |-> IF h = 0 THEN ValuesIn(env)
                                      ELSE [n \in NamesIn(env) |->
                                              Expanded(Value(env, n), g[h - 1])]]
             F == [h \in 1..N |-> [by \in T |-> LevelAbove(env, by)]]
             found == CHOOSE g : g = Rec(g)
  <1>1. N \in Nat BY EnvironmentDepth
  <1>2. ValuesIn(env) \in T BY ValueType DEF ValuesIn
  <1>3. F \in [1..N -> [T -> T]]
    <2>1. ASSUME NEW by \in T, NEW n \in NamesIn(env)
          PROVE  Expanded(Value(env, n), by) \in Seq(Parts)
      <3>1. Value(env, n) \in Seq(Parts) BY ValueType
      <3>3. \A p \in DOMAIN by : by[p] \in Seq(Parts) OBVIOUS
      <3> QED BY <3>1, <3>3, ExpandedType
    <2>2. \A by \in T : LevelAbove(env, by) \in T BY <2>1 DEF LevelAbove
    <2> QED BY <2>2
  <1>4. PICK f : Iterates(f, N, T, ValuesIn(env), F)
    <2> HIDE DEF N, T, F
    <2> QED BY <1>1, <1>2, <1>3, RecursionExists
  <1>5. f \in [0..N -> T] /\ f[0] = ValuesIn(env) BY <1>4 DEF Iterates
  <1>6. ASSUME NEW h \in 1..N PROVE f[h] = LevelAbove(env, f[h - 1]) /\ h - 1 \in 0..N
    <2>1. h - 1 \in 0..N BY <1>1
    <2>2. f[h - 1] \in T BY <2>1, <1>5
    <2>3. f[h] = F[h][f[h - 1]] BY <1>4 DEF Iterates
    <2>4. F[h][f[h - 1]] = LevelAbove(env, f[h - 1]) BY <2>2
    <2> QED BY <2>1, <2>3, <2>4
  <1> HIDE DEF N, T, F
  <1>7. f = Rec(f)
    <2>1. ASSUME NEW h \in 0..N PROVE f[h] = Rec(f)[h]
      <3>1. CASE h = 0 BY <3>1, <1>5
      <3>2. CASE h # 0
        <4>1. h \in 1..N BY <3>2, <1>1
        <4> QED BY <3>2, <4>1, <1>6 DEF LevelAbove
      <3> QED BY <3>1, <3>2
    <2>2. DOMAIN Rec(f) = 0..N /\ Rec(f) = [h \in 0..N |-> Rec(f)[h]] OBVIOUS
    <2> HIDE DEF Rec
    <2>3. f = [h \in 0..N |-> f[h]] BY <1>5
    <2> QED BY <2>1, <2>2, <2>3
  <1>8. found = Rec(found)
    <2> HIDE DEF Rec
    <2> QED BY <1>7
  <1>9. Expansion(env) = found[N] BY DEF Expansion, N
  <1> DEFINE Same == {h \in 0..N : found[h] = f[h]}
  <1> HIDE DEF found
  <1>10. 0 \in Same BY <1>1, <1>5, <1>8
  <1>11. ASSUME NEW h \in 0..(N - 1), h \in Same PROVE h + 1 \in Same
    <2>1. h + 1 \in 1..N /\ h + 1 \in 0..N /\ (h + 1) - 1 = h /\ h + 1 # 0 BY <1>1
    <2>2. found[h + 1] = LevelAbove(env, found[(h + 1) - 1]) BY <1>8, <2>1 DEF LevelAbove
    <2>3. f[h + 1] = LevelAbove(env, f[(h + 1) - 1]) BY <1>6, <2>1
    <2> QED BY <2>1, <2>2, <2>3, <1>11
  <1>12. N \in Same
    <2>1. \A h \in 0..(N - 1) : h \in Same => h + 1 \in Same BY <1>11
    <2> HIDE DEF Same
    <2>2. \A h \in 0..N : h \in Same BY <1>1, <1>10, <2>1, UpTo
    <2> QED BY <2>2, <1>1
  <1>13. Expansion(env) = f[N] BY <1>9, <1>12
  <1> QED BY <1>5, <1>6, <1>13 DEF N, T

\* The values one level above the values by, when nothing is cut.
ResolvedAbove(raw, by) == [n \in DOMAIN raw |-> Substituted(raw[n], by)]

\* The same for the levels when nothing is cut.
LEMMA ResolvedLevels ==
  ASSUME NEW raw, \A n \in DOMAIN raw : raw[n] \in Seq(Parts), raw = [n \in DOMAIN raw |-> raw[n]]
  PROVE  \E level \in [0..MaxDepth -> [DOMAIN raw -> Seq(Parts)]] :
           /\ level[0] = raw /\ Resolved(raw) = level[MaxDepth]
           /\ \A h \in 1..MaxDepth : level[h] = ResolvedAbove(raw, level[h - 1])
  <1> DEFINE N == MaxDepth
             T == [DOMAIN raw -> Seq(Parts)]
             Rec(g) == [h \in 0..N |-> IF h = 0 THEN raw
                                      ELSE [n \in DOMAIN raw |->
                                              Substituted(raw[n], g[h - 1])]]
             F == [h \in 1..N |-> [by \in T |-> ResolvedAbove(raw, by)]]
             found == CHOOSE g : g = Rec(g)
  <1>1. N \in Nat BY EnvironmentDepth
  <1>2. raw \in T OBVIOUS
  <1>3. F \in [1..N -> [T -> T]]
    <2>1. ASSUME NEW by \in T, NEW n \in DOMAIN raw
          PROVE  Substituted(raw[n], by) \in Seq(Parts)
      <3>1. raw[n] \in Seq(Parts) OBVIOUS
      <3>2. Texts \subseteq Parts BY DEF Parts
      <3>3. \A p \in DOMAIN by : by[p] \in Seq(Parts) OBVIOUS
      <3> QED BY <3>1, <3>2, <3>3, SubstitutedType
    <2>2. \A by \in T : ResolvedAbove(raw, by) \in T BY <2>1 DEF ResolvedAbove
    <2> QED BY <2>2
  <1>4. PICK f : Iterates(f, N, T, raw, F)
    <2> HIDE DEF N, T, F
    <2> QED BY <1>1, <1>2, <1>3, RecursionExists
  <1>5. f \in [0..N -> T] /\ f[0] = raw BY <1>4 DEF Iterates
  <1>6. ASSUME NEW h \in 1..N PROVE f[h] = ResolvedAbove(raw, f[h - 1]) /\ h - 1 \in 0..N
    <2>1. h - 1 \in 0..N BY <1>1
    <2>2. f[h - 1] \in T BY <2>1, <1>5
    <2>3. f[h] = F[h][f[h - 1]] BY <1>4 DEF Iterates
    <2>4. F[h][f[h - 1]] = ResolvedAbove(raw, f[h - 1]) BY <2>2
    <2> QED BY <2>1, <2>3, <2>4
  <1> HIDE DEF N, T, F
  <1>7. f = Rec(f)
    <2>1. ASSUME NEW h \in 0..N PROVE f[h] = Rec(f)[h]
      <3>1. CASE h = 0 BY <3>1, <1>5
      <3>2. CASE h # 0
        <4>1. h \in 1..N BY <3>2, <1>1
        <4> QED BY <3>2, <4>1, <1>6 DEF ResolvedAbove
      <3> QED BY <3>1, <3>2
    <2>2. DOMAIN Rec(f) = 0..N /\ Rec(f) = [h \in 0..N |-> Rec(f)[h]] OBVIOUS
    <2> HIDE DEF Rec
    <2>3. f = [h \in 0..N |-> f[h]] BY <1>5
    <2> QED BY <2>1, <2>2, <2>3
  <1>8. found = Rec(found)
    <2> HIDE DEF Rec
    <2> QED BY <1>7
  <1>9. Resolved(raw) = found[N] BY DEF Resolved, N
  <1> DEFINE Same == {h \in 0..N : found[h] = f[h]}
  <1> HIDE DEF found
  <1>10. 0 \in Same BY <1>1, <1>5, <1>8
  <1>11. ASSUME NEW h \in 0..(N - 1), h \in Same PROVE h + 1 \in Same
    <2>1. h + 1 \in 1..N /\ h + 1 \in 0..N /\ (h + 1) - 1 = h /\ h + 1 # 0 BY <1>1
    <2>2. found[h + 1] = ResolvedAbove(raw, found[(h + 1) - 1]) BY <1>8, <2>1 DEF ResolvedAbove
    <2>3. f[h + 1] = ResolvedAbove(raw, f[(h + 1) - 1]) BY <1>6, <2>1
    <2> QED BY <2>1, <2>2, <2>3, <1>11
  <1>12. N \in Same
    <2>1. \A h \in 0..(N - 1) : h \in Same => h + 1 \in Same BY <1>11
    <2> HIDE DEF Same
    <2>2. \A h \in 0..N : h \in Same BY <1>1, <1>10, <2>1, UpTo
    <2> QED BY <2>2, <1>1
  <1>13. Resolved(raw) = f[N] BY <1>9, <1>12
  <1> QED BY <1>5, <1>6, <1>13 DEF N, T

\* The expansion gives a value for every name.
LEMMA ExpansionType ==
  ASSUME NEW env \in Seq(Entries)
  PROVE  Expansion(env) \in [NamesIn(env) -> Seq(Parts)]
  <1>1. PICK level \in [0..MaxDepth -> [NamesIn(env) -> Seq(Parts)]] :
             Expansion(env) = level[MaxDepth]
    BY LevelsAre
  <1>2. MaxDepth \in 0..MaxDepth BY EnvironmentDepth
  <1> QED BY <1>1, <1>2

\* What Acyclic says exists.
Ranked(raw, rank) ==
  /\ rank \in [DOMAIN raw -> 1..MaxDepth]
  /\ \A n \in DOMAIN raw : \A p \in Mentions(raw, n) : rank[p] < rank[n]

\* The values R are the ones raw says, all references replaced.
Final(raw, R) ==
  /\ DOMAIN R = DOMAIN raw
  /\ \A n \in DOMAIN raw : R[n] \in Seq(Texts) /\ R[n] = Substituted(raw[n], R)

\* The variables a value refers to have smaller ranks.
LEMMA RankOfReference ==
  ASSUME NEW raw, NEW rank, Ranked(raw, rank), NEW n \in DOMAIN raw, raw[n] \in Seq(Parts),
         NEW k \in 1..Len(raw[n]), raw[n][k] \in DOMAIN raw
  PROVE  rank[raw[n][k]] < rank[n] /\ rank[raw[n][k]] \in Nat /\ rank[n] \in 1..MaxDepth
  <1>1. DOMAIN raw[n] = 1..Len(raw[n]) OBVIOUS
  <1>2. raw[n][k] \in Mentions(raw, n) BY <1>1 DEF Mentions
  <1> QED BY <1>2 DEF Ranked

\* Without cycles and long chains what is resolved without a limit is final: a variable of
\* rank h is settled from level h on.
LEMMA ResolvedFinal ==
  ASSUME NEW raw, \A n \in DOMAIN raw : raw[n] \in Seq(Parts), raw = [n \in DOMAIN raw |-> raw[n]],
         NEW rank, Ranked(raw, rank)
  PROVE  Final(raw, Resolved(raw))
  <1> DEFINE D == DOMAIN raw
             N == MaxDepth
  <1>1. N \in Nat /\ N >= 1 BY EnvironmentDepth
  <1>2. DOMAIN raw = D /\ \A n \in D : raw[n] \in Seq(Parts) OBVIOUS
  <1>3. PICK level \in [0..N -> [D -> Seq(Parts)]] :
             /\ Resolved(raw) = level[N]
             /\ \A h \in 1..N : level[h] = ResolvedAbove(raw, level[h - 1])
    BY ResolvedLevels
  <1>4. rank \in [D -> 1..N] BY <1>2 DEF Ranked
  <1>5. ASSUME NEW h \in 1..N, NEW n \in D
        PROVE  level[h][n] = Substituted(raw[n], level[h - 1])
    <2>1. level[h] = ResolvedAbove(raw, level[h - 1]) BY <1>3
    <2>2. level[h][n] = Substituted(raw[n], level[h - 1]) BY <2>1 DEF ResolvedAbove
    <2> QED BY <1>2, <2>2
  <1>6. \A h \in 0..N : DOMAIN level[h] = D BY <1>3
  <1> HIDE DEF D, N
  <1> DEFINE Settled(h) == \A n \in D : rank[n] <= h =>
               level[h][n] \in Seq(Texts) /\ (h < N => level[h + 1][n] = level[h][n])
             Good == {h \in 0..N : Settled(h)}
  <1>7. 0 \in Good
    <2>1. \A n \in D : ~(rank[n] <= 0) BY <1>1, <1>4
    <2> QED BY <1>1, <2>1
  <1>8. ASSUME NEW h \in 0..(N - 1), h \in Good PROVE h + 1 \in Good
    <2>1. h + 1 \in 1..N /\ h + 1 \in 0..N /\ (h + 1) - 1 = h /\ h < N /\ h \in 0..N
      BY <1>1
    <2>2. ASSUME NEW n \in D, rank[n] <= h + 1
          PROVE  /\ level[h + 1][n] \in Seq(Texts)
                 /\ h + 1 < N => level[(h + 1) + 1][n] = level[h + 1][n]
      <3>1. \A k \in 1..Len(raw[n]) : raw[n][k] \in D =>
              rank[raw[n][k]] <= h /\ level[h][raw[n][k]] \in Seq(Texts)
                /\ level[h + 1][raw[n][k]] = level[h][raw[n][k]]
        <4> SUFFICES ASSUME NEW k \in 1..Len(raw[n]), raw[n][k] \in D
                     PROVE  /\ rank[raw[n][k]] <= h /\ level[h][raw[n][k]] \in Seq(Texts)
                            /\ level[h + 1][raw[n][k]] = level[h][raw[n][k]]
          OBVIOUS
        <4>1. /\ rank[raw[n][k]] < rank[n] /\ rank[raw[n][k]] \in Nat
              /\ rank[n] \in 1..MaxDepth
          <5>1. Ranked(raw, rank) OBVIOUS
          <5>2. raw[n] \in Seq(Parts) /\ n \in DOMAIN raw /\ raw[n][k] \in DOMAIN raw
            BY <1>2 DEF D
          <5> QED BY <5>1, <5>2, RankOfReference
        <4>2. rank[raw[n][k]] <= h
          <5> DEFINE a == rank[raw[n][k]]
                     b == rank[n]
          <5>1. a < b /\ a \in Nat /\ b \in Nat /\ b <= h + 1 /\ h \in Nat BY <4>1, <2>1, <2>2
          <5> HIDE DEF a, b
          <5>2. a <= h BY <5>1
          <5> QED BY <5>2 DEF a
        <4>3. Settled(h) BY <1>8
        <4> QED BY <2>1, <4>2, <4>3
      <3>2. level[h + 1][n] = Substituted(raw[n], level[h]) BY <1>5, <2>1
      <3>3. raw[n] \in Seq(Parts) BY <1>2 DEF D
      <3>4. level[h + 1][n] \in Seq(Texts)
        <4>1. \A k \in 1..Len(raw[n]) : raw[n][k] \in Names /\ raw[n][k] \in DOMAIN level[h] =>
                level[h][raw[n][k]] \in Seq(Texts)
          BY <1>6, <2>1, <3>1
        <4>2. Substituted(raw[n], level[h]) \in Seq(Texts) BY <3>3, <4>1, SubstitutedType
        <4> QED BY <3>2, <4>2
      <3>5. ASSUME h + 1 < N PROVE level[(h + 1) + 1][n] = level[h + 1][n]
        <4>1. (h + 1) + 1 \in 1..N /\ ((h + 1) + 1) - 1 = h + 1 BY <1>1, <2>1, <3>5
        <4>2. level[(h + 1) + 1][n] = Substituted(raw[n], level[h + 1]) BY <1>5, <4>1
        <4>3. DOMAIN level[h + 1] = DOMAIN level[h] /\ DOMAIN level[h] = D BY <1>6, <2>1
        <4>4. Substituted(raw[n], level[h + 1]) = Substituted(raw[n], level[h])
          <5>1. \A k \in 1..Len(raw[n]) : raw[n][k] \in DOMAIN level[h + 1] =>
                  level[h + 1][raw[n][k]] = level[h][raw[n][k]]
            BY <3>1, <4>3
          <5> QED BY <4>3, <5>1, SubstitutedSame
        <4> QED BY <3>2, <4>2, <4>4
      <3> QED BY <3>4, <3>5
    <2>3. Settled(h + 1) BY <2>2
    <2> HIDE DEF Settled
    <2> QED BY <2>1, <2>3
  <1>9. \A h \in 0..N : Settled(h)
    <2>1. \A h \in 0..(N - 1) : h \in Good => h + 1 \in Good BY <1>8
    <2> HIDE DEF Settled
    <2>2. Good = {h \in 0..N : Settled(h)} OBVIOUS
    <2> HIDE DEF Good
    <2>3. \A h \in 0..N : h \in Good BY <1>1, <1>7, <2>1, UpTo
    <2> QED BY <2>2, <2>3
  <1> DEFINE R == level[N]
  <1>10. DOMAIN R = D BY <1>1, <1>6
  <1>11. ASSUME NEW n \in D PROVE R[n] \in Seq(Texts) /\ R[n] = Substituted(raw[n], R)
    <2>1. N \in 0..N /\ N \in 1..N /\ N - 1 \in 0..N /\ (N - 1) + 1 = N /\ N - 1 < N
      BY <1>1
    <2>2. rank[n] <= N BY <1>1, <1>4
    <2>3. R[n] \in Seq(Texts) BY <1>9, <2>1, <2>2
    <2>4. R[n] = Substituted(raw[n], level[N - 1]) BY <1>5, <2>1
    <2>5. \A k \in 1..Len(raw[n]) : raw[n][k] \in D =>
            level[N - 1][raw[n][k]] = R[raw[n][k]]
      <3> SUFFICES ASSUME NEW k \in 1..Len(raw[n]), raw[n][k] \in D
                   PROVE  level[N - 1][raw[n][k]] = R[raw[n][k]]
        OBVIOUS
      <3>1. Ranked(raw, rank) OBVIOUS
      <3>2. raw[n] \in Seq(Parts) /\ n \in DOMAIN raw /\ raw[n][k] \in DOMAIN raw
        BY <1>2 DEF D
      <3>3. rank[raw[n][k]] < rank[n] /\ rank[raw[n][k]] \in Nat /\ rank[n] \in 1..MaxDepth
        BY <3>1, <3>2, RankOfReference
      <3>4. rank[raw[n][k]] <= N - 1
        <4> DEFINE a == rank[raw[n][k]]
                   b == rank[n]
        <4>1. a < b /\ a \in Nat /\ b \in Nat /\ b <= N BY <2>2, <3>3
        <4> HIDE DEF a, b
        <4>2. a <= N - 1 BY <1>1, <4>1
        <4> QED BY <4>2 DEF a
      <3>5. Settled(N - 1) BY <1>9, <2>1
      <3>6. level[(N - 1) + 1][raw[n][k]] = level[N - 1][raw[n][k]] BY <2>1, <3>4, <3>5
      <3> QED BY <2>1, <3>6
    <2>6. DOMAIN level[N - 1] = DOMAIN R /\ DOMAIN R = D BY <1>6, <2>1
    <2>7. Substituted(raw[n], level[N - 1]) = Substituted(raw[n], R)
      <3> HIDE DEF R
      <3>1. \A k \in 1..Len(raw[n]) : raw[n][k] \in DOMAIN level[N - 1] =>
              level[N - 1][raw[n][k]] = R[raw[n][k]]
        BY <2>5, <2>6
      <3> QED BY <2>6, <3>1, SubstitutedSame
    <2> QED BY <2>3, <2>4, <2>7
  <1>12. Resolved(raw) = R BY <1>3
  <1> HIDE DEF R
  <1> QED BY <1>2, <1>10, <1>11, <1>12 DEF Final, D

\* While some variables have their final values and the others still have their raw ones,
\* every variable expands to its final value.
LEMMA ExpandsToFinal ==
  ASSUME NEW env \in Seq(Entries), NEW raw, NEW R, NEW rank, Ranked(raw, rank), Final(raw, R),
         DOMAIN raw = NamesIn(env), \A n \in DOMAIN raw : raw[n] \in Seq(Parts),
         \A n \in DOMAIN raw : Len(R[n]) < MaxLen,
         \A n \in DOMAIN raw : Value(env, n) = raw[n] \/ Value(env, n) = R[n]
  PROVE  \A n \in DOMAIN raw : Expansion(env)[n] = R[n]
  <1> DEFINE D == NamesIn(env)
             N == MaxDepth
  <1>1. N \in Nat /\ N >= 1 BY EnvironmentDepth
  <1>2. PICK level \in [0..N -> [D -> Seq(Parts)]] :
             /\ Expansion(env) = level[N]
             /\ \A h \in 1..N : level[h] = LevelAbove(env, level[h - 1])
    BY LevelsAre
  <1>3. rank \in [D -> 1..N] BY DEF Ranked
  <1>4. \A h \in 0..N : DOMAIN level[h] = D BY <1>2
  <1>5. ASSUME NEW h \in 1..N, NEW n \in D
        PROVE  level[h][n] = Expanded(Value(env, n), level[h - 1])
    <2>1. level[h] = LevelAbove(env, level[h - 1]) BY <1>2
    <2> QED BY <2>1 DEF LevelAbove
  <1>6. DOMAIN R = D /\ \A n \in D : R[n] \in Seq(Texts) /\ R[n] = Substituted(raw[n], R)
    BY DEF Final
  <1>7. DOMAIN raw = D OBVIOUS
  <1> HIDE DEF D, N
  <1> DEFINE Settled(h) == \A n \in D : rank[n] <= h => level[h][n] = R[n]
             Good == {h \in 0..N : Settled(h)}
  <1>8. 0 \in Good
    <2>1. \A n \in D : ~(rank[n] <= 0) BY <1>1, <1>3
    <2> QED BY <1>1, <2>1
  <1>9. ASSUME NEW h \in 0..(N - 1), h \in Good PROVE h + 1 \in Good
    <2>1. h + 1 \in 1..N /\ h + 1 \in 0..N /\ (h + 1) - 1 = h /\ h \in 0..N BY <1>1
    <2>2. ASSUME NEW n \in D, rank[n] <= h + 1 PROVE level[h + 1][n] = R[n]
      <3>1. level[h + 1][n] = Expanded(Value(env, n), level[h]) BY <1>5, <2>1
      <3>4. Len(R[n]) < MaxLen BY <1>7
      <3>2. CASE Value(env, n) = R[n]
        <4>1. Substituted(R[n], level[h]) = R[n] BY <1>6, SubstitutedText
        <4> QED BY <3>1, <3>2, <3>4, <4>1 DEF Expanded
      <3>3. CASE Value(env, n) = raw[n]
        <4>1. ASSUME NEW k \in 1..Len(raw[n]), raw[n][k] \in D
              PROVE  level[h][raw[n][k]] = R[raw[n][k]]
          <5>1. n \in DOMAIN raw /\ raw[n][k] \in DOMAIN raw /\ raw[n] \in Seq(Parts)
            BY <1>7, <4>1
          <5> DEFINE a == rank[raw[n][k]]
                     b == rank[n]
          <5>2. a < b /\ a \in Nat /\ b \in 1..MaxDepth BY <5>1, RankOfReference
          <5>3. b <= h + 1 /\ h \in Nat BY <2>1, <2>2
          <5> HIDE DEF a, b
          <5>4. a <= h BY <5>2, <5>3
          <5>5. Settled(h) BY <1>9
          <5> QED BY <4>1, <5>4, <5>5 DEF a
        <4>2. DOMAIN level[h] = D BY <1>4, <2>1
        <4>3. Substituted(raw[n], level[h]) = Substituted(raw[n], R)
          <5>1. \A k \in 1..Len(raw[n]) : raw[n][k] \in DOMAIN level[h] =>
                  level[h][raw[n][k]] = R[raw[n][k]]
            BY <4>1, <4>2
          <5>2. DOMAIN level[h] = DOMAIN R BY <1>6, <4>2
          <5> HIDE DEF Settled, Good
          <5> QED BY <5>1, <5>2, SubstitutedSame
        <4> QED BY <1>6, <3>1, <3>3, <3>4, <4>3 DEF Expanded
      <3> QED BY <1>7, <3>2, <3>3
    <2>3. Settled(h + 1) BY <2>2
    <2> HIDE DEF Settled
    <2> QED BY <2>1, <2>3
  <1>10. N \in Good
    <2>1. \A h \in 0..(N - 1) : h \in Good => h + 1 \in Good BY <1>9
    <2> HIDE DEF Good
    <2>2. \A h \in 0..N : h \in Good BY <1>1, <1>8, <2>1, UpTo
    <2> QED BY <1>1, <2>2
  <1>11. \A n \in D : rank[n] <= N BY <1>1, <1>3
  <1> QED BY <1>2, <1>7, <1>10, <1>11

\* The arrays with the names of env at the same places.
SameNames(env) ==
  {e \in Seq(Entries) : Len(e) = Len(env) /\ \A k \in DOMAIN env : e[k].name = env[k].name}

\* Such an array has the same names, and each of them once if env has.
LEMMA SameNamesKeep ==
  ASSUME NEW env \in Arrays, NEW e \in SameNames(env)
  PROVE  e \in Arrays /\ NamesIn(e) = NamesIn(env) /\ DOMAIN e = DOMAIN env
  <1>1. env \in Seq(Entries) /\ e \in Seq(Entries) /\ Len(e) = Len(env) BY DEF Arrays, SameNames
  <1>2. DOMAIN e = DOMAIN env BY <1>1
  <1>3. \A k \in DOMAIN env : e[k].name = env[k].name BY DEF SameNames
  <1>4. Unique(e) BY <1>2, <1>3 DEF Unique, Arrays
  <1>5. NamesIn(e) = NamesIn(env) BY <1>2, <1>3 DEF NamesIn
  <1> QED BY <1>1, <1>2, <1>4, <1>5 DEF Arrays

\* A value without references is text.
LEMMA PlainIsText ==
  ASSUME NEW value \in Seq(Parts)
  PROVE  value \in Seq(Texts) <=> ~HasReference(value)
  <1>1. DOMAIN value = 1..Len(value) /\ \A j \in DOMAIN value : value[j] \in Parts OBVIOUS
  <1>2. ASSUME ~HasReference(value) PROVE value \in Seq(Texts)
    <2>1. \A j \in 1..Len(value) : value[j] \in Texts BY <1>1, <1>2 DEF HasReference, Parts
    <2>2. value \in [1..Len(value) -> Texts] BY <1>1, <2>1
    <2> QED BY <2>2, SeqDef
  <1>3. ASSUME value \in Seq(Texts) PROVE ~HasReference(value)
    <2>1. \A j \in DOMAIN value : value[j] \in Texts BY <1>1, <1>3
    <2> QED BY <2>1, EnvironmentNames DEF HasReference
  <1> QED BY <1>2, <1>3

\* Expanding one entry changes its value only.
LEMMA ExpandAtIs ==
  ASSUME NEW env \in Seq(Entries), NEW e \in SameNames(env), NEW k \in 1..Len(env)
  PROVE  /\ ExpandAt(e, k) \in SameNames(env)
         /\ HasReference(e[k].value) => ExpandAt(e, k)[k].value = Expansion(e)[e[k].name]
         /\ ~HasReference(e[k].value) => ExpandAt(e, k) = e
         /\ \A j \in 1..Len(env) : j # k => ExpandAt(e, k)[j] = e[j]
  <1>0. CASE ~HasReference(e[k].value) BY <1>0 DEF ExpandAt
  <1> SUFFICES ASSUME HasReference(e[k].value)
               PROVE  /\ ExpandAt(e, k) \in SameNames(env)
                      /\ ExpandAt(e, k)[k].value = Expansion(e)[e[k].name]
                      /\ \A j \in 1..Len(env) : j # k => ExpandAt(e, k)[j] = e[j]
    BY <1>0
  <1> DEFINE v == Expansion(e)[e[k].name]
             x == [e[k] EXCEPT !.value = v]
             r == [e EXCEPT ![k] = x]
  <1>1. /\ e \in Seq(Entries) /\ Len(e) = Len(env) /\ DOMAIN e = 1..Len(env)
        /\ DOMAIN env = 1..Len(env)
    BY DEF SameNames
  <1>2. e[k] \in Entries /\ e[k].name \in NamesIn(e) BY <1>1 DEF NamesIn
  <1>3. v \in Seq(Parts) BY <1>1, <1>2, ExpansionType
  <1>4. ExpandAt(e, k) = r BY DEF ExpandAt
  <1> HIDE DEF v
  <1>5. x \in Entries /\ x.name = e[k].name /\ x.value = v BY <1>2, <1>3 DEF Entries
  <1> HIDE DEF x
  <1>6. /\ r \in Seq(Entries) /\ Len(r) = Len(env) /\ r[k] = x
        /\ \A j \in 1..Len(env) : j # k => r[j] = e[j]
    BY <1>1, <1>5, ExceptSeq
  <1> HIDE DEF r
  <1>7. \A j \in DOMAIN env : r[j].name = env[j].name
    <2>1. \A j \in DOMAIN env : e[j].name = env[j].name BY DEF SameNames
    <2> QED BY <1>1, <1>5, <1>6, <2>1
  <1>8. r \in SameNames(env) BY <1>6, <1>7 DEF SameNames
  <1> QED BY <1>4, <1>5, <1>6, <1>8 DEF v

\* expand_all_variables is its entries expanded one after the other.
LEMMA ExpandAllIs ==
  ASSUME NEW env \in Seq(Entries)
  PROVE  \E f \in [0..Len(env) -> SameNames(env)] :
           /\ f[0] = env /\ ExpandAll(env) = f[Len(env)]
           /\ \A k \in 1..Len(env) : f[k] = ExpandAt(f[k - 1], k)
  <1> DEFINE N == Len(env)
             T == SameNames(env)
             Rec(g) == [k \in 0..N |-> IF k = 0 THEN env ELSE ExpandAt(g[k - 1], k)]
             F == [k \in 1..N |-> [e \in T |-> ExpandAt(e, k)]]
             after == CHOOSE g : g = Rec(g)
  <1>1. N \in Nat OBVIOUS
  <1>2. env \in T BY DEF SameNames
  <1>3. F \in [1..N -> [T -> T]] BY ExpandAtIs
  <1>4. PICK f : Iterates(f, N, T, env, F)
    <2> HIDE DEF N, T, F
    <2> QED BY <1>1, <1>2, <1>3, RecursionExists
  <1>5. f \in [0..N -> T] /\ f[0] = env BY <1>4 DEF Iterates
  <1>6. ASSUME NEW k \in 1..N PROVE f[k] = ExpandAt(f[k - 1], k) /\ k - 1 \in 0..N
    <2>1. k - 1 \in 0..N BY <1>1
    <2>2. f[k - 1] \in T BY <2>1, <1>5
    <2>3. f[k] = F[k][f[k - 1]] BY <1>4 DEF Iterates
    <2>4. F[k][f[k - 1]] = ExpandAt(f[k - 1], k) BY <2>2
    <2> QED BY <2>1, <2>3, <2>4
  <1> HIDE DEF N, T, F
  <1>7. f = Rec(f) BY <1>1, <1>5, <1>6
  <1>8. after = Rec(after)
    <2> HIDE DEF Rec
    <2> QED BY <1>7
  <1>9. ExpandAll(env) = after[N] BY DEF ExpandAll, N
  <1> DEFINE Same == {k \in 0..N : after[k] = f[k]}
  <1> HIDE DEF after
  <1>10. 0 \in Same BY <1>1, <1>5, <1>8
  <1>11. ASSUME NEW k \in 0..(N - 1), k \in Same PROVE k + 1 \in Same
    <2>1. k + 1 \in 1..N /\ k + 1 \in 0..N /\ (k + 1) - 1 = k /\ k + 1 # 0 BY <1>1
    <2>2. after[k + 1] = ExpandAt(after[(k + 1) - 1], k + 1) BY <1>8, <2>1
    <2>3. f[k + 1] = ExpandAt(f[(k + 1) - 1], k + 1) BY <1>6, <2>1
    <2> QED BY <2>1, <2>2, <2>3, <1>11
  <1>12. N \in Same
    <2>1. \A k \in 0..(N - 1) : k \in Same => k + 1 \in Same BY <1>11
    <2> HIDE DEF Same
    <2>2. \A k \in 0..N : k \in Same BY <1>1, <1>10, <2>1, UpTo
    <2> QED BY <2>2, <1>1
  <1>13. ExpandAll(env) = f[N] BY <1>9, <1>12
  <1> QED BY <1>5, <1>6, <1>13 DEF N, T

\* Expanding all entries keeps the names, and the array an array.
LEMMA ExpandAllType ==
  ASSUME NEW env \in Arrays
  PROVE  /\ ExpandAll(env) \in Arrays /\ ExpandAll(env) \in SameNames(env)
         /\ NamesIn(ExpandAll(env)) = NamesIn(env)
  <1>1. env \in Seq(Entries) /\ Len(env) \in 0..Len(env) BY DEF Arrays
  <1>2. PICK f \in [0..Len(env) -> SameNames(env)] : ExpandAll(env) = f[Len(env)]
    BY <1>1, ExpandAllIs
  <1>3. ExpandAll(env) \in SameNames(env) BY <1>1, <1>2
  <1> QED BY <1>3, SameNamesKeep

\* A variable whose value has no references keeps its value.
LEMMA ExpandAllKeepsPlain ==
  ASSUME NEW env \in Arrays, NEW i \in DOMAIN env, env[i].value \in Seq(Texts)
  PROVE  ExpandAll(env)[i] = env[i]
  <1> DEFINE N == Len(env)
  <1>1. env \in Seq(Entries) /\ N \in Nat /\ DOMAIN env = 1..N BY DEF Arrays
  <1>2. PICK f \in [0..N -> SameNames(env)] :
             /\ f[0] = env /\ ExpandAll(env) = f[N]
             /\ \A k \in 1..N : f[k] = ExpandAt(f[k - 1], k)
    BY <1>1, ExpandAllIs
  <1> HIDE DEF N
  <1> DEFINE Good == {k \in 0..N : f[k][i] = env[i]}
  <1>3. 0 \in Good BY <1>1, <1>2
  <1>4. ASSUME NEW k \in 0..(N - 1), k \in Good PROVE k + 1 \in Good
    <2>1. k + 1 \in 1..N /\ k + 1 \in 0..N /\ (k + 1) - 1 = k /\ k \in 0..N BY <1>1
    <2> DEFINE e == f[k]
    <2>2. e \in SameNames(env) /\ f[k + 1] = ExpandAt(e, k + 1) BY <1>2, <2>1
    <2>3. e[i] = env[i] BY <1>4
    <2> HIDE DEF e
    <2>4. e \in Arrays /\ DOMAIN e = DOMAIN env BY <2>2, SameNamesKeep
    <2>5. ExpandAt(e, k + 1)[i] = e[i]
      <3>1. CASE i # k + 1
        <4>1. i \in 1..Len(env) /\ k + 1 \in 1..Len(env) BY <1>1, <2>1 DEF N
        <4>2. \A j \in 1..Len(env) : j # k + 1 => ExpandAt(e, k + 1)[j] = e[j]
          BY <1>1, <2>2, <4>1, ExpandAtIs
        <4> QED BY <3>1, <4>1, <4>2
      <3>2. CASE i = k + 1
        <4>1. e[i].value \in Seq(Texts) /\ e[i].value \in Seq(Parts)
          BY <1>1, <2>3, EntriesOf
        <4>2. ~HasReference(e[i].value) BY <4>1, PlainIsText
        <4>3. ExpandAt(e, i) = e BY <1>1, <2>2, <4>2, ExpandAtIs DEF N
        <4> QED BY <3>2, <4>3
      <3> QED BY <3>1, <3>2
    <2>6. f[k + 1][i] = env[i] BY <2>2, <2>3, <2>5
    <2> QED BY <2>1, <2>6
  <1>5. N \in Good
    <2>1. \A k \in 0..(N - 1) : k \in Good => k + 1 \in Good BY <1>4
    <2> HIDE DEF Good
    <2>2. \A k \in 0..N : k \in Good BY <1>1, <1>3, <2>1, UpTo
    <2> QED BY <1>1, <2>2
  <1> QED BY <1>2, <1>5

\* Without cycles and long chains every entry ends with its final value, although entries
\* are overwritten while others still refer to them.
LEMMA ExpandAllFinal ==
  ASSUME NEW env \in Arrays, NEW rank, Ranked(ValuesIn(env), rank), Fits(ValuesIn(env))
  PROVE  \A j \in DOMAIN env : ExpandAll(env)[j].value = Resolved(ValuesIn(env))[env[j].name]
  <1> DEFINE N == Len(env)
             raw == ValuesIn(env)
             R == Resolved(raw)
  <1>1. env \in Seq(Entries) /\ N \in Nat /\ DOMAIN env = 1..N BY DEF Arrays
  <1>2. PICK f \in [0..N -> SameNames(env)] :
             /\ f[0] = env /\ ExpandAll(env) = f[N]
             /\ \A k \in 1..N : f[k] = ExpandAt(f[k - 1], k)
    BY <1>1, ExpandAllIs
  <1>4. DOMAIN raw = NamesIn(env) /\ \A n \in DOMAIN raw : raw[n] \in Seq(Parts)
    BY <1>1, ValueType DEF ValuesIn
  <1>3. Final(raw, R)
    <2>1. raw = [n \in DOMAIN raw |-> raw[n]] BY DEF ValuesIn
    <2>2. Ranked(raw, rank) OBVIOUS
    <2> HIDE DEF raw
    <2> QED BY <1>4, <2>1, <2>2, ResolvedFinal
  <1>11. \A n \in DOMAIN raw : Len(R[n]) < MaxLen BY DEF Fits
  <1>5. \A j \in DOMAIN env : env[j].name \in DOMAIN raw /\ raw[env[j].name] = env[j].value
    BY <1>4, ValueIs DEF ValuesIn, NamesIn
  <1>6. Ranked(raw, rank) OBVIOUS
  <1> HIDE DEF N, raw, R
  <1> DEFINE Done(k) == \A j \in 1..N :
               f[k][j].value = IF j <= k THEN R[env[j].name] ELSE env[j].value
             Good == {k \in 0..N : Done(k)}
  <1>7. 0 \in Good
    <2>1. \A j \in 1..N : ~(j <= 0) BY <1>1
    <2> QED BY <1>1, <1>2, <2>1
  <1>8. ASSUME NEW k \in 0..(N - 1), k \in Good PROVE k + 1 \in Good
    <2>1. k + 1 \in 1..N /\ k + 1 \in 0..N /\ (k + 1) - 1 = k /\ k \in 0..N BY <1>1
    <2> DEFINE e == f[k]
               m == k + 1
    <2>2. e \in SameNames(env) /\ f[m] = ExpandAt(e, m) BY <1>2, <2>1
    <2>3. \A j \in 1..N : e[j].value = IF j <= k THEN R[env[j].name] ELSE env[j].value
      BY <1>8
    <2>4. /\ m \in 1..N /\ m \in 0..N /\ ~(m <= k)
          /\ \A j \in 1..N : j # m => (j <= m <=> j <= k)
      BY <2>1
    <2> HIDE DEF e, m
    <2>5. e \in Arrays /\ NamesIn(e) = NamesIn(env) /\ DOMAIN e = DOMAIN env
      BY <2>2, SameNamesKeep
    <2>6. \A j \in 1..N : e[j].name = env[j].name BY <1>1, <2>2 DEF SameNames
    <2>7. ASSUME NEW n \in DOMAIN raw PROVE Value(e, n) = raw[n] \/ Value(e, n) = R[n]
      <3>1. PICK j \in DOMAIN env : env[j].name = n BY <1>4 DEF NamesIn
      <3>2. e[j].name = n /\ Value(e, e[j].name) = e[j].value
        BY <1>1, <2>5, <2>6, <3>1, ValueIs
      <3>3. e[j].value = R[n] \/ e[j].value = raw[n] BY <1>1, <1>5, <2>3, <3>1
      <3> QED BY <3>2, <3>3
    <2>8. \A n \in DOMAIN raw : Expansion(e)[n] = R[n]
      <3>1. e \in Seq(Entries) /\ DOMAIN raw = NamesIn(e) BY <1>4, <2>5 DEF Arrays
      <3> QED BY <1>3, <1>4, <1>6, <1>11, <2>7, <3>1, ExpandsToFinal
    <2>9. /\ HasReference(e[m].value) => f[m][m].value = Expansion(e)[e[m].name]
          /\ ~HasReference(e[m].value) => f[m] = e
          /\ \A j \in 1..N : j # m => f[m][j] = e[j]
      BY <1>1, <2>2, <2>4, ExpandAtIs DEF N
    <2>10. f[m][m].value = R[env[m].name]
      <3>1. env[m].name \in DOMAIN raw /\ raw[env[m].name] = e[m].value /\ e[m].name = env[m].name
        BY <1>1, <1>5, <2>3, <2>4, <2>6
      <3>2. CASE HasReference(e[m].value) BY <2>8, <2>9, <3>1, <3>2
      <3>3. CASE ~HasReference(e[m].value)
        <4>1. e[m].value \in Seq(Texts) BY <1>4, <3>1, <3>3, PlainIsText
        <4>2. Substituted(e[m].value, R) = e[m].value BY <4>1, SubstitutedText
        <4>3. R[env[m].name] = Substituted(e[m].value, R) BY <1>3, <3>1 DEF Final
        <4> QED BY <2>9, <3>3, <4>2, <4>3
      <3> QED BY <3>2, <3>3
    <2>11. Done(m)
      <3> SUFFICES ASSUME NEW j \in 1..N
                   PROVE  f[m][j].value = IF j <= m THEN R[env[j].name] ELSE env[j].value
        OBVIOUS
      <3>1. CASE j = m
        <4>1. m <= m BY <2>1 DEF m
        <4> QED BY <3>1, <2>10, <4>1
      <3>2. CASE j # m BY <3>2, <2>3, <2>4, <2>9
      <3> QED BY <3>1, <3>2
    <2> HIDE DEF Done
    <2>12. m \in Good BY <2>4, <2>11
    <2> QED BY <2>12 DEF m
  <1>9. Done(N)
    <2>1. \A k \in 0..(N - 1) : k \in Good => k + 1 \in Good BY <1>8
    <2> HIDE DEF Done
    <2>2. \A k \in Good : Done(k) OBVIOUS
    <2> HIDE DEF Good
    <2>3. \A k \in 0..N : k \in Good BY <1>1, <1>7, <2>1, UpTo
    <2> QED BY <1>1, <2>2, <2>3
  <1>10. \A j \in 1..N : j <= N BY <1>1
  <1> QED BY <1>1, <1>2, <1>9, <1>10 DEF R, raw

\* What an array holds is what the last assignments say.
LEMMA MatchesRaw ==
  ASSUME NEW env, NEW all, Matches(env, all)
  PROVE  ValuesIn(env) = Raw(all)
  <1>1. env \in Arrays /\ env \in Seq(Entries) /\ all \in Seq(Entries) BY DEF Matches, Arrays
  <1>2. NamesIn(env) = NamesIn(all)
    <2>1. \A j \in DOMAIN env : env[j].name \in NamesIn(all) BY DEF Matches, NamesIn
    <2>2. \A k \in DOMAIN all : all[k].name \in NamesIn(env)
      <3> SUFFICES ASSUME NEW k \in DOMAIN all PROVE all[k].name \in NamesIn(env) OBVIOUS
      <3>1. PICK j \in DOMAIN env : env[j].name = all[k].name BY DEF Matches
      <3> QED BY <3>1 DEF NamesIn
    <2> QED BY <2>1, <2>2 DEF NamesIn
  <1>3. ASSUME NEW n \in NamesIn(env) PROVE Value(env, n) = all[LastOf(all, n)].value
    <2>1. PICK j \in DOMAIN env : env[j].name = n BY DEF NamesIn
    <2>2. Value(env, n) = env[j].value BY <1>1, <2>1, ValueIs
    <2>3. PICK k \in DOMAIN all : all[k] = env[j]
               /\ \A i \in DOMAIN all : i > k => all[i].name # env[j].name
      BY DEF Matches
    <2>4. \A i \in DOMAIN all : i \in Nat BY <1>1
    <2>5. all[k].name = n /\ \A i \in DOMAIN all : all[i].name = n => i <= k
      BY <2>1, <2>3, <2>4
    <2> DEFINE L == LastOf(all, n)
    <2>6. /\ L \in DOMAIN all /\ all[L].name = n
          /\ \A i \in DOMAIN all : all[i].name = n => i <= L
      BY <2>5 DEF LastOf
    <2> HIDE DEF L
    <2>7. L = k BY <2>4, <2>5, <2>6
    <2> QED BY <2>2, <2>3, <2>7 DEF L
  <1> QED BY <1>2, <1>3 DEF ValuesIn, Raw
-----------------------------------------------------------------------------
(* argo_loadenv. *)

\* What is kept is an array, and the files are what they are.
LEMMA FilesAre ==
  ASSUME EnvTypeOK
  PROVE  /\ Kept \in Arrays /\ files.system \in Contents \ {Missing}
         /\ files.home \in Contents /\ files.argorc \in Contents
         /\ \A d \in Dirs : files.project[d] \in Contents /\ files.local[d] \in Contents
         /\ files.found \in Dirs \cup {Missing}
         /\ files.user_config \in Configs
         /\ \A d \in Dirs : files.project_config[d] \in Configs
                            /\ files.workflow_config[d] \in Configs
  <1>1. files \in FileSystem BY EnvironmentFiles DEF EnvTypeOK
  <1>2. argo_env \in Arrays BY DEF EnvTypeOK, Arrays, Unique
  <1>3. Kept \in Arrays BY <1>2, EmptyArray DEF Kept
  <1> QED BY <1>1, <1>3 DEF FileSystem

\* The assignments before the project's files.
Before == Kept \o files.system \o Given(files.home) \o Given(files.argorc)

\* After the three files of the system and the home the array holds what they say.
LEMMA SystemAndHomeMatches ==
  ASSUME EnvTypeOK
  PROVE  Matches(SystemAndHome, Before)
  <1>1. Matches(Kept, Kept) BY FilesAre, MatchesItself
  <1>2. Matches(LoadFile(Kept, files.system), Kept \o Given(files.system))
    BY <1>1, FilesAre, LoadMatches
  <1>3. Given(files.system) = files.system BY FilesAre DEF Given
  <1> DEFINE a == LoadFile(Kept, files.system)
             b == Kept \o files.system
  <1>4. Matches(a, b) BY <1>2, <1>3
  <1> HIDE DEF a, b
  <1>5. Matches(LoadFile(a, files.home), b \o Given(files.home))
    BY <1>4, FilesAre, LoadMatches
  <1> DEFINE c == LoadFile(a, files.home)
             d == b \o Given(files.home)
  <1>6. Matches(c, d) BY <1>5
  <1> HIDE DEF c, d
  <1>7. Matches(LoadFile(c, files.argorc), d \o Given(files.argorc))
    BY <1>6, FilesAre, LoadMatches
  <1> QED BY <1>7 DEF SystemAndHome, Before, a, b, c, d

\* The directory is one of Dirs, or there is none.
LEMMA RootDirType ==
  ASSUME EnvTypeOK
  PROVE  RootDir \in Dirs \cup {Missing} /\ (~RootNamed => RootDir = files.found)
  <1>1. CASE ~RootNamed BY <1>1, FilesAre DEF RootDir
  <1>2. CASE RootNamed /\ \E d \in Dirs : Value(SystemAndHome, Root) = <<d>>
    <2>1. PICK d \in Dirs : Value(SystemAndHome, Root) = <<d>> BY <1>2
    <2>2. Head(<<d>>) = d OBVIOUS
    <2> QED BY <1>2, <2>1, <2>2 DEF RootDir
  <1>3. CASE RootNamed /\ ~\E d \in Dirs : Value(SystemAndHome, Root) = <<d>>
    BY <1>3 DEF RootDir
  <1> QED BY <1>1, <1>2, <1>3

\* ARGO_ROOT, set after the search, counts as one more assignment.
WithRootAssigned == Before \o (IF RootNamed THEN <<>> ELSE <<EnvEntry(Root, <<RootDir>>)>>)

\* With it the array holds what has been assigned up to the project's files.
LEMMA WithRootMatches ==
  ASSUME EnvTypeOK, RootDir # Missing
  PROVE  Matches(WithRoot, WithRootAssigned)
  <1>1. Matches(SystemAndHome, Before) BY SystemAndHomeMatches
  <1>2. Before \in Seq(Entries) BY <1>1 DEF Matches
  <1>3. CASE RootNamed
    <2>1. Before \o <<>> = Before BY <1>2, ConcatEmptySeq
    <2> QED BY <1>1, <1>3, <2>1 DEF WithRoot, WithRootAssigned
  <1>4. CASE ~RootNamed
    <2> DEFINE x == EnvEntry(Root, <<RootDir>>)
    <2>1. RootDir = files.found /\ RootDir \in Dirs BY <1>4, RootDirType
    <2>2. x \in Entries
      <3>1. RootDir \in Parts BY <2>1, EnvironmentDirs DEF Parts
      <3>2. <<RootDir>> \in Seq(Parts) BY <3>1
      <3> QED BY <3>2, EnvironmentNames DEF Entries, EnvEntry
    <2> HIDE DEF x
    <2>3. Matches(SetInternal(SystemAndHome, x), Append(Before, x)) BY <1>1, <2>2, SetMatches
    <2>4. Append(Before, x) = Before \o <<x>> BY <1>2, <2>2
    <2>5. WithRoot = SetInternal(SystemAndHome, x) BY <1>4, <2>1 DEF WithRoot, x
    <2>6. WithRootAssigned = Before \o <<x>> BY <1>4 DEF WithRootAssigned, x
    <2> QED BY <2>3, <2>4, <2>5, <2>6
  <1> QED BY <1>3, <1>4

\* When the load succeeds, the array before the expansion holds what all sources say.
LEMMA SourcesMatch ==
  ASSUME EnvTypeOK, CanLoad
  PROVE  RootDir \in Dirs /\ Matches(ProjectAndLocal, Assignments(RootDir))
  <1>1. RootDir \in Dirs BY RootDirType DEF CanLoad
  <1>2. Matches(WithRoot, WithRootAssigned) BY WithRootMatches DEF CanLoad
  <1> DEFINE p == files.project[RootDir]
             l == files.local[RootDir]
             a == LoadFile(WithRoot, p)
             b == WithRootAssigned \o Given(p)
  <1>3. p \in Contents /\ l \in Contents BY <1>1, FilesAre
  <1>4. Matches(a, b) BY <1>2, <1>3, LoadMatches
  <1> HIDE DEF a, b
  <1>5. Matches(LoadFile(a, l), b \o Given(l)) BY <1>3, <1>4, LoadMatches
  <1>6. Assignments(RootDir) = b \o Given(l) BY DEF Assignments, b, WithRootAssigned, Before
  <1>7. ProjectAndLocal = LoadFile(a, l) BY DEF ProjectAndLocal, a
  <1> QED BY <1>1, <1>5, <1>6, <1>7

\* argo_loadenv leaves an array, whether it succeeds or not.
LEMMA LoadedType ==
  ASSUME EnvTypeOK
  PROVE  Loaded \in Arrays
  <1>1. CASE CanLoad
    <2>1. ProjectAndLocal \in Arrays BY <1>1, SourcesMatch DEF Matches
    <2> QED BY <1>1, <2>1, ExpandAllType DEF Loaded
  <1>2. CASE ~CanLoad /\ RootDir = Missing
    BY <1>2, SystemAndHomeMatches DEF Loaded, Matches
  <1>3. CASE ~CanLoad /\ RootDir # Missing
    BY <1>3, WithRootMatches DEF Loaded, Matches
  <1> QED BY <1>1, <1>2, <1>3

\* Taking an entry out keeps the array an array.
LEMMA RemoveAtType ==
  ASSUME NEW env \in Arrays, NEW i \in DOMAIN env
  PROVE  RemoveAt(env, i) \in Arrays
  <1> DEFINE L == Len(env)
             before == SubSeq(env, 1, i - 1)
             after == SubSeq(env, i + 1, L)
             r == RemoveAt(env, i)
  <1>1. env \in Seq(Entries) /\ L \in Nat /\ DOMAIN env = 1..L /\ i \in 1..L BY DEF Arrays
  <1>2. before \in Seq(Entries) /\ after \in Seq(Entries) BY <1>1
  <1>3. Len(before) = i - 1 /\ Len(after) = L - i BY <1>1
  <1>4. \A j \in 1..(i - 1) : before[j] = env[j] BY <1>1
  <1>5. \A j \in 1..(L - i) : after[j] = env[j + i] BY <1>1
  <1>6. r = before \o after BY DEF RemoveAt
  <1> HIDE DEF before, after, r, L
  <1>7. r \in Seq(Entries) /\ Len(r) = L - 1
    <2>1. r \in Seq(Entries) /\ Len(r) = Len(before) + Len(after)
      BY <1>2, <1>6, ConcatProperties
    <2>2. (i - 1) + (L - i) = L - 1 BY <1>1
    <2> QED BY <1>3, <2>1, <2>2
  <1>8. ASSUME NEW j \in 1..(L - 1) PROVE r[j] = IF j < i THEN env[j] ELSE env[j + 1]
    <2>1. r[j] = IF j <= Len(before) THEN before[j] ELSE after[j - Len(before)]
      BY <1>1, <1>2, <1>3, <1>6
    <2>2. CASE j < i BY <1>1, <1>3, <1>4, <2>1, <2>2
    <2>3. CASE ~(j < i)
      <3>1. j - (i - 1) \in 1..(L - i) /\ (j - (i - 1)) + i = j + 1 /\ ~(j <= i - 1)
        BY <1>1, <2>3
      <3>2. after[j - (i - 1)] = env[j + 1] BY <1>5, <3>1
      <3> QED BY <1>3, <2>1, <2>3, <3>1, <3>2
    <2> QED BY <2>2, <2>3
  <1>9. DOMAIN r = 1..(L - 1) BY <1>1, <1>7
  <1> DEFINE from(j) == IF j < i THEN j ELSE j + 1
  <1>10. \A j \in DOMAIN r : from(j) \in DOMAIN env /\ r[j] = env[from(j)] BY <1>1, <1>8, <1>9
  <1>11. \A j, k \in DOMAIN r : from(j) = from(k) => j = k BY <1>1, <1>9
  <1>12. Unique(r)
    <2> HIDE DEF from
    <2> QED BY <1>10, <1>11 DEF Unique, Arrays
  <1> QED BY <1>7, <1>12 DEF Arrays, r

\* An assignment by argo_setenv keeps the array an array.
LEMMA SetType ==
  ASSUME NEW env \in Arrays, NEW e \in Entries
  PROVE  SetInternal(env, e) \in Arrays
  BY MatchesItself, SetMatches DEF Matches

\* The configuration is one of Configs.
LEMMA ConfigType ==
  ASSUME EnvTypeOK, NEW env
  PROVE  ConfigLoaded(env) \in Configs
  <1>1. ConfigDir(env) \in Dirs \cup {Missing}
    <2>1. CASE Defined(env, Root) /\ \E d \in Dirs : Value(env, Root) = <<d>>
      <3>1. PICK d \in Dirs : Value(env, Root) = <<d>> BY <2>1
      <3>2. Head(<<d>>) = d OBVIOUS
      <3> QED BY <2>1, <3>1, <3>2 DEF ConfigDir
    <2>2. CASE ~(Defined(env, Root) /\ \E d \in Dirs : Value(env, Root) = <<d>>)
      BY <2>2 DEF ConfigDir
    <2> QED BY <2>1, <2>2
  <1>2. CASE ConfigDir(env) = Missing BY <1>2, FilesAre DEF ConfigLoaded
  <1>3. CASE ConfigDir(env) # Missing
    <2>1. ConfigDir(env) \in Dirs BY <1>1, <1>3
    <2>2. /\ files.user_config \in Configs /\ files.project_config[ConfigDir(env)] \in Configs
          /\ files.workflow_config[ConfigDir(env)] \in Configs
      BY <2>1, FilesAre
    <2> QED BY <1>3, <2>2 DEF ConfigLoaded, Override
  <1> QED BY <1>2, <1>3

\* The type invariant with the array in one piece.
LEMMA EnvTypeIs ==
  EnvTypeOK <=> /\ files \in Worlds /\ edits \in 0..MaxEdits /\ argo_env \in Arrays
                /\ argo_env_initialized \in BOOLEAN /\ config_initialized \in BOOLEAN
                /\ config \in Configs /\ url \in Ports \cup {DefaultPort, Missing}
  BY DEF EnvTypeOK, Arrays, Unique

\* Each function keeps the type invariant.
LEMMA EnvStepType ==
  ASSUME EnvTypeOK, [EnvNext]_EnvVars
  PROVE  EnvTypeOK'
  <1>1. /\ files \in Worlds /\ edits \in 0..MaxEdits /\ argo_env \in Arrays
        /\ argo_env_initialized \in BOOLEAN /\ config_initialized \in BOOLEAN
        /\ config \in Configs /\ url \in Ports \cup {DefaultPort, Missing}
    BY EnvTypeIs
  <1> DEFINE Target == /\ files' \in Worlds /\ edits' \in 0..MaxEdits /\ argo_env' \in Arrays
                       /\ argo_env_initialized' \in BOOLEAN /\ config_initialized' \in BOOLEAN
                       /\ config' \in Configs /\ url' \in Ports \cup {DefaultPort, Missing}
  <1> SUFFICES Target
    BY DEF EnvTypeOK, Arrays, Unique
  <1> USE DEF env_vars, config_vars
  <1>2. CASE UNCHANGED EnvVars BY <1>1, <1>2 DEF EnvVars
  <1>3. CASE LoadEnv
    <2>1. Loaded \in Arrays BY LoadedType
    <2>2. (argo_env_initialized \/ CanLoad) \in BOOLEAN OBVIOUS
    <2> QED BY <1>1, <1>3, <2>1, <2>2 DEF LoadEnv
  <1>4. CASE ClearEnv BY <1>1, <1>4, EmptyArray DEF ClearEnv
  <1>5. CASE FreeEnv BY <1>1, <1>5, EmptyArray DEF FreeEnv
  <1>6. CASE ConfigReload BY <1>1, <1>6, ConfigType DEF ConfigReload
  <1>7. CASE ArgoInit
    <2>1. CASE CanLoad
      <3>1. Loaded \in Arrays /\ ConfigLoaded(Loaded) \in Configs BY LoadedType, ConfigType
      <3> QED BY <1>1, <1>7, <2>1, <3>1 DEF ArgoInit, Configure
    <2>2. CASE ~CanLoad
      BY <1>1, <1>7, <2>2, EmptyArray, EnvironmentValues DEF ArgoInit, ConfigCleanup
    <2> QED BY <2>1, <2>2
  <1>8. CASE ArgoExit BY <1>1, <1>8, EmptyArray, EnvironmentValues DEF ArgoExit, ConfigCleanup
  <1>9. CASE GetDaemonUrl
    <2>1. GetDaemonPort \in Ports \cup {DefaultPort}
      <3>1. CASE Defined(argo_env, Port) /\ \E p \in Ports : Value(argo_env, Port) = <<p>>
        <4>1. PICK p \in Ports : Value(argo_env, Port) = <<p>> BY <3>1
        <4>2. Head(<<p>>) = p OBVIOUS
        <4> QED BY <3>1, <4>1, <4>2 DEF GetDaemonPort
      <3>2. CASE ~(Defined(argo_env, Port) /\ \E p \in Ports : Value(argo_env, Port) = <<p>>)
        BY <3>2 DEF GetDaemonPort
      <3> QED BY <3>1, <3>2
    <2> QED BY <1>1, <1>9, <2>1 DEF GetDaemonUrl
  <1>10. CASE Edit
    <2>1. files' \in Worlds BY <1>10 DEF Edit
    <2>2. edits' \in 0..MaxEdits BY <1>1, <1>10, EnvironmentDepth DEF Edit
    <2> QED BY <1>1, <1>10, <2>1, <2>2 DEF Edit
  <1>11. ASSUME NEW n \in Names, UnsetEnv(n) PROVE Target
    <2>1. Index(argo_env, n) \in DOMAIN argo_env BY <1>11, IndexIs DEF UnsetEnv
    <2>2. RemoveAt(argo_env, Index(argo_env, n)) \in Arrays BY <1>1, <2>1, RemoveAtType
    <2> QED BY <1>1, <1>11, <2>2 DEF UnsetEnv
  <1>12. ASSUME NEW n \in Names, NEW v \in SetValues, SetEnv(n, v) PROVE Target
    <2>1. EnvEntry(n, v) \in Entries BY EnvironmentValues DEF EnvEntry, Entries
    <2>2. SetInternal(argo_env, EnvEntry(n, v)) \in Arrays BY <1>1, <2>1, SetType
    <2> QED BY <1>1, <1>12, <2>2 DEF SetEnv
  <1> HIDE DEF Target
  <1> QED BY <1>2, <1>3, <1>4, <1>5, <1>6, <1>7, <1>8, <1>9, <1>10, <1>11, <1>12 DEF EnvNext

\* No name is ever twice in argo_env, whatever the files hold and in whatever order
\* argo_loadenv, argo_setenv, argo_unsetenv and the others are called; every value is a
\* sequence of texts and references, and the address is a port number.
THEOREM EnvTypeCorrect == EnvSpec => []EnvTypeOK
  <1>1. EnvInit => EnvTypeOK
    <2> SUFFICES ASSUME EnvInit PROVE EnvTypeOK OBVIOUS
    <2>1. 0 \in 0..MaxEdits BY EnvironmentDepth
    <2> QED BY <2>1, EnvTypeIs, EmptyArray, EnvironmentValues DEF EnvInit
  <1>2. EnvTypeOK /\ [EnvNext]_EnvVars => EnvTypeOK' BY EnvStepType
  <1> QED BY <1>1, <1>2, PTL DEF EnvSpec
-----------------------------------------------------------------------------
(* What a successful load gives. *)

\* Every variable has the value its last source gives it, references replaced by the values
\* of the same environment.
LEMMA LoadedIsRight ==
  ASSUME EnvTypeOK, CanLoad, Acyclic(Raw(Assignments(RootDir))), Fits(Raw(Assignments(RootDir)))
  PROVE  LET raw == Raw(Assignments(RootDir)) IN
         /\ NamesIn(Loaded) = DOMAIN raw
         /\ \A n \in DOMAIN raw : /\ Value(Loaded, n) = Substituted(raw[n], ValuesIn(Loaded))
                                  /\ Value(Loaded, n) \in Seq(Texts)
  <1> DEFINE raw == Raw(Assignments(RootDir))
             env == ProjectAndLocal
             R == Resolved(raw)
  <1>1. Matches(env, Assignments(RootDir)) BY SourcesMatch
  <1>2. env \in Arrays /\ env \in Seq(Entries) BY <1>1 DEF Matches, Arrays
  <1>3. ValuesIn(env) = raw BY <1>1, MatchesRaw
  <1>4. PICK rank : Ranked(raw, rank) BY DEF Acyclic, Ranked
  <1>5. Loaded = ExpandAll(env) BY DEF Loaded
  <1>16. Fits(raw) OBVIOUS
  <1> HIDE DEF raw, env, R
  <1>6. Final(raw, R)
    <2>1. raw = [n \in DOMAIN raw |-> raw[n]] BY <1>3 DEF ValuesIn
    <2>2. \A n \in DOMAIN raw : raw[n] \in Seq(Parts) BY <1>2, <1>3, ValueType DEF ValuesIn
    <2> QED BY <1>4, <2>1, <2>2, ResolvedFinal DEF R
  <1>7. \A j \in DOMAIN env : Loaded[j].value = R[env[j].name]
    BY <1>2, <1>3, <1>4, <1>5, <1>16, ExpandAllFinal DEF R
  <1>8. Loaded \in Arrays /\ Loaded \in SameNames(env) /\ NamesIn(Loaded) = NamesIn(env)
    BY <1>2, <1>5, ExpandAllType
  <1>9. DOMAIN raw = NamesIn(env) BY <1>3 DEF ValuesIn
  <1>10. DOMAIN Loaded = DOMAIN env BY <1>2, <1>8, SameNamesKeep
  <1>11. ASSUME NEW n \in DOMAIN raw PROVE Value(Loaded, n) = R[n]
    <2>1. PICK j \in DOMAIN env : env[j].name = n BY <1>9 DEF NamesIn
    <2>2. Loaded[j].name = n BY <1>8, <2>1 DEF SameNames
    <2>3. Value(Loaded, Loaded[j].name) = Loaded[j].value BY <1>8, <1>10, ValueIs
    <2> QED BY <1>7, <2>1, <2>2, <2>3
  <1>12. DOMAIN ValuesIn(Loaded) = DOMAIN raw /\ \A n \in DOMAIN raw : ValuesIn(Loaded)[n] = R[n]
    BY <1>8, <1>9, <1>11 DEF ValuesIn
  <1>13. ASSUME NEW n \in DOMAIN raw
         PROVE  Substituted(raw[n], ValuesIn(Loaded)) = Substituted(raw[n], R)
    <2>1. DOMAIN R = DOMAIN raw BY <1>6 DEF Final
    <2> QED BY <1>12, <2>1, SubstitutedSame
  <1>14. \A n \in DOMAIN raw : R[n] \in Seq(Texts) /\ R[n] = Substituted(raw[n], R)
    BY <1>6 DEF Final
  <1>15. NamesIn(Loaded) = DOMAIN raw BY <1>8, <1>9
  <1> QED BY <1>11, <1>13, <1>14, <1>15 DEF raw

\* However the sources override and refer to each other, and wherever in the array their
\* variables stand when expand_all_variables overwrites them one by one, a successful load
\* resolves every reference to the final value of the variable it names.
THEOREM LoadsAreRight == EnvSpec => LoadedRight
  <1>1. EnvTypeOK /\ [EnvNext]_EnvVars =>
          ((LoadEnv \/ ArgoInit) /\ CanLoad =>
             LET raw == Raw(Assignments(RootDir)) IN
             Acyclic(raw) /\ Fits(raw) =>
               /\ NamesIn(argo_env') = DOMAIN raw
               /\ \A n \in DOMAIN raw :
                    /\ Value(argo_env', n) = Substituted(raw[n], ValuesIn(argo_env'))
                    /\ Value(argo_env', n) \in Seq(Texts))
    <2> SUFFICES ASSUME EnvTypeOK, LoadEnv \/ ArgoInit, CanLoad,
                        Acyclic(Raw(Assignments(RootDir))), Fits(Raw(Assignments(RootDir)))
                 PROVE  LET raw == Raw(Assignments(RootDir)) IN
                        /\ NamesIn(argo_env') = DOMAIN raw
                        /\ \A n \in DOMAIN raw :
                             /\ Value(argo_env', n) = Substituted(raw[n], ValuesIn(argo_env'))
                             /\ Value(argo_env', n) \in Seq(Texts)
      OBVIOUS
    <2>1. argo_env' = Loaded BY DEF LoadEnv, ArgoInit
    <2> QED BY <2>1, LoadedIsRight
  <1> QED BY <1>1, EnvTypeCorrect, PTL DEF EnvSpec, LoadedRight

\* A file that does not assign a variable leaves its entry alone.
LEMMA LoadKeeps ==
  ASSUME NEW env \in Seq(Entries), NEW content \in Contents, NEW i \in DOMAIN env,
         \A k \in DOMAIN Given(content) : Given(content)[k].name # env[i].name
  PROVE  i \in DOMAIN LoadFile(env, content) /\ LoadFile(env, content)[i] = env[i]
  <1>1. CASE content = Missing BY <1>1 DEF LoadFile
  <1>2. CASE content # Missing
    <2> DEFINE N == Len(content)
    <2>1. content \in Seq(Entries) /\ Given(content) = content /\ N \in Nat
          /\ DOMAIN content = 1..N
      BY <1>2, EnvironmentFiles DEF Given
    <2>2. PICK f \in [0..N -> Seq(Entries)] :
               /\ f[0] = env /\ LoadFile(env, content) = f[N]
               /\ \A k \in 1..N : f[k] = SetInternal(f[k - 1], content[k])
      BY <1>2, <2>1, LoadFileIs
    <2> HIDE DEF N
    <2> DEFINE S == {k \in 0..N : i \in DOMAIN f[k] /\ f[k][i] = env[i]}
    <2>3. 0 \in S BY <2>1, <2>2
    <2>4. ASSUME NEW k \in 0..(N - 1), k \in S PROVE k + 1 \in S
      <3>1. k + 1 \in 1..N /\ k + 1 \in 0..N /\ (k + 1) - 1 = k /\ k \in 0..N BY <2>1
      <3> DEFINE e == f[k]
                 c == content[k + 1]
      <3>2. e \in Seq(Entries) /\ f[k + 1] = SetInternal(e, c) /\ c.name # env[i].name
        BY <2>1, <2>2, <3>1
      <3>3. i \in DOMAIN e /\ e[i] = env[i] BY <2>4
      <3>4. c \in Entries BY <2>1, <3>1
      <3> HIDE DEF e, c
      <3>5. i \in DOMAIN SetInternal(e, c) /\ SetInternal(e, c)[i] = e[i]
        <4>1. CASE Defined(e, c.name)
          <5>1. Index(e, c.name) # i BY <3>2, <3>3, <4>1, IndexIs
          <5> QED BY <3>2, <3>3, <4>1, <5>1 DEF SetInternal
        <4>2. CASE ~Defined(e, c.name)
          <5>1. SetInternal(e, c) = Append(e, c) BY <4>2 DEF SetInternal
          <5>2. i \in 1..Len(e) /\ Len(e) \in Nat BY <3>2, <3>3
          <5>3. i \in DOMAIN Append(e, c) /\ Append(e, c)[i] = e[i] BY <3>2, <3>4, <5>2
          <5> QED BY <5>1, <5>3
        <4> QED BY <4>1, <4>2
      <3> QED BY <3>1, <3>2, <3>3, <3>5
    <2>5. N \in S
      <3>1. \A k \in 0..(N - 1) : k \in S => k + 1 \in S BY <2>4
      <3> HIDE DEF S
      <3>2. \A k \in 0..N : k \in S BY <2>1, <2>3, <3>1, UpTo
      <3> QED BY <2>1, <3>2
    <2> QED BY <2>2, <2>5
  <1> QED BY <1>1, <1>2

\* Before the project's files are read, ARGO_ROOT is the directory they are read from.
LEMMA RootIsSet ==
  ASSUME EnvTypeOK, CanLoad
  PROVE  \E i \in DOMAIN WithRoot : WithRoot[i].name = Root /\ WithRoot[i].value = <<RootDir>>
  <1>1. SystemAndHome \in Seq(Entries) BY SystemAndHomeMatches DEF Matches, Arrays
  <1>2. CASE RootNamed
    <2>1. Defined(SystemAndHome, Root) BY <1>2 DEF RootNamed
    <2>2. \E d \in Dirs : Value(SystemAndHome, Root) = <<d>> BY <1>2 DEF CanLoad, RootDir
    <2>3. PICK d \in Dirs : Value(SystemAndHome, Root) = <<d>> BY <2>2
    <2>4. Head(<<d>>) = d OBVIOUS
    <2>5. RootDir = d BY <1>2, <2>3, <2>4 DEF RootDir
    <2> QED BY <1>2, <2>1, <2>3, <2>5, IndexIs DEF WithRoot, Value
  <1>3. CASE ~RootNamed
    <2> DEFINE e == SystemAndHome
               x == EnvEntry(Root, <<files.found>>)
    <2>1. RootDir = files.found BY <1>3, RootDirType
    <2>2. WithRoot = SetInternal(e, x) BY <1>3 DEF WithRoot
    <2>3. x.name = Root /\ x.value = <<RootDir>> BY <2>1 DEF EnvEntry
    <2> HIDE DEF e, x
    <2>4. \E i \in DOMAIN SetInternal(e, x) : SetInternal(e, x)[i] = x
      <3>1. CASE Defined(e, x.name)
        <4>1. Index(e, x.name) \in DOMAIN e BY <3>1, IndexIs
        <4> QED BY <3>1, <4>1 DEF SetInternal
      <3>2. CASE ~Defined(e, x.name)
        <4>1. e \in Seq(Entries) BY <1>1 DEF e
        <4>2. Len(e) + 1 \in DOMAIN Append(e, x) /\ Append(e, x)[Len(e) + 1] = x BY <4>1
        <4> QED BY <3>2, <4>2 DEF SetInternal
      <3> QED BY <3>1, <3>2
    <2> QED BY <2>2, <2>3, <2>4
  <1> QED BY <1>2, <1>3

\* A project that does not move ARGO_ROOT is where the configuration is looked for.
LEMMA ConfigDirIsRoot ==
  ASSUME EnvTypeOK, CanLoad, ~DefinesRoot(files.project[RootDir]),
         ~DefinesRoot(files.local[RootDir])
  PROVE  ConfigDir(Loaded) = RootDir /\ RootDir \in Dirs
  <1> DEFINE p == files.project[RootDir]
             l == files.local[RootDir]
             a == LoadFile(WithRoot, p)
             b == LoadFile(a, l)
  <1>1. RootDir \in Dirs BY SourcesMatch
  <1>2. p \in Contents /\ l \in Contents BY <1>1, FilesAre
  <1>3. Matches(WithRoot, WithRootAssigned) BY WithRootMatches DEF CanLoad
  <1>4. PICK i \in DOMAIN WithRoot : WithRoot[i].name = Root /\ WithRoot[i].value = <<RootDir>>
    BY RootIsSet
  <1>5. /\ \A k \in DOMAIN Given(p) : Given(p)[k].name # Root
        /\ \A k \in DOMAIN Given(l) : Given(l)[k].name # Root
    BY DEF DefinesRoot
  <1>6. ProjectAndLocal = b BY DEF ProjectAndLocal
  <1>7. Matches(a, WithRootAssigned \o Given(p)) BY <1>2, <1>3, LoadMatches
  <1>8. WithRoot \in Seq(Entries) /\ a \in Seq(Entries) BY <1>3, <1>7 DEF Matches, Arrays
  <1>9. b \in Arrays BY <1>6, SourcesMatch DEF Matches
  <1> HIDE DEF p, l
  <1>10. i \in DOMAIN a /\ a[i] = WithRoot[i] BY <1>2, <1>4, <1>5, <1>8, LoadKeeps
  <1> HIDE DEF a
  <1>11. i \in DOMAIN b /\ b[i] = a[i] BY <1>2, <1>4, <1>5, <1>8, <1>10, LoadKeeps
  <1> HIDE DEF b
  <1>12. b[i].name = Root /\ b[i].value = <<RootDir>> BY <1>4, <1>10, <1>11
  <1>13. <<RootDir>> \in Seq(Texts)
    <2>1. RootDir \in Texts BY <1>1, EnvironmentDirs
    <2> QED BY <2>1
  <1>14. Loaded = ExpandAll(b) BY <1>6 DEF Loaded
  <1>15. Loaded[i] = b[i] BY <1>9, <1>11, <1>12, <1>13, <1>14, ExpandAllKeepsPlain
  <1>16. Loaded \in Arrays /\ DOMAIN Loaded = DOMAIN b
    BY <1>9, <1>14, ExpandAllType, SameNamesKeep
  <1>17. Defined(Loaded, Root) /\ Value(Loaded, Root) = <<RootDir>>
    BY <1>11, <1>12, <1>15, <1>16, ValueIs
  <1>18. Head(<<RootDir>>) = RootDir OBVIOUS
  <1>19. \E d \in Dirs : Value(Loaded, Root) = <<d>> BY <1>1, <1>17
  <1> QED BY <1>1, <1>17, <1>18, <1>19 DEF ConfigDir

\* The first argo_init configures the process from the project it loaded, through all
\* overriding, searching and expanding, unless that project moves ARGO_ROOT.
THEOREM ConfigIsOfProject == EnvSpec => ConfigOfProject
  <1>1. EnvTypeOK /\ [EnvNext]_EnvVars =>
          (ArgoInit /\ CanLoad /\ ~config_initialized
             /\ ~DefinesRoot(files.project[RootDir]) /\ ~DefinesRoot(files.local[RootDir])
             => config' = Override(Override(files.user_config, files.project_config[RootDir]),
                                   files.workflow_config[RootDir]))
    <2> SUFFICES ASSUME EnvTypeOK, ArgoInit, CanLoad, ~config_initialized,
                        ~DefinesRoot(files.project[RootDir]), ~DefinesRoot(files.local[RootDir])
                 PROVE  config' = Override(Override(files.user_config,
                                                    files.project_config[RootDir]),
                                           files.workflow_config[RootDir])
      OBVIOUS
    <2>1. config' = ConfigLoaded(Loaded) BY DEF ArgoInit, Configure
    <2>2. ConfigDir(Loaded) = RootDir /\ RootDir # Missing
      BY ConfigDirIsRoot, EnvironmentDirs
    <2> QED BY <2>1, <2>2 DEF ConfigLoaded
  <1> QED BY <1>1, EnvTypeCorrect, PTL DEF EnvSpec, ConfigOfProject
=============================================================================
