------------------------- MODULE OrchestratorProofs -------------------------
(***************************************************************************)
(* Proofs about the state-file relay, for every set of builders.  Type     *)
(* correctness, which says that the first text of state.json is always a   *)
(* whole state unless the file is empty, holds for any number of runs of   *)
(* start_workflow.sh that overlap in any way.  That no work is discarded   *)
(* needs that orchestrators do not overlap: when two do, TLC finds a       *)
(* builder of the old one that commits to a branch which the new one has   *)
(* merged and deleted.                                                     *)
(***************************************************************************)
EXTENDS Orchestrator, FiniteSetTheorems, SequenceTheorems, TLAPS

FieldNames == {"phase", "owner", "needed", "query", "components", "execution"}
Points == {"unborn", "check", "refused", "writepid", "poll", "owner", "needed", "begin",
           "handler", "cleanup", "dead"}

\* A state with all fields and nothing else, and its fields one by one.
WholeState(s) ==
  /\ s \in States /\ DOMAIN s = FieldNames
  /\ s.phase \in Phases /\ s.owner \in Owners /\ s.needed \in Needs /\ s.query \in BOOLEAN
  /\ s.components # None => s.components \subseteq Builders
  /\ s.execution # None => s.execution \in Tables

\* The fields that an update can name, with their values.
FieldsOK(f) ==
  /\ "phase" \in DOMAIN f => f.phase \in Phases
  /\ "owner" \in DOMAIN f => f.owner \in Owners
  /\ "needed" \in DOMAIN f => f.needed \in Needs
  /\ "query" \in DOMAIN f => f.query \in BOOLEAN
  /\ "components" \in DOMAIN f => f.components \in SUBSET Builders
  /\ "execution" \in DOMAIN f => f.execution \in Tables
Values == Phases \cup Owners \cup Needs \cup BOOLEAN \cup (SUBSET Builders) \cup Tables
Fields == {f \in UNION {[names -> Values] : names \in SUBSET FieldNames} : FieldsOK(f)}
BuilderFields == [status : {"running", "completed"}] \cup [pid : Pids]

Updates == {"set", "builder"}
Commands ==
  [op : {"set"}, fields : Fields, failure : {"delete", "abort", "ignore", "skip"}]
    \cup [op : {"builder"}, builder : Builders, fields : BuilderFields, failure : {"skip"}]
    \cup [op : {"spawn", "await", "merge"}, builder : Builders]
    \cup [op : {"monitor"}, index : Nat \ {0}, count : Nat, complete : BOOLEAN]
    \cup [op : {"conclude"}]

FileNames == {None, "tmp", "state", "gone"}
Jobs == [at : {"open", "read", "write", "rename"}, file : FileNames, text : States \cup {Empty, None}, ok : BOOLEAN]

VarsInv ==
  /\ todo \in [Processes -> Seq(Commands)]
  /\ pc \in [Pids -> Points] /\ handler \in [Pids -> Handlers \cup Phases \cup {"", None}]
  /\ pidfile \in Pids \cup {None}
  /\ starts \in 0..MaxStarts /\ launcher \in {"idle", "update", "launch", "pid"}
  /\ terminated \subseteq Pids /\ conflicts \subseteq Pids
  /\ alive \subseteq Pids \X Builders /\ branches \subseteq Builders /\ unmerged \subseteq Builders

\* A file holds a state or nothing.
FilesInv ==
  /\ state \in States \cup {Empty} /\ tmp \in States \cup {Empty, None}
  /\ torn \subseteq {"state", "tmp"}

\* Who is in an update has it as its first command, and writes what it has read.
JobInv ==
  /\ job \in [Processes -> Jobs]
  /\ \A p \in Processes :
       /\ job[p].at # "open" => todo[p] # <<>> /\ Head(todo[p]).op \in Updates
       /\ job[p].at = "write" => job[p].text # None

\* Only a handler has commands, and only while start_workflow.sh updates has it some.
IdleInv ==
  /\ \A o \in Pids : pc[o] # "handler" => todo[o] = <<>>
  /\ launcher # "update" => todo[StartScript] = <<>>

\* An orchestrator is born when it is launched.
BornInv ==
  /\ launcher # "idle" => starts \in Pids
  /\ \A o \in Pids : o > starts \/ (o = starts /\ launcher \in {"update", "launch"}) => pc[o] = "unborn"

\* spawn_builder does not return while its builder runs.
AliveInv ==
  \A o \in Pids, b \in Builders : <<o, b>> \in alive =>
    pc[o] = "handler" /\ todo[o] # <<>> /\ Head(todo[o]) = [op |-> "await", builder |-> b]

TypeInv == VarsInv /\ FilesInv /\ JobInv /\ IdleInv /\ BornInv /\ AliveInv
-----------------------------------------------------------------------------
(* Commands *)

\* The assumptions of the relay, by themselves.
LEMMA Facts ==
  /\ IsFiniteSet(Builders) /\ MaxStarts \in Nat
  /\ StartScript \notin Pids /\ Editor \notin Pids /\ StartScript # Editor
  /\ None \notin Pids /\ None \notin Tables /\ None \notin States /\ None \notin Handlers
  /\ None \notin {"tmp", "state", "gone"} /\ Empty \notin States /\ Empty # None
  /\ Pids \subseteq Processes /\ StartScript \in Processes /\ Editor \in Processes
  /\ Pids = {o \in Nat : 1 <= o /\ o <= MaxStarts}
<1>1. /\ None \notin Pids /\ None \notin Tables /\ None \notin States /\ None \notin Handlers
      /\ None \notin {"tmp", "state", "gone"} /\ Empty \notin States /\ Empty # None
      /\ StartScript \notin Pids /\ Editor \notin Pids /\ StartScript # Editor
      /\ IsFiniteSet(Builders) /\ MaxStarts \in Nat
  BY RelayAssumption
<1>2. Pids = {o \in Nat : 1 <= o /\ o <= MaxStarts}  BY <1>1 DEF Pids
<1> QED BY <1>1, <1>2 DEF Processes

\* The field maps of the relay's updates, which are all valid.
LEMMA SingleFields ==
  /\ <<>> \in Fields
  /\ [query |-> TRUE] \in Fields
  /\ \A x \in Phases : [phase |-> x] \in Fields
  /\ \A x \in Owners : [owner |-> x] \in Fields
  /\ \A x \in Needs : [needed |-> x] \in Fields
  /\ \A x \in SUBSET Builders : [components |-> x] \in Fields
  /\ \A x \in Tables : [execution |-> x] \in Fields
<1> DEFINE Maps == UNION {[names -> Values] : names \in SUBSET FieldNames}
<1>0. ASSUME NEW names \in SUBSET FieldNames, NEW f \in [names -> Values] PROVE f \in Maps
  OBVIOUS
<1>1. <<>> \in Fields
  <2>1. <<>> \in [{} -> Values] /\ {} \in SUBSET FieldNames  OBVIOUS
  <2>2. <<>> \in Maps  BY <1>0, <2>1
  <2>3. FieldsOK(<<>>)  BY <2>1 DEF FieldsOK
  <2> QED BY <2>2, <2>3 DEF Fields
<1>2. [query |-> TRUE] \in Fields
  <2>0. TRUE \in Values  BY DEF Values
  <2>1. /\ \A x \in Values : [query |-> x] \in [{"query"} -> Values]
        /\ {"query"} \in SUBSET FieldNames
    BY DEF FieldNames
  <2>2. [query |-> TRUE] \in Maps
    <3>1. \A x \in Values : [query |-> x] \in Maps  BY <1>0, <2>1
    <3> QED BY <2>0, <3>1, Zenon
  <2>3. FieldsOK([query |-> TRUE])  BY DEF FieldsOK
  <2> QED BY <2>2, <2>3 DEF Fields
<1>3. ASSUME NEW x \in Phases PROVE [phase |-> x] \in Fields
  <2>1. [phase |-> x] \in [{"phase"} -> Values] /\ {"phase"} \in SUBSET FieldNames  BY DEF Values, FieldNames
  <2>2. [phase |-> x] \in Maps  BY <1>0, <2>1
  <2>3. FieldsOK([phase |-> x])  BY DEF FieldsOK
  <2> QED BY <2>2, <2>3 DEF Fields
<1>4. ASSUME NEW x \in Owners PROVE [owner |-> x] \in Fields
  <2>1. [owner |-> x] \in [{"owner"} -> Values] /\ {"owner"} \in SUBSET FieldNames  BY DEF Values, FieldNames
  <2>2. [owner |-> x] \in Maps  BY <1>0, <2>1
  <2>3. FieldsOK([owner |-> x])  BY DEF FieldsOK
  <2> QED BY <2>2, <2>3 DEF Fields
<1>5. ASSUME NEW x \in Needs PROVE [needed |-> x] \in Fields
  <2>1. [needed |-> x] \in [{"needed"} -> Values] /\ {"needed"} \in SUBSET FieldNames  BY DEF Values, FieldNames
  <2>2. [needed |-> x] \in Maps  BY <1>0, <2>1
  <2>3. FieldsOK([needed |-> x])  BY DEF FieldsOK
  <2> QED BY <2>2, <2>3 DEF Fields
<1>6. ASSUME NEW x \in SUBSET Builders PROVE [components |-> x] \in Fields
  <2>1. [components |-> x] \in [{"components"} -> Values] /\ {"components"} \in SUBSET FieldNames
    BY DEF Values, FieldNames
  <2>2. [components |-> x] \in Maps  BY <1>0, <2>1
  <2>3. FieldsOK([components |-> x])  BY DEF FieldsOK
  <2> QED BY <2>2, <2>3 DEF Fields
<1>7. ASSUME NEW x \in Tables PROVE [execution |-> x] \in Fields
  <2>1. [execution |-> x] \in [{"execution"} -> Values] /\ {"execution"} \in SUBSET FieldNames
    BY DEF Values, FieldNames
  <2>2. [execution |-> x] \in Maps  BY <1>0, <2>1
  <2>3. FieldsOK([execution |-> x])  BY DEF FieldsOK
  <2> QED BY <2>2, <2>3 DEF Fields
<1> QED BY <1>1, <1>2, <1>3, <1>4, <1>5, <1>6, <1>7

\* The fields of the user's edits are valid too.
LEMMA EditFields ==
  /\ \A c \in SUBSET Builders : [owner |-> "code", needed |-> "design_build", components |-> c] \in Fields
  /\ [owner |-> "code", needed |-> "merge_branches"] \in Fields
<1> DEFINE Maps == UNION {[names -> Values] : names \in SUBSET FieldNames}
<1>0. ASSUME NEW names \in SUBSET FieldNames, NEW f \in [names -> Values] PROVE f \in Maps
  OBVIOUS
<1>1. ASSUME NEW c \in SUBSET Builders
      PROVE [owner |-> "code", needed |-> "design_build", components |-> c] \in Fields
  <2> DEFINE f == [owner |-> "code", needed |-> "design_build", components |-> c]
  <2>1. "code" \in Values /\ "design_build" \in Values /\ c \in Values  BY DEF Values, Owners, Needs, Handlers
  <2>2. f \in [{"owner", "needed", "components"} -> Values]  BY <2>1
  <2>3. {"owner", "needed", "components"} \in SUBSET FieldNames  BY DEF FieldNames
  <2>4. f \in Maps  BY <1>0, <2>2, <2>3
  <2>5. FieldsOK(f)  BY DEF FieldsOK, Owners, Needs, Handlers
  <2> QED BY <2>4, <2>5 DEF Fields
<1>2. [owner |-> "code", needed |-> "merge_branches"] \in Fields
  <2> DEFINE f == [owner |-> "code", needed |-> "merge_branches"]
  <2>1. "code" \in Values /\ "merge_branches" \in Values  BY DEF Values, Owners, Needs
  <2>2. f \in [{"owner", "needed"} -> Values]  BY <2>1
  <2>3. {"owner", "needed"} \in SUBSET FieldNames  BY DEF FieldNames
  <2>4. f \in Maps  BY <1>0, <2>2, <2>3
  <2>5. FieldsOK(f)  BY DEF FieldsOK, Owners, Needs
  <2> QED BY <2>4, <2>5 DEF Fields
<1> QED BY <1>1, <1>2

\* Constructors of commands, and what a command carries.
LEMMA CommandTypes ==
  /\ \A f \in Fields : /\ Set(f) \in Commands /\ Save(f) \in Commands /\ Edit(f) \in Commands
  /\ \A b \in Builders, f \in BuilderFields : SetBuilder(b, f) \in Commands
  /\ \A b \in Builders : Spawn(b) \in Commands /\ Merge(b) \in Commands /\ [op |-> "await", builder |-> b] \in Commands
  /\ \A i \in Nat \ {0}, n \in Nat, e \in BOOLEAN : Monitor(i, n, e) \in Commands
  /\ Conclude \in Commands /\ Touch \in Commands /\ SaveConflicts \in Commands
<1>1. \A f \in Fields : Set(f) \in Commands /\ Save(f) \in Commands /\ Edit(f) \in Commands
  BY DEF Set, Save, Edit, Commands
<1>2. \A b \in Builders, f \in BuilderFields : SetBuilder(b, f) \in Commands  BY DEF SetBuilder, Commands
<1>3. \A b \in Builders : Spawn(b) \in Commands /\ Merge(b) \in Commands /\ [op |-> "await", builder |-> b] \in Commands
  BY DEF Spawn, Merge, Commands
<1>4. \A i \in Nat \ {0}, n \in Nat, e \in BOOLEAN : Monitor(i, n, e) \in Commands  BY Zenon DEF Monitor, Commands
<1>5. Conclude \in Commands  BY DEF Conclude, Commands
<1>6. Touch \in Commands /\ SaveConflicts \in Commands  BY <1>1, SingleFields DEF Touch, SaveConflicts, Commands
<1> QED BY <1>1, <1>2, <1>3, <1>4, <1>5, <1>6

\* What the operation of a command says about the rest of it.
LEMMA CommandParts ==
  ASSUME NEW c \in Commands
  PROVE /\ c.op \in {"set", "builder", "spawn", "await", "merge", "monitor", "conclude"}
        /\ c.op = "set" => c.fields \in Fields
        /\ c.op = "builder" => c.builder \in Builders /\ c.fields \in BuilderFields
        /\ c.op \in {"spawn", "await", "merge"} => c.builder \in Builders
        /\ c.op = "monitor" => c.index \in Nat \ {0} /\ c.count \in Nat
  BY DEF Commands

\* Membership in States says of each field what it can be.
LEMMA StatesAreWhole == \A s \in States : WholeState(s)
<1> SUFFICES ASSUME NEW s \in States PROVE WholeState(s)
  OBVIOUS
<1>1. s.query \in BOOLEAN  BY DEF States
<1>2. DOMAIN s = FieldNames /\ s.phase \in Phases /\ s.owner \in Owners /\ s.needed \in Needs
  BY DEF States, FieldNames
<1>3. s.components \in {None} \cup SUBSET Builders /\ s.execution \in {None} \cup Tables  BY DEF States
<1> QED BY <1>1, <1>2, <1>3 DEF WholeState

\* Overwriting fields of a state with valid ones gives a state.
LEMMA OverwriteState ==
  ASSUME NEW s \in States, NEW f \in Fields
  PROVE Overwrite(s, f) \in States
<1> DEFINE n == Overwrite(s, f)
           g(x) == IF x \in DOMAIN f THEN f[x] ELSE s[x]
           r == [phase |-> n.phase, owner |-> n.owner, needed |-> n.needed, query |-> n.query,
                 components |-> n.components, execution |-> n.execution]
<1>1. FieldsOK(f) /\ DOMAIN f \subseteq FieldNames  BY DEF Fields
<1>2. WholeState(s)  BY StatesAreWhole
<1>3. n = [x \in FieldNames |-> g(x)]  BY <1>1, <1>2 DEF Overwrite, WholeState
<1> HIDE DEF n
<1>4. \A x \in FieldNames : n[x] = g(x)  BY <1>3
<1>5. n = r
  <2> HIDE DEF g
  <2>1. r = [x \in FieldNames |-> n[x]]  BY DEF FieldNames
  <2> QED BY <1>3, <1>4, <2>1
<1>6. n.phase \in Phases /\ n.owner \in Owners /\ n.needed \in Needs
  BY <1>1, <1>2, <1>4 DEF FieldsOK, WholeState, FieldNames
<1>7. n.query \in BOOLEAN
  <2>1. n["query"] = IF "query" \in DOMAIN f THEN f["query"] ELSE s["query"]  BY <1>4 DEF FieldNames
  <2> QED BY <2>1, <1>1, <1>2 DEF FieldsOK, WholeState
<1>8. n.components \in {None} \cup SUBSET Builders
  BY <1>1, <1>2, <1>4 DEF FieldsOK, WholeState, FieldNames
<1>9. n.execution \in {None} \cup Tables
  BY <1>1, <1>2, <1>4 DEF FieldsOK, WholeState, FieldNames
<1>10. r \in States  BY <1>6, <1>7, <1>8, <1>9 DEF States
<1> QED BY <1>5, <1>10 DEF n

\* Overwriting a builder's record gives a record.
LEMMA OverwriteRecord ==
  ASSUME NEW r \in BuilderRecord, NEW f \in BuilderFields
  PROVE /\ Overwrite(r, f) \in BuilderRecord
        /\ Overwrite(r, f).status = IF "status" \in DOMAIN f THEN f.status ELSE r.status
<1>1. DOMAIN r = {"status", "pid"}  BY DEF BuilderRecord
<1>2. CASE f \in [status : {"running", "completed"}]
  <2>1. DOMAIN f = {"status"} /\ f["status"] \in {"running", "completed"}  BY <1>2
  <2>2. Overwrite(r, f) = [status |-> f.status, pid |-> r.pid]
    BY <2>1, <1>1 DEF Overwrite, BuilderRecord
  <2> QED BY <2>1, <2>2 DEF BuilderRecord
<1>3. CASE f \in [pid : Pids]
  <2>1. DOMAIN f = {"pid"} /\ f["pid"] \in Pids  BY <1>3
  <2>2. Overwrite(r, f) = [status |-> r.status, pid |-> f.pid]
    BY <2>1, <1>1 DEF Overwrite, BuilderRecord
  <2> QED BY <2>1, <2>2 DEF BuilderRecord
<1> QED BY <1>2, <1>3 DEF BuilderFields

\* The fields of a state after a set command: those it names, and the old ones.
LEMMA ApplySet ==
  ASSUME NEW s, WholeState(s), NEW c \in Commands, c.op = "set"
  PROVE /\ DOMAIN c.fields \subseteq FieldNames
        /\ DOMAIN Apply(s, c) = FieldNames
        /\ \A x \in FieldNames : Apply(s, c)[x] = IF x \in DOMAIN c.fields THEN c.fields[x] ELSE s[x]
<1>1. c.fields \in Fields  BY CommandParts
<1>2. DOMAIN c.fields \subseteq FieldNames  BY <1>1 DEF Fields
<1>3. Apply(s, c) = Overwrite(s, c.fields)  BY DEF Apply
<1> QED BY <1>2, <1>3 DEF WholeState, Overwrite

\* The state after an update of one builder.
LEMMA ApplyBuilder ==
  ASSUME NEW s, WholeState(s), s.execution # None, NEW c \in Commands, c.op = "builder"
  PROVE /\ DOMAIN Apply(s, c) = FieldNames
        /\ \A x \in FieldNames \ {"execution"} : Apply(s, c)[x] = s[x]
        /\ Apply(s, c).execution \in Tables
        /\ DOMAIN Apply(s, c).execution = DOMAIN s.execution
        /\ \A b \in DOMAIN s.execution :
             Apply(s, c).execution[b].status =
               IF b = c.builder /\ "status" \in DOMAIN c.fields THEN c.fields.status ELSE s.execution[b].status
<1> DEFINE e == s.execution
           r == Overwrite(e[c.builder], c.fields)
           new == [e EXCEPT ![c.builder] = r]
<1>1. PICK names \in SUBSET Builders : e \in [names -> BuilderRecord]  BY DEF WholeState, Tables
<1>2. c.builder \in Builders /\ c.fields \in BuilderFields  BY CommandParts
<1>3. CASE c.builder \in DOMAIN e
  <2>1. Apply(s, c) = [s EXCEPT !.execution = new]  BY <1>3 DEF Apply
  <2>2. /\ r \in BuilderRecord
        /\ r.status = IF "status" \in DOMAIN c.fields THEN c.fields.status ELSE e[c.builder].status
    BY <1>1, <1>2, <1>3, OverwriteRecord
  <2> HIDE DEF r
  <2>3. new \in [names -> BuilderRecord] /\ DOMAIN new = names  BY <1>1, <2>2
  <2>4. \A b \in names : new[b] = IF b = c.builder THEN r ELSE e[b]  BY <1>1
  <2> HIDE DEF new
  <2>5. /\ DOMAIN Apply(s, c) = FieldNames /\ Apply(s, c).execution = new
        /\ \A x \in FieldNames \ {"execution"} : Apply(s, c)[x] = s[x]
    BY <2>1 DEF WholeState, FieldNames
  <2>6. new \in Tables  BY <2>3 DEF Tables
  <2>7. DOMAIN e = names  BY <1>1
  <2> QED BY <2>2, <2>3, <2>4, <2>5, <2>6, <2>7
<1>4. CASE c.builder \notin DOMAIN e
  <2>1. Apply(s, c) = s  BY <1>4 DEF Apply
  <2> QED BY <1>4, <2>1 DEF WholeState
<1> QED BY <1>3, <1>4

\* An update leaves a whole state and does not lose the table of builders.
LEMMA ApplyWhole ==
  ASSUME NEW s, WholeState(s), NEW c \in Commands, c.op \in Updates,
         c.op = "builder" => s.execution # None
  PROVE /\ WholeState(Apply(s, c))
        /\ s.execution # None => Apply(s, c).execution # None
<1>1. CASE c.op = "set"
  <2>1. c.fields \in Fields  BY <1>1, CommandParts
  <2>2. Apply(s, c) = Overwrite(s, c.fields)  BY <1>1 DEF Apply
  <2>3. WholeState(Apply(s, c))  BY <2>1, <2>2, OverwriteState, StatesAreWhole DEF WholeState
  <2>4. /\ Apply(s, c).execution = IF "execution" \in DOMAIN c.fields THEN c.fields.execution ELSE s.execution
        /\ "execution" \in DOMAIN c.fields => c.fields.execution \in Tables
    BY <1>1, <2>1, ApplySet DEF FieldNames, Fields, FieldsOK
  <2> QED BY <2>3, <2>4, Facts
<1>2. CASE c.op = "builder"
  <2>1. Apply(s, c).execution \in Tables  BY <1>2, ApplyBuilder
  <2>2. Apply(s, c) \in States
    <3>1. \/ Apply(s, c) = s
          \/ \E e : Apply(s, c) = [s EXCEPT !.execution = e]
      BY <1>2 DEF Apply
    <3>2. CASE Apply(s, c) = s  BY <3>2 DEF WholeState
    <3>3. ASSUME NEW e, Apply(s, c) = [s EXCEPT !.execution = e] PROVE Apply(s, c) \in States
      <4>1. s \in States  BY DEF WholeState
      <4>2. Apply(s, c).execution = e  BY <3>3, <4>1 DEF States
      <4>3. e \in Tables  BY <2>1, <4>2
      <4> QED BY <3>3, <4>1, <4>3 DEF States
    <3> QED BY <3>1, <3>2, <3>3
  <2> QED BY <2>1, <2>2, StatesAreWhole, Facts
<1> QED BY <1>1, <1>2 DEF Updates

\* The order in which a loop visits the builders names each of them.
LEMMA SetToSeqFacts ==
  ASSUME NEW S \in SUBSET Builders
  PROVE /\ Cardinality(S) \in Nat
        /\ SetToSeq(S) \in [1..Cardinality(S) -> S]
        /\ \A b \in S : \E i \in 1..Cardinality(S) : SetToSeq(S)[i] = b
<1>1. IsFiniteSet(S) /\ Cardinality(S) \in Nat  BY Facts, FS_Subset, FS_CardinalityType
<1>2. PICK f : f \in Bijection(1..Cardinality(S), S)  BY <1>1, FS_NatBijection, FS_CountingElements DEF ExistsBijection
<1> DEFINE n == Cardinality(S)
           seq == SetToSeq(S)
<1>3. f \in [1..n -> S] /\ IsInjective(f)  BY <1>2 DEF Bijection, Injection
<1>4. seq \in [1..n -> S] /\ IsInjective(seq)  BY <1>3 DEF SetToSeq
<1>5. IsFiniteSet(1..n) /\ Cardinality(1..n) = n  BY <1>1, FS_Interval
<1>6. seq \in Injection(1..n, S)  BY <1>4 DEF Injection
<1>7. seq \in Surjection(1..n, S)  BY <1>1, <1>5, <1>6, FS_Injection
<1> QED BY <1>1, <1>4, <1>7 DEF Surjection

\* The loop of execution.sh: two commands for each builder.
LEMMA SpawnAllFacts ==
  ASSUME NEW S \in SUBSET Builders
  PROVE /\ SpawnAll(S) \in Seq(Commands)
        /\ \A i \in 1..Len(SpawnAll(S)) :
             /\ SpawnAll(S)[i].op \in {"builder", "spawn"}
             /\ SpawnAll(S)[i].builder \in S
        /\ \A b \in S : \E i \in 1..Len(SpawnAll(S)) : SpawnAll(S)[i] = SetBuilder(b, [status |-> "running"])
<1> DEFINE n == Cardinality(S)
           seq == SetToSeq(S)
           all == SpawnAll(S)
           command(i) == IF i % 2 = 1 THEN SetBuilder(seq[(i + 1) \div 2], [status |-> "running"])
                         ELSE Spawn(seq[i \div 2])
<1>1. n \in Nat /\ seq \in [1..n -> S] /\ \A b \in S : \E i \in 1..n : seq[i] = b  BY SetToSeqFacts
<1>2. all = [i \in 1..(2 * n) |-> command(i)]  BY DEF SpawnAll
<1> HIDE DEF n, seq
<1>3. ASSUME NEW i \in 1..(2 * n)
      PROVE /\ command(i) \in Commands /\ command(i).op \in {"builder", "spawn"}
            /\ command(i).builder \in S
  <2>1. CASE i % 2 = 1
    <3>1. (i + 1) \div 2 \in 1..n  BY <1>1, <2>1
    <3>2. seq[(i + 1) \div 2] \in S  BY <1>1, <3>1
    <3>3. [status |-> "running"] \in BuilderFields  BY DEF BuilderFields
    <3>4. command(i) = SetBuilder(seq[(i + 1) \div 2], [status |-> "running"])  BY <2>1
    <3> HIDE DEF command
    <3> QED BY <3>2, <3>3, <3>4, CommandTypes DEF SetBuilder
  <2>2. CASE i % 2 # 1
    <3>1. i \div 2 \in 1..n  BY <1>1, <2>2
    <3>2. seq[i \div 2] \in S  BY <1>1, <3>1
    <3>3. command(i) = Spawn(seq[i \div 2])  BY <2>2
    <3> HIDE DEF command
    <3>4. \A b \in S : Spawn(b) \in Commands  BY CommandTypes
    <3>5. \A b \in S : Spawn(b).op = "spawn" /\ Spawn(b).builder = b  BY DEF Spawn
    <3> QED BY <3>2, <3>3, <3>4, <3>5
  <2> QED BY <2>1, <2>2
<1>4. ASSUME NEW b \in S
      PROVE \E i \in 1..(2 * n) : command(i) = SetBuilder(b, [status |-> "running"])
  <2>1. PICK k \in 1..n : seq[k] = b  BY <1>1
  <2>2. 2 * k - 1 \in 1..(2 * n) /\ (2 * k - 1) % 2 = 1 /\ ((2 * k - 1) + 1) \div 2 = k  BY <1>1
  <2>3. command(2 * k - 1) = SetBuilder(b, [status |-> "running"])  BY <2>1, <2>2
  <2> QED BY <2>2, <2>3
<1> HIDE DEF command, all
<1>5. 2 * n \in Nat  BY <1>1
<1>6. all \in Seq(Commands) /\ Len(all) = 2 * n  BY <1>2, <1>3, <1>5
<1>7. \A i \in 1..(2 * n) : all[i] = command(i)  BY <1>2
<1>8. all = SpawnAll(S)  BY DEF all
<1> QED BY <1>3, <1>4, <1>6, <1>7, <1>8

\* The loop of merge_build.sh.
LEMMA MergeAllFacts ==
  ASSUME NEW S \in SUBSET Builders
  PROVE /\ MergeAll(S) \in Seq(Commands)
        /\ \A i \in 1..Len(MergeAll(S)) : MergeAll(S)[i].op = "merge"
        /\ \A b \in S : \E i \in 1..Len(MergeAll(S)) : MergeAll(S)[i] = Merge(b)
<1> DEFINE n == Cardinality(S)
           seq == SetToSeq(S)
           all == MergeAll(S)
<1>1. n \in Nat /\ seq \in [1..n -> S] /\ \A b \in S : \E i \in 1..n : seq[i] = b  BY SetToSeqFacts
<1>2. all = [i \in 1..n |-> Merge(seq[i])]  BY DEF MergeAll
<1> HIDE DEF n, seq, all
<1>3. \A i \in 1..n : Merge(seq[i]) \in Commands /\ Merge(seq[i]).op = "merge"
  BY <1>1, CommandTypes DEF Merge
<1>4. all \in Seq(Commands) /\ Len(all) = n  BY <1>1, <1>2, <1>3
<1>5. \A i \in 1..n : all[i] = Merge(seq[i])  BY <1>2
<1> QED BY <1>1, <1>3, <1>4, <1>5 DEF all
-----------------------------------------------------------------------------
(* Type correctness *)

\* Sequences of commands: the first one, the others, and a replacement of the first one.
LEMMA HeadTail ==
  ASSUME NEW q \in Seq(Commands), q # <<>>
  PROVE /\ Len(q) \in Nat /\ Len(q) >= 1 /\ Head(q) = q[1] /\ Head(q) \in Commands
        /\ Tail(q) \in Seq(Commands) /\ Len(Tail(q)) = Len(q) - 1
        /\ \A i \in 1..Len(Tail(q)) : i + 1 \in 1..Len(q) /\ Tail(q)[i] = q[i + 1]
  OBVIOUS

LEMMA Concatenation ==
  ASSUME NEW a \in Seq(Commands), NEW q \in Seq(Commands)
  PROVE /\ a \o q \in Seq(Commands) /\ Len(a \o q) = Len(a) + Len(q)
        /\ Len(a) \in Nat /\ Len(q) \in Nat
        /\ \A i \in 1..Len(a \o q) :
             /\ i <= Len(a) => i \in 1..Len(a) /\ (a \o q)[i] = a[i]
             /\ i > Len(a) => i - Len(a) \in 1..Len(q) /\ (a \o q)[i] = q[i - Len(a)]
  OBVIOUS

\* The inductive invariant contains the type invariant that TLC checks.
LEMMA TypeInvSuffices == TypeInv => TypeOK
<1> SUFFICES ASSUME TypeInv PROVE TypeOK
  OBVIOUS
<1>1. ASSUME NEW p \in Processes
      PROVE /\ job[p].at \in {"open", "read", "write", "rename"} /\ job[p].ok \in BOOLEAN
            /\ job[p].file \in {None, "tmp", "state", "gone"} /\ job[p].text \in States \cup {Empty, None}
  <2>1. job[p] \in Jobs  BY DEF TypeInv, JobInv
  <2>2. job[p].ok \in BOOLEAN  BY <2>1 DEF Jobs
  <2> QED BY <2>1, <2>2 DEF Jobs, FileNames
<1> QED BY <1>1 DEF TypeInv, VarsInv, FilesInv, TypeOK, Points

\* The fields that the scripts read.
LEMMA NowFacts ==
  ASSUME TypeInv
  PROVE /\ Now.phase \in Phases \cup {""}
        /\ Now.components # None => Now.components \in SUBSET Builders
        /\ Now.execution # None => Now.execution \in Tables /\ DOMAIN Now.execution \in SUBSET Builders
        /\ state # Empty => Now = state /\ state \in States
<1>1. CASE state = Empty
  <2>1. Now = Blank  BY <1>1 DEF Now
  <2> QED BY <1>1, <2>1 DEF Blank
<1>2. CASE state # Empty
  <2>1. Now = state /\ state \in States  BY <1>2 DEF Now, TypeInv, FilesInv
  <2>2. WholeState(state)  BY <2>1, StatesAreWhole
  <2> QED BY <2>1, <2>2 DEF WholeState, Tables
<1> QED BY <1>1, <1>2

\* The state that init_state_file writes is whole, and nobody has begun.
LEMMA InitTypeInv == Init => TypeInv
<1> SUFFICES ASSUME Init PROVE TypeInv
  OBVIOUS
<1>1. InitialState \in States  BY DEF InitialState, States, Phases, Owners, Needs
<1>2. FilesInv  BY <1>1 DEF Init, FilesInv
<1>3. VarsInv
  <2>1. <<>> \in Seq(Commands)  OBVIOUS
  <2> QED BY <2>1, Facts DEF Init, VarsInv, Points
<1>4. JobInv
  <2>1. Idle \in Jobs /\ Idle.at = "open"  BY DEF Idle, Jobs, FileNames
  <2> HIDE DEF Idle
  <2> QED BY <2>1 DEF Init, JobInv
<1>5. IdleInv /\ AliveInv  BY Facts DEF Init, IdleInv, AliveInv
<1>6. BornInv  BY Facts DEF Init, BornInv
<1> QED BY <1>2, <1>3, <1>4, <1>5, <1>6 DEF TypeInv

\* Steps that leave files, commands and builders alone.
LEMMA QuietFrame ==
  ASSUME TypeInv, UNCHANGED <<state, tmp, torn, todo, job, alive>>, VarsInv', BornInv',
         \A o \in Pids : pc'[o] # pc[o] => todo[o] = <<>>,
         launcher' # "update" => todo[StartScript] = <<>>
  PROVE TypeInv'
<1>1. FilesInv'  BY DEF TypeInv, FilesInv
<1>2. JobInv'  BY DEF TypeInv, JobInv
<1>3. IdleInv'  BY DEF TypeInv, IdleInv
<1>4. AliveInv'  BY DEF TypeInv, AliveInv
<1> QED BY <1>1, <1>2, <1>3, <1>4 DEF TypeInv

\* A process that had nothing to do gets a program.
LEMMA ProgramFrame ==
  ASSUME TypeInv, UNCHANGED <<state, tmp, torn, job, alive>>, BornInv',
         NEW p \in Processes, todo[p] = <<>>, NEW program \in Seq(Commands),
         todo' = [todo EXCEPT ![p] = program],
         todo' \in [Processes -> Seq(Commands)] => VarsInv',
         \A o \in Pids : IF o = p THEN pc'[o] = "handler" ELSE pc'[o] = pc[o],
         IF p = StartScript THEN launcher' = "update" ELSE launcher' = launcher
  PROVE TypeInv'
<1> USE DEF TypeInv
<1>0. todo \in [Processes -> Seq(Commands)]  BY DEF VarsInv
<1>1. /\ todo' \in [Processes -> Seq(Commands)]
      /\ todo'[p] = program /\ \A r \in Processes \ {p} : todo'[r] = todo[r]
  BY <1>0
<1>2. VarsInv'  BY <1>1
<1>3. FilesInv'  BY DEF FilesInv
<1>4. JobInv'
  <2>1. job[p].at = "open"  BY DEF JobInv
  <2> QED BY <1>1, <2>1 DEF JobInv
<1>5. IdleInv'  BY <1>1, Facts DEF IdleInv
<1>6. AliveInv'
  <2> SUFFICES ASSUME NEW o \in Pids, NEW b \in Builders, <<o, b>> \in alive
               PROVE (pc[o] = "handler" /\ todo[o] # <<>> /\ Head(todo[o]) = [op |-> "await", builder |-> b])'
    BY DEF AliveInv
  <2>1. pc[o] = "handler" /\ todo[o] # <<>> /\ Head(todo[o]) = [op |-> "await", builder |-> b]  BY DEF AliveInv
  <2>2. o # p  BY <2>1
  <2> QED BY <1>1, <2>1, <2>2, Facts
<1> QED BY <1>2, <1>3, <1>4, <1>5, <1>6

\* A handler replaces a command that is not an update.
LEMMA ReplaceFrame ==
  ASSUME TypeInv, NEW o \in Pids, todo[o] # <<>>, Head(todo[o]).op \notin Updates,
         NEW program \in Seq(Commands), Replace(o, program),
         conflicts' \subseteq Pids, alive' \subseteq Pids \X Builders,
         branches' \subseteq Builders, unmerged' \subseteq Builders,
         \A w \in Pids, b \in Builders : <<w, b>> \in alive' =>
           \/ w # o /\ <<w, b>> \in alive
           \/ w = o /\ Len(program) > 0 /\ program[1] = [op |-> "await", builder |-> b]
  PROVE TypeInv'
<1> USE DEF TypeInv
<1> DEFINE q == todo[o]
           new == program \o Tail(q)
<1>0. todo \in [Processes -> Seq(Commands)] /\ o \in Processes  BY Facts DEF VarsInv
<1>1. q \in Seq(Commands)  BY <1>0
<1>2. /\ new \in Seq(Commands)
      /\ Len(program) > 0 => new # <<>> /\ Head(new) = program[1]
  BY <1>1, HeadTail, Concatenation
<1>3. todo' = [todo EXCEPT ![o] = new]  BY DEF Replace
<1> HIDE DEF new
<1>4. /\ todo' \in [Processes -> Seq(Commands)]
      /\ todo'[o] = new /\ \A r \in Processes \ {o} : todo'[r] = todo[r]
  BY <1>0, <1>2, <1>3
<1>5. /\ state' = state /\ tmp' = tmp /\ torn' = torn /\ job' = job /\ pc' = pc /\ launcher' = launcher
      /\ starts' = starts /\ pidfile' = pidfile /\ handler' = handler /\ terminated' = terminated
  BY DEF Replace, fileVars, startVars
<1>6. VarsInv'  BY <1>4, <1>5 DEF VarsInv
<1>7. FilesInv'  BY <1>5 DEF FilesInv
<1>8. JobInv'
  <2>1. job[o].at = "open"  BY <1>0 DEF JobInv
  <2> QED BY <1>4, <1>5, <2>1 DEF JobInv
<1>9. pc[o] = "handler"  BY DEF IdleInv
<1>10. IdleInv'  BY <1>4, <1>5, <1>9, Facts DEF IdleInv
<1>11. BornInv'  BY <1>5 DEF BornInv
<1>12. AliveInv'
  <2> SUFFICES ASSUME NEW w \in Pids, NEW b \in Builders, <<w, b>> \in alive'
               PROVE (pc[w] = "handler" /\ todo[w] # <<>> /\ Head(todo[w]) = [op |-> "await", builder |-> b])'
    BY DEF AliveInv
  <2>1. CASE w # o /\ <<w, b>> \in alive  BY <1>4, <1>5, <2>1, Facts DEF AliveInv
  <2>2. CASE w = o /\ Len(program) > 0 /\ program[1] = [op |-> "await", builder |-> b]
    BY <1>2, <1>4, <1>5, <1>9, <2>2
  <2> QED BY <2>1, <2>2
<1> QED BY <1>6, <1>7, <1>8, <1>10, <1>11, <1>12

\* A step of an update that is not its last one: the commands stay.
LEMMA MidFrame ==
  ASSUME TypeInv, NEW p \in Processes, todo[p] # <<>>, Head(todo[p]).op \in Updates, FilesInv',
         NEW j \in Jobs, job' = [job EXCEPT ![p] = j], j.at = "write" => j.text # None,
         UNCHANGED <<pidfile, todo, starts, launcher, pc, handler, terminated, conflicts, alive, branches, unmerged>>
  PROVE TypeInv'
<1>1. JobInv'
  <2>1. job \in [Processes -> Jobs]  BY DEF TypeInv, JobInv
  <2>2. job' \in [Processes -> Jobs] /\ job'[p] = j /\ \A q \in Processes \ {p} : job'[q] = job[q]  BY <2>1
  <2> QED BY <2>2 DEF TypeInv, JobInv
<1>2. VarsInv' /\ IdleInv' /\ BornInv' /\ AliveInv'  BY DEF TypeInv, VarsInv, IdleInv, BornInv, AliveInv
<1> QED BY <1>1, <1>2 DEF TypeInv

\* The shell opens the temporary file.
LEMMA OpenTmpType == ASSUME TypeInv, NEW p \in Processes, OpenTmp(p) PROVE TypeInv'
<1> DEFINE j == [at |-> "read", file |-> "tmp", text |-> None, ok |-> TRUE]
<1>1. j \in Jobs /\ j.at # "write"  BY DEF Jobs, FileNames
<1>2. FilesInv'  BY DEF OpenTmp, TypeInv, FilesInv
<1>3. /\ todo[p] # <<>> /\ Head(todo[p]).op \in Updates /\ job' = [job EXCEPT ![p] = j]
      /\ UNCHANGED <<pidfile, todo, starts, launcher, pc, handler, terminated, conflicts, alive, branches, unmerged>>
  BY DEF OpenTmp, Updates, startVars, gitVars
<1> HIDE DEF j
<1> QED BY <1>1, <1>2, <1>3, MidFrame

\* jq reads state.json.
LEMMA ReadStateType == ASSUME TypeInv, NEW p \in Processes, ReadState(p) PROVE TypeInv'
<1> DEFINE c == Head(todo[p])
           text == IF state = Empty \/ Rejects(c) THEN Empty ELSE Apply(state, c)
           fine == state = Empty \/ ~(Rejects(c) \/ "state" \in torn)
           j == [at |-> "write", file |-> job[p].file, text |-> text, ok |-> fine]
<1>1. todo[p] \in Seq(Commands) /\ todo[p] # <<>> /\ c.op \in Updates
  BY DEF TypeInv, VarsInv, JobInv, ReadState
<1>2. c \in Commands  BY <1>1, HeadTail
<1>3. job[p] \in Jobs /\ job[p].file \in FileNames  BY DEF TypeInv, JobInv, Jobs
<1>4. text \in States \cup {Empty}
  <2>1. CASE state = Empty \/ Rejects(c)  BY <2>1
  <2>2. CASE ~(state = Empty \/ Rejects(c))
    <3>1. text = Apply(state, c) /\ state # Empty /\ ~Rejects(c)  BY <2>2
    <3>2. state \in States /\ Now = state  BY <3>1, NowFacts
    <3>3. c.op = "builder" => state.execution # None  BY <3>1, <3>2 DEF Rejects
    <3>4. WholeState(Apply(state, c))  BY <1>1, <1>2, <3>2, <3>3, ApplyWhole, StatesAreWhole
    <3> QED BY <3>1, <3>4 DEF WholeState
  <2> QED BY <2>1, <2>2
<1>5. fine \in BOOLEAN  OBVIOUS
<1>6. job' = [job EXCEPT ![p] = j]  BY DEF ReadState
<1> HIDE DEF text, fine
<1>7. j \in Jobs /\ j.text # None  BY <1>3, <1>4, <1>5, Facts DEF Jobs
<1>8. UNCHANGED <<state, tmp, torn, pidfile, todo, starts, launcher, pc, handler, terminated, conflicts,
                  alive, branches, unmerged>>
  BY DEF ReadState, fileVars, startVars, gitVars
<1>9. FilesInv'  BY <1>8 DEF TypeInv, FilesInv
<1> HIDE DEF j, c
<1> QED BY <1>1, <1>6, <1>7, <1>8, <1>9, MidFrame DEF c

\* jq writes into the file that its output is open on.
LEMMA WriteTextType == ASSUME TypeInv, NEW p \in Processes, WriteText(p) PROVE TypeInv'
<1> DEFINE j == [at |-> "rename", file |-> None, text |-> None, ok |-> job[p].ok]
<1>1. todo[p] # <<>> /\ Head(todo[p]).op \in Updates /\ job[p].text # None
  BY DEF TypeInv, JobInv, WriteText
<1>2. job[p] \in Jobs  BY DEF TypeInv, JobInv
<1>3. job[p].text \in States \cup {Empty} /\ job[p].ok \in BOOLEAN
  <2>1. job[p].ok \in BOOLEAN  BY <1>2 DEF Jobs
  <2> QED BY <1>1, <1>2, <2>1 DEF Jobs
<1>4. j \in Jobs /\ j.at # "write"  BY <1>3 DEF Jobs, FileNames
<1>5. /\ job' = [job EXCEPT ![p] = j]
      /\ UNCHANGED <<pidfile, todo, starts, launcher, pc, handler, terminated, conflicts, alive, branches, unmerged>>
  BY DEF WriteText, startVars, gitVars
<1>6. FilesInv'
  <2>1. state' \in {state, job[p].text} /\ tmp' \in {tmp, job[p].text}  BY DEF WriteText
  <2>2. torn' \subseteq {"state", "tmp"}
    <3>1. \/ torn' = torn \/ torn' = torn \ {job[p].file}
          \/ torn' = torn \cup {job[p].file} /\ job[p].file \in {"state", "tmp"}
      BY DEF WriteText
    <3> QED BY <3>1 DEF TypeInv, FilesInv
  <2> QED BY <1>3, <2>1, <2>2 DEF TypeInv, FilesInv
<1> HIDE DEF j
<1> QED BY <1>1, <1>4, <1>5, <1>6, MidFrame

\* An update ends: its process goes on with the rest of its commands, or with none.
LEMMA EndFrame ==
  ASSUME TypeInv, NEW p \in Processes, job[p].at = "rename", FilesInv',
         NEW names, DOMAIN names \subseteq {"state", "tmp"}, \A x \in DOMAIN names : names[x] \in FileNames,
         EndUpdate(p, names),
         NEW rest, rest \in {Tail(todo[p]), <<>>}, todo' = [todo EXCEPT ![p] = rest],
         launcher' = launcher \/ (p = StartScript /\ launcher' = "idle" /\ rest = <<>>),
         UNCHANGED <<pidfile, starts, pc, handler, terminated, conflicts, alive, branches, unmerged>>
  PROVE TypeInv'
<1> USE DEF TypeInv
<1> DEFINE q == todo[p]
<1>0. todo \in [Processes -> Seq(Commands)] /\ job \in [Processes -> Jobs]  BY DEF VarsInv, JobInv
<1>1. q \in Seq(Commands) /\ q # <<>> /\ Head(q).op \in Updates  BY <1>0 DEF JobInv
<1>2. rest \in Seq(Commands)
  <2>1. Tail(q) \in Seq(Commands) /\ <<>> \in Seq(Commands)  BY <1>1, HeadTail
  <2> QED BY <2>1
<1>4. /\ todo' \in [Processes -> Seq(Commands)]
      /\ todo'[p] = rest /\ \A r \in Processes \ {p} : todo'[r] = todo[r]
  BY <1>0, <1>2
<1>5. JobInv'
  <2>1. Idle \in Jobs /\ Idle.at = "open"  BY DEF Idle, Jobs, FileNames
  <2>2. ASSUME NEW r \in Processes \ {p}
        PROVE job'[r] \in Jobs /\ job'[r].at = job[r].at /\ job'[r].text = job[r].text
    <3>1. job[r] \in Jobs  BY <1>0
    <3>2. CASE job[r].file \in DOMAIN names
      <4>1. job'[r] = [job[r] EXCEPT !.file = names[job[r].file]] /\ names[job[r].file] \in FileNames
        BY <3>2 DEF EndUpdate
      <4> QED BY <3>1, <4>1 DEF Jobs
    <3>3. CASE job[r].file \notin DOMAIN names  BY <3>1, <3>3 DEF EndUpdate
    <3> QED BY <3>2, <3>3
  <2>3. job'[p] = Idle /\ DOMAIN job' = Processes  BY DEF EndUpdate
  <2> HIDE DEF Idle
  <2>4. job' \in [Processes -> Jobs]
    <3>1. \A r \in Processes : job'[r] \in Jobs  BY <2>1, <2>2, <2>3
    <3>2. job' = [r \in Processes |-> job'[r]]  BY DEF EndUpdate
    <3> QED BY <3>1, <3>2
  <2> QED BY <1>4, <2>1, <2>2, <2>3, <2>4 DEF JobInv
<1>6. IdleInv'
  <2>1. \A o \in Pids : pc[o] # "handler" => o # p  BY <1>1 DEF IdleInv
  <2>2. p = StartScript => launcher = "update"  BY <1>1 DEF IdleInv
  <2> QED BY <1>4, <2>1, <2>2, Facts DEF IdleInv
<1>7. BornInv'  BY DEF BornInv
<1>8. AliveInv'
  <2> SUFFICES ASSUME NEW o \in Pids, NEW b \in Builders, <<o, b>> \in alive
               PROVE (pc[o] = "handler" /\ todo[o] # <<>> /\ Head(todo[o]) = [op |-> "await", builder |-> b])'
    BY DEF AliveInv
  <2>1. pc[o] = "handler" /\ todo[o] # <<>> /\ Head(todo[o]) = [op |-> "await", builder |-> b]  BY DEF AliveInv
  <2>2. o # p  BY <1>1, <2>1 DEF Updates
  <2> QED BY <1>4, <2>1, <2>2, Facts
<1>9. VarsInv'  BY <1>4 DEF VarsInv
<1> QED BY <1>5, <1>6, <1>7, <1>8, <1>9

\* mv puts the temporary file, whoever wrote it, in place, or finds none.
LEMMA RenameType == ASSUME TypeInv, NEW p \in Processes, Rename(p) PROVE TypeInv'
<1>1. /\ job[p].at = "rename" /\ todo' = [todo EXCEPT ![p] = Tail(todo[p])]
      /\ UNCHANGED <<pidfile, starts, launcher, pc, handler, terminated, conflicts, alive, branches, unmerged>>
  BY DEF Rename, startVars, gitVars
<1>2. CASE tmp = None
  <2> DEFINE names == <<>>
  <2>1. EndUpdate(p, names)  BY <1>2 DEF Rename
  <2>2. DOMAIN names = {}  OBVIOUS
  <2>3. FilesInv'  BY <1>2 DEF Rename, TypeInv, FilesInv
  <2> HIDE DEF names
  <2> QED BY <1>1, <2>1, <2>2, <2>3, EndFrame
<1>3. CASE tmp # None
  <2> DEFINE names == [state |-> "gone", tmp |-> "state"]
  <2>1. EndUpdate(p, names) /\ FilesInv'  BY <1>3 DEF Rename, TypeInv, FilesInv
  <2>2. DOMAIN names = {"state", "tmp"} /\ \A x \in DOMAIN names : names[x] \in FileNames  BY DEF FileNames
  <2> HIDE DEF names
  <2> QED BY <1>1, <2>1, <2>2, EndFrame
<1> QED BY <1>2, <1>3

\* jq has failed: "jq && mv" goes on without mv.
LEMMA SkipRenameType == ASSUME TypeInv, NEW p \in Processes, SkipRename(p) PROVE TypeInv'
<1> DEFINE names == <<>>
<1>1. /\ job[p].at = "rename" /\ todo' = [todo EXCEPT ![p] = Tail(todo[p])]
      /\ UNCHANGED <<pidfile, starts, launcher, pc, handler, terminated, conflicts, alive, branches, unmerged>>
      /\ EndUpdate(p, names) /\ DOMAIN names = {} /\ FilesInv'
  BY DEF SkipRename, fileVars, startVars, gitVars, TypeInv, FilesInv
<1> HIDE DEF names
<1> QED BY <1>1, EndFrame

\* jq has failed: the temporary file is deleted, and the script goes on or gives up.
LEMMA DeleteTmpType == ASSUME TypeInv, NEW p \in Processes, DeleteTmp(p) PROVE TypeInv'
<1> DEFINE names == [tmp |-> "gone"]
<1>1. /\ job[p].at = "rename" /\ EndUpdate(p, names) /\ FilesInv'
      /\ UNCHANGED <<pidfile, starts, pc, handler, terminated, conflicts, alive, branches, unmerged>>
  BY DEF DeleteTmp, gitVars, TypeInv, FilesInv
<1>2. DOMAIN names = {"tmp"} /\ \A x \in DOMAIN names : names[x] \in FileNames  BY DEF FileNames
<1> HIDE DEF names
<1>3. CASE Head(todo[p]).failure = "abort"
  <2>1. /\ todo' = [todo EXCEPT ![p] = <<>>]
        /\ launcher' = launcher \/ (p = StartScript /\ launcher' = "idle")
    BY <1>3 DEF DeleteTmp
  <2> QED BY <1>1, <1>2, <2>1, EndFrame
<1>4. CASE Head(todo[p]).failure # "abort"
  <2>1. todo' = [todo EXCEPT ![p] = Tail(todo[p])] /\ launcher' = launcher  BY <1>4 DEF DeleteTmp
  <2> QED BY <1>1, <1>2, <2>1, EndFrame
<1> QED BY <1>3, <1>4

\* start_workflow.sh begins.
LEMMA StartWorkflowType == ASSUME TypeInv, StartWorkflow PROVE TypeInv'
<1> DEFINE program == <<Save([query |-> TRUE]), Set([phase |-> "init"]), Set([owner |-> "code"]),
                        Set([needed |-> "design_program"])>>
<1>1. /\ Save([query |-> TRUE]) \in Commands /\ Set([phase |-> "init"]) \in Commands
      /\ Set([owner |-> "code"]) \in Commands /\ Set([needed |-> "design_program"]) \in Commands
  <2>1. "init" \in Phases /\ "code" \in Owners /\ "design_program" \in Needs  BY DEF Phases, Owners, Needs, Handlers
  <2> QED BY <2>1, SingleFields, CommandTypes
<1>3. program \in Seq(Commands)  BY <1>1
<1>4. /\ todo' = [todo EXCEPT ![StartScript] = program] /\ launcher = "idle" /\ launcher' = "update"
      /\ starts' = starts + 1 /\ starts < MaxStarts /\ pc' = pc
      /\ UNCHANGED <<state, tmp, torn, job, alive>>
  BY DEF StartWorkflow, fileVars, gitVars
<1> HIDE DEF program
<1>0. starts \in Nat /\ MaxStarts \in Nat /\ starts' \in Pids /\ starts' \in 0..MaxStarts
  <2>1. MaxStarts \in Nat  BY RelayAssumption
  <2>2. starts \in 0..MaxStarts /\ starts' = starts + 1 /\ starts < MaxStarts  BY <1>4 DEF TypeInv, VarsInv
  <2> QED BY <2>1, <2>2 DEF Pids
<1>5. BornInv'
  <2>1. starts \in Nat /\ MaxStarts \in Nat /\ starts' \in Pids  BY <1>0
  <2>2. \A o \in Pids : o > starts \/ o = starts' => o > starts  BY <1>4, <2>1, Facts
  <2> QED BY <1>4, <2>1, <2>2, Facts DEF TypeInv, BornInv
<1>6. todo[StartScript] = <<>>  BY <1>4 DEF TypeInv, IdleInv
<1>7. todo' \in [Processes -> Seq(Commands)] => VarsInv'
  <2>1. /\ UNCHANGED <<pidfile, pc, handler, terminated, conflicts, alive, branches, unmerged>>
        /\ starts' \in 0..MaxStarts /\ launcher' = "update"
    BY <1>0, <1>4 DEF StartWorkflow, gitVars
  <2> QED BY <2>1 DEF TypeInv, VarsInv
<1>8. \A o \in Pids : o # StartScript /\ pc'[o] = pc[o]  BY <1>4, Facts
<1>9. StartScript \in Processes  BY Facts
<1> QED BY <1>3, <1>4, <1>5, <1>6, <1>7, <1>8, <1>9, ProgramFrame

\* The steps of start_workflow.sh that do not update the state.
LEMMA LauncherType == ASSUME TypeInv, StopPrevious \/ Launch \/ SavePid PROVE TypeInv'
<1>1. CASE StopPrevious
  <2>1. /\ launcher = "update" /\ todo[StartScript] = <<>> /\ launcher' = "launch" /\ pc' = pc /\ starts' = starts
        /\ UNCHANGED <<state, tmp, torn, todo, job, alive>>
    BY <1>1 DEF StopPrevious, fileVars, gitVars
  <2>2. VarsInv'  BY <1>1, <2>1 DEF TypeInv, VarsInv, StopPrevious, fileVars, gitVars
  <2>3. BornInv'  BY <2>1 DEF TypeInv, BornInv
  <2> QED BY <2>1, <2>2, <2>3, QuietFrame
<1>2. CASE Launch
  <2>1. /\ launcher = "launch" /\ launcher' = "pid" /\ pc' = [pc EXCEPT ![starts] = "check"] /\ starts' = starts
        /\ pidfile' = None /\ UNCHANGED <<state, tmp, torn, todo, job, alive>>
    BY <1>2 DEF Launch, fileVars, gitVars
  <2>2. starts \in Pids /\ pc[starts] = "unborn"  BY <2>1 DEF TypeInv, BornInv
  <2>3. todo[starts] = <<>> /\ todo[StartScript] = <<>>  BY <2>1, <2>2 DEF TypeInv, IdleInv
  <2>4. \A o \in Pids : o # starts => pc'[o] = pc[o]  BY <2>1
  <2>5. VarsInv'
    <3>1. pc' \in [Pids -> Points]  BY <2>1 DEF TypeInv, VarsInv, Points
    <3> QED BY <1>2, <2>1, <3>1 DEF TypeInv, VarsInv, Launch, fileVars, gitVars
  <2>6. BornInv'
    <3>1. \A o \in Pids : o > starts => o # starts  BY <2>2, Facts
    <3> QED BY <2>1, <2>2, <2>4, <3>1 DEF TypeInv, BornInv
  <2> QED BY <2>1, <2>3, <2>4, <2>5, <2>6, QuietFrame
<1>3. CASE SavePid
  <2>1. /\ launcher = "pid" /\ launcher' = "idle" /\ pc' = pc /\ starts' = starts
        /\ pidfile' = starts /\ UNCHANGED <<state, tmp, torn, todo, job, alive>>
    BY <1>3 DEF SavePid, fileVars, gitVars
  <2>2. starts \in Pids  BY <2>1 DEF TypeInv, BornInv
  <2>3. VarsInv'  BY <1>3, <2>1, <2>2 DEF TypeInv, VarsInv, SavePid, fileVars, gitVars
  <2>4. BornInv'  BY <2>1 DEF TypeInv, BornInv
  <2>5. todo[StartScript] = <<>>  BY <2>1 DEF TypeInv, IdleInv
  <2> QED BY <2>1, <2>3, <2>4, <2>5, QuietFrame
<1> QED BY <1>1, <1>2, <1>3

\* The loop of orchestrator.sh, and SIGTERM.
LEMMA LoopType == ASSUME TypeInv, NEW o \in Pids, Loop(o) \/ Terminate(o) PROVE TypeInv'
<1>1. /\ UNCHANGED <<state, tmp, torn, todo, job, alive, launcher, starts, branches, unmerged>>
      /\ handler' \in [Pids -> Handlers \cup Phases \cup {"", None}]
      /\ \E x \in Points \ {"unborn"} : pc' = pc \/ (todo[o] = <<>> /\ pc[o] # "unborn" /\ pc' = [pc EXCEPT ![o] = x])
      /\ pidfile' \in Pids \cup {None} /\ terminated' \subseteq Pids /\ conflicts' \subseteq Pids
  <2> DEFINE Goal == /\ UNCHANGED <<state, tmp, torn, todo, job, alive, launcher, starts, branches, unmerged>>
                     /\ handler' \in [Pids -> Handlers \cup Phases \cup {"", None}]
                     /\ \E x \in Points \ {"unborn"} :
                          pc' = pc \/ (todo[o] = <<>> /\ pc[o] # "unborn" /\ pc' = [pc EXCEPT ![o] = x])
                     /\ pidfile' \in Pids \cup {None} /\ terminated' \subseteq Pids /\ conflicts' \subseteq Pids
  <2> USE DEF TypeInv, VarsInv, IdleInv, Points, fileVars, startVars, gitVars
  <2>1. CASE CheckPidFile(o)  BY <2>1 DEF CheckPidFile
  <2>2. CASE WritePid(o)  BY <2>2 DEF WritePid
  <2>3. CASE Poll(o)
    <3>1. Now.phase \in Phases \cup {""}  BY NowFacts
    <3> QED BY <2>3, <3>1 DEF Poll
  <2>4. CASE ReadOwner(o)  BY <2>4 DEF ReadOwner
  <2>5. CASE ReadNeeded(o)  BY <2>5 DEF ReadNeeded
  <2>6. CASE HandlerReturns(o)  BY <2>6 DEF HandlerReturns
  <2>7. CASE Cleanup(o)  BY <2>7 DEF Cleanup
  <2>8. CASE Terminate(o)
    <3>1. pc' = pc /\ terminated' \subseteq Pids  BY <2>8 DEF Terminate
    <3>2. "check" \in Points \ {"unborn"}  BY DEF Points
    <3>3. \E x \in Points \ {"unborn"} : pc' = pc \/ (todo[o] = <<>> /\ pc[o] # "unborn" /\ pc' = [pc EXCEPT ![o] = x])
      BY <3>1, <3>2
    <3> QED BY <2>8, <3>1, <3>3 DEF Terminate
  <2> QED BY <2>1, <2>2, <2>3, <2>4, <2>5, <2>6, <2>7, <2>8 DEF Loop
<1>2. PICK x \in Points \ {"unborn"} : pc' = pc \/ (todo[o] = <<>> /\ pc[o] # "unborn" /\ pc' = [pc EXCEPT ![o] = x])
  BY <1>1
<1>3. /\ pc' \in [Pids -> Points] /\ \A w \in Pids : pc'[w] # pc[w] => w = o /\ pc[o] # "unborn" /\ todo[o] = <<>>
  BY <1>2 DEF TypeInv, VarsInv
<1>4. VarsInv'  BY <1>1, <1>3 DEF TypeInv, VarsInv
<1>5. BornInv'  BY <1>1, <1>3 DEF TypeInv, BornInv
<1>6. launcher' # "update" => todo[StartScript] = <<>>  BY <1>1 DEF TypeInv, IdleInv
<1> QED BY <1>1, <1>3, <1>4, <1>5, <1>6, QuietFrame

\* A handler starts.
LEMMA BeginType ==
  ASSUME TypeInv, NEW o \in Pids, NEW h, NEW program \in Seq(Commands), Begin(o, h, program),
         alive' = alive, branches' \subseteq Builders, unmerged' = unmerged
  PROVE TypeInv'
<1>1. /\ pc[o] = "begin" /\ pc' = [pc EXCEPT ![o] = "handler"] /\ todo' = [todo EXCEPT ![o] = program]
      /\ UNCHANGED <<state, tmp, torn, pidfile, job, starts, launcher, handler, terminated, conflicts>>
  BY DEF Begin, fileVars, startVars
<1>2. todo[o] = <<>>  BY <1>1 DEF TypeInv, IdleInv
<1>3. /\ pc' \in [Pids -> Points] /\ pc'[o] = "handler"
      /\ \A w \in Pids \ {o} : pc'[w] = pc[w]
  BY <1>1 DEF TypeInv, VarsInv, Points
<1>4. BornInv'  BY <1>1, <1>3 DEF TypeInv, BornInv
<1>5. todo' \in [Processes -> Seq(Commands)] => VarsInv'  BY <1>1, <1>3 DEF TypeInv, VarsInv
<1>6. o \in Processes /\ o # StartScript  BY Facts
<1>7. \A w \in Pids : IF w = o THEN pc'[w] = "handler" ELSE pc'[w] = pc[w]  BY <1>3
<1> QED BY <1>1, <1>2, <1>4, <1>5, <1>6, <1>7, ProgramFrame

\* The handlers that only update the state.
LEMMA DesignType ==
  ASSUME TypeInv, NEW o \in Pids, DesignProgram(o) \/ DesignProgramFails(o) \/ DesignBuild(o)
  PROVE TypeInv'
<1>1. <<Touch>> \in Seq(Commands)
  <2>1. Touch \in Commands  BY CommandTypes
  <2> QED BY <2>1
<1>2. CASE DesignProgram(o)
  <2> DEFINE program == <<Save([components |-> {}]), Set([phase |-> "design"]), Set([owner |-> "ci"]),
                          Set([needed |-> "approve_design"])>>
  <2>1. /\ Save([components |-> {}]) \in Commands /\ Set([phase |-> "design"]) \in Commands
        /\ Set([owner |-> "ci"]) \in Commands /\ Set([needed |-> "approve_design"]) \in Commands
    <3>1. "design" \in Phases /\ "ci" \in Owners /\ "approve_design" \in Needs  BY DEF Phases, Owners, Needs
    <3>2. {} \in SUBSET Builders  OBVIOUS
    <3> QED BY <3>1, <3>2, SingleFields, CommandTypes
  <2>2. program \in Seq(Commands)  BY <2>1
  <2>3. Begin(o, "design_program", program) /\ UNCHANGED gitVars  BY <1>2 DEF DesignProgram
  <2> HIDE DEF program
  <2> QED BY <2>2, <2>3, BeginType DEF TypeInv, VarsInv, gitVars
<1>3. CASE DesignProgramFails(o)
  <2>1. Begin(o, "design_program", <<Touch>>) /\ UNCHANGED gitVars  BY <1>3 DEF DesignProgramFails
  <2> QED BY <1>1, <2>1, BeginType DEF TypeInv, VarsInv, gitVars
<1>4. CASE DesignBuild(o) /\ Now.components = None
  <2>1. Begin(o, "design_build", <<Touch>>) /\ UNCHANGED gitVars  BY <1>4 DEF DesignBuild
  <2> QED BY <1>1, <2>1, BeginType DEF TypeInv, VarsInv, gitVars
<1>5. CASE DesignBuild(o) /\ Now.components # None
  <2> DEFINE table == [b \in Now.components |-> [status |-> "pending", pid |-> None]]
             program == <<Save([execution |-> table]), Set([phase |-> "execution"]), Set([needed |-> "spawn_builders"])>>
  <2>1. Now.components \in SUBSET Builders  BY <1>5, NowFacts
  <2>2. table \in Tables  BY <2>1 DEF Tables, BuilderRecord
  <2>3. /\ Save([execution |-> table]) \in Commands /\ Set([phase |-> "execution"]) \in Commands
        /\ Set([needed |-> "spawn_builders"]) \in Commands
    <3>1. "execution" \in Phases /\ "spawn_builders" \in Needs  BY DEF Phases, Needs
    <3> HIDE DEF table
    <3> QED BY <2>2, <3>1, SingleFields, CommandTypes
  <2>4. /\ Begin(o, "design_build", program) /\ alive' = alive /\ unmerged' = unmerged
        /\ \E created \in SUBSET Now.components : branches' = branches \cup created
    BY <1>5 DEF DesignBuild
  <2> HIDE DEF table
  <2>5. program \in Seq(Commands)  BY <2>3
  <2>6. branches' \subseteq Builders  BY <2>1, <2>4 DEF TypeInv, VarsInv
  <2> HIDE DEF program
  <2> QED BY <2>4, <2>5, <2>6, BeginType
<1> QED BY <1>2, <1>3, <1>4, <1>5

\* The loops over the builders.
LEMMA LoopsType ==
  ASSUME TypeInv, NEW o \in Pids, Execution(o) \/ MergeBuild(o) \/ MergeBuildFails(o)
  PROVE TypeInv'
<1> DEFINE table == Now.execution
<1>1. /\ Set([phase |-> "merge_build"]) \in Commands /\ Set([phase |-> "storage"]) \in Commands
      /\ Set([needed |-> "merge_branches"]) \in Commands /\ Set([owner |-> "user"]) \in Commands
      /\ Touch \in Commands
  <2>1. "merge_build" \in Phases /\ "storage" \in Phases /\ "merge_branches" \in Needs /\ "user" \in Owners
    BY DEF Phases, Needs, Owners
  <2> QED BY <2>1, SingleFields, CommandTypes
<1>2. table # None => DOMAIN table \in SUBSET Builders /\ Cardinality(DOMAIN table) \in Nat
  BY NowFacts, SetToSeqFacts
<1>3. alive' = alive /\ unmerged' = unmerged /\ branches' \subseteq Builders
  BY DEF Execution, MergeBuild, MergeBuildFails, gitVars, TypeInv, VarsInv
<1>4. CASE Execution(o)
  <2> DEFINE finish == <<Monitor(1, Cardinality(DOMAIN table), TRUE),
                         Set([phase |-> "merge_build"]), Touch, Set([needed |-> "merge_branches"])>>
             program == IF table = None THEN <<>>
                        ELSE IF table = <<>> THEN <<Set([phase |-> "merge_build"])>>
                        ELSE SpawnAll(DOMAIN table) \o finish
  <2>1. Begin(o, "execution", program)  BY <1>4 DEF Execution
  <2> HIDE DEF table
  <2>2. table # None => finish \in Seq(Commands)
    <3> DEFINE first == Monitor(1, Cardinality(DOMAIN table), TRUE)
    <3>1. 1 \in Nat \ {0} /\ TRUE \in BOOLEAN  OBVIOUS
    <3>2. table # None => first \in Commands  BY <1>2, <3>1, CommandTypes, Zenon
    <3>3. finish = <<first, Set([phase |-> "merge_build"]), Touch, Set([needed |-> "merge_branches"])>>  OBVIOUS
    <3> HIDE DEF first, finish
    <3> QED BY <1>1, <3>2, <3>3
  <2>3. program \in Seq(Commands)
    <3>1. <<>> \in Seq(Commands) /\ <<Set([phase |-> "merge_build"])>> \in Seq(Commands)  BY <1>1
    <3>2. table # None => SpawnAll(DOMAIN table) \in Seq(Commands)  BY <1>2, SpawnAllFacts
    <3> HIDE DEF finish
    <3> QED BY <2>2, <3>1, <3>2, Concatenation
  <2> HIDE DEF program
  <2> QED BY <1>3, <2>1, <2>3, BeginType
<1>5. CASE MergeBuild(o)
  <2> DEFINE done == {b \in DOMAIN table : table[b].status = "completed"}
             program == IF table = None THEN <<>>
                        ELSE IF table = <<>> THEN <<Set([phase |-> "storage"]), Set([owner |-> "user"])>>
                        ELSE MergeAll(done) \o <<Conclude>>
  <2>1. Begin(o, "merge_build", program)  BY <1>5 DEF MergeBuild
  <2> HIDE DEF table
  <2>2. <<Conclude>> \in Seq(Commands)  BY CommandTypes
  <2>3. program \in Seq(Commands)
    <3>1. <<>> \in Seq(Commands) /\ <<Set([phase |-> "storage"]), Set([owner |-> "user"])>> \in Seq(Commands)  BY <1>1
    <3>2. table # None => MergeAll(done) \in Seq(Commands)
      <4>1. table # None => done \in SUBSET Builders  BY <1>2
      <4> HIDE DEF done
      <4> QED BY <4>1, MergeAllFacts
    <3> HIDE DEF done
    <3> QED BY <2>2, <3>1, <3>2, Concatenation
  <2> HIDE DEF program
  <2> QED BY <1>3, <2>1, <2>3, BeginType
<1>6. CASE MergeBuildFails(o)
  <2> DEFINE program == <<>>
  <2>1. Begin(o, "merge_build", program) /\ program \in Seq(Commands)  BY <1>6 DEF MergeBuildFails
  <2> HIDE DEF program
  <2> QED BY <1>3, <2>1, BeginType
<1> QED BY <1>4, <1>5, <1>6

\* The edits of the user.
LEMMA UserType == ASSUME TypeInv, ApproveDesign \/ ResolveConflicts \/ NameHandler PROVE TypeInv'
<1>1. PICK f \in Fields : UserEdits(f)
  <2>1. CASE ApproveDesign  BY <2>1, EditFields DEF ApproveDesign
  <2>2. CASE ResolveConflicts  BY <2>2, EditFields DEF ResolveConflicts
  <2>3. CASE NameHandler
    <3>1. HandlerOf(Now.phase) \in Needs  BY <2>3 DEF NameHandler, HandlerOf, Needs, Handlers
    <3> QED BY <2>3, <3>1, SingleFields DEF NameHandler
  <2> QED BY <2>1, <2>2, <2>3
<1>2. Edit(f) \in Commands  BY CommandTypes
<1> DEFINE program == <<Edit(f)>>
<1>3. program \in Seq(Commands)  BY <1>2
<1>4. /\ todo[Editor] = <<>> /\ todo' = [todo EXCEPT ![Editor] = program]
      /\ UNCHANGED <<state, tmp, torn, pidfile, job, starts, launcher, pc, handler, terminated, conflicts,
                     alive, branches, unmerged>>
  BY <1>1 DEF UserEdits, fileVars, startVars, gitVars
<1> HIDE DEF program
<1>5. BornInv'  BY <1>4 DEF TypeInv, BornInv
<1>6. todo' \in [Processes -> Seq(Commands)] => VarsInv'  BY <1>4 DEF TypeInv, VarsInv
<1>7. Editor \in Processes /\ Editor # StartScript /\ \A o \in Pids : o # Editor  BY Facts
<1> QED BY <1>3, <1>4, <1>5, <1>6, <1>7, ProgramFrame

\* The same for a command that is only dropped.
LEMMA DropFrame ==
  ASSUME TypeInv, NEW o \in Pids, todo[o] # <<>>, Head(todo[o]).op \notin Updates, Replace(o, <<>>),
         conflicts' \subseteq Pids, alive' = alive, branches' \subseteq Builders, unmerged' \subseteq Builders,
         \A w \in Pids, b \in Builders : <<w, b>> \in alive => w # o
  PROVE TypeInv'
<1> DEFINE program == <<>>
<1>1. program \in Seq(Commands) /\ Len(program) = 0 /\ Replace(o, program)  OBVIOUS
<1> HIDE DEF program
<1>2. alive' \subseteq Pids \X Builders  BY DEF TypeInv, VarsInv
<1>4. \A w \in Pids, b \in Builders : <<w, b>> \in alive' => w # o /\ <<w, b>> \in alive  OBVIOUS
<1> QED BY <1>1, <1>2, <1>4, ReplaceFrame

\* The commands of the handlers that are not updates of the state.
LEMMA CommandsType ==
  ASSUME TypeInv, NEW o \in Pids,
         SpawnBuilder(o) \/ SpawnReturns(o) \/ MonitorBuilders(o)
           \/ MergeSkipped(o) \/ MergeClean(o) \/ MergeConflicts(o) \/ ConcludeMerge(o)
  PROVE TypeInv'
<1> DEFINE c == Head(todo[o])
           b == c.builder
<1>1. todo[o] \in Seq(Commands) /\ o \in Processes  BY Facts DEF TypeInv, VarsInv
<1>2. todo[o] # <<>> => c \in Commands /\ c = todo[o][1] /\ 1 \in 1..Len(todo[o])  BY <1>1, HeadTail
<1>6. ASSUME NEW w \in Pids, NEW x \in Builders, <<w, x>> \in alive
      PROVE todo[w] # <<>> /\ Head(todo[w]).op = "await" /\ Head(todo[w]).builder = x
  <2>1. todo[w] # <<>> /\ Head(todo[w]) = [op |-> "await", builder |-> x]  BY <1>6 DEF TypeInv, AliveInv
  <2> QED BY <2>1
<1>7. /\ alive \subseteq Pids \X Builders /\ branches \subseteq Builders /\ unmerged \subseteq Builders
      /\ conflicts \subseteq Pids
  BY DEF TypeInv, VarsInv
<1>8. CASE SpawnBuilder(o)
  <2>1. /\ todo[o] # <<>> /\ c.op = "spawn" /\ conflicts' = conflicts /\ branches' = branches /\ unmerged' = unmerged
        /\ \/ /\ Replace(o, <<[op |-> "await", builder |-> b], SetBuilder(b, [pid |-> o])>>)
              /\ alive' = IF b \in branches THEN alive \cup {<<o, b>>} ELSE alive
           \/ Replace(o, <<>>) /\ alive' = alive
    BY <1>8 DEF SpawnBuilder, Executes
  <2>2. b \in Builders  BY <1>2, <2>1, CommandParts
  <2>3. \A w \in Pids, x \in Builders : <<w, x>> \in alive => w # o  BY <1>6, <2>1
  <2>4. c.op \notin Updates  BY <2>1 DEF Updates
  <2> HIDE DEF b
  <2>5. CASE Replace(o, <<>>) /\ alive' = alive
    BY <1>7, <2>1, <2>3, <2>4, <2>5, DropFrame
  <2>6. CASE /\ Replace(o, <<[op |-> "await", builder |-> b], SetBuilder(b, [pid |-> o])>>)
             /\ alive' = IF b \in branches THEN alive \cup {<<o, b>>} ELSE alive
    <3> DEFINE program == <<[op |-> "await", builder |-> b], SetBuilder(b, [pid |-> o])>>
    <3>1. [pid |-> o] \in BuilderFields  BY DEF BuilderFields
    <3>2. [op |-> "await", builder |-> b] \in Commands /\ SetBuilder(b, [pid |-> o]) \in Commands
      BY <2>2, <3>1, CommandTypes
    <3>3. program \in Seq(Commands) /\ Len(program) = 2 /\ program[1] = [op |-> "await", builder |-> b]  BY <3>2
    <3>4. alive' \subseteq Pids \X Builders  BY <1>7, <2>2, <2>6
    <3>5. \A w \in Pids, x \in Builders : <<w, x>> \in alive' => (w # o /\ <<w, x>> \in alive) \/ (w = o /\ x = b)
      BY <2>3, <2>6
    <3> HIDE DEF program
    <3>6. Replace(o, program)  BY <2>6 DEF program
    <3> QED BY <1>7, <2>1, <2>2, <2>4, <3>3, <3>4, <3>5, <3>6, ReplaceFrame
  <2> QED BY <2>1, <2>5, <2>6
<1>9. CASE SpawnReturns(o)
  <2>1. /\ todo[o] # <<>> /\ c.op = "await" /\ <<o, b>> \notin alive /\ Replace(o, <<>>)
        /\ UNCHANGED <<conflicts, alive, branches, unmerged>>
    BY <1>9 DEF SpawnReturns, Executes, gitVars
  <2>2. \A w \in Pids, x \in Builders : <<w, x>> \in alive => w # o  BY <1>6, <2>1
  <2>3. c.op \notin Updates  BY <2>1 DEF Updates
  <2> QED BY <1>7, <2>1, <2>2, <2>3, DropFrame
<1>10. CASE MonitorBuilders(o)
  <2> DEFINE x == BuilderAt(c.index)
             over == IF c.complete THEN <<>> ELSE <<Monitor(1, c.count, TRUE)>>
             ended == IF Running(x) /\ Ended(x) THEN <<SetBuilder(x, [status |-> "completed"])>> ELSE <<>>
             next == <<Monitor(c.index + 1, c.count, c.complete /\ (Running(x) => Ended(x)))>>
             program == IF c.index > c.count THEN over ELSE ended \o next
  <2>1. /\ todo[o] # <<>> /\ c.op = "monitor" /\ UNCHANGED <<conflicts, alive, branches, unmerged>>
        /\ Replace(o, program)
    BY <1>10 DEF MonitorBuilders, Executes, gitVars
  <2>2. \A w \in Pids, y \in Builders : <<w, y>> \in alive => w # o  BY <1>6, <2>1
  <2>3. c.op \notin Updates  BY <2>1 DEF Updates
  <2>4. c.index \in Nat \ {0} /\ c.count \in Nat  BY <1>2, <2>1, CommandParts
  <2>5. over \in Seq(Commands)
    <3> DEFINE again == Monitor(1, c.count, TRUE)
    <3>1. 1 \in Nat \ {0} /\ TRUE \in BOOLEAN  OBVIOUS
    <3>2. again \in Commands  BY <2>4, <3>1, CommandTypes, Zenon
    <3>3. over = IF c.complete THEN <<>> ELSE <<again>>  OBVIOUS
    <3> HIDE DEF again, over
    <3> QED BY <3>2, <3>3
  <2>6. next \in Seq(Commands)
    <3> DEFINE flag == c.complete /\ (Running(x) => Ended(x))
    <3>1. flag \in BOOLEAN  OBVIOUS
    <3>2. c.index + 1 \in Nat \ {0}  BY <2>4
    <3> HIDE DEF flag
    <3>3. Monitor(c.index + 1, c.count, flag) \in Commands  BY <2>4, <3>1, <3>2, CommandTypes
    <3> QED BY <3>3 DEF flag
  <2>7. ended \in Seq(Commands)
    <3>1. CASE Running(x)
      <4>1. x # None  BY <3>1 DEF Running
      <4>2. Now.execution # None /\ c.index <= Cardinality(DOMAIN Now.execution) /\ x = SetToSeq(DOMAIN Now.execution)[c.index]
        BY <4>1 DEF BuilderAt
      <4>4. DOMAIN Now.execution \in SUBSET Builders  BY <4>2, NowFacts
      <4>5. x \in Builders  BY <2>4, <4>2, <4>4, SetToSeqFacts
      <4>6. [status |-> "completed"] \in BuilderFields  BY DEF BuilderFields
      <4> HIDE DEF x
      <4>7. SetBuilder(x, [status |-> "completed"]) \in Commands  BY <4>5, <4>6, CommandTypes
      <4> QED BY <4>7
    <3>2. CASE ~Running(x)  BY <3>2
    <3> QED BY <3>1, <3>2
  <2> HIDE DEF over, ended, next
  <2>8. program \in Seq(Commands)  BY <2>5, <2>6, <2>7, Concatenation
  <2> HIDE DEF program
  <2>9. \A w \in Pids, y \in Builders : <<w, y>> \in alive' => w # o /\ <<w, y>> \in alive  BY <2>1, <2>2
  <2> QED BY <1>7, <2>1, <2>3, <2>8, <2>9, ReplaceFrame
<1>11. CASE MergeSkipped(o) \/ MergeClean(o) \/ MergeConflicts(o)
  <2>1. /\ todo[o] # <<>> /\ c.op = "merge" /\ Replace(o, <<>>) /\ alive' = alive
        /\ branches' \subseteq branches /\ unmerged' \subseteq unmerged /\ conflicts' \subseteq conflicts \cup {o}
    BY <1>11 DEF MergeSkipped, MergeClean, MergeConflicts, Executes, gitVars
  <2>2. \A w \in Pids, x \in Builders : <<w, x>> \in alive => w # o  BY <1>6, <2>1
  <2>3. c.op \notin Updates  BY <2>1 DEF Updates
  <2> QED BY <1>7, <2>1, <2>2, <2>3, DropFrame
<1>12. CASE ConcludeMerge(o)
  <2> DEFINE bad == <<Set([needed |-> "resolve_conflicts"]), Set([owner |-> "ci"]), SaveConflicts>>
             good == <<Set([phase |-> "storage"]), Set([owner |-> "user"]), Set([needed |-> "none"])>>
  <2>1. /\ todo[o] # <<>> /\ c.op = "conclude" /\ (Replace(o, bad) \/ Replace(o, good))
        /\ UNCHANGED <<conflicts, alive, branches, unmerged>>
    BY <1>12 DEF ConcludeMerge, Executes, gitVars
  <2>2. \A w \in Pids, x \in Builders : <<w, x>> \in alive => w # o  BY <1>6, <2>1
  <2>3. c.op \notin Updates  BY <2>1 DEF Updates
  <2>4. /\ Set([needed |-> "resolve_conflicts"]) \in Commands /\ Set([owner |-> "ci"]) \in Commands
        /\ SaveConflicts \in Commands /\ Set([phase |-> "storage"]) \in Commands
        /\ Set([owner |-> "user"]) \in Commands /\ Set([needed |-> "none"]) \in Commands
    <3>1. "resolve_conflicts" \in Needs /\ "none" \in Needs /\ "ci" \in Owners /\ "user" \in Owners /\ "storage" \in Phases
      BY DEF Needs, Owners, Phases
    <3> QED BY <3>1, SingleFields, CommandTypes
  <2>5. bad \in Seq(Commands) /\ good \in Seq(Commands)  BY <2>4
  <2> HIDE DEF bad, good
  <2>6. CASE Replace(o, bad)  BY <1>7, <2>1, <2>2, <2>3, <2>5, <2>6, ReplaceFrame
  <2>7. CASE Replace(o, good)  BY <1>7, <2>1, <2>2, <2>3, <2>5, <2>7, ReplaceFrame
  <2> QED BY <2>1, <2>6, <2>7
<1> QED BY <1>8, <1>9, <1>10, <1>11, <1>12

\* A builder ends.
LEMMA BuilderEndsType == ASSUME TypeInv, NEW o \in Pids, NEW b \in Builders, BuilderEnds(o, b) PROVE TypeInv'
<1>1. /\ alive' \subseteq alive /\ unmerged' \subseteq unmerged \cup {b}
      /\ UNCHANGED <<state, tmp, torn, pidfile, todo, job, starts, launcher, pc, handler, terminated, conflicts, branches>>
  BY DEF BuilderEnds, fileVars, startVars
<1>2. FilesInv' /\ JobInv'  BY <1>1 DEF TypeInv, FilesInv, JobInv
<1>3. VarsInv'  BY <1>1 DEF TypeInv, VarsInv
<1>4. IdleInv' /\ BornInv'  BY <1>1 DEF TypeInv, IdleInv, BornInv
<1>5. AliveInv'  BY <1>1 DEF TypeInv, AliveInv
<1> QED BY <1>2, <1>3, <1>4, <1>5 DEF TypeInv

\* Every step of the relay keeps it.
LEMMA NextType == TypeInv /\ [Next]_vars => TypeInv'
<1> SUFFICES ASSUME TypeInv, [Next]_vars PROVE TypeInv'
  OBVIOUS
<1>1. ASSUME NEW p \in Processes, UpdateState(p) PROVE TypeInv'
  BY <1>1, OpenTmpType, ReadStateType, WriteTextType, RenameType, SkipRenameType, DeleteTmpType DEF UpdateState
<1>2. CASE StartWorkflow  BY <1>2, StartWorkflowType
<1>3. CASE Start  BY <1>1, <1>3, LauncherType, Facts DEF Start
<1>4. CASE User  BY <1>1, <1>4, UserType, Facts DEF User
<1>5. CASE UNCHANGED vars \/ Over
  <2>1. UNCHANGED vars  BY <1>5 DEF Over
  <2> QED BY <2>1 DEF vars, TypeInv, VarsInv, FilesInv, JobInv, IdleInv, BornInv, AliveInv
<1>6. CASE \E o \in Pids : Loop(o) \/ Handle(o) \/ Terminate(o) \/ \E b \in Builders : BuilderEnds(o, b)
  <2>1. PICK o \in Pids : Loop(o) \/ Handle(o) \/ Terminate(o) \/ \E b \in Builders : BuilderEnds(o, b)  BY <1>6
  <2>2. CASE Loop(o) \/ Terminate(o)  BY <2>2, LoopType
  <2>3. CASE Handle(o)
    <3>1. CASE DesignProgram(o) \/ DesignProgramFails(o) \/ DesignBuild(o)  BY <3>1, DesignType
    <3>2. CASE Execution(o) \/ MergeBuild(o) \/ MergeBuildFails(o)  BY <3>2, LoopsType
    <3>3. CASE SpawnBuilder(o) \/ SpawnReturns(o) \/ MonitorBuilders(o)
                 \/ MergeSkipped(o) \/ MergeClean(o) \/ MergeConflicts(o) \/ ConcludeMerge(o)
      BY <3>3, CommandsType
    <3>4. CASE UpdateState(o)  BY <1>1, <3>4, Facts
    <3> QED BY <2>3, <3>1, <3>2, <3>3, <3>4 DEF Handle
  <2>4. CASE \E b \in Builders : BuilderEnds(o, b)  BY <2>4, BuilderEndsType
  <2> QED BY <2>1, <2>2, <2>3, <2>4
<1> QED BY <1>2, <1>3, <1>4, <1>5, <1>6 DEF Next

\* What several processes make of state.json and of its one temporary name is empty or
\* begins with a whole state, for any number of builders and of runs of
\* start_workflow.sh, although each update truncates, reads, writes and renames in steps
\* of their own (update_state).
THEOREM TypeCorrect == Spec => []TypeOK
<1>1. Spec => []TypeInv  BY InitTypeInv, NextType, PTL DEF Spec
<1> QED BY <1>1, TypeInvSuffices, PTL
-----------------------------------------------------------------------------
(* No committed work is thrown away *)

\* At most one orchestrator runs: a start of the workflow finds the earlier one gone.
NoOverlap == \A o, w \in Pids : Alive(o) /\ Alive(w) => o = w

\* A builder that runs has its branch, and so have its commits until they are merged.
GitInv ==
  /\ \A o \in Pids, b \in Builders : <<o, b>> \in alive => b \in branches
  /\ unmerged \subseteq branches

\* The steps that touch neither git nor builders.
LEMMA GitUnchanged ==
  ASSUME [Next]_vars
  PROVE \/ UNCHANGED gitVars
        \/ \E o \in Pids : \/ DesignBuild(o) \/ SpawnBuilder(o) \/ MergeClean(o)
                           \/ \E b \in Builders : BuilderEnds(o, b)
<1> USE DEF gitVars
<1>1. ASSUME NEW p, UpdateState(p) PROVE UNCHANGED gitVars  BY <1>1 
    DEF UpdateState, OpenTmp, ReadState, WriteText, Rename, SkipRename, DeleteTmp
<1>2. CASE StartWorkflow  BY <1>2 DEF StartWorkflow
<1>3. CASE Start  BY <1>1, <1>3 DEF Start, StopPrevious, Launch, SavePid
<1>4. CASE User  BY <1>1, <1>4 DEF User, ApproveDesign, ResolveConflicts, NameHandler, UserEdits
<1>5. CASE UNCHANGED vars \/ Over  BY <1>5 DEF vars, Over
<1>6. ASSUME NEW o \in Pids, Loop(o) \/ Handle(o) \/ Terminate(o) \/ \E b \in Builders : BuilderEnds(o, b)
      PROVE \/ UNCHANGED gitVars
            \/ DesignBuild(o) \/ SpawnBuilder(o) \/ MergeClean(o)
            \/ \E b \in Builders : BuilderEnds(o, b)
  <2>1. CASE Loop(o) \/ Terminate(o)
    BY <2>1 DEF Loop, Terminate, CheckPidFile, WritePid, Poll, ReadOwner, ReadNeeded, HandlerReturns, Cleanup
  <2>2. CASE Handle(o)
    BY <1>1, <2>2 DEF Handle, DesignProgram, DesignProgramFails, Execution, MergeBuild, MergeBuildFails, SpawnReturns,
                      MonitorBuilders, MergeSkipped, MergeConflicts, ConcludeMerge
  <2> QED BY <1>6, <2>1, <2>2
<1> QED BY <1>2, <1>3, <1>4, <1>5, <1>6 DEF Next

\* A branch is deleted by a merge; a builder of the same orchestrator has ended by then,
\* and there is no other orchestrator.
LEMMA NextGit == TypeInv /\ NoOverlap /\ GitInv /\ [Next]_vars => GitInv'
<1> SUFFICES ASSUME TypeInv, NoOverlap, GitInv, [Next]_vars PROVE GitInv'
  OBVIOUS
<1>1. CASE UNCHANGED gitVars  BY <1>1 DEF GitInv, gitVars
<1>2. ASSUME NEW o \in Pids, DesignBuild(o) PROVE GitInv'
  <2>1. alive' = alive /\ unmerged' = unmerged /\ branches \subseteq branches'
    BY <1>2 DEF DesignBuild, gitVars
  <2> QED BY <2>1 DEF GitInv
<1>3. ASSUME NEW o \in Pids, SpawnBuilder(o) PROVE GitInv'
  <2> DEFINE b == Head(todo[o]).builder
  <2>1. /\ branches' = branches /\ unmerged' = unmerged
        /\ alive' = alive \/ (b \in branches /\ alive' = alive \cup {<<o, b>>})
    BY <1>3 DEF SpawnBuilder
  <2> HIDE DEF b
  <2> QED BY <2>1 DEF GitInv
<1>4. ASSUME NEW o \in Pids, MergeClean(o) PROVE GitInv'
  <2> DEFINE b == Head(todo[o]).builder
  <2>1. /\ todo[o] # <<>> /\ Head(todo[o]).op = "merge" /\ alive' = alive
        /\ branches' = branches \ {b} /\ unmerged' = unmerged \ {b}
    BY <1>4 DEF MergeClean, Executes
  <2>2. ASSUME NEW w \in Pids, NEW x \in Builders, <<w, x>> \in alive PROVE FALSE
    <3>1. pc[w] = "handler" /\ todo[w] # <<>> /\ Head(todo[w]) = [op |-> "await", builder |-> x]
      BY <2>2 DEF TypeInv, AliveInv
    <3>2. pc[o] = "handler"  BY <2>1 DEF TypeInv, IdleInv
    <3>3. w = o  BY <3>1, <3>2 DEF NoOverlap, Alive
    <3> QED BY <2>1, <3>1, <3>3
  <2> HIDE DEF b
  <2> QED BY <2>1, <2>2 DEF GitInv
<1>5. ASSUME NEW o \in Pids, NEW b \in Builders, BuilderEnds(o, b) PROVE GitInv'
  <2>1. <<o, b>> \in alive /\ alive' \subseteq alive /\ unmerged' \subseteq unmerged \cup {b} /\ branches' = branches
    BY <1>5 DEF BuilderEnds
  <2> QED BY <2>1 DEF GitInv
<1> QED BY <1>1, <1>2, <1>3, <1>4, <1>5, GitUnchanged

\* While no two orchestrators run at once, no step of merge_build.sh removes the branch of
\* a builder that has commits outside the main branch, however often the workflow is started.
THEOREM WorkNeverDiscarded == Spec /\ []NoOverlap => []NoWorkDiscarded
<1>1. Init => GitInv  BY DEF Init, GitInv
<1>2. GitInv => NoWorkDiscarded  BY DEF GitInv, NoWorkDiscarded
<1>3. Spec => []TypeInv  BY InitTypeInv, NextType, PTL DEF Spec
<1> QED BY <1>1, <1>2, <1>3, NextGit, PTL DEF Spec

\* In particular when start_workflow.sh is run once.
THEOREM WorkOfOneStart == ASSUME MaxStarts = 1 PROVE Spec => []NoWorkDiscarded
<1>1. NoOverlap  BY DEF NoOverlap, Pids
<1> QED BY <1>1, WorkNeverDiscarded, PTL
-----------------------------------------------------------------------------
(* One writer at a time keeps state.json whole *)

\* No two updates are under way at once, which no lock sees to.
OneWriter == \A p, q \in Processes : job[p].at # "open" /\ job[q].at # "open" => p = q

\* An update fails only on the null builders of "jq && mv", and then leaves out the mv.
Fails(c) == c.failure = "skip"

\* What the one update under way has done to the temporary file.
StageInv(p) ==
  /\ job[p].at \in {"read", "write"} => job[p].file = "tmp" /\ tmp = Empty /\ "tmp" \notin torn
  /\ job[p].at \in {"write", "rename"} /\ ~job[p].ok => Fails(Head(todo[p]))
  /\ job[p].at = "write" /\ job[p].ok => job[p].text \in States
  /\ job[p].at = "rename" /\ job[p].ok => tmp \in States /\ "tmp" \notin torn

WholeInv ==
  /\ state \in States /\ "state" \notin torn
  /\ \A p \in Processes : StageInv(p)

\* Steps that are no part of an update.
LEMMA OutsideUpdates ==
  ASSUME TypeInv, [Next]_vars
  PROVE \/ \E p \in Processes : UpdateState(p)
        \/ /\ UNCHANGED <<state, tmp, torn, job>>
           /\ \A p \in Processes : job[p].at # "open" => todo'[p] = todo[p]
<1> DEFINE Outside == /\ UNCHANGED <<state, tmp, torn, job>>
                      /\ \A p \in Processes : job[p].at # "open" => todo'[p] = todo[p]
<1>0. /\ todo \in [Processes -> Seq(Commands)]
      /\ \A p \in Processes : job[p].at # "open" => todo[p] # <<>> /\ Head(todo[p]).op \in Updates
  BY DEF TypeInv, VarsInv, JobInv
<1>1. ASSUME UNCHANGED <<state, tmp, torn, job>>, todo' = todo PROVE Outside
  BY <1>1
<1>2. ASSUME UNCHANGED <<state, tmp, torn, job>>, NEW p \in Processes,
             todo[p] = <<>> \/ Head(todo[p]).op \notin Updates,
             NEW x, todo' = [todo EXCEPT ![p] = x]
      PROVE Outside
  BY <1>0, <1>2
<1> USE DEF fileVars
<1>3. CASE StartWorkflow
  <2>1. todo[StartScript] = <<>>  BY <1>3 DEF StartWorkflow, TypeInv, IdleInv
  <2> QED BY <1>2, <1>3, <2>1, Facts DEF StartWorkflow
<1>4. CASE StopPrevious \/ Launch \/ SavePid  BY <1>1, <1>4 DEF StopPrevious, Launch, SavePid
<1>5. CASE ApproveDesign \/ ResolveConflicts \/ NameHandler
  <2>1. PICK f : UserEdits(f)  BY <1>5 DEF ApproveDesign, ResolveConflicts, NameHandler
  <2> QED BY <1>2, <2>1, Facts DEF UserEdits
<1>6. CASE UNCHANGED vars \/ Over  BY <1>1, <1>6 DEF vars, Over
<1>7. ASSUME NEW o \in Pids, Loop(o) \/ Terminate(o) \/ \E b \in Builders : BuilderEnds(o, b) PROVE Outside
  <2>1. UNCHANGED <<state, tmp, torn, job, todo>>
    BY <1>7 DEF Loop, CheckPidFile, WritePid, Poll, ReadOwner, ReadNeeded, HandlerReturns, Cleanup, Terminate, BuilderEnds
  <2> QED BY <1>1, <2>1
<1>8. ASSUME NEW o \in Pids, NEW h, NEW program, Begin(o, h, program) PROVE Outside
  <2>1. todo[o] = <<>>  BY <1>8 DEF Begin, TypeInv, IdleInv
  <2> QED BY <1>2, <1>8, <2>1, Facts DEF Begin
<1>9. ASSUME NEW o \in Pids, NEW op, op \notin Updates, Executes(o, op), NEW program, Replace(o, program) PROVE Outside
  BY <1>2, <1>9, Facts DEF Executes, Replace
<1>10. ASSUME NEW o \in Pids, Handle(o) PROVE Outside \/ UpdateState(o)
  <2>0. {"spawn", "await", "monitor", "merge", "conclude"} \cap Updates = {}  BY DEF Updates
  <2> HIDE DEF Outside
  <2>1. CASE \/ DesignProgram(o) \/ DesignProgramFails(o) \/ DesignBuild(o) \/ Execution(o)
             \/ MergeBuild(o) \/ MergeBuildFails(o)
    BY <1>8, <2>1 DEF DesignProgram, DesignProgramFails, DesignBuild, Execution, MergeBuild, MergeBuildFails
  <2>2. CASE SpawnBuilder(o)  BY <1>9, <2>0, <2>2 DEF SpawnBuilder
  <2>3. CASE SpawnReturns(o)  BY <1>9, <2>0, <2>3 DEF SpawnReturns
  <2>4. CASE MonitorBuilders(o)  BY <1>9, <2>0, <2>4 DEF MonitorBuilders
  <2>5. CASE MergeSkipped(o) \/ MergeClean(o) \/ MergeConflicts(o)
    BY <1>9, <2>0, <2>5 DEF MergeSkipped, MergeClean, MergeConflicts
  <2>6. CASE ConcludeMerge(o)  BY <1>9, <2>0, <2>6 DEF ConcludeMerge
  <2> QED BY <1>10, <2>1, <2>2, <2>3, <2>4, <2>5, <2>6 DEF Handle
<1> QED BY <1>3, <1>4, <1>5, <1>6, <1>7, <1>10, Facts DEF Next, Start, User

\* An update that is alone keeps the file whole.
LEMMA NextWhole ==
  TypeInv /\ OneWriter /\ OneWriter' /\ WholeInv /\ [Next]_vars => WholeInv'
<1> SUFFICES ASSUME TypeInv, OneWriter, OneWriter', WholeInv, [Next]_vars PROVE WholeInv'
  OBVIOUS
<1>1. CASE /\ UNCHANGED <<state, tmp, torn, job>>
           /\ \A p \in Processes : job[p].at # "open" => todo'[p] = todo[p]
  BY <1>1 DEF WholeInv, StageInv
<1>2. ASSUME NEW p \in Processes, UpdateState(p) PROVE WholeInv'
  <2> DEFINE c == Head(todo[p])
  <2>1. /\ job \in [Processes -> Jobs] /\ todo \in [Processes -> Seq(Commands)]
        /\ job[p].at # "open" => todo[p] # <<>> /\ c.op \in Updates
        /\ state \in States /\ state # Empty /\ Now = state /\ "state" \notin torn
    BY Facts DEF TypeInv, VarsInv, JobInv, WholeInv, Now
  <2>2. ASSUME NEW q \in Processes \ {p}, job'[p].at # "open" \/ job[p].at # "open", job'[q].at = job[q].at
        PROVE job'[q].at = "open" /\ StageInv(q)'
    BY <2>2 DEF OneWriter, StageInv
  <2>3. CASE OpenTmp(p)
    <3>1. /\ job'[p].at = "read" /\ job'[p].file = "tmp" /\ \A q \in Processes \ {p} : job'[q] = job[q]
          /\ tmp' = Empty /\ "tmp" \notin torn' /\ state' = state /\ "state" \notin torn'
      BY <2>1, <2>3 DEF OpenTmp
    <3>2. StageInv(p)'  BY <3>1 DEF StageInv
    <3> QED BY <2>1, <2>2, <3>1, <3>2 DEF WholeInv
  <2>4. CASE ReadState(p)
    <3> DEFINE fine == state = Empty \/ ~(Rejects(c) \/ "state" \in torn)
               text == IF state = Empty \/ Rejects(c) THEN Empty ELSE Apply(state, c)
    <3>1. /\ job[p].at = "read" /\ job' = [job EXCEPT ![p] = [at |-> "write", file |-> job[p].file, text |-> text, ok |-> fine]]
          /\ UNCHANGED <<state, tmp, torn, todo>>
      BY <2>4 DEF ReadState, fileVars
    <3>2. fine <=> ~Rejects(c)  BY <2>1
    <3>3. todo[p] # <<>> /\ c \in Commands  BY <2>1, <3>1, HeadTail
    <3>4. Rejects(c) => Fails(c)  BY <3>3 DEF Rejects, Fails, Commands
    <3>5. ~Rejects(c) => text \in States
      <4>1. SUFFICES ASSUME ~Rejects(c) PROVE Apply(state, c) \in States
        BY <2>1
      <4>2. c.op = "builder" => state.execution # None  BY <2>1, <4>1 DEF Rejects
      <4>3. WholeState(Apply(state, c))  BY <2>1, <3>1, <3>3, <4>2, ApplyWhole, StatesAreWhole
      <4> QED BY <4>3 DEF WholeState
    <3> HIDE DEF fine, text
    <3>6. /\ job'[p] = [at |-> "write", file |-> job[p].file, text |-> text, ok |-> fine]
          /\ \A q \in Processes \ {p} : job'[q] = job[q]
      BY <2>1, <3>1
    <3>7. job[p].file = "tmp" /\ tmp = Empty /\ "tmp" \notin torn  BY <3>1 DEF WholeInv, StageInv
    <3>8. job'[p].at = "write" /\ job'[p].file = "tmp" /\ job'[p].text = text /\ (job'[p].ok <=> fine)
      BY <3>6, <3>7
    <3>9. StageInv(p)'  BY <3>1, <3>2, <3>4, <3>5, <3>7, <3>8 DEF StageInv
    <3> QED BY <2>1, <2>2, <3>1, <3>6, <3>8, <3>9 DEF WholeInv
  <2>5. CASE WriteText(p)
    <3>1. job[p].at = "write" /\ job[p].file = "tmp" /\ tmp = Empty /\ "tmp" \notin torn
      BY <2>5 DEF WriteText, WholeInv, StageInv
    <3>2. /\ job'[p].at = "rename" /\ (job'[p].ok <=> job[p].ok) /\ \A q \in Processes \ {p} : job'[q] = job[q]
          /\ todo' = todo
      BY <2>1, <2>5 DEF WriteText
    <3>3. state' = state /\ torn' = torn
      BY <2>5, <3>1 DEF WriteText
    <3>4. job[p].ok => tmp' \in States
      <4>1. job[p].ok => job[p].text \in States /\ job[p].text # Empty  BY <3>1, Facts DEF WholeInv, StageInv
      <4> QED BY <2>5, <3>1, <4>1 DEF WriteText
    <3>5. ~job[p].ok => Fails(c)  BY <3>1 DEF WholeInv, StageInv
    <3>6. StageInv(p)'  BY <3>1, <3>2, <3>3, <3>4, <3>5 DEF StageInv
    <3> QED BY <2>1, <2>2, <3>1, <3>2, <3>3, <3>6 DEF WholeInv
  <2>6. ASSUME job[p].at = "rename", NEW names, EndUpdate(p, names), state' \in States, "state" \notin torn'
        PROVE WholeInv'
    <3>1. job'[p] = Idle  BY <2>6 DEF EndUpdate
    <3>2. job'[p].at = "open"  BY <3>1 DEF Idle
    <3>3. ASSUME NEW q \in Processes \ {p} PROVE job'[q].at = job[q].at
      <4>1. job[q] \in Jobs  BY <2>1
      <4>2. job'[q] = job[q] \/ \E x : job'[q] = [job[q] EXCEPT !.file = x]  BY <2>6 DEF EndUpdate
      <4> QED BY <4>1, <4>2 DEF Jobs
    <3>4. \A q \in Processes \ {p} : StageInv(q)'  BY <2>2, <2>6, <3>3
    <3>5. StageInv(p)'  BY <3>2 DEF StageInv
    <3> QED BY <2>6, <3>4, <3>5 DEF WholeInv
  <2>7. CASE Rename(p)
    <3>1. job[p].at = "rename" /\ (job[p].ok \/ c.failure = "ignore")  BY <2>7 DEF Rename
    <3>2. job[p].ok  BY <3>1 DEF WholeInv, StageInv, Fails
    <3>3. tmp \in States /\ "tmp" \notin torn /\ tmp # None  BY <3>1, <3>2, Facts DEF WholeInv, StageInv
    <3>4. \E names : EndUpdate(p, names)  BY <2>7 DEF Rename
    <3>5. state' = tmp /\ torn' = {}  BY <2>7, <3>3 DEF Rename
    <3> QED BY <2>6, <3>1, <3>3, <3>4, <3>5
  <2>8. CASE SkipRename(p)
    <3>1. /\ job[p].at = "rename" /\ state' = state /\ torn' = torn /\ \E names : EndUpdate(p, names)
      BY <2>8 DEF SkipRename, fileVars
    <3> QED BY <2>1, <2>6, <3>1
  <2>9. CASE DeleteTmp(p)
    <3>1. /\ job[p].at = "rename" /\ state' = state /\ torn' = torn \ {"tmp"} /\ \E names : EndUpdate(p, names)
      BY <2>9 DEF DeleteTmp
    <3> QED BY <2>1, <2>6, <3>1
  <2> QED BY <1>2, <2>3, <2>4, <2>5, <2>7, <2>8, <2>9 DEF UpdateState
<1> QED BY <1>1, <1>2, OutsideUpdates

\* The claim of update_state, "Atomic update", holds while updates do not overlap: every
\* state.json that a script, a handler or the user reads is then whole, also after an
\* update that jq refuses, for any number of builders and of runs of start_workflow.sh.
THEOREM WholeWithOneWriter == Spec /\ []OneWriter => []~Spoiled
<1>1. Init => WholeInv
  <2> SUFFICES ASSUME Init PROVE WholeInv
    OBVIOUS
  <2>1. InitialState \in States  BY DEF InitialState, States, Phases, Owners, Needs
  <2>2. \A p \in Processes : job[p].at = "open"  BY DEF Init, Idle
  <2>3. \A p \in Processes : StageInv(p)  BY <2>2 DEF StageInv
  <2> QED BY <2>1, <2>3 DEF Init, WholeInv
<1>2. WholeInv => ~Spoiled  BY Facts DEF WholeInv, Spoiled
<1>3. Spec => []TypeInv  BY InitTypeInv, NextType, PTL DEF Spec
<1> QED BY <1>1, <1>2, <1>3, NextWhole, PTL DEF Spec
=============================================================================
