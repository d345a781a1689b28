-------------------------- MODULE ExitQueueProofs --------------------------
(* Proofs about the exit code queue, for every size, every set of children *)
(* and every set of handler threads.                                       *)
EXTENDS ExitQueue, SequenceTheorems, TLAPS

-----------------------------------------------------------------------------
(* The modular step between slots. *)
LEMMA NextIdxCases ==
  ASSUME NEW i \in Slots
  PROVE  NextIdx(i) = IF i = Size - 1 THEN 0 ELSE i + 1
BY SizeAssumption DEF NextIdx, Slots

LEMMA NextIdxType == \A i \in Slots : NextIdx(i) \in Slots
BY NextIdxCases, SizeAssumption DEF Slots

LEMMA ExitCodeType == \A c \in Children : ExitCode(c) \in 0..255
BY StatusAssumption DEF ExitCode

-----------------------------------------------------------------------------
(* Type correctness: a handler that is inside exit_queue_push holds a pid. *)
Pushing == {"load", "check", "pid", "code", "valid", "publish"}

PushHasChild == \A h \in Handlers : hpc[h] \in Pushing => hpid[h] \in Children

LEMMA TypeStep ==
  ASSUME TypeOK, PushHasChild, [Next]_vars
  PROVE  TypeOK' /\ PushHasChild'
<1> USE DEF TypeOK, PushHasChild, Pushing, queue, handler, consumer, kernel, history
<1>1. ASSUME NEW c \in Children, ChildExits(c)
      PROVE  TypeOK' /\ PushHasChild'
  BY <1>1 DEF ChildExits
<1>2. ASSUME NEW h \in Handlers, DeliverSigchld(h)
      PROVE  TypeOK' /\ PushHasChild'
  BY <1>2 DEF DeliverSigchld
<1>3. ASSUME NEW h \in Handlers, Reap(h)
      PROVE  TypeOK' /\ PushHasChild'
  BY <1>3 DEF Reap
<1>4. ASSUME NEW h \in Handlers, HandlerReturns(h)
      PROVE  TypeOK' /\ PushHasChild'
  BY <1>4 DEF HandlerReturns
<1>5. ASSUME NEW h \in Handlers, PushLoad(h)
      PROVE  TypeOK' /\ PushHasChild'
  BY <1>5 DEF PushLoad
<1>6. ASSUME NEW h \in Handlers, PushFull(h)
      PROVE  TypeOK' /\ PushHasChild'
  BY <1>6 DEF PushFull, Events
<1>7. ASSUME NEW h \in Handlers, PushRoom(h)
      PROVE  TypeOK' /\ PushHasChild'
  BY <1>7 DEF PushRoom
<1>8. ASSUME NEW h \in Handlers, DropLoad(h)
      PROVE  TypeOK' /\ PushHasChild'
  BY <1>8 DEF DropLoad
<1>9. ASSUME NEW h \in Handlers, DropStore(h)
      PROVE  TypeOK' /\ PushHasChild'
  BY <1>9 DEF DropStore
<1>10. ASSUME NEW h \in Handlers, PushPid(h)
       PROVE  TypeOK' /\ PushHasChild'
  <2>1. hwrite[h] \in Slots /\ entries[hwrite[h]] \in Entry
    OBVIOUS
  <2>2. [entries[hwrite[h]] EXCEPT !.pid = hpid[h]] \in Entry
    BY <1>10, <2>1 DEF Entry, PushPid
  <2>3. entries' \in [Slots -> Entry]
    BY <1>10, <2>1, <2>2 DEF PushPid
  <2> QED BY <1>10, <2>3 DEF PushPid
<1>11. ASSUME NEW h \in Handlers, PushCode(h)
       PROVE  TypeOK' /\ PushHasChild'
  <2>1. hwrite[h] \in Slots /\ entries[hwrite[h]] \in Entry
    OBVIOUS
  <2>2. [entries[hwrite[h]] EXCEPT !.exit_code = ExitCode(hpid[h])] \in Entry
    BY <1>11, <2>1, ExitCodeType DEF Entry, PushCode
  <2>3. entries' \in [Slots -> Entry]
    BY <1>11, <2>1, <2>2 DEF PushCode
  <2> QED BY <1>11, <2>3 DEF PushCode
<1>12. ASSUME NEW h \in Handlers, PushValid(h)
       PROVE  TypeOK' /\ PushHasChild'
  <2>1. hwrite[h] \in Slots /\ entries[hwrite[h]] \in Entry
    OBVIOUS
  <2>2. [entries[hwrite[h]] EXCEPT !.valid = TRUE] \in Entry
    BY <1>12, <2>1 DEF Entry, PushValid
  <2>3. entries' \in [Slots -> Entry]
    BY <1>12, <2>1, <2>2 DEF PushValid
  <2> QED BY <1>12, <2>3 DEF PushValid
<1>13. ASSUME NEW h \in Handlers, PushPublish(h)
       PROVE  TypeOK' /\ PushHasChild'
  <2>1. Event(hpid[h]) \in Events
    BY <1>13 DEF PushPublish, Events
  <2>2. published' \in Seq(Events)
    BY <1>13, <2>1 DEF PushPublish
  <2> QED BY <1>13, <2>2, NextIdxType DEF PushPublish
<1>14. CASE TaskDue
  BY <1>14 DEF TaskDue
<1>15. CASE GetDroppedLoad
  BY <1>15 DEF GetDroppedLoad
<1>16. CASE GetDroppedReset
  BY <1>16 DEF GetDroppedReset
<1>17. CASE PopEmpty
  BY <1>17 DEF PopEmpty
<1>18. CASE PopNonEmpty
  BY <1>18 DEF PopNonEmpty
<1>19. CASE PopTest
  BY <1>19 DEF PopTest
<1>20. CASE PopCopy
  BY <1>20 DEF PopCopy
<1>21. CASE PopClear
  <2>1. cread \in Slots /\ entries[cread] \in Entry
    OBVIOUS
  <2>2. [entries[cread] EXCEPT !.valid = FALSE] \in Entry
    BY <2>1 DEF Entry
  <2>3. entries' \in [Slots -> Entry]
    BY <1>21, <2>1, <2>2 DEF PopClear
  <2> QED BY <1>21, <2>3 DEF PopClear
<1>22. CASE PopAdvance
  <2>1. EventOf(centry) \in [pid : Children \cup {NoChild}, exit_code : 0..255]
    BY DEF EventOf, Entry
  <2>2. popped' \in Seq([pid : Children \cup {NoChild}, exit_code : 0..255])
    BY <1>22, <2>1 DEF PopAdvance
  <2> QED BY <1>22, <2>2, NextIdxType DEF PopAdvance
<1>23. CASE UNCHANGED vars
  BY <1>23 DEF vars
<1> HIDE DEF TypeOK, PushHasChild, queue, handler, consumer, kernel, history
<1>24. ASSUME NEW h \in Handlers, DeliverSigchld(h) \/ Handle(h)
       PROVE  TypeOK' /\ PushHasChild'
  BY <1>24, <1>2, <1>3, <1>4, <1>5, <1>6, <1>7, <1>8, <1>9, <1>10, <1>11, <1>12,
     <1>13 DEF Handle
<1>25. CASE Consume
  BY <1>25, <1>14, <1>15, <1>16, <1>17, <1>18, <1>19, <1>20, <1>21, <1>22
     DEF Consume
<1> QED BY <1>1, <1>23, <1>24, <1>25 DEF Next

LEMMA TypeInit == Init => TypeOK /\ PushHasChild
<1>1. 0 \in Slots
  BY SizeAssumption DEF Slots
<1>2. EmptyEntry \in Entry
  BY DEF EmptyEntry, Entry
<1>3. << >> \in Seq(Events)
      /\ << >> \in Seq([pid : Children \cup {NoChild}, exit_code : 0..255])
  OBVIOUS
<1> QED BY <1>1, <1>2, <1>3 DEF Init, TypeOK, PushHasChild, Pushing

(* Every variable of the queue, of the handlers and of the completion task  *)
(* keeps its type, whatever the number of threads in sigchld_handler.       *)
THEOREM TypeCorrect == Spec => []TypeOK
<1>1. TypeOK /\ PushHasChild /\ [Next]_vars => (TypeOK /\ PushHasChild)'
  BY TypeStep
<1> QED BY <1>1, TypeInit, PTL DEF Spec

-----------------------------------------------------------------------------
(* With one handler thread: the occupied slots hold what was pushed. *)
SingleHandler == \A g, h \in Handlers : g = h

QueueInv == TypeOK /\ PushHasChild /\ WriterInv /\ ReaderInv /\ RingInv

LEMMA OccupiedSlots ==
  ASSUME read_idx \in Slots, write_idx \in Slots
  PROVE  /\ Count \in 0..(Size - 1)
         /\ Count = 0 <=> read_idx = write_idx
         /\ SlotAt(0) = read_idx
         /\ SlotAt(Count) = write_idx
         /\ \A k \in 0..(Count - 1) : SlotAt(k) \in Slots /\ SlotAt(k) # write_idx
         /\ \A k \in 1..(Count - 1) : SlotAt(k) # read_idx
BY SizeAssumption DEF Slots, Count, SlotAt

(* A step that writes neither the ring nor its history keeps RingInv. *)
LEMMA RingFrame ==
  ASSUME RingInv, UNCHANGED <<entries, write_idx, read_idx, published, popped>>,
         cpc = "advance" => cpc' = "advance"
  PROVE  RingInv'
BY DEF RingInv, Count, SlotAt

(* A handler that writes the free slot at write_idx keeps RingInv. *)
LEMMA FillKeepsRing ==
  ASSUME TypeOK, RingInv,
         \A i \in Slots : i # write_idx => entries'[i] = entries[i],
         UNCHANGED <<write_idx, read_idx, published, popped, cpc>>
  PROVE  RingInv'
<1>1. Count' = Count /\ \A k \in Nat : SlotAt(k)' = SlotAt(k)
  BY DEF Count, SlotAt
<1>2. \A k \in 0..(Count - 1) : entries'[SlotAt(k)] = entries[SlotAt(k)]
  BY OccupiedSlots DEF TypeOK
<1>3. Count \in Nat
  BY OccupiedSlots DEF TypeOK, Slots
<1> QED BY <1>1, <1>2, <1>3 DEF RingInv, EventOf

LEMMA RingStep ==
  ASSUME SingleHandler, QueueInv, [Next]_vars
  PROVE  WriterInv' /\ ReaderInv' /\ RingInv'
<1> USE DEF QueueInv
<1>1. ASSUME NEW c \in Children, ChildExits(c)
      PROVE  WriterInv' /\ ReaderInv' /\ RingInv'
  BY <1>1, RingFrame DEF ChildExits, queue, handler, consumer, history,
                         WriterInv, ReaderInv
<1>2. ASSUME NEW h \in Handlers,
             \/ DeliverSigchld(h) \/ Reap(h) \/ HandlerReturns(h)
             \/ PushFull(h) \/ DropLoad(h) \/ DropStore(h)
      PROVE  WriterInv' /\ ReaderInv' /\ RingInv'
  <2>1. hpc'[h] \notin Filling \cup {"check"} /\ \A g \in Handlers : g = h
    BY <1>2 DEF SingleHandler, TypeOK, Filling, DeliverSigchld, Reap,
               HandlerReturns, PushFull, DropLoad, DropStore
  <2>2. WriterInv'
    BY <2>1 DEF WriterInv, Filling
  <2>3. UNCHANGED <<entries, write_idx, read_idx, cpc, cread, centry, published, popped>>
    BY <1>2 DEF DeliverSigchld, Reap, HandlerReturns, PushFull, DropLoad, DropStore,
               queue, consumer, history
  <2> QED BY <2>2, <2>3, RingFrame DEF ReaderInv
<1>3. ASSUME NEW h \in Handlers, PushLoad(h) \/ PushRoom(h)
      PROVE  WriterInv' /\ ReaderInv' /\ RingInv'
  <2>1. UNCHANGED <<entries, write_idx, read_idx, cpc, cread, centry, published, popped>>
    BY <1>3 DEF PushLoad, PushRoom, queue, consumer, history
  <2>2. WriterInv'
    BY <1>3, <2>1 DEF SingleHandler, TypeOK, WriterInv, PushLoad, PushRoom, IsFull,
                      Filling
  <2> QED BY <2>1, <2>2, RingFrame DEF ReaderInv
<1>4. ASSUME NEW h \in Handlers, PushPid(h) \/ PushCode(h) \/ PushValid(h)
      PROVE  WriterInv' /\ ReaderInv' /\ RingInv'
  <2>1. /\ UNCHANGED <<write_idx, read_idx, cpc, cread, centry, published, popped, hpid, hwrite>>
        /\ hwrite[h] = write_idx
        /\ \A g \in Handlers : g = h
    BY <1>4 DEF PushPid, PushCode, PushValid, consumer, history, WriterInv, Filling,
               SingleHandler
  <2>2. \A i \in Slots : i # write_idx => entries'[i] = entries[i]
    BY <1>4, <2>1 DEF PushPid, PushCode, PushValid, TypeOK
  <2>3. ReaderInv'
    BY <2>1, <2>2 DEF ReaderInv, TypeOK, EventOf
  <2>4. write_idx \in Slots /\ entries[write_idx] \in Entry
    BY DEF TypeOK
  <2>5. WriterInv'
    <3>1. CASE PushPid(h)
      BY <3>1, <2>1, <2>4 DEF PushPid, WriterInv, TypeOK, Filling, Entry
    <3>2. CASE PushCode(h)
      BY <3>2, <2>1, <2>4 DEF PushCode, WriterInv, TypeOK, Filling, Entry
    <3>3. CASE PushValid(h)
      BY <3>3, <2>1, <2>4 DEF PushValid, WriterInv, TypeOK, Filling, Entry
    <3> QED BY <1>4, <3>1, <3>2, <3>3
  <2> QED BY <2>1, <2>2, <2>3, <2>5, FillKeepsRing
<1>5. ASSUME NEW h \in Handlers, PushPublish(h)
      PROVE  WriterInv' /\ ReaderInv' /\ RingInv'
  <2>1. /\ hwrite[h] = write_idx /\ write_idx' = NextIdx(write_idx)
        /\ write_idx' # read_idx
        /\ entries[write_idx].valid
        /\ EventOf(entries[write_idx]) = Event(hpid[h])
        /\ UNCHANGED <<entries, read_idx, cpc, cread, centry, popped>>
        /\ published' = Append(published, Event(hpid[h]))
    BY <1>5 DEF PushPublish, WriterInv, Filling, Event, EventOf, consumer
  <2>2. WriterInv'
    BY <1>5 DEF PushPublish, WriterInv, Filling, SingleHandler, TypeOK
  <2>3. ReaderInv'
    BY <2>1 DEF ReaderInv
  <2>4. /\ Count' = Count + 1
        /\ \A k \in Nat : SlotAt(k)' = SlotAt(k)
        /\ SlotAt(Count) = write_idx
        /\ Count \in Nat
    <3>1. read_idx \in Slots /\ write_idx \in Slots
      BY DEF TypeOK
    <3>2. write_idx' = IF write_idx = Size - 1 THEN 0 ELSE write_idx + 1
      BY <2>1, <3>1, NextIdxCases
    <3>3. Count' = Count + 1
      BY <2>1, <3>1, <3>2, SizeAssumption DEF Count, Slots
    <3>4. \A k \in Nat : SlotAt(k)' = SlotAt(k)
      BY <2>1 DEF SlotAt
    <3> QED BY <3>1, <3>3, <3>4, OccupiedSlots DEF Slots
  <2>5. /\ Len(published') = Len(published) + 1
        /\ \A i \in 1..Len(published) : published'[i] = published[i]
        /\ published'[Len(published) + 1] = Event(hpid[h])
        /\ Len(published) \in Nat /\ Len(popped) \in Nat
    BY <2>1 DEF TypeOK
  <2>6. \A k \in 0..Count :
          /\ EventOf(entries[SlotAt(k)]) = published'[Len(popped) + k + 1]
          /\ entries[SlotAt(k)].valid \/ (k = 0 /\ cpc = "advance")
    <3> TAKE k \in 0..Count
    <3>1. CASE k = Count
      BY <3>1, <2>1, <2>4, <2>5 DEF RingInv
    <3>2. CASE k # Count
      <4>1. k \in 0..(Count - 1)
        BY <3>2, <2>4
      <4>2. Len(popped) + k + 1 \in 1..Len(published)
        BY <4>1, <2>4, <2>5 DEF RingInv
      <4> QED BY <4>1, <4>2, <2>5 DEF RingInv
    <3> QED BY <3>1, <3>2
  <2>7. RingInv'
    <3>1. Len(published)' = Len(popped)' + Count'
      BY <2>1, <2>4, <2>5 DEF RingInv
    <3>2. \A k \in 1..Len(popped)' : popped'[k] = published'[k]
      BY <2>1, <2>4, <2>5 DEF RingInv
    <3>3. \A k \in 0..(Count' - 1) :
            /\ EventOf(entries'[SlotAt(k)']) = published'[Len(popped)' + k + 1]
            /\ entries'[SlotAt(k)'].valid \/ (k = 0 /\ cpc' = "advance")
      <4> TAKE k \in 0..(Count' - 1)
      <4>1. k \in 0..Count /\ k \in Nat
        BY <2>4
      <4>2. SlotAt(k)' = SlotAt(k)
        BY <4>1, <2>4
      <4> QED BY <4>1, <4>2, <2>1, <2>6
    <3> QED BY <3>1, <3>2, <3>3 DEF RingInv, EventOf
  <2> QED BY <2>2, <2>3, <2>7
<1>6. CASE TaskDue \/ GetDroppedLoad \/ GetDroppedReset \/ PopEmpty
           \/ PopNonEmpty \/ PopTest \/ PopCopy
  <2>1. UNCHANGED <<entries, write_idx, read_idx, hpc, hpid, hwrite, published, popped>>
        /\ cpc # "advance"
    BY <1>6 DEF TaskDue, GetDroppedLoad, GetDroppedReset, PopEmpty, PopNonEmpty,
               PopTest, PopCopy, queue, handler, history
  <2>2. ReaderInv'
    BY <1>6, <2>1 DEF ReaderInv, TaskDue, GetDroppedLoad, GetDroppedReset, PopEmpty,
               PopNonEmpty, PopTest, PopCopy
  <2> QED BY <2>1, <2>2, RingFrame DEF WriterInv
<1>7. CASE PopClear
  <2>1. /\ cread = read_idx /\ read_idx # write_idx
        /\ UNCHANGED <<write_idx, read_idx, hpc, hpid, hwrite, cread, centry,
                       published, popped>>
        /\ cpc = "clear" /\ cpc' = "advance"
        /\ entries' = [entries EXCEPT ![read_idx].valid = FALSE]
    BY <1>7 DEF PopClear, ReaderInv, handler, history
  <2>2. \A i \in Slots : /\ EventOf(entries'[i]) = EventOf(entries[i])
                         /\ i # read_idx => entries'[i] = entries[i]
                         /\ entries'[i].pid = entries[i].pid
                         /\ entries'[i].exit_code = entries[i].exit_code
    BY <2>1 DEF TypeOK, EventOf, Entry
  <2>3. WriterInv'
    BY <2>1, <2>2 DEF WriterInv, TypeOK
  <2>4. ReaderInv'
    BY <2>1, <2>2 DEF ReaderInv, TypeOK
  <2>5. /\ Count' = Count /\ \A k \in Nat : SlotAt(k)' = SlotAt(k)
        /\ Count \in Nat
        /\ \A k \in 0..(Count - 1) : SlotAt(k) \in Slots
        /\ \A k \in 1..(Count - 1) : SlotAt(k) # read_idx
    <3>1. read_idx \in Slots /\ write_idx \in Slots
      BY DEF TypeOK
    <3>2. Count' = Count /\ \A k \in Nat : SlotAt(k)' = SlotAt(k)
      BY <2>1 DEF Count, SlotAt
    <3> QED BY <3>1, <3>2, OccupiedSlots DEF Slots
  <2>6. \A k \in 0..(Count' - 1) :
          /\ EventOf(entries'[SlotAt(k)']) = published'[Len(popped)' + k + 1]
          /\ entries'[SlotAt(k)'].valid \/ (k = 0 /\ cpc' = "advance")
    <3> TAKE k \in 0..(Count' - 1)
    <3>1. k \in 0..(Count - 1) /\ k \in Nat
      BY <2>5
    <3>2. SlotAt(k)' = SlotAt(k) /\ SlotAt(k) \in Slots
      BY <3>1, <2>5
    <3>3. EventOf(entries'[SlotAt(k)']) = published'[Len(popped)' + k + 1]
      <4>1. EventOf(entries[SlotAt(k)]) = published[Len(popped) + k + 1]
        BY <3>1 DEF RingInv
      <4>2. EventOf(entries'[SlotAt(k)]) = EventOf(entries[SlotAt(k)])
        BY <3>2, <2>2
      <4> QED BY <4>1, <4>2, <3>2, <2>1
    <3>4. entries'[SlotAt(k)'].valid \/ k = 0
      BY <3>1, <3>2, <2>1, <2>2, <2>5 DEF RingInv
    <3> QED BY <3>3, <3>4, <2>1
  <2>7. RingInv'
    BY <2>1, <2>5, <2>6 DEF RingInv, EventOf
  <2> QED BY <2>3, <2>4, <2>7
<1>8. CASE PopAdvance
  <2>1. /\ cread = read_idx /\ read_idx # write_idx
        /\ read_idx' = NextIdx(read_idx)
        /\ UNCHANGED <<entries, write_idx, hpc, hpid, hwrite, published>>
        /\ popped' = Append(popped, EventOf(entries[read_idx]))
        /\ cpc = "advance" /\ cpc' = "pop"
    BY <1>8 DEF PopAdvance, ReaderInv, handler
  <2>2. ReaderInv'
    BY <2>1 DEF ReaderInv
  <2>3. /\ Count' = Count - 1 /\ Count \in Nat /\ Count > 0
        /\ \A k \in 0..(Count - 2) : SlotAt(k)' = SlotAt(k + 1)
        /\ SlotAt(0) = read_idx
    <3>1. read_idx \in Slots /\ write_idx \in Slots
      BY DEF TypeOK
    <3>2. read_idx' = IF read_idx = Size - 1 THEN 0 ELSE read_idx + 1
      BY <2>1, <3>1, NextIdxCases
    <3>3. Count' = Count - 1 /\ Count \in Nat /\ Count > 0 /\ Count < Size
      BY <2>1, <3>1, <3>2, SizeAssumption DEF Count, Slots
    <3>4. \A k \in 0..(Count - 2) : SlotAt(k)' = SlotAt(k + 1)
      BY <2>1, <3>1, <3>2, <3>3, SizeAssumption DEF SlotAt, Slots
    <3> QED BY <3>1, <3>3, <3>4, OccupiedSlots
  <2>4. \A h \in Handlers : hpc[h] \in Filling => NextIdx(write_idx) # NextIdx(read_idx)
    BY <2>1, NextIdxCases, SizeAssumption DEF TypeOK, Slots
  <2>5. WriterInv'
    BY <2>1, <2>4 DEF WriterInv
  <2>6. /\ Len(popped') = Len(popped) + 1
        /\ \A i \in 1..Len(popped) : popped'[i] = popped[i]
        /\ popped'[Len(popped) + 1] = EventOf(entries[read_idx])
        /\ Len(popped) \in Nat
    BY <2>1 DEF TypeOK
  <2>7. EventOf(entries[read_idx]) = published[Len(popped) + 1]
    BY <2>3, <2>6 DEF RingInv
  <2>8. \A k \in 1..Len(popped') : popped'[k] = published[k]
    BY <2>6, <2>7 DEF RingInv
  <2>9. \A k \in 0..(Count - 2) :
          /\ EventOf(entries[SlotAt(k + 1)]) = published[Len(popped) + 1 + k + 1]
          /\ entries[SlotAt(k + 1)].valid
    BY <2>3, <2>6 DEF RingInv
  <2>10. \A k \in 0..(Count' - 1) :
          /\ EventOf(entries'[SlotAt(k)']) = published'[Len(popped)' + k + 1]
          /\ entries'[SlotAt(k)'].valid
    <3> TAKE k \in 0..(Count' - 1)
    <3>1. k \in 0..(Count - 2) /\ SlotAt(k)' = SlotAt(k + 1)
      BY <2>3
    <3>2. Len(popped)' + k + 1 = Len(popped) + 1 + k + 1
      BY <2>6
    <3> QED BY <3>1, <3>2, <2>1, <2>9
  <2>11. RingInv'
    <3>1. Len(published) = Len(popped) + Count
      BY DEF RingInv
    <3>2. Len(published)' = Len(popped)' + Count'
      BY <3>1, <2>1, <2>3, <2>6
    <3>3. \A k \in 1..Len(popped)' : popped'[k] = published'[k]
      BY <2>1, <2>8
    <3> QED BY <3>2, <3>3, <2>10 DEF RingInv, EventOf
  <2> QED BY <2>2, <2>5, <2>11
<1>9. CASE UNCHANGED vars
  BY <1>9, RingFrame DEF vars, queue, handler, consumer, history, WriterInv, ReaderInv
<1> HIDE DEF QueueInv
<1> QED BY <1>1, <1>2, <1>3, <1>4, <1>5, <1>6, <1>7, <1>8, <1>9
        DEF Next, Handle, Consume

LEMMA QueueInvariant ==
  ASSUME SingleHandler
  PROVE  Spec => []QueueInv
<1>1. Init => QueueInv
  <2> SUFFICES ASSUME Init PROVE QueueInv
    OBVIOUS
  <2>1. TypeOK /\ PushHasChild
    BY TypeInit
  <2>2. Count = 0 /\ Len(published) = 0 /\ Len(popped) = 0
    BY DEF Init, Count
  <2> QED BY <2>1, <2>2 DEF Init, QueueInv, WriterInv, ReaderInv, RingInv, Filling
<1>2. QueueInv /\ [Next]_vars => QueueInv'
  BY TypeStep, RingStep DEF QueueInv
<1> QED BY <1>1, <1>2, PTL DEF Spec

(* The events between read_idx and write_idx are the tail of what was pushed. *)
ContentsShape ==
  /\ Count \in Nat /\ Len(popped) \in Nat /\ Len(published) = Len(popped) + Count
  /\ Contents = [k \in 1..Count |-> published[Len(popped) + k]]
  /\ Contents \in Seq(Events) /\ Len(Contents) = Count

LEMMA ContentsOf == QueueInv => ContentsShape
<1> SUFFICES ASSUME QueueInv PROVE ContentsShape
  OBVIOUS
<1>1. /\ Count \in Nat /\ Len(popped) \in Nat /\ Len(published) = Len(popped) + Count
      /\ published \in Seq(Events)
  BY OccupiedSlots DEF QueueInv, TypeOK, RingInv, Slots
<1>2. ASSUME NEW k \in 1..Count
      PROVE  EventOf(entries[SlotAt(k - 1)]) = published[Len(popped) + k]
  <2>1. k - 1 \in 0..(Count - 1)
    BY <1>1
  <2>2. EventOf(entries[SlotAt(k - 1)]) = published[Len(popped) + (k - 1) + 1]
    BY <2>1 DEF QueueInv, RingInv
  <2>3. Len(popped) + (k - 1) + 1 = Len(popped) + k
    BY <1>1
  <2> QED BY <2>2, <2>3
<1>3. Contents = [k \in 1..Count |-> published[Len(popped) + k]]
  BY <1>2 DEF Contents
<1>4. \A k \in 1..Count : published[Len(popped) + k] \in Events
  BY <1>1
<1> QED BY <1>1, <1>3, <1>4 DEF ContentsShape

LEMMA ContentsOfNext == QueueInv' => ContentsShape'
BY ContentsOf, PTL

(* No exit event is lost, duplicated, torn or reordered between a push and  *)
(* the pop that returns it, for every queue size, as long as one thread at  *)
(* a time executes sigchld_handler.                                         *)
THEOREM NothingLost ==
  ASSUME SingleHandler
  PROVE  Spec => []NothingLostInOrder
<1>1. QueueInv => NothingLostInOrder
  <2> SUFFICES ASSUME QueueInv PROVE published = popped \o Contents
    BY DEF NothingLostInOrder
  <2> DEFINE T == [pid : Children \cup {NoChild}, exit_code : 0..255]
             S == Events \cup T
  <2>1. popped \in Seq(T) /\ published \in Seq(Events)
    BY DEF QueueInv, TypeOK
  <2>2. Contents \in Seq(Events)
    BY ContentsOf DEF ContentsShape
  <2> HIDE DEF T
  <2>3. popped \in Seq(S) /\ published \in Seq(S) /\ Contents \in Seq(S)
    BY <2>1, <2>2, SeqMonotonic
  <2> HIDE DEF S
  <2>4. /\ popped \o Contents \in Seq(S)
        /\ Len(popped \o Contents) = Len(popped) + Len(Contents)
        /\ \A i \in 1..(Len(popped) + Len(Contents)) :
             (popped \o Contents)[i] = IF i <= Len(popped) THEN popped[i]
                                       ELSE Contents[i - Len(popped)]
    BY <2>3, ConcatProperties
  <2>5. ASSUME NEW i \in 1..Len(published)
        PROVE  published[i] = (popped \o Contents)[i]
    <3>1. i \in 1..(Len(popped) + Len(Contents)) /\ Len(popped) \in Nat
      BY ContentsOf DEF ContentsShape
    <3>2. CASE i <= Len(popped)
      <4>1. i \in 1..Len(popped)
        BY <3>1, <3>2
      <4> QED BY <4>1, <3>1, <3>2, <2>4 DEF QueueInv, RingInv
    <3>3. CASE ~ (i <= Len(popped))
      <4>1. i - Len(popped) \in 1..Count /\ Len(popped) + (i - Len(popped)) = i
        BY <3>1, <3>3, ContentsOf DEF ContentsShape
      <4>2. Contents[i - Len(popped)] = published[i]
        BY <4>1, ContentsOf DEF ContentsShape
      <4> QED BY <4>2, <3>1, <3>3, <2>4
    <3> QED BY <3>2, <3>3
  <2>6. Len(published) = Len(popped \o Contents)
    BY <2>4, ContentsOf DEF ContentsShape
  <2> QED BY <2>3, <2>4, <2>5, <2>6, SeqEqual
<1> QED BY <1>1, QueueInvariant, PTL

(* The defensive return of exit_queue_pop for an invalid entry, "Should     *)
(* never happen", is unreachable with one thread in sigchld_handler.        *)
THEOREM PopNeverFindsInvalid ==
  ASSUME SingleHandler
  PROVE  Spec => []PopFindsValidEntry
<1>1. QueueInv => PopFindsValidEntry
  <2> SUFFICES ASSUME QueueInv, cpc = "test" PROVE entries[cread].valid
    BY DEF PopFindsValidEntry
  <2>1. cread = read_idx /\ read_idx # write_idx
    BY DEF QueueInv, ReaderInv
  <2>2. Count \in Nat /\ Count # 0 /\ SlotAt(0) = read_idx
    BY <2>1, OccupiedSlots DEF QueueInv, TypeOK, Slots
  <2>3. 0 \in 0..(Count - 1)
    BY <2>2
  <2> QED BY <2>1, <2>2, <2>3 DEF QueueInv, RingInv
<1> QED BY <1>1, QueueInvariant, PTL

-----------------------------------------------------------------------------
(* The refinement of BoundedFifo.  A child passes through the stages alive, *)
(* zombie, held by a push, and published or lost, once.                     *)
Seen == lost \cup {published[i] : i \in 1..Len(published)}

StageInv ==
  /\ alive \cap zombies = {}
  /\ \A c \in alive \cup zombies : Event(c) \notin Seen
  /\ \A h \in Handlers : hpc[h] \in Pushing =>
       hpid[h] \notin alive \cup zombies /\ Event(hpid[h]) \notin Seen

LEMMA EventInjective == \A c, d : Event(c) = Event(d) => c = d
BY DEF Event

LEMMA StageStep ==
  ASSUME SingleHandler, QueueInv, StageInv, [Next]_vars
  PROVE  StageInv'
<1> USE DEF QueueInv
<1>1. ASSUME NEW c \in Children, ChildExits(c)
      PROVE  StageInv'
  <2>1. Seen' = Seen /\ UNCHANGED <<hpc, hpid>>
    BY <1>1 DEF ChildExits, handler, history, Seen
  <2> QED BY <1>1, <2>1 DEF ChildExits, StageInv
<1>2. ASSUME NEW h \in Handlers, DeliverSigchld(h) \/ HandlerReturns(h)
      PROVE  StageInv'
  BY <1>2 DEF DeliverSigchld, HandlerReturns, kernel, history, StageInv, Seen, TypeOK, Pushing
<1>3. ASSUME NEW h \in Handlers, Reap(h)
      PROVE  StageInv'
  BY <1>3 DEF Reap, history, StageInv, Seen, TypeOK, Pushing, SingleHandler
<1>4. ASSUME NEW h \in Handlers, PushLoad(h) \/ PushRoom(h) \/ PushPid(h)
                                 \/ PushCode(h) \/ PushValid(h)
      PROVE  StageInv'
  <2>1. /\ Seen' = Seen /\ UNCHANGED <<alive, zombies, hpid>>
        /\ \A g \in Handlers : hpc'[g] \in Pushing => hpc[g] \in Pushing
    BY <1>4 DEF PushLoad, PushRoom, PushPid, PushCode, PushValid, kernel, history,
               Seen, TypeOK, Pushing
  <2> QED BY <2>1 DEF StageInv
<1>5. ASSUME NEW h \in Handlers, DropLoad(h) \/ DropStore(h)
      PROVE  StageInv'
  BY <1>5 DEF DropLoad, DropStore, kernel, history, StageInv, Seen, TypeOK, Pushing
<1>6. ASSUME NEW h \in Handlers, PushFull(h) \/ PushPublish(h)
      PROVE  StageInv'
  <2>1. /\ hpc[h] \in Pushing /\ hpc'[h] \notin Pushing
        /\ \A g \in Handlers : g = h
        /\ UNCHANGED <<alive, zombies>>
    BY <1>6 DEF PushFull, PushPublish, kernel, TypeOK, Pushing, SingleHandler
  <2>2. Seen' = Seen \cup {Event(hpid[h])}
    <3>1. CASE PushFull(h)
      BY <3>1 DEF PushFull, Seen
    <3>2. CASE PushPublish(h)
      <4>1. lost' = lost /\ published' = Append(published, Event(hpid[h]))
        BY <3>2 DEF PushPublish
      <4>2. published \in Seq(Events) /\ Len(published) \in Nat
        BY DEF TypeOK
      <4>3. /\ Len(published') = Len(published) + 1
            /\ \A i \in 1..Len(published) : published'[i] = published[i]
            /\ published'[Len(published) + 1] = Event(hpid[h])
        BY <4>1, <4>2
      <4> QED BY <4>1, <4>2, <4>3 DEF Seen
    <3> QED BY <1>6, <3>1, <3>2
  <2>3. \A c \in alive \cup zombies : Event(c) # Event(hpid[h])
    BY <2>1, EventInjective DEF StageInv
  <2> QED BY <2>1, <2>2, <2>3 DEF StageInv
<1>7. CASE Consume
  BY <1>7 DEF Consume, TaskDue, GetDroppedLoad, GetDroppedReset, PopEmpty, PopNonEmpty,
             PopTest, PopCopy, PopClear, PopAdvance, kernel, handler, history, StageInv, Seen
<1>8. CASE UNCHANGED vars
  BY <1>8 DEF vars, kernel, handler, history, StageInv, Seen
<1> HIDE DEF QueueInv
<1> QED BY <1>1, <1>2, <1>3, <1>4, <1>5, <1>6, <1>7, <1>8 DEF Next, Handle

LEMMA StageInvariant ==
  ASSUME SingleHandler
  PROVE  Spec => []StageInv
<1>1. Init => StageInv
  BY DEF Init, StageInv, Seen, Pushing
<1>2. QueueInv /\ StageInv /\ [Next]_vars => StageInv'
  BY StageStep
<1> QED BY <1>1, <1>2, QueueInvariant, PTL DEF Spec

LEMMA FreshEvent ==
  ASSUME QueueInv, NEW e, e \notin Seen
  PROVE  Fifo!Fresh(e)
<1>1. /\ DOMAIN Contents = 1..Count
      /\ \A k \in 1..Count : Contents[k] = published[Len(popped) + k]
                            /\ Len(popped) + k \in 1..Len(published)
  BY ContentsOf DEF ContentsShape
<1>2. \A k \in 1..Count : Contents[k] # e
  BY <1>1 DEF Seen
<1>3. DOMAIN popped = 1..Len(popped) /\ \A k \in 1..Len(popped) : popped[k] # e
  <2>1. \A k \in 1..Len(popped) : popped[k] = published[k] /\ k \in 1..Len(published)
    BY ContentsOf DEF QueueInv, RingInv, ContentsShape
  <2> QED BY <2>1 DEF Seen, QueueInv, TypeOK
<1> QED BY <1>1, <1>2, <1>3 DEF Fifo!Fresh, Fifo!ElementsOf, Seen

LEMMA FifoStep ==
  ASSUME SingleHandler, QueueInv, QueueInv', StageInv, [Next]_vars
  PROVE  [Fifo!FifoNext]_(Fifo!fifoVars)
<1>a. ContentsShape /\ ContentsShape'
  BY ContentsOf, ContentsOfNext
<1>b. SizeAssumption /\ read_idx \in Slots /\ write_idx \in Slots
  BY SizeAssumption DEF QueueInv, TypeOK
<1>1. ASSUME NEW h \in Handlers, PushPublish(h)
      PROVE  Fifo!Put(Event(hpid[h]))
  <2>1. /\ published' = Append(published, Event(hpid[h])) /\ popped' = popped
        /\ lost' = lost /\ hpc[h] \in Pushing /\ NextIdx(write_idx) # read_idx
    BY <1>1 DEF PushPublish, Pushing, QueueInv, WriterInv, Filling
  <2>2. Fifo!Fresh(Event(hpid[h]))
    BY <2>1, FreshEvent DEF StageInv
  <2>3. Count < Size - 1
    BY <1>b, <2>1, NextIdxCases DEF Count, Slots
  <2>4. /\ Len(published') = Len(published) + 1
        /\ \A i \in 1..Len(published) : published'[i] = published[i]
        /\ published'[Len(published) + 1] = Event(hpid[h])
        /\ Event(hpid[h]) \in Events
    BY <2>1 DEF QueueInv, TypeOK, PushHasChild, Events
  <2>5. Count' = Count + 1
    BY <1>a, <2>1, <2>4 DEF ContentsShape
  <2>6. Contents' = Append(Contents, Event(hpid[h]))
    <3>1. \A k \in 1..Count : Contents'[k] = Contents[k]
      BY <1>a, <2>1, <2>4, <2>5 DEF ContentsShape
    <3>2. Contents'[Count + 1] = Event(hpid[h])
      BY <1>a, <2>1, <2>4, <2>5 DEF ContentsShape
    <3>3. /\ Append(Contents, Event(hpid[h])) \in Seq(Events)
          /\ Len(Append(Contents, Event(hpid[h]))) = Count + 1
          /\ \A k \in 1..Count : Append(Contents, Event(hpid[h]))[k] = Contents[k]
          /\ Append(Contents, Event(hpid[h]))[Count + 1] = Event(hpid[h])
      BY <1>a, <2>4 DEF ContentsShape
    <3>4. ASSUME NEW k \in 1..(Count + 1)
          PROVE  Contents'[k] = Append(Contents, Event(hpid[h]))[k]
      <4>1. Count \in Nat
        BY <1>a DEF ContentsShape
      <4>2. k \in 1..Count \/ k = Count + 1
        BY <4>1
      <4> QED BY <4>2, <3>1, <3>2, <3>3
    <3>5. Contents' \in Seq(Events) /\ Len(Contents') = Count + 1
      BY <1>a, <2>5 DEF ContentsShape
    <3> QED BY <3>3, <3>4, <3>5, SeqEqual
  <2> QED BY <2>1, <2>2, <2>3, <2>6, <1>a DEF Fifo!Put, ContentsShape
<1>2. ASSUME NEW h \in Handlers, PushFull(h)
      PROVE  Fifo!Discard(Event(hpid[h]))
  <2>1. /\ UNCHANGED <<published, popped, entries, read_idx, write_idx>>
        /\ lost' = lost \cup {Event(hpid[h])}
        /\ hpc[h] \in Pushing /\ NextIdx(write_idx) = read_idx
    BY <1>2 DEF PushFull, IsFull, Pushing, QueueInv, WriterInv, Filling, queue
  <2>2. Fifo!Fresh(Event(hpid[h]))
    BY <2>1, FreshEvent DEF StageInv
  <2>3. Count = Size - 1
    BY <1>b, <2>1, NextIdxCases DEF Count, Slots
  <2>4. Contents' = Contents
    BY <2>1 DEF Contents, Count, SlotAt
  <2> QED BY <2>1, <2>2, <2>3, <2>4, <1>a DEF Fifo!Discard, ContentsShape
<1>3. CASE PopAdvance
  <2>1. /\ read_idx # write_idx
        /\ EventOf(centry) = EventOf(entries[read_idx])
        /\ popped' = Append(popped, EventOf(centry))
        /\ UNCHANGED <<published, lost>>
    BY <1>3 DEF PopAdvance, QueueInv, ReaderInv
  <2>2. Count > 0 /\ Count \in Nat /\ SlotAt(0) = read_idx
    BY <1>b, <2>1, OccupiedSlots DEF Slots
  <2>3. Contents # << >> /\ Head(Contents) = EventOf(centry)
    <3>1. Contents[1] = EventOf(entries[SlotAt(1 - 1)])
      BY <2>2 DEF Contents
    <3>2. Contents[1] = EventOf(entries[SlotAt(0)])
      BY <3>1
    <3>3. Contents \in Seq(Events) /\ Len(Contents) > 0
      BY <2>2, <1>a DEF ContentsShape
    <3>4. Contents # << >> /\ Head(Contents) = Contents[1]
      BY <3>3
    <3> QED BY <3>2, <3>4, <2>1, <2>2
  <2>4. Len(popped') = Len(popped) + 1
    BY <2>1 DEF QueueInv, TypeOK
  <2>5. Count' = Count - 1
    BY <1>a, <2>1, <2>4 DEF ContentsShape
  <2>6. Contents' = Tail(Contents)
    <3>1. /\ Tail(Contents) \in Seq(Events) /\ Len(Tail(Contents)) = Count - 1
          /\ \A k \in 1..(Count - 1) : Tail(Contents)[k] = Contents[k + 1]
      <4> DEFINE c == Contents
      <4>1. c \in Seq(Events) /\ Len(c) = Count /\ c # << >>
        BY <1>a, <2>3 DEF ContentsShape
      <4> HIDE DEF c
      <4>2. /\ Tail(c) \in Seq(Events) /\ Len(Tail(c)) = Len(c) - 1
            /\ \A k \in 1..(Len(c) - 1) : Tail(c)[k] = c[k + 1]
        BY <4>1, HeadTailProperties
      <4> QED BY <4>1, <4>2 DEF c
    <3>2. Contents' \in Seq(Events) /\ Len(Contents') = Count - 1
      BY <1>a, <2>5 DEF ContentsShape
    <3>3. ASSUME NEW k \in 1..(Count - 1)
          PROVE  Contents'[k] = Tail(Contents)[k]
      <4>1. k \in 1..Count' /\ k + 1 \in 1..Count
        BY <2>2, <2>5
      <4>2. Contents'[k] = published[Len(popped) + 1 + k]
        BY <1>a, <2>1, <2>4, <4>1 DEF ContentsShape
      <4>3. Contents[k + 1] = published[Len(popped) + (k + 1)]
        BY <1>a, <4>1 DEF ContentsShape
      <4>4. Len(popped) + 1 + k = Len(popped) + (k + 1)
        BY <1>a DEF ContentsShape
      <4> QED BY <3>1, <4>2, <4>3, <4>4
    <3> QED BY <3>1, <3>2, <3>3, SeqEqual
  <2> QED BY <2>1, <2>3, <2>6 DEF Fifo!Take, Fifo!FifoNext
<1>4. CASE UNCHANGED <<published, popped, lost>>
  <2>1. Count' = Count
    BY <1>4, <1>a DEF ContentsShape
  <2>2. Contents' = Contents
    BY <1>4, <1>a, <2>1 DEF ContentsShape
  <2> QED BY <1>4, <2>2 DEF Fifo!fifoVars
<1>5. ASSUME NEW h \in Handlers, PushPublish(h) \/ PushFull(h)
      PROVE  Fifo!FifoNext
  <2>1. hpid[h] \in Children
    BY <1>5 DEF PushPublish, PushFull, QueueInv, PushHasChild, Pushing
  <2>2. Event(hpid[h]) \in Events
    BY <2>1 DEF Events
  <2> QED BY <1>1, <1>2, <1>5, <2>2 DEF Fifo!FifoNext
<1>6. ASSUME NEW h \in Handlers, DeliverSigchld(h) \/ Handle(h),
             ~ PushPublish(h), ~ PushFull(h)
      PROVE  UNCHANGED <<published, popped, lost>>
  BY <1>6 DEF Handle, DeliverSigchld, Reap, HandlerReturns, PushLoad, PushRoom, DropLoad,
             DropStore, PushPid, PushCode, PushValid, history
<1>7. ASSUME Consume, ~ PopAdvance
      PROVE  UNCHANGED <<published, popped, lost>>
  BY <1>7 DEF Consume, TaskDue, GetDroppedLoad, GetDroppedReset, PopEmpty, PopNonEmpty,
             PopTest, PopCopy, PopClear, history
<1>8. ASSUME NEW c \in Children, ChildExits(c)
      PROVE  UNCHANGED <<published, popped, lost>>
  BY <1>8 DEF ChildExits, history
<1>9. UNCHANGED vars => UNCHANGED <<published, popped, lost>>
  BY DEF vars, history
<1> QED BY <1>3, <1>4, <1>5, <1>6, <1>7, <1>8, <1>9 DEF Next

(* With one thread in sigchld_handler the ring buffer implements the        *)
(* bounded FIFO of EXIT_QUEUE_SIZE - 1 events that discards the newest      *)
(* event when it is full, for every size.                                   *)
THEOREM QueueImplementsFifo ==
  ASSUME SingleHandler
  PROVE  Spec => ImplementsFifo
<1>1. Init => Fifo!FifoInit
  <2> SUFFICES ASSUME Init PROVE Fifo!FifoInit
    OBVIOUS
  <2>1. Count = 0
    BY DEF Init, Count
  <2>2. Contents = << >>
    BY <2>1 DEF Contents
  <2> QED BY <2>2 DEF Init, Fifo!FifoInit
<1>2. QueueInv /\ QueueInv' /\ StageInv /\ [Next]_vars
        => [Fifo!FifoNext]_(Fifo!fifoVars)
  BY FifoStep
<1> QED BY <1>1, <1>2, QueueInvariant, StageInvariant, PTL
        DEF Spec, ImplementsFifo, Fifo!FifoSpec
=============================================================================
