---------------------------- MODULE BoundedFifo ----------------------------
(***************************************************************************)
(* What the exit code queue promises its two users: the SIGCHLD handler    *)
(* puts the exit event of a reaped child at the end, the completion task   *)
(* takes events from the front in the order they were put, and an event    *)
(* that finds Capacity events waiting is discarded.                        *)
(***************************************************************************)
EXTENDS Naturals, Sequences

CONSTANTS Events,       \* the exit events children can cause
          Capacity      \* how many of them can wait

VARIABLES waiting,      \* the events put and not yet taken, oldest first
          taken,        \* the events taken, oldest first
          discarded     \* the events that found the queue full

fifoVars == <<waiting, taken, discarded>>

ElementsOf(s) == {s[i] : i \in DOMAIN s}

Fresh(e) == e \notin ElementsOf(waiting) \cup ElementsOf(taken) \cup discarded

FifoInit == waiting = << >> /\ taken = << >> /\ discarded = {}

Put(e) == /\ Fresh(e)
          /\ Len(waiting) < Capacity
          /\ waiting' = Append(waiting, e)
          /\ UNCHANGED <<taken, discarded>>

Discard(e) == /\ Fresh(e)
              /\ Len(waiting) = Capacity
              /\ discarded' = discarded \cup {e}
              /\ UNCHANGED <<waiting, taken>>

Take == /\ waiting # << >>
        /\ taken' = Append(taken, Head(waiting))
        /\ waiting' = Tail(waiting)
        /\ UNCHANGED discarded

FifoNext == Take \/ \E e \in Events : Put(e) \/ Discard(e)

FifoSpec == FifoInit /\ [][FifoNext]_fifoVars
=============================================================================
