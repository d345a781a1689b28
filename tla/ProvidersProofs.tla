-------------------------- MODULE ProvidersProofs --------------------------
(***************************************************************************)
(* For every number of threads, of whatever kinds: the types, that a       *)
(* thread which is done has given back what it took, and that a callback   *)
(* gets the answer to its own query, once, when the query succeeds.        *)
(*                                                                         *)
(* The threads share the descriptor table, so the invariant is about one   *)
(* thread at a time: which ends of its own pipes are open and which file   *)
(* it has at each place, and for an ollama provider how what was received  *)
(* relates to what the server sent.                                        *)
(***************************************************************************)
EXTENDS Providers, FiniteSetTheorems, TLAPS

Tokens(l, n) == {k \in 1..n : l.sent[k].part = "token"}

\* How much of what the server sent has been received.
Received(l) == Len(l.sent) - Len(l.inbox)

Parts(mode) == IF mode = "query" THEN {"head", "text", "brace", "string", "whole"}
               ELSE {"head", "token", "long", "done"}

Asking == {"connect", "build", "send", "recv"}

\* The ends of its own pipes that a thread may have open.
OwnEnds(t) ==
  CASE kind[t] = "claude" /\ pc[t] \in {"piped", "ready", "forked"} -> Of(t)
    [] kind[t] = "claude" /\ pc[t] \in {"parent", "written"} -> {In(t, "write"), Out(t, "read")}
    [] kind[t] = "claude" /\ pc[t] = "reading" -> {Out(t, "read")}
    [] kind[t] = "flow" /\ pc[t] \in {"ready", "forked"} -> {In(t, "read"), In(t, "write")}
    [] kind[t] = "flow" /\ pc[t] = "done" -> {In(t, "write")}
    [] OTHER -> {}

Owned(t) ==
  /\ ends \cap Of(t) \subseteq OwnEnds(t)
  /\ t \in temp => kind[t] = "api" /\ pc[t] \in {"ready", "reading", "waiting"}
  /\ link[t].connected => kind[t] = "ollama" /\ pc[t] # "done"

\* A query through a child process, or the start of a script, returns once.
Once(t) ==
  kind[t] \in {"claude", "api", "flow"} =>
    /\ pc[t] # "done" => result[t] = "none"
    /\ given[t].count = IF result[t] = "ok" /\ kind[t] # "flow" THEN 1 ELSE 0

\* The next answer of a mock provider and the one it gave last.
Cycled(t) ==
  kind[t] = "mock" =>
    /\ given[t].count = IF result[t] = "ok" THEN 1 ELSE 0
    /\ canned[t].count > 0 =>
         /\ canned[t].next = canned[t].since % canned[t].count
         /\ canned[t].since > 0 => given[t].of = ((canned[t].since - 1) % canned[t].count) + 1

\* What has been received is a prefix of what the server sent for this query,
\* and the tokens in it have been passed on.
Receiving(l, g) ==
  /\ l.asked = l.query
  /\ Len(l.inbox) <= Len(l.sent) /\ Len(l.sent) <= MaxParts + 1
  /\ \A k \in 1..Len(l.inbox) : l.inbox[k] = l.sent[Received(l) + k]
  /\ \A k \in 1..Len(l.sent) : /\ l.sent[k].of = l.query /\ l.sent[k].part \in Parts(l.mode)
                               /\ l.sent[k].part = "head" <=> k = 1
                               /\ l.sent[k].part = "done" => k = Len(l.sent)
  /\ \A p \in l.seen : p.of = l.query
  /\ l.mode = "query" => g.count = 0
  /\ l.mode = "stream" => g.count = Cardinality(Tokens(l, Received(l)))

\* An ollama provider with link l at a place, with its last result and what it gave.
Fits(l, place, r, g) ==
  /\ place \in {"idle", "done"} \cup Asking
  /\ g.of \in {0, l.query}
  /\ place \in Asking => r = "none"
  /\ place \in {"connect", "build", "send"} => g = Nothing
  /\ IF place = "recv" THEN Receiving(l, g) ELSE l.asked = 0 /\ l.inbox = <<>>
  /\ place \in {"idle", "done"} =>
       /\ l.mode = "query" => g.count = IF r = "ok" THEN 1 ELSE 0
       /\ l.mode = "stream" /\ r = "ok" => g.count = Cardinality(Tokens(l, Len(l.sent)))

Linked(t) == kind[t] = "ollama" => Fits(link[t], pc[t], result[t], given[t])

ThreadInv(t) == Owned(t) /\ Once(t) /\ Cycled(t) /\ Linked(t)

Inv == TypeOK /\ \A t \in Threads : ThreadInv(t)
----------------------------------------------------------------------------
(* Pipes. *)

\* The four ends of a thread's pipes, which no other thread has.
LEMMA EndIs ==
  ASSUME NEW t \in Threads
  PROVE  /\ Of(t) \subseteq End
         /\ \A x \in {"read", "write"} : In(t, x) \in Of(t) /\ Out(t, x) \in Of(t)
         /\ In(t, "read") # In(t, "write") /\ Out(t, "read") # Out(t, "write")
         /\ \A x, y \in {"read", "write"} : In(t, x) # Out(t, y)
         /\ \A s \in Threads \ {t} : Of(s) \cap Of(t) = {}
  BY DEF Of, In, Out, End

\* A step of one thread: the others keep what they had.
LEMMA OneThread ==
  ASSUME Inv, NEW t \in Threads, TypeOK', ThreadInv(t)', kind' = kind,
         \A s \in Threads \ {t} : /\ pc'[s] = pc[s] /\ result'[s] = result[s] /\ given'[s] = given[s]
                                  /\ link'[s] = link[s] /\ canned'[s] = canned[s]
                                  /\ s \in temp' => s \in temp
                                  /\ ends' \cap Of(s) \subseteq ends
  PROVE  Inv'
  <1> SUFFICES ASSUME NEW s \in Threads, s # t PROVE ThreadInv(s)' BY DEF Inv
  <1>1. ThreadInv(s) BY DEF Inv
  <1>2. Owned(s)'
    <2>1. OwnEnds(s)' = OwnEnds(s) BY DEF OwnEnds
    <2> QED BY <1>1, <2>1 DEF ThreadInv, Owned
  <1>3. Once(s)' BY <1>1 DEF ThreadInv, Once
  <1>4. Cycled(s)' BY <1>1 DEF ThreadInv, Cycled
  <1>5. Linked(s)' BY <1>1 DEF ThreadInv, Linked
  <1> QED BY <1>2, <1>3, <1>4, <1>5 DEF ThreadInv

\* A step of a thread that has a child.
LEMMA PipeThread ==
  ASSUME Inv, NEW t \in Threads, kind[t] \in {"claude", "api", "flow"}, UNCHANGED <<kind, link, canned>>,
         TypeOK', Owned(t)', Once(t)',
         \A s \in Threads \ {t} : pc'[s] = pc[s] /\ result'[s] = result[s] /\ given'[s] = given[s],
         temp' \subseteq temp \cup {t}, ends' \subseteq ends \cup Of(t)
  PROVE  Inv'
  <1>1. Cycled(t)' /\ Linked(t)' BY DEF Cycled, Linked
  <1>2. \A s \in Threads \ {t} : ends' \cap Of(s) \subseteq ends BY EndIs
  <1>3. ThreadInv(t)' BY <1>1 DEF ThreadInv
  <1> QED BY <1>2, <1>3, OneThread

\* A step that changes neither a thread, its file nor the ends the daemon has open.
LEMMA ChildMoves ==
  ASSUME Inv, TypeOK', UNCHANGED <<kind, pc, result, given, ends, temp, link, canned>>
  PROVE  Inv'
  <1> SUFFICES ASSUME NEW s \in Threads PROVE ThreadInv(s)' BY DEF Inv
  <1>1. ThreadInv(s) BY DEF Inv
  <1>2. OwnEnds(s)' = OwnEnds(s) BY DEF OwnEnds
  <1>3. Owned(s)' /\ Once(s)' /\ Cycled(s)' BY <1>1, <1>2 DEF ThreadInv, Owned, Once, Cycled
  <1>4. Linked(s)' BY <1>1 DEF ThreadInv, Linked
  <1> QED BY <1>3, <1>4 DEF ThreadInv

\* The types of what a return or a move changes.
LEMMA GoToIs ==
  ASSUME TypeOK, NEW t \in Threads,
         NEW place \in {"idle", "connected", "piped", "ready", "forked", "parent", "written", "reading",
                        "waiting", "connect", "build", "send", "recv", "done"}, GoTo(t, place)
  PROVE  /\ pc' \in [Threads -> {"idle", "connected", "piped", "ready", "forked", "parent", "written",
                                 "reading", "waiting", "connect", "build", "send", "recv", "done"}]
         /\ pc'[t] = place /\ \A s \in Threads \ {t} : pc'[s] = pc[s]
  BY DEF TypeOK, GoTo

LEMMA ReturnsIs ==
  ASSUME TypeOK, NEW t \in Threads, NEW r \in {"none", "ok", "error"}, Returns(t, r)
  PROVE  /\ pc' \in [Threads -> {"idle", "connected", "piped", "ready", "forked", "parent", "written",
                                 "reading", "waiting", "connect", "build", "send", "recv", "done"}]
         /\ result' \in [Threads -> {"none", "ok", "error"}]
         /\ pc'[t] = "done" /\ result'[t] = r
         /\ \A s \in Threads \ {t} : pc'[s] = pc[s] /\ result'[s] = result[s]
  BY DEF TypeOK, Returns, GoTo

\* The types of what a fork changes.
LEMMA ForkIs ==
  ASSUME TypeOK, NEW t \in Threads, NEW own \in SUBSET Of(t), Fork(t, own)
  PROVE  /\ child' \in [Threads -> {"none", "forked", "running", "answering", "spilling", "flooding", "exited", "reaped"}]
         /\ held' \in [Threads -> SUBSET End] /\ UNCHANGED <<code, sigchld>>
  <1>1. (ends \ Of(t)) \cup own \in SUBSET End BY EndIs DEF TypeOK
  <1> QED BY <1>1 DEF TypeOK, Fork
----------------------------------------------------------------------------
(* A thread moves on without a result, or returns. *)

LEMMA PipeMoves ==
  ASSUME Inv, NEW t \in Threads, kind[t] \in {"claude", "api", "flow"}, UNCHANGED <<kind, result, given, link, canned>>,
         NEW place \in {"connected", "piped", "ready", "forked", "parent", "written", "reading", "waiting"},
         GoTo(t, place), pc[t] # "done", up' \in BOOLEAN, sigchld' \in BOOLEAN,
         child' \in [Threads -> {"none", "forked", "running", "answering", "spilling", "flooding", "exited", "reaped"}],
         held' \in [Threads -> SUBSET End], UNCHANGED code,
         temp' \subseteq temp \cup {t}, ends' \subseteq ends \cup Of(t),
         ends' \cap Of(t) \subseteq OwnEnds(t)',
         t \in temp' => kind[t] = "api" /\ place \in {"ready", "reading", "waiting"}
  PROVE  Inv'
  <1>1. /\ pc' \in [Threads -> {"idle", "connected", "piped", "ready", "forked", "parent", "written",
                                "reading", "waiting", "connect", "build", "send", "recv", "done"}]
        /\ pc'[t] = place /\ \A s \in Threads \ {t} : pc'[s] = pc[s]
    BY GoToIs DEF Inv
  <1>2. TypeOK' BY <1>1, EndIs DEF Inv, TypeOK
  <1>3. Owned(t) /\ Once(t) BY DEF Inv, ThreadInv
  <1>4. Owned(t)' BY <1>1, <1>3 DEF Owned
  <1>5. Once(t)' BY <1>1, <1>3 DEF Once
  <1> QED BY <1>1, <1>2, <1>4, <1>5, PipeThread

LEMMA PipeReturns ==
  ASSUME Inv, NEW t \in Threads, kind[t] \in {"claude", "api", "flow"}, UNCHANGED <<kind, up, held, code, sigchld, link, canned>>,
         NEW r \in {"ok", "error"}, Returns(t, r), pc[t] # "done",
         child' \in [Threads -> {"none", "forked", "running", "answering", "spilling", "flooding", "exited", "reaped"}],
         IF r = "ok" /\ kind[t] # "flow" THEN given' = [given EXCEPT ![t] = [of |-> 1, count |-> @.count + 1]]
         ELSE UNCHANGED given,
         temp' \subseteq temp \ {t}, ends' \subseteq ends,
         ends' \cap Of(t) \subseteq (IF kind[t] = "flow" THEN {In(t, "write")} ELSE {})
  PROVE  Inv'
  <1>1. /\ pc' \in [Threads -> {"idle", "connected", "piped", "ready", "forked", "parent", "written",
                                "reading", "waiting", "connect", "build", "send", "recv", "done"}]
        /\ result' \in [Threads -> {"none", "ok", "error"}]
        /\ pc'[t] = "done" /\ result'[t] = r
        /\ \A s \in Threads \ {t} : pc'[s] = pc[s] /\ result'[s] = result[s]
    BY ReturnsIs DEF Inv
  <1>2. Owned(t) /\ Once(t) BY DEF Inv, ThreadInv
  <1>3. given[t].count = 0 BY <1>2 DEF Once
  <1>4. /\ given' \in [Threads -> [of : Nat, count : 0..MaxParts]]
        /\ given'[t].count = IF r = "ok" /\ kind[t] # "flow" THEN 1 ELSE 0
        /\ \A s \in Threads \ {t} : given'[s] = given[s]
    <2>1. given \in [Threads -> [of : Nat, count : 0..MaxParts]] /\ MaxParts \in Nat \ {0}
      BY ProviderBounds DEF Inv, TypeOK
    <2>2. CASE r = "ok" /\ kind[t] # "flow"
      <3>1. given' = [given EXCEPT ![t] = [of |-> 1, count |-> 1]] BY <1>3, <2>1, <2>2
      <3>2. [of |-> 1, count |-> 1] \in [of : Nat, count : 0..MaxParts] BY <2>1
      <3> QED BY <2>1, <2>2, <3>1, <3>2
    <2>3. CASE ~(r = "ok" /\ kind[t] # "flow") BY <1>3, <2>1, <2>3
    <2> QED BY <2>2, <2>3
  <1>5. TypeOK' BY <1>1, <1>4 DEF Inv, TypeOK
  <1>6. OwnEnds(t)' = IF kind[t] = "flow" THEN {In(t, "write")} ELSE {} BY <1>1 DEF OwnEnds
  <1>7. Owned(t)' BY <1>1, <1>2, <1>6 DEF Owned
  <1>8. Once(t)' BY <1>1, <1>4 DEF Once
  <1> QED BY <1>1, <1>4, <1>5, <1>7, <1>8, PipeThread

LEMMA ClaudePreserves == ASSUME Inv, NEW t \in Threads, ClaudeStep(t) PROVE Inv'
  <1> USE DEF Inv, At
  <1>0. TypeOK /\ Owned(t) /\ Once(t) BY DEF ThreadInv
  <1>a. /\ child \in [Threads -> {"none", "forked", "running", "answering", "spilling", "flooding", "exited", "reaped"}]
        /\ held \in [Threads -> SUBSET End] /\ up \in BOOLEAN /\ sigchld \in BOOLEAN
        /\ pc \in [Threads -> {"idle", "connected", "piped", "ready", "forked", "parent", "written",
                               "reading", "waiting", "connect", "build", "send", "recv", "done"}]
    BY DEF TypeOK
  <1>1. ASSUME kind[t] = "claude", pc[t] \in {"idle", "connected"} PROVE OwnEnds(t) = {}
    BY <1>1 DEF OwnEnds
  <1>2. CASE ClaudeConnect(t)
    <2>1. /\ kind[t] = "claude" /\ pc[t] = "idle"
          /\ UNCHANGED <<kind, given, up, ends, child, held, code, sigchld, temp, link, canned>>
      BY <1>2 DEF ClaudeConnect, pipes
    <2>2. ends \cap Of(t) = {} /\ t \notin temp BY <1>0, <1>1, <2>1 DEF Owned
    <2>3. CASE GoTo(t, "connected") /\ UNCHANGED result BY <1>a, <2>1, <2>2, <2>3, PipeMoves
    <2>4. CASE Returns(t, "error") BY <1>a, <2>1, <2>2, <2>4, PipeReturns
    <2> QED BY <1>2, <2>3, <2>4 DEF ClaudeConnect
  <1>3. CASE PipeIn(t)
    <2>1. /\ kind[t] = "claude" /\ pc[t] = "connected"
          /\ UNCHANGED <<kind, given, up, child, held, code, sigchld, temp, link, canned>>
      BY <1>3 DEF PipeIn
    <2>2. ends \cap Of(t) = {} /\ t \notin temp BY <1>0, <1>1, <2>1 DEF Owned
    <2>3. CASE ends' = ends \cup {In(t, "read"), In(t, "write")} /\ GoTo(t, "piped") /\ UNCHANGED result
      <3>1. ends' \subseteq ends \cup Of(t) BY <2>3, EndIs
      <3>2. OwnEnds(t)' = Of(t) BY <1>a, <2>1, <2>3 DEF OwnEnds, GoTo
      <3> QED BY <1>a, <2>1, <2>2, <2>3, <3>1, <3>2, PipeMoves
    <2>4. CASE Returns(t, "error") /\ UNCHANGED ends BY <1>a, <2>1, <2>2, <2>4, PipeReturns
    <2> QED BY <1>3, <2>3, <2>4 DEF PipeIn
  <1>4. CASE PipeOut(t)
    <2>1. /\ kind[t] = "claude" /\ pc[t] = "piped"
          /\ UNCHANGED <<kind, given, up, child, held, code, sigchld, temp, link, canned>>
      BY <1>4 DEF PipeOut
    <2>2. t \notin temp BY <1>0, <2>1 DEF Owned
    <2>3. CASE ends' = ends \cup {Out(t, "read"), Out(t, "write")} /\ GoTo(t, "ready") /\ UNCHANGED result
      <3>1. ends' \subseteq ends \cup Of(t) BY <2>3, EndIs
      <3>2. OwnEnds(t)' = Of(t) BY <1>a, <2>1, <2>3 DEF OwnEnds, GoTo
      <3> QED BY <1>a, <2>1, <2>2, <2>3, <3>1, <3>2, PipeMoves
    <2>4. CASE ends' = ends \ Of(t) /\ Returns(t, "error") BY <1>a, <2>1, <2>2, <2>4, PipeReturns
    <2> QED BY <1>4, <2>3, <2>4 DEF PipeOut
  <1>5. CASE ForkClaude(t)
    <2>1. /\ kind[t] = "claude" /\ pc[t] = "ready" /\ GoTo(t, "forked")
          /\ Fork(t, {In(t, "read"), Out(t, "write")})
          /\ UNCHANGED <<kind, result, given, up, ends, temp, link, canned>>
      BY <1>5 DEF ForkClaude
    <2>2. t \notin temp BY <1>0, <2>1 DEF Owned
    <2>3. {In(t, "read"), Out(t, "write")} \in SUBSET Of(t) BY EndIs
    <2>4. /\ child' \in [Threads -> {"none", "forked", "running", "answering", "spilling", "flooding", "exited", "reaped"}]
          /\ held' \in [Threads -> SUBSET End] /\ UNCHANGED <<code, sigchld>>
      BY <1>0, <2>1, <2>3, ForkIs
    <2>5. OwnEnds(t)' = Of(t) BY <1>a, <2>1 DEF OwnEnds, GoTo
    <2> QED BY <1>a, <2>1, <2>2, <2>4, <2>5, PipeMoves
  <1>6. CASE ForkClaudeFails(t)
    <2>1. /\ kind[t] = "claude" /\ pc[t] = "ready" /\ ends' = ends \ Of(t) /\ Returns(t, "error")
          /\ UNCHANGED <<kind, given, up, child, held, code, sigchld, temp, link, canned>>
      BY <1>6 DEF ForkClaudeFails
    <2>2. t \notin temp BY <1>0, <2>1 DEF Owned
    <2> QED BY <1>a, <2>1, <2>2, PipeReturns
  <1>7. CASE CloseChildEnds(t)
    <2>1. /\ kind[t] = "claude" /\ pc[t] = "forked" /\ GoTo(t, "parent")
          /\ ends' = ends \ {In(t, "read"), Out(t, "write")}
          /\ UNCHANGED <<kind, result, given, up, child, held, code, sigchld, temp, link, canned>>
      BY <1>7 DEF CloseChildEnds
    <2>2. t \notin temp BY <1>0, <2>1 DEF Owned
    <2>3. OwnEnds(t)' = {In(t, "write"), Out(t, "read")} BY <1>a, <2>1 DEF OwnEnds, GoTo
    <2>4. \A e \in Of(t) : e \in {In(t, x) : x \in {"read", "write"}} \cup {Out(t, x) : x \in {"read", "write"}}
      BY DEF Of, End, In, Out
    <2>5. ends' \cap Of(t) \subseteq OwnEnds(t)' BY <2>1, <2>3, <2>4
    <2> QED BY <1>a, <2>1, <2>2, <2>5, PipeMoves
  <1>8. CASE WritePrompt(t)
    <2>1. /\ kind[t] = "claude" /\ pc[t] = "parent"
          /\ UNCHANGED <<kind, result, given, child, held, code, sigchld, temp, link, canned>>
      BY <1>8 DEF WritePrompt
    <2>2. t \notin temp BY <1>0, <2>1 DEF Owned
    <2>3. CASE GoTo(t, "written") /\ UNCHANGED <<up, ends>>
      <3>1. OwnEnds(t)' = OwnEnds(t) BY <1>a, <2>1, <2>3 DEF OwnEnds, GoTo
      <3>2. ends' \cap Of(t) \subseteq OwnEnds(t)' BY <1>0, <2>3, <3>1 DEF Owned
      <3> QED BY <1>a, <2>1, <2>2, <2>3, <3>2, PipeMoves
    <2>4. CASE up' = FALSE /\ ends' = {} /\ UNCHANGED pc
      <3>1. TypeOK' BY <2>1, <2>4 DEF TypeOK
      <3>2. Owned(t)' /\ Once(t)' BY <1>0, <2>1, <2>4 DEF Owned, Once
      <3> QED BY <2>1, <2>4, <3>1, <3>2, PipeThread
    <2> QED BY <1>8, <2>3, <2>4 DEF WritePrompt
  <1>9. CASE CloseStdin(t)
    <2>1. /\ kind[t] = "claude" /\ pc[t] = "written" /\ GoTo(t, "reading") /\ ends' = ends \ {In(t, "write")}
          /\ UNCHANGED <<kind, result, given, up, child, held, code, sigchld, temp, link, canned>>
      BY <1>9 DEF CloseStdin
    <2>2. t \notin temp BY <1>0, <2>1 DEF Owned
    <2>3. OwnEnds(t)' = {Out(t, "read")} /\ OwnEnds(t) = {In(t, "write"), Out(t, "read")}
      BY <1>a, <2>1 DEF OwnEnds, GoTo
    <2>4. ends' \cap Of(t) \subseteq OwnEnds(t)' BY <1>0, <2>1, <2>3 DEF Owned
    <2> QED BY <1>a, <2>1, <2>2, <2>4, PipeMoves
  <1>10. CASE ReadResponse(t)
    <2>1. /\ kind[t] = "claude" /\ pc[t] = "reading" /\ GoTo(t, "waiting") /\ ends' = ends \ {Out(t, "read")}
          /\ UNCHANGED <<kind, result, given, up, child, held, code, sigchld, temp, link, canned>>
      BY <1>10 DEF ReadResponse
    <2>2. t \notin temp BY <1>0, <2>1 DEF Owned
    <2>3. OwnEnds(t) = {Out(t, "read")} BY <2>1 DEF OwnEnds
    <2>4. ends' \cap Of(t) = {} BY <1>0, <2>1, <2>3 DEF Owned
    <2> QED BY <1>a, <2>1, <2>2, <2>4, PipeMoves
  <1>11. CASE WaitChild(t)
    <2>1. /\ kind[t] = "claude" /\ pc[t] = "waiting" /\ child' = [child EXCEPT ![t] = "reaped"]
          /\ UNCHANGED <<kind, up, ends, held, code, sigchld, temp, link, canned>>
      BY <1>11 DEF WaitChild
    <2>2. OwnEnds(t) = {} BY <2>1 DEF OwnEnds
    <2>3. t \notin temp /\ ends \cap Of(t) = {} BY <1>0, <2>1, <2>2 DEF Owned
    <2>4. child' \in [Threads -> {"none", "forked", "running", "answering", "spilling", "flooding", "exited", "reaped"}]
      BY <1>a, <2>1
    <2>5. CASE Returns(t, "ok") /\ given' = [given EXCEPT ![t] = [of |-> 1, count |-> @.count + 1]]
      BY <2>1, <2>3, <2>4, <2>5, PipeReturns
    <2>6. CASE Returns(t, "error") /\ UNCHANGED given BY <2>1, <2>3, <2>4, <2>6, PipeReturns
    <2> QED BY <1>11, <2>5, <2>6 DEF WaitChild
  <1> QED BY <1>2, <1>3, <1>4, <1>5, <1>6, <1>7, <1>8, <1>9, <1>10, <1>11 DEF ClaudeStep

LEMMA ApiPreserves == ASSUME Inv, NEW t \in Threads, ApiStep(t) PROVE Inv'
  <1> USE DEF Inv, At
  <1>0. TypeOK /\ Owned(t) BY DEF ThreadInv
  <1>a. /\ child \in [Threads -> {"none", "forked", "running", "answering", "spilling", "flooding", "exited", "reaped"}]
        /\ held \in [Threads -> SUBSET End] /\ up \in BOOLEAN /\ sigchld \in BOOLEAN
    BY DEF TypeOK
  <1>b. kind[t] = "api" BY DEF ApiStep, ApiInit, ApiFails, ApiBody, Popen, PopenFails, ReadHttpResponse, ApiAnswer
  <1>c. ends \cap Of(t) = {}
    <2>1. OwnEnds(t) = {} BY <1>b DEF OwnEnds
    <2> QED BY <1>0, <2>1 DEF Owned
  <1>1. CASE ApiInit(t)
    <2>1. /\ pc[t] = "idle" /\ GoTo(t, "connected")
          /\ UNCHANGED <<kind, result, given, up, ends, child, held, code, sigchld, temp, link, canned>>
      BY <1>1 DEF ApiInit, pipes
    <2>2. t \notin temp BY <1>0, <2>1 DEF Owned
    <2> QED BY <1>a, <1>b, <1>c, <2>1, <2>2, PipeMoves
  <1>2. CASE ApiFails(t)
    <2>1. /\ pc[t] = "connected" /\ Returns(t, "error")
          /\ UNCHANGED <<kind, given, up, ends, child, held, code, sigchld, temp, link, canned>>
      BY <1>2 DEF ApiFails, pipes
    <2>2. t \notin temp BY <1>0, <2>1 DEF Owned
    <2> QED BY <1>a, <1>b, <1>c, <2>1, <2>2, PipeReturns
  <1>3. CASE ApiBody(t)
    <2>1. /\ pc[t] = "connected" /\ GoTo(t, "ready") /\ temp' = temp \cup {t}
          /\ UNCHANGED <<kind, result, given, up, ends, child, held, code, sigchld, link, canned>>
      BY <1>3 DEF ApiBody, pipes
    <2> QED BY <1>a, <1>b, <1>c, <2>1, PipeMoves
  <1>4. CASE Popen(t)
    <2>1. /\ pc[t] = "ready" /\ GoTo(t, "reading") /\ Fork(t, {Out(t, "write")})
          /\ UNCHANGED <<kind, result, given, up, ends, temp, link, canned>>
      BY <1>4 DEF Popen
    <2>2. {Out(t, "write")} \in SUBSET Of(t) BY EndIs
    <2>3. /\ child' \in [Threads -> {"none", "forked", "running", "answering", "spilling", "flooding", "exited", "reaped"}]
          /\ held' \in [Threads -> SUBSET End] /\ UNCHANGED <<code, sigchld>>
      BY <1>0, <2>1, <2>2, ForkIs
    <2> QED BY <1>a, <1>b, <1>c, <2>1, <2>3, PipeMoves
  <1>5. CASE PopenFails(t)
    <2>1. /\ pc[t] = "ready" /\ Returns(t, "error") /\ temp' = temp \ {t}
          /\ UNCHANGED <<kind, given, up, ends, child, held, code, sigchld, link, canned>>
      BY <1>5 DEF PopenFails, pipes
    <2> QED BY <1>a, <1>b, <1>c, <2>1, PipeReturns
  <1>6. CASE ReadHttpResponse(t)
    <2>1. /\ pc[t] = "reading" /\ GoTo(t, "waiting")
          /\ UNCHANGED <<kind, result, given, up, ends, child, held, code, sigchld, temp, link, canned>>
      BY <1>6 DEF ReadHttpResponse, pipes
    <2> QED BY <1>a, <1>b, <1>c, <2>1, PipeMoves
  <1>7. CASE ApiAnswer(t)
    <2>1. /\ pc[t] = "waiting" /\ temp' = temp \ {t} /\ child' = [child EXCEPT ![t] = "reaped"]
          /\ UNCHANGED <<kind, up, ends, held, code, sigchld, link, canned>>
      BY <1>7 DEF ApiAnswer
    <2>2. child' \in [Threads -> {"none", "forked", "running", "answering", "spilling", "flooding", "exited", "reaped"}]
      BY <1>a, <2>1
    <2>3. CASE Returns(t, "ok") /\ given' = [given EXCEPT ![t] = [of |-> 1, count |-> @.count + 1]]
      BY <1>b, <1>c, <2>1, <2>2, <2>3, PipeReturns
    <2>4. CASE Returns(t, "error") /\ UNCHANGED given BY <1>b, <1>c, <2>1, <2>2, <2>4, PipeReturns
    <2> QED BY <1>7, <2>3, <2>4 DEF ApiAnswer
  <1> QED BY <1>1, <1>2, <1>3, <1>4, <1>5, <1>6, <1>7 DEF ApiStep

LEMMA FlowPreserves == ASSUME Inv, NEW t \in Threads, FlowStep(t) PROVE Inv'
  <1> USE DEF Inv, At
  <1>0. TypeOK /\ Owned(t) BY DEF ThreadInv
  <1>a. /\ child \in [Threads -> {"none", "forked", "running", "answering", "spilling", "flooding", "exited", "reaped"}]
        /\ held \in [Threads -> SUBSET End] /\ up \in BOOLEAN /\ sigchld \in BOOLEAN
        /\ pc \in [Threads -> {"idle", "connected", "piped", "ready", "forked", "parent", "written",
                               "reading", "waiting", "connect", "build", "send", "recv", "done"}]
    BY DEF TypeOK
  <1>b. kind[t] = "flow" BY DEF FlowStep, FlowPipe, FlowFork, FlowForkFails, FlowStarted
  <1>c. t \notin temp BY <1>0, <1>b DEF Owned
  <1>1. CASE FlowPipe(t)
    <2>1. pc[t] = "idle" /\ UNCHANGED <<kind, given, up, child, held, code, sigchld, temp, link, canned>>
      BY <1>1 DEF FlowPipe
    <2>2. ends \cap Of(t) = {}
      <3>1. OwnEnds(t) = {} BY <1>b, <2>1 DEF OwnEnds
      <3> QED BY <1>0, <3>1 DEF Owned
    <2>3. CASE ends' = ends \cup {In(t, "read"), In(t, "write")} /\ GoTo(t, "ready") /\ UNCHANGED result
      <3>1. ends' \subseteq ends \cup Of(t) BY <2>3, EndIs
      <3>2. OwnEnds(t)' = {In(t, "read"), In(t, "write")} BY <1>a, <1>b, <2>1, <2>3 DEF OwnEnds, GoTo
      <3>3. ends' \cap Of(t) \subseteq OwnEnds(t)' BY <2>2, <2>3, <3>2
      <3> QED BY <1>a, <1>b, <1>c, <2>1, <2>3, <3>1, <3>3, PipeMoves
    <2>4. CASE Returns(t, "error") /\ UNCHANGED ends BY <1>a, <1>b, <1>c, <2>1, <2>2, <2>4, PipeReturns
    <2> QED BY <1>1, <2>3, <2>4 DEF FlowPipe
  <1>2. CASE FlowFork(t)
    <2>1. /\ pc[t] = "ready" /\ GoTo(t, "forked") /\ Fork(t, {In(t, "read")})
          /\ UNCHANGED <<kind, result, given, up, ends, temp, link, canned>>
      BY <1>2 DEF FlowFork
    <2>2. {In(t, "read")} \in SUBSET Of(t) BY EndIs
    <2>3. /\ child' \in [Threads -> {"none", "forked", "running", "answering", "spilling", "flooding", "exited", "reaped"}]
          /\ held' \in [Threads -> SUBSET End] /\ UNCHANGED <<code, sigchld>>
      BY <1>0, <2>1, <2>2, ForkIs
    <2>4. OwnEnds(t)' = OwnEnds(t) BY <1>a, <1>b, <2>1 DEF OwnEnds, GoTo
    <2>5. ends' \cap Of(t) \subseteq OwnEnds(t)' BY <1>0, <2>1, <2>4 DEF Owned
    <2> QED BY <1>a, <1>b, <1>c, <2>1, <2>3, <2>5, PipeMoves
  <1>3. CASE FlowForkFails(t)
    <2>1. /\ pc[t] = "ready" /\ ends' = ends \ Of(t) /\ Returns(t, "error")
          /\ UNCHANGED <<kind, given, up, child, held, code, sigchld, temp, link, canned>>
      BY <1>3 DEF FlowForkFails
    <2> QED BY <1>a, <1>b, <1>c, <2>1, PipeReturns
  <1>4. CASE FlowStarted(t)
    <2>1. /\ pc[t] = "forked" /\ ends' = ends \ {In(t, "read")} /\ Returns(t, "ok")
          /\ UNCHANGED <<kind, given, up, child, held, code, sigchld, temp, link, canned>>
      BY <1>4 DEF FlowStarted
    <2>2. OwnEnds(t) = {In(t, "read"), In(t, "write")} BY <1>b, <2>1 DEF OwnEnds
    <2>3. ends' \cap Of(t) \subseteq {In(t, "write")} BY <1>0, <2>1, <2>2 DEF Owned
    <2> QED BY <1>a, <1>b, <1>c, <2>1, <2>3, PipeReturns
  <1> QED BY <1>1, <1>2, <1>3, <1>4 DEF FlowStep

LEMMA ChildPreserves ==
  ASSUME Inv, NEW t \in Threads, ChildStep(t) \/ ScriptEnds(t)
  PROVE  Inv'
  <1>1. ASSUME NEW s \in {0, 1}, Exits(t, s) PROVE Inv'
    <2>1. TypeOK' BY <1>1 DEF Inv, TypeOK, Exits
    <2> QED BY <1>1, <2>1, ChildMoves DEF Exits
  <1>2. ASSUME NEW state \in {"running", "answering", "spilling", "flooding"}, Becomes(t, state) PROVE Inv'
    <2>1. TypeOK' BY <1>2 DEF Inv, TypeOK, Becomes
    <2> QED BY <1>2, <2>1, ChildMoves DEF Becomes
  <1> QED BY <1>1, <1>2 DEF ChildStep, Exec, SeesEof, Answers, Overflows, CurlEnds, ScriptEnds

LEMMA SigchldPreserves == ASSUME Inv, SigchldHandler PROVE Inv'
  <1>1. TypeOK' BY DEF Inv, TypeOK, SigchldHandler
  <1> QED BY <1>1, ChildMoves DEF SigchldHandler
----------------------------------------------------------------------------
(* An ollama provider. *)

\* A step of an ollama provider or of its server.
LEMMA OllamaThread ==
  ASSUME Inv, NEW t \in Threads, kind[t] = "ollama", UNCHANGED rest,
         pc' \in [Threads -> {"idle", "connected", "piped", "ready", "forked", "parent", "written",
                              "reading", "waiting", "connect", "build", "send", "recv", "done"}],
         result' \in [Threads -> {"none", "ok", "error"}],
         given' \in [Threads -> [of : Nat, count : 0..MaxParts]],
         link' \in [Threads -> Link],
         \A s \in Threads \ {t} : /\ pc'[s] = pc[s] /\ result'[s] = result[s] /\ given'[s] = given[s]
                                  /\ link'[s] = link[s],
         link'[t].connected => pc'[t] # "done",
         Fits(link'[t], pc'[t], result'[t], given'[t])
  PROVE  Inv'
  <1>1. UNCHANGED <<kind, up, ends, child, held, code, sigchld, temp, canned>> BY DEF rest, pipes
  <1>2. TypeOK' BY <1>1 DEF Inv, TypeOK
  <1>3. Owned(t) BY DEF Inv, ThreadInv
  <1>4. OwnEnds(t)' = {} /\ OwnEnds(t) = {} BY <1>1 DEF OwnEnds
  <1>5. Owned(t)' BY <1>1, <1>3, <1>4 DEF Owned
  <1>6. Once(t)' /\ Cycled(t)' BY <1>1 DEF Once, Cycled
  <1>7. Linked(t)' BY DEF Linked
  <1>8. ThreadInv(t)' BY <1>5, <1>6, <1>7 DEF ThreadInv
  <1> QED BY <1>1, <1>2, <1>8, OneThread

\* The same, with what each variable becomes.
LEMMA OllamaMoves ==
  ASSUME Inv, NEW t \in Threads, kind[t] = "ollama", UNCHANGED rest,
         NEW l \in Link, link' = [link EXCEPT ![t] = l],
         NEW place \in {"idle", "done"} \cup Asking, pc' = [pc EXCEPT ![t] = place],
         NEW r \in {"none", "ok", "error"}, result' = [result EXCEPT ![t] = r],
         NEW g \in [of : Nat, count : 0..MaxParts], given' = [given EXCEPT ![t] = g],
         l.connected => place # "done", Fits(l, place, r, g)
  PROVE  Inv'
  <1>1. /\ pc' \in [Threads -> {"idle", "connected", "piped", "ready", "forked", "parent", "written",
                                "reading", "waiting", "connect", "build", "send", "recv", "done"}]
        /\ pc'[t] = place /\ \A s \in Threads \ {t} : pc'[s] = pc[s]
    BY DEF Inv, TypeOK, Asking
  <1>2. /\ result' \in [Threads -> {"none", "ok", "error"}] /\ result'[t] = r
        /\ \A s \in Threads \ {t} : result'[s] = result[s]
    BY DEF Inv, TypeOK
  <1>3. /\ given' \in [Threads -> [of : Nat, count : 0..MaxParts]] /\ given'[t] = g
        /\ \A s \in Threads \ {t} : given'[s] = given[s]
    BY DEF Inv, TypeOK
  <1>4. /\ link' \in [Threads -> Link] /\ link'[t] = l /\ \A s \in Threads \ {t} : link'[s] = link[s]
    BY DEF Inv, TypeOK
  <1> QED BY <1>1, <1>2, <1>3, <1>4, OllamaThread

\* A step towards the answer, with no result yet.
LEMMA OllamaGoes ==
  ASSUME Inv, NEW t \in Threads, kind[t] = "ollama", UNCHANGED <<result, given, rest>>,
         NEW l \in Link, link' = [link EXCEPT ![t] = l],
         NEW place \in Asking, pc' = [pc EXCEPT ![t] = place], Fits(l, place, result[t], given[t])
  PROVE  Inv'
  <1>1. /\ pc' \in [Threads -> {"idle", "connected", "piped", "ready", "forked", "parent", "written",
                                "reading", "waiting", "connect", "build", "send", "recv", "done"}]
        /\ pc'[t] = place /\ place # "done" /\ \A s \in Threads \ {t} : pc'[s] = pc[s]
    BY DEF Inv, TypeOK, Asking
  <1>2. /\ link' \in [Threads -> Link] /\ link'[t] = l /\ \A s \in Threads \ {t} : link'[s] = link[s]
    BY DEF Inv, TypeOK
  <1>3. /\ result' \in [Threads -> {"none", "ok", "error"}]
        /\ given' \in [Threads -> [of : Nat, count : 0..MaxParts]]
        /\ result' = result /\ given' = given /\ UNCHANGED rest
    BY DEF Inv, TypeOK
  <1>4. Fits(link'[t], pc'[t], result'[t], given'[t]) BY <1>1, <1>2, <1>3
  <1> QED BY <1>1, <1>2, <1>3, <1>4, OllamaThread

\* A variable that is left alone, as OllamaMoves wants it.
LEMMA Same ==
  ASSUME TypeOK, NEW t \in Threads
  PROVE  /\ link = [link EXCEPT ![t] = link[t]] /\ pc = [pc EXCEPT ![t] = pc[t]]
         /\ result = [result EXCEPT ![t] = result[t]] /\ given = [given EXCEPT ![t] = given[t]]
         /\ link[t] \in Link /\ result[t] \in {"none", "ok", "error"}
         /\ given[t] \in [of : Nat, count : 0..MaxParts]
  BY DEF TypeOK

LEMMA DisconnectedIs ==
  ASSUME NEW l \in Link
  PROVE  /\ Disconnected(l) \in Link /\ ~Disconnected(l).connected
         /\ Disconnected(l).asked = 0 /\ Disconnected(l).inbox = <<>>
         /\ Disconnected(l).mode = l.mode /\ Disconnected(l).query = l.query
         /\ Disconnected(l).sent = l.sent
  <1>1. MaxQueries \in Nat BY ProviderBounds
  <1>2. <<>> \in Seq(Piece) /\ 0 \in 0..MaxQueries /\ {} \in SUBSET Piece BY <1>1
  <1> QED BY <1>2 DEF Disconnected, Link

\* A query that fails leaves nothing behind but the connection.
LEMMA RefusesPreserves ==
  ASSUME Inv, NEW t \in Threads, kind[t] = "ollama", pc[t] \in Asking,
         NEW l \in Link, Refuses(t, l), l.asked = 0, l.inbox = <<>>,
         l.mode = link[t].mode, l.query = link[t].query
  PROVE  Inv'
  <1>1. Fits(link[t], pc[t], result[t], given[t]) BY DEF Inv, ThreadInv, Linked
  <1>2. l.mode = "query" => given[t].count = 0
    BY <1>1 DEF Fits, Receiving, Asking, Nothing
  <1>3. Fits(l, "idle", "error", given[t]) BY <1>1, <1>2 DEF Fits, Asking
  <1>4. /\ link' = [link EXCEPT ![t] = l] /\ pc' = [pc EXCEPT ![t] = "idle"]
        /\ result' = [result EXCEPT ![t] = "error"] /\ UNCHANGED <<given, rest>>
    BY DEF Refuses, GoTo
  <1>5. given' = [given EXCEPT ![t] = given[t]] /\ given[t] \in [of : Nat, count : 0..MaxParts]
    BY <1>4, Same DEF Inv
  <1> QED BY <1>3, <1>4, <1>5, OllamaMoves

\* The loop ends: only a query in its first answer gets to the callback.
LEMMA FinishPreserves ==
  ASSUME Inv, NEW t \in Threads, kind[t] = "ollama", pc[t] = "recv",
         NEW l \in Link, Finish(t, l), l.mode = link[t].mode, l.query = link[t].query,
         \A p \in l.seen : p.of = l.query
  PROVE  Inv'
  <1>1. Fits(link[t], pc[t], result[t], given[t]) BY DEF Inv, ThreadInv, Linked
  <1>2. /\ Disconnected(l) \in Link /\ ~Disconnected(l).connected
        /\ Disconnected(l).asked = 0 /\ Disconnected(l).inbox = <<>>
        /\ Disconnected(l).mode = l.mode /\ Disconnected(l).query = l.query
    BY DisconnectedIs
  <1>3. CASE Refuses(t, Disconnected(l)) BY <1>2, <1>3, RefusesPreserves DEF Asking
  <1>4. ASSUME NEW p \in l.seen, l.mode = "query",
               link' = [link EXCEPT ![t] = Disconnected(l)], result' = [result EXCEPT ![t] = "ok"],
               given' = [given EXCEPT ![t] = [of |-> p.of, count |-> @.count + 1]],
               GoTo(t, "idle"), UNCHANGED rest
        PROVE  Inv'
    <2>1. given[t].count = 0 BY <1>1, <1>4 DEF Fits, Receiving
    <2>2. p.of = l.query /\ l.query \in Nat BY ProviderBounds DEF Link
    <2>3. MaxParts \in Nat \ {0} BY ProviderBounds
    <2>4. given' = [given EXCEPT ![t] = [of |-> l.query, count |-> 1]]
      BY <1>4, <2>1, <2>2 DEF Inv, TypeOK
    <2>5. [of |-> l.query, count |-> 1] \in [of : Nat, count : 0..MaxParts] BY <2>2, <2>3
    <2>6. Fits(Disconnected(l), "idle", "ok", [of |-> l.query, count |-> 1])
      BY <1>2, <1>4 DEF Fits, Asking
    <2>7. pc' = [pc EXCEPT ![t] = "idle"] BY <1>4 DEF GoTo
    <2> DEFINE g == [of |-> l.query, count |-> 1]
               d == Disconnected(l)
    <2>8. /\ d \in Link /\ ~d.connected /\ link' = [link EXCEPT ![t] = d]
          /\ g \in [of : Nat, count : 0..MaxParts] /\ given' = [given EXCEPT ![t] = g] /\ Fits(d, "idle", "ok", g)
      BY <1>2, <1>4, <2>4, <2>5, <2>6
    <2> HIDE DEF g, d
    <2> QED BY <1>4, <2>7, <2>8, OllamaMoves
  <1> QED BY <1>3, <1>4 DEF Finish

\* One more piece of the stream is received.
LEMMA TokensNext ==
  ASSUME NEW l, NEW n \in Nat
  PROVE  /\ IsFiniteSet(Tokens(l, n)) /\ Cardinality(Tokens(l, n)) \in Nat
         /\ Cardinality(Tokens(l, n + 1)) =
              IF l.sent[n + 1].part = "token" THEN Cardinality(Tokens(l, n)) + 1
              ELSE Cardinality(Tokens(l, n))
  <1>1. IsFiniteSet(1..n) BY FS_Interval
  <1>2. Tokens(l, n) \subseteq 1..n BY DEF Tokens
  <1>3. IsFiniteSet(Tokens(l, n)) BY <1>1, <1>2, FS_Subset
  <1>4. Cardinality(Tokens(l, n)) \in Nat BY <1>3, FS_CardinalityType
  <1>5. CASE l.sent[n + 1].part = "token"
    <2>1. Tokens(l, n + 1) = Tokens(l, n) \cup {n + 1} BY <1>5 DEF Tokens
    <2>2. n + 1 \notin Tokens(l, n) BY <1>2
    <2> QED BY <1>3, <1>4, <1>5, <2>1, <2>2, FS_AddElement
  <1>6. CASE l.sent[n + 1].part # "token"
    <2>1. Tokens(l, n + 1) = Tokens(l, n) BY <1>6 DEF Tokens
    <2> QED BY <1>3, <1>4, <1>6, <2>1
  <1> QED BY <1>3, <1>4, <1>5, <1>6

\* The first piece is the head, so there are fewer tokens than pieces.
LEMMA FewTokens ==
  ASSUME NEW l, NEW n \in 0..(MaxParts + 1), n > 0 => l.sent[1].part = "head"
  PROVE  Cardinality(Tokens(l, n)) \in 0..MaxParts
  <1>1. MaxParts \in Nat BY ProviderBounds
  <1>2. Tokens(l, n) \subseteq 2..(MaxParts + 1)
    <2> SUFFICES ASSUME NEW k \in 1..n, l.sent[k].part = "token" PROVE k \in 2..(MaxParts + 1)
      BY DEF Tokens
    <2>1. k # 1 OBVIOUS
    <2> QED BY <1>1, <2>1
  <1>3. IsFiniteSet(2..(MaxParts + 1)) /\ Cardinality(2..(MaxParts + 1)) = MaxParts
    BY <1>1, FS_Interval
  <1>4. Cardinality(Tokens(l, n)) <= MaxParts
    <2> DEFINE S == Tokens(l, n)
               T == 2..(MaxParts + 1)
    <2>1. S \subseteq T /\ IsFiniteSet(T) /\ Cardinality(T) = MaxParts BY <1>2, <1>3
    <2> HIDE DEF S, T
    <2>2. Cardinality(S) <= Cardinality(T) BY <2>1, FS_Subset
    <2> QED BY <2>1, <2>2 DEF S
  <1>5. n \in Nat BY <1>1
  <1>6. Cardinality(Tokens(l, n)) \in Nat BY <1>5, TokensNext
  <1> QED BY <1>1, <1>4, <1>6

LEMMA AskPreserves == ASSUME Inv, NEW t \in Threads, Ask(t) PROVE Inv'
  <1>1. kind[t] = "ollama" /\ pc[t] = "idle" /\ link[t].query < MaxQueries /\ UNCHANGED rest BY DEF Ask, At
  <1>2. link[t] \in Link /\ Fits(link[t], pc[t], result[t], given[t])
    BY <1>1 DEF Inv, TypeOK, ThreadInv, Linked
  <1>3. PICK m \in {"query", "stream"} :
          link' = [link EXCEPT ![t] = [link[t] EXCEPT !.query = link[t].query + 1, !.mode = m]]
    BY DEF Ask
  <1> DEFINE l == [link[t] EXCEPT !.query = link[t].query + 1, !.mode = m]
  <1>4. link' = [link EXCEPT ![t] = l] BY <1>3
  <1>5. link[t].query + 1 \in 0..MaxQueries BY <1>1, <1>2, ProviderBounds DEF Link
  <1>6. l \in Link /\ l.asked = link[t].asked /\ l.inbox = link[t].inbox
    <2> DEFINE q == link[t].query + 1
    <2>1. q \in 0..MaxQueries BY <1>5
    <2> HIDE DEF q
    <2>2. [link[t] EXCEPT !.query = q, !.mode = m] \in Link BY <1>2, <2>1 DEF Link
    <2>3. /\ [link[t] EXCEPT !.query = q, !.mode = m].asked = link[t].asked
          /\ [link[t] EXCEPT !.query = q, !.mode = m].inbox = link[t].inbox
      BY <1>2 DEF Link
    <2> QED BY <2>2, <2>3 DEF q
  <1> HIDE DEF l
  <1>7. Fits(l, "connect", "none", Nothing) BY <1>1, <1>2, <1>6 DEF Fits, Asking, Nothing
  <1>8. Nothing \in [of : Nat, count : 0..MaxParts] BY ProviderBounds DEF Nothing
  <1>9. /\ pc' = [pc EXCEPT ![t] = "connect"] /\ result' = [result EXCEPT ![t] = "none"]
        /\ given' = [given EXCEPT ![t] = Nothing] /\ "connect" \in {"idle", "done"} \cup Asking
    BY DEF Ask, GoTo, Asking
  <1> QED BY <1>1, <1>4, <1>6, <1>7, <1>8, <1>9, OllamaMoves

LEMMA EnsurePreserves == ASSUME Inv, NEW t \in Threads, EnsureConnected(t) PROVE Inv'
  <1>1. kind[t] = "ollama" /\ pc[t] = "connect" BY DEF EnsureConnected, At
  <1>2. link[t] \in Link /\ Fits(link[t], pc[t], result[t], given[t])
    BY <1>1 DEF Inv, TypeOK, ThreadInv, Linked
  <1>3. CASE Refuses(t, link[t]) BY <1>1, <1>2, <1>3, RefusesPreserves DEF Fits, Asking
  <1>4. CASE ~Refuses(t, link[t])
    <2> DEFINE l == IF link[t].connected THEN link[t]
                    ELSE [link[t] EXCEPT !.connected = TRUE, !.server = "open"]
    <2>1. /\ link' = [link EXCEPT ![t] = l] /\ pc' = [pc EXCEPT ![t] = "build"]
          /\ UNCHANGED <<result, given, rest>>
      BY <1>4 DEF EnsureConnected, GoTo, Inv, TypeOK
    <2>2. /\ l \in Link /\ l.asked = link[t].asked /\ l.inbox = link[t].inbox /\ l.query = link[t].query
      BY <1>2 DEF Link
    <2> HIDE DEF l
    <2>3. Fits(l, "build", result[t], given[t]) BY <1>1, <1>2, <2>2 DEF Fits, Asking
    <2>4. "build" \in Asking BY DEF Asking
    <2> QED BY <1>1, <2>1, <2>2, <2>3, <2>4, OllamaGoes
  <1> QED BY <1>3, <1>4

LEMMA BuildPreserves == ASSUME Inv, NEW t \in Threads, BuildRequest(t) PROVE Inv'
  <1>1. kind[t] = "ollama" /\ pc[t] = "build" BY DEF BuildRequest, At
  <1>2. link[t] \in Link /\ Fits(link[t], pc[t], result[t], given[t])
    BY <1>1 DEF Inv, TypeOK, ThreadInv, Linked
  <1>3. CASE Refuses(t, link[t]) BY <1>1, <1>2, <1>3, RefusesPreserves DEF Fits, Asking
  <1>4. CASE GoTo(t, "send") /\ UNCHANGED <<result, given, link, rest>>
    <2>1. Fits(link[t], "send", result[t], given[t]) BY <1>1, <1>2 DEF Fits, Asking
    <2>2. link' = [link EXCEPT ![t] = link[t]] /\ pc' = [pc EXCEPT ![t] = "send"] /\ "send" \in Asking
      BY <1>4, Same DEF Inv, Asking, GoTo
    <2>3. UNCHANGED <<result, given, rest>> BY <1>4
    <2> QED BY <1>1, <1>2, <2>1, <2>2, <2>3, OllamaGoes
  <1> QED BY <1>3, <1>4 DEF BuildRequest

LEMMA SendPreserves == ASSUME Inv, NEW t \in Threads, SendRequest(t) PROVE Inv'
  <1>1. kind[t] = "ollama" /\ pc[t] = "send" BY DEF SendRequest, At
  <1>2. link[t] \in Link /\ Fits(link[t], pc[t], result[t], given[t])
    BY <1>1 DEF Inv, TypeOK, ThreadInv, Linked
  <1>3. CASE Refuses(t, Disconnected(link[t]))
    BY <1>1, <1>2, <1>3, DisconnectedIs, RefusesPreserves DEF Asking
  <1>4. CASE ~Refuses(t, Disconnected(link[t]))
    <2> DEFINE l == [link[t] EXCEPT !.asked = link[t].query, !.sent = <<>>, !.seen = {}]
    <2>1. /\ link' = [link EXCEPT ![t] = l] /\ pc' = [pc EXCEPT ![t] = "recv"]
          /\ UNCHANGED <<result, given, rest>>
      BY <1>4 DEF SendRequest, GoTo, Inv, TypeOK
    <2>2. /\ l \in Link /\ l.asked = link[t].query /\ l.inbox = link[t].inbox /\ l.query = link[t].query
          /\ l.sent = <<>> /\ l.seen = {}
      <3> DEFINE q == link[t].query
      <3>1. q \in 0..MaxQueries /\ <<>> \in Seq(Piece) /\ {} \in SUBSET Piece BY <1>2 DEF Link
      <3> HIDE DEF q
      <3>2. [link[t] EXCEPT !.asked = q, !.sent = <<>>, !.seen = {}] \in Link BY <1>2, <3>1 DEF Link
      <3>3. LET k == [link[t] EXCEPT !.asked = q, !.sent = <<>>, !.seen = {}]
            IN  /\ k.asked = q /\ k.inbox = link[t].inbox /\ k.query = link[t].query
                /\ k.sent = <<>> /\ k.seen = {}
        BY <1>2 DEF Link
      <3> QED BY <3>2, <3>3 DEF q
    <2> HIDE DEF l
    <2>3. Len(l.sent) = 0 /\ Len(l.inbox) = 0 BY <1>1, <1>2, <2>2 DEF Fits
    <2>4. Cardinality(Tokens(l, Received(l))) = 0
      <3>1. Tokens(l, Received(l)) = {} BY <2>3 DEF Tokens, Received
      <3> QED BY <3>1, FS_EmptySet
    <2>5. given[t].count = 0 BY <1>1, <1>2 DEF Fits, Nothing
    <2>6. Receiving(l, given[t]) BY <2>2, <2>3, <2>4, <2>5, ProviderBounds DEF Receiving
    <2>7. Fits(l, "recv", result[t], given[t]) BY <1>1, <1>2, <2>2, <2>6 DEF Fits, Asking
    <2>8. "recv" \in Asking BY DEF Asking
    <2> QED BY <1>1, <2>1, <2>2, <2>7, <2>8, OllamaGoes
  <1> QED BY <1>3, <1>4

LEMMA AppendIs ==
  ASSUME NEW S, NEW q \in Seq(S), NEW x \in S
  PROVE  /\ Append(q, x) \in Seq(S) /\ Len(Append(q, x)) = Len(q) + 1 /\ Len(q) \in Nat
         /\ \A k \in 1..Len(q) : Append(q, x)[k] = q[k] /\ q[k] \in S
         /\ Append(q, x)[Len(q) + 1] = x
  OBVIOUS

LEMMA TailIs ==
  ASSUME NEW S, NEW q \in Seq(S), q # <<>>
  PROVE  /\ Tail(q) \in Seq(S) /\ Len(Tail(q)) = Len(q) - 1 /\ Len(q) \in Nat \ {0}
         /\ \A k \in 1..(Len(q) - 1) : Tail(q)[k] = q[k + 1]
         /\ Head(q) = q[1] /\ Head(q) \in S
  OBVIOUS

\* The next piece of an answer is one of its mode, and follows only an
\* answer that is not complete.
LEMMA FollowingIs ==
  ASSUME NEW l \in Link, NEW g, Receiving(l, g), NEW p \in Following(l)
  PROVE  /\ p \in Parts(l.mode) /\ (p = "head" <=> l.sent = <<>>)
         /\ l.sent # <<>> => l.sent[Len(l.sent)].part # "done"
  <1>1. l.mode \in {"query", "stream"} /\ l.sent \in Seq(Piece) BY DEF Link
  <1>2. CASE l.sent = <<>> BY <1>1, <1>2 DEF Following, Parts
  <1>3. CASE l.sent # <<>>
    <2> DEFINE last == l.sent[Len(l.sent)].part
    <2>1. Len(l.sent) \in 1..Len(l.sent) BY <1>1, <1>3
    <2>2. last \in Parts(l.mode) BY <2>1 DEF Receiving
    <2>3. last \notin {"whole", "done"} BY <1>3 DEF Following
    <2>4. CASE last = "string"
      <3>1. p = "whole" BY <1>3, <2>4 DEF Following
      <3>2. l.mode = "query" BY <1>1, <2>2, <2>4 DEF Parts
      <3> QED BY <1>3, <2>3, <3>1, <3>2 DEF Parts
    <2>5. CASE last # "string"
      <3>1. p \in IF l.mode = "query" THEN {"text", "brace", "string", "whole"} ELSE {"token", "long", "done"}
        BY <1>3, <2>3, <2>5 DEF Following
      <3> QED BY <1>1, <1>3, <2>3, <3>1 DEF Parts
    <2> QED BY <2>4, <2>5
  <1> QED BY <1>2, <1>3

LEMMA ServerSendsPreserves == ASSUME Inv, NEW t \in Threads, ServerSends(t) PROVE Inv'
  <1> DEFINE l == link[t]
             g == given[t]
  <1>1. /\ kind[t] = "ollama" /\ l.asked # 0 /\ Len(l.sent) <= MaxParts
        /\ UNCHANGED <<pc, result, given, rest>>
    BY DEF ServerSends
  <1>2. l \in Link /\ Fits(l, pc[t], result[t], g) BY <1>1 DEF Inv, TypeOK, ThreadInv, Linked
  <1>3. pc[t] = "recv" /\ Receiving(l, g) BY <1>1, <1>2 DEF Fits
  <1>4. PICK p \in Following(l) :
          link' = [link EXCEPT ![t].sent = Append(@, [of |-> l.asked, part |-> p]),
                               ![t].inbox = Append(@, [of |-> l.asked, part |-> p])]
    BY DEF ServerSends
  <1> DEFINE x == [of |-> l.asked, part |-> p]
             n == [l EXCEPT !.sent = Append(l.sent, x), !.inbox = Append(l.inbox, x)]
  <1>5. link' = [link EXCEPT ![t] = n] BY <1>4 DEF Inv, TypeOK
  <1>6. p \in Parts(l.mode) /\ (p = "head" <=> l.sent = <<>>)
    BY <1>2, <1>3, FollowingIs
  <1>7. l.sent # <<>> => l.sent[Len(l.sent)].part # "done" BY <1>2, <1>3, FollowingIs
  <1>8. x \in Piece /\ x.of = l.query /\ x.part = p
    <2>1. l.asked \in 1..MaxQueries BY <1>1, <1>2, ProviderBounds DEF Link
    <2>2. p \in {"head", "text", "brace", "string", "whole", "token", "long", "done"} BY <1>6 DEF Parts
    <2> QED BY <1>3, <2>1, <2>2 DEF Piece, Receiving
  <1>9. l.sent \in Seq(Piece) /\ l.inbox \in Seq(Piece) BY <1>2 DEF Link
  <1> HIDE DEF x
  <1>10. /\ Append(l.sent, x) \in Seq(Piece) /\ Len(Append(l.sent, x)) = Len(l.sent) + 1
         /\ Len(l.sent) \in Nat
         /\ \A k \in 1..Len(l.sent) : Append(l.sent, x)[k] = l.sent[k]
         /\ Append(l.sent, x)[Len(l.sent) + 1] = x
    BY <1>8, <1>9, AppendIs
  <1>11. /\ Append(l.inbox, x) \in Seq(Piece) /\ Len(Append(l.inbox, x)) = Len(l.inbox) + 1
         /\ Len(l.inbox) \in Nat
         /\ \A k \in 1..Len(l.inbox) : Append(l.inbox, x)[k] = l.inbox[k]
         /\ Append(l.inbox, x)[Len(l.inbox) + 1] = x
    BY <1>8, <1>9, AppendIs
  <1>12. /\ n \in Link /\ n.sent = Append(l.sent, x) /\ n.inbox = Append(l.inbox, x)
         /\ n.asked = l.asked /\ n.query = l.query /\ n.mode = l.mode /\ n.seen = l.seen
    <2> DEFINE a == Append(l.sent, x)
               b == Append(l.inbox, x)
    <2>1. a \in Seq(Piece) /\ b \in Seq(Piece) BY <1>10, <1>11
    <2> HIDE DEF a, b
    <2>2. [l EXCEPT !.sent = a, !.inbox = b] \in Link BY <1>2, <2>1 DEF Link
    <2>3. LET m == [l EXCEPT !.sent = a, !.inbox = b]
          IN  /\ m.sent = a /\ m.inbox = b /\ m.asked = l.asked /\ m.query = l.query
              /\ m.mode = l.mode /\ m.seen = l.seen
      BY <1>2 DEF Link
    <2> QED BY <2>2, <2>3 DEF a, b
  <1> HIDE DEF n
  <1>a. /\ Len(n.sent) = Len(l.sent) + 1 /\ Len(n.inbox) = Len(l.inbox) + 1
        /\ Len(l.sent) \in Nat /\ Len(l.inbox) \in Nat /\ Len(l.inbox) <= Len(l.sent)
    BY <1>3, <1>10, <1>11, <1>12 DEF Receiving
  <1>13. Received(n) = Received(l) /\ Received(l) \in Nat /\ Received(l) + Len(l.inbox) = Len(l.sent)
    BY <1>a DEF Received
  <1>14. Receiving(n, g)
    <2>1. /\ n.asked = n.query /\ Len(n.inbox) <= Len(n.sent) /\ Len(n.sent) <= MaxParts + 1
          /\ \A q \in n.seen : q.of = n.query
      BY <1>1, <1>3, <1>10, <1>11, <1>12, ProviderBounds DEF Receiving
    <2>2. ASSUME NEW k \in 1..Len(n.inbox) PROVE n.inbox[k] = n.sent[Received(n) + k]
      <3>1. CASE k = Len(l.inbox) + 1
        <4>1. n.inbox[k] = x BY <1>11, <1>12, <3>1
        <4>2. Received(n) + k = Len(l.sent) + 1
          <5> DEFINE u == Received(l)
                     v == Len(l.inbox)
                     w == Len(l.sent)
          <5>1. u \in Nat /\ v \in Nat /\ w \in Nat /\ u + v = w /\ Received(n) = u /\ k = v + 1
            BY <1>a, <1>13, <3>1
          <5> HIDE DEF u, v, w
          <5>2. Received(n) + k = w + 1 BY <5>1
          <5> QED BY <5>2 DEF w
        <4>3. n.sent[Len(l.sent) + 1] = x BY <1>10, <1>12
        <4> QED BY <4>1, <4>2, <4>3
      <3>2. CASE k \in 1..Len(l.inbox)
        <4>1. n.inbox[k] = l.inbox[k] BY <1>11, <1>12, <3>2
        <4>2. l.inbox[k] = l.sent[Received(l) + k] BY <1>3, <3>2 DEF Receiving
        <4>3. Received(l) + k \in 1..Len(l.sent) BY <1>10, <1>11, <1>13, <3>2
        <4> QED BY <1>10, <1>12, <1>13, <4>1, <4>2, <4>3
      <3> QED BY <1>a, <3>1, <3>2
    <2>3. ASSUME NEW k \in 1..Len(n.sent)
          PROVE  /\ n.sent[k].of = n.query /\ n.sent[k].part \in Parts(n.mode)
                 /\ n.sent[k].part = "head" <=> k = 1
                 /\ n.sent[k].part = "done" => k = Len(n.sent)
      <3>1. CASE k = Len(l.sent) + 1
        <4>1. n.sent[k] = x BY <1>10, <1>12, <3>1
        <4>2. k = 1 <=> l.sent = <<>> BY <1>9, <1>10, <3>1
        <4> QED BY <1>6, <1>8, <1>10, <1>12, <3>1, <4>1, <4>2
      <3>2. CASE k \in 1..Len(l.sent)
        <4>1. n.sent[k] = l.sent[k] BY <1>10, <1>12, <3>2
        <4>2. l.sent # <<>> BY <1>9, <3>2
        <4>3. l.sent[k].part # "done" BY <1>3, <1>7, <3>2, <4>2 DEF Receiving
        <4> QED BY <1>3, <1>12, <3>2, <4>1, <4>3 DEF Receiving
      <3> QED BY <1>10, <1>12, <3>1, <3>2
    <2>4. Tokens(n, Received(n)) = Tokens(l, Received(l))
      <3>1. \A k \in 1..Received(l) : k \in 1..Len(l.sent) BY <1>10, <1>11, <1>13
      <3>2. \A k \in 1..Received(l) : n.sent[k] = l.sent[k] BY <1>10, <1>12, <3>1
      <3> QED BY <1>13, <3>2 DEF Tokens
    <2> QED BY <1>3, <1>12, <2>1, <2>2, <2>3, <2>4 DEF Receiving
  <1>15. Fits(n, "recv", result[t], g) BY <1>2, <1>3, <1>12, <1>14 DEF Fits, Asking
  <1>16. pc' = [pc EXCEPT ![t] = "recv"] /\ "recv" \in Asking BY <1>1, <1>3, Same DEF Inv, Asking
  <1>17. UNCHANGED <<result, given, rest>> BY <1>1
  <1> QED BY <1>1, <1>5, <1>12, <1>15, <1>16, <1>17, OllamaGoes

LEMMA ServerClosesPreserves == ASSUME Inv, NEW t \in Threads, ServerCloses(t) PROVE Inv'
  <1>1. PICK s \in {"closed", "reset"} : link' = [link EXCEPT ![t].server = s] BY DEF ServerCloses
  <1>2. kind[t] = "ollama" /\ UNCHANGED <<pc, result, given, rest>> BY DEF ServerCloses
  <1>3. link[t] \in Link /\ Fits(link[t], pc[t], result[t], given[t])
    BY <1>2 DEF Inv, TypeOK, ThreadInv, Linked
  <1> DEFINE l == [link[t] EXCEPT !.server = s]
  <1>4. link' = [link EXCEPT ![t] = l] BY <1>1 DEF Inv, TypeOK
  <1>5. /\ l \in Link /\ l.asked = link[t].asked /\ l.query = link[t].query /\ l.mode = link[t].mode
        /\ l.sent = link[t].sent /\ l.inbox = link[t].inbox /\ l.seen = link[t].seen
        /\ l.connected = link[t].connected
    BY <1>3 DEF Link
  <1> HIDE DEF l
  <1>6. Receiving(link[t], given[t]) => Receiving(l, given[t])
    BY <1>5 DEF Receiving, Received, Tokens
  <1>7. Fits(l, pc[t], result[t], given[t])
    <2>1. \A n : Tokens(l, n) = Tokens(link[t], n) BY <1>5 DEF Tokens
    <2> QED BY <1>3, <1>5, <1>6, <2>1 DEF Fits
  <1>8. link' \in [Threads -> Link] /\ link'[t] = l /\ \A s1 \in Threads \ {t} : link'[s1] = link[s1]
    BY <1>4, <1>5 DEF Inv, TypeOK
  <1>9. link[t].connected => pc[t] # "done" BY <1>2 DEF Inv, ThreadInv, Owned
  <1>10. /\ pc' = pc /\ result' = result /\ given' = given /\ UNCHANGED rest
    BY <1>2
  <1>11. /\ pc' \in [Threads -> {"idle", "connected", "piped", "ready", "forked", "parent", "written",
                              "reading", "waiting", "connect", "build", "send", "recv", "done"}]
         /\ result' \in [Threads -> {"none", "ok", "error"}]
         /\ given' \in [Threads -> [of : Nat, count : 0..MaxParts]]
    BY <1>10 DEF Inv, TypeOK
  <1>12. Fits(link'[t], pc'[t], result'[t], given'[t]) BY <1>7, <1>8, <1>10
  <1> QED BY <1>2, <1>5, <1>8, <1>9, <1>10, <1>11, <1>12, OllamaThread

\* recv returns a piece of the answer.
LEMMA RecvPreserves == ASSUME Inv, NEW t \in Threads, RecvQuery(t) \/ RecvStream(t) PROVE Inv'
  <1> DEFINE l == link[t]
             g == given[t]
             m == Head(l.inbox)
             read == [l EXCEPT !.inbox = Tail(l.inbox), !.seen = l.seen \cup {m}]
  <1>1. kind[t] = "ollama" /\ pc[t] = "recv" /\ l.inbox # <<>>
    BY DEF RecvQuery, RecvStream, At
  <1>2. l \in Link /\ Fits(l, pc[t], result[t], g) BY <1>1 DEF Inv, TypeOK, ThreadInv, Linked
  <1>3. Receiving(l, g) /\ result[t] = "none" BY <1>1, <1>2 DEF Fits, Asking
  <1>4. /\ l.sent \in Seq(Piece) /\ l.inbox \in Seq(Piece) /\ l.seen \in SUBSET Piece
        /\ l.mode \in {"query", "stream"}
    BY <1>2 DEF Link
  <1>5. /\ Tail(l.inbox) \in Seq(Piece) /\ Len(Tail(l.inbox)) = Len(l.inbox) - 1 /\ Len(l.inbox) \in Nat \ {0}
        /\ \A k \in 1..(Len(l.inbox) - 1) : Tail(l.inbox)[k] = l.inbox[k + 1]
        /\ m = l.inbox[1] /\ m \in Piece
    BY <1>1, <1>4, TailIs
  <1> DEFINE n == Received(l)
  <1>6. n \in Nat /\ n + 1 \in 1..Len(l.sent) /\ n + Len(l.inbox) = Len(l.sent) /\ Len(l.sent) \in Nat
    <2>1. Len(l.sent) \in Nat /\ Len(l.inbox) <= Len(l.sent) BY <1>3, <1>4 DEF Receiving
    <2> DEFINE u == Len(l.inbox)
               v == Len(l.sent)
    <2>2. u \in Nat \ {0} /\ v \in Nat /\ u <= v /\ n = v - u BY <1>5, <2>1 DEF Received
    <2> HIDE DEF u, v, n
    <2>3. n \in Nat /\ n + 1 \in 1..v /\ n + u = v /\ v \in Nat BY <2>2
    <2> QED BY <2>3 DEF u, v
  <1>7. m = l.sent[n + 1]
    <2>1. 1 \in 1..Len(l.inbox) BY <1>5
    <2>2. l.inbox[1] = l.sent[Received(l) + 1] BY <1>3, <2>1 DEF Receiving
    <2> QED BY <1>5, <2>2
  <1>8. /\ m.of = l.query /\ m.part \in Parts(l.mode) /\ (m.part = "done" => n + 1 = Len(l.sent))
    BY <1>3, <1>6, <1>7 DEF Receiving
  <1>9. /\ read \in Link /\ read.inbox = Tail(l.inbox) /\ read.seen = l.seen \cup {m}
        /\ read.sent = l.sent /\ read.asked = l.asked /\ read.query = l.query /\ read.mode = l.mode
    <2> DEFINE a == Tail(l.inbox)
               b == l.seen \cup {m}
    <2>1. a \in Seq(Piece) /\ b \in SUBSET Piece BY <1>4, <1>5
    <2> HIDE DEF a, b
    <2>2. [l EXCEPT !.inbox = a, !.seen = b] \in Link BY <1>2, <2>1 DEF Link
    <2>3. LET k == [l EXCEPT !.inbox = a, !.seen = b]
          IN  /\ k.inbox = a /\ k.seen = b /\ k.sent = l.sent /\ k.asked = l.asked
              /\ k.query = l.query /\ k.mode = l.mode
      BY <1>2 DEF Link
    <2> QED BY <2>2, <2>3 DEF a, b
  <1>10. \/ m.part \in {"brace", "whole"} /\ Finish(t, read)
         \/ /\ m.part = "token" /\ link' = [link EXCEPT ![t] = read]
            /\ given' = [given EXCEPT ![t] = [of |-> m.of, count |-> @.count + 1]]
            /\ UNCHANGED <<pc, result, rest>>
         \/ /\ m.part = "done" /\ link' = [link EXCEPT ![t] = Disconnected(l)]
            /\ result' = [result EXCEPT ![t] = "ok"] /\ GoTo(t, "idle") /\ UNCHANGED <<given, rest>>
         \/ /\ m.part \notin {"brace", "whole", "token", "done"} /\ link' = [link EXCEPT ![t] = read]
            /\ UNCHANGED <<pc, result, given, rest>>
    <2>1. read = AfterRecv(l) BY DEF AfterRecv
    <2>2. CASE RecvQuery(t)
      <3>1. l.mode = "query" BY <2>2 DEF RecvQuery
      <3>2. m.part \notin {"token", "long", "done"} BY <1>8, <3>1 DEF Parts
      <3> QED BY <2>1, <2>2, <3>2 DEF RecvQuery
    <2>3. CASE RecvStream(t)
      <3>1. l.mode = "stream" BY <2>3 DEF RecvStream
      <3>2. m.part \notin {"brace", "whole"} BY <1>8, <3>1 DEF Parts
      <3> QED BY <2>1, <2>3, <3>2 DEF RecvStream
    <2> QED BY <2>2, <2>3
  <1> HIDE DEF read, m
  <1>11. \A p \in read.seen : p.of = read.query BY <1>3, <1>8, <1>9 DEF Receiving
  <1>12. Received(read) = n + 1
    <2> DEFINE u == Len(l.inbox)
               v == Len(l.sent)
    <2>1. u \in Nat /\ v \in Nat /\ n + u = v /\ n \in Nat BY <1>5, <1>6
    <2>2. Received(read) = v - (u - 1) BY <1>5, <1>9 DEF Received
    <2> HIDE DEF u, v, n
    <2> QED BY <2>1, <2>2
  <1>13. Cardinality(Tokens(read, n + 1)) = IF m.part = "token" THEN Cardinality(Tokens(l, n)) + 1
                                            ELSE Cardinality(Tokens(l, n))
    <2>1. Tokens(read, n + 1) = Tokens(l, n + 1) BY <1>9 DEF Tokens
    <2> HIDE DEF n
    <2> QED BY <1>6, <1>7, <2>1, TokensNext
  <1>14. ASSUME NEW h, IF m.part = "token" THEN h.count = g.count + 1 ELSE h.count = g.count
         PROVE  Receiving(read, h)
    <2>1. ASSUME NEW k \in 1..Len(read.inbox) PROVE read.inbox[k] = read.sent[Received(read) + k]
      <3>1. k + 1 \in 1..Len(l.inbox) /\ k \in 1..(Len(l.inbox) - 1) BY <1>5, <1>9
      <3>2. read.inbox[k] = l.inbox[k + 1] BY <1>5, <1>9, <3>1
      <3>3. l.inbox[k + 1] = l.sent[n + (k + 1)] BY <1>3, <3>1 DEF Receiving
      <3>4. n + (k + 1) = Received(read) + k BY <1>6, <1>12, <3>1
      <3> QED BY <1>9, <3>2, <3>3, <3>4
    <2>2. m.part = "token" => l.mode = "stream" BY <1>4, <1>8 DEF Parts
    <2>3. read.mode = "query" => h.count = 0 BY <1>3, <1>9, <1>14, <2>2 DEF Receiving
    <2>4. read.mode = "stream" => h.count = Cardinality(Tokens(read, Received(read)))
      BY <1>3, <1>9, <1>12, <1>13, <1>14 DEF Receiving
    <2>5. Len(read.inbox) <= Len(read.sent) BY <1>5, <1>6, <1>9
    <2> QED BY <1>3, <1>9, <1>11, <2>1, <2>3, <2>4, <2>5 DEF Receiving
  <1>15. CASE m.part \in {"brace", "whole"} /\ Finish(t, read)
    BY <1>1, <1>9, <1>11, <1>15, FinishPreserves
  <1>16. CASE /\ m.part = "token" /\ link' = [link EXCEPT ![t] = read]
              /\ given' = [given EXCEPT ![t] = [of |-> m.of, count |-> @.count + 1]]
              /\ UNCHANGED <<pc, result, rest>>
    <2> DEFINE h == [of |-> m.of, count |-> g.count + 1]
    <2>1. h.count = g.count + 1 /\ h.of = l.query BY <1>8
    <2>2. Receiving(read, h) BY <1>14, <1>16, <2>1
    <2>3. l.mode = "stream" BY <1>4, <1>8, <1>16 DEF Parts
    <2>4. h.count \in 0..MaxParts
      <3>1. h.count = Cardinality(Tokens(read, n + 1)) BY <1>9, <1>12, <2>2, <2>3 DEF Receiving
      <3>2. n + 1 \in 0..(MaxParts + 1) BY <1>3, <1>6, ProviderBounds DEF Receiving
      <3>3. read.sent[1].part = "head" BY <1>3, <1>6, <1>9 DEF Receiving
      <3> QED BY <3>1, <3>2, <3>3, FewTokens
    <2>5. h \in [of : Nat, count : 0..MaxParts]
      <3>1. m.of \in Nat BY <1>5 DEF Piece
      <3> QED BY <2>4, <3>1
    <2>6. given' = [given EXCEPT ![t] = h] BY <1>16 DEF Inv, TypeOK
    <2> HIDE DEF h
    <2>7. Fits(read, "recv", "none", h) BY <1>9, <2>1, <2>2 DEF Fits, Asking
    <2>8. /\ pc' = [pc EXCEPT ![t] = "recv"] /\ result' = [result EXCEPT ![t] = "none"]
          /\ "recv" \in {"idle", "done"} \cup Asking
      BY <1>1, <1>3, <1>16, Same DEF Inv, Asking
    <2>9. UNCHANGED rest /\ link' = [link EXCEPT ![t] = read] BY <1>16
    <2> QED BY <1>1, <1>9, <2>5, <2>6, <2>7, <2>8, <2>9, OllamaMoves
  <1>17. CASE /\ m.part = "done" /\ link' = [link EXCEPT ![t] = Disconnected(l)]
              /\ result' = [result EXCEPT ![t] = "ok"] /\ GoTo(t, "idle") /\ UNCHANGED <<given, rest>>
    <2> DEFINE k == Disconnected(l)
    <2>1. /\ k \in Link /\ ~k.connected /\ k.asked = 0 /\ k.inbox = <<>> /\ k.mode = l.mode
          /\ k.query = l.query /\ k.sent = l.sent
      BY <1>2, DisconnectedIs
    <2> HIDE DEF k
    <2>2. l.mode = "stream" BY <1>4, <1>8, <1>17 DEF Parts
    <2>3. g.count = Cardinality(Tokens(k, Len(k.sent)))
      <3>1. g.count = Cardinality(Tokens(l, n)) BY <1>3, <2>2 DEF Receiving
      <3>2. Cardinality(Tokens(read, n + 1)) = Cardinality(Tokens(l, n)) BY <1>13, <1>17
      <3>3. Tokens(k, Len(k.sent)) = Tokens(read, n + 1) BY <1>8, <1>9, <1>17, <2>1 DEF Tokens
      <3> QED BY <3>1, <3>2, <3>3
    <2>4. Fits(k, "idle", "ok", g) BY <1>2, <2>1, <2>2, <2>3 DEF Fits, Asking
    <2>5. /\ given' = [given EXCEPT ![t] = g] /\ g \in [of : Nat, count : 0..MaxParts]
      BY <1>17, Same DEF Inv
    <2>6. /\ UNCHANGED rest /\ link' = [link EXCEPT ![t] = k] /\ pc' = [pc EXCEPT ![t] = "idle"]
          /\ result' = [result EXCEPT ![t] = "ok"]
      BY <1>17 DEF GoTo, k
    <2> QED BY <1>1, <2>1, <2>4, <2>5, <2>6, OllamaMoves
  <1>18. CASE /\ m.part \notin {"brace", "whole", "token", "done"} /\ link' = [link EXCEPT ![t] = read]
              /\ UNCHANGED <<pc, result, given, rest>>
    <2>1. Receiving(read, g) BY <1>14, <1>18
    <2>2. Fits(read, "recv", result[t], g) BY <1>1, <1>2, <1>9, <2>1 DEF Fits, Asking
    <2>3. pc' = [pc EXCEPT ![t] = "recv"] /\ "recv" \in Asking BY <1>1, <1>18, Same DEF Inv, Asking
    <2>4. UNCHANGED <<result, given, rest>> /\ link' = [link EXCEPT ![t] = read] BY <1>18
    <2> QED BY <1>1, <1>9, <2>2, <2>3, <2>4, OllamaGoes
  <1> QED BY <1>10, <1>15, <1>16, <1>17, <1>18

LEMMA OllamaPreserves == ASSUME Inv, NEW t \in Threads, OllamaStep(t) PROVE Inv'
  <1>1. ASSUME kind[t] = "ollama", pc[t] = "recv"
        PROVE  link[t] \in Link /\ \A p \in link[t].seen : p.of = link[t].query
    BY <1>1 DEF Inv, TypeOK, ThreadInv, Linked, Fits, Receiving
  <1>2. CASE RecvEnds(t) \/ RecvTimesOut(t)
    BY <1>1, <1>2, FinishPreserves DEF RecvEnds, RecvTimesOut, At
  <1>3. CASE RecvFails(t)
    <2>1. kind[t] = "ollama" /\ pc[t] = "recv" /\ Refuses(t, Disconnected(link[t]))
      BY <1>3 DEF RecvFails, At
    <2>2. /\ Disconnected(link[t]) \in Link
          /\ Disconnected(link[t]).asked = 0 /\ Disconnected(link[t]).inbox = <<>>
          /\ Disconnected(link[t]).mode = link[t].mode /\ Disconnected(link[t]).query = link[t].query
      BY <1>1, <2>1, DisconnectedIs
    <2> QED BY <2>1, <2>2, RefusesPreserves DEF Asking
  <1> QED BY <1>2, <1>3, EnsurePreserves, BuildPreserves, SendPreserves, RecvPreserves DEF OllamaStep

LEMMA CleanupPreserves == ASSUME Inv, NEW t \in Threads, Cleanup(t) PROVE Inv'
  <1> DEFINE k == Disconnected(link[t])
  <1>1. /\ kind[t] = "ollama" /\ pc[t] = "idle" /\ link' = [link EXCEPT ![t] = k]
        /\ pc' = [pc EXCEPT ![t] = "done"] /\ UNCHANGED <<result, given, rest>>
    BY DEF Cleanup, At, GoTo, Inv, TypeOK
  <1>2. link[t] \in Link /\ Fits(link[t], pc[t], result[t], given[t])
    BY <1>1 DEF Inv, TypeOK, ThreadInv, Linked
  <1>3. /\ k \in Link /\ ~k.connected /\ k.asked = 0 /\ k.inbox = <<>> /\ k.mode = link[t].mode
        /\ k.query = link[t].query /\ k.sent = link[t].sent
    BY <1>2, DisconnectedIs
  <1> HIDE DEF k
  <1>4. Tokens(k, Len(k.sent)) = Tokens(link[t], Len(link[t].sent)) BY <1>3 DEF Tokens
  <1>5. Fits(k, "done", result[t], given[t]) BY <1>1, <1>2, <1>3, <1>4 DEF Fits, Asking
  <1>6. /\ link' \in [Threads -> Link] /\ link'[t] = k
        /\ \A s \in Threads \ {t} : link'[s] = link[s] /\ pc'[s] = pc[s]
        /\ pc'[t] = "done"
        /\ pc' \in [Threads -> {"idle", "connected", "piped", "ready", "forked", "parent", "written",
                                "reading", "waiting", "connect", "build", "send", "recv", "done"}]
        /\ result' \in [Threads -> {"none", "ok", "error"}]
        /\ given' \in [Threads -> [of : Nat, count : 0..MaxParts]]
    BY <1>1, <1>3 DEF Inv, TypeOK
  <1>7. result' = result /\ given' = given /\ UNCHANGED rest BY <1>1
  <1>8. Fits(link'[t], pc'[t], result'[t], given'[t]) BY <1>5, <1>6, <1>7
  <1> QED BY <1>1, <1>3, <1>6, <1>7, <1>8, OllamaThread
----------------------------------------------------------------------------
(* The mock provider. *)

\* The counter of a cycle and its remainder go on together.
LEMMA NextModulo ==
  ASSUME NEW n \in Nat \ {0}, NEW a \in Nat
  PROVE  /\ a % n \in 0..(n - 1) /\ 0 % n = 0
         /\ ((a % n) + 1) % n = (a + 1) % n
  <1>1. a % n \in 0..(n - 1) /\ 0 % n = 0 OBVIOUS
  <1>2. a = n * (a \div n) + (a % n) /\ a \div n \in Nat OBVIOUS
  <1>3. ASSUME NEW b \in Nat, NEW q \in Nat, NEW r \in 0..(n - 1), b = n * q + r PROVE b % n = r
    BY <1>3
  <1>4. CASE (a % n) + 1 < n
    <2> DEFINE q == a \div n
               r == a % n
    <2>1. q \in Nat /\ r \in 0..(n - 1) /\ r + 1 \in 0..(n - 1) /\ a + 1 = n * q + (r + 1) BY <1>1, <1>2, <1>4
    <2> HIDE DEF q, r
    <2>2. (a + 1) % n = r + 1
      <3> DEFINE b == a + 1
                 k == r + 1
      <3>1. b \in Nat /\ k \in 0..(n - 1) /\ b = n * q + k BY <2>1
      <3> HIDE DEF b, k
      <3>2. b % n = k BY <1>3, <2>1, <3>1
      <3> QED BY <3>2 DEF b, k
    <2>3. (r + 1) % n = r + 1 BY <2>1
    <2> QED BY <1>1, <2>2, <2>3 DEF r
  <1>5. CASE (a % n) + 1 = n
    <2> DEFINE q == a \div n
    <2>1. q \in Nat /\ a + 1 = n * q + n BY <1>1, <1>2, <1>5
    <2> HIDE DEF q
    <2>2. a + 1 = n * (q + 1) + 0 /\ q + 1 \in Nat /\ 0 \in 0..(n - 1) BY <2>1
    <2>3. (a + 1) % n = 0
      <3> DEFINE b == a + 1
                 k == q + 1
      <3>1. b \in Nat /\ k \in Nat /\ b = n * k + 0 BY <2>2
      <3> HIDE DEF b, k
      <3>2. b % n = 0 BY <1>3, <2>2, <3>1
      <3> QED BY <3>2 DEF b
    <2>4. n = n * 1 + 0 OBVIOUS
    <2>5. n % n = 0 BY <1>3, <2>2, <2>4
    <2> QED BY <1>1, <1>5, <2>3, <2>5
  <1> QED BY <1>1, <1>4, <1>5

\* A step of a mock provider.
LEMMA MockThread ==
  ASSUME Inv, NEW t \in Threads, kind[t] = "mock", UNCHANGED <<kind, up, pipes, temp, link>>,
         TypeOK', Cycled(t)',
         \A s \in Threads \ {t} : /\ pc'[s] = pc[s] /\ result'[s] = result[s] /\ given'[s] = given[s]
                                  /\ canned'[s] = canned[s]
  PROVE  Inv'
  <1>1. UNCHANGED <<kind, ends, temp, link>> BY DEF pipes
  <1>2. Owned(t) BY DEF Inv, ThreadInv
  <1>3. OwnEnds(t)' = {} /\ OwnEnds(t) = {} BY <1>1 DEF OwnEnds
  <1>4. Owned(t)' BY <1>1, <1>2, <1>3 DEF Owned
  <1>5. Once(t)' /\ Linked(t)' BY <1>1 DEF Once, Linked
  <1>6. ThreadInv(t)' BY <1>4, <1>5 DEF ThreadInv
  <1> QED BY <1>1, <1>6, OneThread

LEMMA MockPreserves ==
  ASSUME Inv, NEW t \in Threads, SetResponses(t) \/ MockQuery(t) \/ MockCleanup(t)
  PROVE  Inv'
  <1> DEFINE C == [count : 0..MaxCanned, next : 0..(MaxCanned - 1), since : 0..MaxQueries]
             c == canned[t]
  <1>1. MaxQueries \in Nat \ {0} /\ MaxParts \in Nat \ {0} /\ MaxCanned \in Nat \ {0} BY ProviderBounds
  <1>2. canned \in [Threads -> C] /\ c \in C /\ Cycled(t) BY DEF Inv, TypeOK, ThreadInv
  <1>3. kind[t] = "mock" /\ pc[t] = "idle" /\ UNCHANGED <<kind, up, pipes, temp, link>>
    BY DEF SetResponses, MockQuery, MockCleanup, At
  <1>4. UNCHANGED <<kind, up, ends, child, held, code, sigchld, temp, link>> BY <1>3 DEF pipes
  <1>5. CASE MockCleanup(t)
    <2>1. pc' = [pc EXCEPT ![t] = "done"] /\ UNCHANGED <<result, given, canned>>
      BY <1>5 DEF MockCleanup, GoTo
    <2>2. TypeOK' BY <1>4, <2>1 DEF Inv, TypeOK
    <2>3. Cycled(t)' BY <1>2, <1>3, <2>1 DEF Cycled
    <2> QED BY <1>3, <2>1, <2>2, <2>3, MockThread DEF Inv, TypeOK
  <1>6. CASE SetResponses(t)
    <2>1. PICK n \in 1..MaxCanned : canned' = [canned EXCEPT ![t] = [count |-> n, next |-> 0, since |-> 0]]
      BY <1>6 DEF SetResponses
    <2>2. /\ given' = [given EXCEPT ![t] = Nothing] /\ result' = [result EXCEPT ![t] = "none"] /\ UNCHANGED pc
      BY <1>6 DEF SetResponses
    <2>3. [count |-> n, next |-> 0, since |-> 0] \in C BY <1>1
    <2>4. canned' \in [Threads -> C] /\ canned'[t] = [count |-> n, next |-> 0, since |-> 0]
          /\ \A s \in Threads \ {t} : canned'[s] = canned[s]
      BY <1>2, <2>1, <2>3
    <2>5. Nothing \in [of : Nat, count : 0..MaxParts] BY <1>1 DEF Nothing
    <2>6. TypeOK' BY <1>4, <2>2, <2>4, <2>5 DEF Inv, TypeOK
    <2>7. 0 % n = 0 BY NextModulo
    <2>8. given'[t].count = 0 /\ result'[t] = "none" BY <2>2 DEF Inv, TypeOK, Nothing
    <2>9. Cycled(t)' BY <1>3, <2>4, <2>7, <2>8 DEF Cycled
    <2> QED BY <1>3, <2>2, <2>4, <2>6, <2>9, MockThread DEF Inv, TypeOK
  <1>7. CASE MockQuery(t)
    <2> DEFINE n == IF c.count > 0 THEN (c.next + 1) % c.count ELSE c.next
               d == [c EXCEPT !.next = n, !.since = c.since + 1]
               g == [of |-> Given(c), count |-> 1]
    <2>1. /\ c.since < MaxQueries /\ given' = [given EXCEPT ![t] = g]
          /\ result' = [result EXCEPT ![t] = "ok"] /\ UNCHANGED pc
      BY <1>7 DEF MockQuery
    <2>2. canned' = [canned EXCEPT ![t] = d] BY <1>2, <1>7 DEF MockQuery
    <2>3. /\ c.count \in 0..MaxCanned /\ c.next \in 0..(MaxCanned - 1) /\ c.since \in 0..MaxQueries
      BY <1>2
    <2>4. n \in 0..(MaxCanned - 1)
      <3>1. CASE c.count > 0
        <4>1. c.count \in Nat \ {0} /\ c.next + 1 \in Nat BY <1>1, <2>3, <3>1
        <4>2. (c.next + 1) % c.count \in 0..(c.count - 1) BY <4>1, NextModulo
        <4> QED BY <1>1, <2>3, <3>1, <4>2
      <3>2. CASE ~(c.count > 0) BY <2>3, <3>2
      <3> QED BY <3>1, <3>2
    <2>5. c.since + 1 \in 0..MaxQueries BY <1>1, <2>1, <2>3
    <2>6. d \in C /\ d.count = c.count /\ d.next = n /\ d.since = c.since + 1
      <3> DEFINE e == c.since + 1
      <3>1. e \in 0..MaxQueries BY <2>5
      <3> HIDE DEF n, e
      <3> QED BY <1>2, <2>4, <3>1 DEF e
    <2>7. Given(c) \in Nat BY <1>1, <2>3 DEF Given
    <2>8. g \in [of : Nat, count : 0..MaxParts] BY <1>1, <2>7
    <2>9. c.count > 0 => n = (c.since + 1) % c.count /\ Given(c) = (c.since % c.count) + 1
      <3> SUFFICES ASSUME c.count > 0 PROVE n = (c.since + 1) % c.count /\ Given(c) = (c.since % c.count) + 1
        OBVIOUS
      <3>1. c.next = c.since % c.count BY <1>2, <1>3 DEF Cycled
      <3>2. c.count \in Nat \ {0} /\ c.since \in Nat BY <1>1, <2>3
      <3>3. ((c.since % c.count) + 1) % c.count = (c.since + 1) % c.count BY <3>2, NextModulo
      <3> QED BY <3>1, <3>3 DEF Given
    <2> HIDE DEF d, n
    <2>10. canned' \in [Threads -> C] /\ canned'[t] = d /\ \A s \in Threads \ {t} : canned'[s] = canned[s]
      BY <1>2, <2>2, <2>6
    <2>11. TypeOK' BY <1>4, <2>1, <2>8, <2>10 DEF Inv, TypeOK
    <2>12. given'[t] = g /\ result'[t] = "ok" BY <2>1 DEF Inv, TypeOK
    <2>13. d.since - 1 = c.since BY <2>3, <2>6
    <2>14. Cycled(t)' BY <1>3, <2>6, <2>9, <2>10, <2>12, <2>13 DEF Cycled
    <2> QED BY <1>3, <2>1, <2>10, <2>11, <2>14, MockThread DEF Inv, TypeOK
  <1> QED BY <1>5, <1>6, <1>7
----------------------------------------------------------------------------

LEMMA InitInv == ASSUME Init PROVE Inv
  <1>1. MaxQueries \in Nat \ {0} /\ MaxParts \in Nat \ {0} /\ MaxCanned \in Nat \ {0} BY ProviderBounds
  <1>2. kind \in [Threads -> {"claude", "api", "flow", "ollama", "mock"}]
    BY ProviderBounds DEF Init
  <1>3. NoLink \in Link
    <2>1. <<>> \in Seq(Piece) /\ {} \in SUBSET Piece OBVIOUS
    <2> QED BY <1>1, <2>1 DEF NoLink, Link
  <1>4. Nothing \in [of : Nat, count : 0..MaxParts] BY <1>1 DEF Nothing
  <1>5. TypeOK
    <2>1. /\ pc \in [Threads -> {"idle", "connected", "piped", "ready", "forked", "parent", "written",
                                 "reading", "waiting", "connect", "build", "send", "recv", "done"}]
          /\ result \in [Threads -> {"none", "ok", "error"}]
          /\ given \in [Threads -> [of : Nat, count : 0..MaxParts]]
          /\ up \in BOOLEAN /\ sigchld \in BOOLEAN /\ ends \subseteq End /\ temp \subseteq Threads
      BY <1>4 DEF Init
    <2>2. /\ child \in [Threads -> {"none", "forked", "running", "answering", "spilling", "flooding", "exited", "reaped"}]
          /\ held \in [Threads -> SUBSET End] /\ code \in [Threads -> {0, 1}]
          /\ link \in [Threads -> Link]
      BY <1>3 DEF Init
    <2>3. canned \in [Threads -> [count : 0..MaxCanned, next : 0..(MaxCanned - 1), since : 0..MaxQueries]]
      BY <1>1 DEF Init
    <2> QED BY <1>2, <2>1, <2>2, <2>3 DEF TypeOK
  <1>6. ASSUME NEW t \in Threads PROVE ThreadInv(t)
    <2>1. /\ pc[t] = "idle" /\ result[t] = "none" /\ given[t] = Nothing /\ ends = {} /\ temp = {}
          /\ link[t] = NoLink /\ canned[t].count = 0
      BY DEF Init
    <2>2. Owned(t) BY <2>1 DEF Owned, NoLink
    <2>3. Once(t) /\ Cycled(t) BY <2>1 DEF Once, Cycled, Nothing
    <2>4. Linked(t) BY <2>1 DEF Linked, Fits, NoLink, Nothing, Asking
    <2> QED BY <2>2, <2>3, <2>4 DEF ThreadInv
  <1> QED BY <1>5, <1>6 DEF Inv

LEMMA NextInv == ASSUME Inv, [Next]_vars PROVE Inv'
  <1>1. CASE UNCHANGED vars
    <2>1. UNCHANGED <<kind, pc, result, given, up, ends, child, held, code, sigchld, temp, link, canned>>
      BY <1>1 DEF vars, pipes
    <2>2. TypeOK' BY <2>1 DEF Inv, TypeOK
    <2> QED BY <2>1, <2>2, ChildMoves
  <1>2. CASE SigchldHandler BY <1>2, SigchldPreserves
  <1>3. ASSUME NEW t \in Threads, ThreadStep(t) PROVE Inv'
    BY <1>3, ClaudePreserves, ApiPreserves, FlowPreserves, OllamaPreserves DEF ThreadStep
  <1>4. ASSUME NEW t \in Threads, ChildStep(t) \/ ScriptEnds(t) PROVE Inv' BY <1>4, ChildPreserves
  <1>5. ASSUME NEW t \in Threads, Ask(t) \/ Cleanup(t) \/ ServerSends(t) \/ ServerCloses(t) PROVE Inv'
    BY <1>5, AskPreserves, CleanupPreserves, ServerSendsPreserves, ServerClosesPreserves
  <1>6. ASSUME NEW t \in Threads, SetResponses(t) \/ MockQuery(t) \/ MockCleanup(t) PROVE Inv'
    BY <1>6, MockPreserves
  <1> QED BY <1>1, <1>2, <1>3, <1>4, <1>5, <1>6 DEF Next

\* The inductive invariant holds in every state.
THEOREM InvHolds == Spec => []Inv
  BY InitInv, NextInv, PTL DEF Spec

\* The variables keep their types; a callback gets at most MaxParts pieces.
THEOREM TypeCorrect == Spec => []TypeOK
  <1>1. Inv => TypeOK BY DEF Inv
  <1> QED BY <1>1, InvHolds, PTL

\* A thread that is done has closed its pipes, its connection and its file,
\* whatever failed on the way and whatever the other threads do.
THEOREM EverythingReturned == Spec => []ResourcesReturned
  <1>1. ASSUME Inv PROVE ResourcesReturned
    <2> SUFFICES ASSUME NEW t \in Threads, pc[t] = "done"
                 PROVE  /\ ends \cap Of(t) \subseteq (IF kind[t] = "flow" THEN {In(t, "write")} ELSE {})
                        /\ t \notin temp /\ ~link[t].connected
      BY DEF ResourcesReturned
    <2>1. Owned(t) BY <1>1 DEF Inv, ThreadInv
    <2>2. OwnEnds(t) \subseteq (IF kind[t] = "flow" THEN {In(t, "write")} ELSE {}) BY DEF OwnEnds
    <2> QED BY <2>1, <2>2 DEF Owned
  <1> QED BY <1>1, InvHolds, PTL

\* The callback gets the answer to this query, once, exactly when the query
\* succeeds; a stream passes on every token and a mock provider cycles.
THEOREM AnswersAreTrue == Spec => []AnswersTrue
  <1>1. ASSUME Inv PROVE AnswersTrue
    <2> SUFFICES ASSUME NEW t \in Threads
                 PROVE
    /\ kind[t] # "ollama" => given[t].count = IF result[t] = "ok" /\ kind[t] # "flow" THEN 1 ELSE 0
    /\ kind[t] = "mock" /\ canned[t].since > 0 /\ canned[t].count > 0 =>
         given[t].of = ((canned[t].since - 1) % canned[t].count) + 1
    /\ kind[t] = "ollama" => given[t].of \in {0, link[t].query}
    /\ kind[t] = "ollama" /\ link[t].mode = "query" =>
         given[t].count = IF result[t] = "ok" THEN 1 ELSE 0
    /\ kind[t] = "ollama" /\ link[t].mode = "stream" /\ result[t] = "ok" =>
         given[t].count = Cardinality({k \in DOMAIN link[t].sent : link[t].sent[k].part = "token"})
      BY DEF AnswersTrue
    <2>1. Once(t) /\ Cycled(t) /\ Linked(t) BY <1>1 DEF Inv, ThreadInv
    <2>2. kind[t] \in {"claude", "api", "flow", "ollama", "mock"} BY <1>1 DEF Inv, TypeOK
    <2>3. kind[t] # "ollama" => given[t].count = IF result[t] = "ok" /\ kind[t] # "flow" THEN 1 ELSE 0
      BY <2>1, <2>2 DEF Once, Cycled
    <2>4. kind[t] = "mock" /\ canned[t].since > 0 /\ canned[t].count > 0 =>
            given[t].of = ((canned[t].since - 1) % canned[t].count) + 1
      BY <2>1 DEF Cycled
    <2>5. ASSUME kind[t] = "ollama"
          PROVE  /\ given[t].of \in {0, link[t].query}
                 /\ link[t].mode = "query" => given[t].count = IF result[t] = "ok" THEN 1 ELSE 0
                 /\ link[t].mode = "stream" /\ result[t] = "ok" =>
                      given[t].count = Cardinality(Tokens(link[t], Len(link[t].sent)))
      BY <2>1, <2>5 DEF Linked, Fits, Receiving, Asking, Nothing
    <2>6. Tokens(link[t], Len(link[t].sent)) =
            {k \in DOMAIN link[t].sent : link[t].sent[k].part = "token"}
      <3>1. link[t].sent \in Seq(Piece) BY <1>1 DEF Inv, TypeOK, Link
      <3>2. DOMAIN link[t].sent = 1..Len(link[t].sent) BY <3>1
      <3> QED BY <3>2 DEF Tokens
    <2> QED BY <2>3, <2>4, <2>5, <2>6
  <1> QED BY <1>1, InvHolds, PTL
============================================================================
