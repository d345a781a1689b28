------------------------ MODULE DaemonServiceProofs ------------------------
(***************************************************************************)
(* For every number of clients, daemons and workflows: the types, that a   *)
(* command starts at most one workflow, and that taking over the port does *)
(* not lose the service.                                                   *)
(*                                                                         *)
(* A start request has a life of its own once it is sent: the client may   *)
(* be gone while a thread of the daemon still forks the script.  So the    *)
(* invariant follows the request: the client has it, or a connection, or   *)
(* the script, and only one of them at a time.                             *)
(***************************************************************************)
EXTENDS DaemonService, FiniteSetTheorems, SequenceTheorems, TLAPS

StartsOf(c) == {m \in wire : m.from = c /\ m.req = "start"}
FlowsOf(c) == {w \in Flows : flow[w].for = c}

\* The client has not sent its start request, and may still send one.
MayStart(c) ==
  \/ client[c].pc = "idle"
  \/ client[c].req = "start" /\ client[c].pc \in {"ensure", "spawning", "sleeping", "connect"}

\* A client has one connection open, for the request it waits for.
OpenInv ==
  /\ \A m \in wire : m.open => client[m.from].pc = "asking" /\ client[m.from].req = m.req
  /\ \A m, n \in wire : m.open /\ n.open /\ m.from = n.from => m = n

\* The start request of a client is sent once and answered once.
StartInv ==
  \A c \in Clients :
    /\ MayStart(c) => StartsOf(c) = {} /\ FlowsOf(c) = {}
    /\ \A m, n \in StartsOf(c) : m = n
    /\ \A m \in StartsOf(c) : m.status = "none" => FlowsOf(c) = {}
    /\ \A v, w \in FlowsOf(c) : v = w

\* A daemon that was killed leaves the one that killed it waiting for the port,
\* and only a daemon that has served has scripts.
ServiceInv ==
  /\ (\E e \in Daemons : daemon[e] = "dying") => \E d \in Daemons : daemon[d] = "polling"
  /\ \A w \in Flows : flow[w].state # "none" =>
       flow[w].by \in Daemons /\ daemon[flow[w].by] \in {"serving", "dying", "dead"}

Inv == TypeOK /\ OpenInv /\ StartInv /\ ServiceInv
----------------------------------------------------------------------------
(* The routes. *)

\* A set of naturals that is not empty has a least element.
LEMMA LeastNatural ==
  ASSUME NEW S \in SUBSET Nat, S # {}
  PROVE  \E x \in S : \A y \in S : x <= y
  <1>1. PICK x \in S : \A y \in S : ~(<<y, x>> \in OpToRel(<, Nat))
    BY NatLessThanWellFounded, WFMin
  <1>2. \A y \in S : ~(y < x) BY <1>1 DEF OpToRel
  <1> QED BY <1>2

\* One route has the handler of start requests, and no other path begins with its path.
LEMMA StartRoute ==
  /\ DOMAIN Routes = 1..12
  /\ \A k \in 1..12 : Routes[k].handler = "start" =>
       Routes[k].method = "POST" /\ Routes[k].path = <<"api", "workflow", "start">>
  <1>1. Len(BasicRoutes) = 3 /\ Len(ApiRoutes) = 9 BY DEF BasicRoutes, ApiRoutes
  <1>2. \A k \in 1..3 : BasicRoutes[k].handler # "start"
    <2>1. BasicRoutes[1].handler # "start" BY DEF BasicRoutes
    <2>2. BasicRoutes[2].handler # "start" BY DEF BasicRoutes
    <2>3. BasicRoutes[3].handler # "start" BY DEF BasicRoutes
    <2> QED BY <2>1, <2>2, <2>3
  <1>3. \A k \in 1..9 : ApiRoutes[k].handler = "start" =>
          ApiRoutes[k].method = "POST" /\ ApiRoutes[k].path = <<"api", "workflow", "start">>
    BY DEF ApiRoutes
  <1> DEFINE S == {BasicRoutes[k] : k \in 1..3} \cup {ApiRoutes[k] : k \in 1..9}
  <1>4. BasicRoutes \in [1..3 -> S] BY DEF BasicRoutes
  <1>5. ApiRoutes \in [1..9 -> S] BY DEF ApiRoutes
  <1> HIDE DEF S
  <1>6. BasicRoutes \in Seq(S) /\ ApiRoutes \in Seq(S)
    <2>1. [1..3 -> S] \in {[1..n -> S] : n \in Nat} /\ [1..9 -> S] \in {[1..n -> S] : n \in Nat}
      OBVIOUS
    <2>2. Seq(S) = UNION {[1..n -> S] : n \in Nat} BY SeqDef
    <2> QED BY <1>4, <1>5, <2>1, <2>2
  <1> DEFINE R == BasicRoutes \o ApiRoutes
  <1>7. /\ R \in Seq(S) /\ Len(R) = Len(BasicRoutes) + Len(ApiRoutes)
        /\ \A k \in 1..(Len(BasicRoutes) + Len(ApiRoutes)) :
             R[k] = IF k <= Len(BasicRoutes) THEN BasicRoutes[k] ELSE ApiRoutes[k - Len(BasicRoutes)]
    BY <1>6, ConcatProperties
  <1>8. Routes = R BY DEF Routes
  <1> HIDE DEF R
  <1>9. DOMAIN Routes = 1..12 BY <1>1, <1>7, <1>8
  <1>10. \A k \in 1..12 : Routes[k] = IF k <= 3 THEN BasicRoutes[k] ELSE ApiRoutes[k - 3]
    BY <1>1, <1>7, <1>8
  <1>11. \A k \in 1..12 : (k <= 3 => k \in 1..3) /\ (~(k <= 3) => k - 3 \in 1..9) OBVIOUS
  <1> QED BY <1>2, <1>3, <1>9, <1>10, <1>11

\* Only start requests reach handle_start.
LEMMA OnlyStartStarts ==
  ASSUME NEW r \in Requests, HandlerOf[r] = "start"
  PROVE  r = "start"
  <1> DEFINE q == Message[r]
             Fits(k) == LET p == Routes[k].path
                        IN  /\ Routes[k].method = Method(q.method)
                            /\ Len(p) <= Len(q.path) /\ SubSeq(q.path, 1, Len(p)) = p
             fitting == {k \in DOMAIN Routes : Fits(k)}
  <1>1. FindRoute(q) = "start" BY DEF HandlerOf
  <1>2. fitting # {} /\ Routes[CHOOSE k \in fitting : \A l \in fitting : k <= l].handler = "start"
    BY <1>1, ServiceNames DEF FindRoute, Requests
  <1>3. PICK k \in fitting : Routes[k].handler = "start"
    <2>1. fitting \in SUBSET Nat BY StartRoute
    <2>2. \E k \in fitting : \A l \in fitting : k <= l BY <1>2, <2>1, LeastNatural
    <2> QED BY <1>2, <2>2
  <1>4. Fits(k) /\ k \in 1..12 BY StartRoute
  <1>5. Routes[k].path = <<"api", "workflow", "start">> BY <1>3, <1>4, StartRoute
  <1>6. Len(q.path) >= 3 /\ SubSeq(q.path, 1, 3) = <<"api", "workflow", "start">>
    BY <1>4, <1>5
  <1>7. q.path[3] = "start"
    <2>1. <<"api", "workflow", "start">>[3] = "start" OBVIOUS
    <2>2. SubSeq(q.path, 1, 3)[3] = "start" BY <1>6, <2>1
    <2>3. SubSeq(q.path, 1, 3)[3] = q.path[3] BY <1>6 DEF Message, Requests
    <2> QED BY <2>2, <2>3
  <1>8. \/ r = "start"
        \/ Len(q.path) = 2
        \/ q.path[3] \in {"list", "status", "abandon", "input", "query"}
    BY DEF Message, Requests
  <1> QED BY <1>6, <1>7, <1>8
----------------------------------------------------------------------------
(* What most steps leave alone. *)

Places == {"idle", "ensure", "spawning", "sleeping", "connect",
           "asking", "found", "attached"} \cup Ends

\* The start requests after a step are images of the ones before, and a client
\* that may start could do so before.
LEMMA StartKept ==
  ASSUME StartInv, NEW g,
         \A c \in Clients : MayStart(c)' => MayStart(c),
         \A c \in Clients : \A x \in StartsOf(c)' :
           \E m \in StartsOf(c) : x = g[m] /\ (x.status = "none" => m.status = "none"),
         \A c \in Clients : FlowsOf(c)' \subseteq FlowsOf(c)
  PROVE  StartInv'
  <1> SUFFICES ASSUME NEW c \in Clients
               PROVE  /\ MayStart(c)' => StartsOf(c)' = {} /\ FlowsOf(c)' = {}
                      /\ \A m, n \in StartsOf(c)' : m = n
                      /\ \A m \in StartsOf(c)' : m.status = "none" => FlowsOf(c)' = {}
                      /\ \A v, w \in FlowsOf(c)' : v = w
    BY DEF StartInv
  <1> QED BY DEF StartInv

\* The same where no start request is changed or added.
LEMMA StartSame ==
  ASSUME StartInv,
         \A c \in Clients : MayStart(c)' => MayStart(c),
         \A x \in wire' : x.req = "start" => x \in wire,
         \A w \in Flows : flow'[w].for = flow[w].for
  PROVE  StartInv'
  <1> DEFINE g == [m \in wire |-> m]
  <1>1. \A c \in Clients : \A x \in StartsOf(c)' :
          \E m \in StartsOf(c) : x = g[m] /\ (x.status = "none" => m.status = "none")
    BY DEF StartsOf
  <1>2. \A c \in Clients : FlowsOf(c)' \subseteq FlowsOf(c) BY DEF FlowsOf
  <1> HIDE DEF g
  <1> QED BY <1>1, <1>2, StartKept

\* No connection is opened, and the clients that have one stay where they are.
LEMMA OpenKept ==
  ASSUME OpenInv, \A x \in wire' : x.open => x \in wire /\ client'[x.from] = client[x.from]
  PROVE  OpenInv'
  BY DEF OpenInv

LEMMA ServiceSame ==
  ASSUME ServiceInv, UNCHANGED daemon,
         \A w \in Flows : /\ flow'[w].by = flow[w].by
                          /\ flow'[w].state # "none" => flow[w].state # "none"
  PROVE  ServiceInv'
  BY DEF ServiceInv

\* A step of one client that is not waiting for an answer.
LEMMA ClientMoves ==
  ASSUME Inv, NEW c \in Clients, client[c].pc # "asking",
         client' \in [Clients -> Client], \A d \in Clients \ {c} : client'[d] = client[d],
         MayStart(c)' => MayStart(c),
         wire' \subseteq Connection,
         \A x \in wire' : x \in wire \/ (~x.open /\ x.req # "start"),
         late' \in 0..MaxLate, UNCHANGED <<daemon, polls, flow>>
  PROVE  Inv'
  <1>1. TypeOK' BY DEF Inv, TypeOK
  <1>2. \A x \in wire' : x.open => x \in wire /\ client'[x.from] = client[x.from]
    BY DEF Inv, OpenInv, TypeOK, Connection
  <1>3. OpenInv' BY <1>2, OpenKept DEF Inv
  <1>4. \A d \in Clients : MayStart(d)' => MayStart(d) BY DEF MayStart
  <1>5. StartInv' BY <1>4, StartSame DEF Inv
  <1>6. ServiceInv' BY ServiceSame DEF Inv
  <1> QED BY <1>1, <1>3, <1>5, <1>6 DEF Inv

\* A client record with another place in it.
LEMMA InactiveIs ==
  ASSUME NEW place \in Places
  PROVE  /\ Inactive(place) \in Client
         /\ Inactive(place).pc = place /\ Inactive(place).req = "health"
  <1> DEFINE Cmds == (UNION {Commands[c] : c \in Clients}) \cup {None}
  <1>1. None \in Cmds OBVIOUS
  <1> HIDE DEF Cmds
  <1>2. "health" \in Requests BY DEF Requests
  <1>3. Client = [pc : Places, cmd : Cmds, flow : Flows \cup {None}, req : Requests, lines : Nat]
    BY DEF Client, Places, Cmds
  <1> QED BY <1>1, <1>2, <1>3 DEF Inactive

LEMMA AtIs ==
  ASSUME TypeOK, NEW c \in Clients, NEW place \in Places, At(c, place)
  PROVE  /\ client' \in [Clients -> Client]
         /\ \A d \in Clients \ {c} : client'[d] = client[d]
         /\ client'[c].pc = place
         /\ client'[c].req = IF place \in Ends THEN "health" ELSE client[c].req
  <1>1. client \in [Clients -> Client] /\ client[c] \in Client BY DEF TypeOK
  <1>2. Inactive(place) \in Client BY InactiveIs
  <1>3. [client[c] EXCEPT !.pc = place] \in Client BY <1>1 DEF Client, Places
  <1>4. client' = [client EXCEPT ![c] = IF place \in Ends THEN Inactive(place)
                                       ELSE [client[c] EXCEPT !.pc = place]]
    BY <1>1 DEF At
  <1>5. Inactive(place).pc = place /\ Inactive(place).req = "health" BY InactiveIs
  <1>6. [client[c] EXCEPT !.pc = place].pc = place /\ [client[c] EXCEPT !.pc = place].req = client[c].req
    BY <1>1 DEF Client
  <1> QED BY <1>1, <1>2, <1>3, <1>4, <1>5, <1>6
----------------------------------------------------------------------------
(* argo-daemon. *)

\* A step that concerns the daemon processes alone.
LEMMA DaemonMoves ==
  ASSUME Inv, daemon' \in [Daemons -> {"unborn", "starting", "found", "polling", "binding",
                                       "serving", "dying", "dead"}],
         polls' \in [Daemons -> 0..MaxPolls], UNCHANGED <<client, wire, flow, late>>, ServiceInv'
  PROVE  Inv'
  <1>1. TypeOK' BY DEF Inv, TypeOK
  <1>2. OpenInv' /\ StartInv' BY DEF Inv, OpenInv, StartInv, MayStart, StartsOf, FlowsOf
  <1> QED BY <1>1, <1>2 DEF Inv

LEMMA BornPreserves == ASSUME Inv, RunDaemon PROVE Inv'
  <1>1. PICK d \in Daemons : daemon[d] = "unborn" /\ daemon' = [daemon EXCEPT ![d] = "starting"]
    BY DEF RunDaemon, Born
  <1>2. ServiceInv' BY <1>1 DEF RunDaemon, ServiceInv, Inv, TypeOK
  <1> QED BY <1>1, <1>2, DaemonMoves DEF RunDaemon, Inv, TypeOK

LEMMA DaemonStepPreserves == ASSUME Inv, NEW d \in Daemons, DaemonStep(d), ~KillExisting(d) PROVE Inv'
  <1> USE DEF Inv
  <1>1. /\ polls \in [Daemons -> 0..MaxPolls] /\ MaxPolls \in Nat \ {0}
        /\ daemon \in [Daemons -> {"unborn", "starting", "found", "polling", "binding",
                                    "serving", "dying", "dead"}]
    BY ServiceBounds DEF TypeOK
  <1>2. CASE FindPort(d)
    <2>1. ServiceInv' BY <1>1, <1>2 DEF FindPort, ServiceInv
    <2> QED BY <1>1, <1>2, <2>1, DaemonMoves DEF FindPort
  <1>3. CASE Poll(d)
    <2>1. ServiceInv' BY <1>1, <1>3 DEF Poll, ServiceInv
    <2>2. polls' \in [Daemons -> 0..MaxPolls] BY <1>1, <1>3 DEF Poll
    <2> QED BY <1>1, <1>3, <2>1, <2>2, DaemonMoves DEF Poll
  <1>4. CASE Serve(d)
    <2>1. ServiceInv' BY <1>1, <1>4 DEF Serve, Bindable, ServiceInv
    <2> QED BY <1>1, <1>4, <2>1, DaemonMoves DEF Serve
  <1>7. CASE StartFails(d)
    <2>1. ServiceInv' BY <1>1, <1>7 DEF StartFails, Bindable, Destroy, ServiceInv
    <2> QED BY <1>1, <1>7, <2>1, DaemonMoves DEF StartFails, Destroy
  <1>5. CASE BindFails(d)
    <2>1. ServiceInv' BY <1>1, <1>5 DEF BindFails, Destroy, ServiceInv
    <2> QED BY <1>1, <1>5, <2>1, DaemonMoves DEF BindFails, Destroy
  <1>6. CASE Dies(d)
    <2>1. ServiceInv' BY <1>1, <1>6 DEF Dies, ServiceInv
    <2> QED BY <1>1, <1>6, <2>1, DaemonMoves DEF Dies
  <1> QED BY <1>2, <1>3, <1>4, <1>5, <1>6, <1>7 DEF DaemonStep

\* The connections after client c has closed its own.
LEMMA LeftIs ==
  ASSUME Inv, NEW c \in Clients,
         wire' = {m \in wire : m.from # c \/ ~m.open} \cup Abandoned(OpenOf(c))
  PROVE  /\ wire' \subseteq Connection
         /\ \A x \in wire' : x.open => x \in wire /\ x.from # c
         /\ LET g == [m \in wire |-> IF m.from = c /\ m.open THEN [m EXCEPT !.open = FALSE] ELSE m]
            IN  \A x \in wire' : \E m \in wire : /\ x = g[m] /\ x.from = m.from /\ x.req = m.req
                                                 /\ x.status = m.status
  <1> DEFINE g == [m \in wire |-> IF m.from = c /\ m.open THEN [m EXCEPT !.open = FALSE] ELSE m]
  <1>1. \A m \in wire : m \in Connection BY DEF Inv, TypeOK
  <1>2. \A m \in wire : LET y == [m EXCEPT !.open = FALSE]
                        IN  /\ y \in Connection /\ ~y.open /\ y.from = m.from /\ y.req = m.req
                            /\ y.status = m.status
    BY <1>1 DEF Connection
  <1>3. ASSUME NEW x \in wire'
        PROVE  /\ x \in Connection /\ (x.open => x \in wire /\ x.from # c)
               /\ \E m \in wire : x = g[m] /\ x.from = m.from /\ x.req = m.req /\ x.status = m.status
    <2>1. CASE x \in wire /\ (x.from # c \/ ~x.open)
      <3>1. g[x] = x BY <2>1
      <3> QED BY <1>1, <2>1, <3>1
    <2>2. CASE \E m \in OpenOf(c) : x = [m EXCEPT !.open = FALSE]
      <3>1. PICK m \in OpenOf(c) : x = [m EXCEPT !.open = FALSE] BY <2>2
      <3>2. m \in wire /\ g[m] = x BY <3>1 DEF OpenOf
      <3> QED BY <1>2, <3>1, <3>2
    <2> QED BY <2>1, <2>2 DEF Abandoned
  <1> QED BY <1>3

\* A client that is killed or gives up, at a place where it cannot start anything.
LEMMA LeavePreserves ==
  ASSUME Inv, NEW c \in Clients,
         wire' = {m \in wire : m.from # c \/ ~m.open} \cup Abandoned(OpenOf(c)),
         client' \in [Clients -> Client], \A d \in Clients \ {c} : client'[d] = client[d],
         ~MayStart(c)', late' \in 0..MaxLate,
         daemon' \in [Daemons -> {"unborn", "starting", "found", "polling", "binding",
                                  "serving", "dying", "dead"}],
         ServiceInv', UNCHANGED <<polls, flow>>
  PROVE  Inv'
  <1> DEFINE g == [m \in wire |-> IF m.from = c /\ m.open THEN [m EXCEPT !.open = FALSE] ELSE m]
  <1>1. /\ wire' \subseteq Connection /\ \A x \in wire' : x.open => x \in wire /\ x.from # c
        /\ \A x \in wire' : \E m \in wire : /\ x = g[m] /\ x.from = m.from /\ x.req = m.req
                                            /\ x.status = m.status
    BY LeftIs
  <1> HIDE DEF g
  <1>2. TypeOK' BY <1>1 DEF Inv, TypeOK
  <1>3. \A x \in wire' : x.from \in Clients BY <1>1 DEF Connection
  <1>4. OpenInv' BY <1>1, <1>3, OpenKept DEF Inv
  <1>5. \A d \in Clients : MayStart(d)' => MayStart(d) BY DEF MayStart
  <1>6. \A d \in Clients : \A x \in StartsOf(d)' :
          \E m \in StartsOf(d) : x = g[m] /\ (x.status = "none" => m.status = "none")
    BY <1>1 DEF StartsOf
  <1>7. \A d \in Clients : FlowsOf(d)' \subseteq FlowsOf(d) BY DEF FlowsOf
  <1>8. StartInv' BY <1>5, <1>6, <1>7, StartKept DEF Inv
  <1> QED BY <1>2, <1>4, <1>8 DEF Inv

\* kill_existing_daemon.  The process that kills is not the one that is killed:
\* it does not have the port.
LEMMA KillPreserves == ASSUME Inv, NEW d \in Daemons, KillExisting(d) PROVE Inv'
  <1> USE DEF Inv
  <1>1. /\ daemon \in [Daemons -> {"unborn", "starting", "found", "polling", "binding",
                                    "serving", "dying", "dead"}]
        /\ flow \in [Flows -> Flow] /\ wire \subseteq Connection
    BY DEF TypeOK
  <1>2. daemon[d] = "found" /\ UNCHANGED <<polls, late>> BY DEF KillExisting
  <1>3. ASSUME NEW e, KillDaemon(d, e) PROVE Inv'
    <2>1. e \in Daemons /\ e \in Listed BY <1>3 DEF KillDaemon
    <2>2. daemon[e] \in {"serving", "dying"}
      <3>1. \A m \in wire : m.from \notin Daemons BY <1>1, ServiceNames DEF Connection
      <3>2. \E b \in Daemons : e \in Holders(b) BY <2>1, <3>1 DEF Listed
      <3> QED BY <2>1, <3>2, ServiceNames DEF Holders
    <2>3. d # e BY <1>2, <2>2
    <2>4. /\ daemon' = [daemon EXCEPT ![d] = "polling", ![e] = "dying"]
          /\ wire' \subseteq wire /\ UNCHANGED <<client, flow>>
      BY <1>3 DEF KillDaemon
    <2>5. TypeOK' BY <1>1, <1>2, <2>4 DEF TypeOK
    <2>6. daemon'[d] = "polling" BY <1>1, <2>1, <2>3, <2>4
    <2>7. ServiceInv' BY <1>1, <1>2, <2>1, <2>2, <2>3, <2>4, <2>6 DEF ServiceInv
    <2>8. OpenInv' BY <2>4, OpenKept
    <2>9. StartInv' BY <2>4, StartSame DEF MayStart
    <2> QED BY <2>5, <2>7, <2>8, <2>9
  <1>4. ASSUME NEW c, KillClient(d, c) PROVE Inv'
    <2>1. /\ c \in Clients /\ daemon' = [daemon EXCEPT ![d] = "polling"]
          /\ client' = [client EXCEPT ![c] = Inactive("shot")] /\ UNCHANGED flow
          /\ wire' = {m \in wire : m.from # c \/ ~m.open} \cup Abandoned(OpenOf(c))
      BY <1>4 DEF KillClient
    <2>2. Inactive("shot") \in Client /\ Inactive("shot").pc = "shot" /\ Inactive("shot").req = "health"
      BY InactiveIs DEF Places, Ends
    <2>3. client' \in [Clients -> Client] /\ \A b \in Clients \ {c} : client'[b] = client[b]
      BY <2>1, <2>2 DEF TypeOK
    <2>4. ~MayStart(c)' BY <2>1, <2>2 DEF MayStart, TypeOK
    <2>5. ServiceInv' BY <1>1, <1>2, <2>1 DEF ServiceInv
    <2> QED BY <1>1, <1>2, <2>1, <2>3, <2>4, <2>5, LeavePreserves DEF TypeOK
  <1>5. ASSUME NEW w, KillScript(d, w) PROVE Inv'
    <2>1. /\ w \in Flows /\ w \in Listed /\ daemon' = [daemon EXCEPT ![d] = "polling"]
          /\ flow' = [flow EXCEPT ![w].state = "ended"] /\ UNCHANGED <<client, wire>>
      BY <1>5 DEF KillScript
    <2>2. flow' \in [Flows -> Flow] /\ \A v \in Flows : /\ flow'[v].by = flow[v].by
                                                        /\ flow'[v].for = flow[v].for
                                                        /\ v # w => flow'[v] = flow[v]
      BY <1>1, <2>1 DEF Flow
    <2>3. flow[w].state # "none"
      <3>1. \A m \in wire : m.from \notin Flows BY <1>1, ServiceNames DEF Connection
      <3>2. \E e \in Daemons : w \in Holders(e) BY <2>1, <3>1 DEF Listed
      <3> QED BY <2>1, <3>2, ServiceNames DEF Holders, Alive
    <2>4. TypeOK' BY <1>1, <1>2, <2>1, <2>2 DEF TypeOK
    <2>5. ServiceInv' BY <1>1, <1>2, <2>1, <2>2, <2>3 DEF ServiceInv
    <2>6. OpenInv' BY <2>1, OpenKept
    <2>7. StartInv' BY <2>1, <2>2, StartSame DEF MayStart
    <2> QED BY <2>4, <2>5, <2>6, <2>7
  <1>6. CASE KillNobody(d)
    <2>1. ServiceInv' BY <1>1, <1>2, <1>6 DEF KillNobody, ServiceInv
    <2> QED BY <1>1, <1>2, <1>6, <2>1, DaemonMoves DEF KillNobody, TypeOK
  <1> QED BY <1>3, <1>4, <1>5, <1>6 DEF KillExisting
----------------------------------------------------------------------------
(* The threads of a daemon. *)

\* A connection gets its answer and is otherwise the same.
LEMMA DoneIs ==
  ASSUME Inv, NEW m \in wire, NEW s \in {"ok", "refused"}, NEW w \in Flows \cup {None},
         Done(m, s, w), client' = client
  PROVE  /\ wire' \subseteq Connection /\ OpenInv'
         /\ \E g : \A x \in wire' :
              \E n \in wire : /\ x = g[n] /\ x.from = n.from /\ x.req = n.req /\ x.open = n.open
                              /\ x.status = IF n = m THEN s ELSE n.status
  <1> DEFINE y == [m EXCEPT !.status = s, !.flow = w]
             g == [n \in wire |-> IF n = m THEN y ELSE n]
  <1>0. \A n \in wire : g[n] = IF n = m THEN y ELSE n OBVIOUS
  <1>1. \A n \in wire : n \in Connection BY DEF Inv, TypeOK
  <1>2. /\ y \in Connection /\ y.from = m.from /\ y.req = m.req /\ y.open = m.open /\ y.status = s
    BY <1>1 DEF Connection, Statuses
  <1>3. wire' = (wire \ {m}) \cup {y} BY DEF Done
  <1> HIDE DEF y
  <1>4. wire' \subseteq Connection BY <1>1, <1>2, <1>3
  <1>5. ASSUME NEW x \in wire'
        PROVE  \E n \in wire : /\ x = g[n] /\ x.from = n.from /\ x.req = n.req /\ x.open = n.open
                               /\ x.status = IF n = m THEN s ELSE n.status
    <2>1. CASE x = y
      <3>1. g[m] = y BY <1>0
      <3> QED BY <1>2, <2>1, <3>1
    <2>2. CASE x \in wire /\ x # m
      <3>1. g[x] = x BY <1>0, <2>2
      <3> QED BY <2>2, <3>1
    <2> QED BY <1>3, <2>1, <2>2
  <1> HIDE DEF g
  <1>6. OpenInv' BY <1>5 DEF Inv, OpenInv
  <1> QED BY <1>4, <1>5, <1>6

\* Every answer but that of a start which forked a script.
LEMMA DonePreserves ==
  ASSUME Inv, NEW m \in wire, NEW s \in {"ok", "refused"}, NEW w \in Flows \cup {None}, Done(m, s, w),
         flow' \in [Flows -> Flow],
         \A v \in Flows : /\ flow'[v].by = flow[v].by /\ flow'[v].for = flow[v].for
                          /\ flow'[v].state # "none" => flow[v].state # "none",
         UNCHANGED <<daemon, polls, client, late>>
  PROVE  Inv'
  <1>0. client' = client OBVIOUS
  <1>1. /\ wire' \subseteq Connection /\ OpenInv'
        /\ \E g : \A x \in wire' :
             \E n \in wire : /\ x = g[n] /\ x.from = n.from /\ x.req = n.req /\ x.open = n.open
                             /\ x.status = IF n = m THEN s ELSE n.status
    BY <1>0, DoneIs
  <1> PICK g : \A x \in wire' :
                \E n \in wire : /\ x = g[n] /\ x.from = n.from /\ x.req = n.req /\ x.open = n.open
                                /\ x.status = IF n = m THEN s ELSE n.status
    BY <1>1
  <1>2. TypeOK' BY <1>1 DEF Inv, TypeOK
  <1>3. \A c \in Clients : MayStart(c)' => MayStart(c) BY DEF MayStart
  <1>4. \A c \in Clients : \A x \in StartsOf(c)' :
          \E n \in StartsOf(c) : x = g[n] /\ (x.status = "none" => n.status = "none")
    BY <1>1 DEF StartsOf
  <1>5. \A c \in Clients : FlowsOf(c)' \subseteq FlowsOf(c) BY DEF FlowsOf
  <1>6. StartInv' BY <1>3, <1>4, <1>5, StartKept DEF Inv
  <1>7. ServiceInv' BY ServiceSame DEF Inv
  <1> QED BY <1>1, <1>2, <1>6, <1>7 DEF Inv

\* A script is forked for a client that has no other one.
LEMMA StartPreserves ==
  ASSUME Inv, NEW m \in wire, HandleStart(m), UNCHANGED <<daemon, polls, client, late>>
  PROVE  Inv'
  <1> USE DEF Inv
  <1>1. m \in Connection /\ m.status = "none" /\ daemon[m.to] = "serving" /\ HandlerOf[m.req] = "start"
    BY DEF HandleStart, Reading, TypeOK
  <1>2. m.from \in Clients /\ m.to \in Daemons /\ m.req = "start"
    BY <1>1, OnlyStartStarts DEF Connection
  <1>3. m \in StartsOf(m.from) BY <1>2 DEF StartsOf
  <1>4. FlowsOf(m.from) = {} /\ \A n \in StartsOf(m.from) : n = m BY <1>1, <1>2, <1>3 DEF StartInv
  <1>5. PICK w \in Flows :
          /\ flow' = [flow EXCEPT ![w] = [state |-> "forked", by |-> m.to, for |-> m.from]]
          /\ Done(m, "ok", w)
    BY DEF HandleStart
  <1>g. client' = client /\ "ok" \in {"ok", "refused"} /\ w \in Flows \cup {None} OBVIOUS
  <1>6. /\ wire' \subseteq Connection /\ OpenInv'
        /\ \E g : \A x \in wire' :
             \E n \in wire : /\ x = g[n] /\ x.from = n.from /\ x.req = n.req /\ x.open = n.open
                             /\ x.status = IF n = m THEN "ok" ELSE n.status
    BY <1>5, <1>g, DoneIs
  <1> PICK g : \A x \in wire' :
                \E n \in wire : /\ x = g[n] /\ x.from = n.from /\ x.req = n.req /\ x.open = n.open
                                /\ x.status = IF n = m THEN "ok" ELSE n.status
    BY <1>6
  <1>7. flow' \in [Flows -> Flow] BY <1>2, <1>5 DEF TypeOK, Flow
  <1>8. TypeOK' BY <1>6, <1>7 DEF TypeOK
  <1>9. \A v \in Flows : v # w => flow'[v] = flow[v] BY <1>5 DEF TypeOK
  <1>10. flow'[w].state = "forked" /\ flow'[w].by = m.to /\ flow'[w].for = m.from BY <1>5 DEF TypeOK
  <1>11. ServiceInv' BY <1>1, <1>2, <1>9, <1>10 DEF ServiceInv
  <1>12. \A c \in Clients : \A x \in StartsOf(c)' :
           \E n \in StartsOf(c) : x = g[n] /\ x.status = IF n = m THEN "ok" ELSE n.status
    BY <1>6 DEF StartsOf
  <1>13. StartInv'
    <2> SUFFICES ASSUME NEW c \in Clients
                 PROVE  /\ MayStart(c)' => StartsOf(c)' = {} /\ FlowsOf(c)' = {}
                        /\ \A x, n \in StartsOf(c)' : x = n
                        /\ \A x \in StartsOf(c)' : x.status = "none" => FlowsOf(c)' = {}
                        /\ \A u, v \in FlowsOf(c)' : u = v
      BY DEF StartInv
    <2>1. MayStart(c)' => MayStart(c) BY DEF MayStart
    <2>2. \A x, n \in StartsOf(c)' : x = n BY <1>12 DEF StartInv
    <2>3. CASE c = m.from
      <3>1. ~MayStart(c) BY <1>3, <2>3 DEF StartInv
      <3>2. \A x \in StartsOf(c)' : x.status # "none" BY <1>4, <1>12, <2>3
      <3>3. FlowsOf(c)' \subseteq {w} BY <1>4, <1>9, <2>3 DEF FlowsOf
      <3> QED BY <2>1, <2>2, <3>1, <3>2, <3>3
    <2>4. CASE c # m.from
      <3>1. m \notin StartsOf(c) BY <2>4 DEF StartsOf
      <3>2. FlowsOf(c)' \subseteq FlowsOf(c) BY <1>9, <1>10, <2>4 DEF FlowsOf
      <3> QED BY <1>12, <2>1, <2>2, <3>1, <3>2 DEF StartInv
    <2> QED BY <2>3, <2>4
  <1> QED BY <1>6, <1>8, <1>11, <1>13

LEMMA HandlePreserves == ASSUME Inv, NEW m \in wire, Handle(m) PROVE Inv'
  <1>1. UNCHANGED <<daemon, polls, client, late>> BY DEF Handle
  <1>2. m.flow \in Flows \cup {None} /\ flow \in [Flows -> Flow] BY DEF Inv, TypeOK, Connection
  <1>3. CASE HandleStart(m) BY <1>1, <1>3, StartPreserves
  <1>4. ASSUME NEW s \in {"ok", "refused"}, NEW w \in Flows \cup {None}, Done(m, s, w), UNCHANGED flow
        PROVE  Inv'
    BY <1>1, <1>2, <1>4, DonePreserves
  <1>5. CASE HandleAbandon(m)
    <2>1. CASE Known(m.to, m.flow) /\ Alive(m.flow)
      <3>1. flow' = [flow EXCEPT ![m.flow].state = "ended"] /\ Done(m, "ok", m.flow)
        BY <1>5, <2>1 DEF HandleAbandon
      <3>2. m.flow \in Flows BY <1>2, <2>1 DEF Known
      <3>3. /\ flow' \in [Flows -> Flow]
            /\ \A v \in Flows : flow'[v].by = flow[v].by /\ flow'[v].for = flow[v].for
            /\ \A v \in Flows : v # m.flow => flow'[v] = flow[v]
        BY <1>2, <3>1, <3>2 DEF Flow
      <3>4. flow[m.flow].state # "none" BY <2>1 DEF Alive
      <3> QED BY <1>1, <1>2, <3>1, <3>3, <3>4, DonePreserves
    <2>2. CASE ~(Known(m.to, m.flow) /\ Alive(m.flow)) BY <1>2, <1>4, <1>5, <2>2 DEF HandleAbandon
    <2> QED BY <2>1, <2>2
  <1>6. CASE NotFound(m) \/ MissingBody(m) \/ HandleStartFails(m) BY <1>2, <1>4, <1>6 DEF NotFound, MissingBody, HandleStartFails
  <1>7. CASE HandleStatus(m) \/ HandleList(m) BY <1>2, <1>4, <1>7 DEF HandleStatus, HandleList
  <1>8. CASE HandleInput(m) \/ HandleQuery(m) BY <1>2, <1>4, <1>8 DEF HandleInput, HandleQuery
  <1> QED BY <1>3, <1>5, <1>6, <1>7, <1>8 DEF Handle

\* An answer never leads a client to start something.
LEMMA AfterIs ==
  ASSUME Inv, NEW m \in wire
  PROVE  /\ After(m.from, m) \in Client /\ After(m.from, m).pc # "idle"
         /\ After(m.from, m).pc # "asking"
         /\ After(m.from, m).pc \in {"ensure", "spawning", "sleeping", "connect"} =>
              After(m.from, m).req # "start"
  <1> DEFINE c == m.from
  <1>1. m \in Connection /\ c \in Clients /\ m.flow \in Flows \cup {None} BY DEF Inv, TypeOK, Connection
  <1>2. client[c] \in Client BY <1>1 DEF Inv, TypeOK
  <1>3. [client[c] EXCEPT !.pc = "attached"] \in Client /\ [client[c] EXCEPT !.pc = "attached"].pc = "attached"
    BY <1>2 DEF Client
  <1>4. [client[c] EXCEPT !.pc = "found"] \in Client /\ [client[c] EXCEPT !.pc = "found"].pc = "found"
    BY <1>2 DEF Client
  <1>5. LET r == [client[c] EXCEPT !.pc = "ensure", !.req = "status", !.flow = m.flow]
        IN  r \in Client /\ r.pc = "ensure" /\ r.req = "status"
    BY <1>1, <1>2 DEF Client, Requests
  <1>6. Inactive("ok") \in Client /\ Inactive("ok").pc = "ok" BY InactiveIs DEF Places, Ends
  <1>7. Inactive("error") \in Client /\ Inactive("error").pc = "error" BY InactiveIs DEF Places, Ends
  <1>8. \/ After(c, m) = [client[c] EXCEPT !.pc = "attached"]
        \/ After(c, m) = [client[c] EXCEPT !.pc = "ensure", !.req = "status", !.flow = m.flow]
        \/ After(c, m) = [client[c] EXCEPT !.pc = "found"]
        \/ After(c, m) = Inactive("ok")
        \/ After(c, m) = Inactive("error")
    BY DEF After
  <1> QED BY <1>3, <1>4, <1>5, <1>6, <1>7, <1>8

LEMMA ReplyPreserves == ASSUME Inv, NEW m \in wire, Reply(m) PROVE Inv'
  <1> USE DEF Inv
  <1> DEFINE c == m.from
  <1>1. c \in Clients /\ client \in [Clients -> Client] BY DEF TypeOK, Connection
  <1>2. /\ m.open /\ wire' = wire \ {m} /\ client' = [client EXCEPT ![c] = After(c, m)]
        /\ UNCHANGED <<daemon, polls, flow, late>>
    BY DEF Reply
  <1>3. /\ After(c, m) \in Client /\ After(c, m).pc # "idle"
        /\ After(c, m).pc \in {"ensure", "spawning", "sleeping", "connect"} => After(c, m).req # "start"
    BY AfterIs
  <1>4. /\ client' \in [Clients -> Client] /\ \A d \in Clients \ {c} : client'[d] = client[d]
        /\ client'[c] = After(c, m)
    BY <1>1, <1>2, <1>3
  <1>5. TypeOK' BY <1>2, <1>4 DEF TypeOK
  <1>6. \A x \in wire' : x.open => x \in wire /\ x.from \in Clients \ {c}
    BY <1>2 DEF OpenInv, TypeOK, Connection
  <1>7. OpenInv' BY <1>4, <1>6, OpenKept
  <1>8. \A d \in Clients : MayStart(d)' => MayStart(d) BY <1>3, <1>4 DEF MayStart
  <1>9. StartInv' BY <1>2, <1>8, StartSame
  <1>10. ServiceInv' BY <1>2, ServiceSame
  <1> QED BY <1>5, <1>7, <1>9, <1>10

\* A daemon that SIGPIPE ends was serving: it is not one that killed another.
LEMMA SigpipePreserves ==
  ASSUME Inv, NEW m \in wire, ReplyToNobody(m) \/ InputSigpipe(m) \/ QuerySigpipe(m)
  PROVE  Inv'
  <1> USE DEF Inv
  <1>1. m.to \in Daemons /\ daemon[m.to] = "serving"
    BY DEF TypeOK, Connection, ReplyToNobody, InputSigpipe, QuerySigpipe, Reading
  <1>2. UNCHANGED <<polls, client, flow, late>> /\ wire' \subseteq wire
    BY DEF ReplyToNobody, InputSigpipe, QuerySigpipe, Sigpipe
  <1>3. daemon' = daemon \/ daemon' = [daemon EXCEPT ![m.to] = "dead"]
    BY DEF ReplyToNobody, InputSigpipe, QuerySigpipe, Sigpipe
  <1>4. TypeOK' BY <1>1, <1>2, <1>3 DEF TypeOK
  <1>5. ServiceInv' BY <1>1, <1>2, <1>3 DEF ServiceInv, TypeOK
  <1>6. OpenInv' BY <1>2, OpenKept
  <1>7. StartInv' BY <1>2, StartSame DEF MayStart
  <1> QED BY <1>4, <1>5, <1>6, <1>7

LEMMA ScriptPreserves ==
  ASSUME Inv, NEW w \in Flows, ScriptLogs(w) \/ ScriptEnds(w) \/ Complete(w)
  PROVE  Inv'
  <1> USE DEF Inv
  <1>1. flow \in [Flows -> Flow] BY DEF TypeOK
  <1>2. PICK s \in {"running", "ended", "removed"} :
          flow' = [flow EXCEPT ![w].state = s] /\ flow[w].state # "none"
    BY DEF ScriptLogs, ScriptEnds, Complete
  <1>3. UNCHANGED <<daemon, polls, client, wire, late>> BY DEF ScriptLogs, ScriptEnds, Complete
  <1>4. flow' \in [Flows -> Flow] /\ \A v \in Flows : /\ flow'[v].by = flow[v].by
                                                      /\ flow'[v].for = flow[v].for
                                                      /\ v # w => flow'[v] = flow[v]
    BY <1>1, <1>2 DEF Flow
  <1>5. TypeOK' BY <1>3, <1>4 DEF TypeOK
  <1>6. \A v \in Flows : flow'[v].state # "none" => flow[v].state # "none" BY <1>2, <1>4
  <1>a. \A v \in Flows : flow'[v].for = flow[v].for BY <1>4
  <1>b. \A v \in Flows : flow'[v].by = flow[v].by /\ (flow'[v].state # "none" => flow[v].state # "none")
    BY <1>4, <1>6
  <1>c. \A c \in Clients : MayStart(c)' => MayStart(c) BY <1>3 DEF MayStart
  <1>7. ServiceInv' BY <1>3, <1>b, ServiceSame
  <1>8. OpenInv' BY <1>3, OpenKept
  <1>9. StartInv' BY <1>3, <1>a, <1>c, StartSame
  <1> QED BY <1>5, <1>7, <1>8, <1>9
----------------------------------------------------------------------------
(* arc and ci. *)

LEMMA InvokePreserves == ASSUME Inv, NEW c \in Clients, Invoke(c) PROVE Inv'
  <1> USE DEF Inv
  <1>1. ASSUME NEW k, NEW place \in Ends, EndsEarly(c, k, place) PROVE Inv'
    <2>1. place \in Places /\ At(c, place) /\ client[c].pc = "idle" BY <1>1 DEF EndsEarly, Places
    <2>2. /\ client' \in [Clients -> Client] /\ \A d \in Clients \ {c} : client'[d] = client[d]
      BY <2>1, AtIs
    <2>3. MayStart(c) BY <2>1 DEF MayStart
    <2>4. UNCHANGED <<daemon, polls, wire, flow, late>> BY <1>1 DEF EndsEarly
    <2> QED BY <2>1, <2>2, <2>3, <2>4, ClientMoves DEF TypeOK
  <1>2. ASSUME NEW k, NEW r \in Requests, NEW W \in SUBSET (Flows \cup {None}), Begins(c, k, r, W)
        PROVE  Inv'
    <2>1. PICK w \in W : client' = [client EXCEPT ![c] = [@ EXCEPT !.pc = "ensure", !.cmd = k,
                                                                  !.flow = w, !.req = r]]
      BY <1>2 DEF Begins
    <2>2. client \in [Clients -> Client] /\ client[c] \in Client BY DEF TypeOK
    <2> DEFINE Cmds == (UNION {Commands[d] : d \in Clients}) \cup {None}
    <2>3. k \in Cmds BY <1>2 DEF Begins
    <2> HIDE DEF Cmds
    <2>4. Client = [pc : Places, cmd : Cmds, flow : Flows \cup {None}, req : Requests, lines : Nat]
      BY DEF Client, Places, Cmds
    <2>5. [client[c] EXCEPT !.pc = "ensure", !.cmd = k, !.flow = w, !.req = r] \in Client
      BY <2>2, <2>3, <2>4 DEF Places
    <2>6. client' \in [Clients -> Client] /\ \A d \in Clients \ {c} : client'[d] = client[d]
      BY <2>1, <2>2, <2>5
    <2>7. client[c].pc = "idle" /\ MayStart(c) BY <1>2 DEF Begins, MayStart
    <2>8. UNCHANGED <<daemon, polls, wire, flow, late>> BY <1>2 DEF Begins
    <2> QED BY <2>6, <2>7, <2>8, ClientMoves DEF TypeOK
  <1>3. {None} \in SUBSET (Flows \cup {None}) /\ Named \in SUBSET (Flows \cup {None}) BY ServiceNames
  <1>4. "ok" \in Ends /\ "error" \in Ends BY DEF Ends
  <1>5. {"start", "status", "list", "abandon", "query"} \subseteq Requests BY DEF Requests
  <1>6. CASE ArcStart(c) \/ ArcAttach(c) \/ ArcStatus(c)
    BY <1>1, <1>2, <1>3, <1>4, <1>5, <1>6 DEF ArcStart, ArcAttach, ArcStatus
  <1>7. CASE ArcList(c) \/ ArcStates(c) \/ ArcAbandon(c)
    BY <1>1, <1>2, <1>3, <1>4, <1>5, <1>7 DEF ArcList, ArcStates, ArcAbandon
  <1>8. CASE ArcPause(c) \/ ArcResume(c) \/ CiQuery(c)
    BY <1>1, <1>2, <1>3, <1>4, <1>5, <1>8 DEF ArcPause, ArcResume, CiQuery
  <1> QED BY <1>6, <1>7, <1>8 DEF Invoke

\* A connect that succeeds reaches the socket of some daemon.
LEMMA ListeningIs == ASSUME PortInUse PROVE Listening \in Daemons /\ Holders(Listening) # {}
  BY DEF PortInUse, Listening

LEMMA FailedIs == ASSUME NEW c \in Clients PROVE Failed(c) \in {"attached", "error"} /\ Failed(c) \in Places
  BY DEF Failed, Places, Ends

\* The request is sent: the client waits for it and cannot send it again.
LEMMA SendPreserves == ASSUME Inv, NEW c \in Clients, NEW method, Send(c, method) PROVE Inv'
  <1> USE DEF Inv
  <1>1. client[c].pc = "connect" /\ UNCHANGED <<daemon, polls, flow, late>> BY DEF Send
  <1>2. CASE ~PortInUse
    <2>1. At(c, Failed(c)) /\ UNCHANGED wire BY <1>2 DEF Send
    <2>2. /\ client' \in [Clients -> Client] /\ \A d \in Clients \ {c} : client'[d] = client[d]
          /\ client'[c].pc = Failed(c)
      BY <2>1, FailedIs, AtIs
    <2>3. ~MayStart(c)' BY <2>2, FailedIs DEF MayStart
    <2> QED BY <1>1, <2>1, <2>2, <2>3, ClientMoves DEF TypeOK
  <1>3. CASE PortInUse
    <2> DEFINE x == [from |-> c, req |-> client[c].req, flow |-> client[c].flow,
                     to |-> Listening, open |-> TRUE, status |-> "none"]
    <2>1. At(c, "asking") /\ wire' = wire \cup {x} BY <1>3 DEF Send
    <2>2. "asking" \in Places /\ "asking" \notin Ends BY DEF Places, Ends
    <2>3. /\ client' \in [Clients -> Client] /\ \A d \in Clients \ {c} : client'[d] = client[d]
          /\ client'[c].pc = "asking" /\ client'[c].req = client[c].req
      BY <2>1, <2>2, AtIs
    <2>4. client[c] \in Client /\ Listening \in Daemons BY <1>3, ListeningIs DEF TypeOK
    <2>5. x \in Connection BY <2>4 DEF Client, Connection, Statuses
    <2>6. x.from = c /\ x.req = client[c].req /\ x.open /\ x.status = "none" OBVIOUS
    <2> HIDE DEF x
    <2>7. TypeOK' BY <1>1, <2>1, <2>3, <2>5 DEF TypeOK
    <2>8. \A n \in wire : n.from \in Clients /\ (n.open => n.from # c)
      BY <1>1 DEF OpenInv, TypeOK, Connection
    <2>9. OpenInv'
      <3>1. ASSUME NEW n \in wire', n.open
            PROVE  client'[n.from].pc = "asking" /\ client'[n.from].req = n.req
        <4>1. CASE n = x BY <2>3, <2>6, <4>1
        <4>2. CASE n \in wire
          <5>1. n.from \in Clients \ {c} BY <2>8, <3>1, <4>2
          <5>2. client'[n.from] = client[n.from] BY <2>3, <5>1
          <5> QED BY <3>1, <4>2, <5>2 DEF OpenInv
        <4> QED BY <2>1, <4>1, <4>2
      <3>2. ASSUME NEW m \in wire', NEW n \in wire', m.open, n.open, m.from = n.from PROVE m = n
        <4>1. CASE m \in wire /\ n \in wire BY <3>2, <4>1 DEF OpenInv
        <4>2. CASE ~(m \in wire /\ n \in wire) BY <2>1, <2>6, <2>8, <3>2, <4>2
        <4> QED BY <4>1, <4>2
      <3> QED BY <3>1, <3>2 DEF OpenInv
    <2>10. StartInv'
      <3>1. \A d \in Clients : MayStart(d)' => MayStart(d) /\ d # c BY <2>3 DEF MayStart
      <3>2. CASE client[c].req # "start"
        <4>1. \A n \in wire' : n.req = "start" => n \in wire BY <2>1, <2>6, <3>2
        <4> QED BY <1>1, <3>1, <4>1, StartSame
      <3>3. CASE client[c].req = "start"
        <4>1. MayStart(c) BY <1>1, <3>3 DEF MayStart
        <4>2. StartsOf(c) = {} /\ FlowsOf(c) = {} BY <4>1 DEF StartInv
        <4>3. StartsOf(c)' \subseteq {x} BY <2>1, <2>6, <4>2 DEF StartsOf
        <4>4. \A d \in Clients : d # c => StartsOf(d)' = StartsOf(d) BY <2>1, <2>6 DEF StartsOf
        <4>5. \A d \in Clients : FlowsOf(d)' = FlowsOf(d) BY <1>1 DEF FlowsOf
        <4> QED BY <3>1, <4>2, <4>3, <4>4, <4>5 DEF StartInv
      <3> QED BY <3>2, <3>3
    <2>11. ServiceInv' BY <1>1, ServiceSame
    <2> QED BY <2>7, <2>9, <2>10, <2>11
  <1> QED BY <1>2, <1>3

LEMMA TimesOutPreserves == ASSUME Inv, NEW c \in Clients, TimesOut(c) PROVE Inv'
  <1> USE DEF Inv
  <1>1. /\ client' \in [Clients -> Client] /\ \A d \in Clients \ {c} : client'[d] = client[d]
        /\ client'[c].pc = Failed(c)
    BY FailedIs, AtIs DEF TimesOut
  <1>2. ~MayStart(c)' BY <1>1, FailedIs DEF MayStart
  <1>3. wire' = {m \in wire : m.from # c \/ ~m.open} \cup Abandoned(OpenOf(c)) BY DEF TimesOut, Leave
  <1>4. late' \in 0..MaxLate BY ServiceBounds DEF TimesOut, Leave, TypeOK
  <1>5. UNCHANGED <<daemon, polls, flow>> BY DEF TimesOut
  <1>6. ServiceInv' BY <1>5, ServiceSame
  <1> QED BY <1>1, <1>2, <1>3, <1>4, <1>5, <1>6, LeavePreserves DEF TypeOK

LEMMA ProbeFailsPreserves == ASSUME Inv, NEW c \in Clients, ProbeFails(c) PROVE Inv'
  <1> USE DEF Inv
  <1> DEFINE place == IF client[c].pc = "ensure" THEN "spawning" ELSE Failed(c)
             x == [from |-> c, req |-> "health", flow |-> None, to |-> Listening, open |-> FALSE,
                   status |-> "none"]
  <1>1. client[c].pc \in {"ensure", "sleeping"} /\ At(c, place) /\ UNCHANGED <<daemon, polls, flow>>
    BY DEF ProbeFails
  <1>2. place \in {"spawning", "attached", "error"} /\ place \in Places BY FailedIs DEF Places, Ends
  <1>3. UNCHANGED <<wire, late>> \/ (late < MaxLate /\ late' = late + 1 /\ wire' = wire \cup {x} /\ PortInUse)
    BY DEF ProbeFails, PortInUse, Holders
  <1>4. PortInUse => x \in Connection
    BY ListeningIs DEF Connection, Statuses, Requests
  <1>5. ~x.open /\ x.req # "start" OBVIOUS
  <1> HIDE DEF place, x
  <1>6. /\ client' \in [Clients -> Client] /\ \A d \in Clients \ {c} : client'[d] = client[d]
        /\ client'[c].pc = place
        /\ client'[c].req = IF place \in Ends THEN "health" ELSE client[c].req
    BY <1>1, <1>2, AtIs
  <1>7. MayStart(c)' => MayStart(c) BY <1>1, <1>2, <1>6 DEF MayStart, Ends
  <1>8. late' \in 0..MaxLate BY <1>3, ServiceBounds DEF TypeOK
  <1>9. wire' \subseteq Connection /\ \A n \in wire' : n \in wire \/ (~n.open /\ n.req # "start")
    BY <1>3, <1>4, <1>5 DEF TypeOK
  <1> QED BY <1>1, <1>6, <1>7, <1>8, <1>9, ClientMoves

\* The other steps of a client, which change its place alone.
LEMMA PlacePreserves ==
  ASSUME Inv, NEW c \in Clients, NEW place \in Places, At(c, place), client[c].pc # "asking",
         place \in {"sleeping", "connect"} => client[c].pc \in {"ensure", "spawning", "sleeping"},
         place \notin {"idle", "ensure", "spawning"}, UNCHANGED <<daemon, polls, wire, flow, late>>
  PROVE  Inv'
  <1> USE DEF Inv
  <1>1. /\ client' \in [Clients -> Client] /\ \A d \in Clients \ {c} : client'[d] = client[d]
        /\ client'[c].pc = place
        /\ client'[c].req = IF place \in Ends THEN "health" ELSE client[c].req
    BY AtIs
  <1>2. MayStart(c)' => MayStart(c) BY <1>1 DEF MayStart, Ends
  <1> QED BY <1>1, <1>2, ClientMoves DEF TypeOK

LEMMA SpawnPreserves == ASSUME Inv, NEW c \in Clients, Spawn(c) PROVE Inv'
  <1> USE DEF Inv
  <1>1. /\ client[c].pc = "spawning" /\ (Born \/ UNCHANGED daemon) /\ At(c, "sleeping")
        /\ UNCHANGED <<polls, wire, flow, late>>
    BY DEF Spawn
  <1>2. "sleeping" \in Places BY DEF Places
  <1>3. /\ client' \in [Clients -> Client] /\ \A d \in Clients \ {c} : client'[d] = client[d]
        /\ client'[c].pc = "sleeping" /\ client'[c].req = client[c].req
    BY <1>1, <1>2, AtIs DEF Ends
  <1>4. daemon' = daemon \/ \E d \in Daemons : daemon[d] = "unborn" /\ daemon' = [daemon EXCEPT ![d] = "starting"]
    BY <1>1 DEF Born
  <1>5. TypeOK' BY <1>1, <1>3, <1>4 DEF TypeOK
  <1>6. ServiceInv' BY <1>1, <1>4 DEF ServiceInv, TypeOK
  <1>7. \A x \in wire : x.open => x.from \in Clients \ {c} BY <1>1 DEF OpenInv, TypeOK, Connection
  <1>8. OpenInv' BY <1>1, <1>3, <1>7, OpenKept
  <1>9. \A d \in Clients : MayStart(d)' => MayStart(d) BY <1>1, <1>3 DEF MayStart
  <1>10. StartInv' BY <1>1, <1>9, StartSame
  <1> QED BY <1>5, <1>6, <1>8, <1>10

LEMMA ClientStepPreserves == ASSUME Inv, NEW c \in Clients, ClientStep(c) PROVE Inv'
  <1>1. CASE Probe(c)
    <2>1. "connect" \in Places BY DEF Places
    <2> QED BY <1>1, <2>1, PlacePreserves DEF Probe
  <1>2. CASE ProbeFails(c) BY <1>2, ProbeFailsPreserves
  <1>3. CASE Spawn(c) BY <1>3, SpawnPreserves
  <1>4. CASE SpawnFails(c) BY <1>4, FailedIs, PlacePreserves DEF SpawnFails
  <1>5. CASE HttpGet(c) \/ HttpPost(c) \/ HttpDelete(c) \/ CiHttpPost(c)
    BY <1>5, SendPreserves DEF HttpGet, HttpPost, HttpDelete, CiHttpPost
  <1>6. CASE TimesOut(c) BY <1>6, TimesOutPreserves
  <1>7. CASE OpenLog(c)
    <2>1. "error" \in Places /\ "attached" \in Places BY DEF Places, Ends
    <2>2. CASE flow[client[c].flow].state = "forked"
      <3>1. At(c, "error") BY <1>7, <2>2 DEF OpenLog
      <3> QED BY <1>7, <2>1, <3>1, PlacePreserves DEF OpenLog
    <2>3. CASE flow[client[c].flow].state # "forked"
      <3>1. At(c, "attached") BY <1>7, <2>3 DEF OpenLog
      <3> QED BY <1>7, <2>1, <3>1, PlacePreserves DEF OpenLog
    <2> QED BY <2>2, <2>3
  <1> QED BY <1>1, <1>2, <1>3, <1>4, <1>5, <1>6, <1>7 DEF ClientStep

LEMMA AttachedPreserves == ASSUME Inv, NEW c \in Clients, TypeLine(c) \/ Detach(c) PROVE Inv'
  <1>1. CASE Detach(c)
    <2>1. "ok" \in Places BY DEF Places, Ends
    <2> QED BY <1>1, <2>1, PlacePreserves DEF Detach
  <1>2. CASE TypeLine(c)
    <2>1. client \in [Clients -> Client] /\ client[c] \in Client BY DEF Inv, TypeOK
    <2>2. client' = [client EXCEPT ![c] = [client[c] EXCEPT !.pc = "ensure", !.req = "input",
                                                         !.lines = client[c].lines + 1]]
      BY <1>2, <2>1 DEF TypeLine
    <2>a. client[c].lines + 1 \in Nat /\ "input" \in Requests BY <2>1 DEF Client, Requests
    <2>3. /\ [client[c] EXCEPT !.pc = "ensure", !.req = "input", !.lines = client[c].lines + 1] \in Client
          /\ [client[c] EXCEPT !.pc = "ensure", !.req = "input", !.lines = client[c].lines + 1].pc = "ensure"
          /\ [client[c] EXCEPT !.pc = "ensure", !.req = "input", !.lines = client[c].lines + 1].req = "input"
      <3> DEFINE k == client[c].lines + 1
      <3> HIDE DEF k
      <3>1. k \in Nat BY <2>a DEF k
      <3> QED BY <2>1, <2>a, <3>1 DEF Client
    <2>4. /\ client' \in [Clients -> Client] /\ \A d \in Clients \ {c} : client'[d] = client[d]
          /\ client'[c].pc = "ensure" /\ client'[c].req = "input"
      BY <2>1, <2>2, <2>3
    <2>5. ~MayStart(c)' BY <2>4 DEF MayStart
    <2>6. client[c].pc # "asking" /\ UNCHANGED <<daemon, polls, wire, flow, late>> BY <1>2 DEF TypeLine
    <2> QED BY <2>4, <2>5, <2>6, ClientMoves DEF Inv, TypeOK
  <1> QED BY <1>1, <1>2
----------------------------------------------------------------------------

LEMMA InitInv == ASSUME Init PROVE Inv
  <1>1. client \in [Clients -> Client]
    <2>1. "idle" \in Places BY DEF Places
    <2> QED BY <2>1, InactiveIs DEF Init
  <1>2. TypeOK
    <2>1. daemon \in [Daemons -> {"unborn", "starting", "found", "polling", "binding",
                                  "serving", "dying", "dead"}]
      BY DEF Init
    <2>2. polls \in [Daemons -> 0..MaxPolls] BY ServiceBounds DEF Init
    <2>3. flow \in [Flows -> Flow] BY DEF Init, Flow
    <2>4. late \in 0..MaxLate BY ServiceBounds DEF Init
    <2>5. wire \subseteq Connection BY DEF Init
    <2> QED BY <1>1, <2>1, <2>2, <2>3, <2>4, <2>5 DEF TypeOK
  <1>3. OpenInv BY DEF Init, OpenInv
  <1>4. StartInv
    <2>1. wire = {} /\ \A w \in Flows : flow[w].for = None BY DEF Init
    <2>2. \A c \in Clients : StartsOf(c) = {} BY <2>1 DEF StartsOf
    <2>3. \A c \in Clients : FlowsOf(c) = {} BY <2>1, ServiceNames DEF FlowsOf
    <2> QED BY <2>2, <2>3 DEF StartInv
  <1>5. ServiceInv BY DEF Init, ServiceInv
  <1> QED BY <1>2, <1>3, <1>4, <1>5 DEF Inv

LEMMA NextInv == ASSUME Inv, [Next]_vars PROVE Inv'
  <1>1. CASE UNCHANGED vars
    BY <1>1 DEF vars, Inv, TypeOK, OpenInv, StartInv, ServiceInv, MayStart, StartsOf, FlowsOf
  <1>2. CASE RunDaemon BY <1>2, BornPreserves
  <1>3. ASSUME NEW d \in Daemons, DaemonStep(d) PROVE Inv'
    BY <1>3, DaemonStepPreserves, KillPreserves
  <1>4. ASSUME NEW m \in wire,
               Handle(m) \/ InputSigpipe(m) \/ QuerySigpipe(m) \/ Reply(m) \/ ReplyToNobody(m)
        PROVE  Inv'
    BY <1>4, HandlePreserves, ReplyPreserves, SigpipePreserves
  <1>5. ASSUME NEW w \in Flows, ScriptLogs(w) \/ ScriptEnds(w) \/ Complete(w) PROVE Inv'
    BY <1>5, ScriptPreserves
  <1>6. ASSUME NEW c \in Clients, Invoke(c) \/ ClientStep(c) \/ TypeLine(c) \/ Detach(c) PROVE Inv'
    BY <1>6, InvokePreserves, ClientStepPreserves, AttachedPreserves
  <1> QED BY <1>1, <1>2, <1>3, <1>4, <1>5, <1>6 DEF Next

\* The inductive invariant holds in every state.
THEOREM InvHolds == Spec => []Inv
  BY InitInv, NextInv, PTL DEF Spec

\* The variables keep their types, however many processes share the port.
THEOREM TypeCorrect == Spec => []TypeOK
  <1>1. Inv => TypeOK BY DEF Inv
  <1> QED BY <1>1, InvHolds, PTL

\* A start command forks at most one script, whatever fails on the way and
\* whoever replaces the daemon: arc_http_post sends its request once.
THEOREM AtMostOneStart == Spec => []StartedOnce
  <1>1. ASSUME Inv PROVE StartedOnce
    <2> SUFFICES ASSUME NEW c \in Clients PROVE Cardinality(FlowsOf(c)) <= 1
      BY DEF StartedOnce, FlowsOf
    <2>1. CASE FlowsOf(c) = {} BY <2>1, FS_EmptySet
    <2>2. CASE FlowsOf(c) # {}
      <3>1. PICK w : w \in FlowsOf(c) BY <2>2
      <3>2. FlowsOf(c) = {w} BY <1>1, <3>1 DEF Inv, StartInv
      <3> QED BY <3>2, FS_Singleton
    <2> QED BY <2>1, <2>2
  <1> QED BY <1>1, InvHolds, PTL

\* Steps that leave the daemons alone cannot end the service, nor can one that
\* puts a process where it is neither unborn nor dead.
LEMMA KeepsWorking ==
  ASSUME Inv, [Next]_vars, Working, ~Working'
  PROVE  Orphaned \/ Perishes
  <1> USE DEF Inv
  <1>1. daemon \in [Daemons -> {"unborn", "starting", "found", "polling", "binding",
                                "serving", "dying", "dead"}]
    BY DEF TypeOK
  <1>2. daemon' # daemon BY DEF Working
  <1>3. ASSUME NEW d \in Daemons, NEW s, s \notin {"unborn", "dead"}, daemon' = [daemon EXCEPT ![d] = s]
        PROVE  FALSE
    BY <1>1, <1>3 DEF Working
  <1>4. ~Born BY <1>3 DEF Born
  <1>5. ASSUME NEW d \in Daemons, DaemonStep(d), ~StartFails(d) PROVE Orphaned
    <2>1. CASE FindPort(d) \/ Poll(d) \/ Serve(d) BY <1>2, <1>3, <2>1 DEF FindPort, Poll, Serve
    <2>2. CASE KillExisting(d)
      <3>1. ASSUME NEW e, KillDaemon(d, e) PROVE FALSE
        <4>1. e \in Daemons /\ daemon' = [daemon EXCEPT ![d] = "polling", ![e] = "dying"]
          BY <3>1 DEF KillDaemon
        <4>2. daemon'[e] = "dying" BY <1>1, <4>1
        <4> QED BY <4>1, <4>2 DEF Working
      <3>2. ASSUME NEW e, KillClient(d, e) \/ KillScript(d, e) PROVE FALSE
        BY <1>3, <3>2 DEF KillClient, KillScript
      <3>3. CASE KillNobody(d) BY <1>3, <3>3 DEF KillNobody
      <3> QED BY <2>2, <3>1, <3>2, <3>3 DEF KillExisting
    <2>3. CASE BindFails(d)
      <3>1. daemon[d] = "binding" /\ PortInUse /\ daemon' = [daemon EXCEPT ![d] = "dead"]
        BY <2>3 DEF BindFails, Bindable, Destroy
      <3>2. PICK e \in Daemons : Holders(e) # {} BY <3>1 DEF PortInUse
      <3>3. daemon[e] \notin {"serving", "dying"}
        <4> SUFFICES ASSUME daemon[e] \in {"serving", "dying"} PROVE FALSE OBVIOUS
        <4>1. daemon'[e] = daemon[e] BY <1>1, <3>1
        <4> QED BY <4>1 DEF Working
      <3>4. PICK w \in Flows : Alive(w) /\ flow[w].by = e BY <3>2, <3>3 DEF Holders
      <3>5. flow[w].state # "none" BY <3>4 DEF Alive
      <3>6. daemon[e] = "dead" BY <3>3, <3>4, <3>5 DEF ServiceInv
      <3> QED BY <3>4, <3>6 DEF Orphaned
    <2>4. CASE Dies(d)
      <3>1. daemon[d] = "dying" /\ daemon' = [daemon EXCEPT ![d] = "dead"] BY <2>4 DEF Dies
      <3>2. PICK e \in Daemons : daemon[e] = "polling" BY <3>1 DEF ServiceInv
      <3>3. daemon'[e] = "polling" BY <1>1, <3>1, <3>2
      <3> QED BY <3>3 DEF Working
    <2> QED BY <1>5, <2>1, <2>2, <2>3, <2>4 DEF DaemonStep
  <1>6. ~RunDaemon BY <1>4 DEF RunDaemon
  <1>7. ASSUME NEW m \in wire PROVE ~Handle(m) /\ ~Reply(m) BY <1>2 DEF Handle, Reply
  <1>8. ASSUME NEW w \in Flows PROVE ~(ScriptLogs(w) \/ ScriptEnds(w) \/ Complete(w))
    BY <1>2 DEF ScriptLogs, ScriptEnds, Complete
  <1>9. ASSUME NEW c \in Clients PROVE ~(Invoke(c) \/ TypeLine(c) \/ Detach(c))
    <2>1. ASSUME NEW k, NEW place PROVE ~EndsEarly(c, k, place) BY <1>2 DEF EndsEarly
    <2>2. ASSUME NEW k, NEW r, NEW W PROVE ~Begins(c, k, r, W) BY <1>2 DEF Begins
    <2>3. ~Invoke(c)
      BY <2>1, <2>2 DEF Invoke, ArcStart, ArcAttach, ArcStatus, ArcList, ArcStates, ArcAbandon,
                        ArcPause, ArcResume, CiQuery
    <2>4. ~TypeLine(c) /\ ~Detach(c) BY <1>2 DEF TypeLine, Detach
    <2> QED BY <2>3, <2>4
  <1>10. ASSUME NEW c \in Clients PROVE ~ClientStep(c)
    <2>1. ~Spawn(c) BY <1>2, <1>4 DEF Spawn
    <2>2. ~Probe(c) /\ ~ProbeFails(c) /\ ~SpawnFails(c) /\ ~TimesOut(c) /\ ~OpenLog(c)
      BY <1>2 DEF Probe, ProbeFails, SpawnFails, TimesOut, OpenLog
    <2>3. ~HttpGet(c) /\ ~HttpPost(c) /\ ~HttpDelete(c) /\ ~CiHttpPost(c)
      BY <1>2 DEF HttpGet, HttpPost, HttpDelete, CiHttpPost, Send
    <2> QED BY <2>1, <2>2, <2>3 DEF ClientStep
  <1>11. ~UNCHANGED vars BY <1>2 DEF vars
  <1> QED BY <1>5, <1>6, <1>7, <1>8, <1>9, <1>10, <1>11 DEF Next, Perishes

\* Taking over the port does not lose the service: unless SIGPIPE ends the last
\* daemon, its start fails for want of a resource or a script of a dead daemon
\* keeps the port, the daemon that kill_existing_daemon makes room for is there
\* when the old one is gone.
THEOREM ServiceSurvives == Spec => ServiceKept
  <1>1. Inv /\ [Next]_vars => [Working /\ ~Working' => Orphaned \/ Perishes]_vars
    BY KeepsWorking
  <1> QED BY <1>1, InvHolds, PTL DEF Spec, ServiceKept
============================================================================
