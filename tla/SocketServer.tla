---------------------------- MODULE SocketServer ----------------------------
(***************************************************************************)
(* The message socket of a CI (argo_socket.c): a table of pollfds, an      *)
(* event loop that accepts, reads, routes and closes, and a table of       *)
(* requests that wait for a callback.  The program that embeds the library *)
(* calls socket_server_run again and again, from one thread; clients       *)
(* connect, send and hang up at any time, also between poll and the moment *)
(* the loop reaches them.                                                  *)
(*                                                                         *)
(* cleanup_client moves the slots behind the closed one down while the     *)
(* loop is running, so the loop passes over the slot that moved to the     *)
(* index it has just handled.  A slot beyond nfds keeps the revents of the *)
(* client that was there, and accept_client does not clear them.           *)
(*                                                                         *)
(* The stream has no message boundaries: one recv takes everything that    *)
(* has arrived, and of several messages the last one's fields are kept.    *)
(* A message is the CI it is for; one outside CIs cannot be parsed, or     *)
(* names a CI that is not registered.                                      *)
(* A client stands for its connection and for the file descriptor that     *)
(* accept returns for it.  Statistics are left out.                        *)
(***************************************************************************)
EXTENDS Naturals, Sequences, FiniteSets

CONSTANTS
  Clients,      \* connections
  CIs,          \* names in the registry
  Messages,     \* what clients send
  None,         \* no descriptor
  Listener,     \* listen_fd
  MaxFds,       \* REGISTRY_MAX_CIS, the length of pollfds
  MaxRequests,  \* MAX_PENDING_REQUESTS
  MaxSent,      \* bound: requests tracked between socket_server_init and cleanup
  MaxBusy,      \* bound: number of connections times id of the next request
  MaxInbox      \* bound: messages of each client that wait to be read

ASSUME SocketBounds ==
  /\ MaxFds \in Nat \ {0} /\ MaxRequests \in Nat /\ MaxSent \in Nat /\ MaxInbox \in [Clients -> Nat]
  /\ MaxBusy \in Nat
ASSUME SocketNames == None \notin Clients /\ Listener \notin Clients \cup {None}

VARIABLES
  up,           \* g_socket_ctx is allocated
  pollfds, nfds,
  requests,     \* pending requests, oldest first: [id, expired]
  next_request_id,
  answered,     \* history: requests whose callback was called, with repetitions
  socket_fd,    \* registry: the descriptor of each CI, None for -1
  peer,         \* what each client has done: "away", "backlog", "open" or "hungup"
  backlog,      \* connections that wait to be accepted, oldest first
  inbox,        \* messages of each client that have arrived and are not read
  pc, i, ready  \* socket_server_run: where it is, its loop index, its count

table == <<pollfds, nfds>>
tracking == <<requests, next_request_id, answered>>
network == <<peer, backlog, inbox>>
loop == <<pc, i, ready>>
vars == <<up, table, tracking, socket_fd, network, loop>>

Slots == 0..(MaxFds - 1)
Slot == [fd : Clients \cup {Listener, None}, revents : SUBSET {"in", "hup"}]
EmptySlot == [fd |-> None, revents |-> {}]
Polled == {pollfds[k].fd : k \in 1..(nfds - 1)}        \* connections in the table

Init ==
  /\ up = FALSE /\ pollfds = [k \in Slots |-> EmptySlot] /\ nfds = 0
  /\ requests = <<>> /\ next_request_id = 1 /\ answered = <<>>
  /\ socket_fd = [ci \in CIs |-> None]
  /\ peer = [c \in Clients |-> "away"] /\ inbox = [c \in Clients |-> <<>>] /\ backlog = <<>>
  /\ pc = "idle" /\ i = 0 /\ ready = 0

Connections == Cardinality({c \in Clients : peer[c] # "away"})
MayTrack == next_request_id <= MaxSent /\ Connections * (next_request_id + 1) <= MaxBusy
-----------------------------------------------------------------------------
(* The clients, and the embedding program. *)

Connect(c) ==
  /\ up /\ peer[c] = "away" /\ c \notin Polled
  /\ (Connections + 1) * next_request_id <= MaxBusy
  /\ peer' = [peer EXCEPT ![c] = "backlog"] /\ backlog' = Append(backlog, c)
  /\ UNCHANGED <<up, table, tracking, socket_fd, inbox, loop>>

Send(c, m) ==
  /\ peer[c] \in {"backlog", "open"} /\ Len(inbox[c]) < MaxInbox[c]
  /\ inbox' = [inbox EXCEPT ![c] = Append(@, m)]
  /\ UNCHANGED <<up, table, tracking, socket_fd, peer, backlog, loop>>

HangUp(c) ==
  /\ peer[c] = "open"
  /\ peer' = [peer EXCEPT ![c] = "hungup"]
  /\ UNCHANGED <<up, table, tracking, socket_fd, backlog, inbox, loop>>

\* the embedding program enters an accepted connection in the registry
Attach(ci, c) ==
  /\ up /\ pc = "idle" /\ c \in Polled /\ socket_fd[ci] = None
  /\ socket_fd' = [socket_fd EXCEPT ![ci] = c]
  /\ UNCHANGED <<up, table, tracking, network, loop>>
-----------------------------------------------------------------------------
(* socket_server_init and socket_server_cleanup. *)

\* when socket, bind or listen fails everything is undone and nothing changes
ServerInit ==
  /\ ~up
  /\ up' = TRUE
  /\ pollfds' = [k \in Slots |-> IF k = 0 THEN [fd |-> Listener, revents |-> {}] ELSE EmptySlot]
  /\ nfds' = 1
  /\ next_request_id' = 1 /\ answered' = <<>>
  /\ UNCHANGED <<requests, socket_fd, network, loop>>

\* the pending requests are freed with the context, without a call of their callbacks;
\* the registry keeps the descriptors
ServerCleanup ==
  /\ up /\ pc = "idle"
  /\ up' = FALSE /\ nfds' = 0
  /\ pollfds' = [k \in Slots |-> EmptySlot]
  /\ requests' = <<>>
  /\ peer' = [c \in Clients |-> "away"] /\ inbox' = [c \in Clients |-> <<>>]
  /\ backlog' = <<>>
  /\ UNCHANGED <<next_request_id, answered, socket_fd, loop>>
-----------------------------------------------------------------------------
(* socket_send_message and the requests. *)

\* send() to the descriptor of a CI works while its peer is there
Reachable(ci) == socket_fd[ci] # None /\ socket_fd[ci] \in Polled /\ peer[socket_fd[ci]] = "open"
CanSendUnchecked(ci) == Reachable(ci)           \* mutant: MAX_PENDING_REQUESTS not checked
CanSend(ci) == Len(requests) < MaxRequests /\ Reachable(ci)

Track == /\ requests' = Append(requests, [id |-> next_request_id, expired |-> FALSE])
         /\ next_request_id' = next_request_id + 1

SendRequest(ci) ==
  /\ up /\ pc = "idle" /\ MayTrack
  /\ CanSend(ci)
  /\ Track
  /\ UNCHANGED <<up, table, answered, socket_fd, network, loop>>

\* DEFAULT_REQUEST_TIMEOUT passes; the oldest request expires first
RequestExpires ==
  /\ \E k \in DOMAIN requests :
       /\ ~requests[k].expired /\ \A j \in 1..(k - 1) : requests[j].expired
       /\ requests' = [requests EXCEPT ![k].expired = TRUE]
  /\ UNCHANGED <<up, table, next_request_id, answered, socket_fd, network, loop>>

WithoutKept(s, k) == s                         \* mutant: memmove forgotten
Without(s, k) == SubSeq(s, 1, k - 1) \o SubSeq(s, k + 1, Len(s))

UnexaminedShort == i + 1 < Len(requests)       \* mutant: the last request is left out
Unexamined == i < Len(requests)

\* The body of check_request_timeouts for the request at index i: the callback, which
\* may send another request while the expired one still takes up its place, and the
\* removal.  The clock was read before the loop.
Expire ==
  /\ pc = "timeouts" /\ Unexamined /\ requests[i + 1].expired
  /\ answered' = Append(answered, requests[i + 1].id)
  /\ \/ /\ requests' = Without(requests, i + 1)
        /\ UNCHANGED next_request_id
     \/ /\ MayTrack /\ \E ci \in CIs : CanSend(ci)
        /\ requests' = Append(Without(requests, i + 1), [id |-> next_request_id, expired |-> FALSE])
        /\ next_request_id' = next_request_id + 1
  /\ UNCHANGED <<up, table, socket_fd, network, loop>>

NotExpired ==
  /\ pc = "timeouts" /\ Unexamined /\ ~requests[i + 1].expired
  /\ i' = i + 1
  /\ UNCHANGED <<up, table, tracking, socket_fd, network, pc, ready>>

TimeoutsChecked ==
  /\ pc = "timeouts" /\ ~Unexamined
  /\ pc' = "idle" /\ i' = 0
  /\ UNCHANGED <<up, table, tracking, socket_fd, network, ready>>
-----------------------------------------------------------------------------
(* socket_server_run. *)

Revents(fd) ==
  IF fd = Listener THEN IF backlog # <<>> THEN {"in"} ELSE {}
  ELSE (IF inbox[fd] # <<>> \/ peer[fd] = "hungup" THEN {"in"} ELSE {})
         \cup (IF peer[fd] = "hungup" THEN {"hup"} ELSE {})
ReadySlots == {k \in 0..(nfds - 1) : Revents(pollfds[k].fd) # {}}

\* a poll that a signal interrupts, or that fails, changes nothing
Poll ==
  /\ up /\ pc = "idle" /\ ReadySlots # {}
  /\ pollfds' = [k \in Slots |-> IF k < nfds THEN [pollfds[k] EXCEPT !.revents = Revents(pollfds[k].fd)]
                                             ELSE pollfds[k]]
  /\ ready' = Cardinality(ReadySlots)
  /\ pc' = "loop" /\ i' = 0
  /\ UNCHANGED <<up, nfds, tracking, socket_fd, network>>

\* timeouts are looked at only when no socket is ready
PollTimesOut ==
  /\ up /\ pc = "idle" /\ ReadySlots = {}
  /\ pc' = "timeouts" /\ i' = 0
  /\ UNCHANGED <<up, table, tracking, socket_fd, network, ready>>

\* the slot the loop handles next
Pending == {k \in i..(nfds - 1) : pollfds[k].revents # {}}
Current == CHOOSE k \in Pending : \A j \in Pending : k <= j
Looping == pc = "loop" /\ ready > 0 /\ Pending # {}
Fd == pollfds[Current].fd
HasError == "hup" \in pollfds[Current].revents

\* the revents of slots in use are not read again before poll sets them
LoopEnds ==
  /\ pc = "loop" /\ (ready = 0 \/ Pending = {})
  /\ pc' = "idle" /\ i' = 0 /\ ready' = 0
  /\ pollfds' = [k \in Slots |-> IF k < nfds THEN [pollfds[k] EXCEPT !.revents = {}] ELSE pollfds[k]]
  /\ UNCHANGED <<up, nfds, tracking, socket_fd, network>>

Advance == i' = Current + 1 /\ ready' = ready - 1 /\ UNCHANGED pc

\* cleanup_client: close and shift.  The slot behind the last one keeps its contents; of
\* these only revents are ever read again, because accept_client sets fd.
ShiftedTooFew(k) ==                            \* mutant: one slot less moved
  [j \in Slots |-> IF j \in k..(nfds - 3) THEN pollfds[j + 1] ELSE pollfds[j]]
Shifted(k) ==
  [j \in Slots |-> IF j \in k..(nfds - 2) THEN pollfds[j + 1]
                   ELSE IF j = nfds - 1 THEN [pollfds[j] EXCEPT !.fd = None]
                   ELSE pollfds[j]]

CleanupClient(k) ==
  /\ pollfds' = Shifted(k)
  /\ nfds' = nfds - 1
  /\ peer' = [peer EXCEPT ![pollfds[k].fd] = "away"]
  /\ inbox' = [inbox EXCEPT ![pollfds[k].fd] = <<>>]

Disconnected ==
  /\ Looping /\ Current # 0 /\ HasError
  /\ CleanupClient(Current)
  /\ Advance
  /\ UNCHANGED <<up, tracking, socket_fd, backlog>>

AcceptUncounted ==                             \* mutant: nfds not incremented
  /\ Looping /\ Current = 0
  /\ pollfds' = [pollfds EXCEPT ![nfds % MaxFds].fd = Head(backlog)]
  /\ peer' = [peer EXCEPT ![Head(backlog)] = "open"]
  /\ backlog' = Tail(backlog)
  /\ Advance
  /\ UNCHANGED <<up, nfds, inbox, tracking, socket_fd>>

\* accept_client: the connection goes behind the last slot, or is closed because there is
\* no room or because it cannot be made non-blocking
AcceptClient ==
  /\ Looping /\ Current = 0
  /\ \/ /\ nfds < MaxFds
        /\ pollfds' = [pollfds EXCEPT ![nfds].fd = Head(backlog)]
        /\ nfds' = nfds + 1
        /\ peer' = [peer EXCEPT ![Head(backlog)] = "open"]
        /\ UNCHANGED inbox
     \/ /\ peer' = [peer EXCEPT ![Head(backlog)] = "away"]
        /\ inbox' = [inbox EXCEPT ![Head(backlog)] = <<>>]
        /\ UNCHANGED table
  /\ backlog' = Tail(backlog)
  /\ Advance
  /\ UNCHANGED <<up, tracking, socket_fd>>

\* accept() itself fails: the client waits in the backlog for the next poll
AcceptFails ==
  /\ Looping /\ Current = 0
  /\ Advance
  /\ UNCHANGED <<up, table, tracking, socket_fd, network>>

\* handle_client_data: recv would block (the revents were another client's), or what has
\* arrived is parsed as one message and routed with registry_send_message
Received(c) == inbox[c][Len(inbox[c])]
Routed(m) == m \in CIs /\ CanSend(m)

ReadNothing ==
  /\ Looping /\ Current # 0 /\ ~HasError /\ inbox[Fd] = <<>> /\ peer[Fd] = "open"
  /\ Advance
  /\ UNCHANGED <<up, table, tracking, socket_fd, network>>

RouteMessage ==
  /\ Looping /\ Current # 0 /\ ~HasError /\ inbox[Fd] # <<>>
  /\ Routed(Received(Fd))
  /\ inbox' = [inbox EXCEPT ![Fd] = <<>>]
  /\ Advance
  /\ UNCHANGED <<up, table, tracking, socket_fd, peer, backlog>>

\* End of file, a message that cannot be parsed, one that cannot be delivered, and one for a
\* CI whose status, which this module does not keep, is neither READY nor BUSY.
ReadFails ==
  /\ Looping /\ Current # 0 /\ ~HasError
  /\ inbox[Fd] # <<>> \/ peer[Fd] = "hungup"
  /\ CleanupClient(Current)
  /\ Advance
  /\ UNCHANGED <<up, tracking, socket_fd, backlog>>

Run == \/ Poll \/ PollTimesOut \/ LoopEnds \/ Disconnected \/ AcceptClient \/ AcceptFails
       \/ ReadNothing \/ RouteMessage \/ ReadFails \/ Expire \/ NotExpired \/ TimeoutsChecked

Next ==
  \/ Run \/ ServerInit \/ ServerCleanup \/ RequestExpires
  \/ \E c \in Clients : \/ Connect(c) \/ HangUp(c)
                        \/ \E m \in Messages : Send(c, m)
                        \/ \E ci \in CIs : Attach(ci, c)
  \/ \E ci \in CIs : SendRequest(ci)

\* The embedding program keeps calling socket_server_run, accept() does not fail for ever,
\* and time passes.
Fairness == WF_vars(Run) /\ SF_vars(AcceptClient) /\ WF_vars(RequestExpires)
Spec == Init /\ [][Next]_vars /\ Fairness
-----------------------------------------------------------------------------
Request == [id : 1..MaxSent, expired : BOOLEAN]

\* Type invariant: the table of pollfds and the request table stay within their lengths.
TypeOK ==
  /\ up \in BOOLEAN
  /\ pollfds \in [Slots -> Slot] /\ nfds \in 0..MaxFds
  /\ requests \in Seq(Request) /\ Len(requests) <= MaxRequests
  /\ next_request_id \in 1..(MaxSent + 1) /\ answered \in Seq(1..MaxSent)
  /\ socket_fd \in [CIs -> Clients \cup {None}]
  /\ peer \in [Clients -> {"away", "backlog", "open", "hungup"}]
  /\ inbox \in [Clients -> Seq(Messages)] /\ backlog \in Seq(Clients)
  /\ pc \in {"idle", "loop", "timeouts"} /\ i \in 0..(MaxFds + MaxRequests) /\ ready \in 0..MaxFds

\* However clients come and go while the loop of socket_server_run is in the middle of the
\* table, every accepted connection has exactly one slot and every slot behind the
\* listener a connection that is still open: cleanup_client never leaks a descriptor and
\* never leaves a closed one to be polled.
TableAgrees ==
  up => /\ pollfds[0].fd = Listener
        /\ \A c \in Clients :
             Cardinality({k \in 1..(nfds - 1) : pollfds[k].fd = c})
               = IF peer[c] \in {"open", "hungup"} THEN 1 ELSE 0

Occurrences(n) == Cardinality({k \in DOMAIN requests : requests[k].id = n})
                    + Cardinality({k \in DOMAIN answered : answered[k] = n})

\* No request is lost or answered twice by the removal in the middle of the loop of
\* check_request_timeouts, also when the callback sends another request: each one since
\* socket_server_init is either still in the table or its callback was called, once.
RequestsOnce == up => \A n \in 1..(next_request_id - 1) : Occurrences(n) = 1

Waiting(c) == peer[c] \in {"backlog", "hungup"} \/ inbox[c] # <<>>

\* No client is forgotten: although cleanup_client makes the loop pass over a slot, and stale
\* revents use up its count, a connection is accepted or refused, what a client sent is read
\* or its connection closed, and a connection whose client hung up is closed.
ClientsServed == \A c \in Clients : Waiting(c) ~> ~Waiting(c)

\* A request is answered, or the server stopped, provided that poll times out again and
\* again: socket_server_run looks at the timeouts only when no socket is ready.
RequestsEnd ==
  ([]<>(pc = "timeouts")) =>
    \A n \in 1..MaxSent : (\E k \in DOMAIN requests : requests[k].id = n)
                             ~> (\A k \in DOMAIN requests : requests[k].id # n)
=============================================================================
