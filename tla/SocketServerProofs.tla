------------------------- MODULE SocketServerProofs -------------------------
(***************************************************************************)
(* For every number of clients and every size of the two tables: the       *)
(* bounds of pollfds and of the request table, the agreement of pollfds    *)
(* with the connections, and that no request is lost or answered twice.    *)
(*                                                                         *)
(* Counting is left to the very end: the invariants say which slot and     *)
(* which entry there is, and that there are not two of them.               *)
(***************************************************************************)
EXTENDS SocketServer, FiniteSetTheorems, TLAPS

\* The loop and the checking of timeouts only run in a server that is up; a
\* server that is down has no connections and no requests.
UpInv ==
  /\ up => nfds >= 1 /\ pollfds[0].fd = Listener
  /\ ~up => /\ nfds = 0 /\ pc = "idle" /\ requests = <<>> /\ backlog = <<>>
            /\ \A c \in Clients : peer[c] = "away"

\* A slot in use has a connection that is open, and no two have the same.
SlotsInv ==
  /\ \A k \in 1..(nfds - 1) : pollfds[k].fd \in Clients /\ peer[pollfds[k].fd] \in {"open", "hungup"}
  /\ \A j, k \in 1..(nfds - 1) : pollfds[j].fd = pollfds[k].fd => j = k
  /\ \A c \in Clients : peer[c] \in {"open", "hungup"} => \E k \in 1..(nfds - 1) : pollfds[k].fd = c

\* The backlog holds every connection once; poll's answer for the listener is
\* true until the loop has used it.
BacklogInv ==
  /\ \A k \in DOMAIN backlog : peer[backlog[k]] = "backlog"
  /\ \A j, k \in DOMAIN backlog : backlog[j] = backlog[k] => j = k
  /\ pc = "loop" /\ i = 0 /\ pollfds[0].revents # {} => backlog # <<>>

\* Of the ids below n, given out so far, each is in the table r or among the
\* answered ones a, in one place.
Once(r, a, n) ==
  /\ \A k \in DOMAIN r : r[k].id < n
  /\ \A j, k \in DOMAIN r : r[j].id = r[k].id => j = k
  /\ \A k \in DOMAIN a : a[k] < n
  /\ \A j, k \in DOMAIN a : a[j] = a[k] => j = k
  /\ \A j \in DOMAIN r, k \in DOMAIN a : r[j].id # a[k]
  /\ \A m \in 1..(n - 1) : (\E k \in DOMAIN r : r[k].id = m) \/ (\E k \in DOMAIN a : a[k] = m)

RequestsInv == Once(requests, answered, next_request_id)

Inv == TypeOK /\ UpInv /\ SlotsInv /\ BacklogInv /\ (up => RequestsInv)
-----------------------------------------------------------------------------
(* The operators. *)

\* A set of naturals that is not empty has a least element.
LEMMA LeastNatural ==
  ASSUME NEW S \in SUBSET Nat, S # {}
  PROVE  \E x \in S : \A y \in S : x <= y
  <1>1. PICK x \in S : \A y \in S : ~(<<y, x>> \in OpToRel(<, Nat))
    BY NatLessThanWellFounded, WFMin
  <1>2. \A y \in S : ~(y < x) BY <1>1 DEF OpToRel
  <1> QED BY <1>2

\* Taking out one element shifts the ones behind it down by one.
LEMMA WithoutIs ==
  ASSUME NEW S, NEW s \in Seq(S), NEW k \in 1..Len(s)
  PROVE  /\ Without(s, k) \in Seq(S) /\ Len(Without(s, k)) = Len(s) - 1
         /\ \A j \in 1..(Len(s) - 1) : Without(s, k)[j] = IF j < k THEN s[j] ELSE s[j + 1]
  <1> DEFINE before == SubSeq(s, 1, k - 1)
             after == SubSeq(s, k + 1, Len(s))
  <1>1. before \in Seq(S) /\ after \in Seq(S) OBVIOUS
  <1>2. Len(before) = k - 1 /\ Len(after) = Len(s) - k OBVIOUS
  <1>3. \A j \in 1..(k - 1) : before[j] = s[j] OBVIOUS
  <1>4. \A j \in 1..(Len(s) - k) : after[j] = s[j + k] OBVIOUS
  <1>5. Without(s, k) = before \o after BY DEF Without
  <1> HIDE DEF before, after
  <1>6. before \o after \in Seq(S) /\ Len(before \o after) = Len(s) - 1 BY <1>1, <1>2
  <1>7. ASSUME NEW j \in 1..(Len(s) - 1)
        PROVE  (before \o after)[j] = IF j < k THEN s[j] ELSE s[j + 1]
    <2>1. (before \o after)[j] = IF j <= Len(before) THEN before[j] ELSE after[j - Len(before)]
      BY <1>1, <1>2
    <2>2. CASE j < k BY <2>1, <2>2, <1>2, <1>3
    <2>3. CASE j >= k
      <3>1. j - (k - 1) \in 1..(Len(s) - k) /\ (j - (k - 1)) + k = j + 1 BY <2>3
      <3>2. after[j - (k - 1)] = s[(j - (k - 1)) + k] BY <3>1, <1>4
      <3> QED BY <2>1, <2>3, <1>2, <3>1, <3>2
    <2>4. j < k \/ j >= k OBVIOUS
    <2> QED BY <2>2, <2>3, <2>4
  <1> QED BY <1>5, <1>6, <1>7

\* Append adds one element behind the others.
LEMMA AppendIs ==
  ASSUME NEW S, NEW s \in Seq(S), NEW e \in S
  PROVE  /\ Append(s, e) \in Seq(S) /\ Append(s, e) # <<>> /\ Len(Append(s, e)) = Len(s) + 1
         /\ DOMAIN s \subseteq DOMAIN Append(s, e)
         /\ Len(s) + 1 \in DOMAIN Append(s, e) /\ Append(s, e)[Len(s) + 1] = e
         /\ \A k \in DOMAIN Append(s, e) : \/ k \in DOMAIN s /\ Append(s, e)[k] = s[k]
                                           \/ k = Len(s) + 1 /\ Append(s, e)[k] = e
  OBVIOUS

\* The slot that the loop handles next is one in use, at or behind its index.
LEMMA CurrentIs ==
  ASSUME TypeOK, Pending # {}
  PROVE  /\ Current \in i..(nfds - 1) /\ pollfds[Current].revents # {}
         /\ \A j \in Pending : Current <= j
  <1>1. Pending \in SUBSET Nat BY DEF Pending, TypeOK
  <1>2. \E k \in Pending : \A j \in Pending : k <= j BY <1>1, LeastNatural
  <1>3. Current \in Pending /\ \A j \in Pending : Current <= j BY <1>2 DEF Current
  <1> QED BY <1>3 DEF Pending
-----------------------------------------------------------------------------
(* The clients and the embedding program. *)

\* A step that leaves the requests alone keeps RequestsInv.
LEMMA RequestsKept ==
  ASSUME Inv, UNCHANGED tracking, up' => up
  PROVE  (up => RequestsInv)'
  BY DEF Inv, RequestsInv, tracking

LEMMA ConnectPreserves == ASSUME Inv, NEW c \in Clients, Connect(c) PROVE Inv'
  <1> USE DEF Inv, table, tracking, network, loop
  <1>1. TypeOK' BY DEF Connect, TypeOK
  <1>2. UpInv' BY DEF Connect, UpInv
  <1>3. SlotsInv' BY DEF Connect, SlotsInv, TypeOK
  <1>4. BacklogInv'
    <2>1. \A k \in DOMAIN backlog : backlog[k] \in Clients /\ backlog[k] # c
      BY DEF Connect, BacklogInv, TypeOK
    <2>2. backlog \in Seq(Clients) /\ backlog' = Append(backlog, c) BY DEF Connect, TypeOK
    <2>3. /\ backlog' # <<>>
          /\ \A k \in DOMAIN backlog' : \/ k \in DOMAIN backlog /\ backlog'[k] = backlog[k]
                                        \/ k = Len(backlog) + 1 /\ backlog'[k] = c
      BY <2>2, AppendIs
    <2>4. peer' = [peer EXCEPT ![c] = "backlog"] /\ UNCHANGED <<pollfds, pc, i>> BY DEF Connect
    <2>5. peer \in [Clients -> {"away", "backlog", "open", "hungup"}] BY DEF TypeOK
    <2>6. \A k \in DOMAIN backlog' : peer'[backlog'[k]] = "backlog"
      BY <2>1, <2>4, <2>3, <2>5 DEF BacklogInv
    <2>7. \A j, k \in DOMAIN backlog' : backlog'[j] = backlog'[k] => j = k
      BY <2>1, <2>3 DEF BacklogInv
    <2> QED BY <2>3, <2>4, <2>6, <2>7 DEF BacklogInv
  <1>5. (up => RequestsInv)' BY RequestsKept DEF Connect
  <1> QED BY <1>1, <1>2, <1>3, <1>4, <1>5

LEMMA SendPreserves ==
  ASSUME Inv, NEW c \in Clients, NEW m \in Messages, Send(c, m) PROVE Inv'
  <1> USE DEF Inv, table, tracking, network, loop
  <1>1. TypeOK' BY DEF Send, TypeOK
  <1>2. UpInv' /\ SlotsInv' /\ BacklogInv' BY DEF Send, UpInv, SlotsInv, BacklogInv
  <1>3. (up => RequestsInv)' BY RequestsKept DEF Send
  <1> QED BY <1>1, <1>2, <1>3

LEMMA HangUpPreserves == ASSUME Inv, NEW c \in Clients, HangUp(c) PROVE Inv'
  <1> USE DEF Inv, table, tracking, network, loop
  <1>1. TypeOK' BY DEF HangUp, TypeOK
  <1>2. UpInv' BY DEF HangUp, UpInv
  <1>3. SlotsInv' BY DEF HangUp, SlotsInv, TypeOK
  <1>4. BacklogInv' BY DEF HangUp, BacklogInv, TypeOK
  <1>5. (up => RequestsInv)' BY RequestsKept DEF HangUp
  <1> QED BY <1>1, <1>2, <1>3, <1>4, <1>5

LEMMA AttachPreserves ==
  ASSUME Inv, NEW ci \in CIs, NEW c \in Clients, Attach(ci, c) PROVE Inv'
  <1> USE DEF Inv, table, tracking, network, loop
  <1>1. TypeOK' BY DEF Attach, TypeOK
  <1>2. UpInv' /\ SlotsInv' /\ BacklogInv' BY DEF Attach, UpInv, SlotsInv, BacklogInv
  <1>3. (up => RequestsInv)' BY RequestsKept DEF Attach
  <1> QED BY <1>1, <1>2, <1>3
-----------------------------------------------------------------------------
(* socket_server_init and socket_server_cleanup. *)

LEMMA ServerInitPreserves == ASSUME Inv, ServerInit PROVE Inv'
  <1> USE DEF Inv, table, tracking, network, loop
  <1>1. TypeOK' BY SocketBounds DEF ServerInit, TypeOK, Slots, Slot, EmptySlot
  <1>2. UpInv' BY SocketBounds DEF ServerInit, UpInv, Slots
  <1>3. SlotsInv' BY DEF ServerInit, UpInv, SlotsInv
  <1>4. BacklogInv' BY DEF ServerInit, UpInv, BacklogInv
  <1>5. (up => RequestsInv)' BY DEF ServerInit, UpInv, RequestsInv, Once
  <1> QED BY <1>1, <1>2, <1>3, <1>4, <1>5

LEMMA ServerCleanupPreserves == ASSUME Inv, ServerCleanup PROVE Inv'
  <1> USE DEF Inv, table, tracking, network, loop
  <1>1. TypeOK'
    <2>1. pollfds' \in [Slots -> Slot] BY DEF ServerCleanup, Slot, EmptySlot
    <2>2. nfds' \in 0..MaxFds BY SocketBounds DEF ServerCleanup
    <2>3. inbox' \in [Clients -> Seq(Messages)] /\ backlog' \in Seq(Clients) /\ requests' \in Seq(Request)
      BY DEF ServerCleanup
    <2>4. Len(requests') <= MaxRequests BY SocketBounds DEF ServerCleanup
    <2>5. peer' \in [Clients -> {"away", "backlog", "open", "hungup"}] BY DEF ServerCleanup
    <2> QED BY <2>1, <2>2, <2>3, <2>4, <2>5 DEF ServerCleanup, TypeOK
  <1>2. UpInv' BY DEF ServerCleanup, UpInv
  <1>3. SlotsInv' BY DEF ServerCleanup, SlotsInv
  <1>4. BacklogInv' BY DEF ServerCleanup, BacklogInv
  <1> QED BY <1>1, <1>2, <1>3, <1>4 DEF ServerCleanup
-----------------------------------------------------------------------------
(* The requests. *)

\* A new request gets the next id, which nothing has yet.
LEMMA TrackedIs ==
  ASSUME NEW r \in Seq(Request), NEW a \in Seq(1..MaxSent), NEW n \in 1..MaxSent, Once(r, a, n)
  PROVE  LET s == Append(r, [id |-> n, expired |-> FALSE])
         IN  s \in Seq(Request) /\ Len(s) = Len(r) + 1 /\ Once(s, a, n + 1)
  <1> DEFINE e == [id |-> n, expired |-> FALSE]
             s == Append(r, e)
  <1>1. e \in Request /\ e.id = n BY DEF Request
  <1> HIDE DEF e
  <1>2. /\ s \in Seq(Request) /\ Len(s) = Len(r) + 1
        /\ DOMAIN r \subseteq DOMAIN s /\ Len(r) + 1 \in DOMAIN s /\ s[Len(r) + 1] = e
        /\ \A k \in DOMAIN s : \/ k \in DOMAIN r /\ s[k] = r[k]
                               \/ k = Len(r) + 1 /\ s[k] = e
    BY <1>1, AppendIs
  <1>3. \A k \in DOMAIN r : k # Len(r) + 1 OBVIOUS
  <1> HIDE DEF s
  <1>4. \A k \in DOMAIN r : s[k] = r[k] BY <1>2, <1>3
  <1>5. n \in Nat BY SocketBounds
  <1>6. \A k \in DOMAIN r : r[k].id \in Nat /\ r[k].id < n
    <2>1. \A k \in DOMAIN r : r[k] \in Request OBVIOUS
    <2> QED BY <2>1, SocketBounds DEF Once, Request
  <1>7. \A k \in DOMAIN a : a[k] \in Nat /\ a[k] < n BY SocketBounds DEF Once
  <1>8. \A k \in DOMAIN s : s[k].id < n + 1 BY <1>1, <1>2, <1>5, <1>6
  <1>9. \A j, k \in DOMAIN s : s[j].id = s[k].id => j = k
    <2>1. \A k \in DOMAIN r : r[k].id # n BY <1>5, <1>6
    <2> QED BY <1>1, <1>2, <2>1 DEF Once
  <1>10. \A j \in DOMAIN s, k \in DOMAIN a : s[j].id # a[k]
    <2>1. \A k \in DOMAIN a : a[k] # n BY <1>5, <1>7
    <2> QED BY <1>1, <1>2, <2>1 DEF Once
  <1>11. ASSUME NEW m \in 1..((n + 1) - 1)
         PROVE  (\E k \in DOMAIN s : s[k].id = m) \/ (\E k \in DOMAIN a : a[k] = m)
    <2>1. CASE m = n BY <1>1, <1>2, <2>1
    <2>2. CASE m # n
      <3>1. m \in 1..(n - 1) BY <1>5, <2>2
      <3> QED BY <1>2, <1>4, <3>1 DEF Once
    <2> QED BY <2>1, <2>2
  <1>12. \A k \in DOMAIN a : a[k] < n + 1 BY <1>5, <1>7
  <1>13. Once(s, a, n + 1) BY <1>8, <1>9, <1>10, <1>11, <1>12 DEF Once
  <1> QED BY <1>2, <1>13 DEF s, e

\* The id of a request that is taken out of the table goes to the answered ones.
LEMMA AnsweredIs ==
  ASSUME NEW r \in Seq(Request), NEW a \in Seq(1..MaxSent), NEW n \in Nat, Once(r, a, n),
         NEW k \in 1..Len(r)
  PROVE  LET s == Without(r, k)
             b == Append(a, r[k].id)
         IN  s \in Seq(Request) /\ Len(s) = Len(r) - 1 /\ b \in Seq(1..MaxSent) /\ Once(s, b, n)
  <1> DEFINE s == Without(r, k)
             b == Append(a, r[k].id)
             Old(j) == IF j < k THEN j ELSE j + 1
  <1>1. DOMAIN r = 1..Len(r) /\ Len(r) \in Nat OBVIOUS
  <1>2. r[k].id \in 1..MaxSent
    <2>1. r[k] \in Request BY <1>1
    <2> QED BY <2>1 DEF Request
  <1>3. /\ s \in Seq(Request) /\ Len(s) = Len(r) - 1 /\ DOMAIN s = 1..(Len(r) - 1)
        /\ \A j \in DOMAIN s : s[j] = r[Old(j)]
    <2>1. /\ s \in Seq(Request) /\ Len(s) = Len(r) - 1
          /\ \A j \in 1..(Len(r) - 1) : s[j] = IF j < k THEN r[j] ELSE r[j + 1]
      BY WithoutIs
    <2> HIDE DEF s
    <2>2. DOMAIN s = 1..(Len(r) - 1) BY <2>1
    <2> QED BY <2>1, <2>2
  <1> HIDE DEF s
  <1>4. \A j \in DOMAIN s : Old(j) \in DOMAIN r /\ Old(j) # k BY <1>1, <1>3
  <1>5. \A j, l \in DOMAIN s : Old(j) = Old(l) => j = l BY <1>1, <1>3
  <1>6. ASSUME NEW m \in DOMAIN r, m # k PROVE \E j \in DOMAIN s : Old(j) = m
    <2>1. CASE m < k BY <1>1, <1>3, <2>1
    <2>2. CASE m > k
      <3>1. m - 1 \in DOMAIN s /\ Old(m - 1) = m BY <1>1, <1>3, <2>2
      <3> QED BY <3>1
    <2>3. m < k \/ m > k BY <1>1, <1>6
    <2> QED BY <2>1, <2>2, <2>3
  <1> HIDE DEF Old
  <1>7. /\ b \in Seq(1..MaxSent) /\ DOMAIN a \subseteq DOMAIN b
        /\ Len(a) + 1 \in DOMAIN b /\ b[Len(a) + 1] = r[k].id
        /\ \A l \in DOMAIN b : \/ l \in DOMAIN a /\ b[l] = a[l]
                               \/ l = Len(a) + 1 /\ b[l] = r[k].id
    BY <1>2, AppendIs
  <1>8. \A l \in DOMAIN a : l # Len(a) + 1 OBVIOUS
  <1> HIDE DEF b
  <1>9. k \in DOMAIN r /\ \A l \in DOMAIN a : b[l] = a[l] BY <1>1, <1>7, <1>8
  <1>10. \A j \in DOMAIN s : s[j].id < n BY <1>3, <1>4 DEF Once
  <1>11. \A j, l \in DOMAIN s : s[j].id = s[l].id => j = l BY <1>3, <1>4, <1>5 DEF Once
  <1>12. \A j, l \in DOMAIN b : b[j] = b[l] => j = l BY <1>7, <1>9 DEF Once
  <1>13. \A j \in DOMAIN s, l \in DOMAIN b : s[j].id # b[l] BY <1>3, <1>4, <1>7, <1>9 DEF Once
  <1>14. \A l \in DOMAIN b : b[l] < n BY <1>7, <1>9 DEF Once
  <1>15. ASSUME NEW m \in 1..(n - 1)
         PROVE  (\E j \in DOMAIN s : s[j].id = m) \/ (\E l \in DOMAIN b : b[l] = m)
    <2>1. CASE \E l \in DOMAIN a : a[l] = m BY <1>7, <1>9, <2>1
    <2>2. CASE \E j \in DOMAIN r : r[j].id = m
      <3>1. PICK j \in DOMAIN r : r[j].id = m BY <2>2
      <3>2. CASE j = k BY <1>7, <3>1, <3>2
      <3>3. CASE j # k BY <1>3, <1>6, <3>1, <3>3
      <3> QED BY <3>2, <3>3
    <2> QED BY <2>1, <2>2 DEF Once
  <1>16. Once(s, b, n) BY <1>10, <1>11, <1>12, <1>13, <1>14, <1>15 DEF Once
  <1> QED BY <1>3, <1>7, <1>16 DEF s, b

LEMMA SendRequestPreserves == ASSUME Inv, NEW ci \in CIs, SendRequest(ci) PROVE Inv'
  <1> USE DEF Inv, table, tracking, network, loop
  <1>1. /\ requests \in Seq(Request) /\ answered \in Seq(1..MaxSent) /\ next_request_id \in 1..MaxSent
        /\ Len(requests) < MaxRequests /\ Once(requests, answered, next_request_id)
    BY SocketBounds DEF TypeOK, RequestsInv, SendRequest, CanSend, MayTrack
  <1>2. requests' = Append(requests, [id |-> next_request_id, expired |-> FALSE])
    BY DEF SendRequest, Track
  <1>3. next_request_id' = next_request_id + 1 /\ answered' = answered BY DEF SendRequest, Track
  <1>4. /\ requests' \in Seq(Request) /\ Len(requests') = Len(requests) + 1
        /\ Once(requests', answered, next_request_id + 1)
    BY <1>1, <1>2, TrackedIs
  <1>5. next_request_id' \in 1..(MaxSent + 1) BY <1>1, <1>3, SocketBounds
  <1>6. Len(requests') <= MaxRequests BY <1>1, <1>4, SocketBounds
  <1>7. TypeOK' BY <1>3, <1>4, <1>5, <1>6 DEF SendRequest, TypeOK
  <1>8. UpInv' /\ SlotsInv' /\ BacklogInv' BY DEF SendRequest, UpInv, SlotsInv, BacklogInv
  <1>9. RequestsInv' BY <1>3, <1>4 DEF RequestsInv
  <1> QED BY <1>7, <1>8, <1>9

\* The expiry of a request changes nothing else of it.
LEMMA RequestExpiresPreserves == ASSUME Inv, RequestExpires PROVE Inv'
  <1> USE DEF Inv, table, tracking, network, loop
  <1>1. PICK k \in DOMAIN requests : requests' = [requests EXCEPT ![k].expired = TRUE]
    BY DEF RequestExpires
  <1>2. requests \in Seq(Request) /\ \A j \in DOMAIN requests : requests[j] \in Request BY DEF TypeOK
  <1>3. [requests[k] EXCEPT !.expired = TRUE] \in Request BY <1>2 DEF Request
  <1>4. /\ requests' \in Seq(Request) /\ Len(requests') = Len(requests)
        /\ DOMAIN requests' = DOMAIN requests
        /\ \A j \in DOMAIN requests : requests'[j].id = requests[j].id
    BY <1>1, <1>2, <1>3 DEF Request
  <1>5. TypeOK' BY <1>4 DEF RequestExpires, TypeOK
  <1>6. requests # <<>> BY <1>1
  <1>7. UpInv' /\ SlotsInv' /\ BacklogInv' BY <1>6 DEF RequestExpires, UpInv, SlotsInv, BacklogInv
  <1>8. (up => RequestsInv)' BY <1>4 DEF RequestExpires, RequestsInv, Once
  <1> QED BY <1>5, <1>7, <1>8

\* The callback of an expired request, which may track another one.
LEMMA ExpirePreserves == ASSUME Inv, Expire PROVE Inv'
  <1> USE DEF Inv, table, tracking, network, loop
  <1>1. up BY DEF Expire, UpInv
  <1>2. /\ requests \in Seq(Request) /\ answered \in Seq(1..MaxSent) /\ next_request_id \in Nat
        /\ Len(requests) \in Nat /\ i + 1 \in 1..Len(requests)
        /\ Once(requests, answered, next_request_id)
    BY <1>1 DEF TypeOK, RequestsInv, Expire, Unexamined
  <1> DEFINE r == Without(requests, i + 1)
  <1>3. answered' = Append(answered, requests[i + 1].id) BY DEF Expire
  <1>4. /\ r \in Seq(Request) /\ Len(r) = Len(requests) - 1 /\ answered' \in Seq(1..MaxSent)
        /\ Once(r, answered', next_request_id)
    BY <1>2, <1>3, AnsweredIs
  <1> DEFINE Added == /\ next_request_id <= MaxSent /\ Len(requests) < MaxRequests
                      /\ requests' = Append(r, [id |-> next_request_id, expired |-> FALSE])
                      /\ next_request_id' = next_request_id + 1
  <1>5. (requests' = r /\ UNCHANGED next_request_id) \/ Added BY DEF Expire, MayTrack, CanSend
  <1> HIDE DEF r
  <1>6. /\ requests' \in Seq(Request) /\ Len(requests') <= MaxRequests
        /\ next_request_id' \in 1..(MaxSent + 1) /\ Once(requests', answered', next_request_id')
    <2>1. CASE requests' = r /\ UNCHANGED next_request_id BY <1>2, <1>4, <2>1, SocketBounds DEF TypeOK
    <2>2. CASE Added
      <3>1. next_request_id \in 1..MaxSent BY <2>2, SocketBounds DEF TypeOK
      <3>2. /\ requests' \in Seq(Request) /\ Len(requests') = Len(r) + 1
            /\ Once(requests', answered', next_request_id')
        BY <1>4, <2>2, <3>1, TrackedIs
      <3> QED BY <1>2, <1>4, <2>2, <3>1, <3>2, SocketBounds
    <2> QED BY <1>5, <2>1, <2>2
  <1>7. TypeOK' BY <1>4, <1>6 DEF Expire, TypeOK
  <1>8. UpInv' /\ SlotsInv' /\ BacklogInv' BY <1>1 DEF Expire, UpInv, SlotsInv, BacklogInv
  <1>9. RequestsInv' BY <1>6 DEF RequestsInv
  <1> QED BY <1>7, <1>8, <1>9

LEMMA NotExpiredPreserves == ASSUME Inv, NotExpired PROVE Inv'
  <1> USE DEF Inv, table, tracking, network, loop
  <1>1. i' \in 0..(MaxFds + MaxRequests) BY SocketBounds DEF NotExpired, Unexamined, TypeOK
  <1>2. TypeOK' BY <1>1 DEF NotExpired, TypeOK
  <1>3. UpInv' /\ SlotsInv' /\ BacklogInv' BY DEF NotExpired, UpInv, SlotsInv, BacklogInv
  <1>4. (up => RequestsInv)' BY RequestsKept DEF NotExpired
  <1> QED BY <1>2, <1>3, <1>4

LEMMA TimeoutsCheckedPreserves == ASSUME Inv, TimeoutsChecked PROVE Inv'
  <1> USE DEF Inv, table, tracking, network, loop
  <1>1. TypeOK' BY SocketBounds DEF TimeoutsChecked, TypeOK
  <1>2. UpInv' /\ SlotsInv' /\ BacklogInv' BY DEF TimeoutsChecked, UpInv, SlotsInv, BacklogInv
  <1>3. (up => RequestsInv)' BY RequestsKept DEF TimeoutsChecked
  <1> QED BY <1>1, <1>2, <1>3
-----------------------------------------------------------------------------
(* socket_server_run. *)

\* poll marks what is ready; the count is at most the number of slots in use.
LEMMA PollPreserves == ASSUME Inv, Poll PROVE Inv'
  <1> USE DEF Inv, table, tracking, network, loop
  <1>1. nfds \in 0..MaxFds /\ pollfds \in [Slots -> Slot] /\ up BY DEF Poll, TypeOK
  <1>2. \A fd \in Clients \cup {Listener, None} : Revents(fd) \in SUBSET {"in", "hup"} BY DEF Revents
  <1>3. /\ pollfds' \in [Slots -> Slot] /\ \A k \in Slots : pollfds'[k].fd = pollfds[k].fd
        /\ \A k \in Slots : k < nfds => pollfds'[k].revents = Revents(pollfds[k].fd)
    BY <1>1, <1>2 DEF Poll, Slot
  <1>4. ready' \in 0..MaxFds
    <2>1. ReadySlots \in SUBSET (0..(nfds - 1)) BY DEF ReadySlots
    <2>2. /\ IsFiniteSet(0..(nfds - 1))
          /\ Cardinality(0..(nfds - 1)) = IF 0 > nfds - 1 THEN 0 ELSE (nfds - 1) - 0 + 1
      BY <1>1, FS_Interval, SocketBounds
    <2>3. IsFiniteSet(ReadySlots) /\ Cardinality(ReadySlots) <= Cardinality(0..(nfds - 1))
      BY <2>1, <2>2, FS_Subset
    <2>4. Cardinality(ReadySlots) \in Nat BY <2>3, FS_CardinalityType
    <2> QED BY <1>1, <2>2, <2>3, <2>4, SocketBounds DEF Poll
  <1>5. i' \in 0..(MaxFds + MaxRequests) BY SocketBounds DEF Poll
  <1>6. TypeOK' BY <1>3, <1>4, <1>5 DEF Poll, TypeOK
  <1>7. 1..(nfds - 1) \subseteq Slots /\ 0 \in Slots BY <1>1, SocketBounds DEF Slots
  <1>8. UpInv' BY <1>1, <1>3, <1>7 DEF Poll, UpInv
  <1>9. SlotsInv' BY <1>3, <1>7 DEF Poll, SlotsInv
  <1>10. BacklogInv'
    <2>1. 0 < nfds /\ pollfds[0].fd = Listener BY <1>1 DEF UpInv
    <2>2. pollfds'[0].revents # {} => backlog # <<>> BY <1>3, <1>7, <2>1 DEF Revents
    <2> QED BY <2>2 DEF Poll, BacklogInv
  <1>11. (up => RequestsInv)' BY RequestsKept DEF Poll
  <1> QED BY <1>6, <1>8, <1>9, <1>10, <1>11

LEMMA PollTimesOutPreserves == ASSUME Inv, PollTimesOut PROVE Inv'
  <1> USE DEF Inv, table, tracking, network, loop
  <1>1. TypeOK' BY SocketBounds DEF PollTimesOut, TypeOK
  <1>2. UpInv' /\ SlotsInv' /\ BacklogInv' BY DEF PollTimesOut, UpInv, SlotsInv, BacklogInv
  <1>3. (up => RequestsInv)' BY RequestsKept DEF PollTimesOut
  <1> QED BY <1>1, <1>2, <1>3

LEMMA LoopEndsPreserves == ASSUME Inv, LoopEnds PROVE Inv'
  <1> USE DEF Inv, table, tracking, network, loop
  <1>1. nfds \in 0..MaxFds /\ pollfds \in [Slots -> Slot] /\ up BY DEF LoopEnds, TypeOK, UpInv
  <1>2. pollfds' \in [Slots -> Slot] /\ \A k \in Slots : pollfds'[k].fd = pollfds[k].fd
    BY <1>1 DEF LoopEnds, Slot
  <1>3. i' \in 0..(MaxFds + MaxRequests) /\ ready' \in 0..MaxFds BY SocketBounds DEF LoopEnds
  <1>4. TypeOK' BY <1>2, <1>3 DEF LoopEnds, TypeOK
  <1>5. 1..(nfds - 1) \subseteq Slots /\ 0 \in Slots BY <1>1, SocketBounds DEF Slots
  <1>6. UpInv' BY <1>1, <1>2, <1>5 DEF LoopEnds, UpInv
  <1>7. SlotsInv' BY <1>2, <1>5 DEF LoopEnds, SlotsInv
  <1>8. BacklogInv' BY DEF LoopEnds, BacklogInv
  <1>9. (up => RequestsInv)' BY RequestsKept DEF LoopEnds
  <1> QED BY <1>4, <1>6, <1>7, <1>8, <1>9

\* One turn of the loop: the index passes the slot that was handled, and the
\* listener is not looked at again before the next poll.
LEMMA AdvanceIs ==
  ASSUME Inv, Looping, Advance
  PROVE  /\ up /\ Current \in Slots /\ Current < nfds /\ pc' = "loop"
         /\ Current # 0 => Current \in 1..(nfds - 1)
         /\ i' \in 1..(MaxFds + MaxRequests) /\ ready' \in 0..MaxFds
  <1>1. up /\ Pending # {} /\ ready > 0 BY DEF Inv, UpInv, Looping
  <1>2. Current \in i..(nfds - 1) BY <1>1, CurrentIs DEF Inv
  <1>3. Current \in Nat /\ Current < nfds /\ nfds <= MaxFds BY <1>2, SocketBounds DEF Inv, TypeOK
  <1>4. pc' = "loop" BY DEF Looping, Advance
  <1>5. i' \in 1..(MaxFds + MaxRequests) /\ ready' \in 0..MaxFds
    BY <1>1, <1>3, SocketBounds DEF Inv, TypeOK, Advance
  <1>6. nfds \in Nat BY SocketBounds DEF Inv, TypeOK
  <1> QED BY <1>1, <1>3, <1>4, <1>5, <1>6, SocketBounds DEF Slots

\* cleanup_client on the slot that the loop has reached: the connections behind
\* it keep their slots, one further down, and the closed one has none.
LEMMA CleanupPreserves ==
  ASSUME Inv, Looping, Current # 0, CleanupClient(Current), Advance,
         UNCHANGED <<up, tracking, socket_fd, backlog>>
  PROVE  Inv'
  <1> USE DEF Inv, table, tracking, network, loop
  <1> DEFINE k == Current
             c == pollfds[k].fd
  <1>1. /\ up /\ k \in 1..(nfds - 1) /\ pc' = "loop"
        /\ i' \in 1..(MaxFds + MaxRequests) /\ ready' \in 0..MaxFds
    BY AdvanceIs
  <1>2. CleanupClient(k) OBVIOUS
  <1> HIDE DEF k
  <1>3. /\ nfds \in 0..MaxFds /\ nfds \in Nat /\ MaxFds \in Nat /\ pollfds \in [Slots -> Slot]
        /\ peer \in [Clients -> {"away", "backlog", "open", "hungup"}]
    BY SocketBounds DEF TypeOK
  <1>4. c \in Clients /\ peer[c] \in {"open", "hungup"} BY <1>1 DEF SlotsInv
  <1>5. /\ nfds' = nfds - 1 /\ peer' = [peer EXCEPT ![c] = "away"]
        /\ inbox' = [inbox EXCEPT ![c] = <<>>]
    BY <1>2 DEF CleanupClient
  <1>6. /\ pollfds' \in [Slots -> Slot]
        /\ \A j \in Slots : pollfds'[j] = IF j \in k..(nfds - 2) THEN pollfds[j + 1]
                              ELSE IF j = nfds - 1 THEN [pollfds[j] EXCEPT !.fd = None] ELSE pollfds[j]
    <2>1. \A j \in Slots : [pollfds[j] EXCEPT !.fd = None] \in Slot BY <1>3 DEF Slot
    <2>2. \A j \in k..(nfds - 2) : j + 1 \in Slots BY <1>1, <1>3 DEF Slots
    <2>3. pollfds' = Shifted(k) BY <1>2 DEF CleanupClient
    <2> QED BY <1>3, <2>1, <2>2, <2>3 DEF Shifted
  <1> DEFINE Old(j) == IF j < k THEN j ELSE j + 1
  <1>7. \A j \in 1..(nfds' - 1) : /\ j \in Slots /\ Old(j) \in 1..(nfds - 1) /\ Old(j) # k
                                  /\ pollfds'[j] = pollfds[Old(j)]
    <2> TAKE j \in 1..(nfds' - 1)
    <2>1. j \in Slots /\ Old(j) \in 1..(nfds - 1) /\ Old(j) # k BY <1>1, <1>3, <1>5 DEF Slots
    <2>2. j # nfds - 1 /\ (j \in k..(nfds - 2) <=> ~(j < k)) BY <1>1, <1>3, <1>5
    <2> QED BY <1>6, <2>1, <2>2
  <1>8. \A j, l \in 1..(nfds' - 1) : Old(j) = Old(l) => j = l BY <1>1, <1>3, <1>5
  <1>9. ASSUME NEW m \in 1..(nfds - 1), m # k PROVE \E j \in 1..(nfds' - 1) : Old(j) = m
    <2>1. CASE m < k
      <3>1. m \in 1..(nfds' - 1) /\ Old(m) = m BY <1>1, <1>3, <1>5, <2>1
      <3> QED BY <3>1
    <2>2. CASE m > k
      <3>1. m - 1 \in 1..(nfds' - 1) /\ Old(m - 1) = m BY <1>1, <1>3, <1>5, <2>2
      <3> QED BY <3>1
    <2>3. m < k \/ m > k BY <1>1, <1>3, <1>9
    <2> QED BY <2>1, <2>2, <2>3
  <1> HIDE DEF Old
  <1>10. TypeOK'
    <2>1. nfds' \in 0..MaxFds BY <1>1, <1>3, <1>5
    <2>2. i' \in 0..(MaxFds + MaxRequests) BY <1>1, SocketBounds
    <2>3. inbox' \in [Clients -> Seq(Messages)] BY <1>4, <1>5 DEF TypeOK
    <2>4. peer' \in [Clients -> {"away", "backlog", "open", "hungup"}] BY <1>3, <1>5
    <2> QED BY <1>1, <1>6, <2>1, <2>2, <2>3, <2>4 DEF TypeOK
  <1>11. UpInv'
    <2>1. nfds' >= 1 BY <1>1, <1>3, <1>5
    <2>2. 0 \in Slots /\ 0 \notin k..(nfds - 2) /\ 0 # nfds - 1 BY <1>1, <1>3 DEF Slots
    <2> QED BY <1>1, <1>6, <2>1, <2>2 DEF UpInv
  <1>12. SlotsInv'
    <2>1. \A j \in 1..(nfds' - 1) : pollfds'[j].fd \in Clients /\ pollfds'[j].fd # c
      BY <1>1, <1>7 DEF SlotsInv
    <2>2. \A j \in 1..(nfds' - 1) : peer'[pollfds'[j].fd] \in {"open", "hungup"}
      BY <1>3, <1>5, <1>7, <2>1 DEF SlotsInv
    <2>3. \A j, l \in 1..(nfds' - 1) : pollfds'[j].fd = pollfds'[l].fd => j = l
      BY <1>7, <1>8 DEF SlotsInv
    <2>4. ASSUME NEW d \in Clients, peer'[d] \in {"open", "hungup"}
          PROVE  \E j \in 1..(nfds' - 1) : pollfds'[j].fd = d
      <3>1. d # c /\ peer[d] \in {"open", "hungup"} BY <1>3, <1>5, <2>4
      <3>2. PICK m \in 1..(nfds - 1) : pollfds[m].fd = d BY <3>1 DEF SlotsInv
      <3> QED BY <1>7, <1>9, <3>1, <3>2
    <2> QED BY <2>1, <2>2, <2>3, <2>4 DEF SlotsInv
  <1>13. BacklogInv'
    <2>1. \A j \in DOMAIN backlog : backlog[j] \in Clients /\ backlog[j] # c
      BY <1>4 DEF BacklogInv, TypeOK
    <2>2. \A j \in DOMAIN backlog : peer'[backlog[j]] = peer[backlog[j]] BY <1>3, <1>5, <2>1
    <2>3. i' # 0 BY <1>1
    <2> QED BY <2>2, <2>3 DEF BacklogInv
  <1>14. (up => RequestsInv)' BY RequestsKept
  <1> QED BY <1>10, <1>11, <1>12, <1>13, <1>14

\* accept_client: the oldest connection of the backlog, which has no slot yet.
LEMMA AcceptPreserves == ASSUME Inv, AcceptClient PROVE Inv'
  <1> USE DEF Inv, table, tracking, network, loop
  <1> DEFINE c == Head(backlog)
  <1>1. /\ up /\ pc' = "loop" /\ Looping /\ Current = 0
        /\ i' \in 1..(MaxFds + MaxRequests) /\ ready' \in 0..MaxFds
    BY AdvanceIs DEF AcceptClient
  <1>2. backlog # <<>>
    <2>1. Current \in i..(nfds - 1) /\ pollfds[Current].revents # {}
      BY <1>1, CurrentIs DEF Looping
    <2>2. i = 0 BY <1>1, <2>1 DEF TypeOK
    <2> QED BY <1>1, <2>1, <2>2 DEF BacklogInv, Looping
  <1>3. backlog \in Seq(Clients) BY DEF TypeOK
  <1>4. c \in Clients /\ peer[c] = "backlog" BY <1>2, <1>3 DEF BacklogInv
  <1>5. /\ backlog' = Tail(backlog) /\ backlog' \in Seq(Clients)
        /\ \A j \in DOMAIN backlog' : /\ j \in Nat /\ j + 1 \in DOMAIN backlog /\ j + 1 # 1
                                      /\ backlog'[j] = backlog[j + 1]
        /\ 1 \in DOMAIN backlog /\ backlog[1] = c
    BY <1>2, <1>3 DEF AcceptClient
  <1>6. /\ nfds \in 0..MaxFds /\ nfds \in Nat /\ MaxFds \in Nat /\ pollfds \in [Slots -> Slot]
        /\ peer \in [Clients -> {"away", "backlog", "open", "hungup"}]
        /\ nfds >= 1 /\ pollfds[0].fd = Listener
    BY <1>1, SocketBounds DEF TypeOK, UpInv
  <1> HIDE DEF c
  <1>7. \A j \in DOMAIN backlog' : backlog'[j] \in Clients /\ backlog'[j] # c
                                 /\ peer[backlog'[j]] = "backlog"
    BY <1>3, <1>5 DEF BacklogInv
  <1>8. \A j, l \in DOMAIN backlog' : backlog'[j] = backlog'[l] => j = l
    <2> TAKE j, l \in DOMAIN backlog'
    <2> HAVE backlog'[j] = backlog'[l]
    <2>1. j + 1 = l + 1 BY <1>5 DEF BacklogInv
    <2> QED BY <1>5, <2>1
  <1>9. (up => RequestsInv)' BY RequestsKept DEF AcceptClient
  <1>10. i' # 0 /\ i' \in 0..(MaxFds + MaxRequests) BY <1>1, SocketBounds
  <1> DEFINE Accepted == /\ nfds < MaxFds /\ nfds' = nfds + 1
                         /\ pollfds' = [pollfds EXCEPT ![nfds].fd = c]
                         /\ peer' = [peer EXCEPT ![c] = "open"] /\ UNCHANGED inbox
             Refused == /\ peer' = [peer EXCEPT ![c] = "away"] /\ UNCHANGED <<pollfds, nfds>>
                        /\ inbox' = [inbox EXCEPT ![c] = <<>>]
  <1>11. Accepted \/ Refused BY DEF AcceptClient, c
  <1>12. BacklogInv'
    <2>1. \A j \in DOMAIN backlog' : peer'[backlog'[j]] = "backlog" BY <1>4, <1>6, <1>7, <1>11
    <2> QED BY <1>8, <1>10, <2>1 DEF BacklogInv
  <1>13. CASE Accepted
    <2>1. nfds \in Slots /\ 0 \in Slots /\ nfds # 0 BY <1>6, <1>13 DEF Slots
    <2>2. \A j \in 1..(nfds' - 1) : j \in Slots /\ (j = nfds \/ (j \in 1..(nfds - 1) /\ j # nfds))
      BY <1>6, <1>13 DEF Slots
    <2>3. /\ pollfds' \in [Slots -> Slot] /\ pollfds'[nfds].fd = c
          /\ \A j \in Slots : j # nfds => pollfds'[j] = pollfds[j]
      <3>1. [pollfds[nfds] EXCEPT !.fd = c] \in Slot BY <1>4, <1>6, <2>1 DEF Slot
      <3>2. pollfds' = [pollfds EXCEPT ![nfds] = [pollfds[nfds] EXCEPT !.fd = c]] BY <1>13
      <3>3. pollfds[nfds] \in Slot BY <1>6, <2>1
      <3> QED BY <1>6, <2>1, <3>1, <3>2, <3>3 DEF Slot
    <2>4. TypeOK'
      <3>1. nfds' \in 0..MaxFds BY <1>6, <1>13
      <3>2. peer' \in [Clients -> {"away", "backlog", "open", "hungup"}] BY <1>6, <1>13
      <3> QED BY <1>1, <1>5, <1>10, <1>13, <2>3, <3>1, <3>2 DEF TypeOK, AcceptClient
    <2>5. UpInv' BY <1>1, <1>6, <1>13, <2>1, <2>3 DEF UpInv, AcceptClient
    <2>6. SlotsInv'
      <3>1. \A j \in 1..(nfds - 1) : j \in Slots /\ j \in 1..(nfds' - 1) /\ j # nfds
        BY <1>6, <1>13 DEF Slots
      <3>2. \A j \in 1..(nfds - 1) : pollfds'[j].fd = pollfds[j].fd /\ pollfds[j].fd # c
        BY <1>4, <2>3, <3>1 DEF SlotsInv
      <3>3. \A d \in Clients : peer'[d] = IF d = c THEN "open" ELSE peer[d] BY <1>6, <1>13
      <3>4. nfds \in 1..(nfds' - 1) BY <1>6, <1>13
      <3>5. \A j \in 1..(nfds' - 1) :
               pollfds'[j].fd \in Clients /\ peer'[pollfds'[j].fd] \in {"open", "hungup"}
        BY <1>4, <2>2, <2>3, <3>2, <3>3 DEF SlotsInv
      <3>6. \A j, l \in 1..(nfds' - 1) : pollfds'[j].fd = pollfds'[l].fd => j = l
        BY <2>2, <2>3, <3>2 DEF SlotsInv
      <3>7. \A d \in Clients : peer'[d] \in {"open", "hungup"} =>
               \E j \in 1..(nfds' - 1) : pollfds'[j].fd = d
        BY <2>3, <3>1, <3>2, <3>3, <3>4 DEF SlotsInv
      <3> QED BY <3>5, <3>6, <3>7 DEF SlotsInv
    <2> QED BY <1>9, <1>12, <2>4, <2>5, <2>6
  <1>14. CASE Refused
    <2>1. \A d \in Clients : peer'[d] = IF d = c THEN "away" ELSE peer[d] BY <1>6, <1>14
    <2>2. peer' \in [Clients -> {"away", "backlog", "open", "hungup"}] BY <1>6, <1>14
    <2>3. inbox' \in [Clients -> Seq(Messages)] BY <1>4, <1>14 DEF TypeOK
    <2>4. TypeOK' BY <1>1, <1>5, <1>10, <1>14, <2>2, <2>3 DEF TypeOK, AcceptClient
    <2>5. UpInv' BY <1>1, <1>6, <1>14 DEF UpInv, AcceptClient
    <2>6. SlotsInv' BY <1>4, <1>14, <2>1 DEF SlotsInv
    <2> QED BY <1>9, <1>12, <2>4, <2>5, <2>6
  <1> QED BY <1>11, <1>13, <1>14

\* A read that leaves the connection open.
LEMMA ReadPreserves == ASSUME Inv, ReadNothing \/ RouteMessage PROVE Inv'
  <1> USE DEF Inv, table, tracking, network, loop
  <1>1. /\ up /\ Current \in 1..(nfds - 1) /\ pc' = "loop"
        /\ i' \in 1..(MaxFds + MaxRequests) /\ ready' \in 0..MaxFds
    BY AdvanceIs DEF ReadNothing, RouteMessage
  <1>2. Fd \in Clients BY <1>1 DEF Fd, SlotsInv
  <1>3. inbox' \in [Clients -> Seq(Messages)]
    <2>1. CASE ReadNothing BY <2>1 DEF ReadNothing, TypeOK
    <2>2. CASE RouteMessage BY <1>2, <2>2 DEF RouteMessage, TypeOK
    <2> QED BY <2>1, <2>2
  <1>4. i' # 0 /\ i' \in 0..(MaxFds + MaxRequests) BY <1>1, SocketBounds
  <1>5. TypeOK' BY <1>1, <1>3, <1>4 DEF ReadNothing, RouteMessage, TypeOK
  <1>6. UpInv' /\ SlotsInv' BY <1>1 DEF ReadNothing, RouteMessage, UpInv, SlotsInv
  <1>7. BacklogInv' BY <1>4 DEF ReadNothing, RouteMessage, BacklogInv
  <1>8. (up => RequestsInv)' BY RequestsKept DEF ReadNothing, RouteMessage
  <1> QED BY <1>5, <1>6, <1>7, <1>8

\* accept() fails: only the index and the count of the loop move.
LEMMA AcceptFailsPreserves == ASSUME Inv, AcceptFails PROVE Inv'
  <1> USE DEF Inv, table, tracking, network, loop
  <1>1. /\ up /\ pc' = "loop"
        /\ i' \in 1..(MaxFds + MaxRequests) /\ ready' \in 0..MaxFds
    BY AdvanceIs DEF AcceptFails
  <1>2. i' # 0 /\ i' \in 0..(MaxFds + MaxRequests) BY <1>1, SocketBounds
  <1>3. TypeOK' BY <1>1, <1>2 DEF AcceptFails, TypeOK
  <1>4. UpInv' /\ SlotsInv' BY <1>1 DEF AcceptFails, UpInv, SlotsInv
  <1>5. BacklogInv' BY <1>2 DEF AcceptFails, BacklogInv
  <1>6. (up => RequestsInv)' BY RequestsKept DEF AcceptFails
  <1> QED BY <1>3, <1>4, <1>5, <1>6

LEMMA RunPreserves == ASSUME Inv, Run PROVE Inv'
  <1>1. CASE Disconnected BY <1>1, CleanupPreserves DEF Disconnected
  <1>2. CASE ReadFails BY <1>2, CleanupPreserves DEF ReadFails
  <1> QED
    BY <1>1, <1>2, PollPreserves, PollTimesOutPreserves, LoopEndsPreserves, AcceptPreserves,
       AcceptFailsPreserves,
       ReadPreserves, ExpirePreserves, NotExpiredPreserves, TimeoutsCheckedPreserves DEF Run
-----------------------------------------------------------------------------
(* The theorems. *)

LEMMA InvHolds == Spec => []Inv
  <1>1. Init => Inv
    <2> SUFFICES ASSUME Init PROVE Inv OBVIOUS
    <2>1. TypeOK
      <3>1. pollfds \in [Slots -> Slot] BY DEF Init, EmptySlot, Slot
      <3>2. /\ nfds \in 0..MaxFds /\ i \in 0..(MaxFds + MaxRequests) /\ ready \in 0..MaxFds
            /\ next_request_id \in 1..(MaxSent + 1)
        BY SocketBounds DEF Init
      <3>3. requests \in Seq(Request) /\ Len(requests) <= MaxRequests /\ answered \in Seq(1..MaxSent)
        BY SocketBounds DEF Init
      <3>4. inbox \in [Clients -> Seq(Messages)] /\ backlog \in Seq(Clients) BY DEF Init
      <3>5. peer \in [Clients -> {"away", "backlog", "open", "hungup"}] BY DEF Init
      <3> QED BY <3>1, <3>2, <3>3, <3>4, <3>5 DEF Init, TypeOK
    <2>2. UpInv /\ SlotsInv /\ BacklogInv BY DEF Init, UpInv, SlotsInv, BacklogInv
    <2> QED BY <2>1, <2>2 DEF Init, Inv
  <1>2. Inv /\ [Next]_vars => Inv'
    <2> SUFFICES ASSUME Inv, [Next]_vars PROVE Inv' OBVIOUS
    <2>1. CASE Run BY <2>1, RunPreserves
    <2>2. CASE ServerInit BY <2>2, ServerInitPreserves
    <2>3. CASE ServerCleanup BY <2>3, ServerCleanupPreserves
    <2>4. CASE RequestExpires BY <2>4, RequestExpiresPreserves
    <2>5. ASSUME NEW c \in Clients, Connect(c) \/ HangUp(c) PROVE Inv'
      BY <2>5, ConnectPreserves, HangUpPreserves
    <2>6. ASSUME NEW c \in Clients, NEW m \in Messages, Send(c, m) PROVE Inv'
      BY <2>6, SendPreserves
    <2>7. ASSUME NEW c \in Clients, NEW ci \in CIs, Attach(ci, c) PROVE Inv' BY <2>7, AttachPreserves
    <2>8. ASSUME NEW ci \in CIs, SendRequest(ci) PROVE Inv' BY <2>8, SendRequestPreserves
    <2>9. CASE UNCHANGED vars
      BY <2>9 DEF vars, table, tracking, network, loop, Inv, TypeOK, UpInv, SlotsInv, BacklogInv, RequestsInv
    <2> QED BY <2>1, <2>2, <2>3, <2>4, <2>5, <2>6, <2>7, <2>8, <2>9 DEF Next
  <1> QED BY <1>1, <1>2, PTL DEF Spec

\* The table of pollfds and the request table stay within REGISTRY_MAX_CIS and
\* MAX_PENDING_REQUESTS, and the loop's index and count within their ranges.
THEOREM TypeCorrect == Spec => []TypeOK
  <1>1. Inv => TypeOK BY DEF Inv
  <1> QED BY <1>1, InvHolds, PTL

\* cleanup_client and accept_client never leak a descriptor and never leave a
\* closed one to be polled, for any number of clients.
THEOREM TableAlwaysAgrees == Spec => []TableAgrees
  <1>1. Inv => TableAgrees
    <2> SUFFICES ASSUME Inv, up PROVE TableAgrees BY DEF TableAgrees
    <2>1. ASSUME NEW c \in Clients
          PROVE  Cardinality({k \in 1..(nfds - 1) : pollfds[k].fd = c})
                   = IF peer[c] \in {"open", "hungup"} THEN 1 ELSE 0
      <3> DEFINE S == {k \in 1..(nfds - 1) : pollfds[k].fd = c}
      <3>1. CASE peer[c] \in {"open", "hungup"}
        <4>1. PICK k \in 1..(nfds - 1) : pollfds[k].fd = c BY <3>1 DEF Inv, SlotsInv
        <4>2. S = {k} BY <4>1 DEF Inv, SlotsInv
        <4>3. Cardinality(S) = 1 BY <4>2, FS_Singleton
        <4> QED BY <3>1, <4>3
      <3>2. CASE peer[c] \notin {"open", "hungup"}
        <4>1. S = {} BY <3>2 DEF Inv, SlotsInv
        <4> QED BY <3>2, <4>1, FS_EmptySet
      <3> QED BY <3>1, <3>2
    <2> QED BY <2>1 DEF Inv, UpInv, TableAgrees
  <1> QED BY <1>1, InvHolds, PTL

\* The removals of check_request_timeouts, whose callbacks send further
\* requests, neither lose a request nor answer one twice.
THEOREM RequestsAnsweredOnce == Spec => []RequestsOnce
  <1>1. Inv => RequestsOnce
    <2> SUFFICES ASSUME Inv, up, NEW n \in 1..(next_request_id - 1) PROVE Occurrences(n) = 1
      BY DEF RequestsOnce
    <2> DEFINE R == {k \in DOMAIN requests : requests[k].id = n}
               A == {k \in DOMAIN answered : answered[k] = n}
    <2>1. Once(requests, answered, next_request_id) BY DEF Inv, RequestsInv
    <2>2. CASE \E k \in DOMAIN requests : requests[k].id = n
      <3>1. PICK k \in DOMAIN requests : requests[k].id = n BY <2>2
      <3>2. R = {k} /\ A = {} BY <2>1, <3>1 DEF Once
      <3>3. Cardinality(R) = 1 /\ Cardinality(A) = 0 BY <3>2, FS_Singleton, FS_EmptySet
      <3> QED BY <3>3 DEF Occurrences
    <2>3. CASE \E k \in DOMAIN answered : answered[k] = n
      <3>1. PICK k \in DOMAIN answered : answered[k] = n BY <2>3
      <3>2. A = {k} /\ R = {} BY <2>1, <3>1 DEF Once
      <3>3. Cardinality(A) = 1 /\ Cardinality(R) = 0 BY <3>2, FS_Singleton, FS_EmptySet
      <3> QED BY <3>3 DEF Occurrences
    <2> QED BY <2>1, <2>2, <2>3 DEF Once
  <1> QED BY <1>1, InvHolds, PTL
=============================================================================
