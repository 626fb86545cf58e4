------------------------ MODULE ClientProtocolProofs ------------------------
(***************************************************************************)
(* That a client the server holds suspended will be heard of again, and    *)
(* that what a client says when it leaves is true: for every number of     *)
(* clients, of messages on their way and of signals.                       *)
(***************************************************************************)
EXTENDS ClientProtocol, SequenceTheorems, TLAPS

\* What the server has been asked and where the client is in answering.
Order(c) ==
    /\ up[c] # <<>> => Ids(Tail(up[c])) \cap FirstMsg = {}
    /\ Ids(up[c]) \cap FirstMsg # {} => ~ses[c] /\ ~bad[c] /\ ~susp[c]
    /\ ses[c] => ~bad[c]
    /\ proc[c] = "off" => up[c] = <<>> /\ conn[c] = "none" /\ ~open[c]
    /\ conn[c] = "none" => ~ses[c] /\ ~bad[c] /\ ~susp[c]
    /\ server = "off" => conn[c] = "none"
    /\ mode[c] = "attached" => attached[c]
    /\ proc[c] \in {"stopped", "locking"} => attached[c]

\* Something will wake a client; a signal does only if the client is attached.
Waking(c) ==
    \/ InFlight(c) \cap {"SUSPEND", "LOCK"} # {}
    \/ proc[c] \in {"stopped", "locking", "gone"}
    \/ attached[c] /\ "CONT" \in pending[c]
    \/ Ids(up[c]) \cap {"WAKEUP", "UNLOCK", "EXITING"} # {}
    \/ tty[c] = "closed"

Woken(c) == susp[c] => tty[c] # "started" /\ (~Live(c) \/ Waking(c))

IInv == TypeOK /\ \A c \in ClientId : Order(c) /\ Woken(c)

-----------------------------------------------------------------------------
(* The messages in a queue. *)

\* Nothing is in an empty queue.
LEMMA IdsEmpty == Ids(<<>>) = {}
BY DEF Ids

\* A message is added at the end (imsg_compose).
LEMMA IdsAppend ==
    ASSUME NEW S, NEW q \in Seq(S), NEW m \in S
    PROVE  /\ Append(q, m) \in Seq(S) /\ Append(q, m) # <<>>
           /\ Ids(Append(q, m)) = Ids(q) \cup {m}
           /\ Ids(Tail(Append(q, m))) \subseteq (IF q = <<>> THEN {} ELSE Ids(Tail(q)) \cup {m})
<1> DEFINE a == Append(q, m)
<1>1. /\ a \in Seq(S) /\ Len(a) = Len(q) + 1 /\ a[Len(q) + 1] = m
      /\ \A k \in 1..Len(q) : a[k] = q[k]
      /\ Len(q) \in Nat /\ a # <<>>
  OBVIOUS
<1>2. Ids(a) = Ids(q) \cup {m}
  BY <1>1 DEF Ids
<1>3. Len(Tail(a)) = Len(q) /\ \A k \in 1..Len(q) : Tail(a)[k] = a[k + 1]
  BY <1>1
<1>4. CASE q = <<>>
  BY <1>3, <1>4 DEF Ids
<1>5. CASE q # <<>>
  <2>1. Len(Tail(q)) = Len(q) - 1 /\ \A k \in 1..Len(q) - 1 : Tail(q)[k] = q[k + 1]
    BY <1>5
  <2>2. \A k \in 1..Len(q) : Tail(a)[k] \in Ids(Tail(q)) \cup {m}
    <3> SUFFICES ASSUME NEW k \in 1..Len(q) PROVE Tail(a)[k] \in Ids(Tail(q)) \cup {m}
      OBVIOUS
    <3>1. CASE k = Len(q)
      BY <1>1, <1>3, <3>1
    <3>2. CASE k # Len(q)
      BY <1>1, <1>3, <2>1, <3>2 DEF Ids
    <3> QED
      BY <3>1, <3>2
  <2> QED
    BY <1>3, <1>5, <2>2 DEF Ids
<1> QED
  BY <1>1, <1>2, <1>4, <1>5

\* A queue is written after what is in the socket, or read after what is in the buffer.
LEMMA IdsConcat ==
    ASSUME NEW S, NEW q \in Seq(S), NEW r \in Seq(S)
    PROVE  q \o r \in Seq(S) /\ Ids(q \o r) = Ids(q) \cup Ids(r)
<1>1. /\ q \o r \in Seq(S) /\ Len(q \o r) = Len(q) + Len(r)
      /\ Len(q) \in Nat /\ Len(r) \in Nat
      /\ \A k \in 1..Len(q) + Len(r) : (q \o r)[k] = IF k <= Len(q) THEN q[k] ELSE r[k - Len(q)]
  OBVIOUS
<1>2. Ids(q \o r) \subseteq Ids(q) \cup Ids(r)
  BY <1>1 DEF Ids
<1>3. Ids(q) \subseteq Ids(q \o r)
  BY <1>1 DEF Ids
<1>4. ASSUME NEW k \in 1..Len(r) PROVE r[k] \in Ids(q \o r)
  <2>1. k + Len(q) \in 1..Len(q \o r) /\ (q \o r)[k + Len(q)] = r[k]
    BY <1>1
  <2> QED
    BY <2>1 DEF Ids
<1>5. Ids(r) \subseteq Ids(q \o r)
  BY <1>4 DEF Ids
<1> QED
  BY <1>1, <1>2, <1>3, <1>5

\* So it is with the messages to a client, whichever is joined first.
LEMMA Joined ==
    \A q, r \in Seq(ServerMsg) : q \o r \in Seq(ServerMsg) /\ Ids(q \o r) = Ids(q) \cup Ids(r)
BY IdsConcat

LEMMA JoinedAlike == \A q, r, t \in Seq(ServerMsg) : (q \o r) \o t = q \o (r \o t)
BY ConcatAssociative

\* A message is dispatched (imsg_get).
LEMMA IdsTail ==
    ASSUME NEW S, NEW q \in Seq(S), q # <<>>
    PROVE  /\ Head(q) \in S /\ Tail(q) \in Seq(S)
           /\ Len(q) = 1 <=> Tail(q) = <<>>
           /\ Ids(q) = {Head(q)} \cup Ids(Tail(q))
           /\ Tail(q) # <<>> => Ids(Tail(Tail(q))) \subseteq Ids(Tail(q))
<1>1. /\ Head(q) \in S /\ Tail(q) \in Seq(S) /\ Head(q) = q[1]
      /\ Len(q) \in Nat \ {0} /\ Len(Tail(q)) = Len(q) - 1
      /\ \A k \in 1..Len(q) - 1 : Tail(q)[k] = q[k + 1]
  OBVIOUS
<1>2. Len(q) = 1 <=> Tail(q) = <<>>
  <2>1. Tail(q) = <<>> <=> Len(Tail(q)) = 0
    BY <1>1
  <2> QED
    BY <1>1, <2>1
<1>3. Ids(Tail(q)) \subseteq Ids(q) /\ Head(q) \in Ids(q)
  BY <1>1 DEF Ids
<1>4. ASSUME NEW k \in 1..Len(q) PROVE q[k] \in {Head(q)} \cup Ids(Tail(q))
  <2>1. CASE k = 1
    BY <1>1, <2>1
  <2>2. CASE k # 1
    <3>1. k - 1 \in 1..Len(Tail(q)) /\ Tail(q)[k - 1] = q[k]
      BY <1>1, <2>2
    <3> QED
      BY <3>1 DEF Ids
  <2> QED
    BY <2>1, <2>2
<1>5. Ids(q) = {Head(q)} \cup Ids(Tail(q))
  BY <1>3, <1>4 DEF Ids
<1>6. ASSUME Tail(q) # <<>> PROVE Ids(Tail(Tail(q))) \subseteq Ids(Tail(q))
  <2> DEFINE t == Tail(q)
  <2>1. /\ t \in Seq(S) /\ Len(Tail(t)) = Len(t) - 1 /\ Len(t) \in Nat
        /\ \A k \in 1..Len(t) - 1 : Tail(t)[k] = t[k + 1]
    BY <1>1, <1>6
  <2> HIDE DEF t
  <2>2. Ids(Tail(t)) \subseteq Ids(t)
    BY <2>1 DEF Ids
  <2> QED
    BY <2>2 DEF t
<1> QED
  BY <1>1, <1>2, <1>5, <1>6

\* Some of the messages are read (imsg_read).
LEMMA IdsCut ==
    ASSUME NEW S, NEW q \in Seq(S), NEW n \in 1..Len(q)
    PROVE  /\ SubSeq(q, 1, n) \in Seq(S) /\ SubSeq(q, 1, n) # <<>>
           /\ SubSeq(q, n + 1, Len(q)) \in Seq(S)
           /\ Ids(q) = Ids(SubSeq(q, 1, n)) \cup Ids(SubSeq(q, n + 1, Len(q)))
<1> DEFINE a == SubSeq(q, 1, n)
           b == SubSeq(q, n + 1, Len(q))
<1>1. /\ a \in Seq(S) /\ Len(a) = n /\ n \in Nat /\ n >= 1 /\ Len(q) \in Nat
      /\ \A k \in 1..n : a[k] = q[k]
  OBVIOUS
<1>2. /\ b \in Seq(S) /\ Len(b) = Len(q) - n
      /\ \A k \in 1..Len(q) - n : b[k] = q[n + k]
  <2>1. b \in Seq(S)
    OBVIOUS
  <2>2. Len(b) = Len(q) - n
    BY <1>1
  <2>3. ASSUME NEW k \in 1..Len(q) - n PROVE b[k] = q[n + k]
    BY <1>1, <2>2
  <2> QED
    BY <2>1, <2>2, <2>3
<1> HIDE DEF a, b
<1>3. Ids(a) \subseteq Ids(q) /\ Ids(b) \subseteq Ids(q)
  <2>1. ASSUME NEW k \in 1..Len(a) PROVE a[k] \in Ids(q)
    BY <1>1 DEF Ids
  <2>2. ASSUME NEW k \in 1..Len(b) PROVE b[k] \in Ids(q)
    <3>1. n + k \in 1..Len(q) /\ b[k] = q[n + k]
      BY <1>1, <1>2
    <3> QED
      BY <3>1 DEF Ids
  <2> QED
    BY <2>1, <2>2 DEF Ids
<1>4. ASSUME NEW k \in 1..Len(q) PROVE q[k] \in Ids(a) \cup Ids(b)
  <2>1. CASE k <= n
    BY <1>1, <2>1 DEF Ids
  <2>2. CASE k > n
    <3>1. k - n \in 1..Len(b) /\ b[k - n] = q[k]
      BY <1>1, <1>2, <2>2
    <3> QED
      BY <3>1 DEF Ids
  <2> QED
    BY <1>1, <2>1, <2>2
<1>5. Ids(q) \subseteq Ids(a) \cup Ids(b)
  BY <1>4 DEF Ids
<1>6. a # <<>>
  BY <1>1
<1> QED
  BY <1>1, <1>2, <1>3, <1>5, <1>6 DEF a, b

-----------------------------------------------------------------------------
(* Steps of one client. *)

\* Nothing changes for another client than c, but that the server may have come up.
Only(c) ==
    /\ \A d \in ClientId \ {c} :
          /\ proc'[d] = proc[d] /\ attached'[d] = attached[d]
          /\ ibuf'[d] = ibuf[d] /\ mode'[d] = mode[d] /\ pending'[d] = pending[d]
          /\ up'[d] = up[d] /\ down'[d] = down[d] /\ open'[d] = open[d]
          /\ conn'[d] = conn[d] /\ ses'[d] = ses[d] /\ bad'[d] = bad[d]
          /\ susp'[d] = susp[d] /\ out'[d] = out[d] /\ tty'[d] = tty[d]
    /\ server' = server \/ (server = "off" /\ server' = "up")

\* It is enough to look at the client whose step it is.
LEMMA OneClient ==
    ASSUME IInv, NEW c \in ClientId, Only(c), TypeOK', Order(c)', Woken(c)'
    PROVE  IInv'
<1> SUFFICES ASSUME NEW d \in ClientId \ {c} PROVE Order(d)' /\ Woken(d)'
  BY DEF IInv
<1>1. Order(d) /\ Woken(d)
  BY DEF IInv
<1>2. Order(d)'
  BY <1>1 DEF Only, Order
<1>3. Waking(d)' <=> Waking(d)
  BY DEF Only, Waking, InFlight
<1>4. susp[d] => (Live(d)' => Live(d))
  BY <1>1 DEF Only, Order, Live
<1>5. Woken(d)'
  BY <1>1, <1>3, <1>4 DEF Only, Woken
<1> QED
  BY <1>2, <1>5

\* The client does not touch what the server keeps.
LEMMA ServerKept ==
    ASSUME IInv, NEW c \in ClientId, UNCHANGED serverVars, Waking(c) => Waking(c)'
    PROVE  Woken(c)'
BY DEF IInv, Woken, Live, serverVars

\* imsg_read takes nothing from what is on its way.
LEMMA ReadKeeps ==
    ASSUME TypeOK, NEW c \in ClientId, Read(c)
    PROVE  /\ ibuf' \in [ClientId -> Seq(ServerMsg)] /\ down' \in [ClientId -> Seq(ServerMsg)]
           /\ ibuf'[c] # <<>>
           /\ Ids(ibuf'[c]) \cup Ids(down'[c]) = Ids(ibuf[c]) \cup Ids(down[c])
           /\ \A d \in ClientId \ {c} : ibuf'[d] = ibuf[d] /\ down'[d] = down[d]
<1> DEFINE q == down[c]
<1>1. PICK n \in 1..Len(q) :
          /\ ibuf' = Set(ibuf, c, ibuf[c] \o SubSeq(q, 1, n))
          /\ down' = Set(down, c, SubSeq(q, n + 1, Len(q)))
  BY DEF Read
<1>2. q \in Seq(ServerMsg) /\ ibuf[c] \in Seq(ServerMsg)
  BY DEF TypeOK
<1> DEFINE a == SubSeq(q, 1, n)
           b == SubSeq(q, n + 1, Len(q))
<1>3. /\ a \in Seq(ServerMsg) /\ b \in Seq(ServerMsg) /\ a # <<>>
      /\ Ids(q) = Ids(a) \cup Ids(b)
  BY <1>2, IdsCut
<1> HIDE DEF a, b
<1>4. ibuf[c] \o a \in Seq(ServerMsg) /\ Ids(ibuf[c] \o a) = Ids(ibuf[c]) \cup Ids(a)
  BY <1>2, <1>3, Joined
<1>5. ibuf[c] \o a # <<>>
  BY <1>2, <1>3
<1>6. ibuf' = Set(ibuf, c, ibuf[c] \o a) /\ down' = Set(down, c, b)
  BY <1>1 DEF a, b
<1>7. ibuf'[c] = ibuf[c] \o a /\ down'[c] = b
  BY <1>6 DEF Set, TypeOK
<1>8. /\ ibuf' \in [ClientId -> Seq(ServerMsg)] /\ down' \in [ClientId -> Seq(ServerMsg)]
      /\ \A d \in ClientId \ {c} : ibuf'[d] = ibuf[d] /\ down'[d] = down[d]
  BY <1>3, <1>4, <1>6 DEF Set, TypeOK
<1> QED
  BY <1>3, <1>4, <1>5, <1>7, <1>8

\* client_callback.
LEMMA ClientReadSound ==
    ASSUME IInv, NEW c \in ClientId, ClientRead(c)
    PROVE  IInv'
<1>1. TypeOK /\ Order(c)
  BY DEF IInv
<1>2. /\ ibuf' \in [ClientId -> Seq(ServerMsg)] /\ down' \in [ClientId -> Seq(ServerMsg)]
      /\ ibuf'[c] # <<>>
      /\ Ids(ibuf'[c]) \cup Ids(down'[c]) = Ids(ibuf[c]) \cup Ids(down[c])
      /\ \A d \in ClientId \ {c} : ibuf'[d] = ibuf[d] /\ down'[d] = down[d]
  BY <1>1, ReadKeeps DEF ClientRead
<1>3. TypeOK'
  BY <1>1, <1>2 DEF TypeOK, ClientRead, Set, serverVars
<1>4. Only(c)
  BY <1>1, <1>2 DEF TypeOK, ClientRead, Only, Set, serverVars
<1>5. Order(c)'
  BY <1>1 DEF TypeOK, ClientRead, Order, Set, serverVars
<1>6. InFlight(c)' = InFlight(c)
  BY <1>2 DEF InFlight, ClientRead, serverVars
<1>7. Waking(c) => Waking(c)'
  BY <1>6 DEF Waking, ClientRead, serverVars
<1>8. Woken(c)'
  BY <1>7, ServerKept DEF ClientRead
<1> QED
  BY <1>3, <1>4, <1>5, <1>8, OneClient

\* The client's process ends: the server will find its connection closed.
LEMMA LeaveSound ==
    ASSUME IInv, NEW c \in ClientId, NEW why \in Reason, Leave(c, why),
           UNCHANGED <<first, attached, up, down, open, serverVars>>
    PROVE  IInv'
<1>1. TypeOK /\ Order(c)
  BY DEF IInv
<1>2. TypeOK'
  BY <1>1 DEF TypeOK, Leave, Set, serverVars
<1>3. Only(c)
  BY <1>1 DEF TypeOK, Leave, Only, Set, serverVars
<1>4. Order(c)'
  BY <1>1 DEF TypeOK, Leave, Order, Set, serverVars
<1>5. Waking(c)'
  BY <1>1 DEF TypeOK, Leave, Waking, Set
<1>6. Woken(c)'
  BY <1>5, ServerKept
<1> QED
  BY <1>2, <1>3, <1>4, <1>6, OneClient

\* client_dispatch_wait reads again, or leaves.
LEMMA ReadAgainSound ==
    ASSUME IInv, NEW c \in ClientId, ReadAgain(c)
    PROVE  IInv'
<1>1. TypeOK /\ Order(c)
  BY DEF IInv
<1>2. CASE Leave(c, "imsg_read failed") /\ UNCHANGED down
  BY <1>2, LeaveSound DEF ReadAgain, Reason
<1>3. CASE Read(c) /\ mode' = Set(mode, c, "wait") /\ UNCHANGED <<proc, pending, reason>>
  <2>1. /\ ibuf' \in [ClientId -> Seq(ServerMsg)] /\ down' \in [ClientId -> Seq(ServerMsg)]
        /\ ibuf'[c] # <<>>
        /\ Ids(ibuf'[c]) \cup Ids(down'[c]) = Ids(ibuf[c]) \cup Ids(down[c])
        /\ \A d \in ClientId \ {c} : ibuf'[d] = ibuf[d] /\ down'[d] = down[d]
    BY <1>1, <1>3, ReadKeeps
  <2>2. TypeOK'
    BY <1>1, <1>3, <2>1 DEF TypeOK, ReadAgain, Set, serverVars
  <2>3. Only(c)
    BY <1>1, <1>3, <2>1 DEF TypeOK, ReadAgain, Only, Set, serverVars
  <2>4. Order(c)'
    BY <1>1, <1>3 DEF TypeOK, ReadAgain, Order, Set, serverVars
  <2>5. InFlight(c)' = InFlight(c)
    BY <2>1 DEF InFlight, ReadAgain, serverVars
  <2>6. Waking(c) => Waking(c)'
    BY <1>3, <2>5 DEF Waking, ReadAgain, serverVars
  <2>7. Woken(c)'
    BY <2>6, ServerKept DEF ReadAgain
  <2> QED
    BY <2>2, <2>3, <2>4, <2>7, OneClient
<1>4. CASE mode' = Set(mode, c, "wait") /\ UNCHANGED <<proc, pending, reason, ibuf, down>>
  <2>1. TypeOK'
    BY <1>1, <1>4 DEF TypeOK, ReadAgain, Set, serverVars
  <2>2. Only(c)
    BY <1>1, <1>4 DEF TypeOK, ReadAgain, Only, Set, serverVars
  <2>3. Order(c)'
    BY <1>1, <1>4 DEF TypeOK, ReadAgain, Order, Set, serverVars
  <2>4. Waking(c) => Waking(c)'
    BY <1>4 DEF Waking, InFlight, ReadAgain, serverVars
  <2>5. Woken(c)'
    BY <2>4, ServerKept DEF ReadAgain
  <2> QED
    BY <2>1, <2>2, <2>3, <2>5, OneClient
<1> QED
  BY <1>2, <1>3, <1>4 DEF ReadAgain

\* A message is taken out of the buffer, and the turn goes on while there are more.
LEMMA NextMsgProps ==
    ASSUME TypeOK, NEW c \in ClientId, mode[c] # "none", NextMsg(c)
    PROVE  /\ ibuf' \in [ClientId -> Seq(ServerMsg)]
           /\ mode' \in [ClientId -> {"none", "again", "wait", "attached"}]
           /\ mode'[c] # "none" <=> ibuf'[c] # <<>>
           /\ mode'[c] \in {"none", mode[c]}
           /\ Ids(ibuf[c]) = {Head(ibuf[c])} \cup Ids(ibuf'[c])
           /\ Head(ibuf[c]) \in ServerMsg
           /\ \A d \in ClientId \ {c} : ibuf'[d] = ibuf[d] /\ mode'[d] = mode[d]
<1> DEFINE q == ibuf[c]
<1>1. q \in Seq(ServerMsg) /\ q # <<>>
  BY DEF TypeOK
<1>2. /\ Head(q) \in ServerMsg /\ Tail(q) \in Seq(ServerMsg)
      /\ Len(q) = 1 <=> Tail(q) = <<>>
      /\ Ids(q) = {Head(q)} \cup Ids(Tail(q))
  BY <1>1, IdsTail
<1>3. ibuf'[c] = Tail(q) /\ mode'[c] = IF Len(q) = 1 THEN "none" ELSE mode[c]
  BY DEF NextMsg, Set, TypeOK
<1>4. /\ ibuf' \in [ClientId -> Seq(ServerMsg)]
      /\ \A d \in ClientId \ {c} : ibuf'[d] = ibuf[d]
  BY <1>2 DEF NextMsg, Set, TypeOK
<1>5. /\ mode' \in [ClientId -> {"none", "again", "wait", "attached"}]
      /\ \A d \in ClientId \ {c} : mode'[d] = mode[d]
  BY DEF NextMsg, Set, TypeOK
<1> QED
  BY <1>2, <1>3, <1>4, <1>5

\* client_write_server: what the client says comes after what it was started for.
LEMMA ReplyProps ==
    ASSUME TypeOK, NEW c \in ClientId, Order(c), NEW msg \in ClientMsg \ FirstMsg, Reply(c, msg)
    PROVE  /\ up' \in [ClientId -> Seq(ClientMsg)] /\ up'[c] # <<>>
           /\ Ids(up'[c]) = Ids(up[c]) \cup {msg}
           /\ Ids(Tail(up'[c])) \cap FirstMsg = {}
           /\ Ids(up'[c]) \cap FirstMsg = Ids(up[c]) \cap FirstMsg
           /\ \A d \in ClientId \ {c} : up'[d] = up[d]
<1> DEFINE q == up[c]
<1>1. q \in Seq(ClientMsg)
  BY DEF TypeOK
<1>2. /\ Append(q, msg) \in Seq(ClientMsg) /\ Append(q, msg) # <<>>
      /\ Ids(Append(q, msg)) = Ids(q) \cup {msg}
      /\ Ids(Tail(Append(q, msg))) \subseteq (IF q = <<>> THEN {} ELSE Ids(Tail(q)) \cup {msg})
  BY <1>1, IdsAppend
<1>3. up'[c] = Append(q, msg)
  BY DEF Reply, Set, TypeOK
<1>4. up' \in [ClientId -> Seq(ClientMsg)] /\ \A d \in ClientId \ {c} : up'[d] = up[d]
  BY <1>2 DEF Reply, Set, TypeOK
<1>5. q # <<>> => Ids(Tail(q)) \cap FirstMsg = {}
  BY DEF Order
<1> QED
  BY <1>2, <1>3, <1>4, <1>5

\* client_dispatch_wait: a client that leaves is gone, one that goes on has only
\* taken MSG_READY.
LEMMA DispatchWaitSound ==
    ASSUME IInv, NEW c \in ClientId, DispatchWait(c)
    PROVE  IInv'
<1>1. TypeOK /\ Order(c)
  BY DEF IInv
<1>2. CASE \E why \in Reason : Leave(c, why) /\ UNCHANGED attached
  BY <1>2, LeaveSound DEF DispatchWait
<1>3. CASE /\ Head(ibuf[c]) = "READY" /\ attached' = Set(attached, c, TRUE)
           /\ NextMsg(c) /\ UNCHANGED <<proc, pending, reason>>
  <2>1. /\ ibuf' \in [ClientId -> Seq(ServerMsg)]
        /\ mode' \in [ClientId -> {"none", "again", "wait", "attached"}]
        /\ mode'[c] # "none" <=> ibuf'[c] # <<>>
        /\ mode'[c] \in {"none", mode[c]}
        /\ Ids(ibuf[c]) = {Head(ibuf[c])} \cup Ids(ibuf'[c])
        /\ \A d \in ClientId \ {c} : ibuf'[d] = ibuf[d] /\ mode'[d] = mode[d]
    BY <1>1, <1>3, NextMsgProps DEF DispatchWait
  <2>2. TypeOK'
    BY <1>1, <1>3, <2>1 DEF TypeOK, DispatchWait, Set, serverVars
  <2>3. Only(c)
    BY <1>1, <1>3, <2>1 DEF TypeOK, DispatchWait, Only, Set, serverVars
  <2>4. attached'[c]
    BY <1>1, <1>3 DEF TypeOK, Set
  <2>5. Order(c)'
    BY <1>1, <1>3, <2>4 DEF DispatchWait, Order, serverVars
  <2>6. InFlight(c) = InFlight(c)' \cup {"READY"}
    BY <1>3, <2>1 DEF InFlight, DispatchWait, serverVars
  <2>7. Waking(c) => Waking(c)'
    BY <1>3, <2>4, <2>6 DEF Waking, DispatchWait, serverVars
  <2>8. Woken(c)'
    BY <2>7, ServerKept DEF DispatchWait
  <2> QED
    BY <2>2, <2>3, <2>5, <2>8, OneClient
<1> QED
  BY <1>2, <1>3 DEF DispatchWait, Reason, ServerMsg

\* client_dispatch_attached: a message that stops the client is taken by stopping.
LEMMA DispatchAttachedSound ==
    ASSUME IInv, NEW c \in ClientId, DispatchAttached(c)
    PROVE  IInv'
<1>1. TypeOK /\ Order(c) /\ proc[c] = "run"
  BY DEF IInv, DispatchAttached
<1>2. CASE \E why \in Reason : Leave(c, why) /\ UNCHANGED up
  BY <1>2, LeaveSound DEF DispatchAttached
<1>3. ASSUME NextMsg(c)
      PROVE  /\ ibuf' \in [ClientId -> Seq(ServerMsg)]
             /\ mode' \in [ClientId -> {"none", "again", "wait", "attached"}]
             /\ mode'[c] # "none" <=> ibuf'[c] # <<>>
             /\ mode'[c] \in {"none", mode[c]}
             /\ Ids(ibuf[c]) = {Head(ibuf[c])} \cup Ids(ibuf'[c])
             /\ \A d \in ClientId \ {c} : ibuf'[d] = ibuf[d] /\ mode'[d] = mode[d]
  BY <1>1, <1>3, NextMsgProps DEF DispatchAttached
<1>4. attached[c]
  BY <1>1 DEF Order, DispatchAttached
<1>5. CASE /\ Head(ibuf[c]) \in {"DETACH", "EXIT", "SHUTDOWN"}
           /\ Reply(c, "EXITING") /\ NextMsg(c) /\ UNCHANGED <<proc, pending, reason>>
  <2>1. "EXITING" \in ClientMsg \ FirstMsg
    BY DEF ClientMsg, FirstMsg
  <2>2. /\ up' \in [ClientId -> Seq(ClientMsg)] /\ up'[c] # <<>>
        /\ Ids(up'[c]) = Ids(up[c]) \cup {"EXITING"}
        /\ Ids(Tail(up'[c])) \cap FirstMsg = {}
        /\ Ids(up'[c]) \cap FirstMsg = Ids(up[c]) \cap FirstMsg
        /\ \A d \in ClientId \ {c} : up'[d] = up[d]
    BY <1>1, <1>5, <2>1, ReplyProps
  <2>3. TypeOK'
    <3>1. UNCHANGED <<proc, pending, reason, first, attached, down, open, serverVars>>
      BY <1>5 DEF DispatchAttached
    <3>2. /\ ibuf' \in [ClientId -> Seq(ServerMsg)]
          /\ mode' \in [ClientId -> {"none", "again", "wait", "attached"}]
          /\ mode'[c] # "none" <=> ibuf'[c] # <<>>
          /\ \A d \in ClientId \ {c} : ibuf'[d] = ibuf[d] /\ mode'[d] = mode[d]
      BY <1>3, <1>5
    <3>3. \A d \in ClientId : mode'[d] # "none" <=> ibuf'[d] # <<>>
      BY <1>1, <3>2 DEF TypeOK
    <3> QED
      BY <1>1, <2>2, <3>1, <3>2, <3>3 DEF TypeOK, serverVars
  <2>4. Only(c)
    BY <1>3, <1>5, <2>2 DEF DispatchAttached, Only, serverVars
  <2>5. Order(c)'
    BY <1>1, <1>4, <1>5, <2>2 DEF DispatchAttached, Order, serverVars
  <2>6. Waking(c)'
    BY <2>2 DEF Waking
  <2>7. Woken(c)'
    BY <2>6, ServerKept DEF DispatchAttached
  <2> QED
    BY <2>3, <2>4, <2>5, <2>7, OneClient
<1>6. ASSUME NEW state \in {"stopped", "locking"},
             proc' = Set(proc, c, state), NextMsg(c), UNCHANGED <<pending, reason, up>>
      PROVE  IInv'
  <2>1. TypeOK'
    BY <1>1, <1>3, <1>6 DEF TypeOK, DispatchAttached, Set, serverVars
  <2>2. Only(c)
    BY <1>1, <1>3, <1>6 DEF TypeOK, DispatchAttached, Only, Set, serverVars
  <2>3. proc'[c] = state
    BY <1>1, <1>6 DEF TypeOK, Set
  <2>4. Order(c)'
    BY <1>1, <1>4, <1>6, <2>3 DEF DispatchAttached, Order, serverVars
  <2>5. Waking(c)'
    BY <1>6, <2>3 DEF Waking
  <2>6. Woken(c)'
    BY <2>5, ServerKept DEF DispatchAttached
  <2> QED
    BY <2>1, <2>2, <2>4, <2>6, OneClient
<1> QED
  BY <1>2, <1>5, <1>6 DEF DispatchAttached, Reason, ServerMsg

\* client_dispatch_attached, after system(): MSG_UNLOCK is on its way.
LEMMA LockDoneSound ==
    ASSUME IInv, NEW c \in ClientId, LockDone(c)
    PROVE  IInv'
<1>1. TypeOK /\ Order(c)
  BY DEF IInv
<1>2. "UNLOCK" \in ClientMsg \ FirstMsg
  BY DEF ClientMsg, FirstMsg
<1>3. /\ up' \in [ClientId -> Seq(ClientMsg)] /\ up'[c] # <<>>
      /\ Ids(up'[c]) = Ids(up[c]) \cup {"UNLOCK"}
      /\ Ids(Tail(up'[c])) \cap FirstMsg = {}
      /\ Ids(up'[c]) \cap FirstMsg = Ids(up[c]) \cap FirstMsg
      /\ \A d \in ClientId \ {c} : up'[d] = up[d]
  BY <1>1, <1>2, ReplyProps DEF LockDone
<1>4. TypeOK'
  BY <1>1, <1>3 DEF TypeOK, LockDone, Set, serverVars
<1>5. Only(c)
  BY <1>1, <1>3 DEF TypeOK, LockDone, Only, Set, serverVars
<1>6. proc'[c] = "run"
  BY <1>1 DEF TypeOK, LockDone, Set
<1>7. Order(c)'
  BY <1>1, <1>3, <1>6 DEF LockDone, Order, serverVars
<1>8. Waking(c)'
  BY <1>3 DEF Waking
<1>9. Woken(c)'
  BY <1>8, ServerKept DEF LockDone
<1> QED
  BY <1>4, <1>5, <1>7, <1>9, OneClient

\* A signal is raised; SIGCONT is pending when it lets the client go on.
LEMMA RaiseSound ==
    ASSUME IInv, NEW c \in ClientId, NEW sig \in Signal, Raise(c, sig)
    PROVE  IInv'
<1>1. TypeOK /\ Order(c)
  BY DEF IInv
<1>2. pending' \in [ClientId -> SUBSET Signal] /\ pending'[c] = pending[c] \cup {sig}
  BY <1>1 DEF TypeOK, Raise, Set
<1>3. /\ proc' \in [ClientId -> {"off", "run", "stopped", "locking", "gone"}]
      /\ proc'[c] = IF proc[c] = "stopped" /\ sig = "CONT" THEN "run" ELSE proc[c]
  BY <1>1 DEF TypeOK, Raise, Set
<1>4. TypeOK'
  BY <1>1, <1>2, <1>3 DEF TypeOK, Raise, serverVars
<1>5. Only(c)
  BY <1>1 DEF TypeOK, Raise, Only, Set, serverVars
<1>6. Order(c)'
  BY <1>1, <1>3 DEF Raise, Order, serverVars
<1>7. Waking(c) => Waking(c)'
  BY <1>1, <1>2, <1>3 DEF Order, Raise, Waking, InFlight, serverVars
<1>8. Woken(c)'
  BY <1>7, ServerKept DEF Raise
<1> QED
  BY <1>4, <1>5, <1>6, <1>8, OneClient

\* client_signal: SIGCONT is answered by MSG_WAKEUP.
LEMMA HandleSound ==
    ASSUME IInv, NEW c \in ClientId, NEW sig \in Signal, Handle(c, sig)
    PROVE  IInv'
<1>1. TypeOK /\ Order(c)
  BY DEF IInv
<1>2. CASE attached[c]
  <2> DEFINE msg == CASE sig = "TERM"  -> "EXITING"
                      [] sig = "CONT"  -> "WAKEUP"
                      [] sig = "WINCH" -> "RESIZE"
  <2>1. /\ msg \in ClientMsg \ FirstMsg /\ Reply(c, msg)
        /\ sig = "CONT" => msg = "WAKEUP"
    BY <1>2 DEF Handle, Signal, ClientMsg, FirstMsg
  <2> HIDE DEF msg
  <2>2. /\ up' \in [ClientId -> Seq(ClientMsg)] /\ up'[c] # <<>>
        /\ Ids(up'[c]) = Ids(up[c]) \cup {msg}
        /\ Ids(Tail(up'[c])) \cap FirstMsg = {}
        /\ Ids(up'[c]) \cap FirstMsg = Ids(up[c]) \cap FirstMsg
        /\ \A d \in ClientId \ {c} : up'[d] = up[d]
    BY <1>1, <2>1, ReplyProps
  <2>3. /\ pending' = Set(pending, c, pending[c] \ {sig})
        /\ UNCHANGED <<proc, reason, ibuf, mode, first, attached, down, open, serverVars>>
    BY <1>2 DEF Handle
  <2>4. TypeOK'
    BY <1>1, <2>2, <2>3 DEF TypeOK, Set, serverVars
  <2>5. Only(c)
    BY <1>1, <2>2, <2>3 DEF TypeOK, Only, Set, serverVars
  <2>6. Order(c)'
    BY <1>1, <2>2, <2>3 DEF Order, Handle, serverVars
  <2>7. pending'[c] = pending[c] \ {sig}
    BY <1>1, <2>3 DEF TypeOK, Set
  <2>8. Waking(c) => Waking(c)'
    BY <2>1, <2>2, <2>3, <2>7 DEF Waking, InFlight, serverVars
  <2>9. Woken(c)'
    BY <2>3, <2>8, ServerKept
  <2> QED
    BY <2>4, <2>5, <2>6, <2>9, OneClient
<1>3. CASE ~attached[c] /\ sig = "TERM"
  BY <1>3, LeaveSound DEF Handle, Reason
<1>4. CASE ~attached[c] /\ sig # "TERM"
  <2>1. /\ pending' = Set(pending, c, pending[c] \ {sig})
        /\ UNCHANGED <<proc, reason, ibuf, mode, first, attached, up, down, open, serverVars>>
    BY <1>4 DEF Handle
  <2>2. TypeOK'
    BY <1>1, <2>1 DEF TypeOK, Set, serverVars
  <2>3. Only(c)
    BY <1>1, <2>1 DEF TypeOK, Only, Set, serverVars
  <2>4. Order(c)'
    BY <1>1, <2>1 DEF Order, serverVars
  <2>5. Waking(c) => Waking(c)'
    BY <1>4, <2>1 DEF Waking, InFlight, serverVars
  <2>6. Woken(c)'
    BY <2>1, <2>5, ServerKept
  <2> QED
    BY <2>2, <2>3, <2>4, <2>6, OneClient
<1> QED
  BY <1>2, <1>3, <1>4

\* client_connect: nothing is known of the client yet.
LEMMA ConnectSound ==
    ASSUME IInv, NEW c \in ClientId, NEW msg \in Commands, Connect(c, msg)
    PROVE  IInv'
<1>1. TypeOK /\ Order(c)
  BY DEF IInv
<1>2. msg \in FirstMsg /\ msg \in ClientMsg
  BY CommandAssumption DEF ClientMsg
<1>3. /\ <<msg>> \in Seq(ClientMsg) /\ Tail(<<msg>>) = <<>>
  BY <1>2
<1>4. conn[c] = "none" /\ ~ses[c] /\ ~bad[c] /\ ~susp[c]
  BY <1>1 DEF Connect, Order
<1>5. TypeOK'
  BY <1>1, <1>2, <1>3 DEF TypeOK, Connect, Set
<1>6. Only(c)
  BY <1>1 DEF TypeOK, Connect, Only, Set
<1>7. /\ up'[c] = <<msg>> /\ proc'[c] = "run"
      /\ conn'[c] = IF server = "off" THEN "live" ELSE "none"
      /\ server' # "off"
  BY <1>1, <1>4 DEF TypeOK, Connect, Set
<1>8. Order(c)'
  BY <1>1, <1>3, <1>4, <1>7, IdsEmpty DEF Connect, Order
<1>9. Woken(c)'
  BY <1>4 DEF Connect, Woken
<1> QED
  BY <1>5, <1>6, <1>8, <1>9, OneClient

-----------------------------------------------------------------------------
(* The server's steps for one client. *)

\* The client is left as it is, and so is the server but for this client.
ServerOnly(c) ==
    /\ UNCHANGED <<clientVars, server>>
    /\ \A d \in ClientId \ {c} :
          /\ up'[d] = up[d] /\ down'[d] = down[d] /\ open'[d] = open[d]
          /\ conn'[d] = conn[d] /\ ses'[d] = ses[d] /\ bad'[d] = bad[d]
          /\ susp'[d] = susp[d] /\ out'[d] = out[d] /\ tty'[d] = tty[d]

\* It is enough to look at what the server keeps of the client.
LEMMA OneConnection ==
    ASSUME IInv, NEW c \in ClientId, ServerOnly(c), TypeOK', Order(c)', Woken(c)'
    PROVE  IInv'
<1>1. Only(c)
  BY DEF ServerOnly, Only, clientVars
<1> QED
  BY <1>1, OneClient

\* server_write_client: a message is queued, if the client is not bad.
LEMMA WriteProps ==
    ASSUME TypeOK, NEW c \in ClientId, NEW m \in ServerMsg, out' = Write(out, c, m)
    PROVE  /\ out' \in [ClientId -> Seq(ServerMsg)]
           /\ Ids(out'[c]) = Ids(out[c]) \cup (IF bad[c] THEN {} ELSE {m})
           /\ \A d \in ClientId \ {c} : out'[d] = out[d]
<1>1. out[c] \in Seq(ServerMsg)
  BY DEF TypeOK
<1>2. Append(out[c], m) \in Seq(ServerMsg) /\ Ids(Append(out[c], m)) = Ids(out[c]) \cup {m}
  BY <1>1, IdsAppend
<1>3. CASE bad[c]
  BY <1>3 DEF Write, TypeOK
<1>4. CASE ~bad[c]
  <2>1. out' = [out EXCEPT ![c] = Append(out[c], m)]
    BY <1>4 DEF Write
  <2> QED
    BY <1>2, <1>4, <2>1 DEF TypeOK
<1> QED
  BY <1>3, <1>4

\* server_accept_callback: the client is new, hence not suspended.
LEMMA AcceptSound ==
    ASSUME IInv, NEW c \in ClientId, Accept(c)
    PROVE  IInv'
<1>1. TypeOK /\ Order(c)
  BY DEF IInv
<1>2. TypeOK'
  <2>1. /\ UNCHANGED <<clientVars, up, down, server, shutdown, session, ses, bad, susp, exit, out>>
        /\ \E v \in {"live", "lost"} : conn' = [conn EXCEPT ![c] = v]
        /\ open' \in {open, [open EXCEPT ![c] = FALSE]}
        /\ tty' \in {tty, [tty EXCEPT ![c] = "ready"]}
    BY DEF Accept, Set
  <2>2. conn' \in [ClientId -> {"none", "live", "lost"}]
    BY <1>1, <2>1 DEF TypeOK
  <2>3. open' \in [ClientId -> BOOLEAN]
    BY <1>1, <2>1 DEF TypeOK
  <2>4. tty' \in [ClientId -> {"none", "ready", "started", "stopped", "closed"}]
    BY <1>1, <2>1 DEF TypeOK
  <2> QED
    BY <1>1, <2>1, <2>2, <2>3, <2>4 DEF TypeOK, clientVars
<1>3. ServerOnly(c)
  BY <1>1 DEF TypeOK, Accept, ServerOnly, Set
<1>4. proc[c] # "off" /\ server = "up" /\ ~susp[c]
  BY <1>1 DEF Accept, Order
<1>5. Order(c)'
  BY <1>1, <1>4 DEF TypeOK, Accept, Order, Set, clientVars
<1>6. Woken(c)'
  BY <1>4 DEF Accept, Woken
<1> QED
  BY <1>2, <1>3, <1>5, <1>6, OneConnection

\* server_client_lost: nobody waits for this client.
LEMMA LostSound ==
    ASSUME IInv, NEW c \in ClientId, Live(c), Lost({c}),
           down' \in [ClientId -> Seq(ServerMsg)], \A d \in ClientId \ {c} : down'[d] = down[d],
           UNCHANGED <<clientVars, up, server, shutdown, session, ses, bad, susp, exit>>
    PROVE  IInv'
<1>1. TypeOK /\ Order(c)
  BY DEF IInv
<1>2. /\ conn' \in [ClientId -> {"none", "live", "lost"}] /\ open' \in [ClientId -> BOOLEAN]
      /\ out' \in [ClientId -> Seq(ServerMsg)]
      /\ tty' \in [ClientId -> {"none", "ready", "started", "stopped", "closed"}]
  <2>1. /\ conn' = [d \in ClientId |-> IF d = c THEN "lost" ELSE conn[d]]
        /\ open' = [d \in ClientId |-> IF d = c THEN FALSE ELSE open[d]]
        /\ out'  = [d \in ClientId |-> IF d = c THEN <<>> ELSE out[d]]
        /\ tty'  = [d \in ClientId |-> IF d = c THEN "closed" ELSE tty[d]]
    BY DEF Lost
  <2>2. <<>> \in Seq(ServerMsg)
    OBVIOUS
  <2>3. conn' \in [ClientId -> {"none", "live", "lost"}] /\ open' \in [ClientId -> BOOLEAN]
    BY <1>1, <2>1 DEF TypeOK
  <2>4. out' \in [ClientId -> Seq(ServerMsg)]
    BY <1>1, <2>1, <2>2 DEF TypeOK
  <2>5. tty' \in [ClientId -> {"none", "ready", "started", "stopped", "closed"}]
    BY <1>1, <2>1 DEF TypeOK
  <2> QED
    BY <2>3, <2>4, <2>5
<1>3. TypeOK'
  BY <1>1, <1>2 DEF TypeOK, clientVars
<1>4. ServerOnly(c)
  BY DEF Lost, ServerOnly
<1>5. conn'[c] = "lost" /\ tty'[c] = "closed" /\ ~open'[c]
  BY DEF Lost
<1>6. Order(c)'
  BY <1>1, <1>5 DEF Order, Live, clientVars
<1>7. Woken(c)'
  BY <1>5 DEF Woken, Live
<1> QED
  BY <1>3, <1>4, <1>6, <1>7, OneConnection

\* server_client_callback, EV_WRITE: what was queued is in the socket.
LEMMA FlushSound ==
    ASSUME IInv, NEW c \in ClientId, Flush(c)
    PROVE  IInv'
<1>1. TypeOK /\ Order(c) /\ Woken(c)
  BY DEF IInv
<1>2. down[c] \in Seq(ServerMsg) /\ out[c] \in Seq(ServerMsg)
  BY <1>1 DEF TypeOK
<1>3. /\ down[c] \o out[c] \in Seq(ServerMsg)
      /\ Ids(down[c] \o out[c]) = Ids(down[c]) \cup Ids(out[c])
  BY <1>2, Joined
<1>4. /\ down' \in [ClientId -> Seq(ServerMsg)]
      /\ \A d \in ClientId \ {c} : down'[d] = down[d]
  BY <1>1, <1>3 DEF TypeOK, Flush, Set
<1>5. CASE proc[c] = "gone" \/ bad[c]
  BY <1>4, <1>5, LostSound DEF Flush
<1>6. CASE ~(proc[c] = "gone" \/ bad[c])
  <2>1. /\ down' = Set(down, c, down[c] \o out[c]) /\ out' = Set(out, c, <<>>)
        /\ UNCHANGED <<conn, open, tty, clientVars, up, server, shutdown, session,
                        ses, bad, susp, exit>>
    BY <1>6 DEF Flush
  <2>2. down'[c] = down[c] \o out[c] /\ out'[c] = <<>>
    BY <1>1, <2>1 DEF TypeOK, Set
  <2>3. TypeOK'
    BY <1>1, <1>4, <2>1 DEF TypeOK, Set, clientVars
  <2>4. ServerOnly(c)
    BY <1>1, <1>4, <2>1 DEF TypeOK, ServerOnly, Set
  <2>5. Order(c)'
    BY <1>1, <2>1 DEF Order, clientVars
  <2>6. InFlight(c)' = InFlight(c)
    BY <1>3, <2>1, <2>2, IdsEmpty DEF InFlight, clientVars
  <2>7. Waking(c)' <=> Waking(c)
    BY <2>1, <2>6 DEF Waking, clientVars
  <2>8. Woken(c)'
    BY <1>1, <2>1, <2>7 DEF Woken, Live
  <2> QED
    BY <2>3, <2>4, <2>5, <2>8, OneConnection
<1> QED
  BY <1>5, <1>6

\* server_client_msg_dispatch finds the connection closed.
LEMMA ServerEOFSound ==
    ASSUME IInv, NEW c \in ClientId, ServerEOF(c)
    PROVE  IInv'
<1>1. down' \in [ClientId -> Seq(ServerMsg)] /\ \A d \in ClientId \ {c} : down'[d] = down[d]
  BY DEF IInv, TypeOK, ServerEOF
<1> QED
  BY <1>1, LostSound DEF ServerEOF

\* A step that only queues a message: MSG_EXIT and MSG_DETACH.
LEMMA QueueSound ==
    ASSUME IInv, NEW c \in ClientId, NEW m \in ServerMsg, out' = Write(out, c, m),
           exit' \in [ClientId -> BOOLEAN],
           UNCHANGED <<clientVars, up, down, open, server, shutdown, session, conn,
                       ses, bad, susp, tty>>
    PROVE  IInv'
<1>1. TypeOK /\ Order(c) /\ Woken(c)
  BY DEF IInv
<1>2. /\ out' \in [ClientId -> Seq(ServerMsg)]
      /\ Ids(out[c]) \subseteq Ids(out'[c])
      /\ \A d \in ClientId \ {c} : out'[d] = out[d]
  BY <1>1, WriteProps
<1>3. TypeOK'
  BY <1>1, <1>2 DEF TypeOK, clientVars
<1>4. ServerOnly(c)
  BY <1>2 DEF ServerOnly
<1>5. Order(c)'
  BY <1>1 DEF Order, clientVars
<1>6. InFlight(c) \subseteq InFlight(c)'
  BY <1>2 DEF InFlight, clientVars
<1>7. Waking(c) => Waking(c)'
  BY <1>6 DEF Waking, clientVars
<1>8. Woken(c)'
  BY <1>1, <1>7 DEF Woken, Live
<1> QED
  BY <1>3, <1>4, <1>5, <1>8, OneConnection

\* server_client_check_exit.
LEMMA CheckExitSound ==
    ASSUME IInv, NEW c \in ClientId, CheckExit(c)
    PROVE  IInv'
<1>1. exit' \in [ClientId -> BOOLEAN] /\ "EXIT" \in ServerMsg
  BY DEF IInv, TypeOK, CheckExit, Set, ServerMsg
<1> QED
  BY <1>1, QueueSound DEF CheckExit

\* detach-client.
LEMMA DetachSound ==
    ASSUME IInv, NEW c \in ClientId, Detach(c)
    PROVE  IInv'
<1>1. exit' \in [ClientId -> BOOLEAN] /\ "DETACH" \in ServerMsg
  BY DEF IInv, TypeOK, Detach, ServerMsg
<1> QED
  BY <1>1, QueueSound DEF Detach

\* suspend-client and server_lock_client: the message is queued, since a client
\* that has a session is not bad, and drawing stops.
LEMMA SuspendKeeps ==
    ASSUME IInv, NEW c \in ClientId, NEW msg \in {"SUSPEND", "LOCK"}, Suspend(c, msg)
    PROVE  IInv'
<1>1. TypeOK /\ Order(c) /\ Live(c) /\ ses[c]
  BY DEF IInv, Suspend, MayWrite
<1>2. ~bad[c] /\ msg \in ServerMsg
  BY <1>1 DEF Order, ServerMsg
<1>3. /\ out' \in [ClientId -> Seq(ServerMsg)]
      /\ Ids(out'[c]) = Ids(out[c]) \cup {msg}
      /\ \A d \in ClientId \ {c} : out'[d] = out[d]
  BY <1>1, <1>2, WriteProps DEF Suspend
<1>4. TtyStop(tty[c]) \in {"none", "ready", "stopped", "closed"}
  BY <1>1 DEF TypeOK, TtyStop
<1>5. TypeOK'
  BY <1>1, <1>3, <1>4 DEF TypeOK, Suspend, Set, clientVars
<1>6. ServerOnly(c)
  BY <1>1, <1>3 DEF TypeOK, Suspend, ServerOnly, Set
<1>7. tty'[c] # "started"
  BY <1>1, <1>4 DEF TypeOK, Suspend, Set
<1>8. Order(c)'
  BY <1>1 DEF TypeOK, Suspend, Order, Live, clientVars
<1>9. Waking(c)'
  BY <1>3 DEF Waking, InFlight
<1>10. Woken(c)'
  BY <1>7, <1>9 DEF Woken
<1> QED
  BY <1>5, <1>6, <1>8, <1>10, OneConnection

\* server_client_msg_dispatch: what wakes a suspended client is answered by making
\* it one that is not, and a client that leaves has its terminal closed.
LEMMA ServerReadSound ==
    ASSUME IInv, NEW c \in ClientId, ServerRead(c)
    PROVE  IInv'
<1> DEFINE msg == Head(up[c])
<1>1. TypeOK /\ Order(c) /\ Woken(c) /\ Live(c) /\ ~bad[c]
  BY DEF IInv, ServerRead
<1>2. up[c] \in Seq(ClientMsg) /\ up[c] # <<>>
  BY <1>1 DEF TypeOK, ServerRead
<1>3. /\ Tail(up[c]) \in Seq(ClientMsg)
      /\ Ids(up[c]) = {msg} \cup Ids(Tail(up[c]))
      /\ Tail(up[c]) # <<>> => Ids(Tail(Tail(up[c]))) \subseteq Ids(Tail(up[c]))
  BY <1>2, IdsTail
<1>4. /\ up' \in [ClientId -> Seq(ClientMsg)] /\ up'[c] = Tail(up[c])
      /\ \A d \in ClientId \ {c} : up'[d] = up[d]
  BY <1>1, <1>3 DEF TypeOK, ServerRead, Set
<1>5. /\ Ids(up'[c]) \cap FirstMsg = {}
      /\ up'[c] # <<>> => Ids(Tail(up'[c])) \cap FirstMsg = {}
  BY <1>1, <1>2, <1>3, <1>4 DEF Order
<1>6. UNCHANGED <<clientVars, down, open, server, shutdown, conn>>
  BY DEF ServerRead
<1>7. proc[c] # "off" /\ conn[c] = "live" /\ server = "up"
  BY <1>1 DEF Order, Live
<1>8. ASSUME ses'[c] => ~bad'[c] PROVE Order(c)'
  BY <1>1, <1>5, <1>6, <1>7, <1>8 DEF Order, clientVars
<1>9. CASE ReadCommand(c, msg) /\ UNCHANGED susp
  <2>1. ~ses[c] /\ ~susp[c]
    <3>1. msg \in FirstMsg
      BY <1>9 DEF ReadCommand, FirstMsg
    <3> QED
      BY <1>1, <1>3, <3>1 DEF Order
  <2>2. \A m \in {"READY", "VERSION", "SHELL"} : m \in ServerMsg
    BY DEF ServerMsg
  <2>3. /\ out' \in [ClientId -> Seq(ServerMsg)]
        /\ \A d \in ClientId \ {c} : out'[d] = out[d]
    <3>1. CASE UNCHANGED out
      BY <1>1, <3>1 DEF TypeOK
    <3>2. CASE \E m \in {"READY", "VERSION", "SHELL"} : out' = Write(out, c, m)
      BY <1>1, <2>2, <3>2, WriteProps
    <3> QED
      BY <1>9, <3>1, <3>2 DEF ReadCommand
  <2>4. /\ ses' \in [ClientId -> BOOLEAN] /\ bad' \in [ClientId -> BOOLEAN]
        /\ exit' \in [ClientId -> BOOLEAN] /\ session' \in BOOLEAN
        /\ tty' \in [ClientId -> {"none", "ready", "started", "stopped", "closed"}]
    BY <1>1, <1>9 DEF TypeOK, ReadCommand, Set
  <2>5. TypeOK'
    BY <1>1, <1>4, <1>6, <1>9, <2>3, <2>4 DEF TypeOK, clientVars
  <2>6. /\ \A d \in ClientId \ {c} :
              ses'[d] = ses[d] /\ bad'[d] = bad[d] /\ tty'[d] = tty[d]
        /\ ses'[c] => ~bad'[c]
    BY <1>1, <1>9, <2>1 DEF TypeOK, ReadCommand, Set
  <2>7. ServerOnly(c)
    BY <1>4, <1>6, <1>9, <2>3, <2>6 DEF ServerOnly
  <2>8. Woken(c)'
    BY <1>9, <2>1 DEF Woken
  <2> QED
    BY <1>8, <2>5, <2>6, <2>7, <2>8, OneConnection
<1>10. CASE msg = "EXITING" /\ ReadExiting(c)
  <2>1. "EXITED" \in ServerMsg
    BY DEF ServerMsg
  <2>2. /\ out' \in [ClientId -> Seq(ServerMsg)]
        /\ \A d \in ClientId \ {c} : out'[d] = out[d]
    BY <1>1, <1>10, <2>1, WriteProps DEF ReadExiting
  <2>3. TypeOK'
    BY <1>1, <1>4, <1>6, <1>10, <2>2 DEF TypeOK, ReadExiting, Set, clientVars
  <2>4. ServerOnly(c)
    BY <1>1, <1>4, <1>6, <1>10, <2>2 DEF TypeOK, ReadExiting, ServerOnly, Set
  <2>5. ~ses'[c] /\ tty'[c] = "closed"
    BY <1>1, <1>10 DEF TypeOK, ReadExiting, Set
  <2>6. Woken(c)'
    BY <2>5 DEF Woken, Waking
  <2> QED
    BY <1>8, <2>3, <2>4, <2>5, <2>6, OneConnection
<1>11. CASE msg \in {"WAKEUP", "UNLOCK"} /\ ReadWakeup(c)
  <2>1. TtyStart(tty[c]) \in {"none", "ready", "started", "stopped", "closed"}
    BY <1>1 DEF TypeOK, TtyStart
  <2>2. TypeOK'
    BY <1>1, <1>4, <1>6, <1>11, <2>1 DEF TypeOK, ReadWakeup, Set, clientVars
  <2>3. ServerOnly(c)
    BY <1>1, <1>4, <1>6, <1>11 DEF TypeOK, ReadWakeup, ServerOnly, Set
  <2>4. ~susp'[c] /\ (ses'[c] => ~bad'[c])
    BY <1>1, <1>11 DEF TypeOK, ReadWakeup, Set
  <2>5. Woken(c)'
    BY <2>4 DEF Woken
  <2> QED
    BY <1>8, <2>2, <2>3, <2>4, <2>5, OneConnection
<1>12. CASE msg = "RESIZE" /\ UNCHANGED <<session, exit, bad, ses, out, susp, tty>>
  <2>1. TypeOK'
    BY <1>1, <1>4, <1>6, <1>12 DEF TypeOK, clientVars
  <2>2. ServerOnly(c)
    BY <1>4, <1>6, <1>12 DEF ServerOnly
  <2>3. Waking(c) => Waking(c)'
    BY <1>3, <1>4, <1>6, <1>12 DEF Waking, InFlight, clientVars
  <2>4. Woken(c)'
    BY <1>1, <1>6, <1>12, <2>3 DEF Woken, Live
  <2> QED
    BY <1>1, <1>8, <1>12, <2>1, <2>2, <2>4, OneConnection
<1> QED
  BY <1>9, <1>10, <1>11, <1>12 DEF ServerRead

-----------------------------------------------------------------------------
(* The server's steps for all clients. *)

\* server_destroy_session of the last session.
LEMMA EndSessionsSound ==
    ASSUME IInv, EndSessions
    PROVE  IInv'
<1>1. TypeOK'
  BY DEF IInv, TypeOK, EndSessions, clientVars
<1>2. ASSUME NEW c \in ClientId PROVE Order(c)' /\ Woken(c)'
  <2>1. Order(c) /\ Woken(c) /\ ~ses'[c]
    BY DEF IInv, EndSessions
  <2>2. Order(c)'
    BY <2>1 DEF Order, EndSessions, clientVars
  <2>3. Waking(c)' <=> Waking(c)
    BY DEF Waking, InFlight, EndSessions, clientVars
  <2>4. Woken(c)'
    BY <2>1, <2>3 DEF Woken, Live, EndSessions
  <2> QED
    BY <2>2, <2>4
<1> QED
  BY <1>1, <1>2 DEF IInv

\* server_send_shutdown: suspended clients are dropped, not told.
LEMMA SendShutdownSound ==
    ASSUME IInv, SendShutdown
    PROVE  IInv'
<1>1. TypeOK
  BY DEF IInv
<1> DEFINE cs == {c \in ClientId : conn[c] = "live" /\ (bad[c] \/ susp[c])}
<1>2. /\ conn' = [c \in ClientId |-> IF c \in cs THEN "lost" ELSE conn[c]]
      /\ open' = [c \in ClientId |-> IF c \in cs THEN FALSE ELSE open[c]]
      /\ tty'  = [c \in ClientId |-> IF c \in cs THEN "closed" ELSE tty[c]]
      /\ ses'  = [c \in ClientId |-> FALSE]
      /\ shutdown' = TRUE /\ session' = FALSE
      /\ UNCHANGED <<clientVars, up, down, server, bad, susp, exit>>
  BY DEF SendShutdown
<1>3. out' \in [ClientId -> Seq(ServerMsg)]
  <2>1. ASSUME NEW c \in ClientId PROVE Append(out[c], "SHUTDOWN") \in Seq(ServerMsg)
    <3>1. out[c] \in Seq(ServerMsg) /\ "SHUTDOWN" \in ServerMsg
      BY <1>1 DEF TypeOK, ServerMsg
    <3> QED
      BY <3>1, IdsAppend
  <2>2. ASSUME NEW c \in ClientId PROVE out[c] \in Seq(ServerMsg) /\ <<>> \in Seq(ServerMsg)
    BY <1>1 DEF TypeOK
  <2>3. out' = [c \in ClientId |->
                  CASE c \in cs -> <<>>
                    [] c \notin cs /\ conn[c] = "live" -> Append(out[c], "SHUTDOWN")
                    [] OTHER -> out[c]]
    BY DEF SendShutdown
  <2> HIDE DEF cs
  <2> QED
    BY <2>1, <2>2, <2>3
<1>4. TypeOK'
  <2>1. /\ conn' \in [ClientId -> {"none", "live", "lost"}] /\ open' \in [ClientId -> BOOLEAN]
        /\ ses' \in [ClientId -> BOOLEAN]
    BY <1>1, <1>2 DEF TypeOK
  <2>2. tty' \in [ClientId -> {"none", "ready", "started", "stopped", "closed"}]
    BY <1>1, <1>2 DEF TypeOK
  <2> QED
    BY <1>1, <1>2, <1>3, <2>1, <2>2 DEF TypeOK, clientVars
<1>5. ASSUME NEW c \in ClientId PROVE Order(c)' /\ Woken(c)'
  <2>1. Order(c) /\ Woken(c)
    BY DEF IInv
  <2>2. /\ conn'[c] = IF c \in cs THEN "lost" ELSE conn[c]
        /\ open'[c] = IF c \in cs THEN FALSE ELSE open[c]
        /\ tty'[c] = IF c \in cs THEN "closed" ELSE tty[c]
        /\ ~ses'[c]
    BY <1>2
  <2>3. Order(c)'
    BY <1>2, <2>1, <2>2 DEF Order, clientVars
  <2>4. CASE c \in cs
    <3>1. conn'[c] = "lost" /\ tty'[c] = "closed"
      BY <2>2, <2>4
    <3>2. ~Live(c)' /\ tty'[c] # "started"
      BY <3>1 DEF Live
    <3> QED
      BY <2>3, <3>2 DEF Woken
  <2>5. CASE c \notin cs
    <3>1. susp'[c] => tty'[c] = tty[c] /\ conn'[c] # "live" /\ tty[c] # "started"
      BY <1>2, <2>1, <2>2, <2>5 DEF Woken
    <3> QED
      BY <2>3, <3>1 DEF Woken, Live
  <2> QED
    BY <2>3, <2>4, <2>5
<1> QED
  BY <1>4, <1>5 DEF IInv

\* server_loop ends: no client is left to be woken.
LEMMA ServerExitSound ==
    ASSUME IInv, ServerExit
    PROVE  IInv'
<1>1. TypeOK'
  BY DEF IInv, TypeOK, ServerExit, clientVars
<1>2. ASSUME NEW c \in ClientId PROVE Order(c)' /\ Woken(c)'
  <2>1. Order(c) /\ Woken(c)
    BY DEF IInv
  <2>2. Order(c)'
    BY <2>1 DEF Order, ServerExit, clientVars
  <2>3. Woken(c)'
    BY <2>1 DEF Woken, Live, ServerExit
  <2> QED
    BY <2>2, <2>3
<1> QED
  BY <1>1, <1>2 DEF IInv

-----------------------------------------------------------------------------

\* Before anything has happened nobody is suspended.
LEMMA InitSound == Init => IInv
<1> SUFFICES ASSUME Init PROVE IInv
  OBVIOUS
<1>1. <<>> \in Seq(ServerMsg) /\ <<>> \in Seq(ClientMsg) /\ "other" \in FirstMsg
  BY DEF FirstMsg
<1>2. TypeOK
  BY <1>1 DEF Init, TypeOK, Reason
<1>3. ASSUME NEW c \in ClientId PROVE Order(c) /\ Woken(c)
  BY IdsEmpty DEF Init, Order, Woken
<1> QED
  BY <1>2, <1>3 DEF IInv

\* Every step keeps the inductive invariant.
LEMMA StepSound == IInv /\ [Next]_vars => IInv'
<1> SUFFICES ASSUME IInv, [Next]_vars PROVE IInv'
  OBVIOUS
<1>1. ASSUME NEW c \in ClientId, NEW msg \in Commands, Connect(c, msg) PROVE IInv'
  BY <1>1, ConnectSound
<1>2. ASSUME NEW c \in ClientId, ClientStep(c) PROVE IInv'
  <2>1. CASE ClientEOF(c)
    BY <2>1, LeaveSound DEF ClientEOF, Reason
  <2> QED
    BY <1>2, <2>1, ClientReadSound, ReadAgainSound, DispatchWaitSound, DispatchAttachedSound
       DEF ClientStep
<1>3. ASSUME NEW c \in ClientId, NEW sig \in Signal, Handle(c, sig) \/ Raise(c, sig) PROVE IInv'
  BY <1>3, HandleSound, RaiseSound
<1>4. ASSUME NEW c \in ClientId, LockDone(c) PROVE IInv'
  BY <1>4, LockDoneSound
<1>5. ASSUME NEW c \in ClientId, Killed(c) PROVE IInv'
  BY <1>5, LeaveSound DEF Killed, Reason
<1>6. ASSUME NEW c \in ClientId, ServerStep(c) PROVE IInv'
  BY <1>6, AcceptSound, ServerReadSound, ServerEOFSound, FlushSound, CheckExitSound DEF ServerStep
<1>7. ASSUME NEW c \in ClientId, Detach(c) PROVE IInv'
  BY <1>7, DetachSound
<1>8. ASSUME NEW c \in ClientId, NEW msg \in {"SUSPEND", "LOCK"}, Suspend(c, msg) PROVE IInv'
  BY <1>8, SuspendKeeps
<1>9. CASE EndSessions \/ SendShutdown \/ ServerExit
  BY <1>9, EndSessionsSound, SendShutdownSound, ServerExitSound
<1>10. CASE UNCHANGED vars
  <2>1. TypeOK'
    BY <1>10 DEF IInv, TypeOK, vars, clientVars, serverVars
  <2>2. ASSUME NEW c \in ClientId PROVE Order(c)' /\ Woken(c)'
    BY <1>10 DEF IInv, Order, Woken, Waking, InFlight, Live, vars, clientVars, serverVars
  <2> QED
    BY <2>1, <2>2 DEF IInv
<1> QED
  BY <1>1, <1>2, <1>3, <1>4, <1>5, <1>6, <1>7, <1>8, <1>9, <1>10 DEF Next

\* Queues, flags and processes have their types, and a client dispatches messages
\* just as long as there are any in its buffer (client.c, server-client.c).
THEOREM TypeCorrect == Spec => []TypeOK
<1>1. IInv => TypeOK
  BY DEF IInv
<1> QED
  BY <1>1, InitSound, StepSound, PTL DEF Spec

\* However many clients, signals and messages cross each other: a client that
\* server_lock_client or suspend-client has stopped is not drawn on, and there is
\* always something under way, or the user's turn, that makes the server hear of it.
THEOREM SuspendIsSound == Spec => []SuspendSound
<1>1. IInv => SuspendSound
  BY DEF IInv, Woken, Waking, SuspendSound
<1> QED
  BY <1>1, InitSound, StepSound, PTL DEF Spec

(***************************************************************************)
(* What a client says when it leaves.                                      *)
(*                                                                         *)
(* The messages to a client are in its buffer, in the socket and in the    *)
(* server's queue.  Only their order counts, not where they are: reading   *)
(* and writing leave Stream as it is.                                      *)
(***************************************************************************)
Stream(c) == (ibuf[c] \o down[c]) \o out[c]

\* What is written only to a client that attaches, and what only to one that does not.
Later  == {"EXITED", "DETACH", "SUSPEND", "LOCK"}
Answer == {"VERSION", "SHELL"}

\* What a client that is not attached has to read: MSG_READY comes once, before all
\* that is for attached clients.
Sorted(q) ==
    \A k \in 1..Len(q) :
        /\ q[k] \in Later => \E j \in 1..k - 1 : q[j] = "READY"
        /\ q[k] = "READY" => \A j \in k + 1..Len(q) : q[j] # "READY"

\* The server has not read what the client was started for.
Unread(c) == Ids(up[c]) \cap FirstMsg # {} \/ conn[c] = "none"

Asked(c) ==
    /\ Unread(c) => Ids(Stream(c)) \subseteq {"SHUTDOWN"} /\ ~exit[c] /\ ~attached[c]
    /\ Ids(up[c]) \cap FirstMsg \subseteq {first[c]}
    /\ "EXITING" \in Ids(up[c]) => attached[c]

\* MSG_READY is the last of what is read at once.
Waiting(c) ==
    /\ mode[c] \in {"again", "wait"} => ~attached[c]
    /\ \A k \in 1..Len(ibuf[c]) - 1 : ibuf[c][k] # "READY"

\* What a client that has not left will read.
Reads(c) ==
    proc[c] # "gone" =>
        /\ reason[c] = "none"
        /\ ~attached[c] => Sorted(Stream(c))
        /\ attached[c] => "READY" \notin Ids(Stream(c))
        /\ attached[c] \/ "READY" \in Ids(Stream(c)) => Ids(Stream(c)) \cap Answer = {}
        /\ Live(c) /\ ses[c] => attached[c] \/ "READY" \in Ids(Stream(c))

\* A client of another version has its answer before its connection is closed.
Answered(c) ==
    proc[c] \notin {"off", "gone"} /\ first[c] = "old" =>
        /\ bad[c] => "VERSION" \in Ids(Stream(c)) \/ shutdown
        /\ ~open[c] => "VERSION" \in Ids(ibuf[c]) \cup Ids(down[c])
                          \/ shutdown \/ server = "exited"

\* Why it has left, and that the terminal was closed before it was told to.
Left(c) ==
    /\ "EXITED" \in Ids(Stream(c)) => tty[c] = "closed"
    /\ reason[c] # "unexpected message"
    /\ reason[c] = "EXITED" => attached[c] /\ tty[c] = "closed"
    /\ reason[c] \in {"EXIT", "SHUTDOWN"} => ~attached[c]
    /\ reason[c] = "lost server" /\ first[c] = "old" => shutdown \/ server = "exited"

Told(c) == Asked(c) /\ Waiting(c) /\ Reads(c) /\ Answered(c) /\ Left(c)

RInv == \A c \in ClientId : Told(c)

-----------------------------------------------------------------------------
(* The order of messages. *)

\* Sorted at one place, for the lemmas that follow.
SortedAt(q, k) ==
    /\ q[k] \in Later => \E j \in 1..k - 1 : q[j] = "READY"
    /\ q[k] = "READY" => \A j \in k + 1..Len(q) : q[j] # "READY"

\* A message may be added if MSG_READY comes before it when it must, and once.
LEMMA SortedAppend ==
    ASSUME NEW S, NEW q \in Seq(S), NEW m \in S, Sorted(q),
           m \in Later => "READY" \in Ids(q), m = "READY" => "READY" \notin Ids(q)
    PROVE  Sorted(Append(q, m))
<1> DEFINE a == Append(q, m)
<1>1. /\ a \in Seq(S) /\ Len(a) = Len(q) + 1 /\ a[Len(q) + 1] = m
      /\ \A k \in 1..Len(q) : a[k] = q[k]
      /\ Len(q) \in Nat
  OBVIOUS
<1> HIDE DEF a
<1>2. ASSUME NEW k \in 1..Len(a) PROVE SortedAt(a, k)
  <2>1. CASE k = Len(q) + 1
    <3>1. ASSUME m \in Later PROVE \E j \in 1..k - 1 : a[j] = "READY"
      <4>1. PICK j \in 1..Len(q) : q[j] = "READY"
        BY <3>1 DEF Ids
      <4> QED
        BY <1>1, <2>1, <4>1
    <3> QED
      BY <1>1, <2>1, <3>1 DEF SortedAt
  <2>2. CASE k \in 1..Len(q)
    <3>1. a[k] = q[k] /\ SortedAt(q, k)
      BY <1>1, <2>2 DEF Sorted, SortedAt
    <3>2. ASSUME a[k] \in Later PROVE \E j \in 1..k - 1 : a[j] = "READY"
      BY <1>1, <2>2, <3>1, <3>2 DEF SortedAt
    <3>3. ASSUME a[k] = "READY", NEW j \in k + 1..Len(a) PROVE a[j] # "READY"
      <4>1. CASE j = Len(q) + 1
        BY <1>1, <2>2, <3>1, <3>3, <4>1 DEF Ids
      <4>2. CASE j \in k + 1..Len(q)
        BY <1>1, <2>2, <3>1, <3>3, <4>2 DEF SortedAt
      <4> QED
        BY <1>1, <2>2, <4>1, <4>2
    <3> QED
      BY <3>2, <3>3 DEF SortedAt
  <2> QED
    BY <1>1, <2>1, <2>2
<1> QED
  BY <1>2 DEF Sorted, SortedAt, a

\* What is left when the end is lost is in order.
LEMMA SortedPrefix ==
    ASSUME NEW S, NEW q \in Seq(S), NEW r \in Seq(S), Sorted(q \o r)
    PROVE  Sorted(q)
<1> DEFINE a == q \o r
<1>1. /\ Len(q) \in Nat /\ Len(r) \in Nat /\ Len(a) = Len(q) + Len(r)
      /\ \A k \in 1..Len(q) : a[k] = q[k]
  OBVIOUS
<1> HIDE DEF a
<1>2. ASSUME NEW k \in 1..Len(q) PROVE SortedAt(q, k)
  <2>1. k \in 1..Len(a) /\ SortedAt(a, k)
    BY <1>1 DEF Sorted, SortedAt, a
  <2>2. \A j \in 1..k - 1 : a[j] = q[j]
    BY <1>1
  <2>3. \A j \in k + 1..Len(q) : a[j] = q[j] /\ j \in k + 1..Len(a)
    BY <1>1
  <2> QED
    BY <1>1, <2>1, <2>2, <2>3 DEF SortedAt
<1> QED
  BY <1>2 DEF Sorted, SortedAt

\* The first message is one that a client may read that is not attached, and after
\* MSG_READY there is none.
LEMMA SortedHead ==
    ASSUME NEW S, NEW q \in Seq(S), q # <<>>, Sorted(q)
    PROVE  /\ Head(q) \notin Later
           /\ Head(q) = "READY" => "READY" \notin Ids(Tail(q))
<1>1. /\ Head(q) = q[1] /\ Len(q) \in Nat \ {0} /\ Len(Tail(q)) = Len(q) - 1
      /\ \A k \in 1..Len(q) - 1 : Tail(q)[k] = q[k + 1]
  OBVIOUS
<1>2. SortedAt(q, 1)
  BY <1>1 DEF Sorted, SortedAt
<1>3. Head(q) \notin Later
  BY <1>1, <1>2 DEF SortedAt
<1>4. ASSUME q[1] = "READY", NEW k \in 1..Len(Tail(q)) PROVE Tail(q)[k] # "READY"
  <2>1. k + 1 \in 2..Len(q) /\ Tail(q)[k] = q[k + 1]
    BY <1>1
  <2> QED
    BY <1>2, <1>4, <2>1 DEF SortedAt
<1> QED
  BY <1>1, <1>3, <1>4 DEF Ids

\* Nothing has to come before MSG_SHUTDOWN.
LEMMA SortedShutdown ==
    ASSUME NEW q, Ids(q) \subseteq {"SHUTDOWN"}
    PROVE  Sorted(q)
BY DEF Sorted, Ids, Later

-----------------------------------------------------------------------------
(* What steps do to the messages of a client. *)

\* The parts of what is on its way to a client.
LEMMA StreamType ==
    ASSUME TypeOK, NEW c \in ClientId
    PROVE  /\ ibuf[c] \in Seq(ServerMsg) /\ down[c] \in Seq(ServerMsg) /\ out[c] \in Seq(ServerMsg)
           /\ ibuf[c] \o down[c] \in Seq(ServerMsg) /\ Stream(c) \in Seq(ServerMsg)
           /\ Ids(ibuf[c] \o down[c]) = Ids(ibuf[c]) \cup Ids(down[c])
           /\ Ids(Stream(c)) = Ids(ibuf[c]) \cup Ids(down[c]) \cup Ids(out[c])
<1>1. ibuf[c] \in Seq(ServerMsg) /\ down[c] \in Seq(ServerMsg) /\ out[c] \in Seq(ServerMsg)
  BY DEF TypeOK
<1>2. /\ ibuf[c] \o down[c] \in Seq(ServerMsg)
      /\ Ids(ibuf[c] \o down[c]) = Ids(ibuf[c]) \cup Ids(down[c])
  BY <1>1, Joined
<1>3. /\ Stream(c) \in Seq(ServerMsg)
      /\ Ids(Stream(c)) = Ids(ibuf[c] \o down[c]) \cup Ids(out[c])
  <2> DEFINE a == ibuf[c] \o down[c]
             o == out[c]
  <2>1. a \in Seq(ServerMsg) /\ o \in Seq(ServerMsg)
    BY <1>1, <1>2
  <2>2. Stream(c) = a \o o
    BY DEF Stream
  <2> HIDE DEF a, o
  <2>3. a \o o \in Seq(ServerMsg) /\ Ids(a \o o) = Ids(a) \cup Ids(o)
    BY <2>1, Joined
  <2> QED
    BY <2>2, <2>3 DEF a, o
<1> QED
  BY <1>1, <1>2, <1>3

\* Reading keeps the order; MSG_READY is the last of what is read if the next is not
\* there in time.
LEMMA ReadStream ==
    ASSUME TypeOK, NEW c \in ClientId, Read(c), UNCHANGED out, ~Coalesce
    PROVE  /\ Stream(c)' = Stream(c)
           /\ \A k \in 1..Len(ibuf'[c]) - 1 : ibuf'[c][k] # "READY"
<1> DEFINE q == down[c]
<1>1. PICK n \in 1..Len(q) :
          LET buf == ibuf[c] \o SubSeq(q, 1, n)
          IN  /\ "READY" \notin Ids(SubSeq(buf, 1, Len(buf) - 1))
              /\ ibuf' = Set(ibuf, c, buf)
              /\ down' = Set(down, c, SubSeq(q, n + 1, Len(q)))
  BY DEF Read
<1>2. q \in Seq(ServerMsg) /\ ibuf[c] \in Seq(ServerMsg) /\ out[c] \in Seq(ServerMsg)
  BY DEF TypeOK
<1> DEFINE a == SubSeq(q, 1, n)
           b == SubSeq(q, n + 1, Len(q))
<1>3. a \in Seq(ServerMsg) /\ b \in Seq(ServerMsg)
  BY <1>2, IdsCut
<1>4. a \o b = q
  <2>1. 1 \in 1..Len(q) + 1 /\ n \in 0..Len(q) /\ Len(q) \in n..Len(q)
    BY <1>2
  <2>2. a \o b = SubSeq(q, 1, Len(q))
    BY <1>2, <2>1, ConcatAdjacentSubSeq
  <2> QED
    BY <1>2, <2>2, SubSeqFull
<1> DEFINE buf == ibuf[c] \o a
<1>5. ibuf'[c] = buf /\ down'[c] = b
  BY <1>1 DEF Set, TypeOK
<1> HIDE DEF a, b
<1>6. buf \o b = ibuf[c] \o q
  <2> DEFINE i == ibuf[c]
  <2>1. i \in Seq(ServerMsg)
    BY <1>2
  <2> HIDE DEF i
  <2>2. (i \o a) \o b = i \o (a \o b)
    BY <1>3, <2>1, JoinedAlike
  <2> QED
    BY <1>4, <2>2 DEF i
<1>7. Stream(c)' = Stream(c)
  BY <1>5, <1>6 DEF Stream
<1>8. "READY" \notin Ids(SubSeq(buf, 1, Len(buf) - 1))
  BY <1>1 DEF a
<1>9. buf \in Seq(ServerMsg)
  BY <1>2, <1>3
<1> HIDE DEF buf
<1>10. ASSUME NEW k \in 1..Len(buf) - 1 PROVE buf[k] # "READY"
  <2> DEFINE front == SubSeq(buf, 1, Len(buf) - 1)
  <2>1. Len(front) = Len(buf) - 1 /\ front[k] = buf[k]
    BY <1>9
  <2> HIDE DEF front
  <2>2. front[k] \in Ids(front)
    BY <2>1 DEF Ids
  <2> QED
    BY <1>8, <2>1, <2>2 DEF front
<1> QED
  BY <1>5, <1>7, <1>10

\* The first message of what is there is the first of all.
LEMMA ConcatTail ==
    ASSUME NEW S, NEW q \in Seq(S), NEW r \in Seq(S), q # <<>>
    PROVE  q \o r # <<>> /\ Head(q \o r) = Head(q) /\ Tail(q \o r) = Tail(q) \o r
<1>1. q \o r # <<>> /\ Head(q \o r) = Head(q)
  OBVIOUS
<1>2. /\ q \o r \in Seq(S) /\ Len(q \o r) = Len(q) + Len(r)
      /\ Len(q) \in Nat \ {0} /\ Len(r) \in Nat
      /\ \A k \in 1..Len(q) + Len(r) : (q \o r)[k] = IF k <= Len(q) THEN q[k] ELSE r[k - Len(q)]
  OBVIOUS
<1>3. /\ Tail(q \o r) \in Seq(S) /\ Len(Tail(q \o r)) = Len(q) + Len(r) - 1
      /\ \A k \in 1..Len(q) + Len(r) - 1 : Tail(q \o r)[k] = (q \o r)[k + 1]
  BY <1>1, <1>2, HeadTailProperties
<1>4. /\ Tail(q) \in Seq(S) /\ Len(Tail(q)) = Len(q) - 1
      /\ \A k \in 1..Len(q) - 1 : Tail(q)[k] = q[k + 1]
  BY HeadTailProperties
<1>5. /\ Tail(q) \o r \in Seq(S) /\ Len(Tail(q) \o r) = Len(q) - 1 + Len(r)
      /\ \A k \in 1..Len(q) - 1 + Len(r) : (Tail(q) \o r)[k] =
            IF k <= Len(q) - 1 THEN Tail(q)[k] ELSE r[k - (Len(q) - 1)]
  BY <1>4, ConcatProperties
<1>6. ASSUME NEW k \in 1..Len(Tail(q \o r)) PROVE Tail(q \o r)[k] = (Tail(q) \o r)[k]
  <2>1. CASE k <= Len(q) - 1
    BY <1>2, <1>3, <1>4, <1>5, <2>1
  <2>2. CASE k > Len(q) - 1
    <3>1. k + 1 - Len(q) = k - (Len(q) - 1)
      BY <1>2
    <3> QED
      BY <1>2, <1>3, <1>5, <2>2, <3>1
  <2> QED
    BY <1>2, <1>3, <2>1, <2>2
<1>7. Tail(q \o r) = Tail(q) \o r
  <2>1. Len(Tail(q \o r)) = Len(Tail(q) \o r)
    BY <1>2, <1>3, <1>5
  <2> QED
    BY <1>3, <1>5, <1>6, <2>1, SeqEqual
<1> QED
  BY <1>1, <1>7

\* The first message in the buffer is the first on its way.
LEMMA HeadStream ==
    ASSUME TypeOK, NEW c \in ClientId, ibuf[c] # <<>>
    PROVE  /\ Stream(c) # <<>> /\ Head(Stream(c)) = Head(ibuf[c])
           /\ Tail(Stream(c)) = (Tail(ibuf[c]) \o down[c]) \o out[c]
<1> DEFINE i == ibuf[c]
           d == down[c]
           o == out[c]
<1>1. i \in Seq(ServerMsg) /\ d \in Seq(ServerMsg) /\ o \in Seq(ServerMsg)
  BY DEF TypeOK
<1>2. /\ i \o d \in Seq(ServerMsg) /\ i \o d # <<>>
      /\ Head(i \o d) = Head(i) /\ Tail(i \o d) = Tail(i) \o d
  <2>1. i # <<>>
    OBVIOUS
  <2> HIDE DEF i, d
  <2>2. i \o d \in Seq(ServerMsg)
    BY <1>1, Joined
  <2> QED
    BY <1>1, <2>1, <2>2, ConcatTail
<1> DEFINE a == i \o d
<1>3. Stream(c) = a \o o
  BY DEF Stream
<1>4. a \in Seq(ServerMsg) /\ a # <<>> /\ Head(a) = Head(i) /\ Tail(a) = Tail(i) \o d
  BY <1>2
<1> HIDE DEF a
<1>5. a \o o # <<>> /\ Head(a \o o) = Head(a) /\ Tail(a \o o) = Tail(a) \o o
  BY <1>1, <1>4, ConcatTail
<1> QED
  BY <1>3, <1>4, <1>5

\* Dispatching takes the first message.
LEMMA TakeStream ==
    ASSUME TypeOK, NEW c \in ClientId, ibuf[c] # <<>>, NextMsg(c), UNCHANGED <<down, out>>
    PROVE  /\ Stream(c)' = Tail(Stream(c))
           /\ Waiting(c) => \A k \in 1..Len(ibuf'[c]) - 1 : ibuf'[c][k] # "READY"
<1> DEFINE i == ibuf[c]
<1>1. i \in Seq(ServerMsg)
  BY DEF TypeOK
<1>2. ibuf'[c] = Tail(i)
  BY DEF NextMsg, Set, TypeOK
<1>3. Stream(c)' = Tail(Stream(c))
  BY <1>2, HeadStream DEF Stream
<1>4. ASSUME Waiting(c), NEW k \in 1..Len(Tail(i)) - 1 PROVE Tail(i)[k] # "READY"
  <2>1. Len(Tail(i)) = Len(i) - 1 /\ Tail(i)[k] = i[k + 1] /\ Len(i) \in Nat
    BY <1>1
  <2>2. k + 1 \in 1..Len(i) - 1
    BY <2>1
  <2> QED
    BY <1>4, <2>1, <2>2 DEF Waiting
<1> QED
  BY <1>2, <1>3, <1>4

\* Writing adds the message at the end.
LEMMA WriteStream ==
    ASSUME TypeOK, NEW c \in ClientId, NEW m \in ServerMsg,
           out'[c] = IF bad[c] THEN out[c] ELSE Append(out[c], m),
           ibuf'[c] = ibuf[c], down'[c] = down[c]
    PROVE  Stream(c)' = IF bad[c] THEN Stream(c) ELSE Append(Stream(c), m)
<1> DEFINE q == ibuf[c] \o down[c]
           o == out[c]
<1>1. o \in Seq(ServerMsg) /\ q \in Seq(ServerMsg)
  BY StreamType
<1>2. q \o Append(o, m) = Append(q \o o, m)
  <2> HIDE DEF q, o
  <2>1. <<m>> \in Seq(ServerMsg) /\ q \o o \in Seq(ServerMsg)
    BY <1>1
  <2>2. Append(o, m) = o \o <<m>> /\ Append(q \o o, m) = (q \o o) \o <<m>>
    BY <1>1, <2>1, AppendIsConcat
  <2> QED
    BY <1>1, <2>1, <2>2, JoinedAlike
<1> QED
  BY <1>2 DEF Stream

\* An empty buffer has no message before its last.
LEMMA NoneBelow ==
    ASSUME NEW q, Len(q) = 0
    PROVE  \A k \in 1..Len(q) - 1 : FALSE
<1> DEFINE n == Len(q)
<1> HIDE DEF n
<1>1. n = 0
  BY DEF n
<1>2. \A k \in 1..n - 1 : FALSE
  BY <1>1
<1> QED
  BY <1>2 DEF n

\* If nothing comes after the first there is one.
LEMMA LastOfOne ==
    ASSUME NEW q, Len(q) \in Nat \ {0}, 1 \notin 1..Len(q) - 1
    PROVE  Len(q) = 1
<1> DEFINE n == Len(q)
<1> HIDE DEF n
<1>1. n \in Nat \ {0} /\ 1 \notin 1..n - 1
  BY DEF n
<1>2. n = 1
  BY <1>1
<1> QED
  BY <1>2 DEF n

-----------------------------------------------------------------------------
(* Steps by what they do to one client. *)

\* Nothing that is said of other clients changes.
Apart(c) ==
    /\ Only(c)
    /\ \A d \in ClientId \ {c} :
          first'[d] = first[d] /\ exit'[d] = exit[d] /\ reason'[d] = reason[d]
    /\ shutdown => shutdown'

\* It is enough to look at the client whose step it is.
LEMMA OneTold ==
    ASSUME IInv, RInv, NEW c \in ClientId, Apart(c), Told(c)'
    PROVE  RInv'
<1> SUFFICES ASSUME NEW d \in ClientId \ {c} PROVE Told(d)'
  BY DEF RInv
<1>1. Told(d) /\ Order(d)
  BY DEF IInv, RInv
<1>2. Stream(d)' = Stream(d)
  BY DEF Stream, Apart, Only
<1>3. Asked(d)' /\ Waiting(d)'
  BY <1>1, <1>2 DEF Told, Asked, Unread, Waiting, Apart, Only
<1>4. Live(d)' => Live(d)
  BY <1>1 DEF Live, Order, Apart, Only
<1>5. Reads(d)'
  BY <1>1, <1>2, <1>4 DEF Told, Reads, Apart, Only
<1>6. Answered(d)' /\ Left(d)'
  BY <1>1, <1>2 DEF Told, Answered, Left, Apart, Only
<1> QED
  BY <1>3, <1>5, <1>6 DEF Told

\* The client leaves for a reason that is true.
LEMMA LeaveTold ==
    ASSUME IInv, RInv, NEW c \in ClientId, NEW why \in Reason, Leave(c, why),
           UNCHANGED <<first, attached, up, down, open, serverVars>>,
           why # "unexpected message",
           why = "EXITED" => attached[c] /\ tty[c] = "closed",
           why \in {"EXIT", "SHUTDOWN"} => ~attached[c],
           why = "lost server" /\ first[c] = "old" => shutdown \/ server = "exited"
    PROVE  RInv'
<1>1. TypeOK /\ Told(c)
  BY DEF IInv, RInv
<1>2. /\ proc'[c] = "gone" /\ reason'[c] = why /\ ibuf'[c] = <<>> /\ mode'[c] = "none"
      /\ \A d \in ClientId \ {c} : /\ proc'[d] = proc[d] /\ ibuf'[d] = ibuf[d]
                                   /\ mode'[d] = mode[d] /\ pending'[d] = pending[d]
  <2>1. /\ proc' = [proc EXCEPT ![c] = "gone"] /\ reason' = [reason EXCEPT ![c] = why]
        /\ ibuf' = [ibuf EXCEPT ![c] = <<>>] /\ mode' = [mode EXCEPT ![c] = "none"]
        /\ pending' = [pending EXCEPT ![c] = {}]
    BY DEF Leave, Set
  <2>2. /\ DOMAIN proc = ClientId /\ DOMAIN reason = ClientId /\ DOMAIN ibuf = ClientId
        /\ DOMAIN mode = ClientId /\ DOMAIN pending = ClientId
    BY <1>1 DEF TypeOK
  <2>3. proc'[c] = "gone" /\ reason'[c] = why /\ ibuf'[c] = <<>> /\ mode'[c] = "none"
    BY <2>1, <2>2
  <2>4. ASSUME NEW d \in ClientId \ {c}
        PROVE  /\ proc'[d] = proc[d] /\ ibuf'[d] = ibuf[d]
               /\ mode'[d] = mode[d] /\ pending'[d] = pending[d]
    BY <2>1, <2>2
  <2> QED
    BY <2>3, <2>4
<1>3. \A d \in ClientId \ {c} : reason'[d] = reason[d]
  BY <1>1 DEF TypeOK, Leave, Set
<1>4. Apart(c)
  BY <1>2, <1>3 DEF Apart, Only, serverVars
<1>5. Ids(Stream(c)') \subseteq Ids(Stream(c))
  <2> DEFINE q == down[c]
             o == out[c]
  <2>1. q \in Seq(ServerMsg) /\ o \in Seq(ServerMsg)
    BY <1>1, StreamType
  <2>2. Stream(c)' = (<<>> \o q) \o o
    BY <1>2 DEF Stream, serverVars
  <2>3. Ids(q) \cup Ids(o) \subseteq Ids(Stream(c))
    BY <1>1, StreamType
  <2> HIDE DEF q, o
  <2>4. <<>> \o q = q
    BY <2>1, ConcatEmptySeq
  <2>5. Ids(q \o o) = Ids(q) \cup Ids(o)
    BY <2>1, Joined
  <2> QED
    BY <2>2, <2>3, <2>4, <2>5
<1>6. Asked(c)'
  BY <1>1, <1>5 DEF Told, Asked, Unread, serverVars
<1>7. Waiting(c)' /\ Reads(c)' /\ Answered(c)'
  <2>1. Len(ibuf'[c]) = 0
    BY <1>2, EmptySeq
  <2>2. \A k \in 1..Len(ibuf'[c]) - 1 : FALSE
    BY <2>1, NoneBelow, Zenon
  <2>3. Waiting(c)'
    BY <1>2, <2>2 DEF Waiting
  <2> QED
    BY <1>2, <2>3 DEF Reads, Answered
<1>8. Left(c)'
  BY <1>1, <1>2, <1>5 DEF Told, Left, serverVars
<1> QED
  BY <1>4, <1>6, <1>7, <1>8, OneTold DEF Told

\* The client reads, or says something, and goes on.
LEMMA ClientTold ==
    ASSUME IInv, RInv, NEW c \in ClientId, Only(c), Waiting(c)',
           UNCHANGED <<reason, first, attached, open, serverVars>>,
           Stream(c)' = Stream(c),
           proc[c] \notin {"off", "gone"}, proc'[c] # "gone",
           Ids(ibuf[c]) \cup Ids(down[c]) \subseteq Ids(ibuf'[c]) \cup Ids(down'[c]),
           Ids(up'[c]) \cap FirstMsg = Ids(up[c]) \cap FirstMsg,
           "EXITING" \in Ids(up'[c]) => "EXITING" \in Ids(up[c]) \/ attached[c]
    PROVE  RInv'
<1>1. Told(c)
  BY DEF RInv
<1>2. Apart(c)
  BY DEF Apart, serverVars
<1>3. Asked(c)'
  BY <1>1 DEF Told, Asked, Unread, serverVars
<1>4. Reads(c)'
  BY <1>1 DEF Told, Reads, Live, serverVars
<1>5. Answered(c)'
  BY <1>1 DEF Told, Answered, serverVars
<1>6. Left(c)'
  BY <1>1 DEF Told, Left, serverVars
<1> QED
  BY <1>2, <1>3, <1>4, <1>5, <1>6, OneTold DEF Told

\* The client takes a message and goes on, attached from now on if it was not.
LEMMA TakeTold ==
    ASSUME IInv, RInv, NEW c \in ClientId, Only(c), Waiting(c)',
           UNCHANGED <<reason, first, open, serverVars>>,
           Stream(c) # <<>>, Stream(c)' = Tail(Stream(c)),
           attached[c] \/ Head(Stream(c)) = "READY", attached'[c],
           proc[c] \notin {"off", "gone"}, proc'[c] # "gone",
           Ids(up'[c]) \cap FirstMsg = Ids(up[c]) \cap FirstMsg
    PROVE  RInv'
<1>1. TypeOK /\ Told(c)
  BY DEF IInv, RInv
<1>2. Apart(c)
  BY DEF Apart, serverVars
<1>3. /\ Stream(c) \in Seq(ServerMsg)
      /\ Ids(ibuf[c]) \cup Ids(down[c]) \subseteq Ids(Stream(c))
  BY <1>1, StreamType
<1>4. Ids(Stream(c)) = {Head(Stream(c))} \cup Ids(Stream(c)')
  <2> DEFINE q == Stream(c)
  <2>1. q \in Seq(ServerMsg) /\ q # <<>>
    BY <1>3
  <2> HIDE DEF q
  <2>2. Ids(q) = {Head(q)} \cup Ids(Tail(q))
    BY <2>1, IdsTail
  <2> QED
    BY <2>2 DEF q
<1>5. ~Unread(c)
  BY <1>1, <1>4 DEF Told, Asked
<1>6. Ids(Stream(c)) \cap Answer = {}
  BY <1>1, <1>4 DEF Told, Reads
<1>7. "READY" \notin Ids(Stream(c)')
  <2>1. CASE attached[c]
    BY <1>1, <1>4, <2>1 DEF Told, Reads
  <2>2. CASE ~attached[c]
    <3> DEFINE q == Stream(c)
    <3>1. q \in Seq(ServerMsg) /\ q # <<>> /\ Sorted(q) /\ Head(q) = "READY"
      BY <1>1, <1>3, <2>2 DEF Told, Reads
    <3> HIDE DEF q
    <3>2. "READY" \notin Ids(Tail(q))
      BY <3>1, SortedHead
    <3> QED
      BY <3>2 DEF q
  <2> QED
    BY <2>1, <2>2
<1>8. Asked(c)'
  BY <1>1, <1>5 DEF Told, Asked, Unread, serverVars
<1>9. reason[c] = "none"
  BY <1>1 DEF Told, Reads
<1>10. Reads(c)'
  BY <1>4, <1>6, <1>7, <1>9 DEF Reads
<1>11. "VERSION" \notin Ids(Stream(c))
  BY <1>6 DEF Answer
<1>12. Answered(c)'
  BY <1>1, <1>3, <1>11 DEF Told, Answered, serverVars
<1>13. Left(c)'
  BY <1>1, <1>4, <1>9 DEF Told, Left, serverVars
<1> QED
  BY <1>2, <1>8, <1>10, <1>12, <1>13, OneTold DEF Told

-----------------------------------------------------------------------------
(* The steps of the client. *)

\* client_callback.
LEMMA ClientReadTold ==
    ASSUME IInv, RInv, ~Coalesce, NEW c \in ClientId, ClientRead(c)
    PROVE  RInv'
<1>1. TypeOK /\ Order(c)
  BY DEF IInv
<1>2. UNCHANGED <<proc, first, attached, pending, reason, up, open, serverVars>> /\ UNCHANGED out
  BY DEF ClientRead, serverVars
<1>3. /\ Stream(c)' = Stream(c)
      /\ \A k \in 1..Len(ibuf'[c]) - 1 : ibuf'[c][k] # "READY"
  BY <1>1, <1>2, ReadStream DEF ClientRead
<1>4. /\ Ids(ibuf'[c]) \cup Ids(down'[c]) = Ids(ibuf[c]) \cup Ids(down[c])
      /\ \A d \in ClientId \ {c} : ibuf'[d] = ibuf[d] /\ down'[d] = down[d]
  BY <1>1, ReadKeeps DEF ClientRead
<1>5. Only(c)
  BY <1>1, <1>2, <1>4 DEF TypeOK, ClientRead, Only, Set, serverVars
<1>6. Waiting(c)'
  <2>1. mode'[c] = IF attached[c] THEN "attached" ELSE "again"
    BY <1>1 DEF TypeOK, ClientRead, Set
  <2> QED
    BY <1>2, <1>3, <2>1 DEF Waiting
<1>7. proc[c] \notin {"off", "gone"} /\ proc'[c] # "gone"
  BY <1>2 DEF ClientRead
<1> QED
  BY <1>2, <1>3, <1>4, <1>5, <1>6, <1>7, ClientTold

\* client_dispatch_wait reads again; if it dies of that it does not say so falsely.
LEMMA ReadAgainTold ==
    ASSUME IInv, RInv, ~Coalesce, NEW c \in ClientId, ReadAgain(c)
    PROVE  RInv'
<1>1. TypeOK /\ Order(c) /\ Told(c)
  BY DEF IInv, RInv
<1>2. UNCHANGED <<first, attached, up, open, serverVars>> /\ UNCHANGED out
  BY DEF ReadAgain, serverVars
<1>3. proc[c] = "run" /\ ~attached[c]
  BY <1>1 DEF ReadAgain, Told, Waiting
<1>4. CASE Leave(c, "imsg_read failed") /\ UNCHANGED down
  <2>1. "imsg_read failed" \in Reason
    BY DEF Reason
  <2> QED
    BY <1>2, <1>4, <2>1, LeaveTold
<1>5. CASE Read(c) /\ mode' = Set(mode, c, "wait") /\ UNCHANGED <<proc, pending, reason>>
  <2>1. /\ Stream(c)' = Stream(c)
        /\ \A k \in 1..Len(ibuf'[c]) - 1 : ibuf'[c][k] # "READY"
    BY <1>1, <1>2, <1>5, ReadStream
  <2>2. /\ Ids(ibuf'[c]) \cup Ids(down'[c]) = Ids(ibuf[c]) \cup Ids(down[c])
        /\ \A d \in ClientId \ {c} : ibuf'[d] = ibuf[d] /\ down'[d] = down[d]
    BY <1>1, <1>5, ReadKeeps
  <2>3. Only(c)
    BY <1>1, <1>2, <1>5, <2>2 DEF TypeOK, Only, Set, serverVars
  <2>4. Waiting(c)'
    BY <1>2, <1>3, <2>1 DEF Waiting
  <2> QED
    BY <1>2, <1>3, <1>5, <2>1, <2>2, <2>3, <2>4, ClientTold
<1>6. CASE mode' = Set(mode, c, "wait") /\ UNCHANGED <<proc, pending, reason, ibuf, down>>
  <2>1. Only(c)
    BY <1>1, <1>2, <1>6 DEF TypeOK, Only, Set, serverVars
  <2>2. Waiting(c)' /\ Stream(c)' = Stream(c)
    BY <1>1, <1>2, <1>3, <1>6 DEF Told, Waiting, Stream
  <2> QED
    BY <1>2, <1>3, <1>6, <2>1, <2>2, ClientTold
<1> QED
  BY <1>4, <1>5, <1>6 DEF ReadAgain

\* "lost server": there was nothing left to read.
LEMMA ClientEOFTold ==
    ASSUME IInv, RInv, NEW c \in ClientId, ClientEOF(c)
    PROVE  RInv'
<1>1. TypeOK /\ Told(c)
  BY DEF IInv, RInv
<1>2. ibuf[c] = <<>> /\ down[c] = <<>> /\ proc[c] = "run" /\ ~open[c]
  BY <1>1 DEF TypeOK, ClientEOF
<1>3. first[c] = "old" => shutdown \/ server = "exited"
  BY <1>1, <1>2, IdsEmpty DEF Told, Answered
<1>4. "lost server" \in Reason
  BY DEF Reason
<1> QED
  BY <1>3, <1>4, LeaveTold DEF ClientEOF

\* client_dispatch_wait: MSG_READY is the last in the buffer, so that what follows is
\* for client_dispatch_attached, and any other message is one it knows.
LEMMA DispatchWaitTold ==
    ASSUME IInv, RInv, NEW c \in ClientId, DispatchWait(c)
    PROVE  RInv'
<1>1. TypeOK /\ Order(c) /\ Told(c)
  BY DEF IInv, RInv
<1>2. proc[c] = "run" /\ mode[c] = "wait" /\ ibuf[c] # <<>> /\ ~attached[c]
  BY <1>1 DEF DispatchWait, TypeOK, Told, Waiting
<1>3. ibuf[c] \in Seq(ServerMsg) /\ Stream(c) \in Seq(ServerMsg)
  BY <1>1, StreamType
<1>4. Stream(c) # <<>> /\ Head(Stream(c)) = Head(ibuf[c])
  BY <1>1, <1>2, HeadStream
<1>5. UNCHANGED <<first, up, down, open, serverVars>> /\ UNCHANGED out
  BY DEF DispatchWait, serverVars
<1>6. CASE Head(ibuf[c]) = "READY"
  <2>1. /\ attached' = Set(attached, c, TRUE)
        /\ NextMsg(c) /\ UNCHANGED <<proc, pending, reason>>
    BY <1>6 DEF DispatchWait
  <2>2. Stream(c)' = Tail(Stream(c))
    BY <1>1, <1>2, <1>5, <2>1, TakeStream
  <2>3. attached'[c]
    BY <1>1, <2>1 DEF TypeOK, Set
  <2>4. Len(ibuf[c]) = 1
    <3> DEFINE q == ibuf[c]
    <3>1. q \in Seq(ServerMsg) /\ q # <<>> /\ Head(q) = "READY"
      BY <1>2, <1>3, <1>6
    <3>2. \A k \in 1..Len(q) - 1 : q[k] # "READY"
      BY <1>1 DEF Told, Waiting
    <3> HIDE DEF q
    <3>3. Len(q) \in Nat \ {0} /\ q[1] = "READY"
      BY <3>1
    <3>4. 1 \notin 1..Len(q) - 1
      BY <3>2, <3>3
    <3>5. Len(q) = 1
      BY <3>3, <3>4, LastOfOne, Zenon
    <3> QED
      BY <3>5 DEF q
  <2>5. mode'[c] = "none"
    BY <1>1, <2>1, <2>4 DEF TypeOK, NextMsg, Set
  <2>6. \A k \in 1..Len(ibuf'[c]) - 1 : ibuf'[c][k] # "READY"
    BY <1>1, <1>2, <1>5, <2>1, TakeStream DEF Told
  <2>7. Waiting(c)'
    BY <2>5, <2>6 DEF Waiting
  <2>8. \A d \in ClientId \ {c} : ibuf'[d] = ibuf[d] /\ mode'[d] = mode[d]
    BY <1>1, <1>2, <2>1, NextMsgProps
  <2>9. Only(c)
    BY <1>1, <1>5, <2>1, <2>8 DEF TypeOK, Only, Set, serverVars
  <2>10. proc[c] \notin {"off", "gone"} /\ proc'[c] # "gone"
    BY <1>2, <2>1
  <2> QED
    BY <1>4, <1>5, <1>6, <2>1, <2>2, <2>3, <2>7, <2>9, <2>10, TakeTold
<1>7. CASE Head(ibuf[c]) # "READY"
  <2> DEFINE msg == Head(ibuf[c])
  <2>1. msg \in ServerMsg
    BY <1>2, <1>3, IdsTail
  <2>2. Sorted(Stream(c))
    BY <1>1, <1>2 DEF Told, Reads
  <2>3. msg \notin Later
    <3> DEFINE q == Stream(c)
    <3>1. q \in Seq(ServerMsg) /\ q # <<>> /\ Sorted(q) /\ Head(q) = msg
      BY <1>3, <1>4, <2>2
    <3> HIDE DEF q, msg
    <3> QED
      BY <3>1, SortedHead
  <2>4. msg \in {"EXIT", "SHUTDOWN", "VERSION", "SHELL"}
    BY <1>7, <2>1, <2>3 DEF ServerMsg, Later
  <2>5. Leave(c, msg) /\ UNCHANGED attached
    BY <1>7, <2>4 DEF DispatchWait
  <2>6. msg \in Reason
    BY <2>1 DEF Reason
  <2> HIDE DEF msg
  <2> QED
    BY <1>2, <1>5, <2>4, <2>5, <2>6, LeaveTold
<1> QED
  BY <1>6, <1>7

\* client_dispatch_attached: of what it does not take as an order it meets only
\* MSG_EXITED, with the terminal closed.
LEMMA DispatchAttachedTold ==
    ASSUME IInv, RInv, NEW c \in ClientId, DispatchAttached(c)
    PROVE  RInv'
<1>1. TypeOK /\ Order(c) /\ Told(c)
  BY DEF IInv, RInv
<1>2. proc[c] = "run" /\ mode[c] = "attached" /\ ibuf[c] # <<>> /\ attached[c]
  BY <1>1 DEF DispatchAttached, TypeOK, Order
<1>3. Stream(c) # <<>> /\ Head(ibuf[c]) \in Ids(Stream(c))
  <2>1. ibuf[c] \in Seq(ServerMsg) /\ Ids(ibuf[c]) \subseteq Ids(Stream(c))
    BY <1>1, StreamType
  <2>2. Head(ibuf[c]) \in Ids(ibuf[c])
    BY <1>2, <2>1, IdsTail
  <2> QED
    BY <1>1, <1>2, <2>1, <2>2, HeadStream
<1>4. UNCHANGED <<first, attached, down, open, serverVars>> /\ UNCHANGED out
  BY DEF DispatchAttached, serverVars
<1>5. CASE Head(ibuf[c]) \in {"EXITED", "READY", "VERSION", "SHELL"}
  <2>1. Head(ibuf[c]) = "EXITED"
    BY <1>1, <1>2, <1>3, <1>5 DEF Told, Reads, Answer
  <2>2. tty[c] = "closed"
    BY <1>1, <1>3, <2>1 DEF Told, Left
  <2>3. Leave(c, "EXITED") /\ UNCHANGED up
    BY <2>1 DEF DispatchAttached
  <2>4. "EXITED" \in Reason
    BY DEF Reason, ServerMsg
  <2> QED
    BY <1>2, <1>4, <2>2, <2>3, <2>4, LeaveTold
<1>6. ASSUME NextMsg(c), UNCHANGED <<pending, reason>>, proc'[c] # "gone",
             \A d \in ClientId \ {c} : proc'[d] = proc[d] /\ up'[d] = up[d],
             Ids(up'[c]) \cap FirstMsg = Ids(up[c]) \cap FirstMsg
      PROVE  RInv'
  <2>1. Stream(c)' = Tail(Stream(c))
    BY <1>1, <1>2, <1>4, <1>6, TakeStream
  <2>2. \A k \in 1..Len(ibuf'[c]) - 1 : ibuf'[c][k] # "READY"
    BY <1>1, <1>2, <1>4, <1>6, TakeStream DEF Told
  <2>3. /\ mode'[c] \in {"none", mode[c]}
        /\ \A d \in ClientId \ {c} : ibuf'[d] = ibuf[d] /\ mode'[d] = mode[d]
    BY <1>1, <1>2, <1>6, NextMsgProps
  <2>4. Waiting(c)'
    BY <1>2, <2>2, <2>3 DEF Waiting
  <2>5. Only(c)
    BY <1>4, <1>6, <2>3 DEF Only, serverVars
  <2> QED
    BY <1>2, <1>3, <1>4, <1>6, <2>1, <2>4, <2>5, TakeTold
<1>7. CASE Reply(c, "EXITING") /\ NextMsg(c) /\ UNCHANGED <<proc, pending, reason>>
  <2>1. "EXITING" \in ClientMsg \ FirstMsg
    BY DEF ClientMsg, FirstMsg
  <2>2. /\ Ids(up'[c]) \cap FirstMsg = Ids(up[c]) \cap FirstMsg
        /\ \A d \in ClientId \ {c} : up'[d] = up[d]
    BY <1>1, <1>7, <2>1, ReplyProps
  <2> QED
    BY <1>2, <1>6, <1>7, <2>2
<1>8. ASSUME NEW state \in {"stopped", "locking"},
             proc' = Set(proc, c, state), NextMsg(c), UNCHANGED <<pending, reason, up>>
      PROVE  RInv'
  <2>1. proc'[c] # "gone" /\ \A d \in ClientId \ {c} : proc'[d] = proc[d]
    BY <1>1, <1>8 DEF TypeOK, Set
  <2> QED
    BY <1>6, <1>8, <2>1
<1> QED
  BY <1>5, <1>7, <1>8 DEF DispatchAttached

\* A client that only says something, or handles a signal, goes on as it was.
LEMMA SayTold ==
    ASSUME IInv, RInv, NEW c \in ClientId, Only(c), proc[c] \notin {"off", "gone"},
           proc'[c] # "gone", Ids(up'[c]) \cap FirstMsg = Ids(up[c]) \cap FirstMsg,
           "EXITING" \in Ids(up'[c]) => "EXITING" \in Ids(up[c]) \/ attached[c],
           UNCHANGED <<first, attached, ibuf, mode, reason, down, open, serverVars>>
    PROVE  RInv'
<1>1. Told(c)
  BY DEF RInv
<1>2. Waiting(c)' /\ Stream(c)' = Stream(c)
  BY <1>1 DEF Told, Waiting, Stream, serverVars
<1>3. Ids(ibuf'[c]) \cup Ids(down'[c]) = Ids(ibuf[c]) \cup Ids(down[c])
  OBVIOUS
<1> QED
  BY <1>2, <1>3, ClientTold

\* client_dispatch_attached, after system().
LEMMA LockDoneTold ==
    ASSUME IInv, RInv, NEW c \in ClientId, LockDone(c)
    PROVE  RInv'
<1>1. TypeOK /\ Order(c)
  BY DEF IInv
<1>2. "UNLOCK" \in ClientMsg \ FirstMsg
  BY DEF ClientMsg, FirstMsg
<1>3. /\ Ids(up'[c]) = Ids(up[c]) \cup {"UNLOCK"}
      /\ Ids(up'[c]) \cap FirstMsg = Ids(up[c]) \cap FirstMsg
      /\ \A d \in ClientId \ {c} : up'[d] = up[d]
  BY <1>1, <1>2, ReplyProps DEF LockDone
<1>4. Only(c)
  BY <1>1, <1>3 DEF TypeOK, LockDone, Only, Set, serverVars
<1>5. proc[c] \notin {"off", "gone"} /\ proc'[c] # "gone"
  BY <1>1 DEF TypeOK, LockDone, Set
<1>6. "EXITING" \in Ids(up'[c]) => "EXITING" \in Ids(up[c])
  BY <1>3
<1>7. UNCHANGED <<first, attached, ibuf, mode, reason, down, open, serverVars>>
  BY DEF LockDone
<1> QED
  BY <1>3, <1>4, <1>5, <1>6, <1>7, SayTold

\* A signal is raised.
LEMMA RaiseTold ==
    ASSUME IInv, RInv, NEW c \in ClientId, NEW sig \in Signal, Raise(c, sig)
    PROVE  RInv'
<1>1. TypeOK
  BY DEF IInv
<1>2. Only(c)
  BY <1>1 DEF TypeOK, Raise, Only, Set, serverVars
<1>3. proc[c] \notin {"off", "gone"} /\ proc'[c] # "gone"
  BY <1>1 DEF TypeOK, Raise, Set
<1> QED
  BY <1>2, <1>3, SayTold DEF Raise

\* client_signal.
LEMMA HandleTold ==
    ASSUME IInv, RInv, NEW c \in ClientId, NEW sig \in Signal, Handle(c, sig)
    PROVE  RInv'
<1>1. TypeOK /\ Order(c) /\ proc[c] = "run"
  BY DEF IInv, Handle
<1>2. CASE attached[c]
  <2> DEFINE msg == CASE sig = "TERM"  -> "EXITING"
                      [] sig = "CONT"  -> "WAKEUP"
                      [] sig = "WINCH" -> "RESIZE"
  <2>1. msg \in ClientMsg \ FirstMsg /\ Reply(c, msg)
    BY <1>2 DEF Handle, Signal, ClientMsg, FirstMsg
  <2> HIDE DEF msg
  <2>2. /\ Ids(up'[c]) \cap FirstMsg = Ids(up[c]) \cap FirstMsg
        /\ \A d \in ClientId \ {c} : up'[d] = up[d]
    BY <1>1, <2>1, ReplyProps
  <2>3. /\ pending' = Set(pending, c, pending[c] \ {sig})
        /\ UNCHANGED <<proc, reason, ibuf, mode, first, attached, down, open, serverVars>>
    BY <1>2 DEF Handle
  <2>4. Only(c)
    BY <1>1, <2>2, <2>3 DEF TypeOK, Only, Set, serverVars
  <2>5. proc'[c] # "gone"
    BY <1>1, <2>3
  <2> QED
    BY <1>1, <1>2, <2>2, <2>3, <2>4, <2>5, SayTold
<1>3. CASE ~attached[c] /\ sig = "TERM"
  <2>1. "TERM" \in Reason
    BY DEF Reason
  <2> QED
    BY <1>3, <2>1, LeaveTold DEF Handle
<1>4. CASE ~attached[c] /\ sig # "TERM"
  <2>1. /\ pending' = Set(pending, c, pending[c] \ {sig})
        /\ UNCHANGED <<proc, reason, ibuf, mode, first, attached, up, down, open, serverVars>>
    BY <1>4 DEF Handle
  <2>2. Only(c)
    BY <1>1, <2>1 DEF TypeOK, Only, Set, serverVars
  <2>3. proc[c] \notin {"off", "gone"} /\ proc'[c] # "gone"
    BY <1>1, <2>1
  <2> QED
    BY <2>1, <2>2, <2>3, SayTold
<1> QED
  BY <1>2, <1>3, <1>4

\* The client is killed: it says nothing.
LEMMA KilledTold ==
    ASSUME IInv, RInv, NEW c \in ClientId, Killed(c)
    PROVE  RInv'
<1>1. "killed" \in Reason
  BY DEF Reason
<1> QED
  BY <1>1, LeaveTold DEF Killed

\* client_connect: the server has not read the command, and nothing but MSG_SHUTDOWN
\* has been written to the client.
LEMMA ConnectTold ==
    ASSUME IInv, RInv, NEW c \in ClientId, NEW msg \in Commands, Connect(c, msg)
    PROVE  RInv'
<1>1. TypeOK /\ Order(c) /\ Told(c)
  BY DEF IInv, RInv
<1>2. proc[c] = "off" /\ conn[c] = "none" /\ ~ses[c] /\ ~bad[c] /\ Unread(c)
  BY <1>1 DEF Connect, Order, Unread
<1>3. /\ Ids(Stream(c)) \subseteq {"SHUTDOWN"} /\ ~exit[c] /\ ~attached[c]
      /\ reason[c] = "none" /\ Sorted(Stream(c))
  BY <1>1, <1>2 DEF Told, Asked, Reads
<1>4. up'[c] = <<msg>> /\ open'[c] /\ first'[c] = msg
  BY <1>1 DEF TypeOK, Connect, Set
<1>5. msg \in FirstMsg
  BY CommandAssumption
<1>6. Ids(<<msg>>) = {msg}
  BY DEF Ids
<1>7. Apart(c)
  BY <1>1 DEF TypeOK, Connect, Apart, Only, Set
<1>8. Stream(c)' = Stream(c)
  BY DEF Connect, Stream
<1>9. Asked(c)'
  <2>1. Unread(c)' /\ "EXITING" \notin Ids(up'[c])
    BY <1>4, <1>5, <1>6 DEF Unread, FirstMsg
  <2>2. Ids(up'[c]) \cap FirstMsg \subseteq {first'[c]}
    BY <1>4, <1>6
  <2> QED
    BY <1>3, <1>8, <2>1, <2>2 DEF Asked, Connect
<1>10. Waiting(c)'
  BY <1>1 DEF Told, Waiting, Connect
<1>11. Reads(c)'
  BY <1>2, <1>3, <1>8 DEF Reads, Connect
<1>12. Answered(c)'
  BY <1>2, <1>4 DEF Answered, Connect
<1>13. Left(c)'
  <2>1. "EXITED" \notin Ids(Stream(c)') /\ reason'[c] = "none"
    BY <1>3, <1>8 DEF Connect
  <2> QED
    BY <2>1 DEF Left
<1> QED
  BY <1>7, <1>9, <1>10, <1>11, <1>12, <1>13, OneTold DEF Told

-----------------------------------------------------------------------------
(* What the server does for one client. *)

\* What the server says of one client, and how it leaves the others.
ServerSide(c) ==
    /\ ServerOnly(c)
    /\ \A d \in ClientId \ {c} : exit'[d] = exit[d]
    /\ shutdown => shutdown'

\* The server does something for a client without writing to it.
Quiet(c) ==
    /\ UNCHANGED clientVars
    /\ Stream(c)' = Stream(c)
    /\ Ids(down[c]) \subseteq Ids(down'[c])
    /\ Unread(c)' => Unread(c) /\ ~exit'[c]
    /\ Ids(up'[c]) \subseteq Ids(up[c])
    /\ Live(c)' /\ ses'[c] => Live(c) /\ ses[c]
    /\ tty[c] = "closed" /\ ~Unread(c) => tty'[c] = "closed"
    /\ bad'[c] => bad[c]
    /\ ~open'[c] => \/ ~open[c] \/ shutdown' \/ server' = "exited"
                    \/ bad[c] /\ Ids(Stream(c)) \subseteq Ids(ibuf[c]) \cup Ids(down'[c])
    /\ shutdown => shutdown'
    /\ server = "exited" => server' = "exited"

\* What is said of the client holds on.
LEMMA QuietTold ==
    ASSUME RInv, NEW c \in ClientId, Quiet(c)
    PROVE  Told(c)'
<1>1. Told(c)
  BY DEF RInv
<1>2. Asked(c)' /\ Waiting(c)'
  BY <1>1 DEF Quiet, Told, Asked, Waiting, clientVars
<1>3. Reads(c)'
  BY <1>1 DEF Quiet, Told, Reads, clientVars
<1>4. Answered(c)'
  BY <1>1 DEF Quiet, Told, Answered, clientVars
<1>5. "EXITED" \in Ids(Stream(c)) \/ reason[c] = "EXITED" => ~Unread(c)
  BY <1>1 DEF Told, Asked, Left
<1>6. Left(c)'
  BY <1>1, <1>5 DEF Quiet, Told, Left, clientVars
<1> QED
  BY <1>2, <1>3, <1>4, <1>6 DEF Told

\* It is enough to look at what is said of this client.
LEMMA ServerTold ==
    ASSUME IInv, RInv, NEW c \in ClientId, ServerSide(c), Told(c)'
    PROVE  RInv'
<1>1. Apart(c)
  BY DEF ServerSide, ServerOnly, Apart, Only, clientVars
<1> QED
  BY <1>1, OneTold

\* server_write_client, but for the answer to a command: if it is for attached clients
\* only, the client has been told that it is one.
LEMMA WriteTold ==
    ASSUME IInv, RInv, NEW c \in ClientId, NEW m \in ServerMsg \ (Answer \cup {"READY"}),
           out'[c] = IF bad[c] THEN out[c] ELSE Append(out[c], m),
           down'[c] = down[c], conn'[c] = conn[c], bad'[c] = bad[c], open'[c] = open[c],
           UNCHANGED <<clientVars, server>>,
           Ids(up'[c]) \subseteq Ids(up[c]),
           Unread(c)' => Unread(c) /\ m = "SHUTDOWN" /\ ~exit'[c],
           ses'[c] => ses[c],
           m \in Later => \/ attached[c] \/ proc[c] = "gone"
                          \/ "READY" \in Ids(Stream(c)),
           m = "EXITED" => tty'[c] = "closed",
           tty[c] = "closed" => tty'[c] = "closed",
           shutdown => shutdown'
    PROVE  Told(c)'
<1>1. TypeOK /\ Told(c)
  BY DEF IInv, RInv
<1>2. /\ Stream(c) \in Seq(ServerMsg)
      /\ Stream(c)' = IF bad[c] THEN Stream(c) ELSE Append(Stream(c), m)
  BY <1>1, StreamType, WriteStream DEF clientVars
<1>3. Ids(Stream(c)') = Ids(Stream(c)) \cup (IF bad[c] THEN {} ELSE {m})
  <2> DEFINE q == Stream(c)
  <2>1. q \in Seq(ServerMsg)
    BY <1>2
  <2> HIDE DEF q
  <2>2. Ids(Append(q, m)) = Ids(q) \cup {m}
    BY <2>1, IdsAppend
  <2> QED
    BY <1>2, <2>2 DEF q
<1>4. Asked(c)'
  BY <1>1, <1>3 DEF Told, Asked, clientVars
<1>5. Waiting(c)'
  BY <1>1 DEF Told, Waiting, clientVars
<1>6. ASSUME proc[c] # "gone", ~attached[c] PROVE Sorted(Stream(c)')
  <2> DEFINE q == Stream(c)
  <2>1. q \in Seq(ServerMsg) /\ Sorted(q)
    BY <1>1, <1>2, <1>6 DEF Told, Reads
  <2>2. m \in Later => "READY" \in Ids(q)
    BY <1>6
  <2> HIDE DEF q
  <2>3. Sorted(Append(q, m))
    BY <2>1, <2>2, SortedAppend
  <2> QED
    BY <1>2, <2>1, <2>3 DEF q
<1>7. Reads(c)'
  <2>1. "READY" \in Ids(Stream(c)') <=> "READY" \in Ids(Stream(c))
    BY <1>3
  <2>2. Ids(Stream(c)') \cap Answer = Ids(Stream(c)) \cap Answer
    BY <1>3
  <2> QED
    BY <1>1, <1>6, <2>1, <2>2 DEF Told, Reads, Live, clientVars
<1>8. Answered(c)'
  BY <1>1, <1>3 DEF Told, Answered, clientVars
<1>9. Left(c)'
  BY <1>1, <1>3 DEF Told, Left, clientVars
<1> QED
  BY <1>4, <1>5, <1>7, <1>8, <1>9 DEF Told

\* The answer to a command, the first thing the client is told: MSG_READY, or
\* MSG_VERSION or MSG_SHELL to a client that is bad from then on.
LEMMA FirstTold ==
    ASSUME IInv, RInv, NEW c \in ClientId, NEW m \in Answer \cup {"READY"},
           Unread(c), ~Unread(c)', ~bad[c],
           out'[c] = Append(out[c], m), down'[c] = down[c], open'[c] = open[c],
           UNCHANGED <<clientVars, server>>,
           Ids(up'[c]) \subseteq Ids(up[c]),
           ses'[c] => m = "READY",
           bad'[c] /\ first[c] = "old" => m = "VERSION",
           shutdown => shutdown'
    PROVE  Told(c)'
<1>1. TypeOK /\ Told(c)
  BY DEF IInv, RInv
<1>2. Ids(Stream(c)) \subseteq {"SHUTDOWN"} /\ ~attached[c]
  BY <1>1 DEF Told, Asked
<1>3. m \in ServerMsg
  BY DEF Answer, ServerMsg
<1>4. /\ Stream(c) \in Seq(ServerMsg)
      /\ Stream(c)' = Append(Stream(c), m)
  BY <1>1, <1>3, StreamType, WriteStream DEF clientVars
<1>5. Ids(Stream(c)') = Ids(Stream(c)) \cup {m} /\ Sorted(Stream(c)')
  <2> DEFINE q == Stream(c)
  <2>1. q \in Seq(ServerMsg) /\ Ids(q) \subseteq {"SHUTDOWN"}
    BY <1>2, <1>4
  <2>2. m \notin Later
    BY DEF Answer, Later
  <2> HIDE DEF q
  <2>3. Sorted(q) /\ "READY" \notin Ids(q)
    BY <2>1, SortedShutdown
  <2>4. Sorted(Append(q, m)) /\ Ids(Append(q, m)) = Ids(q) \cup {m}
    BY <1>3, <2>1, <2>2, <2>3, SortedAppend, IdsAppend
  <2> QED
    BY <1>4, <2>4 DEF q
<1>6. Asked(c)'
  BY <1>1 DEF Told, Asked, clientVars
<1>7. Waiting(c)'
  BY <1>1 DEF Told, Waiting, clientVars
<1>8. Reads(c)'
  BY <1>1, <1>2, <1>5 DEF Told, Reads, Answer, clientVars
<1>9. Answered(c)'
  <2>1. ~open[c] /\ proc[c] \notin {"off", "gone"} /\ first[c] = "old"
        => shutdown \/ server = "exited"
    <3>1. Ids(ibuf[c]) \cup Ids(down[c]) \subseteq {"SHUTDOWN"}
      BY <1>1, <1>2, StreamType
    <3> QED
      BY <1>1, <3>1 DEF Told, Answered
  <2> QED
    BY <1>5, <2>1 DEF Answered, clientVars
<1>10. Left(c)'
  <2>1. "EXITED" \notin Ids(Stream(c)') /\ reason[c] # "EXITED"
    BY <1>1, <1>2, <1>5 DEF Told, Left, Answer
  <2> QED
    BY <1>1, <2>1 DEF Told, Left, clientVars
<1> QED
  BY <1>6, <1>7, <1>8, <1>9, <1>10 DEF Told

\* server_client_lost of a client that has gone, or because of the shutdown: what was
\* queued is lost, what is left is the beginning.
LEMMA DropTold ==
    ASSUME IInv, RInv, NEW c \in ClientId,
           out'[c] = <<>>, down'[c] = down[c], up'[c] = up[c], exit'[c] = exit[c],
           conn'[c] = "lost", tty'[c] = "closed", UNCHANGED <<clientVars, server>>,
           proc[c] = "gone" \/ shutdown', shutdown => shutdown'
    PROVE  Told(c)'
<1>1. TypeOK /\ Told(c)
  BY DEF IInv, RInv
<1> DEFINE q == ibuf[c] \o down[c]
           o == out[c]
<1>2. q \in Seq(ServerMsg) /\ o \in Seq(ServerMsg) /\ Stream(c) = q \o o
  BY <1>1, StreamType DEF Stream
<1>3. Stream(c)' = q
  <2>1. Stream(c)' = q \o <<>>
    BY DEF Stream, clientVars
  <2> HIDE DEF q
  <2>2. q \o <<>> = q
    BY <1>2, ConcatEmptySeq
  <2> QED
    BY <2>1, <2>2
<1>4. Ids(Stream(c)') \subseteq Ids(Stream(c)) /\ (Sorted(Stream(c)) => Sorted(Stream(c)'))
  <2> HIDE DEF q, o
  <2>1. Ids(q \o o) = Ids(q) \cup Ids(o) /\ (Sorted(q \o o) => Sorted(q))
    BY <1>2, Joined, SortedPrefix
  <2> QED
    BY <1>2, <1>3, <2>1
<1> HIDE DEF q, o
<1>5. Asked(c)'
  BY <1>1, <1>4 DEF Told, Asked, Unread, clientVars
<1>6. Waiting(c)'
  BY <1>1 DEF Told, Waiting, clientVars
<1>7. Reads(c)'
  BY <1>1, <1>4 DEF Told, Reads, Live, clientVars
<1>8. Answered(c)' /\ Left(c)'
  BY <1>1, <1>4 DEF Told, Answered, Left, clientVars
<1> QED
  BY <1>5, <1>6, <1>7, <1>8 DEF Told

\* server_accept_callback.
LEMMA AcceptTold ==
    ASSUME IInv, RInv, NEW c \in ClientId, Accept(c)
    PROVE  RInv'
<1>1. TypeOK /\ Order(c) /\ Told(c)
  BY DEF IInv, RInv
<1>2. Unread(c) /\ ~exit[c] /\ ~ses[c]
  BY <1>1 DEF Accept, Unread, Order, Told, Asked
<1>3. ServerSide(c)
  BY <1>1 DEF TypeOK, Accept, ServerSide, ServerOnly, Set
<1>4. Stream(c)' = Stream(c)
  BY DEF Accept, Stream, clientVars
<1>5. ~open'[c] => ~open[c] \/ shutdown'
  BY <1>1 DEF TypeOK, Accept, Set
<1>6. Quiet(c)
  BY <1>2, <1>4, <1>5 DEF Accept, Quiet
<1>7. Told(c)'
  BY <1>6, QuietTold
<1> QED
  BY <1>3, <1>7, ServerTold

\* server_client_msg_dispatch: the first message is the command, and is answered or
\* makes the client exit; MSG_EXITING closes the terminal.
LEMMA ServerReadTold ==
    ASSUME IInv, RInv, NEW c \in ClientId, ServerRead(c)
    PROVE  RInv'
<1> DEFINE msg == Head(up[c])
<1>1. TypeOK /\ Order(c) /\ Told(c) /\ Live(c) /\ ~bad[c]
  BY DEF IInv, RInv, ServerRead
<1>2. up[c] \in Seq(ClientMsg) /\ up[c] # <<>>
  BY <1>1 DEF TypeOK, ServerRead
<1>3. Ids(up[c]) = {msg} \cup Ids(Tail(up[c]))
  BY <1>2, IdsTail
<1>4. up'[c] = Tail(up[c]) /\ \A d \in ClientId \ {c} : up'[d] = up[d]
  BY <1>1 DEF TypeOK, ServerRead, Set
<1>5. UNCHANGED <<clientVars, down, open, server, shutdown, conn>>
  BY DEF ServerRead
<1>6. ~Unread(c)' /\ Ids(up'[c]) \subseteq Ids(up[c])
  BY <1>1, <1>2, <1>3, <1>4, <1>5 DEF Order, Unread, Live
<1>7. ASSUME UNCHANGED out, bad'[c] = bad[c], ses'[c] => ses[c],
             tty[c] = "closed" /\ ~Unread(c) => tty'[c] = "closed"
      PROVE  Told(c)'
  <2>1. Stream(c)' = Stream(c)
    BY <1>5, <1>7 DEF Stream, clientVars
  <2>2. Quiet(c)
    BY <1>1, <1>5, <1>6, <1>7, <2>1 DEF Quiet, Live
  <2> QED
    BY <2>2, QuietTold
<1>8. CASE ReadCommand(c, msg) /\ UNCHANGED susp
  <2>1. msg \in FirstMsg
    BY <1>8 DEF ReadCommand, FirstMsg
  <2>2. Unread(c) /\ first[c] = msg /\ ~ses[c]
    BY <1>1, <1>3, <2>1 DEF Unread, Order, Told, Asked
  <2>3. ServerSide(c)
    <3>1. \A d \in ClientId \ {c} :
             /\ ses'[d] = ses[d] /\ bad'[d] = bad[d] /\ tty'[d] = tty[d]
             /\ exit'[d] = exit[d]
      BY <1>1, <1>8 DEF TypeOK, ReadCommand, Set
    <3>2. \A d \in ClientId \ {c} : out'[d] = out[d]
      BY <1>1, <1>8 DEF TypeOK, ReadCommand, Write
    <3> QED
      BY <1>4, <1>5, <1>8, <3>1, <3>2 DEF ServerSide, ServerOnly
  <2>4. CASE msg = "attach" /\ out' = Write(out, c, "READY")
    <3>1. out'[c] = Append(out[c], "READY") /\ bad'[c] = bad[c]
      BY <1>1, <1>8, <2>4 DEF TypeOK, ReadCommand, Write
    <3>2. Told(c)'
      BY <1>1, <1>5, <1>6, <2>2, <3>1, FirstTold
    <3> QED
      BY <2>3, <3>2, ServerTold
  <2>5. CASE UNCHANGED <<out, ses, bad>>
    BY <1>7, <2>2, <2>3, <2>5, ServerTold
  <2>6. CASE msg \in {"shell", "old"}
    <3> DEFINE m == IF msg = "old" THEN "VERSION" ELSE "SHELL"
    <3>1. out'[c] = Append(out[c], m) /\ ses'[c] = ses[c]
      BY <1>1, <1>8, <2>6 DEF TypeOK, ReadCommand, Write
    <3>2. m \in Answer /\ (first[c] = "old" => m = "VERSION")
      BY <2>2 DEF Answer
    <3> HIDE DEF m
    <3>3. Told(c)'
      BY <1>1, <1>5, <1>6, <2>2, <3>1, <3>2, FirstTold
    <3> QED
      BY <2>3, <3>3, ServerTold
  <2> QED
    BY <1>8, <2>4, <2>5, <2>6 DEF ReadCommand
<1>9. CASE msg = "EXITING" /\ ReadExiting(c)
  <2>1. ServerSide(c)
    BY <1>1, <1>4, <1>5, <1>9 DEF TypeOK, ReadExiting, Write, ServerSide, ServerOnly, Set
  <2>2. ~ses'[c] /\ tty'[c] = "closed"
    BY <1>1, <1>9 DEF TypeOK, ReadExiting, Set
  <2>3. attached[c]
    BY <1>1, <1>3, <1>9 DEF Told, Asked
  <2>4. out'[c] = IF bad[c] THEN out[c] ELSE Append(out[c], "EXITED")
    BY <1>1, <1>9 DEF TypeOK, ReadExiting, Write
  <2>5. "EXITED" \in ServerMsg \ (Answer \cup {"READY"})
    BY DEF ServerMsg, Answer
  <2>6. bad'[c] = bad[c]
    BY <1>9 DEF ReadExiting
  <2>7. Told(c)'
    BY <1>5, <1>6, <2>2, <2>3, <2>4, <2>5, <2>6, WriteTold
  <2> QED
    BY <2>1, <2>7, ServerTold
<1>10. CASE msg \in {"WAKEUP", "UNLOCK"} /\ ReadWakeup(c)
  <2>1. ServerSide(c)
    BY <1>1, <1>4, <1>5, <1>10 DEF TypeOK, ReadWakeup, ServerSide, ServerOnly, Set
  <2>2. tty[c] = "closed" => tty'[c] = "closed"
    BY <1>1, <1>10 DEF TypeOK, ReadWakeup, Set, TtyStart
  <2>3. Told(c)'
    BY <1>7, <1>10, <2>2 DEF ReadWakeup
  <2> QED
    BY <2>1, <2>3, ServerTold
<1>11. CASE msg = "RESIZE" /\ UNCHANGED <<session, exit, bad, ses, out, susp, tty>>
  <2>1. ServerSide(c)
    BY <1>4, <1>5, <1>11 DEF ServerSide, ServerOnly
  <2>2. Told(c)'
    BY <1>7, <1>11
  <2> QED
    BY <2>1, <2>2, ServerTold
<1> QED
  BY <1>8, <1>9, <1>10, <1>11 DEF ServerRead

\* server_client_lost, for a client whose connection is found closed.
LEMMA LostTold ==
    ASSUME IInv, RInv, NEW c \in ClientId, Lost({c}), proc[c] = "gone",
           UNCHANGED <<clientVars, up, down, server, shutdown, ses, bad, susp, exit>>
    PROVE  RInv'
<1>1. ServerSide(c)
  BY DEF Lost, ServerSide, ServerOnly
<1>2. conn'[c] = "lost" /\ tty'[c] = "closed" /\ out'[c] = <<>>
  BY DEF Lost
<1>3. Told(c)'
  BY <1>2, DropTold
<1> QED
  BY <1>1, <1>3, ServerTold

\* server_client_callback, EV_WRITE: nothing of what was written is lost, also if the
\* client is bad and is dropped then.
LEMMA FlushTold ==
    ASSUME IInv, RInv, NEW c \in ClientId, Flush(c)
    PROVE  RInv'
<1>1. TypeOK
  BY DEF IInv
<1>2. CASE proc[c] = "gone"
  BY <1>2, LostTold DEF Flush
<1>3. CASE proc[c] # "gone"
  <2>1. down' = Set(down, c, down[c] \o out[c])
    BY <1>3 DEF Flush
  <2>2. /\ down'[c] = down[c] \o out[c]
        /\ \A d \in ClientId \ {c} : down'[d] = down[d]
    BY <1>1, <2>1 DEF TypeOK, Set
  <2>3. /\ out'[c] = <<>>
        /\ conn'[c] \in {conn[c], "lost"}
        /\ tty[c] = "closed" => tty'[c] = "closed"
        /\ open'[c] = open[c] \/ bad[c]
        /\ \A d \in ClientId \ {c} : /\ out'[d] = out[d] /\ conn'[d] = conn[d]
                                     /\ open'[d] = open[d] /\ tty'[d] = tty[d]
    <3>1. CASE bad[c]
      <4>1. Lost({c})
        BY <3>1 DEF Flush
      <4> QED
        BY <3>1, <4>1 DEF Lost
    <3>2. CASE ~bad[c]
      <4>1. out' = Set(out, c, <<>>) /\ UNCHANGED <<conn, open, tty>>
        BY <1>3, <3>2 DEF Flush
      <4>2. out'[c] = <<>> /\ \A d \in ClientId \ {c} : out'[d] = out[d]
        BY <1>1, <4>1 DEF TypeOK, Set
      <4> QED
        BY <4>1, <4>2
    <3> QED
      BY <3>1, <3>2
  <2>4. UNCHANGED <<clientVars, up, server, shutdown, session, ses, bad, susp, exit>> /\ Live(c)
    BY DEF Flush
  <2>5. ServerSide(c)
    BY <2>2, <2>3, <2>4 DEF ServerSide, ServerOnly
  <2> DEFINE i == ibuf[c]
             d == down[c]
             o == out[c]
  <2>6. /\ i \in Seq(ServerMsg) /\ d \in Seq(ServerMsg) /\ o \in Seq(ServerMsg)
        /\ Ids(Stream(c)) = Ids(i) \cup Ids(d) \cup Ids(o)
    BY <1>1, StreamType
  <2>7. Stream(c)' = (i \o (d \o o)) \o <<>> /\ Stream(c) = (i \o d) \o o
    BY <2>2, <2>3, <2>4 DEF Stream, clientVars
  <2>8. down'[c] = d \o o
    BY <2>2
  <2> HIDE DEF i, d, o
  <2>9. d \o o \in Seq(ServerMsg) /\ Ids(d \o o) = Ids(d) \cup Ids(o)
    BY <2>6, Joined
  <2>10. Stream(c)' = Stream(c)
    <3>1. i \o (d \o o) \in Seq(ServerMsg)
      BY <2>6, <2>9, Joined
    <3>2. (i \o (d \o o)) \o <<>> = i \o (d \o o)
      BY <3>1, ConcatEmptySeq
    <3>3. (i \o d) \o o = i \o (d \o o)
      BY <2>6, JoinedAlike
    <3> QED
      BY <2>7, <3>2, <3>3
  <2>11. /\ Ids(down[c]) \subseteq Ids(down'[c])
         /\ Ids(Stream(c)) \subseteq Ids(ibuf[c]) \cup Ids(down'[c])
    BY <2>6, <2>8, <2>9 DEF i, d
  <2>12. Unread(c)' => Unread(c) /\ ~exit'[c]
    <3>1. Unread(c)' => Unread(c)
      BY <2>3, <2>4 DEF Unread
    <3> QED
      BY <2>4, <3>1 DEF RInv, Told, Asked
  <2>13. Live(c)' /\ ses'[c] => Live(c) /\ ses[c]
    BY <2>3, <2>4 DEF Live
  <2>14. Quiet(c)
    BY <2>3, <2>4, <2>10, <2>11, <2>12, <2>13 DEF Quiet
  <2>15. Told(c)'
    BY <2>14, QuietTold
  <2> QED
    BY <2>5, <2>15, ServerTold
<1> QED
  BY <1>2, <1>3

\* server_client_check_exit: the command has been read.
LEMMA CheckExitTold ==
    ASSUME IInv, RInv, NEW c \in ClientId, CheckExit(c)
    PROVE  RInv'
<1>1. TypeOK /\ Told(c)
  BY DEF IInv, RInv
<1>2. ServerSide(c)
  BY <1>1 DEF TypeOK, CheckExit, Write, ServerSide, ServerOnly, Set
<1>3. "EXIT" \in ServerMsg \ (Answer \cup {"READY"}) /\ "EXIT" \notin Later
  BY DEF ServerMsg, Answer, Later
<1>4. out'[c] = IF bad[c] THEN out[c] ELSE Append(out[c], "EXIT")
  BY <1>1 DEF TypeOK, CheckExit, Write
<1>5. UNCHANGED <<clientVars, up, down, open, server, shutdown, conn, ses, bad, tty>>
  BY DEF CheckExit
<1>6. ~Unread(c)'
  BY <1>1, <1>5 DEF Told, Asked, Unread, CheckExit
<1>7. Told(c)'
  BY <1>3, <1>4, <1>5, <1>6, WriteTold
<1> QED
  BY <1>2, <1>7, ServerTold

\* detach-client, suspend-client and server_lock_client: a client that has a session
\* has been told that it is attached.
LEMMA OrderTold ==
    ASSUME IInv, RInv, NEW c \in ClientId, NEW m \in {"DETACH", "SUSPEND", "LOCK"},
           MayWrite(c), out' = Write(out, c, m), tty' = tty \/ tty' = Set(tty, c, TtyStop(tty[c])),
           \A d \in ClientId \ {c} : susp'[d] = susp[d],
           UNCHANGED <<clientVars, up, down, open, server, shutdown, session, conn,
                       ses, bad, exit>>
    PROVE  RInv'
<1>1. TypeOK /\ Order(c) /\ Told(c) /\ Live(c) /\ ses[c]
  BY DEF IInv, RInv, MayWrite
<1>2. /\ tty[c] = "closed" => tty'[c] = "closed"
      /\ \A d \in ClientId \ {c} : tty'[d] = tty[d]
  BY <1>1 DEF TypeOK, Set, TtyStop
<1>3. /\ out'[c] = IF bad[c] THEN out[c] ELSE Append(out[c], m)
      /\ \A d \in ClientId \ {c} : out'[d] = out[d]
  BY <1>1 DEF TypeOK, Write
<1>4. ServerSide(c)
  BY <1>2, <1>3 DEF ServerSide, ServerOnly
<1>5. m \in ServerMsg \ (Answer \cup {"READY"}) /\ m # "EXITED"
  BY DEF ServerMsg, Answer
<1>6. ~Unread(c)'
  BY <1>1 DEF Order, Unread, Live
<1>7. attached[c] \/ proc[c] = "gone" \/ "READY" \in Ids(Stream(c))
  BY <1>1 DEF Told, Reads
<1>8. Told(c)'
  BY <1>2, <1>3, <1>5, <1>6, <1>7, WriteTold
<1> QED
  BY <1>4, <1>8, ServerTold

-----------------------------------------------------------------------------
(* What the server does for all clients. *)

\* server_destroy_session: the clients that are to exit have been served.
LEMMA EndSessionsTold ==
    ASSUME IInv, RInv, EndSessions
    PROVE  RInv'
<1> SUFFICES ASSUME NEW c \in ClientId PROVE Told(c)'
  BY DEF RInv
<1>1. Order(c) /\ Told(c)
  BY DEF IInv, RInv
<1>2. /\ UNCHANGED <<clientVars, up, down, open, server, shutdown, conn, bad, out, tty>>
      /\ ~ses'[c] /\ (exit'[c] => exit[c] \/ (Live(c) /\ ses[c]))
  BY DEF EndSessions
<1>3. Unread(c)' <=> Unread(c)
  BY <1>2 DEF Unread
<1>4. Live(c) /\ ses[c] => ~Unread(c)
  BY <1>1 DEF Order, Unread, Live
<1>5. Unread(c)' => Unread(c) /\ ~exit'[c]
  BY <1>1, <1>2, <1>3, <1>4 DEF Told, Asked
<1>6. Stream(c)' = Stream(c)
  BY <1>2 DEF Stream, clientVars
<1>7. Quiet(c)
  BY <1>2, <1>5, <1>6 DEF Quiet
<1> QED
  BY <1>7, QuietTold

\* server_send_shutdown: MSG_SHUTDOWN may be told to any client at any time.
LEMMA SendShutdownTold ==
    ASSUME IInv, RInv, SendShutdown
    PROVE  RInv'
<1> SUFFICES ASSUME NEW c \in ClientId PROVE Told(c)'
  BY DEF RInv
<1>1. TypeOK /\ Order(c) /\ Told(c)
  BY DEF IInv, RInv
<1> DEFINE cs == {d \in ClientId : conn[d] = "live" /\ (bad[d] \/ susp[d])}
<1>2. /\ UNCHANGED <<clientVars, up, down, server, bad, susp, exit>>
      /\ shutdown' /\ ~ses'[c]
      /\ conn'[c] = IF c \in cs THEN "lost" ELSE conn[c]
      /\ open'[c] = IF c \in cs THEN FALSE ELSE open[c]
      /\ tty'[c]  = IF c \in cs THEN "closed" ELSE tty[c]
  BY DEF SendShutdown
<1>3. out'[c] = CASE c \in cs -> <<>>
                  [] c \notin cs /\ conn[c] = "live" -> Append(out[c], "SHUTDOWN")
                  [] OTHER -> out[c]
  BY DEF SendShutdown
<1>4. CASE c \in cs
  <2>1. out'[c] = <<>> /\ conn'[c] = "lost" /\ tty'[c] = "closed"
    BY <1>2, <1>3, <1>4
  <2> HIDE DEF cs
  <2> QED
    BY <1>2, <2>1, DropTold
<1>5. CASE c \notin cs /\ conn[c] = "live"
  <2>1. /\ out'[c] = IF bad[c] THEN out[c] ELSE Append(out[c], "SHUTDOWN")
        /\ conn'[c] = conn[c] /\ open'[c] = open[c] /\ tty'[c] = tty[c]
    BY <1>2, <1>3, <1>5
  <2>2. /\ "SHUTDOWN" \in ServerMsg \ (Answer \cup {"READY"})
        /\ "SHUTDOWN" \notin Later
    BY DEF ServerMsg, Answer, Later
  <2> HIDE DEF cs
  <2>3. Unread(c)' => Unread(c) /\ ~exit'[c]
    BY <1>1, <1>2, <2>1 DEF Told, Asked, Unread
  <2> QED
    BY <1>2, <2>1, <2>2, <2>3, WriteTold
<1>6. CASE c \notin cs /\ conn[c] # "live"
  <2>1. out'[c] = out[c] /\ conn'[c] = conn[c] /\ open'[c] = open[c] /\ tty'[c] = tty[c]
    BY <1>2, <1>3, <1>6
  <2> HIDE DEF cs
  <2>2. Stream(c)' = Stream(c)
    BY <1>2, <2>1 DEF Stream, clientVars
  <2>3. Unread(c)' => Unread(c) /\ ~exit'[c]
    BY <1>1, <1>2, <2>1 DEF Told, Asked, Unread
  <2>4. Quiet(c)
    BY <1>2, <2>1, <2>2, <2>3 DEF Quiet
  <2> QED
    BY <2>4, QuietTold
<1> QED
  BY <1>4, <1>5, <1>6

\* server_loop ends.
LEMMA ServerExitTold ==
    ASSUME IInv, RInv, ServerExit
    PROVE  RInv'
<1> SUFFICES ASSUME NEW c \in ClientId PROVE Told(c)'
  BY DEF RInv
<1>1. Told(c)
  BY DEF RInv
<1>2. /\ UNCHANGED <<clientVars, up, down, shutdown, conn, ses, bad, exit, out, tty>>
      /\ server' = "exited"
  BY DEF ServerExit
<1>3. Stream(c)' = Stream(c)
  BY <1>2 DEF Stream, clientVars
<1>4. Unread(c)' => Unread(c) /\ ~exit'[c]
  BY <1>1, <1>2 DEF Told, Asked, Unread
<1>5. Quiet(c)
  BY <1>2, <1>3, <1>4 DEF Quiet, Live
<1> QED
  BY <1>5, QuietTold

-----------------------------------------------------------------------------

\* Before anything has happened nobody has been told anything.
LEMMA InitTold == Init => RInv
<1> SUFFICES ASSUME Init, NEW c \in ClientId PROVE Told(c)
  BY DEF RInv
<1>1. /\ proc[c] = "off" /\ ~attached[c] /\ ibuf[c] = <<>> /\ mode[c] = "none"
      /\ reason[c] = "none" /\ up[c] = <<>> /\ down[c] = <<>> /\ out[c] = <<>>
      /\ ~ses[c] /\ ~exit[c]
  BY DEF Init
<1>2. Ids(Stream(c)) = {} /\ Sorted(Stream(c))
  <2>1. Stream(c) = <<>>
    BY <1>1 DEF Stream
  <2> QED
    BY <2>1, IdsEmpty, SortedShutdown
<1>3. Asked(c) /\ Reads(c) /\ Answered(c) /\ Left(c)
  BY <1>1, <1>2, IdsEmpty DEF Asked, Reads, Answered, Left
<1>4. Waiting(c)
  <2>1. Len(ibuf[c]) = 0
    BY <1>1, EmptySeq
  <2>2. \A k \in 1..Len(ibuf[c]) - 1 : FALSE
    BY <2>1, NoneBelow, Zenon
  <2> QED
    BY <1>1, <2>2 DEF Waiting
<1> QED
  BY <1>3, <1>4 DEF Told

\* Every step keeps it true what a client says, if MSG_READY is not read together with
\* what follows it.
LEMMA StepTold == ~Coalesce /\ IInv /\ RInv /\ [Next]_vars => RInv'
<1> SUFFICES ASSUME ~Coalesce, IInv, RInv, [Next]_vars PROVE RInv'
  OBVIOUS
<1>1. ASSUME NEW c \in ClientId, NEW msg \in Commands, Connect(c, msg) PROVE RInv'
  BY <1>1, ConnectTold
<1>2. ASSUME NEW c \in ClientId, ClientStep(c) PROVE RInv'
  BY <1>2, ClientReadTold, ReadAgainTold, ClientEOFTold, DispatchWaitTold, DispatchAttachedTold
     DEF ClientStep
<1>3. ASSUME NEW c \in ClientId, NEW sig \in Signal, Handle(c, sig) \/ Raise(c, sig) PROVE RInv'
  BY <1>3, HandleTold, RaiseTold
<1>4. ASSUME NEW c \in ClientId, LockDone(c) \/ Killed(c) PROVE RInv'
  BY <1>4, LockDoneTold, KilledTold
<1>5. ASSUME NEW c \in ClientId, ServerStep(c) PROVE RInv'
  <2>1. CASE ServerEOF(c)
    BY <2>1, LostTold DEF ServerEOF
  <2> QED
    BY <1>5, <2>1, AcceptTold, ServerReadTold, FlushTold, CheckExitTold DEF ServerStep
<1>6. ASSUME NEW c \in ClientId, Detach(c) PROVE RInv'
  BY <1>6, OrderTold DEF Detach
<1>7. ASSUME NEW c \in ClientId, NEW msg \in {"SUSPEND", "LOCK"}, Suspend(c, msg) PROVE RInv'
  <2>1. \A d \in ClientId \ {c} : susp'[d] = susp[d]
    BY <1>7 DEF IInv, TypeOK, Suspend, Set
  <2> QED
    BY <1>7, <2>1, OrderTold DEF Suspend
<1>8. CASE EndSessions \/ SendShutdown \/ ServerExit
  BY <1>8, EndSessionsTold, SendShutdownTold, ServerExitTold
<1>9. CASE UNCHANGED vars
  <2> SUFFICES ASSUME NEW c \in ClientId PROVE Told(c)'
    BY DEF RInv
  <2>1. Told(c) /\ Stream(c)' = Stream(c)
    BY <1>9 DEF RInv, Stream, vars, clientVars, serverVars
  <2>2. Asked(c)' /\ Waiting(c)'
    BY <1>9, <2>1 DEF Told, Asked, Unread, Waiting, vars, clientVars, serverVars
  <2>3. Reads(c)'
    BY <1>9, <2>1 DEF Told, Reads, Live, vars, clientVars, serverVars
  <2>4. Answered(c)' /\ Left(c)'
    BY <1>9, <2>1 DEF Told, Answered, Left, vars, clientVars, serverVars
  <2> QED
    BY <2>2, <2>3, <2>4 DEF Told
<1> QED
  BY <1>1, <1>2, <1>3, <1>4, <1>5, <1>6, <1>7, <1>8, <1>9 DEF Next

\* If the socket never delivers MSG_READY in one read with what follows it, then no
\* dispatch function meets a message it does not expect, a client that leaves in good
\* order has its terminal back, and one of another version has been told so: the
\* reasons client_main prints are true.
THEOREM ReasonIsTrue ==
    ASSUME ~Coalesce
    PROVE  Spec => []ReasonTrue
<1>1. RInv => ReasonTrue
  BY DEF RInv, Told, Left, ReasonTrue, NoUnexpected, TerminalReturned, VersionTold
<1>2. Init => IInv /\ RInv
  BY InitSound, InitTold
<1>3. IInv /\ RInv /\ [Next]_vars => (IInv /\ RInv)'
  BY StepSound, StepTold
<1> QED
  BY <1>1, <1>2, <1>3, PTL DEF Spec

=============================================================================
