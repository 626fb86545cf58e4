------------------------ MODULE SessionClientsProofs ------------------------
(***************************************************************************)
(* That no client is left on a session that has ended, for every number of *)
(* clients and sessions, as long as no client is suspended while a session *)
(* has destroy-unattached.                                                 *)
(***************************************************************************)
EXTENDS SessionClients, SequenceLemmas

\* q is an order of the sessions ss.
Orders(q, ss) == q \in Seq(SessionId) /\ IsInjective(q) /\ ToSet(q) = ss

\* The types of the two trees, and of the sessions in neither.
Trees ==
    /\ sessions \subseteq SessionId /\ dead \subseteq SessionId \ sessions
    /\ lost \subseteq SessionId \ (sessions \cup dead)
    /\ name \in [SessionId -> Name \cup {NoName}]
    /\ Keyed(sessions) /\ Keyed(dead)

\* What holds whatever users do.
Base ==
    /\ TypeOK
    /\ IsInjective(activity)
    /\ HeldNotFreed

\* With Together FALSE: a session that is destroyed when only suspended clients
\* are on it, and suspended clients, are not there at the same time.
DestroysAlone == \A s \in sessions : opts[s].destroy => \A c \in ClientId : ~clients[c].susp

IInv ==
    /\ Base
    /\ DestroysAlone
    /\ ClientSessionAlive
    /\ UnattachedHasNoClient

(***************************************************************************)
(* The operators.                                                          *)
(***************************************************************************)
\* session_update_activity brings a session to the end of the order.
LEMMA TouchProps ==
    ASSUME NEW q, NEW ss, Orders(q, ss), NEW s \in SessionId
    PROVE  Orders(Touch(q, s), ss \cup {s})
<1> DEFINE r == RemoveFirst(q, s)
<1>1. r \in Seq(SessionId) /\ IsInjective(r) /\ ToSet(r) = ss \ {s}
  BY RemoveFirstProps DEF Orders
<1> HIDE DEF r
<1>2. /\ Append(r, s) \in Seq(SessionId) /\ IsInjective(Append(r, s))
      /\ ToSet(Append(r, s)) = ToSet(r) \cup {s}
  BY <1>1, AppendProps
<1> QED
  BY <1>1, <1>2 DEF Orders, Touch, r

\* A session that ends leaves the order.
LEMMA RemoveOrders ==
    ASSUME NEW q, NEW ss, Orders(q, ss), NEW s
    PROVE  Orders(RemoveFirst(q, s), ss \ {s})
BY RemoveFirstProps DEF Orders

\* server_next_session finds another session, if there is one.
LEMMA NextProps ==
    ASSUME NEW ss, Orders(activity, ss), NEW s
    PROVE  /\ ServerNextSession(s) \in (ss \ {s}) \cup {NoSession}
           /\ ss \subseteq SessionId
<1> DEFINE q == RemoveFirst(activity, s)
<1>1. Orders(q, ss \ {s})
  BY RemoveOrders
<1> HIDE DEF q
<1>2. ASSUME q # <<>> PROVE Head(q) \in ss \ {s}
  <2>1. q \in Seq(SessionId) /\ Len(q) \in Nat /\ DOMAIN q = 1..Len(q) /\ Len(q) # 0
    BY <1>1, <1>2, LenProperties, EmptySeq DEF Orders
  <2>2. 1 \in DOMAIN q /\ Head(q) = q[1]
    BY <2>1
  <2> QED
    BY <1>1, <2>2 DEF Orders, ToSet
<1>3. ss \subseteq SessionId
  BY RangeOfSeq DEF Orders, ToSet, Range
<1> QED
  BY <1>2, <1>3 DEF ServerNextSession, q

\* recalculate_sizes leaves no client that can be drawn on a session it marks.
LEMMA RecalculateProps ==
    ASSUME NEW ss, NEW cl, unattached \subseteq SessionId
    PROVE  /\ Recalculate(ss, cl) \subseteq SessionId
           /\ \A s \in ss \cap Recalculate(ss, cl) : \A c \in On(cl, s) : cl[c].susp
BY DEF Recalculate

\* server_destroy_session takes every client off the session.
LEMMA DestroySessionProps ==
    ASSUME Base, NEW s \in sessions, NEW detach \in BOOLEAN, NEW ss,
           DestroySession(s, detach, ss)
    PROVE  /\ Orders(activity', sessions \ {s})
           /\ clients' \in [ClientId -> ClientType]
           /\ \A c \in ClientId : /\ clients'[c].state = clients[c].state
                                  /\ clients'[c].susp  = clients[c].susp
                                  /\ c \notin On(clients, s) => clients'[c] = clients[c]
           /\ \A c \in On(clients, s) :
                 \/ clients'[c].session \in sessions \ {s}
                 \/ clients'[c].session = NoSession /\ clients'[c].exit
           /\ unattached' = Recalculate(ss, clients')
<1> DEFINE new == IF detach THEN NoSession ELSE ServerNextSession(s)
           leave(x) == IF new = NoSession
                       THEN [x EXCEPT !.session = NoSession, !.exit = TRUE]
                       ELSE [x EXCEPT !.session = new, !.last = NoSession]
           q == RemoveFirst(activity, s)
<1>1. Orders(activity, sessions)
  BY DEF Base, TypeOK, Orders
<1>2. new \in (sessions \ {s}) \cup {NoSession} /\ sessions \subseteq SessionId
  BY <1>1, NextProps
<1>3. /\ clients' = [c \in ClientId |-> IF c \in On(clients, s) THEN leave(clients[c])
                                                                ELSE clients[c]]
      /\ activity' = IF new # NoSession /\ On(clients, s) # {} THEN Touch(q, new) ELSE q
      /\ unattached' = Recalculate(ss, clients')
  BY DEF DestroySession
<1> HIDE DEF new
<1>4. Orders(activity', sessions \ {s})
  <2>1. Orders(q, sessions \ {s})
    BY <1>1, RemoveOrders
  <2>2. ASSUME new # NoSession PROVE Orders(Touch(q, new), (sessions \ {s}) \cup {new})
    <3> HIDE DEF q
    <3> QED
      BY <1>2, <2>1, <2>2, TouchProps
  <2>3. new # NoSession => (sessions \ {s}) \cup {new} = sessions \ {s}
    BY <1>2
  <2> QED
    BY <1>3, <2>1, <2>2, <2>3
<1>5. clients \in [ClientId -> ClientType]
  BY DEF Base, TypeOK
<1>6. ASSUME NEW x \in ClientType
      PROVE  /\ leave(x) \in ClientType
             /\ leave(x).state = x.state /\ leave(x).susp = x.susp
             /\ \/ leave(x).session \in sessions \ {s}
                \/ leave(x).session = NoSession /\ leave(x).exit
  BY <1>2 DEF ClientType, Pointer
<1>7. On(clients, s) \subseteq ClientId
  BY DEF On
<1> HIDE DEF leave
<1>8. clients' \in [ClientId -> ClientType]
  BY <1>3, <1>5, <1>6
<1> QED
  BY <1>3, <1>4, <1>5, <1>6, <1>7, <1>8

\* session_destroy keeps the trees, and what ends is in one of them or in neither.
LEMMA DestroyProps ==
    ASSUME Base, NEW V \in SUBSET sessions, Destroy(V)
    PROVE  /\ sessions' = sessions \ V
           /\ Trees'
           /\ sessions \cup dead \cup lost \subseteq sessions' \cup dead' \cup lost'
<1> DEFINE E == Entered(V)
<1>1. E \subseteq V /\ \A s \in E : \A d \in dead : name[d] # name[s]
  BY DEF Entered
<1>2. /\ sessions' = sessions \ V /\ dead' = dead \cup E /\ lost' = lost \cup (V \ E)
      /\ name' = name
  BY DEF Destroy
<1> HIDE DEF E
<1>3. TypeOK
  BY DEF Base
<1>4. Keyed(sessions)' /\ Keyed(dead)'
  <2>1. \A s, t \in sessions : name[s] = name[t] => s = t
    BY <1>3 DEF TypeOK, Keyed
  <2>2. \A s, t \in dead : name[s] = name[t] => s = t
    BY <1>3 DEF TypeOK, Keyed
  <2>3. \A s, t \in dead \cup E : name[s] = name[t] => s = t
    BY <1>1, <2>1, <2>2
  <2> QED
    BY <1>2, <2>1, <2>3 DEF Keyed
<1>5. /\ sessions' \subseteq SessionId /\ dead' \subseteq SessionId \ sessions'
      /\ lost' \subseteq SessionId \ (sessions' \cup dead')
      /\ name' \in [SessionId -> Name \cup {NoName}]
  BY <1>1, <1>2, <1>3 DEF TypeOK
<1>6. sessions \cup dead \cup lost \subseteq sessions' \cup dead' \cup lost'
  BY <1>1, <1>2
<1> QED
  BY <1>2, <1>4, <1>5, <1>6 DEF Trees

\* server_check_unattached destroys sessions with destroy-unattached that are marked.
LEMMA CheckProps ==
    ASSUME NEW U, CheckUnattached(U)
    PROVE  /\ unattached' = U
           /\ \E V \in SUBSET (sessions \cap U) : /\ \A v \in V : opts[v].destroy
                                                 /\ Destroy(V)
<1> DEFINE victims  == {s \in sessions \cap U : opts[s].destroy}
           First(s) == \A r \in victims : name[s] <= name[r]
<1>1. /\ unattached' = U
      /\ \E V \in SUBSET victims :
            /\ victims # {} => \E s \in V : First(s)
            /\ \A s \in Entered(V) : Entered(V) = {s} /\ (First(s) => V = {s})
            /\ Destroy(V)
  BY DEF CheckUnattached
<1>2. PICK V \in SUBSET victims : Destroy(V)
  BY <1>1
<1> QED
  BY <1>1, <1>2

\* The order of the sessions follows: what is left of the first n of them is right for
\* every n, as there is no first n for which it is wrong.
LEMMA ForgetProps ==
    ASSUME NEW q, Orders(q, sessions), sessions' \subseteq sessions
    PROVE  Orders(Forget(q), sessions')
<1> DEFINE N == Len(q)
           Turn(r, n) == IF q[n] \in sessions' THEN Append(r, q[n]) ELSE r
           Is(g, m) == g = [n \in 0..m |-> IF n = 0 THEN <<>>
                                           ELSE IF q[n] \in sessions'
                                           THEN Append(g[n - 1], q[n]) ELSE g[n - 1]]
           left == CHOOSE g : Is(g, N)
           Seen(n) == {q[i] : i \in 1..n} \cap sessions'
<1>1. q \in Seq(SessionId) /\ IsInjective(q) /\ ToSet(q) = sessions
  BY DEF Orders
<1>2. /\ N \in Nat /\ DOMAIN q = 1..N /\ \A i \in 1..N : q[i] \in SessionId
      /\ ToSet(q) = {q[i] : i \in 1..N}
      /\ \A i, j \in 1..N : q[i] = q[j] => i = j
  BY <1>1, LenProperties, ElementOfSeq DEF ToSet, IsInjective
<1>3. Forget(q) = left[N]
  BY DEF Forget
<1>4. \A m \in 0..N : \E g : Is(g, m)
  <2> DEFINE T == {m \in 0..N : ~\E g : Is(g, m)}
  <2>1. SUFFICES ASSUME T # {} PROVE FALSE
    OBVIOUS
  <2>2. PICK m \in T : \A i \in T : m <= i
    <3>1. T \in SUBSET Nat
      BY <1>2
    <3> HIDE DEF T
    <3> QED
      BY <2>1, <3>1, MinProps
  <2>3. m \in Nat /\ m <= N
    BY <1>2
  <2>4. CASE m = 0
    <3> DEFINE g == [n \in 0..0 |-> <<>>]
    <3>1. Is(g, 0)
      OBVIOUS
    <3> QED
      BY <2>4, <3>1
  <2>5. CASE m # 0
    <3>1. m - 1 \in 0..N /\ m - 1 \notin T
      <4>1. m - 1 \in 0..N /\ ~(m <= m - 1)
        BY <1>2, <2>3, <2>5
      <4> HIDE DEF T
      <4> QED
        BY <2>2, <4>1
    <3>2. PICK g : Is(g, m - 1)
      BY <3>1
    <3> DEFINE h == [n \in 0..m |-> IF n = m THEN Turn(g[m - 1], m) ELSE g[n]]
    <3>3. \A n \in 0..m : n # m => n \in 0..m - 1 /\ (n # 0 => n - 1 \in 0..m - 1 /\ n - 1 # m)
      BY <2>3, <2>5
    <3>4. m - 1 \in 0..m /\ m - 1 # m /\ m \in 0..m
      BY <2>3, <2>5
    <3>5. ASSUME NEW n \in 0..m
          PROVE  h[n] = IF n = 0 THEN <<>> ELSE IF q[n] \in sessions'
                                          THEN Append(h[n - 1], q[n]) ELSE h[n - 1]
      <4>1. CASE n = m
        BY <2>5, <3>4, <4>1
      <4>2. CASE n # m
        <5>1. h[n] = g[n] /\ n \in 0..m - 1
          BY <3>3, <4>2
        <5>2. n # 0 => h[n - 1] = g[n - 1]
          <6>1. n # 0 => n - 1 \in 0..m /\ n - 1 # m
            BY <2>3
          <6> QED
            BY <6>1
        <5>3. g[n] = IF n = 0 THEN <<>> ELSE IF q[n] \in sessions'
                                         THEN Append(g[n - 1], q[n]) ELSE g[n - 1]
          BY <3>2, <5>1
        <5> QED
          BY <5>1, <5>2, <5>3
      <4> QED
        BY <4>1, <4>2
    <3>6. Is(h, m)
      BY <3>5
    <3> QED
      BY <3>6
  <2> QED
    BY <2>4, <2>5
<1>5. Is(left, N)
  <2>1. \E g : Is(g, N)
    BY <1>2, <1>4
  <2> QED
    BY <2>1
<1>6. left[0] = <<>> /\ \A n \in 1..N : left[n] = Turn(left[n - 1], n)
  <2> HIDE DEF left, N
  <2>1. 0 \in 0..N /\ \A n \in 1..N : n \in 0..N /\ n # 0
    BY <1>2
  <2> QED
    BY <1>5, <2>1
<1> HIDE DEF left
<1>7. Seen(N) = sessions' /\ Orders(<<>>, Seen(0))
  <2>1. Seen(N) = sessions'
    BY <1>1, <1>2
  <2>2. <<>> \in Seq(SessionId) /\ DOMAIN <<>> = {} /\ 1..0 = {}
    BY EmptySeq, LenProperties
  <2> QED
    BY <2>1, <2>2 DEF Orders, ToSet, IsInjective
<1>8. ASSUME NEW n \in 1..N, NEW r, Orders(r, Seen(n - 1))
      PROVE  Orders(Turn(r, n), Seen(n))
  <2>1. n - 1 \in 0..N /\ 1..n = 1..n - 1 \cup {n} /\ n \notin 1..n - 1 /\ 1..n - 1 \subseteq 1..N
    BY <1>2
  <2>2. CASE q[n] \notin sessions'
    <3>1. Seen(n) = Seen(n - 1)
      BY <2>1, <2>2
    <3> QED
      BY <1>8, <2>2, <3>1
  <2>3. CASE q[n] \in sessions'
    <3>1. Seen(n) = Seen(n - 1) \cup {q[n]}
      BY <2>1, <2>3
    <3>2. q[n] \notin Seen(n - 1) /\ q[n] \in SessionId
      BY <1>2, <2>1
    <3> HIDE DEF Seen
    <3>3. Orders(Append(r, q[n]), Seen(n - 1) \cup {q[n]})
      BY <1>8, <3>2, AppendProps DEF Orders
    <3> QED
      BY <2>3, <3>1, <3>3
  <2> QED
    BY <2>2, <2>3
<1>9. \A n \in 0..N : Orders(left[n], Seen(n))
  <2> DEFINE T == {n \in 0..N : ~Orders(left[n], Seen(n))}
  <2> HIDE DEF Turn, Seen
  <2>1. SUFFICES ASSUME T # {} PROVE FALSE
    OBVIOUS
  <2>2. PICK m \in T : \A i \in T : m <= i
    <3>1. T \in SUBSET Nat
      BY <1>2
    <3> HIDE DEF T
    <3> QED
      BY <2>1, <3>1, MinProps
  <2>3. m # 0
    BY <1>6, <1>7
  <2>4. m \in 1..N /\ m - 1 \in 0..N /\ ~(m <= m - 1)
    BY <1>2, <2>3
  <2>5. m - 1 \notin T
    <3> HIDE DEF T
    <3> QED
      BY <2>2, <2>4
  <2> QED
    BY <1>6, <1>8, <2>4, <2>5
<1>10. N \in 0..N
  BY <1>2
<1> QED
  BY <1>3, <1>7, <1>9, <1>10

(***************************************************************************)
(* The steps.                                                              *)
(***************************************************************************)
\* What a mode holds stays as long as nothing is freed.
LEMMA HeldKept ==
    ASSUME Base, held' = held,
           sessions \cup dead \cup lost \subseteq sessions' \cup dead' \cup lost',
           \A c \in ClientId : clients[c].state # "free" => clients'[c].state # "free"
    PROVE  HeldNotFreed'
<1>1. \A x \in held : x[2] \in ClientId
  BY DEF Base, TypeOK
<1> QED
  BY <1>1 DEF HeldNotFreed, Base

\* A client's own changes.
LEMMA RememberProps ==
    ASSUME NEW x \in ClientType, NEW s \in Pointer
    PROVE  /\ [Remember(x) EXCEPT !.session = s] \in ClientType
           /\ [Remember(x) EXCEPT !.session = s].session = s
           /\ [Remember(x) EXCEPT !.session = s].state = x.state
           /\ [Remember(x) EXCEPT !.session = s].susp = x.susp
BY DEF Remember, ClientType

\* new-session keeps the types and what is held.
LEMMA NewSessionBase ==
    ASSUME Base, NEW c \in ClientId, NEW s \in SessionId, NEW n \in Name, NEW o \in OptionType,
           NEW detached \in BOOLEAN, NewSession(c, s, n, o, detached)
    PROVE  Base'
<1> DEFINE x == [Remember(clients[c]) EXCEPT !.session = s]
<1>1. TypeOK /\ Orders(activity, sessions)
  BY DEF Base, TypeOK, Orders
<1>2. x \in ClientType /\ x.state = clients[c].state
  BY <1>1, RememberProps DEF TypeOK, Pointer
<1>3. clients' = IF detached THEN clients ELSE [clients EXCEPT ![c] = x]
  BY DEF NewSession
<1> HIDE DEF x
<1>4. /\ clients' \in [ClientId -> ClientType]
      /\ \A d \in ClientId : clients'[d].state = clients[d].state
  BY <1>1, <1>2, <1>3 DEF TypeOK
<1>5. Orders(activity', sessions')
  BY <1>1, TouchProps DEF NewSession
<1>6. unattached' \in SUBSET SessionId
  BY <1>1, RecalculateProps DEF NewSession, TypeOK
<1>7. o \in [destroy : BOOLEAN, detach : BOOLEAN]
  BY OptionAssumption
<1>8. TypeOK'
  <2>1. Trees'
    <3>1. /\ s \notin sessions \cup dead \cup lost /\ \A t \in sessions : name[t] # n
          /\ sessions' = sessions \cup {s} /\ dead' = dead /\ lost' = lost
          /\ name' = [name EXCEPT ![s] = n]
      BY DEF NewSession, Taken
    <3>2. name'[s] = n /\ \A t \in sessions \cup dead : name'[t] = name[t]
      BY <1>1, <3>1 DEF TypeOK
    <3>3. Keyed(sessions)' /\ Keyed(dead)'
      BY <1>1, <3>1, <3>2 DEF TypeOK, Keyed
    <3> QED
      BY <1>1, <3>1, <3>3 DEF TypeOK, Trees
  <2>2. opts' \in [SessionId -> [destroy : BOOLEAN, detach : BOOLEAN]]
    BY <1>1, <1>7 DEF TypeOK, NewSession
  <2>3. held' = held /\ socket' \in BOOLEAN
    BY DEF NewSession, Attached
  <2> QED
    BY <1>1, <1>4, <1>5, <1>6, <2>1, <2>2, <2>3 DEF TypeOK, Trees, Orders
<1>9. HeldNotFreed'
  BY <1>4, HeldKept DEF NewSession
<1> QED
  BY <1>5, <1>8, <1>9 DEF Base, Orders

\* So does the end of a session by kill-session or by its last window.
LEMMA EndBase ==
    ASSUME Base, NEW s \in SessionId, KillSession(s) \/ CloseLastWindow(s)
    PROVE  Base'
<1>1. /\ s \in sessions /\ Destroy({s}) /\ UNCHANGED <<opts, held, socket>>
      /\ \E detach \in BOOLEAN, ss \in SUBSET SessionId : DestroySession(s, detach, ss)
  BY OptionAssumption DEF KillSession, CloseLastWindow, Base, TypeOK
<1>2. PICK detach \in BOOLEAN, ss \in SUBSET SessionId : DestroySession(s, detach, ss)
  BY <1>1
<1>3. /\ Orders(activity', sessions \ {s})
      /\ clients' \in [ClientId -> ClientType]
      /\ \A c \in ClientId : clients'[c].state = clients[c].state
      /\ unattached' = Recalculate(ss, clients')
  BY <1>1, <1>2, DestroySessionProps
<1>4. /\ sessions' = sessions \ {s} /\ Trees'
      /\ sessions \cup dead \cup lost \subseteq sessions' \cup dead' \cup lost'
  BY <1>1, DestroyProps
<1>5. unattached' \subseteq SessionId
  BY <1>3, RecalculateProps DEF Base, TypeOK
<1>6. TypeOK'
  BY <1>1, <1>3, <1>4, <1>5 DEF Base, TypeOK, Trees, Orders
<1>7. HeldNotFreed'
  BY <1>1, <1>3, <1>4, HeldKept
<1> QED
  BY <1>3, <1>6, <1>7 DEF Base, Orders

\* And what collects sessions: switch-client and the loss of a client.
LEMMA CheckBase ==
    ASSUME Base, NEW U \in SUBSET SessionId, CheckUnattached(U),
           UNCHANGED <<opts, held>>, socket' \in BOOLEAN,
           clients' \in [ClientId -> ClientType],
           \A c \in ClientId : clients[c].state # "free" => clients'[c].state # "free",
           NEW q, Orders(q, sessions), activity' = Forget(q)
    PROVE  Base'
<1>1. /\ unattached' = U /\ sessions' \subseteq sessions /\ Trees'
      /\ sessions \cup dead \cup lost \subseteq sessions' \cup dead' \cup lost'
  <2>1. PICK V \in SUBSET (sessions \cap U) : Destroy(V)
    BY CheckProps
  <2> QED
    BY <2>1, CheckProps, DestroyProps
<1>2. Orders(activity', sessions')
  BY <1>1, ForgetProps
<1>3. TypeOK'
  BY <1>1, <1>2 DEF Base, TypeOK, Trees, Orders
<1>4. HeldNotFreed'
  BY <1>1, HeldKept
<1> QED
  BY <1>2, <1>3, <1>4 DEF Base, Orders

\* switch-client to a live session.
LEMMA SwitchBase ==
    ASSUME Base, NEW c \in ClientId, NEW s \in sessions, SwitchTo(c, s)
    PROVE  Base'
<1> DEFINE x  == [Remember(clients[c]) EXCEPT !.session = s]
           cl == [clients EXCEPT ![c] = x]
           U  == Recalculate(sessions, cl)
<1>1. TypeOK /\ Orders(activity, sessions) /\ s \in SessionId
  BY DEF Base, TypeOK, Orders
<1>2. x \in ClientType /\ x.state = clients[c].state
  BY <1>1, RememberProps DEF TypeOK, Pointer
<1>3. clients' = cl /\ CheckUnattached(U) /\ activity' = Forget(Touch(activity, s))
  BY DEF SwitchTo
<1>4. U \in SUBSET SessionId
  BY <1>1, RecalculateProps DEF TypeOK
<1>5. Orders(Touch(activity, s), sessions)
  <2>1. Orders(Touch(activity, s), sessions \cup {s}) /\ sessions \cup {s} = sessions
    BY <1>1, TouchProps
  <2> QED
    BY <2>1
<1>6. UNCHANGED <<opts, held>> /\ socket' \in BOOLEAN
  BY <1>1 DEF SwitchTo, TypeOK
<1> HIDE DEF x, U
<1>7. /\ clients' \in [ClientId -> ClientType]
      /\ \A d \in ClientId : clients'[d].state = clients[d].state
  BY <1>1, <1>2, <1>3 DEF TypeOK
<1> QED
  BY <1>3, <1>4, <1>5, <1>6, <1>7, CheckBase

\* A client that is lost.
LEMMA LostBase ==
    ASSUME Base, NEW c \in ClientId, ClientLost(c)
    PROVE  Base'
<1> DEFINE x  == Dead
           cl == [clients EXCEPT ![c] = x]
           U  == Recalculate(sessions, cl)
<1>1. TypeOK /\ Orders(activity, sessions)
  BY DEF Base, TypeOK, Orders
<1>2. x \in ClientType /\ x.state = "dead"
  BY DEF ClientType, Pointer, Dead, NewClient
<1>3. clients' = cl /\ CheckUnattached(U) /\ activity' = Forget(activity)
  BY DEF ClientLost
<1>4. U \in SUBSET SessionId
  BY <1>1, RecalculateProps DEF TypeOK
<1>5. UNCHANGED <<opts, held>> /\ socket' \in BOOLEAN
  BY DEF ClientLost, Attached
<1> HIDE DEF x, U
<1>6. /\ clients' \in [ClientId -> ClientType]
      /\ \A d \in ClientId : clients'[d].state \in {clients[d].state, "dead"}
  BY <1>1, <1>2, <1>3 DEF TypeOK
<1> QED
  BY <1>1, <1>3, <1>4, <1>5, <1>6, CheckBase

\* The actions that change one client and end nothing.
OneClient(c) ==
    \/ Connect(c) \/ Exiting(c) \/ CheckExit(c) \/ Wakeup(c) \/ Key(c)
    \/ \E lock \in BOOLEAN : Suspend(c, lock)
    \/ \E s \in SessionId : AttachSession(c, s)

\* What they have in common.
LEMMA OneClientProps ==
    ASSUME Base, NEW c \in ClientId, OneClient(c)
    PROVE  /\ UNCHANGED <<sessions, dead, lost, name, opts, held>> /\ socket' \in BOOLEAN
           /\ clients' \in [ClientId -> ClientType]
           /\ \A d \in ClientId \ {c} : clients'[d] = clients[d]
           /\ clients'[c].state = clients[c].state \/ clients[c].state = "free"
           /\ unattached' \in SUBSET SessionId
           /\ Orders(activity', sessions)
<1>1. TypeOK /\ Orders(activity, sessions)
  BY DEF Base, TypeOK, Orders
<1>2. clients[c] \in ClientType /\ clients \in [ClientId -> ClientType]
  BY <1>1 DEF TypeOK
<1>3. ASSUME NEW s \in sessions PROVE Orders(Touch(activity, s), sessions)
  <2>1. s \in SessionId /\ sessions \cup {s} = sessions
    BY <1>1 DEF TypeOK
  <2>2. Orders(Touch(activity, s), sessions \cup {s})
    BY <1>1, <2>1, TouchProps
  <2> QED
    BY <2>1, <2>2
<1>4. \A ss, cl : Recalculate(ss, cl) \in SUBSET SessionId
  BY <1>1, RecalculateProps DEF TypeOK
<1>5. CASE Connect(c)
  <2>1. NewClient \in ClientType
    BY DEF NewClient, ClientType, Pointer
  <2> QED
    BY <1>1, <1>2, <1>5, <2>1 DEF Connect, TypeOK
<1>6. CASE Exiting(c)
  <2>1. clients' = [clients EXCEPT ![c] = [@ EXCEPT !.session = NoSession]]
    BY <1>6 DEF Exiting
  <2>2. /\ [clients[c] EXCEPT !.session = NoSession] \in ClientType
        /\ [clients[c] EXCEPT !.session = NoSession].state = clients[c].state
    BY <1>2 DEF ClientType, Pointer
  <2> QED
    BY <1>1, <1>2, <1>6, <2>1, <2>2 DEF Exiting, TypeOK
<1>7. CASE CheckExit(c)
  <2>1. clients' = [clients EXCEPT ![c] = [@ EXCEPT !.exit = FALSE]]
    BY <1>7 DEF CheckExit
  <2>2. /\ [clients[c] EXCEPT !.exit = FALSE] \in ClientType
        /\ [clients[c] EXCEPT !.exit = FALSE].state = clients[c].state
    BY <1>2 DEF ClientType
  <2> QED
    BY <1>1, <1>2, <1>7, <2>1, <2>2 DEF CheckExit, TypeOK
<1>8. CASE Wakeup(c)
  <2>1. clients' = [clients EXCEPT ![c] = [@ EXCEPT !.susp = FALSE]]
    BY <1>8 DEF Wakeup
  <2>2. /\ [clients[c] EXCEPT !.susp = FALSE] \in ClientType
        /\ [clients[c] EXCEPT !.susp = FALSE].state = clients[c].state
    BY <1>2 DEF ClientType
  <2>3. Orders(activity', sessions)
    BY <1>1, <1>3, <1>8 DEF Wakeup
  <2>4. unattached' \in SUBSET SessionId
    BY <1>4, <1>8 DEF Wakeup
  <2> QED
    BY <1>1, <1>2, <1>8, <2>1, <2>2, <2>3, <2>4 DEF Wakeup, TypeOK
<1>9. CASE Key(c)
  BY <1>1, <1>2, <1>3, <1>9 DEF Key, TypeOK
<1>10. CASE \E lock \in BOOLEAN : Suspend(c, lock)
  <2>1. PICK lock \in BOOLEAN : Suspend(c, lock)
    BY <1>10
  <2>2. clients' = [clients EXCEPT ![c] = [@ EXCEPT !.susp = TRUE]]
    BY <2>1 DEF Suspend
  <2>3. /\ [clients[c] EXCEPT !.susp = TRUE] \in ClientType
        /\ [clients[c] EXCEPT !.susp = TRUE].state = clients[c].state
    BY <1>2 DEF ClientType
  <2>4. unattached' \in SUBSET SessionId
    BY <1>1, <1>4, <2>1 DEF Suspend, TypeOK
  <2> QED
    BY <1>1, <1>2, <2>1, <2>2, <2>3, <2>4 DEF Suspend, TypeOK
<1>11. CASE \E s \in SessionId : AttachSession(c, s)
  <2>1. PICK s \in SessionId : AttachSession(c, s)
    BY <1>11
  <2>2. clients' = [clients EXCEPT ![c] = [@ EXCEPT !.session = s]]
    BY <2>1 DEF AttachSession
  <2>3. /\ [clients[c] EXCEPT !.session = s] \in ClientType
        /\ [clients[c] EXCEPT !.session = s].state = clients[c].state
    BY <1>2 DEF ClientType, Pointer
  <2>4. unattached' \in SUBSET SessionId /\ Orders(activity', sessions)
    BY <1>3, <1>4, <2>1 DEF AttachSession
  <2> QED
    BY <1>2, <2>1, <2>2, <2>3, <2>4 DEF AttachSession, Attached
<1> QED
  BY <1>5, <1>6, <1>7, <1>8, <1>9, <1>10, <1>11 DEF OneClient

\* They keep what holds of all.
LEMMA OneClientBase ==
    ASSUME Base, NEW c \in ClientId, OneClient(c)
    PROVE  Base'
<1>1. /\ UNCHANGED <<sessions, dead, lost, name, opts, held>> /\ socket' \in BOOLEAN
      /\ clients' \in [ClientId -> ClientType]
      /\ \A d \in ClientId \ {c} : clients'[d] = clients[d]
      /\ clients'[c].state = clients[c].state \/ clients[c].state = "free"
      /\ unattached' \in SUBSET SessionId
      /\ Orders(activity', sessions)
  BY OneClientProps
<1>2. TypeOK'
  BY <1>1 DEF Base, TypeOK, Keyed, Orders
<1>3. HeldNotFreed'
  BY <1>1, HeldKept
<1> QED
  BY <1>1, <1>2, <1>3 DEF Base, Orders

\* choose-window takes what is there, and server_clean_dead frees what no mode holds.
LEMMA HoldBase ==
    ASSUME Base,
           \/ \E c \in ClientId, s \in SessionId : ChooseWindow(c, s)
           \/ LeaveChoose
           \/ CleanDead
    PROVE  Base'
<1>1. CASE \E c \in ClientId, s \in SessionId : ChooseWindow(c, s)
  BY <1>1 DEF ChooseWindow, Base, TypeOK, Keyed, HeldNotFreed, MayCommand, Live
<1>2. CASE LeaveChoose
  BY <1>2 DEF LeaveChoose, Base, TypeOK, Keyed, HeldNotFreed
<1>3. CASE CleanDead
  <2>1. TypeOK /\ HeldNotFreed
    BY DEF Base
  <2>2. clients' \in [ClientId -> ClientType]
    <3>1. [NewClient EXCEPT !.state = "free"] \in ClientType
      BY DEF NewClient, ClientType, Pointer
    <3> QED
      BY <1>3, <2>1, <3>1 DEF CleanDead, TypeOK
  <2>3. opts' \in [SessionId -> [destroy : BOOLEAN, detach : BOOLEAN]]
    <3>1. Default \in [destroy : BOOLEAN, detach : BOOLEAN]
      BY DEF Default
    <3> QED
      BY <1>3, <2>1, <3>1 DEF CleanDead, Forgotten, TypeOK
  <2>4. /\ dead' = {s \in dead : \E c \in ClientId : <<s, c>> \in held}
        /\ UNCHANGED <<sessions, lost, unattached, activity, held, socket>>
    BY <1>3 DEF CleanDead
  <2>5. TypeOK'
    <3>1. name' = [s \in SessionId |-> IF s \in There(dead') THEN name[s] ELSE NoName]
      BY <1>3 DEF CleanDead, Forgotten
    <3>2. /\ name' \in [SessionId -> Name \cup {NoName}]
          /\ \A s \in sessions \cup dead' : s \in SessionId /\ name'[s] = name[s]
      <4> DEFINE T == There(dead')
      <4>1. sessions \cup dead' \subseteq SessionId /\ sessions \cup dead' \subseteq T
        BY <2>1, <2>4 DEF TypeOK, There
      <4>2. name \in [SessionId -> Name \cup {NoName}]
        BY <2>1 DEF TypeOK
      <4> HIDE DEF T
      <4>3. name' = [s \in SessionId |-> IF s \in T THEN name[s] ELSE NoName]
        BY <3>1 DEF T
      <4> QED
        BY <4>1, <4>2, <4>3
    <3>3. Keyed(sessions)' /\ Keyed(dead)'
      <4>1. sessions' = sessions /\ dead' \subseteq dead
        BY <2>4
      <4>2. /\ \A s, t \in sessions : name[s] = name[t] => s = t
            /\ \A s, t \in dead : name[s] = name[t] => s = t
        BY <2>1 DEF TypeOK, Keyed
      <4>3. /\ \A s, t \in sessions : name'[s] = name'[t] => s = t
            /\ \A s, t \in dead' : name'[s] = name'[t] => s = t
        BY <3>2, <4>1, <4>2
      <4> QED
        BY <4>1, <4>3 DEF Keyed
    <3> QED
      BY <2>1, <2>2, <2>3, <2>4, <3>2, <3>3 DEF TypeOK
  <2>6. ASSUME NEW x \in held
        PROVE  x[1] \in sessions' \cup dead' \cup lost' /\ clients'[x[2]].state # "free"
    <3>1. PICK s \in SessionId, c \in ClientId : x = <<s, c>>
      BY <2>1 DEF TypeOK
    <3>2. s \in sessions \cup dead \cup lost /\ clients[c].state # "free"
      BY <2>1, <3>1 DEF HeldNotFreed
    <3>3. clients'[c] = clients[c]
      BY <1>3, <3>1 DEF CleanDead
    <3> QED
      BY <2>4, <3>1, <3>2, <3>3
  <2>7. HeldNotFreed'
    BY <2>4, <2>6 DEF HeldNotFreed
  <2> QED
    BY <2>4, <2>5, <2>7 DEF Base
<1> QED
  BY <1>1, <1>2, <1>3

\* rename-session.
LEMMA RenameBase ==
    ASSUME Base, NEW s \in SessionId, NEW n \in Name, RenameSession(s, n)
    PROVE  Base'
<1>1. TypeOK
  BY DEF Base
<1>2. /\ s \in sessions /\ \A t \in sessions : name[t] # n
      /\ name' = [name EXCEPT ![s] = n]
      /\ UNCHANGED <<sessions, dead, lost, opts, unattached, activity, clients, held, socket>>
  BY DEF RenameSession, Taken
<1>3. /\ name' \in [SessionId -> Name \cup {NoName}]
      /\ name'[s] = n /\ \A t \in (sessions \cup dead) \ {s} : name'[t] = name[t]
  BY <1>1, <1>2 DEF TypeOK
<1>4. Keyed(sessions)' /\ Keyed(dead)'
  BY <1>1, <1>2, <1>3 DEF TypeOK, Keyed
<1>5. TypeOK'
  BY <1>1, <1>2, <1>3, <1>4 DEF TypeOK
<1> QED
  BY <1>2, <1>5 DEF Base, HeldNotFreed

\* new-session that fails: the session goes where Destroy would put it.
LEMMA FailsBase ==
    ASSUME Base, NEW c \in ClientId, NEW s \in SessionId, NEW n \in Name,
           NewSessionFails(c, s, n)
    PROVE  Base'
<1> DEFINE entered == \A d \in dead : name[d] # n
<1>1. TypeOK
  BY DEF Base
<1>2. /\ s \notin sessions \cup dead \cup lost
      /\ dead' = (IF entered THEN dead \cup {s} ELSE dead)
      /\ lost' = (IF entered THEN lost ELSE lost \cup {s})
      /\ name' = [name EXCEPT ![s] = n]
      /\ UNCHANGED <<sessions, opts, unattached, activity, clients, held, socket>>
  BY DEF NewSessionFails
<1>3. /\ name' \in [SessionId -> Name \cup {NoName}]
      /\ name'[s] = n /\ \A t \in sessions \cup dead : name'[t] = name[t]
  BY <1>1, <1>2 DEF TypeOK
<1>4. Keyed(sessions)' /\ Keyed(dead)'
  BY <1>1, <1>2, <1>3 DEF TypeOK, Keyed
<1>5. /\ dead' \subseteq SessionId \ sessions /\ lost' \subseteq SessionId \ (sessions \cup dead')
      /\ sessions \cup dead \cup lost \subseteq sessions \cup dead' \cup lost'
  BY <1>1, <1>2 DEF TypeOK
<1>6. TypeOK'
  BY <1>1, <1>2, <1>3, <1>4, <1>5 DEF TypeOK
<1>7. HeldNotFreed'
  BY <1>2, <1>5, HeldKept
<1> QED
  BY <1>2, <1>6, <1>7 DEF Base

\* Every step keeps what holds whatever users do.
LEMMA BaseStep == Base /\ [Next]_vars => Base'
<1> SUFFICES ASSUME Base, [Next]_vars PROVE Base'
  OBVIOUS
<1>1. ASSUME NEW c \in ClientId, OneClient(c) PROVE Base'
  BY <1>1, OneClientBase
<1>2. ASSUME NEW c \in ClientId, SwitchLast(c) PROVE Base'
  BY <1>2, SwitchBase DEF SwitchLast
<1>3. ASSUME NEW c \in ClientId, ClientLost(c) PROVE Base'
  BY <1>3, LostBase
<1>4. ASSUME NEW c \in ClientId, NEW s \in SessionId, NEW n \in Name, NEW o \in OptionType,
             NEW detached \in BOOLEAN, NewSession(c, s, n, o, detached) PROVE Base'
  BY <1>4, NewSessionBase
<1>5. ASSUME NEW c \in ClientId, NEW s \in SessionId, SwitchClient(c, s) PROVE Base'
  BY <1>5, SwitchBase DEF SwitchClient
<1>6. ASSUME NEW s \in SessionId, KillSession(s) \/ CloseLastWindow(s) PROVE Base'
  BY <1>6, EndBase
<1>7. CASE \/ \E c \in ClientId, s \in SessionId : ChooseWindow(c, s)
           \/ LeaveChoose
           \/ CleanDead
  BY <1>7, HoldBase
<1>8. ASSUME NEW s \in SessionId, NEW n \in Name,
             RenameSession(s, n) \/ \E c \in ClientId : NewSessionFails(c, s, n) PROVE Base'
  BY <1>8, RenameBase, FailsBase
<1>9. CASE UNCHANGED vars
  BY <1>9 DEF vars, Base, TypeOK, Keyed, HeldNotFreed
<1> QED
  BY <1>1, <1>2, <1>3, <1>4, <1>5, <1>6, <1>7, <1>8, <1>9 DEF Next, OneClient

\* A server that starts has no sessions.
LEMMA BaseInit == Init => Base
<1> SUFFICES ASSUME Init PROVE Base
  OBVIOUS
<1>1. activity \in Seq(SessionId) /\ DOMAIN activity = {}
  BY EmptySeq, LenProperties DEF Init
<1>2. ToSet(activity) = {} /\ IsInjective(activity)
  BY <1>1 DEF ToSet, IsInjective
<1>3. /\ [NewClient EXCEPT !.state = "free"] \in ClientType
      /\ Default \in [destroy : BOOLEAN, detach : BOOLEAN]
  BY DEF NewClient, ClientType, Pointer, Default
<1> QED
  BY <1>1, <1>2, <1>3 DEF Init, Base, TypeOK, Keyed, HeldNotFreed

\* The types hold, and the order of the sessions is one of the live sessions,
\* whatever is suspended and destroyed.
THEOREM BaseInvariance == Spec => []Base
BY BaseInit, BaseStep, PTL DEF Spec

\* The variables keep their types; in particular no dead session is live, and every
\* live session is once in the order by activity.
THEOREM TypeCorrect == Spec => []TypeOK
BY BaseInvariance, PTL DEF Base

\* What a choose-window mode points to is not freed, whatever ends in the meantime.
THEOREM HeldIsThere == Spec => []HeldNotFreed
BY BaseInvariance, PTL DEF Base

(***************************************************************************)
(* Without suspended clients while a session has destroy-unattached.       *)
(***************************************************************************)
\* A client is told of the end of its session, or moved, or it is gone.
TakenCare(s) ==
    \A c \in On(clients, s) :
        \/ clients'[c].state = "dead"
        \/ clients'[c].session \in sessions' \ {s}
        \/ clients'[c].exit

Step == IInv' /\ \A s \in sessions \ sessions' : TakenCare(s)

\* What recalculate_sizes marks has no client that can be drawn, and a session with
\* destroy-unattached then has none at all.
LEMMA MarkedEmpty ==
    ASSUME DestroysAlone', \E ss : sessions' \subseteq ss /\ unattached' = Recalculate(ss, clients')
    PROVE  UnattachedHasNoClient'
<1> PICK ss : sessions' \subseteq ss /\ unattached' = Recalculate(ss, clients')
  OBVIOUS
<1>1. ASSUME NEW s \in sessions', s \in unattached', NEW c \in ClientId,
             clients'[c].state = "live", clients'[c].session = s
      PROVE  clients'[c].susp /\ ~opts'[s].destroy
  <2>1. c \in On(clients', s)
    BY <1>1 DEF On
  <2>2. clients'[c].susp
    BY <1>1, <2>1 DEF Recalculate
  <2> QED
    BY <1>1, <2>2 DEF DestroysAlone
<1> QED
  BY <1>1 DEF UnattachedHasNoClient, On

\* kill-session and the last window.
LEMMA EndAlone ==
    ASSUME ~Together, IInv, NEW s \in SessionId, KillSession(s) \/ CloseLastWindow(s)
    PROVE  Step
<1>1. /\ s \in sessions /\ Destroy({s}) /\ UNCHANGED <<opts, held, socket>>
      /\ \E detach \in BOOLEAN, ss \in {sessions, sessions \ {s}} :
            DestroySession(s, detach, ss)
  BY OptionAssumption DEF KillSession, CloseLastWindow, IInv, Base, TypeOK
<1>2. PICK detach \in BOOLEAN, ss \in {sessions, sessions \ {s}} :
         DestroySession(s, detach, ss)
  BY <1>1
<1>3. /\ \A c \in ClientId : /\ clients'[c].state = clients[c].state
                             /\ clients'[c].susp  = clients[c].susp
                             /\ c \notin On(clients, s) => clients'[c] = clients[c]
      /\ \A c \in On(clients, s) :
            \/ clients'[c].session \in sessions \ {s}
            \/ clients'[c].session = NoSession /\ clients'[c].exit
      /\ unattached' = Recalculate(ss, clients')
  BY <1>1, <1>2, DestroySessionProps DEF IInv
<1>4. sessions' = sessions \ {s}
  BY <1>1 DEF Destroy
<1>5. Base'
  BY EndBase DEF IInv
<1>6. DestroysAlone'
  BY <1>1, <1>3, <1>4 DEF IInv, DestroysAlone
<1>7. ClientSessionAlive'
  <2> SUFFICES ASSUME NEW c \in ClientId, clients'[c].state = "live"
               PROVE  clients'[c].session \in sessions' \cup {NoSession}
    BY DEF ClientSessionAlive, Live
  <2>1. CASE c \in On(clients, s)
    BY <1>3, <1>4, <2>1
  <2>2. CASE c \notin On(clients, s)
    BY <1>3, <1>4, <2>2 DEF IInv, ClientSessionAlive, Live, On
  <2> QED
    BY <2>1, <2>2
<1>8. UnattachedHasNoClient'
  BY <1>2, <1>3, <1>4, <1>6, MarkedEmpty
<1>9. TakenCare(s)
  BY <1>3, <1>4 DEF TakenCare
<1> QED
  BY <1>4, <1>5, <1>6, <1>7, <1>8, <1>9 DEF Step, IInv

\* server_check_unattached, after the client c went to a session of its own choice
\* or was lost: what it collects is nobody's.
LEMMA CheckAlone ==
    ASSUME ~Together, IInv, Base', NEW c \in ClientId,
           CheckUnattached(Recalculate(sessions, clients')), opts' = opts,
           \A d \in ClientId \ {c} : clients'[d] = clients[d],
           clients'[c].susp => clients[c].susp,
           \/ clients'[c].state = "dead"
           \/ clients'[c].state = "live" /\ clients'[c].session \in sessions
    PROVE  Step
<1> DEFINE U == Recalculate(sessions, clients')
<1>1. U \in SUBSET SessionId
  BY RecalculateProps DEF IInv, Base, TypeOK
<1>2. /\ unattached' = U
      /\ \E V \in SUBSET (sessions \cap U) : /\ \A v \in V : opts[v].destroy
                                             /\ sessions' = sessions \ V
  <2> HIDE DEF U
  <2>1. CheckUnattached(U)
    BY DEF U
  <2> QED
    BY <2>1, CheckProps DEF Destroy
<1>3. DestroysAlone'
  BY <1>2 DEF IInv, DestroysAlone
<1>4. UnattachedHasNoClient'
  BY <1>2, <1>3, MarkedEmpty
<1>5. ASSUME NEW v \in sessions \cap U, opts[v].destroy, NEW d \in ClientId,
             clients'[d].state = "live"
      PROVE  clients'[d].session # v
  <2>1. ~clients'[d].susp
    BY <1>5 DEF IInv, DestroysAlone
  <2>2. d \in On(clients', v) => clients'[d].susp
    BY <1>5 DEF Recalculate
  <2> QED
    BY <1>5, <2>1, <2>2 DEF On
<1> HIDE DEF U
<1>6. ClientSessionAlive'
  <2> SUFFICES ASSUME NEW d \in ClientId, clients'[d].state = "live"
               PROVE  clients'[d].session \in sessions' \cup {NoSession}
    BY DEF ClientSessionAlive, Live
  <2>1. clients'[d].session \in sessions \cup {NoSession}
    BY DEF IInv, ClientSessionAlive, Live
  <2> QED
    BY <1>2, <1>5, <2>1
<1>7. ASSUME NEW s \in sessions \ sessions' PROVE TakenCare(s)
  <2>1. s \in U /\ opts[s].destroy
    BY <1>2, <1>7
  <2> SUFFICES ASSUME NEW d \in ClientId, clients[d].state = "live", clients[d].session = s
               PROVE  \/ clients'[d].state = "dead"
                      \/ clients'[d].session \in sessions' \ {s}
    BY DEF TakenCare, On
  <2>2. CASE d = c
    BY <1>2, <1>5, <2>1, <2>2
  <2>3. CASE d # c
    BY <1>5, <2>1, <2>3
  <2> QED
    BY <2>2, <2>3
<1> QED
  BY <1>3, <1>4, <1>6, <1>7 DEF Step, IInv

\* new-session; with destroy-unattached only while nobody is suspended.
LEMMA NewSessionAlone ==
    ASSUME ~Together, IInv, NEW c \in ClientId, NEW s \in SessionId, NEW n \in Name, NEW o \in OptionType,
           NEW detached \in BOOLEAN, NewSession(c, s, n, o, detached)
    PROVE  Step
<1> DEFINE x == [Remember(clients[c]) EXCEPT !.session = s]
<1>1. TypeOK
  BY DEF IInv, Base
<1>2. x \in ClientType /\ x.session = s /\ x.susp = clients[c].susp /\ x.state = clients[c].state
  BY <1>1, RememberProps DEF TypeOK, Pointer
<1>3. /\ clients' = IF detached THEN clients ELSE [clients EXCEPT ![c] = x]
      /\ sessions' = sessions \cup {s} /\ opts' = [opts EXCEPT ![s] = o]
      /\ o.destroy => \A d \in ClientId : ~clients[d].susp
      /\ s \notin sessions
      /\ unattached' = Recalculate(sessions', clients')
  BY DEF NewSession
<1> HIDE DEF x
<1>4. \A d \in ClientId : /\ clients'[d].susp = clients[d].susp
                          /\ clients'[d].state = clients[d].state
                          /\ clients'[d].session \in {clients[d].session, s}
  BY <1>1, <1>2, <1>3 DEF TypeOK
<1>5. Base'
  BY NewSessionBase DEF IInv
<1>6. opts'[s] = o /\ \A r \in sessions : opts'[r] = opts[r]
  BY <1>1, <1>3 DEF TypeOK
<1>7. DestroysAlone'
  BY <1>3, <1>4, <1>6 DEF IInv, DestroysAlone
<1>8. ClientSessionAlive'
  BY <1>3, <1>4 DEF IInv, ClientSessionAlive, Live
<1>9. UnattachedHasNoClient'
  BY <1>3, <1>7, MarkedEmpty
<1> QED
  BY <1>3, <1>5, <1>7, <1>8, <1>9 DEF Step, IInv

\* switch-client.
LEMMA SwitchAlone ==
    ASSUME ~Together, IInv, NEW c \in ClientId, NEW s \in sessions, SwitchTo(c, s)
    PROVE  Step
<1> DEFINE x == [Remember(clients[c]) EXCEPT !.session = s]
<1>1. TypeOK
  BY DEF IInv, Base
<1>2. x.session = s /\ x.susp = clients[c].susp /\ x.state = clients[c].state
  BY <1>1, RememberProps DEF TypeOK, Pointer
<1>3. clients' = [clients EXCEPT ![c] = x] /\ clients[c].state = "live" /\ opts' = opts
  BY DEF SwitchTo, Live
<1>4. CheckUnattached(Recalculate(sessions, clients'))
  BY DEF SwitchTo
<1> HIDE DEF x
<1>5. clients'[c] = x /\ \A d \in ClientId \ {c} : clients'[d] = clients[d]
  BY <1>1, <1>3 DEF TypeOK
<1>6. Base'
  BY SwitchBase DEF IInv
<1> QED
  BY <1>2, <1>3, <1>4, <1>5, <1>6, CheckAlone

\* A lost client.
LEMMA LostAlone ==
    ASSUME ~Together, IInv, NEW c \in ClientId, ClientLost(c)
    PROVE  Step
<1> DEFINE x == Dead
<1>1. TypeOK
  BY DEF IInv, Base
<1>2. ~x.susp /\ x.state = "dead"
  BY DEF Dead, NewClient
<1>3. clients' = [clients EXCEPT ![c] = x] /\ opts' = opts
  BY DEF ClientLost
<1>4. CheckUnattached(Recalculate(sessions, clients'))
  BY DEF ClientLost
<1> HIDE DEF x
<1>5. clients'[c] = x /\ \A d \in ClientId \ {c} : clients'[d] = clients[d]
  BY <1>1, <1>3 DEF TypeOK
<1>6. Base'
  BY LostBase DEF IInv
<1> QED
  BY <1>2, <1>3, <1>4, <1>5, <1>6, CheckAlone

\* A client that is suspended, woken up or moved without anything being collected.
LEMMA OneClientAlone ==
    ASSUME ~Together, IInv, NEW c \in ClientId, OneClient(c)
    PROVE  Step
<1>1. /\ UNCHANGED <<sessions, dead, lost, name, opts, held>>
      /\ clients' \in [ClientId -> ClientType]
      /\ \A d \in ClientId \ {c} : clients'[d] = clients[d]
  BY OneClientProps DEF IInv
<1>2. Base'
  BY OneClientBase DEF IInv
<1>3. clients \in [ClientId -> ClientType] /\ clients[c] \in ClientType
  BY DEF IInv, Base, TypeOK
<1>4. SUFFICES DestroysAlone' /\ ClientSessionAlive' /\ UnattachedHasNoClient'
  BY <1>1, <1>2 DEF Step, IInv
<1>5. ASSUME /\ clients'[c].susp => clients[c].susp \/ \A s \in sessions : ~opts[s].destroy
             /\ clients'[c].session \in {clients[c].session, NoSession} \cup sessions
             /\ clients[c].state = "live" \/ clients'[c].session = NoSession
             /\ \/ unattached' = Recalculate(sessions, clients')
                \/ /\ unattached' = unattached
                   /\ \/ clients'[c].session = NoSession
                      \/ /\ clients'[c].session = clients[c].session
                         /\ clients'[c].state = clients[c].state
                         /\ clients[c].susp => clients'[c].susp
      PROVE  DestroysAlone' /\ ClientSessionAlive' /\ UnattachedHasNoClient'
  <2>1. DestroysAlone'
    BY <1>1, <1>5 DEF IInv, DestroysAlone
  <2>2. ClientSessionAlive'
    BY <1>1, <1>5 DEF IInv, ClientSessionAlive, Live
  <2>3. CASE unattached' = Recalculate(sessions, clients')
    <3>1. UnattachedHasNoClient'
      BY <1>1, <2>1, <2>3, MarkedEmpty
    <3> QED
      BY <2>1, <2>2, <3>1
  <2>4. CASE unattached' # Recalculate(sessions, clients')
    <3>1. unattached' = unattached
      BY <1>5, <2>4
    <3>2. ASSUME NEW s \in sessions, s \in unattached, NEW d \in ClientId,
                 clients'[d].state = "live", clients'[d].session = s
          PROVE  clients'[d].susp /\ ~opts[s].destroy
      <4>1. s # NoSession
        BY SessionAssumption DEF IInv, Base, TypeOK
      <4>2. /\ clients[d].state = "live" /\ clients[d].session = s
            /\ clients[d].susp => clients'[d].susp
        BY <1>1, <1>5, <2>4, <3>2, <4>1
      <4>3. clients[d].susp /\ ~opts[s].destroy
        BY <3>2, <4>2 DEF IInv, UnattachedHasNoClient, On
      <4> QED
        BY <4>2, <4>3
    <3>3. UnattachedHasNoClient'
      BY <1>1, <3>1, <3>2 DEF UnattachedHasNoClient, On
    <3> QED
      BY <2>1, <2>2, <3>3
  <2> QED
    BY <2>3, <2>4
<1>6. CASE Connect(c)
  <2>1. clients'[c] = NewClient /\ unattached' = unattached
    BY <1>3, <1>6 DEF Connect
  <2>2. NewClient.session = NoSession /\ ~NewClient.susp
    BY DEF NewClient
  <2> QED
    BY <1>5, <2>1, <2>2
<1>7. CASE Exiting(c)
  <2>1. unattached' = unattached /\ clients'[c] = [clients[c] EXCEPT !.session = NoSession]
    BY <1>3, <1>7 DEF Exiting
  <2>2. clients'[c].session = NoSession /\ clients'[c].susp = clients[c].susp
    BY <1>3, <2>1 DEF ClientType
  <2> QED
    BY <1>5, <2>1, <2>2
<1>8. CASE CheckExit(c)
  <2>1. /\ unattached' = unattached /\ clients[c].state = "live"
        /\ clients'[c] = [clients[c] EXCEPT !.exit = FALSE]
    BY <1>3, <1>8 DEF CheckExit, Live
  <2>2. /\ clients'[c].session = clients[c].session /\ clients'[c].susp = clients[c].susp
        /\ clients'[c].state = clients[c].state
    BY <1>3, <2>1 DEF ClientType
  <2> QED
    BY <1>5, <2>1, <2>2
<1>9. CASE Wakeup(c)
  <2>1. /\ unattached' = Recalculate(sessions, clients') /\ clients[c].state = "live"
        /\ clients'[c] = [clients[c] EXCEPT !.susp = FALSE]
    BY <1>3, <1>9 DEF Wakeup, Live
  <2>2. clients'[c].session = clients[c].session /\ ~clients'[c].susp
    BY <1>3, <2>1 DEF ClientType
  <2> QED
    BY <1>5, <2>1, <2>2
<1>10. CASE Key(c)
  <2>1. unattached' = unattached /\ clients[c].state = "live" /\ clients' = clients
    BY <1>10 DEF Key, MayCommand, Live
  <2> QED
    BY <1>5, <2>1
<1>11. CASE \E lock \in BOOLEAN : Suspend(c, lock)
  <2>1. /\ clients[c].state = "live" /\ \A s \in sessions : ~opts[s].destroy
        /\ unattached' \in {unattached, Recalculate(sessions, clients')}
        /\ clients'[c] = [clients[c] EXCEPT !.susp = TRUE]
    BY <1>3, <1>11 DEF Suspend, MayCommand, Live
  <2>2. /\ clients'[c].session = clients[c].session /\ clients'[c].susp
        /\ clients'[c].state = clients[c].state
    BY <1>3, <2>1 DEF ClientType
  <2> QED
    BY <1>5, <2>1, <2>2
<1>12. CASE \E s \in SessionId : AttachSession(c, s)
  <2>1. PICK s \in SessionId : AttachSession(c, s)
    BY <1>12
  <2>2. /\ clients[c].state = "live" /\ s \in sessions
        /\ unattached' = Recalculate(sessions, clients')
        /\ clients'[c] = [clients[c] EXCEPT !.session = s]
    BY <1>3, <2>1 DEF AttachSession, MayCommand, Live
  <2>3. clients'[c].session = s /\ clients'[c].susp = clients[c].susp
    BY <1>3, <2>2 DEF ClientType
  <2> QED
    BY <1>5, <2>2, <2>3
<1> QED
  BY <1>6, <1>7, <1>8, <1>9, <1>10, <1>11, <1>12 DEF OneClient

\* The modes, and server_clean_dead: a freed client has no session.
LEMMA HoldAlone ==
    ASSUME ~Together, IInv,
           \/ \E c \in ClientId, s \in SessionId : ChooseWindow(c, s)
           \/ LeaveChoose
           \/ CleanDead
    PROVE  Step
<1>1. Base'
  BY HoldBase DEF IInv
<1>2. CASE \/ \E c \in ClientId, s \in SessionId : ChooseWindow(c, s)
           \/ LeaveChoose
  <2>1. UNCHANGED <<sessions, opts, unattached, clients>>
    BY <1>2 DEF ChooseWindow, LeaveChoose
  <2> QED
    BY <1>1, <2>1 DEF Step, IInv, DestroysAlone, ClientSessionAlive, Live,
                      UnattachedHasNoClient, On
<1>3. CASE CleanDead
  <2>1. sessions' = sessions /\ unattached' = unattached
    BY <1>3 DEF CleanDead
  <2>2. \A s \in sessions : opts'[s] = opts[s]
    BY <1>3 DEF CleanDead, Forgotten, There, IInv, Base, TypeOK
  <2>3. /\ [NewClient EXCEPT !.state = "free"].state = "free"
        /\ ~[NewClient EXCEPT !.state = "free"].susp
    BY DEF NewClient
  <2>4. \A c \in ClientId : \/ clients'[c] = clients[c]
                            \/ clients'[c].state = "free" /\ ~clients'[c].susp
    BY <1>3, <2>3 DEF CleanDead
  <2>5. DestroysAlone'
    BY <2>1, <2>2, <2>4 DEF IInv, DestroysAlone
  <2>6. ClientSessionAlive'
    BY <2>1, <2>4 DEF IInv, ClientSessionAlive, Live
  <2>7. UnattachedHasNoClient'
    BY <2>1, <2>2, <2>4 DEF IInv, UnattachedHasNoClient, On
  <2> QED
    BY <1>1, <2>1, <2>5, <2>6, <2>7 DEF Step, IInv
<1> QED
  BY <1>2, <1>3

\* Every step keeps the invariant and takes care of the clients of what it ends.
LEMMA AloneStep == ~Together /\ IInv /\ [Next]_vars => Step
<1> SUFFICES ASSUME ~Together, IInv, [Next]_vars PROVE Step
  OBVIOUS
<1>1. ASSUME NEW c \in ClientId, OneClient(c) PROVE Step
  BY <1>1, OneClientAlone
<1>2. ASSUME NEW c \in ClientId, SwitchLast(c) PROVE Step
  BY <1>2, SwitchAlone DEF SwitchLast
<1>3. ASSUME NEW c \in ClientId, ClientLost(c) PROVE Step
  BY <1>3, LostAlone
<1>4. ASSUME NEW c \in ClientId, NEW s \in SessionId, NEW n \in Name, NEW o \in OptionType,
             NEW detached \in BOOLEAN, NewSession(c, s, n, o, detached) PROVE Step
  BY <1>4, NewSessionAlone
<1>5. ASSUME NEW c \in ClientId, NEW s \in SessionId, SwitchClient(c, s) PROVE Step
  BY <1>5, SwitchAlone DEF SwitchClient
<1>6. ASSUME NEW s \in SessionId, KillSession(s) \/ CloseLastWindow(s) PROVE Step
  BY <1>6, EndAlone
<1>7. CASE \/ \E c \in ClientId, s \in SessionId : ChooseWindow(c, s)
           \/ LeaveChoose
           \/ CleanDead
  BY <1>7, HoldAlone
<1>8. ASSUME NEW s \in SessionId, NEW n \in Name,
             RenameSession(s, n) \/ \E c \in ClientId : NewSessionFails(c, s, n) PROVE Step
  <2>1. Base'
    BY <1>8, RenameBase, FailsBase DEF IInv
  <2>2. UNCHANGED <<sessions, opts, unattached, clients>>
    BY <1>8 DEF RenameSession, NewSessionFails
  <2> QED
    BY <2>1, <2>2 DEF Step, IInv, DestroysAlone, ClientSessionAlive, Live,
                      UnattachedHasNoClient, On
<1>9. CASE UNCHANGED vars
  <2>1. Base'
    BY <1>9, BaseStep DEF IInv
  <2> QED
    BY <1>9, <2>1 DEF Step, vars, IInv, DestroysAlone, ClientSessionAlive, Live,
                      UnattachedHasNoClient, On
<1> QED
  BY <1>1, <1>2, <1>3, <1>4, <1>5, <1>6, <1>7, <1>8, <1>9 DEF Next, OneClient

\* The inductive invariant: no session has gone from under a client.
THEOREM Invariance ==
    ASSUME ~Together
    PROVE  Spec => []IInv
<1>1. Init => IInv
  <2> SUFFICES ASSUME Init PROVE IInv
    OBVIOUS
  <2>1. \A c \in ClientId : clients[c].state = "free"
    BY DEF Init, NewClient
  <2>2. sessions = {}
    BY DEF Init
  <2> QED
    BY <2>1, <2>2, BaseInit DEF IInv, DestroysAlone, ClientSessionAlive,
                                UnattachedHasNoClient, Live
<1>2. IInv /\ [Next]_vars => IInv'
  BY AloneStep DEF Step
<1> QED
  BY <1>1, <1>2, PTL DEF Spec

\* No session or client is used after it was freed, whatever ends sessions, if none is
\* suspended while a session has destroy-unattached.
THEOREM PointersAreAlive ==
    ASSUME ~Together
    PROVE  Spec => []PointersAlive
<1>1. IInv => PointersAlive
  BY DEF IInv, Base, PointersAlive
<1> QED
  BY <1>1, Invariance, PTL

\* What server_check_unattached collects is nobody's, under the same assumption.
THEOREM UnattachedIsFree ==
    ASSUME ~Together
    PROVE  Spec => []UnattachedHasNoClient
BY Invariance, PTL DEF IInv

\* Each client of a session that ends is moved to a live one or told to exit, by
\* kill-session, by the last window, and by what collects sessions.
THEOREM NobodyLeftBehind ==
    ASSUME ~Together
    PROVE  Spec => NoClientLeftBehind
<1>1. IInv /\ [Next]_vars
        => [\A s \in sessions \ sessions' : \A c \in On(clients, s) :
              \/ clients'[c].state = "dead"
              \/ clients'[c].session \in sessions' \ {s}
              \/ clients'[c].exit]_vars
  BY AloneStep DEF Step, TakenCare
<1> QED
  BY <1>1, Invariance, PTL DEF Spec, NoClientLeftBehind

=============================================================================
