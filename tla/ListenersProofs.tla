---------------------------- MODULE ListenersProofs ----------------------------
(***************************************************************************)
(* Proofs about Listeners, for any peers, any capacity and any timers: the *)
(* permits of a listener are accounted for in every reachable state.       *)
(***************************************************************************)
EXTENDS Listeners, FiniteSetTheorems, TLAPS

Conn == [at : {"away", "backlog", "hello", "handshake", "head", "handler"},
         on : Listeners \cup {None}, age : 0 .. Longest, left : 0 .. MaxRequests]

\* Whoever is in a backlog waits for that listener, and is in it once.
Queued ==
    \A l \in Listeners :
        /\ \A i \in 1 .. Len(queue[l]) : conns[queue[l][i]].at = "backlog" /\ conns[queue[l][i]].on = l
        /\ \A i, j \in 1 .. Len(queue[l]) : queue[l][i] = queue[l][j] => i = j

IInv ==
    /\ TypeOK /\ Queued /\ PermitsKept
    /\ \A c \in Clients : conns[c].at # "away" => conns[c].on \in Listeners
    /\ \A l \in Listeners : IsFiniteSet(Served(l))

LEMMA LongestIs == Longest \in Nat /\ HandshakeTimeout <= Longest /\ HeaderTimeout <= Longest
<1>1. \E t \in Timeouts : \A x \in Timeouts : x <= t
  <2>1. CASE HandshakeTimeout <= HeaderTimeout
    BY <2>1, TimesAssumption DEF Timeouts
  <2>2. CASE HeaderTimeout <= HandshakeTimeout
    BY <2>2, TimesAssumption DEF Timeouts
  <2> QED BY <2>1, <2>2, TimesAssumption
<1> QED BY <1>1, TimesAssumption DEF Longest, Timeouts

LEMMA AwayIs == Away \in Conn /\ Away.at = "away"
BY LongestIs, TimesAssumption DEF Away, Conn

LEMMA TypeConn == TypeOK => conns \in [Clients -> Conn]
BY DEF TypeOK, Conn

-------------------------------------------------------------------------------
\* What is served by each listener, when one connection changes to q.
LEMMA OneServed ==
    ASSUME conns \in [Clients -> Conn], NEW c \in Clients, NEW q \in Conn,
           conns' = [conns EXCEPT ![c] = q],
           NEW l \in Listeners, IsFiniteSet(Served(l))
    PROVE  /\ IsFiniteSet(Served(l)')
           /\ q.at \in {"hello", "handshake", "head", "handler"} /\ q.on = l
              => Cardinality(Served(l)') = Cardinality(Served(l)) + IF c \in Served(l) THEN 0 ELSE 1
           /\ ~(q.at \in {"hello", "handshake", "head", "handler"} /\ q.on = l)
              => Cardinality(Served(l)') = Cardinality(Served(l)) - IF c \in Served(l) THEN 1 ELSE 0
<1> DEFINE in == q.at \in {"hello", "handshake", "head", "handler"} /\ q.on = l
<1>1. \A x \in Clients : conns'[x] = IF x = c THEN q ELSE conns[x]
  OBVIOUS
<1>2. in => Served(l)' = Served(l) \cup {c}
  BY <1>1 DEF Served, Serving
<1>3. ~in => Served(l)' = Served(l) \ {c}
  BY <1>1 DEF Served, Serving
<1>4. Cardinality(Served(l)) \in Nat
  BY FS_CardinalityType
<1>5. CASE in
  <2>1. IsFiniteSet(Served(l) \cup {c})
        /\ Cardinality(Served(l) \cup {c}) = IF c \in Served(l) THEN Cardinality(Served(l)) ELSE Cardinality(Served(l)) + 1
    BY FS_AddElement
  <2> QED BY <1>2, <1>4, <1>5, <2>1
<1>6. CASE ~in
  <2>1. IsFiniteSet(Served(l) \ {c})
        /\ Cardinality(Served(l) \ {c}) = IF c \in Served(l) THEN Cardinality(Served(l)) - 1 ELSE Cardinality(Served(l))
    BY FS_RemoveElement
  <2> QED BY <1>3, <1>4, <1>6, <2>1
<1> QED BY <1>5, <1>6

Rest == <<ports, service, fired, stopping, draining, main, scm, removal>>

\* The parts of the invariant that a step leaves alone.
LEMMA Same ==
    ASSUME IInv, TypeOK', UNCHANGED <<conns, queue>>,
           \A l \in Listeners : sem'[l] + (IF loop'[l] = "accept" THEN 1 ELSE 0)
                                = sem[l] + (IF loop[l] = "accept" THEN 1 ELSE 0)
    PROVE  IInv'
<1>1. \A l \in Listeners : Served(l)' = Served(l)
  BY DEF Served, Serving
<1> QED BY <1>1 DEF IInv, Queued, PermitsKept

\* A connection that is served goes on being served.
LEMMA StayStep ==
    ASSUME IInv, NEW c \in Clients, Serving(c), NEW q \in Conn,
           q.at \in {"hello", "handshake", "head", "handler"}, q.on = conns[c].on,
           conns' = [conns EXCEPT ![c] = q], UNCHANGED <<loop, sem, queue>>, UNCHANGED Rest
    PROVE  IInv'
<1>1. conns \in [Clients -> Conn] /\ conns[c].at # "backlog"
  BY TypeConn DEF IInv, Serving
<1>2. \A x \in Clients : conns'[x] = IF x = c THEN q ELSE conns[x]
  BY <1>1
<1>3. TypeOK'
  BY <1>1 DEF IInv, TypeOK, Rest, Conn
<1>4. \A l \in Listeners : Served(l)' = Served(l)
  BY <1>2 DEF Served, Serving
<1>5. \A l \in Listeners : \A i \in 1 .. Len(queue[l]) : queue[l][i] \in Clients
  BY DEF IInv, TypeOK
<1>6. Queued'
  BY <1>1, <1>2, <1>5 DEF IInv, Queued
<1>7. \A x \in Clients : conns'[x].at # "away" => conns'[x].on \in Listeners
  BY <1>2 DEF IInv, Serving
<1> QED BY <1>3, <1>4, <1>6, <1>7 DEF IInv, PermitsKept

LEMMA CloseStep ==
    ASSUME IInv, NEW c \in Clients, Serving(c), Close(c)
    PROVE  IInv'
<1> DEFINE k == conns[c].on
<1>1. conns \in [Clients -> Conn] /\ conns[c].at # "backlog" /\ k \in Listeners
  BY TypeConn DEF IInv, Serving
<1>2. \A x \in Clients : conns'[x] = IF x = c THEN Away ELSE conns[x]
  BY <1>1 DEF Close
<1>3. \A l \in Listeners : sem'[l] = IF l = k THEN sem[l] + 1 ELSE sem[l]
  BY <1>1 DEF Close, IInv, TypeOK
<1>4. c \in Served(k) /\ \A l \in Listeners : c \in Served(l) => l = k
  BY DEF Served
<1>5. \A l \in Listeners : /\ IsFiniteSet(Served(l)')
                          /\ Cardinality(Served(l)') = Cardinality(Served(l)) - IF l = k THEN 1 ELSE 0
  <2> TAKE l \in Listeners
  <2>1. conns' = [conns EXCEPT ![c] = Away] /\ IsFiniteSet(Served(l))
    BY DEF Close, IInv
  <2> QED BY <1>1, <1>4, <2>1, OneServed, AwayIs
<1>6. \A l \in Listeners : Cardinality(Served(l)) \in Nat /\ Cardinality(Served(l)') \in Nat
  BY <1>5, FS_CardinalityType DEF IInv
<1>7. PermitsKept'
  <2> SUFFICES ASSUME NEW l \in Listeners
               PROVE  sem'[l] + (IF loop'[l] = "accept" THEN 1 ELSE 0) + Cardinality(Served(l)') = Capacity
    BY DEF PermitsKept
  <2>1. sem[l] \in Nat /\ loop' = loop
    BY DEF IInv, TypeOK, Close, ConnOnly
  <2>2. sem[l] + (IF loop[l] = "accept" THEN 1 ELSE 0) + Cardinality(Served(l)) = Capacity
    BY DEF IInv, PermitsKept
  <2> QED BY <1>3, <1>5, <1>6, <2>1, <2>2
<1>8. sem' \in [Listeners -> 0 .. Capacity]
  <2>1. sem' \in [Listeners -> Nat]
    BY <1>1 DEF Close, IInv, TypeOK
  <2>2. \A l \in Listeners : sem'[l] <= Capacity
    BY <1>6, <1>7, <2>1, TimesAssumption DEF PermitsKept
  <2> QED BY <2>1, <2>2, TimesAssumption
<1>9. TypeOK'
  BY <1>1, <1>8, AwayIs DEF IInv, TypeOK, Close, ConnOnly, Conn
<1>10. \A l \in Listeners : \A i \in 1 .. Len(queue[l]) : queue[l][i] \in Clients
  BY DEF IInv, TypeOK
<1>11. Queued'
  BY <1>1, <1>2, <1>10 DEF IInv, Queued, Close
<1>12. \A x \in Clients : conns'[x].at # "away" => conns'[x].on \in Listeners
  BY <1>2, AwayIs DEF IInv
<1> QED BY <1>5, <1>7, <1>9, <1>11, <1>12 DEF IInv

\* A connection whose timer starts anew.
LEMMA Rewound ==
    ASSUME NEW k \in Conn
    PROVE  /\ LET q == [k EXCEPT !.at = "head", !.age = 0]
              IN  q \in Conn /\ q.at = "head" /\ q.on = k.on
           /\ \A n \in 0 .. MaxRequests :
                LET q == [k EXCEPT !.at = "handler", !.age = 0, !.left = n]
                IN  q \in Conn /\ q.at = "handler" /\ q.on = k.on
<1>1. 0 \in 0 .. Longest
  BY LongestIs
<1> QED BY <1>1, ZenonT(60) DEF Conn

LEMMA PeerStep ==
    ASSUME IInv, NEW c \in Clients,
           Leave(c) \/ Hello(c) \/ Handshake(c) \/ Challenge(c) \/ Request(c) \/ Respond(c) \/ TimeOut(c)
    PROVE  IInv'
<1>0. conns \in [Clients -> Conn] /\ conns[c] \in Conn
  BY TypeConn DEF IInv
<1>1. CASE Leave(c) \/ Challenge(c) \/ TimeOut(c)
  BY <1>1, CloseStep DEF Leave, Challenge, TimeOut, TimedOut, Serving
<1>2. CASE Hello(c)
  <2> DEFINE q == [conns[c] EXCEPT !.at = "handshake"]
  <2>1. q \in Conn /\ q.at = "handshake" /\ q.on = conns[c].on
    BY <1>0 DEF Conn
  <2>2. conns' = [conns EXCEPT ![c] = q] /\ Serving(c)
    BY <1>0, <1>2 DEF Hello, Serving
  <2> QED BY <1>2, <2>1, <2>2, StayStep DEF Hello, ConnOnly, Rest
<1>3. CASE Handshake(c)
  <2> DEFINE q == [conns[c] EXCEPT !.at = "head", !.age = 0]
  <2>1. q \in Conn /\ q.at = "head" /\ q.on = conns[c].on
    BY <1>0, Rewound
  <2>2. conns' = [conns EXCEPT ![c] = q] /\ Serving(c)
    BY <1>0, <1>3 DEF Handshake, Serving
  <2> QED BY <1>3, <2>1, <2>2, StayStep DEF Handshake, ConnOnly, Rest
<1>4. CASE Request(c)
  <2> DEFINE q == [conns[c] EXCEPT !.at = "handler", !.age = 0, !.left = conns[c].left - 1]
  <2>1. q \in Conn /\ q.at = "handler" /\ q.on = conns[c].on
    <3>1. conns[c].left \in 0 .. MaxRequests
      BY <1>0 DEF Conn
    <3>2. conns[c].left - 1 \in 0 .. MaxRequests
      BY <1>4, <3>1, TimesAssumption DEF Request
    <3> QED BY <1>0, <3>2, Rewound
  <2>2. conns' = [conns EXCEPT ![c] = q] /\ Serving(c)
    BY <1>0, <1>4 DEF Request, Serving
  <2> QED BY <1>4, <2>1, <2>2, StayStep DEF Request, ConnOnly, Rest
<1>5. CASE Respond(c)
  <2> DEFINE q == [conns[c] EXCEPT !.at = "head", !.age = 0]
  <2>1. q \in Conn /\ q.at = "head" /\ q.on = conns[c].on
    BY <1>0, Rewound
  <2>2. conns' = [conns EXCEPT ![c] = q] /\ Serving(c)
    BY <1>0, <1>5 DEF Respond, Serving
  <2> QED BY <1>5, <2>1, <2>2, StayStep DEF Respond, ConnOnly, Rest
<1> QED BY <1>1, <1>2, <1>3, <1>4, <1>5

LEMMA LoopStep ==
    ASSUME IInv, NEW l \in Listeners, Bind(l) \/ Acquire(l) \/ StopLoop(l) \/ Drained(l)
    PROVE  IInv'
<1>0. IsFiniteSet(Served(l)) /\ Cardinality(Served(l)) \in Nat
  BY FS_CardinalityType DEF IInv
<1>1. sem[l] + (IF loop[l] = "accept" THEN 1 ELSE 0) <= Capacity /\ sem[l] \in 0 .. Capacity
  BY <1>0, TimesAssumption DEF IInv, PermitsKept, TypeOK
<1>2. UNCHANGED <<conns, queue, ports, service, fired, stopping, draining, main, scm, removal>>
  BY DEF Bind, Acquire, StopLoop, Drained, LoopOnly
<1>3. loop' \in [Listeners -> {"none", "bind", "acquire", "accept", "drain", "stopped", "failed", "cut"}]
  <2>1. loop \in [Listeners -> {"none", "bind", "acquire", "accept", "drain", "stopped", "failed", "cut"}]
    BY DEF IInv, TypeOK
  <2>2. PICK to \in {"acquire", "failed", "accept", "drain", "stopped"} : loop' = [loop EXCEPT ![l] = to]
    BY DEF Bind, Acquire, StopLoop, Drained
  <2> QED BY <2>1, <2>2
<1>4. sem' \in [Listeners -> 0 .. Capacity]
  <2>1. sem \in [Listeners -> 0 .. Capacity]
    BY DEF IInv, TypeOK
  <2>2. CASE Bind(l) \/ Drained(l) \/ (StopLoop(l) /\ loop[l] # "accept")
    <3>1. sem' = sem
      BY <2>1, <2>2 DEF Bind, Drained, StopLoop
    <3> QED BY <2>1, <3>1
  <2>3. CASE Acquire(l)
    <3>1. sem' = [sem EXCEPT ![l] = sem[l] - 1] /\ sem[l] - 1 \in 0 .. Capacity
      BY <1>1, <2>3, TimesAssumption DEF Acquire
    <3> QED BY <2>1, <3>1
  <2>4. CASE StopLoop(l) /\ loop[l] = "accept"
    <3>1. sem' = [sem EXCEPT ![l] = sem[l] + 1] /\ sem[l] + 1 \in 0 .. Capacity
      BY <1>1, <2>4, TimesAssumption DEF StopLoop
    <3> QED BY <2>1, <3>1
  <2> QED BY <2>2, <2>3, <2>4
<1>5. \A k \in Listeners : sem'[k] + (IF loop'[k] = "accept" THEN 1 ELSE 0)
                          = sem[k] + (IF loop[k] = "accept" THEN 1 ELSE 0)
  <2>1. sem \in [Listeners -> 0 .. Capacity] /\ DOMAIN loop = Listeners
    BY DEF IInv, TypeOK
  <2>2. \A k \in Listeners : sem[k] \in Nat
    BY <2>1, TimesAssumption
  <2> QED BY <2>1, <2>2 DEF Bind, Acquire, StopLoop, Drained
<1>6. TypeOK'
  BY <1>2, <1>3, <1>4 DEF IInv, TypeOK
<1> QED BY <1>2, <1>5, <1>6, Same

\* The head of a backlog is not served yet, and in no backlog once it is taken off.
LEMMA HeadOf ==
    ASSUME IInv, NEW l \in Listeners, queue[l] # <<>>
    PROVE  /\ Head(queue[l]) \in Clients
           /\ conns[Head(queue[l])].at = "backlog"
           /\ \A k \in Listeners : Head(queue[l]) \notin Served(k)
           /\ Tail(queue[l]) \in Seq(Clients)
           /\ \A i \in 1 .. Len(Tail(queue[l])) :
                /\ Tail(queue[l])[i] = queue[l][i + 1] /\ i + 1 \in 1 .. Len(queue[l])
                /\ Tail(queue[l])[i] # Head(queue[l])
           /\ \A k \in Listeners \ {l} : \A i \in 1 .. Len(queue[k]) : queue[k][i] # Head(queue[l])
<1>1. queue[l] \in Seq(Clients) /\ 1 \in 1 .. Len(queue[l]) /\ Head(queue[l]) = queue[l][1]
  BY DEF IInv, TypeOK
<1>2. conns[Head(queue[l])].at = "backlog" /\ conns[Head(queue[l])].on = l
  BY <1>1 DEF IInv, Queued
<1>3. Tail(queue[l]) \in Seq(Clients) /\ Len(Tail(queue[l])) = Len(queue[l]) - 1
  BY <1>1
<1>4. \A i \in 1 .. Len(Tail(queue[l])) : Tail(queue[l])[i] = queue[l][i + 1] /\ i + 1 \in 1 .. Len(queue[l]) /\ i + 1 # 1
  BY <1>1, <1>3
<1>5. \A i \in 1 .. Len(Tail(queue[l])) : Tail(queue[l])[i] # Head(queue[l])
  BY <1>1, <1>4 DEF IInv, Queued
<1>6. \A k \in Listeners \ {l} : \A i \in 1 .. Len(queue[k]) : queue[k][i] # Head(queue[l])
  BY <1>2 DEF IInv, Queued
<1> QED BY <1>1, <1>2, <1>3, <1>4, <1>5, <1>6 DEF Served, Serving

\* A listener takes the head of its backlog, which becomes q.
LEMMA TakeStep ==
    ASSUME IInv, NEW l \in Listeners, loop[l] = "accept", queue[l] # <<>>, NEW q \in Conn,
           loop' = [loop EXCEPT ![l] = "acquire"],
           queue' = [queue EXCEPT ![l] = Tail(@)],
           conns' = [conns EXCEPT ![Head(queue[l])] = q],
           UNCHANGED Rest,
           \/ q.at \in {"hello", "handshake"} /\ q.on = l /\ sem' = sem
           \/ q.at = "away" /\ sem' = [sem EXCEPT ![l] = @ + 1]
    PROVE  IInv'
<1> DEFINE c == Head(queue[l])
<1>1. /\ c \in Clients /\ conns[c].at = "backlog" /\ \A k \in Listeners : c \notin Served(k)
      /\ Tail(queue[l]) \in Seq(Clients)
  BY HeadOf
<1>2. /\ conns \in [Clients -> Conn] /\ queue \in [Listeners -> Seq(Clients)]
      /\ DOMAIN loop = Listeners /\ DOMAIN sem = Listeners
      /\ \A k \in Listeners : sem[k] \in Nat
  <2>1. conns \in [Clients -> Conn]
    BY TypeConn DEF IInv
  <2>2. queue \in [Listeners -> Seq(Clients)] /\ DOMAIN loop = Listeners /\ sem \in [Listeners -> 0 .. Capacity]
    BY DEF IInv, TypeOK
  <2> QED BY <2>1, <2>2, TimesAssumption
<1>3. \A x \in Clients : conns'[x] = IF x = c THEN q ELSE conns[x]
  BY <1>1, <1>2
<1>4. \A k \in Listeners : /\ IsFiniteSet(Served(k)')
                          /\ Cardinality(Served(k)') = Cardinality(Served(k)) + IF k = l /\ q.at # "away" THEN 1 ELSE 0
  <2> TAKE k \in Listeners
  <2> HIDE DEF c
  <2>1. IsFiniteSet(Served(k)) /\ conns' = [conns EXCEPT ![c] = q]
    BY DEF IInv, c
  <2>2. Cardinality(Served(k)) \in Nat
    BY <2>1, FS_CardinalityType
  <2>3. /\ IsFiniteSet(Served(k)')
        /\ q.at \in {"hello", "handshake", "head", "handler"} /\ q.on = k
              => Cardinality(Served(k)') = Cardinality(Served(k)) + 1
        /\ ~(q.at \in {"hello", "handshake", "head", "handler"} /\ q.on = k)
              => Cardinality(Served(k)') = Cardinality(Served(k)) - 0
    BY <1>1, <1>2, <2>1, OneServed
  <2> QED BY <2>2, <2>3
<1>5. \A k \in Listeners : Cardinality(Served(k)) \in Nat /\ Cardinality(Served(k)') \in Nat
  BY <1>4, FS_CardinalityType DEF IInv
<1>6. PermitsKept'
  <2> SUFFICES ASSUME NEW k \in Listeners
               PROVE  sem'[k] + (IF loop'[k] = "accept" THEN 1 ELSE 0) + Cardinality(Served(k)') = Capacity
    BY DEF PermitsKept
  <2>1. sem[k] + (IF loop[k] = "accept" THEN 1 ELSE 0) + Cardinality(Served(k)) = Capacity
    BY DEF IInv, PermitsKept
  <2> HIDE DEF c
  <2>2. CASE k = l
    BY <1>2, <1>4, <1>5, <2>1, <2>2
  <2>3. CASE k # l
    <3>1. sem'[k] = sem[k] /\ loop'[k] = loop[k]
      BY <1>2, <2>3
    <3>2. Cardinality(Served(k)') = Cardinality(Served(k))
      BY <1>4, <1>5, <2>3
    <3> QED BY <2>1, <3>1, <3>2
  <2> QED BY <2>2, <2>3
<1>7. sem' \in [Listeners -> 0 .. Capacity]
  <2>1. sem' \in [Listeners -> Nat]
    <3>1. CASE sem' = sem
      BY <1>2, <3>1 DEF IInv, TypeOK
    <3>2. CASE sem' = [sem EXCEPT ![l] = sem[l] + 1]
      BY <1>2, <3>2 DEF IInv, TypeOK
    <3> QED BY <3>1, <3>2
  <2>2. ASSUME NEW k \in Listeners PROVE sem'[k] <= Capacity
    <3>1. sem'[k] + (IF loop'[k] = "accept" THEN 1 ELSE 0) + Cardinality(Served(k)') = Capacity
      BY <1>6 DEF PermitsKept
    <3>2. sem'[k] \in Nat /\ Cardinality(Served(k)') \in Nat
      BY <1>5, <2>1
    <3> QED BY <3>1, <3>2, TimesAssumption
  <2> QED BY <2>1, <2>2, TimesAssumption
<1>8. TypeOK'
  <2>1. conns' \in [Clients -> Conn] /\ queue' \in [Listeners -> Seq(Clients)]
    BY <1>1, <1>2
  <2>2. loop' \in [Listeners -> {"none", "bind", "acquire", "accept", "drain", "stopped", "failed", "cut"}]
    BY DEF IInv, TypeOK
  <2> QED BY <1>7, <2>1, <2>2 DEF IInv, TypeOK, Rest, Conn
<1>9. Queued'
  <2> SUFFICES ASSUME NEW k \in Listeners
               PROVE  /\ \A i \in 1 .. Len(queue'[k]) : conns'[queue'[k][i]].at = "backlog" /\ conns'[queue'[k][i]].on = k
                      /\ \A i, j \in 1 .. Len(queue'[k]) : queue'[k][i] = queue'[k][j] => i = j
    BY DEF Queued
  <2>1. \A i \in 1 .. Len(queue[k]) : /\ queue[k][i] \in Clients
                                      /\ conns[queue[k][i]].at = "backlog" /\ conns[queue[k][i]].on = k
    BY <1>2 DEF IInv, Queued
  <2>2. \A i, j \in 1 .. Len(queue[k]) : queue[k][i] = queue[k][j] => i = j
    BY DEF IInv, Queued
  <2>3. CASE k # l
    <3>1. queue'[k] = queue[k] /\ \A i \in 1 .. Len(queue[k]) : queue[k][i] # c
      BY <1>2, <2>3, HeadOf
    <3> HIDE DEF c
    <3>2. \A i \in 1 .. Len(queue[k]) : conns'[queue[k][i]] = conns[queue[k][i]]
      BY <1>3, <2>1, <3>1
    <3>3. \A i \in 1 .. Len(queue'[k]) : conns'[queue'[k][i]].at = "backlog" /\ conns'[queue'[k][i]].on = k
      <4> TAKE i \in 1 .. Len(queue'[k])
      <4>1. queue'[k][i] = queue[k][i] /\ i \in 1 .. Len(queue[k])
        BY <3>1
      <4>2. conns'[queue'[k][i]] = conns[queue[k][i]]
        BY <3>2, <4>1
      <4> QED BY <2>1, <4>1, <4>2
    <3>4. \A i, j \in 1 .. Len(queue'[k]) : queue'[k][i] = queue'[k][j] => i = j
      <4>1. queue'[k] = queue[k]
        BY <3>1
      <4> QED BY <2>2, <4>1
    <3> QED BY <3>3, <3>4
  <2>4. CASE k = l
    <3>1. queue'[l] = Tail(queue[l])
      BY <1>2
    <3>2. \A i \in 1 .. Len(Tail(queue[l])) :
             Tail(queue[l])[i] = queue[l][i + 1] /\ i + 1 \in 1 .. Len(queue[l]) /\ Tail(queue[l])[i] # c
      BY HeadOf
    <3> HIDE DEF c
    <3>3. \A i \in 1 .. Len(Tail(queue[l])) : conns'[queue[l][i + 1]] = conns[queue[l][i + 1]]
      BY <1>3, <2>1, <2>4, <3>2
    <3>4. \A i \in 1 .. Len(Tail(queue[l])) :
             conns'[Tail(queue[l])[i]].at = "backlog" /\ conns'[Tail(queue[l])[i]].on = l
      BY <2>1, <2>4, <3>2, <3>3
    <3>5. \A i, j \in 1 .. Len(Tail(queue[l])) : Tail(queue[l])[i] = Tail(queue[l])[j] => i = j
      <4> SUFFICES ASSUME NEW i \in 1 .. Len(Tail(queue[l])), NEW j \in 1 .. Len(Tail(queue[l])),
                          Tail(queue[l])[i] = Tail(queue[l])[j]
                   PROVE  i = j
        OBVIOUS
      <4>1. i + 1 = j + 1
        BY <2>2, <2>4, <3>2
      <4> QED BY <4>1
    <3>6. \A i \in 1 .. Len(queue'[k]) : conns'[queue'[k][i]].at = "backlog" /\ conns'[queue'[k][i]].on = k
      <4> TAKE i \in 1 .. Len(queue'[k])
      <4>1. queue'[k] = Tail(queue[l]) /\ i \in 1 .. Len(Tail(queue[l]))
        BY <2>4, <3>1
      <4>2. queue'[k][i] = Tail(queue[l])[i]
        BY <4>1
      <4> QED BY <2>4, <3>4, <4>1, <4>2
    <3>7. \A i, j \in 1 .. Len(queue'[k]) : queue'[k][i] = queue'[k][j] => i = j
      <4>1. queue'[k] = Tail(queue[l])
        BY <2>4, <3>1
      <4> QED BY <3>5, <4>1
    <3> QED BY <3>6, <3>7
  <2> QED BY <2>3, <2>4
<1>10. \A x \in Clients : conns'[x].at # "away" => conns'[x].on \in Listeners
  BY <1>3 DEF IInv
<1> QED BY <1>4, <1>6, <1>8, <1>9, <1>10 DEF IInv

LEMMA AcceptStep ==
    ASSUME IInv, NEW l \in Listeners, Accept(l) \/ AcceptFails(l)
    PROVE  IInv'
<1>1. CASE Accept(l)
  <2> DEFINE q == [at |-> IF l = "web" THEN "hello" ELSE "handshake", on |-> l, age |-> 0, left |-> MaxRequests]
  <2>1. q \in Conn /\ q.at \in {"hello", "handshake"} /\ q.on = l
    BY LongestIs, TimesAssumption DEF Conn
  <2>2. conns' = [conns EXCEPT ![Head(queue[l])] = q]
    BY <1>1 DEF Accept
  <2> HIDE DEF q
  <2> QED BY <1>1, <2>1, <2>2, TakeStep DEF Accept, Rest
<1>2. CASE AcceptFails(l)
  BY <1>2, TakeStep, AwayIs DEF AcceptFails, Rest
<1> QED BY <1>1, <1>2

LEMMA ConnectStep ==
    ASSUME IInv, NEW c \in Clients, NEW l \in Listeners, Connect(c, l)
    PROVE  IInv'
<1> DEFINE q == [at |-> "backlog", on |-> l, age |-> 0, left |-> 0]
<1>1. q \in Conn /\ q.at = "backlog" /\ q.on = l
  BY LongestIs, TimesAssumption DEF Conn
<1>2. /\ conns \in [Clients -> Conn] /\ queue \in [Listeners -> Seq(Clients)] /\ conns[c].at = "away"
  BY TypeConn DEF IInv, TypeOK, Connect
<1>3. /\ conns' = [conns EXCEPT ![c] = q] /\ queue' = [queue EXCEPT ![l] = Append(queue[l], c)]
      /\ UNCHANGED <<loop, sem>> /\ UNCHANGED Rest
  BY DEF Connect, ConnOnly, Rest
<1> HIDE DEF q
<1>4. \A x \in Clients : conns'[x] = IF x = c THEN q ELSE conns[x]
  BY <1>2, <1>3
<1>5. \A k \in Listeners : Served(k)' = Served(k)
  BY <1>1, <1>2, <1>4 DEF Served, Serving
<1>6. TypeOK'
  <2>1. conns' \in [Clients -> Conn] /\ queue' \in [Listeners -> Seq(Clients)]
    BY <1>1, <1>2, <1>3
  <2> QED BY <1>3, <2>1 DEF IInv, TypeOK, Rest, Conn
<1>7. Queued'
  <2> SUFFICES ASSUME NEW k \in Listeners
               PROVE  /\ \A i \in 1 .. Len(queue'[k]) : conns'[queue'[k][i]].at = "backlog" /\ conns'[queue'[k][i]].on = k
                      /\ \A i, j \in 1 .. Len(queue'[k]) : queue'[k][i] = queue'[k][j] => i = j
    BY DEF Queued
  <2>1. \A i \in 1 .. Len(queue[k]) :
           /\ queue[k][i] \in Clients /\ queue[k][i] # c
           /\ conns[queue[k][i]].at = "backlog" /\ conns[queue[k][i]].on = k
    BY <1>2 DEF IInv, Queued
  <2>2. \A i, j \in 1 .. Len(queue[k]) : queue[k][i] = queue[k][j] => i = j
    BY DEF IInv, Queued
  <2>3. CASE k # l
    <3>1. queue'[k] = queue[k] /\ \A i \in 1 .. Len(queue[k]) : conns'[queue[k][i]] = conns[queue[k][i]]
      BY <1>2, <1>3, <1>4, <2>1, <2>3
    <3>2. \A i \in 1 .. Len(queue'[k]) : conns'[queue'[k][i]].at = "backlog" /\ conns'[queue'[k][i]].on = k
      BY <2>1, <3>1
    <3> QED BY <2>2, <3>1, <3>2
  <2>4. CASE k = l
    <3>1. /\ queue'[k] = Append(queue[k], c) /\ queue[k] \in Seq(Clients)
      BY <1>2, <1>3, <2>4
    <3>2. /\ Len(queue'[k]) = Len(queue[k]) + 1 /\ Len(queue[k]) \in Nat
          /\ \A i \in 1 .. Len(queue'[k]) : queue'[k][i] = IF i = Len(queue[k]) + 1 THEN c ELSE queue[k][i]
      BY <3>1
    <3>3. \A i \in 1 .. Len(queue'[k]) : i # Len(queue[k]) + 1 => i \in 1 .. Len(queue[k])
      BY <3>2
    <3>4. \A i \in 1 .. Len(queue'[k]) : conns'[queue'[k][i]].at = "backlog" /\ conns'[queue'[k][i]].on = k
      BY <1>1, <1>4, <2>1, <2>4, <3>2, <3>3
    <3>5. \A i, j \in 1 .. Len(queue'[k]) : queue'[k][i] = queue'[k][j] => i = j
      BY <2>1, <2>2, <3>2, <3>3
    <3> QED BY <3>4, <3>5
  <2> QED BY <2>3, <2>4
<1>8. \A x \in Clients : conns'[x].at # "away" => conns'[x].on \in Listeners
  BY <1>1, <1>4 DEF IInv
<1> QED BY <1>3, <1>5, <1>6, <1>7, <1>8 DEF IInv, PermitsKept

LEMMA ExitStep ==
    ASSUME IInv, Exit
    PROVE  IInv'
<1>1. /\ conns' = [c \in Clients |-> Away] /\ queue' = [l \in Listeners |-> <<>>]
      /\ sem' = [l \in Listeners |-> Capacity]
      /\ \A l \in Listeners : loop'[l] \in {"none", "stopped", "failed", "cut"}
      /\ main' = [pc |-> "exited", age |-> 0]
      /\ UNCHANGED <<ports, service, fired, stopping, draining, scm, removal>>
  BY DEF Exit
<1>2. loop' \in [Listeners -> {"none", "bind", "acquire", "accept", "drain", "stopped", "failed", "cut"}]
  BY DEF Exit
<1>3. \A c \in Clients : conns'[c] = Away
  BY <1>1
<1>4. \A l \in Listeners : Served(l)' = {}
  BY <1>3, AwayIs DEF Served, Serving
<1>5. IsFiniteSet({}) /\ Cardinality({}) = 0
  BY FS_EmptySet
<1>6. TypeOK'
  <2>1. /\ conns' \in [Clients -> Conn] /\ queue' \in [Listeners -> Seq(Clients)]
        /\ sem' \in [Listeners -> 0 .. Capacity]
        /\ main' \in [pc : {"setup", "select", "grace", "exited"}, age : 0 .. Grace]
    BY <1>1, AwayIs, TimesAssumption
  <2> QED BY <1>1, <1>2, <2>1 DEF IInv, TypeOK, Conn
<1>7. Queued'
  BY <1>1 DEF Queued
<1>8. PermitsKept'
  <2> SUFFICES ASSUME NEW l \in Listeners
               PROVE  sem'[l] + (IF loop'[l] = "accept" THEN 1 ELSE 0) + Cardinality(Served(l)') = Capacity
    BY DEF PermitsKept
  <2>1. Cardinality(Served(l)') = 0
    BY <1>4, <1>5
  <2>2. sem'[l] = Capacity /\ loop'[l] # "accept" /\ Capacity \in Nat
    BY <1>1, TimesAssumption
  <2> QED BY <2>1, <2>2
<1>9. \A c \in Clients : conns'[c].at = "away"
  BY <1>3, AwayIs
<1> QED BY <1>4, <1>5, <1>6, <1>7, <1>8, <1>9 DEF IInv

-------------------------------------------------------------------------------
\* No listener runs before the start is over.
Idle == main.pc = "setup" => \A l \in Listeners : loop[l] = "none"

LEMMA MainType ==
    ASSUME IInv PROVE main \in [pc : {"setup", "select", "grace", "exited"}, age : 0 .. Grace]
BY DEF IInv, TypeOK

\* Signals, the service manager and the uninstaller: no listener and no connection moves.
LEMMA SignalStep ==
    ASSUME IInv, Fire \/ Uninstall \/ ReportRunning \/ ReportStopped \/ WaitForStop
    PROVE  IInv' /\ (Idle => Idle')
<1>1. UNCHANGED <<ports, service, stopping, loop, sem, queue, draining, conns, main>>
  BY DEF Fire, FireControl, Uninstall, ReportRunning, ReportStopped, WaitForStop
<1>2. /\ fired' \in BOOLEAN
      /\ scm' \in {"none", "start", "running", "stop_pending", "stopped"}
      /\ removal' \in {"no", "wait", "deleted", "bailed"}
  BY DEF IInv, TypeOK, Fire, FireControl, Uninstall, ReportRunning, ReportStopped, WaitForStop
<1>3. TypeOK'
  BY <1>1, <1>2 DEF IInv, TypeOK
<1>4. IInv'
  BY <1>1, <1>3, Same
<1> QED BY <1>1, <1>4 DEF Idle

LEMMA StartStep ==
    ASSUME IInv, Idle, StartUp
    PROVE  IInv' /\ Idle'
<1>1. /\ UNCHANGED <<ports, service, fired, stopping, sem, queue, draining, conns, scm, removal>>
      /\ main' = [pc |-> "select", age |-> 0]
      /\ loop' \in [Listeners -> {"none", "bind"}]
      /\ \A l \in Listeners : loop[l] = "none" /\ loop'[l] # "accept"
  BY DEF StartUp, Idle
<1>2. main' \in [pc : {"setup", "select", "grace", "exited"}, age : 0 .. Grace]
  BY <1>1, TimesAssumption
<1>3. loop' \in [Listeners -> {"none", "bind", "acquire", "accept", "drain", "stopped", "failed", "cut"}]
  BY DEF StartUp
<1>4. TypeOK'
  BY <1>1, <1>2, <1>3 DEF IInv, TypeOK
<1>5. IInv'
  BY <1>1, <1>4, Same
<1> QED BY <1>1, <1>5 DEF Idle

LEMMA MainStep ==
    ASSUME IInv, Select \/ GiveGrace
    PROVE  IInv' /\ Idle'
<1>1. CASE Exit
  BY <1>1, ExitStep DEF Exit, Idle
<1>2. CASE main' = [pc |-> "grace", age |-> 0] /\ MainOnly
  <2>1. main' \in [pc : {"setup", "select", "grace", "exited"}, age : 0 .. Grace]
    BY <1>2, TimesAssumption
  <2>2. TypeOK'
    BY <1>2, <2>1 DEF IInv, TypeOK, MainOnly
  <2>3. IInv'
    BY <1>2, <2>2, Same DEF MainOnly
  <2> QED BY <1>2, <2>3 DEF Idle
<1> QED BY <1>1, <1>2 DEF Select, GiveGrace

LEMMA MoreOne == \A n \in Nat, max \in Nat : n <= max => More(n, max) \in {n, n + 1}
BY DEF More

LEMMA MoreIs ==
    ASSUME NEW m \in Nat, NEW n \in 0 .. m
    PROVE  More(n, m) \in 0 .. m
BY DEF More

\* A tick: connections grow older where they are.
LEMMA TickStep ==
    ASSUME IInv, Tick
    PROVE  IInv' /\ (Idle => Idle')
<1>1. /\ UNCHANGED <<ports, service, fired, loop, sem, queue, scm, removal>>
      /\ stopping' = (IF fired THEN More(stopping, WaitHint) ELSE stopping)
      /\ draining' = [l \in Listeners |-> IF loop[l] = "drain" THEN More(draining[l], DrainTimeout) ELSE draining[l]]
      /\ conns' = [c \in Clients |-> IF conns[c].at \in {"hello", "handshake", "head"}
                                     THEN [conns[c] EXCEPT !.age = More(conns[c].age, Longest)] ELSE conns[c]]
      /\ main' = [main EXCEPT !.age = IF main.pc = "grace" THEN More(main.age, Grace) ELSE main.age]
  BY DEF Tick
<1>2. stopping' \in 0 .. WaitHint
  BY <1>1, MoreIs, TimesAssumption DEF IInv, TypeOK
<1>3. draining' \in [Listeners -> 0 .. DrainTimeout]
  <2>1. \A l \in Listeners : draining[l] \in 0 .. DrainTimeout
    BY DEF IInv, TypeOK
  <2>2. DrainTimeout \in Nat
    BY TimesAssumption
  <2>3. \A l \in Listeners : More(draining[l], DrainTimeout) \in 0 .. DrainTimeout
    BY <2>1, <2>2, MoreIs
  <2> QED BY <1>1, <2>1, <2>3
<1>4. main' \in [pc : {"setup", "select", "grace", "exited"}, age : 0 .. Grace] /\ main'.pc = main.pc
  <2>1. main.age \in 0 .. Grace /\ Grace \in Nat
    BY MainType, TimesAssumption
  <2>2. More(main.age, Grace) \in 0 .. Grace
    BY <2>1, MoreIs
  <2> QED BY <1>1, <2>1, <2>2, MainType
<1>5. \A c \in Clients : conns'[c] \in Conn /\ conns'[c].at = conns[c].at /\ conns'[c].on = conns[c].on
  <2> TAKE c \in Clients
  <2>1. conns[c] \in Conn /\ conns[c].age \in 0 .. Longest
    BY TypeConn DEF IInv, Conn
  <2>2. More(conns[c].age, Longest) \in 0 .. Longest
    BY <2>1, LongestIs, MoreIs
  <2>3. \/ conns'[c] = conns[c]
        \/ conns'[c] = [conns[c] EXCEPT !.age = More(conns[c].age, Longest)]
    BY <1>1
  <2> QED BY <2>1, <2>2, <2>3 DEF Conn
<1>6. conns' \in [Clients -> Conn]
  BY <1>1, <1>5
<1>7. TypeOK'
  BY <1>1, <1>2, <1>3, <1>4, <1>6 DEF IInv, TypeOK, Conn
<1>8. \A l \in Listeners : Served(l)' = Served(l)
  BY <1>5 DEF Served, Serving
<1>9. \A l \in Listeners : \A i \in 1 .. Len(queue[l]) : queue[l][i] \in Clients
  BY DEF IInv, TypeOK
<1>10. Queued'
  BY <1>1, <1>5, <1>9 DEF IInv, Queued
<1>11. PermitsKept'
  BY <1>1, <1>8 DEF IInv, PermitsKept
<1>12. IInv'
  BY <1>5, <1>7, <1>8, <1>10, <1>11 DEF IInv
<1> QED BY <1>1, <1>4, <1>12 DEF Idle

LEMMA InitStep == Init => IInv /\ Idle
<1> SUFFICES ASSUME Init PROVE IInv /\ Idle
  OBVIOUS
<1>1. \A c \in Clients : conns[c] = Away
  BY DEF Init
<1>2. \A l \in Listeners : Served(l) = {}
  BY <1>1, AwayIs DEF Served, Serving
<1>3. IsFiniteSet({}) /\ Cardinality({}) = 0
  BY FS_EmptySet
<1>4. TypeOK
  <2>1. /\ conns \in [Clients -> Conn] /\ queue \in [Listeners -> Seq(Clients)]
        /\ sem \in [Listeners -> 0 .. Capacity] /\ draining \in [Listeners -> 0 .. DrainTimeout]
        /\ main \in [pc : {"setup", "select", "grace", "exited"}, age : 0 .. Grace]
        /\ stopping \in 0 .. WaitHint
    BY AwayIs, TimesAssumption DEF Init
  <2>2. loop \in [Listeners -> {"none", "bind", "acquire", "accept", "drain", "stopped", "failed", "cut"}]
    BY DEF Init
  <2> QED BY <2>1, <2>2 DEF Init, TypeOK, Conn
<1>5. Queued
  BY DEF Init, Queued
<1>6. PermitsKept
  <2> SUFFICES ASSUME NEW l \in Listeners
               PROVE  sem[l] + (IF loop[l] = "accept" THEN 1 ELSE 0) + Cardinality(Served(l)) = Capacity
    BY DEF PermitsKept
  <2>1. sem[l] = Capacity /\ loop[l] # "accept" /\ Capacity \in Nat /\ Cardinality(Served(l)) = 0
    BY <1>2, <1>3, TimesAssumption DEF Init
  <2> QED BY <2>1
<1>7. IInv
  BY <1>1, <1>2, <1>3, <1>4, <1>5, <1>6, AwayIs DEF IInv
<1> QED BY <1>7 DEF Init, Idle

\* Every step keeps the invariant: one step per action.
LEMMA NextStep ==
    ASSUME IInv, Idle, [Next]_vars
    PROVE  IInv' /\ Idle'
<1>1. CASE Fire \/ Uninstall \/ ReportRunning \/ ReportStopped \/ WaitForStop
  BY <1>1, SignalStep
<1>2. CASE StartUp
  BY <1>2, StartStep
<1>3. CASE Select \/ GiveGrace
  BY <1>3, MainStep
<1>4. CASE Tick
  BY <1>4, TickStep
<1>5. ASSUME NEW l \in ports, Bind(l) \/ Acquire(l) \/ StopLoop(l) \/ Drained(l)
      PROVE  IInv' /\ Idle'
  <2>1. l \in Listeners
    BY DEF IInv, TypeOK, Listeners
  <2>2. IInv'
    BY <1>5, <2>1, LoopStep
  <2>3. loop[l] # "none" /\ main' = main
    BY <1>5 DEF Bind, Acquire, StopLoop, Drained, LoopOnly
  <2> QED BY <2>1, <2>2, <2>3 DEF Idle
<1>6. ASSUME NEW l \in ports, Accept(l) \/ AcceptFails(l)
      PROVE  IInv' /\ Idle'
  <2>1. l \in Listeners
    BY DEF IInv, TypeOK, Listeners
  <2>2. IInv'
    BY <1>6, <2>1, AcceptStep
  <2>3. loop[l] # "none" /\ main' = main
    BY <1>6 DEF Accept, AcceptFails
  <2> QED BY <2>1, <2>2, <2>3 DEF Idle
<1>7. ASSUME NEW c \in Clients, NEW l \in ports, Connect(c, l)
      PROVE  IInv' /\ Idle'
  <2>1. l \in Listeners
    BY DEF IInv, TypeOK, Listeners
  <2>2. IInv'
    BY <1>7, <2>1, ConnectStep
  <2>3. UNCHANGED <<loop, main>>
    BY <1>7 DEF Connect, ConnOnly
  <2> QED BY <2>2, <2>3 DEF Idle
<1>8. ASSUME NEW c \in Clients,
             Leave(c) \/ Hello(c) \/ Handshake(c) \/ Challenge(c) \/ Request(c) \/ Respond(c) \/ TimeOut(c)
      PROVE  IInv' /\ Idle'
  <2>1. IInv'
    BY <1>8, PeerStep
  <2>2. UNCHANGED <<loop, main>>
    BY <1>8 DEF Leave, Hello, Handshake, Challenge, Request, Respond, TimeOut, Close, ConnOnly
  <2> QED BY <2>1, <2>2 DEF Idle
<1>9. CASE UNCHANGED vars
  <2>1. TypeOK' /\ UNCHANGED <<conns, queue, sem, loop, main>>
    BY <1>9 DEF vars, IInv, TypeOK
  <2> QED BY <2>1, Same DEF Idle
<1> QED BY <1>1, <1>2, <1>3, <1>4, <1>5, <1>6, <1>7, <1>8, <1>9 DEF Next, Urgent, Busy, Peer
-------------------------------------------------------------------------------
\* The strengthened invariant: types, who is in which backlog, and where permits are.
THEOREM Inductive == Spec => [](IInv /\ Idle)
<1>1. Init => IInv /\ Idle
  BY InitStep
<1>2. IInv /\ Idle /\ [Next]_vars => (IInv /\ Idle)'
  BY NextStep
<1> QED BY <1>1, <1>2, PTL DEF Spec

\* Every variable has its type: no timer passes its bound and no semaphore its capacity.
THEOREM TypeCorrect == Spec => []TypeOK
<1>1. IInv => TypeOK
  BY DEF IInv
<1> QED BY <1>1, Inductive, PTL

\* conn.rs: no permit of a listener is lost or given out twice, whatever the peers do.
THEOREM PermitsAlwaysKept == Spec => []PermitsKept
<1>1. IInv => PermitsKept
  BY DEF IInv
<1> QED BY <1>1, Inductive, PTL
-------------------------------------------------------------------------------
(* The stop.                                                               *)

\* What the service manager was told agrees with where the process is.
Told ==
    /\ scm # "none" => service
    /\ scm = "start" => main.pc = "setup" /\ ~fired
    /\ removal = "wait" => scm \in {"stop_pending", "stopped"}
    /\ removal # "bailed"

\* Until a listener drains no tick has passed since the signal, and then it has drained for
\* as long as the stop takes.
LoopOK(l) ==
    /\ loop[l] # "none" => l \in ports
    /\ loop[l] = "none" /\ l \in ports => main.pc = "setup"
    /\ loop[l] \in {"bind", "acquire", "accept"} => stopping = 0 /\ main.pc # "exited"
    /\ loop[l] = "drain" => fired /\ stopping <= draining[l] /\ main.pc # "exited"
    /\ loop[l] = "stopped" /\ main.pc # "exited" => fired
    /\ loop[l] = "cut" => main.pc = "exited"

\* So the stop takes no longer than a drain, until the service manager knows.
Clock ==
    /\ ~fired \/ main.pc = "setup" => stopping = 0
    /\ main.pc # "exited" \/ scm \in {"running", "stop_pending"} => stopping <= DrainTimeout

\* And after a web listener that drained, main waits no longer than the agents' drain.
Graced ==
    main.pc = "grace" =>
        /\ Finished("web") /\ "agent" \in ports
        /\ loop["web"] = "stopped" =>
              /\ loop["agent"] = "drain" => main.age <= draining["agent"]
              /\ loop["agent"] \in {"bind", "acquire", "accept"} => main.age = 0

SInv == Told /\ (\A l \in Listeners : LoopOK(l)) /\ Clock /\ Graced /\ AgentsDrained

\* Timers are numbers.
LEMMA TimersAre ==
    ASSUME TypeOK
    PROVE  /\ stopping \in Nat /\ main.age \in Nat /\ \A l \in Listeners : draining[l] \in 0 .. DrainTimeout
           /\ DrainTimeout \in Nat /\ Grace \in Nat /\ WaitHint \in Nat
           /\ DrainTimeout < Grace /\ DrainTimeout < WaitHint
           /\ ports \subseteq Listeners /\ "web" \in ports /\ "web" \in Listeners /\ "agent" \in Listeners
<1>1. /\ {DrainTimeout, Grace, WaitHint} \subseteq Nat
      /\ DrainTimeout < Grace /\ DrainTimeout < WaitHint
  BY TimesAssumption
<1>2. /\ stopping \in 0 .. WaitHint /\ draining \in [Listeners -> 0 .. DrainTimeout]
      /\ main.age \in 0 .. Grace
  BY DEF TypeOK
<1>3. ports \subseteq Listeners /\ "web" \in ports /\ "web" \in Listeners /\ "agent" \in Listeners
  BY DEF TypeOK, Listeners
<1> QED  BY <1>1, <1>2, <1>3

LEMMA StopInit == Init => SInv
BY TimesAssumption DEF Init, SInv, Told, LoopOK, Clock, Graced, AgentsDrained, Listeners

\* A step of a connection alone.
LEMMA StopStill ==
    ASSUME SInv, UNCHANGED <<ports, service, fired, stopping, loop, draining, main, scm, removal>>
    PROVE  SInv'
BY DEF SInv, Told, LoopOK, Clock, Graced, AgentsDrained, Finished

LEMMA StopSignal ==
    ASSUME TypeOK, SInv, Fire \/ Uninstall \/ ReportRunning \/ ReportStopped \/ WaitForStop
    PROVE  SInv'
<1>1. UNCHANGED <<ports, service, stopping, loop, sem, queue, draining, conns, main>>
  BY DEF Fire, Uninstall, ReportRunning, ReportStopped, WaitForStop
<1>2. fired => fired'
  BY DEF Fire, FireControl, Uninstall, ReportRunning, ReportStopped, WaitForStop, TypeOK
<1>3. scm' \in {"running", "stop_pending"} => scm \in {"running", "stop_pending"} \/ main.pc # "exited"
  BY DEF Fire, FireControl, Uninstall, ReportRunning, ReportStopped, WaitForStop, SInv, Told
<1>4. Told'
  BY <1>1, TimersAre DEF Fire, FireControl, Uninstall, ReportRunning, ReportStopped, WaitForStop, SInv, Told, Clock
<1>5. \A l \in Listeners : LoopOK(l)'
  BY <1>1, <1>2 DEF SInv, LoopOK
<1>6. Clock'
  BY <1>1, <1>2, <1>3 DEF SInv, Clock
<1>7. Graced' /\ AgentsDrained'
  BY <1>1 DEF SInv, Graced, AgentsDrained, Finished
<1> QED  BY <1>4, <1>5, <1>6, <1>7 DEF SInv

LEMMA StopStart ==
    ASSUME TypeOK, Idle, SInv, StartUp
    PROVE  SInv'
<1>1. /\ UNCHANGED <<ports, service, fired, stopping, draining, scm, removal>>
      /\ main.pc = "setup" /\ main'.pc = "select" /\ scm # "start"
      /\ \A l \in Listeners : loop'[l] = IF l \in ports THEN "bind" ELSE "none"
  BY DEF StartUp
<1>2. stopping = 0
  BY <1>1 DEF SInv, Clock
<1>3. Told' /\ Clock' /\ Graced' /\ AgentsDrained'
  BY <1>1, <1>2, TimersAre DEF SInv, Told, Clock, Graced, AgentsDrained
<1>4. \A l \in Listeners : LoopOK(l)'
  BY <1>1, <1>2 DEF LoopOK
<1> QED  BY <1>3, <1>4 DEF SInv

\* One loop moves on, and what it moves to holds of it.
LEMMA OneLoop ==
    ASSUME TypeOK, SInv, NEW l \in Listeners, NEW to, loop' = [loop EXCEPT ![l] = to],
           UNCHANGED <<ports, service, fired, stopping, draining, main, scm, removal>>,
           LoopOK(l)', to # "cut", to # "none",
           loop[l] \notin {"stopped", "failed"},
           l = "agent" /\ to = "drain" => loop["agent"] \in {"bind", "acquire", "accept"},
           l = "agent" /\ to \in {"acquire", "accept"} => loop["agent"] \in {"bind", "acquire", "accept"},
           to # "bind"
    PROVE  SInv'
<1>1. \A x \in Listeners : loop'[x] = IF x = l THEN to ELSE loop[x]
  BY DEF TypeOK
<1>2. \A x \in Listeners : LoopOK(x)'
  BY <1>1 DEF SInv, LoopOK
<1>3. Told' /\ Clock'
  BY DEF SInv, Told, Clock
<1>4. AgentsDrained'
  BY <1>1, TimersAre DEF SInv, AgentsDrained
<1>5. Graced'
  <2> SUFFICES ASSUME main.pc = "grace" PROVE Graced'
    BY DEF Graced
  <2>1. l = "agent" /\ loop'["web"] = loop["web"]
    BY <1>1, TimersAre DEF SInv, Graced, Finished, Listeners
  <2> QED  BY <1>1, <2>1, TimersAre DEF SInv, Graced, Finished
<1> QED  BY <1>2, <1>3, <1>4, <1>5 DEF SInv

LEMMA StopLoops ==
    ASSUME TypeOK, SInv, NEW l \in ports,
           Bind(l) \/ Acquire(l) \/ StopLoop(l) \/ Drained(l) \/ Accept(l) \/ AcceptFails(l)
    PROVE  SInv'
<1>1. l \in Listeners /\ LoopOK(l)
  BY TimersAre DEF SInv
<1>2. UNCHANGED <<ports, service, fired, stopping, draining, main, scm, removal>>
  BY DEF Bind, Acquire, StopLoop, Drained, Accept, AcceptFails, LoopOnly
<1>3. loop[l] \in {"bind", "acquire", "accept", "drain"}
  BY DEF Bind, Acquire, StopLoop, Drained, Accept, AcceptFails
<1>4. PICK to \in {"acquire", "failed", "accept", "drain", "stopped"} :
        /\ loop' = [loop EXCEPT ![l] = to]
        /\ to \in {"acquire", "accept"} => loop[l] \in {"bind", "acquire", "accept"}
        /\ to = "drain" => fired /\ loop[l] \in {"acquire", "accept"}
        /\ to = "stopped" => loop[l] = "drain"
  BY DEF Bind, Acquire, StopLoop, StopSeen, Drained, Accept, AcceptFails
<1>5. loop'[l] = to
  BY <1>1, <1>4 DEF TypeOK
<1>6. LoopOK(l)'
  BY <1>1, <1>2, <1>3, <1>4, <1>5, TimersAre DEF LoopOK
<1> QED  BY <1>1, <1>2, <1>3, <1>4, <1>6, OneLoop

\* An exit that does not cut the agents' drain, unless the web listener failed.
LEMMA StopExit ==
    ASSUME TypeOK, SInv, Exit, main.pc # "setup", loop["agent"] = "drain" => loop["web"] = "failed"
    PROVE  SInv'
<1>1. /\ UNCHANGED <<ports, service, fired, stopping, draining, scm, removal>> /\ main'.pc = "exited"
      /\ \A l \in Listeners : loop'[l] = IF loop[l] \in {"none", "stopped", "failed"} THEN loop[l]
                                         ELSE IF loop[l] = "drain" THEN "cut" ELSE "stopped"
  BY DEF Exit
<1>2. scm # "start"
  BY DEF SInv, Told
<1>3. Told' /\ Clock' /\ Graced'
  BY <1>1, <1>2 DEF SInv, Told, Clock, Graced
<1>4. AgentsDrained'
  BY <1>1, TimersAre DEF AgentsDrained
<1>5. \A l \in Listeners : LoopOK(l)'
  BY <1>1 DEF SInv, LoopOK, TypeOK
<1> QED  BY <1>3, <1>4, <1>5 DEF SInv

LEMMA StopMain ==
    ASSUME TypeOK, SInv, Select \/ GiveGrace
    PROVE  SInv'
<1>1. CASE main.pc = "select" /\ Finished("web") /\ "agent" \in ports /\ main' = [pc |-> "grace", age |-> 0] /\ MainOnly
  <2>1. UNCHANGED <<ports, service, fired, stopping, loop, draining, scm, removal>> /\ main'.pc = "grace" /\ main'.age = 0
    BY <1>1 DEF MainOnly
  <2>2. Told' /\ Clock' /\ AgentsDrained'
    BY <1>1, <2>1 DEF SInv, Told, Clock, AgentsDrained
  <2>3. \A l \in Listeners : LoopOK(l)'
    BY <1>1, <2>1 DEF SInv, LoopOK
  <2>4. Graced'
    BY <1>1, <2>1, TimersAre DEF Graced, Finished
  <2> QED  BY <2>2, <2>3, <2>4 DEF SInv
<1>2. CASE main.pc = "select" /\ Exit /\ ("agent" \notin ports \/ Finished("agent"))
  BY <1>2, StopExit, TimersAre DEF SInv, LoopOK, Finished
<1>3. CASE GiveGrace
  <2>1. Exit /\ main.pc = "grace" /\ (Finished("agent") \/ main.age >= Grace)
    BY <1>3 DEF GiveGrace, GraceOver
  <2>2. loop["agent"] = "drain" => loop["web"] = "failed"
    BY <2>1, TimersAre DEF SInv, Graced, Finished
  <2> QED  BY <2>1, <2>2, StopExit
<1> QED  BY <1>1, <1>2, <1>3 DEF Select

\* After the signal a tick finds every listener draining, or done.
LEMMA StopTick ==
    ASSUME TypeOK, SInv, Tick
    PROVE  SInv'
<1>1. /\ UNCHANGED <<ports, service, fired, loop, scm, removal>>
      /\ stopping' = (IF fired THEN More(stopping, WaitHint) ELSE stopping)
      /\ \A l \in Listeners : draining'[l] = IF loop[l] = "drain" THEN More(draining[l], DrainTimeout) ELSE draining[l]
      /\ main' = [main EXCEPT !.age = IF main.pc = "grace" THEN More(main.age, Grace) ELSE main.age]
      /\ ~Due /\ (fired => ~Working)
  BY DEF Tick, Waiting
<1>2. main'.pc = main.pc /\ main'.age = IF main.pc = "grace" THEN More(main.age, Grace) ELSE main.age
  BY <1>1 DEF TypeOK
<1>3. \A l \in ports : loop[l] = "drain" => ~DrainOver(l) /\ draining[l] < DrainTimeout
                         /\ draining'[l] = draining[l] + 1
  BY <1>1, TimersAre DEF Due, DrainOver, More
<1>4. stopping' \in {stopping, stopping + 1} /\ (~fired => stopping' = stopping)
  BY <1>1, MoreOne, TimersAre DEF TypeOK
<1>5. fired => main.pc # "setup" /\ \A l \in ports : loop[l] \notin {"bind", "acquire", "accept"}
  BY <1>1 DEF Due, StopSeen, Working
<1>6. main.pc \in {"select", "grace"} /\ fired => \E l \in ports : loop[l] = "drain"
  <2> SUFFICES ASSUME main.pc \in {"select", "grace"}, fired PROVE \E l \in ports : loop[l] = "drain"
    OBVIOUS
  <2>1. PICK l \in ports : ~Finished(l)
    BY <1>1, TimersAre DEF Due, SInv, Graced, GraceOver
  <2>2. loop[l] \notin {"none", "bind", "acquire", "accept", "cut"}
    BY <1>5, TimersAre DEF SInv, LoopOK
  <2>3. loop[l] \in {"none", "bind", "acquire", "accept", "drain", "stopped", "failed", "cut"}
    BY TimersAre DEF TypeOK
  <2> QED  BY <2>1, <2>2, <2>3 DEF Finished
<1>7. \A l \in Listeners : LoopOK(l)'
  <2> SUFFICES ASSUME NEW l \in Listeners PROVE LoopOK(l)'
    OBVIOUS
  <2>1. LoopOK(l)
    BY DEF SInv
  <2>2. loop[l] \in {"bind", "acquire", "accept"} => stopping' = stopping
    BY <1>4, <1>5, <2>1 DEF LoopOK
  <2>3. loop[l] = "drain" => stopping' <= draining'[l]
    BY <1>3, <1>4, <2>1, TimersAre DEF LoopOK
  <2> QED  BY <1>1, <1>2, <2>1, <2>2, <2>3 DEF LoopOK
<1>8. Clock'
  <2>1. ~fired \/ main.pc = "setup" => stopping' = 0
    BY <1>4, <1>5 DEF SInv, Clock
  <2>2. main.pc # "exited" => stopping' <= DrainTimeout
    <3> SUFFICES ASSUME main.pc # "exited", fired PROVE stopping' <= DrainTimeout
      BY <1>4 DEF SInv, Clock
    <3>1. main.pc \in {"select", "grace"}
      BY <1>5 DEF TypeOK
    <3>2. PICK l \in ports : loop[l] = "drain"
      BY <1>6, <3>1
    <3>3. stopping <= draining[l] /\ draining[l] < DrainTimeout
      BY <1>3, <3>2, TimersAre DEF SInv, LoopOK
    <3> QED  BY <1>4, <3>3, TimersAre
  <2>3. main.pc = "exited" => scm \notin {"running", "stop_pending"}
    BY <1>1 DEF Due
  <2> QED  BY <1>1, <1>2, <2>1, <2>2, <2>3 DEF Clock
<1>9. Graced'
  <2> SUFFICES ASSUME main.pc = "grace" PROVE Graced'
    BY <1>2 DEF Graced
  <2>1. Finished("web") /\ "agent" \in ports
    BY DEF SInv, Graced
  <2>2. ASSUME loop["web"] = "stopped"
        PROVE  /\ loop["agent"] = "drain" => main'.age <= draining'["agent"]
               /\ loop["agent"] \notin {"bind", "acquire", "accept"}
    <3>1. fired
      BY <2>2, TimersAre DEF SInv, LoopOK
    <3>2. loop["agent"] \notin {"bind", "acquire", "accept"}
      BY <1>5, <2>1, <3>1
    <3>3. main'.age \in {main.age, main.age + 1}
      BY <1>2, MoreOne, TimersAre DEF TypeOK
    <3>4. loop["agent"] = "drain" => main.age <= draining["agent"] /\ draining'["agent"] = draining["agent"] + 1
      BY <1>3, <2>1, <2>2 DEF SInv, Graced
    <3> QED  BY <3>2, <3>3, <3>4, TimersAre
  <2> QED  BY <1>1, <2>1, <2>2 DEF Graced, Finished
<1> QED  BY <1>1, <1>2, <1>7, <1>8, <1>9 DEF SInv, Told, AgentsDrained

LEMMA StopNext ==
    ASSUME IInv, Idle, SInv, [Next]_vars
    PROVE  SInv'
<1>0. TypeOK
  BY DEF IInv
<1>1. CASE Fire \/ Uninstall \/ ReportRunning \/ ReportStopped \/ WaitForStop
  BY <1>0, <1>1, StopSignal
<1>2. CASE StartUp
  BY <1>0, <1>2, StopStart
<1>3. CASE Select \/ GiveGrace
  BY <1>0, <1>3, StopMain
<1>4. CASE Tick
  BY <1>0, <1>4, StopTick
<1>5. CASE \E l \in ports : Bind(l) \/ Acquire(l) \/ StopLoop(l) \/ Drained(l) \/ Accept(l) \/ AcceptFails(l)
  BY <1>0, <1>5, StopLoops
<1>6. CASE \E c \in Clients : Peer(c) \/ Respond(c) \/ TimeOut(c)
  BY <1>6, StopStill DEF Peer, Connect, Leave, Hello, Handshake, Challenge, Request, Respond, TimeOut, Close, ConnOnly
<1>7. CASE UNCHANGED vars
  BY <1>7, StopStill DEF vars
<1> QED  BY <1>1, <1>2, <1>3, <1>4, <1>5, <1>6, <1>7 DEF Next, Urgent, Busy

\* How the stop, the drains and main's wait run side by side: whatever counts ticks since
\* the signal counts no more of them than a drain that is going on.
THEOREM StopInvariance == Spec => []SInv
BY StopInit, StopNext, Inductive, PTL DEF Spec

\* main.rs: the process does not end under an agent's request because the web listener had
\* nothing in flight; the agents' drain is cut short only if the web listener failed.
THEOREM AgentsAreDrained == Spec => []AgentsDrained
<1>1. SInv => AgentsDrained
  BY DEF SInv
<1> QED  BY <1>1, StopInvariance, PTL

\* shutdown.rs: the process ends before anyone who waits for it gives up, for any drain
\* shorter than main's grace and the service's wait hint.
THEOREM StopsBeforeTheHint == Spec => []StopsInTime
<1>1. IInv /\ SInv => StopsInTime
  BY TimersAre DEF IInv, SInv, Told, Clock, StopsInTime
<1> QED  BY <1>1, StopInvariance, Inductive, PTL
===============================================================================
