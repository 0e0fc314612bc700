------------------------------- MODULE Listeners -------------------------------
(***************************************************************************)
(* Connections, their limits and the stop: the accept loops of the shared  *)
(* port and of the agents' own (server/src/transport/mux.rs, mtls.rs,      *)
(* conn.rs), the shutdown signal (runtime/shutdown.rs), run_until_stopped  *)
(* in main.rs and the Windows service around it (service.rs).              *)
(*                                                                         *)
(* Time is counted in ticks; no tick passes while a timer that has run out *)
(* or a step of the stop waits to be seen.                                 *)
(* Requests take the time they take.  The plain-HTTP development listener  *)
(* and the start, which has no bound, are left out: the start is one step. *)
(***************************************************************************)
EXTENDS Naturals, Sequences, FiniteSets

CONSTANTS
    Clients,           \* peers, each with one connection at a time
    Capacity,          \* MAX_CONNECTIONS
    HandshakeTimeout,  \* HANDSHAKE_TIMEOUT
    HeaderTimeout,     \* HEADER_READ_TIMEOUT
    DrainTimeout,      \* DRAIN_TIMEOUT
    Grace,             \* how long main waits for the agent listener
    WaitHint,          \* STOP_WAIT_HINT; TimeoutStopSec is longer
    MaxRequests,       \* bound: requests a peer makes on one connection
    None

ASSUME TimesAssumption ==
    /\ {Capacity, HandshakeTimeout, HeaderTimeout, DrainTimeout} \subseteq Nat \ {0}
    /\ {Grace, WaitHint, MaxRequests} \subseteq Nat
    /\ DrainTimeout < Grace /\ DrainTimeout < WaitHint

ASSUME NoneAssumption == None \notin Clients

VARIABLES
    ports,    \* the listeners of this deployment
    service,  \* it runs under the service control manager
    fired,    \* the shutdown signal
    stopping, \* ticks since the listeners could see it
    loop,     \* where each listener is
    sem,      \* permits its ConnLimit has left
    queue,    \* its kernel backlog
    draining, \* ticks since it began to drain
    conns,    \* the peers' connections
    main,     \* run_until_stopped
    scm,      \* what the service manager was told
    removal   \* --service-uninstall, in another process

vars == <<ports, service, fired, stopping, loop, sem, queue, draining, conns, main, scm, removal>>

Listeners == {"web", "agent"}
Away      == [at |-> "away", on |-> None, age |-> 0, left |-> 0]
Timeouts  == {HandshakeTimeout, HeaderTimeout}
Longest   == CHOOSE t \in Timeouts : \A x \in Timeouts : x <= t

TypeOK ==
    /\ ports \in {{"web"}, Listeners}
    /\ service \in BOOLEAN /\ fired \in BOOLEAN
    /\ stopping \in 0 .. WaitHint
    /\ loop \in [Listeners -> {"none", "bind", "acquire", "accept", "drain", "stopped", "failed", "cut"}]
    /\ sem \in [Listeners -> 0 .. Capacity]
    /\ queue \in [Listeners -> Seq(Clients)]
    /\ draining \in [Listeners -> 0 .. DrainTimeout]
    /\ conns \in [Clients -> [at : {"away", "backlog", "hello", "handshake", "head", "handler"},
                              on : Listeners \cup {None}, age : 0 .. Longest, left : 0 .. MaxRequests]]
    /\ main \in [pc : {"setup", "select", "grace", "exited"}, age : 0 .. Grace]
    /\ scm \in {"none", "start", "running", "stop_pending", "stopped"}
    /\ removal \in {"no", "wait", "deleted", "bailed"}

Init ==
    /\ ports \in {{"web"}, Listeners}
    /\ service \in BOOLEAN
    /\ fired = FALSE /\ stopping = 0
    /\ loop = [l \in Listeners |-> "none"]
    /\ sem = [l \in Listeners |-> Capacity]
    /\ queue = [l \in Listeners |-> <<>>]
    /\ draining = [l \in Listeners |-> 0]
    /\ conns = [c \in Clients |-> Away]
    /\ main = [pc |-> "setup", age |-> 0]
    /\ scm = IF service THEN "start" ELSE "none"
    /\ removal = "no"
-------------------------------------------------------------------------------
(* The stop, and the service manager.                                      *)

\* The control handler: StopPending is told and the trigger fires.
FireControl ==
    /\ scm = "running"
    /\ scm' = "stop_pending"
    /\ fired' = TRUE

\* SIGTERM or Ctrl-C, or a stop from the service manager, which sends none before
\* Running was reported or after StopPending was.
Fire ==
    /\ main.pc # "exited"
    /\ \/ ~service /\ ~fired /\ fired' = TRUE /\ UNCHANGED scm
       \/ FireControl
    /\ UNCHANGED <<ports, service, stopping, loop, sem, queue, draining, conns, main, removal>>

ReportRunning ==
    /\ scm = "start"
    /\ scm' = "running"
    /\ UNCHANGED <<ports, service, fired, stopping, loop, sem, queue, draining, conns, main, removal>>

\* However the server ended.
ReportStopped ==
    /\ main.pc = "exited" /\ scm \in {"running", "stop_pending"}
    /\ scm' = "stopped"
    /\ UNCHANGED <<ports, service, fired, stopping, loop, sem, queue, draining, conns, main, removal>>

\* uninstall: stops the service if it runs.
Uninstall ==
    /\ removal = "no" /\ service
    /\ \/ FireControl /\ main.pc # "exited" /\ removal' = "wait"
       \/ scm \in {"stop_pending", "stopped"} /\ removal' = "deleted" /\ UNCHANGED <<scm, fired>>
    /\ UNCHANGED <<ports, service, stopping, loop, sem, queue, draining, conns, main>>

\* wait_for_stop
WaitForStop ==
    /\ removal = "wait"
    /\ \/ scm = "stopped" /\ removal' = "deleted"
       \/ scm # "stopped" /\ stopping >= WaitHint /\ removal' = "bailed"
    /\ UNCHANGED <<ports, service, fired, stopping, loop, sem, queue, draining, conns, main, scm>>

\* The start is over: the agent listener is spawned and the web listener run.
StartUp ==
    /\ main.pc = "setup" /\ scm # "start"
    /\ main' = [pc |-> "select", age |-> 0]
    /\ loop' = [l \in Listeners |-> IF l \in ports THEN "bind" ELSE "none"]
    /\ UNCHANGED <<ports, service, fired, stopping, sem, queue, draining, conns, scm, removal>>
-------------------------------------------------------------------------------
(* A listener.                                                             *)

LoopOnly == UNCHANGED <<ports, service, fired, stopping, conns, main, scm, removal>>

\* The address may be taken.
Bind(l) ==
    /\ loop[l] = "bind"
    /\ \E to \in {"acquire", "failed"} : loop' = [loop EXCEPT ![l] = to]
    /\ LoopOnly /\ UNCHANGED <<sem, queue, draining>>

\* As if the selects were biased to their other branch.
StopSeenIdle(l) == fired /\ IF loop[l] = "accept" THEN queue[l] = <<>> ELSE sem[l] = 0

\* wait resolves at once if the signal has fired already.
StopSeen(l) == fired

Acquire(l) ==
    /\ loop[l] = "acquire" /\ sem[l] > 0
    /\ loop' = [loop EXCEPT ![l] = "accept"]
    /\ sem' = [sem EXCEPT ![l] = @ - 1]
    /\ LoopOnly /\ UNCHANGED <<queue, draining>>

\* As if the loop went round with the permit.
AcceptFailsKeeping(l) ==
    /\ loop[l] = "accept" /\ queue[l] # <<>>
    /\ loop' = [loop EXCEPT ![l] = "acquire"]
    /\ queue' = [queue EXCEPT ![l] = Tail(@)]
    /\ conns' = [conns EXCEPT ![Head(queue[l])] = Away]
    /\ UNCHANGED <<ports, service, fired, stopping, sem, draining, main, scm, removal>>

\* accept reports an error, of a peer that is gone: the permit is dropped.
AcceptFails(l) ==
    /\ loop[l] = "accept" /\ queue[l] # <<>>
    /\ loop' = [loop EXCEPT ![l] = "acquire"]
    /\ sem' = [sem EXCEPT ![l] = @ + 1]
    /\ queue' = [queue EXCEPT ![l] = Tail(@)]
    /\ conns' = [conns EXCEPT ![Head(queue[l])] = Away]
    /\ UNCHANGED <<ports, service, fired, stopping, draining, main, scm, removal>>

\* The connection is a task of its own, with the permit and one deadline for the
\* ClientHello and the handshake.
Accept(l) ==
    /\ loop[l] = "accept" /\ queue[l] # <<>>
    /\ loop' = [loop EXCEPT ![l] = "acquire"]
    /\ queue' = [queue EXCEPT ![l] = Tail(@)]
    /\ conns' = [conns EXCEPT ![Head(queue[l])] =
                   [at |-> IF l = "web" THEN "hello" ELSE "handshake", on |-> l, age |-> 0,
                    left |-> MaxRequests]]
    /\ UNCHANGED <<ports, service, fired, stopping, sem, draining, main, scm, removal>>

\* Either select, whichever of its branches could also go on.
StopLoop(l) ==
    /\ loop[l] \in {"acquire", "accept"}
    /\ StopSeen(l)
    /\ loop' = [loop EXCEPT ![l] = "drain"]
    /\ sem' = [sem EXCEPT ![l] = IF loop[l] = "accept" THEN @ + 1 ELSE @]
    /\ LoopOnly /\ UNCHANGED <<queue, draining>>

\* As if the drain waited for the last connection, however long.
DrainOverAlone(l) == sem[l] = Capacity

\* drain: every permit is back, or the time is over.
DrainOver(l) == sem[l] = Capacity \/ draining[l] >= DrainTimeout

Drained(l) ==
    /\ loop[l] = "drain" /\ DrainOver(l)
    /\ loop' = [loop EXCEPT ![l] = "stopped"]
    /\ LoopOnly /\ UNCHANGED <<sem, queue, draining>>
-------------------------------------------------------------------------------
(* A connection.                                                           *)

ConnOnly == UNCHANGED <<ports, service, fired, stopping, loop, draining, main, scm, removal>>

Connect(c, l) ==
    /\ conns[c].at = "away"
    /\ loop[l] \in {"acquire", "accept"}
    /\ conns' = [conns EXCEPT ![c] = [at |-> "backlog", on |-> l, age |-> 0, left |-> 0]]
    /\ queue' = [queue EXCEPT ![l] = Append(@, c)]
    /\ ConnOnly /\ UNCHANGED sem

\* The task ends and drops its permit.
Close(c) ==
    /\ conns' = [conns EXCEPT ![c] = Away]
    /\ sem' = [sem EXCEPT ![conns[c].on] = @ + 1]
    /\ ConnOnly /\ UNCHANGED queue

Serving(c) == conns[c].at \in {"hello", "handshake", "head", "handler"}

\* The peer closes, or sends what ends the connection: no ClientHello, acme-tls/1 on a
\* port without it, a certificate that is not taken.  A handler that runs is dropped.
Leave(c) == Serving(c) /\ Close(c)

\* classify has read the ClientHello; the deadline stays.
Hello(c) ==
    /\ conns[c].at = "hello"
    /\ conns' = [conns EXCEPT ![c].at = "handshake"]
    /\ ConnOnly /\ UNCHANGED <<sem, queue>>

\* The challenge is answered by the handshake alone; the others are served.
Handshake(c) ==
    /\ conns[c].at = "handshake"
    /\ conns' = [conns EXCEPT ![c] = [@ EXCEPT !.at = "head", !.age = 0]]
    /\ ConnOnly /\ UNCHANGED <<sem, queue>>

Challenge(c) == conns[c].at = "handshake" /\ conns[c].on = "web" /\ Close(c)

Request(c) ==
    /\ conns[c].at = "head" /\ conns[c].left > 0
    /\ conns' = [conns EXCEPT ![c] = [@ EXCEPT !.at = "handler", !.age = 0, !.left = conns[c].left - 1]]
    /\ ConnOnly /\ UNCHANGED <<sem, queue>>

\* The answer is sent, and the connection waits for the next request.
Respond(c) ==
    /\ conns[c].at = "handler"
    /\ conns' = [conns EXCEPT ![c] = [@ EXCEPT !.at = "head", !.age = 0]]
    /\ ConnOnly /\ UNCHANGED <<sem, queue>>

\* As if the builder were given no timer.
TimedOutHandshakeOnly(c) == conns[c].at \in {"hello", "handshake"} /\ conns[c].age >= HandshakeTimeout

\* timeout_at, and the header_read_timeout of http_builder.
TimedOut(c) ==
    \/ conns[c].at \in {"hello", "handshake"} /\ conns[c].age >= HandshakeTimeout
    \/ conns[c].at = "head" /\ conns[c].age >= HeaderTimeout

TimeOut(c) == TimedOut(c) /\ Close(c)
-------------------------------------------------------------------------------
(* run_until_stopped                                                       *)

Finished(l) == loop[l] \in {"stopped", "failed"}

\* The process ends and everything in it: a listener that was draining is cut short.
Exit ==
    /\ main' = [pc |-> "exited", age |-> 0]
    /\ loop' = [l \in Listeners |-> IF loop[l] \in {"none", "stopped", "failed"} THEN loop[l]
                                    ELSE IF loop[l] = "drain" THEN "cut" ELSE "stopped"]
    /\ sem' = [l \in Listeners |-> Capacity]
    /\ queue' = [l \in Listeners |-> <<>>]
    /\ conns' = [c \in Clients |-> Away]
    /\ UNCHANGED <<ports, service, fired, stopping, draining, scm, removal>>

MainOnly == UNCHANGED <<ports, service, fired, stopping, loop, sem, queue, draining, conns, scm, removal>>

\* The select: the web listener is done, or the agent listener is and the web
\* listener's future is dropped.
Select ==
    /\ main.pc = "select"
    /\ \/ Finished("web") /\ "agent" \notin ports /\ Exit
       \/ Finished("web") /\ "agent" \in ports /\ main' = [pc |-> "grace", age |-> 0] /\ MainOnly
       \/ Finished("agent") /\ Exit

\* As if nobody waited for the agent listener.
GraceOverAtOnce == TRUE

\* The agent listener gets its time.
GraceOver == Finished("agent") \/ main.age >= Grace

GiveGrace == main.pc = "grace" /\ GraceOver /\ Exit
-------------------------------------------------------------------------------
\* What does not wait for a tick: a timer that has run out, and the steps of the stop.
Urgent ==
    \/ ReportStopped \/ WaitForStop \/ Select \/ GiveGrace
    \/ \E l \in ports : StopLoop(l) \/ Drained(l)
    \/ \E c \in Clients : TimeOut(c)

\* What the process does besides, as soon as it can.
Busy ==
    \/ ReportRunning \/ StartUp
    \/ \E l \in ports : Bind(l) \/ Acquire(l) \/ Accept(l) \/ AcceptFails(l)

More(n, max) == IF n < max THEN n + 1 ELSE max

\* There is an urgent step.
Due ==
    \/ main.pc = "exited" /\ scm \in {"running", "stop_pending"}
    \/ removal = "wait" /\ (scm = "stopped" \/ stopping >= WaitHint)
    \/ main.pc = "select" /\ \E l \in ports : Finished(l)
    \/ main.pc = "grace" /\ GraceOver
    \/ \E l \in ports : \/ loop[l] \in {"acquire", "accept"} /\ StopSeen(l)
                        \/ loop[l] = "drain" /\ DrainOver(l)
    \/ \E c \in Clients : TimedOut(c)

\* There is a busy step.
Working ==
    \/ scm = "start" \/ main.pc = "setup"
    \/ \E l \in ports : \/ loop[l] = "bind"
                        \/ loop[l] = "acquire" /\ sem[l] > 0
                        \/ loop[l] = "accept" /\ queue[l] # <<>>

Waiting == ~Due /\ (fired => ~Working)

Tick ==
    /\ Waiting
    /\ stopping' = IF fired THEN More(stopping, WaitHint) ELSE stopping
    /\ draining' = [l \in Listeners |-> IF loop[l] = "drain" THEN More(draining[l], DrainTimeout) ELSE draining[l]]
    /\ conns' = [c \in Clients |-> IF conns[c].at \in {"hello", "handshake", "head"}
                                   THEN [conns[c] EXCEPT !.age = More(@, Longest)] ELSE conns[c]]
    /\ main' = [main EXCEPT !.age = IF main.pc = "grace" THEN More(@, Grace) ELSE @]
    /\ <<stopping, draining, conns, main>>' # <<stopping, draining, conns, main>>
    /\ UNCHANGED <<ports, service, fired, loop, sem, queue, scm, removal>>

Peer(c) ==
    \/ \E l \in ports : Connect(c, l)
    \/ Leave(c) \/ Hello(c) \/ Handshake(c) \/ Challenge(c) \/ Request(c)

Next ==
    \/ Fire \/ Uninstall \/ Urgent \/ Busy \/ Tick
    \/ \E c \in Clients : Peer(c) \/ Respond(c)

Spec == Init /\ [][Next]_vars

\* Time passes whatever peers do in between (strong fairness: a tick waits while the
\* process is busy), what the process has to do it does, and requests end; what peers do
\* is left to them.
FairSpec ==
    /\ Spec
    /\ SF_vars(Tick)
    /\ WF_vars(ReportRunning \/ ReportStopped \/ StartUp \/ Select \/ GiveGrace)
    /\ WF_vars(WaitForStop)
    /\ \A l \in Listeners : WF_vars(Bind(l) \/ Acquire(l) \/ Accept(l) \/ Drained(l)) /\ WF_vars(StopLoop(l))
    /\ \A c \in Clients : WF_vars(TimeOut(c)) /\ WF_vars(Respond(c))
-------------------------------------------------------------------------------
\* conn.rs: every permit is in the semaphore, with the loop that will accept next, or
\* with a connection, for the connection's whole life; so the drain can tell that all
\* connections ended.
Served(l)   == {c \in Clients : Serving(c) /\ conns[c].on = l}
PermitsKept ==
    \A l \in Listeners :
        sem[l] + (IF loop[l] = "accept" THEN 1 ELSE 0) + Cardinality(Served(l)) = Capacity

\* main.rs: "a stop does not cut short an agent's renewal just because the operator UI
\* had nothing in flight": the agent listener drains to its own deadline, unless the
\* web listener failed.
AgentsDrained == loop["agent"] = "cut" => loop["web"] = "failed"

\* The same of both listeners, as main.rs says it: "Whichever finishes first, the other
\* is given until its own drain deadline to finish too".
BothDrained == \A l \in Listeners : loop[l] = "cut" => \E x \in Listeners : loop[x] = "failed"

\* shutdown.rs, DRAIN_TIMEOUT: "the process is always the one that decides to exit rather
\* than the one that got killed for taking too long"; and uninstalling never gives up
\* on a stop it asked for.
StopsInTime == removal # "bailed" /\ (stopping >= WaitHint => main.pc = "exited")

\* conn.rs: peers that open connections and say nothing do not keep others out; whoever
\* connects has its turn, unless the server stops first.
NewcomersServed ==
    \A c \in Clients : conns[c].at = "backlog" ~> (conns[c].at # "backlog" \/ fired \/ main.pc = "exited")

\* A stop ends the process, also one asked for before the listeners were up, and the
\* service manager is told.
StopEnds == fired ~> (main.pc = "exited" /\ (service => scm = "stopped"))
===============================================================================
