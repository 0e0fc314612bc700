------------------------------ MODULE FactsProofs ------------------------------
(***************************************************************************)
(* Proofs about Facts, for any hosts, documents, requests and faults: the  *)
(* compare-and-set of the store and the retries around it implement the    *)
(* log of whole replacements that FactsLog promises; the state has its     *)
(* types; no agent's facts are cleared before it ran empty for the grace;  *)
(* and the catalogue an operator reads shows what operators stored.        *)
(***************************************************************************)
EXTENDS Facts, SequenceTheorems, TLAPS

Fields == {"op", "pc", "host", "src", "doc", "seen", "told", "age", "prev", "tries", "todo",
           "present", "prune", "changed", "srcs", "cat", "since", "due", "mark"}

Working == {"rows", "get", "replace", "stored"}
ConsolePhases == {"rows", "holding", "remove", "finish"}

\* A request that is on its way to the store names a host, a source and a document.
Good(q) ==
    /\ DOMAIN q = Fields
    /\ q.op \in {"poll", "upload"} => q.host \in Hosts /\ q.src = "agent" /\ q.pc \notin ConsolePhases
    /\ q.op = "upload" => q.doc \in Docs
    /\ q.op \notin {"poll", "upload"} /\ q.pc \in Working => q.src = "import" /\ q.todo \subseteq Hosts \X Docs
    /\ q.pc \in {"get", "replace"} => q.host \in Hosts /\ q.doc \in Docs

\* An agent uploads what it sent, which was a document.
Waits(a) ==
    /\ DOMAIN a = {"doc", "sent", "no", "pc", "slot"}
    /\ a.doc \in Maybe /\ a.sent \in Maybe
    /\ a.pc = "due" => a.sent \in Docs

RInv == DOMAIN reqs = Slots /\ \A r \in Slots : Good(reqs[r])
AInv == DOMAIN agent = Hosts /\ \A h \in Hosts : Waits(agent[h])
IInv == RInv /\ AInv /\ hosts \subseteq Hosts

LEMMA IdleGood == DOMAIN IdleReq = Fields /\ Good(IdleReq) /\ IdleReq.src = "agent"
<1>1. DOMAIN IdleReq = Fields
  BY DEF IdleReq, Fields
<1>2. IdleReq.op = "none" /\ IdleReq.pc = "idle" /\ IdleReq.src = "agent"
  BY DEF IdleReq
<1> QED BY <1>1, <1>2 DEF Good, Working

\* Nothing but the phase and what Good does not mention changes.
LEMMA KeepsGood ==
    ASSUME NEW q, NEW n, Good(q), DOMAIN n = Fields,
           n.op = q.op, n.host = q.host, n.src = q.src, n.doc = q.doc, n.todo = q.todo,
           n.pc = q.pc \/ n.pc \notin Working \cup ConsolePhases
    PROVE  Good(n)
BY DEF Good, Working

LEMMA GotoStep ==
    ASSUME RInv, NEW r \in Slots, NEW n, Good(n), reqs' = [reqs EXCEPT ![r] = n]
    PROVE  RInv'
BY DEF RInv

\* The other requests change where Good does not look.
LEMMA OthersStep ==
    ASSUME RInv, NEW r \in Slots, NEW n, Good(n), DOMAIN reqs' = Slots, reqs'[r] = n,
           \A x \in Slots \ {r} : \E v : \/ reqs'[x] = [reqs[x] EXCEPT !.due = v]
                                       \/ reqs'[x] = [reqs[x] EXCEPT !.since = v]
    PROVE  RInv'
<1> SUFFICES ASSUME NEW x \in Slots PROVE Good(reqs'[x])
  BY DEF RInv
<1>1. CASE x = r
  BY <1>1
<1>2. CASE x # r
  <2>0. PICK v : reqs'[x] = [reqs[x] EXCEPT !.due = v] \/ reqs'[x] = [reqs[x] EXCEPT !.since = v]
    BY <1>2
  <2>1. Good(reqs[x]) /\ DOMAIN reqs[x] = Fields
    BY DEF RInv, Good
  <2>2. CASE reqs'[x] = [reqs[x] EXCEPT !.due = v]
    <3>1. /\ DOMAIN reqs'[x] = Fields /\ reqs'[x].op = reqs[x].op /\ reqs'[x].host = reqs[x].host
          /\ reqs'[x].src = reqs[x].src /\ reqs'[x].doc = reqs[x].doc /\ reqs'[x].todo = reqs[x].todo
          /\ reqs'[x].pc = reqs[x].pc
      BY <2>1, <2>2 DEF Fields
    <3> QED BY <2>1, <3>1, KeepsGood
  <2>3. CASE reqs'[x] = [reqs[x] EXCEPT !.since = v]
    <3>1. /\ DOMAIN reqs'[x] = Fields /\ reqs'[x].op = reqs[x].op /\ reqs'[x].host = reqs[x].host
          /\ reqs'[x].src = reqs[x].src /\ reqs'[x].doc = reqs[x].doc /\ reqs'[x].todo = reqs[x].todo
          /\ reqs'[x].pc = reqs[x].pc
      BY <2>1, <2>3 DEF Fields
    <3> QED BY <2>1, <3>1, KeepsGood
  <2> QED BY <2>0, <2>2, <2>3
<1> QED BY <1>1, <1>2

LEMMA BumpStep ==
    ASSUME RInv, NEW r \in Slots, NEW n, Good(n), NEW change, Bump(change, r, n)
    PROVE  RInv'
<1>1. DOMAIN reqs' = Slots /\ reqs'[r] = n
  BY DEF Bump
<1>2. \A x \in Slots \ {r} : reqs'[x] = [reqs[x] EXCEPT !.since = Worse(reqs[x].since, change)]
  BY DEF Bump
<1> QED BY <1>1, <1>2, OthersStep

LEMMA ChangedStep ==
    ASSUME RInv, NEW r \in Slots, NEW n, Good(n), NEW cs, NEW by, Changed(cs, by, r, n)
    PROVE  RInv'
<1>1. DOMAIN reqs' = Slots /\ reqs'[r] = n
  BY DEF Changed
<1>2. \A x \in Slots \ {r} : reqs'[x] = [reqs[x] EXCEPT !.due = reqs[x].due \ cs]
  BY DEF Changed
<1> QED BY <1>1, <1>2, OthersStep

\* What the caller of store does next.
LEMMA DoneGood ==
    ASSUME NEW q, Good(q), q.pc \in {"get", "replace", "stored"}, NEW ok
    PROVE  Good(Done(q, ok)) /\ Good([Done(q, ok) EXCEPT !.changed = TRUE])
<1>1. DOMAIN q = Fields
  BY DEF Good
<1>2. ASSUME NEW n, DOMAIN n = Fields, Good(n)
      PROVE  Good([n EXCEPT !.changed = TRUE])
  BY <1>2 DEF Good, Fields
<1>3. Good(Done(q, ok))
  <2>1. CASE q.op = "poll"
    BY <1>1, <2>1 DEF Good, Done, Fields, Working, ConsolePhases
  <2>2. CASE q.op = "upload"
    BY <1>1, <2>2 DEF Good, Done, Fields, Working, ConsolePhases
  <2>3. CASE q.op \notin {"poll", "upload"}
    BY <1>1, <2>3 DEF Good, Done, Fields, Working, ConsolePhases
  <2> QED BY <2>1, <2>2, <2>3
<1> QED BY <1>2, <1>3 DEF Good

-------------------------------------------------------------------------------
\* Time, and the agents.

LEMMA TickStep ==
    ASSUME IInv, Tick
    PROVE  IInv' /\ UNCHANGED <<held, hist>>
<1>1. UNCHANGED <<hosts, held, hist, agent>>
  BY DEF Tick
<1>2. \A r \in Slots : Good(reqs'[r])
  <2> TAKE r \in Slots
  <2>1. reqs'[r] = [reqs[r] EXCEPT !.age = Older(reqs[r].age), !.mark = Older(reqs[r].mark)]
    BY DEF Tick
  <2>2. Good(reqs[r]) /\ DOMAIN reqs[r] = Fields
    BY DEF IInv, RInv, Good
  <2>3. /\ DOMAIN reqs'[r] = Fields /\ reqs'[r].op = reqs[r].op /\ reqs'[r].host = reqs[r].host
        /\ reqs'[r].src = reqs[r].src /\ reqs'[r].doc = reqs[r].doc /\ reqs'[r].todo = reqs[r].todo
        /\ reqs'[r].pc = reqs[r].pc
    BY <2>1, <2>2 DEF Fields
  <2> QED BY <2>2, <2>3, KeepsGood
<1>3. DOMAIN reqs' = Slots
  BY DEF Tick
<1> QED BY <1>1, <1>2, <1>3 DEF IInv, RInv, AInv

LEMMA AgentStep ==
    ASSUME IInv, NEW h \in Hosts, NEW a, Waits(a), agent' = [agent EXCEPT ![h] = a]
    PROVE  AInv'
BY DEF IInv, AInv

LEMMA AgentChangeStep ==
    ASSUME IInv, NEW h \in Hosts, AgentChange(h)
    PROVE  IInv' /\ UNCHANGED <<held, hist>>
<1>1. UNCHANGED <<hosts, held, hist, reqs>>
  BY DEF AgentChange
<1>2. PICK d \in Maybe : agent' = [agent EXCEPT ![h].doc = d, ![h].no = None]
  BY DEF AgentChange
<1>3. Waits(agent[h]) /\ DOMAIN agent = Hosts
  BY DEF IInv, AInv
<1>4. Waits(agent'[h]) /\ \A x \in Hosts \ {h} : agent'[x] = agent[x]
  BY <1>2, <1>3 DEF Waits
<1>5. AInv'
  BY <1>2, <1>3, <1>4 DEF IInv, AInv
<1> QED BY <1>1, <1>5 DEF IInv, RInv

LEMMA SendStep ==
    ASSUME IInv, NEW h \in Hosts, NEW r \in Slots, Poll(h, r) \/ PostFacts(h, r)
    PROVE  IInv' /\ UNCHANGED <<held, hist>>
<1>1. Waits(agent[h]) /\ DOMAIN agent = Hosts
  BY DEF IInv, AInv
<1>2. ASSUME NEW op \in {"poll", "upload"}, NEW pc \in {"poll", "upload"}, NEW d \in Maybe,
             op = "upload" => d \in Docs, Send(h, r, op, pc, d)
      PROVE  IInv' /\ UNCHANGED <<held, hist>>
  <2> DEFINE n == [IdleReq EXCEPT !.op = op, !.pc = "start", !.host = h, !.doc = d,
                                  !.mark = IF d = Empty THEN quiet[h] ELSE 0]
  <2>1. Good(n)
    <3>1. DOMAIN n = Fields /\ n.op = op /\ n.pc = "start" /\ n.host = h /\ n.doc = d /\ n.src = "agent"
      BY IdleGood DEF Fields
    <3> QED BY <1>2, <3>1 DEF Good, Working, ConsolePhases
  <2>2. reqs' = [reqs EXCEPT ![r] = n] /\ UNCHANGED <<hosts, held, hist>>
    BY <1>2 DEF Send
  <2>3. agent' = [agent EXCEPT ![h].pc = pc, ![h].sent = d, ![h].slot = r]
    BY <1>2 DEF Send
  <2> HIDE DEF n
  <2>4. Waits(agent'[h]) /\ \A x \in Hosts \ {h} : agent'[x] = agent[x]
    BY <1>1, <1>2, <2>3 DEF Waits
  <2>5. AInv'
    BY <1>1, <2>3, <2>4 DEF IInv, AInv
  <2> QED BY <2>1, <2>2, <2>5, GotoStep DEF IInv
<1>3. CASE Poll(h, r)
  BY <1>1, <1>2, <1>3 DEF Poll, Waits
<1>4. CASE PostFacts(h, r)
  BY <1>1, <1>2, <1>4 DEF PostFacts, Waits
<1> QED BY <1>3, <1>4

LEMMA GiveUpStep ==
    ASSUME IInv, NEW h \in Hosts, GiveUp(h)
    PROVE  IInv' /\ UNCHANGED <<held, hist>>
<1>1. UNCHANGED <<hosts, held, hist>>
  BY DEF GiveUp
<1>2. Waits(agent[h]) /\ DOMAIN agent = Hosts
  BY DEF IInv, AInv
<1>3. agent' = [agent EXCEPT ![h].pc = "idle", ![h].slot = None]
  BY DEF GiveUp
<1>4. Waits(agent'[h]) /\ \A x \in Hosts \ {h} : agent'[x] = agent[x]
  BY <1>2, <1>3 DEF Waits
<1>5. AInv'
  BY <1>2, <1>3, <1>4 DEF IInv, AInv
<1>6. RInv'
  <2>1. reqs' = reqs \/ reqs' = [reqs EXCEPT ![agent[h].slot] = IdleReq]
    BY DEF GiveUp
  <2> QED BY <2>1, IdleGood DEF IInv, RInv
<1> QED BY <1>1, <1>5, <1>6 DEF IInv

LEMMA AnsweredStep ==
    ASSUME IInv, NEW r \in Slots, reqs[r].op \in {"poll", "upload"}, NEW hdr, Answered(r, hdr), DocsUnchanged
    PROVE  IInv' /\ UNCHANGED <<held, hist>>
<1> DEFINE h == reqs[r].host
           a == agent[h]
           next == IF a.pc = "poll" /\ hdr \in Maybe /\ hdr # a.sent /\ a.sent \notin {None, a.no}
                   THEN "due" ELSE "idle"
           no == IF hdr = "refused" THEN reqs[r].doc ELSE a.no
<1>1. h \in Hosts /\ Waits(a) /\ DOMAIN agent = Hosts
  BY DEF IInv, RInv, AInv, Good
<1>2. RInv'
  BY IdleGood, GotoStep DEF IInv, Answered
<1>3. agent' = agent \/ agent' = [agent EXCEPT ![h] = [a EXCEPT !.pc = next, !.slot = None, !.no = no]]
  BY DEF Answered
<1>4. next = "due" => a.sent \in Docs
  BY <1>1 DEF Waits, Maybe
<1> HIDE DEF next, no
<1>5. Waits([a EXCEPT !.pc = next, !.slot = None, !.no = no])
  BY <1>1, <1>4 DEF Waits
<1> HIDE DEF a, h
<1>6. AInv'
  BY <1>1, <1>3, <1>5, AgentStep DEF IInv, AInv
<1> QED BY <1>2, <1>6 DEF IInv, DocsUnchanged

-------------------------------------------------------------------------------
\* The exchange.

\* A request goes on to a phase that is not the store's, without a change that matters here.
LEMMA PassStep ==
    ASSUME IInv, NEW r \in Slots, NEW n, reqs' = [reqs EXCEPT ![r] = n],
           DOMAIN n = Fields, n.op = reqs[r].op, n.host = reqs[r].host, n.src = reqs[r].src,
           n.doc = reqs[r].doc, n.todo = reqs[r].todo, n.pc \notin Working \cup ConsolePhases,
           UNCHANGED <<hosts, held, hist, agent>>
    PROVE  IInv' /\ UNCHANGED <<held, hist>>
<1>1. Good(n)
  BY KeepsGood DEF IInv, RInv
<1> QED BY <1>1, GotoStep DEF IInv, AInv

LEMMA PollStep ==
    ASSUME IInv, NEW r \in Slots, PollRead(r) \/ PollFails(r) \/ PollReport(r) \/ PollGrace(r) \/ PollAnswer(r)
    PROVE  IInv' /\ UNCHANGED <<held, hist>>
<1> DEFINE q == reqs[r]
<1>0. Good(q) /\ DOMAIN q = Fields
  BY DEF IInv, RInv, Good
<1>1. CASE PollFails(r) \/ PollAnswer(r)
  BY <1>1, AnsweredStep DEF PollFails, PollAnswer, Running
<1>2. CASE PollRead(r)
  <2> DEFINE p == IF told[q.host].hash = q.doc THEN "grace" ELSE IF q.doc = None THEN "clear" ELSE "report"
             n == [q EXCEPT !.seen = held[Agent(r)], !.told = told[q.host].hash = Empty,
                            !.age = told[q.host].age, !.pc = p]
  <2>1. reqs' = [reqs EXCEPT ![r] = n] /\ UNCHANGED <<hosts, held, hist, agent>>
    BY <1>2 DEF PollRead, Goto, DocsUnchanged
  <2>2. p \notin Working \cup ConsolePhases
    BY DEF Working, ConsolePhases
  <2> HIDE DEF p
  <2>3. /\ DOMAIN n = Fields /\ n.op = q.op /\ n.host = q.host /\ n.src = q.src /\ n.doc = q.doc
        /\ n.todo = q.todo /\ n.pc = p
    BY <1>0 DEF Fields
  <2> HIDE DEF n
  <2> QED BY <2>1, <2>2, <2>3, PassStep
<1>3. CASE PollReport(r)
  <2>1. PICK m : \/ reqs' = [reqs EXCEPT ![r] = [q EXCEPT !.pc = "grace", !.mark = m]]
                 \/ reqs' = [reqs EXCEPT ![r] = [q EXCEPT !.pc = "grace"]]
    BY <1>3 DEF PollReport, Goto
  <2>2. UNCHANGED <<hosts, held, hist, agent>>
    BY <1>3 DEF PollReport, DocsUnchanged
  <2>3. ASSUME NEW n, n = [q EXCEPT !.pc = "grace", !.mark = m] \/ n = [q EXCEPT !.pc = "grace"]
        PROVE  /\ DOMAIN n = Fields /\ n.op = q.op /\ n.host = q.host /\ n.src = q.src /\ n.doc = q.doc
               /\ n.todo = q.todo /\ n.pc \notin Working \cup ConsolePhases
    <3>1. n.pc = "grace" /\ "grace" \notin Working \cup ConsolePhases
      BY <1>0, <2>3 DEF Fields, Working, ConsolePhases
    <3>2. CASE n = [q EXCEPT !.pc = "grace", !.mark = m]
      BY <1>0, <3>1, <3>2 DEF Fields
    <3>3. CASE n = [q EXCEPT !.pc = "grace"]
      BY <1>0, <3>1, <3>3 DEF Fields
    <3> QED BY <2>3, <3>2, <3>3
  <2>4. PICK n : /\ n = [q EXCEPT !.pc = "grace", !.mark = m] \/ n = [q EXCEPT !.pc = "grace"]
                 /\ reqs' = [reqs EXCEPT ![r] = n]
    BY <2>1
  <2> QED BY <2>2, <2>3, <2>4, PassStep
<1>4. CASE PollGrace(r)
  <2>1. CASE \E hdr : Answered(r, hdr)
    BY <1>4, <2>1, AnsweredStep DEF PollGrace, Running
  <2>2. CASE EmptyOverInventory(q.seen, q.told, q.age, q.doc) = "due" /\ Goto(r, [q EXCEPT !.pc = "get"])
             /\ UNCHANGED <<agent, quiet>>
    <3> DEFINE n == [q EXCEPT !.pc = "get"]
    <3>1. q.doc = Empty /\ q.op = "poll"
      BY <1>4, <2>2 DEF EmptyOverInventory, PollGrace, Running
    <3>2. /\ DOMAIN n = Fields /\ n.op = q.op /\ n.host = q.host /\ n.src = q.src /\ n.doc = q.doc
          /\ n.pc = "get"
      BY <1>0 DEF Fields
    <3>3. reqs' = [reqs EXCEPT ![r] = n] /\ UNCHANGED <<hosts, held, hist, agent>>
      BY <1>4, <2>2 DEF PollGrace, Goto, DocsUnchanged
    <3> HIDE DEF n
    <3>4. Good(n)
      BY <1>0, <3>1, <3>2, DocsAssumption DEF Good, ConsolePhases
    <3> QED BY <3>3, <3>4, GotoStep DEF IInv, AInv
  <2> QED BY <1>4, <2>1, <2>2 DEF PollGrace
<1> QED BY <1>1, <1>2, <1>3, <1>4

LEMMA UploadStep ==
    ASSUME IInv, NEW r \in Slots, UploadRefuse(r) \/ UploadRead(r) \/ UploadReport(r) \/ UploadFails(r)
    PROVE  IInv' /\ UNCHANGED <<held, hist>>
<1> DEFINE q == reqs[r]
<1>0. Good(q) /\ DOMAIN q = Fields
  BY DEF IInv, RInv, Good
<1>1. CASE UploadRefuse(r) \/ UploadReport(r) \/ UploadFails(r)
  BY <1>1, AnsweredStep DEF UploadRefuse, UploadReport, UploadFails, Running
<1>2. CASE UploadRead(r)
  <2>1. PICK p \in {"report", "get"} :
          reqs' = [reqs EXCEPT ![r] = [q EXCEPT !.seen = held[Agent(r)], !.pc = p]]
    BY <1>2 DEF UploadRead, Goto
  <2> DEFINE n == [q EXCEPT !.seen = held[Agent(r)], !.pc = p]
  <2>2. UNCHANGED <<hosts, held, hist, agent>> /\ q.op = "upload"
    BY <1>2 DEF UploadRead, DocsUnchanged, Running
  <2>3. /\ DOMAIN n = Fields /\ n.op = q.op /\ n.host = q.host /\ n.src = q.src /\ n.doc = q.doc
        /\ n.pc = p
    BY <1>0 DEF Fields
  <2> HIDE DEF n
  <2>4. Good(n)
    BY <1>0, <2>2, <2>3 DEF Good, ConsolePhases
  <2>5. reqs' = [reqs EXCEPT ![r] = n]
    BY <2>1 DEF n
  <2> QED BY <2>2, <2>4, <2>5, GotoStep DEF IInv, AInv
<1> QED BY <1>1, <1>2
-------------------------------------------------------------------------------
\* The store.

LEMMA StoreStep ==
    ASSUME IInv, NEW r \in Slots, StoreGet(r) \/ StoreMisses(r) \/ Stored(r) \/ StoreFails(r)
    PROVE  IInv' /\ UNCHANGED <<held, hist>>
<1> DEFINE q == reqs[r]
<1>0. Good(q) /\ DOMAIN q = Fields
  BY DEF IInv, RInv, Good
<1>1. UNCHANGED <<hosts, held, hist, agent>>
  BY DEF StoreGet, StoreMisses, Stored, StoreFails, DocsUnchanged, ExchangeUnchanged
<1>2. q.pc \in {"get", "replace", "stored"}
  BY DEF StoreGet, StoreMisses, Stored, StoreFails
<1>3. Good(Done(q, TRUE)) /\ Good(Done(q, FALSE)) /\ Good([Done(q, TRUE) EXCEPT !.changed = TRUE])
  BY <1>0, <1>2, DoneGood
<1>4. CASE Stored(r)
  <2>1. RInv'
    BY <1>3, <1>4, BumpStep DEF IInv, Stored
  <2> QED BY <1>1, <2>1 DEF IInv, AInv
<1>5. CASE StoreGet(r)
  <2>1. ASSUME NEW y PROVE q.pc = "get" => Good([q EXCEPT !.pc = "replace", !.prev = y])
    BY <1>0 DEF Good, Fields, Working, ConsolePhases
  <2>2. PICK n : Good(n) /\ reqs' = [reqs EXCEPT ![r] = n]
    BY <1>3, <1>5, <2>1 DEF StoreGet, Goto
  <2> QED BY <1>1, <2>2, GotoStep DEF IInv, AInv
<1>6. CASE StoreMisses(r)
  <2>1. ASSUME NEW y PROVE q.pc = "replace" => Good([q EXCEPT !.pc = "get", !.tries = y])
    BY <1>0 DEF Good, Fields, Working, ConsolePhases
  <2>2. PICK n : Good(n) /\ reqs' = [reqs EXCEPT ![r] = n]
    BY <1>3, <1>6, <2>1 DEF StoreMisses, Goto
  <2> QED BY <1>1, <2>2, GotoStep DEF IInv, AInv
<1>7. CASE StoreFails(r)
  <2>1. q.op = "import" => Good([q EXCEPT !.pc = "finish"])
    BY <1>0 DEF Good, Fields, Working, ConsolePhases
  <2>2. PICK n : Good(n) /\ reqs' = [reqs EXCEPT ![r] = n]
    BY <1>3, <1>7, <2>1 DEF StoreFails, Goto
  <2> QED BY <1>1, <2>2, GotoStep DEF IInv, AInv
<1> QED BY <1>4, <1>5, <1>6, <1>7

\* The one step that writes a document writes the entry of what it replaced.
LEMMA ReplaceStep ==
    ASSUME IInv, NEW r \in Slots, StoreReplace(r)
    PROVE  IInv' /\ \E c \in Cells, d \in Docs : Log!Replace(c, d)
<1> DEFINE q == reqs[r]
           c == <<q.host, q.src>>
           n == [q EXCEPT !.pc = "stored"]
<1>0. Good(q) /\ DOMAIN q = Fields /\ q.pc = "replace"
  BY DEF IInv, RInv, Good, StoreReplace
<1>1. c \in Cells /\ q.doc \in Docs
  BY <1>0 DEF Good, Cells, Sources, Working
<1>2. Good(n)
  BY <1>0 DEF Good, Fields, Working, ConsolePhases
<1>3. RInv'
  BY <1>2, ChangedStep DEF IInv, StoreReplace
<1>4. IInv'
  BY <1>3 DEF IInv, AInv, StoreReplace, ExchangeUnchanged
<1>5. HistoryEntry(held[c], q.doc) = Log!Entry(held[c], q.doc)
  BY DEF HistoryEntry, Log!Entry
<1>6. Recorded(hist[c], Log!Entry(held[c], q.doc)) = Log!Record(hist[c], Log!Entry(held[c], q.doc))
  BY DEF Recorded, Log!Record
<1>7. Log!Replace(c, q.doc)
  <2>1. held[c] # q.doc /\ held[c] = q.prev /\ held' = [held EXCEPT ![c] = q.doc]
    BY DEF StoreReplace
  <2>2. hist' = [hist EXCEPT ![c] = Recorded(hist[c], HistoryEntry(q.prev, q.doc))]
    BY DEF StoreReplace
  <2>3. hist' = [hist EXCEPT ![c] = Log!Record(hist[c], Log!Entry(held[c], q.doc))]
    BY <1>5, <1>6, <2>1, <2>2
  <2> QED BY <2>1, <2>3 DEF Log!Replace
<1> QED BY <1>1, <1>4, <1>7

-------------------------------------------------------------------------------
\* The operator.

\* What a file matches: documents that may be imported, by host.
LEMMA MatchedIs ==
    ASSUME IInv, NEW file \in Files
    PROVE  Matched(file) \subseteq Hosts \X Docs
<1> DEFINE Rows == [keys : SUBSET SUBSET Hosts, skip : BOOLEAN, doc : Imported]
<1>1. file \in Seq(Rows)
  BY FilesAssumption
<1>2. \A i \in DOMAIN file : file[i].doc \in Docs /\ Lookup(file[i]) \subseteq Hosts
  <2> TAKE i \in DOMAIN file
  <2> HIDE DEF Rows
  <2>1. file[i] \in Rows
    BY <1>1
  <2> USE DEF Rows
  <2> QED BY <2>1 DEF Imported, Lookup, IInv
<1> QED BY <1>2 DEF Matched

LEMMA AskStep ==
    ASSUME IInv, NEW r \in Slots, NEW n, Good(n), Ask(r, n)
    PROVE  IInv' /\ UNCHANGED <<held, hist>>
BY GotoStep DEF Ask, Goto, DocsUnchanged, IInv, AInv

LEMMA OperatorAsks ==
    ASSUME IInv, NEW r \in Slots,
           Import(r) \/ DeleteHostSource(r) \/ DeleteSource(r) \/ DeleteHosts(r) \/ Catalog(r)
    PROVE  IInv' /\ UNCHANGED <<held, hist>>
<1>1. CASE Import(r)
  <2>1. PICK file \in Files, p \in BOOLEAN :
          Ask(r, [IdleReq EXCEPT !.op = "import", !.src = "import", !.pc = "rows", !.prune = p,
                                 !.todo = Matched(file), !.present = {row[1] : row \in Matched(file)}])
    BY <1>1 DEF Import
  <2> DEFINE n == [IdleReq EXCEPT !.op = "import", !.src = "import", !.pc = "rows", !.prune = p,
                                  !.todo = Matched(file), !.present = {row[1] : row \in Matched(file)}]
  <2>2. DOMAIN n = Fields /\ n.op = "import" /\ n.src = "import" /\ n.pc = "rows" /\ n.todo = Matched(file)
    BY IdleGood DEF Fields
  <2>3. Good(n)
    <3> HIDE DEF n
    <3> QED BY <2>2, MatchedIs DEF Good
  <2> QED BY <2>1, <2>3, AskStep
<1>2. ASSUME NEW op \in Console, NEW S
      PROVE  Good([IdleReq EXCEPT !.op = op, !.pc = "remove", !.todo = S])
  <2> DEFINE n == [IdleReq EXCEPT !.op = op, !.pc = "remove", !.todo = S]
  <2>1. DOMAIN n = Fields /\ n.op = op /\ n.pc = "remove"
    BY IdleGood DEF Fields
  <2> HIDE DEF n
  <2>2. Good(n)
    BY <2>1 DEF Good, Console, Working
  <2> QED BY <2>2 DEF n
<1>3. CASE DeleteHostSource(r)
  BY <1>2, <1>3, AskStep DEF DeleteHostSource, Console
<1>4. CASE DeleteSource(r)
  BY <1>2, <1>4, AskStep DEF DeleteSource, Console
<1>5. CASE DeleteHosts(r)
  BY <1>2, <1>5, AskStep DEF DeleteHosts, Console
<1>6. CASE Catalog(r)
  <2> DEFINE n == [IdleReq EXCEPT !.op = "catalog", !.pc = "start", !.due = {c \in Cells : owner[c] = "operator"}]
  <2>1. DOMAIN n = Fields /\ n.op = "catalog" /\ n.pc = "start" /\ Ask(r, n)
    BY <1>6, IdleGood DEF Fields, Catalog
  <2> HIDE DEF n
  <2>2. Good(n)
    BY <2>1 DEF Good, Working
  <2> QED BY <2>1, <2>2, AskStep
<1> QED BY <1>1, <1>3, <1>4, <1>5, <1>6

LEMMA ImportStep ==
    ASSUME IInv, NEW r \in Slots,
           ImportRow(r) \/ ImportHolding(r) \/ RemoveFails(r) \/ Finish(r) \/ HangUp(r)
    PROVE  IInv' /\ UNCHANGED <<held, hist>>
<1> DEFINE q == reqs[r]
<1>0. Good(q) /\ DOMAIN q = Fields /\ Good(IdleReq)
  BY IdleGood DEF IInv, RInv, Good
<1>1. UNCHANGED <<hosts, held, hist, agent>>
  BY DEF ImportRow, ImportHolding, RemoveFails, Finish, HangUp, DocsUnchanged, ExchangeUnchanged
<1>2. CASE ImportRow(r)
  <2>1. q.pc = "rows" /\ q.op \notin {"poll", "upload"} /\ q.src = "import" /\ q.todo \subseteq Hosts \X Docs
    BY <1>0, <1>2 DEF ImportRow, Good, Working, ConsolePhases
  <2>2. ASSUME NEW row \in q.todo
        PROVE  Good([q EXCEPT !.pc = "get", !.host = row[1], !.doc = row[2], !.tries = 0, !.todo = q.todo \ {row}])
    <3> DEFINE n == [q EXCEPT !.pc = "get", !.host = row[1], !.doc = row[2], !.tries = 0, !.todo = q.todo \ {row}]
    <3>1. /\ DOMAIN n = Fields /\ n.op = q.op /\ n.src = q.src /\ n.pc = "get" /\ n.host = row[1] /\ n.doc = row[2]
          /\ n.todo = q.todo \ {row}
      BY <1>0 DEF Fields
    <3>2. row[1] \in Hosts /\ row[2] \in Docs
      BY <2>1
    <3> HIDE DEF n
    <3>3. Good(n)
      BY <2>1, <3>1, <3>2 DEF Good
    <3> QED BY <3>3 DEF n
  <2>3. ASSUME NEW p \in {"holding", "finish"} PROVE Good([q EXCEPT !.pc = p])
    BY <1>0, <2>1 DEF Good, Fields, Working
  <2>4. PICK n : Good(n) /\ reqs' = [reqs EXCEPT ![r] = n]
    <3>1. CASE \E row \in q.todo :
                 Goto(r, [q EXCEPT !.pc = "get", !.host = row[1], !.doc = row[2], !.tries = 0,
                                   !.todo = q.todo \ {row}])
      BY <2>2, <3>1 DEF Goto
    <3>2. CASE Goto(r, [q EXCEPT !.pc = IF q.prune THEN "holding" ELSE "finish"])
      BY <2>3, <3>2 DEF Goto
    <3> QED BY <1>2, <3>1, <3>2 DEF ImportRow
  <2> QED BY <1>1, <2>4, GotoStep DEF IInv, AInv
<1>3. CASE ImportHolding(r)
  <2>1. q.pc = "holding" /\ q.op \notin {"poll", "upload"}
    BY <1>0, <1>3 DEF ImportHolding, Good, ConsolePhases
  <2>2. ASSUME NEW S PROVE Good([q EXCEPT !.pc = "remove", !.todo = S]) /\ Good([q EXCEPT !.pc = "finish"])
    BY <1>0, <2>1 DEF Good, Fields, Working
  <2>3. PICK n : Good(n) /\ reqs' = [reqs EXCEPT ![r] = n]
    BY <1>3, <2>2 DEF ImportHolding, Goto
  <2> QED BY <1>1, <2>3, GotoStep DEF IInv, AInv
<1>4. CASE RemoveFails(r)
  <2>1. q.op = "import" => Good([q EXCEPT !.pc = "finish"])
    BY <1>0 DEF Good, Fields, Working, ConsolePhases
  <2>2. RInv'
    BY <1>0, <1>4, <2>1, GotoStep, ChangedStep DEF RemoveFails, Goto, IInv
  <2> QED BY <1>1, <2>2 DEF IInv, AInv
<1>5. CASE Finish(r)
  <2>1. RInv'
    BY <1>0, <1>5, GotoStep, BumpStep DEF Finish, Goto, IInv
  <2> QED BY <1>1, <2>1 DEF IInv, AInv
<1>6. CASE HangUp(r)
  BY <1>0, <1>1, <1>6, GotoStep DEF HangUp, Goto, IInv, AInv
<1> QED BY <1>2, <1>3, <1>4, <1>5, <1>6

\* Documents are deleted with their histories.
LEMMA RemoveStep ==
    ASSUME IInv, NEW r \in Slots, Remove(r)
    PROVE  IInv' /\ \E cs \in SUBSET Cells : Log!Remove(cs)
<1> DEFINE q == reqs[r]
           Of(rows) == {c \in {row[1] : row \in rows} \X (IF q.op = "delete_hosts" THEN Sources ELSE {"import"}) :
                          held[c] # None}
<1>0. Good(q) /\ DOMAIN q = Fields /\ q.pc = "remove"
  BY DEF IInv, RInv, Good, Remove
<1>1. PICK rows \in SUBSET q.todo \ {{}} :
        /\ held' = [c \in Cells |-> IF c \in Of(rows) THEN None ELSE held[c]]
        /\ hist' = [c \in Cells |-> IF c \in Of(rows) THEN <<>> ELSE hist[c]]
        /\ hosts' = IF q.op = "delete_hosts" THEN hosts \ {row[1] : row \in rows} ELSE hosts
        /\ Changed(Of(rows), r, r,
                   [q EXCEPT !.todo = q.todo \ rows,
                             !.changed = q.changed \/ Of(rows) # {} \/ hosts' # hosts])
  BY DEF Remove
<1> DEFINE cs == Of(rows) \cap Cells
<1>2. ASSUME NEW S, NEW b PROVE Good([q EXCEPT !.todo = S, !.changed = b])
  BY <1>0 DEF Good, Fields, Working
<1>3. RInv'
  BY <1>1, <1>2, ChangedStep DEF IInv
<1>4. IInv'
  <2>1. UNCHANGED agent
    BY DEF Remove, ExchangeUnchanged
  <2>2. hosts' \subseteq Hosts
    BY <1>1 DEF IInv
  <2> QED BY <1>3, <2>1, <2>2 DEF IInv, AInv
<1>5. /\ held' = [c \in Cells |-> IF c \in cs THEN None ELSE held[c]]
      /\ hist' = [c \in Cells |-> IF c \in cs THEN <<>> ELSE hist[c]]
  <2> HIDE DEF Of
  <2> QED BY <1>1
<1>6. Log!Remove(cs)
  <2> HIDE DEF cs
  <2> QED BY <1>5 DEF Log!Remove
<1> QED BY <1>4, <1>6

LEMMA CatalogStep ==
    ASSUME IInv, NEW r \in Slots,
           CatalogLookup(r) \/ CatalogSources(r) \/ CatalogRead(r) \/ CatalogKeep(r) \/ CatalogShown(r)
    PROVE  IInv' /\ UNCHANGED <<held, hist>>
<1> DEFINE q == reqs[r]
<1>0. Good(q) /\ DOMAIN q = Fields /\ Good(IdleReq)
  BY IdleGood DEF IInv, RInv, Good
<1>1. UNCHANGED <<hosts, held, hist, agent>>
  BY DEF CatalogLookup, CatalogSources, CatalogRead, CatalogKeep, CatalogShown, DocsUnchanged, ExchangeUnchanged
<1>2. ASSUME NEW S, NEW p \in {"shown", "lock", "sources", "read"}
      PROVE  /\ Good([q EXCEPT !.pc = p]) /\ Good([q EXCEPT !.pc = p, !.cat = S])
             /\ Good([q EXCEPT !.pc = p, !.since = S]) /\ Good([q EXCEPT !.pc = p, !.srcs = S])
  BY <1>0 DEF Good, Fields, Working, ConsolePhases
<1>3. ASSUME NEW S, NEW T, q.pc = "read"
      PROVE  Good([q EXCEPT !.srcs = S, !.cat = T])
  BY <1>0, <1>3 DEF Good, Fields, Working, ConsolePhases
<1>4. PICK n : Good(n) /\ reqs' = [reqs EXCEPT ![r] = n]
  <2>1. CASE CatalogLookup(r)
    BY <1>2, <2>1 DEF CatalogLookup, Goto
  <2>2. CASE CatalogSources(r)
    BY <1>2, <2>2 DEF CatalogSources, Goto
  <2>3. CASE CatalogRead(r)
    BY <1>3, <2>3 DEF CatalogRead, Goto
  <2>4. CASE CatalogKeep(r)
    BY <1>2, <2>4 DEF CatalogKeep, Goto
  <2>5. CASE CatalogShown(r)
    BY <1>0, <2>5 DEF CatalogShown, Goto
  <2> QED BY <2>1, <2>2, <2>3, <2>4, <2>5
<1> QED BY <1>1, <1>4, GotoStep DEF IInv, AInv

-------------------------------------------------------------------------------
LEMMA InitStep == Init => IInv /\ Log!Init
<1> SUFFICES ASSUME Init PROVE IInv /\ Log!Init
  OBVIOUS
<1>1. RInv
  BY IdleGood DEF Init, RInv
<1>2. AInv
  <2>1. PICK d \in Maybe : agent = [h \in Hosts |-> IdleAgent(IF h \in Reporting THEN d ELSE None)]
    BY HostsAssumption DEF Init, Maybe
  <2>2. ASSUME NEW e \in Maybe PROVE Waits(IdleAgent(e))
    BY DEF IdleAgent, Waits, Maybe
  <2>3. \A h \in Hosts : agent[h] = IdleAgent(d) \/ agent[h] = IdleAgent(None)
    BY <2>1
  <2> QED BY <2>1, <2>2, <2>3 DEF AInv, Maybe
<1>3. hosts \subseteq Hosts
  BY DEF Init
<1>4. Log!Init
  <2>1. held \in [Cells -> Docs \cup {None}]
    BY DEF Init, Imported
  <2>2. \A d : HistoryEntry(None, d) = Log!Entry(None, d)
    BY DEF HistoryEntry, Log!Entry
  <2>3. hist = [c \in Cells |-> IF held[c] = None THEN <<>> ELSE Log!Entry(None, held[c])]
    BY <2>2 DEF Init
  <2> QED BY <2>1, <2>3 DEF Log!Init
<1> QED BY <1>1, <1>2, <1>3, <1>4 DEF IInv

\* Every step is one of the log's, or leaves documents and histories alone.
LEMMA NextStep ==
    ASSUME IInv, [Next]_vars
    PROVE  IInv' /\ [Log!Next]_<<held, hist>>
<1>1. CASE Tick
  BY <1>1, TickStep
<1>2. ASSUME NEW h \in Hosts, AgentChange(h) \/ GiveUp(h)
      PROVE  IInv' /\ UNCHANGED <<held, hist>>
  BY <1>2, AgentChangeStep, GiveUpStep
<1>3. ASSUME NEW h \in Hosts, NEW r \in Slots, Poll(h, r) \/ PostFacts(h, r)
      PROVE  IInv' /\ UNCHANGED <<held, hist>>
  BY <1>3, SendStep
<1>4. ASSUME NEW r \in Slots, StoreReplace(r)
      PROVE  IInv' /\ Log!Next
  BY <1>4, ReplaceStep DEF Log!Next
<1>5. ASSUME NEW r \in Slots, Remove(r)
      PROVE  IInv' /\ Log!Next
  BY <1>5, RemoveStep DEF Log!Next
<1>6. ASSUME NEW r \in Slots,
             \/ Exchange(r) \/ StoreGet(r) \/ StoreMisses(r) \/ Stored(r)
             \/ PollFails(r) \/ StoreFails(r) \/ UploadFails(r) \/ RemoveFails(r) \/ HangUp(r)
             \/ ImportRow(r) \/ ImportHolding(r) \/ Finish(r)
             \/ CatalogLookup(r) \/ CatalogSources(r) \/ CatalogRead(r) \/ CatalogKeep(r) \/ CatalogShown(r)
             \/ Import(r) \/ DeleteHostSource(r) \/ DeleteSource(r) \/ DeleteHosts(r) \/ Catalog(r)
      PROVE  IInv' /\ UNCHANGED <<held, hist>>
  <2>1. CASE Exchange(r) \/ PollFails(r) \/ UploadFails(r)
    BY <2>1, PollStep, UploadStep DEF Exchange
  <2>2. CASE StoreGet(r) \/ StoreMisses(r) \/ Stored(r) \/ StoreFails(r)
    BY <2>2, StoreStep
  <2>3. CASE ImportRow(r) \/ ImportHolding(r) \/ RemoveFails(r) \/ Finish(r) \/ HangUp(r)
    BY <2>3, ImportStep
  <2>4. CASE CatalogLookup(r) \/ CatalogSources(r) \/ CatalogRead(r) \/ CatalogKeep(r) \/ CatalogShown(r)
    BY <2>4, CatalogStep
  <2>5. CASE Import(r) \/ DeleteHostSource(r) \/ DeleteSource(r) \/ DeleteHosts(r) \/ Catalog(r)
    BY <2>5, OperatorAsks
  <2> QED BY <1>6, <2>1, <2>2, <2>3, <2>4, <2>5
<1>7. CASE UNCHANGED vars
  BY <1>7 DEF vars, IInv, RInv, AInv
<1> QED BY <1>1, <1>2, <1>3, <1>4, <1>5, <1>6, <1>7 DEF Next, Store, Operator
-------------------------------------------------------------------------------
\* The store implements the log: replace's compare-and-set and the retries around it
\* (store.rs) make every entry of a history say what its step changed, whoever writes.
THEOREM StoreKeepsTheLog == Spec => KeepsTheLog
<1>1. Init => IInv /\ Log!Init
  BY InitStep
<1>2. IInv /\ [Next]_vars => IInv' /\ [Log!Next]_<<held, hist>>
  BY NextStep
<1> QED BY <1>1, <1>2, PTL DEF Spec, KeepsTheLog, Log!Spec
-------------------------------------------------------------------------------
(* Types.                                                                  *)

DocsTyped ==
    /\ hosts \subseteq Hosts
    /\ held \in [Cells -> Maybe]
    /\ hist \in [Cells -> Seq([from : Maybe, to : Docs])] /\ \A c \in Cells : Len(hist[c]) <= Keep
    /\ owner \in [Cells -> Slots \cup {"operator", "other"}]
AgentsTyped ==
    agent \in [Hosts -> [doc : Maybe, sent : Maybe, no : Maybe,
                         pc : {"idle", "poll", "due", "upload"}, slot : Slots \cup {None}]]
ServerTyped ==
    /\ told \in [Hosts -> [hash : Maybe, age : Ages]]
    /\ refused \in [Hosts -> Maybe]
    /\ quiet \in [Hosts -> Ages]
RestTyped ==
    /\ built \in [is : BOOLEAN, cat : [Cells -> Maybe], since : Since]
    /\ load \in [Console \cup {"exchange"} -> Nat]
    /\ changes \in 0 .. MaxChanges /\ mishaps \in 0 .. MaxMishaps
ReqsTyped == reqs \in [Slots -> Reqs]

LEMMA TypeParts == TypeOK <=> DocsTyped /\ AgentsTyped /\ ServerTyped /\ RestTyped /\ ReqsTyped
BY DEF TypeOK, DocsTyped, AgentsTyped, ServerTyped, RestTyped, ReqsTyped

LEMMA GraceAges == Grace \in Ages /\ 0 \in Ages /\ \A a \in Ages : Older(a) \in Ages
BY BoundsAssumption DEF Ages, Older

LEMMA IdleTyped == IdleReq \in Reqs
<1>1. NoDocs \in [Cells -> Maybe]
  BY DEF NoDocs, Maybe
<1>2. 0 \in 0 .. StoreAttempts - 1
  BY BoundsAssumption
<1> QED  BY <1>1, <1>2, GraceAges DEF IdleReq, Reqs, Maybe, Pcs, Sources, Since

\* A request keeps its types when a field gets a value of its type.
LEMMA FieldsTyped ==
    ASSUME NEW q \in Reqs
    PROVE  /\ \A x \in Console \cup {"none", "poll", "upload"} : [q EXCEPT !.op = x] \in Reqs
           /\ \A x \in Pcs : [q EXCEPT !.pc = x] \in Reqs
           /\ \A x \in Hosts : [q EXCEPT !.host = x] \in Reqs
           /\ \A x \in Sources : [q EXCEPT !.src = x] \in Reqs
           /\ \A x \in Maybe : [q EXCEPT !.doc = x] \in Reqs
           /\ \A x \in Maybe : [q EXCEPT !.seen = x] \in Reqs
           /\ \A x \in BOOLEAN : [q EXCEPT !.told = x] \in Reqs
           /\ \A x \in Ages : [q EXCEPT !.age = x] \in Reqs
           /\ \A x \in Maybe : [q EXCEPT !.prev = x] \in Reqs
           /\ \A x \in 0 .. StoreAttempts - 1 : [q EXCEPT !.tries = x] \in Reqs
           /\ \A x \in SUBSET (Hosts \X Maybe) : [q EXCEPT !.todo = x] \in Reqs
           /\ \A x \in SUBSET Hosts : [q EXCEPT !.present = x] \in Reqs
           /\ \A x \in BOOLEAN : [q EXCEPT !.prune = x] \in Reqs
           /\ \A x \in BOOLEAN : [q EXCEPT !.changed = x] \in Reqs
           /\ \A x \in SUBSET Sources : [q EXCEPT !.srcs = x] \in Reqs
           /\ \A x \in [Cells -> Maybe] : [q EXCEPT !.cat = x] \in Reqs
           /\ \A x \in Since : [q EXCEPT !.since = x] \in Reqs
           /\ \A x \in SUBSET Cells : [q EXCEPT !.due = x] \in Reqs
           /\ \A x \in Ages : [q EXCEPT !.mark = x] \in Reqs
<1>1. ASSUME NEW x \in Console \cup {"none", "poll", "upload"} PROVE [q EXCEPT !.op = x] \in Reqs
  BY DEF Reqs
<1>2. ASSUME NEW x \in Pcs PROVE [q EXCEPT !.pc = x] \in Reqs
  BY DEF Reqs
<1>3. ASSUME NEW x \in Hosts PROVE [q EXCEPT !.host = x] \in Reqs
  BY DEF Reqs
<1>4. ASSUME NEW x \in Sources PROVE [q EXCEPT !.src = x] \in Reqs
  BY DEF Reqs
<1>5. ASSUME NEW x \in Maybe PROVE [q EXCEPT !.doc = x] \in Reqs
  BY DEF Reqs
<1>6. ASSUME NEW x \in Maybe PROVE [q EXCEPT !.seen = x] \in Reqs
  BY DEF Reqs
<1>7. ASSUME NEW x \in BOOLEAN PROVE [q EXCEPT !.told = x] \in Reqs
  BY DEF Reqs
<1>8. ASSUME NEW x \in Ages PROVE [q EXCEPT !.age = x] \in Reqs
  BY DEF Reqs
<1>9. ASSUME NEW x \in Maybe PROVE [q EXCEPT !.prev = x] \in Reqs
  BY DEF Reqs
<1>10. ASSUME NEW x \in 0 .. StoreAttempts - 1 PROVE [q EXCEPT !.tries = x] \in Reqs
  BY DEF Reqs
<1>11. ASSUME NEW x \in SUBSET (Hosts \X Maybe) PROVE [q EXCEPT !.todo = x] \in Reqs
  BY DEF Reqs
<1>12. ASSUME NEW x \in SUBSET Hosts PROVE [q EXCEPT !.present = x] \in Reqs
  BY DEF Reqs
<1>13. ASSUME NEW x \in BOOLEAN PROVE [q EXCEPT !.prune = x] \in Reqs
  BY DEF Reqs
<1>14. ASSUME NEW x \in BOOLEAN PROVE [q EXCEPT !.changed = x] \in Reqs
  BY DEF Reqs
<1>15. ASSUME NEW x \in SUBSET Sources PROVE [q EXCEPT !.srcs = x] \in Reqs
  BY DEF Reqs
<1>16. ASSUME NEW x \in [Cells -> Maybe] PROVE [q EXCEPT !.cat = x] \in Reqs
  BY DEF Reqs
<1>17. ASSUME NEW x \in Since PROVE [q EXCEPT !.since = x] \in Reqs
  BY DEF Reqs
<1>18. ASSUME NEW x \in SUBSET Cells PROVE [q EXCEPT !.due = x] \in Reqs
  BY DEF Reqs
<1>19. ASSUME NEW x \in Ages PROVE [q EXCEPT !.mark = x] \in Reqs
  BY DEF Reqs
<1> QED BY <1>1, <1>2, <1>3, <1>4, <1>5, <1>6, <1>7, <1>8, <1>9, <1>10, <1>11, <1>12, <1>13, <1>14, <1>15, <1>16, <1>17, <1>18, <1>19

LEMMA GotoTyped ==
    ASSUME ReqsTyped, NEW r \in Slots, NEW n \in Reqs, Goto(r, n)
    PROVE  ReqsTyped'
BY DEF ReqsTyped, Goto

LEMMA BumpTyped ==
    ASSUME ReqsTyped, RestTyped, NEW change \in Since, NEW r \in Slots, NEW n \in Reqs, Bump(change, r, n)
    PROVE  ReqsTyped' /\ built' \in [is : BOOLEAN, cat : [Cells -> Maybe], since : Since]
<1>1. \A a, b \in Since : Worse(a, b) \in Since
  BY DEF Worse, Since
<1>2. built' \in [is : BOOLEAN, cat : [Cells -> Maybe], since : Since]
  BY <1>1 DEF Bump, RestTyped
<1>3. ASSUME NEW x \in Slots PROVE [reqs[x] EXCEPT !.since = Worse(@, change)] \in Reqs
  <2>1. reqs[x] \in Reqs
    BY DEF ReqsTyped
  <2>2. PICK w \in Since : w = Worse(reqs[x].since, change)
    BY <1>1, <2>1 DEF Reqs
  <2> QED  BY <2>1, <2>2 DEF Reqs
<1> QED  BY <1>2, <1>3 DEF Bump, ReqsTyped

LEMMA ChangedTyped ==
    ASSUME ReqsTyped, DocsTyped, NEW cs, NEW by \in Slots \cup {"operator", "other"}, NEW r \in Slots, NEW n \in Reqs,
           Changed(cs, by, r, n)
    PROVE  ReqsTyped' /\ owner' \in [Cells -> Slots \cup {"operator", "other"}]
<1>1. owner' \in [Cells -> Slots \cup {"operator", "other"}]
  BY DEF Changed, DocsTyped
<1>2. ASSUME NEW x \in Slots PROVE [reqs[x] EXCEPT !.due = @ \ cs] \in Reqs
  <2>1. reqs[x] \in Reqs
    BY DEF ReqsTyped
  <2>2. PICK w \in SUBSET Cells : w = reqs[x].due \ cs
    BY <2>1 DEF Reqs
  <2> QED  BY <2>1, <2>2 DEF Reqs
<1> QED  BY <1>1, <1>2 DEF Changed, ReqsTyped

LEMMA MishapTyped ==
    ASSUME RestTyped, Mishap
    PROVE  mishaps' \in 0 .. MaxMishaps
BY BoundsAssumption DEF RestTyped, Mishap

LEMMA TickTyped ==
    ASSUME TypeOK, Tick
    PROVE  TypeOK'
<1>1. UNCHANGED <<hosts, held, hist, refused, agent, built, owner, load, changes, mishaps>>
  BY DEF Tick
<1>2. told' \in [Hosts -> [hash : Maybe, age : Ages]]
  <2>1. ASSUME NEW h \in Hosts PROVE [told[h] EXCEPT !.age = Older(@)] \in [hash : Maybe, age : Ages]
    <3>1. told[h] \in [hash : Maybe, age : Ages]
      BY DEF TypeOK
    <3>2. PICK a \in Ages : a = Older(told[h].age)
      BY <3>1, GraceAges
    <3> QED BY <3>1, <3>2
  <2> QED  BY <2>1 DEF Tick
<1>3. quiet' \in [Hosts -> Ages]
  BY GraceAges DEF Tick, TypeOK
<1>4. ASSUME NEW r \in Slots PROVE reqs'[r] \in Reqs
  <2>1. reqs[r] \in Reqs
    BY DEF TypeOK
  <2>2. reqs[r].age \in Ages /\ reqs[r].mark \in Ages
    BY <2>1 DEF Reqs
  <2>3. PICK a \in Ages : a = Older(reqs[r].age)
    BY <2>2, GraceAges
  <2>4. PICK m \in Ages : m = Older(reqs[r].mark)
    BY <2>2, GraceAges
  <2>5. reqs'[r] = [reqs[r] EXCEPT !.age = a, !.mark = m]
    BY <2>3, <2>4 DEF Tick
  <2>6. [reqs[r] EXCEPT !.age = a, !.mark = m] \in Reqs
    BY <2>1, FieldsTyped
  <2> QED  BY <2>5, <2>6
<1>5. reqs' \in [Slots -> Reqs]
  BY <1>4 DEF Tick
<1> QED  BY <1>1, <1>2, <1>3, <1>5 DEF TypeOK

LEMMA AgentsActTyped ==
    ASSUME TypeOK, NEW h \in Hosts,
           AgentChange(h) \/ GiveUp(h) \/ \E r \in Slots : Poll(h, r) \/ PostFacts(h, r)
    PROVE  TypeOK'
<1>1. AgentsTyped /\ ReqsTyped /\ RestTyped /\ agent[h] \in [doc : Maybe, sent : Maybe, no : Maybe,
                         pc : {"idle", "poll", "due", "upload"}, slot : Slots \cup {None}]
  BY DEF TypeOK, AgentsTyped, ReqsTyped, RestTyped
<1>2. UNCHANGED <<hosts, held, hist, owner, told, refused, quiet, built, load>>
  BY DEF AgentChange, GiveUp, Poll, PostFacts, Send
<1>3. changes' \in 0 .. MaxChanges /\ mishaps' \in 0 .. MaxMishaps
  BY BoundsAssumption DEF TypeOK, AgentChange, GiveUp, Poll, PostFacts, Send
<1>4. CASE AgentChange(h)
  <2>1. PICK d \in Maybe : agent' = [agent EXCEPT ![h].doc = d, ![h].no = None]
    BY <1>4 DEF AgentChange
  <2>2. AgentsTyped'
    BY <1>1, <2>1 DEF AgentsTyped, Maybe
  <2> QED  BY <1>2, <1>3, <1>4, <2>2 DEF AgentChange, TypeOK, AgentsTyped
<1>5. CASE GiveUp(h)
  <2>1. agent' = [agent EXCEPT ![h].pc = "idle", ![h].slot = None]
    BY <1>5 DEF GiveUp
  <2>2. AgentsTyped'
    BY <1>1, <2>1 DEF AgentsTyped
  <2>3. ReqsTyped'
    BY <1>1, <1>5, IdleTyped DEF GiveUp, ReqsTyped
  <2> QED  BY <1>2, <1>3, <2>2, <2>3 DEF TypeOK, AgentsTyped, ReqsTyped
<1>6. ASSUME NEW r \in Slots, NEW op \in {"poll", "upload"}, NEW pc \in {"poll", "upload"}, NEW d \in Maybe, Send(h, r, op, pc, d)
      PROVE  TypeOK'
  <2>1. agent' = [agent EXCEPT ![h].pc = pc, ![h].sent = d, ![h].slot = r]
    BY <1>6 DEF Send
  <2>2. AgentsTyped'
    BY <1>1, <2>1 DEF AgentsTyped
  <2>3. PICK m \in Ages : m = IF d = Empty THEN quiet[h] ELSE 0
    BY GraceAges DEF TypeOK
  <2>4. PICK n : n = [IdleReq EXCEPT !.op = op, !.pc = "start", !.host = h, !.doc = d, !.mark = m]
    OBVIOUS
  <2>5. n \in Reqs
    <3>1. "start" \in Pcs /\ op \in Console \cup {"none", "poll", "upload"}
      BY DEF Pcs
    <3> QED BY <2>4, <3>1, IdleTyped, FieldsTyped
  <2>6. ReqsTyped'
    BY <1>1, <1>6, <2>3, <2>4, <2>5 DEF Send, ReqsTyped
  <2> QED  BY <1>2, <1>3, <2>2, <2>6 DEF TypeOK, AgentsTyped, ReqsTyped
<1>7. ASSUME NEW r \in Slots, Poll(h, r) \/ PostFacts(h, r) PROVE TypeOK'
  BY <1>1, <1>6, <1>7 DEF Poll, PostFacts
<1> QED  BY <1>4, <1>5, <1>7

LEMMA AnsweredTyped ==
    ASSUME IInv, TypeOK, NEW r \in Slots, reqs[r].op \in {"poll", "upload"}, NEW hdr, Answered(r, hdr)
    PROVE  AgentsTyped' /\ ReqsTyped' /\ quiet' \in [Hosts -> Ages]
<1> DEFINE q == reqs[r]
           a == agent[q.host]
           next == IF a.pc = "poll" /\ hdr \in Maybe /\ hdr # a.sent /\ a.sent \notin {None, a.no}
                   THEN "due" ELSE "idle"
           no == IF hdr = "refused" THEN q.doc ELSE a.no
<1>1. q \in Reqs /\ q.host \in Hosts
  BY DEF IInv, RInv, Good, TypeOK
<1>2. ReqsTyped'
  BY IdleTyped DEF Answered, ReqsTyped, TypeOK
<1>3. quiet' \in [Hosts -> Ages]
  <2>1. q.mark \in Ages
    BY <1>1 DEF Reqs
  <2> QED  BY <1>1, <2>1 DEF Answered, TypeOK
<1>4. a \in [doc : Maybe, sent : Maybe, no : Maybe, pc : {"idle", "poll", "due", "upload"}, slot : Slots \cup {None}]
  BY <1>1 DEF TypeOK
<1>5. agent' = agent \/ agent' = [agent EXCEPT ![q.host] = [a EXCEPT !.pc = next, !.slot = None, !.no = no]]
  BY DEF Answered
<1>6. no \in Maybe /\ next \in {"due", "idle"}
  BY <1>1, <1>4 DEF Reqs
<1> HIDE DEF no, next
<1>7. [a EXCEPT !.pc = next, !.slot = None, !.no = no]
        \in [doc : Maybe, sent : Maybe, no : Maybe, pc : {"idle", "poll", "due", "upload"}, slot : Slots \cup {None}]
  BY <1>4, <1>6
<1> HIDE DEF a, q
<1>8. AgentsTyped'
  BY <1>5, <1>7 DEF TypeOK, AgentsTyped
<1> QED  BY <1>2, <1>3, <1>8

\* A step that only moves a request on, and time does not pass.
LEMMA MovesTyped ==
    ASSUME TypeOK, NEW r \in Slots, NEW n \in Reqs, Goto(r, n),
           UNCHANGED <<hosts, held, hist, owner, refused, agent, quiet, built, load, changes>>,
           told' \in [Hosts -> [hash : Maybe, age : Ages]], mishaps' = mishaps \/ Mishap
    PROVE  TypeOK'
<1>1. ReqsTyped'
  BY GotoTyped DEF TypeOK, ReqsTyped
<1>2. mishaps' \in 0 .. MaxMishaps
  BY MishapTyped DEF TypeOK, RestTyped
<1> QED BY <1>1, <1>2 DEF TypeOK, ReqsTyped

\* A step that answers.
LEMMA AnswersTyped ==
    ASSUME IInv, TypeOK, NEW r \in Slots, reqs[r].op \in {"poll", "upload"}, NEW hdr, Answered(r, hdr),
           UNCHANGED <<hosts, held, hist, owner, built, load, changes>>,
           told' \in [Hosts -> [hash : Maybe, age : Ages]], refused' \in [Hosts -> Maybe],
           mishaps' = mishaps \/ Mishap
    PROVE  TypeOK'
<1>1. AgentsTyped' /\ ReqsTyped' /\ quiet' \in [Hosts -> Ages]
  BY AnsweredTyped
<1>2. mishaps' \in 0 .. MaxMishaps
  BY MishapTyped DEF TypeOK, RestTyped
<1> QED BY <1>1, <1>2 DEF TypeOK, ReqsTyped, AgentsTyped

LEMMA ReportTyped ==
    ASSUME TypeOK, NEW h \in Hosts, NEW d \in Maybe, SetReported(h, d)
    PROVE  told' \in [Hosts -> [hash : Maybe, age : Ages]]
<1>1. told[h] \in [hash : Maybe, age : Ages]
  BY DEF TypeOK
<1>2. PICK a \in Ages : a = IF d = Empty THEN 0 ELSE Grace
  BY GraceAges
<1>3. told' = [told EXCEPT ![h] = IF told[h].hash = d THEN told[h] ELSE [hash |-> d, age |-> a]]
  BY <1>2 DEF SetReported
<1> QED BY <1>1, <1>3 DEF TypeOK

LEMMA ExchangeTyped ==
    ASSUME IInv, TypeOK, NEW r \in Slots,
           Exchange(r) \/ PollFails(r) \/ UploadFails(r)
    PROVE  TypeOK'
<1> DEFINE q == reqs[r]
<1>0. q \in Reqs /\ Good(q)
  BY DEF TypeOK, IInv, RInv
<1>1. told \in [Hosts -> [hash : Maybe, age : Ages]] /\ refused \in [Hosts -> Maybe] /\ held \in [Cells -> Maybe]
  BY DEF TypeOK
<1>2. CASE PollRead(r)
  <2>1. q.op = "poll" /\ q.host \in Hosts
    BY <1>0, <1>2 DEF PollRead, Running, Good
  <2>2. PICK s : s = held[Agent(r)]
    OBVIOUS
  <2>3. s \in Maybe
    BY <1>1, <2>1, <2>2 DEF Agent, Cells, Sources
  <2>4. PICK b : b = (told[q.host].hash = Empty)
    OBVIOUS
  <2>5. b \in BOOLEAN
    BY <2>4
  <2>6. PICK a \in Ages : a = told[q.host].age
    BY <1>1, <2>1
  <2>7. PICK p \in {"grace", "clear", "report"} :
          p = IF told[q.host].hash = q.doc THEN "grace" ELSE IF q.doc = None THEN "clear" ELSE "report"
    OBVIOUS
  <2>8. Goto(r, [q EXCEPT !.seen = s, !.told = b, !.age = a, !.pc = p])
    BY <1>2, <2>2, <2>4, <2>6, <2>7 DEF PollRead
  <2>9. [q EXCEPT !.seen = s, !.told = b, !.age = a, !.pc = p] \in Reqs
    <3>1. p \in Pcs
      BY DEF Pcs
    <3> QED BY <1>0, <2>3, <2>5, <3>1, FieldsTyped
  <2> QED BY <1>1, <1>2, <2>8, <2>9, MovesTyped DEF PollRead, DocsUnchanged
<1>3. CASE PollFails(r)
  BY <1>1, <1>3, AnswersTyped DEF PollFails, DocsUnchanged, Running
<1>4. CASE PollReport(r)
  <2>1. q.op = "poll" /\ q.host \in Hosts /\ q.doc \in Maybe
    BY <1>0, <1>4 DEF PollReport, Good, Reqs
  <2>2. told' \in [Hosts -> [hash : Maybe, age : Ages]]
    BY <1>1, <1>4, <2>1, ReportTyped DEF PollReport
  <2>3. PICK m \in Ages : m = IF q.doc = Empty THEN q.mark ELSE Grace
    BY <1>0, GraceAges DEF Reqs
  <2>4. [q EXCEPT !.pc = "grace"] \in Reqs /\ [q EXCEPT !.pc = "grace", !.mark = m] \in Reqs
    <3>1. "grace" \in Pcs
      BY DEF Pcs
    <3> QED BY <1>0, <3>1, FieldsTyped
  <2>5. Goto(r, [q EXCEPT !.pc = "grace"]) \/ Goto(r, [q EXCEPT !.pc = "grace", !.mark = m])
    BY <1>4, <2>3 DEF PollReport
  <2>6. UNCHANGED <<hosts, held, hist, owner, refused, agent, quiet, built, load, changes>> /\ (mishaps' = mishaps \/ Mishap)
    BY <1>4 DEF PollReport, DocsUnchanged
  <2> QED BY <2>2, <2>4, <2>5, <2>6, MovesTyped
<1>5. CASE PollGrace(r)
  <2>1. UNCHANGED <<hosts, held, hist, owner, told, refused, built, load, changes, mishaps>> /\ q.op = "poll"
    BY <1>5 DEF PollGrace, DocsUnchanged, Running
  <2>2. CASE \E hdr : Answered(r, hdr)
    BY <1>1, <2>1, <2>2, AnswersTyped
  <2>3. CASE Goto(r, [q EXCEPT !.pc = "get"]) /\ UNCHANGED <<agent, quiet>>
    <3>1. [q EXCEPT !.pc = "get"] \in Reqs
      BY <1>0, FieldsTyped DEF Pcs
    <3> QED BY <1>1, <2>1, <2>3, <3>1, MovesTyped
  <2> QED BY <1>5, <2>2, <2>3 DEF PollGrace
<1>6. CASE PollAnswer(r)
  BY <1>1, <1>6, AnswersTyped DEF PollAnswer, DocsUnchanged, Running
<1>7. CASE UploadRefuse(r)
  <2>1. q.op = "upload" /\ q.host \in Hosts /\ q.doc \in Maybe
    BY <1>0, <1>7 DEF UploadRefuse, Running, Good, Reqs
  <2>2. refused' \in [Hosts -> Maybe]
    BY <1>1, <1>7, <2>1 DEF UploadRefuse
  <2> QED BY <1>1, <1>7, <2>1, <2>2, AnswersTyped DEF UploadRefuse, DocsUnchanged
<1>8. CASE UploadRead(r)
  <2>1. q.op = "upload" /\ q.host \in Hosts
    BY <1>0, <1>8 DEF UploadRead, Running, Good
  <2>2. PICK s : s = held[Agent(r)]
    OBVIOUS
  <2>3. s \in Maybe
    BY <1>1, <2>1, <2>2 DEF Agent, Cells, Sources
  <2>4. PICK p \in {"report", "get"} : Goto(r, [q EXCEPT !.seen = s, !.pc = p])
    BY <1>8, <2>2 DEF UploadRead
  <2>5. [q EXCEPT !.seen = s, !.pc = p] \in Reqs
    <3>1. p \in Pcs
      BY DEF Pcs
    <3> QED BY <1>0, <2>3, <3>1, FieldsTyped
  <2> QED BY <1>1, <1>8, <2>4, <2>5, MovesTyped DEF UploadRead, DocsUnchanged
<1>9. CASE UploadReport(r)
  <2>1. q.op = "upload" /\ q.host \in Hosts /\ q.doc \in Maybe
    BY <1>0, <1>9 DEF UploadReport, Running, Good, Reqs
  <2>2. told' \in [Hosts -> [hash : Maybe, age : Ages]]
    BY <1>1, <1>9, <2>1, ReportTyped DEF UploadReport
  <2> QED BY <1>1, <1>9, <2>1, <2>2, AnswersTyped DEF UploadReport, DocsUnchanged
<1>10. CASE UploadFails(r)
  BY <1>1, <1>10, AnswersTyped DEF UploadFails, DocsUnchanged
<1> QED BY <1>2, <1>3, <1>4, <1>5, <1>6, <1>7, <1>8, <1>9, <1>10 DEF Exchange

LEMMA DoneTyped ==
    ASSUME NEW q \in Reqs, NEW ok \in BOOLEAN
    PROVE  Done(q, ok) \in Reqs /\ [Done(q, ok) EXCEPT !.changed = TRUE] \in Reqs
<1>1. None \in Maybe /\ Empty \in Maybe
  BY DocsAssumption DEF Maybe
<1>2. PICK s \in Maybe : s = IF ok THEN Empty ELSE q.seen
  BY <1>1 DEF Reqs
<1>3. PICK p \in {"report", "fail"} : p = IF ok THEN "report" ELSE "fail"
  OBVIOUS
<1>4. /\ [q EXCEPT !.pc = "answer", !.prev = None, !.seen = s] \in Reqs
      /\ [q EXCEPT !.pc = p, !.prev = None] \in Reqs
      /\ [q EXCEPT !.pc = "rows", !.prev = None] \in Reqs
  <2>1. {"answer", "report", "fail", "rows"} \subseteq Pcs
    BY DEF Pcs
  <2> QED BY <1>1, <2>1, FieldsTyped
<1>5. Done(q, ok) \in Reqs
  <2>1. CASE q.op = "poll"
    BY <1>2, <1>4, <2>1 DEF Done
  <2>2. CASE q.op = "upload"
    BY <1>3, <1>4, <2>2 DEF Done
  <2>3. CASE q.op \notin {"poll", "upload"}
    BY <1>4, <2>3 DEF Done
  <2> QED BY <2>1, <2>2, <2>3
<1>6. \A n \in Reqs : [n EXCEPT !.changed = TRUE] \in Reqs
  BY FieldsTyped
<1> QED BY <1>5, <1>6

\* The newest Keep entries are kept.
LEMMA RecordedTyped ==
    ASSUME NEW E, NEW history \in Seq(E), NEW entry \in Seq(E)
    PROVE  Recorded(history, entry) \in Seq(E) /\ Len(Recorded(history, entry)) <= Keep
<1> DEFINE rows == history \o entry
<1>1. rows \in Seq(E)
  OBVIOUS
<1>2. Keep \in Nat \ {0} /\ Len(rows) \in Nat
  BY <1>1, BoundsAssumption
<1> HIDE DEF rows
<1>3. CASE Len(rows) > Keep
  <2>1. Recorded(history, entry) = SubSeq(rows, Len(rows) - Keep + 1, Len(rows))
    BY <1>3 DEF Recorded, rows
  <2>2. Len(rows) - Keep + 1 \in 1 .. Len(rows)
    BY <1>2, <1>3
  <2>3. PICK m \in 1 .. Len(rows) : m = Len(rows) - Keep + 1
    BY <2>2
  <2>4. \A i \in m .. Len(rows) : rows[i] \in E
    BY <1>1, <1>2
  <2>5. SubSeq(rows, m, Len(rows)) \in Seq(E) /\ Len(SubSeq(rows, m, Len(rows))) = Len(rows) - m + 1
    BY <1>1, <1>2, <2>4, SubSeqProperties
  <2> QED BY <1>2, <2>1, <2>3, <2>5
<1>4. CASE Len(rows) <= Keep
  <2>1. Recorded(history, entry) = rows
    BY <1>2, <1>4 DEF Recorded, rows
  <2> QED BY <1>1, <1>4, <2>1
<1> QED BY <1>2, <1>3, <1>4

LEMMA EntryTyped ==
    ASSUME NEW p \in Maybe, NEW d \in Docs
    PROVE  HistoryEntry(p, d) \in Seq([from : Maybe, to : Docs])
<1> DEFINE E == [from : Maybe, to : Docs]
<1>1. [from |-> None, to |-> d] \in E /\ [from |-> p, to |-> d] \in E
  BY DEF Maybe
<1> HIDE DEF E
<1>2. \A e \in E : <<e>> \in Seq(E)
  OBVIOUS
<1>3. <<>> \in Seq(E)
  OBVIOUS
<1>4. HistoryEntry(p, d) \in Seq(E)
  <2>1. CASE p = None /\ d = Empty
    BY <1>3, <2>1 DEF HistoryEntry
  <2>2. CASE p = None /\ d # Empty
    BY <1>1, <1>2, <2>2 DEF HistoryEntry
  <2>3. CASE p # None /\ Content[p] = Content[d]
    BY <1>3, <2>3 DEF HistoryEntry
  <2>4. CASE p # None /\ Content[p] # Content[d]
    BY <1>1, <1>2, <2>4 DEF HistoryEntry
  <2> QED BY <2>1, <2>2, <2>3, <2>4
<1> QED BY <1>4 DEF E

\* A step that changes documents for request r.
LEMMA ChangesTyped ==
    ASSUME TypeOK, NEW r \in Slots, NEW n \in Reqs, NEW cs, NEW by \in Slots \cup {"operator", "other"},
           Changed(cs, by, r, n), hosts' \subseteq Hosts, held' \in [Cells -> Maybe],
           hist' \in [Cells -> Seq([from : Maybe, to : Docs])], \A c \in Cells : Len(hist'[c]) <= Keep,
           ExchangeUnchanged, UNCHANGED built, mishaps' = mishaps \/ Mishap
    PROVE  TypeOK'
<1>1. ReqsTyped' /\ owner' \in [Cells -> Slots \cup {"operator", "other"}]
  BY ChangedTyped DEF TypeOK, ReqsTyped, DocsTyped
<1>2. mishaps' \in 0 .. MaxMishaps
  BY MishapTyped DEF TypeOK, RestTyped
<1> QED BY <1>1, <1>2 DEF TypeOK, ReqsTyped, ExchangeUnchanged

LEMMA StoreTyped ==
    ASSUME IInv, TypeOK, NEW r \in Slots,
           Store(r) \/ StoreFails(r)
    PROVE  TypeOK'
<1> DEFINE q == reqs[r]
<1>0. q \in Reqs /\ Good(q)
  BY DEF TypeOK, IInv, RInv
<1>1. told \in [Hosts -> [hash : Maybe, age : Ages]] /\ held \in [Cells -> Maybe]
  BY DEF TypeOK
<1>2. Done(q, TRUE) \in Reqs /\ Done(q, FALSE) \in Reqs /\ [Done(q, TRUE) EXCEPT !.changed = TRUE] \in Reqs
  BY <1>0, DoneTyped
<1>3. q.pc \in {"get", "replace"} => <<q.host, q.src>> \in Cells /\ q.doc \in Docs
  BY <1>0 DEF Good, Reqs, Cells
<1>4. CASE StoreGet(r)
  <2>1. PICK now \in Maybe : now = held[<<q.host, q.src>>]
    BY <1>1, <1>3, <1>4 DEF StoreGet
  <2>2. [q EXCEPT !.pc = "replace", !.prev = now] \in Reqs
    <3>1. "replace" \in Pcs
      BY DEF Pcs
    <3> QED BY <1>0, <3>1, FieldsTyped
  <2>3. Goto(r, Done(q, TRUE)) \/ Goto(r, [q EXCEPT !.pc = "replace", !.prev = now])
    BY <1>4, <2>1 DEF StoreGet
  <2> QED BY <1>1, <1>2, <1>4, <2>2, <2>3, MovesTyped DEF StoreGet, DocsUnchanged, ExchangeUnchanged
<1>5. CASE StoreMisses(r)
  <2>1. PICK n : Goto(r, n) /\ (n \in {Done(q, TRUE), Done(q, FALSE)} \/ (n = [q EXCEPT !.pc = "get", !.tries = q.tries + 1] /\ q.tries + 1 < StoreAttempts))
    BY <1>5 DEF StoreMisses
  <2>2. n \in Reqs
    <3>1. CASE q.tries + 1 < StoreAttempts /\ n = [q EXCEPT !.pc = "get", !.tries = q.tries + 1]
      <4>1. q.tries + 1 \in 0 .. StoreAttempts - 1
        BY <1>0, <3>1, BoundsAssumption DEF Reqs
      <4>2. "get" \in Pcs
        BY DEF Pcs
      <4> QED BY <1>0, <3>1, <4>1, <4>2, FieldsTyped
    <3> QED BY <1>2, <2>1, <3>1
  <2> QED BY <1>1, <1>5, <2>1, <2>2, MovesTyped DEF StoreMisses, DocsUnchanged, ExchangeUnchanged
<1>6. CASE StoreReplace(r)
  <2> DEFINE c == <<q.host, q.src>>
             by == IF q.op = "import" THEN r ELSE "other"
  <2>1. c \in Cells /\ q.doc \in Docs /\ q.prev \in Maybe
    BY <1>0, <1>3, <1>6 DEF StoreReplace, Reqs
  <2>2. held' = [held EXCEPT ![c] = q.doc] /\ hist' = [hist EXCEPT ![c] = Recorded(hist[c], HistoryEntry(q.prev, q.doc))]
    BY <1>6 DEF StoreReplace
  <2>3. Changed({c}, by, r, [q EXCEPT !.pc = "stored"])
    BY <1>6 DEF StoreReplace
  <2>4. ExchangeUnchanged /\ UNCHANGED <<hosts, built, mishaps>>
    BY <1>6 DEF StoreReplace
  <2>5. [q EXCEPT !.pc = "stored"] \in Reqs
    <3>1. "stored" \in Pcs
      BY DEF Pcs
    <3> QED BY <1>0, <3>1, FieldsTyped
  <2>6. by \in Slots \cup {"operator", "other"}
    OBVIOUS
  <2> HIDE DEF c, by
  <2>7. /\ Recorded(hist[c], HistoryEntry(q.prev, q.doc)) \in Seq([from : Maybe, to : Docs])
        /\ Len(Recorded(hist[c], HistoryEntry(q.prev, q.doc))) <= Keep
    <3>1. hist[c] \in Seq([from : Maybe, to : Docs])
      BY <2>1 DEF TypeOK
    <3> QED BY <2>1, <3>1, RecordedTyped, EntryTyped
  <2>8. hist' \in [Cells -> Seq([from : Maybe, to : Docs])] /\ \A x \in Cells : Len(hist'[x]) <= Keep
    <3>1. PICK e : e = Recorded(hist[c], HistoryEntry(q.prev, q.doc))
      OBVIOUS
    <3> QED BY <2>1, <2>2, <2>7, <3>1 DEF TypeOK
  <2>9. held' \in [Cells -> Maybe]
    BY <1>1, <2>1, <2>2 DEF Maybe
  <2>10. hosts' \subseteq Hosts
    BY <2>4 DEF TypeOK
  <2> QED BY <2>3, <2>4, <2>5, <2>6, <2>8, <2>9, <2>10, ChangesTyped
<1>7. CASE Stored(r)
  <2>1. "stored" \in Since
    BY DEF Since
  <2>2. ReqsTyped' /\ built' \in [is : BOOLEAN, cat : [Cells -> Maybe], since : Since]
    BY <1>2, <1>7, <2>1, BumpTyped DEF Stored, TypeOK, ReqsTyped, RestTyped
  <2> QED BY <1>7, <2>2 DEF Stored, DocsUnchanged, ExchangeUnchanged, TypeOK, ReqsTyped
<1>8. CASE StoreFails(r)
  <2>1. PICK n \in {[q EXCEPT !.pc = "finish"], Done(q, FALSE)} : Goto(r, n)
    BY <1>8 DEF StoreFails
  <2>2. [q EXCEPT !.pc = "finish"] \in Reqs
    <3>1. "finish" \in Pcs
      BY DEF Pcs
    <3> QED BY <1>0, <3>1, FieldsTyped
  <2>3. n \in Reqs
    BY <1>2, <2>2
  <2> QED BY <1>1, <1>8, <2>1, <2>3, MovesTyped DEF StoreFails, DocsUnchanged, ExchangeUnchanged
<1> QED BY <1>4, <1>5, <1>6, <1>7, <1>8 DEF Store

LEMMA PairsTyped ==
    ASSUME NEW S, S \subseteq Hosts
    PROVE  {<<h, None>> : h \in S} \in SUBSET (Hosts \X Maybe)
<1>1. None \in Maybe
  BY DEF Maybe
<1>2. \A h \in S : <<h, None>> \in Hosts \X Maybe
  BY <1>1
<1> QED BY <1>2

LEMMA AsksTyped ==
    ASSUME IInv, TypeOK, NEW r \in Slots,
           Import(r) \/ DeleteHostSource(r) \/ DeleteSource(r) \/ DeleteHosts(r) \/ Catalog(r)
    PROVE  TypeOK'
<1>1. ASSUME NEW n \in Reqs, n.op \in Console, Ask(r, n)
      PROVE  TypeOK'
  <2>1. PICK op \in Console : op = n.op
    BY <1>1
  <2>2. load' = [load EXCEPT ![op] = load[op] - 1] /\ load[op] > 0
    BY <1>1, <2>1 DEF Ask
  <2>3. load' \in [Console \cup {"exchange"} -> Nat]
    BY <2>2 DEF TypeOK
  <2>4. ReqsTyped'
    BY <1>1, GotoTyped DEF Ask, TypeOK, ReqsTyped
  <2> QED BY <1>1, <2>3, <2>4 DEF Ask, DocsUnchanged, TypeOK, ReqsTyped
<1>2. None \in Maybe
  BY DEF Maybe
<1>3. CASE Import(r)
  <2>1. PICK file \in Files, p \in BOOLEAN :
          Ask(r, [IdleReq EXCEPT !.op = "import", !.src = "import", !.pc = "rows", !.prune = p,
                                 !.todo = Matched(file), !.present = {row[1] : row \in Matched(file)}])
    BY <1>3 DEF Import
  <2>2. PICK T \in SUBSET (Hosts \X Docs) : T = Matched(file)
    BY MatchedIs
  <2>3. PICK P \in SUBSET Hosts : P = {row[1] : row \in T}
    OBVIOUS
  <2>4. PICK n : n = [IdleReq EXCEPT !.op = "import", !.src = "import", !.pc = "rows", !.prune = p,
                                     !.todo = T, !.present = P]
    OBVIOUS
  <2>5. n \in Reqs /\ n.op \in Console
    <3>1. T \in SUBSET (Hosts \X Maybe)
      BY DEF Maybe
    <3>2. "rows" \in Pcs /\ "import" \in Console /\ "import" \in Sources
      BY DEF Pcs, Console, Sources
    <3>3. n \in Reqs
      BY <2>4, <3>1, <3>2, IdleTyped, FieldsTyped
    <3>4. n.op = "import"
      BY <2>4, IdleTyped DEF Reqs
    <3> QED BY <3>2, <3>3, <3>4
  <2> QED BY <1>1, <2>1, <2>2, <2>3, <2>4, <2>5
<1>4. ASSUME NEW op \in Console, NEW S \in SUBSET Hosts
      PROVE  /\ [IdleReq EXCEPT !.op = op, !.pc = "remove", !.todo = {<<h, None>> : h \in S}] \in Reqs
             /\ [IdleReq EXCEPT !.op = op, !.pc = "remove", !.todo = {<<h, None>> : h \in S}].op \in Console
  <2>0. "remove" \in Pcs
    BY DEF Pcs
  <2>1. PICK T \in SUBSET (Hosts \X Maybe) : T = {<<h, None>> : h \in S}
    BY PairsTyped
  <2>2. [IdleReq EXCEPT !.op = op, !.pc = "remove", !.todo = T] \in Reqs
    BY <2>0, IdleTyped DEF Reqs
  <2>3. [IdleReq EXCEPT !.op = op, !.pc = "remove", !.todo = T].op = op
    BY IdleTyped DEF Reqs
  <2> QED BY <2>1, <2>2, <2>3
<1>5. CASE DeleteHostSource(r)
  <2>1. PICK h \in Hosts : Ask(r, [IdleReq EXCEPT !.op = "delete_host_source", !.pc = "remove", !.todo = {<<h, None>>}])
    BY <1>5 DEF DeleteHostSource, TypeOK
  <2>2. {<<h, None>>} = {<<x, None>> : x \in {h}}
    OBVIOUS
  <2> QED BY <1>1, <1>4, <2>1, <2>2 DEF Console
<1>6. CASE DeleteSource(r)
  BY <1>1, <1>4, <1>6 DEF DeleteSource, Console
<1>7. CASE DeleteHosts(r)
  <2>1. PICK S \in SUBSET Hosts : Ask(r, [IdleReq EXCEPT !.op = "delete_hosts", !.pc = "remove", !.todo = {<<h, None>> : h \in S}])
    BY <1>7 DEF DeleteHosts, TypeOK
  <2> QED BY <1>1, <1>4, <2>1 DEF Console
<1>8. CASE Catalog(r)
  <2>1. PICK D \in SUBSET Cells : D = {c \in Cells : owner[c] = "operator"}
    OBVIOUS
  <2>2. [IdleReq EXCEPT !.op = "catalog", !.pc = "start", !.due = D] \in Reqs
    <3>1. "start" \in Pcs /\ "catalog" \in Console
      BY DEF Pcs, Console
    <3> QED BY <3>1, IdleTyped, FieldsTyped
  <2>3. [IdleReq EXCEPT !.op = "catalog", !.pc = "start", !.due = D].op = "catalog"
    BY IdleTyped DEF Reqs
  <2> QED BY <1>1, <1>8, <2>1, <2>2, <2>3 DEF Catalog, Console
<1> QED BY <1>3, <1>5, <1>6, <1>7, <1>8

LEMMA RemoveTyped ==
    ASSUME IInv, TypeOK, NEW r \in Slots, Remove(r)
    PROVE  TypeOK'
<1> DEFINE q == reqs[r]
           Of(rows) == {c \in {row[1] : row \in rows} \X (IF q.op = "delete_hosts" THEN Sources ELSE {"import"}) :
                          held[c] # None}
<1>1. q \in Reqs /\ ExchangeUnchanged /\ UNCHANGED <<built, mishaps>>
  BY DEF TypeOK, Remove
<1>2. PICK rows \in SUBSET q.todo \ {{}} :
        /\ held' = [c \in Cells |-> IF c \in Of(rows) THEN None ELSE held[c]]
        /\ hist' = [c \in Cells |-> IF c \in Of(rows) THEN <<>> ELSE hist[c]]
        /\ hosts' = IF q.op = "delete_hosts" THEN hosts \ {row[1] : row \in rows} ELSE hosts
        /\ Changed(Of(rows), r, r,
                   [q EXCEPT !.todo = q.todo \ rows,
                             !.changed = q.changed \/ Of(rows) # {} \/ hosts' # hosts])
  BY DEF Remove
<1>3. PICK cs : cs = Of(rows)
  OBVIOUS
<1> HIDE DEF Of
<1>4. PICK b \in BOOLEAN : b = (q.changed \/ cs # {} \/ hosts' # hosts)
  OBVIOUS
<1>5. PICK T \in SUBSET (Hosts \X Maybe) : T = q.todo \ rows
  BY <1>1 DEF Reqs
<1>6. [q EXCEPT !.todo = T, !.changed = b] \in Reqs
  BY <1>1 DEF Reqs
<1>7. held' \in [Cells -> Maybe]
  BY <1>2 DEF TypeOK, Maybe
<1>8. hist' \in [Cells -> Seq([from : Maybe, to : Docs])] /\ \A c \in Cells : Len(hist'[c]) <= Keep
  <2> DEFINE E == [from : Maybe, to : Docs]
  <2> HIDE DEF E
  <2>1. <<>> \in Seq(E) /\ Len(<<>>) <= Keep
    BY BoundsAssumption
  <2>2. hist \in [Cells -> Seq(E)] /\ \A c \in Cells : Len(hist[c]) <= Keep
    BY DEF TypeOK, E
  <2>3. hist' \in [Cells -> Seq(E)] /\ \A c \in Cells : Len(hist'[c]) <= Keep
    BY <1>2, <2>1, <2>2
  <2> QED BY <2>3 DEF E
<1>9. hosts' \subseteq Hosts
  BY <1>2 DEF TypeOK
<1>10. Changed(cs, r, r, [q EXCEPT !.todo = T, !.changed = b])
  BY <1>2, <1>3, <1>4, <1>5
<1> HIDE DEF q
<1> QED BY <1>1, <1>6, <1>7, <1>8, <1>9, <1>10, ChangesTyped

LEMMA ConsoleTyped ==
    ASSUME IInv, TypeOK, NEW r \in Slots,
           ImportRow(r) \/ ImportHolding(r) \/ RemoveFails(r) \/ Finish(r) \/ HangUp(r)
    PROVE  TypeOK'
<1> DEFINE q == reqs[r]
<1>0. q \in Reqs /\ IdleReq \in Reqs /\ \A p \in Pcs : [q EXCEPT !.pc = p] \in Reqs
  <2>1. q \in Reqs
    BY DEF TypeOK
  <2> QED BY <2>1, IdleTyped, FieldsTyped
<1>1. told \in [Hosts -> [hash : Maybe, age : Ages]] /\ None \in Maybe
  BY DEF TypeOK, Maybe
<1>2. CASE ImportRow(r)
  <2>1. UNCHANGED <<hosts, held, hist, owner, told, refused, agent, quiet, built, load, changes, mishaps>>
    BY <1>2 DEF ImportRow, DocsUnchanged, ExchangeUnchanged
  <2>2. CASE \E row \in q.todo :
               Goto(r, [q EXCEPT !.pc = "get", !.host = row[1], !.doc = row[2], !.tries = 0,
                                 !.todo = q.todo \ {row}])
    <3>1. PICK row \in q.todo : Goto(r, [q EXCEPT !.pc = "get", !.host = row[1], !.doc = row[2], !.tries = 0,
                                                  !.todo = q.todo \ {row}])
      BY <2>2
    <3>2. PICK h \in Hosts, d \in Maybe : h = row[1] /\ d = row[2]
      BY <1>0 DEF Reqs
    <3>3. PICK T \in SUBSET (Hosts \X Maybe) : T = q.todo \ {row}
      BY <1>0 DEF Reqs
    <3>4. 0 \in 0 .. StoreAttempts - 1
      BY BoundsAssumption
    <3>5. "get" \in Pcs
      BY DEF Pcs
    <3>6. [q EXCEPT !.pc = "get", !.host = h, !.doc = d, !.tries = 0, !.todo = T] \in Reqs
      <4> HIDE DEF q
      <4> QED BY <1>0, <3>4, <3>5, FieldsTyped
    <3> QED BY <1>1, <2>1, <3>1, <3>2, <3>3, <3>6, MovesTyped
  <2>3. CASE Goto(r, [q EXCEPT !.pc = IF q.prune THEN "holding" ELSE "finish"])
    <3>1. PICK p \in Pcs : p = IF q.prune THEN "holding" ELSE "finish"
      BY DEF Pcs
    <3> QED BY <1>0, <1>1, <2>1, <2>3, <3>1, MovesTyped
  <2> QED BY <1>2, <2>2, <2>3 DEF ImportRow
<1>3. CASE ImportHolding(r)
  <2>1. UNCHANGED <<hosts, held, hist, owner, told, refused, agent, quiet, built, load, changes>>
        /\ (mishaps' = mishaps \/ Mishap)
    BY <1>3 DEF ImportHolding, DocsUnchanged, ExchangeUnchanged
  <2>2. PICK T \in SUBSET (Hosts \X Maybe) :
          T = {<<h, None>> : h \in {x \in Hosts \ q.present : held[<<x, "import">>] # None}}
    <3> DEFINE S == {x \in Hosts \ q.present : held[<<x, "import">>] # None}
    <3>1. S \subseteq Hosts
      OBVIOUS
    <3> HIDE DEF S
    <3>2. {<<h, None>> : h \in S} \in SUBSET (Hosts \X Maybe)
      BY <3>1, PairsTyped
    <3> QED BY <3>2 DEF S
  <2>3. Goto(r, [q EXCEPT !.pc = "remove", !.todo = T]) \/ Goto(r, [q EXCEPT !.pc = "finish"])
    BY <1>3, <2>2 DEF ImportHolding
  <2>4. [q EXCEPT !.pc = "remove", !.todo = T] \in Reqs /\ [q EXCEPT !.pc = "finish"] \in Reqs
    <3>1. "remove" \in Pcs /\ "finish" \in Pcs
      BY DEF Pcs
    <3> QED BY <1>0, <3>1, FieldsTyped
  <2> QED BY <1>1, <2>1, <2>3, <2>4, MovesTyped
<1>4. CASE RemoveFails(r)
  <2>1. UNCHANGED <<hosts, held, hist, told, refused, agent, quiet, built, load, changes>> /\ Mishap /\ ExchangeUnchanged
    BY <1>4 DEF RemoveFails, ExchangeUnchanged
  <2>2. CASE Goto(r, [q EXCEPT !.pc = "finish"]) /\ UNCHANGED owner
    <3>1. "finish" \in Pcs
      BY DEF Pcs
    <3> QED BY <1>0, <1>1, <2>1, <2>2, <3>1, MovesTyped
  <2>3. CASE Changed({c \in Cells : owner[c] = r}, "other", r, IdleReq)
    <3>1. /\ hosts' \subseteq Hosts /\ held' \in [Cells -> Maybe]
          /\ hist' \in [Cells -> Seq([from : Maybe, to : Docs])] /\ \A c \in Cells : Len(hist'[c]) <= Keep
      BY <2>1 DEF TypeOK
    <3> QED BY <1>0, <2>1, <2>3, <3>1, ChangesTyped
  <2> QED BY <1>4, <2>2, <2>3 DEF RemoveFails
<1>5. CASE Finish(r)
  <2>1. ReqsTyped' /\ built' \in [is : BOOLEAN, cat : [Cells -> Maybe], since : Since]
    <3>1. "operator" \in Since /\ ReqsTyped /\ RestTyped
      BY DEF Since, TypeOK, ReqsTyped, RestTyped
    <3> QED BY <1>0, <1>5, <3>1, BumpTyped, GotoTyped DEF Finish, RestTyped
  <2>2. owner' \in [Cells -> Slots \cup {"operator", "other"}]
    BY <1>5 DEF Finish, TypeOK
  <2> QED BY <1>5, <2>1, <2>2 DEF Finish, ExchangeUnchanged, TypeOK, ReqsTyped
<1>6. CASE HangUp(r)
  <2>1. ReqsTyped' /\ mishaps' \in 0 .. MaxMishaps
    BY <1>0, <1>6, GotoTyped, MishapTyped DEF HangUp, TypeOK, ReqsTyped, RestTyped
  <2>2. owner' \in [Cells -> Slots \cup {"operator", "other"}]
    BY <1>6 DEF HangUp, TypeOK
  <2> QED BY <1>6, <2>1, <2>2 DEF HangUp, ExchangeUnchanged, TypeOK, ReqsTyped
<1> QED BY <1>2, <1>3, <1>4, <1>5, <1>6

LEMMA CatalogTyped ==
    ASSUME IInv, TypeOK, NEW r \in Slots,
           CatalogLookup(r) \/ CatalogSources(r) \/ CatalogRead(r) \/ CatalogKeep(r) \/ CatalogShown(r)
    PROVE  TypeOK'
<1> DEFINE q == reqs[r]
<1>0. q \in Reqs /\ IdleReq \in Reqs /\ \A p \in Pcs : [q EXCEPT !.pc = p] \in Reqs
  <2>1. q \in Reqs
    BY DEF TypeOK
  <2> QED BY <2>1, IdleTyped, FieldsTyped
<1>1. told \in [Hosts -> [hash : Maybe, age : Ages]] /\ held \in [Cells -> Maybe]
      /\ built \in [is : BOOLEAN, cat : [Cells -> Maybe], since : Since]
  BY DEF TypeOK
<1>2. UNCHANGED <<hosts, held, hist, owner, told, refused, agent, quiet, load, changes, mishaps>>
  BY DEF CatalogLookup, CatalogSources, CatalogRead, CatalogKeep, CatalogShown, DocsUnchanged, ExchangeUnchanged
<1>3. CASE CatalogLookup(r)
  <2>1. \/ Goto(r, [q EXCEPT !.pc = "shown", !.cat = built.cat])
        \/ Goto(r, [q EXCEPT !.pc = "lock"])
        \/ Goto(r, [q EXCEPT !.pc = "sources", !.since = "nothing"])
    BY <1>3 DEF CatalogLookup
  <2>2. PICK k \in [Cells -> Maybe] : k = built.cat
    BY <1>1
  <2>3. /\ [q EXCEPT !.pc = "shown", !.cat = k] \in Reqs /\ [q EXCEPT !.pc = "lock"] \in Reqs
        /\ [q EXCEPT !.pc = "sources", !.since = "nothing"] \in Reqs
    <3>1. "shown" \in Pcs /\ "lock" \in Pcs /\ "sources" \in Pcs /\ "nothing" \in Since
      BY DEF Pcs, Since
    <3> QED BY <1>0, <3>1, FieldsTyped
  <2> QED BY <1>1, <1>2, <1>3, <2>1, <2>2, <2>3, MovesTyped DEF CatalogLookup
<1>4. CASE CatalogSources(r)
  <2>1. PICK S \in SUBSET Sources : S = {"agent"} \cup {s \in Sources : \E h \in Hosts : held[<<h, s>>] # None}
    BY DEF Sources
  <2>2. [q EXCEPT !.pc = "read", !.srcs = S] \in Reqs
    <3>1. "read" \in Pcs
      BY DEF Pcs
    <3> QED BY <1>0, <3>1, FieldsTyped
  <2> QED BY <1>1, <1>2, <1>4, <2>1, <2>2, MovesTyped DEF CatalogSources
<1>5. CASE CatalogRead(r)
  <2>1. PICK s \in q.srcs : Goto(r, [q EXCEPT !.srcs = q.srcs \ {s},
                                       !.cat = [c \in Cells |-> IF c[2] = s THEN held[c] ELSE q.cat[c]]])
    BY <1>5 DEF CatalogRead
  <2>2. PICK S \in SUBSET Sources : S = q.srcs \ {s}
    BY <1>0 DEF Reqs
  <2>3. PICK k \in [Cells -> Maybe] : k = [c \in Cells |-> IF c[2] = s THEN held[c] ELSE q.cat[c]]
    BY <1>0, <1>1 DEF Reqs
  <2>4. [q EXCEPT !.srcs = S, !.cat = k] \in Reqs
    BY <1>0, FieldsTyped
  <2> QED BY <1>1, <1>2, <1>5, <2>1, <2>2, <2>3, <2>4, MovesTyped DEF CatalogRead
<1>6. CASE CatalogKeep(r)
  <2>1. built' \in [is : BOOLEAN, cat : [Cells -> Maybe], since : Since]
    BY <1>0, <1>6 DEF CatalogKeep, Reqs
  <2>2. ReqsTyped'
    BY <1>0, <1>6, GotoTyped DEF CatalogKeep, TypeOK, ReqsTyped, Pcs
  <2> QED BY <1>2, <2>1, <2>2 DEF TypeOK, ReqsTyped
<1>7. CASE CatalogShown(r)
  BY <1>0, <1>1, <1>2, <1>7, MovesTyped DEF CatalogShown
<1> QED BY <1>3, <1>4, <1>5, <1>6, <1>7

LEMMA InitTyped == Init => TypeOK
<1> SUFFICES ASSUME Init PROVE TypeOK
  OBVIOUS
<1>1. hosts \subseteq Hosts /\ changes \in 0 .. MaxChanges /\ mishaps \in 0 .. MaxMishaps
      /\ load \in [Console \cup {"exchange"} -> Nat]
  <2>1. load \in Workloads /\ hosts = Hosts /\ changes = 0 /\ mishaps = 0
    BY DEF Init
  <2> QED BY <2>1, LoadsAssumption, BoundsAssumption
<1>2. held \in [Cells -> Maybe]
  BY DEF Init, Imported, Maybe
<1>3. hist \in [Cells -> Seq([from : Maybe, to : Docs])] /\ \A c \in Cells : Len(hist[c]) <= Keep
  <2> DEFINE E == [from : Maybe, to : Docs]
  <2> HIDE DEF E
  <2>1. <<>> \in Seq(E) /\ Len(<<>>) <= Keep
    BY BoundsAssumption
  <2>2. ASSUME NEW d \in Docs PROVE HistoryEntry(None, d) \in Seq(E) /\ Len(HistoryEntry(None, d)) <= Keep
    <3>1. HistoryEntry(None, d) = IF d = Empty THEN <<>> ELSE <<[from |-> None, to |-> d]>>
      BY DEF HistoryEntry
    <3>2. HistoryEntry(None, d) \in Seq(E)
      BY EntryTyped DEF E, Maybe
    <3> QED BY <3>1, <3>2, BoundsAssumption
  <2>3. \A c \in Cells : held[c] # None => held[c] \in Docs
    BY <1>2 DEF Maybe
  <2>4. hist \in [Cells -> Seq(E)] /\ \A c \in Cells : Len(hist[c]) <= Keep
    BY <2>1, <2>2, <2>3 DEF Init
  <2> QED BY <2>4 DEF E
<1>4. told \in [Hosts -> [hash : Maybe, age : Ages]] /\ refused \in [Hosts -> Maybe] /\ quiet \in [Hosts -> Ages]
  BY GraceAges DEF Init, Maybe
<1>5. AgentsTyped
  <2>1. PICK d \in Maybe : agent = [h \in Hosts |-> IdleAgent(IF h \in Reporting THEN d ELSE None)]
    BY HostsAssumption DEF Init, Maybe
  <2>2. ASSUME NEW e \in Maybe
        PROVE  IdleAgent(e) \in [doc : Maybe, sent : Maybe, no : Maybe,
                                 pc : {"idle", "poll", "due", "upload"}, slot : Slots \cup {None}]
    BY DEF IdleAgent, Maybe
  <2> QED BY <2>1, <2>2 DEF AgentsTyped, Maybe
<1>6. built \in [is : BOOLEAN, cat : [Cells -> Maybe], since : Since]
  BY DEF Init, NoBuild, NoDocs, Maybe, Since
<1>7. reqs \in [Slots -> Reqs] /\ owner \in [Cells -> Slots \cup {"operator", "other"}]
  BY IdleTyped DEF Init
<1> QED BY <1>1, <1>2, <1>3, <1>4, <1>5, <1>6, <1>7 DEF TypeOK, AgentsTyped

LEMMA TypeStep ==
    ASSUME IInv, TypeOK, [Next]_vars
    PROVE  TypeOK'
<1>1. ASSUME NEW h \in Hosts, AgentChange(h) \/ GiveUp(h) \/ \E r \in Slots : Poll(h, r) \/ PostFacts(h, r)
      PROVE  TypeOK'
  BY <1>1, AgentsActTyped
<1>2. ASSUME NEW r \in Slots,
             \/ Exchange(r) \/ Store(r) \/ Operator(r)
             \/ PollFails(r) \/ StoreFails(r) \/ UploadFails(r) \/ RemoveFails(r) \/ HangUp(r)
             \/ Import(r) \/ DeleteHostSource(r) \/ DeleteSource(r) \/ DeleteHosts(r) \/ Catalog(r)
      PROVE  TypeOK'
  BY <1>2, ExchangeTyped, StoreTyped, AsksTyped, RemoveTyped, ConsoleTyped, CatalogTyped DEF Operator
<1>3. CASE UNCHANGED vars
  BY <1>3 DEF vars, TypeOK
<1> QED BY <1>1, <1>2, <1>3, TickTyped DEF Next

\* Every state is typed: a request keeps what it read as what it is, no history grows
\* past Keep entries (repos/facts.rs prunes in the transaction that writes), no more
\* statements fail than the bound, and no console call is run twice.
THEOREM TypeCorrect == Spec => []TypeOK
<1>1. Init => IInv /\ TypeOK
  BY InitStep, InitTyped
<1>2. IInv /\ TypeOK /\ [Next]_vars => (IInv /\ TypeOK)'
  BY NextStep, TypeStep
<1> QED BY <1>1, <1>2, PTL DEF Spec
-------------------------------------------------------------------------------
(* Clearing an inventory.                                                  *)

\* A report of the empty document is not older than a.
Within(was, a) == was.hash = Empty => was.age <= a

\* What an exchange in flight knows of the reports of its host, was now and
\* quiet for long: an empty document came in no earlier than the last answer to another
\* one; a request that sent another will not let a report be older than itself; and
\* what goes on to clear an inventory has waited.
Timely(q, long, was) ==
    /\ q.doc = Empty => long <= q.mark
    /\ q.op = "poll" /\ q.pc \in {"get", "replace", "stored", "answer"} => q.doc = Empty
    /\ q.op = "poll" /\ q.pc = "grace" /\ q.doc # Empty => Within(was, q.mark)
    /\ q.op = "poll" /\ q.pc \in {"report", "clear", "grace"} /\ q.doc = Empty /\ q.told => q.age <= q.mark
    /\ q.pc \in {"get", "replace"} /\ q.doc = Empty /\ q.seen \notin {None, Empty} => q.mark = Grace

Exchanging(q) == q.op \in {"poll", "upload"}

CInv ==
    /\ \A h \in Hosts : Within(told[h], quiet[h])
    /\ \A r \in Slots : Exchanging(reqs[r]) => Timely(reqs[r], quiet[reqs[r].host], told[reqs[r].host])

\* The requests differ where Timely does not look.
Alike(p, q) ==
    /\ p.op = q.op /\ p.pc = q.pc /\ p.host = q.host /\ p.doc = q.doc
    /\ p.seen = q.seen /\ p.told = q.told /\ p.age = q.age /\ p.mark = q.mark

OthersAlike(r) == \A x \in Slots \ {r} : Alike(reqs'[x], reqs[x])

LEMMA GotoAlike ==
    ASSUME TypeOK, NEW r \in Slots, NEW n, Goto(r, n)
    PROVE  reqs'[r] = n /\ OthersAlike(r)
BY DEF TypeOK, Goto, OthersAlike, Alike

LEMMA BumpAlike ==
    ASSUME TypeOK, NEW r \in Slots, NEW n, NEW change, Bump(change, r, n)
    PROVE  reqs'[r] = n /\ OthersAlike(r)
<1>1. ASSUME NEW x \in Slots \ {r} PROVE Alike(reqs'[x], reqs[x])
  <2>1. reqs[x] \in Reqs
    BY DEF TypeOK
  <2>2. PICK w : w = Worse(reqs[x].since, change)
    OBVIOUS
  <2>3. reqs'[x] = [reqs[x] EXCEPT !.since = w]
    BY <2>2 DEF Bump
  <2> QED BY <2>1, <2>3 DEF Alike, Reqs
<1> QED BY <1>1 DEF Bump, OthersAlike

LEMMA ChangedAlike ==
    ASSUME TypeOK, NEW r \in Slots, NEW n, NEW cs, NEW by, Changed(cs, by, r, n)
    PROVE  reqs'[r] = n /\ OthersAlike(r)
<1>1. ASSUME NEW x \in Slots \ {r} PROVE Alike(reqs'[x], reqs[x])
  <2>1. reqs[x] \in Reqs
    BY DEF TypeOK
  <2>2. reqs'[x] = [reqs[x] EXCEPT !.due = reqs[x].due \ cs]
    BY DEF Changed
  <2> QED BY <2>1, <2>2 DEF Alike, Reqs
<1> QED BY <1>1 DEF Changed, OthersAlike

LEMMA AlikeTimely ==
    ASSUME NEW p, NEW q, Alike(p, q), NEW long, NEW was
    PROVE  (Exchanging(p) <=> Exchanging(q)) /\ (Timely(p, long, was) <=> Timely(q, long, was))
BY DEF Alike, Timely, Exchanging

\* What is reported later is reported no longer.
Fresher == \A h \in Hosts : \A a \in Ages : Within(told[h], a) => Within(told'[h], a)

LEMMA FresherTimely ==
    ASSUME NEW q \in Reqs, NEW long \in Ages, NEW less \in Ages, less <= long, NEW was, NEW now,
           Within(was, q.mark) => Within(now, q.mark), Timely(q, long, was)
    PROVE  Timely(q, less, now)
<1>1. q.mark \in Ages
  BY DEF Reqs
<1>2. q.doc = Empty => less <= q.mark
  BY <1>1, BoundsAssumption DEF Timely, Ages
<1> QED BY <1>2 DEF Timely

LEMMA ReportsFresher ==
    ASSUME TypeOK, NEW h \in Hosts, NEW d \in Maybe, SetReported(h, d)
    PROVE  Fresher /\ told'[h].hash = d
<1>1. told[h] \in [hash : Maybe, age : Ages]
  BY DEF TypeOK
<1>2. told'[h] = IF told[h].hash = d THEN told[h] ELSE [hash |-> d, age |-> IF d = Empty THEN 0 ELSE Grace]
  BY DEF TypeOK, SetReported
<1>3. \A x \in Hosts \ {h} : told'[x] = told[x]
  BY DEF TypeOK, SetReported
<1>4. \A a \in Ages : Within(told[h], a) => Within(told'[h], a)
  BY <1>2 DEF Within, Ages
<1> QED BY <1>1, <1>2, <1>3, <1>4 DEF Fresher

\* A step of one request that answers nothing.
LEMMA GoesTimely ==
    ASSUME IInv, TypeOK, CInv, NEW r \in Slots, reqs' \in [Slots -> Reqs], OthersAlike(r), UNCHANGED quiet, Fresher,
           Exchanging(reqs'[r]) => /\ reqs'[r].host \in Hosts
                                   /\ Timely(reqs'[r], quiet[reqs'[r].host], told'[reqs'[r].host])
    PROVE  CInv'
<1>1. ASSUME NEW h \in Hosts PROVE Within(told'[h], quiet'[h])
  BY DEF CInv, Fresher, TypeOK
<1>2. ASSUME NEW x \in Slots, Exchanging(reqs'[x])
      PROVE  Timely(reqs'[x], quiet'[reqs'[x].host], told'[reqs'[x].host])
  <2>1. CASE x = r
    BY <1>2, <2>1
  <2>2. CASE x # r
    <3>1. Alike(reqs'[x], reqs[x]) /\ reqs[x] \in Reqs
      BY <2>2 DEF OthersAlike, TypeOK
    <3>2. Exchanging(reqs[x])
      BY <1>2, <3>1, AlikeTimely
    <3>3. PICK h \in Hosts : h = reqs[x].host /\ h = reqs'[x].host
      BY <3>1, <3>2 DEF IInv, RInv, Good, Alike, Exchanging
    <3>4. Timely(reqs[x], quiet[h], told[h])
      BY <3>2, <3>3 DEF CInv
    <3>5. quiet[h] \in Ages /\ reqs[x].mark \in Ages
      BY <3>1 DEF TypeOK, Reqs
    <3>6. Within(told[h], reqs[x].mark) => Within(told'[h], reqs[x].mark)
      BY <3>5 DEF Fresher
    <3>7. Timely(reqs[x], quiet[h], told'[h])
      BY <3>1, <3>4, <3>5, <3>6, FresherTimely DEF Ages
    <3>8. Timely(reqs'[x], quiet[h], told'[h])
      BY <3>1, <3>7, AlikeTimely
    <3> QED BY <3>3, <3>8
  <2> QED BY <2>1, <2>2
<1> QED BY <1>1, <1>2 DEF CInv

\* An answer counts as one to a report of a document that is there only if that report
\* is recorded, or another one like it.
LEMMA AnswersTimely ==
    ASSUME IInv, TypeOK, TypeOK', CInv, NEW r \in Slots, Exchanging(reqs[r]), NEW hdr, Answered(r, hdr), Fresher,
           reqs[r].doc # Empty /\ hdr \in Maybe => Within(told'[reqs[r].host], reqs[r].mark)
    PROVE  CInv'
<1> DEFINE q == reqs[r]
<1>1. q.host \in Hosts /\ q \in Reqs /\ q.mark \in Ages
  BY DEF IInv, RInv, Good, TypeOK, Reqs, Exchanging
<1>2. /\ \A x \in Slots \ {r} : reqs'[x] = reqs[x]
      /\ reqs'[r] = IdleReq
  BY DEF TypeOK, Answered
<1>3. \/ quiet' = quiet
      \/ quiet' = [quiet EXCEPT ![q.host] = q.mark] /\ q.mark < quiet[q.host] /\ q.doc # Empty /\ hdr \in Maybe
  BY DEF Answered
<1>4. \A h \in Hosts : quiet[h] \in Ages /\ quiet'[h] \in Ages
  BY DEF TypeOK
<1>5. ASSUME NEW h \in Hosts PROVE quiet'[h] <= quiet[h] /\ Within(told'[h], quiet'[h])
  <2>1. CASE quiet'[h] = quiet[h]
    BY <1>4, <2>1 DEF CInv, Fresher, Ages
  <2>2. CASE quiet'[h] # quiet[h]
    <3>1. h = q.host /\ quiet'[h] = q.mark /\ q.mark < quiet[h] /\ q.doc # Empty /\ hdr \in Maybe
      BY <1>1, <1>3, <2>2 DEF TypeOK
    <3> QED BY <1>1, <1>4, <3>1 DEF Ages
  <2> QED BY <2>1, <2>2
<1>6. ASSUME NEW x \in Slots, Exchanging(reqs'[x])
      PROVE  Timely(reqs'[x], quiet'[reqs'[x].host], told'[reqs'[x].host])
  <2>1. x # r /\ reqs'[x] = reqs[x] /\ reqs[x] \in Reqs
    BY <1>2, <1>6 DEF IdleReq, Exchanging, TypeOK
  <2>2. PICK h \in Hosts : h = reqs[x].host
    BY <1>6, <2>1 DEF IInv, RInv, Good, Exchanging
  <2>3. Timely(reqs[x], quiet[h], told[h])
    BY <1>6, <2>1, <2>2 DEF CInv
  <2>4. reqs[x].mark \in Ages
    BY <2>1 DEF Reqs
  <2>5. Within(told[h], reqs[x].mark) => Within(told'[h], reqs[x].mark)
    BY <2>4 DEF Fresher
  <2>6. Timely(reqs[x], quiet'[h], told'[h])
    BY <1>4, <1>5, <2>1, <2>3, <2>5, FresherTimely
  <2> QED BY <2>1, <2>2, <2>6
<1> QED BY <1>5, <1>6 DEF CInv

LEMMA OlderIs ==
    /\ \A a, b \in Ages : a <= b => Older(a) <= Older(b)
    /\ Older(Grace) = Grace
<1>1. Grace \in Nat
  BY BoundsAssumption
<1>2. Older(Grace) = Grace
  BY <1>1 DEF Older
<1>3. ASSUME NEW a \in Ages, NEW b \in Ages, a <= b PROVE Older(a) <= Older(b)
  <2>1. a \in Int /\ b \in Int /\ a <= Grace /\ b <= Grace /\ Grace \in Int
    BY <1>1 DEF Ages
  <2> QED BY <1>3, <2>1 DEF Older
<1>4. \A a, b \in Ages : a <= b => Older(a) <= Older(b)
  BY <1>3
<1> QED BY <1>2, <1>4

LEMMA TickTimely ==
    ASSUME IInv, TypeOK, CInv, Tick
    PROVE  CInv'
<1>1. ASSUME NEW h \in Hosts
      PROVE  /\ told'[h].hash = told[h].hash /\ told'[h].age = Older(told[h].age)
             /\ quiet'[h] = Older(quiet[h]) /\ told[h].age \in Ages /\ quiet[h] \in Ages
  <2>1. PICK was \in [hash : Maybe, age : Ages] : was = told[h]
    BY DEF TypeOK
  <2>2. told'[h] = [was EXCEPT !.age = Older(was.age)] /\ quiet'[h] = Older(quiet[h])
    BY <2>1 DEF Tick
  <2>3. quiet[h] \in Ages
    BY DEF TypeOK
  <2> QED BY <2>1, <2>2, <2>3
<1>2. ASSUME NEW h \in Hosts PROVE Within(told'[h], quiet'[h])
  BY <1>1, OlderIs DEF CInv, Within
<1>3. ASSUME NEW r \in Slots, Exchanging(reqs'[r])
      PROVE  Timely(reqs'[r], quiet'[reqs'[r].host], told'[reqs'[r].host])
  <2>1. PICK q \in Reqs : q = reqs[r]
    BY DEF TypeOK
  <2>2. PICK p : p = reqs'[r]
    OBVIOUS
  <2>3. /\ p.op = q.op /\ p.pc = q.pc /\ p.host = q.host /\ p.doc = q.doc /\ p.seen = q.seen /\ p.told = q.told
        /\ p.age = Older(q.age) /\ p.mark = Older(q.mark) /\ q.age \in Ages /\ q.mark \in Ages
    <3>1. p = [q EXCEPT !.age = Older(q.age), !.mark = Older(q.mark)]
      BY <2>1, <2>2 DEF Tick
    <3> QED BY <2>1, <3>1 DEF Reqs
  <2>4. Exchanging(q) /\ q.host \in Hosts
    BY <1>3, <2>1, <2>2, <2>3 DEF Exchanging, IInv, RInv, Good
  <2>5. PICK h \in Hosts : h = q.host /\ Timely(q, quiet[h], told[h])
    BY <2>1, <2>4 DEF CInv
  <2>6. Timely(p, quiet'[h], told'[h])
    <3>1. p.doc = Empty => quiet'[h] <= p.mark
      BY <1>1, <2>3, <2>5, OlderIs DEF Timely
    <3>2. p.op = "poll" /\ p.pc \in {"get", "replace", "stored", "answer"} => p.doc = Empty
      BY <2>3, <2>5 DEF Timely
    <3>3. p.op = "poll" /\ p.pc = "grace" /\ p.doc # Empty => Within(told'[h], p.mark)
      BY <1>1, <2>3, <2>5, OlderIs DEF Timely, Within
    <3>4. p.op = "poll" /\ p.pc \in {"report", "clear", "grace"} /\ p.doc = Empty /\ p.told => p.age <= p.mark
      BY <2>3, <2>5, OlderIs DEF Timely
    <3>5. p.pc \in {"get", "replace"} /\ p.doc = Empty /\ p.seen \notin {None, Empty} => p.mark = Grace
      BY <2>3, <2>5, OlderIs DEF Timely
    <3> QED BY <3>1, <3>2, <3>3, <3>4, <3>5 DEF Timely
  <2> QED BY <2>2, <2>3, <2>5, <2>6
<1> QED BY <1>2, <1>3 DEF CInv

\* A step in which a request goes on as n and the reports stay.
LEMMA MovesTimely ==
    ASSUME IInv, TypeOK, TypeOK', CInv, NEW r \in Slots, NEW n, reqs'[r] = n, OthersAlike(r), UNCHANGED <<quiet, told>>,
           Exchanging(n) => Timely(n, quiet[n.host], told[n.host]),
           Exchanging(n) => n.host \in Hosts
    PROVE  CInv'
<1>1. Fresher
  BY DEF Fresher
<1> QED BY <1>1, GoesTimely DEF TypeOK

LEMMA AgentsActTimely ==
    ASSUME IInv, TypeOK, TypeOK', CInv, NEW h \in Hosts,
           AgentChange(h) \/ GiveUp(h) \/ \E r \in Slots : Poll(h, r) \/ PostFacts(h, r)
    PROVE  CInv'
<1>1. CASE AgentChange(h)
  BY <1>1 DEF AgentChange, CInv
<1>2. CASE GiveUp(h)
  <2>1. UNCHANGED <<quiet, told>>
    BY <1>2 DEF GiveUp
  <2>2. \A x \in Slots : reqs'[x] = reqs[x] \/ reqs'[x] = IdleReq
    BY <1>2 DEF GiveUp, TypeOK
  <2>3. ~Exchanging(IdleReq)
    BY DEF IdleReq, Exchanging
  <2> QED BY <2>1, <2>2, <2>3 DEF CInv
<1>3. ASSUME NEW r \in Slots, NEW op \in {"poll", "upload"}, NEW pc, NEW d, Send(h, r, op, pc, d)
      PROVE  CInv'
  <2>1. PICK m : m = IF d = Empty THEN quiet[h] ELSE 0
    OBVIOUS
  <2>2. PICK n : n = [IdleReq EXCEPT !.op = op, !.pc = "start", !.host = h, !.doc = d, !.mark = m]
    OBVIOUS
  <2>3. n.op = op /\ n.pc = "start" /\ n.host = h /\ n.doc = d /\ n.mark = m
    BY <2>2, IdleTyped DEF Reqs
  <2>4. Goto(r, n) /\ UNCHANGED <<quiet, told>>
    BY <1>3, <2>1, <2>2 DEF Send, Goto
  <2>5. Timely(n, quiet[h], told[h])
    <3>1. quiet[h] \in Ages
      BY DEF TypeOK
    <3> QED BY <2>1, <2>3, <3>1 DEF Timely, Ages
  <2>6. reqs'[r] = n /\ OthersAlike(r)
    BY <2>4, GotoAlike
  <2> QED BY <2>3, <2>4, <2>5, <2>6, MovesTimely
<1>4. ASSUME NEW r \in Slots, Poll(h, r) \/ PostFacts(h, r) PROVE CInv'
  BY <1>3, <1>4 DEF Poll, PostFacts
<1> QED BY <1>1, <1>2, <1>4

\* An answer that is not to a report of a document.
LEMMA ShrugsTimely ==
    ASSUME IInv, TypeOK, TypeOK', CInv, NEW r \in Slots, Exchanging(reqs[r]), NEW hdr, Answered(r, hdr),
           UNCHANGED told, reqs[r].doc = Empty \/ hdr \notin Maybe
    PROVE  CInv'
<1>1. Fresher
  BY DEF Fresher
<1> QED BY <1>1, AnswersTimely

LEMMA PollTimely ==
    ASSUME IInv, TypeOK, TypeOK', CInv, NEW r \in Slots,
           PollRead(r) \/ PollFails(r) \/ PollReport(r) \/ PollGrace(r) \/ PollAnswer(r)
    PROVE  CInv'
<1>0. PICK q : q = reqs[r]
  OBVIOUS
<1>1. q \in Reqs /\ q.op = "poll" /\ Exchanging(q)
  BY <1>0 DEF PollRead, PollFails, PollReport, PollGrace, PollAnswer, Running, Exchanging, TypeOK
<1>2. PICK h \in Hosts : h = q.host
  BY <1>0, <1>1 DEF IInv, RInv, Good, Exchanging
<1>3. Timely(q, quiet[h], told[h]) /\ Within(told[h], quiet[h])
  BY <1>0, <1>1, <1>2 DEF CInv
<1>4. quiet[h] \in Ages /\ told[h].age \in Ages /\ q.mark \in Ages /\ q.age \in Ages
  BY <1>1 DEF TypeOK, Reqs
<1>5. CASE PollFails(r) \/ PollAnswer(r)
  <2>1. CASE PollFails(r)
    <3>1. "error" \notin Maybe
      BY NamesAssumption
    <3> QED BY <1>0, <1>1, <2>1, <3>1, ShrugsTimely DEF PollFails
  <2>2. CASE PollAnswer(r)
    <3>1. q.doc = Empty
      BY <1>0, <1>1, <1>3, <2>2 DEF PollAnswer, Running, Timely
    <3> QED BY <1>0, <1>1, <2>2, <3>1, ShrugsTimely DEF PollAnswer
  <2> QED BY <1>5, <2>1, <2>2
<1>6. CASE PollRead(r)
  <2>1. PICK b : b = (told[h].hash = Empty)
    OBVIOUS
  <2>2. PICK a : a = told[h].age
    OBVIOUS
  <2>3. PICK p \in {"grace", "clear", "report"} : p = IF told[h].hash = q.doc THEN "grace"
                                                      ELSE IF q.doc = None THEN "clear" ELSE "report"
    OBVIOUS
  <2>4. PICK s : s = held[Agent(r)]
    OBVIOUS
  <2>5. PICK n : n = [q EXCEPT !.seen = s, !.told = b, !.age = a, !.pc = p]
    OBVIOUS
  <2>6. Goto(r, n) /\ UNCHANGED <<quiet, told>>
    BY <1>0, <1>2, <1>6, <2>1, <2>2, <2>3, <2>4, <2>5 DEF PollRead
  <2>7. /\ n.op = q.op /\ n.host = h /\ n.doc = q.doc /\ n.mark = q.mark /\ n.pc = p /\ n.age = a
        /\ n.told = b
    BY <1>1, <1>2, <2>5 DEF Reqs
  <2>8. Timely(n, quiet[h], told[h])
    <3>1. n.doc = Empty => quiet[h] <= n.mark
      BY <1>3, <2>7 DEF Timely
    <3>2. p = "grace" /\ n.doc # Empty => Within(told[h], n.mark)
      BY <2>3, <2>7 DEF Within
    <3>3. n.doc = Empty /\ n.told => n.age <= n.mark
      <4>1. n.told => told[h].hash = Empty
        BY <2>1, <2>7
      <4>2. told[h].hash = Empty => told[h].age <= quiet[h]
        BY <1>3 DEF Within
      <4> QED BY <1>4, <2>2, <2>7, <3>1, <4>1, <4>2 DEF Ages
    <3> QED BY <2>3, <2>7, <3>1, <3>2, <3>3 DEF Timely
  <2>9. reqs'[r] = n /\ OthersAlike(r)
    BY <2>6, GotoAlike
  <2> QED BY <2>6, <2>7, <2>8, <2>9, MovesTimely
<1>7. CASE PollReport(r)
  <2>1. PICK m \in Ages : m = IF q.doc = Empty THEN q.mark ELSE Grace
    BY <1>4, GraceAges
  <2>2. q.pc \in {"report", "clear"} /\ UNCHANGED quiet
    BY <1>0, <1>7 DEF PollReport
  <2>3. ASSUME NEW n, NEW x \in Ages, n = [q EXCEPT !.pc = "grace", !.mark = x], Goto(r, n), Fresher,
               q.doc = Empty => x = q.mark, q.doc # Empty => Within(told'[h], x)
        PROVE  CInv'
    <3>1. /\ n.op = q.op /\ n.host = h /\ n.doc = q.doc /\ n.mark = x /\ n.pc = "grace" /\ n.age = q.age
          /\ n.told = q.told /\ n.seen = q.seen
      BY <1>1, <1>2, <2>3 DEF Reqs
    <3>2. Timely(n, quiet[h], told'[h])
      <4>1. n.doc = Empty => quiet[h] <= n.mark
        BY <1>3, <2>3, <3>1 DEF Timely
      <4>2. n.doc = Empty /\ n.told => n.age <= n.mark
        BY <1>1, <1>3, <2>2, <2>3, <3>1 DEF Timely
      <4> QED BY <2>3, <3>1, <4>1, <4>2 DEF Timely
    <3>3. reqs'[r] = n /\ OthersAlike(r)
      BY <2>3, GotoAlike
    <3>4. reqs' \in [Slots -> Reqs]
      BY DEF TypeOK
    <3> QED BY <2>2, <2>3, <3>1, <3>2, <3>3, <3>4, GoesTimely
  <2>4. CASE SetReported(q.host, q.doc) /\ Goto(r, [q EXCEPT !.pc = "grace"])
    <3>1. q.doc \in Maybe
      BY <1>1 DEF Reqs
    <3>2. Fresher /\ told'[h].hash = q.doc
      BY <1>2, <2>4, <3>1, ReportsFresher
    <3>3. [q EXCEPT !.pc = "grace"] = [q EXCEPT !.pc = "grace", !.mark = q.mark]
      BY <1>1 DEF Reqs
    <3> QED BY <1>4, <2>3, <2>4, <3>2, <3>3 DEF Within
  <2>5. CASE UNCHANGED told /\ Goto(r, [q EXCEPT !.pc = "grace", !.mark = m])
    <3>1. Fresher
      BY <2>5 DEF Fresher
    <3>2. q.doc # Empty => Within(told'[h], m)
      BY <1>4, <2>1, <2>5 DEF Within, Ages
    <3> QED BY <2>1, <2>3, <2>5, <3>1, <3>2
  <2> QED BY <1>0, <1>7, <2>1, <2>4, <2>5 DEF PollReport
<1>8. CASE PollGrace(r)
  <2>1. q.pc = "grace" /\ UNCHANGED told
    BY <1>0, <1>8 DEF PollGrace, Running
  <2>2. ASSUME NEW hdr, Answered(r, hdr)
        PROVE  CInv'
    <3>1. Fresher
      BY <2>1 DEF Fresher
    <3>2. q.doc # Empty => Within(told'[h], q.mark)
      BY <1>1, <1>3, <2>1 DEF Timely
    <3> QED BY <1>0, <1>1, <1>2, <2>2, <3>1, <3>2, AnswersTimely
  <2>3. CASE EmptyOverInventory(q.seen, q.told, q.age, q.doc) = "due" /\ Goto(r, [q EXCEPT !.pc = "get"])
             /\ UNCHANGED <<agent, quiet>>
    <3>1. q.doc = Empty /\ q.told /\ q.age >= Grace
      BY <2>3 DEF EmptyOverInventory
    <3>2. q.mark = Grace
      BY <1>1, <1>3, <1>4, <2>1, <3>1, BoundsAssumption DEF Timely, Ages
    <3>3. PICK n : n = [q EXCEPT !.pc = "get"]
      OBVIOUS
    <3>4. n.op = q.op /\ n.host = h /\ n.doc = q.doc /\ n.mark = q.mark /\ n.pc = "get"
      BY <1>1, <1>2, <3>3 DEF Reqs
    <3>5. Timely(n, quiet[h], told[h])
      BY <1>3, <3>1, <3>2, <3>4 DEF Timely
    <3>6. reqs'[r] = n /\ OthersAlike(r)
      BY <2>3, <3>3, GotoAlike
    <3> QED BY <2>1, <2>3, <3>4, <3>5, <3>6, MovesTimely
  <2> QED BY <1>0, <1>8, <2>2, <2>3 DEF PollGrace
<1> QED BY <1>5, <1>6, <1>7, <1>8

LEMMA UploadTimely ==
    ASSUME IInv, TypeOK, TypeOK', CInv, NEW r \in Slots,
           UploadRefuse(r) \/ UploadRead(r) \/ UploadReport(r) \/ UploadFails(r)
    PROVE  CInv'
<1>0. PICK q : q = reqs[r]
  OBVIOUS
<1>1. q \in Reqs /\ q.op = "upload" /\ Exchanging(q)
  BY <1>0 DEF UploadRefuse, UploadRead, UploadReport, UploadFails, Running, Exchanging, TypeOK
<1>2. PICK h \in Hosts : h = q.host
  BY <1>0, <1>1 DEF IInv, RInv, Good, Exchanging
<1>3. Timely(q, quiet[h], told[h]) /\ Within(told[h], quiet[h])
  BY <1>0, <1>1, <1>2 DEF CInv
<1>4. quiet[h] \in Ages /\ told[h].age \in Ages /\ q.mark \in Ages /\ q.age \in Ages
  BY <1>1 DEF TypeOK, Reqs
<1>5. "error" \notin Maybe /\ "refused" \notin Maybe /\ "unrecorded" \notin Maybe
  BY NamesAssumption
<1>6. CASE UploadRefuse(r)
  BY <1>0, <1>1, <1>5, <1>6, ShrugsTimely DEF UploadRefuse
<1>7. CASE UploadFails(r)
  BY <1>0, <1>1, <1>5, <1>7, ShrugsTimely DEF UploadFails
<1>8. CASE UploadReport(r)
  <2>1. CASE SetReported(q.host, q.doc) /\ Answered(r, q.doc)
    <3>1. q.doc \in Maybe
      BY <1>1 DEF Reqs
    <3>2. Fresher /\ told'[h].hash = q.doc
      BY <1>2, <2>1, <3>1, ReportsFresher
    <3>3. q.doc # Empty => Within(told'[h], q.mark)
      BY <3>2 DEF Within
    <3> QED BY <1>0, <1>1, <1>2, <2>1, <3>2, <3>3, AnswersTimely
  <2>2. CASE UNCHANGED told /\ Answered(r, "unrecorded")
    BY <1>0, <1>1, <1>5, <2>2, ShrugsTimely
  <2> QED BY <1>0, <1>8, <2>1, <2>2 DEF UploadReport
<1>9. CASE UploadRead(r)
  <2>1. PICK s : s = held[Agent(r)]
    OBVIOUS
  <2>2. PICK p \in {"report", "get"} :
          p = IF s = q.doc \/ EmptyOverInventory(s, told[h].hash = Empty, told[h].age, q.doc) = "pending"
              THEN "report" ELSE "get"
    OBVIOUS
  <2>3. PICK n : n = [q EXCEPT !.seen = s, !.pc = p]
    OBVIOUS
  <2>4. Goto(r, n) /\ UNCHANGED <<quiet, told>>
    BY <1>0, <1>2, <1>9, <2>1, <2>2, <2>3 DEF UploadRead
  <2>5. /\ n.op = q.op /\ n.host = h /\ n.doc = q.doc /\ n.mark = q.mark /\ n.pc = p /\ n.seen = s
    BY <1>1, <1>2, <2>3 DEF Reqs
  <2>6. p = "get" /\ q.doc = Empty /\ s \notin {None, Empty} => told[h].hash = Empty /\ told[h].age >= Grace
    BY <2>2 DEF EmptyOverInventory
  <2>7. Timely(n, quiet[h], told[h])
    <3>1. n.doc = Empty => quiet[h] <= n.mark
      BY <1>3, <2>5 DEF Timely
    <3>2. p = "get" /\ n.doc = Empty /\ s \notin {None, Empty} => n.mark = Grace
      BY <1>3, <1>4, <2>5, <2>6, <3>1, BoundsAssumption DEF Within, Ages
    <3> QED BY <1>1, <2>2, <2>5, <3>1, <3>2 DEF Timely
  <2>8. reqs'[r] = n /\ OthersAlike(r)
    BY <2>4, GotoAlike
  <2> QED BY <2>4, <2>5, <2>7, <2>8, MovesTimely
<1> QED BY <1>6, <1>7, <1>8, <1>9

\* What a request does that has nothing left to clear.
Drifts(n, q) ==
    Exchanging(n) => /\ n.op = q.op /\ n.host = q.host /\ n.doc = q.doc /\ n.mark = q.mark
                     /\ n.pc \notin {"get", "replace", "grace", "clear"}
                     /\ n.op = "poll" /\ n.pc \in {"stored", "answer"} => q.doc = Empty
                     /\ n.op = "poll" => n.pc # "report"

LEMMA DriftsTimely ==
    ASSUME IInv, TypeOK, TypeOK', CInv, NEW r \in Slots, NEW n, reqs'[r] = n, OthersAlike(r), UNCHANGED <<quiet, told>>,
           Drifts(n, reqs[r])
    PROVE  CInv'
<1>1. SUFFICES ASSUME Exchanging(n)
               PROVE  Timely(n, quiet[n.host], told[n.host]) /\ n.host \in Hosts
  BY MovesTimely
<1>2. Exchanging(reqs[r]) /\ n.host = reqs[r].host
  BY <1>1 DEF Drifts, Exchanging
<1>3. reqs[r].host \in Hosts
  BY <1>2 DEF IInv, RInv, Good, Exchanging
<1>4. Timely(reqs[r], quiet[n.host], told[n.host])
  BY <1>2 DEF CInv
<1>5. Timely(n, quiet[n.host], told[n.host])
  BY <1>1, <1>4 DEF Drifts, Timely
<1> QED BY <1>2, <1>3, <1>5

LEMMA DoneIs ==
    ASSUME NEW q \in Reqs, NEW ok \in BOOLEAN, NEW n, n \in {Done(q, ok), [Done(q, ok) EXCEPT !.changed = TRUE]}
    PROVE  /\ n.op = q.op /\ n.host = q.host /\ n.doc = q.doc /\ n.mark = q.mark /\ n.due = q.due
           /\ n.pc \in {"answer", "report", "fail", "rows"}
           /\ q.op = "poll" => n.pc = "answer"
<1>0. PICK d \in Reqs : d = Done(q, ok)
  BY DoneTyped
<1>1. /\ d.op = q.op /\ d.host = q.host /\ d.doc = q.doc /\ d.mark = q.mark /\ d.due = q.due
      /\ d.pc \in {"answer", "report", "fail", "rows"}
      /\ q.op = "poll" => d.pc = "answer"
  <2>1. PICK s : s = IF ok THEN Empty ELSE q.seen
    OBVIOUS
  <2>2. PICK p \in {"report", "fail"} : p = IF ok THEN "report" ELSE "fail"
    OBVIOUS
  <2>3. CASE q.op = "poll"
    <3>1. d = [q EXCEPT !.pc = "answer", !.prev = None, !.seen = s]
      BY <1>0, <2>1, <2>3 DEF Done
    <3> QED BY <2>3, <3>1 DEF Reqs
  <2>4. CASE q.op = "upload"
    <3>1. d = [q EXCEPT !.pc = p, !.prev = None]
      BY <1>0, <2>2, <2>4 DEF Done
    <3> QED BY <2>4, <3>1 DEF Reqs
  <2>5. CASE q.op \notin {"poll", "upload"}
    <3>1. d = [q EXCEPT !.pc = "rows", !.prev = None]
      BY <1>0, <2>5 DEF Done
    <3> QED BY <2>5, <3>1 DEF Reqs
  <2> QED BY <2>3, <2>4, <2>5
<1>2. CASE n = d
  BY <1>1, <1>2
<1>3. CASE n = [d EXCEPT !.changed = TRUE]
  <2>1. n.op = d.op /\ n.host = d.host /\ n.doc = d.doc /\ n.mark = d.mark /\ n.due = d.due /\ n.pc = d.pc
    BY <1>3 DEF Reqs
  <2> QED BY <1>1, <2>1
<1> QED BY <1>0, <1>2, <1>3

LEMMA DoneKeeps ==
    ASSUME NEW q \in Reqs, NEW ok \in BOOLEAN
    PROVE  Done(q, ok).changed = q.changed
<1>1. PICK s, p : s = (IF ok THEN Empty ELSE q.seen) /\ p = IF ok THEN "report" ELSE "fail"
  OBVIOUS
<1>2. CASE q.op = "poll"
  <2>1. Done(q, ok) = [q EXCEPT !.pc = "answer", !.prev = None, !.seen = s]
    BY <1>1, <1>2 DEF Done
  <2> QED BY <2>1 DEF Reqs
<1>3. CASE q.op = "upload"
  <2>1. Done(q, ok) = [q EXCEPT !.pc = p, !.prev = None]
    BY <1>1, <1>3 DEF Done
  <2> QED BY <2>1 DEF Reqs
<1>4. CASE q.op \notin {"poll", "upload"}
  <2>1. Done(q, ok) = [q EXCEPT !.pc = "rows", !.prev = None]
    BY <1>4 DEF Done
  <2> QED BY <2>1 DEF Reqs
<1> QED BY <1>2, <1>3, <1>4

\* The store clears only what it was told to clear.
LEMMA StoreTimely ==
    ASSUME IInv, TypeOK, TypeOK', CInv, NEW r \in Slots, Store(r) \/ StoreFails(r)
    PROVE  CInv'
<1>0. PICK q : q = reqs[r]
  OBVIOUS
<1>1. q \in Reqs /\ q.pc \in {"get", "replace", "stored"} /\ UNCHANGED <<quiet, told>>
  BY <1>0 DEF Store, StoreGet, StoreMisses, StoreReplace, Stored, StoreFails, ExchangeUnchanged, TypeOK
<1>2. Exchanging(q) => q.host \in Hosts /\ Timely(q, quiet[q.host], told[q.host])
  BY <1>0, <1>1 DEF IInv, RInv, Good, Exchanging, CInv
<1>3. q.op = "poll" => q.doc = Empty
  BY <1>1, <1>2 DEF Timely, Exchanging
<1>4. ASSUME NEW n, NEW ok \in BOOLEAN, n \in {Done(q, ok), [Done(q, ok) EXCEPT !.changed = TRUE]},
             reqs'[r] = n, OthersAlike(r)
      PROVE  CInv'
  <2>1. Drifts(n, q)
    BY <1>1, <1>3, <1>4, DoneIs DEF Drifts
  <2> QED BY <1>0, <1>1, <1>4, <2>1, DriftsTimely
<1>5. ASSUME NEW n, reqs'[r] = n, OthersAlike(r), n.op = q.op, n.host = q.host, n.doc = q.doc, n.mark = q.mark,
             n.seen = q.seen, n.pc \in {"get", "replace"}, q.pc \in {"get", "replace"}
      PROVE  CInv'
  <2>1. Exchanging(n) => Timely(n, quiet[n.host], told[n.host]) /\ n.host \in Hosts
    BY <1>2, <1>5 DEF Timely, Exchanging
  <2> QED BY <1>1, <1>5, <2>1, MovesTimely
<1>6. CASE StoreGet(r)
  <2>1. PICK now : now = held[<<q.host, q.src>>]
    OBVIOUS
  <2>2. PICK n : Goto(r, n) /\ (n = Done(q, TRUE) \/ n = [q EXCEPT !.pc = "replace", !.prev = now]) /\ q.pc = "get"
    BY <1>0, <1>6, <2>1 DEF StoreGet
  <2>3. reqs'[r] = n /\ OthersAlike(r)
    BY <2>2, GotoAlike
  <2>4. CASE n = [q EXCEPT !.pc = "replace", !.prev = now]
    <3>1. n.op = q.op /\ n.host = q.host /\ n.doc = q.doc /\ n.mark = q.mark /\ n.seen = q.seen /\ n.pc = "replace"
      BY <1>1, <2>4 DEF Reqs
    <3> QED BY <1>5, <2>2, <2>3, <3>1
  <2> QED BY <1>4, <2>2, <2>3, <2>4
<1>7. CASE StoreMisses(r)
  <2>1. PICK n : /\ Goto(r, n) /\ q.pc = "replace"
                 /\ n \in {Done(q, TRUE), Done(q, FALSE)} \/ n = [q EXCEPT !.pc = "get", !.tries = q.tries + 1]
    BY <1>0, <1>7 DEF StoreMisses
  <2>2. reqs'[r] = n /\ OthersAlike(r)
    BY <2>1, GotoAlike
  <2>3. CASE n = [q EXCEPT !.pc = "get", !.tries = q.tries + 1]
    <3>1. n.op = q.op /\ n.host = q.host /\ n.doc = q.doc /\ n.mark = q.mark /\ n.seen = q.seen /\ n.pc = "get"
      BY <1>1, <2>3 DEF Reqs
    <3> QED BY <1>5, <2>1, <2>2, <3>1
  <2> QED BY <1>4, <2>1, <2>2, <2>3
<1>8. CASE StoreReplace(r)
  <2>1. PICK n : n = [q EXCEPT !.pc = "stored"]
    OBVIOUS
  <2>2. reqs'[r] = n /\ OthersAlike(r)
    BY <1>0, <1>8, <2>1, ChangedAlike DEF StoreReplace
  <2>3. Drifts(n, q)
    BY <1>1, <1>3, <2>1 DEF Drifts, Reqs
  <2> QED BY <1>0, <1>1, <2>2, <2>3, DriftsTimely
<1>9. CASE Stored(r)
  <2>1. PICK n : n = [Done(q, TRUE) EXCEPT !.changed = TRUE]
    OBVIOUS
  <2>2. reqs'[r] = n /\ OthersAlike(r)
    BY <1>0, <1>9, <2>1, BumpAlike DEF Stored
  <2> QED BY <1>4, <2>1, <2>2
<1>10. CASE StoreFails(r)
  <2>1. PICK n : Goto(r, n) /\ ((q.op = "import" /\ n = [q EXCEPT !.pc = "finish"]) \/ n = Done(q, FALSE))
    BY <1>0, <1>10 DEF StoreFails
  <2>2. reqs'[r] = n /\ OthersAlike(r)
    BY <2>1, GotoAlike
  <2>3. CASE q.op = "import" /\ n = [q EXCEPT !.pc = "finish"]
    <3>1. ~Exchanging(n)
      BY <1>1, <2>3 DEF Reqs, Exchanging
    <3> QED BY <1>0, <1>1, <2>2, <3>1, DriftsTimely DEF Drifts
  <2> QED BY <1>4, <2>1, <2>2, <2>3
<1> QED BY <1>6, <1>7, <1>8, <1>9, <1>10 DEF Store

\* The console clears nothing an agent reported.
LEMMA ConsoleTimely ==
    ASSUME IInv, TypeOK, TypeOK', CInv, NEW r \in Slots,
           \/ Operator(r) \/ RemoveFails(r) \/ HangUp(r)
           \/ Import(r) \/ DeleteHostSource(r) \/ DeleteSource(r) \/ DeleteHosts(r) \/ Catalog(r)
    PROVE  CInv'
<1>0. PICK q : q = reqs[r]
  OBVIOUS
<1>1. q \in Reqs /\ Good(q)
  BY <1>0 DEF TypeOK, IInv, RInv
<1>2. UNCHANGED <<quiet, told>>
  BY DEF Operator, ImportRow, ImportHolding, Remove, RemoveFails, Finish, HangUp, Import, DeleteHostSource, DeleteSource,
     DeleteHosts, Catalog, Ask, CatalogLookup, CatalogSources, CatalogRead, CatalogKeep, CatalogShown, ExchangeUnchanged
<1>3. ~Exchanging(IdleReq)
  BY DEF IdleReq, Exchanging
<1>4. ASSUME NEW n, Drifts(n, q), Goto(r, n) PROVE CInv'
  BY <1>0, <1>2, <1>4, GotoAlike, DriftsTimely
<1>5. CASE Import(r) \/ DeleteHostSource(r) \/ DeleteSource(r) \/ DeleteHosts(r) \/ Catalog(r)
  <2>1. PICK n : Goto(r, n) /\ n.op \in Console
    <3>1. ASSUME NEW n, Ask(r, n), n.op \in Console PROVE \E x : Goto(r, x) /\ x.op \in Console
      BY <3>1 DEF Ask
    <3>2. CASE Import(r)
      <4>1. PICK file, p : Ask(r, [IdleReq EXCEPT !.op = "import", !.src = "import", !.pc = "rows", !.prune = p,
                                     !.todo = Matched(file), !.present = {row[1] : row \in Matched(file)}])
        BY <3>2 DEF Import
      <4>2. [IdleReq EXCEPT !.op = "import", !.src = "import", !.pc = "rows", !.prune = p,
                            !.todo = Matched(file), !.present = {row[1] : row \in Matched(file)}].op = "import"
        BY IdleTyped DEF Reqs
      <4> QED BY <3>1, <4>1, <4>2 DEF Console
    <3>3. CASE DeleteHostSource(r) \/ DeleteSource(r) \/ DeleteHosts(r)
      <4>1. PICK op, T : Ask(r, [IdleReq EXCEPT !.op = op, !.pc = "remove", !.todo = T]) /\ op \in Console
        BY <3>3 DEF DeleteHostSource, DeleteSource, DeleteHosts, Console
      <4>2. [IdleReq EXCEPT !.op = op, !.pc = "remove", !.todo = T].op = op
        BY IdleTyped DEF Reqs
      <4> QED BY <3>1, <4>1, <4>2
    <3>4. CASE Catalog(r)
      <4>1. PICK D : Ask(r, [IdleReq EXCEPT !.op = "catalog", !.pc = "start", !.due = D])
        BY <3>4 DEF Catalog
      <4>2. [IdleReq EXCEPT !.op = "catalog", !.pc = "start", !.due = D].op = "catalog"
        BY IdleTyped DEF Reqs
      <4> QED BY <3>1, <4>1, <4>2 DEF Console
    <3> QED BY <1>5, <3>2, <3>3, <3>4
  <2>2. Drifts(n, q)
    BY <2>1 DEF Drifts, Exchanging, Console
  <2> QED BY <1>4, <2>1, <2>2
<1>6. CASE ImportRow(r) \/ ImportHolding(r) \/ Remove(r) \/ RemoveFails(r) \/ Finish(r)
  <2>1. ~Exchanging(q)
    BY <1>0, <1>1, <1>6 DEF ImportRow, ImportHolding, Remove, RemoveFails, Finish, Good, Exchanging, ConsolePhases
  <2>2. ASSUME NEW n, n.op = q.op \/ n = IdleReq, reqs'[r] = n, OthersAlike(r)
        PROVE  CInv'
    <3>1. Drifts(n, q)
      BY <1>3, <2>1, <2>2 DEF Drifts, Exchanging
    <3> QED BY <1>0, <1>2, <2>2, <3>1, DriftsTimely
  <2>3. PICK n : (n.op = q.op \/ n = IdleReq) /\ reqs'[r] = n /\ OthersAlike(r)
    <3>1. CASE ImportRow(r)
      <4>1. CASE \E row \in q.todo :
                   Goto(r, [q EXCEPT !.pc = "get", !.host = row[1], !.doc = row[2], !.tries = 0,
                                     !.todo = q.todo \ {row}])
        <5>1. PICK row \in q.todo :
                Goto(r, [q EXCEPT !.pc = "get", !.host = row[1], !.doc = row[2], !.tries = 0,
                                  !.todo = q.todo \ {row}])
          BY <4>1
        <5>2. PICK n : n = [q EXCEPT !.pc = "get", !.host = row[1], !.doc = row[2], !.tries = 0,
                                     !.todo = q.todo \ {row}]
          OBVIOUS
        <5>3. n.op = q.op
          BY <1>1, <5>2 DEF Reqs
        <5> QED BY <5>1, <5>2, <5>3, GotoAlike
      <4>2. CASE \E p : Goto(r, [q EXCEPT !.pc = p])
        <5>1. PICK n, p : Goto(r, n) /\ n = [q EXCEPT !.pc = p]
          BY <4>2
        <5>2. n.op = q.op
          BY <1>1, <5>1 DEF Reqs
        <5> QED BY <5>1, <5>2, GotoAlike
      <4> QED BY <1>0, <3>1, <4>1, <4>2 DEF ImportRow
    <3>2. CASE ImportHolding(r)
      <4>1. (\E T : Goto(r, [q EXCEPT !.pc = "remove", !.todo = T])) \/ Goto(r, [q EXCEPT !.pc = "finish"])
        BY <1>0, <3>2 DEF ImportHolding
      <4>2. \A T : [q EXCEPT !.pc = "remove", !.todo = T].op = q.op
        BY <1>1 DEF Reqs
      <4>3. [q EXCEPT !.pc = "finish"].op = q.op
        BY <1>1 DEF Reqs
      <4>4. PICK n : Goto(r, n) /\ n.op = q.op
        BY <4>1, <4>2, <4>3
      <4> QED BY <4>4, GotoAlike
    <3>3. CASE Remove(r)
      <4>1. PICK cs, T, b : Changed(cs, r, r, [q EXCEPT !.todo = T, !.changed = b])
        BY <1>0, <3>3 DEF Remove
      <4>2. [q EXCEPT !.todo = T, !.changed = b].op = q.op
        BY <1>1 DEF Reqs
      <4> QED BY <4>1, <4>2, ChangedAlike
    <3>4. CASE RemoveFails(r)
      <4>1. [q EXCEPT !.pc = "finish"].op = q.op
        BY <1>1 DEF Reqs
      <4> QED BY <1>0, <3>4, <4>1, ChangedAlike, GotoAlike DEF RemoveFails
    <3>5. CASE Finish(r)
      BY <3>5, BumpAlike, GotoAlike DEF Finish
    <3> QED BY <1>6, <3>1, <3>2, <3>3, <3>4, <3>5
  <2> QED BY <2>2, <2>3
<1>7. CASE HangUp(r) \/ CatalogShown(r)
  BY <1>3, <1>4, <1>7 DEF HangUp, CatalogShown, Drifts
<1>8. CASE CatalogLookup(r) \/ CatalogSources(r) \/ CatalogRead(r) \/ CatalogKeep(r)
  <2>1. PICK n : /\ Goto(r, n) /\ n.op = q.op /\ n.host = q.host /\ n.doc = q.doc /\ n.mark = q.mark
                 /\ n.pc \in {"shown", "lock", "sources", "read"}
    <3>1. ASSUME NEW n, NEW p, NEW k, Goto(r, n), p \in {"shown", "lock", "sources", "read"},
                 \/ n = [q EXCEPT !.pc = p] \/ n = [q EXCEPT !.pc = p, !.cat = k]
                 \/ n = [q EXCEPT !.pc = p, !.since = k] \/ n = [q EXCEPT !.pc = p, !.srcs = k]
          PROVE  \E x : /\ Goto(r, x) /\ x.op = q.op /\ x.host = q.host /\ x.doc = q.doc /\ x.mark = q.mark
                        /\ x.pc \in {"shown", "lock", "sources", "read"}
      <4>1. n.op = q.op /\ n.host = q.host /\ n.doc = q.doc /\ n.mark = q.mark /\ n.pc = p
        BY <1>1, <3>1 DEF Reqs
      <4> QED BY <3>1, <4>1
    <3>2. CASE CatalogLookup(r)
      <4>1. \/ Goto(r, [q EXCEPT !.pc = "shown", !.cat = built.cat])
            \/ Goto(r, [q EXCEPT !.pc = "lock"])
            \/ Goto(r, [q EXCEPT !.pc = "sources", !.since = "nothing"])
        BY <1>0, <3>2 DEF CatalogLookup
      <4> QED BY <3>1, <4>1
    <3>3. CASE CatalogSources(r)
      <4>1. PICK S : Goto(r, [q EXCEPT !.pc = "read", !.srcs = S])
        BY <1>0, <3>3 DEF CatalogSources
      <4> QED BY <3>1, <4>1
    <3>4. CASE CatalogKeep(r)
      <4>1. Goto(r, [q EXCEPT !.pc = "shown"])
        BY <1>0, <3>4 DEF CatalogKeep
      <4> QED BY <3>1, <4>1
    <3>5. CASE CatalogRead(r)
      <4>1. PICK S, k : Goto(r, [q EXCEPT !.srcs = S, !.cat = k]) /\ q.pc = "read"
        BY <1>0, <3>5 DEF CatalogRead
      <4>2. PICK n : n = [q EXCEPT !.srcs = S, !.cat = k]
        OBVIOUS
      <4>3. n.op = q.op /\ n.host = q.host /\ n.doc = q.doc /\ n.mark = q.mark /\ n.pc = "read"
        BY <1>1, <4>1, <4>2 DEF Reqs
      <4> QED BY <4>1, <4>2, <4>3
    <3> QED BY <1>8, <3>2, <3>3, <3>4, <3>5
  <2>2. Drifts(n, q)
    BY <2>1 DEF Drifts
  <2> QED BY <1>4, <2>1, <2>2
<1> QED BY <1>5, <1>6, <1>7, <1>8 DEF Operator

LEMMA InitTimely == Init => CInv
<1> SUFFICES ASSUME Init PROVE CInv
  OBVIOUS
<1>1. \A h \in Hosts : told[h].hash = None /\ None # Empty
  BY DocsAssumption DEF Init
<1>2. \A r \in Slots : ~Exchanging(reqs[r])
  BY DEF Init, IdleReq, Exchanging
<1> QED BY <1>1, <1>2 DEF CInv, Within

LEMMA TimelyStep ==
    ASSUME IInv, TypeOK, CInv, [Next]_vars
    PROVE  CInv'
<1>0. TypeOK'
  BY TypeStep
<1>1. ASSUME NEW h \in Hosts, AgentChange(h) \/ GiveUp(h) \/ \E r \in Slots : Poll(h, r) \/ PostFacts(h, r)
      PROVE  CInv'
  BY <1>0, <1>1, AgentsActTimely
<1>2. ASSUME NEW r \in Slots,
             \/ Exchange(r) \/ Store(r) \/ Operator(r)
             \/ PollFails(r) \/ StoreFails(r) \/ UploadFails(r) \/ RemoveFails(r) \/ HangUp(r)
             \/ Import(r) \/ DeleteHostSource(r) \/ DeleteSource(r) \/ DeleteHosts(r) \/ Catalog(r)
      PROVE  CInv'
  <2>1. CASE Exchange(r) \/ PollFails(r) \/ UploadFails(r)
    BY <1>0, <2>1, PollTimely, UploadTimely DEF Exchange
  <2>2. CASE Store(r) \/ StoreFails(r)
    BY <1>0, <2>2, StoreTimely
  <2>3. CASE \/ Operator(r) \/ RemoveFails(r) \/ HangUp(r)
             \/ Import(r) \/ DeleteHostSource(r) \/ DeleteSource(r) \/ DeleteHosts(r) \/ Catalog(r)
    BY <1>0, <2>3, ConsoleTimely
  <2> QED BY <1>2, <2>1, <2>2, <2>3
<1>3. CASE UNCHANGED vars
  BY <1>3 DEF vars, CInv, Exchanging
<1> QED BY <1>1, <1>2, <1>3, TickTimely DEF Next

\* An inventory is cleared only when the host has reported nothing but the empty document
\* for the grace period (exchange.rs): a report, a poll and an upload of one host may race,
\* answers may be lost and writes may fail, but no interleaving lets an empty document that
\* was sent too early overwrite the one that is held.
THEOREM ClearsAfterGrace == Spec => ClearedAfterGrace
<1>1. Init => IInv /\ TypeOK /\ CInv
  BY InitStep, InitTyped, InitTimely
<1>2. IInv /\ TypeOK /\ CInv /\ [Next]_vars => (IInv /\ TypeOK /\ CInv)'
  BY NextStep, TypeStep, TimelyStep
<1>3. ASSUME IInv, CInv, NEW r \in Slots, reqs[r].pc = "replace", reqs[r].src = "agent", reqs[r].doc = Empty,
             reqs[r].seen \notin {None, Empty}
      PROVE  reqs[r].mark >= Grace
  <2>1. Exchanging(reqs[r])
    BY <1>3 DEF IInv, RInv, Good, Working, Exchanging
  <2>2. reqs[r].mark = Grace
    BY <1>3, <2>1 DEF CInv, Timely
  <2> QED BY <2>2, BoundsAssumption
<1>4. IInv /\ CInv /\ [Next]_vars =>
        [\A r \in Slots :
           (/\ reqs[r].pc = "replace" /\ reqs'[r].pc = "stored"
            /\ reqs[r].src = "agent" /\ reqs[r].doc = Empty
            /\ reqs[r].seen \notin {None, Empty})
              => reqs[r].mark >= Grace]_vars
  BY <1>3
<1> QED BY <1>1, <1>2, <1>4, PTL DEF Spec, ClearedAfterGrace
-------------------------------------------------------------------------------
(* What the catalogue shows.                                               *)

\* Which requests are in the phases of the catalogue.
Phased(q) ==
    /\ q.op = "none" <=> q.pc = "idle"
    /\ q.op = "catalog" => q.pc \in {"start", "lock", "sources", "read", "shown"}
    /\ q.pc \in {"lock", "sources", "read", "shown"} => q.op = "catalog"

\* What a request for the catalogue has to show: docs are the documents by now and who
\* changed them last.  It owes what an operator did before it came in; while it reads, it
\* has what an operator did to the sources it is through with, but for what was done
\* after it started to read.
Shown(q, docs, who) ==
    /\ q.op # "catalog" => q.due = {}
    /\ \A c \in q.due : who[c] = "operator"
    /\ q.op = "catalog" /\ q.pc \in {"start", "lock", "sources"} => q.cat = NoDocs
    /\ q.pc = "read" =>
         \A c \in Cells : c[2] \notin q.srcs /\ who[c] = "operator" /\ (c \in q.due \/ q.since # "operator")
                            => q.cat[c] = docs[c]
    /\ q.pc = "shown" => \A c \in q.due : q.cat[c] = docs[c]

\* A request of the console that changed a document will mark the catalogue.
Owns(q, r, who) ==
    \A c \in Cells : who[c] = r => /\ q.op \in Console \ {"catalog"}
                                   /\ q.changed \/ q.pc = "stored"

\* The catalogue that is kept shows what operators did, unless they did it since.
Kept(cat, docs, who) ==
    cat.is /\ cat.since # "operator" => \A c \in Cells : who[c] = "operator" => cat.cat[c] = docs[c]

\* The request an agent waits for is its own.
Asked(a, h) ==
    a.pc \in {"poll", "upload"} => /\ a.slot \in Slots
                                   /\ Exchanging(reqs[a.slot]) /\ reqs[a.slot].host = h

PInv == \A r \in Slots : Phased(reqs[r])
KInv == Kept(built, held, owner) /\ \A r \in Slots : Shown(reqs[r], held, owner) /\ Owns(reqs[r], r, owner)
WInv == \A h \in Hosts : Asked(agent[h], h)

\* The requests differ where the catalogue does not look.
Same(p, q) ==
    /\ p.op = q.op /\ p.pc = q.pc /\ p.host = q.host /\ p.due = q.due /\ p.cat = q.cat
    /\ p.srcs = q.srcs /\ p.since = q.since /\ p.changed = q.changed

LEMMA SameShown ==
    ASSUME NEW p, NEW q, Same(p, q), NEW docs, NEW who, NEW r
    PROVE  /\ Phased(p) <=> Phased(q)
           /\ Shown(p, docs, who) <=> Shown(q, docs, who)
           /\ Owns(p, r, who) <=> Owns(q, r, who)
BY DEF Same, Phased, Shown, Owns

\* A request goes on, and the others do not.
LEMMA GoesShown ==
    ASSUME TypeOK, PInv, KInv, NEW r \in Slots, NEW n, Goto(r, n), UNCHANGED <<held, owner, built>>,
           Phased(n), Shown(n, held, owner), Owns(n, r, owner)
    PROVE  PInv' /\ KInv'
<1>1. reqs'[r] = n /\ \A x \in Slots \ {r} : reqs'[x] = reqs[x]
  BY DEF TypeOK, Goto
<1> QED BY <1>1 DEF PInv, KInv

\* The agents wait on while the requests of the exchange are where they were.
LEMMA GoesAsked ==
    ASSUME WInv, UNCHANGED agent,
           \A x \in Slots : Exchanging(reqs[x]) => reqs'[x].op = reqs[x].op /\ reqs'[x].host = reqs[x].host
    PROVE  WInv'
BY DEF WInv, Asked, Exchanging

LEMMA AlikeAsked ==
    ASSUME WInv, UNCHANGED agent, NEW r \in Slots, OthersAlike(r),
           Exchanging(reqs[r]) => reqs'[r].op = reqs[r].op /\ reqs'[r].host = reqs[r].host
    PROVE  WInv'
<1>1. \A x \in Slots : Exchanging(reqs[x]) => reqs'[x].op = reqs[x].op /\ reqs'[x].host = reqs[x].host
  BY DEF OthersAlike, Alike
<1> QED BY <1>1, GoesAsked

\* A request that has nothing to do with the catalogue goes on.
LEMMA GoesAside ==
    ASSUME TypeOK, PInv, KInv, NEW r \in Slots, NEW n, Goto(r, n), UNCHANGED <<held, owner, built>>,
           reqs[r].op \notin {"none", "catalog"},
           n.op = reqs[r].op, n.due = reqs[r].due, n.changed = reqs[r].changed,
           n.pc \notin {"idle", "lock", "sources", "read", "shown"}, reqs[r].pc # "stored"
    PROVE  PInv' /\ KInv'
<1>1. Phased(n)
  BY DEF Phased
<1>2. Shown(n, held, owner)
  BY DEF KInv, Shown
<1>3. Owns(n, r, owner)
  BY DEF KInv, Owns
<1> QED BY <1>1, <1>2, <1>3, GoesShown

\* A request is over that changed nothing.
LEMMA IdleShown == Phased(IdleReq) /\ \A docs, who : Shown(IdleReq, docs, who)
BY DEF IdleReq, Phased, Shown

LEMMA OversShown ==
    ASSUME TypeOK, PInv, KInv, NEW r \in Slots, Goto(r, IdleReq), UNCHANGED <<held, owner, built>>,
           reqs[r].op \notin Console \ {"catalog"}
    PROVE  PInv' /\ KInv'
<1>1. Owns(IdleReq, r, owner)
  BY DEF KInv, Owns
<1> QED BY <1>1, IdleShown, GoesShown

\* The documents of cs change, and whoever asked for them before is owed them no longer.
LEMMA ChangedShown ==
    ASSUME TypeOK, PInv, KInv, NEW r \in Slots, NEW n, NEW cs, NEW by, Changed(cs, by, r, n),
           by # "operator", \A x \in Slots \ {r} : by # x,
           \A c \in Cells \ cs : held'[c] = held[c], UNCHANGED built,
           Phased(n), Shown(n, held', owner'), Owns(n, r, owner')
    PROVE  PInv' /\ KInv'
<1>1. \A c \in Cells : IF c \in cs THEN owner'[c] = by ELSE owner'[c] = owner[c] /\ held'[c] = held[c]
  BY DEF Changed
<1>2. Kept(built, held', owner')
  BY <1>1 DEF KInv, Kept
<1>3. reqs'[r] = n
  BY DEF Changed
<1>4. ASSUME NEW x \in Slots \ {r}
      PROVE  Phased(reqs'[x]) /\ Shown(reqs'[x], held', owner') /\ Owns(reqs'[x], x, owner')
  <2>1. reqs[x] \in Reqs /\ Phased(reqs[x]) /\ Shown(reqs[x], held, owner) /\ Owns(reqs[x], x, owner)
    BY DEF TypeOK, PInv, KInv
  <2>2. PICK p : p = reqs'[x]
    OBVIOUS
  <2>3. PICK q \in Reqs : q = reqs[x]
    BY <2>1
  <2>4. /\ p.op = q.op /\ p.pc = q.pc /\ p.due = q.due \ cs /\ p.cat = q.cat /\ p.srcs = q.srcs
        /\ p.since = q.since /\ p.changed = q.changed /\ q.due \subseteq Cells
    <3>1. p = [q EXCEPT !.due = q.due \ cs]
      BY <2>2, <2>3 DEF Changed
    <3> QED BY <2>3, <3>1 DEF Reqs
  <2>5. Phased(p)
    BY <2>1, <2>3, <2>4 DEF Phased
  <2>6. Shown(p, held', owner')
    BY <1>1, <2>1, <2>3, <2>4 DEF Shown
  <2>7. Owns(p, x, owner')
    BY <1>1, <2>1, <2>3, <2>4 DEF Owns
  <2> QED BY <2>2, <2>5, <2>6, <2>7
<1> QED BY <1>2, <1>3, <1>4 DEF PInv, KInv

\* The catalogue is marked for documents that were stored, and shows what it did.
LEMMA BumpShown ==
    ASSUME TypeOK, PInv, KInv, NEW r \in Slots, NEW n, Bump("stored", r, n), UNCHANGED <<held, owner>>,
           Phased(n), Shown(n, held, owner), Owns(n, r, owner)
    PROVE  PInv' /\ KInv'
<1>1. \A a \in Since : Worse(a, "stored") # "operator" => a # "operator"
  BY DEF Worse
<1>2. Kept(built', held, owner)
  <2>1. built.since \in Since
    BY DEF TypeOK
  <2>2. built'.is = built.is /\ built'.cat = built.cat /\ built'.since = Worse(built.since, "stored")
    BY DEF TypeOK, Bump
  <2> QED BY <1>1, <2>1, <2>2 DEF KInv, Kept
<1>3. reqs'[r] = n
  BY DEF Bump
<1>4. ASSUME NEW x \in Slots \ {r}
      PROVE  Phased(reqs'[x]) /\ Shown(reqs'[x], held, owner) /\ Owns(reqs'[x], x, owner)
  <2>1. reqs[x] \in Reqs /\ Phased(reqs[x]) /\ Shown(reqs[x], held, owner) /\ Owns(reqs[x], x, owner)
    BY DEF TypeOK, PInv, KInv
  <2>2. PICK p : p = reqs'[x]
    OBVIOUS
  <2>3. PICK q \in Reqs : q = reqs[x]
    BY <2>1
  <2>4. PICK w : w = Worse(q.since, "stored")
    OBVIOUS
  <2>5. /\ p.op = q.op /\ p.pc = q.pc /\ p.due = q.due /\ p.cat = q.cat /\ p.srcs = q.srcs
        /\ p.since = w /\ p.changed = q.changed /\ q.since \in Since
    <3>1. p = [q EXCEPT !.since = w]
      BY <2>2, <2>3, <2>4 DEF Bump
    <3> QED BY <2>3, <3>1 DEF Reqs
  <2>6. p.since # "operator" => q.since # "operator"
    BY <1>1, <2>4, <2>5
  <2>7. Phased(p)
    BY <2>1, <2>3, <2>5 DEF Phased
  <2>8. Shown(p, held, owner)
    BY <2>1, <2>3, <2>5, <2>6 DEF Shown
  <2>9. Owns(p, x, owner)
    BY <2>1, <2>3, <2>5 DEF Owns
  <2> QED BY <2>2, <2>7, <2>8, <2>9
<1> QED BY <1>2, <1>3, <1>4 DEF PInv, KInv

LEMMA TickShown ==
    ASSUME TypeOK, PInv, KInv, WInv, Tick
    PROVE  PInv' /\ KInv' /\ WInv'
<1>1. UNCHANGED <<held, owner, built, agent>>
  BY DEF Tick
<1>2. ASSUME NEW x \in Slots PROVE Same(reqs'[x], reqs[x])
  <2>1. reqs[x] \in Reqs
    BY DEF TypeOK
  <2>2. reqs'[x] = [reqs[x] EXCEPT !.age = Older(reqs[x].age), !.mark = Older(reqs[x].mark)]
    BY DEF Tick
  <2> QED BY <2>1, <2>2 DEF Same, Reqs
<1>3. PInv'
  BY <1>2, SameShown DEF PInv
<1>4. KInv'
  BY <1>1, <1>2, SameShown DEF KInv
<1>5. WInv'
  BY <1>1, <1>2, GoesAsked DEF Same
<1> QED BY <1>3, <1>4, <1>5

LEMMA AgentsActShown ==
    ASSUME TypeOK, PInv, KInv, WInv, NEW h \in Hosts,
           AgentChange(h) \/ GiveUp(h) \/ \E r \in Slots : Poll(h, r) \/ PostFacts(h, r)
    PROVE  PInv' /\ KInv' /\ WInv'
<1>0. UNCHANGED <<held, owner, built>>
  BY DEF AgentChange, GiveUp, Poll, PostFacts, Send
<1>1. CASE AgentChange(h)
  <2>1. PICK d : agent' = [agent EXCEPT ![h].doc = d, ![h].no = None]
    BY <1>1 DEF AgentChange
  <2>2. \A x \in Hosts : agent'[x].pc = agent[x].pc /\ agent'[x].slot = agent[x].slot
    BY <2>1 DEF TypeOK
  <2>3. UNCHANGED reqs
    BY <1>1 DEF AgentChange
  <2>4. WInv'
    BY <2>2, <2>3 DEF WInv, Asked, Exchanging
  <2> QED BY <1>0, <2>3, <2>4 DEF PInv, KInv
<1>2. CASE GiveUp(h)
  <2>0. PICK s : s = agent[h].slot
    OBVIOUS
  <2>1. s \in Slots /\ Exchanging(reqs[s]) /\ reqs[s].host = h
    BY <1>2, <2>0 DEF WInv, Asked, GiveUp
  <2>2. agent' = [agent EXCEPT ![h].pc = "idle", ![h].slot = None]
    BY <1>2 DEF GiveUp
  <2>3. agent'[h].pc = "idle" /\ \A x \in Hosts \ {h} : agent'[x] = agent[x]
    BY <2>2 DEF TypeOK
  <2>4. CASE UNCHANGED reqs
    <3>1. WInv'
      BY <2>3, <2>4 DEF WInv, Asked, Exchanging
    <3> QED BY <1>0, <2>4, <3>1 DEF PInv, KInv
  <2>5. CASE Goto(s, IdleReq)
    <3>1. PInv' /\ KInv'
      <4>1. reqs[s].op \notin Console \ {"catalog"}
        BY <2>1 DEF Exchanging, Console
      <4> QED BY <1>0, <2>1, <2>5, <4>1, OversShown
    <3>2. \A x \in Slots \ {s} : reqs'[x] = reqs[x]
      BY <2>1, <2>5 DEF Goto, TypeOK
    <3>3. \A x \in Hosts \ {h} : agent[x].pc \in {"poll", "upload"} => agent[x].slot \in Slots \ {s}
      BY <2>1 DEF WInv, Asked
    <3>4. WInv'
      BY <2>3, <3>2, <3>3 DEF WInv, Asked, Exchanging
    <3> QED BY <3>1, <3>4
  <2> QED BY <1>2, <2>0, <2>4, <2>5 DEF GiveUp, Goto
<1>3. ASSUME NEW r \in Slots, NEW op \in {"poll", "upload"}, NEW pc \in {"poll", "upload"}, NEW d, Send(h, r, op, pc, d)
      PROVE  PInv' /\ KInv' /\ WInv'
  <2>1. PICK m : m = IF d = Empty THEN quiet[h] ELSE 0
    OBVIOUS
  <2>2. PICK n : n = [IdleReq EXCEPT !.op = op, !.pc = "start", !.host = h, !.doc = d, !.mark = m]
    OBVIOUS
  <2>3. n.op = op /\ n.pc = "start" /\ n.host = h /\ n.due = {}
    <3>1. IdleReq.due = {}
      BY DEF IdleReq
    <3> QED BY <2>2, <3>1, IdleTyped DEF Reqs
  <2>4. Goto(r, n) /\ reqs[r].pc = "idle"
    BY <1>3, <2>1, <2>2 DEF Send, Goto
  <2>5. reqs[r].op = "none"
    BY <2>4 DEF PInv, Phased
  <2>6. PInv' /\ KInv'
    <3>1. Phased(n) /\ Shown(n, held, owner)
      BY <2>3 DEF Phased, Shown
    <3>2. Owns(n, r, owner)
      BY <2>5 DEF KInv, Owns, Console
    <3> QED BY <1>0, <2>4, <3>1, <3>2, GoesShown
  <2>7. agent' = [agent EXCEPT ![h].pc = pc, ![h].sent = d, ![h].slot = r]
    BY <1>3 DEF Send
  <2>8. agent'[h].slot = r /\ \A x \in Hosts \ {h} : agent'[x] = agent[x]
    BY <2>7 DEF TypeOK
  <2>9. reqs'[r] = n /\ \A x \in Slots \ {r} : reqs'[x] = reqs[x]
    BY <2>4 DEF Goto, TypeOK
  <2>10. WInv'
    BY <2>3, <2>5, <2>8, <2>9 DEF WInv, Asked, Exchanging
  <2> QED BY <2>6, <2>10
<1>4. ASSUME NEW r \in Slots, Poll(h, r) \/ PostFacts(h, r) PROVE PInv' /\ KInv' /\ WInv'
  BY <1>3, <1>4 DEF Poll, PostFacts
<1> QED BY <1>1, <1>2, <1>4

LEMMA AnsweredShown ==
    ASSUME IInv, TypeOK, PInv, KInv, WInv, NEW r \in Slots, Exchanging(reqs[r]), NEW hdr, Answered(r, hdr),
           UNCHANGED <<held, owner, built>>
    PROVE  PInv' /\ KInv' /\ WInv'
<1>1. Goto(r, IdleReq)
  BY DEF Answered, Goto
<1>2. PInv' /\ KInv'
  <2>1. reqs[r].op \notin Console \ {"catalog"}
    BY DEF Exchanging, Console
  <2> QED BY <1>1, <2>1, OversShown
<1>3. PICK h \in Hosts : h = reqs[r].host
  BY DEF IInv, RInv, Good, Exchanging
<1>4. \A x \in Slots \ {r} : reqs'[x] = reqs[x]
  BY <1>1 DEF Goto, TypeOK
<1>5. \A x \in Hosts \ {h} : agent'[x] = agent[x] /\ (agent[x].pc \in {"poll", "upload"} => agent[x].slot \in Slots \ {r})
  BY <1>3 DEF WInv, Asked, Answered, TypeOK
<1>6. IF agent[h].slot # r THEN agent'[h] = agent[h] ELSE agent'[h].pc \in {"due", "idle"}
  <2>1. CASE agent[h].slot # r
    BY <1>3, <2>1 DEF Answered
  <2>2. CASE agent[h].slot = r
    <3>1. PICK next \in {"due", "idle"} :
            next = IF agent[h].pc = "poll" /\ hdr \in Maybe /\ hdr # agent[h].sent /\ agent[h].sent \notin {None, agent[h].no}
                   THEN "due" ELSE "idle"
      OBVIOUS
    <3>2. PICK no : no = IF hdr = "refused" THEN reqs[r].doc ELSE agent[h].no
      OBVIOUS
    <3>3. agent' = [agent EXCEPT ![h] = [agent[h] EXCEPT !.pc = next, !.slot = None, !.no = no]]
      BY <1>3, <2>2, <3>1, <3>2 DEF Answered
    <3> QED BY <2>2, <3>3 DEF TypeOK
  <2> QED BY <2>1, <2>2
<1>7. WInv'
  BY <1>4, <1>5, <1>6 DEF WInv, Asked, Exchanging
<1> QED BY <1>2, <1>7

LEMMA AsideAll ==
    ASSUME TypeOK, PInv, KInv, WInv, NEW r \in Slots, NEW n, Goto(r, n), UNCHANGED <<held, owner, built, agent>>,
           reqs[r].op \notin {"none", "catalog"}, n.op = reqs[r].op, n.due = reqs[r].due, n.changed = reqs[r].changed,
           Exchanging(reqs[r]) => n.host = reqs[r].host,
           n.pc \notin {"idle", "lock", "sources", "read", "shown"}, reqs[r].pc # "stored"
    PROVE  PInv' /\ KInv' /\ WInv'
<1>1. PInv' /\ KInv'
  BY GoesAside
<1>2. reqs'[r] = n /\ OthersAlike(r)
  BY GotoAlike
<1> QED BY <1>1, <1>2, AlikeAsked

LEMMA ExchangeShown ==
    ASSUME IInv, TypeOK, PInv, KInv, WInv, NEW r \in Slots, Exchange(r) \/ PollFails(r) \/ UploadFails(r)
    PROVE  PInv' /\ KInv' /\ WInv'
<1>0. PICK q : q = reqs[r]
  OBVIOUS
<1>1. q \in Reqs /\ Exchanging(q) /\ UNCHANGED <<held, owner, built>>
  BY <1>0 DEF Exchange, PollRead, PollFails, PollReport, PollGrace, PollAnswer, UploadRefuse, UploadRead, UploadReport,
     UploadFails, Running, Exchanging, TypeOK, DocsUnchanged
<1>2. CASE \E hdr : Answered(r, hdr)
  BY <1>0, <1>1, <1>2, AnsweredShown
<1>3. ASSUME NEW n, Goto(r, n), UNCHANGED agent, n.op = q.op, n.due = q.due, n.changed = q.changed, n.host = q.host,
             n.pc \in {"grace", "clear", "report", "get"}, q.pc # "stored"
      PROVE  PInv' /\ KInv' /\ WInv'
  <2>1. q.op \notin {"none", "catalog"}
    BY <1>1 DEF Exchanging
  <2> QED BY <1>0, <1>1, <1>3, <2>1, AsideAll
<1>4. CASE PollRead(r)
  <2>1. PICK s, b, a : s = held[Agent(r)] /\ b = (told[q.host].hash = Empty) /\ a = told[q.host].age
    OBVIOUS
  <2>2. PICK p \in {"grace", "clear", "report"} : p = IF told[q.host].hash = q.doc THEN "grace"
                                                      ELSE IF q.doc = None THEN "clear" ELSE "report"
    OBVIOUS
  <2>3. PICK n : n = [q EXCEPT !.seen = s, !.told = b, !.age = a, !.pc = p]
    OBVIOUS
  <2>4. Goto(r, n) /\ UNCHANGED agent /\ q.pc # "stored"
    BY <1>0, <1>4, <2>1, <2>2, <2>3 DEF PollRead, Running
  <2>5. n.op = q.op /\ n.due = q.due /\ n.changed = q.changed /\ n.host = q.host /\ n.pc = p
    BY <1>1, <2>3 DEF Reqs
  <2> QED BY <1>3, <2>2, <2>4, <2>5
<1>5. CASE PollReport(r)
  <2>1. PICK m : m = IF q.doc = Empty THEN q.mark ELSE Grace
    OBVIOUS
  <2>2. PICK n : Goto(r, n) /\ (n = [q EXCEPT !.pc = "grace"] \/ n = [q EXCEPT !.pc = "grace", !.mark = m])
    BY <1>0, <1>5, <2>1 DEF PollReport
  <2>3. UNCHANGED agent /\ q.pc # "stored"
    BY <1>0, <1>5 DEF PollReport
  <2>4. n.op = q.op /\ n.due = q.due /\ n.changed = q.changed /\ n.host = q.host /\ n.pc = "grace"
    <3>1. CASE n = [q EXCEPT !.pc = "grace"]
      BY <1>1, <3>1 DEF Reqs
    <3>2. CASE n = [q EXCEPT !.pc = "grace", !.mark = m]
      BY <1>1, <3>2 DEF Reqs
    <3> QED BY <2>2, <3>1, <3>2
  <2> QED BY <1>3, <2>2, <2>3, <2>4
<1>6. CASE PollGrace(r)
  <2>1. CASE Goto(r, [q EXCEPT !.pc = "get"]) /\ UNCHANGED <<agent, quiet>>
    <3>1. PICK n : n = [q EXCEPT !.pc = "get"]
      OBVIOUS
    <3>2. n.op = q.op /\ n.due = q.due /\ n.changed = q.changed /\ n.host = q.host /\ n.pc = "get"
      BY <1>1, <3>1 DEF Reqs
    <3>3. q.pc # "stored"
      BY <1>0, <1>6 DEF PollGrace, Running
    <3> QED BY <1>3, <2>1, <3>1, <3>2, <3>3
  <2> QED BY <1>0, <1>2, <1>6, <2>1 DEF PollGrace
<1>7. CASE UploadRead(r)
  <2>1. PICK s : s = held[Agent(r)]
    OBVIOUS
  <2>2. PICK p \in {"report", "get"} : Goto(r, [q EXCEPT !.seen = s, !.pc = p])
    BY <1>0, <1>7, <2>1 DEF UploadRead
  <2>3. PICK n : n = [q EXCEPT !.seen = s, !.pc = p]
    OBVIOUS
  <2>4. n.op = q.op /\ n.due = q.due /\ n.changed = q.changed /\ n.host = q.host /\ n.pc = p
    BY <1>1, <2>3 DEF Reqs
  <2>5. UNCHANGED agent /\ q.pc # "stored"
    BY <1>0, <1>7 DEF UploadRead, Running
  <2> QED BY <1>3, <2>2, <2>3, <2>4, <2>5
<1>8. CASE PollFails(r) \/ PollAnswer(r) \/ UploadRefuse(r) \/ UploadReport(r) \/ UploadFails(r)
  BY <1>2, <1>8 DEF PollFails, PollAnswer, UploadRefuse, UploadReport, UploadFails
<1> QED BY <1>4, <1>5, <1>6, <1>7, <1>8 DEF Exchange

LEMMA StoreShown ==
    ASSUME IInv, TypeOK, TypeOK', PInv, KInv, WInv, NEW r \in Slots, Store(r) \/ StoreFails(r)
    PROVE  PInv' /\ KInv' /\ WInv'
<1>0. PICK q : q = reqs[r]
  OBVIOUS
<1>1. /\ q \in Reqs /\ q.pc \in {"get", "replace", "stored"} /\ UNCHANGED agent
      /\ Phased(q) /\ Shown(q, held, owner) /\ Owns(q, r, owner)
  BY <1>0 DEF Store, StoreGet, StoreMisses, StoreReplace, Stored, StoreFails, ExchangeUnchanged, TypeOK, PInv, KInv
<1>2. q.op \notin {"none", "catalog"} /\ q.due = {}
  BY <1>1 DEF Phased, Shown
<1>3. ASSUME NEW n, Goto(r, n), UNCHANGED <<held, owner, built>>, n.op = q.op, n.due = q.due, n.changed = q.changed,
             n.host = q.host, n.pc \in {"answer", "report", "fail", "rows", "get", "replace", "finish"}, q.pc # "stored"
      PROVE  PInv' /\ KInv' /\ WInv'
  BY <1>0, <1>1, <1>2, <1>3, AsideAll
<1>4. ASSUME NEW ok \in BOOLEAN, NEW n, n = Done(q, ok)
      PROVE  /\ n.op = q.op /\ n.due = q.due /\ n.changed = q.changed /\ n.host = q.host
             /\ n.pc \in {"answer", "report", "fail", "rows"}
  <2>1. n.changed = q.changed
    BY <1>1, <1>4, DoneKeeps
  <2> QED BY <1>1, <1>4, <2>1, DoneIs
<1>5. CASE StoreGet(r)
  <2>1. PICK now : now = held[<<q.host, q.src>>]
    OBVIOUS
  <2>2. PICK n : Goto(r, n) /\ (n = Done(q, TRUE) \/ n = [q EXCEPT !.pc = "replace", !.prev = now]) /\ q.pc = "get"
    BY <1>0, <1>5, <2>1 DEF StoreGet
  <2>3. UNCHANGED <<held, owner, built>>
    BY <1>5 DEF StoreGet, DocsUnchanged
  <2>4. CASE n = [q EXCEPT !.pc = "replace", !.prev = now]
    <3>1. n.op = q.op /\ n.due = q.due /\ n.changed = q.changed /\ n.host = q.host /\ n.pc = "replace"
      BY <1>1, <2>4 DEF Reqs
    <3> QED BY <1>3, <2>2, <2>3, <3>1
  <2> QED BY <1>3, <1>4, <2>2, <2>3, <2>4
<1>6. CASE StoreMisses(r)
  <2>1. PICK n : /\ Goto(r, n) /\ q.pc = "replace"
                 /\ n \in {Done(q, TRUE), Done(q, FALSE)} \/ n = [q EXCEPT !.pc = "get", !.tries = q.tries + 1]
    BY <1>0, <1>6 DEF StoreMisses
  <2>2. UNCHANGED <<held, owner, built>>
    BY <1>6 DEF StoreMisses, DocsUnchanged
  <2>3. CASE n = [q EXCEPT !.pc = "get", !.tries = q.tries + 1]
    <3>1. n.op = q.op /\ n.due = q.due /\ n.changed = q.changed /\ n.host = q.host /\ n.pc = "get"
      BY <1>1, <2>3 DEF Reqs
    <3> QED BY <1>3, <2>1, <2>2, <3>1
  <2> QED BY <1>3, <1>4, <2>1, <2>2, <2>3
<1>7. CASE StoreFails(r)
  <2>1. PICK n : Goto(r, n) /\ (n = [q EXCEPT !.pc = "finish"] \/ n = Done(q, FALSE))
    BY <1>0, <1>7 DEF StoreFails
  <2>2. UNCHANGED <<held, owner, built>> /\ q.pc # "stored"
    BY <1>0, <1>7 DEF StoreFails, DocsUnchanged
  <2>3. CASE n = [q EXCEPT !.pc = "finish"]
    <3>1. n.op = q.op /\ n.due = q.due /\ n.changed = q.changed /\ n.host = q.host /\ n.pc = "finish"
      BY <1>1, <2>3 DEF Reqs
    <3> QED BY <1>3, <2>1, <2>2, <3>1
  <2> QED BY <1>3, <1>4, <2>1, <2>2, <2>3
<1>8. CASE StoreReplace(r)
  <2>1. PICK n : n = [q EXCEPT !.pc = "stored"]
    OBVIOUS
  <2>2. n.op = q.op /\ n.due = q.due /\ n.changed = q.changed /\ n.host = q.host /\ n.pc = "stored"
    BY <1>1, <2>1 DEF Reqs
  <2>3. PICK c : c = <<q.host, q.src>>
    OBVIOUS
  <2>4. PICK by : by = IF q.op = "import" THEN r ELSE "other"
    OBVIOUS
  <2>5. Changed({c}, by, r, n) /\ held' = [held EXCEPT ![c] = q.doc] /\ UNCHANGED built
    BY <1>0, <1>8, <2>1, <2>3, <2>4 DEF StoreReplace
  <2>6. by # "operator" /\ \A x \in Slots \ {r} : by # x
    BY <2>4, NamesAssumption
  <2>7. \A x \in Cells \ {c} : held'[x] = held[x]
    BY <2>5 DEF TypeOK
  <2>8. Phased(n) /\ Shown(n, held', owner')
    BY <1>2, <2>2 DEF Phased, Shown
  <2>9. Owns(n, r, owner')
    <3>1. \A x \in Cells : owner'[x] = r => owner[x] = r \/ q.op = "import"
      BY <2>4, <2>5, NamesAssumption DEF Changed
    <3> QED BY <1>1, <2>2, <3>1 DEF Owns, Console
  <2>10. PInv' /\ KInv'
    BY <2>5, <2>6, <2>7, <2>8, <2>9, ChangedShown
  <2>11. reqs'[r] = n /\ OthersAlike(r)
    BY <2>5, ChangedAlike
  <2>12. WInv'
    BY <1>0, <1>1, <2>2, <2>11, AlikeAsked
  <2> QED BY <2>10, <2>12
<1>9. CASE Stored(r)
  <2>1. PICK n : n = [Done(q, TRUE) EXCEPT !.changed = TRUE]
    OBVIOUS
  <2>2. n.op = q.op /\ n.due = q.due /\ n.host = q.host /\ n.pc \in {"answer", "report", "fail", "rows"} /\ n.changed = TRUE
    <3>1. Done(q, TRUE) \in Reqs
      BY <1>1, DoneTyped
    <3>2. n.changed = TRUE
      BY <2>1, <3>1 DEF Reqs
    <3> QED BY <1>1, <2>1, <3>2, DoneIs
  <2>3. Bump("stored", r, n) /\ UNCHANGED <<held, owner>>
    BY <1>0, <1>9, <2>1 DEF Stored, DocsUnchanged
  <2>4. Phased(n) /\ Shown(n, held, owner)
    BY <1>2, <2>2 DEF Phased, Shown
  <2>5. Owns(n, r, owner)
    BY <1>1, <2>2 DEF Owns
  <2>6. PInv' /\ KInv'
    BY <2>3, <2>4, <2>5, BumpShown
  <2>7. reqs'[r] = n /\ OthersAlike(r)
    BY <2>3, BumpAlike
  <2>8. WInv'
    BY <1>0, <1>1, <2>2, <2>7, AlikeAsked
  <2> QED BY <2>6, <2>8
<1> QED BY <1>5, <1>6, <1>7, <1>8, <1>9 DEF Store

LEMMA AsksShown ==
    ASSUME TypeOK, PInv, KInv, WInv, NEW r \in Slots,
           Import(r) \/ DeleteHostSource(r) \/ DeleteSource(r) \/ DeleteHosts(r) \/ Catalog(r)
    PROVE  PInv' /\ KInv' /\ WInv'
<1>0. IdleReq.due = {} /\ IdleReq.cat = NoDocs
  BY DEF IdleReq
<1>1. ASSUME NEW n, Ask(r, n), n.op \in Console,
             \/ n.op # "catalog" /\ n.pc \in {"rows", "remove"} /\ n.due = {}
             \/ n.op = "catalog" /\ n.pc = "start" /\ n.cat = NoDocs /\ n.due = {c \in Cells : owner[c] = "operator"}
      PROVE  PInv' /\ KInv' /\ WInv'
  <2>1. Goto(r, n) /\ UNCHANGED <<held, owner, built, agent>> /\ reqs[r].pc = "idle"
    BY <1>1 DEF Ask, DocsUnchanged
  <2>2. reqs[r].op = "none"
    BY <2>1 DEF PInv, Phased
  <2>3. Owns(n, r, owner)
    BY <2>2 DEF KInv, Owns, Console
  <2>4. Phased(n) /\ Shown(n, held, owner)
    BY <1>1 DEF Phased, Shown, Console
  <2>5. PInv' /\ KInv'
    BY <2>1, <2>3, <2>4, GoesShown
  <2>6. reqs'[r] = n /\ OthersAlike(r)
    BY <2>1, GotoAlike
  <2>7. WInv'
    BY <2>1, <2>2, <2>6, AlikeAsked DEF Exchanging
  <2> QED BY <2>5, <2>7
<1>2. CASE Import(r)
  <2>1. PICK file, p : Ask(r, [IdleReq EXCEPT !.op = "import", !.src = "import", !.pc = "rows", !.prune = p,
                                 !.todo = Matched(file), !.present = {row[1] : row \in Matched(file)}])
    BY <1>2 DEF Import
  <2>2. PICK n : n = [IdleReq EXCEPT !.op = "import", !.src = "import", !.pc = "rows", !.prune = p,
                                 !.todo = Matched(file), !.present = {row[1] : row \in Matched(file)}]
    OBVIOUS
  <2>3. n.op = "import" /\ n.pc = "rows" /\ n.due = {}
    BY <1>0, <2>2, IdleTyped DEF Reqs
  <2> QED BY <1>1, <2>1, <2>2, <2>3 DEF Console
<1>3. CASE DeleteHostSource(r) \/ DeleteSource(r) \/ DeleteHosts(r)
  <2>1. PICK op, T : Ask(r, [IdleReq EXCEPT !.op = op, !.pc = "remove", !.todo = T]) /\ op \in Console \ {"catalog"}
    <3>1. \A o : o \in {"delete_host_source", "delete_source", "delete_hosts"} => o \in Console \ {"catalog"}
      BY DEF Console
    <3>2. CASE DeleteHostSource(r)
      <4>1. PICK h \in hosts : Ask(r, [IdleReq EXCEPT !.op = "delete_host_source", !.pc = "remove",
                                                     !.todo = {<<h, None>>}])
        BY <3>2 DEF DeleteHostSource
      <4> QED BY <3>1, <4>1
    <3>3. CASE DeleteSource(r)
      BY <3>1, <3>3 DEF DeleteSource
    <3>4. CASE DeleteHosts(r)
      <4>1. PICK S \in SUBSET hosts \ {{}} : Ask(r, [IdleReq EXCEPT !.op = "delete_hosts", !.pc = "remove",
                                                     !.todo = {<<h, None>> : h \in S}])
        BY <3>4 DEF DeleteHosts
      <4> QED BY <3>1, <4>1
    <3> QED BY <1>3, <3>2, <3>3, <3>4
  <2>2. PICK n : n = [IdleReq EXCEPT !.op = op, !.pc = "remove", !.todo = T]
    OBVIOUS
  <2>3. n.op = op /\ n.pc = "remove" /\ n.due = {}
    BY <1>0, <2>2, IdleTyped DEF Reqs
  <2> QED BY <1>1, <2>1, <2>2, <2>3
<1>4. CASE Catalog(r)
  <2>1. PICK D : D = {c \in Cells : owner[c] = "operator"} /\ Ask(r, [IdleReq EXCEPT !.op = "catalog", !.pc = "start", !.due = D])
    BY <1>4 DEF Catalog
  <2>2. PICK n : n = [IdleReq EXCEPT !.op = "catalog", !.pc = "start", !.due = D]
    OBVIOUS
  <2>3. n.op = "catalog" /\ n.pc = "start" /\ n.due = D /\ n.cat = NoDocs
    BY <1>0, <2>2, IdleTyped DEF Reqs
  <2> QED BY <1>1, <2>1, <2>2, <2>3 DEF Console
<1> QED BY <1>2, <1>3, <1>4

LEMMA RemoveShown ==
    ASSUME IInv, TypeOK, PInv, KInv, WInv, NEW r \in Slots, Remove(r)
    PROVE  PInv' /\ KInv' /\ WInv'
<1> DEFINE q == reqs[r]
           Of(rows) == {c \in {row[1] : row \in rows} \X (IF q.op = "delete_hosts" THEN Sources ELSE {"import"}) :
                          held[c] # None}
<1>0. q = reqs[r]
  OBVIOUS
<1>1. /\ q \in Reqs /\ q.pc = "remove" /\ UNCHANGED <<agent, built>>
      /\ Phased(q) /\ Shown(q, held, owner) /\ Owns(q, r, owner)
  BY <1>0 DEF Remove, ExchangeUnchanged, TypeOK, PInv, KInv
<1>2. ~Exchanging(q)
  BY <1>0, <1>1 DEF IInv, RInv, Good, Exchanging, ConsolePhases
<1>3. q.op \in Console \ {"catalog"} /\ q.due = {}
  BY <1>1, <1>2 DEF Phased, Shown, Exchanging, Reqs
<1>4. PICK rows \in SUBSET q.todo \ {{}} :
        /\ held' = [c \in Cells |-> IF c \in Of(rows) THEN None ELSE held[c]]
        /\ Changed(Of(rows), r, r,
                   [q EXCEPT !.todo = q.todo \ rows,
                             !.changed = q.changed \/ Of(rows) # {} \/ hosts' # hosts])
  BY DEF Remove
<1>5. PICK cs : cs = Of(rows)
  OBVIOUS
<1> HIDE DEF Of, q
<1>6. PICK b : b = (q.changed \/ cs # {} \/ hosts' # hosts)
  OBVIOUS
<1>7. PICK n : n = [q EXCEPT !.todo = q.todo \ rows, !.changed = b]
  OBVIOUS
<1>8. n.op = q.op /\ n.pc = "remove" /\ n.due = {} /\ n.changed = b
  BY <1>1, <1>3, <1>7 DEF Reqs
<1>9. Changed(cs, r, r, n)
  BY <1>4, <1>5, <1>6, <1>7
<1>10. \A c \in Cells \ cs : held'[c] = held[c]
  BY <1>4, <1>5
<1>11. Phased(n) /\ Shown(n, held', owner')
  BY <1>3, <1>8 DEF Phased, Shown, Console
<1>12. Owns(n, r, owner')
  <2>1. ASSUME NEW c \in Cells, owner'[c] = r PROVE b
    <3>1. c \in cs \/ owner[c] = r
      BY <1>9, <2>1 DEF Changed
    <3>2. cs # {} \/ q.changed
      BY <1>1, <3>1 DEF Owns
    <3> QED BY <1>6, <3>2
  <2> QED BY <1>3, <1>8, <2>1 DEF Owns
<1>13. r # "operator"
  BY NamesAssumption
<1>14. PInv' /\ KInv'
  BY <1>1, <1>9, <1>10, <1>11, <1>12, <1>13, ChangedShown
<1>15. reqs'[r] = n /\ OthersAlike(r)
  BY <1>9, ChangedAlike
<1>16. WInv'
  BY <1>0, <1>1, <1>2, <1>15, AlikeAsked
<1> QED BY <1>14, <1>16

\* An operator's call that changed something marks the catalogue, and owes it from then on.
LEMMA FinishShown ==
    ASSUME IInv, TypeOK, TypeOK', PInv, KInv, WInv, NEW r \in Slots, Finish(r)
    PROVE  PInv' /\ KInv' /\ WInv'
<1>0. PICK q : q = reqs[r]
  OBVIOUS
<1>1. /\ q \in Reqs /\ q.pc \in {"finish", "remove"} /\ UNCHANGED <<held, agent>>
      /\ Phased(q) /\ Shown(q, held, owner) /\ Owns(q, r, owner)
  BY <1>0 DEF Finish, ExchangeUnchanged, TypeOK, PInv, KInv
<1>2. ~Exchanging(q)
  BY <1>0, <1>1 DEF IInv, RInv, Good, Exchanging, ConsolePhases
<1>3. CASE ~q.changed
  <2>1. \A c \in Cells : owner[c] # r
    BY <1>1, <1>3 DEF Owns
  <2>2. owner' = owner
    BY <2>1 DEF Finish, TypeOK
  <2>3. Goto(r, IdleReq) /\ UNCHANGED built
    BY <1>0, <1>3 DEF Finish
  <2>4. Owns(IdleReq, r, owner)
    BY <2>1 DEF Owns
  <2>5. PInv' /\ KInv'
    BY <1>1, <2>2, <2>3, <2>4, IdleShown, GoesShown
  <2>6. reqs'[r] = IdleReq /\ OthersAlike(r)
    BY <2>3, GotoAlike
  <2>7. WInv'
    BY <1>0, <1>1, <1>2, <2>6, AlikeAsked
  <2> QED BY <2>5, <2>7
<1>4. CASE q.changed
  <2>1. Bump("operator", r, IdleReq)
    BY <1>0, <1>4 DEF Finish
  <2>2. \A c \in Cells : owner'[c] = IF owner[c] = r THEN "operator" ELSE owner[c]
    BY DEF Finish
  <2>3. \A a : Worse(a, "operator") = "operator"
    BY DEF Worse
  <2>4. built'.since = "operator"
    BY <2>1, <2>3 DEF Bump, TypeOK
  <2>5. r # "operator"
    BY NamesAssumption
  <2>6. reqs'[r] = IdleReq
    BY <2>1 DEF Bump
  <2>7. Phased(IdleReq) /\ Shown(IdleReq, held', owner') /\ Owns(IdleReq, r, owner')
    <3>1. \A c \in Cells : owner'[c] # r
      BY <2>2, <2>5
    <3> QED BY <3>1, IdleShown DEF Owns
  <2>8. ASSUME NEW x \in Slots \ {r}
        PROVE  Phased(reqs'[x]) /\ Shown(reqs'[x], held', owner') /\ Owns(reqs'[x], x, owner')
    <3>1. reqs[x] \in Reqs /\ Phased(reqs[x]) /\ Shown(reqs[x], held, owner) /\ Owns(reqs[x], x, owner)
      BY DEF TypeOK, PInv, KInv
    <3>2. PICK p : p = reqs'[x]
      OBVIOUS
    <3>3. PICK y \in Reqs : y = reqs[x]
      BY <3>1
    <3>4. /\ p.op = y.op /\ p.pc = y.pc /\ p.due = y.due /\ p.cat = y.cat /\ p.srcs = y.srcs
          /\ p.since = "operator" /\ p.changed = y.changed /\ y.due \subseteq Cells
      <4>1. p = [y EXCEPT !.since = "operator"]
        BY <2>1, <2>3, <3>2, <3>3 DEF Bump
      <4> QED BY <3>3, <4>1 DEF Reqs
    <3>5. Phased(p)
      BY <3>1, <3>3, <3>4 DEF Phased
    <3>6. Shown(p, held', owner')
      <4>1. \A c \in p.due : owner[c] = "operator" /\ owner'[c] = "operator"
        BY <2>2, <2>5, <3>1, <3>3, <3>4 DEF Shown
      <4>2. p.pc = "read" => \A c \in Cells : c[2] \notin p.srcs /\ c \in p.due => p.cat[c] = held[c]
        BY <3>1, <3>3, <3>4, <4>1 DEF Shown
      <4> QED BY <1>1, <3>1, <3>3, <3>4, <4>1, <4>2 DEF Shown
    <3>7. Owns(p, x, owner')
      <4>1. \A c \in Cells : owner'[c] = x => owner[c] = x
        BY <2>2, NamesAssumption
      <4> QED BY <3>1, <3>3, <3>4, <4>1 DEF Owns
    <3> QED BY <3>2, <3>5, <3>6, <3>7
  <2>9. PInv' /\ KInv'
    BY <2>4, <2>6, <2>7, <2>8 DEF PInv, KInv, Kept
  <2>10. OthersAlike(r)
    BY <2>1, BumpAlike
  <2>11. WInv'
    BY <1>0, <1>1, <1>2, <2>6, <2>10, AlikeAsked
  <2> QED BY <2>9, <2>11
<1> QED BY <1>3, <1>4

LEMMA ConsoleShown ==
    ASSUME IInv, TypeOK, TypeOK', PInv, KInv, WInv, NEW r \in Slots,
           ImportRow(r) \/ ImportHolding(r) \/ RemoveFails(r) \/ HangUp(r)
    PROVE  PInv' /\ KInv' /\ WInv'
<1>0. PICK q : q = reqs[r]
  OBVIOUS
<1>1. /\ q \in Reqs /\ UNCHANGED <<held, built, agent>>
      /\ Phased(q) /\ Shown(q, held, owner) /\ Owns(q, r, owner)
  BY <1>0 DEF ImportRow, ImportHolding, RemoveFails, HangUp, DocsUnchanged, ExchangeUnchanged, TypeOK, PInv, KInv
<1>2. ~Exchanging(q)
  BY <1>0 DEF ImportRow, ImportHolding, RemoveFails, HangUp, IInv, RInv, Good, Exchanging, ConsolePhases, Console
<1>3. ASSUME NEW n, Goto(r, n), UNCHANGED owner, n.op = q.op, n.due = q.due, n.changed = q.changed,
             n.pc \in {"get", "holding", "remove", "finish"}, q.pc \in {"rows", "holding", "remove"}
      PROVE  PInv' /\ KInv' /\ WInv'
  <2>1. q.op \notin {"none", "catalog"}
    BY <1>1, <1>3 DEF Phased
  <2> QED BY <1>0, <1>1, <1>2, <1>3, <2>1, AsideAll
<1>4. CASE ImportRow(r)
  <2>1. q.pc = "rows" /\ UNCHANGED owner
    BY <1>0, <1>4 DEF ImportRow, DocsUnchanged
  <2>2. CASE \E row \in q.todo :
               Goto(r, [q EXCEPT !.pc = "get", !.host = row[1], !.doc = row[2], !.tries = 0,
                                 !.todo = q.todo \ {row}])
    <3>1. PICK row \in q.todo : Goto(r, [q EXCEPT !.pc = "get", !.host = row[1], !.doc = row[2], !.tries = 0,
                                                  !.todo = q.todo \ {row}])
      BY <2>2
    <3>2. PICK n : n = [q EXCEPT !.pc = "get", !.host = row[1], !.doc = row[2], !.tries = 0, !.todo = q.todo \ {row}]
      OBVIOUS
    <3>3. n.op = q.op /\ n.due = q.due /\ n.changed = q.changed /\ n.pc = "get"
      BY <1>1, <3>2 DEF Reqs
    <3> QED BY <1>3, <2>1, <3>1, <3>2, <3>3
  <2>3. CASE Goto(r, [q EXCEPT !.pc = IF q.prune THEN "holding" ELSE "finish"])
    <3>1. PICK p \in {"holding", "finish"} : p = IF q.prune THEN "holding" ELSE "finish"
      OBVIOUS
    <3>2. PICK n : n = [q EXCEPT !.pc = p]
      OBVIOUS
    <3>3. n.op = q.op /\ n.due = q.due /\ n.changed = q.changed /\ n.pc = p
      BY <1>1, <3>2 DEF Reqs
    <3> QED BY <1>3, <2>1, <2>3, <3>1, <3>2, <3>3
  <2> QED BY <1>0, <1>4, <2>2, <2>3 DEF ImportRow
<1>5. CASE ImportHolding(r)
  <2>1. q.pc = "holding" /\ UNCHANGED owner
    BY <1>0, <1>5 DEF ImportHolding, DocsUnchanged
  <2>2. PICK T : T = {<<h, None>> : h \in {x \in Hosts \ q.present : held[<<x, "import">>] # None}}
    OBVIOUS
  <2>3. PICK n : Goto(r, n) /\ (n = [q EXCEPT !.pc = "remove", !.todo = T] \/ n = [q EXCEPT !.pc = "finish"])
    BY <1>0, <1>5, <2>2 DEF ImportHolding
  <2>4. n.op = q.op /\ n.due = q.due /\ n.changed = q.changed /\ n.pc \in {"remove", "finish"}
    BY <1>1, <2>3 DEF Reqs
  <2> QED BY <1>3, <2>1, <2>3, <2>4
<1>6. CASE RemoveFails(r)
  <2>1. q.pc = "remove"
    BY <1>0, <1>6 DEF RemoveFails
  <2>2. CASE Goto(r, [q EXCEPT !.pc = "finish"]) /\ UNCHANGED owner
    <3>1. PICK n : n = [q EXCEPT !.pc = "finish"]
      OBVIOUS
    <3>2. n.op = q.op /\ n.due = q.due /\ n.changed = q.changed /\ n.pc = "finish"
      BY <1>1, <3>1 DEF Reqs
    <3> QED BY <1>3, <2>1, <2>2, <3>1, <3>2
  <2>3. CASE Changed({c \in Cells : owner[c] = r}, "other", r, IdleReq)
    <3>1. "other" # "operator" /\ \A x \in Slots \ {r} : "other" # x
      BY NamesAssumption
    <3>2. Owns(IdleReq, r, owner')
      <4>1. \A c \in Cells : owner'[c] # r
        BY <2>3, NamesAssumption DEF Changed
      <4> QED BY <4>1 DEF Owns
    <3>3. PInv' /\ KInv'
      BY <1>1, <2>3, <3>1, <3>2, IdleShown, ChangedShown
    <3>4. reqs'[r] = IdleReq /\ OthersAlike(r)
      BY <2>3, ChangedAlike
    <3>5. WInv'
      BY <1>0, <1>1, <1>2, <3>4, AlikeAsked
    <3> QED BY <3>3, <3>5
  <2> QED BY <1>0, <1>6, <2>2, <2>3 DEF RemoveFails
<1>7. CASE HangUp(r)
  <2>1. Goto(r, IdleReq) /\ \A c \in Cells : owner'[c] = IF owner[c] = r THEN "other" ELSE owner[c]
    BY <1>7 DEF HangUp
  <2>2. reqs'[r] = IdleReq /\ \A x \in Slots \ {r} : reqs'[x] = reqs[x]
    BY <2>1 DEF Goto, TypeOK
  <2>3. \A c \in Cells : owner'[c] # r /\ (owner'[c] = "operator" => owner[c] = "operator")
    BY <2>1, NamesAssumption
  <2>4. Kept(built, held, owner')
    BY <2>3 DEF KInv, Kept
  <2>5. ASSUME NEW x \in Slots \ {r}
        PROVE  Phased(reqs[x]) /\ Shown(reqs[x], held, owner') /\ Owns(reqs[x], x, owner')
    <3>1. Phased(reqs[x]) /\ Shown(reqs[x], held, owner) /\ Owns(reqs[x], x, owner) /\ reqs[x].due \subseteq Cells
      BY DEF PInv, KInv, TypeOK, Reqs
    <3>2. \A c \in Cells : owner'[c] = x => owner[c] = x
      BY <2>1, NamesAssumption
    <3>3. \A c \in reqs[x].due : owner'[c] = "operator"
      BY <2>1, <3>1, NamesAssumption DEF Shown
    <3>4. Shown(reqs[x], held, owner')
      BY <2>3, <3>1, <3>3 DEF Shown
    <3>5. Owns(reqs[x], x, owner')
      BY <3>1, <3>2 DEF Owns
    <3> QED BY <3>1, <3>4, <3>5
  <2>6. Phased(IdleReq) /\ Shown(IdleReq, held, owner') /\ Owns(IdleReq, r, owner')
    BY <2>3, IdleShown DEF Owns
  <2>7. PInv' /\ KInv'
    <3>1. \A x \in Slots : Phased(reqs'[x]) /\ Shown(reqs'[x], held, owner') /\ Owns(reqs'[x], x, owner')
      BY <2>2, <2>5, <2>6
    <3> QED BY <1>1, <2>4, <3>1 DEF PInv, KInv
  <2>8. OthersAlike(r)
    BY <2>1, GotoAlike
  <2>9. WInv'
    BY <1>0, <1>1, <1>2, <2>2, <2>8, AlikeAsked
  <2> QED BY <2>7, <2>9
<1> QED BY <1>4, <1>5, <1>6, <1>7

LEMMA CatalogShowing ==
    ASSUME IInv, TypeOK, TypeOK', PInv, KInv, WInv, NEW r \in Slots,
           CatalogLookup(r) \/ CatalogSources(r) \/ CatalogRead(r) \/ CatalogKeep(r) \/ CatalogShown(r)
    PROVE  PInv' /\ KInv' /\ WInv'
<1>0. PICK q : q = reqs[r]
  OBVIOUS
<1>1. /\ q \in Reqs /\ UNCHANGED <<held, owner, agent>>
      /\ Phased(q) /\ Shown(q, held, owner) /\ Owns(q, r, owner) /\ Kept(built, held, owner)
  BY <1>0 DEF CatalogLookup, CatalogSources, CatalogRead, CatalogKeep, CatalogShown, DocsUnchanged, ExchangeUnchanged,
     TypeOK, PInv, KInv
<1>2. q.op = "catalog" /\ ~Exchanging(q) /\ q.due \subseteq Cells
  BY <1>0, <1>1 DEF CatalogLookup, CatalogSources, CatalogRead, CatalogKeep, CatalogShown, Phased, Exchanging, Reqs
<1>3. ASSUME NEW n, Goto(r, n) PROVE WInv'
  <2>1. reqs'[r] = n /\ OthersAlike(r)
    BY <1>3, GotoAlike
  <2> QED BY <1>0, <1>1, <1>2, <2>1, AlikeAsked
<1>4. ASSUME NEW n, n.op = "catalog" PROVE Owns(n, r, owner)
  BY <1>1, <1>2 DEF Owns
<1>5. ASSUME NEW n, Goto(r, n), UNCHANGED built, n.op = "catalog", n.pc \in {"lock", "sources", "read", "shown"},
             Shown(n, held, owner)
      PROVE  PInv' /\ KInv' /\ WInv'
  <2>1. Phased(n)
    BY <1>5 DEF Phased
  <2> QED BY <1>1, <1>3, <1>4, <1>5, <2>1, GoesShown
<1>6. CASE CatalogLookup(r)
  <2>1. UNCHANGED built /\ q.pc \in {"start", "lock"}
    BY <1>0, <1>6 DEF CatalogLookup
  <2>2. CASE Goto(r, [q EXCEPT !.pc = "shown", !.cat = built.cat]) /\ built.is /\ built.since # "operator"
    <3>1. PICK k : k = built.cat
      OBVIOUS
    <3>2. PICK n : n = [q EXCEPT !.pc = "shown", !.cat = k]
      OBVIOUS
    <3>3. n.op = "catalog" /\ n.pc = "shown" /\ n.cat = k /\ n.due = q.due
      BY <1>1, <1>2, <3>2 DEF Reqs
    <3>4. Shown(n, held, owner)
      BY <1>1, <1>2, <2>2, <3>1, <3>3 DEF Shown, Kept
    <3> QED BY <1>5, <2>1, <2>2, <3>1, <3>2, <3>3, <3>4
  <2>3. CASE Goto(r, [q EXCEPT !.pc = "lock"])
    <3>1. PICK n : n = [q EXCEPT !.pc = "lock"]
      OBVIOUS
    <3>2. n.op = "catalog" /\ n.pc = "lock" /\ n.cat = q.cat /\ n.due = q.due
      BY <1>1, <1>2, <3>1 DEF Reqs
    <3>3. Shown(n, held, owner)
      BY <1>1, <1>2, <2>1, <3>2 DEF Shown
    <3> QED BY <1>5, <2>1, <2>3, <3>1, <3>2, <3>3
  <2>4. CASE Goto(r, [q EXCEPT !.pc = "sources", !.since = "nothing"])
    <3>1. PICK n : n = [q EXCEPT !.pc = "sources", !.since = "nothing"]
      OBVIOUS
    <3>2. n.op = "catalog" /\ n.pc = "sources" /\ n.cat = q.cat /\ n.due = q.due
      BY <1>1, <1>2, <3>1 DEF Reqs
    <3>3. Shown(n, held, owner)
      BY <1>1, <1>2, <2>1, <3>2 DEF Shown
    <3> QED BY <1>5, <2>1, <2>4, <3>1, <3>2, <3>3
  <2> QED BY <1>0, <1>6, <2>2, <2>3, <2>4 DEF CatalogLookup, Servable
<1>7. CASE CatalogSources(r)
  <2>1. UNCHANGED built /\ q.pc = "sources"
    BY <1>0, <1>7 DEF CatalogSources
  <2>2. PICK S : S = {"agent"} \cup {s \in Sources : \E h \in Hosts : held[<<h, s>>] # None}
    OBVIOUS
  <2>3. PICK n : n = [q EXCEPT !.pc = "read", !.srcs = S]
    OBVIOUS
  <2>4. n.op = "catalog" /\ n.pc = "read" /\ n.cat = NoDocs /\ n.due = q.due /\ n.srcs = S
    <3>1. q.cat = NoDocs
      BY <1>1, <1>2, <2>1 DEF Shown
    <3> QED BY <1>1, <1>2, <2>3, <3>1 DEF Reqs
  <2>5. \A c \in Cells : c[2] \notin S => NoDocs[c] = held[c]
    BY <2>2 DEF NoDocs, Cells
  <2>6. Shown(n, held, owner)
    BY <1>1, <1>2, <2>4, <2>5 DEF Shown
  <2> QED BY <1>0, <1>5, <1>7, <2>1, <2>2, <2>3, <2>4, <2>6 DEF CatalogSources
<1>8. CASE CatalogRead(r)
  <2>1. UNCHANGED built /\ q.pc = "read"
    BY <1>0, <1>8 DEF CatalogRead
  <2>2. PICK s \in q.srcs : Goto(r, [q EXCEPT !.srcs = q.srcs \ {s},
                                       !.cat = [c \in Cells |-> IF c[2] = s THEN held[c] ELSE q.cat[c]]])
    BY <1>0, <1>8 DEF CatalogRead
  <2>3. PICK k : k = [c \in Cells |-> IF c[2] = s THEN held[c] ELSE q.cat[c]]
    OBVIOUS
  <2>4. PICK n : n = [q EXCEPT !.srcs = q.srcs \ {s}, !.cat = k]
    OBVIOUS
  <2>5. n.op = "catalog" /\ n.pc = "read" /\ n.cat = k /\ n.due = q.due /\ n.srcs = q.srcs \ {s} /\ n.since = q.since
    BY <1>1, <1>2, <2>1, <2>4 DEF Reqs
  <2>6. ASSUME NEW c \in Cells, c[2] \notin n.srcs, owner[c] = "operator", c \in n.due \/ n.since # "operator"
        PROVE  n.cat[c] = held[c]
    <3>1. CASE c[2] = s
      BY <2>3, <2>5, <3>1
    <3>2. CASE c[2] # s
      <4>1. q.cat[c] = held[c]
        BY <1>1, <2>1, <2>5, <2>6, <3>2 DEF Shown
      <4> QED BY <2>3, <2>5, <3>2, <4>1
    <3> QED BY <3>1, <3>2
  <2>7. Shown(n, held, owner)
    BY <1>1, <1>2, <2>5, <2>6 DEF Shown
  <2> QED BY <1>5, <2>1, <2>2, <2>3, <2>4, <2>5, <2>7
<1>9. CASE CatalogKeep(r)
  <2>1. q.pc = "read" /\ q.srcs = {} /\ built' = [is |-> TRUE, cat |-> q.cat, since |-> q.since] /\ Goto(r, [q EXCEPT !.pc = "shown"])
    BY <1>0, <1>9 DEF CatalogKeep
  <2>2. \A c \in Cells : owner[c] = "operator" /\ (c \in q.due \/ q.since # "operator") => q.cat[c] = held[c]
    BY <1>1, <2>1 DEF Shown
  <2>3. Kept(built', held, owner)
    BY <2>1, <2>2 DEF Kept
  <2>4. PICK n : n = [q EXCEPT !.pc = "shown"]
    OBVIOUS
  <2>5. n.op = "catalog" /\ n.pc = "shown" /\ n.cat = q.cat /\ n.due = q.due
    BY <1>1, <1>2, <2>4 DEF Reqs
  <2>6. Phased(n) /\ Shown(n, held, owner) /\ Owns(n, r, owner)
    BY <1>1, <1>2, <1>4, <2>2, <2>5 DEF Phased, Shown
  <2>7. reqs'[r] = n /\ \A x \in Slots \ {r} : reqs'[x] = reqs[x]
    BY <2>1, <2>4 DEF Goto, TypeOK
  <2>8. PInv' /\ KInv'
    BY <1>1, <2>3, <2>6, <2>7 DEF PInv, KInv
  <2> QED BY <1>3, <2>1, <2>8
<1>10. CASE CatalogShown(r)
  <2>1. Goto(r, IdleReq) /\ UNCHANGED built
    BY <1>10 DEF CatalogShown
  <2>2. reqs[r].op \notin Console \ {"catalog"}
    BY <1>0, <1>2
  <2>3. PInv' /\ KInv'
    BY <1>1, <2>1, <2>2, OversShown
  <2> QED BY <1>3, <2>1, <2>3
<1> QED BY <1>6, <1>7, <1>8, <1>9, <1>10

LEMMA InitShown == Init => PInv /\ KInv /\ WInv
<1> SUFFICES ASSUME Init PROVE PInv /\ KInv /\ WInv
  OBVIOUS
<1>1. \A r \in Slots : reqs[r] = IdleReq
  BY DEF Init
<1>2. \A c \in Cells : owner[c] = "other" /\ owner[c] \notin Slots
  BY NamesAssumption DEF Init
<1>3. PInv
  BY <1>1, IdleShown DEF PInv
<1>4. Kept(built, held, owner)
  BY DEF Init, NoBuild, Kept
<1>5. \A r \in Slots : Shown(reqs[r], held, owner) /\ Owns(reqs[r], r, owner)
  BY <1>1, <1>2, IdleShown DEF Owns
<1>6. WInv
  <2>1. \A h \in Hosts : agent[h].pc = "idle"
    BY DEF Init, IdleAgent
  <2> QED BY <2>1 DEF WInv, Asked
<1> QED BY <1>3, <1>4, <1>5, <1>6 DEF KInv

LEMMA ShownStep ==
    ASSUME IInv, TypeOK, PInv, KInv, WInv, [Next]_vars
    PROVE  PInv' /\ KInv' /\ WInv'
<1>0. TypeOK'
  BY TypeStep
<1>1. ASSUME NEW h \in Hosts, AgentChange(h) \/ GiveUp(h) \/ \E r \in Slots : Poll(h, r) \/ PostFacts(h, r)
      PROVE  PInv' /\ KInv' /\ WInv'
  BY <1>1, AgentsActShown
<1>2. ASSUME NEW r \in Slots,
             \/ Exchange(r) \/ Store(r) \/ Operator(r)
             \/ PollFails(r) \/ StoreFails(r) \/ UploadFails(r) \/ RemoveFails(r) \/ HangUp(r)
             \/ Import(r) \/ DeleteHostSource(r) \/ DeleteSource(r) \/ DeleteHosts(r) \/ Catalog(r)
      PROVE  PInv' /\ KInv' /\ WInv'
  <2>1. CASE Exchange(r) \/ PollFails(r) \/ UploadFails(r)
    BY <2>1, ExchangeShown
  <2>2. CASE Store(r) \/ StoreFails(r)
    BY <1>0, <2>2, StoreShown
  <2>3. CASE ImportRow(r) \/ ImportHolding(r) \/ RemoveFails(r) \/ HangUp(r)
    BY <1>0, <2>3, ConsoleShown
  <2>4. CASE Remove(r) \/ Finish(r)
    BY <1>0, <2>4, RemoveShown, FinishShown
  <2>5. CASE CatalogLookup(r) \/ CatalogSources(r) \/ CatalogRead(r) \/ CatalogKeep(r) \/ CatalogShown(r)
    BY <1>0, <2>5, CatalogShowing
  <2>6. CASE Import(r) \/ DeleteHostSource(r) \/ DeleteSource(r) \/ DeleteHosts(r) \/ Catalog(r)
    BY <2>6, AsksShown
  <2> QED BY <1>2, <2>1, <2>2, <2>3, <2>4, <2>5, <2>6 DEF Operator
<1>3. CASE UNCHANGED vars
  BY <1>3 DEF vars, PInv, KInv, WInv, Asked, Exchanging
<1> QED BY <1>1, <1>2, <1>3, TickShown DEF Next

\* Whoever asks for the catalogue after an operator deleted or imported a document sees it
\* (catalog.rs, CatalogChange), however the one build at a time, the generations and the
\* documents agents upload meanwhile interleave.
THEOREM CatalogsShow == Spec => []CatalogShows
<1>1. Init => IInv /\ TypeOK /\ PInv /\ KInv /\ WInv
  BY InitStep, InitTyped, InitShown
<1>2. IInv /\ TypeOK /\ PInv /\ KInv /\ WInv /\ [Next]_vars => (IInv /\ TypeOK /\ PInv /\ KInv /\ WInv)'
  BY NextStep, TypeStep, ShownStep
<1>3. KInv => CatalogShows
  BY DEF KInv, Shown, CatalogShows
<1> QED BY <1>1, <1>2, <1>3, PTL DEF Spec
=============================================================================
