-------------------------- MODULE DesiredStateProofs --------------------------
(***************************************************************************)
(* Proofs about DesiredState: type correctness, the soundness of cache     *)
(* tickets, and the freshness of what the cache holds, while handlers run  *)
(* and once none does, and of what a request is answered, for any number   *)
(* of hosts, requests and handlers.                                        *)
(***************************************************************************)
EXTENDS DesiredState, TLAPS

USE DEF db, cache

-----------------------------------------------------------------------------
(* Types.                                                                  *)

LEMMA PartsTypes ==
    /\ Parts = HostParts \cup SharedParts
    /\ \A p \in Parts : ReadAt(p) \in 1 .. LastStatement
    /\ "manual" \in HostParts /\ "agent" \in HostParts /\ "facts" \in HostParts
    /\ HostParts \cap SharedParts = {}
  BY DEF Parts, HostParts, SharedParts, ReadAt, LastStatement

LEMMA IdleTypes ==
    /\ SomeHost \in Hosts
    /\ Blank \in State
    /\ NoTicket \in Ticket
    /\ IdleCompute \in ComputeRecord
    /\ IdleOp \in OpRecord
  <1>1. SomeHost \in Hosts
    BY ConstantsAssumption DEF SomeHost
  <1>2. Blank \in State
    BY DEF Blank, State, Content
  <1>3. NoTicket \in Ticket
    BY DEF NoTicket, Ticket
  <1>4. IdleCompute \in ComputeRecord
    BY <1>1, <1>2, <1>3 DEF IdleCompute, ComputeRecord, ComputePcs, LastStatement
  <1>5. IdleOp \in OpRecord
    BY <1>1 DEF IdleOp, OpRecord, Kinds, OpPcs, Parts, HostParts, Content
  <1> QED BY <1>1, <1>2, <1>3, <1>4, <1>5

LEMMA NowTypes ==
    ASSUME TypeOK, NEW h \in Hosts
    PROVE  /\ \A p \in Parts : Now(h, p) \in Content
           /\ Desired(h) \in State
           /\ Generation(h) \in Nat
  BY DEF TypeOK, Now, Desired, Generation, State, Parts, Entry

LEMMA DisturbTypes ==
    ASSUME TypeOK, NEW S, Disturb(S)
    PROVE  computes' \in [Computes -> ComputeRecord]
  <1>1. \A c \in Computes : [computes[c] EXCEPT !.quiet = FALSE] \in ComputeRecord
    BY DEF TypeOK, ComputeRecord
  <1> QED BY <1>1 DEF TypeOK, Disturb

LEMMA WriteTypes ==
    ASSUME TypeOK, NEW S \in SUBSET Hosts, NEW p \in Parts, NEW v \in Content,
           Write(S, p, v), ops' \in [Ops -> OpRecord], lost' \in SUBSET Hosts
    PROVE  TypeOK'
  <1>1. own' \in [Hosts -> [HostParts -> Content]]
    BY DEF TypeOK, Write
  <1>2. shared' \in [SharedParts -> Content]
    BY DEF TypeOK, Write
  <1>3. computes' \in [Computes -> ComputeRecord]
    BY DisturbTypes DEF Write
  <1> QED BY <1>1, <1>2, <1>3 DEF TypeOK, Write

LEMMA ProceedTypes ==
    ASSUME TypeOK, NEW o \in Ops, NEW todo \in SUBSET Hosts,
           NEW owed \in SUBSET Hosts, Proceed(o, todo, owed)
    PROVE  ops' \in [Ops -> OpRecord]
  <1> DEFINE pc == IF todo # {} THEN "check" ELSE "notify"
             r == [ops[o] EXCEPT !.todo = todo, !.owed = owed, !.pc = pc]
  <1>1. pc \in OpPcs /\ ops[o] \in OpRecord
    BY DEF OpPcs, TypeOK
  <1>2. ops' = [ops EXCEPT ![o] = IF todo = {} /\ owed = {} THEN IdleOp ELSE r]
    BY DEF Proceed
  <1> HIDE DEF pc
  <1>3. r \in OpRecord
    BY <1>1 DEF OpRecord
  <1> HIDE DEF r
  <1> QED BY <1>2, <1>3, IdleTypes DEF TypeOK

LEMMA ReturnTypes ==
    ASSUME TypeOK, NEW o \in Ops, NEW owed \in SUBSET Hosts, Return(o, owed)
    PROVE  ops' \in [Ops -> OpRecord] /\ lost' \in SUBSET Hosts
  BY IdleTypes DEF TypeOK, Return

LEMMA BeginTypes ==
    ASSUME TypeOK, NEW o \in Ops, BeginOp(o)
    PROVE  TypeOK'
  <1>1. ASSUME NEW kind \in Kinds, NEW pc \in OpPcs, NEW h \in Hosts,
               NEW S \in SUBSET Hosts, NEW p \in Parts, NEW v \in Content,
               Begin(o, kind, pc, h, S, p, v)
        PROVE  TypeOK'
    <2>1. [IdleOp EXCEPT !.kind = kind, !.pc = pc, !.host = h, !.todo = S,
                         !.part = p, !.val = v] \in OpRecord
      BY <1>1, IdleTypes DEF OpRecord
    <2>2. ops' \in [Ops -> OpRecord]
      BY <1>1, <2>1 DEF TypeOK, Begin
    <2> QED BY <1>1, <2>2 DEF TypeOK, Begin
  <1> USE DEF Kinds, OpPcs, HostParts, SharedParts, Parts
  <1>2. SomeHost \in Hosts /\ Absent \in Content /\ Values \subseteq Content
    BY IdleTypes DEF Content
  <1>3. CASE \E h \in Hosts, v \in Content : PutTag(o, h, v)
    BY <1>1, <1>3 DEF PutTag
  <1>4. CASE \E S \in SUBSET Hosts \ {{}}, v \in Content : BulkTags(o, S, v)
    BY <1>1, <1>2, <1>4 DEF BulkTags
  <1>5. CASE \E h \in Hosts, v \in Content : StateReport(o, h, v)
    BY <1>1, <1>5 DEF StateReport
  <1>6. CASE \E h \in Hosts, v \in Values : StoreFacts(o, h, v)
    BY <1>1, <1>2, <1>6 DEF StoreFacts
  <1>7. CASE \E S \in {{h} : h \in Hosts} \cup {Hosts} : RemoveFacts(o, S)
    BY <1>1, <1>2, <1>7 DEF RemoveFacts
  <1>8. CASE \E p \in SharedParts, v \in Content : ChangeConfig(o, p, v)
    BY <1>1, <1>2, <1>8 DEF ChangeConfig
  <1>9. CASE \E h \in Hosts, v \in Content : ChangeOverride(o, h, v)
    BY <1>1, <1>9 DEF ChangeOverride
  <1>10. CASE \E h \in Hosts : DeleteHost(o, h)
    BY <1>1, <1>2, <1>10 DEF DeleteHost
  <1>11. CASE \E h \in Hosts : RevokeHost(o, h)
    BY <1>1, <1>2, <1>11 DEF RevokeHost
  <1> QED BY <1>3, <1>4, <1>5, <1>6, <1>7, <1>8, <1>9, <1>10, <1>11 DEF BeginOp

LEMMA ComputeTypes ==
    ASSUME TypeOK, NEW c \in Computes,
           ComputeStep(c) \/ AbortCompute(c) \/ \E h \in Hosts : Request(c, h)
    PROVE  TypeOK'
  <1> DEFINE h == computes[c].host
  <1>0. h \in Hosts /\ computes[c] \in ComputeRecord
    BY DEF TypeOK, ComputeRecord
  <1>1. CASE \E k \in Hosts : Request(c, k)
    <2> PICK k \in Hosts : Request(c, k)
      BY <1>1
    <2> DEFINE q == ~Unsettled(k)
               r == [computes[c] EXCEPT !.pc = "lookup", !.host = k,
                                        !.ver = config_version, !.quiet = q]
    <2>1. q \in BOOLEAN
      OBVIOUS
    <2>2. computes' = [computes EXCEPT ![c] = r]
      BY DEF Request
    <2> HIDE DEF q
    <2>3. r \in ComputeRecord
      BY <1>0, <2>1 DEF TypeOK, ComputeRecord, ComputePcs
    <2> HIDE DEF r
    <2>4. computes' \in [Computes -> ComputeRecord]
      BY <2>2, <2>3 DEF TypeOK
    <2> QED BY <2>4 DEF TypeOK, Request
  <1>2. CASE Lookup(c)
    <2>1. CASE Hit(h, computes[c].ver)
      <3>1. entries[h].state \in State
        BY <2>1 DEF TypeOK, Hit, Entry
      <3>2. [computes[c] EXCEPT !.pc = "respond", !.got = entries[h].state]
              \in ComputeRecord
        BY <1>0, <3>1 DEF ComputeRecord, ComputePcs
      <3>3. computes' \in [Computes -> ComputeRecord]
        BY <1>2, <2>1, <3>2 DEF TypeOK, Lookup
      <3> QED BY <1>2, <3>3 DEF TypeOK, Lookup
    <2>2. CASE ~Hit(h, computes[c].ver)
      <3>1. computes' \in [Computes -> ComputeRecord]
        BY <1>0, <1>2, <2>2 DEF TypeOK, Lookup, ComputeRecord, ComputePcs
      <3> QED BY <1>2, <3>1 DEF TypeOK, Lookup
    <2> QED BY <2>1, <2>2
  <1>3. CASE TakeTicket(c)
    <2>1. [epoch |-> epoch, generation |-> Generation(h)] \in Ticket
      BY <1>0, NowTypes DEF TypeOK, Ticket
    <2>2. computes' \in [Computes -> ComputeRecord]
      BY <1>0, <1>3, <2>1, IdleTypes DEF TypeOK, TakeTicket, ComputeRecord, ComputePcs
    <2> QED BY <1>3, <2>2 DEF TypeOK, TakeTicket
  <1>4. CASE ReadInputs(c)
    <2> DEFINE n == computes[c].read + 1
               g == [p \in Parts |-> IF ReadAt(p) = n THEN Now(h, p)
                                    ELSE computes[c].got[p]]
    <2>1. g \in State
      BY <1>0, NowTypes DEF State, ComputeRecord
    <2>2. (IF n = LastStatement THEN "put" ELSE "read") \in ComputePcs
      BY DEF ComputePcs
    <2>3. n \in Nat
      BY <1>0 DEF ComputeRecord
    <2> DEFINE pc == IF n = LastStatement THEN "put" ELSE "read"
               r == [computes[c] EXCEPT !.read = n, !.pc = pc, !.got = g]
    <2>4. computes' = [computes EXCEPT ![c] = r]
      BY <1>4 DEF ReadInputs
    <2> HIDE DEF n, g, pc
    <2>5. r \in ComputeRecord
      BY <1>0, <2>1, <2>2, <2>3 DEF ComputeRecord, pc
    <2> HIDE DEF r
    <2>6. computes' \in [Computes -> ComputeRecord]
      BY <2>4, <2>5 DEF TypeOK
    <2> QED BY <1>4, <2>6 DEF TypeOK, ReadInputs
  <1>5. CASE Put(c)
    <2>1. computes' \in [Computes -> ComputeRecord]
      BY <1>0, <1>5 DEF TypeOK, Put, ComputeRecord, ComputePcs
    <2>2. CASE Current(h, computes[c].ticket)
      <3>1. PICK kept \in Reclaimed(DOMAIN entries) :
              /\ epoch' = IF kept # DOMAIN entries THEN epoch + 1 ELSE epoch
              /\ entries' = [k \in kept \cup {h} |->
                   IF k = h
                   THEN [config_version |-> computes[c].ver,
                         state |-> computes[c].got,
                         generation |-> Generation(h)]
                   ELSE entries[k]]
        BY <1>5, <2>2 DEF Put
      <3>2. kept \subseteq DOMAIN entries
        BY DEF Reclaimed
      <3>3. [config_version |-> computes[c].ver, state |-> computes[c].got,
             generation |-> Generation(h)] \in Entry
        BY <1>0, NowTypes DEF ComputeRecord, Entry
      <3>4. /\ DOMAIN entries' \in SUBSET Hosts
            /\ entries' \in [DOMAIN entries' -> Entry]
            /\ epoch' \in Nat
        BY <1>0, <3>1, <3>2, <3>3 DEF TypeOK
      <3> QED BY <1>5, <2>1, <3>4 DEF TypeOK, Put
    <2>3. CASE ~Current(h, computes[c].ticket)
      BY <1>5, <2>1, <2>3 DEF TypeOK, Put
    <2> QED BY <2>2, <2>3
  <1>6. CASE Respond(c)
    BY <1>0, <1>6, IdleTypes DEF TypeOK, Respond, ComputeRecord
  <1>7. CASE AbortCompute(c)
    BY <1>0, <1>7, IdleTypes DEF TypeOK, AbortCompute
  <1> QED BY <1>1, <1>2, <1>3, <1>4, <1>5, <1>6, <1>7 DEF ComputeStep

LEMMA OpTypes ==
    ASSUME TypeOK, NEW o \in Ops, OpStep(o) \/ AbortOp(o)
    PROVE  TypeOK'
  <1>0. ops[o] \in OpRecord /\ IdleOp \in OpRecord /\ Absent \in Content
    BY IdleTypes DEF TypeOK, Content
  <1>a. /\ ops[o].host \in Hosts /\ ops[o].todo \in SUBSET Hosts
        /\ ops[o].owed \in SUBSET Hosts /\ ops[o].val \in Content
        /\ ops[o].part \in Parts
    BY <1>0 DEF OpRecord
  <1>b. "manual" \in Parts /\ "agent" \in Parts /\ "facts" \in Parts
    BY PartsTypes
  <1>c. \A S \in SUBSET Hosts, p \in Parts, v \in Content :
          Differs(S, p, v) \in SUBSET Hosts
    BY DEF Differs
  <1>d. ASSUME NEW r \in OpRecord, ops' = [ops EXCEPT ![o] = r] PROVE ops' \in [Ops -> OpRecord]
    BY <1>d DEF TypeOK
  <1>1. CASE \E h \in Hosts : TagCheck(o, h)
    <2> PICK h \in Hosts : TagCheck(o, h)
      BY <1>1
    <2>1. CASE h \in present
      BY <1>0, <2>1 DEF TypeOK, TagCheck, OpRecord, OpPcs
    <2>2. CASE h \notin present
      BY <1>a, <2>2, ProceedTypes DEF TypeOK, TagCheck
    <2> QED BY <2>1, <2>2
  <1>2. CASE TagRead(o)
    <2>1. own[ops[o].host].manual \in Content
      BY <1>a DEF TypeOK, HostParts
    <2>2. ops' \in [Ops -> OpRecord]
      BY <1>0, <1>2, <2>1 DEF TypeOK, TagRead, OpRecord, OpPcs
    <2> QED BY <1>2, <2>2 DEF TypeOK, TagRead
  <1>3. CASE TagWrite(o)
    <2> DEFINE h == ops[o].host
               owed == IF TagChanged(o) THEN ops[o].owed \cup {h} ELSE ops[o].owed
    <2>1. CASE ops[o].val # Absent /\ h \notin present
      BY <1>3, <1>a, <2>1, ReturnTypes DEF TypeOK, TagWrite
    <2>2. CASE ~(ops[o].val # Absent /\ h \notin present)
      <3>1. owed \in SUBSET Hosts
        BY <1>a
      <3>2. /\ Write({h}, "manual", ops[o].val)
            /\ Proceed(o, ops[o].todo \ {h}, owed)
            /\ lost' = lost \cup (Differs({h}, "manual", ops[o].val) \ owed)
        BY <1>3, <2>2 DEF TagWrite
      <3>3. ops' \in [Ops -> OpRecord] /\ lost' \in SUBSET Hosts
        BY <1>a, <1>b, <1>c, <3>1, <3>2, ProceedTypes DEF TypeOK
      <3> QED BY <1>a, <1>b, <3>2, <3>3, WriteTypes
    <2> QED BY <2>1, <2>2
  <1>4. CASE ReportWrite(o)
    <2> DEFINE h == ops[o].host
    <2>1. CASE ops[o].val # Absent /\ h \notin present
      BY <1>4, <2>1, ReturnTypes DEF TypeOK, ReportWrite
    <2>2. CASE ~(ops[o].val # Absent /\ h \notin present)
      <3>1. /\ Write({h}, "agent", ops[o].val)
            /\ Proceed(o, {}, Differs({h}, "agent", ops[o].val))
            /\ UNCHANGED lost
        BY <1>4, <2>2 DEF ReportWrite
      <3>2. ops' \in [Ops -> OpRecord] /\ lost' \in SUBSET Hosts
        BY <1>a, <1>b, <1>c, <3>1, ProceedTypes DEF TypeOK
      <3> QED BY <1>a, <1>b, <3>1, <3>2, WriteTypes
    <2> QED BY <2>1, <2>2
  <1>5. CASE FactsRead(o)
    <2>1. own[ops[o].host].facts \in Content
      BY <1>a DEF TypeOK, HostParts
    <2> DEFINE r == [ops[o] EXCEPT !.pc = "write", !.seen = own[ops[o].host].facts,
                                   !.tries = ops[o].tries + 1]
    <2>2. r \in OpRecord
      <3>1. ops[o].tries + 1 \in Nat
        BY <1>0 DEF OpRecord
      <3> QED BY <1>0, <2>1, <3>1 DEF OpRecord, OpPcs
    <2>a. ops' = [ops EXCEPT ![o] = IF own[ops[o].host].facts = ops[o].val
                                    THEN IdleOp ELSE r]
      BY <1>5 DEF FactsRead
    <2> HIDE DEF r
    <2>3. ops' \in [Ops -> OpRecord]
      BY <1>0, <2>a, <2>2 DEF TypeOK
    <2> QED BY <1>5, <2>3 DEF TypeOK, FactsRead
  <1>6. CASE FactsWrite(o)
    <2> DEFINE h == ops[o].host
    <2>1. CASE h \notin present
      BY <1>6, <2>1, ReturnTypes DEF TypeOK, FactsWrite
    <2>2. CASE h \in present /\ own[h].facts = ops[o].seen
      <3>1. /\ Write({h}, "facts", ops[o].val) /\ Proceed(o, {}, {h})
            /\ UNCHANGED lost
        BY <1>6, <2>2 DEF FactsWrite
      <3>2. ops' \in [Ops -> OpRecord] /\ lost' \in SUBSET Hosts
        BY <1>a, <3>1, ProceedTypes DEF TypeOK
      <3> QED BY <1>a, <1>b, <3>1, <3>2, WriteTypes
    <2>3. CASE h \in present /\ own[h].facts # ops[o].seen
      <3>1. [ops[o] EXCEPT !.pc = "read"] \in OpRecord
        BY <1>0 DEF OpRecord, OpPcs
      <3>2. ops' \in [Ops -> OpRecord]
        BY <1>0, <1>6, <2>3, <3>1 DEF TypeOK, FactsWrite
      <3> QED BY <1>6, <2>3, <3>2 DEF TypeOK, FactsWrite
    <2> QED BY <2>1, <2>2, <2>3
  <1>7. CASE FactsDelete(o)
    <2>1. ops' \in [Ops -> OpRecord] /\ lost' \in SUBSET Hosts
      BY <1>7, <1>0, <1>a, <1>b, <1>c, ProceedTypes DEF TypeOK, FactsDelete
    <2> QED BY <1>7, <1>0, <1>a, <1>b, <2>1, WriteTypes DEF FactsDelete
  <1>8. CASE ConfigWrite(o)
    <2>1. CASE ConfigRefused(o)
      BY <1>8, <2>1, ReturnTypes DEF TypeOK, ConfigWrite
    <2>2. CASE ~ConfigRefused(o)
      <3>1. ops' \in [Ops -> OpRecord] /\ lost' \in SUBSET Hosts
        BY <1>8, <1>a, <2>2, ProceedTypes DEF TypeOK, ConfigWrite
      <3> QED BY <1>8, <1>a, <2>2, <3>1, WriteTypes DEF ConfigWrite
    <2> QED BY <2>1, <2>2
  <1>9. CASE DeleteWrite(o)
    <2>1. ops' \in [Ops -> OpRecord]
      BY <1>0, <1>9 DEF TypeOK, DeleteWrite, OpRecord, OpPcs
    <2>2. computes' \in [Computes -> ComputeRecord]
      BY <1>9, DisturbTypes DEF DeleteWrite
    <2>3. own' \in [Hosts -> [HostParts -> Content]] /\ present' \in SUBSET Hosts
      BY <1>0, <1>9 DEF TypeOK, DeleteWrite
    <2> QED BY <1>9, <2>1, <2>2, <2>3 DEF TypeOK, DeleteWrite
  <1>10. CASE RevokeWrite(o)
    <2>1. ops' \in [Ops -> OpRecord]
      BY <1>0, <1>10 DEF TypeOK, RevokeWrite, OpRecord, OpPcs
    <2> QED BY <1>10, <2>1 DEF TypeOK, RevokeWrite
  <1>11. CASE \E h \in Hosts : Invalidate(o, h)
    <2> PICK h \in Hosts : Invalidate(o, h)
      BY <1>11
    <2>1. ops' \in [Ops -> OpRecord]
      BY <1>0 DEF TypeOK, Invalidate, OpRecord
    <2>a. \A c \in Computes : [computes[c] EXCEPT !.voided = TRUE] \in ComputeRecord
      BY DEF TypeOK, ComputeRecord
    <2>2. computes' \in [Computes -> ComputeRecord]
      BY <2>a DEF TypeOK, Invalidate, InvalidateHost
    <2>3. DOMAIN entries' \in SUBSET Hosts /\ entries' \in [DOMAIN entries' -> Entry]
      BY NowTypes DEF TypeOK, Invalidate, InvalidateHost, Entry
    <2> QED BY <2>1, <2>2, <2>3 DEF TypeOK, Invalidate, InvalidateHost
  <1>12. CASE BumpConfigVersion(o)
    BY <1>0, <1>12 DEF TypeOK, BumpConfigVersion
  <1>13. CASE Forget(o)
    BY <1>0, <1>13 DEF TypeOK, Forget, ForgetHost
  <1>14. CASE AbortOp(o)
    BY <1>a, <1>14, ReturnTypes DEF TypeOK, AbortOp
  <1> QED BY <1>1, <1>2, <1>3, <1>4, <1>5, <1>6, <1>7, <1>8, <1>9, <1>10, <1>11,
             <1>12, <1>13, <1>14 DEF OpStep

LEMMA InitTypes == Init => TypeOK
  <1> SUFFICES ASSUME Init PROVE TypeOK
    OBVIOUS
  <1>1. computes \in [Computes -> ComputeRecord] /\ ops \in [Ops -> OpRecord]
    BY IdleTypes DEF Init
  <1>2. served \in [Hosts -> State]
    BY IdleTypes DEF Init
  <1> QED BY <1>1, <1>2 DEF Init, TypeOK, Content

\* Every reachable state has the shape TypeOK gives it.
THEOREM TypeCorrect == Spec => []TypeOK
  <1>1. TypeOK /\ [Next]_vars => TypeOK'
    <2> SUFFICES ASSUME TypeOK, [Next]_vars PROVE TypeOK'
      OBVIOUS
    <2>1. CASE Next
      BY <2>1, ComputeTypes, BeginTypes, OpTypes DEF Next
    <2>2. CASE UNCHANGED vars
      BY <2>2 DEF TypeOK, vars
    <2> QED BY <2>1, <2>2
  <1> QED BY InitTypes, <1>1, PTL DEF Spec

-----------------------------------------------------------------------------
(* The freshness invariant.  Fresh is what steps of the handlers have to   *)
(* preserve besides their own bookkeeping.                                 *)

Fresh == /\ TicketOrder /\ Progress /\ Versions /\ CacheFresh /\ ReadsFresh
         /\ QuietLookup /\ QuietReads /\ AnswerFresh

\* A step that leaves rows, cache and computes alone and settles no host
\* leaves everything fresh.
LEMMA OpsOnly ==
    ASSUME IInv,
           UNCHANGED <<own, shared, present, config_version, entries, epoch, computes>>,
           \A h \in Hosts : Unsettled(h) => Unsettled(h)'
    PROVE  Fresh'
  <1> USE DEF IInv, Holding, Current, Hit, Generation, Desired, Now, FreshReads
  <1>0. \A c \in Computes : computes[c].host \in Hosts
    BY DEF TypeOK, ComputeRecord
  <1>1. TicketOrder' /\ Progress' /\ Versions'
    BY DEF TicketOrder, Progress, Versions
  <1>2. CacheFresh'
    BY DEF CacheFresh, TypeOK
  <1>3. ReadsFresh'
    BY <1>0 DEF ReadsFresh
  <1>4. QuietLookup' /\ QuietReads' /\ AnswerFresh'
    BY DEF QuietLookup, QuietReads, AnswerFresh
  <1> QED BY <1>1, <1>2, <1>3, <1>4 DEF Fresh

\* Requests other than the quiet flags are untouched by Disturb.
LEMMA DisturbFacts ==
    ASSUME TypeOK, NEW S, Disturb(S)
    PROVE  \A c \in Computes :
             /\ computes'[c].pc = computes[c].pc
             /\ computes'[c].host = computes[c].host
             /\ computes'[c].ver = computes[c].ver
             /\ computes'[c].ticket = computes[c].ticket
             /\ computes'[c].read = computes[c].read
             /\ computes'[c].got = computes[c].got
             /\ computes'[c].voided = computes[c].voided
             /\ computes'[c].quiet => computes[c].quiet /\ computes[c].host \notin S
             /\ computes[c].host \notin S => computes'[c].quiet = computes[c].quiet
  BY DEF TypeOK, Disturb, ComputeRecord

\* A step that disturbs the requests of the hosts whose inputs it moves, and
\* leaves those hosts unsettled or gone, leaves everything fresh.
LEMMA Moved ==
    ASSUME IInv, TypeOK', NEW M \in SUBSET Hosts, Disturb(M),
           UNCHANGED <<config_version, entries, epoch>>,
           present' \subseteq present,
           \A h \in Hosts \ M, p \in Parts : Now(h, p)' = Now(h, p),
           \A h \in Hosts : Unsettled(h) => Unsettled(h)',
           \A h \in M : h \in present' => Unsettled(h)'
    PROVE  Fresh'
  <1> USE DEF IInv
  <1>0. \A c \in Computes : computes[c].host \in Hosts
    BY DEF TypeOK, ComputeRecord
  <1>a. \A c \in Computes :
             /\ computes'[c].pc = computes[c].pc
             /\ computes'[c].host = computes[c].host
             /\ computes'[c].ver = computes[c].ver
             /\ computes'[c].ticket = computes[c].ticket
             /\ computes'[c].read = computes[c].read
             /\ computes'[c].got = computes[c].got
             /\ computes'[c].voided = computes[c].voided
             /\ computes'[c].quiet => computes[c].quiet /\ computes[c].host \notin M
    BY DisturbFacts
  <1>b. \A h \in Hosts : Generation(h)' = Generation(h)
    BY DEF Generation
  <1>c. \A h \in Hosts \ M : Desired(h)' = Desired(h)
    BY DEF Desired
  <1>d. \A c \in Computes : Holding(c)' <=> Holding(c)
    BY <1>a DEF Holding
  <1>e. \A c \in Computes : computes[c].host \notin M /\ FreshReads(c) => FreshReads(c)'
    BY <1>0, <1>a DEF FreshReads
  <1>1. TicketOrder'
    BY <1>0, <1>a, <1>b, <1>d DEF TicketOrder
  <1>2. Progress' /\ Versions'
    BY <1>a DEF Progress, Versions
  <1>3. CacheFresh'
    BY <1>c DEF CacheFresh, Hit, TypeOK
  <1>4. ReadsFresh'
    BY <1>0, <1>a, <1>d, <1>e DEF ReadsFresh
  <1>5. QuietLookup'
    BY <1>0, <1>a, <1>c, <1>d, <1>e DEF QuietLookup, Hit
  <1>6. QuietReads'
    BY <1>a, <1>d, <1>e DEF QuietReads
  <1>7. AnswerFresh'
    BY <1>0, <1>a, <1>c DEF AnswerFresh
  <1> QED BY <1>1, <1>2, <1>3, <1>4, <1>5, <1>6, <1>7 DEF Fresh

\* A committed write leaves everything fresh when the hosts it changed are
\* unsettled afterwards.
LEMMA Written ==
    ASSUME IInv, TypeOK', NEW S \in SUBSET Hosts, NEW p \in Parts, NEW v \in Content,
           Write(S, p, v),
           p \in SharedParts => S = Hosts,
           \A h \in Hosts : Unsettled(h) \/ h \in Differs(S, p, v) => Unsettled(h)'
    PROVE  Fresh'
  <1> DEFINE M == Differs(S, p, v)
  <1>1. M \in SUBSET Hosts
    BY DEF Differs
  <1>2. ASSUME NEW h \in Hosts \ M, NEW q \in Parts
        PROVE  Now(h, q)' = Now(h, q)
    <2>1. CASE p \in SharedParts
      <3>1. shared[p] = v /\ p \notin HostParts
        BY <1>2, <2>1, PartsTypes DEF Differs, Now
      <3> QED BY <2>1, <3>1, <1>2 DEF Write, Now, IInv, TypeOK
    <2>2. CASE p \notin SharedParts
      <3>1. h \in S => own[h][p] = v
        BY <1>2, <2>2 DEF Differs, Now
      <3>2. p \in HostParts
        BY <2>2, PartsTypes
      <3>3. q \notin SharedParts => q \in HostParts
        BY PartsTypes
      <3>4. own'[h][q] = own[h][q] \/ q \in SharedParts
        BY <1>2, <3>1, <3>2, <3>3 DEF Write, IInv, TypeOK
      <3> QED BY <2>2, <3>4 DEF Write, Now
    <2> QED BY <2>1, <2>2
  <1>3. /\ Disturb(M)
        /\ UNCHANGED <<config_version, entries, epoch>> /\ present' \subseteq present
    BY DEF Write
  <1> HIDE DEF M
  <1>4. /\ \A h \in Hosts : Unsettled(h) => Unsettled(h)'
        /\ \A h \in M : h \in present' => Unsettled(h)'
    BY <1>1 DEF M
  <1> QED BY <1>1, <1>2, <1>3, <1>4, Moved

-----------------------------------------------------------------------------
(* The handlers' bookkeeping.                                              *)

LEMMA IdleOpFacts == IdleOp.pc = "idle" /\ IdleOp.owed = {} /\ IdleOp.kind = "put_tag"
  BY DEF IdleOp

LEMMA ProceedFacts ==
    ASSUME IInv, NEW o \in Ops, NEW todo \in SUBSET Hosts,
           NEW owed \in SUBSET Hosts, Proceed(o, todo, owed),
           todo # {} => ops[o].kind \in {"put_tag", "bulk_tags"},
           ops[o].owed \subseteq owed, lost \subseteq lost'
    PROVE  /\ OpsOwe'
           /\ \A h \in Hosts : Unsettled(h) \/ h \in owed => Unsettled(h)'
  <1>1. /\ \A k \in Ops \ {o} : ops'[k] = ops[k]
        /\ ops'[o].owed = owed
        /\ ops'[o].pc \in {"idle", "check", "notify"}
        /\ ops'[o].pc = "idle" => owed = {}
        /\ ops'[o].pc = "check" => ops'[o].kind \in {"put_tag", "bulk_tags"}
    <2>1. CASE todo = {} /\ owed = {}
      BY <2>1, IdleOpFacts DEF IInv, TypeOK, Proceed
    <2>2. CASE ~(todo = {} /\ owed = {})
      <3> DEFINE r == [ops[o] EXCEPT !.todo = todo, !.owed = owed,
                         !.pc = IF todo # {} THEN "check" ELSE "notify"]
      <3>1. ops' = [ops EXCEPT ![o] = r]
        BY <2>2 DEF Proceed
      <3>2. /\ r.owed = owed /\ r.kind = ops[o].kind
            /\ r.pc = IF todo # {} THEN "check" ELSE "notify"
        BY DEF IInv, TypeOK, OpRecord
      <3> HIDE DEF r
      <3>3. ops'[o] = r /\ \A k \in Ops \ {o} : ops'[k] = ops[k]
        BY <3>1 DEF IInv, TypeOK
      <3> QED BY <3>2, <3>3
    <2> QED BY <2>1, <2>2
  <1>2. OpsOwe'
    BY <1>1 DEF IInv, OpsOwe
  <1> QED BY <1>1, <1>2 DEF Unsettled

LEMMA ReturnFacts ==
    ASSUME IInv, NEW o \in Ops, NEW owed, Return(o, owed), ops[o].owed \subseteq owed
    PROVE  /\ OpsOwe'
           /\ \A h \in Hosts : Unsettled(h) => Unsettled(h)'
  <1>1. ops'[o] = IdleOp /\ \A k \in Ops \ {o} : ops'[k] = ops[k]
    BY DEF IInv, TypeOK, Return
  <1>2. OpsOwe'
    BY <1>1, IdleOpFacts DEF IInv, OpsOwe
  <1> QED BY <1>1, <1>2 DEF Unsettled, Return

LEMMA BeginFresh ==
    ASSUME IInv, NEW o \in Ops, BeginOp(o)
    PROVE  OpsOwe' /\ Fresh'
  <1>1. ASSUME NEW kind, NEW pc, NEW h, NEW S, NEW p, NEW v,
               Begin(o, kind, pc, h, S, p, v), pc \notin {"idle", "forget"},
               pc = "check" => kind \in {"put_tag", "bulk_tags"},
               kind = "config" /\ p \in SharedParts => S = Hosts
        PROVE  OpsOwe' /\ Fresh'
    <2> DEFINE r == [IdleOp EXCEPT !.kind = kind, !.pc = pc, !.host = h,
                                   !.todo = S, !.part = p, !.val = v]
    <2>1. ops' = [ops EXCEPT ![o] = r] /\ ops[o].pc = "idle"
      BY <1>1 DEF Begin
    <2>2. /\ r.owed = {} /\ r.kind = kind /\ r.pc = pc /\ r.part = p /\ r.todo = S
      BY DEF IdleOp
    <2> HIDE DEF r
    <2>3. ops'[o] = r /\ \A k \in Ops \ {o} : ops'[k] = ops[k]
      BY <2>1 DEF IInv, TypeOK
    <2>4. ops[o].owed = {} /\ lost' = lost
      BY <1>1, <2>1 DEF IInv, OpsOwe, Begin
    <2>5. \A k \in Hosts : Unsettled(k) => Unsettled(k)'
      BY <2>2, <2>3, <2>4 DEF Unsettled
    <2>6. OpsOwe'
      BY <1>1, <2>2, <2>3 DEF IInv, OpsOwe
    <2> QED BY <1>1, <2>5, <2>6, OpsOnly DEF Begin
  <1> USE DEF SharedParts
  <1>3. CASE \E h \in Hosts, v \in Content : PutTag(o, h, v)
    BY <1>1, <1>3 DEF PutTag
  <1>4. CASE \E S \in SUBSET Hosts \ {{}}, v \in Content : BulkTags(o, S, v)
    BY <1>1, <1>4 DEF BulkTags
  <1>5. CASE \E h \in Hosts, v \in Content : StateReport(o, h, v)
    BY <1>1, <1>5 DEF StateReport
  <1>6. CASE \E h \in Hosts, v \in Values : StoreFacts(o, h, v)
    BY <1>1, <1>6 DEF StoreFacts
  <1>7. CASE \E S \in {{h} : h \in Hosts} \cup {Hosts} : RemoveFacts(o, S)
    BY <1>1, <1>7 DEF RemoveFacts
  <1>8. CASE \E p \in SharedParts, v \in Content : ChangeConfig(o, p, v)
    BY <1>1, <1>8 DEF ChangeConfig
  <1>9. CASE \E h \in Hosts, v \in Content : ChangeOverride(o, h, v)
    BY <1>1, <1>9 DEF ChangeOverride
  <1>10. CASE \E h \in Hosts : DeleteHost(o, h)
    BY <1>1, <1>10 DEF DeleteHost
  <1>11. CASE \E h \in Hosts : RevokeHost(o, h)
    BY <1>1, <1>11 DEF RevokeHost
  <1> QED BY <1>3, <1>4, <1>5, <1>6, <1>7, <1>8, <1>9, <1>10, <1>11 DEF BeginOp

\* The steps of a handler that only read, or that end it.
LEMMA QuietOpFresh ==
    ASSUME IInv, NEW o \in Ops,
           \/ \E h \in Hosts : TagCheck(o, h)
           \/ TagRead(o) \/ FactsRead(o) \/ RevokeWrite(o) \/ AbortOp(o)
    PROVE  OpsOwe' /\ Fresh'
  <1>0. ops[o] \in OpRecord /\ ops[o].owed \in SUBSET Hosts /\ ops[o].todo \in SUBSET Hosts
    BY DEF IInv, TypeOK, OpRecord
  <1>1. CASE \E h \in Hosts : TagCheck(o, h)
    <2> PICK h \in Hosts : TagCheck(o, h)
      BY <1>1
    <2>a. ops[o].pc = "check"
      BY DEF TagCheck
    <2>b. ops[o].kind \in {"put_tag", "bulk_tags"}
      BY <2>a DEF IInv, OpsOwe
    <2>1. CASE h \in present
      <3>1. ops'[o].owed = ops[o].owed /\ ops'[o].kind = ops[o].kind
            /\ ops'[o].pc \in {"write", "read"}
            /\ \A k \in Ops \ {o} : ops'[k] = ops[k]
        BY <1>0, <2>1 DEF TagCheck, IInv, TypeOK, OpRecord
      <3>2. OpsOwe'
        BY <2>a, <2>b, <3>1 DEF IInv, OpsOwe
      <3>3. \A k \in Hosts : Unsettled(k) => Unsettled(k)'
        BY <3>1 DEF Unsettled, TagCheck
      <3> QED BY <3>2, <3>3, OpsOnly DEF TagCheck
    <2>2. CASE h \notin present
      <3>1. Proceed(o, ops[o].todo \ {h}, ops[o].owed) /\ lost' = lost
        BY <2>2 DEF TagCheck
      <3>2. OpsOwe' /\ \A k \in Hosts : Unsettled(k) => Unsettled(k)'
        BY <1>0, <2>b, <3>1, ProceedFacts
      <3> QED BY <3>2, OpsOnly DEF TagCheck
    <2> QED BY <2>1, <2>2
  <1>2. CASE TagRead(o)
    <2>1. ops'[o].owed = ops[o].owed /\ ops'[o].kind = ops[o].kind
          /\ ops'[o].pc = "write" /\ \A k \in Ops \ {o} : ops'[k] = ops[k]
      BY <1>0, <1>2 DEF TagRead, IInv, TypeOK, OpRecord
    <2>a. ops[o].kind \in {"put_tag", "bulk_tags"}
      BY <1>2 DEF TagRead
    <2>2. OpsOwe'
      BY <2>a, <2>1 DEF IInv, OpsOwe
    <2>3. \A k \in Hosts : Unsettled(k) => Unsettled(k)'
      BY <1>2, <2>1 DEF Unsettled, TagRead
    <2> QED BY <1>2, <2>2, <2>3, OpsOnly DEF TagRead
  <1>3. CASE FactsRead(o)
    <2>1. ops[o].owed = {} /\ ops[o].kind = "store_facts"
      BY <1>3 DEF FactsRead, IInv, OpsOwe
    <2> DEFINE r == [ops[o] EXCEPT !.pc = "write", !.seen = own[ops[o].host].facts,
                                   !.tries = ops[o].tries + 1]
    <2>2. r.owed = {} /\ r.pc = "write" /\ r.kind = "store_facts"
      BY <1>0, <2>1 DEF OpRecord
    <2>3. ops' = [ops EXCEPT ![o] = IF own[ops[o].host].facts = ops[o].val
                                    THEN IdleOp ELSE r]
      BY <1>3 DEF FactsRead
    <2> HIDE DEF r
    <2>4. (ops'[o] = IdleOp \/ ops'[o] = r) /\ \A k \in Ops \ {o} : ops'[k] = ops[k]
      BY <2>3 DEF IInv, TypeOK
    <2>5. OpsOwe'
      BY <2>2, <2>4, IdleOpFacts DEF IInv, OpsOwe
    <2>6. \A k \in Hosts : Unsettled(k) => Unsettled(k)'
      BY <1>3, <2>1, <2>4 DEF Unsettled, FactsRead
    <2> QED BY <1>3, <2>5, <2>6, OpsOnly DEF FactsRead
  <1>4. CASE RevokeWrite(o)
    <2>1. ops[o].owed = {} /\ ops[o].kind = "revoke"
      BY <1>4 DEF RevokeWrite, IInv, OpsOwe
    <2> DEFINE r == [ops[o] EXCEPT !.pc = "forget"]
    <2>2. r.owed = {} /\ r.pc = "forget" /\ r.kind = "revoke"
      BY <1>0, <2>1 DEF OpRecord
    <2>3. ops' = [ops EXCEPT ![o] = IF ops[o].host \in present THEN r ELSE IdleOp]
      BY <1>4 DEF RevokeWrite
    <2> HIDE DEF r
    <2>4. (ops'[o] = IdleOp \/ ops'[o] = r) /\ \A k \in Ops \ {o} : ops'[k] = ops[k]
      BY <2>3 DEF IInv, TypeOK
    <2>5. OpsOwe'
      BY <2>2, <2>4, IdleOpFacts DEF IInv, OpsOwe
    <2>6. \A k \in Hosts : Unsettled(k) => Unsettled(k)'
      BY <1>4, <2>1, <2>4 DEF Unsettled, RevokeWrite
    <2> QED BY <1>4, <2>5, <2>6, OpsOnly DEF RevokeWrite
  <1>5. CASE AbortOp(o)
    BY <1>5, ReturnFacts, OpsOnly DEF AbortOp
  <1> QED BY <1>1, <1>2, <1>3, <1>4, <1>5

\* The steps of a handler that commit a change.
LEMMA WriteOpFresh ==
    ASSUME IInv, TypeOK', NEW o \in Ops,
           \/ TagWrite(o) \/ ReportWrite(o) \/ FactsWrite(o) \/ FactsDelete(o)
           \/ ConfigWrite(o) \/ DeleteWrite(o)
    PROVE  OpsOwe' /\ Fresh'
  <1> DEFINE h == ops[o].host
  <1>0. /\ ops[o] \in OpRecord /\ h \in Hosts /\ ops[o].todo \in SUBSET Hosts
        /\ ops[o].owed \in SUBSET Hosts /\ ops[o].val \in Content
        /\ ops[o].part \in Parts /\ Absent \in Content
    BY DEF IInv, TypeOK, OpRecord, Content
  <1>a. /\ "manual" \in Parts \ SharedParts /\ "agent" \in Parts \ SharedParts
        /\ "facts" \in Parts \ SharedParts
    BY PartsTypes
  <1>b. \A S \in SUBSET Hosts, p \in Parts, v \in Content :
          Differs(S, p, v) \in SUBSET Hosts
    BY DEF Differs
  <1>1. CASE TagWrite(o)
    <2> DEFINE owed == IF TagChanged(o) THEN ops[o].owed \cup {h} ELSE ops[o].owed
    <2>1. CASE ops[o].val # Absent /\ h \notin present
      BY <1>1, <2>1, ReturnFacts, OpsOnly DEF TagWrite
    <2>2. CASE ~(ops[o].val # Absent /\ h \notin present)
      <3>1. /\ Write({h}, "manual", ops[o].val)
            /\ Proceed(o, ops[o].todo \ {h}, owed)
            /\ lost' = lost \cup (Differs({h}, "manual", ops[o].val) \ owed)
            /\ ops[o].kind \in {"put_tag", "bulk_tags"}
        BY <1>1, <2>2 DEF TagWrite
      <3>2. owed \in SUBSET Hosts /\ ops[o].owed \subseteq owed
        BY <1>0
      <3> HIDE DEF owed
      <3>3. OpsOwe' /\ \A k \in Hosts : Unsettled(k) \/ k \in owed => Unsettled(k)'
        BY <1>0, <3>1, <3>2, ProceedFacts
      <3>4. \A k \in Hosts : k \in Differs({h}, "manual", ops[o].val) => Unsettled(k)'
        BY <3>1, <3>3 DEF Unsettled
      <3> QED BY <1>0, <1>a, <3>1, <3>3, <3>4, Written
    <2> QED BY <2>1, <2>2
  <1>2. CASE ReportWrite(o)
    <2>0. ops[o].owed = {}
      BY <1>2 DEF ReportWrite, IInv, OpsOwe
    <2>1. CASE ops[o].val # Absent /\ h \notin present
      BY <1>2, <2>0, <2>1, ReturnFacts, OpsOnly DEF ReportWrite
    <2>2. CASE ~(ops[o].val # Absent /\ h \notin present)
      <3>1. /\ Write({h}, "agent", ops[o].val)
            /\ Proceed(o, {}, Differs({h}, "agent", ops[o].val))
            /\ lost' = lost
        BY <1>2, <2>2 DEF ReportWrite
      <3>2. Differs({h}, "agent", ops[o].val) \in SUBSET Hosts
        BY <1>0, <1>a, <1>b
      <3>3. OpsOwe' /\ \A k \in Hosts :
              Unsettled(k) \/ k \in Differs({h}, "agent", ops[o].val) => Unsettled(k)'
        BY <2>0, <3>1, <3>2, ProceedFacts
      <3> QED BY <1>0, <1>a, <3>1, <3>3, Written
    <2> QED BY <2>1, <2>2
  <1>3. CASE FactsWrite(o)
    <2>0. ops[o].owed = {} /\ ops[o].kind = "store_facts"
      BY <1>3 DEF FactsWrite, IInv, OpsOwe
    <2>1. CASE h \notin present
      BY <1>3, <2>0, <2>1, ReturnFacts, OpsOnly DEF FactsWrite
    <2>2. CASE h \in present /\ own[h].facts = ops[o].seen
      <3>1. /\ Write({h}, "facts", ops[o].val) /\ Proceed(o, {}, {h}) /\ lost' = lost
        BY <1>3, <2>2 DEF FactsWrite
      <3>2. OpsOwe' /\ \A k \in Hosts : Unsettled(k) \/ k \in {h} => Unsettled(k)'
        BY <1>0, <2>0, <3>1, ProceedFacts
      <3>3. Differs({h}, "facts", ops[o].val) \subseteq {h}
        BY DEF Differs
      <3> QED BY <1>0, <1>a, <3>1, <3>2, <3>3, Written
    <2>3. CASE h \in present /\ own[h].facts # ops[o].seen
      <3> DEFINE r == [ops[o] EXCEPT !.pc = "read"]
      <3>1. r.owed = {} /\ r.pc = "read" /\ r.kind = "store_facts"
        BY <1>0, <2>0 DEF OpRecord
      <3>2. ops' = [ops EXCEPT ![o] = IF ops[o].tries < StoreAttempts THEN r ELSE IdleOp]
            /\ UNCHANGED <<db, cache, computes, lost>>
        BY <1>3, <2>3 DEF FactsWrite
      <3> HIDE DEF r
      <3>3. (ops'[o] = IdleOp \/ ops'[o] = r) /\ \A k \in Ops \ {o} : ops'[k] = ops[k]
        BY <3>2 DEF IInv, TypeOK
      <3>4. OpsOwe'
        BY <3>1, <3>3, IdleOpFacts DEF IInv, OpsOwe
      <3>5. \A k \in Hosts : Unsettled(k) => Unsettled(k)'
        BY <2>0, <3>2, <3>3 DEF Unsettled
      <3> QED BY <3>2, <3>4, <3>5, OpsOnly
    <2> QED BY <2>1, <2>2, <2>3
  <1>4. CASE FactsDelete(o)
    <2> DEFINE D == Differs(ops[o].todo, "facts", Absent)
    <2>0. ops[o].owed = {}
      BY <1>4 DEF FactsDelete, IInv, OpsOwe
    <2>1. D \in SUBSET Hosts
      BY <1>0, <1>a, <1>b
    <2>2. Proceed(o, {}, D) /\ lost' = lost /\ Write(ops[o].todo, "facts", Absent)
      BY <1>4 DEF FactsDelete
    <2> HIDE DEF D
    <2>3. OpsOwe' /\ \A k \in Hosts : Unsettled(k) \/ k \in D => Unsettled(k)'
      BY <2>0, <2>1, <2>2, ProceedFacts
    <2> QED BY <1>0, <1>a, <2>2, <2>3, Written DEF D
  <1>5. CASE ConfigWrite(o)
    <2>0. ops[o].owed = {} /\ (ops[o].part \in SharedParts => ops[o].todo = Hosts)
      BY <1>5 DEF ConfigWrite, IInv, OpsOwe
    <2>1. CASE ConfigRefused(o)
      BY <1>5, <2>0, <2>1, ReturnFacts, OpsOnly DEF ConfigWrite
    <2>2. CASE ~ConfigRefused(o)
      <3>1. /\ Write(ops[o].todo, ops[o].part, ops[o].val)
            /\ Proceed(o, {}, ops[o].todo) /\ lost' = lost
        BY <1>5, <2>2 DEF ConfigWrite
      <3>2. OpsOwe' /\ \A k \in Hosts : Unsettled(k) \/ k \in ops[o].todo => Unsettled(k)'
        BY <1>0, <2>0, <3>1, ProceedFacts
      <3>3. Differs(ops[o].todo, ops[o].part, ops[o].val) \subseteq ops[o].todo
        BY DEF Differs
      <3> QED BY <1>0, <2>0, <3>1, <3>2, <3>3, Written
    <2> QED BY <2>1, <2>2
  <1>6. CASE DeleteWrite(o)
    <2>0. ops[o].owed = {} /\ ops[o].kind = "delete_host"
      BY <1>6 DEF DeleteWrite, IInv, OpsOwe
    <2> DEFINE r == [ops[o] EXCEPT !.pc = "forget"]
    <2>1. r.owed = {} /\ r.pc = "forget" /\ r.kind = "delete_host"
      BY <1>0, <2>0 DEF OpRecord
    <2>2. ops' = [ops EXCEPT ![o] = IF h \in present THEN r ELSE IdleOp]
      BY <1>6 DEF DeleteWrite
    <2> HIDE DEF r
    <2>3. (ops'[o] = IdleOp \/ ops'[o] = r) /\ \A k \in Ops \ {o} : ops'[k] = ops[k]
      BY <2>2 DEF IInv, TypeOK
    <2>4. OpsOwe'
      BY <2>1, <2>3, IdleOpFacts DEF IInv, OpsOwe
    <2>5. \A k \in Hosts : Unsettled(k) => Unsettled(k)'
      BY <1>6, <2>0, <2>3 DEF Unsettled, DeleteWrite
    <2>6. \A k \in Hosts \ {h}, p \in Parts : Now(k, p)' = Now(k, p)
      BY <1>0, <1>6 DEF DeleteWrite, Now, IInv, TypeOK
    <2>7. /\ Disturb({h}) /\ present' = present \ {h}
          /\ UNCHANGED <<config_version, entries, epoch>>
      BY <1>6 DEF DeleteWrite
    <2> QED BY <1>0, <2>4, <2>5, <2>6, <2>7, Moved
  <1> QED BY <1>1, <1>2, <1>3, <1>4, <1>5, <1>6

\* invalidate_host voids the tickets and drops the state of its host; every
\* other host is left as it was.
LEMMA InvalidateFresh ==
    ASSUME IInv, TypeOK', NEW o \in Ops, NEW h \in Hosts, Invalidate(o, h)
    PROVE  OpsOwe' /\ Fresh'
  <1> USE DEF IInv
  <1>0. \A c \in Computes : computes[c].host \in Hosts
    BY DEF TypeOK, ComputeRecord
  <1>a. \A c \in Computes :
          /\ computes'[c].pc = computes[c].pc
          /\ computes'[c].host = computes[c].host
          /\ computes'[c].ver = computes[c].ver
          /\ computes'[c].ticket = computes[c].ticket
          /\ computes'[c].read = computes[c].read
          /\ computes'[c].got = computes[c].got
          /\ computes'[c].quiet = computes[c].quiet
          /\ computes[c].host = h => computes'[c].voided
          /\ computes[c].host # h => computes'[c] = computes[c]
    BY DEF Invalidate, InvalidateHost, TypeOK, ComputeRecord
  <1>b. /\ Generation(h)' = Generation(h) + 1
        /\ \A k \in Hosts \ {h} : Generation(k)' = Generation(k)
        /\ entries'[h].state = None /\ epoch' = epoch
        /\ entries'[h].config_version <= config_version
        /\ DOMAIN entries' = DOMAIN entries \cup {h}
        /\ \A k \in DOMAIN entries \ {h} : entries'[k] = entries[k]
    BY DEF Invalidate, InvalidateHost, Generation, Versions, TypeOK
  <1>c. UNCHANGED <<own, shared, present, config_version>>
    BY DEF Invalidate
  <1>d. /\ \A k \in Hosts, p \in Parts : Now(k, p)' = Now(k, p)
        /\ \A k \in Hosts : Desired(k)' = Desired(k)
    BY <1>c DEF Now, Desired
  <1>e. \A c \in Computes : (Holding(c)' <=> Holding(c)) /\ (FreshReads(c)' <=> FreshReads(c))
    BY <1>0, <1>a, <1>d DEF Holding, FreshReads
  <1>f. Generation(h) \in Nat
    BY NowTypes
  <1>1. /\ \A k \in Ops \ {o} : ops'[k] = ops[k]
        /\ ops'[o].owed = ops[o].owed \ {h}
        /\ ops'[o] = IdleOp \/ (ops'[o].pc = "notify" /\ ops'[o].kind = ops[o].kind)
    <2> DEFINE r == [ops[o] EXCEPT !.owed = ops[o].owed \ {h}]
    <2>1. ops' = [ops EXCEPT ![o] = IF ops[o].owed \ {h} = {} THEN IdleOp ELSE r]
          /\ ops[o].pc = "notify"
      BY DEF Invalidate
    <2>2. r.owed = ops[o].owed \ {h} /\ r.pc = ops[o].pc /\ r.kind = ops[o].kind
      BY DEF TypeOK, OpRecord
    <2> HIDE DEF r
    <2> QED BY <2>1, <2>2, IdleOpFacts DEF TypeOK
  <1>2. OpsOwe'
    BY <1>1, IdleOpFacts DEF OpsOwe
  <1>3. \A k \in Hosts \ {h} : Unsettled(k) => Unsettled(k)'
    BY <1>1 DEF Unsettled, Invalidate
  <1>4. TicketOrder'
    <2> SUFFICES ASSUME NEW c \in Computes, Holding(c)'
                 PROVE  /\ computes[c].ticket.epoch <= epoch
                        /\ computes[c].ticket.epoch = epoch =>
                             /\ computes[c].ticket.generation
                                  <= Generation(computes[c].host)'
                             /\ computes'[c].voided =>
                                  computes[c].ticket.generation
                                    < Generation(computes[c].host)'
      BY <1>a, <1>b DEF TicketOrder
    <2>1. /\ computes[c].ticket.epoch <= epoch
          /\ computes[c].ticket.epoch = epoch =>
               /\ computes[c].ticket.generation <= Generation(computes[c].host)
               /\ computes[c].voided =>
                    computes[c].ticket.generation < Generation(computes[c].host)
      BY <1>e DEF TicketOrder
    <2>2. computes[c].ticket.generation \in Nat /\ Generation(computes[c].host) \in Nat
      BY <1>0, NowTypes DEF TypeOK, ComputeRecord, Ticket
    <2>3. CASE computes[c].host = h
      <3>1. Generation(computes[c].host)' = Generation(h) + 1
        BY <1>a, <1>b, <2>3
      <3> QED BY <2>1, <2>2, <2>3, <3>1
    <2>4. CASE computes[c].host # h
      <3>1. Generation(computes[c].host)' = Generation(computes[c].host)
        BY <1>0, <1>a, <1>b, <2>4
      <3> QED BY <1>a, <2>1, <2>4, <3>1
    <2> QED BY <2>3, <2>4
  <1>5. Progress' /\ Versions'
    BY <1>a, <1>b, <1>c DEF Progress, Versions
  <1>6. CacheFresh'
    BY <1>b, <1>c, <1>d, <1>3 DEF CacheFresh, Hit, TypeOK
  <1>7. ReadsFresh'
    BY <1>0, <1>a, <1>c, <1>e, <1>3 DEF ReadsFresh
  <1>8. QuietLookup'
    BY <1>0, <1>a, <1>b, <1>d, <1>e DEF QuietLookup, Hit
  <1>9. QuietReads' /\ AnswerFresh'
    BY <1>0, <1>a, <1>d, <1>e DEF QuietReads, AnswerFresh
  <1> QED BY <1>2, <1>4, <1>5, <1>6, <1>7, <1>8, <1>9 DEF Fresh

\* A bump leaves every entry and every compute under way behind the version.
LEMMA BumpFresh ==
    ASSUME IInv, NEW o \in Ops, BumpConfigVersion(o)
    PROVE  OpsOwe' /\ Fresh'
  <1> USE DEF IInv
  <1>0. /\ config_version' = config_version + 1 /\ config_version \in Nat
        /\ UNCHANGED <<own, shared, present, entries, epoch, computes>>
    BY DEF BumpConfigVersion, TypeOK
  <1>1. \A c \in Computes : computes[c].ver < config_version' /\ computes[c].ver \in Nat
    BY <1>0 DEF Versions, TypeOK, ComputeRecord
  <1>2. \A h \in DOMAIN entries : /\ entries[h].config_version < config_version'
                                  /\ entries[h].config_version \in Nat
    BY <1>0 DEF Versions, TypeOK, Entry
  <1>3. OpsOwe'
    <2>1. ops'[o] = IdleOp /\ \A k \in Ops \ {o} : ops'[k] = ops[k]
      BY DEF BumpConfigVersion, TypeOK
    <2> QED BY <2>1, IdleOpFacts DEF OpsOwe
  <1>4. TicketOrder' /\ Progress'
    BY <1>0 DEF TicketOrder, Progress, Holding, Generation
  <1>5. Versions'
    BY <1>0, <1>1, <1>2 DEF Versions
  <1>6. CacheFresh'
    BY <1>0, <1>2 DEF CacheFresh, Hit
  <1>7. ReadsFresh'
    BY <1>0, <1>1 DEF ReadsFresh
  <1>8. QuietLookup' /\ QuietReads' /\ AnswerFresh'
    BY <1>0 DEF QuietLookup, QuietReads, AnswerFresh, Hit, Holding, FreshReads,
                Desired, Now
  <1> QED BY <1>3, <1>4, <1>5, <1>6, <1>7, <1>8 DEF Fresh

\* forget_host moves the epoch whenever it drops a generation.
LEMMA ForgetFresh ==
    ASSUME IInv, NEW o \in Ops, Forget(o)
    PROVE  OpsOwe' /\ Fresh'
  <1> USE DEF IInv
  <1> DEFINE h == ops[o].host
  <1>0. /\ \A c \in Computes : computes[c].host \in Hosts
        /\ UNCHANGED <<own, shared, present, config_version, computes, lost>>
        /\ entries' = [k \in DOMAIN entries \ {h} |-> entries[k]]
        /\ epoch' = IF h \in DOMAIN entries THEN epoch + 1 ELSE epoch
        /\ ops' = [ops EXCEPT ![o] = IdleOp] /\ ops[o].pc = "forget"
    BY DEF Forget, ForgetHost, TypeOK, ComputeRecord
  <1>1. ops[o].owed = {}
    BY <1>0 DEF OpsOwe
  <1>2. ops'[o] = IdleOp /\ \A k \in Ops \ {o} : ops'[k] = ops[k]
    BY <1>0 DEF TypeOK
  <1>3. OpsOwe'
    BY <1>2, IdleOpFacts DEF OpsOwe
  <1>4. \A k \in Hosts : Unsettled(k) => Unsettled(k)'
    BY <1>0, <1>1, <1>2 DEF Unsettled
  <1>5. TicketOrder'
    <2>1. CASE h \in DOMAIN entries
      BY <1>0, <2>1 DEF TicketOrder, Holding, TypeOK, ComputeRecord, Ticket
    <2>2. CASE h \notin DOMAIN entries
      BY <1>0, <2>2 DEF TicketOrder, Holding, Generation, TypeOK
    <2> QED BY <2>1, <2>2
  <1>6. Progress' /\ Versions'
    BY <1>0 DEF Progress, Versions
  <1>7. CacheFresh'
    BY <1>0, <1>4 DEF CacheFresh, Hit, Desired, Now, TypeOK
  <1>8. ReadsFresh'
    BY <1>0, <1>4 DEF ReadsFresh, Holding, FreshReads, Now
  <1>9. QuietLookup' /\ QuietReads' /\ AnswerFresh'
    BY <1>0 DEF QuietLookup, QuietReads, AnswerFresh, Hit, Holding, FreshReads,
                Desired, Now
  <1> QED BY <1>3, <1>5, <1>6, <1>7, <1>8, <1>9 DEF Fresh

LEMMA TicketOrderSound == TypeOK /\ TicketOrder => TicketSound
  BY NowTypes DEF TypeOK, TicketOrder, TicketSound, Current, ComputeRecord, Ticket

-----------------------------------------------------------------------------
(* The requests.                                                           *)

\* A request's step that leaves rows and cache alone leaves everything fresh
\* if it does so for that request.
LEMMA OneCompute ==
    ASSUME IInv, NEW c \in Computes, NEW r \in ComputeRecord,
           computes' = [computes EXCEPT ![c] = r],
           UNCHANGED <<own, shared, present, config_version, entries, epoch, ops, lost>>,
           r.ver <= config_version,
           r.pc = "idle" => ~r.quiet,
           r.pc = "read" => r.read < LastStatement,
           r.pc = "put" => r.read = LastStatement,
           r.pc \in {"read", "put"} =>
             /\ r.ticket.epoch <= epoch
             /\ r.ticket.epoch = epoch =>
                  /\ r.ticket.generation <= Generation(r.host)
                  /\ r.voided => r.ticket.generation < Generation(r.host)
             /\ \/ \A p \in Parts : ReadAt(p) <= r.read => r.got[p] = Now(r.host, p)
                \/ /\ ~r.quiet
                   /\ Holding(c) /\ ~FreshReads(c)
                   /\ r.host = computes[c].host /\ r.ver = computes[c].ver
                   /\ r.voided = computes[c].voided,
           r.pc = "lookup" /\ r.quiet =>
             /\ r.host \in present /\ r.ver = config_version /\ ~Unsettled(r.host),
           r.pc = "respond" /\ r.quiet => r.got = Desired(r.host)
    PROVE  OpsOwe' /\ Fresh'
  <1> USE DEF IInv
  <1>0. computes'[c] = r /\ \A d \in Computes \ {c} : computes'[d] = computes[d]
    BY DEF TypeOK
  <1>a. \A d \in Computes : computes[d].host \in Hosts
    BY DEF TypeOK, ComputeRecord
  <1>b. /\ \A h \in Hosts, p \in Parts : Now(h, p)' = Now(h, p)
        /\ \A h \in Hosts : Desired(h)' = Desired(h) /\ Generation(h)' = Generation(h)
        /\ \A h \in Hosts : Unsettled(h)' <=> Unsettled(h)
        /\ \A h \in Hosts, v \in Nat : Hit(h, v)' <=> Hit(h, v)
    BY DEF Now, Desired, Generation, Unsettled, Hit
  <1>c. r.host \in Hosts /\ r.ver \in Nat
    BY DEF ComputeRecord
  <1>d. \A d \in Computes \ {c} : /\ Holding(d)' <=> Holding(d)
                                  /\ FreshReads(d)' <=> FreshReads(d)
    BY <1>0, <1>a, <1>b DEF Holding, FreshReads
  <1>e. \/ ~Holding(c)' \/ FreshReads(c)'
        \/ /\ ~r.quiet
           /\ Holding(c) /\ ~FreshReads(c)
           /\ r.host = computes[c].host /\ r.ver = computes[c].ver
           /\ r.voided = computes[c].voided
    BY <1>0, <1>b, <1>c DEF Holding, FreshReads
  <1>1. OpsOwe'
    BY DEF OpsOwe
  <1>2. TicketOrder'
    BY <1>0, <1>a, <1>b, <1>c, <1>d DEF TicketOrder, Holding
  <1>3. Progress' /\ Versions'
    BY <1>0 DEF Progress, Versions
  <1>4. CacheFresh'
    BY <1>b DEF CacheFresh, TypeOK
  <1>5. ReadsFresh'
    BY <1>0, <1>a, <1>b, <1>c, <1>d, <1>e DEF ReadsFresh
  <1>6. QuietReads'
    BY <1>0, <1>d, <1>e DEF QuietReads
  <1>7. AnswerFresh'
    BY <1>0, <1>a, <1>b, <1>c DEF AnswerFresh
  <1>8. QuietLookup'
    <2> SUFFICES ASSUME NEW d \in Computes, computes'[d].quiet,
                        computes'[d].pc = "lookup"
                 PROVE  /\ Hit(computes[d].host, computes[d].ver)' =>
                             (entries[computes[d].host].state
                               = Desired(computes[d].host))'
                        /\ \A e \in Computes :
                             /\ Holding(e)' /\ computes'[e].host = computes'[d].host
                             /\ computes'[e].ver = computes'[d].ver
                             /\ ~computes'[e].voided
                             => FreshReads(e)'
      BY DEF QuietLookup
    <2>1. CASE d = c
      <3>1. r.host \in present /\ r.ver = config_version /\ ~Unsettled(r.host)
        BY <1>0, <2>1
      <3>2. Hit(r.host, r.ver) => entries[r.host].state = Desired(r.host)
        BY <3>1 DEF CacheFresh
      <3>3. \A e \in Computes \ {c} :
              Holding(e) /\ computes[e].host = r.host /\ computes[e].ver = r.ver
              /\ ~computes[e].voided => FreshReads(e)
        BY <3>1 DEF ReadsFresh
      <3>4. (Hit(computes[d].host, computes[d].ver) =>
              entries[computes[d].host].state = Desired(computes[d].host))'
        BY <1>0, <1>c, <2>1, <3>2 DEF Hit, Desired, Now
      <3>5. \A e \in Computes \ {c} :
              Holding(e)' /\ computes'[e].host = r.host /\ computes'[e].ver = r.ver
              /\ ~computes'[e].voided => FreshReads(e)'
        BY <1>0, <1>d, <3>3
      <3>6. ~Holding(c)'
        BY <2>1 DEF Holding
      <3> QED BY <1>0, <2>1, <3>4, <3>5, <3>6
    <2>2. CASE d # c
      <3>1. computes'[d] = computes[d] /\ computes[d].ver \in Nat
        BY <1>0, <2>2 DEF TypeOK, ComputeRecord
      <3>2. Hit(computes[d].host, computes[d].ver) =>
              entries[computes[d].host].state = Desired(computes[d].host)
        BY <3>1 DEF QuietLookup
      <3>3. \A e \in Computes :
              Holding(e) /\ computes[e].host = computes[d].host
              /\ computes[e].ver = computes[d].ver
              /\ ~computes[e].voided => FreshReads(e)
        BY <3>1 DEF QuietLookup
      <3>4. (Hit(computes[d].host, computes[d].ver) =>
              entries[computes[d].host].state = Desired(computes[d].host))'
        BY <3>1, <3>2 DEF Hit, Desired, Now
      <3>5. \A e \in Computes :
              Holding(e)' /\ computes'[e].host = computes[d].host
              /\ computes'[e].ver = computes[d].ver
              /\ ~computes'[e].voided => FreshReads(e)'
        BY <1>0, <1>d, <1>e, <3>3
      <3> QED BY <3>1, <3>4, <3>5
    <2> QED BY <2>1, <2>2
  <1> QED BY <1>1, <1>2, <1>3, <1>4, <1>5, <1>6, <1>7, <1>8 DEF Fresh

\* All the inputs read, and all of them fresh: the compute is the desired state.
LEMMA AllRead ==
    ASSUME IInv, NEW c \in Computes, computes[c].pc = "put", FreshReads(c)
    PROVE  computes[c].got = Desired(computes[c].host)
  <1>1. computes[c].read = LastStatement /\ computes[c].got \in State
    BY DEF IInv, Progress, TypeOK, ComputeRecord
  <1>2. \A p \in Parts : computes[c].got[p] = Now(computes[c].host, p)
    BY <1>1, PartsTypes DEF FreshReads, LastStatement
  <1> QED BY <1>1, <1>2 DEF Desired, State

LEMMA RequestStepsFresh ==
    ASSUME IInv, TypeOK', NEW c \in Computes,
           \/ \E h \in Hosts : Request(c, h)
           \/ Lookup(c) \/ TakeTicket(c) \/ ReadInputs(c) \/ Respond(c) \/ AbortCompute(c)
    PROVE  OpsOwe' /\ Fresh'
  <1> DEFINE k == computes[c]
  <1>0. /\ k \in ComputeRecord /\ k.host \in Hosts /\ k.ver <= config_version
        /\ computes'[c] \in ComputeRecord
    BY DEF IInv, TypeOK, ComputeRecord, Versions
  <1>a. config_version <= config_version
    BY DEF IInv, TypeOK
  <1>1. CASE \E h \in Hosts : Request(c, h)
    <2> PICK h \in Hosts : Request(c, h)
      BY <1>1
    <2> DEFINE r == [k EXCEPT !.pc = "lookup", !.host = h, !.ver = config_version,
                              !.quiet = ~Unsettled(h)]
    <2>1. computes' = [computes EXCEPT ![c] = r] /\ h \in present
          /\ UNCHANGED <<db, cache, ops, started, served, lost>>
      BY DEF Request
    <2>2. r \in ComputeRecord
      BY <1>0, <2>1 DEF IInv, TypeOK
    <2>3. r.pc = "lookup" /\ r.host = h /\ r.ver = config_version /\ (r.quiet = ~Unsettled(h))
      BY <1>0 DEF ComputeRecord
    <2> HIDE DEF r
    <2> QED BY <1>a, <2>1, <2>2, <2>3, OneCompute
  <1>2. CASE Lookup(c)
    <2>1. CASE Hit(k.host, k.ver)
      <3> DEFINE r == [k EXCEPT !.pc = "respond", !.got = entries[k.host].state]
      <3>1. computes' = [computes EXCEPT ![c] = r] /\ k.pc = "lookup"
            /\ UNCHANGED <<db, cache, ops, started, served, lost>>
        BY <1>2, <2>1 DEF Lookup
      <3>2. r \in ComputeRecord
        BY <1>0, <3>1 DEF IInv, TypeOK
      <3>3. r.pc = "respond" /\ r.host = k.host /\ r.ver = k.ver /\ r.quiet = k.quiet
            /\ r.got = entries[k.host].state
        BY <1>0 DEF ComputeRecord
      <3>4. k.quiet => entries[k.host].state = Desired(k.host)
        BY <2>1, <3>1 DEF IInv, QuietLookup
      <3> HIDE DEF r
      <3> QED BY <1>0, <3>1, <3>2, <3>3, <3>4, OneCompute
    <2>2. CASE ~Hit(k.host, k.ver)
      <3> DEFINE r == [k EXCEPT !.pc = "ticket"]
      <3>1. computes' = [computes EXCEPT ![c] = r]
            /\ UNCHANGED <<db, cache, ops, started, served, lost>>
        BY <1>2, <2>2 DEF Lookup
      <3>2. r \in ComputeRecord
        BY <1>0, <3>1 DEF IInv, TypeOK
      <3>3. r.pc = "ticket" /\ r.ver = k.ver
        BY <1>0 DEF ComputeRecord
      <3> HIDE DEF r
      <3> QED BY <1>0, <3>1, <3>2, <3>3, OneCompute
    <2> QED BY <2>1, <2>2
  <1>3. CASE TakeTicket(c)
    <2> DEFINE t == [epoch |-> epoch, generation |-> Generation(k.host)]
               r == [k EXCEPT !.pc = "read", !.read = 0, !.got = Blank,
                              !.voided = FALSE, !.ticket = t]
    <2>1. computes' = [computes EXCEPT ![c] = r]
          /\ UNCHANGED <<db, cache, ops, started, served, lost>>
      BY <1>3 DEF TakeTicket
    <2>2. r \in ComputeRecord
      BY <1>0, <2>1 DEF IInv, TypeOK
    <2>3. r.pc = "read" /\ r.host = k.host /\ r.ver = k.ver /\ r.read = 0
          /\ r.ticket = t /\ ~r.voided
      BY <1>0 DEF ComputeRecord
    <2>4. t.epoch = epoch /\ t.generation = Generation(k.host)
          /\ epoch \in Nat /\ Generation(k.host) \in Nat
      BY <1>0, NowTypes DEF IInv, TypeOK
    <2>5. \A p \in Parts : ~(ReadAt(p) <= 0)
      BY PartsTypes DEF LastStatement
    <2> HIDE DEF r, t
    <2>6. /\ r.ver <= config_version /\ r.pc = "read" /\ r.read < LastStatement
          /\ r.ticket.epoch <= epoch
          /\ r.ticket.generation <= Generation(r.host) /\ ~r.voided
          /\ \A p \in Parts : ReadAt(p) <= r.read => r.got[p] = Now(r.host, p)
      BY <1>0, <2>3, <2>4, <2>5 DEF LastStatement
    <2> QED BY <2>1, <2>2, <2>6, OneCompute
  <1>4. CASE ReadInputs(c)
    <2> DEFINE n == k.read + 1
               g == [p \in Parts |-> IF ReadAt(p) = n THEN Now(k.host, p) ELSE k.got[p]]
               pc == IF n = LastStatement THEN "put" ELSE "read"
               r == [k EXCEPT !.read = n, !.pc = pc, !.got = g]
    <2>1. computes' = [computes EXCEPT ![c] = r] /\ k.pc = "read"
          /\ UNCHANGED <<db, cache, ops, started, served, lost>>
      BY <1>4 DEF ReadInputs
    <2>2. r \in ComputeRecord
      BY <1>0, <2>1 DEF IInv, TypeOK
    <2>3. r.pc = pc /\ r.host = k.host /\ r.ver = k.ver /\ r.read = n /\ r.got = g
          /\ r.ticket = k.ticket /\ r.voided = k.voided /\ r.quiet = k.quiet
      BY <1>0 DEF ComputeRecord
    <2>4. k.read < LastStatement /\ k.read \in Nat /\ Holding(c)
      BY <1>0, <2>1 DEF IInv, Progress, ComputeRecord, Holding
    <2>5. /\ pc = "read" => n < LastStatement
          /\ pc = "put" => n = LastStatement
          /\ pc \in {"read", "put"}
      BY <2>4 DEF LastStatement
    <2>6. FreshReads(c) =>
            \A p \in Parts : ReadAt(p) <= n => g[p] = Now(k.host, p)
      <3> SUFFICES ASSUME FreshReads(c), NEW p \in Parts, ReadAt(p) <= n
                   PROVE  g[p] = Now(k.host, p)
        OBVIOUS
      <3>1. ReadAt(p) \in Nat
        BY PartsTypes DEF LastStatement
      <3>2. ReadAt(p) = n \/ ReadAt(p) <= k.read
        BY <2>4, <3>1
      <3> QED BY <3>2 DEF FreshReads
    <2>7. k.quiet => FreshReads(c)
      BY <2>4 DEF IInv, QuietReads
    <2>8. /\ k.ticket.epoch <= epoch
          /\ k.ticket.epoch = epoch =>
               /\ k.ticket.generation <= Generation(k.host)
               /\ k.voided => k.ticket.generation < Generation(k.host)
      BY <2>4 DEF IInv, TicketOrder
    <2>9. \/ \A p \in Parts : ReadAt(p) <= r.read => r.got[p] = Now(r.host, p)
          \/ /\ ~r.quiet
             /\ Holding(c) /\ ~FreshReads(c)
             /\ r.host = computes[c].host /\ r.ver = computes[c].ver
             /\ r.voided = computes[c].voided
      <3> HIDE DEF n, g, pc, r
      <3> QED BY <2>3, <2>4, <2>6, <2>7
    <2>10. /\ r.ver <= config_version
           /\ r.pc \notin {"idle", "lookup", "respond"}
           /\ r.pc = "read" => r.read < LastStatement
           /\ r.pc = "put" => r.read = LastStatement
      <3> HIDE DEF n, g, pc, r
      <3> QED BY <1>0, <2>3, <2>5
    <2>11. /\ r.ticket.epoch <= epoch
           /\ r.ticket.epoch = epoch =>
                /\ r.ticket.generation <= Generation(r.host)
                /\ r.voided => r.ticket.generation < Generation(r.host)
      <3> HIDE DEF n, g, pc, r
      <3> QED BY <2>3, <2>8
    <2> HIDE DEF n, g, pc, r
    <2> QED BY <2>1, <2>2, <2>9, <2>10, <2>11, OneCompute
  <1>5. CASE Respond(c) \/ AbortCompute(c)
    <2>1. computes' = [computes EXCEPT ![c] = IdleCompute]
          /\ UNCHANGED <<db, cache, ops, lost>>
      BY <1>5 DEF Respond, AbortCompute
    <2>2. IdleCompute.pc = "idle" /\ IdleCompute.ver = 0 /\ ~IdleCompute.quiet
      BY DEF IdleCompute
    <2>3. 0 <= config_version
      BY DEF IInv, TypeOK
    <2> QED BY <2>1, <2>2, <2>3, IdleTypes, OneCompute
  <1> QED BY <1>1, <1>2, <1>3, <1>4, <1>5

\* Storing a result that its ticket lets through: no input it was computed
\* from has been invalidated since, so the entry is as fresh as its reads.
LEMMA PutFresh ==
    ASSUME IInv, TypeOK', NEW c \in Computes, Put(c)
    PROVE  OpsOwe' /\ Fresh'
  <1> DEFINE k == computes[c]
             h == computes[c].host
             r == [computes[c] EXCEPT !.pc = "respond"]
  <1>0. /\ k \in ComputeRecord /\ h \in Hosts /\ k.ver <= config_version
        /\ k.pc = "put" /\ Holding(c)
    BY DEF IInv, TypeOK, ComputeRecord, Versions, Put, Holding
  <1>a. r \in ComputeRecord /\ r.pc = "respond" /\ r.host = h /\ r.ver = k.ver
        /\ r.quiet = k.quiet /\ r.got = k.got
    BY <1>0 DEF ComputeRecord, ComputePcs
  <1>b. computes' = [computes EXCEPT ![c] = r]
    BY <1>0 DEF Put, IInv, TypeOK
  <1>c. k.quiet => k.got = Desired(h)
    BY <1>0, AllRead DEF IInv, QuietReads
  <1>1. CASE ~Current(h, k.ticket)
    <2>1. UNCHANGED <<db, cache, ops, started, served, lost>>
      BY <1>1 DEF Put
    <2> HIDE DEF r
    <2> QED BY <1>0, <1>a, <1>b, <1>c, <2>1, OneCompute
  <1>2. CASE Current(h, k.ticket)
    <2> USE DEF IInv
    <2>1. PICK kept \in Reclaimed(DOMAIN entries) :
            /\ epoch' = IF kept # DOMAIN entries THEN epoch + 1 ELSE epoch
            /\ entries' = [j \in kept \cup {h} |->
                 IF j = h
                 THEN [config_version |-> k.ver, state |-> k.got,
                       generation |-> Generation(h)]
                 ELSE entries[j]]
      BY <1>2 DEF Put
    <2>2. kept \subseteq DOMAIN entries
      BY <2>1 DEF Reclaimed
    <2>3. UNCHANGED <<own, shared, present, config_version, ops, lost>>
      BY DEF Put
    <2>4. ~k.voided
      BY <1>0, <1>2, TicketOrderSound DEF TicketSound
    <2>5. /\ computes'[c] = r /\ \A d \in Computes \ {c} : computes'[d] = computes[d]
      BY <1>b DEF TypeOK
    <2>6. /\ DOMAIN entries' = kept \cup {h}
          /\ entries'[h].config_version = k.ver /\ entries'[h].state = k.got
          /\ entries'[h].generation = Generation(h)
          /\ \A j \in kept \ {h} : entries'[j] = entries[j]
      BY <2>1
    <2> HIDE DEF r
    <2>7. /\ \A j \in Hosts, p \in Parts : Now(j, p)' = Now(j, p)
          /\ \A j \in Hosts : Desired(j)' = Desired(j) /\ (Unsettled(j)' <=> Unsettled(j))
      BY <2>3 DEF Now, Desired, Unsettled
    <2>8. \A d \in Computes :
            Holding(d)' => d # c /\ Holding(d) /\ computes'[d] = computes[d]
      BY <1>a, <2>5 DEF Holding
    <2>9. \A d \in Computes : computes[d].host \in Hosts
      BY DEF TypeOK, ComputeRecord
    <2>10. \A d \in Computes \ {c} : FreshReads(d)' <=> FreshReads(d)
      BY <2>5, <2>7, <2>9 DEF FreshReads
    <2>11. OpsOwe'
      BY <2>3 DEF OpsOwe
    <2>12. TicketOrder'
      <3>1. CASE kept = DOMAIN entries
        <4>1. epoch' = epoch /\ \A j \in Hosts : Generation(j)' = Generation(j)
          BY <2>1, <2>6, <3>1 DEF Generation
        <4> QED BY <2>8, <2>9, <4>1 DEF TicketOrder
      <3>2. CASE kept # DOMAIN entries
        <4>1. epoch' = epoch + 1 /\ epoch \in Nat
          BY <2>1, <3>2 DEF TypeOK
        <4>2. \A d \in Computes : computes[d].ticket.epoch \in Nat
          BY DEF TypeOK, ComputeRecord, Ticket
        <4> QED BY <2>8, <4>1, <4>2 DEF TicketOrder
      <3> QED BY <3>1, <3>2
    <2>13. Progress'
      BY <1>a, <2>5 DEF Progress
    <2>14. Versions'
      BY <1>0, <1>a, <2>2, <2>3, <2>5, <2>6 DEF Versions
    <2>15. CacheFresh'
      <3>1. h \in present /\ k.ver = config_version /\ ~Unsettled(h) => k.got = Desired(h)
        BY <1>0, <2>4, AllRead DEF ReadsFresh
      <3> QED BY <1>0, <2>2, <2>3, <2>6, <2>7, <3>1 DEF CacheFresh, Hit, TypeOK
    <2>16. ReadsFresh'
      BY <2>3, <2>7, <2>8, <2>9, <2>10 DEF ReadsFresh
    <2>17. QuietReads'
      BY <2>8, <2>10 DEF QuietReads
    <2>18. AnswerFresh'
      BY <1>a, <1>c, <1>0, <2>5, <2>7, <2>9 DEF AnswerFresh
    <2>19. QuietLookup'
      <3> SUFFICES ASSUME NEW d \in Computes \ {c}, computes[d].quiet,
                          computes[d].pc = "lookup"
                   PROVE  /\ Hit(computes[d].host, computes[d].ver)' =>
                               (entries[computes[d].host].state
                                 = Desired(computes[d].host))'
                          /\ \A e \in Computes \ {c} :
                               /\ Holding(e) /\ computes[e].host = computes[d].host
                               /\ computes[e].ver = computes[d].ver
                               /\ ~computes[e].voided
                               => FreshReads(e)
        BY <1>a, <2>5, <2>8, <2>10 DEF QuietLookup
      <3>1. /\ Hit(computes[d].host, computes[d].ver) =>
                 entries[computes[d].host].state = Desired(computes[d].host)
            /\ \A e \in Computes :
                 /\ Holding(e) /\ computes[e].host = computes[d].host
                 /\ computes[e].ver = computes[d].ver /\ ~computes[e].voided
                 => FreshReads(e)
        BY DEF QuietLookup
      <3>2. computes[d].host = h /\ computes[d].ver = k.ver => k.got = Desired(h)
        BY <1>0, <2>4, <3>1, AllRead
      <3>3. computes'[d] = computes[d] /\ computes[d].host \in Hosts
        BY <2>5, <2>9
      <3>4. (Hit(computes[d].host, computes[d].ver) =>
              entries[computes[d].host].state = Desired(computes[d].host))'
        <4>1. CASE computes[d].host = h
          BY <2>6, <2>7, <3>2, <3>3, <4>1 DEF Hit
        <4>2. CASE computes[d].host # h
          BY <2>2, <2>6, <2>7, <3>1, <3>3, <4>2 DEF Hit
        <4> QED BY <4>1, <4>2
      <3> QED BY <3>1, <3>4
    <2> QED BY <2>11, <2>12, <2>13, <2>14, <2>15, <2>16, <2>17, <2>18, <2>19 DEF Fresh
  <1> QED BY <1>1, <1>2

-----------------------------------------------------------------------------
LEMMA InitFresh == Init => OpsOwe /\ Fresh
  <1> SUFFICES ASSUME Init PROVE OpsOwe /\ Fresh
    OBVIOUS
  <1>1. /\ \A o \in Ops : ops[o] = IdleOp
        /\ \A c \in Computes : computes[c] = IdleCompute
        /\ DOMAIN entries = {} /\ config_version = 0
    BY DEF Init
  <1>2. IdleCompute.pc = "idle" /\ IdleCompute.ver = 0 /\ ~IdleCompute.quiet
    BY DEF IdleCompute
  <1>3. OpsOwe
    BY <1>1, IdleOpFacts DEF OpsOwe
  <1> QED BY <1>1, <1>2, <1>3 DEF Fresh, TicketOrder, Progress, Versions, CacheFresh,
        ReadsFresh, QuietLookup, QuietReads, AnswerFresh, Holding, Hit

\* The strengthened invariant holds in every reachable state.
THEOREM Inductive == Spec => []IInv
  <1>1. Init => IInv
    BY InitTypes, InitFresh DEF IInv, Fresh
  <1>2. IInv /\ [Next]_vars => IInv'
    <2> SUFFICES ASSUME IInv, [Next]_vars PROVE IInv'
      OBVIOUS
    <2>a. SUFFICES TypeOK' /\ OpsOwe' /\ Fresh'
      BY DEF IInv, Fresh
    <2>b. TypeOK
      BY DEF IInv
    <2>1. CASE \E c \in Computes, h \in Hosts : Request(c, h)
      BY <2>1, <2>b, ComputeTypes, RequestStepsFresh
    <2>2. CASE \E c \in Computes : ComputeStep(c)
      BY <2>2, <2>b, ComputeTypes, RequestStepsFresh, PutFresh DEF ComputeStep
    <2>3. CASE \E c \in Computes : AbortCompute(c)
      BY <2>3, <2>b, ComputeTypes, RequestStepsFresh
    <2>4. CASE \E o \in Ops : BeginOp(o)
      BY <2>4, <2>b, BeginTypes, BeginFresh
    <2>5. CASE \E o \in Ops : OpStep(o)
      <3> PICK o \in Ops : OpStep(o)
        BY <2>5
      <3>1. TypeOK'
        BY <2>b, OpTypes
      <3> QED BY <3>1, QuietOpFresh, WriteOpFresh, InvalidateFresh, BumpFresh,
                 ForgetFresh DEF OpStep
    <2>6. CASE \E o \in Ops : AbortOp(o)
      BY <2>6, <2>b, OpTypes, QuietOpFresh
    <2>7. CASE UNCHANGED vars
      <3>1. TypeOK'
        BY <2>b, <2>7 DEF TypeOK, vars
      <3>2. OpsOwe'
        BY <2>7 DEF vars, IInv, OpsOwe
      <3>3. \A h \in Hosts : Unsettled(h) => Unsettled(h)'
        BY <2>7 DEF vars, Unsettled
      <3> QED BY <2>7, <3>1, <3>2, <3>3, OpsOnly DEF vars
    <2> QED BY <2>1, <2>2, <2>3, <2>4, <2>5, <2>6, <2>7 DEF Next
  <1> QED BY <1>1, <1>2, PTL DEF Spec

\* A compute whose host was invalidated since it took its ticket never stores
\* its result, however often the host's entry was dropped and made anew.
THEOREM TicketsSound == Spec => []TicketSound
  <1>1. IInv => TicketSound
    BY TicketOrderSound DEF IInv
  <1> QED BY <1>1, Inductive, PTL

\* What the cache would serve is what a fresh compute would return, unless a
\* change is still to be notified or its notification was lost.
THEOREM CacheStaysFresh == Spec => []CacheFresh
  <1>1. IInv => CacheFresh
    BY DEF IInv
  <1> QED BY <1>1, Inductive, PTL

\* A request made on a settled host that nothing changes meanwhile is answered
\* with that host's inputs.
THEOREM AnswersFresh == Spec => []AnswerFresh
  <1>1. IInv => AnswerFresh
    BY DEF IInv
  <1> QED BY <1>1, Inductive, PTL

-----------------------------------------------------------------------------
(* Handlers that lose no notification.                                     *)

TagKinds == {"put_tag", "bulk_tags"}

\* Nothing was lost, and what runs is what may.
Settled == lost = {} /\ \A o \in Ops : ops[o].pc # "idle" => ops[o].kind \in OpKinds

\* A handler that goes on, or ends, keeps its kind or is idle.
LEMMA OneOp ==
    ASSUME IInv, Settled, NEW o \in Ops, NEW n, ops' = [ops EXCEPT ![o] = n],
           n.pc # "idle" => n.kind \in OpKinds, lost' = {}
    PROVE  Settled'
  BY DEF Settled, IInv, TypeOK

LEMMA ProceedSettled ==
    ASSUME IInv, Settled, NEW o \in Ops, ops[o].kind \in OpKinds, NEW todo, NEW owed,
           Proceed(o, todo, owed), lost' = {}
    PROVE  Settled'
  <1>1. PICK pc : pc = IF todo # {} THEN "check" ELSE "notify"
    OBVIOUS
  <1>2. PICK n : /\ ops' = [ops EXCEPT ![o] = n]
                 /\ n = IF todo = {} /\ owed = {} THEN IdleOp
                        ELSE [ops[o] EXCEPT !.todo = todo, !.owed = owed, !.pc = pc]
    BY <1>1 DEF Proceed
  <1>3. ops[o] \in OpRecord
    BY DEF IInv, TypeOK
  <1>4. n.pc # "idle" => n.kind \in OpKinds
    BY <1>2, <1>3, IdleOpFacts DEF OpRecord
  <1> QED BY <1>2, <1>4, OneOp

LEMMA OpSettled ==
    ASSUME IInv, Settled, OpKinds \cap TagKinds = {}, NEW o \in Ops, OpStep(o)
    PROVE  Settled'
  <1>0. /\ ops[o] \in OpRecord /\ lost = {}
        /\ ops[o].pc # "idle" => ops[o].kind \in OpKinds /\ ops[o].kind \notin TagKinds
    BY DEF IInv, TypeOK, Settled
  <1>1. CASE \E h \in Hosts : TagCheck(o, h)
    BY <1>0, <1>1 DEF TagCheck, TagKinds, IInv, OpsOwe
  <1>2. CASE TagRead(o) \/ TagWrite(o)
    BY <1>0, <1>2 DEF TagRead, TagWrite, TagKinds
  <1>3. CASE ReportWrite(o)
    <2>1. CASE Return(o, {})
      BY <1>0, <2>1, OneOp, IdleOpFacts DEF Return
    <2>2. CASE \E D : Proceed(o, {}, D) /\ UNCHANGED lost
      BY <1>0, <1>3, <2>2, ProceedSettled DEF ReportWrite
    <2> QED BY <1>3, <2>1, <2>2 DEF ReportWrite
  <1>4. CASE FactsRead(o)
    <2>1. PICK s, t : s = own[ops[o].host].facts /\ t = ops[o].tries + 1
      OBVIOUS
    <2>2. PICK n : /\ ops' = [ops EXCEPT ![o] = n]
                   /\ n = IdleOp \/ n = [ops[o] EXCEPT !.pc = "write", !.seen = s, !.tries = t]
      BY <1>4, <2>1 DEF FactsRead
    <2>3. n.pc # "idle" => n.kind \in OpKinds
      BY <1>0, <1>4, <2>2, IdleOpFacts DEF OpRecord, FactsRead
    <2>4. lost' = {}
      BY <1>0, <1>4 DEF FactsRead
    <2> QED BY <2>2, <2>3, <2>4, OneOp
  <1>5. CASE FactsWrite(o)
    <2>1. CASE Return(o, {})
      BY <1>0, <2>1, OneOp, IdleOpFacts DEF Return
    <2>2. CASE \E D : Proceed(o, {}, D) /\ UNCHANGED lost
      BY <1>0, <1>5, <2>2, ProceedSettled DEF FactsWrite
    <2>3. CASE /\ ops' = [ops EXCEPT ![o] = IF ops[o].tries < StoreAttempts THEN [@ EXCEPT !.pc = "read"] ELSE IdleOp]
               /\ UNCHANGED lost
      <3>1. PICK n : /\ ops' = [ops EXCEPT ![o] = n]
                     /\ n = IdleOp \/ n = [ops[o] EXCEPT !.pc = "read"]
        BY <2>3
      <3>2. n.pc # "idle" => n.kind \in OpKinds
        BY <1>0, <1>5, <3>1, IdleOpFacts DEF OpRecord, FactsWrite
      <3> QED BY <1>0, <2>3, <3>1, <3>2, OneOp
    <2> QED BY <1>5, <2>1, <2>2, <2>3 DEF FactsWrite
  <1>6. CASE FactsDelete(o)
    BY <1>0, <1>6, ProceedSettled DEF FactsDelete
  <1>7. CASE ConfigWrite(o)
    <2>1. CASE Return(o, {})
      BY <1>0, <2>1, OneOp, IdleOpFacts DEF Return
    <2>2. CASE \E D : Proceed(o, {}, D) /\ UNCHANGED lost
      BY <1>0, <1>7, <2>2, ProceedSettled DEF ConfigWrite
    <2> QED BY <1>7, <2>1, <2>2 DEF ConfigWrite
  <1>8. CASE DeleteWrite(o) \/ RevokeWrite(o)
    <2>1. PICK n : /\ ops' = [ops EXCEPT ![o] = n]
                   /\ n = IdleOp \/ n = [ops[o] EXCEPT !.pc = "forget"]
      BY <1>8 DEF DeleteWrite, RevokeWrite
    <2>2. n.pc # "idle" => n.kind \in OpKinds
      BY <1>0, <1>8, <2>1, IdleOpFacts DEF OpRecord, DeleteWrite, RevokeWrite
    <2>3. lost' = {}
      BY <1>0, <1>8 DEF DeleteWrite, RevokeWrite
    <2> QED BY <2>1, <2>2, <2>3, OneOp
  <1>9. CASE \E h \in Hosts : Invalidate(o, h)
    <2>1. PICK h \in Hosts : Invalidate(o, h)
      BY <1>9
    <2>2. PICK D : D = ops[o].owed \ {h}
      OBVIOUS
    <2>3. PICK n : /\ ops' = [ops EXCEPT ![o] = n]
                   /\ n = IdleOp \/ n = [ops[o] EXCEPT !.owed = D]
      BY <2>1, <2>2 DEF Invalidate
    <2>4. n.pc # "idle" => n.kind \in OpKinds
      BY <1>0, <2>1, <2>3, IdleOpFacts DEF OpRecord, Invalidate
    <2>5. lost' = {}
      BY <1>0, <2>1 DEF Invalidate
    <2> QED BY <2>3, <2>4, <2>5, OneOp
  <1>10. CASE BumpConfigVersion(o) \/ Forget(o)
    BY <1>0, <1>10, OneOp, IdleOpFacts DEF BumpConfigVersion, Forget
  <1> QED BY <1>1, <1>2, <1>3, <1>4, <1>5, <1>6, <1>7, <1>8, <1>9, <1>10 DEF OpStep

LEMMA BeginSettled ==
    ASSUME IInv, Settled, NEW o \in Ops, BeginOp(o)
    PROVE  Settled'
  <1>1. PICK kind, pc, h, S, p, v : Begin(o, kind, pc, h, S, p, v)
    BY DEF BeginOp, PutTag, BulkTags, StateReport, StoreFacts, RemoveFacts, ChangeConfig, ChangeOverride,
           DeleteHost, RevokeHost
  <1>2. PICK n : n = [IdleOp EXCEPT !.kind = kind, !.pc = pc, !.host = h, !.todo = S, !.part = p, !.val = v]
    OBVIOUS
  <1>3. n.kind = kind
    BY <1>2 DEF IdleOp
  <1> QED BY <1>1, <1>2, <1>3, OneOp DEF Begin, Settled

\* While nothing changes, no entry that a poll would be served is stale
\* (desired_state.rs:4-9), if no handler is cut off between a commit and its
\* notification and the handlers of manual tags, which decide whether to notify
\* from a read their write does not guard, do not run.
THEOREM RestIsFresh ==
    ASSUME ~Faults, OpKinds \cap TagKinds = {}
    PROVE  Spec => []NoStaleAtRest
  <1>1. Init => Settled
    BY IdleOpFacts DEF Init, Settled
  <1>2. IInv /\ Settled /\ [Next]_vars => Settled'
    <2> SUFFICES ASSUME IInv, Settled, [Next]_vars PROVE Settled'
      OBVIOUS
    <2>1. CASE \E c \in Computes : ComputeStep(c) \/ AbortCompute(c) \/ \E h \in Hosts : Request(c, h)
      <3>1. UNCHANGED <<ops, lost>>
        BY <2>1 DEF ComputeStep, AbortCompute, Request, Lookup, TakeTicket, ReadInputs, Put, Respond
      <3> QED BY <3>1 DEF Settled
    <2>2. CASE \E o \in Ops : BeginOp(o)
      BY <2>2, BeginSettled
    <2>3. CASE \E o \in Ops : OpStep(o)
      BY <2>3, OpSettled
    <2>4. CASE \E o \in Ops : AbortOp(o)
      BY <2>4 DEF AbortOp
    <2>5. CASE UNCHANGED vars
      BY <2>5 DEF vars, Settled
    <2> QED BY <2>1, <2>2, <2>3, <2>4, <2>5 DEF Next
  <1>3. IInv /\ Settled => NoStaleAtRest
    BY DEF IInv, Settled, OpsOwe, CacheFresh, Unsettled, NoStaleAtRest
  <1> QED BY <1>1, <1>2, <1>3, Inductive, PTL DEF Spec

=============================================================================
