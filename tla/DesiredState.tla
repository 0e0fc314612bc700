----------------------------- MODULE DesiredState -----------------------------
(***************************************************************************)
(* The memoized desired state of one tenant's hosts: the cache of          *)
(* crates/server/src/agent/desired_state.rs, the computes that fill it,    *)
(* and every handler that changes an input of a compute and must then      *)
(* either bump the tenant's config_version or invalidate the host.         *)
(*                                                                         *)
(* Requests run concurrently, and every database statement and every       *)
(* cache-lock section is a step of its own.  A desired state is            *)
(* represented by the inputs it was computed from.                         *)
(***************************************************************************)
EXTENDS Naturals, FiniteSets, TLC

CONSTANTS
    Hosts,          \* host ids of the tenant; each host's agent polls
    Consoles,       \* request slots of console users asking for a host's state
    Ops,            \* request slots of the handlers that change inputs
    Values,         \* contents of an input (a tag value, a document, ...)
    Absent,         \* an input that is not there
    None,           \* the state of a tombstone entry
    OpKinds,        \* which handlers the workload may start
    Faults,         \* may statements fail and clients hang up?
    StoreAttempts,  \* STORE_ATTEMPTS of facts/store.rs
    MaxEntries,     \* MAX_ENTRIES of the cache
    MaxOps,         \* bound: handlers started
    MaxEpoch        \* bound: cache epochs

Content == Values \cup {Absent}

(***************************************************************************)
(* The inputs of a compute, and the statement of compute_uncached that     *)
(* reads each: one SELECT for both kinds of tags, then the groups, the     *)
(* facts documents, the bundle assignments with their bundle rows, and the *)
(* override.                                                               *)
(***************************************************************************)
HostParts   == {"manual", "agent", "facts", "override"}
SharedParts == {"groups", "bundles"}
Parts       == HostParts \cup SharedParts
ReadAt(p)   == CASE p = "manual"   -> 1
                 [] p = "agent"    -> 1
                 [] p = "groups"   -> 2
                 [] p = "facts"    -> 3
                 [] p = "bundles"  -> 4
                 [] p = "override" -> 5
LastStatement == 5

State  == [Parts -> Content]
Entry  == [config_version : Nat, state : State \cup {None}, generation : Nat]
Ticket == [epoch : Nat, generation : Nat]

Computes == Hosts \cup Consoles
Kinds    == {"put_tag", "bulk_tags", "report", "store_facts", "remove_facts",
             "config", "delete_host", "revoke"}

ASSUME ConstantsAssumption ==
    /\ None \notin State
    /\ Absent \notin Values
    /\ OpKinds \subseteq Kinds
    /\ Faults \in BOOLEAN
    /\ StoreAttempts \in Nat \ {0}
    /\ MaxEntries \in Nat \ {0}
    /\ MaxOps \in Nat
    /\ MaxEpoch \in Nat
    /\ Hosts # {}
    /\ Hosts \cap Consoles = {}

VARIABLES
    own,             \* per-host rows: host_tags, host_facts, host_overrides
    shared,          \* per-tenant rows: groups, assignments and bundles
    present,         \* hosts with a row
    config_version,  \* tenants.config_version
    entries,         \* DesiredStateCache::entries
    epoch,           \* DesiredStateCache::epoch
    computes,        \* requests for a desired state, by slot
    ops,             \* mutating requests, by slot
    started,         \* how many mutating requests were started (bounded)
    served,          \* last state each host's agent was answered
    lost             \* ghost: hosts whose input changed under a handler that
                     \* ended without notifying the cache, and no later
                     \* notification has covered for it

db    == <<own, shared, present, config_version>>
cache == <<entries, epoch>>
vars  == <<db, cache, computes, ops, started, served, lost>>

-----------------------------------------------------------------------------
\* An input of a host as the database holds it now.
Now(h, p) == IF p \in SharedParts THEN shared[p] ELSE own[h][p]

\* What a compute of host h with no concurrent change would return.
Desired(h) == [p \in Parts |-> Now(h, p)]

\* The generation an absent entry is taken to have.
Generation(h) == IF h \in DOMAIN entries THEN entries[h].generation ELSE 0

\* DesiredStateCache::get.
Hit(h, v) == /\ h \in DOMAIN entries
             /\ entries[h].state # None
             /\ entries[h].config_version = v

\* The check at the head of put_if_current.
Current(h, t) == t.epoch = epoch /\ t.generation = Generation(h)

\* A handler still owes host h a notification, or one was lost.
Unsettled(h) == h \in lost \/ \E o \in Ops : h \in ops[o].owed

NoTicket == [epoch |-> 0, generation |-> 0]
Blank    == [p \in Parts |-> Absent]
SomeHost == CHOOSE h \in Hosts : TRUE
IdleCompute ==
    [pc |-> "idle", host |-> SomeHost, ver |-> 0, ticket |-> NoTicket, read |-> 0,
     got |-> Blank, voided |-> FALSE, quiet |-> FALSE]
IdleOp   == [kind |-> "put_tag", pc |-> "idle", host |-> SomeHost, todo |-> {},
             part |-> "manual", val |-> Absent, seen |-> Absent, tries |-> 0,
             owed |-> {}]

Init ==
    /\ own = [h \in Hosts |-> [p \in HostParts |-> Absent]]
    /\ shared = [p \in SharedParts |-> Absent]
    /\ present = Hosts
    /\ config_version = 0
    /\ entries = [h \in {} |-> None]
    /\ epoch = 0
    /\ computes = [c \in Computes |-> IdleCompute]
    /\ ops = [o \in Ops |-> IdleOp]
    /\ started = 0
    /\ served = [h \in Hosts |-> Blank]
    /\ lost = {}

-----------------------------------------------------------------------------
(* Computes: the agent's poll (slot h) and the console's preview.           *)

\* The tenant row is read first: its config_version is the cache key.
Request(c, h) ==
    /\ computes[c].pc = "idle"
    /\ h \in present
    /\ c \in Hosts => h = c
    /\ computes' = [computes EXCEPT ![c] =
         [@ EXCEPT !.pc = "lookup", !.host = h, !.ver = config_version,
                   !.quiet = ~Unsettled(h)]]
    /\ UNCHANGED <<db, cache, ops, started, served, lost>>

\* Mutant of Lookup: the version is not compared.
LookupAnyVersion(c) ==
    LET h == computes[c].host IN
    /\ computes[c].pc = "lookup"
    /\ IF h \in DOMAIN entries /\ entries[h].state # None
       THEN computes' = [computes EXCEPT ![c] =
              [@ EXCEPT !.pc = "respond", !.got = entries[h].state]]
       ELSE computes' = [computes EXCEPT ![c].pc = "ticket"]
    /\ UNCHANGED <<db, cache, ops, started, served, lost>>

Lookup(c) ==
    /\ computes[c].pc = "lookup"
    /\ IF Hit(computes[c].host, computes[c].ver)
       THEN computes' = [computes EXCEPT ![c] =
              [@ EXCEPT !.pc = "respond", !.got = entries[computes[c].host].state]]
       ELSE computes' = [computes EXCEPT ![c].pc = "ticket"]
    /\ UNCHANGED <<db, cache, ops, started, served, lost>>

TakeTicket(c) ==
    /\ computes[c].pc = "ticket"
    /\ computes' = [computes EXCEPT ![c] =
         [@ EXCEPT !.pc = "read", !.read = 0, !.got = Blank, !.voided = FALSE,
                   !.ticket = [epoch |-> epoch,
                               generation |-> Generation(computes[c].host)]]]
    /\ UNCHANGED <<db, cache, ops, started, served, lost>>

\* compute_uncached, one statement at a time.
ReadInputs(c) ==
    LET n == computes[c].read + 1
        got == [p \in Parts |-> IF ReadAt(p) = n THEN Now(computes[c].host, p)
                                                ELSE computes[c].got[p]]
    IN
    /\ computes[c].pc = "read"
    /\ computes' = [computes EXCEPT ![c] =
         [@ EXCEPT !.read = n, !.pc = IF n = LastStatement THEN "put" ELSE "read",
                   !.got = got]]
    /\ UNCHANGED <<db, cache, ops, started, served, lost>>

\* What the map still holds after put_if_current made room: everything while
\* it is below its limit; otherwise what was not idle; nothing if that is
\* still too much.  Which entries are idle is left open.
Reclaimed(keys) ==
    IF Cardinality(keys) < MaxEntries THEN {keys}
    ELSE {IF Cardinality(k) < MaxEntries THEN k ELSE {} : k \in SUBSET keys}

\* Mutant of Put: stored under the version of the moment, not of the reads.
PutAtLatest(c) ==
    LET h == computes[c].host IN
    /\ computes[c].pc = "put"
    /\ computes' = [computes EXCEPT ![c].pc = "respond"]
    /\ IF Current(h, computes[c].ticket)
       THEN entries' = [k \in DOMAIN entries \cup {h} |->
                IF k = h THEN [config_version |-> config_version,
                               state |-> computes[c].got,
                               generation |-> Generation(h)]
                ELSE entries[k]] /\ UNCHANGED epoch
       ELSE UNCHANGED cache
    /\ UNCHANGED <<db, ops, started, served, lost>>

\* put_if_current; the answer goes out whether or not it was stored.
Put(c) ==
    LET h == computes[c].host IN
    /\ computes[c].pc = "put"
    /\ computes' = [computes EXCEPT ![c].pc = "respond"]
    /\ IF Current(h, computes[c].ticket)
       THEN \E kept \in Reclaimed(DOMAIN entries) :
              /\ kept # DOMAIN entries => epoch < MaxEpoch
              /\ epoch' = IF kept # DOMAIN entries THEN epoch + 1 ELSE epoch
              /\ entries' = [k \in kept \cup {h} |->
                   IF k = h
                   THEN [config_version |-> computes[c].ver,
                         state |-> computes[c].got,
                         generation |-> Generation(h)]
                   ELSE entries[k]]
       ELSE UNCHANGED cache
    /\ UNCHANGED <<db, ops, started, served, lost>>

\* Mutant of Respond: the hash compared for a 304 covers the bundles only.
RespondToBundles(c) ==
    /\ computes[c].pc = "respond"
    /\ computes' = [computes EXCEPT ![c] = IdleCompute]
    /\ served' = IF c \in Hosts /\ served[c]["bundles"] # computes[c].got["bundles"]
                   THEN [served EXCEPT ![c] = computes[c].got] ELSE served
    /\ UNCHANGED <<db, cache, ops, started, lost>>

\* The answer reaches the agent (a 304 tells it that it already has it).
Respond(c) ==
    /\ computes[c].pc = "respond"
    /\ computes' = [computes EXCEPT ![c] = IdleCompute]
    /\ served' = IF c \in Hosts THEN [served EXCEPT ![c] = computes[c].got]
                                ELSE served
    /\ UNCHANGED <<db, cache, ops, started, lost>>

\* A read fails, or the client hangs up and the handler's future is dropped.
AbortCompute(c) ==
    /\ Faults
    /\ computes[c].pc # "idle"
    /\ computes' = [computes EXCEPT ![c] = IdleCompute]
    /\ UNCHANGED <<db, cache, ops, started, served, lost>>

-----------------------------------------------------------------------------
(* The cache's own mutations.                                              *)

\* invalidate_host: leave a tombstone carrying the next generation.
InvalidateHost(h) ==
    /\ entries' = [k \in DOMAIN entries \cup {h} |->
         IF k # h THEN entries[k]
         ELSE [config_version |-> IF h \in DOMAIN entries
                                  THEN entries[h].config_version ELSE 0,
               state |-> None, generation |-> Generation(h) + 1]]
    /\ computes' = [c \in Computes |->
         IF computes[c].host = h THEN [computes[c] EXCEPT !.voided = TRUE]
                                 ELSE computes[c]]
    /\ UNCHANGED epoch

\* Mutant of ForgetHost: the epoch stays.
ForgetHostKeepsEpoch(h) ==
    /\ entries' = [k \in DOMAIN entries \ {h} |-> entries[k]]
    /\ UNCHANGED <<epoch, computes>>

\* forget_host: the generation goes with the entry, so the epoch moves.
ForgetHost(h) ==
    /\ entries' = [k \in DOMAIN entries \ {h} |-> entries[k]]
    /\ epoch' = IF h \in DOMAIN entries THEN epoch + 1 ELSE epoch
    /\ UNCHANGED computes

-----------------------------------------------------------------------------
(* The handlers that change inputs.                                        *)

\* A request arrives on a free slot; h is its host, S all the hosts it names.
Begin(o, kind, pc, h, S, p, v) ==
    /\ ops[o].pc = "idle"
    /\ kind \in OpKinds
    /\ started < MaxOps
    /\ started' = started + 1
    /\ ops' = [ops EXCEPT ![o] = [IdleOp EXCEPT !.kind = kind, !.pc = pc, !.host = h,
                                  !.todo = S, !.part = p, !.val = v]]
    /\ UNCHANGED <<db, cache, computes, served, lost>>

\* put_tag, and delete_tag (v = Absent), on one host; bulk_tags on several.
PutTag(o, h, v)   == Begin(o, "put_tag", "check", h, {h}, "manual", v)
BulkTags(o, S, v) == Begin(o, "bulk_tags", "check", SomeHost, S, "manual", v)

\* state_report with reported_tags; an explicit {} clears them.
StateReport(o, h, v) ==
    h \in present /\ Begin(o, "report", "write", h, {h}, "agent", v)

\* facts::store, whatever the source.
StoreFacts(o, h, v) ==
    h \in present /\ Begin(o, "store_facts", "read", h, {h}, "facts", v)

\* facts::remove on one host, remove_source on every host.
RemoveFacts(o, S) ==
    Begin(o, "remove_facts", "write", SomeHost, S, "facts", Absent)

\* Group, assignment, bundle-row and override mutations.
ChangeConfig(o, p, v) ==
    p \in SharedParts /\ Begin(o, "config", "write", SomeHost, Hosts, p, v)
ChangeOverride(o, h, v) ==
    h \in present /\ Begin(o, "config", "write", h, {h}, "override", v)

DeleteHost(o, h) ==
    h \in present /\ Begin(o, "delete_host", "write", h, {h}, "manual", Absent)
RevokeHost(o, h) ==
    h \in present /\ Begin(o, "revoke", "write", h, {h}, "manual", Absent)

-----------------------------------------------------------------------------
(* Their steps.                                                            *)

\* The hosts of S whose input p is not yet v.
Differs(S, p, v) == {h \in S : Now(h, p) # v}

\* A request in flight for a host whose input moved is no longer owed an
\* answer as of its start.
Disturb(S) ==
    computes' = [c \in Computes |->
        IF computes[c].host \in S THEN [computes[c] EXCEPT !.quiet = FALSE]
                                  ELSE computes[c]]

\* A committed write of v to input p of the hosts S.
Write(S, p, v) ==
    /\ own' = [h \in Hosts |-> IF h \in S /\ p \in HostParts
                               THEN [own[h] EXCEPT ![p] = v] ELSE own[h]]
    /\ shared' = IF p \in SharedParts THEN [shared EXCEPT ![p] = v] ELSE shared
    /\ Disturb(Differs(S, p, v))
    /\ UNCHANGED <<present, config_version, cache, started, served>>

\* The handler returns; what it still owed is never delivered.
Return(o, owed) ==
    /\ ops' = [ops EXCEPT ![o] = IdleOp]
    /\ lost' = lost \cup owed

\* The handler goes on to its notifications, if it has any to make.
Proceed(o, todo, owed) ==
    ops' = [ops EXCEPT ![o] = IF todo = {} /\ owed = {} THEN IdleOp
             ELSE [@ EXCEPT !.todo = todo, !.owed = owed,
                            !.pc = IF todo # {} THEN "check" ELSE "notify"]]

\* host_belongs_to / hosts_repo.get: a host that is gone is skipped.
TagCheck(o, h) ==
    /\ ops[o].pc = "check" /\ h \in ops[o].todo
    /\ IF h \in present
       THEN ops' = [ops EXCEPT ![o].host = h,
                       ![o].pc = IF ops[o].val = Absent THEN "write" ELSE "read"]
       ELSE Proceed(o, ops[o].todo \ {h}, ops[o].owed)
    /\ UNCHANGED <<db, cache, computes, started, served, lost>>

\* upsert_manual_tag's SELECT, on the read pool.
TagRead(o) ==
    /\ ops[o].kind \in {"put_tag", "bulk_tags"} /\ ops[o].pc = "read"
    /\ ops' = [ops EXCEPT ![o].pc = "write", ![o].seen = own[ops[o].host].manual]
    /\ UNCHANGED <<db, cache, computes, started, served, lost>>

\* Does upsert_manual_tag (against what it read) or delete_manual_tag (against
\* the rows it deleted) report a change?
TagChanged(o) ==
    IF ops[o].val = Absent THEN own[ops[o].host].manual # Absent
                           ELSE ops[o].seen # ops[o].val

\* The tag row of a host that was deleted meanwhile breaks its foreign key:
\* the handler answers 500 at once.
TagWrite(o) ==
    LET h == ops[o].host
        owed == IF TagChanged(o) THEN ops[o].owed \cup {h} ELSE ops[o].owed
    IN
    /\ ops[o].kind \in {"put_tag", "bulk_tags"} /\ ops[o].pc = "write"
    /\ IF ops[o].val # Absent /\ h \notin present
       THEN /\ Return(o, ops[o].owed)
            /\ UNCHANGED <<db, cache, computes, started, served>>
       ELSE /\ Write({h}, "manual", ops[o].val)
            /\ Proceed(o, ops[o].todo \ {h}, owed)
            /\ lost' = lost \cup (Differs({h}, "manual", ops[o].val) \ owed)

\* replace_agent_tags, one transaction that also decides whether it changed.
ReportWrite(o) ==
    LET h == ops[o].host IN
    /\ ops[o].kind = "report" /\ ops[o].pc = "write"
    /\ IF ops[o].val # Absent /\ h \notin present
       THEN Return(o, {}) /\ UNCHANGED <<db, cache, computes, started, served>>
       ELSE /\ Write({h}, "agent", ops[o].val)
            /\ Proceed(o, {}, Differs({h}, "agent", ops[o].val))
            /\ UNCHANGED lost

\* facts::store reads the stored document; the same hash ends it.
FactsRead(o) ==
    LET seen == own[ops[o].host].facts IN
    /\ ops[o].kind = "store_facts" /\ ops[o].pc = "read"
    /\ ops' = [ops EXCEPT ![o] = IF seen = ops[o].val THEN IdleOp
                  ELSE [@ EXCEPT !.pc = "write", !.seen = seen, !.tries = ops[o].tries + 1]]
    /\ UNCHANGED <<db, cache, computes, started, served, lost>>

\* HostFactsRepo::replace, a compare-and-set against the hash read before.
FactsWrite(o) ==
    LET h == ops[o].host IN
    /\ ops[o].kind = "store_facts" /\ ops[o].pc = "write"
    /\ \/ /\ h \notin present
          /\ Return(o, {}) /\ UNCHANGED <<db, cache, computes, started, served>>
       \/ /\ h \in present /\ own[h].facts = ops[o].seen
          /\ Write({h}, "facts", ops[o].val)
          /\ Proceed(o, {}, {h})
          /\ UNCHANGED lost
       \/ /\ h \in present /\ own[h].facts # ops[o].seen
          /\ ops' = [ops EXCEPT ![o] = IF ops[o].tries < StoreAttempts
                        THEN [@ EXCEPT !.pc = "read"] ELSE IdleOp]
          /\ UNCHANGED <<db, cache, computes, started, served, lost>>

\* HostFactsRepo::delete / delete_source report the hosts that had a document.
FactsDelete(o) ==
    /\ ops[o].kind = "remove_facts" /\ ops[o].pc = "write"
    /\ Write(ops[o].todo, "facts", Absent)
    /\ Proceed(o, {}, Differs(ops[o].todo, "facts", Absent))
    /\ UNCHANGED lost

\* There is no row to delete, or the override's host was deleted meanwhile
\* and its foreign key fails.
ConfigRefused(o) ==
    \/ ops[o].val = Absent /\ Differs(ops[o].todo, ops[o].part, Absent) = {}
    \/ ops[o].part = "override" /\ ops[o].host \notin present

\* Mutant of ConfigWrite: an override change is not followed by a bump.
ConfigWriteNoBump(o) ==
    /\ ops[o].kind = "config" /\ ops[o].pc = "write"
    /\ ~ConfigRefused(o)
    /\ Write(ops[o].todo, ops[o].part, ops[o].val)
    /\ Proceed(o, {}, IF ops[o].part = "override" THEN {} ELSE ops[o].todo)
    /\ UNCHANGED lost

\* A tenant-wide or override row is written; config_version is bumped next.
ConfigWrite(o) ==
    /\ ops[o].kind = "config" /\ ops[o].pc = "write"
    /\ IF ConfigRefused(o)
       THEN Return(o, {}) /\ UNCHANGED <<db, cache, computes, started, served>>
       ELSE /\ Write(ops[o].todo, ops[o].part, ops[o].val)
            /\ Proceed(o, {}, ops[o].todo)
            /\ UNCHANGED lost

\* HostRepo::delete takes the host's rows with it, in one transaction.
DeleteWrite(o) ==
    LET h == ops[o].host IN
    /\ ops[o].kind = "delete_host" /\ ops[o].pc = "write"
    /\ own' = [own EXCEPT ![h] = [p \in HostParts |-> Absent]]
    /\ present' = present \ {h}
    /\ Disturb({h})
    /\ ops' = [ops EXCEPT ![o] = IF h \in present THEN [@ EXCEPT !.pc = "forget"]
                                                  ELSE IdleOp]
    /\ UNCHANGED <<shared, config_version, cache, started, served, lost>>

\* revoke_certs_and_reset_to_pending touches no input of a compute.
RevokeWrite(o) ==
    /\ ops[o].kind = "revoke" /\ ops[o].pc = "write"
    /\ ops' = [ops EXCEPT ![o] = IF ops[o].host \in present
                                 THEN [@ EXCEPT !.pc = "forget"] ELSE IdleOp]
    /\ UNCHANGED <<db, cache, computes, started, served, lost>>

\* invalidate_host, once per host the handler changed.
Invalidate(o, h) ==
    LET owed == ops[o].owed \ {h} IN
    /\ ops[o].kind # "config" /\ ops[o].pc = "notify" /\ h \in ops[o].owed
    /\ InvalidateHost(h)
    /\ ops' = [ops EXCEPT ![o] = IF owed = {} THEN IdleOp ELSE [@ EXCEPT !.owed = owed]]
    /\ lost' = lost \ {h}
    /\ UNCHANGED <<db, started, served>>

\* bump_config_version, an atomic increment of the tenant's row.
BumpConfigVersion(o) ==
    /\ ops[o].kind = "config" /\ ops[o].pc = "notify"
    /\ config_version' = config_version + 1
    /\ ops' = [ops EXCEPT ![o] = IdleOp]
    /\ lost' = {}
    /\ UNCHANGED <<own, shared, present, cache, computes, started, served>>

Forget(o) ==
    /\ ops[o].pc = "forget"
    /\ ForgetHost(ops[o].host)
    /\ ops' = [ops EXCEPT ![o] = IdleOp]
    /\ UNCHANGED <<db, started, served, lost>>

\* A statement fails (bump_config_version's failure is only logged), or the
\* client hangs up and the future is dropped between a commit and the
\* notification it calls for.
AbortOp(o) ==
    /\ Faults
    /\ ops[o].pc # "idle"
    /\ Return(o, ops[o].owed)
    /\ UNCHANGED <<db, cache, computes, started, served>>

-----------------------------------------------------------------------------
ComputeStep(c) ==
    \/ Lookup(c)
    \/ TakeTicket(c)
    \/ ReadInputs(c)
    \/ Put(c)
    \/ Respond(c)

BeginOp(o) ==
    \/ \E h \in Hosts, v \in Content : PutTag(o, h, v)
    \/ \E S \in SUBSET Hosts \ {{}}, v \in Content : BulkTags(o, S, v)
    \/ \E h \in Hosts, v \in Content : StateReport(o, h, v)
    \/ \E h \in Hosts, v \in Values : StoreFacts(o, h, v)
    \/ \E S \in {{h} : h \in Hosts} \cup {Hosts} : RemoveFacts(o, S)
    \/ \E p \in SharedParts, v \in Content : ChangeConfig(o, p, v)
    \/ \E h \in Hosts, v \in Content : ChangeOverride(o, h, v)
    \/ \E h \in Hosts : DeleteHost(o, h)
    \/ \E h \in Hosts : RevokeHost(o, h)

OpStep(o) ==
    \/ \E h \in Hosts : TagCheck(o, h)
    \/ TagRead(o)
    \/ TagWrite(o)
    \/ ReportWrite(o)
    \/ FactsRead(o)
    \/ FactsWrite(o)
    \/ FactsDelete(o)
    \/ ConfigWrite(o)
    \/ DeleteWrite(o)
    \/ RevokeWrite(o)
    \/ \E h \in Hosts : Invalidate(o, h)
    \/ BumpConfigVersion(o)
    \/ Forget(o)

Next ==
    \/ \E c \in Computes, h \in Hosts : Request(c, h)
    \/ \E c \in Computes : ComputeStep(c)
    \/ \E c \in Computes : AbortCompute(c)
    \/ \E o \in Ops : BeginOp(o)
    \/ \E o \in Ops : OpStep(o)
    \/ \E o \in Ops : AbortOp(o)

Spec == Init /\ [][Next]_vars

\* The runtime runs every request it has accepted; agents keep polling.
Fairness ==
    /\ \A c \in Computes : WF_vars(ComputeStep(c))
    /\ \A o \in Ops : WF_vars(OpStep(o))
    /\ \A h \in Hosts : WF_vars(Request(h, h))

FairSpec == Spec /\ Fairness

-----------------------------------------------------------------------------
ComputePcs == {"idle", "lookup", "ticket", "read", "put", "respond"}
OpPcs      == {"idle", "check", "read", "write", "notify", "forget"}

ComputeRecord ==
    [pc : ComputePcs, host : Hosts, ver : Nat, ticket : Ticket,
     read : Nat, got : State, voided : BOOLEAN, quiet : BOOLEAN]

OpRecord ==
    [kind : Kinds, pc : OpPcs, host : Hosts, todo : SUBSET Hosts, part : Parts,
     val : Content, seen : Content, tries : Nat, owed : SUBSET Hosts]

\* The shape of the state: the rows, the map, the epoch and the requests.
TypeOK ==
    /\ own \in [Hosts -> [HostParts -> Content]]
    /\ shared \in [SharedParts -> Content]
    /\ present \in SUBSET Hosts
    /\ config_version \in Nat
    /\ DOMAIN entries \in SUBSET Hosts
    /\ entries \in [DOMAIN entries -> Entry]
    /\ epoch \in Nat
    /\ computes \in [Computes -> ComputeRecord]
    /\ ops \in [Ops -> OpRecord]
    /\ started \in Nat
    /\ served \in [Hosts -> State]
    /\ lost \in SUBSET Hosts

\* A compute holds a ticket: it is between ticket() and put_if_current().
Holding(c) == computes[c].pc \in {"read", "put"}

\* A compute whose host was invalidated after it took its ticket never finds
\* that ticket current again, whatever sweeps and forgets reset the host's
\* generation in between: put_if_current refuses it.
TicketSound ==
    \A c \in Computes :
        Holding(c) /\ computes[c].voided =>
            ~Current(computes[c].host, computes[c].ticket)

\* A cached state that a poll would be served now is what a fresh compute
\* would return, unless a handler that changed an input has yet to notify
\* the cache, or ended without doing so.
CacheFresh ==
    \A h \in present :
        Hit(h, config_version) /\ ~Unsettled(h) => entries[h].state = Desired(h)

\* A request that found nothing unsettled when it started, and whose host's
\* inputs did not move since, is answered with exactly those inputs - from
\* the cache or computed.
AnswerFresh ==
    \A c \in Computes :
        computes[c].pc = "respond" /\ computes[c].quiet =>
            computes[c].got = Desired(computes[c].host)

-----------------------------------------------------------------------------
(* The inductive strengthening of TicketSound, CacheFresh and AnswerFresh. *)

\* A ticket is never ahead of its host, and is behind it once voided.
TicketOrder ==
    \A c \in Computes : Holding(c) =>
        /\ computes[c].ticket.epoch <= epoch
        /\ computes[c].ticket.epoch = epoch =>
             /\ computes[c].ticket.generation <= Generation(computes[c].host)
             /\ computes[c].voided =>
                  computes[c].ticket.generation < Generation(computes[c].host)

\* A handler owes notifications only once it has written, and returns clean.
OpsOwe ==
    \A o \in Ops :
        /\ ops[o].pc = "idle" => ops[o].owed = {}
        /\ ops[o].kind \notin {"put_tag", "bulk_tags"} /\ ops[o].pc # "notify" =>
             ops[o].owed = {}
        /\ ops[o].pc = "check" => ops[o].kind \in {"put_tag", "bulk_tags"}
        /\ ops[o].pc = "forget" => ops[o].kind \in {"delete_host", "revoke"}
        /\ /\ ops[o].kind = "config" /\ ops[o].pc = "write"
           /\ ops[o].part \in SharedParts
           => ops[o].todo = Hosts

Progress ==
    \A c \in Computes :
        /\ computes[c].pc = "idle" => ~computes[c].quiet
        /\ computes[c].pc = "read" => computes[c].read < LastStatement
        /\ computes[c].pc = "put" => computes[c].read = LastStatement

\* No version in use is ahead of the tenant's.
Versions ==
    /\ \A c \in Computes : computes[c].ver <= config_version
    /\ \A h \in DOMAIN entries : entries[h].config_version <= config_version

\* What compute c has read so far is what the database holds now.
FreshReads(c) ==
    \A p \in Parts : ReadAt(p) <= computes[c].read =>
        computes[c].got[p] = Now(computes[c].host, p)

\* A compute that could still be stored and then served has read no stale
\* input.
ReadsFresh ==
    \A c \in Computes :
        /\ Holding(c) /\ computes[c].host \in present
        /\ computes[c].ver = config_version
        /\ ~computes[c].voided /\ ~Unsettled(computes[c].host)
        => FreshReads(c)

\* What a quiet request may find: a fresh entry under its version, and no
\* compute that could still replace it by a stale one.
QuietLookup ==
    \A c \in Computes : computes[c].quiet /\ computes[c].pc = "lookup" =>
        /\ Hit(computes[c].host, computes[c].ver) =>
             entries[computes[c].host].state = Desired(computes[c].host)
        /\ \A d \in Computes :
             /\ Holding(d) /\ computes[d].host = computes[c].host
             /\ computes[d].ver = computes[c].ver /\ ~computes[d].voided
             => FreshReads(d)

QuietReads ==
    \A c \in Computes : computes[c].quiet /\ Holding(c) => FreshReads(c)

IInv == /\ TypeOK /\ TicketOrder /\ OpsOwe /\ Progress /\ Versions
        /\ CacheFresh /\ ReadsFresh /\ QuietLookup /\ QuietReads /\ AnswerFresh

-----------------------------------------------------------------------------
\* The promise of desired_state.rs:4-9: with no change under way, no cached
\* state that would be served is stale.
NoStaleAtRest ==
    (\A o \in Ops : ops[o].pc = "idle") =>
        \A h \in present :
            Hit(h, config_version) => entries[h].state = Desired(h)

\* Once the changes stop, every agent that is still enrolled ends up with the
\* desired state of its host, and keeps it.
AgentsConverge ==
    \A h \in Hosts : <>[](h \in present => served[h] = Desired(h))
=============================================================================
