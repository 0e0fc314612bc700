--------------------------------- MODULE Facts ---------------------------------
(***************************************************************************)
(* Host facts: the exchange of hashes between agent and server, the upload *)
(* of the agent's document, documents imported by an operator, the one     *)
(* write path they share, and the cached catalogue of them all             *)
(* (server/src/facts, storage/src/repos/facts.rs).                         *)
(*                                                                         *)
(* One tenant.  Every statement or transaction is one step of the request  *)
(* that makes it, which keeps what it read until it is used.  Time is kept *)
(* as ages, cut off at the grace period.  A generation of the catalogue is *)
(* kept as what happened since it was read, which is all that comparing    *)
(* two of them tells.                                                      *)
(***************************************************************************)
EXTENDS Naturals, Sequences, FiniteSets

CONSTANTS
    Hosts,
    Reporting,      \* the hosts whose agents poll
    Started,        \* what an agent may have collected by its first poll
    Docs,           \* documents, told apart by their hash
    Empty,          \* the document {}
    None,           \* no document, no hash
    Content,        \* what a document parses to; two spellings may parse alike
    Verdict,        \* what parse_upload and the size limit say of a document
    Slots,          \* requests the server is running
    Workloads,      \* how many requests of each kind a behaviour has, one of these
    Grace,          \* EMPTY_CLEAR_GRACE_SECS, in ticks
    Keep,           \* KEEP_HISTORY
    StoreAttempts,  \* STORE_ATTEMPTS
    Files,          \* what is imported: rows with, for each key, the hosts of its value
    MaxChanges,     \* bound: times the agents' documents change
    MaxMishaps      \* bound: statements that fail and clients that hang up

Sources == {"agent", "import"}
Cells   == Hosts \X Sources
Maybe   == Docs \cup {None}
Console == {"import", "delete_host_source", "delete_source", "delete_hosts", "catalog"}

ASSUME HostsAssumption == Reporting \subseteq Hosts /\ Started \subseteq Maybe

ASSUME DocsAssumption == Empty \in Docs /\ None \notin Docs

ASSUME FunctionsAssumption ==
    /\ Content \in [Docs -> Docs]
    /\ Verdict \in [Docs -> {"ok", "unsaid", "declared"}]

\* The documents an import may bring.
Imported == {d \in Docs : Verdict[d] = "ok"}

ASSUME FilesAssumption ==
    Files \subseteq Seq([keys : SUBSET SUBSET Hosts, skip : BOOLEAN, doc : Imported])

ASSUME LoadsAssumption == Workloads \subseteq [Console \cup {"exchange"} -> Nat]

ASSUME BoundsAssumption ==
    /\ {Grace, Keep, StoreAttempts} \subseteq Nat \ {0}
    /\ {MaxChanges, MaxMishaps} \subseteq Nat

\* An answer without a hash is no document, and who is over has no slot.
ASSUME NamesAssumption ==
    /\ {"error", "refused", "unrecorded"} \cap Maybe = {}
    /\ {"operator", "other"} \cap Slots = {}

VARIABLES
    hosts,    \* rows of the hosts table
    held,     \* host_facts: the document of each cell
    hist,     \* host_fact_changes of each cell, oldest first
    told,     \* facts_reported_hash and the age of facts_reported_at
    refused,  \* facts_refused_hash
    agent,    \* the agents
    built,    \* the catalogue kept, and what happened since its generation
    reqs,     \* the running requests
    owner,    \* who changed a cell last: a request, or one that is over
    quiet,    \* age of the latest report of a document other than Empty that was answered
    load,     \* the requests that are left
    changes, mishaps

vars == <<hosts, held, hist, told, refused, agent, built, reqs, owner, quiet, load,
          changes, mishaps>>

Since    == {"nothing", "stored", "operator"}
NoDocs   == [c \in Cells |-> None]
Ages     == 0 .. Grace
NoBuild  == [is |-> FALSE, cat |-> NoDocs, since |-> "nothing"]
IdleReq  == [op |-> "none", pc |-> "idle", host |-> None, src |-> "agent", doc |-> None,
             seen |-> None, told |-> FALSE, age |-> Grace, prev |-> None, tries |-> 0,
             todo |-> {}, present |-> {}, prune |-> FALSE, changed |-> FALSE,
             srcs |-> {}, cat |-> NoDocs, since |-> "nothing", due |-> {},
             mark |-> Grace]
IdleAgent(d) == [doc |-> d, sent |-> None, no |-> None, pc |-> "idle", slot |-> None]
Pcs      == {"idle", "start", "report", "clear", "grace", "get", "replace", "stored", "answer",
             "fail", "rows", "holding", "remove", "finish", "lock", "sources", "read", "shown"}

Reqs ==
    [op : Console \cup {"none", "poll", "upload"}, pc : Pcs, host : Hosts \cup {None},
     src : Sources, doc : Maybe, seen : Maybe, told : BOOLEAN, age : Ages, prev : Maybe,
     tries : 0 .. StoreAttempts - 1, todo : SUBSET (Hosts \X Maybe), present : SUBSET Hosts,
     prune : BOOLEAN, changed : BOOLEAN, srcs : SUBSET Sources, cat : [Cells -> Maybe],
     since : Since, due : SUBSET Cells, mark : Ages]

TypeOK ==
    /\ hosts \subseteq Hosts
    /\ held \in [Cells -> Maybe]
    /\ hist \in [Cells -> Seq([from : Maybe, to : Docs])] /\ \A c \in Cells : Len(hist[c]) <= Keep
    /\ told \in [Hosts -> [hash : Maybe, age : Ages]]
    /\ refused \in [Hosts -> Maybe]
    /\ agent \in [Hosts -> [doc : Maybe, sent : Maybe, no : Maybe,
                            pc : {"idle", "poll", "due", "upload"}, slot : Slots \cup {None}]]
    /\ built \in [is : BOOLEAN, cat : [Cells -> Maybe], since : Since]
    /\ reqs \in [Slots -> Reqs]
    /\ owner \in [Cells -> Slots \cup {"operator", "other"}]
    /\ quiet \in [Hosts -> Ages]
    /\ load \in [Console \cup {"exchange"} -> Nat]
    /\ changes \in 0 .. MaxChanges /\ mishaps \in 0 .. MaxMishaps

\* history_entry: a first document with nothing in it is no event, nor is one
\* that reads as the previous did.
HistoryEntry(previous, document) ==
    CASE previous = None /\ document = Empty -> <<>>
      [] previous = None /\ document # Empty -> <<[from |-> None, to |-> document]>>
      [] previous # None /\ Content[previous] = Content[document] -> <<>>
      [] OTHER -> <<[from |-> previous, to |-> document]>>

\* Imports of an earlier run of the process may be there.
Init ==
    /\ load \in Workloads
    /\ hosts = Hosts
    /\ \E S \in IF load["exchange"] > 0 THEN {{}} ELSE SUBSET Hosts : \E d \in Imported \ {Empty} :
         held = [c \in Cells |-> IF c \in S \X {"import"} THEN d ELSE None]
    /\ hist = [c \in Cells |-> IF held[c] = None THEN <<>> ELSE HistoryEntry(None, held[c])]
    /\ told = [h \in Hosts |-> [hash |-> None, age |-> Grace]]
    /\ refused = [h \in Hosts |-> None]
    /\ \E d \in IF load["exchange"] > 0 THEN Started ELSE {None} :
         agent = [h \in Hosts |-> IdleAgent(IF h \in Reporting THEN d ELSE None)]
    /\ built = NoBuild
    /\ reqs = [r \in Slots |-> IdleReq]
    /\ owner = [c \in Cells |-> "other"]
    /\ quiet = [h \in Hosts |-> Grace]
    /\ changes = 0 /\ mishaps = 0
-------------------------------------------------------------------------------
(* Time.                                                                   *)

Older(a) == IF a < Grace THEN a + 1 ELSE Grace

Tick ==
    /\ load["exchange"] > 0
    /\ told' = [h \in Hosts |-> [told[h] EXCEPT !.age = Older(@)]]
    /\ quiet' = [h \in Hosts |-> Older(quiet[h])]
    /\ reqs' = [r \in Slots |->
                  [reqs[r] EXCEPT !.age = Older(@), !.mark = Older(@)]]
    /\ <<told, quiet, reqs>>' # <<told, quiet, reqs>>
    /\ UNCHANGED <<hosts, held, hist, refused, agent, built, owner, load, changes, mishaps>>
-------------------------------------------------------------------------------
(* The agent, as the exchange expects it: it sends the hash of its         *)
(* document with every poll and uploads the document if the answer is      *)
(* another hash, unless the server refused it.                             *)

AgentChange(h) ==
    /\ load["exchange"] > 0 /\ h \in Reporting
    /\ changes < MaxChanges
    /\ \E d \in Maybe \ {agent[h].doc} :
         agent' = [agent EXCEPT ![h].doc = d, ![h].no = None]
    /\ changes' = changes + 1
    /\ UNCHANGED <<hosts, held, hist, told, refused, built, reqs, owner, quiet, load, mishaps>>

Send(h, r, op, pc, d) ==
    /\ reqs[r].pc = "idle"
    /\ agent' = [agent EXCEPT ![h].pc = pc, ![h].sent = d, ![h].slot = r]
    /\ reqs' = [reqs EXCEPT ![r] = [IdleReq EXCEPT !.op = op, !.pc = "start", !.host = h,
                                                   !.doc = d,
                              !.mark = IF d = Empty THEN quiet[h] ELSE 0]]
    /\ UNCHANGED <<hosts, held, hist, told, refused, built, owner, quiet, load, changes, mishaps>>

Poll(h, r) ==
    /\ load["exchange"] > 0 /\ h \in Reporting
    /\ agent[h].pc = "idle"
    /\ Send(h, r, "poll", "poll", agent[h].doc)

PostFacts(h, r) ==
    /\ agent[h].pc = "due"
    /\ Send(h, r, "upload", "upload", agent[h].sent)

\* The agent gives up on its request, which runs on or is dropped where it is.
GiveUp(h) ==
    /\ agent[h].pc \in {"poll", "upload"}
    /\ mishaps < MaxMishaps
    /\ mishaps' = mishaps + 1
    /\ agent' = [agent EXCEPT ![h].pc = "idle", ![h].slot = None]
    /\ \/ reqs' = [reqs EXCEPT ![agent[h].slot] = IdleReq]
       \/ UNCHANGED reqs
    /\ UNCHANGED <<hosts, held, hist, told, refused, built, owner, quiet, load, changes>>

\* The request is over.  A poll is answered with a hash or, for Docs, with no
\* header; what the agent does next is its own business if it still waits.
Answered(r, hdr) ==
    LET q == reqs[r]
        a == agent[q.host]
        next == IF a.pc = "poll" /\ hdr \in Maybe /\ hdr # a.sent /\ a.sent \notin {None, a.no}
                THEN "due" ELSE "idle"
    IN  /\ reqs' = [reqs EXCEPT ![r] = IdleReq]
        /\ agent' = IF a.slot # r THEN agent
                    ELSE [agent EXCEPT ![q.host] =
                            [@ EXCEPT !.pc = next, !.slot = None,
                                      !.no = IF hdr = "refused" THEN q.doc ELSE a.no]]
        /\ quiet' = IF q.doc # Empty /\ hdr \in Maybe /\ q.mark < quiet[q.host]
                    THEN [quiet EXCEPT ![q.host] = q.mark] ELSE quiet
-------------------------------------------------------------------------------
(* The exchange: advertise, on a poll or a state report, and upload.       *)

Running(r, op, pc) == reqs[r].pc = pc /\ reqs[r].op = op
Goto(r, q)         == reqs' = [reqs EXCEPT ![r] = q]
Agent(r)           == <<reqs[r].host, "agent">>

\* As if any hash reported for so long would do.
EmptyOverInventoryByAge(seen, was, age, hash) ==
    IF hash # Empty \/ seen \in {None, Empty} THEN "n/a"
    ELSE IF age >= Grace THEN "due" ELSE "pending"

\* What an empty document over a real inventory means: hash is the caller's, the
\* rest what hashes read before: the document held, whether Empty was reported,
\* and for how long.
EmptyOverInventory(seen, was, age, hash) ==
    IF hash # Empty \/ seen \in {None, Empty} THEN "n/a"
    ELSE IF was /\ age >= Grace THEN "due"
    ELSE "pending"

\* The statement of the request fails.
Mishap == mishaps < MaxMishaps /\ mishaps' = mishaps + 1

DocsUnchanged == UNCHANGED <<hosts, held, hist, owner>>

\* hashes, for a poll: what is held and what was reported, in one read.
PollRead(r) ==
    LET q == reqs[r] IN
    /\ Running(r, "poll", "start")
    /\ q.host \in hosts
    /\ Goto(r, [q EXCEPT !.seen = held[Agent(r)], !.told = told[q.host].hash = Empty,
                         !.age = told[q.host].age,
                         !.pc = IF told[q.host].hash = q.doc THEN "grace"
                                ELSE IF q.doc = None THEN "clear" ELSE "report"])
    /\ DocsUnchanged
    /\ UNCHANGED <<told, refused, agent, built, quiet, load, changes, mishaps>>

\* hashes fails or finds no host: no header.
PollFails(r) ==
    /\ Running(r, "poll", "start")
    /\ IF reqs[r].host \in hosts THEN Mishap ELSE UNCHANGED mishaps
    /\ Answered(r, "error")
    /\ DocsUnchanged
    /\ UNCHANGED <<told, refused, built, load, changes>>

\* set_reported_hash: the time moves only when the hash does.  How long another
\* hash than Empty was reported is asked by nobody, and not kept.
SetReported(h, d) ==
    told' = [told EXCEPT ![h] = IF @.hash = d THEN @
                                      ELSE [hash |-> d, age |-> IF d = Empty THEN 0 ELSE Grace]]

\* A failure of the write is logged and goes no further.
PollReport(r) ==
    LET q == reqs[r] IN
    /\ q.op = "poll" /\ q.pc \in {"report", "clear"}
    /\ \/ SetReported(q.host, q.doc) /\ UNCHANGED mishaps
          /\ Goto(r, [q EXCEPT !.pc = "grace"])
       \/ Mishap /\ UNCHANGED told
          /\ Goto(r, [q EXCEPT !.pc = "grace",
                               !.mark = IF q.doc = Empty THEN @ ELSE Grace])
    /\ DocsUnchanged
    /\ UNCHANGED <<refused, agent, built, quiet, load, changes>>

\* The rest of advertise, on what was read at its start and by the clock of now.
PollGrace(r) ==
    LET q    == reqs[r]
        what == EmptyOverInventory(q.seen, q.told, q.age, q.doc)
    IN  /\ Running(r, "poll", "grace")
        /\ \/ what = "n/a" /\ Answered(r, IF q.doc = None THEN None ELSE q.seen)
           \/ what = "pending" /\ Answered(r, Empty)
           \/ what = "due" /\ Goto(r, [q EXCEPT !.pc = "get"]) /\ UNCHANGED <<agent, quiet>>
        /\ DocsUnchanged
        /\ UNCHANGED <<told, refused, built, load, changes, mishaps>>

\* As if a body that did not declare its hash were refused under none.
UploadRefuseUnsaid(r) ==
    LET q == reqs[r] IN
    /\ Running(r, "upload", "start")
    /\ Verdict[q.doc] # "ok"
    /\ refused' = [refused EXCEPT ![q.host] = IF Verdict[q.doc] = "declared" THEN q.doc ELSE None]
    /\ Answered(r, "refused")
    /\ DocsUnchanged
    /\ UNCHANGED <<told, built, load, changes, mishaps>>

\* A body that is too large or does not verify: the refusal is recorded, under
\* the hash the body declared or else the one reported last, and answered.
UploadRefuse(r) ==
    LET q == reqs[r] IN
    /\ Running(r, "upload", "start")
    /\ Verdict[q.doc] # "ok"
    /\ \/ refused' = [refused EXCEPT ![q.host] =
                        IF Verdict[q.doc] = "declared" THEN q.doc ELSE told[q.host].hash]
          /\ UNCHANGED mishaps
       \/ Mishap /\ UNCHANGED refused
    /\ Answered(r, "refused")
    /\ DocsUnchanged
    /\ UNCHANGED <<told, built, load, changes>>

\* hashes, for an upload that verified.  A re-send of what is held only moves
\* its collection time; an empty document waits as an empty report does.
UploadRead(r) ==
    LET q    == reqs[r]
        seen == held[Agent(r)]
        was  == told[q.host]
    IN  /\ Running(r, "upload", "start")
        /\ Verdict[q.doc] = "ok"
        /\ q.host \in hosts
        /\ Goto(r, [q EXCEPT !.seen = seen, !.pc =
                      IF seen = q.doc \/ EmptyOverInventory(seen, was.hash = Empty, was.age, q.doc) = "pending"
                      THEN "report" ELSE "get"])
        /\ DocsUnchanged
        /\ UNCHANGED <<told, refused, agent, built, quiet, load, changes, mishaps>>

\* The answer is the same when the write fails, but the report was not recorded.
UploadReport(r) ==
    LET q == reqs[r] IN
    /\ Running(r, "upload", "report")
    /\ \/ SetReported(q.host, q.doc) /\ UNCHANGED mishaps /\ Answered(r, q.doc)
       \/ Mishap /\ UNCHANGED told /\ Answered(r, "unrecorded")
    /\ DocsUnchanged
    /\ UNCHANGED <<refused, built, load, changes>>
-------------------------------------------------------------------------------
(* store: the one write path.  The request reads the document and makes    *)
(* the history entry, then writes both if the document is still the one    *)
(* it read.                                                                *)

\* As if old entries were never deleted.
RecordedAll(history, entry) == history \o entry

\* The entry is inserted, and all but the newest Keep are deleted.
Recorded(history, entry) ==
    LET rows == history \o entry
    IN  IF Len(rows) > Keep THEN SubSeq(rows, Len(rows) - Keep + 1, Len(rows)) ELSE rows

Worse(a, b) == IF "operator" \in {a, b} THEN "operator"
               ELSE IF "stored" \in {a, b} THEN "stored" ELSE "nothing"

\* CatalogCache::bump, as the generations already read see it; request r goes on as q.
Bump(change, r, q) ==
    /\ built' = [built EXCEPT !.since = Worse(@, change)]
    /\ reqs' = [x \in Slots |-> IF x = r THEN q
                                ELSE [reqs[x] EXCEPT !.since = Worse(@, change)]]

\* The documents of cs change: request r goes on as q.
Changed(cs, by, r, q) ==
    /\ owner' = [c \in Cells |-> IF c \in cs THEN by ELSE owner[c]]
    /\ reqs' = [x \in Slots |-> IF x = r THEN q ELSE [reqs[x] EXCEPT !.due = @ \ cs]]

\* What the caller of store does with its outcome.
Done(q, ok) ==
    CASE q.op = "poll"   -> [q EXCEPT !.pc = "answer", !.prev = None,
                                      !.seen = IF ok THEN Empty ELSE @]
      [] q.op = "upload" -> [q EXCEPT !.pc = IF ok THEN "report" ELSE "fail", !.prev = None]
      [] OTHER           -> [q EXCEPT !.pc = "rows", !.prev = None]

ExchangeUnchanged == UNCHANGED <<told, refused, agent, quiet, load, changes>>

StoreGet(r) ==
    LET q   == reqs[r]
        now == held[<<q.host, q.src>>]
    IN  /\ q.pc = "get"
        /\ Goto(r, IF now = q.doc THEN Done(q, TRUE)
                   ELSE [q EXCEPT !.pc = "replace", !.prev = now])
        /\ DocsUnchanged
        /\ ExchangeUnchanged
        /\ UNCHANGED <<built, mishaps>>

\* replace finds no host, the very document, or another one than was read.
StoreMisses(r) ==
    LET q   == reqs[r]
        now == held[<<q.host, q.src>>]
    IN  /\ q.pc = "replace"
        /\ \/ q.host \notin hosts /\ Goto(r, Done(q, FALSE))
           \/ q.host \in hosts /\ now = q.doc /\ Goto(r, Done(q, TRUE))
           \/ /\ q.host \in hosts /\ now \notin {q.doc, q.prev}
              /\ Goto(r, IF q.tries + 1 < StoreAttempts
                         THEN [q EXCEPT !.pc = "get", !.tries = @ + 1]
                         ELSE Done(q, FALSE))
        /\ DocsUnchanged
        /\ ExchangeUnchanged
        /\ UNCHANGED <<built, mishaps>>

\* As if the document were replaced whatever it was by now.
StoreReplaceUnchecked(r) ==
    LET q == reqs[r]
        c == <<q.host, q.src>>
    IN  /\ q.pc = "replace"
        /\ q.host \in hosts
        /\ held[c] # q.doc
        /\ held' = [held EXCEPT ![c] = q.doc]
        /\ hist' = [hist EXCEPT ![c] = Recorded(@, HistoryEntry(q.prev, q.doc))]
        /\ Changed({c}, IF q.op = "import" THEN r ELSE "other", r, [q EXCEPT !.pc = "stored"])
        /\ ExchangeUnchanged
        /\ UNCHANGED <<hosts, built, mishaps>>

\* replace writes the document and the entry made from what was read.
StoreReplace(r) ==
    LET q == reqs[r]
        c == <<q.host, q.src>>
    IN  /\ q.pc = "replace"
        /\ q.host \in hosts
        /\ held[c] # q.doc
        /\ held[c] = q.prev
        /\ held' = [held EXCEPT ![c] = q.doc]
        /\ hist' = [hist EXCEPT ![c] = Recorded(@, HistoryEntry(q.prev, q.doc))]
        /\ Changed({c}, IF q.op = "import" THEN r ELSE "other", r, [q EXCEPT !.pc = "stored"])
        /\ ExchangeUnchanged
        /\ UNCHANGED <<hosts, built, mishaps>>

Stored(r) ==
    LET q == reqs[r] IN
    /\ q.pc = "stored"
    /\ Bump("stored", r, [Done(q, TRUE) EXCEPT !.changed = TRUE])
    /\ DocsUnchanged
    /\ ExchangeUnchanged
    /\ UNCHANGED mishaps

StoreFails(r) ==
    LET q == reqs[r] IN
    /\ q.pc \in {"get", "replace"}
    /\ Mishap
    /\ Goto(r, IF q.op = "import" THEN [q EXCEPT !.pc = "finish"] ELSE Done(q, FALSE))
    /\ DocsUnchanged
    /\ ExchangeUnchanged
    /\ UNCHANGED built

PollAnswer(r) ==
    /\ Running(r, "poll", "answer")
    /\ Answered(r, reqs[r].seen)
    /\ DocsUnchanged
    /\ UNCHANGED <<told, refused, built, load, changes, mishaps>>

\* 503, 404 or 500: the agent tries again after its next poll.
UploadFails(r) ==
    /\ reqs[r].op = "upload"
    /\ \/ reqs[r].pc = "fail" /\ UNCHANGED mishaps
       \/ /\ reqs[r].pc = "start"
          /\ IF reqs[r].host \in hosts THEN Mishap ELSE UNCHANGED mishaps
    /\ Answered(r, "error")
    /\ DocsUnchanged
    /\ UNCHANGED <<told, refused, built, load, changes>>
-------------------------------------------------------------------------------
(* The operator: imports and deletions.                                    *)

Ask(r, q) ==
    /\ reqs[r].pc = "idle"
    /\ load[q.op] > 0
    /\ load' = [load EXCEPT ![q.op] = @ - 1]
    /\ Goto(r, q)
    /\ DocsUnchanged
    /\ UNCHANGED <<told, refused, agent, quiet, built, changes, mishaps>>

\* KeyIndex::lookup: the hosts that match every key.
Lookup(row) == {h \in hosts : \A k \in row.keys : h \in k}

\* resolve_rows: the first row to land on a host keeps it.
Resolve(file, i) ==
    LET found == Lookup(file[i])
    IN  CASE file[i].skip                              -> "skipped"
          [] ~file[i].skip /\ found = {}               -> "unmatched"
          [] ~file[i].skip /\ Cardinality(found) > 1   -> "ambiguous"
          [] ~file[i].skip /\ Cardinality(found) = 1   ->
               IF \E j \in 1 .. i - 1 : ~file[j].skip /\ Lookup(file[j]) = found
               THEN "duplicate" ELSE "matched"

\* The documents of a file by host.
Matched(file) == UNION {Lookup(file[i]) \X {file[i].doc} :
                          i \in {i \in DOMAIN file : Resolve(file, i) = "matched"}}

\* commit: nothing is done unless every row that is not skipped matched.
Import(r) ==
    \E file \in Files, p \in BOOLEAN :
        /\ \A i \in DOMAIN file : Resolve(file, i) \in {"matched", "skipped"}
        /\ Ask(r, [IdleReq EXCEPT !.op = "import", !.src = "import", !.pc = "rows",
                                  !.prune = p, !.todo = Matched(file),
                                  !.present = {row[1] : row \in Matched(file)}])

DeleteHostSource(r) ==
    \E h \in hosts : Ask(r, [IdleReq EXCEPT !.op = "delete_host_source", !.pc = "remove",
                                            !.todo = {<<h, None>>}])

DeleteSource(r) ==
    Ask(r, [IdleReq EXCEPT !.op = "delete_source", !.pc = "remove",
                           !.todo = {<<h, None>> : h \in Hosts}])

DeleteHosts(r) ==
    \E S \in SUBSET hosts \ {{}} : Ask(r, [IdleReq EXCEPT !.op = "delete_hosts", !.pc = "remove",
                                            !.todo = {<<h, None>> : h \in S}])

\* The next row is stored; after the last, what the file does not name is pruned.
ImportRow(r) ==
    LET q == reqs[r] IN
    /\ q.pc = "rows"
    /\ \/ \E row \in q.todo :
            Goto(r, [q EXCEPT !.pc = "get", !.host = row[1], !.doc = row[2], !.tries = 0,
                              !.todo = @ \ {row}])
       \/ /\ q.todo = {}
          /\ Goto(r, [q EXCEPT !.pc = IF q.prune THEN "holding" ELSE "finish"])
    /\ DocsUnchanged
    /\ ExchangeUnchanged
    /\ UNCHANGED <<built, mishaps>>

\* hosts_with_source, without the hosts of the file.
ImportHolding(r) ==
    LET q == reqs[r] IN
    /\ q.pc = "holding"
    /\ \/ /\ UNCHANGED mishaps
          /\ Goto(r, [q EXCEPT !.pc = "remove",
                        !.todo = {<<h, None>> : h \in {x \in Hosts \ q.present :
                                                         held[<<x, "import">>] # None}}])
       \/ Mishap /\ Goto(r, [q EXCEPT !.pc = "finish"])
    /\ DocsUnchanged
    /\ ExchangeUnchanged
    /\ UNCHANGED built

\* One deletion, of documents and their histories: a host's cells or its
\* imported one, or with delete_source every imported one at once.
Remove(r) ==
    LET q == reqs[r] IN
    /\ q.pc = "remove"
    /\ \E rows \in SUBSET q.todo \ {{}} :
         LET S  == {row[1] : row \in rows}
             cs == {c \in S \X (IF q.op = "delete_hosts" THEN Sources ELSE {"import"}) :
                      held[c] # None}
         IN  /\ IF q.op = "delete_source" THEN rows = q.todo ELSE Cardinality(rows) = 1
             /\ held' = [c \in Cells |-> IF c \in cs THEN None ELSE held[c]]
             /\ hist' = [c \in Cells |-> IF c \in cs THEN <<>> ELSE hist[c]]
             /\ hosts' = IF q.op = "delete_hosts" THEN hosts \ S ELSE hosts
             /\ Changed(cs, r, r, [q EXCEPT !.todo = @ \ rows,
                                            !.changed = @ \/ cs # {} \/ hosts' # hosts])
    /\ ExchangeUnchanged
    /\ UNCHANGED <<built, mishaps>>

\* A deletion fails: an import still marks the catalogue, a deletion does not.
RemoveFails(r) ==
    LET q == reqs[r] IN
    /\ q.pc = "remove" /\ q.todo # {}
    /\ Mishap
    /\ IF q.op = "import" THEN Goto(r, [q EXCEPT !.pc = "finish"]) /\ UNCHANGED owner
       ELSE Changed({c \in Cells : owner[c] = r}, "other", r, IdleReq)
    /\ ExchangeUnchanged
    /\ UNCHANGED <<hosts, held, hist, built>>

Finish(r) ==
    LET q == reqs[r] IN
    /\ q.pc = "finish" \/ (q.pc = "remove" /\ q.todo = {})
    /\ IF q.changed THEN Bump("operator", r, IdleReq)
       ELSE Goto(r, IdleReq) /\ UNCHANGED built
    /\ owner' = [c \in Cells |-> IF owner[c] = r THEN "operator" ELSE owner[c]]
    /\ ExchangeUnchanged
    /\ UNCHANGED <<hosts, held, hist, mishaps>>

\* The operator's client goes away, and the handler with it.
HangUp(r) ==
    /\ reqs[r].op \in Console
    /\ reqs[r].pc # "shown"
    /\ Mishap
    /\ Goto(r, IdleReq)
    /\ owner' = [c \in Cells |-> IF owner[c] = r THEN "other" ELSE owner[c]]
    /\ ExchangeUnchanged
    /\ UNCHANGED <<hosts, held, hist, built>>
-------------------------------------------------------------------------------
(* The catalogue of every document, built at most once at a time.          *)

Catalog(r) ==
    Ask(r, [IdleReq EXCEPT !.op = "catalog", !.pc = "start",
                           !.due = {c \in Cells : owner[c] = "operator"}])

\* lookup: a catalogue may be served while nothing happened since, or, within
\* CATALOG_REFRESH_SECS, while documents were only stored.
Servable(young) ==
    /\ built.is
    /\ \/ built.since = "nothing"
       \/ built.since = "stored" /\ young /\ built.cat # NoDocs

Building(r) == reqs[r].op = "catalog" /\ reqs[r].pc \in {"sources", "read"}

\* The first lookup, and the one under the build lock.
CatalogLookup(r) ==
    LET q == reqs[r] IN
    /\ q.op = "catalog" /\ q.pc \in {"start", "lock"}
    /\ q.pc = "lock" => \A x \in Slots : ~Building(x)
    /\ \E young \in BOOLEAN :
         Goto(r, IF Servable(young) THEN [q EXCEPT !.pc = "shown", !.cat = built.cat]
                 ELSE IF q.pc = "start" THEN [q EXCEPT !.pc = "lock"]
                 ELSE [q EXCEPT !.pc = "sources", !.since = "nothing"])
    /\ DocsUnchanged
    /\ ExchangeUnchanged
    /\ UNCHANGED <<built, mishaps>>

\* list_sources; the agent's is always offered.
CatalogSources(r) ==
    LET q == reqs[r] IN
    /\ q.pc = "sources"
    /\ Goto(r, [q EXCEPT !.pc = "read",
                         !.srcs = {"agent"} \cup {s \in Sources :
                                     \E h \in Hosts : held[<<h, s>>] # None}])
    /\ DocsUnchanged
    /\ ExchangeUnchanged
    /\ UNCHANGED <<built, mishaps>>

\* for_each_document of one source.
CatalogRead(r) ==
    LET q == reqs[r] IN
    /\ q.pc = "read"
    /\ \E s \in q.srcs :
         Goto(r, [q EXCEPT !.srcs = @ \ {s},
                           !.cat = [c \in Cells |-> IF c[2] = s THEN held[c] ELSE @[c]]])
    /\ DocsUnchanged
    /\ ExchangeUnchanged
    /\ UNCHANGED <<built, mishaps>>

\* As if the catalogue were tagged with the generation of now.
CatalogKeepAsLatest(r) ==
    LET q == reqs[r] IN
    /\ q.pc = "read" /\ q.srcs = {}
    /\ built' = [is |-> TRUE, cat |-> q.cat, since |-> "nothing"]
    /\ Goto(r, [q EXCEPT !.pc = "shown"])
    /\ DocsUnchanged
    /\ ExchangeUnchanged
    /\ UNCHANGED mishaps

\* keep: tagged with the generation read before the documents were.
CatalogKeep(r) ==
    LET q == reqs[r] IN
    /\ q.pc = "read" /\ q.srcs = {}
    /\ built' = [is |-> TRUE, cat |-> q.cat, since |-> q.since]
    /\ Goto(r, [q EXCEPT !.pc = "shown"])
    /\ DocsUnchanged
    /\ ExchangeUnchanged
    /\ UNCHANGED mishaps

CatalogShown(r) ==
    /\ reqs[r].pc = "shown"
    /\ Goto(r, IdleReq)
    /\ DocsUnchanged
    /\ ExchangeUnchanged
    /\ UNCHANGED <<built, mishaps>>
-------------------------------------------------------------------------------
Exchange(r) ==
    \/ PollRead(r) \/ PollReport(r) \/ PollGrace(r) \/ PollAnswer(r)
    \/ UploadRefuse(r) \/ UploadRead(r) \/ UploadReport(r)
    \/ reqs[r].pc = "fail" /\ UploadFails(r)

Store(r) == StoreGet(r) \/ StoreMisses(r) \/ StoreReplace(r) \/ Stored(r)

Operator(r) ==
    \/ ImportRow(r) \/ ImportHolding(r) \/ Remove(r) \/ Finish(r)
    \/ CatalogLookup(r) \/ CatalogSources(r) \/ CatalogRead(r) \/ CatalogKeep(r)
    \/ CatalogShown(r)

Next ==
    \/ Tick
    \/ \E h \in Hosts : AgentChange(h) \/ GiveUp(h)
    \/ \E h \in Hosts, r \in Slots : Poll(h, r) \/ PostFacts(h, r)
    \/ \E r \in Slots :
         \/ Exchange(r) \/ Store(r) \/ Operator(r)
         \/ PollFails(r) \/ StoreFails(r) \/ UploadFails(r) \/ RemoveFails(r) \/ HangUp(r)
         \/ Import(r) \/ DeleteHostSource(r) \/ DeleteSource(r) \/ DeleteHosts(r) \/ Catalog(r)

Spec == Init /\ [][Next]_vars

\* Time passes, requests get on, and agents keep polling and send what they are asked for.
FairSpec ==
    /\ Spec
    /\ WF_vars(Tick)
    /\ \A r \in Slots : WF_vars(Exchange(r) \/ Store(r))
    /\ \A h \in Hosts : WF_vars(\E r \in Slots : Poll(h, r) \/ PostFacts(h, r))
-------------------------------------------------------------------------------
\* What the store promises: every document replaced in one step, with a history
\* entry of what that step changed (store.rs: "two racing uploads therefore cannot
\* both diff against the same predecessor and leave a history that skips a step").
Log == INSTANCE FactsLog WITH doc <- held, log <- hist

\* The compare-and-set in replace and the retries in store implement the log of
\* whole replacements, whoever writes at the same time.
KeepsTheLog == Log!Spec

\* exchange.rs, EMPTY_CLEAR_GRACE_SECS: a request clears an inventory it found only
\* if no report of anything but the empty document was received, recorded and answered
\* within the grace period before the request came in.
ClearedAfterGrace ==
    [][\A r \in Slots :
         (/\ reqs[r].pc = "replace" /\ reqs'[r].pc = "stored"
          /\ reqs[r].src = "agent" /\ reqs[r].doc = Empty
          /\ reqs[r].seen \notin {None, Empty})
            => reqs[r].mark >= Grace]_vars

\* catalog.rs, CatalogChange: what an operator deleted or imported is what the
\* catalogue shows whoever asks for it afterwards, until the next change.
CatalogShows ==
    \A r \in Slots : reqs[r].pc = "shown" => \A c \in reqs[r].due : reqs[r].cat[c] = held[c]

\* view.rs, status: how the host's page names the state of the exchange.
Status(h) ==
    LET now == held[<<h, "agent">>]
        was == told[h].hash
    IN  CASE was = Empty /\ now \in {None, Empty}    -> "nothing_enabled"
          [] was = Empty /\ now \notin {None, Empty} -> "switched_off"
          [] was = None                              -> "not_reported"
          [] was \notin {None, Empty} /\ now = was   -> "current"
          [] was \notin {None, Empty, now} /\ refused[h] = was -> "refused"
          [] OTHER                                   -> IF now = None THEN "pending" ELSE "outdated"

\* An agent whose document stays the same is in the end held to it: the server has
\* a document it takes, whatever failed on the way; of one it refuses it says that it was
\* refused and is not coming, provided nothing failed, hung up or was lost (mishaps = 0).
AgentsHeard ==
    \A h \in Reporting, d \in Docs :
        <>[](agent[h].doc = d) =>
            <>[](IF Verdict[d] = "ok" THEN held[<<h, "agent">>] = d
                 ELSE mishaps = 0 => Status(h) = "refused")
===============================================================================
