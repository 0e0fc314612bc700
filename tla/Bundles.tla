-------------------------------- MODULE Bundles --------------------------------
(***************************************************************************)
(* One tenant's bundles: the rows (BundlesRepo, BundleAssignmentsRepo in   *)
(* storage/src/repos/bundles.rs), the files (LocalBundleStore), the        *)
(* handlers that make, assign, rename and delete them (server/src/bundles) *)
(* and the housekeeping sweep of files no row points at.                   *)
(*                                                                         *)
(* Every statement, transaction and file operation is one step.  A content *)
(* is the plaintext it holds, named by the id it was first stored under,   *)
(* and the name it is sealed under (bound into the AAD); a digest is the   *)
(* content.  Audit entries are left out.                                   *)
(***************************************************************************)
EXTENDS Naturals, FiniteSets

CONSTANTS
    Ids,          \* bundle ids the run can mint
    Names, Versions, Groups,
    Slots,        \* requests the server is running
    Workloads,    \* the sets of operations and formats clients may confine themselves to
    MaxBundles,   \* the tier's max_bundles
    MaxStops,     \* bound: times the process stops
    Plain,        \* the seal of a plain bundle
    None, Torn    \* no file or no row; a file cut short

AllOps == {"upload", "compose", "delete", "assign", "unassign", "reseal", "rename", "sweep"}
Formats == {"plain", "enc-v1"}

ASSUME ConstantsAssumption ==
    /\ Plain \notin Names
    /\ None \notin Names \cup Ids
    /\ Torn \notin Ids \cup {None}
    /\ Workloads \subseteq SUBSET (AllOps \cup Formats)
    /\ MaxBundles \in Nat
    /\ MaxStops \in Nat

VARIABLES
    rows,      \* the bundles table by id; an absent row has no name
    files,     \* the stored content by id
    old,       \* ids whose file was written longer ago than the grace period
    assigned,  \* the bundle_assignments table: <<group, bundle id>>
    cached,    \* the memoized set of served ids, or nothing once a bump outdated it
    offers,    \* what stage_reseal answered the browsers: [of, to, as]
    reqs,      \* the running requests
    sweep,     \* the housekeeping task
    content,   \* what each minted id's bytes are; ids are minted once
    stops,
    load,      \* the workload
    \* History, read by properties only:
    cut,       \* ids whose file was not written whole
    staged,    \* ids minted by stage_reseal
    unbumped   \* memoized ids deleted by a request that did not come to bump the version

vars == <<rows, files, old, assigned, cached, offers, reqs, sweep, content, stops, load,
          cut, staged, unbumped>>

table   == <<rows, assigned>>
environ == <<stops, load>>
store   == <<files, old, cut>>
history == <<staged, unbumped>>

Maybe(S) == S \cup {None}
Contents == [text : Maybe(Ids) \cup {Torn}, seal : Names \cup {Plain}]
NoFile   == [text |-> None, seal |-> Plain]
TornFile == [text |-> Torn, seal |-> Plain]
Descriptors == [id : Maybe(Ids), name : Maybe(Names), version : Maybe(Versions), sha : Contents]
Rows     == [name : Maybe(Names), version : Maybe(Versions), sha : Contents, sig : Descriptors]
\* The signed BundleDescriptor; the format is the content's.
Descriptor(i, n, v, c) == [id |-> i, name |-> n, version |-> v, sha |-> c]
Row(i, n, v, c) == [name |-> n, version |-> v, sha |-> c, sig |-> Descriptor(i, n, v, c)]
NoRow    == Row(None, None, None, NoFile)

IdleReq == [op |-> "none", pc |-> "idle", id |-> None, base |-> None, name |-> None,
            to |-> None, version |-> None, format |-> "plain", group |-> None,
            shot |-> [i \in Ids |-> NoRow], map |-> [i \in Ids |-> None],
            todo |-> {}, got |-> [i \in Ids |-> NoFile]]
IdleSweep == [pc |-> "idle", ids |-> {}]

Present(i)    == rows[i].name # None
Stored(i)     == files[i].text # None
Named(n)      == {i \in Ids : rows[i].name = n}
Encrypted(row) == row.sha.seal # Plain
Served        == {a[2] : a \in assigned}
Used          == {i \in Ids : content[i].text # None}

Init ==
    /\ rows = [i \in Ids |-> NoRow]
    /\ files = [i \in Ids |-> NoFile]
    /\ assigned = {}
    /\ cached = {}
    /\ offers = {}
    /\ reqs = [r \in Slots |-> IdleReq]
    /\ sweep = IdleSweep
    /\ stops = 0
    /\ load \in Workloads
    /\ content = [i \in Ids |-> NoFile]
    /\ old = {} /\ cut = {} /\ staged = {} /\ unbumped = {}

Answer(r)   == reqs' = [reqs EXCEPT ![r] = IdleReq]
GoTo(r, pc) == reqs' = [reqs EXCEPT ![r] = [@ EXCEPT !.pc = pc]]
Begin(r, op, q) == op \in load /\ reqs[r].pc = "idle" /\ reqs' = [reqs EXCEPT ![r] = q]

-----------------------------------------------------------------------------
(* upload, compose and persist_bundle.                                     *)

\* A new version; b is the bundle it was edited from, if any.
Upload(r, op, n, v, f, b) ==
    /\ op = "compose" => f = "plain"
    /\ Begin(r, op, [IdleReq EXCEPT !.op = op, !.pc = IF b = None THEN "count" ELSE "base",
                     !.name = n, !.version = v, !.format = f, !.base = b])
    /\ UNCHANGED <<table, store, cached, offers, sweep, content, environ, history>>

\* The base must still be there under the name being saved; compose reads it.
CheckBase(r) ==
    /\ reqs[r].pc = "base"
    /\ IF \/ rows[reqs[r].base].name # reqs[r].name
          \/ reqs[r].op = "compose" /\ Encrypted(rows[reqs[r].base])
         THEN Answer(r)
         ELSE GoTo(r, IF reqs[r].op = "compose" THEN "read" ELSE "count")
    /\ UNCHANGED <<table, store, cached, offers, sweep, content, environ, history>>

ReadBase(r) ==
    /\ reqs[r].pc = "read"
    /\ IF files[reqs[r].base].text \in {None, Torn} THEN Answer(r) ELSE GoTo(r, "count")
    /\ UNCHANGED <<table, store, cached, offers, sweep, content, environ, history>>

CountBundles(r) ==
    /\ reqs[r].pc = "count"
    /\ IF Cardinality({i \in Ids : Present(i)}) >= MaxBundles
         THEN Answer(r) ELSE GoTo(r, "insert")
    /\ UNCHANGED <<table, store, cached, offers, sweep, content, environ, history>>

\* The id is minted, the descriptor signed and the row inserted, unless
\* (name, version) is taken.
InsertRow(r, i) ==
    /\ reqs[r].pc = "insert"
    /\ i \notin Used
    /\ LET q == reqs[r]
           c == [text |-> i, seal |-> IF q.format = "plain" THEN Plain ELSE q.name]
       IN  IF \E j \in Named(q.name) : rows[j].version = q.version
             THEN Answer(r) /\ UNCHANGED <<rows, content>>
             ELSE /\ rows' = [rows EXCEPT ![i] = Row(i, q.name, q.version, c)]
                  /\ content' = [content EXCEPT ![i] = c]
                  /\ reqs' = [reqs EXCEPT ![r] = [@ EXCEPT !.pc = "store", !.id = i]]
    /\ UNCHANGED <<assigned, store, cached, offers, sweep, environ, history>>

\* The content request q is about to write: an upload's own, or a re-seal.
Writing(q) ==
    IF q.op = "reseal" THEN [text |-> q.shot[q.base].sha.text, seal |-> q.to]
    ELSE [text |-> q.id, seal |-> IF q.format = "plain" THEN Plain ELSE q.name]

\* LocalBundleStore::put, which a hang-up does not stop ("late"): the file is
\* written, or the write fails before or after it made the file.
Put(r, ok) ==
    /\ LET i == reqs[r].id IN
         IF ok THEN /\ files' = [files EXCEPT ![i] = Writing(reqs[r])]
                    /\ UNCHANGED cut
               ELSE /\ \E f \in {NoFile, TornFile} : files' = [files EXCEPT ![i] = f]
                    /\ cut' = cut \cup {i}
    /\ old' = old \ {reqs[r].id}

StoreBytes(r, ok) ==
    /\ reqs[r].pc \in {"store", "late"}
    /\ reqs[r].op \in {"upload", "compose"}
    /\ Put(r, ok)
    /\ IF ok /\ reqs[r].pc = "store" THEN GoTo(r, "bump") ELSE Answer(r)
    /\ UNCHANGED <<table, cached, offers, sweep, content, environ, history>>

-----------------------------------------------------------------------------
(* delete_bundle, assign_to_group, unassign_from_group.                    *)

DeleteBundle(r, i) ==
    /\ Present(i)
    /\ Begin(r, "delete", [IdleReq EXCEPT !.op = "delete", !.id = i, !.pc = "delete"])
    /\ UNCHANGED <<table, store, cached, offers, sweep, content, environ, history>>

\* BundlesRepo::delete takes the assignments with the row.
DeleteRow(r) ==
    /\ reqs[r].pc = "delete"
    /\ LET i == reqs[r].id IN
         /\ IF Present(i) THEN GoTo(r, "unlink") ELSE Answer(r)
         /\ rows' = [rows EXCEPT ![i] = NoRow]
         /\ assigned' = {a \in assigned : a[2] # i}
    /\ UNCHANGED <<store, cached, offers, sweep, content, environ, history>>

\* A file that is not there, or stays, is only logged.
Unlink(r) ==
    /\ reqs[r].pc = "unlink"
    /\ \/ /\ files' = [files EXCEPT ![reqs[r].id] = NoFile]
          /\ old' = old \ {reqs[r].id}
       \/ UNCHANGED <<files, old>>
    /\ GoTo(r, "bump")
    /\ UNCHANGED <<table, cached, offers, cut, sweep, content, environ, history>>

Assign(r, op, g, i) ==
    /\ op = "assign" => Present(i)
    /\ Begin(r, op, [IdleReq EXCEPT !.op = op, !.id = i, !.group = g, !.pc = op])
    /\ UNCHANGED <<table, store, cached, offers, sweep, content, environ, history>>

\* The foreign key refuses a bundle deleted or replaced since it was looked up.
AssignRow(r) ==
    /\ reqs[r].pc = "assign"
    /\ IF Present(reqs[r].id)
         THEN /\ assigned' = assigned \cup {<<reqs[r].group, reqs[r].id>>}
              /\ GoTo(r, "bump")
         ELSE Answer(r) /\ UNCHANGED assigned
    /\ UNCHANGED <<rows, store, cached, offers, sweep, content, environ, history>>

UnassignRow(r) ==
    /\ reqs[r].pc = "unassign"
    /\ LET a == <<reqs[r].group, reqs[r].id>> IN
         /\ assigned' = assigned \ {a}
         /\ IF a \in assigned THEN GoTo(r, "bump") ELSE Answer(r)
    /\ UNCHANGED <<rows, store, cached, offers, sweep, content, environ, history>>

\* A request that removed a row and will not bump leaves its id in the
\* memoized state.
Lost(r) == IF reqs[r].op = "delete" /\ reqs[r].pc \in {"unlink", "bump"}
             THEN unbumped \cup ({reqs[r].id} \cap UNION cached) ELSE unbumped

\* bump_config_version; a failure is only logged.
Bump(r) ==
    /\ reqs[r].pc = "bump"
    /\ \/ cached' = {} /\ UNCHANGED unbumped
       \/ unbumped' = Lost(r) /\ UNCHANGED cached
    /\ Answer(r)
    /\ UNCHANGED <<table, store, offers, sweep, content, environ, staged>>

\* compute_desired_state for a host of every group (DesiredState models the
\* cache itself): the memoized state, or a new one.  One that names nothing
\* is left out.
Poll ==
    /\ cached = {}
    /\ Served # {}
    /\ cached' = {Served}
    /\ UNCHANGED <<table, store, offers, reqs, sweep, content, environ, history>>

-----------------------------------------------------------------------------
(* stage_reseal and rename.                                                *)

\* check_resealed: the same plaintext and not the original ciphertext.
Resealed(c, row) == c.text = row.sha.text /\ c.seal # Plain /\ c # row.sha

\* The browser has opened version i and seals it under the name it is about
\* to get; the row read is what the body is checked against.
StageReseal(r, i, to) ==
    /\ Present(i) /\ Encrypted(rows[i])
    /\ files[i] = rows[i].sha
    /\ Resealed([text |-> files[i].text, seal |-> to], rows[i])
    /\ Begin(r, "reseal", [IdleReq EXCEPT !.op = "reseal", !.pc = "mint", !.base = i,
                           !.to = to, !.shot = [IdleReq.shot EXCEPT ![i] = rows[i]]])
    /\ UNCHANGED <<table, store, cached, offers, sweep, content, environ, history>>

MintStaged(r, s) ==
    /\ reqs[r].pc = "mint"
    /\ s \notin Used
    /\ content' = [content EXCEPT ![s] = Writing(reqs[r])]
    /\ staged' = staged \cup {s}
    /\ reqs' = [reqs EXCEPT ![r] = [@ EXCEPT !.pc = "store", !.id = s]]
    /\ UNCHANGED <<table, store, cached, offers, sweep, environ, unbumped>>

StoreStaged(r, ok) ==
    /\ reqs[r].pc \in {"store", "late"}
    /\ reqs[r].op = "reseal"
    /\ Put(r, ok)
    /\ offers' = IF ok /\ reqs[r].pc = "store"
                   THEN offers \cup {[of |-> reqs[r].base, to |-> reqs[r].to, as |-> reqs[r].id]}
                   ELSE offers
    /\ Answer(r)
    /\ UNCHANGED <<table, cached, sweep, content, environ, history>>

\* The browser names, for the versions it knew, the files staged under `to`.
Offered(m, to) ==
    \A i \in Ids : m[i] # None => [of |-> i, to |-> to, as |-> m[i]] \in offers

Rename(r, from, to, m) ==
    /\ from # to
    /\ Offered(m, to)
    /\ Named(to) = {}
    /\ Begin(r, "rename", [IdleReq EXCEPT !.op = "rename", !.pc = "versions", !.name = from,
                           !.to = to, !.map = m])
    /\ UNCHANGED <<table, store, cached, offers, sweep, content, environ, history>>

\* Mutant of ReadVersions: an encrypted version may come without a re-seal.
ReadVersionsUnsealed(r) ==
    /\ reqs[r].pc = "versions"
    /\ LET mine == Named(reqs[r].name)
           enc  == {i \in mine : Encrypted(rows[i])}
       IN  IF mine # {} /\ {i \in Ids : reqs[r].map[i] # None} \subseteq enc
             THEN reqs' = [reqs EXCEPT ![r] = [@ EXCEPT
                    !.pc = "check", !.todo = {i \in enc : reqs[r].map[i] # None},
                    !.shot = [i \in Ids |-> IF i \in mine THEN rows[i] ELSE NoRow]]]
             ELSE Answer(r)
    /\ UNCHANGED <<table, store, cached, offers, sweep, content, environ, history>>

\* The versions, and whether exactly the encrypted ones come with a re-seal.
ReadVersions(r) ==
    /\ reqs[r].pc = "versions"
    /\ LET mine == Named(reqs[r].name)
           enc  == {i \in mine : Encrypted(rows[i])}
       IN  IF mine # {} /\ enc = {i \in Ids : reqs[r].map[i] # None}
             THEN reqs' = [reqs EXCEPT ![r] = [@ EXCEPT
                    !.pc = "check", !.todo = enc,
                    !.shot = [i \in Ids |-> IF i \in mine THEN rows[i] ELSE NoRow]]]
             ELSE Answer(r)
    /\ UNCHANGED <<table, store, cached, offers, sweep, content, environ, history>>

\* The staged id must belong to no row.
CheckOwner(r, i) ==
    /\ reqs[r].pc = "check"
    /\ i \in reqs[r].todo
    /\ IF Present(reqs[r].map[i]) THEN Answer(r)
       ELSE reqs' = [reqs EXCEPT ![r] = [@ EXCEPT !.pc = "staged", !.id = i]]
    /\ UNCHANGED <<table, store, cached, offers, sweep, content, environ, history>>

ReadStaged(r) ==
    /\ reqs[r].pc = "staged"
    /\ LET q == reqs[r]
           i == q.id
           c == files[q.map[i]]
       IN  IF Resealed(c, q.shot[i])
             THEN reqs' = [reqs EXCEPT ![r] = [q EXCEPT !.pc = "check", !.todo = q.todo \ {i},
                                                        !.got = [q.got EXCEPT ![i] = c]]]
             ELSE Answer(r)
    /\ UNCHANGED <<table, store, cached, offers, sweep, content, environ, history>>

\* Mutant of Renames: what else is under the old name is not counted.
RenamesKnown(r) ==
    /\ Named(reqs[r].to) = {}
    /\ {i \in Ids : reqs[r].shot[i].name # None} \subseteq Named(reqs[r].name)
    /\ \A i \in Ids : reqs[r].map[i] # None => ~Present(reqs[r].map[i])

\* BundlesRepo::rename, with the rows and files that r read: whether every
\* version is still under the old name and nothing else is, and the new name
\* is free.
Renames(r) ==
    /\ Named(reqs[r].to) = {}
    /\ Named(reqs[r].name) = {i \in Ids : reqs[r].shot[i].name # None}
    /\ \A i \in Ids : reqs[r].map[i] # None => ~Present(reqs[r].map[i])

\* The row of id j afterwards: a staged id takes the version it re-seals, a
\* plain version is renamed in place, a re-sealed one is gone.
RenamedRow(r, j) ==
    LET q == reqs[r]
        New(i) == Row(j, q.to, q.shot[i].version, IF i = j THEN q.shot[i].sha ELSE q.got[i])
    IN  CASE \E i \in Ids : q.map[i] = j -> New(CHOOSE i \in Ids : q.map[i] = j)
          [] q.shot[j].name # None /\ q.map[j] = None -> New(j)
          [] q.map[j] # None -> NoRow
          [] OTHER -> rows[j]

\* Mutants of CommitRename: the version is left to a later statement; the
\* assignments stay with the replaced rows.
CommitRenameUnbumped(r) ==
    /\ reqs[r].pc = "check"
    /\ reqs[r].todo = {}
    /\ LET q  == reqs[r]
           To(i) == IF q.map[i] # None THEN q.map[i] ELSE i
       IN  IF Renames(r)
             THEN /\ rows' = [j \in Ids |-> RenamedRow(r, j)]
                  /\ assigned' = {<<a[1], To(a[2])>> : a \in assigned}
                  /\ UNCHANGED cached
             ELSE UNCHANGED <<table, cached>>
    /\ Answer(r)
    /\ UNCHANGED <<store, offers, sweep, content, environ, staged, unbumped>>

CommitRenameUnmoved(r) ==
    /\ reqs[r].pc = "check"
    /\ reqs[r].todo = {}
    /\ IF Renames(r)
         THEN /\ rows' = [j \in Ids |-> RenamedRow(r, j)]
              /\ cached' = {}
              /\ UNCHANGED assigned
         ELSE UNCHANGED <<table, cached>>
    /\ Answer(r)
    /\ UNCHANGED <<store, offers, sweep, content, environ, staged, unbumped>>

CommitRename(r) ==
    /\ reqs[r].pc = "check"
    /\ reqs[r].todo = {}
    /\ LET q  == reqs[r]
           To(i) == IF q.map[i] # None THEN q.map[i] ELSE i
       IN  IF Renames(r)
             THEN /\ rows' = [j \in Ids |-> RenamedRow(r, j)]
                  /\ assigned' = {<<a[1], To(a[2])>> : a \in assigned}
                  /\ cached' = {}
             ELSE UNCHANGED <<table, cached>>
    /\ Answer(r)
    /\ UNCHANGED <<store, offers, sweep, content, environ, staged, unbumped>>

-----------------------------------------------------------------------------
(* housekeeping::sweep_bundle_files, and time.                             *)

SweepList ==
    /\ "sweep" \in load
    /\ sweep.pc = "idle"
    /\ sweep' = [pc |-> "listed", ids |-> {i \in Ids : Stored(i)}]
    /\ UNCHANGED <<table, store, cached, offers, reqs, content, environ, history>>

\* Mutants of SweepRows: the rows are not looked at; the age is compared
\* the wrong way round.
SweepRowsByAge ==
    /\ sweep.pc = "listed"
    /\ sweep' = [pc |-> "delete", ids |-> {i \in sweep.ids : i \in old}]
    /\ UNCHANGED <<table, store, cached, offers, reqs, content, environ, history>>

SweepRowsYoung ==
    /\ sweep.pc = "listed"
    /\ sweep' = [pc |-> "delete", ids |-> {i \in sweep.ids : i \notin old /\ ~Present(i)}]
    /\ UNCHANGED <<table, store, cached, offers, reqs, content, environ, history>>

\* The rows are read, and the cutoff taken, after the files were listed.
SweepRows ==
    /\ sweep.pc = "listed"
    /\ sweep' = [pc |-> "delete", ids |-> {i \in sweep.ids : i \in old /\ ~Present(i)}]
    /\ UNCHANGED <<table, store, cached, offers, reqs, content, environ, history>>

SweepDelete(i) ==
    /\ sweep.pc = "delete"
    /\ i \in sweep.ids
    /\ files' = [files EXCEPT ![i] = NoFile]
    /\ old' = old \ {i}
    /\ sweep' = [sweep EXCEPT !.ids = @ \ {i}]
    /\ UNCHANGED <<table, cut, cached, offers, reqs, content, environ, history>>

SweepFails(i) ==
    /\ sweep.pc = "delete"
    /\ i \in sweep.ids
    /\ sweep' = [sweep EXCEPT !.ids = @ \ {i}]
    /\ UNCHANGED <<table, store, cached, offers, reqs, content, environ, history>>

SweepEnd ==
    /\ sweep.pc = "delete"
    /\ sweep.ids = {}
    /\ sweep' = IdleSweep
    /\ UNCHANGED <<table, store, cached, offers, reqs, content, environ, history>>

\* A grace period has passed since file i was written.
FileAges(i) ==
    /\ "sweep" \in load
    /\ Stored(i) /\ i \notin old
    /\ old' = old \cup {i}
    /\ UNCHANGED <<table, files, cut, cached, offers, reqs, sweep, content, environ, history>>

-----------------------------------------------------------------------------
(* The client hangs up: the handler is dropped, a file operation goes on.  *)
HangUp(r) ==
    /\ reqs[r].pc \notin {"idle", "late"}
    /\ IF reqs[r].pc = "store" THEN GoTo(r, "late") ELSE Answer(r)
    /\ unbumped' = Lost(r)
    /\ UNCHANGED <<table, store, cached, offers, sweep, content, environ, staged>>

\* The process stops: files being written are whole, torn or missing.
Stop ==
    /\ stops < MaxStops
    /\ stops' = stops + 1
    /\ LET writing == {r \in Slots : reqs[r].pc \in {"store", "late"}}
           ids     == {reqs[r].id : r \in writing}
       IN  \E whole \in SUBSET writing, none \in SUBSET ids :
             /\ files' = [i \in Ids |->
                   IF i \notin ids THEN files[i]
                   ELSE IF \E r \in whole : reqs[r].id = i
                     THEN Writing(reqs[CHOOSE r \in whole : reqs[r].id = i])
                   ELSE IF i \in none THEN NoFile ELSE TornFile]
             /\ cut' = cut \cup {reqs[r].id : r \in writing \ whole}
             /\ old' = old \ ids
    /\ reqs' = [r \in Slots |-> IdleReq]
    /\ sweep' = IdleSweep
    /\ cached' = {}
    /\ UNCHANGED <<table, offers, content, load, staged, unbumped>>

-----------------------------------------------------------------------------
RequestStep(r) ==
    \/ CheckBase(r) \/ ReadBase(r) \/ CountBundles(r)
    \/ \E i \in Ids : InsertRow(r, i) \/ MintStaged(r, i) \/ CheckOwner(r, i)
    \/ \E ok \in BOOLEAN : StoreBytes(r, ok) \/ StoreStaged(r, ok)
    \/ DeleteRow(r) \/ Unlink(r) \/ AssignRow(r) \/ UnassignRow(r) \/ Bump(r)
    \/ ReadVersions(r) \/ ReadStaged(r) \/ CommitRename(r)

Request(r) ==
    \/ \E op \in {"upload", "compose"}, n \in Names, v \in Versions, f \in Formats \cap load,
          b \in Maybe(Used) : Upload(r, op, n, v, f, b)
    \/ \E i \in Used : DeleteBundle(r, i)
    \/ \E op \in {"assign", "unassign"}, g \in Groups, i \in Used : Assign(r, op, g, i)
    \/ \E i \in Used, n \in Names : StageReseal(r, i, n)
    \/ \E n, m \in Names, f \in [Ids -> Maybe({o.as : o \in offers})] : Rename(r, n, m, f)

SweepStep == SweepList \/ SweepRows \/ SweepEnd \/ \E i \in Ids : SweepDelete(i) \/ SweepFails(i)

Next ==
    \/ \E r \in Slots : Request(r) \/ RequestStep(r) \/ HangUp(r)
    \/ SweepStep \/ Poll \/ Stop
    \/ \E i \in Ids : FileAges(i)

Spec == Init /\ [][Next]_vars

\* Housekeeping loops for ever and its deletions do not fail for ever; time
\* passes; a request's step, a late write included, is taken in the end.
Fairness ==
    /\ WF_vars(SweepList) /\ WF_vars(SweepRows) /\ WF_vars(SweepEnd)
    /\ \A i \in Ids : /\ WF_vars(SweepDelete(i) \/ SweepFails(i)) /\ SF_vars(SweepDelete(i))
                       /\ WF_vars(FileAges(i))
    /\ \A r \in Slots : WF_vars(RequestStep(r))

FairSpec == Spec /\ Fairness

-----------------------------------------------------------------------------
Reqs == [op : AllOps \cup {"none"},
         pc : {"idle", "base", "read", "count", "insert", "store", "late", "bump", "delete",
               "unlink", "assign", "unassign", "mint", "versions", "check", "staged"},
         id : Maybe(Ids), base : Maybe(Ids), name : Maybe(Names), to : Maybe(Names),
         version : Maybe(Versions), format : Formats, group : Maybe(Groups),
         shot : [Ids -> Rows], map : [Ids -> Maybe(Ids)], todo : SUBSET Ids, got : [Ids -> Contents]]

\* The rows, files and requests have their types, a file's age is that of a
\* file, and every assignment names a bundle that is there (DELETE and
\* rename in BundlesRepo take the assignments along).
TypeOK ==
    /\ rows \in [Ids -> Rows]
    /\ files \in [Ids -> Contents]
    /\ assigned \subseteq Groups \X {i \in Ids : Present(i)}
    /\ cached \subseteq SUBSET Ids
    /\ offers \subseteq [of : Ids, to : Names, as : Ids]
    /\ reqs \in [Slots -> Reqs]
    /\ sweep \in [pc : {"idle", "listed", "delete"}, ids : SUBSET Ids]
    /\ stops \in 0 .. MaxStops
    /\ load \in Workloads
    /\ old \subseteq {i \in Ids : Stored(i)}
    /\ content \in [Ids -> Contents]
    /\ cut \subseteq Ids /\ staged \subseteq Ids
    /\ unbumped \subseteq Ids

\* What agents check: a row's signature covers the row as it is (id, name,
\* version, digest), encrypted bytes are sealed under the row's own name, and
\* the file is never other bytes than the row's, whatever renames, re-seals,
\* deletions and cut-off writes went on (rename.rs, reseal.rs, upload.rs).
Vouched ==
    \A i \in Ids : Present(i) =>
        /\ rows[i].sig = Descriptor(i, rows[i].name, rows[i].version, rows[i].sha)
        /\ rows[i].sha.seal \in {Plain, rows[i].name}
        /\ files[i] \in {NoFile, TornFile, rows[i].sha}

Arriving(i) == \E r \in Slots : reqs[r].pc \in {"store", "late"} /\ reqs[r].id = i

\* A bundle whose upload wrote its bytes keeps them while it has its row: no
\* sweep that listed files and rows at different times, no deletion and no
\* rename takes them (sweep_bundle_files: rows are read after the files).
BytesKept ==
    \A i \in Ids : Present(i) /\ i \notin cut \cup staged
                     => files[i] = rows[i].sha \/ Arriving(i)

\* The memoized desired state never names a bundle that a rename replaced,
\* and a deleted one only while, or because, the deletion's bump is missing
\* (BundlesRepo::rename bumps in its transaction, delete_bundle after it).
ServedHasRow ==
    \A ids \in cached : \A i \in ids :
        Present(i) \/ i \in unbumped
        \/ \E r \in Slots : /\ reqs[r].op = "delete" /\ reqs[r].pc \in {"unlink", "bump"}
                            /\ reqs[r].id = i

\* A rename is all or nothing: it leaves no version under the old name, and
\* every group carries under the new name the versions it carried under the
\* old one, whatever was uploaded, deleted or assigned since it read them.
Carried(g, n) == {rows[a[2]].version : a \in {b \in assigned : b[1] = g /\ rows[b[2]].name = n}}
RenameWhole ==
    [][\A r \in Slots, n, m \in Names :
         CommitRename(r) /\ rows' # rows /\ reqs[r].name = n /\ reqs[r].to = m =>
           /\ Named(n)' = {}
           /\ \A g \in Groups : Carried(g, m)' = Carried(g, n)]_vars

\* A file no row points at is removed in the end, or gets its row
\* (housekeeping::run): re-seals never committed, replaced ciphertext, what
\* an interrupted request left.
OrphansSwept == \A i \in Ids : []<>(Present(i) \/ ~Stored(i))

-----------------------------------------------------------------------------
(* A statement of the documentation that the code does not keep.           *)

\* housekeeping.rs: a file with no row is only waiting for a commit, for
\* which the grace period is, or left over; the committed one keeps its file.
StagedKept == \A i \in staged : Present(i) => Stored(i)
=============================================================================
