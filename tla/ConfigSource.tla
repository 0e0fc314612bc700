----------------------------- MODULE ConfigSource -----------------------------
(***************************************************************************)
(* Groups and bundles from a directory of files: reload, --import-config   *)
(* and --export-config (server/src/config_source, the apply transaction of *)
(* storage/src/repos/config_source.rs), with the API edits they may meet.  *)
(*                                                                         *)
(* One tenant.  The directory is read in two parts, bundles/ and groups/,  *)
(* and may change in between; the tables are read in three statements and  *)
(* written in one transaction.  A server is managed by the directory or    *)
(* not for as long as it runs; an import is a process of its own.  Left    *)
(* out: priorities (with the selector a group's data) and bundle sizes     *)
(* (with the number of bundles what the tier limits).                      *)
(***************************************************************************)
EXTENDS Naturals, FiniteSets

CONSTANTS
    Keys,        \* names of bundle versions, name@version
    Trees,       \* trees of files a bundle may be made of
    Loadable,    \* the trees the loader takes
    Blobs,       \* stored bundles
    Sealed,      \* the encrypted ones
    Zip,         \* build_zip_from_entries
    Unzip,       \* read_zip_entries, sorted; None for what is no zip
    Names,       \* group names as typed
    Trim,        \* what the loader makes of them
    Sels,        \* selectors
    None,
    Bids, Gids,  \* ids of bundles and groups
    Dirs,        \* the directories that may be published
    Starts,      \* the directories the tables may have been loaded from before
    Jobs,        \* requests and commands that can run at once
    Managed,     \* workloads of a managed server: see Work
    Unmanaged,   \* workloads of one that is not
    MaxBundles   \* max_bundles of the tier

Work == {"publish", "reload", "dry", "import", "export", "edit", "mishap"}

Content == [kind : {"tree"}, is : Trees] \cup [kind : {"zip", "nseb"}, is : Blobs]
GroupFile == [name : Names, sel : Sels, uses : SUBSET Keys]
Directory == [bundles : [Keys -> Content \cup {None}], groups : SUBSET GroupFile]

BundleRow == [key : Keys, blob : Blobs]
GroupRow  == [name : Names, sel : Sels]
Tables    == [rows : [Bids -> BundleRow \cup {None}], groups : [Gids -> GroupRow \cup {None}],
              assigned : SUBSET (Gids \X Bids)]
Plans     == [kept : SUBSET Bids, add : [Keys -> Bids \cup {None}], named : [Names -> Gids \cup {None}]]

ASSUME FilesAssumption ==
    /\ Loadable \subseteq Trees /\ Sealed \subseteq Blobs
    /\ Zip \in [Trees -> Blobs \ Sealed]
    /\ Unzip \in [Blobs -> Trees \cup {None}]
    /\ \A t \in Trees : Unzip[Zip[t]] = t
    /\ \A b \in Sealed : Unzip[b] = None
    /\ Trim \in [Names -> Names] /\ \A n \in Names : Trim[Trim[n]] = Trim[n]

ASSUME DirsAssumption ==
    Starts \subseteq Dirs /\ Dirs \subseteq Directory

ASSUME NoneAssumption ==
    None \notin Keys \cup Trees \cup Blobs \cup Names \cup Bids \cup Gids
                \cup Content \cup BundleRow \cup GroupRow

ASSUME WorkAssumption == Managed \cup Unmanaged \subseteq [Work -> Nat] /\ MaxBundles \in Nat

VARIABLES
    managed,   \* CONFIG_SOURCE_DIR is set
    dir,       \* the directory
    rows,      \* bundles: id to key and stored blob
    groups,    \* groups: id to name and selector
    assigned,  \* bundle_assignments
    files,     \* the bundle store
    jobs,
    due,       \* the deploy hook has yet to see a reload of the directory as it is succeed
    load       \* the work that is left

vars == <<managed, dir, rows, groups, assigned, files, jobs, due, load>>
tables == <<rows, groups, assigned>>

NoPlan  == [kept |-> {}, add |-> [k \in Keys |-> None], named |-> [n \in Names |-> None]]
NoDir   == [bundles |-> [k \in Keys |-> None], groups |-> {}]
NoSeen  == [rows |-> [i \in Bids |-> None], groups |-> [g \in Gids |-> None], assigned |-> {}]
Idle    == [op |-> "none", pc |-> "idle", dry |-> FALSE, spec |-> NoDir, seen |-> NoSeen,
            plan |-> NoPlan, todo |-> {}, stale |-> FALSE, blind |-> FALSE, calm |-> TRUE]

RowsIn(t) == {i \in DOMAIN t : t[i] # None}

Job == [op    : {"none", "startup", "reload", "import", "export"},
        pc    : {"idle", "load", "loadgroups", "rows", "groups", "assigned", "plan", "put", "apply",
                 "discard", "cleanup", "write", "written"},
        dry   : BOOLEAN,
        spec  : Directory, seen : Tables, plan : Plans,
        todo  : SUBSET Keys,
        stale : BOOLEAN, blind : BOOLEAN, calm : BOOLEAN]

TypeOK ==
    /\ managed \in BOOLEAN /\ due \in BOOLEAN
    /\ dir \in Dirs
    /\ rows \in [Bids -> BundleRow \cup {None}]
    /\ groups \in [Gids -> GroupRow \cup {None}]
    /\ assigned \subseteq RowsIn(groups) \X RowsIn(rows)
    /\ files \in [Bids -> Blobs \cup {None}]
    /\ \A i, j \in RowsIn(rows) : rows[i].key = rows[j].key => i = j
    /\ \A g, h \in RowsIn(groups) : groups[g].name = groups[h].name => g = h
    /\ load \in [Work -> Nat]
    /\ jobs \in [Jobs -> Job]
-------------------------------------------------------------------------------
(* layout: what a directory means.                                         *)

Listed(bs) == {k \in Keys : bs[k] # None}

\* read_tree: some files, not too many or too large, and a config.json that is an object.
TreeReads(t) == t \in Loadable

\* load_bundles has nothing to report.
BundlesLoad(bs) == \A k \in Listed(bs) : bs[k].kind = "tree" => TreeReads(bs[k].is)

\* Nor has load_groups: no two files define a group.
GroupsLoad(gs) == \A g, h \in gs : Trim[g.name] = Trim[h.name] => g = h

\* load: and every reference is to a bundle of the directory.
Loads(bs, gs) ==
    /\ BundlesLoad(bs) /\ GroupsLoad(gs)
    /\ \A g \in gs : g.uses \subseteq Listed(bs)

Blob(c) == IF c.kind = "tree" THEN Zip[c.is] ELSE c.is

\* As if a tier that allows n bundles allowed fewer than n.
OverTierAtLimit(bs) == Cardinality(Listed(bs)) >= MaxBundles

OverTier(bs) == Cardinality(Listed(bs)) > MaxBundles

\* build_bundles: a blob is what its extension says.
Builds(bs) == \A k \in Listed(bs) : bs[k].kind # "tree" => (bs[k].kind = "nseb" <=> bs[k].is \in Sealed)

\* The groups as the database will have them.
Trimmed(gs) == {[g EXCEPT !.name = Trim[@]] : g \in gs}

\* The tables, by names alone.
Shown ==
    [bundles |-> {rows[i] : i \in RowsIn(rows)},
     groups  |-> {[name |-> groups[g].name, sel |-> groups[g].sel,
                   uses |-> {rows[a[2]].key : a \in {x \in assigned : x[1] = g}}] : g \in RowsIn(groups)}]

\* The tables t are what spec says; a tree may have been zipped in another way.
Matches(t, spec) ==
    /\ t.groups = spec.groups
    /\ {r.key : r \in t.bundles} = Listed(spec.bundles)
    /\ \A r \in t.bundles : LET c == spec.bundles[r.key]
                            IN  r.blob = Blob(c) \/ (c.kind = "tree" /\ Unzip[r.blob] = c.is)

\* Different ids from T for what is in S.
Injections(S, T) == {f \in [S -> T] : \A x, y \in S : f[x] = f[y] => x = y}
Injection(S, T)  == CHOOSE f \in Injections(S, T) : TRUE

\* Bound: the ids do not run out.
Enough(S, T) == Injections(S, T) # {}

ASSUME StartsAssumption ==
    \A d \in Starts : /\ Loads(d.bundles, d.groups)
                      /\ Enough(Listed(d.bundles), Bids) /\ Enough(d.groups, Gids)

\* The tables a directory left that was loaded before.

Loaded(d) ==
    LET id  == Injection(Listed(d.bundles), Bids)
        gid == Injection(d.groups, Gids)
    IN  /\ rows = [i \in Bids |-> IF \E k \in DOMAIN id : id[k] = i
                     THEN LET k == CHOOSE x \in DOMAIN id : id[x] = i
                          IN  [key |-> k, blob |-> Blob(d.bundles[k])] ELSE None]
        /\ groups = [g \in Gids |-> IF \E x \in d.groups : gid[x] = g
                       THEN LET x == CHOOSE y \in d.groups : gid[y] = g
                            IN  [name |-> Trim[x.name], sel |-> x.sel] ELSE None]
        /\ assigned = UNION {{<<gid[x], id[k]>> : k \in x.uses} : x \in d.groups}
        /\ files = [i \in Bids |-> IF rows[i] = None THEN None ELSE rows[i].blob]

\* A managed server starts by loading its directory.
Init ==
    /\ managed \in BOOLEAN
    /\ load \in IF managed THEN Managed ELSE Unmanaged
    /\ dir \in Starts
    /\ Loaded(dir)
    /\ jobs = [j \in Jobs |-> Idle]
    /\ due = FALSE
-------------------------------------------------------------------------------
(* Around the server: the directory, the hook, and the process.            *)

Spend(w) == load[w] > 0 /\ load' = [load EXCEPT ![w] = @ - 1]
Goto(j, q) == jobs' = [jobs EXCEPT ![j] = q]

\* A commit is pulled into the directory; the hook posts a reload afterwards.
Publish ==
    /\ Spend("publish")
    /\ \E d \in Dirs \ {dir} : dir' = d
    /\ due' = managed
    /\ jobs' = [j \in Jobs |-> [jobs[j] EXCEPT !.stale = jobs[j].op \in {"reload", "startup"}]]
    /\ UNCHANGED <<managed, rows, groups, assigned, files>>

\* One reload at a time; requests are served once the startup load is over.
Unlocked == \A j \in Jobs : jobs[j].op \notin {"reload", "startup"}

\* POST /api/config-source/reload, from the hook or from an operator.
Reload(j) ==
    /\ managed /\ Unlocked /\ jobs[j].op = "none"
    /\ \/ due /\ UNCHANGED load /\ Goto(j, [Idle EXCEPT !.op = "reload", !.pc = "load"])
       \/ Spend("reload") /\ Goto(j, [Idle EXCEPT !.op = "reload", !.pc = "load"])
       \/ Spend("dry") /\ Goto(j, [Idle EXCEPT !.op = "reload", !.pc = "load", !.dry = TRUE])
    /\ UNCHANGED <<managed, dir, tables, files, due>>

\* --import-config, refused where the directory is in charge, and --export-config.
Command(j) ==
    /\ jobs[j].op = "none"
    /\ \/ ~managed /\ Spend("import") /\ Goto(j, [Idle EXCEPT !.op = "import", !.pc = "load"])
       \/ Spend("export") /\ Goto(j, [Idle EXCEPT !.op = "export", !.pc = "rows"])
    /\ UNCHANGED <<managed, dir, tables, files, due>>

\* The process stops and is started again: startup loads the directory.
Restart(j) ==
    /\ managed /\ Spend("mishap")
    /\ jobs' = [x \in Jobs |-> IF x = j THEN [Idle EXCEPT !.op = "startup", !.pc = "load"] ELSE Idle]
    /\ UNCHANGED <<managed, dir, tables, files, due>>

\* The client goes away and the request with it, or a command is interrupted.
HangUp(j) ==
    /\ jobs[j].op \in {"reload", "import", "export"} /\ Spend("mishap")
    /\ Goto(j, Idle)
    /\ UNCHANGED <<managed, dir, tables, files, due>>
-------------------------------------------------------------------------------
(* reconcile                                                               *)

Reconciling(j, pc) == jobs[j].op \in {"startup", "reload", "import"} /\ jobs[j].pc = pc

\* The outcome is told: a success of the directory as it still is ends the hook's work.
Ended(j, ok) ==
    /\ Goto(j, Idle)
    /\ due' = (due /\ ~(ok /\ jobs[j].op \in {"reload", "startup"} /\ ~jobs[j].dry /\ ~jobs[j].stale))

LoadBundles(j) ==
    /\ Reconciling(j, "load")
    /\ Goto(j, [jobs[j] EXCEPT !.spec.bundles = dir.bundles, !.pc = "loadgroups"])
    /\ UNCHANGED <<managed, dir, tables, files, due, load>>

LoadGroups(j) ==
    LET bs == jobs[j].spec.bundles IN
    /\ Reconciling(j, "loadgroups")
    /\ IF Loads(bs, dir.groups)
       THEN Goto(j, [jobs[j] EXCEPT !.spec.groups = Trimmed(dir.groups), !.pc = "rows"]) /\ UNCHANGED due
       ELSE Ended(j, FALSE)
    /\ UNCHANGED <<managed, dir, tables, files, load>>

\* The three lists, for a reconcile and for an export.
ReadTables(j) ==
    LET q == jobs[j] IN
    /\ \/ q.pc = "rows"   /\ Goto(j, [q EXCEPT !.seen.rows = rows, !.pc = "groups"])
       \/ q.pc = "groups" /\ Goto(j, [q EXCEPT !.seen.groups = groups, !.pc = "assigned"])
       \/ q.pc = "assigned" /\ Goto(j, [q EXCEPT !.seen.assigned = assigned,
                                                  !.pc = IF q.op = "export" THEN "write" ELSE "plan"])
    /\ UNCHANGED <<managed, dir, tables, files, due, load>>

\* As if only the bytes were compared.
SameBytes(i, row, c, readable) == row.blob = Blob(c)

\* unchanged: the bytes are the same, or the files in them are.
Unchanged(i, row, c, readable) ==
    \/ row.blob = Blob(c)
    \/ c.kind = "tree" /\ readable /\ files[i] # None /\ Unzip[files[i]] = c.is

\* Ids nobody has had: of no row, no file and no plan.
FreeBids == {i \in Bids : rows[i] = None /\ files[i] = None
               /\ \A j \in Jobs : jobs[j].seen.rows[i] = None /\ \A k \in Keys : jobs[j].plan.add[k] # i}
FreeGids == {g \in Gids : groups[g] = None
               /\ \A j \in Jobs : jobs[j].seen.groups[g] = None /\ \A n \in Names : jobs[j].plan.named[n] # g}

\* As if a group with another selector were another group.
SameGroupExactly(row, x) == row = [name |-> x.name, sel |-> x.sel]

\* Groups are matched by name, which is what the directory has.
SameGroup(row, x) == row.name = x.name

\* Which rows to keep, and which bundles to add.
Keep(spec, seen, readable) ==
    {i \in RowsIn(seen.rows) :
       LET c == spec.bundles[seen.rows[i].key]
       IN  c # None /\ Unchanged(i, seen.rows[i], c, readable)}
Adding(spec, seen, kept) == Listed(spec.bundles) \ {seen.rows[i].key : i \in kept}

\* Which groups there are already, and which are new.
Known(spec, seen) == {g \in RowsIn(seen.groups) : \E x \in spec.groups : SameGroup(seen.groups[g], x)}
Naming(spec, seen) == {x.name : x \in spec.groups} \ {seen.groups[g].name : g \in Known(spec, seen)}

\* What is kept, what is added under which new id, and the id of every group.
PlanFor(spec, seen, readable) ==
    LET kept == Keep(spec, seen, readable)
        add  == Adding(spec, seen, kept)
        ids  == Injection(add, FreeBids)
        old  == Known(spec, seen)
        new  == Naming(spec, seen)
        gids == Injection(new, FreeGids)
    IN  [kept |-> kept,
         add |-> [k \in Keys |-> IF k \in add THEN ids[k] ELSE None],
         named |-> [n \in Names |->
                      IF n \in new THEN gids[n]
                      ELSE IF \E g \in old : seen.groups[g].name = n
                      THEN CHOOSE g \in old : seen.groups[g].name = n ELSE None]]

\* plan.assignments
Assignments(spec, seen, plan) ==
    LET id(k) == IF plan.add[k] # None THEN plan.add[k]
                 ELSE CHOOSE i \in plan.kept : seen.rows[i].key = k
    IN  UNION {{<<plan.named[x.name], id(k)>> : k \in x.uses} : x \in spec.groups}

\* As if an edited selector were not a change.
ChangedButSelectors(spec, seen, plan) ==
    \/ plan.kept # RowsIn(seen.rows)
    \/ \E k \in Keys : plan.add[k] # None
    \/ {seen.groups[g].name : g \in RowsIn(seen.groups)} # {x.name : x \in spec.groups}
    \/ Assignments(spec, seen, plan) # seen.assigned

\* report.changed
Changed(spec, seen, plan) ==
    \/ plan.kept # RowsIn(seen.rows)
    \/ \E k \in Keys : plan.add[k] # None
    \/ {seen.groups[g] : g \in RowsIn(seen.groups)} # {[name |-> x.name, sel |-> x.sel] : x \in spec.groups}
    \/ Assignments(spec, seen, plan) # seen.assigned

\* From the checks against the tier to the report.  The stored bytes may be unreadable.
Plan(j) ==
    LET q == jobs[j] IN
    /\ Reconciling(j, "plan")
    /\ \/ /\ OverTier(q.spec.bundles) \/ ~Builds(q.spec.bundles)
          /\ Ended(j, FALSE) /\ UNCHANGED load
       \/ /\ ~OverTier(q.spec.bundles) /\ Builds(q.spec.bundles)
          /\ \E readable \in BOOLEAN :
               LET plan == PlanFor(q.spec, q.seen, readable) IN
               /\ readable \/ load["mishap"] > 0
               /\ Enough(Adding(q.spec, q.seen, Keep(q.spec, q.seen, readable)), FreeBids)
               /\ Enough(Naming(q.spec, q.seen), FreeGids)
               /\ load' = IF readable THEN load ELSE [load EXCEPT !["mishap"] = @ - 1]
               /\ IF q.dry \/ ~Changed(q.spec, q.seen, plan) THEN Ended(j, TRUE)
                  ELSE /\ Goto(j, [q EXCEPT !.plan = plan, !.pc = "put", !.blind = ~readable,
                                            !.todo = Listed([k \in Keys |-> plan.add[k]])])
                       /\ UNCHANGED due
    /\ UNCHANGED <<managed, dir, tables, files>>

\* The next file is stored, or is not and all of them are discarded.
Put(j) ==
    LET q == jobs[j] IN
    /\ Reconciling(j, "put")
    /\ \/ /\ q.todo = {}
          /\ Goto(j, [q EXCEPT !.pc = "apply"])
          /\ UNCHANGED <<files, load>>
       \/ \E k \in q.todo :
            \/ /\ files' = [files EXCEPT ![q.plan.add[k]] = Blob(q.spec.bundles[k])]
               /\ Goto(j, [q EXCEPT !.todo = @ \ {k}])
               /\ UNCHANGED load
            \/ /\ Spend("mishap")
               /\ Goto(j, [q EXCEPT !.pc = "discard"])
               /\ UNCHANGED files
    /\ UNCHANGED <<managed, dir, tables, due>>

\* The ids are those the plan was made from.
Expected(j) ==
    /\ RowsIn(rows) = RowsIn(jobs[j].seen.rows)
    /\ RowsIn(groups) = RowsIn(jobs[j].seen.groups)

\* A row the plan keeps has the name of one it adds, or a group another's new name:
\* UNIQUE fails for the bundles; for groups it depends on which is written first.
BundleClash(q) == \E i \in q.plan.kept : rows[i] # None /\ q.plan.add[rows[i].key] # None
GroupClash(q)  == \E n \in Names, g \in RowsIn(groups) :
                    /\ q.plan.named[n] \notin {None, g}
                    /\ groups[g].name = n
                    /\ \E m \in Names : q.plan.named[m] = g

\* As if groups the directory does not have stayed.
GroupsAfterKept(q) ==
    [g \in Gids |->
       IF \E x \in q.spec.groups : q.plan.named[x.name] = g
       THEN LET x == CHOOSE y \in q.spec.groups : q.plan.named[y.name] = g
            IN  [name |-> x.name, sel |-> x.sel]
       ELSE groups[g]]

\* delete_group_ids, and the groups inserted and updated.
GroupsAfter(q) ==
    [g \in Gids |->
       IF \E x \in q.spec.groups : q.plan.named[x.name] = g
       THEN LET x == CHOOSE y \in q.spec.groups : q.plan.named[y.name] = g
            IN  [name |-> x.name, sel |-> x.sel]
       ELSE IF q.seen.groups[g] # None THEN None ELSE groups[g]]

\* delete_bundle_ids, and the bundles inserted.
BundlesAfter(q) ==
    [i \in Bids |->
       IF \E k \in Keys : q.plan.add[k] = i
       THEN LET k == CHOOSE x \in Keys : q.plan.add[x] = i
            IN  [key |-> k, blob |-> Blob(q.spec.bundles[k])]
       ELSE IF i \in RowsIn(q.seen.rows) \ q.plan.kept THEN None ELSE rows[i]]

\* apply, the transaction.
Apply(j) ==
    LET q == jobs[j] IN
    /\ Reconciling(j, "apply")
    /\ Expected(j)
    /\ ~BundleClash(q)
    /\ rows' = BundlesAfter(q)
    /\ groups' = GroupsAfter(q)
    /\ assigned' = Assignments(q.spec, q.seen, q.plan)
    /\ jobs' = [x \in Jobs |-> IF x = j THEN [q EXCEPT !.pc = "cleanup"]
                               ELSE [jobs[x] EXCEPT !.calm = jobs[x].op # "export"]]
    /\ UNCHANGED <<managed, dir, files, due, load>>

\* The transaction is rolled back: the ids moved, or a statement fails.
ApplyFails(j) ==
    LET q == jobs[j] IN
    /\ Reconciling(j, "apply")
    /\ \/ /\ ~Expected(j) \/ BundleClash(q) \/ GroupClash(q)
          /\ UNCHANGED load
       \/ Spend("mishap")
    /\ Goto(j, [q EXCEPT !.pc = "discard"])
    /\ UNCHANGED <<managed, dir, tables, files, due>>

\* As if after a failure too the files went that would have been replaced.
DiscardReplaced(j) ==
    /\ Reconciling(j, "discard") \/ Reconciling(j, "cleanup")
    /\ files' = [i \in Bids |-> IF i \in RowsIn(jobs[j].seen.rows) \ jobs[j].plan.kept
                               THEN None ELSE files[i]]
    /\ Ended(j, jobs[j].pc = "cleanup")
    /\ UNCHANGED <<managed, dir, tables, load>>

\* The files are deleted that nothing refers to: after a failure those that were
\* stored for it, after the commit those of the rows replaced.  Some may stay.
Discard(j) ==
    LET q    == jobs[j]
        gone == IF q.pc = "discard" THEN {q.plan.add[k] : k \in Keys} \ {None}
                ELSE RowsIn(q.seen.rows) \ q.plan.kept
    IN  /\ Reconciling(j, "discard") \/ Reconciling(j, "cleanup")
        /\ \/ files' = [i \in Bids |-> IF i \in gone THEN None ELSE files[i]] /\ UNCHANGED load
           \/ Spend("mishap") /\ UNCHANGED files
        /\ Ended(j, q.pc = "cleanup")
        /\ UNCHANGED <<managed, dir, tables>>
-------------------------------------------------------------------------------
(* export                                                                  *)

\* A stored bundle as it is written: encrypted as it is, as a tree if that loads
\* back, and as the zip otherwise.
Written(b) ==
    IF b \in Sealed THEN [kind |-> "nseb", is |-> b]
    ELSE IF TreeReads(Unzip[b]) THEN [kind |-> "tree", is |-> Unzip[b]]
    ELSE [kind |-> "zip", is |-> b]

\* As if an assignment to a bundle that was not listed were written too.
GroupFilesUnfiltered(seen) ==
    {[name |-> seen.groups[g].name, sel |-> seen.groups[g].sel,
      uses |-> {IF seen.rows[a[2]] # None THEN seen.rows[a[2]].key ELSE CHOOSE k \in Keys :
                    \A i \in RowsIn(seen.rows) : seen.rows[i].key # k
                  : a \in {x \in seen.assigned : x[1] = g}}] : g \in RowsIn(seen.groups)}

\* One file a group, with the bundles assigned that were listed.
GroupFiles(seen) ==
    {[name |-> seen.groups[g].name, sel |-> seen.groups[g].sel,
      uses |-> {seen.rows[a[2]].key : a \in {x \in seen.assigned : x[1] = g /\ seen.rows[x[2]] # None}}]
        : g \in RowsIn(seen.groups)}

\* Every bundle listed is read from the store, which ends the export if it is gone.
ExportWrite(j) ==
    LET q == jobs[j] IN
    /\ q.op = "export" /\ q.pc = "write"
    /\ IF \A i \in RowsIn(q.seen.rows) : files[i] # None
       THEN Goto(j, [q EXCEPT !.pc = "written", !.spec =
                       [bundles |-> [k \in Keys |->
                           IF \E i \in RowsIn(q.seen.rows) : q.seen.rows[i].key = k
                           THEN Written(files[CHOOSE i \in RowsIn(q.seen.rows) : q.seen.rows[i].key = k])
                           ELSE None],
                        groups |-> GroupFiles(q.seen)]])
       ELSE Goto(j, Idle)
    /\ UNCHANGED <<managed, dir, tables, files, due, load>>

ExportDone(j) ==
    /\ jobs[j].op = "export" /\ jobs[j].pc = "written"
    /\ Goto(j, Idle)
    /\ UNCHANGED <<managed, dir, tables, files, due, load>>
-------------------------------------------------------------------------------
(* The API, which refuses while the directory is in charge.                *)

Edit ==
    /\ ~managed /\ Spend("edit")
    /\ jobs' = [j \in Jobs |-> [jobs[j] EXCEPT !.calm = jobs[j].op # "export"]]
    /\ UNCHANGED <<managed, dir, due>>

Upload(k, b) ==
    /\ Edit
    /\ \A i \in RowsIn(rows) : rows[i].key # k
    /\ Cardinality(RowsIn(rows)) < MaxBundles
    /\ FreeBids # {}
    /\ LET i == CHOOSE x \in FreeBids : TRUE
       IN  /\ rows' = [rows EXCEPT ![i] = [key |-> k, blob |-> b]]
           /\ files' = [files EXCEPT ![i] = b]
    /\ UNCHANGED <<groups, assigned>>

\* As if the assignments stayed.
DeleteBundleAlone(i) ==
    /\ Edit
    /\ rows[i] # None
    /\ rows' = [rows EXCEPT ![i] = None]
    /\ files' = [files EXCEPT ![i] = None]
    /\ UNCHANGED <<groups, assigned>>

DeleteBundle(i) ==
    /\ Edit
    /\ rows[i] # None
    /\ rows' = [rows EXCEPT ![i] = None]
    /\ assigned' = {a \in assigned : a[2] # i}
    /\ files' = [files EXCEPT ![i] = None]
    /\ UNCHANGED groups

RenameBundle(i, k) ==
    /\ Edit
    /\ rows[i] # None /\ \A x \in RowsIn(rows) : rows[x].key # k
    /\ rows' = [rows EXCEPT ![i].key = k]
    /\ UNCHANGED <<groups, assigned, files>>

CreateGroup(n, s) ==
    /\ Edit
    /\ \A g \in RowsIn(groups) : groups[g].name # n
    /\ FreeGids # {}
    /\ groups' = [groups EXCEPT ![CHOOSE g \in FreeGids : TRUE] = [name |-> n, sel |-> s]]
    /\ UNCHANGED <<rows, assigned, files>>

PatchGroup(g, n, s) ==
    /\ Edit
    /\ groups[g] # None /\ \A x \in RowsIn(groups) \ {g} : groups[x].name # n
    /\ groups' = [groups EXCEPT ![g] = [name |-> n, sel |-> s]]
    /\ UNCHANGED <<rows, assigned, files>>

\* The foreign key keeps a group that has assignments.
DeleteGroup(g) ==
    /\ Edit
    /\ groups[g] # None /\ \A a \in assigned : a[1] # g
    /\ groups' = [groups EXCEPT ![g] = None]
    /\ UNCHANGED <<rows, assigned, files>>

Assign(g, i) ==
    /\ Edit
    /\ groups[g] # None /\ rows[i] # None
    /\ assigned' = IF <<g, i>> \in assigned THEN assigned \ {<<g, i>>} ELSE assigned \cup {<<g, i>>}
    /\ UNCHANGED <<rows, groups, files>>
-------------------------------------------------------------------------------
Step(j) ==
    \/ LoadBundles(j) \/ LoadGroups(j) \/ ReadTables(j) \/ Plan(j) \/ Put(j)
    \/ Apply(j) \/ ApplyFails(j) \/ Discard(j) \/ ExportWrite(j) \/ ExportDone(j)

Next ==
    \/ Publish
    \/ \E j \in Jobs : Reload(j) \/ Command(j) \/ Restart(j) \/ HangUp(j) \/ Step(j)
    \/ \E k \in Keys, b \in Blobs : Upload(k, b)
    \/ \E i \in Bids : DeleteBundle(i) \/ \E k \in Keys : RenameBundle(i, k)
    \/ \E n \in Names, s \in Sels : CreateGroup(n, s) \/ \E g \in Gids : PatchGroup(g, n, s)
    \/ \E g \in Gids : DeleteGroup(g) \/ \E i \in Bids : Assign(g, i)

Spec == Init /\ [][Next]_vars

\* What was started gets on, and the hook tries again until a reload succeeds.
FairSpec ==
    /\ Spec
    /\ \A j \in Jobs : WF_vars(Step(j))
    /\ WF_vars(\E j \in Jobs : due /\ Reload(j))
-------------------------------------------------------------------------------
\* reconcile.rs: "a row is never visible without its file", whatever fails, stops or
\* is planned at the same time.
RowsHaveBytes == \A i \in RowsIn(rows) : files[i] = rows[i].blob

\* A plan that is applied makes the tables what was read from the directory, even if
\* they changed since it was made; except that a bundle renamed in place in the
\* meantime, which keeps its id, keeps its new name.
AppliesWhole ==
    [][\A j \in Jobs :
         (jobs[j].pc = "apply" /\ jobs'[j].pc = "cleanup"
            /\ \A i \in jobs[j].plan.kept : rows[i] = jobs[j].seen.rows[i])
            => Matches(Shown', jobs[j].spec)]_vars

\* What the directory did not change keeps its id, so that agents do not download it
\* again: a bundle with the same files, unless they could not be read, and a group.
IdsSurvive ==
    [][\A j \in Jobs :
         (jobs[j].pc = "apply" /\ jobs'[j].pc = "cleanup" /\ ~jobs[j].blind)
            => /\ \A i \in RowsIn(rows) :
                    LET c == jobs[j].spec.bundles[rows[i].key]
                    IN  (/\ rows[i] = jobs[j].seen.rows[i] /\ c # None
                         /\ rows[i].blob = Blob(c) \/ (c.kind = "tree" /\ Unzip[rows[i].blob] = c.is))
                          => rows'[i] = rows[i]
               /\ \A g \in RowsIn(groups) :
                    groups[g] = jobs[j].seen.groups[g] =>
                      \A x \in jobs[j].spec.groups : x.name = groups[g].name => groups'[g] # None]_vars

\* An export loads, whatever was edited while it was made, as long as no two of its
\* groups have names the loader reads alike.
ExportLoads ==
    \A j \in Jobs : jobs[j].pc = "written" =>
        LET d == jobs[j].spec IN
        (\A g \in d.groups : Trim[g.name] = g.name) => Loads(d.bundles, d.groups) /\ Builds(d.bundles)

\* Reconciling what was exported changes nothing.
Returns(j) ==
    LET q    == jobs[j]
        now  == [rows |-> rows, groups |-> groups, assigned |-> assigned]
        spec == [q.spec EXCEPT !.groups = Trimmed(@)]
    IN  /\ Loads(q.spec.bundles, q.spec.groups) /\ Builds(q.spec.bundles)
        /\ ~Changed(spec, now, PlanFor(spec, now, TRUE))

\* export.rs, "reconciling an export against the database it came from changes
\* nothing", where every group's name is one the loader leaves alone.
ExportReturns ==
    \A j \in Jobs :
        (/\ jobs[j].pc = "written" /\ jobs[j].calm
         /\ \A g \in RowsIn(groups) : Trim[groups[g].name] = groups[g].name) => Returns(j)

\* The same of every export, as export.rs says it.
ExportReturnsAlways == \A j \in Jobs : jobs[j].pc = "written" /\ jobs[j].calm => Returns(j)

\* A reload that succeeded on the directory as it is leaves the tables matching it,
\* until the directory changes.
AnsweredMatches ==
    managed /\ ~due => Matches(Shown, [dir EXCEPT !.groups = Trimmed(@)])

\* A directory that loads and is left alone is in the end what the tables hold,
\* whatever restarts, failures and hang-ups there were.
Follows ==
    \A d \in {x \in Dirs : /\ Loads(x.bundles, x.groups) /\ Builds(x.bundles)
                           /\ Cardinality(Listed(x.bundles)) <= MaxBundles} :
        <>[](managed /\ dir = d) => <>[]Matches(Shown, [d EXCEPT !.groups = Trimmed(@)])
===============================================================================
