-------------------------- MODULE ConfigSourceProofs --------------------------
(***************************************************************************)
(* Proofs about ConfigSource, for any directories, tables, jobs, failures  *)
(* and restarts: rows keep their bytes and the tables their types, a plan  *)
(* that is applied makes the tables the directory it was made for and      *)
(* keeps the ids it can, a managed server that has answered a reload holds *)
(* the directory, and what was exported loads and returns.                 *)
(*                                                                         *)
(* The argument: a plan is right about the lists it was made from          *)
(* (PlanOK), the transaction applies it only if the ids are still those of *)
(* the lists, and nobody has an id that a pending plan is going to use     *)
(* (Apart).  Files are therefore written and deleted where no row is.      *)
(***************************************************************************)
EXTENDS ConfigSource, TLAPS

Pending == {"put", "apply", "discard"}
Planned == Pending \cup {"cleanup"}

\* b is a way to store c.
Same(b, c) == b = Blob(c) \/ (c.kind = "tree" /\ Unzip[b] = c.is)

\* Lists as the tables were.
SeenOK(seen) ==
    /\ \A i, j \in RowsIn(seen.rows) : seen.rows[i].key = seen.rows[j].key => i = j
    /\ \A g, h \in RowsIn(seen.groups) : seen.groups[g].name = seen.groups[h].name => g = h

\* A directory that loaded.
SpecOK(spec) ==
    /\ \A x, y \in spec.groups : x.name = y.name => x = y
    /\ \A x \in spec.groups : x.uses \subseteq Listed(spec.bundles)

\* A plan keeps what the directory has, adds the rest under new ids, and gives every
\* group the id it had or a new one.
Keeps(spec, seen, plan) ==
    /\ plan.kept \subseteq RowsIn(seen.rows)
    /\ \A i \in plan.kept : /\ seen.rows[i].key \in Listed(spec.bundles)
                            /\ Same(seen.rows[i].blob, spec.bundles[seen.rows[i].key])
AddsRest(spec, seen, plan) ==
    /\ \A k \in Keys : plan.add[k] # None
                         <=> k \in Listed(spec.bundles) /\ \A i \in plan.kept : seen.rows[i].key # k
    /\ \A k, m \in Keys : plan.add[k] = plan.add[m] => k = m \/ plan.add[k] = None
    /\ \A k \in Keys : plan.add[k] # None => seen.rows[plan.add[k]] = None
NamesAll(spec, seen, plan) ==
    /\ \A n \in Names : plan.named[n] # None <=> \E x \in spec.groups : x.name = n
    /\ \A n, m \in Names : plan.named[n] = plan.named[m] => n = m \/ plan.named[n] = None
    /\ \A g \in RowsIn(seen.groups) : plan.named[seen.groups[g].name] \in {g, None}
PlanOK(spec, seen, plan) ==
    Keeps(spec, seen, plan) /\ AddsRest(spec, seen, plan) /\ NamesAll(spec, seen, plan)

\* What a job knows by itself.
JobOK(q) ==
    /\ SeenOK(q.seen)
    /\ q.op = "none" => q.pc = "idle"
    /\ q.op = "export" => q.pc \in {"rows", "groups", "assigned", "write", "written"}
    /\ q.op # "export" => q.pc \notin {"write", "written"}
    /\ q.op # "export" /\ q.pc \notin {"idle", "load", "loadgroups"} => SpecOK(q.spec)
    /\ q.pc \in Planned => PlanOK(q.spec, q.seen, q.plan)
    /\ q.pc \notin Planned => q.plan = NoPlan
    /\ q.pc = "apply" => q.todo = {}

\* And about the tables: the files it has put are there, it keeps what it can, what it
\* replaced is gone, and no other bytes have come under the ids it saw.
Stored(q, F) ==
    q.pc \in {"put", "apply"} =>
        \A k \in Keys \ q.todo : q.plan.add[k] # None => F[q.plan.add[k]] = Blob(q.spec.bundles[k])
KeepsAll(q, R) ==
    q.pc \in {"put", "apply"} /\ ~q.blind =>
        \A i \in Bids :
            (/\ R[i] # None /\ q.seen.rows[i] # None
             /\ q.seen.rows[i].key \in Listed(q.spec.bundles)
             /\ Same(q.seen.rows[i].blob, q.spec.bundles[q.seen.rows[i].key])) => i \in q.plan.kept
Replaced(q, R) ==
    q.pc = "cleanup" => \A i \in RowsIn(q.seen.rows) \ q.plan.kept : R[i] = None
SeenBytes(q, F) ==
    \A i \in RowsIn(q.seen.rows) : F[i] \in {None, q.seen.rows[i].blob}
TablesOK(q, R, F) == Stored(q, F) /\ KeepsAll(q, R) /\ Replaced(q, R) /\ SeenBytes(q, F)

\* The ids a plan adds.
Adds(q) == {q.plan.add[k] : k \in Keys} \ {None}

\* A pending plan has its ids to itself.
Apart(R, J) ==
    /\ \A j \in Jobs : J[j].pc \in Pending =>
         \A i \in Adds(J[j]) : R[i] = None /\ \A x \in Jobs : J[x].seen.rows[i] = None
    /\ \A j, x \in Jobs : j # x => Adds(J[j]) \cap Adds(J[x]) = {}

JobsOK == \A j \in Jobs : JobOK(jobs[j]) /\ TablesOK(jobs[j], rows, files)
IInv   == TypeOK /\ RowsHaveBytes /\ JobsOK /\ Apart(rows, jobs)
-------------------------------------------------------------------------------
(* Ids, rows and plans.                                                    *)

LEMMA InjectionIs ==
    ASSUME NEW S, NEW T, Enough(S, T)
    PROVE  /\ Injection(S, T) \in [S -> T]
           /\ \A x, y \in S : Injection(S, T)[x] = Injection(S, T)[y] => x = y
BY DEF Enough, Injection, Injections

\* None is nothing that a table, a plan or a directory holds.
LEMMA NoneIsNone ==
    /\ None \notin Keys /\ None \notin Bids /\ None \notin Gids /\ None \notin Blobs
    /\ None \notin BundleRow /\ None \notin GroupRow /\ None \notin Content /\ None \notin Trees
BY NoneAssumption

LEMMA RowsInIs ==
    /\ \A t \in [Bids -> BundleRow \cup {None}] : RowsIn(t) = {i \in Bids : t[i] # None}
    /\ \A t \in [Gids -> GroupRow \cup {None}] : RowsIn(t) = {g \in Gids : t[g] # None}
BY DEF RowsIn

LEMMA BlobIs == \A c \in Content : Blob(c) \in Blobs
BY FilesAssumption DEF Content, Blob

LEMMA FreeIds ==
    /\ FreeBids \subseteq Bids /\ FreeGids \subseteq Gids
    /\ \A i \in FreeBids : /\ rows[i] = None /\ files[i] = None
                           /\ \A j \in Jobs : jobs[j].seen.rows[i] = None /\ i \notin Adds(jobs[j])
    /\ \A g \in FreeGids : groups[g] = None /\ \A j \in Jobs : jobs[j].seen.groups[g] = None
BY DEF FreeBids, FreeGids, Adds

LEMMA IdleOK == Idle \in Job /\ JobOK(Idle) /\ \A R, F : TablesOK(Idle, R, F)
<1>1. Idle \in Job
  BY DEF Job, Tables, Plans, Idle, Directory, NoPlan, NoSeen, NoDir
<1>2. SeenOK(Idle.seen) /\ RowsIn(Idle.seen.rows) = {}
  BY DEF SeenOK, Idle, NoSeen, RowsIn
<1>3. JobOK(Idle)
  BY <1>2 DEF JobOK, Idle, Planned, Pending
<1>4. ASSUME NEW R, NEW F PROVE TablesOK(Idle, R, F)
  BY <1>2 DEF TablesOK, Stored, KeepsAll, Replaced, SeenBytes, Idle
<1> QED  BY <1>1, <1>3, <1>4

-------------------------------------------------------------------------------
(* What PlanFor makes is a plan, whatever else runs.                       *)

LEMMA PlanForIs ==
    ASSUME NEW spec \in Directory, NEW seen \in Tables, NEW readable \in BOOLEAN, NEW kept, NEW add, NEW new,
           kept = Keep(spec, seen, readable), add = Adding(spec, seen, kept), new = Naming(spec, seen),
           Enough(add, FreeBids), Enough(new, FreeGids), NEW plan, plan = PlanFor(spec, seen, readable)
    PROVE  /\ plan.kept = kept
           /\ \A k \in add : plan.add[k] \in FreeBids
           /\ \A k \in Keys \ add : plan.add[k] = None
           /\ \A k, m \in add : plan.add[k] = plan.add[m] => k = m
           /\ \A n \in new : plan.named[n] \in FreeGids
           /\ \A n, m \in new : plan.named[n] = plan.named[m] => n = m
           /\ \A n \in Names \ new :
                IF \E g \in Known(spec, seen) : seen.groups[g].name = n
                THEN plan.named[n] \in Known(spec, seen) /\ seen.groups[plan.named[n]].name = n
                ELSE plan.named[n] = None
           /\ plan \in Plans
           /\ add \subseteq Keys /\ new \subseteq Names
<1>1. add \subseteq Keys /\ kept \subseteq Bids
  BY RowsInIs DEF Adding, Listed, Keep, Tables
<1>2. new \subseteq Names
  BY DEF Naming, Directory, GroupFile
<1>3. Known(spec, seen) \subseteq Gids
  BY RowsInIs DEF Known, Tables
<1>4. PICK ids : ids = Injection(add, FreeBids)  OBVIOUS
<1>5. PICK gids : gids = Injection(new, FreeGids)  OBVIOUS
<1>6. ids \in [add -> FreeBids] /\ \A x, y \in add : ids[x] = ids[y] => x = y
  BY <1>4, InjectionIs
<1>7. gids \in [new -> FreeGids] /\ \A x, y \in new : gids[x] = gids[y] => x = y
  BY <1>5, InjectionIs
<1>8. plan = [kept |-> kept,
              add |-> [k \in Keys |-> IF k \in add THEN ids[k] ELSE None],
              named |-> [n \in Names |->
                           IF n \in new THEN gids[n]
                           ELSE IF \E g \in Known(spec, seen) : seen.groups[g].name = n
                           THEN CHOOSE g \in Known(spec, seen) : seen.groups[g].name = n ELSE None]]
  BY <1>4, <1>5 DEF PlanFor
<1>9. \A n \in Names \ new :
        IF \E g \in Known(spec, seen) : seen.groups[g].name = n
        THEN plan.named[n] \in Known(spec, seen) /\ seen.groups[plan.named[n]].name = n
        ELSE plan.named[n] = None
  <2> TAKE n \in Names \ new
  <2>1. CASE \E g \in Known(spec, seen) : seen.groups[g].name = n
    <3>1. PICK c : c = CHOOSE g \in Known(spec, seen) : seen.groups[g].name = n
      OBVIOUS
    <3>2. c \in Known(spec, seen) /\ seen.groups[c].name = n
      BY <2>1, <3>1
    <3>3. plan.named = [m \in Names |->
                           IF m \in new THEN gids[m]
                           ELSE IF \E g \in Known(spec, seen) : seen.groups[g].name = m
                           THEN CHOOSE g \in Known(spec, seen) : seen.groups[g].name = m ELSE None]
      BY <1>8
    <3>4. plan.named[n] = CHOOSE g \in Known(spec, seen) : seen.groups[g].name = n
      BY <2>1, <3>3, Zenon
    <3> QED  BY <3>1, <3>2, <3>4, Zenon
  <2>2. CASE ~\E g \in Known(spec, seen) : seen.groups[g].name = n
    BY <1>8, <2>2
  <2> QED  BY <2>1, <2>2
<1>10. /\ plan.kept = kept
       /\ \A k \in add : plan.add[k] = ids[k]
       /\ \A k \in Keys \ add : plan.add[k] = None
       /\ \A n \in new : plan.named[n] = gids[n]
       /\ DOMAIN plan.add = Keys /\ DOMAIN plan.named = Names
       /\ plan = [kept |-> plan.kept, add |-> plan.add, named |-> plan.named]
       /\ plan.add = [k \in Keys |-> plan.add[k]] /\ plan.named = [n \in Names |-> plan.named[n]]
  BY <1>8, <1>1, <1>2
<1>11. plan.add \in [Keys -> Bids \cup {None}]
  BY <1>10, <1>6, FreeIds
<1>12. plan.named \in [Names -> Gids \cup {None}]
  <2>1. \A n \in Names : plan.named[n] \in Gids \cup {None}
    <3> TAKE n \in Names
    <3>1. CASE n \in new  BY <3>1, <1>10, <1>7, FreeIds
    <3>2. CASE n \notin new  BY <3>2, <1>9, <1>3
    <3> QED  BY <3>1, <3>2
  <2> QED  BY <2>1, <1>10
<1>13. plan \in Plans
  BY <1>10, <1>11, <1>12, <1>1 DEF Plans
<1>14. /\ \A k \in add : plan.add[k] \in FreeBids
       /\ \A k, m \in add : plan.add[k] = plan.add[m] => k = m
       /\ \A n \in new : plan.named[n] \in FreeGids
       /\ \A n, m \in new : plan.named[n] = plan.named[m] => n = m
  BY <1>6, <1>7, <1>10
<1> QED  BY <1>1, <1>2, <1>9, <1>10, <1>13, <1>14

LEMMA PlanForOK ==
    ASSUME NEW spec \in Directory, NEW seen \in Tables, NEW readable \in BOOLEAN, NEW j \in Jobs,
           SpecOK(spec), SeenOK(seen), jobs[j].seen = seen,
           \A i \in RowsIn(seen.rows) : files[i] \in {None, seen.rows[i].blob},
           Enough(Adding(spec, seen, Keep(spec, seen, readable)), FreeBids), Enough(Naming(spec, seen), FreeGids)
    PROVE  LET plan == PlanFor(spec, seen, readable) IN
           /\ plan \in Plans /\ PlanOK(spec, seen, plan)
           /\ \A k \in Keys : plan.add[k] \in FreeBids \cup {None}
           /\ readable => \A i \in RowsIn(seen.rows) :
                (/\ files[i] = seen.rows[i].blob /\ seen.rows[i].key \in Listed(spec.bundles)
                 /\ Same(seen.rows[i].blob, spec.bundles[seen.rows[i].key])) => i \in plan.kept
<1>0. PICK plan : plan = PlanFor(spec, seen, readable)  OBVIOUS
<1>1. PICK kept : kept = Keep(spec, seen, readable)  OBVIOUS
<1>2. PICK add : add = Adding(spec, seen, kept)  OBVIOUS
<1>3. PICK new : new = Naming(spec, seen)  OBVIOUS
<1>4. /\ plan.kept = kept
      /\ \A k \in add : plan.add[k] \in FreeBids
      /\ \A k \in Keys \ add : plan.add[k] = None
      /\ \A k, m \in add : plan.add[k] = plan.add[m] => k = m
      /\ \A n \in new : plan.named[n] \in FreeGids
      /\ \A n, m \in new : plan.named[n] = plan.named[m] => n = m
      /\ \A n \in Names \ new :
           IF \E g \in Known(spec, seen) : seen.groups[g].name = n
           THEN plan.named[n] \in Known(spec, seen) /\ seen.groups[plan.named[n]].name = n
           ELSE plan.named[n] = None
      /\ plan \in Plans
      /\ add \subseteq Keys /\ new \subseteq Names
  BY <1>0, <1>1, <1>2, <1>3, PlanForIs
<1>5. /\ seen.rows \in [Bids -> BundleRow \cup {None}] /\ seen.groups \in [Gids -> GroupRow \cup {None}]
      /\ spec.bundles \in [Keys -> Content \cup {None}] /\ spec.groups \subseteq GroupFile
  BY DEF Tables, Directory
<1>6. RowsIn(seen.rows) = {i \in Bids : seen.rows[i] # None} /\ RowsIn(seen.groups) = {g \in Gids : seen.groups[g] # None}
  BY <1>5, RowsInIs
<1>7. \A i \in RowsIn(seen.rows) : seen.rows[i].key \in Keys /\ seen.rows[i].blob \in Blobs
  BY <1>5, <1>6 DEF BundleRow
<1>8. \A i \in RowsIn(seen.rows) :
        i \in kept <=> /\ spec.bundles[seen.rows[i].key] # None
                       /\ Unchanged(i, seen.rows[i], spec.bundles[seen.rows[i].key], readable)
  BY <1>1 DEF Keep
<1>9. kept \subseteq RowsIn(seen.rows)
  BY <1>1 DEF Keep
<1>10. Keeps(spec, seen, plan)
  <2> SUFFICES ASSUME NEW i \in kept
               PROVE  seen.rows[i].key \in Listed(spec.bundles) /\ Same(seen.rows[i].blob, spec.bundles[seen.rows[i].key])
    BY <1>4, <1>9 DEF Keeps
  <2>1. Unchanged(i, seen.rows[i], spec.bundles[seen.rows[i].key], readable) /\ spec.bundles[seen.rows[i].key] # None
    BY <1>8, <1>9
  <2>2. files[i] # None => files[i] = seen.rows[i].blob
    BY <1>9
  <2> QED  BY <2>1, <2>2, <1>7, <1>9 DEF Unchanged, Same, Listed
<1>11. add = Listed(spec.bundles) \ {seen.rows[i].key : i \in kept}
  BY <1>2 DEF Adding
<1>12. \A i \in FreeBids : i # None /\ seen.rows[i] = None
  BY FreeIds, NoneIsNone
<1>13. AddsRest(spec, seen, plan)
  <2>1. \A k \in Keys : plan.add[k] # None <=> k \in add
    BY <1>4, <1>12
  <2>2. \A k \in Keys : k \in add <=> k \in Listed(spec.bundles) /\ \A i \in plan.kept : seen.rows[i].key # k
    BY <1>11, <1>4
  <2> QED  BY <2>1, <2>2, <1>4, <1>12 DEF AddsRest
<1>14. \A g \in FreeGids : g # None /\ seen.groups[g] = None
  BY FreeIds, NoneIsNone
<1>15. /\ Known(spec, seen) \subseteq RowsIn(seen.groups)
       /\ \A g \in RowsIn(seen.groups) : g \in Known(spec, seen) <=> \E x \in spec.groups : x.name = seen.groups[g].name
  BY DEF Known, SameGroup
<1>16. new = {x.name : x \in spec.groups} \ {seen.groups[g].name : g \in Known(spec, seen)}
  BY <1>3 DEF Naming
<1>17. \A g \in RowsIn(seen.groups) : seen.groups[g].name \in Names /\ g # None /\ g \in Gids
  BY <1>5, <1>6, NoneIsNone DEF GroupRow
<1>18. \A n \in Names : \/ n \in new /\ plan.named[n] \in FreeGids
                        \/ /\ n \notin new /\ plan.named[n] \in Known(spec, seen)
                           /\ seen.groups[plan.named[n]].name = n
                        \/ /\ n \notin new /\ plan.named[n] = None
                           /\ ~\E g \in Known(spec, seen) : seen.groups[g].name = n
  BY <1>4
<1>19. \A n \in Names : plan.named[n] # None <=> \E x \in spec.groups : x.name = n
  <2> TAKE n \in Names
  <2>1. CASE n \in new  BY <2>1, <1>14, <1>16, <1>18
  <2>2. CASE n \notin new
    BY <2>2, <1>15, <1>16, <1>17, <1>18
  <2> QED  BY <2>1, <2>2
<1>20. \A n, m \in Names : plan.named[n] = plan.named[m] => n = m \/ plan.named[n] = None
  <2> TAKE n, m \in Names
  <2>1. CASE n \in new /\ m \in new  BY <2>1, <1>4
  <2>2. CASE n \notin new /\ m \notin new  BY <2>2, <1>18
  <2>3. CASE n \in new /\ m \notin new
    BY <2>3, <1>18, <1>14, <1>15, <1>6
  <2>4. CASE n \notin new /\ m \in new
    BY <2>4, <1>18, <1>14, <1>15, <1>6
  <2> QED  BY <2>1, <2>2, <2>3, <2>4
<1>21. \A g \in RowsIn(seen.groups) : plan.named[seen.groups[g].name] \in {g, None}
  <2> TAKE g \in RowsIn(seen.groups)
  <2>1. CASE g \in Known(spec, seen)
    <3>1. seen.groups[g].name \notin new  BY <2>1, <1>16
    <3>2. plan.named[seen.groups[g].name] \in RowsIn(seen.groups)
          /\ seen.groups[plan.named[seen.groups[g].name]].name = seen.groups[g].name
      BY <3>1, <2>1, <1>15, <1>17, <1>18
    <3> QED  BY <3>2 DEF SeenOK
  <2>2. CASE g \notin Known(spec, seen)
    <3>1. ~\E x \in spec.groups : x.name = seen.groups[g].name  BY <2>2, <1>15
    <3> QED  BY <3>1, <1>19, <1>17
  <2> QED  BY <2>1, <2>2
<1>22. NamesAll(spec, seen, plan)
  BY <1>19, <1>20, <1>21 DEF NamesAll
<1>23. ASSUME readable, NEW i \in RowsIn(seen.rows), files[i] = seen.rows[i].blob, seen.rows[i].key \in Listed(spec.bundles),
              Same(seen.rows[i].blob, spec.bundles[seen.rows[i].key])
       PROVE  i \in plan.kept
  BY <1>4, <1>7, <1>8, <1>23, NoneIsNone DEF Unchanged, Same, Listed
<1>24. \A k \in Keys : plan.add[k] \in FreeBids \cup {None}
  BY <1>4
<1> QED  BY <1>0, <1>4, <1>10, <1>13, <1>22, <1>23, <1>24 DEF PlanOK

-------------------------------------------------------------------------------
(* What a step leaves of what a job knows and of who has which id.         *)

\* Jobs that differ in what no invariant of this part is about.
Alike(p, q) ==
    /\ p.op = q.op /\ p.pc = q.pc /\ p.spec = q.spec /\ p.seen = q.seen
    /\ p.plan = q.plan /\ p.todo = q.todo /\ p.blind = q.blind

LEMMA AlikeOK ==
    ASSUME NEW p, NEW q, Alike(p, q)
    PROVE  /\ JobOK(q) => JobOK(p)
           /\ \A R, F : TablesOK(q, R, F) => TablesOK(p, R, F)
           /\ Adds(p) = Adds(q)
<1>1. JobOK(q) => JobOK(p)
  BY DEF Alike, JobOK
<1>2. ASSUME NEW R, NEW F, TablesOK(q, R, F) PROVE TablesOK(p, R, F)
  BY <1>2 DEF Alike, TablesOK, Stored, KeepsAll, Replaced, SeenBytes
<1>3. Adds(p) = Adds(q)
  BY DEF Alike, Adds
<1> QED  BY <1>1, <1>2, <1>3

\* Files of rows that were seen may go, those of a plan stay, and a row that was seen
\* does not come back.
LEMMA TablesStay ==
    ASSUME NEW q, NEW R, NEW F, NEW R2, NEW F2, TablesOK(q, R, F),
           RowsIn(q.seen.rows) \subseteq Bids,
           \A i \in RowsIn(q.seen.rows) : F2[i] \in {F[i], None},
           q.pc \in {"put", "apply"} => \A i \in Adds(q) : F2[i] = F[i],
           \A i \in Bids : q.seen.rows[i] # None /\ R2[i] # None => R[i] # None
    PROVE  TablesOK(q, R2, F2)
<1>1. Stored(q, F2)
  BY DEF TablesOK, Stored, Adds
<1>2. KeepsAll(q, R2)
  BY DEF TablesOK, KeepsAll
<1>3. Replaced(q, R2)
  BY DEF TablesOK, Replaced, RowsIn
<1>4. SeenBytes(q, F2)
  BY DEF TablesOK, SeenBytes
<1> QED  BY <1>1, <1>2, <1>3, <1>4 DEF TablesOK

\* Plans get ids nobody has, and rows and lists none that a plan has.
Respects(R, J, R2, J2, j, N) ==
    /\ \A x \in Jobs : \A i \in Adds(J2[x]) :
          \/ i \in Adds(J[x]) /\ (J2[x].pc \in Pending => J[x].pc \in Pending)
          \/ x = j /\ i \in N
    /\ \A i \in N : R2[i] = None /\ \A x \in Jobs : J2[x].seen.rows[i] = None /\ i \notin Adds(J[x])
    /\ \A x \in Jobs : Adds(J[x]) \subseteq Bids
    /\ \A x \in Jobs, i \in Bids : J2[x].seen.rows[i] # None => J[x].seen.rows[i] # None \/ R[i] # None
    /\ \A i \in Bids : R2[i] # None =>
          R[i] # None \/ \A x \in Jobs : J2[x].pc \in Pending => i \notin Adds(J[x])

LEMMA ApartStays ==
    ASSUME NEW R, NEW R2, NEW J, NEW J2, NEW j, NEW N, Apart(R, J), Respects(R, J, R2, J2, j, N)
    PROVE  Apart(R2, J2)
<1> USE DEF Respects
<1>1. ASSUME NEW y \in Jobs, J2[y].pc \in Pending, NEW i \in Adds(J2[y])
      PROVE  R2[i] = None /\ \A x \in Jobs : J2[x].seen.rows[i] = None
  <2>1. CASE i \in N  BY <2>1
  <2>2. CASE i \notin N
    <3>1. i \in Adds(J[y]) /\ J[y].pc \in Pending /\ i \in Bids
      BY <1>1, <2>2
    <3>2. R[i] = None /\ \A x \in Jobs : J[x].seen.rows[i] = None
      BY <3>1 DEF Apart
    <3> QED  BY <1>1, <3>1, <3>2
  <2> QED  BY <2>1, <2>2
<1>2. ASSUME NEW y \in Jobs, NEW x \in Jobs, y # x, NEW i \in Adds(J2[y]), i \in Adds(J2[x])
      PROVE  FALSE
  <2>1. Adds(J[y]) \cap Adds(J[x]) = {}
    BY <1>2 DEF Apart
  <2>2. CASE i \in N
    <3>1. i \notin Adds(J[x]) /\ i \notin Adds(J[y])  BY <2>2
    <3> QED  BY <1>2, <3>1
  <2>3. CASE i \notin N
    BY <1>2, <2>1, <2>3
  <2> QED  BY <2>2, <2>3
<1> QED  BY <1>1, <1>2 DEF Apart

LEMMA AddsIs ==
    /\ \A q \in Job : Adds(q) \subseteq Bids /\ RowsIn(q.seen.rows) = {i \in Bids : q.seen.rows[i] # None}
    /\ \A q \in Job : q.plan = NoPlan => Adds(q) = {}
    /\ \A q \in Job : q.pc \notin Planned /\ JobOK(q) => Adds(q) = {}
<1>1. ASSUME NEW q \in Job
      PROVE  Adds(q) \subseteq Bids /\ RowsIn(q.seen.rows) = {i \in Bids : q.seen.rows[i] # None}
  <2>1. q.plan.add \in [Keys -> Bids \cup {None}] /\ q.seen.rows \in [Bids -> BundleRow \cup {None}]
    BY DEF Job, Plans, Tables
  <2> QED  BY <2>1, RowsInIs DEF Adds
<1>2. ASSUME NEW q \in Job, q.plan = NoPlan PROVE Adds(q) = {}
  BY <1>2 DEF Adds, NoPlan
<1> QED  BY <1>1, <1>2 DEF JobOK

\* A step of one job that changes no table and no file.
LEMMA JobMoves ==
    ASSUME IInv, NEW j \in Jobs, NEW q \in Job, NEW N, jobs' = [jobs EXCEPT ![j] = q],
           UNCHANGED <<managed, tables, files>>, dir' \in Dirs, due' \in BOOLEAN, load' \in [Work -> Nat],
           JobOK(q), TablesOK(q, rows, files),
           \A i \in Adds(q) : \/ i \in Adds(jobs[j]) /\ (q.pc \in Pending => jobs[j].pc \in Pending)
                              \/ i \in N,
           N \subseteq FreeBids,
           q.seen.rows \in {jobs[j].seen.rows, rows, Idle.seen.rows}
    PROVE  IInv'
<1> USE DEF IInv
<1>1. TypeOK'
  BY DEF TypeOK, tables
<1>2. RowsHaveBytes'
  BY DEF RowsHaveBytes, tables
<1>3. JobsOK'
  BY DEF JobsOK, tables, TypeOK
<1>4. \A x \in Jobs : jobs'[x] = IF x = j THEN q ELSE jobs[x]
  BY DEF TypeOK
<1>5. \A i \in Bids : q.seen.rows[i] # None => jobs[j].seen.rows[i] # None \/ rows[i] # None
  BY DEF Idle, NoSeen
<1>6. \A i \in N : /\ rows[i] = None /\ i \in Bids
                   /\ \A x \in Jobs : jobs[x].seen.rows[i] = None /\ i \notin Adds(jobs[x])
  BY FreeIds
<1>7. \A x \in Jobs : jobs[x] \in Job
  BY DEF TypeOK
<1>8. Apart(rows, jobs')
  <2>1. PICK J2 : J2 = jobs'  OBVIOUS
  <2>2. \A x \in Jobs : J2[x] = IF x = j THEN q ELSE jobs[x]
    BY <2>1, <1>4
  <2>3. \A x \in Jobs : \A i \in Adds(J2[x]) :
              \/ i \in Adds(jobs[x]) /\ (J2[x].pc \in Pending => jobs[x].pc \in Pending)
              \/ x = j /\ i \in N
    BY <2>2
  <2>4. \A x \in Jobs, i \in Bids : J2[x].seen.rows[i] # None => jobs[x].seen.rows[i] # None \/ rows[i] # None
    BY <2>2, <1>5
  <2>5. \A i \in N : /\ rows[i] = None
                     /\ \A x \in Jobs : J2[x].seen.rows[i] = None /\ i \notin Adds(jobs[x])
    BY <2>4, <1>6
  <2>6. \A x \in Jobs : Adds(jobs[x]) \subseteq Bids
    BY <1>7, AddsIs
  <2>7. Apart(rows, jobs)
    OBVIOUS
  <2>8. \A i \in Bids : rows[i] # None =>
          rows[i] # None \/ \A x \in Jobs : J2[x].pc \in Pending => i \notin Adds(jobs[x])
    OBVIOUS
  <2> HIDE DEF IInv
  <2>9. Respects(rows, jobs, rows, J2, j, N)
    BY <2>3, <2>4, <2>5, <2>6, <2>8 DEF Respects
  <2> QED  BY <2>1, <2>7, <2>9, ApartStays
<1> QED  BY <1>1, <1>2, <1>3, <1>8 DEF tables

\* The work that is left stays a number.
LEMMA SpendOK ==
    ASSUME TypeOK, NEW w \in Work, Spend(w)
    PROVE  load' \in [Work -> Nat]
BY DEF TypeOK, Spend

LEMMA EndedOK ==
    ASSUME IInv, NEW j \in Jobs, Goto(j, Idle),
           UNCHANGED <<managed, tables, files>>, dir' \in Dirs, due' \in BOOLEAN, load' \in [Work -> Nat]
    PROVE  IInv'
<1>1. \A i \in Adds(Idle) : FALSE
  BY DEF Adds, Idle, NoPlan
<1> QED  BY <1>1, IdleOK, JobMoves DEF Goto

\* A job that has just begun.
Begins(q) ==
    \/ \E op \in {"startup", "reload", "import"} : q = [Idle EXCEPT !.op = op, !.pc = "load"]
    \/ q = [Idle EXCEPT !.op = "reload", !.pc = "load", !.dry = TRUE]
    \/ q = [Idle EXCEPT !.op = "export", !.pc = "rows"]

LEMMA Begun ==
    ASSUME NEW q, Begins(q)
    PROVE  /\ q \in Job /\ JobOK(q) /\ (\A R, F : TablesOK(q, R, F)) /\ Adds(q) = {}
           /\ q.seen.rows = Idle.seen.rows
<1>1. q \in Job
  <2>1. PICK i \in Job : i = Idle
    BY IdleOK
  <2>2. CASE \E op \in {"startup", "reload", "import"} : q = [i EXCEPT !.op = op, !.pc = "load"]
    BY <2>1, <2>2 DEF Job
  <2>3. CASE q = [i EXCEPT !.op = "reload", !.pc = "load", !.dry = TRUE]
    BY <2>1, <2>3 DEF Job
  <2>4. CASE q = [i EXCEPT !.op = "export", !.pc = "rows"]
    BY <2>1, <2>4 DEF Job
  <2> QED  BY <2>1, <2>2, <2>3, <2>4 DEF Begins
<1>2. q.seen = Idle.seen /\ q.plan = NoPlan /\ q.pc \in {"load", "rows"}
  BY DEF Idle, Begins
<1>3. SeenOK(q.seen) /\ RowsIn(q.seen.rows) = {}
  BY <1>2 DEF SeenOK, Idle, NoSeen, RowsIn
<1>4. JobOK(q)
  BY <1>2, <1>3 DEF JobOK, Idle, Begins, Planned, Pending
<1>5. ASSUME NEW R, NEW F PROVE TablesOK(q, R, F)
  BY <1>2, <1>3 DEF TablesOK, Stored, KeepsAll, Replaced, SeenBytes
<1> QED  BY <1>1, <1>2, <1>4, <1>5, AddsIs

LEMMA BeginOK ==
    ASSUME IInv, NEW j \in Jobs, NEW q, Goto(j, q),
           UNCHANGED <<managed, dir, tables, files, due>>, load' \in [Work -> Nat], Begins(q)
    PROVE  IInv'
<1>1. /\ q \in Job /\ JobOK(q) /\ TablesOK(q, rows, files) /\ (\A i \in Adds(q) : FALSE)
      /\ q.seen.rows = Idle.seen.rows
  BY Begun
<1>2. dir' \in Dirs /\ due' \in BOOLEAN
  BY DEF IInv, TypeOK
<1> QED  BY <1>1, <1>2, JobMoves DEF Goto

LEMMA ReloadStep ==
    ASSUME IInv, NEW j \in Jobs, Reload(j)
    PROVE  IInv'
<1>1. load' \in [Work -> Nat]
  BY SpendOK DEF Reload, IInv, TypeOK, Work
<1>2. ASSUME Goto(j, [Idle EXCEPT !.op = "reload", !.pc = "load"]) PROVE IInv'
  <2>1. PICK q : q = [Idle EXCEPT !.op = "reload", !.pc = "load"]  OBVIOUS
  <2>2. Begins(q)  BY <2>1 DEF Begins
  <2> QED  BY <1>1, <1>2, <2>1, <2>2, BeginOK DEF Reload
<1>3. ASSUME Goto(j, [Idle EXCEPT !.op = "reload", !.pc = "load", !.dry = TRUE]) PROVE IInv'
  <2>1. PICK q : q = [Idle EXCEPT !.op = "reload", !.pc = "load", !.dry = TRUE]  OBVIOUS
  <2>2. Begins(q)  BY <2>1 DEF Begins
  <2> QED  BY <1>1, <1>3, <2>1, <2>2, BeginOK DEF Reload
<1> QED  BY <1>2, <1>3 DEF Reload

LEMMA CommandStep ==
    ASSUME IInv, NEW j \in Jobs, Command(j)
    PROVE  IInv'
<1>1. load' \in [Work -> Nat]
  BY SpendOK DEF Command, IInv, Work
<1>2. ASSUME Goto(j, [Idle EXCEPT !.op = "import", !.pc = "load"]) PROVE IInv'
  <2>1. PICK q : q = [Idle EXCEPT !.op = "import", !.pc = "load"]  OBVIOUS
  <2>2. Begins(q)  BY <2>1 DEF Begins
  <2> QED  BY <1>1, <1>2, <2>1, <2>2, BeginOK DEF Command
<1>3. ASSUME Goto(j, [Idle EXCEPT !.op = "export", !.pc = "rows"]) PROVE IInv'
  <2>1. PICK q : q = [Idle EXCEPT !.op = "export", !.pc = "rows"]  OBVIOUS
  <2>2. Begins(q)  BY <2>1 DEF Begins
  <2> QED  BY <1>1, <1>3, <2>1, <2>2, BeginOK DEF Command
<1> QED  BY <1>2, <1>3 DEF Command

LEMMA HangUpStep ==
    ASSUME IInv, NEW j \in Jobs, HangUp(j)
    PROVE  IInv'
<1>1. load' \in [Work -> Nat]
  BY SpendOK DEF HangUp, IInv, Work
<1> QED  BY <1>1, EndedOK DEF HangUp, IInv, TypeOK

LEMMA LoadBundlesStep ==
    ASSUME IInv, NEW j \in Jobs, LoadBundles(j)
    PROVE  IInv'
<1> DEFINE q == [jobs[j] EXCEPT !.spec.bundles = dir.bundles, !.pc = "loadgroups"]
<1>1. jobs[j] \in Job /\ JobOK(jobs[j]) /\ TablesOK(jobs[j], rows, files) /\ dir \in Directory
  BY DirsAssumption DEF IInv, TypeOK, JobsOK
<1>2. jobs[j].op \in {"startup", "reload", "import"} /\ jobs[j].pc = "load"
  BY DEF LoadBundles, Reconciling
<1>3. PICK p : p = q  OBVIOUS
<1>4. /\ p.pc = "loadgroups" /\ p.op = jobs[j].op /\ p.seen = jobs[j].seen /\ p.plan = jobs[j].plan
      /\ p \in Job
  BY <1>1, <1>3 DEF Job, Directory
<1>5. JobOK(p) /\ p.plan = NoPlan
  BY <1>1, <1>2, <1>4 DEF JobOK, Planned, Pending
<1>6. TablesOK(p, rows, files)
  BY <1>1, <1>4 DEF TablesOK, Stored, KeepsAll, Replaced, SeenBytes
<1>7. Goto(j, p) /\ UNCHANGED <<managed, dir, tables, files, due, load>>
  BY <1>3 DEF LoadBundles
<1>8. dir' \in Dirs /\ due' \in BOOLEAN /\ load' \in [Work -> Nat]
  BY <1>7 DEF IInv, TypeOK
<1>9. \A i \in Adds(p) : FALSE
  BY <1>4, <1>5, AddsIs
<1> QED  BY <1>4, <1>5, <1>6, <1>7, <1>8, <1>9, JobMoves DEF Goto

\* What the loader has taken is a directory the tables can hold.
LEMMA TrimmedOK ==
    ASSUME NEW bs, NEW gs, gs \subseteq GroupFile, Loads(bs, gs)
    PROVE  /\ Trimmed(gs) \subseteq GroupFile
           /\ \A x, y \in Trimmed(gs) : x.name = y.name => x = y
           /\ \A x \in Trimmed(gs) : x.uses \subseteq Listed(bs)
<1>1. \A g \in gs : Trim[g.name] \in Names
  BY FilesAssumption DEF GroupFile
<1>2. \A x \in Trimmed(gs) : \E g \in gs : x = [name |-> Trim[g.name], sel |-> g.sel, uses |-> g.uses]
  BY DEF Trimmed, GroupFile
<1>3. Trimmed(gs) \subseteq GroupFile
  BY <1>1, <1>2 DEF GroupFile
<1>4. ASSUME NEW x \in Trimmed(gs), NEW y \in Trimmed(gs), x.name = y.name PROVE x = y
  BY <1>2, <1>4 DEF Loads, GroupsLoad
<1>5. \A x \in Trimmed(gs) : x.uses \subseteq Listed(bs)
  BY <1>2 DEF Loads
<1> QED  BY <1>3, <1>4, <1>5

LEMMA LoadGroupsStep ==
    ASSUME IInv, NEW j \in Jobs, LoadGroups(j)
    PROVE  IInv'
<1> DEFINE bs == jobs[j].spec.bundles
           q  == [jobs[j] EXCEPT !.spec.groups = Trimmed(dir.groups), !.pc = "rows"]
<1>1. jobs[j] \in Job /\ JobOK(jobs[j]) /\ TablesOK(jobs[j], rows, files) /\ dir \in Directory
  BY DirsAssumption DEF IInv, TypeOK, JobsOK
<1>2. jobs[j].op \in {"startup", "reload", "import"} /\ jobs[j].pc = "loadgroups"
  BY DEF LoadGroups, Reconciling
<1>3. UNCHANGED <<managed, dir, tables, files, load>> /\ dir' \in Dirs /\ load' \in [Work -> Nat]
  BY DEF LoadGroups, IInv, TypeOK
<1>4. CASE Loads(bs, dir.groups)
  <2>1. PICK p : p = q  OBVIOUS
  <2>2. Goto(j, p) /\ due' = due
    BY <1>4, <2>1 DEF LoadGroups
  <2>3. /\ Trimmed(dir.groups) \subseteq GroupFile
        /\ \A x, y \in Trimmed(dir.groups) : x.name = y.name => x = y
        /\ \A x \in Trimmed(dir.groups) : x.uses \subseteq Listed(bs)
    BY <1>1, <1>4, TrimmedOK DEF Directory
  <2>4. /\ p.pc = "rows" /\ p.op = jobs[j].op /\ p.seen = jobs[j].seen /\ p.plan = jobs[j].plan
        /\ p.spec.groups = Trimmed(dir.groups) /\ p.spec.bundles = bs
        /\ p \in Job
    BY <1>1, <2>1, <2>3 DEF Job, Directory
  <2>5. SpecOK(p.spec)
    BY <2>3, <2>4 DEF SpecOK
  <2>6. JobOK(p) /\ p.plan = NoPlan
    BY <1>1, <1>2, <2>4, <2>5 DEF JobOK, Planned, Pending
  <2>7. TablesOK(p, rows, files)
    BY <1>1, <2>4 DEF TablesOK, Stored, KeepsAll, Replaced, SeenBytes
  <2>8. \A i \in Adds(p) : FALSE
    BY <2>4, <2>6, AddsIs
  <2>9. due' \in BOOLEAN
    BY <2>2 DEF IInv, TypeOK
  <2> QED  BY <1>3, <2>2, <2>4, <2>6, <2>7, <2>8, <2>9, JobMoves DEF Goto
<1>5. CASE ~Loads(bs, dir.groups)
  <2>1. Goto(j, Idle) /\ due' \in BOOLEAN
    BY <1>5 DEF LoadGroups, Ended, IInv, TypeOK
  <2> QED  BY <1>3, <2>1, EndedOK
<1> QED  BY <1>4, <1>5

\* The tables as they are, as a list.
LEMMA TablesSeen ==
    ASSUME IInv
    PROVE  /\ \A i \in RowsIn(rows) : files[i] \in {None, rows[i].blob}
           /\ \A i, x \in RowsIn(rows) : rows[i].key = rows[x].key => i = x
           /\ \A g, h \in RowsIn(groups) : groups[g].name = groups[h].name => g = h
           /\ assigned \subseteq Gids \X Bids
BY RowsInIs DEF IInv, TypeOK, RowsHaveBytes

LEMMA ReadTablesStep ==
    ASSUME IInv, NEW j \in Jobs, ReadTables(j)
    PROVE  IInv'
<1>1. jobs[j] \in Job /\ JobOK(jobs[j]) /\ TablesOK(jobs[j], rows, files)
  BY DEF IInv, TypeOK, JobsOK
<1>2. /\ UNCHANGED <<managed, dir, tables, files, load, due>> /\ dir' \in Dirs /\ load' \in [Work -> Nat] /\ due' \in BOOLEAN
      /\ rows \in [Bids -> BundleRow \cup {None}] /\ groups \in [Gids -> GroupRow \cup {None}]
  BY DEF ReadTables, IInv, TypeOK
<1>3. SUFFICES ASSUME NEW p, Goto(j, p),
                      \/ jobs[j].pc = "rows" /\ p = [jobs[j] EXCEPT !.seen.rows = rows, !.pc = "groups"]
                      \/ jobs[j].pc = "groups" /\ p = [jobs[j] EXCEPT !.seen.groups = groups, !.pc = "assigned"]
                      \/ /\ jobs[j].pc = "assigned"
                         /\ p = [jobs[j] EXCEPT !.seen.assigned = assigned,
                                                !.pc = IF jobs[j].op = "export" THEN "write" ELSE "plan"]
               PROVE  IInv'
  BY DEF ReadTables
<1>4. /\ p \in Job
      /\ p.op = jobs[j].op /\ p.spec = jobs[j].spec /\ p.plan = jobs[j].plan
      /\ jobs[j].pc \in {"rows", "groups", "assigned"}
      /\ \/ p.pc \in {"groups", "assigned"}
         \/ p.pc = "write" /\ p.op = "export"
         \/ p.pc = "plan" /\ p.op # "export"
      /\ p.seen.rows \in {jobs[j].seen.rows, rows}
      /\ p.seen.groups \in {jobs[j].seen.groups, groups}
  <2>1. CASE jobs[j].pc = "rows" /\ p = [jobs[j] EXCEPT !.seen.rows = rows, !.pc = "groups"]
    BY <1>1, <1>2, <2>1 DEF Job, Tables
  <2>2. CASE jobs[j].pc = "groups" /\ p = [jobs[j] EXCEPT !.seen.groups = groups, !.pc = "assigned"]
    BY <1>1, <1>2, <2>2 DEF Job, Tables
  <2>3. CASE /\ jobs[j].pc = "assigned"
             /\ p = [jobs[j] EXCEPT !.seen.assigned = assigned,
                                    !.pc = IF jobs[j].op = "export" THEN "write" ELSE "plan"]
    <3>1. assigned \in SUBSET (Gids \X Bids)
      BY TablesSeen
    <3> QED  BY <1>1, <3>1, <2>3 DEF Job, Tables
  <2> QED  BY <1>3, <2>1, <2>2, <2>3
<1>5. SeenOK(p.seen)
  <2>1. SeenOK(jobs[j].seen)
    BY <1>1 DEF JobOK
  <2> QED  BY <2>1, <1>4, TablesSeen DEF SeenOK
<1>6. JobOK(p) /\ p.plan = NoPlan
  BY <1>1, <1>4, <1>5 DEF JobOK, Planned, Pending
<1>7. SeenBytes(p, files)
  BY <1>1, <1>4, TablesSeen DEF TablesOK, SeenBytes
<1>8. TablesOK(p, rows, files)
  BY <1>4, <1>7 DEF TablesOK, Stored, KeepsAll, Replaced
<1>9. \A i \in Adds(p) : FALSE
  BY <1>4, <1>6, AddsIs
<1> QED  BY <1>2, <1>3, <1>4, <1>6, <1>8, <1>9, JobMoves DEF Goto

LEMMA PlanStep ==
    ASSUME IInv, NEW j \in Jobs, Plan(j)
    PROVE  IInv'
<1>1. jobs[j] \in Job /\ JobOK(jobs[j]) /\ TablesOK(jobs[j], rows, files)
  BY DEF IInv, TypeOK, JobsOK
<1>2. UNCHANGED <<managed, dir, tables, files>> /\ dir' \in Dirs
  BY DEF Plan, IInv, TypeOK
<1>3. load' \in [Work -> Nat]
  <2>1. load' = load \/ (load["mishap"] > 0 /\ load' = [load EXCEPT !["mishap"] = @ - 1])
    BY Zenon DEF Plan
  <2> QED  BY <2>1 DEF IInv, TypeOK, Work
<1>4. ASSUME NEW ok, Ended(j, ok) PROVE IInv'
  <2>1. Goto(j, Idle) /\ due' \in BOOLEAN
    BY <1>4 DEF Ended, IInv, TypeOK
  <2> QED  BY <1>2, <1>3, <2>1, EndedOK
<1>5. SUFFICES ASSUME NEW readable \in BOOLEAN, NEW plan, plan = PlanFor(jobs[j].spec, jobs[j].seen, readable),
                      Enough(Adding(jobs[j].spec, jobs[j].seen, Keep(jobs[j].spec, jobs[j].seen, readable)), FreeBids),
                      Enough(Naming(jobs[j].spec, jobs[j].seen), FreeGids),
                      Goto(j, [jobs[j] EXCEPT !.plan = plan, !.pc = "put", !.blind = ~readable,
                                              !.todo = Listed([k \in Keys |-> plan.add[k]])]),
                      UNCHANGED due
               PROVE  IInv'
  BY <1>4 DEF Plan
<1>6. PICK q : q = [jobs[j] EXCEPT !.plan = plan, !.pc = "put", !.blind = ~readable,
                                   !.todo = Listed([k \in Keys |-> plan.add[k]])]
  OBVIOUS
<1>7. Reconciling(j, "plan")
  BY DEF Plan
<1>8. /\ jobs[j].op \in {"startup", "reload", "import"} /\ jobs[j].pc = "plan"
      /\ jobs[j].spec \in Directory /\ jobs[j].seen \in Tables
      /\ SpecOK(jobs[j].spec) /\ SeenOK(jobs[j].seen)
      /\ \A i \in RowsIn(jobs[j].seen.rows) : files[i] \in {None, jobs[j].seen.rows[i].blob}
  BY <1>1, <1>7 DEF Reconciling, JobOK, TablesOK, SeenBytes, Job
<1>9. /\ plan \in Plans /\ PlanOK(jobs[j].spec, jobs[j].seen, plan)
      /\ \A k \in Keys : plan.add[k] \in FreeBids \cup {None}
      /\ readable => \A i \in RowsIn(jobs[j].seen.rows) :
           (/\ files[i] = jobs[j].seen.rows[i].blob /\ jobs[j].seen.rows[i].key \in Listed(jobs[j].spec.bundles)
            /\ Same(jobs[j].seen.rows[i].blob, jobs[j].spec.bundles[jobs[j].seen.rows[i].key])) => i \in plan.kept
  <2>1. PICK seen \in Tables : seen = jobs[j].seen  BY <1>8
  <2>2. PICK spec \in Directory : spec = jobs[j].spec  BY <1>8
  <2> QED  BY <1>5, <1>8, <2>1, <2>2, PlanForOK
<1>10. /\ q \in Job /\ q.op = jobs[j].op /\ q.spec = jobs[j].spec /\ q.seen = jobs[j].seen
       /\ q.plan = plan /\ q.pc = "put" /\ q.blind = ~readable
       /\ q.todo = {k \in Keys : plan.add[k] # None}
  BY <1>1, <1>6, <1>9 DEF Job, Listed
<1>11. JobOK(q)
  BY <1>8, <1>9, <1>10 DEF JobOK, Planned, Pending
<1>12. KeepsAll(q, rows)
  <2> SUFFICES ASSUME readable, NEW i \in Bids, rows[i] # None, q.seen.rows[i] # None,
                      q.seen.rows[i].key \in Listed(q.spec.bundles),
                      Same(q.seen.rows[i].blob, q.spec.bundles[q.seen.rows[i].key])
               PROVE  i \in q.plan.kept
    BY <1>10 DEF KeepsAll
  <2>1. rows \in [Bids -> BundleRow \cup {None}] /\ jobs[j].seen.rows \in [Bids -> BundleRow \cup {None}]
    BY <1>8 DEF IInv, TypeOK, Tables
  <2>2. i \in RowsIn(rows) /\ i \in RowsIn(jobs[j].seen.rows)
    BY <1>10, <2>1, RowsInIs
  <2>3. files[i] # None
    BY <2>1, <2>2, NoneIsNone DEF IInv, RowsHaveBytes, BundleRow
  <2>4. files[i] = jobs[j].seen.rows[i].blob
    BY <1>8, <2>2, <2>3
  <2> QED  BY <1>9, <1>10, <2>2, <2>4
<1>13. Stored(q, files) /\ Replaced(q, rows) /\ SeenBytes(q, files)
  BY <1>8, <1>10 DEF Stored, Replaced, SeenBytes
<1>14. Adds(q) \subseteq FreeBids
  BY <1>9, <1>10 DEF Adds
<1>15. TablesOK(q, rows, files)
  BY <1>12, <1>13 DEF TablesOK
<1>16. due' \in BOOLEAN /\ jobs' = [jobs EXCEPT ![j] = q]
  BY <1>5, <1>6 DEF IInv, TypeOK, Goto
<1> QED  BY <1>2, <1>3, <1>10, <1>11, <1>14, <1>15, <1>16, JobMoves

\* A step of one job that stores or deletes files: none of a row, of another's plan or,
\* unless it goes, of another's list.
Loose(C, j, R, J, F, F2) ==
    /\ \A i \in Bids \ C : F2[i] = F[i]
    /\ \A i \in C : /\ R[i] = None
                    /\ \A x \in Jobs : x # j /\ J[x].pc \in Pending => i \notin Adds(J[x])
                    /\ F2[i] = None \/ \A x \in Jobs : J[x].seen.rows[i] = None

LEMMA FilesMove ==
    ASSUME IInv, NEW j \in Jobs, NEW q \in Job, NEW C, jobs' = [jobs EXCEPT ![j] = q],
           UNCHANGED <<managed, dir, tables>>, due' \in BOOLEAN, load' \in [Work -> Nat],
           files' \in [Bids -> Blobs \cup {None}],
           JobOK(q), TablesOK(q, rows, files'),
           Adds(q) \subseteq Adds(jobs[j]), q.pc \in Pending => jobs[j].pc \in Pending,
           q.seen.rows \in {jobs[j].seen.rows, Idle.seen.rows}, Loose(C, j, rows, jobs, files, files')
    PROVE  IInv'
<1> USE DEF IInv, Loose
<1>1. TypeOK'
  BY DEF TypeOK, tables
<1>2. RowsHaveBytes'
  BY RowsInIs DEF RowsHaveBytes, tables, TypeOK
<1>3. \A x \in Jobs : jobs'[x] = IF x = j THEN q ELSE jobs[x]
  BY DEF TypeOK
<1>4. JobsOK'
  <2> SUFFICES ASSUME NEW x \in Jobs, x # j PROVE TablesOK(jobs[x], rows, files')
    BY <1>3 DEF JobsOK, tables
  <2>1. TablesOK(jobs[x], rows, files) /\ jobs[x] \in Job
    BY DEF JobsOK, TypeOK
  <2>2. RowsIn(jobs[x].seen.rows) = {i \in Bids : jobs[x].seen.rows[i] # None} /\ Adds(jobs[x]) \subseteq Bids
    BY <2>1, AddsIs
  <2>3. \A i \in RowsIn(jobs[x].seen.rows) : files'[i] \in {files[i], None}
    BY <2>2
  <2>4. jobs[x].pc \in {"put", "apply"} => \A i \in Adds(jobs[x]) : files'[i] = files[i]
    BY <2>2 DEF Pending
  <2>5. PICK F2 : F2 = files'  OBVIOUS
  <2> HIDE DEF IInv
  <2> QED  BY <2>1, <2>2, <2>3, <2>4, <2>5, TablesStay
<1>5. Apart(rows, jobs')
  <2>1. PICK J2 : J2 = jobs'  OBVIOUS
  <2>2. \A x \in Jobs : Adds(jobs[x]) \subseteq Bids
    BY AddsIs DEF TypeOK
  <2>3. \A x \in Jobs, i \in Bids : J2[x].seen.rows[i] # None => jobs[x].seen.rows[i] # None
    BY <1>3, <2>1 DEF Idle, NoSeen
  <2>4. Respects(rows, jobs, rows, J2, j, {})
    BY <1>3, <2>1, <2>2, <2>3 DEF Respects
  <2>5. Apart(rows, jobs)
    OBVIOUS
  <2> QED  BY <2>1, <2>4, <2>5, ApartStays
<1> QED  BY <1>1, <1>2, <1>4, <1>5 DEF tables

LEMMA PutStep ==
    ASSUME IInv, NEW j \in Jobs, Put(j)
    PROVE  IInv'
<1>1. jobs[j] \in Job /\ JobOK(jobs[j]) /\ TablesOK(jobs[j], rows, files)
  BY DEF IInv, TypeOK, JobsOK
<1>2. UNCHANGED <<managed, dir, tables, due>> /\ dir' \in Dirs /\ due' \in BOOLEAN
  BY DEF Put, IInv, TypeOK
<1>3. Reconciling(j, "put")
  BY DEF Put
<1>4. /\ jobs[j].op \in {"startup", "reload", "import"} /\ jobs[j].pc = "put"
      /\ SpecOK(jobs[j].spec) /\ SeenOK(jobs[j].seen) /\ PlanOK(jobs[j].spec, jobs[j].seen, jobs[j].plan)
  BY <1>1, <1>3 DEF Reconciling, JobOK, Planned, Pending
<1>5. /\ jobs[j].plan.add \in [Keys -> Bids \cup {None}] /\ jobs[j].spec.bundles \in [Keys -> Content \cup {None}]
      /\ jobs[j].todo \subseteq Keys
  BY <1>1 DEF Job, Plans, Directory
<1>6. CASE jobs[j].todo = {} /\ Goto(j, [jobs[j] EXCEPT !.pc = "apply"]) /\ UNCHANGED <<files, load>>
  <2>1. PICK q : q = [jobs[j] EXCEPT !.pc = "apply"]  OBVIOUS
  <2>2. /\ q \in Job /\ q.pc = "apply" /\ q.op = jobs[j].op /\ q.spec = jobs[j].spec /\ q.seen = jobs[j].seen
        /\ q.plan = jobs[j].plan /\ q.todo = {} /\ q.blind = jobs[j].blind
    BY <1>1, <1>6, <2>1 DEF Job
  <2>3. JobOK(q)
    BY <1>4, <2>2 DEF JobOK, Planned, Pending
  <2>4. TablesOK(q, rows, files)
    BY <1>1, <1>4, <1>6, <2>2 DEF TablesOK, Stored, KeepsAll, Replaced, SeenBytes
  <2>5. Adds(q) = Adds(jobs[j])
    BY <2>2 DEF Adds
  <2>6. load' \in [Work -> Nat] /\ jobs' = [jobs EXCEPT ![j] = q] /\ UNCHANGED <<managed, tables, files>>
    BY <1>2, <1>6, <2>1 DEF IInv, TypeOK, Goto
  <2>7. \A i \in Adds(q) : i \in Adds(jobs[j]) /\ (q.pc \in Pending => jobs[j].pc \in Pending)
    BY <1>4, <2>5 DEF Pending
  <2> QED  BY <1>2, <2>2, <2>3, <2>4, <2>6, <2>7, JobMoves
<1>7. ASSUME NEW k \in jobs[j].todo,
             files' = [files EXCEPT ![jobs[j].plan.add[k]] = Blob(jobs[j].spec.bundles[k])],
             Goto(j, [jobs[j] EXCEPT !.todo = @ \ {k}]), UNCHANGED load
      PROVE  IInv'
  <2>1. PICK q : q = [jobs[j] EXCEPT !.todo = @ \ {k}]  OBVIOUS
  <2>2. /\ q \in Job /\ q.pc = "put" /\ q.op = jobs[j].op /\ q.spec = jobs[j].spec /\ q.seen = jobs[j].seen
        /\ q.plan = jobs[j].plan /\ q.todo = jobs[j].todo \ {k} /\ q.blind = jobs[j].blind
    BY <1>1, <1>4, <2>1 DEF Job
  <2>3. JobOK(q)
    BY <1>4, <2>2 DEF JobOK, Planned, Pending
  <2>4. Adds(q) = Adds(jobs[j])
    BY <2>2 DEF Adds
  <2>5. PICK C : C = {jobs[j].plan.add[k]} \ {None}  OBVIOUS
  <2>6. C \subseteq Adds(jobs[j]) /\ C \subseteq Bids
    BY <1>5, <2>5 DEF Adds
  <2>7. files \in [Bids -> Blobs \cup {None}]
    BY DEF IInv, TypeOK
  <2>8. \A i \in Bids : i = jobs[j].plan.add[k] \/ files'[i] = files[i]
    BY <1>7, <2>7
  <2>9. \A i \in Bids \ C : files'[i] = files[i]
    BY <2>5, <2>8, NoneIsNone
  <2>10. \A i \in C : rows[i] = None /\ \A x \in Jobs : jobs[x].seen.rows[i] = None
    BY <1>4, <2>6 DEF IInv, Apart, Pending
  <2>11. \A i \in C : \A x \in Jobs : x # j => i \notin Adds(jobs[x])
    BY <2>6 DEF IInv, Apart
  <2>12. files' \in [Bids -> Blobs \cup {None}]
    <3>1. jobs[j].plan.add[k] # None => Blob(jobs[j].spec.bundles[k]) \in Blobs
      <4>1. jobs[j].plan.add[k] # None => jobs[j].spec.bundles[k] \in Content
        BY <1>4, <1>5 DEF PlanOK, AddsRest, Listed
      <4> QED  BY <4>1, BlobIs
    <3> QED  BY <1>7, <2>7, <3>1, NoneIsNone
  <2>13. Stored(q, files')
    <3> SUFFICES ASSUME NEW m \in Keys \ q.todo, q.plan.add[m] # None
                 PROVE  files'[q.plan.add[m]] = Blob(q.spec.bundles[m])
      BY DEF Stored
    <3>1. CASE m = k
      BY <1>5, <1>7, <2>2, <2>7, <3>1
    <3>2. CASE m # k
      <4>1. m \in Keys \ jobs[j].todo /\ files[jobs[j].plan.add[m]] = Blob(jobs[j].spec.bundles[m])
        BY <1>1, <1>4, <2>2, <3>2 DEF TablesOK, Stored
      <4>2. jobs[j].plan.add[m] # jobs[j].plan.add[k]
        BY <1>4, <1>5, <2>2, <3>2 DEF PlanOK, AddsRest
      <4> QED  BY <1>5, <2>2, <2>8, <4>1, <4>2
    <3> QED  BY <3>1, <3>2
  <2>14. SeenBytes(q, files')
    <3>1. \A i \in RowsIn(q.seen.rows) : i \in Bids /\ q.seen.rows[i] # None
      BY <2>2, AddsIs
    <3>2. \A i \in RowsIn(q.seen.rows) : files'[i] = files[i]
      BY <2>2, <2>9, <2>10, <3>1
    <3> QED  BY <1>1, <2>2, <3>2 DEF TablesOK, SeenBytes
  <2>15. TablesOK(q, rows, files')
    BY <1>1, <1>4, <2>2, <2>13, <2>14 DEF TablesOK, KeepsAll, Replaced
  <2>16. load' \in [Work -> Nat] /\ jobs' = [jobs EXCEPT ![j] = q] /\ UNCHANGED <<managed, dir, tables>>
    BY <1>2, <1>7, <2>1 DEF IInv, TypeOK, Goto
  <2>17. q.pc \in Pending => jobs[j].pc \in Pending
    BY <1>4 DEF Pending
  <2>18. Loose(C, j, rows, jobs, files, files')
    BY <2>9, <2>10, <2>11 DEF Loose
  <2>19. q.seen.rows \in {jobs[j].seen.rows, Idle.seen.rows} /\ Adds(q) \subseteq Adds(jobs[j]) /\ q \in Job
    BY <2>2, <2>4
  <2> QED  BY <1>2, <2>3, <2>12, <2>15, <2>16, <2>17, <2>18, <2>19, FilesMove
<1>8. CASE Spend("mishap") /\ Goto(j, [jobs[j] EXCEPT !.pc = "discard"]) /\ UNCHANGED files
  <2>1. PICK q : q = [jobs[j] EXCEPT !.pc = "discard"]  OBVIOUS
  <2>2. /\ q \in Job /\ q.pc = "discard" /\ q.op = jobs[j].op /\ q.spec = jobs[j].spec /\ q.seen = jobs[j].seen
        /\ q.plan = jobs[j].plan
    BY <1>1, <2>1 DEF Job
  <2>3. JobOK(q)
    BY <1>4, <2>2 DEF JobOK, Planned, Pending
  <2>4. TablesOK(q, rows, files)
    BY <1>1, <2>2 DEF TablesOK, Stored, KeepsAll, Replaced, SeenBytes
  <2>5. \A i \in Adds(q) : i \in Adds(jobs[j]) /\ (q.pc \in Pending => jobs[j].pc \in Pending)
    BY <1>4, <2>2 DEF Adds, Pending
  <2>6. jobs' = [jobs EXCEPT ![j] = q] /\ UNCHANGED <<managed, tables, files>> /\ load' \in [Work -> Nat]
    BY <1>2, <1>8, <2>1, SpendOK DEF IInv, Goto, Work
  <2> QED  BY <1>2, <2>2, <2>3, <2>4, <2>5, <2>6, JobMoves
<1> QED  BY <1>6, <1>7, <1>8 DEF Put

LEMMA ApplyFailsStep ==
    ASSUME IInv, NEW j \in Jobs, ApplyFails(j)
    PROVE  IInv'
<1>1. jobs[j] \in Job /\ JobOK(jobs[j]) /\ TablesOK(jobs[j], rows, files)
  BY DEF IInv, TypeOK, JobsOK
<1>2. UNCHANGED <<managed, dir, tables, files, due>> /\ dir' \in Dirs /\ due' \in BOOLEAN
  BY DEF ApplyFails, IInv, TypeOK
<1>3. Reconciling(j, "apply") /\ Goto(j, [jobs[j] EXCEPT !.pc = "discard"])
  BY DEF ApplyFails
<1>4. load' \in [Work -> Nat]
  BY SpendOK DEF ApplyFails, IInv, TypeOK, Work
<1>5. PICK q : q = [jobs[j] EXCEPT !.pc = "discard"]  OBVIOUS
<1>6. /\ q \in Job /\ q.pc = "discard" /\ q.op = jobs[j].op /\ q.spec = jobs[j].spec /\ q.seen = jobs[j].seen
      /\ q.plan = jobs[j].plan
  BY <1>1, <1>5 DEF Job
<1>7. JobOK(q)
  BY <1>1, <1>3, <1>6 DEF JobOK, Planned, Pending, Reconciling
<1>8. TablesOK(q, rows, files)
  BY <1>1, <1>6 DEF TablesOK, Stored, KeepsAll, Replaced, SeenBytes
<1>9. \A i \in Adds(q) : i \in Adds(jobs[j]) /\ (q.pc \in Pending => jobs[j].pc \in Pending)
  BY <1>3, <1>6 DEF Adds, Pending, Reconciling
<1> QED  BY <1>2, <1>3, <1>4, <1>5, <1>6, <1>7, <1>8, <1>9, JobMoves DEF Goto

LEMMA DiscardStep ==
    ASSUME IInv, NEW j \in Jobs, Discard(j)
    PROVE  IInv'
<1>1. jobs[j] \in Job /\ JobOK(jobs[j]) /\ TablesOK(jobs[j], rows, files)
  BY DEF IInv, TypeOK, JobsOK
<1>2. /\ UNCHANGED <<managed, dir, tables>> /\ dir' \in Dirs /\ due' \in BOOLEAN /\ Goto(j, Idle)
      /\ jobs[j].pc \in {"discard", "cleanup"}
  BY DEF Discard, IInv, TypeOK, Ended, Reconciling
<1>3. PICK gone : gone = IF jobs[j].pc = "discard" THEN {jobs[j].plan.add[k] : k \in Keys} \ {None}
                         ELSE RowsIn(jobs[j].seen.rows) \ jobs[j].plan.kept
  OBVIOUS
<1>4. \/ files' = [i \in Bids |-> IF i \in gone THEN None ELSE files[i]] /\ UNCHANGED load
      \/ Spend("mishap") /\ UNCHANGED files
  BY <1>3 DEF Discard
<1>5. CASE Spend("mishap") /\ UNCHANGED files
  BY <1>2, <1>5, EndedOK, SpendOK DEF IInv, Work, tables
<1>6. CASE files' = [i \in Bids |-> IF i \in gone THEN None ELSE files[i]] /\ UNCHANGED load
  <2>1. Adds(Idle) = {} /\ Idle.pc = "idle"
    BY IdleOK, AddsIs DEF Idle
  <2>2. load' \in [Work -> Nat] /\ files \in [Bids -> Blobs \cup {None}]
    BY <1>6 DEF IInv, TypeOK
  <2>3. files' \in [Bids -> Blobs \cup {None}]
    BY <1>6, <2>2
  <2>4. \A i \in Bids \ gone : files'[i] = files[i]
    BY <1>6
  <2>5. gone \subseteq Bids
    BY <1>1, <1>3, AddsIs DEF Adds
  <2>6. \A i \in gone : files'[i] = None
    BY <1>6, <2>5
  <2>7. \A i \in gone : rows[i] = None /\ \A x \in Jobs : x # j /\ jobs[x].pc \in Pending => i \notin Adds(jobs[x])
    <3>1. CASE jobs[j].pc = "discard"
      <4>1. gone = Adds(jobs[j])
        BY <1>3, <3>1 DEF Adds
      <4> QED  BY <3>1, <4>1 DEF IInv, Apart, Pending
    <3>2. CASE jobs[j].pc = "cleanup"
      <4>1. gone = RowsIn(jobs[j].seen.rows) \ jobs[j].plan.kept
        BY <1>3, <3>2
      <4>2. \A i \in gone : rows[i] = None
        BY <1>1, <3>2, <4>1 DEF TablesOK, Replaced
      <4>3. \A i \in gone : jobs[j].seen.rows[i] # None
        BY <1>1, <4>1, AddsIs
      <4> QED  BY <4>2, <4>3 DEF IInv, Apart
    <3> QED  BY <1>2, <3>1, <3>2
  <2>8. TablesOK(Idle, rows, files')
    <3>1. PICK F2 : F2 = files'  OBVIOUS
    <3> QED  BY <3>1, IdleOK
  <2>9. jobs' = [jobs EXCEPT ![j] = Idle] /\ (Idle.pc \in Pending => jobs[j].pc \in Pending)
        /\ Adds(Idle) \subseteq Adds(jobs[j])
    BY <1>2, <2>1 DEF Goto, Pending
  <2>10. Loose(gone, j, rows, jobs, files, files')
    BY <2>4, <2>6, <2>7 DEF Loose
  <2> QED  BY <1>2, <2>2, <2>3, <2>8, <2>9, <2>10, IdleOK, FilesMove
<1> QED  BY <1>4, <1>5, <1>6

LEMMA ExportWriteStep ==
    ASSUME IInv, NEW j \in Jobs, ExportWrite(j)
    PROVE  IInv'
<1>1. jobs[j] \in Job /\ JobOK(jobs[j]) /\ TablesOK(jobs[j], rows, files)
  BY DEF IInv, TypeOK, JobsOK
<1>2. /\ UNCHANGED <<managed, dir, tables, files, due, load>> /\ dir' \in Dirs /\ due' \in BOOLEAN
      /\ load' \in [Work -> Nat] /\ jobs[j].op = "export" /\ jobs[j].pc = "write"
      /\ files \in [Bids -> Blobs \cup {None}]
  BY DEF ExportWrite, IInv, TypeOK
<1> DEFINE seen == jobs[j].seen
           bs   == [k \in Keys |-> IF \E i \in RowsIn(seen.rows) : seen.rows[i].key = k
                                   THEN Written(files[CHOOSE i \in RowsIn(seen.rows) : seen.rows[i].key = k])
                                   ELSE None]
<1>3. CASE Goto(j, Idle)
  BY <1>2, <1>3, EndedOK
<1>4. CASE /\ \A i \in RowsIn(seen.rows) : files[i] # None
           /\ Goto(j, [jobs[j] EXCEPT !.pc = "written", !.spec = [bundles |-> bs, groups |-> GroupFiles(seen)]])
  <2>1. PICK q : q = [jobs[j] EXCEPT !.pc = "written", !.spec = [bundles |-> bs, groups |-> GroupFiles(seen)]]
    OBVIOUS
  <2>2. seen \in Tables /\ RowsIn(seen.rows) \subseteq Bids /\ RowsIn(seen.groups) \subseteq Gids
    BY <1>1, RowsInIs DEF Job, Tables
  <2>3. \A b \in Blobs : Written(b) \in Content
    BY FilesAssumption DEF Written, Content, TreeReads
  <2>4. bs \in [Keys -> Content \cup {None}]
    <3> SUFFICES ASSUME NEW k \in Keys PROVE bs[k] \in Content \cup {None}
      OBVIOUS
    <3>1. CASE \E i \in RowsIn(seen.rows) : seen.rows[i].key = k
      <4>1. PICK i : i = CHOOSE x \in RowsIn(seen.rows) : seen.rows[x].key = k  OBVIOUS
      <4>2. i \in RowsIn(seen.rows)
        BY <3>1, <4>1, Zenon
      <4>3. files[i] \in Blobs
        BY <1>2, <1>4, <2>2, <4>2
      <4>4. bs[k] = Written(files[i])
        BY <3>1, <4>1, Zenon
      <4> QED  BY <2>3, <4>3, <4>4
    <3>2. CASE ~\E i \in RowsIn(seen.rows) : seen.rows[i].key = k
      BY <3>2
    <3> QED  BY <3>1, <3>2
  <2>5. GroupFiles(seen) \subseteq GroupFile
    <3> SUFFICES ASSUME NEW g \in RowsIn(seen.groups)
                 PROVE  [name |-> seen.groups[g].name, sel |-> seen.groups[g].sel,
                         uses |-> {seen.rows[a[2]].key : a \in {x \in seen.assigned : x[1] = g /\ seen.rows[x[2]] # None}}]
                          \in GroupFile
      BY DEF GroupFiles
    <3>1. seen.groups[g] \in GroupRow
      BY <2>2 DEF Tables, RowsIn
    <3>2. \A a \in seen.assigned : seen.rows[a[2]] # None => seen.rows[a[2]].key \in Keys
      BY <2>2 DEF Tables, BundleRow
    <3> QED  BY <3>1, <3>2 DEF GroupFile, GroupRow
  <2> HIDE DEF bs
  <2>6. /\ q \in Job /\ q.pc = "written" /\ q.op = "export" /\ q.seen = jobs[j].seen /\ q.plan = jobs[j].plan
    BY <1>1, <1>2, <2>1, <2>4, <2>5 DEF Job, Directory
  <2>7. JobOK(q) /\ q.plan = NoPlan
    BY <1>1, <1>2, <2>6 DEF JobOK, Planned, Pending
  <2>8. TablesOK(q, rows, files)
    BY <1>1, <2>6 DEF TablesOK, Stored, KeepsAll, Replaced, SeenBytes
  <2>9. \A i \in Adds(q) : FALSE
    BY <2>6, <2>7, AddsIs
  <2> QED  BY <1>2, <1>4, <2>1, <2>6, <2>7, <2>8, <2>9, JobMoves DEF Goto
<1> QED  BY <1>3, <1>4 DEF ExportWrite

LEMMA ExportDoneStep ==
    ASSUME IInv, NEW j \in Jobs, ExportDone(j)
    PROVE  IInv'
BY EndedOK DEF ExportDone, IInv, TypeOK

\* An id that no job has seen and no plan has.
Unseen(i, J) == \A x \in Jobs : J[x].seen.rows[i] = None /\ i \notin Adds(J[x])

\* Rows come under such ids, and files change there or go with a row.
Quiet(R, F, J, R2, F2) ==
    \A i \in Bids : /\ R2[i] # None => R[i] # None \/ Unseen(i, J)
                    /\ F2[i] = F[i] \/ (F2[i] = None /\ R[i] # None) \/ Unseen(i, J)

LEMMA TablesMove ==
    ASSUME IInv, TypeOK', RowsHaveBytes', \A x \in Jobs : Alike(jobs'[x], jobs[x]),
           Quiet(rows, files, jobs, rows', files')
    PROVE  IInv'
<1>1. PICK R2, F2, J2 : R2 = rows' /\ F2 = files' /\ J2 = jobs'  OBVIOUS
<1>2. Quiet(rows, files, jobs, R2, F2)
  BY <1>1
<1>3. \A x \in Jobs : Alike(J2[x], jobs[x])
  BY <1>1
<1>4. \A x \in Jobs : /\ Adds(jobs[x]) \subseteq Bids /\ RowsIn(jobs[x].seen.rows) \subseteq Bids
                      /\ RowsIn(jobs[x].seen.rows) = {i \in Bids : jobs[x].seen.rows[i] # None}
                      /\ JobOK(jobs[x]) /\ TablesOK(jobs[x], rows, files)
  BY AddsIs DEF IInv, TypeOK, JobsOK
<1>5. Apart(rows, jobs)
  BY DEF IInv
<1>6. ASSUME NEW x \in Jobs PROVE JobOK(J2[x]) /\ TablesOK(J2[x], R2, F2)
  <2>1. \A i \in RowsIn(jobs[x].seen.rows) : F2[i] \in {files[i], None}
    BY <1>2, <1>4 DEF Quiet, Unseen
  <2>2. jobs[x].pc \in {"put", "apply"} => \A i \in Adds(jobs[x]) : F2[i] = files[i]
    <3> SUFFICES ASSUME jobs[x].pc \in Pending, NEW i \in Adds(jobs[x]) PROVE F2[i] = files[i]
      BY DEF Pending
    <3>1. i \in Bids /\ rows[i] = None
      BY <1>4, <1>5 DEF Apart
    <3> QED  BY <1>2, <3>1 DEF Quiet, Unseen
  <2>3. \A i \in Bids : jobs[x].seen.rows[i] # None /\ R2[i] # None => rows[i] # None
    BY <1>2 DEF Quiet, Unseen
  <2>4. TablesOK(jobs[x], R2, F2)
    BY <1>4, <2>1, <2>2, <2>3, TablesStay
  <2> QED  BY <1>3, <1>4, <2>4, AlikeOK
<1>7. Apart(R2, J2)
  <2>1. PICK j : j = CHOOSE x : TRUE  OBVIOUS
  <2>2. \A x \in Jobs : Adds(J2[x]) = Adds(jobs[x]) /\ J2[x].pc = jobs[x].pc /\ J2[x].seen = jobs[x].seen
    BY <1>3, AlikeOK DEF Alike
  <2>3. \A i \in Bids : R2[i] # None => rows[i] # None \/ \A x \in Jobs : J2[x].pc \in Pending => i \notin Adds(jobs[x])
    BY <1>2 DEF Quiet, Unseen
  <2>4. Respects(rows, jobs, R2, J2, j, {})
    BY <1>4, <2>2, <2>3 DEF Respects
  <2> QED  BY <1>5, <2>4, ApartStays
<1> QED  BY <1>1, <1>6, <1>7 DEF IInv, JobsOK

LEMMA PublishStep ==
    ASSUME IInv, Publish
    PROVE  IInv'
<1>1. /\ \A x \in Jobs : jobs[x] \in Job
      /\ jobs' = [j \in Jobs |-> [jobs[j] EXCEPT !.stale = jobs[j].op \in {"reload", "startup"}]]
      /\ UNCHANGED <<managed, rows, groups, assigned, files>> /\ due' = managed /\ dir' \in Dirs
  BY DEF Publish, IInv, TypeOK
<1>2. \A x \in Jobs : jobs'[x] = [jobs[x] EXCEPT !.stale = jobs[x].op \in {"reload", "startup"}]
  BY <1>1
<1>3. \A x \in Jobs : jobs'[x] \in Job /\ Alike(jobs'[x], jobs[x])
  <2> TAKE x \in Jobs
  <2>1. PICK p, q : p = jobs[x] /\ q = jobs'[x]  OBVIOUS
  <2>2. p \in Job /\ q = [p EXCEPT !.stale = p.op \in {"reload", "startup"}]
    BY <1>1, <1>2, <2>1
  <2>3. q = [p EXCEPT !.stale = TRUE] \/ q = [p EXCEPT !.stale = FALSE]
    <3>1. CASE p.op \in {"reload", "startup"}
      <4>1. (p.op \in {"reload", "startup"}) = TRUE  BY <3>1
      <4> QED  BY <2>2, <4>1, Zenon
    <3>2. CASE ~(p.op \in {"reload", "startup"})
      <4>1. (p.op \in {"reload", "startup"}) = FALSE  BY <3>2
      <4> QED  BY <2>2, <4>1, Zenon
    <3> QED  BY <3>1, <3>2
  <2>4. q \in Job /\ Alike(q, p)
    BY <2>2, <2>3 DEF Job, Alike
  <2> QED  BY <2>1, <2>4
<1>4. jobs' \in [Jobs -> Job] /\ load' \in [Work -> Nat]
  <2>1. load' \in [Work -> Nat]
    BY SpendOK DEF Publish, IInv, Work
  <2>2. jobs' = [x \in Jobs |-> jobs'[x]]
    BY <1>1
  <2> QED  BY <1>3, <2>1, <2>2
<1>5. TypeOK' /\ RowsHaveBytes'
  BY <1>1, <1>4 DEF IInv, TypeOK, RowsHaveBytes
<1>6. Quiet(rows, files, jobs, rows', files')
  BY <1>1 DEF Quiet
<1> QED  BY <1>3, <1>5, <1>6, TablesMove

LEMMA RestartStep ==
    ASSUME IInv, NEW j \in Jobs, Restart(j)
    PROVE  IInv'
<1>1. /\ UNCHANGED <<managed, dir, tables, files, due>> /\ load' \in [Work -> Nat]
      /\ jobs' = [x \in Jobs |-> IF x = j THEN [Idle EXCEPT !.op = "startup", !.pc = "load"] ELSE Idle]
  BY SpendOK DEF Restart, IInv, Work
<1>2. PICK q : q = [Idle EXCEPT !.op = "startup", !.pc = "load"]  OBVIOUS
<1>3. Begins(q)
  BY <1>2 DEF Begins
<1>4. PICK J2 : J2 = jobs'  OBVIOUS
<1>5. \A x \in Jobs : J2[x] \in {q, Idle}
  BY <1>1, <1>2, <1>4
<1>6. /\ Adds(Idle) = {} /\ Idle.seen.rows = [i \in Bids |-> None]
      /\ \A p \in {q, Idle} : p \in Job /\ JobOK(p) /\ Adds(p) = {} /\ p.seen.rows = Idle.seen.rows
  BY <1>3, IdleOK, Begun, AddsIs DEF Idle, NoSeen
<1>7. \A x \in Jobs : TablesOK(J2[x], rows, files)
  BY <1>3, <1>5, IdleOK, Begun
<1>8. jobs' \in [Jobs -> Job]
  <2>1. \A x \in Jobs : jobs'[x] \in Job
    BY <1>4, <1>5, <1>6
  <2> QED  BY <1>1, <2>1
<1>9. TypeOK' /\ RowsHaveBytes'
  BY <1>1, <1>8 DEF IInv, TypeOK, RowsHaveBytes, tables
<1>10. JobsOK'
  BY <1>1, <1>4, <1>5, <1>6, <1>7 DEF JobsOK, tables
<1>11. \A x \in Jobs : Adds(J2[x]) = {}
  BY <1>5, <1>6
<1>12. Apart(rows, J2)
  BY <1>11 DEF Apart
<1> QED  BY <1>1, <1>4, <1>9, <1>10, <1>12 DEF IInv, tables

\* A job as the tables change under it.
LEMMA CalmOK ==
    ASSUME NEW p \in Job, NEW q, q = [p EXCEPT !.calm = p.op # "export"]
    PROVE  q \in Job /\ Alike(q, p)
<1>1. q = [p EXCEPT !.calm = TRUE] \/ q = [p EXCEPT !.calm = FALSE]
  <2>1. CASE p.op # "export"
    <3>1. (p.op # "export") = TRUE  BY <2>1
    <3> QED  BY <3>1, Zenon
  <2>2. CASE ~(p.op # "export")
    <3>1. (p.op # "export") = FALSE  BY <2>2
    <3> QED  BY <3>1, Zenon
  <2> QED  BY <2>1, <2>2
<1> QED  BY <1>1 DEF Job, Alike

LEMMA EditOK ==
    ASSUME IInv, Edit
    PROVE  /\ jobs' \in [Jobs -> Job] /\ load' \in [Work -> Nat] /\ UNCHANGED <<managed, dir, due>>
           /\ \A x \in Jobs : Alike(jobs'[x], jobs[x])
<1>1. \A x \in Jobs : jobs[x] \in Job /\ jobs'[x] = [jobs[x] EXCEPT !.calm = jobs[x].op # "export"]
  BY DEF Edit, IInv, TypeOK
<1>2. \A x \in Jobs : jobs'[x] \in Job /\ Alike(jobs'[x], jobs[x])
  <2> TAKE x \in Jobs
  <2>1. PICK p, q : p = jobs[x] /\ q = jobs'[x]  OBVIOUS
  <2> QED  BY <1>1, <2>1, CalmOK
<1>3. jobs' = [x \in Jobs |-> jobs'[x]]
  BY DEF Edit
<1>4. load' \in [Work -> Nat]
  BY SpendOK DEF Edit, IInv, Work
<1> QED  BY <1>2, <1>3, <1>4 DEF Edit

LEMMA TablesAre ==
    ASSUME IInv
    PROVE  /\ rows \in [Bids -> BundleRow \cup {None}] /\ groups \in [Gids -> GroupRow \cup {None}]
           /\ files \in [Bids -> Blobs \cup {None}]
           /\ RowsIn(rows) = {i \in Bids : rows[i] # None} /\ RowsIn(groups) = {g \in Gids : groups[g] # None}
           /\ managed \in BOOLEAN /\ due \in BOOLEAN /\ dir \in Dirs
           /\ assigned \subseteq RowsIn(groups) \X RowsIn(rows)
           /\ \A i \in Bids : rows[i] # None => files[i] = rows[i].blob
           /\ \A i, j \in Bids : rows[i] # None /\ rows[j] # None /\ rows[i].key = rows[j].key => i = j
           /\ \A g, h \in Gids : groups[g] # None /\ groups[h] # None /\ groups[g].name = groups[h].name => g = h
<1>1. rows \in [Bids -> BundleRow \cup {None}] /\ groups \in [Gids -> GroupRow \cup {None}]
  BY DEF IInv, TypeOK
<1>2. RowsIn(rows) = {i \in Bids : rows[i] # None} /\ RowsIn(groups) = {g \in Gids : groups[g] # None}
  BY <1>1, RowsInIs
<1> QED  BY <1>1, <1>2 DEF IInv, TypeOK, RowsHaveBytes

\* The same of tables given as values.
TypedTables(R, G, A, F) ==
    /\ R \in [Bids -> BundleRow \cup {None}] /\ G \in [Gids -> GroupRow \cup {None}]
    /\ F \in [Bids -> Blobs \cup {None}]
    /\ \A a \in A : \E g \in Gids, i \in Bids : a = <<g, i>> /\ G[g] # None /\ R[i] # None
    /\ \A i \in Bids : R[i] # None => F[i] = R[i].blob
    /\ \A i, j \in Bids : R[i] # None /\ R[j] # None /\ R[i].key = R[j].key => i = j
    /\ \A g, h \in Gids : G[g] # None /\ G[h] # None /\ G[g].name = G[h].name => g = h

LEMMA TypedIs ==
    ASSUME IInv
    PROVE  TypedTables(rows, groups, assigned, files)
BY TablesAre DEF TypedTables

LEMMA TypedNext ==
    ASSUME TypedTables(rows', groups', assigned', files'), managed' \in BOOLEAN, due' \in BOOLEAN, dir' \in Dirs,
           load' \in [Work -> Nat], jobs' \in [Jobs -> Job]
    PROVE  TypeOK' /\ RowsHaveBytes'
<1>1. RowsIn(rows') = {i \in Bids : rows'[i] # None} /\ RowsIn(groups') = {g \in Gids : groups'[g] # None}
  BY DEF TypedTables, RowsIn
<1>2. assigned' \subseteq RowsIn(groups') \X RowsIn(rows')
  BY <1>1 DEF TypedTables
<1>3. RowsHaveBytes'
  BY <1>1 DEF TypedTables, RowsHaveBytes
<1>4. TypeOK'
  BY <1>1, <1>2 DEF TypedTables, TypeOK
<1> QED  BY <1>3, <1>4

LEMMA EditStep ==
    ASSUME IInv, Edit, TypedTables(rows', groups', assigned', files'),
           Quiet(rows, files, jobs, rows', files')
    PROVE  IInv'
<1>1. managed' \in BOOLEAN /\ due' \in BOOLEAN /\ dir' \in Dirs
  BY EditOK, TablesAre
<1> QED  BY <1>1, EditOK, TypedNext, TablesMove

LEMMA UploadStep ==
    ASSUME IInv, NEW k \in Keys, NEW b \in Blobs, Upload(k, b)
    PROVE  IInv'
<1> USE TypedIs
<1>1. PICK i : i = CHOOSE x \in FreeBids : TRUE  OBVIOUS
<1>2. i \in FreeBids /\ rows' = [rows EXCEPT ![i] = [key |-> k, blob |-> b]] /\ files' = [files EXCEPT ![i] = b]
      /\ UNCHANGED <<groups, assigned>> /\ Edit
  BY <1>1 DEF Upload
<1>3. i \in Bids /\ rows[i] = None /\ Unseen(i, jobs)
  BY <1>2, FreeIds DEF Unseen
<1>4. \A x \in Bids : rows[x] # None => rows[x].key # k
  BY TablesAre DEF Upload
<1>5. [key |-> k, blob |-> b] \in BundleRow /\ [key |-> k, blob |-> b] # None
  BY NoneIsNone DEF BundleRow
<1>6. PICK r : r = [key |-> k, blob |-> b]  OBVIOUS
<1>7. \A x \in Bids : rows'[x] = (IF x = i THEN r ELSE rows[x]) /\ files'[x] = (IF x = i THEN b ELSE files[x])
  BY <1>2, <1>6 DEF TypedTables
<1>8. r \in BundleRow /\ r # None /\ r.key = k /\ r.blob = b
  BY <1>5, <1>6
<1>9. TypedTables(rows', groups', assigned', files')
  <2>1. rows' \in [Bids -> BundleRow \cup {None}] /\ files' \in [Bids -> Blobs \cup {None}]
    BY <1>2, <1>5 DEF TypedTables
  <2> QED  BY <2>1, <1>2, <1>3, <1>4, <1>7, <1>8 DEF TypedTables
<1>10. Quiet(rows, files, jobs, rows', files')
  BY <1>3, <1>7 DEF Quiet
<1> QED  BY <1>2, <1>9, <1>10, EditStep

LEMMA DeleteBundleStep ==
    ASSUME IInv, NEW i \in Bids, DeleteBundle(i)
    PROVE  IInv'
<1> USE TypedIs
<1>1. /\ rows[i] # None /\ rows' = [rows EXCEPT ![i] = None] /\ files' = [files EXCEPT ![i] = None]
      /\ assigned' = {a \in assigned : a[2] # i} /\ groups' = groups /\ Edit
  BY DEF DeleteBundle
<1>2. \A x \in Bids : rows'[x] = (IF x = i THEN None ELSE rows[x]) /\ files'[x] = (IF x = i THEN None ELSE files[x])
  BY <1>1 DEF TypedTables
<1>3. rows' \in [Bids -> BundleRow \cup {None}] /\ files' \in [Bids -> Blobs \cup {None}]
  BY <1>1 DEF TypedTables
<1>4. \A a \in assigned' : \E g \in Gids, x \in Bids : a = <<g, x>> /\ groups'[g] # None /\ rows'[x] # None
  BY <1>1, <1>2 DEF TypedTables
<1>5. TypedTables(rows', groups', assigned', files')
  BY <1>1, <1>2, <1>3, <1>4 DEF TypedTables
<1>6. Quiet(rows, files, jobs, rows', files')
  BY <1>1, <1>2 DEF Quiet
<1> QED  BY <1>1, <1>5, <1>6, EditStep

LEMMA RenameBundleStep ==
    ASSUME IInv, NEW i \in Bids, NEW k \in Keys, RenameBundle(i, k)
    PROVE  IInv'
<1> USE TypedIs
<1>1. /\ rows[i] # None /\ rows' = [rows EXCEPT ![i].key = k]
      /\ UNCHANGED <<groups, assigned, files>> /\ Edit
  BY DEF RenameBundle
<1>2. \A x \in Bids : rows[x] # None => rows[x].key # k
  BY TablesAre DEF RenameBundle
<1>3. PICK r : r = [rows[i] EXCEPT !.key = k]  OBVIOUS
<1>4. r \in BundleRow /\ r # None /\ r.key = k /\ r.blob = rows[i].blob
  BY <1>1, <1>3, NoneIsNone DEF TypedTables, BundleRow
<1>5. \A x \in Bids : rows'[x] = (IF x = i THEN r ELSE rows[x])
  BY <1>1, <1>3 DEF TypedTables
<1>6. rows' \in [Bids -> BundleRow \cup {None}]
  BY <1>1, <1>3, <1>4 DEF TypedTables
<1>7. TypedTables(rows', groups', assigned', files')
  BY <1>1, <1>2, <1>4, <1>5, <1>6 DEF TypedTables
<1>8. Quiet(rows, files, jobs, rows', files')
  BY <1>1, <1>5 DEF Quiet
<1> QED  BY <1>1, <1>7, <1>8, EditStep

\* An edit that leaves the bundles alone.
LEMMA GroupEdit ==
    ASSUME IInv, Edit, TypedTables(rows', groups', assigned', files'), UNCHANGED <<rows, files>>
    PROVE  IInv'
BY EditStep DEF Quiet

LEMMA CreateGroupStep ==
    ASSUME IInv, NEW n \in Names, NEW s \in Sels, CreateGroup(n, s)
    PROVE  IInv'
<1> USE TypedIs
<1>1. PICK g : g = CHOOSE x \in FreeGids : TRUE  OBVIOUS
<1>2. PICK r : r = [name |-> n, sel |-> s]  OBVIOUS
<1>3. g \in FreeGids /\ groups' = [groups EXCEPT ![g] = r] /\ UNCHANGED <<rows, assigned, files>> /\ Edit
  BY <1>1, <1>2 DEF CreateGroup
<1>4. g \in Gids /\ groups[g] = None
  BY <1>3, FreeIds
<1>5. \A x \in Gids : groups[x] # None => groups[x].name # n
  BY TablesAre DEF CreateGroup
<1>6. r \in GroupRow /\ r # None /\ r.name = n
  BY <1>2, NoneIsNone DEF GroupRow
<1>7. \A x \in Gids : groups'[x] = IF x = g THEN r ELSE groups[x]
  BY <1>3 DEF TypedTables
<1>8. groups' \in [Gids -> GroupRow \cup {None}]
  BY <1>3, <1>6 DEF TypedTables
<1>9. TypedTables(rows', groups', assigned', files')
  BY <1>3, <1>4, <1>5, <1>6, <1>7, <1>8 DEF TypedTables
<1> QED  BY <1>3, <1>9, GroupEdit

LEMMA PatchGroupStep ==
    ASSUME IInv, NEW g \in Gids, NEW n \in Names, NEW s \in Sels, PatchGroup(g, n, s)
    PROVE  IInv'
<1> USE TypedIs
<1>1. PICK r : r = [name |-> n, sel |-> s]  OBVIOUS
<1>2. groups[g] # None /\ groups' = [groups EXCEPT ![g] = r] /\ UNCHANGED <<rows, assigned, files>> /\ Edit
  BY <1>1 DEF PatchGroup
<1>3. \A x \in Gids : groups[x] # None /\ x # g => groups[x].name # n
  BY TablesAre DEF PatchGroup
<1>4. r \in GroupRow /\ r # None /\ r.name = n
  BY <1>1, NoneIsNone DEF GroupRow
<1>5. \A x \in Gids : groups'[x] = IF x = g THEN r ELSE groups[x]
  BY <1>2 DEF TypedTables
<1>6. groups' \in [Gids -> GroupRow \cup {None}]
  BY <1>2, <1>4 DEF TypedTables
<1>7. TypedTables(rows', groups', assigned', files')
  BY <1>2, <1>3, <1>4, <1>5, <1>6 DEF TypedTables
<1> QED  BY <1>2, <1>7, GroupEdit

LEMMA DeleteGroupStep ==
    ASSUME IInv, NEW g \in Gids, DeleteGroup(g)
    PROVE  IInv'
<1> USE TypedIs
<1>1. /\ \A a \in assigned : a[1] # g
      /\ groups' = [groups EXCEPT ![g] = None] /\ UNCHANGED <<rows, assigned, files>> /\ Edit
  BY DEF DeleteGroup
<1>2. \A x \in Gids : groups'[x] = IF x = g THEN None ELSE groups[x]
  BY <1>1 DEF TypedTables
<1>3. groups' \in [Gids -> GroupRow \cup {None}]
  BY <1>1 DEF TypedTables
<1>4. TypedTables(rows', groups', assigned', files')
  BY <1>1, <1>2, <1>3 DEF TypedTables
<1> QED  BY <1>1, <1>4, GroupEdit

LEMMA AssignStep ==
    ASSUME IInv, NEW g \in Gids, NEW i \in Bids, Assign(g, i)
    PROVE  IInv'
<1>1. /\ groups[g] # None /\ rows[i] # None /\ UNCHANGED <<rows, groups, files>> /\ Edit
      /\ \A a \in assigned' : a \in assigned \/ a = <<g, i>>
  BY DEF Assign
<1>2. TypedTables(rows', groups', assigned', files')
  BY <1>1, TypedIs DEF TypedTables
<1> QED  BY <1>1, <1>2, GroupEdit

-------------------------------------------------------------------------------
(* The transaction: what a plan makes of the tables.                       *)

\* Tables a plan describes.
Described(R, G, A, spec, seen, plan) ==
    /\ \A g \in Gids : /\ G[g] # None <=> \E x \in spec.groups : plan.named[x.name] = g
                       /\ \A x \in spec.groups : plan.named[x.name] = g => G[g] = [name |-> x.name, sel |-> x.sel]
    /\ \A i \in Bids : R[i] # None <=> i \in plan.kept \/ \E k \in Keys : plan.add[k] = i
    /\ \A k \in Keys : plan.add[k] # None => R[plan.add[k]] = [key |-> k, blob |-> Blob(spec.bundles[k])]
    /\ A = Assignments(spec, seen, plan)

\* Assignments that are those of spec.
Assigns(A, spec, seen, plan) ==
    /\ \A x \in spec.groups : \A k \in x.uses : \E i \in Bids :
         /\ <<plan.named[x.name], i>> \in A
         /\ plan.add[k] = i \/ (plan.add[k] = None /\ i \in plan.kept /\ seen.rows[i].key = k)
    /\ \A a \in A : \E x \in spec.groups : \E k \in x.uses, i \in Bids :
         /\ a = <<plan.named[x.name], i>>
         /\ plan.add[k] = i \/ (plan.add[k] = None /\ i \in plan.kept /\ seen.rows[i].key = k)

LEMMA AssignmentsAre ==
    ASSUME NEW spec \in Directory, NEW seen \in Tables, NEW plan \in Plans, SpecOK(spec), PlanOK(spec, seen, plan)
    PROVE  Assigns(Assignments(spec, seen, plan), spec, seen, plan)
<1> DEFINE id(k) == IF plan.add[k] # None THEN plan.add[k]
                    ELSE CHOOSE i \in plan.kept : seen.rows[i].key = k
<1>1. /\ plan.add \in [Keys -> Bids \cup {None}] /\ plan.kept \subseteq Bids
      /\ \A x \in spec.groups : x.uses \subseteq Listed(spec.bundles) /\ x.uses \subseteq Keys
  BY DEF Plans, SpecOK, Directory, GroupFile
<1>2. \A x \in spec.groups : \A k \in x.uses :
        /\ id(k) \in Bids
        /\ \/ plan.add[k] = id(k)
           \/ plan.add[k] = None /\ id(k) \in plan.kept /\ seen.rows[id(k)].key = k
  <2> TAKE x \in spec.groups
  <2> TAKE k \in x.uses
  <2>1. CASE plan.add[k] # None
    BY <1>1, <2>1
  <2>2. CASE plan.add[k] = None
    <3>1. PICK c : c = CHOOSE i \in plan.kept : seen.rows[i].key = k  OBVIOUS
    <3>2. \E i \in plan.kept : seen.rows[i].key = k
      BY <1>1, <2>2 DEF PlanOK, AddsRest
    <3>3. c \in plan.kept /\ seen.rows[c].key = k
      BY <3>1, <3>2, Zenon
    <3>4. id(k) = c
      BY <2>2, <3>1, Zenon
    <3> HIDE DEF id
    <3> QED  BY <1>1, <2>2, <3>3, <3>4
  <2> QED  BY <2>1, <2>2
<1>3. Assignments(spec, seen, plan) = UNION {{<<plan.named[x.name], id(k)>> : k \in x.uses} : x \in spec.groups}
  BY DEF Assignments
<1> HIDE DEF id
<1> QED  BY <1>2, <1>3 DEF Assigns

\* Shown, of tables given as values.
ShownOf(R, G, A) ==
    [bundles |-> {R[i] : i \in RowsIn(R)},
     groups  |-> {[name |-> G[g].name, sel |-> G[g].sel,
                   uses |-> {R[a[2]].key : a \in {x \in A : x[1] = g}}] : g \in RowsIn(G)}]

\* They are what the directory says, if what is kept was not renamed.
LEMMA DescribedMatches ==
    ASSUME NEW spec \in Directory, NEW seen \in Tables, NEW plan \in Plans, SpecOK(spec), PlanOK(spec, seen, plan),
           NEW R \in [Bids -> BundleRow \cup {None}], NEW G \in [Gids -> GroupRow \cup {None}], NEW A,
           Described(R, G, A, spec, seen, plan), \A i \in plan.kept : R[i] = seen.rows[i]
    PROVE  Matches(ShownOf(R, G, A), spec)
<1>0. /\ \A g \in Gids : G[g] # None => \E x \in spec.groups : plan.named[x.name] = g
      /\ \A g \in Gids : \A x \in spec.groups : plan.named[x.name] = g => G[g] = [name |-> x.name, sel |-> x.sel]
      /\ \A g \in Gids : (\E x \in spec.groups : plan.named[x.name] = g) => G[g] # None
      /\ \A i \in Bids : R[i] # None => i \in plan.kept \/ \E k \in Keys : plan.add[k] = i
      /\ \A i \in Bids : i \in plan.kept => R[i] # None
      /\ \A k \in Keys : plan.add[k] \in Bids => R[plan.add[k]] # None
      /\ \A k \in Keys : plan.add[k] # None => R[plan.add[k]] = [key |-> k, blob |-> Blob(spec.bundles[k])]
      /\ \A k \in Keys : plan.add[k] # None => R[plan.add[k]].key = k
      /\ A = Assignments(spec, seen, plan)
  <2>1. /\ \A g \in Gids : G[g] # None <=> \E x \in spec.groups : plan.named[x.name] = g
        /\ \A g \in Gids : \A x \in spec.groups : plan.named[x.name] = g => G[g] = [name |-> x.name, sel |-> x.sel]
        /\ \A i \in Bids : R[i] # None <=> i \in plan.kept \/ \E k \in Keys : plan.add[k] = i
        /\ A = Assignments(spec, seen, plan)
    BY Zenon DEF Described
  <2>2. \A k \in Keys : plan.add[k] # None => R[plan.add[k]] = [key |-> k, blob |-> Blob(spec.bundles[k])]
    BY Zenon DEF Described
  <2>3. \A k \in Keys : plan.add[k] # None => R[plan.add[k]].key = k
    <3> SUFFICES ASSUME NEW k \in Keys, plan.add[k] # None PROVE R[plan.add[k]].key = k
      OBVIOUS
    <3>1. PICK r : r = [key |-> k, blob |-> Blob(spec.bundles[k])]  OBVIOUS
    <3>2. r.key = k
      BY <3>1
    <3> QED  BY <2>2, <3>1, <3>2, Zenon
  <2> QED  BY <2>1, <2>2, <2>3
<1>1. /\ plan.add \in [Keys -> Bids \cup {None}] /\ plan.kept \subseteq Bids
      /\ plan.named \in [Names -> Gids \cup {None}] /\ spec.groups \subseteq GroupFile
      /\ \A x \in spec.groups : x.uses \subseteq Keys /\ x.name \in Names
      /\ RowsIn(R) = {i \in Bids : R[i] # None} /\ RowsIn(G) = {g \in Gids : G[g] # None}
  BY RowsInIs DEF Plans, Directory, GroupFile
<1>2. \A x \in spec.groups : /\ plan.named[x.name] \in Gids
                             /\ G[plan.named[x.name]] = [name |-> x.name, sel |-> x.sel]
                             /\ plan.named[x.name] \in RowsIn(G)
  <2> TAKE x \in spec.groups
  <2>1. plan.named[x.name] # None
    BY <1>1 DEF PlanOK, NamesAll
  <2>2. plan.named[x.name] \in Gids
    BY <1>1, <2>1
  <2> QED  BY <1>0, <1>1, <2>2
<1>3. \A x, y \in spec.groups : plan.named[x.name] = plan.named[y.name] => x = y
  BY <1>1, <1>2, NoneIsNone DEF PlanOK, NamesAll, SpecOK
<1>4. \A k \in Keys, i \in Bids :
        plan.add[k] = i \/ (plan.add[k] = None /\ i \in plan.kept /\ seen.rows[i].key = k) => R[i].key = k
  BY <1>0, NoneIsNone
<1>45. /\ \A x \in spec.groups : \A k \in x.uses : \E i \in Bids :
            /\ <<plan.named[x.name], i>> \in A
            /\ plan.add[k] = i \/ (plan.add[k] = None /\ i \in plan.kept /\ seen.rows[i].key = k)
       /\ \A a \in A : \E x \in spec.groups : \E k \in x.uses, i \in Bids :
            /\ a = <<plan.named[x.name], i>>
            /\ plan.add[k] = i \/ (plan.add[k] = None /\ i \in plan.kept /\ seen.rows[i].key = k)
  <2>1. Assigns(A, spec, seen, plan)
    BY <1>0, AssignmentsAre
  <2> QED  BY <2>1, Zenon DEF Assigns
<1>5. \A x \in spec.groups : {R[a[2]].key : a \in {y \in A : y[1] = plan.named[x.name]}} = x.uses
  <2> TAKE x \in spec.groups
  <2>2. ASSUME NEW k \in x.uses PROVE \E a \in A : a[1] = plan.named[x.name] /\ R[a[2]].key = k
    <3>1. PICK i \in Bids : /\ <<plan.named[x.name], i>> \in A
                            /\ plan.add[k] = i \/ (plan.add[k] = None /\ i \in plan.kept /\ seen.rows[i].key = k)
      BY <1>45
    <3> QED  BY <1>1, <1>4, <3>1
  <2>3. ASSUME NEW a \in A, a[1] = plan.named[x.name] PROVE R[a[2]].key \in x.uses
    <3>1. PICK y \in spec.groups : \E k \in y.uses, i \in Bids :
             /\ a = <<plan.named[y.name], i>>
             /\ plan.add[k] = i \/ (plan.add[k] = None /\ i \in plan.kept /\ seen.rows[i].key = k)
      BY <1>45
    <3>2. y = x
      BY <1>3, <2>3, <3>1
    <3> QED  BY <1>1, <1>4, <3>1, <3>2
  <2> QED  BY <2>2, <2>3
<1>6. ShownOf(R, G, A).groups = spec.groups
  <2> DEFINE File(g) == [name |-> G[g].name, sel |-> G[g].sel,
                         uses |-> {R[a[2]].key : a \in {x \in A : x[1] = g}}]
  <2>0. \A x \in spec.groups : x = [name |-> x.name, sel |-> x.sel, uses |-> x.uses]
    BY <1>1 DEF GroupFile
  <2>1. ShownOf(R, G, A).groups = {File(g) : g \in RowsIn(G)}
    BY DEF ShownOf
  <2>2. \A x \in spec.groups : File(plan.named[x.name]) = x
    <3> TAKE x \in spec.groups
    <3>1. PICK u : u = {R[a[2]].key : a \in {y \in A : y[1] = plan.named[x.name]}}  OBVIOUS
    <3>2. u = x.uses
      BY <1>5, <3>1, Zenon
    <3>3. G[plan.named[x.name]].name = x.name /\ G[plan.named[x.name]].sel = x.sel
      <4>1. PICK r : r = [name |-> x.name, sel |-> x.sel]  OBVIOUS
      <4>2. r.name = x.name /\ r.sel = x.sel
        BY <4>1
      <4> QED  BY <1>2, <4>1, <4>2, Zenon
    <3>4. [name |-> G[plan.named[x.name]].name, sel |-> G[plan.named[x.name]].sel, uses |-> u]
             = [name |-> x.name, sel |-> x.sel, uses |-> x.uses]
      <4>1. PICK n, s : n = G[plan.named[x.name]].name /\ s = G[plan.named[x.name]].sel  OBVIOUS
      <4>2. n = x.name /\ s = x.sel
        BY <3>3, <4>1, Zenon
      <4>3. [name |-> n, sel |-> s, uses |-> u] = [name |-> x.name, sel |-> x.sel, uses |-> x.uses]
        BY <3>2, <4>2
      <4> QED  BY <4>1, <4>3, Zenon
    <3> QED  BY <2>0, <3>1, <3>4, Zenon
  <2> HIDE DEF File
  <2>3. \A g \in RowsIn(G) : \E x \in spec.groups : plan.named[x.name] = g
    BY <1>0, <1>1
  <2>4. \A x \in spec.groups : x \in ShownOf(R, G, A).groups
    BY <1>2, <2>1, <2>2, Zenon
  <2>5. \A y \in ShownOf(R, G, A).groups : y \in spec.groups
    <3> TAKE y \in ShownOf(R, G, A).groups
    <3>1. PICK g \in RowsIn(G) : y = File(g)
      BY <2>1
    <3>2. PICK x \in spec.groups : plan.named[x.name] = g
      BY <2>3
    <3>3. File(plan.named[x.name]) = x
      BY <2>2
    <3> QED  BY <3>1, <3>2, <3>3, Zenon
  <2> QED  BY <2>4, <2>5
<1>7. \A i \in RowsIn(R) : R[i].key \in Listed(spec.bundles) /\ Same(R[i].blob, spec.bundles[R[i].key])
  <2> TAKE i \in RowsIn(R)
  <2>1. CASE i \in plan.kept
    BY <2>1 DEF PlanOK, Keeps
  <2>2. CASE i \notin plan.kept
    <3>1. PICK k \in Keys : plan.add[k] = i
      BY <1>0, <1>1, <2>2
    <3>2. plan.add[k] # None
      BY <1>1, <3>1, NoneIsNone
    <3>3. k \in Listed(spec.bundles) /\ R[i] = [key |-> k, blob |-> Blob(spec.bundles[k])]
      BY <1>0, <3>1, <3>2 DEF PlanOK, AddsRest
    <3> QED  BY <3>3 DEF Same
  <2> QED  BY <2>1, <2>2
<1>8. \A k \in Listed(spec.bundles) : \E i \in RowsIn(R) : R[i].key = k
  <2> TAKE k \in Listed(spec.bundles)
  <2>1. k \in Keys
    BY DEF Listed
  <2>2. CASE plan.add[k] # None
    <3>1. plan.add[k] \in Bids /\ R[plan.add[k]].key = k
      BY <1>0, <1>1, <2>1, <2>2
    <3>2. R[plan.add[k]] # None
      BY <1>0, <2>1, <3>1
    <3> QED  BY <1>1, <3>1, <3>2
  <2>3. CASE plan.add[k] = None
    <3>1. PICK i \in plan.kept : seen.rows[i].key = k
      BY <2>1, <2>3 DEF PlanOK, AddsRest
    <3> QED  BY <1>0, <1>1, <3>1
  <2> QED  BY <2>2, <2>3
<1>85. ShownOf(R, G, A).bundles = {R[i] : i \in RowsIn(R)}
  BY DEF ShownOf
<1>9. {r.key : r \in ShownOf(R, G, A).bundles} = Listed(spec.bundles)
  BY <1>7, <1>8, <1>85
<1>10. \A r \in ShownOf(R, G, A).bundles : Same(r.blob, spec.bundles[r.key])
  BY <1>7, <1>85
<1> QED  BY <1>6, <1>9, <1>10 DEF Matches, Same

\* The transaction makes the tables what the plan describes, and what is kept stays as it is.
LEMMA ApplyDescribes ==
    ASSUME IInv, NEW j \in Jobs, Apply(j),
           NEW spec, NEW seen, NEW plan, spec = jobs[j].spec, seen = jobs[j].seen, plan = jobs[j].plan
    PROVE  /\ spec \in Directory /\ seen \in Tables /\ plan \in Plans
           /\ SpecOK(spec) /\ SeenOK(seen) /\ PlanOK(spec, seen, plan)
           /\ RowsIn(rows) = RowsIn(seen.rows) /\ RowsIn(groups) = RowsIn(seen.groups)
           /\ \A i \in RowsIn(rows) : rows'[i] = IF i \in plan.kept THEN rows[i] ELSE None
           /\ Described(rows', groups', assigned', spec, seen, plan)
<1>1. jobs[j] \in Job /\ JobOK(jobs[j]) /\ TablesOK(jobs[j], rows, files) /\ jobs[j].pc = "apply"
      /\ jobs[j].op \in {"startup", "reload", "import"}
  BY DEF IInv, TypeOK, JobsOK, Apply, Reconciling
<1>2. /\ spec \in Directory /\ seen \in Tables /\ plan \in Plans
      /\ SpecOK(spec) /\ SeenOK(seen) /\ PlanOK(spec, seen, plan)
  BY <1>1 DEF Job, JobOK, Planned, Pending
<1>3. RowsIn(rows) = RowsIn(seen.rows) /\ RowsIn(groups) = RowsIn(seen.groups)
  BY DEF Apply, Expected
<1>4. /\ plan.add \in [Keys -> Bids \cup {None}] /\ plan.kept \subseteq Bids
      /\ plan.named \in [Names -> Gids \cup {None}]
      /\ \A x \in spec.groups : x.name \in Names
      /\ RowsIn(seen.rows) = {i \in Bids : seen.rows[i] # None}
      /\ RowsIn(seen.groups) = {g \in Gids : seen.groups[g] # None}
      /\ RowsIn(rows) = {i \in Bids : rows[i] # None} /\ RowsIn(groups) = {g \in Gids : groups[g] # None}
  BY <1>2, RowsInIs, TablesAre DEF Plans, Directory, GroupFile, Tables
<1>5. rows' = [i \in Bids |->
                 IF \E k \in Keys : plan.add[k] = i
                 THEN LET k == CHOOSE x \in Keys : plan.add[x] = i
                      IN  [key |-> k, blob |-> Blob(spec.bundles[k])]
                 ELSE IF i \in RowsIn(seen.rows) \ plan.kept THEN None ELSE rows[i]]
  BY DEF Apply, BundlesAfter
<1>6. groups' = [g \in Gids |->
                   IF \E x \in spec.groups : plan.named[x.name] = g
                   THEN LET x == CHOOSE y \in spec.groups : plan.named[y.name] = g
                        IN  [name |-> x.name, sel |-> x.sel]
                   ELSE IF seen.groups[g] # None THEN None ELSE groups[g]]
  BY DEF Apply, GroupsAfter
<1>7. \A k, m \in Keys : plan.add[k] = plan.add[m] /\ plan.add[k] # None => k = m
  BY <1>2 DEF PlanOK, AddsRest
<1>8. \A k \in Keys : plan.add[k] # None => seen.rows[plan.add[k]] = None
  BY <1>2 DEF PlanOK, AddsRest
<1>9. \A k \in Keys : plan.add[k] # None => rows'[plan.add[k]] = [key |-> k, blob |-> Blob(spec.bundles[k])]
  <2> SUFFICES ASSUME NEW k \in Keys, plan.add[k] # None
               PROVE  rows'[plan.add[k]] = [key |-> k, blob |-> Blob(spec.bundles[k])]
    OBVIOUS
  <2>1. PICK i \in Bids : i = plan.add[k]
    BY <1>4
  <2>2. PICK c : c = CHOOSE x \in Keys : plan.add[x] = i  OBVIOUS
  <2>3. c \in Keys /\ plan.add[c] = i
    BY <2>1, <2>2, Zenon
  <2>4. c = k
    BY <1>7, <2>1, <2>3
  <2>5. rows'[i] = [key |-> c, blob |-> Blob(spec.bundles[c])]
    BY <1>5, <2>1, <2>2, Zenon
  <2> QED  BY <2>1, <2>4, <2>5
<1>10. \A i \in RowsIn(rows) : rows'[i] = IF i \in plan.kept THEN rows[i] ELSE None
  <2> SUFFICES ASSUME NEW i \in RowsIn(rows)
               PROVE  rows'[i] = IF i \in plan.kept THEN rows[i] ELSE None
    OBVIOUS
  <2>1. ~\E k \in Keys : plan.add[k] = i
    BY <1>3, <1>4, <1>8, NoneIsNone
  <2>2. i \in Bids /\ i \in RowsIn(seen.rows)
    BY <1>3, <1>4
  <2> QED  BY <1>5, <2>1, <2>2
<1>11. \A i \in Bids : rows'[i] # None <=> i \in plan.kept \/ \E k \in Keys : plan.add[k] = i
  <2> TAKE i \in Bids
  <2>1. plan.kept \subseteq RowsIn(rows)
    BY <1>2, <1>3 DEF PlanOK, Keeps
  <2>2. CASE \E k \in Keys : plan.add[k] = i
    <3>1. PICK k \in Keys : plan.add[k] = i
      BY <2>2
    <3>2. spec.bundles[k] \in Content
      BY <1>2, <3>1, NoneIsNone DEF PlanOK, AddsRest, Listed, Directory
    <3>3. [key |-> k, blob |-> Blob(spec.bundles[k])] \in BundleRow
      BY <3>2, BlobIs DEF BundleRow
    <3>4. rows'[i] \in BundleRow
      BY <1>9, <3>1, <3>3, NoneIsNone
    <3> QED  BY <2>2, <3>4, NoneIsNone
  <2>3. CASE ~\E k \in Keys : plan.add[k] = i
    <3>1. rows'[i] = IF i \in RowsIn(seen.rows) \ plan.kept THEN None ELSE rows[i]
      BY <1>5, <2>3
    <3> QED  BY <1>3, <1>4, <2>1, <2>3, <3>1
  <2> QED  BY <2>2, <2>3
<1>12. \A x, y \in spec.groups : plan.named[x.name] = plan.named[y.name] => x = y
  <2>1. \A x \in spec.groups : plan.named[x.name] # None
    BY <1>2, <1>4 DEF PlanOK, NamesAll
  <2> QED  BY <1>2, <1>4, <2>1 DEF PlanOK, NamesAll, SpecOK
<1>13. \A g \in Gids : \A x \in spec.groups : plan.named[x.name] = g => groups'[g] = [name |-> x.name, sel |-> x.sel]
  <2> SUFFICES ASSUME NEW g \in Gids, NEW x \in spec.groups, plan.named[x.name] = g
               PROVE  groups'[g] = [name |-> x.name, sel |-> x.sel]
    OBVIOUS
  <2>1. PICK c : c = CHOOSE y \in spec.groups : plan.named[y.name] = g  OBVIOUS
  <2>2. c \in spec.groups /\ plan.named[c.name] = g
    BY <2>1, Zenon
  <2>3. c = x
    BY <1>12, <2>2
  <2>4. groups'[g] = [name |-> c.name, sel |-> c.sel]
    BY <1>6, <2>1, Zenon
  <2> QED  BY <2>3, <2>4
<1>14. \A g \in Gids : groups'[g] # None <=> \E x \in spec.groups : plan.named[x.name] = g
  <2> TAKE g \in Gids
  <2>1. CASE \E x \in spec.groups : plan.named[x.name] = g
    <3>1. PICK x \in spec.groups : plan.named[x.name] = g
      BY <2>1
    <3>2. [name |-> x.name, sel |-> x.sel] \in GroupRow
      BY <1>2 DEF Directory, GroupFile, GroupRow
    <3> QED  BY <1>13, <3>1, <3>2, NoneIsNone
  <2>2. CASE ~\E x \in spec.groups : plan.named[x.name] = g
    <3>1. groups'[g] = IF seen.groups[g] # None THEN None ELSE groups[g]
      BY <1>6, <2>2
    <3> QED  BY <1>3, <1>4, <2>2, <3>1
  <2> QED  BY <2>1, <2>2
<1>15. assigned' = Assignments(spec, seen, plan)
  BY DEF Apply
<1>16. Described(rows', groups', assigned', spec, seen, plan)
  BY <1>9, <1>11, <1>13, <1>14, <1>15 DEF Described
<1> QED  BY <1>2, <1>3, <1>10, <1>16

LEMMA ApplyTables ==
    ASSUME IInv, NEW j \in Jobs, Apply(j)
    PROVE  TypedTables(rows', groups', assigned', files')
<1>1. PICK spec, seen, plan : spec = jobs[j].spec /\ seen = jobs[j].seen /\ plan = jobs[j].plan  OBVIOUS
<1>2. /\ spec \in Directory /\ seen \in Tables /\ plan \in Plans
      /\ SpecOK(spec) /\ SeenOK(seen) /\ PlanOK(spec, seen, plan)
      /\ RowsIn(rows) = RowsIn(seen.rows) /\ RowsIn(groups) = RowsIn(seen.groups)
      /\ \A i \in RowsIn(rows) : rows'[i] = IF i \in plan.kept THEN rows[i] ELSE None
      /\ Described(rows', groups', assigned', spec, seen, plan)
  BY <1>1, ApplyDescribes
<1>3. /\ jobs[j] \in Job /\ TablesOK(jobs[j], rows, files) /\ jobs[j].pc = "apply" /\ jobs[j].todo = {}
      /\ files' = files
  BY DEF IInv, TypeOK, JobsOK, JobOK, Apply, Reconciling
<1>4. /\ plan.add \in [Keys -> Bids \cup {None}] /\ plan.kept \subseteq RowsIn(rows)
      /\ plan.named \in [Names -> Gids \cup {None}]
      /\ \A x \in spec.groups : x.name \in Names /\ x.uses \subseteq Keys
  BY <1>2 DEF Plans, Directory, GroupFile, PlanOK, Keeps
<1>5. \A k \in Keys : plan.add[k] # None => files[plan.add[k]] = Blob(spec.bundles[k])
  BY <1>1, <1>3 DEF TablesOK, Stored
<1>6. \A i \in plan.kept : plan.add[rows[i].key] = None /\ rows'[i] = rows[i] /\ rows[i] # None /\ i \in Bids
  BY <1>1, <1>2, <1>4, TablesAre DEF Apply, BundleClash
<1>7. \A i \in Bids : rows'[i] # None =>
        \/ i \in plan.kept
        \/ \E k \in Keys : /\ plan.add[k] = i /\ plan.add[k] # None /\ rows'[i].key = k
                           /\ rows'[i] = [key |-> k, blob |-> Blob(spec.bundles[k])]
                           /\ rows'[i] \in BundleRow /\ rows'[i].blob = files[i]
  <2> SUFFICES ASSUME NEW i \in Bids, rows'[i] # None, i \notin plan.kept
               PROVE  \E k \in Keys : /\ plan.add[k] = i /\ plan.add[k] # None /\ rows'[i].key = k
                           /\ rows'[i] = [key |-> k, blob |-> Blob(spec.bundles[k])]
                           /\ rows'[i] \in BundleRow /\ rows'[i].blob = files[i]
    OBVIOUS
  <2>1. PICK k \in Keys : plan.add[k] = i
    BY <1>2 DEF Described
  <2>2. plan.add[k] # None
    BY <2>1, NoneIsNone
  <2>3. PICK r : r = [key |-> k, blob |-> Blob(spec.bundles[k])]  OBVIOUS
  <2>4. rows'[i] = r
    BY <1>2, <2>1, <2>2, <2>3 DEF Described
  <2>5. spec.bundles[k] \in Content
    BY <1>2, <2>1, <2>2 DEF PlanOK, AddsRest, Listed, Directory
  <2>6. r \in BundleRow /\ r.key = k /\ r.blob = Blob(spec.bundles[k])
    BY <2>3, <2>5, BlobIs DEF BundleRow
  <2> QED  BY <1>5, <2>1, <2>2, <2>3, <2>4, <2>6
<1>8. rows' \in [Bids -> BundleRow \cup {None}]
  <2>1. \A i \in Bids : rows'[i] \in BundleRow \cup {None}
    BY <1>6, <1>7, TablesAre
  <2>2. rows' = [i \in Bids |-> rows'[i]]
    BY DEF Apply, BundlesAfter
  <2> QED  BY <2>1, <2>2
<1>9. \A g \in Gids : groups'[g] # None =>
        \E x \in spec.groups : /\ plan.named[x.name] = g /\ groups'[g] \in GroupRow /\ groups'[g].name = x.name
  <2> SUFFICES ASSUME NEW g \in Gids, groups'[g] # None
               PROVE  \E x \in spec.groups : /\ plan.named[x.name] = g /\ groups'[g] \in GroupRow
                                             /\ groups'[g].name = x.name
    OBVIOUS
  <2>1. PICK x \in spec.groups : plan.named[x.name] = g
    BY <1>2 DEF Described
  <2>2. PICK r : r = [name |-> x.name, sel |-> x.sel]  OBVIOUS
  <2>3. groups'[g] = r
    BY <1>2, <2>1, <2>2 DEF Described
  <2>4. r \in GroupRow /\ r.name = x.name
    BY <1>2, <2>2 DEF GroupRow, Directory, GroupFile
  <2> QED  BY <2>1, <2>3, <2>4
<1>10. groups' \in [Gids -> GroupRow \cup {None}]
  <2>1. \A g \in Gids : groups'[g] \in GroupRow \cup {None}
    BY <1>9
  <2>2. groups' = [g \in Gids |-> groups'[g]]
    BY DEF Apply, GroupsAfter
  <2> QED  BY <2>1, <2>2
<1>11. \A a \in assigned' : \E g \in Gids, i \in Bids : a = <<g, i>> /\ groups'[g] # None /\ rows'[i] # None
  <2> SUFFICES ASSUME NEW a \in assigned'
               PROVE  \E g \in Gids, i \in Bids : a = <<g, i>> /\ groups'[g] # None /\ rows'[i] # None
    OBVIOUS
  <2>0. assigned' = Assignments(spec, seen, plan)
    BY <1>2 DEF Described
  <2>1. PICK A : A = Assignments(spec, seen, plan)  OBVIOUS
  <2>2. Assigns(A, spec, seen, plan) /\ a \in A
    BY <1>2, <2>0, <2>1, AssignmentsAre
  <2>3. PICK x \in spec.groups : \E k \in x.uses, i \in Bids :
           /\ a = <<plan.named[x.name], i>>
           /\ plan.add[k] = i \/ (plan.add[k] = None /\ i \in plan.kept /\ seen.rows[i].key = k)
    BY <2>2 DEF Assigns
  <2>4. PICK k \in x.uses, i \in Bids :
           /\ a = <<plan.named[x.name], i>>
           /\ plan.add[k] = i \/ (plan.add[k] = None /\ i \in plan.kept /\ seen.rows[i].key = k)
    BY <2>3
  <2>5. plan.named[x.name] \in Gids
    BY <1>2, <1>4 DEF PlanOK, NamesAll
  <2>6. groups'[plan.named[x.name]] # None
    BY <1>2, <2>5 DEF Described
  <2>7. rows'[i] # None
    BY <1>2, <1>4, <2>4 DEF Described
  <2> QED  BY <2>4, <2>5, <2>6, <2>7
<1>12. \A i \in Bids : rows'[i] # None => files'[i] = rows'[i].blob
  BY <1>3, <1>6, <1>7, TablesAre
<1>13. \A i, x \in Bids : rows'[i] # None /\ rows'[x] # None /\ rows'[i].key = rows'[x].key => i = x
  <2> SUFFICES ASSUME NEW i \in Bids, NEW x \in Bids, rows'[i] # None, rows'[x] # None, rows'[i].key = rows'[x].key
               PROVE  i = x
    OBVIOUS
  <2>1. CASE i \in plan.kept /\ x \in plan.kept
    BY <1>6, <2>1, TablesAre
  <2>11. \A y \in plan.kept : plan.add[rows'[y].key] = None
    BY <1>6
  <2>12. \A y \in Bids : rows'[y] # None /\ y \notin plan.kept => plan.add[rows'[y].key] # None
    <3> TAKE y \in Bids
    <3> HAVE rows'[y] # None /\ y \notin plan.kept
    <3>1. PICK k \in Keys : plan.add[k] # None /\ rows'[y].key = k
      BY <1>7
    <3> QED  BY <3>1, Zenon
  <2>2. CASE i \in plan.kept /\ x \notin plan.kept
    BY <2>2, <2>11, <2>12, Zenon
  <2>3. CASE i \notin plan.kept /\ x \in plan.kept
    BY <2>3, <2>11, <2>12, Zenon
  <2>4. CASE i \notin plan.kept /\ x \notin plan.kept
    <3>1. PICK k \in Keys : plan.add[k] = i /\ rows'[i].key = k
      BY <1>7, <2>4
    <3>2. PICK m \in Keys : plan.add[m] = x /\ rows'[x].key = m
      BY <1>7, <2>4
    <3> QED  BY <3>1, <3>2, Zenon
  <2> QED  BY <2>1, <2>2, <2>3, <2>4
<1>14. \A g, h \in Gids : groups'[g] # None /\ groups'[h] # None /\ groups'[g].name = groups'[h].name => g = h
  BY <1>9
<1> QED  BY <1>3, <1>8, <1>10, <1>11, <1>12, <1>13, <1>14, TablesAre DEF TypedTables

LEMMA ApplyStep ==
    ASSUME IInv, NEW j \in Jobs, Apply(j)
    PROVE  IInv'
<1>1. PICK spec, seen, plan, q : /\ spec = jobs[j].spec /\ seen = jobs[j].seen /\ plan = jobs[j].plan
                                 /\ q = [jobs[j] EXCEPT !.pc = "cleanup"]
  OBVIOUS
<1>2. /\ PlanOK(spec, seen, plan) /\ plan \in Plans /\ seen \in Tables
      /\ RowsIn(rows) = RowsIn(seen.rows)
      /\ \A i \in RowsIn(rows) : rows'[i] = IF i \in plan.kept THEN rows[i] ELSE None
      /\ Described(rows', groups', assigned', spec, seen, plan)
  BY <1>1, ApplyDescribes
<1>3. /\ jobs[j] \in Job /\ JobOK(jobs[j]) /\ TablesOK(jobs[j], rows, files) /\ jobs[j].pc = "apply"
      /\ jobs[j].op \in {"startup", "reload", "import"}
      /\ UNCHANGED <<managed, dir, files, due, load>>
      /\ \A x \in Jobs : jobs[x] \in Job /\ JobOK(jobs[x]) /\ TablesOK(jobs[x], rows, files)
      /\ Apart(rows, jobs)
  BY DEF IInv, TypeOK, JobsOK, Apply, Reconciling
<1>4. jobs' = [x \in Jobs |-> IF x = j THEN q ELSE [jobs[x] EXCEPT !.calm = jobs[x].op # "export"]]
  BY <1>1 DEF Apply
<1>5. /\ q \in Job /\ q.pc = "cleanup" /\ q.op = jobs[j].op /\ q.spec = spec /\ q.seen = seen /\ q.plan = plan
  BY <1>1, <1>3 DEF Job
<1>6. \A x \in Jobs : x # j => jobs'[x] \in Job /\ Alike(jobs'[x], jobs[x])
  <2> TAKE x \in Jobs
  <2>1. PICK p, r : p = jobs[x] /\ r = jobs'[x]  OBVIOUS
  <2>2. x # j => r = [p EXCEPT !.calm = p.op # "export"]
    BY <1>4, <2>1
  <2> QED  BY <1>3, <2>1, <2>2, CalmOK
<1>7. jobs'[j] = q
  BY <1>4
<1>8. jobs' \in [Jobs -> Job]
  <2>1. \A x \in Jobs : jobs'[x] \in Job
    BY <1>5, <1>6, <1>7
  <2>2. jobs' = [x \in Jobs |-> jobs'[x]]
    BY <1>4
  <2> QED  BY <2>1, <2>2
<1>9. TypeOK' /\ RowsHaveBytes'
  <2>1. TypedTables(rows', groups', assigned', files')
    BY ApplyTables
  <2>2. managed' \in BOOLEAN /\ due' \in BOOLEAN /\ dir' \in Dirs /\ load' \in [Work -> Nat]
    BY <1>3 DEF IInv, TypeOK
  <2> QED  BY <1>8, <2>1, <2>2, TypedNext
<1>10. PICK R2, J2 : R2 = rows' /\ J2 = jobs'  OBVIOUS
<1>11. \A i \in Bids : R2[i] # None => rows[i] # None \/ i \in Adds(jobs[j])
  <2>1. \A i \in Bids : R2[i] # None => i \in plan.kept \/ \E k \in Keys : plan.add[k] = i
    BY <1>2, <1>10 DEF Described
  <2>2. plan.kept \subseteq RowsIn(rows)
    BY <1>2 DEF PlanOK, Keeps
  <2> QED  BY <1>1, <2>1, <2>2, TablesAre, NoneIsNone DEF Adds
<1>12. \A i \in Adds(jobs[j]) : rows[i] = None /\ \A x \in Jobs : jobs[x].seen.rows[i] = None
  BY <1>3 DEF Apart, Pending
<1>13. \A x \in Jobs : x # j => TablesOK(jobs[x], R2, files)
  <2> SUFFICES ASSUME NEW x \in Jobs, x # j PROVE TablesOK(jobs[x], R2, files)
    OBVIOUS
  <2>1. RowsIn(jobs[x].seen.rows) \subseteq Bids
    BY <1>3, AddsIs
  <2>2. \A i \in Bids : jobs[x].seen.rows[i] # None /\ R2[i] # None => rows[i] # None
    BY <1>11, <1>12
  <2>3. \A i \in RowsIn(jobs[x].seen.rows) : files[i] \in {files[i], None}
    OBVIOUS
  <2> QED  BY <1>3, <2>1, <2>2, <2>3, TablesStay
<1>14. JobOK(q) /\ TablesOK(q, R2, files)
  <2>1. JobOK(q)
    BY <1>1, <1>3, <1>5 DEF JobOK, Planned, Pending
  <2>2. Replaced(q, R2)
    BY <1>2, <1>5, <1>10 DEF Replaced
  <2>3. SeenBytes(q, files)
    BY <1>1, <1>3, <1>5 DEF TablesOK, SeenBytes
  <2> QED  BY <1>5, <2>1, <2>2, <2>3 DEF TablesOK, Stored, KeepsAll
<1>15. JobsOK'
  <2> SUFFICES ASSUME NEW x \in Jobs PROVE JobOK(J2[x]) /\ TablesOK(J2[x], R2, files)
    BY <1>3, <1>10 DEF JobsOK
  <2>1. CASE x = j
    <3>1. J2[x] = q
      BY <1>7, <1>10, <2>1
    <3> QED  BY <1>14, <3>1, Zenon
  <2>2. CASE x # j
    <3>1. Alike(J2[x], jobs[x]) /\ JobOK(jobs[x]) /\ TablesOK(jobs[x], R2, files)
      BY <1>3, <1>6, <1>10, <1>13, <2>2
    <3> QED  BY <3>1, AlikeOK
  <2> QED  BY <2>1, <2>2
<1>16. Apart(R2, J2)
  <2>1. \A x \in Jobs : /\ Adds(J2[x]) = Adds(jobs[x]) /\ J2[x].seen = jobs[x].seen
                        /\ IF x = j THEN J2[x].pc = "cleanup" ELSE J2[x].pc = jobs[x].pc
    <3> TAKE x \in Jobs
    <3>1. CASE x = j
      <4>1. J2[x] = q
        BY <1>7, <1>10, <3>1
      <4>2. q.plan = jobs[j].plan /\ q.seen = jobs[j].seen /\ q.pc = "cleanup"
        BY <1>1, <1>5, Zenon
      <4>3. Adds(q) = Adds(jobs[j])
        BY <4>2, Zenon DEF Adds
      <4> QED  BY <3>1, <4>1, <4>2, <4>3, Zenon
    <3>2. CASE x # j
      <4>1. Alike(J2[x], jobs[x])
        BY <1>6, <1>10, <3>2
      <4> QED  BY <3>2, <4>1, AlikeOK DEF Alike
    <3> QED  BY <3>1, <3>2
  <2>2. \A x \in Jobs : Adds(jobs[x]) \subseteq Bids
    BY <1>3, AddsIs
  <2>3. \A i \in Bids : R2[i] # None => rows[i] # None \/ \A x \in Jobs : J2[x].pc \in Pending => i \notin Adds(jobs[x])
    BY <1>3, <1>11, <2>1 DEF Apart, Pending
  <2>4. Respects(rows, jobs, R2, J2, j, {})
    BY <2>1, <2>2, <2>3 DEF Respects, Pending
  <2> QED  BY <1>3, <2>4, ApartStays
<1> QED  BY <1>9, <1>10, <1>15, <1>16 DEF IInv

-------------------------------------------------------------------------------
(* The invariant.                                                          *)

\* The tables of a directory that was loaded before: id and gid are the ids it got.
Placed(d, id, gid) ==
    /\ d.bundles \in [Keys -> Content \cup {None}] /\ d.groups \subseteq GroupFile
    /\ id \in [Listed(d.bundles) -> Bids] /\ gid \in [d.groups -> Gids]
    /\ \A x, y \in d.groups : gid[x] = gid[y] => x = y
    /\ \A k \in Listed(d.bundles) : rows[id[k]] \in BundleRow /\ rows[id[k]].key = k
                                    /\ rows[id[k]].blob = Blob(d.bundles[k])
    /\ \A i \in Bids : rows[i] # None => \E k \in Listed(d.bundles) : id[k] = i
    /\ \A x \in d.groups : groups[gid[x]] \in GroupRow /\ groups[gid[x]].name = Trim[x.name]
                           /\ groups[gid[x]].sel = x.sel
    /\ \A g \in Gids : groups[g] # None => \E x \in d.groups : gid[x] = g
    /\ assigned = UNION {{<<gid[x], id[k]>> : k \in x.uses} : x \in d.groups}
    /\ DOMAIN rows = Bids /\ rows = [i \in Bids |-> rows[i]]
    /\ DOMAIN groups = Gids /\ groups = [g \in Gids |-> groups[g]]
    /\ files = [i \in Bids |-> IF rows[i] = None THEN None ELSE rows[i].blob]

LEMMA InitPlaced ==
    ASSUME Init
    PROVE  /\ dir \in Directory /\ Loads(dir.bundles, dir.groups)
           /\ \E id, gid : Placed(dir, id, gid)
<1>1. PICK d : d = dir  OBVIOUS
<1>2. /\ d \in Directory /\ Loads(d.bundles, d.groups) /\ Loaded(d)
      /\ Enough(Listed(d.bundles), Bids) /\ Enough(d.groups, Gids)
  BY <1>1, DirsAssumption, StartsAssumption DEF Init
<1>3. PICK id, gid : id = Injection(Listed(d.bundles), Bids) /\ gid = Injection(d.groups, Gids)  OBVIOUS
<1>4. /\ id \in [Listed(d.bundles) -> Bids] /\ gid \in [d.groups -> Gids]
      /\ \A k, m \in Listed(d.bundles) : id[k] = id[m] => k = m
      /\ \A x, y \in d.groups : gid[x] = gid[y] => x = y
  BY <1>2, <1>3, InjectionIs
<1>5. /\ rows = [i \in Bids |-> IF \E k \in DOMAIN id : id[k] = i
                     THEN LET k == CHOOSE x \in DOMAIN id : id[x] = i
                          IN  [key |-> k, blob |-> Blob(d.bundles[k])] ELSE None]
      /\ groups = [g \in Gids |-> IF \E x \in d.groups : gid[x] = g
                     THEN LET x == CHOOSE y \in d.groups : gid[y] = g
                          IN  [name |-> Trim[x.name], sel |-> x.sel] ELSE None]
      /\ assigned = UNION {{<<gid[x], id[k]>> : k \in x.uses} : x \in d.groups}
      /\ files = [i \in Bids |-> IF rows[i] = None THEN None ELSE rows[i].blob]
  BY <1>2, <1>3 DEF Loaded
<1>6. /\ d.bundles \in [Keys -> Content \cup {None}] /\ d.groups \subseteq GroupFile
      /\ Listed(d.bundles) \subseteq Keys /\ DOMAIN id = Listed(d.bundles)
  BY <1>2, <1>4 DEF Directory, Listed
<1>7. \A k \in Listed(d.bundles) : /\ rows[id[k]] \in BundleRow /\ rows[id[k]].key = k
                                   /\ rows[id[k]].blob = Blob(d.bundles[k])
  <2> TAKE k \in Listed(d.bundles)
  <2>1. PICK i \in Bids : i = id[k]
    BY <1>4
  <2>2. PICK c : c = CHOOSE x \in DOMAIN id : id[x] = i  OBVIOUS
  <2>3. c \in Listed(d.bundles) /\ id[c] = i
    BY <1>6, <2>1, <2>2, Zenon
  <2>4. c = k
    BY <1>4, <2>1, <2>3
  <2>5. PICK r : r = [key |-> c, blob |-> Blob(d.bundles[c])]  OBVIOUS
  <2>6. rows[i] = r
    <3>1. \E x \in DOMAIN id : id[x] = i
      BY <1>6, <2>1
    <3>2. rows = [b \in Bids |-> IF \E x \in DOMAIN id : id[x] = b
                     THEN LET x == CHOOSE y \in DOMAIN id : id[y] = b
                          IN  [key |-> x, blob |-> Blob(d.bundles[x])] ELSE None]
      BY <1>5
    <3> QED  BY <3>1, <3>2, <2>2, <2>5, Zenon
  <2>7. d.bundles[k] \in Content
    BY <1>6 DEF Listed
  <2>8. r \in BundleRow /\ r.key = k /\ r.blob = Blob(d.bundles[k])
    BY <2>4, <2>5, <2>7, <1>6, BlobIs DEF BundleRow
  <2> QED  BY <2>1, <2>6, <2>8
<1>8. \A i \in Bids : rows[i] # None => \E k \in Listed(d.bundles) : id[k] = i
  BY <1>5, <1>6
<1>9. \A x \in d.groups : /\ groups[gid[x]] \in GroupRow /\ groups[gid[x]].name = Trim[x.name]
                          /\ groups[gid[x]].sel = x.sel
  <2> TAKE x \in d.groups
  <2>1. PICK g \in Gids : g = gid[x]
    BY <1>4
  <2>2. PICK c : c = CHOOSE y \in d.groups : gid[y] = g  OBVIOUS
  <2>3. c \in d.groups /\ gid[c] = g
    BY <2>1, <2>2, Zenon
  <2>4. c = x
    BY <1>4, <2>1, <2>3
  <2>5. PICK r : r = [name |-> Trim[c.name], sel |-> c.sel]  OBVIOUS
  <2>6. groups[g] = r
    <3>1. groups = [h \in Gids |-> IF \E y \in d.groups : gid[y] = h
                     THEN LET y == CHOOSE z \in d.groups : gid[z] = h
                          IN  [name |-> Trim[y.name], sel |-> y.sel] ELSE None]
      BY <1>5
    <3> QED  BY <3>1, <2>1, <2>2, <2>5, Zenon
  <2>7. r \in GroupRow /\ r.name = Trim[x.name] /\ r.sel = x.sel
    BY <2>4, <2>5, <1>6, FilesAssumption DEF GroupRow, GroupFile
  <2> QED  BY <2>1, <2>6, <2>7
<1>10. \A g \in Gids : groups[g] # None => \E x \in d.groups : gid[x] = g
  BY <1>5
<1>11. /\ DOMAIN rows = Bids /\ rows = [i \in Bids |-> rows[i]]
       /\ DOMAIN groups = Gids /\ groups = [g \in Gids |-> groups[g]]
  BY <1>5
<1>12. Placed(d, id, gid)
  BY <1>4, <1>5, <1>6, <1>7, <1>8, <1>9, <1>10, <1>11, Zenon DEF Placed
<1> QED  BY <1>1, <1>2, <1>12

LEMMA InitTables ==
    ASSUME Init
    PROVE  TypedTables(rows, groups, assigned, files)
<1>1. PICK d : d = dir  OBVIOUS
<1>2. Loads(d.bundles, d.groups)
  BY <1>1, InitPlaced
<1>3. PICK id, gid : Placed(d, id, gid)
  BY <1>1, InitPlaced
<1>4. \A k \in Listed(d.bundles) : /\ rows[id[k]] \in BundleRow /\ rows[id[k]].key = k /\ id[k] \in Bids
                                   /\ rows[id[k]].blob \in Blobs
  BY <1>3 DEF Placed, BundleRow
<1>5. \A i \in Bids : rows[i] # None => \E k \in Listed(d.bundles) : id[k] = i
  BY <1>3 DEF Placed
<1>6. \A x \in d.groups : groups[gid[x]] \in GroupRow /\ groups[gid[x]].name = Trim[x.name] /\ gid[x] \in Gids
  BY <1>3 DEF Placed
<1>7. \A g \in Gids : groups[g] # None => \E x \in d.groups : gid[x] = g
  BY <1>3 DEF Placed
<1>8. rows \in [Bids -> BundleRow \cup {None}] /\ groups \in [Gids -> GroupRow \cup {None}]
  <2>1. \A i \in Bids : rows[i] \in BundleRow \cup {None}
    BY <1>4, <1>5
  <2>2. \A g \in Gids : groups[g] \in GroupRow \cup {None}
    BY <1>6, <1>7
  <2>3. rows = [i \in Bids |-> rows[i]] /\ groups = [g \in Gids |-> groups[g]]
    BY <1>3 DEF Placed
  <2> QED  BY <2>1, <2>2, <2>3
<1>9. files \in [Bids -> Blobs \cup {None}] /\ \A i \in Bids : rows[i] # None => files[i] = rows[i].blob
  <2>1. files = [i \in Bids |-> IF rows[i] = None THEN None ELSE rows[i].blob]
    BY <1>3 DEF Placed
  <2>2. \A i \in Bids : rows[i] # None => rows[i].blob \in Blobs
    BY <1>4, <1>5
  <2> QED  BY <2>1, <2>2
<1>10. \A a \in assigned : \E g \in Gids, i \in Bids : a = <<g, i>> /\ groups[g] # None /\ rows[i] # None
  <2>1. \A x \in d.groups : x.uses \subseteq Listed(d.bundles)
    BY <1>2 DEF Loads
  <2>2. \A x \in d.groups, k \in Listed(d.bundles) : gid[x] \in Gids /\ id[k] \in Bids
                                                     /\ groups[gid[x]] # None /\ rows[id[k]] # None
    BY <1>4, <1>6, NoneIsNone
  <2>3. assigned = UNION {{<<gid[x], id[k]>> : k \in x.uses} : x \in d.groups}
    BY <1>3 DEF Placed
  <2> QED  BY <2>1, <2>2, <2>3
<1>11. \A i, j \in Bids : rows[i] # None /\ rows[j] # None /\ rows[i].key = rows[j].key => i = j
  BY <1>4, <1>5
<1>12. \A g, h \in Gids : groups[g] # None /\ groups[h] # None /\ groups[g].name = groups[h].name => g = h
  <2>1. \A x, y \in d.groups : Trim[x.name] = Trim[y.name] => x = y
    BY <1>2 DEF Loads, GroupsLoad
  <2> QED  BY <1>6, <1>7, <2>1
<1> QED  BY <1>8, <1>9, <1>10, <1>11, <1>12 DEF TypedTables

LEMMA InitOK == Init => IInv
<1> SUFFICES ASSUME Init PROVE IInv
  OBVIOUS
<1>1. TypedTables(rows, groups, assigned, files)
  BY InitTables
<1>2. /\ managed \in BOOLEAN /\ due \in BOOLEAN /\ dir \in Dirs /\ load \in [Work -> Nat]
      /\ jobs = [j \in Jobs |-> Idle]
  BY DirsAssumption, WorkAssumption DEF Init
<1>3. RowsIn(rows) = {i \in Bids : rows[i] # None} /\ RowsIn(groups) = {g \in Gids : groups[g] # None}
  BY <1>1 DEF TypedTables, RowsIn
<1>4. assigned \subseteq RowsIn(groups) \X RowsIn(rows)
  BY <1>1, <1>3 DEF TypedTables
<1>5. jobs \in [Jobs -> Job]
  BY <1>2, IdleOK
<1>6. TypeOK
  BY <1>1, <1>2, <1>3, <1>4, <1>5 DEF TypedTables, TypeOK
<1>7. RowsHaveBytes
  BY <1>1, <1>3 DEF TypedTables, RowsHaveBytes
<1>8. JobsOK
  BY <1>2, IdleOK DEF JobsOK
<1>9. Apart(rows, jobs)
  <2>1. Adds(Idle) = {}
    BY IdleOK, AddsIs DEF Idle
  <2> QED  BY <1>2, <2>1 DEF Apart
<1> QED  BY <1>6, <1>7, <1>8, <1>9 DEF IInv

LEMMA StepOK ==
    ASSUME IInv, NEW j \in Jobs, Step(j)
    PROVE  IInv'
BY LoadBundlesStep, LoadGroupsStep, ReadTablesStep, PlanStep, PutStep, ApplyStep, ApplyFailsStep, DiscardStep,
   ExportWriteStep, ExportDoneStep DEF Step

LEMMA NextOK == IInv /\ [Next]_vars => IInv'
<1> SUFFICES ASSUME IInv, [Next]_vars PROVE IInv'
  OBVIOUS
<1>1. CASE Publish  BY <1>1, PublishStep
<1>2. ASSUME NEW j \in Jobs, Reload(j) \/ Command(j) \/ Restart(j) \/ HangUp(j) \/ Step(j) PROVE IInv'
  BY <1>2, ReloadStep, CommandStep, RestartStep, HangUpStep, StepOK
<1>3. ASSUME NEW k \in Keys, NEW b \in Blobs, Upload(k, b) PROVE IInv'
  BY <1>3, UploadStep
<1>4. ASSUME NEW i \in Bids, DeleteBundle(i) PROVE IInv'
  BY <1>4, DeleteBundleStep
<1>5. ASSUME NEW i \in Bids, NEW k \in Keys, RenameBundle(i, k) PROVE IInv'
  BY <1>5, RenameBundleStep
<1>6. ASSUME NEW n \in Names, NEW s \in Sels, CreateGroup(n, s) PROVE IInv'
  BY <1>6, CreateGroupStep
<1>7. ASSUME NEW n \in Names, NEW s \in Sels, NEW g \in Gids, PatchGroup(g, n, s) PROVE IInv'
  BY <1>7, PatchGroupStep
<1>8. ASSUME NEW g \in Gids, DeleteGroup(g) PROVE IInv'
  BY <1>8, DeleteGroupStep
<1>9. ASSUME NEW g \in Gids, NEW i \in Bids, Assign(g, i) PROVE IInv'
  BY <1>9, AssignStep
<1>10. CASE UNCHANGED vars
  BY <1>10 DEF vars, IInv, TypeOK, RowsHaveBytes, JobsOK, tables
<1> QED  BY <1>1, <1>2, <1>3, <1>4, <1>5, <1>6, <1>7, <1>8, <1>9, <1>10 DEF Next

\* The inductive invariant of tables, files and jobs: a plan that is under way is right about
\* the lists it was made from, its new ids are its own, and what it still has to put or to
\* discard lies where no row is.
THEOREM Invariance == Spec => []IInv
BY InitOK, NextOK, PTL DEF Spec

\* The tables keep their types, keys and references, and the jobs are where the code can be.
THEOREM TypeCorrect == Spec => []TypeOK
<1>1. IInv => TypeOK
  BY DEF IInv
<1> QED  BY <1>1, Invariance, PTL

\* A row is never visible without its file, however reloads, imports, restarts, failures,
\* hang-ups and edits interleave.
THEOREM Bytes == Spec => []RowsHaveBytes
<1>1. IInv => RowsHaveBytes
  BY DEF IInv
<1> QED  BY <1>1, Invariance, PTL

\* From "apply" to "cleanup" there is only the transaction.
LEMMA OnlyApply ==
    ASSUME IInv, [Next]_vars, NEW j \in Jobs, jobs[j].pc = "apply", jobs'[j].pc = "cleanup"
    PROVE  Apply(j)
<1>1. /\ jobs[j] \in Job /\ JobOK(jobs[j]) /\ \A x \in Jobs : jobs[x] \in Job
      /\ jobs \in [Jobs -> Job]
  BY DEF IInv, TypeOK, JobsOK
<1>2. jobs[j].op # "none" /\ jobs[j].op # "export" /\ Idle.pc = "idle"
  BY <1>1 DEF JobOK, Idle
<1>3. CASE Publish \/ Edit
  <2>1. jobs'[j] = [jobs[j] EXCEPT !.stale = jobs[j].op \in {"reload", "startup"}]
          \/ jobs'[j] = [jobs[j] EXCEPT !.calm = jobs[j].op # "export"]
    BY <1>3 DEF Publish, Edit
  <2>2. jobs'[j].pc = jobs[j].pc
    BY <1>1, <2>1 DEF Job
  <2> QED  BY <2>2
<1>4. ASSUME NEW x \in Jobs, NEW q, Goto(x, q) PROVE x = j /\ q.pc = "cleanup"
  BY <1>1, <1>4 DEF Goto
<1>5. ASSUME NEW x \in Jobs, Reload(x) \/ Command(x) \/ HangUp(x) PROVE FALSE
  <2>1. CASE HangUp(x)
    BY <2>1, <1>2, <1>4 DEF HangUp
  <2>2. CASE Reload(x)
    BY <2>2, <1>2, <1>4 DEF Reload
  <2>3. CASE Command(x)
    BY <2>3, <1>2, <1>4 DEF Command
  <2> QED  BY <1>5, <2>1, <2>2, <2>3
<1>6. ASSUME NEW x \in Jobs, Restart(x) PROVE FALSE
  <2>1. jobs'[j].pc \in {"load", "idle"}
    BY <1>6, <1>2 DEF Restart, Idle
  <2> QED  BY <2>1
<1>7. ASSUME NEW x \in Jobs, Apply(x), x # j PROVE FALSE
  <2>1. jobs'[j] = [jobs[j] EXCEPT !.calm = jobs[j].op # "export"]
    BY <1>7 DEF Apply
  <2>2. jobs'[j].pc = jobs[j].pc
    BY <1>1, <2>1 DEF Job
  <2> QED  BY <2>2
<1>8. ASSUME NEW x \in Jobs, NEW ok, Ended(x, ok) PROVE FALSE
  BY <1>2, <1>4, <1>8 DEF Ended
<1>9. ASSUME NEW x \in Jobs, Step(x) PROVE x = j
  <2> SUFFICES ASSUME x # j PROVE FALSE
    OBVIOUS
  <2>1. ASSUME NEW q, Goto(x, q) PROVE FALSE
    BY <1>4, <2>1
  <2> QED  BY <1>7, <1>8, <1>9, <2>1 DEF Step, LoadBundles, LoadGroups, ReadTables, Plan, Put, ApplyFails, Discard,
                                 ExportWrite, ExportDone
<1>10. Step(j) => Apply(j)
  <2>1. ApplyFails(j) => FALSE
    <3>1. PICK q : q = [jobs[j] EXCEPT !.pc = "discard"]  OBVIOUS
    <3>2. q.pc = "discard"
      BY <1>1, <3>1 DEF Job
    <3> QED  BY <1>4, <3>1, <3>2 DEF ApplyFails
  <2> QED  BY <1>2, <2>1 DEF Step, LoadBundles, LoadGroups, ReadTables, Plan, Put, Discard, Reconciling,
                       ExportWrite, ExportDone
<1>11. CASE UNCHANGED vars
  BY <1>11 DEF vars
<1>12. CASE Next
  <2>1. \/ Publish \/ Edit
        \/ \E x \in Jobs : Reload(x) \/ Command(x) \/ Restart(x) \/ HangUp(x) \/ Step(x)
    BY <1>12 DEF Next, Upload, DeleteBundle, RenameBundle, CreateGroup, PatchGroup, DeleteGroup, Assign
  <2> QED  BY <1>3, <1>5, <1>6, <1>9, <1>10, <2>1
<1> QED  BY <1>11, <1>12

\* A plan that is applied makes the tables what was read from the directory.
THEOREM Applied == Spec => AppliesWhole
<1> DEFINE Whole(j) ==
      (jobs[j].pc = "apply" /\ jobs'[j].pc = "cleanup"
         /\ \A i \in jobs[j].plan.kept : rows[i] = jobs[j].seen.rows[i])
         => Matches(Shown', jobs[j].spec)
<1>1. ASSUME IInv, [Next]_vars, NEW j \in Jobs PROVE Whole(j)
  <2> SUFFICES ASSUME jobs[j].pc = "apply", jobs'[j].pc = "cleanup",
                      \A i \in jobs[j].plan.kept : rows[i] = jobs[j].seen.rows[i]
               PROVE  Matches(Shown', jobs[j].spec)
    OBVIOUS
  <2>1. Apply(j)
    BY <1>1, OnlyApply
  <2>2. PICK spec, seen, plan : spec = jobs[j].spec /\ seen = jobs[j].seen /\ plan = jobs[j].plan  OBVIOUS
  <2>3. /\ spec \in Directory /\ seen \in Tables /\ plan \in Plans
        /\ SpecOK(spec) /\ PlanOK(spec, seen, plan)
        /\ RowsIn(rows) = RowsIn(seen.rows)
        /\ \A i \in RowsIn(rows) : rows'[i] = IF i \in plan.kept THEN rows[i] ELSE None
        /\ Described(rows', groups', assigned', spec, seen, plan)
    BY <1>1, <2>1, <2>2, ApplyDescribes
  <2>4. TypedTables(rows', groups', assigned', files')
    BY <1>1, <2>1, ApplyTables
  <2>5. PICK R, G, A : R = rows' /\ G = groups' /\ A = assigned'  OBVIOUS
  <2>6. R \in [Bids -> BundleRow \cup {None}] /\ G \in [Gids -> GroupRow \cup {None}]
    BY <2>4, <2>5 DEF TypedTables
  <2>7. \A i \in plan.kept : R[i] = seen.rows[i]
    BY <2>2, <2>3, <2>5 DEF PlanOK, Keeps
  <2>8. Matches(ShownOf(R, G, A), spec)
    BY <2>3, <2>5, <2>6, <2>7, DescribedMatches
  <2>9. Shown' = ShownOf(R, G, A)
    BY <2>5 DEF Shown, ShownOf
  <2> QED  BY <2>2, <2>8, <2>9
<1>2. IInv /\ [Next]_vars => [\A j \in Jobs : Whole(j)]_vars
  BY <1>1
<1> QED  BY <1>2, Invariance, PTL DEF Spec, AppliesWhole

\* What the directory did not change keeps its id.
THEOREM Survive == Spec => IdsSurvive
<1> DEFINE Kept(j) ==
      (jobs[j].pc = "apply" /\ jobs'[j].pc = "cleanup" /\ ~jobs[j].blind)
        => /\ \A i \in RowsIn(rows) :
                LET c == jobs[j].spec.bundles[rows[i].key]
                IN  (/\ rows[i] = jobs[j].seen.rows[i] /\ c # None
                     /\ rows[i].blob = Blob(c) \/ (c.kind = "tree" /\ Unzip[rows[i].blob] = c.is))
                      => rows'[i] = rows[i]
           /\ \A g \in RowsIn(groups) :
                groups[g] = jobs[j].seen.groups[g] =>
                  \A x \in jobs[j].spec.groups : x.name = groups[g].name => groups'[g] # None
<1>1. ASSUME IInv, [Next]_vars, NEW j \in Jobs PROVE Kept(j)
  <2> SUFFICES ASSUME jobs[j].pc = "apply", jobs'[j].pc = "cleanup", ~jobs[j].blind
               PROVE  /\ \A i \in RowsIn(rows) :
                           (/\ rows[i] = jobs[j].seen.rows[i] /\ jobs[j].spec.bundles[rows[i].key] # None
                            /\ Same(rows[i].blob, jobs[j].spec.bundles[rows[i].key]))
                              => rows'[i] = rows[i]
                      /\ \A g \in RowsIn(groups) :
                           groups[g] = jobs[j].seen.groups[g] =>
                             \A x \in jobs[j].spec.groups : x.name = groups[g].name => groups'[g] # None
    BY DEF Same
  <2>1. Apply(j)
    BY <1>1, OnlyApply
  <2>2. PICK spec, seen, plan : spec = jobs[j].spec /\ seen = jobs[j].seen /\ plan = jobs[j].plan  OBVIOUS
  <2>3. /\ spec \in Directory /\ PlanOK(spec, seen, plan)
        /\ RowsIn(rows) = RowsIn(seen.rows) /\ RowsIn(groups) = RowsIn(seen.groups)
        /\ \A i \in RowsIn(rows) : rows'[i] = IF i \in plan.kept THEN rows[i] ELSE None
        /\ Described(rows', groups', assigned', spec, seen, plan)
    BY <1>1, <2>1, <2>2, ApplyDescribes
  <2>4. KeepsAll(jobs[j], rows)
    BY <1>1 DEF IInv, JobsOK, TablesOK
  <2>5. ASSUME NEW i \in RowsIn(rows), rows[i] = seen.rows[i], spec.bundles[rows[i].key] # None,
               Same(rows[i].blob, spec.bundles[rows[i].key])
        PROVE  rows'[i] = rows[i]
    <3>1. i \in Bids /\ rows[i] # None /\ rows[i].key \in Keys
      BY <1>1, TablesAre DEF BundleRow
    <3>2. i \in plan.kept
      BY <2>2, <2>4, <2>5, <3>1 DEF KeepsAll, Listed
    <3> QED  BY <2>3, <3>2
  <2>6. ASSUME NEW g \in RowsIn(groups), groups[g] = seen.groups[g], NEW x \in spec.groups, x.name = groups[g].name
        PROVE  groups'[g] # None
    <3>1. g \in Gids /\ x.name \in Names
      BY <1>1, <2>3, TablesAre DEF Directory, GroupFile
    <3>2. plan.named[x.name] = g
      BY <2>3, <2>6, <3>1 DEF PlanOK, NamesAll
    <3> QED  BY <2>3, <3>1, <3>2 DEF Described
  <2> QED  BY <2>2, <2>5, <2>6
<1>2. IInv /\ [Next]_vars => [\A j \in Jobs : Kept(j)]_vars
  BY <1>1
<1> QED  BY <1>2, Invariance, PTL DEF Spec, IdsSurvive

-------------------------------------------------------------------------------
(* A managed server.                                                       *)

\* The directory as the tables will have it.
Target == [dir EXCEPT !.groups = Trimmed(@)]

Locks(q) == q.op \in {"reload", "startup"}

\* The lists of a reload are the tables: nobody else writes them.
Current(q, R, G, A) ==
    /\ q.pc \in {"groups", "assigned", "plan", "put", "apply"} => q.seen.rows = R
    /\ q.pc \in {"assigned", "plan", "put", "apply"} => q.seen.groups = G
    /\ q.pc \in {"plan", "put", "apply"} => q.seen.assigned = A

\* What was read is the directory, until that changes.
Fresh(q, d) ==
    ~q.stale => /\ q.pc = "loadgroups" => q.spec.bundles = d.bundles
                /\ q.pc \notin {"load", "loadgroups"} =>
                      q.spec.bundles = d.bundles /\ q.spec.groups = Trimmed(d.groups)

LockOK(q, R, G, A, d) ==
    Locks(q) => /\ Current(q, R, G, A) /\ Fresh(q, d)
                /\ q.pc = "cleanup" => Matches(ShownOf(R, G, A), q.spec)

MInv ==
    managed =>
      /\ \A j, x \in Jobs : Locks(jobs[j]) /\ Locks(jobs[x]) => j = x
      /\ \A j \in Jobs : jobs[j].op # "import" /\ (jobs[j].stale => due /\ Locks(jobs[j]))
      /\ \A j \in Jobs : LockOK(jobs[j], rows, groups, assigned, dir)
      /\ ~due => Matches(Shown, Target)

LEMMA TargetIs ==
    ASSUME IInv
    PROVE  /\ Target.bundles = dir.bundles /\ Target.groups = Trimmed(dir.groups)
           /\ \A t, spec : spec.bundles = dir.bundles /\ spec.groups = Trimmed(dir.groups)
                /\ Matches(t, spec) => Matches(t, Target)
<1>1. dir \in Directory
  BY DirsAssumption, TablesAre
<1>2. Target.bundles = dir.bundles /\ Target.groups = Trimmed(dir.groups)
  BY <1>1 DEF Target, Directory
<1> HIDE DEF Target
<1> QED  BY <1>2 DEF Matches

LEMMA ShownIs == Shown = ShownOf(rows, groups, assigned)
BY DEF Shown, ShownOf

\* A job moves, and the tables and the directory do not.
LEMMA LockMoves ==
    ASSUME IInv, MInv, managed, NEW j \in Jobs, NEW q, Goto(j, q), UNCHANGED <<managed, dir, tables>>,
           Locks(q) => Locks(jobs[j]) \/ Unlocked,
           q.op # "import", q.stale => jobs[j].stale /\ Locks(q), LockOK(q, rows, groups, assigned, dir),
           \/ due' = due
           \/ due' = FALSE /\ Locks(jobs[j]) /\ ~q.stale /\ Matches(Shown, Target)
    PROVE  MInv'
<1>1. \A x \in Jobs : jobs'[x] = IF x = j THEN q ELSE jobs[x]
  BY DEF Goto, IInv, TypeOK
<1>2. \A x, y \in Jobs : Locks(jobs'[x]) /\ Locks(jobs'[y]) => x = y
  BY <1>1 DEF MInv, Unlocked, Locks
<1>3. \A x \in Jobs : jobs'[x].op # "import" /\ (jobs'[x].stale => due' /\ Locks(jobs'[x]))
  BY <1>1 DEF MInv
<1>4. Shown' = Shown /\ Target' = Target
  BY DEF Shown, Target, tables
<1>5. ~due' => Matches(Shown', Target')
  BY <1>4 DEF MInv
<1>6. \A x \in Jobs : LockOK(jobs'[x], rows, groups, assigned, dir)
  BY <1>1 DEF MInv
<1> QED  BY <1>2, <1>3, <1>5, <1>6 DEF MInv, tables

\* Where no reload is left there is nothing to know.
LEMMA IdleLock ==
    ASSUME IInv, MInv, managed, NEW j \in Jobs, Goto(j, Idle), UNCHANGED <<managed, dir, tables>>,
           \/ due' = due
           \/ due' = FALSE /\ Locks(jobs[j]) /\ Matches(Shown, Target)
    PROVE  MInv'
<1>1. Idle.op = "none" /\ ~Idle.stale /\ ~Locks(Idle)
  BY DEF Idle, Locks
<1>2. LockOK(Idle, rows, groups, assigned, dir)
  BY <1>1 DEF LockOK
<1> QED  BY <1>1, <1>2, LockMoves

LEMMA LockBegins ==
    ASSUME IInv, MInv, managed, NEW j \in Jobs, NEW q, Goto(j, q), UNCHANGED <<managed, dir, tables, due>>,
           Locks(q) => Unlocked, q.op # "import", ~q.stale, q.pc \in {"load", "rows"}, Locks(q) => q.pc = "load"
    PROVE  MInv'
<1>1. LockOK(q, rows, groups, assigned, dir)
  BY DEF LockOK, Current, Fresh
<1> QED  BY <1>1, LockMoves

\* The steps around the server.
LEMMA LockAround ==
    ASSUME IInv, MInv, managed, NEW j \in Jobs, Reload(j) \/ Command(j) \/ Restart(j) \/ HangUp(j)
    PROVE  MInv'
<1>1. CASE Reload(j)
  <2>1. PICK q : /\ Goto(j, q)
                 /\ \/ q = [Idle EXCEPT !.op = "reload", !.pc = "load"]
                    \/ q = [Idle EXCEPT !.op = "reload", !.pc = "load", !.dry = TRUE]
    BY <1>1, Zenon DEF Reload
  <2>2. q.op = "reload" /\ ~q.stale /\ q.pc = "load"
    BY <2>1 DEF Idle
  <2> QED  BY <1>1, <2>1, <2>2, LockBegins DEF Reload, Locks
<1>2. CASE Command(j)
  <2>1. PICK q : Goto(j, q) /\ q = [Idle EXCEPT !.op = "export", !.pc = "rows"]
    BY <1>2, Zenon DEF Command
  <2>2. q.op = "export" /\ ~q.stale /\ q.pc = "rows"
    BY <2>1 DEF Idle
  <2> QED  BY <1>2, <2>1, <2>2, LockBegins DEF Command, Locks
<1>3. CASE Restart(j)
  <2>1. PICK q : q = [Idle EXCEPT !.op = "startup", !.pc = "load"]  OBVIOUS
  <2>2. q.op = "startup" /\ ~q.stale /\ q.pc = "load"
    BY <2>1 DEF Idle
  <2>3. /\ \A x \in Jobs : jobs'[x] = IF x = j THEN q ELSE Idle
        /\ UNCHANGED <<managed, dir, tables, due>>
    BY <1>3, <2>1 DEF Restart
  <2>4. Idle.op = "none" /\ ~Idle.stale
    BY DEF Idle
  <2>5. \A x \in Jobs : LockOK(jobs'[x], rows, groups, assigned, dir)
    BY <2>2, <2>3, <2>4 DEF LockOK, Locks, Current, Fresh
  <2>6. \A x, y \in Jobs : Locks(jobs'[x]) /\ Locks(jobs'[y]) => x = y
    BY <2>2, <2>3, <2>4 DEF Locks
  <2>7. \A x \in Jobs : jobs'[x].op # "import" /\ ~jobs'[x].stale
    BY <2>2, <2>3, <2>4
  <2>8. Shown' = Shown /\ Target' = Target
    BY <2>3 DEF Shown, Target, tables
  <2>9. ~due' => Matches(Shown', Target')
    BY <2>3, <2>8 DEF MInv
  <2> QED  BY <2>3, <2>5, <2>6, <2>7, <2>9 DEF MInv, tables
<1>4. CASE HangUp(j)
  BY <1>4, IdleLock DEF HangUp
<1> QED  BY <1>1, <1>2, <1>3, <1>4

LEMMA LockPublish ==
    ASSUME IInv, MInv, managed, Publish
    PROVE  MInv'
<1>1. \A x \in Jobs : /\ jobs[x] \in Job
                      /\ jobs'[x] = [jobs[x] EXCEPT !.stale = jobs[x].op \in {"reload", "startup"}]
  <2>1. jobs \in [Jobs -> Job]
    BY DEF IInv, TypeOK
  <2> QED  BY <2>1 DEF Publish
<1>2. \A x \in Jobs : /\ jobs'[x].op = jobs[x].op /\ jobs'[x].pc = jobs[x].pc /\ jobs'[x].seen = jobs[x].seen
                      /\ jobs'[x].spec = jobs[x].spec
                      /\ jobs'[x].stale <=> Locks(jobs[x])
  <2> TAKE x \in Jobs
  <2>0. PICK q \in Job : q = jobs[x]
    BY <1>1
  <2>1. PICK b : b = (q.op \in {"reload", "startup"}) /\ jobs'[x] = [q EXCEPT !.stale = b]
    BY <1>1, <2>0
  <2>2. jobs'[x].op = q.op /\ jobs'[x].pc = q.pc /\ jobs'[x].seen = q.seen /\ jobs'[x].spec = q.spec /\ jobs'[x].stale = b
    BY <2>1 DEF Job
  <2> QED  BY <2>0, <2>1, <2>2 DEF Locks
<1>3. UNCHANGED <<managed, rows, groups, assigned>> /\ due'
  BY DEF Publish
<1>4. \A x \in Jobs : LockOK(jobs'[x], rows, groups, assigned, dir')
  BY <1>2 DEF MInv, LockOK, Locks, Current, Fresh
<1>5. \A x, y \in Jobs : Locks(jobs'[x]) /\ Locks(jobs'[y]) => x = y
  BY <1>2 DEF MInv, Locks
<1>6. \A x \in Jobs : jobs'[x].op # "import" /\ (jobs'[x].stale => due' /\ Locks(jobs'[x]))
  BY <1>2, <1>3 DEF MInv, Locks
<1> QED  BY <1>3, <1>4, <1>5, <1>6 DEF MInv

\* A job that goes on as it is, but for its place in the code.
LEMMA LockGoesOn ==
    ASSUME IInv, MInv, managed, NEW j \in Jobs, NEW q, Goto(j, q), UNCHANGED <<managed, dir, tables, due>>,
           q.op = jobs[j].op, q.stale = jobs[j].stale, LockOK(q, rows, groups, assigned, dir)
    PROVE  MInv'
<1>1. Locks(q) <=> Locks(jobs[j])
  BY DEF Locks
<1>2. q.op # "import" /\ (q.stale => jobs[j].stale /\ Locks(q))
  BY <1>1 DEF MInv
<1> QED  BY <1>1, <1>2, LockMoves

\* The files of another reload do not change what is in the tables.
LEMMA LockLoads ==
    ASSUME IInv, MInv, managed, NEW j \in Jobs, LoadBundles(j) \/ LoadGroups(j)
    PROVE  MInv'
<1>1. jobs[j] \in Job /\ dir \in Directory /\ LockOK(jobs[j], rows, groups, assigned, dir)
  BY DirsAssumption DEF IInv, TypeOK, MInv
<1>2. CASE LoadBundles(j)
  <2>1. PICK q : q = [jobs[j] EXCEPT !.spec.bundles = dir.bundles, !.pc = "loadgroups"]  OBVIOUS
  <2>2. q.pc = "loadgroups" /\ q.op = jobs[j].op /\ q.stale = jobs[j].stale /\ q.spec.bundles = dir.bundles
    BY <1>1, <2>1 DEF Job, Directory
  <2>3. LockOK(q, rows, groups, assigned, dir)
    BY <2>2 DEF LockOK, Current, Fresh
  <2> QED  BY <1>2, <2>1, <2>2, <2>3, LockGoesOn DEF LoadBundles
<1>3. CASE LoadGroups(j)
  <2>1. CASE Goto(j, Idle) /\ due' = due
    BY <1>3, <2>1, IdleLock DEF LoadGroups
  <2>2. CASE Goto(j, [jobs[j] EXCEPT !.spec.groups = Trimmed(dir.groups), !.pc = "rows"]) /\ due' = due
    <3>1. PICK q : q = [jobs[j] EXCEPT !.spec.groups = Trimmed(dir.groups), !.pc = "rows"]  OBVIOUS
    <3>2. /\ q.pc = "rows" /\ q.op = jobs[j].op /\ q.stale = jobs[j].stale
          /\ q.spec.bundles = jobs[j].spec.bundles /\ q.spec.groups = Trimmed(dir.groups)
      BY <1>1, <3>1 DEF Job, Directory
    <3>3. jobs[j].pc = "loadgroups"
      BY <1>3 DEF LoadGroups, Reconciling
    <3>4. Locks(q) /\ ~q.stale => q.spec.bundles = dir.bundles
      BY <1>1, <3>2, <3>3 DEF LockOK, Fresh, Locks
    <3>5. LockOK(q, rows, groups, assigned, dir)
      BY <3>2, <3>4 DEF LockOK, Current, Fresh
    <3> QED  BY <1>3, <2>2, <3>1, <3>2, <3>5, LockGoesOn DEF LoadGroups
  <2>3. (due /\ ~(FALSE /\ jobs[j].op \in {"reload", "startup"} /\ ~jobs[j].dry /\ ~jobs[j].stale)) = due
    BY DEF IInv, TypeOK
  <2> QED  BY <1>3, <2>1, <2>2, <2>3 DEF LoadGroups, Ended
<1> QED  BY <1>2, <1>3

LEMMA LockReads ==
    ASSUME IInv, MInv, managed, NEW j \in Jobs, ReadTables(j)
    PROVE  MInv'
<1>1. jobs[j] \in Job /\ JobOK(jobs[j]) /\ LockOK(jobs[j], rows, groups, assigned, dir)
      /\ rows \in [Bids -> BundleRow \cup {None}] /\ groups \in [Gids -> GroupRow \cup {None}]
  BY DEF IInv, TypeOK, JobsOK, MInv
<1>2. SUFFICES ASSUME NEW q, Goto(j, q),
                      \/ jobs[j].pc = "rows" /\ q = [jobs[j] EXCEPT !.seen.rows = rows, !.pc = "groups"]
                      \/ jobs[j].pc = "groups" /\ q = [jobs[j] EXCEPT !.seen.groups = groups, !.pc = "assigned"]
                      \/ /\ jobs[j].pc = "assigned"
                         /\ q = [jobs[j] EXCEPT !.seen.assigned = assigned,
                                                !.pc = IF jobs[j].op = "export" THEN "write" ELSE "plan"]
               PROVE  MInv'
  BY DEF ReadTables
<1>3. q.op = jobs[j].op /\ q.stale = jobs[j].stale /\ q.spec = jobs[j].spec
      /\ \/ jobs[j].pc = "rows" /\ q.pc = "groups" /\ q.seen.rows = rows
         \/ jobs[j].pc = "groups" /\ q.pc = "assigned" /\ q.seen.rows = jobs[j].seen.rows /\ q.seen.groups = groups
         \/ /\ jobs[j].pc = "assigned" /\ q.pc \in {"write", "plan"}
            /\ q.seen.rows = jobs[j].seen.rows /\ q.seen.groups = jobs[j].seen.groups /\ q.seen.assigned = assigned
  <2>1. CASE jobs[j].pc = "rows" /\ q = [jobs[j] EXCEPT !.seen.rows = rows, !.pc = "groups"]
    BY <1>1, <2>1 DEF Job, Tables
  <2>2. CASE jobs[j].pc = "groups" /\ q = [jobs[j] EXCEPT !.seen.groups = groups, !.pc = "assigned"]
    BY <1>1, <2>2 DEF Job, Tables
  <2>3. CASE /\ jobs[j].pc = "assigned"
             /\ q = [jobs[j] EXCEPT !.seen.assigned = assigned,
                                    !.pc = IF jobs[j].op = "export" THEN "write" ELSE "plan"]
    BY <1>1, <2>3 DEF Job, Tables
  <2> QED  BY <1>2, <2>1, <2>2, <2>3
<1>4. Locks(q) => Current(q, rows, groups, assigned)
  BY <1>1, <1>3 DEF LockOK, Current, Locks
<1>5. Locks(q) => Fresh(q, dir)
  BY <1>1, <1>3 DEF LockOK, Fresh, Locks
<1>6. LockOK(q, rows, groups, assigned, dir)
  BY <1>3, <1>4, <1>5 DEF LockOK
<1> QED  BY <1>2, <1>3, <1>6, LockGoesOn DEF ReadTables

\* Where nothing is to change, the tables are what the directory says.
LEMMA UnchangedMatches ==
    ASSUME IInv, NEW spec \in Directory, NEW seen \in Tables, NEW plan \in Plans,
           SpecOK(spec), PlanOK(spec, seen, plan), ~Changed(spec, seen, plan),
           seen.rows = rows, seen.groups = groups, seen.assigned = assigned
    PROVE  Matches(Shown, spec)
<1>1. /\ plan.kept = RowsIn(rows) /\ \A k \in Keys : plan.add[k] = None
      /\ {groups[g] : g \in RowsIn(groups)} = {[name |-> x.name, sel |-> x.sel] : x \in spec.groups}
      /\ assigned = Assignments(spec, seen, plan)
  BY DEF Changed
<1>2. /\ RowsIn(rows) = {i \in Bids : rows[i] # None} /\ RowsIn(groups) = {g \in Gids : groups[g] # None}
      /\ rows \in [Bids -> BundleRow \cup {None}] /\ groups \in [Gids -> GroupRow \cup {None}]
      /\ \A x \in spec.groups : x.name \in Names
  BY TablesAre DEF Directory, GroupFile
<1>3. \A g \in RowsIn(groups), x \in spec.groups :
        groups[g] = [name |-> x.name, sel |-> x.sel] => plan.named[x.name] = g
  <2> TAKE g \in RowsIn(groups), x \in spec.groups
  <2> HAVE groups[g] = [name |-> x.name, sel |-> x.sel]
  <2>1. PICK r : r = [name |-> x.name, sel |-> x.sel]  OBVIOUS
  <2>2. groups[g].name = x.name
    <3>1. r.name = x.name  BY <2>1
    <3> QED  BY <2>1, <3>1
  <2>3. plan.named[x.name] # None /\ plan.named[groups[g].name] \in {g, None}
    BY <1>2 DEF PlanOK, NamesAll
  <2> QED  BY <2>2, <2>3
<1>4. \A g \in Gids : groups[g] # None => \E x \in spec.groups : plan.named[x.name] = g
  <2> TAKE g \in Gids
  <2> HAVE groups[g] # None
  <2>1. g \in RowsIn(groups)
    BY <1>2
  <2>2. PICK x \in spec.groups : groups[g] = [name |-> x.name, sel |-> x.sel]
    BY <1>1, <2>1
  <2> QED  BY <1>3, <2>1, <2>2
<1>5. \A x \in spec.groups : \E g \in RowsIn(groups) : groups[g] = [name |-> x.name, sel |-> x.sel]
  BY <1>1
<1>6. \A g \in Gids : \A x \in spec.groups :
        plan.named[x.name] = g => groups[g] = [name |-> x.name, sel |-> x.sel] /\ groups[g] # None
  <2> TAKE g \in Gids
  <2> TAKE x \in spec.groups
  <2> HAVE plan.named[x.name] = g
  <2>1. PICK h \in RowsIn(groups) : groups[h] = [name |-> x.name, sel |-> x.sel]
    BY <1>5
  <2>2. h = g
    BY <1>3, <2>1
  <2> QED  BY <1>2, <2>1, <2>2
<1>7. Described(rows, groups, assigned, spec, seen, plan)
  BY <1>1, <1>2, <1>4, <1>6, NoneIsNone DEF Described
<1>8. PICK A : A = assigned  OBVIOUS
<1>9. Matches(ShownOf(rows, groups, A), spec)
  BY <1>2, <1>7, <1>8, DescribedMatches
<1> QED  BY <1>8, <1>9, ShownIs

\* A plan ends the reload where there is nothing to do, and is gone on with elsewhere.
LEMMA LockPlan ==
    ASSUME IInv, MInv, managed, NEW j \in Jobs, Plan(j)
    PROVE  MInv'
<1>1. /\ jobs[j] \in Job /\ JobOK(jobs[j]) /\ TablesOK(jobs[j], rows, files)
      /\ LockOK(jobs[j], rows, groups, assigned, dir) /\ jobs[j].op # "import" /\ due \in BOOLEAN
  BY DEF IInv, TypeOK, JobsOK, MInv
<1>2. UNCHANGED <<managed, dir, tables>> /\ Reconciling(j, "plan")
  BY DEF Plan
<1>3. /\ jobs[j].op \in {"startup", "reload", "import"} /\ jobs[j].pc = "plan" /\ Locks(jobs[j])
      /\ jobs[j].spec \in Directory /\ jobs[j].seen \in Tables
      /\ SpecOK(jobs[j].spec) /\ SeenOK(jobs[j].seen)
      /\ \A i \in RowsIn(jobs[j].seen.rows) : files[i] \in {None, jobs[j].seen.rows[i].blob}
      /\ jobs[j].seen.rows = rows /\ jobs[j].seen.groups = groups /\ jobs[j].seen.assigned = assigned
  BY <1>1, <1>2 DEF Reconciling, JobOK, TablesOK, SeenBytes, Job, Locks, LockOK, Current
<1>4. ASSUME Ended(j, FALSE) PROVE MInv'
  <2>1. due' = due
    BY <1>1, <1>4 DEF Ended
  <2> QED  BY <1>2, <1>4, <2>1, IdleLock DEF Ended
<1>5. ASSUME NEW readable \in BOOLEAN, NEW plan, plan = PlanFor(jobs[j].spec, jobs[j].seen, readable),
             Enough(Adding(jobs[j].spec, jobs[j].seen, Keep(jobs[j].spec, jobs[j].seen, readable)), FreeBids),
             Enough(Naming(jobs[j].spec, jobs[j].seen), FreeGids),
             ~Changed(jobs[j].spec, jobs[j].seen, plan), ~jobs[j].stale
      PROVE  Matches(Shown, Target)
  <2>1. PICK seen \in Tables : seen = jobs[j].seen  BY <1>3
  <2>2. PICK spec \in Directory : spec = jobs[j].spec  BY <1>3
  <2>3. plan \in Plans /\ PlanOK(spec, seen, plan)
    BY <1>3, <1>5, <2>1, <2>2, PlanForOK
  <2>4. Matches(Shown, spec)
    BY <1>3, <1>5, <2>1, <2>2, <2>3, UnchangedMatches
  <2>5. spec.bundles = dir.bundles /\ spec.groups = Trimmed(dir.groups)
    BY <1>1, <1>3, <1>5, <2>2 DEF LockOK, Fresh
  <2> QED  BY <2>4, <2>5, TargetIs
<1>6. ASSUME NEW ok, ok = TRUE, Ended(j, ok), jobs[j].dry \/ jobs[j].stale \/ Matches(Shown, Target) PROVE MInv'
  <2>1. due' = due \/ (due' = FALSE /\ Matches(Shown, Target))
    BY <1>1, <1>6 DEF Ended
  <2> QED  BY <1>2, <1>3, <1>6, <2>1, IdleLock DEF Ended
<1>7. ASSUME NEW readable \in BOOLEAN, NEW plan,
             Goto(j, [jobs[j] EXCEPT !.plan = plan, !.pc = "put", !.blind = ~readable,
                                     !.todo = Listed([k \in Keys |-> plan.add[k]])]),
             UNCHANGED due
      PROVE  MInv'
  <2>1. PICK t : t = Listed([k \in Keys |-> plan.add[k]])  OBVIOUS
  <2>2. PICK q : q = [jobs[j] EXCEPT !.plan = plan, !.pc = "put", !.blind = ~readable, !.todo = t]  OBVIOUS
  <2>3. /\ q.pc = "put" /\ q.op = jobs[j].op /\ q.stale = jobs[j].stale
        /\ q.spec = jobs[j].spec /\ q.seen = jobs[j].seen
    BY <1>1, <2>2 DEF Job
  <2>4. LockOK(q, rows, groups, assigned, dir)
    BY <1>1, <1>3, <2>3 DEF LockOK, Current, Fresh, Locks
  <2>5. Goto(j, q)
    BY <1>7, <2>1, <2>2, Zenon
  <2> QED  BY <1>2, <1>7, <2>3, <2>4, <2>5, LockGoesOn
<1>8. CASE Ended(j, FALSE)
  BY <1>4, <1>8
<1>9. CASE \E readable \in BOOLEAN :
               LET plan == PlanFor(jobs[j].spec, jobs[j].seen, readable) IN
               /\ Enough(Adding(jobs[j].spec, jobs[j].seen, Keep(jobs[j].spec, jobs[j].seen, readable)), FreeBids)
               /\ Enough(Naming(jobs[j].spec, jobs[j].seen), FreeGids)
               /\ IF jobs[j].dry \/ ~Changed(jobs[j].spec, jobs[j].seen, plan) THEN Ended(j, TRUE)
                  ELSE /\ Goto(j, [jobs[j] EXCEPT !.plan = plan, !.pc = "put", !.blind = ~readable,
                                                  !.todo = Listed([k \in Keys |-> plan.add[k]])])
                       /\ UNCHANGED due
  <2>1. PICK readable \in BOOLEAN :
               LET plan == PlanFor(jobs[j].spec, jobs[j].seen, readable) IN
               /\ Enough(Adding(jobs[j].spec, jobs[j].seen, Keep(jobs[j].spec, jobs[j].seen, readable)), FreeBids)
               /\ Enough(Naming(jobs[j].spec, jobs[j].seen), FreeGids)
               /\ IF jobs[j].dry \/ ~Changed(jobs[j].spec, jobs[j].seen, plan) THEN Ended(j, TRUE)
                  ELSE /\ Goto(j, [jobs[j] EXCEPT !.plan = plan, !.pc = "put", !.blind = ~readable,
                                                  !.todo = Listed([k \in Keys |-> plan.add[k]])])
                       /\ UNCHANGED due
    BY <1>9
  <2>2. PICK plan : plan = PlanFor(jobs[j].spec, jobs[j].seen, readable)  OBVIOUS
  <2>3. /\ Enough(Adding(jobs[j].spec, jobs[j].seen, Keep(jobs[j].spec, jobs[j].seen, readable)), FreeBids)
        /\ Enough(Naming(jobs[j].spec, jobs[j].seen), FreeGids)
        /\ IF jobs[j].dry \/ ~Changed(jobs[j].spec, jobs[j].seen, plan) THEN Ended(j, TRUE)
           ELSE /\ Goto(j, [jobs[j] EXCEPT !.plan = plan, !.pc = "put", !.blind = ~readable,
                                           !.todo = Listed([k \in Keys |-> plan.add[k]])])
                /\ UNCHANGED due
    BY <2>1, <2>2, Zenon
  <2>4. CASE jobs[j].dry
    BY <1>6, <2>3, <2>4
  <2>5. CASE ~Changed(jobs[j].spec, jobs[j].seen, plan)
    BY <1>5, <1>6, <2>2, <2>3, <2>5
  <2>6. CASE ~jobs[j].dry /\ Changed(jobs[j].spec, jobs[j].seen, plan)
    BY <1>7, <2>3, <2>6
  <2> QED  BY <2>4, <2>5, <2>6
<1>10. Ended(j, FALSE) \/
       \E readable \in BOOLEAN :
               LET plan == PlanFor(jobs[j].spec, jobs[j].seen, readable) IN
               /\ Enough(Adding(jobs[j].spec, jobs[j].seen, Keep(jobs[j].spec, jobs[j].seen, readable)), FreeBids)
               /\ Enough(Naming(jobs[j].spec, jobs[j].seen), FreeGids)
               /\ IF jobs[j].dry \/ ~Changed(jobs[j].spec, jobs[j].seen, plan) THEN Ended(j, TRUE)
                  ELSE /\ Goto(j, [jobs[j] EXCEPT !.plan = plan, !.pc = "put", !.blind = ~readable,
                                                  !.todo = Listed([k \in Keys |-> plan.add[k]])])
                       /\ UNCHANGED due
  BY Zenon DEF Plan
<1> QED  BY <1>8, <1>9, <1>10

LEMMA LockPut ==
    ASSUME IInv, MInv, managed, NEW j \in Jobs, Put(j) \/ ApplyFails(j)
    PROVE  MInv'
<1>1. jobs[j] \in Job /\ LockOK(jobs[j], rows, groups, assigned, dir) /\ jobs[j].pc \in {"put", "apply"}
  BY DEF IInv, TypeOK, MInv, Put, ApplyFails, Reconciling
<1>2. UNCHANGED <<managed, dir, tables, due>>
  BY DEF Put, ApplyFails
<1>3. PICK q : Goto(j, q) /\ \/ q = [jobs[j] EXCEPT !.pc = "apply"]
                             \/ \E k \in jobs[j].todo : q = [jobs[j] EXCEPT !.todo = @ \ {k}]
                             \/ q = [jobs[j] EXCEPT !.pc = "discard"]
  BY Zenon DEF Put, ApplyFails
<1>4. /\ q.pc \in {"put", "apply", "discard"} /\ q.op = jobs[j].op /\ q.stale = jobs[j].stale
      /\ q.spec = jobs[j].spec /\ q.seen = jobs[j].seen
  BY <1>1, <1>3 DEF Job
<1>5. LockOK(q, rows, groups, assigned, dir)
  BY <1>1, <1>4 DEF LockOK, Current, Fresh, Locks
<1> QED  BY <1>2, <1>3, <1>4, <1>5, LockGoesOn

\* The transaction makes the tables what was read.
LEMMA LockApply ==
    ASSUME IInv, MInv, managed, NEW j \in Jobs, Apply(j)
    PROVE  MInv'
<1>1. /\ jobs[j] \in Job /\ LockOK(jobs[j], rows, groups, assigned, dir) /\ jobs[j].pc = "apply"
      /\ Locks(jobs[j]) /\ \A x \in Jobs : jobs[x] \in Job
  BY DEF IInv, TypeOK, MInv, Apply, Reconciling, Locks
<1>2. UNCHANGED <<managed, dir, due>>
  BY DEF Apply
<1>3. PICK spec, seen, plan : spec = jobs[j].spec /\ seen = jobs[j].seen /\ plan = jobs[j].plan  OBVIOUS
<1>4. /\ spec \in Directory /\ seen \in Tables /\ plan \in Plans
      /\ SpecOK(spec) /\ PlanOK(spec, seen, plan)
      /\ RowsIn(rows) = RowsIn(seen.rows)
      /\ \A i \in RowsIn(rows) : rows'[i] = IF i \in plan.kept THEN rows[i] ELSE None
      /\ Described(rows', groups', assigned', spec, seen, plan)
  BY <1>3, ApplyDescribes
<1>5. TypedTables(rows', groups', assigned', files')
  BY ApplyTables
<1>6. PICK R, G, A : R = rows' /\ G = groups' /\ A = assigned'  OBVIOUS
<1>7. R \in [Bids -> BundleRow \cup {None}] /\ G \in [Gids -> GroupRow \cup {None}]
  BY <1>5, <1>6 DEF TypedTables
<1>8. seen.rows = rows
  BY <1>1, <1>3 DEF LockOK, Current
<1>9. \A i \in plan.kept : R[i] = seen.rows[i]
  BY <1>4, <1>6, <1>8 DEF PlanOK, Keeps
<1>10. Matches(ShownOf(R, G, A), spec)
  BY <1>4, <1>6, <1>7, <1>9, DescribedMatches
<1>11. PICK q : q = [jobs[j] EXCEPT !.pc = "cleanup"]  OBVIOUS
<1>12. q.pc = "cleanup" /\ q.op = jobs[j].op /\ q.stale = jobs[j].stale /\ q.spec = spec /\ q.seen = seen
  BY <1>1, <1>3, <1>11 DEF Job
<1>13. /\ jobs'[j] = q
       /\ \A x \in Jobs : x # j => jobs'[x] = [jobs[x] EXCEPT !.calm = jobs[x].op # "export"]
  BY <1>11 DEF Apply
<1>14. \A x \in Jobs : jobs'[x].op = jobs[x].op /\ jobs'[x].stale = jobs[x].stale
  <2> SUFFICES ASSUME NEW x \in Jobs PROVE jobs'[x].op = jobs[x].op /\ jobs'[x].stale = jobs[x].stale
    OBVIOUS
  <2>1. CASE x = j
    BY <1>12, <1>13, <2>1
  <2>2. CASE x # j
    BY <1>1, <1>13, <2>2 DEF Job
  <2> QED  BY <2>1, <2>2
<1>15. \A x \in Jobs : Locks(jobs'[x]) <=> Locks(jobs[x])
  BY <1>14 DEF Locks
<1>16. \A x \in Jobs : Locks(jobs'[x]) => x = j
  BY <1>1, <1>15 DEF MInv
<1>17. LockOK(q, R, G, A, dir)
  <2>1. Fresh(q, dir)
    BY <1>1, <1>3, <1>12 DEF LockOK, Fresh
  <2> QED  BY <1>10, <1>12, <2>1 DEF LockOK, Current
<1>18. \A x \in Jobs : LockOK(jobs'[x], rows', groups', assigned', dir')
  <2> SUFFICES ASSUME NEW x \in Jobs, x # j PROVE LockOK(jobs'[x], rows', groups', assigned', dir')
    BY <1>2, <1>6, <1>13, <1>17
  <2>1. ~Locks(jobs'[x])
    BY <1>16
  <2> QED  BY <2>1 DEF LockOK
<1>19. \A x \in Jobs : jobs'[x].op # "import" /\ (jobs'[x].stale => due' /\ Locks(jobs'[x]))
  BY <1>2, <1>14, <1>15 DEF MInv
<1>20. ~due => Matches(ShownOf(R, G, A), Target)
  <2> SUFFICES ASSUME ~due PROVE Matches(ShownOf(R, G, A), Target)
    OBVIOUS
  <2>1. ~jobs[j].stale
    BY DEF MInv
  <2>2. spec.bundles = dir.bundles /\ spec.groups = Trimmed(dir.groups)
    BY <1>1, <1>3, <2>1 DEF LockOK, Fresh
  <2> QED  BY <1>10, <2>2, TargetIs
<1>21. Shown' = ShownOf(R, G, A) /\ Target' = Target
  BY <1>2, <1>6 DEF Shown, ShownOf, Target
<1> QED  BY <1>2, <1>16, <1>18, <1>19, <1>20, <1>21 DEF MInv

LEMMA LockDiscard ==
    ASSUME IInv, MInv, managed, NEW j \in Jobs, Discard(j)
    PROVE  MInv'
<1>1. /\ jobs[j] \in Job /\ LockOK(jobs[j], rows, groups, assigned, dir) /\ due \in BOOLEAN
      /\ jobs[j].pc \in {"discard", "cleanup"} /\ Locks(jobs[j])
  BY DEF IInv, TypeOK, MInv, Discard, Reconciling, Locks
<1>2. UNCHANGED <<managed, dir, tables>> /\ Ended(j, jobs[j].pc = "cleanup")
  BY DEF Discard
<1>3. jobs[j].pc = "cleanup" /\ ~jobs[j].stale => Matches(Shown, Target)
  <2> SUFFICES ASSUME jobs[j].pc = "cleanup", ~jobs[j].stale PROVE Matches(Shown, Target)
    OBVIOUS
  <2>1. PICK spec : spec = jobs[j].spec  OBVIOUS
  <2>2. Matches(Shown, spec) /\ spec.bundles = dir.bundles /\ spec.groups = Trimmed(dir.groups)
    BY <1>1, <2>1, ShownIs DEF LockOK, Fresh
  <2> QED  BY <2>2, TargetIs
<1>4. due' = due \/ (due' = FALSE /\ Matches(Shown, Target))
  BY <1>1, <1>2, <1>3 DEF Ended
<1> QED  BY <1>1, <1>2, <1>4, IdleLock DEF Ended

\* An export has nothing to do with it.
LEMMA LockExport ==
    ASSUME IInv, MInv, managed, NEW j \in Jobs, ExportWrite(j) \/ ExportDone(j)
    PROVE  MInv'
<1>1. UNCHANGED <<managed, dir, tables, due>> /\ jobs[j].op = "export" /\ jobs[j] \in Job
  BY DEF ExportWrite, ExportDone, IInv, TypeOK
<1>2. CASE Goto(j, Idle)
  BY <1>1, <1>2, IdleLock
<1>3. CASE ~Goto(j, Idle)
  <2>1. PICK s, q : Goto(j, q) /\ q = [jobs[j] EXCEPT !.pc = "written", !.spec = s]
    BY <1>3, Zenon DEF ExportWrite, ExportDone
  <2>2. q.op = "export" /\ q.stale = jobs[j].stale
    BY <1>1, <2>1 DEF Job
  <2>3. LockOK(q, rows, groups, assigned, dir)
    BY <2>2 DEF LockOK, Locks
  <2> QED  BY <1>1, <2>1, <2>2, <2>3, LockGoesOn
<1> QED  BY <1>2, <1>3

\* A server starts with the tables of the directory.
LEMMA InitMatches ==
    ASSUME Init
    PROVE  Matches(Shown, Target)
<1>1. PICK d : d = dir  OBVIOUS
<1>2. Loads(d.bundles, d.groups) /\ d \in Directory
  BY <1>1, InitPlaced
<1>3. PICK id, gid : Placed(d, id, gid)
  BY <1>1, InitPlaced
<1>4. PICK R, G, A : R = rows /\ G = groups /\ A = assigned  OBVIOUS
<1>5. /\ RowsIn(R) = {i \in Bids : R[i] # None} /\ RowsIn(G) = {g \in Gids : G[g] # None}
      /\ A = UNION {{<<gid[x], id[k]>> : k \in x.uses} : x \in d.groups}
      /\ \A x, y \in d.groups : gid[x] = gid[y] => x = y
      /\ \A x \in d.groups : x.uses \subseteq Listed(d.bundles) /\ gid[x] \in Gids
  BY <1>2, <1>3, <1>4 DEF Placed, RowsIn, Loads
<1>6. /\ \A k \in Listed(d.bundles) : /\ R[id[k]].key = k /\ R[id[k]].blob = Blob(d.bundles[k])
                                      /\ id[k] \in Bids /\ R[id[k]] # None
      /\ \A i \in Bids : R[i] # None => \E k \in Listed(d.bundles) : id[k] = i
  <2>1. \A k \in Listed(d.bundles) : /\ R[id[k]] \in BundleRow /\ R[id[k]].key = k
                                     /\ R[id[k]].blob = Blob(d.bundles[k])
    BY <1>3, <1>4 DEF Placed
  <2>2. \A k \in Listed(d.bundles) : id[k] \in Bids
    BY <1>3 DEF Placed
  <2>3. \A i \in Bids : R[i] # None => \E k \in Listed(d.bundles) : id[k] = i
    BY <1>3, <1>4 DEF Placed
  <2> QED  BY <2>1, <2>2, <2>3, NoneIsNone
<1>7. /\ \A x \in d.groups : /\ G[gid[x]].name = Trim[x.name] /\ G[gid[x]].sel = x.sel
                             /\ gid[x] \in RowsIn(G)
      /\ \A g \in RowsIn(G) : \E x \in d.groups : gid[x] = g
  BY <1>3, <1>4, <1>5, NoneIsNone DEF Placed
<1>8. \A x \in d.groups : {R[a[2]].key : a \in {y \in A : y[1] = gid[x]}} = x.uses
  <2> TAKE x \in d.groups
  <2>1. ASSUME NEW k \in x.uses PROVE \E a \in A : a[1] = gid[x] /\ R[a[2]].key = k
    <3>1. <<gid[x], id[k]>> \in A
      BY <1>5
    <3>2. R[id[k]].key = k
      BY <1>5, <1>6
    <3> QED  BY <3>1, <3>2
  <2>2. ASSUME NEW a \in A, a[1] = gid[x] PROVE R[a[2]].key \in x.uses
    <3>1. PICK y \in d.groups : \E k \in y.uses : a = <<gid[y], id[k]>>
      BY <1>5
    <3>2. y = x
      BY <1>5, <2>2, <3>1
    <3> QED  BY <1>5, <1>6, <3>1, <3>2
  <2> QED  BY <2>1, <2>2
<1>9. ShownOf(R, G, A).groups = Trimmed(d.groups)
  <2> DEFINE File(g) == [name |-> G[g].name, sel |-> G[g].sel,
                         uses |-> {R[a[2]].key : a \in {x \in A : x[1] = g}}]
             Read(x) == [name |-> Trim[x.name], sel |-> x.sel, uses |-> x.uses]
  <2>1. ShownOf(R, G, A).groups = {File(g) : g \in RowsIn(G)}
    BY DEF ShownOf
  <2>2. Trimmed(d.groups) = {Read(x) : x \in d.groups}
    <3>1. \A x \in d.groups : [x EXCEPT !.name = Trim[@]] = Read(x)
      BY <1>2 DEF Directory, GroupFile
    <3> HIDE DEF Read
    <3> QED  BY <3>1 DEF Trimmed
  <2>3. \A x \in d.groups : File(gid[x]) = Read(x)
    <3> TAKE x \in d.groups
    <3>1. PICK u, n, s : /\ u = {R[a[2]].key : a \in {y \in A : y[1] = gid[x]}}
                         /\ n = G[gid[x]].name /\ s = G[gid[x]].sel
      OBVIOUS
    <3>2. u = x.uses
      BY <1>8, <3>1, Zenon
    <3>3. n = Trim[x.name] /\ s = x.sel
      BY <1>7, <3>1, Zenon
    <3>4. [name |-> n, sel |-> s, uses |-> u] = Read(x)
      BY <3>2, <3>3
    <3> QED  BY <3>1, <3>4, Zenon
  <2> HIDE DEF File, Read
  <2>4. {File(g) : g \in RowsIn(G)} = {Read(x) : x \in d.groups}
    BY <1>7, <2>3
  <2> QED  BY <2>1, <2>2, <2>4
<1>10. ShownOf(R, G, A).bundles = {R[i] : i \in RowsIn(R)}
  BY DEF ShownOf
<1>11. {r.key : r \in ShownOf(R, G, A).bundles} = Listed(d.bundles)
  <2>1. \A i \in RowsIn(R) : R[i].key \in Listed(d.bundles)
    BY <1>5, <1>6
  <2>2. \A k \in Listed(d.bundles) : \E i \in RowsIn(R) : R[i].key = k
    BY <1>5, <1>6
  <2> QED  BY <2>1, <2>2, <1>10
<1>12. \A r \in ShownOf(R, G, A).bundles : r.blob = Blob(d.bundles[r.key])
  BY <1>5, <1>6, <1>10
<1>13. Target.bundles = d.bundles /\ Target.groups = Trimmed(d.groups)
  BY <1>1, <1>2 DEF Target, Directory
<1>14. Matches(ShownOf(R, G, A), Target)
  <2>1. PICK t, s : t = ShownOf(R, G, A) /\ s = Target  OBVIOUS
  <2>2. t.groups = s.groups /\ {r.key : r \in t.bundles} = Listed(s.bundles)
        /\ \A r \in t.bundles : r.blob = Blob(s.bundles[r.key])
    BY <1>9, <1>11, <1>12, <1>13, <2>1, Zenon
  <2> QED  BY <2>1, <2>2 DEF Matches
<1> QED  BY <1>4, <1>14, ShownIs

LEMMA LockInit == Init => MInv
<1> SUFFICES ASSUME Init PROVE MInv
  OBVIOUS
<1>1. \A j \in Jobs : jobs[j] = Idle
  BY DEF Init
<1>2. Idle.op = "none" /\ ~Idle.stale
  BY DEF Idle
<1>3. \A j \in Jobs : ~Locks(jobs[j]) /\ ~jobs[j].stale /\ jobs[j].op # "import"
  BY <1>1, <1>2 DEF Locks
<1> QED  BY <1>3, InitMatches DEF MInv, LockOK

\* A server stays under its directory, or without one.
LEMMA ManagedStays ==
    ASSUME [Next]_vars
    PROVE  managed' = managed
<1>1. ASSUME NEW j \in Jobs, Step(j) PROVE managed' = managed
  BY <1>1 DEF Step, LoadBundles, LoadGroups, ReadTables, Plan, Put, Apply, ApplyFails, Discard, ExportWrite, ExportDone
<1>2. ASSUME NEW j \in Jobs, Reload(j) \/ Command(j) \/ Restart(j) \/ HangUp(j) PROVE managed' = managed
  BY <1>2 DEF Reload, Command, Restart, HangUp
<1>3. CASE UNCHANGED vars
  BY <1>3 DEF vars
<1>4. CASE Next
  <2>1. \/ Publish \/ Edit
        \/ \E j \in Jobs : Reload(j) \/ Command(j) \/ Restart(j) \/ HangUp(j) \/ Step(j)
    BY <1>4 DEF Next, Upload, DeleteBundle, RenameBundle, CreateGroup, PatchGroup, DeleteGroup, Assign
  <2>2. Publish \/ Edit => managed' = managed
    BY DEF Publish, Edit
  <2> QED  BY <1>1, <1>2, <2>1, <2>2
<1> QED  BY <1>3, <1>4

LEMMA LockNext == IInv /\ MInv /\ [Next]_vars => MInv'
<1> SUFFICES ASSUME IInv, MInv, [Next]_vars PROVE MInv'
  OBVIOUS
<1>1. CASE managed
  <2>1. CASE Publish  BY <1>1, <2>1, LockPublish
  <2>2. ASSUME NEW j \in Jobs, Reload(j) \/ Command(j) \/ Restart(j) \/ HangUp(j) PROVE MInv'
    BY <1>1, <2>2, LockAround
  <2>3. ASSUME NEW j \in Jobs, Step(j) PROVE MInv'
    BY <1>1, <2>3, LockLoads, LockReads, LockPlan, LockPut, LockApply, LockDiscard, LockExport DEF Step
  <2>4. CASE UNCHANGED vars
    <3>1. UNCHANGED <<managed, dir, rows, groups, assigned, jobs, due>>
      BY <2>4 DEF vars
    <3>2. Shown' = Shown /\ Target' = Target
      BY <3>1 DEF Shown, Target
    <3> QED  BY <3>1, <3>2 DEF MInv
  <2>5. ~Edit
    BY <1>1 DEF Edit
  <2>6. CASE Next
    <3>1. \/ Publish \/ Edit
          \/ \E j \in Jobs : Reload(j) \/ Command(j) \/ Restart(j) \/ HangUp(j) \/ Step(j)
      BY <2>6 DEF Next, Upload, DeleteBundle, RenameBundle, CreateGroup, PatchGroup, DeleteGroup, Assign
    <3> QED  BY <2>1, <2>2, <2>3, <2>5, <3>1
  <2> QED  BY <2>4, <2>6
<1>2. CASE ~managed
  <2>1. managed' = managed
    BY ManagedStays
  <2> QED  BY <1>2, <2>1 DEF MInv
<1> QED  BY <1>1, <1>2

\* What the lock of a managed server gives: one reload at a time is past it, its lists are the
\* tables, and a reload of the directory as it is leaves them matching it.
THEOREM ManagedInvariance == Spec => []MInv
BY InitOK, LockInit, LockNext, Invariance, PTL DEF Spec

\* A reload that succeeded on the directory as it is leaves the tables matching it until the
\* directory changes: past the lock nobody writes the tables of a managed server, and an
\* answer counts only if what was read is still the directory.
THEOREM Answered == Spec => []AnsweredMatches
<1>1. MInv => AnsweredMatches
  BY DEF MInv, AnsweredMatches, Target
<1> QED  BY <1>1, ManagedInvariance, PTL

-------------------------------------------------------------------------------
(* An export.                                                              *)

\* The lists of an export are the tables as long as those stay as they are.
Watched(q, R, G, A) ==
    q.op = "export" /\ q.calm =>
        /\ q.pc # "rows" => q.seen.rows = R
        /\ q.pc \notin {"rows", "groups"} => q.seen.groups = G
        /\ q.pc \in {"write", "written"} => q.seen.assigned = A

\* What it writes is what it listed.
WroteLists(q) ==
    q.op = "export" /\ q.pc = "written" =>
        /\ q.spec.groups = GroupFiles(q.seen)
        /\ \A i \in RowsIn(q.seen.rows) : q.spec.bundles[q.seen.rows[i].key] = Written(q.seen.rows[i].blob)
        /\ \A k \in Keys : q.spec.bundles[k] # None => \E i \in RowsIn(q.seen.rows) : q.seen.rows[i].key = k

ExportOK(q, R, G, A) == Watched(q, R, G, A) /\ WroteLists(q)

XInv == \A j \in Jobs : ExportOK(jobs[j], rows, groups, assigned)

LEMMA OtherJobs == \A q, R, G, A : q.op # "export" => ExportOK(q, R, G, A)
BY DEF ExportOK, Watched, WroteLists

\* A job moves, and the tables do not.
LEMMA ExportMoves ==
    ASSUME IInv, XInv, NEW j \in Jobs, NEW q, Goto(j, q), UNCHANGED tables, ExportOK(q, rows, groups, assigned)
    PROVE  XInv'
<1>1. \A x \in Jobs : jobs'[x] = IF x = j THEN q ELSE jobs[x]
  BY DEF Goto, IInv, TypeOK
<1>2. \A x \in Jobs : ExportOK(jobs'[x], rows, groups, assigned)
  BY <1>1 DEF XInv
<1> QED  BY <1>2 DEF XInv, tables

LEMMA ExportAround ==
    ASSUME IInv, XInv, NEW j \in Jobs, Reload(j) \/ Command(j) \/ Restart(j) \/ HangUp(j)
    PROVE  XInv'
<1>0. Idle.op # "export"
  BY DEF Idle
<1>1. CASE Reload(j)
  <2>1. PICK q : /\ Goto(j, q)
                 /\ \/ q = [Idle EXCEPT !.op = "reload", !.pc = "load"]
                    \/ q = [Idle EXCEPT !.op = "reload", !.pc = "load", !.dry = TRUE]
    BY <1>1, Zenon DEF Reload
  <2>2. q.op # "export"
    BY <2>1 DEF Idle
  <2> QED  BY <1>1, <2>1, <2>2, OtherJobs, ExportMoves DEF Reload
<1>2. CASE Command(j)
  <2>1. PICK q : Goto(j, q) /\ \/ q = [Idle EXCEPT !.op = "import", !.pc = "load"]
                               \/ q = [Idle EXCEPT !.op = "export", !.pc = "rows"]
    BY <1>2, Zenon DEF Command
  <2>2. q.op # "export" \/ q.pc = "rows"
    BY <2>1 DEF Idle
  <2>3. ExportOK(q, rows, groups, assigned)
    BY <2>2 DEF ExportOK, Watched, WroteLists
  <2> QED  BY <1>2, <2>1, <2>3, ExportMoves DEF Command
<1>3. CASE Restart(j)
  <2>1. PICK q : q = [Idle EXCEPT !.op = "startup", !.pc = "load"]  OBVIOUS
  <2>2. q.op # "export"
    BY <2>1 DEF Idle
  <2>3. \A x \in Jobs : jobs'[x] = IF x = j THEN q ELSE Idle
    BY <1>3, <2>1 DEF Restart
  <2>4. \A x \in Jobs : jobs'[x].op # "export"
    BY <1>0, <2>2, <2>3
  <2> QED  BY <2>4, OtherJobs DEF XInv
<1>4. CASE HangUp(j)
  BY <1>0, <1>4, OtherJobs, ExportMoves DEF HangUp
<1> QED  BY <1>1, <1>2, <1>3, <1>4

\* The steps of a reconcile are no export's.
LEMMA ReconcileMoves ==
    ASSUME IInv, NEW j \in Jobs, LoadBundles(j) \/ LoadGroups(j) \/ Plan(j) \/ Put(j) \/ ApplyFails(j) \/ Discard(j)
    PROVE  UNCHANGED tables /\ \E q : Goto(j, q) /\ q.op # "export"
<1>1. jobs[j] \in Job /\ jobs[j].op # "export" /\ Idle.op # "export"
  BY DEF IInv, TypeOK, LoadBundles, LoadGroups, Plan, Put, ApplyFails, Discard, Reconciling, Idle
<1>2. UNCHANGED tables
  BY DEF LoadBundles, LoadGroups, Plan, Put, ApplyFails, Discard
<1>3. CASE LoadBundles(j)
  <2>1. PICK q, s : Goto(j, q) /\ q = [jobs[j] EXCEPT !.spec.bundles = s, !.pc = "loadgroups"]
    BY <1>3, Zenon DEF LoadBundles
  <2>2. q.op = jobs[j].op
    BY <1>1, <2>1 DEF Job
  <2> QED  BY <1>1, <1>2, <2>1, <2>2
<1>4. CASE LoadGroups(j)
  <2>1. PICK q, s : Goto(j, q) /\ (q = Idle \/ q = [jobs[j] EXCEPT !.spec.groups = s, !.pc = "rows"])
    BY <1>4, Zenon DEF LoadGroups, Ended
  <2>2. q.op \in {jobs[j].op, Idle.op}
    BY <1>1, <2>1 DEF Job
  <2> QED  BY <1>1, <1>2, <2>1, <2>2
<1>5. CASE Plan(j)
  <2>1. CASE Goto(j, Idle)
    BY <1>1, <1>2, <2>1
  <2>2. CASE ~Goto(j, Idle)
    <3>1. \E readable \in BOOLEAN :
              LET plan == PlanFor(jobs[j].spec, jobs[j].seen, readable) IN
              IF jobs[j].dry \/ ~Changed(jobs[j].spec, jobs[j].seen, plan) THEN Goto(j, Idle)
              ELSE Goto(j, [jobs[j] EXCEPT !.plan = plan, !.pc = "put", !.blind = ~readable,
                                           !.todo = Listed([k \in Keys |-> plan.add[k]])])
      BY <1>5, <2>2, Zenon DEF Plan, Ended
    <3>2. PICK readable \in BOOLEAN :
              LET plan == PlanFor(jobs[j].spec, jobs[j].seen, readable) IN
              IF jobs[j].dry \/ ~Changed(jobs[j].spec, jobs[j].seen, plan) THEN Goto(j, Idle)
              ELSE Goto(j, [jobs[j] EXCEPT !.plan = plan, !.pc = "put", !.blind = ~readable,
                                           !.todo = Listed([k \in Keys |-> plan.add[k]])])
      BY <3>1
    <3>3. PICK plan, t : /\ plan = PlanFor(jobs[j].spec, jobs[j].seen, readable)
                         /\ t = Listed([k \in Keys |-> plan.add[k]])
      OBVIOUS
    <3>4. PICK q : q = [jobs[j] EXCEPT !.plan = plan, !.pc = "put", !.blind = ~readable, !.todo = t]  OBVIOUS
    <3>5. Goto(j, q)
      BY <2>2, <3>2, <3>3, <3>4, Zenon
    <3>6. q.op = jobs[j].op
      BY <1>1, <3>4 DEF Job
    <3> QED  BY <1>1, <1>2, <3>5, <3>6
  <2> QED  BY <2>1, <2>2
<1>6. CASE Put(j) \/ ApplyFails(j)
  <2>1. PICK q : Goto(j, q) /\ \/ q = [jobs[j] EXCEPT !.pc = "apply"]
                               \/ \E k \in jobs[j].todo : q = [jobs[j] EXCEPT !.todo = @ \ {k}]
                               \/ q = [jobs[j] EXCEPT !.pc = "discard"]
    BY <1>6, Zenon DEF Put, ApplyFails
  <2>2. q.op = jobs[j].op
    BY <1>1, <2>1 DEF Job
  <2> QED  BY <1>1, <1>2, <2>1, <2>2
<1>7. CASE Discard(j)
  BY <1>1, <1>2, <1>7 DEF Discard, Ended
<1> QED  BY <1>3, <1>4, <1>5, <1>6, <1>7

LEMMA ExportReads ==
    ASSUME IInv, XInv, NEW j \in Jobs, ReadTables(j)
    PROVE  XInv'
<1>1. jobs[j] \in Job /\ ExportOK(jobs[j], rows, groups, assigned)
  BY DEF IInv, TypeOK, XInv
<1>2. SUFFICES ASSUME NEW q, Goto(j, q),
                      \/ jobs[j].pc = "rows" /\ q = [jobs[j] EXCEPT !.seen.rows = rows, !.pc = "groups"]
                      \/ jobs[j].pc = "groups" /\ q = [jobs[j] EXCEPT !.seen.groups = groups, !.pc = "assigned"]
                      \/ /\ jobs[j].pc = "assigned"
                         /\ q = [jobs[j] EXCEPT !.seen.assigned = assigned,
                                                !.pc = IF jobs[j].op = "export" THEN "write" ELSE "plan"]
               PROVE  XInv'
  BY DEF ReadTables
<1>3. /\ q.op = jobs[j].op /\ q.calm = jobs[j].calm
      /\ \/ jobs[j].pc = "rows" /\ q.pc = "groups" /\ q.seen.rows = rows
         \/ jobs[j].pc = "groups" /\ q.pc = "assigned" /\ q.seen.rows = jobs[j].seen.rows /\ q.seen.groups = groups
         \/ /\ jobs[j].pc = "assigned" /\ q.pc \in {"write", "plan"}
            /\ q.seen.rows = jobs[j].seen.rows /\ q.seen.groups = jobs[j].seen.groups /\ q.seen.assigned = assigned
  <2>1. CASE jobs[j].pc = "rows" /\ q = [jobs[j] EXCEPT !.seen.rows = rows, !.pc = "groups"]
    BY <1>1, <2>1 DEF Job, Tables
  <2>2. CASE jobs[j].pc = "groups" /\ q = [jobs[j] EXCEPT !.seen.groups = groups, !.pc = "assigned"]
    BY <1>1, <2>2 DEF Job, Tables
  <2>3. CASE /\ jobs[j].pc = "assigned"
             /\ q = [jobs[j] EXCEPT !.seen.assigned = assigned,
                                    !.pc = IF jobs[j].op = "export" THEN "write" ELSE "plan"]
    BY <1>1, <2>3 DEF Job, Tables
  <2> QED  BY <1>2, <2>1, <2>2, <2>3
<1>4. ExportOK(q, rows, groups, assigned)
  BY <1>1, <1>3 DEF ExportOK, Watched, WroteLists
<1> QED  BY <1>2, <1>4, ExportMoves DEF ReadTables

LEMMA ExportWrites ==
    ASSUME IInv, XInv, NEW j \in Jobs, ExportWrite(j)
    PROVE  XInv'
<1>1. /\ jobs[j] \in Job /\ JobOK(jobs[j]) /\ TablesOK(jobs[j], rows, files)
      /\ ExportOK(jobs[j], rows, groups, assigned)
  BY DEF IInv, TypeOK, JobsOK, XInv
<1>2. UNCHANGED tables /\ jobs[j].op = "export" /\ jobs[j].pc = "write"
  BY DEF ExportWrite
<1>3. CASE Goto(j, Idle)
  <2>1. Idle.op # "export"
    BY DEF Idle
  <2> QED  BY <1>2, <1>3, <2>1, OtherJobs, ExportMoves
<1>4. CASE ~Goto(j, Idle)
  <2>1. PICK seen : seen = jobs[j].seen  OBVIOUS
  <2>2. PICK bs : bs = [k \in Keys |-> IF \E i \in RowsIn(seen.rows) : seen.rows[i].key = k
                                       THEN Written(files[CHOOSE i \in RowsIn(seen.rows) : seen.rows[i].key = k])
                                       ELSE None]
    OBVIOUS
  <2>3. PICK q : q = [jobs[j] EXCEPT !.pc = "written", !.spec = [bundles |-> bs, groups |-> GroupFiles(seen)]]
    OBVIOUS
  <2>4. Goto(j, q) /\ \A i \in RowsIn(seen.rows) : files[i] # None
    BY <1>4, <2>1, <2>2, <2>3, Zenon DEF ExportWrite
  <2>5. /\ q.pc = "written" /\ q.op = "export" /\ q.seen = seen /\ q.calm = jobs[j].calm
        /\ q.spec.bundles = bs /\ q.spec.groups = GroupFiles(seen)
    BY <1>1, <1>2, <2>1, <2>3 DEF Job
  <2>6. \A i \in RowsIn(seen.rows) : files[i] = seen.rows[i].blob
    BY <1>1, <2>1, <2>4 DEF TablesOK, SeenBytes
  <2>7. SeenOK(seen) /\ seen.rows \in [Bids -> BundleRow \cup {None}]
    BY <1>1, <2>1 DEF JobOK, Job, Tables
  <2>8. \A i \in RowsIn(seen.rows) : seen.rows[i].key \in Keys
    BY <2>7 DEF RowsIn, BundleRow
  <2>9. \A i \in RowsIn(seen.rows) : bs[seen.rows[i].key] = Written(seen.rows[i].blob)
    <3> TAKE i \in RowsIn(seen.rows)
    <3>1. PICK k \in Keys : k = seen.rows[i].key
      BY <2>8
    <3>2. PICK c : c = CHOOSE x \in RowsIn(seen.rows) : seen.rows[x].key = k  OBVIOUS
    <3>3. c \in RowsIn(seen.rows) /\ seen.rows[c].key = k
      BY <3>1, <3>2, Zenon
    <3>4. c = i
      BY <2>7, <3>1, <3>3 DEF SeenOK
    <3>5. bs[k] = Written(files[c])
      BY <2>2, <3>1, <3>2, Zenon
    <3> QED  BY <2>6, <3>1, <3>4, <3>5
  <2>10. \A k \in Keys : bs[k] # None => \E i \in RowsIn(seen.rows) : seen.rows[i].key = k
    BY <2>2, Zenon
  <2>11. WroteLists(q)
    BY <2>5, <2>9, <2>10 DEF WroteLists
  <2>12. Watched(q, rows, groups, assigned)
    BY <1>1, <1>2, <2>1, <2>5 DEF ExportOK, Watched
  <2> QED  BY <1>2, <2>4, <2>11, <2>12, ExportMoves DEF ExportOK
<1> QED  BY <1>3, <1>4

\* Who changes the tables disturbs the exports that run.
LEMMA ExportDisturbed ==
    ASSUME IInv, XInv, Edit \/ \E j \in Jobs : Apply(j)
    PROVE  XInv'
<1>1. \A x \in Jobs : \/ jobs'[x] = [jobs[x] EXCEPT !.calm = jobs[x].op # "export"]
                      \/ Apply(x) /\ jobs'[x] = [jobs[x] EXCEPT !.pc = "cleanup"]
  BY DEF Edit, Apply
<1>2. ASSUME NEW x \in Jobs PROVE ExportOK(jobs'[x], rows', groups', assigned')
  <2>1. jobs[x] \in Job /\ WroteLists(jobs[x])
    BY DEF IInv, TypeOK, XInv, ExportOK
  <2>2. CASE Apply(x) /\ jobs'[x] = [jobs[x] EXCEPT !.pc = "cleanup"]
    <3>1. jobs[x].op # "export" /\ jobs'[x].op = jobs[x].op
      BY <2>1, <2>2 DEF Apply, Reconciling, Job
    <3> QED  BY <3>1, OtherJobs
  <2>3. CASE jobs'[x] = [jobs[x] EXCEPT !.calm = jobs[x].op # "export"]
    <3>1. PICK p, q : p = jobs[x] /\ q = jobs'[x]  OBVIOUS
    <3>2. /\ q.op = p.op /\ q.pc = p.pc /\ q.seen = p.seen /\ q.spec = p.spec
          /\ q.calm <=> p.op # "export"
      BY <2>1, <2>3, <3>1 DEF Job
    <3>3. WroteLists(q) /\ \A R, G, A : Watched(q, R, G, A)
      BY <2>1, <3>1, <3>2 DEF WroteLists, Watched
    <3> QED  BY <3>1, <3>3 DEF ExportOK
  <2> QED  BY <1>1, <2>2, <2>3
<1> QED  BY <1>2 DEF XInv

LEMMA ExportInit == Init => XInv
<1>1. Idle.op # "export"
  BY DEF Idle
<1> QED  BY <1>1, OtherJobs DEF Init, XInv

LEMMA ExportNext == IInv /\ XInv /\ [Next]_vars => XInv'
<1> SUFFICES ASSUME IInv, XInv, [Next]_vars PROVE XInv'
  OBVIOUS
<1>1. CASE Publish
  <2>1. \A x \in Jobs : /\ jobs[x] \in Job
                        /\ jobs'[x] = [jobs[x] EXCEPT !.stale = jobs[x].op \in {"reload", "startup"}]
    <3>1. jobs \in [Jobs -> Job]
      BY DEF IInv, TypeOK
    <3> QED  BY <1>1, <3>1 DEF Publish
  <2>2. \A x \in Jobs : /\ jobs'[x].op = jobs[x].op /\ jobs'[x].pc = jobs[x].pc /\ jobs'[x].seen = jobs[x].seen
                        /\ jobs'[x].spec = jobs[x].spec /\ jobs'[x].calm = jobs[x].calm
    BY <2>1 DEF Job
  <2>3. UNCHANGED <<rows, groups, assigned>>
    BY <1>1 DEF Publish
  <2>4. ASSUME NEW x \in Jobs PROVE ExportOK(jobs'[x], rows, groups, assigned)
    <3>1. ExportOK(jobs[x], rows, groups, assigned)
      BY DEF XInv
    <3>2. Watched(jobs'[x], rows, groups, assigned)
      BY <2>2, <3>1 DEF ExportOK, Watched
    <3>3. WroteLists(jobs'[x])
      BY <2>2, <3>1 DEF ExportOK, WroteLists
    <3> QED  BY <3>2, <3>3 DEF ExportOK
  <2> QED  BY <2>3, <2>4 DEF XInv
<1>2. ASSUME NEW j \in Jobs, Reload(j) \/ Command(j) \/ Restart(j) \/ HangUp(j) PROVE XInv'
  BY <1>2, ExportAround
<1>3. ASSUME NEW j \in Jobs, Step(j) PROVE XInv'
  <2>1. CASE LoadBundles(j) \/ LoadGroups(j) \/ Plan(j) \/ Put(j) \/ ApplyFails(j) \/ Discard(j)
    <3>1. PICK q : UNCHANGED tables /\ Goto(j, q) /\ q.op # "export"
      BY <2>1, ReconcileMoves
    <3> QED  BY <3>1, OtherJobs, ExportMoves
  <2>2. CASE ExportDone(j)
    <3>1. Idle.op # "export"
      BY DEF Idle
    <3> QED  BY <2>2, <3>1, OtherJobs, ExportMoves DEF ExportDone
  <2> QED  BY <1>3, <2>1, <2>2, ExportReads, ExportWrites, ExportDisturbed DEF Step
<1>4. CASE Edit
  BY <1>4, ExportDisturbed
<1>5. CASE UNCHANGED vars
  BY <1>5 DEF vars, XInv
<1>6. CASE Next
  <2>1. \/ Publish \/ Edit
        \/ \E j \in Jobs : Reload(j) \/ Command(j) \/ Restart(j) \/ HangUp(j) \/ Step(j)
    BY <1>6 DEF Next, Upload, DeleteBundle, RenameBundle, CreateGroup, PatchGroup, DeleteGroup, Assign
  <2> QED  BY <1>1, <1>2, <1>3, <1>4, <2>1
<1> QED  BY <1>5, <1>6

\* What an export holds while nobody edits: the lists it has read so far are the tables, and
\* what it writes of its bundles are their bytes.
THEOREM ExportInvariance == Spec => []XInv
BY InitOK, ExportInit, ExportNext, Invariance, PTL DEF Spec

LEMMA WrittenIs ==
    \A b \in Blobs : /\ Written(b) \in Content /\ Written(b) # None
                     /\ Written(b).kind = "tree" => TreeReads(Written(b).is) /\ Written(b).is = Unzip[b]
                     /\ Written(b).kind # "tree" => Written(b).is = b
                     /\ Written(b).kind # "tree" => (Written(b).kind = "nseb" <=> Written(b).is \in Sealed)
<1> SUFFICES ASSUME NEW b \in Blobs
             PROVE  /\ Written(b) \in Content /\ Written(b) # None
                    /\ Written(b).kind = "tree" => TreeReads(Written(b).is) /\ Written(b).is = Unzip[b]
                    /\ Written(b).kind # "tree" => Written(b).is = b
                    /\ Written(b).kind # "tree" => (Written(b).kind = "nseb" <=> Written(b).is \in Sealed)
  OBVIOUS
<1>1. Written(b) \in Content
  BY FilesAssumption DEF Written, Content, TreeReads
<1>2. CASE b \in Sealed
  <2>1. Written(b) = [kind |-> "nseb", is |-> b]
    BY <1>2 DEF Written
  <2> QED  BY <1>1, <1>2, <2>1, NoneIsNone
<1>3. CASE b \notin Sealed /\ TreeReads(Unzip[b])
  <2>1. Written(b) = [kind |-> "tree", is |-> Unzip[b]]
    BY <1>3 DEF Written
  <2> QED  BY <1>1, <1>3, <2>1, NoneIsNone
<1>4. CASE b \notin Sealed /\ ~TreeReads(Unzip[b])
  <2>1. Written(b) = [kind |-> "zip", is |-> b]
    BY <1>4 DEF Written
  <2> QED  BY <1>1, <1>4, <2>1, NoneIsNone
<1> QED  BY <1>2, <1>3, <1>4

\* The file of a group.
FileOf(seen, g) ==
    [name |-> seen.groups[g].name, sel |-> seen.groups[g].sel,
     uses |-> {seen.rows[a[2]].key : a \in {x \in seen.assigned : x[1] = g /\ seen.rows[x[2]] # None}}]

\* What was written loads, but for the names of its groups.
LEMMA ExportedIs ==
    ASSUME NEW q \in Job, JobOK(q), WroteLists(q), q.op = "export", q.pc = "written",
           NEW seen, seen = q.seen, NEW spec, spec = q.spec
    PROVE  /\ spec \in Directory /\ seen \in Tables /\ SeenOK(seen)
           /\ \A k \in Listed(spec.bundles) : \E i \in RowsIn(seen.rows) :
                seen.rows[i].key = k /\ spec.bundles[k] = Written(seen.rows[i].blob)
           /\ \A i \in RowsIn(seen.rows) :
                /\ i \in Bids /\ seen.rows[i] \in BundleRow /\ seen.rows[i].key \in Listed(spec.bundles)
                /\ spec.bundles[seen.rows[i].key] = Written(seen.rows[i].blob)
           /\ spec.groups = {FileOf(seen, g) : g \in RowsIn(seen.groups)}
           /\ \A x \in spec.groups : x.uses \subseteq Listed(spec.bundles)
           /\ \A x, y \in spec.groups : x.name = y.name => x = y
           /\ BundlesLoad(spec.bundles) /\ Builds(spec.bundles)
<1>1. /\ spec \in Directory /\ seen \in Tables /\ SeenOK(seen)
      /\ spec.groups = GroupFiles(seen)
      /\ \A i \in RowsIn(seen.rows) : spec.bundles[seen.rows[i].key] = Written(seen.rows[i].blob)
      /\ \A k \in Keys : spec.bundles[k] # None => \E i \in RowsIn(seen.rows) : seen.rows[i].key = k
  BY DEF Job, JobOK, WroteLists
<1>2. /\ \A i \in RowsIn(seen.rows) : i \in Bids /\ seen.rows[i] \in BundleRow
      /\ seen.assigned \subseteq Gids \X Bids /\ RowsIn(seen.rows) = {i \in Bids : seen.rows[i] # None}
  BY <1>1, RowsInIs DEF Tables
<1>3. \A i \in RowsIn(seen.rows) : seen.rows[i].key \in Keys /\ seen.rows[i].blob \in Blobs
  BY <1>2 DEF BundleRow
<1>4. \A i \in RowsIn(seen.rows) : seen.rows[i].key \in Listed(spec.bundles)
  BY <1>1, <1>3, WrittenIs DEF Listed
<1>5. \A k \in Listed(spec.bundles) : \E i \in RowsIn(seen.rows) :
        seen.rows[i].key = k /\ spec.bundles[k] = Written(seen.rows[i].blob)
  BY <1>1 DEF Listed
<1>6. spec.groups = {FileOf(seen, g) : g \in RowsIn(seen.groups)}
  BY <1>1 DEF GroupFiles, FileOf
<1>7. \A g \in RowsIn(seen.groups) : FileOf(seen, g).uses \subseteq Listed(spec.bundles)
  <2> SUFFICES ASSUME NEW g \in RowsIn(seen.groups), NEW a \in seen.assigned, seen.rows[a[2]] # None
               PROVE  seen.rows[a[2]].key \in Listed(spec.bundles)
    BY DEF FileOf
  <2>1. a[2] \in RowsIn(seen.rows)
    BY <1>2
  <2> QED  BY <1>4, <2>1
<1>8. \A g, h \in RowsIn(seen.groups) : FileOf(seen, g).name = FileOf(seen, h).name => g = h
  BY <1>1 DEF FileOf, SeenOK
<1>9. \A x \in spec.groups : x.uses \subseteq Listed(spec.bundles)
  BY <1>6, <1>7
<1>10. \A x, y \in spec.groups : x.name = y.name => x = y
  BY <1>6, <1>8
<1>11. BundlesLoad(spec.bundles) /\ Builds(spec.bundles)
  BY <1>3, <1>5, WrittenIs DEF BundlesLoad, Builds
<1> QED  BY <1>1, <1>2, <1>4, <1>5, <1>6, <1>9, <1>10, <1>11

\* An export loads, whatever was edited while it was made, as long as no two of its groups
\* have names the loader reads alike: it writes what it listed and no reference to more.
THEOREM Loadables == Spec => []ExportLoads
<1>1. IInv /\ XInv => ExportLoads
  <2> SUFFICES ASSUME IInv, XInv, NEW j \in Jobs, jobs[j].pc = "written",
                      \A g \in jobs[j].spec.groups : Trim[g.name] = g.name
               PROVE  Loads(jobs[j].spec.bundles, jobs[j].spec.groups) /\ Builds(jobs[j].spec.bundles)
    BY DEF ExportLoads
  <2>1. jobs[j] \in Job /\ JobOK(jobs[j]) /\ WroteLists(jobs[j]) /\ jobs[j].op = "export"
    BY DEF IInv, TypeOK, JobsOK, JobOK, XInv, ExportOK
  <2>2. PICK q, spec, seen : q = jobs[j] /\ spec = q.spec /\ seen = q.seen  OBVIOUS
  <2>3. /\ \A x \in spec.groups : x.uses \subseteq Listed(spec.bundles)
        /\ \A x, y \in spec.groups : x.name = y.name => x = y
        /\ BundlesLoad(spec.bundles) /\ Builds(spec.bundles)
    BY <2>1, <2>2, ExportedIs
  <2>4. GroupsLoad(spec.groups)
    BY <2>2, <2>3 DEF GroupsLoad
  <2> QED  BY <2>2, <2>3, <2>4 DEF Loads
<1> QED  BY <1>1, Invariance, ExportInvariance, PTL

\* A plan made from what an export wrote and the lists it wrote it from.
LEMMA NothingToDo ==
    ASSUME IInv, NEW j \in Jobs, jobs[j].pc = "written", jobs[j].op = "export", WroteLists(jobs[j]),
           NEW spec, spec = jobs[j].spec, NEW seen, seen = jobs[j].seen,
           seen.rows = rows, seen.groups = groups, seen.assigned = assigned,
           NEW plan, plan = PlanFor(spec, seen, TRUE)
    PROVE  ~Changed(spec, seen, plan)
<1>1. jobs[j] \in Job /\ JobOK(jobs[j])
  BY DEF IInv, TypeOK, JobsOK
<1>2. /\ spec \in Directory /\ seen \in Tables /\ SeenOK(seen)
      /\ \A k \in Listed(spec.bundles) : \E i \in RowsIn(seen.rows) :
           seen.rows[i].key = k /\ spec.bundles[k] = Written(seen.rows[i].blob)
      /\ \A i \in RowsIn(seen.rows) :
           /\ i \in Bids /\ seen.rows[i] \in BundleRow /\ seen.rows[i].key \in Listed(spec.bundles)
           /\ spec.bundles[seen.rows[i].key] = Written(seen.rows[i].blob)
      /\ spec.groups = {FileOf(seen, g) : g \in RowsIn(seen.groups)}
      /\ \A x \in spec.groups : x.uses \subseteq Listed(spec.bundles)
      /\ \A x, y \in spec.groups : x.name = y.name => x = y
  BY <1>1, ExportedIs
<1>3. SpecOK(spec)
  BY <1>2 DEF SpecOK
<1>4. /\ RowsIn(rows) = {i \in Bids : rows[i] # None} /\ RowsIn(groups) = {g \in Gids : groups[g] # None}
      /\ \A i \in Bids : rows[i] # None => files[i] = rows[i].blob
      /\ assigned \subseteq RowsIn(groups) \X RowsIn(rows)
      /\ groups \in [Gids -> GroupRow \cup {None}]
  BY TablesAre
<1>5. Keep(spec, seen, TRUE) = RowsIn(seen.rows)
  <2> SUFFICES ASSUME NEW i \in RowsIn(seen.rows)
               PROVE  /\ spec.bundles[seen.rows[i].key] # None
                      /\ Unchanged(i, seen.rows[i], spec.bundles[seen.rows[i].key], TRUE)
    BY DEF Keep
  <2>1. PICK b, c : b = seen.rows[i].blob /\ c = spec.bundles[seen.rows[i].key]  OBVIOUS
  <2>2. b \in Blobs /\ c = Written(b) /\ files[i] = b /\ b # None
    BY <1>2, <1>4, <2>1, NoneIsNone DEF BundleRow
  <2>3. c # None
    BY <2>2, WrittenIs
  <2>4. b = Blob(c) \/ (c.kind = "tree" /\ Unzip[files[i]] = c.is)
    BY <2>2, WrittenIs DEF Blob
  <2>5. Unchanged(i, seen.rows[i], c, TRUE)
    BY <2>1, <2>2, <2>4 DEF Unchanged
  <2> QED  BY <2>1, <2>3, <2>5
<1>6. PICK add : add = Adding(spec, seen, Keep(spec, seen, TRUE))  OBVIOUS
<1>7. add = {}
  <2>1. \A k \in Listed(spec.bundles) : \E i \in RowsIn(seen.rows) : seen.rows[i].key = k
    BY <1>2
  <2>2. PICK kept : kept = Keep(spec, seen, TRUE)  OBVIOUS
  <2>3. add = Listed(spec.bundles) \ {seen.rows[i].key : i \in kept}
    BY <1>6, <2>2, Zenon DEF Adding
  <2> SUFFICES ASSUME NEW k \in add PROVE FALSE
    OBVIOUS
  <2>4. k \in Listed(spec.bundles) /\ \A i \in kept : seen.rows[i].key # k
    BY <2>3
  <2>5. kept = RowsIn(seen.rows)
    BY <1>5, <2>2
  <2> QED  BY <2>1, <2>4, <2>5
<1>8. PICK new : new = Naming(spec, seen)  OBVIOUS
<1>9. new = {}
  <2>0. \A g \in RowsIn(seen.groups) : FileOf(seen, g).name = seen.groups[g].name
    BY DEF FileOf
  <2>1. \A g \in RowsIn(seen.groups) : FileOf(seen, g).name = seen.groups[g].name /\ FileOf(seen, g) \in spec.groups
    BY <1>2, <2>0
  <2>2. Known(spec, seen) = RowsIn(seen.groups)
    BY <2>1 DEF Known, SameGroup
  <2>3. \A x \in spec.groups : \E g \in RowsIn(seen.groups) : x.name = seen.groups[g].name
    BY <1>2, <2>1
  <2> QED  BY <1>8, <2>2, <2>3 DEF Naming
<1>10. Enough(add, FreeBids) /\ Enough(new, FreeGids)
  <2>1. \A T : [x \in {} |-> x] \in Injections({}, T)
    BY DEF Injections
  <2> QED  BY <1>7, <1>9, <2>1 DEF Enough
<1>11. plan \in Plans /\ PlanOK(spec, seen, plan)
  <2>1. \A i \in RowsIn(seen.rows) : files[i] \in {None, seen.rows[i].blob}
    BY <1>4
  <2> QED  BY <1>2, <1>3, <1>6, <1>8, <1>10, <2>1, PlanForOK
<1>12. plan.kept = RowsIn(seen.rows) /\ \A k \in Keys : plan.add[k] = None
  <2>1. PICK kept, ids : kept = Keep(spec, seen, TRUE) /\ ids = Injection(add, FreeBids)  OBVIOUS
  <2>2. plan.kept = kept /\ plan.add = [k \in Keys |-> IF k \in add THEN ids[k] ELSE None]
    BY <1>6, <2>1 DEF PlanFor
  <2>3. kept = RowsIn(seen.rows)
    BY <1>5, <2>1
  <2> QED  BY <1>7, <2>2, <2>3
<1>13. \A g \in RowsIn(groups) : /\ FileOf(seen, g) \in spec.groups
                                 /\ plan.named[FileOf(seen, g).name] = g
                                 /\ groups[g] = [name |-> FileOf(seen, g).name, sel |-> FileOf(seen, g).sel]
  <2> TAKE g \in RowsIn(groups)
  <2>1. FileOf(seen, g) \in spec.groups
    BY <1>2
  <2>2. groups[g] \in GroupRow
    BY <1>4
  <2>3. FileOf(seen, g).name = groups[g].name /\ FileOf(seen, g).sel = groups[g].sel
    BY DEF FileOf
  <2>4. groups[g].name \in Names
    BY <2>2 DEF GroupRow
  <2>5. plan.named[groups[g].name] \in {g, None} /\ plan.named[groups[g].name] # None
    BY <1>11, <2>1, <2>3, <2>4 DEF PlanOK, NamesAll
  <2>6. groups[g] = [name |-> groups[g].name, sel |-> groups[g].sel]
    BY <2>2 DEF GroupRow
  <2> QED  BY <2>1, <2>3, <2>5, <2>6
<1>14. {groups[g] : g \in RowsIn(groups)} = {[name |-> x.name, sel |-> x.sel] : x \in spec.groups}
  <2> DEFINE Row(x) == [name |-> x.name, sel |-> x.sel]
  <2>1. \A g \in RowsIn(groups) : groups[g] = Row(FileOf(seen, g))
    BY <1>13
  <2> HIDE DEF Row
  <2>2. {groups[g] : g \in RowsIn(groups)} = {Row(x) : x \in spec.groups}
    BY <1>2, <2>1
  <2> QED  BY <2>2 DEF Row
<1>15. PICK A : A = Assignments(spec, seen, plan)  OBVIOUS
<1>16. /\ \A x \in spec.groups : \A k \in x.uses : \E i \in Bids :
            <<plan.named[x.name], i>> \in A /\ i \in plan.kept /\ seen.rows[i].key = k
       /\ \A a \in A : \E x \in spec.groups : \E k \in x.uses, i \in Bids :
            a = <<plan.named[x.name], i>> /\ i \in plan.kept /\ seen.rows[i].key = k
  <2>1. Assigns(A, spec, seen, plan)
    BY <1>2, <1>3, <1>11, <1>15, AssignmentsAre
  <2>2. \A x \in spec.groups : x.uses \subseteq Keys
    BY <1>2 DEF Directory, GroupFile
  <2>3. \A k \in Keys, i \in Bids : plan.add[k] # i
    BY <1>12, NoneIsNone
  <2>4. /\ \A x \in spec.groups : \A k \in x.uses : \E i \in Bids :
             /\ <<plan.named[x.name], i>> \in A
             /\ plan.add[k] = i \/ (plan.add[k] = None /\ i \in plan.kept /\ seen.rows[i].key = k)
        /\ \A a \in A : \E x \in spec.groups : \E k \in x.uses, i \in Bids :
             /\ a = <<plan.named[x.name], i>>
             /\ plan.add[k] = i \/ (plan.add[k] = None /\ i \in plan.kept /\ seen.rows[i].key = k)
    BY <2>1, Zenon DEF Assigns
  <2>5. \A x \in spec.groups : \A k \in x.uses : \E i \in Bids :
            <<plan.named[x.name], i>> \in A /\ i \in plan.kept /\ seen.rows[i].key = k
    <3> TAKE x \in spec.groups
    <3> TAKE k \in x.uses
    <3>1. PICK i \in Bids :
             /\ <<plan.named[x.name], i>> \in A
             /\ plan.add[k] = i \/ (plan.add[k] = None /\ i \in plan.kept /\ seen.rows[i].key = k)
      BY <2>4
    <3>2. plan.add[k] # i
      BY <2>2, <2>3
    <3> QED  BY <3>1, <3>2
  <2>6. \A a \in A : \E x \in spec.groups : \E k \in x.uses, i \in Bids :
            a = <<plan.named[x.name], i>> /\ i \in plan.kept /\ seen.rows[i].key = k
    <3> TAKE a \in A
    <3>1. PICK x \in spec.groups : \E k \in x.uses, i \in Bids :
             /\ a = <<plan.named[x.name], i>>
             /\ plan.add[k] = i \/ (plan.add[k] = None /\ i \in plan.kept /\ seen.rows[i].key = k)
      BY <2>4
    <3>2. PICK k \in x.uses, i \in Bids :
             /\ a = <<plan.named[x.name], i>>
             /\ plan.add[k] = i \/ (plan.add[k] = None /\ i \in plan.kept /\ seen.rows[i].key = k)
      BY <3>1
    <3> QED  BY <2>2, <2>3, <3>2
  <2> QED  BY <2>5, <2>6
<1>17. \A i, h \in RowsIn(rows) : rows[i].key = rows[h].key => i = h
  BY <1>2 DEF SeenOK
<1>18. \A g \in RowsIn(groups) : \A k :
         k \in FileOf(seen, g).uses <=> \E i \in RowsIn(rows) : <<g, i>> \in assigned /\ rows[i].key = k
  <2> TAKE g \in RowsIn(groups)
  <2>1. FileOf(seen, g).uses = {rows[a[2]].key : a \in {x \in assigned : x[1] = g /\ rows[x[2]] # None}}
    BY DEF FileOf
  <2>2. \A a \in assigned : a = <<a[1], a[2]>> /\ a[2] \in RowsIn(rows)
    BY <1>4
  <2>3. \A i \in RowsIn(rows) : rows[i] # None
    BY <1>4
  <2>4. ASSUME NEW k \in FileOf(seen, g).uses PROVE \E i \in RowsIn(rows) : <<g, i>> \in assigned /\ rows[i].key = k
    <3>1. PICK a \in assigned : a[1] = g /\ rows[a[2]].key = k
      BY <2>1
    <3> QED  BY <2>2, <3>1
  <2>5. ASSUME NEW i \in RowsIn(rows), <<g, i>> \in assigned PROVE rows[i].key \in FileOf(seen, g).uses
    <3>1. PICK a \in assigned : a = <<g, i>>
      BY <2>5
    <3>2. a[1] = g /\ a[2] = i /\ rows[a[2]] # None
      BY <2>3, <3>1
    <3>3. a \in {x \in assigned : x[1] = g /\ rows[x[2]] # None} /\ rows[i].key = rows[a[2]].key
      BY <3>1, <3>2
    <3>4. rows[a[2]].key \in FileOf(seen, g).uses
      BY <2>1, <3>3
    <3> QED  BY <3>3, <3>4
  <2>6. ASSUME NEW k, \E i \in RowsIn(rows) : <<g, i>> \in assigned /\ rows[i].key = k PROVE k \in FileOf(seen, g).uses
    <3>1. PICK i \in RowsIn(rows) : <<g, i>> \in assigned /\ rows[i].key = k
      BY <2>6
    <3> QED  BY <2>5, <3>1, Zenon
  <2> QED  BY <2>4, <2>6, Zenon
<1>19. A \subseteq assigned
  <2> SUFFICES ASSUME NEW a \in A PROVE a \in assigned
    OBVIOUS
  <2>1. PICK x \in spec.groups : \E k \in x.uses, i \in Bids :
            a = <<plan.named[x.name], i>> /\ i \in plan.kept /\ seen.rows[i].key = k
    BY <1>16
  <2>2. PICK k \in x.uses, i \in Bids : a = <<plan.named[x.name], i>> /\ i \in plan.kept /\ seen.rows[i].key = k
    BY <2>1
  <2>3. PICK g \in RowsIn(groups) : x = FileOf(seen, g)
    BY <1>2
  <2>4. plan.named[x.name] = g
    BY <1>13, <2>3
  <2>5. PICK h \in RowsIn(rows) : <<g, h>> \in assigned /\ rows[h].key = k
    BY <1>18, <2>3
  <2>6. i \in RowsIn(rows) /\ rows[i].key = k
    BY <1>12, <2>2
  <2>7. h = i
    BY <1>17, <2>5, <2>6
  <2> QED  BY <2>2, <2>4, <2>5, <2>7
<1>20. assigned \subseteq A
  <2> SUFFICES ASSUME NEW a \in assigned PROVE a \in A
    OBVIOUS
  <2>1. PICK g \in RowsIn(groups), h \in RowsIn(rows) : a = <<g, h>>
    BY <1>4
  <2>2. PICK x, k : x = FileOf(seen, g) /\ k = rows[h].key  OBVIOUS
  <2>3. x \in spec.groups /\ k \in x.uses /\ plan.named[x.name] = g
    BY <1>13, <1>18, <2>1, <2>2
  <2>4. PICK i \in Bids : <<plan.named[x.name], i>> \in A /\ i \in plan.kept /\ seen.rows[i].key = k
    BY <1>16, <2>3
  <2>5. i = h
    <3>1. i \in RowsIn(rows) /\ rows[i].key = rows[h].key
      BY <1>12, <2>2, <2>4
    <3> QED  BY <1>17, <2>1, <3>1
  <2>6. a = <<plan.named[x.name], i>>
    BY <2>1, <2>3, <2>5, Zenon
  <2> QED  BY <2>4, <2>6, Zenon
<1>21. A = seen.assigned
  BY <1>19, <1>20
<1> QED  BY <1>12, <1>14, <1>15, <1>21 DEF Changed

\* Reconciling what was exported changes nothing, where every group's name is one the loader
\* leaves alone and the tables stayed as they were while it was made: a stored bundle is
\* written as what the reconcile takes for the same, and a group under the name it has.
THEOREM Returning == Spec => []ExportReturns
<1>1. IInv /\ XInv => ExportReturns
  <2> SUFFICES ASSUME IInv, XInv, NEW j \in Jobs, jobs[j].pc = "written", jobs[j].calm,
                      \A g \in RowsIn(groups) : Trim[groups[g].name] = groups[g].name
               PROVE  Returns(j)
    BY DEF ExportReturns
  <2>1. /\ jobs[j] \in Job /\ JobOK(jobs[j]) /\ WroteLists(jobs[j]) /\ jobs[j].op = "export"
        /\ jobs[j].seen.rows = rows /\ jobs[j].seen.groups = groups /\ jobs[j].seen.assigned = assigned
    BY DEF IInv, TypeOK, JobsOK, JobOK, XInv, ExportOK, Watched
  <2>2. PICK q, spec, seen : q = jobs[j] /\ spec = q.spec /\ seen = q.seen  OBVIOUS
  <2>3. /\ spec \in Directory /\ seen \in Tables
        /\ \A x \in spec.groups : x.uses \subseteq Listed(spec.bundles)
        /\ \A x, y \in spec.groups : x.name = y.name => x = y
        /\ spec.groups = {FileOf(seen, g) : g \in RowsIn(seen.groups)}
        /\ BundlesLoad(spec.bundles) /\ Builds(spec.bundles)
    BY <2>1, <2>2, ExportedIs
  <2>4. \A x \in spec.groups : Trim[x.name] = x.name
    BY <2>1, <2>2, <2>3 DEF FileOf
  <2>5. Loads(spec.bundles, spec.groups)
    BY <2>3, <2>4 DEF Loads, GroupsLoad
  <2>6. Trimmed(spec.groups) = spec.groups
    <3>1. \A x \in spec.groups : [x EXCEPT !.name = Trim[@]] = x
      BY <2>3, <2>4 DEF Directory, GroupFile
    <3> QED  BY <3>1 DEF Trimmed
  <2>7. [spec EXCEPT !.groups = Trimmed(@)] = spec
    BY <2>3, <2>6 DEF Directory
  <2>8. [rows |-> rows, groups |-> groups, assigned |-> assigned] = seen
    BY <2>1, <2>2, <2>3 DEF Tables
  <2>9. ~Changed(spec, seen, PlanFor(spec, seen, TRUE))
    BY <2>1, <2>2, NothingToDo
  <2> QED  BY <2>2, <2>3, <2>5, <2>7, <2>8, <2>9, Zenon DEF Returns
<1> QED  BY <1>1, Invariance, ExportInvariance, PTL

===============================================================================
