----------------------------- MODULE BundlesProofs -----------------------------
(***************************************************************************)
(* Proofs about Bundles, for any ids, names, requests, sweeps and stops:   *)
(* every row vouches for the bytes stored for it, an upload's bytes stay   *)
(* as long as its row, no memoized state outlives a bundle, and a rename   *)
(* is all or nothing.                                                      *)
(***************************************************************************)
EXTENDS Bundles, TLAPS

Fields == {"op", "pc", "id", "base", "name", "to", "version", "format", "group", "shot", "map", "todo", "got"}

\* A row is of its id's content, sealed under the row's name if at all.
RowOK(i) ==
    \/ rows[i] = NoRow
    \/ /\ i \in Used
       /\ rows[i] = Row(i, rows[i].name, rows[i].version, content[i])
       /\ content[i].seal \in {Plain, rows[i].name}

FileOK(i) ==
    /\ files[i] \in {NoFile, TornFile, content[i]}
    /\ i \notin Used => files[i] = NoFile

\* Its bytes are there, or on their way, or were never all written.
Kept(i) == Present(i) /\ i \notin cut \cup staged => files[i] = content[i] \/ Arriving(i)

\* What was offered under a name is staged, and sealed under it.
Sealed(x, to) == x \in Used /\ x \in staged /\ content[x].seal = to

\* What the sweep deletes next.
SweepOK ==
    /\ sweep.ids \subseteq Used /\ DOMAIN sweep = {"pc", "ids"}
    /\ sweep.pc = "delete" => \A i \in sweep.ids : ~Present(i) \/ i \in staged

Tables ==
    /\ DOMAIN rows = Ids /\ DOMAIN files = Ids /\ DOMAIN content = Ids
    /\ \A i \in Ids : RowOK(i) /\ FileOK(i) /\ Kept(i) /\ content[i].text \in Maybe(Ids)
    /\ \A o \in offers : Sealed(o.as, o.to)
    /\ SweepOK

\* What a rename has read: the versions under the old name, and for each one it
\* re-seals the staged content.
Read(q) ==
    \A i \in Ids :
        /\ q.shot[i].name # None => i \in Used /\ q.shot[i].sha = content[i]
        /\ q.shot[i].name # None /\ q.map[i] = None => content[i].seal = Plain
        /\ q.map[i] # None => q.shot[i].name # None
        /\ q.map[i] # None /\ i \notin q.todo => q.got[i] = content[q.map[i]]

Good(q) ==
    /\ DOMAIN q = Fields
    /\ q.pc \in {"base", "read", "count", "insert"} => q.op \in {"upload", "compose"}
    /\ q.pc \in {"store", "late"} =>
         /\ q.id \in Used /\ content[q.id] = Writing(q)
         /\ q.op = "reseal" => q.id \in staged
    /\ q.pc = "mint" => q.op = "reseal" /\ Writing(q).text \in Ids
    /\ q.pc \in {"versions", "check", "staged"} =>
         /\ q.name \in Names /\ q.to \in Names /\ DOMAIN q.got = Ids
         /\ \A i \in Ids : q.map[i] # None => Sealed(q.map[i], q.to)
    /\ q.pc \in {"check", "staged"} =>
         Read(q) /\ q.todo \subseteq {i \in Ids : q.map[i] # None}
    /\ q.pc = "staged" => q.id \in q.todo
    /\ q.pc \in {"delete", "unlink", "assign"} => q.id \in Used
    /\ q.pc \in {"delete", "unlink"} => q.op = "delete"
    /\ q.pc = "unlink" => ~Present(q.id) \/ q.id \in staged

Requests == DOMAIN reqs = Slots /\ \A r \in Slots : Good(reqs[r])
IInv     == Tables /\ Requests

\* Contents are given once, ids staged for good, and no row but a staged one comes back.
Grows ==
    /\ \A i \in Used : i \in Used' /\ content'[i] = content[i]
    /\ staged \subseteq staged'
    /\ \A i \in Used \ staged : Present(i)' => Present(i)

LEMMA GoodStays ==
    ASSUME Tables, Grows, NEW r \in Slots, Good(reqs[r]), reqs'[r] = reqs[r]
    PROVE  Good(reqs[r])'
<1> DEFINE q == reqs[r]
<1>1. ASSUME NEW x, NEW to, Sealed(x, to) PROVE Sealed(x, to)'
  BY <1>1 DEF Grows, Sealed
<1>2. Read(q) /\ (\A i \in Ids : q.map[i] # None => Sealed(q.map[i], q.to)) => Read(q)'
  BY DEF Read, Grows, Sealed
<1>3. Writing(q)' = Writing(q)
  BY DEF Writing
<1>4. q.id \in Used => q.id \in Used' /\ content'[q.id] = content[q.id]
  BY DEF Grows
<1>5. q.id \in staged => q.id \in staged'
  BY DEF Grows
<1>6. q.id \in Used /\ (~Present(q.id) \/ q.id \in staged) => (~Present(q.id) \/ q.id \in staged)'
  BY DEF Grows, Present
<1>7. \A i \in Ids : q.map[i] # None /\ Sealed(q.map[i], q.to) => Sealed(q.map[i], q.to)'
  BY <1>1
<1> QED BY <1>2, <1>3, <1>4, <1>5, <1>6, <1>7 DEF Good

LEMMA RowIs ==
    ASSUME NEW i, RowOK(i), Present(i)
    PROVE  /\ i \in Used /\ rows[i].sha = content[i] /\ content[i].seal \in {Plain, rows[i].name}
           /\ rows[i].sig = Descriptor(i, rows[i].name, rows[i].version, rows[i].sha)
<1>1. NoRow.name = None
  BY DEF NoRow, Row
<1>2. i \in Used /\ rows[i] = Row(i, rows[i].name, rows[i].version, content[i]) /\ content[i].seal \in {Plain, rows[i].name}
  BY <1>1 DEF RowOK, Present
<1>3. \A n, v, c : Row(i, n, v, c).sha = c /\ Row(i, n, v, c).sig = Descriptor(i, n, v, c)
  BY DEF Row
<1> QED BY <1>2, <1>3

LEMMA IdleGood == DOMAIN IdleReq = Fields /\ IdleReq.pc = "idle" /\ Good(IdleReq)
<1>1. DOMAIN IdleReq = Fields /\ IdleReq.pc = "idle"
  BY DEF IdleReq, Fields
<1> QED BY <1>1 DEF Good

\* A write that is under way stays so, unless it is what the request just did.
LEMMA ArrivingStays ==
    ASSUME Requests, NEW r \in Slots, NEW n, reqs' = [reqs EXCEPT ![r] = n], NEW i, Arriving(i),
           \/ reqs[r].pc \notin {"store", "late"} \/ reqs[r].id # i
           \/ n.pc \in {"store", "late"} /\ n.id = reqs[r].id
    PROVE  Arriving(i)'
<1>1. PICK x \in Slots : reqs[x].pc \in {"store", "late"} /\ reqs[x].id = i
  BY DEF Arriving
<1>2. reqs'[x].pc \in {"store", "late"} /\ reqs'[x].id = i
  BY <1>1 DEF Requests
<1> QED BY <1>1, <1>2 DEF Arriving

LEMMA OneRequest ==
    ASSUME IInv, NEW r \in Slots, NEW n, reqs' = [reqs EXCEPT ![r] = n], Grows, Good(n)', Tables'
    PROVE  IInv'
<1>1. DOMAIN reqs' = Slots /\ reqs'[r] = n /\ \A x \in Slots \ {r} : reqs'[x] = reqs[x]
  BY DEF IInv, Requests
<1>2. Good(reqs[r])'
  BY <1>1 DEF Good, Read, Sealed, Writing
<1>3. \A x \in Slots \ {r} : Good(reqs[x])'
  BY <1>1, GoodStays DEF IInv, Requests
<1> QED BY <1>1, <1>2, <1>3 DEF IInv, Requests

\* A request that touches neither rows nor files.
LEMMA QuietStep ==
    ASSUME IInv, NEW r \in Slots, NEW n, reqs' = [reqs EXCEPT ![r] = n], Good(n),
           \/ reqs[r].pc \notin {"store", "late"}
           \/ n.pc \in {"store", "late"} /\ n.id = reqs[r].id,
           UNCHANGED <<rows, files, content, staged, cut, offers, sweep>>
    PROVE  IInv'
<1>1. Grows
  BY DEF Grows, Used, Present
<1>2. Good(n)'
  BY DEF Good, Read, Sealed, Writing, Used, Present
<1>3. \A i \in Ids : Arriving(i) => Arriving(i)'
  BY ArrivingStays DEF IInv
<1>4. Tables'
  BY <1>3 DEF IInv, Tables, RowOK, FileOK, Kept, Present, Used, Sealed, SweepOK
<1> QED BY <1>1, <1>2, <1>4, OneRequest

LEMMA AnswerStep ==
    ASSUME IInv, NEW r \in Slots, Answer(r), reqs[r].pc \notin {"store", "late"},
           UNCHANGED <<rows, files, content, staged, cut, offers, sweep>>
    PROVE  IInv'
BY QuietStep, IdleGood DEF Answer

\* To a phase that promises nothing.
LEMMA GoToStep ==
    ASSUME IInv, NEW r \in Slots, NEW p \in {"idle", "base", "read", "count", "insert", "bump"},
           GoTo(r, p), reqs[r].pc \notin {"store", "late"},
           p \in {"base", "read", "count", "insert"} => reqs[r].op \in {"upload", "compose"},
           UNCHANGED <<rows, files, content, staged, cut, offers, sweep>>
    PROVE  IInv'
<1> DEFINE n == [reqs[r] EXCEPT !.pc = p]
<1>1. DOMAIN reqs[r] = Fields
  BY DEF IInv, Requests, Good
<1>2. DOMAIN n = Fields /\ n.pc = p /\ n.op = reqs[r].op
  BY <1>1 DEF Fields
<1>3. reqs' = [reqs EXCEPT ![r] = n]
  BY DEF GoTo
<1> HIDE DEF n
<1>4. Good(n)
  BY <1>2 DEF Good
<1> QED BY <1>3, <1>4, QuietStep
-------------------------------------------------------------------------------
\* Requests begin.

LEMMA BeginStep ==
    ASSUME IInv, NEW r \in Slots, NEW op, NEW n, Begin(r, op, n), Good(n),
           UNCHANGED <<rows, files, content, staged, cut, offers, sweep>>
    PROVE  IInv'
BY QuietStep DEF Begin

LEMMA RequestStarts ==
    ASSUME IInv, NEW r \in Slots, Request(r)
    PROVE  IInv'
<1> USE DEF table, store, history, environ
<1>1. ASSUME NEW op \in {"upload", "compose"}, NEW nm, NEW v, NEW f, NEW b, Upload(r, op, nm, v, f, b) PROVE IInv'
  <2> DEFINE p == IF b = None THEN "count" ELSE "base"
             n == [IdleReq EXCEPT !.op = op, !.pc = p, !.name = nm, !.version = v, !.format = f, !.base = b]
  <2>1. DOMAIN n = Fields /\ n.pc = p /\ n.op = op
    BY IdleGood DEF Fields
  <2>2. Begin(r, op, n) /\ UNCHANGED <<rows, files, content, staged, cut, offers, sweep>>
    BY <1>1 DEF Upload
  <2> HIDE DEF n
  <2>3. Good(n)
    BY <1>1, <2>1 DEF Good
  <2> QED BY <2>2, <2>3, BeginStep
<1>2. ASSUME NEW i \in Used, DeleteBundle(r, i) PROVE IInv'
  <2> DEFINE n == [IdleReq EXCEPT !.op = "delete", !.id = i, !.pc = "delete"]
  <2>1. DOMAIN n = Fields /\ n.pc = "delete" /\ n.id = i /\ n.op = "delete"
    BY IdleGood DEF Fields
  <2>2. Begin(r, "delete", n) /\ UNCHANGED <<rows, files, content, staged, cut, offers, sweep>>
    BY <1>2 DEF DeleteBundle
  <2> HIDE DEF n
  <2>3. Good(n)
    BY <2>1 DEF Good
  <2> QED BY <2>2, <2>3, BeginStep
<1>3. ASSUME NEW op \in {"assign", "unassign"}, NEW g, NEW i \in Used, Assign(r, op, g, i) PROVE IInv'
  <2> DEFINE n == [IdleReq EXCEPT !.op = op, !.id = i, !.group = g, !.pc = op]
  <2>1. DOMAIN n = Fields /\ n.pc = op /\ n.id = i
    BY IdleGood DEF Fields
  <2>2. Begin(r, op, n) /\ UNCHANGED <<rows, files, content, staged, cut, offers, sweep>>
    BY <1>3 DEF Assign
  <2> HIDE DEF n
  <2>3. Good(n)
    BY <2>1 DEF Good
  <2> QED BY <2>2, <2>3, BeginStep
<1>4. ASSUME NEW i \in Used, NEW to \in Names, StageReseal(r, i, to) PROVE IInv'
  <2> DEFINE n == [IdleReq EXCEPT !.op = "reseal", !.pc = "mint", !.base = i, !.to = to,
                                  !.shot = [IdleReq.shot EXCEPT ![i] = rows[i]]]
  <2>1. DOMAIN n = Fields /\ n.pc = "mint" /\ n.op = "reseal" /\ n.base = i /\ n.shot = [IdleReq.shot EXCEPT ![i] = rows[i]]
    BY IdleGood DEF Fields
  <2>2. Begin(r, "reseal", n) /\ UNCHANGED <<rows, files, content, staged, cut, offers, sweep>>
    BY <1>4 DEF StageReseal
  <2>3. i \in Ids /\ DOMAIN IdleReq.shot = Ids
    BY DEF Used, IdleReq
  <2> HIDE DEF n
  <2>4. n.shot[n.base] = rows[i]
    BY <2>1, <2>3
  <2>5. rows[i].sha = content[i] /\ content[i].text \in Ids
    <3>1. RowOK(i) /\ Present(i) /\ content[i].text \in Ids
      BY <1>4, <2>3 DEF IInv, Tables, StageReseal, Used, Maybe
    <3> QED BY <3>1, RowIs
  <2>6. Writing(n).text \in Ids
    BY <2>1, <2>4, <2>5 DEF Writing
  <2>7. Good(n)
    BY <2>1, <2>6 DEF Good
  <2> QED BY <2>2, <2>7, BeginStep
<1>5. ASSUME NEW from \in Names, NEW to \in Names, NEW m \in [Ids -> Maybe({o.as : o \in offers})],
             Rename(r, from, to, m)
      PROVE IInv'
  <2> DEFINE n == [IdleReq EXCEPT !.op = "rename", !.pc = "versions", !.name = from, !.to = to, !.map = m]
  <2>1. DOMAIN n = Fields /\ n.pc = "versions" /\ n.op = "rename" /\ n.name = from /\ n.to = to /\ n.map = m
        /\ n.got = [i \in Ids |-> NoFile]
    BY IdleGood DEF Fields, IdleReq
  <2>2. Begin(r, "rename", n) /\ UNCHANGED <<rows, files, content, staged, cut, offers, sweep>>
    BY <1>5 DEF Rename
  <2>3. \A i \in Ids : m[i] # None => Sealed(m[i], to)
    BY <1>5 DEF Rename, Offered, IInv, Tables
  <2> HIDE DEF n
  <2>4. Good(n)
    BY <2>1, <2>3 DEF Good
  <2> QED BY <2>2, <2>4, BeginStep
<1> QED BY <1>1, <1>2, <1>3, <1>4, <1>5 DEF Request

-------------------------------------------------------------------------------
\* Requests go on.

LEMMA PlainSteps ==
    ASSUME IInv, NEW r \in Slots,
           CheckBase(r) \/ ReadBase(r) \/ CountBundles(r) \/ AssignRow(r) \/ UnassignRow(r) \/ Bump(r)
    PROVE  IInv'
<1>1. reqs[r].pc \notin {"store", "late"}
  BY DEF CheckBase, ReadBase, CountBundles, AssignRow, UnassignRow, Bump
<1>2. UNCHANGED <<rows, files, content, staged, cut, offers, sweep>>
  BY DEF CheckBase, ReadBase, CountBundles, AssignRow, UnassignRow, Bump, table, store, history, environ
<1>3. \/ Answer(r) \/ GoTo(r, "bump")
      \/ \E p \in {"read", "count", "insert"} : GoTo(r, p) /\ reqs[r].pc \in {"base", "read", "count"}
  BY DEF CheckBase, ReadBase, CountBundles, AssignRow, UnassignRow, Bump
<1>4. reqs[r].pc \in {"base", "read", "count"} => reqs[r].op \in {"upload", "compose"}
  BY DEF IInv, Requests, Good
<1> QED BY <1>1, <1>2, <1>3, <1>4, AnswerStep, GoToStep

LEMMA InsertStep ==
    ASSUME IInv, NEW r \in Slots, NEW i \in Ids, InsertRow(r, i)
    PROVE  IInv'
<1> DEFINE q == reqs[r]
           c == [text |-> i, seal |-> IF q.format = "plain" THEN Plain ELSE q.name]
<1>n. PICK n : n = [q EXCEPT !.pc = "store", !.id = i]
  OBVIOUS
<1>0. UNCHANGED <<files, staged, cut, offers, sweep>> /\ q.pc = "insert" /\ i \notin Used
  BY DEF InsertRow, store, history
<1>1. CASE Answer(r) /\ UNCHANGED <<rows, content>>
  BY <1>0, <1>1, AnswerStep
<1>2. CASE /\ rows' = [rows EXCEPT ![i] = Row(i, q.name, q.version, c)]
           /\ content' = [content EXCEPT ![i] = c]
           /\ reqs' = [reqs EXCEPT ![r] = n]
  <2>1. DOMAIN q = Fields /\ DOMAIN rows = Ids /\ DOMAIN content = Ids
    BY DEF IInv, Requests, Good, Tables
  <2>2. DOMAIN n = Fields /\ n.pc = "store" /\ n.id = i /\ n.op = q.op /\ n.format = q.format /\ n.name = q.name
        /\ n.to = q.to /\ n.shot = q.shot /\ n.base = q.base
    BY <1>n, <2>1 DEF Fields
  <2>3. rows'[i] = Row(i, q.name, q.version, c) /\ content'[i] = c /\ c.text = i
        /\ \A x \in Ids \ {i} : rows'[x] = rows[x] /\ content'[x] = content[x]
    BY <1>2, <2>1
  <2>4. i # None /\ i \in Used' /\ \A x \in Ids \ {i} : x \in Used <=> x \in Used'
    BY <2>3, ConstantsAssumption DEF Used
  <2>5. rows[i] = NoRow /\ files[i] = NoFile
    BY <1>0 DEF IInv, Tables, RowOK, FileOK
  <2>6. Grows
    <3>1. \A x \in Used : x # i /\ x \in Ids
      BY <1>0 DEF Used
    <3> QED BY <1>0, <2>3, <2>4, <3>1 DEF Grows, Present
  <2>7. Good(n)'
    <3>1. q.op # "reseal"
      BY <1>0 DEF IInv, Requests, Good
    <3>2. Writing(n) = c
      BY <2>2, <3>1 DEF Writing
    <3>3. (content[n.id] = Writing(n))'
      BY <2>2, <2>3, <3>2 DEF Writing
    <3> QED BY <2>2, <2>4, <3>1, <3>3 DEF Good
  <2>8. \A x \in Ids : Arriving(x) => Arriving(x)'
    BY <1>0, <1>2, ArrivingStays DEF IInv
  <2>9. Arriving(i)'
    BY <1>2, <2>2 DEF Arriving, IInv, Requests
  <2> HIDE DEF c
  <2>10. RowOK(i)' /\ FileOK(i)' /\ Kept(i)' /\ content'[i].text \in Maybe(Ids)
    <3>1. c.seal \in {Plain, q.name}
      BY DEF c
    <3>2. \A nm, v, k : Row(i, nm, v, k).name = nm /\ Row(i, nm, v, k).version = v
      BY DEF Row
    <3>3. RowOK(i)'
      BY <2>3, <2>4, <3>1, <3>2 DEF RowOK
    <3> QED BY <1>0, <2>3, <2>4, <2>5, <2>9, <3>3 DEF FileOK, Kept, Maybe
  <2>11. \A x \in Ids \ {i} : RowOK(x)' /\ FileOK(x)' /\ Kept(x)' /\ content'[x].text \in Maybe(Ids)
    BY <1>0, <2>3, <2>4, <2>8 DEF IInv, Tables, RowOK, FileOK, Kept, Present
  <2>12. \A o \in offers' : Sealed(o.as, o.to)'
    BY <1>0, <2>6 DEF IInv, Tables, Sealed, Grows
  <2>13. SweepOK'
    BY <1>0, <2>6 DEF IInv, Tables, SweepOK, Grows
  <2>14. Tables'
    BY <1>0, <1>2, <2>1, <2>10, <2>11, <2>12, <2>13 DEF Tables, IInv
  <2> QED BY <1>2, <2>6, <2>7, <2>14, OneRequest
<1> QED BY <1>n, <1>1, <1>2 DEF InsertRow

LEMMA MintStep ==
    ASSUME IInv, NEW r \in Slots, NEW s \in Ids, MintStaged(r, s)
    PROVE  IInv'
<1> DEFINE q == reqs[r]
           c == Writing(q)
<1>n. PICK n : n = [q EXCEPT !.pc = "store", !.id = s]
  OBVIOUS
<1>0. UNCHANGED <<rows, files, cut, offers, sweep>> /\ q.pc = "mint" /\ s \notin Used
  BY DEF MintStaged, store, history, table
<1>1. content' = [content EXCEPT ![s] = c] /\ staged' = staged \cup {s} /\ reqs' = [reqs EXCEPT ![r] = n]
  BY <1>n DEF MintStaged
<1>2. DOMAIN q = Fields /\ DOMAIN content = Ids /\ q.op = "reseal" /\ c.text \in Ids
  BY <1>0 DEF IInv, Requests, Good, Tables
<1>3. DOMAIN n = Fields /\ n.pc = "store" /\ n.id = s /\ n.op = q.op /\ n.to = q.to /\ n.shot = q.shot /\ n.base = q.base
  BY <1>n, <1>2 DEF Fields
<1>4. Writing(n) = c
  BY <1>2, <1>3 DEF Writing
<1> HIDE DEF c
<1>5. content'[s] = c /\ \A x \in Ids \ {s} : content'[x] = content[x]
  BY <1>1, <1>2
<1>6. s \in Used' /\ \A x \in Ids \ {s} : x \in Used <=> x \in Used'
  BY <1>2, <1>5, ConstantsAssumption DEF Used
<1>7. rows[s] = NoRow /\ files[s] = NoFile
  BY <1>0 DEF IInv, Tables, RowOK, FileOK
<1>8. Grows
  <2>1. \A x \in Used : x # s /\ x \in Ids
    BY <1>0 DEF Used
  <2> QED BY <1>0, <1>1, <1>5, <1>6, <2>1 DEF Grows, Present
<1>9. Good(n)'
  <2>1. (content[n.id] = Writing(n))'
    BY <1>3, <1>4, <1>5 DEF Writing
  <2> QED BY <1>1, <1>3, <1>6, <2>1 DEF Good
<1>10. \A x \in Ids : Arriving(x) => Arriving(x)'
  BY <1>0, <1>1, ArrivingStays DEF IInv
<1>11. RowOK(s)' /\ FileOK(s)' /\ Kept(s)' /\ content'[s].text \in Maybe(Ids)
  BY <1>0, <1>1, <1>2, <1>5, <1>6, <1>7 DEF RowOK, FileOK, Kept, Maybe
<1>12. \A x \in Ids \ {s} : RowOK(x)' /\ FileOK(x)' /\ Kept(x)' /\ content'[x].text \in Maybe(Ids)
  BY <1>0, <1>1, <1>5, <1>6, <1>10 DEF IInv, Tables, RowOK, FileOK, Kept, Present
<1>13. \A o \in offers' : Sealed(o.as, o.to)'
  BY <1>0, <1>8 DEF IInv, Tables, Sealed, Grows
<1>14. SweepOK'
  BY <1>0, <1>8 DEF IInv, Tables, SweepOK, Grows
<1>15. Tables'
  BY <1>0, <1>1, <1>2, <1>11, <1>12, <1>13, <1>14 DEF Tables, IInv
<1> QED BY <1>1, <1>8, <1>9, <1>15, OneRequest

LEMMA CheckOwnerStep ==
    ASSUME IInv, NEW r \in Slots, NEW i \in Ids, CheckOwner(r, i)
    PROVE  IInv'
<1>1. UNCHANGED <<rows, files, content, staged, cut, offers, sweep>> /\ reqs[r].pc = "check" /\ i \in reqs[r].todo
  BY DEF CheckOwner, table, store, history
<1>n. PICK n : n = [reqs[r] EXCEPT !.pc = "staged", !.id = i]
  OBVIOUS
<1>2. DOMAIN reqs[r] = Fields /\ Good(reqs[r])
  BY DEF IInv, Requests, Good
<1>3. DOMAIN n = Fields /\ n.pc = "staged" /\ n.id = i /\ n.name = reqs[r].name /\ n.to = reqs[r].to
      /\ n.shot = reqs[r].shot /\ n.map = reqs[r].map /\ n.todo = reqs[r].todo /\ n.got = reqs[r].got
  BY <1>n, <1>2 DEF Fields
<1>4. Good(n)
  BY <1>1, <1>2, <1>3 DEF Good, Read
<1>5. Answer(r) \/ reqs' = [reqs EXCEPT ![r] = n]
  BY <1>n DEF CheckOwner
<1> QED BY <1>1, <1>4, <1>5, AnswerStep, QuietStep

LEMMA ReadVersionsStep ==
    ASSUME IInv, NEW r \in Slots, ReadVersions(r)
    PROVE  IInv'
<1> DEFINE q    == reqs[r]
           mine == Named(q.name)
           enc  == {i \in mine : Encrypted(rows[i])}
           shot == [i \in Ids |-> IF i \in mine THEN rows[i] ELSE NoRow]
<1>1. UNCHANGED <<rows, files, content, staged, cut, offers, sweep>> /\ q.pc = "versions"
  BY DEF ReadVersions, table, store, history
<1>n. PICK n : n = [q EXCEPT !.pc = "check", !.todo = enc, !.shot = shot]
  OBVIOUS
<1>2. DOMAIN q = Fields /\ Good(q)
  BY DEF IInv, Requests, Good
<1>3. CASE Answer(r)
  BY <1>1, <1>3, AnswerStep
<1>4. CASE enc = {i \in Ids : q.map[i] # None} /\ reqs' = [reqs EXCEPT ![r] = n]
  <2>1. DOMAIN n = Fields /\ n.pc = "check" /\ n.todo = enc /\ n.shot = shot /\ n.name = q.name /\ n.to = q.to
        /\ n.map = q.map /\ n.got = q.got
    BY <1>n, <1>2 DEF Fields
  <2>2. \A i \in Ids : shot[i].name # None => i \in mine /\ shot[i] = rows[i]
    BY DEF NoRow, Row
  <2>3. q.name \in Names /\ q.name # None
    BY <1>1, <1>2, ConstantsAssumption DEF Good
  <2>4. \A i \in mine : i \in Ids /\ RowOK(i) /\ Present(i) /\ rows[i].sha = content[i] /\ i \in Used
    BY <2>3, RowIs DEF IInv, Tables, Present, Named
  <2>5. \A i \in mine : i \notin enc => content[i].seal = Plain
    BY <2>4 DEF Encrypted
  <2>6. \A i \in mine : shot[i] = rows[i] /\ shot[i].name # None
    BY <2>3 DEF Named
  <2> HIDE DEF mine, shot
  <2>7. enc \subseteq mine
    OBVIOUS
  <2> HIDE DEF enc
  <2>8. Read(n)
    BY <1>4, <2>1, <2>2, <2>4, <2>5, <2>6, <2>7 DEF Read
  <2>9. DOMAIN n.got = Ids
    BY <1>1, <1>2, <2>1 DEF Good
  <2>10. Good(n)
    BY <1>1, <1>2, <1>4, <2>1, <2>8, <2>9 DEF Good
  <2> QED BY <1>1, <1>4, <2>10, QuietStep
<1> QED BY <1>n, <1>3, <1>4 DEF ReadVersions

LEMMA ReadStagedStep ==
    ASSUME IInv, NEW r \in Slots, ReadStaged(r)
    PROVE  IInv'
<1> DEFINE q == reqs[r]
           i == q.id
           c == files[q.map[i]]
           got == [q.got EXCEPT ![i] = c]
           todo == q.todo \ {i}
<1>1. UNCHANGED <<rows, files, content, staged, cut, offers, sweep>> /\ q.pc = "staged"
  BY DEF ReadStaged, table, store, history
<1>n. PICK n : n = [q EXCEPT !.pc = "check", !.todo = todo, !.got = got]
  OBVIOUS
<1>2. DOMAIN q = Fields /\ Good(q)
  BY DEF IInv, Requests, Good
<1>3. CASE Answer(r)
  BY <1>1, <1>3, AnswerStep
<1>4. CASE Resealed(c, q.shot[i]) /\ reqs' = [reqs EXCEPT ![r] = n]
  <2>1. DOMAIN n = Fields /\ n.pc = "check" /\ n.todo = todo /\ n.got = got /\ n.name = q.name /\ n.to = q.to
        /\ n.map = q.map /\ n.shot = q.shot
    BY <1>n, <1>2 DEF Fields
  <2>2. /\ Read(q) /\ i \in q.todo /\ q.todo \subseteq {x \in Ids : q.map[x] # None} /\ DOMAIN q.got = Ids
        /\ q.name \in Names /\ q.to \in Names
        /\ \A x \in Ids : q.map[x] # None => Sealed(q.map[x], q.to)
    BY <1>1, <1>2 DEF Good
  <2>3. i \in Ids /\ q.map[i] \in Ids
    BY <2>2 DEF Sealed, Used
  <2>4. c = content[q.map[i]]
    BY <1>4, <2>3 DEF Resealed, IInv, Tables, FileOK, NoFile, TornFile
  <2>5. DOMAIN got = Ids /\ got[i] = c /\ \A x \in Ids \ {i} : got[x] = q.got[x]
    BY <2>2, <2>3
  <2> HIDE DEF got, c
  <2>6. Read(n)
    BY <2>1, <2>2, <2>4, <2>5 DEF Read
  <2>7. Good(n)
    BY <2>1, <2>2, <2>5, <2>6 DEF Good
  <2> QED BY <1>1, <1>4, <2>7, QuietStep
<1> QED BY <1>n, <1>3, <1>4 DEF ReadStaged

LEMMA CommitStep ==
    ASSUME IInv, NEW r \in Slots, CommitRename(r)
    PROVE  IInv'
<1> DEFINE q == reqs[r]
           New(i, j) == Row(j, q.to, q.shot[i].version, IF i = j THEN q.shot[i].sha ELSE q.got[i])
<1>1. UNCHANGED <<files, content, staged, cut, offers, sweep>> /\ q.pc = "check" /\ q.todo = {} /\ Answer(r)
  BY DEF CommitRename, store
<1>2. CASE ~Renames(r)
  BY <1>1, <1>2, AnswerStep DEF CommitRename, table
<1>3. CASE Renames(r)
  <2>1. rows' = [j \in Ids |-> RenamedRow(r, j)]
    BY <1>3 DEF CommitRename
  <2>2. /\ Read(q) /\ q.name \in Names /\ q.to \in Names
        /\ \A i \in Ids : q.map[i] # None => Sealed(q.map[i], q.to)
    BY <1>1 DEF IInv, Requests, Good
  <2>3. \A i \in Ids : q.shot[i].name # None => Present(i)
    BY <1>3, <2>2, ConstantsAssumption DEF Renames, Named, Present
  <2>4. \A i \in Ids : q.map[i] # None => ~Present(q.map[i])
    BY <1>3 DEF Renames
  <2>5. \A i \in Ids : RowOK(i) /\ FileOK(i) /\ Kept(i) /\ content[i].text \in Maybe(Ids)
    BY DEF IInv, Tables
  <2>6. \A j \in Ids : rows'[j] = RenamedRow(r, j)
    BY <2>1
  <2>7. ASSUME NEW j \in Ids
        PROVE  /\ rows'[j] = NoRow \/ /\ j \in Used
                                      /\ rows'[j] = Row(j, rows'[j].name, rows'[j].version, content[j])
                                      /\ content[j].seal \in {Plain, rows'[j].name}
               /\ rows'[j].name # None => Present(j) \/ j \in staged
    <3>1. \A v, c : Row(j, q.to, v, c).name = q.to /\ Row(j, q.to, v, c).version = v
      BY DEF Row
    <3>2. CASE \E i \in Ids : q.map[i] = j
      <4> DEFINE k == CHOOSE i \in Ids : q.map[i] = j
      <4>0. k \in Ids /\ q.map[k] = j
        BY <3>2
      <4>k. rows'[j] = New(k, j)
        <5>1. q.shot[j].name = None /\ q.map[j] = None
          BY <2>2, <2>3, <2>4, <4>0, ConstantsAssumption DEF Read
        <5> QED BY <2>6, <3>2, <5>1 DEF RenamedRow
      <4> HIDE DEF k
      <4>1. PICK i \in Ids : q.map[i] = j /\ rows'[j] = New(i, j)
        BY <4>0, <4>k
      <4>2. j # None
        BY ConstantsAssumption
      <4>3. q.shot[i].name # None /\ q.got[i] = content[j] /\ Sealed(j, q.to)
        BY <1>1, <2>2, <4>1, <4>2 DEF Read
      <4>4. i # j
        BY <2>3, <2>4, <4>1, <4>2, <4>3
      <4>5. rows'[j] = Row(j, q.to, q.shot[i].version, content[j])
        BY <4>1, <4>3, <4>4
      <4> QED BY <3>1, <4>3, <4>5 DEF Sealed
    <3>3. CASE ~(\E i \in Ids : q.map[i] = j) /\ q.shot[j].name # None /\ q.map[j] = None
      <4>1. rows'[j] = Row(j, q.to, q.shot[j].version, q.shot[j].sha)
        BY <2>6, <3>3 DEF RenamedRow
      <4>2. j \in Used /\ q.shot[j].sha = content[j] /\ content[j].seal = Plain /\ Present(j)
        BY <2>2, <2>3, <3>3 DEF Read
      <4> QED BY <3>1, <4>1, <4>2
    <3>4. CASE ~(\E i \in Ids : q.map[i] = j) /\ q.map[j] # None
      <4>1. rows'[j] = NoRow /\ NoRow.name = None
        BY <2>6, <3>4 DEF RenamedRow, NoRow, Row
      <4> QED BY <4>1
    <3>5. CASE ~(\E i \in Ids : q.map[i] = j) /\ q.map[j] = None /\ q.shot[j].name = None
      <4>1. rows'[j] = rows[j]
        BY <2>6, <3>5 DEF RenamedRow
      <4> QED BY <2>5, <4>1 DEF RowOK, Present
    <3> QED BY <3>2, <3>3, <3>4, <3>5
  <2>8. Grows
    <3>1. \A i \in Used : i \in Ids
      BY DEF Used
    <3> QED BY <1>1, <2>7, <3>1 DEF Grows, Used, Present
  <2>9. \A i \in Ids : Arriving(i) => Arriving(i)'
    BY <1>1, ArrivingStays DEF IInv, Answer
  <2>10. \A i \in Ids : RowOK(i)' /\ FileOK(i)' /\ Kept(i)' /\ content'[i].text \in Maybe(Ids)
    BY <1>1, <2>5, <2>7, <2>9 DEF RowOK, FileOK, Kept, Present, Used
  <2>11. (\A o \in offers' : Sealed(o.as, o.to)') /\ SweepOK'
    BY <1>1, <2>8 DEF IInv, Tables, Sealed, SweepOK, Grows, Used
  <2>12. Tables'
    BY <1>1, <2>1, <2>10, <2>11 DEF IInv, Tables
  <2>13. Good(IdleReq)'
    <3>1. DOMAIN IdleReq = Fields /\ IdleReq.pc = "idle"
      BY IdleGood
    <3> QED BY <3>1 DEF Good, IdleReq
  <2> QED BY <1>1, <2>8, <2>12, <2>13, OneRequest DEF Answer
<1> QED BY <1>2, <1>3

\* Bytes are written: the ones the row signs, or a file cut short.
LEMMA PutStep ==
    ASSUME IInv, NEW r \in Slots, NEW ok \in BOOLEAN, NEW n, reqs' = [reqs EXCEPT ![r] = n],
           reqs[r].pc \in {"store", "late"}, Put(r, ok), Good(n),
           UNCHANGED <<rows, content, staged, sweep>>,
           \A o \in offers' : Sealed(o.as, o.to)
    PROVE  IInv'
<1>i. PICK i : i = reqs[r].id
  OBVIOUS
<1>1. i \in Used /\ i \in Ids /\ content[i] = Writing(reqs[r])
  BY <1>i DEF IInv, Requests, Good, Used
<1>2. \A x \in Ids \ {i} : files'[x] = files[x]
  BY <1>i DEF Put, IInv, Tables
<1>3. cut \subseteq cut' /\ DOMAIN files' = Ids
  BY DEF Put, IInv, Tables
<1>4. files'[i] \in {NoFile, TornFile, content[i]} /\ (i \in cut' \/ files'[i] = content[i])
  BY <1>i, <1>1 DEF Put, IInv, Tables
<1>5. Grows
  BY DEF Grows, Used, Present
<1>6. Good(n)'
  BY DEF Good, Read, Sealed, Writing, Used, Present
<1>7. \A x \in Ids \ {i} : Arriving(x) => Arriving(x)'
  BY <1>i, ArrivingStays DEF IInv
<1>8. FileOK(i)' /\ Kept(i)' /\ RowOK(i)' /\ content'[i].text \in Maybe(Ids)
  BY <1>1, <1>3, <1>4 DEF FileOK, Kept, RowOK, Used, Present, IInv, Tables
<1>9. \A x \in Ids \ {i} : FileOK(x)' /\ Kept(x)' /\ RowOK(x)' /\ content'[x].text \in Maybe(Ids)
  BY <1>2, <1>3, <1>7 DEF FileOK, Kept, RowOK, Used, Present, IInv, Tables
<1>10. (\A o \in offers' : Sealed(o.as, o.to)') /\ SweepOK'
  BY DEF IInv, Tables, Sealed, SweepOK, Used, Present
<1>11. Tables'
  BY <1>3, <1>8, <1>9, <1>10 DEF IInv, Tables
<1> QED BY <1>5, <1>6, <1>11, OneRequest

LEMMA StoreStep ==
    ASSUME IInv, NEW r \in Slots, NEW ok \in BOOLEAN, StoreBytes(r, ok) \/ StoreStaged(r, ok)
    PROVE  IInv'
<1>1. reqs[r].pc \in {"store", "late"} /\ Put(r, ok) /\ UNCHANGED <<rows, content, staged, sweep>>
  BY DEF StoreBytes, StoreStaged, table, history
<1>2. Good(reqs[r]) /\ DOMAIN reqs[r] = Fields
  BY DEF IInv, Requests, Good
<1>3. \A o \in offers' : Sealed(o.as, o.to)
  <2>1. CASE StoreBytes(r, ok)
    BY <2>1 DEF StoreBytes, IInv, Tables
  <2>2. CASE StoreStaged(r, ok)
    <3>1. Sealed(reqs[r].id, reqs[r].to)
      BY <1>1, <1>2, <2>2 DEF StoreStaged, Good, Sealed, Writing
    <3> QED BY <2>2, <3>1 DEF StoreStaged, IInv, Tables
  <2> QED BY <2>1, <2>2
<1>4. CASE Answer(r)
  BY <1>1, <1>3, <1>4, IdleGood, PutStep DEF Answer
<1>5. CASE GoTo(r, "bump")
  <2>n. PICK n : n = [reqs[r] EXCEPT !.pc = "bump"]
    OBVIOUS
  <2>1. DOMAIN n = Fields /\ n.pc = "bump"
    BY <1>2, <2>n DEF Fields
  <2>2. Good(n)
    BY <2>1 DEF Good
  <2> QED BY <1>1, <1>3, <1>5, <2>n, <2>2, PutStep DEF GoTo
<1> QED BY <1>4, <1>5 DEF StoreBytes, StoreStaged

LEMMA DeleteRowStep ==
    ASSUME IInv, NEW r \in Slots, DeleteRow(r)
    PROVE  IInv'
<1>i. PICK i : i = reqs[r].id
  OBVIOUS
<1>1. UNCHANGED <<files, content, staged, cut, offers, sweep>> /\ reqs[r].pc = "delete"
      /\ rows' = [rows EXCEPT ![i] = NoRow]
  BY <1>i DEF DeleteRow, store, history
<1>2. Good(reqs[r]) /\ DOMAIN reqs[r] = Fields /\ i \in Used /\ i \in Ids /\ DOMAIN rows = Ids
  BY <1>i, <1>1 DEF IInv, Requests, Tables, Good, Used
<1>3. rows'[i] = NoRow /\ NoRow.name = None /\ \A x \in Ids \ {i} : rows'[x] = rows[x]
  BY <1>1, <1>2 DEF NoRow, Row
<1>4. Grows
  <2>1. \A x \in Used : x \in Ids
    BY DEF Used
  <2> QED BY <1>1, <1>3, <2>1 DEF Grows, Used, Present
<1>5. PICK n : reqs' = [reqs EXCEPT ![r] = n] /\ Good(n)'
  <2>1. CASE Answer(r)
    <3>1. Good(IdleReq)'
      BY IdleGood DEF Good, IdleReq
    <3> QED BY <2>1, <3>1 DEF Answer
  <2>2. CASE GoTo(r, "unlink")
    <3>n. PICK n : n = [reqs[r] EXCEPT !.pc = "unlink"]
      OBVIOUS
    <3>1. DOMAIN n = Fields /\ n.pc = "unlink" /\ n.id = i /\ n.op = reqs[r].op
      BY <1>i, <1>2, <3>n DEF Fields
    <3>2. Good(n)'
      BY <1>1, <1>2, <1>3, <3>1 DEF Good, Used, Present
    <3> QED BY <2>2, <3>n, <3>2 DEF GoTo
  <2> QED BY <2>1, <2>2 DEF DeleteRow
<1>6. \A x \in Ids : Arriving(x) => Arriving(x)'
  BY <1>1, <1>5, ArrivingStays DEF IInv
<1>7. RowOK(i)' /\ FileOK(i)' /\ Kept(i)' /\ content'[i].text \in Maybe(Ids)
  BY <1>1, <1>2, <1>3 DEF IInv, Tables, RowOK, FileOK, Kept, Present, Used
<1>8. \A x \in Ids \ {i} : RowOK(x)' /\ FileOK(x)' /\ Kept(x)' /\ content'[x].text \in Maybe(Ids)
  BY <1>1, <1>3, <1>6 DEF IInv, Tables, RowOK, FileOK, Kept, Present, Used
<1>9. (\A o \in offers' : Sealed(o.as, o.to)') /\ SweepOK'
  BY <1>1, <1>4 DEF IInv, Tables, Sealed, SweepOK, Grows
<1>10. Tables'
  BY <1>1, <1>2, <1>7, <1>8, <1>9 DEF IInv, Tables
<1> QED BY <1>4, <1>5, <1>10, OneRequest

LEMMA UnlinkStep ==
    ASSUME IInv, NEW r \in Slots, Unlink(r)
    PROVE  IInv'
<1>i. PICK i : i = reqs[r].id
  OBVIOUS
<1>1. /\ UNCHANGED <<rows, content, staged, cut, offers, sweep>> /\ reqs[r].pc = "unlink"
      /\ files' = [files EXCEPT ![i] = NoFile] \/ files' = files
  BY <1>i DEF Unlink, table, history
<1>2. DOMAIN reqs[r] = Fields /\ i \in Used /\ i \in Ids /\ DOMAIN files = Ids /\ (~Present(i) \/ i \in staged)
  <2>1. Good(reqs[r]) /\ DOMAIN files = Ids
    BY DEF IInv, Requests, Tables
  <2>2. i \in Used /\ (~Present(i) \/ i \in staged)
    BY <1>i, <1>1, <2>1 DEF Good
  <2> QED BY <2>1, <2>2 DEF Good, Used
<1>n. PICK n : n = [reqs[r] EXCEPT !.pc = "bump"]
  OBVIOUS
<1>3. DOMAIN n = Fields /\ n.pc = "bump" /\ reqs' = [reqs EXCEPT ![r] = n]
  BY <1>n, <1>2 DEF Fields, Unlink, GoTo
<1>4. Good(n)'
  BY <1>3 DEF Good
<1>5. Grows
  BY <1>1 DEF Grows, Used, Present
<1>6. \A x \in Ids : Arriving(x) => Arriving(x)'
  BY <1>1, <1>3, ArrivingStays DEF IInv
<1>7. DOMAIN files' = Ids /\ files'[i] \in {NoFile, files[i]} /\ \A x \in Ids \ {i} : files'[x] = files[x]
  BY <1>1, <1>2
<1>8. RowOK(i)' /\ FileOK(i)' /\ Kept(i)' /\ content'[i].text \in Maybe(Ids)
  BY <1>1, <1>2, <1>7 DEF IInv, Tables, RowOK, FileOK, Kept, Present, Used
<1>9. \A x \in Ids \ {i} : RowOK(x)' /\ FileOK(x)' /\ Kept(x)' /\ content'[x].text \in Maybe(Ids)
  BY <1>1, <1>6, <1>7 DEF IInv, Tables, RowOK, FileOK, Kept, Present, Used
<1>10. (\A o \in offers' : Sealed(o.as, o.to)') /\ SweepOK'
  BY <1>1, <1>5 DEF IInv, Tables, Sealed, SweepOK, Grows
<1>11. Tables'
  BY <1>1, <1>7, <1>8, <1>9, <1>10 DEF IInv, Tables
<1> QED BY <1>3, <1>4, <1>5, <1>11, OneRequest

LEMMA HangUpStep ==
    ASSUME IInv, NEW r \in Slots, HangUp(r)
    PROVE  IInv'
<1>1. UNCHANGED <<rows, files, content, staged, cut, offers, sweep>>
  BY DEF HangUp, table, store
<1>2. CASE reqs[r].pc # "store"
  BY <1>1, <1>2, AnswerStep DEF HangUp
<1>3. CASE reqs[r].pc = "store"
  <2>n. PICK n : n = [reqs[r] EXCEPT !.pc = "late"]
    OBVIOUS
  <2>1. Good(reqs[r]) /\ DOMAIN reqs[r] = Fields
    BY DEF IInv, Requests, Good
  <2>2. DOMAIN n = Fields /\ n.pc = "late" /\ n.id = reqs[r].id /\ n.op = reqs[r].op /\ n.to = reqs[r].to /\ n.name = reqs[r].name
        /\ n.shot = reqs[r].shot /\ n.base = reqs[r].base /\ n.format = reqs[r].format
    BY <2>n, <2>1 DEF Fields
  <2>3. Writing(n) = Writing(reqs[r])
    BY <2>2 DEF Writing
  <2>4. Good(n)
    BY <1>3, <2>1, <2>2, <2>3 DEF Good
  <2>5. reqs' = [reqs EXCEPT ![r] = n]
    BY <1>3, <2>n DEF HangUp, GoTo
  <2> QED BY <1>1, <1>3, <2>2, <2>4, <2>5, QuietStep
<1> QED BY <1>2, <1>3

LEMMA RequestSteps ==
    ASSUME IInv, NEW r \in Slots, RequestStep(r)
    PROVE  IInv'
BY PlainSteps, InsertStep, MintStep, CheckOwnerStep, StoreStep, DeleteRowStep, UnlinkStep, ReadVersionsStep,
   ReadStagedStep, CommitStep DEF RequestStep

-------------------------------------------------------------------------------
\* Housekeeping, polls and stops.

\* No request moves, and no row changes.
LEMMA OtherStep ==
    ASSUME IInv, UNCHANGED <<rows, content, staged, cut, offers, reqs>>, SweepOK', DOMAIN files' = Ids,
           \A i \in Ids : files'[i] = files[i] \/ (files'[i] = NoFile /\ (~Present(i) \/ i \in staged))
    PROVE  IInv'
<1>1. Grows
  BY DEF Grows, Used, Present
<1>2. Requests'
  BY <1>1, GoodStays DEF IInv, Requests
<1>3. \A i \in Ids : RowOK(i)' /\ FileOK(i)' /\ Kept(i)' /\ content'[i].text \in Maybe(Ids)
  BY DEF IInv, Tables, RowOK, FileOK, Kept, Arriving, Present, Used
<1>4. \A o \in offers' : Sealed(o.as, o.to)'
  BY DEF IInv, Tables, Sealed, Used
<1> QED BY <1>2, <1>3, <1>4 DEF IInv, Tables

LEMMA SweepSteps ==
    ASSUME IInv, SweepStep \/ Poll \/ \E i \in Ids : FileAges(i)
    PROVE  IInv'
<1> USE DEF table, store, history
<1>1. \A i \in Ids : Stored(i) => i \in Used
  BY DEF IInv, Tables, FileOK, Stored, NoFile
<1>2. SweepOK /\ DOMAIN files = Ids
  BY DEF IInv, Tables
<1>3. CASE SweepList
  <2>1. SweepOK'
    BY <1>1, <1>3 DEF SweepList, SweepOK, Used
  <2> QED BY <1>2, <1>3, <2>1, OtherStep DEF SweepList
<1>4. CASE SweepRows
  <2>1. SweepOK'
    BY <1>2, <1>4 DEF SweepRows, SweepOK, Used, Present
  <2> QED BY <1>2, <1>4, <2>1, OtherStep DEF SweepRows
<1>5. CASE SweepEnd
  <2>1. SweepOK'
    BY <1>5 DEF SweepEnd, SweepOK, IdleSweep
  <2> QED BY <1>2, <1>5, <2>1, OtherStep DEF SweepEnd
<1>6. ASSUME NEW i \in Ids, SweepDelete(i) \/ SweepFails(i) PROVE IInv'
  <2>1. sweep.pc = "delete" /\ i \in sweep.ids /\ sweep' = [sweep EXCEPT !.ids = @ \ {i}] /\ UNCHANGED <<rows, content, staged, cut, offers, reqs>>
    BY <1>6 DEF SweepDelete, SweepFails
  <2>2. DOMAIN sweep' = {"pc", "ids"} /\ sweep'.pc = sweep.pc /\ sweep'.ids = sweep.ids \ {i}
    BY <1>2, <2>1 DEF SweepOK
  <2>3. SweepOK'
    BY <1>2, <2>1, <2>2 DEF SweepOK, Used, Present
  <2>4. ~Present(i) \/ i \in staged
    BY <1>2, <2>1 DEF SweepOK
  <2>5. files' = [files EXCEPT ![i] = NoFile] \/ files' = files
    BY <1>6 DEF SweepDelete, SweepFails
  <2>6. DOMAIN files' = Ids /\ \A x \in Ids : files'[x] = files[x] \/ (files'[x] = NoFile /\ x = i)
    BY <1>2, <2>5
  <2> QED BY <2>1, <2>3, <2>4, <2>6, OtherStep
<1>7. CASE Poll \/ \E i \in Ids : FileAges(i)
  <2>1. UNCHANGED <<rows, files, content, staged, cut, offers, reqs, sweep>>
    BY <1>7 DEF Poll, FileAges
  <2>2. SweepOK'
    BY <1>2, <2>1 DEF SweepOK, Used, Present
  <2> QED BY <1>2, <2>1, <2>2, OtherStep
<1> QED BY <1>3, <1>4, <1>5, <1>6, <1>7 DEF SweepStep

LEMMA StopStep ==
    ASSUME IInv, Stop
    PROVE  IInv'
<1> DEFINE writing == {r \in Slots : reqs[r].pc \in {"store", "late"}}
           ids     == {reqs[r].id : r \in writing}
<1>1. UNCHANGED <<rows, content, staged, offers>> /\ sweep' = IdleSweep /\ reqs' = [r \in Slots |-> IdleReq]
  BY DEF Stop, table
<1>2. PICK whole \in SUBSET writing, none \in SUBSET ids :
        /\ files' = [i \in Ids |->
              IF i \notin ids THEN files[i]
              ELSE IF \E r \in whole : reqs[r].id = i
                THEN Writing(reqs[CHOOSE r \in whole : reqs[r].id = i])
              ELSE IF i \in none THEN NoFile ELSE TornFile]
        /\ cut' = cut \cup {reqs[r].id : r \in writing \ whole}
  BY DEF Stop
<1>3. ASSUME NEW i \in Ids
      PROVE  \/ i \notin ids /\ files'[i] = files[i]
             \/ i \in Used /\ files'[i] = content[i]
             \/ i \in Used /\ i \in cut' /\ files'[i] \in {NoFile, TornFile}
  <2>1. \A r \in writing : reqs[r].id \in Used /\ content[reqs[r].id] = Writing(reqs[r])
    BY DEF IInv, Requests, Good
  <2>2. CASE i \notin ids
    BY <1>2, <2>2
  <2>3. CASE i \in ids /\ \E r \in whole : reqs[r].id = i
    <3> DEFINE k == CHOOSE r \in whole : reqs[r].id = i
    <3>1. k \in whole /\ reqs[k].id = i
      BY <2>3
    <3>2. files'[i] = Writing(reqs[k])
      BY <1>2, <2>3
    <3> HIDE DEF k
    <3> QED BY <2>1, <3>1, <3>2
  <2>4. CASE i \in ids /\ ~\E r \in whole : reqs[r].id = i
    <3>1. files'[i] \in {NoFile, TornFile}
      BY <1>2, <2>4
    <3>2. i \in {reqs[r].id : r \in writing \ whole}
      BY <2>4
    <3>3. i \in Used
      BY <2>1, <2>4
    <3> QED BY <1>2, <3>1, <3>2, <3>3
  <2> QED BY <2>2, <2>3, <2>4
<1>4. \A i \in Ids : Arriving(i) => i \in ids
  BY DEF Arriving
<1>5. cut \subseteq cut' /\ DOMAIN files' = Ids
  BY <1>2
<1> HIDE DEF ids, writing
<1>6. \A i \in Ids : RowOK(i)' /\ FileOK(i)' /\ Kept(i)' /\ content'[i].text \in Maybe(Ids)
  BY <1>1, <1>3, <1>4, <1>5 DEF IInv, Tables, RowOK, FileOK, Kept, Present, Used
<1>7. (\A o \in offers' : Sealed(o.as, o.to)') /\ SweepOK'
  BY <1>1 DEF IInv, Tables, Sealed, SweepOK, IdleSweep, Used
<1>8. Tables'
  BY <1>1, <1>5, <1>6, <1>7 DEF IInv, Tables
<1>9. Requests'
  BY <1>1, IdleGood DEF Requests, Good
<1> QED BY <1>8, <1>9 DEF IInv

-------------------------------------------------------------------------------
LEMMA InitIInv == Init => IInv
<1> SUFFICES ASSUME Init PROVE IInv
  OBVIOUS
<1>1. Used = {} /\ NoFile.text = None /\ NoRow.name = None
  BY DEF Init, Used, NoFile, NoRow, Row
<1>2. Tables
  BY <1>1 DEF Init, Tables, RowOK, FileOK, Kept, Present, SweepOK, IdleSweep, Maybe
<1>3. Requests
  BY IdleGood DEF Init, Requests
<1> QED BY <1>2, <1>3 DEF IInv

LEMMA Inductive == IInv /\ [Next]_vars => IInv'
<1> SUFFICES ASSUME IInv, [Next]_vars PROVE IInv'
  OBVIOUS
<1>1. CASE UNCHANGED vars
  <2>1. SweepOK' /\ DOMAIN files' = Ids
    BY <1>1 DEF vars, IInv, Tables, SweepOK, Used, Present
  <2> QED BY <1>1, <2>1, OtherStep DEF vars
<1>2. CASE Next
  BY <1>2, RequestStarts, RequestSteps, HangUpStep, SweepSteps, StopStep DEF Next
<1> QED BY <1>1, <1>2

LEMMA IInvVouches == IInv => Vouched /\ BytesKept
<1> SUFFICES ASSUME IInv PROVE Vouched /\ BytesKept
  OBVIOUS
<1>1. \A i \in Ids : RowOK(i) /\ FileOK(i) /\ Kept(i)
  BY DEF IInv, Tables
<1> QED BY <1>1, RowIs DEF Vouched, BytesKept, FileOK, Kept

\* Every row's signature covers the row as it is, encrypted bytes are sealed
\* under the row's name, and a file is the row's bytes, cut short or gone
\* (upload.rs, reseal.rs, rename.rs, the sweep in housekeeping.rs).
THEOREM RowsVouch == Spec => []Vouched
<1>1. IInv => Vouched
  BY IInvVouches
<1> QED BY InitIInv, Inductive, <1>1, PTL DEF Spec

\* Bytes an upload wrote stay as long as the row: nothing the sweep, a rename
\* or a deletion does takes them (sweep_bundle_files reads rows after files).
THEOREM UploadsKeepTheirBytes == Spec => []BytesKept
<1>1. IInv => BytesKept
  BY IInvVouches
<1> QED BY InitIInv, Inductive, <1>1, PTL DEF Spec

-------------------------------------------------------------------------------
\* The memoized state.

Deleting(r) == reqs[r].op = "delete" /\ reqs[r].pc \in {"unlink", "bump"}

Assigns == \A a \in assigned : a[2] \in Ids /\ Present(a[2])
SInv == Assigns /\ (\A ids \in cached : ids \subseteq Ids) /\ ServedHasRow

\* What a request may do: not take a row away unless to bump for it, and not
\* leave an unbumped deletion unrecorded.
LEMMA ServedStep ==
    ASSUME IInv, SInv, NEW r \in Slots, NEW n, reqs' = [reqs EXCEPT ![r] = n], Assigns',
           cached' \subseteq cached, unbumped \subseteq unbumped',
           \A i \in Ids : Present(i) => \/ Present(i)'
                                        \/ n.op = "delete" /\ n.pc = "unlink" /\ n.id = i,
           Deleting(r) => \/ reqs[r].id \in unbumped'
                          \/ reqs[r].id \notin UNION cached'
                          \/ n.op = "delete" /\ n.pc \in {"unlink", "bump"} /\ n.id = reqs[r].id
    PROVE  SInv'
<1>1. reqs'[r] = n /\ \A x \in Slots \ {r} : reqs'[x] = reqs[x]
  BY DEF IInv, Requests
<1>2. ASSUME NEW ids \in cached', NEW i \in ids
      PROVE  Present(i)' \/ i \in unbumped' \/ \E x \in Slots : Deleting(x)' /\ reqs'[x].id = i
  <2>1. i \in Ids
    BY DEF SInv
  <2>2. CASE Present(i)
    BY <1>1, <2>1, <2>2 DEF Deleting
  <2>3. CASE i \in unbumped
    BY <2>3
  <2>4. ASSUME NEW x \in Slots, Deleting(x), reqs[x].id = i
        PROVE  i \in unbumped' \/ \E y \in Slots : Deleting(y)' /\ reqs'[y].id = i
    BY <1>1, <2>4 DEF Deleting
  <2> QED BY <2>2, <2>3, <2>4 DEF SInv, ServedHasRow, Deleting
<1>3. ServedHasRow'
  BY <1>2 DEF ServedHasRow, Deleting
<1> QED BY <1>3 DEF SInv

LEMMA AssignsStay ==
    ASSUME Assigns, UNCHANGED assigned, \A i \in Ids : Present(i) => Present(i)'
    PROVE  Assigns'
BY DEF Assigns

LEMMA MintKeepsRows ==
    ASSUME IInv, NEW r \in Slots, NEW i \in Ids, InsertRow(r, i) \/ MintStaged(r, i)
    PROVE  \A x \in Ids : Present(x) => Present(x)'
<1>1. RowOK(i) /\ DOMAIN rows = Ids /\ i \notin Used
  BY DEF IInv, Tables, InsertRow, MintStaged
<1>2. ~Present(i)
  BY <1>1 DEF RowOK, Present, NoRow, Row
<1>3. \A x \in Ids \ {i} : rows'[x] = rows[x]
  BY <1>1 DEF InsertRow, MintStaged, table
<1> QED BY <1>2, <1>3 DEF Present

\* Requests that are not at a deletion, and leave the memoized state alone.
LEMMA UnservedStep ==
    ASSUME IInv, SInv, NEW r \in Slots,
           \/ Request(r) \/ CheckBase(r) \/ ReadBase(r) \/ CountBundles(r)
           \/ \E i \in Ids : InsertRow(r, i) \/ MintStaged(r, i) \/ CheckOwner(r, i)
           \/ \E ok \in BOOLEAN : StoreBytes(r, ok) \/ StoreStaged(r, ok)
           \/ AssignRow(r) \/ UnassignRow(r) \/ ReadVersions(r) \/ ReadStaged(r)
    PROVE  SInv'
<1> USE DEF table, store, history, environ
<1>1. ~Deleting(r)
  BY DEF Deleting, Request, Upload, DeleteBundle, Assign, StageReseal, Rename, Begin, CheckBase, ReadBase,
         CountBundles, InsertRow, MintStaged, CheckOwner, StoreBytes, StoreStaged, AssignRow, UnassignRow,
         ReadVersions, ReadStaged
<1>2. \E n : reqs' = [reqs EXCEPT ![r] = n]
  BY DEF Request, Upload, DeleteBundle, Assign, StageReseal, Rename, Begin, CheckBase, ReadBase,
         CountBundles, InsertRow, MintStaged, CheckOwner, StoreBytes, StoreStaged, AssignRow, UnassignRow,
         ReadVersions, ReadStaged, Answer, GoTo
<1>3. UNCHANGED <<cached, unbumped>>
  BY DEF Request, Upload, DeleteBundle, Assign, StageReseal, Rename, Begin, CheckBase, ReadBase,
         CountBundles, InsertRow, MintStaged, CheckOwner, StoreBytes, StoreStaged, AssignRow, UnassignRow,
         ReadVersions, ReadStaged
<1>4. \A i \in Ids : Present(i) => Present(i)'
  <2>1. CASE \E i \in Ids : InsertRow(r, i) \/ MintStaged(r, i)
    BY <2>1, MintKeepsRows
  <2>2. CASE ~\E i \in Ids : InsertRow(r, i) \/ MintStaged(r, i)
    BY <2>2 DEF Present, Request, Upload, DeleteBundle, Assign, StageReseal, Rename, Begin, CheckBase,
         ReadBase, CountBundles, CheckOwner, StoreBytes, StoreStaged, AssignRow, UnassignRow, ReadVersions, ReadStaged
  <2> QED BY <2>1, <2>2
<1>5. Assigns'
  <2>1. CASE UNCHANGED assigned
    BY <1>4, <2>1, AssignsStay DEF SInv
  <2>2. CASE AssignRow(r) /\ Present(reqs[r].id) /\ assigned' = assigned \cup {<<reqs[r].group, reqs[r].id>>}
    <3>1. reqs[r].id \in Ids
      BY <2>2 DEF AssignRow, IInv, Requests, Good, Used
    <3> QED BY <1>4, <2>2, <3>1 DEF Assigns, SInv
  <2>3. CASE assigned' = assigned \ {<<reqs[r].group, reqs[r].id>>}
    BY <1>4, <2>3 DEF Assigns, SInv
  <2> QED BY <2>1, <2>2, <2>3 DEF Request, Upload, DeleteBundle, Assign, StageReseal, Rename, Begin, CheckBase,
         ReadBase, CountBundles, InsertRow, MintStaged, CheckOwner, StoreBytes, StoreStaged, AssignRow, UnassignRow,
         ReadVersions, ReadStaged
<1> QED BY <1>1, <1>2, <1>3, <1>4, <1>5, ServedStep

LEMMA NothingServed == ASSUME Assigns', cached' = {} PROVE SInv'
BY DEF SInv, ServedHasRow

LEMMA DeleteServed ==
    ASSUME IInv, SInv, NEW r \in Slots, DeleteRow(r) \/ Unlink(r) \/ Bump(r) \/ HangUp(r)
    PROVE  SInv'
<1>1. Good(reqs[r]) /\ DOMAIN reqs[r] = Fields /\ DOMAIN rows = Ids
  BY DEF IInv, Requests, Tables, Good
<1>2. CASE DeleteRow(r)
  <2>i. PICK i : i = reqs[r].id
    OBVIOUS
  <2>1. /\ rows' = [rows EXCEPT ![i] = NoRow] /\ assigned' = {a \in assigned : a[2] # i} /\ reqs[r].pc = "delete"
        /\ IF Present(i) THEN GoTo(r, "unlink") ELSE Answer(r)
    BY <1>2, <2>i DEF DeleteRow
  <2>n. PICK n : n = IF Present(i) THEN [reqs[r] EXCEPT !.pc = "unlink"] ELSE IdleReq
    OBVIOUS
  <2>2. reqs' = [reqs EXCEPT ![r] = n]
    BY <2>n, <2>1 DEF GoTo, Answer
  <2>3. Present(i) => n.op = "delete" /\ n.pc = "unlink" /\ n.id = i
    BY <1>1, <2>i, <2>n, <2>1 DEF Good, Fields
  <2>4. \A x \in Ids \ {i} : rows'[x] = rows[x]
    BY <1>1, <2>1
  <2>5. Assigns'
    BY <2>1, <2>4 DEF Assigns, SInv, Present
  <2>6. \A x \in Ids : Present(x) => \/ Present(x)'
                                     \/ n.op = "delete" /\ n.pc = "unlink" /\ n.id = x
    BY <2>3, <2>4 DEF Present
  <2>7. ~Deleting(r) /\ UNCHANGED <<cached, unbumped>>
    BY <1>2, <2>1 DEF Deleting, DeleteRow, history
  <2> QED BY <2>2, <2>5, <2>6, <2>7, ServedStep
<1>3. CASE Unlink(r)
  <2>n. PICK n : n = [reqs[r] EXCEPT !.pc = "bump"]
    OBVIOUS
  <2>1. reqs' = [reqs EXCEPT ![r] = n] /\ UNCHANGED <<rows, assigned, cached, unbumped>>
    BY <1>3, <2>n DEF Unlink, GoTo, table, history
  <2>2. n.op = reqs[r].op /\ n.id = reqs[r].id /\ n.pc = "bump"
    BY <1>1, <2>n DEF Fields
  <2>3. Assigns' /\ \A i \in Ids : Present(i) => Present(i)'
    BY <2>1, AssignsStay DEF SInv, Present
  <2> QED BY <2>1, <2>2, <2>3, ServedStep DEF Deleting
<1>4. CASE Bump(r) \/ HangUp(r)
  <2>1. UNCHANGED <<rows, assigned>> /\ (Answer(r) \/ GoTo(r, "late"))
    BY <1>4 DEF Bump, HangUp, table
  <2>2. Assigns' /\ \A i \in Ids : Present(i) => Present(i)'
    BY <2>1, AssignsStay DEF SInv, Present
  <2>3. CASE cached' = {}
    BY <2>2, <2>3, NothingServed
  <2>4. CASE UNCHANGED cached /\ unbumped' = Lost(r)
    <3>1. unbumped \subseteq unbumped' /\ (Deleting(r) => reqs[r].id \in unbumped' \/ reqs[r].id \notin UNION cached')
      BY <2>4 DEF Lost, Deleting
    <3>2. \E n : reqs' = [reqs EXCEPT ![r] = n]
      BY <2>1 DEF Answer, GoTo
    <3> QED BY <2>2, <2>4, <3>1, <3>2, ServedStep
  <2> QED BY <1>4, <2>3, <2>4 DEF Bump, HangUp
<1> QED BY <1>2, <1>3, <1>4

\* A rename moves the assignments along and outdates the memoized state.
LEMMA RenameServed ==
    ASSUME IInv, SInv, NEW r \in Slots, CommitRename(r)
    PROVE  SInv'
<1> DEFINE q == reqs[r]
<1>1. q.pc = "check" /\ q.todo = {} /\ Answer(r) /\ unbumped' = unbumped
  BY DEF CommitRename
<1>2. CASE ~Renames(r)
  <2>1. UNCHANGED <<rows, assigned, cached>> /\ ~Deleting(r)
    BY <1>1, <1>2 DEF CommitRename, table, Deleting
  <2>2. Assigns' /\ \A i \in Ids : Present(i) => Present(i)'
    BY <2>1, AssignsStay DEF SInv, Present
  <2> QED BY <1>1, <2>1, <2>2, ServedStep DEF Answer
<1>3. CASE Renames(r)
  <2> DEFINE To(i) == IF q.map[i] # None THEN q.map[i] ELSE i
  <2>1. rows' = [j \in Ids |-> RenamedRow(r, j)] /\ assigned' = {<<a[1], To(a[2])>> : a \in assigned} /\ cached' = {}
    BY <1>3 DEF CommitRename
  <2>2. q.to # None /\ \A i \in Ids : q.map[i] # None => q.map[i] \in Ids
    BY <1>1, ConstantsAssumption DEF IInv, Requests, Good, Sealed, Used
  <2>3. ASSUME NEW i \in Ids, Present(i)
        PROVE  To(i) \in Ids /\ rows'[To(i)].name # None
    <3>1. To(i) \in Ids
      BY <2>2
    <3>2. \A j, v, c : Row(j, q.to, v, c).name = q.to
      BY DEF Row
    <3>3. CASE q.map[i] # None
      <4>1. /\ Read(q) /\ q.name \in Names
            /\ \A x \in Ids : q.map[x] # None => ~Present(q.map[x])
            /\ \A x \in Ids : q.shot[x].name # None => Present(x)
        <5>1. Read(q) /\ q.name \in Names
          BY <1>1 DEF IInv, Requests, Good
        <5> QED BY <1>3, <5>1, ConstantsAssumption DEF Renames, Named, Present
      <4>2. PICK j \in Ids : j = q.map[i]
        BY <2>2, <3>3
      <4>3. q.shot[j].name = None /\ q.map[j] = None
        BY <3>3, <4>1, <4>2 DEF Read
      <4>4. rows'[j] = RenamedRow(r, j)
        BY <2>1
      <4>5. \E x \in Ids : q.map[x] = j
        BY <4>2
      <4>6. RenamedRow(r, j).name = q.to
        BY <3>2, <4>3, <4>5 DEF RenamedRow
      <4> QED BY <2>2, <3>1, <3>3, <4>2, <4>4, <4>6
    <3>4. CASE q.map[i] = None
      <4>1. rows'[i] = RenamedRow(r, i)
        BY <2>1
      <4>2. RenamedRow(r, i).name \in {q.to, rows[i].name}
        BY <3>2, <3>4 DEF RenamedRow
      <4> QED BY <2>2, <2>3, <3>1, <3>4, <4>1, <4>2 DEF Present
    <3> QED BY <3>3, <3>4
  <2> HIDE DEF To
  <2>4. Assigns'
    BY <2>1, <2>3 DEF Assigns, SInv, Present
  <2> QED BY <2>1, <2>4, NothingServed
<1> QED BY <1>2, <1>3

LEMMA ServedInductive == IInv /\ SInv /\ [Next]_vars => SInv'
<1> SUFFICES ASSUME IInv, SInv, [Next]_vars PROVE SInv'
  OBVIOUS
<1>1. ASSUME NEW r \in Slots, Request(r) \/ RequestStep(r) \/ HangUp(r) PROVE SInv'
  BY <1>1, UnservedStep, DeleteServed, RenameServed DEF RequestStep
<1>2. CASE SweepStep \/ (\E i \in Ids : FileAges(i)) \/ UNCHANGED vars
  <2>1. UNCHANGED <<rows, assigned, cached, reqs, unbumped>>
    BY <1>2 DEF SweepStep, SweepList, SweepRows, SweepEnd, SweepDelete, SweepFails, FileAges, vars, table, history
  <2> QED BY <2>1 DEF SInv, Assigns, ServedHasRow, Present
<1>3. CASE Poll
  <2>1. cached' = {Served} /\ UNCHANGED <<rows, assigned, reqs, unbumped>>
    BY <1>3 DEF Poll, table, history
  <2>2. \A i \in Served : i \in Ids /\ Present(i)
    BY DEF Served, SInv, Assigns
  <2> QED BY <2>1, <2>2 DEF SInv, Assigns, ServedHasRow, Present
<1>4. CASE Stop
  <2>1. cached' = {} /\ UNCHANGED <<rows, assigned>>
    BY <1>4 DEF Stop, table
  <2> QED BY <2>1, NothingServed DEF SInv, Assigns, Present
<1> QED BY <1>1, <1>2, <1>3, <1>4 DEF Next

\* The memoized desired state names only bundles that are there, but for one
\* whose deletion has not bumped the version (delete_bundle bumps after its
\* statement, BundlesRepo::rename within its transaction).
THEOREM ServedAreThere == Spec => []ServedHasRow
<1>1. Init => SInv
  BY DEF Init, SInv, Assigns, ServedHasRow
<1>2. SInv => ServedHasRow
  BY DEF SInv
<1> QED BY InitIInv, Inductive, ServedInductive, <1>1, <1>2, PTL DEF Spec
-------------------------------------------------------------------------------
(* Types.                                                                  *)

\* What a request has named by the time it needs it.
Ready(q) ==
    /\ q.pc \in {"base", "read", "count", "insert"} => q.name \in Names
    /\ q.op = "reseal" /\ q.pc \in {"mint", "store", "late"} => q.base \in Ids /\ q.to \in Names
    /\ q.pc = "assign" => q.group \in Groups

DataTyped ==
    /\ rows \in [Ids -> Rows] /\ files \in [Ids -> Contents] /\ content \in [Ids -> Contents]
    /\ old \subseteq {i \in Ids : Stored(i)}
    /\ cut \subseteq Ids /\ staged \subseteq Ids
RestTyped ==
    /\ assigned \subseteq Groups \X Ids /\ cached \subseteq SUBSET Ids /\ unbumped \subseteq Ids
    /\ offers \subseteq [of : Ids, to : Names, as : Ids]
    /\ sweep \in [pc : {"idle", "listed", "delete"}, ids : SUBSET Ids]
    /\ stops \in 0 .. MaxStops /\ load \in Workloads
ReqsTyped == reqs \in [Slots -> Reqs] /\ \A r \in Slots : Ready(reqs[r])

TInv == DataTyped /\ RestTyped /\ ReqsTyped

LEMMA ConstantTypes ==
    /\ NoFile \in Contents /\ TornFile \in Contents /\ NoFile.text = None /\ TornFile.text # None
    /\ \A i \in Maybe(Ids), n \in Maybe(Names), v \in Maybe(Versions), c \in Contents : Row(i, n, v, c) \in Rows
    /\ NoRow \in Rows /\ IdleReq \in Reqs /\ Ready(IdleReq)
<1>1. NoFile \in Contents /\ TornFile \in Contents /\ NoFile.text = None /\ TornFile.text # None
  BY ConstantsAssumption DEF NoFile, TornFile, Contents, Maybe
<1>2. \A i \in Maybe(Ids), n \in Maybe(Names), v \in Maybe(Versions), c \in Contents : Row(i, n, v, c) \in Rows
  BY DEF Row, Rows, Descriptor, Descriptors
<1>3. NoRow \in Rows
  BY <1>1, <1>2 DEF NoRow, Maybe
<1>4. IdleReq \in Reqs
  BY <1>1, <1>3 DEF IdleReq, Reqs, Maybe, AllOps, Formats
<1>5. Ready(IdleReq)
  BY DEF IdleReq, Ready
<1> QED  BY <1>1, <1>2, <1>3, <1>4, <1>5

LEMMA ReqMoves ==
    ASSUME ReqsTyped, NEW r \in Slots, NEW n, n \in Reqs, Ready(n), reqs' = [reqs EXCEPT ![r] = n]
    PROVE  ReqsTyped'
<1>1. \A x \in Slots : reqs'[x] = IF x = r THEN n ELSE reqs[x]
  BY DEF ReqsTyped
<1>2. reqs' \in [Slots -> Reqs]
  BY DEF ReqsTyped
<1>3. \A x \in Slots : Ready(reqs'[x])
  BY <1>1 DEF ReqsTyped
<1> QED  BY <1>2, <1>3 DEF ReqsTyped, Ready

LEMMA AnswerTyped ==
    ASSUME ReqsTyped, NEW r \in Slots, Answer(r)
    PROVE  ReqsTyped'
BY ReqMoves, ConstantTypes DEF Answer

LEMMA GoToTyped ==
    ASSUME ReqsTyped, NEW r \in Slots, NEW p, GoTo(r, p),
           \/ p \in {"bump", "unlink"}
           \/ p \in {"read", "count", "insert"} /\ reqs[r].pc \in {"base", "read", "count"}
           \/ p = "late" /\ reqs[r].pc = "store"
    PROVE  ReqsTyped'
<1>1. PICK n : n = [reqs[r] EXCEPT !.pc = p]
  OBVIOUS
<1>2. reqs[r] \in Reqs /\ Ready(reqs[r])
  BY DEF ReqsTyped
<1>3. n \in Reqs /\ n.pc = p /\ n.name = reqs[r].name /\ n.op = reqs[r].op /\ n.base = reqs[r].base /\ n.to = reqs[r].to
  BY <1>1, <1>2 DEF Reqs
<1>4. Ready(n)
  BY <1>2, <1>3 DEF Ready
<1> QED  BY <1>1, <1>3, <1>4, ReqMoves DEF GoTo

\* Requests start.
LEMMA StartsTyped ==
    ASSUME TInv, NEW r \in Slots, Request(r)
    PROVE  TInv'
<1>1. UNCHANGED <<table, store, cached, offers, sweep, content, environ, history>>
  BY DEF Request, Upload, DeleteBundle, Assign, StageReseal, Rename
<1>2. DataTyped' /\ RestTyped'
  BY <1>1 DEF TInv, DataTyped, RestTyped, Stored, table, store, environ, history
<1>3. \A i \in Used : i \in Ids
  BY DEF Used
<1>4. IdleReq \in Reqs
  BY ConstantTypes
<1>5. ASSUME NEW op \in {"upload", "compose"}, NEW n \in Names, NEW v \in Versions, NEW f \in Formats \cap load,
             NEW b \in Maybe(Used), Upload(r, op, n, v, f, b)
      PROVE  ReqsTyped'
  <2>1. PICK q : q = [IdleReq EXCEPT !.op = op, !.pc = IF b = None THEN "count" ELSE "base",
                                     !.name = n, !.version = v, !.format = f, !.base = b]
    OBVIOUS
  <2>0. b \in Maybe(Ids) /\ n \in Maybe(Names) /\ v \in Maybe(Versions) /\ f \in Formats /\ op \in AllOps
    BY <1>3 DEF Maybe, AllOps
  <2>2. q \in Reqs /\ q.name = n /\ q.op = op
    BY <1>4, <2>0, <2>1 DEF Reqs
  <2>3. q.pc \in {"count", "base"}
    BY <1>4, <2>1 DEF Reqs
  <2>4. Ready(q)
    BY <2>2, <2>3 DEF Ready
  <2>5. reqs' = [reqs EXCEPT ![r] = q]
    BY <1>5, <2>1 DEF Upload, Begin
  <2> QED  BY <2>2, <2>4, <2>5, ReqMoves DEF TInv
<1>6. ASSUME NEW i \in Used, DeleteBundle(r, i)
      PROVE  ReqsTyped'
  <2>1. PICK q : q = [IdleReq EXCEPT !.op = "delete", !.id = i, !.pc = "delete"]
    OBVIOUS
  <2>2. q \in Reqs /\ q.pc = "delete"
    BY <1>3, <1>4, <2>1 DEF Reqs, Maybe, AllOps
  <2>3. Ready(q)
    BY <2>2 DEF Ready
  <2>4. reqs' = [reqs EXCEPT ![r] = q]
    BY <1>6, <2>1 DEF DeleteBundle, Begin
  <2> QED  BY <2>2, <2>3, <2>4, ReqMoves DEF TInv
<1>7. ASSUME NEW op \in {"assign", "unassign"}, NEW g \in Groups, NEW i \in Used, Assign(r, op, g, i)
      PROVE  ReqsTyped'
  <2>1. PICK q : q = [IdleReq EXCEPT !.op = op, !.id = i, !.group = g, !.pc = op]
    OBVIOUS
  <2>2. q \in Reqs /\ q.pc = op /\ q.group = g
    BY <1>3, <1>4, <2>1 DEF Reqs, Maybe, AllOps
  <2>3. Ready(q)
    BY <2>2 DEF Ready
  <2>4. reqs' = [reqs EXCEPT ![r] = q]
    BY <1>7, <2>1 DEF Assign, Begin
  <2> QED  BY <2>2, <2>3, <2>4, ReqMoves DEF TInv
<1>8. ASSUME NEW i \in Used, NEW n \in Names, StageReseal(r, i, n)
      PROVE  ReqsTyped'
  <2>1. PICK s : s = [IdleReq.shot EXCEPT ![i] = rows[i]]
    OBVIOUS
  <2>2. s \in [Ids -> Rows]
    BY <1>3, <1>4, <2>1 DEF Reqs, TInv, DataTyped
  <2>3. PICK q : q = [IdleReq EXCEPT !.op = "reseal", !.pc = "mint", !.base = i, !.to = n, !.shot = s]
    OBVIOUS
  <2>4. q \in Reqs /\ q.pc = "mint" /\ q.base = i /\ q.to = n
    BY <1>3, <1>4, <2>2, <2>3 DEF Reqs, Maybe, AllOps
  <2>5. Ready(q)
    BY <1>3, <2>4 DEF Ready
  <2>6. reqs' = [reqs EXCEPT ![r] = q]
    BY <1>8, <2>1, <2>3 DEF StageReseal, Begin
  <2> QED  BY <2>4, <2>5, <2>6, ReqMoves DEF TInv
<1>9. ASSUME NEW n \in Names, NEW m \in Names, NEW f \in [Ids -> Maybe({o.as : o \in offers})], Rename(r, n, m, f)
      PROVE  ReqsTyped'
  <2>1. PICK q : q = [IdleReq EXCEPT !.op = "rename", !.pc = "versions", !.name = n, !.to = m, !.map = f]
    OBVIOUS
  <2>2. f \in [Ids -> Maybe(Ids)]
    BY DEF Maybe, TInv, RestTyped
  <2>3. q \in Reqs /\ q.pc = "versions"
    BY <1>4, <2>1, <2>2 DEF Reqs, Maybe, AllOps
  <2>4. Ready(q)
    BY <2>3 DEF Ready
  <2>5. reqs' = [reqs EXCEPT ![r] = q]
    BY <1>9, <2>1 DEF Rename, Begin
  <2> QED  BY <2>3, <2>4, <2>5, ReqMoves DEF TInv
<1>10. ReqsTyped'
  BY <1>5, <1>6, <1>7, <1>8, <1>9 DEF Request
<1> QED  BY <1>2, <1>10 DEF TInv

\* What a request may write is a content.
LEMMA WritingTyped ==
    ASSUME IInv, TInv, NEW r \in Slots, reqs[r].pc \in {"store", "late"}
    PROVE  Writing(reqs[r]) \in Contents /\ reqs[r].id \in Ids
BY DEF IInv, Requests, Good, TInv, DataTyped, Used

LEMMA PutTyped ==
    ASSUME IInv, TInv, NEW r \in Slots, NEW ok \in BOOLEAN, reqs[r].pc \in {"store", "late"}, Put(r, ok),
           UNCHANGED <<rows, content, staged>>
    PROVE  DataTyped'
<1>1. PICK i \in Ids : i = reqs[r].id
  BY WritingTyped
<1>2. PICK c \in Contents : files' = [files EXCEPT ![i] = c]
  BY <1>1, WritingTyped, ConstantTypes DEF Put
<1>3. \A x \in Ids : x # i => files'[x] = files[x]
  BY <1>2 DEF TInv, DataTyped
<1>4. old' \subseteq {x \in Ids : Stored(x)'}
  BY <1>1, <1>3 DEF Put, TInv, DataTyped, Stored
<1>5. cut' \subseteq Ids
  BY <1>1 DEF Put, TInv, DataTyped
<1> QED  BY <1>2, <1>4, <1>5 DEF TInv, DataTyped, Stored

\* Steps that change requests, assignments or the memoized state only.
LEMMA LightTyped ==
    ASSUME IInv, TInv, NEW r \in Slots,
           \/ CheckBase(r) \/ ReadBase(r) \/ CountBundles(r) \/ AssignRow(r) \/ UnassignRow(r) \/ Bump(r) \/ HangUp(r)
    PROVE  TInv'
<1>1. UNCHANGED <<rows, store, offers, sweep, content, environ, staged>>
  BY DEF CheckBase, ReadBase, CountBundles, AssignRow, UnassignRow, Bump, HangUp, table, history
<1>2. DataTyped'
  BY <1>1 DEF TInv, DataTyped, Stored, store
<1>3. cached' \subseteq SUBSET Ids /\ unbumped' \subseteq Ids
  BY DEF CheckBase, ReadBase, CountBundles, AssignRow, UnassignRow, Bump, HangUp, Lost, history, TInv, RestTyped
<1>4. assigned' \subseteq Groups \X Ids
  <2>1. CASE AssignRow(r)
    <3>1. reqs[r].group \in Groups /\ reqs[r].id \in Ids
      BY <2>1 DEF AssignRow, TInv, ReqsTyped, Ready, IInv, Requests, Good, Used
    <3> QED  BY <2>1, <3>1 DEF AssignRow, TInv, RestTyped
  <2>2. CASE UnassignRow(r)
    BY <2>2 DEF UnassignRow, TInv, RestTyped
  <2>3. CASE UNCHANGED assigned
    BY <2>3 DEF TInv, RestTyped
  <2> QED  BY <2>1, <2>2, <2>3 DEF CheckBase, ReadBase, CountBundles, Bump, HangUp, table
<1>5. RestTyped'
  BY <1>1, <1>3, <1>4 DEF TInv, RestTyped, environ
<1>6. \/ Answer(r) \/ GoTo(r, "bump")
      \/ GoTo(r, "late") /\ reqs[r].pc = "store"
      \/ \E p \in {"read", "count", "insert"} : GoTo(r, p) /\ reqs[r].pc \in {"base", "read", "count"}
  BY DEF CheckBase, ReadBase, CountBundles, AssignRow, UnassignRow, Bump, HangUp
<1>7. ReqsTyped'
  BY <1>6, AnswerTyped, GoToTyped DEF TInv
<1> QED  BY <1>2, <1>5, <1>7 DEF TInv

\* The rows, contents and requests that a minting makes.
LEMMA MintsTyped ==
    ASSUME IInv, TInv, NEW r \in Slots, NEW i \in Ids, InsertRow(r, i) \/ MintStaged(r, i)
    PROVE  TInv'
<1>1. reqs[r] \in Reqs /\ Ready(reqs[r])
  BY DEF TInv, ReqsTyped
<1>2. UNCHANGED <<files, old, cut, assigned, cached, offers, sweep, environ, unbumped>>
  BY DEF InsertRow, MintStaged, store, history, table
<1>3. RestTyped'
  BY <1>2 DEF TInv, RestTyped, environ
<1>n. PICK n : n = [reqs[r] EXCEPT !.pc = "store", !.id = i]
  OBVIOUS
<1>4. n \in Reqs /\ n.op = reqs[r].op /\ n.base = reqs[r].base /\ n.to = reqs[r].to /\ n.pc = "store"
  BY <1>1, <1>n DEF Reqs, Maybe
<1>5. CASE InsertRow(r, i)
  <2>c. PICK c : c = [text |-> i, seal |-> IF reqs[r].format = "plain" THEN Plain ELSE reqs[r].name]
    OBVIOUS
  <2>w. PICK w : w = Row(i, reqs[r].name, reqs[r].version, c)
    OBVIOUS
  <2>1. reqs[r].pc = "insert" /\ staged' = staged
    BY <1>5 DEF InsertRow, history
  <2>2. reqs[r].name \in Names /\ reqs[r].op # "reseal"
    BY <1>1, <2>1 DEF Ready, IInv, Requests, Good
  <2>3. c \in Contents
    BY <2>c, <2>2 DEF Contents, Maybe
  <2>4. reqs[r].version \in Maybe(Versions) /\ i \in Maybe(Ids) /\ reqs[r].name \in Maybe(Names)
    BY <1>1, <2>2 DEF Reqs, Maybe
  <2>5. w \in Rows
    BY <2>w, <2>3, <2>4, ConstantTypes
  <2>6. \/ UNCHANGED <<rows, content>> /\ Answer(r)
        \/ rows' = [rows EXCEPT ![i] = w] /\ content' = [content EXCEPT ![i] = c] /\ reqs' = [reqs EXCEPT ![r] = n]
    BY <1>5, <1>n, <2>c, <2>w DEF InsertRow
  <2>7. DataTyped'
    BY <1>2, <2>1, <2>3, <2>5, <2>6 DEF TInv, DataTyped, Stored
  <2>8. Ready(n)
    BY <1>4, <2>2 DEF Ready
  <2>9. ReqsTyped'
    BY <1>4, <2>6, <2>8, AnswerTyped, ReqMoves DEF TInv
  <2> QED  BY <1>3, <2>7, <2>9 DEF TInv
<1>6. CASE MintStaged(r, i)
  <2>c. PICK c : c = Writing(reqs[r])
    OBVIOUS
  <2>1. reqs[r].pc = "mint" /\ rows' = rows /\ content' = [content EXCEPT ![i] = c] /\ staged' = staged \cup {i}
        /\ reqs' = [reqs EXCEPT ![r] = n]
    BY <1>6, <1>n, <2>c DEF MintStaged, table
  <2>2. reqs[r].op = "reseal" /\ c.text \in Ids
    BY <2>c, <2>1 DEF IInv, Requests, Good
  <2>3. reqs[r].base \in Ids /\ reqs[r].to \in Names
    BY <1>1, <2>1, <2>2 DEF Ready
  <2>4. c \in Contents
    BY <2>c, <2>2, <2>3 DEF Writing, Contents, Maybe
  <2>5. DataTyped'
    BY <1>2, <2>1, <2>4 DEF TInv, DataTyped, Stored
  <2>6. Ready(n)
    BY <1>4, <2>2, <2>3 DEF Ready
  <2>7. ReqsTyped'
    BY <1>4, <2>1, <2>6, ReqMoves DEF TInv
  <2> QED  BY <1>3, <2>5, <2>7 DEF TInv
<1> QED  BY <1>5, <1>6

\* A write ends, and a re-seal is offered.
LEMMA StoresTyped ==
    ASSUME IInv, TInv, NEW r \in Slots, NEW ok \in BOOLEAN, StoreBytes(r, ok) \/ StoreStaged(r, ok)
    PROVE  TInv'
<1>1. reqs[r].pc \in {"store", "late"} /\ Put(r, ok) /\ UNCHANGED <<rows, content, staged>>
  BY DEF StoreBytes, StoreStaged, table, history
<1>2. DataTyped'
  BY <1>1, PutTyped
<1>3. UNCHANGED <<assigned, cached, unbumped, sweep, environ>>
  BY DEF StoreBytes, StoreStaged, table, history
<1>4. reqs[r].id \in Ids
  BY <1>1, WritingTyped
<1>5. offers' \subseteq [of : Ids, to : Names, as : Ids]
  <2>1. CASE StoreBytes(r, ok)
    BY <2>1 DEF StoreBytes, TInv, RestTyped
  <2>2. CASE StoreStaged(r, ok)
    <3>1. Ready(reqs[r]) /\ reqs[r].op = "reseal"
      BY <2>2 DEF StoreStaged, TInv, ReqsTyped
    <3>2. reqs[r].base \in Ids /\ reqs[r].to \in Names
      BY <1>1, <3>1 DEF Ready
    <3> QED  BY <1>4, <2>2, <3>2 DEF StoreStaged, TInv, RestTyped
  <2> QED  BY <2>1, <2>2
<1>6. RestTyped'
  BY <1>3, <1>5 DEF TInv, RestTyped, environ
<1>7. Answer(r) \/ GoTo(r, "bump")
  BY DEF StoreBytes, StoreStaged
<1>8. ReqsTyped'
  BY <1>7, AnswerTyped, GoToTyped DEF TInv
<1> QED  BY <1>2, <1>6, <1>8 DEF TInv

LEMMA DeletesTyped ==
    ASSUME IInv, TInv, NEW r \in Slots, DeleteRow(r) \/ Unlink(r)
    PROVE  TInv'
<1>1. UNCHANGED <<content, cut, cached, offers, sweep, environ, history>>
  BY DEF DeleteRow, Unlink, store
<1>2. rows' \in [Ids -> Rows] /\ assigned' \subseteq assigned
  BY ConstantTypes DEF DeleteRow, Unlink, table, TInv, DataTyped
<1>3. files' \in [Ids -> Contents] /\ old' \subseteq {i \in Ids : Stored(i)'}
  <2>1. CASE UNCHANGED <<files, old>>
    BY <2>1 DEF TInv, DataTyped, Stored
  <2>2. CASE files' = [files EXCEPT ![reqs[r].id] = NoFile] /\ old' = old \ {reqs[r].id}
    <3>1. \A x \in Ids : x # reqs[r].id => files'[x] = files[x]
      BY <2>2 DEF TInv, DataTyped
    <3> QED  BY <2>2, <3>1, ConstantTypes DEF TInv, DataTyped, Stored
  <2> QED  BY <2>1, <2>2 DEF DeleteRow, Unlink, store
<1>4. DataTyped'
  BY <1>1, <1>2, <1>3 DEF TInv, DataTyped, Stored, history
<1>5. RestTyped'
  BY <1>1, <1>2 DEF TInv, RestTyped, environ, history
<1>6. Answer(r) \/ GoTo(r, "unlink") \/ GoTo(r, "bump")
  BY DEF DeleteRow, Unlink
<1>7. ReqsTyped'
  BY <1>6, AnswerTyped, GoToTyped DEF TInv
<1> QED  BY <1>4, <1>5, <1>7 DEF TInv

\* What a rename reads before it commits.
LEMMA ReadsTyped ==
    ASSUME IInv, TInv, NEW r \in Slots,
           ReadVersions(r) \/ ReadStaged(r) \/ \E i \in Ids : CheckOwner(r, i)
    PROVE  TInv'
<1>1. UNCHANGED <<table, store, cached, offers, sweep, content, environ, history>>
  BY DEF ReadVersions, ReadStaged, CheckOwner
<1>2. DataTyped' /\ RestTyped'
  BY <1>1 DEF TInv, DataTyped, RestTyped, Stored, table, store, environ, history
<1>3. reqs[r] \in Reqs /\ Good(reqs[r])
  BY DEF TInv, ReqsTyped, IInv, Requests
<1>4. ASSUME NEW n, n \in Reqs, n.pc \in {"check", "staged"}, reqs' = [reqs EXCEPT ![r] = n]
      PROVE  ReqsTyped'
  <2>1. Ready(n)
    BY <1>4 DEF Ready
  <2> QED  BY <1>4, <2>1, ReqMoves DEF TInv
<1>5. ASSUME Answer(r) PROVE ReqsTyped'
  BY <1>5, AnswerTyped DEF TInv
<1>6. ASSUME NEW i \in Ids, CheckOwner(r, i), ~Answer(r)
      PROVE  ReqsTyped'
  <2>1. PICK n : n = [reqs[r] EXCEPT !.pc = "staged", !.id = i]
    OBVIOUS
  <2>2. n \in Reqs /\ n.pc = "staged"
    BY <1>3, <2>1 DEF Reqs, Maybe
  <2>3. reqs' = [reqs EXCEPT ![r] = n]
    BY <1>6, <2>1 DEF CheckOwner
  <2> QED  BY <1>4, <2>2, <2>3
<1>7. ASSUME ReadVersions(r), ~Answer(r)
      PROVE  ReqsTyped'
  <2>e. PICK e : e = {i \in Named(reqs[r].name) : Encrypted(rows[i])}
    OBVIOUS
  <2>s. PICK s : s = [i \in Ids |-> IF i \in Named(reqs[r].name) THEN rows[i] ELSE NoRow]
    OBVIOUS
  <2>1. PICK n : n = [reqs[r] EXCEPT !.pc = "check", !.todo = e, !.shot = s]
    OBVIOUS
  <2>2. e \subseteq Ids
    BY <2>e DEF Named
  <2>3. s \in [Ids -> Rows]
    BY <2>s, ConstantTypes DEF TInv, DataTyped
  <2>4. n \in Reqs /\ n.pc = "check"
    BY <1>3, <2>1, <2>2, <2>3 DEF Reqs
  <2>5. reqs' = [reqs EXCEPT ![r] = n]
    BY <1>7, <2>e, <2>s, <2>1 DEF ReadVersions
  <2> QED  BY <1>4, <2>4, <2>5
<1>8. ASSUME ReadStaged(r), ~Answer(r)
      PROVE  ReqsTyped'
  <2>c. PICK c : c = files[reqs[r].map[reqs[r].id]]
    OBVIOUS
  <2>1. reqs[r].pc = "staged"
    BY <1>8 DEF ReadStaged
  <2>2. reqs[r].map[reqs[r].id] \in Ids
    BY <1>3, <2>1 DEF Good, Sealed, Used
  <2>3. c \in Contents
    BY <2>c, <2>2 DEF TInv, DataTyped
  <2>g. PICK g : g = [reqs[r].got EXCEPT ![reqs[r].id] = c]
    OBVIOUS
  <2>4. g \in [Ids -> Contents]
    BY <1>3, <2>3, <2>g DEF Reqs
  <2>t. PICK t : t = reqs[r].todo \ {reqs[r].id}
    OBVIOUS
  <2>5. t \subseteq Ids
    BY <1>3, <2>t DEF Reqs
  <2>6. PICK n : n = [reqs[r] EXCEPT !.pc = "check", !.todo = t, !.got = g]
    OBVIOUS
  <2>7. n \in Reqs /\ n.pc = "check"
    BY <1>3, <2>4, <2>5, <2>6 DEF Reqs
  <2>8. reqs' = [reqs EXCEPT ![r] = n]
    BY <1>8, <2>c, <2>g, <2>t, <2>6 DEF ReadStaged
  <2> QED  BY <1>4, <2>7, <2>8
<1>9. ReqsTyped'
  BY <1>5, <1>6, <1>7, <1>8
<1> QED  BY <1>2, <1>9 DEF TInv

LEMMA RenamesTyped ==
    ASSUME IInv, TInv, NEW r \in Slots, CommitRename(r)
    PROVE  TInv'
<1> DEFINE q == reqs[r]
           To(i) == IF q.map[i] # None THEN q.map[i] ELSE i
<1>1. q.pc = "check" /\ Answer(r) /\ UNCHANGED <<store, offers, sweep, content, environ, staged, unbumped>>
  BY DEF CommitRename
<1>2. q \in Reqs /\ Good(q)
  BY DEF TInv, ReqsTyped, IInv, Requests
<1>3. \/ UNCHANGED <<rows, assigned, cached>>
      \/ /\ rows' = [j \in Ids |-> RenamedRow(r, j)]
         /\ assigned' = {<<a[1], To(a[2])>> : a \in assigned}
         /\ cached' = {}
  BY DEF CommitRename, table
<1>4. q.to \in Names /\ \A i \in Ids : q.map[i] # None => q.map[i] \in Ids
  BY <1>1, <1>2 DEF Good, Sealed, Used
<1>5. ASSUME NEW j \in Ids PROVE RenamedRow(r, j) \in Rows
  <2>1. ASSUME NEW i \in Ids PROVE Row(j, q.to, q.shot[i].version, IF i = j THEN q.shot[i].sha ELSE q.got[i]) \in Rows
    <3>1. q.shot[i] \in Rows /\ q.got[i] \in Contents
      BY <1>2 DEF Reqs
    <3>2. q.shot[i].version \in Maybe(Versions) /\ q.shot[i].sha \in Contents
      BY <3>1 DEF Rows
    <3>3. j \in Maybe(Ids) /\ q.to \in Maybe(Names)
      BY <1>4 DEF Maybe
    <3> QED  BY <3>1, <3>2, <3>3, ConstantTypes
  <2>2. rows[j] \in Rows
    BY DEF TInv, DataTyped
  <2>3. CASE \E i \in Ids : q.map[i] = j
    <3> DEFINE k == CHOOSE i \in Ids : q.map[i] = j
    <3>1. k \in Ids
      BY <2>3
    <3>2. \/ RenamedRow(r, j) = Row(j, q.to, q.shot[k].version, IF k = j THEN q.shot[k].sha ELSE q.got[k])
          \/ RenamedRow(r, j) = Row(j, q.to, q.shot[j].version, IF j = j THEN q.shot[j].sha ELSE q.got[j])
          \/ RenamedRow(r, j) = NoRow
      BY <2>3 DEF RenamedRow
    <3> HIDE DEF k
    <3> QED  BY <2>1, <3>1, <3>2, ConstantTypes
  <2>4. CASE ~\E i \in Ids : q.map[i] = j
    <3>1. RenamedRow(r, j) \in {Row(j, q.to, q.shot[j].version, IF j = j THEN q.shot[j].sha ELSE q.got[j]), NoRow, rows[j]}
      BY <2>4 DEF RenamedRow
    <3> QED  BY <2>1, <2>2, <3>1, ConstantTypes
  <2> QED  BY <2>3, <2>4
<1>6. rows' \in [Ids -> Rows]
  BY <1>3, <1>5 DEF TInv, DataTyped
<1>7. \A i \in Ids : To(i) \in Ids
  BY <1>4
<1> HIDE DEF To
<1>8. assigned' \subseteq Groups \X Ids
  BY <1>3, <1>7 DEF TInv, RestTyped
<1>9. DataTyped'
  BY <1>1, <1>6 DEF TInv, DataTyped, Stored, store
<1>10. RestTyped'
  BY <1>1, <1>3, <1>8 DEF TInv, RestTyped, environ
<1>11. ReqsTyped'
  BY <1>1, AnswerTyped DEF TInv
<1> QED  BY <1>9, <1>10, <1>11 DEF TInv

\* The sweep, polls and time.
LEMMA SweepsTyped ==
    ASSUME IInv, SInv, TInv, SweepStep \/ Poll \/ \E i \in Ids : FileAges(i)
    PROVE  TInv'
<1>1. UNCHANGED <<rows, content, cut, staged, assigned, unbumped, offers, environ, reqs>>
  BY DEF SweepStep, SweepList, SweepRows, SweepEnd, SweepDelete, SweepFails, Poll, FileAges, table, store, history
<1>2. files' \in [Ids -> Contents] /\ old' \subseteq {i \in Ids : Stored(i)'}
  <2>1. CASE UNCHANGED <<files, old>>
    BY <2>1 DEF TInv, DataTyped, Stored
  <2>2. ASSUME NEW i \in Ids, SweepDelete(i)
        PROVE  files' \in [Ids -> Contents] /\ old' \subseteq {x \in Ids : Stored(x)'}
    <3>1. \A x \in Ids : x # i => files'[x] = files[x]
      BY <2>2 DEF SweepDelete, TInv, DataTyped
    <3> QED  BY <2>2, <3>1, ConstantTypes DEF SweepDelete, TInv, DataTyped, Stored
  <2>3. ASSUME NEW i \in Ids, FileAges(i)
        PROVE  files' \in [Ids -> Contents] /\ old' \subseteq {x \in Ids : Stored(x)'}
    BY <2>3 DEF FileAges, TInv, DataTyped, Stored
  <2> QED  BY <2>1, <2>2, <2>3 DEF SweepStep, SweepList, SweepRows, SweepEnd, SweepFails, Poll, store
<1>3. DataTyped'
  BY <1>1, <1>2 DEF TInv, DataTyped, Stored
<1>4. cached' \subseteq SUBSET Ids
  <2>1. Served \subseteq Ids
    BY DEF Served, SInv, Assigns
  <2> QED  BY <2>1 DEF SweepStep, SweepList, SweepRows, SweepEnd, SweepDelete, SweepFails, Poll, FileAges, TInv, RestTyped
<1>5. sweep' \in [pc : {"idle", "listed", "delete"}, ids : SUBSET Ids]
  <2>1. sweep \in [pc : {"idle", "listed", "delete"}, ids : SUBSET Ids]
    BY DEF TInv, RestTyped
  <2>2. CASE SweepStep
    BY <2>1, <2>2 DEF SweepStep, SweepList, SweepRows, SweepEnd, SweepDelete, SweepFails, IdleSweep
  <2>3. CASE sweep' = sweep
    BY <2>1, <2>3
  <2> QED  BY <2>2, <2>3 DEF Poll, FileAges
<1>6. RestTyped'
  BY <1>1, <1>4, <1>5 DEF TInv, RestTyped, environ
<1>7. ReqsTyped'
  BY <1>1 DEF TInv, ReqsTyped, Ready
<1> QED  BY <1>3, <1>6, <1>7 DEF TInv

LEMMA StopTyped ==
    ASSUME IInv, TInv, Stop
    PROVE  TInv'
<1> DEFINE writing == {r \in Slots : reqs[r].pc \in {"store", "late"}}
           ids     == {reqs[r].id : r \in writing}
<1>1. PICK whole \in SUBSET writing, none \in SUBSET ids :
        /\ files' = [i \in Ids |->
              IF i \notin ids THEN files[i]
              ELSE IF \E r \in whole : reqs[r].id = i
                THEN Writing(reqs[CHOOSE r \in whole : reqs[r].id = i])
              ELSE IF i \in none THEN NoFile ELSE TornFile]
        /\ cut' = cut \cup {reqs[r].id : r \in writing \ whole}
        /\ old' = old \ ids
  BY DEF Stop
<1>2. \A r \in writing : Writing(reqs[r]) \in Contents /\ reqs[r].id \in Ids
  BY WritingTyped
<1>3. cut' \subseteq Ids
  BY <1>1, <1>2 DEF TInv, DataTyped
<1>4. \A i \in Ids \ ids : files'[i] = files[i]
  BY <1>1
<1>5. ASSUME NEW i \in Ids PROVE files'[i] \in Contents
  <2>1. CASE \E r \in whole : reqs[r].id = i
    <3> DEFINE k == CHOOSE r \in whole : reqs[r].id = i
    <3>1. k \in writing /\ reqs[k].id = i
      BY <2>1
    <3>2. files'[i] = Writing(reqs[k])
      BY <1>1, <2>1, <3>1
    <3> HIDE DEF k
    <3> QED  BY <1>2, <3>1, <3>2
  <2>2. CASE ~\E r \in whole : reqs[r].id = i
    BY <1>1, <2>2, ConstantTypes DEF TInv, DataTyped
  <2> QED  BY <2>1, <2>2
<1>6. files' \in [Ids -> Contents]
  BY <1>1, <1>5
<1>7. old' \subseteq {i \in Ids : Stored(i)'}
  BY <1>1, <1>4 DEF TInv, DataTyped, Stored
<1>8. UNCHANGED <<rows, assigned, offers, content, load, staged, unbumped>> /\ cached' = {} /\ sweep' = IdleSweep
      /\ stops' = stops + 1 /\ stops < MaxStops /\ reqs' = [r \in Slots |-> IdleReq]
  BY DEF Stop, table
<1>9. DataTyped'
  BY <1>3, <1>6, <1>7, <1>8 DEF TInv, DataTyped, Stored
<1>10. stops' \in 0 .. MaxStops
  BY <1>8, ConstantsAssumption DEF TInv, RestTyped
<1>11. RestTyped'
  BY <1>8, <1>10 DEF TInv, RestTyped, IdleSweep
<1>12. ReqsTyped'
  BY <1>8, ConstantTypes DEF ReqsTyped, Ready
<1> QED  BY <1>9, <1>11, <1>12 DEF TInv

LEMMA TypesInductive == IInv /\ SInv /\ TInv /\ [Next]_vars => TInv'
<1> SUFFICES ASSUME IInv, SInv, TInv, [Next]_vars PROVE TInv'
  OBVIOUS
<1>1. ASSUME NEW r \in Slots, RequestStep(r) PROVE TInv'
  BY <1>1, LightTyped, MintsTyped, StoresTyped, DeletesTyped, ReadsTyped, RenamesTyped DEF RequestStep
<1>2. ASSUME NEW r \in Slots, Request(r) \/ HangUp(r) PROVE TInv'
  BY <1>2, StartsTyped, LightTyped
<1>3. CASE UNCHANGED vars
  BY <1>3 DEF vars, TInv, DataTyped, RestTyped, ReqsTyped, Stored, Ready
<1> QED  BY <1>1, <1>2, <1>3, SweepsTyped, StopTyped DEF Next

LEMMA InitTyped == Init => TInv
<1> SUFFICES ASSUME Init PROVE TInv
  OBVIOUS
<1>1. DataTyped
  BY ConstantTypes DEF Init, DataTyped, Stored
<1>2. RestTyped
  BY ConstantsAssumption DEF Init, RestTyped, IdleSweep
<1>3. ReqsTyped
  BY ConstantTypes DEF Init, ReqsTyped
<1> QED  BY <1>1, <1>2, <1>3 DEF TInv

\* Every row, file, request and offer has its type, and no assignment outlives
\* the bundle it names: deletions take it along and renames move it
\* (BundlesRepo::delete, BundlesRepo::rename).
THEOREM TypeCorrect == Spec => []TypeOK
<1>1. Init => SInv
  BY DEF Init, SInv, Assigns, ServedHasRow
<1>2. SInv /\ TInv => TypeOK
  <2> SUFFICES ASSUME SInv, TInv PROVE TypeOK
    OBVIOUS
  <2>1. assigned \subseteq Groups \X {i \in Ids : Present(i)}
    BY DEF SInv, Assigns, TInv, RestTyped
  <2> QED  BY <2>1 DEF TypeOK, TInv, DataTyped, RestTyped, ReqsTyped
<1> QED  BY InitIInv, Inductive, ServedInductive, InitTyped, TypesInductive, <1>1, <1>2, PTL DEF Spec
-------------------------------------------------------------------------------
(* Renames.                                                                *)

\* Bundle i was there when request q read it.
HadBy(q, i) ==
    \/ q.op = "reseal" /\ q.pc \in {"mint", "store", "late"} /\ q.base = i
    \/ q.pc \in {"check", "staged"} /\ q.shot[i].name # None

\* Bundle i has, or someone remembers that it had, a row.
Once(i) == Present(i) \/ (\E o \in offers : o.of = i) \/ \E r \in Slots : HadBy(reqs[r], i)

\* A re-seal whose file is being written.
Making(q) == q.op = "reseal" /\ q.pc \in {"store", "late"}

LineOK(q) ==
    /\ Making(q) => ~Once(q.id) /\ \A o \in offers : o.as # q.id
    /\ q.op = "reseal" /\ q.pc \in {"mint", "store", "late"} => q.base \in Used
    /\ q.pc \in {"versions", "check", "staged"} => q.name # q.to /\ Offered(q.map, q.to)
    /\ q.pc \in {"check", "staged"} =>
         \A i \in Ids : q.shot[i].name # None /\ Present(i) => rows[i].version = q.shot[i].version

OffersLine ==
    /\ \A o \in offers : o.of \in Used /\ (Once(o.as) => ~Present(o.of))
    /\ \A o, p \in offers : o.as = p.as => o.of = p.of
MakersApart ==
    \A r, x \in Slots : Making(reqs[r]) /\ Making(reqs[x]) /\ reqs[r].id = reqs[x].id => r = x

\* No bundle comes back: a staged one gets its row from the one it re-seals,
\* which goes for good.  So what a rename has read of a bundle that is there
\* is still its version.
LInv == OffersLine /\ MakersApart /\ \A r \in Slots : LineOK(reqs[r])

\* Bundle i gets no row, and keeps the version it has.
Narrow(i) == Present(i)' => Present(i) /\ rows'[i].version = rows[i].version

\* Request q is neither making a re-seal nor renaming.
Harmless(q) ==
    /\ q.pc \notin {"versions", "check", "staged"}
    /\ q.op = "reseal" => q.pc \notin {"mint", "store", "late"}

LEMMA OnceUsed ==
    ASSUME IInv, LInv, NEW i \in Ids, Once(i)
    PROVE  i \in Used
<1>1. CASE Present(i)
  BY <1>1, RowIs DEF IInv, Tables
<1>2. CASE \E o \in offers : o.of = i
  BY <1>2 DEF LInv, OffersLine
<1>3. ASSUME NEW r \in Slots, HadBy(reqs[r], i) PROVE i \in Used
  <2>1. Good(reqs[r]) /\ LineOK(reqs[r])
    BY DEF IInv, Requests, LInv
  <2> QED  BY <1>3, <2>1 DEF HadBy, Good, Read, LineOK
<1> QED  BY <1>1, <1>2, <1>3 DEF Once

\* What one request does to the line, when no offer is made.
LEMMA LineStep ==
    ASSUME IInv, LInv, NEW r \in Slots, NEW n, reqs' = [reqs EXCEPT ![r] = n], LineOK(n), offers' = offers,
           \A i \in Used : i \in Used' /\ Narrow(i),
           Making(n) => Narrow(n.id) /\ n.id \in Ids /\ \A x \in Slots \ {r} : Making(reqs[x]) => reqs[x].id # n.id,
           \A i \in Ids : HadBy(n, i) => Once(i)
    PROVE  LInv'
<1>1. reqs'[r] = n /\ \A x \in Slots \ {r} : reqs'[x] = reqs[x]
  BY DEF IInv, Requests
<1>2. ASSUME NEW i \in Ids, Narrow(i), Once(i)' PROVE Once(i)
  <2>1. CASE Present(i)'
    BY <1>2, <2>1 DEF Narrow, Once
  <2>2. CASE \E o \in offers : o.of = i
    BY <2>2 DEF Once
  <2>3. ASSUME NEW x \in Slots, HadBy(reqs[x], i)' PROVE Once(i)
    <3>1. HadBy(reqs'[x], i)
      BY <2>3 DEF HadBy
    <3> QED  BY <1>1, <3>1 DEF Once
  <2> QED  BY <1>2, <2>1, <2>2, <2>3 DEF Once
<1>3. ASSUME NEW o \in offers' PROVE (o.of \in Used)' /\ (Once(o.as)' => ~Present(o.of)')
  <2>1. o \in offers /\ o.of \in Used /\ o.as \in Used /\ o.of \in Ids /\ o.as \in Ids
    BY DEF LInv, OffersLine, IInv, Tables, Sealed, Used
  <2> QED  BY <1>2, <2>1 DEF LInv, OffersLine, Narrow
<1>4. OffersLine'
  BY <1>3 DEF LInv, OffersLine
<1>5. ASSUME NEW x \in Slots \ {r}, Making(reqs[x]) PROVE reqs[x].id \in Used /\ reqs[x].id \in Ids
  BY <1>5 DEF IInv, Requests, Good, Making, Used
<1>6. MakersApart'
  <2> SUFFICES ASSUME NEW x \in Slots, NEW y \in Slots, Making(reqs'[x]), Making(reqs'[y]), reqs'[x].id = reqs'[y].id
               PROVE  x = y
    BY DEF MakersApart, Making
  <2> QED  BY <1>1 DEF LInv, MakersApart
<1>7. ASSUME NEW q, LineOK(q), Making(q) => Narrow(q.id) /\ q.id \in Ids, \A i \in Ids : HadBy(q, i) => i \in Used
      PROVE  LineOK(q)'
  <2>1. Making(q)' => ~Once(q.id)' /\ \A o \in offers' : o.as # q.id
    BY <1>2, <1>7 DEF LineOK, Making
  <2>2. q.op = "reseal" /\ q.pc \in {"mint", "store", "late"} => q.base \in Used'
    BY <1>7 DEF LineOK
  <2>3. q.pc \in {"versions", "check", "staged"} => q.name # q.to /\ Offered(q.map, q.to)'
    BY <1>7 DEF LineOK, Offered
  <2>4. q.pc \in {"check", "staged"} =>
         \A i \in Ids : q.shot[i].name # None /\ Present(i)' => rows'[i].version = q.shot[i].version
    BY <1>7 DEF LineOK, HadBy, Narrow
  <2> QED  BY <2>1, <2>2, <2>3, <2>4 DEF LineOK, Offered
<1>8. LineOK(n)'
  BY <1>7, OnceUsed
<1>9. ASSUME NEW x \in Slots \ {r} PROVE LineOK(reqs[x])'
  <2>1. PICK q : q = reqs[x]
    OBVIOUS
  <2>2. LineOK(q) /\ (Making(q) => Narrow(q.id) /\ q.id \in Ids)
    BY <1>5, <2>1 DEF LInv
  <2>3. \A i \in Ids : HadBy(q, i) => i \in Used
    BY <2>1, OnceUsed DEF Once
  <2>4. LineOK(q)'
    BY <1>7, <2>2, <2>3
  <2>5. reqs'[x] = q
    BY <1>1, <2>1
  <2> QED  BY <2>4, <2>5 DEF LineOK, Making
<1>10. \A x \in Slots : LineOK(reqs[x])'
  <2>1. LineOK(reqs[r])'
    BY <1>1, <1>8 DEF LineOK, Making
  <2> QED  BY <1>9, <2>1
<1> QED  BY <1>4, <1>6, <1>10 DEF LInv

LEMMA HarmlessStep ==
    ASSUME IInv, LInv, NEW r \in Slots, NEW n, reqs' = [reqs EXCEPT ![r] = n], Harmless(n), offers' = offers,
           \A i \in Used : i \in Used' /\ Narrow(i)
    PROVE  LInv'
<1>1. LineOK(n) /\ ~Making(n) /\ \A i \in Ids : ~HadBy(n, i)
  BY DEF Harmless, LineOK, Making, HadBy
<1> QED  BY <1>1, LineStep

LEMMA RestNarrow ==
    ASSUME UNCHANGED <<rows, content>>
    PROVE  \A i \in Used : i \in Used' /\ Narrow(i)
BY DEF Used, Narrow, Present

LEMMA RequestsLine ==
    ASSUME IInv, LInv, NEW r \in Slots, Request(r)
    PROVE  LInv'
<1>1. UNCHANGED <<rows, content, offers>>
  BY DEF Request, Upload, DeleteBundle, Assign, StageReseal, Rename, table
<1>2. \A i \in Used : i \in Used' /\ Narrow(i)
  BY <1>1, RestNarrow
<1>3. DOMAIN IdleReq = Fields
  BY DEF IdleReq, Fields
<1>4. ASSUME NEW op \in {"upload", "compose"}, NEW nm, NEW v, NEW f, NEW b, Upload(r, op, nm, v, f, b) PROVE LInv'
  <2>1. PICK n : n = [IdleReq EXCEPT !.op = op, !.pc = IF b = None THEN "count" ELSE "base",
                                     !.name = nm, !.version = v, !.format = f, !.base = b]
    OBVIOUS
  <2>2. n.pc \in {"count", "base"}
    BY <1>3, <2>1 DEF Fields
  <2>3. Harmless(n)
    BY <2>2 DEF Harmless
  <2>4. reqs' = [reqs EXCEPT ![r] = n]
    BY <1>4, <2>1 DEF Upload, Begin
  <2> QED  BY <1>1, <1>2, <2>3, <2>4, HarmlessStep
<1>5. ASSUME NEW i \in Used, DeleteBundle(r, i) PROVE LInv'
  <2>1. PICK n : n = [IdleReq EXCEPT !.op = "delete", !.id = i, !.pc = "delete"]
    OBVIOUS
  <2>2. Harmless(n)
    BY <1>3, <2>1 DEF Fields, Harmless
  <2>3. reqs' = [reqs EXCEPT ![r] = n]
    BY <1>5, <2>1 DEF DeleteBundle, Begin
  <2> QED  BY <1>1, <1>2, <2>2, <2>3, HarmlessStep
<1>6. ASSUME NEW op \in {"assign", "unassign"}, NEW g, NEW i \in Used, Assign(r, op, g, i) PROVE LInv'
  <2>1. PICK n : n = [IdleReq EXCEPT !.op = op, !.id = i, !.group = g, !.pc = op]
    OBVIOUS
  <2>2. Harmless(n)
    BY <1>3, <2>1 DEF Fields, Harmless
  <2>3. reqs' = [reqs EXCEPT ![r] = n]
    BY <1>6, <2>1 DEF Assign, Begin
  <2> QED  BY <1>1, <1>2, <2>2, <2>3, HarmlessStep
<1>7. ASSUME NEW i \in Used, NEW to \in Names, StageReseal(r, i, to) PROVE LInv'
  <2>1. PICK n : n = [IdleReq EXCEPT !.op = "reseal", !.pc = "mint", !.base = i, !.to = to,
                                     !.shot = [IdleReq.shot EXCEPT ![i] = rows[i]]]
    OBVIOUS
  <2>2. n.op = "reseal" /\ n.pc = "mint" /\ n.base = i
    BY <1>3, <2>1 DEF Fields
  <2>3. reqs' = [reqs EXCEPT ![r] = n] /\ Present(i)
    BY <1>7, <2>1 DEF StageReseal, Begin
  <2>4. LineOK(n) /\ ~Making(n)
    BY <2>2 DEF LineOK, Making
  <2>5. \A x \in Ids : HadBy(n, x) => Once(x)
    BY <2>2, <2>3 DEF HadBy, Once
  <2> QED  BY <1>1, <1>2, <2>3, <2>4, <2>5, LineStep
<1>8. ASSUME NEW from \in Names, NEW to \in Names, NEW m \in [Ids -> Maybe({o.as : o \in offers})],
             Rename(r, from, to, m)
      PROVE  LInv'
  <2>1. PICK n : n = [IdleReq EXCEPT !.op = "rename", !.pc = "versions", !.name = from, !.to = to, !.map = m]
    OBVIOUS
  <2>2. n.op = "rename" /\ n.pc = "versions" /\ n.name = from /\ n.to = to /\ n.map = m
    BY <1>3, <2>1 DEF Fields
  <2>3. reqs' = [reqs EXCEPT ![r] = n] /\ from # to /\ Offered(m, to)
    BY <1>8, <2>1 DEF Rename, Begin
  <2>4. LineOK(n) /\ ~Making(n) /\ \A x \in Ids : ~HadBy(n, x)
    BY <2>2, <2>3 DEF LineOK, Making, HadBy
  <2> QED  BY <1>1, <1>2, <2>3, <2>4, LineStep
<1> QED  BY <1>4, <1>5, <1>6, <1>7, <1>8 DEF Request

LEMMA AnswerLine ==
    ASSUME IInv, LInv, NEW r \in Slots, Answer(r), offers' = offers, \A i \in Used : i \in Used' /\ Narrow(i)
    PROVE  LInv'
BY HarmlessStep DEF Answer, Harmless, IdleReq

LEMMA GoToLine ==
    ASSUME IInv, LInv, NEW r \in Slots, NEW p \in {"read", "count", "insert", "bump", "unlink"}, GoTo(r, p),
           offers' = offers, \A i \in Used : i \in Used' /\ Narrow(i)
    PROVE  LInv'
<1>1. PICK n : n = [reqs[r] EXCEPT !.pc = p]
  OBVIOUS
<1>2. DOMAIN reqs[r] = Fields
  BY DEF IInv, Requests, Good
<1>3. n.pc = p
  BY <1>1, <1>2 DEF Fields
<1>4. Harmless(n)
  BY <1>3 DEF Harmless
<1>5. reqs' = [reqs EXCEPT ![r] = n]
  BY <1>1 DEF GoTo
<1> QED  BY <1>4, <1>5, HarmlessStep

LEMMA PlainLine ==
    ASSUME IInv, LInv, NEW r \in Slots,
           \/ CheckBase(r) \/ ReadBase(r) \/ CountBundles(r) \/ AssignRow(r) \/ UnassignRow(r) \/ Bump(r)
           \/ DeleteRow(r) \/ Unlink(r) \/ \E ok \in BOOLEAN : StoreBytes(r, ok)
    PROVE  LInv'
<1>1. offers' = offers /\ content' = content
  BY DEF CheckBase, ReadBase, CountBundles, AssignRow, UnassignRow, Bump, DeleteRow, Unlink, StoreBytes
<1>2. \A i \in Used : i \in Used' /\ Narrow(i)
  <2>1. CASE rows' = rows
    BY <1>1, <2>1, RestNarrow
  <2>2. CASE rows' = [rows EXCEPT ![reqs[r].id] = NoRow]
    <3>1. \A i \in Ids : rows'[i] \in {rows[i], NoRow}
      BY <2>2 DEF IInv, Tables
    <3>2. NoRow.name = None
      BY DEF NoRow, Row
    <3>3. \A i \in Ids : rows'[i] = NoRow => Narrow(i)
      BY <3>2 DEF Narrow, Present
    <3> QED  BY <1>1, <3>1, <3>3 DEF Used, Narrow, Present
  <2> QED  BY <2>1, <2>2 DEF CheckBase, ReadBase, CountBundles, AssignRow, UnassignRow, Bump, DeleteRow, Unlink,
                            StoreBytes, table
<1>3. Answer(r) \/ \E p \in {"read", "count", "insert", "bump", "unlink"} : GoTo(r, p)
  BY DEF CheckBase, ReadBase, CountBundles, AssignRow, UnassignRow, Bump, DeleteRow, Unlink, StoreBytes
<1> QED  BY <1>1, <1>2, <1>3, AnswerLine, GoToLine

LEMMA InsertLine ==
    ASSUME IInv, LInv, NEW r \in Slots, NEW i \in Ids, InsertRow(r, i)
    PROVE  LInv'
<1>n. PICK n : n = [reqs[r] EXCEPT !.pc = "store", !.id = i]
  OBVIOUS
<1>1. reqs[r].pc = "insert" /\ i \notin Used /\ offers' = offers
  BY DEF InsertRow
<1>2. DOMAIN reqs[r] = Fields /\ reqs[r].op # "reseal" /\ DOMAIN rows = Ids /\ DOMAIN content = Ids
  BY <1>1 DEF IInv, Requests, Good, Tables
<1>3. n.pc = "store" /\ n.op # "reseal"
  BY <1>n, <1>2 DEF Fields
<1>4. Harmless(n)
  BY <1>3 DEF Harmless
<1>5. Answer(r) \/ reqs' = [reqs EXCEPT ![r] = n]
  BY <1>n DEF InsertRow
<1>6. \A x \in Ids \ {i} : rows'[x] = rows[x] /\ content'[x] = content[x]
  BY <1>2 DEF InsertRow
<1>7. \A x \in Used : x \in Ids \ {i}
  BY <1>1 DEF Used
<1>8. \A x \in Used : x \in Used' /\ Narrow(x)
  BY <1>6, <1>7 DEF Used, Narrow, Present
<1> QED  BY <1>1, <1>4, <1>5, <1>8, AnswerLine, HarmlessStep

LEMMA MintLine ==
    ASSUME IInv, LInv, NEW r \in Slots, NEW s \in Ids, MintStaged(r, s)
    PROVE  LInv'
<1>n. PICK n : n = [reqs[r] EXCEPT !.pc = "store", !.id = s]
  OBVIOUS
<1>1. reqs[r].pc = "mint" /\ s \notin Used /\ offers' = offers /\ rows' = rows /\ reqs' = [reqs EXCEPT ![r] = n]
      /\ content' = [content EXCEPT ![s] = Writing(reqs[r])]
  BY <1>n DEF MintStaged, table
<1>2. DOMAIN reqs[r] = Fields /\ reqs[r].op = "reseal" /\ DOMAIN content = Ids /\ LineOK(reqs[r])
  BY <1>1 DEF IInv, Requests, Good, Tables, LInv
<1>3. n.pc = "store" /\ n.op = "reseal" /\ n.id = s /\ n.base = reqs[r].base
  BY <1>n, <1>2 DEF Fields
<1>4. \A x \in Ids \ {s} : content'[x] = content[x]
  BY <1>1, <1>2
<1>5. \A x \in Used : x \in Used' /\ Narrow(x)
  BY <1>1, <1>4 DEF Used, Narrow, Present
<1>6. ~Once(s)
  BY <1>1, OnceUsed
<1>7. \A o \in offers : o.as # s
  BY <1>1 DEF IInv, Tables, Sealed
<1>8. LineOK(n)
  BY <1>1, <1>2, <1>3, <1>6, <1>7 DEF LineOK, Making
<1>9. \A x \in Slots \ {r} : Making(reqs[x]) => reqs[x].id # s
  BY <1>1 DEF IInv, Requests, Good, Making
<1>10. \A x \in Ids : HadBy(n, x) => Once(x)
  BY <1>1, <1>2, <1>3 DEF HadBy, Once
<1>11. Narrow(n.id)
  BY <1>1 DEF Narrow, Present
<1> QED  BY <1>1, <1>3, <1>5, <1>8, <1>9, <1>10, <1>11, LineStep

\* A re-seal is offered: no one else has its id, and no bundle had it.
LEMMA StagedLine ==
    ASSUME IInv, LInv, NEW r \in Slots, NEW ok \in BOOLEAN, StoreStaged(r, ok)
    PROVE  LInv'
<1> DEFINE q == reqs[r]
           o == [of |-> q.base, to |-> q.to, as |-> q.id]
<1>1. q.pc \in {"store", "late"} /\ q.op = "reseal" /\ UNCHANGED <<rows, content>> /\ Answer(r)
  BY DEF StoreStaged, table
<1>2. \A i \in Used : i \in Used' /\ Narrow(i)
  BY <1>1, RestNarrow
<1>3. CASE offers' = offers
  BY <1>1, <1>2, <1>3, AnswerLine
<1>4. CASE offers' = offers \cup {o}
  <2>1. LineOK(q) /\ Making(q) /\ q.base \in Used /\ q.id \in Used /\ HadBy(q, q.base)
    BY <1>1 DEF LInv, LineOK, Making, HadBy, IInv, Requests, Good
  <2>2. ~Once(q.id) /\ Once(q.base) /\ \A p \in offers : p.as # q.id
    BY <2>1 DEF LineOK, Once
  <2>3. reqs'[r] = IdleReq /\ \A x \in Slots \ {r} : reqs'[x] = reqs[x]
    BY <1>1 DEF IInv, Requests, Answer
  <2>4. ~Making(IdleReq) /\ (\A i : ~HadBy(IdleReq, i)) /\ Harmless(IdleReq)
    BY DEF Making, HadBy, IdleReq, Harmless
  <2>5. ASSUME NEW i, Once(i)' PROVE Once(i)
    <3>1. CASE Present(i)'
      BY <1>1, <3>1 DEF Once, Present
    <3>2. CASE \E p \in offers' : p.of = i
      BY <1>4, <2>2, <3>2 DEF Once
    <3>3. ASSUME NEW x \in Slots, HadBy(reqs[x], i)' PROVE Once(i)
      <4>1. HadBy(reqs'[x], i)
        BY <3>3 DEF HadBy
      <4> QED  BY <2>3, <2>4, <4>1 DEF Once
    <3> QED  BY <2>5, <3>1, <3>2, <3>3 DEF Once
  <2>6. Used' = Used /\ \A i : Present(i)' <=> Present(i)
    BY <1>1 DEF Used, Present
  <2>7. OffersLine'
    <3>1. ASSUME NEW p \in offers' PROVE (p.of \in Used)' /\ (Once(p.as)' => ~Present(p.of)')
      BY <1>4, <2>1, <2>2, <2>5, <2>6 DEF LInv, OffersLine
    <3>2. ASSUME NEW p \in offers', NEW w \in offers', p.as = w.as PROVE p.of = w.of
      BY <1>4, <2>2, <3>2 DEF LInv, OffersLine
    <3> QED  BY <3>1, <3>2 DEF OffersLine
  <2>8. MakersApart'
    <3> SUFFICES ASSUME NEW x \in Slots, NEW y \in Slots, Making(reqs'[x]), Making(reqs'[y]), reqs'[x].id = reqs'[y].id
                 PROVE  x = y
      BY DEF MakersApart, Making
    <3> QED  BY <2>3, <2>4 DEF LInv, MakersApart
  <2>9. ASSUME NEW x \in Slots PROVE LineOK(reqs[x])'
    <3>1. PICK w : w = reqs'[x]
      OBVIOUS
    <3>2. CASE x = r
      BY <2>3, <2>4, <3>2 DEF LineOK, Making, Harmless
    <3>3. CASE x # r
      <4>1. w = reqs[x] /\ LineOK(w)
        BY <2>3, <3>1, <3>3 DEF LInv
      <4>2. Making(w) => w.id # q.id
        BY <2>1, <3>3, <4>1 DEF LInv, MakersApart
      <4>3. Making(w) => ~Once(w.id)' /\ \A p \in offers' : p.as # w.id
        BY <1>4, <2>5, <4>1, <4>2 DEF LineOK
      <4>4. w.pc \in {"versions", "check", "staged"} => Offered(w.map, w.to)'
        BY <1>4, <4>1 DEF LineOK, Offered
      <4>5. LineOK(w)'
        BY <1>1, <2>6, <4>1, <4>3, <4>4 DEF LineOK, Making, Offered
      <4> QED  BY <3>1, <4>5 DEF LineOK, Making, Offered
    <3> QED  BY <3>2, <3>3
  <2> QED  BY <2>7, <2>8, <2>9 DEF LInv
<1> QED  BY <1>3, <1>4 DEF StoreStaged

LEMMA ReadLine ==
    ASSUME IInv, LInv, NEW r \in Slots, ReadVersions(r) \/ ReadStaged(r) \/ \E i \in Ids : CheckOwner(r, i)
    PROVE  LInv'
<1> DEFINE q == reqs[r]
<1>1. UNCHANGED <<rows, content, offers>> /\ q.pc \in {"versions", "check", "staged"}
  BY DEF ReadVersions, ReadStaged, CheckOwner, table
<1>2. \A i \in Used : i \in Used' /\ Narrow(i)
  BY <1>1, RestNarrow
<1>3. DOMAIN q = Fields /\ LineOK(q)
  BY DEF IInv, Requests, Good, LInv
<1>4. CASE Answer(r)
  BY <1>1, <1>2, <1>4, AnswerLine
<1>5. ASSUME NEW n, reqs' = [reqs EXCEPT ![r] = n], n.pc \in {"check", "staged"}, n.shot = q.shot, n.map = q.map,
             n.name = q.name, n.to = q.to, q.pc \in {"check", "staged"}
      PROVE  LInv'
  <2>1. LineOK(n) /\ ~Making(n)
    BY <1>3, <1>5 DEF LineOK, Making
  <2>2. \A i \in Ids : HadBy(n, i) => Once(i)
    BY <1>5 DEF HadBy, Once
  <2> QED  BY <1>1, <1>2, <1>5, <2>1, <2>2, LineStep
<1>6. ASSUME NEW i \in Ids, CheckOwner(r, i), ~Answer(r) PROVE LInv'
  <2>1. PICK n : n = [q EXCEPT !.pc = "staged", !.id = i]
    OBVIOUS
  <2>2. reqs' = [reqs EXCEPT ![r] = n] /\ q.pc = "check"
    BY <1>6, <2>1 DEF CheckOwner
  <2> QED  BY <1>3, <1>5, <2>1, <2>2 DEF Fields
<1>7. ASSUME ReadStaged(r), ~Answer(r) PROVE LInv'
  <2>1. PICK n : n = [q EXCEPT !.pc = "check", !.todo = q.todo \ {q.id}, !.got = [q.got EXCEPT ![q.id] = files[q.map[q.id]]]]
    OBVIOUS
  <2>2. reqs' = [reqs EXCEPT ![r] = n] /\ q.pc = "staged"
    BY <1>7, <2>1 DEF ReadStaged
  <2> QED  BY <1>3, <1>5, <2>1, <2>2 DEF Fields
<1>8. ASSUME ReadVersions(r), ~Answer(r) PROVE LInv'
  <2>s. PICK s : s = [i \in Ids |-> IF i \in Named(q.name) THEN rows[i] ELSE NoRow]
    OBVIOUS
  <2>1. PICK n : n = [q EXCEPT !.pc = "check", !.todo = {i \in Named(q.name) : Encrypted(rows[i])}, !.shot = s]
    OBVIOUS
  <2>2. reqs' = [reqs EXCEPT ![r] = n] /\ q.pc = "versions"
    BY <1>8, <2>s, <2>1 DEF ReadVersions
  <2>3. n.pc = "check" /\ n.shot = s /\ n.map = q.map /\ n.name = q.name /\ n.to = q.to
    BY <1>3, <2>1 DEF Fields
  <2>4. \A i \in Ids : s[i].name # None => s[i] = rows[i] /\ Present(i)
    BY <2>s DEF NoRow, Row, Present
  <2>5. LineOK(n) /\ ~Making(n)
    BY <1>3, <2>2, <2>3, <2>4 DEF LineOK, Making
  <2>6. \A i \in Ids : HadBy(n, i) => Once(i)
    BY <2>3, <2>4 DEF HadBy, Once
  <2> QED  BY <1>1, <1>2, <2>2, <2>5, <2>6, LineStep
<1> QED  BY <1>4, <1>6, <1>7, <1>8

LEMMA HangUpLine ==
    ASSUME IInv, LInv, NEW r \in Slots, HangUp(r)
    PROVE  LInv'
<1>1. UNCHANGED <<rows, content, offers>>
  BY DEF HangUp, table
<1>2. \A i \in Used : i \in Used' /\ Narrow(i)
  BY <1>1, RestNarrow
<1>3. CASE Answer(r)
  BY <1>1, <1>2, <1>3, AnswerLine
<1>4. CASE GoTo(r, "late") /\ reqs[r].pc = "store"
  <2>1. PICK n : n = [reqs[r] EXCEPT !.pc = "late"]
    OBVIOUS
  <2>2. DOMAIN reqs[r] = Fields /\ LineOK(reqs[r])
    BY DEF IInv, Requests, Good, LInv
  <2>3. n.pc = "late" /\ n.op = reqs[r].op /\ n.id = reqs[r].id /\ n.base = reqs[r].base
    BY <2>1, <2>2 DEF Fields
  <2>4. LineOK(n)
    BY <1>4, <2>2, <2>3 DEF LineOK, Making
  <2>5. \A i \in Ids : HadBy(n, i) => Once(i)
    BY <1>4, <2>3 DEF HadBy, Once
  <2>6. Making(n) => Making(reqs[r]) /\ reqs[r].id \in Used /\ n.id \in Ids
    BY <1>4, <2>3 DEF Making, IInv, Requests, Good, Used
  <2>7. Making(n) => Narrow(n.id) /\ n.id \in Ids /\ \A x \in Slots \ {r} : Making(reqs[x]) => reqs[x].id # n.id
    BY <1>2, <2>3, <2>6 DEF LInv, MakersApart
  <2>8. reqs' = [reqs EXCEPT ![r] = n]
    BY <1>4, <2>1 DEF GoTo
  <2> QED  BY <1>1, <1>2, <2>4, <2>5, <2>7, <2>8, LineStep
<1> QED  BY <1>3, <1>4 DEF HangUp

\* What a commit finds: the versions it read are there as it read them, and
\* each file it names is staged for one of them and was never a bundle.
Found(q) ==
    /\ q.name # q.to /\ q.name \in Names /\ q.to \in Names
    /\ \A i \in Ids : q.shot[i].name # None <=> rows[i].name = q.name
    /\ \A i \in Ids : q.shot[i].name # None => Present(i) /\ rows[i].version = q.shot[i].version
    /\ \A i \in Ids : q.map[i] # None =>
         /\ q.shot[i].name # None
         /\ q.map[i] \in Ids /\ ~Once(q.map[i])
         /\ [of |-> i, to |-> q.to, as |-> q.map[i]] \in offers
    /\ \A i, j \in Ids : q.map[i] # None /\ q.map[i] = q.map[j] => i = j

LEMMA CommitFinds ==
    ASSUME IInv, LInv, NEW r \in Slots, CommitRename(r), Renames(r)
    PROVE  Found(reqs[r])
<1> DEFINE q == reqs[r]
<1>1. Good(q) /\ LineOK(q) /\ q.pc = "check"
  BY DEF IInv, Requests, LInv, CommitRename
<1>2. q.name # q.to /\ q.name \in Names /\ q.to \in Names /\ Read(q) /\ Offered(q.map, q.to)
  BY <1>1 DEF Good, LineOK
<1>3. \A i \in Ids : q.shot[i].name # None <=> rows[i].name = q.name
  BY DEF Renames, Named
<1>4. \A i \in Ids : q.shot[i].name # None => Present(i) /\ rows[i].version = q.shot[i].version
  <2>1. q.name # None
    BY <1>2, ConstantsAssumption
  <2> QED  BY <1>1, <1>3, <2>1 DEF Present, LineOK
<1>5. ASSUME NEW i \in Ids, q.map[i] # None
      PROVE  /\ q.shot[i].name # None
             /\ q.map[i] \in Ids /\ ~Once(q.map[i])
             /\ [of |-> i, to |-> q.to, as |-> q.map[i]] \in offers
  <2>1. q.shot[i].name # None /\ Present(i)
    BY <1>2, <1>4, <1>5 DEF Read
  <2>2. [of |-> i, to |-> q.to, as |-> q.map[i]] \in offers
    BY <1>2, <1>5 DEF Offered
  <2>3. ~Once(q.map[i])
    BY <2>1, <2>2 DEF LInv, OffersLine
  <2>4. q.map[i] \in Ids
    BY <1>1, <1>5 DEF Good, Sealed, Used
  <2> QED  BY <2>1, <2>2, <2>3, <2>4
<1>6. ASSUME NEW i \in Ids, NEW j \in Ids, q.map[i] # None, q.map[i] = q.map[j]
      PROVE  i = j
  <2>1. PICK o \in offers : o.of = i /\ o.as = q.map[i]
    BY <1>5, <1>6
  <2>2. PICK p \in offers : p.of = j /\ p.as = q.map[j]
    BY <1>5, <1>6
  <2> QED  BY <1>6, <2>1, <2>2 DEF LInv, OffersLine
<1> QED  BY <1>2, <1>3, <1>4, <1>5, <1>6 DEF Found

\* The table afterwards, row by row.
LEMMA CommitRows ==
    ASSUME IInv, LInv, NEW r \in Slots, CommitRename(r), Renames(r), NEW i \in Ids
    PROVE  LET q == reqs[r] IN
             /\ \A k \in Ids : q.map[k] = i => rows'[i].name = q.to /\ rows'[i].version = q.shot[k].version
             /\ q.map[i] # None => rows'[i].name = None
             /\ q.map[i] = None /\ q.shot[i].name # None =>
                  rows'[i].name = q.to /\ rows'[i].version = q.shot[i].version
             /\ q.shot[i].name = None /\ (\A k \in Ids : q.map[k] # i) => rows'[i] = rows[i]
<1> DEFINE q == reqs[r]
<1>1. Found(q)
  BY CommitFinds
<1>2. rows'[i] = RenamedRow(r, i)
  BY DEF CommitRename
<1>3. \A n, v, c : Row(i, n, v, c).name = n /\ Row(i, n, v, c).version = v
  BY DEF Row
<1>4. i # None /\ NoRow.name = None
  BY ConstantsAssumption DEF NoRow, Row
<1>5. CASE \E k \in Ids : q.map[k] = i
  <2>1. PICK k \in Ids : q.map[k] = i
    BY <1>5
  <2>2. ~Once(i)
    BY <1>1, <1>4, <2>1 DEF Found
  <2>3. q.shot[i].name = None /\ q.map[i] = None
    BY <1>1, <2>2 DEF Found, Once
  <2>4. \A j \in Ids : q.map[j] = i => j = k
    BY <1>1, <1>4, <2>1 DEF Found
  <2> DEFINE c == CHOOSE j \in Ids : q.map[j] = i
  <2>5. c \in Ids /\ q.map[c] = i
    BY <1>5
  <2>6. rows'[i] = Row(i, q.to, q.shot[c].version, IF c = i THEN q.shot[c].sha ELSE q.got[c])
    BY <1>2, <1>5, <2>3 DEF RenamedRow
  <2> HIDE DEF c
  <2>7. rows'[i].name = q.to /\ rows'[i].version = q.shot[k].version
    BY <1>3, <2>4, <2>5, <2>6
  <2> QED  BY <2>1, <2>3, <2>4, <2>7
<1>6. CASE ~\E k \in Ids : q.map[k] = i
  <2>1. CASE q.map[i] # None
    <3>1. rows'[i] = NoRow
      BY <1>2, <1>6, <2>1 DEF RenamedRow
    <3>2. q.shot[i].name # None
      BY <1>1, <2>1 DEF Found
    <3> QED  BY <1>4, <1>6, <2>1, <3>1, <3>2
  <2>2. CASE q.map[i] = None /\ q.shot[i].name # None
    <3>1. rows'[i].name = q.to /\ rows'[i].version = q.shot[i].version
      BY <1>2, <1>3, <1>6, <2>2 DEF RenamedRow
    <3> QED  BY <1>6, <2>2, <3>1
  <2>3. CASE q.map[i] = None /\ q.shot[i].name = None
    <3>1. rows'[i] = rows[i]
      BY <1>2, <1>6, <2>3 DEF RenamedRow
    <3> QED  BY <1>6, <2>3, <3>1
  <2> QED  BY <2>1, <2>2, <2>3
<1> QED  BY <1>5, <1>6

LEMMA CommitLine ==
    ASSUME IInv, LInv, NEW r \in Slots, CommitRename(r)
    PROVE  LInv'
<1> DEFINE q == reqs[r]
           In(i) == \E k \in Ids : q.map[k] # None /\ q.map[k] = i
<1>1. UNCHANGED <<content, offers>> /\ Answer(r)
  BY DEF CommitRename
<1>2. CASE ~Renames(r)
  <2>1. \A i \in Used : i \in Used' /\ Narrow(i)
    BY <1>1, <1>2, RestNarrow DEF CommitRename, table
  <2> QED  BY <1>1, <2>1, AnswerLine
<1>3. CASE Renames(r)
  <2>1. Found(q)
    BY <1>3, CommitFinds
  <2>2. reqs'[r] = IdleReq /\ \A x \in Slots \ {r} : reqs'[x] = reqs[x]
    BY <1>1 DEF IInv, Requests, Answer
  <2>3. ~Making(IdleReq) /\ (\A i : ~HadBy(IdleReq, i)) /\ Harmless(IdleReq)
    BY DEF Making, HadBy, IdleReq, Harmless
  <2>4. ASSUME NEW i \in Ids, ~In(i) PROVE Narrow(i)
    <3>1. i # None /\ q.to # None
      BY <2>1, ConstantsAssumption DEF Found
    <3>2. CASE q.map[i] # None
      BY <1>3, <3>2, CommitRows DEF Narrow, Present
    <3>3. CASE q.map[i] = None /\ q.shot[i].name # None
      <4>1. rows'[i].version = rows[i].version /\ Present(i)
        BY <1>3, <2>1, <3>3, CommitRows DEF Found
      <4> QED  BY <4>1 DEF Narrow
    <3>4. CASE q.shot[i].name = None
      <4>1. rows'[i] = rows[i]
        BY <1>3, <2>4, <3>1, <3>4, CommitRows
      <4> QED  BY <4>1 DEF Narrow, Present
    <3> QED  BY <3>2, <3>3, <3>4
  <2>5. ASSUME NEW i, In(i) PROVE ~Once(i) /\ i \in Ids
    BY <2>1, <2>5 DEF Found
  <2>6. ASSUME NEW i \in Ids, Once(i)', ~In(i) PROVE Once(i)
    <3>1. CASE Present(i)'
      BY <2>4, <2>6, <3>1 DEF Narrow, Once
    <3>2. CASE \E o \in offers' : o.of = i
      BY <1>1, <3>2 DEF Once
    <3>3. ASSUME NEW x \in Slots, HadBy(reqs[x], i)' PROVE Once(i)
      <4>1. HadBy(reqs'[x], i)
        BY <3>3 DEF HadBy
      <4> QED  BY <2>2, <2>3, <4>1 DEF Once
    <3> QED  BY <2>6, <3>1, <3>2, <3>3 DEF Once
  <2>7. Used' = Used
    BY <1>1 DEF Used
  <2>8. ASSUME NEW o \in offers PROVE o.of \in Used /\ (Once(o.as)' => ~Present(o.of)')
    <3>1. o.of \in Used /\ o.of \in Ids /\ o.as \in Ids /\ (Once(o.as) => ~Present(o.of))
      BY DEF LInv, OffersLine, IInv, Tables, Sealed, Used
    <3>2. Once(o.of)
      BY DEF Once
    <3>3. ~In(o.of) /\ Narrow(o.of)
      BY <2>4, <2>5, <3>1, <3>2
    <3>4. CASE In(o.as)
      <4>1. PICK k \in Ids : q.map[k] # None /\ q.map[k] = o.as
        BY <3>4
      <4>2. PICK p \in offers : p.of = k /\ p.as = o.as
        BY <2>1, <4>1 DEF Found
      <4>3. o.of = k
        BY <4>2 DEF LInv, OffersLine
      <4>4. rows'[k].name = None
        BY <1>3, <4>1, CommitRows
      <4> QED  BY <3>1, <4>3, <4>4 DEF Present
    <3>5. CASE ~In(o.as)
      BY <2>6, <3>1, <3>3, <3>5 DEF Narrow
    <3> QED  BY <3>1, <3>4, <3>5
  <2>9. OffersLine'
    BY <1>1, <2>7, <2>8 DEF LInv, OffersLine
  <2>10. MakersApart'
    <3> SUFFICES ASSUME NEW x \in Slots, NEW y \in Slots, Making(reqs'[x]), Making(reqs'[y]), reqs'[x].id = reqs'[y].id
                 PROVE  x = y
      BY DEF MakersApart, Making
    <3> QED  BY <2>2, <2>3 DEF LInv, MakersApart
  <2>11. ASSUME NEW x \in Slots PROVE LineOK(reqs[x])'
    <3>1. PICK w : w = reqs'[x]
      OBVIOUS
    <3>2. CASE x = r
      BY <2>2, <2>3, <3>2 DEF LineOK, Making, Harmless
    <3>3. CASE x # r
      <4>1. w = reqs[x] /\ LineOK(w) /\ Good(w)
        BY <2>2, <3>1, <3>3 DEF LInv, IInv, Requests
      <4>2. Making(w) => w.id \in Ids /\ ~In(w.id)
        <5>1. Making(w) => w.id \in Ids /\ \A o \in offers : o.as # w.id
          BY <4>1 DEF LineOK, Making, Good, Used
        <5> QED  BY <2>1, <5>1 DEF Found
      <4>3. Making(w) => ~Once(w.id)' /\ \A o \in offers' : o.as # w.id
        BY <1>1, <2>6, <4>1, <4>2 DEF LineOK
      <4>4. w.pc \in {"check", "staged"} =>
              \A i \in Ids : w.shot[i].name # None /\ Present(i)' => rows'[i].version = w.shot[i].version
        <5> SUFFICES ASSUME w.pc \in {"check", "staged"}, NEW i \in Ids, w.shot[i].name # None, Present(i)'
                     PROVE  rows'[i].version = w.shot[i].version
          OBVIOUS
        <5>1. Once(i)
          BY <4>1 DEF HadBy, Once
        <5>2. Narrow(i)
          BY <2>4, <2>5, <5>1
        <5> QED  BY <4>1, <5>2 DEF Narrow, LineOK
      <4>5. LineOK(w)'
        BY <1>1, <2>7, <4>1, <4>3, <4>4 DEF LineOK, Making, Offered
      <4> QED  BY <3>1, <4>5 DEF LineOK, Making, Offered
    <3> QED  BY <3>2, <3>3
  <2> QED  BY <2>9, <2>10, <2>11 DEF LInv
<1> QED  BY <1>2, <1>3

LEMMA LineInductive == IInv /\ LInv /\ [Next]_vars => LInv'
<1> SUFFICES ASSUME IInv, LInv, [Next]_vars PROVE LInv'
  OBVIOUS
<1>1. ASSUME NEW r \in Slots, RequestStep(r) PROVE LInv'
  BY <1>1, PlainLine, InsertLine, MintLine, StagedLine, ReadLine, CommitLine DEF RequestStep
<1>2. ASSUME NEW r \in Slots, Request(r) \/ HangUp(r) PROVE LInv'
  BY <1>2, RequestsLine, HangUpLine
<1>3. CASE SweepStep \/ Poll \/ (\E i \in Ids : FileAges(i)) \/ UNCHANGED vars
  <2>1. UNCHANGED <<rows, content, offers, reqs>>
    BY <1>3 DEF SweepStep, SweepList, SweepRows, SweepEnd, SweepDelete, SweepFails, Poll, FileAges, vars, table
  <2>2. Used' = Used /\ (\A i : Present(i)' <=> Present(i)) /\ \A i : Once(i)' <=> Once(i)
    BY <2>1 DEF Used, Present, Once, HadBy
  <2> QED  BY <2>1, <2>2 DEF LInv, OffersLine, MakersApart, LineOK, Making, Offered
<1>4. CASE Stop
  <2>1. UNCHANGED <<rows, content, offers>> /\ reqs' = [r \in Slots |-> IdleReq]
    BY <1>4 DEF Stop, table
  <2>2. ~Making(IdleReq) /\ (\A i : ~HadBy(IdleReq, i)) /\ Harmless(IdleReq)
    BY DEF Making, HadBy, IdleReq, Harmless
  <2>3. \A r \in Slots : reqs'[r] = IdleReq
    BY <2>1
  <2>4. Used' = Used /\ \A i : Present(i)' <=> Present(i)
    BY <2>1 DEF Used, Present
  <2>5. \A i : Once(i)' => Once(i)
    <3>1. \A i : \A r \in Slots : ~HadBy(reqs'[r], i)
      BY <2>2, <2>3
    <3> QED  BY <2>1, <2>4, <3>1 DEF Once, HadBy
  <2>6. OffersLine'
    BY <2>1, <2>4, <2>5 DEF LInv, OffersLine
  <2>7. MakersApart'
    BY <2>2, <2>3 DEF MakersApart, Making
  <2>8. \A r \in Slots : LineOK(reqs[r])'
    BY <2>2, <2>3 DEF LineOK, Making, Harmless
  <2> QED  BY <2>6, <2>7, <2>8 DEF LInv
<1> QED  BY <1>1, <1>2, <1>3, <1>4 DEF Next

LEMMA InitLine == Init => LInv
<1> SUFFICES ASSUME Init PROVE LInv
  OBVIOUS
<1>1. offers = {} /\ \A r \in Slots : reqs[r] = IdleReq
  BY DEF Init
<1>2. ~Making(IdleReq) /\ Harmless(IdleReq)
  BY DEF Making, IdleReq, Harmless
<1> QED  BY <1>1, <1>2 DEF LInv, OffersLine, MakersApart, LineOK, Making, Harmless

\* A commit: the old name is empty, and each group carries the same versions.
LEMMA CommitCarries ==
    ASSUME IInv, SInv, LInv, NEW r \in Slots, CommitRename(r), rows' # rows,
           NEW n \in Names, NEW m \in Names, reqs[r].name = n, reqs[r].to = m
    PROVE  /\ Named(n)' = {}
           /\ \A g \in Groups : Carried(g, m)' = Carried(g, n)
<1> DEFINE q == reqs[r]
           To(i) == IF q.map[i] # None THEN q.map[i] ELSE i
<1>n. n = q.name /\ m = q.to
  OBVIOUS
<1>1. Renames(r)
  BY DEF CommitRename, table
<1>2. Found(q)
  BY <1>1, CommitFinds
<1>3. n # m /\ n # None /\ m # None
  BY <1>n, <1>2, ConstantsAssumption DEF Found
<1>4. \A i \in Ids : rows[i].name # m
  BY <1>n, <1>1 DEF Renames, Named
<1>5. ASSUME NEW i \in Ids PROVE rows'[i].name # n
  <2>1. CASE \E k \in Ids : q.map[k] = i
    BY <1>n, <1>1, <1>3, <2>1, CommitRows
  <2>2. CASE q.map[i] # None
    BY <1>1, <1>3, <2>2, CommitRows
  <2>3. CASE q.map[i] = None /\ q.shot[i].name # None
    BY <1>n, <1>1, <1>3, <2>3, CommitRows
  <2>4. CASE q.shot[i].name = None /\ \A k \in Ids : q.map[k] # i
    <3>1. rows'[i] = rows[i]
      BY <1>1, <2>4, CommitRows
    <3>2. rows[i].name # n
      BY <1>n, <1>2, <2>4 DEF Found
    <3> QED  BY <3>1, <3>2
  <2> QED  BY <2>1, <2>2, <2>3, <2>4
<1>6. ASSUME NEW i \in Ids, Present(i)
      PROVE  /\ rows'[To(i)].name = m <=> rows[i].name = n
             /\ rows[i].name = n => rows'[To(i)].version = rows[i].version
  <2>1. CASE rows[i].name = n
    <3>1. q.shot[i].name # None /\ rows[i].version = q.shot[i].version
      BY <1>n, <1>2, <2>1 DEF Found
    <3>2. CASE q.map[i] # None
      <4>1. PICK j \in Ids : j = q.map[i]
        BY <1>2, <3>2 DEF Found
      <4>2. rows'[j].name = m /\ rows'[j].version = q.shot[i].version
        BY <1>n, <1>1, <4>1, CommitRows
      <4> QED  BY <2>1, <3>1, <3>2, <4>1, <4>2
    <3>3. CASE q.map[i] = None
      <4>1. rows'[i].name = m /\ rows'[i].version = q.shot[i].version
        BY <1>n, <1>1, <3>1, <3>3, CommitRows
      <4> QED  BY <2>1, <3>1, <3>3, <4>1
    <3> QED  BY <3>2, <3>3
  <2>2. CASE rows[i].name # n
    <3>1. q.shot[i].name = None /\ q.map[i] = None
      BY <1>n, <1>2, <2>2 DEF Found
    <3>2. \A k \in Ids : q.map[k] # i
      BY <1>2, <1>6, ConstantsAssumption DEF Found, Once
    <3>3. rows'[i] = rows[i]
      BY <1>1, <3>1, <3>2, CommitRows
    <3> QED  BY <1>4, <2>2, <3>1, <3>3
  <2> QED  BY <2>1, <2>2
<1>7. assigned' = {<<a[1], To(a[2])>> : a \in assigned}
  BY <1>1 DEF CommitRename
<1>8. \A a \in assigned : a[2] \in Ids /\ Present(a[2])
  BY DEF SInv, Assigns
<1> HIDE DEF To
<1>9. ASSUME NEW g \in Groups, NEW v, v \in Carried(g, n)
      PROVE  \E b \in assigned' : b[1] = g /\ rows'[b[2]].name = m /\ v = rows'[b[2]].version
  <2>1. PICK a \in assigned : a[1] = g /\ rows[a[2]].name = n /\ v = rows[a[2]].version
    BY <1>9 DEF Carried
  <2>2. PICK b : b = <<a[1], To(a[2])>>
    OBVIOUS
  <2>3. b \in assigned' /\ b[1] = a[1] /\ b[2] = To(a[2])
    BY <1>7, <2>2
  <2> QED  BY <1>6, <1>8, <2>1, <2>3
<1>10. ASSUME NEW g \in Groups, NEW b \in assigned', b[1] = g, rows'[b[2]].name = m
       PROVE  rows'[b[2]].version \in Carried(g, n)
  <2>1. PICK a \in assigned : b = <<a[1], To(a[2])>>
    BY <1>7
  <2>2. a[1] = g /\ b[2] = To(a[2])
    BY <1>10, <2>1
  <2>3. rows[a[2]].name = n /\ rows'[b[2]].version = rows[a[2]].version
    BY <1>6, <1>8, <1>10, <2>2
  <2> QED  BY <2>2, <2>3 DEF Carried
<1>11. \A g \in Groups : {rows'[b[2]].version : b \in {c \in assigned' : c[1] = g /\ rows'[c[2]].name = m}} = Carried(g, n)
  BY <1>9, <1>10
<1>12. \A g \in Groups : Carried(g, m)' = Carried(g, n)
  BY <1>11 DEF Carried
<1>13. Named(n)' = {}
  BY <1>5 DEF Named
<1> QED  BY <1>12, <1>13

\* A rename is all or nothing, whatever is uploaded, re-sealed, deleted or
\* assigned between its reads and its commit (bundles/rename.rs and
\* BundlesRepo::rename): the transaction compares ids only, and it may, since
\* no id comes back with another version.
THEOREM RenamesAreWhole == Spec => RenameWhole
<1>1. Init => SInv
  BY DEF Init, SInv, Assigns, ServedHasRow
<1> DEFINE Whole == \A r \in Slots, n, m \in Names :
                      CommitRename(r) /\ rows' # rows /\ reqs[r].name = n /\ reqs[r].to = m =>
                        /\ Named(n)' = {}
                        /\ \A g \in Groups : Carried(g, m)' = Carried(g, n)
<1>2. IInv /\ SInv /\ LInv /\ [Next]_vars => [Whole]_vars
  <2> SUFFICES ASSUME IInv, SInv, LInv, NEW r \in Slots, NEW n \in Names, NEW m \in Names,
                      CommitRename(r), rows' # rows, reqs[r].name = n, reqs[r].to = m
               PROVE  Named(n)' = {} /\ \A g \in Groups : Carried(g, m)' = Carried(g, n)
    OBVIOUS
  <2> QED  BY CommitCarries
<1> QED  BY InitIInv, Inductive, ServedInductive, InitLine, LineInductive, <1>1, <1>2, PTL DEF Spec, RenameWhole
===============================================================================
