---------------------------- MODULE AccountsProofs ----------------------------
(***************************************************************************)
(* Proofs about Accounts, for any addresses, tenants, links and request    *)
(* slots: the tables keep their types, no tenant loses its owner, a block  *)
(* holds, and no platform request takes the platform's last admin unless   *)
(* a second one overlaps it.                                               *)
(*                                                                         *)
(* The argument: a request that is about to delete or re-role row i of     *)
(* tenant t does not name an owner (SafeInv).  What could make it name one *)
(* is an owner created at a freed id, so a tenant whose owner is still to  *)
(* be created must not be in use by any request (FoundInv), and a tenant   *)
(* that does not exist yet is not in use either (TenantInv).  Blocks need  *)
(* the types alone; the platform's admin needs that a platform request     *)
(* never is about its own caller's row (SelfInv).                          *)
(***************************************************************************)
EXTENDS Accounts, FiniteSetTheorems, TLAPS

\* q will delete or re-role a row, perhaps after its link was not mailed.
Armed(q) == \/ q.pc \in {"set_role", "delete", "rollback"}
            \/ q.pc = "link" /\ q.ask.op = "invite"

\* q has read a user of tenant t and acts in t on the strength of it.
Uses(q, t) == \/ q.pc \in {"handle", "create"} /\ q.home = t
              \/ Armed(q) /\ q.tenant = t

\* q is about to create the owner of tenant t.
Founds(q, t) == /\ q.pc = "owner" \/ (q.pc = "audit" /\ q.then = "owner")
                /\ q.ask.tenant = t

OwnerRow(t, i) == InTenant(t, i) /\ users[i].role = "owner"

TenantInv ==
    /\ \A i \in Ids : Present(i) => users[i].tenant \in tenants
    /\ \A r \in Slots, t \in Tenants : Uses(reqs[r], t) \/ Founds(reqs[r], t) => t \in tenants

FoundInv == \A r \in Slots, t \in Tenants : Founds(reqs[r], t) =>
    /\ \A i \in Ids : ~InTenant(t, i)
    /\ \A o \in Slots : ~Uses(reqs[o], t) /\ (Founds(reqs[o], t) => o = r)

SafeInv == \A r \in Slots : Armed(reqs[r]) => ~OwnerRow(reqs[r].tenant, reqs[r].id)

OneOwner == \A t \in Tenants : \A i, j \in Ids : OwnerRow(t, i) /\ OwnerRow(t, j) => i = j

\* A request that makes a tenant or its owner is no invitation.
OpOK(q) == \/ q.pc \in {"tenant", "owner", "grant_owner"}
           \/ q.pc = "audit" /\ q.then = "owner"
           => q.ask.op \in {"signup", "create_tenant"}
OpInv == \A r \in Slots : OpOK(reqs[r])

SysInv == TenantInv /\ FoundInv /\ SafeInv /\ OneOwner /\ OpInv
IInv   == TypeOK /\ SysInv

\* Every owner is still one after the step.
Stands == \A t \in Tenants : Owners(t) \subseteq Owners(t)'

USE ConstantsAssumption

-----------------------------------------------------------------------------
LEMMA Defaults == /\ 1 \in Ids /\ SomeTenant \in Tenants /\ NoRow \in UserRows
                  /\ NoLink \in LinkRows /\ NoAsk \in Asks /\ IdleReq \in Requesting
<1>1. 1 \in Ids /\ SomeTenant \in Tenants  BY DEF Ids, SomeTenant
<1>2. NoRow \in UserRows  BY <1>1 DEF NoRow, UserRows, Roles, Assignable
<1>3. NoLink \in LinkRows  BY <1>1 DEF NoLink, LinkRows
<1>4. NoAsk \in Asks  BY <1>1 DEF NoAsk, Asks, Switch, Assignable
<1>5. IdleReq \in Requesting  BY <1>1, <1>4 DEF IdleReq, Requesting, Pcs
<1> QED  BY <1>1, <1>2, <1>3, <1>4, <1>5

\* A request that neither uses nor founds a tenant.
Plain(q) ==
    /\ q.pc \notin {"handle", "create", "set_role", "delete", "rollback", "owner"}
    /\ q.pc = "audit" => q.then # "owner"
    /\ q.pc = "link" => q.ask.op # "invite"
    /\ q.pc \in {"tenant", "grant_owner"} => q.ask.op \in {"signup", "create_tenant"}

LEMMA PlainIdle == Plain(IdleReq)
BY DEF Plain, IdleReq

\* No row is new and no row newly an owner.
Shrinks == \A i \in Ids : users'[i].person # None =>
    /\ users[i].person # None /\ users'[i].tenant = users[i].tenant
    /\ users'[i].role = "owner" => users[i].role = "owner"

\* One request moves to q, which uses and founds only what it did before or
\* a tenant that has users, and is not armed against an owner.
LEMMA MoveStep ==
    ASSUME IInv, NEW r \in Slots, NEW q \in Requesting,
           reqs' = [reqs EXCEPT ![r] = q], tenants' = tenants, Shrinks,
           \A t \in Tenants : Founds(q, t) => Founds(reqs[r], t),
           \A t \in Tenants : Uses(q, t) => Uses(reqs[r], t) \/ \E i \in Ids : InTenant(t, i),
           Armed(q) => ~OwnerRow(q.tenant, q.id), OpOK(q)
    PROVE  SysInv'
<1> USE DEF IInv, SysInv
<1>0. /\ reqs \in [Slots -> Requesting] /\ reqs' \in [Slots -> Requesting]
      /\ reqs'[r] = q /\ \A o \in Slots : o # r => reqs'[o] = reqs[o]
  BY DEF TypeOK
<1>1. /\ \A t \in Tenants, i \in Ids : InTenant(t, i)' => InTenant(t, i)
      /\ \A t \in Tenants, i \in Ids : OwnerRow(t, i)' => OwnerRow(t, i)
  BY DEF Shrinks, InTenant, Present, OwnerRow
<1>2. TenantInv'
  <2>1. (\A i \in Ids : Present(i) => users[i].tenant \in tenants)'
    BY DEF Shrinks, Present, TenantInv
  <2>2. ASSUME NEW o \in Slots, NEW t \in Tenants, Uses(reqs'[o], t) \/ Founds(reqs'[o], t)
        PROVE  t \in tenants
    <3>1. CASE o = r
      <4>1. CASE Uses(reqs[r], t) \/ Founds(reqs[r], t)  BY <4>1 DEF TenantInv
      <4>2. CASE \E i \in Ids : InTenant(t, i)  BY <4>2 DEF TenantInv, InTenant
      <4> QED  BY <2>2, <3>1, <1>0, <4>1, <4>2
    <3>2. CASE o # r  BY <2>2, <3>2, <1>0 DEF TenantInv
    <3> QED  BY <3>1, <3>2
  <2> QED  BY <2>1, <2>2 DEF TenantInv, Uses, Founds, Armed
<1>3. FoundInv'
  <2> SUFFICES ASSUME NEW o \in Slots, NEW t \in Tenants, Founds(reqs'[o], t)
               PROVE  /\ \A i \in Ids : ~InTenant(t, i)'
                      /\ \A p \in Slots : ~Uses(reqs'[p], t) /\ (Founds(reqs'[p], t) => p = o)
    BY DEF FoundInv, Founds, Uses, Armed
  <2>1. Founds(reqs[o], t)  BY <1>0
  <2>2. /\ \A i \in Ids : ~InTenant(t, i)
        /\ \A p \in Slots : ~Uses(reqs[p], t) /\ (Founds(reqs[p], t) => p = o)
    BY <2>1 DEF FoundInv
  <2>3. \A p \in Slots : Founds(reqs'[p], t) => Founds(reqs[p], t)  BY <1>0
  <2>4. \A p \in Slots : Uses(reqs'[p], t) => Uses(reqs[p], t) \/ \E i \in Ids : InTenant(t, i)
    BY <1>0
  <2> QED  BY <2>2, <2>3, <2>4, <1>1
<1>4. SafeInv'
  <2> SUFFICES ASSUME NEW o \in Slots, Armed(reqs'[o]), NEW t \in Tenants, NEW i \in Ids,
                      t = reqs'[o].tenant, i = reqs'[o].id
               PROVE  ~OwnerRow(t, i)'
    BY <1>0 DEF SafeInv, Armed, OwnerRow, InTenant, Present, Requesting
  <2>1. CASE o = r  BY <2>1, <1>0, <1>1
  <2>2. CASE o # r  BY <2>2, <1>0, <1>1 DEF SafeInv
  <2> QED  BY <2>1, <2>2
<1>5. OneOwner'  BY <1>1 DEF OneOwner, OwnerRow, InTenant, Present
<1>6. OpInv'  BY <1>0 DEF OpInv, OpOK
<1> QED  BY <1>2, <1>3, <1>4, <1>5, <1>6

LEMMA PlainStep ==
    ASSUME IInv, NEW r \in Slots, NEW q \in Requesting, Plain(q),
           reqs' = [reqs EXCEPT ![r] = q], tenants' = tenants, Shrinks
    PROVE  SysInv'
<1>1. \A t \in Tenants : ~Founds(q, t) /\ ~Uses(q, t)  BY DEF Plain, Founds, Uses, Armed
<1>2. ~Armed(q) /\ OpOK(q)  BY DEF Plain, Armed, OpOK
<1> QED  BY <1>1, <1>2, MoveStep

LEMMA SameUsers == ASSUME users' = users PROVE Shrinks /\ Stands
BY DEF Shrinks, Stands, Owners, InTenant, Present

-----------------------------------------------------------------------------
(* Steps that leave users and tenants alone.                               *)

Kept == IInv' /\ Stands

Tables == <<tenants, users, sessions, links, keys, audit, restarts>>

LEMMA QuietStep ==
    ASSUME IInv, NEW r \in Slots, NEW q \in Requesting, Plain(q),
           reqs' = [reqs EXCEPT ![r] = q], UNCHANGED Tables
    PROVE  Kept
<1>1. TypeOK'  BY DEF IInv, TypeOK, Tables
<1>2. SysInv' /\ Stands  BY PlainStep, SameUsers DEF Tables
<1> QED  BY <1>1, <1>2 DEF Kept, IInv

LEMMA AnswerStep ==
    ASSUME IInv, NEW r \in Slots, Answer(r), UNCHANGED Tables
    PROVE  Kept
BY Defaults, PlainIdle, QuietStep DEF Answer

LEMMA ReqType ==
    ASSUME IInv, NEW r \in Slots
    PROVE  /\ reqs[r] \in Requesting /\ reqs[r].pc \in Pcs /\ reqs[r].ask \in Asks
           /\ reqs[r].by \in Ids /\ reqs[r].home \in Tenants /\ reqs[r].tenant \in Tenants
           /\ reqs[r].id \in Ids /\ reqs[r].holder \in Persons \cup {None}
           /\ reqs[r].then \in {"idle", "flag", "owner"}
BY DEF IInv, TypeOK, Requesting

LEMMA AskType ==
    ASSUME NEW a \in Asks
    PROVE  /\ a.tenant \in Tenants /\ a.id \in Ids /\ a.person \in Persons \cup {None}
           /\ a.role \in Assignable /\ a.block \in Switch /\ a.flag \in Switch
BY DEF Asks

LEMMA UserType ==
    ASSUME IInv, NEW i \in Ids
    PROVE  /\ users[i] \in UserRows /\ users[i].tenant \in Tenants
           /\ users[i].person \in Persons \cup {None} /\ users[i].role \in Roles
BY DEF IInv, TypeOK, UserRows

LEMMA SendLinkStep ==
    ASSUME IInv, NEW r \in Slots, NEW i \in Ids, SendLink(r, i)
    PROVE  Kept
<1> DEFINE q == [IdleReq EXCEPT !.pc = "link", !.tenant = users[i].tenant,
                                !.id = i, !.holder = users[i].person]
<1>1. q \in Requesting  BY UserType, Defaults DEF Requesting, Pcs
<1>2. Plain(q)  BY DEF Plain, IdleReq, NoAsk
<1>3. reqs' = [reqs EXCEPT ![r] = q] /\ UNCHANGED Tables  BY DEF SendLink, Tables
<1> HIDE DEF q
<1> QED  BY <1>1, <1>2, <1>3, QuietStep

\* A request whose mutation is audited next founds nothing.
LEMMA RecordPlain ==
    ASSUME IInv, NEW r \in Slots, NEW t \in Tenants, NEW pc \in {"idle", "flag"}
    PROVE  /\ [reqs[r] EXCEPT !.pc = "audit", !.tenant = t, !.then = pc] \in Requesting
           /\ Plain([reqs[r] EXCEPT !.pc = "audit", !.tenant = t, !.then = pc])
BY ZenonT(60), ReqType DEF Requesting, Pcs, Plain

\* A move to a pc that uses and founds nothing.
LEMMA GoToPlain ==
    ASSUME IInv, NEW r \in Slots,
           NEW pc \in Pcs \ {"handle", "create", "set_role", "delete", "rollback", "owner",
                            "audit", "link", "tenant", "grant_owner"}
    PROVE  /\ [reqs[r] EXCEPT !.pc = pc] \in Requesting
           /\ Plain([reqs[r] EXCEPT !.pc = pc])
BY ReqType DEF Requesting, Plain

LEMMA RecordStep ==
    ASSUME IInv, NEW r \in Slots, NEW t \in Tenants, NEW pc \in {"idle", "flag"},
           Record(r, t, pc), tenants' = tenants, Shrinks
    PROVE  SysInv' /\ reqs' \in [Slots -> Requesting]
<1> DEFINE q == [reqs[r] EXCEPT !.pc = "audit", !.tenant = t, !.then = pc]
<1>1. q \in Requesting /\ Plain(q)  BY RecordPlain
<1>2. reqs' = [reqs EXCEPT ![r] = q]  BY DEF Record
<1> HIDE DEF q
<1>3. reqs' \in [Slots -> Requesting]  BY <1>1, <1>2 DEF IInv, TypeOK
<1> QED  BY <1>1, <1>2, <1>3, PlainStep

LEMMA GoToStep ==
    ASSUME IInv, NEW r \in Slots,
           NEW pc \in Pcs \ {"handle", "create", "set_role", "delete", "rollback", "owner",
                            "audit", "link", "tenant", "grant_owner"},
           GoTo(r, pc), tenants' = tenants, Shrinks
    PROVE  SysInv' /\ reqs' \in [Slots -> Requesting]
<1> DEFINE q == [reqs[r] EXCEPT !.pc = pc]
<1>1. q \in Requesting /\ Plain(q)  BY GoToPlain
<1>2. reqs' = [reqs EXCEPT ![r] = q]  BY DEF GoTo
<1> HIDE DEF q
<1>3. reqs' \in [Slots -> Requesting]  BY <1>1, <1>2 DEF IInv, TypeOK
<1> QED  BY <1>1, <1>2, <1>3, PlainStep

LEMMA AnswerMove ==
    ASSUME IInv, NEW r \in Slots, Answer(r), tenants' = tenants, Shrinks
    PROVE  SysInv' /\ reqs' \in [Slots -> Requesting]
<1>1. reqs' \in [Slots -> Requesting]  BY Defaults DEF Answer, IInv, TypeOK
<1>2. SysInv'  BY Defaults, PlainIdle, PlainStep DEF Answer
<1> QED  BY <1>1, <1>2

\* The link's outcome: done, audited, or, for an invitation, rolled back.
LEMMA AfterLinkStep ==
    ASSUME IInv, NEW r \in Slots, NEW ok \in BOOLEAN, reqs[r].pc = "link", AfterLink(r, ok),
           tenants' = tenants, users' = users
    PROVE  SysInv' /\ reqs' \in [Slots -> Requesting]
<1>0. Shrinks  BY SameUsers
<1>1. CASE reqs[r].ask.op = "invite" /\ ~ok
  <2> DEFINE q == [reqs[r] EXCEPT !.pc = "rollback"]
  <2>1. q \in Requesting  BY ReqType DEF Requesting, Pcs
  <2>2. q.pc = "rollback" /\ q.tenant = reqs[r].tenant /\ q.id = reqs[r].id
    BY ReqType DEF Requesting
  <2>3. reqs' = [reqs EXCEPT ![r] = q]  BY <1>1 DEF AfterLink, GoTo
  <2> HIDE DEF q
  <2>4. \A t \in Tenants : ~Founds(q, t) /\ (Uses(q, t) => Uses(reqs[r], t))
    BY <2>2, <1>1 DEF Founds, Uses, Armed
  <2>5. ~OwnerRow(q.tenant, q.id) /\ OpOK(q)
    BY <2>2, <1>1 DEF IInv, SysInv, SafeInv, Armed, OpOK
  <2>6. reqs' \in [Slots -> Requesting]  BY <2>1, <2>3 DEF IInv, TypeOK
  <2> QED  BY <2>1, <2>3, <2>4, <2>5, <2>6, <1>0, MoveStep
<1>2. CASE \/ reqs[r].ask.op = "invite" /\ ok
           \/ reqs[r].ask.op = "create_tenant"
  <2>1. Record(r, reqs[r].tenant, "idle")  BY <1>2 DEF AfterLink
  <2> QED  BY <2>1, <1>0, RecordStep, ReqType
<1>3. CASE reqs[r].ask.op # "invite" /\ reqs[r].ask.op # "create_tenant"
  <2>1. Answer(r)  BY <1>3 DEF AfterLink
  <2> QED  BY <2>1, <1>0, AnswerMove
<1> QED  BY <1>1, <1>2, <1>3

LEMMA MailLinkStep ==
    ASSUME IInv, NEW r \in Slots, NEW l \in Links, MailLink(r, l)
    PROVE  Kept
<1>1. SysInv' /\ reqs' \in [Slots -> Requesting]  BY AfterLinkStep DEF MailLink
<1>2. links' \in [Links -> LinkRows]
  <2> DEFINE x == [st |-> "fresh", tenant |-> reqs[r].tenant, id |-> reqs[r].id,
                   to |-> reqs[r].holder]
  <2>1. x \in LinkRows  BY ReqType DEF LinkRows
  <2>2. links' = [links EXCEPT ![l] = x]  BY DEF MailLink
  <2> HIDE DEF x
  <2> QED  BY <2>1, <2>2 DEF IInv, TypeOK
<1>3. TypeOK' /\ Stands  BY <1>1, <1>2, SameUsers DEF MailLink, IInv, TypeOK
<1> QED  BY <1>1, <1>3 DEF Kept, IInv

LEMMA MailFailsStep ==
    ASSUME IInv, NEW r \in Slots, MailFails(r)
    PROVE  Kept
<1>1. SysInv' /\ reqs' \in [Slots -> Requesting]  BY AfterLinkStep DEF MailFails
<1>3. TypeOK' /\ Stands  BY <1>1, SameUsers DEF MailFails, IInv, TypeOK
<1> QED  BY <1>1, <1>3 DEF Kept, IInv
LEMMA RedeemStep ==
    ASSUME IInv, NEW r \in Slots, NEW l \in Links, Redeem(r, l)
    PROVE  Kept
<1>0. links[l] \in LinkRows  BY DEF IInv, TypeOK
<1> DEFINE q == [IdleReq EXCEPT !.pc = "redeemed", !.tenant = links[l].tenant,
                                !.id = links[l].id, !.holder = links[l].to]
<1>1. q \in Requesting  BY <1>0, Defaults DEF Requesting, Pcs, LinkRows
<1>2. Plain(q)  BY DEF Plain, IdleReq
<1>3. reqs' = [reqs EXCEPT ![r] = q]  BY DEF Redeem
<1> HIDE DEF q
<1>4. links' \in [Links -> LinkRows]  BY <1>0 DEF Redeem, IInv, TypeOK, LinkRows
<1>5. TypeOK'  BY <1>1, <1>3, <1>4 DEF Redeem, IInv, TypeOK
<1>6. SysInv' /\ Stands  BY <1>1, <1>2, <1>3, PlainStep, SameUsers DEF Redeem
<1> QED  BY <1>5, <1>6 DEF Kept, IInv

LEMMA TypeFrom ==
    ASSUME IInv, UNCHANGED Tables, reqs' \in [Slots -> Requesting], SysInv'
    PROVE  Kept
<1>1. TypeOK'  BY DEF IInv, TypeOK, Tables
<1>2. Stands  BY SameUsers DEF Tables
<1> QED  BY <1>1, <1>2 DEF Kept, IInv

LEMMA AdmitUserStep ==
    ASSUME IInv, NEW r \in Slots, AdmitUser(r)
    PROVE  Kept
<1>1. UNCHANGED Tables  BY DEF AdmitUser, Tables
<1>2. CASE Answer(r)  BY <1>1, <1>2, AnswerStep
<1>3. CASE \E pc \in {"grant", "mint"} : GoTo(r, pc)
  <2> PICK pc \in {"grant", "mint"} : GoTo(r, pc)  BY <1>3
  <2>1. SysInv' /\ reqs' \in [Slots -> Requesting]
    BY <1>1, GoToStep, SameUsers DEF Tables, Pcs
  <2> QED  BY <1>1, <2>1, TypeFrom
<1> QED  BY <1>2, <1>3 DEF AdmitUser

LEMMA MintSessionStep ==
    ASSUME IInv, NEW r \in Slots, MintSession(r)
    PROVE  Kept
<1>1. SysInv' /\ reqs' \in [Slots -> Requesting]  BY AnswerMove, SameUsers DEF MintSession
<1>2. sessions' \subseteq (Persons \cup {None}) \X Tenants \X Ids
  BY ReqType DEF MintSession, IInv, TypeOK
<1>3. TypeOK' /\ Stands  BY <1>1, <1>2, SameUsers DEF MintSession, IInv, TypeOK
<1> QED  BY <1>1, <1>3 DEF Kept, IInv

LEMMA TouchSessionStep ==
    ASSUME IInv, NEW r \in Slots, NEW s \in sessions, TouchSession(r, s)
    PROVE  Kept
<1>0. s[1] \in Persons \cup {None} /\ s[2] \in Tenants /\ s[3] \in Ids  BY DEF IInv, TypeOK
<1> DEFINE q == [IdleReq EXCEPT !.pc = "touched", !.holder = s[1], !.home = s[2], !.by = s[3]]
<1>1. q \in Requesting  BY <1>0, Defaults DEF Requesting, Pcs
<1>2. Plain(q)  BY DEF Plain, IdleReq
<1>3. reqs' = [reqs EXCEPT ![r] = q] /\ UNCHANGED Tables  BY DEF TouchSession, Tables
<1> HIDE DEF q
<1> QED  BY <1>1, <1>2, <1>3, QuietStep

LEMMA FindKeyStep ==
    ASSUME IInv, NEW r \in Slots, NEW k \in Tenants \X Ids, FindKey(r, k)
    PROVE  Kept
<1>0. k[1] \in Tenants /\ k[2] \in Ids  OBVIOUS
<1> DEFINE q == [IdleReq EXCEPT !.pc = "touched", !.via = "key", !.home = k[1], !.by = k[2]]
<1>1. q \in Requesting  BY <1>0, Defaults DEF Requesting, Pcs
<1>2. Plain(q)  BY DEF Plain, IdleReq
<1>3. reqs' = [reqs EXCEPT ![r] = q] /\ UNCHANGED Tables  BY DEF FindKey, Tables
<1> HIDE DEF q
<1> QED  BY <1>1, <1>2, <1>3, QuietStep

\* The caller is a user of the tenant it will act in.
LEMMA IdentifyStep ==
    ASSUME IInv, NEW r \in Slots, NEW a \in Requests, Identify(r, a)
    PROVE  Kept
<1> DEFINE q == [reqs[r] EXCEPT !.pc = "handle", !.ask = a]
<1>0. a \in Asks  BY DEF Requests
<1>1. q \in Requesting /\ q.pc = "handle" /\ q.home = reqs[r].home
  BY ZenonT(60), <1>0, ReqType DEF Requesting, Pcs
<1>2. reqs' = [reqs EXCEPT ![r] = q] /\ UNCHANGED Tables  BY DEF Identify, Tables
<1> HIDE DEF q
<1>3. /\ ~Armed(q) /\ OpOK(q)
      /\ \A t \in Tenants : ~Founds(q, t) /\ (Uses(q, t) => t = reqs[r].home)
  BY <1>1 DEF Armed, Founds, Uses, OpOK
<1>4. InTenant(reqs[r].home, reqs[r].by) /\ reqs[r].by \in Ids  BY ReqType DEF Identify
<1>5. SysInv'  BY <1>1, <1>2, <1>3, <1>4, MoveStep, SameUsers DEF Tables
<1>6. reqs' \in [Slots -> Requesting]  BY <1>1, <1>2 DEF IInv, TypeOK
<1> QED  BY <1>2, <1>5, <1>6, TypeFrom

LEMMA RefuseStep ==
    ASSUME IInv, NEW r \in Slots, Refuse(r)
    PROVE  Kept
BY AnswerStep DEF Refuse, Tables

\* The row read is no owner when the request arms itself.
LEMMA ArmStep ==
    ASSUME IInv, NEW r \in Slots, NEW q \in Requesting, reqs' = [reqs EXCEPT ![r] = q],
           UNCHANGED Tables, q.pc \in {"set_role", "delete"},
           InTenant(q.tenant, q.id), users[q.id].role # "owner"
    PROVE  Kept
<1>1. \A t \in Tenants : ~Founds(q, t) /\ (Uses(q, t) => t = q.tenant)
  BY DEF Founds, Uses, Armed
<1>2. q.id \in Ids /\ ~OwnerRow(q.tenant, q.id) /\ OpOK(q)  BY DEF OwnerRow, Requesting, OpOK
<1>3. SysInv'  BY <1>1, <1>2, MoveStep, SameUsers DEF Tables
<1>4. reqs' \in [Slots -> Requesting]  BY DEF IInv, TypeOK
<1> QED  BY <1>3, <1>4, TypeFrom

LEMMA ReadMemberStep ==
    ASSUME IInv, NEW r \in Slots, ReadMember(r)
    PROVE  Kept
<1>0. UNCHANGED Tables  BY DEF ReadMember, Tables
<1> DEFINE i == reqs[r].ask.id
           q == [reqs[r] EXCEPT !.pc = IF reqs[r].ask.op = "set_role" THEN "set_role" ELSE "delete",
                                !.tenant = reqs[r].home, !.id = i]
<1>1. CASE InTenant(reqs[r].home, i) /\ users[i].role # "owner"
  <2>1. q \in Requesting  BY ZenonT(60), ReqType, AskType DEF Requesting, Pcs
  <2>2. q.pc \in {"set_role", "delete"} /\ q.tenant = reqs[r].home /\ q.id = i
    BY ReqType DEF Requesting
  <2>3. reqs' = [reqs EXCEPT ![r] = q]  BY <1>1 DEF ReadMember
  <2> HIDE DEF q
  <2> QED  BY <1>0, <1>1, <2>1, <2>2, <2>3, ArmStep
<1>2. CASE Answer(r)  BY <1>0, <1>2, AnswerStep
<1> QED  BY <1>1, <1>2 DEF ReadMember

LEMMA ReadAddressStep ==
    ASSUME IInv, NEW r \in Slots, ReadAddress(r)
    PROVE  Kept
<1>0. UNCHANGED Tables  BY DEF ReadAddress, Tables
<1>1. CASE Answer(r)  BY <1>0, <1>1, AnswerStep
<1>2. CASE GoTo(r, "create")
  <2> DEFINE q == [reqs[r] EXCEPT !.pc = "create"]
  <2>1. q \in Requesting /\ q.pc = "create" /\ q.home = reqs[r].home
    BY ReqType DEF Requesting, Pcs
  <2>2. reqs' = [reqs EXCEPT ![r] = q]  BY <1>2 DEF GoTo
  <2> HIDE DEF q
  <2>3. /\ ~Armed(q) /\ OpOK(q)
        /\ \A t \in Tenants : ~Founds(q, t) /\ (Uses(q, t) => Uses(reqs[r], t))
    BY <2>1 DEF Armed, Founds, Uses, ReadAddress, OpOK
  <2>4. SysInv'  BY <1>0, <2>1, <2>2, <2>3, MoveStep, SameUsers DEF Tables
  <2>5. reqs' \in [Slots -> Requesting]  BY <2>1, <2>2 DEF IInv, TypeOK
  <2> QED  BY <1>0, <2>4, <2>5, TypeFrom
<1> QED  BY <1>1, <1>2 DEF ReadAddress

LEMMA CountKeysStep ==
    ASSUME IInv, NEW r \in Slots, CountKeys(r)
    PROVE  Kept
<1>0. UNCHANGED Tables  BY DEF CountKeys, Tables
<1>1. CASE Answer(r)  BY <1>0, <1>1, AnswerStep
<1>2. CASE GoTo(r, "add_key")
  <2>1. SysInv' /\ reqs' \in [Slots -> Requesting]
    BY <1>0, <1>2, GoToStep, SameUsers DEF Tables, Pcs
  <2> QED  BY <1>0, <2>1, TypeFrom
<1> QED  BY <1>1, <1>2 DEF CountKeys

LEMMA AddKeyStep ==
    ASSUME IInv, NEW r \in Slots, AddKey(r)
    PROVE  Kept
<1>1. SysInv' /\ reqs' \in [Slots -> Requesting]
  BY RecordStep, AnswerMove, SameUsers, ReqType DEF AddKey
<1>2. keys' \in [Tenants \X Ids -> Nat]  BY DEF AddKey, IInv, TypeOK
<1>3. TypeOK' /\ Stands  BY <1>1, <1>2, SameUsers DEF AddKey, IInv, TypeOK
<1> QED  BY <1>1, <1>3 DEF Kept, IInv

LEMMA DeleteKeyStep ==
    ASSUME IInv, NEW r \in Slots, DeleteKey(r)
    PROVE  Kept
<1>1. SysInv' /\ reqs' \in [Slots -> Requesting]
  BY RecordStep, AnswerMove, SameUsers, ReqType DEF DeleteKey
<1>2. keys' \in [Tenants \X Ids -> Nat]  BY ReqType DEF DeleteKey, IInv, TypeOK
<1>3. TypeOK' /\ Stands  BY <1>1, <1>2, SameUsers DEF DeleteKey, IInv, TypeOK
<1> QED  BY <1>1, <1>3 DEF Kept, IInv

LEMMA LogoutEverywhereStep ==
    ASSUME IInv, NEW r \in Slots, LogoutEverywhere(r)
    PROVE  Kept
<1>1. SysInv' /\ reqs' \in [Slots -> Requesting]
  BY RecordStep, SameUsers, ReqType DEF LogoutEverywhere
<1>2. sessions' \subseteq sessions  BY DEF LogoutEverywhere
<1>3. TypeOK' /\ Stands  BY <1>1, <1>2, SameUsers DEF LogoutEverywhere, IInv, TypeOK
<1> QED  BY <1>1, <1>3 DEF Kept, IInv

\* The entry after the tenant's row is followed by its owner.
LEMMA RecordAuditStep ==
    ASSUME IInv, NEW r \in Slots, RecordAudit(r)
    PROVE  Kept
<1>0. tenants' = tenants /\ users' = users  BY DEF RecordAudit
<1>1. SysInv' /\ reqs' \in [Slots -> Requesting]
  <2>1. CASE Answer(r)  BY <1>0, <2>1, AnswerMove, SameUsers
  <2>2. CASE reqs[r].then = "flag" /\ GoTo(r, "flag")
    BY <1>0, <2>2, GoToStep, SameUsers DEF Pcs
  <2>3. CASE reqs[r].then = "owner" /\ GoTo(r, "owner")
    <3> DEFINE q == [reqs[r] EXCEPT !.pc = "owner"]
    <3>1. q \in Requesting /\ q.pc = "owner" /\ q.ask = reqs[r].ask
      BY ReqType DEF Requesting, Pcs
    <3>2. reqs' = [reqs EXCEPT ![r] = q]  BY <2>3 DEF GoTo
    <3> HIDE DEF q
    <3>3. /\ ~Armed(q) /\ OpOK(q)
          /\ \A t \in Tenants : ~Uses(q, t) /\ (Founds(q, t) => Founds(reqs[r], t))
      BY <2>3, <3>1 DEF Armed, Founds, Uses, RecordAudit, OpOK, OpInv, IInv, SysInv
    <3>4. SysInv'  BY <1>0, <3>1, <3>2, <3>3, MoveStep, SameUsers
    <3>5. reqs' \in [Slots -> Requesting]  BY <3>1, <3>2 DEF IInv, TypeOK
    <3> QED  BY <3>4, <3>5
  <2> QED  BY <2>1, <2>2, <2>3, ReqType DEF RecordAudit
<1>2. audit' \subseteq Tenants \X Ids  BY ReqType DEF RecordAudit, IInv, TypeOK
<1>3. TypeOK' /\ Stands  BY <1>1, <1>2, SameUsers DEF RecordAudit, IInv, TypeOK
<1> QED  BY <1>1, <1>3 DEF Kept, IInv
LEMMA ReadAccountStep ==
    ASSUME IInv, NEW r \in Slots, ReadAccount(r)
    PROVE  Kept
<1>0. UNCHANGED Tables  BY DEF ReadAccount, Tables
<1> DEFINE a  == reqs[r].ask
           u  == users[a.id]
           bl == IF a.block = (IF u.blocked THEN "on" ELSE "off") THEN "leave" ELSE a.block
           fl == IF a.flag = (IF u.admin THEN "on" ELSE "off") THEN "leave" ELSE a.flag
           b  == [a EXCEPT !.block = bl, !.flag = fl]
           q  == [reqs[r] EXCEPT !.pc = IF bl # "leave" THEN "block" ELSE "flag",
                                 !.ask = b, !.tenant = u.tenant, !.id = a.id]
<1>1. CASE Answer(r)  BY <1>0, <1>1, AnswerStep
<1>2. CASE reqs' = [reqs EXCEPT ![r] = q]
  <2>1. a \in Asks /\ a.id \in Ids /\ u.tenant \in Tenants  BY ReqType, AskType, UserType
  <2>2. bl \in Switch /\ fl \in Switch  BY <2>1, AskType DEF Switch
  <2>3. b \in Asks  BY <2>1, <2>2 DEF Asks
  <2> HIDE DEF b, bl, fl
  <2>4. q \in Requesting  BY ZenonT(60), <2>1, <2>3, ReqType DEF Requesting, Pcs
  <2>5. q.pc \in {"block", "flag"}  BY ReqType DEF Requesting
  <2> HIDE DEF q
  <2>6. Plain(q)  BY <2>5 DEF Plain
  <2> QED  BY <1>0, <1>2, <2>4, <2>6, QuietStep
<1> QED  BY <1>1, <1>2 DEF ReadAccount

LEMMA ReadDoomedStep ==
    ASSUME IInv, NEW r \in Slots, ReadDoomed(r)
    PROVE  Kept
<1>0. UNCHANGED Tables  BY DEF ReadDoomed, Tables
<1> DEFINE i == reqs[r].ask.id
           q == [reqs[r] EXCEPT !.pc = IF users[i].role = "owner" THEN "count" ELSE "delete",
                                !.tenant = users[i].tenant, !.id = i]
<1>1. CASE Present(i) /\ reqs' = [reqs EXCEPT ![r] = q]
  <2>0. i \in Ids /\ users[i].tenant \in Tenants  BY ReqType, AskType, UserType
  <2>1. q \in Requesting  BY ZenonT(60), <2>0, ReqType DEF Requesting, Pcs
  <2>2. /\ q.tenant = users[i].tenant /\ q.id = i
        /\ q.pc = IF users[i].role = "owner" THEN "count" ELSE "delete"
    BY ReqType DEF Requesting
  <2> HIDE DEF q
  <2>3. CASE users[i].role = "owner"
    <3>1. Plain(q)  BY <2>2, <2>3 DEF Plain
    <3> QED  BY <1>0, <1>1, <2>1, <3>1, QuietStep
  <2>4. CASE users[i].role # "owner"
    <3>1. InTenant(q.tenant, q.id)  BY <1>1, <2>2 DEF InTenant
    <3> QED  BY <1>0, <1>1, <2>1, <2>2, <2>4, <3>1, ArmStep
  <2> QED  BY <2>3, <2>4
<1>2. CASE Answer(r)  BY <1>0, <1>2, AnswerStep
<1> QED  BY <1>1, <1>2 DEF ReadDoomed

\* A tenant has at most one owner, so the count always refuses.
LEMMA CountOwnersStep ==
    ASSUME IInv, NEW r \in Slots, CountOwners(r)
    PROVE  Kept
<1>0. UNCHANGED Tables  BY DEF CountOwners, Tables
<1>1. Cardinality(Owners(reqs[r].tenant)) <= 1
  <2> DEFINE O == Owners(reqs[r].tenant)
  <2>1. \A i, j \in O : i = j  BY ReqType DEF IInv, SysInv, OneOwner, OwnerRow, Owners
  <2>2. CASE O = {}  BY <2>2, FS_EmptySet
  <2>3. CASE O # {}
    <3> PICK i \in O : TRUE  BY <2>3
    <3>1. O = {i}  BY <2>1
    <3> HIDE DEF O
    <3>2. Cardinality(O) = 1  BY <3>1, FS_Singleton
    <3> QED  BY <3>2 DEF O
  <2> QED  BY <2>2, <2>3
<1>2. Answer(r)  BY <1>1 DEF CountOwners
<1> QED  BY <1>0, <1>2, AnswerStep

LEMMA SignupStep ==
    ASSUME IInv, NEW r \in Slots, NEW t \in Tenants, NEW p \in Persons, Signup(r, t, p)
    PROVE  Kept
<1> DEFINE a == [NoAsk EXCEPT !.op = "signup", !.tenant = t, !.person = p]
           q == [IdleReq EXCEPT !.pc = "tenant", !.ask = a]
<1>1. a \in Asks  BY Defaults DEF Asks, AllOps
<1>2. reqs' = [reqs EXCEPT ![r] = q] /\ UNCHANGED Tables  BY DEF Signup, Tables
<1> HIDE DEF a
<1>3. q \in Requesting  BY <1>1, Defaults DEF Requesting, Pcs
<1>4. Plain(q)  BY Defaults DEF Plain, IdleReq, a, NoAsk
<1> HIDE DEF q
<1> QED  BY <1>2, <1>3, <1>4, QuietStep

LEMMA ReadSlugStep ==
    ASSUME IInv, NEW r \in Slots, ReadSlug(r)
    PROVE  Kept
<1>0. UNCHANGED Tables  BY DEF ReadSlug, Tables
<1>1. CASE Answer(r)  BY <1>0, <1>1, AnswerStep
<1>2. CASE GoTo(r, "tenant")
  <2> DEFINE q == [reqs[r] EXCEPT !.pc = "tenant"]
  <2>1. q \in Requesting /\ q.pc = "tenant" /\ q.ask = reqs[r].ask
    BY ReqType DEF Requesting, Pcs
  <2>2. reqs' = [reqs EXCEPT ![r] = q]  BY <1>2 DEF GoTo
  <2> HIDE DEF q
  <2>3. Plain(q)  BY <2>1 DEF Plain, ReadSlug
  <2> QED  BY <1>0, <2>1, <2>2, <2>3, QuietStep
<1> QED  BY <1>1, <1>2 DEF ReadSlug

-----------------------------------------------------------------------------
(* Steps that change a row but add none.                                   *)

\* A row's flags change.
Reflags == /\ users' \in [Ids -> UserRows]
           /\ \A i \in Ids : /\ users'[i].person = users[i].person
                             /\ users'[i].tenant = users[i].tenant
                             /\ users'[i].role = users[i].role

LEMMA ReflagStep == ASSUME IInv, Reflags PROVE Shrinks /\ Stands
BY DEF Reflags, Shrinks, Stands, Owners, InTenant, Present

\* A flag is set on one row.
LEMMA FlagRow ==
    ASSUME IInv, NEW i \in Ids, NEW x \in UserRows, users' = [users EXCEPT ![i] = x],
           x.person = users[i].person, x.tenant = users[i].tenant, x.role = users[i].role
    PROVE  Reflags
BY DEF Reflags, IInv, TypeOK

LEMMA SetAdmin ==
    ASSUME IInv, NEW i \in Ids, NEW b \in BOOLEAN,
           users' = [users EXCEPT ![i] = [@ EXCEPT !.admin = b]]
    PROVE  Reflags
<1> DEFINE x == [users[i] EXCEPT !.admin = b]
<1>1. x \in UserRows  BY UserType DEF UserRows
<1>2. x.person = users[i].person /\ x.tenant = users[i].tenant /\ x.role = users[i].role
  BY UserType DEF UserRows
<1>3. users' = [users EXCEPT ![i] = x]  OBVIOUS
<1> HIDE DEF x
<1> QED  BY <1>1, <1>2, <1>3, FlagRow

LEMMA SetBlock ==
    ASSUME IInv, NEW i \in Ids, NEW b \in BOOLEAN,
           users' = [users EXCEPT ![i] = [@ EXCEPT !.blocked = b]]
    PROVE  Reflags
<1> DEFINE x == [users[i] EXCEPT !.blocked = b]
<1>1. x \in UserRows  BY UserType DEF UserRows
<1>2. x.person = users[i].person /\ x.tenant = users[i].tenant /\ x.role = users[i].role
  BY UserType DEF UserRows
<1>3. users' = [users EXCEPT ![i] = x]  OBVIOUS
<1> HIDE DEF x
<1> QED  BY <1>1, <1>2, <1>3, FlagRow

LEMMA SameReflags == ASSUME IInv, users' = users PROVE Reflags
BY DEF Reflags, IInv, TypeOK

LEMMA GrantStep ==
    ASSUME IInv, NEW r \in Slots, Grant(r)
    PROVE  Kept
<1>1. Reflags  BY SetAdmin, SameReflags, ReqType DEF Grant
<1>2. SysInv' /\ reqs' \in [Slots -> Requesting]
  BY <1>1, ReflagStep, GoToStep DEF Grant, Pcs
<1>3. TypeOK'  BY <1>1, <1>2 DEF Grant, IInv, TypeOK, Reflags
<1> QED  BY <1>1, <1>2, <1>3, ReflagStep DEF Kept, IInv

LEMMA SetPlatformAdminStep ==
    ASSUME IInv, NEW r \in Slots, SetPlatformAdmin(r)
    PROVE  Kept
<1>1. Reflags
  <2>1. CASE users' = users  BY <2>1, SameReflags
  <2>2. CASE \E b \in BOOLEAN : users' = [users EXCEPT ![reqs[r].id] = [@ EXCEPT !.admin = b]]
    BY <2>2, SetAdmin, ReqType
  <2> QED  BY <2>1, <2>2 DEF SetPlatformAdmin
<1>2. SysInv' /\ reqs' \in [Slots -> Requesting]
  BY <1>1, ReflagStep, RecordStep, ReqType DEF SetPlatformAdmin
<1>3. TypeOK'  BY <1>1, <1>2 DEF SetPlatformAdmin, IInv, TypeOK, Reflags
<1> QED  BY <1>1, <1>2, <1>3, ReflagStep DEF Kept, IInv

LEMMA SetBlockedStep ==
    ASSUME IInv, NEW r \in Slots, SetBlocked(r)
    PROVE  Kept
<1>1. Reflags
  <2>1. CASE users' = users  BY <2>1, SameReflags
  <2>2. CASE \E b \in BOOLEAN : users' = [users EXCEPT ![reqs[r].id] = [@ EXCEPT !.blocked = b]]
    BY <2>2, SetBlock, ReqType
  <2> QED  BY <2>1, <2>2 DEF SetBlocked
<1>2. SysInv' /\ reqs' \in [Slots -> Requesting]
  BY <1>1, ReflagStep, RecordStep, ReqType DEF SetBlocked
<1>3. sessions' \subseteq sessions  BY DEF SetBlocked
<1>4. TypeOK'  BY <1>1, <1>2, <1>3 DEF SetBlocked, IInv, TypeOK, Reflags
<1> QED  BY <1>1, <1>2, <1>4, ReflagStep DEF Kept, IInv

LEMMA GrantOwnerStep ==
    ASSUME IInv, NEW r \in Slots, GrantOwner(r)
    PROVE  Kept
<1>1. Reflags  BY SetAdmin, SameReflags, ReqType DEF GrantOwner
<1>2. SysInv' /\ reqs' \in [Slots -> Requesting]
  <2> DEFINE q == [reqs[r] EXCEPT !.pc = "link"]
  <2>1. q \in Requesting /\ q.pc = "link" /\ q.ask = reqs[r].ask
    BY ReqType DEF Requesting, Pcs
  <2>2. reqs' = [reqs EXCEPT ![r] = q]  BY DEF GrantOwner, GoTo
  <2> HIDE DEF q
  <2>3. Plain(q)  BY <2>1 DEF Plain, GrantOwner, IInv, SysInv, OpInv, OpOK
  <2>4. reqs' \in [Slots -> Requesting]  BY <2>1, <2>2 DEF IInv, TypeOK
  <2> QED  BY <1>1, <2>1, <2>2, <2>3, <2>4, PlainStep, ReflagStep DEF GrantOwner
<1>3. TypeOK'  BY <1>1, <1>2 DEF GrantOwner, IInv, TypeOK, Reflags
<1> QED  BY <1>1, <1>2, <1>3, ReflagStep DEF Kept, IInv
\* Deleting a row that is no owner's.
LEMMA RemoveUserEffect ==
    ASSUME IInv, NEW t \in Tenants, NEW i \in Ids, RemoveUser(t, i), ~OwnerRow(t, i)
    PROVE  /\ Shrinks /\ Stands /\ users' \in [Ids -> UserRows] /\ sessions' \subseteq sessions
           /\ links' \in [Links -> LinkRows] /\ keys' \in [Tenants \X Ids -> Nat]
           /\ audit' \subseteq audit
<1> USE DEF IInv, TypeOK
<1>1. CASE InTenant(t, i) /\ Referenced(t, i)
  BY <1>1, SameUsers DEF RemoveUser
<1>2. CASE ~(InTenant(t, i) /\ Referenced(t, i))
  <2>1. users' = IF InTenant(t, i) THEN [users EXCEPT ![i] = NoRow] ELSE users
    BY <1>2 DEF RemoveUser
  <2>2. users' \in [Ids -> UserRows]  BY <2>1, Defaults
  <2>3. Shrinks /\ Stands
    <3>1. CASE ~InTenant(t, i)  BY <2>1, <3>1, SameUsers
    <3>2. CASE InTenant(t, i)
      <4>1. users'[i].person = None /\ \A j \in Ids : j # i => users'[j] = users[j]
        BY <2>1, <3>2 DEF NoRow
      <4>2. users[i].role # "owner"  BY <3>2 DEF OwnerRow
      <4>3. Shrinks  BY <4>1 DEF Shrinks
      <4>4. Stands  BY <4>1, <4>2 DEF Stands, Owners, InTenant, Present
      <4> QED  BY <4>3, <4>4
    <3> QED  BY <3>1, <3>2
  <2>4. sessions' \subseteq sessions /\ audit' \subseteq audit  BY <1>2 DEF RemoveUser
  <2>5. keys' \in [Tenants \X Ids -> Nat]  BY <1>2 DEF RemoveUser
  <2>6. links' \in [Links -> LinkRows]
    <3>1. links' = [l \in Links |->
            IF links[l].tenant = t /\ links[l].id = i /\ links[l].st \in {"fresh", "used"}
              THEN [links[l] EXCEPT !.st = "gone"] ELSE links[l]]
      BY <1>2 DEF RemoveUser
    <3>2. \A l \in Links : links[l] \in LinkRows  OBVIOUS
    <3>3. \A x \in LinkRows : [x EXCEPT !.st = "gone"] \in LinkRows  BY DEF LinkRows
    <3> QED  BY <3>1, <3>2, <3>3
  <2> QED  BY <2>2, <2>3, <2>4, <2>5, <2>6
<1> QED  BY <1>1, <1>2

LEMMA DeleteUserStep ==
    ASSUME IInv, NEW r \in Slots, DeleteUser(r)
    PROVE  Kept
<1>1. ~OwnerRow(reqs[r].tenant, reqs[r].id)  BY DEF DeleteUser, IInv, SysInv, SafeInv, Armed
<1>2. /\ Shrinks /\ Stands /\ users' \in [Ids -> UserRows] /\ sessions' \subseteq sessions
      /\ links' \in [Links -> LinkRows] /\ keys' \in [Tenants \X Ids -> Nat]
      /\ audit' \subseteq audit
  BY <1>1, RemoveUserEffect, ReqType DEF DeleteUser
<1>3. SysInv' /\ reqs' \in [Slots -> Requesting]
  <2>1. CASE Answer(r)  BY <1>2, <2>1, AnswerMove DEF DeleteUser
  <2>2. CASE Record(r, reqs[r].tenant, "idle")  BY <1>2, <2>2, RecordStep, ReqType DEF DeleteUser
  <2> QED  BY <2>1, <2>2 DEF DeleteUser
<1>4. TypeOK'  BY <1>2, <1>3 DEF DeleteUser, IInv, TypeOK
<1> QED  BY <1>2, <1>3, <1>4 DEF Kept, IInv

LEMMA RollbackStep ==
    ASSUME IInv, NEW r \in Slots, Rollback(r)
    PROVE  Kept
<1>1. ~OwnerRow(reqs[r].tenant, reqs[r].id)  BY DEF Rollback, IInv, SysInv, SafeInv, Armed
<1>2. /\ Shrinks /\ Stands /\ users' \in [Ids -> UserRows] /\ sessions' \subseteq sessions
      /\ links' \in [Links -> LinkRows] /\ keys' \in [Tenants \X Ids -> Nat]
      /\ audit' \subseteq audit
  BY <1>1, RemoveUserEffect, ReqType DEF Rollback
<1>3. SysInv' /\ reqs' \in [Slots -> Requesting]  BY <1>2, AnswerMove DEF Rollback
<1>4. TypeOK'  BY <1>2, <1>3 DEF Rollback, IInv, TypeOK
<1> QED  BY <1>2, <1>3, <1>4 DEF Kept, IInv

LEMMA WriteRoleStep ==
    ASSUME IInv, NEW r \in Slots, WriteRole(r)
    PROVE  Kept
<1>0. ~OwnerRow(reqs[r].tenant, reqs[r].id)  BY DEF WriteRole, IInv, SysInv, SafeInv, Armed
<1>1. CASE InTenant(reqs[r].tenant, reqs[r].id)
  <2> DEFINE i == reqs[r].id
             x == [users[i] EXCEPT !.role = reqs[r].ask.role]
  <2>1. i \in Ids /\ users[i] \in UserRows /\ reqs[r].ask.role \in Assignable
    BY ReqType, AskType, UserType
  <2>2. x \in UserRows  BY <2>1 DEF UserRows, Roles
  <2>3. x.person = users[i].person /\ x.tenant = users[i].tenant /\ x.role # "owner"
    BY <2>1 DEF UserRows, Assignable
  <2>4. users' = [users EXCEPT ![i] = x] /\ Record(r, reqs[r].tenant, "idle")
    BY <1>1 DEF WriteRole
  <2>5. users[i].role # "owner"  BY <1>0, <1>1 DEF OwnerRow
  <2> HIDE DEF x, i
  <2>6. users' \in [Ids -> UserRows]  BY <2>1, <2>2, <2>4 DEF IInv, TypeOK
  <2>7. users'[i] = x /\ \A j \in Ids : j # i => users'[j] = users[j]
    BY <2>1, <2>4 DEF IInv, TypeOK
  <2>8. Shrinks  BY <2>3, <2>7 DEF Shrinks
  <2>9. Stands  BY <2>5, <2>7 DEF Stands, Owners, InTenant, Present
  <2>10. SysInv' /\ reqs' \in [Slots -> Requesting]
    BY <2>4, <2>8, RecordStep, ReqType DEF WriteRole
  <2>11. TypeOK'  BY <2>6, <2>10 DEF WriteRole, IInv, TypeOK
  <2> QED  BY <2>9, <2>10, <2>11 DEF Kept, IInv
<1>2. CASE ~InTenant(reqs[r].tenant, reqs[r].id)
  BY <1>2, AnswerStep DEF WriteRole, Tables
<1> QED  BY <1>1, <1>2

-----------------------------------------------------------------------------
(* Steps that add a tenant or a row.                                       *)

LEMMA InsertTenantStep ==
    ASSUME IInv, NEW r \in Slots, InsertTenant(r)
    PROVE  Kept
<1> DEFINE a == reqs[r].ask
<1>0. a.tenant \in Tenants /\ Shrinks /\ Stands
  BY ReqType, AskType, SameUsers DEF InsertTenant
<1>1. CASE a.tenant \in tenants  BY <1>1, AnswerStep DEF InsertTenant, Tables
<1>2. CASE a.tenant \notin tenants
  <2>1. tenants' = tenants \cup {a.tenant}  BY <1>2 DEF InsertTenant
  <2>2. PICK q \in Requesting :
          /\ reqs' = [reqs EXCEPT ![r] = q]
          /\ OpOK(q) /\ ~Armed(q) /\ \A t \in Tenants : ~Uses(q, t)
          /\ \A t \in Tenants : Founds(q, t) => t = a.tenant
    <3>1. CASE Answer(r)
      <4>1. /\ OpOK(IdleReq) /\ ~Armed(IdleReq) /\ \A t \in Tenants : ~Uses(IdleReq, t)
            /\ \A t \in Tenants : Founds(IdleReq, t) => t = a.tenant
        BY DEF IdleReq, OpOK, Armed, Uses, Founds
      <4> QED  BY <3>1, <4>1, Defaults DEF Answer
    <3>2. CASE GoTo(r, "owner")
      <4> DEFINE q == [reqs[r] EXCEPT !.pc = "owner"]
      <4>1. q \in Requesting /\ q.pc = "owner" /\ q.ask = a  BY ReqType DEF Requesting, Pcs
      <4>2. reqs' = [reqs EXCEPT ![r] = q]  BY <3>2 DEF GoTo
      <4> HIDE DEF q
      <4>3. /\ OpOK(q) /\ ~Armed(q) /\ \A t \in Tenants : ~Uses(q, t)
            /\ \A t \in Tenants : Founds(q, t) => t = a.tenant
        BY <4>1 DEF OpOK, Armed, Uses, Founds, InsertTenant, IInv, SysInv, OpInv
      <4> QED  BY <4>1, <4>2, <4>3
    <3>3. CASE \E pc \in {"idle", "owner"} : Record(r, a.tenant, pc)
      <4> PICK pc \in {"idle", "owner"} : Record(r, a.tenant, pc)  BY <3>3
      <4> DEFINE q == [reqs[r] EXCEPT !.pc = "audit", !.tenant = a.tenant, !.then = pc]
      <4>1. q \in Requesting /\ q.pc = "audit" /\ q.ask = a
        BY ZenonT(60), <1>0, ReqType DEF Requesting, Pcs
      <4>2. reqs' = [reqs EXCEPT ![r] = q]  BY DEF Record
      <4> HIDE DEF q
      <4>3. /\ OpOK(q) /\ ~Armed(q) /\ \A t \in Tenants : ~Uses(q, t)
            /\ \A t \in Tenants : Founds(q, t) => t = a.tenant
        BY <4>1 DEF OpOK, Armed, Uses, Founds, InsertTenant, IInv, SysInv, OpInv
      <4> QED  BY <4>1, <4>2, <4>3
    <3> QED  BY <1>2, <3>1, <3>2, <3>3 DEF InsertTenant
  <2>3. /\ reqs'[r] = q /\ reqs' \in [Slots -> Requesting]
        /\ \A o \in Slots : o # r => reqs'[o] = reqs[o]
    BY <2>2 DEF IInv, TypeOK
  <2>4. users' = users  BY DEF InsertTenant
  <2>5. TenantInv'
    <3>1. \A o \in Slots, t \in Tenants :
            Uses(reqs'[o], t) \/ Founds(reqs'[o], t) => t \in tenants'
      BY <2>1, <2>2, <2>3 DEF IInv, SysInv, TenantInv
    <3> QED  BY <3>1, <2>1, <2>4 DEF IInv, SysInv, TenantInv, Present, Uses, Founds, Armed
  <2>6. FoundInv'
    <3> SUFFICES ASSUME NEW o \in Slots, NEW t \in Tenants, Founds(reqs'[o], t)
                 PROVE  /\ \A i \in Ids : ~InTenant(t, i)
                        /\ \A p \in Slots : /\ ~Uses(reqs'[p], t)
                                            /\ Founds(reqs'[p], t) => p = o
      BY <2>4 DEF FoundInv, Founds, Uses, Armed, InTenant, Present
    <3>1. CASE o = r
      <4>1. t = a.tenant  BY <3>1, <2>2, <2>3
      <4>2. \A i \in Ids : ~InTenant(t, i)
        BY <4>1, <1>2 DEF IInv, SysInv, TenantInv, InTenant
      <4>3. \A p \in Slots : ~Uses(reqs[p], t) /\ ~Founds(reqs[p], t)
        BY <4>1, <1>2 DEF IInv, SysInv, TenantInv
      <4> QED  BY <3>1, <4>2, <4>3, <2>2, <2>3
    <3>2. CASE o # r
      <4>1. Founds(reqs[o], t)  BY <3>2, <2>3
      <4>2. t \in tenants  BY <4>1 DEF IInv, SysInv, TenantInv
      <4>3. ~Founds(q, t)  BY <4>2, <2>2, <1>2
      <4> QED  BY <4>1, <4>3, <2>2, <2>3 DEF IInv, SysInv, FoundInv
    <3> QED  BY <3>1, <3>2
  <2>7. SafeInv'
    <3> SUFFICES ASSUME NEW o \in Slots, Armed(reqs'[o])
                 PROVE  ~OwnerRow(reqs'[o].tenant, reqs'[o].id)
      BY <2>4 DEF SafeInv, Armed, OwnerRow, InTenant, Present
    <3> QED  BY <2>2, <2>3 DEF IInv, SysInv, SafeInv
  <2>8. OneOwner'  BY <2>4 DEF IInv, SysInv, OneOwner, OwnerRow, InTenant, Present
  <2>9. OpInv'  BY <2>2, <2>3 DEF IInv, SysInv, OpInv, OpOK
  <2>10. TypeOK'  BY <1>0, <2>1, <2>3 DEF InsertTenant, IInv, TypeOK
  <2> QED  BY <1>0, <2>5, <2>6, <2>7, <2>8, <2>9, <2>10 DEF Kept, IInv, SysInv
<1> QED  BY <1>1, <1>2
\* A free row n becomes x; the other rows stay.
LEMMA InsertEffect ==
    ASSUME IInv, NEW n \in Ids, IsNextId(n), NEW x \in UserRows,
           users' = [users EXCEPT ![n] = x]
    PROVE  /\ ~Present(n) /\ users' \in [Ids -> UserRows] /\ users'[n] = x
           /\ \A i \in Ids : i # n => users'[i] = users[i]
           /\ Stands
<1>1. ~Present(n)  BY DEF IsNextId, Ids
<1>2. /\ users' \in [Ids -> UserRows] /\ users'[n] = x
      /\ \A i \in Ids : i # n => users'[i] = users[i]
  BY DEF IInv, TypeOK
<1>3. Stands  BY <1>1, <1>2 DEF Stands, Owners, InTenant, Present
<1> QED  BY <1>1, <1>2, <1>3

LEMMA CreateMemberStep ==
    ASSUME IInv, NEW r \in Slots, CreateMember(r)
    PROVE  Kept
<1> DEFINE h == reqs[r].home
           a == reqs[r].ask
<1>0. /\ h \in Tenants /\ a.person \in Persons \cup {None} /\ a.role \in Assignable
      /\ Uses(reqs[r], h)
  BY ReqType, AskType DEF CreateMember, Uses
<1>1. CASE Answer(r) /\ users' = users
  BY <1>1, AnswerStep DEF CreateMember, Tables
<1>2. CASE \E n \in Ids : /\ InsertUser(n, h, a.person, a.role)
                          /\ reqs' = [reqs EXCEPT ![r] = [@ EXCEPT !.pc = "link", !.tenant = h,
                                                       !.id = n, !.holder = a.person]]
  <2> PICK n \in Ids : /\ InsertUser(n, h, a.person, a.role)
                       /\ reqs' = [reqs EXCEPT ![r] = [@ EXCEPT !.pc = "link", !.tenant = h,
                                                    !.id = n, !.holder = a.person]]
    BY <1>2
  <2> DEFINE x == [person |-> a.person, tenant |-> h, role |-> a.role, blocked |-> FALSE,
                   admin |-> FALSE]
             q == [reqs[r] EXCEPT !.pc = "link", !.tenant = h, !.id = n, !.holder = a.person]
  <2>1. x \in UserRows /\ x.tenant = h /\ x.role # "owner"
    BY <1>0 DEF UserRows, Roles, Assignable
  <2>2. q \in Requesting /\ q.pc = "link" /\ q.tenant = h /\ q.id = n
    BY ZenonT(60), <1>0, ReqType DEF Requesting, Pcs
  <2>3. users' = [users EXCEPT ![n] = x] /\ IsNextId(n)  BY DEF InsertUser
  <2>4. reqs' = [reqs EXCEPT ![r] = q]  OBVIOUS
  <2> HIDE DEF x, q, h, a
  <2>5. /\ ~Present(n) /\ users' \in [Ids -> UserRows] /\ users'[n] = x
        /\ \A i \in Ids : i # n => users'[i] = users[i]
        /\ Stands
    BY <2>1, <2>3, InsertEffect
  <2>6. /\ reqs'[r] = q /\ reqs' \in [Slots -> Requesting]
        /\ \A o \in Slots : o # r => reqs'[o] = reqs[o]
    BY <2>2, <2>4 DEF IInv, TypeOK
  <2>7. tenants' = tenants /\ h \in tenants
    BY <1>0 DEF CreateMember, IInv, SysInv, TenantInv
  <2>8. OpOK(q) /\ \A t \in Tenants : ~Founds(q, t) /\ (Uses(q, t) => t = h)
    BY <2>2 DEF OpOK, Founds, Uses, Armed
  <2>9. TenantInv'
    <3>1. \A o \in Slots, t \in Tenants :
            Uses(reqs'[o], t) \/ Founds(reqs'[o], t) => t \in tenants
      BY <2>6, <2>7, <2>8 DEF IInv, SysInv, TenantInv
    <3>2. \A i \in Ids : users'[i].person # None => users'[i].tenant \in tenants
      BY <2>1, <2>5, <2>7 DEF IInv, SysInv, TenantInv, Present
    <3> QED  BY <3>1, <3>2, <2>7 DEF TenantInv, Present, Uses, Founds, Armed
  <2>10. FoundInv'
    <3> SUFFICES ASSUME NEW o \in Slots, NEW t \in Tenants, Founds(reqs'[o], t)
                 PROVE  /\ \A i \in Ids : ~(users'[i].person # None /\ users'[i].tenant = t)
                        /\ \A p \in Slots : /\ ~Uses(reqs'[p], t)
                                            /\ Founds(reqs'[p], t) => p = o
      BY DEF FoundInv, Founds, Uses, Armed, InTenant, Present
    <3>1. o # r /\ Founds(reqs[o], t)  BY <2>6, <2>8
    <3>2. /\ \A i \in Ids : ~InTenant(t, i)
          /\ \A p \in Slots : ~Uses(reqs[p], t) /\ (Founds(reqs[p], t) => p = o)
      BY <3>1 DEF IInv, SysInv, FoundInv
    <3>3. t # h  BY <3>2, <1>0
    <3>4. \A p \in Slots : ~Uses(reqs'[p], t) /\ (Founds(reqs'[p], t) => p = o)
      BY <3>2, <3>3, <2>6, <2>8
    <3>5. \A i \in Ids : ~(users'[i].person # None /\ users'[i].tenant = t)
      BY <3>2, <3>3, <2>1, <2>5 DEF InTenant, Present
    <3> QED  BY <3>4, <3>5
  <2>11. \A t \in Tenants, i \in Ids : OwnerRow(t, i)' => i # n /\ OwnerRow(t, i)
    BY <2>1, <2>5 DEF OwnerRow, InTenant, Present
  <2>12. SafeInv'
    <3>0. \A o \in Slots : reqs'[o].tenant \in Tenants /\ reqs'[o].id \in Ids
      <4>1. \A z \in Requesting : z.tenant \in Tenants /\ z.id \in Ids  BY DEF Requesting
      <4> QED  BY <2>6, <4>1
    <3> SUFFICES ASSUME NEW o \in Slots, Armed(reqs'[o]), NEW t \in Tenants, NEW i \in Ids,
                        t = reqs'[o].tenant, i = reqs'[o].id
                 PROVE  ~OwnerRow(t, i)'
      BY <3>0 DEF SafeInv, Armed, OwnerRow, InTenant, Present
    <3>1. CASE o = r  BY <3>1, <2>2, <2>6, <2>11
    <3>2. CASE o # r  BY <3>2, <2>6, <2>11 DEF IInv, SysInv, SafeInv
    <3> QED  BY <3>1, <3>2
  <2>13. OneOwner'  BY <2>11 DEF IInv, SysInv, OneOwner, OwnerRow, InTenant, Present
  <2>14. OpInv'  BY <2>6, <2>8 DEF IInv, SysInv, OpInv, OpOK
  <2>15. TypeOK'  BY <2>5, <2>6 DEF CreateMember, IInv, TypeOK
  <2> QED  BY <2>5, <2>9, <2>10, <2>12, <2>13, <2>14, <2>15 DEF Kept, IInv, SysInv
<1> QED  BY <1>1, <1>2 DEF CreateMember

LEMMA CreateOwnerStep ==
    ASSUME IInv, NEW r \in Slots, CreateOwner(r)
    PROVE  Kept
<1> DEFINE a == reqs[r].ask
           t0 == a.tenant
<1>0. /\ t0 \in Tenants /\ a.person \in Persons \cup {None} /\ Founds(reqs[r], t0)
      /\ a.op \in {"signup", "create_tenant"}
  BY ReqType, AskType DEF CreateOwner, Founds, IInv, SysInv, OpInv, OpOK
<1>1. CASE Answer(r) /\ users' = users
  BY <1>1, AnswerStep DEF CreateOwner, Tables
<1>2. CASE \E n \in Ids : /\ InsertUser(n, t0, a.person, "owner")
                          /\ reqs' = [reqs EXCEPT ![r] =
                               [@ EXCEPT !.pc = IF a.op = "create_tenant" /\ a.person \in Listed
                                                  THEN "grant_owner" ELSE "link",
                                         !.tenant = t0, !.id = n, !.holder = a.person]]
  <2> PICK n \in Ids : /\ InsertUser(n, t0, a.person, "owner")
                       /\ reqs' = [reqs EXCEPT ![r] =
                            [@ EXCEPT !.pc = IF a.op = "create_tenant" /\ a.person \in Listed
                                               THEN "grant_owner" ELSE "link",
                                      !.tenant = t0, !.id = n, !.holder = a.person]]
    BY <1>2
  <2> DEFINE x == [person |-> a.person, tenant |-> t0, role |-> "owner", blocked |-> FALSE,
                   admin |-> FALSE]
             q == [reqs[r] EXCEPT !.pc = IF a.op = "create_tenant" /\ a.person \in Listed
                                           THEN "grant_owner" ELSE "link",
                                  !.tenant = t0, !.id = n, !.holder = a.person]
  <2>1. x \in UserRows /\ x.tenant = t0  BY <1>0 DEF UserRows, Roles
  <2>2. q \in Requesting /\ q.pc \in {"grant_owner", "link"} /\ q.ask = a
    BY ZenonT(60), <1>0, ReqType DEF Requesting, Pcs
  <2>3. users' = [users EXCEPT ![n] = x] /\ IsNextId(n)  BY DEF InsertUser
  <2>4. reqs' = [reqs EXCEPT ![r] = q]  OBVIOUS
  <2> HIDE DEF x, q, a, t0
  <2>5. /\ ~Present(n) /\ users' \in [Ids -> UserRows] /\ users'[n] = x
        /\ \A i \in Ids : i # n => users'[i] = users[i]
        /\ Stands
    BY <2>1, <2>3, InsertEffect
  <2>6. /\ reqs'[r] = q /\ reqs' \in [Slots -> Requesting]
        /\ \A o \in Slots : o # r => reqs'[o] = reqs[o]
    BY <2>2, <2>4 DEF IInv, TypeOK
  <2>7. tenants' = tenants /\ t0 \in tenants
    BY <1>0 DEF CreateOwner, IInv, SysInv, TenantInv
  <2>8. OpOK(q) /\ ~Armed(q) /\ \A t \in Tenants : ~Founds(q, t) /\ ~Uses(q, t)
    BY <1>0, <2>2 DEF OpOK, Founds, Uses, Armed
  <2>9. /\ \A i \in Ids : ~InTenant(t0, i)
        /\ \A p \in Slots : ~Uses(reqs[p], t0) /\ (Founds(reqs[p], t0) => p = r)
    BY <1>0 DEF IInv, SysInv, FoundInv
  <2>10. TenantInv'
    <3>1. \A o \in Slots, t \in Tenants :
            Uses(reqs'[o], t) \/ Founds(reqs'[o], t) => t \in tenants
      BY <2>6, <2>7, <2>8 DEF IInv, SysInv, TenantInv
    <3>2. \A i \in Ids : users'[i].person # None => users'[i].tenant \in tenants
      BY <2>1, <2>5, <2>7 DEF IInv, SysInv, TenantInv, Present
    <3> QED  BY <3>1, <3>2, <2>7 DEF TenantInv, Present, Uses, Founds, Armed
  <2>11. FoundInv'
    <3> SUFFICES ASSUME NEW o \in Slots, NEW t \in Tenants, Founds(reqs'[o], t)
                 PROVE  /\ \A i \in Ids : ~(users'[i].person # None /\ users'[i].tenant = t)
                        /\ \A p \in Slots : /\ ~Uses(reqs'[p], t)
                                            /\ Founds(reqs'[p], t) => p = o
      BY DEF FoundInv, Founds, Uses, Armed, InTenant, Present
    <3>1. o # r /\ Founds(reqs[o], t)  BY <2>6, <2>8
    <3>2. /\ \A i \in Ids : ~InTenant(t, i)
          /\ \A p \in Slots : ~Uses(reqs[p], t) /\ (Founds(reqs[p], t) => p = o)
      BY <3>1 DEF IInv, SysInv, FoundInv
    <3>3. t # t0  BY <3>1, <2>9
    <3>4. \A p \in Slots : ~Uses(reqs'[p], t) /\ (Founds(reqs'[p], t) => p = o)
      BY <3>2, <2>6, <2>8
    <3>5. \A i \in Ids : ~(users'[i].person # None /\ users'[i].tenant = t)
      BY <3>2, <3>3, <2>1, <2>5 DEF InTenant, Present
    <3> QED  BY <3>4, <3>5
  <2>12. \A t \in Tenants, i \in Ids : OwnerRow(t, i)' => (t = t0 /\ i = n) \/ OwnerRow(t, i)
    BY <2>1, <2>5 DEF OwnerRow, InTenant, Present
  <2>13. SafeInv'
    <3>0. \A o \in Slots : reqs'[o].tenant \in Tenants /\ reqs'[o].id \in Ids
      <4>1. \A z \in Requesting : z.tenant \in Tenants /\ z.id \in Ids  BY DEF Requesting
      <4> QED  BY <2>6, <4>1
    <3> SUFFICES ASSUME NEW o \in Slots, Armed(reqs'[o]), NEW t \in Tenants, NEW i \in Ids,
                        t = reqs'[o].tenant, i = reqs'[o].id
                 PROVE  ~OwnerRow(t, i)'
      BY <3>0 DEF SafeInv, Armed, OwnerRow, InTenant, Present
    <3>1. o # r /\ Armed(reqs[o]) /\ t = reqs[o].tenant /\ i = reqs[o].id  BY <2>6, <2>8
    <3>2. t # t0  BY <3>1, <2>9 DEF Uses
    <3>3. ~OwnerRow(t, i)  BY <3>1 DEF IInv, SysInv, SafeInv
    <3> QED  BY <3>2, <3>3, <2>12
  <2>14. OneOwner'
    <3>1. \A i \in Ids : ~OwnerRow(t0, i)  BY <2>9 DEF OwnerRow
    <3>2. \A t \in Tenants : \A i, j \in Ids : OwnerRow(t, i)' /\ OwnerRow(t, j)' => i = j
      BY <3>1, <2>12 DEF IInv, SysInv, OneOwner
    <3> QED  BY <3>2 DEF OneOwner, OwnerRow, InTenant, Present
  <2>15. OpInv'  BY <2>6, <2>8 DEF IInv, SysInv, OpInv, OpOK
  <2>16. TypeOK'  BY <2>5, <2>6 DEF CreateOwner, IInv, TypeOK
  <2> QED  BY <2>5, <2>10, <2>11, <2>13, <2>14, <2>15, <2>16 DEF Kept, IInv, SysInv
<1> QED  BY <1>1, <1>2 DEF CreateOwner

-----------------------------------------------------------------------------
LEMMA RestartStep ==
    ASSUME IInv, Restart
    PROVE  Kept
<1>1. Reflags
  <2>1. users' = [i \in Ids |-> IF users[i].person \in Listed
                                  THEN [users[i] EXCEPT !.admin = TRUE] ELSE users[i]]
    BY DEF Restart
  <2>2. \A x \in UserRows : LET y == [x EXCEPT !.admin = TRUE] IN
          y \in UserRows /\ y.person = x.person /\ y.tenant = x.tenant /\ y.role = x.role
    BY DEF UserRows
  <2>3. \A i \in Ids : users[i] \in UserRows  BY UserType
  <2> QED  BY <2>1, <2>2, <2>3 DEF Reflags
<1>2. reqs' \in [Slots -> Requesting] /\ \A r \in Slots : reqs'[r] = IdleReq
  BY Defaults DEF Restart
<1>3. /\ OpOK(IdleReq) /\ ~Armed(IdleReq)
      /\ \A t \in Tenants : ~Uses(IdleReq, t) /\ ~Founds(IdleReq, t)
  BY DEF IdleReq, OpOK, Armed, Uses, Founds
<1>4. Shrinks /\ Stands  BY <1>1, ReflagStep
<1>5. TenantInv'
  <2>1. \A i \in Ids : users'[i].person # None => users'[i].tenant \in tenants
    BY <1>4 DEF Shrinks, IInv, SysInv, TenantInv, Present
  <2> QED  BY <2>1, <1>2, <1>3 DEF TenantInv, Present, Uses, Founds, Armed, Restart
<1>6. FoundInv'  BY <1>2, <1>3 DEF FoundInv, Founds
<1>7. SafeInv'  BY <1>2, <1>3 DEF SafeInv, Armed
<1>8. OneOwner'  BY <1>4 DEF Shrinks, IInv, SysInv, OneOwner, OwnerRow, InTenant, Present
<1>9. OpInv'  BY <1>2, <1>3 DEF OpInv, OpOK
<1>10. TypeOK'  BY <1>1, <1>2 DEF Restart, IInv, TypeOK, Reflags
<1> QED  BY <1>4, <1>5, <1>6, <1>7, <1>8, <1>9, <1>10 DEF Kept, IInv, SysInv

\* Requests, users and tenants as they were.
LEMMA IdleStep ==
    ASSUME IInv, UNCHANGED <<tenants, users, reqs>>
    PROVE  SysInv' /\ Stands
<1>1. SysInv'
  BY DEF IInv, SysInv, TenantInv, FoundInv, SafeInv, OneOwner, OpInv, OpOK, Armed, Uses, Founds,
         OwnerRow, InTenant, Present
<1> QED  BY <1>1, SameUsers

LEMMA LogoutStep ==
    ASSUME IInv, NEW s \in sessions, Logout(s)
    PROVE  Kept
<1>1. TypeOK'  BY DEF Logout, IInv, TypeOK
<1> QED  BY <1>1, IdleStep DEF Logout, Kept, IInv

LEMMA ExpireLinkStep ==
    ASSUME IInv, NEW l \in Links, ExpireLink(l)
    PROVE  Kept
<1>1. links' \in [Links -> LinkRows]
  <2> DEFINE x == [links[l] EXCEPT !.st = "gone"]
  <2>1. x \in LinkRows  BY DEF IInv, TypeOK, LinkRows
  <2>2. links' = [links EXCEPT ![l] = x]  BY DEF ExpireLink
  <2> HIDE DEF x
  <2> QED  BY <2>1, <2>2 DEF IInv, TypeOK
<1>2. TypeOK'  BY <1>1 DEF ExpireLink, IInv, TypeOK
<1> QED  BY <1>2, IdleStep DEF ExpireLink, Kept, IInv

LEMMA InitInv == Init => IInv
<1> SUFFICES ASSUME Init PROVE IInv  OBVIOUS
<1> DEFINE x == [person |-> Founder, tenant |-> SomeTenant, role |-> "owner",
                 blocked |-> FALSE, admin |-> TRUE]
<1>1. x \in UserRows /\ x.tenant = SomeTenant  BY Defaults DEF UserRows, Roles
<1>2. users = [i \in Ids |-> IF i = 1 THEN x ELSE NoRow]  BY DEF Init
<1> HIDE DEF x
<1>3. users \in [Ids -> UserRows]  BY <1>1, <1>2, Defaults
<1>4. \A r \in Slots : reqs[r] = IdleReq  BY DEF Init
<1>5. /\ OpOK(IdleReq) /\ ~Armed(IdleReq)
      /\ \A t \in Tenants : ~Uses(IdleReq, t) /\ ~Founds(IdleReq, t)
  BY DEF IdleReq, OpOK, Armed, Uses, Founds
<1>6. \A i \in Ids : Present(i) => i = 1 /\ users[i].tenant = SomeTenant
  BY <1>1, <1>2 DEF Present, NoRow
<1>7. SysInv
  <2>1. TenantInv  BY <1>4, <1>5, <1>6 DEF TenantInv, Init
  <2>2. FoundInv /\ SafeInv /\ OpInv  BY <1>4, <1>5 DEF FoundInv, SafeInv, OpInv
  <2>3. OneOwner  BY <1>6 DEF OneOwner, OwnerRow, InTenant
  <2> QED  BY <2>1, <2>2, <2>3 DEF SysInv
<1>8. TypeOK
  <2>1. sessions \subseteq (Persons \cup {None}) \X Tenants \X Ids  BY Defaults DEF Init
  <2>2. links \in [Links -> LinkRows]  BY Defaults DEF Init
  <2>3. keys \in [Tenants \X Ids -> Nat]  BY DEF Init
  <2>4. reqs \in [Slots -> Requesting]  BY Defaults DEF Init
  <2>5. tenants \subseteq Tenants /\ audit \subseteq Tenants \X Ids /\ restarts \in Nat
    BY Defaults DEF Init
  <2> QED  BY <1>3, <2>1, <2>2, <2>3, <2>4, <2>5 DEF TypeOK
<1> QED  BY <1>7, <1>8 DEF IInv

LEMMA StepKept == ASSUME IInv, NEW r \in Slots, Step(r) PROVE Kept
<1>1. CASE \E i \in Ids : SendLink(r, i)  BY <1>1, SendLinkStep
<1>2. CASE \E l \in Links : MailLink(r, l) \/ Redeem(r, l)  BY <1>2, MailLinkStep, RedeemStep
<1>3. CASE MailFails(r) \/ AdmitUser(r) \/ Grant(r) \/ MintSession(r)
  BY <1>3, MailFailsStep, AdmitUserStep, GrantStep, MintSessionStep
<1>4. CASE \E s \in sessions : TouchSession(r, s)  BY <1>4, TouchSessionStep
<1>5. CASE \E k \in Tenants \X Ids : FindKey(r, k)  BY <1>5, FindKeyStep
<1>6. CASE \E a \in Requests : Identify(r, a)  BY <1>6, IdentifyStep
<1>7. CASE Refuse(r) \/ ReadMember(r) \/ WriteRole(r) \/ DeleteUser(r) \/ ReadAddress(r)
  BY <1>7, RefuseStep, ReadMemberStep, WriteRoleStep, DeleteUserStep, ReadAddressStep
<1>8. CASE CreateMember(r) \/ Rollback(r) \/ CountKeys(r) \/ AddKey(r) \/ DeleteKey(r)
  BY <1>8, CreateMemberStep, RollbackStep, CountKeysStep, AddKeyStep, DeleteKeyStep
<1>9. CASE LogoutEverywhere(r) \/ RecordAudit(r) \/ ReadAccount(r) \/ SetBlocked(r)
  BY <1>9, LogoutEverywhereStep, RecordAuditStep, ReadAccountStep, SetBlockedStep
<1>10. CASE SetPlatformAdmin(r) \/ ReadDoomed(r) \/ CountOwners(r)
  BY <1>10, SetPlatformAdminStep, ReadDoomedStep, CountOwnersStep
<1>11. CASE \E t \in Tenants, p \in Persons : Signup(r, t, p)  BY <1>11, SignupStep
<1>12. CASE ReadSlug(r) \/ InsertTenant(r) \/ CreateOwner(r) \/ GrantOwner(r)
  BY <1>12, ReadSlugStep, InsertTenantStep, CreateOwnerStep, GrantOwnerStep
<1> QED  BY <1>1, <1>2, <1>3, <1>4, <1>5, <1>6, <1>7, <1>8, <1>9, <1>10, <1>11, <1>12 DEF Step

LEMMA NextKept == IInv /\ [Next]_vars => Kept
<1> SUFFICES ASSUME IInv, [Next]_vars PROVE Kept  OBVIOUS
<1>1. CASE \E r \in Slots : Step(r)  BY <1>1, StepKept
<1>2. CASE \E s \in sessions : Logout(s)  BY <1>2, LogoutStep
<1>3. CASE \E l \in Links : ExpireLink(l)  BY <1>3, ExpireLinkStep
<1>4. CASE Restart  BY <1>4, RestartStep
<1>5. CASE UNCHANGED vars
  <2>1. TypeOK'  BY <1>5 DEF vars, IInv, TypeOK
  <2> QED  BY <1>5, <2>1, IdleStep DEF vars, Kept, IInv
<1> QED  BY <1>1, <1>2, <1>3, <1>4, <1>5 DEF Next

\* The invariant behind both theorems, for every step of every request.
THEOREM Inductive == Spec => []IInv
<1>1. IInv /\ [Next]_vars => IInv'  BY NextKept DEF Kept
<1> QED  BY <1>1, InitInv, PTL DEF Spec

\* The tables and the running requests keep their types.
THEOREM TypeCorrect == Spec => []TypeOK
<1>1. IInv => TypeOK  BY DEF IInv
<1> QED  BY <1>1, Inductive, PTL

\* No interleaving of deletions, role changes, failed invitations, sign-ups
\* and restarts takes a tenant's owner away, for any number of users,
\* tenants and concurrent requests (set_role, both delete_user, invite).
THEOREM OwnersStand == Spec => OwnerStands
<1>1. IInv /\ [Next]_vars => [\A t \in Tenants : Owners(t) # {} => Owners(t)' # {}]_vars
  <2>1. Stands => \A t \in Tenants : Owners(t) # {} => Owners(t)' # {}  BY DEF Stands
  <2> QED  BY <2>1, NextKept DEF Kept
<1> QED  BY <1>1, Inductive, PTL DEF Spec, OwnerStands

-----------------------------------------------------------------------------
(* Blocked accounts stay out.                                              *)

\* Requests other than r stay, and r moves to p.
MovesTo(r, p) == reqs'[r].pc = p /\ \A o \in Slots : o # r => reqs'[o] = reqs[o]

LEMMA Moves ==
    ASSUME IInv, NEW r \in Slots
    PROVE  /\ Answer(r) => MovesTo(r, "idle")
           /\ \A p : GoTo(r, p) => /\ MovesTo(r, p) /\ reqs'[r].id = reqs[r].id /\ reqs'[r].by = reqs[r].by
                                   /\ reqs'[r].ask = reqs[r].ask /\ reqs'[r].tenant = reqs[r].tenant
           /\ \A t, p : Record(r, t, p) => /\ MovesTo(r, "audit") /\ reqs'[r].then = p /\ reqs'[r].id = reqs[r].id
                                           /\ reqs'[r].by = reqs[r].by /\ reqs'[r].ask = reqs[r].ask
<1>1. reqs \in [Slots -> Requesting] /\ reqs[r] \in Requesting  BY DEF IInv, TypeOK
<1>2. Answer(r) => MovesTo(r, "idle")  BY <1>1 DEF Answer, IdleReq, MovesTo
<1>3. ASSUME NEW p, GoTo(r, p)
      PROVE  /\ MovesTo(r, p) /\ reqs'[r].id = reqs[r].id /\ reqs'[r].by = reqs[r].by
             /\ reqs'[r].ask = reqs[r].ask /\ reqs'[r].tenant = reqs[r].tenant
  BY <1>1, <1>3 DEF GoTo, MovesTo, Requesting
<1>4. ASSUME NEW t, NEW p, Record(r, t, p)
      PROVE  /\ MovesTo(r, "audit") /\ reqs'[r].then = p /\ reqs'[r].id = reqs[r].id
             /\ reqs'[r].by = reqs[r].by /\ reqs'[r].ask = reqs[r].ask
  BY <1>1, <1>4 DEF Record, MovesTo, Requesting
<1> QED  BY <1>2, <1>3, <1>4

\* Where the requests that start or read go.
LEMMA Starts ==
    ASSUME IInv, NEW r \in Slots
    PROVE  /\ \A i \in Ids : SendLink(r, i) => MovesTo(r, "link")
           /\ \A l \in Links : Redeem(r, l) => MovesTo(r, "redeemed")
           /\ \A x : TouchSession(r, x) \/ FindKey(r, x) => MovesTo(r, "touched")
           /\ \A a : Identify(r, a) => MovesTo(r, "handle") /\ reqs'[r].ask = a /\ reqs'[r].by = reqs[r].by
           /\ \A t, p : Signup(r, t, p) => MovesTo(r, "tenant")
<1>0. reqs \in [Slots -> Requesting] /\ reqs[r] \in Requesting /\ IdleReq \in Requesting
  BY Defaults DEF IInv, TypeOK
<1>1. ASSUME NEW i \in Ids, SendLink(r, i) PROVE MovesTo(r, "link")
  BY <1>0, <1>1 DEF SendLink, MovesTo, Requesting
<1>2. ASSUME NEW l \in Links, Redeem(r, l) PROVE MovesTo(r, "redeemed")
  BY <1>0, <1>2 DEF Redeem, MovesTo, Requesting
<1>3. ASSUME NEW x, TouchSession(r, x) PROVE MovesTo(r, "touched")
  BY <1>0, <1>3 DEF TouchSession, MovesTo, Requesting
<1>4. ASSUME NEW k, FindKey(r, k) PROVE MovesTo(r, "touched")
  BY <1>0, <1>4 DEF FindKey, MovesTo, Requesting
<1>5. ASSUME NEW a, Identify(r, a) PROVE MovesTo(r, "handle") /\ reqs'[r].ask = a /\ reqs'[r].by = reqs[r].by
  BY <1>0, <1>5 DEF Identify, MovesTo, Requesting
<1>6. ASSUME NEW t, NEW p, Signup(r, t, p) PROVE MovesTo(r, "tenant")
  BY <1>0, <1>6 DEF Signup, MovesTo, Requesting
<1> QED  BY <1>1, <1>2, <1>3, <1>4, <1>5, <1>6

\* Request r goes on about row i, for the caller and the operation it had.
About(r, i) == reqs'[r].id = i /\ reqs'[r].by = reqs[r].by /\ reqs'[r].ask.op = reqs[r].ask.op

LEMMA Reads ==
    ASSUME IInv, NEW r \in Slots
    PROVE  /\ ReadMember(r) => \/ Answer(r) \/ MovesTo(r, "set_role")
                               \/ MovesTo(r, "delete") /\ About(r, reqs[r].ask.id) /\ reqs[r].ask.op = "delete_user"
           /\ ReadAccount(r) => \/ Answer(r)
                                \/ (MovesTo(r, "block") \/ MovesTo(r, "flag")) /\ About(r, reqs[r].ask.id)
           /\ ReadDoomed(r) => \/ Answer(r)
                               \/ (MovesTo(r, "count") \/ MovesTo(r, "delete")) /\ About(r, reqs[r].ask.id)
<1>0. reqs \in [Slots -> Requesting] /\ reqs[r] \in Requesting /\ reqs[r].ask \in Asks
  BY ReqType DEF IInv, TypeOK
<1>1. ASSUME ReadMember(r), ~Answer(r)
      PROVE  \/ MovesTo(r, "set_role")
             \/ MovesTo(r, "delete") /\ About(r, reqs[r].ask.id) /\ reqs[r].ask.op = "delete_user"
  <2> DEFINE p == IF reqs[r].ask.op = "set_role" THEN "set_role" ELSE "delete"
  <2>1. reqs' = [reqs EXCEPT ![r] = [@ EXCEPT !.pc = p, !.tenant = reqs[r].home, !.id = reqs[r].ask.id]]
    BY <1>1 DEF ReadMember
  <2>2. p = "set_role" \/ (p = "delete" /\ reqs[r].ask.op = "delete_user")
    BY <1>1 DEF ReadMember
  <2> HIDE DEF p
  <2> QED  BY <1>0, <2>1, <2>2 DEF MovesTo, About, Requesting
<1>2. ASSUME ReadAccount(r), ~Answer(r)
      PROVE  (MovesTo(r, "block") \/ MovesTo(r, "flag")) /\ About(r, reqs[r].ask.id)
  <2> DEFINE a  == reqs[r].ask
             u  == users[a.id]
             bl == IF a.block = (IF u.blocked THEN "on" ELSE "off") THEN "leave" ELSE a.block
             fl == IF a.flag = (IF u.admin THEN "on" ELSE "off") THEN "leave" ELSE a.flag
             b  == [a EXCEPT !.block = bl, !.flag = fl]
             p  == IF bl # "leave" THEN "block" ELSE "flag"
  <2>1. reqs' = [reqs EXCEPT ![r] = [@ EXCEPT !.pc = p, !.ask = b, !.tenant = u.tenant, !.id = a.id]]
    BY <1>2 DEF ReadAccount
  <2>2. p \in {"block", "flag"} /\ b.op = a.op
    BY <1>0 DEF Asks
  <2> HIDE DEF p, b, bl, fl
  <2> QED  BY <1>0, <2>1, <2>2 DEF MovesTo, About, Requesting
<1>3. ASSUME ReadDoomed(r), ~Answer(r)
      PROVE  (MovesTo(r, "count") \/ MovesTo(r, "delete")) /\ About(r, reqs[r].ask.id)
  <2> DEFINE i == reqs[r].ask.id
             p == IF users[i].role = "owner" THEN "count" ELSE "delete"
  <2>1. reqs' = [reqs EXCEPT ![r] = [@ EXCEPT !.pc = p, !.tenant = users[i].tenant, !.id = i]]
    BY <1>3 DEF ReadDoomed
  <2>2. p \in {"count", "delete"}
    OBVIOUS
  <2> HIDE DEF p
  <2> QED  BY <1>0, <2>1, <2>2 DEF MovesTo, About, Requesting
<1> QED  BY <1>1, <1>2, <1>3

LEMMA Creates ==
    ASSUME IInv, NEW r \in Slots, CreateMember(r) \/ CreateOwner(r)
    PROVE  Answer(r) \/ MovesTo(r, "link") \/ MovesTo(r, "grant_owner")
<1>1. \/ Answer(r)
      \/ \E p \in {"grant_owner", "link"} : \E t, i, x :
           reqs' = [reqs EXCEPT ![r] = [@ EXCEPT !.pc = p, !.tenant = t, !.id = i, !.holder = x]]
  BY ZenonT(60) DEF CreateMember, CreateOwner
<1>2. \A p, t, i, x : reqs' = [reqs EXCEPT ![r] = [@ EXCEPT !.pc = p, !.tenant = t, !.id = i, !.holder = x]]
                        => MovesTo(r, p)
  BY DEF IInv, TypeOK, MovesTo, Requesting
<1> QED  BY <1>1, <1>2

\* A step that signs nobody in.
SignsNobody(r) == /\ sessions' \subseteq sessions
                  /\ \E p \in Pcs \ {"grant", "mint"} : MovesTo(r, p)

LEMMA StepSigns ==
    ASSUME IInv, NEW r \in Slots, Step(r), ~AdmitUser(r), ~Grant(r), ~MintSession(r)
    PROVE  SignsNobody(r)
<1>0. reqs \in [Slots -> Requesting] /\ reqs[r] \in Requesting /\ IdleReq \in Requesting
  BY Defaults DEF IInv, TypeOK
<1>1. CASE \/ \E i \in Ids : SendLink(r, i)
           \/ \E l \in Links : Redeem(r, l)
           \/ \E s \in sessions : TouchSession(r, s)
           \/ \E k \in Tenants \X Ids : FindKey(r, k)
           \/ \E a \in Requests : Identify(r, a)
           \/ \E t \in Tenants, p \in Persons : Signup(r, t, p)
  <2>1. sessions' = sessions
    BY <1>1 DEF SendLink, Redeem, TouchSession, FindKey, Identify, Signup
  <2> QED  BY <1>1, <2>1, Starts DEF SignsNobody, Pcs
<1>2. CASE (\E l \in Links : MailLink(r, l)) \/ MailFails(r)
  <2>1. sessions' = sessions /\ \E ok \in BOOLEAN : AfterLink(r, ok)
    BY <1>2 DEF MailLink, MailFails
  <2>2. \E p \in {"rollback", "audit", "idle"} : MovesTo(r, p)
    BY <2>1, Moves DEF AfterLink
  <2> QED  BY <2>1, <2>2 DEF SignsNobody, Pcs
<1>3. CASE Refuse(r) \/ WriteRole(r) \/ ReadAddress(r) \/ CountKeys(r) \/ AddKey(r) \/ DeleteKey(r)
           \/ LogoutEverywhere(r) \/ SetBlocked(r) \/ SetPlatformAdmin(r) \/ CountOwners(r)
           \/ ReadSlug(r) \/ InsertTenant(r) \/ GrantOwner(r)
  <2>1. sessions' \subseteq sessions
    BY <1>3 DEF Refuse, WriteRole, ReadAddress, CountKeys, AddKey, DeleteKey, LogoutEverywhere, SetBlocked,
       SetPlatformAdmin, CountOwners, ReadSlug, InsertTenant, GrantOwner
  <2>2. \E p \in {"idle", "audit", "create", "add_key", "delete", "tenant", "owner", "link"} : MovesTo(r, p)
    BY <1>3, Moves DEF Refuse, WriteRole, ReadAddress, CountKeys, AddKey, DeleteKey, LogoutEverywhere, SetBlocked,
       SetPlatformAdmin, CountOwners, ReadSlug, InsertTenant, GrantOwner
  <2> QED  BY <2>1, <2>2 DEF SignsNobody, Pcs
<1>4. CASE DeleteUser(r) \/ Rollback(r)
  <2>1. sessions' \subseteq sessions  BY <1>4 DEF DeleteUser, Rollback, RemoveUser
  <2>2. \E p \in {"idle", "audit"} : MovesTo(r, p)  BY <1>4, Moves DEF DeleteUser, Rollback
  <2> QED  BY <2>1, <2>2 DEF SignsNobody, Pcs
<1>5. CASE RecordAudit(r)
  <2>1. sessions' = sessions /\ \E p \in {"idle", "flag", "owner"} : MovesTo(r, p)
    BY <1>5, Moves, ReqType DEF RecordAudit
  <2> QED  BY <2>1 DEF SignsNobody, Pcs
<1>6. CASE ReadMember(r) \/ CreateMember(r) \/ ReadAccount(r) \/ ReadDoomed(r) \/ CreateOwner(r)
  <2>1. sessions' = sessions
    BY <1>6 DEF ReadMember, CreateMember, ReadAccount, ReadDoomed, CreateOwner
  <2> QED  BY <1>6, <2>1, Moves, Reads, Creates DEF SignsNobody, Pcs
<1> QED  BY <1>1, <1>2, <1>3, <1>4, <1>5, <1>6 DEF Step

LEMMA BlockStep ==
    ASSUME IInv, [Next]_vars, NEW i \in Ids, users[i].blocked, SignedOut(i)
    PROVE  SignedOut(i)'
<1>1. ASSUME NEW r \in Slots, Step(r) PROVE SignedOut(i)'
  <2>1. CASE SignsNobody(r)
    BY <2>1 DEF SignsNobody, SignedOut, MovesTo
  <2>2. CASE MintSession(r)
    BY <2>2, Moves DEF MintSession, SignedOut, MovesTo
  <2>3. CASE Grant(r)
    BY <2>3, Moves DEF Grant, SignedOut, MovesTo
  <2>4. CASE AdmitUser(r)
    <3>1. reqs[r].id = i => Answer(r)  BY <2>4 DEF AdmitUser
    <3>2. Answer(r) \/ GoTo(r, "grant") \/ GoTo(r, "mint")  BY <2>4 DEF AdmitUser
    <3> QED  BY <2>4, <3>1, <3>2, Moves DEF AdmitUser, SignedOut, MovesTo
  <2> QED  BY <1>1, <2>1, <2>2, <2>3, <2>4, StepSigns
<1>2. CASE \/ \E s \in sessions : Logout(s)
           \/ \E l \in Links : ExpireLink(l)
           \/ UNCHANGED vars
  BY <1>2 DEF Logout, ExpireLink, vars, SignedOut
<1>3. CASE Restart
  BY <1>3 DEF Restart, SignedOut, IdleReq
<1> QED  BY <1>1, <1>2, <1>3 DEF Next

\* A request whose user has not been read yet is let in or refused.
LEMMA TouchedStep ==
    ASSUME NEW r \in Slots, Step(r), reqs[r].pc = "touched"
    PROVE  Refuse(r) \/ \E a \in Requests : Identify(r, a)
<1>1. /\ \A i \in Ids : ~SendLink(r, i)
      /\ \A l \in Links : ~MailLink(r, l) /\ ~Redeem(r, l)
      /\ \A s \in sessions : ~TouchSession(r, s)
      /\ \A k \in Tenants \X Ids : ~FindKey(r, k)
      /\ \A t \in Tenants, p \in Persons : ~Signup(r, t, p)
  BY DEF SendLink, MailLink, Redeem, TouchSession, FindKey, Signup
<1>2. ~MailFails(r) /\ ~AdmitUser(r) /\ ~Grant(r) /\ ~MintSession(r) /\ ~ReadMember(r)
      /\ ~WriteRole(r) /\ ~DeleteUser(r) /\ ~ReadAddress(r) /\ ~CreateMember(r) /\ ~Rollback(r)
  BY DEF MailFails, AdmitUser, Grant, MintSession, ReadMember, WriteRole, DeleteUser, ReadAddress,
         CreateMember, Rollback
<1>3. ~CountKeys(r) /\ ~AddKey(r) /\ ~DeleteKey(r) /\ ~LogoutEverywhere(r) /\ ~RecordAudit(r)
      /\ ~ReadAccount(r) /\ ~SetBlocked(r) /\ ~SetPlatformAdmin(r) /\ ~ReadDoomed(r) /\ ~CountOwners(r)
      /\ ~ReadSlug(r) /\ ~InsertTenant(r) /\ ~CreateOwner(r) /\ ~GrantOwner(r)
  BY DEF CountKeys, AddKey, DeleteKey, LogoutEverywhere, RecordAudit, ReadAccount, SetBlocked,
         SetPlatformAdmin, ReadDoomed, CountOwners, ReadSlug, InsertTenant, CreateOwner, GrantOwner
<1> QED  BY <1>1, <1>2, <1>3 DEF Step

\* No request whose credential is that of a blocked row gets to its handler.
LEMMA UnheardStep ==
    ASSUME IInv, [Next]_vars, NEW i \in Ids, users[i].blocked,
           NEW r \in Slots, reqs[r].pc = "touched", reqs[r].by = i
    PROVE  reqs'[r].pc # "handle"
<1>1. ASSUME NEW s \in Slots, Step(s) PROVE reqs'[r].pc # "handle"
  <2>1. CASE s = r
    <3>1. \A a : ~Identify(r, a)  BY DEF Identify
    <3>2. Answer(r)  BY <1>1, <2>1, <3>1, TouchedStep DEF Refuse
    <3> QED  BY <3>2, Moves DEF MovesTo
  <2>2. CASE s # r
    <3>1. (AdmitUser(s) \/ Grant(s) \/ MintSession(s)) => \E p : MovesTo(s, p)
      BY Moves DEF AdmitUser, Grant, MintSession
    <3>2. \E p : MovesTo(s, p)  BY <1>1, <3>1, StepSigns DEF SignsNobody
    <3> QED  BY <2>2, <3>2 DEF MovesTo
  <2> QED  BY <2>1, <2>2
<1>2. CASE \/ \E s \in sessions : Logout(s)
           \/ \E l \in Links : ExpireLink(l)
           \/ UNCHANGED vars
  BY <1>2 DEF Logout, ExpireLink, vars
<1>3. CASE Restart
  BY <1>3 DEF Restart, IdleReq
<1> QED  BY <1>1, <1>2, <1>3 DEF Next

\* A blocked account that is signed out gets no session before it is
\* unblocked, whatever links are outstanding, and while it is blocked no request of its
\* sessions and keys reaches a handler (issue_session_cookie, session_layer, set_blocked).
THEOREM BlocksHold == Spec => BlockHolds
<1>1. IInv /\ [Next]_vars =>
        [\A i \in Ids : users[i].blocked =>
            /\ SignedOut(i) /\ users'[i].blocked => SignedOut(i)'
            /\ \A r \in Slots :
                 reqs[r].pc = "touched" /\ reqs[r].by = i => reqs'[r].pc # "handle"]_vars
  BY BlockStep, UnheardStep
<1> QED  BY <1>1, Inductive, PTL DEF Spec, BlockHolds

-----------------------------------------------------------------------------
(* The console keeps an admin.                                             *)

\* A platform request is not about the row of its caller.
SelfOK(q) ==
    /\ q.pc = "handle" /\ q.ask.op \in {"update_user", "platform_delete"} => q.ask.id # q.by
    /\ q.pc \in {"block", "flag"} \/ (q.pc = "audit" /\ q.then = "flag") => q.id # q.by
    /\ q.pc \in {"count", "delete"} =>
         \/ q.ask.op = "delete_user"
         \/ q.ask.op = "platform_delete" /\ q.id # q.by
    /\ q.pc = "rollback" => q.ask.op = "invite"
SelfInv == \A r \in Slots : SelfOK(reqs[r])

\* The phases that SelfOK says nothing about.
Calm == Pcs \ {"handle", "block", "flag", "audit", "count", "delete", "rollback"}

LEMMA SelfMove ==
    ASSUME SelfInv, NEW r \in Slots, NEW p, MovesTo(r, p), SelfOK(reqs'[r])
    PROVE  SelfInv'
BY DEF SelfInv, SelfOK, MovesTo

LEMMA CalmMove ==
    ASSUME SelfInv, NEW r \in Slots, NEW p \in Calm, MovesTo(r, p)
    PROVE  SelfInv'
<1>1. reqs'[r].pc \in Calm  BY DEF MovesTo
<1>2. SelfOK(reqs'[r])  BY <1>1 DEF SelfOK, Calm
<1> QED  BY <1>2, SelfMove

LEMMA RecordSelf ==
    ASSUME IInv, SelfInv, NEW r \in Slots, NEW t, NEW p, Record(r, t, p),
           p = "flag" => reqs[r].id # reqs[r].by
    PROVE  SelfInv'
<1>1. MovesTo(r, "audit") /\ reqs'[r].pc = "audit" /\ reqs'[r].then = p /\ reqs'[r].id = reqs[r].id /\ reqs'[r].by = reqs[r].by
  BY Moves DEF MovesTo
<1>2. SelfOK(reqs'[r])  BY <1>1 DEF SelfOK
<1> QED  BY <1>1, <1>2, SelfMove

LEMMA SelfStep ==
    ASSUME IInv, SelfInv, NEW r \in Slots, Step(r)
    PROVE  SelfInv'
<1>0. SelfOK(reqs[r])  BY DEF SelfInv
<1>1. CASE \E p \in Calm : MovesTo(r, p)  BY <1>1, CalmMove
<1>2. CASE \E t, p : Record(r, t, p) /\ p # "flag"  BY <1>2, RecordSelf
<1>3. ASSUME NEW a \in Requests, Identify(r, a) PROVE SelfInv'
  <2>1. MovesTo(r, "handle") /\ reqs'[r].ask = a /\ reqs'[r].by = reqs[r].by /\ reqs'[r].pc = "handle"
    BY <1>3, Starts DEF MovesTo
  <2>2. a.op \in {"update_user", "platform_delete"} => a.id # reqs[r].by
    BY <1>3 DEF Identify, Permitted
  <2>3. SelfOK(reqs'[r])  BY <2>1, <2>2 DEF SelfOK
  <2> QED  BY <2>1, <2>3, SelfMove
<1>4. CASE (\E l \in Links : MailLink(r, l)) \/ MailFails(r)
  <2>1. \E ok \in BOOLEAN : AfterLink(r, ok)  BY <1>4 DEF MailLink, MailFails
  <2>2. \/ Answer(r)
        \/ \E t, p : Record(r, t, p) /\ p # "flag"
        \/ GoTo(r, "rollback") /\ reqs[r].ask.op = "invite"
    BY <2>1 DEF AfterLink
  <2>3. CASE GoTo(r, "rollback") /\ reqs[r].ask.op = "invite"
    <3>1. MovesTo(r, "rollback") /\ reqs'[r].pc = "rollback" /\ reqs'[r].ask = reqs[r].ask
      BY <2>3, Moves DEF MovesTo
    <3>2. SelfOK(reqs'[r])  BY <2>3, <3>1 DEF SelfOK
    <3> QED  BY <3>1, <3>2, SelfMove
  <2> QED  BY <1>1, <1>2, <2>2, <2>3, Moves DEF Calm, Pcs
<1>5. CASE ReadMember(r) \/ ReadAccount(r) \/ ReadDoomed(r)
  <2>1. reqs[r].pc = "handle"
    BY <1>5 DEF ReadMember, ReadAccount, ReadDoomed
  <2>2. CASE ~\E p \in Calm : MovesTo(r, p)
    <3>1. ~Answer(r) /\ ~MovesTo(r, "set_role")
      BY <2>2, Moves DEF Calm, Pcs
    <3>2. PICK p \in {"block", "flag", "count", "delete"} : MovesTo(r, p) /\ About(r, reqs[r].ask.id)
      BY <1>5, <3>1, Reads
    <3>3. \/ reqs[r].ask.op = "delete_user" /\ p = "delete"
          \/ reqs[r].ask.op = "update_user" /\ p \in {"block", "flag"}
          \/ reqs[r].ask.op = "platform_delete" /\ p \in {"count", "delete"}
      BY <1>5, <3>1, <3>2, Reads DEF ReadMember, ReadAccount, ReadDoomed, MovesTo
    <3>4. reqs'[r].pc = p  BY <3>2 DEF MovesTo
    <3>5. SelfOK(reqs'[r])  BY <1>0, <2>1, <3>2, <3>3, <3>4 DEF SelfOK, About
    <3> QED  BY <3>2, <3>5, SelfMove
  <2> QED  BY <1>1, <2>2
<1>6. CASE CountOwners(r)
  <2>1. CASE GoTo(r, "delete")
    <3>1. /\ MovesTo(r, "delete") /\ reqs'[r].pc = "delete" /\ reqs'[r].ask = reqs[r].ask /\ reqs'[r].id = reqs[r].id
          /\ reqs'[r].by = reqs[r].by
      BY <2>1, Moves DEF MovesTo
    <3>2. SelfOK(reqs'[r])  BY <1>0, <1>6, <3>1 DEF SelfOK, CountOwners
    <3> QED  BY <3>1, <3>2, SelfMove
  <2> QED  BY <1>1, <1>6, <2>1, Moves DEF CountOwners, Calm, Pcs
<1>7. CASE RecordAudit(r)
  <2>1. CASE GoTo(r, "flag") /\ reqs[r].then = "flag"
    <3>1. /\ MovesTo(r, "flag") /\ reqs'[r].pc = "flag" /\ reqs'[r].id = reqs[r].id /\ reqs'[r].by = reqs[r].by
      BY <2>1, Moves DEF MovesTo
    <3>2. SelfOK(reqs'[r])  BY <1>0, <1>7, <2>1, <3>1 DEF SelfOK, RecordAudit
    <3> QED  BY <3>1, <3>2, SelfMove
  <2> QED  BY <1>1, <1>7, <2>1, Moves, ReqType DEF RecordAudit, Calm, Pcs
<1>8. CASE SetBlocked(r)
  <2>1. reqs[r].id # reqs[r].by  BY <1>0, <1>8 DEF SetBlocked, SelfOK
  <2> QED  BY <1>8, <2>1, RecordSelf DEF SetBlocked
<1>9. CASE Grant(r) \/ AdmitUser(r) \/ MintSession(r) \/ Refuse(r) \/ ReadAddress(r) \/ CountKeys(r)
           \/ ReadSlug(r) \/ GrantOwner(r) \/ CreateMember(r) \/ CreateOwner(r) \/ Rollback(r)
           \/ (\E i \in Ids : SendLink(r, i)) \/ (\E l \in Links : Redeem(r, l))
           \/ (\E s \in sessions : TouchSession(r, s)) \/ (\E k \in Tenants \X Ids : FindKey(r, k))
           \/ (\E t \in Tenants, p \in Persons : Signup(r, t, p))
  <2>1. \E p \in {"grant", "mint", "idle", "create", "add_key", "tenant", "link", "grant_owner", "redeemed", "touched"} :
          MovesTo(r, p)
    BY <1>9, Moves, Starts, Creates
       DEF Grant, AdmitUser, MintSession, Refuse, ReadAddress, CountKeys, ReadSlug, GrantOwner, Rollback
  <2> QED  BY <1>1, <2>1 DEF Calm, Pcs
<1>10. CASE WriteRole(r) \/ DeleteUser(r) \/ AddKey(r) \/ DeleteKey(r) \/ LogoutEverywhere(r)
            \/ SetPlatformAdmin(r) \/ InsertTenant(r)
  <2>1. \/ Answer(r) \/ GoTo(r, "owner") \/ \E t, p : Record(r, t, p) /\ p # "flag"
    BY <1>10 DEF WriteRole, DeleteUser, AddKey, DeleteKey, LogoutEverywhere, SetPlatformAdmin, InsertTenant
  <2> QED  BY <1>1, <1>2, <2>1, Moves DEF Calm, Pcs
<1> QED  BY <1>3, <1>4, <1>5, <1>6, <1>7, <1>8, <1>9, <1>10 DEF Step

LEMMA SelfNext == IInv /\ SelfInv /\ [Next]_vars => SelfInv'
<1> SUFFICES ASSUME IInv, SelfInv, [Next]_vars PROVE SelfInv'  OBVIOUS
<1>1. CASE \E r \in Slots : Step(r)  BY <1>1, SelfStep
<1>2. CASE (\E s \in sessions : Logout(s)) \/ (\E l \in Links : ExpireLink(l)) \/ UNCHANGED vars
  BY <1>2 DEF Logout, ExpireLink, vars, SelfInv, SelfOK
<1>3. CASE Restart  BY <1>3 DEF Restart, SelfInv, SelfOK, IdleReq
<1> QED  BY <1>1, <1>2, <1>3 DEF Next

\* One row changes, or rows gain the flag.
LEMMA ConsoleRows ==
    ASSUME IInv, NEW r \in Slots, Step(r)
    PROVE  \/ Working \subseteq Working'
           \/ /\ SetBlocked(r) \/ SetPlatformAdmin(r) \/ DeleteUser(r) \/ Rollback(r)
              /\ \A i \in Ids \ {reqs[r].id} : users'[i] = users[i]
<1>0. users \in [Ids -> UserRows] /\ reqs[r].id \in Ids /\ reqs[r].ask \in Asks
  BY ReqType DEF IInv, TypeOK
<1>1. CASE SetBlocked(r) \/ SetPlatformAdmin(r) \/ DeleteUser(r) \/ Rollback(r)
  BY <1>0, <1>1 DEF SetBlocked, SetPlatformAdmin, DeleteUser, Rollback, RemoveUser
<1>2. CASE WriteRole(r) \/ Grant(r) \/ GrantOwner(r)
  <2>1. \/ users' = users
        \/ \E x : users' = [users EXCEPT ![reqs[r].id] = [@ EXCEPT !.role = x]]
        \/ users' = [users EXCEPT ![reqs[r].id] = [@ EXCEPT !.admin = TRUE]]
    BY <1>2 DEF WriteRole, Grant, GrantOwner
  <2>2. CASE users' = users  BY <2>2 DEF Working, Present
  <2>3. ASSUME NEW x, users' = [users EXCEPT ![reqs[r].id] = [@ EXCEPT !.role = x]] PROVE Working \subseteq Working'
    BY <1>0, <2>3 DEF Working, Present, UserRows
  <2>4. CASE users' = [users EXCEPT ![reqs[r].id] = [@ EXCEPT !.admin = TRUE]]
    BY <1>0, <2>4 DEF Working, Present, UserRows
  <2> QED  BY <2>1, <2>2, <2>3, <2>4
<1>3. CASE CreateMember(r) \/ CreateOwner(r)
  <2>1. users' = users \/ \E n \in Ids : \E t, p, x : InsertUser(n, t, p, x)
    BY <1>3 DEF CreateMember, CreateOwner
  <2>2. ASSUME NEW n \in Ids, NEW t, NEW p, NEW x, InsertUser(n, t, p, x) PROVE Working \subseteq Working'
    <3>1. ~Present(n)  BY <2>2 DEF InsertUser, IsNextId, Ids
    <3>2. \A i \in Ids \ {n} : users'[i] = users[i]  BY <1>0, <2>2 DEF InsertUser
    <3> QED  BY <3>1, <3>2 DEF Working, Present
  <2> QED  BY <2>1, <2>2 DEF Working, Present
<1>4. CASE users' = users  BY <1>4 DEF Working, Present
<1>5. \/ users' = users \/ WriteRole(r) \/ Grant(r) \/ GrantOwner(r) \/ CreateMember(r) \/ CreateOwner(r)
      \/ SetBlocked(r) \/ SetPlatformAdmin(r) \/ DeleteUser(r) \/ Rollback(r)
  BY DEF Step, SendLink, MailLink, Redeem, MailFails, AdmitUser, MintSession, TouchSession, FindKey, Identify,
     Refuse, ReadMember, ReadAddress, CountKeys, AddKey, DeleteKey, LogoutEverywhere, RecordAudit, ReadAccount,
     ReadDoomed, CountOwners, Signup, ReadSlug, InsertTenant
<1> QED  BY <1>1, <1>2, <1>3, <1>4, <1>5

LEMMA ConsoleStep ==
    ASSUME IInv, SelfInv, [Next]_vars, Working # {}, Working' = {}
    PROVE  \E r \in Slots : /\ reqs'[r] # reqs[r]
                            /\ reqs[r].ask.op \in {"delete_user", "invite"} \/ reqs[r].by \notin Working
<1>1. ASSUME NEW r \in Slots, Step(r)
      PROVE  /\ reqs'[r] # reqs[r]
             /\ reqs[r].ask.op \in {"delete_user", "invite"} \/ reqs[r].by \notin Working
  <2>1. /\ SetBlocked(r) \/ SetPlatformAdmin(r) \/ DeleteUser(r) \/ Rollback(r)
        /\ \A i \in Ids \ {reqs[r].id} : users'[i] = users[i]
    BY <1>1, ConsoleRows
  <2>2. SelfOK(reqs[r]) /\ reqs[r].by \in Ids  BY ReqType DEF SelfInv
  <2>3. reqs'[r].pc \in {"audit", "idle"}
    BY <2>1, Moves DEF SetBlocked, SetPlatformAdmin, DeleteUser, Rollback, MovesTo
  <2>4. reqs[r].pc \in {"block", "flag", "delete", "rollback"}
    BY <2>1 DEF SetBlocked, SetPlatformAdmin, DeleteUser, Rollback
  <2>5. reqs[r].id # reqs[r].by => reqs[r].by \notin Working
    BY <2>1, <2>2 DEF Working, Present
  <2> QED  BY <2>2, <2>3, <2>4, <2>5 DEF SelfOK
<1>2. CASE (\E s \in sessions : Logout(s)) \/ (\E l \in Links : ExpireLink(l)) \/ UNCHANGED vars
  BY <1>2 DEF Logout, ExpireLink, vars, Working, Present
<1>3. CASE Restart
  <2>1. \A i \in Ids : users'[i] = users[i] \/ users'[i] = [users[i] EXCEPT !.admin = TRUE]
    BY <1>3 DEF Restart
  <2>2. \A i \in Ids : users[i] \in UserRows  BY DEF IInv, TypeOK
  <2>3. Working \subseteq Working'  BY <2>1, <2>2 DEF Working, Present, UserRows
  <2> QED  BY <2>3
<1> QED  BY <1>1, <1>2, <1>3 DEF Next

\* The platform console's last admin is taken only by a request whose caller lost
\* the rights meanwhile, by a tenant's delete_user, or by an invitation rolled
\* back (the checks for one's own row in update_user and delete_user, platform.rs).
THEOREM ConsoleStaysUsable == Spec => ConsoleKept
<1>1. IInv /\ SelfInv /\ [Next]_vars =>
        [Working # {} => \/ Working' # {}
                         \/ \E r \in Slots :
                              /\ reqs'[r] # reqs[r]
                              /\ reqs[r].ask.op \in {"delete_user", "invite"} \/ reqs[r].by \notin Working]_vars
  BY ConsoleStep
<1>2. Init => SelfInv  BY DEF Init, SelfInv, SelfOK, IdleReq
<1> QED  BY <1>1, <1>2, SelfNext, Inductive, PTL DEF Spec, ConsoleKept
=============================================================================
