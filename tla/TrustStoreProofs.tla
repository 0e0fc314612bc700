--------------------------- MODULE TrustStoreProofs ---------------------------
(***************************************************************************)
(* Proofs about TrustStore for any sets of tenants and enrolments.         *)
(***************************************************************************)
EXTENDS TrustStore, TLAPS

Req == [pc : Pcs, tenant : Tenants, list : SUBSET Tenants, ok : BOOLEAN]

LEMMA SomeTenantIs == SomeTenant \in Tenants
BY ConstantsAssumption DEF SomeTenant

LEMMA IdleIsReq == IdleReq \in Req /\ IdleReq.pc = "idle"
BY SomeTenantIs DEF IdleReq, Req, Pcs

LEMMA TypeReq == TypeOK => reqs \in [Slots -> Req]
BY DEF TypeOK, Req

-----------------------------------------------------------------------------
(* The invariant, one step of the proof per action.                        *)

\* A step that touches only enrolment r: its new record q keeps IInv if q is
\* well formed and, when it holds a list, holds one with all of boot.
LEMMA ReqStep ==
    ASSUME IInv,
           NEW r \in Slots, NEW q \in Req,
           reqs' = [reqs EXCEPT ![r] = q],
           UNCHANGED <<secrets, signing, up, boot, crashes>>,
           up => ListSince(store'),
           ~up => store' = store,
           q.pc # "idle" => up,
           q.pc = "swap" => ListSince(q.list)
    PROVE  IInv'
<1>1. reqs' \in [Slots -> Req]
  BY TypeReq DEF IInv
<1>2. \A s \in Slots : reqs'[s] = IF s = r THEN q ELSE reqs[s]
  BY TypeReq DEF IInv
<1>3. TypeOK'
  BY <1>1 DEF IInv, TypeOK, Req, ListSince, Ready
<1>4. Ready' = Ready
  BY DEF Ready
<1> QED
  BY <1>2, <1>3, <1>4 DEF IInv, ListSince

\* IInv holds in every reachable state (TrustStore's own steps preserve it).
THEOREM Inductive == Spec => []IInv
<1>1. Init => IInv
  <2> SUFFICES ASSUME Init PROVE IInv
    OBVIOUS
  <2>1. TypeOK
    BY IdleIsReq DEF Init, TypeOK, Req
  <2>2. \A r \in Slots : reqs[r].pc = "idle"
    BY IdleIsReq DEF Init
  <2> QED
    BY <2>1, <2>2 DEF Init, IInv, ListSince
<1>2. IInv /\ [Next]_vars => IInv'
  <2> SUFFICES ASSUME IInv, [Next]_vars PROVE IInv'
    OBVIOUS
  <2>0. reqs \in [Slots -> Req]
    BY TypeReq DEF IInv
  <2>1. ASSUME NEW t \in Tenants, CreateTenant(t) PROVE IInv'
    <3>1. TypeOK'
      BY <2>1 DEF IInv, TypeOK, CreateTenant
    <3>2. Ready \subseteq Ready'
      BY <2>1 DEF IInv, TypeOK, CreateTenant, Ready
    <3> QED
      BY <2>1, <3>1, <3>2 DEF IInv, CreateTenant, ListSince
  <2>2. ASSUME NEW t \in Tenants, EnsureSecrets(t) PROVE IInv'
    <3>1. TypeOK'
      BY <2>2 DEF IInv, TypeOK, EnsureSecrets
    <3>2. Ready \subseteq Ready'
      BY <2>2 DEF IInv, TypeOK, EnsureSecrets, Ready
    <3> QED
      BY <2>2, <3>1, <3>2 DEF IInv, EnsureSecrets, ListSince
  <2>3. ASSUME NEW t \in Tenants, SecretsFail(t) PROVE IInv'
    <3>1. Ready' = Ready
      BY <2>3 DEF SecretsFail, Ready
    <3> QED
      BY <2>3, <3>1 DEF IInv, TypeOK, SecretsFail, ListSince
  <2>4. ASSUME NEW r \in Slots, NEW t \in Tenants, Enroll(r, t) PROVE IInv'
    <3> DEFINE q == [pc |-> "check", tenant |-> t, list |-> {}, ok |-> FALSE]
    <3>1. q \in Req /\ q.pc = "check" /\ q.tenant = t
      BY DEF Req, Pcs
    <3>2. t \in Ready
      BY <2>4 DEF Enroll, Ready
    <3> HIDE DEF q
    <3>3. reqs' = [reqs EXCEPT ![r] = q]
      BY <2>4 DEF Enroll, q
    <3> QED
      BY <2>4, <3>1, <3>2, <3>3, ReqStep DEF Enroll, IInv, TypeOK
  <2>5. ASSUME NEW r \in Slots, Step(r) PROVE IInv'
    <3> DEFINE a == reqs[r]
    <3>0. a \in Req
      BY <2>0
    <3>1. CASE Check(r)
      <4> DEFINE q == IF a.tenant \in store THEN [a EXCEPT !.pc = "respond", !.ok = TRUE]
                                       ELSE [a EXCEPT !.pc = "list"]
      <4>1. q \in Req /\ q.pc # "swap" /\ q.tenant = a.tenant
        BY <3>0 DEF Req, Pcs
      <4>2. a.pc # "idle"
        BY <3>1 DEF Check
      <4>3. reqs' = [reqs EXCEPT ![r] = q]
        BY <3>1, <2>0 DEF Check
      <4> HIDE DEF q
      <4> QED
        BY <3>1, <4>1, <4>2, <4>3, ReqStep DEF Check, IInv, TypeOK
    <3>2. CASE ListCas(r)
      <4> DEFINE q == [a EXCEPT !.pc = "swap", !.list = Ready]
      <4>1. q \in Req /\ q.list = Ready /\ q.tenant = a.tenant
        BY <3>0 DEF Req, Pcs, Ready
      <4>2. a.pc # "idle" /\ up
        BY <3>2 DEF ListCas, IInv
      <4>3. reqs' = [reqs EXCEPT ![r] = q]
        BY <3>2, <2>0 DEF ListCas
      <4> HIDE DEF q
      <4> QED
        BY <3>2, <4>1, <4>2, <4>3, ReqStep DEF ListCas, IInv, ListSince
    <3>3. CASE ListFails(r)
      <4> DEFINE q == [a EXCEPT !.pc = "respond"]
      <4>1. q \in Req /\ q.pc # "swap" /\ q.tenant = a.tenant
        BY <3>0 DEF Req, Pcs
      <4>2. a.pc # "idle"
        BY <3>3 DEF ListFails
      <4>3. reqs' = [reqs EXCEPT ![r] = q]
        BY <3>3, <2>0 DEF ListFails
      <4> HIDE DEF q
      <4> QED
        BY <3>3, <4>1, <4>2, <4>3, ReqStep DEF ListFails, IInv, TypeOK
    <3>4. CASE Swap(r)
      <4> DEFINE q == [a EXCEPT !.pc = "recheck"]
      <4>1. q \in Req /\ q.pc # "swap" /\ q.tenant = a.tenant
        BY <3>0 DEF Req, Pcs
      <4>2. a.pc = "swap" /\ store' = a.list
        BY <3>4 DEF Swap
      <4>3. reqs' = [reqs EXCEPT ![r] = q]
        BY <3>4, <2>0 DEF Swap
      <4>4. up /\ ListSince(a.list) /\ ListSince(store')
        BY <3>4, <4>2 DEF Swap, IInv, ListSince, Ready
      <4> HIDE DEF q
      <4> QED
        BY <3>4, <4>1, <4>2, <4>3, <4>4, ReqStep DEF Swap, IInv, TypeOK
    <3>5. CASE Recheck(r)
      <4> DEFINE q == IF a.tenant \in store THEN [a EXCEPT !.pc = "respond", !.ok = TRUE]
                                       ELSE [a EXCEPT !.pc = "respond"]
      <4>1. q \in Req /\ q.pc # "swap" /\ q.tenant = a.tenant
        BY <3>0 DEF Req, Pcs
      <4>2. a.pc # "idle"
        BY <3>5 DEF Recheck
      <4>3. reqs' = [reqs EXCEPT ![r] = q]
        BY <3>5, <2>0 DEF Recheck
      <4> HIDE DEF q
      <4> QED
        BY <3>5, <4>1, <4>2, <4>3, ReqStep DEF Recheck, IInv, TypeOK
    <3>6. CASE Respond(r)
      BY <3>6, IdleIsReq, ReqStep DEF Respond, IInv, TypeOK
    <3> QED
      BY <2>5, <3>1, <3>2, <3>3, <3>4, <3>5, <3>6 DEF Step
  <2>6. CASE Crash
    <3>1. \A r \in Slots : reqs'[r] = IdleReq
      BY <2>6 DEF Crash
    <3>2. TypeOK'
      <4>1. reqs' \in [Slots -> Req]
        BY <2>6, IdleIsReq DEF Crash
      <4>2. crashes' \in Nat /\ secrets' = secrets /\ boot' = boot
        BY <2>6 DEF Crash, IInv, TypeOK
      <4>3. up' \in BOOLEAN /\ signing' = {} /\ store' = {}
        BY <2>6, Zenon DEF Crash
      <4> QED
        BY <4>1, <4>2, <4>3 DEF IInv, TypeOK, Req
    <3>3. Ready' = Ready
      BY <2>6 DEF Crash, Ready
    <3> QED
      BY <2>6, <3>1, <3>2, <3>3, IdleIsReq DEF Crash, IInv, ListSince
  <2>7. CASE Start
    <3>1. \A r \in Slots : reqs[r].pc # "swap"
      BY <2>7 DEF Start, IInv
    <3>2. TypeOK'
      BY <2>7 DEF Start, IInv, TypeOK
    <3>3. Ready' = {t \in Tenants : secrets[t] # "none"}
      BY <2>7 DEF Start, IInv, TypeOK, Ready
    <3>4. Ready \subseteq Ready'
      BY <3>3 DEF Ready
    <3> QED
      BY <2>7, <3>1, <3>2, <3>3, <3>4 DEF Start, IInv, ListSince
  <2>8. CASE UNCHANGED vars
    BY <2>8 DEF vars, IInv, TypeOK, ListSince, Ready
  <2> QED
    BY <2>1, <2>2, <2>3, <2>4, <2>5, <2>6, <2>7, <2>8 DEF Next, Signup
<1> QED
  BY <1>1, <1>2, PTL DEF Spec

\* The rows, the snapshot and the enrolments keep their types.
THEOREM TypeCorrect == Spec => []TypeOK
<1>1. IInv => TypeOK
  BY DEF IInv
<1> QED
  BY <1>1, Inductive, PTL

\* Every tenant found at the start stays trusted while the process runs,
\* however many rebuilds overwrite each other.
THEOREM BootStaysTrusted == Spec => []BootTrusted
<1>1. IInv => BootTrusted
  BY DEF IInv, ListSince, BootTrusted
<1> QED
  BY <1>1, Inductive, PTL

\* A tenant trusted while no rebuild that missed it is under way stays so
\* until the process stops.
THEOREM SettledStaysTrusted == Spec => SettledStays
<1>1. IInv /\ [Next]_vars => [\A t \in Tenants : Settled(t) /\ up' => Settled(t)']_vars
  <2> SUFFICES ASSUME IInv, Next, NEW t \in Tenants, Settled(t), up'
               PROVE  Settled(t)'
    BY DEF vars, Settled
  <2>0. reqs \in [Slots -> Req]
    BY TypeReq DEF IInv
  <2>1. ASSUME NEW x \in Tenants, Signup(x) PROVE Settled(t)'
    BY <2>1 DEF Signup, CreateTenant, EnsureSecrets, SecretsFail, Settled
  <2>2. ASSUME NEW r \in Slots, NEW x \in Tenants, Enroll(r, x) PROVE Settled(t)'
    BY <2>0, <2>2 DEF Enroll, Settled
  <2>3. ASSUME NEW r \in Slots, Step(r) PROVE Settled(t)'
    <3>1. CASE Check(r)
      BY <2>0, <3>1 DEF Check, Settled, Req
    <3>2. CASE ListCas(r)
      <4>1. up
        BY <3>2 DEF ListCas, IInv
      <4>2. t \in Ready
        BY <4>1 DEF IInv, ListSince, Settled
      <4> QED
        BY <2>0, <3>2, <4>2 DEF ListCas, Settled, Req
    <3>3. CASE ListFails(r)
      BY <2>0, <3>3 DEF ListFails, Settled, Req
    <3>4. CASE Swap(r)
      BY <2>0, <3>4 DEF Swap, Settled, Req
    <3>5. CASE Recheck(r)
      BY <2>0, <3>5 DEF Recheck, Settled, Req
    <3>6. CASE Respond(r)
      BY <2>0, <3>6, IdleIsReq DEF Respond, Settled, Req
    <3> QED
      BY <2>3, <3>1, <3>2, <3>3, <3>4, <3>5, <3>6 DEF Step
  <2>4. CASE Crash
    BY <2>4 DEF Crash
  <2>5. CASE Start
    BY <2>5 DEF Start, Settled, IInv
  <2> QED
    BY <2>1, <2>2, <2>3, <2>4, <2>5 DEF Next
<1> QED
  BY <1>1, Inductive, PTL DEF Spec, SettledStays
=============================================================================
