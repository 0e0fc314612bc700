------------------------------ MODULE TrustStore ------------------------------
(***************************************************************************)
(* The mTLS trust store: which tenants' CAs the agent listener accepts     *)
(* (MtlsContext in server/src/transport/mtls.rs), the sign-ups that give a *)
(* tenant its CA, the enrolments that must find it loaded, and the start   *)
(* of the process, which backfills and loads them all.                     *)
(*                                                                         *)
(* The store is an immutable snapshot behind a lock.  A rebuild reads the  *)
(* CA list from the database and swaps the snapshot later; nothing orders  *)
(* the rebuilds of two enrolments.                                         *)
(***************************************************************************)
EXTENDS Naturals

CONSTANTS
    Tenants,      \* tenants that may sign up
    Slots,        \* enrolments the server is running
    MaxCrashes    \* bound: times the process stops

ASSUME ConstantsAssumption == Tenants # {} /\ MaxCrashes \in Nat

VARIABLES
    secrets,  \* each tenant: "none"; "bare", a row without a CA; "ready"
    signing,  \* sign-ups between creating the row and its CA
    up,       \* is the process serving?
    store,    \* tenants of the current snapshot's tenant_by_issuer_der
    reqs,     \* enrolments that have burned their nonce
    boot,     \* ghost: tenants with a CA at the last start
    crashes

vars == <<secrets, signing, up, store, reqs, boot, crashes>>

Ready      == {t \in Tenants : secrets[t] = "ready"}
SomeTenant == CHOOSE t \in Tenants : TRUE
IdleReq    == [pc |-> "idle", tenant |-> SomeTenant, list |-> {}, ok |-> FALSE]
Pcs        == {"idle", "check", "list", "swap", "recheck", "respond"}

Init ==
    /\ secrets = [t \in Tenants |-> "none"]
    /\ signing = {}
    /\ up = TRUE
    /\ store = {}
    /\ reqs = [r \in Slots |-> IdleReq]
    /\ boot = {}
    /\ crashes = 0

-----------------------------------------------------------------------------
(* A tenant signs up, or the platform console creates it.                  *)

CreateTenant(t) ==
    /\ up
    /\ secrets[t] = "none"
    /\ secrets' = [secrets EXCEPT ![t] = "bare"]
    /\ signing' = signing \cup {t}
    /\ UNCHANGED <<up, store, reqs, boot, crashes>>

\* ensure_secrets: the CA and the signing key are generated and stored.  The
\* trust store is not told.
EnsureSecrets(t) ==
    /\ t \in signing
    /\ secrets' = [secrets EXCEPT ![t] = "ready"]
    /\ signing' = signing \ {t}
    /\ UNCHANGED <<up, store, reqs, boot, crashes>>

\* It fails: the sign-up answers 500 and leaves the row without a CA.
SecretsFail(t) ==
    /\ t \in signing
    /\ signing' = signing \ {t}
    /\ UNCHANGED <<secrets, up, store, reqs, boot, crashes>>

-----------------------------------------------------------------------------
(* The tail of an enrolment: ensure_tenant_trusted, then the answer.       *)

Enroll(r, t) ==
    /\ up
    /\ reqs[r].pc = "idle"
    /\ secrets[t] = "ready"
    /\ reqs' = [reqs EXCEPT ![r] = [pc |-> "check", tenant |-> t, list |-> {},
                                    ok |-> FALSE]]
    /\ UNCHANGED <<secrets, signing, up, store, boot, crashes>>

\* Mutant of Check: any loaded CA will do.
CheckAny(r) ==
    /\ reqs[r].pc = "check"
    /\ reqs' = [reqs EXCEPT ![r] =
         [@ EXCEPT !.pc = IF store # {} THEN "respond" ELSE "list",
                   !.ok = store # {}]]
    /\ UNCHANGED <<secrets, signing, up, store, boot, crashes>>

\* trusts_tenant on the current snapshot; a hit ends ensure_tenant_trusted.
Check(r) ==
    /\ reqs[r].pc = "check"
    /\ reqs' = [reqs EXCEPT ![r] =
         IF reqs[r].tenant \in store THEN [@ EXCEPT !.pc = "respond", !.ok = TRUE]
                                     ELSE [@ EXCEPT !.pc = "list"]]
    /\ UNCHANGED <<secrets, signing, up, store, boot, crashes>>

\* Mutant of ListCas: the rebuild loads only the CA it was asked for.
ListOwn(r) ==
    /\ reqs[r].pc = "list"
    /\ reqs' = [reqs EXCEPT ![r] = [@ EXCEPT !.pc = "swap", !.list = {reqs[r].tenant}]]
    /\ UNCHANGED <<secrets, signing, up, store, boot, crashes>>

\* build_state reads every tenant's CA.  Subjects are unique: slugs are.
ListCas(r) ==
    /\ reqs[r].pc = "list"
    /\ reqs' = [reqs EXCEPT ![r] = [@ EXCEPT !.pc = "swap", !.list = Ready]]
    /\ UNCHANGED <<secrets, signing, up, store, boot, crashes>>

\* The rebuild fails: logged, and the enrolment answers all the same, its
\* nonce being burned.
ListFails(r) ==
    /\ reqs[r].pc = "list"
    /\ reqs' = [reqs EXCEPT ![r] = [@ EXCEPT !.pc = "respond"]]
    /\ UNCHANGED <<secrets, signing, up, store, boot, crashes>>

Swap(r) ==
    /\ reqs[r].pc = "swap"
    /\ store' = reqs[r].list
    /\ reqs' = [reqs EXCEPT ![r] = [@ EXCEPT !.pc = "recheck"]]
    /\ UNCHANGED <<secrets, signing, up, boot, crashes>>

Recheck(r) ==
    /\ reqs[r].pc = "recheck"
    /\ reqs' = [reqs EXCEPT ![r] =
         IF reqs[r].tenant \in store THEN [@ EXCEPT !.pc = "respond", !.ok = TRUE]
                                     ELSE [@ EXCEPT !.pc = "respond"]]
    /\ UNCHANGED <<secrets, signing, up, store, boot, crashes>>

\* The answer tells the agent to open its mTLS connection.
Respond(r) ==
    /\ reqs[r].pc = "respond"
    /\ reqs' = [reqs EXCEPT ![r] = IdleReq]
    /\ UNCHANGED <<secrets, signing, up, store, boot, crashes>>

-----------------------------------------------------------------------------
(* The process.                                                            *)

Crash ==
    /\ up
    /\ crashes < MaxCrashes
    /\ crashes' = crashes + 1
    /\ up' = FALSE
    /\ signing' = {}
    /\ store' = {}
    /\ reqs' = [r \in Slots |-> IdleReq]
    /\ UNCHANGED <<secrets, boot>>

\* Mutant of Start: the store is loaded before the backfill.
StartBeforeBackfill ==
    /\ ~up
    /\ up' = TRUE
    /\ secrets' = [t \in Tenants |-> IF secrets[t] = "bare" THEN "ready" ELSE secrets[t]]
    /\ store' = Ready
    /\ boot' = {t \in Tenants : secrets[t] # "none"}
    /\ UNCHANGED <<signing, reqs, crashes>>

\* main: backfill_all gives every tenant its CA, and the store is rebuilt
\* from them before any listener is bound.
Start ==
    /\ ~up
    /\ up' = TRUE
    /\ secrets' = [t \in Tenants |-> IF secrets[t] = "bare" THEN "ready" ELSE secrets[t]]
    /\ store' = {t \in Tenants : secrets[t] # "none"}
    /\ boot' = {t \in Tenants : secrets[t] # "none"}
    /\ UNCHANGED <<signing, reqs, crashes>>

-----------------------------------------------------------------------------
Signup(t)  == CreateTenant(t) \/ EnsureSecrets(t) \/ SecretsFail(t)
Step(r)    == \/ Check(r) \/ ListCas(r) \/ ListFails(r) \/ Swap(r)
              \/ Recheck(r) \/ Respond(r)

Next ==
    \/ \E t \in Tenants : Signup(t)
    \/ \E r \in Slots, t \in Tenants : Enroll(r, t)
    \/ \E r \in Slots : Step(r)
    \/ Crash
    \/ Start

Spec == Init /\ [][Next]_vars

\* A started request runs to its end, a read that is attempted again and
\* again succeeds in the end, and a stopped process is started again.
Fairness ==
    /\ \A r \in Slots : WF_vars(Step(r)) /\ SF_vars(ListCas(r))
    /\ \A t \in Tenants : WF_vars(EnsureSecrets(t) \/ SecretsFail(t))
    /\ WF_vars(Start)
FairSpec == Spec /\ Fairness

-----------------------------------------------------------------------------
\* The shape of the rows, the snapshot and the enrolments.
TypeOK ==
    /\ secrets \in [Tenants -> {"none", "bare", "ready"}]
    /\ signing \subseteq Tenants
    /\ up \in BOOLEAN
    /\ store \subseteq Tenants
    /\ reqs \in [Slots -> [pc : Pcs, tenant : Tenants, list : SUBSET Tenants,
                           ok : BOOLEAN]]
    /\ boot \subseteq Tenants
    /\ crashes \in Nat

\* Every tenant the process found at its start stays trusted for as long as
\* it runs, whatever rebuilds overwrite each other: a sign-up that was cut
\* off before it had a CA is repaired by the restart, before the load.
BootTrusted == up => boot \subseteq store

\* Tenant t is trusted, and no rebuild under way would drop it.
Settled(t) ==
    /\ t \in store
    /\ \A r \in Slots : reqs[r].pc = "swap" => t \in reqs[r].list

\* A tenant that is trusted at a moment when no rebuild that missed its CA is
\* under way stays trusted until the process stops.
SettledStays == [][\A t \in Tenants : Settled(t) /\ up' => Settled(t)']_vars

\* A tenant whose hosts keep enrolling is trusted for good in the end: a
\* snapshot that an older rebuild put back is repaired by the next enrolment.
EnrolmentsRepair ==
    \A t \in Tenants :
        ([]<>(\E r \in Slots : reqs[r].pc = "respond" /\ reqs[r].tenant = t))
           => <>[](t \in store)

-----------------------------------------------------------------------------
(* The inductive strengthening of BootTrusted.                             *)

\* A list of CAs read since the start: all of boot, and nothing without a CA.
ListSince(S) == boot \subseteq S /\ S \subseteq Ready

\* The snapshot and the lists that may replace it were read since the start,
\* and a stopped process runs nothing.
IInv ==
    /\ TypeOK
    /\ boot \subseteq Ready
    /\ IF up THEN ListSince(store) ELSE store = {}
    /\ \A r \in Slots : /\ reqs[r].pc # "idle" => up
                        /\ reqs[r].pc = "swap" => ListSince(reqs[r].list)

=============================================================================
