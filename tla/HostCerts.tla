------------------------------- MODULE HostCerts -------------------------------
(***************************************************************************)
(* The certificates of one tenant's hosts: a host row waits for its        *)
(* one-time bootstrap nonce, enrolment burns the nonce and records the     *)
(* first certificate, renewal records another, presenting a certificate    *)
(* retires the ones recorded before it, and an operator revokes the lot or *)
(* deletes the host (crates/storage/src/repos/hosts.rs and the handlers of *)
(* server/src/hosts, server/src/agent that call it).                       *)
(*                                                                         *)
(* Every database statement or transaction of a request is a step of its   *)
(* own; requests of the same host overlap when its agent gave up on one    *)
(* the server is still running.                                            *)
(***************************************************************************)
EXTENDS Naturals

CONSTANTS
    Hosts,       \* ids the operator may create
    Slots,       \* requests the server is running
    StaleCopies, \* does an old copy of an agent's identity still make calls?
    MaxNonce,    \* bound: bootstrap nonces drawn
    MaxSerial    \* bound: certificates recorded

ASSUME ConstantsAssumption ==
    /\ Hosts # {}
    /\ StaleCopies \in BOOLEAN
    /\ MaxNonce \in Nat
    /\ MaxSerial \in Nat

VARIABLES
    row,     \* hosts: status, bootstrap_nonce_hash (0: NULL), and whether
             \* bootstrap_expires_at is still ahead
    certs,   \* host_certs, by serial
    nonces,  \* the last nonce drawn by random_token
    serials, \* certificates recorded so far: a serial is named by the order
             \* it was recorded in, its random digits mean nothing else
    tokens,  \* bootstrap tokens handed to the operator
    reqs,    \* requests in progress
    holds,   \* the serial each agent holds the key of (0: none)
    kept,    \* serials an agent held before: what a stale copy presents
    struck,  \* ghost: serials the operator revoked
    spent    \* ghost: the serial each nonce was exchanged for

vars == <<row, certs, nonces, serials, tokens, reqs, holds, kept, struck, spent>>

Statuses == {"none", "pending", "enrolled", "deleted"}
Row      == [status : Statuses, nonce : Nat, open : BOOLEAN]
Serial   == 1..MaxSerial
Cert     == [rowid : Nat, host : Hosts, revoked : BOOLEAN, expired : BOOLEAN]
Token    == [host : Hosts, nonce : Nat]
SomeHost == CHOOSE h \in Hosts : TRUE
NoRow    == [rowid |-> 0, host |-> SomeHost, revoked |-> FALSE, expired |-> FALSE]

-----------------------------------------------------------------------------
Exists(h) == row[h].status \in {"pending", "enrolled"}

Recorded(s) == certs[s].rowid # 0
OfHost(h)   == {s \in Serial : Recorded(s) /\ certs[s].host = h}
Live(s)     == ~certs[s].revoked /\ ~certs[s].expired
Active(h, s) == s \in OfHost(h) /\ Live(s)

\* Mutant of Older: every certificate but the newest, whichever is presented.
OlderThanNewest(h, s) ==
    {t \in OfHost(h) : Live(t) /\ \E u \in OfHost(h) : certs[t].rowid < certs[u].rowid}

\* The live certificates of h with a smaller rowid than serial s: what
\* standing counts and retire_superseded revokes.
Older(h, s) == {t \in OfHost(h) : /\ Live(t)
                                  /\ s \in OfHost(h)
                                  /\ certs[t].rowid < certs[s].rowid}

\* The rowid SQLite gives a new row: one more than the largest in the table.
IsNextRowid(n) == /\ \A t \in Serial : certs[t].rowid < n
                  /\ n = 1 \/ \E t \in Serial : certs[t].rowid + 1 = n

\* The table after the rows of S have their revoked_at set.
Revoked(S) == [s \in Serial |-> IF s \in S THEN [certs[s] EXCEPT !.revoked = TRUE]
                                           ELSE certs[s]]

\* INSERT INTO host_certs.
Insert(h) ==
    /\ serials < MaxSerial
    /\ serials' = serials + 1
    /\ \E n \in Serial :
         /\ IsNextRowid(n)
         /\ certs' = [certs EXCEPT ![serials + 1] =
                        [rowid |-> n, host |-> h, revoked |-> FALSE, expired |-> FALSE]]

\* Is row h waiting for exactly this nonce?  The condition bootstrap_pending
\* reads and the UPDATE of enroll repeats.
Waiting(h, n) == /\ row[h].status = "pending"
                 /\ row[h].nonce = n
                 /\ row[h].open

IdleReq == [pc |-> "idle", kind |-> "call", host |-> SomeHost,
            nonce |-> 0, shown |-> 0, serial |-> 0, wanted |-> FALSE]
Pcs     == {"idle", "signed", "retire", "admitted", "respond"}
Req     == [pc : Pcs, kind : {"enroll", "renew", "call"}, host : Hosts,
            nonce : Nat, shown : Nat, serial : Nat, wanted : BOOLEAN]

Init ==
    /\ row = [h \in Hosts |-> [status |-> "none", nonce |-> 0, open |-> FALSE]]
    /\ certs = [s \in Serial |-> NoRow]
    /\ nonces = 0
    /\ serials = 0
    /\ tokens = {}
    /\ reqs = [r \in Slots |-> IdleReq]
    /\ holds = [h \in Hosts |-> 0]
    /\ kept = [h \in Hosts |-> {}]
    /\ struck = {}
    /\ spent = {}

-----------------------------------------------------------------------------
(* The operator, and time.                                                 *)

\* A fresh nonce is stored on the row and its token handed out.
Reset(h) ==
    /\ nonces < MaxNonce
    /\ nonces' = nonces + 1
    /\ row' = [row EXCEPT ![h] = [status |-> "pending", nonce |-> nonces + 1,
                                  open |-> TRUE]]
    /\ tokens' = tokens \cup {[host |-> h, nonce |-> nonces + 1]}

CreatePending(h) ==
    /\ row[h].status = "none"
    /\ Reset(h)
    /\ UNCHANGED <<certs, serials, reqs, holds, kept, struck, spent>>

\* Mutant of RevokeHostCerts: certificates are revoked, the row left
\* enrolled.
RevokeWithoutReset(h) ==
    /\ Exists(h)
    /\ certs' = Revoked(OfHost(h))
    /\ struck' = struck \cup OfHost(h)
    /\ UNCHANGED <<row, nonces, serials, tokens, reqs, holds, kept, spent>>

\* One transaction: every certificate revoked and the row back to pending.
RevokeHostCerts(h) ==
    /\ Exists(h)
    /\ Reset(h)
    /\ certs' = Revoked(OfHost(h))
    /\ struck' = struck \cup OfHost(h)
    /\ UNCHANGED <<serials, reqs, holds, kept, spent>>

\* One transaction: the certificates and then the row are deleted.
DeleteHost(h) ==
    /\ Exists(h)
    /\ row' = [row EXCEPT ![h] = [status |-> "deleted", nonce |-> 0, open |-> FALSE]]
    /\ certs' = [s \in Serial |-> IF s \in OfHost(h) THEN NoRow ELSE certs[s]]
    /\ UNCHANGED <<nonces, serials, tokens, reqs, holds, kept, struck, spent>>

TokenExpires(h) ==
    /\ row[h].open
    /\ row' = [row EXCEPT ![h] = [@ EXCEPT !.open = FALSE]]
    /\ UNCHANGED <<certs, nonces, serials, tokens, reqs, holds, kept, struck, spent>>

CertExpires(s) ==
    /\ Recorded(s)
    /\ ~certs[s].expired
    /\ certs' = [certs EXCEPT ![s] = [@ EXCEPT !.expired = TRUE]]
    /\ UNCHANGED <<row, nonces, serials, tokens, reqs, holds, kept, struck, spent>>

-----------------------------------------------------------------------------
(* Enrolment.                                                              *)

\* An agent waits for one answer at a time.
Waits(h) == \E r \in Slots : reqs[r].pc # "idle" /\ reqs[r].host = h /\ reqs[r].wanted

Finish(r) == reqs' = [reqs EXCEPT ![r] = IdleReq]

\* The pre-check of a presented token, and the signature it admits.  A token
\* that fails it is refused with nothing changed.
EnrollSign(r, t) ==
    /\ reqs[r].pc = "idle"
    /\ t \in tokens
    /\ ~Waits(t.host)
    /\ Waiting(t.host, t.nonce)
    /\ reqs' = [reqs EXCEPT ![r] =
         [pc |-> "signed", kind |-> "enroll", host |-> t.host, nonce |-> t.nonce,
          shown |-> 0, serial |-> 0, wanted |-> TRUE]]
    /\ UNCHANGED <<row, certs, nonces, serials, tokens, holds, kept, struck, spent>>

\* Mutant of EnrollBurn: it trusts the pre-check.
EnrollBurnUnchecked(r) ==
    /\ reqs[r].pc = "signed"
    /\ Exists(reqs[r].host)
    /\ row' = [row EXCEPT ![reqs[r].host] =
                 [status |-> "enrolled", nonce |-> 0, open |-> FALSE]]
    /\ Insert(reqs[r].host)
    /\ spent' = spent \cup {[nonce |-> reqs[r].nonce, serial |-> serials + 1]}
    /\ reqs' = [reqs EXCEPT ![r] = [@ EXCEPT !.pc = "respond", !.serial = serials + 1]]
    /\ UNCHANGED <<nonces, tokens, holds, kept, struck>>

\* One transaction: the nonce is burned if the row still waits for it, and the
\* certificate recorded.
EnrollBurn(r) ==
    /\ reqs[r].pc = "signed"
    /\ Waiting(reqs[r].host, reqs[r].nonce)
    /\ row' = [row EXCEPT ![reqs[r].host] =
                 [status |-> "enrolled", nonce |-> 0, open |-> FALSE]]
    /\ Insert(reqs[r].host)
    /\ spent' = spent \cup {[nonce |-> reqs[r].nonce, serial |-> serials + 1]}
    /\ reqs' = [reqs EXCEPT ![r] = [@ EXCEPT !.pc = "respond", !.serial = serials + 1]]
    /\ UNCHANGED <<nonces, tokens, holds, kept, struck>>

\* The burn matched nothing: the signed certificate is discarded.
EnrollRefused(r) ==
    /\ reqs[r].pc = "signed"
    /\ ~Waiting(reqs[r].host, reqs[r].nonce)
    /\ Finish(r)
    /\ UNCHANGED <<row, certs, nonces, serials, tokens, holds, kept, struck, spent>>

-----------------------------------------------------------------------------
(* Requests of an enrolled agent: tier_layer, then the handler.            *)

\* The standing read.  A serial that is not active is refused with nothing
\* changed; superseded > 0 makes the request retire before it goes on.
Present(r, h, kind, s, wanted) ==
    /\ reqs[r].pc = "idle"
    /\ Active(h, s)
    /\ reqs' = [reqs EXCEPT ![r] =
         [pc |-> IF Older(h, s) = {} THEN "admitted" ELSE "retire",
          kind |-> kind, host |-> h, nonce |-> 0, shown |-> s, serial |-> 0,
          wanted |-> wanted]]
    /\ UNCHANGED <<row, certs, nonces, serials, tokens, holds, kept, struck, spent>>

AgentCalls(r, h) ==
    /\ holds[h] # 0 /\ ~Waits(h)
    /\ Present(r, h, "call", holds[h], TRUE)
AgentRenews(r, h) ==
    /\ holds[h] # 0 /\ ~Waits(h)
    /\ Present(r, h, "renew", holds[h], TRUE)
\* A restored or cloned machine calls with a serial the agent held before.
CopyCalls(r, h) ==
    /\ StaleCopies
    /\ \E s \in kept[h] : Present(r, h, "call", s, FALSE)

\* Mutant of Retire: only the row before the presented one is revoked.
RetirePrevious(r) ==
    /\ reqs[r].pc = "retire"
    /\ certs' = Revoked({t \in Older(reqs[r].host, reqs[r].shown) :
                          certs[t].rowid + 1 = certs[reqs[r].shown].rowid})
    /\ reqs' = [reqs EXCEPT ![r] = [@ EXCEPT !.pc = "admitted"]]
    /\ UNCHANGED <<row, nonces, serials, tokens, holds, kept, struck, spent>>

Retire(r) ==
    /\ reqs[r].pc = "retire"
    /\ certs' = Revoked(Older(reqs[r].host, reqs[r].shown))
    /\ reqs' = [reqs EXCEPT ![r] = [@ EXCEPT !.pc = "admitted"]]
    /\ UNCHANGED <<row, nonces, serials, tokens, holds, kept, struck, spent>>

\* A failed retirement is logged and the request goes on.
RetireFails(r) ==
    /\ reqs[r].pc = "retire"
    /\ reqs' = [reqs EXCEPT ![r] = [@ EXCEPT !.pc = "admitted"]]
    /\ UNCHANGED <<row, certs, nonces, serials, tokens, holds, kept, struck, spent>>

\* Any other handler, or a refusal by the rate limits: no certificate changes.
CallEnds(r) ==
    /\ reqs[r].pc = "admitted"
    /\ Finish(r)
    /\ UNCHANGED <<row, certs, nonces, serials, tokens, holds, kept, struck, spent>>

\* Mutant of RenewRecord: host_certs.host_id is not a foreign key.
RenewRecordDangling(r) ==
    /\ reqs[r].pc = "admitted"
    /\ reqs[r].kind = "renew"
    /\ Insert(reqs[r].host)
    /\ reqs' = [reqs EXCEPT ![r] = [@ EXCEPT !.pc = "respond", !.serial = serials + 1]]
    /\ UNCHANGED <<row, nonces, tokens, holds, kept, struck, spent>>

\* renew: sign and record.  The host row is not read again; the foreign key
\* refuses the row of a deleted host.
RenewRecord(r) ==
    /\ reqs[r].pc = "admitted"
    /\ reqs[r].kind = "renew"
    /\ Exists(reqs[r].host)
    /\ Insert(reqs[r].host)
    /\ reqs' = [reqs EXCEPT ![r] = [@ EXCEPT !.pc = "respond", !.serial = serials + 1]]
    /\ UNCHANGED <<row, nonces, tokens, holds, kept, struck, spent>>

-----------------------------------------------------------------------------
(* Answers.                                                                *)

\* The answer arrives: the agent swaps its identity for the new one.
Deliver(r) ==
    /\ reqs[r].pc = "respond"
    /\ reqs[r].wanted
    /\ LET h == reqs[r].host IN
         /\ holds' = [holds EXCEPT ![h] = reqs[r].serial]
         /\ kept' = [kept EXCEPT ![h] = @ \cup ({holds[h]} \ {0})]
    /\ Finish(r)
    /\ UNCHANGED <<row, certs, nonces, serials, tokens, struck, spent>>

\* The agent stops waiting; the server runs on and its answer reaches no one.
GiveUp(r) ==
    /\ reqs[r].pc # "idle"
    /\ reqs[r].wanted
    /\ reqs' = [reqs EXCEPT ![r] = [@ EXCEPT !.wanted = FALSE]]
    /\ UNCHANGED <<row, certs, nonces, serials, tokens, holds, kept, struck, spent>>

\* The request ends early: an answer lost, a statement that failed, a
\* connection dropped or the server restarted.
Dropped(r) ==
    /\ reqs[r].pc # "idle"
    /\ Finish(r)
    /\ UNCHANGED <<row, certs, nonces, serials, tokens, holds, kept, struck, spent>>

Operator(h) ==
    \/ CreatePending(h) \/ RevokeHostCerts(h) \/ DeleteHost(h) \/ TokenExpires(h)
Arrive(r) ==
    \/ \E t \in tokens : EnrollSign(r, t)
    \/ \E h \in Hosts : AgentCalls(r, h) \/ AgentRenews(r, h) \/ CopyCalls(r, h)
Serve(r) ==
    \/ EnrollBurn(r) \/ EnrollRefused(r)
    \/ Retire(r) \/ RetireFails(r) \/ CallEnds(r) \/ RenewRecord(r)
    \/ Deliver(r) \/ GiveUp(r) \/ Dropped(r)

Next ==
    \/ \E h \in Hosts : Operator(h)
    \/ \E s \in Serial : CertExpires(s)
    \/ \E r \in Slots : Arrive(r) \/ Serve(r)

Spec == Init /\ [][Next]_vars

(* Agents keep calling, a started request takes its next step, and a       *)
(* statement that is attempted again and again succeeds in the end.        *)
Fairness ==
    /\ \A r \in Slots : /\ WF_vars(EnrollBurn(r) \/ EnrollRefused(r))
                        /\ SF_vars(Retire(r))
                        /\ WF_vars(RetireFails(r))
                        /\ WF_vars(CallEnds(r) \/ RenewRecord(r))
                        /\ WF_vars(Deliver(r) \/ Dropped(r))
    /\ \A h \in Hosts : SF_vars(\E r \in Slots : AgentCalls(r, h))
FairSpec == Spec /\ Fairness

-----------------------------------------------------------------------------
(* Properties.                                                             *)

\* Every variable keeps its type.
TypeOK ==
    /\ row \in [Hosts -> Row]
    /\ certs \in [Serial -> Cert]
    /\ nonces \in Nat
    /\ serials \in 0..MaxSerial
    /\ tokens \subseteq Token
    /\ reqs \in [Slots -> Req]
    /\ holds \in [Hosts -> Nat]
    /\ kept \in [Hosts -> SUBSET Nat]
    /\ struck \subseteq Nat
    /\ spent \subseteq [nonce : Nat, serial : Nat]

\* A bootstrap nonce is exchanged for one certificate at most, however many
\* enrolments present it at once and whatever resets the row meanwhile.
NonceBurnsOnce == \A a, b \in spent : a.nonce = b.nonce => a = b

NewestUnrevoked(h) ==
    \E s \in OfHost(h) : /\ ~certs[s].revoked
                         /\ \A t \in OfHost(h) : certs[t].rowid <= certs[s].rowid

\* An enrolled host is never left without a certificate: the newest row
\* recorded for it is unrevoked.  (A row without one, its nonce spent, could
\* only be deleted.)
EnrolledHoldsNewest ==
    \A h \in Hosts : row[h].status = "enrolled" => NewestUnrevoked(h)

\* Retirement never takes the certificate an agent is left with: while the
\* host exists, the serial the agent holds is unrevoked unless the operator
\* revoked it - after lost answers, abandoned renewals that finish late, and
\* calls made by a stale copy.
NeverStranded ==
    \A h \in Hosts :
       /\ Exists(h)
       /\ holds[h] # 0
       /\ holds[h] \notin struck
       => holds[h] \in OfHost(h) /\ ~certs[holds[h]].revoked

Ordered(h) == \A s, t \in OfHost(h) : s < t <=> certs[s].rowid < certs[t].rowid

\* Within one host's rows rowid order is the order they were recorded in,
\* and never ties - what standing relies on - although the rowids of a
\* deleted host's rows are given out again.
RowidOrder ==
    \A h \in Hosts : Ordered(h)

\* A deleted host is cut off for good: it has no certificate row, and a
\* renewal that was under way when it was deleted does not leave one behind.
DeletedCutOff ==
    \A h \in Hosts : row[h].status = "deleted" => OfHost(h) = {}

\* What the renewal leaves behind is retired: while the agent holds an active
\* serial, the live rows recorded before it do not stay.
OldOnesRetire ==
    \A h \in Hosts, s \in Serial :
       (holds[h] = s /\ Active(h, s) /\ Older(h, s) # {})
          ~> ~(holds[h] = s /\ Active(h, s) /\ Older(h, s) # {})

-----------------------------------------------------------------------------
(* The inductive strengthening of the invariants above.                    *)

\* Serials are handed out in order.
SerialsInOrder == \A s \in Serial : Recorded(s) => s <= serials

\* Only a row that exists has certificates.
RowsHaveHost == \A h \in Hosts : ~Exists(h) => OfHost(h) = {}

\* Every nonce in circulation was drawn, a pending row has one of its own,
\* and no row waits for a spent one.
NoncesDrawn ==
    /\ \A h \in Hosts : row[h].status = "pending" => row[h].nonce \in 1..nonces
    /\ \A h, g \in Hosts :
         row[h].status = "pending" /\ row[g].status = "pending"
         /\ row[h].nonce = row[g].nonce => h = g
    /\ \A a \in spent : /\ a.nonce \in 1..nonces
                        /\ \A h \in Hosts : row[h].status = "pending"
                                            => row[h].nonce # a.nonce

\* An agent holds recorded serials, the current one last.
HeldInOrder ==
    \A h \in Hosts :
       /\ holds[h] <= serials
       /\ Exists(h) /\ holds[h] # 0 => holds[h] \in OfHost(h)
       /\ \A s \in kept[h] : s <= holds[h]

\* No request presents a serial newer than the one the agent holds.
ShownInOrder ==
    \A r \in Slots : reqs[r].pc \in {"retire", "admitted"}
                    => reqs[r].shown <= holds[reqs[r].host]

\* An answer under way to an agent carries a newer serial than the agent has,
\* recorded and not retired.
NewerFor(h, s) ==
    /\ s \in Serial
    /\ holds[h] < s
    /\ s <= serials
    /\ Exists(h) => s \in OfHost(h) /\ (certs[s].revoked => s \in struck)
AnswersNewer ==
    \A r \in Slots : reqs[r].pc = "respond" /\ reqs[r].wanted
                    => NewerFor(reqs[r].host, reqs[r].serial)

\* A host that was never created has no agent.
NoneYet ==
    \A h \in Hosts : row[h].status = "none" =>
       /\ holds[h] = 0
       /\ \A r \in Slots : reqs[r].pc # "idle" => reqs[r].host # h

\* An agent waits for one request at most.
OneWaiter ==
    \A q, r \in Slots :
       /\ reqs[q].pc # "idle" /\ reqs[q].wanted
       /\ reqs[r].pc # "idle" /\ reqs[r].wanted
       /\ reqs[q].host = reqs[r].host
       => q = r

IInv ==
    /\ TypeOK /\ SerialsInOrder /\ RowsHaveHost /\ RowidOrder
    /\ EnrolledHoldsNewest
    /\ NoncesDrawn /\ NonceBurnsOnce
    /\ HeldInOrder /\ ShownInOrder /\ AnswersNewer
    /\ NoneYet /\ OneWaiter
    /\ NeverStranded

=============================================================================
