---------------------------- MODULE HostCertsProofs ----------------------------
(***************************************************************************)
(* Proofs about HostCerts, for every set of hosts and request slots and    *)
(* every bound.                                                            *)
(***************************************************************************)
EXTENDS HostCerts, TLAPS

LEMMA SomeHostIn == SomeHost \in Hosts
  BY ConstantsAssumption DEF SomeHost

LEMMA IdleTyped == IdleReq \in Req
  BY SomeHostIn DEF IdleReq, Req, Pcs

LEMMA NoRowTyped == NoRow \in Cert
  BY SomeHostIn DEF NoRow, Cert

\* The initial states satisfy the inductive invariant.
LEMMA InitIInv == Init => IInv
<1> SUFFICES ASSUME Init PROVE IInv
  OBVIOUS
<1> USE DEF Init
<1>1. TypeOK
  BY SomeHostIn, IdleTyped, NoRowTyped, ConstantsAssumption
  DEF TypeOK, Row, Statuses
<1>2. \A h \in Hosts : OfHost(h) = {}
  BY DEF OfHost, Recorded, NoRow
<1>3. SerialsInOrder /\ RowsHaveHost /\ RowidOrder /\ EnrolledHoldsNewest
  BY <1>2 DEF SerialsInOrder, RowsHaveHost, RowidOrder, Ordered, EnrolledHoldsNewest, Recorded, NoRow
<1>4. NoncesDrawn /\ NonceBurnsOnce
  BY DEF NoncesDrawn, NonceBurnsOnce
<1>5. HeldInOrder /\ ShownInOrder /\ AnswersNewer /\ NoneYet /\ OneWaiter /\ NeverStranded
  BY DEF HeldInOrder, ShownInOrder, AnswersNewer, NoneYet, OneWaiter, NeverStranded,
         IdleReq, Exists
<1> QED BY <1>1, <1>3, <1>4, <1>5 DEF IInv


\* A request belongs to a host.
LEMMA ReqHost == ASSUME TypeOK, NEW r \in Slots PROVE reqs[r].host \in Hosts
  BY DEF TypeOK, Req

\* The rows of a host that a step leaves alone keep their order and their
\* newest member.
LEMMA RowsKept ==
    ASSUME NEW g \in Hosts, OfHost(g)' = OfHost(g),
           \A s \in OfHost(g) : certs'[s].rowid = certs[s].rowid
    PROVE  /\ Ordered(g)' <=> Ordered(g)
           /\ (\A s \in OfHost(g) : certs'[s].revoked = certs[s].revoked)
              => (NewestUnrevoked(g)' <=> NewestUnrevoked(g))
  BY DEF Ordered, NewestUnrevoked

LEMMA CreateStep ==
    ASSUME IInv, NEW h \in Hosts, CreatePending(h) PROVE IInv'
<1> USE DEF CreatePending, Reset, IInv
<1>1. TypeOK'
  BY DEF TypeOK, Row, Statuses, Token
<1>2. \A g \in Hosts : OfHost(g)' = OfHost(g)
  BY DEF OfHost, Recorded
<1>3. (SerialsInOrder /\ RowsHaveHost /\ RowidOrder /\ EnrolledHoldsNewest)'
  BY <1>2, RowsKept
  DEF SerialsInOrder, RowsHaveHost, RowidOrder, EnrolledHoldsNewest, Recorded, TypeOK, Exists
<1>4. (NoncesDrawn /\ NonceBurnsOnce)'
  BY DEF NoncesDrawn, NonceBurnsOnce, TypeOK, Row
<1>5. (HeldInOrder /\ ShownInOrder)'
  BY <1>2 DEF HeldInOrder, ShownInOrder, TypeOK, Exists, NoneYet
<1>6. AnswersNewer'
  BY <1>2, ReqHost DEF AnswersNewer, NewerFor, TypeOK, Exists, NoneYet
<1>7. (NoneYet /\ OneWaiter /\ NeverStranded)'
  BY <1>2 DEF NoneYet, OneWaiter, NeverStranded, TypeOK, Exists
<1> QED BY <1>1, <1>3, <1>4, <1>5, <1>6, <1>7 DEF IInv

LEMMA RevokeStep ==
    ASSUME IInv, NEW h \in Hosts, RevokeHostCerts(h) PROVE IInv'
<1> USE DEF RevokeHostCerts, Reset, IInv
<1>1. TypeOK'
  <2>1. certs' \in [Serial -> Cert]
    BY DEF TypeOK, Revoked, Cert
  <2>2. OfHost(h) \subseteq Nat
    BY DEF OfHost, Serial
  <2>3. struck' \subseteq Nat
    BY <2>2 DEF TypeOK
  <2> QED BY <2>1, <2>3 DEF TypeOK, Row, Statuses, Token
<1>2. \A s \in Serial : /\ certs'[s].rowid = certs[s].rowid
                        /\ certs'[s].host = certs[s].host
                        /\ s \notin OfHost(h) => certs'[s] = certs[s]
  BY DEF Revoked, TypeOK, Cert
<1>3. \A g \in Hosts : OfHost(g)' = OfHost(g)
  BY <1>2 DEF OfHost, Recorded
<1>4. (SerialsInOrder /\ RowsHaveHost /\ RowidOrder)'
  <2>1. SerialsInOrder'
    BY <1>2 DEF SerialsInOrder, Recorded
  <2>2. RowsHaveHost'
    BY <1>3 DEF RowsHaveHost, TypeOK, Exists
  <2>3. RowidOrder'
    BY <1>2, <1>3, RowsKept DEF RowidOrder, OfHost
  <2> QED BY <2>1, <2>2, <2>3
<1>5. EnrolledHoldsNewest'
  <2> SUFFICES ASSUME NEW g \in Hosts, row'[g].status = "enrolled"
               PROVE  NewestUnrevoked(g)'
    BY DEF EnrolledHoldsNewest
  <2>1. g # h /\ row[g].status = "enrolled"
    BY DEF TypeOK
  <2>2. \A s \in OfHost(g) : certs'[s] = certs[s]
    BY <1>2, <2>1 DEF OfHost
  <2> QED BY <1>3, <2>1, <2>2, RowsKept DEF EnrolledHoldsNewest
<1>6. (NoncesDrawn /\ NonceBurnsOnce)'
  BY DEF NoncesDrawn, NonceBurnsOnce, TypeOK, Row
<1>7. (HeldInOrder /\ ShownInOrder)'
  BY <1>3 DEF HeldInOrder, ShownInOrder, TypeOK, Exists
<1>8. AnswersNewer'
  BY <1>2, <1>3, ReqHost DEF AnswersNewer, NewerFor, TypeOK, Exists
<1>9. (NoneYet /\ OneWaiter)'
  BY DEF NoneYet, OneWaiter, TypeOK, Exists
<1>10. NeverStranded'
  BY <1>2, <1>3 DEF NeverStranded, HeldInOrder, TypeOK, Exists, OfHost
<1> QED BY <1>1, <1>4, <1>5, <1>6, <1>7, <1>8, <1>9, <1>10 DEF IInv

LEMMA DeleteStep ==
    ASSUME IInv, NEW h \in Hosts, DeleteHost(h) PROVE IInv'
<1> USE DEF DeleteHost, IInv
<1>1. TypeOK'
  BY NoRowTyped DEF TypeOK, Row, Statuses
<1>2. \A s \in Serial : certs'[s] = IF s \in OfHost(h) THEN NoRow ELSE certs[s]
  BY DEF TypeOK
<1>3. /\ OfHost(h)' = {}
      /\ \A g \in Hosts \ {h} : OfHost(g)' = OfHost(g)
      /\ \A g \in Hosts \ {h} : \A s \in OfHost(g) : certs'[s] = certs[s]
  BY <1>2 DEF OfHost, Recorded, NoRow
<1>4. (SerialsInOrder /\ RowsHaveHost /\ RowidOrder)'
  <2>1. SerialsInOrder'
    BY <1>2 DEF SerialsInOrder, Recorded, NoRow
  <2>2. RowsHaveHost'
    BY <1>3 DEF RowsHaveHost, TypeOK, Exists
  <2>3. Ordered(h)'
    BY <1>3 DEF Ordered
  <2>4. \A g \in Hosts \ {h} : Ordered(g)'
    BY <1>3, RowsKept DEF RowidOrder
  <2> QED BY <2>1, <2>2, <2>3, <2>4 DEF RowidOrder
<1>5. EnrolledHoldsNewest'
  <2> SUFFICES ASSUME NEW g \in Hosts, row'[g].status = "enrolled"
               PROVE  NewestUnrevoked(g)'
    BY DEF EnrolledHoldsNewest
  <2>1. g # h /\ row[g].status = "enrolled"
    BY DEF TypeOK
  <2> QED BY <1>3, <2>1, RowsKept DEF EnrolledHoldsNewest
<1>6. (NoncesDrawn /\ NonceBurnsOnce)'
  BY DEF NoncesDrawn, NonceBurnsOnce, TypeOK, Row
<1>7. (HeldInOrder /\ ShownInOrder)'
  BY <1>3 DEF HeldInOrder, ShownInOrder, TypeOK, Exists
<1>8. AnswersNewer'
  BY <1>3, ReqHost DEF AnswersNewer, NewerFor, TypeOK, Exists
<1>9. (NoneYet /\ OneWaiter)'
  BY DEF NoneYet, OneWaiter, TypeOK, Exists
<1>10. NeverStranded'
  BY <1>3 DEF NeverStranded, TypeOK, Exists
<1> QED BY <1>1, <1>4, <1>5, <1>6, <1>7, <1>8, <1>9, <1>10 DEF IInv

LEMMA TokenExpiresStep ==
    ASSUME IInv, NEW h \in Hosts, TokenExpires(h) PROVE IInv'
<1> USE DEF TokenExpires, IInv
<1>1. TypeOK'
  BY DEF TypeOK, Row
<1>2. /\ \A g \in Hosts : /\ row'[g].status = row[g].status
                          /\ row'[g].nonce = row[g].nonce
                          /\ OfHost(g)' = OfHost(g)
                          /\ Exists(g)' <=> Exists(g)
  BY DEF TypeOK, Row, OfHost, Recorded, Exists
<1>3. (SerialsInOrder /\ RowsHaveHost /\ RowidOrder /\ EnrolledHoldsNewest)'
  BY <1>2, RowsKept
  DEF SerialsInOrder, RowsHaveHost, RowidOrder, EnrolledHoldsNewest, Recorded
<1>4. (NoncesDrawn /\ NonceBurnsOnce)'
  BY <1>2 DEF NoncesDrawn, NonceBurnsOnce
<1>5. (HeldInOrder /\ ShownInOrder /\ NoneYet /\ OneWaiter /\ NeverStranded)'
  BY <1>2 DEF HeldInOrder, ShownInOrder, NoneYet, OneWaiter, NeverStranded
<1>6. AnswersNewer'
  BY <1>2, ReqHost DEF AnswersNewer, NewerFor
<1> QED BY <1>1, <1>3, <1>4, <1>5, <1>6 DEF IInv

LEMMA CertExpiresStep ==
    ASSUME IInv, NEW s \in Serial, CertExpires(s) PROVE IInv'
<1> USE DEF CertExpires, IInv
<1>1. TypeOK'
  BY DEF TypeOK, Cert
<1>2. \A t \in Serial : /\ certs'[t].rowid = certs[t].rowid
                        /\ certs'[t].host = certs[t].host
                        /\ certs'[t].revoked = certs[t].revoked
  BY DEF TypeOK, Cert
<1>3. \A g \in Hosts : /\ OfHost(g)' = OfHost(g)
                       /\ OfHost(g) \subseteq Serial
                       /\ Exists(g)' <=> Exists(g)
  BY <1>2 DEF OfHost, Recorded, Exists
<1>4. (SerialsInOrder /\ RowsHaveHost /\ RowidOrder /\ EnrolledHoldsNewest)'
  BY <1>2, <1>3, RowsKept
  DEF SerialsInOrder, RowsHaveHost, RowidOrder, EnrolledHoldsNewest, Recorded
<1>5. (NoncesDrawn /\ NonceBurnsOnce)'
  BY DEF NoncesDrawn, NonceBurnsOnce
<1>6. (HeldInOrder /\ ShownInOrder /\ NoneYet /\ OneWaiter)'
  BY <1>3 DEF HeldInOrder, ShownInOrder, NoneYet, OneWaiter
<1>7. NeverStranded'
  BY <1>2, <1>3 DEF NeverStranded
<1>8. AnswersNewer'
  BY <1>2, <1>3, ReqHost DEF AnswersNewer, NewerFor
<1> QED BY <1>1, <1>4, <1>5, <1>6, <1>7, <1>8 DEF IInv

\* A step that changes one request and nothing else keeps the invariant when
\* the new request fits the tables and no other request is being waited for.
LEMMA ReqsOnly ==
    ASSUME IInv, NEW r \in Slots, NEW q \in Req,
           reqs' = [reqs EXCEPT ![r] = q],
           UNCHANGED <<row, certs, nonces, serials, tokens, holds, kept, struck, spent>>,
           q.pc # "idle" => row[q.host].status # "none",
           q.pc \in {"retire", "admitted"} => q.shown <= holds[q.host],
           q.pc = "respond" /\ q.wanted => NewerFor(q.host, q.serial),
           q.pc # "idle" /\ q.wanted =>
              \A p \in Slots \ {r} : ~(/\ reqs[p].pc # "idle" /\ reqs[p].wanted
                                       /\ reqs[p].host = q.host)
    PROVE  IInv'
<1> USE DEF IInv
<1>1. TypeOK'
  BY DEF TypeOK
<1>2. \A g \in Hosts : OfHost(g)' = OfHost(g) /\ (Exists(g)' <=> Exists(g))
  BY DEF OfHost, Recorded, Exists
<1>3. \A p \in Slots : reqs'[p] = IF p = r THEN q ELSE reqs[p]
  BY DEF TypeOK
<1>4. (SerialsInOrder /\ RowsHaveHost /\ RowidOrder /\ EnrolledHoldsNewest)'
  BY <1>2, RowsKept
  DEF SerialsInOrder, RowsHaveHost, RowidOrder, EnrolledHoldsNewest, Recorded
<1>5. (NoncesDrawn /\ NonceBurnsOnce /\ HeldInOrder /\ NeverStranded)'
  BY <1>2 DEF NoncesDrawn, NonceBurnsOnce, HeldInOrder, NeverStranded
<1>6. (ShownInOrder /\ NoneYet)'
  BY <1>3 DEF ShownInOrder, NoneYet
<1>7. OneWaiter'
  BY <1>3 DEF OneWaiter
<1>8. AnswersNewer'
  <2> SUFFICES ASSUME NEW p \in Slots, reqs'[p].pc = "respond", reqs'[p].wanted
               PROVE  NewerFor(reqs[p].host, reqs[p].serial)'
    BY DEF AnswersNewer
  <2>1. CASE p = r
    BY <1>3, <2>1 DEF NewerFor, OfHost, Recorded, Exists
  <2>2. CASE p # r
    BY <1>3, <2>2 DEF AnswersNewer, NewerFor, OfHost, Recorded, Exists
  <2> QED BY <2>1, <2>2
<1> QED BY <1>1, <1>4, <1>5, <1>6, <1>7, <1>8 DEF IInv

LEMMA FinishStep ==
    ASSUME IInv, NEW r \in Slots, Finish(r),
           UNCHANGED <<row, certs, nonces, serials, tokens, holds, kept, struck, spent>>
    PROVE  IInv'
  BY IdleTyped, ReqsOnly DEF Finish, IdleReq

LEMMA EnrollSignStep ==
    ASSUME IInv, NEW r \in Slots, NEW t \in tokens, EnrollSign(r, t) PROVE IInv'
<1> DEFINE q == [pc |-> "signed", kind |-> "enroll", host |-> t.host, nonce |-> t.nonce,
                 shown |-> 0, serial |-> 0, wanted |-> TRUE]
<1>1. t.host \in Hosts /\ t.nonce \in Nat
  BY DEF IInv, TypeOK, Token
<1>2. q \in Req
  BY <1>1 DEF Req, Pcs
<1>3. row[t.host].status # "none"
  BY DEF EnrollSign, Waiting
<1>4. \A p \in Slots \ {r} : ~(/\ reqs[p].pc # "idle" /\ reqs[p].wanted
                               /\ reqs[p].host = t.host)
  BY DEF EnrollSign, Waits
<1> QED BY <1>2, <1>3, <1>4, ReqsOnly DEF EnrollSign

\* Only a host that exists has an active serial.
LEMMA ActiveExists ==
    ASSUME IInv, NEW h \in Hosts, NEW s, Active(h, s) PROVE Exists(h)
  BY DEF IInv, RowsHaveHost, Active

LEMMA PresentStep ==
    ASSUME IInv, NEW r \in Slots, NEW h \in Hosts, NEW kind \in {"renew", "call"},
           NEW s \in Nat, NEW wanted \in BOOLEAN, s <= holds[h],
           wanted => ~Waits(h), Present(r, h, kind, s, wanted)
    PROVE  IInv'
<1> DEFINE q == [pc |-> IF Older(h, s) = {} THEN "admitted" ELSE "retire",
                 kind |-> kind, host |-> h, nonce |-> 0, shown |-> s, serial |-> 0,
                 wanted |-> wanted]
<1>1. q \in Req
  BY DEF Req, Pcs
<1>2. row[h].status # "none"
  BY ActiveExists DEF Present, Exists
<1>3. wanted => \A p \in Slots \ {r} : ~(/\ reqs[p].pc # "idle" /\ reqs[p].wanted
                                         /\ reqs[p].host = h)
  BY DEF Waits
<1>4. q.pc # "respond" /\ q.pc # "idle"
  OBVIOUS
<1> QED BY <1>1, <1>2, <1>3, <1>4, ReqsOnly DEF Present

LEMMA ArriveStep ==
    ASSUME IInv, NEW r \in Slots, Arrive(r) PROVE IInv'
<1>1. ASSUME NEW h \in Hosts PROVE holds[h] \in Nat /\ holds[h] <= holds[h]
  BY DEF IInv, TypeOK
<1>2. ASSUME NEW h \in Hosts, NEW s \in kept[h] PROVE s \in Nat /\ s <= holds[h]
  BY DEF IInv, TypeOK, HeldInOrder
<1>3. ASSUME NEW h \in Hosts, AgentCalls(r, h) PROVE IInv'
  <2>1. ~Waits(h) /\ Present(r, h, "call", holds[h], TRUE)
    BY <1>3 DEF AgentCalls
  <2> QED BY <1>1, <2>1, PresentStep
<1>4. ASSUME NEW h \in Hosts, AgentRenews(r, h) PROVE IInv'
  <2>1. ~Waits(h) /\ Present(r, h, "renew", holds[h], TRUE)
    BY <1>4 DEF AgentRenews
  <2> QED BY <1>1, <2>1, PresentStep
<1>5. ASSUME NEW h \in Hosts, CopyCalls(r, h) PROVE IInv'
  <2>1. PICK s \in kept[h] : Present(r, h, "call", s, FALSE)
    BY <1>5 DEF CopyCalls
  <2> QED BY <1>2, <2>1, PresentStep
<1> QED BY <1>3, <1>4, <1>5, EnrollSignStep DEF Arrive

LEMMA RetireFailsStep ==
    ASSUME IInv, NEW r \in Slots, RetireFails(r) PROVE IInv'
<1> DEFINE q == [reqs[r] EXCEPT !.pc = "admitted"]
<1>1. reqs[r] \in Req
  BY DEF IInv, TypeOK
<1>2. q \in Req
  BY <1>1 DEF Req, Pcs
<1>3. /\ q.pc = "admitted" /\ q.host = reqs[r].host
      /\ q.shown = reqs[r].shown /\ q.wanted = reqs[r].wanted
  BY <1>1 DEF Req
<1>4. row[q.host].status # "none" /\ q.shown <= holds[q.host]
  BY <1>3, ReqHost DEF RetireFails, IInv, NoneYet, ShownInOrder
<1>5. q.wanted => \A p \in Slots \ {r} : ~(/\ reqs[p].pc # "idle" /\ reqs[p].wanted
                                           /\ reqs[p].host = q.host)
  BY <1>3 DEF RetireFails, IInv, OneWaiter
<1> QED BY <1>2, <1>3, <1>4, <1>5, ReqsOnly DEF RetireFails

LEMMA GiveUpStep ==
    ASSUME IInv, NEW r \in Slots, GiveUp(r) PROVE IInv'
<1> DEFINE q == [reqs[r] EXCEPT !.wanted = FALSE]
<1>1. reqs[r] \in Req
  BY DEF IInv, TypeOK
<1>2. q \in Req
  BY <1>1 DEF Req
<1>3. /\ q.pc = reqs[r].pc /\ q.host = reqs[r].host
      /\ q.shown = reqs[r].shown /\ q.wanted = FALSE
  BY <1>1 DEF Req
<1>4. /\ row[q.host].status # "none"
      /\ q.pc \in {"retire", "admitted"} => q.shown <= holds[q.host]
  BY <1>3, ReqHost DEF GiveUp, IInv, NoneYet, ShownInOrder
<1> QED BY <1>2, <1>3, <1>4, ReqsOnly DEF GiveUp

LEMMA RetireStep ==
    ASSUME IInv, NEW r \in Slots, Retire(r) PROVE IInv'
<1> DEFINE h == reqs[r].host
           q == [reqs[r] EXCEPT !.pc = "admitted"]
<1> USE DEF IInv
<1>1. /\ reqs[r] \in Req /\ q \in Req
      /\ q.pc = "admitted" /\ q.host = h
      /\ q.shown = reqs[r].shown /\ q.wanted = reqs[r].wanted
      /\ h \in Hosts
  BY DEF TypeOK, Req, Pcs
<1>2. \A p \in Slots : reqs'[p] = IF p = r THEN q ELSE reqs[p]
  BY DEF TypeOK, Retire
<1>3. \A t \in Serial : /\ certs'[t].rowid = certs[t].rowid
                        /\ certs'[t].host = certs[t].host
                        /\ t \notin Older(h, reqs[r].shown) =>
                              certs'[t].revoked = certs[t].revoked
  BY DEF TypeOK, Cert, Retire, Revoked
<1>4. \A g \in Hosts : /\ OfHost(g)' = OfHost(g)
                       /\ OfHost(g) \subseteq Serial
                       /\ Exists(g)' <=> Exists(g)
  BY <1>3 DEF OfHost, Recorded, Exists, Retire
<1>5. TypeOK'
  <2>1. certs' \in [Serial -> Cert]
    BY DEF TypeOK, Cert, Retire, Revoked
  <2>2. reqs' \in [Slots -> Req]
    BY <1>1 DEF TypeOK, Retire
  <2> QED BY <2>1, <2>2 DEF TypeOK, Retire
\* What is retired was recorded for h before what the agent of h holds.
<1>6. \A t \in Older(h, reqs[r].shown) :
         t \in OfHost(h) /\ t < reqs[r].shown /\ reqs[r].shown <= holds[h]
  BY <1>1 DEF Older, Retire, ShownInOrder, RowidOrder, Ordered
<1>7. (SerialsInOrder /\ RowsHaveHost /\ RowidOrder)'
  BY <1>3, <1>4, RowsKept DEF SerialsInOrder, RowsHaveHost, RowidOrder, Recorded, Retire
<1>8. EnrolledHoldsNewest'
  <2> SUFFICES ASSUME NEW g \in Hosts, row'[g].status = "enrolled"
               PROVE  NewestUnrevoked(g)'
    BY DEF EnrolledHoldsNewest
  <2>1. PICK s \in OfHost(g) : /\ ~certs[s].revoked
                               /\ \A t \in OfHost(g) : certs[t].rowid <= certs[s].rowid
    BY DEF EnrolledHoldsNewest, NewestUnrevoked, Retire
  <2>2. s \notin Older(h, reqs[r].shown)
    BY <1>1, <2>1 DEF Older, OfHost, TypeOK, Cert
  <2>3. ~certs'[s].revoked
    BY <1>3, <1>4, <2>1, <2>2
  <2>4. \A t \in OfHost(g) : certs'[t].rowid <= certs'[s].rowid
    BY <1>3, <1>4, <2>1
  <2> QED BY <1>4, <2>3, <2>4 DEF NewestUnrevoked
<1>9. (NoncesDrawn /\ NonceBurnsOnce)'
  BY DEF NoncesDrawn, NonceBurnsOnce, Retire
<1>10. HeldInOrder'
  BY <1>4 DEF HeldInOrder, Retire
<1>11. (ShownInOrder /\ NoneYet)'
  BY <1>1, <1>2 DEF ShownInOrder, NoneYet, Retire
<1>12. OneWaiter'
  BY <1>1, <1>2 DEF OneWaiter, Retire
<1>13. AnswersNewer'
  <2> SUFFICES ASSUME NEW p \in Slots, reqs'[p].pc = "respond", reqs'[p].wanted
               PROVE  NewerFor(reqs[p].host, reqs[p].serial)'
    BY DEF AnswersNewer
  <2>1. reqs'[p] = reqs[p] /\ NewerFor(reqs[p].host, reqs[p].serial)
    BY <1>1, <1>2 DEF AnswersNewer
  <2>2. Exists(reqs[p].host) => reqs[p].serial \notin Older(h, reqs[r].shown)
    <3>1. CASE reqs[p].host = h
      BY <1>6, <2>1, <3>1, <1>1 DEF NewerFor, TypeOK, Req, Older, Serial
    <3>2. CASE reqs[p].host # h
      BY <2>1, <3>2, ReqHost, <1>1, <1>6 DEF NewerFor, OfHost
    <3> QED BY <3>1, <3>2
  <2> QED BY <2>1, <2>2, <1>3, <1>4, ReqHost DEF NewerFor, Retire
<1>14. NeverStranded'
  <2> SUFFICES ASSUME NEW g \in Hosts, Exists(g), holds[g] # 0, holds[g] \notin struck
               PROVE  holds[g] \in OfHost(g) /\ ~certs'[holds[g]].revoked
    BY <1>4 DEF NeverStranded, Retire
  <2>1. holds[g] \in OfHost(g) /\ ~certs[holds[g]].revoked
    BY DEF NeverStranded
  <2>2. holds[g] \notin Older(h, reqs[r].shown)
    BY <1>1, <1>6, <2>1 DEF OfHost, TypeOK, Req
  <2> QED BY <1>3, <1>4, <2>1, <2>2
<1> QED BY <1>5, <1>7, <1>8, <1>9, <1>10, <1>11, <1>12, <1>13, <1>14 DEF IInv

\* Recording a certificate for the host of request r, which answers with it:
\* shared by an enrolment, which also marks the row enrolled, and a renewal.
LEMMA InsertStep ==
    ASSUME IInv, NEW r \in Slots, NEW h \in Hosts, h = reqs[r].host,
           reqs[r].pc # "idle", Exists(h), Insert(h),
           reqs' = [reqs EXCEPT ![r] = [reqs[r] EXCEPT !.pc = "respond",
                                                      !.serial = serials + 1]],
           row' = row \/ row' = [row EXCEPT ![h] = [status |-> "enrolled", nonce |-> 0,
                                                     open |-> FALSE]],
           UNCHANGED <<nonces, tokens, holds, kept, struck>>,
           spent' \subseteq [nonce : Nat, serial : Nat]
    PROVE  /\ TypeOK' /\ SerialsInOrder' /\ RowsHaveHost' /\ RowidOrder'
           /\ EnrolledHoldsNewest'
           /\ HeldInOrder' /\ ShownInOrder' /\ AnswersNewer' /\ NoneYet' /\ OneWaiter'
           /\ NeverStranded'
<1> DEFINE new == serials + 1
           q == [reqs[r] EXCEPT !.pc = "respond", !.serial = new]
<1> USE DEF IInv
<1>1. new \in Serial /\ serials \in Nat /\ new = serials + 1 /\ serials' = new
  BY ConstantsAssumption DEF TypeOK, Insert, Serial
<1>2. PICK n \in Serial : /\ IsNextRowid(n)
                          /\ certs' = [certs EXCEPT ![new] =
                               [rowid |-> n, host |-> h, revoked |-> FALSE, expired |-> FALSE]]
  BY DEF Insert
<1>3. n \in Nat /\ n > 0 /\ \A t \in Serial : certs[t].rowid < n /\ certs[t].rowid \in Nat
  BY <1>2 DEF IsNextRowid, Serial, TypeOK, Cert
<1>4. \A t \in Serial : certs'[t] = IF t = new
           THEN [rowid |-> n, host |-> h, revoked |-> FALSE, expired |-> FALSE]
           ELSE certs[t]
  BY <1>1, <1>2 DEF TypeOK
<1> HIDE DEF new
<1>5. /\ reqs[r] \in Req /\ q \in Req
      /\ q.pc = "respond" /\ q.host = h /\ q.serial = new
      /\ q.wanted = reqs[r].wanted
  <2>1. reqs[r] \in Req /\ new \in Nat
    BY <1>1 DEF TypeOK, Serial
  <2>2. q \in Req
    BY <2>1 DEF Req, Pcs
  <2>3. /\ q.pc = "respond" /\ q.host = h /\ q.serial = new
        /\ q.wanted = reqs[r].wanted
    BY <2>1 DEF Req
  <2> QED BY <2>1, <2>2, <2>3
<1>6. \A p \in Slots : reqs'[p] = IF p = r THEN q ELSE reqs[p]
  BY DEF TypeOK, new
<1>7. \A g \in Hosts : /\ \/ row'[g].status = row[g].status
                          \/ g = h /\ row'[g].status = "enrolled"
                       /\ Exists(g)' <=> Exists(g)
  <2>1. CASE row' = row
    BY <2>1 DEF Exists
  <2>2. CASE row' = [row EXCEPT ![h] = [status |-> "enrolled", nonce |-> 0, open |-> FALSE]]
    BY <2>2 DEF TypeOK, Exists
  <2> QED BY <2>1, <2>2
\* The new row comes after every row of h, and joins no other host's.
<1>8. /\ OfHost(h)' = OfHost(h) \cup {new}
      /\ \A g \in Hosts \ {h} : OfHost(g)' = OfHost(g)
      /\ \A g \in Hosts : new \notin OfHost(g) /\ OfHost(g) \subseteq Serial
      /\ \A g \in Hosts : \A t \in OfHost(g) : t < new
  <2>1. \A g \in Hosts : \A t \in OfHost(g) : t < new
    BY <1>1 DEF SerialsInOrder, OfHost, Serial
  <2>2. ~Recorded(new)
    BY <1>1 DEF SerialsInOrder
  <2> QED BY <1>1, <1>3, <1>4, <2>1, <2>2 DEF OfHost, Recorded
<1>9. TypeOK'
  <2>1. certs' \in [Serial -> Cert]
    BY <1>1, <1>2, <1>3 DEF TypeOK, Cert
  <2>2. reqs' \in [Slots -> Req]
    BY <1>5, <1>6 DEF TypeOK, new
  <2>3. row' \in [Hosts -> Row]
    <3>1. [status |-> "enrolled", nonce |-> 0, open |-> FALSE] \in Row
      BY DEF Row, Statuses
    <3> QED BY <3>1 DEF TypeOK
  <2>4. serials' \in 0..MaxSerial
    BY <1>1 DEF Serial
  <2> QED BY <2>1, <2>2, <2>3, <2>4 DEF TypeOK
<1>10. SerialsInOrder' /\ RowsHaveHost'
  <2>1. SerialsInOrder'
    BY <1>1, <1>4 DEF SerialsInOrder, Recorded, Serial
  <2>2. RowsHaveHost'
    BY <1>7, <1>8 DEF RowsHaveHost
  <2> QED BY <2>1, <2>2
<1>11. RowidOrder'
  <2>1. \A g \in Hosts \ {h} : Ordered(g)'
    BY <1>4, <1>8, RowsKept DEF RowidOrder
  <2>2. Ordered(h)'
    <3> SUFFICES ASSUME NEW s \in OfHost(h) \cup {new}, NEW t \in OfHost(h) \cup {new}
                 PROVE  s < t <=> certs'[s].rowid < certs'[t].rowid
      BY <1>8 DEF Ordered
    <3>1. CASE s \in OfHost(h) /\ t \in OfHost(h)
      BY <1>4, <1>8, <3>1 DEF RowidOrder, Ordered
    <3>2. CASE s = new \/ t = new
      BY <1>1, <1>3, <1>4, <1>8, <3>2 DEF Serial
    <3> QED BY <3>1, <3>2
  <2> QED BY <2>1, <2>2 DEF RowidOrder
<1>12. EnrolledHoldsNewest'
  <2>1. NewestUnrevoked(h)'
    <3>1. new \in OfHost(h)' /\ ~certs'[new].revoked
      BY <1>1, <1>4, <1>8
    <3>2. \A t \in OfHost(h)' : certs'[t].rowid <= certs'[new].rowid
      BY <1>1, <1>3, <1>4, <1>8
    <3> QED BY <3>1, <3>2 DEF NewestUnrevoked
  <2>2. ASSUME NEW g \in Hosts \ {h}, row'[g].status = "enrolled" PROVE NewestUnrevoked(g)'
    <3>1. \A t \in OfHost(g) : certs'[t] = certs[t]
      BY <1>4, <1>8
    <3> QED BY <1>7, <1>8, <2>2, <3>1, RowsKept DEF EnrolledHoldsNewest
  <2> QED BY <2>1, <2>2 DEF EnrolledHoldsNewest
<1>13. HeldInOrder'
  BY <1>1, <1>7, <1>8 DEF HeldInOrder, TypeOK
<1>14. ShownInOrder' /\ NoneYet'
  BY <1>5, <1>6, <1>7 DEF ShownInOrder, NoneYet, Exists
<1>15. OneWaiter'
  BY <1>5, <1>6 DEF OneWaiter
<1>16. AnswersNewer'
  <2> SUFFICES ASSUME NEW p \in Slots, reqs'[p].pc = "respond", reqs'[p].wanted
               PROVE  NewerFor(reqs[p].host, reqs[p].serial)'
    BY DEF AnswersNewer
  <2>1. CASE p = r
    <3>1. reqs'[p].host = h /\ reqs'[p].serial = new
      BY <1>5, <1>6, <2>1
    <3>2. holds'[h] < new
      BY <1>1 DEF HeldInOrder, TypeOK
    <3>3. new \in OfHost(h)' /\ ~certs'[new].revoked
      BY <1>1, <1>4, <1>8
    <3> QED BY <1>1, <3>1, <3>2, <3>3 DEF NewerFor, Serial
  <2>2. CASE p # r
    <3>1. reqs'[p] = reqs[p] /\ NewerFor(reqs[p].host, reqs[p].serial)
      BY <1>6, <2>2 DEF AnswersNewer
    <3>2. reqs[p].host \in Hosts /\ reqs[p].serial \in Serial /\ reqs[p].serial # new
      BY <1>1, <3>1, ReqHost DEF NewerFor, Serial
    <3>3. PICK g \in Hosts, s \in Serial : g = reqs[p].host /\ s = reqs[p].serial
      BY <3>2
    <3>4. /\ s \in Serial
          /\ holds'[g] < s
          /\ s <= serials'
          /\ certs'[s] = certs[s]
      BY <1>1, <1>4, <3>1, <3>2, <3>3 DEF NewerFor, Serial
    <3>5. Exists(g)' => s \in OfHost(g)' /\ (certs'[s].revoked => s \in struck')
      BY <1>7, <1>8, <3>1, <3>3, <3>4 DEF NewerFor
    <3> QED BY <3>1, <3>3, <3>4, <3>5 DEF NewerFor
  <2> QED BY <2>1, <2>2
<1>17. NeverStranded'
  <2> SUFFICES ASSUME NEW g \in Hosts, Exists(g), holds[g] # 0, holds[g] \notin struck
               PROVE  holds[g] \in OfHost(g)' /\ ~certs'[holds[g]].revoked
    BY <1>7 DEF NeverStranded
  <2>1. holds[g] \in OfHost(g) /\ ~certs[holds[g]].revoked
    BY DEF NeverStranded
  <2> QED BY <1>4, <1>8, <2>1
<1> QED BY <1>9, <1>10, <1>11, <1>12, <1>13, <1>14, <1>15, <1>16, <1>17

LEMMA EnrollBurnStep ==
    ASSUME IInv, NEW r \in Slots, EnrollBurn(r) PROVE IInv'
<1> DEFINE h == reqs[r].host
           n == reqs[r].nonce
<1> USE DEF IInv
<1>1. h \in Hosts /\ n \in Nat
  BY DEF TypeOK, Req
<1>2. /\ row[h].status = "pending" /\ row[h].nonce = n
      /\ row' = [row EXCEPT ![h] = [status |-> "enrolled", nonce |-> 0, open |-> FALSE]]
      /\ spent' = spent \cup {[nonce |-> n, serial |-> serials + 1]}
      /\ nonces' = nonces
  BY DEF EnrollBurn, Waiting
<1>3. spent' \subseteq [nonce : Nat, serial : Nat]
  BY <1>1, <1>2 DEF TypeOK
<1>4. /\ TypeOK' /\ SerialsInOrder' /\ RowsHaveHost' /\ RowidOrder'
      /\ EnrolledHoldsNewest'
      /\ HeldInOrder' /\ ShownInOrder' /\ AnswersNewer' /\ NoneYet' /\ OneWaiter'
      /\ NeverStranded'
  <2>1. Exists(h) /\ reqs[r].pc # "idle"
    BY <1>2 DEF Exists, EnrollBurn
  <2> QED BY <1>1, <1>2, <1>3, <2>1, InsertStep DEF EnrollBurn
<1>5. \A g \in Hosts : row'[g].status = "pending" => g # h /\ row'[g] = row[g]
  BY <1>1, <1>2 DEF TypeOK
<1>6. NonceBurnsOnce'
  <2>1. \A a \in spent : a.nonce # n
    BY <1>1, <1>2 DEF NoncesDrawn
  <2> QED BY <1>2, <2>1 DEF NonceBurnsOnce
<1>7. NoncesDrawn'
  <2>1. n \in 1..nonces
    BY <1>1, <1>2 DEF NoncesDrawn
  <2>2. \A g \in Hosts : row'[g].status = "pending" => row'[g].nonce # n
    BY <1>1, <1>2, <1>5 DEF NoncesDrawn
  <2>3. \A a \in spent' : a \in spent \/ a.nonce = n
    BY <1>2
  <2> QED BY <1>2, <1>5, <2>1, <2>2, <2>3 DEF NoncesDrawn
<1> QED BY <1>4, <1>6, <1>7 DEF IInv

LEMMA RenewRecordStep ==
    ASSUME IInv, NEW r \in Slots, RenewRecord(r) PROVE IInv'
<1> USE DEF IInv
<1>1. reqs[r].host \in Hosts /\ Exists(reqs[r].host)
  BY ReqHost DEF RenewRecord
<1>2. spent' \subseteq [nonce : Nat, serial : Nat]
  BY DEF TypeOK, RenewRecord
<1>3. /\ TypeOK' /\ SerialsInOrder' /\ RowsHaveHost' /\ RowidOrder'
      /\ EnrolledHoldsNewest'
      /\ HeldInOrder' /\ ShownInOrder' /\ AnswersNewer' /\ NoneYet' /\ OneWaiter'
      /\ NeverStranded'
  BY <1>1, <1>2, InsertStep DEF RenewRecord
<1>4. (NoncesDrawn /\ NonceBurnsOnce)'
  BY DEF NoncesDrawn, NonceBurnsOnce, RenewRecord
<1> QED BY <1>3, <1>4 DEF IInv

LEMMA DeliverStep ==
    ASSUME IInv, NEW r \in Slots, Deliver(r) PROVE IInv'
<1> USE DEF IInv
<1>1. PICK h \in Hosts, s \in Nat : h = reqs[r].host /\ s = reqs[r].serial
  BY ReqHost DEF TypeOK, Req
<1>2. NewerFor(h, s)
  BY <1>1 DEF Deliver, AnswersNewer
<1>3. /\ holds' = [holds EXCEPT ![h] = s]
      /\ kept' = [kept EXCEPT ![h] = kept[h] \cup ({holds[h]} \ {0})]
      /\ reqs' = [reqs EXCEPT ![r] = IdleReq]
      /\ UNCHANGED <<row, certs, nonces, serials, tokens, struck, spent>>
  BY <1>1 DEF Deliver, Finish
<1>4. /\ s \in Nat /\ holds[h] \in Nat /\ holds[h] < s
      /\ \A g \in Hosts : holds'[g] = IF g = h THEN s ELSE holds[g]
      /\ \A p \in Slots : reqs'[p] = IF p = r THEN IdleReq ELSE reqs[p]
  BY <1>2, <1>3 DEF TypeOK, NewerFor, Serial
<1>5. \A g \in Hosts : OfHost(g)' = OfHost(g) /\ (Exists(g)' <=> Exists(g))
  BY <1>3 DEF OfHost, Recorded, Exists
<1>6. TypeOK'
  <2>1. holds' \in [Hosts -> Nat] /\ kept' \in [Hosts -> SUBSET Nat]
    BY <1>3, <1>4 DEF TypeOK
  <2> QED BY <1>3, <2>1, IdleTyped DEF TypeOK
<1>7. (SerialsInOrder /\ RowsHaveHost /\ RowidOrder /\ EnrolledHoldsNewest)'
  BY <1>3, <1>5, RowsKept
  DEF SerialsInOrder, RowsHaveHost, RowidOrder, EnrolledHoldsNewest, Recorded
<1>8. (NoncesDrawn /\ NonceBurnsOnce)'
  BY <1>3 DEF NoncesDrawn, NonceBurnsOnce
<1>9. HeldInOrder'
  <2> SUFFICES ASSUME NEW g \in Hosts
               PROVE  /\ holds'[g] <= serials
                      /\ Exists(g) /\ holds'[g] # 0 => holds'[g] \in OfHost(g)
                      /\ \A t \in kept'[g] : t <= holds'[g]
    BY <1>3, <1>5 DEF HeldInOrder
  <2>1. CASE g # h
    BY <1>3, <1>4, <2>1 DEF HeldInOrder, TypeOK
  <2>2. CASE g = h
    <3>1. \A t \in kept'[h] : t \in Nat /\ t <= s
      BY <1>3, <1>4 DEF HeldInOrder, TypeOK
    <3> QED BY <1>2, <1>4, <2>2, <3>1 DEF NewerFor
  <2> QED BY <2>1, <2>2
<1>10. ShownInOrder'
  <2> SUFFICES ASSUME NEW p \in Slots, reqs'[p].pc \in {"retire", "admitted"}
               PROVE  reqs'[p].shown <= holds'[reqs'[p].host]
    BY DEF ShownInOrder
  <2>1. reqs'[p] = reqs[p] /\ reqs[p] \in Req
    BY <1>4 DEF IdleReq, TypeOK
  <2>2. reqs[p].shown \in Nat /\ reqs[p].shown <= holds[reqs[p].host]
    BY <2>1 DEF ShownInOrder, Req
  <2> QED BY <1>4, <2>1, <2>2, ReqHost
<1>11. NoneYet'
  <2>1. row[h].status # "none"
    BY <1>1 DEF NoneYet, Deliver
  <2>2. IdleReq.pc = "idle"
    BY DEF IdleReq
  <2> QED BY <1>3, <1>4, <2>1, <2>2 DEF NoneYet
<1>12. OneWaiter'
  BY <1>4 DEF OneWaiter, IdleReq
<1>13. AnswersNewer'
  <2> SUFFICES ASSUME NEW p \in Slots, reqs'[p].pc = "respond", reqs'[p].wanted
               PROVE  NewerFor(reqs[p].host, reqs[p].serial)'
    BY DEF AnswersNewer
  <2>1. p # r /\ reqs'[p] = reqs[p]
    BY <1>4 DEF IdleReq
  <2>2. reqs[p].host # h
    BY <1>1, <2>1 DEF OneWaiter, Deliver
  <2>3. PICK g \in Hosts, t \in Nat : g = reqs[p].host /\ t = reqs[p].serial
    BY ReqHost DEF TypeOK, Req
  <2>4. NewerFor(g, t) /\ holds'[g] = holds[g]
    BY <1>4, <2>1, <2>2, <2>3 DEF AnswersNewer
  <2>5. t \in Serial /\ holds'[g] < t /\ t <= serials'
    BY <1>3, <2>4 DEF NewerFor
  <2>6. Exists(g)' => t \in OfHost(g)' /\ (certs'[t].revoked => t \in struck')
    BY <1>3, <1>5, <2>4 DEF NewerFor
  <2> QED BY <2>1, <2>3, <2>5, <2>6 DEF NewerFor
<1>14. NeverStranded'
  <2> SUFFICES ASSUME NEW g \in Hosts, Exists(g), holds'[g] # 0, holds'[g] \notin struck
               PROVE  holds'[g] \in OfHost(g) /\ ~certs[holds'[g]].revoked
    BY <1>3, <1>5 DEF NeverStranded
  <2>1. CASE g # h
    BY <1>4, <2>1 DEF NeverStranded
  <2>2. CASE g = h
    BY <1>2, <1>4, <2>2 DEF NewerFor
  <2> QED BY <2>1, <2>2
<1> QED BY <1>6, <1>7, <1>8, <1>9, <1>10, <1>11, <1>12, <1>13, <1>14 DEF IInv

-----------------------------------------------------------------------------
LEMMA ServeStep == ASSUME IInv, NEW r \in Slots, Serve(r) PROVE IInv'
<1>1. CASE EnrollBurn(r)     BY <1>1, EnrollBurnStep
<1>2. CASE EnrollRefused(r)  BY <1>2, FinishStep DEF EnrollRefused
<1>3. CASE Retire(r)         BY <1>3, RetireStep
<1>4. CASE RetireFails(r)    BY <1>4, RetireFailsStep
<1>5. CASE CallEnds(r)       BY <1>5, FinishStep DEF CallEnds
<1>6. CASE RenewRecord(r)    BY <1>6, RenewRecordStep
<1>7. CASE Deliver(r)        BY <1>7, DeliverStep
<1>8. CASE GiveUp(r)         BY <1>8, GiveUpStep
<1>9. CASE Dropped(r)        BY <1>9, FinishStep DEF Dropped
<1> QED BY <1>1, <1>2, <1>3, <1>4, <1>5, <1>6, <1>7, <1>8, <1>9 DEF Serve

LEMMA StutterStep == ASSUME IInv, UNCHANGED vars PROVE IInv'
  BY DEF IInv, vars, TypeOK, SerialsInOrder, RowsHaveHost, RowidOrder, Ordered,
         EnrolledHoldsNewest, NewestUnrevoked, NoncesDrawn, NonceBurnsOnce, HeldInOrder,
         ShownInOrder, AnswersNewer, NewerFor, NoneYet, OneWaiter, NeverStranded,
         OfHost, Recorded, Exists

\* Every step of the specification preserves the inductive invariant.
LEMMA NextIInv == ASSUME IInv, [Next]_vars PROVE IInv'
<1>1. ASSUME NEW h \in Hosts, Operator(h) PROVE IInv'
  BY <1>1, CreateStep, RevokeStep, DeleteStep, TokenExpiresStep DEF Operator
<1>2. ASSUME NEW s \in Serial, CertExpires(s) PROVE IInv'
  BY <1>2, CertExpiresStep
<1>3. ASSUME NEW r \in Slots, Arrive(r) \/ Serve(r) PROVE IInv'
  BY <1>3, ArriveStep, ServeStep
<1>4. CASE UNCHANGED vars
  BY <1>4, StutterStep
<1> QED BY <1>1, <1>2, <1>3, <1>4 DEF Next

\* The inductive invariant holds in every reachable state, for any number of
\* hosts, overlapping requests, nonces and certificates.
THEOREM Inductive == Spec => []IInv
<1>1. Init => IInv
  BY InitIInv
<1>2. IInv /\ [Next]_vars => IInv'
  BY NextIInv
<1> QED BY <1>1, <1>2, PTL DEF Spec

\* HostCerts.TypeOK: every variable keeps its type.
THEOREM TypeCorrect == Spec => []TypeOK
<1>1. IInv => TypeOK
  BY DEF IInv
<1> QED BY <1>1, Inductive, PTL

\* A bootstrap nonce is exchanged for one certificate at most.
THEOREM NoncesBurnOnce == Spec => []NonceBurnsOnce
<1>1. IInv => NonceBurnsOnce
  BY DEF IInv
<1> QED BY <1>1, Inductive, PTL

\* An enrolled host is never left without a certificate.
THEOREM EnrolledAlwaysHolds == Spec => []EnrolledHoldsNewest
<1>1. IInv => EnrolledHoldsNewest
  BY DEF IInv
<1> QED BY <1>1, Inductive, PTL

\* Retirement never takes the certificate the agent is left with, whatever
\* answers were lost and whichever older serial is presented.
THEOREM AgentsNeverStranded == Spec => []NeverStranded
<1>1. IInv => NeverStranded
  BY DEF IInv
<1> QED BY <1>1, Inductive, PTL

\* Within a host's rows rowid order is recording order, although rowids of
\* deleted rows are given out again.
THEOREM RowidsOrdered == Spec => []RowidOrder
<1>1. IInv => RowidOrder
  BY DEF IInv
<1> QED BY <1>1, Inductive, PTL

\* A deleted host has no certificate, and no request under way gives it one.
THEOREM DeletedStaysOut == Spec => []DeletedCutOff
<1>1. IInv => DeletedCutOff
  BY DEF IInv, RowsHaveHost, DeletedCutOff, Exists
<1> QED BY <1>1, Inductive, PTL
=============================================================================
