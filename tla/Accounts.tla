------------------------------- MODULE Accounts -------------------------------
(***************************************************************************)
(* Operator accounts: sign-up, invitation, sign-in by magic link, sessions *)
(* and API keys, the tenant's user administration and the cross-tenant     *)
(* platform console (server/src/auth, server/src/admin, and UserRepo,      *)
(* MagicLinkRepo, SessionRepo and ApiKeyRepo in                            *)
(* storage/src/repos/users.rs).                                            *)
(*                                                                         *)
(* Every database statement or transaction is one step; a request holds    *)
(* what it read until its next statement.  Row ids are SQLite rowids: the  *)
(* highest id plus one, so that deleting the newest user frees its id.     *)
(* The self-hosted mode, which has neither links nor invitations, is left  *)
(* out.                                                                    *)
(***************************************************************************)
EXTENDS Naturals, FiniteSets

CONSTANTS
    Persons,      \* mail addresses, each read by one person
    Tenants,
    Listed,       \* the addresses of PLATFORM_ADMIN_EMAILS
    Links,        \* magic link tokens
    Slots,        \* requests the server is running
    Workloads,    \* sets of operations to exercise together
    MaxId,        \* bound: highest user id
    MaxKeys,      \* MAX_KEYS_PER_USER
    MaxRestarts,  \* bound: times the process is restarted
    Founder,      \* the listed operator whose sign-up made the first tenant
    None

Ids        == 1 .. MaxId
Assignable == {"admin", "add_hosts", "view_only"}
Roles      == {"owner"} \cup Assignable
AllOps     == {"signup", "invite", "set_role", "delete_user", "update_user", "platform_delete",
               "create_tenant", "create_key", "delete_key", "logout_everywhere", "restart"}

ASSUME ConstantsAssumption ==
    /\ Founder \in Listed
    /\ None \notin Persons
    /\ Tenants # {}
    /\ Listed \subseteq Persons
    /\ Workloads \subseteq SUBSET AllOps
    /\ MaxId \in Nat \ {0}
    /\ MaxKeys \in Nat
    /\ MaxRestarts \in Nat

VARIABLES
    tenants,   \* tenants that exist
    users,     \* the users table by id; an absent row has no person
    sessions,  \* <<person who holds the cookie, tenant_id, user_id>>
    links,     \* the magic_links table, with the person it was mailed to
    keys,      \* number of API keys of each <<tenant_id, user_id>>
    audit,     \* <<tenant_id, user_id>> of the attributed audit entries
    reqs,      \* the running requests
    restarts,
    load       \* the workload

vars == <<tenants, users, sessions, links, keys, audit, reqs, restarts, load>>

SomeTenant == CHOOSE t \in Tenants : TRUE
NoRow  == [person |-> None, tenant |-> SomeTenant, role |-> "view_only",
           blocked |-> FALSE, admin |-> FALSE]
NoLink == [st |-> "none", tenant |-> SomeTenant, id |-> 1, to |-> None]

Switch  == {"leave", "on", "off"}
\* What a request asks for; fields its operation does not use hold defaults.
NoAsk   == [op |-> "none", tenant |-> SomeTenant, id |-> 1, person |-> None,
            role |-> "view_only", block |-> "leave", flag |-> "leave"]
Asks    == [op : AllOps \cup {"none"}, tenant : Tenants, id : Ids,
            person : Persons \cup {None}, role : Assignable, block : Switch, flag : Switch]
IdleReq == [pc |-> "idle", ask |-> NoAsk, by |-> 1, home |-> SomeTenant, holder |-> None,
            via |-> "session", tenant |-> SomeTenant, id |-> 1, then |-> "idle"]
Pcs     == {"idle", "touched", "handle", "count", "set_role", "delete", "block", "flag",
            "create", "tenant", "owner", "grant_owner", "link", "rollback", "add_key", "audit",
            "redeemed", "grant", "mint"}

Present(i)   == users[i].person # None
InTenant(t, i) == Present(i) /\ users[i].tenant = t
Registered(p) == \E i \in Ids : users[i].person = p      \* find_by_email
\* The id SQLite gives the next row.
IsNextId(n)  == /\ \A i \in Ids : Present(i) => i < n
                /\ n = 1 \/ Present(n - 1)
Owners(t)    == {i \in Ids : InTenant(t, i) /\ users[i].role = "owner"}
CanManageUsers(role) == role \in {"owner", "admin"}

Init ==
    /\ tenants = {SomeTenant}
    /\ users = [i \in Ids |-> IF i = 1
                  THEN [person |-> Founder, tenant |-> SomeTenant, role |-> "owner",
                        blocked |-> FALSE, admin |-> TRUE]
                  ELSE NoRow]
    /\ sessions = {<<Founder, SomeTenant, 1>>}
    /\ links = [l \in Links |-> NoLink]
    /\ keys = [k \in Tenants \X Ids |-> 0]
    /\ audit = {}
    /\ reqs = [r \in Slots |-> IdleReq]
    /\ restarts = 0
    /\ load \in Workloads

Answer(r)   == reqs' = [reqs EXCEPT ![r] = IdleReq]
GoTo(r, pc) == reqs' = [reqs EXCEPT ![r] = [@ EXCEPT !.pc = pc]]
\* The mutation is done: an audit entry in tenant t follows, then pc.
Record(r, t, pc) ==
    reqs' = [reqs EXCEPT ![r] = [@ EXCEPT !.pc = "audit", !.tenant = t, !.then = pc]]

-----------------------------------------------------------------------------
(* UserRepo and the foreign keys to users(id).                             *)

\* UserRepo::create: the address is unique across tenants.
InsertUser(n, t, p, role) ==
    /\ IsNextId(n)
    /\ ~Registered(p)
    /\ users' = [users EXCEPT ![n] =
         [person |-> p, tenant |-> t, role |-> role, blocked |-> FALSE, admin |-> FALSE]]

\* What UserRepo::delete does not remove: rows of another tenant that name i.
Referenced(t, i) ==
    \/ \E s \in sessions : s[2] # t /\ s[3] = i
    \/ \E l \in Links : links[l].st \in {"fresh", "used"} /\ links[l].tenant # t /\ links[l].id = i
    \/ \E u \in Tenants : u # t /\ (keys[<<u, i>>] > 0 \/ <<u, i>> \in audit)

\* Mutant of RemoveUser: the row is addressed by its id alone.
RemoveUserAnyTenant(t, i) ==
    IF Present(i)
      THEN /\ users' = [users EXCEPT ![i] = NoRow]
           /\ sessions' = {s \in sessions : s[3] # i}
           /\ links' = [l \in Links |-> IF links[l].id = i THEN NoLink ELSE links[l]]
           /\ keys' = [k \in DOMAIN keys |-> IF k[2] = i THEN 0 ELSE keys[k]]
           /\ audit' = {a \in audit : a[2] # i}
      ELSE UNCHANGED <<users, sessions, links, keys, audit>>

\* UserRepo::delete, one transaction: a row left pointing at the user makes
\* it fail, and nothing of it happens.
RemoveUser(t, i) ==
    IF InTenant(t, i) /\ Referenced(t, i)
      THEN UNCHANGED <<users, sessions, links, keys, audit>>
      ELSE /\ users' = IF InTenant(t, i) THEN [users EXCEPT ![i] = NoRow] ELSE users
           /\ sessions' = {s \in sessions : ~(s[2] = t /\ s[3] = i)}
           /\ links' = [l \in Links |->
                IF links[l].tenant = t /\ links[l].id = i /\ links[l].st \in {"fresh", "used"}
                  THEN [links[l] EXCEPT !.st = "gone"] ELSE links[l]]
           /\ keys' = [keys EXCEPT ![<<t, i>>] = 0]
           /\ audit' = audit \ {<<t, i>>}

-----------------------------------------------------------------------------
(* Asking for a link, and signing in with it.                              *)

\* send_link, and signup for an address that has an account: a blocked or
\* unknown address gets no mail.  The rest runs on a detached task.
SendLink(r, i) ==
    /\ reqs[r].pc = "idle"
    /\ Present(i) /\ ~users[i].blocked
    /\ reqs' = [reqs EXCEPT ![r] = [IdleReq EXCEPT !.pc = "link", !.tenant = users[i].tenant,
                                                   !.id = i, !.holder = users[i].person]]
    /\ UNCHANGED <<tenants, users, sessions, links, keys, audit, restarts, load>>

\* Where a request goes once its link was mailed (ok) or was not.
AfterLink(r, ok) ==
    CASE reqs[r].ask.op = "invite" /\ ~ok  -> GoTo(r, "rollback")
      [] reqs[r].ask.op = "invite" /\ ok   -> Record(r, reqs[r].tenant, "idle")
      [] reqs[r].ask.op = "create_tenant"  -> Record(r, reqs[r].tenant, "idle")
      [] OTHER                             -> Answer(r)

\* issue_and_send_link: the insert needs a user of that id, whoever it is now.
MailLink(r, l) ==
    /\ reqs[r].pc = "link"
    /\ links[l].st = "none"
    /\ Present(reqs[r].id)
    /\ links' = [links EXCEPT ![l] = [st |-> "fresh", tenant |-> reqs[r].tenant,
                                      id |-> reqs[r].id, to |-> reqs[r].holder]]
    /\ AfterLink(r, TRUE)
    /\ UNCHANGED <<tenants, users, sessions, keys, audit, restarts, load>>

\* The insert or the delivery fails; a link stored but not delivered is one
\* nobody holds.
MailFails(r) ==
    /\ reqs[r].pc = "link"
    /\ AfterLink(r, FALSE)
    /\ UNCHANGED <<tenants, users, sessions, links, keys, audit, restarts, load>>

\* exchange_confirm burns the link, atomically.
Redeem(r, l) ==
    /\ reqs[r].pc = "idle"
    /\ links[l].st = "fresh"
    /\ links' = [links EXCEPT ![l] = [@ EXCEPT !.st = "used"]]
    /\ reqs' = [reqs EXCEPT ![r] = [IdleReq EXCEPT !.pc = "redeemed",
           !.tenant = links[l].tenant, !.id = links[l].id, !.holder = links[l].to]]
    /\ UNCHANGED <<tenants, users, sessions, keys, audit, restarts, load>>

\* Mutant of AdmitUser: the block is not looked at.
AdmitAnyone(r) ==
    /\ reqs[r].pc = "redeemed"
    /\ LET u == users[reqs[r].id] IN
         IF ~InTenant(reqs[r].tenant, reqs[r].id) THEN Answer(r)
         ELSE GoTo(r, IF u.person \in Listed /\ ~u.admin THEN "grant" ELSE "mint")
    /\ UNCHANGED <<tenants, users, sessions, links, keys, audit, restarts, load>>

\* issue_session_cookie reads the user: gone or blocked ends the sign-in.
AdmitUser(r) ==
    /\ reqs[r].pc = "redeemed"
    /\ LET u == users[reqs[r].id] IN
         IF ~InTenant(reqs[r].tenant, reqs[r].id) \/ u.blocked THEN Answer(r)
         ELSE GoTo(r, IF u.person \in Listed /\ ~u.admin THEN "grant" ELSE "mint")
    /\ UNCHANGED <<tenants, users, sessions, links, keys, audit, restarts, load>>

\* platform_admin_bootstrap; a failed write is logged and the sign-in goes on.
Grant(r) ==
    /\ reqs[r].pc = "grant"
    /\ \/ /\ Present(reqs[r].id)
          /\ users' = [users EXCEPT ![reqs[r].id] = [@ EXCEPT !.admin = TRUE]]
       \/ UNCHANGED users
    /\ GoTo(r, "mint")
    /\ UNCHANGED <<tenants, sessions, links, keys, audit, restarts, load>>

\* The session is inserted; nothing looks at the block again.
MintSession(r) ==
    /\ reqs[r].pc = "mint"
    /\ sessions' = IF Present(reqs[r].id)
                     THEN sessions \cup {<<reqs[r].holder, reqs[r].tenant, reqs[r].id>>}
                     ELSE sessions
    /\ Answer(r)
    /\ UNCHANGED <<tenants, users, links, keys, audit, restarts, load>>

\* Sessions of one person on one row are not told apart: this is the last.
Logout(s) ==
    /\ s \in sessions
    /\ sessions' = sessions \ {s}
    /\ UNCHANGED <<tenants, users, links, keys, audit, reqs, restarts, load>>

\* A link expires; housekeeping deletes it.  An expired session is Logout.
ExpireLink(l) ==
    /\ links[l].st \in {"fresh", "used"}
    /\ links' = [links EXCEPT ![l] = [@ EXCEPT !.st = "gone"]]
    /\ UNCHANGED <<tenants, users, sessions, keys, audit, reqs, restarts, load>>

-----------------------------------------------------------------------------
(* session_layer: the credential is resolved, then its user is read.       *)

TouchSession(r, s) ==
    /\ reqs[r].pc = "idle"
    /\ s \in sessions
    /\ reqs' = [reqs EXCEPT ![r] = [IdleReq EXCEPT !.pc = "touched", !.holder = s[1],
                                                   !.home = s[2], !.by = s[3]]]
    /\ UNCHANGED <<tenants, users, sessions, links, keys, audit, restarts, load>>

FindKey(r, k) ==
    /\ reqs[r].pc = "idle"
    /\ keys[k] > 0
    /\ reqs' = [reqs EXCEPT ![r] = [IdleReq EXCEPT !.pc = "touched", !.via = "key",
                                                   !.home = k[1], !.by = k[2]]]
    /\ UNCHANGED <<tenants, users, sessions, links, keys, audit, restarts, load>>

\* As if the console let its user change the own account.
PermittedSelf(u, i, via, a) ==
    CASE a.op \in {"set_role", "delete_user"} -> CanManageUsers(u.role) /\ a.id # i
      [] a.op = "invite"          -> CanManageUsers(u.role)
      [] a.op = "update_user"     -> u.admin /\ via = "session" /\ (a.block # "leave" \/ a.flag # "leave")
      [] a.op \in {"platform_delete", "create_tenant"} -> u.admin /\ via = "session"
      [] a.op = "create_key"      -> via = "session"
      [] OTHER                    -> a.op \in {"delete_key", "logout_everywhere"}

\* What the handler of a checks before it touches the database.
Permitted(u, i, via, a) ==
    CASE a.op \in {"set_role", "delete_user"} -> CanManageUsers(u.role) /\ a.id # i
      [] a.op = "invite"          -> CanManageUsers(u.role)
      [] a.op = "update_user"     -> /\ u.admin /\ via = "session" /\ a.id # i
                                     /\ a.block # "leave" \/ a.flag # "leave"
      [] a.op = "platform_delete" -> u.admin /\ via = "session" /\ a.id # i
      [] a.op = "create_tenant"   -> u.admin /\ via = "session"
      [] a.op = "create_key"      -> via = "session"
      [] OTHER                    -> a.op \in {"delete_key", "logout_everywhere"}

Identify(r, a) ==
    /\ a.op \in load
    /\ reqs[r].pc = "touched"
    /\ InTenant(reqs[r].home, reqs[r].by)
    /\ ~users[reqs[r].by].blocked
    /\ Permitted(users[reqs[r].by], reqs[r].by, reqs[r].via, a)
    /\ reqs' = [reqs EXCEPT ![r] = [@ EXCEPT !.pc = "handle", !.ask = a]]
    /\ UNCHANGED <<tenants, users, sessions, links, keys, audit, restarts, load>>

\* Not signed in, not permitted, or a request that only reads.
Refuse(r) ==
    /\ reqs[r].pc = "touched"
    /\ Answer(r)
    /\ UNCHANGED <<tenants, users, sessions, links, keys, audit, restarts, load>>

-----------------------------------------------------------------------------
(* The tenant's own user administration.                                   *)

\* set_role and delete_user look the target up in the caller's tenant and
\* leave the owner alone.
ReadMember(r) ==
    /\ reqs[r].pc = "handle"
    /\ reqs[r].ask.op \in {"set_role", "delete_user"}
    /\ LET i == reqs[r].ask.id IN
         IF InTenant(reqs[r].home, i) /\ users[i].role # "owner"
           THEN reqs' = [reqs EXCEPT ![r] =
                  [@ EXCEPT !.pc = IF reqs[r].ask.op = "set_role" THEN "set_role" ELSE "delete",
                            !.tenant = reqs[r].home, !.id = i]]
           ELSE Answer(r)
    /\ UNCHANGED <<tenants, users, sessions, links, keys, audit, restarts, load>>

WriteRole(r) ==
    /\ reqs[r].pc = "set_role"
    /\ IF InTenant(reqs[r].tenant, reqs[r].id)
         THEN /\ users' = [users EXCEPT ![reqs[r].id] = [@ EXCEPT !.role = reqs[r].ask.role]]
              /\ Record(r, reqs[r].tenant, "idle")
         ELSE Answer(r) /\ UNCHANGED users
    /\ UNCHANGED <<tenants, sessions, links, keys, audit, restarts, load>>

\* The delete of delete_user, here and in the console.  No row: 404.
DeleteUser(r) ==
    /\ reqs[r].pc = "delete"
    /\ RemoveUser(reqs[r].tenant, reqs[r].id)
    /\ IF InTenant(reqs[r].tenant, reqs[r].id) /\ users' # users
         THEN Record(r, reqs[r].tenant, "idle") ELSE Answer(r)
    /\ UNCHANGED <<tenants, restarts, load>>

ReadAddress(r) ==
    /\ reqs[r].pc = "handle"
    /\ reqs[r].ask.op = "invite"
    /\ IF Registered(reqs[r].ask.person) THEN Answer(r) ELSE GoTo(r, "create")
    /\ UNCHANGED <<tenants, users, sessions, links, keys, audit, restarts, load>>

CreateMember(r) ==
    /\ reqs[r].pc = "create"
    /\ \/ \E n \in Ids :
            /\ InsertUser(n, reqs[r].home, reqs[r].ask.person, reqs[r].ask.role)
            /\ reqs' = [reqs EXCEPT ![r] = [@ EXCEPT !.pc = "link", !.tenant = reqs[r].home,
                                                     !.id = n, !.holder = reqs[r].ask.person]]
       \/ Registered(reqs[r].ask.person) /\ Answer(r) /\ UNCHANGED users
    /\ UNCHANGED <<tenants, sessions, links, keys, audit, restarts, load>>

\* The invitation could not be mailed: the row is removed, best effort.
Rollback(r) ==
    /\ reqs[r].pc = "rollback"
    /\ RemoveUser(reqs[r].tenant, reqs[r].id)
    /\ Answer(r)
    /\ UNCHANGED <<tenants, restarts, load>>

-----------------------------------------------------------------------------
(* API keys and "sign out everywhere".                                     *)

CountKeys(r) ==
    /\ reqs[r].pc = "handle"
    /\ reqs[r].ask.op = "create_key"
    /\ IF keys[<<reqs[r].home, reqs[r].by>>] >= MaxKeys THEN Answer(r) ELSE GoTo(r, "add_key")
    /\ UNCHANGED <<tenants, users, sessions, links, keys, audit, restarts, load>>

AddKey(r) ==
    /\ reqs[r].pc = "add_key"
    /\ IF Present(reqs[r].by)
         THEN /\ keys' = [keys EXCEPT ![<<reqs[r].home, reqs[r].by>>] = @ + 1]
              /\ Record(r, reqs[r].home, "idle")
         ELSE Answer(r) /\ UNCHANGED keys
    /\ UNCHANGED <<tenants, users, sessions, links, audit, restarts, load>>

DeleteKey(r) ==
    /\ reqs[r].pc = "handle"
    /\ reqs[r].ask.op = "delete_key"
    /\ LET k == <<reqs[r].home, reqs[r].by>> IN
         IF keys[k] > 0
           THEN keys' = [keys EXCEPT ![k] = @ - 1] /\ Record(r, reqs[r].home, "idle")
           ELSE Answer(r) /\ UNCHANGED keys
    /\ UNCHANGED <<tenants, users, sessions, links, audit, restarts, load>>

LogoutEverywhere(r) ==
    /\ reqs[r].pc = "handle"
    /\ reqs[r].ask.op = "logout_everywhere"
    /\ sessions' = {s \in sessions : ~(s[2] = reqs[r].home /\ s[3] = reqs[r].by)}
    /\ Record(r, reqs[r].home, "idle")
    /\ UNCHANGED <<tenants, users, links, keys, audit, restarts, load>>

\* audit::record, best effort: the entry names the caller, if its id is taken.
RecordAudit(r) ==
    /\ reqs[r].pc = "audit"
    /\ audit' = IF Present(reqs[r].by) THEN audit \cup {<<reqs[r].tenant, reqs[r].by>>} ELSE audit
    /\ IF reqs[r].then = "idle" THEN Answer(r) ELSE GoTo(r, reqs[r].then)
    /\ UNCHANGED <<tenants, users, sessions, links, keys, restarts, load>>

-----------------------------------------------------------------------------
(* The platform console, and sign-up, which also makes a tenant.           *)

\* update_user: a switch that already stands as asked is dropped.
ReadAccount(r) ==
    /\ reqs[r].pc = "handle"
    /\ reqs[r].ask.op = "update_user"
    /\ LET a  == reqs[r].ask
           u  == users[a.id]
           bl == IF a.block = (IF u.blocked THEN "on" ELSE "off") THEN "leave" ELSE a.block
           fl == IF a.flag = (IF u.admin THEN "on" ELSE "off") THEN "leave" ELSE a.flag
       IN IF ~Present(a.id) \/ (bl = "leave" /\ fl = "leave") THEN Answer(r)
          ELSE reqs' = [reqs EXCEPT ![r] =
                 [@ EXCEPT !.pc = IF bl # "leave" THEN "block" ELSE "flag",
                           !.ask = [a EXCEPT !.block = bl, !.flag = fl],
                           !.tenant = u.tenant, !.id = a.id]]
    /\ UNCHANGED <<tenants, users, sessions, links, keys, audit, restarts, load>>

\* set_blocked: blocking deletes the sessions in the same transaction.
SetBlocked(r) ==
    /\ reqs[r].pc = "block"
    /\ LET i  == reqs[r].id
           on == reqs[r].ask.block = "on"
       IN /\ users' = IF Present(i)
                        THEN [users EXCEPT ![i] = [@ EXCEPT !.blocked = IF on THEN TRUE ELSE FALSE]]
                        ELSE users
          /\ sessions' = IF on THEN {s \in sessions : s[3] # i} ELSE sessions
    /\ Record(r, reqs[r].tenant, IF reqs[r].ask.flag = "leave" THEN "idle" ELSE "flag")
    /\ UNCHANGED <<tenants, links, keys, audit, restarts, load>>

SetPlatformAdmin(r) ==
    /\ reqs[r].pc = "flag"
    /\ LET i == reqs[r].id IN
         users' = IF Present(i)
                    THEN [users EXCEPT ![i] = [@ EXCEPT !.admin = IF reqs[r].ask.flag = "on"
                                                                 THEN TRUE ELSE FALSE]]
                    ELSE users
    /\ Record(r, reqs[r].tenant, "idle")
    /\ UNCHANGED <<tenants, sessions, links, keys, audit, restarts, load>>

ReadDoomed(r) ==
    /\ reqs[r].pc = "handle"
    /\ reqs[r].ask.op = "platform_delete"
    /\ LET i == reqs[r].ask.id IN
         IF Present(i)
           THEN reqs' = [reqs EXCEPT ![r] =
                  [@ EXCEPT !.pc = IF users[i].role = "owner" THEN "count" ELSE "delete",
                            !.tenant = users[i].tenant, !.id = i]]
           ELSE Answer(r)
    /\ UNCHANGED <<tenants, users, sessions, links, keys, audit, restarts, load>>

\* The last owner of a tenant is not deleted.
CountOwners(r) ==
    /\ reqs[r].pc = "count"
    /\ IF Cardinality(Owners(reqs[r].tenant)) <= 1 THEN Answer(r) ELSE GoTo(r, "delete")
    /\ UNCHANGED <<tenants, users, sessions, links, keys, audit, restarts, load>>

\* signup: the slug is free and the address unknown.
Signup(r, t, p) ==
    /\ "signup" \in load
    /\ reqs[r].pc = "idle"
    /\ t \notin tenants /\ ~Registered(p)
    /\ reqs' = [reqs EXCEPT ![r] =
         [IdleReq EXCEPT !.pc = "tenant", !.ask = [NoAsk EXCEPT !.op = "signup", !.tenant = t,
                                                               !.person = p]]]
    /\ UNCHANGED <<tenants, users, sessions, links, keys, audit, restarts, load>>

\* create_tenant: the same, but the owner may be left for later.
ReadSlug(r) ==
    /\ reqs[r].pc = "handle"
    /\ reqs[r].ask.op = "create_tenant"
    /\ IF reqs[r].ask.tenant \in tenants \/ Registered(reqs[r].ask.person)
         THEN Answer(r) ELSE GoTo(r, "tenant")
    /\ UNCHANGED <<tenants, users, sessions, links, keys, audit, restarts, load>>

\* The row is inserted unless the slug was taken meanwhile.  The secrets may
\* fail to be made, which leaves a tenant without an owner.
InsertTenant(r) ==
    /\ reqs[r].pc = "tenant"
    /\ LET a == reqs[r].ask IN
         IF a.tenant \in tenants THEN Answer(r) /\ UNCHANGED tenants
         ELSE /\ tenants' = tenants \cup {a.tenant}
              /\ \/ Answer(r)
                 \/ a.op = "signup" /\ GoTo(r, "owner")
                 \/ /\ a.op = "create_tenant"
                    /\ Record(r, a.tenant, IF a.person = None THEN "idle" ELSE "owner")
    /\ UNCHANGED <<users, sessions, links, keys, audit, restarts, load>>

CreateOwner(r) ==
    /\ reqs[r].pc = "owner"
    /\ LET a == reqs[r].ask IN
         \/ \E n \in Ids :
              /\ InsertUser(n, a.tenant, a.person, "owner")
              /\ reqs' = [reqs EXCEPT ![r] =
                   [@ EXCEPT !.pc = IF a.op = "create_tenant" /\ a.person \in Listed
                                      THEN "grant_owner" ELSE "link",
                             !.tenant = a.tenant, !.id = n, !.holder = a.person]]
         \/ Registered(a.person) /\ Answer(r) /\ UNCHANGED users
    /\ UNCHANGED <<tenants, sessions, links, keys, audit, restarts, load>>

\* create_tenant calls platform_admin_bootstrap for the row it just made.
GrantOwner(r) ==
    /\ reqs[r].pc = "grant_owner"
    /\ users' = IF Present(reqs[r].id)
                  THEN [users EXCEPT ![reqs[r].id] = [@ EXCEPT !.admin = TRUE]] ELSE users
    /\ GoTo(r, "link")
    /\ UNCHANGED <<tenants, sessions, links, keys, audit, restarts, load>>

\* The process stops and starts: requests are lost, ensure_platform_admins
\* grants the flag to every listed address that has an account.
Restart ==
    /\ "restart" \in load /\ restarts < MaxRestarts
    /\ restarts' = restarts + 1
    /\ reqs' = [r \in Slots |-> IdleReq]
    /\ users' = [i \in Ids |-> IF users[i].person \in Listed
                                 THEN [users[i] EXCEPT !.admin = TRUE] ELSE users[i]]
    /\ UNCHANGED <<tenants, sessions, links, keys, audit, load>>

-----------------------------------------------------------------------------
\* The requests operators make: the fields an operation uses are free.
Requests ==
    {a \in Asks :
        /\ a.op \in UNION Workloads \ {"signup", "restart"}
        /\ a.op # "create_tenant" => a.tenant = SomeTenant
        /\ a.op \notin {"set_role", "delete_user", "update_user", "platform_delete"} => a.id = 1
        /\ IF a.op = "invite" THEN a.person # None ELSE a.op = "create_tenant" \/ a.person = None
        /\ a.op \notin {"set_role", "invite"} => a.role = "view_only"
        /\ a.op # "update_user" => a.block = "leave" /\ a.flag = "leave"}

Step(r) ==
    \/ \E i \in Ids : SendLink(r, i)
    \/ \E l \in Links : MailLink(r, l) \/ Redeem(r, l)
    \/ MailFails(r) \/ AdmitUser(r) \/ Grant(r) \/ MintSession(r)
    \/ \E s \in sessions : TouchSession(r, s)
    \/ \E k \in Tenants \X Ids : FindKey(r, k)
    \/ \E a \in Requests : Identify(r, a)
    \/ Refuse(r) \/ ReadMember(r) \/ WriteRole(r) \/ DeleteUser(r) \/ ReadAddress(r)
    \/ CreateMember(r) \/ Rollback(r) \/ CountKeys(r) \/ AddKey(r) \/ DeleteKey(r)
    \/ LogoutEverywhere(r) \/ RecordAudit(r) \/ ReadAccount(r) \/ SetBlocked(r)
    \/ SetPlatformAdmin(r) \/ ReadDoomed(r) \/ CountOwners(r)
    \/ \E t \in Tenants, p \in Persons : Signup(r, t, p)
    \/ ReadSlug(r) \/ InsertTenant(r) \/ CreateOwner(r) \/ GrantOwner(r)

Next ==
    \/ \E r \in Slots : Step(r)
    \/ \E s \in sessions : Logout(s)
    \/ \E l \in Links : ExpireLink(l)
    \/ Restart

Spec == Init /\ [][Next]_vars

-----------------------------------------------------------------------------
(* Properties.                                                             *)

UserRows == [person : Persons \cup {None}, tenant : Tenants, role : Roles,
             blocked : BOOLEAN, admin : BOOLEAN]
LinkRows == [st : {"none", "fresh", "used", "gone"}, tenant : Tenants, id : Ids,
             to : Persons \cup {None}]
Requesting == [pc : Pcs, ask : Asks, by : Ids, home : Tenants,
               holder : Persons \cup {None}, via : {"session", "key"}, tenant : Tenants,
               id : Ids, then : {"idle", "flag", "owner"}]

\* The tables and the running requests keep their shape.
TypeOK ==
    /\ tenants \subseteq Tenants
    /\ users \in [Ids -> UserRows]
    /\ sessions \subseteq (Persons \cup {None}) \X Tenants \X Ids
    /\ links \in [Links -> LinkRows]
    /\ keys \in [Tenants \X Ids -> Nat]
    /\ audit \subseteq Tenants \X Ids
    /\ reqs \in [Slots -> Requesting]
    /\ restarts \in Nat

\* A tenant that has an owner never loses its last one, whatever deletions,
\* role changes and failed invitations interleave, and whoever takes over the
\* id of a deleted user meanwhile (the checks of set_role and both
\* delete_user are separate from their writes).
OwnerStands == [][\A t \in Tenants : Owners(t) # {} => Owners(t)' # {}]_vars

\* Who can use the platform console.
Working == {i \in Ids : Present(i) /\ users[i].admin /\ ~users[i].blocked}

\* platform.rs refuses to block, demote or delete the caller ("about leaving something
\* reachable afterwards"): so the console's last admin is taken only by a caller whose own
\* rights were taken while the request ran, or by what does not ask about the flag, a
\* tenant's delete_user and the roll-back of an invitation.
ConsoleKept == [][
    Working # {} => \/ Working' # {}
                    \/ \E r \in Slots :
                         /\ reqs'[r] # reqs[r]
                         /\ reqs[r].ask.op \in {"delete_user", "invite"} \/ reqs[r].by \notin Working]_vars

\* No session of row i, and no sign-in that has passed issue_session_cookie's
\* check for it.
SignedOut(i) ==
    /\ \A s \in sessions : s[3] # i
    /\ \A r \in Slots : reqs[r].pc \in {"grant", "mint"} => reqs[r].id # i

\* A blocked account that is signed out stays so until it is unblocked: its
\* outstanding links buy nothing (issue_session_cookie).  And "a block lands on the
\* blocked user's very next request - through whichever credential they present"
\* (session_layer): a session inserted behind the block, or a key, opens no handler.
BlockHolds == [][
    \A i \in Ids : users[i].blocked =>
        /\ SignedOut(i) /\ users'[i].blocked => SignedOut(i)'
        /\ \A r \in Slots :
             reqs[r].pc = "touched" /\ reqs[r].by = i => reqs'[r].pc # "handle"]_vars

\* "a session whose user has been deleted stops authenticating": the person
\* holding a session that resolves is the user it resolves to.
DeletedSignedOut == \A s \in sessions : InTenant(s[2], s[3]) => users[s[3]].person = s[1]

=============================================================================
