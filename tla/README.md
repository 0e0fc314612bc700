# A TLA+ development of the NSClient++ fleet server

The fleet server (`crates/`) is one Rust process: operators use its HTTP API and
web console, agents enrol with a one-time token, then poll over mutual TLS for the
configuration and bundles their host should have. State lives in one SQLite
database (one write connection, WAL, foreign keys on), in a directory of bundle
files, and in a few in-memory caches. Handlers run concurrently on a Tokio runtime:
between two statements of one request any other request may run, a client that
hangs up drops its handler at the next await, and the process may stop anywhere.

That is the unit of every model here: **one database statement or transaction, one
file operation, or one section under a lock is one step**, and everything else
interleaves.

## 1. Inventory

| component | state | operations | talks to | what makes it correct |
|---|---|---|---|---|
| Desired-state cache (`agent/desired_state.rs`) | `entries` by host (version, state, generation), `epoch` | get, ticket, put_if_current, invalidate_host, forget_host, sweep at MAX_ENTRIES | every handler that changes an input bumps `config_version` or invalidates | a stale state is never served once the change has been notified; agents converge |
| Host tags, groups, overrides, facts (`hosts/config_api.rs`, `hosts/mod.rs`, `facts/store.rs`) | rows of `host_tags`, `groups`, `host_overrides`, `host_facts`, `tenants.config_version` | put/delete tag, bulk tags, reports, store/remove facts, groups, overrides | the cache | every change of an input reaches the cache |
| Hosts and client certificates (`hosts/mod.rs`, `agent/limits.rs`, `agent/api.rs`, `repos/hosts.rs`) | `hosts` (status, nonce), `host_certs` (rowid, revoked, expiry) | create, enrol, renew, retire on presentation, revoke, delete | the agent's stored identity | a nonce buys one certificate; the agent is never locked out by retirement; deletion cuts it off |
| mTLS trust store (`transport/mtls.rs`, `runtime/tenant_setup.rs`) | snapshot of tenant CAs behind a lock, `tenant_secrets` | load, rebuild, ensure_tenant_trusted, backfill at start | enrolment, sign-up | an enrolled tenant's hosts are accepted |
| Accounts (`auth/`, `admin/users.rs`, `admin/platform.rs`, `repos/users.rs`) | `tenants`, `users`, `sessions`, `magic_links`, `api_keys`, `audit_log` | sign-up, invite, sign-in, roles, delete, block, promote, keys | mail | a tenant keeps its owner; a block holds; a session is its holder's |
| Bundles (`bundles/`, `repos/bundles.rs`, `runtime/housekeeping.rs`) | `bundles`, `bundle_assignments`, files | upload, compose, delete, assign, re-seal, rename, sweep | the cache, agents' downloads | row, signature, seal and bytes agree; a rename is all or nothing; no file leaks or is lost |
| Audit log (`admin/audit.rs`) | `audit_log` | record | users (foreign key) | entries outlive their author |
| Configuration source (`config_source/`, `repos/config_source.rs`) | a directory of files; the rows made from it | reconcile (at start, on reload, `--import-config`), export | groups, bundles, assignments, files | a reload is all or nothing, unchanged rows keep their ids, an export loads and changes nothing |
| Facts (`facts/`, `repos/facts.rs`) | documents and their history, hashes reported and refused, a cached catalogue | advertise a hash, accept or refuse an upload, clear after a grace of empty reports, import, delete, show the catalogue | agents, operators, the desired-state cache | a document is replaced whole and its history says by what; one empty report clears nothing; an agent learns what became of its document |
| Tiers, trials, host limit (`core/tier.rs`, `repos/tenants.rs`, `auth/trial_expiry.rs`) | `tenants` tier columns | effective, set tier, count hosts | hosts, bundles, keys | limits hold up to the requests in flight |
| Selectors, merging, status (`core/`) | none | evaluate, merge, status | desired state | pure functions |
| Rate limits (`auth/rate_limit.rs`, `agent/limits.rs`) | governor's keyed state, counters of keys | check, forget, sweep | handlers | the keys one caller can create are bounded, and go away |
| Listeners and shutdown (`transport/`, `runtime/shutdown.rs`, `main.rs`, `service.rs`) | permits, backlogs, connections and their timers, the signal, the service's state | accept, time out, drain, stop, uninstall | everything | no permit is lost; silent peers make room; a stop drains and ends in time |
| Startup walks (`runtime/tenant_setup.rs`) | sealed keys, signatures | backfill, rebind, re-sign | trust store, bundles | a crash between two tenants is repaired by the next start |
| Cryptography, archives, mail, Turnstile, CSRF and headers, configuration, CLI, Windows service, migrations, web console | – | – | – | see section 8 |

`PROJECT.json` lists each with its status, and under `hazards` the places, line by
line, where this code can go wrong in a way a test would hardly reach. They fall
into six families: values read in one statement and relied on in the next (most of
the list); row ids that SQLite hands out again; notifications that follow a commit
and can be lost; answers lost or late on the agents' side; work in several phases
that see different moments (the sweep, a reload, an export, an import of facts); and
timers that race each other while the process stops.

## 2. Modules

| module | models | proofs | model checking |
|---|---|---|---|
| `DesiredState` | the cache, the computes that fill it, every handler that changes an input | `DesiredStateProofs` | `MCDesiredState` |
| `HostCerts` | host rows, nonces, certificates, agents and stale copies of them | `HostCertsProofs` | `MCHostCerts` |
| `TrustStore` | tenant CAs, the snapshot, rebuilds, restart | `TrustStoreProofs` | `MCTrustStore` |
| `Accounts` | tenants, users, sessions, links, keys, the platform console | `AccountsProofs` | `MCAccounts` |
| `Bundles` | rows, files, assignments, renaming, sweep, stops | `BundlesProofs` | `MCBundles` |
| `FactsLog` | what the facts store promises: documents replaced whole, each with its history | – | as a property of `Facts` |
| `Facts` | the exchange with agents, uploads, the store, imports, deletions, the catalogue | `FactsProofs` | `MCFacts` |
| `ConfigSource` | the directory, reloads, imports, exports, the edits they meet | `ConfigSourceProofs` | `MCConfigSource` |
| `Listeners` | accept loops, permits, timers, connections, the stop, the Windows service | `ListenersProofs` | `MCListeners` |

The modules with requests keep them in one function from slots to records (`reqs`,
`jobs`); the field `pc` names the statement a request is about to run, the other fields
hold what it has read. Definitions whose comment starts with *Mutant of* or *As if*
are wrong variants of the definition they precede; a property is worth having only if
it tells them apart.

### DesiredState
`entries`, `epoch` and `config_version` are the code's. A desired state is
represented by the inputs it was made from (`State == [Parts -> Content]`), because
no property depends on what merging computes, only on which rows it saw. `Request`
reads the tenant row, `Lookup` is `get`, `TakeTicket` is `ticket`, `ReadInputs` is
one SELECT of `compute_uncached`, `Put` is `put_if_current` with its sweep
(`Reclaimed`: which entries are idle is left open), `Respond` the answer. Nine
handlers change inputs: `PutTag`, `BulkTags`, `StateReport`, `StoreFacts`,
`RemoveFacts`, `ChangeConfig`, `ChangeOverride`, `DeleteHost`, `RevokeHost`; each
then runs statement by statement and ends in `Invalidate`, `BumpConfigVersion` or
`Forget`. `AbortCompute` and `AbortOp` are a failed statement or a dropped handler. The ghost
`lost` remembers hosts whose notification never came.

### HostCerts
`row`, `certs`, `tokens` are the tables and the tokens in the operator's hands. A
serial is named by the order it was recorded in; its random digits mean nothing
else. `IsNextRowid` is SQLite's rule for rowids, on which the code's notion of
"older certificate" rests. `holds` is the identity an agent has stored, `kept` what
it held before: with `StaleCopies` a restored image or a clone may present those,
but only calls, it does not renew (a renewal by a clone makes two agents, which
the server does not distinguish either). The tier's host limit is not part of this
module.

### TrustStore
`store` is the snapshot, `ListCas` the read of `build_state`, `Swap` the write lock.
`Start` is one step because `main` binds no listener before the backfill and the load
are done. A failed rebuild (`ListFails`) is only logged, and the enrolment is
answered all the same, as in `hosts/mod.rs`.

### Accounts
Every table that has a foreign key to `users` is there, since the keys decide whether a
deletion succeeds. A session, and a link, is paired with the person who really holds
it, so that a reused row id shows. A platform request keeps in `by` the row its
extractor let in, which nothing looks at again. A behaviour confines itself to one of
`Workloads`. Left out: the self-hosted mode (no links, no invitations), the sign-up
switch, rate limits.

### Bundles
One tenant. A content is the plaintext, named by the id it was first stored under,
and the name it is sealed under, which is all a digest, a signature and the AAD can
tell apart. Ids are ULIDs, minted once. File age is one bit, `old`: a grace period has
passed since it was written. The version bump is abstracted to emptying `cached`;
DesiredState models the cache itself. A handler dropped while it writes a file leaves the write
going on (`"late"`): `tokio::fs` runs it on a blocking thread. Browsers are honest: a
rename names the files staged for it (`Offered`, from `RenameBundleDialog.tsx`).
`Workloads` are sets of operations and formats that clients confine themselves to;
which one is chosen at the start.

### Facts and FactsLog
A cell is the document of a host and a source, `agent` or `import`; `held` and `hist` are
`host_facts` and `host_fact_changes`. A document is told apart by its hash, and
`Content` says what it parses to, since two spellings may parse alike and then make no history.
`PollRead` to `PollAnswer` are `advertise` statement by statement, `UploadRefuse`,
`UploadRead` and `UploadReport` the upload, `StoreGet` and `StoreReplace` the read and the
compare-and-set that both uploads and imports end in, with the retry of `store`.
`ImportRow`, `ImportHolding` and `Finish` are `commit`; `Catalog*` the cached catalogue with
its build lock and generations, of which only what happened since is kept (`since`),
because all the code does with a generation is to compare it. Time is kept as ages that stop at the
grace period. An agent changes its document, polls, uploads what it is asked for, may
give up on a request that runs on, and may not hear an answer. `owner`, `quiet`, `mark` and `due` are
history variables of the properties. `FactsLog` has two actions: replace a document,
with an entry of that very change, and remove cells with their histories.

### ConfigSource
The directory is read in two parts (`LoadBundles`, `LoadGroups`) and may be published
anew in between; the tables are read in three statements, planned against
(`Plan`), the files put one by one (`Put`), the tables written in one transaction
(`Apply`, which first checks that what the plan replaces is still as it was seen: `Expected`) and
the files of replaced rows discarded (`Discard`). A bundle's content is a tree, a zip or a
sealed file; `Zip` and `Unzip` are what packing and unpacking do to it, `Trim` what the loader makes
of a group's name. `Restart` is the load at startup, `Reload` the deploy hook, `Command` the
two commands, which are processes of their own and take no lock with the server.
On a server that is not managed by a directory the API's edits (`Upload`,
`RenameBundle`, `DeleteBundle`, `CreateGroup`, `PatchGroup`, `DeleteGroup`, `Assign`) may meet an
import or an export; on a managed one `refuse_if_managed` keeps them out. Left out: priorities, which
are data of a group like its selector, and sizes, which are a limit like the number of bundles.

### Listeners
Each listener has its loop (`bind`, `acquire`, `accept`, `drain`), its semaphore and its
kernel backlog; each peer one connection, at `hello`, `handshake`, `head` or in a
`handler`, with the age its timer has reached. A connection task holds its permit until
it ends. `StopLoop` may win either select whenever the signal is there (neither is
biased). `Select`, `GiveGrace` and `Exit` are `run_until_stopped`. `FireControl`,
`ReportRunning` and `ReportStopped` are what the service tells the service manager, `Uninstall` and
`WaitForStop` the uninstaller in another process. No tick passes while a timer that has run
out or a step of the stop waits (`Due`: an `Urgent` step is enabled), nor, once the signal has fired, while the process has
anything to do (`Working`: a `Busy` step is enabled): the code's own steps take no time compared to seconds. Handlers take the
time they take.

## 3. Runs

Eleven runs pass and one exhibits a disagreement between the code and its own
documentation.

| run | instance | shows |
|---|---|---|
| `desired_state` | 1 host, 2 slots, all kinds of change, 3 changes, faults, cache of 1 entry | `TicketSound`: no generation comes round to a ticket of an invalidated compute, through sweeps and forgets; `CacheFresh`: a servable entry is stale only while a notification is owed or lost |
| `desired_state_settles` | 1 host, its agent and a console user, 2 changes, no faults, fairness | `AnswerFresh`: an undisturbed request is answered with the current inputs; `NoStaleAtRest`: nothing stale is servable when no change is under way; `AgentsConverge`: the agent ends with its host's state |
| `host_certs` | 2 hosts, 2 slots, 2 nonces, 3 certificates, stale copies | `NonceBurnsOnce`, `EnrolledHoldsNewest`, `NeverStranded`, `DeletedCutOff` |
| `host_certs_liveness` | 1 host, 2 slots, 3 certificates, fairness | `OldOnesRetire`: superseded certificates do not stay live |
| `trust_store` | 3 tenants, 2 slots, 2 stops, fairness | `BootTrusted`, `SettledStays`, `EnrolmentsRepair` |
| `accounts` | 2 persons, 2 tenants, 2 user ids, 1 link, 2 slots, 4 workloads, limit of 1 key, 1 restart | `OwnerStands`: no interleaving of deletions, role changes, failed invitations and reused ids takes a tenant's owner; `BlockHolds`: a block outlives every outstanding link, and no session or key of a blocked account reaches a handler; `ConsoleKept`: a platform request takes the last working platform admin only if its caller lost the rights meanwhile |
| `accounts_reused_id` | 3 persons, 2 ids, 2 links, invite and delete | violates `DeletedSignedOut` |
| `bundles` | 2 ids, 2 names, 2 versions, 1 group, 2 slots; an encrypted and a plain workload; limit of 1 bundle | `TypeOK`; `Vouched`: row, signature, seal and bytes agree; `ServedHasRow`: no memoized state names a replaced bundle; `RenameWhole` |
| `bundles_sweep` | 2 ids, 2 names, 1 slot, 1 stop, fairness | `BytesKept`: the sweep takes no committed upload's bytes; `OrphansSwept` |
| `facts` | 2 hosts, 1 with an agent, 2 slots, 3 documents (empty, good, too large), grace of 1 tick, 2 history entries, 2 attempts, 2 changes, 1 mishap, 6 workloads, fairness | `TypeOK` (histories stay within `KEEP_HISTORY`); `KeepsTheLog`: the store implements `FactsLog`; `ClearedAfterGrace`: an inventory is cleared only after a grace without a report of anything else; `CatalogShows`: what an answered request changed is what the catalogue shows; `AgentsHeard`: an agent is held to its document or, where nothing failed, hung up or was lost, told that it was refused |
| `config_source` | 2 keys, 3 trees, 5 blobs, 5 directories (one does not load), 2 jobs, 8 bundle and 5 group ids, limit of 2 bundles; 2 managed and 3 unmanaged workloads; fairness | `TypeOK` (no name twice, no dangling assignment); `RowsHaveBytes`; `AppliesWhole`: the tables become one directory, whatever happened since the plan; `AnsweredMatches`; `IdsSurvive`; `ExportLoads`, `ExportReturns`; `Follows`: a directory that is left alone is what the tables hold in the end |
| `listeners` | 3 peers, 1 permit a listener, web alone and web with agents, as a service or not; timers of 1 < 2 = 2 < 3 < 4 ticks for 10, 15, 15, 16 and 25 s; fairness | `PermitsKept`; `AgentsDrained`: the agents' drain is cut short only if the web listener failed; `StopsInTime`: the process ends before anyone gives up on it; `NewcomersServed`: peers that say nothing do not keep others out; `StopEnds`: whenever the stop comes, it ends the process and the service manager is told |

*Why the bounds are enough.* The hazards are races of two requests about one host,
row or name, so two slots suffice for each; what a third adds (another request in
the same window) is covered by the theorems, which are for any number. Two
generations and two epochs are needed for a ticket to become wrongly current; three
changes and a cache of one entry produce them. Two user ids let the highest be
freed and reused while the owner's stays. Three certificates are an old, a held
and a lost one. Two bundle ids are an original and its re-seal, or two versions of
a name. In `facts` a second host makes a key of an import ambiguous, a history of two
overflows at the third replacement, and a tick of grace is passed or not. In `config_source`
the directories differ from the first in a tree and a sealed bundle, a selector, a reference to a
bundle that is not there, and archives made by another tool or of a tree the loader would
refuse, and the ids suffice for every workload. In `listeners` one
permit is one that is taken; the third peer is the newcomer. Bounds on counters
(`MaxOps`, `MaxEpoch`, `MaxNonce`, `MaxSerial`, `MaxCrashes`, `MaxRestarts`, `MaxStops`, `MaxId`,
`MaxChanges`, `MaxMishaps`, the numbers in the workloads, the sets of ids and links) are
exhausted in the end, and the system then has nothing left to do; a server that has
exited has nothing left either. That is why the configurations say
`CHECK_DEADLOCK FALSE`. In `desired_state_settles` the cache is larger than the number
of hosts, so that the epoch bound never keeps a `Put` from happening.

*Symmetry* is declared only in runs without liveness properties, and only for sets whose
members no definition singles out: `SomeTenant` and `Founder` are fixed in Accounts; the
`CHOOSE` in `RenamedRow` and `Stop` pick the only candidate or fill a field nobody reads.

Four more configurations are kept for a reader and are not among the runs: each ends
in a counterexample to a sentence of the documentation (section 7). They are
`DesiredStatePutTag.cfg`, `BundlesStaged.cfg`, `ConfigSourceExport.cfg` and `ListenersDrain.cfg`.

## 4. Fairness

- `DesiredState`: an accepted request takes its next step (the runtime polls it), and
  agents keep polling. Changes are not fair: they stop after `MaxOps`.
- `HostCerts`: an accepted request goes on; an agent keeps calling (strong: a slot
  is free again and again); a retirement that is attempted again and again succeeds
  in the end (strong), since the code logs a failure and retries at the next call.
- `TrustStore`: an enrolment runs to its end; reading the CA list does not fail for
  ever; a stopped process is started again by its supervisor. That hosts enrol is
  not assumed: it is the premise of `EnrolmentsRepair`.
- `Accounts`: none; all its properties are about steps and states.
- `Bundles`: the housekeeping loop is never left; unlinking one file does not
  fail for ever; time passes; a request's next step, and a file write whose handler
  is gone, happens.
- `Facts`: time passes, a running request takes its next step, and each agent keeps
  polling and sends what it was asked for. Failures and hang-ups are bounded, not fair.
- `ConfigSource`: a job takes its next step, and the deploy hook repeats a reload until one
  of the directory as it is succeeds. `Follows` asks in its premise that the directory loads and is left
  alone.
- `Listeners`: time passes (strong: a tick waits while the process is busy), loops, timers and
  the stop do what they have to do, and handlers end. Peers are not fair: they may stay silent
  for ever, which is what `NewcomersServed` is about. That a loop sees the signal is an
  assumption of its own (weak fairness of `StopLoop`), since an unbiased select may go on
  accepting for a while but not for ever.

## 5. What is proved

TLAPS proves the following for every value of the constants that satisfies the
assumptions of the module: any sets of hosts, slots, persons, tenants, bundles, documents,
peers, any bounds.

**DesiredStateProofs**: `TypeCorrect`, `TicketsSound`, `CacheStaysFresh`,
`AnswersFresh`, `RestIsFresh`. The inductive invariant `IInv` adds to the properties: a ticket is
never ahead of its host's (epoch, generation), and strictly behind once the host was
invalidated (`TicketOrder`); a handler owes notifications only after it wrote
(`OpsOwe`); no version in use is ahead of the tenant's (`Versions`); a compute that could
still be stored under the current version, for a settled host, has read nothing
stale (`ReadsFresh`), and the same for the computes a quiet request could be served from
(`QuietLookup`, `QuietReads`). `CacheFresh` alone is not inductive: a `Put` keeps
it only because of `ReadsFresh`, and `ReadsFresh` survives a write only because
the write makes the host unsettled, or moves the version. `RestIsFresh` draws the conclusion for a tenant at rest,
under two hypotheses on the constants: no handler is cut off between commit and notification (`~Faults`), and
`put_tag` and `bulk_tags` do not run, since those can change a row and not know it (section 7). Then no
notification is ever lost (`Settled`).

**HostCertsProofs**: `NoncesBurnOnce`, `EnrolledAlwaysHolds`, `AgentsNeverStranded`,
`RowidsOrdered`, `DeletedStaysOut`, `TypeCorrect`. `NeverStranded` rests on four
facts: within a host, rowid order is recording order although rowids are reused
(`RowidOrder`); no request presents a serial newer than the one the agent holds
(`ShownInOrder`); an answer under way carries a newer one, not retired
(`AnswersNewer`); and an agent waits for one answer at a time (`OneWaiter`).

**TrustStoreProofs**: `BootStaysTrusted`, `SettledStaysTrusted`, `TypeCorrect`. The
invariant: the snapshot, and each list that may replace it, contains every CA of
the start and nothing without a CA. Overlapping rebuilds can drop a later tenant,
never one of those.

**AccountsProofs**: `OwnersStand`, `BlocksHold`, `ConsoleStaysUsable`, `TypeCorrect`. For
owners the invariant says that a tenant has at most one (`OneOwner`: nothing assigns the
role later), that a request which is about to delete or re-role a row does not hold the
owner's id (`SafeInv`), and that while a tenant's owner is being created nobody else can
act in that tenant (`FoundInv`, `TenantInv`, `OpInv`). `SafeInv` is what survives the
reuse of ids: the id a request holds may come to name another user, but not an owner of
the same tenant. Blocks need the types alone: who is signed out has no request past
`issue_session_cookie`'s check, and a step that passes it reads the flag, as does the step that lets a
request into its handler. The console's admin needs
`SelfInv`: a platform request past its check is not about the row its caller was let in
by, so as long as that row keeps its flag and is not blocked, one admin is left.

**BundlesProofs**: `RowsVouch`, `UploadsKeepTheirBytes`, `ServedAreThere`, `RenamesAreWhole`, `TypeCorrect`. The invariant has
two parts. `Tables`: contents are given to ids once; a row is signed over its id's
content, sealed under the row's name if at all; a file is absent, torn or that content; a
row whose write finished and that was not staged has its file; what was offered to a rename is staged and
sealed under the new name; and what the sweep is about to unlink had no row, or was
staged (`SweepOK`). `Requests`: what a rename has read is the content of the ids it read, what
an upload is about to write is what its row promised, and so on (`Good`). Stability of the requests
follows from one lemma about all steps (`Grows`: contents and staged ids only
grow, and no row comes back but a staged one). `SInv` adds the memoized states. A rename compares
the ids under the old name with those it read, not their versions; that this is enough is `LInv`: a
staged id belongs to one bundle and has never been a row while that bundle is there (`OffersLine`), a
re-seal under way has an id of its own (`MakersApart`), so no id comes back once its row went, and what was
read of a row that is there still is its version (`LineOK`).

**FactsProofs**: `StoreKeepsTheLog`, `ClearsAfterGrace`, `CatalogsShow`, `TypeCorrect`. The first is a
refinement: every step of `Facts` is a step of
`FactsLog` or leaves its variables alone. The proof needs of the requests only that one on its way
to the store names a host, a source and a document (`Good`), and of agents that they upload what they
sent (`Waits`); the compare-and-set does the rest, since a history entry is computed from what was
read and recorded only if that is still what is held. Clearing rests on `CInv`: the
empty report kept of a host is never older than `quiet`, the age of its latest other report that was answered
(`Within`). That survives an answer because a request that sent another document and recorded it leaves no
empty report older than itself, and reaches the write because what a request with the empty document read of
the report is no older than the `mark` it came in with (`Timely`). So the write of
an empty document that the store accepts comes after a quiet grace, whatever else was in flight. The catalogue rests on
what a request owes: what operators did before it came in. A cell is its caller's from the write
until `Finish`, when it becomes the operator's and the generation is bumped: a call that owns one has `changed` set (`Owns`). A kept catalogue is
right about the operator's cells unless an operator acted since it was begun (`Kept`), and then it is not served; a build has what operators left of
the sources it is through with, but for what they did since it began, and what it owes it has in any case (`Shown`).

**ConfigSourceProofs**: `Bytes`, `Applied`, `Survive`, `Answered`, `Loadables`, `Returning`,
`TypeCorrect`: every safety property of the module, by three invariants. `IInv` says what a
job may rely on while anything else goes on. A plan is right about the lists it was made
from (`PlanOK`: it keeps what the directory has, adds the rest once, and gives every group
the id it had or a new one); its new ids are its own, no row, no list and no other plan has
them (`Apart`); the files it has put are there and what it means to discard is under no row
(`TablesOK`). Types alone are not inductive, since `bundle_assignments` must not
outlive a row; `RowsHaveBytes` is not either, since a `Put` is harmless only under `Apart`. That an
apply leaves the tables as the directory says follows from `PlanOK` and from `Expected`, the
check in the transaction that the rows are the ones that were listed. `MInv` is about a managed
server: past `reload_lock` there is one reload, nobody else writes its tables, hence
its lists are the tables, and an answer counts only if the directory was not published anew since.
`XInv` is about exports: the lists of one during which nothing was edited are the tables, and what it
writes refers to nothing it did not list.

**ListenersProofs**: `PermitsAlwaysKept`, `AgentsAreDrained`, `StopsBeforeTheHint`, `TypeCorrect`. The count of permits is not
inductive alone: an accepted connection must not be one that is served already, so
that a backlog holds a peer at most once and only while it waits for that listener
(`Queued`), and no loop has a permit before the start is over (`Idle`). The stop rests on `SInv`,
which lets several clocks run side by side: until a listener drains no tick has passed since the signal,
and while it drains the stop is no older than its drain (`LoopOK`), hence no older than `DrainTimeout`
until the service manager knows that the process is gone (`Clock`); after a web listener that drained, `main` has waited
no longer than the agents have drained (`Graced`), so that a grace longer than a drain is never what
ends it. All that is asked of the timers is `DrainTimeout < Grace` and `DrainTimeout < WaitHint`.

The constants' assumptions are what the code gives: sets non-empty where the process
always has one, sentinel values outside the sets, bounds natural numbers, timers in the order the
code's constants have, an archive that unpacks to what was packed.

## 6. What is only model-checked

Every safety and action property of a passing run is a theorem; `NoStaleAtRest` is one without faults and without the handlers
of manual tags, as in its run. Liveness (`AgentsConverge`, `OldOnesRetire`,
`EnrolmentsRepair`, `OrphansSwept`, `AgentsHeard`, `Follows`, `NewcomersServed`, `StopEnds`)
stays with TLC: it needs fairness and `ENABLED`, which TLAPS does not handle. No module uses a RECURSIVE operator.

## 7. Disagreements met while modelling

With a run (`findings` in `PROJECT.json`):
- A sign-in or a link that carries the id of a user deleted meanwhile is written for
  whoever gets the id next (`accounts_reused_id`).

With a configuration that shows it:
- `put_tag` decides whether to invalidate from a read its write does not guard
  (`DesiredStatePutTag.cfg`, `NoStaleAtRest`).
- A staged re-seal older than the grace period is deleted by the sweep although a rename
  committed it after the sweep read the rows (`BundlesStaged.cfg`, `StagedKept`).
- An export of a group whose name has spaces around it comes back under another name,
  so reconciling it does change something (`ConfigSourceExport.cfg`, `ExportReturnsAlways`; `export.rs`
  says that nothing changes).
- An agent listener that has drained first ends the process under an operator's request
  that is still running (`ListenersDrain.cfg`, `BothDrained`; `main.rs:525-526` says that
  the other is given its own drain deadline, the select at `:545` waits for the agents only).

Seen on the same models, without a configuration of their own:
- `bulk_tags` returns 500 from inside its loop and then skips the invalidation of the
  hosts it already changed (`hosts/mod.rs:708`); a failed version bump is only logged
  (`config_api.rs:666`). `CacheFresh` counts these, and the one of `put_tag`, as `lost` and
  excuses them until the next notification.
- A renewal admitted before a revocation records a live certificate after it
  (`agent/api.rs:441`; README.md:148 says that revoking retires every certificate).
- `tier_layer` revokes the old serial at the first call with the new one; the
  agent simulator's comment (`agent-sim/src/lib.rs:468`) says it stays valid until it expires.
- Two rebuilds of the trust store may swap in the wrong order, which drops a tenant
  `ensure_tenant_trusted` has just guaranteed (`mtls.rs:79` against the comment at `:104`);
  the comment at `mtls.rs:175` expects `ensure_secrets` to rebuild the store, which it does not.
  `SettledStays` is about tenants no such rebuild threatens; `EnrolmentsRepair` is what the code does for the others.
- A session is inserted after a block that ran between the check and the insert
  (`handlers.rs:619` against `users.rs:73-74`); it does not authenticate while the block lasts
  (the second half of `BlockHolds`), and does once the block is lifted.
- Two platform admins can demote or block each other at once (`platform.rs:605` against
  `573-576`): that is the exception in `ConsoleKept`.
- A platform admin who acted in another tenant cannot be deleted: `UserRepo::delete`
  clears the audit entries of one tenant only (`users.rs:170` against `147-149`).
- `create_tenant` grants the platform flag when it creates the row (`platform.rs:376`
  against `lib.rs:172-174`).
- The limits on keys and on bundles are counted in one statement and used in the next, so
  requests that race can overrun them by as many as there are; so can creations of hosts
  (`hosts/mod.rs:70-83`). No comment promises otherwise.
- An upload whose write fails leaves a row without bytes (`upload.rs:255` against
  `bundles/mod.rs:127-129`); ciphertext a rename replaced gets no grace period of its own
  (`housekeeping.rs:62` against `21-23`); an edit whose base is renamed after the check
  saves the old name back (`upload.rs:79` against `23-25`).
- A deletion of several hosts that fails on a later one returns before it marks the
  catalogue, although the facts of the earlier ones are gone (`hosts/mod.rs:591`, `:618`). An import marks it
  after an error too (`facts/import.rs:583`); like any handler it does not if its client hangs up first.
  `CatalogShows` is about requests that were answered.

Seen while reading, outside the models:
- `limiter_for_tier` keys its map by the tier's name alone (`agent/limits.rs:60-72`), so a tier
  whose numbers are overridden for one tenant shares the limiter another tenant made.
- `LAST_POLL_TTL` is an hour whatever `min_poll` a tenant is given (`agent/limits.rs:47-51`, `93`).
- `rate_limit.rs` promises "at most sixty email keys an hour", which a burst followed by
  its refill exceeds (about `:119`); its daily budget is reset by whoever sees the window
  over first (`:247-262`).
- A listener that cannot bind ends the process with success, so that `Restart=on-failure`
  does not start it again (`scripts/nsclient-fleet.service:14`); `docs/deployment.md:460` says
  that there is no graceful shutdown.

## 8. Not modelled

- Byte formats and library calls (`core/crypto`, `enrollment/ca.rs`, `bundles/archive.rs`): the
  modules take a signature to be what was signed. Calls of other services
  (mail, Turnstile) beyond whether they fail. Stateless checks (headers, CSRF).
- Selectors, merging, host status and `tier::effective` are pure functions over trees and
  strings, recursive in their input and enumerated by unit tests; the models take what
  they compute as a function of what they read.
- Rate limits: the buckets are the governor crate's, and what the code adds is the choice of
  keys. Trial expiry is one comparison with the clock. The host limit is a count and an insert.
- In `Listeners`, the plain-HTTP development listener, the steps of the start (a stop during
  them waits until they are over), certificate renewal, a peer that keeps an HTTP/2 connection open
  and idle (its drain ends by the time limit), and running out of file descriptors.
- In `ConfigSource`, the formats of the files, globs and sizes. In `Facts`, the parsing of import
  files, what the catalogue and the views render.
- The parsing of arguments and of the environment; migrations, which are SQL run once. The
  web console renders what the API returns; only the order of its calls in a rename matters
  and is in `Bundles`. Logging, wording and HTTP status codes are left out throughout.

## 9. What is left

1. `HostQuota`: the count and the insert of hosts against tier changes and trial expiry; the
   limit is overrun by no more than the requests in flight.
2. A refinement of `DesiredState`: the cache as an implementation of "a request is answered with a
   state the host had since the request began", for runs without lost notifications.
3. The steps of the start, with a stop between two tenants of the walks over their secrets.
