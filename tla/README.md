# OrvixPanel in TLA+

OrvixPanel is a hosting control panel: one Go server (Fiber, gorm on SQLite) that
answers an HTTP API, provisions Linux users, nginx and php-fpm, and keeps DNS zones
in PowerDNS.  This directory models the parts of it that hold state and are reached
by requests that overlap, fail and are cut off, checks them with TLC, and proves the
most important properties with TLAPS.

`PROJECT.json` lists components, runs, mutants, the map from definitions to source
lines, findings, hazards and theorems.

## The system

| Component | State | Operations | Why it is hard |
|---|---|---|---|
| audit log (`internal/audit`) | table of hash-chained rows, cached last hash | `Record`, `VerifyChain`, start | the cache is read under a mutex and used after it is released; ids of one millisecond sort at random |
| login (`internal/auth/jwt.go`) | a users row: failure counter, lock, role | `Login`, `AssignRole` | the whole row is saved from a copy loaded before a slow bcrypt comparison |
| sessions (`jwt.go`) | `user_sessions` | `Login`, `Refresh`, `Logout`, the session check | check and revocation are separate statements; a crash between revoke and insert |
| DNS (`internal/dns`, `api/v1/dns.go`) | zones, records, the copy in PowerDNS | zone, record and template handlers | two systems without a common transaction; lost answers; overlapping pushes |
| vault and quotas (`internal/vault`, `internal/quota`) | secrets, quota row | PUT, DELETE, quota GET and PUT | count and insert are separate; deleted rows stay in unique indexes |
| hosting (`internal/hosting`, `accounts.go`, `domains.go`) | accounts row, system user, document root, vhost, pool, loaded services | account and domain handlers | long sequences of commands, some of whose errors are ignored |
| deployments (`deploy_linux.go`) | document root link, temporary link, releases | `CreateReleaseDir`, `AtomicSwap` | one temporary name for all swaps |
| admission (`api/middleware`, `license`, `rbac`, `auth/apikey.go`) | buckets, license mode, API keys, custom roles | the chain of middlewares and the handlers that change what it reads | what was checked is revoked meanwhile |
| rate limiter (`middleware/ratelimit.go`) | a token bucket per address | `allow` | a bound on every window, not on one |
| start-up and bootstrap (`cmd/orvixpanel`, `internal/config`) | where each process is in `run()`, the tenant and administrator rows | configuration, license, count of users, wizard, INSERTs, `Listen`, end | two processes on one database; a wizard that waits; a kill between two INSERTs; restarts for ever |
| web console (`frontend/src/lib`) | stored tokens, localStorage, `inflightRefresh`, calls under way | `request`, `tryRefresh`, login, logout, reload, expiry check | calls answered late, one refresh shared by all, answers that are lost, tabs that share localStorage and do not see each other's writes |
| audit search and export, generated files, scripts, WHMCS | see `PROJECT.json` | | not modelled |

How they interact.  Every request passes the limiter, is audited when it is done
(`AuditMiddleware` calls `Record`), and under `/api/v1` passes the license mode, the
API-key check, the session check and, under `/admin`, the permission check; then one
handler runs.  Handlers share nothing but the database, the disk and PowerDNS.  So each
component is a module of its own.  Three compositions join those that do interact: `Access`
extends `RateLimit` and puts the handlers of roles and keys behind the chain that reads them;
`Startup` extends `UserLogin`, because logins are served only while a process listens and end
with it; `Console` extends `Sessions`, because its refreshes and logins are requests of the
server like those of other clients.

What makes each component correct: the audit log leads back to its start and a break is
found where it is; a lock needs failures and runs out; a rotated session stays revoked;
a deleted zone is not served; a quota is overrun by at most the requests in flight; an
account row has its user; a document root is never missing during a swap; what was revoked
before a request arrived bars it; a caller gets no more than rate and burst; a panel comes up
again with an administrator whatever was cut off before; tokens that were cleared stay away.

## How the models are built

*Processes.*  A request is a process with a program counter `pc`.  Each database
statement, HTTP call, command and file operation is one atomic step, and steps of
different requests interleave: Fiber serves requests concurrently and SQLite makes one
statement atomic, not two.  Where the code holds a mutex or a transaction, what it covers
is one step.

*Failure.*  Any statement, command or call may fail, with the error path the code has.  A
`Crash` or `Restart` drops every request and what is in memory and keeps rows and files.

*gorm* (external).  `Delete` sets `deleted_at`; queries skip such rows but unique
indexes do not.  `Save` writes every column of the copy it is given and, when the row was
deleted meanwhile, stores it again.  `Updates` writes the named columns only.  These three
facts are behind most of what can go wrong here and every module models them.

*Data.*  Names, values, hashes and ids are model values, numbers or terms.  Contents of
files, JSON, JWT signatures and encryption are left out.

*History variables* (`overlapped`, `failed`, `ignored`, `abandoned`, `barred`, `revivers`,
`spent`, `puts`, `collided`, `crossed`, `foreign`, `signedOut`, ...) decide no step.  They let one run cover both cases: a property
that needs requests not to overlap says `~overlapped =>`, and TLC still explores the rest.

*Mutants.*  A definition marked `Slip:` is used by no specification.  It is the definition
after it with a plausible mistake, and shows that the property can fail.

## The modules

| Module | Models | Proofs |
|---|---|---|
| `AuditChain` | `Record` in four steps (read cache, build row, INSERT, publish), restart, altered rows, `VerifyChain`, the verify endpoint | `AuditChainProofs` |
| `UserLogin` | `Login` as load, compare, save, issue; role and status changes; the clock; the death of the server | `UserLoginProofs` |
| `Startup` | `run()` of two processes: configuration, license, bootstrap statement by statement, `Listen`, faults; composed with `UserLogin` | `UserLoginProofs` (implements `UserLogin`) |
| `Sessions` | login, refresh (load, revoke, insert), logout, expiry, crash | `SessionsProofs` |
| `SessionLife` | the promise: a session is born, ends once, and is exchanged only after its end | implemented by `Sessions` (proved) |
| `Console` | one tab: auth store, localStorage that other tabs write too, shared refresh, calls, logout, reload, expiry check; composed with `Sessions` | `SessionsProofs` (implements `Sessions`) |
| `DNSZone` | one domain with and without PowerDNS: create, update, delete zone, records, templates, sync | `DNSZoneProofs` |
| `Vault` | PUT with its quota check, DELETE, quota creation and change | `VaultProofs` |
| `Hosting` | account create with rollback, suspend, unsuspend, delete with its six tries; domain create and delete | `HostingProofs` |
| `Deployment` | release directories, `AtomicSwap` step by step, the panel on the same paths | `DeploymentProofs` |
| `RateLimit` | `allow` and the observer of a window | `AccessProofs` |
| `Access` | limiter, license mode, API key, session, permission, and the handlers of roles and keys | `AccessProofs` (implements `RateLimit`) |

Each `MC` module adds the symmetry sets for TLC and nothing else; constants get their values in
the `.cfg` files.

Some correspondences that are not obvious:

* `AuditChain`: a hash is the term that was hashed, so equality of terms stands for equality of
  SHA-256.  `Before` orders rows by id, which is the millisecond and then random.
* `UserLogin`: `LoadUser` includes the lock check, which the code makes on the loaded copy.  A
  request that holds no copy has `Blank` in its place.
* `Sessions`: a session carries its parent, so that one login is the root of a tree.  The refinement
  maps `born` to the stored sessions, `ended` to the revoked and expired ones and `from` to `parent`.
  Refresh reads session and user one after the other; since nothing in the panel deactivates a user,
  both reads are one step.
* `Startup`: an environment is what `config.Load`, `license.Parse` and `auth.New` look at; it decides
  whether a start gets as far as counting users.  What comes before leaves no trace that another
  process sees, so a start is one step up to that count.  From there every statement is a step.
  Passwords are a length and kinds of characters: the wizard and `HashPassword` have different rules.
  The service has the installer's environment and no arguments; the operator's process has any.
* `Console`: JavaScript is not interrupted between two answers of the network, and the calls that
  wait for one refresh resume together, so each step is what one answer sets off.  `inflight` is
  `"stuck"` when a finished promise has been left in `inflightRefresh`.  `store` is the tab's own copy
  of the auth store and `disk` is `localStorage["orvix.auth"]`: `persist` writes it with every change
  and reads it when a page is loaded, and nothing tells a tab of another's write.  Other tabs log in,
  refresh and drop their tokens, and write `disk` as they do (`OtherTab`).  Which tokens they hold is
  not kept: they may use those of any session, and a request this tab no longer waits for counts as
  theirs, so the model has more of their behaviours than there are.
* `DNSZone`: `copy` is what PowerDNS holds per record type.  `Push` replaces the record sets
  of the types that still have a record, as `SyncZone` does.  A call is refused, or applied with or
  without an answer, before the client gives up after 10 seconds.  That PowerDNS applies a call later
  than that is not modelled; a creation delayed beyond a later deletion would serve a deleted zone.
* `Hosting`: `ignored` becomes true when the code drops an error (`_ =`), when `userdel` removed
  the user and failed on the directory, or when the process died.
* `RateLimit`: tokens are measured in the time that earns them, so `rps` disappears and the
  arithmetic stays linear; `Cost` is 1/rps and `Burst` is burst/rps.  Floating-point rounding is
  left out.
* `Access`: the license mode is fixed while a process runs, so limiter and mode check are one
  step.  Of the built-in roles only `root_admin` has (admin, read); other built-in roles behave
  as a custom role without it.  The expiry of a key is a step of its own.  An uploaded license is
  always refused, because `license.Parse` passes no public key.

## Runs

| Run | Instance | Shows |
|---|---|---|
| `audit` | see `audit.cfg` | every stored hash leads back to the start through stored rows; a broken chain stays broken; without overlap and with distinct milliseconds `VerifyChain` returns exactly the first altered row |
| `audit_fork` (violation) | two overlapping `Record` calls | two rows chain to one predecessor, so an untouched log fails verification, although `Record` is documented as safe for concurrent use |
| `audit_endpoint` (violation) | one altered row | the endpoint answers `tampered: false` although `VerifyChain` found the row |
| `login` | two processes, one fault, two logins, two roles, two failures | one administrator unless two processes were past the count at once; with finitely many faults the panel always comes up again and has one; a lock needs its failures and the threshold locks, an assigned role is not overwritten by a login that did not race with it, and a lock runs out |
| `sessions` | one tab with two calls, two requests, three sessions of which one may expire | `Sessions` implements `SessionLife` (`LifeSpec`), so a successor exists only after its parent was revoked; a revoked session gains no more successors than requests were past their check; one usable session per login without overlap; a tab presents a token once; tokens that were cleared stay away from the tab and from localStorage, through late answers and reloads, unless the refresh that was running then or another tab stores a pair; refreshing is lost for good only after a call was out while tokens were cleared |
| `sessions_single_use` (violation) | two overlapping refreshes | one refresh token yields two pairs, although rotation is documented as single use |
| `dns` | two requests, two record ids, two types, two contents | a deleted zone is not served, a zone is there only when it is served, one that is not served any more has a failure or an overlap behind it, no orphaned records without overlap, types that have records are in sync |
| `dns_withdrawn` (violation) | one record | deleting the last record of a type leaves it in PowerDNS |
| `vault` | two requests, three names | overrun of a quota is bounded by the other requests in flight; without overlap secrets are added within the quota and a version counts all PUTs of its name, so a deleted name does not start again |
| `hosting` | two requests, two rows, two tries | row and user agree and domain answers hold unless handlers overlap or an error was ignored; a row goes only after its user, ignored errors and crashes included |
| `deployment` | three deployments, three releases | swaps are atomic, a temporary link has an owner, a swap installs its own release |
| `access` | two requests, one key, one role, one address | revocation bars later requests; a revoked key stays revoked; a locked panel writes no role and creates or revokes no key (the usage columns of a key are still written); a deleted role stays deleted; the limiter's bound and its specification hold in the composition |

*Bounds and why they are enough.*  The interesting cases need two actors: one that reads and one
that writes in between.  Two requests give every such pair, including a request against a crash;
`deployment` has three because a temporary link can be passed on.  Names, keys and rows are one
more than the smallest number that can conflict.  `MaxTime`, `MaxRows`, `MaxVersion` and the like
bound counters that only grow; each is large enough for the event it delays to happen and something
to follow it (a lock that ends, a license that expires, a row that is inserted again).  In `access`
the burst is a single token, because the composition multiplies the states of both parts; larger
bursts are covered by the theorem, which is about every value.  Requests are symmetric everywhere,
and so are names and values where no order is used; no run that checks liveness uses symmetry.

*Deadlock* is checked wherever the `.cfg` does not say otherwise.

`login` allows one fault (`MaxFaults`), anywhere: that is a kill between any two statements followed
by everything two processes can do; a second fault repeats the first from a state that is reached
anyway.  Three sessions in `sessions` are a login, its successor, and a second login or successor, of
this tab or of another.  One of them may expire (`MaxExpired`): expiry only keeps that session from
being used, whatever became of the others.

*Fairness* is assumed in `login` only.  Weak fairness on `Tick`: time passes.  Weak fairness on
`Run(Unit)`, the steps of the service: systemd restarts it without limit (`Restart=always`, and
`RestartSec=5` stays below the start limit), and a process goes on with `run()` as long as it lives.
A start whose random password has no digit is refused, but passwords are drawn anew, so that one with
a digit comes eventually; the model therefore has only the starts that get on.  Faults are finite by
`MaxFaults`: with faults for ever nothing comes up.  The operator's process, requests and clients are
not assumed to continue: they may go away at any time.

## Findings

1. `audit_endpoint`: `AdminAuditVerify` looks only at the error of `VerifyChain`, which reports a bad
   row by its index with a nil error.
2. `audit_fork`: `Record` is documented as safe for concurrent use; the chain it leaves is not always
   one that verifies.
3. `sessions_single_use`: refresh rotation is documented as single use; the check and the revocation
   are separate statements.
4. `dns_withdrawn`: the DNS documentation says that changes are pushed to PowerDNS; the deletion of
   the last record of a type is not.

Some facts met on the way have no run, because no document speaks of them or because a
deterministic test would show them:

* A valid API key does not take the place of a session, though `middleware/apikey.go:14` says that it
  short-circuits the JWT path: `AuthMiddleware` still asks for a token.
* Names of deleted secrets and roles can never be used again: soft-deleted rows stay in the unique
  index.
* `license.Parse` passes no public key, so no key is ever accepted and only `ORVIX_ALLOW_DEV=1` starts
  the panel, though `main.go:77-78` speaks of keys of the right shape.
* The bootstrap stores an address as it is typed and `Login` looks for its lower case: an
  administrator with a capital in the address cannot log in (`LoginFinds` in `Startup`).
* The wizard accepts passwords of 8 characters, and of more than 72 bytes, that `HashPassword` refuses:
  the process then ends instead of asking again.
* The installer's `ORVIX_MASTER_KEY` is padded standard base64, which `MasterKeySource` refuses: license
  store and vault stay off.
* The console clears its tokens when the access token expires, where its refresh token would still do;
  a refresh that ends after a logout stores its pair, and one that ends after a new login replaces the
  new pair.
* Deleting an account leaves its vhost and pool file, and a pool whose user is gone makes
  `php-fpm -t` fail for every account.
* Each search of the audit log is itself recorded, so pages of one row never advance; and a row
  inserted between the count and the page of `Search` hides the oldest row.

## Proofs

Every safety property that a passing run checks is also a theorem: for all values of the constants
(any number of requests, rows, names, processes, any threshold or rate), about the specification
that TLC runs.  They rest on nothing but the named `ASSUME`s of the modules, which ask of the constants
that numbers are natural numbers, that placeholder values are not real ones, and that the requests of
`Sessions` and `Vault` are finite sets, because their properties count them.

The pattern is the same everywhere: an invariant that says what a request knows at each label of its
program counter, proved step by step, one action after the other.  TLC finds each of them to hold on
the run's instance.  Where a property holds only while requests have not overlapped,
the invariant has the form `~overlapped => Alone /\ ...`: `Alone` says that at most one request is
under way, so that what it read is still so when it writes.

| Module | Theorem | Invariant it is derived from, and why the property alone is not inductive |
|---|---|---|
| `AuditChainProofs` | `TypeCorrect` | `OrderInv`: ids are distinct and the table has a newest row, so that `loadLastHash` reads a hash |
| | `AncestorsTheorem` | `Rooted`: not only stored rows, also the cache and what requests hold, lead back to the start |
| | `SerialTheorem` | `SerialInv`: the table is one chain and the hash each request will chain to is that of its newest row |
| | `BreakTheorem` | `Rooted` and `BreakInv`: a row that is not altered has the hash of its content, and every part of the table has a newest row.  A new row could mend a bad one only by coming between it and its neighbour with the hash that the bad row continues; by `Rooted` a stored row has that hash, and the unique index takes it once |
| `UserLoginProofs` | `LockTheorem` | `CounterInv`: copies satisfy the same relation of counter, lock and failures as the row, since any of them may be saved |
| | `RoleTheorem` | `RoleInv`: the role every copy would write back is the one assigned last |
| | `LoginRefined`, `LoginWhileServing` | `Startup` implements `UserLogin`: the end of a process is its `Crash`, so both theorems hold while processes come and go |
| | `StartupTypeCorrect` | the types themselves, with those of login through `LoginRefined` |
| | `AdminTheorem` | `AdminInv`: who is past the count of users is alone there and the table is still empty |
| `SessionsProofs` | `TypeCorrect`, `RotationTheorem` | `RotationInv`: a request about to issue tokens has revoked the session it exchanges |
| | `LifeTheorem` | the refinement of `SessionLife`: an INSERT is a birth whose parent has ended (by `RotationTheorem`), a revocation or expiry is an end, all else a stutter |
| | `SerialTheorem` | `LineageInv`: between revocation and INSERT no session of the login is active |
| | `RevokedTheorem` | no request enters the exchange of a revoked session, and each one that is in it leaves with at most one successor (counted with the cardinality lemmas) |
| | `ServerTheorem`, `SessionsWithTab` | `Console` implements `Sessions`: to the server the tab is one more client |
| | `ConsoleTypeCorrect`, `StoreTheorem`, `SignOutTheorem`, `StuckTheorem` | `TabInv`: a request refreshes for the tab only while the shared refresh runs, there is at most one, and a sign-out is `"crossing"` exactly while the refresh it crossed runs; what another tab wrote are tokens, and own tokens in localStorage mean that the tab is not signed out; a call that is out while there are no tokens has been noted in `crossed` |
| `DNSZoneProofs` | `TypeCorrect` | `TodoInv`: who inserts a record has one to insert |
| | `ServedTheorem`, `CreatedTheorem` | `ZoneInv`: who commits or deletes a zone has had the corresponding answer of PowerDNS |
| | `OrphanTheorem` | `OrphanInv`: a request that works on a zone finds it live, and the statement that deletes it finds no records |
| | `StrandedTheorem` | `StrandedInv`: without failure only a deletion between its two halves leaves a live zone unserved |
| | `SyncTheorem` | `SyncInv`: record sets differ from records only until the request that changed them has pushed, and what is not pushed yet is in its list |
| `VaultProofs` | `TypeCorrect`, `OverrunTheorem` | `LimitsInv`, `ClaimedInv`: live secrets together with names of requests past the count stay within the largest limit and the number of requests |
| | `VersionTheorem`, `QuotaTheorem` | `VersionInv`: a rotation holds the version after the row's; `QuotaInv`: who may add a secret has found room under the limit in force |
| `HostingProofs` | `TypeCorrect` | `CopyInv`: a request that works on a row has loaded one |
| | `OutlivesTheorem` | `GoneInv`: who deletes a row has seen its user gone.  It says nothing of errors that were ignored, so it holds with them |
| | `AccountTheorem` | `AccountInv`: row and user disagree only between a command and the statement after it |
| | `DomainTheorem` | `DomainInv`: what of document root, vhost, pool and loaded services is there at each label of the handler |
| `DeploymentProofs` | `TypeCorrect`, `LinkTheorem` | `LinkInv`: a document root is a directory or leads to a release, and a temporary link has an owner |
| | `AtomicTheorem` | the types: each step of a swap is looked at on its own |
| | `OwnTheorem` | `OwnInv`: without overlap the temporary link is that of the swap about to rename it |
| `AccessProofs` | `LimiterInvariant`, `WindowTheorem` | `WindowInv`: what was spent in the window and what is left in the bucket never exceed a full bucket and the time since the window began |
| | `LimiterTheorem`, `AccessWindowTheorem` | `Access` implements `LimiterSpec`: each request takes one step of the limiter and no other step touches it |
| | `BarredTheorem` | `BarredInv`: a barred request has not passed the check its dead credential fails; sessions and keys do not come back |
| | `KeyTheorem` | the types: every writer of a key's row keeps `revoked` |
| | `LockedTheorem` | `OpInv`: what a request does is what it asked for when the license mode let it in, and the mode changes only with the process |
| | `RoleTheorem` | `OpInv` and `RoleInv`: once the role is deleted, every update that had read it before is one of the `revivers` |

*Only model-checked*: the liveness properties `LockRunsOut` and `PanelComesUp`, because the prover has no
reasoning about fairness and `ENABLED`.  The four properties of the violation runs are false, and no
theorem is about them.

## Not modelled

Cryptography and encodings (JWT, bcrypt, AES-GCM, license signatures); text of generated files;
parsing and validation of strings (DNS contents, host names, addresses); read-only endpoints (lists,
search, export, usage), on whose answers nothing in the system depends; migration of the schema;
scripts, except for the environment the installer writes; the pages of the console; WHMCS and browser
tools.  The table of DNS templates is left out, what applying a template does is in `DNSZone`.  The
encrypted license store is left out because nothing ever gets past `license.Parse` to write it.

## Plan

Done: `AuditChain`, `UserLogin`, `Sessions`, `DNSZone`, `Vault`, `Hosting`, `Deployment`, `RateLimit`,
`Access`, then `SessionLife`, `Console` and `Startup`, each with its run, and the proofs listed above.

Proved since: the rest of the runs' safety properties (`Hosting`, `Access`, `Console` and `Startup` had no
theorems of their own before), and that each composition implements the component it extends.

Next, in this order:

1. Weaker conditions for the theorems that exclude every overlap: which pairs of handlers really
   disturb `RowMatchesUser` and `NoOrphanRecords`.
2. An abstract specification of the audit log, a sequence of events that only grows, which
   `AuditChain` implements while calls of `Record` do not overlap.
