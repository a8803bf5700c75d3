# SimpleSecretsManager: a TLA+ model

SimpleSecretsManager is a server that keeps encrypted, versioned secrets in
SQLite or MySQL, and an agent that copies secrets into files on a machine and
runs a hook after a change. This directory models the parts whose mistakes are
hard to test, checks them with TLC on small instances and proves the central
properties with TLAPS for every instance.

## 1. Inventory

| Part | Code | State | Operations | What makes it correct |
| --- | --- | --- | --- | --- |
| Secret service | `internal/server/secrets.go`, `write_credentials.go` (`writeSecret`) | table `secrets`: revision, ciphertext, tombstone | create, update, delete, read, write-credential POST | a path and a revision name one value for good; nothing stored becomes unreadable |
| Vault, envelope | `internal/security/security.go`, `server.go` (unlock, lock, master), `Setup` | row `config/envelope`, `Vault.key` in memory | setup, unlock, lock, master change, restart | the key in memory is the key the envelope wraps |
| Identities, enrollment | `server.go`, `maintenance.go`, `auth.go` | tables `agents`, `credentials`, `enrollment` | create, edit, revoke, purge, issue token, delete token, redeem | one token buys one credential; refusal is final |
| Write credentials | `write_credentials.go`, `auth.go` | tables `writers`, `writer_tokens` | create, edit, revoke, authenticate | row and index agree; revocation is permanent |
| Record store | `internal/storage/storage.go` | table `records`, row `ssm_mutex` | Get, Put, Delete, List, Update, Scan, migrate | a callback is atomic and isolated |
| Agent | `internal/agent/agent.go`, `files.go`, `cmd/ssm-agent` | `revisions.json`, `credentials.json`, destinations | poll, synchronize one definition, publish, save, hook, enroll | files converge, hooks run at least once, failures destroy nothing |
| Request pipeline, audit | `server.go` (`ServeHTTP`), `maintenance.go` (`downloadAudit`) | table `audit` | two transactions per request, streamed export | every operation leaves an audit record |
| Administrators, sessions, limiter | `server.go`, `auth.go` | tables `admins`, `sessions`; attempt counter | login, logout, create, delete, limit | a removed administrator has no session |
| Path rules | `security.go` | none | `Normalize`, `ValidateRules`, `Allowed` | a subtree rule stops at the slash |
| Web interface | `web/app.js`, `web/browse.js` | generation counters | late answers are dropped | an answer never reaches another editor, and nothing outlives a sign-out |
| Server process, command line | `cmd/ssm-server` | none | start, shutdown, setup, unlock | a new process starts locked |

The parts meet in three places. Handlers share the record store, one
transaction per request. The agent sees the server through two requests for
each definition, metadata and value, with time in between. Agent, operator and
applications share the file system.

What is hard: the order of administrative requests over a long life (delete
and re-create, revoke and edit, purge and redeem, change the master and
restart); the steps of one synchronization between which the process may die,
a write may fail after it took effect, the server may change or the operator
may edit; the audit transaction that follows the operation it records;
several processes and goroutines on one database; two agents on one state
directory; and answers that reach a browser page late, when another dialog is
open or the page was signed out and in again. `PROJECT.json` lists each hazard at
its line, with the properties that cover it or the reason why none does.

## 2. Modules

| Module | Models |
| --- | --- |
| `Records` | a table of the record store inside one transaction: `Get`, `Put`, `Delete`, `List` with a loop of deletes |
| `AtomicRecords` | what `Update` promises its callbacks: one transaction, one step |
| `Store` | transactions of several goroutines and processes, and the batched export of the audit log |
| `StoreProofs` | its invariants and the refinement of `AtomicRecords` |
| `Requests` | the life of a request: operation, audit record, answer, with failures in between; the process that serves it |
| `RequestsProofs` | its invariants |
| `VersionedValues` | what the secret store promises: per path the list of all its values, and whether the last one is visible |
| `SecretStore` | secrets, vault and envelope together |
| `SecretStoreProofs` | its invariants and the refinement of `VersionedValues` |
| `Identity` | agents, enrollment tokens, runtime and write credentials |
| `IdentityProofs` | its invariants and action properties, what path rules mean, and `AgentAccess` |
| `PathRules` | `Normalize`, `ValidateRules`, `Allowed`, and the reference they are compared with |
| `AgentAccess` | `Identity` joined with `PathRules`: what a bearer token opens |
| `Administrators` | administrators, sessions and the limiter |
| `AdministratorsProofs` | its invariants, the limiter's included, and its action property |
| `Agent` | the agent process and its files, the answers of the server as parameters |
| `Delivery` | `Agent` composed with `VersionedValues` as its server |
| `DeliveryProofs` | the journal, the deployed file and the hooks |
| `Enrollment` | how an agent gets its credential, and the lock on its state directory |
| `EnrollmentProofs` | its invariants and its action property |
| `Web` | the administrator's page and its generation counters |
| `WebProofs` | its invariants |
| `MC...` | instances for TLC |

Operators whose comment starts with "Mutant" are wrong variants of the
definition that follows them. `PROJECT.json` names for every property one that
TLC must find to violate it.

### SecretStore

`config`, `secrets` and `vault` are the tables of the same name and
`Vault.key`. `Setup`, `Unlock`, `Lock`, `ChangeMaster`, `SecretPost`,
`SecretPut`, `WriteSecret`, `SecretDelete` and `SecretGet` are the handlers,
each with its guards in the code's order of refusal; `Restart` is the end and
start of the process. A handler that answers with an error rolls back and is
no step; nor is a write that repeats the visible value, which commits and
stores nothing. Handlers do not interleave, which is what `Store` shows of
`SQLStore.Update`. The vault is outside the transaction, but the two handlers
that write it write nothing else; what happens when their transaction fails is
the subject of `Requests`.

Encryption is ideal: `Open` succeeds under the key and associated data of
`Seal` and under nothing else. A master stands for the wrapping key that
scrypt derives from it with the envelope's salt. Three ghost variables record
history: `history`, the values a path was given; `seen`, the answers of GET; and
`last`, the revision of the last answer for each path, so that a repeated answer
counts as well. No guard reads them, except that `MaxRevision` bounds the number
of writes.

### Identity

Every handler is one action. The clock is a variable that only grows, so
expiry can fall between any two requests. A random draw of `security.Token` is
the next number of a counter, which expresses that draws do not repeat, and a
hash is an injective tag, so tokens and hashes cannot be confused. The id of an
enrollment row is not modelled: it finds the row that the token's hash finds.
Names, timestamps and lists carry no decision. `grants` is a ghost: who
received which runtime token for which enrollment token. Administrator
authentication stands before all actions but `Enroll` and is modelled in
`Administrators`.

`AgentAccess` adds the path rules. Rules and paths are sequences of characters.
`Readable` and `Writable` are the guards of the read and the write routes; they
are compared with `Grants`, which says in terms of components what a rule means.
The rules that identities are given are valid, because every handler that stores
rules calls `ValidateRules` first (`StringsAssumption`). `MCIdentity` also states
as an assumption, which TLC evaluates, that the comparison of strings in
`Allowed` and `Grants` agree on all strings of up to five characters over letter,
dot, slash and star; theorem `RuleMeaning` says so of all strings.

### Store

A process has one connection (`SetMaxOpenConns(1)`), a transaction holds it from
`BeginTx` to its end and takes the row `ssm_mutex` before the callback runs. The
callback is represented by the pattern that needs isolation: read a revision,
store its successor, insert audit rows. `Rollback` is every way in which a
transaction can end without a commit, `Crash` the end of a process. `Scan` is an
upper bound, then batches; each query takes the connection and gives it back
before the consumer sees a row, so a query is one step that needs the
connection to be free, and between two steps the consumer may take for ever.
Audit ids begin with a time stamp, but a writer may be delayed and
RFC 3339 drops trailing zeros, so a new id may sort anywhere: the model draws it
from all unused ones.

### Requests

A request is queued for its transaction, has run its callback (`tx` names the
one whose commit is due), has ended it, has written its audit record, is
answered. `err` is the variable of that name in `ServeHTTP`. What the operation
stores is reduced to whether it is in the database (`effects`). The vault is kept
apart because it is not part of the transaction; the ghost `acted` holds the
requests that unlocked or locked it. `FaultUnless` separates failures
that have an ordinary reason (the caller left, the store is being closed) from
those that come from outside, which `MaxFaults` bounds. `Close` is the end of
`Shutdown` after its 35 seconds; handlers that are still running go on, with
the vault wiped and the store closed. A handler that loses the key between two
uses of it fails with `ErrLocked` and rolls back, as `RouteFails` does.

Two things the model makes visible and the properties allow, because no text
promises otherwise: a 500 may hide an operation that took effect, and after a
failed commit of `unlock` or `lock` the vault is open or locked although caller
and audit log are told it failed (`server.go:315`, `322`). `AuditIsTruthful` says
when the second can happen: only if the caller left before the commit or
something failed; `OpenVaultIsAudited` says that then the failure is at least in
the log, and in all other cases a success. A process that was shut down past its
timeout counts as a failure there.

### Administrators

Every request that commits is one action. `version` in a row of `admins` and in
a session is a ghost that says which password the session was opened with.
`limit()` counts before it decides, also calls it refuses (`Refused`). The ghost
`passed` lists the times of the attempts it let through since the process
started; `AttemptsBounded` says that of two of them that are twice the limit
apart the later one came more than a window after the earlier one.
`DeleteAdministrator` is `DELETE` of any name but one's own, whether it exists or
not; `PostAdministrator` creates or replaces, also oneself.

### Enrollment

The service and agents started by hand share a state directory. `Load` is
`LoadConfig` and `New`; `Flock` comes after it, as in `run`. `Answer` is the
server's redemption or refusal together with the arrival of its answer, `GiveUp`
the timeout, a 429 or a 500, after which the request may still arrive
(`LateRedeem`). `void` holds the tokens that the server refuses although they were
not redeemed: `Invalidate` is expiry, deletion of the token, revocation or purge
of its agent, and a credential the agent got with another token, at any moment.
Writing
`credentials.json` succeeds (`Persist`) or reports an error before or after the
rename (`PersistFails`). `Sync` stands for a synchronization, reduced to the
number of saves that went into the journal. `Replace` is the operator following
setup.md: stop the agent, remove its state, put a new token in place.

How a process ends matters for its restart. A process that exits with an error or
is killed (`FlockFails`, `Kill`) is "failed" if it is the service, and systemd
starts it again (`Restart`); one that the operator stops with SIGTERM (`Stop`,
`StopFailed`) is "off" until the operator starts it.

### Web

`gen` holds the three counters `authGeneration`, `editorGeneration` and
`workflowGeneration`; a pending request remembers those of the moment its handler
started, and the session whose cookie it carried. Each answer handler is what
follows the `await`. Answers come in any order, late, as 401, as another error or
never. The server may end a session at any time.

Signing in is two steps, `SubmitLogin` and `GotLogin`, and the form can be sent
again in between; the page also asks for the session of its cookie when it is
loaded (`Init`, `GotSession`, `RestoreFailed`). So a sign-in can come on top of
another one: `signedIn` then replaces the CSRF token, clears nothing and moves no
counter. What the page shows is therefore represented by the era it was asked for
in, where an era ends with `signedOut`. That is what the counters protect and what
`EditorShowsItsSecret` and `NothingOutlivesSignOut` say. That everything shown
belongs to the session whose cookie the browser has now is not true of the code:
after two logins that overlap, what the first one listed or revealed stays until
it is refreshed or closed, and no text promises otherwise.

### Agent and Delivery

`job` is the position of `syncOne` between two points where something may
happen from outside: `meta` (before the metadata answer), `check`, `value`
(before the value answer), `write`, `save`, `hook`, `done` (the hook succeeded
and nothing is recorded yet). `journal` is `revisions.json`, `state` its copy in
memory. A write of a file either leaves the old one (`Fails`, `SaveFails`), or
publishes the new one (`WriteFile`, `SaveOk`), or publishes it and reports an
error because `Fsync` of the directory failed (`WriteFileUnsynced`,
`SaveUnsynced`). `save` writes the entries of all definitions from memory.
`Crash` may happen at every point and loses what is in memory, and `Start`
reads the journal. Definitions are iterated in any order, as a Go map is.

A rendered file is the pair of template source and value. A template may also
print path and revision; leaving the revision out makes equal outputs more
frequent, which is the harder case for the hook. A definition is reduced to
the mode it asks for and whether it has a hook, `Invalid` is any content
`definitions()` refuses, and the fingerprint is the pair of definition and
template. Owner and group play the same part as the mode.

The server in `Delivery` is `VersionedValues`. That this stands for the real
one is theorem `Refinement` of `SecretStoreProofs`. Two variables are ghosts,
which no guard reads: `owed`, the destination was published and no hook has
succeeded since; and `hooked`, the revision, definition and template for which
the hook last succeeded.

## 3. Runs

| Run | Checks | Shows |
| --- | --- | --- |
| `secret_store` | `TypeOK`, `VaultHoldsDataKey`, `SecretsRecoverable`, `RevisionCountsWrites`, `RevisionNamesValue`, `ReadsNeverGoBack`, `ImplementsVersionedValues` | no order of setup, restart, master change, write, delete and re-create loses a value or reuses a revision |
| `identity` | `CredentialIndexExact`, `WriterIndexExact`, `EnrollmentsHaveAgents`, `OneCredentialEach`, `TokensHaveOnePurpose`, `AccessFollowsRules`, `RefusedStaysRefused`, `RevocationIsFinal` | credentials, their indexes and what they open under all orders of requests and expiry |
| `store` | `TypeOK`, `ScanIsComplete`, `ImplementsAtomicRecords`, `UpdatesEnd` | callbacks are atomic across processes, exports complete, nobody is starved by a slow export |
| `requests` | `AnswersAreTruthful`, `AuditIsTruthful`, `EffectsAreAudited`, `OpenVaultIsAudited` | what caller and auditor may conclude, whatever fails between commit, audit and answer |
| `administrators` | `TypeOK`, `AlwaysAnAdministrator`, `SessionsAreCurrent`, `AttemptsBounded`, `RefusedSessionStaysRefused` | one administrator remains, no session outlives its password, the limiter limits |
| `hooks` | `HookNotLost`, `EventuallyHooked` | two definitions in one journal, failures and crashes at every step, no drift: hooks are run |
| `delivery` | `JournalNamesWhatItHolds`, `HookRanForEntry`, `FailureKeepsDeployment`, `EventuallyInStep` | an honest journal and convergence, with edits, drift, failures and server writes |
| `enrollment` | `TypeOK`, `CredentialIsStored`, `LostStaysLost`, `EnrollmentSettles` | one token, one credential, on disk or visibly lost, refused or replaced |
| `web` | `EditorShowsItsSecret`, `NothingOutlivesSignOut` | late answers never reach another editor or dialog, and nothing outlives a sign-out, with logins that overlap |
| `hook_loss` | `HookNotLost`, violated | see below |
| `stale_lock` | `JournalNeverGoesBack`, violated | see below |
| `web_busy` | `PendingBlocksClose`, violated | see below |

**A hook can be lost.** With one drift and one failure TLC finds `HookNotLost`
violated: a file is deployed and its hook has run; somebody removes the file;
the next poll publishes the same bytes again and the process is killed before
it saves the journal, or `AtomicWrite` reports an error after its rename. The
journal still lists this output with no hook pending, so the next poll finds
everything up to date. The comment at `agent.go:444` calls a crash at this
point "a safe repeat", and `setup.md:305` promises that hooks run at least
once. It takes both a drift or a reverted edit and a failure: theorem `HookKept`
shows, for any number of definitions, that no hook is lost as long as one of the
two has not happened. And the journal never claims a hook that did not run: an
entry without a pending hook belongs to the very version for which the hook last
succeeded, whatever is edited and whatever fails (`HookRanForEntry`). What is
lost is only the repetition of a hook for a version it has already run for.

**An agent can write back an old journal.** `run` of `cmd/ssm-agent` calls
`agent.New`, which reads the journal, before it takes the lock (`main.go:45` and
`56`). An agent that was started while another one was finishing may get the
lock when the other has saved and ended, and its first save replaces the
journal by one that does not know the other's last synchronization. The comment
at `main.go:49` says that two agents must never "independently overwrite the
revision journal". The consequence is a repeated publication or hook; the
credential is not affected, as `CredentialIsStored` shows. It happens only to an
agent that is started while another one runs (theorem `JournalKept`).

**A dialog can be closed while its token is on its way.** The form of the access
dialog ends with `finally{busy(dialog,false);}` (`app.js:191`), which compares no
generation. If the page is signed out while the request is under way, and after
the next sign-in the dialog is opened and submitted again, the answer to the first
request makes the dialog closable while the second is pending. The
comment at `app.js:125` says that closing is blocked so that a token is not
silently discarded. That the token reaches only the dialog that asked for
it still holds (`NothingOutlivesSignOut`), and unless somebody signs in while such
a request from before the sign-out is outstanding, so does the promise (theorem
`CloseBlocked`).

### Bounds

- `secret_store`: two paths, so that ciphertext could be taken for the wrong
  one; two values, so that a write repeats or changes; two data keys, so that a
  second setup or a fresh key can differ; three masters, one too short; three
  revisions, so that create, delete and re-create fit before another write.
  Paths, values and keys are symmetric; the masters are not.
- `identity`: five draws hold an agent with two enrollment tokens and two
  redemptions, or an agent with its token and its credential beside a writer. Two clock
  ticks and lifetimes up to two let one token expire before another.
- `hooks`: two definitions so that one save can take back the other's entry;
  two failures so that the second hits the recovery from the first.
- `delivery`: two edits so that an edit can be reverted, two templates and two
  modes so that both parts of the fingerprint change, two revisions.
- `store`: two goroutines of one process compete for its connection and one of
  another for the row; three audit ids and batches of two make an export with
  two queries, with insertions before, between and after them. One key is enough
  for a lost update; callbacks that write several records are left to theorem
  `Atomicity`, which is about any set of keys.
- `requests`: one request can hold the transaction, another wait, a third have
  ended; two failures so that the audit of a failed operation may fail.
- `administrators`: two names and two passwords, so that a password changes and an
  administrator is deleted and re-created; four stores of one, three logins;
  a limit of two in a window of one tick over five moments.
- `enrollment`: the service and one agent by hand, two tokens, so that one is
  replaced, two failures, stops or kills, two starts by hand; a token becomes void
  at any moment.
- `web`: two secrets, two sessions, so that a login overlaps another one or the
  restored session, five clicks, three requests under way, so that an answer from
  before a sign-out meets the dialog of the next sign-in.
- All bounds (`Max...`, `Batch`) are guards named after what they bound. The
  theorems hold for every value of theirs.

`identity` and `web` switch the deadlock check off: when the draws and the
clock are used up and no row is left, or the clicks and sessions are, the bounded
model stops. The program itself does not.

### Fairness

`Delivery` assumes weak fairness of the agent's own steps and of the
answers to its requests, taken together: `Run` polls for ever, requests have
a timeout of 30 seconds, hooks a timeout, and the systemd unit restarts an
agent that failed. Nothing is assumed of administrators, operators, faults or
crashes; `MaxFaults` and `MaxEdits` make them finite, which expresses "from some
moment on nothing fails any more". Both liveness properties are conditional on
the secret being visible and all definitions being valid from some moment on: one
invalid definition ends the poll for all of them (`agent.go:339`), so without the
second condition neither holds.

`Store` assumes that a waiting goroutine gets the connection if it is free again
and again (`database/sql` gives a free connection to one of those waiting, not
always the oldest; strong fairness says that nobody is passed over for ever) and
that a transaction that has begun ends: a callback waits for nothing, and
busy and lock wait timeouts end the wait for the row. Nothing is assumed of the
consumer of an export.

`Enrollment` assumes that systemd starts a service that failed, as
`Restart=on-failure` in the unit says, and that a running process goes on, because
requests have a timeout. Nobody has to start a service that was stopped, or an
agent by hand: `EnrollmentSettles` has as its hypothesis that the service is not
left stopped. Failures need not stop before the bound.

`Requests`, `Administrators` and `Web` state safety only and assume no fairness.

## 4. Proofs

The proofs assume of the constants what the modules state: `NoKey` is not a
key, strong masters are masters, rules are valid, bounds are natural numbers.

`SecretStoreProofs`. The inductive invariant is `TypeOK` with
`VaultHoldsDataKey`, `SecretsRecoverable`, `RevisionCountsWrites` and
`AnswersComeFromHistory`. The parts need each other: a value is sealed under the
vault's key, so it is recoverable only because that key is the envelope's; a
new answer agrees with older ones only because both are positions of a
list that never changes below its end. `RevisionNamesValue` then follows, and
`ReadsNeverGoBack`, because an answer carries the length of the list and the one
before it, new or repeated, does not exceed it. `Refinement` maps `live` to the
paths with a row that is no tombstone; the point of it is `StoreValueWrites`,
where the comparison with the decrypted old value is the abstract guard on the
last version.

`IdentityProofs`. The inductive invariant adds to the checked properties that
the three token tables share no hash (`TokenTablesDisjoint`) and that no two
rows, revoked ones included, share one (`HashesUnique`): without them, deleting
one index entry might delete another row's. Freshness of draws carries the
steps that create. The two action properties rest on `Forward`, which says what
a step can never do to rows and indexes that exist.

`RuleMeaning` is about strings of every length: the loop of `Allowed` compares
characters, `Grants` compares components. It has no hypothesis on the path and
needs of the rule only what `ValidateRules` checks. The proof describes the n-th
component by the position where it begins, which is the one with n - 1 beginnings
before it, and shows that two strings that agree up to a slash have the same
components up to there, and conversely. Where this is an induction it is one by
smallest counterexample (`LeastExists`), since the library's induction theorems
cannot be instantiated. `AccessRight` joins this with the indexes: a token leads
to exactly the identity whose row carries its hash, is refused if that one is
revoked, and opens what that row's present rules grant.

`RequestsProofs`. The inductive invariant tells how far a request is: before
its transaction ends nothing is known of it except, after the callback of an
unlock or lock, in the vault; then `err` tells whether it took effect, then the
log, then the answer (`Story`). A failure recorded for a request that acted on the
vault keeps its excuse, because callers do not come back and failures are not
forgotten (`ExcusesKept`). For the two properties about
a run without failures it adds that then no commit is in doubt, that the process
stops only when idle, and that a stage past the audit transaction has its
record (`Calm`).

`AdministratorsProofs`. The inductive invariant is stronger than what is
promised: every session, expired or not, belongs to an administrator that exists
and carries its present version (`SessionsFollow`). From the weaker property no
step could be proved, since re-creating an administrator would bring
sessions that had been refused back to life. `AlwaysAnAdministrator` is then kept
because whoever deletes is authenticated, hence exists, and is spared.
The limiter has an invariant of its own, `LInv`. It relates the counter, which
also counts refusals, to the list of admitted attempts: at most `Limit` of them
belong to the current window; all before those came before it began, and all
but the last `Limit` of these more than a `Window` before. When a window is
reset the parts shift by one place, which gives the factor two of
`AttemptsBounded`.

`StoreProofs`. `Isolated` says what a transaction may rely on: what a callback
has read is still so in the database, what it will write is its successor, and
the audit rows it will insert have ids that are not in the log. It holds because
the row `ssm_mutex` has one holder. A commit is then one step of `AtomicRecords`
and everything before it a stutter (`Atomicity`). For an export, `Sound` says
that the ids delivered are ascending, that the batch lies above them, and that
every row present when the export began with an id up to `after` has been
delivered or is in the batch; at the end `after` has reached the upper bound, so
nothing is missing, and nothing is repeated (`ExportComplete`). The lemmas
on least and greatest elements come from the well-foundedness of the natural
numbers.

`EnrollmentProofs`. `OneIdentity` says that files and processes know of one
identity at a time, the one last issued. A process may carry what it read before
it had the lock, but nothing of an earlier identity, because the operator stops
the agents before replacing it. `CredentialStored` and `LossIsFinal` follow.
`JournalKept` has the hypothesis that no two agents run at a time
(`OneAtATime`), in every state of the behaviour; then what a process has of the
journal in memory is what the file holds (`MemoryIsDisk`). Without the hypothesis
`stale_lock` is the counterexample.

`WebProofs`. `Remembers` says what the generation counters are for: a pending
request with a current editor or workflow generation was sent since the page was
last signed out, for the dialog that is open. `signedOut` makes every pending
request strictly older than all three counters, which is why the next sign-in is
safe from it; a sign-in changes no counter and nothing shown, so it may come at
any time. `CloseBlocked` has the hypothesis that nobody signs in while a dialog
request from before the last sign-out is outstanding (`NoLeftover`); then an open
dialog waits for at most one answer and is busy meanwhile (`OneAnswer`). Without
it, `web_busy` is the counterexample.

`DeliveryProofs`. An entry of the journal names a version of the secret and its
rendered output (`Names`), in memory and on disk, which differ after a save that
failed past its rename. This is kept because the server only adds versions, and
because the version the job under way has learnt is not below any entry of its
definition (`JobAhead`), and the disk never behind memory (`DiskAhead`).
`DeploymentKept` follows: when the journal advances, the file still holds what
the job has published, unless there was an edit since (`JobNeeded`).

For hooks, `Unedited` adds what holds as long as nobody edits or touches
anything: an entry of the newest revision describes the published file, and a
hook that is owed is marked pending or belongs to a newer revision
(`Describes`); a disk entry newer than memory says whether its hook is due
(`DiskOwes`); a job goes past its check only for a newer revision (`JobNeeded`).
`Unfailing` says what holds as long as nothing fails: only the job under way owes
a hook. `HookKept` therefore has the hypothesis that there was no edit or no
failure. It cannot be dropped: with one of each, the run `hook_loss` is the
counterexample. `HookRan` needs none. Its invariant `HookInv`
adds to the promise that a hook that has just succeeded ran for the entry in
memory, and that an entry on disk without a pending hook is about the same version
as the one in memory: so a save that was reported as failed, and the next
definition's save that takes it back, cannot bring in a version without its hook.

Results:

| Module | Theorems |
| --- | --- |
| `SecretStoreProofs` | `TypeCorrect`, `VaultKeyCorrect`, `Recoverable`, `RevisionCorrect`, `RevisionIsAName`, `ReadsMonotonic`, `Refinement` |
| `IdentityProofs` | `TypeCorrect`, `CredentialIndex`, `WriterIndex`, `NoOrphans`, `OneCredential`, `OnePurpose`, `RefusalIsFinal`, `RevocationFinal`, `RuleMeaning`, `AccessRight` |
| `RequestsProofs` | `TypeCorrect`, `AnswersTruthful`, `AuditTruthful`, `EffectsAudited`, `OpenVaultAudited` |
| `AdministratorsProofs` | `TypeCorrect`, `AnAdministratorRemains`, `SessionsCurrent`, `SessionRefusalIsFinal`, `LimiterLimits` |
| `StoreProofs` | `TypeCorrect`, `Atomicity`, `ExportComplete` |
| `EnrollmentProofs` | `TypeCorrect`, `CredentialStored`, `LossIsFinal`, `JournalKept` |
| `WebProofs` | `EditorSafe`, `PageSafe`, `CloseBlocked` |
| `DeliveryProofs` | `JournalRight`, `DeploymentKept`, `HookKept`, `HookRan` |

Only model-checked: the liveness properties (`EventuallyHooked`,
`EventuallyInStep`, `UpdatesEnd`, `EnrollmentSettles`), because the prover does
not handle fairness and `ENABLED`.

## 5. Plan

Done: all components of the inventory have a module, every safety invariant and
action property that a passing run checks has a theorem, and for each of the
three violated promises a theorem says under which condition it holds. What could
come next:

1. The remaining dialogs and the enrollment form of the web interface, once the
   form compares generations as the others do.
2. Definition files that come and go while the agent runs, in place of a fixed
   set of names.

## 6. Not modelled

TLS, HTTP parsing and headers, JSON and YAML decoding, logging, the SQL text,
migrations, static assets and rendering in the browser: input, output and
presentation. Of the web interface, the
dialogs for permissions and the master key, which follow the pattern of the
access dialog, and the form that issues a further enrollment token, whose token
is shown without any generation check. Of the command line, the unlock command,
which is a login, an unlock and a logout in a row. Timing side channels and the strength of the cryptography are
outside the ideal encryption assumed here. Names, timestamps and lists of rows
are left out wherever no handler decides on them. Definition files that are
added or removed while the agent runs are represented by edits; their number is fixed.
