------------------------------ MODULE Requests ------------------------------
(***************************************************************************)
(* The life of an API request, Server.ServeHTTP: a first transaction for   *)
(* the operation, a second one for its audit records, then the answer,     *)
(* while callers disconnect, transactions fail and the process is stopped  *)
(* or dies.  What an operation does to the database is reduced to whether  *)
(* it took effect.  Only the vault, which is memory of the process and not *)
(* part of the transaction, is kept apart.                                 *)
(***************************************************************************)
EXTENDS Naturals

CONSTANTS
  Requests,   \* requests over the life of the installation
  MaxFaults,  \* bound on failures that are nobody's doing, for model checking
  None        \* no request

ASSUME RequestsAssumption == MaxFaults \in Nat /\ None \notin Requests

\* What the callback will do: store something, use the key and store
\* something, unlock, lock, answer with an error of its own; or the request
\* is a cross-origin write, which is answered before the first transaction.
Kinds == {"change", "value", "unlock", "lock", "refused", "foreign"}

VARIABLES
  process,  \* "up", "draining" (Shutdown waits), "closing" (vault locked), "down"
  vault,    \* the unlock request that put the key into memory, None when locked
  tx,       \* the request whose callback has run and whose commit is due, or None
  kind,     \* request -> its kind
  stage,    \* request -> where ServeHTTP is
  err,      \* request -> the variable err: "nil", or what it says
  gone,     \* request -> the caller has disconnected
  effects,  \* requests whose operation is in the database
  audit,    \* audit records: pairs of a request and its field Success
  faults,   \* failures so far
  unsure,   \* ghost: requests whose commit took effect and reported an error
  acted     \* ghost: requests that unlocked or locked the vault

vars == <<process, vault, tx, kind, stage, err, gone, effects, audit, faults, unsure, acted>>

Stages == {"new", "queued", "callback", "ended", "audited", "answered", "lost"}
Errors == {"nil", "api", "locked", "failed"}

\* A handler goroutine runs for the request.
Active(r) == stage[r] \in {"queued", "callback", "ended", "audited"}

Idle == \A r \in Requests : ~Active(r)

Init ==
  /\ process = "up" /\ vault = None /\ tx = None
  /\ kind \in [Requests -> Kinds]
  /\ stage = [r \in Requests |-> "new"]
  /\ err = [r \in Requests |-> "nil"]
  /\ gone = [r \in Requests |-> FALSE]
  /\ effects = {} /\ audit = {} /\ faults = 0 /\ unsure = {} /\ acted = {}

\* The step is a failure, unless there is an ordinary reason for it.
FaultUnless(excused) ==
  IF excused THEN UNCHANGED faults ELSE faults < MaxFaults /\ faults' = faults + 1

\* status(err): the code of the answer; the audit's failure replaces err.
Status(r) == [nil |-> 200, api |-> 400, locked |-> 503, failed |-> 500][err[r]]

(***************************************************************************)
(* The first transaction.                                                  *)
(***************************************************************************)

Arrive(r) ==
  /\ process = "up"
  /\ stage[r] = "new"
  /\ kind[r] # "foreign"
  /\ stage' = [stage EXCEPT ![r] = "queued"]
  /\ UNCHANGED <<process, vault, tx, kind, err, gone, effects, audit, faults, unsure, acted>>

\* A write with a foreign Origin is refused before anything else happens.
RejectOrigin(r) ==
  /\ process = "up"
  /\ stage[r] = "new"
  /\ kind[r] = "foreign"
  /\ err' = [err EXCEPT ![r] = "api"]
  /\ stage' = [stage EXCEPT ![r] = "answered"]
  /\ UNCHANGED <<process, vault, tx, kind, gone, effects, audit, faults, unsure, acted>>

\* route returns an error: the transaction is rolled back.
RouteFails(r) ==
  /\ stage[r] = "queued" /\ tx = None /\ process # "down"
  /\ \/ kind[r] = "refused" /\ err' = [err EXCEPT ![r] = "api"]
     \/ kind[r] = "value" /\ vault = None /\ err' = [err EXCEPT ![r] = "locked"]
  /\ stage' = [stage EXCEPT ![r] = "ended"]
  /\ UNCHANGED <<process, vault, tx, kind, gone, effects, audit, faults, unsure, acted>>

\* route succeeds.  Vault.Unlock and Vault.Lock act at once, not at the commit.
RouteSucceeds(r) ==
  /\ stage[r] = "queued" /\ tx = None /\ process # "down"
  /\ \/ kind[r] = "change" /\ UNCHANGED <<vault, acted>>
     \/ kind[r] = "value" /\ vault # None /\ UNCHANGED <<vault, acted>>
     \/ kind[r] = "unlock" /\ vault' = r /\ acted' = acted \cup {r}
     \/ kind[r] = "lock" /\ vault' = None /\ acted' = acted \cup {r}
  /\ tx' = r
  /\ stage' = [stage EXCEPT ![r] = "callback"]
  /\ UNCHANGED <<process, kind, err, gone, effects, audit, faults, unsure>>

\* Mutant: the answer is decided by the callback alone, the result of the
\* commit is ignored.
CommitFailsUnnoticed(r) ==
  /\ stage[r] = "callback"
  /\ tx' = None
  /\ FaultUnless(gone[r])
  /\ stage' = [stage EXCEPT ![r] = "ended"]
  /\ UNCHANGED <<process, vault, kind, err, gone, effects, audit, unsure, acted>>

\* The commit fails, because the request's context was cancelled when its
\* caller left, or by itself.  The vault stays as the callback left it.
CommitFails(r) ==
  /\ stage[r] = "callback"
  /\ tx' = None
  /\ FaultUnless(gone[r])
  /\ err' = [err EXCEPT ![r] = "failed"]
  /\ stage' = [stage EXCEPT ![r] = "ended"]
  /\ UNCHANGED <<process, vault, kind, gone, effects, audit, unsure, acted>>

Commit(r) ==
  /\ stage[r] = "callback"
  /\ tx' = None
  /\ effects' = effects \cup {r}
  /\ stage' = [stage EXCEPT ![r] = "ended"]
  /\ UNCHANGED <<process, vault, kind, err, gone, audit, faults, unsure, acted>>

\* The connection breaks after the database has committed.
CommitUnsure(r) ==
  /\ stage[r] = "callback"
  /\ FaultUnless(FALSE)
  /\ tx' = None
  /\ effects' = effects \cup {r}
  /\ unsure' = unsure \cup {r}
  /\ err' = [err EXCEPT ![r] = "failed"]
  /\ stage' = [stage EXCEPT ![r] = "ended"]
  /\ UNCHANGED <<process, vault, kind, gone, audit, acted>>

\* Update fails before the callback: no connection, no row lock in time, the
\* caller left, or the store is closed.
UpdateFails(r) ==
  /\ stage[r] = "queued"
  /\ FaultUnless(gone[r] \/ process = "closing")
  /\ err' = [err EXCEPT ![r] = "failed"]
  /\ stage' = [stage EXCEPT ![r] = "ended"]
  /\ UNCHANGED <<process, vault, tx, kind, gone, effects, audit, unsure, acted>>

(***************************************************************************)
(* The second transaction, and the answer.                                 *)
(***************************************************************************)

\* Both rows of the request, its operation and its authentication, are
\* inserted together; one record stands for them.
Record(r) == <<r, err[r] = "nil">>

\* Mutant: the audit transaction runs under the context of the request.
AuditFailsWhenGone(r) ==
  /\ stage[r] = "ended"
  /\ FaultUnless(gone[r] \/ process = "closing")
  /\ err' = [err EXCEPT ![r] = "failed"]
  /\ stage' = [stage EXCEPT ![r] = "audited"]
  /\ UNCHANGED <<process, vault, tx, kind, gone, effects, audit, unsure, acted>>

\* The audit transaction fails: the answer becomes 500.
AuditFails(r) ==
  /\ stage[r] = "ended"
  /\ FaultUnless(process = "closing")
  /\ err' = [err EXCEPT ![r] = "failed"]
  /\ stage' = [stage EXCEPT ![r] = "audited"]
  /\ UNCHANGED <<process, vault, tx, kind, gone, effects, audit, unsure, acted>>

\* Mutant: only what succeeded is recorded.
AuditSuccess(r) ==
  /\ stage[r] = "ended" /\ tx = None /\ process # "down"
  /\ audit' = IF err[r] = "nil" THEN audit \cup {Record(r)} ELSE audit
  /\ stage' = [stage EXCEPT ![r] = "audited"]
  /\ UNCHANGED <<process, vault, tx, kind, err, gone, effects, faults, unsure, acted>>

\* The audit transaction has a context of its own, so it does not matter
\* whether the caller is still there.
Audit(r) ==
  /\ stage[r] = "ended" /\ tx = None /\ process # "down"
  /\ audit' = audit \cup {Record(r)}
  /\ stage' = [stage EXCEPT ![r] = "audited"]
  /\ UNCHANGED <<process, vault, tx, kind, err, gone, effects, faults, unsure, acted>>

\* It commits and reports an error.
AuditUnsure(r) ==
  /\ stage[r] = "ended" /\ tx = None /\ process # "down"
  /\ FaultUnless(FALSE)
  /\ audit' = audit \cup {Record(r)}
  /\ err' = [err EXCEPT ![r] = "failed"]
  /\ stage' = [stage EXCEPT ![r] = "audited"]
  /\ UNCHANGED <<process, vault, tx, kind, gone, effects, unsure, acted>>

Answer(r) ==
  /\ stage[r] = "audited"
  /\ stage' = [stage EXCEPT ![r] = "answered"]
  /\ UNCHANGED <<process, vault, tx, kind, err, gone, effects, audit, faults, unsure, acted>>

Disconnect(r) ==
  /\ Active(r) /\ ~gone[r]
  /\ gone' = [gone EXCEPT ![r] = TRUE]
  /\ UNCHANGED <<process, vault, tx, kind, stage, err, effects, audit, faults, unsure, acted>>

(***************************************************************************)
(* The process.                                                            *)
(***************************************************************************)

\* A signal: Shutdown accepts no more requests and waits for the active ones.
Shutdown ==
  /\ process = "up"
  /\ process' = "draining"
  /\ UNCHANGED <<vault, tx, kind, stage, err, gone, effects, audit, faults, unsure, acted>>

\* Shutdown has waited for all requests, or for 35 seconds: then Close drops
\* the connections.  The deferred calls lock the vault and close the store,
\* and handlers that are still running go on.
Close ==
  /\ process = "draining"
  /\ process' = "closing"
  /\ vault' = None
  /\ FaultUnless(Idle)
  /\ gone' = [r \in Requests |-> gone[r] \/ Active(r)]
  /\ UNCHANGED <<tx, kind, stage, err, effects, audit, unsure, acted>>

\* The process ends: by itself, or killed at any moment.
Exit ==
  /\ process # "down"
  /\ FaultUnless(process = "closing" \/ Idle)
  /\ process' = "down"
  /\ vault' = None
  /\ tx' = None
  /\ stage' = [r \in Requests |-> IF Active(r) THEN "lost" ELSE stage[r]]
  /\ UNCHANGED <<kind, err, gone, effects, audit, unsure, acted>>

\* A new process starts with an empty vault.
Start ==
  /\ process = "down"
  /\ process' = "up"
  /\ UNCHANGED <<vault, tx, kind, stage, err, gone, effects, audit, faults, unsure, acted>>

Next ==
  \/ \E r \in Requests :
       \/ Arrive(r) \/ RejectOrigin(r) \/ RouteFails(r) \/ RouteSucceeds(r)
       \/ Commit(r) \/ CommitFails(r) \/ CommitUnsure(r) \/ UpdateFails(r)
       \/ Audit(r) \/ AuditFails(r) \/ AuditUnsure(r) \/ Answer(r) \/ Disconnect(r)
  \/ Shutdown \/ Close \/ Exit \/ Start

Spec == Init /\ [][Next]_vars

(***************************************************************************)
(* Properties.                                                             *)
(***************************************************************************)

TypeOK ==
  /\ process \in {"up", "draining", "closing", "down"}
  /\ vault \in Requests \cup {None}
  /\ vault # None => kind[vault] = "unlock" /\ vault \in acted
  /\ tx \in Requests \cup {None}
  /\ \A r \in Requests : (tx = r) <=> (stage[r] = "callback")
  /\ kind \in [Requests -> Kinds]
  /\ stage \in [Requests -> Stages]
  /\ err \in [Requests -> Errors]
  /\ gone \in [Requests -> BOOLEAN]
  /\ effects \subseteq Requests /\ unsure \subseteq effects /\ acted \subseteq Requests
  /\ audit \subseteq Requests \X BOOLEAN
  /\ faults \in 0..MaxFaults

Recorded(r, success) == <<r, success>> \in audit

\* What a caller may conclude from an answer.  200 is given only when the
\* operation is in the database and its success is in the audit log; an error
\* of the API, other than a rejected origin, only when the operation changed
\* nothing, in the database or in the vault, and its failure is in the log.
\* A 500 says neither.
AnswersAreTruthful ==
  \A r \in Requests : stage[r] = "answered" =>
    /\ Status(r) = 200 => r \in effects /\ Recorded(r, TRUE)
    /\ Status(r) \in {400, 503} =>
         /\ r \notin effects \cup acted
         /\ Recorded(r, FALSE) \/ kind[r] = "foreign"

VaultKinds == {"unlock", "lock"}

\* What a reader of the audit log may conclude.  A request has at most one
\* verdict.  Success means that the operation took effect, an unlock or lock in
\* the vault too.  Failure means that nothing is in the database, unless the
\* database committed and could not say so.  It does not mean that the vault
\* was left alone: Vault.Unlock and Vault.Lock act before the commit and are
\* not undone when it fails; but that needs a caller who left or a failure.
AuditIsTruthful ==
  \A r \in Requests :
    /\ ~(Recorded(r, TRUE) /\ Recorded(r, FALSE))
    /\ Recorded(r, TRUE) => r \in effects /\ (kind[r] \in VaultKinds => r \in acted)
    /\ Recorded(r, FALSE) => /\ r \in effects => r \in unsure
                             /\ r \in acted => gone[r] \/ faults > 0

\* An operation that took effect is in the audit log once its handler has
\* finished, unless something failed: that the caller disconnected, before or
\* after the commit, makes no difference (ServeHTTP: "Use a fresh context so a
\* disconnected caller cannot cancel its audit record").
EffectsAreAudited ==
  \A r \in Requests :
    stage[r] = "answered" /\ r \in effects /\ faults = 0 => Recorded(r, TRUE)

\* An open vault can be traced: the request that opened it is under way or in
\* the audit log, as a success, or as a failure if its caller left: the key
\* stays in memory when the commit fails after Vault.Unlock.
OpenVaultIsAudited ==
  vault # None /\ faults = 0 =>
    Active(vault) \/ Recorded(vault, TRUE) \/ (gone[vault] /\ Recorded(vault, FALSE))
=============================================================================
