----------------------------- MODULE Enrollment -----------------------------
(***************************************************************************)
(* How an agent gets its credential, and which process may use the state   *)
(* directory: agent.New, the lock file of cmd/ssm-agent, and Agent.Enroll, *)
(* against a server that redeems an enrollment token once.                 *)
(*                                                                         *)
(* The service and agents started by hand with -once share one state       *)
(* directory.  Enrollment tokens are numbered as the operator issues them, *)
(* and the runtime credential that token k buys is called k as well.  The  *)
(* synchronization that follows enrollment is reduced to the journal it    *)
(* saves: how many saves went into it.                                     *)
(***************************************************************************)
EXTENDS Naturals

CONSTANTS
  Processes,  \* agent processes on the machine, one after the other or together
  Service,    \* the one that systemd runs; the others are started with -once
  MaxTokens,  \* bound on enrollment tokens issued, for model checking
  MaxSaves,   \* bound on the journal, for model checking
  MaxFaults,  \* bound on failures, stops and crashes, for model checking
  MaxStarts,  \* bound on agents started by hand, for model checking
  None        \* no process

ASSUME EnrollmentAssumption ==
  /\ Service \in Processes /\ None \notin Processes
  /\ MaxTokens \in Nat \ {0} /\ MaxSaves \in Nat /\ MaxFaults \in Nat /\ MaxStarts \in Nat

VARIABLES
  issued,   \* number of enrollment tokens issued so far
  config,   \* the token in config.yaml, 0 when there is none
  spent,    \* tokens the server has redeemed
  void,     \* tokens the server refuses for another reason
  orphans,  \* redemption requests on their way whose sender has given up
  file,     \* credentials.json: a credential, 0 when there is none
  journal,  \* revisions.json
  lock,     \* process that holds the lock on agent.lock, or None
  pc,       \* process -> where it is
  token,    \* process -> Config.EnrollmentToken, 0 when empty
  cred,     \* process -> Agent.credentials, 0 when empty
  state,    \* process -> Agent.state
  starts,   \* agents started by hand so far
  faults    \* failures, stops and crashes so far

vars == <<issued, config, spent, void, orphans, file, journal, lock, pc, token, cred, state, starts, faults>>
server == <<spent, void, orphans>>
memory == <<token, cred, state>>

Goto(p, place) == pc' = [pc EXCEPT ![p] = place]

Running(p) == pc[p] \notin {"off", "failed"}

\* Where a process is after it exited with an error or was killed: the unit of
\* the service says Restart=on-failure.
Crashed(p) == IF p = Service THEN "failed" ELSE "off"

Fault == faults < MaxFaults /\ faults' = faults + 1

Init ==
  /\ issued = 1 /\ config = 1 /\ spent = {} /\ void = {} /\ orphans = {}
  /\ file = 0 /\ journal = 0
  /\ lock = None
  /\ pc = [p \in Processes |-> "off"]
  /\ token = [p \in Processes |-> 0]
  /\ cred = [p \in Processes |-> 0]
  /\ state = [p \in Processes |-> 0]
  /\ starts = 0 /\ faults = 0

(***************************************************************************)
(* Start and end of a process.                                             *)
(***************************************************************************)

\* LoadConfig and New: configuration, credentials and journal are read before
\* the lock is taken.  The operator starts a process that is off, systemd a
\* service that failed.
Load(p) ==
  /\ ~Running(p)
  /\ IF p = Service THEN UNCHANGED starts ELSE starts < MaxStarts /\ starts' = starts + 1
  /\ token' = [token EXCEPT ![p] = config]
  /\ cred' = [cred EXCEPT ![p] = file]
  /\ state' = [state EXCEPT ![p] = journal]
  /\ Goto(p, "loaded")
  /\ UNCHANGED <<issued, config, server, file, journal, lock, faults>>

\* Mutant: the lock is shared.
FlockShared(p) ==
  /\ pc[p] = "loaded"
  /\ lock' = p
  /\ Goto(p, "enroll")
  /\ UNCHANGED <<issued, config, server, file, journal, memory, starts, faults>>

\* LOCK_EX on agent.lock.
Flock(p) ==
  /\ pc[p] = "loaded" /\ lock = None
  /\ lock' = p
  /\ Goto(p, "enroll")
  /\ UNCHANGED <<issued, config, server, file, journal, memory, starts, faults>>

\* LOCK_NB: the process does not wait, it exits with an error.
FlockFails(p) ==
  /\ pc[p] = "loaded" /\ lock # None
  /\ Goto(p, Crashed(p))
  /\ UNCHANGED <<issued, config, server, file, journal, lock, memory, starts, faults>>

\* The kernel drops the lock with the process; a request may be on its way.
Leave(p, place) ==
  /\ Goto(p, place)
  /\ lock' = IF lock = p THEN None ELSE lock
  /\ \/ pc[p] = "asked" /\ orphans' = orphans \cup {token[p]}
     \/ UNCHANGED orphans
  /\ UNCHANGED <<issued, config, spent, void, file, journal, memory, starts>>

\* The operator stops a process with SIGTERM, which is no failure to systemd,
\* and the context is cancelled.  A response that has arrived is stored first:
\* Enroll does not look at the context again.
Stop(p) == Running(p) /\ pc[p] # "got" /\ Fault /\ Leave(p, "off")

\* Killed, at any moment.
Kill(p) == Running(p) /\ Fault /\ Leave(p, Crashed(p))

\* The operator stops the service while systemd is about to start it again.
StopFailed ==
  /\ pc[Service] = "failed"
  /\ Fault
  /\ Goto(Service, "off")
  /\ UNCHANGED <<issued, config, server, file, journal, lock, memory, starts>>

\* The end of a poll: Run sleeps and polls again, -once ends.
EndPoll(p) ==
  /\ pc[p] = "polled"
  /\ \/ /\ p = Service
        /\ Goto(p, "enroll")
        /\ UNCHANGED <<issued, config, server, file, journal, lock, memory, starts>>
     \/ p # Service /\ Leave(p, "off")
  /\ UNCHANGED faults

(***************************************************************************)
(* Agent.Enroll.                                                           *)
(***************************************************************************)

\* A credential is at hand: the token is forgotten.
Enrolled(p) ==
  /\ pc[p] = "enroll" /\ cred[p] # 0
  /\ token' = [token EXCEPT ![p] = 0]
  /\ Goto(p, "sync")
  /\ UNCHANGED <<issued, config, server, file, journal, lock, cred, state, starts, faults>>

\* The request for redemption is sent.
Ask(p) ==
  /\ pc[p] = "enroll" /\ cred[p] = 0 /\ token[p] # 0
  /\ Goto(p, "asked")
  /\ UNCHANGED <<issued, config, server, file, journal, lock, memory, starts, faults>>

\* Neither credential nor token: the poll ends with an error.
NoToken(p) ==
  /\ pc[p] = "enroll" /\ cred[p] = 0 /\ token[p] = 0
  /\ Goto(p, "polled")
  /\ UNCHANGED <<issued, config, server, file, journal, lock, memory, starts, faults>>

\* Mutant: the server redeems a token as often as it is asked.
AnswerAgain(p) ==
  /\ pc[p] = "asked"
  /\ IF token[p] \in void
       THEN Goto(p, "polled") /\ UNCHANGED spent
       ELSE Goto(p, "got") /\ spent' = spent \cup {token[p]}
  /\ UNCHANGED <<issued, config, void, orphans, file, journal, lock, memory, starts, faults>>

\* The server refuses the token, because it is used, deleted or expired or
\* its agent is revoked, purged or enrolled; or it redeems it.
Answer(p) ==
  /\ pc[p] = "asked"
  /\ IF token[p] \in spent \cup void
       THEN Goto(p, "polled") /\ UNCHANGED spent
       ELSE Goto(p, "got") /\ spent' = spent \cup {token[p]}
  /\ UNCHANGED <<issued, config, void, orphans, file, journal, lock, memory, starts, faults>>

\* Mutant: the token is dropped with the request that failed.
GiveUpForGood(p) ==
  /\ pc[p] = "asked"
  /\ Fault
  /\ Goto(p, "polled")
  /\ token' = [token EXCEPT ![p] = 0]
  /\ UNCHANGED <<issued, config, server, file, journal, lock, cred, state, starts>>

\* No answer in time, or 429 or 500: the request is lost, or reaches the server
\* later.
GiveUp(p) ==
  /\ pc[p] = "asked"
  /\ Fault
  /\ Goto(p, "polled")
  /\ orphans' \in {orphans, orphans \cup {token[p]}}
  /\ UNCHANGED <<issued, config, spent, void, file, journal, lock, memory, starts>>

\* A request whose sender no longer listens reaches the server.
LateRedeem(k) ==
  /\ k \in orphans
  /\ orphans' = orphans \ {k}
  /\ spent' = IF k \in void THEN spent ELSE spent \cup {k}
  /\ UNCHANGED <<issued, config, void, file, journal, lock, pc, memory, starts, faults>>

\* The token expires, or an administrator deletes it or revokes or purges its
\* agent, or a second token of the agent is redeemed elsewhere.
Invalidate(k) ==
  /\ k \in 1..issued /\ k \notin void
  /\ void' = void \cup {k}
  /\ UNCHANGED <<issued, config, spent, orphans, file, journal, lock, pc, memory, starts, faults>>

\* AtomicWrite of credentials.json, then the credential is used.
Persist(p) ==
  /\ pc[p] = "got"
  /\ file' = token[p]
  /\ cred' = [cred EXCEPT ![p] = token[p]]
  /\ token' = [token EXCEPT ![p] = 0]
  /\ Goto(p, "sync")
  /\ UNCHANGED <<issued, config, server, journal, lock, state, starts, faults>>

\* Mutant: the credential is used although it could not be stored.
PersistFailsAndUses(p) ==
  /\ pc[p] = "got"
  /\ Fault
  /\ cred' = [cred EXCEPT ![p] = token[p]]
  /\ Goto(p, "polled")
  /\ UNCHANGED <<issued, config, server, file, journal, lock, token, state, starts>>

\* AtomicWrite fails, before or after the rename; the process has no
\* credential.
PersistFails(p) ==
  /\ pc[p] = "got"
  /\ Fault
  /\ file' \in {file, token[p]}
  /\ Goto(p, "polled")
  /\ UNCHANGED <<issued, config, server, journal, lock, memory, starts>>

(***************************************************************************)
(* After enrollment, and the operator.                                     *)
(***************************************************************************)

\* A poll that saves the journal, or has nothing to save.
Sync(p) ==
  /\ pc[p] = "sync"
  /\ \/ state[p] < MaxSaves /\ state' = [state EXCEPT ![p] = @ + 1] /\ journal' = state[p] + 1
     \/ UNCHANGED <<state, journal>>
  /\ Goto(p, "polled")
  /\ UNCHANGED <<issued, config, server, file, lock, token, cred, starts, faults>>

\* The operator replaces the identity: the agent is stopped, its state removed
\* and a fresh token written to config.yaml.
Replace ==
  /\ issued < MaxTokens
  /\ \A p \in Processes : pc[p] = "off"
  /\ issued' = issued + 1 /\ config' = issued + 1
  /\ file' = 0 /\ journal' = 0
  /\ UNCHANGED <<server, lock, pc, memory, starts, faults>>

\* The operator takes a token that is of no use any more out of config.yaml.
RemoveToken ==
  /\ config \in spent \cup void
  /\ config' = 0
  /\ UNCHANGED <<issued, server, file, journal, lock, pc, memory, starts, faults>>

Work(p) ==
  \/ Flock(p) \/ FlockFails(p) \/ EndPoll(p)
  \/ Enrolled(p) \/ Ask(p) \/ NoToken(p) \/ Answer(p) \/ Persist(p) \/ Sync(p)

Next ==
  \/ \E p \in Processes : Load(p) \/ Work(p) \/ Stop(p) \/ Kill(p) \/ GiveUp(p) \/ PersistFails(p)
  \/ \E k \in 1..MaxTokens : LateRedeem(k) \/ Invalidate(k)
  \/ StopFailed \/ Replace \/ RemoveToken

\* Restart=on-failure: systemd starts a service that failed, and no other.
Restart == pc[Service] = "failed" /\ Load(Service)

\* A process that runs goes on, because its requests and file operations end.
Fairness == WF_vars(Restart) /\ \A p \in Processes : WF_vars(Work(p))

Spec == Init /\ [][Next]_vars /\ Fairness

(***************************************************************************)
(* Properties.                                                             *)
(***************************************************************************)

Tokens == 1..MaxTokens

\* Types, and the lock: a process works exactly while it holds it.
TypeOK ==
  /\ issued \in Tokens /\ config \in 0..issued
  /\ spent \subseteq Tokens /\ void \subseteq Tokens /\ orphans \subseteq Tokens
  /\ file \in 0..issued /\ journal \in 0..MaxSaves
  /\ pc \in [Processes -> {"off", "failed", "loaded", "enroll", "asked", "got", "sync", "polled"}]
  /\ \A p \in Processes : (lock = p) <=> Running(p) /\ pc[p] # "loaded"
  /\ token \in [Processes -> 0..issued] /\ cred \in [Processes -> 0..issued]
  /\ state \in [Processes -> 0..MaxSaves]
  /\ starts \in 0..MaxStarts /\ faults \in 0..MaxFaults

\* A credential that a process works with is the one on disk, whatever failed
\* while it was stored: the agent never depends on a credential that a restart
\* would lose, and no second process has replaced it.
CredentialIsStored ==
  \A p \in Processes :
    Running(p) /\ pc[p] # "loaded" /\ cred[p] # 0 => file = cred[p] /\ cred[p] \in spent

\* The token was redeemed and nobody has, or will store, what it bought.
Lost(k) ==
  /\ k \in spent /\ file # k
  /\ \A p \in Processes : ~(pc[p] = "got" /\ token[p] = k)

\* A lost credential stays lost, however often agents restart and ask again
\* (setup.md: "If enrollment succeeded on the server but its response or local
\* credential write was lost, the one-time token cannot be replayed").
LostStaysLost == [][\A k \in Tokens : Lost(k) => Lost(k)']_vars

\* The server will never redeem the token.
Dead(k) == k \in void /\ k \notin spent

\* Every token ends well or visibly badly, if the operator does not leave the
\* service stopped: its credential is stored, or lost, or the server has turned
\* the token down for good before it was redeemed, or it has been replaced.
\* Requests that fail, processes that are killed and agents that compete for
\* the lock do not leave it undecided.
EnrollmentSettles ==
  \A k \in Tokens :
    <>[](pc[Service] # "off") => (issued = k ~> file = k \/ Lost(k) \/ Dead(k) \/ issued > k)

\* Within the life of an identity the journal on disk only advances: no
\* process overwrites what another one has saved (main.go: "Two local agents
\* must never race enrollment or independently overwrite the revision journal").
JournalNeverGoesBack == [][issued' = issued => journal' >= journal]_vars
=============================================================================
