------------------------------ MODULE Identity ------------------------------
(***************************************************************************)
(* Who may talk to the server without being an administrator: agent        *)
(* identities, their one-time enrollment tokens and runtime credentials,   *)
(* and write credentials.  Handlers of Server.route, deleteAgent and       *)
(* manageWriteCredentials that commit, one transaction each, behind        *)
(* administrator authentication except for Enroll.                         *)
(*                                                                         *)
(* security.Token draws 32 random bytes.  Draws never repeat, so a draw is *)
(* the next number of a counter, and ids, enrollment tokens, runtime and   *)
(* writer tokens all come from the same source.  The tables hold hashes of *)
(* tokens only.                                                            *)
(***************************************************************************)
EXTENDS Integers, FiniteSets, Records

CONSTANTS
  Rules,      \* path rules that ValidateRules accepts
  MaxDraws,   \* bound on random draws, for model checking
  MaxTime,    \* bound on the clock, for model checking
  MaxTTL      \* longest enrollment lifetime (86400 seconds in the code)

ASSUME BoundsAssumption == MaxDraws \in Nat /\ MaxTime \in Nat /\ MaxTTL \in Nat

VARIABLES
  agents,         \* id -> [paths, hash, revoked]
  credentials,    \* hash of runtime token -> agent id
  enrollment,     \* hash of enrollment token -> [agent, expires, used]
  writers,        \* id -> [paths, hash, revoked, allowCreate]
  writerTokens,   \* hash of writer token -> writer id
  now,            \* wall clock
  draws,          \* number of random draws made
  grants          \* ghost: runtime tokens handed out, with what was paid for them

tables == <<agents, credentials, enrollment, writers, writerTokens>>
vars == <<agents, credentials, enrollment, writers, writerTokens, now, draws, grants>>

\* SHA-256, collision free: a hash is not a token and names exactly one.
Hash(token) == <<"sha256", token>>

\* The empty string of an agent that has not enrolled.
NoHash == <<>>

\* The i-th draw of the handler that is running.
Draw(i) == draws + i

Drawn == 1..draws

Init ==
  /\ agents = NoRows /\ credentials = NoRows /\ enrollment = NoRows
  /\ writers = NoRows /\ writerTokens = NoRows
  /\ now = 0
  /\ draws = 0
  /\ grants = {}

Tick ==
  /\ now < MaxTime
  /\ now' = now + 1
  /\ UNCHANGED <<tables, draws, grants>>

(***************************************************************************)
(* Authentication.                                                         *)
(***************************************************************************)

\* authenticateAgent accepts the bearer token.
AuthenticatesAgent(t) ==
  /\ Has(credentials, Hash(t))
  /\ LET id == credentials[Hash(t)]
     IN  /\ Has(agents, id)
         /\ ~agents[id].revoked
         /\ agents[id].hash = Hash(t)

\* Mutant: a token found in the agents' index is good enough for writing.
AuthenticatesWriterShared(t) ==
  \/ AuthenticatesAgent(t)
  \/ /\ Has(writerTokens, Hash(t))
     /\ Has(writers, writerTokens[Hash(t)])
     /\ ~writers[writerTokens[Hash(t)]].revoked

\* authenticateWriter accepts the bearer token.
AuthenticatesWriter(t) ==
  /\ Has(writerTokens, Hash(t))
  /\ LET id == writerTokens[Hash(t)]
     IN  /\ Has(writers, id)
         /\ ~writers[id].revoked
         /\ writers[id].hash = Hash(t)

\* The agent an enrollment row stands for may still enroll.
MayEnroll(id) == Has(agents, id) /\ ~agents[id].revoked /\ agents[id].hash = NoHash

\* /enroll accepts the token.
Redeemable(t) ==
  /\ Has(enrollment, Hash(t))
  /\ ~enrollment[Hash(t)].used
  /\ now < enrollment[Hash(t)].expires
  /\ MayEnroll(enrollment[Hash(t)].agent)

(***************************************************************************)
(* Agents.                                                                 *)
(***************************************************************************)

CreateAgent(paths) ==
  /\ draws + 1 <= MaxDraws
  /\ draws' = draws + 1
  /\ agents' = Put(agents, Draw(1), [paths |-> paths, hash |-> NoHash, revoked |-> FALSE])
  /\ UNCHANGED <<credentials, enrollment, writers, writerTokens, now, grants>>

\* PUT agents/<id>: works on a revoked agent and leaves it revoked.
PutAgentPaths(id, paths) ==
  /\ Has(agents, id)
  /\ agents' = Put(agents, id, [agents[id] EXCEPT !.paths = paths])
  /\ UNCHANGED <<credentials, enrollment, writers, writerTokens, now, draws, grants>>

\* Mutant: revocation leaves the runtime token in the index.
RevokeAgentKeepIndex(id) ==
  /\ Has(agents, id)
  /\ agents' = Put(agents, id, [agents[id] EXCEPT !.revoked = TRUE])
  /\ UNCHANGED <<credentials, enrollment, writers, writerTokens, now, draws, grants>>

\* DELETE agents/<id>: the row stays, its runtime token leaves the index, its
\* enrollment tokens stay.
RevokeAgent(id) ==
  /\ Has(agents, id)
  /\ agents' = Put(agents, id, [agents[id] EXCEPT !.revoked = TRUE])
  /\ credentials' = IF agents[id].hash # NoHash
                    THEN Delete(credentials, agents[id].hash) ELSE credentials
  /\ UNCHANGED <<enrollment, writers, writerTokens, now, draws, grants>>

\* The enrollment rows of one agent, used and expired ones too.
EnrollmentsOf(id) == {h \in DOMAIN enrollment : enrollment[h].agent = id}

\* Mutant: a purge removes only the tokens that were not redeemed.
PurgeAgentUnused(id) ==
  /\ Has(agents, id)
  /\ enrollment' = DeleteAll(enrollment, {h \in EnrollmentsOf(id) : ~enrollment[h].used})
  /\ credentials' = IF agents[id].hash # NoHash
                    THEN Delete(credentials, agents[id].hash) ELSE credentials
  /\ agents' = Delete(agents, id)
  /\ UNCHANGED <<writers, writerTokens, now, draws, grants>>

\* DELETE agents/<id>/purge.
PurgeAgent(id) ==
  /\ Has(agents, id)
  /\ enrollment' = DeleteAll(enrollment, EnrollmentsOf(id))
  /\ credentials' = IF agents[id].hash # NoHash
                    THEN Delete(credentials, agents[id].hash) ELSE credentials
  /\ agents' = Delete(agents, id)
  /\ UNCHANGED <<writers, writerTokens, now, draws, grants>>

(***************************************************************************)
(* Enrollment.                                                             *)
(***************************************************************************)

\* POST enrollment.  Several tokens may be outstanding for one agent.  The id
\* of the row is another draw; the id finds the row that the hash finds.
CreateEnrollment(id, ttl) ==
  /\ draws + 1 <= MaxDraws
  /\ MayEnroll(id)
  /\ draws' = draws + 1
  /\ enrollment' = Put(enrollment, Hash(Draw(1)),
                       [agent |-> id, expires |-> now + ttl, used |-> FALSE])
  /\ UNCHANGED <<agents, credentials, writers, writerTokens, now, grants>>

\* DELETE enrollment/<id>: used and expired rows as well.
DeleteEnrollment(h) ==
  /\ Has(enrollment, h)
  /\ enrollment' = Delete(enrollment, h)
  /\ UNCHANGED <<agents, credentials, writers, writerTokens, now, draws, grants>>

\* The writes of a redemption that makes runtime the agent's credential.
Redeem(t, runtime) ==
  LET id == enrollment[Hash(t)].agent
  IN  /\ agents' = Put(agents, id, [agents[id] EXCEPT !.hash = Hash(runtime)])
      /\ credentials' = Put(credentials, Hash(runtime), id)
      /\ enrollment' = Put(enrollment, Hash(t), [enrollment[Hash(t)] EXCEPT !.used = TRUE])
      /\ grants' = grants \cup {[agent |-> id, paid |-> t, token |-> runtime]}
      /\ UNCHANGED <<writers, writerTokens, now>>

\* Mutant: an enrolled agent may redeem a second token.
EnrollAgain(t) ==
  /\ draws + 1 <= MaxDraws
  /\ Has(enrollment, Hash(t)) /\ ~enrollment[Hash(t)].used
  /\ now < enrollment[Hash(t)].expires
  /\ Has(agents, enrollment[Hash(t)].agent) /\ ~agents[enrollment[Hash(t)].agent].revoked
  /\ draws' = draws + 1
  /\ Redeem(t, Draw(1))

\* Mutant: a revoked agent may still redeem its outstanding token.
EnrollRevoked(t) ==
  /\ draws + 1 <= MaxDraws
  /\ Has(enrollment, Hash(t)) /\ ~enrollment[Hash(t)].used
  /\ now < enrollment[Hash(t)].expires
  /\ Has(agents, enrollment[Hash(t)].agent) /\ agents[enrollment[Hash(t)].agent].hash = NoHash
  /\ draws' = draws + 1
  /\ Redeem(t, Draw(1))

\* POST /enroll, by anyone who holds the token.
Enroll(t) ==
  /\ draws + 1 <= MaxDraws
  /\ Redeemable(t)
  /\ draws' = draws + 1
  /\ Redeem(t, Draw(1))

(***************************************************************************)
(* Write credentials.                                                      *)
(***************************************************************************)

\* POST write-credentials: the row and its token index, in one transaction.
CreateWriter(paths, allowCreate) ==
  /\ draws + 2 <= MaxDraws
  /\ draws' = draws + 2
  /\ writers' = Put(writers, Draw(2), [paths |-> paths, hash |-> Hash(Draw(1)),
                                       revoked |-> FALSE, allowCreate |-> allowCreate])
  /\ writerTokens' = Put(writerTokens, Hash(Draw(1)), Draw(2))
  /\ UNCHANGED <<agents, credentials, enrollment, now, grants>>

\* Mutant: an edit clears the revocation of the row it rewrites.
PutWriterRevives(id, paths, allowCreate) ==
  /\ Has(writers, id)
  /\ writers' = Put(writers, id, [paths |-> paths, hash |-> writers[id].hash,
                                   revoked |-> FALSE, allowCreate |-> allowCreate])
  /\ writerTokens' = Put(writerTokens, writers[id].hash, id)
  /\ UNCHANGED <<agents, credentials, enrollment, now, draws, grants>>

\* PUT write-credentials/<id>: an omitted field keeps its old value, so every
\* pair of new fields is possible.  Works on a revoked credential.
PutWriter(id, paths, allowCreate) ==
  /\ Has(writers, id)
  /\ writers' = Put(writers, id, [paths |-> paths, hash |-> writers[id].hash,
                                   revoked |-> writers[id].revoked, allowCreate |-> allowCreate])
  /\ UNCHANGED <<agents, credentials, enrollment, writerTokens, now, draws, grants>>

\* Mutant: revocation marks the row and forgets the token index.
RevokeWriterKeepIndex(id) ==
  /\ Has(writers, id)
  /\ writers' = Put(writers, id, [writers[id] EXCEPT !.revoked = TRUE])
  /\ UNCHANGED <<agents, credentials, enrollment, writerTokens, now, draws, grants>>

\* DELETE write-credentials/<id>: the row stays, revoked.
RevokeWriter(id) ==
  /\ Has(writers, id)
  /\ writers' = Put(writers, id, [writers[id] EXCEPT !.revoked = TRUE])
  /\ writerTokens' = Delete(writerTokens, writers[id].hash)
  /\ UNCHANGED <<agents, credentials, enrollment, now, draws, grants>>

Next ==
  \/ Tick
  \/ \E paths \in SUBSET Rules : CreateAgent(paths)
  \/ \E id \in Drawn, paths \in SUBSET Rules : PutAgentPaths(id, paths)
  \/ \E id \in Drawn : RevokeAgent(id)
  \/ \E id \in Drawn : PurgeAgent(id)
  \/ \E id \in Drawn, ttl \in 1..MaxTTL : CreateEnrollment(id, ttl)
  \/ \E t \in Drawn : DeleteEnrollment(Hash(t))
  \/ \E t \in Drawn : Enroll(t)
  \/ \E paths \in SUBSET Rules, c \in BOOLEAN : CreateWriter(paths, c)
  \/ \E id \in Drawn, paths \in SUBSET Rules, c \in BOOLEAN : PutWriter(id, paths, c)
  \/ \E id \in Drawn : RevokeWriter(id)

Spec == Init /\ [][Next]_vars

(***************************************************************************)
(* Properties.                                                             *)
(***************************************************************************)

Hashes == {Hash(t) : t \in Drawn}

AgentRow == [paths : SUBSET Rules, hash : Hashes \cup {NoHash}, revoked : BOOLEAN]
EnrollmentRow == [agent : Drawn, expires : Nat, used : BOOLEAN]
WriterRow == [paths : SUBSET Rules, hash : Hashes, revoked : BOOLEAN, allowCreate : BOOLEAN]
Grant == [agent : Drawn, paid : Drawn, token : Drawn]

TypeOK ==
  /\ draws \in 0..MaxDraws
  /\ now \in 0..MaxTime
  /\ DOMAIN agents \subseteq Drawn
  /\ \A id \in DOMAIN agents : agents[id] \in AgentRow
  /\ DOMAIN credentials \subseteq Hashes
  /\ \A h \in DOMAIN credentials : credentials[h] \in Drawn
  /\ DOMAIN enrollment \subseteq Hashes
  /\ \A h \in DOMAIN enrollment : enrollment[h] \in EnrollmentRow
  /\ DOMAIN writers \subseteq Drawn
  /\ \A id \in DOMAIN writers : writers[id] \in WriterRow
  /\ DOMAIN writerTokens \subseteq Hashes
  /\ \A h \in DOMAIN writerTokens : writerTokens[h] \in Drawn
  /\ grants \subseteq Grant

\* The runtime token index and the agent rows agree: the index holds exactly
\* the hashes of enrolled agents that are neither revoked nor purged.
CredentialIndexExact ==
  /\ \A h \in DOMAIN credentials :
       /\ Has(agents, credentials[h])
       /\ agents[credentials[h]].hash = h
       /\ ~agents[credentials[h]].revoked
  /\ \A id \in DOMAIN agents : agents[id].hash # NoHash /\ ~agents[id].revoked =>
       Has(credentials, agents[id].hash) /\ credentials[agents[id].hash] = id

\* The writer token index holds exactly the tokens of unrevoked writers.
WriterIndexExact ==
  /\ \A h \in DOMAIN writerTokens :
       /\ Has(writers, writerTokens[h])
       /\ writers[writerTokens[h]].hash = h
       /\ ~writers[writerTokens[h]].revoked
  /\ \A id \in DOMAIN writers : ~writers[id].revoked =>
       Has(writerTokens, writers[id].hash) /\ writerTokens[writers[id].hash] = id

\* No enrollment row outlives its agent, and a row marked used belongs to an
\* agent that holds a credential (deleteAgent: "all of its enrollment tokens").
EnrollmentsHaveAgents ==
  \A h \in DOMAIN enrollment :
    /\ Has(agents, enrollment[h].agent)
    /\ enrollment[h].used => agents[enrollment[h].agent].hash # NoHash

\* Over the whole life of the server an identity receives at most one runtime
\* token and an enrollment token buys at most one, however many tokens were
\* outstanding, and in whatever order they were redeemed, deleted or revoked.
OneCredentialEach ==
  \A g, h \in grants : g.agent = h.agent \/ g.paid = h.paid \/ g.token = h.token => g = h

\* The two facts that make OneCredentialEach inductive: a row whose token
\* bought a credential is used or gone, and the buyer, while it has a row,
\* holds exactly that credential (Enroll writes all three rows together).
GrantsAreSpent ==
  \A g \in grants :
    /\ Has(agents, g.agent) => agents[g.agent].hash = Hash(g.token)
    /\ Has(enrollment, Hash(g.paid)) => enrollment[Hash(g.paid)].used

\* No token is good for two purposes: agent API, write API, enrollment.
TokensHaveOnePurpose ==
  \A t \in Drawn :
    /\ ~(AuthenticatesAgent(t) /\ AuthenticatesWriter(t))
    /\ ~(AuthenticatesAgent(t) /\ Redeemable(t))
    /\ ~(AuthenticatesWriter(t) /\ Redeemable(t))

\* A token that has been handed out and is refused stays refused: revocation,
\* purge, expiry and redemption cannot be undone by any later request.
RefusedStaysRefused ==
  [][\A t \in Drawn :
       /\ ~AuthenticatesAgent(t) => ~AuthenticatesAgent(t)'
       /\ ~AuthenticatesWriter(t) => ~AuthenticatesWriter(t)'
       /\ ~Redeemable(t) => ~Redeemable(t)']_vars

\* A revoked agent stays revoked until its row is purged and never receives a
\* credential, even with an unexpired enrollment token outstanding.
RevocationIsFinal ==
  [][\A id \in DOMAIN agents : agents[id].revoked /\ Has(agents', id) =>
       agents'[id].revoked /\ agents'[id].hash = agents[id].hash]_vars
=============================================================================
