--------------------------- MODULE IdentityProofs ---------------------------
(***************************************************************************)
(* Proofs about Identity for every set of rules and every bound on draws,  *)
(* time and lifetimes.  Freshness of the draws does the work: a table only *)
(* ever gains the hash of a number above all the numbers it mentions.      *)
(* The second part is about strings: what a path rule grants, for paths    *)
(* and rules of any length, and with it what a token opens.                *)
(***************************************************************************)
EXTENDS AgentAccess, TLAPS, FiniteSetTheorems, NaturalsInduction, WellFoundedInduction

\* The three token tables share no hash.
TokenTablesDisjoint ==
  /\ DOMAIN credentials \cap DOMAIN writerTokens = {}
  /\ DOMAIN credentials \cap DOMAIN enrollment = {}
  /\ DOMAIN writerTokens \cap DOMAIN enrollment = {}

\* No two agents and no two writers, revoked ones included, share a hash.
HashesUnique ==
  /\ \A i, j \in DOMAIN agents :
       agents[i].hash = agents[j].hash /\ agents[i].hash # NoHash => i = j
  /\ \A i, j \in DOMAIN writers : writers[i].hash = writers[j].hash => i = j

Inv ==
  /\ TypeOK
  /\ CredentialIndexExact
  /\ WriterIndexExact
  /\ EnrollmentsHaveAgents
  /\ GrantsAreSpent
  /\ OneCredentialEach
  /\ TokenTablesDisjoint
  /\ HashesUnique

\* Hashes name their token and are never the empty string.
LEMMA HashFacts ==
  /\ \A a, b : Hash(a) = Hash(b) => a = b
  /\ \A a : Hash(a) # NoHash
  BY DEF Hash, NoHash

\* The draws made so far are below the next ones.
LEMMA DrawFacts ==
  ASSUME TypeOK
  PROVE  /\ draws \in Nat
         /\ Draw(1) \notin Drawn /\ Draw(2) \notin Drawn /\ Draw(1) # Draw(2)
         /\ Hash(Draw(1)) \notin Hashes
<1>1. draws \in Nat
  BY BoundsAssumption DEF TypeOK
<1>2. Draw(1) \notin Drawn /\ Draw(2) \notin Drawn /\ Draw(1) # Draw(2)
  BY <1>1 DEF Draw, Drawn
<1> QED
  BY <1>1, <1>2, HashFacts DEF Hashes

\* One draw adds one number and one hash.
LEMMA OneDraw ==
  ASSUME TypeOK, draws' = draws + 1, draws + 1 <= MaxDraws
  PROVE  /\ draws' \in 0..MaxDraws
         /\ Drawn' = Drawn \cup {Draw(1)}
         /\ Hashes' = Hashes \cup {Hash(Draw(1))}
<1>1. draws' \in 0..MaxDraws /\ Drawn' = Drawn \cup {Draw(1)}
  BY BoundsAssumption DEF TypeOK, Drawn, Draw
<1> QED
  BY <1>1 DEF Hashes

\* Two draws add two of each.
LEMMA TwoDraws ==
  ASSUME TypeOK, draws' = draws + 2, draws + 2 <= MaxDraws
  PROVE  /\ draws' \in 0..MaxDraws
         /\ Drawn' = Drawn \cup {Draw(1), Draw(2)}
         /\ Hashes' = Hashes \cup {Hash(Draw(1)), Hash(Draw(2))}
<1>1. draws' \in 0..MaxDraws /\ Drawn' = Drawn \cup {Draw(1), Draw(2)}
  BY BoundsAssumption DEF TypeOK, Drawn, Draw
<1> QED
  BY <1>1 DEF Hashes

\* No draw: the sets stay.
LEMMA NoDraw ==
  ASSUME UNCHANGED draws
  PROVE  /\ Drawn' = Drawn /\ Hashes' = Hashes
         /\ UNCHANGED <<AgentRow, EnrollmentRow, WriterRow, Grant>>
<1>1. Drawn' = Drawn
  BY DEF Drawn
<1>2. Hashes' = Hashes
  BY <1>1 DEF Hashes
<1> QED BY <1>1, <1>2 DEF AgentRow, EnrollmentRow, WriterRow, Grant

\* A row that had its type keeps it when more has been drawn.
LEMMA RowsGrow ==
  ASSUME Drawn \subseteq Drawn', Hashes \subseteq Hashes'
  PROVE  /\ AgentRow \subseteq AgentRow' /\ EnrollmentRow \subseteq EnrollmentRow'
         /\ WriterRow \subseteq WriterRow' /\ Grant \subseteq Grant'
<1>1. AgentRow \subseteq AgentRow'
  BY DEF AgentRow
<1>2. EnrollmentRow \subseteq EnrollmentRow'
  BY DEF EnrollmentRow
<1>3. WriterRow \subseteq WriterRow'
  BY DEF WriterRow
<1>4. Grant \subseteq Grant'
  BY DEF Grant
<1> QED BY <1>1, <1>2, <1>3, <1>4

\* The empty tables satisfy the invariant.
LEMMA InitInv == Init => Inv
  BY BoundsAssumption DEF Init, Inv, TypeOK, CredentialIndexExact, WriterIndexExact,
     EnrollmentsHaveAgents, GrantsAreSpent, OneCredentialEach, TokenTablesDisjoint, HashesUnique,
     NoRows

\* The clock: only expiry moves, and no part of Inv reads it.
LEMMA TickStep == ASSUME Inv, Tick PROVE Inv'
<1>1. TypeOK'
  BY NoDraw, BoundsAssumption DEF Tick, tables, Inv, TypeOK
<1> QED
  BY <1>1 DEF Tick, tables, Inv, CredentialIndexExact, WriterIndexExact,
     EnrollmentsHaveAgents, GrantsAreSpent, OneCredentialEach, TokenTablesDisjoint, HashesUnique,
     Has

(***************************************************************************)
(* Agents.                                                                 *)
(***************************************************************************)

\* A new agent row has no hash and no enrollment token.
LEMMA CreateAgentStep ==
  ASSUME Inv, NEW paths \in SUBSET Rules, CreateAgent(paths)
  PROVE  Inv'
<1> DEFINE row == [paths |-> paths, hash |-> NoHash, revoked |-> FALSE]
<1>1. /\ draws' \in 0..MaxDraws
      /\ Drawn' = Drawn \cup {Draw(1)}
      /\ Hashes' = Hashes \cup {Hash(Draw(1))}
      /\ Draw(1) \notin Drawn
  BY OneDraw, DrawFacts DEF Inv, CreateAgent
<1>2. /\ DOMAIN agents' = DOMAIN agents \cup {Draw(1)}
      /\ agents'[Draw(1)] = row
      /\ \A i \in DOMAIN agents : i # Draw(1) /\ agents'[i] = agents[i]
      /\ UNCHANGED <<credentials, enrollment, writers, writerTokens, now, grants>>
  BY <1>1 DEF CreateAgent, Put, Inv, TypeOK
<1>3. TypeOK'
  <2>1. row \in AgentRow'
    BY DEF AgentRow
  <2> QED BY <1>1, <1>2, <2>1, RowsGrow DEF Inv, TypeOK
<1>4. CredentialIndexExact'
  BY <1>1, <1>2 DEF Inv, TypeOK, CredentialIndexExact, Has
<1>5. EnrollmentsHaveAgents'
  BY <1>1, <1>2 DEF Inv, TypeOK, EnrollmentsHaveAgents, Has
<1>6. GrantsAreSpent'
  BY <1>1, <1>2 DEF Inv, TypeOK, Grant, GrantsAreSpent, Has
<1>7. HashesUnique'
  BY <1>2 DEF Inv, HashesUnique
<1>8. WriterIndexExact' /\ OneCredentialEach' /\ TokenTablesDisjoint'
  BY <1>2 DEF Inv, WriterIndexExact, OneCredentialEach, TokenTablesDisjoint, Has
<1> QED BY <1>3, <1>4, <1>5, <1>6, <1>7, <1>8 DEF Inv

\* New paths leave hash and revocation of the row alone.
LEMMA PutAgentPathsStep ==
  ASSUME Inv, NEW id, NEW paths \in SUBSET Rules, PutAgentPaths(id, paths)
  PROVE  Inv'
<1>1. Drawn' = Drawn /\ Hashes' = Hashes /\ UNCHANGED <<AgentRow, EnrollmentRow, WriterRow, Grant>>
  BY NoDraw DEF PutAgentPaths
<1>2. /\ id \in DOMAIN agents
      /\ DOMAIN agents' = DOMAIN agents
      /\ agents'[id] = [agents[id] EXCEPT !.paths = paths]
      /\ \A i \in DOMAIN agents : i # id => agents'[i] = agents[i]
      /\ UNCHANGED <<credentials, enrollment, writers, writerTokens, now, draws, grants>>
  BY DEF PutAgentPaths, Put, Has
<1>3. /\ agents'[id] \in AgentRow
      /\ \A i \in DOMAIN agents :
           agents'[i].hash = agents[i].hash /\ agents'[i].revoked = agents[i].revoked
  BY <1>2 DEF Inv, TypeOK, AgentRow
<1>4. TypeOK'
  BY <1>1, <1>2, <1>3 DEF Inv, TypeOK
<1>5. CredentialIndexExact' /\ EnrollmentsHaveAgents' /\ GrantsAreSpent' /\ HashesUnique'
  BY <1>2, <1>3 DEF Inv, CredentialIndexExact, EnrollmentsHaveAgents, GrantsAreSpent,
     HashesUnique, Has
<1>6. WriterIndexExact' /\ OneCredentialEach' /\ TokenTablesDisjoint'
  BY <1>2 DEF Inv, WriterIndexExact, OneCredentialEach, TokenTablesDisjoint, Has
<1> QED BY <1>4, <1>5, <1>6 DEF Inv

\* Deleting an agent's runtime token from the index removes the rows of that
\* agent and no other row.
LEMMA IndexWithout ==
  ASSUME Inv, NEW id \in DOMAIN agents,
         credentials' = IF agents[id].hash # NoHash THEN Delete(credentials, agents[id].hash)
                                                    ELSE credentials
  PROVE  /\ DOMAIN credentials' = {h \in DOMAIN credentials : credentials[h] # id}
         /\ \A h \in DOMAIN credentials' : credentials'[h] = credentials[h]
<1>1. \A h \in DOMAIN credentials : h # NoHash
  BY HashFacts DEF Inv, TypeOK, Hashes
<1>2. \A h \in DOMAIN credentials : credentials[h] = id => h = agents[id].hash
  BY DEF Inv, CredentialIndexExact
<1>3. \A h \in DOMAIN credentials : h = agents[id].hash => credentials[h] = id
  BY <1>1 DEF Inv, CredentialIndexExact, HashesUnique, Has
<1>4. CASE agents[id].hash # NoHash
  BY <1>2, <1>3, <1>4 DEF Delete
<1>5. CASE agents[id].hash = NoHash
  BY <1>1, <1>2, <1>5
<1> QED BY <1>4, <1>5

\* Revocation takes the runtime hash out of the index with the row.
LEMMA RevokeAgentStep ==
  ASSUME Inv, NEW id, RevokeAgent(id)
  PROVE  Inv'
<1>1. Drawn' = Drawn /\ Hashes' = Hashes /\ UNCHANGED <<AgentRow, EnrollmentRow, WriterRow, Grant>>
  BY NoDraw DEF RevokeAgent
<1>2. /\ id \in DOMAIN agents
      /\ DOMAIN agents' = DOMAIN agents
      /\ agents'[id] = [agents[id] EXCEPT !.revoked = TRUE]
      /\ \A i \in DOMAIN agents : i # id => agents'[i] = agents[i]
      /\ UNCHANGED <<enrollment, writers, writerTokens, now, draws, grants>>
  BY DEF RevokeAgent, Put, Has
<1>3. /\ agents'[id] \in AgentRow
      /\ agents'[id].revoked = TRUE
      /\ \A i \in DOMAIN agents : agents'[i].hash = agents[i].hash
      /\ \A i \in DOMAIN agents : i # id => agents'[i].revoked = agents[i].revoked
  BY <1>2 DEF Inv, TypeOK, AgentRow
<1>4. /\ DOMAIN credentials' = {h \in DOMAIN credentials : credentials[h] # id}
      /\ \A h \in DOMAIN credentials' : credentials'[h] = credentials[h]
  BY <1>2, IndexWithout DEF RevokeAgent
<1>5. TypeOK'
  BY <1>1, <1>2, <1>3, <1>4 DEF Inv, TypeOK
<1>6. CredentialIndexExact'
  <2>1. ASSUME NEW h \in DOMAIN credentials'
        PROVE  /\ credentials'[h] \in DOMAIN agents'
               /\ agents'[credentials'[h]].hash = h
               /\ ~agents'[credentials'[h]].revoked
    BY <1>2, <1>3, <1>4, <2>1 DEF Inv, CredentialIndexExact, Has
  <2>2. ASSUME NEW i \in DOMAIN agents', agents'[i].hash # NoHash, ~agents'[i].revoked
        PROVE  agents'[i].hash \in DOMAIN credentials' /\ credentials'[agents'[i].hash] = i
    <3>1. i \in DOMAIN agents /\ i # id /\ agents'[i] = agents[i]
      BY <1>2, <1>3, <2>2
    <3>2. agents[i].hash \in DOMAIN credentials /\ credentials[agents[i].hash] = i
      BY <2>2, <3>1 DEF Inv, CredentialIndexExact, Has
    <3> QED BY <1>4, <3>1, <3>2
  <2> QED BY <2>1, <2>2 DEF CredentialIndexExact, Has
<1>7. EnrollmentsHaveAgents' /\ GrantsAreSpent' /\ HashesUnique'
  BY <1>2, <1>3 DEF Inv, EnrollmentsHaveAgents, GrantsAreSpent, HashesUnique, Has
<1>8. WriterIndexExact' /\ OneCredentialEach' /\ TokenTablesDisjoint'
  BY <1>2, <1>4 DEF Inv, WriterIndexExact, OneCredentialEach, TokenTablesDisjoint, Has
<1> QED BY <1>5, <1>6, <1>7, <1>8 DEF Inv

\* A purge takes every enrollment row of the agent with it.
LEMMA PurgeAgentStep ==
  ASSUME Inv, NEW id, PurgeAgent(id)
  PROVE  Inv'
<1>1. Drawn' = Drawn /\ Hashes' = Hashes /\ UNCHANGED <<AgentRow, EnrollmentRow, WriterRow, Grant>>
  BY NoDraw DEF PurgeAgent
<1>2. /\ id \in DOMAIN agents
      /\ DOMAIN agents' = DOMAIN agents \ {id}
      /\ \A i \in DOMAIN agents' : agents'[i] = agents[i]
      /\ DOMAIN enrollment' = {h \in DOMAIN enrollment : enrollment[h].agent # id}
      /\ \A h \in DOMAIN enrollment' : enrollment'[h] = enrollment[h]
      /\ UNCHANGED <<writers, writerTokens, now, draws, grants>>
  BY DEF PurgeAgent, Delete, DeleteAll, EnrollmentsOf, Has
<1>3. /\ DOMAIN credentials' = {h \in DOMAIN credentials : credentials[h] # id}
      /\ \A h \in DOMAIN credentials' : credentials'[h] = credentials[h]
  BY <1>2, IndexWithout DEF PurgeAgent
<1>4. TypeOK'
  BY <1>1, <1>2, <1>3 DEF Inv, TypeOK
<1>5. CredentialIndexExact'
  BY <1>2, <1>3 DEF Inv, CredentialIndexExact, Has
<1>6. EnrollmentsHaveAgents' /\ GrantsAreSpent' /\ HashesUnique'
  BY <1>2 DEF Inv, EnrollmentsHaveAgents, GrantsAreSpent, HashesUnique, Has
<1>7. WriterIndexExact' /\ OneCredentialEach' /\ TokenTablesDisjoint'
  BY <1>2, <1>3 DEF Inv, WriterIndexExact, OneCredentialEach, TokenTablesDisjoint, Has
<1> QED BY <1>4, <1>5, <1>6, <1>7 DEF Inv

(***************************************************************************)
(* Enrollment.                                                             *)
(***************************************************************************)

\* A new enrollment row is unused and its agent has no credential.
LEMMA CreateEnrollmentStep ==
  ASSUME Inv, NEW id, NEW ttl \in 1..MaxTTL, CreateEnrollment(id, ttl)
  PROVE  Inv'
<1> DEFINE row == [agent |-> id, expires |-> now + ttl, used |-> FALSE]
           hash == Hash(Draw(1))
<1>1. /\ draws' \in 0..MaxDraws
      /\ Drawn' = Drawn \cup {Draw(1)}
      /\ Hashes' = Hashes \cup {hash}
      /\ hash \notin Hashes
  BY OneDraw, DrawFacts DEF Inv, CreateEnrollment
<1>2. id \in DOMAIN agents /\ id \in Drawn
  BY DEF CreateEnrollment, MayEnroll, Has, Inv, TypeOK
<1>3. /\ DOMAIN enrollment' = DOMAIN enrollment \cup {hash}
      /\ enrollment'[hash] = row
      /\ \A h \in DOMAIN enrollment : h # hash /\ enrollment'[h] = enrollment[h]
      /\ UNCHANGED <<agents, credentials, writers, writerTokens, now, grants>>
  BY <1>1 DEF CreateEnrollment, Put, Inv, TypeOK
<1>4. row.agent = id /\ row.used = FALSE /\ row \in EnrollmentRow'
  <2>1. now + ttl \in Nat
    BY BoundsAssumption DEF Inv, TypeOK
  <2> QED BY <1>1, <1>2, <2>1 DEF EnrollmentRow
<1> HIDE DEF row, hash
<1>5. TypeOK'
  BY <1>1, <1>3, <1>4, RowsGrow DEF Inv, TypeOK
<1>6. EnrollmentsHaveAgents'
  BY <1>2, <1>3, <1>4 DEF Inv, EnrollmentsHaveAgents, Has
<1>7. GrantsAreSpent'
  <2>1. \A g \in grants : Hash(g.paid) \in Hashes
    BY DEF Inv, TypeOK, Grant, Hashes
  <2> QED BY <1>1, <1>3, <2>1 DEF Inv, GrantsAreSpent, Has
<1>8. TokenTablesDisjoint'
  BY <1>1, <1>3 DEF Inv, TypeOK, TokenTablesDisjoint
<1>9. CredentialIndexExact' /\ WriterIndexExact' /\ OneCredentialEach' /\ HashesUnique'
  BY <1>3 DEF Inv, CredentialIndexExact, WriterIndexExact, OneCredentialEach, HashesUnique, Has
<1> QED BY <1>5, <1>6, <1>7, <1>8, <1>9 DEF Inv

\* A deleted enrollment row takes nothing else with it.
LEMMA DeleteEnrollmentStep ==
  ASSUME Inv, NEW h, DeleteEnrollment(h)
  PROVE  Inv'
<1>1. Drawn' = Drawn /\ Hashes' = Hashes /\ UNCHANGED <<AgentRow, EnrollmentRow, WriterRow, Grant>>
  BY NoDraw DEF DeleteEnrollment
<1>2. /\ DOMAIN enrollment' = DOMAIN enrollment \ {h}
      /\ \A k \in DOMAIN enrollment' : enrollment'[k] = enrollment[k]
      /\ UNCHANGED <<agents, credentials, writers, writerTokens, now, draws, grants>>
  BY DEF DeleteEnrollment, Delete
<1>3. TypeOK'
  BY <1>1, <1>2 DEF Inv, TypeOK
<1>4. EnrollmentsHaveAgents' /\ GrantsAreSpent' /\ TokenTablesDisjoint'
  BY <1>2 DEF Inv, EnrollmentsHaveAgents, GrantsAreSpent, TokenTablesDisjoint, Has
<1>5. CredentialIndexExact' /\ WriterIndexExact' /\ OneCredentialEach' /\ HashesUnique'
  BY <1>2 DEF Inv, CredentialIndexExact, WriterIndexExact, OneCredentialEach, HashesUnique, Has
<1> QED BY <1>3, <1>4, <1>5 DEF Inv

\* A redemption: the three rows and the grant change together, under a
\* fresh hash, and the agent had no grant before because it had no hash.
LEMMA EnrollStep ==
  ASSUME Inv, NEW t \in Drawn, Enroll(t)
  PROVE  Inv'
<1> DEFINE id == enrollment[Hash(t)].agent
           runtime == Draw(1)
           hash == Hash(runtime)
           g0 == [agent |-> id, paid |-> t, token |-> runtime]
<1>1. /\ draws' \in 0..MaxDraws
      /\ Drawn' = Drawn \cup {runtime}
      /\ Hashes' = Hashes \cup {hash}
      /\ hash \notin Hashes /\ runtime \notin Drawn /\ hash # NoHash
  BY OneDraw, DrawFacts, HashFacts DEF Inv, Enroll
<1>2. /\ Hash(t) \in DOMAIN enrollment /\ enrollment[Hash(t)].used = FALSE
      /\ id \in DOMAIN agents /\ id \in Drawn
      /\ agents[id].hash = NoHash /\ agents[id].revoked = FALSE
  BY DEF Enroll, Redeemable, MayEnroll, Has, Inv, TypeOK, AgentRow, EnrollmentRow
<1>3. /\ DOMAIN agents' = DOMAIN agents
      /\ agents'[id] = [agents[id] EXCEPT !.hash = hash]
      /\ \A i \in DOMAIN agents : i # id => agents'[i] = agents[i]
      /\ DOMAIN credentials' = DOMAIN credentials \cup {hash}
      /\ credentials'[hash] = id
      /\ \A h \in DOMAIN credentials : h # hash => credentials'[h] = credentials[h]
      /\ DOMAIN enrollment' = DOMAIN enrollment
      /\ enrollment'[Hash(t)] = [enrollment[Hash(t)] EXCEPT !.used = TRUE]
      /\ \A h \in DOMAIN enrollment : h # Hash(t) => enrollment'[h] = enrollment[h]
      /\ grants' = grants \cup {g0}
      /\ UNCHANGED <<writers, writerTokens, now>>
  BY <1>2 DEF Enroll, Redeem, Put
<1>4. /\ agents'[id] \in AgentRow' /\ agents'[id].hash = hash /\ agents'[id].revoked = FALSE
      /\ enrollment'[Hash(t)] \in EnrollmentRow'
      /\ enrollment'[Hash(t)].used = TRUE
      /\ enrollment'[Hash(t)].agent = id
      /\ g0 \in Grant' /\ g0.agent = id /\ g0.paid = t /\ g0.token = runtime
  <2>1. agents[id] \in AgentRow' /\ enrollment[Hash(t)] \in EnrollmentRow'
    BY <1>1, <1>2, RowsGrow DEF Inv, TypeOK
  <2>2. agents'[id] \in AgentRow' /\ agents'[id].hash = hash /\ agents'[id].revoked = FALSE
    BY <1>1, <1>2, <1>3, <2>1 DEF AgentRow
  <2>3. /\ enrollment'[Hash(t)] \in EnrollmentRow'
        /\ enrollment'[Hash(t)].used = TRUE
        /\ enrollment'[Hash(t)].agent = id
    BY <1>3, <2>1 DEF EnrollmentRow
  <2>4. g0 \in Grant' /\ g0.agent = id /\ g0.paid = t /\ g0.token = runtime
    BY <1>1, <1>2 DEF Grant
  <2> QED BY <2>2, <2>3, <2>4
<1>5. \A i \in DOMAIN agents : agents[i].hash # hash
  BY <1>1 DEF Inv, TypeOK, AgentRow
<1>6. \A g \in grants : /\ g.agent \in Drawn /\ g.paid \in Drawn /\ g.token \in Drawn
                        /\ g.agent # id /\ g.paid # t
  <2>1. \A g \in grants : g.agent \in Drawn /\ g.paid \in Drawn /\ g.token \in Drawn
    BY DEF Inv, TypeOK, Grant
  <2>2. \A g \in grants : g.agent # id
    BY <1>2, HashFacts DEF Inv, GrantsAreSpent, Has
  <2>3. \A g \in grants : g.paid # t
    BY <1>2 DEF Inv, GrantsAreSpent, Has
  <2> QED BY <2>1, <2>2, <2>3
<1> HIDE DEF id, hash, runtime, g0
<1>7. TypeOK'
  <2>1. /\ DOMAIN agents' \subseteq Drawn'
        /\ \A i \in DOMAIN agents' : agents'[i] \in AgentRow'
    BY <1>1, <1>3, <1>4, RowsGrow DEF Inv, TypeOK
  <2>2. /\ DOMAIN credentials' \subseteq Hashes'
        /\ \A h \in DOMAIN credentials' : credentials'[h] \in Drawn'
    BY <1>1, <1>2, <1>3 DEF Inv, TypeOK
  <2>3. /\ DOMAIN enrollment' \subseteq Hashes'
        /\ \A h \in DOMAIN enrollment' : enrollment'[h] \in EnrollmentRow'
    BY <1>1, <1>3, <1>4, RowsGrow DEF Inv, TypeOK
  <2>4. grants' \subseteq Grant'
    BY <1>1, <1>3, <1>4, RowsGrow DEF Inv, TypeOK
  <2>5. /\ DOMAIN writers' \subseteq Drawn'
        /\ \A i \in DOMAIN writers' : writers'[i] \in WriterRow'
        /\ DOMAIN writerTokens' \subseteq Hashes'
        /\ \A h \in DOMAIN writerTokens' : writerTokens'[h] \in Drawn'
        /\ now' \in 0..MaxTime
    BY <1>1, <1>3, RowsGrow DEF Inv, TypeOK
  <2> QED BY <1>1, <2>1, <2>2, <2>3, <2>4, <2>5 DEF TypeOK
<1>8. CredentialIndexExact'
  <2>1. \A h \in DOMAIN credentials : credentials[h] # id /\ h # hash
    BY <1>1, <1>2, HashFacts DEF Inv, TypeOK, CredentialIndexExact, Hashes
  <2>2. ASSUME NEW h \in DOMAIN credentials'
        PROVE  /\ credentials'[h] \in DOMAIN agents'
               /\ agents'[credentials'[h]].hash = h
               /\ ~agents'[credentials'[h]].revoked
    <3>1. CASE h = hash
      BY <1>2, <1>3, <1>4, <3>1
    <3>2. CASE h # hash
      <4>1. h \in DOMAIN credentials /\ credentials'[h] = credentials[h] /\ credentials[h] # id
        BY <1>3, <2>1, <2>2, <3>2
      <4>2. /\ credentials[h] \in DOMAIN agents
            /\ agents[credentials[h]].hash = h
            /\ ~agents[credentials[h]].revoked
        BY <4>1 DEF Inv, CredentialIndexExact, Has
      <4> QED BY <1>3, <4>1, <4>2
    <3> QED BY <3>1, <3>2
  <2>3. ASSUME NEW i \in DOMAIN agents', agents'[i].hash # NoHash, ~agents'[i].revoked
        PROVE  agents'[i].hash \in DOMAIN credentials' /\ credentials'[agents'[i].hash] = i
    <3>1. CASE i = id
      BY <1>3, <1>4, <3>1
    <3>2. CASE i # id
      <4>1. i \in DOMAIN agents /\ agents'[i] = agents[i]
        BY <1>3, <2>3, <3>2
      <4>2. agents[i].hash \in DOMAIN credentials /\ credentials[agents[i].hash] = i
        BY <2>3, <4>1 DEF Inv, CredentialIndexExact, Has
      <4> QED BY <1>3, <2>1, <4>1, <4>2
    <3> QED BY <3>1, <3>2
  <2> QED BY <2>2, <2>3 DEF CredentialIndexExact, Has
<1>9. EnrollmentsHaveAgents'
  <2> SUFFICES ASSUME NEW h \in DOMAIN enrollment'
               PROVE  /\ enrollment'[h].agent \in DOMAIN agents'
                      /\ enrollment'[h].used => agents'[enrollment'[h].agent].hash # NoHash
    BY DEF EnrollmentsHaveAgents, Has
  <2>1. CASE h = Hash(t)
    BY <1>1, <1>2, <1>3, <1>4, <2>1
  <2>2. CASE h # Hash(t)
    <3>1. h \in DOMAIN enrollment /\ enrollment'[h] = enrollment[h]
      BY <1>3, <2>2
    <3>2. /\ enrollment[h].agent \in DOMAIN agents
          /\ enrollment[h].used => agents[enrollment[h].agent].hash # NoHash
      BY <3>1 DEF Inv, EnrollmentsHaveAgents, Has
    <3>3. CASE enrollment[h].agent = id
      <4>1. id \in DOMAIN agents' /\ agents'[id].hash # NoHash
        BY <1>1, <1>2, <1>3, <1>4
      <4>2. enrollment'[h].agent = id
        BY <3>1, <3>3
      <4> QED BY <4>1, <4>2
    <3>4. CASE enrollment[h].agent # id
      <4>1. agents'[enrollment[h].agent] = agents[enrollment[h].agent]
        BY <1>3, <3>2, <3>4
      <4> QED BY <1>3, <3>1, <3>2, <4>1
    <3> QED BY <3>3, <3>4
  <2> QED BY <2>1, <2>2
<1>10. GrantsAreSpent'
  <2>1. ASSUME NEW g \in grants
        PROVE  /\ g.agent \in DOMAIN agents' => agents'[g.agent].hash = Hash(g.token)
               /\ Hash(g.paid) \in DOMAIN enrollment' => enrollment'[Hash(g.paid)].used
    BY <1>3, <1>6, <2>1, HashFacts DEF Inv, GrantsAreSpent, Has
  <2>2. /\ agents'[g0.agent].hash = Hash(g0.token)
        /\ enrollment'[Hash(g0.paid)].used
    BY <1>4 DEF hash
  <2> QED BY <1>3, <2>1, <2>2 DEF GrantsAreSpent, Has
<1>11. OneCredentialEach'
  BY <1>1, <1>3, <1>4, <1>6 DEF Inv, OneCredentialEach
<1>12. TokenTablesDisjoint'
  BY <1>1, <1>3 DEF Inv, TypeOK, TokenTablesDisjoint
<1>13. HashesUnique'
  <2>1. ASSUME NEW i \in DOMAIN agents', NEW j \in DOMAIN agents',
               agents'[i].hash = agents'[j].hash, agents'[i].hash # NoHash
        PROVE  i = j
    <3>1. CASE i # id /\ j # id
      BY <1>3, <2>1, <3>1 DEF Inv, HashesUnique
    <3>2. \A k \in DOMAIN agents' : k # id => agents'[k].hash # agents'[id].hash
      BY <1>3, <1>4, <1>5
    <3>3. CASE i = id \/ j = id
      BY <2>1, <3>2, <3>3
    <3> QED BY <3>1, <3>3
  <2> QED BY <1>3, <2>1 DEF Inv, HashesUnique
<1>14. WriterIndexExact'
  BY <1>3 DEF Inv, WriterIndexExact, Has
<1> QED BY <1>7, <1>8, <1>9, <1>10, <1>11, <1>12, <1>13, <1>14 DEF Inv

(***************************************************************************)
(* Write credentials.                                                      *)
(***************************************************************************)

\* A new write credential enters row and index under a fresh hash.
LEMMA CreateWriterStep ==
  ASSUME Inv, NEW paths \in SUBSET Rules, NEW c \in BOOLEAN, CreateWriter(paths, c)
  PROVE  Inv'
<1> DEFINE hash == Hash(Draw(1))
           id == Draw(2)
           row == [paths |-> paths, hash |-> hash, revoked |-> FALSE, allowCreate |-> c]
<1>1. /\ draws' \in 0..MaxDraws
      /\ Drawn' = Drawn \cup {Draw(1), id}
      /\ Hashes' = Hashes \cup {hash, Hash(id)}
      /\ hash \notin Hashes /\ id \notin Drawn
  BY TwoDraws, DrawFacts DEF Inv, CreateWriter
<1>2. /\ DOMAIN writers' = DOMAIN writers \cup {id}
      /\ writers'[id] = row
      /\ \A i \in DOMAIN writers : i # id /\ writers'[i] = writers[i]
      /\ DOMAIN writerTokens' = DOMAIN writerTokens \cup {hash}
      /\ writerTokens'[hash] = id
      /\ \A h \in DOMAIN writerTokens : h # hash /\ writerTokens'[h] = writerTokens[h]
      /\ UNCHANGED <<agents, credentials, enrollment, now, grants>>
  BY <1>1 DEF CreateWriter, Put, Inv, TypeOK
<1>3. row \in WriterRow' /\ row.hash = hash /\ row.revoked = FALSE
  BY <1>1 DEF WriterRow
<1>4. \A i \in DOMAIN writers : writers[i].hash # hash
  BY <1>1 DEF Inv, TypeOK, WriterRow
<1> HIDE DEF row, hash, id
<1>5. TypeOK'
  <2>1. /\ DOMAIN writers' \subseteq Drawn'
        /\ \A i \in DOMAIN writers' : writers'[i] \in WriterRow'
    BY <1>1, <1>2, <1>3, RowsGrow DEF Inv, TypeOK
  <2>2. /\ DOMAIN writerTokens' \subseteq Hashes'
        /\ \A h \in DOMAIN writerTokens' : writerTokens'[h] \in Drawn'
    BY <1>1, <1>2 DEF Inv, TypeOK
  <2>3. /\ DOMAIN agents' \subseteq Drawn'
        /\ \A i \in DOMAIN agents' : agents'[i] \in AgentRow'
        /\ DOMAIN credentials' \subseteq Hashes'
        /\ \A h \in DOMAIN credentials' : credentials'[h] \in Drawn'
        /\ DOMAIN enrollment' \subseteq Hashes'
        /\ \A h \in DOMAIN enrollment' : enrollment'[h] \in EnrollmentRow'
        /\ grants' \subseteq Grant' /\ now' \in 0..MaxTime
    BY <1>1, <1>2, RowsGrow DEF Inv, TypeOK
  <2> QED BY <1>1, <2>1, <2>2, <2>3 DEF TypeOK
<1>6. WriterIndexExact'
  <2>1. ASSUME NEW h \in DOMAIN writerTokens'
        PROVE  /\ writerTokens'[h] \in DOMAIN writers'
               /\ writers'[writerTokens'[h]].hash = h
               /\ ~writers'[writerTokens'[h]].revoked
    <3>1. CASE h = hash
      BY <1>2, <1>3, <3>1
    <3>2. CASE h # hash
      BY <1>2, <2>1, <3>2 DEF Inv, WriterIndexExact, Has
    <3> QED BY <3>1, <3>2
  <2>2. ASSUME NEW i \in DOMAIN writers', ~writers'[i].revoked
        PROVE  writers'[i].hash \in DOMAIN writerTokens' /\ writerTokens'[writers'[i].hash] = i
    <3>1. CASE i = id
      BY <1>2, <1>3, <3>1
    <3>2. CASE i # id
      BY <1>2, <2>2, <3>2 DEF Inv, WriterIndexExact, Has
    <3> QED BY <3>1, <3>2
  <2> QED BY <2>1, <2>2 DEF WriterIndexExact, Has
<1>7. HashesUnique'
  <2>1. \A i, j \in DOMAIN writers' : writers'[i].hash = writers'[j].hash => i = j
    BY <1>2, <1>3, <1>4 DEF Inv, HashesUnique
  <2> QED BY <1>2, <2>1 DEF Inv, HashesUnique
<1>8. TokenTablesDisjoint'
  BY <1>1, <1>2 DEF Inv, TypeOK, TokenTablesDisjoint
<1>9. CredentialIndexExact' /\ EnrollmentsHaveAgents' /\ GrantsAreSpent' /\ OneCredentialEach'
  BY <1>2 DEF Inv, CredentialIndexExact, EnrollmentsHaveAgents, GrantsAreSpent,
     OneCredentialEach, Has
<1> QED BY <1>5, <1>6, <1>7, <1>8, <1>9 DEF Inv

\* An edit of a write credential keeps hash and revocation.
LEMMA PutWriterStep ==
  ASSUME Inv, NEW id, NEW paths \in SUBSET Rules, NEW c \in BOOLEAN, PutWriter(id, paths, c)
  PROVE  Inv'
<1>1. Drawn' = Drawn /\ Hashes' = Hashes /\ UNCHANGED <<AgentRow, EnrollmentRow, WriterRow, Grant>>
  BY NoDraw DEF PutWriter
<1>2. /\ id \in DOMAIN writers
      /\ DOMAIN writers' = DOMAIN writers
      /\ writers'[id] = [paths |-> paths, hash |-> writers[id].hash,
                         revoked |-> writers[id].revoked, allowCreate |-> c]
      /\ \A i \in DOMAIN writers : i # id => writers'[i] = writers[i]
      /\ UNCHANGED <<agents, credentials, enrollment, writerTokens, now, draws, grants>>
  BY DEF PutWriter, Put, Has
<1>3. /\ \A i \in DOMAIN writers' : writers'[i] \in WriterRow
      /\ \A i \in DOMAIN writers :
           writers'[i].hash = writers[i].hash /\ writers'[i].revoked = writers[i].revoked
  BY <1>2 DEF Inv, TypeOK, WriterRow
<1>4. TypeOK'
  BY <1>1, <1>2, <1>3 DEF Inv, TypeOK
<1>5. WriterIndexExact' /\ HashesUnique'
  BY <1>2, <1>3 DEF Inv, WriterIndexExact, HashesUnique, Has
<1>6. /\ CredentialIndexExact' /\ EnrollmentsHaveAgents' /\ GrantsAreSpent'
      /\ OneCredentialEach' /\ TokenTablesDisjoint'
  BY <1>2 DEF Inv, CredentialIndexExact, EnrollmentsHaveAgents, GrantsAreSpent,
     OneCredentialEach, TokenTablesDisjoint, Has
<1> QED BY <1>4, <1>5, <1>6 DEF Inv

\* Revocation takes the writer hash out of the index with the row.
LEMMA RevokeWriterStep ==
  ASSUME Inv, NEW id, RevokeWriter(id)
  PROVE  Inv'
<1>1. Drawn' = Drawn /\ Hashes' = Hashes /\ UNCHANGED <<AgentRow, EnrollmentRow, WriterRow, Grant>>
  BY NoDraw DEF RevokeWriter
<1>2. /\ id \in DOMAIN writers
      /\ DOMAIN writers' = DOMAIN writers
      /\ writers'[id] = [writers[id] EXCEPT !.revoked = TRUE]
      /\ \A i \in DOMAIN writers : i # id => writers'[i] = writers[i]
      /\ DOMAIN writerTokens' = DOMAIN writerTokens \ {writers[id].hash}
      /\ \A h \in DOMAIN writerTokens' : writerTokens'[h] = writerTokens[h]
      /\ UNCHANGED <<agents, credentials, enrollment, now, draws, grants>>
  BY DEF RevokeWriter, Put, Delete, Has
<1>3. /\ \A i \in DOMAIN writers' : writers'[i] \in WriterRow
      /\ writers'[id].revoked = TRUE
      /\ \A i \in DOMAIN writers : writers'[i].hash = writers[i].hash
  <2>1. writers[id] \in WriterRow
    BY <1>2 DEF Inv, TypeOK
  <2>2. /\ writers'[id] \in WriterRow /\ writers'[id].revoked = TRUE
        /\ writers'[id].hash = writers[id].hash
    BY <1>2, <2>1 DEF WriterRow
  <2> QED BY <1>2, <2>2 DEF Inv, TypeOK
<1>4. TypeOK'
  BY <1>1, <1>2, <1>3 DEF Inv, TypeOK
<1>5. WriterIndexExact'
  <2>1. ASSUME NEW h \in DOMAIN writerTokens'
        PROVE  /\ writerTokens'[h] \in DOMAIN writers'
               /\ writers'[writerTokens'[h]].hash = h
               /\ ~writers'[writerTokens'[h]].revoked
    <3>1. /\ h \in DOMAIN writerTokens /\ h # writers[id].hash
          /\ writerTokens'[h] = writerTokens[h]
      BY <1>2, <2>1
    <3>2. /\ writerTokens[h] \in DOMAIN writers /\ writers[writerTokens[h]].hash = h
          /\ ~writers[writerTokens[h]].revoked
      BY <3>1 DEF Inv, WriterIndexExact, Has
    <3> QED BY <1>2, <3>1, <3>2
  <2>2. ASSUME NEW i \in DOMAIN writers', ~writers'[i].revoked
        PROVE  writers'[i].hash \in DOMAIN writerTokens' /\ writerTokens'[writers'[i].hash] = i
    <3>1. i \in DOMAIN writers /\ i # id /\ writers'[i] = writers[i]
      BY <1>2, <1>3, <2>2
    <3>2. /\ writers[i].hash \in DOMAIN writerTokens /\ writerTokens[writers[i].hash] = i
          /\ writers[i].hash # writers[id].hash
      BY <1>2, <2>2, <3>1 DEF Inv, WriterIndexExact, HashesUnique, Has
    <3> QED BY <1>2, <3>1, <3>2
  <2> QED BY <2>1, <2>2 DEF WriterIndexExact, Has
<1>6. HashesUnique' /\ TokenTablesDisjoint'
  BY <1>2, <1>3 DEF Inv, HashesUnique, TokenTablesDisjoint
<1>7. CredentialIndexExact' /\ EnrollmentsHaveAgents' /\ GrantsAreSpent' /\ OneCredentialEach'
  BY <1>2 DEF Inv, CredentialIndexExact, EnrollmentsHaveAgents, GrantsAreSpent,
     OneCredentialEach, Has
<1> QED BY <1>4, <1>5, <1>6, <1>7 DEF Inv

(***************************************************************************)
(* Theorems.                                                               *)
(***************************************************************************)

\* Every step preserves the invariant.
LEMMA NextInv == Inv /\ [Next]_vars => Inv'
<1> SUFFICES ASSUME Inv, [Next]_vars PROVE Inv'
  OBVIOUS
<1>1. CASE Tick
  BY <1>1, TickStep
<1>2. CASE \E paths \in SUBSET Rules : CreateAgent(paths)
  BY <1>2, CreateAgentStep
<1>3. CASE \E id \in Drawn, paths \in SUBSET Rules : PutAgentPaths(id, paths)
  BY <1>3, PutAgentPathsStep
<1>4. CASE \E id \in Drawn : RevokeAgent(id)
  BY <1>4, RevokeAgentStep
<1>5. CASE \E id \in Drawn : PurgeAgent(id)
  BY <1>5, PurgeAgentStep
<1>6. CASE \E id \in Drawn, ttl \in 1..MaxTTL : CreateEnrollment(id, ttl)
  BY <1>6, CreateEnrollmentStep
<1>7. CASE \E t \in Drawn : DeleteEnrollment(Hash(t))
  BY <1>7, DeleteEnrollmentStep
<1>8. CASE \E t \in Drawn : Enroll(t)
  BY <1>8, EnrollStep
<1>9. CASE \E paths \in SUBSET Rules, c \in BOOLEAN : CreateWriter(paths, c)
  BY <1>9, CreateWriterStep
<1>10. CASE \E id \in Drawn, paths \in SUBSET Rules, c \in BOOLEAN : PutWriter(id, paths, c)
  BY <1>10, PutWriterStep
<1>11. CASE \E id \in Drawn : RevokeWriter(id)
  BY <1>11, RevokeWriterStep
<1>12. CASE UNCHANGED vars
  <2>1. TypeOK'
    BY <1>12, NoDraw DEF vars, Inv, TypeOK
  <2> QED
    BY <1>12, <2>1 DEF vars, Inv, CredentialIndexExact, WriterIndexExact, EnrollmentsHaveAgents,
       GrantsAreSpent, OneCredentialEach, TokenTablesDisjoint, HashesUnique, Has
<1> QED
  BY <1>1, <1>2, <1>3, <1>4, <1>5, <1>6, <1>7, <1>8, <1>9, <1>10, <1>11, <1>12 DEF Next

\* The inductive invariant holds in every reachable state.
THEOREM Invariance == Spec => []Inv
<1>1. Init => Inv BY InitInv
<1>2. Inv /\ [Next]_vars => Inv' BY NextInv
<1> QED BY <1>1, <1>2, PTL DEF Spec

\* The tables keep their types and mention drawn numbers only.
THEOREM TypeCorrect == Spec => []TypeOK
<1>1. Inv => TypeOK BY DEF Inv
<1> QED BY <1>1, Invariance, PTL

\* The index of agent credentials lists exactly the credentials in force: every
\* credential issued to an agent that is not revoked, and no other.
THEOREM CredentialIndex == Spec => []CredentialIndexExact
<1>1. Inv => CredentialIndexExact BY DEF Inv
<1> QED BY <1>1, Invariance, PTL

\* The index of writer tokens lists exactly the tokens of the writers that are
\* not revoked, whatever is created, revoked and removed meanwhile.
THEOREM WriterIndex == Spec => []WriterIndexExact
<1>1. Inv => WriterIndexExact BY DEF Inv
<1> QED BY <1>1, Invariance, PTL

\* Purging an agent leaves none of its enrollment tokens behind.
THEOREM NoOrphans == Spec => []EnrollmentsHaveAgents
<1>1. Inv => EnrollmentsHaveAgents BY DEF Inv
<1> QED BY <1>1, Invariance, PTL

\* An identity never receives two runtime credentials, and an enrollment token
\* never buys two, for any number of agents, tokens and requests.
THEOREM OneCredential == Spec => []OneCredentialEach
<1>1. Inv => OneCredentialEach BY DEF Inv
<1> QED BY <1>1, Invariance, PTL

\* No token serves two of the three purposes.
THEOREM OnePurpose == Spec => []TokensHaveOnePurpose
<1>1. Inv => TokensHaveOnePurpose
  BY DEF Inv, TokenTablesDisjoint, TokensHaveOnePurpose, AuthenticatesAgent,
     AuthenticatesWriter, Redeemable, Has
<1> QED BY <1>1, Invariance, PTL

\* What no step can do to the tables: index an old token again, put an old
\* enrollment token back or un-use it, bring an agent back, lift a revocation,
\* clear or replace a credential, give a revoked agent one, turn time back.
Forward ==
  /\ \A t \in Drawn : Hash(t) \in DOMAIN credentials' => Hash(t) \in DOMAIN credentials
  /\ \A t \in Drawn : Hash(t) \in DOMAIN writerTokens' => Hash(t) \in DOMAIN writerTokens
  /\ \A t \in Drawn : Hash(t) \in DOMAIN enrollment' =>
       /\ Hash(t) \in DOMAIN enrollment
       /\ enrollment'[Hash(t)].agent = enrollment[Hash(t)].agent
       /\ enrollment'[Hash(t)].expires = enrollment[Hash(t)].expires
       /\ enrollment[Hash(t)].used => enrollment'[Hash(t)].used
  /\ \A id \in Drawn : id \in DOMAIN agents' =>
       /\ id \in DOMAIN agents
       /\ agents[id].revoked => agents'[id].revoked /\ agents'[id].hash = agents[id].hash
       /\ agents[id].hash # NoHash => agents'[id].hash = agents[id].hash
  /\ now \in Nat /\ now' \in Nat /\ now <= now'

\* Every step is Forward: nothing that was refused for good comes back.
LEMMA StepsGoForward == Inv /\ Next => Forward
<1> SUFFICES ASSUME Inv, Next PROVE Forward
  OBVIOUS
<1>1. now \in Nat /\ now + 1 \in Nat /\ now <= now + 1
  BY BoundsAssumption DEF Inv, TypeOK
<1>2. \A t \in Drawn : Hash(t) \in Hashes /\ Hash(t) # Hash(Draw(1)) /\ t # Draw(1)
  BY DrawFacts DEF Inv, Hashes
<1>3. CASE Tick
  BY <1>1, <1>3 DEF Tick, tables, Forward
<1>4. ASSUME NEW paths \in SUBSET Rules, CreateAgent(paths) PROVE Forward
  BY <1>1, <1>2, <1>4 DEF CreateAgent, Put, Forward
<1>5. ASSUME NEW id \in Drawn, NEW paths \in SUBSET Rules, PutAgentPaths(id, paths)
      PROVE  Forward
  <2>1. /\ DOMAIN agents' = DOMAIN agents /\ id \in DOMAIN agents
        /\ agents'[id] = [agents[id] EXCEPT !.paths = paths]
        /\ \A i \in DOMAIN agents : i # id => agents'[i] = agents[i]
        /\ UNCHANGED <<credentials, enrollment, writerTokens, now>>
    BY <1>5 DEF PutAgentPaths, Put, Has
  <2>2. /\ agents'[id].hash = agents[id].hash
        /\ agents[id].revoked => agents'[id].revoked
    BY <2>1 DEF Inv, TypeOK, AgentRow
  <2>3. \A i \in DOMAIN agents :
          /\ agents'[i].hash = agents[i].hash
          /\ agents[i].revoked => agents'[i].revoked
    BY <2>1, <2>2
  <2>4. DOMAIN agents' = DOMAIN agents /\ UNCHANGED <<credentials, enrollment, writerTokens, now>>
    BY <2>1
  <2> QED BY <1>1, <2>3, <2>4 DEF Forward
<1>6. ASSUME NEW id \in Drawn, RevokeAgent(id) PROVE Forward
  <2>1. /\ DOMAIN agents' = DOMAIN agents /\ id \in DOMAIN agents
        /\ agents'[id] = [agents[id] EXCEPT !.revoked = TRUE]
        /\ \A i \in DOMAIN agents : i # id => agents'[i] = agents[i]
        /\ DOMAIN credentials' \subseteq DOMAIN credentials
        /\ UNCHANGED <<enrollment, writerTokens, now>>
    BY <1>6 DEF RevokeAgent, Put, Delete, Has
  <2>2. agents'[id].revoked /\ agents'[id].hash = agents[id].hash
    BY <2>1 DEF Inv, TypeOK, AgentRow
  <2>3. \A i \in DOMAIN agents :
          /\ agents'[i].hash = agents[i].hash
          /\ agents[i].revoked => agents'[i].revoked
    BY <2>1, <2>2
  <2>4. /\ DOMAIN agents' = DOMAIN agents /\ DOMAIN credentials' \subseteq DOMAIN credentials
        /\ UNCHANGED <<enrollment, writerTokens, now>>
    BY <2>1
  <2> QED BY <1>1, <2>3, <2>4 DEF Forward
<1>7. ASSUME NEW id \in Drawn, PurgeAgent(id) PROVE Forward
  BY <1>1, <1>7 DEF PurgeAgent, Delete, DeleteAll, Forward
<1>8. ASSUME NEW id \in Drawn, NEW ttl \in 1..MaxTTL, CreateEnrollment(id, ttl) PROVE Forward
  BY <1>1, <1>2, <1>8 DEF CreateEnrollment, Put, Forward
<1>9. ASSUME NEW t \in Drawn, DeleteEnrollment(Hash(t)) PROVE Forward
  BY <1>1, <1>9 DEF DeleteEnrollment, Delete, Forward
<1>10. ASSUME NEW t \in Drawn, Enroll(t) PROVE Forward
  <2> DEFINE id == enrollment[Hash(t)].agent
             h0 == Hash(t)
  <2>1. /\ h0 \in DOMAIN enrollment /\ id \in DOMAIN agents
        /\ ~agents[id].revoked /\ agents[id].hash = NoHash
    BY <1>10 DEF Enroll, Redeemable, MayEnroll, Has
  <2>2. /\ DOMAIN agents' = DOMAIN agents
        /\ \A i \in DOMAIN agents : i # id => agents'[i] = agents[i]
        /\ DOMAIN credentials' = DOMAIN credentials \cup {Hash(Draw(1))}
        /\ DOMAIN enrollment' = DOMAIN enrollment
        /\ enrollment'[h0] = [enrollment[h0] EXCEPT !.used = TRUE]
        /\ \A h \in DOMAIN enrollment : h # h0 => enrollment'[h] = enrollment[h]
        /\ UNCHANGED <<writerTokens, now>>
    BY <1>10, <2>1 DEF Enroll, Redeem, Put
  <2>3. /\ enrollment'[h0].agent = enrollment[h0].agent
        /\ enrollment'[h0].expires = enrollment[h0].expires
        /\ enrollment'[h0].used
    BY <2>1, <2>2 DEF Inv, TypeOK, EnrollmentRow
  <2> HIDE DEF id, h0
  <2>4. \A h \in DOMAIN enrollment :
          /\ enrollment'[h].agent = enrollment[h].agent
          /\ enrollment'[h].expires = enrollment[h].expires
          /\ enrollment[h].used => enrollment'[h].used
    BY <2>2, <2>3
  <2>5. \A i \in DOMAIN agents :
          agents[i].revoked \/ agents[i].hash # NoHash => agents'[i] = agents[i]
    BY <2>1, <2>2
  <2>6. /\ DOMAIN agents' = DOMAIN agents /\ DOMAIN enrollment' = DOMAIN enrollment
        /\ DOMAIN credentials' = DOMAIN credentials \cup {Hash(Draw(1))}
        /\ UNCHANGED <<writerTokens, now>>
    BY <2>2
  <2> QED BY <1>1, <1>2, <2>4, <2>5, <2>6 DEF Forward
<1>11. ASSUME NEW paths \in SUBSET Rules, NEW c \in BOOLEAN, CreateWriter(paths, c) PROVE Forward
  BY <1>1, <1>2, <1>11 DEF CreateWriter, Put, Forward
<1>12. ASSUME NEW id \in Drawn, NEW paths \in SUBSET Rules, NEW c \in BOOLEAN,
              PutWriter(id, paths, c)
       PROVE  Forward
  BY <1>1, <1>12 DEF PutWriter, Forward
<1>13. ASSUME NEW id \in Drawn, RevokeWriter(id) PROVE Forward
  BY <1>1, <1>13 DEF RevokeWriter, Delete, Forward
<1> QED
  BY <1>3, <1>4, <1>5, <1>6, <1>7, <1>8, <1>9, <1>10, <1>11, <1>12, <1>13 DEF Next

\* A token once refused is refused by every later state of the server.
THEOREM RefusalIsFinal == Spec => RefusedStaysRefused
<1> DEFINE Refused == \A t \in Drawn :
             /\ ~AuthenticatesAgent(t) => ~AuthenticatesAgent(t)'
             /\ ~AuthenticatesWriter(t) => ~AuthenticatesWriter(t)'
             /\ ~Redeemable(t) => ~Redeemable(t)'
<1>1. Inv /\ Inv' /\ [Next]_vars => [Refused]_vars
  <2> SUFFICES ASSUME Inv, Inv', Next, NEW t \in Drawn
               PROVE  /\ AuthenticatesAgent(t)' => AuthenticatesAgent(t)
                      /\ AuthenticatesWriter(t)' => AuthenticatesWriter(t)
                      /\ Redeemable(t)' => Redeemable(t)
    OBVIOUS
  <2>1. Forward
    BY StepsGoForward
  <2>2. AuthenticatesAgent(t)' => AuthenticatesAgent(t)
    BY <2>1 DEF Forward, AuthenticatesAgent, Inv, CredentialIndexExact, Has
  <2>3. AuthenticatesWriter(t)' => AuthenticatesWriter(t)
    BY <2>1 DEF Forward, AuthenticatesWriter, Inv, WriterIndexExact, Has
  <2>4. ASSUME Redeemable(t)' PROVE Redeemable(t)
    <3> DEFINE id == enrollment[Hash(t)].agent
    <3>1. /\ Hash(t) \in DOMAIN enrollment' /\ ~enrollment'[Hash(t)].used
          /\ now' < enrollment'[Hash(t)].expires
          /\ enrollment'[Hash(t)].agent \in DOMAIN agents'
          /\ ~agents'[enrollment'[Hash(t)].agent].revoked
          /\ agents'[enrollment'[Hash(t)].agent].hash = NoHash
      BY <2>4 DEF Redeemable, MayEnroll, Has
    <3>2. /\ Hash(t) \in DOMAIN enrollment /\ ~enrollment[Hash(t)].used
          /\ enrollment'[Hash(t)].agent = id
          /\ enrollment'[Hash(t)].expires = enrollment[Hash(t)].expires
      BY <2>1, <3>1 DEF Forward
    <3>3. id \in Drawn /\ enrollment[Hash(t)].expires \in Nat
      BY <3>2 DEF Inv, TypeOK, EnrollmentRow
    <3>4. now < enrollment[Hash(t)].expires
      BY <2>1, <3>1, <3>2, <3>3 DEF Forward
    <3>5. id \in DOMAIN agents /\ ~agents[id].revoked /\ agents[id].hash = NoHash
      BY <2>1, <3>1, <3>2, <3>3 DEF Forward
    <3> QED BY <3>2, <3>4, <3>5 DEF Redeemable, MayEnroll, Has
  <2> QED BY <2>2, <2>3, <2>4
<1> QED BY <1>1, Invariance, PTL DEF Spec, RefusedStaysRefused

\* Revocation of an agent cannot be undone, short of purging the identity.
THEOREM RevocationFinal == Spec => RevocationIsFinal
<1> DEFINE Final == \A id \in DOMAIN agents : agents[id].revoked /\ Has(agents', id) =>
                      agents'[id].revoked /\ agents'[id].hash = agents[id].hash
<1>1. Inv /\ [Next]_vars => [Final]_vars
  <2> SUFFICES ASSUME Inv, Next PROVE Final
    OBVIOUS
  <2> QED BY StepsGoForward DEF Forward, Inv, TypeOK, Has
<1> QED BY <1>1, Invariance, PTL DEF Spec, RevocationIsFinal

(***************************************************************************)
(* Path rules.                                                             *)
(***************************************************************************)

\* Induction is by a smallest counterexample: a set of numbers has a least one.
LEMMA LeastExists ==
  ASSUME NEW S \in SUBSET Nat, S # {}
  PROVE  \E x \in S : \A y \in S : x <= y
<1>1. \E x \in S : \A y \in S : ~(<<y, x>> \in OpToRel(<, Nat))
  BY NatLessThanWellFounded, WFMin
<1>2. \A x, y \in Nat : y < x => <<y, x>> \in OpToRel(<, Nat)
  BY DEF OpToRel
<1>3. \E x \in S : \A y \in S : ~(y < x)
  BY <1>1, <1>2, Zenon
<1>4. QED
  BY <1>3

\* e is the end of the component of s that begins at i.
IsEnd(s, i, e) ==
  /\ e \in (i - 1)..Len(s)
  /\ \A j \in i..e : s[j] # "/"
  /\ e = Len(s) \/ s[e + 1] = "/"

End(s, i) ==
  CHOOSE e \in (i - 1)..Len(s) :
    /\ \A j \in i..e : s[j] # "/"
    /\ e = Len(s) \/ s[e + 1] = "/"

\* How many components begin before i, and in all; where the nth one begins.
Rank(s, i) == Cardinality({j \in Starts(s) : j < i})
Count(s) == Cardinality(Starts(s))
Nth(s, n) == CHOOSE i \in Starts(s) : Rank(s, i) = n - 1

LEMMA SplitIs ==
  ASSUME NEW s
  PROVE  /\ Split(s) = [n \in 1..Count(s) |-> Component(s, Nth(s, n))]
         /\ \A i : Component(s, i) = SubSeq(s, i, End(s, i))
BY DEF Split, Count, Nth, Rank, Component, End

LEMMA StartsFacts ==
  ASSUME NEW C, NEW s \in Seq(C)
  PROVE  /\ Starts(s) \subseteq 1..(Len(s) + 1) /\ 1 \in Starts(s) /\ IsFiniteSet(Starts(s))
         /\ \A i \in 2..(Len(s) + 1) : i \in Starts(s) <=> s[i - 1] = "/"
<1>1. Len(s) \in Nat
  OBVIOUS
<1>2. Starts(s) \subseteq 1..(Len(s) + 1) /\ 1 \in Starts(s)
  BY <1>1 DEF Starts
<1>3. IsFiniteSet(1..(Len(s) + 1))
  BY <1>1, FS_Interval
<1>4. IsFiniteSet(Starts(s))
  BY <1>2, <1>3, FS_Subset
<1>5. ASSUME NEW i \in 2..(Len(s) + 1)
      PROVE  i \in Starts(s) <=> s[i - 1] = "/"
  <2>1. i - 1 \in 1..Len(s) /\ i = (i - 1) + 1 /\ i # 1
    BY <1>1
  <2>2. ASSUME s[i - 1] = "/"
        PROVE  i \in Starts(s)
    BY <2>1, <2>2 DEF Starts
  <2>3. ASSUME i \in Starts(s)
        PROVE  s[i - 1] = "/"
    <3>1. PICK j \in 1..Len(s) : s[j] = "/" /\ i = j + 1
      BY <2>1, <2>3 DEF Starts
    <3>2. j = i - 1
      BY <1>1, <3>1
    <3>3. QED
      BY <3>1, <3>2
  <2>4. QED
    BY <2>2, <2>3
<1>6. QED
  BY <1>2, <1>4, <1>5

\* A component has one end.
LEMMA EndFacts ==
  ASSUME NEW C, NEW s \in Seq(C), NEW i \in 1..(Len(s) + 1)
  PROVE  /\ IsEnd(s, i, End(s, i))
         /\ \A e : IsEnd(s, i, e) => e = End(s, i)
<1>1. Len(s) \in Nat
  OBVIOUS
<1>2. \E e \in (i - 1)..Len(s) : IsEnd(s, i, e)
  <2> DEFINE S == {j \in i..Len(s) : s[j] = "/"}
  <2>1. CASE S = {}
    <3>1. Len(s) \in (i - 1)..Len(s)
      BY <1>1
    <3>2. IsEnd(s, i, Len(s))
      BY <2>1, <3>1 DEF IsEnd
    <3>3. QED
      BY <3>1, <3>2
  <2>2. CASE S # {}
    <3>1. PICK x \in S : \A y \in S : x <= y
      <4>1. S \in SUBSET Nat
        BY <1>1
      <4>2. QED
        BY <2>2, <4>1, LeastExists
    <3>2. x - 1 \in (i - 1)..Len(s) /\ x \in i..Len(s) /\ s[x] = "/" /\ (x - 1) + 1 = x
      BY <1>1
    <3>3. \A j \in i..(x - 1) : s[j] # "/"
      BY <1>1, <3>1, <3>2
    <3>4. IsEnd(s, i, x - 1)
      BY <3>2, <3>3 DEF IsEnd
    <3>5. QED
      BY <3>2, <3>4
  <2>3. QED
    BY <2>1, <2>2
<1>3. IsEnd(s, i, End(s, i))
  BY <1>2 DEF IsEnd, End
<1>4. ASSUME NEW e, NEW f, IsEnd(s, i, e), IsEnd(s, i, f)
      PROVE  ~(e < f)
  <2>1. e \in (i - 1)..Len(s) /\ f \in (i - 1)..Len(s)
    BY <1>4 DEF IsEnd
  <2>2. SUFFICES ASSUME e < f PROVE FALSE
    OBVIOUS
  <2>3. s[e + 1] = "/" /\ e + 1 \in i..f
    BY <1>1, <1>4, <2>1, <2>2 DEF IsEnd
  <2>4. QED
    BY <1>4, <2>3 DEF IsEnd
<1>5. ASSUME NEW e, IsEnd(s, i, e)
      PROVE  e = End(s, i)
  <2> DEFINE f == End(s, i)
  <2>1. ~(e < f) /\ ~(f < e) /\ e \in (i - 1)..Len(s) /\ f \in (i - 1)..Len(s)
    BY <1>3, <1>4, <1>5 DEF IsEnd
  <2> HIDE DEF f
  <2>2. e = f
    BY <1>1, <2>1
  <2>3. QED
    BY <2>2 DEF f
<1>6. QED
  BY <1>3, <1>5

\* Ranks count.
LEMMA RankFacts ==
  ASSUME NEW C, NEW s \in Seq(C)
  PROVE  /\ Count(s) \in Nat /\ Rank(s, 1) = 0
         /\ \A i \in Starts(s) : Rank(s, i) \in Nat /\ Rank(s, i) < Count(s)
         /\ \A i, k \in Starts(s) : i < k => Rank(s, i) < Rank(s, k)
<1> DEFINE B(i) == {j \in Starts(s) : j < i}
<1>1. /\ Starts(s) \subseteq Nat /\ IsFiniteSet(Starts(s)) /\ 1 \in Starts(s)
      /\ \A i \in Starts(s) : i >= 1
  BY StartsFacts
<1>2. \A i : IsFiniteSet(B(i)) /\ Rank(s, i) = Cardinality(B(i)) /\ Rank(s, i) \in Nat
  <2> SUFFICES ASSUME NEW i
               PROVE  IsFiniteSet(B(i)) /\ Rank(s, i) = Cardinality(B(i)) /\ Rank(s, i) \in Nat
    OBVIOUS
  <2>1. B(i) \subseteq Starts(s) /\ Rank(s, i) = Cardinality(B(i))
    BY DEF Rank
  <2>2. IsFiniteSet(B(i))
    BY <1>1, <2>1, FS_Subset
  <2>3. QED
    BY <2>1, <2>2, FS_CardinalityType
<1>3. ASSUME NEW i \in Starts(s), NEW T, IsFiniteSet(T), B(i) \subseteq T, i \in T
      PROVE  Rank(s, i) < Cardinality(T)
  <2> DEFINE b == B(i)
  <2>1. /\ IsFiniteSet(b) /\ i \notin b /\ b \cup {i} \subseteq T
        /\ Rank(s, i) = Cardinality(b) /\ Rank(s, i) \in Nat
    <3>1. IsFiniteSet(b) /\ Rank(s, i) = Cardinality(b) /\ Rank(s, i) \in Nat
      BY <1>2
    <3>2. i \in Nat /\ ~(i < i)
      BY <1>1
    <3>3. i \notin b
      BY <3>2
    <3>4. b \cup {i} \subseteq T
      BY <1>3
    <3>5. QED
      BY <3>1, <3>3, <3>4
  <2> HIDE DEF b
  <2>2. Cardinality(b \cup {i}) = Cardinality(b) + 1
    BY <2>1, FS_AddElement
  <2>3. Cardinality(b \cup {i}) <= Cardinality(T) /\ Cardinality(T) \in Nat
    BY <1>3, <2>1, FS_Subset, FS_CardinalityType
  <2>4. QED
    BY <2>1, <2>2, <2>3
<1>4. \A i \in Starts(s) : Rank(s, i) < Count(s)
  BY <1>1, <1>3 DEF Count
<1>5. ASSUME NEW i \in Starts(s), NEW k \in Starts(s), i < k
      PROVE  Rank(s, i) < Rank(s, k)
  <2>1. B(i) \subseteq B(k) /\ i \in B(k)
    BY <1>1, <1>5
  <2>2. QED
    BY <1>2, <1>3, <2>1
<1>6. Rank(s, 1) = 0
  <2>1. B(1) = {}
    BY <1>1
  <2>2. QED
    BY <1>2, <2>1, FS_EmptySet
<1>7. Count(s) \in Nat
  BY <1>1, FS_CardinalityType DEF Count
<1>8. QED
  BY <1>2, <1>4, <1>5, <1>6, <1>7

\* Where the next component begins, or that there is none.
LEMMA RankStep ==
  ASSUME NEW C, NEW s \in Seq(C), NEW i \in Starts(s)
  PROVE  LET e == End(s, i)
         IN  /\ e < Len(s) => /\ s[e + 1] = "/"
                              /\ e + 2 \in Starts(s) /\ Rank(s, e + 2) = Rank(s, i) + 1
             /\ e = Len(s) => Count(s) = Rank(s, i) + 1
<1> DEFINE e == End(s, i)
           b == {j \in Starts(s) : j < i}
<1>1. /\ Len(s) \in Nat /\ i \in 1..(Len(s) + 1) /\ i \in Nat
      /\ Starts(s) \subseteq 1..(Len(s) + 1) /\ IsFiniteSet(Starts(s))
      /\ \A k \in 2..(Len(s) + 1) : k \in Starts(s) <=> s[k - 1] = "/"
  BY StartsFacts
<1>2. /\ e \in (i - 1)..Len(s)
      /\ \A j \in i..e : s[j] # "/"
      /\ e = Len(s) \/ s[e + 1] = "/"
  BY <1>1, EndFacts DEF IsEnd
<1> HIDE DEF e
<1>3. e \in Int /\ i - 1 <= e /\ e <= Len(s)
  BY <1>1, <1>2
<1>4. \A k \in Starts(s) : k < e + 2 => k <= i
  <2> SUFFICES ASSUME NEW k \in Starts(s), k < e + 2, ~(k <= i)
               PROVE  FALSE
    BY <1>1
  <2>1. k \in 2..(Len(s) + 1) /\ k - 1 \in i..e
    BY <1>1, <1>3
  <2>2. QED
    BY <1>1, <1>2, <2>1
<1>5. IsFiniteSet(b) /\ i \notin b /\ Cardinality(b) = Rank(s, i)
  <2>1. b \subseteq Starts(s) /\ i \notin b
    BY <1>1
  <2>2. QED
    BY <1>1, <2>1, FS_Subset DEF Rank
<1>6. {j \in Starts(s) : j < e + 2} = b \cup {i}
  BY <1>1, <1>3, <1>4
<1>7. Cardinality(b \cup {i}) = Rank(s, i) + 1
  <2> HIDE DEF b
  <2>1. QED
    BY <1>5, FS_AddElement
<1>8. ASSUME e < Len(s)
      PROVE  s[e + 1] = "/" /\ e + 2 \in Starts(s) /\ Rank(s, e + 2) = Rank(s, i) + 1
  <2>1. s[e + 1] = "/"
    BY <1>1, <1>2, <1>3, <1>8
  <2>2. e + 2 \in 2..(Len(s) + 1) /\ (e + 2) - 1 = e + 1
    BY <1>1, <1>3, <1>8
  <2>3. QED
    BY <1>1, <1>6, <1>7, <2>1, <2>2 DEF Rank
<1>9. ASSUME e = Len(s)
      PROVE  Count(s) = Rank(s, i) + 1
  <2>1. {j \in Starts(s) : j < e + 2} = Starts(s)
    BY <1>1, <1>9
  <2>2. QED
    BY <1>6, <1>7, <2>1 DEF Count
<1>10. QED
  BY <1>8, <1>9 DEF e

\* There is an nth component, and only one.
LEMMA NthFacts ==
  ASSUME NEW C, NEW s \in Seq(C)
  PROVE  /\ \A n \in 1..Count(s) : Nth(s, n) \in Starts(s) /\ Rank(s, Nth(s, n)) = n - 1
         /\ \A i \in Starts(s) : Rank(s, i) + 1 \in 1..Count(s) /\ Nth(s, Rank(s, i) + 1) = i
<1>1. /\ Count(s) \in Nat /\ Rank(s, 1) = 0 /\ 1 \in Starts(s) /\ Starts(s) \subseteq Nat /\ Len(s) \in Nat
      /\ \A i \in Starts(s) : Rank(s, i) \in Nat /\ Rank(s, i) < Count(s)
      /\ \A i, k \in Starts(s) : i < k => Rank(s, i) < Rank(s, k)
  BY RankFacts, StartsFacts
<1>2. \A n \in 1..Count(s) : \E i \in Starts(s) : Rank(s, i) = n - 1
  <2> DEFINE Bad == {n \in 1..Count(s) : ~\E i \in Starts(s) : Rank(s, i) = n - 1}
  <2> SUFFICES ASSUME Bad # {}
               PROVE  FALSE
    OBVIOUS
  <2>1. PICK n \in Bad : \A m \in Bad : n <= m
    <3>1. Bad \in SUBSET Nat
      OBVIOUS
    <3>2. QED
      BY <3>1, LeastExists
  <2>2. n \in 1..Count(s) /\ ~\E i \in Starts(s) : Rank(s, i) = n - 1
    BY <2>1
  <2>3. n # 1
    BY <1>1, <2>2
  <2>4. n - 1 \in 1..Count(s) /\ n - 1 \notin Bad
    BY <1>1, <2>1, <2>2, <2>3
  <2>5. PICK i \in Starts(s) : Rank(s, i) = (n - 1) - 1
    BY <2>4
  <2> DEFINE e == End(s, i)
  <2>6. e \in Int /\ e <= Len(s)
    BY <1>1, StartsFacts, EndFacts DEF IsEnd
  <2>7. CASE e < Len(s)
    <3>1. e + 2 \in Starts(s) /\ Rank(s, e + 2) = Rank(s, i) + 1
      BY <2>7, RankStep
    <3>2. QED
      BY <1>1, <2>2, <2>5, <3>1
  <2>8. CASE e = Len(s)
    <3>1. Count(s) = Rank(s, i) + 1
      BY <2>8, RankStep
    <3>2. QED
      BY <1>1, <2>2, <2>5, <3>1
  <2>9. QED
    BY <1>1, <2>6, <2>7, <2>8
<1>3. \A n \in 1..Count(s) : Nth(s, n) \in Starts(s) /\ Rank(s, Nth(s, n)) = n - 1
  BY <1>2 DEF Nth
<1>4. ASSUME NEW i \in Starts(s)
      PROVE  Rank(s, i) + 1 \in 1..Count(s) /\ Nth(s, Rank(s, i) + 1) = i
  <2> DEFINE r == Rank(s, i)
             k == Nth(s, r + 1)
  <2>1. r \in Nat /\ r < Count(s) /\ Count(s) \in Nat
    BY <1>1
  <2>2. r + 1 \in 1..Count(s) /\ (r + 1) - 1 = r
    BY <2>1
  <2>3. k \in Starts(s) /\ Rank(s, k) = r
    BY <1>3, <2>2
  <2>4. ~(i < k) /\ ~(k < i)
    BY <1>1, <2>1, <2>3
  <2>5. i \in Nat /\ k \in Nat
    BY <1>1, <2>3
  <2> HIDE DEF k
  <2>6. k = i
    BY <2>4, <2>5
  <2>7. QED
    BY <2>2, <2>6 DEF k
<1>5. QED
  BY <1>3, <1>4

\* The components of a string, from the first to the last.
LEMMA NthStep ==
  ASSUME NEW C, NEW s \in Seq(C)
  PROVE  /\ Count(s) \in Nat \ {0} /\ Nth(s, 1) = 1
         /\ \A n \in 1..Count(s) :
              /\ Nth(s, n) \in 1..(Len(s) + 1)
              /\ IsEnd(s, Nth(s, n), End(s, Nth(s, n)))
         /\ \A n \in 1..Count(s) : n # Count(s) =>
              /\ End(s, Nth(s, n)) < Len(s) /\ s[End(s, Nth(s, n)) + 1] = "/"
              /\ Nth(s, n + 1) = End(s, Nth(s, n)) + 2
         /\ End(s, Nth(s, Count(s))) = Len(s)
<1>1. /\ Count(s) \in Nat /\ Rank(s, 1) = 0 /\ 1 \in Starts(s) /\ Len(s) \in Nat
      /\ Starts(s) \subseteq 1..(Len(s) + 1)
      /\ \A i \in Starts(s) : Rank(s, i) \in Nat /\ Rank(s, i) < Count(s)
  BY RankFacts, StartsFacts
<1>2. Count(s) # 0
  BY <1>1
<1>3. Nth(s, 1) = 1
  <2>1. Nth(s, Rank(s, 1) + 1) = 1
    BY <1>1, NthFacts
  <2>2. Rank(s, 1) + 1 = 1
    BY <1>1
  <2>3. QED
    BY <2>1, <2>2
<1>4. ASSUME NEW n \in 1..Count(s)
      PROVE  /\ Nth(s, n) \in Starts(s) /\ Rank(s, Nth(s, n)) = n - 1
             /\ Nth(s, n) \in 1..(Len(s) + 1)
             /\ IsEnd(s, Nth(s, n), End(s, Nth(s, n)))
             /\ End(s, Nth(s, n)) \in Int /\ End(s, Nth(s, n)) <= Len(s)
  <2>1. Nth(s, n) \in Starts(s) /\ Rank(s, Nth(s, n)) = n - 1
    BY NthFacts
  <2>2. Nth(s, n) \in 1..(Len(s) + 1)
    BY <1>1, <2>1
  <2>3. IsEnd(s, Nth(s, n), End(s, Nth(s, n)))
    BY <2>2, EndFacts
  <2>4. End(s, Nth(s, n)) \in (Nth(s, n) - 1)..Len(s)
    BY <2>3 DEF IsEnd
  <2>5. QED
    BY <1>1, <2>1, <2>2, <2>3, <2>4
<1>5. ASSUME NEW n \in 1..Count(s), End(s, Nth(s, n)) < Len(s)
      PROVE  /\ n < Count(s) /\ s[End(s, Nth(s, n)) + 1] = "/"
             /\ Nth(s, n + 1) = End(s, Nth(s, n)) + 2
  <2> DEFINE i == Nth(s, n)
             k == End(s, i) + 2
  <2>1. i \in Starts(s) /\ Rank(s, i) = n - 1
    BY <1>4
  <2>2. s[End(s, i) + 1] = "/" /\ k \in Starts(s) /\ Rank(s, k) = Rank(s, i) + 1
    BY <1>5, <2>1, RankStep
  <2>3. Rank(s, k) = n /\ n < Count(s)
    BY <1>1, <2>1, <2>2
  <2>4. Nth(s, n + 1) = k
    BY <2>2, <2>3, NthFacts
  <2>5. QED
    BY <2>2, <2>3, <2>4
<1>6. ASSUME NEW n \in 1..Count(s), End(s, Nth(s, n)) = Len(s)
      PROVE  n = Count(s)
  <2>1. Count(s) = Rank(s, Nth(s, n)) + 1
    BY <1>4, <1>6, RankStep
  <2>2. QED
    BY <1>1, <1>4, <2>1
<1>7. ASSUME NEW n \in 1..Count(s), n # Count(s)
      PROVE  End(s, Nth(s, n)) < Len(s)
  BY <1>1, <1>4, <1>6, <1>7
<1>8. End(s, Nth(s, Count(s))) = Len(s)
  <2>1. Count(s) \in 1..Count(s)
    BY <1>1, <1>2
  <2> DEFINE n == Count(s)
             e == End(s, Nth(s, n))
  <2>2. e \in Int /\ e <= Len(s) /\ ~(e < Len(s))
    BY <1>1, <1>4, <1>5, <2>1
  <2> HIDE DEF n, e
  <2>3. e = Len(s)
    BY <1>1, <2>2
  <2>4. QED
    BY <2>3 DEF n, e
<1>9. QED
  BY <1>1, <1>2, <1>3, <1>4, <1>5, <1>7, <1>8

\* What SubSeq returns.
LEMMA SliceFacts ==
  ASSUME NEW C, NEW s \in Seq(C)
  PROVE  \A i \in Nat \ {0} : \A e \in (i - 1)..Len(s) :
           /\ SubSeq(s, i, e) \in Seq(C) /\ Len(SubSeq(s, i, e)) = (e - i) + 1
           /\ \A j \in i..e : SubSeq(s, i, e)[(j - i) + 1] = s[j]
<1> SUFFICES ASSUME NEW i \in Nat \ {0}, NEW e \in (i - 1)..Len(s)
             PROVE  /\ SubSeq(s, i, e) \in Seq(C) /\ Len(SubSeq(s, i, e)) = (e - i) + 1
                    /\ \A j \in i..e : SubSeq(s, i, e)[(j - i) + 1] = s[j]
  OBVIOUS
<1>1. Len(s) \in Nat
  OBVIOUS
<1>2. SubSeq(s, i, e) \in Seq(C) /\ Len(SubSeq(s, i, e)) = (e - i) + 1
  BY <1>1
<1>3. ASSUME NEW j \in i..e
      PROVE  SubSeq(s, i, e)[(j - i) + 1] = s[j]
  <2>1. (j - i) + 1 \in 1..((e - i) + 1) /\ i + ((j - i) + 1) - 1 = j
    BY <1>1
  <2>2. QED
    BY <1>1, <2>1
<1>4. QED
  BY <1>2, <1>3

LEMMA SeqExtensional ==
  ASSUME NEW C, NEW s \in Seq(C), NEW t \in Seq(C), Len(s) = Len(t), \A j \in 1..Len(s) : s[j] = t[j]
  PROVE  s = t
OBVIOUS

LEMMA OneSlice ==
  ASSUME NEW C, NEW s \in Seq(C), NEW i \in 1..Len(s)
  PROVE  SubSeq(s, i, i) = <<s[i]>>
<1> DEFINE a == SubSeq(s, i, i)
           b == <<s[i]>>
<1>1. a \in Seq(C) /\ Len(a) = (i - i) + 1 /\ a[(i - i) + 1] = s[i]
  BY SliceFacts
<1>2. b \in Seq(C) /\ Len(b) = 1 /\ b[1] = s[i]
  OBVIOUS
<1>3. (i - i) + 1 = 1
  OBVIOUS
<1> HIDE DEF a, b
<1>4. a = b
  BY <1>1, <1>2, <1>3, SeqExtensional
<1>5. QED
  BY <1>4 DEF a, b

\* Two slices that are the same have the same length and characters.
LEMMA SameSlice ==
  ASSUME NEW C, NEW s \in Seq(C), NEW t \in Seq(C)
  PROVE  \A i \in Nat \ {0} : \A e \in (i - 1)..Len(s), f \in (i - 1)..Len(t) :
           SubSeq(s, i, e) = SubSeq(t, i, f) => e = f /\ \A j \in i..e : s[j] = t[j]
<1> SUFFICES ASSUME NEW i \in Nat \ {0}, NEW e \in (i - 1)..Len(s), NEW f \in (i - 1)..Len(t),
                    SubSeq(s, i, e) = SubSeq(t, i, f)
             PROVE  e = f /\ \A j \in i..e : s[j] = t[j]
  OBVIOUS
<1>1. Len(s) \in Nat /\ Len(t) \in Nat
  OBVIOUS
<1>2. Len(SubSeq(s, i, e)) = (e - i) + 1 /\ Len(SubSeq(t, i, f)) = (f - i) + 1
  BY SliceFacts
<1>3. e = f
  BY <1>1, <1>2
<1>4. \A j \in i..e : SubSeq(s, i, e)[(j - i) + 1] = s[j] /\ SubSeq(t, i, f)[(j - i) + 1] = t[j]
  BY <1>3, SliceFacts
<1>5. QED
  BY <1>3, <1>4

\* Strings whose first n components are the same are the same up to there.
LEMMA SameComponents ==
  ASSUME NEW C, NEW s \in Seq(C), NEW t \in Seq(C), NEW m \in Nat, m <= Count(s), m <= Count(t),
         \A n \in 1..m : Component(s, Nth(s, n)) = Component(t, Nth(t, n)),
         NEW n \in 1..m
  PROVE  /\ Nth(s, n) = Nth(t, n) /\ End(s, Nth(s, n)) = End(t, Nth(t, n))
         /\ \A j \in 1..End(s, Nth(s, n)) : s[j] = t[j]
<1> DEFINE Same(k) == /\ Nth(s, k) = Nth(t, k) /\ End(s, Nth(s, k)) = End(t, Nth(t, k))
                      /\ \A j \in 1..End(s, Nth(s, k)) : s[j] = t[j]
           Bad == {k \in 1..m : ~Same(k)}
<1> SUFFICES ASSUME Bad # {}
             PROVE  FALSE
  OBVIOUS
<1>1. PICK k \in Bad : \A l \in Bad : k <= l
  <2>1. Bad \in SUBSET Nat
    OBVIOUS
  <2>2. QED
    BY <2>1, LeastExists
<1>2. k \in 1..m /\ ~Same(k) /\ \A l \in 1..m : l < k => Same(l)
  BY <1>1
<1>3. /\ Len(s) \in Nat /\ Len(t) \in Nat /\ k \in Nat
      /\ Count(s) \in Nat /\ Count(t) \in Nat /\ k \in 1..Count(s) /\ k \in 1..Count(t)
  BY <1>2, NthStep
<1>4. Nth(s, k) = Nth(t, k) /\ \A j \in 1..(Nth(s, k) - 1) : s[j] = t[j]
  <2>1. CASE k = 1
    <3>1. Nth(s, 1) = 1 /\ Nth(t, 1) = 1
      BY NthStep
    <3>2. QED
      BY <2>1, <3>1
  <2>2. CASE k # 1
    <3> DEFINE l == k - 1
               e == End(s, Nth(s, l))
    <3>1. l \in 1..m /\ l < k /\ l \in 1..Count(s) /\ l \in 1..Count(t) /\ l # Count(s) /\ l # Count(t) /\ l + 1 = k
      BY <1>2, <1>3, <2>2
    <3>2. Same(l)
      BY <1>2, <3>1
    <3>3. /\ e < Len(s) /\ s[e + 1] = "/" /\ Nth(s, k) = e + 2
          /\ IsEnd(s, Nth(s, l), e) /\ Nth(s, l) \in 1..(Len(s) + 1)
      BY <3>1, NthStep
    <3>4. e \in (Nth(s, l) - 1)..Len(s)
      BY <3>3 DEF IsEnd
    <3>5. e \in Nat
      BY <1>3, <3>3, <3>4
    <3>6. t[e + 1] = "/" /\ Nth(t, k) = e + 2
      <4>1. /\ t[End(t, Nth(t, l)) + 1] = "/" /\ Nth(t, l + 1) = End(t, Nth(t, l)) + 2
        BY <3>1, NthStep
      <4>2. QED
        BY <3>1, <3>2, <4>1
    <3>7. \A j \in 1..e : s[j] = t[j]
      BY <3>2
    <3> HIDE DEF e, l, Same
    <3>8. \A j \in 1..(e + 1) : s[j] = t[j]
      BY <3>3, <3>5, <3>6, <3>7
    <3>9. QED
      BY <3>3, <3>5, <3>6, <3>8
  <2>3. QED
    BY <2>1, <2>2
<1> DEFINE i == Nth(s, k)
           e == End(s, i)
           f == End(t, i)
<1>5. i \in Nat \ {0} /\ e \in (i - 1)..Len(s) /\ f \in (i - 1)..Len(t)
  <2>1. /\ i \in 1..(Len(s) + 1) /\ IsEnd(s, i, e)
        /\ Nth(t, k) \in 1..(Len(t) + 1) /\ IsEnd(t, Nth(t, k), End(t, Nth(t, k)))
    BY <1>3, NthStep
  <2>2. IsEnd(t, i, f)
    BY <1>4, <2>1
  <2>3. Len(s) \in Nat
    OBVIOUS
  <2> HIDE DEF i, e, f
  <2>4. i \in Nat \ {0}
    BY <2>1, <2>3
  <2>5. e \in (i - 1)..Len(s)
    BY <2>1 DEF IsEnd
  <2>6. f \in (i - 1)..Len(t)
    BY <2>2 DEF IsEnd
  <2>7. QED
    BY <2>4, <2>5, <2>6
<1>6. SubSeq(s, i, e) = SubSeq(t, i, f)
  BY <1>2, <1>4, SplitIs
<1>7. e = f /\ \A j \in i..e : s[j] = t[j]
  <2> HIDE DEF i, e, f, Same, Bad
  <2>1. QED
    BY <1>5, <1>6, SameSlice
<1>8. \A j \in 1..e : s[j] = t[j]
  <2>1. \A j \in 1..(i - 1) : s[j] = t[j]
    BY <1>4
  <2> HIDE DEF i, e
  <2>2. QED
    BY <1>3, <1>5, <1>7, <2>1
<1>9. QED
  BY <1>2, <1>4, <1>7, <1>8

\* q and the part of s up to a slash, or to its end, are the same.
Cut(q, s) ==
  /\ Len(q) <= Len(s) /\ \A j \in 1..Len(q) : s[j] = q[j]
  /\ Len(q) = Len(s) \/ s[Len(q) + 1] = "/"

\* Then the components of q are the first ones of s.
LEMMA CutComponents ==
  ASSUME NEW C, NEW q \in Seq(C), NEW s \in Seq(C), Cut(q, s)
  PROVE  /\ Count(q) \in Nat \ {0} /\ Count(q) <= Count(s)
         /\ \A n \in 1..Count(q) : Component(s, Nth(s, n)) = Component(q, Nth(q, n))
         /\ Len(q) < Len(s) =>
              /\ Count(q) < Count(s) /\ Nth(s, Count(q) + 1) = Len(q) + 2
<1>1. /\ Len(q) \in Nat /\ Len(s) \in Nat /\ Len(q) <= Len(s)
      /\ Starts(q) \subseteq 1..(Len(q) + 1) /\ Starts(s) \subseteq 1..(Len(s) + 1)
      /\ IsFiniteSet(Starts(q)) /\ IsFiniteSet(Starts(s))
      /\ Count(q) \in Nat \ {0} /\ Count(s) \in Nat
  BY StartsFacts, RankFacts, NthStep DEF Cut
<1>2. \A i \in 1..(Len(q) + 1) : i \in Starts(q) <=> i \in Starts(s)
  <2> SUFFICES ASSUME NEW i \in 1..(Len(q) + 1)
               PROVE  i \in Starts(q) <=> i \in Starts(s)
    OBVIOUS
  <2>1. CASE i = 1
    BY <2>1, StartsFacts
  <2>2. CASE i # 1
    <3>1. i \in 2..(Len(q) + 1) /\ i \in 2..(Len(s) + 1) /\ i - 1 \in 1..Len(q)
      BY <1>1, <2>2
    <3>2. (i \in Starts(q) <=> q[i - 1] = "/") /\ (i \in Starts(s) <=> s[i - 1] = "/")
      BY <3>1, StartsFacts
    <3>3. s[i - 1] = q[i - 1]
      BY <3>1 DEF Cut
    <3>4. QED
      BY <3>2, <3>3
  <2>3. QED
    BY <2>1, <2>2
<1>3. ASSUME NEW i \in Starts(q)
      PROVE  i \in Starts(s) /\ Rank(s, i) = Rank(q, i) /\ Component(s, i) = Component(q, i)
  <2>1. i \in 1..(Len(q) + 1) /\ i \in Starts(s) /\ i \in 1..(Len(s) + 1)
    BY <1>1, <1>2
  <2>2. {j \in Starts(s) : j < i} = {j \in Starts(q) : j < i}
    BY <1>1, <1>2, <2>1
  <2> DEFINE e == End(q, i)
  <2>3. /\ e \in (i - 1)..Len(q) /\ \A j \in i..e : q[j] # "/"
        /\ e = Len(q) \/ q[e + 1] = "/"
    BY <2>1, EndFacts DEF IsEnd
  <2> HIDE DEF e
  <2>4. IsEnd(s, i, e)
    <3>1. e \in (i - 1)..Len(s)
      BY <1>1, <2>1, <2>3
    <3>2. \A j \in i..e : s[j] # "/"
      <4> SUFFICES ASSUME NEW j \in i..e
                   PROVE  s[j] # "/"
        OBVIOUS
      <4>1. j \in 1..Len(q)
        BY <1>1, <2>1, <2>3
      <4>2. QED
        BY <2>3, <4>1 DEF Cut
    <3>3. e = Len(s) \/ s[e + 1] = "/"
      <4>1. CASE e = Len(q)
        BY <4>1 DEF Cut
      <4>2. CASE e # Len(q)
        <5>1. e + 1 \in 1..Len(q)
          BY <1>1, <2>1, <2>3, <4>2
        <5>2. QED
          BY <2>3, <4>2, <5>1 DEF Cut
      <4>3. QED
        BY <4>1, <4>2
    <3>4. QED
      BY <3>1, <3>2, <3>3 DEF IsEnd
  <2>5. End(s, i) = e
    BY <2>1, <2>4, EndFacts
  <2>6. SubSeq(s, i, e) = SubSeq(q, i, e)
    <3>1. i \in Nat \ {0} /\ e \in Int /\ i - 1 <= e /\ e <= Len(q)
      BY <1>1, <2>1, <2>3
    <3>2. SubSeq(s, i, e) = [j \in 1..((e - i) + 1) |-> s[(i + j) - 1]]
      BY <1>1, <3>1
    <3>3. SubSeq(q, i, e) = [j \in 1..((e - i) + 1) |-> q[(i + j) - 1]]
      BY <1>1, <3>1
    <3>4. \A j \in 1..((e - i) + 1) : s[(i + j) - 1] = q[(i + j) - 1]
      <4> SUFFICES ASSUME NEW j \in 1..((e - i) + 1)
                   PROVE  s[(i + j) - 1] = q[(i + j) - 1]
        OBVIOUS
      <4>1. (i + j) - 1 \in 1..Len(q)
        BY <1>1, <3>1
      <4>2. QED
        BY <4>1 DEF Cut
    <3>5. QED
      BY <3>2, <3>3, <3>4
  <2>7. Component(s, i) = Component(q, i)
    BY <2>5, <2>6, SplitIs DEF e
  <2>8. QED
    BY <2>1, <2>2, <2>7 DEF Rank
<1>4. ASSUME NEW n \in 1..Count(q)
      PROVE  n \in 1..Count(s) /\ Component(s, Nth(s, n)) = Component(q, Nth(q, n))
  <2> DEFINE i == Nth(q, n)
  <2>1. i \in Starts(q) /\ Rank(q, i) = n - 1
    BY NthFacts
  <2>2. i \in Starts(s) /\ Rank(s, i) = n - 1 /\ Component(s, i) = Component(q, i)
    BY <1>3, <2>1
  <2>3. Rank(s, i) + 1 \in 1..Count(s) /\ Nth(s, Rank(s, i) + 1) = i
    BY <2>2, NthFacts
  <2>4. Rank(s, i) + 1 = n
    BY <2>2
  <2>5. QED
    BY <2>2, <2>3, <2>4
<1>5. Count(q) <= Count(s)
  BY <1>1, <1>4
<1>6. ASSUME Len(q) < Len(s)
      PROVE  Count(q) < Count(s) /\ Nth(s, Count(q) + 1) = Len(q) + 2
  <2> DEFINE k == Len(q) + 2
  <2>1. k \in 2..(Len(s) + 1) /\ s[k - 1] = "/"
    BY <1>1, <1>6 DEF Cut
  <2>2. k \in Starts(s)
    BY <2>1, StartsFacts
  <2>3. {j \in Starts(s) : j < k} = Starts(q)
    BY <1>1, <1>2
  <2>4. Rank(s, k) = Count(q)
    BY <2>3 DEF Rank, Count
  <2>5. Rank(s, k) + 1 \in 1..Count(s) /\ Nth(s, Rank(s, k) + 1) = k
    BY <2>2, NthFacts
  <2>6. QED
    BY <1>1, <2>4, <2>5
<1>7. QED
  BY <1>1, <1>4, <1>5, <1>6

LEMMA SamePrefix ==
  ASSUME NEW D, NEW a \in Seq(D), NEW b \in Seq(D)
  PROVE  \A n \in Nat : n <= Len(a) /\ n <= Len(b) =>
           (SubSeq(a, 1, n) = SubSeq(b, 1, n) <=> \A k \in 1..n : a[k] = b[k])
<1> SUFFICES ASSUME NEW n \in Nat, n <= Len(a), n <= Len(b)
             PROVE  SubSeq(a, 1, n) = SubSeq(b, 1, n) <=> \A k \in 1..n : a[k] = b[k]
  OBVIOUS
<1>1. SubSeq(a, 1, n) = [k \in 1..n |-> a[k]] /\ SubSeq(b, 1, n) = [k \in 1..n |-> b[k]]
  OBVIOUS
<1>2. QED
  BY <1>1

\* Split returns the sequence of the components.
LEMMA SplitFacts ==
  ASSUME NEW C, NEW s \in Seq(C)
  PROVE  /\ Split(s) \in Seq(Seq(C)) /\ Len(Split(s)) = Count(s)
         /\ \A n \in 1..Count(s) : Split(s)[n] = Component(s, Nth(s, n))
<1>1. Count(s) \in Nat
  BY NthStep
<1>2. Split(s) = [n \in 1..Count(s) |-> Component(s, Nth(s, n))]
  BY SplitIs
<1>3. ASSUME NEW n \in 1..Count(s)
      PROVE  Component(s, Nth(s, n)) \in Seq(C)
  <2> DEFINE i == Nth(s, n)
             e == End(s, i)
  <2>1. i \in 1..(Len(s) + 1) /\ e \in (i - 1)..Len(s)
    BY NthStep DEF IsEnd
  <2> HIDE DEF i, e
  <2>2. SubSeq(s, i, e) \in Seq(C)
    BY <2>1
  <2>3. QED
    BY <2>2, SplitIs DEF i, e
<1>4. QED
  BY <1>1, <1>2, <1>3

\* A string is determined by its components.
LEMMA SplitInjective ==
  ASSUME NEW C, NEW s \in Seq(C), NEW t \in Seq(C), Split(s) = Split(t)
  PROVE  s = t
<1> DEFINE m == Count(s)
<1>1. m = Count(t) /\ m \in Nat \ {0} /\ m \in 1..m
  BY SplitFacts, NthStep
<1>2. \A n \in 1..m : Component(s, Nth(s, n)) = Component(t, Nth(t, n))
  BY <1>1, SplitFacts
<1>3. End(s, Nth(s, m)) = Len(s) /\ End(t, Nth(t, m)) = Len(t)
  BY <1>1, NthStep
<1>4. /\ End(s, Nth(s, m)) = End(t, Nth(t, m))
      /\ \A j \in 1..End(s, Nth(s, m)) : s[j] = t[j]
  <2>1. m <= Count(s) /\ m <= Count(t)
    BY <1>1
  <2> HIDE DEF m
  <2>2. QED
    BY <1>1, <1>2, <2>1, SameComponents
<1>5. QED
  BY <1>3, <1>4, SeqExtensional

\* What a rule with a terminal star grants, in terms of the string before it.
LEMMA SubtreeGrants ==
  ASSUME NEW C, NEW p \in Seq(C), NEW rule \in Seq(C), NEW q \in Seq(C),
         Len(rule) = Len(q) + 2, \A j \in 1..Len(q) : rule[j] = q[j],
         rule[Len(q) + 1] = "/", rule[Len(q) + 2] = "*"
  PROVE  Grants(rule, p) <=> Len(q) < Len(p) /\ Cut(q, p)
<1> DEFINE L == Len(rule)
           N == Count(q)
           r == Split(rule)
           c == Split(p)
<1>1. L \in Nat /\ Len(q) \in Nat /\ Len(p) \in Nat /\ Len(q) + 2 = L
  OBVIOUS
<1>2. Cut(q, rule) /\ Len(q) < L
  BY <1>1 DEF Cut
<1>3. /\ N \in Nat \ {0} /\ N < Count(rule) /\ Nth(rule, N + 1) = L /\ Count(rule) \in Nat
      /\ \A n \in 1..N : Component(rule, Nth(rule, n)) = Component(q, Nth(q, n))
  BY <1>1, <1>2, CutComponents, NthStep
<1>4. End(rule, L) = L
  <2>1. IsEnd(rule, L, L) /\ L \in 1..(Len(rule) + 1)
    BY <1>1 DEF IsEnd
  <2>2. QED
    BY <2>1, EndFacts
<1>5. Count(rule) = N + 1
  <2>1. N + 1 \in 1..Count(rule)
    BY <1>3
  <2>2. N + 1 # Count(rule) => End(rule, Nth(rule, N + 1)) < Len(rule)
    BY <2>1, NthStep
  <2>3. QED
    BY <1>1, <1>3, <1>4, <2>2
<1>6. r[N + 1] = <<"*">>
  <2>1. r[N + 1] = SubSeq(rule, L, L)
    <3>1. N + 1 \in 1..Count(rule)
      BY <1>3, <1>5
    <3>2. r[N + 1] = Component(rule, Nth(rule, N + 1))
      BY <3>1, SplitFacts
    <3>3. Component(rule, L) = SubSeq(rule, L, End(rule, L))
      BY SplitIs
    <3>4. QED
      BY <1>3, <1>4, <3>2, <3>3
  <2>2. SubSeq(rule, L, L) = <<rule[L]>>
    BY <1>1, OneSlice
  <2>3. QED
    BY <1>1, <2>1, <2>2
<1>7. /\ Len(r) = N + 1 /\ r \in Seq(Seq(C)) /\ c \in Seq(Seq(C)) /\ Len(c) = Count(p)
      /\ Count(p) \in Nat
      /\ \A n \in 1..N : r[n] = Component(q, Nth(q, n))
      /\ \A n \in 1..Count(p) : c[n] = Component(p, Nth(p, n))
  <2>1. \A n \in 1..N : n \in 1..Count(rule)
    BY <1>3
  <2>2. QED
    BY <1>3, <1>5, <2>1, SplitFacts, NthStep
<1>8. Grants(rule, p) <=> Count(p) > N /\ SubSeq(c, 1, N) = SubSeq(r, 1, N)
  <2>1. Len(r) - 1 = N /\ r[Len(r)] = <<"*">> /\ Len(c) = Count(p)
    BY <1>3, <1>6, <1>7
  <2> HIDE DEF N
  <2>2. QED
    BY <2>1 DEF Grants
<1>9. Grants(rule, p) <=>
        Count(p) > N /\ \A n \in 1..N : Component(p, Nth(p, n)) = Component(q, Nth(q, n))
  <2>1. ASSUME Count(p) > N
        PROVE  SubSeq(c, 1, N) = SubSeq(r, 1, N) <=>
                 \A n \in 1..N : Component(p, Nth(p, n)) = Component(q, Nth(q, n))
    <3>1. N \in Nat /\ N <= Len(c) /\ N <= Len(r) /\ \A n \in 1..N : n \in 1..Count(p)
      BY <1>3, <1>7, <2>1
    <3>2. SubSeq(c, 1, N) = SubSeq(r, 1, N) <=> \A n \in 1..N : c[n] = r[n]
      <4> DEFINE D == Seq(C)
      <4>1. c \in Seq(D) /\ r \in Seq(D)
        BY <1>7
      <4>2. N \in Nat /\ N <= Len(c) /\ N <= Len(r)
        BY <3>1
      <4> HIDE DEF c, r, N, D
      <4>3. \A n \in Nat : n <= Len(c) /\ n <= Len(r) =>
              (SubSeq(c, 1, n) = SubSeq(r, 1, n) <=> \A k \in 1..n : c[k] = r[k])
        BY <4>1, SamePrefix
      <4>4. QED
        BY <4>2, <4>3, Zenon
    <3>3. QED
      BY <1>7, <3>1, <3>2
  <2>2. QED
    BY <1>8, <2>1
<1>10. ASSUME Len(q) < Len(p), Cut(q, p)
       PROVE  Grants(rule, p)
  BY <1>3, <1>7, <1>9, <1>10, CutComponents
<1>11. ASSUME Grants(rule, p)
       PROVE  Len(q) < Len(p) /\ Cut(q, p)
  <2>1. Count(p) > N /\ \A n \in 1..N : Component(q, Nth(q, n)) = Component(p, Nth(p, n))
    BY <1>9, <1>11
  <2>2. N \in Nat /\ N <= Count(q) /\ N <= Count(p) /\ N \in 1..N /\ N \in 1..Count(p) /\ N # Count(p)
    <3>1. N \in Nat \ {0} /\ N <= N /\ Count(p) \in Nat /\ Count(p) > N
      BY <1>3, <1>7, <2>1
    <3>2. N = Count(q)
      OBVIOUS
    <3> HIDE DEF N
    <3>3. QED
      BY <3>1, <3>2
  <2>3. /\ End(q, Nth(q, N)) = End(p, Nth(p, N))
        /\ \A j \in 1..End(q, Nth(q, N)) : q[j] = p[j]
    <3> HIDE DEF N
    <3>1. QED
      BY <2>1, <2>2, SameComponents
  <2>4. End(q, Nth(q, N)) = Len(q)
    BY NthStep
  <2>5. End(p, Nth(p, N)) < Len(p) /\ p[End(p, Nth(p, N)) + 1] = "/"
    BY <2>2, NthStep
  <2>6. QED
    BY <1>1, <2>3, <2>4, <2>5 DEF Cut
<1>12. QED
  BY <1>10, <1>11

\* The loop of Allowed compares strings; a rule that ValidateRules accepts means
\* components.  The two agree on every path, of any length: a subtree rule stops
\* at the slash, grants every depth below it and not the directory itself.
THEOREM RuleMeaning ==
  ASSUME NEW p \in Seq(STRING), NEW rule \in Seq(STRING), ValidRule(rule)
  PROVE  Matches(p, rule) <=> Grants(rule, p)
<1> DEFINE L == Len(rule)
           slashStar == <<"/", "*">>
           star == <<"*">>
<1>1. L \in Nat /\ Len(p) \in Nat /\ Len(slashStar) = 2 /\ Len(star) = 1
  OBVIOUS
<1>2. CASE HasSuffix(rule, slashStar)
  <2>1. 2 <= L /\ SubSeq(rule, L - 1, L) = slashStar
    BY <1>1, <1>2 DEF HasSuffix
  <2>2. rule[L - 1] = "/" /\ rule[L] = "*"
    <3> DEFINE w == SubSeq(rule, L - 1, L)
    <3>1. L - 1 \in Nat \ {0} /\ L \in ((L - 1) - 1)..L /\ L - 1 \in (L - 1)..L /\ L \in (L - 1)..L
          /\ ((L - 1) - (L - 1)) + 1 = 1 /\ (L - (L - 1)) + 1 = 2
      BY <1>1, <2>1
    <3>2. w[((L - 1) - (L - 1)) + 1] = rule[L - 1] /\ w[(L - (L - 1)) + 1] = rule[L]
      BY <3>1, SliceFacts
    <3>3. slashStar[1] = "/" /\ slashStar[2] = "*"
      OBVIOUS
    <3> HIDE DEF w, slashStar, L
    <3>4. QED
      BY <2>1, <3>1, <3>2, <3>3 DEF w
  <2>3. HasSuffix(rule, star)
    <3>1. SubSeq(rule, L, L) = <<rule[L]>>
      BY <1>1, <2>1, OneSlice
    <3>2. QED
      BY <1>1, <2>1, <2>2, <3>1 DEF HasSuffix
  <2> DEFINE q == SubSeq(rule, 1, L - 2)
             u == SubSeq(rule, 1, L - 1)
  <2>4. /\ q \in Seq(STRING) /\ Len(q) = L - 2 /\ \A j \in 1..Len(q) : q[j] = rule[j]
        /\ u \in Seq(STRING) /\ Len(u) = L - 1 /\ \A j \in 1..(L - 1) : u[j] = rule[j]
    <3>1. ASSUME NEW k \in 0..L
          PROVE  LET v == SubSeq(rule, 1, k)
                 IN  v \in Seq(STRING) /\ Len(v) = k /\ \A j \in 1..k : v[j] = rule[j]
      <4> DEFINE v == SubSeq(rule, 1, k)
      <4>1. /\ v \in Seq(STRING) /\ Len(v) = (k - 1) + 1
            /\ \A j \in 1..k : v[(j - 1) + 1] = rule[j]
        BY SliceFacts
      <4>2. (k - 1) + 1 = k /\ \A j \in 1..k : (j - 1) + 1 = j
        BY <1>1
      <4> HIDE DEF v
      <4>3. v \in Seq(STRING) /\ Len(v) = k /\ \A j \in 1..k : v[j] = rule[j]
        BY <4>1, <4>2
      <4>4. QED
        BY <4>3 DEF v
    <3>2. L - 2 \in 0..L /\ L - 1 \in 0..L
      BY <1>1, <2>1
    <3>3. QED
      BY <3>1, <3>2
  <2>5. TrimSuffix(rule, star) = u
    BY <1>1, <2>3 DEF TrimSuffix
  <2> HIDE DEF q, u
  <2>6. Grants(rule, p) <=> Len(q) < Len(p) /\ Cut(q, p)
    <3>1. /\ L = Len(q) + 2 /\ \A j \in 1..Len(q) : rule[j] = q[j]
          /\ rule[Len(q) + 1] = "/" /\ rule[Len(q) + 2] = "*"
      BY <1>1, <2>1, <2>2, <2>4
    <3>2. QED
      BY <2>4, <3>1, SubtreeGrants
  <2>7. Matches(p, rule) <=> Len(u) <= Len(p) /\ SubSeq(p, 1, Len(u)) = u
    BY <1>2, <2>5 DEF Matches, HasPrefix
  <2>8. u = SubSeq(u, 1, Len(u))
    BY <2>4
  <2>9. Matches(p, rule) <=> Len(u) <= Len(p) /\ \A j \in 1..Len(u) : p[j] = u[j]
    <3>1. Len(u) \in Nat /\ Len(u) <= Len(u)
      BY <1>1, <2>1, <2>4
    <3>2. Len(u) <= Len(p) =>
            (SubSeq(p, 1, Len(u)) = SubSeq(u, 1, Len(u)) <=> \A j \in 1..Len(u) : p[j] = u[j])
      BY <2>4, <3>1, SamePrefix
    <3>3. QED
      BY <2>7, <2>8, <3>2
  <2>10. Len(u) = Len(q) + 1 /\ Len(q) \in Nat /\ u[Len(q) + 1] = "/" /\ \A j \in 1..Len(q) : u[j] = q[j]
    BY <1>1, <2>1, <2>2, <2>4
  <2>11. Matches(p, rule) <=> Len(q) < Len(p) /\ Cut(q, p)
    <3>1. Len(u) <= Len(p) <=> Len(q) < Len(p)
      BY <1>1, <2>10
    <3>2. (\A j \in 1..Len(u) : p[j] = u[j]) <=> (\A j \in 1..Len(q) : p[j] = q[j]) /\ p[Len(q) + 1] = "/"
      BY <2>10
    <3>3. Len(q) < Len(p) => (Cut(q, p) <=> (\A j \in 1..Len(q) : p[j] = q[j]) /\ p[Len(q) + 1] = "/")
      BY <1>1, <2>10 DEF Cut
    <3>4. QED
      BY <2>9, <3>1, <3>2, <3>3
  <2>12. QED
    BY <2>6, <2>11
<1>3. CASE ~HasSuffix(rule, slashStar)
  <2> DEFINE r == Split(rule)
             n == Count(rule)
             i == Nth(rule, n)
  <2>1. Normal(rule)
    BY <1>3 DEF ValidRule, TrimSuffix
  <2>2. \A j \in 1..L : rule[j] # "*"
    BY <2>1 DEF Normal, Forbidden
  <2>3. Len(r) = n /\ n \in Nat \ {0} /\ r[n] = SubSeq(rule, i, L) /\ i \in 1..(L + 1)
    <3>1. Len(r) = n /\ n \in Nat \ {0} /\ n \in 1..n
      BY SplitFacts, NthStep
    <3>2. r[n] = Component(rule, i)
      BY <3>1, SplitFacts
    <3>3. End(rule, i) = L /\ i \in 1..(L + 1)
      BY <3>1, NthStep
    <3>4. QED
      BY <3>1, <3>2, <3>3, SplitIs
  <2>4. r[n] # star
    <3> SUFFICES ASSUME SubSeq(rule, i, L) = star
                 PROVE  FALSE
      BY <2>3
    <3> DEFINE v == SubSeq(rule, i, L)
    <3>1. /\ i \in Nat \ {0} /\ L \in (i - 1)..L
          /\ Len(v) = (L - i) + 1 /\ \A j \in i..L : v[(j - i) + 1] = rule[j]
      <4> HIDE DEF i
      <4>1. i \in Nat \ {0} /\ L \in (i - 1)..L
        BY <1>1, <2>3
      <4>2. \A k \in Nat \ {0} : \A e \in (k - 1)..L :
              /\ Len(SubSeq(rule, k, e)) = (e - k) + 1
              /\ \A j \in k..e : SubSeq(rule, k, e)[(j - k) + 1] = rule[j]
        BY SliceFacts
      <4> HIDE DEF L
      <4>3. QED
        BY <4>1, <4>2
    <3>2. v = star /\ star[1] = "*" /\ Len(v) = 1
      OBVIOUS
    <3> HIDE DEF i, v, star, L
    <3>3. i \in 1..L /\ i \in i..L /\ (i - i) + 1 = 1
      <4>1. i \in Nat \ {0} /\ L \in Nat /\ (L - i) + 1 = 1
        BY <1>1, <3>1, <3>2
      <4>2. QED
        BY <4>1
    <3>4. rule[i] = "*"
      BY <3>1, <3>2, <3>3
    <3>5. QED
      BY <2>2, <3>3, <3>4
  <2>5. Grants(rule, p) <=> Split(p) = Split(rule)
    BY <2>3, <2>4 DEF Grants
  <2>6. Split(p) = Split(rule) <=> p = rule
    BY SplitInjective
  <2>7. QED
    BY <1>3, <2>5, <2>6 DEF Matches
<1>4. QED
  BY <1>2, <1>3

\* A token opens exactly what the rules of the one identity behind it grant, by
\* components, in every reachable state: the index leads to that identity and no
\* other, and the comparison of strings means what the rule says.
THEOREM AccessRight == Spec => []AccessFollowsRules
<1>1. Inv => AccessFollowsRules
  <2> SUFFICES ASSUME Inv, NEW t \in Drawn, NEW p \in Probes
               PROVE  /\ Readable(t, p) <=>
                           /\ Normal(p)
                           /\ \E id \in DOMAIN agents :
                                /\ agents[id].hash = Hash(t) /\ ~agents[id].revoked
                                /\ \E rule \in agents[id].paths : Grants(rule, p)
                      /\ Writable(t, p) <=>
                           /\ Normal(p)
                           /\ \E id \in DOMAIN writers :
                                /\ writers[id].hash = Hash(t) /\ ~writers[id].revoked
                                /\ \E rule \in writers[id].paths : Grants(rule, p)
    BY DEF AccessFollowsRules
  <2>1. \A rule \in Rules : Matches(p, rule) <=> Grants(rule, p)
    BY StringsAssumption, RuleMeaning
  <2>2. /\ \A id \in DOMAIN agents : agents[id].paths \subseteq Rules
        /\ \A id \in DOMAIN writers : writers[id].paths \subseteq Rules
    BY DEF Inv, TypeOK, AgentRow, WriterRow
  <2>3. Readable(t, p) <=>
          /\ Normal(p)
          /\ \E id \in DOMAIN agents :
               /\ agents[id].hash = Hash(t) /\ ~agents[id].revoked
               /\ \E rule \in agents[id].paths : Matches(p, rule)
    <3>1. \A id \in DOMAIN agents : agents[id].hash = Hash(t) /\ ~agents[id].revoked =>
            Hash(t) \in DOMAIN credentials /\ credentials[Hash(t)] = id
      BY HashFacts DEF Inv, CredentialIndexExact, Has
    <3> QED BY <3>1 DEF Readable, AuthenticatesAgent, Allowed, Has
  <2>4. Writable(t, p) <=>
          /\ Normal(p)
          /\ \E id \in DOMAIN writers :
               /\ writers[id].hash = Hash(t) /\ ~writers[id].revoked
               /\ \E rule \in writers[id].paths : Matches(p, rule)
    <3>1. \A id \in DOMAIN writers : writers[id].hash = Hash(t) /\ ~writers[id].revoked =>
            Hash(t) \in DOMAIN writerTokens /\ writerTokens[Hash(t)] = id
      BY DEF Inv, WriterIndexExact, Has
    <3> QED BY <3>1 DEF Writable, AuthenticatesWriter, Allowed, Has
  <2> QED BY <2>1, <2>2, <2>3, <2>4
<1> QED BY <1>1, Invariance, PTL
==================================================
