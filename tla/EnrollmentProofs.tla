-------------------------- MODULE EnrollmentProofs --------------------------
(***************************************************************************)
(* Enrollment for any number of agents on one state directory.  What makes *)
(* the promises inductive is that files and processes know of one identity *)
(* at a time, the one last issued: a process may carry what it read before *)
(* it had the lock, but nothing of an earlier identity, because the        *)
(* operator stops the agents before replacing it.                          *)
(***************************************************************************)
EXTENDS Enrollment, TLAPS

OneIdentity ==
  /\ config \in {0, issued} /\ file \in {0, issued}
  /\ file # 0 => file \in spent
  /\ \A p \in Processes : Running(p) =>
       /\ token[p] \in {0, issued}
       /\ cred[p] # 0 => cred[p] = issued /\ file = issued
       /\ pc[p] \in {"asked", "got"} => token[p] = issued
       /\ pc[p] = "got" => issued \in spent

IInv == TypeOK /\ OneIdentity

LEMMA InitHolds == Init => IInv
BY EnrollmentAssumption DEF Init, IInv, TypeOK, OneIdentity, Tokens, Running

\* A process that ends.
LEMMA LeaveKeeps ==
  ASSUME IInv, NEW p \in Processes, NEW place \in {"off", "failed"}, Leave(p, place),
         faults' \in 0..MaxFaults
  PROVE  IInv'
<1> USE EnrollmentAssumption DEF IInv, Tokens, Running
<1>1. TypeOK'
  BY DEF Leave, Goto, memory, TypeOK, OneIdentity
<1>2. OneIdentity'
  BY DEF Leave, Goto, memory, TypeOK, OneIdentity
<1>3. QED
  BY <1>1, <1>2

LEMMA Step ==
  ASSUME IInv, [Next]_vars
  PROVE  IInv'
<1> USE EnrollmentAssumption DEF IInv, Tokens, TypeOK, OneIdentity, server, memory, Goto,
                             Running, Crashed
<1>1. ASSUME NEW p \in Processes, Load(p)
      PROVE  IInv'
  BY <1>1 DEF Load
<1>2. ASSUME NEW p \in Processes, Flock(p)
      PROVE  IInv'
  BY <1>2 DEF Flock
<1>3. ASSUME NEW p \in Processes, FlockFails(p)
      PROVE  IInv'
  BY <1>3 DEF FlockFails
<1>4. ASSUME NEW p \in Processes, EndPoll(p)
      PROVE  IInv'
  <2>1. CASE Leave(p, "off")
    BY <1>4, <2>1, LeaveKeeps DEF EndPoll
  <2>2. CASE ~Leave(p, "off")
    BY <1>4, <2>2 DEF EndPoll
  <2>3. QED
    BY <2>1, <2>2
<1>5. ASSUME NEW p \in Processes, Enrolled(p) \/ Ask(p) \/ NoToken(p)
      PROVE  IInv'
  <2>1. CASE Enrolled(p)
    BY <2>1 DEF Enrolled
  <2>2. CASE Ask(p)
    BY <2>2 DEF Ask
  <2>3. CASE NoToken(p)
    BY <2>3 DEF NoToken
  <2>4. QED
    BY <1>5, <2>1, <2>2, <2>3
<1>6. ASSUME NEW p \in Processes, Answer(p)
      PROVE  IInv'
  BY <1>6 DEF Answer
<1>7. ASSUME NEW p \in Processes, Persist(p)
      PROVE  IInv'
  BY <1>7 DEF Persist
<1>8. ASSUME NEW p \in Processes, Sync(p)
      PROVE  IInv'
  BY <1>8 DEF Sync
<1>9. ASSUME NEW p \in Processes, Stop(p) \/ Kill(p)
      PROVE  IInv'
  <2>1. faults' \in 0..MaxFaults /\ \E place \in {"off", "failed"} : Leave(p, place)
    BY <1>9 DEF Stop, Kill, Fault
  <2>2. QED
    BY <2>1, LeaveKeeps
<1>17. CASE StopFailed
  BY <1>17 DEF StopFailed, Fault
<1>10. ASSUME NEW p \in Processes, GiveUp(p)
       PROVE  IInv'
  BY <1>10 DEF GiveUp, Fault
<1>11. ASSUME NEW p \in Processes, PersistFails(p)
       PROVE  IInv'
  BY <1>11 DEF PersistFails, Fault
<1>12. ASSUME NEW k \in 1..MaxTokens, LateRedeem(k)
       PROVE  IInv'
  BY <1>12 DEF LateRedeem
<1>18. ASSUME NEW k \in 1..MaxTokens, Invalidate(k)
       PROVE  IInv'
  BY <1>18 DEF Invalidate
<1>13. CASE Replace
  BY <1>13 DEF Replace
<1>14. CASE RemoveToken
  BY <1>14 DEF RemoveToken
<1>15. CASE UNCHANGED vars
  BY <1>15 DEF vars
<1>16. QED
  BY <1>1, <1>2, <1>3, <1>4, <1>5, <1>6, <1>7, <1>8, <1>9, <1>10, <1>11, <1>12, <1>13, <1>14, <1>15,
     <1>17, <1>18
  DEF Next, Work

LEMMA Inductive == Spec => []IInv
BY InitHolds, Step, PTL DEF Spec

\* Files and memory hold tokens that were issued, and a process works exactly
\* while it holds the lock on agent.lock.
THEOREM TypeCorrect == Spec => []TypeOK
<1>1. IInv => TypeOK
  BY DEF IInv
<1>2. QED
  BY Inductive, <1>1, PTL

\* The credential an agent works with is the one in credentials.json, although
\* New reads it before the lock is taken.
THEOREM CredentialStored == Spec => []CredentialIsStored
<1>1. IInv => CredentialIsStored
  BY EnrollmentAssumption DEF IInv, TypeOK, OneIdentity, CredentialIsStored, Tokens, Running
<1>2. QED
  BY Inductive, <1>1, PTL

\* What a redeemed token bought and nobody stored is gone for good.
THEOREM LossIsFinal == Spec => LostStaysLost
<1>1. ASSUME IInv, [Next]_vars, NEW k \in Tokens, Lost(k)
      PROVE  Lost(k)'
  <2> USE EnrollmentAssumption, <1>1 DEF IInv, TypeOK, Tokens, Lost, server, memory, Goto, Running,
                                       Crashed
  <2>1. ASSUME NEW p \in Processes, Load(p)
        PROVE  Lost(k)'
    BY <2>1 DEF Load
  <2>2. ASSUME NEW p \in Processes, NEW place \in {"off", "failed"}, Leave(p, place)
        PROVE  Lost(k)'
    BY <2>2 DEF Leave
  <2>3. ASSUME NEW p \in Processes, Work(p), ~Leave(p, "off")
        PROVE  Lost(k)'
    <3>1. CASE Flock(p) \/ FlockFails(p) \/ Enrolled(p) \/ Ask(p) \/ NoToken(p)
      BY <3>1 DEF Flock, FlockFails, Enrolled, Ask, NoToken
    <3>2. CASE Answer(p) \/ EndPoll(p) \/ Sync(p)
      BY <2>3, <3>2 DEF Answer, EndPoll, Sync
    <3>3. CASE Persist(p)
      BY <3>3 DEF Persist
    <3>4. QED
      BY <2>3, <3>1, <3>2, <3>3 DEF Work
  <2>4. ASSUME NEW p \in Processes, GiveUp(p) \/ PersistFails(p)
        PROVE  Lost(k)'
    BY <2>4 DEF GiveUp, PersistFails
  <2>5. CASE Replace \/ RemoveToken \/ StopFailed \/ \E j \in 1..MaxTokens : LateRedeem(j) \/ Invalidate(j)
    BY <2>5 DEF Replace, RemoveToken, StopFailed, LateRedeem, Invalidate
  <2>6. CASE UNCHANGED vars
    BY <2>6 DEF vars
  <2>7. QED
    BY <2>1, <2>2, <2>3, <2>4, <2>5, <2>6 DEF Next, Stop, Kill, Crashed
<1>2. IInv /\ [Next]_vars => [\A k \in Tokens : Lost(k) => Lost(k)']_vars
  BY <1>1
<1>3. QED
  BY Inductive, <1>2, PTL DEF Spec, LostStaysLost

(***************************************************************************)
(* The journal.                                                            *)
(***************************************************************************)

\* An agent is started by hand only while no other one is running.
OneAtATime == \A p, q \in Processes : Running(p) /\ Running(q) => p = q

\* What a process read of the journal, or saved, is what the journal holds.
MemoryIsDisk == \A p \in Processes : Running(p) => state[p] = journal

LEMMA StepKeepsMemory ==
  ASSUME TypeOK, MemoryIsDisk, OneAtATime, OneAtATime', [Next]_vars
  PROVE  MemoryIsDisk' /\ (issued' = issued => journal' >= journal)
<1> USE EnrollmentAssumption DEF TypeOK, MemoryIsDisk, server, memory, Goto, Running, Crashed
<1>1. ASSUME NEW p \in Processes, Load(p)
      PROVE  MemoryIsDisk' /\ journal' >= journal
  BY <1>1 DEF Load
<1>2. ASSUME NEW p \in Processes, NEW place \in {"off", "failed"}, Leave(p, place)
      PROVE  MemoryIsDisk' /\ journal' >= journal
  BY <1>2 DEF Leave
<1>3. ASSUME NEW p \in Processes, Sync(p)
      PROVE  MemoryIsDisk' /\ journal' >= journal
  <2>1. \A q \in Processes : Running(q)' => q = p
    BY <1>3 DEF Sync, OneAtATime
  <2>2. state'[p] = journal' /\ journal' >= journal
    BY <1>3 DEF Sync
  <2>3. QED
    BY <2>1, <2>2
<1>4. ASSUME NEW p \in Processes, Work(p), ~Leave(p, "off"), ~Sync(p)
      PROVE  MemoryIsDisk' /\ journal' >= journal
  <2>1. UNCHANGED <<state, journal>> /\ Running(p) /\ \A q \in Processes : q # p => pc'[q] = pc[q]
    BY <1>4 DEF Work, Flock, FlockFails, EndPoll, Enrolled, Ask, NoToken, Answer, Persist
  <2>2. QED
    BY <2>1
<1>5. ASSUME NEW p \in Processes, GiveUp(p) \/ PersistFails(p)
      PROVE  MemoryIsDisk' /\ journal' >= journal
  BY <1>5 DEF GiveUp, PersistFails
<1>6. CASE Replace
  BY <1>6 DEF Replace
<1>7. CASE RemoveToken \/ StopFailed \/ (\E k \in 1..MaxTokens : LateRedeem(k) \/ Invalidate(k))
           \/ UNCHANGED vars
  BY <1>7 DEF RemoveToken, StopFailed, LateRedeem, Invalidate, vars
<1>8. QED
  BY <1>1, <1>2, <1>3, <1>4, <1>5, <1>6, <1>7 DEF Next, Stop, Kill, Crashed

\* agent.New reads the journal before main takes the lock, and the run
\* stale_lock shows an agent overwriting what another one saved in between.
\* This is the only way to lose a save: as long as no agent is started while
\* another one runs, the journal of an identity only advances, whatever fails
\* and however often agents are stopped and started.
THEOREM JournalKept == Spec /\ []OneAtATime => JournalNeverGoesBack
<1>1. Init => MemoryIsDisk
  BY DEF Init, MemoryIsDisk, Running
<1>2. TypeOK /\ MemoryIsDisk /\ OneAtATime /\ OneAtATime' /\ [Next]_vars => MemoryIsDisk'
  BY StepKeepsMemory
<1>3. TypeOK /\ MemoryIsDisk /\ OneAtATime /\ OneAtATime' /\ [Next]_vars =>
        [issued' = issued => journal' >= journal]_vars
  BY StepKeepsMemory
<1>4. QED
  BY <1>1, <1>2, <1>3, TypeCorrect, PTL DEF Spec, JournalNeverGoesBack
=============================================================================
