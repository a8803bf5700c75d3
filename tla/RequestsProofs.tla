--------------------------- MODULE RequestsProofs ---------------------------
(***************************************************************************)
(* What callers and auditors may conclude, for any number of requests and  *)
(* failures.  The inductive invariant tells the story of a request: before *)
(* its transaction ends nothing is known of it, then err tells whether it  *)
(* took effect, then the log does, then the answer.                        *)
(***************************************************************************)
EXTENDS Requests, TLAPS

Unrecorded(r) == ~Recorded(r, TRUE) /\ ~Recorded(r, FALSE)

\* A failure record on an unlock or lock that acted has an excuse.
Excused(r) == r \in acted => gone[r] \/ faults > 0

\* The vault has been set as the operation asks.
Done(r) == kind[r] \in VaultKinds => r \in acted

\* The operation has not been committed; only the vault may know of it.
Before(r) ==
  /\ stage[r] \in {"new", "queued", "callback"} =>
       err[r] = "nil" /\ r \notin effects /\ Unrecorded(r)
  /\ stage[r] \in {"new", "queued"} => r \notin acted
  /\ stage[r] = "callback" => Done(r)

\* The first transaction is over and err says how.
Decided(r) ==
  stage[r] = "ended" =>
    /\ Unrecorded(r)
    /\ err[r] = "nil" => r \in effects /\ Done(r)
    /\ err[r] \in {"api", "locked"} => r \notin effects \cup acted
    /\ err[r] = "failed" => (r \in effects => r \in unsure) /\ Excused(r)

\* The second one is over: an err that is not "failed" is in the log.
Told(r) ==
  stage[r] \in {"audited", "answered"} =>
    /\ err[r] = "nil" => r \in effects /\ Recorded(r, TRUE)
    /\ err[r] \in {"api", "locked"} =>
         r \notin effects \cup acted /\ (Recorded(r, FALSE) \/ kind[r] = "foreign")

\* As long as nothing has failed, a process ends when it has nothing to do,
\* commits are certain and audits succeed.
Undisturbed ==
  /\ process \in {"closing", "down"} => Idle
  /\ unsure = {}

Logged(r) ==
  /\ stage[r] \in {"audited", "answered"} /\ r \in effects => Recorded(r, TRUE)
  /\ stage[r] = "audited" => ~Unrecorded(r)

Calm == faults = 0 => Undisturbed /\ \A r \in Requests : Logged(r)

Story == \A r \in Requests : Before(r) /\ Decided(r) /\ Told(r)

IInv == TypeOK /\ Story /\ AuditIsTruthful /\ Calm /\ OpenVaultIsAudited

LEMMA InitHolds == Init => IInv
BY RequestsAssumption
DEF Init, IInv, TypeOK, Kinds, Stages, Errors, Story, Before, Decided, Told, Unrecorded, Recorded,
    Done, Excused, AuditIsTruthful, Calm, Undisturbed, Logged, Idle, Active, OpenVaultIsAudited

\* Types are kept.
LEMMA TypeStep ==
  ASSUME TypeOK, [Next]_vars
  PROVE  TypeOK'
<1> USE RequestsAssumption DEF TypeOK, Kinds, Stages, Errors, FaultUnless
<1>1. ASSUME NEW r \in Requests, Arrive(r) \/ RejectOrigin(r) \/ RouteFails(r) \/ RouteSucceeds(r)
      PROVE  TypeOK'
  BY <1>1 DEF Arrive, RejectOrigin, RouteFails, RouteSucceeds
<1>2. ASSUME NEW r \in Requests, Commit(r) \/ CommitFails(r) \/ CommitUnsure(r) \/ UpdateFails(r)
      PROVE  TypeOK'
  <2>1. CASE Commit(r)
    BY <2>1 DEF Commit
  <2>2. CASE CommitFails(r)
    BY <2>2 DEF CommitFails
  <2>3. CASE CommitUnsure(r)
    BY <2>3 DEF CommitUnsure
  <2>4. CASE UpdateFails(r)
    BY <2>4 DEF UpdateFails
  <2>5. QED
    BY <1>2, <2>1, <2>2, <2>3, <2>4
<1>3. ASSUME NEW r \in Requests, Audit(r) \/ AuditUnsure(r)
      PROVE  TypeOK'
  <2>1. audit' \subseteq Requests \X BOOLEAN
    <3>1. audit' = audit \cup {Record(r)}
      BY <1>3 DEF Audit, AuditUnsure
    <3>2. (err[r] = "nil") \in BOOLEAN
      OBVIOUS
    <3>3. Record(r) \in Requests \X BOOLEAN
      BY <3>2, Zenon DEF Record
    <3>4. QED
      BY <3>1, <3>3, Zenon
  <2>2. QED
    BY <1>3, <2>1 DEF Audit, AuditUnsure
<1>9. ASSUME NEW r \in Requests, AuditFails(r) \/ Answer(r) \/ Disconnect(r)
      PROVE  TypeOK'
  <2>1. CASE AuditFails(r)
    BY <2>1 DEF AuditFails
  <2>2. CASE Answer(r)
    BY <2>2 DEF Answer
  <2>3. CASE Disconnect(r)
    BY <2>3 DEF Disconnect
  <2>4. QED
    BY <1>9, <2>1, <2>2, <2>3
<1>4. CASE Shutdown \/ Start
  BY <1>4 DEF Shutdown, Start
<1>5. CASE Close
  BY <1>5 DEF Close, Idle, Active
<1>6. CASE Exit
  BY <1>6 DEF Exit, Idle, Active
<1>7. CASE UNCHANGED vars
  BY <1>7 DEF vars
<1>8. QED
  BY <1>1, <1>2, <1>3, <1>9, <1>4, <1>5, <1>6, <1>7 DEF Next

\* The audit transaction adds one verdict of one request, the one err gives.
LEMMA AuditWrites ==
  ASSUME NEW r \in Requests, audit' = audit \cup {Record(r)}
  PROVE  \A q \in Requests :
           /\ Recorded(q, TRUE)' <=> Recorded(q, TRUE) \/ (q = r /\ err[r] = "nil")
           /\ Recorded(q, FALSE)' <=> Recorded(q, FALSE) \/ (q = r /\ err[r] # "nil")
<1>1. CASE err[r] = "nil"
  <2>1. Record(r) = <<r, TRUE>>
    BY <1>1, Zenon DEF Record
  <2>2. QED
    BY <1>1, <2>1 DEF Recorded
<1>2. CASE err[r] # "nil"
  <2>1. Record(r) = <<r, FALSE>>
    BY <1>2, Zenon DEF Record
  <2>2. QED
    BY <1>2, <2>1 DEF Recorded
<1>3. QED
  BY <1>1, <1>2

\* No other step touches the log.
LEMMA AuditKept ==
  ASSUME audit' = audit
  PROVE  \A q \in Requests, b \in BOOLEAN : Recorded(q, b)' <=> Recorded(q, b)
BY DEF Recorded

\* Callers do not come back and failures are not forgotten.
LEMMA ExcusesKept ==
  ASSUME TypeOK, [Next]_vars
  PROVE  /\ faults > 0 => faults' > 0
         /\ \A q \in Requests : gone[q] => gone'[q]
<1>1. faults \in Nat
  BY RequestsAssumption DEF TypeOK
<1>2. faults' = faults \/ faults' = faults + 1
  BY DEF Next, vars, FaultUnless, Arrive, RejectOrigin, RouteFails, RouteSucceeds, Commit, CommitFails,
         CommitUnsure, UpdateFails, Audit, AuditFails, AuditUnsure, Answer, Disconnect, Shutdown,
         Close, Exit, Start
<1>3. \/ gone' = gone
      \/ \E r \in Requests : gone' = [gone EXCEPT ![r] = TRUE]
      \/ gone' = [r \in Requests |-> gone[r] \/ Active(r)]
  BY DEF Next, vars, Arrive, RejectOrigin, RouteFails, RouteSucceeds, Commit, CommitFails,
         CommitUnsure, UpdateFails, Audit, AuditFails, AuditUnsure, Answer, Disconnect, Shutdown,
         Close, Exit, Start
<1>4. gone \in [Requests -> BOOLEAN]
  BY DEF TypeOK
<1>5. \A q \in Requests : gone[q] => gone'[q]
  BY <1>3, <1>4
<1>6. QED
  BY <1>1, <1>2, <1>5

\* A step of one request leaves the others alone.
LEMMA OthersUntouched ==
  ASSUME TypeOK, NEW r \in Requests, NEW q \in Requests, q # r,
         \/ Arrive(r) \/ RejectOrigin(r) \/ RouteFails(r) \/ RouteSucceeds(r)
         \/ Commit(r) \/ CommitFails(r) \/ CommitUnsure(r) \/ UpdateFails(r)
         \/ Audit(r) \/ AuditFails(r) \/ AuditUnsure(r) \/ Answer(r) \/ Disconnect(r)
  PROVE  /\ stage'[q] = stage[q] /\ err'[q] = err[q] /\ kind' = kind
         /\ q \in effects' <=> q \in effects
         /\ q \in unsure' <=> q \in unsure
         /\ q \in acted' <=> q \in acted
         /\ Recorded(q, TRUE)' <=> Recorded(q, TRUE)
         /\ Recorded(q, FALSE)' <=> Recorded(q, FALSE)
<1> USE DEF TypeOK
<1>1. CASE Arrive(r) \/ RejectOrigin(r) \/ RouteFails(r) \/ RouteSucceeds(r)
  BY <1>1, AuditKept DEF Arrive, RejectOrigin, RouteFails, RouteSucceeds
<1>2. CASE Commit(r) \/ CommitFails(r) \/ CommitUnsure(r) \/ UpdateFails(r)
  BY <1>2, AuditKept DEF Commit, CommitFails, CommitUnsure, UpdateFails
<1>3. CASE Audit(r) \/ AuditUnsure(r)
  BY <1>3, AuditWrites DEF Audit, AuditUnsure
<1>4. CASE AuditFails(r) \/ Answer(r) \/ Disconnect(r)
  BY <1>4, AuditKept DEF AuditFails, Answer, Disconnect
<1>5. QED
  BY <1>1, <1>2, <1>3, <1>4

\* What is said of one request: its chapter of the story and the log on it.
Chapter(r) ==
  /\ Before(r) /\ Decided(r) /\ Told(r)
  /\ ~(Recorded(r, TRUE) /\ Recorded(r, FALSE))
  /\ Recorded(r, TRUE) => r \in effects /\ Done(r)
  /\ Recorded(r, FALSE) => (r \in effects => r \in unsure) /\ Excused(r)

\* The story of every request goes on, and the log stays truthful.
LEMMA StoryStep ==
  ASSUME TypeOK, Story, AuditIsTruthful, [Next]_vars
  PROVE  Story' /\ AuditIsTruthful'
<1>1. \A r \in Requests : Chapter(r)
  BY DEF Story, AuditIsTruthful, Chapter, Done, Excused
<1>2. SUFFICES ASSUME NEW q \in Requests
               PROVE  Chapter(q)'
  BY DEF Story, AuditIsTruthful, Chapter, Done, Excused
<1>0. /\ faults > 0 => faults' > 0
      /\ gone[q] => gone'[q]
  BY ExcusesKept
<1> USE <1>1, <1>0 DEF TypeOK, Stages, Errors, VaultKinds, Chapter, Before, Decided, Told, Unrecorded,
                       Done, Excused
<1>3. ASSUME NEW r \in Requests, q # r,
             \/ Arrive(r) \/ RejectOrigin(r) \/ RouteFails(r) \/ RouteSucceeds(r)
             \/ Commit(r) \/ CommitFails(r) \/ CommitUnsure(r) \/ UpdateFails(r)
             \/ Audit(r) \/ AuditFails(r) \/ AuditUnsure(r) \/ Answer(r) \/ Disconnect(r)
      PROVE  Chapter(q)'
  BY <1>3, OthersUntouched
<1>4. CASE Arrive(q) \/ RejectOrigin(q) \/ RouteFails(q) \/ RouteSucceeds(q)
  <2>1. CASE Arrive(q)
    BY <2>1, AuditKept DEF Arrive
  <2>2. CASE RejectOrigin(q)
    BY <2>2, AuditKept DEF RejectOrigin
  <2>3. CASE RouteFails(q)
    BY <2>3, AuditKept DEF RouteFails
  <2>4. CASE RouteSucceeds(q)
    BY <2>4, AuditKept DEF RouteSucceeds
  <2>5. QED
    BY <1>4, <2>1, <2>2, <2>3, <2>4
<1>5. CASE Commit(q) \/ CommitFails(q) \/ CommitUnsure(q) \/ UpdateFails(q)
  <2>1. \/ CommitFails(q) /\ ~gone[q]
        \/ CommitUnsure(q)
        => faults' > 0
    BY RequestsAssumption DEF CommitFails, CommitUnsure, FaultUnless
  <2>2. CASE Commit(q)
    BY <2>2, AuditKept DEF Commit
  <2>3. CASE CommitFails(q)
    BY <2>1, <2>3, AuditKept DEF CommitFails
  <2>4. CASE CommitUnsure(q)
    BY <2>1, <2>4, AuditKept DEF CommitUnsure
  <2>5. CASE UpdateFails(q)
    BY <2>5, AuditKept DEF UpdateFails
  <2>6. QED
    BY <1>5, <2>2, <2>3, <2>4, <2>5
<1>6. CASE Audit(q) \/ AuditUnsure(q)
  <2>1. audit' = audit \cup {Record(q)}
    BY <1>6 DEF Audit, AuditUnsure
  <2>2. /\ Recorded(q, TRUE)' <=> Recorded(q, TRUE) \/ err[q] = "nil"
        /\ Recorded(q, FALSE)' <=> Recorded(q, FALSE) \/ err[q] # "nil"
    BY <2>1, AuditWrites
  <2>3. QED
    BY <1>6, <2>2 DEF Audit, AuditUnsure
<1>7. CASE AuditFails(q) \/ Answer(q) \/ Disconnect(q)
  BY <1>7, AuditKept DEF AuditFails, Answer, Disconnect
<1>8. CASE Shutdown \/ Close \/ Start \/ UNCHANGED vars
  BY <1>8, AuditKept DEF Shutdown, Close, Start, vars
<1>9. CASE Exit
  BY <1>9, AuditKept DEF Exit, Active
<1>10. QED
  BY <1>3, <1>4, <1>5, <1>6, <1>7, <1>8, <1>9 DEF Next

\* Until something fails, the end of a process interrupts nobody.
LEMMA UndisturbedStep ==
  ASSUME TypeOK, Calm, [Next]_vars, faults' = 0
  PROVE  faults = 0 /\ Undisturbed'
<1> USE DEF TypeOK, Calm, Undisturbed, Idle, Active, FaultUnless
<1>1. ASSUME NEW r \in Requests, Arrive(r) \/ RejectOrigin(r) \/ RouteFails(r) \/ RouteSucceeds(r)
      PROVE  faults = 0 /\ Undisturbed'
  BY <1>1 DEF Arrive, RejectOrigin, RouteFails, RouteSucceeds
<1>2. ASSUME NEW r \in Requests, Commit(r) \/ CommitFails(r) \/ CommitUnsure(r) \/ UpdateFails(r)
      PROVE  faults = 0 /\ Undisturbed'
  BY <1>2 DEF Commit, CommitFails, CommitUnsure, UpdateFails
<1>3. ASSUME NEW r \in Requests, Audit(r) \/ AuditUnsure(r)
      PROVE  faults = 0 /\ Undisturbed'
  BY <1>3 DEF Audit, AuditUnsure
<1>4. ASSUME NEW r \in Requests, AuditFails(r) \/ Answer(r) \/ Disconnect(r)
      PROVE  faults = 0 /\ Undisturbed'
  BY <1>4 DEF AuditFails, Answer, Disconnect
<1>5. CASE Shutdown \/ Start \/ UNCHANGED vars
  BY <1>5 DEF Shutdown, Start, vars
<1>6. CASE Close
  BY <1>6 DEF Close
<1>7. CASE Exit
  BY <1>7 DEF Exit
<1>8. QED
  BY <1>1, <1>2, <1>3, <1>4, <1>5, <1>6, <1>7 DEF Next

\* Until something fails, what took effect is in the log afterwards.
LEMMA LoggedStep ==
  ASSUME TypeOK, Story, Calm, [Next]_vars, faults' = 0, NEW q \in Requests
  PROVE  Logged(q)'
<1>1. faults = 0
  BY UndisturbedStep
<1>0. Undisturbed /\ Logged(q) /\ Before(q) /\ Decided(q)
  BY <1>1 DEF Calm, Story
<1> USE <1>1, <1>0 DEF TypeOK, Errors, Logged, Before, Decided, Unrecorded, Undisturbed, FaultUnless
<1>2. ASSUME NEW r \in Requests, q # r,
             \/ Arrive(r) \/ RejectOrigin(r) \/ RouteFails(r) \/ RouteSucceeds(r)
             \/ Commit(r) \/ CommitFails(r) \/ CommitUnsure(r) \/ UpdateFails(r)
             \/ Audit(r) \/ AuditFails(r) \/ AuditUnsure(r) \/ Answer(r) \/ Disconnect(r)
      PROVE  Logged(q)'
  <2>1. /\ stage'[q] = stage[q] /\ (q \in effects' <=> q \in effects)
        /\ Recorded(q, TRUE)' <=> Recorded(q, TRUE)
        /\ Recorded(q, FALSE)' <=> Recorded(q, FALSE)
    BY <1>2, OthersUntouched
  <2>2. QED
    BY <2>1 DEF Recorded
<1>3. CASE Arrive(q) \/ RejectOrigin(q) \/ RouteFails(q) \/ RouteSucceeds(q)
  BY <1>3, AuditKept DEF Arrive, RejectOrigin, RouteFails, RouteSucceeds
<1>4. CASE Commit(q) \/ CommitFails(q) \/ CommitUnsure(q) \/ UpdateFails(q)
  BY <1>4, AuditKept DEF Commit, CommitFails, CommitUnsure, UpdateFails
<1>5. CASE Audit(q) \/ AuditUnsure(q)
  <2>1. audit' = audit \cup {Record(q)}
    BY <1>5 DEF Audit, AuditUnsure
  <2>2. /\ Recorded(q, TRUE)' <=> Recorded(q, TRUE) \/ err[q] = "nil"
        /\ Recorded(q, FALSE)' <=> Recorded(q, FALSE) \/ err[q] # "nil"
    BY <2>1, AuditWrites
  <2>3. QED
    BY <1>5, <2>2 DEF Audit, AuditUnsure
<1>6. CASE AuditFails(q)
  BY <1>6 DEF AuditFails, Idle, Active
<1>7. CASE Answer(q) \/ Disconnect(q)
  BY <1>7 DEF Answer, Disconnect, Recorded
<1>8. CASE Shutdown \/ Close \/ Start \/ UNCHANGED vars
  BY <1>8 DEF Shutdown, Close, Start, vars, Recorded
<1>9. CASE Exit
  BY <1>9, AuditKept DEF Exit, Active
<1>10. QED
  BY <1>2, <1>3, <1>4, <1>5, <1>6, <1>7, <1>8, <1>9 DEF Next

LEMMA CalmStep ==
  ASSUME TypeOK, Story, Calm, [Next]_vars
  PROVE  Calm'
BY UndisturbedStep, LoggedStep DEF Calm

\* The opener of the vault stays under way or in the log.
LEMMA VaultStep ==
  ASSUME TypeOK, Story, AuditIsTruthful, Calm, OpenVaultIsAudited, [Next]_vars
  PROVE  OpenVaultIsAudited'
<1> DEFINE Traced(q) == Active(q) \/ ~Unrecorded(q)
<1>1. SUFFICES ASSUME NEW w, w = vault', w # None, faults' = 0
               PROVE  Traced(w)'
  <2>1. ASSUME vault' # None, faults' = 0, Traced(vault)'
        PROVE  Active(vault)' \/ Recorded(vault, TRUE)' \/ (gone'[vault'] /\ Recorded(vault, FALSE)')
    <3>1. vault' \in Requests /\ vault' \in acted'
      BY <2>1, TypeStep DEF TypeOK
    <3>2. Recorded(vault, FALSE)' => gone'[vault'] \/ faults' > 0
      <4>1. AuditIsTruthful'
        BY StoryStep
      <4>2. \A r \in Requests : Recorded(r, FALSE)' /\ r \in acted' => gone'[r] \/ faults' > 0
        BY <4>1 DEF AuditIsTruthful
      <4>3. QED
        BY <3>1, <4>2 DEF Recorded
    <3>3. ~(faults' > 0)
      BY <2>1
    <3>4. QED
      BY <2>1, <3>2, <3>3, Zenon DEF Unrecorded
  <2>2. QED
    BY <2>1 DEF OpenVaultIsAudited
<1>2. faults = 0 /\ w \in Requests
  BY <1>1, UndisturbedStep, TypeStep DEF TypeOK
<1>3. vault # None => Traced(vault)
  BY <1>2 DEF OpenVaultIsAudited, Unrecorded
<1>4. ASSUME NEW q \in Requests, Traced(q), ~Exit
      PROVE  Traced(q)'
  <2>1. Logged(q) /\ faults = 0
    BY <1>2 DEF Calm
  <2> USE <1>4, <2>1 DEF TypeOK, Active, Logged, Unrecorded
  <2>2. ASSUME NEW r \in Requests, q # r,
               \/ Arrive(r) \/ RejectOrigin(r) \/ RouteFails(r) \/ RouteSucceeds(r)
               \/ Commit(r) \/ CommitFails(r) \/ CommitUnsure(r) \/ UpdateFails(r)
               \/ Audit(r) \/ AuditFails(r) \/ AuditUnsure(r) \/ Answer(r) \/ Disconnect(r)
        PROVE  Traced(q)'
    BY <2>2, OthersUntouched
  <2>3. CASE Arrive(q) \/ RejectOrigin(q) \/ RouteFails(q) \/ RouteSucceeds(q)
    BY <2>3, AuditKept DEF Arrive, RejectOrigin, RouteFails, RouteSucceeds
  <2>4. CASE Commit(q) \/ CommitFails(q) \/ CommitUnsure(q) \/ UpdateFails(q)
    BY <2>4 DEF Commit, CommitFails, CommitUnsure, UpdateFails
  <2>5. CASE Audit(q) \/ AuditUnsure(q) \/ AuditFails(q)
    BY <2>5 DEF Audit, AuditUnsure, AuditFails
  <2>6. CASE Answer(q) \/ Disconnect(q)
    BY <2>6, AuditKept DEF Answer, Disconnect
  <2>7. CASE Shutdown \/ Close \/ Start \/ UNCHANGED vars
    BY <2>7, AuditKept DEF Shutdown, Close, Start, vars
  <2>8. QED
    BY <2>2, <2>3, <2>4, <2>5, <2>6, <2>7 DEF Next
<1>5. CASE vault' = vault /\ ~Exit
  <2>1. Traced(w)
    BY <1>1, <1>3, <1>5
  <2>2. QED
    BY <1>2, <1>4, <1>5, <2>1
<1>6. CASE \E r \in Requests : RouteSucceeds(r) /\ vault' = r
  BY <1>1, <1>6, <1>2 DEF RouteSucceeds, Active, TypeOK
<1>7. (vault' = vault /\ ~Exit) \/ vault' = None \/ \E r \in Requests : RouteSucceeds(r) /\ vault' = r
  BY DEF Next, vars, Arrive, RejectOrigin, RouteFails, RouteSucceeds, Commit, CommitFails, CommitUnsure,
         UpdateFails, Audit, AuditFails, AuditUnsure, Answer, Disconnect, Shutdown, Close, Exit, Start
<1>8. QED
  BY <1>1, <1>5, <1>6, <1>7

LEMMA Inductive == Spec => []IInv
<1>1. IInv /\ [Next]_vars => IInv'
  BY TypeStep, StoryStep, CalmStep, VaultStep DEF IInv
<1>2. QED
  BY InitHolds, <1>1, PTL DEF Spec

\* The variables of ServeHTTP, the vault and the tables keep their types, and
\* at most one callback waits for its commit.
THEOREM TypeCorrect == Spec => []TypeOK
<1>1. IInv => TypeOK
  BY DEF IInv
<1>2. QED
  BY Inductive, <1>1, PTL

\* A 200 means done and logged, an error of the API means not done and logged,
\* whatever fails between the transactions of ServeHTTP.
THEOREM AnswersTruthful == Spec => []AnswersAreTruthful
<1>1. IInv => AnswersAreTruthful
  <2>1. SUFFICES ASSUME IInv, NEW r \in Requests, stage[r] = "answered"
                 PROVE  /\ Status(r) = 200 => r \in effects /\ Recorded(r, TRUE)
                        /\ Status(r) \in {400, 503} =>
                             /\ r \notin effects \cup acted
                             /\ Recorded(r, FALSE) \/ kind[r] = "foreign"
    BY DEF AnswersAreTruthful
  <2>2. Told(r) /\ err[r] \in Errors
    BY <2>1 DEF IInv, Story, TypeOK
  <2>3. CASE err[r] = "nil"
    <3>1. Status(r) = 200
      BY <2>3 DEF Status
    <3>2. QED
      BY <2>1, <2>2, <2>3, <3>1 DEF Told, Recorded
  <2>4. CASE err[r] = "api"
    <3>1. Status(r) = 400
      BY <2>4 DEF Status
    <3>2. QED
      BY <2>1, <2>2, <2>4, <3>1 DEF Told, Recorded
  <2>5. CASE err[r] = "locked"
    <3>1. Status(r) = 503
      BY <2>5 DEF Status
    <3>2. QED
      BY <2>1, <2>2, <2>5, <3>1 DEF Told, Recorded
  <2>6. CASE err[r] = "failed"
    <3>1. Status(r) = 500
      BY <2>6 DEF Status
    <3>2. QED
      BY <2>1, <2>2, <2>6, <3>1 DEF Told, Recorded
  <2>7. QED
    BY <2>2, <2>3, <2>4, <2>5, <2>6 DEF Errors
<1>2. QED
  BY Inductive, <1>1, PTL

\* The log never gives two verdicts on a request nor the wrong one.
THEOREM AuditTruthful == Spec => []AuditIsTruthful
<1>1. IInv => AuditIsTruthful
  BY DEF IInv
<1>2. QED
  BY Inductive, <1>1, PTL

\* Without failures, what took effect is in the log when ServeHTTP returns,
\* also for callers that disconnected.
THEOREM EffectsAudited == Spec => []EffectsAreAudited
<1>1. IInv => EffectsAreAudited
  BY DEF IInv, Calm, Logged, EffectsAreAudited
<1>2. QED
  BY Inductive, <1>1, PTL

\* Without failures, the request that opened the vault is in the log as soon
\* as it is no longer under way.
THEOREM OpenVaultAudited == Spec => []OpenVaultIsAudited
<1>1. IInv => OpenVaultIsAudited
  BY DEF IInv
<1>2. QED
  BY Inductive, <1>1, PTL
=============================================================================
