------------------------ MODULE AdministratorsProofs ------------------------
(***************************************************************************)
(* Administrators and sessions, for any number of either.  The inductive   *)
(* invariant is stronger than what is promised: every session, expired or  *)
(* not, belongs to an administrator that exists and was opened with its    *)
(* present password.  The limiter has an invariant of its own, at the end. *)
(***************************************************************************)
EXTENDS Administrators, TLAPS

\* Sessions follow their administrators.
SessionsFollow ==
  \A c \in DOMAIN sessions :
    /\ sessions[c].admin \in DOMAIN admins
    /\ sessions[c].version = admins[sessions[c].admin].version

\* Before setup there is nobody.
NobodyBefore == ~envelope => DOMAIN admins = {}

IInv == TypeOK /\ SessionsFollow /\ NobodyBefore /\ AlwaysAnAdministrator

\* What the handlers do to the two tables.
LEMMA StoreEffect ==
  ASSUME NEW name, NEW password, Store(name, password)
  PROVE  /\ versions' = versions + 1
         /\ DOMAIN admins' = DOMAIN admins \cup {name}
         /\ admins'[name] = [password |-> password, version |-> versions + 1]
         /\ \A n \in DOMAIN admins : n # name => admins'[n] = admins[n]
BY DEF Store, Put

LEMMA LoginEffect ==
  ASSUME NEW name, NEW password, Login(name, password)
  PROVE  /\ DOMAIN sessions' = DOMAIN sessions \cup {draws + 1}
         /\ sessions'[draws + 1] = [admin |-> name, csrf |-> draws + 2, expires |-> now + SessionTTL,
                                    version |-> admins[name].version]
         /\ \A c \in DOMAIN sessions : c # draws + 1 => sessions'[c] = sessions[c]
BY DEF Login, Put

LEMMA LogoutEffect ==
  ASSUME NEW d, NEW h, Logout(d, h)
  PROVE  /\ DOMAIN sessions' = DOMAIN sessions \ {d}
         /\ \A c \in DOMAIN sessions' : sessions'[c] = sessions[c]
BY DEF Logout, Delete

\* deleteSessions removes the sessions of one administrator and no other.
LEMMA WithoutEffect ==
  ASSUME NEW name, sessions' = SessionsWithout(name)
  PROVE  /\ DOMAIN sessions' \subseteq DOMAIN sessions
         /\ \A c \in DOMAIN sessions' : sessions'[c] = sessions[c] /\ sessions[c].admin # name
BY DEF SessionsWithout, DeleteAll

LEMMA DeleteEffect ==
  ASSUME NEW d, NEW h, NEW name, DeleteAdministrator(d, h, name)
  PROVE  /\ DOMAIN admins' = DOMAIN admins \ {name}
         /\ \A n \in DOMAIN admins' : admins'[n] = admins[n]
BY DEF DeleteAdministrator, Delete

LEMMA InitHolds == Init => IInv
<1> SUFFICES ASSUME Init PROVE IInv
  OBVIOUS
<1>1. DOMAIN admins = {} /\ DOMAIN sessions = {}
  BY DEF Init, NoRows
<1>2. TypeOK
  <2>1. now \in 0..MaxTime /\ draws \in 0..MaxDraws /\ versions \in 0..MaxVersions /\ attempts \in Nat
    BY AdministratorsAssumption DEF Init
  <2>2. window \in ZeroTime..now
    BY AdministratorsAssumption DEF Init, ZeroTime
  <2>3. envelope \in BOOLEAN
    BY DEF Init
  <2>4. QED
    BY <1>1, <2>1, <2>2, <2>3 DEF TypeOK
<1>3. SessionsFollow /\ NobodyBefore /\ AlwaysAnAdministrator
  BY <1>1 DEF Init, SessionsFollow, NobodyBefore, AlwaysAnAdministrator
<1>4. QED
  BY <1>2, <1>3 DEF IInv

\* What limit() does to its counter and window.
LEMMA CountTypes ==
  ASSUME TypeOK, Count
  PROVE  attempts' \in Nat /\ window' \in ZeroTime..now
BY AdministratorsAssumption DEF TypeOK, Count, ZeroTime

LEMMA TypeStep ==
  ASSUME TypeOK, [Next]_vars
  PROVE  TypeOK'
<1> USE AdministratorsAssumption DEF TypeOK, ZeroTime
<1>1. CASE Tick
  BY <1>1 DEF Tick, limiter
<1>2. CASE Attempt
  BY <1>2, CountTypes DEF Attempt, Passes
<1>3. CASE Refused
  BY <1>3, CountTypes DEF Refused
<1>4. CASE Restart
  BY <1>4 DEF Restart
<1>5. ASSUME NEW name \in Names, NEW password \in Passwords, Setup(name, password)
      PROVE  TypeOK'
  <2>1. Store(name, password)
    BY <1>5 DEF Setup
  <2>2. /\ DOMAIN admins' = DOMAIN admins \cup {name}
        /\ admins'[name] = [password |-> password, version |-> versions + 1]
        /\ \A n \in DOMAIN admins : n # name => admins'[n] = admins[n]
    BY <2>1, StoreEffect
  <2>3. QED
    BY <1>5, <2>2 DEF Setup, Store, limiter
<1>6. ASSUME NEW name \in Names, NEW password \in Passwords, Login(name, password)
      PROVE  TypeOK'
  <2>1. /\ DOMAIN sessions' = DOMAIN sessions \cup {draws + 1}
        /\ sessions'[draws + 1] = [admin |-> name, csrf |-> draws + 2, expires |-> now + SessionTTL,
                                   version |-> admins[name].version]
        /\ \A c \in DOMAIN sessions : c # draws + 1 => sessions'[c] = sessions[c]
    BY <1>6, LoginEffect
  <2>2. draws' = draws + 2 /\ draws + 2 <= MaxDraws /\ UNCHANGED <<envelope, admins, now, versions>>
    BY <1>6 DEF Login
  <2>3. attempts' \in Nat /\ window' \in ZeroTime..now
    BY <1>6, CountTypes DEF Login, Passes
  <2>4. ASSUME NEW c \in DOMAIN sessions'
        PROVE  /\ sessions'[c].admin \in Names
               /\ sessions'[c].csrf \in 1..draws' \ DOMAIN sessions'
               /\ sessions'[c].expires \in 0..(MaxTime + SessionTTL)
    <3>1. CASE c = draws + 1
      BY <3>1, <2>1, <2>2
    <3>2. CASE c # draws + 1
      <4>1. c \in DOMAIN sessions /\ sessions'[c] = sessions[c]
        BY <2>1, <3>2
      <4>2. sessions[c].csrf \in 1..draws \ DOMAIN sessions
        BY <4>1
      <4>3. sessions[c].csrf \in 1..draws' \ DOMAIN sessions'
        BY <4>2, <2>1, <2>2
      <4>4. QED
        BY <4>1, <4>3
    <3>3. QED
      BY <3>1, <3>2
  <2>5. QED
    BY <2>1, <2>2, <2>3, <2>4
<1>7. ASSUME NEW c \in 1..draws, NEW h \in 1..draws, Logout(c, h)
      PROVE  TypeOK'
  <2>1. /\ DOMAIN sessions' = DOMAIN sessions \ {c}
        /\ \A d \in DOMAIN sessions' : sessions'[d] = sessions[d]
    BY <1>7, LogoutEffect
  <2>2. UNCHANGED <<envelope, admins, now, draws, limiter, versions>>
    BY <1>7 DEF Logout
  <2>3. QED
    BY <2>1, <2>2 DEF limiter
<1>8. ASSUME NEW c \in 1..draws, NEW h \in 1..draws, NEW name \in Names,
             DeleteAdministrator(c, h, name)
      PROVE  TypeOK'
  <2>1. /\ DOMAIN admins' = DOMAIN admins \ {name}
        /\ \A n \in DOMAIN admins' : admins'[n] = admins[n]
    BY <1>8, DeleteEffect
  <2>2. sessions' = SessionsWithout(name) /\ UNCHANGED <<envelope, now, draws, limiter, versions>>
    BY <1>8 DEF DeleteAdministrator
  <2>3. /\ DOMAIN sessions' \subseteq DOMAIN sessions
        /\ \A d \in DOMAIN sessions' : sessions'[d] = sessions[d]
    BY <2>2, WithoutEffect
  <2>4. QED
    BY <2>1, <2>2, <2>3 DEF limiter
<1>9. ASSUME NEW c \in 1..draws, NEW h \in 1..draws, NEW name \in Names, NEW password \in Passwords,
             PostAdministrator(c, h, name, password)
      PROVE  TypeOK'
  <2>1. Store(name, password) /\ sessions' = SessionsWithout(name)
    BY <1>9 DEF PostAdministrator
  <2>2. /\ DOMAIN admins' = DOMAIN admins \cup {name}
        /\ admins'[name] = [password |-> password, version |-> versions + 1]
        /\ \A n \in DOMAIN admins : n # name => admins'[n] = admins[n]
    BY <2>1, StoreEffect
  <2>3. /\ DOMAIN sessions' \subseteq DOMAIN sessions
        /\ \A d \in DOMAIN sessions' : sessions'[d] = sessions[d]
    BY <2>1, WithoutEffect
  <2>4. versions' = versions + 1 /\ versions < MaxVersions /\ UNCHANGED <<envelope, now, draws, limiter>>
    BY <1>9 DEF PostAdministrator, Store
  <2>5. \A n \in DOMAIN admins' :
          admins'[n].password \in Passwords /\ admins'[n].version \in 1..versions'
    BY <2>2, <2>4
  <2>6. QED
    BY <2>2, <2>3, <2>4, <2>5 DEF limiter
<1>10. CASE UNCHANGED vars
  BY <1>10 DEF vars
<1>11. QED
  BY <1>1, <1>2, <1>3, <1>4, <1>5, <1>6, <1>7, <1>8, <1>9, <1>10 DEF Next

\* The invariant on administrators and sessions is kept.
LEMMA FollowStep ==
  ASSUME IInv, [Next]_vars
  PROVE  SessionsFollow' /\ NobodyBefore' /\ AlwaysAnAdministrator'
<1> USE DEF IInv, SessionsFollow, NobodyBefore, AlwaysAnAdministrator
<1>1. CASE Tick \/ Attempt \/ Refused \/ Restart \/ UNCHANGED vars
  BY <1>1 DEF Tick, Attempt, Refused, Restart, vars
<1>2. ASSUME NEW name \in Names, NEW password \in Passwords, Setup(name, password)
      PROVE  SessionsFollow' /\ NobodyBefore' /\ AlwaysAnAdministrator'
  <2>1. DOMAIN sessions = {}
    BY <1>2 DEF Setup
  <2>2. QED
    BY <1>2, <2>1, StoreEffect DEF Setup
<1>3. ASSUME NEW name \in Names, NEW password \in Passwords, Login(name, password)
      PROVE  SessionsFollow' /\ NobodyBefore' /\ AlwaysAnAdministrator'
  BY <1>3, LoginEffect DEF Login, Has, TypeOK
<1>4. ASSUME NEW c \in 1..draws, NEW h \in 1..draws, Logout(c, h)
      PROVE  SessionsFollow' /\ NobodyBefore' /\ AlwaysAnAdministrator'
  BY <1>4, LogoutEffect DEF Logout
<1>5. ASSUME NEW c \in 1..draws, NEW h \in 1..draws, NEW name \in Names,
             DeleteAdministrator(c, h, name)
      PROVE  SessionsFollow' /\ NobodyBefore' /\ AlwaysAnAdministrator'
  <2>1. sessions[c].admin \in DOMAIN admins \ {name}
    BY <1>5 DEF DeleteAdministrator, AuthenticatesWrite, Authenticates, Has
  <2>2. /\ DOMAIN admins' = DOMAIN admins \ {name}
        /\ \A n \in DOMAIN admins' : admins'[n] = admins[n]
    BY <1>5, DeleteEffect
  <2>3. /\ DOMAIN sessions' \subseteq DOMAIN sessions
        /\ \A d \in DOMAIN sessions' : sessions'[d] = sessions[d] /\ sessions[d].admin # name
    BY <1>5, WithoutEffect DEF DeleteAdministrator
  <2>4. envelope' = envelope
    BY <1>5 DEF DeleteAdministrator
  <2>5. SessionsFollow'
    BY <2>2, <2>3
  <2>6. QED
    BY <2>1, <2>2, <2>4, <2>5
<1>6. ASSUME NEW c \in 1..draws, NEW h \in 1..draws, NEW name \in Names, NEW password \in Passwords,
             PostAdministrator(c, h, name, password)
      PROVE  SessionsFollow' /\ NobodyBefore' /\ AlwaysAnAdministrator'
  <2>1. DOMAIN admins # {}
    BY <1>6 DEF PostAdministrator, AuthenticatesWrite, Authenticates, Has
  <2>2. /\ DOMAIN admins' = DOMAIN admins \cup {name}
        /\ \A n \in DOMAIN admins : n # name => admins'[n] = admins[n]
    BY <1>6, StoreEffect DEF PostAdministrator
  <2>3. /\ DOMAIN sessions' \subseteq DOMAIN sessions
        /\ \A d \in DOMAIN sessions' : sessions'[d] = sessions[d] /\ sessions[d].admin # name
    BY <1>6, WithoutEffect DEF PostAdministrator
  <2>4. envelope' = envelope
    BY <1>6 DEF PostAdministrator
  <2>5. SessionsFollow'
    BY <2>2, <2>3
  <2>6. QED
    BY <2>1, <2>2, <2>4, <2>5
<1>7. QED
  BY <1>1, <1>2, <1>3, <1>4, <1>5, <1>6 DEF Next

LEMMA Inductive == Spec => []IInv
<1>1. IInv /\ [Next]_vars => IInv'
  BY TypeStep, FollowStep DEF IInv
<1>2. QED
  BY InitHolds, <1>1, PTL DEF Spec

\* The tables of administrators and sessions, the clock and the limiter keep
\* their types; no CSRF token is a session token.
THEOREM TypeCorrect == Spec => []TypeOK
<1>1. IInv => TypeOK
  BY DEF IInv
<1>2. QED
  BY Inductive, <1>1, PTL

\* An installation never loses its last administrator, because DELETE spares
\* the one who asks, and who asks is authenticated.
THEOREM AnAdministratorRemains == Spec => []AlwaysAnAdministrator
<1>1. IInv => AlwaysAnAdministrator
  BY DEF IInv
<1>2. QED
  BY Inductive, <1>1, PTL

\* No session survives the password it was opened with (deleteSessions).
THEOREM SessionsCurrent == Spec => []SessionsAreCurrent
<1>1. IInv => SessionsAreCurrent
  BY DEF IInv, SessionsFollow, SessionsAreCurrent
<1>2. QED
  BY Inductive, <1>1, PTL

\* A session token that authenticateAdmin refuses is refused for good.
THEOREM SessionRefusalIsFinal == Spec => RefusedSessionStaysRefused
<1>1. ASSUME IInv, IInv', [Next]_vars, NEW c \in 1..draws, Authenticates(c)'
      PROVE  Authenticates(c)
  <2>1. /\ c \in DOMAIN sessions
        /\ sessions'[c] = sessions[c]
        /\ now <= now'
    <3> USE AdministratorsAssumption DEF IInv, TypeOK
    <3>1. c \in DOMAIN sessions'
      BY <1>1 DEF Authenticates, Has
    <3>2. CASE Tick \/ Attempt \/ Refused \/ Restart \/ UNCHANGED vars
      BY <1>1, <3>1, <3>2 DEF Tick, Attempt, Refused, Restart, vars
    <3>3. CASE \E name \in Names, password \in Passwords : Setup(name, password)
      BY <1>1, <3>1, <3>3 DEF Setup
    <3>4. CASE \E name \in Names, password \in Passwords : Login(name, password)
      <4>1. PICK name \in Names, password \in Passwords : Login(name, password)
        BY <3>4
      <4>2. /\ DOMAIN sessions' = DOMAIN sessions \cup {draws + 1}
            /\ \A d \in DOMAIN sessions : d # draws + 1 => sessions'[d] = sessions[d]
        BY <4>1, LoginEffect
      <4>3. now' = now /\ c # draws + 1
        BY <4>1, <1>1 DEF Login
      <4>4. QED
        BY <3>1, <4>2, <4>3, <1>1
    <3>5. CASE \E d, h \in 1..draws : Logout(d, h)
      <4>1. PICK d \in 1..draws, h \in 1..draws : Logout(d, h)
        BY <3>5
      <4>2. /\ DOMAIN sessions' = DOMAIN sessions \ {d}
            /\ \A e \in DOMAIN sessions' : sessions'[e] = sessions[e]
        BY <4>1, LogoutEffect
      <4>3. now' = now
        BY <4>1 DEF Logout
      <4>4. QED
        BY <3>1, <4>2, <4>3, <1>1
    <3>6. CASE \E d, h \in 1..draws, name \in Names : DeleteAdministrator(d, h, name)
      BY <1>1, <3>1, <3>6, WithoutEffect DEF DeleteAdministrator
    <3>7. CASE \E d, h \in 1..draws, name \in Names, password \in Passwords :
                 PostAdministrator(d, h, name, password)
      BY <1>1, <3>1, <3>7, WithoutEffect DEF PostAdministrator
    <3>8. QED
      BY <1>1, <3>2, <3>3, <3>4, <3>5, <3>6, <3>7 DEF Next
  <2>2. /\ now' < sessions[c].expires
        /\ now \in Int /\ now' \in Int /\ sessions[c].expires \in Int
    BY <1>1, <2>1, AdministratorsAssumption DEF Authenticates, IInv, TypeOK
  <2>3. sessions[c].admin \in DOMAIN admins
    BY <1>1, <2>1 DEF IInv, SessionsFollow
  <2>4. QED
    BY <2>1, <2>2, <2>3 DEF Authenticates, Has
<1>2. IInv /\ IInv' /\ [Next]_vars => (\A c \in 1..draws : ~Authenticates(c) => ~Authenticates(c)')
  BY <1>1
<1>3. IInv /\ IInv' /\ [Next]_vars =>
        [\A c \in 1..draws : ~Authenticates(c) => ~Authenticates(c)']_vars
  BY <1>2
<1>4. QED
  BY Inductive, <1>3, PTL DEF Spec, RefusedSessionStaysRefused

(***************************************************************************)
(* The limiter.  Of the attempts let through, the newest Admitted fell     *)
(* into the current window; the Limit ones before them fell before its     *)
(* start, and the ones before those before the start of the window before. *)
(***************************************************************************)

Admitted == IF attempts <= Limit THEN attempts ELSE Limit

LInv ==
  /\ passed \in Seq(Nat)
  /\ Limit = 0 => passed = <<>>
  /\ Admitted <= Len(passed)
  /\ \A i \in DOMAIN passed :
       /\ passed[i] <= window + Window
       /\ i <= Len(passed) - Admitted => passed[i] < window
       /\ i <= Len(passed) - Admitted - Limit => passed[i] + Window < window
  /\ AttemptsBounded

LEMMA InitL == Init => LInv
BY AdministratorsAssumption DEF Init, LInv, Admitted, AttemptsBounded

\* limit() lets an attempt through.
LEMMA PassesKeepsL ==
  ASSUME TypeOK, LInv, Passes
  PROVE  LInv'
<1> DEFINE n == Len(passed)
<1>1. /\ Limit \in Nat /\ Window \in Nat /\ now \in Nat /\ attempts \in Nat /\ window \in Int
      /\ window <= now /\ n \in Nat /\ DOMAIN passed = 1..n
      /\ \A i \in 1..n : passed[i] \in Nat
  BY AdministratorsAssumption DEF TypeOK, LInv, ZeroTime
<1>2. attempts' <= Limit /\ attempts' \in Nat \ {0} /\ Limit # 0
  BY <1>1 DEF Passes, Count
<1>3. /\ passed' \in Seq(Nat) /\ Len(passed') = n + 1 /\ DOMAIN passed' = 1..(n + 1)
      /\ passed'[n + 1] = now /\ \A i \in 1..n : passed'[i] = passed[i]
  BY <1>1 DEF Passes, LInv
<1>4. Admitted' = attempts'
  BY <1>2 DEF Admitted
<1>5. /\ window' \in Int /\ window' <= now /\ now <= window' + Window
      /\ \A i \in 1..n : /\ passed[i] <= window' + Window
                         /\ i <= n + 1 - attempts' => passed[i] < window'
                         /\ i <= n + 1 - attempts' - Limit => passed[i] + Window < window'
      /\ attempts' <= n + 1
  <2>1. CASE now - window > Window
    <3>1. attempts' = 1 /\ window' = now
      BY <2>1 DEF Passes, Count
    <3>2. ASSUME NEW i \in 1..n
          PROVE  /\ passed[i] < now
                 /\ i <= n - Limit => passed[i] + Window < now
      <4>1. /\ passed[i] \in Nat /\ passed[i] <= window + Window
            /\ i <= n - Admitted => passed[i] < window
        BY <1>1 DEF LInv
      <4>2. Admitted <= Limit /\ Admitted \in Nat
        BY <1>1 DEF Admitted
      <4>3. QED
        BY <1>1, <2>1, <4>1, <4>2
    <3>3. QED
      BY <1>1, <3>1, <3>2
  <2>2. CASE ~(now - window > Window)
    <3>1. attempts' = attempts + 1 /\ window' = window
      BY <2>2 DEF Passes, Count
    <3>2. Admitted = attempts
      BY <1>1, <1>2, <3>1 DEF Admitted
    <3>3. attempts <= n
      BY <3>2 DEF LInv
    <3>4. ASSUME NEW i \in 1..n
          PROVE  /\ passed[i] <= window + Window
                 /\ i <= n - attempts => passed[i] < window
                 /\ i <= n - attempts - Limit => passed[i] + Window < window
      BY <1>1, <3>2 DEF LInv
    <3>5. QED
      BY <1>1, <2>2, <3>1, <3>3, <3>4
  <2>3. QED
    BY <2>1, <2>2
<1>6. AttemptsBounded'
  <2> SUFFICES ASSUME NEW i \in 1..(n + 1), i + 2 * Limit \in 1..(n + 1)
               PROVE  passed'[i + 2 * Limit] > passed'[i] + Window
    BY <1>3 DEF AttemptsBounded
  <2>1. i \in 1..n /\ passed'[i] = passed[i]
    BY <1>1, <1>2, <1>3
  <2>2. CASE i + 2 * Limit = n + 1
    <3>1. i <= n + 1 - attempts' - Limit
      BY <1>1, <1>2, <2>2
    <3>2. passed[i] + Window < window'
      BY <1>5, <2>1, <3>1
    <3>3. passed'[i + 2 * Limit] = now
      BY <1>3, <2>2
    <3>4. window' \in Int /\ window' <= now /\ passed[i] \in Nat
      BY <1>1, <1>5, <2>1
    <3>5. passed[i] + Window < now
      BY <1>1, <3>2, <3>4
    <3>6. QED
      BY <1>1, <2>1, <3>3, <3>4, <3>5
  <2>3. CASE i + 2 * Limit # n + 1
    <3>1. i + 2 * Limit \in 1..n
      BY <1>1, <2>3
    <3>2. passed[i + 2 * Limit] > passed[i] + Window
      BY <1>1, <2>1, <3>1 DEF LInv, AttemptsBounded
    <3>3. QED
      BY <1>3, <2>1, <3>1, <3>2
  <2>4. QED
    BY <2>2, <2>3
<1>7. now <= window' + Window
  BY <1>5
<1>8. \A i \in 1..(n + 1) :
        /\ passed'[i] <= window' + Window
        /\ i <= n + 1 - attempts' => passed'[i] < window'
        /\ i <= n + 1 - attempts' - Limit => passed'[i] + Window < window'
  <2> SUFFICES ASSUME NEW i \in 1..(n + 1)
               PROVE  /\ passed'[i] <= window' + Window
                      /\ i <= n + 1 - attempts' => passed'[i] < window'
                      /\ i <= n + 1 - attempts' - Limit => passed'[i] + Window < window'
    BY Zenon
  <2>1. CASE i = n + 1
    <3>1. ~(i <= n + 1 - attempts') /\ ~(i <= n + 1 - attempts' - Limit)
      BY <1>1, <1>2, <2>1
    <3>2. passed'[i] = now
      BY <1>3, <2>1
    <3>3. QED
      BY <1>7, <3>1, <3>2
  <2>2. CASE i # n + 1
    <3>1. i \in 1..n
      BY <1>1, <2>2
    <3>2. QED
      BY <1>3, <1>5, <3>1
  <2>3. QED
    BY <2>1, <2>2
<1>9. /\ Limit = 0 => passed' = <<>>
      /\ Admitted' <= Len(passed')
  BY <1>2, <1>3, <1>4, <1>5
<1>10. DOMAIN passed' = 1..(n + 1) /\ Len(passed') = n + 1
  BY <1>3
<1> HIDE DEF n
<1>11. \A i \in DOMAIN passed' :
         /\ passed'[i] <= window' + Window
         /\ i <= Len(passed') - Admitted' => passed'[i] < window'
         /\ i <= Len(passed') - Admitted' - Limit => passed'[i] + Window < window'
  <2> SUFFICES ASSUME NEW i \in DOMAIN passed'
               PROVE  /\ passed'[i] <= window' + Window
                      /\ i <= Len(passed') - Admitted' => passed'[i] < window'
                      /\ i <= Len(passed') - Admitted' - Limit => passed'[i] + Window < window'
    BY Zenon
  <2>1. i \in 1..(n + 1)
    BY <1>10, Zenon
  <2>2. /\ passed'[i] <= window' + Window
        /\ i <= n + 1 - attempts' => passed'[i] < window'
        /\ i <= n + 1 - attempts' - Limit => passed'[i] + Window < window'
    BY <1>8, <2>1, Zenon
  <2>3. QED
    BY <1>1, <1>2, <1>4, <1>10, <2>1, <2>2 DEF n
<1>12. QED
  BY <1>3, <1>6, <1>9, <1>11 DEF LInv

\* limit() refuses: the counter goes on, in the same window unless no attempt is
\* ever let through.
LEMMA RefusedKeepsL ==
  ASSUME TypeOK, LInv, Refused
  PROVE  LInv'
<1>1. /\ Limit \in Nat /\ attempts \in Nat /\ UNCHANGED <<passed, now>>
      /\ attempts' \in Nat /\ attempts' > Limit /\ Count
  BY AdministratorsAssumption DEF TypeOK, Refused, Count
<1>2. CASE Limit = 0
  <2>1. passed' = <<>> /\ Admitted' = 0
    BY <1>1, <1>2 DEF LInv, Admitted
  <2>2. QED
    BY <1>2, <2>1 DEF LInv, AttemptsBounded
<1>3. CASE Limit # 0
  <2>1. attempts' = attempts + 1 /\ window' = window
    BY <1>1, <1>3 DEF Count
  <2>2. Admitted' = Admitted
    BY <1>1, <2>1 DEF Admitted
  <2>3. QED
    BY <1>1, <2>1, <2>2 DEF LInv, AttemptsBounded
<1>4. QED
  BY <1>2, <1>3

LEMMA NextKeepsL == TypeOK /\ LInv /\ [Next]_vars => LInv'
<1> SUFFICES ASSUME TypeOK, LInv, [Next]_vars
             PROVE  LInv'
  OBVIOUS
<1>1. CASE Tick
  <2>1. UNCHANGED limiter /\ now' = now + 1 /\ now \in Nat
    BY <1>1, AdministratorsAssumption DEF Tick, TypeOK
  <2>2. \A i \in DOMAIN passed : passed[i] \in Nat
    BY DEF LInv
  <2>3. QED
    BY <2>1, <2>2 DEF LInv, limiter, Admitted, AttemptsBounded
<1>2. CASE Attempt
  BY <1>2, PassesKeepsL DEF Attempt
<1>3. CASE Refused
  BY <1>3, RefusedKeepsL
<1>4. CASE Restart
  BY <1>4, AdministratorsAssumption DEF Restart, LInv, Admitted, AttemptsBounded
<1>5. CASE \E name \in Names, password \in Passwords : Login(name, password)
  BY <1>5, PassesKeepsL DEF Login
<1>6. CASE UNCHANGED <<limiter, now>>
  BY <1>6 DEF LInv, limiter, Admitted, AttemptsBounded
<1>7. QED
  BY <1>1, <1>2, <1>3, <1>4, <1>5, <1>6
     DEF Next, Setup, Logout, DeleteAdministrator, PostAdministrator, vars, limiter

\* Whatever the limit and the window: of two attempts that are two windows'
\* worth of attempts apart, the second comes more than a window later.
THEOREM LimiterLimits == Spec => []AttemptsBounded
<1>1. Spec => []TypeOK
  BY TypeCorrect
<1>2. LInv => AttemptsBounded
  BY DEF LInv
<1>3. QED
  BY <1>1, <1>2, InitL, NextKeepsL, PTL DEF Spec
=============================================================================
