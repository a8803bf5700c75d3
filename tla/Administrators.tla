--------------------------- MODULE Administrators ---------------------------
(***************************************************************************)
(* Administrators, their sessions, and the limiter before the expensive    *)
(* operations.  One action per request that commits; a request that is     *)
(* refused changes nothing, except that the limiter has counted it.        *)
(*                                                                         *)
(* A password stands for its bcrypt hash.  Session tokens and CSRF tokens  *)
(* are draws of security.Token, numbered as they are drawn, and the table  *)
(* of sessions is kept under the token whose hash is the key.              *)
(***************************************************************************)
EXTENDS Integers, Sequences, Records

CONSTANTS
  Names,        \* names of administrators
  Passwords,    \* passwords of at least 12 characters
  SessionTTL,   \* lifetime of a session
  Limit,        \* attempts in a window (30 in the code)
  Window,       \* length of a window (a minute)
  MaxAttempts,  \* bound on the attempts counted in a window, for model checking
  MaxVersions,  \* bound on stores of an administrator, for model checking
  MaxDraws,     \* bound on random draws, for model checking
  MaxTime       \* bound on the clock, for model checking

ASSUME AdministratorsAssumption ==
  /\ SessionTTL \in Nat \ {0} /\ Limit \in Nat /\ Window \in Nat
  /\ MaxAttempts \in Nat /\ MaxVersions \in Nat
  /\ MaxDraws \in Nat /\ MaxTime \in Nat

VARIABLES
  envelope,   \* the installation has been set up
  admins,     \* name -> [password, version]; the version is a ghost
  sessions,   \* token -> [admin, csrf, expires, version]; likewise
  now,        \* the clock
  draws,      \* number of random draws made
  attempts,   \* Server.attempts
  window,     \* Server.window; the zero time is long past
  versions,   \* ghost: how often an administrator was stored
  passed      \* ghost: the times of the attempts that this process let through

vars == <<envelope, admins, sessions, now, draws, attempts, window, versions, passed>>
limiter == <<attempts, window, passed>>

ZeroTime == -1 - Window

Init ==
  /\ envelope = FALSE
  /\ admins = NoRows /\ sessions = NoRows
  /\ now = 0 /\ draws = 0
  /\ attempts = 0 /\ window = ZeroTime
  /\ versions = 0
  /\ passed = <<>>

Tick ==
  /\ now < MaxTime
  /\ now' = now + 1
  /\ UNCHANGED <<envelope, admins, sessions, draws, limiter, versions>>

(***************************************************************************)
(* Authentication.                                                         *)
(***************************************************************************)

\* authenticateAdmin accepts the cookie; enough for GET.
Authenticates(c) ==
  /\ Has(sessions, c)
  /\ now < sessions[c].expires
  /\ Has(admins, sessions[c].admin)

\* It accepts cookie and X-CSRF-Token of a request that writes.
AuthenticatesWrite(c, h) == Authenticates(c) /\ h = sessions[c].csrf

\* Mutant: the limiter clears its counter and forgets to start a new window.
CountForever ==
  IF now - window > Window
    THEN attempts' = 1 /\ UNCHANGED window
    ELSE attempts' = attempts + 1 /\ UNCHANGED window

\* limit(): a call counts, whether it is let through or not.
Count ==
  IF now - window > Window
    THEN attempts' = 1 /\ window' = now
    ELSE attempts' = attempts + 1 /\ UNCHANGED window

\* limit() returns true.
Passes ==
  /\ Count /\ attempts' <= Limit
  /\ passed' = Append(passed, now)

\* limit() returns false: the request is answered 429.
Refused ==
  /\ Count /\ attempts' > Limit
  /\ attempts' <= MaxAttempts
  /\ UNCHANGED <<envelope, admins, sessions, now, draws, versions, passed>>

(***************************************************************************)
(* Requests.                                                               *)
(***************************************************************************)

\* The rows of an administrator that is stored now.
Store(name, password) ==
  /\ versions < MaxVersions
  /\ versions' = versions + 1
  /\ admins' = Put(admins, name, [password |-> password, version |-> versions + 1])

\* The command line tool: the first administrator comes with the envelope.
Setup(name, password) ==
  /\ ~envelope
  /\ envelope' = TRUE
  /\ Store(name, password)
  /\ UNCHANGED <<sessions, now, draws, limiter>>

\* Mutant: one draw serves as session token and as CSRF token.
LoginOneDraw(name, password) ==
  /\ Passes
  /\ draws + 1 <= MaxDraws
  /\ Has(admins, name) /\ admins[name].password = password
  /\ draws' = draws + 1
  /\ sessions' = Put(sessions, draws + 1,
       [admin |-> name, csrf |-> draws + 1, expires |-> now + SessionTTL,
        version |-> admins[name].version])
  /\ UNCHANGED <<envelope, admins, now, versions>>

\* POST login.
Login(name, password) ==
  /\ Passes
  /\ draws + 2 <= MaxDraws
  /\ Has(admins, name) /\ admins[name].password = password
  /\ draws' = draws + 2
  /\ sessions' = Put(sessions, draws + 1,
       [admin |-> name, csrf |-> draws + 2, expires |-> now + SessionTTL,
        version |-> admins[name].version])
  /\ UNCHANGED <<envelope, admins, now, versions>>

\* A login with a wrong name or password, or one of the other operations
\* behind the limiter: enroll, unlock and master.
Attempt ==
  /\ Passes
  /\ UNCHANGED <<envelope, admins, sessions, now, draws, versions>>

Logout(c, h) ==
  /\ AuthenticatesWrite(c, h)
  /\ sessions' = Delete(sessions, c)
  /\ UNCHANGED <<envelope, admins, now, draws, limiter, versions>>

\* Mutant: sessions are left to expire.
SessionsWithoutNone(name) == sessions

\* deleteSessions.
SessionsWithout(name) ==
  DeleteAll(sessions, {c \in DOMAIN sessions : sessions[c].admin = name})

\* POST administrators: a new administrator, or a new password.
PostAdministrator(c, h, name, password) ==
  /\ AuthenticatesWrite(c, h)
  /\ Store(name, password)
  /\ sessions' = SessionsWithout(name)
  /\ UNCHANGED <<envelope, now, draws, limiter>>

\* Mutant: an administrator may delete itself.
DeleteAnyAdministrator(c, h, name) ==
  /\ AuthenticatesWrite(c, h)
  /\ admins' = Delete(admins, name)
  /\ sessions' = SessionsWithout(name)
  /\ UNCHANGED <<envelope, now, draws, limiter, versions>>

\* DELETE administrators/<name>: anybody but oneself, whether it exists or not.
DeleteAdministrator(c, h, name) ==
  /\ AuthenticatesWrite(c, h)
  /\ name # sessions[c].admin
  /\ admins' = Delete(admins, name)
  /\ sessions' = SessionsWithout(name)
  /\ UNCHANGED <<envelope, now, draws, limiter, versions>>

\* A new process: the tables stay, the limiter starts afresh.
Restart ==
  /\ attempts' = 0 /\ window' = ZeroTime /\ passed' = <<>>
  /\ UNCHANGED <<envelope, admins, sessions, now, draws, versions>>

Next ==
  \/ Tick \/ Attempt \/ Refused \/ Restart
  \/ \E name \in Names, password \in Passwords : Setup(name, password) \/ Login(name, password)
  \/ \E c, h \in 1..draws :
       \/ Logout(c, h)
       \/ \E name \in Names :
            \/ DeleteAdministrator(c, h, name)
            \/ \E password \in Passwords : PostAdministrator(c, h, name, password)

Spec == Init /\ [][Next]_vars

(***************************************************************************)
(* Properties.                                                             *)
(***************************************************************************)

TypeOK ==
  /\ envelope \in BOOLEAN
  /\ DOMAIN admins \subseteq Names
  /\ \A n \in DOMAIN admins :
       admins[n].password \in Passwords /\ admins[n].version \in 1..versions
  /\ DOMAIN sessions \subseteq 1..draws
  /\ \A c \in DOMAIN sessions :
       /\ sessions[c].admin \in Names
       /\ sessions[c].csrf \in 1..draws \ DOMAIN sessions
       /\ sessions[c].expires \in 0..(MaxTime + SessionTTL)
  /\ now \in 0..MaxTime /\ draws \in 0..MaxDraws /\ versions \in 0..MaxVersions
  /\ attempts \in Nat /\ window \in ZeroTime..now

\* Once set up, an installation has an administrator for good, although
\* administrators may delete each other at the same time and from several
\* sessions (setup.md: "Self-deletion is rejected to avoid removing the last
\* usable administrator accidentally").
AlwaysAnAdministrator == envelope => DOMAIN admins # {}

\* A session that is accepted was opened with the password its administrator
\* has now: changing the password, and deleting and re-creating the
\* administrator, leave no session behind (deleteSessions: "Password changes and
\* administrator deletion invalidate every existing session").
SessionsAreCurrent ==
  \A c \in DOMAIN sessions :
    Authenticates(c) => sessions[c].version = admins[sessions[c].admin].version

\* A session token that is refused once, because of logout, expiry, a new
\* password or deletion, is refused for good.
RefusedSessionStaysRefused ==
  [][\A c \in 1..draws : ~Authenticates(c) => ~Authenticates(c)']_vars

\* However the attempts fall, a time span of the length of a window sees at
\* most two windows' worth of them reach the expensive operations of one
\* process: of two that are so many attempts apart, the second comes later.
AttemptsBounded ==
  \A i \in DOMAIN passed :
    i + 2 * Limit \in DOMAIN passed => passed[i + 2 * Limit] > passed[i] + Window
=============================================================================
