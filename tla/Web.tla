-------------------------------- MODULE Web --------------------------------
(***************************************************************************)
(* The administrator's browser, web/app.js: what the page shows when the   *)
(* answers to its requests arrive in any order, late, or not at all, while *)
(* the user opens and closes dialogs, signs in, perhaps twice, and is      *)
(* signed out.  Generation counters decide whether an answer is still      *)
(* wanted.                                                                 *)
(*                                                                         *)
(* Sessions are numbered as the browser learns of them, and the page's     *)
(* life is divided into eras by its sign-outs.  What is shown is           *)
(* represented by where it came from and the era it was asked for in.      *)
(* Dialogs are modal: while one is open, only its own buttons can be       *)
(* pressed.  The dialogs for permissions and the master key follow the     *)
(* pattern of the access dialog and are left out, as are the buttons whose *)
(* answer is followed by nothing but a refresh.                            *)
(***************************************************************************)
EXTENDS Naturals, FiniteSets

CONSTANTS
  Paths,        \* secrets the user looks at
  MaxSessions,  \* bound on sessions, for model checking
  MaxClicks,    \* bound on the user's actions, for model checking
  MaxPending,   \* bound on requests under way, for model checking
  Nothing       \* an empty field

ASSUME WebAssumption ==
  MaxSessions \in Nat \ {0} /\ MaxClicks \in Nat /\ MaxPending \in Nat

VARIABLES
  opened,   \* number of sessions the browser has heard of
  alive,    \* sessions the server accepts
  cookie,   \* the session whose cookie the browser sends, 0 when it has none
  csrf,     \* the session whose CSRF token the page has, 0 when signed out
  gen,      \* [auth, editor, work]: the three generation counters
  era,      \* ghost: how often the page has been signed out
  list,     \* era in which the listing shown was asked for, Nothing if there is none
  editor,   \* [path, value]: the editor dialog, path Nothing when closed
  reveal,   \* the revealed value
  access,   \* [open, kind, busy, agent, token]: the dialog of openAccess
  pending,  \* requests whose answer has not arrived
  clicks    \* actions of the user so far

vars == <<opened, alive, cookie, csrf, gen, era, list, editor, reveal, access, pending, clicks>>
sessions == <<opened, alive, cookie>>
auth == <<csrf, gen, era>>
page == <<auth, list, editor, reveal, access>>

NoEditor == [path |-> Nothing, value |-> Nothing]
NoAccess == [open |-> FALSE, kind |-> Nothing, busy |-> FALSE, agent |-> FALSE, token |-> Nothing]

\* Methods other than GET, whose CSRF token must be that of the cookie's session.
Writes == {"save", "agent", "token", "logout"}

\* A request, with the generations and the era its handler remembers: the ones
\* of the moment the handler started.  "valid" says that the server would
\* accept cookie and CSRF token now.
Ask(kind, path, g, e) ==
  [kind |-> kind, path |-> path, gen |-> g, era |-> e, session |-> cookie,
   valid |-> cookie \in alive /\ (kind \in Writes => csrf = cookie)]

\* The page is loaded, with the cookie of an earlier session or none, and asks
\* for the session of its cookie.  The login form is visible meanwhile.
Init ==
  /\ opened \in {0, 1} /\ cookie = opened /\ alive \in SUBSET (1..opened)
  /\ csrf = 0
  /\ gen = [auth |-> 0, editor |-> 0, work |-> 0] /\ era = 0
  /\ list = Nothing /\ editor = NoEditor /\ reveal = Nothing /\ access = NoAccess
  /\ pending = {Ask("session", Nothing, gen, era)}
  /\ clicks = 0

Click == clicks < MaxClicks /\ clicks' = clicks + 1

\* No dialog is open.
Bare == editor.path = Nothing /\ reveal = Nothing /\ ~access.open

Send(kind, path) ==
  /\ Cardinality(pending) < MaxPending
  /\ pending' = pending \cup {Ask(kind, path, gen, era)}

(***************************************************************************)
(* Sessions.                                                               *)
(***************************************************************************)

\* The login form is sent off.  It stays visible, so that it can be sent again
\* before the answer.  The server compares no cookie but a password.
SubmitLogin(right) ==
  /\ csrf = 0
  /\ Click
  /\ Cardinality(pending) < MaxPending
  /\ pending' = pending \cup {[Ask("login", Nothing, gen, era) EXCEPT !.valid = right]}
  /\ UNCHANGED <<sessions, page>>

\* The server has opened a session: its cookie and, through signedIn, its CSRF
\* token replace what was there, whoever is signed in by now and whatever is
\* shown.  Then refresh asks for the status first.
GotLogin(r) ==
  /\ r.kind = "login" /\ r.valid
  /\ opened < MaxSessions
  /\ opened' = opened + 1 /\ alive' = alive \cup {opened + 1}
  /\ cookie' = opened + 1 /\ csrf' = opened + 1
  /\ UNCHANGED <<gen, era, list, editor, reveal, access, clicks>>
  /\ pending' = (pending \ {r}) \cup {Ask("status", Nothing, gen, era)'}

\* The server ends a session: expiry, logout, a new password.
Expire(s) ==
  /\ s \in alive
  /\ alive' = alive \ {s}
  /\ UNCHANGED <<opened, cookie, page, pending, clicks>>

\* signedOut, with clearWorkflows and clearEditor.
SignedOut ==
  /\ csrf' = 0
  /\ gen' = [auth |-> gen.auth + 1, editor |-> gen.editor + 1, work |-> gen.work + 1]
  /\ era' = era + 1
  /\ list' = Nothing /\ editor' = NoEditor /\ reveal' = Nothing /\ access' = NoAccess

(***************************************************************************)
(* The user.                                                               *)
(***************************************************************************)

\* Buttons and timers that send a request and wait: refresh after some change,
\* Reveal, Logout.
Press(kind, path) ==
  /\ csrf # 0 /\ Bare
  /\ Click
  /\ Send(kind, path)
  /\ UNCHANGED <<sessions, page>>

CloseReveal ==
  /\ reveal # Nothing
  /\ reveal' = Nothing
  /\ UNCHANGED <<sessions, auth, list, editor, access, pending, clicks>>

OpenEditor(path) ==
  /\ csrf # 0 /\ Bare
  /\ Click
  /\ gen' = [gen EXCEPT !.editor = @ + 1]
  /\ editor' = [path |-> path, value |-> Nothing]
  /\ UNCHANGED <<sessions, csrf, era, list, reveal, access, pending>>

CloseEditor ==
  /\ editor.path # Nothing
  /\ gen' = [gen EXCEPT !.editor = @ + 1]
  /\ editor' = NoEditor
  /\ UNCHANGED <<sessions, csrf, era, list, reveal, access, pending, clicks>>

\* The editor has asked already; its button is disabled until the answer.
Asked(kind) == \E r \in pending : r.kind = kind /\ r.gen.editor = gen.editor

\* load-current: asks for the value of the secret being edited.
LoadCurrent ==
  /\ editor.path # Nothing /\ ~Asked("load")
  /\ Click
  /\ Send("load", editor.path)
  /\ UNCHANGED <<sessions, page>>

\* save-secret: closes the editor when the answer comes.
SaveSecret ==
  /\ editor.path # Nothing /\ ~Asked("save")
  /\ Click
  /\ Send("save", editor.path)
  /\ UNCHANGED <<sessions, page>>

OpenAccess(kind) ==
  /\ csrf # 0 /\ Bare
  /\ Click
  /\ gen' = [gen EXCEPT !.work = @ + 1]
  /\ access' = [NoAccess EXCEPT !.open = TRUE, !.kind = kind]
  /\ UNCHANGED <<sessions, csrf, era, list, editor, reveal, pending>>

\* Escape, close, cancel and done: not while the dialog is busy.
CloseAccess ==
  /\ access.open /\ ~access.busy
  /\ gen' = [gen EXCEPT !.work = @ + 1]
  /\ access' = NoAccess
  /\ UNCHANGED <<sessions, csrf, era, list, editor, reveal, pending, clicks>>

\* The form of the access dialog: a writer is created in one request, an agent
\* in two, and a retry continues with the agent that was created.
SubmitAccess ==
  /\ access.open /\ ~access.busy /\ access.token = Nothing
  /\ Click
  /\ access' = [access EXCEPT !.busy = TRUE]
  /\ Send(IF access.kind = "agent" /\ ~access.agent THEN "agent" ELSE "token", Nothing)
  /\ UNCHANGED <<sessions, auth, list, editor, reveal>>

(***************************************************************************)
(* Answers.  Each handler below describes what follows the await; r has    *)
(* left the set of pending requests.                                       *)
(***************************************************************************)

Take(r) == pending' = pending \ {r}

\* The handler goes on with another request and keeps what it remembers.
Continue(r, kind) == pending' = (pending \ {r}) \cup {Ask(kind, Nothing, r.gen, r.era)}

\* The page is signed in, and has not been signed out since the handler started.
StillSignedIn(r) == csrf # 0 /\ r.gen.auth = gen.auth

\* The session of the cookie that the page was loaded with: signedIn, whoever
\* is signed in by now.
GotSession(r) ==
  /\ r.kind = "session"
  /\ csrf' = r.session
  /\ UNCHANGED <<gen, era, list, editor, reveal, access>>
  /\ pending' = (pending \ {r}) \cup {Ask("restore", Nothing, gen, era)}

\* refresh goes on to ask for the listings, whatever became of the status.
GotStatus(r) ==
  /\ r.kind = "status"
  /\ Continue(r, "list")
  /\ UNCHANGED page

\* Mutant: refresh asks only whether somebody is signed in.
GotListAny(r) ==
  /\ r.kind \in {"list", "restore"}
  /\ Take(r)
  /\ list' = IF csrf # 0 THEN r.era ELSE list
  /\ UNCHANGED <<auth, editor, reveal, access>>

\* The listings.  The refresh that follows a session restored at page load is
\* one request, "restore".
GotList(r) ==
  /\ r.kind \in {"list", "restore"}
  /\ Take(r)
  /\ list' = IF StillSignedIn(r) THEN r.era ELSE list
  /\ UNCHANGED <<auth, editor, reveal, access>>

\* The value asked for by Reveal.  It is shown over whatever is open.
GotReveal(r) ==
  /\ r.kind = "reveal"
  /\ Take(r)
  /\ reveal' = IF StillSignedIn(r) THEN [path |-> r.path, era |-> r.era] ELSE reveal
  /\ UNCHANGED <<auth, list, editor, access>>

\* Mutant: the value is put into the editor if one is open.
GotLoadAny(r) ==
  /\ r.kind = "load"
  /\ Take(r)
  /\ editor' = IF editor.path # Nothing
                 THEN [editor EXCEPT !.value = [path |-> r.path, era |-> r.era]]
                 ELSE editor
  /\ UNCHANGED <<auth, list, reveal, access>>

\* The value asked for by load-current.
GotLoad(r) ==
  /\ r.kind = "load"
  /\ Take(r)
  /\ editor' = IF r.gen.editor = gen.editor /\ editor.path # Nothing
                 THEN [editor EXCEPT !.value = [path |-> r.path, era |-> r.era]]
                 ELSE editor
  /\ UNCHANGED <<auth, list, reveal, access>>

\* The secret is saved: the editor closes, and refresh starts.
GotSave(r) ==
  /\ r.kind = "save"
  /\ IF r.gen.editor = gen.editor
       THEN /\ editor' = NoEditor
            /\ gen' = [gen EXCEPT !.editor = @ + 1]
            /\ pending' = (pending \ {r}) \cup {Ask("status", Nothing, gen', era)}
       ELSE Take(r) /\ UNCHANGED <<editor, gen>>
  /\ UNCHANGED <<csrf, era, list, reveal, access>>

\* The agent was created: the handler asks for its enrollment token.
GotAgent(r) ==
  /\ r.kind = "agent"
  /\ IF r.gen.work = gen.work
       THEN access' = [access EXCEPT !.agent = TRUE] /\ Continue(r, "token")
       ELSE access' = [access EXCEPT !.busy = FALSE] /\ Take(r)
  /\ UNCHANGED <<auth, list, editor, reveal>>

\* The token is shown, and the dialog stays busy until refresh is done.
GotToken(r) ==
  /\ r.kind = "token"
  /\ IF r.gen.work = gen.work /\ csrf # 0
       THEN /\ access' = [access EXCEPT !.token = [work |-> r.gen.work, era |-> r.era]]
            /\ Continue(r, "after")
       ELSE access' = [access EXCEPT !.busy = FALSE] /\ Take(r)
  /\ UNCHANGED <<auth, list, editor, reveal>>

\* The refresh that follows the token, as one request; then busy(false).
GotAfter(r) ==
  /\ r.kind = "after"
  /\ Take(r)
  /\ list' = IF StillSignedIn(r) THEN r.era ELSE list
  /\ access' = [access EXCEPT !.busy = FALSE]
  /\ UNCHANGED <<auth, editor, reveal>>

\* An answer with the code 200, by a server that saw the session alive.
Answer(r) ==
  /\ r.valid
  /\ \/ GotSession(r) \/ GotStatus(r) \/ GotList(r) \/ GotReveal(r) \/ GotLoad(r) \/ GotSave(r)
     \/ GotAgent(r) \/ GotToken(r) \/ GotAfter(r)
  /\ UNCHANGED <<sessions, clicks>>

\* The logout is confirmed, after the server has ended the session: the cookie
\* is deleted, and signedOut, whoever is signed in by now.
GotLogout(r) ==
  /\ r.kind = "logout" /\ r.valid /\ r.session \notin alive
  /\ Take(r)
  /\ cookie' = 0
  /\ SignedOut
  /\ UNCHANGED <<opened, alive, clicks>>

\* What the server answers with 401: a wrong password, or a session it does not
\* accept any more.
Refused(r) == IF r.kind = "login" THEN ~r.valid ELSE r.session \notin alive

\* 401: api signs the page out, whoever is signed in by now.  The finally
\* blocks find everything closed.
Unauthorized(r) ==
  /\ Refused(r)
  /\ Take(r)
  /\ SignedOut
  /\ UNCHANGED <<sessions, clicks>>

\* Any other error, 403 for a CSRF token of another session among them, or no
\* answer at all: the handler reports it.  The access dialog's finally block
\* ends busy.
Failed(r) ==
  /\ r.kind \notin {"session", "restore"}
  /\ Take(r)
  /\ access' = IF r.kind \in {"agent", "token", "after"} THEN [access EXCEPT !.busy = FALSE] ELSE access
  /\ UNCHANGED <<sessions, auth, list, editor, reveal, clicks>>

\* The session could not be restored when the page was loaded, for whatever
\* reason: signedOut, whoever is signed in by now.
RestoreFailed(r) ==
  /\ r.kind \in {"session", "restore"}
  /\ Take(r)
  /\ SignedOut
  /\ UNCHANGED <<sessions, clicks>>

Next ==
  \/ \E right \in BOOLEAN : SubmitLogin(right)
  \/ \E s \in alive : Expire(s)
  \/ \E kind \in {"status", "logout"} : Press(kind, Nothing)
  \/ \E path \in Paths : Press("reveal", path) \/ OpenEditor(path)
  \/ CloseReveal \/ CloseEditor \/ LoadCurrent \/ SaveSecret
  \/ \E kind \in {"writer", "agent"} : OpenAccess(kind)
  \/ CloseAccess \/ SubmitAccess
  \/ \E r \in pending : \/ Answer(r) \/ GotLogin(r) \/ GotLogout(r)
                        \/ Unauthorized(r) \/ Failed(r) \/ RestoreFailed(r)

Spec == Init /\ [][Next]_vars

(***************************************************************************)
(* Properties.                                                             *)
(***************************************************************************)

\* A value in the editor is the value of the secret that the editor is open
\* for, on a page that is signed in and has not been signed out since the value
\* was asked for, although its answer may come after the editor was closed and
\* opened for another secret, or after other sign-ins (app.js: "A cancelled
\* reveal request must not put a value back into a closed editor, or into a
\* different secret that the user opened while the request was pending").
EditorShowsItsSecret ==
  editor.value # Nothing =>
    csrf # 0 /\ editor.value = [path |-> editor.path, era |-> era]

\* What the page lists, reveals or issues was asked for after the page was last
\* signed out, and is gone with the next sign-out; and a token is shown in the
\* dialog that asked for it (app.js: "Closing or losing the session clears
\* credentials").  A sign-in is no sign-out: when two overlap, or one overtakes
\* the restoring of a session, what the first one listed stays under the
\* second.  The token field of the enrollment form is not among them: its
\* handler compares no generation.
NothingOutlivesSignOut ==
  /\ list # Nothing => csrf # 0 /\ list = era
  /\ reveal # Nothing => csrf # 0 /\ reveal.era = era
  /\ access.token # Nothing =>
       csrf # 0 /\ access.open /\ access.token = [work |-> gen.work, era |-> era]

\* While the request for a token of the open dialog is under way, the dialog
\* cannot be closed (app.js: "While a request is pending, closing is blocked so
\* a successfully issued one-time token is not silently discarded").
PendingBlocksClose ==
  \A r \in pending :
    r.kind \in {"agent", "token"} /\ r.gen.work = gen.work /\ access.open => access.busy
=============================================================================
