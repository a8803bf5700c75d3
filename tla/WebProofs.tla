------------------------------ MODULE WebProofs ------------------------------
(***************************************************************************)
(* The administrator's page for any number of sessions, clicks and         *)
(* requests under way.  The inductive invariant says what the generation   *)
(* counters are for: a request that still has a current generation was     *)
(* sent since the page was last signed out, for the dialog that is open.   *)
(***************************************************************************)
EXTENDS Web, TLAPS

Generations == [auth : Nat, editor : Nat, work : Nat]

PageTypes ==
  /\ opened \in Nat
  /\ gen \in Generations /\ era = gen.auth
  /\ editor = [path |-> editor.path, value |-> editor.value]
  /\ editor.path \in Paths \cup {Nothing}
  /\ access = [open |-> access.open, kind |-> access.kind, busy |-> access.busy,
               agent |-> access.agent, token |-> access.token]

\* Nothing is left on a page that is signed out.
Cleared == csrf = 0 => list = Nothing /\ editor = NoEditor /\ reveal = Nothing /\ access = NoAccess

\* A request of the access dialog's form, whose handler ends busy.
OfDialog(r) == r.kind \in {"agent", "token", "after"}

\* What a pending request remembers.
Remembers(r) ==
  /\ r.gen \in Generations /\ r.era = r.gen.auth
  /\ r.gen.auth <= gen.auth /\ r.gen.editor <= gen.editor /\ r.gen.work <= gen.work
  /\ r.gen.editor = gen.editor \/ r.gen.work = gen.work => r.gen.auth = gen.auth
  /\ r.kind = "session" /\ r.valid => r.session # 0
  /\ OfDialog(r) /\ csrf = 0 => r.gen.auth < gen.auth
  /\ r.kind = "load" /\ r.gen.editor = gen.editor => r.path = editor.path
  /\ r.kind \in {"agent", "token"} /\ r.gen.work = gen.work => access.open

IInv ==
  /\ PageTypes /\ Cleared
  /\ \A r \in pending : Remembers(r)
  /\ EditorShowsItsSecret /\ NothingOutlivesSignOut

LEMMA InitHolds == Init => IInv
<1> SUFFICES ASSUME Init
             PROVE  IInv
  OBVIOUS
<1>1. PageTypes /\ Cleared /\ EditorShowsItsSecret /\ NothingOutlivesSignOut
  BY DEF Init, PageTypes, Cleared, EditorShowsItsSecret, NothingOutlivesSignOut, NoEditor, NoAccess,
         Generations
<1>2. PICK q : q = Ask("session", Nothing, gen, era)
  OBVIOUS
<1>3. q.valid => q.session # 0
  <2>1. cookie \in alive => cookie # 0
    BY DEF Init
  <2>2. q.session = cookie /\ q.valid = (cookie \in alive /\ ("session" \in Writes => csrf = cookie))
    BY <1>2, Zenon DEF Ask
  <2>3. QED
    BY <2>1, <2>2, Zenon
<1>4. q.kind = "session" /\ q.gen = [auth |-> 0, editor |-> 0, work |-> 0] /\ q.era = 0
  BY <1>2 DEF Init, Ask
<1>5. Remembers(q)
  BY <1>3, <1>4 DEF Init, Remembers, OfDialog, Generations
<1>6. QED
  BY <1>1, <1>2, <1>5 DEF Init, IInv

\* signedOut makes every request that is under way stale.
LEMMA SignedOutKeeps ==
  ASSUME IInv, SignedOut, opened' = opened, pending' \subseteq pending
  PROVE  IInv'
<1>1. /\ gen \in Generations /\ gen' \in Generations
      /\ gen'.auth = gen.auth + 1 /\ gen'.editor = gen.editor + 1 /\ gen'.work = gen.work + 1
  BY DEF IInv, PageTypes, SignedOut, Generations
<1>2. PageTypes'
  BY <1>1 DEF IInv, PageTypes, SignedOut, NoEditor, NoAccess
<1>3. \A r \in pending' : Remembers(r)'
  <2> SUFFICES ASSUME NEW r \in pending
               PROVE  Remembers(r)'
    OBVIOUS
  <2>1. Remembers(r)
    BY DEF IInv
  <2>2. r.gen.auth < gen'.auth /\ r.gen.editor < gen'.editor /\ r.gen.work < gen'.work
    BY <1>1, <2>1 DEF Remembers, Generations
  <2>3. QED
    BY <1>1, <2>1, <2>2 DEF Remembers, Generations
<1>4. Cleared' /\ EditorShowsItsSecret' /\ NothingOutlivesSignOut'
  BY DEF SignedOut, Cleared, EditorShowsItsSecret, NothingOutlivesSignOut, NoEditor, NoAccess
<1>5. QED
  BY <1>2, <1>3, <1>4 DEF IInv

\* A step that may change the page, once each part of the invariant is known to
\* survive it.
LEMMA Assemble ==
  ASSUME PageTypes', Cleared', EditorShowsItsSecret', NothingOutlivesSignOut',
         \A r \in pending' : Remembers(r)'
  PROVE  IInv'
BY DEF IInv

\* A step that leaves what is shown alone, may sign in, on top of whoever is
\* signed in already, and may send a request.
LEMMA SendKeeps ==
  ASSUME IInv, UNCHANGED <<gen, era, list, editor, reveal, access>>,
         csrf' = csrf \/ csrf' # 0, opened' \in Nat,
         NEW q, Remembers(q),
         pending' \subseteq pending \cup {q}
  PROVE  IInv'
<1>1. PageTypes' /\ Cleared' /\ EditorShowsItsSecret' /\ NothingOutlivesSignOut'
  BY DEF IInv, PageTypes, Cleared, EditorShowsItsSecret, NothingOutlivesSignOut
<1>2. \A r \in pending \cup {q} : Remembers(r)'
  BY DEF IInv, Remembers
<1>3. QED
  BY <1>1, <1>2 DEF IInv

\* A step of a handler that sends nothing and leaves the page alone.
LEMMA QuietKeeps ==
  ASSUME IInv, UNCHANGED <<opened, page>>, pending' \subseteq pending
  PROVE  IInv'
<1>1. PageTypes' /\ Cleared' /\ EditorShowsItsSecret' /\ NothingOutlivesSignOut'
  BY DEF IInv, PageTypes, Cleared, EditorShowsItsSecret, NothingOutlivesSignOut, page, auth
<1>2. \A r \in pending : Remembers(r)'
  BY DEF IInv, Remembers, page, auth
<1>3. QED
  BY <1>1, <1>2 DEF IInv

\* A step that sends a request and leaves the page alone.
LEMMA RequestKeeps ==
  ASSUME IInv, UNCHANGED <<opened, page>>, NEW q, Remembers(q), pending' \subseteq pending \cup {q}
  PROVE  IInv'
<1>1. opened \in Nat
  BY DEF IInv, PageTypes
<1>2. QED
  BY <1>1, SendKeeps DEF page, auth

\* A request sent now, with the generations of now.
LEMMA AskRemembers ==
  ASSUME IInv, NEW kind, NEW path, kind # "session",
         kind \in {"agent", "token", "after"} => csrf # 0,
         kind = "load" => path = editor.path,
         kind \in {"agent", "token"} => access.open
  PROVE  Remembers(Ask(kind, path, gen, era))
<1>1. gen \in Generations /\ era = gen.auth
  BY DEF IInv, PageTypes
<1>2. QED
  BY <1>1 DEF Ask, Remembers, OfDialog, Generations

\* A request sent by a handler that goes on, with the generations it remembers.
LEMMA ContinueRemembers ==
  ASSUME IInv, NEW r \in pending, NEW kind \in {"list", "token", "after"},
         kind = "token" => r.kind = "agent",
         kind = "after" => csrf # 0
  PROVE  Remembers(Ask(kind, Nothing, r.gen, r.era))
<1>1. Remembers(r)
  BY DEF IInv
<1>2. QED
  BY <1>1 DEF Ask, Remembers, OfDialog

LEMMA SubmitLoginKeeps ==
  ASSUME IInv, NEW right \in BOOLEAN, SubmitLogin(right)
  PROVE  IInv'
<1>1. gen \in Generations /\ era = gen.auth
  BY DEF IInv, PageTypes
<1>2. PICK q : /\ q = [Ask("login", Nothing, gen, era) EXCEPT !.valid = right]
               /\ pending' = pending \cup {q}
  BY DEF SubmitLogin
<1>3. UNCHANGED <<opened, page>>
  BY DEF SubmitLogin, sessions
<1>4. q.kind = "login" /\ q.gen = gen /\ q.era = era
  BY <1>2 DEF Ask
<1>5. Remembers(q)
  BY <1>1, <1>4 DEF Remembers, OfDialog, Generations
<1>6. QED
  BY <1>2, <1>3, <1>5, RequestKeeps

\* Both kinds of sign-in: the handler goes on with refresh.
LEMMA SignInKeeps ==
  ASSUME IInv, NEW r \in pending, GotLogin(r) \/ (Answer(r) /\ GotSession(r))
  PROVE  IInv'
<1>1. opened \in Nat /\ gen \in Generations /\ era = gen.auth /\ Remembers(r)
  BY DEF IInv, PageTypes
<1>2. UNCHANGED <<gen, era, list, editor, reveal, access>>
  BY DEF GotLogin, GotSession
<1>3. csrf' # 0 /\ opened' \in Nat
  BY <1>1 DEF GotLogin, Answer, GotSession, Remembers, sessions
<1>4. PICK q : /\ q.kind \in {"status", "restore"} /\ q.gen = gen /\ q.era = era
               /\ pending' = (pending \ {r}) \cup {q}
  <2>1. CASE GotLogin(r)
    <3>1. PICK q : q = Ask("status", Nothing, gen, era)' /\ pending' = (pending \ {r}) \cup {q}
      BY <2>1 DEF GotLogin
    <3>2. q.kind = "status" /\ q.gen = gen' /\ q.era = era'
      BY <3>1 DEF Ask
    <3>3. QED
      BY <1>2, <3>1, <3>2
  <2>2. CASE GotSession(r)
    <3>1. PICK q : q = Ask("restore", Nothing, gen, era) /\ pending' = (pending \ {r}) \cup {q}
      BY <2>2 DEF GotSession
    <3>2. q.kind = "restore" /\ q.gen = gen /\ q.era = era
      BY <3>1 DEF Ask
    <3>3. QED
      BY <3>1, <3>2
  <2>3. QED
    BY <2>1, <2>2
<1>5. Remembers(q)
  BY <1>1, <1>4 DEF Remembers, OfDialog, Generations
<1>6. QED
  BY <1>2, <1>3, <1>4, <1>5, SendKeeps

LEMMA PressKeeps ==
  ASSUME IInv, NEW kind \in {"status", "logout", "reveal"}, NEW path \in Paths \cup {Nothing}, Press(kind, path)
  PROVE  IInv'
<1>1. UNCHANGED <<opened, page>> /\ pending' = pending \cup {Ask(kind, path, gen, era)}
  BY DEF Press, Send, sessions
<1>2. Remembers(Ask(kind, path, gen, era))
  BY AskRemembers
<1>3. QED
  BY <1>1, <1>2, RequestKeeps

LEMMA EditorAsksKeep == IInv /\ (LoadCurrent \/ SaveSecret) => IInv'
<1> SUFFICES ASSUME IInv, LoadCurrent \/ SaveSecret
             PROVE  IInv'
  OBVIOUS
<1>1. PICK kind \in {"load", "save"} :
        /\ editor.path # Nothing /\ UNCHANGED <<opened, page>>
        /\ pending' = pending \cup {Ask(kind, editor.path, gen, era)}
  BY DEF LoadCurrent, SaveSecret, Send, sessions
<1>2. csrf # 0 /\ editor.path \in Paths \cup {Nothing}
  BY <1>1 DEF IInv, PageTypes, Cleared, NoEditor
<1>3. Remembers(Ask(kind, editor.path, gen, era))
  BY <1>2, AskRemembers
<1>4. QED
  BY <1>1, <1>3, RequestKeeps

\* Opening or closing the editor makes the requests of the previous one stale.
LEMMA EditorTurns ==
  ASSUME IInv, NEW path \in Paths \cup {Nothing}, csrf # 0 \/ path = Nothing,
         UNCHANGED <<opened, csrf, era, list, reveal, access>>,
         gen' = [gen EXCEPT !.editor = @ + 1],
         editor' = [path |-> path, value |-> Nothing]
  PROVE  /\ gen' \in Generations
         /\ Cleared' /\ EditorShowsItsSecret' /\ NothingOutlivesSignOut'
         /\ PageTypes'
         /\ \A r \in pending : Remembers(r)'
<1>1. /\ gen' \in Generations /\ gen \in Generations
      /\ gen'.auth = gen.auth /\ gen'.editor = gen.editor + 1 /\ gen'.work = gen.work
  BY DEF IInv, PageTypes, Generations
<1>2. Cleared' /\ EditorShowsItsSecret' /\ NothingOutlivesSignOut'
  BY <1>1 DEF IInv, Cleared, EditorShowsItsSecret, NothingOutlivesSignOut, NoEditor
<1>3. PageTypes'
  BY <1>1 DEF IInv, PageTypes
<1>4. ASSUME NEW r \in pending
      PROVE  Remembers(r)'
  <2>1. Remembers(r)
    BY DEF IInv, PageTypes
  <2>2. QED
    BY <1>1, <2>1 DEF Remembers, Generations
<1>5. QED
  BY <1>1, <1>2, <1>3, <1>4

LEMMA EditorKeeps == IInv /\ (CloseEditor \/ \E path \in Paths : OpenEditor(path)) => IInv'
<1> SUFFICES ASSUME IInv, CloseEditor \/ \E path \in Paths : OpenEditor(path)
             PROVE  IInv'
  OBVIOUS
<1>1. PICK path \in Paths \cup {Nothing} :
        /\ editor' = [path |-> path, value |-> Nothing]
        /\ gen' = [gen EXCEPT !.editor = @ + 1]
        /\ UNCHANGED <<opened, csrf, era, list, reveal, access, pending>>
  BY DEF CloseEditor, OpenEditor, NoEditor, sessions
<1>2. csrf # 0
  BY DEF IInv, Cleared, NoEditor, CloseEditor, OpenEditor
<1>3. QED
  BY <1>1, <1>2, EditorTurns, Assemble

\* Opening or closing the access dialog makes its earlier requests stale.
LEMMA AccessKeeps == IInv /\ (CloseAccess \/ \E kind \in {"writer", "agent"} : OpenAccess(kind)) => IInv'
<1> SUFFICES ASSUME IInv, CloseAccess \/ \E kind \in {"writer", "agent"} : OpenAccess(kind)
             PROVE  IInv'
  OBVIOUS
<1>1. PICK o, k :
        /\ access' = [open |-> o, kind |-> k, busy |-> FALSE, agent |-> FALSE, token |-> Nothing]
        /\ gen' = [gen EXCEPT !.work = @ + 1]
        /\ UNCHANGED <<opened, csrf, era, list, editor, reveal, pending>>
  BY DEF CloseAccess, OpenAccess, NoAccess, sessions
<1>2. csrf # 0
  BY DEF IInv, Cleared, NoAccess, CloseAccess, OpenAccess
<1>3. /\ gen' \in Generations /\ gen \in Generations
      /\ gen'.auth = gen.auth /\ gen'.editor = gen.editor /\ gen'.work = gen.work + 1
  BY <1>1 DEF IInv, PageTypes, Generations
<1>4. Cleared' /\ EditorShowsItsSecret' /\ NothingOutlivesSignOut'
  BY <1>1, <1>2 DEF IInv, Cleared, EditorShowsItsSecret, NothingOutlivesSignOut
<1>5. PageTypes'
  BY <1>1, <1>3 DEF IInv, PageTypes
<1>6. ASSUME NEW r \in pending
      PROVE  Remembers(r)'
  <2>1. Remembers(r)
    BY DEF IInv, PageTypes
  <2>2. QED
    BY <1>1, <1>2, <1>3, <2>1 DEF Remembers, Generations
<1>7. QED
  BY <1>1, <1>4, <1>5, <1>6, Assemble

\* What the page may list: something asked for since it was last signed out.
Lists(l) == l # Nothing => csrf # 0 /\ l = era

\* A step that changes at most "busy", "agent" and "token" of the access dialog
\* and what is listed, and may send a request.
LEMMA AccessStays ==
  ASSUME IInv, NEW b, NEW a, NEW t, NEW q,
         access = NoAccess => b = FALSE /\ a = FALSE /\ t = Nothing,
         t # Nothing => csrf # 0 /\ access.open /\ t = [work |-> gen.work, era |-> era],
         UNCHANGED <<opened, auth, editor, reveal>>, Lists(list'),
         access' = [open |-> access.open, kind |-> access.kind, busy |-> b, agent |-> a, token |-> t],
         Remembers(q), pending' \subseteq pending \cup {q}
  PROVE  IInv'
<1>1. PageTypes'
  BY DEF IInv, PageTypes, auth
<1>2. Cleared'
  <2> SUFFICES ASSUME csrf = 0
               PROVE  list' = Nothing /\ editor' = NoEditor /\ reveal' = Nothing /\ access' = NoAccess
    BY DEF Cleared, auth
  <2>1. list' = Nothing /\ editor' = NoEditor /\ reveal' = Nothing /\ access = NoAccess
    BY DEF IInv, Cleared, Lists
  <2>2. access.open = FALSE /\ access.kind = Nothing
    BY <2>1 DEF NoAccess
  <2>3. access' = NoAccess
    BY <2>1, <2>2, Zenon DEF NoAccess
  <2>4. QED
    BY <2>1, <2>3
<1>3. EditorShowsItsSecret' /\ NothingOutlivesSignOut'
  BY DEF IInv, EditorShowsItsSecret, NothingOutlivesSignOut, Lists, auth
<1>4. \A r \in pending' : Remembers(r)'
  BY DEF IInv, Remembers, auth
<1>5. QED
  BY <1>1, <1>2, <1>3, <1>4, Assemble

LEMMA SubmitKeeps == IInv /\ SubmitAccess => IInv'
<1> SUFFICES ASSUME IInv, SubmitAccess
             PROVE  IInv'
  OBVIOUS
<1>1. PICK kind : /\ kind \in {"agent", "token"}
                  /\ pending' = pending \cup {Ask(kind, Nothing, gen, era)}
  BY DEF SubmitAccess, Send
<1>2. access.open /\ access.token = Nothing /\ UNCHANGED <<opened, auth, list, editor, reveal>>
  BY DEF SubmitAccess, sessions
<1>3. csrf # 0 /\ access # NoAccess /\ Lists(list')
  BY <1>2 DEF IInv, Cleared, NothingOutlivesSignOut, NoAccess, Lists
<1>4. Remembers(Ask(kind, Nothing, gen, era))
  BY <1>1, <1>2, <1>3, AskRemembers
<1>5. access' = [open |-> access.open, kind |-> access.kind, busy |-> TRUE, agent |-> access.agent,
                 token |-> Nothing]
  BY <1>2 DEF SubmitAccess, IInv, PageTypes
<1>6. QED
  BY <1>1, <1>2, <1>3, <1>4, <1>5, AccessStays

LEMMA GotStatusKeeps ==
  ASSUME IInv, NEW r \in pending, GotStatus(r), opened' = opened
  PROVE  IInv'
<1>1. Remembers(Ask("list", Nothing, r.gen, r.era))
  BY ContinueRemembers
<1>2. UNCHANGED <<opened, page>> /\ pending' \subseteq pending \cup {Ask("list", Nothing, r.gen, r.era)}
  BY DEF GotStatus, Continue
<1>3. QED
  BY <1>1, <1>2, RequestKeeps

\* An answer that the page accepts was asked for since it was last signed out.
LEMMA SessionOf ==
  ASSUME IInv, NEW r \in pending
  PROVE  /\ Remembers(r)
         /\ StillSignedIn(r) => csrf # 0 /\ r.era = era
         /\ r.gen.editor = gen.editor \/ r.gen.work = gen.work => r.era = era
<1>1. Remembers(r) /\ era = gen.auth
  BY DEF IInv, PageTypes
<1>2. QED
  BY <1>1 DEF Remembers, StillSignedIn

LEMMA GotListKeeps ==
  ASSUME IInv, NEW r \in pending, GotList(r), opened' = opened
  PROVE  IInv'
<1>1. Lists(list')
  BY SessionOf DEF GotList, IInv, NothingOutlivesSignOut, Lists
<1>2. UNCHANGED <<opened, auth, editor, reveal, access>> /\ pending' \subseteq pending
  BY DEF GotList, Take
<1>3. PageTypes' /\ Cleared' /\ EditorShowsItsSecret' /\ NothingOutlivesSignOut'
  BY <1>1, <1>2 DEF IInv, PageTypes, Cleared, EditorShowsItsSecret, NothingOutlivesSignOut, Lists, auth
<1>4. \A x \in pending : Remembers(x)'
  BY <1>2 DEF IInv, Remembers, auth
<1>5. QED
  BY <1>2, <1>3, <1>4, Assemble

LEMMA RevealKeeps ==
  ASSUME IInv, UNCHANGED <<opened, auth, list, editor, access>>, pending' \subseteq pending,
         reveal' # Nothing => csrf # 0 /\ reveal'.era = era
  PROVE  IInv'
<1>1. PageTypes' /\ Cleared' /\ EditorShowsItsSecret' /\ NothingOutlivesSignOut'
  BY DEF IInv, PageTypes, Cleared, EditorShowsItsSecret, NothingOutlivesSignOut, auth
<1>2. \A x \in pending' : Remembers(x)'
  BY DEF IInv, Remembers, auth
<1>3. QED
  BY <1>1, <1>2, Assemble

LEMMA GotRevealKeeps ==
  ASSUME IInv, NEW r \in pending, GotReveal(r), opened' = opened
  PROVE  IInv'
<1>1. UNCHANGED <<opened, auth, list, editor, access>> /\ pending' \subseteq pending
  BY DEF GotReveal, Take
<1>2. reveal' # Nothing => csrf # 0 /\ reveal'.era = era
  BY SessionOf DEF GotReveal, IInv, NothingOutlivesSignOut
<1>3. QED
  BY <1>1, <1>2, RevealKeeps

LEMMA GotLoadKeeps ==
  ASSUME IInv, NEW r \in pending, GotLoad(r), opened' = opened
  PROVE  IInv'
<1>1. UNCHANGED <<opened, auth, list, reveal, access>> /\ pending' \subseteq pending
  BY DEF GotLoad, Take
<1>2. CASE r.gen.editor = gen.editor /\ editor.path # Nothing
  <2>1. csrf # 0 /\ r.era = era /\ r.kind = "load" /\ r.path = editor.path
    BY <1>2, SessionOf DEF GotLoad, Remembers, IInv, Cleared, NoEditor
  <2>2. editor' = [path |-> editor.path, value |-> [path |-> r.path, era |-> r.era]]
    BY <1>2 DEF GotLoad, IInv, PageTypes
  <2>3. PageTypes' /\ Cleared' /\ EditorShowsItsSecret' /\ NothingOutlivesSignOut'
    BY <1>1, <2>1, <2>2 DEF IInv, PageTypes, Cleared, EditorShowsItsSecret, NothingOutlivesSignOut, auth
  <2>4. \A x \in pending' : Remembers(x)'
    BY <1>1, <2>2 DEF IInv, Remembers, auth
  <2>5. QED
    BY <2>3, <2>4, Assemble
<1>3. CASE ~(r.gen.editor = gen.editor /\ editor.path # Nothing)
  <2>1. UNCHANGED <<opened, page>>
    BY <1>1, <1>3 DEF GotLoad, page
  <2>2. QED
    BY <1>1, <2>1, QuietKeeps
<1>4. QED
  BY <1>2, <1>3

LEMMA GotSaveKeeps ==
  ASSUME IInv, NEW r \in pending, GotSave(r), opened' = opened
  PROVE  IInv'
<1>1. CASE r.gen.editor = gen.editor
  <2>1. /\ UNCHANGED <<opened, csrf, era, list, reveal, access>>
        /\ gen' = [gen EXCEPT !.editor = @ + 1]
        /\ editor' = [path |-> Nothing, value |-> Nothing]
    BY <1>1 DEF GotSave, NoEditor
  <2>2. /\ gen' \in Generations
        /\ Cleared' /\ EditorShowsItsSecret' /\ NothingOutlivesSignOut'
        /\ PageTypes'
        /\ \A x \in pending : Remembers(x)'
    BY <2>1, EditorTurns
  <2>3. PICK q : /\ q = Ask("status", Nothing, gen', era)
                 /\ pending' = (pending \ {r}) \cup {q}
    BY <1>1 DEF GotSave
  <2>4. q.kind = "status" /\ q.gen = gen' /\ q.era = era'
    BY <2>1, <2>3 DEF Ask
  <2>5. Remembers(q)'
    BY <2>2, <2>4 DEF Remembers, OfDialog, Generations, PageTypes
  <2>6. QED
    BY <2>2, <2>3, <2>5, Assemble
<1>2. CASE r.gen.editor # gen.editor
  <2>1. UNCHANGED <<opened, page>> /\ pending' \subseteq pending
    BY <1>2 DEF GotSave, Take, page, auth
  <2>2. QED
    BY <2>1, QuietKeeps
<1>3. QED
  BY <1>1, <1>2

\* The handlers of the access dialog end with busy(false).
LEMMA BusyEnds ==
  ASSUME IInv, NEW r \in pending, Lists(list'), pending' \subseteq pending,
         UNCHANGED <<opened, auth, editor, reveal>>,
         access' = [access EXCEPT !.busy = FALSE]
  PROVE  IInv'
<1>1. access' = [open |-> access.open, kind |-> access.kind, busy |-> FALSE, agent |-> access.agent,
                 token |-> access.token]
  BY DEF IInv, PageTypes
<1>2. access = NoAccess => access.agent = FALSE /\ access.token = Nothing
  BY DEF NoAccess
<1>3. access.token # Nothing => csrf # 0 /\ access.open /\ access.token = [work |-> gen.work, era |-> era]
  BY DEF IInv, NothingOutlivesSignOut
<1>4. Remembers(r)
  BY SessionOf
<1>5. QED
  BY <1>1, <1>2, <1>3, <1>4, AccessStays

LEMMA GotAgentKeeps ==
  ASSUME IInv, NEW r \in pending, GotAgent(r), opened' = opened
  PROVE  IInv'
<1>1. UNCHANGED <<opened, auth, list, editor, reveal>> /\ r.kind = "agent" /\ Lists(list')
  BY DEF GotAgent, IInv, NothingOutlivesSignOut, Lists
<1>2. CASE r.gen.work = gen.work
  <2>1. access.open /\ access # NoAccess
    BY <1>1, <1>2, SessionOf DEF Remembers, NoAccess
  <2>2. access' = [open |-> access.open, kind |-> access.kind, busy |-> access.busy, agent |-> TRUE,
                   token |-> access.token]
    BY <1>2 DEF GotAgent, IInv, PageTypes
  <2>3. access.token # Nothing => csrf # 0 /\ access.open /\ access.token = [work |-> gen.work, era |-> era]
    BY DEF IInv, NothingOutlivesSignOut
  <2>4. Remembers(Ask("token", Nothing, r.gen, r.era))
    BY <1>1, ContinueRemembers
  <2>5. pending' \subseteq pending \cup {Ask("token", Nothing, r.gen, r.era)}
    BY <1>2 DEF GotAgent, Continue
  <2>6. QED
    BY <1>1, <2>1, <2>2, <2>3, <2>4, <2>5, AccessStays
<1>3. CASE r.gen.work # gen.work
  BY <1>1, <1>3, BusyEnds DEF GotAgent, Take
<1>4. QED
  BY <1>2, <1>3

LEMMA GotTokenKeeps ==
  ASSUME IInv, NEW r \in pending, GotToken(r), opened' = opened
  PROVE  IInv'
<1>1. UNCHANGED <<opened, auth, list, editor, reveal>> /\ r.kind = "token" /\ Lists(list')
  BY DEF GotToken, IInv, NothingOutlivesSignOut, Lists
<1>2. CASE r.gen.work = gen.work /\ csrf # 0
  <2>1. access.open /\ access # NoAccess /\ r.era = era
    BY <1>1, <1>2, SessionOf DEF Remembers, NoAccess
  <2> DEFINE t == [work |-> r.gen.work, era |-> r.era]
  <2>2. access' = [open |-> access.open, kind |-> access.kind, busy |-> access.busy, agent |-> access.agent,
                   token |-> t]
    BY <1>2 DEF GotToken, IInv, PageTypes
  <2>3. t = [work |-> gen.work, era |-> era]
    BY <1>2, <2>1
  <2>4. Remembers(Ask("after", Nothing, r.gen, r.era))
    BY <1>1, <1>2, ContinueRemembers
  <2>5. pending' \subseteq pending \cup {Ask("after", Nothing, r.gen, r.era)}
    BY <1>2 DEF GotToken, Continue
  <2> HIDE DEF t
  <2>6. QED
    BY <1>1, <1>2, <2>1, <2>2, <2>3, <2>4, <2>5, AccessStays
<1>3. CASE ~(r.gen.work = gen.work /\ csrf # 0)
  BY <1>1, <1>3, BusyEnds DEF GotToken, Take
<1>4. QED
  BY <1>2, <1>3

LEMMA GotAfterKeeps ==
  ASSUME IInv, NEW r \in pending, GotAfter(r), opened' = opened
  PROVE  IInv'
<1>1. Lists(list')
  BY SessionOf DEF GotAfter, IInv, NothingOutlivesSignOut, Lists
<1>2. QED
  BY <1>1, BusyEnds DEF GotAfter, Take

LEMMA FailedKeeps ==
  ASSUME IInv, NEW r \in pending, Failed(r)
  PROVE  IInv'
<1>1. Lists(list') /\ pending' \subseteq pending /\ UNCHANGED <<opened, auth, list, editor, reveal>>
  BY DEF Failed, Take, IInv, NothingOutlivesSignOut, Lists, sessions
<1>2. CASE r.kind \in {"agent", "token", "after"}
  BY <1>1, <1>2, BusyEnds DEF Failed
<1>3. CASE r.kind \notin {"agent", "token", "after"}
  BY <1>1, <1>3, QuietKeeps DEF Failed, page
<1>4. QED
  BY <1>2, <1>3

LEMMA AnswerKeeps ==
  ASSUME IInv, NEW r \in pending, Answer(r)
  PROVE  IInv'
<1>1. opened' = opened
  BY DEF Answer, sessions
<1>2. CASE GotSession(r)
  BY <1>2, SignInKeeps
<1>3. QED
  BY <1>1, <1>2, GotStatusKeeps, GotListKeeps, GotRevealKeeps, GotLoadKeeps, GotSaveKeeps,
     GotAgentKeeps, GotTokenKeeps, GotAfterKeeps DEF Answer

LEMMA NextKeeps == IInv /\ [Next]_vars => IInv'
<1> SUFFICES ASSUME IInv, [Next]_vars
             PROVE  IInv'
  OBVIOUS
<1>1. CASE \E right \in BOOLEAN : SubmitLogin(right)
  BY <1>1, SubmitLoginKeeps
<1>2. CASE \E s \in alive : Expire(s)
  BY <1>2, QuietKeeps DEF Expire
<1>3. CASE \E kind \in {"status", "logout"} : Press(kind, Nothing)
  BY <1>3, PressKeeps
<1>4. CASE \E path \in Paths : Press("reveal", path)
  BY <1>4, PressKeeps
<1>5. CASE CloseEditor \/ \E path \in Paths : OpenEditor(path)
  BY <1>5, EditorKeeps
<1>6. CASE CloseReveal
  BY <1>6, RevealKeeps DEF CloseReveal, sessions
<1>7. CASE LoadCurrent \/ SaveSecret
  BY <1>7, EditorAsksKeep
<1>8. CASE CloseAccess \/ \E kind \in {"writer", "agent"} : OpenAccess(kind)
  BY <1>8, AccessKeeps
<1>9. CASE SubmitAccess
  BY <1>9, SubmitKeeps
<1>10. CASE \E r \in pending : Answer(r)
  BY <1>10, AnswerKeeps
<1>11. CASE \E r \in pending : GotLogin(r)
  BY <1>11, SignInKeeps
<1>12. CASE \E r \in pending : GotLogout(r) \/ Unauthorized(r) \/ RestoreFailed(r)
  BY <1>12, SignedOutKeeps DEF GotLogout, Unauthorized, RestoreFailed, Take, sessions
<1>13. CASE \E r \in pending : Failed(r)
  BY <1>13, FailedKeeps
<1>14. CASE UNCHANGED vars
  BY <1>14, QuietKeeps DEF vars, page, auth
<1>15. QED
  BY <1>1, <1>2, <1>3, <1>4, <1>5, <1>6, <1>7, <1>8, <1>9, <1>10, <1>11, <1>12, <1>13, <1>14 DEF Next

\* A value in the editor belongs to the secret the editor is open for, and was
\* asked for since the page was last signed out, in whatever order answers
\* arrive and however often somebody signs in (app.js, load-current).
THEOREM EditorSafe == Spec => []EditorShowsItsSecret
<1>1. Spec => []IInv
  BY InitHolds, NextKeeps, PTL DEF Spec
<1>2. IInv => EditorShowsItsSecret
  BY DEF IInv
<1>3. QED
  BY <1>1, <1>2, PTL

\* What the page lists, reveals or issues was asked for since it was last signed
\* out: signedOut clears it, no answer that comes later brings it back, and a
\* token is shown only in the dialog that asked for it.
THEOREM PageSafe == Spec => []NothingOutlivesSignOut
<1>1. Spec => []IInv
  BY InitHolds, NextKeeps, PTL DEF Spec
<1>2. IInv => NothingOutlivesSignOut
  BY DEF IInv
<1>3. QED
  BY <1>1, <1>2, PTL

(***************************************************************************)
(* The access dialog.                                                      *)
(***************************************************************************)

\* Nobody signs in while a handler of a dialog from before the last sign-out
\* still waits.
NoLeftover == csrf # 0 => \A r \in pending : OfDialog(r) => r.gen.auth = gen.auth

\* The dialog that is open waits for at most one answer, and is busy meanwhile.
OneAnswer ==
  csrf # 0 => \A r \in pending : OfDialog(r) =>
    /\ access.open /\ access.busy
    /\ \A q \in pending : OfDialog(q) => q = r

\* A step that leaves the dialog alone and sends no request of its form.
LEMMA AsideKeeps ==
  ASSUME OneAnswer, access' = access, csrf # 0 \/ csrf' = 0,
         \A r \in pending' : OfDialog(r) => r \in pending
  PROVE  OneAnswer'
BY DEF OneAnswer

\* A handler of the dialog's form ends.
LEMMA LastAnswer ==
  ASSUME OneAnswer, NEW r \in pending, OfDialog(r), pending' = pending \ {r}, csrf' = csrf
  PROVE  OneAnswer'
BY DEF OneAnswer

\* A sign-in, by a page that may be signed in already.
LEMMA SignInKeepsOne ==
  ASSUME IInv, OneAnswer, NoLeftover', NEW r \in pending, GotLogin(r) \/ (Answer(r) /\ GotSession(r))
  PROVE  OneAnswer'
<1>1. access' = access /\ gen' = gen
  BY DEF GotLogin, GotSession
<1>2. csrf' # 0
  <2>1. opened \in Nat /\ Remembers(r)
    BY DEF IInv, PageTypes
  <2>2. QED
    BY <2>1 DEF GotLogin, Answer, GotSession, Remembers
<1>3. \A q \in pending' : OfDialog(q) => q \in pending
  <2>1. ~OfDialog(Ask("status", Nothing, gen, era)') /\ ~OfDialog(Ask("restore", Nothing, gen, era))
    BY DEF OfDialog, Ask
  <2>2. QED
    BY <2>1 DEF GotLogin, GotSession
<1>4. CASE csrf # 0
  BY <1>1, <1>3, <1>4, AsideKeeps
<1>5. CASE csrf = 0
  <2>1. \A q \in pending : OfDialog(q) => q.gen.auth # gen.auth
    BY <1>5 DEF IInv, PageTypes, Remembers, Generations
  <2>2. \A q \in pending' : ~OfDialog(q)
    BY <1>1, <1>2, <1>3, <2>1 DEF NoLeftover
  <2>3. QED
    BY <2>2 DEF OneAnswer
<1>6. QED
  BY <1>4, <1>5

LEMMA AnswerKeepsOne ==
  ASSUME IInv, OneAnswer, NoLeftover', NEW r \in pending, Answer(r)
  PROVE  OneAnswer'
<1>1. CASE GotStatus(r)
  <2>1. ~OfDialog(Ask("list", Nothing, r.gen, r.era))
    BY DEF OfDialog, Ask
  <2>2. QED
    BY <1>1, <2>1, AsideKeeps DEF GotStatus, Continue, page, auth
<1>2. CASE GotList(r) \/ GotReveal(r) \/ GotLoad(r)
  BY <1>2, AsideKeeps DEF GotList, GotReveal, GotLoad, Take, auth
<1>3. CASE GotSave(r)
  <2>1. ~OfDialog(Ask("status", Nothing, gen', era))
    BY DEF OfDialog, Ask
  <2>2. QED
    BY <1>3, <2>1, AsideKeeps DEF GotSave, Take
<1>4. CASE GotSession(r)
  BY <1>4, SignInKeepsOne
<1>5. CASE GotAfter(r)
  BY <1>5, LastAnswer DEF GotAfter, Take, OfDialog, auth
<1>6. CASE (GotAgent(r) \/ GotToken(r)) /\ Take(r)
  BY <1>6, LastAnswer DEF GotAgent, GotToken, Take, OfDialog, auth
<1>7. ASSUME NEW kind \in {"token", "after"}, Continue(r, kind), GotAgent(r) \/ GotToken(r), ~Take(r)
      PROVE  OneAnswer'
  <2>1. OfDialog(r) /\ csrf' = csrf
    BY <1>7 DEF GotAgent, GotToken, OfDialog, auth
  <2>2. access'.open = access.open /\ access'.busy = access.busy
    BY <1>7 DEF GotAgent, GotToken, IInv, PageTypes
  <2>3. \A q \in pending' : csrf # 0 /\ OfDialog(q) => q = Ask(kind, Nothing, r.gen, r.era)
    BY <1>7, <2>1 DEF OneAnswer, Continue
  <2>4. QED
    BY <2>1, <2>2, <2>3 DEF OneAnswer
<1>8. QED
  BY <1>1, <1>2, <1>3, <1>4, <1>5, <1>6, <1>7 DEF Answer, GotAgent, GotToken

LEMMA NextKeepsOne ==
  ASSUME IInv, OneAnswer, NoLeftover', [Next]_vars
  PROVE  OneAnswer'
<1> USE DEF IInv
<1>1. CASE \E right \in BOOLEAN : SubmitLogin(right)
  <2>1. csrf = 0 /\ csrf' = csrf
    BY <1>1 DEF SubmitLogin, page, auth
  <2>2. QED
    BY <2>1 DEF OneAnswer
<1>2. CASE \E s \in alive : Expire(s)
  BY <1>2, AsideKeeps DEF Expire, page, auth
<1>3. ASSUME NEW kind \in {"status", "logout", "reveal"}, NEW path, Press(kind, path)
      PROVE  OneAnswer'
  <2>1. ~OfDialog(Ask(kind, path, gen, era))
    BY DEF OfDialog, Ask
  <2>2. QED
    BY <1>3, <2>1, AsideKeeps DEF Press, Send, page, auth
<1>4. CASE CloseEditor \/ (\E path \in Paths : OpenEditor(path)) \/ CloseReveal
  BY <1>4, AsideKeeps DEF CloseEditor, OpenEditor, CloseReveal, auth
<1>5. CASE LoadCurrent \/ SaveSecret
  <2>1. ~OfDialog(Ask("load", editor.path, gen, era)) /\ ~OfDialog(Ask("save", editor.path, gen, era))
    BY DEF OfDialog, Ask
  <2>2. QED
    BY <1>5, <2>1, AsideKeeps DEF LoadCurrent, SaveSecret, Send, page, auth
<1>6. CASE CloseAccess \/ \E kind \in {"writer", "agent"} : OpenAccess(kind)
  <2>1. csrf' = csrf /\ pending' = pending /\ ~(access.open /\ access.busy)
    BY <1>6 DEF CloseAccess, OpenAccess, Bare
  <2>2. QED
    BY <2>1 DEF OneAnswer
<1>7. CASE SubmitAccess
  <2>1. csrf' = csrf /\ access.open /\ ~access.busy /\ access' = [access EXCEPT !.busy = TRUE]
    BY <1>7 DEF SubmitAccess, auth
  <2>2. access'.open /\ access'.busy
    BY <2>1 DEF PageTypes
  <2>3. csrf # 0 => \A r \in pending : ~OfDialog(r)
    BY <2>1 DEF OneAnswer
  <2>4. PICK q : pending' = pending \cup {q}
    BY <1>7 DEF SubmitAccess, Send
  <2>5. QED
    BY <2>1, <2>2, <2>3, <2>4 DEF OneAnswer
<1>8. CASE \E r \in pending : Answer(r)
  BY <1>8, AnswerKeepsOne
<1>9. CASE \E r \in pending : GotLogout(r) \/ Unauthorized(r) \/ RestoreFailed(r)
  BY <1>9 DEF GotLogout, Unauthorized, RestoreFailed, SignedOut, OneAnswer
<1>10. ASSUME NEW r \in pending, Failed(r)
       PROVE  OneAnswer'
  <2>1. CASE OfDialog(r)
    BY <1>10, <2>1, LastAnswer DEF Failed, Take, auth
  <2>2. CASE ~OfDialog(r)
    BY <1>10, <2>2, AsideKeeps DEF Failed, Take, OfDialog, auth
  <2>3. QED
    BY <2>1, <2>2
<1>11. CASE UNCHANGED vars
  BY <1>11, AsideKeeps DEF vars
<1>12. CASE \E r \in pending : GotLogin(r)
  BY <1>12, SignInKeepsOne
<1>13. QED
  BY <1>1, <1>2, <1>3, <1>4, <1>5, <1>6, <1>7, <1>8, <1>9, <1>10, <1>11, <1>12 DEF Next

\* The run web_busy shows a dialog that can be closed while its token is on its
\* way: the answer to a dialog from before the sign-out has ended busy.  There is
\* no other way: as long as nobody signs in while such an answer is outstanding,
\* a dialog cannot be closed while it waits for a one-time token, in whatever
\* order answers arrive, fail or are refused.
THEOREM CloseBlocked == Spec /\ []NoLeftover => []PendingBlocksClose
<1>1. Spec => []IInv
  BY InitHolds, NextKeeps, PTL DEF Spec
<1>2. Init => OneAnswer
  BY DEF Init, OneAnswer
<1>3. IInv /\ OneAnswer /\ NoLeftover' /\ [Next]_vars => OneAnswer'
  BY NextKeepsOne
<1>4. IInv /\ OneAnswer => PendingBlocksClose
  BY DEF IInv, Cleared, OneAnswer, OfDialog, PendingBlocksClose, NoAccess
<1>5. QED
  BY <1>1, <1>2, <1>3, <1>4, PTL DEF Spec
=============================================================================
