--------------------------- MODULE DeliveryProofs ---------------------------
(***************************************************************************)
(* The agent's journal for any set of definitions, templates and values,   *)
(* and any number of failures, crashes and edits.  An entry that names a   *)
(* version and its output stays right because the server only adds         *)
(* versions, and because nothing but the job under way changes an entry.   *)
(*                                                                         *)
(* Memory and disk may differ: a save that fails after the rename leaves   *)
(* the disk ahead, and the next save, also of another definition, writes   *)
(* the memory back.  Every statement about entries is about both.          *)
(***************************************************************************)
EXTENDS Delivery, TLAPS

Entries(d) == {journal[d], state[d]}

\* An entry as the journal stores it, and what it says about the server.
Names(d, entry) ==
  /\ entry = [revision |-> entry.revision, fingerprint |-> entry.fingerprint,
              output |-> entry.output, pending |-> entry.pending]
  /\ entry.revision \in 0..Len(history[d])
  /\ entry # NotApplied =>
       /\ entry.revision # 0
       /\ entry.output = Hash(Render(entry.fingerprint.source, history[d][entry.revision]))

Short == job = [stage |-> job.stage, d |-> job.d, source |-> job.source, meta |-> job.meta]
Long == job = [stage |-> job.stage, d |-> job.d, source |-> job.source, meta |-> job.meta,
               revision |-> job.revision, data |-> job.data]

Types ==
  /\ history \in [Defs -> Seq(Values)]
  /\ DOMAIN state = Defs /\ DOMAIN journal = Defs /\ DOMAIN file = Defs /\ DOMAIN owed = Defs
  /\ \A d \in Defs : file[d] = [content |-> file[d].content, mode |-> file[d].mode]
  /\ edits \in Nat
  /\ ~At("down") /\ ~At("idle") => job.d \in Defs
  /\ At("check") \/ At("value") => Short
  /\ At("write") \/ At("save") => Long
  /\ At("hook") \/ At("done") => Short \/ Long

\* What the job under way knows of the server is not older than any entry of
\* its definition.
JobAhead ==
  /\ At("check") \/ At("value") =>
       job.meta \in 1..Len(history[job.d]) /\ state[job.d].revision <= job.meta
  /\ At("write") \/ At("save") =>
       /\ job.revision \in 1..Len(history[job.d])
       /\ job.data = Render(job.source, history[job.d][job.revision])
       /\ \A entry \in Entries(job.d) : entry.revision <= job.revision
  /\ At("save") => file[job.d].content \in {job.data, NoFile.content, Foreign}

\* The disk is never behind the memory.
DiskAhead == \A d \in Defs : state[d].revision <= journal[d].revision

JInv ==
  /\ Types /\ JobAhead /\ DiskAhead
  /\ \A d \in Defs : \A entry \in Entries(d) : Names(d, entry)

\* As long as nobody edits or breaks anything, an entry describes the definition
\* and, if it has the newest revision, the file; and a hook that is owed is
\* recorded as pending, or belongs to a version newer than the entry.
Describes(d, entry) ==
  /\ entry # NotApplied => entry.fingerprint = [definition |-> def[d], source |-> template[d]]
  /\ entry # NotApplied /\ entry.revision = Len(history[d]) =>
       file[d] = [content |-> Render(template[d], history[d][entry.revision]), mode |-> def[d].mode]
  /\ owed[d] => entry.pending \/ entry.revision < Len(history[d])

\* Where the disk is ahead, it says whether the hook is due.
DiskOwes == \A d \in Defs : state[d].revision < journal[d].revision => journal[d].pending = def[d].command

\* A job that goes past the check does so for a newer version.
JobNeeded ==
  /\ ~At("down") /\ ~At("idle") => job.source = template[job.d]
  /\ At("value") \/ At("write") \/ At("save") => state[job.d].revision < Len(history[job.d])
  /\ At("save") => /\ file[job.d] = [content |-> job.data, mode |-> def[job.d].mode]
                   /\ owed[job.d] = def[job.d].command
  /\ At("done") => ~owed[job.d]

Unedited ==
  /\ defs = def
  /\ \A d \in Defs : \A entry \in Entries(d) : Describes(d, entry)
  /\ DiskOwes /\ JobNeeded

\* As long as nothing fails, a hook is owed only by the job under way.
Unfailing ==
  /\ \A d \in Defs : owed[d] => job.d = d /\ (At("save") \/ At("hook"))
  /\ At("save") => owed[job.d] = defs[job.d].command

IInv == JInv /\ faults \in Nat /\ (edits = 0 => Unedited) /\ (faults = 0 => Unfailing)

(***************************************************************************)
(* The journal.                                                            *)
(***************************************************************************)

\* The server only adds versions.
LEMMA HistoryGrows ==
  ASSUME history \in [Defs -> Seq(Values)], Server!Next
  PROVE  /\ history' \in [Defs -> Seq(Values)]
         /\ \A d \in Defs : \/ history'[d] = history[d]
                            \/ /\ Len(history'[d]) = Len(history[d]) + 1
                               /\ \A i \in 1..Len(history[d]) : history'[d][i] = history[d][i]
<1>1. CASE \E p \in Defs, v \in Values : Server!Write(p, v)
  <2>1. PICK p \in Defs, v \in Values : history' = [history EXCEPT ![p] = Append(@, v)]
    BY <1>1 DEF Server!Write
  <2>2. history[p] \in Seq(Values) /\ Append(history[p], v) \in Seq(Values)
    OBVIOUS
  <2>3. /\ Len(Append(history[p], v)) = Len(history[p]) + 1
        /\ \A i \in 1..Len(history[p]) : Append(history[p], v)[i] = history[p][i]
    BY <2>2
  <2>4. QED
    BY <2>1, <2>2, <2>3
<1>2. CASE \E p \in Defs : Server!Remove(p)
  BY <1>2 DEF Server!Remove
<1>3. QED
  BY <1>1, <1>2 DEF Server!Next

\* Lengths of histories are natural numbers, and entries' revisions are below.
LEMMA Numbers ==
  ASSUME JInv
  PROVE  \A d \in Defs : /\ Len(history[d]) \in Nat
                         /\ journal[d].revision \in 0..Len(history[d])
                         /\ state[d].revision \in 0..Len(history[d])
<1> SUFFICES ASSUME NEW d \in Defs
             PROVE  /\ Len(history[d]) \in Nat
                    /\ journal[d].revision \in 0..Len(history[d])
                    /\ state[d].revision \in 0..Len(history[d])
  OBVIOUS
<1>1. Len(history[d]) \in Nat
  BY DEF JInv, Types
<1>2. Names(d, journal[d]) /\ Names(d, state[d])
  BY DEF JInv, Entries
<1>3. QED
  BY <1>1, <1>2 DEF Names

LEMMA InitJ == DeliveryInit => JInv
<1> SUFFICES ASSUME DeliveryInit
             PROVE  JInv
  OBVIOUS
<1>1. /\ job = [stage |-> "down"] /\ edits = 0 /\ history = [d \in Defs |-> <<>>]
      /\ state = [d \in Defs |-> NotApplied] /\ journal = state
      /\ file = [d \in Defs |-> NoFile] /\ owed = [d \in Defs |-> FALSE]
  BY DEF DeliveryInit, Init, Server!Init, Down
<1>2. Types
  <2>1. \A d \in Defs : file[d] = [content |-> file[d].content, mode |-> file[d].mode]
    BY <1>1 DEF NoFile
  <2>2. QED
    BY <1>1, <2>1 DEF Types, At
<1>3. JobAhead
  BY <1>1 DEF JobAhead, At
<1>4. \A d \in Defs : journal[d] = NotApplied /\ state[d] = NotApplied /\ Len(history[d]) = 0
  BY <1>1
<1>5. ASSUME NEW d \in Defs
      PROVE  /\ state[d].revision = 0 /\ journal[d].revision = 0
             /\ Names(d, state[d]) /\ Names(d, journal[d])
  <2>1. state[d] = NotApplied /\ journal[d] = state[d] /\ Len(history[d]) = 0
    BY <1>4
  <2>2. state[d].revision = 0
    BY <2>1 DEF NotApplied
  <2>3. state[d] = [revision |-> state[d].revision, fingerprint |-> state[d].fingerprint,
                    output |-> state[d].output, pending |-> state[d].pending]
    BY <2>1 DEF NotApplied
  <2>4. Names(d, state[d])
    BY <2>1, <2>2, <2>3 DEF Names
  <2>5. QED
    BY <2>1, <2>2, <2>4
<1>6. \A d \in Defs : \A entry \in Entries(d) : Names(d, entry)
  BY <1>5 DEF Entries
<1>7. DiskAhead
  <2> SUFFICES ASSUME NEW d \in Defs
               PROVE  state[d].revision <= journal[d].revision
    BY DEF DiskAhead
  <2>1. state[d].revision = 0 /\ journal[d].revision = 0
    BY <1>5
  <2>2. QED
    BY <2>1
<1>8. QED
  BY <1>2, <1>3, <1>6, <1>7 DEF JInv

LEMMA ServerKeepsJ == JInv /\ ServerStep => JInv'
<1> SUFFICES ASSUME JInv, ServerStep
             PROVE  JInv'
  OBVIOUS
<1>1. /\ UNCHANGED <<state, journal, file, owed, job, edits>>
      /\ Server!Next /\ history \in [Defs -> Seq(Values)]
  BY DEF ServerStep, agentVars, JInv, Types
<1>2. /\ history' \in [Defs -> Seq(Values)]
      /\ \A d \in Defs : /\ Len(history[d]) \in Nat /\ Len(history'[d]) \in Nat
                         /\ Len(history[d]) <= Len(history'[d])
                         /\ \A i \in 1..Len(history[d]) : history'[d][i] = history[d][i]
  BY <1>1, HistoryGrows
<1>3. Types'
  BY <1>1, <1>2 DEF JInv, Types, At, Short, Long
<1>4. JobAhead'
  BY <1>1, <1>2 DEF JInv, Types, JobAhead, At, Entries
<1>5. DiskAhead'
  BY <1>1 DEF JInv, DiskAhead
<1>6. ASSUME NEW d \in Defs, NEW entry \in Entries(d)
      PROVE  Names(d, entry)'
  <2>1. Names(d, entry)
    BY DEF JInv
  <2>2. QED
    BY <1>2, <2>1 DEF Names
<1>7. QED
  BY <1>1, <1>3, <1>4, <1>5, <1>6 DEF JInv, Entries

\* A step that leaves the entries and the server alone.
LEMMA EntriesKept ==
  ASSUME JInv, UNCHANGED <<history, state, journal>>, Types', JobAhead'
  PROVE  JInv'
BY DEF JInv, DiskAhead, Entries, Names

LEMMA StartKeepsJ == JInv /\ Start => (history' = history => JInv')
<1> SUFFICES ASSUME JInv, Start, history' = history
             PROVE  JInv'
  OBVIOUS
<1>1. job' = [stage |-> "idle"] /\ state' = journal /\ UNCHANGED <<journal, file, owed, edits>>
  BY DEF Start, Idle, disk
<1>2. Types' /\ JobAhead'
  BY <1>1 DEF JInv, Types, JobAhead, At
<1>3. DiskAhead'
  BY <1>1, Numbers DEF DiskAhead
<1>4. \A d \in Defs : \A entry \in Entries(d)' : Names(d, entry)'
  BY <1>1 DEF JInv, Entries, Names
<1>5. QED
  BY <1>2, <1>3, <1>4 DEF JInv

\* The process stops or gives the definition up.
LEMMA StopKeepsJ ==
  ASSUME JInv, UNCHANGED <<history, state, journal, file, owed, edits>>, job' = Down \/ job' = Idle
  PROVE  JInv'
<1>1. Types' /\ JobAhead'
  BY DEF JInv, Types, JobAhead, At, Down, Idle
<1>2. QED
  BY <1>1, EntriesKept

\* The operator's edits and the drift of files, and a poll.
LEMMA OutsideKeepsJ ==
  ASSUME JInv, UNCHANGED <<history, state, journal, owed, job>>, edits' \in Nat,
         DOMAIN file' = Defs,
         \A d \in Defs : /\ file'[d].content \in {file[d].content, NoFile.content, Foreign}
                         /\ file'[d] = [content |-> file'[d].content, mode |-> file'[d].mode]
  PROVE  JInv'
<1>1. Types'
  BY DEF JInv, Types, At, Short, Long
<1>2. JobAhead'
  BY DEF JInv, Types, JobAhead, At, Entries
<1>3. QED
  BY <1>1, <1>2, EntriesKept

LEMMA BeginKeepsJ ==
  ASSUME JInv, NEW d \in Defs, Begin(d), history' = history
  PROVE  JInv'
<1>1. /\ UNCHANGED <<state, journal, file, owed, edits>>
      /\ job' = [stage |-> "meta", d |-> d, source |-> template[d]]
  BY DEF Begin, disk
<1>2. Types' /\ JobAhead'
  BY <1>1 DEF JInv, Types, JobAhead, At
<1>3. QED
  BY <1>1, <1>2, EntriesKept

LEMMA MetaKeepsJ ==
  ASSUME JInv, job.d \in Defs, MetaReply(Server!Revision(job.d)), history' = history
  PROVE  JInv'
<1>1. /\ UNCHANGED <<state, journal, file, owed, edits>>
      /\ Len(history[job.d]) >= 1
      /\ job' = [stage |-> "check", d |-> job.d, source |-> job.source, meta |-> Len(history[job.d])]
  BY DEF MetaReply, disk, Server!Revision
<1>2. Types'
  BY <1>1 DEF JInv, Types, At, Short
<1>3. JobAhead'
  BY <1>1, Numbers DEF JobAhead, At
<1>4. QED
  BY <1>1, <1>2, <1>3, EntriesKept

LEMMA CheckKeepsJ ==
  ASSUME JInv, Check, history' = history
  PROVE  JInv'
<1>1. UNCHANGED <<state, journal, file, owed, edits>> /\ Short /\ At("check") /\ job.d \in Defs
  BY DEF Check, disk, JInv, Types, At
<1>2. CASE job' = Idle
  BY <1>1, <1>2, StopKeepsJ DEF JInv, Types
<1>3. CASE job' # Idle
  <2>1. PICK s \in {"value", "hook"} :
          job' = [stage |-> s, d |-> job.d, source |-> job.source, meta |-> job.meta]
    BY <1>1, <1>3 DEF Check, Short
  <2>2. Types'
    BY <1>1, <2>1 DEF JInv, Types, At, Short
  <2>3. JobAhead'
    BY <1>1, <2>1 DEF JInv, JobAhead, At
  <2>4. QED
    BY <1>1, <2>2, <2>3, EntriesKept
<1>4. QED
  BY <1>2, <1>3

LEMMA ValueKeepsJ ==
  ASSUME JInv, job.d \in Defs, ValueReply(Server!Revision(job.d), Server!Current(job.d)), history' = history
  PROVE  JInv'
<1>1. /\ UNCHANGED <<state, journal, file, owed, edits>>
      /\ Len(history[job.d]) >= 1
      /\ job' = [stage |-> "write", d |-> job.d, source |-> job.source, meta |-> job.meta,
                 revision |-> Len(history[job.d]),
                 data |-> Render(job.source, history[job.d][Len(history[job.d])])]
  BY DEF ValueReply, disk, Server!Revision, Server!Current
<1>2. Types'
  BY <1>1 DEF JInv, Types, At, Long
<1>3. JobAhead'
  BY <1>1, Numbers DEF JobAhead, At, Entries
<1>4. QED
  BY <1>1, <1>2, <1>3, EntriesKept

LEMMA PublishKeepsJ ==
  ASSUME JInv, At("write"), history' = history,
         Publish([job EXCEPT !.stage = "save"]) \/ Publish(Idle)
  PROVE  JInv'
<1>1. Long /\ job.d \in Defs
  BY DEF JInv, Types, At
<1>2. /\ UNCHANGED <<state, journal, edits>>
      /\ file' = [file EXCEPT ![job.d] = [content |-> job.data, mode |-> defs[job.d].mode]]
      /\ owed' = [owed EXCEPT ![job.d] = defs[job.d].command]
  BY DEF Publish
<1>3. DOMAIN file' = Defs /\ DOMAIN owed' = Defs /\ file'[job.d].content = job.data
  BY <1>1, <1>2 DEF JInv, Types
<1>4. CASE job' = Idle
  <2>1. Types' /\ JobAhead'
    BY <1>2, <1>3, <1>4 DEF JInv, Types, JobAhead, At, Idle
  <2>2. QED
    BY <1>2, <2>1, EntriesKept
<1>5. CASE job' = [job EXCEPT !.stage = "save"]
  <2>1. job' = [stage |-> "save", d |-> job.d, source |-> job.source, meta |-> job.meta,
                revision |-> job.revision, data |-> job.data]
    BY <1>1, <1>5 DEF Long
  <2>2. Types'
    BY <1>1, <1>2, <1>3, <2>1 DEF JInv, Types, At, Long
  <2>3. JobAhead'
    BY <1>1, <1>2, <1>3, <2>1 DEF JInv, JobAhead, At, Entries
  <2>4. QED
    BY <1>2, <2>2, <2>3, EntriesKept
<1>6. QED
  BY <1>4, <1>5 DEF Publish

\* The entry of a file that was just published names what it holds.
LEMMA EntryNames ==
  ASSUME JInv, At("save")
  PROVE  Names(job.d, Entry) /\ state[job.d].revision <= Entry.revision
<1>1. /\ job.revision \in 1..Len(history[job.d])
      /\ job.data = Render(job.source, history[job.d][job.revision])
      /\ state[job.d].revision <= job.revision
  BY DEF JInv, JobAhead, Entries, At
<1>2. /\ Entry = [revision |-> Entry.revision, fingerprint |-> Entry.fingerprint,
                  output |-> Entry.output, pending |-> Entry.pending]
      /\ Entry.revision = job.revision /\ Entry.output = Hash(job.data)
  BY DEF Entry
<1>3. Entry.fingerprint.source = job.source
  BY DEF Entry, Fingerprint
<1>4. job.d \in Defs
  BY DEF JInv, Types, At
<1>5. Len(history[job.d]) \in Nat
  BY <1>4, Numbers
<1>6. QED
  BY <1>1, <1>2, <1>3, <1>5 DEF Names

\* The entry without its pending hook names the same.
LEMMA CompletedNames ==
  ASSUME JInv, NEW d \in Defs, NEW e, e = [state[d] EXCEPT !.pending = FALSE]
  PROVE  /\ Names(d, e) /\ e.revision = state[d].revision
         /\ e.fingerprint = state[d].fingerprint /\ e.output = state[d].output /\ e.pending = FALSE
         /\ state[d] = NotApplied => e = NotApplied
<1>1. Names(d, state[d])
  BY DEF JInv, Entries
<1>2. e = [revision |-> state[d].revision, fingerprint |-> state[d].fingerprint,
           output |-> state[d].output, pending |-> FALSE]
  BY <1>1 DEF Names
<1>3. state[d] = NotApplied => e = NotApplied
  <2> SUFFICES ASSUME state[d] = NotApplied
               PROVE  e = NotApplied
    OBVIOUS
  <2>1. state[d].revision = 0 /\ state[d].fingerprint = <<>> /\ state[d].output = <<>>
    BY DEF NotApplied
  <2>2. QED
    BY <1>2, <2>1, Zenon DEF NotApplied
<1>4. /\ e.revision = state[d].revision /\ e.fingerprint = state[d].fingerprint
      /\ e.output = state[d].output
  BY <1>2
<1>5. e = [revision |-> e.revision, fingerprint |-> e.fingerprint, output |-> e.output, pending |-> e.pending]
  BY <1>2
<1>6. e.pending = FALSE
  BY <1>2
<1>7. Names(d, e)
  BY <1>1, <1>3, <1>4, <1>5 DEF Names
<1>8. QED
  BY <1>3, <1>4, <1>6, <1>7

\* save() writes the memory with one new entry to the disk; the memory follows
\* or not.
LEMMA SavedKeepsJ ==
  ASSUME JInv, NEW d \in Defs, NEW e, Names(d, e), state[d].revision <= e.revision,
         history' = history, Types', JobAhead',
         \/ journal' = [state EXCEPT ![d] = e] /\ (state' = journal' \/ state' = state)
         \/ UNCHANGED <<journal, state>>
  PROVE  JInv'
<1>1. CASE UNCHANGED <<journal, state>>
  BY <1>1, EntriesKept
<1>2. CASE journal' = [state EXCEPT ![d] = e] /\ (state' = journal' \/ state' = state)
  <2>1. DOMAIN state = Defs
    BY DEF JInv, Types
  <2>2. journal'[d] = e /\ \A x \in Defs \ {d} : journal'[x] = state[x]
    BY <1>2, <2>1
  <2>3. \A x \in Defs : state'[x] \in {state[x], journal'[x]}
    BY <1>2
  <2>4. DiskAhead'
    <3> SUFFICES ASSUME NEW x \in Defs
                 PROVE  state'[x].revision <= journal'[x].revision
      BY DEF DiskAhead
    <3>1. state[x].revision \in Nat /\ e.revision \in Nat
      BY Numbers DEF Names
    <3>2. state[x].revision <= journal'[x].revision
      BY <2>2, <3>1
    <3>3. journal'[x].revision \in Nat
      BY <2>2, <3>1
    <3>4. QED
      BY <2>3, <3>2, <3>3
  <2>5. ASSUME NEW x \in Defs, NEW entry \in Entries(x)'
        PROVE  Names(x, entry)'
    <3>1. Names(x, state[x])
      BY DEF JInv, Entries
    <3>2. Names(x, journal'[x])
      BY <2>2, <3>1
    <3>3. Names(x, entry)
      BY <2>3, <3>1, <3>2 DEF Entries
    <3>4. QED
      BY <3>3 DEF Names
  <2>6. QED
    BY <2>4, <2>5 DEF JInv
<1>3. QED
  BY <1>1, <1>2

LEMMA SaveRevisionKeepsJ ==
  ASSUME JInv, SaveRevision, history' = history
  PROVE  JInv'
<1>1. At("save") /\ job.d \in Defs /\ Long
  BY DEF SaveRevision, JInv, Types, At
<1>2. /\ UNCHANGED <<file, owed, edits>>
      /\ \/ journal' = [state EXCEPT ![job.d] = Entry] /\ (state' = journal' \/ state' = state)
         \/ UNCHANGED <<journal, state>>
  BY DEF SaveRevision, SaveOk, SaveFails, SaveUnsynced
<1>3. DOMAIN state' = Defs /\ DOMAIN journal' = Defs
  BY <1>2 DEF JInv, Types
<1>4. \/ job' = [stage |-> "idle"]
      \/ job' = [stage |-> "hook", d |-> job.d, source |-> job.source, meta |-> job.meta,
                 revision |-> job.revision, data |-> job.data]
  BY <1>1 DEF SaveRevision, Idle, Long
<1>5. Types'
  BY <1>1, <1>2, <1>3, <1>4 DEF JInv, Types, At, Long
<1>6. JobAhead'
  BY <1>4 DEF JobAhead, At
<1>7. Names(job.d, Entry) /\ state[job.d].revision <= Entry.revision
  BY <1>1, EntryNames
<1>8. QED
  BY <1>1, <1>2, <1>5, <1>6, <1>7, SavedKeepsJ

LEMMA RunCommandKeepsJ ==
  ASSUME JInv, RunCommand, history' = history
  PROVE  JInv'
<1>1. At("hook") /\ job.d \in Defs /\ (Short \/ Long)
  BY DEF RunCommand, JInv, Types, At
<1>2. UNCHANGED <<state, journal, file, edits>> /\ DOMAIN owed' = Defs
  BY DEF RunCommand, JInv, Types, disk
<1>3. \/ job' = [stage |-> "done", d |-> job.d, source |-> job.source, meta |-> job.meta]
      \/ job' = [stage |-> "done", d |-> job.d, source |-> job.source, meta |-> job.meta,
                 revision |-> job.revision, data |-> job.data]
  BY <1>1 DEF RunCommand, Short, Long
<1>4. Types'
  BY <1>1, <1>2, <1>3 DEF JInv, Types, At, Short, Long
<1>5. JobAhead'
  BY <1>3 DEF JobAhead, At
<1>6. QED
  BY <1>2, <1>4, <1>5, EntriesKept

LEMMA SaveCompletionKeepsJ ==
  ASSUME JInv, SaveCompletion, history' = history
  PROVE  JInv'
<1>1. At("done") /\ job.d \in Defs
  BY DEF SaveCompletion, JInv, Types, At
<1>2. PICK e :
        /\ e = [state[job.d] EXCEPT !.pending = FALSE]
        /\ \/ journal' = [state EXCEPT ![job.d] = e] /\ (state' = journal' \/ state' = state)
           \/ UNCHANGED <<journal, state>>
  BY DEF SaveCompletion, SaveOk, SaveFails, SaveUnsynced
<1>3. UNCHANGED <<file, owed, edits>> /\ job' = [stage |-> "idle"]
  BY DEF SaveCompletion, Idle
<1>4. DOMAIN state' = Defs /\ DOMAIN journal' = Defs
  BY <1>2 DEF JInv, Types
<1>5. Types' /\ JobAhead'
  BY <1>3, <1>4 DEF JInv, Types, JobAhead, At
<1>6. Names(job.d, e) /\ e.revision = state[job.d].revision
  BY <1>1, <1>2, CompletedNames
<1>7. state[job.d].revision <= e.revision
  BY <1>1, <1>6, Numbers
<1>8. QED
  BY <1>1, <1>2, <1>5, <1>6, <1>7, SavedKeepsJ

\* Every step keeps the journal right.
LEMMA NextKeepsJ == JInv /\ [Next]_vars => JInv'
<1> SUFFICES ASSUME JInv, [Next]_vars
             PROVE  JInv'
  OBVIOUS
<1>1. CASE ServerStep
  BY <1>1, ServerKeepsJ
<1>2. CASE Answered
  <2>1. job.d \in Defs /\ history' = history
    BY <1>2 DEF Answered, serverVars
  <2>2. CASE Refused
    BY <2>1, <2>2, StopKeepsJ DEF Refused, GiveUp, disk, JInv, Types
  <2>3. QED
    BY <1>2, <2>1, <2>2, MetaKeepsJ, ValueKeepsJ DEF Answered
<1>3. CASE Local
  <2>1. history' = history
    BY <1>3 DEF Local, serverVars
  <2>2. CASE Poll
    BY <2>1, <2>2, OutsideKeepsJ DEF Poll, disk, JInv, Types
  <2>3. CASE Fails
    BY <2>1, <2>3, StopKeepsJ DEF Fails, GiveUp, disk, JInv, Types
  <2>4. CASE \E d \in Defs : Begin(d)
    BY <2>1, <2>4, BeginKeepsJ
  <2>5. CASE WriteFile \/ WriteFileUnsynced
    BY <2>1, <2>5, PublishKeepsJ DEF WriteFile, WriteFileUnsynced, Publish
  <2>6. QED
    BY <1>3, <2>1, <2>2, <2>3, <2>4, <2>5, StartKeepsJ, CheckKeepsJ, SaveRevisionKeepsJ,
       RunCommandKeepsJ, SaveCompletionKeepsJ DEF Local
<1>4. CASE Outside
  <2>1. history' = history
    BY <1>4 DEF Outside, serverVars
  <2>2. CASE Crash
    BY <2>1, <2>2, StopKeepsJ DEF Crash, disk, JInv, Types
  <2>3. CASE \/ \E d \in Defs, content \in Definitions \cup {Invalid} : EditDefinition(d, content)
             \/ \E d \in Defs, source \in Templates : EditTemplate(d, source)
    <3>1. UNCHANGED <<state, journal, owed, job, file>> /\ edits' \in Nat
      BY <2>3 DEF EditDefinition, EditTemplate, Edit, JInv, Types
    <3>2. DOMAIN file' = Defs
          /\ \A d \in Defs : /\ file'[d].content = file[d].content
                             /\ file'[d] = [content |-> file'[d].content, mode |-> file'[d].mode]
      BY <3>1 DEF JInv, Types
    <3>3. QED
      BY <2>1, <3>1, <3>2, OutsideKeepsJ
  <2>4. CASE \E d \in Defs : Drift(d)
    <3>1. PICK d \in Defs : Drift(d)
      BY <2>4
    <3>2. UNCHANGED <<state, journal, owed, job>> /\ edits' \in Nat
      BY <3>1 DEF Drift, Edit, JInv, Types
    <3>3. DOMAIN file' = Defs
      BY <3>1 DEF Drift, JInv, Types
    <3>4. ASSUME NEW x \in Defs
          PROVE  /\ file'[x].content \in {file[x].content, NoFile.content, Foreign}
                 /\ file'[x] = [content |-> file'[x].content, mode |-> file'[x].mode]
      <4>1. file[x] = [content |-> file[x].content, mode |-> file[x].mode]
        BY DEF JInv, Types
      <4>2. CASE file' = [file EXCEPT ![d] = NoFile]
        BY <4>1, <4>2 DEF NoFile, JInv, Types
      <4>3. CASE file' = [file EXCEPT ![d].content = Foreign]
        <5>1. file'[x] = file[x] \/ file'[x] = [content |-> Foreign, mode |-> file[x].mode]
          BY <4>1, <4>3 DEF JInv, Types
        <5>2. QED
          BY <4>1, <5>1
      <4>4. QED
        BY <3>1, <4>2, <4>3 DEF Drift
    <3>5. QED
      BY <2>1, <3>2, <3>3, <3>4, OutsideKeepsJ
  <2>5. QED
    BY <1>4, <2>2, <2>3, <2>4 DEF Outside, Environment
<1>5. CASE UNCHANGED vars
  BY <1>5, OutsideKeepsJ DEF vars, agentVars, serverVars, JInv, Types
<1>6. QED
  BY <1>1, <1>2, <1>3, <1>4, <1>5 DEF Next

\* An entry of the journal, in memory or on disk, names a version of the secret
\* and the output that this version renders to, although the metadata and the
\* value are two requests: for any interleaving of writes, failed saves,
\* crashes, restarts and edits.
THEOREM JournalRight == Spec => []JournalNamesWhatItHolds
<1>1. JInv => JournalNamesWhatItHolds
  <2> SUFFICES ASSUME JInv, NEW d \in Defs, NEW entry \in {journal[d], state[d]}, entry # NotApplied
               PROVE  /\ entry.revision \in 1..Len(history[d])
                      /\ entry.output = Hash(Render(entry.fingerprint.source, history[d][entry.revision]))
    BY DEF JournalNamesWhatItHolds, Server!Revision
  <2>1. Names(d, entry) /\ Len(history[d]) \in Nat
    BY Numbers DEF JInv, Entries
  <2>2. QED
    BY <2>1 DEF Names
<1>2. QED
  BY <1>1, InitJ, NextKeepsJ, PTL DEF Spec

(***************************************************************************)
(* The hooks.                                                              *)
(***************************************************************************)

LEMMA InitU == DeliveryInit => Unedited
<1> SUFFICES ASSUME DeliveryInit
             PROVE  Unedited
  OBVIOUS
<1>1. /\ job = [stage |-> "down"] /\ defs = def
      /\ state = [d \in Defs |-> NotApplied] /\ journal = state /\ owed = [d \in Defs |-> FALSE]
  BY DEF DeliveryInit, Init, Down
<1>2. \A d \in Defs : journal[d] = NotApplied /\ state[d] = NotApplied /\ ~owed[d]
  BY <1>1
<1>3. \A d \in Defs : \A entry \in Entries(d) : Describes(d, entry)
  BY <1>2 DEF Entries, Describes
<1>4. DiskOwes
  <2> SUFFICES ASSUME NEW d \in Defs
               PROVE  ~(state[d].revision < journal[d].revision)
    BY DEF DiskOwes
  <2>1. state[d].revision = 0 /\ journal[d].revision = 0
    BY <1>2 DEF NotApplied
  <2>2. QED
    BY <2>1
<1>5. JobNeeded
  BY <1>1 DEF JobNeeded, At
<1>6. QED
  BY <1>1, <1>3, <1>4, <1>5 DEF Unedited

LEMMA ServerKeepsU ==
  ASSUME JInv, Unedited, ServerStep
  PROVE  Unedited'
<1>1. /\ UNCHANGED <<state, journal, file, owed, job, def, defs, template>>
      /\ Server!Next /\ history \in [Defs -> Seq(Values)]
  BY DEF ServerStep, agentVars, JInv, Types
<1>2. \A d \in Defs : /\ Len(history[d]) \in Nat /\ Len(history'[d]) \in Nat
                      /\ history'[d] = history[d] \/ Len(history'[d]) = Len(history[d]) + 1
  BY <1>1, HistoryGrows
<1>3. ASSUME NEW d \in Defs, NEW entry \in Entries(d)
      PROVE  Describes(d, entry)'
  <2>1. Describes(d, entry) /\ entry.revision \in 0..Len(history[d])
    BY DEF JInv, Unedited, Names
  <2>2. CASE history'[d] = history[d]
    BY <1>1, <2>1, <2>2 DEF Describes
  <2>3. CASE Len(history'[d]) = Len(history[d]) + 1
    <3>1. entry.revision < Len(history'[d]) /\ entry.revision # Len(history'[d])
      BY <1>2, <2>1, <2>3
    <3>2. QED
      BY <1>1, <2>1, <3>1 DEF Describes
  <2>4. QED
    BY <1>2, <2>2, <2>3
<1>4. DiskOwes'
  BY <1>1 DEF Unedited, DiskOwes
<1>5. JobNeeded'
  <2>1. CASE At("down") \/ At("idle")
    BY <1>1, <2>1 DEF JobNeeded, At
  <2>2. CASE ~(At("down") \/ At("idle"))
    <3>1. job.d \in Defs /\ JobNeeded
      BY <2>2 DEF JInv, Types, Unedited
    <3>2. state[job.d].revision \in Nat /\ Len(history[job.d]) \in Nat /\ Len(history'[job.d]) \in Nat
          /\ Len(history[job.d]) <= Len(history'[job.d])
      BY <1>2, <3>1, Numbers
    <3>3. QED
      BY <1>1, <3>1, <3>2 DEF JobNeeded, At
  <2>3. QED
    BY <2>1, <2>2
<1>6. QED
  BY <1>1, <1>3, <1>4, <1>5 DEF Unedited, Entries

\* A step that leaves the entries, the files and the server alone.
LEMMA QuietKeepsU ==
  ASSUME Unedited, UNCHANGED <<history, state, journal, file, owed, def, template>>,
         defs' = def, JobNeeded'
  PROVE  Unedited'
<1>1. \A d \in Defs : \A entry \in Entries(d)' : Describes(d, entry)'
  BY DEF Unedited, Describes, Entries
<1>2. DiskOwes'
  BY DEF Unedited, DiskOwes
<1>3. QED
  BY <1>1, <1>2 DEF Unedited

\* The process stops, gives up, or polls.
LEMMA StopKeepsU ==
  ASSUME Unedited, UNCHANGED <<history, state, journal, file, owed, def, template>>,
         defs' = def, job' = Down \/ job' = Idle
  PROVE  Unedited'
<1>1. JobNeeded'
  BY DEF JobNeeded, At, Down, Idle
<1>2. QED
  BY <1>1, QuietKeepsU

LEMMA StartKeepsU ==
  ASSUME JInv, Unedited, Start, history' = history
  PROVE  Unedited'
<1>1. job' = [stage |-> "idle"] /\ state' = journal /\ UNCHANGED <<journal, file, owed, def, defs, template>>
  BY DEF Start, Idle, disk
<1>2. JobNeeded'
  BY <1>1 DEF JobNeeded, At
<1>3. \A d \in Defs : \A entry \in Entries(d)' : Describes(d, entry)'
  BY <1>1 DEF Unedited, Describes, Entries
<1>4. DiskOwes'
  BY <1>1, Numbers DEF DiskOwes
<1>5. QED
  BY <1>1, <1>2, <1>3, <1>4 DEF Unedited

\* A job that was not up to date has a version to fetch: if its entry had the
\* newest revision, definition, template and file would agree with it.
LEMMA CheckKeepsU ==
  ASSUME JInv, Unedited, Check, history' = history
  PROVE  Unedited'
<1>1. /\ UNCHANGED <<state, journal, file, owed, def, defs, template>>
      /\ Short /\ At("check") /\ job.d \in Defs /\ defs = def
  BY DEF Check, disk, JInv, Types, At, Unedited
<1>2. CASE job' = Idle
  BY <1>1, <1>2, StopKeepsU
<1>3. CASE ~UpToDate(job.d)
  <2>1. job' = [stage |-> "value", d |-> job.d, source |-> job.source, meta |-> job.meta]
    BY <1>1, <1>3 DEF Check, Short
  <2> DEFINE e == state[job.d]
             n == Len(history[job.d])
  <2>2. n \in Nat /\ e.revision \in 0..n /\ job.meta \in 1..n /\ e.revision <= job.meta
    BY <1>1, Numbers DEF JInv, JobAhead
  <2>3. Names(job.d, e) /\ Describes(job.d, e) /\ job.source = template[job.d]
    BY <1>1 DEF JInv, Unedited, Entries, JobNeeded, At
  <2>4. ASSUME e.revision = n
        PROVE  FALSE
    <3>1. job.meta = e.revision /\ e.revision # 0
      BY <2>2, <2>4
    <3>2. e # NotApplied
      BY <3>1 DEF NotApplied
    <3>3. e.fingerprint = [definition |-> def[job.d], source |-> template[job.d]]
      BY <2>3, <3>2 DEF Describes
    <3>4. /\ file[job.d] = [content |-> Render(template[job.d], history[job.d][e.revision]),
                            mode |-> def[job.d].mode]
          /\ e.output = Hash(Render(e.fingerprint.source, history[job.d][e.revision]))
      BY <2>3, <2>4, <3>2 DEF Describes, Names
    <3>5. file[job.d].content # <<>>
      BY <3>4 DEF Render
    <3>6. file[job.d] # NoFile
      BY <3>5 DEF NoFile
    <3>7. Hash(file[job.d].content) = e.output /\ file[job.d].mode = defs[job.d].mode
      BY <1>1, <3>3, <3>4
    <3>8. e.fingerprint = Fingerprint(job.d)
      BY <1>1, <2>3, <3>3 DEF Fingerprint
    <3>9. QED
      BY <1>3, <3>1, <3>6, <3>7, <3>8 DEF UpToDate, Deployed
  <2>5. state[job.d].revision < Len(history[job.d])
    BY <2>2, <2>4
  <2>6. JobNeeded'
    BY <1>1, <2>1, <2>3, <2>5 DEF JobNeeded, At
  <2>7. QED
    BY <1>1, <2>6, QuietKeepsU
<1>4. CASE UpToDate(job.d) /\ job' # Idle
  <2>1. job' = [stage |-> "hook", d |-> job.d, source |-> job.source, meta |-> job.meta]
    BY <1>1, <1>4 DEF Check, Short
  <2>2. JobNeeded'
    BY <1>1, <2>1 DEF Unedited, JobNeeded, At
  <2>3. QED
    BY <1>1, <2>2, QuietKeepsU
<1>5. QED
  BY <1>2, <1>3, <1>4

\* The other steps of a job that touch neither files nor entries.
LEMMA JobKeepsU ==
  ASSUME JInv, Unedited, history' = history,
         \/ \E d \in Defs : Begin(d)
         \/ job.d \in Defs /\ MetaReply(Server!Revision(job.d))
         \/ job.d \in Defs /\ ValueReply(Server!Revision(job.d), Server!Current(job.d))
  PROVE  Unedited'
<1>1. /\ UNCHANGED <<state, journal, file, owed, def, defs, template>> /\ defs = def
  BY DEF Begin, MetaReply, ValueReply, disk, Unedited
<1>2. CASE \E d \in Defs : Begin(d)
  <2>1. PICK d \in Defs : job' = [stage |-> "meta", d |-> d, source |-> template[d]]
    BY <1>2 DEF Begin
  <2>2. JobNeeded'
    BY <1>1, <2>1 DEF JobNeeded, At
  <2>3. QED
    BY <1>1, <2>2, QuietKeepsU
<1>3. CASE job.d \in Defs /\ MetaReply(Server!Revision(job.d))
  <2>1. At("meta") /\ job'.stage = "check" /\ job'.d = job.d /\ job'.source = job.source
    BY <1>3 DEF MetaReply
  <2>2. JobNeeded'
    BY <1>1, <2>1 DEF Unedited, JobNeeded, At
  <2>3. QED
    BY <1>1, <2>2, QuietKeepsU
<1>4. CASE job.d \in Defs /\ ValueReply(Server!Revision(job.d), Server!Current(job.d))
  <2>1. At("value") /\ job'.stage = "write" /\ job'.d = job.d /\ job'.source = job.source
    BY <1>4 DEF ValueReply
  <2>2. JobNeeded'
    BY <1>1, <2>1 DEF Unedited, JobNeeded, At
  <2>3. QED
    BY <1>1, <2>2, QuietKeepsU
<1>5. QED
  BY <1>2, <1>3, <1>4

\* Publishing makes a hook due for a version that the memory does not have yet;
\* where the disk has it already, the disk says that the hook is pending.
LEMMA PublishKeepsU ==
  ASSUME JInv, Unedited, history' = history,
         Publish([job EXCEPT !.stage = "save"]) \/ Publish(Idle)
  PROVE  Unedited'
<1>1. At("write") /\ Long /\ job.d \in Defs /\ defs = def
  BY DEF JInv, Types, At, Publish, Unedited
<1>2. /\ UNCHANGED <<state, journal, def, defs, template>>
      /\ file' = [file EXCEPT ![job.d] = [content |-> job.data, mode |-> def[job.d].mode]]
      /\ owed' = [owed EXCEPT ![job.d] = def[job.d].command]
  BY <1>1 DEF Publish
<1>3. DOMAIN file = Defs /\ DOMAIN owed = Defs
  BY DEF JInv, Types
<1> PICK d \in Defs : d = job.d
  BY <1>1
<1>4. /\ file'[d] = [content |-> job.data, mode |-> def[d].mode]
      /\ owed'[d] = def[d].command
      /\ \A x \in Defs \ {d} : file'[x] = file[x] /\ owed'[x] = owed[x]
  BY <1>1, <1>2, <1>3
<1>5. /\ job.revision \in 1..Len(history[d])
      /\ job.data = Render(template[d], history[d][job.revision])
      /\ state[d].revision < Len(history[d])
      /\ journal[d].revision <= job.revision
  BY <1>1 DEF JInv, JobAhead, Unedited, JobNeeded, Entries, At
<1>6. /\ state[d].revision \in Nat /\ journal[d].revision \in Nat
      /\ Len(history[d]) \in Nat
  BY <1>1, Numbers
<1>7. Describes(d, state[d])'
  <2>1. Describes(d, state[d]) /\ state[d].revision # Len(history[d])
    BY <1>1, <1>5, <1>6 DEF Unedited, Entries
  <2>2. QED
    BY <1>2, <1>5, <2>1 DEF Describes
<1>8. Describes(d, journal[d])'
  <2>1. Describes(d, journal[d])
    BY <1>1 DEF Unedited, Entries
  <2>2. CASE journal[d].revision = Len(history[d])
    <3>1. journal[d].revision = job.revision /\ state[d].revision < journal[d].revision
      BY <1>5, <1>6, <2>2
    <3>2. journal[d].pending = def[d].command
      BY <1>1, <3>1 DEF Unedited, DiskOwes
    <3>3. QED
      BY <1>2, <1>4, <1>5, <2>1, <3>1, <3>2 DEF Describes
  <2>3. CASE journal[d].revision # Len(history[d])
    <3>1. journal[d].revision < Len(history[d])
      BY <1>5, <1>6, <2>3
    <3>2. QED
      BY <1>2, <2>1, <2>3, <3>1 DEF Describes
  <2>4. QED
    BY <2>2, <2>3
<1>9. ASSUME NEW x \in Defs \ {d}, NEW entry \in Entries(x)
      PROVE  Describes(x, entry)'
  <2>1. Describes(x, entry)
    BY DEF Unedited
  <2>2. QED
    BY <1>2, <1>4, <2>1 DEF Describes
<1>10. \A x \in Defs : \A entry \in Entries(x)' : Describes(x, entry)'
  BY <1>2, <1>7, <1>8, <1>9 DEF Entries
<1>11. DiskOwes'
  BY <1>2 DEF Unedited, DiskOwes
<1>12. JobNeeded'
  <2>1. CASE job' = Idle
    BY <2>1 DEF JobNeeded, At, Idle
  <2>2. CASE job' = [job EXCEPT !.stage = "save"]
    <3>1. job' = [stage |-> "save", d |-> job.d, source |-> job.source, meta |-> job.meta,
                  revision |-> job.revision, data |-> job.data]
      BY <1>1, <2>2 DEF Long
    <3>2. job.source = template[job.d]
      BY <1>1 DEF Unedited, JobNeeded, At
    <3>3. QED
      BY <1>2, <1>4, <1>5, <3>1, <3>2 DEF JobNeeded, At
  <2>3. QED
    BY <2>1, <2>2 DEF Publish
<1>13. QED
  BY <1>1, <1>2, <1>10, <1>11, <1>12 DEF Unedited

LEMMA SavedKeepsU ==
  ASSUME JInv, Unedited, NEW d \in Defs, NEW e, e.revision \in Nat, Describes(d, e),
         state[d].revision < e.revision => e.pending = def[d].command,
         UNCHANGED <<history, file, owed, def, defs, template>>, JobNeeded',
         \/ journal' = [state EXCEPT ![d] = e] /\ (state' = journal' \/ state' = state)
         \/ UNCHANGED <<journal, state>>
  PROVE  Unedited'
<1>1. CASE UNCHANGED <<journal, state>>
  BY <1>1, QuietKeepsU DEF Unedited
<1>2. CASE journal' = [state EXCEPT ![d] = e] /\ (state' = journal' \/ state' = state)
  <2>1. DOMAIN state = Defs
    BY DEF JInv, Types
  <2>2. journal'[d] = e /\ \A x \in Defs \ {d} : journal'[x] = state[x]
    BY <1>2, <2>1
  <2>3. \A x \in Defs : state'[x] \in {state[x], journal'[x]}
    BY <1>2
  <2>4. DiskOwes'
    <3> SUFFICES ASSUME NEW x \in Defs, state'[x].revision < journal'[x].revision
                 PROVE  journal'[x].pending = def[x].command
      BY DEF DiskOwes
    <3>1. state[x].revision \in Nat
      BY Numbers
    <3>2. CASE x = d
      <4>1. CASE state'[x] = journal'[x]
        <5>1. e.revision < e.revision
          BY <2>2, <3>2, <4>1
        <5>2. QED
          BY <5>1
      <4>2. CASE state'[x] = state[x]
        BY <2>2, <3>2, <4>2
      <4>3. QED
        BY <2>3, <4>1, <4>2
    <3>3. CASE x # d
      <4>1. state'[x] = state[x] /\ journal'[x] = state[x]
        BY <2>2, <2>3, <3>3
      <4>2. QED
        BY <3>1, <4>1
    <3>4. QED
      BY <3>2, <3>3
  <2>5. ASSUME NEW x \in Defs, NEW entry \in Entries(x)'
        PROVE  Describes(x, entry)'
    <3>1. Describes(x, state[x])
      BY DEF Unedited, Entries
    <3>2. Describes(x, journal'[x])
      BY <2>2, <3>1
    <3>3. Describes(x, entry)
      BY <2>3, <3>1, <3>2 DEF Entries
    <3>4. QED
      BY <3>3 DEF Describes
  <2>6. QED
    BY <2>4, <2>5 DEF Unedited
<1>3. QED
  BY <1>1, <1>2

LEMMA SaveRevisionKeepsU ==
  ASSUME JInv, Unedited, SaveRevision, history' = history
  PROVE  Unedited'
<1>1. At("save") /\ job.d \in Defs /\ Long /\ defs = def
  BY DEF SaveRevision, JInv, Types, At, Unedited
<1>2. /\ UNCHANGED <<file, owed, def, defs, template>>
      /\ \/ journal' = [state EXCEPT ![job.d] = Entry] /\ (state' = journal' \/ state' = state)
         \/ UNCHANGED <<journal, state>>
  BY DEF SaveRevision, SaveOk, SaveFails, SaveUnsynced
<1>3. /\ job.data = Render(job.source, history[job.d][job.revision])
      /\ job.source = template[job.d]
      /\ file[job.d] = [content |-> job.data, mode |-> def[job.d].mode]
      /\ owed[job.d] = def[job.d].command
  BY <1>1 DEF JInv, JobAhead, Unedited, JobNeeded, At
<1>4. /\ Entry.revision = job.revision /\ Entry.pending = def[job.d].command
      /\ Entry.fingerprint = [definition |-> def[job.d], source |-> template[job.d]]
  BY <1>1, <1>3 DEF Entry, Fingerprint
<1>5. Describes(job.d, Entry)
  BY <1>3, <1>4 DEF Describes
<1>6. \/ job' = [stage |-> "idle"]
      \/ job' = [stage |-> "hook", d |-> job.d, source |-> job.source, meta |-> job.meta,
                 revision |-> job.revision, data |-> job.data]
  BY <1>1 DEF SaveRevision, Idle, Long
<1>7. JobNeeded'
  BY <1>2, <1>3, <1>6 DEF JobNeeded, At
<1>8. QED
  <2>1. Len(history[job.d]) \in Nat /\ job.revision \in 1..Len(history[job.d])
    BY <1>1, Numbers DEF JInv, JobAhead
  <2>2. Entry.revision \in Nat
    BY <1>4, <2>1
  <2>3. QED
    BY <1>1, <1>2, <1>4, <1>5, <1>7, <2>2, SavedKeepsU

LEMMA RunCommandKeepsU ==
  ASSUME JInv, Unedited, RunCommand, history' = history
  PROVE  Unedited'
<1>1. At("hook") /\ job.d \in Defs /\ (Short \/ Long) /\ DOMAIN owed = Defs
  BY DEF RunCommand, JInv, Types, At
<1>2. /\ UNCHANGED <<state, journal, file, def, defs, template>>
      /\ owed' = [owed EXCEPT ![job.d] = FALSE]
  BY DEF RunCommand, disk
<1>3. job'.stage = "done" /\ job'.d = job.d /\ job'.source = job.source
  BY <1>1 DEF RunCommand, Short, Long
<1>4. \A x \in Defs : owed'[x] => owed[x]
  BY <1>1, <1>2
<1>5. ~owed'[job.d]
  BY <1>1, <1>2
<1>6. JobNeeded'
  BY <1>1, <1>2, <1>3, <1>5 DEF Unedited, JobNeeded, At
<1>7. ASSUME NEW x \in Defs, NEW entry \in Entries(x)
      PROVE  Describes(x, entry)'
  <2>1. Describes(x, entry)
    BY DEF Unedited
  <2>2. QED
    BY <1>2, <1>4, <2>1 DEF Describes
<1>8. DiskOwes'
  BY <1>2 DEF Unedited, DiskOwes
<1>9. QED
  BY <1>2, <1>6, <1>7, <1>8 DEF Unedited, Entries

LEMMA SaveCompletionKeepsU ==
  ASSUME JInv, Unedited, SaveCompletion, history' = history
  PROVE  Unedited'
<1>1. At("done") /\ job.d \in Defs
  BY DEF SaveCompletion, JInv, Types, At
<1>2. PICK e :
        /\ e = [state[job.d] EXCEPT !.pending = FALSE]
        /\ \/ journal' = [state EXCEPT ![job.d] = e] /\ (state' = journal' \/ state' = state)
           \/ UNCHANGED <<journal, state>>
  BY DEF SaveCompletion, SaveOk, SaveFails, SaveUnsynced
<1>3. UNCHANGED <<file, owed, def, defs, template>> /\ job' = [stage |-> "idle"]
  BY DEF SaveCompletion, Idle
<1>4. /\ e.revision = state[job.d].revision /\ e.fingerprint = state[job.d].fingerprint
      /\ state[job.d] = NotApplied => e = NotApplied
  BY <1>1, <1>2, CompletedNames
<1>5. Describes(job.d, state[job.d]) /\ ~owed[job.d]
  BY <1>1 DEF Unedited, Entries, JobNeeded
<1>6. Describes(job.d, e)
  BY <1>4, <1>5 DEF Describes
<1>7. state[job.d].revision \in Nat
  BY <1>1, Numbers
<1>8. ~(state[job.d].revision < e.revision)
  BY <1>4, <1>7
<1>9. JobNeeded'
  BY <1>3 DEF JobNeeded, At
<1>10. QED
  BY <1>1, <1>2, <1>3, <1>4, <1>6, <1>7, <1>8, <1>9, SavedKeepsU

LEMMA NextKeepsU ==
  ASSUME JInv, Unedited, [Next]_vars, edits' = edits
  PROVE  Unedited'
<1>1. CASE ServerStep
  BY <1>1, ServerKeepsU
<1>2. CASE Answered
  <2>1. job.d \in Defs /\ history' = history
    BY <1>2 DEF Answered, serverVars
  <2>2. CASE Refused
    BY <2>1, <2>2, StopKeepsU DEF Refused, GiveUp, disk, Unedited
  <2>3. QED
    BY <1>2, <2>1, <2>2, JobKeepsU DEF Answered
<1>3. CASE Local
  <2>1. history' = history
    BY <1>3 DEF Local, serverVars
  <2>2. CASE Poll
    <3>1. JobNeeded'
      BY <2>2 DEF Poll, JobNeeded, At
    <3>2. QED
      BY <2>1, <2>2, <3>1, QuietKeepsU DEF Poll, disk, Unedited
  <2>3. CASE Fails
    BY <2>1, <2>3, StopKeepsU DEF Fails, GiveUp, disk, Unedited
  <2>4. CASE \E d \in Defs : Begin(d)
    BY <2>1, <2>4, JobKeepsU
  <2>5. CASE WriteFile \/ WriteFileUnsynced
    BY <2>1, <2>5, PublishKeepsU DEF WriteFile, WriteFileUnsynced
  <2>6. QED
    BY <1>3, <2>1, <2>2, <2>3, <2>4, <2>5, StartKeepsU, CheckKeepsU, SaveRevisionKeepsU,
       RunCommandKeepsU, SaveCompletionKeepsU DEF Local
<1>4. CASE Outside
  <2>1. Crash /\ history' = history
    BY <1>4 DEF Outside, serverVars, Environment, EditDefinition, EditTemplate, Drift, Edit, JInv, Types
  <2>2. QED
    BY <2>1, StopKeepsU DEF Crash, disk, Unedited
<1>5. CASE UNCHANGED vars
  <2>1. JobNeeded'
    BY <1>5 DEF vars, agentVars, serverVars, Unedited, JobNeeded, At
  <2>2. QED
    BY <1>5, <2>1, QuietKeepsU DEF vars, agentVars, serverVars, Unedited
<1>6. QED
  BY <1>1, <1>2, <1>3, <1>4, <1>5 DEF Next

LEMMA InitF == DeliveryInit => Unfailing /\ faults \in Nat
<1> SUFFICES ASSUME DeliveryInit
             PROVE  Unfailing /\ faults \in Nat
  OBVIOUS
<1>1. job = [stage |-> "down"] /\ owed = [d \in Defs |-> FALSE] /\ faults = 0
  BY DEF DeliveryInit, Init, Down
<1>2. QED
  BY <1>1 DEF Unfailing, At

LEMMA NextKeepsF ==
  ASSUME JInv, Unfailing, [Next]_vars, faults' = faults, faults \in Nat
  PROVE  Unfailing'
<1>1. ~Fault
  BY DEF Fault
<1>2. CASE ServerStep \/ Outside \/ UNCHANGED vars
  <2>1. UNCHANGED <<owed, job, defs>>
    BY <1>1, <1>2 DEF ServerStep, Outside, Environment, agentVars, vars, Crash, EditDefinition,
                      EditTemplate, Drift
  <2>2. QED
    BY <2>1 DEF Unfailing, At
<1>3. CASE Answered \/ Start \/ Poll \/ Check \/ \E d \in Defs : Begin(d)
  <2>1. UNCHANGED owed /\ ~At("save") /\ ~At("hook")
    BY <1>3 DEF Answered, MetaReply, ValueReply, Refused, GiveUp, Start, Poll, Check, Begin, At
  <2>2. job'.stage # "save"
    <3>1. CASE Answered \/ Start \/ Poll \/ \E d \in Defs : Begin(d)
      BY <2>1, <3>1 DEF Answered, MetaReply, ValueReply, Refused, GiveUp, Start, Poll, Begin, Idle, At
    <3>2. CASE Check
      <4>1. Short
        BY <3>2 DEF Check, JInv, Types
      <4>2. QED
        BY <3>2, <4>1 DEF Check, Short, Idle
    <3>3. QED
      BY <1>3, <3>1, <3>2
  <2>3. QED
    BY <2>1, <2>2 DEF Unfailing, At
<1>4. CASE WriteFile
  <2>1. /\ Long /\ job.d \in Defs /\ ~At("save") /\ ~At("hook") /\ defs' = defs /\ DOMAIN owed = Defs
        /\ owed' = [owed EXCEPT ![job.d] = defs[job.d].command]
        /\ job' = [job EXCEPT !.stage = "save"]
    BY <1>4 DEF WriteFile, Publish, JInv, Types, At
  <2>2. job'.d = job.d /\ job'.stage = "save"
    BY <2>1 DEF Long
  <2>3. QED
    BY <2>1, <2>2 DEF Unfailing, At
<1>5. CASE SaveRevision
  <2>1. /\ At("save") /\ Long /\ job.d \in Defs /\ UNCHANGED <<owed, defs>>
        /\ job' = IF defs[job.d].command THEN [job EXCEPT !.stage = "hook"] ELSE Idle
    BY <1>1, <1>5 DEF SaveRevision, SaveFails, SaveUnsynced, JInv, Types, At
  <2>2. CASE defs[job.d].command
    <3>1. job'.d = job.d /\ job'.stage = "hook"
      BY <2>1, <2>2 DEF Long
    <3>2. QED
      BY <2>1, <3>1 DEF Unfailing, At
  <2>3. CASE ~defs[job.d].command
    <3>1. job'.stage = "idle" /\ \A d \in Defs : ~owed[d]
      BY <2>1, <2>3 DEF Unfailing, Idle
    <3>2. QED
      BY <2>1, <3>1 DEF Unfailing, At
  <2>4. QED
    BY <2>2, <2>3
<1>6. CASE RunCommand
  <2>1. /\ At("hook") /\ job.d \in Defs /\ DOMAIN owed = Defs
        /\ owed' = [owed EXCEPT ![job.d] = FALSE] /\ job'.stage = "done"
    BY <1>6 DEF RunCommand, JInv, Types, At, Short, Long
  <2>2. QED
    BY <2>1 DEF Unfailing, At
<1>7. CASE SaveCompletion
  <2>1. At("done") /\ UNCHANGED owed /\ job'.stage = "idle"
    BY <1>7 DEF SaveCompletion, Idle
  <2>2. QED
    BY <2>1 DEF Unfailing, At
<1>8. QED
  BY <1>1, <1>2, <1>3, <1>4, <1>5, <1>6, <1>7 DEF Next, Local, Fails, WriteFileUnsynced

LEMMA InitHolds == DeliveryInit => IInv
BY InitJ, InitU, InitF DEF IInv

LEMMA NextKeeps == IInv /\ [Next]_vars => IInv'
<1> SUFFICES ASSUME IInv, [Next]_vars
             PROVE  IInv'
  OBVIOUS
<1>1. JInv'
  BY NextKeepsJ DEF IInv
<1>2. edits \in Nat /\ (edits' = edits \/ edits' = edits + 1)
  BY DEF IInv, JInv, Types, Next, ServerStep, agentVars, Answered, MetaReply, ValueReply, Refused,
         GiveUp, Local, Start, Poll, Begin, Check, Fails, WriteFile, WriteFileUnsynced, Publish,
         SaveRevision, RunCommand, SaveCompletion, Outside, Environment, Crash, EditDefinition,
         EditTemplate, Drift, Edit, vars
<1>3. edits' = 0 => edits = 0 /\ edits' = edits
  BY <1>2
<1>4. edits' = 0 => Unedited'
  BY <1>3, NextKeepsU DEF IInv
<1>5. faults \in Nat /\ (faults' = faults \/ faults' = faults + 1)
  BY DEF IInv, Next, ServerStep, agentVars, Answered, MetaReply, ValueReply, Refused, NoFault,
         Local, Start, Poll, Begin, Check, Fails, WriteFile, WriteFileUnsynced, SaveRevision, SaveOk,
         SaveFails, SaveUnsynced, RunCommand, SaveCompletion, Outside, Environment, Crash,
         EditDefinition, EditTemplate, Drift, Fault, vars
<1>6. faults' \in Nat /\ (faults' = 0 => faults = 0 /\ faults' = faults)
  BY <1>5
<1>7. faults' = 0 => Unfailing'
  BY <1>5, <1>6, NextKeepsF DEF IInv
<1>8. QED
  BY <1>1, <1>4, <1>6, <1>7 DEF IInv

\* A hook gets lost only after both a failure and an edit.  As long as nobody
\* edits a definition or a template or touches a destination, or as long as
\* nothing fails and nobody kills the agent, a definition that the agent will
\* leave alone has had a successful run of its hook since its file was last
\* published.  One of each is enough to lose one: the run hook_loss shows how.
THEOREM HookKept == Spec => [](edits = 0 \/ faults = 0 => HookNotLost)
<1>1. IInv /\ edits = 0 => HookNotLost
  <2> SUFFICES ASSUME JInv, Unedited, NEW d \in Defs, Settled(d), owed[d]
               PROVE  FALSE
    BY DEF IInv, HookNotLost
  <2>1. Describes(d, journal[d]) /\ Len(history[d]) \in Nat
    BY Numbers DEF Unedited, Entries
  <2>2. journal[d].pending \/ journal[d].revision < Len(history[d])
    BY <2>1 DEF Describes
  <2>3. ~journal[d].pending /\ journal[d].revision = Len(history[d])
    BY DEF Settled, Server!Revision
  <2>4. QED
    BY <2>1, <2>2, <2>3
<1>2. IInv /\ faults = 0 => HookNotLost
  BY DEF IInv, Unfailing, HookNotLost, Settled, At
<1>3. IInv => (edits = 0 \/ faults = 0 => HookNotLost)
  BY <1>1, <1>2
<1>4. QED
  BY <1>3, InitHolds, NextKeeps, PTL DEF Spec

(***************************************************************************)
(* The deployed files.                                                     *)
(***************************************************************************)

\* The journal on disk advances only in SaveRevision, for the definition under
\* way.  A save for another definition writes the memory, which is not ahead of
\* the disk.
LEMMA AdvanceIsPublished ==
  ASSUME IInv, Local, NEW d \in Defs, journal'[d].revision > journal[d].revision
  PROVE  \/ Hash(file[d].content) = journal'[d].output
         \/ edits > 0 /\ file[d].content \in {NoFile.content, Foreign}
<1> USE DEF IInv
<1>1. /\ journal[d].revision \in Nat /\ state[d].revision \in Nat
      /\ state[d].revision <= journal[d].revision
  BY Numbers DEF JInv, DiskAhead
<1>2. journal'[d] # journal[d] /\ journal'[d] # state[d]
  BY <1>1
<1>3. DOMAIN state = Defs
  BY DEF JInv, Types
<1>4. CASE SaveRevision
  <2>1. At("save") /\ job.d \in Defs
    BY <1>4 DEF SaveRevision, JInv, Types, At
  <2>2. journal' = [state EXCEPT ![job.d] = Entry] \/ journal' = journal
    BY <1>4 DEF SaveRevision, SaveOk, SaveFails, SaveUnsynced
  <2>3. d = job.d /\ journal'[d] = Entry
    BY <1>2, <1>3, <2>1, <2>2
  <2>4. journal'[d].output = Hash(job.data)
    BY <2>3 DEF Entry
  <2>5. file[d].content \in {job.data, NoFile.content, Foreign}
    BY <2>1, <2>3 DEF JInv, JobAhead
  <2>6. edits = 0 => file[d].content = job.data
    BY <2>1, <2>3 DEF Unedited, JobNeeded
  <2>7. edits = 0 \/ edits > 0
    BY DEF JInv, Types
  <2>8. QED
    BY <2>4, <2>5, <2>6, <2>7
<1>5. CASE SaveCompletion
  <2>1. job.d \in Defs
    BY <1>5 DEF SaveCompletion, JInv, Types, At
  <2>2. PICK e : /\ e = [state[job.d] EXCEPT !.pending = FALSE]
                 /\ journal' = [state EXCEPT ![job.d] = e] \/ journal' = journal
    BY <1>5 DEF SaveCompletion, SaveOk, SaveFails, SaveUnsynced
  <2>3. e.revision = state[job.d].revision
    BY <2>1, <2>2, CompletedNames
  <2>4. d = job.d /\ journal'[d] = e
    BY <1>2, <1>3, <2>1, <2>2
  <2>5. journal'[d].revision = state[d].revision
    BY <2>3, <2>4
  <2>6. QED
    BY <1>1, <2>5
<1>6. CASE ~(SaveRevision \/ SaveCompletion)
  <2>1. journal' = journal
    BY <1>6 DEF Local, Start, Poll, Begin, Check, Fails, GiveUp, WriteFile, WriteFileUnsynced, Publish,
                RunCommand, disk
  <2>2. QED
    BY <1>2, <2>1
<1>7. QED
  BY <1>4, <1>5, <1>6

\* The journal advances only to what the file holds, unless somebody changed or
\* removed the file after it was published: however many writes, saves and hooks
\* fail, and whenever the agent is killed.
THEOREM DeploymentKept == Spec => FailureKeepsDeployment
<1> DEFINE Kept == \A d \in Defs : Local /\ journal'[d].revision > journal[d].revision =>
             \/ Hash(file[d].content) = journal'[d].output
             \/ edits > 0 /\ file[d].content \in {NoFile.content, Foreign}
<1>1. IInv /\ [Next]_vars => [Kept]_vars
  BY AdvanceIsPublished
<1>2. QED
  BY <1>1, InitHolds, NextKeeps, PTL DEF Spec, FailureKeepsDeployment

(***************************************************************************)
(* What every hook that counts as done has run for, whatever drifts, is    *)
(* edited back or fails.                                                   *)
(***************************************************************************)

\* An entry that needs no hook any more although its definition has one.
Done(entry) == entry # NotApplied /\ entry.fingerprint.definition.command /\ ~entry.pending

\* Such an entry is about what the hook last ran for.  Where disk and memory are
\* about different versions, the one on disk is new, and says what is due.
HookInv ==
  /\ DOMAIN hooked = Defs
  /\ \A d \in Defs :
       /\ Done(state[d]) => hooked[d] = Version(state[d])
       /\ Done(journal[d]) => hooked[d] = Version(journal[d]) /\ Version(state[d]) = Version(journal[d])
  /\ At("done") => hooked[job.d] = Version(state[job.d])

LEMMA InitH == DeliveryInit => HookInv
<1> SUFFICES ASSUME DeliveryInit
             PROVE  HookInv
  OBVIOUS
<1>1. /\ job = [stage |-> "down"] /\ state = [d \in Defs |-> NotApplied] /\ journal = state
      /\ hooked = [d \in Defs |-> Version(NotApplied)]
  BY DEF DeliveryInit, Init, Down
<1>2. \A d \in Defs : state[d] = NotApplied /\ journal[d] = NotApplied
  BY <1>1
<1>3. QED
  BY <1>1, <1>2 DEF HookInv, Done, At

\* A step that leaves the entries and the record of hooks alone.
LEMMA QuietKeepsH ==
  ASSUME HookInv, UNCHANGED <<state, journal, hooked>>, job' = job \/ job'.stage # "done"
  PROVE  HookInv'
BY DEF HookInv, At

\* A save of an entry that is about the version in memory, or says what is due.
LEMMA SavedKeepsH ==
  ASSUME JInv, HookInv, job.d \in Defs, NEW e,
         Done(e) => hooked[job.d] = Version(e) /\ Version(state[job.d]) = Version(e),
         \/ journal' = [state EXCEPT ![job.d] = e] /\ (state' = journal' \/ state' = state)
         \/ UNCHANGED <<journal, state>>,
         hooked' = hooked, job'.stage # "done"
  PROVE  HookInv'
<1>1. DOMAIN state = Defs
  BY DEF JInv, Types
<1>2. CASE UNCHANGED <<journal, state>>
  BY <1>2, QuietKeepsH
<1>3. CASE journal' = [state EXCEPT ![job.d] = e] /\ (state' = journal' \/ state' = state)
  <2>1. \A d \in Defs : d # job.d => journal'[d] = state[d] /\ state'[d] = state[d]
    BY <1>1, <1>3
  <2>2. journal'[job.d] = e /\ (state'[job.d] = e \/ state'[job.d] = state[job.d])
    BY <1>1, <1>3
  <2>3. ASSUME NEW d \in Defs
        PROVE  /\ Done(state'[d]) => hooked'[d] = Version(state'[d])
               /\ Done(journal'[d]) => /\ hooked'[d] = Version(journal'[d])
                                       /\ Version(state'[d]) = Version(journal'[d])
    <3>1. CASE d # job.d
      BY <2>1, <3>1 DEF HookInv
    <3>2. CASE d = job.d
      BY <2>2, <3>2 DEF HookInv
    <3>3. QED
      BY <3>1, <3>2
  <2>4. QED
    BY <2>3 DEF HookInv, At, Done, Version
<1>4. QED
  BY <1>2, <1>3

LEMMA NextKeepsH ==
  ASSUME JInv, HookInv, [Next]_vars
  PROVE  HookInv'
<1>1. CASE ServerStep \/ Answered \/ Outside \/ UNCHANGED vars
  <2>1. UNCHANGED <<state, journal, hooked>>
    BY <1>1 DEF ServerStep, Answered, Outside, Environment, agentVars, vars, disk, MetaReply, ValueReply,
                Refused, GiveUp, Crash, EditDefinition, EditTemplate, Drift
  <2>2. job' = job \/ job'.stage # "done"
    BY <1>1 DEF ServerStep, Answered, Outside, Environment, agentVars, vars, MetaReply, ValueReply,
                Refused, GiveUp, Crash, EditDefinition, EditTemplate, Drift, Down, Idle
  <2>3. QED
    BY <2>1, <2>2, QuietKeepsH
<1>2. CASE Start
  <2>1. state' = journal /\ UNCHANGED <<journal, hooked>> /\ job'.stage # "done"
    BY <1>2 DEF Start, disk, Idle
  <2>2. QED
    BY <2>1 DEF HookInv, At
<1>3. CASE Poll \/ Fails \/ (\E d \in Defs : Begin(d)) \/ Check \/ WriteFile \/ WriteFileUnsynced
  <2>1. UNCHANGED <<state, journal, hooked>>
    BY <1>3 DEF Poll, Fails, GiveUp, Begin, Check, WriteFile, WriteFileUnsynced, Publish, disk
  <2>2. job' = job \/ job'.stage # "done"
    <3>1. CASE Poll \/ Fails \/ WriteFileUnsynced \/ (\E d \in Defs : Begin(d))
      BY <3>1 DEF Poll, Fails, GiveUp, Begin, WriteFileUnsynced, Publish, Idle
    <3>2. CASE Check
      <4>1. Short
        BY <3>2 DEF Check, JInv, Types
      <4>2. QED
        BY <3>2, <4>1 DEF Check, Short, Idle
    <3>3. CASE WriteFile
      <4>1. Long
        BY <3>3 DEF WriteFile, Publish, JInv, Types
      <4>2. QED
        BY <3>3, <4>1 DEF WriteFile, Publish, Long
    <3>4. QED
      BY <1>3, <3>1, <3>2, <3>3
  <2>3. QED
    BY <2>1, <2>2, QuietKeepsH
<1>4. CASE SaveRevision
  <2>1. job.d \in Defs /\ Long /\ hooked' = hooked
    BY <1>4 DEF SaveRevision, JInv, Types, At
  <2>2. \/ journal' = [state EXCEPT ![job.d] = Entry] /\ (state' = journal' \/ state' = state)
        \/ UNCHANGED <<journal, state>>
    BY <1>4 DEF SaveRevision, SaveOk, SaveFails, SaveUnsynced
  <2>3. ~Done(Entry)
    BY DEF Done, Entry, Fingerprint
  <2>4. job'.stage # "done"
    BY <1>4, <2>1 DEF SaveRevision, Long, Idle
  <2>5. QED
    BY <2>1, <2>2, <2>3, <2>4, SavedKeepsH
<1>5. CASE RunCommand
  <2>1. /\ At("hook") /\ job.d \in Defs /\ UNCHANGED <<state, journal>>
        /\ hooked' = [hooked EXCEPT ![job.d] = Version(state[job.d])]
        /\ job'.d = job.d
    BY <1>5 DEF RunCommand, JInv, Types, At, disk, Short, Long
  <2>2. /\ DOMAIN hooked' = Defs /\ hooked'[job.d] = Version(state[job.d])
        /\ \A d \in Defs : d # job.d => hooked'[d] = hooked[d]
    BY <2>1 DEF HookInv
  <2>3. ASSUME NEW d \in Defs
        PROVE  /\ Done(state[d]) => hooked'[d] = Version(state[d])
               /\ Done(journal[d]) => hooked'[d] = Version(journal[d]) /\ Version(state[d]) = Version(journal[d])
    <3>1. CASE d # job.d
      BY <2>2, <3>1 DEF HookInv
    <3>2. CASE d = job.d
      BY <2>2, <3>2 DEF HookInv
    <3>3. QED
      BY <3>1, <3>2
  <2>4. QED
    BY <2>1, <2>2, <2>3 DEF HookInv, Done, Version, At
<1>6. CASE SaveCompletion
  <2>1. At("done") /\ job.d \in Defs /\ hooked' = hooked /\ job'.stage # "done"
    BY <1>6 DEF SaveCompletion, JInv, Types, At, Idle
  <2>2. PICK e :
          /\ e = [state[job.d] EXCEPT !.pending = FALSE]
          /\ \/ journal' = [state EXCEPT ![job.d] = e] /\ (state' = journal' \/ state' = state)
             \/ UNCHANGED <<journal, state>>
    BY <1>6 DEF SaveCompletion, SaveOk, SaveFails, SaveUnsynced
  <2>3. Version(e) = Version(state[job.d]) /\ hooked[job.d] = Version(state[job.d])
    BY <2>1, <2>2, CompletedNames DEF Version, HookInv
  <2>4. QED
    BY <2>1, <2>2, <2>3, SavedKeepsH
<1>7. QED
  BY <1>1, <1>2, <1>3, <1>4, <1>5, <1>6 DEF Next, Local

\* A hook that the journal counts as done, on disk or in memory, has run to its
\* end for that revision, definition and template, and none has run since for
\* another: whatever files drift, edits are taken back, saves fail in either
\* way or processes are killed.
THEOREM HookRan == Spec => []HookRanForEntry
<1>1. JInv /\ HookInv /\ [Next]_vars => JInv' /\ HookInv'
  BY NextKeepsJ, NextKeepsH
<1>2. HookInv => HookRanForEntry
  BY DEF HookInv, HookRanForEntry, Done
<1>3. QED
  BY <1>1, <1>2, InitJ, InitH, PTL DEF Spec
==================================================
