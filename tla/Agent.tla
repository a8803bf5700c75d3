------------------------------- MODULE Agent -------------------------------
(***************************************************************************)
(* One agent process: Run, Sync, syncOne, runCommand and save of package   *)
(* agent, over the files it owns.  The module has no server: the two       *)
(* requests of a synchronization are steps that take the answer as a       *)
(* parameter, and Delivery supplies it.  Enrollment has happened.          *)
(*                                                                         *)
(* A step is what lies between two points where the process may be killed  *)
(* or another actor may change a file or the server.  Every write of a     *)
(* file goes through AtomicWrite, which either leaves the old file, or     *)
(* publishes the new one, or publishes it and then still returns an error  *)
(* because the directory could not be synced.                              *)
(***************************************************************************)
EXTENDS Integers, Sequences

CONSTANTS
  Defs,         \* names of the definition files
  Definitions,  \* their possible contents: [mode, command]
  Invalid,      \* content that definitions() rejects
  Templates,    \* template sources
  Foreign,      \* file content the agent never writes
  MaxFaults,    \* bound on failures and crashes, for model checking
  MaxEdits      \* bound on operator edits and drift, for model checking

VARIABLES
  def,       \* definition files, as the operator left them
  template,  \* template sources
  file,      \* destinations: content and mode, or NoFile
  journal,   \* revisions.json on disk
  state,     \* Agent.state, in memory
  defs,      \* the definitions this poll works from
  todo,      \* definitions this poll has not reached yet
  job,       \* where syncOne is
  owed,      \* ghost: published since the last successful hook
  hooked,    \* ghost: what the last successful hook was run for
  faults,    \* failures and crashes so far
  edits      \* edits and drift so far

disk == <<def, template, file, journal>>
agentVars == <<def, template, file, journal, state, defs, todo, job, owed, hooked, faults, edits>>

\* SHA-256 of a rendered file, collision free.
Hash(content) == <<"sha256", content>>

\* The destination's content for a value.  A template may print the revision
\* as well; leaving it out only makes equal outputs more frequent.
Render(source, value) == <<source, value>>

NoFile == [content |-> <<>>, mode |-> 0]

\* The hash of definition and template together.
Fingerprint(d) == [definition |-> defs[d], source |-> job.source]

\* The zero Applied of a name that the journal does not list.
NotApplied == [revision |-> 0, fingerprint |-> <<>>, output |-> <<>>, pending |-> FALSE]

\* What an entry is about.
Version(entry) == [revision |-> entry.revision, fingerprint |-> entry.fingerprint]

Down == [stage |-> "down"]
Idle == [stage |-> "idle"]

At(stage) == job.stage = stage

Fault == faults < MaxFaults /\ faults' = faults + 1
NoFault == UNCHANGED faults

Init ==
  /\ def \in [Defs -> Definitions]
  /\ template \in [Defs -> Templates]
  /\ file = [d \in Defs |-> NoFile]
  /\ journal = [d \in Defs |-> NotApplied]
  /\ state = journal
  /\ defs = def
  /\ todo = {}
  /\ job = Down
  /\ owed = [d \in Defs |-> FALSE]
  /\ hooked = [d \in Defs |-> Version(NotApplied)]
  /\ faults = 0
  /\ edits = 0

(***************************************************************************)
(* The process and its polls.                                              *)
(***************************************************************************)

\* agent.New: the journal is read once.
Start ==
  /\ At("down")
  /\ job' = Idle
  /\ state' = journal
  /\ UNCHANGED <<disk, defs, todo, owed, hooked, faults, edits>>

\* Killed, or stopped by a signal: the memory is lost.
Crash ==
  /\ ~At("down")
  /\ Fault
  /\ job' = Down
  /\ todo' = {}
  /\ UNCHANGED <<disk, state, defs, owed, hooked, edits>>

AllValid == \A d \in Defs : def[d] # Invalid

\* The timer of Run fires and Sync reads every definition; one that is invalid
\* ends the poll for all of them.
Poll ==
  /\ At("idle") /\ todo = {}
  /\ defs' = IF AllValid THEN def ELSE defs
  /\ todo' = IF AllValid THEN Defs ELSE {}
  /\ UNCHANGED <<disk, state, job, owed, hooked, faults, edits>>

\* syncOne takes the next definition, in any order, and reads its template.
Begin(d) ==
  /\ At("idle") /\ d \in todo
  /\ todo' = todo \ {d}
  /\ job' = [stage |-> "meta", d |-> d, source |-> template[d]]
  /\ UNCHANGED <<disk, state, defs, owed, hooked, faults, edits>>

(***************************************************************************)
(* One definition.                                                         *)
(***************************************************************************)

\* The metadata answer.
MetaReply(revision) ==
  /\ At("meta") /\ revision >= 1
  /\ job' = [stage |-> "check", d |-> job.d, source |-> job.source, meta |-> revision]
  /\ UNCHANGED <<disk, state, defs, todo, owed, hooked, edits>> /\ NoFault

\* The definition is given up until the next poll.
GiveUp ==
  /\ job' = Idle
  /\ UNCHANGED <<disk, state, defs, todo, owed, hooked, edits>>

\* 404: the secret does not exist or is deleted.
Refused == (At("meta") \/ At("value")) /\ GiveUp /\ NoFault

\* The template or the owner cannot be found, the server is locked, denies the
\* path or cannot be reached in time, the template does not render, the write
\* fails before the rename, the hook fails or runs out of time.
Fails ==
  /\ job.stage \in {"meta", "check", "value", "write", "hook"}
  /\ Fault
  /\ GiveUp

\* Mutant: a file that exists counts as deployed.
DeployedIfPresent(d) == file[d] # NoFile

\* The destination is what the journal says was written, with its mode.
Deployed(d) ==
  /\ file[d] # NoFile
  /\ Hash(file[d].content) = state[d].output
  /\ file[d].mode = defs[d].mode

UpToDate(d) ==
  /\ state[d].revision = job.meta
  /\ state[d].fingerprint = Fingerprint(d)
  /\ Deployed(d)

\* The decision syncOne takes on the metadata, the journal and the file.
Check ==
  /\ At("check")
  /\ LET d == job.d
     IN  job' = IF ~UpToDate(d) THEN [job EXCEPT !.stage = "value"]
                ELSE IF state[d].pending THEN [job EXCEPT !.stage = "hook"]
                ELSE Idle
  /\ UNCHANGED <<disk, state, defs, todo, owed, hooked, faults, edits>>

\* The value answer; its revision may be newer than the metadata's.
ValueReply(revision, value) ==
  /\ At("value") /\ revision >= 1
  /\ job' = [stage |-> "write", d |-> job.d, source |-> job.source, meta |-> job.meta,
             revision |-> revision, data |-> Render(job.source, value)]
  /\ UNCHANGED <<disk, state, defs, todo, owed, hooked, edits>> /\ NoFault

\* AtomicWrite of the destination reaches the rename.
Publish(next) ==
  /\ At("write")
  /\ file' = [file EXCEPT ![job.d] = [content |-> job.data, mode |-> defs[job.d].mode]]
  /\ owed' = [owed EXCEPT ![job.d] = defs[job.d].command]
  /\ job' = next
  /\ UNCHANGED <<def, template, journal, state, defs, todo, hooked, edits>>

\* Mutant: an error of AtomicWrite is ignored, also when nothing was published.
WriteFileUnchecked ==
  \/ Publish([job EXCEPT !.stage = "save"]) /\ NoFault
  \/ At("write") /\ Fault /\ job' = [job EXCEPT !.stage = "save"]
     /\ UNCHANGED <<disk, state, defs, todo, owed, hooked, edits>>

WriteFile == Publish([job EXCEPT !.stage = "save"]) /\ NoFault

\* The file is in place and AtomicWrite returns an error all the same.
WriteFileUnsynced == Publish(Idle) /\ Fault

\* Mutant: the journal records the revision of the metadata answer.
EntryOfMeta ==
  [revision |-> job.meta, fingerprint |-> Fingerprint(job.d), output |-> Hash(job.data),
   pending |-> defs[job.d].command]

\* Mutant: the journal does not remember that a hook is due.
EntryNotPending ==
  [revision |-> job.revision, fingerprint |-> Fingerprint(job.d), output |-> Hash(job.data),
   pending |-> FALSE]

\* The journal entry of what was just published.
Entry ==
  [revision |-> job.revision, fingerprint |-> Fingerprint(job.d), output |-> Hash(job.data),
   pending |-> defs[job.d].command]

\* save(): the whole map is written.  Memory follows only if that succeeds.
SaveOk(entry) ==
  /\ state' = [state EXCEPT ![job.d] = entry]
  /\ journal' = state'
  /\ NoFault

SaveFails ==
  /\ Fault
  /\ UNCHANGED <<state, journal>>

SaveUnsynced(entry) ==
  /\ Fault
  /\ journal' = [state EXCEPT ![job.d] = entry]
  /\ UNCHANGED state

SaveRevision ==
  /\ At("save")
  /\ \/ SaveOk(Entry) /\ job' = IF defs[job.d].command THEN [job EXCEPT !.stage = "hook"] ELSE Idle
     \/ (SaveFails \/ SaveUnsynced(Entry)) /\ job' = Idle
  /\ UNCHANGED <<def, template, file, defs, todo, owed, hooked, edits>>

\* The hook runs to its end and succeeds; nothing is recorded yet.
RunCommand ==
  /\ At("hook")
  /\ owed' = [owed EXCEPT ![job.d] = FALSE]
  /\ hooked' = [hooked EXCEPT ![job.d] = Version(state[job.d])]
  /\ job' = [job EXCEPT !.stage = "done"]
  /\ UNCHANGED <<disk, state, defs, todo, faults, edits>>

\* runCommand records that the hook is done, or takes that back.
SaveCompletion ==
  /\ At("done")
  /\ LET entry == [state[job.d] EXCEPT !.pending = FALSE]
     IN  SaveOk(entry) \/ SaveFails \/ SaveUnsynced(entry)
  /\ job' = Idle
  /\ UNCHANGED <<def, template, file, defs, todo, owed, hooked, edits>>

(***************************************************************************)
(* The operator and the machine.                                           *)
(***************************************************************************)

Edit == edits < MaxEdits /\ edits' = edits + 1

EditDefinition(d, content) ==
  /\ Edit
  /\ def' = [def EXCEPT ![d] = content]
  /\ UNCHANGED <<template, file, journal, state, defs, todo, job, owed, hooked, faults>>

EditTemplate(d, source) ==
  /\ Edit
  /\ template' = [template EXCEPT ![d] = source]
  /\ UNCHANGED <<def, file, journal, state, defs, todo, job, owed, hooked, faults>>

\* Somebody removes the destination or overwrites it.
Drift(d) ==
  /\ Edit
  /\ \/ file' = [file EXCEPT ![d] = NoFile]
     \/ file[d] # NoFile /\ file' = [file EXCEPT ![d].content = Foreign]
  /\ UNCHANGED <<def, template, journal, state, defs, todo, job, owed, hooked, faults>>

Environment ==
  \/ Crash
  \/ \E d \in Defs, content \in Definitions \cup {Invalid} : EditDefinition(d, content)
  \/ \E d \in Defs, source \in Templates : EditTemplate(d, source)
  \/ \E d \in Defs : Drift(d)
=============================================================================
