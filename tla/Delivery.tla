------------------------------ MODULE Delivery ------------------------------
(***************************************************************************)
(* An agent that keeps files in step with a server.  The server is what    *)
(* SecretStore is proved to implement, VersionedValues: one path for each  *)
(* definition, changed by administrators and writers at any moment, also   *)
(* between the two requests of one synchronization.  Operators edit        *)
(* definitions and templates, files drift, requests, writes and hooks      *)
(* fail, and the agent is killed and restarted at every step.              *)
(***************************************************************************)
EXTENDS Agent

CONSTANTS Values, MaxRevision

VARIABLES history, live

Server == INSTANCE VersionedValues WITH Paths <- Defs

serverVars == <<history, live>>
vars == <<agentVars, serverVars>>

DeliveryInit == Init /\ Server!Init

ServerStep == Server!Next /\ UNCHANGED agentVars

\* The answers of the metadata and value routes.
Answered ==
  /\ \E d \in Defs : /\ ~At("down") /\ ~At("idle") /\ job.d = d
                     /\ IF live[d]
                        THEN \/ MetaReply(Server!Revision(d))
                             \/ ValueReply(Server!Revision(d), Server!Current(d))
                        ELSE Refused
  /\ UNCHANGED serverVars

\* What the agent does by itself.
Local ==
  /\ \/ Start
     \/ Poll
     \/ \E d \in Defs : Begin(d)
     \/ Check
     \/ Fails
     \/ WriteFile
     \/ WriteFileUnsynced
     \/ SaveRevision
     \/ RunCommand
     \/ SaveCompletion
  /\ UNCHANGED serverVars

Outside == Environment /\ UNCHANGED serverVars

Next == ServerStep \/ Answered \/ Local \/ Outside

\* Run polls for ever, the unit restarts an agent that failed, and requests
\* are answered or time out.  Nobody has to write, edit or break anything.
Fairness == WF_vars(Answered \/ Local)

Spec == DeliveryInit /\ [][Next]_vars /\ Fairness

(***************************************************************************)
(* Properties.                                                             *)
(***************************************************************************)

Outputs == {Render(t, v) : t \in Templates, v \in Values}
Modes == {x.mode : x \in Definitions}
Applied ==
  {NotApplied} \cup
  [revision : 1..MaxRevision, fingerprint : [definition : Definitions, source : Templates],
   output : {Hash(c) : c \in Outputs}, pending : BOOLEAN]

TypeOK ==
  /\ Server!TypeOK
  /\ def \in [Defs -> Definitions \cup {Invalid}] /\ defs \in [Defs -> Definitions]
  /\ template \in [Defs -> Templates]
  /\ file \in [Defs -> {NoFile} \cup [content : Outputs \cup {Foreign}, mode : Modes]]
  /\ journal \in [Defs -> Applied] /\ state \in [Defs -> Applied]
  /\ todo \subseteq Defs
  /\ job.stage \in {"down", "idle", "meta", "check", "value", "write", "save", "hook", "done"}
  /\ owed \in [Defs -> BOOLEAN]
  /\ hooked \in [Defs -> {Version(entry) : entry \in Applied}]
  /\ faults \in 0..MaxFaults /\ edits \in 0..MaxEdits

\* An entry, in memory or on disk, names a version of the secret and the
\* output that this very version renders to, although the metadata and the
\* value come from two requests and the server may change between them.  An
\* entry with the right revision and a stale output would never be repaired.
JournalNamesWhatItHolds ==
  \A d \in Defs : \A entry \in {journal[d], state[d]} : entry # NotApplied =>
    /\ entry.revision \in 1..Server!Revision(d)
    /\ entry.output = Hash(Render(entry.fingerprint.source, history[d][entry.revision]))

\* No synchronization is under way and the next one leaves the definition
\* alone: the journal on disk, the server's revision, the definition, the
\* template and the file agree, and no hook is pending.
Settled(d) ==
  /\ At("down") \/ At("idle")
  /\ live[d] /\ journal[d].revision = Server!Revision(d)
  /\ journal[d].fingerprint = [definition |-> def[d], source |-> template[d]]
  /\ def[d] # Invalid
  /\ file[d] # NoFile
  /\ Hash(file[d].content) = journal[d].output
  /\ file[d].mode = def[d].mode
  /\ ~journal[d].pending

\* A definition that the agent will leave alone has had a successful run of
\* its hook since its file was last published (agent.go: "A crash before this
\* save causes a safe repeat; a crash during a hook gives at-least-once hook
\* execution").
HookNotLost == \A d \in Defs : Settled(d) => ~owed[d]

\* What is left of that promise when files drift and edits are taken back: an
\* entry of the journal, on disk or in memory, whose definition has a hook and
\* which lists none as pending, belongs to the very revision, definition and
\* template for which the hook last ran to its end successfully (setup.md: "Hook
\* execution is at least once").
HookRanForEntry ==
  \A d \in Defs : \A entry \in {journal[d], state[d]} :
    entry # NotApplied /\ entry.fingerprint.definition.command /\ ~entry.pending =>
      hooked[d] = Version(entry)

\* The journal advances to a later revision of a definition only while its file
\* holds that revision's output, whatever write, save or hook has failed before;
\* somebody may have changed or removed the file again in between, and nobody
\* else (Sync: "A failure never removes the last deployed file or advances its
\* successful revision").
FailureKeepsDeployment ==
  [][\A d \in Defs : Local /\ journal'[d].revision > journal[d].revision =>
       \/ Hash(file[d].content) = journal'[d].output
       \/ edits > 0 /\ file[d].content \in {NoFile.content, Foreign}]_vars

InStep(d) ==
  /\ live[d] /\ def[d] # Invalid
  /\ file[d] = [content |-> Render(template[d], Server!Current(d)), mode |-> def[d].mode]

\* If from some moment on the secret exists and no definition is invalid, the
\* destination becomes and stays the current template applied to the current
\* value, whatever failed, drifted or was edited before.
EventuallyInStep ==
  \A d \in Defs : <>[](live[d] /\ AllValid) => <>[]InStep(d)

\* Under the same condition the hook debt is eventually paid.
EventuallyHooked ==
  \A d \in Defs : <>[](live[d] /\ AllValid) => <>[](~owed[d])
=============================================================================
