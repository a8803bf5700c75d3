---------------------------- MODULE AgentAccess ----------------------------
(***************************************************************************)
(* What a bearer token opens: authentication of Identity joined with the   *)
(* path rules of the row it leads to, as the read and the write route join *)
(* them.  Rules are sets of rule strings, and edits take effect with the   *)
(* next request, because every request reads the row again.                *)
(***************************************************************************)
EXTENDS Identity, PathRules

CONSTANT Probes   \* strings that requests name

\* The handlers store no rules that ValidateRules refuses.
ASSUME StringsAssumption ==
  /\ Probes \subseteq Seq(STRING)
  /\ \A rule \in Rules : rule \in Seq(STRING) /\ ValidRule(rule)

\* GET secrets/<p> and metadata/<p> get past authentication and authorization.
Readable(t, p) ==
  /\ AuthenticatesAgent(t)
  /\ Normal(p)
  /\ Allowed(p, agents[credentials[Hash(t)]].paths)

\* POST write/<p> gets past them.
Writable(t, p) ==
  /\ AuthenticatesWriter(t)
  /\ Normal(p)
  /\ Allowed(p, writers[writerTokens[Hash(t)]].paths)

\* A token opens exactly the paths that the rules of one identity grant now,
\* component by component: that of an agent which is enrolled with this token
\* and not revoked for reading, that of a write credential for writing.  An
\* identity that was edited, revoked, purged or replaced opens nothing by its
\* former rules (setup.md: "servers/web01/* does not grant
\* servers/web010/password or the parent servers/web01").
AccessFollowsRules ==
  \A t \in Drawn, p \in Probes :
    /\ Readable(t, p) <=>
         /\ Normal(p)
         /\ \E id \in DOMAIN agents :
              /\ agents[id].hash = Hash(t) /\ ~agents[id].revoked
              /\ \E rule \in agents[id].paths : Grants(rule, p)
    /\ Writable(t, p) <=>
         /\ Normal(p)
         /\ \E id \in DOMAIN writers :
              /\ writers[id].hash = Hash(t) /\ ~writers[id].revoked
              /\ \E rule \in writers[id].paths : Grants(rule, p)
=============================================================================
