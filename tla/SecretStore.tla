---------------------------- MODULE SecretStore ----------------------------
(***************************************************************************)
(* Versioned, encrypted secrets behind a vault: Server.secret,             *)
(* Server.writeSecret, offline Setup and the unlock, lock and master       *)
(* routes, over the envelope encryption of package security.               *)
(*                                                                         *)
(* One request is one store transaction.  SQLStore.Update takes the mutex  *)
(* row and one connection before it runs the handler, so handlers do not   *)
(* interleave and a handler that returns an error changes no record: each  *)
(* action is a handler that commits, and the error paths are the negations *)
(* of its guards.  The vault is process memory.  A restart empties it.     *)
(*                                                                         *)
(* Encryption is ideal: a blob opens under the key and the associated data *)
(* that sealed it and under nothing else, and fresh keys never repeat.     *)
(***************************************************************************)
EXTENDS Integers, Sequences, Records

CONSTANTS
  Paths,          \* normalized secret paths
  Values,         \* plaintext values
  Masters,        \* master passphrases a caller may send
  StrongMasters,  \* those of at least 16 characters
  Keys,           \* 32-byte data encryption keys
  NoKey,          \* the empty key of a locked vault
  MaxRevision     \* bound on writes per path, for model checking

ASSUME KeysAssumption == NoKey \notin Keys
ASSUME MastersAssumption == StrongMasters \subseteq Masters
ASSUME RevisionAssumption == MaxRevision \in Nat

VARIABLES
  config,   \* table "config": row "envelope" once the server is set up
  vault,    \* Vault.key
  secrets,  \* table "secrets"
  history,  \* ghost: every value a path was given, in order
  seen,     \* ghost: what GET answered so far
  last      \* ghost: path -> revision of the last answer of GET, 0 before the first

vars == <<config, vault, secrets, history, seen, last>>
ghosts == <<history, seen, last>>

(***************************************************************************)
(* Envelope encryption.                                                    *)
(***************************************************************************)

Seal(key, plain, aad) == [key |-> key, plain |-> plain, aad |-> aad]

\* Open succeeds; its result is then blob.plain.
Opens(key, blob, aad) == blob.key = key /\ blob.aad = aad

DekLabel == "ssm:dek:v1"

\* Wrap rejects a short master (its callers carry that guard).
Wrap(master, dek) == Seal(master, dek, DekLabel)

Envelope == config["envelope"]

Initialized == Has(config, "envelope")

\* A wrong master does not unwrap the data key.
Unwraps(master) == Initialized /\ Opens(master, Envelope, DekLabel)

DataKey == Envelope.plain

Locked == vault = NoKey

Nil == <<>>

\* A Secret record; timestamps, path and algorithm name carry no decision.
Secret == [revision : Nat,
           ciphertext : [key : Keys, plain : Values, aad : Paths] \cup {Nil},
           deleted : BOOLEAN]

\* The zero Secret that Get leaves behind when there is no row.
ZeroSecret == [revision |-> 0, ciphertext |-> Nil, deleted |-> FALSE]

Stored(p) == IF Has(secrets, p) THEN secrets[p] ELSE ZeroSecret

Exists(p) == Has(secrets, p) /\ ~secrets[p].deleted

\* Vault.Decrypt of the current row succeeds.
Decrypts(p) == ~Locked /\ Opens(vault, secrets[p].ciphertext, p)

(***************************************************************************)
(* Key management.                                                         *)
(***************************************************************************)

Init ==
  /\ config = NoRows
  /\ vault = NoKey
  /\ secrets = NoRows
  /\ history = [p \in Paths |-> <<>>]
  /\ seen = {}
  /\ last = [p \in Paths |-> 0]

\* Mutant: setup overwrites an existing installation.
SetupUnguarded(m, k) ==
  /\ m \in StrongMasters
  /\ config' = Put(config, "envelope", Wrap(m, k))
  /\ UNCHANGED <<vault, secrets, ghosts>>

\* The offline setup command: refuses an initialized database and leaves the
\* vault alone.  The random data key exists before the transaction starts.
Setup(m, k) ==
  /\ m \in StrongMasters
  /\ ~Initialized
  /\ config' = Put(config, "envelope", Wrap(m, k))
  /\ UNCHANGED <<vault, secrets, ghosts>>

Unlock(m) ==
  /\ Unwraps(m)
  /\ vault' = DataKey
  /\ UNCHANGED <<config, secrets, ghosts>>

Lock ==
  /\ vault' = NoKey
  /\ UNCHANGED <<config, secrets, ghosts>>

\* Process exit, clean or not, and start: Vault.Lock is deferred in run, and a
\* new process starts with the zero Vault.
Restart ==
  /\ vault' = NoKey
  /\ UNCHANGED <<config, secrets, ghosts>>

\* Mutant: the new envelope wraps a freshly generated key.
RewrapFresh(old, new) ==
  /\ Unwraps(old) /\ new \in StrongMasters
  /\ \E k \in Keys : config' = Put(config, "envelope", Wrap(new, k))

\* Rewrap verifies the old master and wraps the same data key again.
Rewrap(old, new) ==
  /\ Unwraps(old) /\ new \in StrongMasters
  /\ config' = Put(config, "envelope", Wrap(new, DataKey))

\* The master route: works on a locked vault too, and leaves it as it is.
ChangeMaster(old, new) ==
  /\ Rewrap(old, new)
  /\ UNCHANGED <<vault, secrets, ghosts>>

(***************************************************************************)
(* Secrets.                                                                *)
(***************************************************************************)

\* Mutant: every accepted write counts as a change.
ChangedAlways(p, v) == TRUE

\* A write that repeats the visible value stores nothing.
Changed(p, v) == Exists(p) => secrets[p].ciphertext.plain # v

\* Mutant: the value is sealed for every path alike.
NextRowUnbound(p, v) ==
  [revision |-> Stored(p).revision + 1, ciphertext |-> Seal(vault, v, DekLabel), deleted |-> FALSE]

NextRow(p, v) ==
  [revision |-> Stored(p).revision + 1, ciphertext |-> Seal(vault, v, p), deleted |-> FALSE]

\* The part common to POST and PUT, from the comparison with the old value on.
StoreValue(p, v) ==
  /\ Exists(p) => Decrypts(p)
  /\ Changed(p, v)
  /\ Stored(p).revision < MaxRevision
  /\ secrets' = Put(secrets, p, NextRow(p, v))
  /\ history' = [history EXCEPT ![p] = Append(@, v)]
  /\ UNCHANGED <<config, vault, seen, last>>

\* 409 for a secret that exists; a tombstone does not.
SecretPost(p, v) == ~Locked /\ ~Exists(p) /\ StoreValue(p, v)

\* 404 for a secret that does not exist.
SecretPut(p, v) == ~Locked /\ Exists(p) /\ StoreValue(p, v)

\* A write credential's POST: an update, or a creation when the credential
\* allows it and the secret is missing or deleted.
WriteSecret(allowCreate, p, v) ==
  IF allowCreate /\ ~Exists(p) THEN SecretPost(p, v) ELSE SecretPut(p, v)

\* Mutant: deletion removes the row and its revision with it.
SecretDeleteRow(p) ==
  /\ ~Locked /\ Exists(p)
  /\ secrets' = Delete(secrets, p)
  /\ UNCHANGED <<config, vault, ghosts>>

\* Deletion keeps the revision and drops the ciphertext.
Tombstone(p) == [revision |-> secrets[p].revision, ciphertext |-> Nil, deleted |-> TRUE]

SecretDelete(p) ==
  /\ ~Locked /\ Exists(p)
  /\ secrets' = Put(secrets, p, Tombstone(p))
  /\ UNCHANGED <<config, vault, ghosts>>

\* A value response: decrypted value and revision of one row.
SecretGet(p) ==
  /\ Exists(p) /\ Decrypts(p)
  /\ seen' = seen \cup {[path |-> p, revision |-> secrets[p].revision,
                         value |-> secrets[p].ciphertext.plain]}
  /\ last' = [last EXCEPT ![p] = secrets[p].revision]
  /\ UNCHANGED <<config, vault, secrets, history>>

Next ==
  \/ \E m \in Masters, k \in Keys : Setup(m, k)
  \/ \E m \in Masters : Unlock(m)
  \/ Lock
  \/ Restart
  \/ \E old, new \in Masters : ChangeMaster(old, new)
  \/ \E p \in Paths, v \in Values : SecretPost(p, v)
  \/ \E p \in Paths, v \in Values : SecretPut(p, v)
  \/ \E p \in Paths, v \in Values, c \in BOOLEAN : WriteSecret(c, p, v)
  \/ \E p \in Paths : SecretDelete(p)
  \/ \E p \in Paths : SecretGet(p)

Spec == Init /\ [][Next]_vars

(***************************************************************************)
(* Properties.                                                             *)
(***************************************************************************)

TypeOK ==
  /\ DOMAIN config \subseteq {"envelope"}
  /\ Initialized => /\ DOMAIN Envelope = {"key", "plain", "aad"}
                    /\ Envelope.key \in StrongMasters
                    /\ Envelope.plain \in Keys
                    /\ Envelope.aad = DekLabel
  /\ vault \in Keys \cup {NoKey}
  /\ DOMAIN secrets \subseteq Paths
  /\ \A p \in DOMAIN secrets : secrets[p] \in Secret
  /\ history \in [Paths -> Seq(Values)]
  /\ seen \subseteq [path : Paths, revision : Nat, value : Values]
  /\ last \in [Paths -> Nat]

\* An unlocked vault holds exactly the data key the stored envelope wraps, so
\* nothing is ever sealed under a key that the next restart cannot recover
\* (Setup's "already initialized" check, Vault.Unlock, Rewrap).
VaultHoldsDataKey == ~Locked => Initialized /\ vault = DataKey

\* Every visible secret opens, for its own path, under the data key the current
\* envelope wraps, and yields the value last written: no master change,
\* restart, deletion or re-creation makes a stored value unreadable or stale.
SecretsRecoverable ==
  \A p \in Paths : Exists(p) =>
    /\ Initialized
    /\ Opens(DataKey, secrets[p].ciphertext, p)
    /\ history[p] # <<>>
    /\ secrets[p].ciphertext.plain = history[p][Len(history[p])]

\* The revision counts the distinct writes of a path over its whole life,
\* deletions and re-creations included (models.go: "recreation cannot reuse an
\* earlier revision number").
RevisionCountsWrites == \A p \in Paths : Stored(p).revision = Len(history[p])

\* What GET answered is part of the path's history for good: the value at the
\* position the revision names (this is what makes RevisionNamesValue and
\* ReadsNeverGoBack inductive).
AnswersComeFromHistory ==
  /\ \A x \in seen : /\ x.revision \in 1..Len(history[x.path])
                     /\ x.value = history[x.path][x.revision]
  /\ \A p \in Paths : last[p] <= Len(history[p])

\* Two answers of GET that carry the same path and revision carry the same
\* value, whatever happened between them.  The agent skips a download on the
\* strength of this.
RevisionNamesValue ==
  \A x, y \in seen : x.path = y.path /\ x.revision = y.revision => x.value = y.value

\* A GET never answers with a lower revision than the GET of the path before
\* it, not even across deletion, re-creation and restarts.
ReadsNeverGoBack == [][\A p \in Paths : last'[p] >= last[p]]_vars

\* The store implements the promise its clients rely on: a list of values per
\* path that only grows, a revision that is its length, and no new revision
\* for a repeated value.
Promise == INSTANCE VersionedValues WITH live <- [p \in Paths |-> Exists(p)]
ImplementsVersionedValues == Promise!Spec
=============================================================================
