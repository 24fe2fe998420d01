------------------------------- MODULE NodeKeys -------------------------------
(***************************************************************************)
(* The signing key of a node (zdx_ed25519_signer.py): the file it is kept  *)
(* in, its rotation with a backup of the key it replaces, and the peers    *)
(* that verify what it signed with the public key they were given.         *)
(*                                                                         *)
(* A key is the number of its generation, and a signed message is the key  *)
(* it was signed with.  Every write_text empties its file before it fills  *)
(* it; it may raise, and the process may die, before either.               *)
(***************************************************************************)
EXTENDS Naturals, FiniteSets

CONSTANTS Peers,
          MaxClock, MaxRotations, MaxFailures, MaxCrashes    \* bounds

ASSUME KeysAssumption ==
  {MaxClock, MaxRotations, MaxFailures, MaxCrashes} \subseteq Nat

NoKey == 0

VARIABLES
  keypair,      \* _keypair of the signer in memory, or NoKey
  key_file,     \* <node_id>.json
  backups,      \* int(time.time()) -> <node_id>.<time>.bak
  pc,           \* where the call is; "off" when there is no signer
  stamp,        \* the time in the name of the backup being written
  ready,        \* the constructor has returned
  given,        \* keys whose public half was handed out
  signed,       \* keys something was signed with
  known,        \* peer -> the key it registered for this node, or NoKey
  keys,         \* keys generated
  clock,        \* time.time(), in seconds
  hurried,      \* two rotations began in one second
  rotations, failures, crashes

files == <<key_file, backups>>
public == <<given, signed, known>>
counters == <<clock, rotations, failures, crashes>>
vars == <<keypair, files, pc, stamp, ready, public, keys, hurried, counters>>

\* A file: absent, cut off, or the text of a keypair.
Absent == [state |-> "absent", key |-> NoKey]
Torn == [state |-> "torn", key |-> NoKey]
Good(k) == [state |-> "ok", key |-> k]

\* The keys that can be read back from some file.
OnDisk == {f.key : f \in {f \in {key_file} \cup {backups[t] : t \in DOMAIN backups} :
                            f.state = "ok"}}

Used == given \cup signed
-----------------------------------------------------------------------------
Init ==
  /\ keypair = NoKey
  /\ key_file = Absent
  /\ backups = [t \in {} |-> Absent]
  /\ pc = "off"
  /\ stamp = 0
  /\ ready = FALSE
  /\ given = {} /\ signed = {}
  /\ known = [p \in Peers |-> NoKey]
  /\ keys = 0
  /\ hurried = FALSE
  /\ clock = 0 /\ rotations = 0 /\ failures = 0 /\ crashes = 0

\* The constructor, when there is a key file: one that was cut off raises.
Load ==
  /\ pc = "off" /\ key_file.state = "ok"
  /\ keypair' = key_file.key
  /\ pc' = "idle" /\ ready' = TRUE
  /\ UNCHANGED <<files, stamp, public, keys, hurried, counters>>

\* _generate_keypair: the new key is in memory before it is in the file.
Generate ==
  /\ keys' = keys + 1
  /\ keypair' = keys + 1
  /\ pc' = "key_open"
  /\ UNCHANGED <<files, stamp, ready, public, hurried, counters>>

\* Mutant of Create: an existing key file is not looked for.
CreateAnew == pc = "off" /\ Generate

\* The constructor, when there is none.
Create == pc = "off" /\ key_file = Absent /\ Generate

\* Mutant of Replace: the new key is not written.
ReplaceInMemory ==
  /\ pc = "generate"
  /\ keys' = keys + 1
  /\ keypair' = keys + 1
  /\ pc' = "idle"
  /\ UNCHANGED <<files, stamp, ready, public, hurried, counters>>

Replace == pc = "generate" /\ Generate

KeyOpen ==
  /\ pc = "key_open" /\ pc' = "key_write"
  /\ key_file' = Torn
  /\ UNCHANGED <<keypair, backups, stamp, ready, public, keys, hurried, counters>>

KeyWrite ==
  /\ pc = "key_write" /\ pc' = "idle"
  /\ key_file' = Good(keypair)
  /\ ready' = TRUE
  /\ UNCHANGED <<keypair, backups, stamp, public, keys, hurried, counters>>
-----------------------------------------------------------------------------
\* rotate_keys: the backup is named by the second; a key file there is, since a
\* constructor has returned.
Rotate ==
  /\ pc = "idle" /\ rotations < MaxRotations
  /\ rotations' = rotations + 1
  /\ stamp' = clock
  /\ hurried' = (hurried \/ clock \in DOMAIN backups)
  /\ pc' = "backup_open"
  /\ UNCHANGED <<keypair, files, ready, public, keys, clock, failures, crashes>>

SetBackup(f) == backups' = [t \in DOMAIN backups \cup {stamp} |->
                              IF t = stamp THEN f ELSE backups[t]]

BackupOpen ==
  /\ pc = "backup_open" /\ pc' = "backup_write"
  /\ SetBackup(Torn)
  /\ UNCHANGED <<keypair, key_file, stamp, ready, public, keys, hurried, counters>>

\* Mutant of BackupWrite: the backup stays empty.
BackupEmpty ==
  /\ pc = "backup_write" /\ pc' = "generate"
  /\ UNCHANGED <<keypair, files, stamp, ready, public, keys, hurried, counters>>

\* The text of the key file is copied as it is.
BackupWrite ==
  /\ pc = "backup_write" /\ pc' = "generate"
  /\ SetBackup(key_file)
  /\ UNCHANGED <<keypair, key_file, stamp, ready, public, keys, hurried, counters>>

Writing == {"key_open", "key_write", "backup_open", "backup_write"}

\* Mutant of WriteFails: a constructor that raises leaves a signer behind.
WriteFailsSilently ==
  /\ pc \in Writing /\ failures < MaxFailures
  /\ failures' = failures + 1
  /\ pc' = "idle"
  /\ keypair' = IF ready THEN keypair ELSE NoKey
  /\ UNCHANGED <<files, stamp, ready, public, keys, hurried, clock, rotations,
                 crashes>>

\* A write raises.  After a rotation that raised, the signer has the key it had
\* in memory, the new one if that was generated; after a constructor, there is
\* no signer.
WriteFails ==
  /\ pc \in Writing /\ failures < MaxFailures
  /\ failures' = failures + 1
  /\ pc' = IF ready THEN "idle" ELSE "off"
  /\ keypair' = IF ready THEN keypair ELSE NoKey
  /\ UNCHANGED <<files, stamp, ready, public, keys, hurried, clock, rotations,
                 crashes>>

Crash ==
  /\ pc # "off" /\ crashes < MaxCrashes
  /\ crashes' = crashes + 1
  /\ pc' = "off" /\ keypair' = NoKey /\ ready' = FALSE
  /\ UNCHANGED <<files, stamp, public, keys, hurried, clock, rotations, failures>>

Tick ==
  /\ clock < MaxClock /\ clock' = clock + 1
  /\ UNCHANGED <<keypair, files, pc, stamp, ready, public, keys, hurried,
                 rotations, failures, crashes>>
-----------------------------------------------------------------------------
\* get_public_key_pem, sign_message, and create_enrollment_request, which does
\* both.
Publish(gives, signs) ==
  /\ pc = "idle"
  /\ given' = IF gives THEN given \cup {keypair} ELSE given
  /\ signed' = IF signs THEN signed \cup {keypair} ELSE signed
  /\ UNCHANGED <<keypair, files, pc, stamp, ready, known, keys, hurried, counters>>

GivePublicKey == Publish(TRUE, FALSE)
SignMessage == Publish(FALSE, TRUE)
RequestEnrollment == Publish(TRUE, TRUE)

\* A peer registers a public key of this node, whenever it reaches it.
Register(p, k) ==
  /\ k \in given
  /\ known' = [known EXCEPT ![p] = k]
  /\ UNCHANGED <<keypair, files, pc, stamp, ready, given, signed, keys, hurried,
                 counters>>

\* verify_message of peer p, for what this node signed with key k.
Verifies(p, k) == known[p] = k

Next ==
  \/ Load \/ Create \/ Replace \/ KeyOpen \/ KeyWrite
  \/ Rotate \/ BackupOpen \/ BackupWrite
  \/ WriteFails \/ Crash \/ Tick
  \/ GivePublicKey \/ SignMessage \/ RequestEnrollment
  \/ \E p \in Peers, k \in given : Register(p, k)

Spec == Init /\ [][Next]_vars
-----------------------------------------------------------------------------
\* The values of the variables; a signer that can be called has a key that was
\* generated.
TypeOK ==
  /\ keypair \in 0 .. keys
  /\ key_file \in {Absent, Torn} \cup {Good(k) : k \in 1 .. keys}
  /\ \A t \in DOMAIN backups :
       t \in Nat /\ backups[t] \in {Torn} \cup {Good(k) : k \in 1 .. keys}
  /\ pc \in Writing \cup {"off", "idle", "generate"}
  /\ pc # "off" => keypair # NoKey
  /\ pc \in {"idle", "generate", "backup_open", "backup_write"} => ready
  /\ stamp \in Nat
  /\ Used \subseteq 1 .. keys
  /\ known \in [Peers -> given \cup {NoKey}]

\* rotate_keys promises a backup of the old keypair: without failed writes, and
\* with rotations more than a second apart, every key that anything was signed
\* with, or that was handed out, can be read back from the disk, also after a
\* crash in the middle of a rotation.
KeysKept == failures = 0 /\ ~hurried => Used \subseteq OnDisk

\* A peer that has registered this node refuses what the node signed only after
\* a rotation: crashes, restarts and failed writes change no identity.
GenuineVerifies ==
  \A p \in Peers, k \in signed :
    known[p] # NoKey /\ rotations = 0 => Verifies(p, k)

\* A restart never falls back behind a key that was already in use, when no
\* write failed.
NeverGoesBack ==
  [][pc = "off" /\ pc' = "idle" /\ failures = 0 =>
       \A k \in Used : k <= keypair']_vars
=============================================================================
