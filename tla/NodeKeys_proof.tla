---------------------------- MODULE NodeKeys_proof ----------------------------
(***************************************************************************)
(* Proofs about NodeKeys, for any peers and any number of rotations,       *)
(* failed writes, crashes and seconds.                                     *)
(***************************************************************************)
EXTENDS NodeKeys, TLAPS

\* The keys that can be read back from a backup, and from the key file.
Backed == {backups[t].key : t \in {t \in DOMAIN backups : backups[t].state = "ok"}}
InFile == IF key_file.state = "ok" THEN {key_file.key} ELSE {}

KeyTexts == {Good(k) : k \in 1 .. keys}

\* What TypeOK leaves out.
Flags ==
  /\ keys \in Nat /\ clock \in Nat /\ rotations \in Nat /\ failures \in Nat
  /\ ready \in BOOLEAN /\ hurried \in BOOLEAN
  /\ pc = "off" => ~ready
  /\ ready => key_file.state # "absent"

\* A key being written is the newest, and nobody has seen it.
Fresh ==
  pc \in {"key_open", "key_write"} => keypair = keys /\ keypair \notin Used

\* Between two calls, and until a rotation has its backup, the key in memory is
\* the one in the file.
FileCurrent ==
  pc \in {"idle", "backup_open", "backup_write", "generate"} =>
    key_file = Good(keypair)

\* The backup being written stands at a new name.
NewBackup ==
  /\ pc = "backup_open" /\ ~hurried => stamp \notin DOMAIN backups
  /\ pc = "backup_write" => stamp \in DOMAIN backups /\ backups[stamp] = Torn

\* Only the key of the key file may be without a backup, and not while that file
\* is about to be replaced.
Kept ==
  ~hurried =>
    /\ Used \subseteq Backed \cup InFile
    /\ pc \in {"generate", "key_open", "key_write"} => Used \subseteq Backed

\* The key file is never behind.
Forward == \A k \in Used, j \in InFile : k <= j

\* Before any rotation there is one key anybody has seen.
OneIdentity ==
  rotations = 0 =>
    /\ pc \in {"off", "idle", "key_open", "key_write"}
    /\ pc = "idle" => key_file = Good(keypair)
    /\ pc \in {"key_open", "key_write"} => Used = {} /\ ~ready
    /\ Used \subseteq InFile

KeysInv == TypeOK /\ Flags /\ Fresh /\ NewBackup /\ OneIdentity

\* What a write of the key file that raises in a rotation may break.
KeysSafe == FileCurrent /\ Kept /\ Forward

KeyFileFails == WriteFails /\ ready /\ pc \in {"key_open", "key_write"}

\* A step that loses no key.
Steady == KeysInv' /\ (KeysSafe => KeysSafe')

-----------------------------------------------------------------------------
\* What is on the disk is in a backup or in the key file.
LEMMA OnDiskIs == OnDisk = Backed \cup InFile
BY DEF OnDisk, Backed, InFile

\* A backup written at a name that held no key loses none.
LEMMA BackupAdds ==
  ASSUME NEW f, SetBackup(f),
         stamp \in DOMAIN backups => backups[stamp].state # "ok"
  PROVE  Backed \subseteq Backed' /\ (f.state = "ok" => f.key \in Backed')
<1>1. /\ DOMAIN backups' = DOMAIN backups \cup {stamp}
      /\ backups'[stamp] = f
      /\ \A t \in DOMAIN backups : t # stamp => backups'[t] = backups[t]
  BY DEF SetBackup
<1> QED  BY <1>1 DEF Backed

\* What the invariant is about is left alone by a step that leaves these alone.
LEMMA SameKept ==
  ASSUME UNCHANGED <<key_file, backups, given, signed>>
  PROVE  Backed' = Backed /\ InFile' = InFile /\ Used' = Used
BY DEF Backed, InFile, Used

LEMMA InitInv == Init => KeysInv /\ KeysSafe
<1> SUFFICES ASSUME Init PROVE KeysInv /\ KeysSafe  OBVIOUS
<1>1. Used = {} /\ InFile = {}  BY DEF Init, Used, InFile, Absent
<1>2. TypeOK  BY <1>1 DEF Init, TypeOK, NoKey, Writing
<1>3. Flags /\ Fresh /\ FileCurrent /\ NewBackup
  BY DEF Init, Flags, Fresh, FileCurrent, NewBackup
<1>4. Kept /\ Forward /\ OneIdentity  BY <1>1 DEF Init, Kept, Forward, OneIdentity
<1> QED  BY <1>2, <1>3, <1>4 DEF KeysInv, KeysSafe

\* The constructor reads the key file.
LEMMA LoadInv == ASSUME KeysInv, Load PROVE Steady
<1>1. /\ pc = "off" /\ pc' = "idle" /\ key_file.state = "ok"
      /\ keypair' = key_file.key /\ ready' = TRUE
      /\ key_file' = key_file /\ backups' = backups /\ stamp' = stamp
      /\ given' = given /\ signed' = signed /\ known' = known /\ keys' = keys
      /\ hurried' = hurried /\ clock' = clock /\ rotations' = rotations
      /\ failures' = failures
  BY DEF Load, files, public, counters
<1>2. Backed' = Backed /\ InFile' = InFile /\ Used' = Used  BY <1>1, SameKept
<1>3. /\ key_file.key \in 1 .. keys /\ key_file = Good(key_file.key)
      /\ keys \in Nat
  BY <1>1 DEF KeysInv, TypeOK, Flags, Absent, Torn, Good
<1>4. TypeOK'
  <2>1. keypair' \in 0 .. keys' /\ keypair' # NoKey  BY <1>1, <1>3 DEF NoKey
  <2> QED  BY <1>1, <1>2, <2>1 DEF KeysInv, TypeOK
<1>5. Flags' /\ Fresh' /\ NewBackup' /\ (KeysSafe => FileCurrent')
  BY <1>1, <1>3 DEF KeysInv, KeysSafe, Flags, Fresh, FileCurrent, NewBackup
<1>6. OneIdentity' /\ (KeysSafe => Kept' /\ Forward')
  BY <1>1, <1>2, <1>3 DEF KeysInv, KeysSafe, Kept, Forward, OneIdentity
<1> QED  BY <1>4, <1>5, <1>6 DEF KeysInv, KeysSafe, Steady
\* A new key, of the constructor or of a rotation.
LEMMA GenerateInv ==
  ASSUME KeysInv, Create \/ Replace  PROVE Steady
<1>1. /\ keys' = keys + 1 /\ keypair' = keys + 1 /\ pc' = "key_open"
      /\ key_file' = key_file /\ backups' = backups /\ stamp' = stamp
      /\ ready' = ready
      /\ given' = given /\ signed' = signed /\ known' = known
      /\ hurried' = hurried /\ clock' = clock /\ rotations' = rotations
      /\ failures' = failures
  BY DEF Create, Replace, Generate, files, public, counters
<1>2. \/ pc = "off" /\ key_file = Absent
      \/ pc = "generate"
  BY DEF Create, Replace
<1>3. Backed' = Backed /\ InFile' = InFile /\ Used' = Used  BY <1>1, SameKept
<1>4. keys \in Nat /\ Used \subseteq 1 .. keys  BY DEF KeysInv, TypeOK, Flags
<1>5. 1 .. keys \subseteq 1 .. keys' /\ keys' \in Nat /\ keys' \notin Used
  BY <1>1, <1>4
<1>6. TypeOK'
  <2>1. key_file' \in {Absent, Torn} \cup {Good(k) : k \in 1 .. keys'}
    BY <1>1, <1>5 DEF KeysInv, TypeOK
  <2>2. \A t \in DOMAIN backups' :
          t \in Nat /\ backups'[t] \in {Torn} \cup {Good(k) : k \in 1 .. keys'}
    BY <1>1, <1>5 DEF KeysInv, TypeOK
  <2>3. keypair' \in 0 .. keys' /\ keypair' # NoKey  BY <1>1, <1>4 DEF NoKey
  <2>4. Used' \subseteq 1 .. keys'  BY <1>3, <1>4, <1>5
  <2>5. known' \in [Peers -> given' \cup {NoKey}] /\ stamp' \in Nat
    BY <1>1 DEF KeysInv, TypeOK
  <2> QED  BY <1>1, <2>1, <2>2, <2>3, <2>4, <2>5 DEF TypeOK, Writing
<1>7. Flags' /\ Fresh' /\ NewBackup' /\ (KeysSafe => FileCurrent')
  BY <1>1, <1>3, <1>5 DEF KeysInv, KeysSafe, Flags, Fresh, FileCurrent, NewBackup
<1>8. KeysSafe => Kept' /\ Forward'
  <2>1. key_file = Absent => InFile = {}  BY DEF InFile, Absent
  <2> QED  BY <1>1, <1>2, <1>3, <2>1 DEF KeysInv, KeysSafe, Kept, Forward
<1>9. OneIdentity'
  <2>1. key_file = Absent => InFile = {}  BY DEF InFile, Absent
  <2> QED  BY <1>1, <1>2, <1>3, <2>1 DEF KeysInv, OneIdentity, Flags
<1> QED  BY <1>6, <1>7, <1>8, <1>9 DEF KeysInv, KeysSafe, Steady

\* The key file is emptied: every key in it that was used is in a backup.
LEMMA KeyOpenInv == ASSUME KeysInv, KeyOpen PROVE Steady
<1>1. /\ pc = "key_open" /\ pc' = "key_write" /\ key_file' = Torn
      /\ keypair' = keypair /\ keys' = keys
      /\ backups' = backups /\ stamp' = stamp /\ ready' = ready
      /\ given' = given /\ signed' = signed /\ known' = known
      /\ hurried' = hurried /\ clock' = clock /\ rotations' = rotations
      /\ failures' = failures
  BY DEF KeyOpen, public, counters
<1>2. Backed' = Backed /\ InFile' = {} /\ Used' = Used
  BY <1>1 DEF Backed, InFile, Used, Torn
<1>3. TypeOK'
  BY <1>1, <1>2 DEF KeysInv, TypeOK, Writing
<1>4. Flags' /\ Fresh' /\ NewBackup' /\ (KeysSafe => FileCurrent')
  BY <1>1, <1>2 DEF KeysInv, KeysSafe, Flags, Fresh, FileCurrent, NewBackup, Torn
<1>5. OneIdentity' /\ (KeysSafe => Kept' /\ Forward')
  BY <1>1, <1>2 DEF KeysInv, KeysSafe, Kept, Forward, OneIdentity
<1> QED  BY <1>3, <1>4, <1>5 DEF KeysInv, KeysSafe, Steady

\* The new key is in the file, and the call returns.
LEMMA KeyWriteInv == ASSUME KeysInv, KeyWrite PROVE Steady
<1>1. /\ pc = "key_write" /\ pc' = "idle" /\ key_file' = Good(keypair)
      /\ keypair' = keypair /\ keys' = keys
      /\ backups' = backups /\ stamp' = stamp /\ ready' = TRUE
      /\ given' = given /\ signed' = signed /\ known' = known
      /\ hurried' = hurried /\ clock' = clock /\ rotations' = rotations
      /\ failures' = failures
  BY DEF KeyWrite, public, counters
<1>2. Backed' = Backed /\ InFile' = {keypair} /\ Used' = Used
  BY <1>1 DEF Backed, InFile, Used, Good
<1>3. /\ keypair = keys /\ keys \in Nat \ {0} /\ Used \subseteq 1 .. keys
  BY <1>1 DEF KeysInv, TypeOK, Flags, Fresh, NoKey
<1>4. TypeOK'
  <2>1. key_file' \in {Good(k) : k \in 1 .. keys'}  BY <1>1, <1>3
  <2> QED  BY <1>1, <1>2, <2>1 DEF KeysInv, TypeOK
<1>5. Flags' /\ Fresh' /\ NewBackup' /\ (KeysSafe => FileCurrent')
  BY <1>1, <1>2 DEF KeysInv, KeysSafe, Flags, Fresh, FileCurrent, NewBackup, Good
<1>6. OneIdentity' /\ (KeysSafe => Kept')
  BY <1>1, <1>2 DEF KeysInv, KeysSafe, Kept, OneIdentity
<1>7. KeysSafe => Forward'  BY <1>2, <1>3 DEF Forward
<1> QED  BY <1>4, <1>5, <1>6, <1>7 DEF KeysInv, KeysSafe, Steady
\* A rotation begins; only one in the second of another may meet its backup.
LEMMA RotateInv == ASSUME KeysInv, Rotate PROVE Steady
<1>1. /\ pc = "idle" /\ pc' = "backup_open" /\ stamp' = clock
      /\ rotations' = rotations + 1
      /\ hurried' = (hurried \/ clock \in DOMAIN backups)
      /\ key_file' = key_file /\ keypair' = keypair /\ keys' = keys
      /\ backups' = backups /\ ready' = ready
      /\ given' = given /\ signed' = signed /\ known' = known
      /\ clock' = clock /\ failures' = failures
  BY DEF Rotate, files, public
<1>2. Backed' = Backed /\ InFile' = InFile /\ Used' = Used  BY <1>1, SameKept
<1>3. TypeOK'
  BY <1>1, <1>2 DEF KeysInv, TypeOK, Writing, Flags
<1>4. Flags' /\ Fresh' /\ (KeysSafe => FileCurrent')
  BY <1>1, <1>2 DEF KeysInv, KeysSafe, Flags, Fresh, FileCurrent
<1>5. NewBackup'  BY <1>1 DEF NewBackup
<1>6. KeysSafe => Kept' /\ Forward'
  <2>1. ~hurried' => ~hurried  BY <1>1
  <2> QED  BY <1>1, <1>2, <2>1 DEF KeysInv, KeysSafe, Kept, Forward
<1>7. OneIdentity'  BY <1>1 DEF KeysInv, OneIdentity, Flags
<1> QED  BY <1>3, <1>4, <1>5, <1>6, <1>7 DEF KeysInv, KeysSafe, Steady

\* The backup is emptied: unless it was in a hurry, a new one.
LEMMA BackupOpenInv == ASSUME KeysInv, BackupOpen PROVE Steady
<1>1. /\ pc = "backup_open" /\ pc' = "backup_write" /\ SetBackup(Torn)
      /\ stamp' = stamp /\ rotations' = rotations /\ hurried' = hurried
      /\ key_file' = key_file /\ keypair' = keypair /\ keys' = keys
      /\ ready' = ready
      /\ given' = given /\ signed' = signed /\ known' = known
      /\ clock' = clock /\ failures' = failures
  BY DEF BackupOpen, public, counters
<1>2. InFile' = InFile /\ Used' = Used  BY <1>1 DEF InFile, Used
<1>3. ~hurried => Backed \subseteq Backed'
  BY <1>1, BackupAdds DEF KeysInv, NewBackup
<1>4. /\ DOMAIN backups' = DOMAIN backups \cup {stamp}
      /\ backups'[stamp] = Torn
      /\ \A t \in DOMAIN backups : t # stamp => backups'[t] = backups[t]
  BY <1>1 DEF SetBackup
<1>5. TypeOK'
  <2>1. \A t \in DOMAIN backups' :
          t \in Nat /\ backups'[t] \in {Torn} \cup {Good(k) : k \in 1 .. keys'}
    BY <1>1, <1>4 DEF KeysInv, TypeOK
  <2> QED  BY <1>1, <1>2, <2>1 DEF KeysInv, TypeOK, Writing
<1>6. Flags' /\ Fresh' /\ NewBackup' /\ (KeysSafe => FileCurrent')
  BY <1>1, <1>2, <1>4 DEF KeysInv, KeysSafe, Flags, Fresh, FileCurrent, NewBackup
<1>7. OneIdentity' /\ (KeysSafe => Kept' /\ Forward')
  BY <1>1, <1>2, <1>3 DEF KeysInv, KeysSafe, Kept, Forward, OneIdentity
<1> QED  BY <1>5, <1>6, <1>7 DEF KeysInv, KeysSafe, Steady

\* The backup is written: from here on every key that was used is in one.
LEMMA BackupWriteInv == ASSUME KeysInv, BackupWrite PROVE Steady
<1>1. /\ pc = "backup_write" /\ pc' = "generate" /\ SetBackup(key_file)
      /\ stamp' = stamp /\ rotations' = rotations /\ hurried' = hurried
      /\ key_file' = key_file /\ keypair' = keypair /\ keys' = keys
      /\ ready' = ready
      /\ given' = given /\ signed' = signed /\ known' = known
      /\ clock' = clock /\ failures' = failures
  BY DEF BackupWrite, public, counters
<1>2. InFile' = InFile /\ Used' = Used  BY <1>1 DEF InFile, Used
<1>3. /\ Backed \subseteq Backed'
      /\ key_file.state = "ok" => key_file.key \in Backed'
  <2>1. backups[stamp].state # "ok"  BY <1>1 DEF KeysInv, NewBackup, Torn
  <2> QED  BY <1>1, <2>1, BackupAdds
<1>4. /\ DOMAIN backups' = DOMAIN backups \cup {stamp}
      /\ backups'[stamp] = key_file
      /\ \A t \in DOMAIN backups : t # stamp => backups'[t] = backups[t]
  BY <1>1 DEF SetBackup
<1>5. TypeOK'
  <2>1. key_file # Absent  BY <1>1 DEF KeysInv, TypeOK, Flags, Absent
  <2>2. \A t \in DOMAIN backups' :
          t \in Nat /\ backups'[t] \in {Torn} \cup {Good(k) : k \in 1 .. keys'}
    BY <1>1, <1>4, <2>1 DEF KeysInv, TypeOK
  <2> QED  BY <1>1, <1>2, <2>2 DEF KeysInv, TypeOK, Writing
<1>6. Flags' /\ Fresh' /\ NewBackup' /\ (KeysSafe => FileCurrent')
  BY <1>1, <1>2 DEF KeysInv, KeysSafe, Flags, Fresh, FileCurrent, NewBackup
<1>7. KeysSafe => Kept'
  <2>1. InFile \subseteq Backed'  BY <1>3 DEF InFile
  <2> QED  BY <1>1, <1>2, <1>3, <2>1 DEF KeysInv, KeysSafe, Kept
<1>8. OneIdentity' /\ (KeysSafe => Forward')
  BY <1>1, <1>2 DEF KeysInv, KeysSafe, Forward, OneIdentity
<1> QED  BY <1>5, <1>6, <1>7, <1>8 DEF KeysInv, KeysSafe, Steady

\* A write raises; that of a backup leaves the key file as it was.
LEMMA WriteFailsInv ==
  ASSUME KeysInv, WriteFails
  PROVE  KeysInv' /\ (~KeyFileFails /\ KeysSafe => KeysSafe')
<1>1. /\ pc \in Writing /\ failures' = failures + 1
      /\ pc' = IF ready THEN "idle" ELSE "off"
      /\ keypair' = IF ready THEN keypair ELSE NoKey
      /\ key_file' = key_file /\ backups' = backups /\ stamp' = stamp
      /\ ready' = ready /\ keys' = keys
      /\ given' = given /\ signed' = signed /\ known' = known
      /\ hurried' = hurried /\ clock' = clock /\ rotations' = rotations
  BY DEF WriteFails, files, public
<1>2. Backed' = Backed /\ InFile' = InFile /\ Used' = Used  BY <1>1, SameKept
<1>3. failures' \in Nat  BY <1>1 DEF KeysInv, Flags
<1>4. TypeOK'
  <2>1. /\ keypair' \in 0 .. keys' /\ pc' \in {"off", "idle"}
        /\ pc' # "off" => keypair' # NoKey /\ ready'
    BY <1>1 DEF KeysInv, TypeOK, Flags, Writing, NoKey
  <2> QED  BY <1>1, <1>2, <2>1 DEF KeysInv, TypeOK
<1>5. Flags' /\ Fresh' /\ NewBackup'
  BY <1>1, <1>3 DEF KeysInv, Flags, Fresh, NewBackup
<1>6. ASSUME ~KeyFileFails, KeysSafe PROVE KeysSafe'
  <2>1. ready => pc \in {"backup_open", "backup_write"}
    BY <1>1, <1>6 DEF KeyFileFails, Writing
  <2>2. FileCurrent'  BY <1>1, <1>6, <2>1 DEF KeysSafe, FileCurrent
  <2>3. Kept' /\ Forward'
    BY <1>1, <1>2, <1>6 DEF KeysSafe, Kept, Forward
  <2> QED  BY <2>2, <2>3 DEF KeysSafe
<1>7. OneIdentity'  BY <1>1, <1>2 DEF KeysInv, OneIdentity, Writing
<1> QED  BY <1>4, <1>5, <1>6, <1>7 DEF KeysInv

LEMMA CrashInv == ASSUME KeysInv, Crash PROVE Steady
<1>1. /\ pc' = "off" /\ keypair' = NoKey /\ ready' = FALSE
      /\ key_file' = key_file /\ backups' = backups /\ stamp' = stamp
      /\ keys' = keys
      /\ given' = given /\ signed' = signed /\ known' = known
      /\ hurried' = hurried /\ clock' = clock /\ rotations' = rotations
      /\ failures' = failures
  BY DEF Crash, files, public
<1>2. Backed' = Backed /\ InFile' = InFile /\ Used' = Used  BY <1>1, SameKept
<1>3. TypeOK'
  <2>1. keypair' \in 0 .. keys'  BY <1>1 DEF KeysInv, Flags, NoKey
  <2> QED  BY <1>1, <1>2, <2>1 DEF KeysInv, TypeOK
<1>4. Flags' /\ Fresh' /\ NewBackup' /\ (KeysSafe => FileCurrent')
  BY <1>1 DEF KeysInv, KeysSafe, Flags, Fresh, FileCurrent, NewBackup
<1>5. OneIdentity' /\ (KeysSafe => Kept' /\ Forward')
  BY <1>1, <1>2 DEF KeysInv, KeysSafe, Kept, Forward, OneIdentity
<1> QED  BY <1>3, <1>4, <1>5 DEF KeysInv, KeysSafe, Steady

\* The key in memory is handed out, or signed with: it is in the key file.
LEMMA PublishInv ==
  ASSUME KeysInv, NEW gives \in BOOLEAN, NEW signs \in BOOLEAN,
         Publish(gives, signs)
  PROVE  Steady
<1>1. /\ pc = "idle" /\ pc' = pc /\ keypair' = keypair
      /\ given' = IF gives THEN given \cup {keypair} ELSE given
      /\ signed' = IF signs THEN signed \cup {keypair} ELSE signed
      /\ key_file' = key_file /\ backups' = backups /\ stamp' = stamp
      /\ ready' = ready /\ keys' = keys /\ known' = known
      /\ hurried' = hurried /\ clock' = clock /\ rotations' = rotations
      /\ failures' = failures
  BY DEF Publish, files, counters
<1>2. Backed' = Backed /\ InFile' = InFile  BY <1>1 DEF Backed, InFile
<1>3. Used' \subseteq Used \cup {keypair} /\ given \subseteq given'
  BY <1>1 DEF Used
<1>4. keypair \in 1 .. keys /\ keys \in Nat
  BY <1>1 DEF KeysInv, TypeOK, Flags, NoKey
<1>5. key_file = Good(keypair) => InFile = {keypair}  BY DEF InFile, Good
<1>6. TypeOK'
  <2>1. Used' \subseteq 1 .. keys'  BY <1>1, <1>3, <1>4 DEF KeysInv, TypeOK
  <2>2. known' \in [Peers -> given' \cup {NoKey}]
    BY <1>1, <1>3 DEF KeysInv, TypeOK
  <2> QED  BY <1>1, <2>1, <2>2 DEF KeysInv, TypeOK
<1>7. Flags' /\ Fresh' /\ NewBackup' /\ (KeysSafe => FileCurrent')
  BY <1>1 DEF KeysInv, KeysSafe, Flags, Fresh, FileCurrent, NewBackup
<1>8. KeysSafe => Kept'
  BY <1>1, <1>2, <1>3, <1>5 DEF KeysInv, KeysSafe, Kept, FileCurrent
<1>9. KeysSafe => Forward'
  <2>1. SUFFICES ASSUME KeysSafe PROVE \A k \in Used', j \in InFile : k <= j
    BY <1>1, <1>2 DEF Forward
  <2>2. InFile = {keypair}  BY <1>1, <1>5, <2>1 DEF KeysSafe, FileCurrent
  <2> QED  BY <1>3, <1>4, <2>1, <2>2 DEF KeysSafe, Forward
<1>10. OneIdentity'
  BY <1>1, <1>2, <1>3, <1>5 DEF KeysInv, OneIdentity
<1> QED  BY <1>6, <1>7, <1>8, <1>9, <1>10 DEF KeysInv, KeysSafe, Steady

\* A peer registers a key, a second passes, or nothing happens.
LEMMA QuietInv ==
  ASSUME KeysInv,
         \/ \E p \in Peers, k \in given : Register(p, k)
         \/ Tick
         \/ UNCHANGED vars
  PROVE  Steady
<1>1. /\ pc' = pc /\ keypair' = keypair /\ key_file' = key_file
      /\ backups' = backups /\ stamp' = stamp /\ ready' = ready /\ keys' = keys
      /\ given' = given /\ signed' = signed /\ hurried' = hurried
      /\ rotations' = rotations /\ failures' = failures
  BY DEF Register, Tick, vars, files, public, counters
<1>2. clock' \in Nat
  BY DEF KeysInv, Flags, Register, Tick, vars, counters
<1>3. known' \in [Peers -> given' \cup {NoKey}]
  BY DEF KeysInv, TypeOK, Register, Tick, vars, public
<1>4. Backed' = Backed /\ InFile' = InFile /\ Used' = Used  BY <1>1, SameKept
<1>5. TypeOK'  BY <1>1, <1>3, <1>4 DEF KeysInv, TypeOK
<1>6. Flags' /\ Fresh' /\ NewBackup' /\ (KeysSafe => FileCurrent')
  BY <1>1, <1>2, <1>4 DEF KeysInv, KeysSafe, Flags, Fresh, FileCurrent, NewBackup
<1>7. OneIdentity' /\ (KeysSafe => Kept' /\ Forward')
  BY <1>1, <1>4 DEF KeysInv, KeysSafe, Kept, Forward, OneIdentity
<1> QED  BY <1>5, <1>6, <1>7 DEF KeysInv, KeysSafe, Steady
-----------------------------------------------------------------------------
LEMMA StepInv ==
  KeysInv /\ [Next]_vars =>
    KeysInv' /\ (~KeyFileFails /\ KeysSafe => KeysSafe')
<1> SUFFICES ASSUME KeysInv, [Next]_vars
             PROVE  Steady \/ (WriteFails /\ KeysInv'
                                /\ (~KeyFileFails /\ KeysSafe => KeysSafe'))
  BY DEF Steady
<1>1. CASE Load  BY <1>1, LoadInv
<1>2. CASE Create \/ Replace  BY <1>2, GenerateInv
<1>3. CASE KeyOpen  BY <1>3, KeyOpenInv
<1>4. CASE KeyWrite  BY <1>4, KeyWriteInv
<1>5. CASE Rotate  BY <1>5, RotateInv
<1>6. CASE BackupOpen  BY <1>6, BackupOpenInv
<1>7. CASE BackupWrite  BY <1>7, BackupWriteInv
<1>8. CASE WriteFails  BY <1>8, WriteFailsInv
<1>9. CASE Crash  BY <1>9, CrashInv
<1>10. CASE GivePublicKey \/ SignMessage \/ RequestEnrollment
  BY <1>10, PublishInv DEF GivePublicKey, SignMessage, RequestEnrollment
<1>11. CASE \/ \E p \in Peers, k \in given : Register(p, k)
            \/ Tick
            \/ UNCHANGED vars
  BY <1>11, QuietInv
<1> QED
  BY <1>1, <1>2, <1>3, <1>4, <1>5, <1>6, <1>7, <1>8, <1>9, <1>10, <1>11 DEF Next

\* A write that raised is never forgotten.
LEMMA StepFailures ==
  KeysInv /\ [Next]_vars => (failures' = 0 => failures = 0 /\ ~WriteFails)
<1> SUFFICES ASSUME KeysInv, [Next]_vars, failures' = 0
             PROVE  failures = 0 /\ ~WriteFails
  OBVIOUS
<1>1. ~WriteFails  BY DEF WriteFails, KeysInv, Flags
<1>2. failures' = failures
  BY <1>1
     DEF Next, Load, Create, Replace, Generate, KeyOpen, KeyWrite, Rotate,
         BackupOpen, BackupWrite, Crash, Tick, GivePublicKey, SignMessage,
         RequestEnrollment, Publish, Register, counters, vars
<1> QED  BY <1>1, <1>2

LEMMA Invariant == Spec => [](KeysInv /\ (failures = 0 => KeysSafe))
<1> DEFINE Inv == failures = 0 => KeysSafe
<1>1. Init => Inv  BY InitInv
<1>2. KeysInv /\ Inv /\ [Next]_vars => Inv'
  BY StepInv, StepFailures DEF KeyFileFails
<1> QED  BY <1>1, <1>2, InitInv, StepInv, PTL DEF Spec

\* The variables keep their values' kinds (the constructor, the rotation and
\* every cut between two of their writes).
THEOREM KeysTypeCorrect == Spec => []TypeOK
<1>1. KeysInv => TypeOK  BY DEF KeysInv
<1> QED  BY Invariant, <1>1, PTL

\* rotate_keys keeps its promise of a backup: as long as no write fails and no
\* two rotations fall in one second, no key that was used is lost.
THEOREM KeysAreKept == Spec => []KeysKept
<1>1. (failures = 0 => KeysSafe) => KeysKept
  BY OnDiskIs DEF KeysSafe, Kept, KeysKept
<1> QED  BY Invariant, <1>1, PTL

\* Before the first rotation a peer that registered this node verifies all it
\* signed, through any crashes, restarts and failed writes.
THEOREM GenuineVerified == Spec => []GenuineVerifies
<1>1. KeysInv => GenuineVerifies
  <2> SUFFICES ASSUME KeysInv, NEW p \in Peers, NEW k \in signed,
                      known[p] # NoKey, rotations = 0
               PROVE  Verifies(p, k)
    BY DEF GenuineVerifies
  <2>1. known[p] \in given  BY DEF KeysInv, TypeOK
  <2>2. known[p] \in InFile /\ k \in InFile  BY <2>1 DEF KeysInv, OneIdentity, Used
  <2> QED  BY <2>2 DEF InFile, Verifies
<1> QED  BY Invariant, <1>1, PTL

\* A restart that succeeds comes back with a key no older than any that was
\* used.
LEMMA LoadsNewest ==
  ASSUME KeysSafe, [Next]_vars, pc = "off", pc' = "idle", NEW k \in Used
  PROVE  k <= keypair'
<1>1. Load
  BY DEF Next, Create, Replace, Generate, KeyOpen, KeyWrite, Rotate,
         BackupOpen, BackupWrite, WriteFails, Writing, Crash, Tick,
         GivePublicKey, SignMessage, RequestEnrollment, Publish, Register, vars
<1>2. keypair' \in InFile  BY <1>1 DEF Load, InFile
<1> QED  BY <1>2 DEF KeysSafe, Forward

\* It is so when no write failed.
THEOREM RestartGoesForward == Spec => NeverGoesBack
<1>1. (failures = 0 => KeysSafe) /\ [Next]_vars =>
        [pc = "off" /\ pc' = "idle" /\ failures = 0 =>
           \A k \in Used : k <= keypair']_vars
  BY LoadsNewest
<1> QED  BY Invariant, <1>1, PTL DEF Spec, NeverGoesBack

\* Writes that raise do no harm at all to the keys, in the constructor as often as
\* it is tried and while a backup is made, but for one place: _generate_keypair
\* when rotate_keys calls it.  Its new key is in memory, and may be signed with,
\* before it is in any file.
THEOREM OnlyRotationLosesKeys ==
  Init /\ [][Next /\ ~KeyFileFails]_vars =>
    /\ [](~hurried => Used \subseteq OnDisk)
    /\ [][pc = "off" /\ pc' = "idle" => \A k \in Used : k <= keypair']_vars
<1>1. KeysInv /\ KeysSafe /\ [Next /\ ~KeyFileFails]_vars => KeysInv' /\ KeysSafe'
  <2> SUFFICES ASSUME KeysInv, KeysSafe, [Next /\ ~KeyFileFails]_vars
               PROVE  KeysInv' /\ KeysSafe'
    OBVIOUS
  <2>1. CASE Next /\ ~KeyFileFails  BY <2>1, StepInv
  <2>2. CASE UNCHANGED vars  BY <2>2, QuietInv DEF Steady
  <2> QED  BY <2>1, <2>2
<1>2. KeysSafe => (~hurried => Used \subseteq OnDisk)
  BY OnDiskIs DEF KeysSafe, Kept
<1>3. KeysSafe /\ [Next /\ ~KeyFileFails]_vars =>
        [pc = "off" /\ pc' = "idle" => \A k \in Used : k <= keypair']_vars
  BY LoadsNewest
<1> QED  BY <1>1, <1>2, <1>3, InitInv, PTL
=============================================================================
