-------------------------- MODULE AuthPipeline_proof --------------------------
(***************************************************************************)
(* Proofs about AuthPipeline, for any peers, windows and limits, and for a *)
(* network that may hold any number of messages.                           *)
(***************************************************************************)
EXTENDS AuthPipeline, FiniteSetTheorems, TLAPS

USE DEF NoSequence

GuardRecords == [last_sequence : Nat \cup {NoSequence},
                 seen_sequences : SUBSET Nat, message_count : Nat \ {0},
                 rate_limit_window_start : Nat]

GuardOK(g, now) ==
  /\ g \in GuardRecords
  /\ g.last_sequence \in g.seen_sequences \cup {NoSequence}
  /\ g.seen_sequences \subseteq 0 .. g.last_sequence
  /\ g.rate_limit_window_start <= now

Types ==
  /\ network \subseteq Messages
  /\ DOMAIN guards \subseteq Peers
  /\ guards \in [DOMAIN guards -> GuardRecords]
  /\ \A p \in DOMAIN guards : GuardOK(guards[p], clock)
  /\ clock \in Nat /\ received \in Nat
  /\ log \in Seq(Entries)
  /\ forgotten \in [Peers -> Nat]

\* What a guard has handed on: nothing beyond its last sequence, and that one.
Remembered ==
  /\ \A i \in DOMAIN log :
       /\ log[i].age <= forgotten[log[i].message.peer]
       /\ Numbered(log[i]) /\ log[i].age = forgotten[log[i].message.peer] =>
            /\ log[i].message.peer \in DOMAIN guards
            /\ log[i].message.sequence <= guards[log[i].message.peer].last_sequence
  /\ \A p \in DOMAIN guards : guards[p].last_sequence # NoSequence =>
       \E i \in DOMAIN log :
         /\ log[i].message.peer = p /\ log[i].age = forgotten[p]
         /\ log[i].message.sequence = guards[p].last_sequence

AuthInv == Types /\ Remembered /\ AtMostOnceInOrder

LEMMA TypesOK == Types => TypeOK
<1> SUFFICES ASSUME Types PROVE TypeOK  OBVIOUS
<1>1. \A p \in DOMAIN guards :
        /\ guards[p] = [last_sequence |-> guards[p].last_sequence,
                        seen_sequences |-> guards[p].seen_sequences,
                        message_count |-> guards[p].message_count,
                        rate_limit_window_start |->
                          guards[p].rate_limit_window_start]
        /\ guards[p].last_sequence \in guards[p].seen_sequences \cup {NoSequence}
        /\ guards[p].seen_sequences \subseteq 0 .. guards[p].last_sequence
        /\ guards[p].message_count \in Nat \ {0}
        /\ guards[p].rate_limit_window_start \in 0 .. clock
  BY DEF Types, GuardOK, GuardRecords
<1> QED  BY <1>1 DEF Types, TypeOK, Entries

LEMMA CountedOK ==
  ASSUME NEW g, clock \in Nat, GuardOK(g, clock) \/ g = NewGuard
  PROVE  /\ GuardOK(Counted(g), clock)
         /\ Counted(g).last_sequence = g.last_sequence
         /\ Counted(g).seen_sequences = g.seen_sequences
<1> DEFINE fresh == clock - g.rate_limit_window_start > RateWindow
           h == [last_sequence |-> g.last_sequence,
                 seen_sequences |-> g.seen_sequences,
                 message_count |-> IF fresh THEN 1 ELSE g.message_count + 1,
                 rate_limit_window_start |->
                   IF fresh THEN clock ELSE g.rate_limit_window_start]
<1>1. /\ g = [last_sequence |-> g.last_sequence,
              seen_sequences |-> g.seen_sequences,
              message_count |-> g.message_count,
              rate_limit_window_start |-> g.rate_limit_window_start]
      /\ g.last_sequence \in Nat \cup {NoSequence}
      /\ g.seen_sequences \in SUBSET Nat
      /\ g.message_count \in Nat /\ g.rate_limit_window_start \in Nat
      /\ g.last_sequence \in g.seen_sequences \cup {NoSequence}
      /\ g.seen_sequences \subseteq 0 .. g.last_sequence
      /\ g.rate_limit_window_start <= clock
  BY DEF GuardOK, GuardRecords, NewGuard
<1>2. Counted(g) = h  BY <1>1 DEF Counted
<1>3. h.message_count \in Nat \ {0}  BY <1>1
<1>4. h.rate_limit_window_start \in Nat /\ h.rate_limit_window_start <= clock
  BY <1>1
<1>5. GuardOK(h, clock)  BY <1>1, <1>3, <1>4 DEF GuardOK, GuardRecords
<1> QED  BY <1>2, <1>5

LEMMA NotedOK ==
  ASSUME NEW g, clock \in Nat, GuardOK(g, clock), NEW s \in Nat,
         s > g.last_sequence
  PROVE  GuardOK(Noted(g, s), clock) /\ Noted(g, s).last_sequence = s
<1>1. g \in GuardRecords /\ g.seen_sequences \subseteq 0 .. g.last_sequence
      /\ g.last_sequence \in Nat \cup {NoSequence}
  BY DEF GuardOK, GuardRecords
<1> DEFINE seen == Kept(g, s) \cup {s}
<1>2. seen \subseteq 0 .. s /\ s \in seen
  <2>1. Kept(g, s) \subseteq 0 .. g.last_sequence  BY <1>1 DEF Kept
  <2> QED  BY <1>1, <2>1
<1>3. Noted(g, s) = [g EXCEPT !.seen_sequences = seen, !.last_sequence = s]
  BY DEF Noted
<1> HIDE DEF seen
<1>4. Noted(g, s) = [last_sequence |-> s, seen_sequences |-> seen,
                     message_count |-> g.message_count,
                     rate_limit_window_start |-> g.rate_limit_window_start]
  BY <1>1, <1>3 DEF GuardRecords
<1>5. seen \in SUBSET Nat  BY <1>2
<1> QED  BY <1>1, <1>2, <1>4, <1>5 DEF GuardOK, GuardRecords

\* The message of a call that got past the first five stages.
LEMMA GuardKnown ==
  ASSUME AuthInv, NEW m \in network
  PROVE  /\ m \in Messages /\ m.peer \in Peers /\ clock \in Nat
         /\ GuardOK(Counted(Guard(m.peer)), clock)
         /\ Counted(Guard(m.peer)).last_sequence = Guard(m.peer).last_sequence
         /\ Counted(Guard(m.peer)).seen_sequences = Guard(m.peer).seen_sequences
         /\ Guard(m.peer).seen_sequences \subseteq 0 .. Guard(m.peer).last_sequence
         /\ Guard(m.peer).last_sequence \in Nat \cup {NoSequence}
<1>1. m \in Messages /\ m.peer \in Peers /\ clock \in Nat
  BY DEF AuthInv, Types, Messages
<1>2. GuardOK(Guard(m.peer), clock) \/ Guard(m.peer) = NewGuard
  BY <1>1 DEF AuthInv, Types, Guard
<1>3. /\ Guard(m.peer).seen_sequences \subseteq 0 .. Guard(m.peer).last_sequence
      /\ Guard(m.peer).last_sequence \in Nat \cup {NoSequence}
  BY <1>2 DEF GuardOK, GuardRecords, NewGuard
<1> QED  BY <1>1, <1>2, <1>3, CountedOK
LEMMA SetGuardOK ==
  ASSUME Types, NEW p \in Peers, NEW g, GuardOK(g, clock), SetGuard(p, g),
         clock' = clock
  PROVE  /\ DOMAIN guards' = DOMAIN guards \cup {p} /\ guards'[p] = g
         /\ \A q \in DOMAIN guards : q # p => guards'[q] = guards[q]
         /\ DOMAIN guards' \subseteq Peers
         /\ guards' \in [DOMAIN guards' -> GuardRecords]
         /\ \A q \in DOMAIN guards' : GuardOK(guards'[q], clock')
<1>1. /\ DOMAIN guards' = DOMAIN guards \cup {p} /\ guards'[p] = g
      /\ \A q \in DOMAIN guards : q # p => guards'[q] = guards[q]
      /\ guards' = [q \in DOMAIN guards' |-> guards'[q]]
  BY DEF SetGuard
<1>2. \A q \in DOMAIN guards' : GuardOK(guards'[q], clock')
  BY <1>1 DEF Types
<1>3. \A q \in DOMAIN guards' : guards'[q] \in GuardRecords
  BY <1>2 DEF GuardOK
<1> QED  BY <1>1, <1>2, <1>3 DEF Types

-----------------------------------------------------------------------------
(* Steps.                                                                  *)

\* A message that is counted and goes no further.
LEMMA CountOK ==
  ASSUME AuthInv, NEW m \in network, NEW outcome, Receive(m, outcome),
         SetGuard(m.peer, Counted(Guard(m.peer))), log' = log
  PROVE  AuthInv'
<1> DEFINE p == m.peer
           g == Counted(Guard(p))
<1>1. /\ network' = network /\ clock' = clock /\ forgotten' = forgotten
      /\ received' = received + 1 /\ Types
  BY DEF Receive, AuthInv
<1>2. p \in Peers /\ GuardOK(g, clock) /\ g.last_sequence = Guard(p).last_sequence
  BY GuardKnown
<1>3. SetGuard(p, g)  OBVIOUS
<1> HIDE DEF g, p
<1>4. /\ DOMAIN guards' = DOMAIN guards \cup {p} /\ guards'[p] = g
      /\ \A q \in DOMAIN guards : q # p => guards'[q] = guards[q]
      /\ DOMAIN guards' \subseteq Peers
      /\ guards' \in [DOMAIN guards' -> GuardRecords]
      /\ \A q \in DOMAIN guards' : GuardOK(guards'[q], clock')
  BY <1>1, <1>2, <1>3, SetGuardOK
<1>5. Types'  BY <1>1, <1>4 DEF Types
<1>6. /\ p \in DOMAIN guards => guards'[p].last_sequence = guards[p].last_sequence
      /\ p \notin DOMAIN guards => guards'[p].last_sequence = NoSequence
  BY <1>2, <1>4 DEF Guard, NewGuard
<1>7. Remembered'
  BY <1>1, <1>4, <1>6 DEF AuthInv, Remembered, Numbered
<1>8. AtMostOnceInOrder'
  BY <1>1 DEF AuthInv, AtMostOnceInOrder, Numbered, SameGuard
<1> QED  BY <1>5, <1>7, <1>8 DEF AuthInv

LEMMA DispatchOK ==
  ASSUME AuthInv, NEW m \in network, NEW failing, NEW raises \in BOOLEAN,
         Dispatch(m, failing, raises)
  PROVE  AuthInv'
<1> DEFINE p == m.peer
           s == m.sequence
           g == IF s = NoSequence THEN Counted(Guard(p))
                ELSE Noted(Counted(Guard(p)), s)
           e == [message |-> m, at |-> clock, age |-> forgotten[p]]
           n == Len(log)
<1>1. /\ network' = network /\ clock' = clock /\ forgotten' = forgotten
      /\ received' = received + 1 /\ Types /\ log' = Append(log, e)
      /\ SetGuard(p, g)
  BY DEF Dispatch, Receive, AuthInv
<1>2. /\ m \in Messages /\ p \in Peers /\ clock \in Nat
      /\ s \in Nat \cup {NoSequence}
      /\ forgotten \in [Peers -> Nat] /\ log \in Seq(Entries)
  BY GuardKnown DEF Messages, AuthInv, Types
<1>3. /\ GuardOK(g, clock)
      /\ s = NoSequence => g.last_sequence = Guard(p).last_sequence
      /\ s # NoSequence => g.last_sequence = s /\ s > Guard(p).last_sequence
  <2>1. CASE s = NoSequence  BY <2>1, GuardKnown
  <2>2. CASE s # NoSequence
    <3>1. s \in Nat /\ s > Guard(p).last_sequence
      BY <1>2, <2>2 DEF Dispatch, IsNew
    <3>2. /\ GuardOK(Counted(Guard(p)), clock)
          /\ s > Counted(Guard(p)).last_sequence
      BY <3>1, GuardKnown
    <3>3. GuardOK(g, clock) /\ g.last_sequence = s
      BY <1>2, <2>2, <3>1, <3>2, NotedOK
    <3> QED  BY <2>2, <3>1, <3>3
  <2> QED  BY <2>1, <2>2
<1>4. e \in Entries /\ e.message = m /\ e.at = clock /\ e.age = forgotten[p]
  BY <1>2 DEF Entries
<1>5. clock - m.timestamp \in -MaxMessageAge .. MaxMessageAge
  <2>1. Age(m) <= MaxMessageAge
    <3>1. Stages[2] = "timestamp" /\ 2 \in DOMAIN Stages  BY DEF Stages
    <3>2. 2 \notin Refusing(m, failing)  BY DEF Dispatch
    <3>3. ~(Age(m) > MaxMessageAge)  BY <3>1, <3>2 DEF Refusing
    <3>4. Age(m) \in Int  BY <1>2 DEF Age, Messages
    <3> QED  BY <3>3, <3>4, AuthAssumption
  <2>2. m.timestamp \in Int  BY <1>2 DEF Messages
  <2> QED  BY <1>2, <2>1, <2>2, AuthAssumption DEF Age
<1> HIDE DEF g, e
<1>6. /\ DOMAIN guards' = DOMAIN guards \cup {p} /\ guards'[p] = g
      /\ \A q \in DOMAIN guards : q # p => guards'[q] = guards[q]
      /\ DOMAIN guards' \subseteq Peers
      /\ guards' \in [DOMAIN guards' -> GuardRecords]
      /\ \A q \in DOMAIN guards' : GuardOK(guards'[q], clock')
  BY <1>1, <1>2, <1>3, SetGuardOK
<1>7. /\ n \in Nat /\ DOMAIN log = 1 .. n /\ DOMAIN log' = 1 .. (n + 1)
      /\ \A i \in 1 .. n : log'[i] = log[i]
      /\ log'[n + 1] = e /\ log' \in Seq(Entries)
  BY <1>1, <1>2, <1>4
<1> HIDE DEF n
<1>8. Types'  BY <1>1, <1>6, <1>7 DEF Types
<1>9. /\ p \in DOMAIN guards => guards'[p].last_sequence >= guards[p].last_sequence
      /\ s # NoSequence => guards'[p].last_sequence = s
      /\ s = NoSequence /\ p \in DOMAIN guards =>
           guards'[p].last_sequence = guards[p].last_sequence
      /\ s = NoSequence /\ p \notin DOMAIN guards =>
           guards'[p].last_sequence = NoSequence
      /\ guards'[p].last_sequence \in Nat \cup {NoSequence}
      /\ \A q \in DOMAIN guards :
           guards[q].last_sequence \in Nat \cup {NoSequence}
  <2>1. /\ p \in DOMAIN guards => Guard(p) = guards[p]
        /\ p \notin DOMAIN guards => Guard(p).last_sequence = NoSequence
    BY DEF Guard, NewGuard
  <2>2. /\ \A q \in DOMAIN guards :
             guards[q].last_sequence \in Nat \cup {NoSequence}
        /\ g.last_sequence \in Nat \cup {NoSequence}
    BY <1>1, <1>3 DEF Types, GuardOK, GuardRecords
  <2> QED  BY <1>2, <1>3, <1>6, <2>1, <2>2
<1>10. Remembered'
  <2>1. ASSUME NEW i \in DOMAIN log'
        PROVE  /\ log'[i].age <= forgotten[log'[i].message.peer]
               /\ Numbered(log'[i]) /\ log'[i].age = forgotten[log'[i].message.peer] =>
                    /\ log'[i].message.peer \in DOMAIN guards'
                    /\ log'[i].message.sequence
                         <= guards'[log'[i].message.peer].last_sequence
    <3>1. CASE i \in 1 .. n
      <4>1. /\ log'[i] = log[i] /\ i \in DOMAIN log /\ log[i] \in Entries
        BY <1>1, <1>7, <3>1 DEF Types
      <4>2. log[i].message.sequence \in Int  BY <4>1 DEF Entries, Messages
      <4>3. /\ log[i].age <= forgotten[log[i].message.peer]
            /\ Numbered(log[i]) /\ log[i].age = forgotten[log[i].message.peer] =>
                 /\ log[i].message.peer \in DOMAIN guards
                 /\ log[i].message.sequence
                      <= guards[log[i].message.peer].last_sequence
        BY <4>1 DEF AuthInv, Remembered
      <4>4. CASE log[i].message.peer = p
        BY <1>6, <1>9, <4>1, <4>2, <4>3, <4>4
      <4>5. CASE log[i].message.peer # p  BY <1>6, <4>1, <4>3, <4>5
      <4> QED  BY <4>4, <4>5
    <3>2. CASE i = n + 1
      <4>1. log'[i].message = m /\ log'[i].age = forgotten[p]
        BY <1>4, <1>7, <3>2
      <4> QED  BY <1>2, <1>6, <1>9, <4>1 DEF Numbered
    <3> QED  BY <1>7, <3>1, <3>2
  <2>2. ASSUME NEW q \in DOMAIN guards', guards'[q].last_sequence # NoSequence
        PROVE  \E i \in DOMAIN log' :
                 /\ log'[i].message.peer = q /\ log'[i].age = forgotten[q]
                 /\ log'[i].message.sequence = guards'[q].last_sequence
    <3>1. CASE q = p /\ s # NoSequence
      <4>1. n + 1 \in DOMAIN log' /\ log'[n + 1].message = m
            /\ log'[n + 1].age = forgotten[p]
        BY <1>4, <1>7
      <4> QED  BY <1>9, <3>1, <4>1
    <3>2. CASE q # p \/ s = NoSequence
      <4>1. q \in DOMAIN guards
            /\ guards'[q].last_sequence = guards[q].last_sequence
        BY <1>6, <1>9, <2>2, <3>2
      <4>2. PICK i \in DOMAIN log :
              /\ log[i].message.peer = q /\ log[i].age = forgotten[q]
              /\ log[i].message.sequence = guards[q].last_sequence
        BY <2>2, <4>1 DEF AuthInv, Remembered
      <4>3. i \in DOMAIN log' /\ log'[i] = log[i]  BY <1>7
      <4> QED  BY <4>1, <4>2, <4>3
    <3> QED  BY <3>1, <3>2
  <2> QED  BY <1>1, <2>1, <2>2 DEF Remembered, Numbered
<1>11. AtMostOnceInOrder'
  <2>1. \A j \in 1 .. n :
          /\ \A i \in 1 .. j - 1 :
               Numbered(log'[i]) /\ Numbered(log'[j]) /\ SameGuard(log'[i], log'[j])
                 => log'[i].message.sequence < log'[j].message.sequence
          /\ log'[j].at - log'[j].message.timestamp
               \in -MaxMessageAge .. MaxMessageAge
    <3> SUFFICES ASSUME NEW j \in 1 .. n
                 PROVE  /\ \A i \in 1 .. j - 1 :
                             Numbered(log'[i]) /\ Numbered(log'[j])
                             /\ SameGuard(log'[i], log'[j])
                               => log'[i].message.sequence
                                    < log'[j].message.sequence
                        /\ log'[j].at - log'[j].message.timestamp
                             \in -MaxMessageAge .. MaxMessageAge
      OBVIOUS
    <3>1. j \in DOMAIN log /\ log'[j] = log[j]  BY <1>7
    <3>2. \A i \in 1 .. j - 1 : i \in 1 .. n /\ log'[i] = log[i]  BY <1>7
    <3>3. /\ \A i \in 1 .. j - 1 :
               Numbered(log[i]) /\ Numbered(log[j]) /\ SameGuard(log[i], log[j])
                 => log[i].message.sequence < log[j].message.sequence
          /\ log[j].at - log[j].message.timestamp
               \in -MaxMessageAge .. MaxMessageAge
      BY <3>1 DEF AuthInv, AtMostOnceInOrder
    <3> QED  BY <3>1, <3>2, <3>3
  <2>2. ASSUME NEW i \in 1 .. n, Numbered(log'[i]), Numbered(e), SameGuard(log'[i], e)
        PROVE  log'[i].message.sequence < e.message.sequence
    <3>1. log'[i] = log[i] /\ i \in DOMAIN log /\ log[i] \in Entries
      BY <1>1, <1>7 DEF Types
    <3>2. /\ log[i].message.peer = p /\ log[i].age = forgotten[p] /\ s # NoSequence
      BY <1>4, <2>2, <3>1 DEF SameGuard, Numbered
    <3>3. p \in DOMAIN guards /\ log[i].message.sequence <= guards[p].last_sequence
      BY <2>2, <3>1, <3>2 DEF AuthInv, Remembered
    <3>4. s > guards[p].last_sequence  BY <1>3, <3>2, <3>3 DEF Guard
    <3>5. log[i].message.sequence \in Int
      <4>1. log[i].message \in Messages  BY <3>1 DEF Entries
      <4> QED  BY <4>1 DEF Messages
    <3>6. s \in Int /\ guards[p].last_sequence \in Int
      BY <1>2, <1>9, <3>3 DEF Messages
    <3> QED  BY <1>4, <3>1, <3>3, <3>4, <3>5, <3>6
  <2>3. e.at - e.message.timestamp \in -MaxMessageAge .. MaxMessageAge
    BY <1>4, <1>5
  <2>4. \A j \in 1 .. n + 1 : j \in 1 .. n \/ (j = n + 1 /\ log'[j] = e)
    BY <1>7
  <2>5. ASSUME NEW j \in DOMAIN log'
        PROVE  /\ \A i \in 1 .. j - 1 :
                    Numbered(log'[i]) /\ Numbered(log'[j])
                    /\ SameGuard(log'[i], log'[j])
                      => log'[i].message.sequence < log'[j].message.sequence
               /\ log'[j].at - log'[j].message.timestamp
                    \in -MaxMessageAge .. MaxMessageAge
    <3>1. CASE j \in 1 .. n  BY <2>1, <3>1
    <3>2. CASE j = n + 1 /\ log'[j] = e
      <4>1. 1 .. j - 1 = 1 .. n  BY <1>7, <3>2
      <4> QED  BY <2>2, <2>3, <3>2, <4>1
    <3> QED  BY <1>7, <2>4, <3>1, <3>2
  <2> QED  BY <2>5 DEF AtMostOnceInOrder, Numbered, SameGuard
<1> QED  BY <1>8, <1>10, <1>11 DEF AuthInv
\* A step that leaves the log alone and either the guards too, or throws some
\* away and ages those peers.
LEMMA OthersOK ==
  ASSUME AuthInv, log' = log, clock' \in Nat, clock' >= clock,
         received' \in Nat, network' \subseteq Messages,
         forgotten' \in [Peers -> Nat],
         DOMAIN guards' \subseteq DOMAIN guards,
         guards' = [p \in DOMAIN guards' |-> guards[p]],
         \A p \in Peers : \/ forgotten'[p] = forgotten[p]
                             /\ (p \in DOMAIN guards => p \in DOMAIN guards')
                          \/ forgotten'[p] = forgotten[p] + 1
                             /\ p \notin DOMAIN guards'
  PROVE  AuthInv'
<1>1. Types /\ clock \in Nat /\ log \in Seq(Entries)
      /\ forgotten \in [Peers -> Nat] /\ DOMAIN guards \subseteq Peers
  BY DEF AuthInv, Types
<1>2. \A p \in DOMAIN guards' : guards'[p] = guards[p]  OBVIOUS
<1>3. \A p \in DOMAIN guards' : GuardOK(guards'[p], clock')
  BY <1>1, <1>2 DEF Types, GuardOK, GuardRecords
<1>4. Types'
  BY <1>1, <1>2, <1>3 DEF Types
<1>5. \A i \in DOMAIN log : log[i] \in Entries /\ log[i].message.peer \in Peers
                            /\ log[i].age \in Nat
  <2>1. \A i \in DOMAIN log : log[i] \in Entries  BY <1>1
  <2>2. \A e \in Entries : e.message.peer \in Peers /\ e.age \in Nat
    BY DEF Entries, Messages
  <2> QED  BY <2>1, <2>2
<1>6. Remembered'
  <2>1. ASSUME NEW i \in DOMAIN log
        PROVE  /\ log[i].age <= forgotten'[log[i].message.peer]
               /\ Numbered(log[i]) /\ log[i].age = forgotten'[log[i].message.peer] =>
                    /\ log[i].message.peer \in DOMAIN guards'
                    /\ log[i].message.sequence
                         <= guards'[log[i].message.peer].last_sequence
    <3> DEFINE p == log[i].message.peer
    <3>1. /\ log[i].age <= forgotten[p] /\ p \in Peers /\ log[i].age \in Nat
          /\ Numbered(log[i]) /\ log[i].age = forgotten[p] =>
               /\ p \in DOMAIN guards
               /\ log[i].message.sequence <= guards[p].last_sequence
      BY <1>5 DEF AuthInv, Remembered
    <3>2. forgotten[p] \in Nat  BY <1>1, <3>1
    <3>3. CASE forgotten'[p] = forgotten[p]
               /\ (p \in DOMAIN guards => p \in DOMAIN guards')
      BY <1>2, <3>1, <3>3
    <3>4. CASE forgotten'[p] = forgotten[p] + 1 /\ p \notin DOMAIN guards'
      BY <3>1, <3>2, <3>4
    <3> QED  BY <3>1, <3>3, <3>4
  <2>2. ASSUME NEW q \in DOMAIN guards', guards'[q].last_sequence # NoSequence
        PROVE  \E i \in DOMAIN log :
                 /\ log[i].message.peer = q /\ log[i].age = forgotten'[q]
                 /\ log[i].message.sequence = guards'[q].last_sequence
    <3>1. q \in Peers /\ q \in DOMAIN guards /\ guards'[q] = guards[q]
          /\ forgotten'[q] = forgotten[q]
      BY <1>1, <1>2
    <3> QED  BY <2>2, <3>1 DEF AuthInv, Remembered
  <2> QED  BY <2>1, <2>2 DEF Remembered, Numbered
<1>7. AtMostOnceInOrder'
  BY DEF AuthInv, AtMostOnceInOrder, Numbered, SameGuard
<1> QED  BY <1>4, <1>6, <1>7 DEF AuthInv

LEMMA InitAuth == Init => AuthInv
<1> SUFFICES ASSUME Init PROVE AuthInv  OBVIOUS
<1>1. Types  BY AuthAssumption DEF Init, Types
<1>2. Remembered /\ AtMostOnceInOrder
  BY DEF Init, Remembered, AtMostOnceInOrder
<1> QED  BY <1>1, <1>2 DEF AuthInv

LEMMA StepAuth == AuthInv /\ [Next]_vars => AuthInv'
<1> SUFFICES ASSUME AuthInv, [Next]_vars PROVE AuthInv'  OBVIOUS
<1>0. /\ Types /\ clock \in Nat /\ received \in Nat /\ network \subseteq Messages
      /\ forgotten \in [Peers -> Nat] /\ DOMAIN guards \subseteq Peers
      /\ guards = [p \in DOMAIN guards |-> guards[p]]
  BY DEF AuthInv, Types
<1>1. ASSUME NEW p \in Peers, NEW s \in 0 .. MaxSequence \cup {NoSequence},
             NEW skew \in Skews, Send(p, s, skew)
      PROVE  AuthInv'
  <2>1. s \in Nat \cup {NoSequence} /\ clock + skew \in Int
    BY <1>0, AuthAssumption
  <2>2. network' \subseteq Messages
    BY <1>0, <1>1, <2>1 DEF Send, Messages
  <2>3. /\ log' = log /\ clock' = clock /\ received' = received
        /\ forgotten' = forgotten /\ guards' = guards
    BY <1>1 DEF Send
  <2> QED  BY <1>0, <2>2, <2>3, OthersOK
<1>2. ASSUME NEW m \in network, NEW failing, Refuse(m, failing)
      PROVE  AuthInv'
  <2>1. /\ log' = log /\ clock' = clock /\ received' = received + 1
        /\ network' = network /\ forgotten' = forgotten /\ guards' = guards
    BY <1>2 DEF Refuse, Receive
  <2> QED  BY <1>0, <2>1, OthersOK
<1>3. ASSUME NEW m \in network, NEW failing,
             LimitRate(m, failing) \/ RefuseReplay(m, failing)
      PROVE  AuthInv'
  BY <1>3, CountOK DEF LimitRate, RefuseReplay
<1>4. ASSUME NEW m \in network, NEW failing, NEW raises \in BOOLEAN,
             Dispatch(m, failing, raises)
      PROVE  AuthInv'
  BY <1>4, DispatchOK
<1>5. ASSUME NEW p \in Peers, ClearReplayState(p)
      PROVE  AuthInv'
  <2>1. /\ log' = log /\ clock' = clock /\ received' = received
        /\ network' = network /\ forgotten' = [forgotten EXCEPT ![p] = @ + 1]
        /\ guards' = [q \in DOMAIN guards \ {p} |-> guards[q]]
    BY <1>5 DEF ClearReplayState, Restrict
  <2>2. /\ forgotten' \in [Peers -> Nat] /\ forgotten'[p] = forgotten[p] + 1
        /\ \A q \in Peers : q # p => forgotten'[q] = forgotten[q]
    BY <1>0, <2>1
  <2>3. DOMAIN guards' = DOMAIN guards \ {p}  BY <2>1
  <2> QED  BY <1>0, <2>1, <2>2, <2>3, OthersOK
<1>6. CASE Restart
  <2>1. /\ log' = log /\ clock' = clock /\ received' = received
        /\ network' = network
        /\ forgotten' = [p \in Peers |-> forgotten[p] + 1]
        /\ guards' = [p \in {} |-> NewGuard]
    BY <1>6 DEF Restart
  <2>2. /\ DOMAIN guards' = {} /\ forgotten' \in [Peers -> Nat]
        /\ guards' = [p \in DOMAIN guards' |-> guards[p]]
    BY <1>0, <2>1
  <2> QED  BY <1>0, <2>1, <2>2, OthersOK
<1>7. CASE Tick
  <2>1. /\ log' = log /\ clock' = clock + 1 /\ received' = received
        /\ network' = network /\ forgotten' = forgotten /\ guards' = guards
    BY <1>7 DEF Tick
  <2> QED  BY <1>0, <2>1, OthersOK
<1>8. CASE UNCHANGED vars
  <2>1. /\ log' = log /\ clock' = clock /\ received' = received
        /\ network' = network /\ forgotten' = forgotten /\ guards' = guards
    BY <1>8 DEF vars
  <2> QED  BY <1>0, <2>1, OthersOK
<1> QED
  BY <1>1, <1>2, <1>3, <1>4, <1>5, <1>6, <1>7, <1>8 DEF Next

\* Every variable keeps the values it is declared for, and the window of seen
\* sequences lies below the last one.
THEOREM TypeCorrect == Spec => []TypeOK
<1>1. AuthInv => TypeOK  BY TypesOK DEF AuthInv
<1> QED  BY InitAuth, StepAuth, <1>1, PTL DEF Spec

\* process_message hands the numbered messages of a peer on at most once and in
\* their order as long as the guard of that peer is kept, and no message far
\* from its timestamp ever, for any network.
THEOREM HandedOnOnce == Spec => []AtMostOnceInOrder
<1>1. AuthInv => AtMostOnceInOrder  BY DEF AuthInv
<1> QED  BY InitAuth, StepAuth, <1>1, PTL DEF Spec

\* What process_message refuses as a replay has been handed on, or a later
\* message of the same peer has: being rate limited uses no sequence up.
THEOREM ReplaysHandled == Spec => ReplayMeansHandled
<1> DEFINE Handled ==
      result'.outcome = "replay_protection" /\ received' # received =>
        LET m == result'.message
        IN  \E i \in DOMAIN log :
              /\ log[i].message.peer = m.peer
              /\ log[i].age = forgotten[m.peer]
              /\ log[i].message.sequence >= m.sequence
<1>1. ASSUME AuthInv, NEW m \in network, NEW failing, RefuseReplay(m, failing)
      PROVE  Handled
  <2>1. /\ result'.message = m /\ m.sequence # NoSequence
        /\ ~IsNew(Guard(m.peer), m.sequence)
    BY <1>1 DEF RefuseReplay, Receive
  <2>2. /\ m \in Messages /\ Guard(m.peer).last_sequence \in Nat \cup {NoSequence}
        /\ Guard(m.peer).seen_sequences \subseteq 0 .. Guard(m.peer).last_sequence
    BY <1>1, GuardKnown
  <2>3. m.sequence \in Nat  BY <2>1, <2>2 DEF Messages
  <2>4. m.sequence <= Guard(m.peer).last_sequence
    BY <2>1, <2>2, <2>3 DEF IsNew
  <2>5. /\ m.peer \in DOMAIN guards
        /\ guards[m.peer].last_sequence # NoSequence
        /\ m.sequence <= guards[m.peer].last_sequence
    BY <2>2, <2>3, <2>4 DEF Guard, NewGuard
  <2>6. PICK i \in DOMAIN log :
          /\ log[i].message.peer = m.peer /\ log[i].age = forgotten[m.peer]
          /\ log[i].message.sequence = guards[m.peer].last_sequence
    BY <1>1, <2>5 DEF AuthInv, Remembered
  <2>7. log[i].message.sequence >= m.sequence
    BY <2>2, <2>3, <2>5, <2>6 DEF Guard
  <2> QED  BY <2>1, <2>6, <2>7
<1>2. AuthInv /\ [Next]_vars => Handled
  <2> SUFFICES ASSUME AuthInv, [Next]_vars PROVE Handled  OBVIOUS
  <2>1. ASSUME NEW m \in network, NEW failing, Refuse(m, failing)
        PROVE  Handled
    <3>1. PICK i \in DOMAIN Stages : Receive(m, Stages[i])
      BY <2>1 DEF Refuse, Refusing
    <3>2. Stages[i] # "replay_protection"  BY DEF Stages
    <3> QED  BY <3>1, <3>2 DEF Receive
  <2>2. ASSUME NEW m \in network, NEW failing, LimitRate(m, failing)
        PROVE  Handled
    BY <2>2 DEF LimitRate, Receive
  <2>3. ASSUME NEW m \in network, NEW failing, NEW raises \in BOOLEAN,
               Dispatch(m, failing, raises)
        PROVE  Handled
    BY <2>3 DEF Dispatch, Receive
  <2>4. ASSUME received' = received PROVE Handled  BY <2>4
  <2> HIDE DEF Handled
  <2> QED
    BY <1>1, <2>1, <2>2, <2>3, <2>4
       DEF Next, vars, Send, ClearReplayState, Restart, Tick
<1>3. AuthInv /\ [Next]_vars => [Handled]_vars  BY <1>2
<1> QED  BY <1>3, InitAuth, StepAuth, PTL DEF Spec, ReplayMeansHandled

-----------------------------------------------------------------------------
(* The rate.                                                               *)

\* What the guard of p at age k has handed on from time a to time b.
Span(l, p, k, a, b) ==
  {j \in DOMAIN l : l[j].message.peer = p /\ l[j].age = k /\ l[j].at \in a .. b}

\* The window of a guard g, and the one before: the message that opens a window
\* is in its count, handed on or not, so after its first instant a window has at
\* most RateMax - 1 messages, and so has what a span holds of it once it is over.
Window(l, p, k, g, now) ==
  LET start == g.rate_limit_window_start
  IN  /\ \A j \in DOMAIN l : l[j].message.peer = p /\ l[j].age = k =>
           l[j].at <= start + RateWindow
      /\ Cardinality(Span(l, p, k, start, now)) <= RateMax
      /\ Cardinality(Span(l, p, k, start, now)) <= g.message_count
      /\ Cardinality(Span(l, p, k, start + 1, now)) < RateMax
      /\ Cardinality(Span(l, p, k, start + 1, now)) < g.message_count
      /\ Cardinality(Span(l, p, k, start - RateWindow, start - 1)) < RateMax

\* What a guard just counted has room for.
Room(l, p, k, g, now) ==
  LET start == g.rate_limit_window_start
  IN  /\ now <= start + RateWindow
      /\ Cardinality(Span(l, p, k, start, now)) < g.message_count
      /\ start < now => Cardinality(Span(l, p, k, start + 1, now)) + 1
                          < g.message_count

RateInv ==
  /\ clock > RateWindow
  /\ \A j \in DOMAIN log : log[j].at <= clock
  /\ RateMax = 0 => log = <<>>
  /\ \A p \in Peers \ DOMAIN guards, j \in DOMAIN log :
       ~(log[j].message.peer = p /\ log[j].age = forgotten[p])
  /\ RateMax > 0 =>
       \A p \in DOMAIN guards : Window(log, p, forgotten[p], guards[p], clock)
  /\ RateBounded

\* The entries of a log are finitely many.
LEMMA PartFinite ==
  ASSUME NEW l \in Seq(Entries), NEW S, S \subseteq DOMAIN l
  PROVE  IsFiniteSet(S) /\ Cardinality(S) \in Nat
<1>1. DOMAIN l = 1 .. Len(l) /\ Len(l) \in Nat  OBVIOUS
<1>2. IsFiniteSet(1 .. Len(l))  BY <1>1, FS_Interval
<1>3. IsFiniteSet(S)  BY <1>1, <1>2, FS_Subset
<1> QED  BY <1>3, FS_CardinalityType

LEMMA PartSmaller ==
  ASSUME NEW l \in Seq(Entries), NEW S, S \subseteq DOMAIN l, NEW T, T \subseteq S
  PROVE  Cardinality(T) <= Cardinality(S)
BY PartFinite, FS_Subset

LEMMA SpanFinite ==
  ASSUME NEW l \in Seq(Entries), NEW p, NEW k, NEW a, NEW b
  PROVE  /\ Span(l, p, k, a, b) \subseteq DOMAIN l
         /\ IsFiniteSet(Span(l, p, k, a, b))
         /\ Cardinality(Span(l, p, k, a, b)) \in Nat
<1>1. Span(l, p, k, a, b) \subseteq DOMAIN l  BY DEF Span
<1> QED  BY <1>1, PartFinite

LEMMA EntryValues ==
  ASSUME NEW l \in Seq(Entries), NEW j \in DOMAIN l
  PROVE  /\ l[j] \in Entries /\ l[j].at \in Nat /\ l[j].age \in Nat
         /\ l[j].message.peer \in Peers
<1>1. l[j] \in Entries  OBVIOUS
<1> QED  BY <1>1 DEF Entries, Messages

\* Counting a message leaves a window, and room in it for the message.
LEMMA CountedWindow ==
  ASSUME RateMax > 0, NEW l \in Seq(Entries), NEW p, NEW k, NEW g,
         clock \in Nat, clock > RateWindow,
         \A j \in DOMAIN l : l[j].at <= clock,
         \/ g = NewGuard /\ \A j \in DOMAIN l : ~(l[j].message.peer = p /\ l[j].age = k)
         \/ GuardOK(g, clock) /\ Window(l, p, k, g, clock)
  PROVE  /\ Window(l, p, k, Counted(g), clock)
         /\ Room(l, p, k, Counted(g), clock)
<1> DEFINE fresh == clock - g.rate_limit_window_start > RateWindow
           h == Counted(g)
           start == g.rate_limit_window_start
<1>1. /\ start \in Nat /\ start <= clock /\ g.message_count \in Nat
      /\ RateWindow \in Nat /\ RateMax \in Nat
  BY AuthAssumption DEF GuardOK, GuardRecords, NewGuard
<1>2. /\ fresh => h.rate_limit_window_start = clock /\ h.message_count = 1
      /\ ~fresh => h.rate_limit_window_start = start
                   /\ h.message_count = g.message_count + 1
  <2>1. g = [last_sequence |-> g.last_sequence,
             seen_sequences |-> g.seen_sequences,
             message_count |-> g.message_count,
             rate_limit_window_start |-> g.rate_limit_window_start]
    BY DEF GuardOK, GuardRecords, NewGuard
  <2> QED  BY <2>1 DEF Counted
<1>3. \A j \in DOMAIN l : l[j].at \in Nat  BY EntryValues
<1>4. CASE fresh
  <2>1. \A j \in DOMAIN l : l[j].message.peer = p /\ l[j].age = k =>
          l[j].at <= clock + RateWindow /\ l[j].at \notin clock .. clock
    <3>1. ASSUME NEW j \in DOMAIN l, l[j].message.peer = p, l[j].age = k
          PROVE  l[j].at <= start + RateWindow
      BY <3>1 DEF Window
    <3> QED  BY <1>1, <1>3, <1>4, <3>1
  <2>2. Span(l, p, k, clock, clock) = {}  BY <2>1 DEF Span
  <2>3. Span(l, p, k, clock + 1, clock) = {}
    <3>1. clock + 1 .. clock = {}  OBVIOUS
    <3> QED  BY <3>1 DEF Span
  <2>4. Cardinality(Span(l, p, k, clock - RateWindow, clock - 1)) < RateMax
    <3>1. CASE g = NewGuard /\ \A j \in DOMAIN l :
                 ~(l[j].message.peer = p /\ l[j].age = k)
      <4>1. Span(l, p, k, clock - RateWindow, clock - 1) = {}
        BY <3>1 DEF Span
      <4> QED  BY <4>1, <1>1, FS_EmptySet
    <3>2. CASE GuardOK(g, clock) /\ Window(l, p, k, g, clock)
      <4>1. \A a \in Int : a \in clock - RateWindow .. clock - 1 =>
              a \in start + 1 .. clock
        BY <1>1, <1>4
      <4>2. Span(l, p, k, clock - RateWindow, clock - 1)
              \subseteq Span(l, p, k, start + 1, clock)
        BY <1>3, <4>1 DEF Span
      <4>3. Cardinality(Span(l, p, k, start + 1, clock)) < RateMax
        BY <3>2 DEF Window
      <4>4. Cardinality(Span(l, p, k, clock - RateWindow, clock - 1))
              <= Cardinality(Span(l, p, k, start + 1, clock))
        BY <4>2, SpanFinite, PartSmaller
      <4>5. /\ Cardinality(Span(l, p, k, clock - RateWindow, clock - 1)) \in Nat
            /\ Cardinality(Span(l, p, k, start + 1, clock)) \in Nat
        BY SpanFinite
      <4> QED  BY <1>1, <4>3, <4>4, <4>5
    <3> QED  BY <3>1, <3>2
  <2>5. h.rate_limit_window_start = clock /\ h.message_count = 1
    BY <1>2, <1>4
  <2>8. /\ Cardinality(Span(l, p, k, clock, clock)) = 0
        /\ Cardinality(Span(l, p, k, clock + 1, clock)) = 0
    BY <2>2, <2>3, FS_EmptySet
  <2>9. \A j \in DOMAIN l : l[j].message.peer = p /\ l[j].age = k =>
          l[j].at <= clock + RateWindow
    BY <2>1
  <2> HIDE DEF h, fresh
  <2>6. Window(l, p, k, h, clock)
    BY <1>1, <2>4, <2>5, <2>8, <2>9 DEF Window
  <2>7. Room(l, p, k, h, clock)
    BY <1>1, <2>5, <2>8 DEF Room
  <2> QED  BY <2>6, <2>7 DEF h
<1>5. CASE ~fresh
  <2>1. GuardOK(g, clock) /\ Window(l, p, k, g, clock)
    BY <1>1, <1>5 DEF NewGuard
  <2>2. h.rate_limit_window_start = start /\ h.message_count = g.message_count + 1
    BY <1>2, <1>5
  <2>3. clock <= start + RateWindow  BY <1>1, <1>5
  <2>4. /\ Cardinality(Span(l, p, k, start, clock)) \in Nat
        /\ Cardinality(Span(l, p, k, start + 1, clock)) \in Nat
    BY SpanFinite
  <2> HIDE DEF h, fresh
  <2>5. Window(l, p, k, h, clock)
    BY <1>1, <2>1, <2>2, <2>4 DEF Window
  <2>6. Room(l, p, k, h, clock)
    BY <1>1, <2>1, <2>2, <2>3, <2>4 DEF Window, Room
  <2> QED  BY <2>5, <2>6 DEF h
<1> QED  BY <1>4, <1>5

\* The spans of a log that has got one entry more.
LEMMA SpanGrows ==
  ASSUME NEW l \in Seq(Entries), NEW e \in Entries, NEW p, NEW k, NEW a \in Int,
         NEW b \in Int
  PROVE  LET in  == e.message.peer = p /\ e.age = k /\ e.at \in a .. b
             S   == Span(l, p, k, a, b)
             new == Span(Append(l, e), p, k, a, b)
         IN  /\ in => Cardinality(new) = Cardinality(S) + 1
             /\ ~in => new = S
<1> DEFINE in == e.message.peer = p /\ e.age = k /\ e.at \in a .. b
           m == Append(l, e)
           n == Len(l)
<1>1. /\ n \in Nat /\ DOMAIN l = 1 .. n /\ DOMAIN m = 1 .. n + 1
      /\ \A j \in 1 .. n : m[j] = l[j]
      /\ m[n + 1] = e
  OBVIOUS
<1> HIDE DEF n, m
<1>2. \A j : j \in 1 .. n + 1 <=> j \in 1 .. n \/ j = n + 1
  BY <1>1
<1>3. n + 1 \notin Span(l, p, k, a, b)
  BY <1>1 DEF Span
<1>4. in => Span(m, p, k, a, b) = Span(l, p, k, a, b) \cup {n + 1}
  BY <1>1, <1>2 DEF Span
<1>5. ~in => Span(m, p, k, a, b) = Span(l, p, k, a, b)
  BY <1>1, <1>2 DEF Span
<1>6. in => Cardinality(Span(m, p, k, a, b)) = Cardinality(Span(l, p, k, a, b)) + 1
  BY <1>3, <1>4, SpanFinite, FS_AddElement
<1> QED  BY <1>5, <1>6 DEF m

\* A message handed on within the rate.
LEMMA DispatchedWindow ==
  ASSUME RateMax > 0, NEW l \in Seq(Entries), NEW e \in Entries, NEW g,
         GuardOK(g, e.at), g.message_count <= RateMax,
         Window(l, e.message.peer, e.age, g, e.at),
         Room(l, e.message.peer, e.age, g, e.at)
  PROVE  Window(Append(l, e), e.message.peer, e.age, g, e.at)
<1> DEFINE m == Append(l, e)
           n == Len(l)
           p == e.message.peer
           k == e.age
           now == e.at
           start == g.rate_limit_window_start
<1>1. /\ start \in Nat /\ start <= now /\ g.message_count \in Nat \ {0}
      /\ RateWindow \in Nat /\ RateMax \in Nat /\ now \in Nat
  BY AuthAssumption DEF GuardOK, GuardRecords, Entries
<1>2. /\ n \in Nat /\ DOMAIN l = 1 .. n /\ DOMAIN m = 1 .. n + 1
      /\ \A j \in 1 .. n : m[j] = l[j]
      /\ m[n + 1] = e
  OBVIOUS
<1>3. \A a, b \in Int :
        /\ now \in a .. b => Cardinality(Span(m, p, k, a, b))
                               = Cardinality(Span(l, p, k, a, b)) + 1
        /\ now \notin a .. b => Span(m, p, k, a, b) = Span(l, p, k, a, b)
  BY SpanGrows
<1>4. \A a, b : Cardinality(Span(l, p, k, a, b)) \in Nat
  BY SpanFinite
<1>5. /\ now <= start + RateWindow
      /\ Cardinality(Span(l, p, k, start, now)) < g.message_count
      /\ start < now => Cardinality(Span(l, p, k, start + 1, now)) + 1
                          < g.message_count
  BY DEF Room
<1>6. /\ \A j \in DOMAIN l : l[j].message.peer = p /\ l[j].age = k =>
           l[j].at <= start + RateWindow
      /\ Cardinality(Span(l, p, k, start + 1, now)) < RateMax
      /\ Cardinality(Span(l, p, k, start + 1, now)) < g.message_count
      /\ Cardinality(Span(l, p, k, start - RateWindow, start - 1)) < RateMax
  BY DEF Window
<1> HIDE DEF m, n, p, k, now, start
<1>7. \A j \in DOMAIN m : m[j].message.peer = p /\ m[j].age = k =>
        m[j].at <= start + RateWindow
  <2> SUFFICES ASSUME NEW j \in DOMAIN m, m[j].message.peer = p, m[j].age = k
               PROVE  m[j].at <= start + RateWindow
    OBVIOUS
  <2>1. CASE j \in 1 .. n  BY <1>2, <1>6, <2>1
  <2>2. CASE j = n + 1  BY <1>2, <1>5, <2>2 DEF now
  <2> QED  BY <1>2, <2>1, <2>2
<1>8. Cardinality(Span(m, p, k, start, now)) <= g.message_count
  <2>1. now \in start .. now  BY <1>1
  <2>2. Cardinality(Span(m, p, k, start, now))
          = Cardinality(Span(l, p, k, start, now)) + 1
    BY <1>1, <1>3, <2>1
  <2> QED  BY <1>1, <1>4, <1>5, <2>2
<1>9. Cardinality(Span(m, p, k, start + 1, now)) < g.message_count
  <2>1. CASE start < now
    <3>1. now \in start + 1 .. now  BY <1>1, <2>1
    <3>2. Cardinality(Span(m, p, k, start + 1, now))
            = Cardinality(Span(l, p, k, start + 1, now)) + 1
      BY <1>1, <1>3, <3>1
    <3> QED  BY <1>1, <1>4, <1>5, <2>1, <3>2
  <2>2. CASE start = now
    <3>1. now \notin start + 1 .. now  BY <1>1, <2>2
    <3>2. Span(m, p, k, start + 1, now) = Span(l, p, k, start + 1, now)
      BY <1>1, <1>3, <3>1
    <3> QED  BY <1>6, <3>2
  <2> QED  BY <1>1, <2>1, <2>2
<1>10. Cardinality(Span(m, p, k, start - RateWindow, start - 1)) < RateMax
  <2>1. now \notin start - RateWindow .. start - 1  BY <1>1
  <2>2. Span(m, p, k, start - RateWindow, start - 1)
          = Span(l, p, k, start - RateWindow, start - 1)
    BY <1>1, <1>3, <2>1
  <2> QED  BY <1>6, <2>2
<1>11. m \in Seq(Entries)  BY DEF m
<1>12. \A a, b : Cardinality(Span(m, p, k, a, b)) \in Nat
  BY <1>11, SpanFinite
<1>13. /\ Cardinality(Span(m, p, k, start, now)) <= RateMax
       /\ Cardinality(Span(m, p, k, start + 1, now)) < RateMax
  BY <1>1, <1>8, <1>9, <1>12
<1>14. Window(m, p, k, g, now)
  BY <1>7, <1>8, <1>9, <1>10, <1>13 DEF Window, start
<1> QED  BY <1>14 DEF m, p, k, now

\* No span that ends now has twice RateMax messages.
LEMMA SpanBounded ==
  ASSUME RateMax > 0, NEW l \in Seq(Entries), NEW p, NEW k, NEW g, NEW now \in Nat,
         GuardOK(g, now), Window(l, p, k, g, now), NEW t \in Nat,
         now - t \in 0 .. RateWindow
  PROVE  Cardinality(Span(l, p, k, t, now)) < 2 * RateMax
<1> DEFINE start == g.rate_limit_window_start
           old == Span(l, p, k, start - RateWindow, start - 1)
           new == Span(l, p, k, start, now)
<1>1. start \in Nat /\ start <= now /\ RateWindow \in Nat /\ RateMax \in Nat
  BY AuthAssumption DEF GuardOK, GuardRecords
<1>2. Cardinality(new) <= RateMax /\ Cardinality(old) < RateMax
  BY DEF Window
<1>3. \A a \in Nat : a \in t .. now =>
        a \in start .. now \/ a \in start - RateWindow .. start - 1
  BY <1>1
<1>4. \A j \in DOMAIN l : l[j].at \in Nat  BY EntryValues
<1>5. Span(l, p, k, t, now) \subseteq old \cup new
  BY <1>3, <1>4 DEF Span
<1>6. /\ old \subseteq DOMAIN l /\ IsFiniteSet(old) /\ Cardinality(old) \in Nat
      /\ new \subseteq DOMAIN l /\ IsFiniteSet(new) /\ Cardinality(new) \in Nat
  BY SpanFinite
<1> HIDE DEF old, new
<1>7. Cardinality(old \cup new)
        = Cardinality(old) + Cardinality(new) - Cardinality(old \cap new)
  BY <1>6, FS_Union
<1>8. Cardinality(old \cap new) \in Nat /\ Cardinality(old \cup new) \in Nat
  <2>1. old \cap new \subseteq DOMAIN l /\ old \cup new \subseteq DOMAIN l
    BY <1>6
  <2> QED  BY <2>1, PartFinite
<1>9. Cardinality(Span(l, p, k, t, now)) <= Cardinality(old \cup new)
  <2>1. old \cup new \subseteq DOMAIN l  BY <1>6
  <2> QED  BY <1>5, <2>1, PartSmaller
<1>10. Cardinality(Span(l, p, k, t, now)) \in Nat  BY SpanFinite
<1> QED  BY <1>1, <1>2, <1>6, <1>7, <1>8, <1>9, <1>10

\* The guard of the peer of a message, before and after it is counted.
LEMMA GuardWindow ==
  ASSUME AuthInv, RateInv, RateMax > 0, NEW p \in Peers
  PROVE  /\ Window(log, p, forgotten[p], Counted(Guard(p)), clock)
         /\ Room(log, p, forgotten[p], Counted(Guard(p)), clock)
<1>1. clock \in Nat /\ log \in Seq(Entries)  BY DEF AuthInv, Types
<1>2. clock > RateWindow /\ \A j \in DOMAIN log : log[j].at <= clock
  BY DEF RateInv
<1>3. CASE p \in DOMAIN guards
  <2>1. GuardOK(guards[p], clock) /\ Guard(p) = guards[p]
    BY <1>3 DEF AuthInv, Types, Guard
  <2>2. Window(log, p, forgotten[p], guards[p], clock)
    BY <1>3 DEF RateInv
  <2> QED  BY <1>1, <1>2, <2>1, <2>2, CountedWindow
<1>4. CASE p \notin DOMAIN guards
  <2>1. Guard(p) = NewGuard  BY <1>4 DEF Guard
  <2>2. \A j \in DOMAIN log : ~(log[j].message.peer = p /\ log[j].age = forgotten[p])
    BY <1>4 DEF RateInv
  <2> QED  BY <1>1, <1>2, <2>1, <2>2, CountedWindow
<1> QED  BY <1>3, <1>4

\* A message that is counted and goes no further.
LEMMA CountRate ==
  ASSUME AuthInv, RateInv, NEW m \in network,
         SetGuard(m.peer, Counted(Guard(m.peer))),
         log' = log, clock' = clock, forgotten' = forgotten
  PROVE  RateInv'
<1> DEFINE p == m.peer
<1>1. p \in Peers  BY GuardKnown
<1>2. /\ DOMAIN guards' = DOMAIN guards \cup {p}
      /\ guards'[p] = Counted(Guard(p))
      /\ \A q \in DOMAIN guards : q # p => guards'[q] = guards[q]
  BY DEF SetGuard
<1> HIDE DEF p
<1>3. /\ clock > RateWindow
      /\ \A j \in DOMAIN log : log[j].at <= clock
      /\ RateMax = 0 => log = <<>>
      /\ \A q \in Peers \ DOMAIN guards, j \in DOMAIN log :
           ~(log[j].message.peer = q /\ log[j].age = forgotten[q])
      /\ RateBounded
  BY DEF RateInv
<1>4. ASSUME RateMax > 0, NEW q \in DOMAIN guards'
      PROVE  Window(log, q, forgotten[q], guards'[q], clock)
  <2>1. CASE q = p  BY <1>1, <1>2, <1>4, <2>1, GuardWindow
  <2>2. CASE q # p  BY <1>2, <1>4, <2>2 DEF RateInv
  <2> QED  BY <2>1, <2>2
<1>5. RateBounded'  BY <1>3 DEF RateBounded, SameGuard
<1>6. RateMax > 0 =>
        \A q \in DOMAIN guards' : Window(log', q, forgotten'[q], guards'[q], clock')
  BY <1>4
<1>7. \A q \in Peers \ DOMAIN guards', j \in DOMAIN log' :
        ~(log'[j].message.peer = q /\ log'[j].age = forgotten'[q])
  BY <1>2, <1>3
<1>8. /\ clock' > RateWindow
      /\ \A j \in DOMAIN log' : log'[j].at <= clock'
      /\ RateMax = 0 => log' = <<>>
  BY <1>3
<1> QED  BY <1>5, <1>6, <1>7, <1>8 DEF RateInv

LEMMA DispatchRate ==
  ASSUME AuthInv, RateInv, NEW m \in network, NEW failing, NEW raises \in BOOLEAN,
         Dispatch(m, failing, raises)
  PROVE  RateInv'
<1> DEFINE p == m.peer
           s == m.sequence
           h == Counted(Guard(p))
           g == IF s = NoSequence THEN h ELSE Noted(h, s)
           e == [message |-> m, at |-> clock, age |-> forgotten[p]]
           n == Len(log)
<1>1. /\ clock' = clock /\ forgotten' = forgotten /\ log' = Append(log, e)
      /\ SetGuard(p, g) /\ h.message_count <= RateMax
  BY DEF Dispatch, Receive, WithinRate
<1>2. /\ m \in Messages /\ p \in Peers /\ clock \in Nat /\ GuardOK(h, clock)
      /\ forgotten \in [Peers -> Nat] /\ log \in Seq(Entries)
  BY GuardKnown DEF AuthInv, Types
<1>3. /\ g.rate_limit_window_start = h.rate_limit_window_start
      /\ g.message_count = h.message_count
  <2>1. h = [last_sequence |-> h.last_sequence,
             seen_sequences |-> h.seen_sequences,
             message_count |-> h.message_count,
             rate_limit_window_start |-> h.rate_limit_window_start]
    BY <1>2 DEF GuardOK, GuardRecords
  <2> HIDE DEF h
  <2> QED  BY <2>1 DEF Noted
<1>4. e \in Entries /\ e.message = m /\ e.message.peer = p /\ e.at = clock
      /\ e.age = forgotten[p]
  BY <1>2 DEF Entries
<1>5. RateMax > 0
  BY <1>1, <1>2, AuthAssumption DEF GuardOK, GuardRecords
<1>6. /\ DOMAIN guards' = DOMAIN guards \cup {p} /\ guards'[p] = g
      /\ \A q \in DOMAIN guards : q # p => guards'[q] = guards[q]
  BY <1>1 DEF SetGuard
<1>7. Window(log, p, forgotten[p], h, clock) /\ Room(log, p, forgotten[p], h, clock)
  BY <1>2, <1>5, GuardWindow
<1> HIDE DEF g, e, h
<1>8. Window(log', p, forgotten[p], h, clock)
  BY <1>1, <1>2, <1>4, <1>5, <1>7, DispatchedWindow
<1>9. Window(log', p, forgotten[p], g, clock)
  BY <1>3, <1>8 DEF Window
<1>10. /\ n \in Nat /\ DOMAIN log = 1 .. n /\ DOMAIN log' = 1 .. n + 1
       /\ \A i \in 1 .. n : log'[i] = log[i]
       /\ log'[n + 1] = e /\ log' \in Seq(Entries)
  BY <1>1, <1>2, <1>4
<1> HIDE DEF n
<1>11. \A i \in DOMAIN log' : i \in 1 .. n \/ i = n + 1
  BY <1>10
<1>12. ASSUME NEW q \in DOMAIN guards, q # p
       PROVE  Window(log', q, forgotten[q], guards[q], clock)
  <2>1. Window(log, q, forgotten[q], guards[q], clock)
    BY <1>5, <1>12 DEF RateInv
  <2>2. /\ \A a, b : Span(log', q, forgotten[q], a, b) = Span(log, q, forgotten[q], a, b)
    BY <1>4, <1>10, <1>11, <1>12 DEF Span
  <2>3. \A j \in DOMAIN log' :
          log'[j].message.peer = q => j \in DOMAIN log /\ log'[j] = log[j]
    BY <1>4, <1>10, <1>11, <1>12
  <2> QED  BY <2>1, <2>2, <2>3 DEF Window
<1>13. ASSUME NEW q \in DOMAIN guards'
       PROVE  Window(log', q, forgotten'[q], guards'[q], clock')
  <2>1. CASE q = p  BY <1>1, <1>6, <1>9, <2>1
  <2>2. CASE q # p  BY <1>1, <1>6, <1>12, <2>2
  <2> QED  BY <2>1, <2>2
<1>14. \A j \in DOMAIN log' : log'[j].at <= clock'
  <2>1. \A j \in 1 .. n : log[j].at <= clock  BY <1>10 DEF RateInv
  <2> QED  BY <1>1, <1>2, <1>4, <1>10, <1>11, <2>1
<1>15. ASSUME NEW q \in Peers \ DOMAIN guards', NEW j \in DOMAIN log',
              log'[j].message.peer = q, log'[j].age = forgotten'[q]
       PROVE  FALSE
  <2>1. q # p /\ q \in Peers \ DOMAIN guards  BY <1>6
  <2>2. j \in DOMAIN log /\ log'[j] = log[j]
    BY <1>4, <1>10, <1>11, <1>15, <2>1
  <2> QED  BY <1>1, <1>15, <2>1, <2>2 DEF RateInv
<1>16. RateBounded'
  <2> DEFINE Near(l, i) == {j \in DOMAIN l : /\ SameGuard(l[i], l[j])
                                             /\ l[j].at - l[i].at \in 0 .. RateWindow}
  <2> SUFFICES ASSUME NEW i \in DOMAIN log'
               PROVE  Cardinality(Near(log', i)) < 2 * RateMax
    BY DEF RateBounded, SameGuard
  <2>1. CASE n + 1 \in Near(log', i)
    <3>1. /\ log'[i].message.peer = p /\ log'[i].age = forgotten[p]
          /\ clock - log'[i].at \in 0 .. RateWindow /\ log'[i].at \in Nat
      BY <1>4, <1>10, <2>1, EntryValues DEF SameGuard
    <3>2. \A j \in DOMAIN log' : log'[j].at \in Nat /\ log'[j].at <= clock
      BY <1>1, <1>10, <1>14, EntryValues
    <3>3. Near(log', i) \subseteq Span(log', p, forgotten[p], log'[i].at, clock)
      BY <1>2, <3>1, <3>2 DEF SameGuard, Span
    <3>4. Cardinality(Span(log', p, forgotten[p], log'[i].at, clock)) < 2 * RateMax
      BY <1>2, <1>5, <1>8, <1>10, <3>1, SpanBounded
    <3> HIDE DEF Near
    <3>5. /\ Span(log', p, forgotten[p], log'[i].at, clock) \subseteq DOMAIN log'
          /\ Cardinality(Span(log', p, forgotten[p], log'[i].at, clock)) \in Nat
      BY <1>10, SpanFinite
    <3>6. Cardinality(Near(log', i))
            <= Cardinality(Span(log', p, forgotten[p], log'[i].at, clock))
      BY <1>10, <3>3, <3>5, PartSmaller
    <3>7. Cardinality(Near(log', i)) \in Nat
      BY <1>10, <3>3, <3>5, PartFinite
    <3> QED  BY <3>4, <3>5, <3>6, <3>7, AuthAssumption
  <2>2. CASE n + 1 \notin Near(log', i)
    <3>1. i \in 1 .. n
      <4>1. ASSUME i = n + 1 PROVE FALSE
        <5>1. log'[n + 1].at - log'[n + 1].at \in 0 .. RateWindow
          BY <1>2, <1>4, <1>10, AuthAssumption
        <5> QED  BY <1>10, <2>2, <4>1, <5>1 DEF SameGuard
      <4> QED  BY <1>11, <4>1
    <3>2. Near(log', i) = Near(log, i)
      BY <1>10, <1>11, <2>2, <3>1
    <3>3. Cardinality(Near(log, i)) < 2 * RateMax
      BY <1>10, <3>1 DEF RateInv, RateBounded, SameGuard
    <3> QED  BY <3>2, <3>3
  <2> QED  BY <2>1, <2>2
<1>17. clock' > RateWindow  BY <1>1 DEF RateInv
<1>18. RateMax # 0  BY <1>5
<1> QED  BY <1>13, <1>14, <1>15, <1>16, <1>17, <1>18 DEF RateInv

\* A step that leaves the log alone, and the guards too or throws some away and
\* ages those peers.
LEMMA OtherRate ==
  ASSUME AuthInv, RateInv, log' = log, clock' \in Nat, clock' >= clock,
         forgotten' \in [Peers -> Nat],
         DOMAIN guards' \subseteq DOMAIN guards,
         guards' = [p \in DOMAIN guards' |-> guards[p]],
         \A p \in Peers : \/ forgotten'[p] = forgotten[p]
                             /\ (p \in DOMAIN guards => p \in DOMAIN guards')
                          \/ forgotten'[p] = forgotten[p] + 1
                             /\ p \notin DOMAIN guards'
  PROVE  RateInv'
<1>1. /\ clock \in Nat /\ log \in Seq(Entries) /\ forgotten \in [Peers -> Nat]
      /\ DOMAIN guards \subseteq Peers
  BY DEF AuthInv, Types
<1>2. /\ clock > RateWindow
      /\ \A j \in DOMAIN log : log[j].at <= clock
      /\ RateMax = 0 => log = <<>>
      /\ RateBounded
  BY DEF RateInv
<1>3. \A j \in DOMAIN log : log[j].at \in Nat /\ log[j].age \in Nat
                            /\ log[j].message.peer \in Peers
  BY <1>1, EntryValues
<1>4. clock' > RateWindow /\ \A j \in DOMAIN log' : log'[j].at <= clock'
  BY <1>1, <1>2, <1>3, AuthAssumption
<1>5. ASSUME RateMax > 0, NEW q \in DOMAIN guards'
      PROVE  Window(log', q, forgotten'[q], guards'[q], clock')
  <2>1. /\ q \in DOMAIN guards /\ guards'[q] = guards[q] /\ q \in Peers
        /\ forgotten'[q] = forgotten[q]
    BY <1>1, <1>5
  <2>2. Window(log, q, forgotten[q], guards[q], clock)
    BY <1>5, <2>1 DEF RateInv
  <2>3. ASSUME NEW a
        PROVE  Span(log, q, forgotten[q], a, clock') = Span(log, q, forgotten[q], a, clock)
    <3>1. \A j \in DOMAIN log : log[j].at \in a .. clock' <=> log[j].at \in a .. clock
      BY <1>1, <1>2, <1>3
    <3> QED  BY <3>1 DEF Span
  <2> QED  BY <2>1, <2>2, <2>3 DEF Window
<1>6. ASSUME NEW q \in Peers \ DOMAIN guards', NEW j \in DOMAIN log',
             log'[j].message.peer = q, log'[j].age = forgotten'[q]
      PROVE  FALSE
  <2>1. CASE forgotten'[q] = forgotten[q]
             /\ (q \in DOMAIN guards => q \in DOMAIN guards')
    BY <1>6, <2>1 DEF RateInv
  <2>2. CASE forgotten'[q] = forgotten[q] + 1 /\ q \notin DOMAIN guards'
    <3>1. log[j].age <= forgotten[q]  BY <1>6 DEF AuthInv, Remembered
    <3> QED  BY <1>1, <1>3, <1>6, <2>2, <3>1
  <2> QED  BY <2>1, <2>2
<1>7. RateBounded'  BY <1>2 DEF RateBounded, SameGuard
<1> QED  BY <1>2, <1>4, <1>5, <1>6, <1>7 DEF RateInv

LEMMA InitRate == Init => RateInv
<1> SUFFICES ASSUME Init PROVE RateInv  OBVIOUS
<1>1. /\ clock = RateWindow + 1 /\ log = <<>> /\ DOMAIN guards = {}
      /\ DOMAIN log = {}
  BY DEF Init
<1>2. RateBounded  BY <1>1 DEF RateBounded
<1> QED  BY <1>1, <1>2, AuthAssumption DEF RateInv

LEMMA StepRate == AuthInv /\ RateInv /\ [Next]_vars => RateInv'
<1> SUFFICES ASSUME AuthInv, RateInv, [Next]_vars PROVE RateInv'  OBVIOUS
<1>1. /\ clock \in Nat /\ forgotten \in [Peers -> Nat] /\ DOMAIN guards \subseteq Peers
      /\ guards = [p \in DOMAIN guards |-> guards[p]]
  BY DEF AuthInv, Types
<1>2. ASSUME log' = log, clock' \in {clock, clock + 1}, forgotten' = forgotten,
             guards' = guards
      PROVE  RateInv'
  BY <1>1, <1>2, OtherRate
<1>3. ASSUME NEW m \in network, NEW failing,
             LimitRate(m, failing) \/ RefuseReplay(m, failing)
      PROVE  RateInv'
  <2>1. /\ SetGuard(m.peer, Counted(Guard(m.peer)))
        /\ log' = log /\ clock' = clock /\ forgotten' = forgotten
    BY <1>3 DEF LimitRate, RefuseReplay, Receive
  <2> QED  BY <2>1, CountRate
<1>4. ASSUME NEW p \in Peers, ClearReplayState(p)
      PROVE  RateInv'
  <2>1. /\ log' = log /\ clock' = clock
        /\ forgotten' = [forgotten EXCEPT ![p] = @ + 1]
        /\ guards' = [q \in DOMAIN guards \ {p} |-> guards[q]]
    BY <1>4 DEF ClearReplayState, Restrict
  <2>2. /\ forgotten' \in [Peers -> Nat] /\ forgotten'[p] = forgotten[p] + 1
        /\ \A q \in Peers : q # p => forgotten'[q] = forgotten[q]
    BY <1>1, <2>1
  <2>3. DOMAIN guards' = DOMAIN guards \ {p}  BY <2>1
  <2> QED  BY <1>1, <2>1, <2>2, <2>3, OtherRate
<1>5. CASE Restart
  <2>1. /\ log' = log /\ clock' = clock
        /\ forgotten' = [p \in Peers |-> forgotten[p] + 1]
        /\ guards' = [p \in {} |-> NewGuard]
    BY <1>5 DEF Restart
  <2>2. /\ DOMAIN guards' = {} /\ forgotten' \in [Peers -> Nat]
        /\ guards' = [p \in DOMAIN guards' |-> guards[p]]
    BY <1>1, <2>1
  <2> QED  BY <1>1, <2>1, <2>2, OtherRate
<1>6. ASSUME NEW m \in network, NEW failing, NEW raises \in BOOLEAN,
             Dispatch(m, failing, raises)
      PROVE  RateInv'
  BY <1>6, DispatchRate
<1>7. ASSUME NEW p, NEW s, NEW skew, Send(p, s, skew) PROVE RateInv'
  BY <1>2, <1>7 DEF Send
<1>8. ASSUME NEW m, NEW failing, Refuse(m, failing) PROVE RateInv'
  BY <1>2, <1>8 DEF Refuse, Receive
<1>9. CASE Tick  BY <1>2, <1>9 DEF Tick
<1>10. CASE UNCHANGED vars  BY <1>2, <1>10 DEF vars
<1> QED
  BY <1>3, <1>4, <1>5, <1>6, <1>7, <1>8, <1>9, <1>10 DEF Next

\* Fixed windows: in no span as long as a window does process_message hand on
\* twice the limit of one guard, wherever the span lies.
THEOREM RatesBounded == Spec => []RateBounded
<1>1. RateInv => RateBounded  BY DEF RateInv
<1> QED  BY InitAuth, StepAuth, InitRate, StepRate, <1>1, PTL DEF Spec
=============================================================================
