----------------------------- MODULE AuthPipeline -----------------------------
(***************************************************************************)
(* zdx_auth_pipeline.py: the stages a message passes before it is handled, *)
(* the guard kept for each peer, and the network the messages come from,   *)
(* which loses, delays, reorders and repeats them.                         *)
(*                                                                         *)
(* process_message is one step: the pipeline has no thread of its own and  *)
(* waits for nothing.  The protocol version is the caller's, and the       *)
(* signature, revocation and enrollment callbacks are external: a call is  *)
(* given the set of those stages its message does not pass.                *)
(***************************************************************************)
EXTENDS Integers, Sequences, FiniteSets, Functions

CONSTANTS
  Peers,
  MaxMessageAge,       \* MAX_MESSAGE_AGE, in units of the clock
  SequenceWindow,      \* SEQUENCE_WINDOW
  RateWindow,          \* RATE_LIMIT_WINDOW, in units of the clock
  RateMax,             \* RATE_LIMIT_MAX_MESSAGES
  Skews,               \* clock of a peer minus the clock here
  MaxSequence, MaxMessages, MaxClock, MaxReceived, MaxForgotten    \* bounds

NoSequence == -1

\* The stages that keep no state, in their order.
Stages == << "protocol_version", "timestamp", "signature_verification",
             "revocation_check", "enrollment_check" >>

ASSUME AuthAssumption ==
  /\ MaxMessageAge \in Nat /\ SequenceWindow \in Nat
  /\ RateWindow \in Nat /\ RateMax \in Nat
  /\ Skews \subseteq Int
  /\ {MaxSequence, MaxMessages, MaxClock, MaxReceived, MaxForgotten}
       \subseteq Nat

\* The part of a message the stages look at.
Messages == [peer : Peers, sequence : Nat \cup {NoSequence}, timestamp : Int]

\* A call of dispatch_handler.
Entries == [message : Messages, at : Nat, age : Nat]

VARIABLES
  network,        \* messages sent; any may arrive, at any time, any number of times
  guards,         \* _replay_guards: peer -> ReplayGuardState
  clock,          \* time.time()
  result,         \* last call: [message, outcome]
  log,            \* calls of dispatch_handler
  received,       \* calls of process_message
  forgotten       \* peer -> times its guard was thrown away

vars == <<network, guards, clock, result, log, received, forgotten>>

NewGuard == [last_sequence |-> NoSequence, seen_sequences |-> {},
             message_count |-> 0, rate_limit_window_start |-> 0]

\* _replay_guards is a defaultdict.
Guard(p) == IF p \in DOMAIN guards THEN guards[p] ELSE NewGuard
SetGuard(p, g) == guards' = [q \in DOMAIN guards \cup {p} |->
                               IF q = p THEN g ELSE guards[q]]

\* Mutant of Counted: a window that ends one time unit early.
CountedEarly(g) ==
  IF clock - g.rate_limit_window_start >= RateWindow
  THEN [g EXCEPT !.rate_limit_window_start = clock, !.message_count = 1]
  ELSE [g EXCEPT !.message_count = @ + 1]

\* check_and_update_rate_limit: the guard it leaves.
Counted(g) ==
  IF clock - g.rate_limit_window_start > RateWindow
  THEN [g EXCEPT !.rate_limit_window_start = clock, !.message_count = 1]
  ELSE [g EXCEPT !.message_count = @ + 1]

WithinRate(g) == Counted(g).message_count <= RateMax

\* check_sequence: its answer, and the guard left by a sequence it accepts.
IsNew(g, s) == s > g.last_sequence /\ s \notin g.seen_sequences

Kept(g, s) ==
  IF s > g.last_sequence + SequenceWindow THEN {} ELSE g.seen_sequences

\* Mutant of Noted: the last sequence is not moved on after a large gap.
NotedInWindow(g, s) ==
  [g EXCEPT !.seen_sequences = Kept(g, s) \cup {s},
            !.last_sequence =
               IF s > g.last_sequence + SequenceWindow THEN @ ELSE s]

Noted(g, s) == [g EXCEPT !.seen_sequences = Kept(g, s) \cup {s},
                         !.last_sequence = s]

-----------------------------------------------------------------------------
\* Time starts far from 0, the rate_limit_window_start of a new guard.
Init ==
  /\ network = {} /\ guards = [p \in {} |-> NewGuard]
  /\ clock = RateWindow + 1
  /\ result = [message |-> NoSequence, outcome |-> "none"]
  /\ log = <<>> /\ received = 0
  /\ forgotten = [p \in Peers |-> 0]

\* A peer numbers its messages upwards, or not at all.
Send(p, s, skew) ==
  /\ Cardinality(network) < MaxMessages
  /\ \A m \in network : m.peer = p => m.sequence < s \/ s = NoSequence
  /\ network' = network \cup
                  {[peer |-> p, sequence |-> s, timestamp |-> clock + skew]}
  /\ UNCHANGED <<guards, clock, result, log, received, forgotten>>

Age(m) == IF clock >= m.timestamp THEN clock - m.timestamp
          ELSE m.timestamp - clock

\* The stages, by number, that refuse m.
Refusing(m, failing) ==
  {i \in DOMAIN Stages : \/ Stages[i] \in failing
                         \/ Stages[i] = "timestamp" /\ Age(m) > MaxMessageAge}

Receive(m, outcome) ==
  /\ received < MaxReceived /\ received' = received + 1
  /\ result' = [message |-> m, outcome |-> outcome]
  /\ UNCHANGED <<network, clock, forgotten>>

\* Stages 1 to 5: the first that fails refuses the message.
Refuse(m, failing) ==
  \E i \in Refusing(m, failing) :
    /\ \A j \in Refusing(m, failing) : i <= j
    /\ Receive(m, Stages[i])
    /\ UNCHANGED <<guards, log>>

\* Mutant of LimitRate: the sequence is checked, and noted, before the rate.
LimitRateLate(m, failing) ==
  /\ Refusing(m, failing) = {}
  /\ ~WithinRate(Guard(m.peer))
  /\ SetGuard(m.peer,
              IF m.sequence # NoSequence /\ IsNew(Guard(m.peer), m.sequence)
              THEN Noted(Counted(Guard(m.peer)), m.sequence)
              ELSE Counted(Guard(m.peer)))
  /\ Receive(m, "rate_limit")
  /\ UNCHANGED log

\* Stage 6a: what is refused is counted, and its sequence is not used up.
LimitRate(m, failing) ==
  /\ Refusing(m, failing) = {}
  /\ ~WithinRate(Guard(m.peer))
  /\ SetGuard(m.peer, Counted(Guard(m.peer)))
  /\ Receive(m, "rate_limit")
  /\ UNCHANGED log

\* Stage 6b.
RefuseReplay(m, failing) ==
  /\ Refusing(m, failing) = {}
  /\ WithinRate(Guard(m.peer))
  /\ m.sequence # NoSequence /\ ~IsNew(Guard(m.peer), m.sequence)
  /\ SetGuard(m.peer, Counted(Guard(m.peer)))
  /\ Receive(m, "replay_protection")
  /\ UNCHANGED log

\* Stage 7: an exception of the handler leaves the pipeline with the sequence
\* used up.
Dispatch(m, failing, raises) ==
  /\ Refusing(m, failing) = {}
  /\ WithinRate(Guard(m.peer))
  /\ m.sequence = NoSequence \/ IsNew(Guard(m.peer), m.sequence)
  /\ SetGuard(m.peer, IF m.sequence = NoSequence THEN Counted(Guard(m.peer))
                      ELSE Noted(Counted(Guard(m.peer)), m.sequence))
  /\ Receive(m, IF raises THEN "handler_raised" ELSE "dispatched")
  /\ log' = Append(log, [message |-> m, at |-> clock,
                         age |-> forgotten[m.peer]])

\* clear_replay_state.
ClearReplayState(p) ==
  /\ p \in DOMAIN guards /\ forgotten[p] < MaxForgotten
  /\ guards' = Restrict(guards, DOMAIN guards \ {p})
  /\ forgotten' = [forgotten EXCEPT ![p] = @ + 1]
  /\ UNCHANGED <<network, clock, result, log, received>>

\* The process starts again: the guards were only in memory.
Restart ==
  /\ \A p \in Peers : forgotten[p] < MaxForgotten
  /\ guards' = [p \in {} |-> NewGuard]
  /\ forgotten' = [p \in Peers |-> forgotten[p] + 1]
  /\ UNCHANGED <<network, clock, result, log, received>>

Tick ==
  /\ clock < MaxClock /\ clock' = clock + 1
  /\ UNCHANGED <<network, guards, result, log, received, forgotten>>

Next ==
  \/ \E p \in Peers, s \in 0 .. MaxSequence \cup {NoSequence}, skew \in Skews :
       Send(p, s, skew)
  \/ \E m \in network, failing \in SUBSET (Range(Stages) \ {"timestamp"}) :
       \/ Refuse(m, failing)
       \/ LimitRate(m, failing)
       \/ RefuseReplay(m, failing)
       \/ \E raises \in BOOLEAN : Dispatch(m, failing, raises)
  \/ \E p \in Peers : ClearReplayState(p)
  \/ Restart \/ Tick

Spec == Init /\ [][Next]_vars

-----------------------------------------------------------------------------
(* Properties.                                                             *)

\* The values of the variables; the newest sequence seen is the last one.
TypeOK ==
  /\ network \subseteq Messages
  /\ DOMAIN guards \subseteq Peers
  /\ \A p \in DOMAIN guards :
       /\ guards[p] = [last_sequence |-> guards[p].last_sequence,
                       seen_sequences |-> guards[p].seen_sequences,
                       message_count |-> guards[p].message_count,
                       rate_limit_window_start |->
                         guards[p].rate_limit_window_start]
       /\ guards[p].last_sequence \in guards[p].seen_sequences \cup {NoSequence}
       /\ guards[p].seen_sequences \subseteq 0 .. guards[p].last_sequence
       /\ guards[p].message_count \in Nat \ {0}
       /\ guards[p].rate_limit_window_start \in 0 .. clock
  /\ clock \in Nat /\ received \in Nat
  /\ log \in Seq(Entries)
  /\ forgotten \in [Peers -> Nat]

Numbered(e) == e.message.sequence # NoSequence
SameGuard(e, f) == e.message.peer = f.message.peer /\ e.age = f.age

\* However the network repeats, delays and reorders, one guard hands on the
\* numbered messages of its peer at most once and in their order; and none is
\* handed on, by any guard, more than MaxMessageAge away from its timestamp.
AtMostOnceInOrder ==
  \A j \in DOMAIN log :
    /\ \A i \in 1 .. j - 1 :
         Numbered(log[i]) /\ Numbered(log[j]) /\ SameGuard(log[i], log[j]) =>
           log[i].message.sequence < log[j].message.sequence
    /\ log[j].at - log[j].message.timestamp \in -MaxMessageAge .. MaxMessageAge

\* A message is refused as a replay only when this or a later one of its peer
\* has been handed on: one the rate limit refused may be sent again.
ReplayMeansHandled ==
  [][result'.outcome = "replay_protection" /\ received' # received =>
       LET m == result'.message
       IN  \E i \in DOMAIN log :
             /\ log[i].message.peer = m.peer
             /\ log[i].age = forgotten[m.peer]
             /\ log[i].message.sequence >= m.sequence]_vars

\* In no span of RateWindow does one guard hand on twice RateMax messages: the
\* windows are fixed, so a span may have one window's limit and, but for the
\* message that opened it, that of the window before.
RateBounded ==
  \A i \in DOMAIN log :
    Cardinality({j \in DOMAIN log :
                   /\ SameGuard(log[i], log[j])
                   /\ log[j].at - log[i].at \in 0 .. RateWindow}) < 2 * RateMax
=============================================================================
