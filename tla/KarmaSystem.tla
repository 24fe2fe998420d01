----------------------------- MODULE KarmaSystem -----------------------------
(***************************************************************************)
(* Reputation, suspension, eviction, cluster membership and election of    *)
(* zdx_karma_system.py, class ZDXKarmaSystem, with its file and the        *)
(* crashes of the process that holds it.                                   *)
(*                                                                         *)
(* A call changes the memory and then saves everything to one file:        *)
(* write_text empties the file and fills it again.  An eviction leaves one *)
(* cluster at a time and saves after each.  Each save is two steps here,   *)
(* and the process may die, or the write raise, before either of them.     *)
(***************************************************************************)
EXTENDS Integers, FiniteSets

CONSTANTS
  Nodes, Clusters,
  ClusterSize,         \* CLUSTER_SIZE
  Events,              \* KarmaEvent
  Adjustment,          \* KARMA_ADJUSTMENTS: event -> [karma, xp]
  MinXP,               \* NodeLevel: level -> min_xp
  KarmaStart,          \* karma of a node never heard of, 50
  KarmaMax,            \* upper end of the scale, 100
  KarmaFloor,          \* karma factor of a node of no karma, 10 (per cent)
  EvictionKarma,       \* -50
  Suspension,          \* SUSPENSION_DURATION, in units of the clock
  DecayPeriod,         \* INACTIVITY_DECAY_PERIOD, in units of the clock
  DecayPercent,        \* INACTIVITY_DECAY_RATE, 15
  MaxClock, MaxCalls, MaxCrashes, MaxFailures    \* bounds

Levels == {"TRUSTEE", "CONTRIBUTOR", "VALIDATOR", "SENTINEL", "MASTER"}

NoNode == "none"
NoTime == -1
Revocation == "revocation_violation"
CycleDone  == "compute_cycle_completed"

ASSUME KarmaAssumption ==
  /\ NoNode \notin Nodes
  /\ ClusterSize \in Nat
  /\ {Revocation, CycleDone} \subseteq Events
  /\ Adjustment \in [Events -> [karma : Int, xp : Int]]
  /\ MinXP \in [Levels -> Nat]
  /\ \A l \in Levels : MinXP[l] = 0 <=> l = "TRUSTEE"
  /\ KarmaMax \in Nat /\ KarmaStart \in 0 .. KarmaMax
  /\ KarmaFloor \in Nat /\ EvictionKarma \in Int
  /\ Suspension \in Nat /\ DecayPeriod \in Nat \ {0}
  /\ DecayPercent \in 0 .. 100
  /\ {MaxClock, MaxCalls, MaxCrashes, MaxFailures} \subseteq Nat

\* KarmaScore.  The event log, suspension_queue, the statistics of a membership
\* and the time of the last event are written but never read, and left out.
Scores == [karma : 0 .. KarmaMax, total_experience : Nat, level : Levels,
           last_activity_time : Nat, suspension_status : BOOLEAN,
           suspension_time : Nat \cup {NoTime}, eviction_pending : BOOLEAN,
           consecutive_violations : Nat,
           cluster_memberships : SUBSET Clusters]

VARIABLES
  scores,            \* node -> score, for the nodes heard of
  clusters,          \* cluster -> its nodes
  eviction_queue,    \* evicted nodes
  disk,              \* persistence_path: [state, data]
  pc,                \* where the call is: idle, evict, decay, decayed, save, write
  subject,           \* node being evicted or decayed
  periods,           \* decay periods left to apply
  elected,           \* answer of the last election: [call, cluster, node]
  clock,             \* time.time(), never 0 as in the code
  calls, crashes, failures

memory   == <<scores, clusters, eviction_queue>>
progress == <<pc, subject, periods>>
counters == <<calls, crashes, failures>>
vars     == <<scores, clusters, eviction_queue, disk, pc, subject, periods,
              elected, clock, calls, crashes, failures>>

\* _compute_level: the levels are tried from the highest down.
ComputeLevel(xp) ==
  IF xp >= MinXP["MASTER"] THEN "MASTER"
  ELSE IF xp >= MinXP["SENTINEL"] THEN "SENTINEL"
  ELSE IF xp >= MinXP["VALIDATOR"] THEN "VALIDATOR"
  ELSE IF xp >= MinXP["CONTRIBUTOR"] THEN "CONTRIBUTOR" ELSE "TRUSTEE"

NewScore ==
  [karma |-> KarmaStart, total_experience |-> 0, level |-> "TRUSTEE",
   last_activity_time |-> 0, suspension_status |-> FALSE,
   suspension_time |-> NoTime, eviction_pending |-> FALSE,
   consecutive_violations |-> 0, cluster_memberships |-> {}]

\* get_score, and scores with the score of one node written.
Score(n)   == IF n \in DOMAIN scores THEN scores[n] ELSE NewScore
With(n, s) == [m \in DOMAIN scores \cup {n} |-> IF m = n THEN s ELSE scores[m]]

\* The property is_suspended: reading it lifts a suspension that is over.
Over(s) == /\ s.suspension_status /\ s.suspension_time # NoTime
           /\ clock - s.suspension_time > Suspension
Lifted(s) == IF Over(s)
             THEN [s EXCEPT !.suspension_status = FALSE,
                            !.consecutive_violations = 0]
             ELSE s

\* can_participate: the score it leaves behind, and its answer.  The eviction
\* queue is looked at first: the suspension of an evicted node is not lifted.
Asked(n)          == IF n \in eviction_queue THEN Score(n) ELSE Lifted(Score(n))
CanParticipate(n) == /\ n \notin eviction_queue
                     /\ ~Lifted(Score(n)).suspension_status
                     /\ Score(n).karma > 0

\* mass, with the karma factor in per cent; the factor of the level is the same
\* for all the candidates of an election.
CandidateMass(s) ==
  s.total_experience * (IF s.karma > KarmaFloor THEN s.karma ELSE KarmaFloor)

-----------------------------------------------------------------------------
(* The file.                                                               *)

Snapshot == [scores |-> scores, clusters |-> clusters,
             eviction_queue |-> eviction_queue]

Nothing == [scores |-> [n \in {} |-> NewScore],
            clusters |-> [c \in Clusters |-> {}], eviction_queue |-> {}]

\* load: a file that is absent, or that json cannot read, gives an empty state.
Loaded(d) == IF d.state = "ok" THEN d.data ELSE Nothing

Init ==
  /\ disk = [state |-> "absent", data |-> Nothing]
  /\ scores = Nothing.scores /\ clusters = Nothing.clusters
  /\ eviction_queue = {}
  /\ pc = "idle" /\ subject = NoNode /\ periods = 0
  /\ elected = [call |-> 0, cluster |-> NoNode, node |-> NoNode]
  /\ clock = 1
  /\ calls = 0 /\ crashes = 0 /\ failures = 0

\* A public method is called.
Call ==
  /\ pc = "idle" /\ calls < MaxCalls
  /\ calls' = calls + 1
  /\ UNCHANGED <<disk, clock, crashes, failures>>

Return == UNCHANGED <<progress, elected>>
ThenSave == pc' = "save" /\ UNCHANGED <<subject, periods, elected>>

-----------------------------------------------------------------------------
(* report_event.                                                           *)

Clamp(k) == IF k < 0 THEN 0 ELSE IF k > KarmaMax THEN KarmaMax ELSE k

Evicts(s, e) ==
  Clamp(s.karma + Adjustment[e].karma) <= EvictionKarma \/ e = Revocation

\* The score s of a node after the event e.
AfterEvent(s, e, severe) ==
  LET adj     == Adjustment[e]
      k       == Clamp(s.karma + adj.karma)
      xp      == IF s.total_experience + adj.xp > 0
                 THEN s.total_experience + adj.xp ELSE 0
      strikes == s.consecutive_violations + (IF adj.karma < 0 THEN 1 ELSE 0)
      suspend == k <= 0 \/ (strikes >= 3 /\ severe)
  IN  [s EXCEPT !.karma = k, !.total_experience = xp,
                !.level = ComputeLevel(xp), !.last_activity_time = clock,
                !.consecutive_violations = strikes,
                !.suspension_status = suspend \/ @,
                !.suspension_time = IF suspend THEN clock ELSE @,
                !.eviction_pending = Evicts(s, e) \/ @]

\* report_event on the score s of n; register_cluster_activity calls it too.
Apply(n, s, e, severe) ==
  /\ scores' = With(n, AfterEvent(s, e, severe))
  /\ IF Evicts(s, e)
     THEN /\ eviction_queue' = eviction_queue \cup {n}
          /\ pc' = "evict" /\ subject' = n
          /\ UNCHANGED <<periods, elected>>
     ELSE ThenSave /\ UNCHANGED eviction_queue

ReportEvent(n, e, severe) ==
  /\ Call
  /\ Apply(n, Score(n), e, severe)
  /\ UNCHANGED clusters

\* Mutant of LeaveNext: the cluster keeps the node.
LeaveNextHalf(c) ==
  /\ pc = "evict" /\ c \in scores[subject].cluster_memberships
  /\ scores' = [scores EXCEPT ![subject].cluster_memberships = @ \ {c}]
  /\ pc' = "save"
  /\ UNCHANGED <<clusters, eviction_queue, disk, subject, periods, elected, clock,
                 counters>>

\* _mark_eviction goes on: the node leaves its clusters one at a time, and the
\* state is saved after each.
LeaveNext(c) ==
  /\ pc = "evict" /\ c \in scores[subject].cluster_memberships
  /\ scores' = [scores EXCEPT ![subject].cluster_memberships = @ \ {c}]
  /\ clusters' = [clusters EXCEPT ![c] = @ \ {subject}]
  /\ pc' = "save"
  /\ UNCHANGED <<eviction_queue, disk, subject, periods, elected, clock, counters>>

\* Mutant of EvictionDone: the save at the end of report_event is missing.
EvictionDoneUnsaved ==
  /\ pc = "evict" /\ scores[subject].cluster_memberships = {}
  /\ pc' = "idle" /\ subject' = NoNode
  /\ UNCHANGED <<memory, disk, periods, elected, clock, counters>>

EvictionDone ==
  /\ pc = "evict" /\ scores[subject].cluster_memberships = {}
  /\ pc' = "save" /\ subject' = NoNode
  /\ UNCHANGED <<memory, disk, periods, elected, clock, counters>>

-----------------------------------------------------------------------------
(* Clusters.                                                               *)

Member(s, c) == [s EXCEPT !.cluster_memberships = @ \cup {c}]

\* register_cluster_activity: neither the capacity nor the eviction queue is
\* looked at, and without a completed cycle nothing is saved.  The activity time
\* it sets once more after the event is taken to be that of the event.
RegisterActivity(n, c, cycle) ==
  /\ Call
  /\ clusters' = IF c \in Score(n).cluster_memberships THEN clusters
                 ELSE [clusters EXCEPT ![c] = @ \cup {n}]
  /\ IF cycle
     THEN Apply(n, Member(Score(n), c), CycleDone, FALSE)
     ELSE /\ scores' = With(n, [Member(Score(n), c) EXCEPT
                                  !.last_activity_time = clock])
          /\ Return /\ UNCHANGED eviction_queue

JoinCluster(n, c) ==
  /\ Call
  /\ IF /\ CanParticipate(n)
        /\ Cardinality(clusters[c]) < ClusterSize
        /\ c \notin Score(n).cluster_memberships
     THEN /\ scores' = With(n, Member(Asked(n), c))
          /\ clusters' = [clusters EXCEPT ![c] = @ \cup {n}]
          /\ ThenSave
     ELSE /\ scores' = With(n, Asked(n))
          /\ Return /\ UNCHANGED clusters
  /\ UNCHANGED eviction_queue

LeaveCluster(n, c) ==
  /\ Call
  /\ n \in DOMAIN scores /\ c \in scores[n].cluster_memberships
  /\ scores' = [scores EXCEPT ![n].cluster_memberships = @ \ {c}]
  /\ clusters' = [clusters EXCEPT ![c] = @ \ {n}]
  /\ ThenSave
  /\ UNCHANGED eviction_queue

\* can_participate, and what is built on it.
Query(n) ==
  /\ Call
  /\ scores' = With(n, Asked(n))
  /\ Return
  /\ UNCHANGED <<clusters, eviction_queue>>

\* Mutant of Candidates: evicted nodes are not left out.
CandidatesWithEvicted(c) ==
  {n \in clusters[c] : /\ Score(n).level = "MASTER"
                       /\ ~Lifted(Score(n)).suspension_status
                       /\ Score(n).karma > 0}

\* elect_master_node.  The candidates are sorted by mass; nodes of the same mass
\* come in the order of the set, which is any.
Candidates(c) ==
  {n \in clusters[c] : /\ Score(n).level = "MASTER"
                       /\ ~Lifted(Score(n)).suspension_status
                       /\ ~Score(n).eviction_pending
                       /\ Score(n).karma > 0}

Elect(c) ==
  /\ Call
  /\ scores' = [n \in DOMAIN scores \cup clusters[c] |->
                  IF n \in clusters[c] /\ Score(n).level = "MASTER"
                  THEN Lifted(Score(n)) ELSE Score(n)]
  /\ \E n \in Candidates(c) \cup {NoNode} :
       /\ n = NoNode <=> Candidates(c) = {}
       /\ \A m \in Candidates(c) :
            CandidateMass(Score(m)) <= CandidateMass(Score(n))
       /\ elected' = [call |-> calls + 1, cluster |-> c, node |-> n]
  /\ UNCHANGED <<clusters, eviction_queue, progress>>

-----------------------------------------------------------------------------
(* apply_inactivity_decay: one period per step.                            *)

DecayStart(n) ==
  /\ Call
  /\ n \in DOMAIN scores
  /\ clock - scores[n].last_activity_time >= DecayPeriod
  /\ pc' = "decay" /\ subject' = n
  /\ periods' = (clock - scores[n].last_activity_time) \div DecayPeriod
  /\ UNCHANGED <<memory, elected>>

Decayed(xp) == xp - (xp * DecayPercent) \div 100

\* Mutant of DecayOnce: one period too many.
DecayOnceMore ==
  /\ pc \in {"decay", "decayed"}
  /\ scores' = [scores EXCEPT ![subject].total_experience = Decayed(@)]
  /\ pc' = IF scores' = scores THEN pc ELSE "decayed"
  /\ periods' = periods - 1
  /\ UNCHANGED <<clusters, eviction_queue, disk, subject, elected, clock, counters>>

\* pc is "decayed" once something was lost.
DecayOnce ==
  /\ pc \in {"decay", "decayed"} /\ periods > 0
  /\ scores' = [scores EXCEPT ![subject].total_experience = Decayed(@)]
  /\ pc' = IF scores' = scores THEN pc ELSE "decayed"
  /\ periods' = periods - 1
  /\ UNCHANGED <<clusters, eviction_queue, disk, subject, elected, clock, counters>>

DecayDone ==
  /\ pc \in {"decay", "decayed"} /\ periods = 0
  /\ scores' = [scores EXCEPT
                  ![subject].level = ComputeLevel(scores[subject].total_experience)]
  /\ pc' = IF pc = "decayed" THEN "save" ELSE "idle"
  /\ subject' = NoNode
  /\ UNCHANGED <<clusters, eviction_queue, disk, periods, elected, clock, counters>>

-----------------------------------------------------------------------------
(* save, time, and the process.                                            *)

SaveOpen ==
  /\ pc = "save"
  /\ disk' = [disk EXCEPT !.state = "corrupt"] /\ pc' = "write"
  /\ UNCHANGED <<memory, subject, periods, elected, clock, counters>>

SaveWrite ==
  /\ pc = "write"
  /\ disk' = [state |-> "ok", data |-> Snapshot]
  /\ pc' = IF subject = NoNode THEN "idle" ELSE "evict"
  /\ UNCHANGED <<memory, subject, periods, elected, clock, counters>>

\* write_text raises: the exception leaves the call where it is, and the memory
\* keeps what was changed.
SaveFails ==
  /\ pc \in {"save", "write"} /\ failures < MaxFailures
  /\ failures' = failures + 1
  /\ pc' = "idle" /\ subject' = NoNode
  /\ UNCHANGED <<memory, disk, periods, elected, clock, calls, crashes>>

Tick ==
  /\ clock < MaxClock /\ clock' = clock + 1
  /\ UNCHANGED <<memory, disk, progress, elected, counters>>

Restart ==
  /\ crashes < MaxCrashes /\ crashes' = crashes + 1
  /\ scores' = Loaded(disk).scores /\ clusters' = Loaded(disk).clusters
  /\ eviction_queue' = Loaded(disk).eviction_queue
  /\ pc' = "idle" /\ subject' = NoNode
  /\ UNCHANGED <<disk, periods, elected, clock, calls, failures>>

Next ==
  \/ \E n \in Nodes, e \in Events, severe \in BOOLEAN : ReportEvent(n, e, severe)
  \/ \E n \in Nodes, c \in Clusters :
       \/ JoinCluster(n, c) \/ LeaveCluster(n, c)
       \/ \E cycle \in BOOLEAN : RegisterActivity(n, c, cycle)
  \/ \E n \in Nodes : Query(n) \/ DecayStart(n)
  \/ \E c \in Clusters : LeaveNext(c) \/ Elect(c)
  \/ EvictionDone \/ DecayOnce \/ DecayDone
  \/ SaveOpen \/ SaveWrite \/ SaveFails
  \/ Tick \/ Restart

Spec == Init /\ [][Next]_vars

-----------------------------------------------------------------------------
(* Properties.                                                             *)

\* The values of the variables; a call that concerns a node names it.
TypeOK ==
  /\ DOMAIN scores \subseteq Nodes /\ scores \in [DOMAIN scores -> Scores]
  /\ clusters \in [Clusters -> SUBSET Nodes]
  /\ eviction_queue \subseteq Nodes
  /\ disk.state \in {"absent", "corrupt", "ok"}
  /\ pc \in {"idle", "evict", "decay", "decayed", "save", "write"}
  /\ subject \in DOMAIN scores \cup {NoNode}
  /\ pc \in {"evict", "decay", "decayed"} => subject \in DOMAIN scores
  /\ periods \in Nat
  /\ clock \in Nat
  /\ calls \in Nat /\ crashes \in Nat /\ failures \in Nat

\* Membership is kept twice, in the score of a node and in the clusters.
MembershipAgrees(m) ==
  \A n \in Nodes, c \in Clusters :
    n \in m.clusters[c] <=>
      n \in DOMAIN m.scores /\ c \in m.scores[n].cluster_memberships

\* So is eviction: can_participate reads the queue, an election the score.
EvictionAgrees(m) ==
  \A n \in Nodes :
    n \in m.eviction_queue <=>
      n \in DOMAIN m.scores /\ m.scores[n].eviction_pending

\* A suspension is lifted late, never early: a node whose last suspension is
\* less than Suspension old is suspended.
SuspensionAgrees(m) ==
  \A n \in DOMAIN m.scores :
    LET s == m.scores[n]
    IN  /\ s.suspension_status => s.suspension_time # NoTime
        /\ s.suspension_time # NoTime
           /\ clock - s.suspension_time <= Suspension => s.suspension_status

\* The level is the one of the experience; while a decay is under way the level
\* of the node it is about may lag behind.
LevelsAgree(m, lagging) ==
  \A n \in DOMAIN m.scores \ lagging :
    m.scores[n].level = ComputeLevel(m.scores[n].total_experience)

\* What is kept twice agrees, in memory at every point of every call, and in any
\* file a restart may find: after a crash or a failed save between the steps of
\* an eviction no node is half in a cluster or half evicted.
Consistent ==
  /\ \A m \in {Snapshot, Loaded(disk)} :
       MembershipAgrees(m) /\ EvictionAgrees(m) /\ SuspensionAgrees(m)
  /\ LevelsAgree(Loaded(disk), {})
  /\ LevelsAgree(Snapshot, IF pc \in {"decay", "decayed"} THEN {subject} ELSE {})

\* The nodes the documentation lets lead cluster c: experience of a MASTER,
\* positive karma, not evicted, not suspended in the last 24 hours.
Eligible(n, c) ==
  /\ n \in clusters[c] /\ n \notin eviction_queue
  /\ ComputeLevel(scores[n].total_experience) = "MASTER"
  /\ scores[n].karma > 0
  /\ \/ scores[n].suspension_time = NoTime
     \/ clock - scores[n].suspension_time > Suspension

\* An election answers an eligible node no eligible node outweighs, and nobody
\* only when nobody is eligible -- although it decides on the cached level, on
\* the flags of the score and on suspensions lifted as they are read.
ElectionSound ==
  [][elected' # elected =>
       LET c == elected'.cluster
           n == elected'.node
       IN  /\ n = NoNode <=> \A m \in Nodes : ~Eligible(m, c)
           /\ n # NoNode =>
                /\ Eligible(n, c)
                /\ \A m \in Nodes : Eligible(m, c) =>
                     CandidateMass(scores[m]) <= CandidateMass(scores[n])]_vars

\* "Permanent eviction", as far as the code keeps it.  Only a restart forgets an
\* evicted node.  It forgets all of them, however old, when it finds a save cut
\* off by a crash or an exception; otherwise it forgets a node that was never in
\* the file, because the call that evicts it has not returned or a save raised.
EvictionLasts ==
  [][\A n \in eviction_queue \ eviction_queue' :
       \/ disk.state = "corrupt"
       \/ /\ n \notin disk.data.eviction_queue
          /\ pc \in {"evict", "save", "write"} \/ failures > 0]_vars

\* "Evicted nodes removed from all clusters".
EvictedLeft ==
  pc = "idle" => \A c \in Clusters : clusters[c] \cap eviction_queue = {}
=============================================================================
