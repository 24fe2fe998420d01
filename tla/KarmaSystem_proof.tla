-------------------------- MODULE KarmaSystem_proof --------------------------
(***************************************************************************)
(* Proofs about KarmaSystem, for any nodes, clusters, events and scales.   *)
(***************************************************************************)
EXTENDS KarmaSystem, FiniteSetTheorems, TLAPS

USE DEF NoNode, NoTime

\* A state as the memory or the file holds one.
StateOK(m) ==
  /\ DOMAIN m.scores \subseteq Nodes /\ m.scores \in [DOMAIN m.scores -> Scores]
  /\ m.clusters \in [Clusters -> SUBSET Nodes]
  /\ m.eviction_queue \subseteq Nodes

Agrees(m) == MembershipAgrees(m) /\ EvictionAgrees(m) /\ SuspensionAgrees(m)

Lagging == IF pc \in {"decay", "decayed"} THEN {subject} ELSE {}

\* What is in the file agrees even while the file cannot be read: a write that
\* is cut off leaves in disk.data what was saved before.
KarmaInv ==
  /\ TypeOK
  /\ disk = [state |-> disk.state, data |-> disk.data]
  /\ StateOK(disk.data) /\ Agrees(disk.data) /\ LevelsAgree(disk.data, {})
  /\ Agrees(Snapshot) /\ LevelsAgree(Snapshot, Lagging)

LEMMA LevelType ==
  ASSUME NEW xp
  PROVE  ComputeLevel(xp) \in Levels
BY DEF ComputeLevel, Levels

LEMMA NewScoreType ==
  /\ NewScore \in Scores
  /\ NewScore.level = ComputeLevel(NewScore.total_experience)
  /\ NewScore.cluster_memberships = {} /\ ~NewScore.eviction_pending
  /\ ~NewScore.suspension_status /\ NewScore.suspension_time = NoTime
BY KarmaAssumption DEF NewScore, Scores, Levels, ComputeLevel

LEMMA NothingOK ==
  StateOK(Nothing) /\ Agrees(Nothing) /\ LevelsAgree(Nothing, {})
BY DEF Nothing, StateOK, Agrees, MembershipAgrees, EvictionAgrees,
       SuspensionAgrees, LevelsAgree

LEMMA InitKarma == Init => KarmaInv
<1> SUFFICES ASSUME Init PROVE KarmaInv  OBVIOUS
<1>1. Snapshot = Nothing  BY DEF Init, Snapshot, Nothing
<1>2. TypeOK
  BY KarmaAssumption, NothingOK DEF Init, TypeOK, StateOK, Nothing
<1> QED
  BY <1>1, <1>2, NothingOK DEF Init, KarmaInv, Lagging, LevelsAgree

LEMMA DecayedType ==
  ASSUME NEW xp \in Nat
  PROVE  Decayed(xp) \in Nat
<1>1. DecayPercent \in Nat /\ DecayPercent <= 100  BY KarmaAssumption
<1>2. xp * DecayPercent \in Nat /\ xp * DecayPercent <= xp * 100
  BY <1>1
<1>3. (xp * DecayPercent) \div 100 \in Nat /\ (xp * DecayPercent) \div 100 <= xp
  BY <1>2
<1> QED  BY <1>3 DEF Decayed

-----------------------------------------------------------------------------
(* Scores.                                                                 *)

Timely(s) ==
  /\ s.suspension_status => s.suspension_time # NoTime
  /\ s.suspension_time # NoTime /\ clock - s.suspension_time <= Suspension
       => s.suspension_status

Leveled(s) == s.level = ComputeLevel(s.total_experience)

LEMMA ScoreOK ==
  ASSUME KarmaInv, NEW n \in Nodes, pc = "idle"
  PROVE  /\ Score(n) \in Scores /\ Timely(Score(n)) /\ Leveled(Score(n))
         /\ \A c \in Clusters :
              n \in clusters[c] <=> c \in Score(n).cluster_memberships
         /\ n \in eviction_queue <=> Score(n).eviction_pending
BY NewScoreType
   DEF KarmaInv, TypeOK, Agrees, MembershipAgrees, EvictionAgrees,
       SuspensionAgrees, LevelsAgree, Lagging, Snapshot, Score, Timely, Leveled

LEMMA LiftedOK ==
  ASSUME NEW s \in Scores, Timely(s), clock \in Nat
  PROVE  /\ Lifted(s) \in Scores /\ Timely(Lifted(s))
         /\ Lifted(s).level = s.level
         /\ Lifted(s).total_experience = s.total_experience
         /\ Lifted(s).cluster_memberships = s.cluster_memberships
         /\ Lifted(s).eviction_pending = s.eviction_pending
         /\ Lifted(s).karma = s.karma
         /\ Lifted(s).suspension_time = s.suspension_time
<1>1. CASE ~Over(s)  BY <1>1 DEF Lifted
<1>2. CASE Over(s)
  <2>1. Lifted(s) = [karma |-> s.karma, total_experience |-> s.total_experience,
                     level |-> s.level,
                     last_activity_time |-> s.last_activity_time,
                     suspension_status |-> FALSE,
                     suspension_time |-> s.suspension_time,
                     eviction_pending |-> s.eviction_pending,
                     consecutive_violations |-> 0,
                     cluster_memberships |-> s.cluster_memberships]
    BY <1>2 DEF Lifted, Scores
  <2>2. Lifted(s) \in Scores  BY <2>1 DEF Scores
  <2>3. Timely(Lifted(s))
    BY <1>2, <2>1, KarmaAssumption DEF Timely, Over, Scores
  <2> QED  BY <2>1, <2>2, <2>3
<1> QED  BY <1>1, <1>2

LEMMA AskedOK ==
  ASSUME KarmaInv, NEW n \in Nodes, pc = "idle"
  PROVE  /\ Asked(n) \in Scores /\ Timely(Asked(n)) /\ Leveled(Asked(n))
         /\ Asked(n).cluster_memberships = Score(n).cluster_memberships
         /\ Asked(n).eviction_pending = Score(n).eviction_pending
BY ScoreOK, LiftedOK DEF Asked, Leveled, KarmaInv, TypeOK

LEMMA AfterEventOK ==
  ASSUME NEW s \in Scores, Timely(s), NEW e \in Events, NEW severe \in BOOLEAN,
         clock \in Nat
  PROVE  LET t == AfterEvent(s, e, severe)
         IN  /\ t \in Scores /\ Timely(t) /\ Leveled(t)
             /\ t.cluster_memberships = s.cluster_memberships
             /\ t.eviction_pending <=> (Evicts(s, e) \/ s.eviction_pending)
<1> DEFINE adj     == Adjustment[e]
           k       == Clamp(s.karma + adj.karma)
           xp      == IF s.total_experience + adj.xp > 0
                      THEN s.total_experience + adj.xp ELSE 0
           strikes == s.consecutive_violations + (IF adj.karma < 0 THEN 1 ELSE 0)
           suspend == k <= 0 \/ (strikes >= 3 /\ severe)
           t       == AfterEvent(s, e, severe)
<1>1. adj.karma \in Int /\ adj.xp \in Int  BY KarmaAssumption
<1>2. k \in 0 .. KarmaMax /\ xp \in Nat /\ strikes \in Nat
  BY <1>1, KarmaAssumption DEF Clamp, Scores
<1>3. Evicts(s, e) \in BOOLEAN /\ suspend \in BOOLEAN  BY DEF Evicts
<1>4. ComputeLevel(xp) \in Levels  BY LevelType
<1>5. t = [s EXCEPT !.karma = k, !.total_experience = xp,
                    !.level = ComputeLevel(xp), !.last_activity_time = clock,
                    !.consecutive_violations = strikes,
                    !.suspension_status = suspend \/ @,
                    !.suspension_time = IF suspend THEN clock ELSE @,
                    !.eviction_pending = Evicts(s, e) \/ @]
  BY DEF AfterEvent
<1> HIDE DEF adj, k, xp, strikes, suspend, t
<1>6. t = [karma |-> k, total_experience |-> xp, level |-> ComputeLevel(xp),
           last_activity_time |-> clock,
           suspension_status |-> suspend \/ s.suspension_status,
           suspension_time |-> IF suspend THEN clock ELSE s.suspension_time,
           eviction_pending |-> Evicts(s, e) \/ s.eviction_pending,
           consecutive_violations |-> strikes,
           cluster_memberships |-> s.cluster_memberships]
  BY <1>5 DEF Scores
<1>7. t \in Scores  BY <1>2, <1>3, <1>4, <1>6 DEF Scores
<1>8. Timely(t)
  BY <1>3, <1>6, KarmaAssumption DEF Timely, Scores
<1>9. Leveled(t)  BY <1>6 DEF Leveled
<1>10. /\ t.cluster_memberships = s.cluster_memberships
       /\ t.eviction_pending <=> (Evicts(s, e) \/ s.eviction_pending)
  BY <1>6
<1> QED  BY <1>7, <1>8, <1>9, <1>10 DEF t
-----------------------------------------------------------------------------
(* Steps.                                                                  *)

MemoryOK(lagging) ==
  StateOK(Snapshot) /\ Agrees(Snapshot) /\ LevelsAgree(Snapshot, lagging)

DiskOK ==
  /\ disk = [state |-> disk.state, data |-> disk.data]
  /\ disk.state \in {"absent", "corrupt", "ok"}
  /\ StateOK(disk.data) /\ Agrees(disk.data) /\ LevelsAgree(disk.data, {})

ControlOK ==
  /\ pc \in {"idle", "evict", "decay", "decayed", "save", "write"}
  /\ subject \in DOMAIN scores \cup {NoNode}
  /\ pc \in {"evict", "decay", "decayed"} => subject \in DOMAIN scores
  /\ periods \in Nat /\ clock \in Nat
  /\ calls \in Nat /\ crashes \in Nat /\ failures \in Nat

LEMMA Parts == KarmaInv <=> MemoryOK(Lagging) /\ DiskOK /\ ControlOK
BY DEF KarmaInv, MemoryOK, DiskOK, ControlOK, TypeOK, StateOK, Snapshot

LEMMA DiskKept ==
  ASSUME DiskOK, disk' = disk \/ disk' = [disk EXCEPT !.state = "corrupt"],
         clock' \in Nat, clock \in Nat, clock' >= clock
  PROVE  DiskOK'
<1>1. disk'.data = disk.data
  BY DEF DiskOK
<1>2. /\ disk' = [state |-> disk'.state, data |-> disk'.data]
      /\ disk'.state \in {"absent", "corrupt", "ok"}
  BY DEF DiskOK
<1>3. Agrees(disk.data)'
  BY <1>1, KarmaAssumption
     DEF DiskOK, StateOK, Agrees, MembershipAgrees, EvictionAgrees,
         SuspensionAgrees, Scores
<1> QED  BY <1>1, <1>2, <1>3 DEF DiskOK, StateOK, LevelsAgree

\* A call that writes the score of one node.
LEMMA WithOK ==
  ASSUME KarmaInv, pc = "idle", NEW n \in Nodes, NEW s \in Scores, Timely(s),
         Leveled(s), scores' = With(n, s), clock' = clock,
         clusters' \in [Clusters -> SUBSET Nodes],
         \A c \in Clusters : n \in clusters'[c] <=> c \in s.cluster_memberships,
         \A c \in Clusters : \A m \in Nodes \ {n} :
           m \in clusters'[c] <=> m \in clusters[c],
         eviction_queue' \subseteq Nodes,
         n \in eviction_queue' <=> s.eviction_pending,
         \A m \in Nodes \ {n} : m \in eviction_queue' <=> m \in eviction_queue
  PROVE  MemoryOK({})' /\ DOMAIN scores' = DOMAIN scores \cup {n}
<1>1. /\ DOMAIN scores' = DOMAIN scores \cup {n} /\ scores'[n] = s
      /\ \A m \in DOMAIN scores : m # n => scores'[m] = scores[m]
  BY DEF With
<1>2. Snapshot' = [scores |-> scores', clusters |-> clusters',
                   eviction_queue |-> eviction_queue']
  BY DEF Snapshot
<1>3. StateOK(Snapshot)'
  BY <1>1, <1>2 DEF StateOK, KarmaInv, TypeOK, With
<1>4. MembershipAgrees(Snapshot)'
  BY <1>1, <1>2 DEF MembershipAgrees, KarmaInv, Agrees, Snapshot
<1>5. EvictionAgrees(Snapshot)'
  BY <1>1, <1>2 DEF EvictionAgrees, KarmaInv, Agrees, Snapshot
<1>6. SuspensionAgrees(Snapshot)'
  BY <1>1, <1>2 DEF SuspensionAgrees, KarmaInv, Agrees, Snapshot, Timely
<1>7. LevelsAgree(Snapshot, {})'
  BY <1>1, <1>2 DEF LevelsAgree, KarmaInv, Snapshot, Leveled, Lagging
<1> QED  BY <1>1, <1>3, <1>4, <1>5, <1>6, <1>7 DEF MemoryOK, Agrees
\* The rest of such a call.
LEMMA CallOK ==
  ASSUME KarmaInv, Call, MemoryOK({})', DOMAIN scores \subseteq DOMAIN scores',
         periods' = periods,
         \/ pc' \in {"idle", "save"} /\ subject' = subject
         \/ pc' = "evict" /\ subject' \in DOMAIN scores'
  PROVE  KarmaInv'
<1>1. /\ pc = "idle" /\ calls' = calls + 1
      /\ UNCHANGED <<disk, clock, crashes, failures>>
  BY DEF Call
<1>2. DiskOK'  BY <1>1, DiskKept, Parts DEF ControlOK
<1>3. ControlOK'  BY <1>1, Parts DEF ControlOK
<1>4. Lagging' = {}  BY DEF Lagging
<1> QED  BY <1>2, <1>3, <1>4, Parts DEF KarmaInv, MemoryOK, DiskOK, ControlOK,
         TypeOK, StateOK, Snapshot

LEMMA ApplyOK ==
  ASSUME KarmaInv, Call, NEW n \in Nodes, NEW s \in Scores, Timely(s),
         NEW e \in Events, NEW severe \in BOOLEAN, Apply(n, s, e, severe),
         clusters' \in [Clusters -> SUBSET Nodes],
         \A c \in Clusters : n \in clusters'[c] <=> c \in s.cluster_memberships,
         \A c \in Clusters : \A m \in Nodes \ {n} :
           m \in clusters'[c] <=> m \in clusters[c],
         s.eviction_pending <=> n \in eviction_queue
  PROVE  KarmaInv'
<1>1. clock \in Nat /\ pc = "idle" /\ clock' = clock
      /\ eviction_queue \subseteq Nodes
  BY DEF KarmaInv, TypeOK, Call
<1> DEFINE t == AfterEvent(s, e, severe)
<1>2. /\ t \in Scores /\ Timely(t) /\ Leveled(t)
      /\ t.cluster_memberships = s.cluster_memberships
      /\ t.eviction_pending <=> (Evicts(s, e) \/ s.eviction_pending)
  BY <1>1, AfterEventOK
<1>3. scores' = With(n, t)  BY DEF Apply
<1> HIDE DEF t
<1>4. /\ eviction_queue' \subseteq Nodes
      /\ n \in eviction_queue' <=> t.eviction_pending
      /\ \A m \in Nodes \ {n} : m \in eviction_queue' <=> m \in eviction_queue
  BY <1>1, <1>2 DEF Apply
<1>5. MemoryOK({})' /\ DOMAIN scores' = DOMAIN scores \cup {n}
  BY <1>1, <1>2, <1>3, <1>4, WithOK
<1>6. /\ periods' = periods
      /\ \/ pc' \in {"idle", "save"} /\ subject' = subject
         \/ pc' = "evict" /\ subject' \in DOMAIN scores'
  BY <1>5 DEF Apply, ThenSave
<1> QED  BY <1>5, <1>6, CallOK

LEMMA ReportEventOK ==
  ASSUME KarmaInv, NEW n \in Nodes, NEW e \in Events, NEW severe \in BOOLEAN,
         ReportEvent(n, e, severe)
  PROVE  KarmaInv'
<1>1. Call /\ pc = "idle" /\ clusters' = clusters
      /\ Apply(n, Score(n), e, severe)
  BY DEF ReportEvent, Call
<1>2. clusters' \in [Clusters -> SUBSET Nodes]
  BY <1>1 DEF KarmaInv, TypeOK
<1> QED  BY <1>1, <1>2, ScoreOK, ApplyOK

\* A node that joins a cluster: its score and the clusters.
LEMMA MemberOK ==
  ASSUME KarmaInv, NEW n \in Nodes, NEW c \in Clusters, NEW s \in Scores,
         Timely(s), Leveled(s), pc = "idle",
         s.cluster_memberships = Score(n).cluster_memberships,
         s.eviction_pending = Score(n).eviction_pending,
         clusters' = [clusters EXCEPT ![c] = @ \cup {n}]
  PROVE  /\ Member(s, c) \in Scores /\ Timely(Member(s, c))
         /\ Leveled(Member(s, c))
         /\ Member(s, c).eviction_pending = s.eviction_pending
         /\ clusters' \in [Clusters -> SUBSET Nodes]
         /\ \A d \in Clusters :
              n \in clusters'[d] <=> d \in Member(s, c).cluster_memberships
         /\ \A d \in Clusters : \A m \in Nodes \ {n} :
              m \in clusters'[d] <=> m \in clusters[d]
<1>1. /\ Member(s, c) \in Scores
      /\ Member(s, c).cluster_memberships = s.cluster_memberships \cup {c}
      /\ Member(s, c).eviction_pending = s.eviction_pending
      /\ Member(s, c).level = s.level
      /\ Member(s, c).total_experience = s.total_experience
      /\ Member(s, c).suspension_status = s.suspension_status
      /\ Member(s, c).suspension_time = s.suspension_time
  BY DEF Member, Scores
<1>2. Timely(Member(s, c)) /\ Leveled(Member(s, c))
  BY <1>1 DEF Timely, Leveled
<1>3. clusters \in [Clusters -> SUBSET Nodes]  BY DEF KarmaInv, TypeOK
<1>4. \A d \in Clusters :
        n \in clusters'[d] <=> d \in Member(s, c).cluster_memberships
  BY <1>1, <1>3, ScoreOK
<1> QED  BY <1>1, <1>2, <1>3, <1>4
\* Member writes nothing when the node is already there.
LEMMA RegisterActivityOK ==
  ASSUME KarmaInv, NEW n \in Nodes, NEW c \in Clusters, NEW cycle \in BOOLEAN,
         RegisterActivity(n, c, cycle)
  PROVE  KarmaInv'
<1> DEFINE s == Score(n)
<1>1. Call /\ pc = "idle" /\ clock' = clock /\ clock \in Nat
      /\ CycleDone \in Events
      /\ clusters \in [Clusters -> SUBSET Nodes]
      /\ eviction_queue \subseteq Nodes
  BY KarmaAssumption DEF RegisterActivity, Call, KarmaInv, TypeOK
<1>2. /\ s \in Scores /\ Timely(s) /\ Leveled(s)
      /\ \A d \in Clusters : n \in clusters[d] <=> d \in s.cluster_memberships
      /\ n \in eviction_queue <=> s.eviction_pending
  BY <1>1, ScoreOK
<1> HIDE DEF s
<1>3. clusters' = [clusters EXCEPT ![c] = @ \cup {n}]
  <2>1. CASE c \in s.cluster_memberships
    <3>1. clusters' = clusters  BY <2>1 DEF RegisterActivity, s
    <3>2. clusters[c] = clusters[c] \cup {n}  BY <2>1, <1>2
    <3> QED  BY <3>1, <3>2, <1>1
  <2>2. CASE c \notin s.cluster_memberships
    BY <2>2 DEF RegisterActivity, s
  <2> QED  BY <2>1, <2>2
<1> DEFINE t == Member(s, c)
<1>4. /\ t \in Scores /\ Timely(t) /\ Leveled(t)
      /\ t.eviction_pending = s.eviction_pending
      /\ clusters' \in [Clusters -> SUBSET Nodes]
      /\ \A d \in Clusters : n \in clusters'[d] <=> d \in t.cluster_memberships
      /\ \A d \in Clusters : \A m \in Nodes \ {n} :
           m \in clusters'[d] <=> m \in clusters[d]
  BY <1>1, <1>2, <1>3, MemberOK DEF s
<1> HIDE DEF t
<1>5. CASE cycle
  <2>1. Apply(n, t, CycleDone, FALSE)
    BY <1>5 DEF RegisterActivity, t, s
  <2> QED  BY <1>1, <1>2, <1>4, <2>1, ApplyOK
<1>6. CASE ~cycle
  <2> DEFINE u == [t EXCEPT !.last_activity_time = clock]
  <2>1. scores' = With(n, u) /\ Return /\ eviction_queue' = eviction_queue
    BY <1>6 DEF RegisterActivity, t, s
  <2>2. /\ u \in Scores /\ u.level = t.level
        /\ u.total_experience = t.total_experience
        /\ u.suspension_status = t.suspension_status
        /\ u.suspension_time = t.suspension_time
        /\ u.eviction_pending = t.eviction_pending
        /\ u.cluster_memberships = t.cluster_memberships
    BY <1>1, <1>4 DEF Scores
  <2> HIDE DEF u
  <2>3. Timely(u) /\ Leveled(u)  BY <1>4, <2>2 DEF Timely, Leveled
  <2>4. MemoryOK({})' /\ DOMAIN scores' = DOMAIN scores \cup {n}
    BY <1>1, <1>2, <1>4, <2>1, <2>2, <2>3, WithOK
  <2>5. periods' = periods /\ pc' = pc /\ subject' = subject
    BY <2>1 DEF Return, progress
  <2> QED  BY <1>1, <2>4, <2>5, CallOK
<1> QED  BY <1>5, <1>6

LEMMA QueryOK ==
  ASSUME KarmaInv, NEW n \in Nodes, Call, scores' = With(n, Asked(n)),
         clusters' = clusters, eviction_queue' = eviction_queue, Return
  PROVE  KarmaInv'
<1>1. pc = "idle" /\ clock' = clock /\ clusters \in [Clusters -> SUBSET Nodes]
      /\ eviction_queue \subseteq Nodes
  BY DEF Call, KarmaInv, TypeOK
<1>2. MemoryOK({})' /\ DOMAIN scores' = DOMAIN scores \cup {n}
  BY <1>1, ScoreOK, AskedOK, WithOK
<1>3. periods' = periods /\ pc' = pc /\ subject' = subject
  BY DEF Return, progress
<1> QED  BY <1>1, <1>2, <1>3, CallOK

LEMMA JoinClusterOK ==
  ASSUME KarmaInv, NEW n \in Nodes, NEW c \in Clusters, JoinCluster(n, c)
  PROVE  KarmaInv'
<1> DEFINE joins == /\ CanParticipate(n)
                    /\ Cardinality(clusters[c]) < ClusterSize
                    /\ c \notin Score(n).cluster_memberships
<1>1. Call /\ pc = "idle" /\ clock' = clock
      /\ eviction_queue' = eviction_queue /\ eviction_queue \subseteq Nodes
  BY DEF JoinCluster, Call, KarmaInv, TypeOK
<1>2. CASE joins
  <2> DEFINE t == Member(Asked(n), c)
  <2>1. /\ scores' = With(n, t) /\ ThenSave
        /\ clusters' = [clusters EXCEPT ![c] = @ \cup {n}]
    BY <1>2 DEF JoinCluster
  <2>2. /\ t \in Scores /\ Timely(t) /\ Leveled(t)
        /\ t.eviction_pending = Score(n).eviction_pending
        /\ clusters' \in [Clusters -> SUBSET Nodes]
        /\ \A d \in Clusters : n \in clusters'[d] <=> d \in t.cluster_memberships
        /\ \A d \in Clusters : \A m \in Nodes \ {n} :
             m \in clusters'[d] <=> m \in clusters[d]
    BY <1>1, <2>1, AskedOK, MemberOK
  <2> HIDE DEF t
  <2>3. MemoryOK({})' /\ DOMAIN scores' = DOMAIN scores \cup {n}
    BY <1>1, <2>1, <2>2, ScoreOK, WithOK
  <2>4. periods' = periods /\ pc' = "save" /\ subject' = subject
    BY <2>1 DEF ThenSave
  <2> QED  BY <1>1, <2>3, <2>4, CallOK
<1>3. CASE ~joins
  <2>1. /\ scores' = With(n, Asked(n)) /\ Return /\ clusters' = clusters
    BY <1>3 DEF JoinCluster
  <2> QED  BY <1>1, <2>1, QueryOK
<1> QED  BY <1>2, <1>3

LEMMA LeaveClusterOK ==
  ASSUME KarmaInv, NEW n \in Nodes, NEW c \in Clusters, LeaveCluster(n, c)
  PROVE  KarmaInv'
<1> DEFINE t == [scores[n] EXCEPT !.cluster_memberships = @ \ {c}]
<1>1. /\ Call /\ pc = "idle" /\ clock' = clock /\ n \in DOMAIN scores
      /\ eviction_queue' = eviction_queue /\ eviction_queue \subseteq Nodes
      /\ clusters \in [Clusters -> SUBSET Nodes]
      /\ clusters' = [clusters EXCEPT ![c] = @ \ {n}] /\ ThenSave
      /\ scores' = [scores EXCEPT ![n].cluster_memberships = @ \ {c}]
      /\ scores \in [DOMAIN scores -> Scores]
  BY DEF LeaveCluster, Call, KarmaInv, TypeOK
<1>2. Score(n) = scores[n] /\ scores[n] \in Scores  BY <1>1 DEF Score
<1>3. scores' = With(n, t)  BY <1>1 DEF With
<1>4. /\ t \in Scores /\ t.level = scores[n].level
      /\ t.total_experience = scores[n].total_experience
      /\ t.suspension_status = scores[n].suspension_status
      /\ t.suspension_time = scores[n].suspension_time
      /\ t.eviction_pending = scores[n].eviction_pending
      /\ t.cluster_memberships = scores[n].cluster_memberships \ {c}
  BY <1>2 DEF Scores
<1> HIDE DEF t
<1>5. Timely(t) /\ Leveled(t)
  BY <1>1, <1>2, <1>4, ScoreOK DEF Timely, Leveled
<1>6. /\ clusters' \in [Clusters -> SUBSET Nodes]
      /\ \A d \in Clusters : n \in clusters'[d] <=> d \in t.cluster_memberships
      /\ \A d \in Clusters : \A m \in Nodes \ {n} :
           m \in clusters'[d] <=> m \in clusters[d]
  BY <1>1, <1>2, <1>4, ScoreOK
<1>7. MemoryOK({})' /\ DOMAIN scores' = DOMAIN scores \cup {n}
  BY <1>1, <1>2, <1>3, <1>4, <1>5, <1>6, ScoreOK, WithOK
<1>8. periods' = periods /\ pc' = "save" /\ subject' = subject
  BY <1>1 DEF ThenSave
<1> QED  BY <1>1, <1>7, <1>8, CallOK
LEMMA ElectOK ==
  ASSUME KarmaInv, NEW c \in Clusters, Elect(c)
  PROVE  KarmaInv'
<1>1. /\ Call /\ pc = "idle" /\ clock' = clock /\ clock \in Nat
      /\ clusters' = clusters /\ eviction_queue' = eviction_queue
      /\ pc' = pc /\ subject' = subject /\ periods' = periods
      /\ clusters[c] \subseteq Nodes /\ DOMAIN scores \subseteq Nodes
  BY DEF Elect, Call, KarmaInv, TypeOK, progress
<1> DEFINE D == DOMAIN scores \cup clusters[c]
           u(n) == IF n \in clusters[c] /\ Score(n).level = "MASTER"
                   THEN Lifted(Score(n)) ELSE Score(n)
<1>2. scores' = [n \in D |-> u(n)]  BY DEF Elect
<1>3. \A n \in D : /\ u(n) \in Scores /\ Timely(u(n)) /\ Leveled(u(n))
                   /\ u(n).cluster_memberships = Score(n).cluster_memberships
                   /\ u(n).eviction_pending = Score(n).eviction_pending
  <2> SUFFICES ASSUME NEW n \in D
               PROVE /\ u(n) \in Scores /\ Timely(u(n)) /\ Leveled(u(n))
                     /\ u(n).cluster_memberships = Score(n).cluster_memberships
                     /\ u(n).eviction_pending = Score(n).eviction_pending
    OBVIOUS
  <2>1. n \in Nodes  BY <1>1
  <2>2. Score(n) \in Scores /\ Timely(Score(n)) /\ Leveled(Score(n))
    BY <2>1, <1>1, ScoreOK
  <2>3. /\ Lifted(Score(n)) \in Scores /\ Timely(Lifted(Score(n)))
        /\ Leveled(Lifted(Score(n)))
        /\ Lifted(Score(n)).cluster_memberships = Score(n).cluster_memberships
        /\ Lifted(Score(n)).eviction_pending = Score(n).eviction_pending
    BY <2>2, <1>1, LiftedOK DEF Leveled
  <2> QED  BY <2>2, <2>3
<1>4. Snapshot' = [scores |-> scores', clusters |-> clusters,
                   eviction_queue |-> eviction_queue]
  BY <1>1 DEF Snapshot
<1> HIDE DEF u
<1>5. DOMAIN scores' = D /\ \A n \in D : scores'[n] = u(n)  BY <1>2
<1>6. StateOK(Snapshot)'
  BY <1>1, <1>2, <1>3, <1>4 DEF StateOK, KarmaInv, TypeOK
<1>7. \A n \in Nodes \ D : n \notin DOMAIN scores /\ Score(n) = NewScore
  BY DEF Score
<1>8. MembershipAgrees(Snapshot)'
  BY <1>1, <1>3, <1>4, <1>5, <1>7, ScoreOK, NewScoreType DEF MembershipAgrees
<1>9. EvictionAgrees(Snapshot)'
  BY <1>1, <1>3, <1>4, <1>5, <1>7, ScoreOK, NewScoreType DEF EvictionAgrees
<1>10. SuspensionAgrees(Snapshot)' /\ LevelsAgree(Snapshot, {})'
  BY <1>1, <1>3, <1>4, <1>5 DEF SuspensionAgrees, LevelsAgree, Timely, Leveled
<1>11. MemoryOK({})' /\ DOMAIN scores \subseteq DOMAIN scores'
  BY <1>5, <1>6, <1>8, <1>9, <1>10 DEF MemoryOK, Agrees
<1> QED  BY <1>1, <1>11, CallOK

-----------------------------------------------------------------------------
(* Steps of a call under way, and of what surrounds it.                    *)

LEMMA DecayStartOK ==
  ASSUME KarmaInv, NEW n \in Nodes, DecayStart(n)
  PROVE  KarmaInv'
<1>1. /\ Call /\ pc = "idle" /\ n \in DOMAIN scores
      /\ pc' = "decay" /\ subject' = n
      /\ scores' = scores /\ clusters' = clusters
      /\ eviction_queue' = eviction_queue
      /\ calls' = calls + 1 /\ clock' = clock /\ clock \in Nat
      /\ disk' = disk /\ crashes' = crashes /\ failures' = failures
  BY DEF DecayStart, Call, memory, KarmaInv, TypeOK
<1>2. periods' \in Nat
  <2>1. scores[n].last_activity_time \in Nat
    BY <1>1 DEF KarmaInv, TypeOK, Scores
  <2> DEFINE gap == clock - scores[n].last_activity_time
  <2>2. gap \in Nat /\ DecayPeriod \in Nat \ {0} /\ periods' = gap \div DecayPeriod
    BY <1>1, <2>1, KarmaAssumption DEF DecayStart
  <2> HIDE DEF gap
  <2>3. gap \div DecayPeriod \in Nat  BY <2>2
  <2> QED  BY <2>2, <2>3
<1>3. DiskOK'  BY <1>1, Parts, DiskKept
<1>4. ControlOK'  BY <1>1, <1>2, Parts DEF ControlOK
<1>5. MemoryOK(Lagging)'
  BY <1>1, Parts
     DEF MemoryOK, Lagging, StateOK, Snapshot, Agrees, MembershipAgrees,
         EvictionAgrees, SuspensionAgrees, LevelsAgree
<1> QED  BY <1>3, <1>4, <1>5, Parts DEF KarmaInv, MemoryOK, DiskOK, ControlOK,
         TypeOK, StateOK, Snapshot

\* A step that writes fields of the score of the subject that are kept only
\* once.
LEMMA SubjectOK ==
  ASSUME KarmaInv, NEW s \in Scores, subject \in DOMAIN scores,
         scores' = [scores EXCEPT ![subject] = s],
         s.suspension_status = scores[subject].suspension_status,
         s.suspension_time = scores[subject].suspension_time,
         s.eviction_pending = scores[subject].eviction_pending,
         s.cluster_memberships = scores[subject].cluster_memberships,
         clusters' = clusters, eviction_queue' = eviction_queue,
         clock' = clock, disk' = disk,
         NEW lagging, Lagging' = lagging,
         Leveled(s) \/ subject \in lagging,
         Lagging \subseteq {subject},
         ControlOK'
  PROVE  KarmaInv'
<1>1. /\ DOMAIN scores' = DOMAIN scores /\ scores'[subject] = s
      /\ \A m \in DOMAIN scores : m # subject => scores'[m] = scores[m]
  OBVIOUS
<1>2. clock \in Nat /\ DOMAIN scores \subseteq Nodes
      /\ scores \in [DOMAIN scores -> Scores]
  BY DEF KarmaInv, TypeOK
<1>3. Snapshot' = [scores |-> scores', clusters |-> clusters,
                   eviction_queue |-> eviction_queue]
  BY DEF Snapshot
<1>4. StateOK(Snapshot)'
  BY <1>1, <1>2, <1>3 DEF StateOK, KarmaInv, TypeOK
<1>5. MembershipAgrees(Snapshot)' /\ EvictionAgrees(Snapshot)'
  BY <1>1, <1>2, <1>3
     DEF MembershipAgrees, EvictionAgrees, KarmaInv, Agrees, Snapshot
<1>6. SuspensionAgrees(Snapshot)'
  BY <1>1, <1>2, <1>3 DEF SuspensionAgrees, KarmaInv, Agrees, Snapshot
<1>7. LevelsAgree(Snapshot, lagging)'
  BY <1>1, <1>3 DEF LevelsAgree, KarmaInv, Snapshot, Leveled
<1>8. MemoryOK(Lagging)'
  BY <1>4, <1>5, <1>6, <1>7 DEF MemoryOK, Agrees, LevelsAgree
<1>9. DiskOK'  BY <1>2, Parts, DiskKept
<1> QED  BY <1>8, <1>9, Parts DEF KarmaInv, MemoryOK, DiskOK, ControlOK,
         TypeOK, StateOK, Snapshot

LEMMA DecayOnceOK ==
  ASSUME KarmaInv, DecayOnce
  PROVE  KarmaInv'
<1> DEFINE s == [scores[subject] EXCEPT
                   !.total_experience = Decayed(scores[subject].total_experience)]
<1>1. /\ pc \in {"decay", "decayed"} /\ subject \in DOMAIN scores
      /\ scores \in [DOMAIN scores -> Scores]
      /\ scores' = [scores EXCEPT ![subject] = s]
      /\ pc' \in {"decay", "decayed"} /\ subject' = subject
      /\ clusters' = clusters /\ eviction_queue' = eviction_queue
      /\ disk' = disk /\ clock' = clock
      /\ calls' = calls /\ crashes' = crashes /\ failures' = failures
      /\ periods' = periods - 1 /\ periods > 0 /\ periods \in Nat
  BY DEF DecayOnce, KarmaInv, TypeOK, counters
<1>2. /\ s \in Scores
      /\ s.suspension_status = scores[subject].suspension_status
      /\ s.suspension_time = scores[subject].suspension_time
      /\ s.eviction_pending = scores[subject].eviction_pending
      /\ s.cluster_memberships = scores[subject].cluster_memberships
  BY <1>1, DecayedType DEF Scores
<1> HIDE DEF s
<1>3. ControlOK'  BY <1>1, Parts DEF ControlOK
<1>4. Lagging' = {subject} /\ Lagging = {subject}  BY <1>1 DEF Lagging
<1> QED  BY <1>1, <1>2, <1>3, <1>4, SubjectOK

LEMMA DecayDoneOK ==
  ASSUME KarmaInv, DecayDone
  PROVE  KarmaInv'
<1> DEFINE s == [scores[subject] EXCEPT
                   !.level = ComputeLevel(scores[subject].total_experience)]
<1>1. /\ pc \in {"decay", "decayed"} /\ subject \in DOMAIN scores
      /\ scores \in [DOMAIN scores -> Scores]
      /\ scores' = [scores EXCEPT ![subject] = s]
      /\ pc' \in {"save", "idle"} /\ subject' = NoNode
      /\ clusters' = clusters /\ eviction_queue' = eviction_queue
      /\ disk' = disk /\ clock' = clock
      /\ calls' = calls /\ crashes' = crashes /\ failures' = failures
      /\ periods' = periods
  BY DEF DecayDone, KarmaInv, TypeOK, counters
<1>2. /\ s \in Scores /\ Leveled(s)
      /\ s.suspension_status = scores[subject].suspension_status
      /\ s.suspension_time = scores[subject].suspension_time
      /\ s.eviction_pending = scores[subject].eviction_pending
      /\ s.cluster_memberships = scores[subject].cluster_memberships
  BY <1>1, LevelType DEF Scores, Leveled
<1> HIDE DEF s
<1>3. ControlOK'  BY <1>1, Parts DEF ControlOK
<1>4. Lagging' = {} /\ Lagging = {subject}  BY <1>1 DEF Lagging
<1> QED  BY <1>1, <1>2, <1>3, <1>4, SubjectOK

LEMMA LeaveNextOK ==
  ASSUME KarmaInv, NEW c \in Clusters, LeaveNext(c)
  PROVE  KarmaInv'
<1> DEFINE n == subject
           t == [scores[n] EXCEPT !.cluster_memberships = @ \ {c}]
<1>1. /\ pc = "evict" /\ n \in DOMAIN scores /\ n \in Nodes
      /\ DOMAIN scores \subseteq Nodes
      /\ scores \in [DOMAIN scores -> Scores]
      /\ clusters \in [Clusters -> SUBSET Nodes]
      /\ scores' = [scores EXCEPT ![n] = t]
      /\ clusters' = [clusters EXCEPT ![c] = @ \ {n}]
      /\ pc' = "save" /\ subject' = subject
      /\ eviction_queue' = eviction_queue
      /\ disk' = disk /\ periods' = periods /\ clock' = clock
      /\ calls' = calls /\ crashes' = crashes /\ failures' = failures
      /\ clock \in Nat
  BY DEF LeaveNext, KarmaInv, TypeOK, counters
<1>2. /\ t \in Scores /\ t.level = scores[n].level
      /\ t.total_experience = scores[n].total_experience
      /\ t.suspension_status = scores[n].suspension_status
      /\ t.suspension_time = scores[n].suspension_time
      /\ t.eviction_pending = scores[n].eviction_pending
      /\ t.cluster_memberships = scores[n].cluster_memberships \ {c}
  BY <1>1 DEF Scores
<1> HIDE DEF t
<1>3. /\ DOMAIN scores' = DOMAIN scores /\ scores'[n] = t
      /\ \A m \in DOMAIN scores : m # n => scores'[m] = scores[m]
  BY <1>1
<1>4. Snapshot' = [scores |-> scores', clusters |-> clusters',
                   eviction_queue |-> eviction_queue]
  BY <1>1 DEF Snapshot
<1>5. StateOK(Snapshot)'
  BY <1>1, <1>2, <1>3, <1>4 DEF StateOK, KarmaInv, TypeOK
<1>6. MembershipAgrees(Snapshot)'
  BY <1>1, <1>2, <1>3, <1>4
     DEF MembershipAgrees, KarmaInv, Agrees, Snapshot
<1>7. EvictionAgrees(Snapshot)'
  BY <1>1, <1>2, <1>3, <1>4
     DEF EvictionAgrees, KarmaInv, Agrees, Snapshot
<1>8. SuspensionAgrees(Snapshot)'
  BY <1>1, <1>2, <1>3, <1>4 DEF SuspensionAgrees, KarmaInv, Agrees, Snapshot
<1>9. Lagging = {} /\ Lagging' = {}  BY <1>1 DEF Lagging
<1>10. LevelsAgree(Snapshot, {})'
  BY <1>2, <1>3, <1>4, <1>9 DEF LevelsAgree, KarmaInv, Snapshot
<1>11. MemoryOK(Lagging)'
  BY <1>5, <1>6, <1>7, <1>8, <1>9, <1>10 DEF MemoryOK, Agrees, LevelsAgree
<1>12. ControlOK'  BY <1>1, Parts DEF ControlOK
<1>13. DiskOK'  BY <1>1, Parts, DiskKept
<1> QED  BY <1>11, <1>12, <1>13, Parts DEF KarmaInv, MemoryOK, DiskOK,
         ControlOK, TypeOK, StateOK, Snapshot

\* A step of a call that leaves the memory alone.
LEMMA MemoryKept ==
  ASSUME KarmaInv, scores' = scores, clusters' = clusters,
         eviction_queue' = eviction_queue, clock' = clock,
         pc \notin {"decay", "decayed"}, pc' \notin {"decay", "decayed"}
  PROVE  MemoryOK(Lagging)'
<1>1. MemoryOK(Lagging) /\ Lagging = {} /\ Lagging' = {}
  BY Parts DEF Lagging
<1> QED
  BY <1>1 DEF MemoryOK, StateOK, Snapshot, Agrees, MembershipAgrees,
              EvictionAgrees, SuspensionAgrees, LevelsAgree

LEMMA Rebuild == MemoryOK(Lagging)' /\ DiskOK' /\ ControlOK' => KarmaInv'
BY DEF KarmaInv, MemoryOK, DiskOK, ControlOK, TypeOK, StateOK, Snapshot

LEMMA EvictionDoneOK ==
  ASSUME KarmaInv, EvictionDone
  PROVE  KarmaInv'
<1>1. /\ pc = "evict" /\ pc' = "save" /\ subject' = NoNode
      /\ scores' = scores /\ clusters' = clusters
      /\ eviction_queue' = eviction_queue /\ disk' = disk
      /\ periods' = periods /\ clock' = clock /\ clock \in Nat
      /\ calls' = calls /\ crashes' = crashes /\ failures' = failures
  BY DEF EvictionDone, memory, counters, KarmaInv, TypeOK
<1>2. MemoryOK(Lagging)' /\ DiskOK'  BY <1>1, MemoryKept, DiskKept, Parts
<1>3. ControlOK'  BY <1>1, Parts DEF ControlOK
<1> QED  BY <1>2, <1>3, Rebuild
LEMMA SaveOpenOK ==
  ASSUME KarmaInv, SaveOpen
  PROVE  KarmaInv'
<1>1. /\ pc = "save" /\ pc' = "write" /\ subject' = subject
      /\ scores' = scores /\ clusters' = clusters
      /\ eviction_queue' = eviction_queue
      /\ disk' = [disk EXCEPT !.state = "corrupt"]
      /\ periods' = periods /\ clock' = clock /\ clock \in Nat
      /\ calls' = calls /\ crashes' = crashes /\ failures' = failures
  BY DEF SaveOpen, memory, counters, KarmaInv, TypeOK
<1>2. MemoryOK(Lagging)' /\ DiskOK'  BY <1>1, MemoryKept, DiskKept, Parts
<1>3. ControlOK'  BY <1>1, Parts DEF ControlOK
<1> QED  BY <1>2, <1>3, Rebuild

LEMMA SaveWriteOK ==
  ASSUME KarmaInv, SaveWrite
  PROVE  KarmaInv'
<1>1. /\ pc = "write" /\ pc' \in {"idle", "evict"} /\ subject' = subject
      /\ pc' = "evict" => subject # NoNode
      /\ scores' = scores /\ clusters' = clusters
      /\ eviction_queue' = eviction_queue
      /\ disk' = [state |-> "ok", data |-> Snapshot]
      /\ periods' = periods /\ clock' = clock /\ clock \in Nat
      /\ calls' = calls /\ crashes' = crashes /\ failures' = failures
  BY DEF SaveWrite, memory, counters, KarmaInv, TypeOK
<1>2. MemoryOK(Lagging)'  BY <1>1, MemoryKept
<1>3. Lagging = {} /\ MemoryOK(Lagging)  BY <1>1, Parts DEF Lagging
<1>4. DiskOK'
  <2>1. /\ disk'.state = "ok" /\ disk'.data = Snapshot
        /\ disk' = [state |-> disk'.state, data |-> disk'.data]
    BY <1>1
  <2>2. SuspensionAgrees(Snapshot) => SuspensionAgrees(disk.data)'
    BY <1>1, <2>1 DEF SuspensionAgrees
  <2> QED
    BY <1>3, <2>1, <2>2
       DEF MemoryOK, DiskOK, StateOK, Agrees, MembershipAgrees, EvictionAgrees,
           LevelsAgree
<1>5. ControlOK'  BY <1>1, Parts DEF ControlOK
<1> QED  BY <1>2, <1>4, <1>5, Rebuild

LEMMA SaveFailsOK ==
  ASSUME KarmaInv, SaveFails
  PROVE  KarmaInv'
<1>1. /\ pc \in {"save", "write"} /\ pc' = "idle" /\ subject' = NoNode
      /\ scores' = scores /\ clusters' = clusters
      /\ eviction_queue' = eviction_queue /\ disk' = disk
      /\ periods' = periods /\ clock' = clock /\ clock \in Nat
      /\ calls' = calls /\ crashes' = crashes /\ failures' = failures + 1
  BY DEF SaveFails, memory, KarmaInv, TypeOK
<1>2. MemoryOK(Lagging)' /\ DiskOK'  BY <1>1, MemoryKept, DiskKept, Parts
<1>3. ControlOK'  BY <1>1, Parts DEF ControlOK
<1> QED  BY <1>2, <1>3, Rebuild

\* Time passes: what was old enough to be lifted still is.
LEMMA TickOK ==
  ASSUME KarmaInv, Tick
  PROVE  KarmaInv'
<1>1. /\ pc' = pc /\ subject' = subject /\ periods' = periods
      /\ scores' = scores /\ clusters' = clusters
      /\ eviction_queue' = eviction_queue /\ disk' = disk
      /\ clock' = clock + 1 /\ clock \in Nat
      /\ calls' = calls /\ crashes' = crashes /\ failures' = failures
  BY DEF Tick, memory, progress, counters, KarmaInv, TypeOK
<1>2. MemoryOK(Lagging)'
  <2>1. MemoryOK(Lagging) /\ Lagging' = Lagging /\ Snapshot' = Snapshot
    BY <1>1, Parts DEF Lagging, Snapshot
  <2>2. SuspensionAgrees(Snapshot)'
    <3>1. SuspensionAgrees(Snapshot) /\ StateOK(Snapshot)
      BY <2>1 DEF MemoryOK, Agrees
    <3>2. Snapshot.scores = scores /\ Snapshot'.scores = scores
      BY <1>1 DEF Snapshot
    <3>3. \A n \in DOMAIN scores :
             /\ scores[n].suspension_time \in Nat \cup {NoTime}
             /\ scores[n].suspension_status \in BOOLEAN
      BY <3>1, <3>2 DEF StateOK, Scores
    <3>4. \A n \in DOMAIN scores : Timely(scores[n])
      BY <3>1, <3>2 DEF SuspensionAgrees, Timely
    <3>5. \A n \in DOMAIN scores : Timely(scores[n])'
      BY <1>1, <3>3, <3>4, KarmaAssumption DEF Timely
    <3> QED  BY <1>1, <3>2, <3>5 DEF SuspensionAgrees, Timely
  <2> QED
    BY <1>1, <2>1, <2>2
       DEF MemoryOK, StateOK, Snapshot, Agrees, MembershipAgrees, EvictionAgrees,
           LevelsAgree
<1>3. DiskOK'  BY <1>1, DiskKept, Parts
<1>4. ControlOK'  BY <1>1, Parts DEF ControlOK
<1> QED  BY <1>2, <1>3, <1>4, Rebuild

LEMMA LoadedOK ==
  ASSUME DiskOK
  PROVE  /\ Loaded(disk) \in {disk.data, Nothing}
         /\ StateOK(Loaded(disk)) /\ Agrees(Loaded(disk))
         /\ LevelsAgree(Loaded(disk), {})
BY NothingOK DEF DiskOK, Loaded

LEMMA RestartOK ==
  ASSUME KarmaInv, Restart
  PROVE  KarmaInv'
<1>1. /\ scores' = Loaded(disk).scores /\ clusters' = Loaded(disk).clusters
      /\ eviction_queue' = Loaded(disk).eviction_queue
      /\ pc' = "idle" /\ subject' = NoNode
      /\ disk' = disk /\ periods' = periods /\ clock' = clock /\ clock \in Nat
      /\ calls' = calls /\ crashes' = crashes + 1 /\ failures' = failures
  BY DEF Restart, KarmaInv, TypeOK
<1>2. MemoryOK(Lagging)'
  <2>1. /\ StateOK(Loaded(disk)) /\ Agrees(Loaded(disk))
        /\ LevelsAgree(Loaded(disk), {})
    BY LoadedOK, Parts
  <2>2. /\ Snapshot'.scores = Loaded(disk).scores
        /\ Snapshot'.clusters = Loaded(disk).clusters
        /\ Snapshot'.eviction_queue = Loaded(disk).eviction_queue
        /\ Lagging' = {}
    BY <1>1 DEF Snapshot, Lagging
  <2>3. SuspensionAgrees(Loaded(disk)) => SuspensionAgrees(Snapshot)'
    BY <1>1, <2>2 DEF SuspensionAgrees
  <2> QED
    BY <2>1, <2>2, <2>3
       DEF MemoryOK, StateOK, Agrees, MembershipAgrees, EvictionAgrees,
           LevelsAgree
<1>3. DiskOK'  BY <1>1, DiskKept, Parts
<1>4. ControlOK'  BY <1>1, Parts DEF ControlOK
<1> QED  BY <1>2, <1>3, <1>4, Rebuild

LEMMA StutterOK ==
  ASSUME KarmaInv, UNCHANGED vars
  PROVE  KarmaInv'
<1>1. /\ pc' = pc /\ subject' = subject /\ periods' = periods
      /\ scores' = scores /\ clusters' = clusters
      /\ eviction_queue' = eviction_queue /\ disk' = disk
      /\ clock' = clock /\ clock \in Nat
      /\ calls' = calls /\ crashes' = crashes /\ failures' = failures
  BY DEF vars, KarmaInv, TypeOK
<1>2. MemoryOK(Lagging)'
  BY <1>1, Parts
     DEF MemoryOK, Lagging, StateOK, Snapshot, Agrees, MembershipAgrees,
         EvictionAgrees, SuspensionAgrees, LevelsAgree
<1>3. DiskOK'  BY <1>1, DiskKept, Parts
<1>4. ControlOK'  BY <1>1, Parts DEF ControlOK
<1> QED  BY <1>2, <1>3, <1>4, Rebuild

LEMMA StepKarma == KarmaInv /\ [Next]_vars => KarmaInv'
<1> SUFFICES ASSUME KarmaInv, [Next]_vars PROVE KarmaInv'  OBVIOUS
<1>1. ASSUME NEW n \in Nodes, NEW e \in Events, NEW severe \in BOOLEAN,
             ReportEvent(n, e, severe)
      PROVE  KarmaInv'
  BY <1>1, ReportEventOK
<1>2. ASSUME NEW n \in Nodes, NEW c \in Clusters, JoinCluster(n, c)
      PROVE  KarmaInv'
  BY <1>2, JoinClusterOK
<1>3. ASSUME NEW n \in Nodes, NEW c \in Clusters, LeaveCluster(n, c)
      PROVE  KarmaInv'
  BY <1>3, LeaveClusterOK
<1>4. ASSUME NEW n \in Nodes, NEW c \in Clusters, NEW cycle \in BOOLEAN,
             RegisterActivity(n, c, cycle)
      PROVE  KarmaInv'
  BY <1>4, RegisterActivityOK
<1>5. ASSUME NEW n \in Nodes, Query(n) PROVE KarmaInv'
  BY <1>5, QueryOK DEF Query
<1>6. ASSUME NEW n \in Nodes, DecayStart(n) PROVE KarmaInv'
  BY <1>6, DecayStartOK
<1>7. ASSUME NEW c \in Clusters, LeaveNext(c) PROVE KarmaInv'
  BY <1>7, LeaveNextOK
<1>8. ASSUME NEW c \in Clusters, Elect(c) PROVE KarmaInv'
  BY <1>8, ElectOK
<1>9. CASE EvictionDone  BY <1>9, EvictionDoneOK
<1>10. CASE DecayOnce  BY <1>10, DecayOnceOK
<1>11. CASE DecayDone  BY <1>11, DecayDoneOK
<1>12. CASE SaveOpen  BY <1>12, SaveOpenOK
<1>13. CASE SaveWrite  BY <1>13, SaveWriteOK
<1>14. CASE SaveFails  BY <1>14, SaveFailsOK
<1>15. CASE Tick  BY <1>15, TickOK
<1>16. CASE Restart  BY <1>16, RestartOK
<1>17. CASE UNCHANGED vars  BY <1>17, StutterOK
<1> QED
  BY <1>1, <1>2, <1>3, <1>4, <1>5, <1>6, <1>7, <1>8, <1>9, <1>10, <1>11,
     <1>12, <1>13, <1>14, <1>15, <1>16, <1>17 DEF Next

\* Every variable keeps the values it is declared for, whatever is reported, in
\* whatever order, and wherever the process dies or a write fails.
THEOREM TypeCorrect == Spec => []TypeOK
<1>1. KarmaInv => TypeOK  BY DEF KarmaInv
<1> QED  BY InitKarma, StepKarma, <1>1, PTL DEF Spec

\* Membership, eviction, suspension and level, each kept in two places, agree in
\* memory at every step of every call of ZDXKarmaSystem and in every file its
\* load may find.
THEOREM StateConsistent == Spec => []Consistent
<1>1. KarmaInv => Consistent
  <2> SUFFICES ASSUME KarmaInv PROVE Consistent  OBVIOUS
  <2>1. Agrees(Loaded(disk)) /\ LevelsAgree(Loaded(disk), {})
    BY LoadedOK, Parts
  <2>2. Agrees(Snapshot) /\ LevelsAgree(Snapshot, Lagging)  BY DEF KarmaInv
  <2> QED  BY <2>1, <2>2 DEF Consistent, Agrees, Lagging
<1> QED  BY InitKarma, StepKarma, <1>1, PTL DEF Spec
\* Memory and file know the same evictions, unless a save is ahead or one raised.
SavedInv ==
  failures = 0 /\ pc \in {"idle", "decay", "decayed"} =>
    eviction_queue = Loaded(disk).eviction_queue

LEMMA StepSaved == TypeOK /\ SavedInv /\ [Next]_vars => SavedInv'
<1> SUFFICES ASSUME TypeOK, SavedInv, [Next]_vars PROVE SavedInv'  OBVIOUS
<1> USE DEF SavedInv
<1>1. ASSUME NEW n \in Nodes, NEW s, NEW e, NEW severe, Apply(n, s, e, severe)
      PROVE  SavedInv'
  <2>1. pc' \in {"evict", "save"}  BY <1>1 DEF Apply, ThenSave
  <2> QED  BY <2>1
<1>2. ASSUME Call, eviction_queue' = eviction_queue PROVE SavedInv'
  BY <1>2 DEF Call, Loaded
<1>3. ASSUME disk' = disk, eviction_queue' = eviction_queue,
             failures' = failures, pc' = pc \/ pc \in {"decay", "decayed"}
      PROVE  SavedInv'
  BY <1>3 DEF Loaded
<1>4. ASSUME NEW n \in Nodes, NEW e \in Events, NEW severe \in BOOLEAN,
             ReportEvent(n, e, severe)
      PROVE  SavedInv'
  BY <1>1, <1>4 DEF ReportEvent
<1>5. ASSUME NEW n \in Nodes, NEW c \in Clusters, NEW cycle \in BOOLEAN,
             RegisterActivity(n, c, cycle)
      PROVE  SavedInv'
  BY <1>1, <1>2, <1>5 DEF RegisterActivity
<1>6. ASSUME NEW n \in Nodes, NEW c \in Clusters,
             JoinCluster(n, c) \/ LeaveCluster(n, c)
      PROVE  SavedInv'
  BY <1>2, <1>6 DEF JoinCluster, LeaveCluster
<1>7. ASSUME NEW n \in Nodes, Query(n) \/ DecayStart(n)
      PROVE  SavedInv'
  BY <1>2, <1>7 DEF Query, DecayStart, memory
<1>8. ASSUME NEW c \in Clusters, Elect(c) PROVE SavedInv'
  BY <1>2, <1>8 DEF Elect
<1>9. ASSUME NEW c \in Clusters, LeaveNext(c) PROVE SavedInv'
  BY <1>9 DEF LeaveNext
<1>10. CASE EvictionDone  BY <1>10 DEF EvictionDone
<1>11. CASE DecayOnce \/ DecayDone
  BY <1>3, <1>11 DEF DecayOnce, DecayDone, counters
<1>12. CASE SaveOpen  BY <1>12 DEF SaveOpen
<1>13. CASE SaveWrite
  <2>1. disk'.state = "ok" /\ disk'.data = Snapshot
        /\ eviction_queue' = eviction_queue
    BY <1>13 DEF SaveWrite, memory
  <2>2. Loaded(disk)' = Snapshot  BY <2>1 DEF Loaded
  <2> QED  BY <2>1, <2>2 DEF Snapshot
<1>14. CASE SaveFails  BY <1>14 DEF SaveFails, TypeOK
<1>15. CASE Tick
  BY <1>3, <1>15 DEF Tick, memory, progress, counters
<1>16. CASE Restart  BY <1>16 DEF Restart, Loaded
<1>17. CASE UNCHANGED vars  BY <1>3, <1>17 DEF vars
<1> QED
  BY <1>4, <1>5, <1>6, <1>7, <1>8, <1>9, <1>10, <1>11, <1>12, <1>13, <1>14,
     <1>15, <1>16, <1>17 DEF Next

\* A file that was never written says of nobody that it is evicted.
AbsentInv == disk.state = "absent" => disk.data.eviction_queue = {}

LEMMA StepAbsent == KarmaInv /\ AbsentInv /\ [Next]_vars => AbsentInv'
<1> SUFFICES ASSUME KarmaInv, AbsentInv, [Next]_vars PROVE AbsentInv'  OBVIOUS
<1>1. ASSUME disk' = disk PROVE AbsentInv'
  BY <1>1 DEF AbsentInv
<1>2. CASE SaveOpen
  <2>1. disk'.state = "corrupt"  BY <1>2 DEF SaveOpen, KarmaInv
  <2> QED  BY <2>1 DEF AbsentInv
<1>3. CASE SaveWrite
  <2>1. disk'.state = "ok"  BY <1>3 DEF SaveWrite
  <2> QED  BY <2>1 DEF AbsentInv
<1>4. CASE disk' # disk
  <2>1. SaveOpen \/ SaveWrite
    BY <1>4 DEF Next, Call, ReportEvent, JoinCluster, LeaveCluster, RegisterActivity,
         Query, DecayStart, LeaveNext, Elect, EvictionDone, DecayOnce, DecayDone,
         SaveFails, Tick, Restart, vars
  <2> QED  BY <1>2, <1>3, <2>1
<1> QED  BY <1>1, <1>4

\* Only a restart takes a node out of the eviction queue.
LEMMA OnlyRestartForgets ==
  ASSUME [Next]_vars, ~Restart
  PROVE  eviction_queue \subseteq eviction_queue'
<1>1. ASSUME NEW n \in Nodes, NEW s, NEW e, NEW severe, Apply(n, s, e, severe)
      PROVE  eviction_queue \subseteq eviction_queue'
  BY <1>1 DEF Apply
<1>2. ASSUME NEW n \in Nodes, NEW e \in Events, NEW severe \in BOOLEAN,
             ReportEvent(n, e, severe)
      PROVE  eviction_queue \subseteq eviction_queue'
  BY <1>1, <1>2 DEF ReportEvent
<1>3. ASSUME NEW n \in Nodes, NEW c \in Clusters, NEW cycle \in BOOLEAN,
             RegisterActivity(n, c, cycle)
      PROVE  eviction_queue \subseteq eviction_queue'
  BY <1>1, <1>3 DEF RegisterActivity
<1> QED
  BY <1>2, <1>3 DEF Next, JoinCluster, LeaveCluster, Query, DecayStart, LeaveNext,
       Elect, EvictionDone, DecayOnce, DecayDone, SaveOpen, SaveWrite, SaveFails, Tick,
       memory, vars

\* EvictionLasts, of one step.
Forgets ==
  \A n \in eviction_queue \ eviction_queue' :
    \/ disk.state = "corrupt"
    \/ /\ n \notin disk.data.eviction_queue
       /\ pc \in {"evict", "save", "write"} \/ failures > 0

LEMMA StepForgets == KarmaInv /\ SavedInv /\ AbsentInv /\ [Next]_vars => Forgets
<1> SUFFICES ASSUME KarmaInv, SavedInv, AbsentInv, [Next]_vars,
                    NEW n \in eviction_queue \ eviction_queue', disk.state # "corrupt"
             PROVE  /\ n \notin disk.data.eviction_queue
                    /\ pc \in {"evict", "save", "write"} \/ failures > 0
  BY DEF Forgets
<1>1. n \notin Loaded(disk).eviction_queue
  BY OnlyRestartForgets DEF Restart
<1>2. n \notin disk.data.eviction_queue
  BY <1>1 DEF Loaded, AbsentInv, KarmaInv, TypeOK
<1>3. failures # 0 \/ pc \notin {"idle", "decay", "decayed"}
  BY <1>1 DEF SavedInv
<1>4. /\ pc \in {"idle", "evict", "decay", "decayed", "save", "write"}
      /\ failures \in Nat
  BY DEF KarmaInv, TypeOK
<1> QED  BY <1>2, <1>3, <1>4

\* However many calls, crashes and exceptions: ZDXKarmaSystem forgets an evicted
\* node only in a restart that finds a save cut off, or whose file never had it,
\* the call that evicts it being under way or a save having raised.
THEOREM EvictionsLast == Spec => EvictionLasts
<1>1. Init => SavedInv /\ AbsentInv
  BY DEF Init, SavedInv, AbsentInv, Loaded, Nothing
<1>2. KarmaInv => TypeOK  BY DEF KarmaInv
<1>3. KarmaInv /\ SavedInv /\ AbsentInv /\ [Next]_vars => [Forgets]_vars
  BY StepForgets
<1>4. Spec => [][Forgets]_vars
  BY <1>1, <1>2, <1>3, InitKarma, StepKarma, StepSaved, StepAbsent, PTL DEF Spec
<1> QED  BY <1>4 DEF EvictionLasts, Forgets
-----------------------------------------------------------------------------
(* Elections.                                                              *)

\* What elect_master_node decides on is what the documentation asks for.
LEMMA CandidatesEligible ==
  ASSUME KarmaInv, pc = "idle", NEW c \in Clusters, NEW m \in Nodes
  PROVE  /\ m \in Candidates(c) <=> Eligible(m, c)
         /\ m \in clusters[c] => m \in DOMAIN scores /\ Score(m) = scores[m]
<1>1. /\ Score(m) \in Scores /\ Timely(Score(m)) /\ Leveled(Score(m))
      /\ m \in clusters[c] <=> c \in Score(m).cluster_memberships
      /\ m \in eviction_queue <=> Score(m).eviction_pending
  BY ScoreOK
<1>2. clock \in Nat  BY DEF KarmaInv, TypeOK
<1>3. m \in clusters[c] => m \in DOMAIN scores /\ Score(m) = scores[m]
  BY <1>1, NewScoreType DEF Score
<1>4. ~Lifted(Score(m)).suspension_status <=>
        \/ Score(m).suspension_time = NoTime
        \/ clock - Score(m).suspension_time > Suspension
  <2> DEFINE s == Score(m)
  <2>1. s \in Scores /\ Timely(s)  BY <1>1
  <2> HIDE DEF s
  <2>2. CASE Over(s)
    <3>1. Lifted(s).suspension_status = FALSE
      BY <2>1, <2>2 DEF Lifted, Scores
    <3> QED  BY <3>1, <2>2 DEF Over, s
  <2>3. CASE ~Over(s)
    <3>1. Lifted(s) = s  BY <2>3 DEF Lifted
    <3>2. ~s.suspension_status <=> \/ s.suspension_time = NoTime
                                   \/ clock - s.suspension_time > Suspension
      BY <1>2, <2>1, <2>3, KarmaAssumption DEF Over, Timely, Scores
    <3> QED  BY <3>1, <3>2 DEF s
  <2> QED  BY <2>2, <2>3
<1>5. Score(m).level = "MASTER" <=> ComputeLevel(Score(m).total_experience) = "MASTER"
  BY <1>1 DEF Leveled
<1>6. m \in Candidates(c) <=>
        /\ m \in clusters[c] /\ Score(m).level = "MASTER"
        /\ ~Lifted(Score(m)).suspension_status
        /\ ~Score(m).eviction_pending /\ Score(m).karma > 0
  BY DEF Candidates
<1> QED  BY <1>1, <1>3, <1>4, <1>5, <1>6 DEF Eligible

\* elect_master_node answers a node of the cluster that is a MASTER by its
\* experience, of positive karma, not evicted and not lately suspended, of the
\* largest mass among them, and nobody only when there is none: although it
\* looks at a cached level, at flags, and at suspensions lifted when read.
THEOREM ElectionsSound == Spec => ElectionSound
<1> DEFINE Sound ==
      elected' # elected =>
        LET c == elected'.cluster
            n == elected'.node
        IN  /\ n = NoNode <=> \A m \in Nodes : ~Eligible(m, c)
            /\ n # NoNode =>
                 /\ Eligible(n, c)
                 /\ \A m \in Nodes : Eligible(m, c) =>
                      CandidateMass(scores[m]) <= CandidateMass(scores[n])
<1>1. ASSUME KarmaInv, NEW c \in Clusters, Elect(c) PROVE Sound
  <2>1. /\ pc = "idle" /\ Candidates(c) \subseteq Nodes /\ NoNode \notin Nodes
    BY <1>1, KarmaAssumption DEF Elect, Call, Candidates, KarmaInv, TypeOK
  <2>2. PICK n \in Candidates(c) \cup {NoNode} :
          /\ n = NoNode <=> Candidates(c) = {}
          /\ \A m \in Candidates(c) :
               CandidateMass(Score(m)) <= CandidateMass(Score(n))
          /\ elected' = [call |-> calls + 1, cluster |-> c, node |-> n]
    BY <1>1 DEF Elect
  <2>3. elected'.cluster = c /\ elected'.node = n  BY <2>2
  <2>4. \A m \in Nodes : m \in Candidates(c) <=> Eligible(m, c)
    BY <1>1, <2>1, CandidatesEligible
  <2>5. \A m \in Candidates(c) : Score(m) = scores[m]
    BY <1>1, <2>1, CandidatesEligible DEF Candidates
  <2>6. n = NoNode <=> \A m \in Nodes : ~Eligible(m, c)
    BY <2>1, <2>2, <2>4
  <2>7. ASSUME n # NoNode
        PROVE  /\ Eligible(n, c)
               /\ \A m \in Nodes : Eligible(m, c) =>
                    CandidateMass(scores[m]) <= CandidateMass(scores[n])
    <3>1. n \in Candidates(c)  BY <2>2, <2>7
    <3> QED  BY <2>1, <2>2, <2>4, <2>5, <3>1
  <2> QED  BY <2>3, <2>6, <2>7
<1>2. ASSUME elected' = elected PROVE Sound  BY <1>2
<1>3. KarmaInv /\ [Next]_vars => Sound
  <2> SUFFICES ASSUME KarmaInv, [Next]_vars PROVE Sound  OBVIOUS
  <2>1. ASSUME NEW n \in Nodes, NEW s, NEW e, NEW severe, Apply(n, s, e, severe)
        PROVE  elected' = elected
    BY <2>1 DEF Apply, ThenSave
  <2>2. \/ elected' = elected
        \/ \E c \in Clusters : Elect(c)
    BY <2>1 DEF Next, vars, ReportEvent, JoinCluster, LeaveCluster,
       RegisterActivity, Query, DecayStart, LeaveNext, EvictionDone, DecayOnce,
       DecayDone, SaveOpen, SaveWrite, SaveFails, Tick, Restart, Return, ThenSave
  <2> QED  BY <1>1, <1>2, <2>2
<1>4. KarmaInv /\ [Next]_vars => [Sound]_vars  BY <1>3
<1> QED  BY <1>4, InitKarma, StepKarma, PTL DEF Spec, ElectionSound
-----------------------------------------------------------------------------
(***************************************************************************)
(* The finding EvictedLeft, bounded from the other side: the two ways the  *)
(* code has of leaving an evicted node in a cluster are all there are.     *)
(***************************************************************************)
Evicting == subject # NoNode /\ pc \in {"evict", "save", "write"}

\* No activity of an evicted node is registered, and neither a crash nor a
\* failed write cuts an eviction short.
Undisturbed ==
  /\ ~\E n \in eviction_queue, c \in Clusters, cycle \in BOOLEAN :
        RegisterActivity(n, c, cycle)
  /\ ~(Evicting /\ (SaveFails \/ Restart))

\* An evicted node that is in a cluster still is the one being evicted, in
\* memory and in the file a restart would load; and what the file says of it
\* after a save in the middle of the eviction is what the memory says.
OnlyLeaving ==
  \A n \in eviction_queue, c \in Clusters :
    n \in clusters[c] => Evicting /\ n = subject

OnlyLeavingOnDisk ==
  disk.state = "ok" =>
    \A n \in disk.data.eviction_queue, c \in Clusters :
      n \in disk.data.clusters[c] =>
        /\ Evicting /\ n = subject
        /\ pc = "evict" => n \in clusters[c]

LeavingInv == OnlyLeaving /\ OnlyLeavingOnDisk

LEMMA NothingLeaving ==
  ASSUME LeavingInv, ~Evicting
  PROVE  \A n \in Loaded(disk).eviction_queue, c \in Clusters :
           n \notin Loaded(disk).clusters[c]
BY DEF LeavingInv, OnlyLeavingOnDisk, Loaded, Nothing

\* Outside an eviction, a step that evicts and enters nobody into a cluster, or
\* enters only a node that is not evicted, keeps the file and starts no other
\* eviction.
LEMMA NobodyLeft ==
  ASSUME LeavingInv, ~Evicting, disk' = disk,
         \A n \in eviction_queue', c \in Clusters :
           n \in clusters'[c] =>
             \/ n \in eviction_queue /\ n \in clusters[c]
             \/ Evicting' /\ n = subject'
  PROVE  LeavingInv'
<1>1. \A n \in eviction_queue, c \in Clusters : n \notin clusters[c]
  BY DEF LeavingInv, OnlyLeaving
<1>2. OnlyLeaving'  BY <1>1 DEF OnlyLeaving
<1>3. OnlyLeavingOnDisk'  BY DEF LeavingInv, OnlyLeavingOnDisk
<1> QED  BY <1>2, <1>3 DEF LeavingInv

LEMMA ApplyLeaving ==
  ASSUME KarmaInv, LeavingInv, NEW n \in Nodes, NEW s, NEW e, NEW severe,
         Call, Apply(n, s, e, severe),
         \A m \in Nodes, c \in Clusters :
           m \in clusters'[c] =>
             m \in clusters[c] \/ (m = n /\ n \notin eviction_queue)
  PROVE  LeavingInv'
<1>1. ~Evicting /\ disk' = disk  BY DEF Call, Evicting
<1>2. eviction_queue \subseteq Nodes  BY DEF KarmaInv, TypeOK
<1>3. CASE Evicts(s, e)
  <2>1. /\ eviction_queue' = eviction_queue \cup {n}
        /\ pc' = "evict" /\ subject' = n /\ n # NoNode
    BY <1>3, KarmaAssumption DEF Apply
  <2> QED
    BY <1>1, <1>2, <2>1, NobodyLeft DEF Evicting
<1>4. CASE ~Evicts(s, e)
  <2>1. eviction_queue' = eviction_queue  BY <1>4 DEF Apply
  <2> QED
    BY <1>1, <1>2, <2>1, NobodyLeft
<1> QED  BY <1>3, <1>4

\* A call that evicts nobody, and enters only a node that is not evicted.
LEMMA CallLeaving ==
  ASSUME KarmaInv, LeavingInv, Call, eviction_queue' = eviction_queue,
         \A m \in Nodes, c \in Clusters :
           m \in clusters'[c] => m \in clusters[c] \/ m \notin eviction_queue
  PROVE  LeavingInv'
<1>1. ~Evicting /\ disk' = disk  BY DEF Call, Evicting
<1>2. eviction_queue \subseteq Nodes  BY DEF KarmaInv, TypeOK
<1> QED  BY <1>1, <1>2, NobodyLeft

\* A step that leaves the memory and the file, and goes on with an eviction if
\* one is under way.
LEMMA SameLeaving ==
  ASSUME LeavingInv, UNCHANGED <<clusters, eviction_queue, disk>>,
         Evicting => Evicting' /\ subject' = subject /\ pc' = pc
  PROVE  LeavingInv'
<1>1. OnlyLeaving'  BY DEF LeavingInv, OnlyLeaving
<1>2. OnlyLeavingOnDisk'  BY DEF LeavingInv, OnlyLeavingOnDisk
<1> QED  BY <1>1, <1>2 DEF LeavingInv

LEMMA StepLeaving ==
  KarmaInv /\ LeavingInv /\ [Next /\ Undisturbed]_vars => LeavingInv'
<1> SUFFICES ASSUME KarmaInv, LeavingInv, [Next /\ Undisturbed]_vars
             PROVE  LeavingInv'
  OBVIOUS
<1>0. /\ clusters \in [Clusters -> SUBSET Nodes] /\ eviction_queue \subseteq Nodes
      /\ subject \in DOMAIN scores \cup {NoNode}
      /\ pc = "evict" => subject \in DOMAIN scores
      /\ DOMAIN scores \subseteq Nodes /\ NoNode \notin Nodes
  BY KarmaAssumption DEF KarmaInv, TypeOK
<1>1. ASSUME NEW n \in Nodes, NEW e \in Events, NEW severe \in BOOLEAN,
             ReportEvent(n, e, severe)
      PROVE  LeavingInv'
  <2>1. Call /\ Apply(n, Score(n), e, severe) /\ clusters' = clusters
    BY <1>1 DEF ReportEvent
  <2> QED  BY <2>1, ApplyLeaving
<1>2. ASSUME NEW n \in Nodes, NEW c \in Clusters, JoinCluster(n, c)
      PROVE  LeavingInv'
  <2>1. \A m \in Nodes, d \in Clusters :
          m \in clusters'[d] => m \in clusters[d] \/ m \notin eviction_queue
    BY <1>0, <1>2 DEF JoinCluster, CanParticipate
  <2> QED  BY <1>2, <2>1, CallLeaving DEF JoinCluster
<1>3. ASSUME NEW n \in Nodes, NEW c \in Clusters, LeaveCluster(n, c)
      PROVE  LeavingInv'
  <2>1. \A m \in Nodes, d \in Clusters :
          m \in clusters'[d] => m \in clusters[d]
    BY <1>0, <1>3 DEF LeaveCluster
  <2> QED  BY <1>3, <2>1, CallLeaving DEF LeaveCluster
<1>4. ASSUME NEW n \in Nodes, NEW c \in Clusters, NEW cycle \in BOOLEAN,
             RegisterActivity(n, c, cycle), Undisturbed
      PROVE  LeavingInv'
  <2>1. n \notin eviction_queue  BY <1>4 DEF Undisturbed
  <2>2. \A m \in Nodes, d \in Clusters :
          m \in clusters'[d] => m \in clusters[d] \/ m = n
    BY <1>0, <1>4 DEF RegisterActivity
  <2>3. Call  BY <1>4 DEF RegisterActivity
  <2>4. CASE cycle
    BY <1>4, <2>1, <2>2, <2>3, <2>4, ApplyLeaving DEF RegisterActivity
  <2>5. CASE ~cycle
    BY <1>4, <2>1, <2>2, <2>3, <2>5, CallLeaving DEF RegisterActivity
  <2> QED  BY <2>4, <2>5
<1>5. ASSUME NEW n \in Nodes, Query(n) \/ DecayStart(n) PROVE LeavingInv'
  BY <1>5, CallLeaving DEF Query, DecayStart, memory
<1>6. ASSUME NEW c \in Clusters, Elect(c) PROVE LeavingInv'
  BY <1>6, CallLeaving DEF Elect
<1>7. ASSUME NEW c \in Clusters, LeaveNext(c) PROVE LeavingInv'
  <2>1. /\ pc = "evict" /\ pc' = "save" /\ subject' = subject
        /\ clusters' = [clusters EXCEPT ![c] = @ \ {subject}]
        /\ eviction_queue' = eviction_queue /\ disk' = disk
        /\ subject # NoNode
    BY <1>0, <1>7 DEF LeaveNext
  <2>2. Evicting /\ Evicting'  BY <2>1 DEF Evicting
  <2>3. OnlyLeaving'
    BY <1>0, <2>1, <2>2 DEF LeavingInv, OnlyLeaving
  <2>4. OnlyLeavingOnDisk'
    BY <2>1, <2>2 DEF LeavingInv, OnlyLeavingOnDisk
  <2> QED  BY <2>3, <2>4 DEF LeavingInv
<1>8. CASE EvictionDone
  <2>1. /\ pc = "evict" /\ pc' = "save" /\ subject' = NoNode
        /\ scores[subject].cluster_memberships = {}
        /\ clusters' = clusters /\ eviction_queue' = eviction_queue
        /\ disk' = disk /\ subject \in DOMAIN scores
    BY <1>0, <1>8 DEF EvictionDone, memory
  <2>2. \A c \in Clusters : subject \notin clusters[c]
    BY <1>0, <2>1 DEF KarmaInv, Agrees, MembershipAgrees, Snapshot
  <2>3. OnlyLeaving'
    BY <2>1, <2>2 DEF LeavingInv, OnlyLeaving
  <2>4. OnlyLeavingOnDisk'
    BY <2>1, <2>2 DEF LeavingInv, OnlyLeavingOnDisk
  <2> QED  BY <2>3, <2>4 DEF LeavingInv
<1>9. CASE DecayOnce
  <2>1. ~Evicting /\ UNCHANGED <<clusters, eviction_queue, disk>>
    BY <1>9 DEF DecayOnce, Evicting
  <2> QED  BY <2>1, SameLeaving
<1>10. CASE DecayDone
  <2>1. ~Evicting /\ UNCHANGED <<clusters, eviction_queue, disk>>
    BY <1>10 DEF DecayDone, Evicting
  <2> QED  BY <2>1, SameLeaving
<1>11. CASE SaveOpen
  <2>1. /\ pc = "save" /\ pc' = "write" /\ subject' = subject
        /\ clusters' = clusters /\ eviction_queue' = eviction_queue
    BY <1>11 DEF SaveOpen, memory
  <2>2. disk'.state = "corrupt"
    BY <1>11 DEF SaveOpen, KarmaInv
  <2>3. OnlyLeaving'  BY <2>1 DEF LeavingInv, OnlyLeaving, Evicting
  <2>4. OnlyLeavingOnDisk'  BY <2>2 DEF OnlyLeavingOnDisk
  <2> QED  BY <2>3, <2>4 DEF LeavingInv
<1>12. CASE SaveWrite
  <2>1. /\ pc = "write" /\ subject' = subject
        /\ pc' = IF subject = NoNode THEN "idle" ELSE "evict"
        /\ clusters' = clusters /\ eviction_queue' = eviction_queue
        /\ disk'.data.clusters = clusters
        /\ disk'.data.eviction_queue = eviction_queue
    BY <1>12 DEF SaveWrite, memory, Snapshot
  <2>2. Evicting <=> Evicting'  BY <2>1 DEF Evicting
  <2>3. OnlyLeaving'  BY <2>1, <2>2 DEF LeavingInv, OnlyLeaving
  <2>4. OnlyLeavingOnDisk'
    BY <2>1, <2>2 DEF LeavingInv, OnlyLeaving, OnlyLeavingOnDisk
  <2> QED  BY <2>3, <2>4 DEF LeavingInv
<1>13. ASSUME SaveFails, Undisturbed PROVE LeavingInv'
  <2>1. ~Evicting /\ UNCHANGED <<clusters, eviction_queue, disk>>
    BY <1>13 DEF SaveFails, memory, Undisturbed
  <2> QED  BY <2>1, SameLeaving
<1>14. CASE Tick
  BY <1>14, SameLeaving DEF Tick, memory, progress, Evicting
<1>15. ASSUME Restart, Undisturbed PROVE LeavingInv'
  <2>1. ~Evicting /\ disk' = disk
        /\ clusters' = Loaded(disk).clusters
        /\ eviction_queue' = Loaded(disk).eviction_queue
    BY <1>15 DEF Restart, Undisturbed
  <2> QED  BY <2>1, NothingLeaving, NobodyLeft
<1>16. CASE UNCHANGED vars
  BY <1>16, SameLeaving DEF vars, Evicting
<1> QED
  BY <1>1, <1>2, <1>3, <1>4, <1>5, <1>6, <1>7, <1>8, <1>9, <1>10, <1>11,
     <1>12, <1>13, <1>14, <1>15, <1>16 DEF Next

\* As long as no activity of an evicted node is registered, no eviction is cut
\* short by a crash and no write of one raises, a node that was evicted is in no
\* cluster once the call has returned: whatever else is reported, joined, left,
\* elected or decayed, and wherever else the process dies or a write fails.  Of
\* register_cluster_activity and of _mark_eviction nothing but that breaks what
\* the documentation promises of evicted nodes.
THEOREM EvictedLeave == Init /\ [][Next /\ Undisturbed]_vars => []EvictedLeft
<1>1. Init => LeavingInv
  BY DEF Init, Nothing, LeavingInv, OnlyLeaving, OnlyLeavingOnDisk
<1>2. LeavingInv => EvictedLeft
  BY DEF LeavingInv, OnlyLeaving, EvictedLeft, Evicting
<1>3. [Next /\ Undisturbed]_vars => [Next]_vars  OBVIOUS
<1> QED  BY <1>1, <1>2, <1>3, InitKarma, StepKarma, StepLeaving, PTL

-----------------------------------------------------------------------------
(***************************************************************************)
(* "Permanent eviction": for ever, where no save is cut off.               *)
(***************************************************************************)
\* No write raises, and the process does not die while the file is open.
Uncut == ~SaveFails /\ ~(Restart /\ pc = "write")

\* The file can be read except while it is written, and then disk.data is what
\* was saved before; what is saved is evicted, and what is evicted is saved
\* whenever no save is ahead.
SettledInv ==
  /\ disk.state = "corrupt" => pc = "write"
  /\ disk.state = "absent" => disk.data.eviction_queue = {}
  /\ disk.data.eviction_queue \subseteq eviction_queue
  /\ pc \in {"idle", "decay", "decayed"} =>
       eviction_queue \subseteq disk.data.eviction_queue

\* An eviction that was saved stays saved.
SettledGrows == disk.data.eviction_queue \subseteq disk'.data.eviction_queue

\* A step that keeps the file and evicts somebody, or nobody, before a save.
LEMMA QueueGrows ==
  ASSUME SettledInv, disk' = disk, pc # "write",
         eviction_queue \subseteq eviction_queue',
         pc' \in {"evict", "save"} \/ (eviction_queue' = eviction_queue
                                       /\ pc \in {"idle", "decay", "decayed"})
  PROVE  SettledInv' /\ SettledGrows
BY DEF SettledInv, SettledGrows

LEMMA StepSettled ==
  KarmaInv /\ SettledInv /\ [Next /\ Uncut]_vars => SettledInv' /\ SettledGrows
<1> SUFFICES ASSUME KarmaInv, SettledInv, [Next /\ Uncut]_vars
             PROVE  SettledInv' /\ SettledGrows
  OBVIOUS
<1>0. /\ disk = [state |-> disk.state, data |-> disk.data]
      /\ disk.state \in {"absent", "corrupt", "ok"}
  BY DEF KarmaInv, TypeOK
<1>1. ASSUME NEW n \in Nodes, NEW s, NEW e, NEW severe, Call,
             Apply(n, s, e, severe)
      PROVE  SettledInv' /\ SettledGrows
  <2>1. pc' \in {"evict", "save"} /\ eviction_queue \subseteq eviction_queue'
    BY <1>1 DEF Apply, ThenSave
  <2>2. disk' = disk /\ pc # "write"  BY <1>1 DEF Call
  <2> QED  BY <2>1, <2>2, QueueGrows
<1>2. ASSUME Call, eviction_queue' = eviction_queue
      PROVE  SettledInv' /\ SettledGrows
  BY <1>2, QueueGrows DEF Call
<1>3. ASSUME NEW n \in Nodes, NEW e \in Events, NEW severe \in BOOLEAN,
             ReportEvent(n, e, severe)
      PROVE  SettledInv' /\ SettledGrows
  BY <1>1, <1>3 DEF ReportEvent
<1>4. ASSUME NEW n \in Nodes, NEW c \in Clusters, NEW cycle \in BOOLEAN,
             RegisterActivity(n, c, cycle)
      PROVE  SettledInv' /\ SettledGrows
  <2>1. Call  BY <1>4 DEF RegisterActivity
  <2> QED  BY <1>1, <1>2, <1>4, <2>1 DEF RegisterActivity
<1>5. ASSUME NEW n \in Nodes, NEW c \in Clusters,
             JoinCluster(n, c) \/ LeaveCluster(n, c)
      PROVE  SettledInv' /\ SettledGrows
  BY <1>2, <1>5 DEF JoinCluster, LeaveCluster
<1>6. ASSUME NEW n \in Nodes, Query(n) \/ DecayStart(n)
      PROVE  SettledInv' /\ SettledGrows
  BY <1>2, <1>6 DEF Query, DecayStart, memory
<1>7. ASSUME NEW c \in Clusters, Elect(c) PROVE SettledInv' /\ SettledGrows
  BY <1>2, <1>7 DEF Elect
<1>8. ASSUME NEW c \in Clusters, LeaveNext(c) PROVE SettledInv' /\ SettledGrows
  BY <1>8, QueueGrows DEF LeaveNext
<1>9. CASE EvictionDone  BY <1>9, QueueGrows DEF EvictionDone, memory
<1>10. CASE DecayOnce
  <2>1. /\ pc \in {"decay", "decayed"} /\ disk' = disk
        /\ eviction_queue' = eviction_queue
    BY <1>10 DEF DecayOnce
  <2> QED  BY <2>1, QueueGrows
<1>11. CASE DecayDone
  <2>1. /\ pc \in {"decay", "decayed"} /\ disk' = disk
        /\ eviction_queue' = eviction_queue
    BY <1>11 DEF DecayDone
  <2> QED  BY <2>1, QueueGrows
<1>12. CASE SaveOpen
  <2>1. /\ disk'.state = "corrupt" /\ disk'.data = disk.data /\ pc' = "write"
        /\ eviction_queue' = eviction_queue
    BY <1>0, <1>12 DEF SaveOpen, memory
  <2> QED  BY <2>1 DEF SettledInv, SettledGrows
<1>13. CASE SaveWrite
  <2>1. /\ disk'.state = "ok" /\ disk'.data.eviction_queue = eviction_queue
        /\ eviction_queue' = eviction_queue
    BY <1>13 DEF SaveWrite, memory, Snapshot
  <2> QED  BY <2>1 DEF SettledInv, SettledGrows
<1>14. CASE Tick
  BY <1>14 DEF Tick, memory, progress, SettledInv, SettledGrows
<1>15. ASSUME Restart, pc # "write" PROVE SettledInv' /\ SettledGrows
  <2>1. /\ disk' = disk /\ pc' = "idle"
        /\ eviction_queue' = Loaded(disk).eviction_queue
    BY <1>15 DEF Restart
  <2>2. Loaded(disk).eviction_queue = disk.data.eviction_queue
    BY <1>0, <1>15 DEF SettledInv, Loaded, Nothing
  <2> QED  BY <1>15, <2>1, <2>2 DEF SettledInv, SettledGrows
<1>16. CASE UNCHANGED vars
  BY <1>16 DEF vars, SettledInv, SettledGrows
<1> QED
  BY <1>3, <1>4, <1>5, <1>6, <1>7, <1>8, <1>9, <1>10, <1>11, <1>12, <1>13,
     <1>14, <1>15, <1>16 DEF Next, Uncut

\* A node that is evicted when a call of ZDXKarmaSystem has returned is evicted
\* for ever after, whatever is reported and wherever the process restarts, as
\* long as no save is cut off half way or raises: nothing the class does takes an
\* eviction back, and the file is the only place where one can be lost.
THEOREM EvictionIsPermanent ==
  ASSUME NEW n \in Nodes
  PROVE  Init /\ [][Next /\ Uncut]_vars =>
           [](pc = "idle" /\ n \in eviction_queue => [](n \in eviction_queue))
<1> DEFINE Evicted == n \in eviction_queue
           Settled == n \in disk.data.eviction_queue
<1>1. Init => SettledInv  BY DEF Init, SettledInv, Nothing
<1>2. [Next /\ Uncut]_vars => [Next]_vars  OBVIOUS
<1>3. KarmaInv /\ SettledInv /\ [Next /\ Uncut]_vars /\ Settled => Settled'
  BY StepSettled DEF SettledGrows
<1>4. SettledInv /\ pc = "idle" /\ Evicted => Settled  BY DEF SettledInv
<1>5. SettledInv /\ Settled => Evicted  BY DEF SettledInv
<1> HIDE DEF Settled
<1> QED
  BY <1>1, <1>2, <1>3, <1>4, <1>5, InitKarma, StepKarma, StepSettled, PTL
-----------------------------------------------------------------------------
(* Calls end.                                                              *)

\* An eviction under way: three steps for each cluster that is left to leave,
\* which are the change and its save, and the last save.
Leaving == IF subject = NoNode THEN 0
           ELSE 3 * Cardinality(scores[subject].cluster_memberships) + 3

\* The steps a call has left, at most.
StepsLeft == CASE pc = "idle"  -> 0
               [] pc = "evict" -> Leaving
               [] pc = "write" -> Leaving + 1
               [] pc = "save"  -> Leaving + 2
               [] OTHER        -> periods + 3

CountsDown == pc # "idle" /\ clock' = clock => StepsLeft' < StepsLeft

LEMMA MembershipsFinite ==
  ASSUME KarmaInv, IsFiniteSet(Clusters), NEW n \in DOMAIN scores
  PROVE  /\ IsFiniteSet(scores[n].cluster_memberships)
         /\ Cardinality(scores[n].cluster_memberships) \in Nat
<1>1. scores[n].cluster_memberships \in SUBSET Clusters
  BY DEF KarmaInv, TypeOK, Scores
<1> QED  BY <1>1, FS_Subset, FS_CardinalityType

LEMMA LeavingNat ==
  ASSUME KarmaInv, IsFiniteSet(Clusters)
  PROVE  Leaving \in Nat
<1>1. CASE subject = NoNode  BY <1>1 DEF Leaving
<1>2. CASE subject # NoNode
  <2>1. subject \in DOMAIN scores  BY <1>2 DEF KarmaInv, TypeOK
  <2>2. Cardinality(scores[subject].cluster_memberships) \in Nat
    BY <2>1, MembershipsFinite
  <2> QED  BY <2>2 DEF Leaving
<1> QED  BY <1>1, <1>2

\* A cluster is left: one membership fewer, of the same node.
LEMMA LeaveCounts ==
  ASSUME KarmaInv, IsFiniteSet(Clusters), NEW c \in Clusters, LeaveNext(c)
  PROVE  Leaving' = Leaving - 3
<1> DEFINE m == scores[subject].cluster_memberships
<1>1. /\ subject \in DOMAIN scores /\ subject # NoNode /\ subject' = subject
      /\ c \in m /\ DOMAIN scores \subseteq Nodes
      /\ scores \in [DOMAIN scores -> Scores]
      /\ scores' = [scores EXCEPT ![subject].cluster_memberships = @ \ {c}]
  BY KarmaAssumption DEF LeaveNext, KarmaInv, TypeOK
<1>2. scores'[subject].cluster_memberships = m \ {c}
  BY <1>1 DEF Scores
<1>3. IsFiniteSet(m) /\ Cardinality(m) \in Nat
  BY <1>1, MembershipsFinite
<1> HIDE DEF m
<1>4. Cardinality(m \ {c}) = Cardinality(m) - 1
  BY <1>1, <1>3, FS_RemoveElement
<1>5. Leaving = 3 * Cardinality(m) + 3  BY <1>1 DEF Leaving, m
<1>6. Leaving' = 3 * Cardinality(m \ {c}) + 3
  BY <1>1, <1>2 DEF Leaving
<1> QED  BY <1>3, <1>4, <1>5, <1>6

LEMMA StepCounts ==
  ASSUME IsFiniteSet(Clusters), KarmaInv, Next
  PROVE  CountsDown
<1> SUFFICES ASSUME pc # "idle", clock' = clock PROVE StepsLeft' < StepsLeft
  BY DEF CountsDown
<1>1. Leaving \in Nat /\ periods \in Nat
  BY LeavingNat DEF KarmaInv, TypeOK
<1>2. CASE \E c \in Clusters : LeaveNext(c)
  <2>1. PICK c \in Clusters : LeaveNext(c)  BY <1>2
  <2>2. Leaving' = Leaving - 3  BY <2>1, LeaveCounts
  <2>3. pc = "evict" /\ pc' = "save"  BY <2>1 DEF LeaveNext
  <2> HIDE DEF Leaving
  <2> QED  BY <1>1, <2>2, <2>3 DEF StepsLeft
<1>3. CASE EvictionDone
  <2>1. /\ pc = "evict" /\ pc' = "save" /\ subject' = NoNode
        /\ subject \in DOMAIN scores /\ subject # NoNode
    BY <1>3, KarmaAssumption DEF EvictionDone, KarmaInv, TypeOK
  <2>2. Leaving >= 3
    <3>1. PICK k \in Nat : k = Cardinality(scores[subject].cluster_memberships)
      BY <2>1, MembershipsFinite
    <3> QED  BY <2>1, <3>1 DEF Leaving
  <2>3. Leaving' = 0  BY <2>1 DEF Leaving
  <2> HIDE DEF Leaving
  <2> QED  BY <1>1, <2>1, <2>2, <2>3 DEF StepsLeft
<1>4. CASE SaveOpen \/ SaveWrite
  <2>1. subject' = subject /\ scores' = scores
    BY <1>4 DEF SaveOpen, SaveWrite, memory
  <2>2. Leaving' = Leaving  BY <2>1 DEF Leaving
  <2>3. CASE SaveOpen
    <3>1. pc = "save" /\ pc' = "write"  BY <2>3 DEF SaveOpen
    <3> HIDE DEF Leaving
    <3> QED  BY <1>1, <2>2, <3>1 DEF StepsLeft
  <2>4. CASE SaveWrite
    <3>1. pc = "write" /\ pc' \in {"idle", "evict"}  BY <2>4 DEF SaveWrite
    <3> HIDE DEF Leaving
    <3> QED  BY <1>1, <2>2, <3>1 DEF StepsLeft
  <2> QED  BY <1>4, <2>3, <2>4
<1>5. CASE DecayOnce
  <2>1. /\ pc \in {"decay", "decayed"} /\ pc' \in {"decay", "decayed"}
        /\ periods > 0 /\ periods' = periods - 1
    BY <1>5 DEF DecayOnce
  <2> QED  BY <1>1, <2>1 DEF StepsLeft
<1>6. CASE DecayDone
  <2>1. /\ pc \in {"decay", "decayed"} /\ pc' \in {"idle", "save"}
        /\ subject' = NoNode
    BY <1>6 DEF DecayDone
  <2>2. Leaving' = 0  BY <2>1 DEF Leaving
  <2> QED  BY <1>1, <2>1, <2>2 DEF StepsLeft
<1>7. CASE SaveFails \/ Restart
  <2>1. pc' = "idle"  BY <1>7 DEF SaveFails, Restart
  <2>2. StepsLeft >= 1
    <3>1. pc = "evict" => Leaving >= 3
      <4> SUFFICES ASSUME pc = "evict" PROVE Leaving >= 3  OBVIOUS
      <4>1. subject \in DOMAIN scores /\ subject # NoNode
        BY KarmaAssumption DEF KarmaInv, TypeOK
      <4>2. PICK k \in Nat : k = Cardinality(scores[subject].cluster_memberships)
        BY <4>1, MembershipsFinite
      <4> QED  BY <4>1, <4>2 DEF Leaving
    <3> HIDE DEF Leaving
    <3>2. pc \in {"evict", "decay", "decayed", "save", "write"}
      BY DEF KarmaInv, TypeOK
    <3> QED  BY <1>1, <3>1, <3>2 DEF StepsLeft
  <2>3. StepsLeft' = 0  BY <2>1 DEF StepsLeft
  <2>4. StepsLeft \in Nat
    <3> HIDE DEF Leaving
    <3> QED  BY <1>1 DEF StepsLeft
  <2> QED  BY <2>2, <2>3, <2>4
<1>8. ~Call  BY DEF Call
<1>9. ~Tick
  <2>1. clock \in Nat  BY DEF KarmaInv, TypeOK
  <2> QED  BY <2>1 DEF Tick
<1> QED
  BY <1>2, <1>3, <1>4, <1>5, <1>6, <1>7, <1>8, <1>9
     DEF Next, ReportEvent, JoinCluster, LeaveCluster, RegisterActivity, Query,
         DecayStart, Elect

\* A call of ZDXKarmaSystem that has begun always ends: each step but the
\* clock's brings it nearer, an eviction by the clusters that are left, a decay
\* by its periods; an exception or the end of the process ends it at once.
THEOREM CallsEnd ==
  ASSUME IsFiniteSet(Clusters)
  PROVE  Spec => [][CountsDown]_vars
<1>1. KarmaInv /\ [Next]_vars => [CountsDown]_vars
  BY StepCounts
<1> QED  BY <1>1, InitKarma, StepKarma, PTL DEF Spec
=============================================================================
