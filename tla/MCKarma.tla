------------------------------- MODULE MCKarma -------------------------------
(* Small instances of KarmaSystem: the scales of karma and of experience are *)
(* a few points long, so that a handful of calls crosses every threshold.    *)
EXTENDS KarmaSystem, TLC

CONSTANTS n1, n2, c1, c2

MCEvents == {"valid_contribution", "compute_cycle_completed", "auth_failure",
             "revocation_violation"}

Delta(k, x) == [karma |-> k, xp |-> x]
MCAdjustment ==
  "valid_contribution" :> Delta(1, 2) @@ "compute_cycle_completed" :> Delta(1, 1)
  @@ "auth_failure" :> Delta(-1, -1) @@ "revocation_violation" :> Delta(-3, 0)

MCMinXP == [l \in Levels |-> IF l = "TRUSTEE" THEN 0
                             ELSE IF l = "MASTER" THEN 2 ELSE 1]
MCEvictionKarma == -1

\* Nodes are interchangeable, and so are clusters.
MCSymmetry == Permutations({n1, n2}) \cup Permutations({c1, c2})
=============================================================================
