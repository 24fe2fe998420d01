------------------------------ MODULE MCSpatial ------------------------------
(***************************************************************************)
(* SpatialStore on a frame two cells wide and three high, whose first row  *)
(* executes: storage for twelve bytes.  The dictionary {} takes two bytes  *)
(* and every key four more, so that a dictionary of two keys does not fit, *)
(* and a region of two cells holds {} and nothing longer.                  *)
(***************************************************************************)
EXTENDS SpatialStore, TLC

CONSTANTS u1, u2

MCUsers == {u1, u2}
MCSymmetry == Permutations(MCUsers)

Rect(x, y, w, h) == [x |-> x, y |-> y, width |-> w, height |-> h,
                     kind |-> "data"]

\* The rows and the columns of the storage plane, and the program's row.
Halves == {Rect(0, 1, 2, 1), Rect(0, 2, 2, 1), Rect(0, 1, 1, 2),
           Rect(1, 1, 1, 2), Rect(0, 0, 2, 1)}

\* Valid or not, every way to name two of them.
MCLayouts == {[width |-> 2, height |-> 3, execution_rows |-> 1,
               regions |-> [left |-> a, right |-> b]] : a, b \in Halves}

\* A text of its own for every dictionary: one printable byte, repeated.
Rank(d) == 33 + d[1] + 3 * d[2]
MCText == [d \in [{1, 2} -> 0 .. 2] |->
             [i \in 1 .. 2 + 4 * Cardinality({k \in {1, 2} : d[k] # 0}) |->
                Rank(d)]]
=============================================================================
