------------------------------ MODULE ChainRun ------------------------------
(***************************************************************************)
(* What one call of execute_texture promises about the shared memory and   *)
(* its file, whatever the program: the run works on its memory, hops from  *)
(* frame to frame at most MaxHops times, and ends well or badly.  The file *)
(* is touched only by a run whose whole chain came to its end, and the     *)
(* value written is the memory that run ended with.  A process that dies   *)
(* starts again from the file.                                             *)
(***************************************************************************)
EXTENDS Naturals

CONSTANTS
  Slots,    \* addresses of the shared memory
  MaxHops,  \* bound on the frames one run may go through
  Persist,  \* whether a good run ends by writing the file
  Files     \* what the file may hold to begin with

VARIABLES
  phase,    \* idle, running, committing, truncated
  more,     \* the frame being executed has asked for another one
  result,   \* of the last run: none, ok, failed
  hops,     \* frames completed and left
  mem,      \* shared memory
  file      \* [state, data]

vars == <<phase, more, result, hops, mem, file>>

Restored(f) ==
  IF Persist /\ f.state = "ok" THEN f.data ELSE [s \in Slots |-> 0]

Init ==
  /\ phase = "idle" /\ ~more /\ result = "none" /\ hops = 0
  /\ file \in Files /\ mem = Restored(file)

Start ==
  /\ phase = "idle" /\ phase' = "running"
  /\ result' = "none" /\ hops' = 0
  /\ UNCHANGED <<more, mem, file>>

\* One instruction changes at most one slot, or what is asked for.
Work ==
  /\ phase = "running" /\ more' \in BOOLEAN
  /\ \A r, s \in Slots : mem'[r] # mem[r] /\ mem'[s] # mem[s] => r = s
  /\ DOMAIN mem' = Slots
  /\ UNCHANGED <<phase, result, hops, file>>

Hop ==
  /\ phase = "running" /\ more /\ hops + 1 < MaxHops
  /\ hops' = hops + 1
  /\ UNCHANGED <<phase, more, result, mem, file>>

\* A failure inside a frame, or a hop too many: the file keeps what it held.
Fail ==
  /\ phase = "running" /\ phase' = "idle" /\ result' = "failed"
  /\ hops' \in {hops, hops + 1}
  /\ UNCHANGED <<more, mem, file>>

Succeed ==
  /\ phase = "running" /\ ~more /\ ~Persist
  /\ phase' = "idle" /\ result' = "ok"
  /\ UNCHANGED <<more, hops, mem, file>>

Settle ==
  /\ phase = "running" /\ ~more /\ Persist
  /\ phase' = "committing"
  /\ UNCHANGED <<more, result, hops, mem, file>>

Truncate ==
  /\ phase = "committing" /\ phase' = "truncated"
  /\ file' = [file EXCEPT !.state = "corrupt"]
  /\ UNCHANGED <<more, result, hops, mem>>

\* The save may fail at either step; the run is reported good all the same.
Commit ==
  /\ phase \in {"committing", "truncated"}
  /\ phase' = "idle" /\ result' = "ok"
  /\ \/ UNCHANGED file
     \/ phase = "truncated" /\ file' = [state |-> "ok", data |-> mem]
  /\ UNCHANGED <<more, hops, mem>>

Restart ==
  /\ phase' = "idle" /\ ~more' /\ result' = "none"
  /\ mem' = Restored(file)
  /\ UNCHANGED <<hops, file>>

Next ==
  Start \/ Work \/ Hop \/ Fail \/ Succeed \/ Settle \/ Truncate \/ Commit
  \/ Restart

Spec == Init /\ [][Next]_vars
=============================================================================
