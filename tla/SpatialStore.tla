---------------------------- MODULE SpatialStore ----------------------------
(***************************************************************************)
(* One spatial PNG and those who use it: SpatialPixelStore, which keeps a  *)
(* dictionary in the storage plane (zdx_pixel_memory/spatial_store.py), and *)
(* code that opens the frame and writes a named region of it               *)
(* (SpatialPyxelVM.open_spatial_frame, zdx_spatial_frame.py).              *)
(*                                                                         *)
(* Every call reads the PNG, changes the raster it read and saves it, and  *)
(* nothing keeps two users apart.  A save truncates the file and writes    *)
(* it: the process may die with the file empty, and the save may raise     *)
(* when it has emptied the file or written a part of it.                   *)
(***************************************************************************)
EXTENDS SpatialFrame, FiniteSets

CONSTANTS Layouts,      \* the layouts to choose from
          Users,        \* those who use the file
          Keys, Values, \* what dictionaries are made of
          Text,         \* of each dictionary: its JSON text, as bytes
          Code,         \* a byte of the program in the executable rows
          MaxCalls,     \* bound: calls over the whole run
          MaxCrashes,   \* bound: times the process dies
          MaxFailures   \* bound: saves that raise

Absent == 0
Dicts == [Keys -> Values \cup {Absent}]
NoKeys == [k \in Keys |-> Absent]

\* A text longer than a header can say raises in the code; none is.
ASSUME SpatialAssumption ==
  /\ \A l \in Layouts :
       /\ l.width \in Int /\ l.height \in Int /\ l.execution_rows \in Int
       /\ l.execution_rows < l.height
       /\ DOMAIN l.regions \cap {"storage", "execution"} = {}
       /\ \A n \in DOMAIN l.regions :
            l.regions[n] \in [x : Int, y : Int, width : Int, height : Int,
                             kind : {"data", "execution"}]
  /\ Code \in 0 .. 255
  /\ Absent \notin Values
  /\ \A d \in Dicts : /\ Text[d] \in Seq(1 .. 255) /\ Len(Text[d]) > 0
                       /\ Shift(Shift(Shift(Len(Text[d])))) < 256
  /\ \A d, e \in Dicts : Text[d] = Text[e] => d = e
  /\ {MaxCalls, MaxCrashes, MaxFailures} \subseteq Nat

VARIABLES
  layout,    \* the geometry every user was given
  file,      \* what is at the path
  pc,        \* of each user: where its call is
  region,    \* of each user: the region its call writes
  dict,      \* of each user: the dictionary its call will write
  edit,      \* of each user: the change a call of the store makes
  raster,    \* of each user: the frame it opened
  kept,      \* of each region: the set of the text it should hold, or {}, as
             \* for a region too small for a header
  alone,     \* no two calls so far were under way at once
  calls, crashes, failures

user == <<pc, region, dict, edit, raster>>
vars == <<layout, file, user, kept, alone, calls, crashes, failures>>

\* What is at the path: the PNG of a frame, nothing, or bytes that are not a
\* PNG.
Png(f) == [is |-> "png", frame |-> f]
Empty == [is |-> "empty", frame |-> <<>>]
Torn == [is |-> "torn", frame |-> <<>>]

Busy == {u \in Users : pc[u] # "idle"}

\* The executable rows hold a program, the storage plane is black.
Compiled(l) == [b \in 0 .. 3 * TotalCells(l) - 1 |->
                  IF b < 3 * l.width * l.execution_rows THEN Code ELSE 0]

\* Data regions of the layout.
DataRegions == {n \in DOMAIN layout.regions : layout.regions[n].kind = "data"}

\* The regions whose content a write to region n says nothing of.
Apart(n) == IF n = "storage" THEN {} ELSE DataRegions \ {n}
-----------------------------------------------------------------------------
Begin(u, label, n, d, change) ==
  /\ pc[u] = "idle"
  /\ calls < MaxCalls
  /\ calls' = calls + 1
  /\ pc' = [pc EXCEPT ![u] = label]
  /\ region' = [region EXCEPT ![u] = n]
  /\ dict' = [dict EXCEPT ![u] = d]
  /\ edit' = [edit EXCEPT ![u] = change]
  /\ alone' = (alone /\ Busy = {})
  /\ UNCHANGED <<layout, file, raster, kept, crashes, failures>>

\* write, delete and clear of the store: the first two read the dictionary
\* first, and set one key of it.
StoreSet(u) == \E k \in Keys, v \in Values \cup {Absent} :
                 Begin(u, "read", "storage", NoKeys, <<k, v>>)
StoreClear(u) == Begin(u, "open", "storage", NoKeys, <<>>)

\* open_spatial_frame, write_json into a data region, save
FrameWrite(u) == \E n \in DataRegions, d \in Dicts : Begin(u, "open", n, d, <<>>)

Return(u) == pc' = [pc EXCEPT ![u] = "idle"]
Raise(u) == Return(u) /\ UNCHANGED <<dict, raster>>

\* The dictionaries _read_all may return: none when it raises.
Stored ==
  LET holds(text) == HoldsText(layout, file.frame, StorageRegion(layout), text)
  IN IF holds(<<>>) THEN {NoKeys} ELSE {d \in Dicts : holds(Text[d])}

\* Mutant of ReadAll: a write starts from an empty dictionary.
ReadAllAnew(u) ==
  /\ pc[u] = "read"
  /\ dict' = [dict EXCEPT ![u] = [NoKeys EXCEPT ![edit[u][1]] = edit[u][2]]]
  /\ pc' = [pc EXCEPT ![u] = "open"]
  /\ UNCHANGED <<layout, file, region, edit, raster, kept, alone, calls, crashes,
                 failures>>

\* _read_all opens the file, and the call works on the dictionary it returns.
\* A delete of a key that is not there ends here.
ReadAll(u) ==
  /\ pc[u] = "read"
  /\ LET key == edit[u][1]
         value == edit[u][2]
     IN \/ /\ file.is = "png"
           /\ \E d \in Stored :
                /\ dict' = [dict EXCEPT ![u] = [d EXCEPT ![key] = value]]
                /\ pc' = [pc EXCEPT ![u] =
                            IF value = Absent /\ d[key] = Absent
                            THEN "idle" ELSE "open"]
           /\ UNCHANGED raster
        \/ /\ ~ (file.is = "png" /\ Stored # {})
           /\ Raise(u)
  /\ UNCHANGED <<layout, file, region, edit, kept, alone, calls, crashes, failures>>

\* SpatialFrame.open, a second time in a call of the store
OpenFrame(u) ==
  /\ pc[u] = "open"
  /\ \/ /\ file.is = "png"
        /\ raster' = [raster EXCEPT ![u] = file.frame]
        /\ pc' = [pc EXCEPT ![u] = "put"]
        /\ UNCHANGED dict
     \/ /\ file.is # "png"
        /\ Raise(u)
  /\ UNCHANGED <<layout, file, region, edit, kept, alone, calls, crashes, failures>>

\* write_json: the raster in memory, when the text fits the region
PutJson(u) ==
  /\ pc[u] = "put"
  /\ LET r == Region(layout, region[u])
         bytes == JsonBytes(Text[dict[u]])
     IN \/ /\ Fits(r, 0, Len(bytes))
           /\ raster' = [raster EXCEPT ![u] = WriteBytes(layout, @, r, 0, bytes)]
           /\ pc' = [pc EXCEPT ![u] = "truncate"]
           /\ UNCHANGED dict
        \/ /\ ~ Fits(r, 0, Len(bytes))
           /\ Raise(u)
  /\ UNCHANGED <<layout, file, region, edit, kept, alone, calls, crashes, failures>>

\* image.save: opens the file, and writes the PNG.  Two users that have it open
\* at once may leave a mixture.
Truncate(u) ==
  /\ pc[u] = "truncate"
  /\ file' = Empty
  /\ pc' = [pc EXCEPT ![u] = "save"]
  /\ UNCHANGED <<layout, region, dict, edit, raster, kept, alone, calls,
                 crashes, failures>>

Save(u) ==
  /\ pc[u] = "save"
  /\ LET png == Png(raster[u])
     IN file' \in IF file \in {Empty, png} THEN {png} ELSE {png, Torn}
  /\ Return(u)
  /\ kept' = [n \in DOMAIN kept |-> IF n = region[u] THEN {Text[dict[u]]}
                                    ELSE IF n \in Apart(region[u]) THEN kept[n]
                                    ELSE {}]
  /\ UNCHANGED <<layout, region, dict, edit, raster, alone, calls, crashes,
                 failures>>

\* image.save raises, on opening the file or once it has emptied it: nothing or
\* a part of the PNG was written, and the process goes on.  To raise when all of
\* it was written is to save.
SaveFails(u) ==
  /\ failures < MaxFailures
  /\ failures' = failures + 1
  /\ \/ pc[u] = "truncate" /\ UNCHANGED file
     \/ pc[u] = "save" /\ file' \in {file, Torn}
  /\ Raise(u)
  /\ UNCHANGED <<layout, region, edit, kept, alone, calls, crashes>>

\* The process dies: calls under way end where they are.
Crash ==
  /\ crashes < MaxCrashes
  /\ crashes' = crashes + 1
  /\ pc' = [u \in Users |-> "idle"]
  /\ UNCHANGED <<layout, file, region, dict, edit, raster, kept, alone, calls,
                 failures>>
-----------------------------------------------------------------------------
Init ==
  /\ layout \in {l \in Layouts : ValidLayout(l)}
  /\ file = Png(Compiled(layout))
  /\ pc = [u \in Users |-> "idle"]
  /\ region = [u \in Users |-> "storage"]
  /\ dict = [u \in Users |-> NoKeys]
  /\ edit = [u \in Users |-> <<>>]
  /\ raster = [u \in Users |-> <<>>]
  /\ kept = [n \in DataRegions \cup {"storage"} |->
               IF Fits(Region(layout, n), 0, 4) THEN {<<>>} ELSE {}]
  /\ alone = TRUE
  /\ calls = 0 /\ crashes = 0 /\ failures = 0

Next ==
  \/ \E u \in Users :
       \/ StoreSet(u) \/ StoreClear(u) \/ FrameWrite(u)
       \/ ReadAll(u) \/ OpenFrame(u) \/ PutJson(u)
       \/ Truncate(u) \/ Save(u) \/ SaveFails(u)
  \/ Crash

Spec == Init /\ [][Next]_vars
-----------------------------------------------------------------------------
\* The variables have their types, and whatever is written a frame keeps its
\* size and its bytes stay bytes.
Frames == [DOMAIN Blank(layout) -> 0 .. 255]

TypeOK ==
  /\ layout \in Layouts
  /\ file.is \in {"png", "empty", "torn"}
  /\ file.is = "png" => file.frame \in Frames
  /\ pc \in [Users -> {"idle", "read", "open", "put", "truncate", "save"}]
  /\ region \in [Users -> Names(layout)]
  /\ dict \in [Users -> Dicts]
  /\ \A u \in Users : pc[u] \in {"put", "truncate", "save"} => raster[u] \in Frames
  /\ alone \in BOOLEAN
  /\ calls \in 0 .. MaxCalls
  /\ crashes \in 0 .. MaxCrashes
  /\ failures \in 0 .. MaxFailures

\* Storage is not execution: no interleaving of users and no crash changes the
\* executable rows of the file, as long as it is a PNG.
ProgramKept ==
  file.is = "png" =>
    LET r == ExecutionRegion(layout)
    IN \A x \in 0 .. layout.width - 1, y \in 0 .. layout.height - 1, c \in 0 .. 2 :
         Contains(r, x, y) =>
           file.frame[3 * Address(layout, x, y) + c] = Code

\* Calls that come one after the other, wherever one of them raised or its
\* process died: either each region holds what was last written to it, whatever
\* was written to the others, and the storage plane what the store last wrote
\* while no region was written; or the path holds no PNG at all, and every later
\* call raises.  The second is a save's doing that raised or was cut off.
RegionsKeep ==
  alone /\ Busy = {} =>
    IF file.is = "png"
    THEN \A n \in DOMAIN kept : \A text \in kept[n] :
           HoldsText(layout, file.frame, Region(layout, n), text)
    ELSE failures + crashes > 0

\* The dictionary the text kept for region n is of, if any is known.
Known(n) == {d \in Dicts : Text[d] \in kept[n]}
              \cup {d \in {NoKeys} : <<>> \in kept[n]}

\* A call of the store that runs alone saves the dictionary the store holds
\* with its one key changed, for as long as no region was written over it.
EditsOneKey ==
  \A u \in Users :
    /\ pc[u] = "save" /\ pc'[u] = "idle"
    /\ region[u] = "storage" /\ edit[u] # <<>>
    /\ alone
    => \A d \in Known("storage") :
         dict[u] = [d EXCEPT ![edit[u][1]] = edit[u][2]]

StoreEditsOneKey == [][EditsOneKey]_vars
=============================================================================
