------------------------------ MODULE PixelStore ------------------------------
(***************************************************************************)
(* The memory of an agent: zdx_pixel_memory/agent_memory.py over the store *)
(* of one PNG per key and an index, zdx_pixel_memory/store.py.             *)
(*                                                                         *)
(* A call of ZDXAgentMemory is a list of writes and deletions of the       *)
(* store, each of several operations on files: the index and the images    *)
(* are opened, which empties them, and then written.  An operation may     *)
(* raise, and the process may end, before any of them.                     *)
(***************************************************************************)
EXTENDS Naturals, Sequences, FiniteSets, Functions, SequencesExt

CONSTANTS
  Keys,
  Items, Scalars,      \* what lists are made of; values that are no list
  Slug,                \* _SAFE_KEY.sub: key -> its name in the old scheme
  MaxList,             \* bound: items of a list
  MaxCalls, MaxFailures, MaxCrashes    \* bounds

Values == BoundedSeq(Items, MaxList) \cup Scalars

ASSUME StoreAssumption ==
  /\ Scalars \cap BoundedSeq(Items, MaxList) = {}
  /\ IsFiniteSet(Keys) /\ Keys # {}
  /\ DOMAIN Slug = Keys
  /\ MaxList \in Nat \ {0}
  /\ {MaxCalls, MaxFailures, MaxCrashes} \subseteq Nat

\* A file: what reading it gives.  One that was cut off cannot be decoded.
Absent  == [state |-> "absent"]
Torn    == [state |-> "torn"]
Good(v) == [state |-> "ok", value |-> v]
Images  == {Absent, Torn} \cup {Good(v) : v \in Values}

Slugs == Range(Slug)

\* Mutant of FileName: the name of the old scheme.
OldFileName(k) == <<Slug[k], Slug[k]>>

\* _make_filename: the slug and a hash of the key, taken to tell keys apart.
FileName(k) == <<Slug[k], k>>

Files == {FileName(k) : k \in Keys}

VARIABLES
  index,         \* _index: the keys in it, each with its FileName
  index_file,    \* keys.json: [state, keys]
  images,        \* file -> image
  old_images,    \* slug -> image of the old scheme, _old_path
  todo,          \* operations left of the call: [op, key, value]
  pc,            \* where the first of them is
  kept,          \* what completed operations promise: key -> image
  calls, failures, crashes

vars == <<index, index_file, images, old_images, todo, pc, kept, calls,
          failures, crashes>>

\* PixelStore.read, exists, for an index.
Read(ix, k) ==
  IF k \in ix /\ images[FileName(k)] # Absent THEN images[FileName(k)]
  ELSE old_images[Slug[k]]

Exists(k) == IF k \in index THEN images[FileName(k)] # Absent
             ELSE old_images[Slug[k]] # Absent

\* _load_index, by a new store: an index that cannot be read is an empty one.
Loaded == IF index_file.state = "ok" THEN index_file.keys ELSE {}

-----------------------------------------------------------------------------
\* A directory the old scheme may have left files in.
Init ==
  /\ index = {} /\ index_file = [state |-> "absent", keys |-> {}]
  /\ images = [f \in Files |-> Absent]
  /\ old_images \in [Slugs -> {Absent, Good(<<>>)}]
  /\ todo = <<>> /\ pc = "idle"
  /\ kept = [k \in {k \in Keys : \A j \in Keys : Slug[j] = Slug[k] => j = k} |->
               old_images[Slug[k]]]
  /\ calls = 0 /\ failures = 0 /\ crashes = 0

Write(k, v) == [op |-> "write", key |-> k, value |-> v]
Delete(k)   == [op |-> "delete", key |-> k]
Operations  == [op : {"write"}, key : Keys, value : Values]
                 \cup [op : {"delete"}, key : Keys]

Call(ops) ==
  /\ pc = "idle" /\ calls < MaxCalls
  /\ calls' = calls + 1
  /\ todo' = ops /\ pc' = IF ops = <<>> THEN "idle" ELSE "start"
  /\ UNCHANGED <<index, index_file, images, old_images, kept, failures, crashes>>

Remember(k, v) == Call(<<Write(k, v)>>)
Forget(k)      == Call(<<Delete(k)>>)

\* append: reads, and writes what it read with the item; a value that is no
\* list, and an image that cannot be decoded, raise before anything changes.
AppendItem(k, item) ==
  LET image == Read(index, k)
      list  == IF image = Absent THEN <<>> ELSE image.value
  IN  /\ image # Torn /\ list \notin Scalars
      /\ Len(list) < MaxList
      /\ Call(<<Write(k, Append(list, item))>>)

\* update: the writes of a dictionary of two keys, in its order.
Update(j, v, k, w) == j # k /\ Call(<<Write(j, v), Write(k, w)>>)

\* clear: the keys of the index; their order, by name, is left open.
Clear == \E ks \in SetToSeqs(index) : Call([i \in DOMAIN ks |-> Delete(ks[i])])

-----------------------------------------------------------------------------
(* The operation at the head of the call.                                  *)

Key == Head(todo).key
Goes(from, to) == pc = from /\ pc' = to

\* Mutant of StartWrite: the index is not saved.
StartWriteUnsaved ==
  /\ Goes("start", "image_open")
  /\ Head(todo).op = "write"
  /\ index' = index \cup {Key}
  /\ UNCHANGED <<index_file, images, old_images, todo, kept, calls, failures,
                 crashes>>

StartWrite ==
  /\ pc = "start" /\ Head(todo).op = "write"
  /\ index' = index \cup {Key}
  /\ pc' = IF Key \in index THEN "image_open" ELSE "index_open"
  /\ UNCHANGED <<index_file, images, old_images, todo, kept, calls, failures,
                 crashes>>

\* Mutant of StartDelete: the key stays in the index.
StartDeleteIndexed ==
  /\ Goes("start", "old_image")
  /\ Head(todo).op = "delete"
  /\ images' = IF Key \in index THEN [images EXCEPT ![FileName(Key)] = Absent]
               ELSE images
  /\ UNCHANGED <<index, index_file, old_images, todo, kept, calls, failures,
                 crashes>>

StartDelete ==
  /\ pc = "start" /\ Head(todo).op = "delete"
  /\ IF Key \in index
     THEN /\ images' = [images EXCEPT ![FileName(Key)] = Absent]
          /\ pc' = "unindex"
     ELSE pc' = "old_image" /\ UNCHANGED images
  /\ UNCHANGED <<index, index_file, old_images, todo, kept, calls, failures,
                 crashes>>

Unindex ==
  /\ Goes("unindex", "index_open")
  /\ index' = index \ {Key}
  /\ UNCHANGED <<index_file, images, old_images, todo, kept, calls, failures,
                 crashes>>

\* _save_index.
IndexOpen ==
  /\ Goes("index_open", "index_write")
  /\ index_file' = [index_file EXCEPT !.state = "torn"]
  /\ UNCHANGED <<index, images, old_images, todo, kept, calls, failures, crashes>>

IndexWrite ==
  /\ Goes("index_write",
          IF Head(todo).op = "write" THEN "image_open" ELSE "old_image")
  /\ index_file' = [state |-> "ok", keys |-> index]
  /\ UNCHANGED <<index, images, old_images, todo, kept, calls, failures, crashes>>

\* img.save.
ImageOpen ==
  /\ Goes("image_open", "image_write")
  /\ images' = [images EXCEPT ![FileName(Key)] = Torn]
  /\ UNCHANGED <<index, index_file, old_images, todo, kept, calls, failures,
                 crashes>>

Promise(k, image) ==
  kept' = [j \in DOMAIN kept \cup {k} |-> IF j = k THEN image ELSE kept[j]]

\* Mutant of NextOperation: the last operation leaves the call open.
NextOperationOpen == todo' = Tail(todo) /\ pc' = "start"

\* The operation is done: the call goes on with the next one, or returns.
NextOperation ==
  /\ todo' = Tail(todo)
  /\ pc' = IF Tail(todo) = <<>> THEN "idle" ELSE "start"

ImageWrite ==
  /\ pc = "image_write"
  /\ images' = [images EXCEPT ![FileName(Key)] = Good(Head(todo).value)]
  /\ Promise(Key, Good(Head(todo).value))
  /\ NextOperation
  /\ UNCHANGED <<index, index_file, old_images, calls, failures, crashes>>

OldImage ==
  /\ pc = "old_image"
  /\ old_images' = [old_images EXCEPT ![Slug[Key]] = Absent]
  /\ Promise(Key, Absent)
  /\ NextOperation
  /\ UNCHANGED <<index, index_file, images, calls, failures, crashes>>

-----------------------------------------------------------------------------
(* Exceptions and restarts.                                                *)

\* What may still be relied on when the call is cut off: not the key it was
\* about, and nothing when keys.json was being written.
CutOff ==
  kept' = IF pc = "index_write" THEN Restrict(kept, {})
          ELSE IF pc = "idle" THEN kept ELSE Restrict(kept, DOMAIN kept \ {Key})

\* An operation on a file, or the encoder, raises: the rest of the call is not
\* done, and the index in memory keeps what was changed.
Raise ==
  /\ pc # "idle" /\ failures < MaxFailures
  /\ failures' = failures + 1
  /\ CutOff /\ todo' = <<>> /\ pc' = "idle"
  /\ UNCHANGED <<index, index_file, images, old_images, calls, crashes>>

\* The process ends, at any point, and a new store opens the directory.
Restart ==
  /\ crashes < MaxCrashes
  /\ crashes' = crashes + 1
  /\ CutOff /\ todo' = <<>> /\ pc' = "idle"
  /\ index' = Loaded
  /\ UNCHANGED <<index_file, images, old_images, calls, failures>>

Next ==
  \/ \E k \in Keys :
       \/ Forget(k)
       \/ \E v \in Values : Remember(k, v)
       \/ \E item \in Items : AppendItem(k, item)
       \/ \E j \in Keys, v, w \in Values : Update(j, v, k, w)
  \/ Clear
  \/ StartWrite \/ StartDelete \/ Unindex
  \/ IndexOpen \/ IndexWrite \/ ImageOpen \/ ImageWrite \/ OldImage
  \/ Raise \/ Restart

Spec == Init /\ [][Next]_vars

-----------------------------------------------------------------------------
(* Properties.                                                             *)

\* The values of the variables; a call is open while it has operations left.
TypeOK ==
  /\ index \subseteq Keys
  /\ index_file.state \in {"absent", "torn", "ok"}
  /\ index_file.keys \subseteq Keys
  /\ images \in [Files -> Images]
  /\ old_images \in [Slugs -> Images]
  /\ todo \in Seq(Operations)
  /\ pc \in {"idle", "start", "unindex", "index_open", "index_write",
             "image_open", "image_write", "old_image"}
  /\ pc = "idle" <=> todo = <<>>
  /\ DOMAIN kept \subseteq Keys /\ kept \in [DOMAIN kept -> Images]

\* What was remembered is recalled and what was forgotten is not, by this store
\* and by the one a restart would make, whatever happened to other keys, in
\* calls of several writes and across crashes -- unless keys.json was cut off.
Recalled ==
  \A k \in DOMAIN kept :
    pc = "idle" \/ k # Key =>
      /\ Read(index, k) = kept[k]
      /\ pc # "index_write" => Read(Loaded, k) = kept[k]

\* It holds as long as nothing raised.
Durable == failures = 0 => Recalled

\* Between two steps of a call only the key it is about reads differently, even
\* when several keys share a slug; old files apart, which they share.
OnlyItsKey ==
  [][crashes' = crashes =>
       \A k \in Keys :
         Read(index, k)' # Read(index, k) =>
           k = Key \/ old_images' # old_images]_vars

\* Without a crash or an exception, keys() names no key without a value, and a
\* key exists exactly when reading it finds something.
ExistsAgrees ==
  pc = "idle" /\ failures = 0 /\ crashes = 0 =>
    \A k \in Keys : /\ k \in index => Exists(k)
                    /\ Exists(k) <=> Read(index, k) # Absent
=============================================================================
