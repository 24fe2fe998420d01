--------------------------- MODULE PixelStore_proof ---------------------------
(***************************************************************************)
(* Proofs about PixelStore, for any keys, slugs and values, and about the  *)
(* codec its images are made with.                                         *)
(***************************************************************************)
EXTENDS PixelStore, PixelCodec, FiniteSetTheorems, SequenceTheorems, TLAPS

Unique(k) == \A j \in Keys : Slug[j] = Slug[k] => j = k

\* Where the value of a key that is promised comes from.
Source(k) ==
  \/ k \in index /\ images[FileName(k)] # Absent /\ images[FileName(k)] = kept[k]
  \/ /\ ~(k \in index /\ images[FileName(k)] # Absent)
     /\ old_images[Slug[k]] = kept[k]
     /\ kept[k] = Absent \/ Unique(k)

\* The index in memory and the one a restart would load.
IndexSaved ==
  /\ pc \notin {"index_open", "index_write"} => Loaded = index
  /\ pc = "index_open" => \A k \in Keys \ {Key} : k \in index <=> k \in Loaded

Stages ==
  /\ pc \in {"image_open", "image_write"} =>
       Key \in index /\ Head(todo).op = "write"
  /\ pc = "old_image" => Key \notin index
  /\ pc = "unindex" => Head(todo).op = "delete"
  /\ pc \in {"index_open", "index_write"} =>
       (Key \in index <=> Head(todo).op = "write")

StoreInv ==
  /\ TypeOK
  /\ index_file = [state |-> index_file.state, keys |-> index_file.keys]
  /\ Stages
  /\ failures \in Nat

\* What is promised is kept, by the index in memory and by the one saved.
Promised ==
  IndexSaved /\ \A k \in DOMAIN kept : pc = "idle" \/ k # Key => Source(k)

SavingIndex == pc \in {"index_open", "index_write"}

\* A step that keeps the promises.
Steady == StoreInv' /\ (Promised => Promised')

LEMMA FilesDiffer ==
  ASSUME NEW j \in Keys, NEW k \in Keys, FileName(j) = FileName(k)
  PROVE  j = k
BY DEF FileName

LEMMA ValuesDiffer ==
  /\ Absent \in Images /\ Torn \in Images /\ Absent # Torn
  /\ \A v \in Values : Good(v) \in Images /\ Good(v) # Absent
BY DEF Images, Absent, Torn, Good

\* What append makes of a list: a value again, of as many items and one.
LEMMA ListsType ==
  /\ <<>> \in Values \ Scalars
  /\ \A v \in Values \ Scalars, item \in Items :
       Len(v) < MaxList => Append(v, item) \in Values
<1>1. ASSUME NEW v, NEW m \in 0 .. MaxList, v \in [1 .. m -> Items]
      PROVE  v \in BoundedSeq(Items, MaxList)
  BY <1>1 DEF BoundedSeq, SeqOf
<1>2. <<>> \in Values \ Scalars
  <2>1. 0 \in 0 .. MaxList /\ <<>> \in [1 .. 0 -> Items]
    BY StoreAssumption
  <2> QED  BY <1>1, <2>1, StoreAssumption DEF Values
<1>3. ASSUME NEW v \in Values \ Scalars, NEW item \in Items, Len(v) < MaxList
      PROVE  Append(v, item) \in Values
  <2>1. PICK m \in 0 .. MaxList : v \in [1 .. m -> Items]
    BY <1>3 DEF Values, BoundedSeq, SeqOf
  <2>2. m \in Nat /\ MaxList \in Nat  BY StoreAssumption
  <2>3. v \in Seq(Items) /\ Len(v) = m  BY <2>1, <2>2
  <2>4. m + 1 \in 0 .. MaxList  BY <1>3, <2>2, <2>3
  <2>5. Append(v, item) \in [1 .. m + 1 -> Items]
    <3> DEFINE w == Append(v, item)
    <3>1. w \in Seq(Items) /\ Len(w) = m + 1  BY <2>3
    <3> HIDE DEF w
    <3>2. w \in [1 .. m + 1 -> Items]  BY <3>1
    <3> QED  BY <3>2 DEF w
  <2> QED  BY <1>1, <2>4, <2>5 DEF Values
<1> QED  BY <1>2, <1>3

LEMMA InitStore == Init => StoreInv /\ Promised
<1> SUFFICES ASSUME Init PROVE StoreInv /\ Promised  OBVIOUS
<1>1. Good(<<>>) \in Images  BY ListsType, ValuesDiffer
<1>2. \A k \in Keys : Slug[k] \in Slugs /\ FileName(k) \in Files
  BY StoreAssumption DEF Slugs, Range, Files
<1>3. TypeOK
  BY <1>1, <1>2, ValuesDiffer DEF Init, TypeOK
<1>4. \A k \in DOMAIN kept : Source(k)
  BY <1>2 DEF Init, Source, Unique
<1> QED
  BY <1>3, <1>4 DEF Init, StoreInv, Promised, Stages, IndexSaved, Loaded

LEMMA ReadType ==
  ASSUME TypeOK, NEW k \in Keys, NEW ix
  PROVE  Read(ix, k) \in Images
<1>1. Slug[k] \in Slugs /\ FileName(k) \in Files
  BY StoreAssumption DEF Slugs, Range, Files
<1> QED  BY <1>1 DEF TypeOK, Read

\* A promised key reads as promised wherever the value comes from.
LEMMA SourceRead ==
  ASSUME NEW k \in DOMAIN kept, Source(k)
  PROVE  /\ Read(index, k) = kept[k]
         /\ (k \in Loaded <=> k \in index) => Read(Loaded, k) = kept[k]
BY DEF Source, Read

-----------------------------------------------------------------------------
(* Steps.                                                                  *)

LEMMA CallOK ==
  ASSUME StoreInv, NEW ops \in Seq(Operations), Call(ops)
  PROVE  Steady
<1>1. /\ pc = "idle" /\ todo' = ops
      /\ pc' = IF ops = <<>> THEN "idle" ELSE "start"
      /\ index' = index /\ index_file' = index_file /\ images' = images
      /\ old_images' = old_images /\ kept' = kept /\ failures' = failures
  BY DEF Call
<1>2. TypeOK'  BY <1>1 DEF StoreInv, TypeOK, Operations
<1>3. Stages'  BY <1>1 DEF Stages
<1>4. IndexSaved => IndexSaved'  BY <1>1 DEF IndexSaved, Loaded
<1>5. \A k : Source(k) => Source(k)'  BY <1>1 DEF Source
<1> QED  BY <1>1, <1>2, <1>3, <1>4, <1>5 DEF StoreInv, Promised, Steady

LEMMA AppendOK ==
  ASSUME StoreInv, NEW k \in Keys, NEW item \in Items, AppendItem(k, item)
  PROVE  Steady
<1> DEFINE image == Read(index, k)
           list == IF image = Absent THEN <<>> ELSE image.value
<1>1. image \in Images  BY ReadType DEF StoreInv
<1>2. /\ image # Torn /\ list \notin Scalars /\ Len(list) < MaxList
      /\ Call(<<Write(k, Append(list, item))>>)
  BY DEF AppendItem
<1>3. Append(list, item) \in Values
  <2>1. CASE image = Absent  BY <1>2, <2>1, ListsType
  <2>2. CASE image # Absent
    <3>1. PICK w \in Values : image = Good(w)
      BY <1>1, <1>2, <2>2 DEF Images
    <3>2. list = w  BY <2>2, <3>1 DEF Good
    <3> QED  BY <1>2, <3>2, ListsType
  <2> QED  BY <2>1, <2>2
<1> HIDE DEF list
<1>4. <<Write(k, Append(list, item))>> \in Seq(Operations)
  BY <1>3 DEF Write, Operations
<1> QED  BY <1>2, <1>4, CallOK

LEMMA ClearOK ==
  ASSUME StoreInv, Clear
  PROVE  Steady
<1>1. PICK ks \in SetToSeqs(index) : Call([i \in DOMAIN ks |-> Delete(ks[i])])
  BY DEF Clear
<1>2. ks \in [1 .. Cardinality(index) -> index]  BY <1>1 DEF SetToSeqs
<1>3. index \subseteq Keys  BY DEF StoreInv, TypeOK
<1> DEFINE ops == [i \in DOMAIN ks |-> Delete(ks[i])]
<1>4. Cardinality(index) \in Nat
  BY <1>3, StoreAssumption, FS_Subset, FS_CardinalityType
<1>5. \A i \in DOMAIN ks : Delete(ks[i]) \in Operations
  BY <1>2, <1>3 DEF Delete, Operations, Values
<1>6. ops \in [1 .. Cardinality(index) -> Operations]  BY <1>2, <1>5
<1> HIDE DEF ops
<1>7. ops \in Seq(Operations)  BY <1>4, <1>6
<1> QED  BY <1>1, <1>7, CallOK DEF ops

LEMMA OpenCall ==
  ASSUME StoreInv, pc # "idle"
  PROVE  /\ Key \in Keys
         /\ Head(todo).op = "write" => Head(todo).value \in Values
         /\ Slug[Key] \in Slugs /\ FileName(Key) \in Files
         /\ Head(todo).op \in {"write", "delete"}
         /\ Tail(todo) \in Seq(Operations) /\ todo \in Seq(Operations)
<1>1. todo \in Seq(Operations) /\ todo # <<>>
  BY DEF StoreInv, TypeOK, Operations
<1>2. Head(todo) \in Operations /\ Tail(todo) \in Seq(Operations)  BY <1>1
<1> QED
  BY <1>1, <1>2, StoreAssumption DEF Operations, Key, Slugs, Range, Files

\* A key the call is not about keeps its source.
LEMMA OtherKept ==
  ASSUME StoreInv, pc # "idle", NEW k \in Keys, k # Key, Source(k),
         k \in index' <=> k \in index,
         images' = images \/ \E i : images' = [images EXCEPT ![FileName(Key)] = i],
         old_images' = old_images, kept'[k] = kept[k]
  PROVE  Source(k)'
<1>1. FileName(k) \in Files /\ images \in [Files -> Images]
  BY DEF StoreInv, TypeOK, Files
<1>2. FileName(k) # FileName(Key)  BY OpenCall, FilesDiffer
<1>3. images'[FileName(k)] = images[FileName(k)]  BY <1>1, <1>2
<1> QED  BY <1>3 DEF Source

\* A step inside an operation.
LEMMA InsideOK ==
  ASSUME StoreInv, pc # "idle", pc' # "idle", TypeOK', Stages',
         todo' = todo, kept' = kept, failures' = failures,
         index_file' = [state |-> index_file'.state, keys |-> index_file'.keys],
         old_images' = old_images,
         \A k \in Keys \ {Key} : k \in index' <=> k \in index,
         images' = images \/ \E i : images' = [images EXCEPT ![FileName(Key)] = i],
         IndexSaved => IndexSaved'
  PROVE  Steady
<1>1. Key' = Key  BY DEF Key
<1>2. ASSUME Promised, NEW k \in DOMAIN kept, k # Key
      PROVE  Source(k)'
  <2>1. k \in Keys /\ Source(k)  BY <1>2 DEF StoreInv, Promised, TypeOK
  <2> QED  BY <1>2, <2>1, OtherKept
<1> QED  BY <1>1, <1>2 DEF StoreInv, Promised, Steady

LEMMA StartWriteOK ==
  ASSUME StoreInv, StartWrite
  PROVE  Steady
<1>1. /\ pc = "start" /\ Head(todo).op = "write" /\ index' = index \cup {Key}
      /\ pc' = IF Key \in index THEN "image_open" ELSE "index_open"
      /\ index_file' = index_file /\ images' = images
      /\ old_images' = old_images /\ todo' = todo /\ kept' = kept
      /\ failures' = failures
  BY DEF StartWrite
<1>2. Key \in Keys /\ Key' = Key  BY <1>1, OpenCall DEF Key
<1>3. TypeOK'  BY <1>1, <1>2 DEF StoreInv, TypeOK
<1>4. Stages'  BY <1>1, <1>2 DEF Stages
<1>5. IndexSaved => IndexSaved'
  BY <1>1, <1>2 DEF IndexSaved, Loaded
<1>6. index_file' = [state |-> index_file'.state, keys |-> index_file'.keys]
  BY <1>1 DEF StoreInv
<1> QED  BY <1>1, <1>3, <1>4, <1>5, <1>6, InsideOK

LEMMA StartDeleteOK ==
  ASSUME StoreInv, StartDelete
  PROVE  Steady
<1>1. /\ pc = "start" /\ Head(todo).op = "delete" /\ index' = index
      /\ \/ /\ Key \in index /\ pc' = "unindex"
            /\ images' = [images EXCEPT ![FileName(Key)] = Absent]
         \/ Key \notin index /\ pc' = "old_image" /\ images' = images
      /\ index_file' = index_file
      /\ old_images' = old_images /\ todo' = todo /\ kept' = kept
      /\ failures' = failures
  BY DEF StartDelete
<1>2. Key \in Keys /\ Key' = Key  BY <1>1, OpenCall DEF Key
<1>3. TypeOK'
  <2>1. images' \in [Files -> Images]
    BY <1>1, ValuesDiffer DEF StoreInv, TypeOK
  <2> QED  BY <1>1, <2>1 DEF StoreInv, TypeOK
<1>4. Stages'  BY <1>1, <1>2 DEF Stages
<1>5. IndexSaved => IndexSaved'
  BY <1>1 DEF IndexSaved, Loaded
<1>6. index_file' = [state |-> index_file'.state, keys |-> index_file'.keys]
  BY <1>1 DEF StoreInv
<1> QED  BY <1>1, <1>3, <1>4, <1>5, <1>6, InsideOK

LEMMA UnindexOK ==
  ASSUME StoreInv, Unindex
  PROVE  Steady
<1>1. /\ pc = "unindex" /\ pc' = "index_open" /\ index' = index \ {Key}
      /\ index_file' = index_file /\ images' = images
      /\ old_images' = old_images /\ todo' = todo /\ kept' = kept
      /\ failures' = failures
  BY DEF Unindex, Goes
<1>2. Key \in Keys /\ Key' = Key  BY <1>1, OpenCall DEF Key
<1>3. TypeOK'  BY <1>1 DEF StoreInv, TypeOK
<1>4. Stages'  BY <1>1, <1>2 DEF StoreInv, Stages
<1>5. IndexSaved => IndexSaved'
  BY <1>1, <1>2 DEF IndexSaved, Loaded
<1>6. index_file' = [state |-> index_file'.state, keys |-> index_file'.keys]
  BY <1>1 DEF StoreInv
<1> QED  BY <1>1, <1>3, <1>4, <1>5, <1>6, InsideOK

LEMMA IndexOpenOK ==
  ASSUME StoreInv, IndexOpen
  PROVE  Steady
<1>1. /\ pc = "index_open" /\ pc' = "index_write" /\ index' = index
      /\ index_file' = [index_file EXCEPT !.state = "torn"]
      /\ images' = images
      /\ old_images' = old_images /\ todo' = todo /\ kept' = kept
      /\ failures' = failures
  BY DEF IndexOpen, Goes
<1>2. Key' = Key  BY <1>1 DEF Key
<1>3. index_file' = [state |-> "torn", keys |-> index_file.keys]
  BY <1>1 DEF StoreInv
<1>4. TypeOK'  BY <1>1, <1>3 DEF StoreInv, TypeOK
<1>5. Stages'  BY <1>1, <1>2 DEF StoreInv, Stages
<1>6. IndexSaved'  BY <1>1 DEF IndexSaved
<1> QED  BY <1>1, <1>3, <1>4, <1>5, <1>6, InsideOK

LEMMA IndexWriteOK ==
  ASSUME StoreInv, IndexWrite
  PROVE  Steady
<1>1. /\ pc = "index_write" /\ index' = index
      /\ pc' = IF Head(todo).op = "write" THEN "image_open" ELSE "old_image"
      /\ index_file' = [state |-> "ok", keys |-> index]
      /\ images' = images
      /\ old_images' = old_images /\ todo' = todo /\ kept' = kept
      /\ failures' = failures
  BY DEF IndexWrite, Goes
<1>2. Key' = Key  BY <1>1 DEF Key
<1>3. index_file'.state = "ok" /\ index_file'.keys = index  BY <1>1
<1>4. TypeOK'  BY <1>1, <1>3 DEF StoreInv, TypeOK
<1>5. Stages'  BY <1>1, <1>2 DEF StoreInv, Stages
<1>6. IndexSaved'  BY <1>1, <1>3 DEF IndexSaved, Loaded
<1> QED  BY <1>1, <1>3, <1>4, <1>5, <1>6, InsideOK

LEMMA ImageOpenOK ==
  ASSUME StoreInv, ImageOpen
  PROVE  Steady
<1>1. /\ pc = "image_open" /\ pc' = "image_write" /\ index' = index
      /\ index_file' = index_file
      /\ images' = [images EXCEPT ![FileName(Key)] = Torn]
      /\ old_images' = old_images /\ todo' = todo /\ kept' = kept
      /\ failures' = failures
  BY DEF ImageOpen, Goes
<1>2. Key' = Key  BY <1>1 DEF Key
<1>3. images' \in [Files -> Images]
  BY <1>1, ValuesDiffer DEF StoreInv, TypeOK
<1>4. TypeOK'  BY <1>1, <1>3 DEF StoreInv, TypeOK
<1>5. Stages'  BY <1>1, <1>2 DEF StoreInv, Stages
<1>6. IndexSaved => IndexSaved'  BY <1>1 DEF IndexSaved, Loaded
<1>7. index_file' = [state |-> index_file'.state, keys |-> index_file'.keys]
  BY <1>1 DEF StoreInv
<1> QED  BY <1>1, <1>4, <1>5, <1>6, <1>7, InsideOK
\* The last step of an operation: its key is promised, the others are as before.
LEMMA FinishOK ==
  ASSUME StoreInv, pc \in {"image_write", "old_image"}, NEW image \in Images,
         Promise(Key, image), NextOperation, index' = index,
         index_file' = index_file, failures' = failures,
         images' \in [Files -> Images], old_images' \in [Slugs -> Images],
         Promised => \A k \in DOMAIN kept' : Source(k)'
  PROVE  Steady
<1>1. /\ Key \in Keys /\ Tail(todo) \in Seq(Operations)
  BY OpenCall
<1>2. todo' = Tail(todo) /\ pc' = IF todo' = <<>> THEN "idle" ELSE "start"
  BY DEF NextOperation
<1>3. /\ kept' \in [DOMAIN kept' -> Images] /\ DOMAIN kept' \subseteq Keys
  BY <1>1 DEF Promise, StoreInv, TypeOK
<1>4. TypeOK'  BY <1>1, <1>2, <1>3 DEF StoreInv, TypeOK, Operations
<1>5. Stages'  BY <1>2 DEF Stages
<1>6. Promised => IndexSaved'
  BY <1>2 DEF Promised, IndexSaved, Loaded
<1> QED  BY <1>4, <1>5, <1>6 DEF StoreInv, Promised, Steady

LEMMA ImageWriteOK ==
  ASSUME StoreInv, ImageWrite
  PROVE  Steady
<1> DEFINE image == Good(Head(todo).value)
<1>1. /\ pc = "image_write" /\ images' = [images EXCEPT ![FileName(Key)] = image]
      /\ Promise(Key, image) /\ NextOperation /\ index' = index
      /\ index_file' = index_file /\ old_images' = old_images
      /\ failures' = failures
  BY DEF ImageWrite
<1>2. /\ Key \in Keys /\ FileName(Key) \in Files
      /\ image \in Images /\ image # Absent
  BY <1>1, OpenCall, ValuesDiffer DEF StoreInv, Stages
<1> HIDE DEF image
<1>3. images' \in [Files -> Images] /\ images'[FileName(Key)] = image
  BY <1>1, <1>2 DEF StoreInv, TypeOK
<1>4. /\ DOMAIN kept' = DOMAIN kept \cup {Key} /\ kept'[Key] = image
      /\ \A k \in DOMAIN kept : k # Key => kept'[k] = kept[k]
  BY <1>1 DEF Promise
<1>5. Key \in index  BY <1>1 DEF StoreInv, Stages
<1>6. ASSUME Promised, NEW k \in DOMAIN kept' PROVE Source(k)'
  <2>1. CASE k = Key
    <3>1. kept'[k] = image /\ images'[FileName(k)] = image /\ k \in index'
      BY <1>1, <1>3, <1>4, <1>5, <2>1
    <3> QED  BY <1>2, <3>1 DEF Source
  <2>2. CASE k # Key
    <3>1. k \in Keys /\ k \in DOMAIN kept /\ Source(k)
      BY <1>4, <1>6, <2>2, <1>1 DEF StoreInv, Promised, TypeOK
    <3> QED  BY <1>1, <1>4, <2>2, <3>1, OtherKept
  <2> QED  BY <2>1, <2>2
<1> QED
  BY <1>1, <1>2, <1>3, <1>6, FinishOK DEF StoreInv, TypeOK

LEMMA OldImageOK ==
  ASSUME StoreInv, OldImage
  PROVE  Steady
<1>1. /\ pc = "old_image" /\ images' = images
      /\ old_images' = [old_images EXCEPT ![Slug[Key]] = Absent]
      /\ Promise(Key, Absent) /\ NextOperation /\ index' = index
      /\ index_file' = index_file /\ failures' = failures
  BY DEF OldImage
<1>2. Key \in Keys /\ Slug[Key] \in Slugs  BY <1>1, OpenCall
<1>3. /\ old_images' \in [Slugs -> Images] /\ old_images'[Slug[Key]] = Absent
      /\ \A s \in Slugs : s # Slug[Key] => old_images'[s] = old_images[s]
  BY <1>1, <1>2, ValuesDiffer DEF StoreInv, TypeOK
<1>4. /\ DOMAIN kept' = DOMAIN kept \cup {Key} /\ kept'[Key] = Absent
      /\ \A k \in DOMAIN kept : k # Key => kept'[k] = kept[k]
  BY <1>1 DEF Promise
<1>5. Key \notin index  BY <1>1 DEF StoreInv, Stages
<1>6. ASSUME Promised, NEW k \in DOMAIN kept' PROVE Source(k)'
  <2>1. CASE k = Key
    BY <1>1, <1>3, <1>4, <1>5, <2>1 DEF Source
  <2>2. CASE k # Key
    <3>1. k \in Keys /\ k \in DOMAIN kept /\ Source(k) /\ kept'[k] = kept[k]
      BY <1>4, <1>6, <2>2, <1>1 DEF StoreInv, Promised, TypeOK
    <3>2. Slug[k] \in Slugs
      BY <3>1, StoreAssumption DEF Slugs, Range
    <3>3. CASE k \in index /\ images[FileName(k)] # Absent
      BY <1>1, <3>1, <3>3 DEF Source
    <3>4. CASE ~(k \in index /\ images[FileName(k)] # Absent)
      <4>1. old_images[Slug[k]] = kept[k] /\ (kept[k] = Absent \/ Unique(k))
        BY <3>1, <3>4 DEF Source
      <4>2. old_images'[Slug[k]] = kept[k]
        <5>1. CASE Slug[k] = Slug[Key]
          <6>1. kept[k] = Absent  BY <1>2, <2>2, <4>1, <5>1 DEF Unique
          <6> QED  BY <1>3, <5>1, <6>1
        <5>2. CASE Slug[k] # Slug[Key]  BY <1>3, <3>2, <4>1, <5>2
        <5> QED  BY <5>1, <5>2
      <4> QED  BY <1>1, <3>1, <3>4, <4>1, <4>2 DEF Source, Unique
    <3> QED  BY <3>3, <3>4
  <2> QED  BY <2>1, <2>2
<1> QED
  BY <1>1, <1>3, <1>6, ValuesDiffer, FinishOK DEF StoreInv, TypeOK

LEMMA CutOffType ==
  ASSUME StoreInv, CutOff
  PROVE  /\ DOMAIN kept' \subseteq DOMAIN kept
         /\ \A k \in DOMAIN kept' : kept'[k] = kept[k]
         /\ \A k \in DOMAIN kept' : pc # "index_write" /\ (pc = "idle" \/ k # Key)
         /\ kept' \in [DOMAIN kept' -> Images]
<1>1. CASE pc = "index_write"  BY <1>1 DEF CutOff, Restrict
<1>2. CASE pc = "idle"  BY <1>2 DEF CutOff, StoreInv, TypeOK
<1>3. CASE pc \notin {"index_write", "idle"}
  BY <1>3 DEF CutOff, Restrict, StoreInv, TypeOK
<1> QED  BY <1>1, <1>2, <1>3

\* An exception keeps the promises too, but in the middle of a save of the index.
LEMMA RaiseOK ==
  ASSUME StoreInv, Raise
  PROVE  StoreInv' /\ (~SavingIndex /\ Promised => Promised')
<1>1. /\ failures' = failures + 1 /\ CutOff /\ todo' = <<>> /\ pc' = "idle"
      /\ index' = index /\ index_file' = index_file /\ images' = images
      /\ old_images' = old_images
  BY DEF Raise
<1>2. DOMAIN kept' \subseteq Keys /\ kept' \in [DOMAIN kept' -> Images]
  BY <1>1, CutOffType DEF StoreInv, TypeOK
<1>3. TypeOK'  BY <1>1, <1>2 DEF StoreInv, TypeOK
<1>4. Stages'  BY <1>1 DEF Stages
<1>5. failures' \in Nat  BY <1>1 DEF StoreInv
<1>6. ASSUME ~SavingIndex, Promised PROVE Promised'
  <2>1. Loaded' = index'
    BY <1>1, <1>6 DEF SavingIndex, Promised, IndexSaved, Loaded
  <2>2. ASSUME NEW k \in DOMAIN kept' PROVE Source(k)'
    <3>1. k \in DOMAIN kept /\ kept'[k] = kept[k] /\ (pc = "idle" \/ k # Key)
      BY <1>1, CutOffType
    <3> QED  BY <1>1, <1>6, <3>1 DEF Promised, Source
  <2> QED  BY <1>1, <2>1, <2>2 DEF Promised, IndexSaved
<1> QED  BY <1>1, <1>3, <1>4, <1>5, <1>6 DEF StoreInv

LEMMA RestartOK ==
  ASSUME StoreInv, Restart
  PROVE  Steady
<1>1. /\ failures' = failures /\ CutOff /\ todo' = <<>> /\ pc' = "idle"
      /\ index' = Loaded /\ index_file' = index_file /\ images' = images
      /\ old_images' = old_images
  BY DEF Restart
<1>2. DOMAIN kept' \subseteq Keys /\ kept' \in [DOMAIN kept' -> Images]
  BY <1>1, CutOffType DEF StoreInv, TypeOK
<1>3. TypeOK'  BY <1>1, <1>2 DEF StoreInv, TypeOK, Loaded
<1>4. Stages'  BY <1>1 DEF Stages
<1>5. IndexSaved'  BY <1>1 DEF IndexSaved, Loaded
<1>6. ASSUME Promised, NEW k \in DOMAIN kept' PROVE Source(k)'
  <2>1. /\ k \in Keys /\ k \in DOMAIN kept /\ kept'[k] = kept[k]
        /\ pc # "index_write" /\ (pc = "idle" \/ k # Key)
    BY <1>1, <1>2, CutOffType
  <2>2. Source(k) /\ IndexSaved  BY <1>6, <2>1 DEF Promised
  <2>3. k \in Loaded <=> k \in index  BY <2>1, <2>2 DEF IndexSaved
  <2> QED  BY <1>1, <2>1, <2>2, <2>3 DEF Source
<1> QED  BY <1>1, <1>3, <1>4, <1>5, <1>6 DEF StoreInv, Promised, Steady

LEMMA StutterOK ==
  ASSUME StoreInv, UNCHANGED vars
  PROVE  Steady
<1>1. /\ failures' = failures /\ kept' = kept /\ todo' = todo /\ pc' = pc
      /\ index' = index /\ index_file' = index_file /\ images' = images
      /\ old_images' = old_images
  BY DEF vars
<1>2. Key' = Key  BY <1>1 DEF Key
<1>3. TypeOK'  BY <1>1 DEF StoreInv, TypeOK
<1>4. Stages'  BY <1>1, <1>2 DEF StoreInv, Stages
<1>5. IndexSaved => IndexSaved'  BY <1>1, <1>2 DEF IndexSaved, Loaded
<1>6. \A k : Source(k) => Source(k)'  BY <1>1 DEF Source
<1> QED
  BY <1>1, <1>2, <1>3, <1>4, <1>5, <1>6 DEF StoreInv, Promised, Steady

LEMMA StepStore ==
  StoreInv /\ [Next]_vars =>
    StoreInv' /\ (~(SavingIndex /\ Raise) /\ Promised => Promised')
<1> SUFFICES ASSUME StoreInv, [Next]_vars
             PROVE  Steady \/ (Raise /\ StoreInv'
                                /\ (~SavingIndex /\ Promised => Promised'))
  BY DEF Steady
<1>1. ASSUME NEW k \in Keys, Forget(k) PROVE Steady
  <2>1. <<Delete(k)>> \in Seq(Operations)  BY DEF Delete, Operations, Values
  <2> QED  BY <1>1, <2>1, CallOK DEF Forget
<1>2. ASSUME NEW k \in Keys, NEW v \in Values, Remember(k, v) PROVE Steady
  <2>1. <<Write(k, v)>> \in Seq(Operations)  BY DEF Write, Operations
  <2> QED  BY <1>2, <2>1, CallOK DEF Remember
<1>3. ASSUME NEW k \in Keys, NEW item \in Items, AppendItem(k, item)
      PROVE  Steady
  BY <1>3, AppendOK
<1>4. ASSUME NEW k \in Keys, NEW j \in Keys, NEW v \in Values, NEW w \in Values,
             Update(j, v, k, w)
      PROVE  Steady
  <2>1. <<Write(j, v), Write(k, w)>> \in Seq(Operations)
    BY DEF Write, Operations
  <2> QED  BY <1>4, <2>1, CallOK DEF Update
<1>5. CASE Clear  BY <1>5, ClearOK
<1>6. CASE StartWrite  BY <1>6, StartWriteOK
<1>7. CASE StartDelete  BY <1>7, StartDeleteOK
<1>8. CASE Unindex  BY <1>8, UnindexOK
<1>9. CASE IndexOpen  BY <1>9, IndexOpenOK
<1>10. CASE IndexWrite  BY <1>10, IndexWriteOK
<1>11. CASE ImageOpen  BY <1>11, ImageOpenOK
<1>12. CASE ImageWrite  BY <1>12, ImageWriteOK
<1>13. CASE OldImage  BY <1>13, OldImageOK
<1>14. ASSUME Raise
       PROVE  StoreInv' /\ (~SavingIndex /\ Promised => Promised')
  BY <1>14, RaiseOK
<1>15. CASE Restart  BY <1>15, RestartOK
<1>16. CASE UNCHANGED vars  BY <1>16, StutterOK
<1> QED
  BY <1>1, <1>2, <1>3, <1>4, <1>5, <1>6, <1>7, <1>8, <1>9, <1>10, <1>11,
     <1>12, <1>13, <1>14, <1>15, <1>16 DEF Next

\* Every variable keeps the values it is declared for, and a call is open
\* exactly while it has operations left.
THEOREM TypeCorrect == Spec => []TypeOK
<1>1. StoreInv => TypeOK  BY DEF StoreInv
<1> QED  BY InitStore, StepStore, <1>1, PTL DEF Spec

LEMMA PromisedRecalled ==
  ASSUME StoreInv, Promised
  PROVE  Recalled
<1> SUFFICES ASSUME NEW k \in DOMAIN kept, pc = "idle" \/ k # Key
             PROVE  /\ Read(index, k) = kept[k]
                    /\ pc # "index_write" => Read(Loaded, k) = kept[k]
  BY DEF Recalled
<1>1. k \in Keys /\ Source(k) /\ IndexSaved  BY DEF StoreInv, Promised, TypeOK
<1>2. pc # "index_write" => (k \in Loaded <=> k \in index)
  BY <1>1 DEF IndexSaved
<1> QED  BY <1>1, <1>2, SourceRead

\* An exception is never forgotten.
LEMMA StepFailures ==
  StoreInv /\ [Next]_vars => (failures' = 0 => failures = 0 /\ ~Raise)
<1> SUFFICES ASSUME StoreInv, [Next]_vars, failures' = 0
             PROVE  failures = 0 /\ ~Raise
  OBVIOUS
<1>1. ~Raise  BY DEF Raise, StoreInv
<1>2. failures' = failures
  BY <1>1
     DEF Next, Forget, Remember, AppendItem, Update, Clear, Call, StartWrite,
         StartDelete, Unindex, IndexOpen, IndexWrite, ImageOpen, ImageWrite,
         OldImage, Restart, vars
<1> QED  BY <1>1, <1>2

\* As long as no operation on a file raises, what PixelStore has written it
\* reads back and what it has deleted it does not, before and after any restart
\* but one that cuts a save of keys.json off.
THEOREM StoreDurable == Spec => []Durable
<1> DEFINE Inv == failures = 0 => Promised
<1>1. Init => Promised  BY InitStore
<1>2. StoreInv /\ Inv /\ [Next]_vars => Inv'  BY StepStore, StepFailures
<1>3. StoreInv /\ Inv => Durable  BY PromisedRecalled DEF Durable
<1> QED  BY <1>1, <1>2, <1>3, InitStore, StepStore, PTL DEF Spec

\* Exceptions anywhere but in _save_index do no harm either, any number of
\* them, in any call, before and after any restart: the one place where
\* PixelStore loses track of its keys is an exception while keys.json is saved.
THEOREM OnlyIndexRaises ==
  Init /\ [][Next /\ ~(SavingIndex /\ Raise)]_vars => []Recalled
<1>1. Init => StoreInv /\ Promised  BY InitStore
<1>2. StoreInv /\ Promised /\ [Next /\ ~(SavingIndex /\ Raise)]_vars
        => StoreInv' /\ Promised'
  <2> SUFFICES ASSUME StoreInv, Promised, [Next /\ ~(SavingIndex /\ Raise)]_vars
               PROVE  StoreInv' /\ Promised'
    OBVIOUS
  <2>1. CASE Next /\ ~(SavingIndex /\ Raise)  BY <2>1, StepStore
  <2>2. CASE UNCHANGED vars
    BY <2>2, StutterOK DEF Steady
  <2> QED  BY <2>1, <2>2
<1>3. StoreInv /\ Promised => Recalled  BY PromisedRecalled
<1> QED  BY <1>1, <1>2, <1>3, PTL
-----------------------------------------------------------------------------
(* Calls end.                                                              *)

\* The steps an operation has left, at most.
Stage == CASE pc = "start"       -> 6
           [] pc = "unindex"     -> 5
           [] pc = "index_open"  -> 4
           [] pc = "index_write" -> 3
           [] pc = "image_open"  -> 2
           [] OTHER              -> 1

\* The steps a call has left, at most.
CallLeft == IF pc = "idle" THEN 0 ELSE 6 * Len(Tail(todo)) + Stage

\* A call of n operations has at most 6 * n steps before it, and with each
\* step, an exception and the end of the process included, fewer.
CountsDown == IF pc = "idle" THEN CallLeft' <= 6 * Len(todo') ELSE CallLeft' < CallLeft

LEMMA TailLength ==
  ASSUME StoreInv, pc # "idle"
  PROVE  Len(todo) = Len(Tail(todo)) + 1 /\ Len(Tail(todo)) \in Nat
<1>1. todo \in Seq(Operations) /\ todo # <<>>
  BY DEF StoreInv, TypeOK, Operations
<1>2. Len(todo) \in Nat /\ Len(todo) # 0  BY <1>1, EmptySeq
<1> QED  BY <1>1, <1>2

LeftIs == CallLeft \in Nat /\ CallLeft <= 6 * Len(todo)

LEMMA CallLeftNat == StoreInv => LeftIs
<1> SUFFICES ASSUME StoreInv PROVE LeftIs  OBVIOUS
<1> USE DEF LeftIs
<1>1. CASE pc = "idle"
  <2>1. todo = <<>>  BY <1>1 DEF StoreInv, TypeOK
  <2> QED  BY <1>1, <2>1 DEF CallLeft
<1>2. CASE pc # "idle"
  <2>1. Stage \in 1 .. 6  BY DEF Stage
  <2> HIDE DEF Stage
  <2> DEFINE n == Len(Tail(todo))
  <2>2. n \in Nat /\ Len(todo) = n + 1  BY <1>2, TailLength
  <2>3. CallLeft = 6 * n + Stage  BY <1>2 DEF CallLeft
  <2> HIDE DEF n
  <2> QED  BY <2>1, <2>2, <2>3
<1> QED  BY <1>1, <1>2

LEMMA StepCountsDown == StoreInv /\ LeftIs' /\ Next => CountsDown
<1> SUFFICES ASSUME StoreInv, LeftIs', Next PROVE CountsDown  OBVIOUS
<1>0. CallLeft \in Nat  BY CallLeftNat DEF LeftIs
<1>1. CallLeft' \in Nat /\ CallLeft' <= 6 * Len(todo')
  BY DEF LeftIs
<1>2. CASE pc = "idle"  BY <1>1, <1>2 DEF CountsDown
<1>3. CASE pc # "idle" /\ pc' = "idle"
  <2>1. CallLeft' = 0  BY <1>3 DEF CallLeft
  <2>2. CallLeft >= 1
    <3>1. Stage \in 1 .. 6  BY DEF Stage
    <3>2. Len(Tail(todo)) \in Nat  BY <1>3, TailLength
    <3>3. CallLeft = 6 * Len(Tail(todo)) + Stage  BY <1>3 DEF CallLeft
    <3> HIDE DEF Stage
    <3> QED  BY <3>1, <3>2, <3>3
  <2> QED  BY <1>0, <1>3, <2>1, <2>2 DEF CountsDown
<1>4. CASE pc # "idle" /\ pc' # "idle"
  <2>1. Len(todo) = Len(Tail(todo)) + 1 /\ Len(Tail(todo)) \in Nat
    BY <1>4, TailLength
  <2>2. ASSUME todo' = todo, Stage' < Stage PROVE CountsDown
    <3>1. Stage \in Nat /\ Stage' \in Nat  BY DEF Stage
    <3>2. PICK n \in Nat : n = Len(Tail(todo))  BY <2>1
    <3>3. PICK s \in Nat, t \in Nat : s = Stage /\ t = Stage'  BY <3>1
    <3> HIDE DEF Stage
    <3>4. CallLeft = 6 * n + s
      BY <1>4, <3>2, <3>3 DEF CallLeft
    <3>5. CallLeft' = 6 * n + t
      BY <1>4, <2>2, <3>2, <3>3 DEF CallLeft
    <3>6. t < s  BY <2>2, <3>3
    <3> QED  BY <1>4, <3>4, <3>5, <3>6 DEF CountsDown
  <2>3. ASSUME NextOperation PROVE CountsDown
    <3>1. todo' = Tail(todo)  BY <2>3 DEF NextOperation
    <3>2. CallLeft' <= 6 * Len(Tail(todo))  BY <1>1, <3>1
    <3>3. CallLeft = 6 * Len(Tail(todo)) + Stage /\ Stage \in 1 .. 6
      BY <1>4 DEF CallLeft, Stage
    <3> HIDE DEF Stage
    <3> QED  BY <1>1, <1>4, <2>1, <3>2, <3>3 DEF CountsDown
  <2>4. CASE StartWrite \/ StartDelete \/ Unindex \/ IndexOpen \/ IndexWrite
               \/ ImageOpen
    <3>1. todo' = todo /\ Stage' < Stage
      BY <2>4 DEF StartWrite, StartDelete, Unindex, IndexOpen, IndexWrite,
                  ImageOpen, Goes, Stage
    <3> QED  BY <2>2, <3>1
  <2>5. CASE ImageWrite \/ OldImage
    BY <2>3, <2>5 DEF ImageWrite, OldImage
  <2> QED
    BY <1>4, <2>4, <2>5
       DEF Next, Forget, Remember, AppendItem, Update, Clear, Call, Raise, Restart
<1> QED  BY <1>2, <1>3, <1>4

\* Every call of ZDXAgentMemory ends: one that makes n writes and deletions
\* returns, raises or dies with its process within 6 * n steps, whatever is on
\* the disk.
THEOREM CallsEnd == Spec => [][CountsDown]_vars
<1>1. StoreInv /\ LeftIs' /\ [Next]_vars => [CountsDown]_vars
  BY StepCountsDown
<1>2. StoreInv /\ [Next]_vars => StoreInv'  BY StepStore
<1> QED  BY <1>1, <1>2, CallLeftNat, InitStore, PTL DEF Spec
-----------------------------------------------------------------------------
(* keys(), exists and read.                                                *)

\* Without exceptions and restarts a key of the index has an image, but for
\* the key of a write or deletion half way.
HasImages ==
  /\ crashes \in Nat
  /\ failures = 0 /\ crashes = 0 =>
       \A k \in index : \/ images[FileName(k)] # Absent
                        \/ k = Key /\ pc \notin {"idle", "start"}

LEMMA CallHasImages ==
  ASSUME StoreInv, HasImages, NEW ops, Call(ops)
  PROVE  HasImages'
<1>1. /\ pc = "idle" /\ index' = index /\ images' = images
      /\ failures' = failures /\ crashes' = crashes
  BY DEF Call
<1> QED  BY <1>1 DEF HasImages

LEMMA OpenHasImages ==
  ASSUME StoreInv, HasImages,
         StartWrite \/ StartDelete \/ Unindex \/ IndexOpen \/ IndexWrite \/ ImageOpen
  PROVE  HasImages'
<1>1. /\ pc \notin {"idle"} /\ pc' \notin {"idle", "start"}
      /\ todo' = todo /\ failures' = failures /\ crashes' = crashes
  BY DEF StartWrite, StartDelete, Unindex, IndexOpen, IndexWrite, ImageOpen, Goes
<1>2. Key' = Key /\ Key \in Keys
  BY <1>1, OpenCall DEF Key
<1>3. \A k \in index' \ {Key} : k \in index
  BY DEF StartWrite, StartDelete, Unindex, IndexOpen, IndexWrite, ImageOpen
<1>4. \A k \in Keys \ {Key} : images'[FileName(k)] = images[FileName(k)]
  <2>1. CASE images' = images  BY <2>1
  <2>2. CASE images' = [images EXCEPT ![FileName(Key)] = Absent]
    BY <1>2, <2>2, FilesDiffer DEF StoreInv, TypeOK, Files
  <2>3. CASE images' = [images EXCEPT ![FileName(Key)] = Torn]
    BY <1>2, <2>3, FilesDiffer DEF StoreInv, TypeOK, Files
  <2> QED
    BY <2>1, <2>2, <2>3
       DEF StartWrite, StartDelete, Unindex, IndexOpen, IndexWrite, ImageOpen
<1> QED  BY <1>1, <1>2, <1>3, <1>4 DEF HasImages, StoreInv, TypeOK

LEMMA FinishHasImages ==
  ASSUME StoreInv, HasImages, ImageWrite \/ OldImage
  PROVE  HasImages'
<1>1. /\ pc \in {"image_write", "old_image"} /\ index' = index
      /\ failures' = failures /\ crashes' = crashes
  BY DEF ImageWrite, OldImage
<1>2. Key \in Keys  BY <1>1, OpenCall
<1>3. CASE ImageWrite
  <2>1. images' = [images EXCEPT ![FileName(Key)] = Good(Head(todo).value)]
    BY <1>3 DEF ImageWrite
  <2>2. images'[FileName(Key)] # Absent
    BY <1>2, <2>1 DEF StoreInv, TypeOK, Files, Good, Absent
  <2>3. \A k \in Keys \ {Key} : images'[FileName(k)] = images[FileName(k)]
    BY <1>2, <2>1, FilesDiffer DEF StoreInv, TypeOK, Files
  <2> QED  BY <1>1, <2>2, <2>3 DEF HasImages, StoreInv, TypeOK
<1>4. CASE OldImage
  <2>1. images' = images /\ Key \notin index
    BY <1>4 DEF OldImage, StoreInv, Stages
  <2> QED  BY <1>1, <2>1 DEF HasImages
<1> QED  BY <1>3, <1>4

LEMMA StepHasImages ==
  StoreInv /\ HasImages /\ [Next]_vars => HasImages'
<1> SUFFICES ASSUME StoreInv, HasImages, [Next]_vars PROVE HasImages'
  OBVIOUS
<1>1. ASSUME NEW ops, Call(ops) PROVE HasImages'
  BY <1>1, CallHasImages
<1>2. CASE \E k \in Keys : \/ Forget(k)
                           \/ \E v \in Values : Remember(k, v)
                           \/ \E j \in Keys, v, w \in Values : Update(j, v, k, w)
  BY <1>1, <1>2 DEF Forget, Remember, Update
<1>3. CASE \E k \in Keys, item \in Items : AppendItem(k, item)
  BY <1>1, <1>3 DEF AppendItem
<1>4. CASE Clear
  BY <1>1, <1>4 DEF Clear
<1>5. CASE StartWrite \/ StartDelete \/ Unindex \/ IndexOpen \/ IndexWrite \/ ImageOpen
  BY <1>5, OpenHasImages
<1>6. CASE ImageWrite \/ OldImage
  BY <1>6, FinishHasImages
<1>7. CASE Raise
  BY <1>7 DEF Raise, StoreInv, HasImages
<1>8. CASE Restart
  BY <1>8 DEF Restart, HasImages
<1>9. CASE UNCHANGED vars
  <2>1. /\ pc' = pc /\ index' = index /\ images' = images /\ todo' = todo
        /\ failures' = failures /\ crashes' = crashes
    BY <1>9 DEF vars
  <2> QED  BY <2>1 DEF HasImages, Key
<1> QED
  BY <1>2, <1>3, <1>4, <1>5, <1>6, <1>7, <1>8, <1>9 DEF Next

\* Until something raises or the process restarts, keys() names keys that have
\* a value, and exists answers what read would find.
THEOREM ExistsIsRead == Spec => []ExistsAgrees
<1>1. Init => HasImages
  BY DEF Init, HasImages
<1>2. StoreInv /\ HasImages => ExistsAgrees
  BY DEF HasImages, ExistsAgrees, Exists, Read, StoreInv, TypeOK
<1> QED  BY InitStore, StepStore, StepHasImages, <1>1, <1>2, PTL DEF Spec

-----------------------------------------------------------------------------
(* One key at a time.                                                      *)

\* A step that leaves the index and the images of all keys but the one it is
\* about alone.
LEMMA OthersRead ==
  ASSUME NEW k \in Keys, old_images' = old_images, k \in index' <=> k \in index,
         images'[FileName(k)] = images[FileName(k)]
  PROVE  Read(index, k)' = Read(index, k)
BY DEF Read

LEMMA FileKnown == \A k \in Keys : FileName(k) \in Files
BY DEF Files

LEMMA StepReads ==
  ASSUME StoreInv, HasImages, [Next]_vars, crashes' = crashes, NEW k \in Keys, k # Key,
         old_images' = old_images
  PROVE  Read(index, k)' = Read(index, k)
<1>1. ASSUME index' = index, images' = images
      PROVE  Read(index, k)' = Read(index, k)
  BY <1>1, OthersRead
<1>2. ASSUME NEW ops, Call(ops) PROVE Read(index, k)' = Read(index, k)
  BY <1>1, <1>2 DEF Call
<1>3. CASE \E j \in Keys : \/ Forget(j)
                           \/ \E v \in Values : Remember(j, v)
                           \/ \E i \in Keys, v, w \in Values : Update(i, v, j, w)
  BY <1>2, <1>3 DEF Forget, Remember, Update
<1>4. CASE \E j \in Keys, item \in Items : AppendItem(j, item)
  BY <1>2, <1>4 DEF AppendItem
<1>5. CASE Clear
  BY <1>2, <1>5 DEF Clear
<1>6. CASE StartWrite \/ StartDelete \/ Unindex \/ IndexOpen \/ IndexWrite \/ ImageOpen
           \/ ImageWrite
  <2>1. pc # "idle"
    BY <1>6 DEF StartWrite, StartDelete, Unindex, IndexOpen, IndexWrite, ImageOpen,
                ImageWrite, Goes
  <2>2. Key \in Keys  BY <2>1, OpenCall
  <2>3. k \in index' <=> k \in index
    BY <1>6 DEF StartWrite, StartDelete, Unindex, IndexOpen, IndexWrite, ImageOpen,
                ImageWrite
  <2>4. \/ images' = images
        \/ \E image : images' = [images EXCEPT ![FileName(Key)] = image]
    BY <1>6 DEF StartWrite, StartDelete, Unindex, IndexOpen, IndexWrite, ImageOpen,
                ImageWrite
  <2>5. images'[FileName(k)] = images[FileName(k)]
    <3>1. FileName(k) # FileName(Key)  BY <2>2, FilesDiffer
    <3>2. \A image : [images EXCEPT ![FileName(Key)] = image][FileName(k)]
                      = images[FileName(k)]
      BY <3>1, <1>6, FileKnown DEF StoreInv, TypeOK
    <3> QED  BY <2>4, <3>2
  <2>6. old_images' = old_images  OBVIOUS
  <2> QED  BY <2>3, <2>5, <2>6, OthersRead
<1>7. CASE OldImage  BY <1>1, <1>7 DEF OldImage
<1>8. CASE Raise  BY <1>1, <1>8 DEF Raise
<1>9. CASE Restart  BY <1>9 DEF Restart, HasImages
<1>10. CASE UNCHANGED vars  BY <1>1, <1>10 DEF vars
<1> QED
  BY <1>3, <1>4, <1>5, <1>6, <1>7, <1>8, <1>9, <1>10 DEF Next

\* No step of PixelStore changes what another key than the one of its operation
\* reads as, whatever the slugs: images are named by the whole key.
THEOREM OneKeyRead == Spec => OnlyItsKey
<1> DEFINE Apart == crashes' = crashes =>
                      \A k \in Keys :
                        Read(index, k)' # Read(index, k) =>
                          k = Key \/ old_images' # old_images
<1>1. StoreInv /\ HasImages /\ [Next]_vars => [Apart]_vars
  BY StepReads
<1>2. Init => HasImages
  BY DEF Init, HasImages
<1> QED
  BY <1>1, <1>2, InitStore, StepStore, StepHasImages, PTL DEF Spec, OnlyItsKey

-----------------------------------------------------------------------------
(* The codec.                                                              *)

LEMMA HeaderRead ==
  ASSUME NEW n \in Nat, Shift(Shift(Shift(n))) \in Bytes
  PROVE  /\ Header(n) \in Seq(Bytes) /\ Len(Header(n)) = 4
         /\ LengthOf(Header(n)) = n
<1> DEFINE s == Shift(n)
           t == Shift(s)
           u == Shift(t)
<1>1. s \in Nat /\ t \in Nat /\ u \in Nat
  BY DEF Shift
<1>2. n = 256 * s + (n % 256) /\ s = 256 * t + (s % 256) /\ t = 256 * u + (t % 256)
  BY DEF Shift
<1>3. n % 256 \in Bytes /\ s % 256 \in Bytes /\ t % 256 \in Bytes /\ u \in Bytes
  BY <1>1 DEF Bytes
<1>4. Header(n) = <<u, t % 256, s % 256, n % 256>>
  BY DEF Header
<1> HIDE DEF s, t, u
<1>5. Header(n) \in Seq(Bytes) /\ Len(Header(n)) = 4
  BY <1>3, <1>4
<1>6. LengthOf(Header(n))
        = 256 * (256 * (256 * u + (t % 256)) + (s % 256)) + (n % 256)
  BY <1>4 DEF LengthOf
<1> QED  BY <1>1, <1>2, <1>5, <1>6

\* Every text that can be encoded is decoded from its image, whatever the
\* padding.
THEOREM CodecRoundtrip ==
  ASSUME NEW text, Encodable(text)
  PROVE  Decodable(Encode(text)) /\ Decode(Encode(text)) = text
<1> DEFINE n   == Len(text)
           raw == Header(n) \o text
           img == Encode(text)
<1>1. n \in Nat /\ Shift(Shift(Shift(n))) \in Bytes /\ text \in Seq(Bytes)
  BY DEF Encodable
<1>2. Header(n) \in Seq(Bytes) /\ Len(Header(n)) = 4 /\ LengthOf(Header(n)) = n
  BY <1>1, HeaderRead
<1>3. /\ raw \in Seq(Bytes) /\ Len(raw) = n + 4
      /\ \A i \in 1 .. n + 4 : raw[i] = IF i <= 4 THEN Header(n)[i] ELSE text[i - 4]
  <2> HIDE DEF n
  <2>1. /\ raw \in Seq(Bytes) /\ Len(raw) = Len(Header(n)) + Len(text)
        /\ \A i \in 1 .. Len(Header(n)) + Len(text) :
             raw[i] = IF i <= Len(Header(n)) THEN Header(n)[i]
                      ELSE text[i - Len(Header(n))]
    BY <1>1, <1>2, ConcatProperties
  <2>2. Len(text) = n
    BY DEF n
  <2> QED  BY <1>1, <1>2, <2>1, <2>2
<1>4. /\ \A i \in 1 .. 4 : raw[i] = Header(n)[i]
      /\ \A i \in 1 .. n : raw[i + 4] = text[i]
  <2> HIDE DEF n, raw
  <2>1. ASSUME NEW i \in 1 .. 4  PROVE raw[i] = Header(n)[i]
    BY <1>1, <1>3
  <2>2. ASSUME NEW i \in 1 .. n  PROVE raw[i + 4] = text[i]
    <3>1. i + 4 \in 1 .. n + 4 /\ ~(i + 4 <= 4) /\ (i + 4) - 4 = i
      BY <1>1
    <3> QED  BY <1>3, <3>1
  <2> QED  BY <2>1, <2>2
<1> DEFINE size == ImageSize(n + 4)
<1>5. size \in Nat /\ size >= n + 4
  BY <1>1 DEF ImageSize, Height, Pixels, Width
<1>6. img = [i \in 1 .. size |-> IF i <= n + 4 THEN raw[i] ELSE 0]
  BY <1>3 DEF Encode
<1>7. /\ img \in Seq(Bytes) /\ Len(img) = size
      /\ \A i \in 1 .. n + 4 : img[i] = raw[i]
  <2>1. \A i \in 1 .. size : (IF i <= n + 4 THEN raw[i] ELSE 0) \in Bytes
    <3> HIDE DEF n, raw, size
    <3>1. ASSUME NEW i \in 1 .. n + 4  PROVE raw[i] \in Bytes
      BY <1>1, <1>3, ElementOfSeq
    <3>2. size \in Nat /\ n \in Nat /\ 0 \in Bytes
      BY <1>1, <1>5 DEF Bytes
    <3> QED  BY <3>1, <3>2
  <2> HIDE DEF img, raw, size, n
  <2>2. img \in [1 .. size -> Bytes]
    BY <1>6, <2>1
  <2>3. \A i \in 1 .. n + 4 : img[i] = raw[i]
    BY <1>1, <1>5, <1>6
  <2> QED  BY <1>5, <2>2, <2>3
<1>8. LengthOf(img) = n
  <2> HIDE DEF img, raw, n
  <2>1. \A i \in 1 .. 4 : img[i] = Header(n)[i]
    BY <1>1, <1>4, <1>7
  <2> QED  BY <1>2, <2>1 DEF LengthOf
<1>9. Decodable(img)
  BY <1>1, <1>5, <1>7, <1>8 DEF Decodable
<1>10. Decode(img) = text
  <2> HIDE DEF img, raw, size
  <2>1. Decode(img) = SubSeq(img, 5, 4 + n)
    BY <1>8 DEF Decode
  <2>2. /\ Len(SubSeq(img, 5, 4 + n)) = n
        /\ \A i \in 1 .. n : SubSeq(img, 5, 4 + n)[i] = img[i + 4]
    BY <1>1, <1>5, <1>7
  <2>3. \A i \in 1 .. n : SubSeq(img, 5, 4 + n)[i] = text[i]
    <3> HIDE DEF n
    <3>1. ASSUME NEW i \in 1 .. n  PROVE i + 4 \in 1 .. n + 4
      BY <1>1
    <3> QED  BY <1>4, <1>7, <2>2, <3>1
  <2>4. SubSeq(img, 5, 4 + n) \in Seq(Bytes)
    BY <1>1, <1>5, <1>7
  <2> QED  BY <1>1, <2>1, <2>2, <2>3, <2>4
<1> QED  BY <1>9, <1>10
=============================================================================
