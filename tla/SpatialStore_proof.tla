-------------------------- MODULE SpatialStore_proof --------------------------
(***************************************************************************)
(* Proofs about SpatialStore and the geometry it stands on, for frames of  *)
(* every size and every valid layout.                                      *)
(***************************************************************************)
EXTENDS SpatialStore, SequenceTheorems, TLAPS

-----------------------------------------------------------------------------
(* Products.                                                               *)

LEMMA TimesMonotone ==
  ASSUME NEW w \in Nat, NEW a \in Nat, NEW b \in Nat, a <= b
  PROVE  a * w \in Nat /\ b * w \in Nat /\ a * w <= b * w
<1>1. PICK d \in Nat : b = a + d
  <2>1. b - a \in Nat /\ b = a + (b - a)  OBVIOUS
  <2> QED  BY <2>1
<1>2. b * w = a * w + d * w /\ d * w \in Nat /\ a * w \in Nat
  BY <1>1
<1> QED  BY <1>2

LEMMA TimesStrict ==
  ASSUME NEW w \in Nat, NEW a \in Nat, NEW b \in Nat, a < b
  PROVE  a * w + w <= b * w /\ a * w \in Nat /\ b * w \in Nat
<1>1. (a + 1) * w <= b * w /\ (a + 1) * w \in Nat /\ b * w \in Nat
  BY TimesMonotone
<1>2. (a + 1) * w = a * w + w /\ a * w \in Nat
  OBVIOUS
<1> QED  BY <1>1, <1>2

\* A number is a row and a column in one way only.
LEMMA GridUnique ==
  ASSUME NEW w \in Nat, NEW x1 \in 0 .. w - 1, NEW x2 \in 0 .. w - 1,
         NEW y1 \in Nat, NEW y2 \in Nat, y1 * w + x1 = y2 * w + x2
  PROVE  x1 = x2 /\ y1 = y2
<1>1. y1 * w \in Nat /\ y2 * w \in Nat  BY TimesMonotone
<1>2. ~(y1 < y2)
  <2>1. y1 < y2 => y1 * w + w <= y2 * w  BY TimesStrict
  <2> QED  BY <1>1, <2>1
<1>3. ~(y2 < y1)
  <2>1. y2 < y1 => y2 * w + w <= y1 * w  BY TimesStrict
  <2> QED  BY <1>1, <2>1
<1>4. y1 = y2  BY <1>2, <1>3
<1>5. x1 = x2  BY <1>1, <1>4
<1> QED  BY <1>4, <1>5

LEMMA ThirdUnique ==
  ASSUME NEW a \in Nat, NEW b \in Nat, NEW m \in 0 .. 2, NEW n \in 0 .. 2,
         3 * a + m = 3 * b + n
  PROVE  a = b /\ m = n
OBVIOUS

\* The row and column of a cell of a rectangle.
LEMMA RowAndColumn ==
  ASSUME NEW w \in Nat \ {0}, NEW h \in Nat, NEW c \in Nat, c < h * w
  PROVE  /\ c % w \in 0 .. w - 1 /\ c \div w \in 0 .. h - 1
         /\ c = (c \div w) * w + (c % w)
<1> DEFINE q == c \div w
           m == c % w
<1>1. m \in 0 .. w - 1 /\ q \in Nat /\ c = q * w + m
  <2>1. m \in 0 .. w - 1 /\ q \in Nat  OBVIOUS
  <2>2. c = w * q + m  OBVIOUS
  <2>3. w * q = q * w  BY <2>1
  <2> QED  BY <2>1, <2>2, <2>3
<1> HIDE DEF q, m
<1>2. q < h
  <2>1. SUFFICES ASSUME h <= q PROVE FALSE  BY <1>1
  <2>2. h * w <= q * w /\ q * w \in Nat /\ h * w \in Nat
    BY <1>1, <2>1, TimesMonotone
  <2> QED  BY <1>1, <2>2
<1> QED  BY <1>1, <1>2 DEF q, m
-----------------------------------------------------------------------------
(* Rectangles in a frame.                                                  *)

Sized(l) == l.width \in Nat \ {0} /\ l.height \in Nat \ {0}

Inside(l, r) ==
  /\ r.x \in Nat /\ r.y \in Nat /\ r.width \in Nat \ {0} /\ r.height \in Nat \ {0}
  /\ r.x + r.width <= l.width /\ r.y + r.height <= l.height

\* Where byte i of a rectangle is: its cell in the frame.
Column(r, i) == r.x + ((i \div 3) % r.width)
Row(r, i)    == r.y + ((i \div 3) \div r.width)

LEMMA CapacityNat ==
  ASSUME NEW l, NEW r, Inside(l, r)
  PROVE  Capacity(r) \in Nat
BY DEF Capacity, Cells, Inside

LEMMA Spot ==
  ASSUME NEW l, Sized(l), NEW r, Inside(l, r), NEW i \in 0 .. Capacity(r) - 1
  PROVE  /\ Column(r, i) \in r.x .. r.x + r.width - 1
         /\ Row(r, i) \in r.y .. r.y + r.height - 1
         /\ Column(r, i) \in 0 .. l.width - 1 /\ Row(r, i) \in 0 .. l.height - 1
         /\ i = 3 * ((Row(r, i) - r.y) * r.width + (Column(r, i) - r.x)) + (i % 3)
         /\ ByteAt(l, r, i) = 3 * (Row(r, i) * l.width + Column(r, i)) + (i % 3)
<1> DEFINE c == i \div 3
<1>1. r.width \in Nat \ {0} /\ r.height \in Nat \ {0} /\ r.x \in Nat /\ r.y \in Nat
      /\ r.x + r.width <= l.width /\ r.y + r.height <= l.height
      /\ l.width \in Nat \ {0} /\ l.height \in Nat \ {0}
  BY DEF Inside, Sized
<1>2. r.width * r.height \in Nat /\ r.width * r.height = r.height * r.width
  BY <1>1
<1>3. i \in Nat /\ i < 3 * (r.width * r.height)
  BY <1>2 DEF Capacity, Cells
<1>4. c \in Nat /\ c < r.height * r.width /\ i = 3 * c + (i % 3)
  BY <1>2, <1>3
<1> HIDE DEF c
<1> DEFINE m == c % r.width
           q == c \div r.width
<1>5. m \in 0 .. r.width - 1 /\ q \in 0 .. r.height - 1 /\ c = q * r.width + m
  BY <1>1, <1>4, RowAndColumn
<1> HIDE DEF m, q
<1>6. Column(r, i) = r.x + m /\ Row(r, i) = r.y + q
  BY DEF Column, Row, m, q, c
<1>7. /\ Column(r, i) \in r.x .. r.x + r.width - 1
      /\ Row(r, i) \in r.y .. r.y + r.height - 1
      /\ Column(r, i) \in 0 .. l.width - 1 /\ Row(r, i) \in 0 .. l.height - 1
      /\ Column(r, i) - r.x = m /\ Row(r, i) - r.y = q
  BY <1>1, <1>5, <1>6
<1>8. ByteAt(l, r, i) = 3 * (Row(r, i) * l.width + Column(r, i)) + (i % 3)
  BY DEF ByteAt, Address, Row, Column
<1> QED  BY <1>4, <1>5, <1>7, <1>8

LEMMA ByteInFrame ==
  ASSUME NEW l, Sized(l), NEW r, Inside(l, r), NEW i \in 0 .. Capacity(r) - 1
  PROVE  /\ ByteAt(l, r, i) \in 0 .. 3 * TotalCells(l) - 1
         /\ l.width * r.y \in Nat /\ ByteAt(l, r, i) >= 3 * (l.width * r.y)
<1> DEFINE x == Column(r, i)
           y == Row(r, i)
           w == l.width
           h == l.height
<1>1. /\ x \in 0 .. w - 1 /\ y \in 0 .. h - 1 /\ y >= r.y /\ r.y \in Nat
      /\ ByteAt(l, r, i) = 3 * (y * w + x) + (i % 3)
      /\ w \in Nat \ {0} /\ h \in Nat \ {0}
  BY Spot DEF Inside, Sized
<1>2. i % 3 \in 0 .. 2
  <2>1. i \in Int  OBVIOUS
  <2> QED  BY <2>1
<1> HIDE DEF x, y, w, h
<1>3. y * w + w <= h * w /\ y * w \in Nat /\ h * w \in Nat
  BY <1>1, TimesStrict
<1>4. r.y * w <= y * w /\ r.y * w \in Nat
  BY <1>1, TimesMonotone
<1>5. TotalCells(l) = h * w /\ w * r.y = r.y * w
  <2>1. w * h = h * w  BY <1>1
  <2> QED  BY <1>1, <2>1 DEF TotalCells, w, h
<1> QED  BY <1>1, <1>2, <1>3, <1>4, <1>5 DEF w

\* Two bytes of rectangles are one byte of the frame only if they are in the
\* same cell.
LEMMA ByteCell ==
  ASSUME NEW l, Sized(l), NEW r, Inside(l, r), NEW s, Inside(l, s),
         NEW i \in 0 .. Capacity(r) - 1, NEW j \in 0 .. Capacity(s) - 1,
         ByteAt(l, r, i) = ByteAt(l, s, j)
  PROVE  Column(r, i) = Column(s, j) /\ Row(r, i) = Row(s, j) /\ i % 3 = j % 3
<1> DEFINE w  == l.width
           x1 == Column(r, i)
           y1 == Row(r, i)
           x2 == Column(s, j)
           y2 == Row(s, j)
           m  == i % 3
           n  == j % 3
<1>1. /\ ByteAt(l, r, i) = 3 * (y1 * w + x1) + m
      /\ ByteAt(l, s, j) = 3 * (y2 * w + x2) + n
      /\ x1 \in 0 .. w - 1 /\ y1 \in Nat /\ x2 \in 0 .. w - 1 /\ y2 \in Nat
      /\ w \in Nat
  BY Spot DEF Sized
<1>2. m \in 0 .. 2 /\ n \in 0 .. 2
  <2>1. i \in Int /\ j \in Int  OBVIOUS
  <2> QED  BY <2>1
<1> HIDE DEF w, x1, y1, x2, y2, m, n
<1>3. y1 * w + x1 \in Nat /\ y2 * w + x2 \in Nat
  BY <1>1, TimesMonotone
<1>4. 3 * (y1 * w + x1) + m = 3 * (y2 * w + x2) + n
  BY <1>1
<1>5. y1 * w + x1 = y2 * w + x2 /\ m = n
  BY <1>2, <1>3, <1>4, ThirdUnique
<1>6. x1 = x2 /\ y1 = y2
  BY <1>1, <1>5, GridUnique
<1> QED  BY <1>5, <1>6 DEF x1, y1, x2, y2, m, n

LEMMA ByteInjective ==
  ASSUME NEW l, Sized(l), NEW r, Inside(l, r),
         NEW i \in 0 .. Capacity(r) - 1, NEW j \in 0 .. Capacity(r) - 1,
         ByteAt(l, r, i) = ByteAt(l, r, j)
  PROVE  i = j
BY Spot, ByteCell

LEMMA ByteApart ==
  ASSUME NEW l, Sized(l), NEW r, Inside(l, r), NEW s, Inside(l, s),
         ~RegionsOverlap(r, s),
         NEW i \in 0 .. Capacity(r) - 1, NEW j \in 0 .. Capacity(s) - 1
  PROVE  ByteAt(l, r, i) # ByteAt(l, s, j)
<1> SUFFICES ASSUME ByteAt(l, r, i) = ByteAt(l, s, j) PROVE FALSE
  OBVIOUS
<1>1. Column(r, i) = Column(s, j) /\ Row(r, i) = Row(s, j)
  BY ByteCell
<1>2. /\ Column(r, i) \in r.x .. r.x + r.width - 1
      /\ Row(r, i) \in r.y .. r.y + r.height - 1
      /\ Column(s, j) \in s.x .. s.x + s.width - 1
      /\ Row(s, j) \in s.y .. s.y + s.height - 1
  BY Spot
<1> QED  BY <1>1, <1>2 DEF RegionsOverlap, Inside
-----------------------------------------------------------------------------
(* What the geometry promises those who use it.                            *)

\* A rectangle as SpatialRegion has it: somewhere in the plane, not empty.
IsRect(r) == /\ r.x \in Int /\ r.y \in Int
             /\ r.width \in Nat \ {0} /\ r.height \in Nat \ {0}

(* _regions_overlap compares edges; it answers exactly whether some cell is *)
(* in both rectangles, as SpatialRegion.contains has it.                   *)
THEOREM OverlapExact ==
  ASSUME NEW a, IsRect(a), NEW b, IsRect(b)
  PROVE  RegionsOverlap(a, b) <=>
           \E x \in Int, y \in Int : Contains(a, x, y) /\ Contains(b, x, y)
<1>1. ASSUME RegionsOverlap(a, b)
      PROVE  \E x \in Int, y \in Int : Contains(a, x, y) /\ Contains(b, x, y)
  <2> DEFINE x == IF a.x <= b.x THEN b.x ELSE a.x
             y == IF a.y <= b.y THEN b.y ELSE a.y
  <2>1. /\ x \in Int /\ a.x <= x /\ x < a.x + a.width
        /\ b.x <= x /\ x < b.x + b.width
    BY <1>1 DEF IsRect, RegionsOverlap
  <2>2. /\ y \in Int /\ a.y <= y /\ y < a.y + a.height
        /\ b.y <= y /\ y < b.y + b.height
    BY <1>1 DEF IsRect, RegionsOverlap
  <2> HIDE DEF x, y
  <2> QED  BY <2>1, <2>2 DEF Contains
<1>2. ASSUME NEW x \in Int, NEW y \in Int, Contains(a, x, y), Contains(b, x, y)
      PROVE  RegionsOverlap(a, b)
  BY <1>2 DEF IsRect, Contains, RegionsOverlap
<1> QED  BY <1>1, <1>2

(* address and coordinates are inverse to each other, and number the cells *)
(* of the frame from 0 to total_cells - 1.                                 *)
THEOREM AddressesInverse ==
  ASSUME NEW l, Sized(l)
  PROVE  /\ \A x, y : InFrame(l, x, y) =>
              /\ Address(l, x, y) \in 0 .. TotalCells(l) - 1
              /\ Coordinates(l, Address(l, x, y)) = <<x, y>>
         /\ \A c \in 0 .. TotalCells(l) - 1 :
              LET at == Coordinates(l, c)
              IN InFrame(l, at[1], at[2]) /\ Address(l, at[1], at[2]) = c
<1> DEFINE w == l.width
           h == l.height
<1>1. w \in Nat \ {0} /\ h \in Nat \ {0}
  BY DEF Sized
<1>2. TotalCells(l) = h * w /\ h * w \in Nat
  BY <1>1 DEF TotalCells
<1>3. ASSUME NEW x, NEW y, InFrame(l, x, y)
      PROVE  /\ Address(l, x, y) \in 0 .. TotalCells(l) - 1
             /\ Coordinates(l, Address(l, x, y)) = <<x, y>>
  <2>1. x \in 0 .. w - 1 /\ y \in 0 .. h - 1 /\ Address(l, x, y) = y * w + x
    BY <1>3 DEF InFrame, Address
  <2> HIDE DEF w, h
  <2>2. y * w + w <= h * w /\ y * w \in Nat
    BY <1>1, <2>1, TimesStrict
  <2> DEFINE c == y * w + x
  <2>3. c \in Nat /\ c < h * w /\ Address(l, x, y) = c
    BY <1>1, <2>1, <2>2
  <2> HIDE DEF c
  <2>4. c % w \in 0 .. w - 1 /\ c \div w \in 0 .. h - 1 /\ c = (c \div w) * w + (c % w)
    BY <1>1, <2>3, RowAndColumn
  <2> DEFINE q == c \div w
             k == c % w
  <2>5. k \in 0 .. w - 1 /\ q \in Nat /\ y \in Nat /\ y * w + x = q * w + k
    <3>1. c = y * w + x  BY DEF c
    <3> QED  BY <1>1, <2>1, <2>4, <3>1
  <2> HIDE DEF q, k
  <2>6. k = x /\ q = y
    BY <1>1, <2>1, <2>5, GridUnique
  <2>7. Coordinates(l, Address(l, x, y)) = <<k, q>>
    BY <2>3 DEF Coordinates, w, k, q
  <2>8. c \in 0 .. h * w - 1  BY <1>2, <2>3 DEF h, w
  <2> QED  BY <1>2, <2>3, <2>6, <2>7, <2>8 DEF h, w
<1>4. ASSUME NEW c \in 0 .. TotalCells(l) - 1
      PROVE  LET at == Coordinates(l, c)
             IN InFrame(l, at[1], at[2]) /\ Address(l, at[1], at[2]) = c
  <2>1. c \in Nat /\ c < h * w
    BY <1>2
  <2>2. c % w \in 0 .. w - 1 /\ c \div w \in 0 .. h - 1 /\ c = (c \div w) * w + (c % w)
    <3> HIDE DEF w, h
    <3> QED  BY <1>1, <2>1, RowAndColumn
  <2> QED  BY <2>2 DEF Coordinates, InFrame, Address
<1> QED  BY <1>3, <1>4

(* In a valid layout a byte of the frame belongs to at most one region and *)
(* is one byte of it: a write to a region, at any offset, changes nothing  *)
(* another region, or another byte of its own, is read from.               *)
THEOREM EveryByteOneOwner ==
  ASSUME NEW l, Sized(l), ValidLayout(l),
         \A n \in DOMAIN l.regions :
           l.regions[n] \in [x : Int, y : Int, width : Int, height : Int,
                            kind : {"data", "execution"}],
         NEW m \in DOMAIN l.regions, NEW n \in DOMAIN l.regions,
         NEW i \in 0 .. Capacity(l.regions[m]) - 1,
         NEW j \in 0 .. Capacity(l.regions[n]) - 1
  PROVE  /\ ByteAt(l, l.regions[m], i) \in 0 .. 3 * TotalCells(l) - 1
         /\ ByteAt(l, l.regions[m], i) = ByteAt(l, l.regions[n], j) => m = n /\ i = j
<1> USE DEF ValidLayout
<1>0. ASSUME NEW k \in DOMAIN l.regions PROVE Inside(l, l.regions[k])
  <2>1. /\ l.regions[k].width >= 1 /\ l.regions[k].height >= 1
        /\ l.regions[k].x >= 0 /\ l.regions[k].y >= 0
        /\ l.regions[k].x + l.regions[k].width <= l.width
        /\ l.regions[k].y + l.regions[k].height <= l.height
    OBVIOUS
  <2> QED  BY <2>1 DEF Inside
<1>1. m # n => ~RegionsOverlap(l.regions[m], l.regions[n])
  OBVIOUS
<1> HIDE DEF ValidLayout
<1>2. m # n => ByteAt(l, l.regions[m], i) # ByteAt(l, l.regions[n], j)
  BY <1>0, <1>1, ByteApart
<1>3. m = n /\ ByteAt(l, l.regions[m], i) = ByteAt(l, l.regions[n], j) => i = j
  BY <1>0, ByteInjective
<1>4. ByteAt(l, l.regions[m], i) \in 0 .. 3 * TotalCells(l) - 1
  BY <1>0, ByteInFrame
<1> QED  BY <1>2, <1>3, <1>4
-----------------------------------------------------------------------------
(* What is written into a rectangle.                                       *)

Addresses(l) == 0 .. 3 * TotalCells(l) - 1
Raster(l)    == [Addresses(l) -> 0 .. 255]

LEMMA WriteType ==
  ASSUME NEW l, NEW r, NEW f \in Raster(l), NEW bytes \in Seq(0 .. 255)
  PROVE  WriteBytes(l, f, r, 0, bytes) \in Raster(l)
<1> DEFINE at(i) == ByteAt(l, r, 0 + i - 1)
           val(b) == IF \E i \in 1 .. Len(bytes) : at(i) = b
                     THEN bytes[CHOOSE i \in 1 .. Len(bytes) : at(i) = b]
                     ELSE f[b]
<1>1. WriteBytes(l, f, r, 0, bytes) = [b \in DOMAIN f |-> val(b)]
  BY DEF WriteBytes
<1>2. DOMAIN f = Addresses(l)  BY DEF Raster
<1>3. ASSUME NEW b \in Addresses(l) PROVE val(b) \in 0 .. 255
  <2>1. CASE \E i \in 1 .. Len(bytes) : at(i) = b
    <3> DEFINE j == CHOOSE i \in 1 .. Len(bytes) : at(i) = b
    <3>1. j \in 1 .. Len(bytes)  BY <2>1
    <3> HIDE DEF at
    <3>2. val(b) = bytes[j]  BY <2>1
    <3> QED  BY <3>1, <3>2, ElementOfSeq
  <2>2. CASE ~ \E i \in 1 .. Len(bytes) : at(i) = b
    BY <2>2 DEF Raster
  <2> QED  BY <2>1, <2>2
<1> HIDE DEF val
<1> QED  BY <1>1, <1>2, <1>3 DEF Raster

LEMMA WriteElsewhere ==
  ASSUME NEW l, NEW r, NEW f, NEW bytes \in Seq(0 .. 255), NEW b \in DOMAIN f,
         \A i \in 0 .. Len(bytes) - 1 : ByteAt(l, r, i) # b
  PROVE  WriteBytes(l, f, r, 0, bytes)[b] = f[b]
<1>1. Len(bytes) \in Nat  OBVIOUS
<1>2. ~ \E i \in 1 .. Len(bytes) : ByteAt(l, r, 0 + i - 1) = b
  <2>1. ASSUME NEW i \in 1 .. Len(bytes) PROVE ByteAt(l, r, 0 + i - 1) # b
    <3>1. 0 + i - 1 \in 0 .. Len(bytes) - 1  BY <1>1
    <3> QED  BY <3>1
  <2> QED  BY <2>1
<1> QED  BY <1>2 DEF WriteBytes

LEMMA WriteThere ==
  ASSUME NEW l, Sized(l), NEW r, Inside(l, r), NEW f, DOMAIN f = Addresses(l),
         NEW bytes \in Seq(0 .. 255), Len(bytes) <= Capacity(r),
         NEW i \in 1 .. Len(bytes)
  PROVE  WriteBytes(l, f, r, 0, bytes)[ByteAt(l, r, i - 1)] = bytes[i]
<1> DEFINE at(j) == ByteAt(l, r, 0 + j - 1)
           b == ByteAt(l, r, i - 1)
<1>1. Len(bytes) \in Nat /\ Capacity(r) \in Nat
  BY DEF Capacity, Cells, Inside
<1>2. i - 1 \in 0 .. Capacity(r) - 1 /\ 0 + i - 1 = i - 1
  BY <1>1
<1>3. b \in Addresses(l) /\ at(i) = b
  BY <1>2, ByteInFrame DEF Addresses
<1>4. ASSUME NEW j \in 1 .. Len(bytes), at(j) = b PROVE j = i
  <2>1. 0 + j - 1 \in 0 .. Capacity(r) - 1  BY <1>1
  <2>2. 0 + j - 1 = i - 1
    BY <1>2, <1>4, <2>1, ByteInjective
  <2> QED  BY <2>2
<1>5. WriteBytes(l, f, r, 0, bytes)[b] =
        IF \E j \in 1 .. Len(bytes) : at(j) = b
        THEN bytes[CHOOSE j \in 1 .. Len(bytes) : at(j) = b] ELSE f[b]
  BY <1>3 DEF WriteBytes
<1> HIDE DEF at, b
<1>6. (CHOOSE j \in 1 .. Len(bytes) : at(j) = b) = i
  BY <1>3, <1>4
<1> QED  BY <1>3, <1>5, <1>6 DEF b

\* The length header of a text, and the bytes of both.
LEMMA HeaderRead ==
  ASSUME NEW n \in Nat, Shift(Shift(Shift(n))) < 256
  PROVE  /\ Header(n) \in Seq(0 .. 255) /\ Len(Header(n)) = 4
         /\ 256 * (256 * (256 * Header(n)[1] + Header(n)[2]) + Header(n)[3])
              + Header(n)[4] = n
<1> DEFINE s == Shift(n)
           t == Shift(s)
           u == Shift(t)
<1>1. s \in Nat /\ t \in Nat /\ u \in Nat
  BY DEF Shift
<1>2. n = 256 * s + (n % 256) /\ s = 256 * t + (s % 256) /\ t = 256 * u + (t % 256)
  BY DEF Shift
<1>3. n % 256 \in 0 .. 255 /\ s % 256 \in 0 .. 255 /\ t % 256 \in 0 .. 255
      /\ u % 256 = u /\ u \in 0 .. 255
  BY <1>1
<1>4. Header(n) = <<u, t % 256, s % 256, n % 256>>
  BY <1>3 DEF Header
<1> HIDE DEF s, t, u
<1>5. Header(n) \in Seq(0 .. 255) /\ Len(Header(n)) = 4
  BY <1>3, <1>4
<1>6. 256 * (256 * (256 * Header(n)[1] + Header(n)[2]) + Header(n)[3]) + Header(n)[4]
        = 256 * (256 * (256 * u + (t % 256)) + (s % 256)) + (n % 256)
  BY <1>4
<1> QED  BY <1>1, <1>2, <1>5, <1>6

IsText(t) == t \in Seq(0 .. 255) /\ Shift(Shift(Shift(Len(t)))) < 256

LEMMA JsonBytesAre ==
  ASSUME NEW t, IsText(t)
  PROVE  /\ JsonBytes(t) \in Seq(0 .. 255) /\ Len(JsonBytes(t)) = 4 + Len(t)
         /\ \A i \in 1 .. 4 : JsonBytes(t)[i] = Header(Len(t))[i]
         /\ \A i \in 1 .. Len(t) : JsonBytes(t)[4 + i] = t[i]
<1>1. Len(t) \in Nat /\ t \in Seq(0 .. 255)  BY DEF IsText
<1>2. Header(Len(t)) \in Seq(0 .. 255) /\ Len(Header(Len(t))) = 4
  BY <1>1, HeaderRead DEF IsText
<1> DEFINE h == Header(Len(t))
<1> HIDE DEF h
<1>3. /\ h \o t \in Seq(0 .. 255) /\ Len(h \o t) = Len(h) + Len(t)
      /\ \A i \in 1 .. Len(h) + Len(t) :
           (h \o t)[i] = IF i <= Len(h) THEN h[i] ELSE t[i - Len(h)]
  BY <1>1, <1>2, ConcatProperties DEF h
<1>4. Len(h) = 4  BY <1>2 DEF h
<1>5. ASSUME NEW i \in 1 .. 4 PROVE (h \o t)[i] = h[i]
  BY <1>1, <1>3, <1>4
<1>6. ASSUME NEW i \in 1 .. Len(t) PROVE (h \o t)[4 + i] = t[i]
  <2>1. 4 + i \in 1 .. 4 + Len(t) /\ ~(4 + i <= 4) /\ (4 + i) - 4 = i
    BY <1>1
  <2> QED  BY <1>3, <1>4, <2>1
<1> QED  BY <1>3, <1>4, <1>5, <1>6 DEF JsonBytes, h
\* A region holds a text if its first bytes are those of the text's JSON.
LEMMA HoldsBytes ==
  ASSUME NEW l, NEW f, NEW r, NEW t, IsText(t), Fits(r, 0, 4 + Len(t)),
         \A i \in 1 .. 4 + Len(t) : f[ByteAt(l, r, i - 1)] = JsonBytes(t)[i]
  PROVE  HoldsText(l, f, r, t)
<1>1. Len(t) \in Nat  BY DEF IsText
<1>2. ASSUME NEW i \in 1 .. 4 PROVE ReadBytes(l, f, r, 0, 4)[i] = Header(Len(t))[i]
  <2>1. i \in 1 .. 4 + Len(t) /\ 0 + i - 1 = i - 1  BY <1>1
  <2>2. f[ByteAt(l, r, i - 1)] = Header(Len(t))[i]
    BY <2>1, JsonBytesAre
  <2> QED  BY <2>1, <2>2 DEF ReadBytes
<1>3. Declared(l, f, r) = Len(t)
  <2>1. 256 * (256 * (256 * Header(Len(t))[1] + Header(Len(t))[2]) + Header(Len(t))[3])
          + Header(Len(t))[4] = Len(t)
    BY <1>1, HeaderRead DEF IsText
  <2> QED  BY <1>2, <2>1 DEF Declared
<1>4. ReadBytes(l, f, r, 4, Len(t)) = t
  <2>1. ASSUME NEW i \in 1 .. Len(t) PROVE f[ByteAt(l, r, 4 + i - 1)] = t[i]
    <3>1. 4 + i \in 1 .. 4 + Len(t) /\ 4 + i - 1 = (4 + i) - 1  BY <1>1
    <3>2. f[ByteAt(l, r, (4 + i) - 1)] = JsonBytes(t)[4 + i]  BY <3>1
    <3>3. JsonBytes(t)[4 + i] = t[i]  BY JsonBytesAre
    <3> QED  BY <3>1, <3>2, <3>3
  <2>2. t = [i \in 1 .. Len(t) |-> t[i]]  BY DEF IsText
  <2> QED  BY <2>1, <2>2 DEF ReadBytes
<1> QED  BY <1>3, <1>4 DEF HoldsText

LEMMA HoldsWritten ==
  ASSUME NEW l, Sized(l), NEW r, Inside(l, r), NEW f, DOMAIN f = Addresses(l),
         NEW t, IsText(t), Fits(r, 0, Len(JsonBytes(t)))
  PROVE  HoldsText(l, WriteBytes(l, f, r, 0, JsonBytes(t)), r, t)
<1>1. /\ JsonBytes(t) \in Seq(0 .. 255) /\ Len(JsonBytes(t)) = 4 + Len(t)
      /\ Len(t) \in Nat
  BY JsonBytesAre DEF IsText
<1>2. Capacity(r) \in Nat  BY DEF Capacity, Cells, Inside
<1>3. Len(JsonBytes(t)) <= Capacity(r)
  BY <1>1, <1>2 DEF Fits
<1>4. ASSUME NEW i \in 1 .. 4 + Len(t)
      PROVE  WriteBytes(l, f, r, 0, JsonBytes(t))[ByteAt(l, r, i - 1)] = JsonBytes(t)[i]
  BY <1>1, <1>3, WriteThere
<1> QED  BY <1>1, <1>4, HoldsBytes

\* The bytes a text takes in a region are all that holding it depends on.
LEMMA HoldsSame ==
  ASSUME NEW l, NEW f, NEW g, NEW s, Inside(l, s), NEW t, IsText(t),
         HoldsText(l, f, s, t),
         \A i \in 0 .. Capacity(s) - 1 : g[ByteAt(l, s, i)] = f[ByteAt(l, s, i)]
  PROVE  HoldsText(l, g, s, t)
<1>1. Len(t) \in Nat /\ Capacity(s) \in Nat /\ 4 + Len(t) <= Capacity(s)
  BY DEF IsText, Capacity, Cells, Inside, HoldsText, Fits
<1>2. ASSUME NEW i \in 1 .. 4
      PROVE  ReadBytes(l, g, s, 0, 4)[i] = ReadBytes(l, f, s, 0, 4)[i]
  <2>1. 0 + i - 1 \in 0 .. Capacity(s) - 1  BY <1>1
  <2> QED  BY <2>1 DEF ReadBytes
<1>3. ReadBytes(l, g, s, 4, Len(t)) = ReadBytes(l, f, s, 4, Len(t))
  <2>1. \A i \in 1 .. Len(t) : 4 + i - 1 \in 0 .. Capacity(s) - 1  BY <1>1
  <2> QED  BY <2>1 DEF ReadBytes
<1>4. Declared(l, g, s) = Declared(l, f, s)
  BY <1>2 DEF Declared
<1> QED  BY <1>3, <1>4 DEF HoldsText

LEMMA HoldsElsewhere ==
  ASSUME NEW l, Sized(l), NEW r, Inside(l, r), NEW s, Inside(l, s),
         ~RegionsOverlap(r, s), NEW f, DOMAIN f = Addresses(l),
         NEW bytes \in Seq(0 .. 255), Len(bytes) <= Capacity(r),
         NEW t, IsText(t), HoldsText(l, f, s, t)
  PROVE  HoldsText(l, WriteBytes(l, f, r, 0, bytes), s, t)
<1>1. Len(bytes) \in Nat /\ Capacity(r) \in Nat
  BY CapacityNat
<1>2. ASSUME NEW j \in 0 .. Capacity(s) - 1
      PROVE  WriteBytes(l, f, r, 0, bytes)[ByteAt(l, s, j)] = f[ByteAt(l, s, j)]
  <2>1. ByteAt(l, s, j) \in DOMAIN f
    BY ByteInFrame DEF Addresses
  <2>2. ASSUME NEW i \in 0 .. Len(bytes) - 1 PROVE ByteAt(l, r, i) # ByteAt(l, s, j)
    <3>1. i \in 0 .. Capacity(r) - 1  BY <1>1
    <3> QED  BY <3>1, ByteApart
  <2> QED  BY <2>1, <2>2, WriteElsewhere
<1> QED  BY <1>2, HoldsSame

\* A frame that is black in a region holds no text there.
LEMMA HoldsNothing ==
  ASSUME NEW l, NEW r, Inside(l, r), NEW f, Fits(r, 0, 4),
         \A i \in 0 .. Capacity(r) - 1 : f[ByteAt(l, r, i)] = 0
  PROVE  HoldsText(l, f, r, <<>>)
<1>1. Capacity(r) \in Nat /\ 4 <= Capacity(r)
  BY DEF Capacity, Cells, Inside, Fits
<1>2. ASSUME NEW i \in 1 .. 4 PROVE ReadBytes(l, f, r, 0, 4)[i] = 0
  <2>1. 0 + i - 1 \in 0 .. Capacity(r) - 1  BY <1>1
  <2> QED  BY <2>1 DEF ReadBytes
<1>3. Declared(l, f, r) = 0
  BY <1>2 DEF Declared
<1>4. Len(<<>>) = 0 /\ 4 + 0 = 4  OBVIOUS
<1>5. ReadBytes(l, f, r, 4, 0) = <<>>
  BY DEF ReadBytes
<1> QED  BY <1>3, <1>4, <1>5 DEF HoldsText
-----------------------------------------------------------------------------
(* The regions of a valid layout.                                          *)

GoodLayout == layout \in Layouts /\ ValidLayout(layout)

\* The regions a call may write.
Writable == DataRegions \cup {"storage"}

LEMMA LayoutSized ==
  ASSUME GoodLayout
  PROVE  /\ Sized(layout) /\ layout.execution_rows \in Nat
         /\ layout.execution_rows < layout.height
BY SpatialAssumption DEF GoodLayout, ValidLayout, Sized

LEMMA StorageRect ==
  ASSUME GoodLayout
  PROVE  /\ Inside(layout, Region(layout, "storage"))
         /\ Region(layout, "storage").y = layout.execution_rows
BY LayoutSized DEF Region, StorageRegion, Inside, Sized

LEMMA DataRect ==
  ASSUME GoodLayout, NEW n \in DataRegions
  PROVE  /\ Region(layout, n) = layout.regions[n] /\ Inside(layout, Region(layout, n))
         /\ Region(layout, n).y >= layout.execution_rows
         /\ n \notin {"storage", "execution"}
<1>1. n \in DOMAIN layout.regions /\ layout.regions[n].kind = "data"
  BY DEF DataRegions
<1>2. n \notin {"storage", "execution"}
  BY <1>1, SpatialAssumption DEF GoodLayout
<1>3. Region(layout, n) = layout.regions[n]
  BY <1>2 DEF Region
<1> DEFINE r == layout.regions[n]
<1>4. r \in [x : Int, y : Int, width : Int, height : Int, kind : {"data", "execution"}]
  BY <1>1, SpatialAssumption DEF GoodLayout
<1>5. /\ r.width >= 1 /\ r.height >= 1 /\ r.x >= 0 /\ r.y >= 0
      /\ r.x + r.width <= layout.width /\ r.y + r.height <= layout.height
      /\ r.kind = "execution" \/ r.y >= layout.execution_rows
  BY <1>1 DEF GoodLayout, ValidLayout
<1>6. Inside(layout, r) /\ r.y >= layout.execution_rows
  BY <1>1, <1>4, <1>5 DEF Inside
<1> QED  BY <1>2, <1>3, <1>6

LEMMA WritableRect ==
  ASSUME GoodLayout, NEW n \in Writable
  PROVE  /\ Inside(layout, Region(layout, n))
         /\ Region(layout, n).y \in Nat /\ Region(layout, n).y >= layout.execution_rows
BY StorageRect, DataRect, LayoutSized DEF Writable, Inside

LEMMA DataApart ==
  ASSUME GoodLayout, NEW m \in DataRegions, NEW n \in DataRegions, m # n
  PROVE  ~RegionsOverlap(Region(layout, m), Region(layout, n))
<1>1. m \in DOMAIN layout.regions /\ n \in DOMAIN layout.regions
  BY DEF DataRegions
<1> QED  BY <1>1, DataRect DEF GoodLayout, ValidLayout

-----------------------------------------------------------------------------
(* The program in the executable rows.                                     *)

ProgramBytes(l) == 0 .. 3 * (l.width * l.execution_rows) - 1
HoldsProgram(l, f) == \A b \in ProgramBytes(l) : f[b] = Code

LEMMA ProgramInFrame ==
  ASSUME GoodLayout
  PROVE  ProgramBytes(layout) \subseteq Addresses(layout)
<1> DEFINE w == layout.width
           e == layout.execution_rows
           h == layout.height
<1>1. w \in Nat /\ e \in Nat /\ h \in Nat /\ e < h
  BY LayoutSized DEF Sized
<1> HIDE DEF w, e, h
<1>2. e * w <= h * w /\ e * w \in Nat /\ h * w \in Nat
  BY <1>1, TimesMonotone
<1>3. w * e = e * w /\ w * h = h * w
  BY <1>1
<1>4. ProgramBytes(layout) = 0 .. 3 * (w * e) - 1 /\ Addresses(layout) = 0 .. 3 * (w * h) - 1
  BY DEF ProgramBytes, Addresses, TotalCells, w, e, h
<1> QED  BY <1>2, <1>3, <1>4

\* No byte of a writable region is one of the program.
LEMMA WriteKeepsProgram ==
  ASSUME GoodLayout, NEW n \in Writable, NEW f, DOMAIN f = Addresses(layout),
         NEW bytes \in Seq(0 .. 255), Fits(Region(layout, n), 0, Len(bytes)),
         HoldsProgram(layout, f)
  PROVE  HoldsProgram(layout, WriteBytes(layout, f, Region(layout, n), 0, bytes))
<1> DEFINE r == Region(layout, n)
           w == layout.width
           e == layout.execution_rows
<1>1. /\ Inside(layout, r) /\ r.y \in Nat /\ r.y >= e /\ Sized(layout)
      /\ w \in Nat /\ e \in Nat
  BY WritableRect, LayoutSized DEF Sized
<1>2. Len(bytes) \in Nat /\ Capacity(r) \in Nat /\ Len(bytes) <= Capacity(r)
  BY <1>1, CapacityNat DEF Fits
<1> HIDE DEF r
<1>3. w * e <= w * r.y /\ w * e \in Nat /\ w * r.y \in Nat
  <2> HIDE DEF w, e
  <2>1. e * w <= r.y * w /\ e * w \in Nat /\ r.y * w \in Nat
    BY <1>1, TimesMonotone
  <2>2. e * w = w * e /\ r.y * w = w * r.y  BY <1>1
  <2> QED  BY <2>1, <2>2
<1>4. ASSUME NEW b \in ProgramBytes(layout)
      PROVE  WriteBytes(layout, f, r, 0, bytes)[b] = Code
  <2>1. b \in DOMAIN f  BY ProgramInFrame
  <2>2. b \in Int /\ b < 3 * (w * e)
    BY <1>3 DEF ProgramBytes
  <2>3. ASSUME NEW i \in 0 .. Len(bytes) - 1 PROVE ByteAt(layout, r, i) # b
    <3>1. i \in 0 .. Capacity(r) - 1  BY <1>2
    <3>2. /\ ByteAt(layout, r, i) >= 3 * (w * r.y)
          /\ ByteAt(layout, r, i) \in 0 .. 3 * TotalCells(layout) - 1
      BY <1>1, <3>1, ByteInFrame
    <3> QED  BY <1>3, <2>2, <3>2
  <2>4. WriteBytes(layout, f, r, 0, bytes)[b] = f[b]
    BY <2>1, <2>3, WriteElsewhere
  <2> QED  BY <2>4 DEF HoldsProgram
<1> QED  BY <1>4 DEF HoldsProgram, r
-----------------------------------------------------------------------------
(* What a step may assume.                                                 *)

Labels == {"idle", "read", "open", "put", "truncate", "save"}
Drawn  == {"put", "truncate", "save"}     \* a raster is in memory

BaseInv ==
  /\ TypeOK /\ GoodLayout
  /\ region \in [Users -> Writable] /\ DOMAIN edit = Users /\ DOMAIN raster = Users
  /\ \A u \in Users : pc[u] = "read" => edit[u] \in Keys \X (Values \cup {Absent})
  /\ file.is = "png" => HoldsProgram(layout, file.frame)
  /\ \A u \in Users : pc[u] \in Drawn => HoldsProgram(layout, raster[u])

LEMMA FramesAre == Frames = Raster(layout)
BY DEF Frames, Raster, Blank, Addresses

LEMMA WritableNames ==
  ASSUME GoodLayout
  PROVE  Writable \subseteq Names(layout)
BY LayoutSized DEF Writable, Names, DataRegions

LEMMA WiderSeq ==
  ASSUME NEW t \in Seq(1 .. 255)
  PROVE  t \in Seq(0 .. 255)
<1>1. t \in [1 .. Len(t) -> 1 .. 255] /\ Len(t) \in Nat
  BY LenProperties
<1>2. t \in [1 .. Len(t) -> 0 .. 255]
  BY <1>1
<1> QED  BY <1>1, <1>2

LEMMA TextIs ==
  ASSUME NEW d \in Dicts
  PROVE  IsText(Text[d])
BY SpatialAssumption, WiderSeq DEF IsText

LEMMA NoKeysDict == NoKeys \in Dicts
BY DEF NoKeys, Dicts

LEMMA InitBase == Init => BaseInv
<1> SUFFICES ASSUME Init PROVE BaseInv  OBVIOUS
<1>1. GoodLayout  BY DEF Init, GoodLayout
<1>2. Compiled(layout) \in Frames
  <2>1. Compiled(layout) \in Raster(layout)
    BY SpatialAssumption DEF Compiled, Raster, Addresses
  <2> QED  BY <2>1, FramesAre
<1>3. HoldsProgram(layout, Compiled(layout))
  <2>1. ASSUME NEW b \in ProgramBytes(layout) PROVE Compiled(layout)[b] = Code
    <3>1. b \in Addresses(layout)  BY <1>1, ProgramInFrame
    <3>2. b < 3 * layout.width * layout.execution_rows
      <4>1. layout.width \in Int /\ layout.execution_rows \in Int
        BY <1>1, LayoutSized DEF Sized
      <4>2. 3 * layout.width * layout.execution_rows
              = 3 * (layout.width * layout.execution_rows)
            /\ layout.width * layout.execution_rows \in Int
        BY <4>1
      <4> QED  BY <4>2 DEF ProgramBytes
    <3> QED  BY <3>1, <3>2 DEF Compiled, Addresses
  <2> QED  BY <2>1 DEF HoldsProgram
<1>4. "storage" \in Names(layout) /\ "storage" \in Writable
  BY <1>1, WritableNames DEF Writable
<1>5. TypeOK
  BY <1>2, <1>4, NoKeysDict, SpatialAssumption DEF Init, TypeOK, Png
<1> QED  BY <1>1, <1>3, <1>4, <1>5 DEF Init, BaseInv, Png, Drawn

\* The layout never changes, nor anything that depends on it alone.
LEMMA SameLayout ==
  ASSUME layout' = layout
  PROVE  /\ GoodLayout' = GoodLayout /\ Writable' = Writable /\ Frames' = Frames
         /\ Names(layout)' = Names(layout) /\ DataRegions' = DataRegions
         /\ \A n : Region(layout, n)' = Region(layout, n)
BY DEF GoodLayout, Writable, DataRegions, Frames

LEMMA BeginBase ==
  ASSUME BaseInv, NEW u \in Users,
         StoreSet(u) \/ StoreClear(u) \/ FrameWrite(u)
  PROVE  BaseInv'
<1>1. PICK label \in {"read", "open"}, n \in Writable, d \in Dicts,
           change \in (Keys \X (Values \cup {Absent})) \cup {<<>>} :
        /\ Begin(u, label, n, d, change)
        /\ label = "read" => change \in Keys \X (Values \cup {Absent})
  <2>1. "storage" \in Writable /\ DataRegions \subseteq Writable
    BY DEF Writable
  <2>2. CASE StoreSet(u)
    <3>1. PICK k \in Keys, v \in Values \cup {Absent} :
            Begin(u, "read", "storage", NoKeys, <<k, v>>)
      BY <2>2 DEF StoreSet
    <3> QED  BY <2>1, <3>1, NoKeysDict
  <2>3. CASE StoreClear(u)
    <3>1. Begin(u, "open", "storage", NoKeys, <<>>)
      BY <2>3 DEF StoreClear
    <3> QED  BY <2>1, <3>1, NoKeysDict
  <2>4. CASE FrameWrite(u)
    <3>1. PICK n \in DataRegions, d \in Dicts : Begin(u, "open", n, d, <<>>)
      BY <2>4 DEF FrameWrite
    <3> QED  BY <2>1, <3>1
  <2> QED  BY <2>2, <2>3, <2>4
<1>2. /\ calls < MaxCalls /\ calls' = calls + 1
      /\ pc' = [pc EXCEPT ![u] = label] /\ region' = [region EXCEPT ![u] = n]
      /\ dict' = [dict EXCEPT ![u] = d] /\ edit' = [edit EXCEPT ![u] = change]
      /\ alone' \in BOOLEAN
      /\ layout' = layout /\ file' = file /\ raster' = raster
      /\ crashes' = crashes /\ failures' = failures
  BY <1>1 DEF Begin, TypeOK, BaseInv
<1>3. /\ region' \in [Users -> Writable] /\ pc' \in [Users -> Labels]
      /\ dict' \in [Users -> Dicts]
      /\ \A v \in Users : pc'[v] \in Drawn => pc[v] \in Drawn
  BY <1>1, <1>2 DEF BaseInv, TypeOK, Labels, Drawn
<1>4. /\ layout' \in Layouts /\ file'.is \in {"png", "empty", "torn"}
      /\ file'.is = "png" => file'.frame \in Frames'
      /\ region' \in [Users -> Names(layout)']
      /\ \A v \in Users : pc'[v] \in Drawn => raster'[v] \in Frames'
      /\ calls' \in 0 .. MaxCalls /\ crashes' \in 0 .. MaxCrashes
      /\ failures' \in 0 .. MaxFailures
  <2>1. \A v \in Users : pc'[v] \in Drawn => raster[v] \in Frames
    BY <1>3 DEF BaseInv, TypeOK, Drawn
  <2>2. calls + 1 \in 0 .. MaxCalls
    BY <1>2, SpatialAssumption DEF BaseInv, TypeOK
  <2> QED  BY <1>2, <1>3, <2>1, <2>2, SameLayout, WritableNames DEF BaseInv, TypeOK
<1>5. TypeOK'
  BY <1>2, <1>3, <1>4 DEF TypeOK, Labels, Drawn
<1>6. \A v \in Users : pc'[v] = "read" => edit'[v] \in Keys \X (Values \cup {Absent})
  BY <1>1, <1>2 DEF BaseInv, TypeOK
<1>7. /\ file'.is = "png" => HoldsProgram(layout', file'.frame)
      /\ \A v \in Users : pc'[v] \in Drawn => HoldsProgram(layout', raster'[v])
  BY <1>2, <1>3, SameLayout DEF BaseInv, HoldsProgram
<1>8. DOMAIN edit' = Users /\ DOMAIN raster' = Users
  BY <1>2 DEF BaseInv
<1> QED  BY <1>2, <1>3, <1>5, <1>6, <1>7, <1>8, SameLayout DEF BaseInv
\* What the steps after the first of a call have to keep.
LEMMA BaseFrom ==
  ASSUME BaseInv, layout' = layout, region' = region, edit' = edit, calls' = calls,
         pc' \in [Users -> Labels], dict' \in [Users -> Dicts], DOMAIN raster' = Users,
         alone' \in BOOLEAN, crashes' \in 0 .. MaxCrashes,
         failures' \in 0 .. MaxFailures,
         file'.is \in {"png", "empty", "torn"},
         file'.is = "png" => file'.frame \in Frames /\ HoldsProgram(layout, file'.frame),
         \A v \in Users : pc'[v] \in Drawn =>
           raster'[v] \in Frames /\ HoldsProgram(layout, raster'[v]),
         \A v \in Users : pc'[v] = "read" => pc[v] = "read"
  PROVE  BaseInv'
<1>1. /\ layout' \in Layouts /\ region' \in [Users -> Names(layout)']
      /\ file'.is = "png" => file'.frame \in Frames'
      /\ \A v \in Users : pc'[v] \in Drawn => raster'[v] \in Frames'
      /\ calls' \in 0 .. MaxCalls
  BY SameLayout DEF BaseInv, TypeOK
<1>2. TypeOK'
  BY <1>1 DEF TypeOK, Labels, Drawn
<1>3. \A v \in Users : pc'[v] = "read" => edit'[v] \in Keys \X (Values \cup {Absent})
  BY DEF BaseInv
<1>4. /\ file'.is = "png" => HoldsProgram(layout', file'.frame)
      /\ \A v \in Users : pc'[v] \in Drawn => HoldsProgram(layout', raster'[v])
  OBVIOUS
<1>5. GoodLayout' /\ region' \in [Users -> Writable'] /\ DOMAIN edit' = Users
  BY SameLayout DEF BaseInv
<1> QED  BY <1>2, <1>3, <1>4, <1>5 DEF BaseInv

\* A user that stops where it is, others going on: nothing of theirs changes.
LEMMA MovesOn ==
  ASSUME BaseInv, NEW u \in Users, NEW l \in Labels, pc' = [pc EXCEPT ![u] = l]
  PROVE  /\ pc' \in [Users -> Labels] /\ pc'[u] = l
         /\ \A v \in Users \ {u} : pc'[v] = pc[v]
BY DEF BaseInv, TypeOK, Labels

LEMMA ReadAllBase ==
  ASSUME BaseInv, NEW u \in Users, ReadAll(u)
  PROVE  BaseInv'
<1>1. /\ layout' = layout /\ region' = region /\ edit' = edit /\ calls' = calls
      /\ alone' = alone /\ crashes' = crashes /\ failures' = failures
      /\ file' = file /\ raster' = raster
      /\ pc[u] = "read"
  BY DEF ReadAll, Raise
<1>2. PICK l \in {"idle", "open"} : pc' = [pc EXCEPT ![u] = l]
  BY DEF ReadAll, Raise, Return
<1>3. /\ pc' \in [Users -> Labels] /\ pc'[u] = l
      /\ \A v \in Users \ {u} : pc'[v] = pc[v]
  BY <1>2, MovesOn DEF Labels
<1>4. dict' \in [Users -> Dicts]
  <2>1. dict \in [Users -> Dicts] /\ edit[u] \in Keys \X (Values \cup {Absent})
    BY <1>1 DEF BaseInv, TypeOK
  <2>2. Stored \subseteq Dicts
    BY NoKeysDict DEF Stored
  <2>3. ASSUME NEW d \in Dicts PROVE [d EXCEPT ![edit[u][1]] = edit[u][2]] \in Dicts
    BY <2>1 DEF Dicts
  <2>4. dict' = dict \/ \E d \in Stored :
          dict' = [dict EXCEPT ![u] = [d EXCEPT ![edit[u][1]] = edit[u][2]]]
    BY DEF ReadAll, Raise
  <2> QED  BY <2>1, <2>2, <2>3, <2>4
<1>5. \A v \in Users : /\ pc'[v] \in Drawn => pc[v] \in Drawn
                       /\ pc'[v] = "read" => pc[v] = "read"
  BY <1>3 DEF Drawn
<1> QED  BY <1>1, <1>3, <1>4, <1>5, BaseFrom DEF BaseInv, TypeOK, Drawn

LEMMA OpenFrameBase ==
  ASSUME BaseInv, NEW u \in Users, OpenFrame(u)
  PROVE  BaseInv'
<1>1. /\ layout' = layout /\ region' = region /\ edit' = edit /\ calls' = calls
      /\ alone' = alone /\ crashes' = crashes /\ failures' = failures
      /\ file' = file /\ dict' = dict
      /\ pc[u] = "open"
  BY DEF OpenFrame, Raise
<1>2. \/ /\ pc' = [pc EXCEPT ![u] = "put"] /\ file.is = "png"
         /\ raster' = [raster EXCEPT ![u] = file.frame]
      \/ pc' = [pc EXCEPT ![u] = "idle"] /\ raster' = raster
  BY DEF OpenFrame, Raise, Return
<1>3. /\ pc' \in [Users -> Labels] /\ pc'[u] \in {"put", "idle"}
      /\ \A v \in Users \ {u} : pc'[v] = pc[v]
  BY <1>2, MovesOn DEF Labels
<1>4. ASSUME NEW v \in Users, pc'[v] \in Drawn
      PROVE  raster'[v] \in Frames /\ HoldsProgram(layout, raster'[v])
  <2>1. CASE v # u
    <3>1. raster'[v] = raster[v] /\ pc[v] \in Drawn
      BY <1>2, <1>3, <1>4, <2>1 DEF BaseInv
    <3> QED  BY <3>1 DEF BaseInv, TypeOK, Drawn
  <2>2. CASE v = u
    <3>1. pc'[u] = "put"  BY <1>3, <1>4, <2>2 DEF Drawn
    <3>2. file.is = "png" /\ raster'[u] = file.frame
      BY <1>2, <3>1, MovesOn DEF BaseInv, Labels
    <3> QED  BY <2>2, <3>2 DEF BaseInv, TypeOK
  <2> QED  BY <2>1, <2>2
<1>5. \A v \in Users : pc'[v] = "read" => pc[v] = "read"
  BY <1>3
<1>6. DOMAIN raster' = Users  BY <1>2 DEF BaseInv
<1> QED  BY <1>1, <1>3, <1>4, <1>5, <1>6, BaseFrom DEF BaseInv, TypeOK

\* What PutJson leaves in memory.
LEMMA PutWrites ==
  ASSUME BaseInv, NEW u \in Users, pc[u] = "put",
         Fits(Region(layout, region[u]), 0, Len(JsonBytes(Text[dict[u]])))
  PROVE  LET r == Region(layout, region[u])
             f == WriteBytes(layout, raster[u], r, 0, JsonBytes(Text[dict[u]]))
         IN  /\ f \in Frames /\ HoldsProgram(layout, f)
             /\ HoldsText(layout, f, r, Text[dict[u]])
<1> DEFINE r == Region(layout, region[u])
           t == Text[dict[u]]
<1>1. dict[u] \in Dicts /\ region[u] \in Writable /\ GoodLayout
  BY DEF BaseInv, TypeOK
<1>2. IsText(t)  BY <1>1, TextIs
<1>3. JsonBytes(t) \in Seq(0 .. 255)  BY <1>2, JsonBytesAre
<1>4. raster[u] \in Raster(layout) /\ HoldsProgram(layout, raster[u])
  BY FramesAre DEF BaseInv, TypeOK, Drawn
<1>5. DOMAIN raster[u] = Addresses(layout)  BY <1>4 DEF Raster
<1>6. Inside(layout, r) /\ Sized(layout)
  BY <1>1, WritableRect, LayoutSized
<1> HIDE DEF t
<1>7. WriteBytes(layout, raster[u], r, 0, JsonBytes(t)) \in Frames
  BY <1>3, <1>4, WriteType, FramesAre
<1>8. HoldsProgram(layout, WriteBytes(layout, raster[u], r, 0, JsonBytes(t)))
  BY <1>1, <1>3, <1>4, <1>5, WriteKeepsProgram DEF t
<1>9. HoldsText(layout, WriteBytes(layout, raster[u], r, 0, JsonBytes(t)), r, t)
  BY <1>2, <1>5, <1>6, HoldsWritten DEF t
<1> QED  BY <1>7, <1>8, <1>9 DEF t

LEMMA PutJsonBase ==
  ASSUME BaseInv, NEW u \in Users, PutJson(u)
  PROVE  BaseInv'
<1> DEFINE r == Region(layout, region[u])
           bytes == JsonBytes(Text[dict[u]])
           f == WriteBytes(layout, raster[u], r, 0, bytes)
<1>1. /\ layout' = layout /\ region' = region /\ edit' = edit /\ calls' = calls
      /\ alone' = alone /\ crashes' = crashes /\ failures' = failures
      /\ file' = file /\ dict' = dict
      /\ pc[u] = "put"
  BY DEF PutJson, Raise
<1>2. \/ /\ pc' = [pc EXCEPT ![u] = "truncate"] /\ Fits(r, 0, Len(bytes))
         /\ raster' = [raster EXCEPT ![u] = f]
      \/ pc' = [pc EXCEPT ![u] = "idle"] /\ raster' = raster
  BY DEF PutJson, Raise, Return
<1>3. /\ pc' \in [Users -> Labels] /\ pc'[u] \in {"truncate", "idle"}
      /\ \A v \in Users \ {u} : pc'[v] = pc[v]
  BY <1>2, MovesOn DEF Labels
<1>4. ASSUME NEW v \in Users, pc'[v] \in Drawn
      PROVE  raster'[v] \in Frames /\ HoldsProgram(layout, raster'[v])
  <2>1. CASE v # u
    <3> HIDE DEF f
    <3>1. raster'[v] = raster[v] /\ pc[v] \in Drawn
      BY <1>2, <1>3, <1>4, <2>1 DEF BaseInv
    <3> QED  BY <3>1 DEF BaseInv, TypeOK, Drawn
  <2>2. CASE v = u
    <3>1. pc'[u] = "truncate"  BY <1>3, <1>4, <2>2 DEF Drawn
    <3>2. Fits(r, 0, Len(bytes)) /\ raster'[u] = f
      <4> HIDE DEF f
      <4> QED  BY <1>2, <3>1, MovesOn DEF BaseInv, Labels
    <3> QED  BY <1>1, <2>2, <3>2, PutWrites
  <2> QED  BY <2>1, <2>2
<1>5. \A v \in Users : pc'[v] = "read" => pc[v] = "read"
  BY <1>3
<1>6. DOMAIN raster' = Users  BY <1>2 DEF BaseInv
<1> QED  BY <1>1, <1>3, <1>4, <1>5, <1>6, BaseFrom DEF BaseInv, TypeOK

LEMMA SavingBase ==
  ASSUME BaseInv, NEW u \in Users, Truncate(u) \/ Save(u) \/ SaveFails(u)
  PROVE  BaseInv'
<1>1. /\ layout' = layout /\ region' = region /\ edit' = edit /\ calls' = calls
      /\ alone' = alone /\ crashes' = crashes /\ dict' = dict /\ raster' = raster
      /\ pc[u] \in {"truncate", "save"}
      /\ failures' = failures \/ (failures < MaxFailures /\ failures' = failures + 1)
  BY DEF Truncate, Save, SaveFails, Raise
<1>2. PICK l \in {"idle", "save"} : pc' = [pc EXCEPT ![u] = l]
  BY DEF Truncate, Save, SaveFails, Raise, Return
<1>3. /\ pc' \in [Users -> Labels] /\ pc'[u] = l
      /\ \A v \in Users \ {u} : pc'[v] = pc[v]
  BY <1>2, MovesOn DEF Labels
<1>4. file' \in {file, Empty, Torn, Png(raster[u])}
  BY DEF Truncate, Save, SaveFails
<1>5. \A v \in Users : pc[v] \in Drawn =>
        raster[v] \in Frames /\ HoldsProgram(layout, raster[v])
  BY DEF BaseInv, TypeOK, Drawn
<1>6. /\ file'.is \in {"png", "empty", "torn"}
      /\ file'.is = "png" => file'.frame \in Frames /\ HoldsProgram(layout, file'.frame)
  BY <1>1, <1>4, <1>5 DEF Empty, Torn, Png, Drawn, BaseInv, TypeOK
<1>7. \A v \in Users : pc'[v] \in Drawn => pc[v] \in Drawn
  BY <1>1, <1>3 DEF Drawn
<1>8. \A v \in Users : pc'[v] = "read" => pc[v] = "read"
  BY <1>3
<1>9. failures' \in 0 .. MaxFailures
  BY <1>1, SpatialAssumption DEF BaseInv, TypeOK
<1> QED  BY <1>1, <1>3, <1>5, <1>6, <1>7, <1>8, <1>9, BaseFrom DEF BaseInv, TypeOK

LEMMA CrashBase ==
  ASSUME BaseInv, Crash
  PROVE  BaseInv'
<1>1. /\ layout' = layout /\ region' = region /\ edit' = edit /\ calls' = calls
      /\ file' = file /\ dict' = dict /\ raster' = raster
      /\ pc' = [v \in Users |-> "idle"] /\ alone' = alone
      /\ failures' = failures
      /\ crashes < MaxCrashes /\ crashes' = crashes + 1
  BY DEF Crash, BaseInv, TypeOK
<1>2. crashes' \in 0 .. MaxCrashes
  BY <1>1, SpatialAssumption DEF BaseInv, TypeOK
<1> QED  BY <1>1, <1>2, BaseFrom DEF BaseInv, TypeOK, Labels, Drawn

LEMMA StepBase == BaseInv /\ [Next]_vars => BaseInv'
<1> SUFFICES ASSUME BaseInv, [Next]_vars PROVE BaseInv'
  OBVIOUS
<1>1. ASSUME NEW u \in Users,
             \/ StoreSet(u) \/ StoreClear(u) \/ FrameWrite(u)
             \/ ReadAll(u) \/ OpenFrame(u) \/ PutJson(u) \/ Truncate(u) \/ Save(u)
             \/ SaveFails(u)
      PROVE  BaseInv'
  BY <1>1, BeginBase, ReadAllBase, OpenFrameBase, PutJsonBase, SavingBase
<1>2. CASE Crash
  BY <1>2, CrashBase
<1>3. CASE UNCHANGED vars
  <2>1. /\ layout' = layout /\ region' = region /\ edit' = edit /\ calls' = calls
        /\ file' = file /\ dict' = dict /\ raster' = raster /\ pc' = pc
        /\ alone' = alone /\ crashes' = crashes /\ failures' = failures
    BY <1>3 DEF vars, user
  <2> QED  BY <2>1, BaseFrom DEF BaseInv, TypeOK, Labels, Drawn
<1> QED  BY <1>1, <1>2, <1>3 DEF Next
LEMMA AlwaysBase == Spec => []BaseInv
<1>1. Init => BaseInv  BY InitBase
<1>2. BaseInv /\ [Next]_vars => BaseInv'  BY StepBase
<1> QED  BY <1>1, <1>2, PTL DEF Spec

\* Whatever the users interleave and wherever the process dies, a frame keeps
\* its size and its bytes stay bytes (write_bytes of zdx_spatial_frame.py).
THEOREM TypeCorrect == Spec => []TypeOK
<1>1. BaseInv => TypeOK  BY DEF BaseInv
<1> QED  BY <1>1, AlwaysBase, PTL

LEMMA BaseKeepsProgram == BaseInv => ProgramKept
<1> SUFFICES ASSUME BaseInv, file.is = "png" PROVE ProgramKept
  BY DEF ProgramKept
<1> DEFINE w == layout.width
           e == layout.execution_rows
<1>1. w \in Nat /\ e \in Nat
  BY LayoutSized DEF BaseInv, Sized
<1>2. /\ ExecutionRegion(layout).y = 0 /\ ExecutionRegion(layout).height = e
  BY DEF ExecutionRegion
<1>3. ASSUME NEW x \in 0 .. w - 1, NEW y \in 0 .. layout.height - 1, NEW c \in 0 .. 2,
             Contains(ExecutionRegion(layout), x, y)
      PROVE  file.frame[3 * Address(layout, x, y) + c] = Code
  <2>1. y \in Nat /\ y < e
    <3>1. y \in Nat
      BY LayoutSized DEF BaseInv, Sized
    <3> QED  BY <1>1, <1>2, <1>3, <3>1 DEF Contains
  <2>2. Address(layout, x, y) = y * w + x  BY DEF Address
  <2> HIDE DEF w, e
  <2>3. y * w + w <= e * w /\ y * w \in Nat /\ e * w \in Nat /\ e * w = w * e
    BY <1>1, <2>1, TimesStrict
  <2>4. 3 * (y * w + x) + c \in 0 .. 3 * (w * e) - 1
    BY <1>1, <2>3
  <2>5. 3 * Address(layout, x, y) + c \in ProgramBytes(layout)
    BY <2>2, <2>4 DEF ProgramBytes, w, e
  <2> QED  BY <2>5 DEF BaseInv, HoldsProgram
<1> QED  BY <1>3 DEF ProgramKept

\* Storage is not execution, for every valid layout: no write of the storage
\* plane or of a data region, no interleaving and no crash changes a byte of
\* the program (SpatialLayout.storage_region, __post_init__).
THEOREM ProgramSafe == Spec => []ProgramKept
BY AlwaysBase, BaseKeepsProgram, PTL
-----------------------------------------------------------------------------
(* What the regions hold, as long as every call ran alone.                 *)

Texts == {<<>>} \cup {Text[d] : d \in Dicts}

\* Frame f holds what the regions in S should hold.
HoldsKept(f, S) ==
  \A n \in S : \A t \in kept[n] : HoldsText(layout, f, Region(layout, n), t)

\* The file holds them, or is no PNG because a save of it failed.
FileKeeps == IF file.is = "png" THEN HoldsKept(file.frame, Writable)
             ELSE failures + crashes > 0

KeepInv ==
  /\ kept \in [Writable -> SUBSET Texts]
  /\ alone =>
       /\ \A u, v \in Users : pc[u] # "idle" /\ pc[v] # "idle" => u = v
       /\ (\A u \in Users : pc[u] # "save") => FileKeeps
       /\ \A u \in Users :
            pc[u] = "put" => file.is = "png" /\ raster[u] = file.frame
       /\ \A u \in Users : pc[u] \in {"truncate", "save"} =>
            /\ HoldsText(layout, raster[u], Region(layout, region[u]), Text[dict[u]])
            /\ HoldsKept(raster[u], Apart(region[u]))
       /\ \A u \in Users : pc[u] = "save" => file = Empty

LEMMA TextsAre ==
  ASSUME NEW t \in Texts
  PROVE  IsText(t)
<1>1. IsText(<<>>)
  <2>1. Len(<<>>) = 0 /\ <<>> \in Seq(0 .. 255)  OBVIOUS
  <2>2. Shift(Shift(Shift(0))) = 0  BY DEF Shift
  <2> QED  BY <2>1, <2>2 DEF IsText
<1> QED  BY <1>1, TextIs DEF Texts

\* The storage plane of a new frame is black.
LEMMA CompiledHolds ==
  ASSUME GoodLayout, NEW n \in Writable, Fits(Region(layout, n), 0, 4)
  PROVE  HoldsText(layout, Compiled(layout), Region(layout, n), <<>>)
<1> DEFINE r == Region(layout, n)
           w == layout.width
           e == layout.execution_rows
<1>1. /\ Inside(layout, r) /\ r.y \in Nat /\ r.y >= e /\ Sized(layout)
      /\ w \in Nat /\ e \in Nat
  BY WritableRect, LayoutSized DEF Sized
<1> HIDE DEF r
<1>2. w * e <= w * r.y /\ w * e \in Nat /\ w * r.y \in Nat
  <2> HIDE DEF w, e
  <2>1. e * w <= r.y * w /\ e * w \in Nat /\ r.y * w \in Nat
    BY <1>1, TimesMonotone
  <2>2. e * w = w * e /\ r.y * w = w * r.y  BY <1>1
  <2> QED  BY <2>1, <2>2
<1>3. ASSUME NEW i \in 0 .. Capacity(r) - 1
      PROVE  Compiled(layout)[ByteAt(layout, r, i)] = 0
  <2>1. /\ ByteAt(layout, r, i) \in 0 .. 3 * TotalCells(layout) - 1
        /\ ByteAt(layout, r, i) >= 3 * (w * r.y)
    BY <1>1, ByteInFrame
  <2>2. 3 * layout.width * layout.execution_rows = 3 * (w * e)
    BY <1>1
  <2>3. ~(ByteAt(layout, r, i) < 3 * layout.width * layout.execution_rows)
    BY <1>2, <2>1, <2>2
  <2> QED  BY <2>1, <2>3 DEF Compiled
<1> QED  BY <1>1, <1>3, HoldsNothing DEF r

LEMMA InitKeep == Init => KeepInv
<1> SUFFICES ASSUME Init PROVE KeepInv  OBVIOUS
<1>1. GoodLayout  BY DEF Init, GoodLayout
<1>2. kept = [n \in Writable |-> IF Fits(Region(layout, n), 0, 4) THEN {<<>>} ELSE {}]
  BY DEF Init, Writable
<1>3. kept \in [Writable -> SUBSET Texts]
  BY <1>2 DEF Texts
<1>4. file.is = "png" /\ file.frame = Compiled(layout)
  BY DEF Init, Png
<1>5. HoldsKept(file.frame, Writable)
  <2>1. ASSUME NEW n \in Writable, NEW t \in kept[n]
        PROVE  HoldsText(layout, file.frame, Region(layout, n), t)
    <3>1. Fits(Region(layout, n), 0, 4) /\ t = <<>>
      BY <1>2, <2>1
    <3> QED  BY <1>1, <1>4, <3>1, CompiledHolds
  <2> QED  BY <2>1 DEF HoldsKept
<1>6. \A u \in Users : pc[u] = "idle"
  BY DEF Init
<1> QED  BY <1>3, <1>4, <1>5, <1>6 DEF KeepInv, FileKeeps

\* A step that leaves the file, the texts and the layout alone.
LEMMA KeepFrom ==
  ASSUME BaseInv, KeepInv, layout' = layout, region' = region, kept' = kept,
         file' = file, alone' = alone,
         failures + crashes > 0 => failures' + crashes' > 0, NEW u \in Users, NEW l \in Labels \ {"save"},
         pc' = [pc EXCEPT ![u] = l], pc[u] \notin {"idle", "save"},
         \A v \in Users \ {u} : raster'[v] = raster[v] /\ dict'[v] = dict[v],
         l = "put" /\ alone => file.is = "png" /\ raster'[u] = file.frame,
         l = "truncate" /\ alone =>
           /\ HoldsText(layout, raster'[u], Region(layout, region[u]), Text[dict'[u]])
           /\ HoldsKept(raster'[u], Apart(region[u]))
  PROVE  KeepInv'
<1>1. /\ pc' \in [Users -> Labels] /\ pc'[u] = l
      /\ \A v \in Users \ {u} : pc'[v] = pc[v]
  BY MovesOn
<1>2. kept' \in [Writable' -> SUBSET Texts]
  BY SameLayout DEF KeepInv
<1>3. \A f, S : HoldsKept(f, S) => HoldsKept(f, S)'
  BY DEF HoldsKept
<1>4. ASSUME alone
      PROVE  /\ \A v \in Users \ {u} : pc[v] = "idle"
             /\ FileKeeps
  <2>1. \A v \in Users \ {u} : pc[v] = "idle"
    BY <1>4 DEF KeepInv
  <2> QED  BY <1>4, <2>1 DEF KeepInv
<1>5. ASSUME alone'
      PROVE  /\ \A v, w \in Users : pc'[v] # "idle" /\ pc'[w] # "idle" => v = w
             /\ FileKeeps
             /\ \A v \in Users :
                  pc'[v] = "put" => file'.is = "png" /\ raster'[v] = file'.frame
             /\ \A v \in Users : pc'[v] \in {"truncate", "save"} =>
                  /\ HoldsText(layout, raster'[v], Region(layout, region[v]), Text[dict'[v]])
                  /\ HoldsKept(raster'[v], Apart(region[v]))
             /\ \A v \in Users : pc'[v] # "save"
  BY <1>1, <1>4, <1>5 DEF Labels
<1>6. \A n : Apart(n)' = Apart(n) /\ Region(layout, n)' = Region(layout, n)
  BY SameLayout DEF Apart
<1>7. Texts' = Texts  BY DEF Texts
<1>8. ASSUME alone'
      PROVE  /\ FileKeeps'
             /\ \A v \in Users : pc'[v] \in {"truncate", "save"} =>
                  /\ HoldsText(layout, raster[v], Region(layout, region[v]), Text[dict[v]])'
                  /\ HoldsKept(raster[v], Apart(region[v]))'
  BY <1>3, <1>5, <1>6, <1>8, SameLayout DEF HoldsKept, FileKeeps
<1> QED  BY <1>2, <1>5, <1>7, <1>8 DEF KeepInv
LEMMA BeginKeep ==
  ASSUME BaseInv, KeepInv, NEW u \in Users,
         StoreSet(u) \/ StoreClear(u) \/ FrameWrite(u)
  PROVE  KeepInv'
<1>1. PICK label \in {"read", "open"} :
        /\ pc[u] = "idle" /\ pc' = [pc EXCEPT ![u] = label]
        /\ alone' = (alone /\ Busy = {})
        /\ layout' = layout /\ file' = file /\ kept' = kept
        /\ failures' = failures /\ crashes' = crashes
  <2>1. \E label \in {"read", "open"} : \E n, d, change : Begin(u, label, n, d, change)
    <3>1. StoreSet(u) => \E n, d, change : Begin(u, "read", n, d, change)
      BY DEF StoreSet
    <3>2. StoreClear(u) => \E n, d, change : Begin(u, "open", n, d, change)
      BY DEF StoreClear
    <3>3. FrameWrite(u) => \E n, d, change : Begin(u, "open", n, d, change)
      BY DEF FrameWrite
    <3> QED  BY <3>1, <3>2, <3>3
  <2> QED  BY <2>1 DEF Begin
<1>2. /\ pc'[u] = label /\ \A v \in Users \ {u} : pc'[v] = pc[v]
  BY <1>1, MovesOn DEF Labels
<1>3. kept' \in [Writable' -> SUBSET Texts']
  BY <1>1, SameLayout DEF KeepInv, Texts
<1>4. ASSUME alone'
      PROVE  /\ \A v \in Users \ {u} : pc'[v] = "idle"
             /\ FileKeeps
  <2>1. alone /\ \A v \in Users : pc[v] = "idle"
    BY <1>1, <1>4 DEF Busy
  <2> QED  BY <1>2, <2>1 DEF KeepInv
<1>5. ASSUME alone'
      PROVE  /\ \A v, w \in Users : pc'[v] # "idle" /\ pc'[w] # "idle" => v = w
             /\ \A v \in Users : pc'[v] \notin {"put", "truncate", "save"}
  BY <1>1, <1>2, <1>4, <1>5
<1>6. ASSUME alone' PROVE FileKeeps'
  BY <1>1, <1>4, <1>6, SameLayout DEF HoldsKept, FileKeeps
<1> QED  BY <1>3, <1>5, <1>6 DEF KeepInv

LEMMA ReadAllKeep ==
  ASSUME BaseInv, KeepInv, NEW u \in Users, ReadAll(u)
  PROVE  KeepInv'
<1>1. /\ failures' = failures /\ crashes' = crashes
      /\ layout' = layout /\ region' = region /\ kept' = kept /\ file' = file
      /\ alone' = alone /\ raster' = raster /\ pc[u] = "read"
  BY DEF ReadAll, Raise
<1>2. PICK l \in {"idle", "open"} : pc' = [pc EXCEPT ![u] = l]
  BY DEF ReadAll, Raise, Return
<1>3. \A v \in Users \ {u} : dict'[v] = dict[v]
  <2>1. dict' = dict \/ \E d : dict' = [dict EXCEPT ![u] = d]
    BY DEF ReadAll, Raise
  <2> QED  BY <2>1 DEF BaseInv, TypeOK
<1> QED  BY <1>1, <1>2, <1>3, KeepFrom DEF Labels

LEMMA OpenFrameKeep ==
  ASSUME BaseInv, KeepInv, NEW u \in Users, OpenFrame(u)
  PROVE  KeepInv'
<1>1. /\ failures' = failures /\ crashes' = crashes
      /\ layout' = layout /\ region' = region /\ kept' = kept /\ file' = file
      /\ alone' = alone /\ dict' = dict /\ pc[u] = "open"
  BY DEF OpenFrame, Raise
<1>2. CASE file.is = "png" /\ raster' = [raster EXCEPT ![u] = file.frame]
           /\ pc' = [pc EXCEPT ![u] = "put"]
  <2>1. raster'[u] = file.frame /\ \A v \in Users \ {u} : raster'[v] = raster[v]
    BY <1>2 DEF BaseInv
  <2> QED  BY <1>1, <1>2, <2>1, KeepFrom DEF Labels
<1>3. CASE raster' = raster /\ pc' = [pc EXCEPT ![u] = "idle"]
  BY <1>1, <1>3, KeepFrom DEF Labels
<1> QED  BY <1>2, <1>3 DEF OpenFrame, Raise, Return

LEMMA PutJsonKeep ==
  ASSUME BaseInv, KeepInv, NEW u \in Users, PutJson(u)
  PROVE  KeepInv'
<1> DEFINE r == Region(layout, region[u])
           bytes == JsonBytes(Text[dict[u]])
           f == WriteBytes(layout, raster[u], r, 0, bytes)
<1>1. /\ failures' = failures /\ crashes' = crashes
      /\ layout' = layout /\ region' = region /\ kept' = kept /\ file' = file
      /\ alone' = alone /\ dict' = dict /\ pc[u] = "put"
  BY DEF PutJson, Raise
<1>2. CASE raster' = raster /\ pc' = [pc EXCEPT ![u] = "idle"]
  BY <1>1, <1>2, KeepFrom DEF Labels
<1>3. CASE Fits(r, 0, Len(bytes)) /\ raster' = [raster EXCEPT ![u] = f]
           /\ pc' = [pc EXCEPT ![u] = "truncate"]
  <2>1. HoldsText(layout, f, r, Text[dict[u]])
    BY <1>1, <1>3, PutWrites
  <2>2. ASSUME alone PROVE HoldsKept(f, Apart(region[u]))
    <3>1. raster[u] = file.frame /\ HoldsKept(file.frame, Writable)
      BY <1>1, <2>2 DEF KeepInv, FileKeeps, Labels
    <3>2. /\ GoodLayout /\ region[u] \in Writable /\ dict[u] \in Dicts
          /\ raster[u] \in Raster(layout)
      BY <1>1, FramesAre DEF BaseInv, TypeOK
    <3>3. /\ bytes \in Seq(0 .. 255) /\ Inside(layout, r) /\ Sized(layout)
          /\ DOMAIN raster[u] = Addresses(layout)
      BY <3>2, TextIs, JsonBytesAre, WritableRect, LayoutSized DEF Raster
    <3>4. Len(bytes) <= Capacity(r)
      <4> HIDE DEF r, bytes
      <4>1. Len(bytes) \in Nat /\ Capacity(r) \in Nat
        BY <3>3, CapacityNat
      <4> QED  BY <1>3, <4>1 DEF Fits
    <3>5. ASSUME NEW n \in Apart(region[u]), NEW t \in kept[n]
          PROVE  HoldsText(layout, f, Region(layout, n), t)
      <4>1. /\ region[u] # "storage" /\ n \in DataRegions /\ n # region[u]
            /\ region[u] \in DataRegions
        BY <3>2, <3>5 DEF Apart, Writable
      <4>2. n \in Writable /\ t \in Texts
        BY <3>5, <4>1 DEF KeepInv, Writable
      <4>3. HoldsText(layout, raster[u], Region(layout, n), t)
        BY <3>1, <3>5, <4>2 DEF HoldsKept
      <4>4. ~RegionsOverlap(r, Region(layout, n)) /\ Inside(layout, Region(layout, n))
        BY <3>2, <4>1, <4>2, DataApart, WritableRect
      <4>5. IsText(t)  BY <4>2, TextsAre
      <4> HIDE DEF r, bytes
      <4> QED  BY <3>3, <3>4, <4>3, <4>4, <4>5, HoldsElsewhere
    <3> QED  BY <3>5 DEF HoldsKept
  <2>3. raster'[u] = f /\ \A v \in Users \ {u} : raster'[v] = raster[v]
    <3> HIDE DEF f
    <3> QED  BY <1>3 DEF BaseInv
  <2> HIDE DEF f
  <2> QED  BY <1>1, <1>3, <2>1, <2>2, <2>3, KeepFrom DEF Labels
<1> QED  BY <1>2, <1>3 DEF PutJson, Raise, Return
LEMMA TruncateKeep ==
  ASSUME BaseInv, KeepInv, NEW u \in Users, Truncate(u)
  PROVE  KeepInv'
<1>1. /\ layout' = layout /\ region' = region /\ kept' = kept /\ file' = Empty
      /\ alone' = alone /\ dict' = dict /\ raster' = raster
      /\ pc[u] = "truncate" /\ pc' = [pc EXCEPT ![u] = "save"]
  BY DEF Truncate
<1>2. pc'[u] = "save" /\ \A v \in Users \ {u} : pc'[v] = pc[v]
  BY <1>1, MovesOn DEF Labels
<1>3. ASSUME alone PROVE \A v \in Users \ {u} : pc[v] = "idle"
  BY <1>1, <1>3 DEF KeepInv
<1>4. ASSUME alone'
      PROVE  /\ \A v, w \in Users : pc'[v] # "idle" /\ pc'[w] # "idle" => v = w
             /\ \A v \in Users : pc'[v] # "put"
             /\ \A v \in Users : pc'[v] = "save" => file' = Empty'
             /\ ~(\A v \in Users : pc'[v] # "save")
  BY <1>1, <1>2, <1>3, <1>4 DEF Empty
<1>5. ASSUME alone', NEW v \in Users, pc'[v] \in {"truncate", "save"}
      PROVE  /\ HoldsText(layout, raster[v], Region(layout, region[v]), Text[dict[v]])'
             /\ HoldsKept(raster[v], Apart(region[v]))'
  <2>1. v = u  BY <1>1, <1>2, <1>3, <1>5
  <2>2. /\ HoldsText(layout, raster[u], Region(layout, region[u]), Text[dict[u]])
        /\ HoldsKept(raster[u], Apart(region[u]))
    BY <1>1, <1>5 DEF KeepInv
  <2>3. \A n : Apart(n)' = Apart(n)
    BY <1>1, SameLayout DEF Apart
  <2> QED  BY <1>1, <2>1, <2>2, <2>3, SameLayout DEF HoldsKept
<1>6. kept' \in [Writable' -> SUBSET Texts']
  BY <1>1, SameLayout DEF KeepInv, Texts
<1> QED  BY <1>4, <1>5, <1>6 DEF KeepInv

LEMMA SaveKeep ==
  ASSUME BaseInv, KeepInv, NEW u \in Users, Save(u)
  PROVE  KeepInv'
<1>1. /\ layout' = layout /\ region' = region /\ alone' = alone /\ dict' = dict
      /\ raster' = raster /\ pc[u] = "save" /\ pc' = [pc EXCEPT ![u] = "idle"]
      /\ file = Empty => file' = Png(raster[u])
      /\ kept' = [n \in DOMAIN kept |-> IF n = region[u] THEN {Text[dict[u]]}
                                        ELSE IF n \in Apart(region[u]) THEN kept[n]
                                        ELSE {}]
  BY DEF Save, Return
<1>2. pc'[u] = "idle" /\ \A v \in Users \ {u} : pc'[v] = pc[v]
  BY <1>1, MovesOn DEF Labels
<1>3. DOMAIN kept = Writable /\ dict[u] \in Dicts /\ region[u] \in Writable
  BY DEF KeepInv, BaseInv, TypeOK
<1>4. kept' \in [Writable' -> SUBSET Texts']
  <2>1. \A n \in Writable : kept'[n] \in SUBSET Texts
    BY <1>1, <1>3 DEF KeepInv, Texts
  <2> QED  BY <1>1, <1>3, <2>1, SameLayout DEF Texts
<1>5. ASSUME alone
      PROVE  /\ \A v \in Users : pc'[v] = "idle"
             /\ file' = Png(raster[u])
             /\ HoldsText(layout, raster[u], Region(layout, region[u]), Text[dict[u]])
             /\ HoldsKept(raster[u], Apart(region[u]))
  <2>1. \A v \in Users \ {u} : pc[v] = "idle"
    BY <1>1, <1>5 DEF KeepInv
  <2> QED  BY <1>1, <1>2, <1>5, <2>1 DEF KeepInv
<1>6. ASSUME alone', NEW n \in Writable', NEW t \in kept'[n]
      PROVE  HoldsText(layout, file.frame, Region(layout, n), t)'
  <2>1. n \in Writable /\ file'.frame = raster[u] /\ alone
    BY <1>1, <1>5, <1>6, SameLayout DEF Png
  <2>2. HoldsText(layout, raster[u], Region(layout, n), t)
    <3>1. CASE n = region[u]
      <4>1. t = Text[dict[u]]
        BY <1>1, <1>3, <1>6, <2>1, <3>1
      <4> QED  BY <1>5, <2>1, <3>1, <4>1
    <3>2. CASE n # region[u]
      <4>1. n \in Apart(region[u]) /\ t \in kept[n]
        BY <1>1, <1>3, <1>6, <2>1, <3>2
      <4> QED  BY <1>5, <2>1, <4>1 DEF HoldsKept
    <3> QED  BY <3>1, <3>2
  <2> QED  BY <1>1, <2>1, <2>2, SameLayout
<1>7. ASSUME alone'
      PROVE  /\ \A v \in Users : pc'[v] = "idle"
             /\ file'.is = "png"
  BY <1>1, <1>5, <1>7 DEF Png
<1>8. ASSUME alone' PROVE HoldsKept(file.frame, Writable)'
  BY <1>6, <1>8 DEF HoldsKept
<1> QED  BY <1>4, <1>7, <1>8 DEF KeepInv, FileKeeps

\* What ends calls and leaves no PNG, or the one that was there.
LEMMA CutKeep ==
  ASSUME BaseInv, KeepInv, layout' = layout, kept' = kept, alone' = alone,
         \A v \in Users : pc'[v] = "idle", failures' + crashes' > 0,
         \/ file' = file
         \/ file' = Torn
  PROVE  KeepInv'
<1>1. ASSUME alone, file'.is = "png" PROVE HoldsKept(file.frame, Writable) /\ file' = file
  <2>1. file' = file /\ file.is = "png"
    BY <1>1 DEF Torn
  <2>2. \A u \in Users : pc[u] # "save"
    BY <1>1, <2>1 DEF KeepInv, Empty
  <2> QED  BY <1>1, <2>1, <2>2 DEF KeepInv, FileKeeps
<1>2. ASSUME alone' PROVE FileKeeps'
  BY <1>1, <1>2, SameLayout DEF FileKeeps, HoldsKept
<1>3. kept' \in [Writable' -> SUBSET Texts']
  BY SameLayout DEF KeepInv, Texts
<1> QED  BY <1>2, <1>3 DEF KeepInv

LEMMA SaveFailsKeep ==
  ASSUME BaseInv, KeepInv, NEW u \in Users, SaveFails(u)
  PROVE  KeepInv'
<1>1. /\ layout' = layout /\ region' = region /\ kept' = kept /\ alone' = alone
      /\ dict' = dict /\ raster' = raster /\ crashes' = crashes
      /\ failures' = failures + 1 /\ pc' = [pc EXCEPT ![u] = "idle"]
  BY DEF SaveFails, Raise, Return
<1>2. failures' + crashes' > 0
  BY <1>1, SpatialAssumption DEF BaseInv, TypeOK
<1>3. CASE alone
  <2>1. \A v \in Users : pc'[v] = "idle"
    <3>1. pc[u] # "idle"  BY DEF SaveFails
    <3> QED  BY <1>1, <1>3, <3>1, MovesOn DEF KeepInv, Labels
  <2> QED  BY <1>1, <1>2, <2>1, CutKeep DEF SaveFails
<1>4. CASE ~alone
  <2>1. kept' \in [Writable' -> SUBSET Texts']
    BY <1>1, SameLayout DEF KeepInv, Texts
  <2> QED  BY <1>1, <1>4, <2>1 DEF KeepInv
<1> QED  BY <1>3, <1>4

LEMMA CrashKeep ==
  ASSUME BaseInv, KeepInv, Crash
  PROVE  KeepInv'
<1>1. failures' + crashes' > 0
  BY SpatialAssumption DEF Crash, BaseInv, TypeOK
<1> QED  BY <1>1, CutKeep DEF Crash

LEMMA StepKeep == BaseInv /\ KeepInv /\ [Next]_vars => KeepInv'
<1> SUFFICES ASSUME BaseInv, KeepInv, [Next]_vars PROVE KeepInv'
  OBVIOUS
<1>1. ASSUME NEW u \in Users,
             \/ StoreSet(u) \/ StoreClear(u) \/ FrameWrite(u)
             \/ ReadAll(u) \/ OpenFrame(u) \/ PutJson(u) \/ Truncate(u) \/ Save(u)
             \/ SaveFails(u)
      PROVE  KeepInv'
  BY <1>1, BeginKeep, ReadAllKeep, OpenFrameKeep, PutJsonKeep, TruncateKeep, SaveKeep,
     SaveFailsKeep
<1>2. CASE Crash
  BY <1>2, CrashKeep
<1>3. CASE UNCHANGED vars
  <2>1. /\ layout' = layout /\ region' = region /\ kept' = kept /\ file' = file
        /\ dict' = dict /\ raster' = raster /\ pc' = pc /\ alone' = alone
        /\ failures' = failures /\ crashes' = crashes
    BY <1>3 DEF vars, user
  <2>2. \A n : Apart(n)' = Apart(n)
    BY <2>1, SameLayout DEF Apart
  <2>3. \A f, S : HoldsKept(f, S)' = HoldsKept(f, S)
    BY <2>1 DEF HoldsKept
  <2> QED  BY <2>1, <2>2, <2>3, SameLayout DEF KeepInv, Texts, HoldsKept, Empty, FileKeeps
<1> QED  BY <1>1, <1>2, <1>3 DEF Next

\* For every valid layout: as long as calls come one after the other, whichever
\* of them raise or are cut off, each region holds the text last written to it,
\* whatever was written to the others, or there is no PNG left, which takes a
\* save that raised or was cut off (write_json, _regions_overlap, _write_all).
THEOREM RegionsSafe == Spec => []RegionsKeep
<1>1. BaseInv /\ KeepInv => RegionsKeep
  <2> SUFFICES ASSUME BaseInv, KeepInv, alone, Busy = {}
               PROVE  RegionsKeep
    BY DEF RegionsKeep
  <2>1. \A u \in Users : pc[u] # "save"
    BY DEF Busy
  <2>2. FileKeeps /\ DOMAIN kept = Writable
    BY <2>1 DEF KeepInv
  <2> QED  BY <2>2 DEF RegionsKeep, HoldsKept, FileKeeps
<1> QED  BY <1>1, InitKeep, StepKeep, AlwaysBase, PTL DEF Spec
-----------------------------------------------------------------------------
(* What a call of the store changes in the dictionary it read.             *)

Edited(u) == \A d \in Known("storage") :
               dict[u] = [d EXCEPT ![edit[u][1]] = edit[u][2]]

EditInv ==
  alone => \A u \in Users :
             /\ pc[u] \in {"open", "put", "truncate", "save"}
             /\ region[u] = "storage" /\ edit[u] # <<>>
             => Edited(u)

\* A region holds one text.
LEMMA HoldsOne ==
  ASSUME NEW l, NEW f, NEW r, NEW s, NEW t, HoldsText(l, f, r, s), HoldsText(l, f, r, t)
  PROVE  s = t
BY DEF HoldsText

LEMMA TextOfOne ==
  ASSUME NEW d \in Dicts, NEW e \in Dicts
  PROVE  (Text[d] = Text[e] => d = e) /\ Text[d] # <<>>
<1>1. Len(<<>>) = 0  OBVIOUS
<1> QED  BY <1>1, SpatialAssumption

\* What _read_all returns while every call ran alone is what was last written.
LEMMA StoredKnown ==
  ASSUME BaseInv, KeepInv, alone, \A u \in Users : pc[u] # "save",
         file.is = "png", NEW d \in Stored, NEW e \in Known("storage")
  PROVE  d = e
<1> DEFINE r == StorageRegion(layout)
           holds(t) == HoldsText(layout, file.frame, r, t)
<1>1. Region(layout, "storage") = r /\ "storage" \in Writable
  BY DEF Region, Writable
<1>2. \A t \in kept["storage"] : holds(t)
  BY <1>1 DEF KeepInv, HoldsKept, FileKeeps
<1> HIDE DEF r
<1>3. \A s, t : holds(s) /\ holds(t) => s = t
  BY HoldsOne
<1>4. \/ holds(<<>>) /\ d = NoKeys
      \/ ~holds(<<>>) /\ d \in Dicts /\ holds(Text[d])
  BY DEF Stored, r
<1>5. \/ e \in Dicts /\ holds(Text[e])
      \/ e = NoKeys /\ holds(<<>>)
  BY <1>2 DEF Known
<1> HIDE DEF holds
<1>6. CASE holds(<<>>)
  <2>1. ~(e \in Dicts /\ holds(Text[e]))
    BY <1>3, <1>6, TextOfOne, NoKeysDict
  <2> QED  BY <1>4, <1>5, <1>6, <2>1
<1>7. CASE ~holds(<<>>)
  BY <1>3, <1>4, <1>5, <1>7, TextOfOne
<1> QED  BY <1>6, <1>7

\* A step that begins no edit and changes none.
LEMMA EditFrom ==
  ASSUME EditInv, alone' => alone, kept' = kept, region' = region, edit' = edit,
         \A v \in Users : pc'[v] \in {"open", "put", "truncate", "save"} =>
           pc[v] \in {"open", "put", "truncate", "save"} /\ dict'[v] = dict[v]
  PROVE  EditInv'
<1>1. Known("storage")' = Known("storage")
  BY DEF Known
<1>2. ASSUME alone', NEW v \in Users, pc'[v] \in {"open", "put", "truncate", "save"},
             region'[v] = "storage", edit'[v] # <<>>
      PROVE  Edited(v)'
  <2>1. Edited(v)  BY <1>2 DEF EditInv
  <2> QED  BY <1>1, <1>2, <2>1 DEF Edited
<1> QED  BY <1>2 DEF EditInv

LEMMA StepEdit == BaseInv /\ KeepInv /\ EditInv /\ [Next]_vars => EditInv'
<1> SUFFICES ASSUME BaseInv, KeepInv, EditInv, [Next]_vars PROVE EditInv'
  OBVIOUS
<1> DEFINE Working == {"open", "put", "truncate", "save"}
<1>1. ASSUME NEW u \in Users, StoreSet(u) \/ StoreClear(u) \/ FrameWrite(u)
      PROVE  EditInv'
  <2>1. PICK label, n, d, change :
          /\ Begin(u, label, n, d, change)
          /\ label = "read" \/ (label = "open" /\ change = <<>>)
    <3>1. StoreSet(u) => \E n, d, change : Begin(u, "read", n, d, change)
      BY DEF StoreSet
    <3>2. StoreClear(u) \/ FrameWrite(u) => \E n, d : Begin(u, "open", n, d, <<>>)
      BY DEF StoreClear, FrameWrite
    <3> QED  BY <1>1, <3>1, <3>2
  <2>2. ASSUME alone', NEW v \in Users, v # u PROVE pc'[v] = "idle"
    <3>1. pc[v] = "idle"  BY <2>1, <2>2 DEF Begin, Busy
    <3> QED  BY <2>1, <2>2, <3>1 DEF Begin, BaseInv, TypeOK
  <2>3. pc'[u] = label /\ edit'[u] = change
    BY <2>1 DEF Begin, BaseInv, TypeOK
  <2> QED  BY <2>1, <2>2, <2>3 DEF EditInv
<1>2. ASSUME NEW u \in Users, ReadAll(u) PROVE EditInv'
  <2>1. /\ pc[u] = "read" /\ kept' = kept /\ region' = region /\ edit' = edit
        /\ alone' = alone
    BY <1>2 DEF ReadAll
  <2>2. CASE Raise(u)
    <3>1. dict' = dict /\ pc' = [pc EXCEPT ![u] = "idle"]
      BY <2>2 DEF Raise, Return
    <3> QED  BY <2>1, <3>1, EditFrom DEF BaseInv, TypeOK
  <2>3. CASE ~Raise(u)
    <3>1. PICK d \in Stored, l \in {"idle", "open"} :
            /\ dict' = [dict EXCEPT ![u] = [d EXCEPT ![edit[u][1]] = edit[u][2]]]
            /\ pc' = [pc EXCEPT ![u] = l] /\ file.is = "png"
      BY <1>2, <2>3 DEF ReadAll
    <3>2. ASSUME alone, NEW v \in Users, v # u PROVE pc'[v] = "idle"
      BY <2>1, <3>1, <3>2 DEF KeepInv, BaseInv, TypeOK
    <3>3. ASSUME alone PROVE Edited(u)'
      <4>1. \A v \in Users : pc[v] # "save"
        BY <2>1, <3>3 DEF KeepInv
      <4>2. \A e \in Known("storage") : d = e
        BY <3>1, <3>3, <4>1, StoredKnown
      <4>3. dict'[u] = [d EXCEPT ![edit[u][1]] = edit[u][2]]
        BY <3>1 DEF BaseInv, TypeOK
      <4>4. Known("storage")' = Known("storage")
        BY <2>1 DEF Known
      <4> QED  BY <2>1, <4>2, <4>3, <4>4 DEF Edited
    <3> QED  BY <2>1, <3>2, <3>3 DEF EditInv
  <2> QED  BY <2>2, <2>3
<1>3. ASSUME NEW u \in Users, OpenFrame(u) \/ PutJson(u) \/ Truncate(u)
      PROVE  EditInv'
  <2>1. /\ pc[u] \in Working /\ kept' = kept /\ region' = region /\ edit' = edit
        /\ alone' = alone /\ dict' = dict
        /\ \E l : pc' = [pc EXCEPT ![u] = l]
    BY <1>3 DEF OpenFrame, PutJson, Truncate, Raise, Return
  <2> QED  BY <2>1, EditFrom DEF BaseInv, TypeOK
<1>4. ASSUME NEW u \in Users, Save(u) \/ SaveFails(u) PROVE EditInv'
  <2>1. /\ pc[u] # "idle" /\ alone' = alone /\ pc' = [pc EXCEPT ![u] = "idle"]
    BY <1>4 DEF Save, SaveFails, Raise, Return
  <2>2. ASSUME alone, NEW v \in Users PROVE pc'[v] = "idle"
    BY <2>1, <2>2 DEF KeepInv, BaseInv, TypeOK
  <2> QED  BY <2>1, <2>2 DEF EditInv
<1>5. CASE Crash
  <2>1. \A v \in Users : pc'[v] = "idle"
    BY <1>5 DEF Crash
  <2> QED  BY <2>1 DEF EditInv
<1>6. CASE UNCHANGED vars
  <2>1. /\ kept' = kept /\ region' = region /\ edit' = edit /\ alone' = alone
        /\ dict' = dict /\ pc' = pc
    BY <1>6 DEF vars, user
  <2> QED  BY <2>1, EditFrom
<1> QED  BY <1>1, <1>2, <1>3, <1>4, <1>5, <1>6 DEF Next

\* Whatever the keys and the values, write and delete of the store that ran
\* alone save the dictionary that was stored with their one key changed
\* (SpatialPixelStore.write, delete; _read_all, _write_all).
THEOREM OneKeyEdited == Spec => StoreEditsOneKey
<1>1. Init => EditInv
  BY DEF Init, EditInv
<1>2. BaseInv /\ KeepInv /\ EditInv => EditsOneKey
  BY DEF EditInv, Edited, EditsOneKey
<1>3. BaseInv /\ KeepInv /\ EditInv /\ [Next]_vars => [EditsOneKey]_vars
  BY <1>2
<1> QED
  BY <1>1, <1>3, InitKeep, StepKeep, StepEdit, AlwaysBase, PTL DEF Spec, StoreEditsOneKey
=============================================================================
