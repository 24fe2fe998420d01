---------------------------- MODULE SpatialFrame ----------------------------
(***************************************************************************)
(* The geometry of a spatial PNG and the bytes in its raster               *)
(* (zdx_spatial_frame.py).                                                 *)
(*                                                                         *)
(* A layout is a record of the frame's width and height, the number of its *)
(* executable rows and its named regions, a function from names to         *)
(* rectangles.  A frame is a function from byte addresses to bytes: three  *)
(* bytes to a cell, cells in row-major order, as in the decoded raster.    *)
(***************************************************************************)
EXTENDS Integers, Sequences

\* The number of cells and bytes of a rectangle.
Cells(r) == r.width * r.height
Capacity(r) == 3 * Cells(r)

Contains(r, x, y) == /\ r.x <= x /\ x < r.x + r.width
                     /\ r.y <= y /\ y < r.y + r.height

\* Mutant of RegionsOverlap: rectangles that share rows are not compared.
RegionsOverlapByColumns(a, b) ==
  ~ (a.x + a.width <= b.x \/ b.x + b.width <= a.x \/ a.y # b.y)

\* _regions_overlap
RegionsOverlap(a, b) ==
  ~ \/ a.x + a.width <= b.x
    \/ b.x + b.width <= a.x
    \/ a.y + a.height <= b.y
    \/ b.y + b.height <= a.y

\* What __post_init__ asks of a layout.
ValidLayout(l) ==
  /\ l.width >= 1 /\ l.height >= 1
  /\ l.execution_rows \in 0 .. l.height
  /\ \A n \in DOMAIN l.regions :
       LET r == l.regions[n]
       IN /\ r.width >= 1 /\ r.height >= 1
          /\ r.x >= 0 /\ r.y >= 0
          /\ r.x + r.width <= l.width /\ r.y + r.height <= l.height
          /\ r.kind = "execution" \/ r.y >= l.execution_rows
  /\ \A m, n \in DOMAIN l.regions :
       m # n => ~ RegionsOverlap(l.regions[m], l.regions[n])

ExecutionRegion(l) == [x |-> 0, y |-> 0, width |-> l.width,
                       height |-> l.execution_rows, kind |-> "execution"]

\* Mutant of StorageRegion: storage begins at the top of the frame.
StorageFromTop(l) == [x |-> 0, y |-> 0, width |-> l.width,
                      height |-> l.height - l.execution_rows, kind |-> "data"]

StorageRegion(l) == [x |-> 0, y |-> l.execution_rows, width |-> l.width,
                     height |-> l.height - l.execution_rows, kind |-> "data"]

\* The names region() resolves, and what it resolves them to: its own two
\* names come before those of the layout.
Names(l) == (IF l.execution_rows < l.height THEN {"storage"} ELSE {})
              \cup {"execution"} \cup DOMAIN l.regions

Region(l, name) == CASE name = "storage" -> StorageRegion(l)
                     [] name = "execution" -> ExecutionRegion(l)
                     [] OTHER -> l.regions[name]
-----------------------------------------------------------------------------
\* address() and coordinates()
TotalCells(l) == l.width * l.height
InFrame(l, x, y) == x \in 0 .. l.width - 1 /\ y \in 0 .. l.height - 1
Address(l, x, y) == y * l.width + x
Coordinates(l, address) == <<address % l.width, address \div l.width>>

\* The address in the frame of byte i of a region, which numpy's reshape
\* numbers along the rows of the region.
ByteAt(l, r, i) ==
  LET cell == i \div 3
  IN 3 * Address(l, r.x + (cell % r.width), r.y + (cell \div r.width))
       + (i % 3)

Blank(l) == [b \in 0 .. 3 * TotalCells(l) - 1 |-> 0]

Fits(r, offset, length) ==
  length >= 0 /\ offset >= 0 /\ offset + length <= Capacity(r)

ReadBytes(l, f, r, offset, length) ==
  [i \in 1 .. length |-> f[ByteAt(l, r, offset + i - 1)]]

\* Mutant of WriteBytes: the block of the region is not put back in the frame.
WriteBytesInBlock(l, f, r, offset, bytes) ==
  LET at(i) == ByteAt(l, r, offset + i - 1)
  IN [b \in {ByteAt(l, r, i) : i \in 0 .. Capacity(r) - 1} |->
        IF \E i \in 1 .. Len(bytes) : at(i) = b
        THEN bytes[CHOOSE i \in 1 .. Len(bytes) : at(i) = b]
        ELSE f[b]]

WriteBytes(l, f, r, offset, bytes) ==
  LET at(i) == ByteAt(l, r, offset + i - 1)
  IN [b \in DOMAIN f |->
        IF \E i \in 1 .. Len(bytes) : at(i) = b
        THEN bytes[CHOOSE i \in 1 .. Len(bytes) : at(i) = b]
        ELSE f[b]]
-----------------------------------------------------------------------------
(***************************************************************************)
(* JSON in a region: the text behind a header of four bytes, its length,   *)
(* high byte first.                                                        *)
(***************************************************************************)
Shift(n) == n \div 256
Header(n) == <<Shift(Shift(Shift(n))) % 256, Shift(Shift(n)) % 256,
               Shift(n) % 256, n % 256>>

JsonBytes(text) == Header(Len(text)) \o text

Declared(l, f, r) ==
  LET h == ReadBytes(l, f, r, 0, 4)
  IN 256 * (256 * (256 * h[1] + h[2]) + h[3]) + h[4]

\* read_json returns the object with this text, or None when that is <<>>; it
\* raises when the region holds no text.
HoldsText(l, f, r, text) ==
  /\ Fits(r, 0, 4 + Len(text))
  /\ Declared(l, f, r) = Len(text)
  /\ ReadBytes(l, f, r, 4, Len(text)) = text
=============================================================================
