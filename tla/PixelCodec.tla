------------------------------ MODULE PixelCodec ------------------------------
(***************************************************************************)
(* zdx_pixel_memory/codec.py: the bytes of a JSON text as an image of 64   *)
(* pixels a row, behind their number, and back.  An image is the sequence  *)
(* of its bytes, three a pixel, row by row.                                *)
(***************************************************************************)
EXTENDS Integers, Sequences

Bytes == 0 .. 255
Width == 64

\* to_bytes(4, "big") of a length whose upper byte is one, int.from_bytes.
Shift(n)  == n \div 256
Header(n) == <<Shift(Shift(Shift(n))), Shift(Shift(n)) % 256, Shift(n) % 256, n % 256>>
LengthOf(raw) == 256 * (256 * (256 * raw[1] + raw[2]) + raw[3]) + raw[4]

\* Padded to whole pixels, then to whole rows.
Pixels(n) == (n + 2) \div 3
Height(n) == (Pixels(n) + Width - 1) \div Width
ImageSize(n) == 3 * Width * Height(n)

\* encode: a text of 2^32 bytes or more raises.
Encodable(text) ==
  text \in Seq(Bytes) /\ Shift(Shift(Shift(Len(text)))) \in Bytes
Encode(text) ==
  LET raw == Header(Len(text)) \o text
  IN  [i \in 1 .. ImageSize(Len(raw)) |-> IF i <= Len(raw) THEN raw[i] ELSE 0]

\* decode: raises when the image is too small for a length, or for its length.
Decodable(raw) == Len(raw) >= 4 /\ Len(raw) >= 4 + LengthOf(raw)
Decode(raw) == SubSeq(raw, 5, 4 + LengthOf(raw))
=============================================================================
