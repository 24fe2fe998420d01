------------------------------- MODULE MCStore -------------------------------
(* PixelStore with two keys of one slug and one of its own.                *)
EXTENDS PixelStore, PixelCodec

\* Texts of one byte to a row of the image and more.
ASSUME CodecAssumption ==
  \A n \in {0, 1, 2, 187, 188, 189, 300} :
    LET text == [i \in 1 .. n |-> i % 256]
    IN  Decodable(Encode(text)) /\ Decode(Encode(text)) = text

CONSTANTS k1, k2, k3

MCKeys  == {k1, k2, k3}
MCSymmetry == Permutations({k1, k2})
MCSlug  == [k \in MCKeys |-> IF k = k3 THEN "b" ELSE "a"]
=============================================================================
