------------------------------- MODULE MCLink -------------------------------
(* NodeLink with a header of two bytes and a body of two.                  *)
EXTENDS NodeLink
=============================================================================
