--------------------------- MODULE MCPictureSender ---------------------------
(***************************************************************************)
(* The picture thread on a small instance: packets of two bytes, and       *)
(* frames shorter than, equal to, just above and well above a packet.      *)
(***************************************************************************)
EXTENDS PictureSender

MCLens == {1, 2, 3, 5}

=============================================================================
