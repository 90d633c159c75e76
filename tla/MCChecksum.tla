----------------------------- MODULE MCChecksum -----------------------------
(* Words of three bits.  The values make every number of carries happen. *)
EXTENDS Checksum

MCAddresses == {<<0, 0>>, <<7, 1>>, <<2, 5>>}
=============================================================================
