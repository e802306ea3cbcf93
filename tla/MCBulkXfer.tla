----------------------------- MODULE MCBulkXfer -----------------------------
(* A small instance of BulkXfer: a few packets of up to four units. *)
EXTENDS BulkXfer

MCUnit    == (0 .. MaxPkt) \X (0 .. Mps)
MCCrcUnit == <<0, 0>>
=============================================================================
