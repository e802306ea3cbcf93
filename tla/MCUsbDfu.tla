------------------------------ MODULE MCUsbDfu ------------------------------
(* Two zones, of two sectors and of one. *)
EXTENDS UsbDfu

MCZone == [a \in {0, 1} |-> IF a = 0 THEN [start |-> 0, end |-> 8]
                                     ELSE [start |-> 8, end |-> 12]]
=============================================================================
