---------------------------- MODULE MCUsbDevice -----------------------------
(* One configuration: an interface with two settings, and DFU run time.  The   *)
(* packet sizes are no multiples of a word.                                    *)
EXTENDS UsbDevice, TLC

Bci(n)  == [type |-> "bci", mps |-> n]
Isoc(n) == [type |-> "isoc", mps |-> n]

MCDesc == 1 :> {[intf |-> 0, alt |-> 0, ep |-> (129 :> Bci(6))],
                [intf |-> 0, alt |-> 1, ep |-> (129 :> Bci(9) @@ 130 :> Isoc(5))],
                [intf |-> 1, alt |-> 0, ep |-> <<>>]}
=============================================================================
