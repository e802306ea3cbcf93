--------------------------- MODULE MCControlXfer ----------------------------
(* Small instances of ControlXfer: a few transfers of a few units. *)
EXTENDS ControlXfer

CONSTANTS
  MaxXfer,  \* transfers the host starts
  Reads,    \* wLength of the requests whose data stage is IN
  Writes    \* and of the others

MCNoReq   == [id |-> 0, dir |-> "out", len |-> 0]
MCRequest == {MCNoReq} \cup [id: 1 .. MaxXfer, dir: {"in"}, len: Reads]
                       \cup [id: 1 .. MaxXfer, dir: {"out"}, len: Writes]
MCUnit    == [req: MCRequest, pos: 0 .. MaxLen]
MCCrcUnit == [req |-> MCNoReq, pos |-> 0]
=============================================================================
