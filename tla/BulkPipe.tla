------------------------------ MODULE BulkPipe ------------------------------
(***************************************************************************)
(* What a bulk or interrupt end point promises the function driver: a pipe *)
(* of packets, which arrive in order, once each, whatever packets the bus  *)
(* loses.  Data the host reads is cut into packets as it is written; a     *)
(* read of the function driver takes packets until one is short or the     *)
(* read is full, and cuts off what does not fit.                           *)
(***************************************************************************)
EXTENDS Integers, Sequences

CONSTANTS
  Mps,        \* packet size
  XferLen,    \* lengths of the reads and writes of the function driver
  Packet,     \* packets the host sends
  Cut(_, _)   \* the packets a write is sent in: number of the first, length

VARIABLES
  dir,   \* "in": the host reads;  "out": the function driver reads;  or "none"
  room,  \* what the read in progress of the function driver may still take
  sent,
  got

pipeVars == <<dir, room, sent, got>>

NoRead == -1

Start(s, n) == IF Len(s) <= n THEN s ELSE SubSeq(s, 1, n)

Init == dir = "none" /\ room = NoRead /\ sent = <<>> /\ got = <<>>

Connect(d) == dir = "none" /\ dir' = d /\ UNCHANGED <<room, sent, got>>
Reset      == dir' = "none" /\ room' = NoRead /\ sent' = <<>> /\ got' = <<>>

Write(n) ==
  /\ dir = "in"
  /\ sent' = sent \o Cut(Len(sent) + 1, n)
  /\ UNCHANGED <<dir, room, got>>

HostSends(p) ==
  dir = "out" /\ sent' = Append(sent, p) /\ UNCHANGED <<dir, room, got>>

Arriving == sent[Len(got) + 1]

HostGets ==
  /\ dir = "in" /\ Len(got) < Len(sent)
  /\ got' = Append(got, Arriving)
  /\ UNCHANGED <<dir, room, sent>>

Read(n) ==
  dir = "out" /\ room = NoRead /\ room' = n /\ UNCHANGED <<dir, sent, got>>

Take ==
  /\ dir = "out" /\ room # NoRead /\ Len(got) < Len(sent)
  /\ LET p == Start(Arriving, room)
     IN /\ got' = Append(got, p)
        /\ room' = IF Len(p) < Mps \/ Len(p) = room THEN NoRead ELSE room - Len(p)
  /\ UNCHANGED <<dir, sent>>

Next == \/ \E d \in {"in", "out"} : Connect(d)
        \/ Reset
        \/ \E n \in XferLen : Write(n) \/ Read(n)
        \/ \E p \in Packet : HostSends(p)
        \/ HostGets \/ Take

Spec == Init /\ [][Next]_pipeVars
=============================================================================
