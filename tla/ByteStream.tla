------------------------------ MODULE ByteStream ------------------------------
(***************************************************************************)
(* What TcpConnection promises to the callers of send and to the peer: the *)
(* messages it accepts go on the wire whole and in the order of            *)
(* acceptance, byte after byte, and once the stream has ended nothing more *)
(* is accepted or written.  It ends only when all that was accepted is on  *)
(* the wire.                                                               *)
(***************************************************************************)
EXTENDS Naturals, Sequences

CONSTANT Message    \* the byte sequences that may be accepted

VARIABLES accepted,   \* the bytes accepted, oldest first
          wire,       \* the bytes written, oldest first
          ended       \* the end of the stream was sent

vars == <<accepted, wire, ended>>

Init == accepted = <<>> /\ wire = <<>> /\ ended = FALSE

\* The sequence s is t or its beginning.
Begins(s, t) == Len(s) <= Len(t) /\ SubSeq(t, 1, Len(s)) = s

\* At most one message is accepted, any part of what waits is written, and the
\* stream may end if that is all of it.
Next ==
    /\ ~ended
    /\ UNCHANGED accepted \/ \E message \in Message : accepted' = accepted \o message
    /\ Begins(wire, wire') /\ Begins(wire', accepted')
    /\ ended' \in BOOLEAN
    /\ ended' => wire' = accepted'

Spec == Init /\ [][Next]_vars
=============================================================================
