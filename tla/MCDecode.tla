------------------------------- MODULE MCDecode -------------------------------
(***************************************************************************)
(* Instances of Decode: two pools that share a token, three events of one  *)
(* and a line of every other kind, the undecodable payload of the other.   *)
(***************************************************************************)
EXTENDS Decode

CONSTANTS p, q, x, y, z

Line(kind, pool, block) == [kind |-> kind, pool |-> pool, block |-> block]
Lines6 ==
  << Line("event", p, 1), Line("payload", q, 1), Line("event", p, 2),
     Line("unreadable", q, 0), Line("foreign", p, 3), Line("event", p, 3) >>
TwoPools == [pool \in {p, q} |-> IF pool = p THEN {x, y} ELSE {y, z}]
=============================================================================
