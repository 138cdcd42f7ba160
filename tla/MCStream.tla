------------------------------ MODULE MCStream ------------------------------
(***************************************************************************)
(* Small instances of Stream for TLC: what the peers send, and the         *)
(* interceptors, for each question asked of the session.                   *)
(***************************************************************************)
EXTENDS Stream

CONSTANTS b1, b2

Pkt(kind, b) == [kind |-> kind, body |-> b]

(* Hooks rewrite freely, so the peers need only one body. *)
VettedUp   == {Pkt(k, b1) : k \in {"CONNECT", "PUBLISH", "SUBSCRIBE"}}
NotifyingUp == {Pkt("PUBLISH", b1), Pkt("UNSUBSCRIBE", b1), Pkt("MALFORMED", b1)}
PlainUp    == {Pkt("PUBLISH", b1), Pkt("MALFORMED", b1)}
HandshakeDown == {Pkt("CONNACK", b1), Pkt("PUBLISH", b1)}
PublishDown == {Pkt("PUBLISH", b1)}

Packets(up, down) == [d \in Direction |-> IF d = "Up" THEN up ELSE down]
OneUpTwoDown   == Packets(1, 2)
TwoUpOneDown   == Packets(2, 1)
FourUp         == Packets(4, 0)

(* An interceptor that turns b1 into b2, and fails on anything else. *)
RewritingIc ==
  [d \in Direction |-> {<<Pkt(k, b1), Pkt(k, b2)>> : k \in Kind}]
(* One that lets every packet pass, unless it fails, and returns no packet *)
(* for some publications.                                                  *)
DroppingIc ==
  [d \in Direction |-> {<<p, p>> : p \in Packet}
                        \cup {<<Pkt("PUBLISH", b2), NilPacket>>}]
=============================================================================
