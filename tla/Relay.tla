------------------------------- MODULE Relay --------------------------------
(***************************************************************************)
(* What one direction of a proxied session promises, whatever happens      *)
(* inside the proxy: the peer at the far end receives, in order and        *)
(* without a gap, what the near peer submitted, each packet possibly       *)
(* rewritten on the way but only in a way Allowed permits; a refusal or a  *)
(* failure may stop the relay for good, it never makes it skip a packet.   *)
(* After the last relayed packet the proxy may add one packet of its own,  *)
(* the farewell of a relay that refused to go on.                          *)
(***************************************************************************)
EXTENDS Naturals, Sequences

CONSTANTS Packet,        \* everything a peer may submit
          Allowed,       \* what each submitted packet may be received as
          MayRefuse      \* does this direction end a refused relay with a farewell?

VARIABLES submitted,     \* the packets the near peer has handed over so far
          received,      \* the packets the far peer has been handed so far
          farewell       \* has the far peer been told that the relay is over?

relayVars == <<submitted, received, farewell>>

Init ==
  /\ submitted = << >>
  /\ received = << >>
  /\ farewell = FALSE

Submit ==
  /\ \E p \in Packet : submitted' = Append(submitted, p)
  /\ UNCHANGED <<received, farewell>>

(* The next packet in line, never a later one, and none after the farewell. *)
Forward ==
  /\ ~farewell
  /\ Len(received) < Len(submitted)
  /\ \E q \in Allowed[submitted[Len(received) + 1]] :
        received' = Append(received, q)
  /\ UNCHANGED <<submitted, farewell>>

Refuse ==
  /\ MayRefuse
  /\ ~farewell
  /\ Len(received) < Len(submitted)     \* there is a packet to refuse
  /\ farewell' = TRUE
  /\ UNCHANGED <<submitted, received>>

Next == Submit \/ Forward \/ Refuse

Spec == Init /\ [][Next]_relayVars
=============================================================================
