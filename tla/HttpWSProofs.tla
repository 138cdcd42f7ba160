---------------------------- MODULE HttpWSProofs ----------------------------
(***************************************************************************)
(* Theorems about one WebSocket session of the HTTP proxy, for any         *)
(* payloads and number of messages: the session is cleaned up, and *)
(* each of its directions implements the abstract relay. They hold of the  *)
(* sessions that ServeHTTP starts, whose own promises for each request are *)
(* proved at the end.                                                      *)
(***************************************************************************)
EXTENDS HttpProxy, SequenceTheorems, TLAPS

(* Where a goroutine has a message in hand. *)
Holding == {"hook", "publish", "write"}
Setup == {"authConnect", "authSubscribe", "subscribe", "dial", "upgrade"}

TypeInv ==
  /\ TypeOK
  /\ \A d \in Direction : pc[d] \in Holding => msg[d] \in Message
  /\ pc["Down"] # "publish"

(* The goroutines run between the upgrade and Unsubscribe. *)
PhaseInv ==
  /\ main \in Setup => /\ unsubscribed = 0
                       /\ \A d \in Direction : pc[d] = "idle"
                       /\ main # "upgrade" => \A s \in Side : ~open[s]
                       /\ ~open["in"]
  /\ main = "wait" => unsubscribed = 0 /\ \A d \in Direction : pc[d] # "idle"
  /\ SessionCleanedUp

(* A goroutine that goes on has delivered all it has read, but for the     *)
(* message in its hand, which has the number it came with; on the way down *)
(* it is the message as it came.                                           *)
FlowInv ==
  \A d \in Direction :
     /\ nread[d] <= Len(sent[d])
     /\ pc[d] \in {"idle", "read"} => nread[d] = Len(delivered[d])
     /\ pc[d] \in Holding => nread[d] = Len(delivered[d]) + 1
     /\ pc[d] \in Holding => msg[d].no = sent[d][nread[d]].no
     /\ d = "Down" /\ pc[d] \in Holding => msg[d] = sent[d][nread[d]]

(* What the Publish hook has seen and what the server got.                 *)
OneAhead == \E m \in Message : published = Append(delivered["Up"], m)
PublishInv ==
  /\ pc["Up"] \in {"idle", "read", "hook", "publish"} => published = delivered["Up"]
  /\ pc["Up"] = "write" => published = Append(delivered["Up"], msg["Up"])
  /\ published = delivered["Up"] \/ OneAhead

WSInv == TypeInv /\ PhaseInv /\ FlowInv /\ PublishInv

LEMMA WSInit == Init => WSInv
<1> SUFFICES ASSUME Init PROVE WSInv
  OBVIOUS
<1> USE DEF Init, Direction, Side
<1>1. TypeOK
  <2>1. open \in [Side -> BOOLEAN] /\ hung \in [Side -> BOOLEAN]
        /\ stalled \in [Side -> BOOLEAN]
    OBVIOUS
  <2>2. /\ sent \in [Direction -> Seq(Message)] /\ nread \in [Direction -> Nat]
        /\ delivered \in [Direction -> Seq(Message)]
        /\ msg \in [Direction -> Message \cup {NoMessage}]
    OBVIOUS
  <2> QED BY <2>1, <2>2 DEF TypeOK, MainPc, StreamPc
<1>2. TypeInv
  BY <1>1 DEF TypeInv, Holding
<1>3. PhaseInv
  BY DEF PhaseInv, Setup, SessionCleanedUp
<1>4. FlowInv
  BY DEF FlowInv, Holding
<1>5. PublishInv
  BY DEF PublishInv
<1> QED BY <1>2, <1>3, <1>4, <1>5 DEF WSInv

-----------------------------------------------------------------------------
(* The invariant is inductive, part by part.                               *)

USE DEF MainGoto, Goto, Direction, Side

(* What a peer sends is the next message of its direction.                 *)
LEMMA NewMessage ==
  ASSUME TypeInv, NEW d \in Direction, Arrives(d)
  PROVE  \E m \in Message :
            m.no = Len(sent[d]) + 1 /\ sent' = [sent EXCEPT ![d] = Append(sent[d], m)]
<1>1. sent["Up"] \in Seq(Message) /\ sent["Down"] \in Seq(Message)
  BY DEF TypeInv, TypeOK
<1>2. Len(sent["Up"]) + Len(sent["Down"]) < MaxMessages
  BY DEF Arrives
<1>3. Len(sent[d]) + 1 \in 1..MaxMessages
  <2>1. Len(sent["Up"]) \in Nat /\ Len(sent["Down"]) \in Nat /\ MaxMessages \in Nat
    BY <1>1, HttpWSAssumption DEF HttpWSAssumption
  <2>2. \A a, b, n \in Nat : a + b < n => a + 1 \in 1..n /\ b + 1 \in 1..n
    OBVIOUS
  <2>3. Len(sent["Up"]) + 1 \in 1..MaxMessages /\ Len(sent["Down"]) + 1 \in 1..MaxMessages
    BY ONLY <1>2, <2>1, <2>2
  <2> QED BY <2>3
<1>4. PICK p \in Payload :
         sent' = [sent EXCEPT ![d] = Append(@, [no |-> Len(@) + 1, payload |-> p])]
  BY DEF Arrives
<1>5. [no |-> Len(sent[d]) + 1, payload |-> p] \in Message
  BY <1>3 DEF Message
<1> QED BY <1>4, <1>5

(* What a hook makes of a message keeps its number.                        *)
LEMMA RewrittenMessage ==
  \A m \in Message : Rewritten(m) \subseteq Message /\ \A q \in Rewritten(m) : q.no = m.no
BY DEF Rewritten, Message

LEMMA TypeStep == TypeInv /\ [Next]_vars => TypeInv'
<1> SUFFICES ASSUME TypeInv, [Next]_vars PROVE TypeInv'
  OBVIOUS
<1> USE DEF TypeInv, TypeOK, Holding, MainPc, StreamPc, goVars, peerVars, wireVars,
            hookVars
<1>1. CASE HandleStep
  <2>1. CASE AuthConnect \/ Rejected
    BY <2>1 DEF AuthConnect, Rejected
  <2>2. CASE AuthSubscribeSession \/ Subscribe
    BY <2>2 DEF AuthSubscribeSession, Subscribe
  <2>3. CASE Dial \/ UpgradeFails
    BY <2>3 DEF Dial, UpgradeFails
  <2>4. CASE Upgrade
    BY <2>4 DEF Upgrade
  <2>5. CASE WaitAndUnsubscribe
    BY <2>5 DEF WaitAndUnsubscribe
  <2> QED BY <1>1, <2>1, <2>2, <2>3, <2>4, <2>5 DEF HandleStep
<1>2. CASE PeerStep
  <2>1. ASSUME NEW d \in Direction, Arrives(d) PROVE TypeInv'
    <3>1. PICK m \in Message : sent' = [sent EXCEPT ![d] = Append(sent[d], m)]
      BY <2>1, NewMessage
    <3>2. sent' \in [Direction -> Seq(Message)]
      BY <3>1
    <3> QED BY <2>1, <3>2 DEF Arrives
  <2>2. ASSUME NEW s \in Side, HangUp(s) \/ Stall(s) PROVE TypeInv'
    BY <2>2 DEF HangUp, Stall
  <2> QED BY <1>2, <2>1, <2>2 DEF PeerStep
<1>3. ASSUME NEW d \in Direction, StreamStep(d)
      PROVE  TypeInv'
  <2>1. CASE ReadMessage(d)
    <3>1. sent[d][nread[d] + 1] \in Message
      BY <2>1 DEF ReadMessage
    <3> QED BY <2>1, <3>1 DEF ReadMessage
  <2>2. CASE ReadFails(d) \/ HookRefuses(d) \/ WriteFails(d) \/ WriteClose(d)
    BY <2>2 DEF ReadFails, HookRefuses, WriteFails, WriteClose
  <2>3. CASE WriteMessage(d)
    BY <2>3 DEF WriteMessage
  <2>4. CASE CloseDest(d)
    BY <2>4 DEF CloseDest, Dest
  <2>5. CASE d = "Up" /\ AuthPublish
    BY <2>5, RewrittenMessage DEF AuthPublish
  <2>6. CASE d = "Up" /\ Publish
    BY <2>6, RewrittenMessage DEF Publish
  <2>7. CASE d = "Down" /\ AuthSubscribe
    BY <2>7 DEF AuthSubscribe
  <2> QED BY <1>3, <2>1, <2>2, <2>3, <2>4, <2>5, <2>6, <2>7 DEF StreamStep
<1>4. CASE UNCHANGED vars
  BY <1>4 DEF vars
<1> QED BY <1>1, <1>2, <1>3, <1>4 DEF Next

LEMMA PhaseStep == TypeInv /\ PhaseInv /\ [Next]_vars => PhaseInv'
<1> SUFFICES ASSUME TypeInv, PhaseInv, [Next]_vars PROVE PhaseInv'
  OBVIOUS
<1> USE DEF TypeInv, TypeOK, PhaseInv, SessionCleanedUp, Setup, MainPc
<1>1. CASE HandleStep
  BY <1>1 DEF HandleStep, AuthConnect, AuthSubscribeSession, Subscribe, Rejected, Dial,
              UpgradeFails, Upgrade, WaitAndUnsubscribe, goVars, peerVars, wireVars, hookVars
<1>2. CASE PeerStep
  BY <1>2 DEF PeerStep, Arrives, HangUp, Stall, wireVars, hookVars
<1>3. ASSUME NEW d \in Direction, StreamStep(d)
      PROVE  PhaseInv'
  <2>1. /\ main' = main /\ unsubscribed' = unsubscribed
        /\ pc[d] \notin {"idle", "done"}
        /\ \E to \in StreamPc \ {"idle"} : pc' = [pc EXCEPT ![d] = to]
    BY <1>3 DEF StreamStep, ReadMessage, ReadFails, HookRefuses, WriteMessage,
                WriteFails, WriteClose, CloseDest, AuthPublish, Publish, AuthSubscribe,
                StreamPc, hookVars
  <2> QED BY <2>1
<1>4. CASE UNCHANGED vars
  BY <1>4 DEF vars, wireVars, hookVars
<1> QED BY <1>1, <1>2, <1>3, <1>4 DEF Next

LEMMA FlowStep == TypeInv /\ PhaseInv /\ FlowInv /\ [Next]_vars => FlowInv'
<1> SUFFICES ASSUME TypeInv, PhaseInv, FlowInv, [Next]_vars PROVE FlowInv'
  OBVIOUS
<1> USE DEF TypeInv, TypeOK, FlowInv, Holding, goVars, peerVars, wireVars, hookVars
<1>1. CASE UNCHANGED <<pc, msg, nread, sent, delivered>>
  BY <1>1
<1>2. CASE Upgrade
  BY <1>2 DEF Upgrade, PhaseInv, Setup
<1>3. ASSUME NEW d \in Direction, Arrives(d)
      PROVE  FlowInv'
  <2>1. PICK m \in Message : sent' = [sent EXCEPT ![d] = Append(sent[d], m)]
    BY <1>3, NewMessage
  <2>2. /\ UNCHANGED <<pc, msg, nread, delivered>>
        /\ \A e \in Direction : /\ Len(sent[e]) <= Len(sent'[e])
                               /\ \A i \in 1..Len(sent[e]) : sent'[e][i] = sent[e][i]
    BY <1>3, <2>1 DEF Arrives
  <2>3. \A e \in Direction : pc[e] \in Holding => nread[e] \in 1..Len(sent[e])
    OBVIOUS
  <2> QED BY <2>2, <2>3
<1>4. ASSUME NEW d \in Direction, StreamStep(d)
      PROVE  FlowInv'
  <2>1. CASE ReadMessage(d)
    BY <2>1 DEF ReadMessage
  <2>2. CASE ReadFails(d) \/ HookRefuses(d) \/ WriteFails(d) \/ WriteClose(d)
             \/ CloseDest(d)
    <3>1. /\ UNCHANGED <<msg, nread, sent, delivered>>
          /\ \E from \in StreamPc, to \in {"bye", "close", "done"} : Goto(d, from, to)
      BY <2>2 DEF ReadFails, HookRefuses, WriteFails, WriteClose, CloseDest, StreamPc
    <3> QED BY <3>1 DEF Goto
  <2>3. CASE WriteMessage(d)
    BY <2>3 DEF WriteMessage
  <2>4. CASE d = "Up" /\ (AuthPublish \/ Publish)
    BY <2>4, RewrittenMessage DEF AuthPublish, Publish
  <2>5. CASE d = "Down" /\ AuthSubscribe
    BY <2>5 DEF AuthSubscribe
  <2> QED BY <1>4, <2>1, <2>2, <2>3, <2>4, <2>5 DEF StreamStep
<1> QED
  BY <1>1, <1>2, <1>3, <1>4
     DEF Next, HandleStep, AuthConnect, AuthSubscribeSession, Subscribe, Rejected, Dial,
         UpgradeFails, WaitAndUnsubscribe, PeerStep, HangUp, Stall, vars

LEMMA PublishStep == TypeInv /\ PhaseInv /\ PublishInv /\ [Next]_vars => PublishInv'
<1> SUFFICES ASSUME TypeInv, PhaseInv, PublishInv, [Next]_vars PROVE PublishInv'
  OBVIOUS
<1> USE DEF TypeInv, TypeOK, PublishInv, OneAhead, Holding, goVars, peerVars, wireVars,
            hookVars
<1>1. CASE UNCHANGED <<pc, msg, published, delivered>>
  BY <1>1
<1>2. CASE Upgrade
  BY <1>2 DEF Upgrade, PhaseInv, Setup
<1>3. ASSUME NEW d \in Direction, StreamStep(d)
      PROVE  PublishInv'
  <2>1. CASE d = "Down"
    <3>1. /\ published' = published /\ delivered'["Up"] = delivered["Up"]
          /\ pc'["Up"] = pc["Up"] /\ msg'["Up"] = msg["Up"]
      BY <1>3, <2>1 DEF StreamStep, ReadMessage, ReadFails, HookRefuses, WriteMessage,
                        WriteFails, WriteClose, CloseDest, AuthSubscribe
    <3> QED BY <3>1
  <2>2. CASE d = "Up"
    <3>1. CASE Publish
      BY <3>1, RewrittenMessage DEF Publish
    <3>2. CASE WriteMessage("Up")
      BY <3>2 DEF WriteMessage
    <3>3. CASE ReadMessage("Up") \/ AuthPublish
      BY <3>3 DEF ReadMessage, AuthPublish
    <3>4. CASE \/ ReadFails("Up") \/ HookRefuses("Up") \/ WriteFails("Up")
               \/ WriteClose("Up") \/ CloseDest("Up")
      BY <3>4 DEF ReadFails, HookRefuses, WriteFails, WriteClose, CloseDest
    <3> QED BY <1>3, <2>2, <3>1, <3>2, <3>3, <3>4 DEF StreamStep
  <2> QED BY <2>1, <2>2
<1> QED
  BY <1>1, <1>2, <1>3
     DEF Next, HandleStep, AuthConnect, AuthSubscribeSession, Subscribe, Rejected, Dial,
         UpgradeFails, WaitAndUnsubscribe, PeerStep, Arrives, HangUp, Stall, vars

LEMMA WSAlways == Spec => []WSInv
<1>1. WSInv /\ [Next]_vars => WSInv'
  BY TypeStep, PhaseStep, FlowStep, PublishStep DEF WSInv
<1> QED BY <1>1, WSInit, PTL DEF Spec

-----------------------------------------------------------------------------
(* Every variable of a session keeps its type. *)
THEOREM TypeCorrect == Spec => []TypeOK
BY WSAlways, PTL DEF WSInv, TypeInv

(* Once handleWebSocket returned, nothing of the session runs or is open,  *)
(* and it was unsubscribed exactly once if it was upgraded.                *)
THEOREM CleanUp == Spec => []SessionCleanedUp
BY WSAlways, PTL DEF WSInv, PhaseInv

(* The server gets the payloads that Publish was told of, in that order,   *)
(* all but possibly the last.                                              *)
THEOREM Publication == Spec => []PublishedIsDelivered
<1>1. ASSUME NEW s \in Seq(Message), NEW m \in Message
      PROVE  SubSeq(Append(s, m), 1, Len(s)) = s /\ SubSeq(s, 1, Len(s)) = s
  BY <1>1
<1>2. WSInv => PublishedIsDelivered
  <2> SUFFICES ASSUME WSInv PROVE PublishedIsDelivered
    OBVIOUS
  <2>1. delivered["Up"] \in Seq(Message)
    BY DEF WSInv, TypeInv, TypeOK
  <2>2. CASE published = delivered["Up"]
    BY <1>1, <2>1, <2>2 DEF PublishedIsDelivered
  <2>3. CASE OneAhead
    BY <1>1, <2>1, <2>3 DEF OneAhead, PublishedIsDelivered
  <2> QED BY <2>2, <2>3 DEF WSInv, PublishInv
<1> QED BY <1>2, WSAlways, PTL

-----------------------------------------------------------------------------
(* Refinement of the abstract relay.                                       *)

LEMMA RelayStep ==
  ASSUME WSInv, [Next]_vars, NEW d \in Direction
  PROVE  \/ sent'[d] = sent[d] /\ delivered'[d] = delivered[d]
         \/ /\ \E m \in Message : sent'[d] = Append(sent[d], m)
            /\ delivered'[d] = delivered[d]
         \/ /\ sent'[d] = sent[d]
            /\ Len(delivered[d]) < Len(sent[d])
            /\ \E q \in Rewritten(sent[d][Len(delivered[d]) + 1]) :
                  /\ delivered'[d] = Append(delivered[d], q)
                  /\ d = "Down" => q = sent[d][Len(delivered[d]) + 1]
<1> USE DEF WSInv, TypeInv, TypeOK, FlowInv, Holding, peerVars, wireVars
<1>1. CASE UNCHANGED <<sent, delivered>>
  BY <1>1
<1>2. ASSUME NEW e \in Direction, Arrives(e)
      PROVE  /\ delivered' = delivered
             /\ \/ sent'[d] = sent[d]
                \/ \E m \in Message : sent'[d] = Append(sent[d], m)
  <2>1. PICK m \in Message : sent' = [sent EXCEPT ![e] = Append(sent[e], m)]
    BY <1>2, NewMessage
  <2>2. sent'[d] = IF d = e THEN Append(sent[d], m) ELSE sent[d]
    BY <2>1
  <2> QED BY <1>2, <2>2 DEF Arrives
<1>3. ASSUME NEW e \in Direction, WriteMessage(e)
      PROVE  /\ sent' = sent
             /\ e # d => delivered'[d] = delivered[d]
             /\ e = d => /\ Len(delivered[d]) < Len(sent[d])
                         /\ delivered'[d] = Append(delivered[d], msg[d])
                         /\ msg[d] \in Rewritten(sent[d][Len(delivered[d]) + 1])
                         /\ d = "Down" => msg[d] = sent[d][Len(delivered[d]) + 1]
  <2>1. CASE e = d
    <3>1. /\ sent' = sent /\ delivered'[d] = Append(delivered[d], msg[d])
          /\ pc[d] = "write"
      BY <1>3, <2>1 DEF WriteMessage
    <3>2. /\ nread[d] = Len(delivered[d]) + 1 /\ nread[d] <= Len(sent[d])
          /\ msg[d] \in Message /\ msg[d].no = sent[d][nread[d]].no
          /\ d = "Down" => msg[d] = sent[d][nread[d]]
      BY <3>1
    <3>3. msg[d] \in Rewritten(sent[d][nread[d]])
      BY <3>2 DEF Rewritten, Message
    <3> QED BY <2>1, <3>1, <3>2, <3>3
  <2>2. CASE e # d
    BY <1>3, <2>2 DEF WriteMessage
  <2> QED BY <2>1, <2>2
<1> QED
  BY <1>1, <1>2, <1>3
     DEF Next, HandleStep, AuthConnect, AuthSubscribeSession, Subscribe, Rejected, Dial,
         UpgradeFails, Upgrade, WaitAndUnsubscribe, PeerStep, HangUp, Stall,
         StreamStep, ReadMessage, ReadFails, HookRefuses, WriteFails, WriteClose, CloseDest, AuthPublish,
         Publish, AuthSubscribe, vars

(* The direction towards the server implements the relay: in order and     *)
(* without a gap, whatever the hooks make of each payload.                 *)
THEOREM UpRefines == Spec => UpIsRelay
<1>1. Init => UpRelay!Init
  BY DEF Init, UpRelay!Init
<1>2. WSInv /\ [Next]_vars => [UpRelay!Next]_(UpRelay!relayVars)
  <2> SUFFICES ASSUME WSInv, [Next]_vars
               PROVE  [UpRelay!Next]_(UpRelay!relayVars)
    OBVIOUS
  <2>1. sent["Up"] \in Seq(Message)
    BY DEF WSInv, TypeInv, TypeOK
  <2>2. Len(delivered["Up"]) < Len(sent["Up"])
          => sent["Up"][Len(delivered["Up"]) + 1] \in Message
    BY <2>1 DEF WSInv, TypeInv, TypeOK
  <2>3. \A m \in Message : AnyPayload[m] = Rewritten(m)
    BY DEF AnyPayload
  <2> QED
    BY <2>1, <2>2, <2>3, RelayStep
       DEF UpRelay!Next, UpRelay!relayVars, UpRelay!Submit, UpRelay!Forward
<1> QED BY <1>1, <1>2, WSAlways, PTL DEF Spec, UpIsRelay, UpRelay!Spec

(* The direction towards the client implements the relay that changes      *)
(* nothing.                                                                *)
THEOREM DownRefines == Spec => DownIsRelay
<1>1. Init => DownRelay!Init
  BY DEF Init, DownRelay!Init
<1>2. WSInv /\ [Next]_vars => [DownRelay!Next]_(DownRelay!relayVars)
  <2> SUFFICES ASSUME WSInv, [Next]_vars
               PROVE  [DownRelay!Next]_(DownRelay!relayVars)
    OBVIOUS
  <2>1. sent["Down"] \in Seq(Message)
    BY DEF WSInv, TypeInv, TypeOK
  <2>2. Len(delivered["Down"]) < Len(sent["Down"])
          => sent["Down"][Len(delivered["Down"]) + 1] \in Message
    BY <2>1 DEF WSInv, TypeInv, TypeOK
  <2>3. \A m \in Message : SameMessage[m] = {m}
    BY DEF SameMessage
  <2> QED
    BY <2>1, <2>2, <2>3, RelayStep
       DEF DownRelay!Next, DownRelay!relayVars, DownRelay!Submit, DownRelay!Forward
<1> QED BY <1>1, <1>2, WSAlways, PTL DEF Spec, DownIsRelay, DownRelay!Spec

-----------------------------------------------------------------------------
(* How the end of one goroutine becomes the end of the other.              *)

(* A goroutine that is done has closed the socket the other reads from.    *)
ClosedBehind == \A d \in Direction : pc[d] = "done" => ~open[Dest(d)]

LEMMA ClosedStep == WSInv /\ ClosedBehind /\ [Next]_vars => ClosedBehind'
<1> SUFFICES ASSUME WSInv, ClosedBehind, [Next]_vars PROVE ClosedBehind'
  OBVIOUS
<1>0. /\ pc \in [Direction -> StreamPc] /\ open \in [Side -> BOOLEAN]
      /\ main \in Setup => \A d \in Direction : pc[d] = "idle"
  BY DEF WSInv, TypeInv, TypeOK, PhaseInv
<1>1. CASE UNCHANGED <<pc, open>>
  BY <1>1 DEF ClosedBehind, Dest
<1>2. CASE Dial \/ UpgradeFails \/ Upgrade \/ WaitAndUnsubscribe
  BY <1>0, <1>2 DEF Dial, UpgradeFails, Upgrade, WaitAndUnsubscribe, MainGoto, Setup,
                    ClosedBehind, Dest, Direction, Side
<1>3. ASSUME NEW d \in Direction, StreamStep(d)
      PROVE  ClosedBehind'
  <2>1. CASE CloseDest(d)
    BY <1>0, <1>3, <2>1 DEF CloseDest, Goto, ClosedBehind, Dest, Side, Direction
  <2>2. CASE ~CloseDest(d)
    <3>1. open' = open /\ \E from, to \in StreamPc : to # "done" /\ Goto(d, from, to)
      BY <1>3, <2>2 DEF StreamStep, ReadMessage, ReadFails, HookRefuses, WriteMessage,
                        WriteFails, WriteClose, AuthPublish, Publish, AuthSubscribe,
                        wireVars, StreamPc
    <3> QED BY <1>0, <3>1 DEF Goto, ClosedBehind, Dest
  <2> QED BY <2>1, <2>2
<1> QED
  BY <1>1, <1>2, <1>3
     DEF Next, HandleStep, AuthConnect, AuthSubscribeSession, Subscribe, Rejected, PeerStep,
         Arrives, HangUp, Stall, vars, wireVars

Other(d) == IF d = "Up" THEN "Down" ELSE "Up"

(* How many steps a goroutine is from its end at most, once its source is  *)
(* closed.                                                                 *)
Distance(d) ==
  LET at == pc[d]
  IN  CASE at = "hook" -> 6
        [] at = "publish" -> 5
        [] at = "write" -> 4
        [] at = "read" -> 3
        [] at = "bye" -> 2
        [] at = "close" -> 1
        [] at \in {"idle", "done"} -> 0

(* Once one goroutine of a session is done, every step of the other brings *)
(* it nearer to its end: it finishes the message in hand and reads no more.*)
WindsDown ==
  [][\A d \in Direction :
        pc[Other(d)] = "done" /\ StreamStep(d) => Distance(d)' < Distance(d)]_vars

LEMMA Nearer ==
  ASSUME WSInv, ClosedBehind, NEW d \in Direction, pc[Other(d)] = "done", StreamStep(d)
  PROVE  Distance(d)' < Distance(d)
<1>0. pc \in [Direction -> StreamPc] /\ ~open[Source(d)]
  BY DEF WSInv, TypeInv, TypeOK, ClosedBehind, Other, Source, Dest, Direction
<1>1. ReadFails(d) \/ HookRefuses(d) => Distance(d)' < Distance(d)
  BY <1>0 DEF ReadFails, HookRefuses, Goto, Distance
<1>2. WriteMessage(d) \/ WriteFails(d) \/ WriteClose(d) \/ CloseDest(d)
        => Distance(d)' < Distance(d)
  BY <1>0 DEF WriteMessage, WriteFails, WriteClose, CloseDest, Goto, Distance
<1>3. CASE d = "Up" /\ (AuthPublish \/ Publish)
  BY <1>0, <1>3 DEF AuthPublish, Publish, Goto, Distance
<1>4. CASE d = "Down" /\ AuthSubscribe
  BY <1>0, <1>4 DEF AuthSubscribe, Goto, Distance
<1>5. ~ReadMessage(d)
  BY <1>0 DEF ReadMessage
<1> QED BY <1>1, <1>2, <1>3, <1>4, <1>5, Zenon DEF StreamStep

(* The safety half of OneEndEndsAll, for any peers and hooks: the second   *)
(* goroutine ends after at most six steps, if no write of it blocks.       *)
THEOREM WindingDown == Spec => WindsDown
<1>1. Init => ClosedBehind
  BY DEF Init, ClosedBehind
<1>2. WSInv /\ ClosedBehind /\ [Next]_vars
        => [\A d \in Direction :
              pc[Other(d)] = "done" /\ StreamStep(d) => Distance(d)' < Distance(d)]_vars
  BY Nearer
<1> QED BY <1>1, <1>2, ClosedStep, WSAlways, PTL DEF Spec, WindsDown

-----------------------------------------------------------------------------
(* ServeHTTP.                                                              *)

USE DEF ServeGoto, Answer, historyVars

Hooks == {"AuthConnect", "AuthPublish", "Publish"}

(* What the history of the hooks becomes. *)
LEMMA AppendSecond ==
  ASSUME NEW S, NEW s \in Seq(S), NEW a \in S, NEW b \in S, s = <<a>>
  PROVE  Append(s, b) = <<a, b>>
<1> DEFINE t == Append(s, b)  u == <<a, b>>
<1>1. Len(s) = 1 /\ s[1] = a
  OBVIOUS
<1>2. t \in Seq(S) /\ Len(t) = Len(s) + 1
  BY AppendProperties
<1>3. t[1] = s[1] /\ t[Len(s) + 1] = b
  BY <1>1, AppendProperties
<1>4. u \in Seq(S) /\ Len(u) = 2 /\ u[1] = a /\ u[2] = b
  OBVIOUS
<1> HIDE DEF t, u
<1>5. t = u
  BY <1>1, <1>2, <1>3, <1>4, SeqEqual
<1> QED BY <1>5 DEF t, u

LEMMA AppendThird ==
  ASSUME NEW S, NEW s \in Seq(S), NEW a \in S, NEW b \in S, NEW c \in S, s = <<a, b>>
  PROVE  Append(s, c) = <<a, b, c>>
<1> DEFINE t == Append(s, c)  u == <<a, b, c>>
<1>1. Len(s) = 2 /\ s[1] = a /\ s[2] = b
  OBVIOUS
<1>2. t \in Seq(S) /\ Len(t) = Len(s) + 1
  BY AppendProperties
<1>3. t[1] = s[1] /\ t[2] = s[2] /\ t[Len(s) + 1] = c
  BY <1>1, AppendProperties
<1>4. u \in Seq(S) /\ Len(u) = 3 /\ u[1] = a /\ u[2] = b /\ u[3] = c
  OBVIOUS
<1> HIDE DEF t, u
<1>5. t = u
  BY <1>1, <1>2, <1>3, <1>4, SeqEqual
<1> QED BY <1>5 DEF t, u

LEMMA HooksInOrder ==
  /\ approved = <<"AuthConnect">> =>
        Append(approved, "AuthPublish") = <<"AuthConnect", "AuthPublish">>
  /\ approved = <<"AuthConnect", "AuthPublish">> =>
        Append(approved, "Publish") = <<"AuthConnect", "AuthPublish", "Publish">>
<1>1. ASSUME approved = <<"AuthConnect">>
      PROVE  Append(approved, "AuthPublish") = <<"AuthConnect", "AuthPublish">>
  <2>1. approved \in Seq(Hooks) /\ "AuthConnect" \in Hooks /\ "AuthPublish" \in Hooks
    BY <1>1 DEF Hooks
  <2> QED BY <1>1, <2>1, AppendSecond
<1>2. ASSUME approved = <<"AuthConnect", "AuthPublish">>
      PROVE  Append(approved, "Publish") = <<"AuthConnect", "AuthPublish", "Publish">>
  <2>1. /\ approved \in Seq(Hooks)
        /\ "AuthConnect" \in Hooks /\ "AuthPublish" \in Hooks /\ "Publish" \in Hooks
    BY <1>2 DEF Hooks
  <2> QED BY <1>2, <2>1, AppendThird
<1> QED BY <1>1, <1>2

(* Sequences of one answer are answers. *)
LEMMA OneAnswer ==
  /\ << >> \in Seq({"error", "badGateway", "response", "upgraded"})
  /\ \A a \in {"error", "badGateway", "response", "upgraded"} :
        <<a>> \in Seq({"error", "badGateway", "response", "upgraded"})
OBVIOUS

(* The hooks asked and agreed by where ServeHTTP is.                       *)
Agreed ==
  /\ serve = "AuthPublish" => approved = <<"AuthConnect">>
  /\ serve = "Publish" => approved = <<"AuthConnect", "AuthPublish">>
  /\ serve = "forward" /\ ~request.bypassed =>
        approved = <<"AuthConnect", "AuthPublish", "Publish">>
  /\ serve \notin {"AuthPublish", "Publish"} /\ (serve = "forward" => request.bypassed) =>
        approved = << >>

(* Before it is done, ServeHTTP has forwarded nothing and answered nothing *)
(* but an upgrade, and only serve = "ws" has a session.                    *)
BusyInv ==
  serve # "done" =>
     /\ forwarded = << >> /\ Agreed
     /\ answers = IF main = "wait" THEN <<"upgraded">> ELSE << >>
     /\ main # "done"
     /\ serve # "ws" => main = "authConnect"
     /\ serve # "route" => request.prefixed
     /\ serve \notin {"route", "forward"} => ~request.bypassed
     /\ serve \notin {"route", "forward", "ws"} => ~request.websocket
     /\ serve = "forward" /\ ~request.bypassed => ~request.websocket

(* Once the hooks are asked there is a body to forward.                    *)
BodyInv ==
  /\ serve \notin {"close", "done"} => body \in Payload

DoneInv == serve = "done" => main \in {"authConnect", "done"}

ServeInv ==
  /\ WSInv /\ ServeTypeOK /\ BusyInv /\ BodyInv /\ DoneInv
  /\ AnsweredOnce /\ ForwardedIfApproved

(* Steps of ServeHTTP are no steps of a session, or are those of HandleStep. *)
LEMMA ServeStutters == [ServeNext]_<<vars, serveVars>> => [Next]_vars
BY DEF ServeNext, ServeWebSocket, Next

LEMMA ServeStart == ServeInit => ServeInv
<1> SUFFICES ASSUME ServeInit PROVE ServeInv
  OBVIOUS
<1>1. WSInv /\ main = "authConnect" /\ pc["Up"] = "idle"
  BY WSInit DEF ServeInit, Init
<1>2. request.body \in Payload
  BY DEF ServeInit, Request
<1>3. ServeTypeOK
  <2>1. approved \in Seq(Hooks) /\ forwarded \in Seq(Payload \cup {NoBody})
        /\ answers \in Seq({"error", "badGateway", "response", "upgraded"})
    BY DEF ServeInit
  <2>2. TypeOK /\ request \in Request
    BY <1>1 DEF ServeInit, WSInv, TypeInv
  <2> QED BY <1>2, <2>1, <2>2 DEF ServeInit, ServeTypeOK, ServePc, Hooks
<1> QED
  BY <1>1, <1>2, <1>3
     DEF ServeInit, ServeInv, BusyInv, BodyInv, DoneInv, Agreed, Hooks, AnsweredOnce,
         ForwardedIfApproved, Forwarded

LEMMA RouteStep ==
  ASSUME ServeInv, WSInv', UNCHANGED vars,
         NotFound \/ Bypass \/ RouteWebSocket \/ RouteRequest \/ ReadBody \/ BodyFails
         \/ CloseBody
  PROVE  ServeInv'
<1> USE DEF ServeInv, ServeTypeOK, ServePc
<1>1. UNCHANGED <<main, pc>> /\ TypeOK'
  BY DEF vars, WSInv, TypeInv
<1>2. main = "authConnect" /\ pc["Up"] = "idle"
  <2>1. main = "authConnect"
    BY DEF BusyInv, NotFound, Bypass, RouteWebSocket, RouteRequest, ReadBody, BodyFails,
           CloseBody
  <2> QED BY <2>1 DEF WSInv, PhaseInv, Setup
<1>3. forwarded = << >> /\ approved = << >> /\ answers = << >>
  BY <1>2 DEF BusyInv, Agreed, NotFound, Bypass, RouteWebSocket, RouteRequest, ReadBody,
              BodyFails, CloseBody
<1> USE DEF BusyInv, BodyInv, DoneInv, Agreed, Hooks, AnsweredOnce, ForwardedIfApproved,
            Forwarded
<1>4. CASE NotFound \/ BodyFails
  <2>1. /\ answers' = <<"error">> /\ serve' = "done"
        /\ UNCHANGED <<request, body, approved, forwarded>>
    BY <1>3, <1>4 DEF NotFound, BodyFails
  <2>2. ServeTypeOK'
    BY <1>1, <2>1
  <2> QED BY <1>1, <1>2, <1>3, <2>1, <2>2
<1>5. CASE Bypass \/ RouteWebSocket \/ RouteRequest
  BY <1>1, <1>2, <1>3, <1>5 DEF Bypass, RouteWebSocket, RouteRequest
<1>6. CASE ReadBody \/ CloseBody
  <2>1. request.body \in Payload
    BY DEF Request
  <2> QED BY <1>1, <1>2, <1>3, <1>6, <2>1 DEF ReadBody, CloseBody
<1> QED BY <1>4, <1>5, <1>6

LEMMA HookStep ==
  ASSUME ServeInv, WSInv', UNCHANGED vars,
         AuthConnectRequest \/ AuthPublishRequest \/ PublishRequest \/ HookFails
         \/ Forward
  PROVE  ServeInv'
<1> USE DEF ServeInv, ServeTypeOK, ServePc
<1>1. UNCHANGED <<main, pc>> /\ TypeOK'
  BY DEF vars, WSInv, TypeInv
<1>2. main = "authConnect" /\ pc["Up"] = "idle"
  <2>1. main = "authConnect"
    BY DEF BusyInv, AuthConnectRequest, AuthPublishRequest, PublishRequest, HookFails,
           Forward
  <2> QED BY <2>1 DEF WSInv, PhaseInv, Setup
<1>3. forwarded = << >> /\ answers = << >> /\ request.prefixed
  BY <1>2 DEF BusyInv, AuthConnectRequest, AuthPublishRequest, PublishRequest, HookFails,
              Forward
<1> USE DEF BusyInv, BodyInv, DoneInv, Agreed, Hooks, AnsweredOnce, ForwardedIfApproved, Forwarded
<1>4. CASE AuthConnectRequest
  BY <1>1, <1>2, <1>3, <1>4 DEF AuthConnectRequest
<1>10. /\ <<"AuthConnect", "AuthPublish">> \in Seq({"AuthConnect", "AuthPublish", "Publish"})
       /\ <<"AuthConnect", "AuthPublish", "Publish">>
             \in Seq({"AuthConnect", "AuthPublish", "Publish"})
  OBVIOUS
<1>5. CASE AuthPublishRequest
  <2>1. body' \in Payload
    BY <1>5 DEF AuthPublishRequest, HookEdits
  <2>2. /\ approved' = Append(approved, "AuthPublish") /\ approved = <<"AuthConnect">>
        /\ serve = "AuthPublish" /\ serve' = "Publish"
        /\ UNCHANGED <<request, forwarded, answers>>
    BY <1>3, <1>5 DEF AuthPublishRequest
  <2>3. approved' = <<"AuthConnect", "AuthPublish">>
    BY ONLY <2>2, HooksInOrder
  <2>4. ServeTypeOK'
    BY <1>1, <1>10, <2>1, <2>2, <2>3
  <2> QED BY <1>1, <1>2, <1>3, <2>1, <2>2, <2>3, <2>4
<1>6. CASE PublishRequest
  <2>1. body' \in Payload
    BY <1>6 DEF PublishRequest, HookEdits
  <2>2. /\ approved' = Append(approved, "Publish")
        /\ approved = <<"AuthConnect", "AuthPublish">>
        /\ serve = "Publish" /\ serve' = "forward"
        /\ UNCHANGED <<request, forwarded, answers>>
    BY <1>3, <1>6 DEF PublishRequest
  <2>3. approved' = <<"AuthConnect", "AuthPublish", "Publish">>
    BY ONLY <2>2, HooksInOrder
  <2>4. ServeTypeOK'
    BY <1>1, <1>10, <2>1, <2>2, <2>3
  <2> QED BY <1>1, <1>2, <1>3, <2>1, <2>2, <2>3, <2>4
<1>7. CASE HookFails
  BY <1>1, <1>2, <1>3, <1>7 DEF HookFails
<1>8. CASE Forward
  <2>1. /\ serve = "forward" /\ serve' = "done" /\ forwarded' = <<body>>
        /\ answers' \in {<<"response">>, <<"badGateway">>}
        /\ UNCHANGED <<request, body, approved>>
    BY <1>3, <1>8 DEF Forward
  <2>2. /\ forwarded' \in Seq(Payload \cup {NoBody})
        /\ answers' \in Seq({"error", "badGateway", "response", "upgraded"})
    <3>1. body \in Payload \cup {NoBody}
      OBVIOUS
    <3>2. <<body>> \in Seq(Payload \cup {NoBody})
      BY ONLY <3>1
    <3> QED BY ONLY <2>1, <3>2, OneAnswer
  <2>3. ServeTypeOK'
    BY <1>1, <2>1, <2>2
  <2>4. /\ Len(forwarded') = 1 /\ forwarded' # << >> /\ Len(answers') = 1
        /\ answers'[1] \in {"response", "badGateway"}
    BY ONLY <2>1
  <2>5. AnsweredOnce'
    BY <1>1, <1>2, <2>1, <2>4
  <2>6. ForwardedIfApproved'
    <3>1. body \in Payload /\ forwarded'[1] # NoBody
      BY <1>8, <2>1, HttpProxyAssumption DEF HttpProxyAssumption
    <3> QED BY <1>1, <1>2, <2>1, <2>4, <3>1
  <2> QED BY <1>1, <1>2, <2>1, <2>3, <2>5, <2>6
<1> QED BY <1>4, <1>5, <1>6, <1>7, <1>8

LEMMA SessionStep ==
  ASSUME ServeInv, WSInv',
         ServeWebSocket \/ (PeerStep /\ UNCHANGED serveVars)
         \/ \E d \in Direction : StreamStep(d) /\ UNCHANGED serveVars
  PROVE  ServeInv'
<1> USE DEF ServeInv, ServeTypeOK, ServePc
<1>1. TypeOK'
  BY DEF WSInv, TypeInv
<1>2. CASE ServeWebSocket
  <2>1. /\ serve = "ws" /\ main \in Setup \cup {"wait"}
        /\ forwarded = << >> /\ approved = << >>
        /\ request.prefixed /\ ~request.bypassed
        /\ answers = IF main = "wait" THEN <<"upgraded">> ELSE << >>
    BY <1>2 DEF ServeWebSocket, BusyInv, Agreed, WSInv, TypeInv, TypeOK, MainPc, Setup
  <2>2. /\ main # "wait" => main' # "wait" \/ pc'["Up"] = "read"
        /\ main # "wait" /\ main' # "wait" => pc' = pc
        /\ main = "wait" => main' = "done" /\ pc' = pc
        /\ main' # "authConnect"
    BY <1>2, <2>1 DEF ServeWebSocket, HandleStep, AuthConnect, AuthSubscribeSession,
                      Subscribe, Rejected, Dial, UpgradeFails, Upgrade, WaitAndUnsubscribe, Setup
  <2>3. main \in Setup <=> pc["Up"] = "idle"
    BY <2>1 DEF WSInv, PhaseInv, Setup
  <2>4. UNCHANGED <<request, body, approved, forwarded>>
    BY <1>2 DEF ServeWebSocket
  <2>5. /\ serve' = IF main' = "done" THEN "done" ELSE "ws"
        /\ answers' = IF main = "wait" THEN <<"upgraded">>
                      ELSE IF main' = "done" THEN
                             IF main = "dial" THEN <<"badGateway">> ELSE <<"error">>
                      ELSE IF main' = "wait" THEN <<"upgraded">> ELSE << >>
    BY <1>2, <2>1, <2>2 DEF ServeWebSocket, SessionAnswer, Setup
  <2> USE DEF BusyInv, BodyInv, DoneInv, Agreed, Hooks, AnsweredOnce, ForwardedIfApproved, Forwarded
  <2>6. serve' \in {"ws", "done"} /\ (serve' = "done" <=> main' = "done")
    BY <2>5
  <2>10. answers' \in {<< >>, <<"upgraded">>, <<"error">>, <<"badGateway">>}
    BY ONLY <2>5
  <2>11. answers' \in Seq({"error", "badGateway", "response", "upgraded"})
    BY ONLY <2>10, OneAnswer
  <2>7. ServeTypeOK'
    BY <1>1, <2>4, <2>6, <2>11
  <2>8. CASE main' = "done"
    <3>1. answers' = IF main = "wait" THEN <<"upgraded">>
                     ELSE IF main = "dial" THEN <<"badGateway">> ELSE <<"error">>
      BY <2>5, <2>8
    <3>2. /\ Len(answers') = 1
          /\ answers'[1] = IF main = "wait" THEN "upgraded"
                           ELSE IF main = "dial" THEN "badGateway" ELSE "error"
      BY ONLY <3>1
    <3>3. pc'["Up"] # "idle" <=> main = "wait"
      BY <2>1, <2>2, <2>3, <2>8, main # "wait" => main \in Setup DEF Setup
    <3>4. AnsweredOnce'
      BY <2>1, <2>4, <2>8, <3>2, <3>3
    <3> QED BY <2>1, <2>2, <2>4, <2>6, <2>7, <2>8, <3>4
  <2>9. CASE main' # "done"
    BY <2>1, <2>2, <2>3, <2>4, <2>5, <2>6, <2>7, <2>9
  <2> QED BY <2>8, <2>9
<1>3. CASE PeerStep /\ UNCHANGED serveVars
  <2>1. UNCHANGED <<main, pc>>
    BY <1>3 DEF PeerStep, Arrives, HangUp, Stall
  <2> QED
    BY <1>1, <1>3, <2>1
       DEF serveVars, BusyInv, BodyInv, DoneInv, Agreed, Hooks, AnsweredOnce,
           ForwardedIfApproved, Forwarded
<1>4. ASSUME NEW d \in Direction, StreamStep(d), UNCHANGED serveVars
      PROVE  ServeInv'
  <2>1. /\ main' = main /\ pc[d] \notin {"idle", "done"}
        /\ \E to \in StreamPc \ {"idle"} : pc' = [pc EXCEPT ![d] = to]
    BY <1>4 DEF StreamStep, ReadMessage, ReadFails, HookRefuses, WriteMessage,
                WriteFails, WriteClose, CloseDest, AuthPublish, Publish, AuthSubscribe,
                StreamPc
  <2>2. main = "wait"
    BY <2>1 DEF WSInv, TypeInv, TypeOK, PhaseInv, SessionCleanedUp, Setup, MainPc
  <2>3. serve # "done"
    BY <2>2 DEF DoneInv
  <2> QED
    BY <1>1, <1>4, <2>1, <2>3
       DEF serveVars, BusyInv, BodyInv, DoneInv, Agreed, Hooks, AnsweredOnce,
           ForwardedIfApproved, Forwarded
<1> QED BY <1>2, <1>3, <1>4

LEMMA ServeAlways == ServeSpec => []ServeInv
<1>1. ServeInv /\ [ServeNext]_<<vars, serveVars>> => ServeInv'
  <2> SUFFICES ASSUME ServeInv, [ServeNext]_<<vars, serveVars>> PROVE ServeInv'
    OBVIOUS
  <2>1. WSInv /\ [Next]_vars
    BY ServeStutters DEF ServeInv
  <2>2. WSInv'
    BY <2>1, TypeStep, PhaseStep, FlowStep, PublishStep DEF WSInv
  <2>3. CASE UNCHANGED <<vars, serveVars>>
    BY <2>2, <2>3
       DEF vars, serveVars, ServeInv, ServeTypeOK, BusyInv, BodyInv, DoneInv, Agreed,
           AnsweredOnce, ForwardedIfApproved, Forwarded, WSInv,
           TypeInv
  <2> QED BY <2>2, <2>3, RouteStep, HookStep, SessionStep DEF ServeNext, ServeStep
<1> QED BY <1>1, ServeStart, PTL DEF ServeSpec

(* What is proved of a session holds of every session ServeHTTP starts.    *)
THEOREM ServeIsSession == ServeSpec => Spec
BY ServeStutters, PTL DEF ServeSpec, ServeInit, Spec

(* Every variable of a request and of its session keeps its type. *)
THEOREM ServeTypeCorrect == ServeSpec => []ServeTypeOK
BY ServeAlways, PTL DEF ServeInv

(* A request is answered once, and told the truth about what became of it. *)
THEOREM Answering == ServeSpec => []AnsweredOnce
BY ServeAlways, PTL DEF ServeInv

(* What goes to the server was bypassed or approved by all hooks in order. *)
THEOREM Approval == ServeSpec => []ForwardedIfApproved
BY ServeAlways, PTL DEF ServeInv
=============================================================================
