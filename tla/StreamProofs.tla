---------------------------- MODULE StreamProofs ----------------------------
(***************************************************************************)
(* Theorems about one proxied session, for any packets, interceptors and   *)
(* capacity of the errs channel.                                           *)
(***************************************************************************)
EXTENDS Stream, TLAPS

(* Where a stream goroutine has a packet in hand. *)
Holding == {"pre", "auth", "connecting", "farewell", "post", "write",
            "notify", "reportNotify"}

TypeInv ==
  /\ TypeOK
  /\ \A d \in Direction : pc[d] \in Holding => pkt[d] \in MaybePacket
  /\ pc["Up"] = "connecting" => pkt["Up"] \in Packet

-----------------------------------------------------------------------------
(* What the helpers of the model return.                                   *)

LEMMA InterceptedType ==
  ASSUME NEW ic, NEW d \in Direction, NEW p \in MaybePacket
  PROVE  Intercepted(ic, d, p) \subseteq MaybePacket
BY DEF Intercepted

(* A packet of a kind the code asks for is not the nil one. *)
LEMMA NotNil ==
  ASSUME NEW p \in MaybePacket, p.kind \in Kind \/ p # NilPacket
  PROVE  p \in Packet
BY DEF MaybePacket, NilPacket, Kind

LEMMA RebodyType ==
  ASSUME NEW p \in Packet, NEW b \in Body
  PROVE  Rebody(p, b) \in Packet /\ Rebody(p, b).kind = p.kind
BY DEF Packet, Rebody

LEMMA VettedType ==
  ASSUME NEW p \in MaybePacket, NEW h \in Hook, NEW id \in Identities
  PROVE  [packet |-> p, hook |-> h, as |-> id] \in Vetted
BY DEF Vetted

LEMMA IdentityType ==
  /\ NoIdentity \in Identities
  /\ Unapproved \in Identities
  /\ \A b \in Body : Identity(b) \in Identities
BY DEF Identities

LEMMA ArrivingPackets ==
  /\ ClientPackets \subseteq Packet
  /\ BrokerPackets \subseteq Packet
BY StreamAssumption DEF StreamAssumption

-----------------------------------------------------------------------------
(* Type correctness.                                                       *)

LEMMA TypeInit == Init => TypeInv
<1> SUFFICES ASSUME Init PROVE TypeInv
  OBVIOUS
<1> USE DEF Init, Direction, Side
<1>1. open \in [Side -> BOOLEAN] /\ hung \in [Side -> BOOLEAN]
      /\ stalled \in [Side -> BOOLEAN]
  OBVIOUS
<1>2. /\ sent \in [Direction -> Seq(Packet)]
      /\ delivered \in [Direction -> Seq(Packet)]
      /\ vetted \in [Direction -> Seq(Vetted)]
  OBVIOUS
<1>3. pkt \in [Direction -> MaybePacket \cup {NoPacket}]
  OBVIOUS
<1>4. pc \in [Direction -> StreamPc] /\ main \in MainPc
      /\ nread \in [Direction -> Nat]
  BY DEF StreamPc, MainPc
<1>5. errs \in 0..ErrsCap
  BY StreamAssumption DEF StreamAssumption
<1>6. \A d \in Direction : pc[d] \notin Holding
  BY DEF Holding
<1> QED BY <1>1, <1>2, <1>3, <1>4, <1>5, <1>6, IdentityType DEF TypeInv, TypeOK

USE DEF Goto, MainGoto

LEMMA TypeStep == TypeInv /\ [Next]_vars => TypeInv'
<1> SUFFICES ASSUME TypeInv, [Next]_vars PROVE TypeInv'
  OBVIOUS
<1> USE DEF TypeInv, TypeOK, Holding, Direction, Side, MainPc, StreamPc
<1>1. ASSUME NEW d \in Direction, NEW p \in Packet, Arrives(d, p)
      PROVE  TypeInv'
  BY <1>1 DEF Arrives, handleVars, socketVars, wireVars, notifyVars,
              sessionVars, streamVars
<1>2. ASSUME NEW s \in Side, HangUp(s) \/ Stall(s)
      PROVE  TypeInv'
  BY <1>2 DEF HangUp, Stall, handleVars, wireVars, notifyVars,
              sessionVars, streamVars
<1>3. CASE HandleStep
  <2>1. CASE Dial
    BY <2>1 DEF Dial, wireVars, notifyVars, sessionVars, streamVars
  <2>2. CASE ClientCert
    BY <2>2 DEF ClientCert, socketVars, wireVars, notifyVars, sessionVars
  <2>3. CASE AwaitError
    BY <2>3, StreamAssumption
       DEF AwaitError, StreamAssumption, socketVars, wireVars, notifyVars,
           sessionVars, streamVars
  <2>4. CASE Disconnect
    BY <2>4 DEF Disconnect, socketVars, wireVars, notifyVars, sessionVars,
                streamVars
  <2>5. CASE CloseOut \/ CloseIn
    BY <2>5 DEF CloseOut, CloseIn, wireVars, notifyVars, sessionVars, streamVars
  <2> QED BY <1>3, <2>1, <2>2, <2>3, <2>4, <2>5 DEF HandleStep
<1>4. ASSUME NEW d \in Direction, StreamStep(d)
      PROVE  TypeInv'
  <2> USE DEF shared, handleVars, socketVars, wireVars, notifyVars, sessionVars
  <2>1. CASE ReadPacket(d)
    <3>1. sent[d][nread[d] + 1] \in MaybePacket
      BY <2>1 DEF ReadPacket, MaybePacket
    <3> QED BY <2>1, <3>1 DEF ReadPacket, Take
  <2>2. CASE ReadFails(d) \/ InterceptFails(d) \/ WriteFails(d)
    BY <2>2 DEF ReadFails, InterceptFails, WriteFails
  <2>3. CASE PreIntercept(d)
    <3>1. PICK q \in MaybePacket : Take(d, q)
      BY <2>3, InterceptedType DEF PreIntercept
    <3> QED BY <2>3, <3>1 DEF PreIntercept, Take
  <2>4. CASE PostIntercept(d)
    <3>1. PICK q \in MaybePacket : Take(d, q)
      BY <2>4, InterceptedType DEF PostIntercept
    <3> QED BY <2>4, <3>1 DEF PostIntercept, Take
  <2>5. CASE PassThrough(d)
    <3>1. [packet |-> pkt[d], hook |-> "none", as |-> session] \in Vetted
      BY <2>5, VettedType DEF PassThrough, Hook
    <3> QED BY <2>5, <3>1 DEF PassThrough, Vet
  <2>6. CASE WritePacket(d)
    <3>1. pkt[d] \in Packet
      BY <2>6, NotNil DEF WritePacket
    <3> QED BY <2>6, <3>1 DEF WritePacket
  <2>7. CASE Send(d)
    BY <2>7, StreamAssumption DEF Send, StreamAssumption
  <2>10. CASE WriteNil(d)
    BY <2>10 DEF WriteNil
  <2>8. CASE d = "Up" /\ UpStep
    <3>1. CASE StoreCredentials
      <4>1. pkt["Up"] \in Packet
        BY <3>1, NotNil DEF StoreCredentials, Kind
      <4> QED BY <3>1, <4>1, IdentityType DEF StoreCredentials
    <3>2. CASE AuthConnect
      <4>1. PICK b \in Body, p \in Packet :
              /\ session' = Identity(b)
              /\ accepted' = Identity(b)
              /\ Take("Up", p)
              /\ Vet("Up", p, "AuthConnect", Identity(b))
        BY <3>2, RebodyType DEF AuthConnect
      <4>2. [packet |-> p, hook |-> "AuthConnect", as |-> Identity(b)] \in Vetted
        BY VettedType, IdentityType DEF Hook, MaybePacket
      <4>3. p \in MaybePacket
        BY DEF MaybePacket
      <4> QED BY <3>2, <4>1, <4>2, <4>3, IdentityType DEF AuthConnect, Take, Vet
    <3>3. ASSUME NEW kind \in Kind, NEW hook \in Hook, AuthTopic(kind, hook)
          PROVE  TypeInv'
      <4>1. pkt["Up"] \in Packet
        BY <3>3, NotNil DEF AuthTopic
      <4>2. PICK p \in Packet :
              Take("Up", p) /\ Vet("Up", p, hook, session)
        BY <3>3, <4>1, RebodyType DEF AuthTopic
      <4>3. p \in MaybePacket
        BY DEF MaybePacket
      <4>4. [packet |-> p, hook |-> hook, as |-> session] \in Vetted
        BY <4>3, VettedType
      <4> QED BY <3>3, <4>2, <4>3, <4>4 DEF AuthTopic, Take, Vet
    <3>4. CASE UpRefused
      BY <3>4 DEF UpRefused
    <3>5. CASE Notify
      BY <3>5 DEF Notify
    <3>6. CASE NotifyFails
      BY <3>6 DEF NotifyFails
    <3> QED BY <2>8, <3>1, <3>2, <3>3, <3>4, <3>5, <3>6
            DEF UpStep, AuthPublish, AuthSubscribe, Hook, Kind
  <2>9. CASE d = "Down" /\ DownStep
    <3>1. CASE AuthDelivery
      <4>0. pkt["Down"] \in Packet
        BY <3>1, NotNil DEF AuthDelivery, Kind
      <4>1. PICK p \in Packet : Vet("Down", p, "AuthSubscribe", session)
        BY <3>1, <4>0, RebodyType DEF AuthDelivery
      <4>2. [packet |-> p, hook |-> "AuthSubscribe", as |-> session] \in Vetted
        BY VettedType DEF Hook, MaybePacket
      <4> QED BY <3>1, <4>1, <4>2 DEF AuthDelivery, Vet
    <3>2. CASE DeliveryRefused \/ WriteFarewell
      BY <3>2 DEF DeliveryRefused, WriteFarewell
    <3> QED BY <2>9, <3>1, <3>2 DEF DownStep
  <2> QED BY <1>4, <2>1, <2>2, <2>3, <2>4, <2>5, <2>6, <2>7, <2>8, <2>9, <2>10
          DEF StreamStep
<1>5. CASE UNCHANGED vars
  BY <1>5 DEF vars, handleVars, socketVars, wireVars, notifyVars, sessionVars,
              streamVars
<1> QED
  BY <1>1, <1>2, <1>3, <1>4, <1>5, ArrivingPackets
     DEF Next, PeerStep, ClientSends, BrokerSends

(* Every variable of a session keeps its type. *)
THEOREM TypeCorrect == Spec => []TypeOK
<1>1. TypeInv => TypeOK
  BY DEF TypeInv
<1> QED BY <1>1, TypeInit, TypeStep, PTL DEF Spec

-----------------------------------------------------------------------------
(* The errs channel.  The session's two goroutines are started together,  *)
(* and every error is accounted for: it was received by Stream, is in the  *)
(* buffer, or is about to be sent.                                         *)

Control ==
  /\ pc["Up"] = "idle" <=> pc["Down"] = "idle"
  /\ main \in {"dial", "cert"} => pc["Up"] = "idle"
  /\ main \in {"stream", "disconnect"} => pc["Up"] # "idle"
  /\ \A d \in Direction : pc[d] = "crashed" <=> main = "crashed"
  /\ pc["Down"] \notin {"connecting", "notify", "reportNotify"}
  /\ pc["Up"] # "farewell"

Started    == pc["Up"] # "idle"
Received   == IF StreamReturned /\ Started THEN 1 ELSE 0
Unreported == IF pc["Up"] = "reportNotify" THEN 1 ELSE 0
Ended(d)   == IF pc[d] = "done" THEN 1 ELSE 0

ErrsAccount ==
  main # "crashed" =>
  errs + Received + Unreported = Ended("Up") + Ended("Down") + notifyErrs

ErrsInv == Control /\ ErrsAccount

LEMMA ErrsInit == Init => ErrsInv
BY DEF Init, ErrsInv, Control, ErrsAccount, Received, Unreported, Ended,
       Started, StreamReturned, Direction

LEMMA ErrsStep == TypeInv /\ ErrsInv /\ [Next]_vars => ErrsInv'
<1> SUFFICES ASSUME TypeInv, ErrsInv, [Next]_vars PROVE ErrsInv'
  OBVIOUS
<1>0. /\ pc \in [Direction -> StreamPc] /\ main \in MainPc
      /\ errs \in Nat /\ notifyErrs \in Nat
  BY StreamAssumption DEF TypeInv, TypeOK, StreamAssumption
<1> USE <1>0 DEF ErrsInv, Control, ErrsAccount, Received, Unreported, Ended,
                 Started, StreamReturned, Direction
<1>1. ASSUME UNCHANGED <<main, pc, errs, notifyErrs>>
      PROVE  ErrsInv'
  BY <1>1
<1>2. CASE HandleStep
  <2>1. CASE Dial \/ CloseOut \/ CloseIn
    BY <2>1 DEF Dial, CloseOut, CloseIn, notifyVars, streamVars
  <2>2. CASE ClientCert
    BY <2>2 DEF ClientCert, notifyVars
  <2>3. CASE AwaitError
    BY <2>3 DEF AwaitError, notifyVars, streamVars
  <2>4. CASE Disconnect
    BY <2>4 DEF Disconnect, notifyVars, streamVars
  <2> QED BY <1>2, <2>1, <2>2, <2>3, <2>4 DEF HandleStep
<1>3. ASSUME NEW d \in Direction, StreamStep(d)
      PROVE  ErrsInv'
  <2> USE DEF shared, handleVars, notifyVars
  (* Steps that neither fill the channel nor fail to notify. *)
  <2>1. ASSUME UNCHANGED <<main, errs, notifyErrs>>,
               NEW from \in StreamPc \ {"idle", "reportNotify", "done", "crashed"},
               NEW to \in StreamPc \ {"idle", "reportNotify", "done", "crashed"},
               Goto(d, from, to),
               to = "farewell" => d = "Down",
               to \in {"connecting", "notify"} => d = "Up"
        PROVE  ErrsInv'
    BY <2>1
  <2> USE DEF StreamPc
  <2>2. CASE ReadPacket(d) \/ ReadFails(d)
    BY <2>1, <2>2 DEF ReadPacket, ReadFails
  <2>3. CASE PreIntercept(d) \/ PostIntercept(d) \/ InterceptFails(d)
    BY <2>1, <2>3 DEF PreIntercept, PostIntercept, InterceptFails
  <2>4. CASE PassThrough(d)
    BY <2>1, <2>4 DEF PassThrough
  <2>5. CASE WritePacket(d) \/ WriteFails(d)
    BY <2>1, <2>5 DEF WritePacket, WriteFails
  <2>6. CASE Send(d)
    BY <2>6 DEF Send
  <2>7. CASE d = "Up" /\ UpStep
    <3>1. CASE StoreCredentials \/ AuthConnect \/ UpRefused
      BY <2>1, <2>7, <3>1 DEF StoreCredentials, AuthConnect, UpRefused
    <3>2. CASE AuthPublish \/ AuthSubscribe
      BY <2>1, <2>7, <3>2 DEF AuthPublish, AuthSubscribe, AuthTopic
    <3>3. CASE Notify
      BY <2>1, <2>7, <3>3 DEF Notify
    <3>4. CASE NotifyFails
      BY <2>7, <3>4 DEF NotifyFails
    <3> QED BY <2>7, <3>1, <3>2, <3>3, <3>4 DEF UpStep
  <2>8. CASE d = "Down" /\ DownStep
    BY <2>1, <2>8 DEF DownStep, AuthDelivery, DeliveryRefused, WriteFarewell
  <2>9. CASE WriteNil(d)
    BY <2>9 DEF WriteNil
  <2> QED BY <1>3, <2>2, <2>3, <2>4, <2>5, <2>6, <2>7, <2>8, <2>9 DEF StreamStep
<1>4. CASE PeerStep \/ UNCHANGED vars
  BY <1>1, <1>4
     DEF PeerStep, ClientSends, BrokerSends, Arrives, HangUp, Stall, vars,
         handleVars, notifyVars, streamVars
<1> QED BY <1>2, <1>3, <1>4 DEF Next

LEMMA ErrsInvBlocks == TypeInv /\ ErrsInv => BlockedOnlyByNotifyErrors
BY StreamAssumption
   DEF TypeInv, TypeOK, ErrsInv, Control, ErrsAccount, Received, Unreported,
       Ended, Started, BlockedOnlyByNotifyErrors, BlockedForever,
       StreamReturned, StreamAssumption, Direction

(* Whatever the capacity of the errs channel, a stream goroutine can be    *)
(* stuck on it only after that many failed notifications: every other      *)
(* error ends the goroutine that reports it, and Stream receives one.      *)
THEOREM ErrsBlock == Spec => []BlockedOnlyByNotifyErrors
<1>1. Init => TypeInv /\ ErrsInv
  BY TypeInit, ErrsInit
<1>2. TypeInv /\ ErrsInv /\ [Next]_vars => (TypeInv /\ ErrsInv)'
  BY TypeStep, ErrsStep
<1> QED BY <1>1, <1>2, ErrsInvBlocks, PTL DEF Spec

-----------------------------------------------------------------------------
(* The pipeline of each direction: between authorization and the write     *)
(* there is at most the packet in hand, and it is what the hook approved,  *)
(* up to the second interceptor.                                           *)

Behind == {"idle", "read", "pre", "auth", "connecting", "farewell",
           "notify", "reportNotify"}

LastVetted(d) == vetted[d][Len(vetted[d])]

RelayedAs(d, v, q) ==
  \E p \in Approved(d, v) : q \in Intercepted(PostIc, d, p)

Lengths(d) ==
  /\ Len(delivered[d]) <= Len(vetted[d])
  /\ pc[d] \in Behind => Len(vetted[d]) = Len(delivered[d])
  /\ pc[d] \in {"post", "write"} => Len(vetted[d]) = Len(delivered[d]) + 1

InHand(d) ==
  /\ pc[d] = "connecting" => d = "Up" /\ pkt[d].kind = "CONNECT"
  /\ pc[d] = "post" => pkt[d] \in Approved(d, LastVetted(d))
  /\ pc[d] = "write" => RelayedAs(d, LastVetted(d), pkt[d])

Ruled(d) ==
  \A i \in 1..Len(vetted[d]) : vetted[d][i].hook = Rule(d, vetted[d][i].packet.kind)

Relayed(d) ==
  \A i \in 1..Len(delivered[d]) : RelayedAs(d, vetted[d][i], delivered[d][i])

Pipe(d) == Lengths(d) /\ InHand(d) /\ Ruled(d) /\ Relayed(d)
PipeInv == \A d \in Direction : Pipe(d)

LEMMA RebodyUndo ==
  ASSUME NEW p \in Packet, NEW b \in Body
  PROVE  \E c \in Body : Rebody(Rebody(p, b), c) = p
BY DEF Packet, Rebody

LEMMA PipeInit == Init => PipeInv
BY DEF Init, PipeInv, Pipe, Lengths, InHand, Ruled, Relayed, Behind, Direction

(* A direction whose packet, place and queues stay as they are. *)
LEMMA PipeSame ==
  ASSUME NEW d \in Direction, Pipe(d),
         pc'[d] = pc[d], pkt'[d] = pkt[d],
         vetted'[d] = vetted[d], delivered'[d] = delivered[d]
  PROVE  Pipe(d)'
BY DEF Pipe, Lengths, InHand, Ruled, Relayed, LastVetted, RelayedAs

(* A step that moves on without vetting or writing anything. *)
LEMMA PipeMoves ==
  ASSUME NEW d \in Direction, Pipe(d),
         vetted'[d] = vetted[d], delivered'[d] = delivered[d],
         pc'[d] \in Behind => pc[d] \in Behind,
         pc'[d] \notin {"connecting", "post", "write"}
  PROVE  Pipe(d)'
BY DEF Pipe, Lengths, InHand, Ruled, Relayed, LastVetted, RelayedAs, Behind

(* The step that takes a packet through authorization. *)
LEMMA PipeVets ==
  ASSUME NEW d \in Direction, TypeInv, Pipe(d),
         NEW p \in MaybePacket, NEW hook \in Hook, NEW id \in Identities,
         Vet(d, p, hook, id), delivered' = delivered,
         pc[d] \in Behind, pc'[d] = "post",
         hook = Rule(d, p.kind),
         pkt'[d] \in Approved(d, [packet |-> p, hook |-> hook, as |-> id])
  PROVE  Pipe(d)'
<1> DEFINE v == [packet |-> p, hook |-> hook, as |-> id]
<1>1. /\ vetted[d] \in Seq(Vetted) /\ delivered[d] \in Seq(Packet)
      /\ vetted'[d] = Append(vetted[d], v)
  BY DEF TypeInv, TypeOK, Vet
<1>2. v \in Vetted /\ v.packet = p /\ v.hook = hook
  BY VettedType
<1> HIDE DEF v
<1>3. /\ Len(vetted'[d]) = Len(vetted[d]) + 1
      /\ vetted'[d][Len(vetted[d]) + 1] = v
      /\ \A i \in 1..Len(vetted[d]) : vetted'[d][i] = vetted[d][i]
  BY <1>1, <1>2
<1>4. Lengths(d)'
  BY <1>1, <1>3 DEF Pipe, Lengths, Behind
<1>5. InHand(d)'
  BY <1>1, <1>3 DEF InHand, LastVetted, v
<1>6. Ruled(d)'
  <2> SUFFICES ASSUME NEW i \in 1..Len(vetted'[d])
               PROVE  vetted'[d][i].hook = Rule(d, vetted'[d][i].packet.kind)
    BY DEF Ruled
  <2>1. CASE i = Len(vetted[d]) + 1
    BY <2>1, <1>2, <1>3
  <2>2. CASE i \in 1..Len(vetted[d])
    BY <2>2, <1>3 DEF Pipe, Ruled
  <2> QED BY <2>1, <2>2, <1>1, <1>3
<1>7. Relayed(d)'
  <2>1. \A i \in 1..Len(delivered[d]) : i \in 1..Len(vetted[d])
    BY <1>1 DEF Pipe, Lengths
  <2> QED BY <2>1, <1>3 DEF Pipe, Relayed, RelayedAs
<1> QED BY <1>4, <1>5, <1>6, <1>7 DEF Pipe

(* The step that writes the packet in hand. *)
LEMMA PipeWrites ==
  ASSUME NEW d \in Direction, TypeInv, Pipe(d), pc[d] = "write", pkt[d] # NilPacket,
         vetted' = vetted, delivered' = [delivered EXCEPT ![d] = Append(@, pkt[d])],
         pc'[d] \in {"notify", "read"}
  PROVE  Pipe(d)'
<1>1. /\ vetted[d] \in Seq(Vetted) /\ delivered[d] \in Seq(Packet)
      /\ pkt[d] \in Packet
      /\ delivered'[d] = Append(delivered[d], pkt[d])
  BY NotNil DEF TypeInv, TypeOK, Holding
<1>2. Len(vetted[d]) = Len(delivered[d]) + 1
  BY DEF Pipe, Lengths
<1>3. /\ Len(delivered'[d]) = Len(delivered[d]) + 1
      /\ delivered'[d][Len(delivered[d]) + 1] = pkt[d]
      /\ \A i \in 1..Len(delivered[d]) : delivered'[d][i] = delivered[d][i]
  BY <1>1
<1>4. Lengths(d)' /\ InHand(d)' /\ Ruled(d)'
  BY <1>1, <1>2, <1>3 DEF Pipe, Lengths, InHand, Ruled, Behind
<1>5. Relayed(d)'
  <2> SUFFICES ASSUME NEW i \in 1..Len(delivered'[d])
               PROVE  RelayedAs(d, vetted[d][i], delivered'[d][i])
    BY DEF Relayed, RelayedAs
  <2>1. CASE i = Len(delivered[d]) + 1
    BY <2>1, <1>2, <1>3 DEF Pipe, InHand, LastVetted
  <2>2. CASE i \in 1..Len(delivered[d])
    BY <2>2, <1>3 DEF Pipe, Relayed
  <2> QED BY <2>1, <2>2, <1>1, <1>3
<1> QED BY <1>4, <1>5 DEF Pipe

LEMMA PipeStep == TypeInv /\ Control /\ PipeInv /\ [Next]_vars => PipeInv'
<1> SUFFICES ASSUME TypeInv, Control, PipeInv, [Next]_vars, NEW e \in Direction
             PROVE  Pipe(e)'
  BY DEF PipeInv
<1>0. /\ Pipe(e)
      /\ pc \in [Direction -> StreamPc]
      /\ pkt \in [Direction -> MaybePacket \cup {NoPacket}]
      /\ vetted \in [Direction -> Seq(Vetted)]
      /\ delivered \in [Direction -> Seq(Packet)]
      /\ session \in Identities
      /\ pc[e] \in Holding => pkt[e] \in MaybePacket
  BY DEF PipeInv, TypeInv, TypeOK
<1>1. CASE UNCHANGED <<pc, pkt, vetted, delivered>>
  BY <1>0, <1>1, PipeSame
<1>2. CASE ClientCert
  <2>1. /\ vetted'[e] = vetted[e] /\ delivered'[e] = delivered[e]
        /\ pkt'[e] = pkt[e]
        /\ pc' = pc \/ (pc'[e] = "read" /\ pc[e] \in Behind)
    BY <1>0, <1>2 DEF ClientCert, wireVars, Control, Direction, Behind
  <2> QED BY <1>0, <2>1, PipeSame, PipeMoves DEF Behind
<1>3. ASSUME NEW d \in Direction, StreamStep(d)
      PROVE  Pipe(e)'
  <2> USE DEF shared, wireVars
  <2>0. CASE WriteNil(d)
    <3>1. pc'[e] = "crashed" /\ vetted' = vetted /\ delivered' = delivered
      BY <2>0 DEF WriteNil
    <3> QED BY <1>0, <3>1, PipeMoves DEF Behind
  <2>1. CASE d # e /\ ~WriteNil(d)
    <3>1. /\ pc'[e] = pc[e] /\ pkt'[e] = pkt[e]
          /\ vetted'[e] = vetted[e] /\ delivered'[e] = delivered[e]
      <4> USE <1>0, <2>1 DEF Take, Vet
      <4>1. CASE ReadPacket(d) \/ ReadFails(d) \/ PreIntercept(d)
                 \/ PostIntercept(d) \/ InterceptFails(d)
        BY <4>1 DEF ReadPacket, ReadFails, PreIntercept, PostIntercept,
                    InterceptFails
      <4>2. CASE PassThrough(d) \/ WritePacket(d) \/ WriteFails(d) \/ Send(d)
        BY <4>2 DEF PassThrough, WritePacket, WriteFails, Send
      <4>3. CASE d = "Up" /\ UpStep
        BY <4>3 DEF UpStep, StoreCredentials, AuthConnect, AuthPublish,
                    AuthSubscribe, AuthTopic, UpRefused, Notify, NotifyFails
      <4>4. CASE d = "Down" /\ DownStep
        BY <4>4 DEF DownStep, AuthDelivery, DeliveryRefused, WriteFarewell
      <4> QED BY <1>3, <2>1, <4>1, <4>2, <4>3, <4>4 DEF StreamStep
    <3> QED BY <1>0, <3>1, PipeSame
  <2>2. CASE d = e /\ ~WriteNil(d)
    <3>1. CASE ReadPacket(e) \/ ReadFails(e) \/ WriteFails(e) \/ Send(e)
               \/ InterceptFails(e) \/ PreIntercept(e)
      BY <1>0, <3>1, PipeMoves
         DEF ReadPacket, ReadFails, WriteFails, Send, InterceptFails,
             PreIntercept, Behind
    <3>2. CASE PostIntercept(e)
      <4>1. /\ vetted' = vetted /\ delivered' = delivered
            /\ pc[e] = "post" /\ pc'[e] = "write"
            /\ pkt'[e] \in Intercepted(PostIc, e, pkt[e])
        BY <1>0, <3>2 DEF PostIntercept, Take
      <4> QED BY <1>0, <4>1
              DEF Pipe, Lengths, InHand, Ruled, Relayed, LastVetted, RelayedAs,
                  Behind
    <3>3. CASE PassThrough(e)
      <4>1. /\ Vet(e, pkt[e], "none", session)
            /\ delivered' = delivered /\ pkt' = pkt
            /\ pc[e] \in Behind /\ pc'[e] = "post" /\ pkt[e] \in MaybePacket
            /\ Rule(e, pkt[e].kind) = "none"
        BY <1>0, <3>3 DEF PassThrough, Behind, Holding, Rule, Direction
      <4>2. pkt[e] \in Approved(e, [packet |-> pkt[e], hook |-> "none", as |-> session])
        BY DEF Approved
      <4> QED BY <1>0, <4>1, <4>2, PipeVets DEF Hook
    <3>4. CASE WritePacket(e)
      BY <1>0, <3>4, PipeWrites DEF WritePacket
    <3>5. CASE e = "Up" /\ UpStep
      <4>1. CASE StoreCredentials
        BY <1>0, <3>5, <4>1
           DEF StoreCredentials, Pipe, Lengths, InHand, Ruled, Relayed,
               RelayedAs, Behind
      <4>2. CASE AuthConnect
        <5>1. PICK b \in Body :
                /\ Take("Up", Rebody(pkt["Up"], b))
                /\ Vet("Up", Rebody(pkt["Up"], b), "AuthConnect", Identity(b))
          BY <4>2 DEF AuthConnect
        <5>2. /\ delivered' = delivered /\ pc["Up"] = "connecting"
              /\ pc'["Up"] = "post" /\ pkt["Up"] \in Packet
              /\ pkt["Up"].kind = "CONNECT"
          BY <1>0, <3>5, <4>2 DEF AuthConnect, TypeInv, Pipe, InHand
        <5>3. /\ Rebody(pkt["Up"], b) \in MaybePacket
              /\ Rebody(pkt["Up"], b).kind = "CONNECT"
          BY <5>2, RebodyType DEF MaybePacket
        <5>4. pkt'["Up"] \in Approved("Up",
                [packet |-> Rebody(pkt["Up"], b), hook |-> "AuthConnect",
                 as |-> Identity(b)])
          BY <1>0, <3>5, <5>1 DEF Take, Approved
        <5> QED BY <1>0, <3>5, <5>1, <5>2, <5>3, <5>4, PipeVets, IdentityType
                DEF Hook, Rule, Behind
      <4>3. ASSUME NEW kind \in {"PUBLISH", "SUBSCRIBE"}, NEW hook \in Hook,
                   hook = Rule("Up", kind), AuthTopic(kind, hook)
            PROVE  Pipe(e)'
        <5>1. PICK b \in Body :
                /\ Take("Up", Rebody(pkt["Up"], b))
                /\ Vet("Up", Rebody(pkt["Up"], b), hook, session)
          BY <4>3 DEF AuthTopic
        <5>2. /\ delivered' = delivered /\ pc["Up"] = "auth"
              /\ pc'["Up"] = "post" /\ pkt["Up"] \in Packet
              /\ pkt["Up"].kind = kind
          BY <1>0, <3>5, <4>3, NotNil DEF AuthTopic, Holding, Kind
        <5>3. /\ Rebody(pkt["Up"], b) \in MaybePacket
              /\ Rebody(pkt["Up"], b).kind = kind
          BY <5>2, RebodyType DEF MaybePacket
        <5>4. pkt'["Up"] \in Approved("Up",
                [packet |-> Rebody(pkt["Up"], b), hook |-> hook, as |-> session])
          BY <1>0, <3>5, <5>1 DEF Take, Approved
        <5> QED BY <1>0, <3>5, <4>3, <5>1, <5>2, <5>3, <5>4, PipeVets DEF Behind
      <4>4. CASE UpRefused \/ Notify \/ NotifyFails
        BY <1>0, <3>5, <4>4, PipeMoves DEF UpRefused, Notify, NotifyFails, Behind
      <4>5. CASE AuthPublish \/ AuthSubscribe
        <5>1. Rule("Up", "PUBLISH") = "AuthPublish" /\ Rule("Up", "SUBSCRIBE") = "AuthSubscribe"
          BY DEF Rule
        <5> QED BY <4>3, <4>5, <5>1 DEF AuthPublish, AuthSubscribe, Hook
      <4> QED BY <3>5, <4>1, <4>2, <4>4, <4>5 DEF UpStep
    <3>6. CASE e = "Down" /\ DownStep
      <4>1. CASE AuthDelivery
        <5>1. PICK b \in Body :
                Vet("Down", Rebody(pkt["Down"], b), "AuthSubscribe", session)
          BY <4>1 DEF AuthDelivery
        <5>2. /\ delivered' = delivered /\ pc["Down"] = "auth" /\ pkt' = pkt
              /\ pc'["Down"] = "post" /\ pkt["Down"] \in Packet
              /\ pkt["Down"].kind = "PUBLISH"
          BY <1>0, <3>6, <4>1, NotNil DEF AuthDelivery, Holding, Kind
        <5>3. /\ Rebody(pkt["Down"], b) \in MaybePacket
              /\ Rebody(pkt["Down"], b).kind = "PUBLISH"
          BY <5>2, RebodyType DEF MaybePacket
        <5>4. pkt'["Down"] \in Approved("Down",
                [packet |-> Rebody(pkt["Down"], b), hook |-> "AuthSubscribe",
                 as |-> session])
          BY <5>2, RebodyUndo DEF Approved
        <5> QED BY <1>0, <3>6, <5>1, <5>2, <5>3, <5>4, PipeVets
                DEF Hook, Rule, Behind
      <4>2. CASE DeliveryRefused \/ WriteFarewell
        BY <1>0, <3>6, <4>2, PipeMoves DEF DeliveryRefused, WriteFarewell, Behind
      <4> QED BY <3>6, <4>1, <4>2 DEF DownStep
    <3> QED BY <1>3, <2>2, <3>1, <3>2, <3>3, <3>4, <3>5, <3>6 DEF StreamStep
  <2> QED BY <2>0, <2>1, <2>2
<1> QED
  BY <1>1, <1>2, <1>3
     DEF Next, HandleStep, Dial, AwaitError, Disconnect, CloseOut, CloseIn,
         PeerStep, ClientSends, BrokerSends, Arrives, HangUp, Stall, vars,
         streamVars, wireVars

LEMMA PipeInvVets == TypeInv /\ PipeInv => VettedBeforeDelivered
<1> SUFFICES ASSUME TypeInv, PipeInv, NEW d \in Direction,
                    NEW i \in 1..Len(delivered[d])
             PROVE  /\ i <= Len(vetted[d])
                    /\ vetted[d][i].hook = Rule(d, vetted[d][i].packet.kind)
                    /\ RelayedAs(d, vetted[d][i], delivered[d][i])
  BY DEF VettedBeforeDelivered, RelayedAs
<1>1. vetted[d] \in Seq(Vetted) /\ delivered[d] \in Seq(Packet)
  BY DEF TypeInv, TypeOK
<1>2. i \in 1..Len(vetted[d])
  BY <1>1 DEF PipeInv, Pipe, Lengths
<1> QED BY <1>1, <1>2 DEF PipeInv, Pipe, Ruled, Relayed

(* No packet reaches the broker or the client unless the hook in charge of *)
(* its kind and direction approved it, and it is relayed as approved, with *)
(* any handler and any interceptors.                                       *)
THEOREM Vetting == Spec => []VettedBeforeDelivered
<1>1. Init => TypeInv /\ ErrsInv /\ PipeInv
  BY TypeInit, ErrsInit, PipeInit
<1>2. TypeInv /\ ErrsInv /\ PipeInv /\ [Next]_vars => (TypeInv /\ ErrsInv /\ PipeInv)'
  BY TypeStep, ErrsStep, PipeStep DEF ErrsInv
<1> QED BY <1>1, <1>2, PipeInvVets, PTL DEF Spec

-----------------------------------------------------------------------------
(* The notification hooks.                                                 *)

NotifyInv ==
  /\ notified <= Len(delivered["Up"]) /\ Len(delivered["Up"]) <= notified + 1
  /\ main # "crashed" =>
        Len(delivered["Up"]) = notified + (IF pc["Up"] = "notify" THEN 1 ELSE 0)

LEMMA NotifyStep ==
  TypeInv /\ Control /\ NotifyInv /\ [Next]_vars => NotifyInv'
<1> SUFFICES ASSUME TypeInv, Control, NotifyInv, [Next]_vars PROVE NotifyInv'
  OBVIOUS
<1>0. /\ pc \in [Direction -> StreamPc]
      /\ delivered \in [Direction -> Seq(Packet)]
      /\ notified \in Nat
      /\ pc["Up"] \in Holding => pkt["Up"] \in MaybePacket
      /\ "Up" \in Direction
  BY DEF TypeInv, TypeOK, Direction
<1> USE <1>0 DEF NotifyInv
<1>1. ASSUME delivered'["Up"] = delivered["Up"], notified' = notified,
             \/ main' = "crashed"
             \/ (main' = main \/ main # "crashed") /\ (pc'["Up"] = "notify" <=> pc["Up"] = "notify")
      PROVE  NotifyInv'
  BY <1>1
<1>2. CASE HandleStep
  <2>1. CASE ClientCert
    BY <1>1, <2>1 DEF ClientCert, wireVars, notifyVars, Control, Direction
  <2> QED
    BY <1>1, <1>2, <2>1
       DEF HandleStep, Dial, AwaitError, Disconnect, CloseOut, CloseIn,
           wireVars, notifyVars, streamVars
<1>3. ASSUME NEW d \in Direction, StreamStep(d)
      PROVE  NotifyInv'
  <2> USE DEF shared, wireVars, notifyVars
  <2>0. main # "crashed"
    BY <1>3
       DEF Control, Direction, StreamStep, ReadPacket, ReadFails, PreIntercept,
           PostIntercept, InterceptFails, PassThrough, WritePacket, WriteFails, WriteNil,
           Send, UpStep, StoreCredentials, AuthConnect, AuthPublish, AuthSubscribe,
           AuthTopic, UpRefused, Notify, NotifyFails, DownStep, AuthDelivery,
           DeliveryRefused, WriteFarewell
  <2>1. CASE ReadPacket(d) \/ ReadFails(d) \/ PreIntercept(d)
             \/ PostIntercept(d) \/ InterceptFails(d) \/ PassThrough(d)
             \/ WriteFails(d) \/ Send(d)
    BY <1>1, <2>0, <2>1 DEF ReadPacket, ReadFails, PreIntercept, PostIntercept,
                InterceptFails, PassThrough, WriteFails, Send
  <2>5. CASE WriteNil(d)
    BY <1>1, <2>5 DEF WriteNil
  <2>2. CASE WritePacket(d)
    <3>1. CASE d = "Up"
      <4>1. Len(Append(delivered["Up"], pkt["Up"])) = Len(delivered["Up"]) + 1
        BY <2>2, <3>1 DEF WritePacket, Holding
      <4> QED BY <2>0, <2>2, <3>1, <4>1 DEF WritePacket
    <3>2. CASE d = "Down"
      BY <1>1, <2>0, <2>2, <3>2 DEF WritePacket
    <3> QED BY <3>1, <3>2 DEF Direction
  <2>3. CASE d = "Up" /\ UpStep
    BY <1>1, <2>0, <2>3 DEF UpStep, StoreCredentials, AuthConnect, AuthPublish,
                AuthSubscribe, AuthTopic, UpRefused, Notify, NotifyFails
  <2>4. CASE d = "Down" /\ DownStep
    BY <1>1, <2>0, <2>4 DEF DownStep, AuthDelivery, DeliveryRefused, WriteFarewell
  <2> QED BY <1>3, <2>1, <2>2, <2>3, <2>4, <2>5 DEF StreamStep
<1>4. CASE PeerStep \/ UNCHANGED vars
  <2>1. UNCHANGED <<main, delivered, notified, pc>>
    BY <1>4
       DEF PeerStep, ClientSends, BrokerSends, Arrives, HangUp, Stall, vars,
           handleVars, wireVars, notifyVars, streamVars
  <2> QED BY <1>1, <2>1
<1> QED BY <1>2, <1>3, <1>4 DEF Next

(* notify is called once for every packet written to the broker, never for *)
(* one whose write failed, and before the next packet is read.             *)
THEOREM Notification == Spec => []NotifiedAfterDelivery
<1>1. Init => TypeInv /\ ErrsInv /\ NotifyInv
  BY TypeInit, ErrsInit DEF Init, NotifyInv, Direction
<1>2. TypeInv /\ ErrsInv /\ NotifyInv /\ [Next]_vars
        => (TypeInv /\ ErrsInv /\ NotifyInv)'
  BY TypeStep, ErrsStep, NotifyStep DEF ErrsInv
<1>3. TypeInv /\ ErrsInv /\ NotifyInv => NotifiedAfterDelivery
  BY DEF TypeInv, TypeOK, ErrsInv, Control, NotifyInv, NotifiedAfterDelivery, Direction
<1> QED BY <1>1, <1>2, <1>3, PTL DEF Spec

-----------------------------------------------------------------------------
(* Each direction is a relay, for any packets, interceptors and hooks.     *)

(* From reading a packet to writing it or giving it up. *)
InFlight == {"pre", "auth", "connecting", "farewell", "post", "write"}

(* The packet that is to be delivered next. *)
Due(d) == sent[d][nread[d]]

(* What a stream goroutine has read it has delivered, but for the packet   *)
(* in flight, which is the one it read last, changed only by the           *)
(* interceptors and hooks it has passed so far.                            *)
Counts(d) ==
  /\ nread[d] <= Len(sent[d])
  /\ pc[d] \in {"idle", "read", "notify", "reportNotify"} =>
        nread[d] = Len(delivered[d])
  /\ pc[d] \in InFlight => nread[d] = Len(delivered[d]) + 1

Origin(d) ==
  /\ pc[d] = "pre" => pkt[d] = Due(d)
  /\ pc[d] \in {"auth", "connecting"} => pkt[d] \in Intercepted(PreIc, d, Due(d))
  /\ pc[d] = "post" =>
        \E q \in Intercepted(PreIc, d, Due(d)) : pkt[d] \in Hooked(q)
  /\ pc[d] = "write" => pkt[d] \in Rewritten(d, Due(d))

FlowInv == \A d \in Direction : Counts(d) /\ Origin(d)

(* The DISCONNECT is the last thing the client is sent. *)
FarewellInv == farewell => pc["Down"] \in {"report", "done", "crashed"}

LEMMA FlowInit == Init => FlowInv /\ FarewellInv
BY DEF Init, FlowInv, Counts, Origin, Direction, FarewellInv, InFlight

LEMMA SameBody ==
  ASSUME NEW p \in MaybePacket PROVE p \in Hooked(p)
<1>1. CASE p # NilPacket
  <2>1. p \in Packet
    BY <1>1, NotNil
  <2>2. p.body \in Body /\ p = Rebody(p, p.body)
    BY <2>1 DEF Packet, Rebody
  <2> QED BY <1>1, <2>2 DEF Hooked
<1> QED BY <1>1 DEF Hooked

LEMMA CountsStep ==
  ASSUME TypeInv, Control, FlowInv, [Next]_vars, NEW e \in Direction
  PROVE  Counts(e)'
<1>0. /\ pc \in [Direction -> StreamPc] /\ nread \in [Direction -> Nat]
      /\ sent \in [Direction -> Seq(Packet)]
      /\ delivered \in [Direction -> Seq(Packet)]
      /\ \A d \in Direction : Counts(d)
  BY DEF TypeInv, TypeOK, FlowInv
<1> USE <1>0 DEF Counts, InFlight, handleVars, wireVars, shared
<1>1. CASE UNCHANGED <<pc, nread, sent, delivered>>
  BY <1>1
<1>2. CASE ClientCert
  BY <1>2 DEF ClientCert, Control, Direction
<1>3. ASSUME NEW d \in Direction, NEW p \in Packet, Arrives(d, p)
      PROVE  Counts(e)'
  BY <1>3 DEF Arrives, streamVars
<1>4. ASSUME NEW d \in Direction, StreamStep(d)
      PROVE  Counts(e)'
  <2>1. CASE ReadPacket(d)
    BY <2>1 DEF ReadPacket
  <2>2. CASE WritePacket(d)
    BY <2>2 DEF WritePacket
  <2>3. CASE \/ ReadFails(d) \/ InterceptFails(d) \/ PreIntercept(d)
             \/ PostIntercept(d) \/ PassThrough(d) \/ WriteFails(d) \/ Send(d)
             \/ WriteNil(d)
    BY <2>3 DEF ReadFails, InterceptFails, PreIntercept, PostIntercept, PassThrough,
                WriteFails, WriteNil, Send
  <2>4. CASE d = "Up" /\ UpStep
    BY <2>4 DEF UpStep, StoreCredentials, AuthConnect, AuthPublish, AuthSubscribe,
                AuthTopic, UpRefused, Notify, NotifyFails
  <2>5. CASE d = "Down" /\ DownStep
    BY <2>5 DEF DownStep, AuthDelivery, DeliveryRefused, WriteFarewell
  <2> QED BY <1>4, <2>1, <2>2, <2>3, <2>4, <2>5 DEF StreamStep
<1> QED
  BY <1>1, <1>2, <1>3, <1>4, ArrivingPackets
     DEF Next, HandleStep, Dial, AwaitError, Disconnect, CloseOut, CloseIn, PeerStep,
         ClientSends, BrokerSends, HangUp, Stall, Direction, streamVars, vars

LEMMA OriginStep ==
  ASSUME TypeInv, Control, FlowInv, [Next]_vars, NEW e \in Direction
  PROVE  Origin(e)'
<1>0. /\ pc \in [Direction -> StreamPc] /\ nread \in [Direction -> Nat]
      /\ sent \in [Direction -> Seq(Packet)]
      /\ pkt \in [Direction -> MaybePacket \cup {NoPacket}]
      /\ \A d \in Direction : pc[d] \in Holding => pkt[d] \in MaybePacket
      /\ pc["Up"] = "connecting" => pkt["Up"] \in Packet
      /\ Counts(e) /\ Origin(e)
  BY DEF TypeInv, TypeOK, FlowInv
<1> USE <1>0 DEF Origin, Due, handleVars, wireVars, shared
<1>1. CASE UNCHANGED <<pc, pkt, nread, sent>>
  BY <1>1
<1>2. CASE ClientCert
  BY <1>2 DEF ClientCert
<1>3. ASSUME NEW d \in Direction, NEW p \in Packet, Arrives(d, p)
      PROVE  Origin(e)'
  <2>1. pc' = pc /\ pkt' = pkt /\ nread' = nread
    BY <1>3 DEF Arrives, streamVars
  <2>2. CASE pc[e] \in InFlight
    <3>1. nread[e] \in 1..Len(sent[e])
      BY <2>2 DEF Counts, TypeInv, TypeOK
    <3>2. Due(e)' = Due(e)
      BY <1>3, <2>1, <3>1 DEF Arrives
    <3> QED BY <2>1, <3>2
  <2>3. CASE pc[e] \notin InFlight
    BY <2>1, <2>3 DEF InFlight
  <2> QED BY <2>2, <2>3
<1>4. ASSUME NEW d \in Direction, StreamStep(d)
      PROVE  Origin(e)'
  <2>1. CASE d # e /\ ~WriteNil(d)
    <3>1. pc'[e] = pc[e] /\ pkt'[e] = pkt[e] /\ nread'[e] = nread[e] /\ sent' = sent
      BY <1>4, <2>1
         DEF StreamStep, ReadPacket, ReadFails, PreIntercept, PostIntercept,
             InterceptFails, PassThrough, WritePacket, WriteFails, WriteNil, Send, UpStep,
             StoreCredentials, AuthConnect, AuthPublish, AuthSubscribe, AuthTopic,
             UpRefused, Notify, NotifyFails, DownStep, AuthDelivery, DeliveryRefused,
             WriteFarewell, Take
    <3> QED BY <3>1
  <2>2. CASE ReadPacket(e)
    BY <2>2 DEF ReadPacket, Take
  <2>3. CASE PreIntercept(e)
    BY <2>3 DEF PreIntercept, Take
  <2>4. CASE PostIntercept(e)
    <3>1. PICK q \in Intercepted(PreIc, e, Due(e)) : pkt[e] \in Hooked(q)
      BY <2>4 DEF PostIntercept
    <3>2. pkt'[e] \in Intercepted(PostIc, e, pkt[e])
      BY <2>4 DEF PostIntercept, Take
    <3>3. Due(e)' = Due(e) /\ pc'[e] = "write"
      BY <2>4 DEF PostIntercept
    <3>4. pkt'[e] \in Rewritten(e, Due(e))
      BY <3>1, <3>2 DEF Rewritten
    <3> QED BY <3>3, <3>4
  <2>5. CASE PassThrough(e) \/ (e = "Down" /\ AuthDelivery)
    <3>1. pc[e] = "auth" /\ pc'[e] = "post" /\ pkt' = pkt /\ Due(e)' = Due(e)
      BY <2>5 DEF PassThrough, AuthDelivery
    <3>2. pkt[e] \in Hooked(pkt[e])
      BY <3>1, SameBody DEF Holding
    <3> QED BY <3>1, <3>2
  <2>6. CASE e = "Up" /\ (AuthConnect \/ AuthPublish \/ AuthSubscribe)
    <3>1. /\ pc[e] \in {"auth", "connecting"} /\ pc'[e] = "post"
          /\ Due(e)' = Due(e)
          /\ \E b \in Body : pkt'[e] = Rebody(pkt[e], b)
          /\ pc[e] = "auth" => pkt[e].kind \in {"PUBLISH", "SUBSCRIBE"}
      BY <2>6 DEF AuthConnect, AuthPublish, AuthSubscribe, AuthTopic, Take, Direction
    <3>2. pkt[e] # NilPacket
      <4>1. CASE pc[e] = "connecting"
        BY <2>6, <4>1 DEF Packet, Kind, NilPacket
      <4>2. CASE pc[e] = "auth"
        BY <3>1, <4>2 DEF NilPacket
      <4> QED BY <3>1, <4>1, <4>2
    <3> QED BY <3>1, <3>2 DEF Hooked
  <2>7. CASE e = "Up" /\ StoreCredentials
    BY <2>7 DEF StoreCredentials
  <2>8. CASE \/ ReadFails(e) \/ InterceptFails(e) \/ WritePacket(e) \/ WriteFails(e)
             \/ WriteNil(d) \/ Send(e)
             \/ e = "Up" /\ (UpRefused \/ Notify \/ NotifyFails)
             \/ e = "Down" /\ (DeliveryRefused \/ WriteFarewell)
    <3>1. pc'[e] \in {"read", "report", "reportNotify", "notify", "farewell", "done",
                       "crashed"}
      BY <2>8 DEF ReadFails, InterceptFails, WritePacket, WriteFails, WriteNil, Send, UpRefused,
                  Notify, NotifyFails, DeliveryRefused, WriteFarewell
    <3> QED BY <3>1
  <2> QED
    BY <1>4, <2>1, <2>2, <2>3, <2>4, <2>5, <2>6, <2>7, <2>8
       DEF StreamStep, UpStep, DownStep
<1> QED
  BY <1>1, <1>2, <1>3, <1>4, ArrivingPackets
     DEF Next, HandleStep, Dial, AwaitError, Disconnect, CloseOut, CloseIn, PeerStep,
         ClientSends, BrokerSends, HangUp, Stall, Direction, streamVars, vars

LEMMA FarewellStep == TypeInv /\ Control /\ FarewellInv /\ [Next]_vars => FarewellInv'
<1> SUFFICES ASSUME TypeInv, Control, FarewellInv, [Next]_vars PROVE FarewellInv'
  OBVIOUS
<1>0. pc \in [Direction -> StreamPc]
  BY DEF TypeInv, TypeOK
<1> USE <1>0 DEF FarewellInv, handleVars, wireVars, shared, Direction
<1>1. CASE UNCHANGED <<pc, farewell>>
  BY <1>1
<1>2. CASE ClientCert
  BY <1>2 DEF ClientCert, Control
<1>3. ASSUME NEW d \in Direction, StreamStep(d)
      PROVE  FarewellInv'
  <2>1. CASE d = "Down" /\ WriteFarewell
    BY <2>1 DEF WriteFarewell
  <2>2. farewell' = farewell \/ (d = "Down" /\ WriteFarewell)
    BY <1>3
       DEF StreamStep, ReadPacket, ReadFails, PreIntercept, PostIntercept,
           InterceptFails, PassThrough, WritePacket, WriteFails, WriteNil, Send, UpStep,
           StoreCredentials, AuthConnect, AuthPublish, AuthSubscribe, AuthTopic,
           UpRefused, Notify, NotifyFails, DownStep, AuthDelivery, DeliveryRefused
  <2>3. pc["Down"] \in {"report", "done", "crashed"}
          => pc'["Down"] \in {"report", "done", "crashed"}
    BY <1>3
       DEF StreamStep, ReadPacket, ReadFails, PreIntercept, PostIntercept,
           InterceptFails, PassThrough, WritePacket, WriteFails, WriteNil, Send, UpStep,
           StoreCredentials, AuthConnect, AuthPublish, AuthSubscribe, AuthTopic,
           UpRefused, Notify, NotifyFails, DownStep, AuthDelivery, DeliveryRefused,
           WriteFarewell
  <2> QED BY <2>1, <2>2, <2>3
<1> QED
  BY <1>1, <1>2, <1>3
     DEF Next, HandleStep, Dial, AwaitError, Disconnect, CloseOut, CloseIn, PeerStep,
         ClientSends, BrokerSends, Arrives, HangUp, Stall, streamVars, vars

RelayInv == TypeInv /\ ErrsInv /\ FlowInv /\ FarewellInv

LEMMA RelayStep == RelayInv /\ [Next]_vars => RelayInv'
BY TypeStep, ErrsStep, CountsStep, OriginStep, FarewellStep DEF RelayInv, ErrsInv, FlowInv

LEMMA RelayAlways == Spec => []RelayInv
<1>1. Init => RelayInv
  BY TypeInit, ErrsInit, FlowInit DEF RelayInv
<1> QED BY <1>1, RelayStep, PTL DEF Spec

-----------------------------------------------------------------------------
(* Every step is a step of the relay, or none of its business.             *)

(* A packet arrives, the one due is delivered, or neither. *)
LEMMA WireStep ==
  ASSUME RelayInv, [Next]_vars, NEW e \in Direction
  PROVE  \/ sent'[e] = sent[e] /\ delivered'[e] = delivered[e]
         \/ /\ \E p \in Packet : sent'[e] = Append(sent[e], p)
            /\ delivered'[e] = delivered[e]
         \/ /\ sent'[e] = sent[e] /\ pc[e] = "write" /\ farewell' = farewell
            /\ Len(delivered[e]) < Len(sent[e])
            /\ \E q \in Rewritten(e, sent[e][Len(delivered[e]) + 1]) :
                  delivered'[e] = Append(delivered[e], q)
<1>0. /\ pc \in [Direction -> StreamPc] /\ nread \in [Direction -> Nat]
      /\ sent \in [Direction -> Seq(Packet)]
      /\ delivered \in [Direction -> Seq(Packet)]
      /\ Counts(e) /\ Origin(e)
  BY DEF RelayInv, TypeInv, TypeOK, FlowInv
<1> USE <1>0 DEF handleVars, wireVars, shared
<1>1. CASE UNCHANGED <<sent, delivered>>
  BY <1>1
<1>2. ASSUME NEW d \in Direction, NEW p \in Packet, Arrives(d, p)
      PROVE  /\ delivered' = delivered
             /\ sent'[e] = sent[e] \/ sent'[e] = Append(sent[e], p)
  BY <1>2 DEF Arrives
<1>3. ASSUME NEW d \in Direction, WritePacket(d)
      PROVE  /\ sent' = sent /\ farewell' = farewell
             /\ d # e => delivered'[e] = delivered[e]
             /\ d = e => /\ pc[e] = "write" /\ Len(delivered[e]) < Len(sent[e])
                         /\ pkt[e] \in Rewritten(e, sent[e][Len(delivered[e]) + 1])
                         /\ delivered'[e] = Append(delivered[e], pkt[e])
  BY <1>3 DEF WritePacket, Counts, Origin, InFlight, Due
<1>4. \/ UNCHANGED <<sent, delivered>>
      \/ \E d \in Direction, p \in Packet : Arrives(d, p)
      \/ \E d \in Direction : WritePacket(d)
  <2>1. PeerStep => \/ UNCHANGED <<sent, delivered>>
                    \/ \E d \in Direction, p \in Packet : Arrives(d, p)
    BY ArrivingPackets
       DEF PeerStep, ClientSends, BrokerSends, HangUp, Stall, Direction
  <2>2. HandleStep => UNCHANGED <<sent, delivered>>
    BY DEF HandleStep, Dial, ClientCert, AwaitError, Disconnect, CloseOut, CloseIn
  <2>3. ASSUME NEW d \in Direction, StreamStep(d)
        PROVE  UNCHANGED <<sent, delivered>> \/ WritePacket(d)
    BY <2>3
       DEF StreamStep, ReadPacket, ReadFails, PreIntercept, PostIntercept,
           InterceptFails, PassThrough, WriteFails, WriteNil, Send, UpStep, StoreCredentials,
           AuthConnect, AuthPublish, AuthSubscribe, AuthTopic, UpRefused, Notify,
           NotifyFails, DownStep, AuthDelivery, DeliveryRefused, WriteFarewell
  <2> QED BY <2>1, <2>2, <2>3 DEF Next, vars
<1> HIDE <1>0 DEF handleVars, wireVars, shared
<1>5. CASE UNCHANGED <<sent, delivered>>
  BY <1>1, <1>5
<1>6. CASE \E d \in Direction, p \in Packet : Arrives(d, p)
  BY <1>2, <1>6
<1>7. CASE \E d \in Direction : WritePacket(d)
  BY <1>3, <1>7
<1> QED BY <1>4, <1>5, <1>6, <1>7

(* The farewell is added once, while a packet waits to be delivered.       *)
LEMMA FarewellOnce ==
  ASSUME RelayInv, [Next]_vars
  PROVE  \/ farewell' = farewell
         \/ /\ ~farewell /\ farewell' = TRUE
            /\ sent' = sent /\ delivered' = delivered
            /\ Len(delivered["Down"]) < Len(sent["Down"])
<1>1. ASSUME WriteFarewell
      PROVE  \/ farewell' = farewell
             \/ /\ ~farewell /\ farewell' = TRUE
                /\ sent' = sent /\ delivered' = delivered
                /\ pc["Down"] = "farewell"
  BY <1>1 DEF WriteFarewell, RelayInv, FarewellInv
<1>2. pc["Down"] = "farewell" => Len(delivered["Down"]) < Len(sent["Down"])
  <2>1. /\ Counts("Down") /\ nread["Down"] \in Nat
        /\ Len(sent["Down"]) \in Nat /\ Len(delivered["Down"]) \in Nat
    BY DEF RelayInv, FlowInv, TypeInv, TypeOK, Direction
  <2> QED BY <2>1 DEF Counts, InFlight
<1>3. farewell' = farewell \/ WriteFarewell
  BY DEF Next, HandleStep, Dial, ClientCert, AwaitError, Disconnect, CloseOut, CloseIn,
         PeerStep, ClientSends, BrokerSends, Arrives, HangUp, Stall, vars,
         StreamStep, ReadPacket, ReadFails, PreIntercept, PostIntercept,
         InterceptFails, PassThrough, WritePacket, WriteFails, WriteNil, Send, UpStep,
         StoreCredentials, AuthConnect, AuthPublish, AuthSubscribe, AuthTopic,
         UpRefused, Notify, NotifyFails, DownStep, AuthDelivery, DeliveryRefused,
         handleVars, wireVars, shared
<1> QED BY <1>1, <1>2, <1>3

(* Towards the broker: the session relays in order and without a gap, each *)
(* packet rewritten by nothing but the interceptors and the hooks.         *)
THEOREM UpRefines == Spec => UpIsRelay
<1>1. Init => UpRelay!Init
  BY DEF Init, UpRelay!Init, Direction
<1>2. RelayInv /\ [Next]_vars => [UpRelay!Next]_(UpRelay!relayVars)
  <2> SUFFICES ASSUME RelayInv, [Next]_vars
               PROVE  [UpRelay!Next]_(UpRelay!relayVars)
    OBVIOUS
  <2>1. sent["Up"] \in Seq(Packet) /\ delivered["Up"] \in Seq(Packet)
    BY DEF RelayInv, TypeInv, TypeOK, Direction
  <2>2. \A i \in 1..Len(sent["Up"]) :
           Rewritings("Up")[sent["Up"][i]] = Rewritten("Up", sent["Up"][i])
    BY <2>1 DEF Rewritings
  <2>3. \/ sent'["Up"] = sent["Up"] /\ delivered'["Up"] = delivered["Up"]
        \/ /\ \E p \in Packet : sent'["Up"] = Append(sent["Up"], p)
           /\ delivered'["Up"] = delivered["Up"]
        \/ /\ sent'["Up"] = sent["Up"]
           /\ Len(delivered["Up"]) < Len(sent["Up"])
           /\ \E q \in Rewritten("Up", sent["Up"][Len(delivered["Up"]) + 1]) :
                 delivered'["Up"] = Append(delivered["Up"], q)
    BY WireStep DEF Direction
  <2> QED
    BY <2>1, <2>2, <2>3
       DEF UpRelay!Next, UpRelay!relayVars, UpRelay!Submit, UpRelay!Forward
<1> QED BY <1>1, <1>2, RelayAlways, PTL DEF Spec, UpIsRelay, UpRelay!Spec

(* Towards the client: the same, and a refused PUBLISH ends the relay with *)
(* a DISCONNECT after which nothing follows.                               *)
THEOREM DownRefines == Spec => DownIsRelay
<1>1. Init => DownRelay!Init
  BY DEF Init, DownRelay!Init, Direction
<1>2. RelayInv /\ [Next]_vars => [DownRelay!Next]_(DownRelay!relayVars)
  <2> SUFFICES ASSUME RelayInv, [Next]_vars
               PROVE  [DownRelay!Next]_(DownRelay!relayVars)
    OBVIOUS
  <2>1. sent["Down"] \in Seq(Packet) /\ delivered["Down"] \in Seq(Packet)
    BY DEF RelayInv, TypeInv, TypeOK, Direction
  <2>2. \A i \in 1..Len(sent["Down"]) :
           Rewritings("Down")[sent["Down"][i]] = Rewritten("Down", sent["Down"][i])
    BY <2>1 DEF Rewritings
  <2>3. pc["Down"] = "write" => ~farewell
    BY DEF RelayInv, FarewellInv
  <2>4. CASE farewell' = farewell
    <3>1. \/ sent'["Down"] = sent["Down"] /\ delivered'["Down"] = delivered["Down"]
          \/ /\ \E p \in Packet : sent'["Down"] = Append(sent["Down"], p)
             /\ delivered'["Down"] = delivered["Down"]
          \/ /\ sent'["Down"] = sent["Down"] /\ ~farewell
             /\ Len(delivered["Down"]) < Len(sent["Down"])
             /\ \E q \in Rewritten("Down", sent["Down"][Len(delivered["Down"]) + 1]) :
                   delivered'["Down"] = Append(delivered["Down"], q)
      BY <2>3, WireStep DEF Direction
    <3>2. Len(delivered["Down"]) < Len(sent["Down"])
            => Rewritings("Down")[sent["Down"][Len(delivered["Down"]) + 1]]
                 = Rewritten("Down", sent["Down"][Len(delivered["Down"]) + 1])
      BY <2>1, <2>2
    <3> QED
      BY <2>4, <3>1, <3>2
         DEF DownRelay!Next, DownRelay!relayVars, DownRelay!Submit, DownRelay!Forward
  <2>5. CASE farewell' # farewell
    BY <2>5, FarewellOnce
       DEF DownRelay!Next, DownRelay!relayVars, DownRelay!Refuse
  <2> QED BY <2>4, <2>5
<1> QED BY <1>1, <1>2, RelayAlways, PTL DEF Spec, DownIsRelay, DownRelay!Spec

-----------------------------------------------------------------------------
(* The Session that both goroutines share.                                 *)

(* The packets delivered are those sent, one by one.                       *)
InOrder(d) ==
  /\ Len(delivered[d]) <= Len(sent[d])
  /\ \A i \in 1..Len(delivered[d]) : delivered[d][i] \in Rewritten(d, sent[d][i])

InOrderInv == \A d \in Direction : InOrder(d)

(* The Session shows what AuthConnect did not accept only from the moment  *)
(* Up stored the credentials of a CONNECT until it leaves its loop.        *)
Ends == {"report", "done", "crashed"}
Accord ==
  session # accepted => pkt["Up"].kind = "CONNECT" /\ pc["Up"] \in {"connecting"} \cup Ends

LEMMA InOrderStep ==
  ASSUME RelayInv, InOrderInv, [Next]_vars
  PROVE  InOrderInv'
<1> SUFFICES ASSUME NEW e \in Direction PROVE InOrder(e)'
  BY DEF InOrderInv
<1>0. /\ sent[e] \in Seq(Packet) /\ delivered[e] \in Seq(Packet)
      /\ Len(delivered[e]) <= Len(sent[e])
      /\ \A i \in 1..Len(delivered[e]) : delivered[e][i] \in Rewritten(e, sent[e][i])
  BY DEF RelayInv, TypeInv, TypeOK, InOrderInv, InOrder
<1>1. CASE sent'[e] = sent[e] /\ delivered'[e] = delivered[e]
  BY <1>0, <1>1 DEF InOrder
<1>2. ASSUME NEW p \in Packet, sent'[e] = Append(sent[e], p), delivered'[e] = delivered[e]
      PROVE  InOrder(e)'
  BY <1>0, <1>2 DEF InOrder
<1>3. ASSUME sent'[e] = sent[e], Len(delivered[e]) < Len(sent[e]),
             NEW q \in Rewritten(e, sent[e][Len(delivered[e]) + 1]),
             delivered'[e] = Append(delivered[e], q)
      PROVE  InOrder(e)'
  <2>1. /\ Len(delivered'[e]) = Len(delivered[e]) + 1
        /\ delivered'[e][Len(delivered[e]) + 1] = q
        /\ \A i \in 1..Len(delivered[e]) : delivered'[e][i] = delivered[e][i]
    BY <1>0, <1>3
  <2> QED BY <1>0, <1>3, <2>1 DEF InOrder
<1> QED BY <1>1, <1>2, <1>3, WireStep

LEMMA AccordStep ==
  ASSUME TypeInv, Control, Accord, [Next]_vars
  PROVE  Accord'
<1>0. pc \in [Direction -> StreamPc] /\ pkt \in [Direction -> MaybePacket \cup {NoPacket}]
  BY DEF TypeInv, TypeOK
<1> USE <1>0 DEF Ends
<1>1. CASE StoreCredentials
  BY <1>1 DEF StoreCredentials, Accord, Direction
<1>2. CASE AuthConnect
  BY <1>2 DEF AuthConnect, Accord
<1>3. ASSUME UNCHANGED <<session, accepted>>,
             pc["Up"] \in {"connecting"} \cup Ends =>
                pc'["Up"] \in {"connecting"} \cup Ends /\ pkt'["Up"] = pkt["Up"]
      PROVE  Accord'
  BY <1>3 DEF Accord
<1>4. CASE HandleStep \/ PeerStep \/ UNCHANGED vars
  <2>1. /\ UNCHANGED <<session, accepted, pkt>>
        /\ pc' = pc \/ ClientCert
    BY <1>4 DEF HandleStep, Dial, ClientCert, AwaitError, Disconnect, CloseOut, CloseIn,
                PeerStep, ClientSends, BrokerSends, Arrives, HangUp, Stall, vars,
                sessionVars, streamVars
  <2>2. ClientCert => pc["Up"] = "idle"
    BY DEF ClientCert, Control
  <2> QED BY <1>3, <2>1, <2>2
<1>5. ASSUME NEW d \in Direction, StreamStep(d), ~StoreCredentials, ~AuthConnect
      PROVE  Accord'
  <2>1. UNCHANGED <<session, accepted>>
    BY <1>5 DEF StreamStep, ReadPacket, ReadFails, PreIntercept, PostIntercept,
         InterceptFails, PassThrough, WritePacket, WriteFails, WriteNil, Send, UpStep,
         AuthPublish, AuthSubscribe, AuthTopic,
         UpRefused, Notify, NotifyFails, DownStep, AuthDelivery, DeliveryRefused,
         WriteFarewell, shared, sessionVars
  <2>2. CASE d = "Down"
    <3>1. pkt'["Up"] = pkt["Up"] /\ (pc'["Up"] = pc["Up"] \/ pc'["Up"] = "crashed")
      BY <1>5, <2>2 DEF StreamStep, ReadPacket, ReadFails, PreIntercept, PostIntercept,
         InterceptFails, PassThrough, WritePacket, WriteFails, WriteNil, Send,
         DownStep, AuthDelivery, DeliveryRefused, WriteFarewell, Direction, Take, shared
    <3> QED BY <1>3, <2>1, <3>1
  <2>3. CASE d = "Up"
    <3>1. pc["Up"] \in {"connecting"} \cup Ends =>
             pc'["Up"] \in {"connecting"} \cup Ends /\ pkt'["Up"] = pkt["Up"]
      BY <1>5, <2>3 DEF StreamStep, ReadPacket, ReadFails, PreIntercept, PostIntercept,
         InterceptFails, PassThrough, WritePacket, WriteFails, WriteNil, Send, UpStep,
         AuthPublish, AuthSubscribe, AuthTopic, UpRefused, Notify, NotifyFails, Direction
    <3> QED BY <1>3, <2>1, <3>1
  <2> QED BY <2>2, <2>3 DEF Direction
<1> QED BY <1>1, <1>2, <1>4, <1>5 DEF Next

(* The hook call of a step that vets a packet saw the identity the step    *)
(* leaves as the accepted one, or the Session as it was when it differed.  *)
LEMMA VetsAs ==
  ASSUME TypeInv, [Next]_vars, NEW d \in Direction, vetted'[d] # vetted[d]
  PROVE  \/ vetted'[d][Len(vetted'[d])].as = accepted'
         \/ /\ vetted'[d][Len(vetted'[d])].as = session /\ accepted' = accepted
            /\ pc[d] = "auth"
<1>0. /\ vetted \in [Direction -> Seq(Vetted)] /\ session \in Identities
      /\ \A e \in Direction : pc[e] \in Holding => pkt[e] \in MaybePacket
      /\ \A e \in Direction : vetted[e] \in Seq(Vetted)
      /\ pc["Up"] = "connecting" => pkt["Up"] \in Packet
  BY DEF TypeInv, TypeOK
<1>1. ASSUME NEW e \in Direction, NEW p \in MaybePacket, NEW hook \in Hook,
             NEW id \in Identities, Vet(e, p, hook, id)
      PROVE  e = d /\ vetted'[d][Len(vetted'[d])].as = id
  <2> DEFINE v == [packet |-> p, hook |-> hook, as |-> id]
  <2>1. v \in Vetted /\ v.as = id
    BY VettedType
  <2>2. vetted' = [vetted EXCEPT ![e] = Append(vetted[e], v)]
    BY <1>1 DEF Vet
  <2> HIDE DEF v
  <2>3. e = d
    BY <1>0, <2>2
  <2>4. vetted'[d] = Append(vetted[d], v)
    BY <1>0, <2>2, <2>3
  <2>5. Len(vetted'[d]) = Len(vetted[d]) + 1 /\ vetted'[d][Len(vetted[d]) + 1] = v
    BY <1>0, <2>1, <2>4
  <2> QED BY <2>1, <2>3, <2>5
<1>2. ASSUME NEW e \in Direction, NEW p \in MaybePacket, NEW hook \in Hook,
             Vet(e, p, hook, session), pc[e] = "auth", accepted' = accepted
      PROVE  /\ vetted'[d][Len(vetted'[d])].as = session /\ accepted' = accepted
             /\ pc[d] = "auth"
  BY <1>0, <1>1, <1>2
<1>3. CASE \E e \in Direction : PassThrough(e)
  <2>1. PICK e \in Direction : PassThrough(e)
    BY <1>3
  <2>2. pc[e] = "auth" /\ Vet(e, pkt[e], "none", session) /\ accepted' = accepted
    BY <2>1 DEF PassThrough, shared, sessionVars
  <2>3. pkt[e] \in MaybePacket
    BY <1>0, <2>2 DEF Holding
  <2> QED BY <1>2, <2>2, <2>3 DEF Hook
<1>4. CASE AuthConnect
  <2>1. PICK b \in Body : /\ accepted' = Identity(b)
                          /\ Vet("Up", Rebody(pkt["Up"], b), "AuthConnect", Identity(b))
    BY <1>4 DEF AuthConnect
  <2>2. Rebody(pkt["Up"], b) \in MaybePacket
    BY <1>0, <1>4, RebodyType DEF AuthConnect, MaybePacket
  <2> QED BY <1>1, <2>1, <2>2, IdentityType DEF Hook, Direction
<1>5. ASSUME NEW kind \in Kind, NEW hook \in Hook, AuthTopic(kind, hook)
      PROVE  /\ vetted'[d][Len(vetted'[d])].as = session /\ accepted' = accepted
             /\ pc[d] = "auth"
  <2>1. PICK b \in Body : Vet("Up", Rebody(pkt["Up"], b), hook, session)
    BY <1>5 DEF AuthTopic
  <2>2. pc["Up"] = "auth" /\ accepted' = accepted /\ pkt["Up"].kind \in Kind
    BY <1>5 DEF AuthTopic, shared, sessionVars
  <2>3. Rebody(pkt["Up"], b) \in MaybePacket
    BY <1>0, <2>2, NotNil, RebodyType DEF Holding, Direction, MaybePacket
  <2> QED BY <1>2, <2>1, <2>2, <2>3 DEF Direction
<1>6. CASE AuthDelivery
  <2>1. PICK b \in Body : Vet("Down", Rebody(pkt["Down"], b), "AuthSubscribe", session)
    BY <1>6 DEF AuthDelivery
  <2>2. pc["Down"] = "auth" /\ accepted' = accepted /\ pkt["Down"].kind \in Kind
    BY <1>6 DEF AuthDelivery, shared, sessionVars, Kind
  <2>3. Rebody(pkt["Down"], b) \in MaybePacket
    BY <1>0, <2>2, NotNil, RebodyType DEF Holding, Direction, MaybePacket
  <2> QED BY <1>2, <2>1, <2>2, <2>3 DEF Direction, Hook
<1>7. CASE AuthPublish \/ AuthSubscribe
  BY <1>5, <1>7 DEF AuthPublish, AuthSubscribe, Hook, Kind
<1>8. \/ vetted' = vetted \/ AuthConnect \/ AuthPublish \/ AuthSubscribe \/ AuthDelivery
      \/ \E e \in Direction : PassThrough(e)
  BY DEF Next, HandleStep, Dial, ClientCert, AwaitError, Disconnect, CloseOut, CloseIn,
         PeerStep, ClientSends, BrokerSends, Arrives, HangUp, Stall, vars, streamVars,
         StreamStep, ReadPacket, ReadFails, PreIntercept, PostIntercept,
         InterceptFails, WritePacket, WriteFails, WriteNil, Send, UpStep, StoreCredentials,
         UpRefused, Notify, NotifyFails, DownStep, DeliveryRefused, WriteFarewell
<1> QED BY <1>3, <1>4, <1>6, <1>7, <1>8

LEMMA AcceptedUnless ==
  ASSUME TypeInv, Control, Accord, [Next]_vars, NEW d \in Direction,
         vetted'[d] # vetted[d], vetted'[d][Len(vetted'[d])].as # accepted'
  PROVE  /\ d = "Down"
         /\ pkt["Up"].kind = "CONNECT"
         /\ pc["Up"] \in {"connecting", "report", "done"}
<1>1. session # accepted /\ pc[d] = "auth"
  BY VetsAs
<1>2. pkt["Up"].kind = "CONNECT" /\ pc["Up"] \in {"connecting"} \cup Ends
  BY <1>1 DEF Accord
<1>3. d = "Down"
  BY <1>1, <1>2 DEF Ends, Direction
<1>4. pc["Up"] # "crashed"
  BY <1>1, <1>3 DEF Control, Direction
<1> QED BY <1>2, <1>3, <1>4 DEF Ends

(* Whatever the client, the broker, the hooks and the interceptors do, the *)
(* unlocked writes of authorize to the shared Session are seen before      *)
(* AuthConnect accepted them by hooks of Down alone, and only from the     *)
(* time Up stored the credentials of a CONNECT to its verdict, or to the   *)
(* end if it refuses them.                                                 *)
THEOREM Identifying == Spec => AcceptedUnlessConnecting
<1>1. Init => TypeInv /\ ErrsInv /\ Accord
  BY TypeInit, ErrsInit DEF Init, Accord
<1>2. TypeInv /\ ErrsInv /\ Accord /\ [Next]_vars => (TypeInv /\ ErrsInv /\ Accord)'
  BY TypeStep, ErrsStep, AccordStep DEF ErrsInv
<1>3. TypeInv /\ ErrsInv /\ Accord /\ [Next]_vars
        => [\A d \in Direction :
              /\ vetted'[d] # vetted[d]
              /\ vetted'[d][Len(vetted'[d])].as # accepted'
              => /\ d = "Down"
                 /\ pkt["Up"].kind = "CONNECT"
                 /\ pc["Up"] \in {"connecting", "report", "done"}]_vars
  BY AcceptedUnless DEF ErrsInv
<1> QED BY <1>1, <1>2, <1>3, PTL DEF Spec, AcceptedUnlessConnecting

-----------------------------------------------------------------------------
(* The order of packets, the errors reported, and the end of a session.    *)

(* The packet a peer gets n-th is the one the other sent n-th, rewritten   *)
(* by the interceptors and the hooks alone: nothing that stream, authorize *)
(* or notify does between two packets loses or repeats one.                *)
THEOREM DeliveredInOrder == Spec => []InOrderInv
<1>1. Init => InOrderInv
  BY DEF Init, InOrderInv, InOrder, Direction
<1>2. RelayInv /\ InOrderInv /\ [Next]_vars => InOrderInv'
  BY InOrderStep
<1> QED BY <1>1, <1>2, RelayAlways, PTL DEF Spec

LEMMA NoNotifyErrors ==
  ASSUME ~NotifyMayFail, notifyErrs = 0, [Next]_vars
  PROVE  notifyErrs' = 0
BY DEF Next, HandleStep, Dial, ClientCert, AwaitError, Disconnect, CloseOut, CloseIn,
       PeerStep, ClientSends, BrokerSends, Arrives, HangUp, Stall, vars,
       StreamStep, ReadPacket, ReadFails, PreIntercept, PostIntercept,
       InterceptFails, PassThrough, WritePacket, WriteFails, WriteNil, Send, UpStep,
       StoreCredentials, AuthConnect, AuthPublish, AuthSubscribe, AuthTopic,
       UpRefused, Notify, NotifyFails, DownStep, AuthDelivery, DeliveryRefused,
       WriteFarewell, shared, notifyVars

(* Where the notification hooks do not fail, the comment on the errs       *)
(* channel is right: being buffered, it blocks neither goroutine, even     *)
(* with room for a single error.                                           *)
THEOREM NeverBlocking == ~NotifyMayFail => (Spec => []ErrsNeverBlock)
<1> SUFFICES ASSUME ~NotifyMayFail PROVE Spec => []ErrsNeverBlock
  OBVIOUS
<1>1. Init => notifyErrs = 0
  BY DEF Init
<1>2. notifyErrs = 0 /\ [Next]_vars => (notifyErrs = 0)'
  BY NoNotifyErrors
<1>3. notifyErrs = 0 /\ BlockedOnlyByNotifyErrors => ErrsNeverBlock
  BY StreamAssumption DEF BlockedOnlyByNotifyErrors, ErrsNeverBlock, StreamAssumption
<1> QED BY <1>1, <1>2, <1>3, ErrsBlock, PTL DEF Spec

(* Where handle has a socket open, and whether it has called Disconnect.   *)
Sockets ==
  /\ open["out"] <=> main \in {"cert", "stream", "disconnect", "closeOut"}
  /\ open["in"] <=> main \notin {"done", "crashed"}
  /\ main # "crashed" =>
        disconnects = IF main \in {"closeOut", "closeIn", "done"} /\ Started THEN 1 ELSE 0

LEMMA SocketsStep ==
  ASSUME TypeInv, Control, Sockets, [Next]_vars
  PROVE  Sockets'
<1>0. /\ pc \in [Direction -> StreamPc] /\ main \in MainPc /\ disconnects \in Nat
      /\ open \in [Side -> BOOLEAN]
  BY DEF TypeInv, TypeOK
<1>1. CASE HandleStep
  <2>1. CASE Dial
    BY <1>0, <2>1 DEF Dial, Sockets, Control, Started, Side, streamVars
  <2>2. CASE ClientCert
    BY <1>0, <2>2 DEF ClientCert, Sockets, Control, Started, Direction, socketVars
  <2>3. CASE AwaitError
    BY <1>0, <2>3 DEF AwaitError, Sockets, Started, socketVars, streamVars
  <2>4. CASE Disconnect
    BY <1>0, <2>4 DEF Disconnect, Sockets, Control, Started, socketVars, streamVars
  <2>5. CASE CloseOut
    BY <1>0, <2>5 DEF CloseOut, Sockets, Started, Side, streamVars
  <2>6. CASE CloseIn
    BY <1>0, <2>6 DEF CloseIn, Sockets, Started, Side, streamVars
  <2> QED BY <1>1, <2>1, <2>2, <2>3, <2>4, <2>5, <2>6 DEF HandleStep
<1>2. ASSUME UNCHANGED <<main, disconnects, open>>, pc'["Up"] = "idle" <=> pc["Up"] = "idle"
      PROVE  Sockets'
  BY <1>2 DEF Sockets, Started
<1>3. CASE PeerStep \/ UNCHANGED vars
  BY <1>2, <1>3 DEF PeerStep, ClientSends, BrokerSends, Arrives, HangUp, Stall, vars,
                    handleVars, socketVars, streamVars
<1>5. ASSUME NEW d \in Direction, WriteNil(d)
      PROVE  Sockets'
  BY <1>5 DEF WriteNil, Sockets, Side
<1>4. ASSUME NEW d \in Direction, StreamStep(d), ~WriteNil(d)
      PROVE  Sockets'
  <2>1. UNCHANGED <<main, disconnects, open>>
    BY <1>4 DEF StreamStep, ReadPacket, ReadFails, PreIntercept, PostIntercept,
         InterceptFails, PassThrough, WritePacket, WriteFails, WriteNil, Send, UpStep,
         StoreCredentials, AuthConnect, AuthPublish, AuthSubscribe, AuthTopic,
         UpRefused, Notify, NotifyFails, DownStep, AuthDelivery, DeliveryRefused,
         WriteFarewell, shared, handleVars, socketVars
  <2>2. \E from, to \in StreamPc \ {"idle"} : Goto(d, from, to)
    BY <1>4 DEF StreamStep, ReadPacket, ReadFails, PreIntercept, PostIntercept,
         InterceptFails, PassThrough, WritePacket, WriteFails, WriteNil, Send, UpStep,
         StoreCredentials, AuthConnect, AuthPublish, AuthSubscribe, AuthTopic,
         UpRefused, Notify, NotifyFails, DownStep, AuthDelivery, DeliveryRefused,
         WriteFarewell, StreamPc
  <2>3. pc'["Up"] = "idle" <=> pc["Up"] = "idle"
    BY <1>0, <2>2 DEF Direction
  <2> QED BY <1>2, <2>1, <2>3
<1> QED BY <1>1, <1>3, <1>4, <1>5 DEF Next

(* When handle has returned, both sockets are closed, and Disconnect was   *)
(* called, and called once, if and only if Stream had been started.        *)
ReturnedClean ==
  main = "done" =>
     /\ \A s \in Side : ~open[s]
     /\ disconnects = IF Started THEN 1 ELSE 0

(* What stays of a session that has returned relays nothing: the goroutine *)
(* that outlives it may yet call hooks, it writes to neither peer.         *)
Silence == [][main = "done" => UNCHANGED <<sent, nread, delivered, farewell>>]_vars

LEMMA SocketsAlways == Spec => [](TypeInv /\ ErrsInv /\ Sockets)
<1>1. Init => TypeInv /\ ErrsInv /\ Sockets
  <2>1. Init => Sockets
    BY DEF Init, Sockets, Started, Direction, Side
  <2> QED BY <2>1, TypeInit, ErrsInit
<1>2. TypeInv /\ ErrsInv /\ Sockets /\ [Next]_vars => (TypeInv /\ ErrsInv /\ Sockets)'
  BY TypeStep, ErrsStep, SocketsStep DEF ErrsInv
<1> QED BY <1>1, <1>2, PTL DEF Spec

(* However a session ends, a failed dial or certificate included, handle   *)
(* returns with both sockets closed and Disconnect called once if at all.  *)
THEOREM Return == Spec => []ReturnedClean
<1>1. Sockets => ReturnedClean
  BY DEF Sockets, ReturnedClean, Side
<1> QED BY <1>1, SocketsAlways, PTL

(* Nothing is read from a peer, or written to one, once handle returned.   *)
THEOREM SilentAfterReturn == Spec => Silence
<1>1. TypeInv /\ ErrsInv /\ Sockets /\ [Next]_vars
        => [main = "done" => UNCHANGED <<sent, nread, delivered, farewell>>]_vars
  <2> SUFFICES ASSUME TypeInv, Sockets, [Next]_vars, main = "done"
               PROVE  UNCHANGED <<sent, nread, delivered, farewell>>
    OBVIOUS
  <2>1. \A d \in Direction : ~open[Source(d)] /\ ~open[Dest(d)]
    BY DEF Sockets, Source, Dest, Direction
  <2>2. ~open["in"]
    BY DEF Sockets
  <2> QED
    BY <2>1, <2>2
       DEF Next, HandleStep, Dial, ClientCert, AwaitError, Disconnect, CloseOut, CloseIn,
           PeerStep, ClientSends, BrokerSends, Arrives, HangUp, Stall, vars, Direction,
           StreamStep, ReadPacket, ReadFails, PreIntercept, PostIntercept,
           InterceptFails, PassThrough, WritePacket, Writable, WriteFails, WriteNil, Send, UpStep,
           StoreCredentials, AuthConnect, AuthPublish, AuthSubscribe, AuthTopic,
           UpRefused, Notify, NotifyFails, DownStep, AuthDelivery, DeliveryRefused,
           WriteFarewell, shared, wireVars, streamVars
<1> QED BY <1>1, SocketsAlways, PTL DEF Spec, Silence

(* How many steps at most a goroutine is from its end once nothing can be  *)
(* read or written any more.                                               *)
Distance(d) ==
  LET at == pc[d]
  IN  CASE at = "notify" -> 9
        [] at = "reportNotify" -> 8
        [] at = "pre" -> 7
        [] at = "auth" -> 6
        [] at = "connecting" -> 5
        [] at = "post" -> 4
        [] at \in {"write", "farewell"} -> 3
        [] at = "read" -> 2
        [] at = "report" -> 1
        [] at \in {"idle", "done", "crashed"} -> 0

(* Every step of a goroutine that handle left behind brings it nearer to   *)
(* its end: it never goes round its loop again.                            *)
WindsDown ==
  [][\A d \in Direction : main = "done" /\ StreamStep(d) => Distance(d)' < Distance(d)]_vars

LEMMA Nearer ==
  ASSUME TypeInv, Sockets, main = "done", NEW d \in Direction, StreamStep(d)
  PROVE  Distance(d)' < Distance(d)
<1>0. pc \in [Direction -> StreamPc] /\ ~open[Source(d)] /\ ~open[Dest(d)]
  BY DEF TypeInv, TypeOK, Sockets, Source, Dest, Direction
<1>1. CASE PreIntercept(d) \/ PostIntercept(d) \/ InterceptFails(d)
  BY <1>0, <1>1 DEF PreIntercept, PostIntercept, InterceptFails, Distance
<1>2. CASE PassThrough(d)
  BY <1>0, <1>2 DEF PassThrough, Distance
<1>3. CASE ReadFails(d) \/ WriteFails(d) \/ WriteNil(d)
  BY <1>0, <1>3 DEF ReadFails, WriteFails, WriteNil, Distance
<1>4. CASE Send(d)
  BY <1>0, <1>4 DEF Send, Distance
<1>5. CASE d = "Up" /\ UpStep
  <2>1. CASE StoreCredentials \/ AuthConnect \/ UpRefused
    BY <1>0, <1>5, <2>1 DEF StoreCredentials, AuthConnect, UpRefused, Distance
  <2>2. CASE AuthPublish \/ AuthSubscribe
    BY <1>0, <1>5, <2>2 DEF AuthPublish, AuthSubscribe, AuthTopic, Distance
  <2>3. CASE Notify \/ NotifyFails
    BY <1>0, <1>5, <2>3 DEF Notify, NotifyFails, Distance
  <2> QED BY <1>5, <2>1, <2>2, <2>3 DEF UpStep
<1>6. CASE d = "Down" /\ DownStep
  BY <1>0, <1>6 DEF DownStep, AuthDelivery, DeliveryRefused, WriteFarewell, Distance
<1>7. ~ReadPacket(d) /\ ~WritePacket(d)
  BY <1>0 DEF ReadPacket, WritePacket, Writable
<1> QED BY <1>1, <1>2, <1>3, <1>4, <1>5, <1>6, <1>7 DEF StreamStep

(* The safety half of NoGoroutineLeft, for any peers and hooks: after at   *)
(* most nine steps a goroutine that survived handle ends, if it is let.    *)
THEOREM WindingDown == Spec => WindsDown
<1>1. TypeInv /\ ErrsInv /\ Sockets /\ [Next]_vars
        => [\A d \in Direction : main = "done" /\ StreamStep(d) => Distance(d)' < Distance(d)]_vars
  BY Nearer
<1> QED BY <1>1, SocketsAlways, PTL DEF Spec, WindsDown
=============================================================================
