------------------------- MODULE CoapMessageProofs --------------------------
(***************************************************************************)
(* What handleCoAPMessage returns, for every kind of message: the lemmas   *)
(* that the proofs about both sides of the CoAP proxy rest on.             *)
(***************************************************************************)
EXTENDS CoapMessage, TLAPS

(* The plans are sequences of hooks. *)
LEMMA HookPlanType ==
  ASSUME NEW kind PROVE HookPlan(kind) \in Seq(CoapHook)
<1> USE DEF HookPlan, CoapHook
<1>1. CASE kind = "POST"
  BY <1>1
<1>2. CASE kind = "OBSERVE"
  BY <1>2
<1>3. CASE kind = "GET"
  BY <1>3
<1>4. CASE kind \notin {"POST", "OBSERVE", "GET"}
  BY <1>4
<1> QED BY <1>1, <1>2, <1>3, <1>4

LEMMA HandlingsType ==
  ASSUME NEW kind, NEW h \in Handlings(kind) PROVE h \in Handling
<1>1. HookPlan(kind) \in Seq(CoapHook)
  BY HookPlanType
<1>2. \A n \in 0..Len(HookPlan(kind)) : SubSeq(HookPlan(kind), 1, n) \in Seq(CoapHook)
  BY <1>1
<1>3. << >> \in Seq(CoapHook)
  OBVIOUS
<1>4. \A called \in Seq(CoapHook), ok \in BOOLEAN :
        [called |-> called, ok |-> ok] \in Handling
  BY DEF Handling
<1>5. \E called \in Seq(CoapHook), ok \in BOOLEAN : h = [called |-> called, ok |-> ok]
  BY <1>1, <1>2, <1>3, Zenon DEF Handlings
<1> QED BY <1>4, <1>5

Approved(h, kind) ==
  /\ kind # "MALFORMED" /\ h.ok
  /\ \A r \in Required(kind) : \E i \in 1..Len(h.called) : h.called[i] = r

LEMMA PlanCoversRequired ==
  ASSUME NEW kind, NEW r \in Required(kind)
  PROVE  \E i \in 1..Len(HookPlan(kind)) : HookPlan(kind)[i] = r
<1>1. CASE kind = "POST"
  <2>1. HookPlan(kind)[1] = "AuthConnect" /\ HookPlan(kind)[2] = "AuthPublish"
        /\ Len(HookPlan(kind)) = 3
    BY <1>1 DEF HookPlan
  <2> QED BY <1>1, <2>1 DEF Required
<1>2. CASE kind = "OBSERVE"
  <2>1. HookPlan(kind)[1] = "AuthConnect" /\ HookPlan(kind)[2] = "AuthSubscribe"
        /\ Len(HookPlan(kind)) = 3
    BY <1>2 DEF HookPlan
  <2> QED BY <1>2, <2>1 DEF Required
<1>3. CASE kind = "GET"
  <2>1. HookPlan(kind)[1] = "AuthConnect" /\ Len(HookPlan(kind)) = 1
    BY <1>3 DEF HookPlan
  <2> QED BY <1>3, <2>1 DEF Required
<1>4. CASE kind \notin {"POST", "OBSERVE", "GET"}
  BY <1>4 DEF Required
<1> QED BY <1>1, <1>2, <1>3, <1>4

LEMMA HandlingApproves ==
  ASSUME NEW kind, NEW h \in Handlings(kind), h.ok PROVE Approved(h, kind)
<1>1. kind # "MALFORMED" /\ h.called = HookPlan(kind)
  BY DEF Handlings, HookPlan
<1> QED BY <1>1, PlanCoversRequired DEF Approved
=============================================================================
