-------------------------- MODULE CertVerifyProofs --------------------------
(***************************************************************************)
(* Theorems about the certificate verification, for any certificates,      *)
(* configurations and presented chains: what it accepts was cleared in a   *)
(* full handshake, and it refuses nobody without a reason.                 *)
(***************************************************************************)
EXTENDS CertVerify, TLAPS

Checking == {"CRL", "OCSP"}
Validating == {"method"} \cup Checking

KnownInv ==
  pc \notin {"start", "failed"} =>
     \A n \in DOMAIN config.methods : Method(n) # "unknown"

(* The certificate under examination is one the method has to look at.     *)
PosInv ==
  /\ pc \in Checking => Examined(m, k, i) /\ Method(m) = pc
  /\ m >= 1
  /\ pc \in {"start", "load", "serve"} => m = 1

(* Lists only grow, and the offline list was read after the start.         *)
ListInv ==
  /\ \A s \in Source : fresh[s] \subseteq listed[s]
  /\ pc \in Validating \cup Verdict => \A s \in Source : atStart[s] \subseteq fresh[s]
  /\ pc = "CRL" /\ config.offline =>
        atStart[Offline] \subseteq offline /\ offline \subseteq listed[Offline]

(* Whatever was passed was cleared: by earlier methods, on                 *)
(* earlier chains, earlier certificates of the chain.                      *)
CleanInv ==
  \A n \in DOMAIN config.methods, a \in DOMAIN Chains :
     \A b \in DOMAIN Chains[a] :
        \/ ~Examined(n, a, b)
        \/ NotRevoked(n, a, b)
        \/ pc \notin Validating \cup {"accepted", "resumed"}
        \/ pc \in {"accepted", "resumed"} /\ auth = "none"
        \/ pc = "method" /\ m <= n
        \/ pc \in Checking /\ (m < n \/ (m = n /\ (k < a \/ (k = a /\ i <= b))))

CertInv == TypeOK /\ KnownInv /\ PosInv /\ ListInv /\ CleanInv /\ RefusedForReason

USE DEF Checking, Validating, Verdict, posVars, listVars

LEMMA Types ==
  ASSUME TypeOK
  PROVE  /\ config.methods \in Seq({"CRL", "OCSP", "unknown"})
         /\ config.offline \in BOOLEAN /\ config.issuerFile \in BOOLEAN
         /\ config.point \in Url \cup {None} /\ config.responder \in Url \cup {None}
         /\ \A n \in DOMAIN config.methods : Depth(n) \in Nat
         /\ hello.verified \in Seq(Chain) /\ hello.raw \in Seq(Cert)
         /\ Chains \in Seq(Seq(Cert)) /\ Len(Chains) >= 1
         /\ ~Verified => Len(Chains) = 1 /\ Chains[1] = hello.raw
         /\ Verified => \A a \in DOMAIN Chains : Chains[a] # << >>
<1>1. config \in Configs /\ hello \in Hellos
  BY DEF TypeOK
<1>2. /\ config.methods \in Seq({"CRL", "OCSP", "unknown"})
      /\ config.offline \in BOOLEAN /\ config.issuerFile \in BOOLEAN
      /\ config.point \in Url \cup {None} /\ config.responder \in Url \cup {None}
      /\ config.crlDepth \in Nat /\ config.ocspDepth \in Nat
  BY <1>1, CertVerifyAssumption DEF CertVerifyAssumption
<1>3. hello.verified \in Seq(Chain) /\ hello.raw \in Seq(Cert)
  BY <1>1, CertVerifyAssumption DEF CertVerifyAssumption
<1>4. CASE Verified
  <2>1. Chains = hello.verified /\ hello.verified # << >>
    BY <1>4 DEF Chains, Verified
  <2>2. \A a \in DOMAIN Chains : Chains[a] \in Chain
    BY <1>3, <2>1
  <2>3. Chains \in Seq(Seq(Cert))
    BY <1>3, <2>1, <2>2 DEF Chain
  <2> QED BY <1>2, <1>3, <1>4, <2>1, <2>2, <2>3 DEF Depth, Chain
<1>5. CASE ~Verified
  BY <1>2, <1>3, <1>5 DEF Chains, Depth
<1> QED BY <1>4, <1>5

LEMMA MethodType ==
  ASSUME TypeOK, NEW n \in DOMAIN config.methods
  PROVE  Method(n) \in {"CRL", "OCSP", "unknown"}
<1>1. config.methods \in Seq({"CRL", "OCSP", "unknown"})
  BY ONLY TypeOK, Types
<1>2. config.methods[n] \in {"CRL", "OCSP", "unknown"}
  BY ONLY <1>1, n \in DOMAIN config.methods
<1> QED BY <1>2 DEF Method

LEMMA JudgeType ==
  ASSUME TypeOK, NEW c \in Cert, NEW n
  PROVE  /\ CRLSource(c) \in Source \cup {None}
         /\ Responder(c) \in Url \cup {None}
         /\ Judge(n, c) \in Source \cup {None}
         /\ Offline \in Source /\ Url \subseteq Source
         /\ None \notin Source /\ Offline \notin Url
         /\ CRLSource(c) = Offline => config.offline
BY Types, CertVerifyAssumption
   DEF CRLSource, Responder, Judge, Source, CertVerifyAssumption

LEMMA PlaceType ==
  ASSUME TypeOK, NEW n \in DOMAIN config.methods, NEW a \in DOMAIN Chains,
         NEW b \in DOMAIN Chains[a]
  PROVE  /\ n \in Nat /\ a \in Nat /\ b \in Nat /\ n >= 1 /\ a >= 1 /\ b >= 1
         /\ n <= Len(config.methods) /\ a <= Len(Chains) /\ b <= Len(Chains[a])
<1>1. n \in 1..Len(config.methods) /\ a \in 1..Len(Chains)
  BY Types
<1>2. Chains[a] \in Seq(Cert)
  BY Types
<1>3. b \in 1..Len(Chains[a]) /\ Len(Chains[a]) \in Nat
  BY <1>2
<1>4. Len(config.methods) \in Nat /\ Len(Chains) \in Nat
  BY Types
<1> QED BY <1>1, <1>3, <1>4

LEMMA ThisType ==
  ASSUME TypeOK, PosInv, pc \in Checking
  PROVE  /\ this \in Cert
         /\ m \in DOMAIN config.methods /\ k \in DOMAIN Chains /\ i \in DOMAIN Chains[k]
         /\ Verified \/ Depth(m) = 0 \/ i <= Depth(m)
<1>1. /\ m \in DOMAIN config.methods /\ k \in DOMAIN Chains /\ i \in DOMAIN Chains[k]
      /\ Verified \/ Depth(m) = 0 \/ i <= Depth(m)
  BY DEF PosInv, Examined
<1>2. Chains[k] \in Seq(Cert)
  BY <1>1, Types
<1> QED BY <1>1, <1>2 DEF this

-----------------------------------------------------------------------------
LEMMA CertInit == Init => CertInv
<1> SUFFICES ASSUME Init PROVE CertInv
  OBVIOUS
<1>1. TypeOK
  BY DEF Init, TypeOK
<1> QED BY <1>1 DEF Init, CertInv, KnownInv, PosInv, ListInv, CleanInv, RefusedForReason

(* What the certificates are, and where they are looked for, never changes *)
(* during a handshake.                                                     *)
LEMMA Frame ==
  ASSUME Next \/ UNCHANGED vars
  PROVE  config' = config /\ hello' = hello
BY DEF Next, StartUp, Validate, CheckCertificate, NewConfig, NewConfigFails,
       LoadTLSConfig, LoadTLSConfigFails, UseValidator, Handshake, Resume, Accept,
       NoCertificate, MethodFails, BeginMethod, NoCRL, RetrieveCRLFails, NilIssuer,
       CRLMisSigned, CRLVerify, CannotAsk, OCSPFails, OCSPMisSigned, OCSPVerify, List,
       Expire, Refuse, Clear, Pass, vars

LEMMA FrameInv ==
  ASSUME Next \/ UNCHANGED vars
  PROVE  /\ PosInv' <=> /\ pc' \in Checking => /\ Examined(m', k', i')
                                              /\ Method(m') = pc'
                        /\ m' >= 1
                        /\ pc' \in {"start", "load", "serve"} => m' = 1
         /\ Chains' = Chains
         /\ \A n, a, b : Examined(n, a, b)' = Examined(n, a, b)
BY Frame DEF PosInv, Examined, Method, Depth, Chains, Verified

(* A check either refuses, or passes a certificate that its judge had not  *)
(* listed when the handshake began, or panics.                             *)
LEMMA CheckStep ==
  ASSUME CertInv, CheckCertificate
  PROVE  /\ pc \in Checking
         /\ \/ \E blame \in BOOLEAN : Refuse(blame)
            \/ pc' = "panicked"
               /\ UNCHANGED <<config, auth, hello, posVars, listVars, atStart, cleared, trouble>>
            \/ /\ Clear
               /\ Method(m) = "CRL" => this \notin atStart[Judge(m, this)]
<1> USE DEF CertInv
<1>1. pc \in Checking
  BY DEF CheckCertificate, NoCRL, RetrieveCRLFails, NilIssuer, CRLMisSigned, CRLVerify,
         CannotAsk, OCSPFails, OCSPMisSigned, OCSPVerify
<1>2. this \in Cert /\ Method(m) = pc
  BY <1>1, ThisType DEF PosInv
<1>3. CASE CRLVerify /\ ~Refuse(FALSE)
  <2> DEFINE s == CRLSource(this)
  <2>1. PICK list \in Obtainable(s) :
           pc = "CRL" /\ ~OnList(this, list) /\ Clear /\ (s = Offline \/ s \in Url)
    BY <1>3 DEF CRLVerify
  <2>2. this \notin list
    BY <2>1 DEF OnList
  <2>3. s \in Source /\ s # None
    BY <1>2, <2>1, JudgeType
  <2>4. s = Offline => config.offline
    BY <1>2, JudgeType
  <2>5. atStart[s] \subseteq list
    BY <2>1, <2>3, <2>4 DEF ListInv, Obtainable
  <2>6. Judge(m, this) = s
    BY <1>2, <2>1 DEF Judge
  <2> QED BY <1>1, <2>1, <2>2, <2>5, <2>6
<1>4. CASE OCSPVerify /\ ~Refuse(FALSE)
  <2>1. pc = "OCSP" /\ Clear
    BY <1>4 DEF OCSPVerify
  <2> QED BY <1>1, <1>2, <2>1
<1> QED
  BY <1>1, <1>3, <1>4
     DEF CheckCertificate, NoCRL, RetrieveCRLFails, NilIssuer, CRLMisSigned, CannotAsk,
         OCSPFails, OCSPMisSigned

LEMMA TypeStep == CertInv /\ [Next]_vars => TypeOK' /\ KnownInv'
<1> SUFFICES ASSUME CertInv, [Next]_vars PROVE TypeOK' /\ KnownInv'
  OBVIOUS
<1> USE DEF CertInv, TypeOK, KnownInv, Method
<1>1. CASE StartUp
  BY <1>1 DEF StartUp, NewConfig, NewConfigFails, LoadTLSConfig, LoadTLSConfigFails,
              UseValidator
<1>2. CASE Handshake \/ Resume \/ Accept \/ NoCertificate \/ MethodFails
  BY <1>2 DEF Handshake, Resume, Accept, NoCertificate, MethodFails, Refuse
<1>3. CASE BeginMethod
  <2>1. m \in DOMAIN config.methods
    BY <1>3, Types DEF BeginMethod, PosInv
  <2>2. Method(m) \in Checking
    BY <1>3, <2>1, Types DEF BeginMethod
  <2>3. listed[Offline] \subseteq Cert
    BY DEF Source
  <2> QED BY <1>3, <2>2, <2>3 DEF BeginMethod
<1>4. CASE CheckCertificate
  <2>1. CASE Clear
    <3>1. m \in Nat /\ k \in Nat /\ i \in Nat
      OBVIOUS
    <3> QED BY <1>4, <2>1, <3>1, CheckStep DEF Clear, Pass
  <2>2. CASE pc' = "panicked"
             /\ UNCHANGED <<config, auth, hello, posVars, listVars, atStart, cleared, trouble>>
    BY <1>4, <2>2, CheckStep
  <2>3. ASSUME NEW blame \in BOOLEAN, Refuse(blame)
        PROVE  TypeOK' /\ KnownInv'
    BY <1>4, <2>3, CheckStep DEF Refuse
  <2> QED BY <1>4, <2>1, <2>2, <2>3, CheckStep
<1>5. ASSUME NEW s \in Source, NEW c \in Cert, List(s, c)
      PROVE  TypeOK' /\ KnownInv'
  BY <1>5 DEF List
<1>6. ASSUME NEW s \in Source, Expire(s)
      PROVE  TypeOK' /\ KnownInv'
  BY <1>6 DEF Expire
<1>7. CASE UNCHANGED vars
  BY <1>7 DEF vars
<1> QED BY <1>1, <1>2, <1>3, <1>4, <1>5, <1>6, <1>7 DEF Next, Validate

LEMMA ListStep == CertInv /\ [Next]_vars => ListInv'
<1> SUFFICES ASSUME CertInv, [Next]_vars PROVE ListInv'
  OBVIOUS
<1> USE DEF CertInv, ListInv, TypeOK
<1>1. config' = config
  BY Frame
<1>2. CASE StartUp \/ Resume \/ Accept \/ NoCertificate \/ MethodFails
  BY <1>2 DEF StartUp, NewConfig, NewConfigFails, LoadTLSConfig, LoadTLSConfigFails,
              UseValidator, Resume, Accept, NoCertificate, MethodFails, Refuse
<1>3. CASE Handshake
  BY <1>3 DEF Handshake
<1>4. CASE BeginMethod
  <2>1. Offline \in Source
    BY DEF Source
  <2> QED BY <1>1, <1>4, <2>1 DEF BeginMethod
<1>5. CASE CheckCertificate
  <2>1. /\ pc \in Checking /\ pc' \in {pc, "method", "refused", "panicked"}
        /\ UNCHANGED <<config, listVars, atStart, offline>>
    BY <1>5, CheckStep DEF Refuse, Clear, Pass
  <2> QED BY <2>1
<1>6. ASSUME NEW s \in Source, NEW c \in Cert, List(s, c)
      PROVE  ListInv'
  <2>1. /\ \A t \in Source : /\ listed[t] \subseteq listed'[t]
                             /\ fresh[t] \subseteq fresh'[t]
                             /\ fresh'[t] \subseteq listed'[t]
        /\ UNCHANGED <<config, auth, pc, hello, posVars, atStart, trouble>>
    BY <1>6 DEF List
  <2>2. Offline \in Source
    BY DEF Source
  <2> QED BY <2>1, <2>2
<1>7. ASSUME NEW s \in Source, Expire(s)
      PROVE  ListInv'
  <2>1. /\ \A t \in Source : fresh[t] \subseteq fresh'[t] /\ fresh'[t] \subseteq listed[t]
        /\ UNCHANGED <<config, auth, pc, hello, posVars, listed, atStart, trouble>>
    BY <1>7 DEF Expire
  <2> QED BY <2>1
<1>8. CASE UNCHANGED vars
  BY <1>8 DEF vars
<1> QED BY <1>2, <1>3, <1>4, <1>5, <1>6, <1>7, <1>8 DEF Next, Validate

LEMMA PosStep == CertInv /\ [Next]_vars => PosInv'
<1> SUFFICES ASSUME CertInv, [Next]_vars
             PROVE  /\ pc' \in Checking => Examined(m', k', i') /\ Method(m') = pc'
                    /\ m' >= 1
                    /\ pc' \in {"start", "load", "serve"} => m' = 1
  BY FrameInv
<1> USE DEF CertInv
<1>1. /\ m \in Nat /\ m >= 1
      /\ pc \in {"start", "load", "serve"} => m = 1
      /\ pc \in Checking => Examined(m, k, i) /\ Method(m) = pc
  BY DEF PosInv, TypeOK
<1>2. CASE StartUp \/ Handshake \/ Resume \/ Accept \/ NoCertificate \/ MethodFails
  BY <1>1, <1>2
     DEF StartUp, NewConfig, NewConfigFails, LoadTLSConfig, LoadTLSConfigFails,
         UseValidator, Handshake, Resume, Accept, NoCertificate, MethodFails, Refuse
<1>3. CASE BeginMethod
  <2>1. /\ pc = "method" /\ m' = m /\ pc' = Method(m) /\ k' = 1 /\ i' = 1
        /\ m \in DOMAIN config.methods
    BY <1>1, <1>3, Types DEF BeginMethod
  <2>2. 1 \in DOMAIN Chains /\ 1 \in DOMAIN Chains[1]
    BY <1>3, Types DEF BeginMethod
  <2>3. Examined(m, 1, 1)
    BY <2>1, <2>2, Types DEF Examined
  <2>4. Method(m) \in {"CRL", "OCSP", "unknown"}
    BY <2>1, Types DEF Method
  <2> QED BY <1>1, <2>1, <2>3, <2>4
<1>4. CASE CheckCertificate
  <2>1. CASE Pass
    <3>1. pc \in Checking
      BY <1>4, CheckStep
    <3>2. /\ m \in DOMAIN config.methods
          /\ k \in DOMAIN Chains /\ i \in DOMAIN Chains[k]
          /\ Verified \/ Depth(m) = 0 \/ i <= Depth(m)
      BY <3>1, ThisType
    <3>3. CASE MoreInChain /\ i' = i + 1 /\ UNCHANGED <<pc, m, k>>
      <4>1. Examined(m, k, i + 1)
        BY <3>2, <3>3, Types DEF Examined, MoreInChain
      <4> QED BY <1>1, <3>1, <3>3, <4>1
    <3>4. CASE k < Len(Chains) /\ k' = k + 1 /\ i' = 1 /\ UNCHANGED <<pc, m>>
      <4>0. k \in 1..Len(Chains) /\ Len(Chains) \in Nat
        BY <3>2, Types
      <4>1. Verified /\ k + 1 \in DOMAIN Chains
        <5>1. \A n \in Nat : \A x \in 1..n : x < n => x + 1 \in 1..n /\ n # 1
          OBVIOUS
        <5>2. k + 1 \in 1..Len(Chains) /\ Len(Chains) # 1
          BY <3>4, <4>0, <5>1
        <5> QED BY <5>2, Types
      <4>2. Chains[k + 1] \in Seq(Cert) /\ Chains[k + 1] # << >>
        BY <4>1, Types
      <4>3. Examined(m, k + 1, 1)
        BY <3>2, <4>1, <4>2 DEF Examined
      <4> QED BY <1>1, <3>1, <3>4, <4>3
    <3>5. CASE pc' = "method" /\ m' = m + 1 /\ UNCHANGED <<k, i>>
      BY <1>1, <3>5
    <3> QED BY <2>1, <3>3, <3>4, <3>5 DEF Pass
  <2>2. CASE pc' \in {"panicked", "refused"} /\ m' = m
    BY <1>1, <2>2
  <2>3. Pass \/ (pc' \in {"panicked", "refused"} /\ m' = m)
    <3>1. \A blame : Refuse(blame) => pc' = "refused" /\ m' = m
      BY DEF Refuse
    <3> QED BY <1>4, <3>1, CheckStep DEF Clear
  <2> QED BY <2>1, <2>2, <2>3
<1>5. CASE UNCHANGED <<pc, posVars>>
  BY <1>1, <1>5
<1>6. ASSUME NEW s \in Source, Expire(s) \/ \E c \in Cert : List(s, c)
      PROVE  UNCHANGED <<pc, posVars>>
  BY <1>6 DEF List, Expire
<1> QED BY <1>2, <1>3, <1>4, <1>5, <1>6 DEF Next, Validate, vars

LEMMA CleanStep == CertInv /\ [Next]_vars => CleanInv'
<1> SUFFICES ASSUME CertInv, [Next]_vars,
                    NEW n \in DOMAIN config.methods, NEW a \in DOMAIN Chains,
                    NEW b \in DOMAIN Chains[a],
                    Examined(n, a, b), ~NotRevoked(n, a, b)'
             PROVE  \/ pc' \notin Validating \cup {"accepted", "resumed"}
                    \/ pc' \in {"accepted", "resumed"} /\ auth' = "none"
                    \/ pc' = "method" /\ m' <= n
                    \/ pc' \in Checking
                       /\ (m' < n \/ (m' = n /\ (k' < a \/ (k' = a /\ i' <= b))))
  BY Frame, FrameInv DEF CleanInv
<1>0. /\ config' = config
      /\ n \in Nat /\ a \in Nat /\ b \in Nat /\ n >= 1 /\ a >= 1 /\ b >= 1
      /\ n <= Len(config.methods) /\ a <= Len(Chains) /\ b <= Len(Chains[a])
  <2>1. TypeOK /\ (Next \/ UNCHANGED vars)
    BY DEF CertInv
  <2>2. config' = config
    BY <2>1, Frame
  <2> QED BY <2>1, <2>2, PlaceType
<1> USE DEF CertInv, CleanInv, TypeOK
<1>1. atStart' = atStart /\ cleared \subseteq cleared' => ~NotRevoked(n, a, b)
  BY Frame DEF NotRevoked, Judge, Method, CRLSource, Responder, Chains, Verified
<1>2. CASE StartUp \/ NoCertificate \/ MethodFails
  BY <1>2 DEF StartUp, NewConfig, NewConfigFails, LoadTLSConfig, LoadTLSConfigFails,
              UseValidator, NoCertificate, MethodFails, Refuse
<1>3. CASE Handshake
  BY <1>0, <1>3 DEF Handshake, PosInv
<1>9. CASE Resume
  BY <1>1, <1>9 DEF Resume
<1>4. CASE Accept
  <2>1. m > n /\ pc = "method"
    BY <1>0, <1>4, Types DEF Accept
  <2> QED BY <1>0, <1>1, <1>4, <2>1 DEF Accept
<1>5. CASE BeginMethod
  <2>1. m \in DOMAIN config.methods
    BY <1>5, Types DEF BeginMethod, PosInv
  <2>2. Method(m) \in {"CRL", "OCSP", "unknown"}
    BY ONLY <2>1, TypeOK, MethodType
  <2> QED BY <1>0, <1>1, <1>5, <2>2 DEF BeginMethod
<1>6. CASE CheckCertificate
  <2>1. CASE Clear /\ (Method(m) = "CRL" => this \notin atStart[Judge(m, this)])
    <3>0. pc \in Checking
      BY <1>6, CheckStep
    <3>1. /\ m \in DOMAIN config.methods
          /\ k \in DOMAIN Chains /\ i \in DOMAIN Chains[k]
      BY <3>0, ThisType
    <3>2. atStart' = atStart /\ ~NotRevoked(n, a, b) /\ ~(n = m /\ a = k /\ b = i)
      <4>1. atStart' = atStart /\ cleared' = cleared \cup {<<m, k, i>>}
        BY <2>1 DEF Clear, Pass
      <4>2. ~NotRevoked(n, a, b)
        BY <1>1, <4>1
      <4>3. ASSUME n = m, a = k, b = i
            PROVE  NotRevoked(n, a, b)'
        <5>1. <<n, a, b>> \in cleared'
          BY <4>1, <4>3
        <5>2. Method(n) = "CRL" => Chains[a][b] \notin atStart[Judge(n, Chains[a][b])]
          BY <2>1, <4>3 DEF this
        <5> QED BY <4>1, <5>1, <5>2, Frame
                DEF NotRevoked, Judge, Method, CRLSource, Responder, Chains, Verified
      <4> QED BY <4>1, <4>2, <4>3
    <3>3. m < n \/ (m = n /\ (k < a \/ (k = a /\ i <= b)))
      BY <3>0, <3>2
    <3>4. CASE MoreInChain /\ i' = i + 1 /\ UNCHANGED <<pc, m, k>>
      BY <1>0, <3>0, <3>2, <3>3, <3>4
    <3>5. ~MoreInChain /\ n = m /\ a = k => b <= i
      BY <1>0, <3>1, Types DEF MoreInChain, Examined
    <3>6. CASE ~MoreInChain /\ k' = k + 1 /\ i' = 1 /\ UNCHANGED <<pc, m>>
      BY <1>0, <3>0, <3>2, <3>3, <3>5, <3>6
    <3>7. CASE ~MoreInChain /\ k = Len(Chains) /\ pc' = "method" /\ m' = m + 1
      BY <1>0, <3>0, <3>2, <3>3, <3>5, <3>7
    <3> QED BY <2>1, <3>4, <3>6, <3>7 DEF Clear, Pass
  <2> QED BY <1>6, <2>1, CheckStep DEF Refuse
<1>7. ASSUME NEW s \in Source, NEW c \in Cert, List(s, c)
      PROVE  UNCHANGED <<auth, pc, posVars, atStart, cleared>>
  BY <1>7 DEF List
<1>8. ASSUME NEW s \in Source, Expire(s)
      PROVE  UNCHANGED <<auth, pc, posVars, atStart, cleared>>
  BY <1>8 DEF Expire
<1>10. CASE UNCHANGED <<auth, pc, posVars, atStart, cleared>>
  BY <1>1, <1>10
<1> QED BY <1>2, <1>3, <1>4, <1>5, <1>6, <1>7, <1>8, <1>9, <1>10 DEF Next, Validate, vars

(* A refusal without trouble is the verdict on the certificate at hand.    *)
LEMMA ReasonStep == CertInv /\ [Next]_vars => RefusedForReason'
<1> SUFFICES ASSUME CertInv, [Next]_vars PROVE RefusedForReason'
  OBVIOUS
<1> USE DEF CertInv
<1> DEFINE Cause(n, a, b) == Examined(n, a, b) /\ Reason(n, a, b)
<1>1. UNCHANGED <<config, hello, listed>> =>
        \A n, a, b : Cause(n, a, b)' = Cause(n, a, b)
  BY DEF Reason, Examined, Decidable, Flagged, Judge, AnswersFor, CRLSigner, OCSPIssuer,
         ChainIssuer, RetrieveIssuerCert, IsRootCA, CRLSource, Responder, Method, Depth,
         Chains, Verified, SameName, OnList
<1>2. UNCHANGED <<config, hello>> => Verified' = Verified /\ Chains' = Chains
  BY DEF Verified, Chains
<1>3. CASE UNCHANGED <<pc, hello, config, trouble, listed>>
  BY <1>1, <1>2, <1>3 DEF RefusedForReason
<1>4. CASE pc' \notin {"refused", "panicked"}
  BY <1>4 DEF RefusedForReason
<1>5. CASE Refuse(TRUE)
  BY <1>5 DEF RefusedForReason, Refuse
<1>6. CASE NoCertificate
  BY <1>2, <1>6 DEF NoCertificate, RefusedForReason, Refuse
<1>7. ASSUME pc \in Checking, Cause(m, k, i), UNCHANGED <<config, hello, listed>>
      PROVE  RefusedForReason'
  <2>1. m \in DOMAIN config.methods /\ k \in DOMAIN Chains /\ i \in DOMAIN Chains[k]
    BY <1>7, ThisType
  <2> QED BY <1>1, <1>2, <1>7, <2>1 DEF RefusedForReason
<1>8. CASE NoCRL \/ NilIssuer \/ CRLMisSigned
  <2>1. pc = "CRL" /\ UNCHANGED <<config, hello, listed>>
    BY <1>8 DEF NoCRL, NilIssuer, CRLMisSigned, Refuse
  <2>2. /\ Examined(m, k, i) /\ Method(m) = "CRL" /\ this \in Cert
        /\ Judge(m, this) = CRLSource(this)
    BY <2>1, ThisType DEF PosInv, Judge
  <2>3. CRLSource(this) # Offline
    BY <1>8, <2>2, JudgeType DEF NoCRL, NilIssuer, CRLMisSigned
  <2>4. CRLSource(this) \in Url => ~AnswersFor(CRLSource(this), CRLSigner(k, i))
    BY <1>8, <2>2, JudgeType DEF NoCRL, NilIssuer, CRLMisSigned, AnswersFor
  <2>5. ~Decidable(m, k, i)
    BY <2>2, <2>3, <2>4 DEF Decidable, this
  <2> QED BY <1>7, <2>1, <2>2, <2>5 DEF Reason
<1>9. CASE CRLVerify /\ Refuse(FALSE)
  <2>1. pc = "CRL" /\ UNCHANGED <<config, hello, listed>>
    BY <1>9 DEF CRLVerify, Refuse
  <2>2. /\ Examined(m, k, i) /\ Method(m) = "CRL" /\ this \in Cert
        /\ Judge(m, this) = CRLSource(this)
    BY <2>1, ThisType DEF PosInv, Judge
  <2>3. \E list \in Obtainable(CRLSource(this)) : OnList(this, list)
    BY <1>9 DEF CRLVerify, Refuse, Clear, Pass
  <2>4. OnList(this, listed[CRLSource(this)])
    BY <2>1, <2>2, <2>3, JudgeType DEF OnList, ListInv, Obtainable
  <2>5. Flagged(m, Chains[k][i])
    BY <2>2, <2>4 DEF Flagged, this
  <2> QED BY <1>7, <2>1, <2>2, <2>5 DEF Reason
<1>10. CASE CannotAsk \/ OCSPMisSigned \/ (OCSPVerify /\ Refuse(FALSE))
  <2>1. pc = "OCSP" /\ UNCHANGED <<config, hello, listed>>
    BY <1>10 DEF CannotAsk, OCSPMisSigned, OCSPVerify, Refuse
  <2>2. /\ Examined(m, k, i) /\ Method(m) = "OCSP" /\ this \in Cert
        /\ Judge(m, this) = Responder(this)
    BY <2>1, ThisType DEF PosInv, Judge
  <2>3. Responder(this) # Offline
    BY <2>2, JudgeType
  <2>4. \/ Responder(this) \notin Url
        \/ ~AnswersFor(Responder(this), OCSPIssuer(k, i))
        \/ this \in listed[Responder(this)]
    BY <1>10, <2>2, JudgeType
       DEF CannotAsk, OCSPMisSigned, OCSPVerify, AnswersFor, Refuse, Clear, Pass
  <2>5. Decidable(m, k, i) => Flagged(m, Chains[k][i])
    BY <2>2, <2>3, <2>4 DEF Decidable, Flagged, this
  <2> QED BY <1>7, <2>1, <2>2, <2>5 DEF Reason
<1>11. ASSUME NEW s \in Source, Expire(s) \/ \E c \in Cert : List(s, c)
       PROVE  pc' \notin {"refused", "panicked"}
  BY <1>11 DEF List, Expire, Serving
<1>12. ASSUME CheckCertificate, Clear
       PROVE  pc' \notin {"refused", "panicked"}
  BY <1>12, CheckStep DEF Clear, Pass
<1>13. ASSUME CheckCertificate
       PROVE  RefusedForReason'
  <2>1. CRLVerify \/ OCSPVerify => Refuse(FALSE) \/ Clear
    BY DEF CRLVerify, OCSPVerify
  <2> QED
    BY <1>4, <1>5, <1>8, <1>9, <1>10, <1>12, <1>13, <2>1
       DEF CheckCertificate, RetrieveCRLFails, OCSPFails
<1>14. ASSUME StartUp \/ Handshake \/ Resume \/ Accept
       PROVE  pc' \notin {"refused", "panicked"}
  BY <1>14 DEF StartUp, NewConfig, NewConfigFails, LoadTLSConfig, LoadTLSConfigFails,
               UseValidator, Handshake, Resume, Accept
<1>15. ASSUME BeginMethod
       PROVE  pc' \notin {"refused", "panicked"}
  <2>1. m \in DOMAIN config.methods
    BY <1>15, Types DEF BeginMethod, PosInv, TypeOK
  <2>2. Method(m) \in {"CRL", "OCSP", "unknown"}
    BY ONLY <2>1, TypeOK, MethodType
  <2> QED BY <1>15, <2>2 DEF BeginMethod
<1>16. CASE UNCHANGED vars
  BY <1>3, <1>16 DEF vars
<1> QED
  BY <1>4, <1>5, <1>6, <1>11, <1>13, <1>14, <1>15, <1>16 DEF Next, Validate, MethodFails

LEMMA CertAlways == Spec => []CertInv
<1>1. CertInv /\ [Next]_vars => CertInv'
  BY TypeStep, ListStep, PosStep, CleanStep, ReasonStep DEF CertInv
<1> QED BY <1>1, CertInit, PTL DEF Spec

-----------------------------------------------------------------------------
(* Every variable of the verification keeps its type. *)
THEOREM TypeCorrect == Spec => []TypeOK
BY CertAlways, PTL DEF CertInv

(* A client that was asked for certificates is accepted, and its session   *)
(* resumed, only when every certificate a method has to examine had been   *)
(* cleared, and was not on every unexpired list, if lists decide.          *)
THEOREM Acceptance == Spec => []AcceptedIfCleared
<1>1. CertInv => AcceptedIfCleared
  BY DEF CertInv, CleanInv, AcceptedIfCleared
<1> QED BY <1>1, CertAlways, PTL

(* A refusal has a reason: trouble, no certificate, or an examined one that *)
(* is listed or that nobody answers for.                                   *)
THEOREM Refusal == Spec => []RefusedForReason
BY CertAlways, PTL DEF CertInv
=============================================================================
