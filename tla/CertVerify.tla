----------------------------- MODULE CertVerify -----------------------------
(***************************************************************************)
(* The TLS configuration of one server and the verdict on one client: what *)
(* NewConfig and LoadTLSConfig make of the environment variables, and the  *)
(* Validator that asks each configured method (CRL, OCSP) about the        *)
(* certificates of a handshake, one after the other, over the network.     *)
(*                                                                         *)
(* Parsing, signatures and chain building belong to crypto/x509: a source  *)
(* of revocations answers for some issuer keys, its Authority. What it     *)
(* answers may be old: a list is taken until it expires, an OCSP answer of *)
(* any age is.                                                             *)
(***************************************************************************)
EXTENDS Naturals, Sequences, FiniteSets

CONSTANTS
  Cert,       \* certificates: records, see CertVerifyAssumption
  Url,        \* where revocation lists and responders are published
  Offline,    \* the offline CRL file
  None,       \* no certificate, no URL, an empty name or file
  Authority,  \* the issuer keys under which the answers of each URL verify
  Configs,    \* what the environment variables may say
  Hellos,     \* what a client may present: chains the library verified, or
              \* certificates as they came
  MaxListed   \* bound: how many entries all revocation lists together get

Source == Url \cup {Offline}
Chain == Seq(Cert) \ {<< >>}

ASSUME CertVerifyAssumption ==
  /\ Offline \notin Url /\ None \notin Source /\ None \notin Cert
  /\ \A c \in Cert :
        /\ c.ca \in BOOLEAN /\ c.selfKeyed \in BOOLEAN
        /\ {c.point, c.responder} \subseteq Url \cup {None}
        /\ c.aia \in Cert \cup {None}
  /\ \A f \in Configs :
        /\ f.methods \in Seq({"CRL", "OCSP", "unknown"})
        /\ {f.keyPair, f.clientCA, f.offline, f.issuerFile} \subseteq BOOLEAN
        /\ f.crlDepth \in Nat /\ f.ocspDepth \in Nat
        /\ {f.point, f.responder} \subseteq Url \cup {None}
        /\ f.pointIssuer \in Cert \cup {None}
  /\ \A h \in Hellos : h.verified \in Seq(Chain) /\ h.raw \in Seq(Cert)
  /\ MaxListed \in Nat

VARIABLES
  config,    \* the environment variables of this server
  auth,      \* does the server ask for certificates, and who verifies them?
  pc,        \* where the start-up, then the handshake is
  hello,     \* what the client presented
  m,         \* index of the method NewValidator's loop is at
  k, i,      \* the chain and the certificate in it that is being checked
  offline,   \* the entries of the offline list as loadOfflineCRL read them
  listed,    \* what each source lists as revoked, now
  fresh,     \* what is on every list of it that has not expired
  atStart,   \* history: fresh when the full handshake began
  cleared,   \* history: what was checked and found in order: method, chain, place
  trouble    \* history: was a file, a response or a certificate unusable?

posVars == <<m, k, i, offline>>
listVars == <<listed, fresh>>
vars == <<config, auth, pc, hello, posVars, listVars, atStart, cleared, trouble>>

Verdict == {"accepted", "resumed", "refused", "panicked"}

TypeOK ==
  /\ config \in Configs
  /\ auth \in {"none", "verify", "own"}
  /\ pc \in {"start", "load", "failed", "serve", "method", "CRL", "OCSP"} \cup Verdict
  /\ hello \in Hellos
  /\ m \in Nat /\ k \in Nat /\ i \in Nat
  /\ offline \subseteq Cert
  /\ {listed, fresh, atStart} \subseteq [Source -> SUBSET Cert]
  /\ cleared \subseteq Nat \X Nat \X Nat
  /\ trouble \in BOOLEAN

Init ==
  /\ config \in Configs
  /\ auth = "none"
  /\ pc = "start"
  /\ hello \in Hellos
  /\ m = 1 /\ k = 1 /\ i = 1
  /\ offline = {}
  /\ listed = [s \in Source |-> {}]
  /\ fresh = [s \in Source |-> {}]
  /\ atStart = [s \in Source |-> {}]
  /\ cleared = {}
  /\ trouble = FALSE

-----------------------------------------------------------------------------
(* Start-up, and the authorities that revoke certificates.                 *)

(* Mutated NewConfig: only the first method is parsed.                     *)
NewConfigFirstOnly ==
  /\ pc = "start" /\ pc' = "load"
  /\ config.methods # << >> => config.methods[1] # "unknown"
  /\ UNCHANGED <<config, auth, hello, posVars, listVars, atStart, cleared, trouble>>

NewConfig ==
  /\ pc = "start" /\ pc' = "load"
  /\ \A n \in DOMAIN config.methods : config.methods[n] # "unknown"
  /\ UNCHANGED <<config, auth, hello, posVars, listVars, atStart, cleared, trouble>>

(* The method list is parsed even for a server without TLS, and so are the *)
(* depths and URLs of the methods that it names.                           *)
NewConfigFails ==
  /\ pc = "start" /\ pc' = "failed"
  /\ UNCHANGED <<config, auth, hello, posVars, listVars, atStart, cleared, trouble>>

(* Without a key pair there is no TLS; without a client CA the Validator   *)
(* is not installed.                                                       *)
LoadTLSConfig ==
  /\ pc = "load" /\ pc' = "serve"
  /\ auth' = IF config.keyPair /\ config.clientCA THEN "verify" ELSE "none"
  /\ UNCHANGED <<config, hello, posVars, listVars, atStart, cleared, trouble>>

LoadTLSConfigFails ==
  /\ pc = "load" /\ pc' = "failed" /\ config.keyPair
  /\ UNCHANGED <<config, auth, hello, posVars, listVars, atStart, cleared, trouble>>

(* The Validator is exported: a program built on the package may install   *)
(* it under a ClientAuth of its own, which need not verify chains.         *)
UseValidator ==
  /\ pc = "load" /\ pc' = "serve"
  /\ auth' = "own"
  /\ UNCHANGED <<config, hello, posVars, listVars, atStart, cleared, trouble>>

Serving == pc \in {"serve", "method", "CRL", "OCSP", "accepted"} /\ auth # "none"

(* A new list is published; older ones go on to be served until they       *)
(* expire. Of the offline file there is only one.                          *)
List(s, c) ==
  /\ Serving
  /\ c \notin listed[s]
  /\ Cardinality({e \in Source \X Cert : e[2] \in listed[e[1]]}) < MaxListed
  /\ listed' = [listed EXCEPT ![s] = @ \cup {c}]
  /\ fresh' = IF s = Offline THEN [fresh EXCEPT ![s] = @ \cup {c}] ELSE fresh
  /\ UNCHANGED <<config, auth, pc, hello, posVars, atStart, cleared, trouble>>

Expire(s) ==
  /\ Serving
  /\ fresh[s] # listed[s]
  /\ fresh' = [fresh EXCEPT ![s] = listed[s]]
  /\ UNCHANGED <<config, auth, pc, hello, posVars, listed, atStart, cleared, trouble>>

-----------------------------------------------------------------------------
(* The handshake calls the Validator, which calls its methods in turn.     *)

Verified == hello.verified # << >>
Chains == IF Verified THEN hello.verified ELSE << hello.raw >>
Method(n) == config.methods[n]
Depth(n) == IF Method(n) = "CRL" THEN config.crlDepth ELSE config.ocspDepth

Handshake ==
  /\ pc = "serve"
  /\ auth = "verify" => Verified
  /\ pc' = IF auth = "none" THEN "accepted" ELSE "method"
  /\ atStart' = fresh
  /\ UNCHANGED <<config, auth, hello, posVars, listVars, cleared, trouble>>

(* A client that was accepted returns with its session ticket, which TLS   *)
(* servers hand out unless they are told not to: crypto/tls does not call  *)
(* VerifyPeerCertificate. (DTLS has no session store and resumes nothing.) *)
Resume ==
  /\ pc = "accepted" /\ auth # "none"
  /\ pc' = "resumed"
  /\ UNCHANGED <<config, auth, hello, posVars, listVars, atStart, cleared, trouble>>

Accept ==
  /\ pc = "method" /\ m > Len(config.methods)
  /\ pc' = "accepted"
  /\ UNCHANGED <<config, auth, hello, posVars, listVars, atStart, cleared, trouble>>

Refuse(blame) ==
  /\ pc' = "refused"
  /\ trouble' = (trouble \/ blame)
  /\ UNCHANGED <<config, auth, hello, posVars, listVars, atStart, cleared>>

(* errClientCrt; without a method nobody notices.                          *)
NoCertificate ==
  /\ pc = "method" /\ m <= Len(config.methods)
  /\ ~Verified /\ hello.raw = << >>
  /\ Refuse(FALSE)

(* A certificate as it came does not parse, or the offline list or its     *)
(* issuer's file cannot be loaded, or the list has expired.                *)
MethodFails ==
  /\ pc = "method" /\ m <= Len(config.methods)
  /\ IF Verified THEN Method(m) = "CRL" /\ config.offline ELSE hello.raw # << >>
  /\ Refuse(TRUE)

(* The offline list is read at each handshake; nobody checks who signed it. *)
BeginMethod ==
  /\ pc = "method" /\ m <= Len(config.methods)
  /\ Verified \/ hello.raw # << >>
  /\ pc' = Method(m)
  /\ k' = 1 /\ i' = 1
  /\ offline' = IF Method(m) = "CRL" /\ config.offline THEN listed[Offline] ELSE {}
  /\ UNCHANGED <<config, auth, hello, m, listVars, atStart, cleared, trouble>>

(* Mutated MoreInChain: the depth is compared with the wrong index.        *)
MoreInChainOffByOne ==
  i < Len(Chains[k]) /\ (Verified \/ i # Depth(m) + 1)

(* The depth bounds what is checked of certificates as they came, 0 being  *)
(* no bound; chains that were verified are checked to their end.           *)
MoreInChain == i < Len(Chains[k]) /\ (Verified \/ i # Depth(m))

(* Mutated Pass: one chain without a revoked certificate is enough.        *)
PassFirstChain ==
  /\ \/ MoreInChain /\ i' = i + 1 /\ UNCHANGED <<pc, m, k>>
     \/ ~MoreInChain /\ pc' = "method" /\ m' = m + 1 /\ UNCHANGED <<k, i>>
  /\ UNCHANGED <<config, auth, hello, offline, listVars, atStart, trouble>>

(* The certificate is in order: the next one, the next chain, the next     *)
(* method.                                                                 *)
Pass ==
  /\ \/ MoreInChain /\ i' = i + 1 /\ UNCHANGED <<pc, m, k>>
     \/ ~MoreInChain /\ k < Len(Chains) /\ k' = k + 1 /\ i' = 1 /\ UNCHANGED <<pc, m>>
     \/ ~MoreInChain /\ k = Len(Chains) /\ pc' = "method" /\ m' = m + 1
        /\ UNCHANGED <<k, i>>
  /\ UNCHANGED <<config, auth, hello, offline, listVars, atStart, trouble>>

(* It passes because an answer was obtained that says so.                  *)
Clear == Pass /\ cleared' = cleared \cup {<<m, k, i>>}

-----------------------------------------------------------------------------
(* Issuers, and who answers for a certificate.                             *)

(* Serial numbers of names decide when both have one, else the names do.   *)
SameName(a, b) == IF a.id # None /\ b.id # None THEN a.id = b.id ELSE a = b

RetrieveIssuerCert(name, certs) ==
  LET hits == {j \in DOMAIN certs : SameName(certs[j].subject, name)}
  IN  IF hits = {} THEN None ELSE certs[CHOOSE j \in hits : \A h \in hits : j <= h]

(* The next one in a verified chain, whose last one issued itself; else    *)
(* whoever among the client's certificates bears the name.                 *)
ChainIssuer(a, b) ==
  LET chain == Chains[a]
  IN  IF ~Verified THEN RetrieveIssuerCert(chain[b].issuer, chain)
      ELSE IF b < Len(chain) THEN chain[b + 1] ELSE chain[b]

IsRootCA(c) == c.ca /\ (c.selfKeyed \/ c.issuer = c.subject)

(* The certificate's own distribution point comes first, the configured    *)
(* one needs a file for its issuer, the offline list is the last resort.   *)
CRLSource(c) ==
  IF c.point # None THEN c.point
  ELSE IF config.point # None /\ config.issuerFile THEN config.point
  ELSE IF config.offline THEN Offline ELSE None

CRLSigner(a, b) ==
  IF Chains[a][b].point # None THEN ChainIssuer(a, b) ELSE config.pointIssuer

(* A configured responder overrides the certificate's own.                 *)
Responder(c) == IF config.responder # None THEN config.responder ELSE c.responder

OCSPIssuer(a, b) ==
  LET c == Chains[a][b]
  IN  IF IsRootCA(c) THEN c
      ELSE IF ChainIssuer(a, b) # None THEN ChainIssuer(a, b) ELSE c.aia

AnswersFor(s, issuer) == issuer # None /\ issuer.key \in Authority[s]

-----------------------------------------------------------------------------
(* One certificate against its revocation list.                            *)

this == Chains[k][i]

NoCRL == pc = "CRL" /\ CRLSource(this) = None /\ Refuse(FALSE)

(* Mutated RetrieveCRLFails: an unreachable list is taken for an empty one. *)
RetrieveCRLSkips ==
  /\ pc = "CRL" /\ CRLSource(this) \in Url
  /\ Pass /\ UNCHANGED cleared

(* Unreachable, unreadable, malformed or expired, or the configured        *)
(* issuer's file is: there is no falling back to the offline list.         *)
RetrieveCRLFails ==
  /\ pc = "CRL" /\ CRLSource(this) \in Url
  /\ Refuse(TRUE)

(* The issuer is not among the client's certificates, or its file is       *)
(* empty: CheckSignatureFrom dereferences nil.                             *)
NilIssuer ==
  /\ pc = "CRL" /\ CRLSource(this) \in Url /\ CRLSigner(k, i) = None
  /\ pc' = "panicked"
  /\ UNCHANGED <<config, auth, hello, posVars, listVars, atStart, cleared, trouble>>

CRLMisSigned ==
  /\ pc = "CRL" /\ CRLSource(this) \in Url /\ CRLSigner(k, i) # None
  /\ ~AnswersFor(CRLSource(this), CRLSigner(k, i))
  /\ Refuse(FALSE)

(* A list is searched by serial number, whoever issued the certificate.    *)
OnList(c, list) == \E r \in list : r.serial = c.serial

(* The newest list of a URL or any older one, as long as it has not expired. *)
Obtainable(s) ==
  IF s = Offline THEN {offline} ELSE {l \in SUBSET listed[s] : fresh[s] \subseteq l}

CRLVerify ==
  /\ pc = "CRL"
  /\ LET s == CRLSource(this)
     IN  /\ s = Offline \/ (s \in Url /\ AnswersFor(s, CRLSigner(k, i)))
         /\ \E list \in Obtainable(s) :
               \/ OnList(this, list) /\ Refuse(FALSE)
               \/ ~OnList(this, list) /\ Clear

-----------------------------------------------------------------------------
(* One certificate and its OCSP responder.                                 *)

(* errIssuerCert, errNoOCSPURL: nothing to ask with, nobody to ask.        *)
CannotAsk ==
  /\ pc = "OCSP"
  /\ OCSPIssuer(k, i) = None \/ Responder(this) = None
  /\ Refuse(FALSE)

(* The issuer or the answer cannot be had, or the answer is neither good   *)
(* nor revoked.                                                            *)
OCSPFails ==
  /\ pc = "OCSP" /\ OCSPIssuer(k, i) # None
  /\ \/ Responder(this) # None
     \/ ~IsRootCA(this) /\ ChainIssuer(k, i) = None
  /\ Refuse(TRUE)

OCSPMisSigned ==
  /\ pc = "OCSP" /\ Responder(this) # None /\ OCSPIssuer(k, i) # None
  /\ ~AnswersFor(Responder(this), OCSPIssuer(k, i))
  /\ Refuse(FALSE)

(* Nobody looks at the times of an answer or asks for a nonce: an old one  *)
(* that says good is as good as a new one.                                 *)
OCSPVerify ==
  /\ pc = "OCSP" /\ Responder(this) # None
  /\ AnswersFor(Responder(this), OCSPIssuer(k, i))
  /\ \/ this \in listed[Responder(this)] /\ Refuse(FALSE)
     \/ Clear

-----------------------------------------------------------------------------
StartUp ==
  \/ NewConfig \/ NewConfigFails
  \/ LoadTLSConfig \/ LoadTLSConfigFails \/ UseValidator

Validate ==
  \/ Handshake \/ Resume \/ Accept \/ NoCertificate \/ MethodFails \/ BeginMethod

CheckCertificate ==
  \/ NoCRL \/ RetrieveCRLFails \/ NilIssuer \/ CRLMisSigned \/ CRLVerify
  \/ CannotAsk \/ OCSPFails \/ OCSPMisSigned \/ OCSPVerify

Next ==
  \/ StartUp \/ Validate \/ CheckCertificate
  \/ \E s \in Source : Expire(s) \/ \E c \in Cert : List(s, c)

Spec == Init /\ [][Next]_vars

-----------------------------------------------------------------------------
(* What a verdict means.                                                   *)

(* What each method examines: all of a verified chain, and of certificates *)
(* as they came the first few.                                             *)
Examined(n, a, b) ==
  /\ n \in DOMAIN config.methods /\ a \in DOMAIN Chains /\ b \in DOMAIN Chains[a]
  /\ Verified \/ Depth(n) = 0 \/ b <= Depth(n)

Judge(n, c) == IF Method(n) = "CRL" THEN CRLSource(c) ELSE Responder(c)

NotRevoked(n, a, b) ==
  LET c == Chains[a][b]
  IN  /\ <<n, a, b>> \in cleared
      /\ Method(n) = "CRL" => c \notin atStart[Judge(n, c)]

(* A client that was asked for certificates is accepted only when, in its  *)
(* full handshake, every configured method obtained for every certificate  *)
(* it has to examine an answer that clears it, and no certificate that a   *)
(* method looked up on a list was on all unexpired versions of the list    *)
(* when that handshake began. A resumed session rests on the full          *)
(* handshake it came from, whatever was revoked since.                     *)
AcceptedIfCleared ==
  pc \in {"accepted", "resumed"} /\ auth # "none" =>
     \A n \in DOMAIN config.methods, a \in DOMAIN Chains :
        \A b \in DOMAIN Chains[a] : Examined(n, a, b) => NotRevoked(n, a, b)

Decidable(n, a, b) ==
  LET s == Judge(n, Chains[a][b])
  IN  \/ s = Offline
      \/ s \in Url /\ AnswersFor(s, IF Method(n) = "CRL" THEN CRLSigner(a, b)
                                                        ELSE OCSPIssuer(a, b))

Flagged(n, c) ==
  LET list == listed[Judge(n, c)]
  IN  IF Method(n) = "CRL" THEN OnList(c, list) ELSE c \in list

(* A certificate is a reason to refuse when it is listed or when nobody    *)
(* answers for it.                                                         *)
Reason(n, a, b) == Decidable(n, a, b) => Flagged(n, Chains[a][b])

(* A client is turned away only when something could not be read or        *)
(* reached, it sent no certificate, or a certificate that a method has to  *)
(* examine is a reason to. The code examines verified chains to their end, *)
(* which is further than its documentation says: see RefusedWithinDepth.   *)
RefusedForReason ==
  pc \in {"refused", "panicked"} =>
     \/ trouble \/ (~Verified /\ hello.raw = << >>)
     \/ \E n \in DOMAIN config.methods, a \in DOMAIN Chains :
           \E b \in DOMAIN Chains[a] : Examined(n, a, b) /\ Reason(n, a, b)

(* The documentation of CRL_DEPTH: at depth 1 only the leaf is verified,   *)
(* so that a certificate deeper in the chain is no reason to refuse. The   *)
(* loop over verified chains has no depth: a root without a distribution   *)
(* point is enough.                                                        *)
RefusedWithinDepth ==
  pc \in {"refused", "panicked"} =>
     \/ trouble \/ (~Verified /\ hello.raw = << >>)
     \/ \E n \in DOMAIN config.methods, a \in DOMAIN Chains :
           \E b \in DOMAIN Chains[a] :
              (Depth(n) = 0 \/ b <= Depth(n)) /\ Reason(n, a, b)
=============================================================================
