---------------------------- MODULE MCCertVerify ----------------------------
(***************************************************************************)
(* A small instance of CertVerify for TLC: a leaf under an intermediate    *)
(* under a root, an old certificate of the intermediate with another key,  *)
(* and a leaf without any URL.                                             *)
(***************************************************************************)
EXTENDS CertVerify

CONSTANTS url, responderUrl, rootKey, interKey, oldKey, leafKey

Named(dn) == [id |-> None, dn |-> dn]
Numbered(id, dn) == [id |-> id, dn |-> dn]

Root ==
  [serial |-> 1, subject |-> Named("root"), issuer |-> Named("root"), ca |-> TRUE,
   selfKeyed |-> FALSE, key |-> rootKey, point |-> None, responder |-> None, aia |-> None]
Inter ==
  [serial |-> 2, subject |-> Numbered(1, "inter"), issuer |-> Named("root"),
   ca |-> TRUE, selfKeyed |-> FALSE, key |-> interKey, point |-> url,
   responder |-> responderUrl, aia |-> Root]
(* Its serial number is the root's, which another authority gave out.      *)
Leaf ==
  [serial |-> 1, subject |-> Named("leaf"), issuer |-> Numbered(1, "INTER"),
   ca |-> FALSE, selfKeyed |-> FALSE, key |-> leafKey, point |-> url,
   responder |-> responderUrl, aia |-> Inter]
Bare ==
  [Leaf EXCEPT !.serial = 3, !.point = None, !.responder = None, !.aia = None]
(* It bears the name of the intermediate, so that it may be taken for it.  *)
OldInter == [Inter EXCEPT !.serial = 4, !.key = oldKey]

MCCert == {Root, Inter, OldInter, Leaf, Bare}
MCUrl == {url, responderUrl}
MCAuthority == [u \in MCUrl |-> {rootKey, interKey}]

Plain ==
  [methods |-> << >>, keyPair |-> FALSE, clientCA |-> FALSE, offline |-> FALSE,
   issuerFile |-> FALSE, crlDepth |-> 1, ocspDepth |-> 0, point |-> None,
   responder |-> None, pointIssuer |-> None]
Mutual == [Plain EXCEPT !.keyPair = TRUE, !.clientCA = TRUE]

MCConfigs ==
  {Plain, [Mutual EXCEPT !.methods = <<"CRL", "unknown">>, !.offline = TRUE]}
  \cup {[Mutual EXCEPT !.methods = ms, !.offline = o, !.crlDepth = d, !.ocspDepth = d] :
          ms \in {<<"CRL">>, <<"OCSP", "CRL">>}, o \in BOOLEAN, d \in 0..2}
  \cup {[Mutual EXCEPT !.methods = <<"CRL">>, !.offline = TRUE, !.point = url,
                       !.issuerFile = f, !.pointIssuer = c] :
          f \in BOOLEAN, c \in {None, Inter, OldInter}}
  \cup {[Mutual EXCEPT !.methods = <<"OCSP">>, !.responder = responderUrl]}

MCHellos ==
  {[verified |-> v, raw |-> << >>] :
     v \in {<< <<Leaf, Inter, Root>> >>, << <<Bare, Inter>>, <<Bare, Inter, Root>> >>}}
  \cup {[verified |-> << >>, raw |-> r] :
          r \in {<< >>, <<Leaf>>, <<Leaf, OldInter, Inter>>, <<Bare, Inter, Root>>}}
=============================================================================
