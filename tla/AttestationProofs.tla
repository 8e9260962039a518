------------------------- MODULE AttestationProofs -------------------------
(***************************************************************************)
(* What Validate and Covers establish together, for every statement and    *)
(* every set of strings: the digest is the only link between a statement   *)
(* and a server, and it is enough because SHA-256 is taken to be injective *)
(* on descriptors and Validate recomputes it from the predicate.           *)
(***************************************************************************)
EXTENDS Attestation, TLAPS

LEMMA TrimType == ASSUME NEW x \in Text PROVE Trim[x] \in Text
  BY TextAssumption

LEMMA DescriptorType ==
  ASSUME NEW t \in [transport : TransportText, endpoint : Text]
  PROVE  Descriptor(t) \in Descriptors
  BY TrimType DEF Descriptor, Descriptors

\* Two targets with one digest are the same server, up to blanks around the
\* endpoint.
LEMMA DigestInjective ==
  ASSUME NEW t \in [transport : TransportText, endpoint : Text],
         NEW u \in [transport : TransportText, endpoint : Text],
         Digest(t) = Digest(u)
  PROVE  t.transport = u.transport /\ Trim[t.endpoint] = Trim[u.endpoint]
<1>1. Descriptor(t) = Descriptor(u)
  BY DescriptorType, DigestAssumption DEF Digest
<1> QED
  BY <1>1 DEF Descriptor

\* A statement that validates and covers a server describes it (Validate,
\* Covers): predicate and displayed name are about that server.
THEOREM ValidCoversDescribes ==
  ASSUME NEW s \in Statement,
         NEW transport \in TransportText, NEW endpoint \in Text,
         Validate(s), Covers(s, transport, endpoint)
  PROVE  Describes(s, transport, endpoint)
<1> DEFINE u == [transport |-> transport, endpoint |-> endpoint]
<1>1. s.target \in [transport : TransportText, endpoint : Text]
  BY DEF Statement
<1>2. SubjectIsAbout(s.subject[1], s.target)
  BY DEF Validate
<1>3. Digest(s.target) = Digest(u)
  BY <1>2 DEF SubjectIsAbout, Covers
<1>4. s.target.transport = transport /\ Trim[s.target.endpoint] = Trim[endpoint]
  BY <1>1, <1>3, DigestInjective
<1> QED
  BY <1>2, <1>4 DEF SubjectIsAbout, Describes

\* It covers the target of its own predicate, blanks around the endpoint apart,
\* and no other server (Validate, Covers).
THEOREM ValidCoversItsOwnOnly ==
  ASSUME NEW s \in Statement, Validate(s),
         NEW transport \in TransportText, NEW endpoint \in Text
  PROVE  Covers(s, transport, endpoint) <=>
           /\ transport = s.target.transport
           /\ Trim[endpoint] = Trim[s.target.endpoint]
<1> DEFINE u == [transport |-> transport, endpoint |-> endpoint]
<1>1. s.target \in [transport : TransportText, endpoint : Text]
  BY DEF Statement
<1>2. /\ Len(s.subject) = 1
      /\ s.subject[1].sha256 = Digest(s.target)
  BY DEF Validate, SubjectIsAbout
<1>3. Covers(s, transport, endpoint) <=> Digest(s.target) = Digest(u)
  BY <1>2 DEF Covers
<1>4. Digest(s.target) = Digest(u)
        => /\ transport = s.target.transport
           /\ Trim[endpoint] = Trim[s.target.endpoint]
  BY <1>1, DigestInjective
<1>5. ASSUME transport = s.target.transport,
             Trim[endpoint] = Trim[s.target.endpoint]
      PROVE  Digest(s.target) = Digest(u)
  BY <1>5 DEF Digest, Descriptor
<1> QED
  BY <1>3, <1>4, <1>5
=============================================================================
