------------------------------ MODULE CertInfo ------------------------------
(***************************************************************************)
(* The reader of certificates (tools/itscertgen/checker/certinfo.c), on the  *)
(* cells that CertGen writes: the fields it takes from them, and the key with *)
(* which it checks the certificates that this one has signed.  The text that *)
(* it prints of the fields is left out: it is not a profile (a region is      *)
(* printed with another type, attributes and tags with other names).         *)
(*                                                                         *)
(* An attribute is read as <<type, ...>>, a restriction as <<type, ...>> or   *)
(* <<Region, region type, ...>>, both with the numbers that are read.        *)
(***************************************************************************)
EXTENDS CertGen

\* What is read at p: past the end, what happens to be there.
ReadAt(c, p) == IF p \in DOMAIN c THEN c[p].v ELSE 0

\* cintx_read: where the number that begins at p ends.
NumEnd(c, p) == p + Len(Num(ReadAt(c, p)))

PointSize(c, p) == IF ReadAt(c, p) = 4 THEN 3 ELSE 2

ReadAids(c, p, e) ==
  LET read[q \in Nat] == IF q >= e THEN <<>> ELSE <<ReadAt(c, q)>> \o read[NumEnd(c, q)]
  IN read[p]

ReadSsps(c, p, e) ==
  LET read[q \in Nat] ==
        LET length == ReadAt(c, NumEnd(c, q))
        IN IF q >= e THEN <<>>
           ELSE <<ReadAt(c, q), length>> \o read[NumEnd(c, NumEnd(c, q)) + length]
  IN read[p]

\* print_attributes, up to e.
ReadAttributes(c, p, e) ==
  LET read[q \in Nat] ==
        LET type == ReadAt(c, q)
            key == IF ReadAt(c, q + 1) = 1 THEN q + 3 ELSE q + 2
            list == NumEnd(c, q + 1)
            end == list + ReadAt(c, q + 1)
        IN IF q >= e THEN <<>>
           ELSE CASE type \in {0, 1} -> <<<<type, ReadAt(c, q + 1), ReadAt(c, key)>>>>
                                         \o read[key + PointSize(c, key)]
                  [] type = 2 -> <<<<2, ReadAt(c, q + 1)>>>> \o read[q + 2]
                  [] type = 3 -> <<<<3, ReadAt(c, q + 1)>>>> \o read[q + 1 + PointSize(c, q + 1)]
                  [] type = AidList    -> <<<<type>> \o ReadAids(c, list, end)>> \o read[end]
                  [] type = AidSspList -> <<<<type>> \o ReadSsps(c, list, end)>> \o read[end]
                  [] OTHER             -> <<>>
  IN read[p]

\* print_validity, up to e: a type that is not known takes one byte.
ReadRestrictions(c, p, e) ==
  LET read[q \in Nat] ==
        LET type == ReadAt(c, q)
            region == ReadAt(c, q + 1)
            list == NumEnd(c, q + 2)
            end == list + ReadAt(c, q + 2)
            From(first, n) == [i \in 1..n |-> ReadAt(c, first + i - 1)]
            Take(n) == <<From(q, n)>> \o read[q + n]
        IN IF q >= e THEN <<>>
           ELSE CASE type = 0         -> Take(2)
                  [] type \in {1, 2} -> Take(3)
                  [] type = Region /\ region = 1 -> Take(5)
                  [] type = Region /\ region \in {2, 3} ->
                       IF end > e THEN <<>>
                       ELSE <<<<Region, region>> \o From(list, end - list)>> \o read[end]
                  [] type = Region /\ region = 4 -> <<From(q, 5)>> \o read[NumEnd(c, q + 4)]
                  [] type = Region /\ region \notin 1..4 -> Take(2)
                  [] OTHER -> read[q + 1]
  IN read[p]

\* Where the subject begins: after no signer, or after a digest.
SubjectAt(c) == IF ReadAt(c, 2) = 1 THEN 4 ELSE 3

\* The length of the name is taken to be one byte.
AttributesAt(c) == SubjectAt(c) + 2 + ReadAt(c, SubjectAt(c) + 1)

\* main: certificates with a signer of another kind are not read.
ReadCertificate(c) ==
  LET subject == SubjectAt(c)
      attributes == NumEnd(c, AttributesAt(c))
      validity == attributes + ReadAt(c, AttributesAt(c))
      restrictions == NumEnd(c, validity)
  IN [version |-> ReadAt(c, 1), signer |-> ReadAt(c, 2), type |-> ReadAt(c, subject),
      name |-> ReadAt(c, subject + 1), attributes |-> ReadAttributes(c, attributes, validity),
      restrictions |-> ReadRestrictions(c, restrictions, restrictions + ReadAt(c, validity))]

FirstAttribute(c) == NumEnd(c, AttributesAt(c))

\* get_verification_key: the key of the first attribute, behind its type, its algorithm and the
\* type of the point.
VerificationKey(c) == ReadAt(c, FirstAttribute(c) + 3)

-----------------------------------------------------------------------------
(* The profile of a self-signed certificate, as the reader expects it: its    *)
(* first tags lead to the point of a verification key for ECDSA, the name is  *)
(* one whose length the reader understands, and no other tag takes the place *)
(* of these.                                                                *)
HeadTags == <<<<"open", "certificate">>, <<"open", "version">>, <<"close", "version">>,
            <<"open", "signer">>, <<"close", "signer">>, <<"open", "subject">>,
            <<"open", "attribute">>, <<"open", "public_key">>,
            <<"open", "eccpoint">>, <<"close", "eccpoint">>>>

\* How many tags there are up to the event i.
TagsUpTo(i) == Cardinality({k \in DOMAIN doc : k <= i /\ doc[k].tag # "text"})

SelfSigned ==
  \A i \in DOMAIN doc :
    LET t == TagsUpTo(i)
    IN /\ (doc[i].tag # "text" /\ t <= Len(HeadTags)) => <<doc[i].tag, doc[i].name>> = HeadTags[t]
       /\ OpensAt(i, "subject") /\ t = 6 => doc[i].n < Short
       /\ OpensAt(i, "attribute") => (t = 7 <=> doc[i].v = 0)
       /\ OpensAt(i, "public_key") /\ t = 8 => doc[i].v = 0
       /\ OpensAt(i, "signer") => doc[i].v = 0
       /\ OpensAt(i, "certificate") => t = 1

(* The signature of a self-signed certificate is made with the key that the  *)
(* reader finds in it: keys that are given, reused or generated on the way,  *)
(* and the key of encryption, do not take its place.                        *)
SelfSignedVerifies ==
  (Complete /\ SelfSigned) =>
    \A i \in DOMAIN buf : buf[i].k = "sig" => buf[i].v = VerificationKey(buf)
=============================================================================
