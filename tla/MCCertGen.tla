------------------------------ MODULE MCCertGen ------------------------------
(* Profiles of small certificates for CertGen, some with an error, and what   *)
(* is read back from the certificates.                                       *)
EXTENDS CertInfo, SequencesExt

Open(name, v, n, args) == <<[tag |-> "open", name |-> name, v |-> v, n |-> n, args |-> args]>>
Close(name) == <<[tag |-> "close", name |-> name, v |-> Missing, n |-> 0, args |-> <<>>]>>
Data(n) == <<[tag |-> "text", name |-> "text", v |-> Missing, n |-> n, args |-> <<>>]>>

\* A tag that closes itself.
Single(name, v, n, args) ==
  LET open == Open(name, v, n, args) IN open \o <<[open[1] EXCEPT !.tag = "close"]>>

Element(name, v, content) == Open(name, v, 0, <<>>) \o content \o Close(name)
Each(F(_), s) == FlattenSeq([i \in DOMAIN s |-> F(s[i])])

\* The tags of an attribute, of a restriction, of a certificate as they are read.
TagsOfAttribute(a) ==
  LET content ==
        CASE a[1] \in {0, 1} -> Element("public_key", a[2], Single("eccpoint", a[3], 0, <<>>))
          [] a[1] = 2        -> Single("assurance", a[2], 0, <<>>)
          [] a[1] = AidList  -> LET Aid(n) == Single("aid", n, 0, <<>>) IN Each(Aid, Tail(a))
          [] a[1] = AidSspList ->
               FlattenSeq([i \in 1..(Len(a) \div 2) |->
                 Element("ssp", a[2 * i], IF a[2 * i + 1] = 0 THEN <<>> ELSE Data(a[2 * i + 1]))])
          [] OTHER -> <<>>
  IN Element("attribute", a[1], content)

Locations(s) == FlattenSeq([i \in 1..(Len(s) \div 2) |->
                  Single("location", 0, 0, <<s[2 * i - 1], s[2 * i]>>)])

TagsOfRestriction(r) ==
  IF r[1] # Region
  THEN Single("restriction", r[1], 0, Tail(r))
  ELSE LET rest == SubSeq(r, 3, Len(r))
       IN Element("restriction", Region,
            CASE r[2] = 0 -> Single("none", 0, 0, <<>>)
              [] r[2] = 1 -> Single("circle", 0, 0, rest)
              [] r[2] = 2 -> Element("rectangle", 0, Locations(rest))
              [] r[2] = 3 -> Element("polygon", 0, Locations(rest))
              [] OTHER    -> Single("id", 0, rest[3], SubSeq(rest, 1, 2)))

TagsOf(t) ==
  Element("certificate", 0,
    Single("version", t.version, 0, <<>>) \o Single("signer", t.signer, 0, <<>>)
      \o Open("subject", t.type, t.name, <<>>) \o Each(TagsOfAttribute, t.attributes)
      \o Close("subject")
      \o Element("validity", 0, Each(TagsOfRestriction, t.restrictions))
      \o Single("signature", 0, 0, <<>>))

-----------------------------------------------------------------------------
Certificate(signer, name, attributes, restrictions) ==
  [version |-> 2, signer |-> signer, type |-> 1, name |-> name, attributes |-> attributes,
   restrictions |-> restrictions]

VKey == <<0, 0, 2>>
EKey == <<1, 1, 4>>
Attributes == {VKey, EKey, <<2, 5>>, <<AidList>>, <<AidList, 1, 9>>, <<AidSspList, 9, 0, 2, 5>>}
Restrictions == {<<0, 7>>, <<1, 5, 7>>, <<2, 5, 7>>, <<3, 0>>, <<3, 1, 1, 2, 3>>,
                 <<3, 2, 1, 1, 2, 2>>, <<3, 3, 1, 1, 2, 2, 3, 3>>, <<3, 4, 0, 7, 9>>}
Pairs(S) == {<<x, y>> : x \in S, y \in S}

\* Certificates with every pair of attributes, and with every pair of restrictions.
Certificates ==
  {Certificate(signer, 0, a, <<<<0, 7>>>>) : signer \in {0, 1}, a \in Pairs(Attributes)}
    \cup {Certificate(0, 2, <<VKey, EKey>>, r) : r \in Pairs(Restrictions)}

Good == {TagsOf(t) : t \in Certificates}

\* A certificate of many kinds of elements, and its profile with one event left out.
Rich == TagsOf(Certificate(0, 5, <<<<AidSspList, 9, 5>>, VKey>>, <<<<3, 2, 1, 1, 2, 2>>>>))
Damaged == {RemoveAt(Rich, i) : i \in DOMAIN Rich}

\* Certificates with a key in the profile, opaque restrictions, a key of another algorithm,
\* another signer, a key without algorithm or in another attribute, something
\* refused, tags in a text, two certificates, one to be kept, texts between the tags, two
\* signers.
KeyOf(alg, type, content) ==
  Element("attribute", 0, Element("public_key", alg, Element("eccpoint", type, content)))
Body(signer, attributes, restrictions) ==
  Single("version", 2, 0, <<>>) \o Single("signer", signer, 0, <<>>)
    \o Element("subject", 1, attributes) \o Element("validity", 0, restrictions)
    \o Single("signature", 0, 0, <<>>)
Whole(keep, body) == Element("certificate", keep, body)

\* A restriction whose type becomes -3.
Negative(content) == Element("restriction", Wide - 3, content)

NewPoint == Single("eccpoint", 2, 0, <<>>)

Others ==
  {Whole(0, Body(signer, KeyOf(alg, type, Data(n)), <<>>)) :
     signer \in 1..3, alg \in {0, 2}, type \in {2, 4}, n \in 0..2}
    \cup
  {Whole(0, Body(0, Element("attribute", 0, NewPoint) \o TagsOfAttribute(EKey), <<>>)),
   Whole(0, Body(0, Element("attribute", 2, Element("public_key", 0, NewPoint))
                      \o TagsOfAttribute(VKey), <<>>)),
   Whole(0, Body(0, KeyOf(0, 2, Single("aid", 1, 0, <<>>)), <<>>)),
   Whole(0, Body(0, TagsOfAttribute(VKey)
                      \o Element("attribute", AidList, Single("aid", Refused, 0, <<>>)), <<>>)),
   Whole(0, Body(0, TagsOfAttribute(EKey), <<>>)),
   Whole(0, Body(1, Element("attribute", Refused, <<>>), <<>>)),
   Whole(0, Body(1, TagsOfAttribute(EKey),
                 Element("restriction", 7, Element("polygon", 0, Locations(<<1, 1, 2, 2>>))))),
   Whole(0, Body(1, <<>>, Single("signature", 0, 0, <<>>))),
   Whole(0, Body(1, TagsOfAttribute(EKey), Negative(Single("circle", 0, 0, <<1, 1, 2>>)))),
   Whole(0, Body(1, <<>>, Negative(<<>>) \o Negative(<<>>) \o Negative(<<>>))),
   Whole(0, Body(1, <<>>, Negative(Element("polygon", 0, Locations(<<1, 1, 2, 2>>)))))
     \o Whole(0, Body(0, TagsOfAttribute(VKey), Element("restriction", 7, <<>>))),
   Whole(0, Body(1, TagsOfAttribute(VKey), <<>>)) \o Whole(1, Body(0, <<>>, <<>>)),
   Whole(1, Body(0, TagsOfAttribute(VKey), <<>>))
     \o Whole(0, Body(0, TagsOfAttribute(EKey), <<>>)),
   Whole(0, Data(1) \o Body(0, Data(1) \o TagsOfAttribute(VKey), <<>>)),
   Whole(0, Single("version", 2, 0, <<>>) \o Single("signer", 0, 0, <<>>)
              \o Element("subject", 1, TagsOfAttribute(VKey)) \o Single("signer", 1, 0, <<>>)
              \o Element("validity", 0, <<>>) \o Single("signature", 0, 0, <<>>))}

MCProfiles == Good \cup Damaged \cup Others

(* The reader of a certificate finds the fields that were written into it:    *)
(* what it takes from the cells, one after the other by their types and their *)
(* sizes, are the numbers of the profile, also when the sizes and the numbers *)
(* take more than a byte.  (Not what it prints of them.)                    *)
ReadBack ==
  (Complete /\ doc \in Good) =>
    LET read == ReadCertificate(files.crt) IN read \in Certificates /\ TagsOf(read) = doc
=============================================================================
