---------------------------- MODULE CertGenProof ----------------------------
(***************************************************************************)
(* Proofs about a certificate, for every profile.  The sizes: the bookmarks  *)
(* are those of the open elements, the program never gives up on them, and   *)
(* no size is written into what was signed.  The keys: none is generated     *)
(* twice, one that was generated for the certificate is saved, and a         *)
(* certificate that signs itself is signed with the key it carries.         *)
(***************************************************************************)
EXTENDS CertInfo, SequenceTheorems, FiniteSetTheorems, TLAPS

-----------------------------------------------------------------------------
(* Cells.                                                                   *)

\* Cells of which none is a size, and cells of which none is a signature either.
SizeFree(s) == s \in Seq(Cell) /\ \A i \in 1..Len(s) : s[i].k # "size"
Plain(s) == s \in Seq(Cell) /\ \A i \in 1..Len(s) : s[i].k # "size" /\ s[i].k # "sig"

\* Cells that are fields, numbers and texts, and cells without a key.
Simple(s) ==
  s \in Seq(Cell) /\ \A i \in 1..Len(s) : s[i].k \in {"field", "num", "more", "text"}
Keyless(s) == s \in Seq(Cell) /\ \A i \in 1..Len(s) : s[i].k # "x"

LEMMA CellFacts ==
  ASSUME NEW k \in Kind, NEW v \in Int
  PROVE  C(k, v) \in Cell /\ C(k, v).k = k
<1> QED BY DEF C, Cell

LEMMA LeftFacts == Left \in Cell /\ Left.k = "size" /\ \A c \in Cell : c = Left => c.k = "size"
<1> QED BY DEF Left, C, Cell, Kind

LEMMA ConcatFacts ==
  ASSUME NEW s \in Seq(Cell), NEW t \in Seq(Cell)
  PROVE  /\ s \o t \in Seq(Cell) /\ Len(s \o t) = Len(s) + Len(t)
         /\ Len(s) \in Nat /\ Len(t) \in Nat
         /\ \A i \in 1..Len(s) : (s \o t)[i] = s[i]
         /\ \A i \in 1..Len(t) : (s \o t)[Len(s) + i] = t[i]
         /\ \A i \in 1..Len(s \o t) : i <= Len(s) \/ i - Len(s) \in 1..Len(t)
<1>1. /\ s \o t \in Seq(Cell) /\ Len(s \o t) = Len(s) + Len(t)
      /\ \A i \in 1..(Len(s) + Len(t)) :
           (s \o t)[i] = IF i <= Len(s) THEN s[i] ELSE t[i - Len(s)]
  BY ConcatProperties
<1>2. Len(s) \in Nat /\ Len(t) \in Nat
  BY LenProperties
<1> QED BY <1>1, <1>2, SMT

LEMMA SinglePlain ==
  ASSUME NEW k \in Kind, NEW v \in Int, k # "size"
  PROVE  /\ SizeFree(<<C(k, v)>>) /\ Len(<<C(k, v)>>) = 1
         /\ k # "sig" => Plain(<<C(k, v)>>)
         /\ k \in {"field", "num", "more", "text"} => Simple(<<C(k, v)>>)
         /\ k # "x" => Keyless(<<C(k, v)>>)
<1> DEFINE c == C(k, v)
<1>1. c \in Cell /\ c.k = k
  BY CellFacts
<1> HIDE DEF c
<1>2. <<c>> \in Seq(Cell) /\ Len(<<c>>) = 1 /\ <<c>>[1] = c
  BY <1>1
<1>3. \A i \in 1..Len(<<c>>) : <<c>>[i] = c
  BY <1>2, SMT
<1>4. SizeFree(<<c>>) /\ (k # "sig" => Plain(<<c>>))
  BY <1>1, <1>2, <1>3 DEF SizeFree, Plain
<1>5. /\ k \in {"field", "num", "more", "text"} => Simple(<<c>>)
      /\ k # "x" => Keyless(<<c>>)
  BY <1>1, <1>2, <1>3 DEF Simple, Keyless
<1> QED BY <1>2, <1>4, <1>5 DEF c

LEMMA ConcatPlain ==
  ASSUME NEW s, NEW t
  PROVE  /\ (SizeFree(s) /\ SizeFree(t)) => SizeFree(s \o t)
         /\ (Plain(s) /\ Plain(t)) => Plain(s \o t)
         /\ (Simple(s) /\ Simple(t)) => Simple(s \o t)
         /\ (Keyless(s) /\ Keyless(t)) => Keyless(s \o t)
<1>1. ASSUME SizeFree(s), SizeFree(t) PROVE SizeFree(s \o t)
  <2>1. s \in Seq(Cell) /\ t \in Seq(Cell)
    BY <1>1 DEF SizeFree
  <2> QED BY <1>1, <2>1, ConcatFacts, SMT DEF SizeFree
<1>2. ASSUME Plain(s), Plain(t) PROVE Plain(s \o t)
  <2>1. s \in Seq(Cell) /\ t \in Seq(Cell)
    BY <1>2 DEF Plain
  <2> QED BY <1>2, <2>1, ConcatFacts, SMT DEF Plain
<1>3. ASSUME Simple(s), Simple(t) PROVE Simple(s \o t)
  <2>1. s \in Seq(Cell) /\ t \in Seq(Cell)
    BY <1>3 DEF Simple
  <2> QED BY <1>3, <2>1, ConcatFacts, SMT DEF Simple
<1>4. ASSUME Keyless(s), Keyless(t) PROVE Keyless(s \o t)
  <2>1. s \in Seq(Cell) /\ t \in Seq(Cell)
    BY <1>4 DEF Keyless
  <2> QED BY <1>4, <2>1, ConcatFacts, SMT DEF Keyless
<1> QED BY <1>1, <1>2, <1>3, <1>4

LEMMA NoneSimple == Simple(<<>>)
<1> QED BY EmptySeq, SMT DEF Simple

LEMMA PlainIsSizeFree ==
  ASSUME NEW s, Plain(s)
  PROVE  SizeFree(s)
<1> QED BY DEF Plain, SizeFree

LEMMA SimpleIsPlain ==
  ASSUME NEW s, Simple(s)
  PROVE  Plain(s) /\ SizeFree(s) /\ Keyless(s)
<1> QED BY DEF Simple, Plain, SizeFree, Keyless

LEMMA TypeSimple ==
  ASSUME NEW n \in Int
  PROVE  Simple(Type(n))
<1>1. n % 256 \in Int
  BY SMT
<1> QED BY <1>1, SinglePlain DEF Type, Kind

LEMMA PairFacts ==
  ASSUME NEW c \in Cell, NEW d \in Cell
  PROVE  /\ <<c, d>> \in Seq(Cell) /\ Len(<<c, d>>) = 2
         /\ \A i \in 1..2 : <<c, d>>[i] = c \/ <<c, d>>[i] = d
<1>1. <<c, d>> \in Seq(Cell) /\ Len(<<c, d>>) = 2
  OBVIOUS
<1>2. <<c, d>>[1] = c /\ <<c, d>>[2] = d
  OBVIOUS
<1>3. \A i \in 1..2 : i = 1 \/ i = 2
  BY SMT
<1> QED BY <1>1, <1>2, <1>3

\* A number takes at least one cell.
LEMMA NumSimple ==
  ASSUME NEW n \in Int
  PROVE  Simple(Num(n)) /\ Len(Num(n)) \in Nat /\ Len(Num(n)) >= 1
<1> DEFINE c == C("num", n)
           d == C("more", 0)
<1>1. c \in Cell /\ c.k = "num" /\ d \in Cell /\ d.k = "more"
  BY CellFacts DEF Kind
<1>2. Simple(<<c>>) /\ Len(<<c>>) = 1
  BY SinglePlain DEF Kind
<1>3. Num(n) = <<c>> \/ Num(n) = <<c, d>>
  BY DEF Num
<1> HIDE DEF c, d
<1>4. Simple(<<c, d>>) /\ Len(<<c, d>>) = 2
  BY <1>1, PairFacts, SMT DEF Simple
<1> QED BY <1>2, <1>3, <1>4, SMT

LEMMA FieldsSimple ==
  ASSUME NEW a \in Seq(Nat)
  PROVE  Simple(Fields(a))
<1>1. Len(a) \in Nat /\ \A i \in 1..Len(a) : a[i] \in Int
  BY LenProperties, ElementOfSeq, SMT
<1>2. \A i \in 1..Len(a) : C("field", a[i]) \in Cell /\ C("field", a[i]).k = "field"
  BY <1>1, CellFacts DEF Kind
<1>3. Fields(a) \in Seq(Cell) /\ Len(Fields(a)) = Len(a)
      /\ \A i \in 1..Len(a) : Fields(a)[i] = C("field", a[i])
  BY <1>1, <1>2, SMT DEF Fields
<1> QED BY <1>2, <1>3 DEF Simple

LEMMA TextSimple ==
  ASSUME NEW n \in Nat
  PROVE  Simple(Text(n))
<1> DEFINE c == C("text", 0)
<1>1. c \in Cell /\ c.k = "text"
  BY CellFacts DEF Kind
<1> HIDE DEF c
<1>2. Text(n) = [i \in 1..n |-> c]
  BY DEF Text, c
<1>3. Text(n) \in Seq(Cell) /\ Len(Text(n)) = n /\ \A i \in 1..n : Text(n)[i] = c
  BY <1>1, <1>2, SMT
<1> QED BY <1>1, <1>3 DEF Simple

-----------------------------------------------------------------------------
(* The bookmarks m of a certificate b.                                      *)

Increasing(m) == \A i, j \in DOMAIN m : i < j => m[i] < m[j]
LeftAtMarks(b, m) == \A p \in DOMAIN b : b[p] = Left <=> \E i \in DOMAIN m : m[i] = p
Matched(b, m) ==
  /\ Increasing(m) /\ LeftAtMarks(b, m)
  /\ \A i \in DOMAIN m : m[i] \in DOMAIN b

\* The last k bookmarks are in the certificate one after the other, behind everything signed.
Placed(b, m, k) ==
  \A i \in DOMAIN m : i > Len(m) - k =>
    /\ m[i] \in DOMAIN b /\ b[m[i]] = Left
    /\ \A j \in DOMAIN m : i < j => m[i] < m[j]
    /\ \A p \in DOMAIN b : b[p].k = "sig" => p < m[i]

LEMMA NothingMatched == Matched(<<>>, <<>>)
<1> QED BY DEF Matched, Increasing, LeftAtMarks

LEMMA NonePlaced ==
  ASSUME NEW b, NEW m \in Seq(Nat \ {0})
  PROVE  Placed(b, m, 0)
<1>1. Len(m) \in Nat /\ DOMAIN m = 1..Len(m)
  BY LenProperties
<1>2. \A i \in 1..Len(m) : ~(i > Len(m) - 0)
  BY <1>1, SMT
<1> QED BY <1>1, <1>2 DEF Placed

LEMMA FewerPlaced ==
  ASSUME NEW b, NEW m \in Seq(Nat \ {0}), NEW k \in Nat, Placed(b, m, k + 1)
  PROVE  Placed(b, m, k)
<1>1. Len(m) \in Nat /\ DOMAIN m = 1..Len(m)
  BY LenProperties
<1>2. \A i \in 1..Len(m) : i > Len(m) - k => i > Len(m) - (k + 1)
  BY <1>1, SMT
<1> QED BY <1>1, <1>2 DEF Placed

\* What is appended to the certificate has no size left.
LEMMA Extended ==
  ASSUME NEW b \in Seq(Cell), NEW m \in Seq(Nat \ {0}), NEW w, SizeFree(w), Matched(b, m)
  PROVE  Matched(b \o w, m)
<1>1. w \in Seq(Cell) /\ \A i \in 1..Len(w) : w[i].k # "size"
  BY DEF SizeFree
<1>2. /\ Len(b \o w) = Len(b) + Len(w) /\ Len(b) \in Nat /\ Len(w) \in Nat
      /\ \A i \in 1..Len(b) : (b \o w)[i] = b[i]
      /\ \A i \in 1..Len(w) : (b \o w)[Len(b) + i] = w[i]
      /\ \A i \in 1..Len(b \o w) : i <= Len(b) \/ i - Len(b) \in 1..Len(w)
      /\ DOMAIN b = 1..Len(b) /\ DOMAIN (b \o w) = 1..Len(b \o w) /\ b \o w \in Seq(Cell)
  BY <1>1, ConcatFacts, LenProperties
<1>3. \A i \in DOMAIN m : m[i] \in 1..Len(b)
  BY <1>2 DEF Matched
<1>4. ASSUME NEW p \in 1..Len(b \o w)
      PROVE  (b \o w)[p] = Left <=> \E i \in DOMAIN m : m[i] = p
  <2>1. CASE p <= Len(b)
    <3>1. p \in 1..Len(b) /\ (b \o w)[p] = b[p]
      BY <1>2, <2>1, SMT
    <3> QED BY <1>2, <3>1 DEF Matched, LeftAtMarks
  <2>2. CASE ~(p <= Len(b))
    <3>1. p - Len(b) \in 1..Len(w) /\ p = Len(b) + (p - Len(b))
      BY <1>2, <2>2, SMT
    <3>2. (b \o w)[p] = w[p - Len(b)]
      BY <1>2, <3>1
    <3>3. w[p - Len(b)].k # "size"
      BY <1>1, <3>1
    <3>4. (b \o w)[p] # Left
      BY <3>2, <3>3, LeftFacts
    <3>5. ~\E i \in DOMAIN m : m[i] = p
      BY <1>2, <1>3, <2>2, SMT
    <3> QED BY <3>4, <3>5
  <2> QED BY <2>1, <2>2
<1>5. \A i \in DOMAIN m : m[i] \in 1..Len(b \o w)
  BY <1>2, <1>3, SMT
<1> QED BY <1>2, <1>4, <1>5 DEF Matched, LeftAtMarks

LEMMA ExtendedPlaced ==
  ASSUME NEW b \in Seq(Cell), NEW m \in Seq(Nat \ {0}), NEW k \in Nat, NEW w \in Seq(Cell),
         Placed(b, m, k), Plain(w) \/ k = 0
  PROVE  Placed(b \o w, m, k)
<1>1. CASE k = 0
  BY <1>1, NonePlaced
<1>2. CASE Plain(w)
  <2>1. /\ Len(b \o w) = Len(b) + Len(w) /\ Len(b) \in Nat /\ Len(w) \in Nat
        /\ \A i \in 1..Len(b) : (b \o w)[i] = b[i]
        /\ \A i \in 1..Len(w) : (b \o w)[Len(b) + i] = w[i]
        /\ \A i \in 1..Len(b \o w) : i <= Len(b) \/ i - Len(b) \in 1..Len(w)
        /\ DOMAIN b = 1..Len(b) /\ DOMAIN (b \o w) = 1..Len(b \o w)
    BY ConcatFacts, LenProperties
  <2>2. SUFFICES ASSUME NEW i \in DOMAIN m, i > Len(m) - k
                 PROVE  /\ m[i] \in DOMAIN (b \o w) /\ (b \o w)[m[i]] = Left
                        /\ \A j \in DOMAIN m : i < j => m[i] < m[j]
                        /\ \A p \in DOMAIN (b \o w) : (b \o w)[p].k = "sig" => p < m[i]
    BY DEF Placed
  <2>3. /\ m[i] \in 1..Len(b) /\ b[m[i]] = Left /\ \A j \in DOMAIN m : i < j => m[i] < m[j]
        /\ \A p \in 1..Len(b) : b[p].k = "sig" => p < m[i]
    BY <2>1, <2>2 DEF Placed
  <2>4. m[i] \in 1..Len(b \o w)
    BY <2>1, <2>3, SMT
  <2>5. ASSUME NEW p \in 1..Len(b \o w), (b \o w)[p].k = "sig" PROVE p < m[i]
    <3>1. CASE p <= Len(b)
      <4>1. p \in 1..Len(b) /\ (b \o w)[p] = b[p]
        BY <2>1, <3>1, SMT
      <4> QED BY <2>3, <2>5, <4>1
    <3>2. CASE ~(p <= Len(b))
      <4>1. p - Len(b) \in 1..Len(w) /\ p = Len(b) + (p - Len(b))
        BY <2>1, <3>2, SMT
      <4>2. (b \o w)[p] = w[p - Len(b)]
        BY <2>1, <4>1
      <4> QED BY <1>2, <2>5, <4>1, <4>2 DEF Plain
    <3> QED BY <3>1, <3>2
  <2> QED BY <2>1, <2>3, <2>4, <2>5
<1> QED BY <1>1, <1>2

\* A byte is left for a size.
LEMMA Pushed ==
  ASSUME NEW b \in Seq(Cell), NEW m \in Seq(Nat \ {0}), Matched(b, m)
  PROVE  Matched(Append(b, Left), Append(m, Len(b) + 1))
<1> DEFINE c == Append(b, Left)
           n == Append(m, Len(b) + 1)
<1>1. /\ Len(b) \in Nat /\ Len(m) \in Nat /\ DOMAIN b = 1..Len(b) /\ DOMAIN m = 1..Len(m)
      /\ Len(b) + 1 \in Nat \ {0}
  BY LenProperties, SMT
<1>2. /\ c \in Seq(Cell) /\ Len(c) = Len(b) + 1 /\ c[Len(b) + 1] = Left
      /\ \A i \in 1..Len(b) : c[i] = b[i]
  BY LeftFacts, AppendProperties
<1>3. /\ n \in Seq(Nat \ {0}) /\ Len(n) = Len(m) + 1 /\ n[Len(m) + 1] = Len(b) + 1
      /\ \A i \in 1..Len(m) : n[i] = m[i]
  BY <1>1, AppendProperties
<1>4. DOMAIN c = 1..(Len(b) + 1) /\ DOMAIN n = 1..(Len(m) + 1)
  BY <1>2, <1>3, LenProperties
<1>5. \A i \in 1..Len(m) : m[i] \in 1..Len(b)
  BY <1>1 DEF Matched
<1> HIDE DEF c, n
<1>6. Increasing(n)
  <2>1. SUFFICES ASSUME NEW i \in 1..(Len(m) + 1), NEW j \in 1..(Len(m) + 1), i < j
                 PROVE  n[i] < n[j]
    BY <1>4 DEF Increasing
  <2>2. i \in 1..Len(m)
    BY <1>1, <2>1, SMT
  <2>3. CASE j = Len(m) + 1
    BY <1>1, <1>3, <1>5, <2>2, <2>3, SMT
  <2>4. CASE j # Len(m) + 1
    <3>1. j \in 1..Len(m)
      BY <1>1, <2>1, <2>4, SMT
    <3>2. m[i] < m[j]
      BY <1>1, <2>1, <2>2, <3>1 DEF Matched, Increasing
    <3> QED BY <1>3, <2>2, <3>1, <3>2
  <2> QED BY <2>3, <2>4
<1>7. LeftAtMarks(c, n)
  <2>1. SUFFICES ASSUME NEW p \in 1..(Len(b) + 1)
                 PROVE  c[p] = Left <=> \E i \in 1..(Len(m) + 1) : n[i] = p
    BY <1>4 DEF LeftAtMarks
  <2>2. CASE p = Len(b) + 1
    <3>1. Len(m) + 1 \in 1..(Len(m) + 1)
      BY <1>1, SMT
    <3> QED BY <1>2, <1>3, <2>2, <3>1
  <2>3. CASE p # Len(b) + 1
    <3>1. p \in 1..Len(b)
      BY <1>1, <2>3, SMT
    <3>2. c[p] = Left <=> \E i \in 1..Len(m) : m[i] = p
      BY <1>1, <1>2, <3>1 DEF Matched, LeftAtMarks
    <3>3. \A i \in 1..(Len(m) + 1) : i \in 1..Len(m) \/ i = Len(m) + 1
      BY <1>1, SMT
    <3>4. \A i \in 1..Len(m) : i \in 1..(Len(m) + 1)
      BY <1>1, SMT
    <3> QED BY <1>3, <2>3, <3>2, <3>3, <3>4
  <2> QED BY <2>2, <2>3
<1>8. \A i \in 1..(Len(m) + 1) : n[i] \in 1..(Len(b) + 1)
  BY <1>1, <1>3, <1>5, SMT
<1>9. Matched(c, n)
  BY <1>4, <1>6, <1>7, <1>8 DEF Matched
<1> QED BY <1>9 DEF c, n

LEMMA PushedPlaced ==
  ASSUME NEW b \in Seq(Cell), NEW m \in Seq(Nat \ {0}), NEW k \in Nat, k <= Len(m),
         Placed(b, m, k)
  PROVE  /\ Append(b, Left) \in Seq(Cell) /\ Append(m, Len(b) + 1) \in Seq(Nat \ {0})
         /\ Len(Append(m, Len(b) + 1)) = Len(m) + 1
         /\ Placed(Append(b, Left), Append(m, Len(b) + 1), k + 1)
<1> DEFINE c == Append(b, Left)
           n == Append(m, Len(b) + 1)
<1>1. /\ Len(b) \in Nat /\ Len(m) \in Nat /\ DOMAIN b = 1..Len(b) /\ DOMAIN m = 1..Len(m)
      /\ Len(b) + 1 \in Nat \ {0}
  BY LenProperties, SMT
<1>2. /\ c \in Seq(Cell) /\ Len(c) = Len(b) + 1 /\ c[Len(b) + 1] = Left
      /\ \A i \in 1..Len(b) : c[i] = b[i]
  BY LeftFacts, AppendProperties
<1>3. /\ n \in Seq(Nat \ {0}) /\ Len(n) = Len(m) + 1 /\ n[Len(m) + 1] = Len(b) + 1
      /\ \A i \in 1..Len(m) : n[i] = m[i]
  BY <1>1, AppendProperties
<1>4. DOMAIN c = 1..(Len(b) + 1) /\ DOMAIN n = 1..(Len(m) + 1)
  BY <1>2, <1>3, LenProperties
<1> HIDE DEF c, n
<1>5. \A p \in 1..(Len(b) + 1) : c[p].k = "sig" => p \in 1..Len(b) /\ b[p].k = "sig"
  <2>1. \A p \in 1..(Len(b) + 1) : p \in 1..Len(b) \/ p = Len(b) + 1
    BY <1>1, SMT
  <2> QED BY <1>2, <2>1, LeftFacts
<1>6. ASSUME NEW i \in 1..(Len(m) + 1), i > (Len(m) + 1) - (k + 1)
      PROVE  /\ n[i] \in 1..(Len(b) + 1) /\ c[n[i]] = Left
             /\ \A j \in 1..(Len(m) + 1) : i < j => n[i] < n[j]
             /\ \A p \in 1..(Len(b) + 1) : c[p].k = "sig" => p < n[i]
  <2>1. CASE i = Len(m) + 1
    <3>1. n[i] = Len(b) + 1
      BY <1>3, <2>1
    <3>2. ~\E j \in 1..(Len(m) + 1) : i < j
      BY <1>1, <2>1, SMT
    <3>3. \A p \in 1..Len(b) : p < Len(b) + 1
      BY <1>1, SMT
    <3>4. n[i] \in 1..(Len(b) + 1) /\ c[n[i]] = Left
      BY <1>1, <1>2, <3>1, SMT
    <3> QED BY <1>5, <3>1, <3>2, <3>3, <3>4
  <2>2. CASE i # Len(m) + 1
    <3>1. i \in 1..Len(m) /\ i > Len(m) - k
      BY <1>1, <1>6, <2>2, SMT
    <3>2. /\ m[i] \in 1..Len(b) /\ b[m[i]] = Left /\ \A j \in 1..Len(m) : i < j => m[i] < m[j]
          /\ \A p \in 1..Len(b) : b[p].k = "sig" => p < m[i]
      BY <1>1, <3>1 DEF Placed
    <3>3. n[i] = m[i] /\ n[i] \in 1..(Len(b) + 1) /\ n[i] < Len(b) + 1
      BY <1>1, <1>3, <3>1, <3>2, SMT
    <3>4. \A j \in 1..(Len(m) + 1) : j \in 1..Len(m) \/ j = Len(m) + 1
      BY <1>1, SMT
    <3> QED BY <1>2, <1>3, <1>5, <3>2, <3>3, <3>4
  <2> QED BY <2>1, <2>2
<1>7. Placed(c, n, k + 1)
  BY <1>3, <1>4, <1>6 DEF Placed
<1> QED BY <1>2, <1>3, <1>7 DEF c, n

\* A size is written at the last bookmark q, and the content moved behind it.
Resized(b, q, w) == SubSeq(b, 1, q - 1) \o w \o SubSeq(b, q + 1, Len(b))

LEMMA ResizedFacts ==
  ASSUME NEW b \in Seq(Cell), NEW q \in 1..Len(b), NEW w \in Seq(Cell), Len(w) >= 1
  PROVE  /\ Resized(b, q, w) \in Seq(Cell) /\ Len(w) \in Nat /\ Len(b) \in Nat
         /\ Len(Resized(b, q, w)) = Len(b) - 1 + Len(w)
         /\ \A i \in 1..(q - 1) : Resized(b, q, w)[i] = b[i]
         /\ \A i \in 1..Len(w) : Resized(b, q, w)[(q - 1) + i] = w[i]
         /\ \A i \in 1..(Len(b) - q) : Resized(b, q, w)[(q - 1 + Len(w)) + i] = b[q + i]
<1> DEFINE s == SubSeq(b, 1, q - 1)
           t == SubSeq(b, q + 1, Len(b))
           u == s \o w
<1>1. Len(b) \in Nat /\ Len(w) \in Nat /\ q \in Int /\ q - 1 \in Int /\ q + 1 \in Int
  BY LenProperties, SMT
<1>2. \A i \in 1..Len(b) : b[i] \in Cell
  BY ElementOfSeq
<1>3. (\A i \in 1..(q - 1) : b[i] \in Cell) /\ (\A i \in (q + 1)..Len(b) : b[i] \in Cell)
  BY <1>1, <1>2, SMT
<1>4. /\ s \in Seq(Cell)
      /\ Len(s) = IF 1 <= q - 1 THEN (q - 1) - 1 + 1 ELSE 0
      /\ \A i \in 1..((q - 1) - 1 + 1) : s[i] = b[1 + i - 1]
  BY <1>1, <1>3, SubSeqProperties
<1>5. /\ t \in Seq(Cell)
      /\ Len(t) = IF q + 1 <= Len(b) THEN Len(b) - (q + 1) + 1 ELSE 0
      /\ \A i \in 1..(Len(b) - (q + 1) + 1) : t[i] = b[(q + 1) + i - 1]
  BY <1>1, <1>3, SubSeqProperties
<1>6. Len(s) = q - 1 /\ Len(t) = Len(b) - q
  BY <1>1, <1>4, <1>5, SMT
<1>7. (\A i \in 1..(q - 1) : s[i] = b[i]) /\ (\A i \in 1..(Len(b) - q) : t[i] = b[q + i])
  <2>1. ASSUME NEW i \in 1..(q - 1) PROVE s[i] = b[i]
    <3>1. i \in 1..((q - 1) - 1 + 1) /\ 1 + i - 1 = i
      BY <1>1, SMT
    <3> QED BY <1>4, <3>1
  <2>2. ASSUME NEW i \in 1..(Len(b) - q) PROVE t[i] = b[q + i]
    <3>1. i \in 1..(Len(b) - (q + 1) + 1) /\ (q + 1) + i - 1 = q + i
      BY <1>1, SMT
    <3> QED BY <1>5, <3>1
  <2> QED BY <2>1, <2>2
<1>8. /\ u \in Seq(Cell) /\ Len(u) = q - 1 + Len(w)
      /\ (\A i \in 1..(q - 1) : u[i] = s[i]) /\ (\A i \in 1..Len(w) : u[(q - 1) + i] = w[i])
  <2>1. s \in Seq(Cell)
    BY <1>4
  <2>2. /\ u \in Seq(Cell) /\ Len(u) = Len(s) + Len(w)
        /\ (\A i \in 1..Len(s) : u[i] = s[i]) /\ (\A i \in 1..Len(w) : u[Len(s) + i] = w[i])
    BY <2>1, ConcatFacts
  <2> QED BY <1>6, <2>2
<1>9. /\ u \o t \in Seq(Cell) /\ Len(u \o t) = Len(u) + Len(t)
      /\ (\A i \in 1..Len(u) : (u \o t)[i] = u[i])
      /\ (\A i \in 1..Len(t) : (u \o t)[Len(u) + i] = t[i])
  BY <1>5, <1>8, ConcatFacts
<1> HIDE DEF s, t, u
<1>10. \A i \in 1..(q - 1) : (u \o t)[i] = b[i]
  <2>1. \A i \in 1..(q - 1) : i \in 1..Len(u)
    BY <1>1, <1>8, SMT
  <2> QED BY <1>7, <1>8, <1>9, <2>1
<1>11. \A i \in 1..Len(w) : (u \o t)[(q - 1) + i] = w[i]
  <2>1. \A i \in 1..Len(w) : (q - 1) + i \in 1..Len(u)
    BY <1>1, <1>8, SMT
  <2> QED BY <1>8, <1>9, <2>1
<1>12. \A i \in 1..(Len(b) - q) : (u \o t)[(q - 1 + Len(w)) + i] = b[q + i]
  BY <1>6, <1>7, <1>8, <1>9
<1>13. Len(u \o t) = Len(b) - 1 + Len(w)
  BY <1>1, <1>6, <1>8, <1>9, SMT
<1>14. Resized(b, q, w) = u \o t
  BY DEF Resized, u, s, t
<1> QED BY <1>1, <1>9, <1>10, <1>11, <1>12, <1>13, <1>14

\* The bookmarks but for the last.
LEMMA FrontMarks ==
  ASSUME NEW m \in Seq(Nat \ {0}), m # <<>>
  PROVE  LET n == SubSeq(m, 1, Len(m) - 1)
         IN /\ Len(m) \in Nat /\ Len(m) >= 1 /\ DOMAIN m = 1..Len(m) /\ Len(m) \in 1..Len(m)
            /\ n \in Seq(Nat \ {0}) /\ Len(n) = Len(m) - 1 /\ DOMAIN n = 1..(Len(m) - 1)
            /\ \A i \in 1..(Len(m) - 1) : n[i] = m[i]
<1> DEFINE n == SubSeq(m, 1, Len(m) - 1)
           l == Len(m)
<1>1. l \in Nat /\ l # 0 /\ DOMAIN m = 1..l
  BY LenProperties, EmptySeq
<1>2. \A i \in 1..l : m[i] \in Nat \ {0}
  BY ElementOfSeq
<1>3. 1 \in Int /\ l - 1 \in Int /\ \A i \in 1..(l - 1) : m[i] \in Nat \ {0}
  BY <1>1, <1>2, SMT
<1>4. /\ n \in Seq(Nat \ {0}) /\ Len(n) = IF 1 <= l - 1 THEN l - 1 - 1 + 1 ELSE 0
      /\ \A i \in 1..(l - 1 - 1 + 1) : n[i] = m[1 + i - 1]
  BY <1>3, SubSeqProperties
<1> HIDE DEF n, l
<1>5. l \in Nat /\ l >= 1 /\ l \in 1..l /\ Len(n) = l - 1
  BY <1>1, <1>4, SMT
<1>6. ASSUME NEW i \in 1..(l - 1) PROVE n[i] = m[i]
  <2>1. i \in 1..(l - 1 - 1 + 1) /\ 1 + i - 1 = i
    BY <1>5, SMT
  <2> QED BY <1>4, <2>1
<1>7. DOMAIN n = 1..(l - 1)
  BY <1>4, <1>5, LenProperties
<1> QED BY <1>1, <1>4, <1>5, <1>6, <1>7 DEF n, l

LEMMA Popped ==
  ASSUME NEW b \in Seq(Cell), NEW m \in Seq(Nat \ {0}), m # <<>>, Matched(b, m),
         NEW w, Plain(w), Len(w) >= 1
  PROVE  LET q == m[Len(m)]
             n == SubSeq(m, 1, Len(m) - 1)
             c == Resized(b, q, w)
         IN Matched(c, n)
<1> DEFINE q == m[Len(m)]
           n == SubSeq(m, 1, Len(m) - 1)
           c == Resized(b, q, w)
<1>1. /\ Len(b) \in Nat /\ Len(m) \in Nat \ {0} /\ DOMAIN b = 1..Len(b) /\ DOMAIN m = 1..Len(m)
      /\ Len(m) \in 1..Len(m) /\ w \in Seq(Cell)
  BY LenProperties, EmptySeq, SMT DEF Plain
<1>0. Len(m) \in Nat /\ Len(m) >= 1
  BY <1>1, SMT
<1>2. q \in 1..Len(b) /\ q \in Nat
  BY <1>1, SMT DEF Matched
<1>3. /\ c \in Seq(Cell) /\ Len(w) \in Nat /\ Len(c) = Len(b) - 1 + Len(w)
      /\ \A i \in 1..(q - 1) : c[i] = b[i]
      /\ \A i \in 1..Len(w) : c[(q - 1) + i] = w[i]
      /\ \A i \in 1..(Len(b) - q) : c[(q - 1 + Len(w)) + i] = b[q + i]
  BY <1>1, <1>2, ResizedFacts
<1>5. Len(n) = Len(m) - 1 /\ \A i \in 1..(Len(m) - 1) : n[i] = m[i]
  BY FrontMarks
<1>6. DOMAIN n = 1..(Len(m) - 1) /\ DOMAIN c = 1..Len(c)
  BY <1>3, FrontMarks, LenProperties
\* The last bookmark is behind the others.
<1>7. \A i \in 1..(Len(m) - 1) : i \in DOMAIN m /\ m[i] \in 1..(q - 1) /\ n[i] \in 1..(q - 1)
  <2>1. ASSUME NEW i \in 1..(Len(m) - 1) PROVE i \in DOMAIN m /\ m[i] \in 1..(q - 1)
    <3>1. i \in 1..Len(m) /\ i < Len(m)
      BY <1>1, SMT
    <3>2. m[i] < m[Len(m)] /\ m[i] \in 1..Len(b)
      BY <1>1, <3>1 DEF Matched, Increasing
    <3> HIDE DEF q
    <3>3. m[i] < q
      BY <3>2 DEF q
    <3> QED BY <1>1, <1>2, <3>1, <3>2, <3>3, SMT
  <2> QED BY <1>5, <2>1
<1>9. \A p \in 1..Len(b) : (b[p] = Left) <=> (\E i \in 1..Len(m) : m[i] = p)
  BY <1>1 DEF Matched, LeftAtMarks
<1>10. \A p \in (q + 1)..Len(b) : b[p] # Left
  <2>1. SUFFICES ASSUME NEW p \in (q + 1)..Len(b), NEW i \in 1..Len(m), m[i] = p PROVE FALSE
    <3>1. \A p \in (q + 1)..Len(b) : p \in 1..Len(b)
      BY <1>1, <1>2, SMT
    <3> QED BY <1>9, <3>1
  <2>2. CASE i = Len(m)
    <3>1. p = q
      BY <2>1, <2>2
    <3> QED BY <1>1, <1>2, <2>1, <3>1, SMT
  <2>3. CASE i # Len(m)
    <3>1. i \in 1..(Len(m) - 1)
      BY <1>0, <2>1, <2>3, SMT
    <3>2. m[i] \in 1..(q - 1)
      BY <1>7, <3>1
    <3> HIDE DEF q
    <3> QED BY <1>1, <1>2, <2>1, <3>2, SMT
  <2> QED BY <2>2, <2>3
<1> HIDE DEF q, n, c
\* Every cell of the new certificate is an old one in front of q or behind it, or one of the size.
<1>11. \A p \in 1..Len(c) :
         \/ p \in 1..(q - 1)
         \/ p - (q - 1) \in 1..Len(w)
         \/ p - (q - 1 + Len(w)) \in 1..(Len(b) - q)
  BY <1>1, <1>2, <1>3, SMT
<1>12. \A p \in 1..Len(c) : p \notin 1..(q - 1) => c[p] # Left
  <2>1. SUFFICES ASSUME NEW p \in 1..Len(c), p \notin 1..(q - 1)
                 PROVE  c[p] # Left
    OBVIOUS
  <2>2. CASE p - (q - 1) \in 1..Len(w)
    <3>1. p = (q - 1) + (p - (q - 1))
      BY <1>2, <1>3, SMT
    <3>2. c[p] = w[p - (q - 1)]
      BY <1>3, <2>2, <3>1
    <3>3. c[p].k # "size"
      BY <2>2, <3>2 DEF Plain
    <3> QED BY <3>3, LeftFacts
  <2>3. CASE p - (q - 1 + Len(w)) \in 1..(Len(b) - q)
    <3> DEFINE i == p - (q - 1 + Len(w))
    <3>1. p = (q - 1 + Len(w)) + i /\ q + i \in (q + 1)..Len(b)
      BY <1>1, <1>2, <1>3, <2>3, SMT
    <3>2. c[p] = b[q + i]
      BY <1>3, <2>3, <3>1
    <3> HIDE DEF i
    <3> QED BY <1>10, <3>1, <3>2
  <2> QED BY <1>11, <2>1, <2>2, <2>3
<1>13. \A p \in 1..(q - 1) : p \in 1..Len(c) /\ p \in 1..Len(b) /\ c[p] = b[p]
  BY <1>1, <1>2, <1>3, SMT
<1>14. Increasing(n)
  <2>1. SUFFICES ASSUME NEW i \in 1..(Len(m) - 1), NEW j \in 1..(Len(m) - 1), i < j
                 PROVE  n[i] < n[j]
    BY <1>6 DEF Increasing
  <2>2. i \in DOMAIN m /\ j \in DOMAIN m
    BY <1>7
  <2>3. m[i] < m[j]
    BY <2>1, <2>2 DEF Matched, Increasing
  <2> QED BY <1>5, <2>3
<1>15. LeftAtMarks(c, n)
  <2>1. SUFFICES ASSUME NEW p \in 1..Len(c)
                 PROVE  c[p] = Left <=> \E i \in 1..(Len(m) - 1) : n[i] = p
    BY <1>6 DEF LeftAtMarks
  <2>2. CASE p \in 1..(q - 1)
    <3>1. c[p] = Left <=> \E i \in 1..Len(m) : m[i] = p
      BY <1>9, <1>13, <2>2
    <3>2. p # m[Len(m)]
      BY <1>2, <2>2, SMT DEF q
    <3>3. \A i \in 1..Len(m) : i \in 1..(Len(m) - 1) \/ i = Len(m)
      BY <1>0, SMT
    <3>4. \A i \in 1..(Len(m) - 1) : i \in 1..Len(m)
      BY <1>1, SMT
    <3> QED BY <1>5, <3>1, <3>2, <3>3, <3>4
  <2>3. CASE p \notin 1..(q - 1)
    BY <1>7, <1>12, <2>3
  <2> QED BY <2>2, <2>3
<1>16. Matched(c, n)
  BY <1>6, <1>7, <1>13, <1>14, <1>15 DEF Matched
<1> QED BY <1>16 DEF q, n, c

LEMMA PoppedPlaced ==
  ASSUME NEW b \in Seq(Cell), NEW m \in Seq(Nat \ {0}), NEW k \in Nat, k >= 1, k <= Len(m),
         Placed(b, m, k), NEW w, Plain(w), Len(w) >= 1
  PROVE  LET q == m[Len(m)]
             n == SubSeq(m, 1, Len(m) - 1)
             c == Resized(b, q, w)
         IN /\ c \in Seq(Cell) /\ n \in Seq(Nat \ {0}) /\ Len(n) = Len(m) - 1
            /\ Placed(c, n, k - 1)
            /\ \A p \in DOMAIN b : b[p].k = "sig" =>
                 p \in DOMAIN c /\ \A j \in 1..p : c[j] = b[j]
<1> DEFINE q == m[Len(m)]
           n == SubSeq(m, 1, Len(m) - 1)
           c == Resized(b, q, w)
<1>1. Len(b) \in Nat /\ DOMAIN b = 1..Len(b) /\ w \in Seq(Cell) /\ Len(m) \in Nat
  BY LenProperties DEF Plain
<1>2. m # <<>>
  BY <1>1, SMT
<1>3. /\ Len(m) >= 1 /\ DOMAIN m = 1..Len(m) /\ Len(m) \in 1..Len(m)
      /\ n \in Seq(Nat \ {0}) /\ Len(n) = Len(m) - 1 /\ DOMAIN n = 1..(Len(m) - 1)
      /\ \A i \in 1..(Len(m) - 1) : n[i] = m[i]
  BY <1>2, FrontMarks
<1>4. Len(m) > Len(m) - k
  BY <1>1, SMT
<1>5. q \in 1..Len(b) /\ \A p \in 1..Len(b) : b[p].k = "sig" => p < q
  BY <1>1, <1>3, <1>4 DEF Placed
<1>6. /\ c \in Seq(Cell) /\ Len(w) \in Nat /\ Len(c) = Len(b) - 1 + Len(w)
      /\ \A i \in 1..(q - 1) : c[i] = b[i]
      /\ \A i \in 1..Len(w) : c[(q - 1) + i] = w[i]
      /\ \A i \in 1..(Len(b) - q) : c[(q - 1 + Len(w)) + i] = b[q + i]
  BY <1>1, <1>5, ResizedFacts
<1>7. DOMAIN c = 1..Len(c)
  BY <1>6, LenProperties
<1>8. q \in Nat
  BY <1>5, SMT
\* The other bookmarks in use are in front of the last one.
<1>9. ASSUME NEW i \in 1..(Len(m) - 1), i > (Len(m) - 1) - (k - 1)
      PROVE  /\ i \in DOMAIN m /\ i < Len(m) /\ i > Len(m) - k /\ n[i] = m[i]
             /\ m[i] \in 1..(q - 1)
  <2>1. i \in 1..Len(m) /\ i < Len(m) /\ i > Len(m) - k
    BY <1>1, <1>9, SMT
  <2>2. m[i] \in 1..Len(b) /\ m[i] < q
    BY <1>1, <1>3, <2>1 DEF Placed
  <2> HIDE DEF q
  <2>3. m[i] \in 1..(q - 1)
    BY <1>1, <1>8, <2>2, SMT
  <2> QED BY <1>3, <2>1, <2>3
<1> HIDE DEF q, n, c
<1>10. \A p \in 1..Len(c) :
         \/ p \in 1..(q - 1)
         \/ p - (q - 1) \in 1..Len(w)
         \/ p - (q - 1 + Len(w)) \in 1..(Len(b) - q)
  BY <1>1, <1>6, <1>8, SMT
<1>11. \A p \in 1..(q - 1) : p \in 1..Len(c) /\ p \in 1..Len(b) /\ c[p] = b[p]
  <2>1. /\ Len(b) \in Nat /\ Len(w) \in Nat /\ Len(w) >= 1 /\ Len(c) = Len(b) - 1 + Len(w)
        /\ q \in Nat /\ q <= Len(b)
    BY <1>1, <1>5, <1>6, <1>8
  <2>2. \A p \in 1..(q - 1) : p \in 1..Len(c) /\ p \in 1..Len(b)
    BY <2>1, SMT
  <2> QED BY <1>6, <2>2
\* Nothing from q on is signed.
<1>12. ASSUME NEW p \in 1..Len(c), c[p].k = "sig" PROVE p \in 1..(q - 1) /\ b[p].k = "sig"
  <2>1. CASE p - (q - 1) \in 1..Len(w)
    <3>1. p = (q - 1) + (p - (q - 1))
      BY <1>6, <1>8, SMT
    <3>2. c[p] = w[p - (q - 1)]
      BY <1>6, <2>1, <3>1
    <3> QED BY <1>12, <2>1, <3>2 DEF Plain
  <2>2. CASE p - (q - 1 + Len(w)) \in 1..(Len(b) - q)
    <3> DEFINE i == p - (q - 1 + Len(w))
    <3>1. p = (q - 1 + Len(w)) + i /\ q + i \in 1..Len(b) /\ ~(q + i < q)
      BY <1>1, <1>6, <1>8, <2>2, SMT
    <3>2. c[p] = b[q + i]
      BY <1>6, <2>2, <3>1
    <3> HIDE DEF i
    <3> QED BY <1>5, <1>12, <3>1, <3>2
  <2>3. CASE p \in 1..(q - 1)
    BY <1>11, <1>12, <2>3
  <2> QED BY <1>10, <2>1, <2>2, <2>3
<1>13. Placed(c, n, k - 1)
  <2>1. SUFFICES ASSUME NEW i \in 1..(Len(m) - 1), i > (Len(m) - 1) - (k - 1)
                 PROVE  /\ n[i] \in 1..Len(c) /\ c[n[i]] = Left
                        /\ \A j \in 1..(Len(m) - 1) : i < j => n[i] < n[j]
                        /\ \A p \in 1..Len(c) : c[p].k = "sig" => p < n[i]
    BY <1>3, <1>7 DEF Placed
  <2>2. i \in DOMAIN m /\ i > Len(m) - k /\ n[i] = m[i] /\ m[i] \in 1..(q - 1)
    BY <1>9, <2>1
  <2>3. /\ b[m[i]] = Left /\ \A j \in DOMAIN m : i < j => m[i] < m[j]
        /\ \A p \in 1..Len(b) : b[p].k = "sig" => p < m[i]
    BY <1>1, <2>2 DEF Placed
  <2>4. \A j \in 1..(Len(m) - 1) : j \in DOMAIN m
    BY <1>1, <1>3, SMT
  <2>5. c[m[i]] = b[m[i]] /\ m[i] \in 1..Len(c)
    BY <1>11, <2>2
  <2>6. n[i] \in 1..Len(c) /\ c[n[i]] = Left
    BY <2>2, <2>3, <2>5
  <2> QED BY <1>3, <1>11, <1>12, <2>2, <2>3, <2>4, <2>6
<1>14. \A p \in DOMAIN b : b[p].k = "sig" => p \in DOMAIN c /\ \A j \in 1..p : c[j] = b[j]
  <2>1. SUFFICES ASSUME NEW p \in 1..Len(b), b[p].k = "sig"
                 PROVE  p \in 1..Len(c) /\ \A j \in 1..p : c[j] = b[j]
    BY <1>1, <1>7
  <2>2. p < q
    BY <1>5, <2>1
  <2>3. p \in 1..(q - 1) /\ \A j \in 1..p : j \in 1..(q - 1)
    BY <1>1, <1>8, <2>2, SMT
  <2> QED BY <1>11, <2>3
<1> QED BY <1>3, <1>6, <1>13, <1>14 DEF q, n, c

-----------------------------------------------------------------------------
(* What the handlers write and keep.                                        *)

Regs == [sa : Int, vr : Int, pk : Int, signer : Int, data : Nat \cup {-1}]
Keys == [cur : Int, v : Int, e : Int, next : Nat]

LEMMA EventFacts ==
  ASSUME NEW e \in Event
  PROVE  e.v \in Int /\ e.n \in Nat /\ e.args \in Seq(Nat) /\ e.n \in Int
<1> QED BY DEF Event

LEMMA KeyFacts ==
  ASSUME reg \in Regs, keys \in Keys
  PROVE  SigningKey \in Int /\ PointKey \in Int
<1>1. keys.cur \in Int /\ keys.v \in Int /\ keys.next \in Int
  BY SMT DEF Keys
<1>2. SigningKey = keys.v \/ SigningKey = SignerKey
  BY DEF SigningKey
<1>3. PointKey \in {keys.cur, DataKey, keys.next, 0}
  BY DEF PointKey
<1> QED BY <1>1, <1>2, <1>3 DEF SignerKey, DataKey

\* The type of a restriction is a number.
LEMMA VrTypeFacts ==
  ASSUME NEW e \in Event
  PROVE  VrType(e) \in Int
<1>1. e.v \in Int /\ Wide \in Nat \ {0}
  BY EventFacts, WideAssumption
<1> DEFINE low == e.v % Wide
<1>2. low \in Int
  BY <1>1, SMT
<1>3. VrType(e) = IF 2 * low >= Wide THEN low - Wide ELSE low
  BY DEF VrType
<1> HIDE DEF low
<1> QED BY <1>1, <1>2, <1>3, SMT

LEMMA WrittenFacts ==
  ASSUME NEW e \in Event, reg \in Regs, keys \in Keys
  PROVE  /\ SizeFree(Written(e)) /\ Keyless(Written(e))
         /\ e.name # "signature" => Plain(Written(e))
<1>1. /\ Simple(Type(e.v)) /\ Simple(Type(0)) /\ Simple(Type(4)) /\ Simple(Num(e.n))
      /\ Simple(Num(e.v)) /\ Simple(Text(e.n)) /\ Simple(Fields(e.args))
      /\ Simple(Type(VrType(e)))
  <2>1. e.v \in Int /\ e.n \in Nat /\ e.args \in Seq(Nat) /\ e.n \in Int /\ 0 \in Int /\ 4 \in Int
    BY EventFacts
  <2>2. Simple(Type(e.v)) /\ Simple(Type(0)) /\ Simple(Type(4)) /\ Simple(Type(VrType(e)))
    BY <2>1, TypeSimple, VrTypeFacts
  <2>3. Simple(Num(e.n)) /\ Simple(Num(e.v))
    BY <2>1, NumSimple
  <2>4. Simple(Text(e.n)) /\ Simple(Fields(e.args))
    BY <2>1, TextSimple, FieldsSimple
  <2> QED BY <2>2, <2>3, <2>4
<1>2. ASSUME e.name \in RegionTags \ {"id"} PROVE Simple(Type(RegionType[e.name]))
  <2>1. RegionType[e.name] \in Int
    BY <1>2 DEF RegionType, RegionTags
  <2> QED BY <2>1, TypeSimple
<1>3. SizeFree(<<C("sig", SigningKey)>>) /\ Keyless(<<C("sig", SigningKey)>>)
  BY KeyFacts, SinglePlain DEF Kind
<1>4. /\ Simple(Type(e.v) \o Num(e.n) \o Text(e.n)) /\ Simple(Type(e.v) \o Type(0))
      /\ Simple(Type(VrType(e)) \o Fields(e.args)) /\ Simple(Type(4) \o Fields(e.args) \o Num(e.n))
  BY <1>1, ConcatPlain
<1>5. /\ SizeFree(Type(0) \o <<C("sig", SigningKey)>>)
      /\ Keyless(Type(0) \o <<C("sig", SigningKey)>>)
  BY <1>1, <1>3, ConcatPlain, SimpleIsPlain
<1>6. ASSUME e.name \in RegionTags \ {"id"}
      PROVE  Simple(Type(RegionType[e.name]) \o Fields(e.args))
  BY <1>1, <1>2, <1>6, ConcatPlain
<1>7. CASE e.name = "signature"
  <2>1. Written(e) = Type(0) \o <<C("sig", SigningKey)>>
    BY <1>7 DEF Written, RegionTags
  <2> QED BY <1>5, <1>7, <2>1
<1>8. CASE e.name # "signature"
  <2>1. Simple(Written(e))
    <3>1. CASE e.name \in {"signer", "attribute", "assurance"}
      <4>1. Written(e) = Type(e.v)
        BY <3>1 DEF Written, RegionTags
      <4> QED BY <1>1, <4>1
    <3>2. CASE e.name = "subject"
      <4>1. Written(e) = Type(e.v) \o Num(e.n) \o Text(e.n)
        BY <3>2 DEF Written, RegionTags
      <4> QED BY <1>4, <4>1
    <3>3. CASE e.name = "public_key"
      <4>1. Written(e) = IF e.v = 1 THEN Type(e.v) \o Type(0) ELSE Type(e.v)
        BY <3>3 DEF Written, RegionTags
      <4> QED BY <1>1, <1>4, <4>1
    <3>4. CASE e.name = "ssp"
      <4>1. Written(e) = Num(e.v)
        BY <3>4 DEF Written, RegionTags
      <4> QED BY <1>1, <4>1
    <3>5. CASE e.name = "restriction"
      <4>1. Written(e) = Type(VrType(e)) \o Fields(e.args)
        BY <3>5 DEF Written, RegionTags
      <4> QED BY <1>4, <4>1
    <3>6. CASE e.name = "id"
      <4>1. Written(e) = Type(4) \o Fields(e.args) \o Num(e.n)
        BY <3>6 DEF Written, RegionTags
      <4> QED BY <1>4, <4>1
    <3>7. CASE e.name \in RegionTags \ {"id"}
      <4>1. Written(e) = Type(RegionType[e.name]) \o Fields(e.args)
        BY <3>7 DEF Written, RegionTags
      <4> QED BY <1>6, <3>7, <4>1
    <3>8. CASE e.name = "location"
      <4>1. Written(e) = Fields(e.args)
        BY <3>8 DEF Written, RegionTags
      <4> QED BY <1>1, <4>1
    <3>9. CASE e.name \notin ({"signer", "subject", "attribute", "public_key", "assurance", "ssp",
                              "restriction", "location", "signature"} \cup RegionTags)
      <4>1. Written(e) = <<>>
        BY <3>9 DEF Written, RegionTags
      <4> QED BY <4>1, NoneSimple
    <3> QED BY <1>8, <3>1, <3>2, <3>3, <3>4, <3>5, <3>6, <3>7, <3>8, <3>9 DEF RegionTags
  <2> QED BY <2>1, SimpleIsPlain
<1> QED BY <1>7, <1>8

LEMMA EndFacts ==
  ASSUME NEW e \in Event, NEW value \in Int, reg \in Regs, keys \in Keys
  PROVE  Plain(WrittenAtEnd(e, value))
<1>1. Plain(Type(value)) /\ Plain(Num(e.v)) /\ Plain(<<>>)
  BY EventFacts, TypeSimple, NumSimple, NoneSimple, SimpleIsPlain
<1>2. Plain(<<C("digest", 0)>>) /\ Plain(<<C("cert", 0)>>)
  BY SinglePlain DEF Kind
<1>3. Plain(Point(value, PointKey))
  <2> DEFINE c == C("point", value)
             d == C("x", PointKey)
             z == C("y", PointKey)
  <2>1. c \in Cell /\ c.k = "point" /\ d \in Cell /\ d.k = "x"
    BY CellFacts, KeyFacts DEF Kind
  <2>2. Plain(<<z>>)
    BY KeyFacts, SinglePlain DEF Kind
  <2>3. \/ Point(value, PointKey) = <<>>
        \/ Point(value, PointKey) = <<c, d>> \o <<z>>
        \/ Point(value, PointKey) = <<c, d>> \o <<>>
    BY DEF Point
  <2> HIDE DEF c, d, z
  <2>4. Plain(<<c, d>>)
    BY <2>1, PairFacts, SMT DEF Plain
  <2> QED BY <1>1, <2>2, <2>3, <2>4, ConcatPlain
<1>4. WrittenAtEnd(e, value) \in {Type(value), <<C("digest", 0)>>, <<C("cert", 0)>>, <<>>,
                                 Point(value, PointKey), Num(e.v)}
  BY DEF WrittenAtEnd
<1> QED BY <1>1, <1>2, <1>3, <1>4

\* Each register changes with its own tag only.
LEMMA RegOpenFacts ==
  ASSUME NEW e \in Event, reg \in Regs
  PROVE  /\ RegAfterOpen(e) \in Regs
         /\ RegAfterOpen(e).sa = IF e.name = "attribute" THEN e.v ELSE reg.sa
         /\ RegAfterOpen(e).pk = IF e.name = "public_key" THEN e.v ELSE reg.pk
         /\ RegAfterOpen(e).vr = IF e.name = "restriction" THEN VrType(e) ELSE reg.vr
         /\ RegAfterOpen(e).signer = IF e.name = "signer" THEN e.v ELSE reg.signer
<1>1. e.v \in Int /\ VrType(e) \in Int
  BY EventFacts, VrTypeFacts
<1> QED BY <1>1, SMT DEF RegAfterOpen, Regs

LEMMA RegCloseFacts ==
  ASSUME NEW e, reg \in Regs
  PROVE  /\ RegAfterClose(e) \in Regs
         /\ e.name # "attribute" => RegAfterClose(e).sa = reg.sa
         /\ e.name # "public_key" => RegAfterClose(e).pk = reg.pk
         /\ e.name # "restriction" => RegAfterClose(e).vr = reg.vr
         /\ RegAfterClose(e).signer = reg.signer
<1> QED BY SMT DEF RegAfterClose, Regs

-----------------------------------------------------------------------------
(* The open tags s.                                                         *)

\* The tags that can be open at each depth.
NamesAt(i) ==
  CASE i = 1 -> {"certificate"}
    [] i = 2 -> Parts
    [] i = 3 -> {"attribute", "restriction"}
    [] i = 4 -> AttributeTags \cup RegionTags
    [] OTHER -> {"eccpoint", "location"}

Shape(s) == s \in Seq(Event) /\ Len(s) <= 5 /\ \A i \in 1..Len(s) : s[i].name \in NamesAt(i)

TopOf(s) == IF s = <<>> THEN "root" ELSE s[Len(s)].name

MeasuredIn(s, i) == IF i \in DOMAIN s /\ Measured(s[i]) THEN 1 ELSE 0
Depth(s) == MeasuredIn(s, 1) + MeasuredIn(s, 2) + MeasuredIn(s, 3) + MeasuredIn(s, 4) + MeasuredIn(s, 5)

\* The registers that tell whether an open element has a size.
Registered(s, r) ==
  \A i \in 1..Len(s) :
    /\ s[i].name = "attribute" => r.sa = s[i].v
    /\ s[i].name = "public_key" => r.pk = s[i].v
    /\ s[i].name = "restriction" => r.vr = VrType(s[i])

LEMMA SeqFacts ==
  ASSUME NEW s \in Seq(Event), NEW e \in Event
  PROVE  /\ Len(s) \in Nat /\ DOMAIN s = 1..Len(s) /\ (s = <<>> <=> Len(s) = 0)
         /\ Append(s, e) \in Seq(Event) /\ Len(Append(s, e)) = Len(s) + 1
         /\ DOMAIN Append(s, e) = 1..(Len(s) + 1)
         /\ \A i \in 1..Len(s) : Append(s, e)[i] = s[i]
         /\ Append(s, e)[Len(s) + 1] = e
<1>1. Len(s) \in Nat /\ DOMAIN s = 1..Len(s)
  BY LenProperties
<1>2. s = <<>> <=> Len(s) = 0
  BY EmptySeq
<1>3. /\ Append(s, e) \in Seq(Event) /\ Len(Append(s, e)) = Len(s) + 1
      /\ \A i \in 1..Len(s) : Append(s, e)[i] = s[i]
      /\ Append(s, e)[Len(s) + 1] = e
  BY AppendProperties
<1>4. DOMAIN Append(s, e) = 1..(Len(s) + 1)
  BY <1>3, LenProperties
<1> QED BY <1>1, <1>2, <1>3, <1>4

LEMMA FrontFacts ==
  ASSUME NEW s \in Seq(Event), s # <<>>
  PROVE  /\ Len(s) \in Nat /\ Len(s) >= 1 /\ DOMAIN s = 1..Len(s)
         /\ SubSeq(s, 1, Len(s) - 1) \in Seq(Event) /\ Len(SubSeq(s, 1, Len(s) - 1)) = Len(s) - 1
         /\ DOMAIN SubSeq(s, 1, Len(s) - 1) = 1..(Len(s) - 1)
         /\ \A i \in 1..(Len(s) - 1) : i \in 1..Len(s) /\ SubSeq(s, 1, Len(s) - 1)[i] = s[i]
<1> DEFINE f == SubSeq(s, 1, Len(s) - 1)
           l == Len(s)
<1>1. l \in Nat /\ l >= 1 /\ DOMAIN s = 1..l
  BY LenProperties, EmptySeq, SMT
<1>2. \A i \in 1..l : s[i] \in Event
  BY ElementOfSeq
<1>3. 1 \in Int /\ l - 1 \in Int /\ \A i \in 1..(l - 1) : s[i] \in Event
  BY <1>1, <1>2, SMT
<1>4. /\ f \in Seq(Event) /\ Len(f) = IF 1 <= l - 1 THEN l - 1 - 1 + 1 ELSE 0
      /\ \A i \in 1..(l - 1 - 1 + 1) : f[i] = s[1 + i - 1]
  BY <1>3, SubSeqProperties
<1> HIDE DEF f, l
<1>5. Len(f) = l - 1
  BY <1>1, <1>4, SMT
<1>6. ASSUME NEW i \in 1..(l - 1) PROVE i \in 1..l /\ f[i] = s[i]
  <2>1. i \in 1..(l - 1 - 1 + 1) /\ 1 + i - 1 = i /\ i \in 1..l
    BY <1>1, SMT
  <2> QED BY <1>4, <2>1
<1>7. DOMAIN f = 1..(l - 1)
  BY <1>4, <1>5, LenProperties
<1> QED BY <1>1, <1>4, <1>5, <1>6, <1>7 DEF f, l

\* A tag that may follow is one of the next depth.
LEMMA ChildFacts ==
  ASSUME NEW s, Shape(s), NEW name \in Children(TopOf(s))
  PROVE  Len(s) \in Nat /\ Len(s) <= 4 /\ name \in NamesAt(Len(s) + 1)
<1>1. Len(s) \in Nat /\ Len(s) <= 5 /\ (s = <<>> <=> Len(s) = 0)
  BY LenProperties, EmptySeq DEF Shape
<1> DEFINE l == Len(s)
<1>2. CASE s = <<>>
  <2>1. TopOf(s) = "root"
    BY <1>2 DEF TopOf
  <2>2. name = "certificate"
    BY <2>1 DEF Children
  <2>3. NamesAt(1) = {"certificate"}
    BY DEF NamesAt
  <2>4. l = 0
    BY <1>1, <1>2
  <2> HIDE DEF l
  <2>5. l + 1 = 1 /\ l <= 4 /\ l \in Nat
    BY <2>4, SMT
  <2> QED BY <2>2, <2>3, <2>5 DEF l
<1>3. CASE s # <<>>
  <2> DEFINE t == s[Len(s)].name
  <2>0. l \in Nat /\ l <= 5 /\ l # 0 /\ l = Len(s)
    BY <1>1, <1>3
  <2>1. l \in 1..5 /\ l \in 1..Len(s)
    <3> HIDE DEF l
    <3>1. l \in 1..5 /\ l \in 1..l
      BY <2>0, SMT
    <3> QED BY <2>0, <3>1
  <2>2. t \in NamesAt(l) /\ name \in Children(t)
    BY <1>3, <2>1 DEF Shape, TopOf
  <2> HIDE DEF t, l
  <2>3. CASE l = 1
    <3>1. t = "certificate"
      BY <2>2, <2>3 DEF NamesAt
    <3>2. name \in Parts
      BY <2>2, <3>1 DEF Children
    <3>3. NamesAt(2) = Parts /\ l + 1 = 2 /\ l <= 4 /\ l \in Nat
      BY <2>3, SMT DEF NamesAt
    <3> QED BY <3>2, <3>3 DEF l
  <2>4. CASE l = 2
    <3>1. t \in Parts
      BY <2>2, <2>4, SMT DEF NamesAt
    <3>2. name \in {"attribute", "restriction"}
      BY <2>2, <3>1, SMT DEF Children, Parts
    <3>3. NamesAt(3) = {"attribute", "restriction"} /\ l + 1 = 3 /\ l <= 4 /\ l \in Nat
      BY <2>4, SMT DEF NamesAt
    <3> QED BY <3>2, <3>3 DEF l
  <2>5. CASE l = 3
    <3>1. t \in {"attribute", "restriction"}
      BY <2>2, <2>5, SMT DEF NamesAt
    <3>2. name \in AttributeTags \cup RegionTags
      BY <2>2, <3>1, SMT DEF Children
    <3>3. NamesAt(4) = AttributeTags \cup RegionTags /\ l + 1 = 4 /\ l <= 4 /\ l \in Nat
      BY <2>5, SMT DEF NamesAt
    <3> QED BY <3>2, <3>3 DEF l
  <2>6. CASE l = 4
    <3>1. t \in AttributeTags \cup RegionTags
      BY <2>2, <2>6, SMT DEF NamesAt
    <3>2. name \in {"eccpoint", "location"}
      BY <2>2, <3>1, SMT DEF Children, AttributeTags, RegionTags
    <3>3. NamesAt(5) = {"eccpoint", "location"} /\ l + 1 = 5 /\ l <= 4 /\ l \in Nat
      BY <2>6, SMT DEF NamesAt
    <3> QED BY <3>2, <3>3 DEF l
  <2>7. CASE l = 5
    <3>1. t \in {"eccpoint", "location"}
      BY <2>2, <2>7, SMT DEF NamesAt
    <3> QED BY <2>2, <3>1, SMT DEF Children
  <2>8. l = 1 \/ l = 2 \/ l = 3 \/ l = 4 \/ l = 5
    BY <2>1, SMT
  <2> QED BY <2>3, <2>4, <2>5, <2>6, <2>7, <2>8
<1> QED BY <1>2, <1>3

LEMMA PushedShape ==
  ASSUME NEW s, Shape(s), NEW e \in Event, e.name \in Children(TopOf(s))
  PROVE  Shape(Append(s, e))
<1>1. Len(s) \in Nat /\ Len(s) <= 4 /\ e.name \in NamesAt(Len(s) + 1)
  BY ChildFacts
<1>2. s \in Seq(Event) /\ \A i \in 1..Len(s) : s[i].name \in NamesAt(i)
  BY DEF Shape
<1> DEFINE t == Append(s, e)
           l == Len(s)
<1>3. /\ t \in Seq(Event) /\ Len(t) = l + 1 /\ t[l + 1] = e /\ \A i \in 1..l : t[i] = s[i]
  BY <1>2, SeqFacts
<1>4. l \in Nat /\ l <= 4
  BY <1>1
<1> HIDE DEF t, l
<1>5. l + 1 <= 5 /\ \A i \in 1..(l + 1) : i \in 1..l \/ i = l + 1
  BY <1>4, SMT
<1>6. \A i \in 1..(l + 1) : t[i].name \in NamesAt(i)
  BY <1>1, <1>2, <1>3, <1>5 DEF l
<1> QED BY <1>3, <1>5, <1>6 DEF Shape, t

LEMMA PoppedShape ==
  ASSUME NEW s, Shape(s), s # <<>>
  PROVE  Shape(SubSeq(s, 1, Len(s) - 1))
<1>1. s \in Seq(Event) /\ Len(s) <= 5 /\ \A i \in 1..Len(s) : s[i].name \in NamesAt(i)
  BY DEF Shape
<1> DEFINE t == SubSeq(s, 1, Len(s) - 1)
           l == Len(s)
<1>2. /\ l \in Nat /\ l >= 1 /\ t \in Seq(Event) /\ Len(t) = l - 1
      /\ \A i \in 1..(l - 1) : i \in 1..l /\ t[i] = s[i]
  BY <1>1, FrontFacts
<1>3. l <= 5
  BY <1>1
<1>4. \A i \in 1..l : s[i].name \in NamesAt(i)
  BY <1>1
<1> HIDE DEF t, l
<1>5. l - 1 <= 5
  BY <1>2, <1>3, SMT
<1>6. \A i \in 1..(l - 1) : t[i].name \in NamesAt(i)
  BY <1>2, <1>4
<1> QED BY <1>2, <1>5, <1>6 DEF Shape, t

\* A byte is left for every size that is written at the end.
LEMMA MeasuredSized ==
  ASSUME NEW e, Measured(e)
  PROVE  Sized(e)
<1> QED BY SMT DEF Measured, Sized, Region

\* And for no other, when the types of restrictions are numbers of an int.
LEMMA NumberedSized ==
  ASSUME Numbered, NEW i \in DOMAIN doc, doc[i] \in Event, doc[i].tag = "open", Sized(doc[i])
  PROVE  Measured(doc[i])
<1> DEFINE e == doc[i]
<1>1. e.name = "restriction" => VrType(e) >= 0 /\ VrType(e) \in Int
  BY VrTypeFacts DEF Numbered
<1>2. Sized(e)
  OBVIOUS
<1> HIDE DEF e
<1>3. Measured(e)
  BY <1>1, <1>2, SMT DEF Measured, Sized, Region
<1> QED BY <1>3 DEF e

LEMMA PushedDepth ==
  ASSUME NEW s \in Seq(Event), NEW e \in Event, Len(s) <= 4
  PROVE  Depth(Append(s, e)) = Depth(s) + (IF Measured(e) THEN 1 ELSE 0)
<1> DEFINE t == Append(s, e)
           l == Len(s)
<1>1. /\ l \in Nat /\ l <= 4 /\ DOMAIN s = 1..l /\ DOMAIN t = 1..(l + 1)
      /\ t[l + 1] = e /\ \A i \in 1..l : t[i] = s[i]
  BY SeqFacts
<1> HIDE DEF t, l
<1>2. ASSUME NEW i \in 1..5
      PROVE  MeasuredIn(t, i) = IF i = l + 1 THEN (IF Measured(e) THEN 1 ELSE 0) ELSE MeasuredIn(s, i)
  <2>1. CASE i = l + 1
    <3>1. i \in DOMAIN t /\ t[i] = e
      BY <1>1, <2>1, SMT
    <3> QED BY <2>1, <3>1 DEF MeasuredIn
  <2>2. CASE i # l + 1 /\ i \in 1..l
    <3>1. i \in DOMAIN t /\ i \in DOMAIN s /\ t[i] = s[i]
      BY <1>1, <2>2, SMT
    <3> QED BY <2>2, <3>1 DEF MeasuredIn
  <2>3. CASE i # l + 1 /\ i \notin 1..l
    <3>1. i \notin DOMAIN t /\ i \notin DOMAIN s
      BY <1>1, <2>3, SMT
    <3> QED BY <2>3, <3>1 DEF MeasuredIn
  <2> QED BY <2>1, <2>2, <2>3
<1>3. MeasuredIn(s, l + 1) = 0
  <2>1. l + 1 \notin DOMAIN s
    BY <1>1, SMT
  <2> QED BY <2>1 DEF MeasuredIn
<1>4. \A i \in 1..5 : MeasuredIn(s, i) \in {0, 1}
  BY DEF MeasuredIn
<1>5. Depth(t) = Depth(s) + (IF Measured(e) THEN 1 ELSE 0)
  <2> DEFINE z == IF Measured(e) THEN 1 ELSE 0
             x == Depth(s)
  <2>1. z \in {0, 1}
    OBVIOUS
  <2>2. \A i \in 1..5 : MeasuredIn(t, i) = IF i = l + 1 THEN z ELSE MeasuredIn(s, i)
    BY <1>2
  <2> HIDE DEF z
  <2>3. l = 0 \/ l = 1 \/ l = 2 \/ l = 3 \/ l = 4
    BY <1>1, SMT
  <2>4. Depth(t) = Depth(s) + z
    BY <1>1, <1>3, <1>4, <2>1, <2>2, <2>3, SMT DEF Depth
  <2> QED BY <2>4 DEF z
<1> QED BY <1>5 DEF t

LEMMA PoppedDepth ==
  ASSUME NEW s \in Seq(Event), s # <<>>, Len(s) <= 5
  PROVE  /\ Depth(SubSeq(s, 1, Len(s) - 1)) = Depth(s) - (IF Measured(s[Len(s)]) THEN 1 ELSE 0)
         /\ Measured(s[Len(s)]) => Depth(s) >= 1
         /\ Depth(s) \in Nat
<1> DEFINE t == SubSeq(s, 1, Len(s) - 1)
           l == Len(s)
           z == IF Measured(s[l]) THEN 1 ELSE 0
<1>1. /\ l \in Nat /\ l >= 1 /\ l <= 5 /\ DOMAIN s = 1..l /\ DOMAIN t = 1..(l - 1)
      /\ \A i \in 1..(l - 1) : t[i] = s[i]
  BY FrontFacts
<1>2. z \in {0, 1} /\ (Measured(s[l]) => z = 1)
  OBVIOUS
<1> HIDE DEF t, l
<1>3. ASSUME NEW i \in 1..5
      PROVE  MeasuredIn(s, i) = IF i = l THEN z ELSE MeasuredIn(t, i)
  <2>1. CASE i = l
    <3>1. i \in DOMAIN s
      BY <1>1, <2>1, SMT
    <3> QED BY <2>1, <3>1 DEF MeasuredIn
  <2>2. CASE i # l /\ i \in 1..(l - 1)
    <3>1. i \in DOMAIN t /\ i \in DOMAIN s /\ t[i] = s[i]
      BY <1>1, <2>2, SMT
    <3> QED BY <2>2, <3>1 DEF MeasuredIn
  <2>3. CASE i # l /\ i \notin 1..(l - 1)
    <3>1. i \notin DOMAIN t /\ i \notin DOMAIN s
      BY <1>1, <2>3, SMT
    <3> QED BY <2>3, <3>1 DEF MeasuredIn
  <2> QED BY <2>1, <2>2, <2>3
<1> HIDE DEF z
<1>4. MeasuredIn(t, l) = 0
  <2>1. l \notin DOMAIN t
    BY <1>1, SMT
  <2> QED BY <2>1 DEF MeasuredIn
<1>5. \A i \in 1..5 : MeasuredIn(t, i) \in {0, 1}
  BY DEF MeasuredIn
<1>6. l = 1 \/ l = 2 \/ l = 3 \/ l = 4 \/ l = 5
  BY <1>1, SMT
<1>7. Depth(t) = Depth(s) - z /\ Depth(s) \in Nat /\ (z = 1 => Depth(s) >= 1)
  <2>1. \A i \in 1..5 : MeasuredIn(s, i) = IF i = l THEN z ELSE MeasuredIn(t, i)
    BY <1>3
  <2>2. z \in {0, 1}
    BY <1>2
  <2>3. ASSUME NEW k \in 1..5, l = k
        PROVE  Depth(t) = Depth(s) - z /\ Depth(s) \in Nat /\ (z = 1 => Depth(s) >= 1)
    <3>1. MeasuredIn(t, k) = 0
      BY <1>4, <2>3
    <3>2. \A i \in 1..5 : MeasuredIn(s, i) = IF i = k THEN z ELSE MeasuredIn(t, i)
      BY <2>1, <2>3
    <3>3. k = 1 \/ k = 2 \/ k = 3 \/ k = 4 \/ k = 5
      BY SMT
    <3> DEFINE b1 == MeasuredIn(t, 1)
               b2 == MeasuredIn(t, 2)
               b3 == MeasuredIn(t, 3)
               b4 == MeasuredIn(t, 4)
               b5 == MeasuredIn(t, 5)
    <3>4. b1 \in {0, 1} /\ b2 \in {0, 1} /\ b3 \in {0, 1} /\ b4 \in {0, 1} /\ b5 \in {0, 1}
      BY <1>5, SMT
    <3>5. Depth(t) = b1 + b2 + b3 + b4 + b5
      BY DEF Depth
    <3>6. Depth(s) = (IF 1 = k THEN z ELSE b1) + (IF 2 = k THEN z ELSE b2)
                       + (IF 3 = k THEN z ELSE b3) + (IF 4 = k THEN z ELSE b4)
                       + (IF 5 = k THEN z ELSE b5)
      BY <3>2, SMT DEF Depth
    <3>7. (k = 1 => b1 = 0) /\ (k = 2 => b2 = 0) /\ (k = 3 => b3 = 0) /\ (k = 4 => b4 = 0)
          /\ (k = 5 => b5 = 0)
      BY <3>1
    <3>8. z \in {0, 1}
      BY <2>2
    <3> DEFINE x == Depth(s)
               y == Depth(t)
    <3> HIDE DEF b1, b2, b3, b4, b5, x, y
    <3>9. /\ y = b1 + b2 + b3 + b4 + b5
          /\ x = (IF 1 = k THEN z ELSE b1) + (IF 2 = k THEN z ELSE b2)
                   + (IF 3 = k THEN z ELSE b3) + (IF 4 = k THEN z ELSE b4)
                   + (IF 5 = k THEN z ELSE b5)
      BY <3>5, <3>6 DEF x, y
    <3>10. y = x - z /\ x \in Nat /\ (z = 1 => x >= 1)
      BY <3>3, <3>4, <3>7, <3>8, <3>9, SMT
    <3> QED BY <3>10 DEF x, y
  <2> QED BY <1>6, <2>3, SMT
<1> QED BY <1>2, <1>7 DEF t, l, z

\* There are at most three elements with a size, and one that opens finds at most two.
LEMMA MeasuredDepth ==
  ASSUME NEW s, Shape(s), NEW e \in Event, e.name \in Children(TopOf(s)), Measured(e)
  PROVE  Depth(s) <= 2
<1>1. Len(s) \in Nat /\ Len(s) <= 4 /\ e.name \in NamesAt(Len(s) + 1)
  BY ChildFacts
<1>2. s \in Seq(Event) /\ DOMAIN s = 1..Len(s) /\ \A i \in 1..Len(s) : s[i].name \in NamesAt(i)
  BY LenProperties DEF Shape
<1> DEFINE l == Len(s)
<1>3. l \in Nat /\ l <= 4 /\ DOMAIN s = 1..l
  BY <1>1, <1>2
<1> HIDE DEF l
<1>4. l # 4
  <2>1. SUFFICES ASSUME l = 4 PROVE FALSE
    OBVIOUS
  <2>2. l + 1 = 5
    BY <2>1, SMT
  <2>3. e.name \in NamesAt(5)
    BY <1>1, <2>2 DEF l
  <2>4. e.name \in {"eccpoint", "location"}
    BY <2>3, SMT DEF NamesAt
  <2> QED BY <2>4 DEF Measured, SizedByName
<1>5. MeasuredIn(s, 1) = 0
  <2>1. 1 \in DOMAIN s => s[1].name \in NamesAt(1)
    BY <1>2
  <2>2. 1 \in DOMAIN s => s[1].name = "certificate"
    BY <2>1 DEF NamesAt
  <2>3. 1 \in DOMAIN s => ~Measured(s[1])
    BY <2>2 DEF Measured, SizedByName
  <2> QED BY <2>3 DEF MeasuredIn
<1>6. 4 \notin DOMAIN s /\ 5 \notin DOMAIN s
  BY <1>3, <1>4, SMT
<1>7. MeasuredIn(s, 4) = 0 /\ MeasuredIn(s, 5) = 0
  BY <1>6 DEF MeasuredIn
<1>8. MeasuredIn(s, 2) \in {0, 1} /\ MeasuredIn(s, 3) \in {0, 1}
  BY DEF MeasuredIn
<1> QED BY <1>5, <1>7, <1>8, SMT DEF Depth

\* Only the certificate itself opens outside of it, and only in a certificate with no open
\* part is it signed: no size is open then.
LEMMA NoneOpen ==
  ASSUME NEW s, Shape(s), NEW name \in {"certificate", "signature"},
         name \in Children(TopOf(s))
  PROVE  Depth(s) = 0
<1>1. Len(s) \in Nat /\ Len(s) <= 4 /\ name \in NamesAt(Len(s) + 1)
  BY ChildFacts
<1>2. s \in Seq(Event) /\ DOMAIN s = 1..Len(s) /\ \A i \in 1..Len(s) : s[i].name \in NamesAt(i)
  BY LenProperties DEF Shape
<1> DEFINE l == Len(s)
<1>3. l \in Nat /\ l <= 4 /\ DOMAIN s = 1..l /\ name \in NamesAt(l + 1)
  BY <1>1, <1>2
<1> HIDE DEF l
<1>4. l <= 1
  <2>1. SUFFICES ASSUME ~(l <= 1) PROVE FALSE
    OBVIOUS
  <2>2. l + 1 = 3 \/ l + 1 = 4 \/ l + 1 = 5
    BY <1>3, <2>1, SMT
  <2>3. "certificate" \notin NamesAt(3) /\ "signature" \notin NamesAt(3)
    BY SMT DEF NamesAt
  <2>4. "certificate" \notin NamesAt(4) /\ "signature" \notin NamesAt(4)
    BY SMT DEF NamesAt, AttributeTags, RegionTags
  <2>5. "certificate" \notin NamesAt(5) /\ "signature" \notin NamesAt(5)
    BY SMT DEF NamesAt
  <2> QED BY <1>3, <2>2, <2>3, <2>4, <2>5
<1>5. MeasuredIn(s, 1) = 0
  <2>1. 1 \in DOMAIN s => s[1].name \in NamesAt(1)
    BY <1>2
  <2>2. 1 \in DOMAIN s => s[1].name = "certificate"
    BY <2>1 DEF NamesAt
  <2>3. 1 \in DOMAIN s => ~Measured(s[1])
    BY <2>2 DEF Measured, SizedByName
  <2> QED BY <2>3 DEF MeasuredIn
<1>6. 2 \notin DOMAIN s /\ 3 \notin DOMAIN s /\ 4 \notin DOMAIN s /\ 5 \notin DOMAIN s
  BY <1>3, <1>4, SMT
<1>7. MeasuredIn(s, 2) = 0 /\ MeasuredIn(s, 3) = 0 /\ MeasuredIn(s, 4) = 0 /\ MeasuredIn(s, 5) = 0
  BY <1>6 DEF MeasuredIn
<1> QED BY <1>5, <1>7, SMT DEF Depth

\* A tag and the tag of the same name at another depth: there is none for those with a register.
LEMMA OneOfAName ==
  ASSUME NEW s, Shape(s), NEW i \in 1..Len(s), NEW j \in 1..Len(s), s[i].name = s[j].name,
         s[i].name \in {"attribute", "public_key", "restriction"}
  PROVE  i = j
<1>1. i \in 1..5 /\ j \in 1..5 /\ s[i].name \in NamesAt(i) /\ s[j].name \in NamesAt(j)
  <2>1. Len(s) \in Nat /\ Len(s) <= 5
    BY LenProperties DEF Shape
  <2>2. i \in 1..5 /\ j \in 1..5
    BY <2>1, SMT
  <2> QED BY <2>2 DEF Shape
<1> DEFINE n == s[i].name
<1>2. ASSUME NEW k \in 1..5, n \in NamesAt(k)
      PROVE  k = IF n = "public_key" THEN 4 ELSE 3
  <2>1. n \in {"attribute", "public_key", "restriction"}
    OBVIOUS
  <2> HIDE DEF n
  <2>2. k = 1 \/ k = 2 \/ k = 3 \/ k = 4 \/ k = 5
    BY SMT
  <2>3. n \notin NamesAt(1) /\ n \notin NamesAt(2) /\ n \notin NamesAt(5)
    BY <2>1, SMT DEF NamesAt, Parts
  <2>4. n \in NamesAt(3) => n # "public_key"
    BY <2>1, SMT DEF NamesAt
  <2>5. n \in NamesAt(4) => n = "public_key"
    BY <2>1, SMT DEF NamesAt, AttributeTags, RegionTags
  <2> QED BY <1>2, <2>2, <2>3, <2>4, <2>5
<1>3. n \in NamesAt(i) /\ n \in NamesAt(j)
  BY <1>1
<1> QED BY <1>1, <1>2, <1>3

LEMMA PushedRegisters ==
  ASSUME NEW s, Shape(s), NEW e \in Event, e.name \in Children(TopOf(s)),
         reg \in Regs, Registered(s, reg)
  PROVE  Registered(Append(s, e), RegAfterOpen(e))
<1> DEFINE t == Append(s, e)
           l == Len(s)
           r == RegAfterOpen(e)
<1>1. s \in Seq(Event) /\ Shape(t)
  BY PushedShape DEF Shape
<1>2. /\ l \in Nat /\ Len(t) = l + 1 /\ t[l + 1] = e /\ \A i \in 1..l : t[i] = s[i]
  BY <1>1, SeqFacts
<1>3. /\ r.sa = IF e.name = "attribute" THEN e.v ELSE reg.sa
      /\ r.pk = IF e.name = "public_key" THEN e.v ELSE reg.pk
      /\ r.vr = IF e.name = "restriction" THEN VrType(e) ELSE reg.vr
  BY RegOpenFacts
<1>4. \A i \in 1..l : /\ s[i].name = "attribute" => reg.sa = s[i].v
                      /\ s[i].name = "public_key" => reg.pk = s[i].v
                      /\ s[i].name = "restriction" => reg.vr = VrType(s[i])
  BY DEF Registered
<1> HIDE DEF t, l, r
<1>5. ASSUME NEW i \in 1..l, s[i].name = e.name
      PROVE  e.name \notin {"attribute", "public_key", "restriction"}
  <2>1. i \in 1..Len(t) /\ l + 1 \in 1..Len(t) /\ i # l + 1
    BY <1>2, SMT
  <2>2. t[i].name = t[l + 1].name
    BY <1>2, <1>5
  <2>3. t[i].name = e.name
    BY <1>2, <1>5
  <2> QED BY <1>1, <2>1, <2>2, <2>3, OneOfAName
<1>6. SUFFICES ASSUME NEW i \in 1..(l + 1)
               PROVE  /\ t[i].name = "attribute" => r.sa = t[i].v
                      /\ t[i].name = "public_key" => r.pk = t[i].v
                      /\ t[i].name = "restriction" => r.vr = VrType(t[i])
  BY <1>2 DEF Registered, t, r
<1>7. CASE i = l + 1
  BY <1>2, <1>3, <1>7
<1>8. CASE i # l + 1
  <2>1. i \in 1..l
    BY <1>2, <1>8, SMT
  <2>2. t[i] = s[i]
    BY <1>2, <2>1
  <2> QED BY <1>3, <1>4, <1>5, <2>1, <2>2
<1> QED BY <1>7, <1>8

LEMMA PoppedRegisters ==
  ASSUME NEW s, Shape(s), s # <<>>, NEW e, e.name = s[Len(s)].name,
         reg \in Regs, Registered(s, reg)
  PROVE  /\ Registered(SubSeq(s, 1, Len(s) - 1), RegAfterClose(e))
         /\ Registered(SubSeq(s, 1, Len(s) - 1), reg)
<1> DEFINE t == SubSeq(s, 1, Len(s) - 1)
           l == Len(s)
           r == RegAfterClose(e)
<1>1. s \in Seq(Event)
  BY DEF Shape
<1>2. /\ l \in Nat /\ l >= 1 /\ Len(t) = l - 1
      /\ \A i \in 1..(l - 1) : i \in 1..l /\ t[i] = s[i]
  BY <1>1, FrontFacts
<1>3. /\ e.name # "attribute" => r.sa = reg.sa
      /\ e.name # "public_key" => r.pk = reg.pk
      /\ e.name # "restriction" => r.vr = reg.vr
  BY RegCloseFacts
<1>4. \A i \in 1..l : /\ s[i].name = "attribute" => reg.sa = s[i].v
                      /\ s[i].name = "public_key" => reg.pk = s[i].v
                      /\ s[i].name = "restriction" => reg.vr = VrType(s[i])
  BY DEF Registered
<1>5. ASSUME NEW i \in 1..(l - 1), s[i].name = e.name
      PROVE  e.name \notin {"attribute", "public_key", "restriction"}
  <2>1. l \in Nat /\ l >= 1
    BY <1>2
  <2>2. i \in 1..l /\ l \in 1..l /\ i # l
    <3> HIDE DEF l
    <3> QED BY <2>1, SMT
  <2> QED BY <1>5, <2>2, OneOfAName
<1> HIDE DEF t, l, r
<1>6. ASSUME NEW i \in 1..(l - 1)
      PROVE  /\ t[i].name = "attribute" => r.sa = t[i].v /\ reg.sa = t[i].v
             /\ t[i].name = "public_key" => r.pk = t[i].v /\ reg.pk = t[i].v
             /\ t[i].name = "restriction" => r.vr = VrType(t[i]) /\ reg.vr = VrType(t[i])
  <2>1. i \in 1..l /\ t[i] = s[i]
    BY <1>2
  <2> QED BY <1>3, <1>4, <1>5, <2>1
<1>7. Registered(t, r) /\ Registered(t, reg)
  BY <1>2, <1>6 DEF Registered
<1> QED BY <1>7 DEF t, r

-----------------------------------------------------------------------------
(* The invariant.                                                           *)

Cursor == doc \in Profiles /\ at \in 1..(Len(doc) + 1)

Opened == Shape(stack) /\ reg \in Regs /\ Registered(stack, reg)

Sizes ==
  /\ buf \in Seq(Cell) /\ bookmarks \in Seq(Nat \ {0})
  /\ Len(bookmarks) >= Depth(stack) /\ Placed(buf, bookmarks, Depth(stack))
  /\ Numbered => Len(bookmarks) = Depth(stack) /\ Matched(buf, bookmarks)

Opts == [reuse : {"yes", "no"}, v : Int, e : Int]
Files == [crt : Seq(Cell), vkey : Int, ekey : Int, lost : SUBSET Int]

KeyOrder ==
  /\ keys \in Keys /\ opt \in Opts /\ files \in Files
  /\ keys.next >= FirstKey
  /\ keys.cur < keys.next /\ keys.v < keys.next /\ keys.e < keys.next
  /\ opt.v < FirstKey /\ opt.e < FirstKey
  /\ files.vkey < keys.next /\ files.ekey < keys.next

Running ==
  /\ result \in {"reading", "done", "stopped", "error", "fatal"}
  /\ result = "fatal" => bookmarks # <<>> /\ ~Numbered

Inv == Cursor /\ Opened /\ Sizes /\ KeyOrder /\ Running

\* The parts of the invariant are those of the properties.
LEMMA InvGives == Inv => TypeOK /\ BookmarksMatch
<1> SUFFICES ASSUME Inv PROVE TypeOK /\ BookmarksMatch
  OBVIOUS
<1>1. TypeOK
  BY DEF Inv, Cursor, Opened, Sizes, KeyOrder, Running, TypeOK, Shape, Regs, Keys, Opts, Files
<1>2. Depth(stack) = SizedAt(1) + SizedAt(2) + SizedAt(3) + SizedAt(4) + SizedAt(5)
  BY DEF Depth, MeasuredIn, SizedAt
<1>3. BookmarksMatch
  <2>1. Len(bookmarks) >= Depth(stack) /\ (result = "fatal" => bookmarks # <<>> /\ ~Numbered)
    BY DEF Inv, Sizes, Running
  <2>2. ASSUME Numbered
        PROVE  /\ Len(bookmarks) = Depth(stack)
               /\ \A i, j \in DOMAIN bookmarks : i < j => bookmarks[i] < bookmarks[j]
               /\ \A p \in DOMAIN buf :
                    buf[p] = Left <=> \E i \in DOMAIN bookmarks : bookmarks[i] = p
               /\ \A i \in DOMAIN bookmarks : bookmarks[i] \in DOMAIN buf
    <3>1. Len(bookmarks) = Depth(stack) /\ Matched(buf, bookmarks)
      BY <2>2 DEF Inv, Sizes
    <3> QED BY <3>1 DEF Matched, LeftAtMarks, Increasing
  <2> QED BY <1>2, <2>1, <2>2 DEF BookmarksMatch
<1> QED BY <1>1, <1>3

LEMMA FileCells == NoFile \in Seq(Cell) /\ OldFile \in Seq(Cell)
<1>1. C("none", 0) \in Cell /\ C("cert", 0) \in Cell
  BY CellFacts DEF Kind
<1> QED BY <1>1 DEF NoFile, OldFile

LEMMA EmptyDepth == Shape(<<>>) /\ Depth(<<>>) = 0 /\ \A r : Registered(<<>>, r)
<1>1. Len(<<>>) = 0 /\ <<>> \in Seq(Event) /\ DOMAIN <<>> = {}
  OBVIOUS
<1>2. \A i : MeasuredIn(<<>>, i) = 0
  BY <1>1 DEF MeasuredIn
<1>3. 1..0 = {}
  BY SMT
<1> QED BY <1>1, <1>2, <1>3, SMT DEF Shape, Depth, Registered

LEMMA InvInit == Init => Inv
<1> SUFFICES ASSUME Init PROVE Inv
  OBVIOUS
<1> USE DEF Init
<1>1. Cursor
  <2>1. doc \in Seq(Event)
    BY ProfilesAssumption
  <2>2. Len(doc) \in Nat
    BY <2>1, LenProperties
  <2> QED BY <2>2, SMT DEF Cursor
<1>2. Opened
  <2>1. reg \in Regs
    BY SMT DEF Regs
  <2> QED BY <2>1, EmptyDepth DEF Opened
<1>3. Sizes
  <2>1. buf \in Seq(Cell) /\ bookmarks \in Seq(Nat \ {0}) /\ Len(bookmarks) = 0
    OBVIOUS
  <2>2. Placed(buf, bookmarks, 0)
    BY <2>1, NonePlaced
  <2> QED BY <2>1, <2>2, EmptyDepth, NothingMatched, SMT DEF Sizes
<1>4. KeyOrder
  <2>1. keys \in Keys /\ keys.cur = 0 /\ keys.v = 0 /\ keys.e = 0 /\ keys.next = 4
    BY SMT DEF Keys, FirstKey
  <2>2. opt \in Opts /\ opt.v < 4 /\ opt.e < 4
    BY SMT DEF Opts, GivenVKey, GivenEKey
  <2>3. files \in Files /\ files.vkey < 4 /\ files.ekey < 4
    <3>1. files \in [crt : {NoFile, OldFile}, vkey : {0, 2}, ekey : {0, 3}, lost : {{}}]
      BY DEF OldVKey, OldEKey
    <3>2. files.crt \in Seq(Cell) /\ files.lost = {} /\ files.vkey \in {0, 2}
          /\ files.ekey \in {0, 3}
      BY <3>1, FileCells
    <3>3. files = [crt |-> files.crt, vkey |-> files.vkey, ekey |-> files.ekey,
                   lost |-> files.lost]
      BY <3>1
    <3>4. files.vkey \in Int /\ files.ekey \in Int /\ files.vkey < 4 /\ files.ekey < 4
      BY <3>2, SMT
    <3> QED BY <3>2, <3>3, <3>4 DEF Files
  <2> QED BY <2>1, <2>2, <2>3, SMT DEF KeyOrder, FirstKey
<1>5. Running
  BY DEF Running
<1> QED BY <1>1, <1>2, <1>3, <1>4, <1>5 DEF Inv

-----------------------------------------------------------------------------
(* The steps.                                                               *)

\* What SignedStays says of a step.
SignedKept ==
  \A i \in DOMAIN buf : (buf[i].k = "sig" /\ buf' # <<>>) =>
    i \in DOMAIN buf' /\ \A j \in 1..i : buf'[j] = buf[j]

LEMMA EventAt ==
  ASSUME Cursor, Reading
  PROVE  doc[at] \in Event /\ at + 1 \in 1..(Len(doc) + 1)
<1>1. doc \in Seq(Event) /\ Len(doc) \in Nat
  BY ProfilesAssumption, LenProperties DEF Cursor
<1>2. at \in 1..Len(doc) /\ at + 1 \in 1..(Len(doc) + 1)
  BY <1>1, SMT DEF Cursor, Reading
<1> QED BY <1>1, <1>2, ElementOfSeq

\* What is appended moves nothing.
LEMMA PrefixKept ==
  ASSUME NEW b \in Seq(Cell), NEW w \in Seq(Cell)
  PROVE  \A i \in DOMAIN b : i \in DOMAIN (b \o w) /\ \A j \in 1..i : (b \o w)[j] = b[j]
<1>1. /\ b \o w \in Seq(Cell) /\ Len(b \o w) = Len(b) + Len(w) /\ Len(b) \in Nat /\ Len(w) \in Nat
      /\ \A i \in 1..Len(b) : (b \o w)[i] = b[i]
  BY ConcatFacts
<1>2. DOMAIN b = 1..Len(b) /\ DOMAIN (b \o w) = 1..(Len(b) + Len(w))
  BY <1>1, LenProperties
<1>3. \A i \in 1..Len(b) : i \in 1..(Len(b) + Len(w)) /\ \A j \in 1..i : j \in 1..Len(b)
  BY <1>1, SMT
<1> QED BY <1>1, <1>2, <1>3

LEMMA PrefixPushed ==
  ASSUME NEW b \in Seq(Cell)
  PROVE  \A i \in DOMAIN b :
           i \in DOMAIN Append(b, Left) /\ \A j \in 1..i : Append(b, Left)[j] = b[j]
<1>1. /\ Append(b, Left) \in Seq(Cell) /\ Len(Append(b, Left)) = Len(b) + 1 /\ Len(b) \in Nat
      /\ \A i \in 1..Len(b) : Append(b, Left)[i] = b[i]
  BY LeftFacts, AppendProperties, LenProperties
<1>2. DOMAIN b = 1..Len(b) /\ DOMAIN Append(b, Left) = 1..(Len(b) + 1)
  BY <1>1, LenProperties
<1>3. \A i \in 1..Len(b) : i \in 1..(Len(b) + 1) /\ \A j \in 1..i : j \in 1..Len(b)
  BY <1>1, SMT
<1> QED BY <1>1, <1>2, <1>3

\* The registers tell the elements that have a size from the others.
LEMMA AppliesFacts ==
  ASSUME Opened, stack # <<>>
  PROVE  Applies(Top) <=> Measured(stack[Len(stack)])
<1>1. stack \in Seq(Event) /\ Registered(stack, reg)
  BY DEF Opened, Shape
<1> DEFINE e == stack[Len(stack)]
<1>2. Len(stack) \in 1..Len(stack)
  <2>1. Len(stack) \in Nat /\ Len(stack) >= 1
    BY <1>1, FrontFacts
  <2> DEFINE l == Len(stack)
  <2>2. l \in Nat /\ l >= 1
    BY <2>1
  <2>3. l \in 1..l
    <3> HIDE DEF l
    <3> QED BY <2>2, SMT
  <2> QED BY <2>3
<1>3. /\ e.name = "attribute" => reg.sa = e.v
      /\ e.name = "public_key" => reg.pk = e.v
      /\ e.name = "restriction" => reg.vr = VrType(e)
  BY <1>1, <1>2 DEF Registered
<1>4. Top = e.name
  BY DEF Top
<1> HIDE DEF e
<1>5. Applies(e.name) <=> Measured(e)
  BY <1>3 DEF Applies, Measured, SizedByName
<1> QED BY <1>4, <1>5 DEF e

LEMMA TopIs == Top = TopOf(stack)
<1> QED BY DEF Top, TopOf

\* What Sizes says, with what the steps need beside it.
LEMMA SizesParts ==
  ASSUME Inv
  PROVE  /\ Cursor /\ Opened /\ KeyOrder
         /\ reg \in Regs /\ keys \in Keys
         /\ Shape(stack) /\ stack \in Seq(Event) /\ Len(stack) <= 5
         /\ buf \in Seq(Cell) /\ bookmarks \in Seq(Nat \ {0})
         /\ Len(bookmarks) \in Nat /\ Depth(stack) \in Nat /\ Len(bookmarks) >= Depth(stack)
         /\ Placed(buf, bookmarks, Depth(stack))
         /\ Numbered => Len(bookmarks) = Depth(stack) /\ Matched(buf, bookmarks)
<1>1. \A i \in 1..5 : MeasuredIn(stack, i) \in {0, 1}
  BY DEF MeasuredIn
<1>2. Depth(stack) \in Nat
  BY <1>1, SMT DEF Depth
<1> QED BY <1>2, LenProperties DEF Inv, Opened, Sizes, KeyOrder, Shape

\* What is appended without a size changes nothing of this.
LEMMA PlainSizes ==
  ASSUME Inv, NEW w, Plain(w), buf' = buf \o w, bookmarks' = bookmarks,
         Depth(stack') = Depth(stack), Numbered' <=> Numbered
  PROVE  Sizes' /\ SignedKept
<1>1. /\ buf \in Seq(Cell) /\ bookmarks \in Seq(Nat \ {0})
      /\ Depth(stack) \in Nat /\ Len(bookmarks) >= Depth(stack)
      /\ Placed(buf, bookmarks, Depth(stack))
      /\ Numbered => Len(bookmarks) = Depth(stack) /\ Matched(buf, bookmarks)
  BY SizesParts
<1>2. SizeFree(w) /\ w \in Seq(Cell)
  BY PlainIsSizeFree DEF Plain
<1>3. buf \o w \in Seq(Cell)
  BY <1>1, <1>2, ConcatFacts
<1>4. Placed(buf \o w, bookmarks, Depth(stack))
  BY <1>1, <1>2, ExtendedPlaced
<1>5. Numbered => Matched(buf \o w, bookmarks)
  BY <1>1, <1>2, Extended
<1>6. Sizes'
  BY <1>1, <1>3, <1>4, <1>5 DEF Sizes
<1>7. SignedKept
  BY <1>1, <1>2, PrefixKept DEF SignedKept
<1> QED BY <1>6, <1>7

LEMMA BeginSizes ==
  ASSUME Inv, NEW e, Begin(e)
  PROVE  Sizes' /\ SignedKept
<1>1. /\ Cursor /\ reg \in Regs /\ keys \in Keys /\ Shape(stack) /\ stack \in Seq(Event)
      /\ buf \in Seq(Cell) /\ bookmarks \in Seq(Nat \ {0})
      /\ Len(bookmarks) \in Nat /\ Depth(stack) \in Nat /\ Len(bookmarks) >= Depth(stack)
      /\ Placed(buf, bookmarks, Depth(stack))
      /\ Numbered => Len(bookmarks) = Depth(stack) /\ Matched(buf, bookmarks)
  BY SizesParts
<1>2. /\ Reading /\ e = doc[at] /\ e.name \in Children(TopOf(stack))
      /\ stack' = Append(stack, e) /\ doc' = doc /\ e.tag = "open"
  BY TopIs DEF Begin, Opening, Refuses, Goes
<1>3. e \in Event
  BY <1>1, <1>2, EventAt
<1> DEFINE w == IF e.name = "certificate" THEN <<>> ELSE buf \o Written(e)
           k == Depth(stack)
<1>4. /\ Sized(e) => buf' = Append(w, Left) /\ bookmarks' = Append(bookmarks, Len(w) + 1)
      /\ ~Sized(e) => buf' = w /\ bookmarks' = bookmarks
  BY DEF Begin
<1>5. Depth(stack') = k + (IF Measured(e) THEN 1 ELSE 0)
  <2>1. Len(stack) <= 4
    BY <1>1, <1>2, ChildFacts
  <2> QED BY <1>1, <1>2, <1>3, <2>1, PushedDepth
<1>6. Numbered' <=> Numbered
  BY <1>2 DEF Numbered
<1>7. Numbered => (Sized(e) <=> Measured(e))
  <2>1. at \in DOMAIN doc
    <3>1. doc \in Seq(Event)
      BY <1>1, ProfilesAssumption DEF Cursor
    <3>2. at \in 1..Len(doc)
      BY <1>1, <1>2, <3>1, LenProperties, SMT DEF Cursor, Reading
    <3> QED BY <3>1, <3>2, LenProperties
  <2> QED BY <1>2, <1>3, <2>1, NumberedSized, MeasuredSized
<1>8. e.name = "certificate" => ~Sized(e)
  BY DEF Sized, SizedByName
<1>9. e.name \in {"certificate", "signature"} => k = 0
  BY <1>1, <1>2, NoneOpen
<1>10. /\ SizeFree(Written(e)) /\ (e.name # "signature" => Plain(Written(e)))
       /\ Written(e) \in Seq(Cell)
  BY <1>1, <1>3, WrittenFacts DEF SizeFree
<1>11. w \in Seq(Cell) /\ Placed(w, bookmarks, k)
  <2>1. CASE e.name = "certificate"
    BY <1>1, <1>9, <2>1, NonePlaced
  <2>2. CASE e.name # "certificate"
    <3>1. Plain(Written(e)) \/ k = 0
      BY <1>9, <1>10
    <3>2. buf \o Written(e) \in Seq(Cell)
      BY <1>1, <1>10, ConcatFacts
    <3> HIDE DEF k
    <3>3. Placed(buf \o Written(e), bookmarks, k)
      BY <1>1, <1>10, <3>1, ExtendedPlaced DEF k
    <3> QED BY <2>2, <3>2, <3>3
  <2> QED BY <2>1, <2>2
<1>12. Numbered => Len(bookmarks) = k /\ Matched(w, bookmarks)
  <2>1. SUFFICES ASSUME Numbered PROVE Matched(w, bookmarks)
    BY <1>1
  <2>2. CASE e.name = "certificate"
    <3>1. Len(bookmarks) = 0
      BY <1>1, <1>9, <2>1, <2>2
    <3>2. bookmarks = <<>>
      BY <1>1, <3>1, EmptySeq
    <3> QED BY <2>2, <3>2, NothingMatched
  <2>3. CASE e.name # "certificate"
    <3>1. Matched(buf \o Written(e), bookmarks)
      BY <1>1, <1>10, <2>1, Extended
    <3> QED BY <2>3, <3>1
  <2> QED BY <2>2, <2>3
<1>13. e.name # "certificate" => \A i \in DOMAIN buf : i \in DOMAIN w /\ \A j \in 1..i : w[j] = buf[j]
  BY <1>1, <1>10, PrefixKept
<1>14. SignedKept
  <2>1. CASE e.name = "certificate"
    <3>1. buf' = <<>>
      BY <1>4, <1>8, <2>1
    <3> QED BY <3>1 DEF SignedKept
  <2>2. CASE e.name # "certificate"
    <3> HIDE DEF w
    <3>1. \A i \in DOMAIN w : i \in DOMAIN buf' /\ \A j \in 1..i : buf'[j] = w[j]
      <4>1. CASE Sized(e)
        <5>1. buf' = Append(w, Left)
          BY <1>4, <4>1
        <5> QED BY <1>11, <5>1, PrefixPushed
      <4>2. CASE ~Sized(e)
        BY <1>4, <4>2
      <4> QED BY <4>1, <4>2
    <3>2. \A i \in DOMAIN buf : i \in DOMAIN w /\ \A j \in 1..i : w[j] = buf[j]
      BY <1>13, <2>2
    <3>3. ASSUME NEW i \in DOMAIN buf PROVE i \in DOMAIN buf' /\ \A j \in 1..i : buf'[j] = buf[j]
      <4>1. i \in DOMAIN w /\ \A j \in 1..i : w[j] = buf[j]
        BY <3>2
      <4>2. i \in DOMAIN buf' /\ \A j \in 1..i : buf'[j] = w[j]
        BY <3>1, <4>1
      <4> QED BY <4>1, <4>2
    <3> QED BY <3>3 DEF SignedKept
  <2> QED BY <2>1, <2>2
<1> HIDE DEF w, k
<1>15. k \in Nat /\ Len(bookmarks) \in Nat /\ k <= Len(bookmarks)
  BY <1>1 DEF k
<1>16. Sizes'
  <2>1. CASE Sized(e)
    <3>1. buf' = Append(w, Left) /\ bookmarks' = Append(bookmarks, Len(w) + 1)
      BY <1>4, <2>1
    <3>2. /\ buf' \in Seq(Cell) /\ bookmarks' \in Seq(Nat \ {0})
          /\ Len(bookmarks') = Len(bookmarks) + 1 /\ Placed(buf', bookmarks', k + 1)
      BY <1>1, <1>11, <1>15, <3>1, PushedPlaced
    <3>3. Depth(stack') = k \/ Depth(stack') = k + 1
      <4>1. CASE Measured(e)
        BY <1>5, <4>1
      <4>2. CASE ~Measured(e)
        <5>1. Depth(stack') = k + 0
          BY <1>5, <4>2
        <5> QED BY <1>15, <5>1, SMT
      <4> QED BY <4>1, <4>2
    <3>4. Placed(buf', bookmarks', k)
      BY <1>15, <3>2, FewerPlaced
    <3>5. Placed(buf', bookmarks', Depth(stack')) /\ Len(bookmarks') >= Depth(stack')
      <4>1. Len(bookmarks) + 1 >= k /\ Len(bookmarks) + 1 >= k + 1
        BY <1>15, SMT
      <4> QED BY <3>2, <3>3, <3>4, <4>1
    <3>6. Numbered => Len(bookmarks') = Depth(stack') /\ Matched(buf', bookmarks')
      <4>1. SUFFICES ASSUME Numbered
                     PROVE  Len(bookmarks') = Depth(stack') /\ Matched(buf', bookmarks')
        OBVIOUS
      <4>2. Depth(stack') = k + 1
        BY <1>5, <1>7, <2>1, <4>1
      <4>3. Matched(Append(w, Left), Append(bookmarks, Len(w) + 1))
        BY <1>1, <1>11, <1>12, <4>1, Pushed
      <4> QED BY <1>12, <3>1, <3>2, <4>1, <4>2, <4>3
    <3> QED BY <1>6, <3>2, <3>5, <3>6 DEF Sizes
  <2>2. CASE ~Sized(e)
    <3>1. buf' = w /\ bookmarks' = bookmarks
      BY <1>4, <2>2
    <3>2. Depth(stack') = k
      <4>1. Depth(stack') = k + 0
        BY <1>5, <2>2, MeasuredSized
      <4> QED BY <1>15, <4>1, SMT
    <3>3. Len(bookmarks') >= Depth(stack')
      BY <1>1, <3>1, <3>2 DEF k
    <3> QED BY <1>1, <1>6, <1>11, <1>12, <3>1, <3>2, <3>3 DEF Sizes
  <2> QED BY <2>1, <2>2
<1> QED BY <1>14, <1>16

LEMMA EndSizes ==
  ASSUME Inv, NEW e, End(e)
  PROVE  Sizes' /\ SignedKept
<1>1. /\ Cursor /\ Opened /\ reg \in Regs /\ keys \in Keys
      /\ stack \in Seq(Event) /\ Len(stack) <= 5
      /\ buf \in Seq(Cell) /\ bookmarks \in Seq(Nat \ {0})
      /\ Len(bookmarks) \in Nat /\ Depth(stack) \in Nat /\ Len(bookmarks) >= Depth(stack)
      /\ Placed(buf, bookmarks, Depth(stack))
      /\ Numbered => Len(bookmarks) = Depth(stack) /\ Matched(buf, bookmarks)
  BY SizesParts
<1>2. /\ Reading /\ e = doc[at] /\ stack # <<>> /\ e.name = Top /\ doc' = doc
      /\ stack' = SubSeq(stack, 1, Len(stack) - 1)
  BY DEF End, Closing, Goes
<1>3. e \in Event
  BY <1>1, <1>2, EventAt
<1> DEFINE t == stack[Len(stack)]
           k == Depth(stack)
<1>4. /\ Depth(stack') = k - (IF Measured(t) THEN 1 ELSE 0)
      /\ (Measured(t) => k >= 1)
  BY <1>1, <1>2, PoppedDepth
<1>5. Applies(e.name) <=> Measured(t)
  BY <1>1, <1>2, AppliesFacts
<1>6. t \in Event
  <2>1. Len(stack) \in Nat /\ Len(stack) >= 1
    BY <1>1, <1>2, FrontFacts
  <2> DEFINE l == Len(stack)
  <2>2. l \in Nat /\ l >= 1
    BY <2>1
  <2>3. l \in 1..l
    <3> HIDE DEF l
    <3> QED BY <2>2, SMT
  <2> QED BY <1>1, <2>3, ElementOfSeq
<1>7. Numbered' <=> Numbered
  BY <1>2 DEF Numbered
<1> HIDE DEF t, k
<1>8. k \in Nat /\ k <= Len(bookmarks) /\ Placed(buf, bookmarks, k)
      /\ (Numbered => Len(bookmarks) = k)
  BY <1>1 DEF k
<1>9. CASE Applies(e.name)
  <2>1. /\ bookmarks # <<>> /\ buf' = SizeWritten(bookmarks[Len(bookmarks)])
        /\ bookmarks' = SubSeq(bookmarks, 1, Len(bookmarks) - 1)
    BY <1>9 DEF End
  <2> DEFINE b == bookmarks[Len(bookmarks)]
             w == Num(Len(buf) - b)
             c == Resized(buf, bookmarks[Len(bookmarks)], w)
             m == SubSeq(bookmarks, 1, Len(bookmarks) - 1)
  <2>2. buf' = c /\ bookmarks' = m
    BY <2>1 DEF SizeWritten, Resized
  <2>3. Plain(w) /\ Len(w) >= 1
    <3>1. Len(bookmarks) \in 1..Len(bookmarks) /\ Len(buf) \in Nat
      BY <1>1, <2>1, FrontMarks, LenProperties
    <3>2. b \in Nat \ {0}
      BY <1>1, <3>1, ElementOfSeq
    <3> HIDE DEF b
    <3>3. Len(buf) - b \in Int
      BY <3>1, <3>2, SMT
    <3> QED BY <3>3, NumSimple, SimpleIsPlain
  <2> HIDE DEF w
  <2>4. Depth(stack') = k - 1 /\ k >= 1
    BY <1>4, <1>5, <1>9
  <2>5. /\ c \in Seq(Cell) /\ m \in Seq(Nat \ {0}) /\ Len(m) = Len(bookmarks) - 1
        /\ Placed(c, m, k - 1)
        /\ \A p \in DOMAIN buf : buf[p].k = "sig" =>
             p \in DOMAIN c /\ \A j \in 1..p : c[j] = buf[j]
    BY <1>1, <1>8, <2>3, <2>4, PoppedPlaced
  <2>6. Numbered => Matched(c, m)
    <3>1. Numbered => Matched(buf, bookmarks)
      BY <1>1
    <3> QED BY <1>1, <2>1, <2>3, <3>1, Popped
  <2> HIDE DEF c, m
  <2>7. Len(bookmarks) - 1 >= k - 1 /\ (Numbered => Len(bookmarks) - 1 = k - 1)
    BY <1>1, <1>8, SMT
  <2>8. Sizes'
    BY <1>7, <2>2, <2>4, <2>5, <2>6, <2>7 DEF Sizes
  <2>9. SignedKept
    BY <2>2, <2>5 DEF SignedKept
  <2> QED BY <2>8, <2>9
<1>10. CASE ~Applies(e.name)
  <2> DEFINE w == WrittenAtEnd(e, t.v)
  <2>1. buf' = buf \o w /\ bookmarks' = bookmarks
    BY <1>10 DEF End, t
  <2>2. t.v \in Int
    BY <1>6, EventFacts
  <2>3. Plain(w)
    BY <1>1, <1>3, <2>2, EndFacts
  <2> HIDE DEF w
  <2>4. Depth(stack') = k
    <3>1. Depth(stack') = k - 0
      BY <1>4, <1>5, <1>10
    <3> QED BY <1>8, <3>1, SMT
  <2>5. Sizes' /\ SignedKept
    BY <1>1, <1>7, <2>1, <2>3, <2>4, PlainSizes DEF k
  <2> QED BY <2>5
<1> QED BY <1>9, <1>10

LEMMA ContentSizes ==
  ASSUME Inv, Content
  PROVE  Sizes' /\ SignedKept
<1>1. Cursor /\ buf \in Seq(Cell)
  BY DEF Inv, Sizes
<1>2. Reading /\ stack' = stack /\ bookmarks' = bookmarks /\ doc' = doc
  BY DEF Content, Goes
<1>3. doc[at].n \in Nat
  BY <1>1, <1>2, EventAt, EventFacts
<1>4. \E w \in {Text(doc[at].n), <<>>} : buf' = buf \o w
  <2>1. buf' = buf \o Text(doc[at].n) \/ buf' = buf
    BY DEF Content
  <2>2. buf \o <<>> = buf
    BY <1>1, ConcatEmptySeq
  <2> QED BY <2>1, <2>2
<1>5. PICK w \in {Text(doc[at].n), <<>>} : buf' = buf \o w
  BY <1>4
<1>6. Plain(w)
  BY <1>3, TextSimple, NoneSimple, SimpleIsPlain
<1>7. Depth(stack') = Depth(stack) /\ (Numbered' <=> Numbered)
  BY <1>2 DEF Numbered
<1> QED BY <1>2, <1>5, <1>6, <1>7, PlainSizes

LEMMA FinishSizes ==
  ASSUME Inv, NEW e, Finish(e)
  PROVE  Sizes' /\ SignedKept
<1>1. /\ Sizes /\ stack \in Seq(Event) /\ Len(stack) <= 5
  BY DEF Inv, Opened, Sizes, Shape
<1>2. /\ stack # <<>> /\ e.name = Top /\ e.name = "certificate"
      /\ stack' = SubSeq(stack, 1, Len(stack) - 1)
      /\ buf' = buf /\ bookmarks' = bookmarks /\ doc' = doc
  BY DEF Finish, Closing
<1>3. stack[Len(stack)].name = "certificate"
  BY <1>2 DEF Top
<1>4. ~Measured(stack[Len(stack)])
  BY <1>3 DEF Measured, SizedByName
<1>5. Depth(stack') = Depth(stack) - 0 /\ Depth(stack) \in Nat
  BY <1>1, <1>2, <1>4, PoppedDepth
<1>6. Depth(stack') = Depth(stack) /\ (Numbered' <=> Numbered)
  BY <1>2, <1>5, SMT DEF Numbered
<1>7. Sizes'
  BY <1>1, <1>2, <1>6 DEF Sizes
<1>8. \A i \in DOMAIN buf : i \in DOMAIN buf' /\ \A j \in 1..i : buf'[j] = buf[j]
  BY <1>2
<1> QED BY <1>7, <1>8 DEF SignedKept

LEMMA SameSizes ==
  ASSUME Sizes, UNCHANGED <<doc, stack, buf, bookmarks>>
  PROVE  Sizes' /\ SignedKept
<1>1. Numbered' <=> Numbered
  BY DEF Numbered
<1> QED BY <1>1 DEF Sizes, SignedKept

LEMMA BeginOpened ==
  ASSUME Inv, NEW e, Begin(e)
  PROVE  Opened'
<1>1. Cursor /\ Shape(stack) /\ reg \in Regs /\ Registered(stack, reg)
  BY DEF Inv, Opened
<1>2. /\ Reading /\ e = doc[at] /\ e.name \in Children(TopOf(stack))
      /\ stack' = Append(stack, e) /\ reg' = RegAfterOpen(e)
  BY TopIs DEF Begin, Opening, Refuses
<1>3. e \in Event
  BY <1>1, <1>2, EventAt
<1>4. Shape(Append(stack, e))
  BY <1>1, <1>2, <1>3, PushedShape
<1>5. Registered(Append(stack, e), RegAfterOpen(e))
  BY <1>1, <1>2, <1>3, PushedRegisters
<1>6. RegAfterOpen(e) \in Regs
  BY <1>1, <1>3, RegOpenFacts
<1> QED BY <1>2, <1>4, <1>5, <1>6 DEF Opened

LEMMA CloseOpened ==
  ASSUME Opened, NEW e, stack # <<>>, e.name = Top,
         stack' = SubSeq(stack, 1, Len(stack) - 1), reg' = RegAfterClose(e) \/ reg' = reg
  PROVE  Opened'
<1>1. Shape(stack) /\ reg \in Regs /\ Registered(stack, reg)
  BY DEF Opened
<1>2. e.name = stack[Len(stack)].name
  BY DEF Top
<1>3. Shape(stack')
  BY <1>1, PoppedShape
<1>4. Registered(stack', RegAfterClose(e)) /\ Registered(stack', reg)
  BY <1>1, <1>2, PoppedRegisters
<1>5. RegAfterClose(e) \in Regs
  BY <1>1, RegCloseFacts
<1> QED BY <1>1, <1>3, <1>4, <1>5 DEF Opened

LEMMA ContentOpened ==
  ASSUME Inv, Content
  PROVE  Opened'
<1>1. Cursor /\ Shape(stack) /\ reg \in Regs /\ Registered(stack, reg)
  BY DEF Inv, Opened
<1>2. Reading /\ stack' = stack
  BY DEF Content
<1>3. doc[at].n \in Nat
  BY <1>1, <1>2, EventAt, EventFacts
<1>4. reg.data \in Nat \cup {-1}
  BY <1>1 DEF Regs
<1> DEFINE d == IF reg.data = -1 THEN doc[at].n ELSE reg.data + doc[at].n
<1>5. d \in Nat \cup {-1}
  <2> DEFINE x == reg.data
             n == doc[at].n
  <2>1. x \in Nat \cup {-1} /\ n \in Nat
    BY <1>3, <1>4
  <2> HIDE DEF x, n
  <2>2. (IF x = -1 THEN n ELSE x + n) \in Nat \cup {-1}
    BY <2>1, SMT
  <2> QED BY <2>2 DEF x, n
<1>6. reg' = [reg EXCEPT !.data = d] \/ reg' = reg
  BY DEF Content
<1> HIDE DEF d
<1>7. /\ reg' \in Regs /\ reg'.sa = reg.sa /\ reg'.pk = reg.pk /\ reg'.vr = reg.vr
  BY <1>1, <1>5, <1>6, SMT DEF Regs
<1>8. Registered(stack', reg')
  BY <1>1, <1>2, <1>7 DEF Registered
<1> QED BY <1>1, <1>2, <1>7, <1>8 DEF Opened

\* The parts of the records of the keys.
LEMMA KeyParts ==
  ASSUME KeyOrder
  PROVE  /\ keys.cur \in Int /\ keys.v \in Int /\ keys.e \in Int /\ keys.next \in Nat
         /\ opt.reuse \in {"yes", "no"} /\ opt.v \in Int /\ opt.e \in Int
         /\ files.crt \in Seq(Cell) /\ files.vkey \in Int /\ files.ekey \in Int
         /\ files.lost \in SUBSET Int /\ keys.next >= FirstKey /\ keys.cur < keys.next /\ keys.v < keys.next
         /\ keys.e < keys.next /\ opt.v < FirstKey /\ opt.e < FirstKey
         /\ files.vkey < keys.next /\ files.ekey < keys.next
         /\ FirstKey = 4
<1>1. keys.cur \in Int /\ keys.v \in Int /\ keys.e \in Int /\ keys.next \in Nat
  BY DEF KeyOrder, Keys
<1>2. opt.reuse \in {"yes", "no"} /\ opt.v \in Int /\ opt.e \in Int
  BY DEF KeyOrder, Opts
<1>3. files.crt \in Seq(Cell) /\ files.vkey \in Int /\ files.ekey \in Int
      /\ files.lost \in SUBSET Int
  BY DEF KeyOrder, Files
<1> QED BY <1>1, <1>2, <1>3 DEF KeyOrder, FirstKey

LEMMA BeginKeys ==
  ASSUME KeyOrder, NEW e, Begin(e)
  PROVE  KeyOrder'
<1>1. files' = files
  BY DEF Begin, Goes
<1>2. CASE e.name = "attribute" /\ e.v \in {0, 1}
  <2>1. /\ keys' = [keys EXCEPT !.cur = Preset(e)]
        /\ opt' = [opt EXCEPT !.reuse = "no"] \/ opt' = opt
    BY <1>2 DEF Begin, LoadKey
  <2>2. Preset(e) \in {opt.v, opt.e, files.vkey, files.ekey, keys.cur}
    BY DEF Preset, Given, Old
  <2>3. Preset(e) \in Int /\ Preset(e) < keys.next
    <3>1. opt.v < keys.next /\ opt.e < keys.next
      BY KeyParts, SMT
    <3> QED BY <2>2, <3>1, KeyParts
  <2>4. /\ keys' \in Keys /\ keys'.cur = Preset(e) /\ keys'.v = keys.v /\ keys'.e = keys.e
        /\ keys'.next = keys.next
    <3>1. keys \in Keys
      BY DEF KeyOrder
    <3> QED BY <2>1, <2>3, <3>1, SMT DEF Keys
  <2>5. opt' \in Opts /\ opt'.v = opt.v /\ opt'.e = opt.e
    <3>1. opt \in Opts
      BY DEF KeyOrder
    <3> QED BY <2>1, <3>1, SMT DEF Opts
  <2> QED BY <1>1, <2>3, <2>4, <2>5 DEF KeyOrder
<1>3. CASE ~(e.name = "attribute" /\ e.v \in {0, 1})
  <2>1. keys' = keys /\ opt' = opt
    BY <1>3 DEF Begin
  <2> QED BY <1>1, <2>1 DEF KeyOrder
<1> QED BY <1>2, <1>3

LEMMA EndKeys ==
  ASSUME Inv, NEW e, End(e)
  PROVE  KeyOrder'
<1>1. files' = files /\ opt' = opt /\ KeyOrder
  BY DEF End, Goes, Inv
<1>2. keys' = AsVKey \/ keys' = AsEKey \/ keys' = WithPoint \/ keys' = keys
  BY DEF End, KeysSet
<1>3. CASE keys' = AsVKey \/ keys' = AsEKey
  <2>1. keys'.cur = 0 /\ keys'.v \in {keys.v, keys.cur} /\ keys'.e \in {keys.e, keys.cur}
        /\ keys'.next = keys.next
    BY <1>3 DEF AsVKey, AsEKey
  <2>2. keys' \in Keys
    BY <1>1, <1>3, KeyParts, SMT DEF AsVKey, AsEKey, Keys
  <2>3. 0 < keys.next
    BY <1>1, KeyParts, SMT
  <2> QED BY <1>1, <2>1, <2>2, <2>3, KeyParts DEF KeyOrder
<1>4. CASE keys' = WithPoint
  <2>1. keys'.cur = PointKey /\ keys'.v = keys.v /\ keys'.e = keys.e
        /\ keys'.next = IF PointKey = keys.next THEN keys.next + 1 ELSE keys.next
    BY <1>4 DEF WithPoint
  <2>2. PointKey \in {keys.cur, -3, keys.next, 0}
    BY DEF PointKey, DataKey
  <2> DEFINE n == IF PointKey = keys.next THEN keys.next + 1 ELSE keys.next
  <2>3. PointKey \in Int /\ n \in Nat /\ PointKey < n /\ keys.next <= n
    <3> DEFINE k == PointKey
               x == keys.next
               c == keys.cur
    <3>1. k \in {c, -3, x, 0} /\ x \in Nat /\ x >= 4 /\ c \in Int /\ c < x
      BY <1>1, <2>2, KeyParts
    <3> HIDE DEF k, x, c
    <3>2. k \in Int /\ (IF k = x THEN x + 1 ELSE x) \in Nat
          /\ k < (IF k = x THEN x + 1 ELSE x) /\ x <= (IF k = x THEN x + 1 ELSE x)
      BY <3>1, SMT
    <3> QED BY <3>2 DEF k, x
  <2> HIDE DEF n
  <2>4. keys' = [cur |-> PointKey, v |-> keys.v, e |-> keys.e, next |-> n]
    BY <1>4 DEF WithPoint, n
  <2>5. keys' \in Keys
    BY <1>1, <2>3, <2>4, KeyParts, SMT DEF Keys
  <2>6. keys'.next = n /\ keys'.cur = PointKey
    BY <2>4
  <2>7. n >= FirstKey /\ keys.v < n /\ keys.e < n /\ files.vkey < n /\ files.ekey < n
    BY <1>1, <2>3, KeyParts, SMT
  <2> QED BY <1>1, <2>1, <2>3, <2>5, <2>6, <2>7 DEF KeyOrder
<1>5. CASE keys' = keys
  BY <1>1, <1>5 DEF KeyOrder
<1> QED BY <1>2, <1>3, <1>4, <1>5

LEMMA FinishKeys ==
  ASSUME Inv, NEW e, Finish(e)
  PROVE  KeyOrder'
<1>1. KeyOrder /\ buf \in Seq(Cell) /\ keys' = keys /\ opt' = opt
  BY DEF Inv, Sizes, Finish
<1>2. PICK crt \in {buf, files.crt}, v \in Saved(keys.v, opt.v, files.vkey),
           k \in Saved(keys.e, opt.e, files.ekey) :
        files' = [crt |-> crt, vkey |-> v, ekey |-> k,
                  lost |-> files.lost \cup Unsaved(keys.v, opt.v, v)
                                      \cup Unsaved(keys.e, opt.e, k)]
  BY DEF Finish
<1>3. crt \in Seq(Cell)
  BY <1>1, KeyParts
<1>4. v \in {keys.v, 0, files.vkey} /\ k \in {keys.e, 0, files.ekey}
  BY DEF Saved
<1>5. 0 < keys.next /\ 0 \in Int
  BY <1>1, KeyParts, SMT
<1>6. v \in Int /\ v < keys.next /\ k \in Int /\ k < keys.next
  BY <1>1, <1>4, <1>5, KeyParts
<1>7. files.lost \cup Unsaved(keys.v, opt.v, v) \cup Unsaved(keys.e, opt.e, k) \in SUBSET Int
  <2>1. Unsaved(keys.v, opt.v, v) \subseteq {keys.v} /\ Unsaved(keys.e, opt.e, k) \subseteq {keys.e}
    BY DEF Unsaved
  <2> QED BY <1>1, <2>1, KeyParts
<1>8. files' \in Files /\ files'.vkey = v /\ files'.ekey = k
  BY <1>2, <1>3, <1>6, <1>7 DEF Files
<1> QED BY <1>1, <1>6, <1>8 DEF KeyOrder

\* A part with a size finds its bookmark when it closes, and one free when it opens, unless
\* restrictions of no known type have left theirs.
LEMMA ExitOnly ==
  ASSUME Inv, Reading, Exits(doc[at])
  PROVE  bookmarks # <<>> /\ ~Numbered
<1> DEFINE e == doc[at]
<1>1. /\ Cursor /\ Opened /\ Shape(stack) /\ stack \in Seq(Event) /\ Len(stack) <= 5
      /\ bookmarks \in Seq(Nat \ {0}) /\ Len(bookmarks) \in Nat /\ Depth(stack) \in Nat
      /\ Len(bookmarks) >= Depth(stack) /\ (Numbered => Len(bookmarks) = Depth(stack))
  BY SizesParts
<1>2. e \in Event
  BY <1>1, EventAt
<1>3. at \in DOMAIN doc
  <2>1. doc \in Seq(Event)
    BY <1>1, ProfilesAssumption DEF Cursor
  <2>2. at \in 1..Len(doc)
    BY <1>1, <2>1, LenProperties, SMT DEF Cursor, Reading
  <2> QED BY <2>1, <2>2, LenProperties
<1>4. ASSUME Opening(e), ~Refuses(e), Sized(e), Len(bookmarks) >= MaxBookmarks
      PROVE  bookmarks # <<>> /\ ~Numbered
  <2>1. e.name \in Children(TopOf(stack)) /\ e.tag = "open"
    BY <1>4, TopIs DEF Refuses, Opening
  <2>2. ASSUME Numbered PROVE FALSE
    <3>1. Measured(e)
      BY <1>2, <1>3, <1>4, <2>1, <2>2, NumberedSized
    <3>2. Depth(stack) <= 2
      BY <1>1, <1>2, <2>1, <3>1, MeasuredDepth
    <3>3. Len(bookmarks) <= 2
      BY <1>1, <2>2, <3>2
    <3> QED BY <1>1, <1>4, <3>3, BoundAssumption, SMT
  <2>3. Len(bookmarks) # 0
    BY <1>1, <1>4, BoundAssumption, SMT
  <2>4. bookmarks # <<>>
    BY <2>3
  <2> QED BY <2>2, <2>4
<1> HIDE DEF e
<1>5. ASSUME Closing(e), Applies(e.name), bookmarks = <<>> PROVE FALSE
  <2>1. stack # <<>> /\ e.name = Top
    BY <1>5 DEF Closing
  <2>2. Measured(stack[Len(stack)])
    BY <1>1, <1>5, <2>1, AppliesFacts
  <2>3. Depth(stack) >= 1
    BY <1>1, <2>1, <2>2, PoppedDepth
  <2>4. Len(bookmarks) = 0
    BY <1>5
  <2> QED BY <1>1, <2>3, <2>4, SMT
<1>6. Exits(e)
  BY DEF e
<1> QED BY <1>4, <1>5, <1>6 DEF Exits

LEMMA GoesCursor ==
  ASSUME Cursor, Reading, doc' = doc, at' = at + 1
  PROVE  Cursor'
<1> QED BY EventAt DEF Cursor

LEMMA InvNext ==
  ASSUME Inv, [Next]_vars
  PROVE  Inv' /\ SignedKept
<1>1. Cursor /\ Opened /\ Sizes /\ KeyOrder /\ Running
  BY DEF Inv
<1>2. CASE Reading /\ Begin(doc[at])
  <2>1. doc' = doc /\ at' = at + 1 /\ result' = result /\ result = "reading"
    BY <1>2 DEF Begin, Goes, Reading
  <2>2. Cursor' /\ Running'
    BY <1>1, <1>2, <2>1, GoesCursor DEF Running
  <2>3. Opened' /\ Sizes' /\ SignedKept /\ KeyOrder'
    BY <1>1, <1>2, BeginOpened, BeginSizes, BeginKeys
  <2> QED BY <2>2, <2>3 DEF Inv
<1>3. CASE Reading /\ End(doc[at])
  <2>1. doc' = doc /\ at' = at + 1 /\ result' = result /\ result = "reading"
    BY <1>3 DEF End, Goes, Reading
  <2>2. Cursor' /\ Running'
    BY <1>1, <1>3, <2>1, GoesCursor DEF Running
  <2>3. Sizes' /\ SignedKept /\ KeyOrder'
    BY <1>3, EndSizes, EndKeys
  <2>4. /\ stack # <<>> /\ doc[at].name = Top /\ reg' = RegAfterClose(doc[at])
        /\ stack' = SubSeq(stack, 1, Len(stack) - 1)
    BY <1>3 DEF End, Closing
  <2>5. Opened'
    BY <1>1, <2>4, CloseOpened
  <2> QED BY <2>2, <2>3, <2>5 DEF Inv
<1>4. CASE Reading /\ Finish(doc[at])
  <2>1. doc' = doc /\ at' = at + 1 /\ result' = result /\ result = "reading"
    BY <1>4 DEF Finish, Reading
  <2>2. Cursor' /\ Running'
    BY <1>1, <1>4, <2>1, GoesCursor DEF Running
  <2>3. Sizes' /\ SignedKept /\ KeyOrder'
    BY <1>4, FinishSizes, FinishKeys
  <2>4. /\ stack # <<>> /\ doc[at].name = Top /\ reg' = reg
        /\ stack' = SubSeq(stack, 1, Len(stack) - 1)
    BY <1>4 DEF Finish, Closing
  <2>5. Opened'
    BY <1>1, <2>4, CloseOpened
  <2> QED BY <2>2, <2>3, <2>5 DEF Inv
<1>5. CASE Content
  <2>1. /\ Reading /\ doc' = doc /\ at' = at + 1 /\ result' = result /\ result = "reading"
        /\ UNCHANGED <<keys, opt, files>>
    BY <1>5 DEF Content, Goes, Reading
  <2>2. Cursor' /\ Running'
    BY <1>1, <2>1, GoesCursor DEF Running
  <2>3. KeyOrder'
    BY <1>1, <2>1 DEF KeyOrder
  <2>4. Sizes' /\ SignedKept /\ Opened'
    BY <1>5, ContentSizes, ContentOpened
  <2> QED BY <2>2, <2>3, <2>4 DEF Inv
<1>6. ASSUME NEW r \in {"done", "stopped", "error", "fatal"}, Ends(r),
             r = "fatal" => bookmarks # <<>> /\ ~Numbered
      PROVE  Inv' /\ SignedKept
  <2>1. result' = r /\ UNCHANGED <<doc, at, stack, buf, bookmarks, reg, keys, opt, files>>
    BY <1>6 DEF Ends
  <2>2. Numbered' <=> Numbered
    BY <2>1 DEF Numbered
  <2>3. Cursor' /\ Opened' /\ KeyOrder' /\ Running'
    BY <1>1, <1>6, <2>1, <2>2 DEF Cursor, Opened, KeyOrder, Running
  <2>4. Sizes' /\ SignedKept
    BY <1>1, <2>1, SameSizes
  <2> QED BY <2>3, <2>4 DEF Inv
<1>7. CASE Fail
  <2>1. PICK r \in {"error", "fatal"} :
          (IF r = "error" THEN Fails(doc[at]) ELSE Exits(doc[at])) /\ Ends(r)
    BY <1>7 DEF Fail
  <2>2. r = "fatal" => bookmarks # <<>> /\ ~Numbered
    BY <1>7, <2>1, ExitOnly DEF Fail
  <2> QED BY <1>6, <2>1, <2>2
<1>8. CASE Stop
  BY <1>6, <1>8 DEF Stop
<1>9. CASE EndOfFile
  BY <1>6, <1>9 DEF EndOfFile
<1>10. CASE UNCHANGED vars
  <2>1. UNCHANGED <<doc, at, stack, buf, bookmarks, reg, keys, opt, files, result>>
    BY <1>10 DEF vars
  <2>2. Cursor' /\ Opened' /\ KeyOrder' /\ Running'
    BY <1>1, <2>1 DEF Cursor, Opened, KeyOrder, Running, Numbered
  <2>3. Sizes' /\ SignedKept
    BY <1>1, <2>1, SameSizes
  <2> QED BY <2>2, <2>3 DEF Inv
<1> QED BY <1>2, <1>3, <1>4, <1>5, <1>7, <1>8, <1>9, <1>10 DEF Next

-----------------------------------------------------------------------------
\* Where the cells come from.
LEMMA ConcatCells ==
  ASSUME NEW b \in Seq(Cell), NEW w \in Seq(Cell), NEW i \in 1..Len(b \o w)
  PROVE  (\E j \in 1..Len(b) : (b \o w)[i] = b[j]) \/ (\E j \in 1..Len(w) : (b \o w)[i] = w[j])
<1>1. /\ \A j \in 1..Len(b) : (b \o w)[j] = b[j]
      /\ \A j \in 1..Len(w) : (b \o w)[Len(b) + j] = w[j]
      /\ i <= Len(b) \/ i - Len(b) \in 1..Len(w)
      /\ Len(b) \in Nat /\ Len(w) \in Nat
  BY ConcatFacts
<1>2. CASE i <= Len(b)
  <2>1. i \in 1..Len(b)
    BY <1>1, <1>2, SMT
  <2> QED BY <1>1, <2>1
<1>3. CASE ~(i <= Len(b))
  <2>1. i - Len(b) \in 1..Len(w) /\ Len(b) + (i - Len(b)) = i
    BY <1>1, <1>3, SMT
  <2> QED BY <1>1, <2>1
<1> QED BY <1>2, <1>3

LEMMA PushedCells ==
  ASSUME NEW b \in Seq(Cell), NEW i \in 1..Len(Append(b, Left))
  PROVE  (\E j \in 1..Len(b) : Append(b, Left)[i] = b[j]) \/ Append(b, Left)[i] = Left
<1>1. /\ Len(Append(b, Left)) = Len(b) + 1 /\ Append(b, Left)[Len(b) + 1] = Left
      /\ \A j \in 1..Len(b) : Append(b, Left)[j] = b[j]
  BY LeftFacts, AppendProperties
<1>2. i \in 1..Len(b) \/ i = Len(b) + 1
  BY <1>1, LenProperties, SMT
<1> QED BY <1>1, <1>2

LEMMA ResizedCells ==
  ASSUME NEW b \in Seq(Cell), NEW q \in 1..Len(b), NEW w \in Seq(Cell), Len(w) >= 1,
         NEW p \in 1..Len(Resized(b, q, w))
  PROVE  \/ \E j \in 1..Len(b) : Resized(b, q, w)[p] = b[j]
         \/ \E j \in 1..Len(w) : Resized(b, q, w)[p] = w[j]
<1> DEFINE c == Resized(b, q, w)
           n == Len(w)
           l == Len(b)
<1>1. /\ n \in Nat /\ l \in Nat /\ Len(c) = l - 1 + n
      /\ \A i \in 1..(q - 1) : c[i] = b[i]
      /\ \A i \in 1..n : c[(q - 1) + i] = w[i]
      /\ \A i \in 1..(l - q) : c[(q - 1 + n) + i] = b[q + i]
  BY ResizedFacts
<1>2. n >= 1 /\ q \in 1..l /\ p \in 1..Len(c)
  OBVIOUS
<1> HIDE DEF c, n, l
<1>3. CASE p <= q - 1
  <2>1. p \in 1..(q - 1) /\ p \in 1..l
    BY <1>1, <1>2, <1>3, SMT
  <2> QED BY <1>1, <2>1 DEF c, l
<1>4. CASE p > q - 1 /\ p <= q - 1 + n
  <2>1. p - (q - 1) \in 1..n /\ (q - 1) + (p - (q - 1)) = p
    BY <1>1, <1>2, <1>4, SMT
  <2> QED BY <1>1, <2>1 DEF c, n
<1>5. CASE p > q - 1 + n
  <2> DEFINE j == p - (q - 1 + n)
  <2>1. j \in 1..(l - q) /\ (q - 1 + n) + j = p /\ q + j \in 1..l
    BY <1>1, <1>2, <1>5, SMT
  <2>2. c[p] = b[q + j]
    BY <1>1, <2>1
  <2> QED BY <2>1, <2>2 DEF c, l
<1> QED BY <1>1, <1>2, <1>3, <1>4, <1>5, SMT

-----------------------------------------------------------------------------
(* The keys in a certificate.                                               *)

Generated(k) == k >= FirstKey

\* The generated keys in b are some of K.
KeysIn(b, K) == \A i \in 1..Len(b) : (b[i].k = "x" /\ Generated(b[i].v)) => b[i].v \in K

LEMMA KeylessIn ==
  ASSUME NEW w, Keyless(w), NEW K
  PROVE  w \in Seq(Cell) /\ KeysIn(w, K)
<1> QED BY DEF Keyless, KeysIn

LEMMA NoneIn == \A K : KeysIn(<<>>, K)
<1> QED BY SMT DEF KeysIn

LEMMA ConcatIn ==
  ASSUME NEW b \in Seq(Cell), NEW w \in Seq(Cell), NEW K, KeysIn(b, K), KeysIn(w, K)
  PROVE  KeysIn(b \o w, K)
<1> QED BY ConcatCells DEF KeysIn

LEMMA PushedIn ==
  ASSUME NEW b \in Seq(Cell), NEW K, KeysIn(b, K)
  PROVE  KeysIn(Append(b, Left), K)
<1> QED BY PushedCells, LeftFacts DEF KeysIn

LEMMA ResizedIn ==
  ASSUME NEW b \in Seq(Cell), NEW q \in 1..Len(b), NEW w, Keyless(w), Len(w) >= 1,
         NEW K, KeysIn(b, K)
  PROVE  KeysIn(Resized(b, q, w), K)
<1>1. w \in Seq(Cell) /\ \A i \in 1..Len(w) : w[i].k # "x"
  BY DEF Keyless
<1>2. SUFFICES ASSUME NEW p \in 1..Len(Resized(b, q, w)), Resized(b, q, w)[p].k = "x",
                      Generated(Resized(b, q, w)[p].v)
               PROVE  Resized(b, q, w)[p].v \in K
  BY DEF KeysIn
<1>3. \/ \E j \in 1..Len(b) : Resized(b, q, w)[p] = b[j]
      \/ \E j \in 1..Len(w) : Resized(b, q, w)[p] = w[j]
  BY <1>1, ResizedCells
<1> QED BY <1>1, <1>2, <1>3 DEF KeysIn

\* Only the end of a point writes a key.
LEMMA EndWrites ==
  ASSUME NEW e \in Event, NEW value \in Int, reg \in Regs, keys \in Keys, NEW K,
         (e.name = "eccpoint" /\ Generated(PointKey)) => PointKey \in K
  PROVE  KeysIn(WrittenAtEnd(e, value), K)
<1>1. CASE e.name = "eccpoint"
  <2> DEFINE c == C("point", value)
             d == C("x", PointKey)
             z == C("y", PointKey)
  <2>1. /\ c \in Cell /\ c.k = "point" /\ d \in Cell /\ d.k = "x" /\ d.v = PointKey
        /\ z \in Cell /\ z.k = "y"
    BY CellFacts, KeyFacts DEF Kind, C
  <2>2. WrittenAtEnd(e, value) = Point(value, PointKey)
    BY <1>1 DEF WrittenAtEnd
  <2>3. \/ Point(value, PointKey) = <<>>
        \/ Point(value, PointKey) = <<c, d>> \o <<z>>
        \/ Point(value, PointKey) = <<c, d>> \o <<>>
    BY DEF Point
  <2> HIDE DEF c, d, z
  <2>4. KeysIn(<<c, d>>, K) /\ <<c, d>> \in Seq(Cell)
    <3>1. <<c, d>> \in Seq(Cell) /\ Len(<<c, d>>) = 2
          /\ \A i \in 1..2 : <<c, d>>[i] = c \/ <<c, d>>[i] = d
      BY <2>1, PairFacts
    <3> QED BY <1>1, <2>1, <3>1 DEF KeysIn
  <2>5. KeysIn(<<z>>, K) /\ <<z>> \in Seq(Cell)
    <3>1. Len(<<z>>) = 1 /\ <<z>>[1] = z /\ <<z>> \in Seq(Cell)
      BY <2>1
    <3>2. \A i \in 1..1 : i = 1
      BY SMT
    <3> QED BY <2>1, <3>1, <3>2 DEF KeysIn
  <2>6. KeysIn(<<>>, K) /\ <<>> \in Seq(Cell)
    BY NoneIn
  <2> QED BY <2>2, <2>3, <2>4, <2>5, <2>6, ConcatIn
<1>2. CASE e.name # "eccpoint"
  <2>1. Keyless(Type(value)) /\ Keyless(Num(e.v)) /\ Keyless(<<>>)
    BY EventFacts, TypeSimple, NumSimple, NoneSimple, SimpleIsPlain
  <2>2. Keyless(<<C("digest", 0)>>) /\ Keyless(<<C("cert", 0)>>)
    BY SinglePlain DEF Kind
  <2>3. WrittenAtEnd(e, value) \in {Type(value), <<C("digest", 0)>>, <<C("cert", 0)>>, <<>>,
                                   Num(e.v)}
    BY <1>2 DEF WrittenAtEnd
  <2> QED BY <2>1, <2>2, <2>3, KeylessIn
<1> QED BY <1>1, <1>2

LEMMA BeginWrites ==
  ASSUME Inv, NEW e, Begin(e), NEW K, KeysIn(buf, K)
  PROVE  KeysIn(buf', K)
<1>1. /\ Cursor /\ reg \in Regs /\ keys \in Keys /\ buf \in Seq(Cell)
  BY DEF Inv, Opened, Sizes, KeyOrder
<1>2. Reading /\ e = doc[at]
  BY DEF Begin, Opening
<1>3. e \in Event
  BY <1>1, <1>2, EventAt
<1> DEFINE w == IF e.name = "certificate" THEN <<>> ELSE buf \o Written(e)
<1>4. buf' = Append(w, Left) \/ buf' = w
  BY DEF Begin
<1>5. Keyless(Written(e))
  BY <1>1, <1>3, WrittenFacts
<1>6. Written(e) \in Seq(Cell) /\ KeysIn(Written(e), K)
  BY <1>5, KeylessIn
<1>7. w \in Seq(Cell) /\ KeysIn(w, K)
  <2>1. <<>> \in Seq(Cell) /\ KeysIn(<<>>, K)
    BY NoneIn
  <2>2. buf \o Written(e) \in Seq(Cell) /\ KeysIn(buf \o Written(e), K)
    BY <1>1, <1>6, ConcatFacts, ConcatIn
  <2> QED BY <2>1, <2>2
<1> HIDE DEF w
<1> QED BY <1>4, <1>7, PushedIn

\* The tag that is open last.
LEMMA TopEvent ==
  ASSUME NEW s \in Seq(Event), s # <<>>
  PROVE  s[Len(s)] \in Event /\ Len(s) \in 1..Len(s)
<1> DEFINE l == Len(s)
<1>1. l \in Nat /\ l >= 1
  BY FrontFacts
<1>2. l \in 1..l
  <2> HIDE DEF l
  <2> QED BY <1>1, SMT
<1> QED BY <1>2, ElementOfSeq

\* What a closing tag writes: the size of its element, or its own cells.
LEMMA EndBuffer ==
  ASSUME Inv, NEW e, End(e)
  PROVE  \/ \E q \in 1..Len(buf) : /\ buf[q] = Left /\ Len(buf) - q \in Int
                                  /\ buf' = Resized(buf, q, Num(Len(buf) - q))
         \/ /\ buf' = buf \o WrittenAtEnd(e, stack[Len(stack)].v)
            /\ e \in Event /\ stack[Len(stack)].v \in Int
            /\ Plain(WrittenAtEnd(e, stack[Len(stack)].v))
<1>1. /\ Cursor /\ Opened /\ Sizes /\ reg \in Regs /\ keys \in Keys /\ stack \in Seq(Event)
      /\ buf \in Seq(Cell) /\ bookmarks \in Seq(Nat \ {0})
      /\ Depth(stack) \in Nat /\ Placed(buf, bookmarks, Depth(stack))
      /\ Len(stack) <= 5
  BY SizesParts DEF Inv
<1>2. Reading /\ e = doc[at] /\ stack # <<>> /\ e.name = Top
  BY DEF End, Closing
<1>3. CASE Applies(e.name)
  <2> DEFINE q == bookmarks[Len(bookmarks)]
  <2>1. bookmarks # <<>> /\ buf' = Resized(buf, q, Num(Len(buf) - q))
    BY <1>3 DEF End, SizeWritten, Resized
  <2>2. /\ Len(bookmarks) \in Nat /\ Len(bookmarks) # 0 /\ DOMAIN bookmarks = 1..Len(bookmarks)
        /\ DOMAIN buf = 1..Len(buf) /\ Len(buf) \in Nat
    BY <1>1, <2>1, EmptySeq, LenProperties
  <2>3. Len(bookmarks) \in DOMAIN bookmarks
    <3> DEFINE l == Len(bookmarks)
    <3>1. l \in Nat /\ l # 0
      BY <2>2
    <3>2. l \in 1..l
      <4> HIDE DEF l
      <4> QED BY <3>1, SMT
    <3> QED BY <2>2, <3>2
  <2>4. Len(bookmarks) > Len(bookmarks) - Depth(stack)
    <3>1. Measured(stack[Len(stack)])
      BY <1>1, <1>2, <1>3, AppliesFacts
    <3>2. stack' = SubSeq(stack, 1, Len(stack) - 1)
      BY DEF End
    <3>3. Depth(stack) >= 1
      BY <1>1, <1>2, <3>1, <3>2, PoppedDepth
    <3> QED BY <1>1, <2>2, <3>3, SMT
  <2>5. q \in 1..Len(buf) /\ buf[q] = Left
    BY <1>1, <2>2, <2>3, <2>4 DEF Placed
  <2> HIDE DEF q
  <2>6. Len(buf) - q \in Int
    BY <2>2, <2>5, SMT
  <2> QED BY <2>1, <2>5, <2>6
<1>4. CASE ~Applies(e.name)
  <2>1. buf' = buf \o WrittenAtEnd(e, stack[Len(stack)].v)
    BY <1>4 DEF End
  <2>2. e \in Event /\ stack[Len(stack)].v \in Int
    BY <1>1, <1>2, EventAt, TopEvent, EventFacts
  <2> QED BY <1>1, <2>1, <2>2, EndFacts
<1> QED BY <1>3, <1>4

LEMMA EndWritesIn ==
  ASSUME Inv, NEW e, End(e), NEW K, KeysIn(buf, K),
         (e.name = "eccpoint" /\ Generated(PointKey)) => PointKey \in K
  PROVE  KeysIn(buf', K)
<1>1. reg \in Regs /\ keys \in Keys /\ buf \in Seq(Cell)
  BY DEF Inv, Opened, Sizes, KeyOrder
<1>2. CASE \E q \in 1..Len(buf) : /\ buf[q] = Left /\ Len(buf) - q \in Int
                                 /\ buf' = Resized(buf, q, Num(Len(buf) - q))
  BY <1>1, <1>2, NumSimple, SimpleIsPlain, ResizedIn
<1>3. CASE /\ buf' = buf \o WrittenAtEnd(e, stack[Len(stack)].v)
           /\ e \in Event /\ stack[Len(stack)].v \in Int
           /\ Plain(WrittenAtEnd(e, stack[Len(stack)].v))
  BY <1>1, <1>3, EndWrites, ConcatIn DEF Plain
<1> QED BY <1>2, <1>3, EndBuffer

LEMMA ContentWrites ==
  ASSUME Inv, Content, NEW K, KeysIn(buf, K)
  PROVE  KeysIn(buf', K) /\ (stack = <<>> => buf' = buf)
<1>1. Cursor /\ buf \in Seq(Cell) /\ Reading
  BY DEF Inv, Sizes, Content
<1>2. doc[at].n \in Nat
  BY <1>1, EventAt, EventFacts
<1>3. Text(doc[at].n) \in Seq(Cell) /\ KeysIn(Text(doc[at].n), K)
  BY <1>2, TextSimple, SimpleIsPlain, KeylessIn
<1>4. buf' = IF Top = "ssp" THEN buf \o Text(doc[at].n) ELSE buf
  BY DEF Content
<1>5. stack = <<>> => Top # "ssp"
  BY DEF Top
<1> QED BY <1>1, <1>3, <1>4, <1>5, ConcatIn

-----------------------------------------------------------------------------
(* What the program knows of the keys, for a profile with one key of a kind. *)

\* A key attribute is open.
KeyOpen == Len(stack) >= 3 /\ stack[3].name = "attribute" /\ stack[3].v \in {0, 1}

Seen(t) == \E i \in AttributesOfType(t) : i < at
Kept(t) == IF t = 0 THEN keys.v ELSE keys.e
GivenFor(t) == IF t = 0 THEN opt.v ELSE opt.e

\* A generated key of this type will be saved.
Saves(t) == opt.reuse = "no" /\ GivenFor(t) = 0

\* A point is only open in a key attribute.
PointsInside ==
  /\ ~Waiting => \A i \in DOMAIN doc : KeyBegins(i, at) => KeyOpen
  /\ \A i \in 1..Len(stack) : stack[i].name = "eccpoint" => KeyOpen

\* A key is only loaded in a key attribute, the first one of its type, and saved later if it
\* was generated.
Loaded ==
  /\ keys.cur # 0 => KeyOpen
  /\ KeyOpen =>
       LET t == stack[3].v
       IN /\ Seen(t) /\ Kept(t) = 0
          /\ keys.cur = 0 => Saves(t)
          /\ Generated(keys.cur) => Saves(t)

\* So it is with the keys of the attributes that are closed.
KeptKeys ==
  /\ \A t \in {0, 1} : (Kept(t) # 0 => Seen(t)) /\ (Generated(Kept(t)) => Saves(t))
  /\ opt.reuse = "yes" => ~Generated(files.vkey) /\ ~Generated(files.ekey)

\* Where the keys are that the program has saved, or tried to save.
KeyFiles == {files.vkey, files.ekey} \cup files.lost

\* Every generated key of the certificate is one of those, and there in the end.
NoneLost ==
  /\ KeysIn(buf, {keys.cur, keys.v, keys.e})
  /\ stack = <<>> => KeysIn(buf, KeyFiles)

KeyInv == OneKeyOfAKind => PointsInside /\ Loaded /\ KeptKeys /\ NoneLost

LEMMA KeyInit == Init => KeyInv
<1> SUFFICES ASSUME Init PROVE KeyInv
  OBVIOUS
<1>1. /\ stack = <<>> /\ buf = <<>> /\ at = 1
      /\ keys.cur = 0 /\ keys.v = 0 /\ keys.e = 0 /\ Len(stack) = 0
  BY DEF Init
<1>2. ~KeyOpen
  BY <1>1, SMT DEF KeyOpen
<1>3. PointsInside
  <2>1. ASSUME NEW i \in DOMAIN doc, KeyBegins(i, at) PROVE FALSE
    <3>1. i < 1
      BY <1>1, <2>1 DEF KeyBegins
    <3>2. doc \in Seq(Event)
      BY ProfilesAssumption DEF Init
    <3>3. i \in 1..Len(doc)
      BY <3>2, LenProperties
    <3> QED BY <3>1, <3>3, SMT
  <2>2. 1..Len(stack) = {}
    BY <1>1, SMT
  <2> QED BY <2>1, <2>2 DEF PointsInside
<1>4. Loaded
  BY <1>1, <1>2 DEF Loaded
<1>5. KeptKeys
  <2>1. files.vkey \in {0, 2} /\ files.ekey \in {0, 3}
    BY DEF Init, OldVKey, OldEKey
  <2>2. ~Generated(0) /\ ~Generated(2) /\ ~Generated(3)
    BY SMT DEF Generated, FirstKey
  <2>3. \A t \in {0, 1} : Kept(t) = 0
    BY <1>1 DEF Kept
  <2> QED BY <2>1, <2>2, <2>3 DEF KeptKeys
<1>6. NoneLost
  BY <1>1, NoneIn DEF NoneLost
<1> QED BY <1>3, <1>4, <1>5, <1>6 DEF KeyInv

\* What depends on the profile alone.
LEMMA SameProfile ==
  ASSUME doc' = doc
  PROVE  /\ \A t : AttributesOfType(t)' = AttributesOfType(t)
         /\ OneKeyOfAKind' <=> OneKeyOfAKind
         /\ \A i, j : KeyBegins(i, j)' <=> KeyBegins(i, j)
<1>1. \A t : AttributesOfType(t)' = AttributesOfType(t)
  BY DEF AttributesOfType
<1>2. \A i, n : OpensAt(i, n)' <=> OpensAt(i, n)
  BY DEF OpensAt
<1>3. \A i, j : KeyBegins(i, j)' <=> KeyBegins(i, j)
  BY <1>1, <1>2 DEF KeyBegins
<1>4. OneKeyOfAKind' <=> OneKeyOfAKind
  BY <1>1, <1>2, <1>3 DEF OneKeyOfAKind
<1> QED BY <1>1, <1>3, <1>4

\* The first of a type.
LEMMA OnlyOne ==
  ASSUME Cursor, OneKeyOfAKind, NEW t \in {0, 1},
         NEW i \in AttributesOfType(t), NEW j \in AttributesOfType(t)
  PROVE  i = j
<1> DEFINE S == AttributesOfType(t)
<1>1. IsFiniteSet(S)
  <2>1. doc \in Seq(Event)
    BY ProfilesAssumption DEF Cursor
  <2>2. DOMAIN doc = 1..Len(doc) /\ Len(doc) \in Nat
    BY <2>1, LenProperties
  <2>3. IsFiniteSet(1..Len(doc))
    BY <2>2, FS_Interval
  <2>4. S \subseteq 1..Len(doc)
    BY <2>2 DEF AttributesOfType
  <2> QED BY <2>3, <2>4, FS_Subset
<1>2. Cardinality(S) <= 1
  BY DEF OneKeyOfAKind
<1>3. SUFFICES ASSUME i # j PROVE FALSE
  OBVIOUS
<1>4. {i, j} \subseteq S
  OBVIOUS
<1>5. Cardinality({i, j}) <= Cardinality(S) /\ IsFiniteSet({i, j})
  BY <1>1, <1>4, FS_Subset
<1>6. Cardinality({i, j}) = 2
  <2>1. IsFiniteSet({j}) /\ Cardinality({j}) = 1
    BY FS_Singleton
  <2>2. {i, j} = {j} \cup {i} /\ i \notin {j}
    BY <1>3
  <2>3. Cardinality({j} \cup {i}) = 2
    BY <2>1, <2>2, FS_AddElement, SMT
  <2> QED BY <2>2, <2>3
<1>7. Cardinality(S) \in Nat
  BY <1>1, FS_CardinalityType
<1> HIDE DEF S
<1> QED BY <1>2, <1>5, <1>6, <1>7, SMT

LEMMA SeenNext ==
  ASSUME Cursor, Reading, doc' = doc, at' = at + 1
  PROVE  /\ \A t : Seen(t) => Seen(t)'
         /\ \A t : at \in AttributesOfType(t) => Seen(t)'
         /\ \A i \in DOMAIN doc : KeyBegins(i, at)' =>
              \/ i = at /\ OpensAt(at, "attribute") /\ doc[at].v \in {0, 1}
              \/ KeyBegins(i, at) /\ (doc[at].tag = "text" \/ OpensAt(at, "public_key"))
<1>1. /\ at \in Nat /\ at < at + 1 /\ DOMAIN doc \subseteq Nat
      /\ \A i \in DOMAIN doc : i < at => i < at + 1
  <2>1. doc \in Seq(Event)
    BY ProfilesAssumption DEF Cursor
  <2>2. DOMAIN doc = 1..Len(doc) /\ Len(doc) \in Nat
    BY <2>1, LenProperties
  <2> QED BY <2>2, SMT DEF Cursor
<1>2. \A t : AttributesOfType(t)' = AttributesOfType(t) /\ AttributesOfType(t) \subseteq DOMAIN doc
  BY SameProfile DEF AttributesOfType
<1>3. \A t : Seen(t)' <=> \E i \in AttributesOfType(t) : i < at + 1
  BY <1>2 DEF Seen
<1>4. ASSUME NEW i \in DOMAIN doc, KeyBegins(i, at)'
      PROVE  \/ i = at /\ OpensAt(at, "attribute") /\ doc[at].v \in {0, 1}
             \/ KeyBegins(i, at) /\ (doc[at].tag = "text" \/ OpensAt(at, "public_key"))
  <2>1. /\ i \in AttributesOfType(0) \cup AttributesOfType(1) /\ i < at + 1
        /\ \A k \in (i + 1)..at : doc[k].tag = "text" \/ OpensAt(k, "public_key")
    <3>1. \A k, n : OpensAt(k, n)' <=> OpensAt(k, n)
      BY DEF OpensAt
    <3>2. AttributesOfType(0)' = AttributesOfType(0) /\ AttributesOfType(1)' = AttributesOfType(1)
      BY <1>2
    <3>3. /\ i \in AttributesOfType(0)' \cup AttributesOfType(1)' /\ i < at'
          /\ \A k \in (i + 1)..(at' - 1) : doc'[k].tag = "text" \/ OpensAt(k, "public_key")'
      BY <1>4 DEF KeyBegins
    <3>4. at' - 1 = at
      BY <1>1, SMT
    <3> QED BY <3>1, <3>2, <3>3, <3>4
  <2>2. CASE i = at
    BY <2>1, <2>2 DEF AttributesOfType, OpensAt
  <2>3. CASE i # at
    <3>1. i < at /\ at \in (i + 1)..at /\ \A k \in (i + 1)..(at - 1) : k \in (i + 1)..at
      BY <1>1, <2>1, <2>3, SMT
    <3> QED BY <2>1, <3>1 DEF KeyBegins
  <2> QED BY <2>2, <2>3
<1> QED BY <1>1, <1>2, <1>3, <1>4 DEF Seen

\* A key attribute is open from its opening to its closing tag.
LEMMA BeginOpens ==
  ASSUME Inv, NEW e, Begin(e)
  PROVE  /\ stack' = Append(stack, e) /\ stack' # <<>> /\ Len(stack) \in Nat
         /\ Len(stack') = Len(stack) + 1 /\ stack'[Len(stack) + 1] = e
         /\ \A i \in 1..Len(stack) : stack'[i] = stack[i]
         /\ e.name = "attribute" =>
              ~KeyOpen /\ stack'[3] = e /\ (KeyOpen' <=> e.v \in {0, 1})
         /\ e.name # "attribute" =>
              (KeyOpen' <=> KeyOpen) /\ (KeyOpen => stack'[3] = stack[3])
<1>1. Shape(stack) /\ Cursor /\ stack \in Seq(Event)
  BY DEF Inv, Opened, Shape
<1>2. Reading /\ e = doc[at] /\ e.name \in Children(TopOf(stack)) /\ stack' = Append(stack, e)
  BY TopIs DEF Begin, Opening, Refuses
<1>3. e \in Event
  BY <1>1, <1>2, EventAt
<1> DEFINE l == Len(stack)
<1>4. l \in Nat /\ l <= 4 /\ e.name \in NamesAt(l + 1)
  BY <1>1, <1>2, ChildFacts
<1>5. /\ Len(stack') = l + 1 /\ stack'[l + 1] = e /\ \A i \in 1..l : stack'[i] = stack[i]
  BY <1>1, <1>2, <1>3, SeqFacts
<1>6. stack' # <<>>
  <2>1. l + 1 # 0
    <3>1. l \in Nat
      BY <1>4
    <3> HIDE DEF l
    <3> QED BY <3>1, SMT
  <2> QED BY <1>5, <2>1
<1>7. ASSUME e.name = "attribute" PROVE l = 2
  <2> HIDE DEF l
  <2>1. l = 0 \/ l = 1 \/ l = 2 \/ l = 3 \/ l = 4
    BY <1>4, SMT
  <2>2. /\ "attribute" \notin NamesAt(1) /\ "attribute" \notin NamesAt(2)
        /\ "attribute" \notin NamesAt(4) /\ "attribute" \notin NamesAt(5)
    BY SMT DEF NamesAt, Parts, AttributeTags, RegionTags
  <2> QED BY <1>4, <1>7, <2>1, <2>2
<1>8. KeyOpen <=> l >= 3 /\ stack[3].name = "attribute" /\ stack[3].v \in {0, 1}
  BY DEF KeyOpen
<1>9. KeyOpen' <=> l + 1 >= 3 /\ stack'[3].name = "attribute" /\ stack'[3].v \in {0, 1}
  BY <1>5 DEF KeyOpen
<1>10. CASE e.name = "attribute"
  <2>1. l = 2
    BY <1>7, <1>10
  <2> HIDE DEF l
  <2>2. l + 1 = 3 /\ ~(l >= 3) /\ l + 1 >= 3
    BY <2>1, SMT
  <2>3. stack'[3] = e
    BY <1>5, <2>2
  <2>4. ~KeyOpen /\ (KeyOpen' <=> e.v \in {0, 1})
    BY <1>8, <1>9, <1>10, <2>2, <2>3
  <2> QED BY <1>2, <1>4, <1>5, <1>6, <1>10, <2>3, <2>4 DEF l
<1>11. CASE e.name # "attribute"
  <2>1. CASE l >= 3
    <3> HIDE DEF l
    <3>1. 3 \in 1..l /\ l + 1 >= 3
      BY <1>4, <2>1, SMT
    <3>2. stack'[3] = stack[3]
      BY <1>5, <3>1
    <3>3. KeyOpen' <=> KeyOpen
      BY <1>8, <1>9, <2>1, <3>1, <3>2
    <3> QED BY <1>2, <1>4, <1>5, <1>6, <1>11, <3>2, <3>3 DEF l
  <2>2. CASE ~(l >= 3)
    <3> HIDE DEF l
    <3>1. l + 1 >= 3 => l + 1 = 3
      BY <1>4, <2>2, SMT
    <3>2. ~KeyOpen /\ ~KeyOpen'
      BY <1>5, <1>8, <1>9, <1>11, <2>2, <3>1
    <3> QED BY <1>2, <1>4, <1>5, <1>6, <1>11, <3>2 DEF l
  <2> QED BY <2>1, <2>2
<1> QED BY <1>10, <1>11

LEMMA CloseOpens ==
  ASSUME Opened, NEW e, stack # <<>>, e.name = Top, stack' = SubSeq(stack, 1, Len(stack) - 1)
  PROVE  /\ Len(stack) \in Nat /\ Len(stack) >= 1 /\ stack[Len(stack)].name = e.name
         /\ Len(stack') = Len(stack) - 1 /\ \A i \in 1..(Len(stack) - 1) : stack'[i] = stack[i]
         /\ e.name = "attribute" =>
              /\ ~KeyOpen' /\ (KeyOpen <=> reg.sa \in {0, 1}) /\ (KeyOpen => stack[3].v = reg.sa)
              /\ Len(stack) = 3
         /\ e.name # "attribute" =>
              (KeyOpen' <=> KeyOpen) /\ (KeyOpen => stack'[3] = stack[3])
<1>1. Shape(stack) /\ stack \in Seq(Event) /\ Registered(stack, reg) /\ Len(stack) <= 5
  BY DEF Opened, Shape
<1> DEFINE l == Len(stack)
<1>2. l \in Nat /\ l >= 1 /\ Len(stack') = l - 1 /\ \A i \in 1..(l - 1) : stack'[i] = stack[i]
  BY <1>1, FrontFacts
<1>3. stack[l].name = e.name /\ l \in 1..Len(stack)
  BY <1>1, TopEvent DEF Top
<1>4. stack[l].name \in NamesAt(l)
  BY <1>1, <1>3 DEF Shape
<1>5. l <= 5
  BY <1>1
<1>6. ASSUME e.name = "attribute" PROVE l = 3
  <2>1. "attribute" \in NamesAt(l)
    BY <1>3, <1>4, <1>6
  <2> HIDE DEF l
  <2>2. l = 1 \/ l = 2 \/ l = 3 \/ l = 4 \/ l = 5
    BY <1>2, <1>5, SMT
  <2>3. /\ "attribute" \notin NamesAt(1) /\ "attribute" \notin NamesAt(2)
        /\ "attribute" \notin NamesAt(4) /\ "attribute" \notin NamesAt(5)
    BY SMT DEF NamesAt, Parts, AttributeTags, RegionTags
  <2> QED BY <2>1, <2>2, <2>3
<1>7. KeyOpen <=> l >= 3 /\ stack[3].name = "attribute" /\ stack[3].v \in {0, 1}
  BY DEF KeyOpen
<1>8. KeyOpen' <=> l - 1 >= 3 /\ stack'[3].name = "attribute" /\ stack'[3].v \in {0, 1}
  BY <1>2 DEF KeyOpen
<1>9. stack[l].name = "attribute" => reg.sa = stack[l].v
  BY <1>1, <1>3 DEF Registered
<1>10. CASE e.name = "attribute"
  <2>1. l = 3
    BY <1>6, <1>10
  <2>2. stack[3].name = "attribute" /\ reg.sa = stack[3].v
    BY <1>3, <1>9, <1>10, <2>1
  <2> HIDE DEF l
  <2>3. l >= 3 /\ ~(l - 1 >= 3)
    BY <2>1, SMT
  <2>4. ~KeyOpen' /\ (KeyOpen <=> reg.sa \in {0, 1})
    BY <1>7, <1>8, <2>2, <2>3
  <2> QED BY <1>2, <1>3, <1>10, <2>1, <2>2, <2>4 DEF l
<1>11. CASE e.name # "attribute"
  <2>1. CASE l >= 4
    <3> HIDE DEF l
    <3>1. 3 \in 1..(l - 1) /\ l - 1 >= 3 /\ l >= 3
      BY <1>2, <2>1, SMT
    <3>2. stack'[3] = stack[3]
      BY <1>2, <3>1
    <3>3. KeyOpen' <=> KeyOpen
      BY <1>7, <1>8, <3>1, <3>2
    <3> QED BY <1>2, <1>3, <1>11, <3>2, <3>3 DEF l
  <2>2. CASE ~(l >= 4)
    <3>1. stack[l].name # "attribute"
      BY <1>3, <1>11
    <3> HIDE DEF l
    <3>2. ~(l - 1 >= 3) /\ (l >= 3 => l = 3)
      BY <1>2, <2>2, SMT
    <3>3. ~KeyOpen /\ ~KeyOpen'
      BY <1>7, <1>8, <3>1, <3>2
    <3> QED BY <1>2, <1>3, <1>11, <3>3 DEF l
  <2> QED BY <2>1, <2>2
<1> QED BY <1>10, <1>11

\* Of the keys K, one that was not generated need not be among L.
LEMMA KeysAmong ==
  ASSUME NEW b, NEW K, NEW L, KeysIn(b, K), \A k \in K : Generated(k) => k \in L
  PROVE  KeysIn(b, L)
<1> QED BY DEF KeysIn

LEMMA NotGenerated == ~Generated(0)
<1> QED BY SMT DEF Generated, FirstKey

\* The opening tags.
LEMMA BeginPoints ==
  ASSUME Inv, OneKeyOfAKind, PointsInside, NEW e, Begin(e)
  PROVE  PointsInside'
<1>1. Cursor /\ Reading /\ e = doc[at] /\ doc' = doc /\ at' = at + 1 /\ ~Waiting
      /\ e.tag = "open" /\ at \in DOMAIN doc
  <2>1. Cursor /\ Reading /\ doc' = doc /\ at' = at + 1 /\ e = doc[at] /\ ~Waiting /\ e.tag = "open"
    BY DEF Inv, Begin, Goes, Opening
  <2>2. doc \in Seq(Event)
    BY <2>1, ProfilesAssumption DEF Cursor
  <2>3. at \in DOMAIN doc
    BY <2>1, <2>2, LenProperties, SMT DEF Cursor, Reading
  <2> QED BY <2>1, <2>3
<1>2. /\ Len(stack) \in Nat /\ Len(stack') = Len(stack) + 1 /\ stack'[Len(stack) + 1] = e
      /\ \A i \in 1..Len(stack) : stack'[i] = stack[i]
      /\ e.name = "attribute" => ~KeyOpen /\ (KeyOpen' <=> e.v \in {0, 1})
      /\ e.name # "attribute" => (KeyOpen' <=> KeyOpen)
  BY BeginOpens
<1>3. ASSUME NEW i \in DOMAIN doc, KeyBegins(i, at)' PROVE KeyOpen'
  <2>1. CASE OpensAt(at, "attribute") /\ doc[at].v \in {0, 1}
    BY <1>1, <1>2, <2>1 DEF OpensAt
  <2>2. CASE KeyBegins(i, at) /\ (doc[at].tag = "text" \/ OpensAt(at, "public_key"))
    <3>1. KeyOpen
      BY <1>1, <2>2 DEF PointsInside
    <3>2. e.name = "public_key"
      BY <1>1, <2>2 DEF OpensAt
    <3> QED BY <1>2, <3>1, <3>2
  <2> QED BY <1>1, <1>3, <2>1, <2>2, SeenNext
<1>4. ASSUME NEW i \in 1..Len(stack'), stack'[i].name = "eccpoint" PROVE KeyOpen'
  <2>1. CASE i \in 1..Len(stack)
    <3>1. KeyOpen
      BY <1>2, <1>4, <2>1 DEF PointsInside
    <3> QED BY <1>2, <3>1
  <2>2. CASE i \notin 1..Len(stack)
    <3>1. i = Len(stack) + 1
      BY <1>2, <2>2, SMT
    <3>2. e.name = "eccpoint"
      BY <1>2, <1>4, <3>1
    <3>3. OpensAt(at, "eccpoint")
      BY <1>1, <3>2 DEF OpensAt
    <3>4. \E j \in DOMAIN doc : KeyBegins(j, at)
      BY <1>1, <3>3 DEF OneKeyOfAKind
    <3>5. KeyOpen
      BY <1>1, <3>4 DEF PointsInside
    <3> QED BY <1>2, <3>2, <3>5
  <2> QED BY <2>1, <2>2
<1> QED BY <1>1, <1>3, <1>4 DEF PointsInside

\* A key attribute opens: the first one of its type.
LEMMA BeginLoads ==
  ASSUME Inv, OneKeyOfAKind, PointsInside, Loaded, KeptKeys, NoneLost, NEW e, Begin(e),
         e.name = "attribute", e.v \in {0, 1}
  PROVE  Loaded' /\ KeptKeys' /\ NoneLost'
<1> DEFINE t == e.v
<1>1. /\ Cursor /\ Reading /\ KeyOrder /\ e = doc[at] /\ e.tag = "open" /\ doc' = doc
      /\ at' = at + 1 /\ files' = files
  BY DEF Inv, Begin, Opening, Goes
<1>2. ~KeyOpen /\ KeyOpen' /\ stack'[3] = e /\ stack' # <<>>
  BY BeginOpens
<1>3. /\ keys' = [keys EXCEPT !.cur = Preset(e)]
      /\ opt' = IF Given(e) = 0 /\ opt.reuse = "yes" /\ Old(e) = 0
                THEN [opt EXCEPT !.reuse = "no"] ELSE opt
  BY DEF Begin, LoadKey
<1>4. /\ keys'.cur = Preset(e) /\ keys'.v = keys.v /\ keys'.e = keys.e
      /\ opt'.v = opt.v /\ opt'.e = opt.e
      /\ opt'.reuse = "no" \/ opt'.reuse = opt.reuse
      /\ (Given(e) = 0 /\ opt.reuse = "yes" /\ Old(e) = 0) => opt'.reuse = "no"
  <2>1. keys \in Keys /\ opt \in Opts
    BY <1>1 DEF KeyOrder
  <2> QED BY <1>3, <2>1 DEF Keys, Opts
<1>5. keys.cur = 0
  BY <1>2 DEF Loaded
<1>6. at \in AttributesOfType(t)
  <2>1. at \in DOMAIN doc
    <3>1. doc \in Seq(Event)
      BY <1>1, ProfilesAssumption DEF Cursor
    <3> QED BY <1>1, <3>1, LenProperties, SMT DEF Cursor, Reading
  <2> QED BY <1>1, <2>1 DEF AttributesOfType
<1>7. Seen(t)' /\ \A u : Seen(u) => Seen(u)'
  BY <1>1, <1>6, SeenNext
<1>8. ~Seen(t)
  <2>1. SUFFICES ASSUME NEW i \in AttributesOfType(t), i < at PROVE FALSE
    BY DEF Seen
  <2>2. i = at
    BY <1>1, <1>6, OnlyOne
  <2> QED BY <1>1, <2>1, <2>2, SMT DEF Cursor
<1>9. \A u : Kept(u)' = Kept(u) /\ GivenFor(u)' = GivenFor(u)
  BY <1>4 DEF Kept, GivenFor
<1>10. Kept(t) = 0 /\ Given(e) = GivenFor(t) /\ Old(e) \in {files.vkey, files.ekey}
  BY <1>8 DEF KeptKeys, Given, GivenFor, Old
<1>11. \A u : Saves(u) => Saves(u)'
  BY <1>4, <1>9 DEF Saves
<1>12. opt.reuse \in {"yes", "no"} /\ ~Generated(Given(e))
  BY <1>1, KeyParts, SMT DEF Given, Generated
<1>13. (Preset(e) = 0 \/ Generated(Preset(e))) => Saves(t)'
  <2>1. SUFFICES ASSUME Preset(e) = 0 \/ Generated(Preset(e)) PROVE Saves(t)'
    OBVIOUS
  <2>2. Given(e) = 0
    BY <1>12, <2>1 DEF Preset
  <2>3. CASE opt.reuse = "yes"
    <3>1. Preset(e) = Old(e) /\ ~Generated(Old(e))
      BY <1>10, <2>2, <2>3 DEF Preset, KeptKeys
    <3>2. Old(e) = 0
      BY <2>1, <3>1
    <3> QED BY <1>4, <1>9, <1>10, <2>2, <2>3, <3>2 DEF Saves
  <2>4. CASE opt.reuse = "no"
    BY <1>9, <1>10, <1>11, <2>2, <2>4 DEF Saves
  <2> QED BY <1>12, <2>3, <2>4
<1>14. Loaded'
  BY <1>2, <1>4, <1>7, <1>9, <1>10, <1>13 DEF Loaded
<1>15. KeptKeys'
  <2>1. opt'.reuse = "yes" => opt.reuse = "yes"
    BY <1>4
  <2> QED BY <1>1, <1>7, <1>9, <1>11, <2>1 DEF KeptKeys
<1>16. NoneLost'
  <2>1. KeysIn(buf', {keys.cur, keys.v, keys.e})
    BY BeginWrites DEF NoneLost
  <2>2. \A k \in {keys.cur, keys.v, keys.e} : Generated(k) => k \in {keys'.cur, keys'.v, keys'.e}
    BY <1>4, <1>5, NotGenerated
  <2>3. KeysIn(buf', {keys'.cur, keys'.v, keys'.e})
    BY <2>1, <2>2, KeysAmong
  <2> QED BY <1>2, <2>3 DEF NoneLost
<1> QED BY <1>14, <1>15, <1>16

\* Keys and options stay, and so does what is open of a key attribute.
LEMMA SameKeys ==
  ASSUME Loaded, KeptKeys, UNCHANGED <<keys, opt, files>>, \A t : Seen(t) => Seen(t)',
         \/ (KeyOpen' <=> KeyOpen) /\ (KeyOpen => stack'[3] = stack[3])
         \/ ~KeyOpen /\ ~KeyOpen'
  PROVE  Loaded' /\ KeptKeys'
<1>1. \A t : Kept(t)' = Kept(t) /\ GivenFor(t)' = GivenFor(t) /\ (Saves(t)' <=> Saves(t))
  BY DEF Kept, GivenFor, Saves
<1>2. Loaded'
  BY <1>1 DEF Loaded
<1>3. KeptKeys'
  BY <1>1 DEF KeptKeys
<1> QED BY <1>2, <1>3

LEMMA BeginKeeps ==
  ASSUME Inv, OneKeyOfAKind, PointsInside, Loaded, KeptKeys, NoneLost, NEW e, Begin(e)
  PROVE  PointsInside' /\ Loaded' /\ KeptKeys' /\ NoneLost'
<1>1. PointsInside'
  BY BeginPoints
<1>2. CASE e.name = "attribute" /\ e.v \in {0, 1}
  BY <1>1, <1>2, BeginLoads
<1>3. CASE ~(e.name = "attribute" /\ e.v \in {0, 1})
  <2>1. /\ Cursor /\ Reading /\ doc' = doc /\ at' = at + 1 /\ files' = files
        /\ keys' = keys /\ opt' = opt
    BY <1>3 DEF Inv, Begin, Opening, Goes
  <2>2. \A t : Seen(t) => Seen(t)'
    BY <2>1, SeenNext
  <2>3. /\ stack' # <<>>
        /\ \/ (KeyOpen' <=> KeyOpen) /\ (KeyOpen => stack'[3] = stack[3])
           \/ ~KeyOpen /\ ~KeyOpen'
    BY <1>3, BeginOpens
  <2>4. Loaded' /\ KeptKeys'
    BY <2>1, <2>2, <2>3, SameKeys
  <2>5. KeysIn(buf', {keys.cur, keys.v, keys.e})
    BY BeginWrites DEF NoneLost
  <2> QED BY <1>1, <2>1, <2>3, <2>4, <2>5 DEF NoneLost
<1> QED BY <1>2, <1>3

\* The closing tags.
LEMMA ClosePoints ==
  ASSUME Inv, PointsInside, NEW e, Reading, e = doc[at], e.tag = "close", doc' = doc, at' = at + 1,
         stack # <<>>, e.name = Top, stack' = SubSeq(stack, 1, Len(stack) - 1)
  PROVE  PointsInside'
<1>1. Cursor /\ Opened /\ Shape(stack)
  BY DEF Inv, Opened
<1>2. /\ Len(stack) \in Nat /\ Len(stack') = Len(stack) - 1
      /\ \A i \in 1..(Len(stack) - 1) : stack'[i] = stack[i]
      /\ e.name = "attribute" => Len(stack) = 3
      /\ e.name # "attribute" => (KeyOpen' <=> KeyOpen)
  BY <1>1, CloseOpens
<1>3. ASSUME NEW i \in DOMAIN doc, KeyBegins(i, at)' PROVE FALSE
  BY <1>1, <1>3, SeenNext DEF OpensAt
<1>4. ASSUME NEW i \in 1..Len(stack'), stack'[i].name = "eccpoint" PROVE KeyOpen'
  <2>1. i \in 1..Len(stack) /\ stack[i].name = "eccpoint"
    BY <1>2, <1>4, SMT
  <2>2. KeyOpen
    BY <2>1 DEF PointsInside
  <2>3. e.name # "attribute"
    <3>1. SUFFICES ASSUME e.name = "attribute" PROVE FALSE
      OBVIOUS
    <3>2. i = 1 \/ i = 2
      <4>1. Len(stack) = 3
        BY <1>2, <3>1
      <4>2. Len(stack') = 2
        BY <1>2, <4>1, SMT
      <4>3. i \in 1..2
        BY <4>2
      <4> QED BY <4>3, SMT
    <3>3. "eccpoint" \notin NamesAt(1) /\ "eccpoint" \notin NamesAt(2)
      BY SMT DEF NamesAt, Parts
    <3>4. "eccpoint" \in NamesAt(i)
      BY <1>1, <2>1 DEF Shape
    <3> QED BY <3>2, <3>3, <3>4
  <2> QED BY <1>2, <2>2, <2>3
<1> QED BY <1>3, <1>4 DEF PointsInside

\* The end of a key attribute, of type t.
LEMMA KeyCloses ==
  ASSUME Inv, Loaded, KeptKeys, NoneLost, NEW e, End(e), e.name = "attribute",
         NEW t \in {0, 1}, reg.sa = t
  PROVE  Loaded' /\ KeptKeys' /\ NoneLost'
<1>1. /\ Cursor /\ Opened /\ Reading /\ stack # <<>> /\ e.name = Top /\ doc' = doc /\ at' = at + 1
      /\ stack' = SubSeq(stack, 1, Len(stack) - 1) /\ opt' = opt /\ files' = files
  BY DEF Inv, End, Closing, Goes
<1>2. KeyOpen /\ ~KeyOpen' /\ stack[3].v = t /\ Len(stack') = 3 - 1
  BY <1>1, CloseOpens
<1>3. stack' # <<>>
  BY <1>2, SMT
<1>4. /\ keys'.cur = 0
      /\ t = 0 => keys'.v = keys.cur /\ keys'.e = keys.e
      /\ t = 1 => keys'.v = keys.v /\ keys'.e = keys.cur
  BY DEF End, KeysSet, AsVKey, AsEKey
<1>5. \A u : (Seen(u) => Seen(u)') /\ GivenFor(u)' = GivenFor(u) /\ (Saves(u)' <=> Saves(u))
  BY <1>1, SeenNext DEF GivenFor, Saves
<1>6. Kept(t)' = keys.cur /\ Kept(t) = 0 /\ \A u \in {0, 1} \ {t} : Kept(u)' = Kept(u)
  BY <1>2, <1>4 DEF Kept, Loaded
<1>7. Loaded'
  BY <1>2, <1>4 DEF Loaded
<1>8. KeptKeys'
  <2>1. Seen(t)' /\ (Generated(keys.cur) => Saves(t)')
    BY <1>2, <1>5 DEF Loaded
  <2> QED BY <1>1, <1>5, <1>6, <2>1 DEF KeptKeys
<1>9. NoneLost'
  <2>1. KeysIn(buf', {keys.cur, keys.v, keys.e})
    BY EndWritesIn DEF NoneLost
  <2>2. \A k \in {keys.cur, keys.v, keys.e} : Generated(k) => k \in {keys'.cur, keys'.v, keys'.e}
    BY <1>4, <1>6, NotGenerated DEF Kept
  <2>3. KeysIn(buf', {keys'.cur, keys'.v, keys'.e})
    BY <2>1, <2>2, KeysAmong
  <2> QED BY <1>3, <2>3 DEF NoneLost
<1> QED BY <1>7, <1>8, <1>9

\* The end of a point: a key is generated where it will be saved.
LEMMA PointCloses ==
  ASSUME Inv, PointsInside, Loaded, KeptKeys, NoneLost, NEW e, End(e), e.name = "eccpoint"
  PROVE  Loaded' /\ KeptKeys' /\ NoneLost'
<1>1. /\ Cursor /\ Opened /\ Reading /\ stack # <<>> /\ e.name = Top /\ doc' = doc /\ at' = at + 1
      /\ stack' = SubSeq(stack, 1, Len(stack) - 1) /\ opt' = opt /\ files' = files
  BY DEF Inv, End, Closing, Goes
<1>2. stack[Len(stack)].name = "eccpoint" /\ Len(stack) \in 1..Len(stack)
  BY <1>1, TopEvent DEF Top, Opened, Shape
<1>3. KeyOpen
  BY <1>2 DEF PointsInside
<1>4. KeyOpen' /\ stack'[3] = stack[3] /\ stack' # <<>>
  <2>1. KeyOpen' /\ stack'[3] = stack[3]
    BY <1>1, <1>3, CloseOpens
  <2>2. Len(stack') >= 3
    BY <2>1 DEF KeyOpen
  <2>3. stack' # <<>>
    BY <2>2, SMT
  <2> QED BY <2>1, <2>3
<1>5. keys'.cur = PointKey /\ keys'.v = keys.v /\ keys'.e = keys.e
  BY DEF End, KeysSet, WithPoint
<1>6. \A u : /\ Seen(u) => Seen(u)'
             /\ Kept(u)' = Kept(u) /\ GivenFor(u)' = GivenFor(u) /\ (Saves(u)' <=> Saves(u))
  BY <1>1, <1>5, SeenNext DEF Kept, GivenFor, Saves
<1>7. keys.cur # 0 => PointKey = keys.cur
  BY DEF PointKey
<1>8. Loaded'
  BY <1>3, <1>4, <1>5, <1>6, <1>7 DEF Loaded
<1>9. KeptKeys'
  BY <1>1, <1>6 DEF KeptKeys
<1>10. NoneLost'
  <2>1. \A k \in {keys.cur, keys.v, keys.e} : Generated(k) => k \in {keys'.cur, keys'.v, keys'.e}
    BY <1>5, <1>7, NotGenerated
  <2>2. KeysIn(buf, {keys'.cur, keys'.v, keys'.e})
    BY <2>1, KeysAmong DEF NoneLost
  <2>3. PointKey \in {keys'.cur, keys'.v, keys'.e}
    BY <1>5
  <2>4. KeysIn(buf', {keys'.cur, keys'.v, keys'.e})
    BY <2>2, <2>3, EndWritesIn
  <2> QED BY <1>4, <2>4 DEF NoneLost
<1> QED BY <1>8, <1>9, <1>10

LEMMA EndKeeps ==
  ASSUME Inv, PointsInside, Loaded, KeptKeys, NoneLost, NEW e, End(e)
  PROVE  PointsInside' /\ Loaded' /\ KeptKeys' /\ NoneLost'
<1>1. /\ Cursor /\ Opened /\ Reading /\ e = doc[at] /\ e.tag = "close" /\ stack # <<>>
      /\ e.name = Top /\ doc' = doc /\ at' = at + 1 /\ e.name # "certificate"
      /\ stack' = SubSeq(stack, 1, Len(stack) - 1) /\ opt' = opt /\ files' = files
  BY DEF Inv, End, Closing, Goes
<1>2. PointsInside'
  BY <1>1, ClosePoints
<1>3. CASE e.name = "attribute" /\ reg.sa \in {0, 1}
  BY <1>2, <1>3, KeyCloses
<1>4. CASE e.name = "eccpoint"
  BY <1>2, <1>4, PointCloses
<1>5. CASE ~(e.name = "attribute" /\ reg.sa \in {0, 1}) /\ e.name # "eccpoint"
  <2>1. keys' = keys
    BY <1>5 DEF End, KeysSet
  <2>2. \/ (KeyOpen' <=> KeyOpen) /\ (KeyOpen => stack'[3] = stack[3])
        \/ ~KeyOpen /\ ~KeyOpen'
    BY <1>1, <1>5, CloseOpens
  <2>3. Loaded' /\ KeptKeys'
    BY <1>1, <2>1, <2>2, SeenNext, SameKeys
  <2>4. KeysIn(buf', {keys.cur, keys.v, keys.e})
    BY <1>5, EndWritesIn DEF NoneLost
  <2>5. stack' # <<>>
    <3>1. Shape(stack) /\ Len(stack) \in Nat /\ Len(stack) >= 1 /\ Len(stack') = Len(stack) - 1
          /\ stack[Len(stack)].name = e.name
      BY <1>1, CloseOpens DEF Opened
    <3>2. Len(stack) # 1
      <4>1. SUFFICES ASSUME Len(stack) = 1 PROVE FALSE
        OBVIOUS
      <4>2. 1 \in 1..Len(stack) /\ stack[1].name = e.name
        BY <3>1, <4>1, SMT
      <4> QED BY <1>1, <3>1, <4>2 DEF Shape, NamesAt
    <3>3. Len(stack') # 0
      BY <3>1, <3>2, SMT
    <3> QED BY <3>3
  <2> QED BY <1>2, <2>1, <2>3, <2>4, <2>5 DEF NoneLost
<1> QED BY <1>3, <1>4, <1>5

\* The certificate ends, and the keys are saved.
LEMMA FinishKeeps ==
  ASSUME Inv, PointsInside, Loaded, KeptKeys, NoneLost, NEW e, e = doc[at], Finish(e)
  PROVE  PointsInside' /\ Loaded' /\ KeptKeys' /\ NoneLost'
<1>1. /\ Cursor /\ Opened /\ KeyOrder /\ Reading /\ e.tag = "close" /\ stack # <<>>
      /\ e.name = Top /\ e.name = "certificate" /\ doc' = doc /\ at' = at + 1
      /\ stack' = SubSeq(stack, 1, Len(stack) - 1) /\ opt' = opt /\ keys' = keys /\ buf' = buf
  BY DEF Inv, Finish, Closing
<1>2. PointsInside'
  BY <1>1, ClosePoints
<1>3. /\ files'.vkey \in Saved(keys.v, opt.v, files.vkey)
      /\ files'.ekey \in Saved(keys.e, opt.e, files.ekey)
      /\ Unsaved(keys.v, opt.v, files'.vkey) \subseteq files'.lost
      /\ Unsaved(keys.e, opt.e, files'.ekey) \subseteq files'.lost
  <2>1. PICK crt \in {buf, files.crt}, v \in Saved(keys.v, opt.v, files.vkey),
             k \in Saved(keys.e, opt.e, files.ekey) :
          files' = [crt |-> crt, vkey |-> v, ekey |-> k,
                    lost |-> files.lost \cup Unsaved(keys.v, opt.v, v)
                                        \cup Unsaved(keys.e, opt.e, k)]
    BY DEF Finish
  <2> QED BY <2>1
<1>4. ~KeyOpen
  <2>1. Shape(stack) /\ Len(stack) \in Nat /\ Len(stack) >= 1 /\ stack[Len(stack)].name = e.name
        /\ Len(stack) <= 5
    BY <1>1, CloseOpens DEF Opened, Shape
  <2> DEFINE l == Len(stack)
  <2>2. l \in 1..Len(stack) /\ "certificate" \in NamesAt(l)
    <3>1. l \in 1..Len(stack)
      BY <1>1, TopEvent DEF Opened, Shape
    <3>2. stack[l].name \in NamesAt(l)
      BY <2>1, <3>1 DEF Shape
    <3> QED BY <1>1, <2>1, <3>1, <3>2
  <2>3. l = 1
    <3>1. l \in Nat /\ l >= 1 /\ l <= 5 /\ "certificate" \in NamesAt(l)
      BY <2>1, <2>2
    <3> HIDE DEF l
    <3>2. l = 1 \/ l = 2 \/ l = 3 \/ l = 4 \/ l = 5
      BY <3>1, SMT
    <3>3. /\ "certificate" \notin NamesAt(2) /\ "certificate" \notin NamesAt(3)
          /\ "certificate" \notin NamesAt(4) /\ "certificate" \notin NamesAt(5)
      BY SMT DEF NamesAt, Parts, AttributeTags, RegionTags
    <3> QED BY <3>1, <3>2, <3>3
  <2>4. ~(Len(stack) >= 3)
    BY <2>3, SMT
  <2> QED BY <2>4 DEF KeyOpen
<1>5. ~KeyOpen' /\ keys.cur = 0
  BY <1>1, <1>4, CloseOpens DEF Loaded
<1>6. \A u : /\ Seen(u) => Seen(u)'
             /\ Kept(u)' = Kept(u) /\ GivenFor(u)' = GivenFor(u) /\ (Saves(u)' <=> Saves(u))
  BY <1>1, SeenNext DEF Kept, GivenFor, Saves
<1>7. Loaded'
  BY <1>1, <1>5 DEF Loaded
<1>8. KeptKeys'
  <2>1. opt.reuse = "yes" => files'.vkey = files.vkey /\ files'.ekey = files.ekey
    BY <1>3 DEF Saved, ToSave
  <2> QED BY <1>1, <1>6, <2>1 DEF KeptKeys
<1>9. NoneLost'
  <2>1. Generated(keys.v) => keys.v \in KeyFiles'
    <3>1. SUFFICES ASSUME Generated(keys.v) PROVE keys.v \in KeyFiles'
      OBVIOUS
    <3>2. Kept(0) = keys.v /\ GivenFor(0) = opt.v
      BY DEF Kept, GivenFor
    <3>3. opt.reuse = "no" /\ opt.v = 0
      BY <3>1, <3>2 DEF KeptKeys, Saves
    <3>4. keys.v # 0
      BY <1>1, <3>1, KeyParts, SMT DEF Generated
    <3> QED BY <1>3, <3>3, <3>4 DEF ToSave, Unsaved, KeyFiles
  <2>2. Generated(keys.e) => keys.e \in KeyFiles'
    <3>1. SUFFICES ASSUME Generated(keys.e) PROVE keys.e \in KeyFiles'
      OBVIOUS
    <3>2. Kept(1) = keys.e /\ GivenFor(1) = opt.e
      BY DEF Kept, GivenFor
    <3>3. opt.reuse = "no" /\ opt.e = 0
      BY <3>1, <3>2 DEF KeptKeys, Saves
    <3>4. keys.e # 0
      BY <1>1, <3>1, KeyParts, SMT DEF Generated
    <3> QED BY <1>3, <3>3, <3>4 DEF ToSave, Unsaved, KeyFiles
  <2>3. \A k \in {keys.cur, keys.v, keys.e} : Generated(k) => k \in KeyFiles'
    BY <1>5, <2>1, <2>2, NotGenerated
  <2>4. KeysIn(buf, KeyFiles')
    BY <2>3, KeysAmong DEF NoneLost
  <2> QED BY <1>1, <2>4 DEF NoneLost
<1> QED BY <1>2, <1>7, <1>8, <1>9

\* Texts.
LEMMA ContentKeeps ==
  ASSUME Inv, PointsInside, Loaded, KeptKeys, NoneLost, Content
  PROVE  PointsInside' /\ Loaded' /\ KeptKeys' /\ NoneLost'
<1>1. /\ Cursor /\ Reading /\ doc' = doc /\ at' = at + 1 /\ files' = files
      /\ stack' = stack /\ keys' = keys /\ opt' = opt
      /\ doc[at].tag = "text" \/ Waiting
  BY DEF Inv, Content, Goes
<1>2. (KeyOpen' <=> KeyOpen) /\ (Waiting' <=> Waiting)
  BY <1>1 DEF KeyOpen, Waiting, Top
<1>3. PointsInside'
  <2>1. ASSUME ~Waiting', NEW i \in DOMAIN doc, KeyBegins(i, at)' PROVE KeyOpen'
    <3>1. doc[at].tag = "text"
      BY <1>1, <1>2, <2>1
    <3>2. KeyBegins(i, at)
      BY <1>1, <2>1, <3>1, SeenNext DEF OpensAt
    <3> QED BY <1>2, <2>1, <3>2 DEF PointsInside
  <2> QED BY <1>1, <1>2, <2>1 DEF PointsInside
<1>4. Loaded' /\ KeptKeys'
  BY <1>1, <1>2, SeenNext, SameKeys
<1>5. NoneLost'
  <2>1. KeysIn(buf', {keys.cur, keys.v, keys.e}) /\ (stack = <<>> => buf' = buf)
    BY ContentWrites DEF NoneLost
  <2>2. KeyFiles' = KeyFiles
    BY <1>1 DEF KeyFiles
  <2> QED BY <1>1, <2>1, <2>2 DEF NoneLost
<1> QED BY <1>3, <1>4, <1>5

LEMMA KeyNext == Inv /\ KeyInv /\ [Next]_vars => KeyInv'
<1> SUFFICES ASSUME Inv, KeyInv, [Next]_vars PROVE KeyInv'
  OBVIOUS
<1>1. doc' = doc
  BY DEF Next, Begin, End, Finish, Content, Fail, Stop, EndOfFile, Ends, Goes, vars
<1>2. SUFFICES ASSUME OneKeyOfAKind, PointsInside, Loaded, KeptKeys, NoneLost
               PROVE  PointsInside' /\ Loaded' /\ KeptKeys' /\ NoneLost'
  BY <1>1, SameProfile DEF KeyInv
<1>3. CASE Reading /\ Begin(doc[at])
  BY <1>2, <1>3, BeginKeeps
<1>4. CASE Reading /\ End(doc[at])
  BY <1>2, <1>4, EndKeeps
<1>5. CASE Reading /\ Finish(doc[at])
  BY <1>2, <1>5, FinishKeeps
<1>6. CASE Content
  BY <1>2, <1>6, ContentKeeps
<1>7. CASE UNCHANGED <<doc, at, stack, buf, bookmarks, reg, keys, opt, files>>
  <2>1. /\ KeyOpen' <=> KeyOpen
        /\ Waiting' <=> Waiting
        /\ \A t : Seen(t)' <=> Seen(t)
    BY <1>7, SameProfile DEF KeyOpen, Waiting, Top, Seen
  <2>2. \A i : KeyBegins(i, at)' <=> KeyBegins(i, at)
    BY <1>7, SameProfile DEF KeyBegins
  <2>3. PointsInside'
    BY <1>2, <1>7, <2>1, <2>2 DEF PointsInside
  <2>4. Loaded' /\ KeptKeys'
    BY <1>2, <1>7, <2>1, SameKeys
  <2> QED BY <1>2, <1>7, <2>3, <2>4 DEF NoneLost, KeyFiles
<1> QED BY <1>3, <1>4, <1>5, <1>6, <1>7 DEF Next, Fail, Stop, EndOfFile, Ends, vars

-----------------------------------------------------------------------------
(* The signature of a self-signed certificate.                              *)

\* The tags read so far.
Read == TagsUpTo(at - 1)

TagsTo(i) == {k \in DOMAIN doc : k <= i /\ doc[k].tag # "text"}

LEMMA TagsNext ==
  ASSUME Cursor, Reading
  PROVE  /\ Read \in Nat
         /\ TagsUpTo(at) = IF doc[at].tag = "text" THEN Read ELSE Read + 1
<1>1. /\ doc \in Seq(Event) /\ DOMAIN doc = 1..Len(doc) /\ Len(doc) \in Nat
      /\ at \in 1..Len(doc) /\ at \in Nat
  <2>1. doc \in Seq(Event)
    BY ProfilesAssumption DEF Cursor
  <2> QED BY <2>1, LenProperties, SMT DEF Cursor, Reading
<1>2. \A i : IsFiniteSet(TagsTo(i)) /\ TagsUpTo(i) = Cardinality(TagsTo(i))
  <2>1. IsFiniteSet(1..Len(doc))
    BY <1>1, FS_Interval
  <2>2. \A i : TagsTo(i) \subseteq 1..Len(doc)
    BY <1>1 DEF TagsTo
  <2> QED BY <2>1, <2>2, FS_Subset DEF TagsUpTo, TagsTo
<1>3. Read \in Nat
  BY <1>2, FS_CardinalityType DEF Read
<1>4. CASE doc[at].tag = "text"
  <2>1. TagsTo(at) = TagsTo(at - 1)
    BY <1>1, <1>4, SMT DEF TagsTo
  <2> QED BY <1>2, <1>3, <1>4, <2>1 DEF Read
<1>5. CASE doc[at].tag # "text"
  <2>1. TagsTo(at) = TagsTo(at - 1) \cup {at} /\ at \notin TagsTo(at - 1)
    BY <1>1, <1>5, SMT DEF TagsTo
  <2>2. Cardinality(TagsTo(at - 1) \cup {at}) = Cardinality(TagsTo(at - 1)) + 1
    BY <1>2, <2>1, FS_AddElement
  <2> QED BY <1>2, <1>3, <1>5, <2>1, <2>2 DEF Read
<1> QED BY <1>3, <1>4, <1>5

LEMMA ReadNat ==
  ASSUME Cursor
  PROVE  Read \in Nat
<1>1. DOMAIN doc = 1..Len(doc) /\ Len(doc) \in Nat
  <2>1. doc \in Seq(Event)
    BY ProfilesAssumption DEF Cursor
  <2> QED BY <2>1, LenProperties
<1>2. IsFiniteSet(1..Len(doc)) /\ TagsTo(at - 1) \subseteq 1..Len(doc)
  BY <1>1, FS_Interval DEF TagsTo
<1>3. IsFiniteSet(TagsTo(at - 1))
  BY <1>2, FS_Subset
<1> QED BY <1>3, FS_CardinalityType DEF Read, TagsUpTo, TagsTo

LEMMA ReadStart ==
  ASSUME Init
  PROVE  Read = 0
<1>1. at = 1 /\ doc \in Seq(Event)
  BY ProfilesAssumption DEF Init
<1>2. DOMAIN doc = 1..Len(doc)
  BY <1>1, LenProperties
<1>3. TagsTo(at - 1) = {}
  BY <1>1, <1>2, SMT DEF TagsTo
<1> QED BY <1>3, FS_EmptySet DEF Read, TagsUpTo, TagsTo

\* One event further, the count is one higher unless it is a text.
LEMMA ReadNext ==
  ASSUME Cursor, Reading, doc' = doc, at' = at + 1
  PROVE  /\ Read \in Nat
         /\ doc[at].tag = "text" => Read' = Read
         /\ doc[at].tag # "text" => Read' = Read + 1
         /\ SelfSigned' <=> SelfSigned
<1>1. at \in Nat /\ at' - 1 = at
  BY SMT DEF Cursor
<1>2. \A i : TagsUpTo(i)' = TagsUpTo(i)
  BY DEF TagsUpTo
<1>3. Read' = TagsUpTo(at)
  BY <1>1, <1>2 DEF Read
<1>4. \A i, n : OpensAt(i, n)' <=> OpensAt(i, n)
  BY DEF OpensAt
<1>5. SelfSigned' <=> SelfSigned
  BY <1>2, <1>4 DEF SelfSigned
<1> QED BY <1>3, <1>5, TagsNext

\* The next tag of the head.
LEMMA HeadNext ==
  ASSUME Cursor, Reading, SelfSigned, NEW e, e = doc[at], e.tag # "text"
  PROVE  /\ Read = 0 => e.tag = "open" /\ e.name = "certificate"
         /\ Read = 1 => e.tag = "open" /\ e.name = "version"
         /\ Read = 2 => e.tag = "close" /\ e.name = "version"
         /\ Read = 3 => e.tag = "open" /\ e.name = "signer"
         /\ Read = 4 => e.tag = "close" /\ e.name = "signer"
         /\ Read = 5 => e.tag = "open" /\ e.name = "subject" /\ e.n < Short
         /\ Read = 6 => e.tag = "open" /\ e.name = "attribute" /\ e.v = 0
         /\ Read = 7 => e.tag = "open" /\ e.name = "public_key" /\ e.v = 0
         /\ Read = 8 => e.tag = "open" /\ e.name = "eccpoint"
         /\ Read = 9 => e.tag = "close" /\ e.name = "eccpoint"
         /\ e.tag = "open" =>
              /\ e.name = "signer" => e.v = 0
              /\ e.name = "certificate" => Read = 0
              /\ (e.name = "attribute" /\ e.v = 0) => Read = 6
<1> DEFINE t == Read + 1
<1>1. TagsUpTo(at) = t /\ Read \in Nat
  BY TagsNext
<1>2. at \in DOMAIN doc
  <2>1. doc \in Seq(Event)
    BY ProfilesAssumption DEF Cursor
  <2> QED BY <2>1, LenProperties, SMT DEF Cursor, Reading
<1>3. /\ t <= Len(HeadTags) => <<e.tag, e.name>> = HeadTags[t]
      /\ (OpensAt(at, "subject") /\ t = 6) => e.n < Short
      /\ OpensAt(at, "attribute") => (t = 7 <=> e.v = 0)
      /\ (OpensAt(at, "public_key") /\ t = 8) => e.v = 0
      /\ OpensAt(at, "signer") => e.v = 0
      /\ OpensAt(at, "certificate") => t = 1
  BY <1>1, <1>2 DEF SelfSigned
<1>4. \A n : OpensAt(at, n) <=> e.tag = "open" /\ e.name = n
  BY DEF OpensAt
<1>5. Len(HeadTags) = 10
  BY DEF HeadTags
<1>6. ASSUME NEW k \in 0..9, Read = k PROVE <<e.tag, e.name>> = HeadTags[k + 1] /\ t = k + 1
  BY <1>1, <1>3, <1>5, <1>6, SMT
<1>7. /\ HeadTags[1] = <<"open", "certificate">> /\ HeadTags[2] = <<"open", "version">>
      /\ HeadTags[3] = <<"close", "version">> /\ HeadTags[4] = <<"open", "signer">>
      /\ HeadTags[5] = <<"close", "signer">> /\ HeadTags[6] = <<"open", "subject">>
      /\ HeadTags[7] = <<"open", "attribute">> /\ HeadTags[8] = <<"open", "public_key">>
      /\ HeadTags[9] = <<"open", "eccpoint">> /\ HeadTags[10] = <<"close", "eccpoint">>
  BY DEF HeadTags
<1>8. \A a, b : <<e.tag, e.name>> = <<a, b>> => e.tag = a /\ e.name = b
  OBVIOUS
<1>9. ASSUME NEW k \in 0..9, NEW a, NEW b, HeadTags[k + 1] = <<a, b>>, Read = k
      PROVE  e.tag = a /\ e.name = b
  BY <1>6, <1>8, <1>9
<1>10. /\ 0 + 1 = 1 /\ 1 + 1 = 2 /\ 2 + 1 = 3 /\ 3 + 1 = 4 /\ 4 + 1 = 5 /\ 5 + 1 = 6
       /\ 6 + 1 = 7 /\ 7 + 1 = 8 /\ 8 + 1 = 9 /\ 9 + 1 = 10
       /\ \A k \in {0, 1, 2, 3, 4, 5, 6, 7, 8, 9} : k \in 0..9
  BY SMT
<1>11. /\ Read = 0 => e.tag = "open" /\ e.name = "certificate"
       /\ Read = 1 => e.tag = "open" /\ e.name = "version"
       /\ Read = 2 => e.tag = "close" /\ e.name = "version"
       /\ Read = 3 => e.tag = "open" /\ e.name = "signer"
       /\ Read = 4 => e.tag = "close" /\ e.name = "signer"
  BY <1>7, <1>9, <1>10
<1>12. /\ Read = 5 => e.tag = "open" /\ e.name = "subject"
       /\ Read = 6 => e.tag = "open" /\ e.name = "attribute"
       /\ Read = 7 => e.tag = "open" /\ e.name = "public_key"
       /\ Read = 8 => e.tag = "open" /\ e.name = "eccpoint"
       /\ Read = 9 => e.tag = "close" /\ e.name = "eccpoint"
  BY <1>7, <1>9, <1>10
<1>13. t = 7 <=> Read = 6
  BY <1>1, SMT
<1>14. t = 1 <=> Read = 0
  BY <1>1, SMT
<1>15. (Read = 5 => t = 6) /\ (Read = 7 => t = 8)
  BY <1>1, SMT
<1> HIDE DEF t
<1> QED BY <1>3, <1>4, <1>11, <1>12, <1>13, <1>14, <1>15

-----------------------------------------------------------------------------
(* The bytes of a self-signed certificate.                                  *)

\* Up to the point of its first key: the length l, the length n of the name, the size left.
Started(b, n, l) ==
  /\ Len(b) = l /\ l >= 5 + n /\ b[2].v = 0 /\ b[4].v = n /\ b[5 + n] = Left
  /\ \A i \in 1..l : b[i].k # "sig" /\ (i # 5 + n => b[i].k # "size")

\* Where the key is, when the size of the attributes is s.
KeyAt(n, s) == 8 + n + Len(Num(s))

\* From the point on: the key is k.
Begins(b, n, s, k) ==
  /\ Len(b) >= KeyAt(n, s) /\ b[2].v = 0 /\ b[4].v = n /\ b[5 + n].v = s /\ b[KeyAt(n, s)].v = k
  /\ \A i \in 1..KeyAt(n, s) : i # 5 + n => b[i].k # "size"
  /\ b[5 + n].k = "size" => s = 0

\* All signatures are made with k.
Signs(b, k) == \A i \in 1..Len(b) : b[i].k = "sig" => b[i].v = k

LEMMA NumFacts ==
  ASSUME NEW n \in Int
  PROVE  /\ Num(n)[1] = C("num", n) /\ Len(Num(n)) \in {1, 2}
         /\ n < Short => Num(n) = <<C("num", n)>>
         /\ Len(Num(0)) = 1
<1> DEFINE c == C("num", n)
           d == C("more", 0)
           z == C("num", 0)
<1>1. Num(n) = IF n < Short THEN <<c>> ELSE <<c, d>>
  BY DEF Num
<1>2. Num(0) = <<z>>
  <2>1. 0 < Short
    BY BoundAssumption, SMT
  <2> QED BY <2>1 DEF Num
<1> HIDE DEF c, d, z
<1>3. /\ <<c>>[1] = c /\ <<c, d>>[1] = c /\ Len(<<c>>) = 1 /\ Len(<<c, d>>) = 2 /\ Len(<<z>>) = 1
  OBVIOUS
<1> QED BY <1>1, <1>2, <1>3 DEF c

\* What the reader finds.
LEMMA ReaderFinds ==
  ASSUME NEW b \in Seq(Cell), NEW n \in Nat, NEW s \in Nat, NEW k, Begins(b, n, s, k)
  PROVE  VerificationKey(b) = k
<1>1. Len(Num(s)) \in {1, 2} /\ Len(b) \in Nat /\ DOMAIN b = 1..Len(b)
  BY NumFacts, LenProperties
<1>2. 2 \in DOMAIN b /\ 4 \in DOMAIN b /\ 5 + n \in DOMAIN b /\ KeyAt(n, s) \in DOMAIN b
  BY <1>1, SMT DEF Begins, KeyAt
<1>3. ReadAt(b, 2) = 0 /\ ReadAt(b, 4) = n /\ ReadAt(b, 5 + n) = s /\ ReadAt(b, KeyAt(n, s)) = k
  BY <1>2 DEF ReadAt, Begins
<1>4. SubjectAt(b) = 3
  BY <1>3, SMT DEF SubjectAt
<1>5. AttributesAt(b) = 5 + n
  BY <1>3, <1>4, SMT DEF AttributesAt
<1>6. FirstAttribute(b) = 5 + n + Len(Num(s))
  BY <1>3, <1>5 DEF FirstAttribute, NumEnd
<1>7. FirstAttribute(b) + 3 = KeyAt(n, s)
  BY <1>1, <1>6, SMT DEF KeyAt
<1> QED BY <1>3, <1>7 DEF VerificationKey

\* A longer certificate with the same beginning.
LEMMA BeginsLonger ==
  ASSUME NEW b \in Seq(Cell), NEW c \in Seq(Cell), NEW n \in Nat, NEW s \in Nat, NEW k,
         Begins(b, n, s, k), Len(c) >= KeyAt(n, s), \A i \in 1..KeyAt(n, s) : c[i] = b[i]
  PROVE  Begins(c, n, s, k)
<1> DEFINE f == KeyAt(n, s)
<1>1. f \in Nat /\ f >= 9 + n
  BY NumFacts, SMT DEF KeyAt
<1>2. 2 \in 1..f /\ 4 \in 1..f /\ 5 + n \in 1..f /\ f \in 1..f
  <2> HIDE DEF f
  <2> QED BY <1>1, SMT
<1>3. c[2] = b[2] /\ c[4] = b[4] /\ c[5 + n] = b[5 + n] /\ c[f] = b[f]
  BY <1>2
<1> QED BY <1>3 DEF Begins

LEMMA BeginsConcat ==
  ASSUME NEW b \in Seq(Cell), NEW w \in Seq(Cell), NEW n \in Nat, NEW s \in Nat, NEW k,
         Begins(b, n, s, k)
  PROVE  Begins(b \o w, n, s, k)
<1>1. /\ b \o w \in Seq(Cell) /\ Len(b \o w) = Len(b) + Len(w) /\ Len(b) \in Nat /\ Len(w) \in Nat
      /\ \A i \in 1..Len(b) : (b \o w)[i] = b[i]
  BY ConcatFacts
<1>2. KeyAt(n, s) \in Nat /\ Len(b) >= KeyAt(n, s)
  BY NumFacts, SMT DEF KeyAt, Begins
<1>3. Len(b \o w) >= KeyAt(n, s) /\ \A i \in 1..KeyAt(n, s) : i \in 1..Len(b)
  BY <1>1, <1>2, SMT
<1> QED BY <1>1, <1>3, BeginsLonger

LEMMA BeginsPushed ==
  ASSUME NEW b \in Seq(Cell), NEW n \in Nat, NEW s \in Nat, NEW k, Begins(b, n, s, k)
  PROVE  Begins(Append(b, Left), n, s, k)
<1>1. /\ Append(b, Left) \in Seq(Cell) /\ Len(Append(b, Left)) = Len(b) + 1 /\ Len(b) \in Nat
      /\ \A i \in 1..Len(b) : Append(b, Left)[i] = b[i]
  BY LeftFacts, AppendProperties, LenProperties
<1>2. KeyAt(n, s) \in Nat /\ Len(b) >= KeyAt(n, s)
  BY NumFacts, SMT DEF KeyAt, Begins
<1>3. Len(Append(b, Left)) >= KeyAt(n, s) /\ \A i \in 1..KeyAt(n, s) : i \in 1..Len(b)
  BY <1>1, <1>2, SMT
<1> QED BY <1>1, <1>3, BeginsLonger

\* A size is written: that of the attributes, or one behind the key.
LEMMA BeginsResized ==
  ASSUME NEW b \in Seq(Cell), NEW q \in 1..Len(b), b[q] = Left,
         NEW n \in Nat, NEW s \in Nat, NEW k, Begins(b, n, s, k)
  PROVE  \E t \in Nat : Begins(Resized(b, q, Num(Len(b) - q)), n, t, k)
<1> DEFINE t == Len(b) - q
           w == Num(t)
           c == Resized(b, q, w)
           l == Len(b)
           f == KeyAt(n, s)
           m == Len(w)
<1>1. l \in Nat /\ t \in Nat /\ q \in 1..l /\ t = l - q
  BY LenProperties, SMT
<1>2. w \in Seq(Cell) /\ Len(w) >= 1 /\ m \in {1, 2} /\ w[1] = C("num", t)
  BY <1>1, NumSimple, NumFacts DEF Simple
<1>3. /\ c \in Seq(Cell) /\ Len(c) = l - 1 + m
      /\ \A i \in 1..(q - 1) : c[i] = b[i]
      /\ \A i \in 1..m : c[(q - 1) + i] = w[i]
      /\ \A i \in 1..(l - q) : c[(q - 1 + m) + i] = b[q + i]
  BY <1>2, ResizedFacts
<1>4. f \in Nat /\ f >= 9 + n /\ l >= f /\ (s = 0 => f = 9 + n)
  <2> DEFINE a == Len(Num(s))
  <2>1. a \in {1, 2} /\ (s = 0 => a = 1) /\ f = 8 + n + a
    BY NumFacts DEF KeyAt
  <2>2. l >= f
    BY DEF Begins
  <2> HIDE DEF a, f, l
  <2> QED BY <2>1, <2>2, SMT
<1>5. b[q].k = "size" /\ b[q].v = 0
  BY LeftFacts DEF Left, C
<1>6. q = 5 + n \/ q > f
  <2>1. q \in 1..f => q = 5 + n
    BY <1>5 DEF Begins
  <2> HIDE DEF f
  <2> QED BY <1>4, <2>1, SMT
<1>7. CASE q > f
  <2>1. Len(c) >= f /\ \A i \in 1..f : i \in 1..(q - 1)
    <3>1. /\ l \in Nat /\ m \in {1, 2} /\ q \in Int /\ f \in Nat /\ l >= f
          /\ Len(c) = l - 1 + m
      BY <1>1, <1>2, <1>3, <1>4
    <3> HIDE DEF c, f, l, m
    <3>2. l - 1 + m >= f
      BY <3>1, SMT
    <3>3. \A i \in 1..f : i \in 1..(q - 1)
      BY <1>7, <3>1, SMT
    <3> QED BY <3>1, <3>2, <3>3
  <2>2. Begins(c, n, s, k)
    BY <1>3, <2>1, BeginsLonger
  <2> QED BY <2>2
<1>8. CASE q = 5 + n
  <2>1. s = 0
    BY <1>5, <1>8 DEF Begins
  <2>2. f = 9 + n /\ f = q + 4
    BY <1>4, <1>8, <2>1, SMT
  <2> DEFINE g == KeyAt(n, t)
  <2>3. g = 8 + n + m
    BY DEF KeyAt
  <2>4. /\ b[2].v = 0 /\ b[4].v = n /\ b[f].v = k
        /\ \A i \in 1..f : i # 5 + n => b[i].k # "size"
    BY DEF Begins
  <2>5. C("num", t).v = t /\ C("num", t).k = "num" /\ C("more", 0).k = "more"
    BY DEF C
  <2>6. Simple(w)
    BY <1>1, NumSimple
  <2>7. \A i \in 1..m : w[i].k # "size"
    BY <2>6 DEF Simple
  <2>8. /\ l \in Nat /\ m \in {1, 2} /\ q = 5 + n /\ f = 9 + n /\ g = 8 + n + m /\ l >= f
        /\ Len(c) = l - 1 + m
    BY <1>1, <1>2, <1>3, <1>4, <1>8, <2>2, <2>3
  <2> HIDE DEF c, f, l, m, g, t, w
  <2>9. c[2] = b[2] /\ c[4] = b[4]
    <3>1. 2 \in 1..(q - 1) /\ 4 \in 1..(q - 1)
      BY <1>8, SMT
    <3> QED BY <1>3, <3>1
  <2>10. c[5 + n] = w[1]
    <3>1. 1 \in 1..m /\ (q - 1) + 1 = 5 + n
      BY <1>2, <1>8, SMT
    <3> QED BY <1>3, <3>1
  <2>11. c[g] = b[f]
    <3>1. 4 \in 1..(l - q) /\ (q - 1 + m) + 4 = g /\ q + 4 = f
      BY <2>8, SMT
    <3> QED BY <1>3, <3>1
  <2>12. Len(c) >= g
    <3>1. l - 1 + m >= g
      BY <2>8, SMT
    <3> QED BY <2>8, <3>1
  <2>13. ASSUME NEW i \in 1..g, i # 5 + n PROVE c[i].k # "size"
    <3>1. CASE i <= q - 1
      <4>1. i \in 1..(q - 1) /\ i \in 1..f
        BY <2>8, <3>1, SMT
      <4> QED BY <1>3, <2>4, <2>13, <4>1
    <3>2. CASE i > q - 1 /\ i <= q - 1 + m
      <4>1. i - (q - 1) \in 1..m /\ (q - 1) + (i - (q - 1)) = i
        BY <1>2, <3>2, SMT
      <4> QED BY <1>3, <2>7, <4>1
    <3>3. CASE i > q - 1 + m
      <4> DEFINE j == i - (q - 1 + m)
      <4>1. /\ j \in 1..(l - q) /\ (q - 1 + m) + j = i /\ q + j \in 1..f /\ q + j # 5 + n
        BY <2>8, <3>3, SMT
      <4> QED BY <1>3, <2>4, <4>1
    <3> QED BY <1>2, <3>1, <3>2, <3>3, SMT
  <2>14. c[5 + n].v = t /\ c[5 + n].k # "size"
    BY <1>2, <2>5, <2>10
  <2>15. Begins(c, n, t, k)
    BY <2>4, <2>9, <2>11, <2>12, <2>13, <2>14 DEF Begins, g
  <2> QED BY <1>1, <2>15 DEF t, c, w
<1> QED BY <1>6, <1>7, <1>8

LEMMA SignsConcat ==
  ASSUME NEW b \in Seq(Cell), NEW w \in Seq(Cell), NEW k, Signs(b, k), Signs(w, k)
  PROVE  Signs(b \o w, k)
<1> QED BY ConcatCells DEF Signs

LEMMA SignsPushed ==
  ASSUME NEW b \in Seq(Cell), NEW k, Signs(b, k)
  PROVE  Signs(Append(b, Left), k)
<1> QED BY PushedCells, LeftFacts DEF Signs

LEMMA SignsResized ==
  ASSUME NEW b \in Seq(Cell), NEW q \in 1..Len(b), NEW w, Plain(w), Len(w) >= 1, NEW k, Signs(b, k)
  PROVE  Signs(Resized(b, q, w), k)
<1>1. w \in Seq(Cell) /\ \A i \in 1..Len(w) : w[i].k # "sig"
  BY DEF Plain
<1>2. SUFFICES ASSUME NEW p \in 1..Len(Resized(b, q, w)), Resized(b, q, w)[p].k = "sig"
               PROVE  Resized(b, q, w)[p].v = k
  BY DEF Signs
<1>3. \/ \E j \in 1..Len(b) : Resized(b, q, w)[p] = b[j]
      \/ \E j \in 1..Len(w) : Resized(b, q, w)[p] = w[j]
  BY <1>1, ResizedCells
<1> QED BY <1>1, <1>2, <1>3 DEF Signs

LEMMA PlainSigns ==
  ASSUME NEW w, Plain(w), NEW k
  PROVE  w \in Seq(Cell) /\ Signs(w, k)
<1> QED BY DEF Plain, Signs

\* What a signature writes.
LEMMA SignatureSigns ==
  ASSUME NEW k \in Int
  PROVE  Signs(Type(0) \o <<C("sig", k)>>, k)
<1> DEFINE c == C("sig", k)
<1>1. Plain(Type(0))
  BY TypeSimple, SimpleIsPlain
<1>2. Type(0) \in Seq(Cell) /\ Signs(Type(0), k)
  BY <1>1, PlainSigns
<1>3. c \in Cell /\ c.v = k
  BY CellFacts DEF Kind, C
<1> HIDE DEF c
<1>4. <<c>> \in Seq(Cell) /\ Len(<<c>>) = 1 /\ <<c>>[1] = c /\ \A i \in 1..1 : i = 1
  BY <1>3, SMT
<1>5. Signs(<<c>>, k)
  BY <1>3, <1>4 DEF Signs
<1> QED BY <1>2, <1>4, <1>5, SignsConcat DEF c

\* The head grows up to the point.
LEMMA StartedConcat ==
  ASSUME NEW b \in Seq(Cell), NEW n \in Nat, NEW l \in Nat, Started(b, n, l), NEW w, Plain(w)
  PROVE  Started(b \o w, n, l + Len(w))
<1>1. w \in Seq(Cell) /\ \A i \in 1..Len(w) : w[i].k # "size" /\ w[i].k # "sig"
  BY DEF Plain
<1>2. /\ Len(b) = l /\ l >= 5 + n /\ b[2].v = 0 /\ b[4].v = n /\ b[5 + n] = Left
      /\ \A i \in 1..l : b[i].k # "sig" /\ (i # 5 + n => b[i].k # "size")
  BY DEF Started
<1>3. /\ Len(b \o w) = l + Len(w) /\ Len(w) \in Nat
      /\ \A i \in 1..l : (b \o w)[i] = b[i]
      /\ \A i \in 1..Len(w) : (b \o w)[l + i] = w[i]
      /\ \A i \in 1..(l + Len(w)) : i <= l \/ i - l \in 1..Len(w)
  BY <1>1, <1>2, ConcatFacts
<1> DEFINE c == b \o w
           m == Len(w)
<1> HIDE DEF c, m
<1>4. 2 \in 1..l /\ 4 \in 1..l /\ 5 + n \in 1..l
  BY <1>2, SMT
<1>5. c[2] = b[2] /\ c[4] = b[4] /\ c[5 + n] = b[5 + n]
  BY <1>3, <1>4 DEF c
<1>6. ASSUME NEW i \in 1..(l + m) PROVE c[i].k # "sig" /\ (i # 5 + n => c[i].k # "size")
  <2>1. CASE i <= l
    <3>1. i \in 1..l
      BY <2>1, SMT
    <3> QED BY <1>2, <1>3, <3>1 DEF c
  <2>2. CASE ~(i <= l)
    <3>1. i - l \in 1..m /\ l + (i - l) = i
      BY <1>3, <2>2, SMT DEF m
    <3> QED BY <1>1, <1>3, <3>1 DEF c, m
  <2> QED BY <2>1, <2>2
<1>7. l + m >= 5 + n
  BY <1>2, <1>3, SMT DEF m
<1> QED BY <1>2, <1>3, <1>5, <1>6, <1>7 DEF Started, c, m

\* The subject opens.
LEMMA SubjectStarted ==
  ASSUME NEW b \in Seq(Cell), Plain(b), Len(b) = 2, b[2].v = 0,
         NEW v \in Int, NEW n \in Nat, n < Short
  PROVE  Started(Append(b \o (Type(v) \o Num(n) \o Text(n)), Left), n, 5 + n)
<1> DEFINE f == C("field", v % 256)
           c == C("num", n)
           u == Type(v) \o Num(n)
           w == u \o Text(n)
           d == b \o w
           a == Append(d, Left)
<1>1. f \in Cell /\ c \in Cell /\ c.v = n
  <2>1. v % 256 \in Int
    BY SMT
  <2> QED BY <2>1, CellFacts DEF Kind, C
<1>2. Type(v) = <<f>> /\ Num(n) = <<c>>
  BY NumFacts DEF Type
<1>3. Text(n) \in Seq(Cell) /\ Len(Text(n)) = n
  <2> DEFINE x == C("text", 0)
  <2>1. x \in Cell
    BY CellFacts DEF Kind
  <2> HIDE DEF x
  <2>2. Text(n) = [i \in 1..n |-> x]
    BY DEF Text, x
  <2> QED BY <2>1, <2>2, SMT
<1>4. Plain(w)
  BY TypeSimple, NumSimple, TextSimple, ConcatPlain, SimpleIsPlain
<1> HIDE DEF f, c
<1>5. u \in Seq(Cell) /\ Len(u) = 2 /\ u[2] = c
  BY <1>1, <1>2
<1> HIDE DEF u
<1>6. w \in Seq(Cell) /\ Len(w) = 2 + n /\ w[2] = c
  <2>1. /\ w \in Seq(Cell) /\ Len(w) = Len(u) + Len(Text(n))
        /\ \A i \in 1..Len(u) : w[i] = u[i]
    BY <1>3, <1>5, ConcatFacts
  <2>2. 2 \in 1..Len(u)
    BY <1>5, SMT
  <2> QED BY <1>3, <1>5, <2>1, <2>2
<1> HIDE DEF w
<1>7. d \in Seq(Cell) /\ Len(d) = 4 + n /\ d[2] = b[2] /\ d[4] = c
  <2>1. /\ d \in Seq(Cell) /\ Len(d) = Len(b) + Len(w)
        /\ \A i \in 1..Len(b) : d[i] = b[i]
        /\ \A i \in 1..Len(w) : d[Len(b) + i] = w[i]
    BY <1>6, ConcatFacts
  <2>2. 2 \in 1..Len(b) /\ 2 \in 1..Len(w) /\ Len(b) + 2 = 4 /\ Len(b) + Len(w) = 4 + n
    BY <1>6, SMT
  <2> QED BY <1>6, <2>1, <2>2
<1>8. Plain(d)
  BY <1>4, ConcatPlain
<1> HIDE DEF d
<1>9. /\ Len(a) = (4 + n) + 1 /\ a[(4 + n) + 1] = Left
      /\ \A i \in 1..(4 + n) : a[i] = d[i]
  BY <1>7, LeftFacts, AppendProperties
<1> HIDE DEF a
<1>10. Len(a) = 5 + n /\ a[5 + n] = Left
  <2>1. (4 + n) + 1 = 5 + n
    BY SMT
  <2> QED BY <1>9, <2>1
<1>11. a[2] = b[2] /\ a[4] = c
  <2>1. 2 \in 1..(4 + n) /\ 4 \in 1..(4 + n)
    BY SMT
  <2> QED BY <1>7, <1>9, <2>1
<1>12. ASSUME NEW i \in 1..(5 + n) PROVE a[i].k # "sig" /\ (i # 5 + n => a[i].k # "size")
  <2>1. CASE i = 5 + n
    BY <1>10, <2>1, LeftFacts
  <2>2. CASE i # 5 + n
    <3>1. i \in 1..(4 + n)
      BY <2>2, SMT
    <3> QED BY <1>7, <1>8, <1>9, <3>1 DEF Plain
  <2> QED BY <2>1, <2>2
<1>13. Started(a, n, 5 + n)
  <2>1. 5 + n >= 5 + n
    BY SMT
  <2> QED BY <1>1, <1>10, <1>11, <1>12, <2>1 DEF Started
<1> QED BY <1>13 DEF a, d, w, u

\* The point closes.
LEMMA StartedBegins ==
  ASSUME NEW b \in Seq(Cell), NEW n \in Nat, Started(b, n, 7 + n), NEW type \in Int,
         NEW k \in Int, k # 0
  PROVE  Begins(b \o Point(type, k), n, 0, k) /\ Signs(b \o Point(type, k), k)
<1> DEFINE c == C("point", type)
           d == C("x", k)
           z == C("y", k)
           w == Point(type, k)
           a == b \o w
<1>1. /\ c \in Cell /\ c.k = "point" /\ d \in Cell /\ d.k = "x" /\ d.v = k
      /\ z \in Cell /\ z.k = "y"
  BY CellFacts DEF Kind, C
<1>2. w = <<c, d>> \o <<z>> \/ w = <<c, d>> \o <<>>
  BY DEF Point
<1> HIDE DEF c, d, z, w
<1>3. /\ w \in Seq(Cell) /\ Len(w) >= 2 /\ w[2] = d
      /\ \A i \in 1..Len(w) : w[i] \in {c, d, z}
  <2>1. CASE w = <<c, d>> \o <<z>>
    <3> DEFINE x == <<c, d>>
               y == <<z>>
    <3>1. /\ x \in Seq(Cell) /\ Len(x) = 2 /\ x[1] = c /\ x[2] = d
          /\ y \in Seq(Cell) /\ Len(y) = 1 /\ y[1] = z
      BY <1>1
    <3>2. w = x \o y
      BY <2>1
    <3> HIDE DEF x, y
    <3>3. /\ w \in Seq(Cell) /\ Len(w) = Len(x) + Len(y)
          /\ \A i \in 1..Len(x) : w[i] = x[i]
          /\ \A i \in 1..Len(y) : w[Len(x) + i] = y[i]
      BY <3>1, <3>2, ConcatFacts
    <3>4. /\ 1 \in 1..Len(x) /\ 2 \in 1..Len(x) /\ 1 \in 1..Len(y) /\ Len(x) + 1 = 3
          /\ Len(x) + Len(y) = 3 /\ 3 >= 2
      BY <3>1, SMT
    <3>5. \A i \in 1..3 : i = 1 \/ i = 2 \/ i = 3
      BY SMT
    <3>6. Len(w) = 3 /\ w[1] = c /\ w[2] = d /\ w[3] = z
      BY <3>1, <3>3, <3>4
    <3> QED BY <3>3, <3>4, <3>5, <3>6
  <2>2. CASE w = <<c, d>> \o <<>>
    <3>1. w = <<c, d>>
      BY <2>2
    <3>2. \A i \in 1..2 : i = 1 \/ i = 2
      BY SMT
    <3>3. <<c, d>> \in Seq(Cell) /\ Len(<<c, d>>) = 2 /\ 2 >= 2
          /\ <<c, d>>[1] = c /\ <<c, d>>[2] = d
      BY <1>1
    <3> QED BY <3>1, <3>2, <3>3
  <2> QED BY <1>2, <2>1, <2>2
<1>4. Plain(w)
  BY <1>1, <1>3 DEF Plain
<1>5. Started(a, n, (7 + n) + Len(w))
  BY <1>4, StartedConcat
<1>6. a[9 + n] = d /\ Len(w) \in Nat
  <2>1. /\ Len(b) = 7 + n /\ Len(w) \in Nat /\ \A i \in 1..Len(w) : a[Len(b) + i] = w[i]
    BY <1>3, ConcatFacts DEF Started
  <2>2. 2 \in 1..Len(w) /\ (7 + n) + 2 = 9 + n
    BY <1>3, <2>1, SMT
  <2> QED BY <1>3, <2>1, <2>2
<1> HIDE DEF a
<1>7. KeyAt(n, 0) = 9 + n
  <2>1. KeyAt(n, 0) = 8 + n + 1
    BY NumFacts DEF KeyAt
  <2> QED BY <2>1, SMT
<1>8. Len(a) >= 9 + n /\ \A i \in 1..(9 + n) : i \in 1..((7 + n) + Len(w))
  <2>1. Len(a) = (7 + n) + Len(w)
    BY <1>5 DEF Started
  <2> QED BY <1>3, <1>6, <2>1, SMT
<1>9. Begins(a, n, 0, k)
  <2>1. Left.v = 0
    BY DEF Left, C
  <2>2. /\ a[2].v = 0 /\ a[4].v = n /\ a[5 + n].v = 0
        /\ \A i \in 1..((7 + n) + Len(w)) : i # 5 + n => a[i].k # "size"
    BY <1>5, <2>1 DEF Started
  <2> QED BY <1>1, <1>6, <1>7, <1>8, <2>2 DEF Begins
<1>10. Signs(a, k)
  BY <1>5 DEF Started, Signs
<1> QED BY <1>9, <1>10 DEF a, w

-----------------------------------------------------------------------------
(* What the program has done after so many tags of a self-signed certificate. *)

\* The attribute of the verification key is open.
VKeyOpen == KeyOpen /\ stack[3].v = 0

\* The verification key, from its point on.
VKeyNow == IF VKeyOpen THEN keys.cur ELSE keys.v

At(depth, name) == Len(stack) = depth /\ Top = name
HeadOf(size) == \E n \in 0..(Short - 1) : Started(buf, n, size + n)

HeadRead ==
  /\ Read = 0 => At(0, "root") /\ buf = <<>>
  /\ Read = 1 => At(1, "certificate") /\ buf = <<>>
  /\ Read = 2 => At(2, "version") /\ buf = <<>>
  /\ Read = 3 => At(1, "certificate") /\ Plain(buf) /\ Len(buf) = 1
  /\ Read = 4 => At(2, "signer") /\ Plain(buf) /\ Len(buf) = 2 /\ buf[2].v = 0
  /\ Read = 5 => At(1, "certificate") /\ Plain(buf) /\ Len(buf) = 2 /\ buf[2].v = 0
  /\ Read = 6 => At(2, "subject") /\ HeadOf(5)
  /\ Read = 7 => At(3, "attribute") /\ HeadOf(6) /\ VKeyOpen
  /\ Read = 8 => At(4, "public_key") /\ HeadOf(7) /\ VKeyOpen /\ reg.pk = 0
  /\ Read = 9 => At(5, "eccpoint") /\ HeadOf(7) /\ VKeyOpen /\ reg.pk = 0

\* The signers that are open.
OwnSigner == reg.signer = 0 /\ \A i \in 1..Len(stack) : stack[i].name = "signer" => stack[i].v = 0

\* The key that the reader finds is the verification key, and all signatures are made with it.
SignedWith(b, k) ==
  k # 0 /\ Signs(b, k) /\ \E n \in 0..(Short - 1), s \in Nat : Begins(b, n, s, k)

Own == HeadRead /\ (Read >= 10 => SignedWith(buf, VKeyNow))

SelfInv == SelfSigned => OwnSigner /\ Own

LEMMA SelfInit == Init => SelfInv
<1> SUFFICES ASSUME Init PROVE SelfInv
  OBVIOUS
<1>1. stack = <<>> /\ buf = <<>> /\ reg.signer = 0 /\ Len(stack) = 0
  BY DEF Init
<1>2. Read = 0
  BY ReadStart
<1>3. OwnSigner
  <2>1. 1..Len(stack) = {}
    BY <1>1, SMT
  <2> QED BY <1>1, <2>1 DEF OwnSigner
<1>4. At(0, "root")
  BY <1>1 DEF At, Top
<1>5. HeadRead /\ ~(Read >= 10)
  BY <1>1, <1>2, <1>4, SMT DEF HeadRead
<1> QED BY <1>3, <1>5 DEF SelfInv, Own

LEMMA AddedField ==
  ASSUME NEW b, Plain(b), NEW l \in Nat, Len(b) = l, NEW v \in Int
  PROVE  /\ Plain(b \o Type(v)) /\ Len(b \o Type(v)) = l + 1
         /\ v \in 0..255 => (b \o Type(v))[l + 1].v = v
         /\ Plain(Type(v)) /\ Len(Type(v)) = 1
<1> DEFINE c == C("field", v % 256)
<1>1. c \in Cell /\ (v \in 0..255 => c.v = v)
  <2>1. v % 256 \in Int /\ (v \in 0..255 => v % 256 = v)
    BY SMT
  <2> QED BY <2>1, CellFacts DEF Kind, C
<1>2. Plain(Type(v))
  BY TypeSimple, SimpleIsPlain
<1>3. Type(v) = <<c>>
  BY DEF Type
<1> HIDE DEF c
<1>4. Type(v) \in Seq(Cell) /\ Len(Type(v)) = 1 /\ Type(v)[1] = c
  BY <1>1, <1>3
<1>5. /\ Len(b \o Type(v)) = Len(b) + Len(Type(v))
      /\ \A i \in 1..Len(Type(v)) : (b \o Type(v))[Len(b) + i] = Type(v)[i]
  BY <1>4, ConcatFacts DEF Plain
<1>6. 1 \in 1..Len(Type(v))
  BY <1>4, SMT
<1> QED BY <1>1, <1>2, <1>4, <1>5, <1>6, ConcatPlain

LEMMA HeadGrows ==
  ASSUME NEW b \in Seq(Cell), NEW size \in Nat, NEW w, Plain(w), NEW m \in Nat, Len(w) = m,
         NEW n \in 0..(Short - 1), Started(b, n, size + n)
  PROVE  Started(b \o w, n, (size + m) + n)
<1>1. n \in Nat /\ size + n \in Nat /\ (size + n) + m = (size + m) + n
  BY BoundAssumption, SMT
<1> QED BY <1>1, StartedConcat

\* What the opening tag writes.
LEMMA BeginBuffer ==
  ASSUME Inv, NEW e, Begin(e)
  PROVE  /\ e.name = "certificate" => buf' = <<>>
         /\ (e.name # "certificate" /\ Sized(e)) => buf' = Append(buf \o Written(e), Left)
         /\ (e.name # "certificate" /\ ~Sized(e)) => buf' = buf \o Written(e)
<1>1. e.name = "certificate" => ~Sized(e)
  BY DEF SizedByName, Sized
<1> QED BY <1>1 DEF Begin

\* The stack after an opening tag.
LEMMA BeginAt ==
  ASSUME Inv, NEW e, Begin(e), NEW depth \in Nat, Len(stack) = depth
  PROVE  At(depth + 1, e.name)'
<1>1. /\ stack' # <<>> /\ Len(stack') = Len(stack) + 1 /\ stack'[Len(stack) + 1] = e
  BY BeginOpens
<1>2. Top' = stack'[Len(stack')].name
  BY <1>1 DEF Top
<1> QED BY <1>1, <1>2 DEF At

LEMMA HeadBegins ==
  ASSUME Inv, SelfSigned, OwnSigner, HeadRead, Read <= 9, NEW e, Begin(e)
  PROVE  HeadRead' /\ Read' <= 9
<1>1. /\ Cursor /\ Reading /\ e = doc[at] /\ e.tag = "open" /\ e.tag # "text" /\ doc' = doc
      /\ at' = at + 1 /\ reg' = RegAfterOpen(e) /\ reg \in Regs /\ buf \in Seq(Cell)
      /\ reg \in Regs /\ keys \in Keys
  BY DEF Inv, Begin, Opening, Goes, Opened, Sizes, KeyOrder
<1>2. Read \in Nat /\ Read' = Read + 1
  BY <1>1, ReadNext
<1>3. e \in Event /\ e.v \in Int /\ e.n \in Nat
  BY <1>1, EventAt, EventFacts
<1>4. \A depth \in Nat : Len(stack) = depth => At(depth + 1, e.name)'
  BY BeginAt
<1>5. reg'.pk = IF e.name = "public_key" THEN e.v ELSE reg.pk
  BY <1>1, <1>3, RegOpenFacts
<1>6. /\ e.name = "attribute" => stack'[3] = e /\ (KeyOpen' <=> e.v \in {0, 1})
      /\ e.name # "attribute" => (KeyOpen' <=> KeyOpen) /\ (KeyOpen => stack'[3] = stack[3])
  BY BeginOpens
<1>7. /\ (e.name = "attribute" /\ e.v = 0) => VKeyOpen'
      /\ (e.name # "attribute" /\ VKeyOpen) => VKeyOpen'
  BY <1>6 DEF VKeyOpen
<1>8. Plain(<<>>) /\ Len(<<>>) = 0
  BY NoneSimple, SimpleIsPlain
<1>9. \A w : w \o <<>> = w \/ w \notin Seq(Cell)
  OBVIOUS
<1>10. CASE Read = 0
  <2>1. e.name = "certificate"
    BY <1>1, <1>10, HeadNext
  <2>2. buf' = <<>> /\ At(1, "certificate")' /\ Read' = 1
    <3>1. 0 + 1 = 1 /\ Len(stack) = 0
      BY <1>10, SMT DEF HeadRead, At
    <3> QED BY <1>2, <1>4, <1>10, <2>1, <3>1, BeginBuffer
  <2> QED BY <2>2, SMT DEF HeadRead
<1>11. CASE Read = 1
  <2>1. e.name = "version" /\ ~Sized(e) /\ Written(e) = <<>>
    <3>1. e.name = "version"
      BY <1>1, <1>11, HeadNext
    <3> QED BY <3>1 DEF SizedByName, Sized, Written, RegionTags
  <2>2. buf' = <<>>
    <3>1. buf = <<>> /\ buf' = buf \o <<>>
      BY <1>11, <2>1, BeginBuffer DEF HeadRead
    <3> QED BY <3>1
  <2>3. At(2, "version")' /\ Read' = 2
    <3>1. 1 + 1 = 2 /\ Len(stack) = 1
      BY <1>11, SMT DEF HeadRead, At
    <3> QED BY <1>2, <1>4, <1>11, <2>1, <3>1
  <2> QED BY <2>2, <2>3, SMT DEF HeadRead
<1>12. CASE Read = 3
  <2>1. e.name = "signer" /\ e.v = 0 /\ ~Sized(e) /\ Written(e) = Type(0)
    <3>1. e.name = "signer" /\ e.v = 0
      BY <1>1, <1>12, HeadNext
    <3> QED BY <3>1 DEF SizedByName, Sized, Written, RegionTags
  <2>2. Plain(buf') /\ Len(buf') = 2 /\ buf'[2].v = 0
    <3>1. Plain(buf) /\ Len(buf) = 1 /\ buf' = buf \o Type(0) /\ 1 + 1 = 2
      BY <1>12, <2>1, BeginBuffer, SMT DEF HeadRead
    <3>2. 0 \in Int /\ 1 \in Nat /\ 0 \in 0..255
      BY SMT
    <3>3. /\ Plain(buf \o Type(0)) /\ Len(buf \o Type(0)) = 1 + 1
          /\ (buf \o Type(0))[1 + 1].v = 0
      BY <3>1, <3>2, AddedField
    <3> QED BY <3>1, <3>3
  <2>3. At(2, "signer")' /\ Read' = 4
    <3>1. 1 + 1 = 2 /\ 3 + 1 = 4 /\ Len(stack) = 1
      BY <1>12, SMT DEF HeadRead, At
    <3> QED BY <1>2, <1>4, <1>12, <2>1, <3>1
  <2> QED BY <2>2, <2>3, SMT DEF HeadRead
<1>13. CASE Read = 5
  <2>1. e.name = "subject" /\ e.n < Short /\ Sized(e)
        /\ Written(e) = Type(e.v) \o Num(e.n) \o Text(e.n)
    <3>1. e.name = "subject" /\ e.n < Short
      BY <1>1, <1>13, HeadNext
    <3> QED BY <3>1 DEF SizedByName, Sized, Written, RegionTags
  <2>2. HeadOf(5)'
    <3>1. Plain(buf) /\ Len(buf) = 2 /\ buf[2].v = 0
      BY <1>13 DEF HeadRead
    <3>2. buf' = Append(buf \o (Type(e.v) \o Num(e.n) \o Text(e.n)), Left)
      BY <2>1, BeginBuffer
    <3>3. Started(buf', e.n, 5 + e.n)
      BY <1>1, <1>3, <2>1, <3>1, <3>2, SubjectStarted
    <3>4. e.n \in 0..(Short - 1)
      BY <1>3, <2>1, BoundAssumption, SMT
    <3> QED BY <3>3, <3>4 DEF HeadOf
  <2>3. At(2, "subject")' /\ Read' = 6
    <3>1. 1 + 1 = 2 /\ 5 + 1 = 6 /\ Len(stack) = 1
      BY <1>13, SMT DEF HeadRead, At
    <3> QED BY <1>2, <1>4, <1>13, <2>1, <3>1
  <2> QED BY <2>2, <2>3, SMT DEF HeadRead
<1>14. CASE Read = 6
  <2>1. e.name = "attribute" /\ e.v = 0 /\ ~Sized(e) /\ Written(e) = Type(0)
    <3>1. e.name = "attribute" /\ e.v = 0
      BY <1>1, <1>14, HeadNext
    <3> QED BY <3>1 DEF SizedByName, Sized, Written, RegionTags, AidList, AidSspList
  <2>2. HeadOf(6)'
    <3>1. PICK n \in 0..(Short - 1) : Started(buf, n, 5 + n)
      BY <1>14 DEF HeadRead, HeadOf
    <3>2. buf' = buf \o Type(0)
      BY <2>1, BeginBuffer
    <3>3. 0 \in Int /\ 0 \in Nat /\ 1 \in Nat /\ 5 \in Nat /\ 5 + 1 = 6
      BY SMT
    <3>4. Plain(Type(0)) /\ Len(Type(0)) = 1
      BY <1>8, <3>3, AddedField
    <3>5. Started(buf', n, (5 + 1) + n)
      BY <1>1, <3>1, <3>2, <3>3, <3>4, HeadGrows
    <3> QED BY <3>3, <3>5 DEF HeadOf
  <2>3. At(3, "attribute")' /\ Read' = 7 /\ VKeyOpen'
    <3>1. 2 + 1 = 3 /\ 6 + 1 = 7 /\ Len(stack) = 2
      BY <1>14, SMT DEF HeadRead, At
    <3> QED BY <1>2, <1>4, <1>7, <1>14, <2>1, <3>1
  <2> QED BY <2>2, <2>3, SMT DEF HeadRead
<1>15. CASE Read = 7
  <2>1. e.name = "public_key" /\ e.v = 0 /\ ~Sized(e) /\ Written(e) = Type(0)
    <3>1. e.name = "public_key" /\ e.v = 0
      BY <1>1, <1>15, HeadNext
    <3> QED BY <3>1, SMT DEF SizedByName, Sized, Written, RegionTags
  <2>2. HeadOf(7)'
    <3>1. PICK n \in 0..(Short - 1) : Started(buf, n, 6 + n)
      BY <1>15 DEF HeadRead, HeadOf
    <3>2. buf' = buf \o Type(0)
      BY <2>1, BeginBuffer
    <3>3. 0 \in Int /\ 0 \in Nat /\ 1 \in Nat /\ 6 \in Nat /\ 6 + 1 = 7
      BY SMT
    <3>4. Plain(Type(0)) /\ Len(Type(0)) = 1
      BY <1>8, <3>3, AddedField
    <3>5. Started(buf', n, (6 + 1) + n)
      BY <1>1, <3>1, <3>2, <3>3, <3>4, HeadGrows
    <3> QED BY <3>3, <3>5 DEF HeadOf
  <2>3. At(4, "public_key")' /\ Read' = 8 /\ VKeyOpen' /\ reg'.pk = 0
    <3>1. 3 + 1 = 4 /\ 7 + 1 = 8 /\ Len(stack) = 3 /\ VKeyOpen
      BY <1>15, SMT DEF HeadRead, At
    <3> QED BY <1>2, <1>4, <1>5, <1>7, <1>15, <2>1, <3>1
  <2> QED BY <2>2, <2>3, SMT DEF HeadRead
<1>16. CASE Read = 8
  <2>1. e.name = "eccpoint" /\ ~Sized(e) /\ Written(e) = <<>>
    <3>1. e.name = "eccpoint"
      BY <1>1, <1>16, HeadNext
    <3> QED BY <3>1 DEF SizedByName, Sized, Written, RegionTags
  <2>2. HeadOf(7)'
    <3>1. buf' = buf
      BY <1>1, <1>9, <2>1, BeginBuffer
    <3> QED BY <1>16, <3>1 DEF HeadRead, HeadOf
  <2>3. At(5, "eccpoint")' /\ Read' = 9 /\ VKeyOpen' /\ reg'.pk = 0
    <3>1. 4 + 1 = 5 /\ 8 + 1 = 9 /\ Len(stack) = 4 /\ VKeyOpen /\ reg.pk = 0
      BY <1>16, SMT DEF HeadRead, At
    <3> QED BY <1>2, <1>4, <1>5, <1>7, <1>16, <2>1, <3>1
  <2> QED BY <2>2, <2>3, SMT DEF HeadRead
<1>17. Read # 2 /\ Read # 4 /\ Read # 9
  BY <1>1, HeadNext
<1>18. Read \in {0, 1, 3, 5, 6, 7, 8} /\ Read' <= 9
  <2> DEFINE r == Read
  <2>1. r \in Nat /\ r <= 9 /\ r # 2 /\ r # 4 /\ r # 9 /\ Read' = r + 1
    BY <1>2, <1>17
  <2> HIDE DEF r
  <2>2. r \in {0, 1, 3, 5, 6, 7, 8} /\ r + 1 <= 9
    BY <2>1, SMT
  <2> QED BY <2>1, <2>2 DEF r
<1> QED BY <1>10, <1>11, <1>12, <1>13, <1>14, <1>15, <1>16, <1>18

\* The signers that are open.
LEMMA OwnBegins ==
  ASSUME Inv, SelfSigned, OwnSigner, NEW e, Begin(e)
  PROVE  OwnSigner'
<1>1. /\ Cursor /\ Reading /\ e = doc[at] /\ e.tag = "open" /\ e.tag # "text"
      /\ reg' = RegAfterOpen(e) /\ reg \in Regs
  BY DEF Inv, Begin, Opening, Opened
<1>2. e \in Event
  BY <1>1, EventAt
<1>3. e.name = "signer" => e.v = 0
  BY <1>1, HeadNext
<1>4. reg'.signer = 0
  BY <1>1, <1>2, <1>3, RegOpenFacts DEF OwnSigner
<1>5. /\ Len(stack') = Len(stack) + 1 /\ Len(stack) \in Nat /\ stack'[Len(stack) + 1] = e
      /\ \A i \in 1..Len(stack) : stack'[i] = stack[i]
  BY BeginOpens
<1>6. \A i \in 1..Len(stack') : i \in 1..Len(stack) \/ i = Len(stack) + 1
  BY <1>5, SMT
<1>7. ASSUME NEW i \in 1..Len(stack'), stack'[i].name = "signer" PROVE stack'[i].v = 0
  BY <1>3, <1>5, <1>6, <1>7 DEF OwnSigner
<1> QED BY <1>4, <1>7 DEF OwnSigner

LEMMA OwnCloses ==
  ASSUME Opened, OwnSigner, NEW e, stack # <<>>, e.name = Top,
         stack' = SubSeq(stack, 1, Len(stack) - 1), reg' = RegAfterClose(e) \/ reg' = reg
  PROVE  OwnSigner'
<1>1. reg'.signer = 0
  BY RegCloseFacts DEF OwnSigner, Opened
<1>2. /\ Len(stack') = Len(stack) - 1 /\ Len(stack) \in Nat
      /\ \A i \in 1..(Len(stack) - 1) : stack'[i] = stack[i]
  BY CloseOpens
<1>3. ASSUME NEW i \in 1..Len(stack'), stack'[i].name = "signer" PROVE stack'[i].v = 0
  <2>1. i \in 1..(Len(stack) - 1) /\ i \in 1..Len(stack)
    BY <1>2, SMT
  <2> QED BY <1>2, <1>3, <2>1 DEF OwnSigner
<1> QED BY <1>1, <1>3 DEF OwnSigner

\* The only tag that can be open alone.
LEMMA AloneIs ==
  ASSUME NEW s, Shape(s), Len(s) = 1
  PROVE  TopOf(s) = "certificate"
<1>1. s # <<>> /\ 1 \in 1..Len(s)
  <2>1. Len(<<>>) = 0 /\ 1 \in 1..1 /\ 0 # 1
    BY SMT
  <2> QED BY <2>1
<1>2. s[1].name \in {"certificate"}
  BY <1>1 DEF Shape, NamesAt
<1> QED BY <1>1, <1>2 DEF TopOf

LEMMA HeadEnds ==
  ASSUME Inv, SelfSigned, OwnSigner, HeadRead, Read <= 9, NEW e, End(e)
  PROVE  HeadRead' /\ (Read' >= 10 => SignedWith(buf, VKeyNow)')
<1>1. /\ Cursor /\ Reading /\ e = doc[at] /\ e.tag = "close" /\ e.tag # "text" /\ doc' = doc
      /\ at' = at + 1 /\ Opened /\ stack # <<>> /\ e.name = Top
      /\ stack' = SubSeq(stack, 1, Len(stack) - 1) /\ reg' = RegAfterClose(e)
      /\ buf \in Seq(Cell) /\ keys \in Keys /\ reg \in Regs /\ stack \in Seq(Event)
  BY DEF Inv, End, Closing, Goes, Opened, Sizes, KeyOrder, Shape
<1>2. Read \in Nat /\ Read' = Read + 1
  BY <1>1, ReadNext
<1>3. Opened'
  BY <1>1, CloseOpened
<1>4. Len(stack') = Len(stack) - 1
  BY <1>1, CloseOpens
<1>5. Len(stack) = 2 => At(1, "certificate")'
  <2>1. SUFFICES ASSUME Len(stack) = 2 PROVE At(1, "certificate")'
    OBVIOUS
  <2>2. Len(stack') = 1
    BY <1>4, <2>1, SMT
  <2>3. TopOf(stack') = "certificate"
    BY <1>3, <2>2, AloneIs DEF Opened
  <2>4. Top' = TopOf(stack')
    BY DEF Top, TopOf
  <2> QED BY <2>2, <2>3, <2>4 DEF At
<1> DEFINE value == stack[Len(stack)].v
<1>6. value \in Int
  BY <1>1, TopEvent, EventFacts
<1>7. e.name \in {"version", "signer", "eccpoint"} => buf' = buf \o WrittenAtEnd(e, value)
  BY DEF End, Applies
<1>8. Plain(<<>>) /\ Len(<<>>) = 0 /\ 0 \in Nat
  BY NoneSimple, SimpleIsPlain, SMT
<1> HIDE DEF value
<1>9. CASE Read = 2
  <2>1. e.name = "version" /\ WrittenAtEnd(e, value) = Type(value)
    <3>1. e.name = "version"
      BY <1>1, <1>9, HeadNext
    <3> QED BY <3>1 DEF WrittenAtEnd
  <2>2. buf' = <<>> \o Type(value)
    BY <1>7, <1>9, <2>1 DEF HeadRead
  <2>3. Plain(buf') /\ Len(buf') = 1
    <3>1. Plain(<<>> \o Type(value)) /\ Len(<<>> \o Type(value)) = 0 + 1
      BY <1>6, <1>8, AddedField
    <3>2. 0 + 1 = 1
      BY SMT
    <3> QED BY <2>2, <3>1, <3>2
  <2>4. At(1, "certificate")' /\ Read' = 3
    <3>1. 2 + 1 = 3 /\ Len(stack) = 2
      BY <1>9, SMT DEF HeadRead, At
    <3> QED BY <1>2, <1>5, <1>9, <3>1
  <2> QED BY <2>3, <2>4, SMT DEF HeadRead
<1>10. CASE Read = 4
  <2>1. At(2, "signer") /\ Plain(buf) /\ Len(buf) = 2 /\ buf[2].v = 0
    BY <1>10 DEF HeadRead
  <2>2. value = 0
    <3>1. Len(stack) = 2 /\ 2 \in 1..2
      BY <2>1, SMT DEF At
    <3>2. stack[2].name = "signer"
      BY <1>1, <2>1, <3>1 DEF At, Top
    <3> QED BY <3>1, <3>2 DEF OwnSigner, value
  <2>3. e.name = "signer" /\ WrittenAtEnd(e, value) = <<>>
    <3>1. e.name = "signer"
      BY <1>1, <1>10, HeadNext
    <3> QED BY <2>2, <3>1 DEF WrittenAtEnd
  <2>4. buf' = buf
    <3>1. buf' = buf \o <<>>
      BY <1>7, <2>3
    <3> QED BY <1>1, <3>1
  <2>5. At(1, "certificate")' /\ Read' = 5
    <3>1. 4 + 1 = 5 /\ Len(stack) = 2
      BY <2>1, SMT DEF At
    <3> QED BY <1>2, <1>5, <1>10, <3>1
  <2> QED BY <2>1, <2>4, <2>5, SMT DEF HeadRead
<1>11. CASE Read = 9
  <2>1. HeadOf(7) /\ VKeyOpen /\ reg.pk = 0
    BY <1>11 DEF HeadRead
  <2>2. e.name = "eccpoint" /\ WrittenAtEnd(e, value) = Point(value, PointKey)
    <3>1. e.name = "eccpoint"
      BY <1>1, <1>11, HeadNext
    <3> QED BY <3>1 DEF WrittenAtEnd
  <2>3. PointKey \in Int /\ PointKey # 0
    <3>1. keys.next >= 4
      BY KeyParts DEF Inv
    <3>2. reg.pk <= 1 /\ keys.next # 0 /\ DataKey # 0
      BY <1>1, <2>1, <3>1, SMT DEF DataKey, Keys
    <3> QED BY <1>1, <3>2, KeyFacts DEF PointKey
  <2>4. VKeyOpen' /\ VKeyNow' = PointKey
    <3>1. VKeyOpen'
      BY <1>1, <2>1, <2>2, CloseOpens DEF VKeyOpen
    <3>2. keys' = WithPoint
      BY <2>2 DEF End, KeysSet
    <3>3. keys'.cur = PointKey
      BY <3>2 DEF WithPoint
    <3> QED BY <3>1, <3>3 DEF VKeyNow
  <2>5. PICK n \in 0..(Short - 1) : Started(buf, n, 7 + n)
    BY <2>1 DEF HeadOf
  <2>6. n \in Nat
    BY SMT
  <2>7. buf' = buf \o Point(value, PointKey)
    BY <1>7, <2>2
  <2>8. Begins(buf', n, 0, PointKey) /\ Signs(buf', PointKey)
    BY <1>1, <1>6, <2>3, <2>5, <2>6, <2>7, StartedBegins
  <2>9. SignedWith(buf, VKeyNow)'
    BY <1>8, <2>3, <2>4, <2>8 DEF SignedWith
  <2>10. Read' = 10
    BY <1>2, <1>11, SMT
  <2> QED BY <2>9, <2>10, SMT DEF HeadRead
<1>12. Read \in {2, 4, 9}
  <2> DEFINE r == Read
  <2>1. /\ r # 0 /\ r # 1 /\ r # 3 /\ r # 5 /\ r # 6 /\ r # 7 /\ r # 8
    BY <1>1, HeadNext
  <2>2. r \in Nat /\ r <= 9
    BY <1>2
  <2> HIDE DEF r
  <2>3. r \in {2, 4, 9}
    BY <2>1, <2>2, SMT
  <2> QED BY <2>3 DEF r
<1> QED BY <1>9, <1>10, <1>11, <1>12

\* The rest of the certificate.
LEMMA SignedConcat ==
  ASSUME NEW b \in Seq(Cell), NEW w \in Seq(Cell), NEW k, SignedWith(b, k), Signs(w, k)
  PROVE  SignedWith(b \o w, k)
<1>1. PICK n \in 0..(Short - 1), s \in Nat : Begins(b, n, s, k)
  BY DEF SignedWith
<1>2. n \in Nat
  BY SMT
<1>3. Begins(b \o w, n, s, k)
  BY <1>1, <1>2, BeginsConcat
<1>4. Signs(b \o w, k)
  BY SignsConcat DEF SignedWith
<1> QED BY <1>3, <1>4 DEF SignedWith

LEMMA SignedPushed ==
  ASSUME NEW b \in Seq(Cell), NEW k, SignedWith(b, k)
  PROVE  SignedWith(Append(b, Left), k)
<1>1. PICK n \in 0..(Short - 1), s \in Nat : Begins(b, n, s, k)
  BY DEF SignedWith
<1>2. n \in Nat
  BY SMT
<1>3. Begins(Append(b, Left), n, s, k)
  BY <1>1, <1>2, BeginsPushed
<1>4. Signs(Append(b, Left), k)
  BY SignsPushed DEF SignedWith
<1> QED BY <1>3, <1>4 DEF SignedWith

LEMMA SignedResized ==
  ASSUME NEW b \in Seq(Cell), NEW q \in 1..Len(b), b[q] = Left, Len(b) - q \in Int,
         NEW k, SignedWith(b, k)
  PROVE  SignedWith(Resized(b, q, Num(Len(b) - q)), k)
<1>1. PICK n \in 0..(Short - 1), s \in Nat : Begins(b, n, s, k)
  BY DEF SignedWith
<1>2. n \in Nat
  BY SMT
<1>3. \E t \in Nat : Begins(Resized(b, q, Num(Len(b) - q)), n, t, k)
  BY <1>1, <1>2, BeginsResized
<1>4. Plain(Num(Len(b) - q)) /\ Len(Num(Len(b) - q)) >= 1
  BY NumSimple, SimpleIsPlain
<1>5. Signs(Resized(b, q, Num(Len(b) - q)), k)
  BY <1>4, SignsResized DEF SignedWith
<1> QED BY <1>3, <1>5 DEF SignedWith

\* The verification key stays what it is: a tag that opens loads no other one.
LEMMA BeginSameKey ==
  ASSUME Inv, SelfSigned, Read >= 10, NEW e, Begin(e)
  PROVE  VKeyNow' = VKeyNow
<1>1. /\ Cursor /\ Reading /\ e = doc[at] /\ e.tag = "open" /\ e.tag # "text" /\ keys \in Keys
      /\ IF e.name = "attribute" /\ e.v \in {0, 1} THEN LoadKey(e) ELSE keys' = keys
  BY DEF Inv, Begin, Opening, KeyOrder
<1>2. CASE e.name = "attribute"
  <2>1. e.v # 0
    <3>1. e.v = 0 => Read = 6
      BY <1>1, <1>2, HeadNext
    <3>2. Read # 6
      BY SMT
    <3> QED BY <3>1, <3>2
  <2>2. ~KeyOpen /\ stack'[3] = e
    BY <1>2, BeginOpens
  <2>3. ~VKeyOpen /\ ~VKeyOpen'
    BY <2>1, <2>2 DEF VKeyOpen
  <2>4. keys'.v = keys.v
    <3>1. CASE LoadKey(e)
      BY <1>1, <3>1 DEF LoadKey, Keys
    <3>2. CASE keys' = keys
      BY <3>2
    <3> QED BY <1>1, <3>1, <3>2
  <2> QED BY <2>3, <2>4 DEF VKeyNow
<1>3. CASE e.name # "attribute"
  <2>1. keys' = keys
    BY <1>1, <1>3
  <2>2. VKeyOpen' <=> VKeyOpen
    BY <1>3, BeginOpens DEF VKeyOpen
  <2> QED BY <2>1, <2>2 DEF VKeyNow
<1> QED BY <1>2, <1>3

\* The point of another key does not replace it, and its attribute hands it on.
LEMMA EndSameKey ==
  ASSUME Inv, VKeyNow # 0, NEW e, End(e)
  PROVE  VKeyNow' = VKeyNow
<1>1. /\ Opened /\ stack # <<>> /\ e.name = Top /\ KeysSet(e)
      /\ stack' = SubSeq(stack, 1, Len(stack) - 1)
  BY DEF Inv, End, Closing
<1>2. CASE e.name = "attribute"
  <2>1. ~KeyOpen' /\ (KeyOpen <=> reg.sa \in {0, 1}) /\ (KeyOpen => stack[3].v = reg.sa)
    BY <1>1, <1>2, CloseOpens
  <2>2. VKeyNow' = keys'.v
    BY <2>1 DEF VKeyNow, VKeyOpen
  <2>3. VKeyOpen <=> reg.sa = 0
    BY <2>1 DEF VKeyOpen
  <2>4. CASE reg.sa = 0
    <3>1. keys' = AsVKey
      BY <1>1, <1>2, <2>4 DEF KeysSet
    <3> QED BY <2>2, <2>3, <2>4, <3>1 DEF VKeyNow, AsVKey
  <2>5. CASE reg.sa # 0
    <3>1. keys' = AsEKey \/ keys' = keys
      BY <1>1, <1>2, <2>5 DEF KeysSet
    <3>2. keys'.v = keys.v
      BY <3>1 DEF AsEKey
    <3> QED BY <2>2, <2>3, <2>5, <3>2 DEF VKeyNow
  <2> QED BY <2>4, <2>5
<1>3. CASE e.name # "attribute"
  <2>1. VKeyOpen' <=> VKeyOpen
    <3>1. (KeyOpen' <=> KeyOpen) /\ (KeyOpen => stack'[3] = stack[3])
      BY <1>1, <1>3, CloseOpens
    <3> QED BY <3>1 DEF VKeyOpen
  <2>2. CASE e.name = "eccpoint"
    <3>1. keys' = WithPoint
      BY <1>1, <2>2 DEF KeysSet
    <3>2. keys'.v = keys.v /\ keys'.cur = PointKey
      BY <3>1 DEF WithPoint
    <3>3. keys.cur # 0 => PointKey = keys.cur
      BY DEF PointKey
    <3> QED BY <2>1, <3>2, <3>3 DEF VKeyNow
  <2>3. CASE e.name # "eccpoint"
    <3>1. keys' = keys
      BY <1>1, <1>3, <2>3 DEF KeysSet
    <3> QED BY <2>1, <3>1 DEF VKeyNow
  <2> QED BY <2>2, <2>3
<1> QED BY <1>2, <1>3

\* A signature is made where no attribute is open, with the verification key.
LEMMA BeginSigns ==
  ASSUME Inv, SelfSigned, OwnSigner, Read >= 10, SignedWith(buf, VKeyNow), NEW e, Begin(e)
  PROVE  SignedWith(buf, VKeyNow)'
<1> DEFINE k == VKeyNow
           w == Written(e)
<1>1. /\ Cursor /\ Reading /\ e = doc[at] /\ e.tag = "open" /\ e.tag # "text" /\ keys \in Keys
      /\ Shape(stack) /\ reg \in Regs /\ buf \in Seq(Cell) /\ e.name \in Children(TopOf(stack))
  BY TopIs DEF Inv, Begin, Opening, KeyOrder, Opened, Sizes, Refuses
<1>2. e \in Event
  BY <1>1, EventAt
<1>3. e.name # "certificate"
  <2>1. e.name = "certificate" => Read = 0
    BY <1>1, HeadNext
  <2>2. Read # 0
    BY SMT
  <2> QED BY <2>1, <2>2
<1>4. w \in Seq(Cell) /\ Signs(w, k)
  <2>1. CASE e.name # "signature"
    BY <1>1, <1>2, <2>1, WrittenFacts, PlainSigns
  <2>2. CASE e.name = "signature"
    <3>1. "signature" \in NamesAt(Len(stack) + 1) /\ Len(stack) \in Nat /\ Len(stack) <= 4
      BY <1>1, <2>2, ChildFacts
    <3>2. ~(Len(stack) >= 3)
      <4> DEFINE l == Len(stack)
      <4> SUFFICES ASSUME l >= 3 PROVE FALSE
        OBVIOUS
      <4>1. l \in Nat /\ l <= 4 /\ "signature" \in NamesAt(l + 1)
        BY <3>1
      <4> HIDE DEF l
      <4>2. l + 1 = 4 \/ l + 1 = 5
        BY <4>1, SMT
      <4>3. "signature" \notin NamesAt(4) /\ "signature" \notin NamesAt(5)
        BY SMT DEF NamesAt, AttributeTags, RegionTags
      <4> QED BY <4>1, <4>2, <4>3
    <3>3. k = keys.v
      BY <3>2 DEF VKeyNow, VKeyOpen, KeyOpen
    <3>4. SigningKey = k /\ k \in Int
      BY <1>1, <3>3, KeyFacts DEF SigningKey, OwnSigner
    <3>5. w = Type(0) \o <<C("sig", k)>>
      BY <2>2, <3>4 DEF Written, RegionTags
    <3> HIDE DEF k
    <3>6. Signs(w, k)
      BY <3>4, <3>5, SignatureSigns
    <3> QED BY <1>1, <1>2, <3>6, WrittenFacts DEF SizeFree
  <2> QED BY <2>1, <2>2
<1>5. VKeyNow' = k
  BY BeginSameKey
<1> HIDE DEF k, w
<1>6. buf \o w \in Seq(Cell) /\ SignedWith(buf \o w, k)
  BY <1>1, <1>4, ConcatFacts, SignedConcat DEF k
<1>7. SignedWith(Append(buf \o w, Left), k)
  BY <1>6, SignedPushed
<1>8. buf' = Append(buf \o w, Left) \/ buf' = buf \o w
  BY <1>3, BeginBuffer DEF w
<1> QED BY <1>5, <1>6, <1>7, <1>8

LEMMA EndSigns ==
  ASSUME Inv, SignedWith(buf, VKeyNow), NEW e, End(e)
  PROVE  SignedWith(buf, VKeyNow)'
<1>1. buf \in Seq(Cell) /\ VKeyNow # 0
  BY DEF Inv, Sizes, SignedWith
<1>2. VKeyNow' = VKeyNow
  BY <1>1, EndSameKey
<1>3. SignedWith(buf', VKeyNow)
  <2>1. CASE \E q \in 1..Len(buf) : /\ buf[q] = Left /\ Len(buf) - q \in Int
                                   /\ buf' = Resized(buf, q, Num(Len(buf) - q))
    BY <1>1, <2>1, SignedResized
  <2>2. CASE /\ buf' = buf \o WrittenAtEnd(e, stack[Len(stack)].v)
             /\ e \in Event /\ stack[Len(stack)].v \in Int
             /\ Plain(WrittenAtEnd(e, stack[Len(stack)].v))
    BY <1>1, <2>2, PlainSigns, SignedConcat
  <2> QED BY <2>1, <2>2, EndBuffer
<1> QED BY <1>2, <1>3

LEMMA BeginOwns ==
  ASSUME Inv, SelfSigned, OwnSigner, Own, NEW e, Begin(e)
  PROVE  OwnSigner' /\ Own'
<1>1. Read \in Nat /\ Read' = Read + 1
  BY ReadNext DEF Inv, Begin, Opening, Goes
<1>2. OwnSigner'
  BY OwnBegins
<1>3. CASE Read <= 9
  <2>1. HeadRead' /\ Read' <= 9
    BY <1>3, HeadBegins DEF Own
  <2>2. ~(Read' >= 10)
    BY <1>1, <2>1, SMT
  <2> QED BY <1>2, <2>1, <2>2 DEF Own
<1>4. CASE ~(Read <= 9)
  <2>1. Read >= 10 /\ Read' >= 10
    BY <1>1, <1>4, SMT
  <2>2. SignedWith(buf, VKeyNow)'
    BY <2>1, BeginSigns DEF Own
  <2>3. HeadRead'
    BY <2>1, SMT DEF HeadRead
  <2> QED BY <1>2, <2>2, <2>3 DEF Own
<1> QED BY <1>3, <1>4

LEMMA EndOwns ==
  ASSUME Inv, SelfSigned, OwnSigner, Own, NEW e, End(e)
  PROVE  OwnSigner' /\ Own'
<1>1. Read \in Nat /\ Read' = Read + 1
  BY ReadNext DEF Inv, End, Closing, Goes
<1>2. OwnSigner'
  BY OwnCloses DEF Inv, End, Closing
<1>3. CASE Read <= 9
  BY <1>2, <1>3, HeadEnds DEF Own
<1>4. CASE ~(Read <= 9)
  <2>1. Read >= 10 /\ Read' >= 10
    BY <1>1, <1>4, SMT
  <2>2. SignedWith(buf, VKeyNow)'
    BY <2>1, EndSigns DEF Own
  <2>3. HeadRead'
    BY <2>1, SMT DEF HeadRead
  <2> QED BY <1>2, <2>2, <2>3 DEF Own
<1> QED BY <1>3, <1>4

\* The certificate ends, which is not in the head.
LEMMA FinishOwns ==
  ASSUME Inv, SelfSigned, OwnSigner, Own, NEW e, Finish(e)
  PROVE  OwnSigner' /\ Own'
<1>1. /\ Cursor /\ Reading /\ e = doc[at] /\ e.tag = "close" /\ e.tag # "text" /\ doc' = doc
      /\ at' = at + 1 /\ Opened /\ stack # <<>> /\ e.name = Top /\ e.name = "certificate"
      /\ stack' = SubSeq(stack, 1, Len(stack) - 1) /\ UNCHANGED <<buf, reg, keys>>
  BY DEF Inv, Finish, Closing
<1>2. Read \in Nat /\ Read' = Read + 1
  BY <1>1, ReadNext
<1>3. OwnSigner'
  BY <1>1, OwnCloses
<1>4. Read >= 10 /\ Read' >= 10
  <2> DEFINE r == Read
  <2>1. /\ r # 0 /\ r # 1 /\ r # 2 /\ r # 3 /\ r # 4 /\ r # 5 /\ r # 6 /\ r # 7 /\ r # 8 /\ r # 9
    BY <1>1, HeadNext
  <2>2. r \in Nat /\ Read' = r + 1
    BY <1>2
  <2> HIDE DEF r
  <2>3. r >= 10 /\ r + 1 >= 10
    BY <2>1, <2>2, SMT
  <2> QED BY <2>2, <2>3 DEF r
<1>5. VKeyNow' = VKeyNow
  <2>1. (KeyOpen' <=> KeyOpen) /\ (KeyOpen => stack'[3] = stack[3])
    BY <1>1, CloseOpens
  <2> QED BY <1>1, <2>1 DEF VKeyNow, VKeyOpen
<1>6. SignedWith(buf, VKeyNow)'
  BY <1>1, <1>4, <1>5 DEF Own
<1>7. HeadRead'
  BY <1>4, SMT DEF HeadRead
<1> QED BY <1>3, <1>6, <1>7 DEF Own

\* In the head there is nothing to skip but texts, and no ssp to fill.
LEMMA HeadContent ==
  ASSUME Inv, SelfSigned, HeadRead, Read <= 9, Content
  PROVE  doc[at].tag = "text" /\ buf' = buf
<1>1. Cursor /\ Reading /\ Read \in Nat
  BY ReadNext, TagsNext DEF Inv, Content
<1>2. \/ Read \in {0, 1, 3, 5, 6, 7, 8} \/ Read \in {2, 4, 9}
  <2> DEFINE r == Read
  <2>1. r \in Nat /\ r <= 9
    BY <1>1
  <2> HIDE DEF r
  <2>2. r \in {0, 1, 3, 5, 6, 7, 8} \/ r \in {2, 4, 9}
    BY <2>1, SMT
  <2> QED BY <2>2 DEF r
<1>3. /\ Read \in {0, 1, 3, 5, 6, 7, 8} =>
           Top \in {"root", "certificate", "subject", "attribute", "public_key"}
      /\ Read = 2 => Top = "version" /\ Len(stack) = 2
      /\ Read = 4 => Top = "signer" /\ Len(stack) = 2
      /\ Read = 9 => Top = "eccpoint" /\ Len(stack) = 5
  BY DEF HeadRead, At
<1>4. buf' = buf
  <2>1. Top # "ssp"
    BY <1>2, <1>3
  <2> QED BY <2>1 DEF Content
<1>5. ASSUME doc[at].tag # "text" PROVE FALSE
  <2>1. Waiting /\ ~Closing(doc[at])
    BY <1>5 DEF Content
  <2>2. Read \notin {0, 1, 3, 5, 6, 7, 8}
    <3>1. \A n \in {"root", "certificate", "subject", "attribute", "public_key"} : Children(n) # {}
      BY DEF Children, Parts, AttributeTags
    <3> QED BY <1>3, <2>1, <3>1 DEF Waiting
  <2>3. doc[at].tag = "close" /\ doc[at].name = Top
    BY <1>1, <1>2, <1>3, <1>5, <2>2, HeadNext
  <2> QED BY <1>1, <2>1, <2>3 DEF Closing, Waiting
<1> QED BY <1>4, <1>5

LEMMA ContentOwns ==
  ASSUME Inv, SelfSigned, OwnSigner, Own, Content
  PROVE  OwnSigner' /\ Own'
<1>1. /\ Cursor /\ Reading /\ doc' = doc /\ at' = at + 1 /\ stack' = stack /\ keys' = keys
      /\ buf \in Seq(Cell) /\ reg \in Regs
      /\ buf' = IF Top = "ssp" THEN buf \o Text(doc[at].n) ELSE buf
  BY DEF Inv, Content, Goes, Sizes, Opened
<1>2. reg'.signer = reg.signer /\ reg'.pk = reg.pk
  BY <1>1 DEF Content, Regs
<1>3. Read \in Nat /\ Read' \in {Read, Read + 1}
  BY <1>1, ReadNext
<1>4. OwnSigner'
  BY <1>1, <1>2 DEF OwnSigner
<1>5. VKeyNow' = VKeyNow /\ (VKeyOpen' <=> VKeyOpen)
  BY <1>1 DEF VKeyNow, VKeyOpen, KeyOpen
<1>6. CASE Read <= 9
  <2>1. Read' = Read /\ buf' = buf
    BY <1>1, <1>6, ReadNext, HeadContent DEF Own
  <2>2. \A d, n : At(d, n)' <=> At(d, n)
    BY <1>1 DEF At, Top
  <2>3. \A l : HeadOf(l)' <=> HeadOf(l)
    BY <2>1 DEF HeadOf
  <2>4. HeadRead'
    BY <1>2, <1>5, <2>1, <2>2, <2>3 DEF Own, HeadRead
  <2>5. ~(Read' >= 10)
    BY <1>3, <1>6, <2>1, SMT
  <2> QED BY <1>4, <2>4, <2>5 DEF Own
<1>7. CASE ~(Read <= 9)
  <2>1. Read >= 10 /\ Read' >= 10
    BY <1>3, <1>7, SMT
  <2>2. Plain(Text(doc[at].n))
    BY <1>1, EventAt, EventFacts, TextSimple, SimpleIsPlain
  <2>3. SignedWith(buf \o Text(doc[at].n), VKeyNow)
    BY <1>1, <2>1, <2>2, PlainSigns, SignedConcat DEF Own
  <2>4. SignedWith(buf, VKeyNow)'
    BY <1>1, <1>5, <2>1, <2>3 DEF Own
  <2>5. HeadRead'
    BY <2>1, SMT DEF HeadRead
  <2> QED BY <1>4, <2>4, <2>5 DEF Own
<1> QED BY <1>6, <1>7

LEMMA SelfNext == Inv /\ SelfInv /\ [Next]_vars => SelfInv'
<1> SUFFICES ASSUME Inv, SelfInv, [Next]_vars PROVE SelfInv'
  OBVIOUS
<1>1. doc' = doc
  BY DEF Next, Begin, End, Finish, Content, Fail, Stop, EndOfFile, Ends, Goes, vars
<1>2. (\A i : TagsUpTo(i)' = TagsUpTo(i)) /\ \A i, n : OpensAt(i, n)' <=> OpensAt(i, n)
  BY <1>1 DEF TagsUpTo, OpensAt
<1>3. SelfSigned' <=> SelfSigned
  BY <1>1, <1>2 DEF SelfSigned
<1>4. SUFFICES ASSUME SelfSigned, OwnSigner, Own PROVE OwnSigner' /\ Own'
  BY <1>3 DEF SelfInv
<1>5. CASE Reading /\ Begin(doc[at])
  BY <1>4, <1>5, BeginOwns
<1>6. CASE Reading /\ End(doc[at])
  BY <1>4, <1>6, EndOwns
<1>7. CASE Reading /\ Finish(doc[at])
  BY <1>4, <1>7, FinishOwns
<1>8. CASE Content
  BY <1>4, <1>8, ContentOwns
<1>9. CASE UNCHANGED <<doc, at, stack, buf, bookmarks, reg, keys, opt, files>>
  <2>1. Read' = Read
    BY <1>2, <1>9 DEF Read
  <2>2. VKeyNow' = VKeyNow /\ (VKeyOpen' <=> VKeyOpen)
    BY <1>9 DEF VKeyNow, VKeyOpen, KeyOpen
  <2>3. OwnSigner'
    BY <1>4, <1>9 DEF OwnSigner
  <2>4. (\A d, n : At(d, n)' <=> At(d, n)) /\ \A l : HeadOf(l)' <=> HeadOf(l)
    BY <1>9 DEF At, Top, HeadOf
  <2>5. HeadRead'
    BY <1>4, <1>9, <2>1, <2>2, <2>4 DEF Own, HeadRead
  <2> QED BY <1>4, <1>9, <2>1, <2>2, <2>3, <2>5 DEF Own
<1> QED BY <1>5, <1>6, <1>7, <1>8, <1>9 DEF Next, Fail, Stop, EndOfFile, Ends, vars

\* What the invariant says of a certificate that is written.
LEMMA SelfGives == Inv /\ SelfInv => SelfSignedVerifies
<1> SUFFICES ASSUME Inv, SelfSigned, Own, buf # <<>>,
                    NEW i \in DOMAIN buf, buf[i].k = "sig"
             PROVE  buf[i].v = VerificationKey(buf)
  BY DEF SelfInv, SelfSignedVerifies, Complete
<1>1. Cursor /\ buf \in Seq(Cell)
  BY DEF Inv, Sizes
<1>2. Read \in Nat /\ i \in 1..Len(buf)
  BY <1>1, ReadNat, LenProperties
<1>3. CASE Read >= 10
  <2>1. SignedWith(buf, VKeyNow)
    BY <1>3 DEF Own
  <2>2. PICK n \in 0..(Short - 1), s \in Nat : Begins(buf, n, s, VKeyNow)
    BY <2>1 DEF SignedWith
  <2>3. n \in Nat
    BY SMT
  <2>4. VerificationKey(buf) = VKeyNow
    BY <1>1, <2>2, <2>3, ReaderFinds
  <2> QED BY <1>2, <2>1, <2>4 DEF SignedWith, Signs
<1>4. CASE ~(Read >= 10)
  <2>1. HeadRead
    BY DEF Own
  <2>2. \/ Read \in {0, 1, 2} \/ Read \in {3, 4, 5} \/ Read \in {6, 7, 8, 9}
    <3> DEFINE r == Read
    <3>1. r \in Nat /\ ~(r >= 10)
      BY <1>2, <1>4
    <3> HIDE DEF r
    <3>2. r \in {0, 1, 2} \/ r \in {3, 4, 5} \/ r \in {6, 7, 8, 9}
      BY <3>1, SMT
    <3> QED BY <3>2 DEF r
  <2>3. Read \in {0, 1, 2} => buf = <<>>
    <3>1. Read = 2 => buf = <<>>
      BY <2>1 DEF HeadRead
    <3> QED BY <2>1, <3>1 DEF HeadRead
  <2>4. Read \in {3, 4, 5} => Plain(buf)
    BY <2>1 DEF HeadRead
  <2>5. Read \in {6, 7, 8, 9} => \E n, l : Started(buf, n, l)
    BY <2>1 DEF HeadRead, HeadOf
  <2> QED BY <1>2, <2>2, <2>3, <2>4, <2>5 DEF Plain, Started
<1> QED BY <1>3, <1>4

-----------------------------------------------------------------------------
THEOREM Invariance == Spec => []Inv
<1> QED BY InvInit, InvNext, PTL DEF Spec

(* Every variable has its type, and no key is generated twice.              *)
THEOREM CertTypes == Spec => []TypeOK
<1> QED BY Invariance, InvGives, PTL

(* For every profile there is a bookmark for each open element whose size is *)
(* to be written, so that they are never inconsistent; and for every profile *)
(* whose types of restrictions are numbers of an int, the bookmarks are those *)
(* of the open elements with a size, no other byte of the certificate is left *)
(* for one, and none is too complicated for three bookmarks. The registers   *)
(* sa_type, vr_type and pk_alg tell it for their elements when they close,    *)
(* because each stands for one depth and is set again before it is read.     *)
THEOREM SizesMatch == Spec => []BookmarksMatch
<1> QED BY Invariance, InvGives, PTL

(* What was signed is neither moved nor changed by a later size.            *)
THEOREM SignedBytesStay == Spec => SignedStays
<1>1. Inv /\ [Next]_vars => SignedKept
  BY InvNext
<1>2. SignedStays <=> [][SignedKept]_vars
  BY PTL DEF SignedStays, SignedKept
<1> QED BY <1>1, <1>2, Invariance, PTL DEF Spec

(* For every profile with one key of a kind, whose points are in key         *)
(* attributes: a key that was generated for the certificate is in its        *)
(* private key file once the certificate is written, or could not be written *)
(* there, whatever was given or could be reused.                            *)
THEOREM KeysSaved == Spec => []KeysAreKept
<1>1. Spec => [](Inv /\ KeyInv)
  BY InvInit, InvNext, KeyInit, KeyNext, PTL DEF Spec
<1>2. Inv /\ KeyInv => KeysAreKept
  <2> SUFFICES ASSUME Inv, KeyInv, Complete, OneKeyOfAKind, NEW i \in DOMAIN buf,
                      buf[i].k = "x", buf[i].v >= FirstKey
               PROVE  buf[i].v \in KeyFiles
    BY DEF KeysAreKept, KeyFiles
  <2>1. DOMAIN buf = 1..Len(buf)
    BY LenProperties DEF Inv, Sizes
  <2>2. KeysIn(buf, KeyFiles)
    BY DEF KeyInv, NoneLost, Complete
  <2> QED BY <2>1, <2>2 DEF KeysIn, Generated
<1> QED BY <1>1, <1>2, PTL

(* For every profile whose first ten tags lead to the point of a verification *)
(* key, and in which no other tag opens a signer of another type or another  *)
(* attribute of that type: a certificate that is written has no signature    *)
(* but with the key that get_verification_key reads from it.                *)
THEOREM SelfSignedKey == Spec => []SelfSignedVerifies
<1> QED BY InvInit, InvNext, SelfInit, SelfNext, SelfGives, PTL DEF Spec
=============================================================================
