------------------------------- MODULE CertGen -------------------------------
(***************************************************************************)
(* The certificate generator (tools/itscertgen/generator): one pass over the *)
(* tags of an XML profile.  A stack of open tags chooses the handlers        *)
(* (cxml/cxmlst.c); the handlers (certgen.c) append to the certificate, keep *)
(* what they need at the closing tag in a few registers, and leave a byte    *)
(* for every size that is only known then (the bookmarks).                   *)
(*                                                                         *)
(* A profile is the sequence of its tags and texts.  v is the value a handler *)
(* takes from the attributes of the tag, or Refused; args are further fields  *)
(* it writes, n a length or a number of variable width.  A tag that closes   *)
(* itself is an opening and a closing tag, the second with the attributes of *)
(* the first; any other closing tag has no attributes (Missing).            *)
(*                                                                         *)
(* The certificate is a sequence of cells: a field of fixed width is one     *)
(* cell, a number of variable width is a cell with its value and one for     *)
(* each further byte it takes.                                              *)
(***************************************************************************)
EXTENDS Integers, Sequences, FiniteSets

CONSTANTS Profiles,      \* the profiles to generate from
          Short,         \* a number below Short takes one byte (128)
          Wide,          \* the values of an int (2^32)
          MaxBookmarks   \* MAX_BOOKMARKS

Missing == -1
Refused == -2

Tag == {"certificate", "version", "signer", "subject", "validity", "signature", "attribute",
        "public_key", "eccpoint", "assurance", "aid", "ssp", "restriction", "none", "circle",
        "rectangle", "polygon", "id", "location"}

Event == [tag : {"open", "close", "text"}, name : Tag \cup {"text"}, v : Int, n : Nat,
          args : Seq(Nat)]

ASSUME ProfilesAssumption == Profiles \subseteq Seq(Event)
ASSUME BoundAssumption == Short \in Nat \ {0} /\ MaxBookmarks \in Nat /\ MaxBookmarks >= 3
ASSUME WideAssumption == Wide \in Nat \ {0}

(* Keys are numbers: 0 is no key, a negative one is a public key only.        *)
SignerKey == 1
OldVKey == 2
OldEKey == 3
FirstKey == 4
GivenVKey == -1
GivenEKey == -2
DataKey == -3
Private(k) == k > 0

VARIABLES
  doc, at,      \* the profile, and the next of its events
  stack,        \* the tags that are open
  buf,          \* the certificate up to ptr
  bookmarks,    \* the positions left for a size
  reg,          \* sa_type, vr_type, pk_alg, signer_type; pk_datasize in halves of a point
  keys,         \* h->key; verificationKey, encryptionKey; the next key to generate
  opt,          \* _reuseKeys, _verificationKey, _decriptionKey
  files,        \* the certificate, the private key files, and the keys that were not saved
  result        \* how the program ended

vars == <<doc, at, stack, buf, bookmarks, reg, keys, opt, files, result>>

-----------------------------------------------------------------------------
(* The handlers of each tag.                                                *)

Parts == {"version", "signer", "subject", "validity", "signature"}
AttributeTags == {"public_key", "eccpoint", "assurance", "aid", "ssp"}
RegionTags == {"none", "circle", "rectangle", "polygon", "id"}

\* Mutated: a signature is also a tag of the validity.
SignatureInside(name) ==
  CASE name = "root"        -> {"certificate"}
    [] name = "certificate" -> Parts
    [] name = "subject"     -> {"attribute"}
    [] name = "attribute"   -> AttributeTags
    [] name = "public_key"  -> {"eccpoint"}
    [] name = "validity"    -> {"restriction", "signature"}
    [] name = "restriction" -> RegionTags
    [] OTHER                -> {}

Children(name) ==
  CASE name = "root"                     -> {"certificate"}
    [] name = "certificate"              -> Parts
    [] name = "subject"                  -> {"attribute"}
    [] name = "attribute"                -> AttributeTags
    [] name = "public_key"               -> {"eccpoint"}
    [] name \in {"validity", "signature"} -> {"restriction"}
    [] name = "restriction"              -> RegionTags
    [] name \in {"rectangle", "polygon"} -> {"location"}
    [] OTHER                             -> {}

Top == IF stack = <<>> THEN "root" ELSE stack[Len(stack)].name

\* A tag without handlers for its content has text up to its closing tag.
Waiting == stack # <<>> /\ Children(Top) = {}

-----------------------------------------------------------------------------
(* What is written.                                                         *)

Kind == {"size", "field", "num", "more", "text", "point", "x", "y", "digest", "cert", "sig", "none"}
Cell == [k : Kind, v : Int]
C(k, v) == [k |-> k, v |-> v]

\* There is no certificate file, or one of an earlier run.
NoFile == <<C("none", 0)>>
OldFile == <<C("cert", 0)>>

\* The byte left for a size.
Left == C("size", 0)

Num(n) == IF n < Short THEN <<C("num", n)>> ELSE <<C("num", n), C("more", 0)>>
Fields(a) == [i \in 1..Len(a) |-> C("field", a[i])]
Text(n) == [i \in 1..n |-> C("text", 0)]

\* cint8_write: the low byte of a number.
Type(n) == <<C("field", n % 256)>>

RegionType == [none |-> 0, circle |-> 1, rectangle |-> 2, polygon |-> 3, id |-> 4]

AidList == 32
AidSspList == 33
Region == 3

\* The type of a restriction: a number of the profile, as an int.
VrType(e) ==
  LET low == e.v % Wide IN IF 2 * low >= Wide THEN low - Wide ELSE low

SizedByName(e) ==
  \/ e.name \in {"subject", "validity", "ssp", "rectangle", "polygon"}
  \/ e.name = "attribute" /\ e.v \in {AidList, AidSspList}
  \/ e.name = "public_key" /\ e.v > 1

\* The elements for which a byte is left.  A restriction without a known type is one of them.
Sized(e) == SizedByName(e) \/ (e.name = "restriction" /\ VrType(e) \notin 0..Region)

\* The elements whose size is written at the end.
Measured(e) == SizedByName(e) \/ (e.name = "restriction" /\ VrType(e) > Region)

SigningKey == IF reg.signer = 0 THEN keys.v ELSE SignerKey

\* What the handler of an opening tag writes, before the byte for the size.
Written(e) ==
  CASE e.name = "signer"      -> Type(e.v)
    [] e.name = "subject"     -> Type(e.v) \o Num(e.n) \o Text(e.n)
    [] e.name = "attribute"   -> Type(e.v)
    [] e.name = "public_key"  -> IF e.v = 1 THEN Type(e.v) \o Type(0) ELSE Type(e.v)
    [] e.name = "assurance"   -> Type(e.v)
    [] e.name = "ssp"         -> Num(e.v)
    [] e.name = "restriction" -> Type(VrType(e)) \o Fields(e.args)
    [] e.name = "id"          -> Type(4) \o Fields(e.args) \o Num(e.n)
    [] e.name \in RegionTags \ {"id"} -> Type(RegionType[e.name]) \o Fields(e.args)
    [] e.name = "location"    -> Fields(e.args)
    [] e.name = "signature"   -> Type(0) \o <<C("sig", SigningKey)>>
    [] OTHER                  -> <<>>

\* Whether a closing tag ends an element whose size is still to be written: the registers
\* tell it for the tags that are not always sized.
Applies(name) ==
  \/ name \in {"subject", "validity", "ssp", "rectangle", "polygon"}
  \/ name = "attribute" /\ reg.sa \in {AidList, AidSspList}
  \/ name = "public_key" /\ reg.pk > 1
  \/ name = "restriction" /\ reg.vr > Region

\* Mutated: the content is not moved to make room for a longer size.
SizeInPlace(b) ==
  SubSeq(buf, 1, b - 1) \o Num(Len(buf) - b)
    \o SubSeq(buf, b + Len(Num(Len(buf) - b)), Len(buf))

\* apply_bookmark_size: the content moves when its size takes more than the byte left.
SizeWritten(b) == SubSeq(buf, 1, b - 1) \o Num(Len(buf) - b) \o SubSeq(buf, b + 1, Len(buf))

\* The key of a point: the one loaded, the one in the text, or a new one.
PointKey ==
  IF keys.cur # 0 THEN keys.cur
  ELSE IF reg.data >= 0 THEN DataKey
  ELSE IF reg.pk <= 1 THEN keys.next ELSE 0

Point(type, k) ==
  IF k = 0 THEN <<>>
  ELSE <<C("point", type), C("x", k)>> \o (IF type = 4 THEN <<C("y", k)>> ELSE <<>>)

\* What the handler of a closing tag writes: value is that of the opening tag.
WrittenAtEnd(e, value) ==
  CASE e.name = "version"  -> Type(value)
    [] e.name = "signer"   -> IF value = 1 THEN <<C("digest", 0)>>
                              ELSE IF value = 2 THEN <<C("cert", 0)>> ELSE <<>>
    [] e.name = "eccpoint" -> Point(value, PointKey)
    [] e.name = "aid"      -> IF e.v = Missing THEN <<>> ELSE Num(e.v)
    [] OTHER               -> <<>>

-----------------------------------------------------------------------------
(* Registers and keys.                                                      *)

\* Mutated: the type of a restriction is not kept.
ForgetsRestriction(e) ==
  CASE e.name = "signer"      -> [reg EXCEPT !.signer = e.v]
    [] e.name = "attribute"   -> [reg EXCEPT !.sa = e.v]
    [] e.name = "public_key"  -> [reg EXCEPT !.pk = e.v]
    [] e.name = "eccpoint"    -> [reg EXCEPT !.data = -1]
    [] OTHER                  -> reg

RegAfterOpen(e) ==
  CASE e.name = "signer"      -> [reg EXCEPT !.signer = e.v]
    [] e.name = "attribute"   -> [reg EXCEPT !.sa = e.v]
    [] e.name = "public_key"  -> [reg EXCEPT !.pk = e.v]
    [] e.name = "eccpoint"    -> [reg EXCEPT !.data = -1]
    [] e.name = "restriction" -> [reg EXCEPT !.vr = VrType(e)]
    [] OTHER                  -> reg

RegAfterClose(e) ==
  CASE e.name = "attribute"   -> [reg EXCEPT !.sa = -1]
    [] e.name = "public_key"  -> [reg EXCEPT !.pk = -1]
    [] e.name = "eccpoint"    -> [reg EXCEPT !.data = -1]
    [] e.name = "restriction" -> [reg EXCEPT !.vr = -1]
    [] OTHER                  -> reg

\* The public key given for a key attribute, and its private key file.
Given(e) == IF e.v = 0 THEN opt.v ELSE opt.e
Old(e) == IF e.v = 0 THEN files.vkey ELSE files.ekey

Preset(e) ==
  IF Given(e) # 0 THEN Given(e) ELSE IF opt.reuse = "yes" THEN Old(e) ELSE keys.cur

\* Mutated: reuse stays set when there is no key to reuse.
KeepsReusing(e) == keys' = [keys EXCEPT !.cur = Preset(e)] /\ opt' = opt

\* The opening tag of a key attribute: the public key given, or the old private key; when
\* there is none, keys are generated from here on.
LoadKey(e) ==
  /\ keys' = [keys EXCEPT !.cur = Preset(e)]
  /\ opt' = IF Given(e) = 0 /\ opt.reuse = "yes" /\ Old(e) = 0 THEN [opt EXCEPT !.reuse = "no"]
            ELSE opt

WithPoint ==
  [cur |-> PointKey, v |-> keys.v, e |-> keys.e,
   next |-> IF PointKey = keys.next THEN keys.next + 1 ELSE keys.next]
AsVKey == [cur |-> 0, v |-> keys.cur, e |-> keys.e, next |-> keys.next]
AsEKey == [cur |-> 0, v |-> keys.v, e |-> keys.cur, next |-> keys.next]

\* Mutated: a key attribute of either type sets the verification key.
EitherKeySet(e) ==
  keys' = CASE e.name = "attribute" /\ reg.sa \in {0, 1} -> AsVKey
            [] e.name = "eccpoint" -> WithPoint
            [] OTHER -> keys

\* Mutated: the key that is generated is not a new one.
SameKeyAgain(e) ==
  keys' = CASE e.name = "attribute" /\ reg.sa = 0 -> AsVKey
            [] e.name = "attribute" /\ reg.sa = 1 -> AsEKey
            [] e.name = "eccpoint" -> [keys EXCEPT !.cur = PointKey]
            [] OTHER -> keys

\* The closing tags that change the keys.  The key of another attribute is freed, and the
\* pointer to it kept.
KeysSet(e) ==
  keys' = CASE e.name = "attribute" /\ reg.sa = 0 -> AsVKey
            [] e.name = "attribute" /\ reg.sa = 1 -> AsEKey
            [] e.name = "eccpoint" -> WithPoint
            [] OTHER -> keys

-----------------------------------------------------------------------------
Init ==
  /\ doc \in Profiles /\ at = 1
  /\ stack = <<>> /\ buf = <<>> /\ bookmarks = <<>>
  /\ reg = [sa |-> -1, vr |-> -1, pk |-> 0, signer |-> 0, data |-> -1]
  /\ keys = [cur |-> 0, v |-> 0, e |-> 0, next |-> FirstKey]
  /\ opt \in [reuse : {"yes", "no"}, v : {0, GivenVKey}, e : {0, GivenEKey}]
  /\ files \in [crt : {NoFile, OldFile}, vkey : {0, OldVKey}, ekey : {0, OldEKey}, lost : {{}}]
  /\ result = "reading"

Reading == result = "reading" /\ at <= Len(doc)
Opening(e) == Reading /\ e = doc[at] /\ e.tag = "open" /\ ~Waiting
Closing(e) == Reading /\ e = doc[at] /\ e.tag = "close" /\ stack # <<>> /\ e.name = Top
Goes == at' = at + 1 /\ UNCHANGED <<doc, files, result>>

Refuses(e) ==
  \/ e.name \notin Children(Top)
  \/ e.v = Refused
  \/ e.name = "signature" /\ ~Private(SigningKey)

\* The file of the certificate is there already, and to be kept.
Keeps(e) == e.name = "certificate" /\ e.v = 1 /\ files.crt # NoFile

\* The handlers of opening tags.
Begin(e) ==
  /\ Opening(e) /\ ~Refuses(e) /\ ~Keeps(e)
  /\ Sized(e) => Len(bookmarks) < MaxBookmarks
  /\ LET w == IF e.name = "certificate" THEN <<>> ELSE buf \o Written(e)
     IN IF Sized(e)
        THEN buf' = Append(w, Left) /\ bookmarks' = Append(bookmarks, Len(w) + 1)
        ELSE buf' = w /\ UNCHANGED bookmarks
  /\ stack' = Append(stack, e)
  /\ reg' = RegAfterOpen(e)
  /\ IF e.name = "attribute" /\ e.v \in {0, 1} THEN LoadKey(e) ELSE UNCHANGED <<keys, opt>>
  /\ Goes

\* Text, and whatever stands before the closing tag that is waited for.
Content ==
  /\ Reading
  /\ LET e == doc[at]
     IN /\ e.tag = "text" \/ (Waiting /\ ~Closing(e))
        /\ buf' = IF Top = "ssp" THEN buf \o Text(e.n) ELSE buf
        /\ reg' = IF Top = "eccpoint"
                  THEN [reg EXCEPT !.data = IF @ = -1 THEN e.n ELSE @ + e.n] ELSE reg
  /\ Goes
  /\ UNCHANGED <<stack, bookmarks, keys, opt>>

\* pk_data is shorter than a point of the type, or there is no algorithm to generate a key for.
RefusesEnd(e) ==
  \/ e.name = "signer" /\ reg.signer > 2
  \/ e.name = "aid" /\ e.v = Refused
  \/ /\ e.name = "eccpoint" /\ keys.cur = 0
     /\ \/ reg.data = 0
        \/ reg.data = 1 /\ stack[Len(stack)].v = 4
        \/ reg.data = -1 /\ reg.pk < 0

\* The handlers of closing tags, but for that of the certificate.
End(e) ==
  /\ Closing(e) /\ e.name # "certificate" /\ ~RefusesEnd(e)
  /\ Applies(e.name) => bookmarks # <<>>
  /\ IF Applies(e.name)
     THEN LET b == bookmarks[Len(bookmarks)]
          IN buf' = SizeWritten(b) /\ bookmarks' = SubSeq(bookmarks, 1, Len(bookmarks) - 1)
     ELSE buf' = buf \o WrittenAtEnd(e, stack[Len(stack)].v) /\ UNCHANGED bookmarks
  /\ stack' = SubSeq(stack, 1, Len(stack) - 1)
  /\ reg' = RegAfterClose(e)
  /\ KeysSet(e)
  /\ Goes
  /\ UNCHANGED opt

\* A private key is saved unless it is given or reused.
ToSave(key, given) == key # 0 /\ given = 0 /\ opt.reuse = "no"

\* What is in the file then: the key, the old content when the file cannot be opened, and no
\* file when it cannot be written, or there is only a public key.
Saved(key, given, file) ==
  IF ToSave(key, given) THEN {file, 0} \cup {k \in {key} : Private(k)} ELSE {file}

\* The program does not see that a key has not been saved.
Unsaved(key, given, file) == {k \in {key} : ToSave(k, given) /\ file # k}

\* The certificate is written, or fails to be, and the keys are saved in any case, or fail to be.
Finish(e) ==
  /\ Closing(e) /\ e.name = "certificate"
  /\ \E crt \in {buf, files.crt}, v \in Saved(keys.v, opt.v, files.vkey),
        k \in Saved(keys.e, opt.e, files.ekey) :
       files' = [crt |-> crt, vkey |-> v, ekey |-> k,
                 lost |-> files.lost \cup Unsaved(keys.v, opt.v, v) \cup Unsaved(keys.e, opt.e, k)]
  /\ stack' = SubSeq(stack, 1, Len(stack) - 1)
  /\ at' = at + 1
  /\ UNCHANGED <<doc, buf, bookmarks, reg, keys, opt, result>>

Ends(r) ==
  /\ result' = r
  /\ UNCHANGED <<doc, at, stack, buf, bookmarks, reg, keys, opt, files>>

\* The parser fails: a handler refuses the tag, or the tag has no handler or no beginning.
Fails(e) ==
  \/ Opening(e) /\ Refuses(e)
  \/ Closing(e) /\ RefusesEnd(e)
  \/ e.tag = "close" /\ ~Waiting /\ ~Closing(e)

\* "Profile is tooooooo complicated", "Inconsistent bookmarks"
Exits(e) ==
  \/ Opening(e) /\ ~Refuses(e) /\ Sized(e) /\ Len(bookmarks) >= MaxBookmarks
  \/ Closing(e) /\ ~RefusesEnd(e) /\ Applies(e.name) /\ bookmarks = <<>>

Fail ==
  /\ Reading
  /\ \E r \in {"error", "fatal"} :
       (IF r = "error" THEN Fails(doc[at]) ELSE Exits(doc[at])) /\ Ends(r)

Stop == Reading /\ Opening(doc[at]) /\ ~Refuses(doc[at]) /\ Keeps(doc[at]) /\ Ends("stopped")

\* The end of the profile ends the program, also inside a tag.
EndOfFile == result = "reading" /\ at > Len(doc) /\ Ends("done")

Next ==
  \/ Reading /\ Begin(doc[at])
  \/ Reading /\ End(doc[at])
  \/ Reading /\ Finish(doc[at])
  \/ Content \/ Fail \/ Stop \/ EndOfFile

Spec == Init /\ [][Next]_vars

-----------------------------------------------------------------------------
(* Every variable has its type; every key in use has been generated before,  *)
(* or was given: the generator never hands out a key twice.                  *)
TypeOK ==
  /\ doc \in Profiles /\ at \in 1..(Len(doc) + 1)
  /\ stack \in Seq(Event) /\ buf \in Seq(Cell) /\ bookmarks \in Seq(Nat \ {0})
  /\ reg \in [sa : Int, vr : Int, pk : Int, signer : Int, data : Nat \cup {-1}]
  /\ keys \in [cur : Int, v : Int, e : Int, next : Nat]
  /\ keys.cur < keys.next /\ keys.v < keys.next /\ keys.e < keys.next
  /\ opt \in [reuse : {"yes", "no"}, v : Int, e : Int]
  /\ files \in [crt : Seq(Cell), vkey : Int, ekey : Int, lost : SUBSET Int]
  /\ result \in {"reading", "done", "stopped", "error", "fatal"}

SizedAt(i) == IF i \in DOMAIN stack /\ Measured(stack[i]) THEN 1 ELSE 0

\* No type of a restriction becomes a negative int (4294967295 does).
Numbered ==
  \A i \in DOMAIN doc : (doc[i].tag = "open" /\ doc[i].name = "restriction") => VrType(doc[i]) >= 0

(* A closing tag only has the registers to tell whether its element has a     *)
(* size.  Whatever the profile, there is a bookmark for every open element    *)
(* whose size is to be written, so that "Inconsistent bookmarks" is never     *)
(* reached.  And when the types of its restrictions are numbers of an int, the *)
(* bookmarks are those of the open elements with a size, outermost first: the *)
(* byte left for a size is where its bookmark is, and no other byte is left,  *)
(* so that a finished certificate has none; nor is "Profile is tooooooo       *)
(* complicated" reached.  The condition is needed: a restriction whose type   *)
(* becomes negative leaves a byte that no closing tag fills.                 *)
BookmarksMatch ==
  /\ Len(bookmarks) >= SizedAt(1) + SizedAt(2) + SizedAt(3) + SizedAt(4) + SizedAt(5)
  /\ result = "fatal" => bookmarks # <<>>
  /\ Numbered =>
       /\ Len(bookmarks) = SizedAt(1) + SizedAt(2) + SizedAt(3) + SizedAt(4) + SizedAt(5)
       /\ \A i, j \in DOMAIN bookmarks : i < j => bookmarks[i] < bookmarks[j]
       /\ \A p \in DOMAIN buf : buf[p] = Left <=> \E i \in DOMAIN bookmarks : bookmarks[i] = p
       /\ \A i \in DOMAIN bookmarks : bookmarks[i] \in DOMAIN buf
       /\ result # "fatal"

(* What was signed stays: every size in front of the signature is written    *)
(* when the signature is made, and no later one moves or changes a signed    *)
(* byte of the certificate.                                                 *)
SignedStays ==
  [][\A i \in DOMAIN buf : (buf[i].k = "sig" /\ buf' # <<>>) =>
       i \in DOMAIN buf' /\ \A j \in 1..i : buf'[j] = buf[j]]_vars

AttributesOfType(t) ==
  {i \in DOMAIN doc : doc[i].tag = "open" /\ doc[i].name = "attribute" /\ doc[i].v = t}

OpensAt(i, name) == doc[i].tag = "open" /\ doc[i].name = name

\* The events from i up to the next one begin a key attribute, and nothing else in it than the
\* public key.
KeyBegins(i, next) ==
  /\ i \in AttributesOfType(0) \cup AttributesOfType(1) /\ i < next
  /\ \A k \in (i + 1)..(next - 1) : doc[k].tag = "text" \/ OpensAt(k, "public_key")

\* One key of each kind, and every point in a key attribute: the key of a point elsewhere is
\* freed and saved nowhere.
OneKeyOfAKind ==
  /\ \A t \in {0, 1} : Cardinality(AttributesOfType(t)) <= 1
  /\ \A j \in DOMAIN doc : OpensAt(j, "eccpoint") => \E i \in DOMAIN doc : KeyBegins(i, j)

\* The program has written the certificate.
Complete == result = "done" /\ stack = <<>> /\ buf # <<>> /\ files.crt = buf

(* A key that was generated for a certificate is in its private key file     *)
(* once the certificate is written, also when only one of the keys to reuse  *)
(* was there, unless the program has tried to save it there and failed, which *)
(* it does not tell.                                                        *)
KeysAreKept ==
  (Complete /\ OneKeyOfAKind) =>
    \A i \in DOMAIN buf :
      (buf[i].k = "x" /\ buf[i].v >= FirstKey) =>
        buf[i].v \in {files.vkey, files.ekey} \cup files.lost
=============================================================================
