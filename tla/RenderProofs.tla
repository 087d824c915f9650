---------------------------- MODULE RenderProofs ----------------------------
(***************************************************************************)
(* Proofs about Render: it implements ClassText, and its four invariants.  *)
(*                                                                         *)
(* StreamInv says that the put pointer is at the end of the stream, and    *)
(* that a ", " stands there while parameters are printed.  With it every   *)
(* step appends one text to what is visible, the one ClassText writes      *)
(* (TextStep).  NoCommentLeftOpen is then a fact about the texts of        *)
(* ClassText, and the header is followed token by token (HeaderInv).       *)
(***************************************************************************)
EXTENDS Render, SequenceTheorems, WellFoundedInduction, TLAPS

PlainWords ==
    {"tab", "newline", "comma", "blank", "rparen", "lparen", "lbrace", "rbrace", "colon",
     "private", "public", "protected", "internal", "protected_internal", "static", "virtual",
     "override", "abstract", "sealed", "sealed_override", "extern", "const", "readonly",
     "Type", "name", "get", "set", "interface", "enum", "struct", "class", "Serializable",
     "Name", "equals", "VA", "0", "in", "out", "ref", "In", "Out"}
Titles == {"Fields", "Properties", "Methods"}
CommentWords == Titles \cup {"Namespace", "offset", "RVA", "unknown_property"}
AllWords == PlainWords \cup CommentWords

(* The tokens that begin no comment, and all tokens.                       *)
Plain == {Lit(w) : w \in PlainWords} \cup ({"name"} \X STRING) \cup ({"hex", "dec"} \X Int)
Tok == Plain \cup {Lit(w) : w \in CommentWords}

AtEnd(s) ==
    /\ s \in [buf : Seq(Tok), put : Nat, base : {"hex", "dec"}]
    /\ s.put = Len(s.buf)

-----------------------------------------------------------------------------
(* Remainders.                                                             *)

LEMMA DivMod ==
    ASSUME NEW a \in Int, NEW m \in Nat \ {0}
    PROVE  a % m \in 0 .. m - 1 /\ a \div m \in Int /\ a = m * (a \div m) + (a % m)
<1>1. a % m \in 0 .. m - 1
  OBVIOUS
<1>2. a \div m \in Int
  OBVIOUS
<1>3. a = m * (a \div m) + (a % m)
  OBVIOUS
<1> QED
  BY <1>1, <1>2, <1>3

(* A remainder that differs by a multiple of the modulus is the same.      *)
LEMMA SameRemainder ==
    ASSUME NEW m \in Nat \ {0}, NEW p \in 0 .. m - 1, NEW q \in 0 .. m - 1, NEW k \in Int,
           p = m * k + q
    PROVE  p = q
<1>1. m * k \in Int
  OBVIOUS
<1>2. CASE k = 0
  BY <1>2
<1>3. CASE k > 0
  <2>1. m * k >= m
    BY <1>3
  <2> QED
    BY <1>1, <2>1
<1>4. CASE k < 0
  <2>1. m * k <= -m
    BY <1>4
  <2> QED
    BY <1>1, <2>1
<1> QED
  BY <1>2, <1>3, <1>4

-----------------------------------------------------------------------------
(* Texts.                                                                  *)

(* Words prints a sequence of words one to one.                            *)
LEMMA WordsElements ==
    ASSUME NEW S, NEW ws \in Seq(S)
    PROVE  /\ Words(ws) \in Seq({Lit(w) : w \in S})
           /\ Len(Words(ws)) = Len(ws)
           /\ \A k \in 1 .. Len(ws) : Words(ws)[k] = Lit(ws[k])
<1>1. Len(ws) \in Nat /\ \A k \in 1 .. Len(ws) : ws[k] \in S
  OBVIOUS
<1>2. \A k \in 1 .. Len(ws) : Lit(ws[k]) \in {Lit(w) : w \in S}
  BY <1>1
<1>3. [k \in 1 .. Len(ws) |-> Lit(ws[k])] \in Seq({Lit(w) : w \in S})
  BY <1>1, <1>2, IsASeq
<1> QED
  BY <1>1, <1>3, LenProperties DEF Words

LEMMA PlainIsTok == Plain \subseteq Tok /\ \A s \in Seq(Plain) : s \in Seq(Tok)
  BY SeqMonotonic DEF Tok

(* Plain words make a plain text.                                          *)
LEMMA WordsPlain ==
    ASSUME NEW ws \in Seq(PlainWords)
    PROVE  Words(ws) \in Seq(Plain) /\ Words(ws) \in Seq(Tok)
<1>1. Words(ws) \in Seq({Lit(w) : w \in PlainWords})
  BY WordsElements
<1>2. {Lit(w) : w \in PlainWords} \subseteq Plain
  BY DEF Plain
<1> QED
  BY <1>1, <1>2, SeqMonotonic, PlainIsTok

(* Any words make a text.                                                  *)
LEMMA WordsTok ==
    ASSUME NEW ws \in Seq(AllWords)
    PROVE  Words(ws) \in Seq(Tok)
<1>1. Words(ws) \in Seq({Lit(w) : w \in AllWords})
  BY WordsElements
<1>2. {Lit(w) : w \in AllWords} \subseteq Tok
  BY DEF Tok, Plain, AllWords
<1> QED
  BY <1>1, <1>2, SeqMonotonic

LEMMA PlainInAll ==
    ASSUME NEW ws \in Seq(PlainWords)
    PROVE  ws \in Seq(AllWords)
<1>1. PlainWords \subseteq AllWords
  BY DEF AllWords
<1> QED
  BY <1>1, SeqMonotonic

LEMMA Word1Type ==
    ASSUME NEW S, NEW b, NEW w \in S
    PROVE  Word1(b, w) \in Seq(S)
  BY DEF Word1

LEMMA Word1Plain ==
    ASSUME NEW b, NEW w \in PlainWords
    PROVE  Word1(b, w) \in Seq(PlainWords)
  BY Word1Type

LEMMA ConcatPlain ==
    ASSUME NEW S, NEW s \in Seq(S), NEW t \in Seq(S)
    PROVE  s \o t \in Seq(S)
  BY ConcatProperties

(* The fixed parts of the text.                                            *)
LEMMA FixedPlain ==
    /\ NL \in Plain /\ <<NL>> \in Seq(Plain)
    /\ Comma \in Seq(Plain) /\ Comma = <<Lit("comma"), Lit("blank")>>
    /\ MethodEnd \in Seq(Plain) /\ Len(MethodEnd) = 6 /\ MethodEnd[6] = NL
    /\ BodyBegin \in Seq(Plain) /\ BodyBegin = <<NL, Lit("lbrace")>>
    /\ BodyEnd \in Seq(Plain)
    /\ Words(<<"tab">>) \in Seq(Plain)
    /\ Words(<<"Type", "name">>) \in Seq(Plain)
<1>1. NL \in Plain
  BY DEF NL, Plain, PlainWords
<1>2. <<"comma", "blank">> \in Seq(PlainWords) /\ <<"newline", "lbrace">> \in Seq(PlainWords)
      /\ <<"rbrace", "newline">> \in Seq(PlainWords)
      /\ <<"tab">> \in Seq(PlainWords) /\ <<"Type", "name">> \in Seq(PlainWords)
  BY DEF PlainWords
<1>3. <<"rparen", "blank", "lbrace", "blank", "rbrace", "newline">> \in Seq(PlainWords)
  BY DEF PlainWords
<1>4. Len(MethodEnd) = 6 /\ MethodEnd[6] = NL
  <2>1. PICK ws : ws = <<"rparen", "blank", "lbrace", "blank", "rbrace", "newline">>
    OBVIOUS
  <2>2. Len(ws) = 6 /\ ws[6] = "newline" /\ ws \in Seq(PlainWords) /\ MethodEnd = Words(ws)
    BY <2>1, <1>3 DEF MethodEnd
  <2> HIDE <2>1
  <2> QED
    <3>1. /\ Len(Words(ws)) = Len(ws)
          /\ \A k \in 1 .. Len(ws) : Words(ws)[k] = Lit(ws[k])
      BY <2>2, WordsElements
    <3> QED
      BY <2>2, <3>1 DEF NL
<1>5. \A v, w : Words(<<v, w>>) = <<Lit(v), Lit(w)>>
  BY DEF Words
<1>6. Comma = <<Lit("comma"), Lit("blank")>>
  BY <1>5 DEF Comma
<1>7. BodyBegin = <<NL, Lit("lbrace")>>
  BY <1>5 DEF BodyBegin, NL
<1>8. <<NL>> \in Seq(Plain)
  BY <1>1
<1>9. /\ Comma \in Seq(Plain) /\ BodyBegin \in Seq(Plain) /\ BodyEnd \in Seq(Plain)
      /\ Words(<<"tab">>) \in Seq(Plain) /\ Words(<<"Type", "name">>) \in Seq(Plain)
  BY <1>2, WordsPlain DEF Comma, BodyBegin, BodyEnd
<1>10. MethodEnd \in Seq(Plain)
  BY <1>3, WordsPlain DEF MethodEnd
<1> QED
  BY <1>1, <1>4, <1>6, <1>7, <1>8, <1>9, <1>10

-----------------------------------------------------------------------------
(* Texts made from metadata.                                               *)

LEMMA AccessPlain ==
    ASSUME NEW a
    PROVE  MemberAccess(a) \in Seq(PlainWords)
<1>1. /\ <<"private">> \in Seq(PlainWords) /\ <<"public">> \in Seq(PlainWords)
      /\ <<"protected">> \in Seq(PlainWords) /\ <<"internal">> \in Seq(PlainWords)
      /\ <<"protected_internal">> \in Seq(PlainWords) /\ <<>> \in Seq(PlainWords)
  BY DEF PlainWords
<1> QED
  BY <1>1 DEF MemberAccess

LEMMA VirtualPlain ==
    ASSUME NEW bits
    PROVE  VirtualWords(bits) \in Seq(PlainWords)
<1>1. /\ Word1("NEW_SLOT" \notin bits, "override") \in Seq(PlainWords)
      /\ Word1("NEW_SLOT" \notin bits, "sealed_override") \in Seq(PlainWords)
      /\ <<"abstract">> \in Seq(PlainWords) /\ <<"virtual">> \in Seq(PlainWords)
      /\ <<"override">> \in Seq(PlainWords) /\ <<>> \in Seq(PlainWords)
  BY Word1Plain DEF PlainWords
<1>2. <<"abstract">> \o Word1("NEW_SLOT" \notin bits, "override") \in Seq(PlainWords)
  BY <1>1, ConcatPlain
<1> QED
  BY <1>1, <1>2 DEF VirtualWords

LEMMA ModifierPlain ==
    ASSUME NEW f
    PROVE  get_method_modifier(f) \in Seq(Plain)
<1>1. Word1("STATIC" \in f.bits, "static") \in Seq(PlainWords)
      /\ Word1("PINVOKE_IMPL" \in f.bits, "extern") \in Seq(PlainWords)
  BY Word1Plain DEF PlainWords
<1> QED
  BY <1>1, AccessPlain, VirtualPlain, ConcatPlain, WordsPlain DEF get_method_modifier

LEMMA FieldModifierPlain ==
    ASSUME NEW f
    PROVE  FieldModifier(f) \in Seq(Plain)
<1>1. /\ Word1("STATIC" \in f.bits, "static") \in Seq(PlainWords)
      /\ Word1("INIT_ONLY" \in f.bits, "readonly") \in Seq(PlainWords)
      /\ <<"const">> \in Seq(PlainWords)
  BY Word1Plain DEF PlainWords
<1> QED
  BY <1>1, AccessPlain, ConcatPlain, WordsPlain DEF FieldModifier

LEMMA PropertyType ==
    ASSUME NEW p
    PROVE  PropertyText(p) \in Seq(Tok)
<1>1. PICK flags : flags = IF p.get # <<>> THEN p.get ELSE p.set
  OBVIOUS
<1>2. /\ Word1(p.get # <<>>, "get") \in Seq(PlainWords)
      /\ Word1(p.set # <<>>, "set") \in Seq(PlainWords)
      /\ <<"Type", "name", "lbrace">> \in Seq(PlainWords)
      /\ <<"rbrace", "newline">> \in Seq(PlainWords)
  BY Word1Plain DEF PlainWords
<1>3. Words(<<"Type", "name", "lbrace">> \o Word1(p.get # <<>>, "get")
            \o Word1(p.set # <<>>, "set") \o <<"rbrace", "newline">>) \in Seq(Plain)
  BY <1>2, ConcatPlain, WordsPlain
<1>4. Words(Word1(p.named, "unknown_property")) \in Seq(Tok)
  <2>1. "unknown_property" \in AllWords
    BY DEF AllWords, CommentWords
  <2> QED
    BY <2>1, Word1Type, WordsTok
<1>5. PICK a, g, b, c : /\ a = Words(<<"tab">>) /\ g = get_method_modifier(flags[1])
                        /\ b = Words(<<"Type", "name", "lbrace">> \o Word1(p.get # <<>>, "get")
                                     \o Word1(p.set # <<>>, "set") \o <<"rbrace", "newline">>)
                        /\ c = Words(Word1(p.named, "unknown_property"))
  OBVIOUS
<1>6. a \in Seq(Tok) /\ g \in Seq(Tok) /\ b \in Seq(Tok) /\ c \in Seq(Tok)
  BY <1>3, <1>4, <1>5, ModifierPlain, FixedPlain, PlainIsTok
<1>7. g \o b \in Seq(Tok)
  BY <1>6, ConcatPlain
<1>8. a \o (g \o b) \in Seq(Tok) /\ a \o c \in Seq(Tok)
  BY <1>6, <1>7, ConcatPlain
<1> QED
  BY <1>1, <1>5, <1>8 DEF PropertyText

(* The words of the header behind the comment with the namespace.          *)
LEMMA HeadPlain ==
    ASSUME NEW h \in Headers
    PROVE  /\ (IF "SERIALIZABLE" \in h.bits THEN <<"Serializable", "newline">> ELSE <<>>)
                 \in Seq(PlainWords)
           /\ <<Visibility(h.vis)>> \in Seq(PlainWords)
           /\ ClassModifier(h) \in Seq(PlainWords)
           /\ <<ClassKind(h), "Name">> \in Seq(PlainWords)
<1>1. h.vis \in {"PUBLIC", "NESTED_PUBLIC", "NOT_PUBLIC", "NESTED_FAM_AND_ASSEM",
                 "NESTED_ASSEMBLY", "NESTED_PRIVATE", "NESTED_FAMILY", "NESTED_FAM_OR_ASSEM"}
  BY DEF Headers
<1>2. Visibility(h.vis) \in PlainWords
  BY <1>1 DEF Visibility, PlainWords
<1>3. ClassModifier(h) \in Seq(PlainWords)
  <2>1. /\ <<"static">> \in Seq(PlainWords) /\ <<"abstract">> \in Seq(PlainWords)
        /\ Word1(SealedClass(h), "sealed") \in Seq(PlainWords)
    BY Word1Plain DEF PlainWords
  <2> QED
    BY <2>1 DEF ClassModifier
<1>4. ClassKind(h) \in PlainWords
  BY DEF ClassKind, PlainWords
<1>5. /\ <<"Serializable", "newline">> \in Seq(PlainWords)
      /\ <<>> \in Seq(PlainWords) /\ "Name" \in PlainWords
  BY DEF PlainWords
<1>6. <<Visibility(h.vis)>> \in Seq(PlainWords) /\ <<ClassKind(h), "Name">> \in Seq(PlainWords)
  BY <1>2, <1>4, <1>5
<1> QED
  BY <1>3, <1>5, <1>6

LEMMA NamespaceWords == <<"newline", "Namespace", "newline">> \in Seq(AllWords)
<1>1. "newline" \in AllWords /\ "Namespace" \in AllWords
  BY DEF AllWords, PlainWords, CommentWords
<1> QED
  BY <1>1

LEMMA NameLineType ==
    ASSUME NEW h \in Headers
    PROVE  NameLine(h) \in Seq(Tok)
<1>1. PICK a, s, v, m, k :
          /\ a = <<"newline", "Namespace", "newline">>
          /\ s = IF "SERIALIZABLE" \in h.bits THEN <<"Serializable", "newline">> ELSE <<>>
          /\ v = <<Visibility(h.vis)>> /\ m = ClassModifier(h) /\ k = <<ClassKind(h), "Name">>
  OBVIOUS
<1>2. s \in Seq(PlainWords) /\ v \in Seq(PlainWords) /\ m \in Seq(PlainWords) /\ k \in Seq(PlainWords)
  BY <1>1, HeadPlain
<1>3. /\ a \in Seq(AllWords) /\ s \in Seq(AllWords) /\ v \in Seq(AllWords)
      /\ m \in Seq(AllWords) /\ k \in Seq(AllWords)
  BY <1>1, <1>2, NamespaceWords, PlainInAll
<1>4. a \o s \o v \o m \o k \in Seq(AllWords)
  BY <1>3, ConcatPlain
<1> QED
  BY <1>1, <1>4, WordsTok DEF NameLine

LEMMA ExtendsType ==
    ASSUME NEW h \in Headers
    PROVE  Extends(h) \in Seq(STRING)
<1>1. h.parent \in STRING /\ h.interfaces \in Seq(STRING)
  BY DEF Headers
<1>2. ASSUME NEW b PROVE Word1(b, h.parent) \in Seq(STRING)
  BY <1>1, Word1Type
<1> QED
  BY <1>1, <1>2, ConcatPlain DEF Extends

LEMMA ShortConcat ==
    ASSUME NEW S, NEW u \in S, NEW v \in S, NEW t \in S
    PROVE  <<u>> \o <<t>> = <<u, t>> /\ <<u, v>> \o <<t>> = <<u, v, t>>
<1>1. PICK a, b, c, d, e : a = <<u>> /\ b = <<u, v>> /\ c = <<t>> /\ d = <<u, t>> /\ e = <<u, v, t>>
  OBVIOUS
<1>2. /\ a \in Seq(S) /\ Len(a) = 1 /\ a[1] = u
      /\ b \in Seq(S) /\ Len(b) = 2 /\ b[1] = u /\ b[2] = v
      /\ c \in Seq(S) /\ Len(c) = 1 /\ c[1] = t
      /\ d \in Seq(S) /\ Len(d) = 2 /\ d[1] = u /\ d[2] = t
      /\ e \in Seq(S) /\ Len(e) = 3 /\ e[1] = u /\ e[2] = v /\ e[3] = t
  BY <1>1
<1> HIDE <1>1
<1>3. a \o c = d
  <2>1. /\ a \o c \in Seq(S) /\ Len(a \o c) = Len(a) + Len(c)
        /\ \A k \in 1 .. Len(a) + Len(c) : (a \o c)[k] = IF k <= Len(a) THEN a[k] ELSE c[k - Len(a)]
    BY <1>2, ConcatProperties
  <2>2. Len(a \o c) = Len(d) /\ \A k \in 1 .. Len(a \o c) : (a \o c)[k] = d[k]
    BY <1>2, <2>1
  <2> QED
    BY <1>2, <2>1, <2>2, SeqEqual
<1>4. b \o c = e
  <2>1. /\ b \o c \in Seq(S) /\ Len(b \o c) = Len(b) + Len(c)
        /\ \A k \in 1 .. Len(b) + Len(c) : (b \o c)[k] = IF k <= Len(b) THEN b[k] ELSE c[k - Len(b)]
    BY <1>2, ConcatProperties
  <2>2. Len(b \o c) = Len(e) /\ \A k \in 1 .. Len(b \o c) : (b \o c)[k] = e[k]
    BY <1>2, <2>1
  <2> QED
    BY <1>2, <2>1, <2>2, SeqEqual
<1> QED
  BY <1>1, <1>3, <1>4

LEMMA BaseTextPlain ==
    ASSUME NEW h \in Headers, NEW k \in 1 .. Len(Extends(h))
    PROVE  /\ BaseText(h, k) \in Seq(Plain)
           /\ BaseText(h, k) = IF k = 1 THEN <<Lit("colon"), Name(Extends(h)[k])>>
                               ELSE <<Lit("comma"), Lit("blank"), Name(Extends(h)[k])>>
<1>1. Extends(h)[k] \in STRING
  BY ExtendsType, ElementOfSeq
<1>2. Name(Extends(h)[k]) \in Plain /\ <<Name(Extends(h)[k])>> \in Seq(Plain)
  BY <1>1 DEF Name, Plain
<1>3. <<"colon">> \in Seq(PlainWords)
  BY DEF PlainWords
<1>4. Words(<<"colon">>) \in Seq(Plain) /\ Comma \in Seq(Plain)
  BY <1>3, WordsPlain, FixedPlain
<1>5. BaseText(h, k) \in Seq(Plain)
  BY <1>2, <1>4, ConcatPlain DEF BaseText
<1>6. Words(<<"colon">>) = <<Lit("colon")>>
  <2>1. \A w : Words(<<w>>) = <<Lit(w)>>
    BY DEF Words
  <2> QED
    BY <2>1
<1>7. Lit("colon") \in Plain /\ Lit("comma") \in Plain /\ Lit("blank") \in Plain
  BY DEF Plain, PlainWords
<1>8. PICK t : t = Name(Extends(h)[k])
  OBVIOUS
<1>9. t \in Plain
  BY <1>2, <1>8
<1>10. <<Lit("colon")>> \o <<t>> = <<Lit("colon"), t>>
  BY <1>7, <1>9, ShortConcat
<1>11. <<Lit("comma"), Lit("blank")>> \o <<t>> = <<Lit("comma"), Lit("blank"), t>>
  BY <1>7, <1>9, ShortConcat
<1>12. Comma = <<Lit("comma"), Lit("blank")>>
  BY FixedPlain
<1>13. CASE k = 1
  BY <1>5, <1>6, <1>8, <1>10, <1>13 DEF BaseText
<1>14. CASE k # 1
  BY <1>5, <1>12, <1>8, <1>11, <1>14 DEF BaseText
<1> QED
  BY <1>13, <1>14

(* A section title, and where its words are.                               *)
LEMMA TitleText ==
    ASSUME NEW t \in Titles
    PROVE  Title(t) \in Seq(Tok) /\ Title(t) = <<NL, Lit("tab"), Lit(t), NL>>
<1>1. \A v, w, x, y : Words(<<v, w, x, y>>) = <<Lit(v), Lit(w), Lit(x), Lit(y)>>
  BY DEF Words
<1>2. Title(t) = <<NL, Lit("tab"), Lit(t), NL>>
  BY <1>1 DEF Title, NL
<1>3. NL \in Tok /\ Lit("tab") \in Tok /\ Lit(t) \in Tok
  BY FixedPlain DEF Tok, Plain, PlainWords, CommentWords
<1> QED
  BY <1>2, <1>3

-----------------------------------------------------------------------------
(* The stringstream: printing at the end appends.                          *)

LEMMA PutAtEnd ==
    ASSUME NEW s, AtEnd(s), NEW t \in Seq(Tok)
    PROVE  AtEnd(Put(s, t)) /\ Put(s, t).buf = s.buf \o t /\ Put(s, t).base = s.base
<1>1. /\ s \in [buf : Seq(Tok), put : Nat, base : {"hex", "dec"}]
      /\ s.buf \in Seq(Tok) /\ s.put = Len(s.buf) /\ Len(s.buf) \in Nat /\ Len(t) \in Nat
  BY DEF AtEnd
<1>2. SubSeq(s.buf, 1, s.put) = s.buf
  BY <1>1, SubSeqFull
<1>3. SubSeq(s.buf, s.put + Len(t) + 1, Len(s.buf)) = <<>>
  BY <1>1, SubSeqEmpty
<1>4. s.buf \o t \in Seq(Tok) /\ Len(s.buf \o t) = Len(s.buf) + Len(t)
  BY <1>1, ConcatProperties
<1>5. (s.buf \o t) \o <<>> = s.buf \o t
  BY <1>4, ConcatEmptySeq
<1>6. Put(s, t) = [s EXCEPT !.buf = s.buf \o t, !.put = s.put + Len(t)]
  BY <1>1, <1>2, <1>3, <1>5 DEF Put
<1>7. /\ Put(s, t) \in [buf : Seq(Tok), put : Nat, base : {"hex", "dec"}]
      /\ Put(s, t).buf = s.buf \o t /\ Put(s, t).base = s.base
      /\ Put(s, t).put = Len(s.buf) + Len(t)
  <2>1. PICK b : b = s.buf \o t
    OBVIOUS
  <2>2. PICK n : n = s.put + Len(t)
    OBVIOUS
  <2>3. b \in Seq(Tok) /\ n \in Nat /\ Put(s, t) = [s EXCEPT !.buf = b, !.put = n]
    BY <1>1, <1>4, <1>6, <2>1, <2>2
  <2>4. /\ Put(s, t) \in [buf : Seq(Tok), put : Nat, base : {"hex", "dec"}]
        /\ Put(s, t).buf = b /\ Put(s, t).base = s.base /\ Put(s, t).put = n
    BY <1>1, <2>3
  <2> QED
    BY <1>1, <2>1, <2>2, <2>4
<1> QED
  BY <1>4, <1>7 DEF AtEnd

LEMMA PutNumberAtEnd ==
    ASSUME NEW s, AtEnd(s), NEW n \in Int
    PROVE  /\ AtEnd(PutNumber(s, n)) /\ PutNumber(s, n).base = s.base
           /\ PutNumber(s, n).buf = s.buf \o <<<<s.base, n>>>>
           /\ <<<<s.base, n>>>> \in Seq(Plain)
<1>1. s.base \in {"hex", "dec"}
  BY DEF AtEnd
<1>2. <<s.base, n>> \in Plain
  BY <1>1 DEF Plain
<1>3. <<<<s.base, n>>>> \in Seq(Plain)
  BY <1>2
<1> QED
  BY <1>3, PlainIsTok, PutAtEnd DEF PutNumber

LEMMA BaseAtEnd ==
    ASSUME NEW s, AtEnd(s), NEW b \in {"hex", "dec"}
    PROVE  AtEnd(Base(s, b)) /\ Base(s, b).buf = s.buf /\ Base(s, b).base = b
  BY DEF AtEnd, Base

LEMMA EmptyAtEnd == AtEnd(EmptyStream) /\ EmptyStream.buf = <<>>
  BY DEF AtEnd, EmptyStream

-----------------------------------------------------------------------------
(* ClassText and Render share the vocabulary.                              *)

LEMMA SameWords ==
    /\ \A w : Text!Lit(w) = Lit(w)
    /\ \A ws : Text!Words(ws) = Words(ws)
    /\ \A b, w : Text!Word1(b, w) = Word1(b, w)
    /\ Text!NL = NL /\ Text!Comma = Comma /\ Text!MethodEnd = MethodEnd
    /\ Text!BodyBegin = BodyBegin /\ Text!BodyEnd = BodyEnd
    /\ \A t : Text!Title(t) = Title(t)
<1>1. /\ \A w : Text!Lit(w) = Lit(w)
      /\ \A ws : Text!Words(ws) = Words(ws)
  BY DEF Text!Lit, Lit, Text!Words, Words
<1>2. \A b, w : Text!Word1(b, w) = Word1(b, w)
  BY DEF Text!Word1, Word1
<1>3. Text!NL = NL
  BY <1>1 DEF Text!NL, NL
<1>4. Text!Comma = Comma /\ Text!MethodEnd = MethodEnd
      /\ Text!BodyBegin = BodyBegin /\ Text!BodyEnd = BodyEnd
  BY <1>1 DEF Text!Comma, Comma, Text!MethodEnd, MethodEnd, Text!BodyBegin, BodyBegin,
              Text!BodyEnd, BodyEnd
<1>5. \A t : Text!Title(t) = Title(t)
  BY <1>1 DEF Text!Title, Title
<1> QED
  BY <1>1, <1>2, <1>3, <1>4, <1>5

LEMMA SameModifiers ==
    /\ \A f : Text!get_method_modifier(f) = get_method_modifier(f)
    /\ \A f : Text!FieldModifier(f) = FieldModifier(f)
    /\ \A p : Text!PropertyText(p) = PropertyText(p)
<1>1. \A a : Text!MemberAccess(a) = MemberAccess(a)
  BY DEF Text!MemberAccess, MemberAccess
<1>2. \A bits : Text!VirtualWords(bits) = VirtualWords(bits)
  BY SameWords DEF Text!VirtualWords, VirtualWords
<1>3. \A f : Text!get_method_modifier(f) = get_method_modifier(f)
  BY <1>1, <1>2, SameWords DEF Text!get_method_modifier, get_method_modifier
<1>4. \A f : Text!FieldModifier(f) = FieldModifier(f)
  BY <1>1, SameWords DEF Text!FieldModifier, FieldModifier
<1>5. \A p : Text!PropertyText(p) = PropertyText(p)
  BY <1>3, SameWords DEF Text!PropertyText, PropertyText
<1> QED
  BY <1>3, <1>4, <1>5

LEMMA SameHeader ==
    /\ \A h : Text!Extends(h) = Extends(h)
    /\ \A h : Text!NameLine(h) = NameLine(h)
    /\ \A h, k : Text!BaseText(h, k) = BaseText(h, k)
<1>1. \A h : Text!Extends(h) = Extends(h)
  BY SameWords DEF Text!Extends, Extends
<1>2. \A v : Text!Visibility(v) = Visibility(v)
  BY DEF Text!Visibility, Visibility
<1>3. \A h : Text!ClassModifier(h) = ClassModifier(h)
  BY SameWords DEF Text!ClassModifier, ClassModifier, Text!SealedClass, SealedClass
<1>4. \A h : Text!ClassKind(h) = ClassKind(h)
  BY DEF Text!ClassKind, ClassKind
<1>5. \A h : Text!NameLine(h) = NameLine(h)
  BY <1>2, <1>3, <1>4, SameWords DEF Text!NameLine, NameLine
<1>6. \A h, k : Text!BaseText(h, k) = BaseText(h, k)
  BY <1>1, SameWords DEF Text!BaseText, BaseText, Text!Name, Name
<1> QED
  BY <1>1, <1>5, <1>6

-----------------------------------------------------------------------------
(* Concatenation as an operator of its own: the provers then use nothing   *)
(* of it but these facts.                                                  *)

Texts == Seq(Tok)
Plains == Seq(Plain)
Cat(s, t) == s \o t

LEMMA CatType ==
    /\ \A s, t \in Texts : Cat(s, t) \in Texts
    /\ \A s, t \in Plains : Cat(s, t) \in Plains
    /\ \A s \in Plains : s \in Texts
<1>1. \A s, t \in Texts : Cat(s, t) \in Texts
  BY ConcatPlain DEF Cat, Texts
<1>2. \A s, t \in Plains : Cat(s, t) \in Plains
  BY ConcatPlain DEF Cat, Plains
<1> QED
  BY <1>1, <1>2, PlainIsTok DEF Texts, Plains

LEMMA CatAssoc == \A b, s, t \in Texts : Cat(Cat(b, s), t) = Cat(b, Cat(s, t))
<1>1. ASSUME NEW b \in Seq(Tok), NEW s \in Seq(Tok), NEW t \in Seq(Tok)
      PROVE  (b \o s) \o t = b \o (s \o t)
  BY ConcatAssociative
<1> QED
  BY <1>1 DEF Cat, Texts

LEMMA CatEmpty == /\ <<>> \in Plains
                  /\ \A s \in Texts : Cat(s, <<>>) = s /\ Cat(<<>>, s) = s
<1>1. ASSUME NEW s \in Seq(Tok)
      PROVE  s \o <<>> = s /\ <<>> \o s = s
  BY ConcatEmptySeq
<1> QED
  BY <1>1, EmptySeq DEF Cat, Texts, Plains

LEMMA PutCat ==
    ASSUME NEW s, AtEnd(s), NEW t \in Texts
    PROVE  /\ s.buf \in Texts /\ AtEnd(Put(s, t))
           /\ Put(s, t).buf = Cat(s.buf, t) /\ Put(s, t).base = s.base
<1>1. s.buf \in Seq(Tok)
  BY DEF AtEnd
<1> QED
  BY <1>1, PutAtEnd DEF Texts, Cat

LEMMA PutNumberCat ==
    ASSUME NEW s, AtEnd(s), NEW n \in Int
    PROVE  /\ AtEnd(PutNumber(s, n)) /\ PutNumber(s, n).base = s.base
           /\ PutNumber(s, n).buf = Cat(s.buf, <<<<s.base, n>>>>)
           /\ <<<<s.base, n>>>> \in Plains
  BY PutNumberAtEnd DEF Plains, Cat

LEMMA WordsPlains ==
    ASSUME NEW ws \in Seq(PlainWords)
    PROVE  Words(ws) \in Plains
  BY WordsPlain DEF Plains

-----------------------------------------------------------------------------
(* What a field appends to the stream: name, value and offset.             *)

LEMMA FieldHeadText ==
    ASSUME NEW s, AtEnd(s), NEW f
    PROVE  LET t == Words(<<"tab">>) \o FieldModifier(f) \o Words(<<"Type", "name">>)
           IN  /\ t \in Plains
               /\ AtEnd(FieldHead(s, f)) /\ FieldHead(s, f).buf = Cat(s.buf, t)
<1>1. PICK t : t = Words(<<"tab">>) \o FieldModifier(f) \o Words(<<"Type", "name">>)
  OBVIOUS
<1>2. t \in Plains
  BY <1>1, FixedPlain, FieldModifierPlain, ConcatPlain DEF Plains
<1>3. FieldHead(s, f) = Put(s, t)
  BY <1>1 DEF FieldHead
<1>4. AtEnd(Put(s, t)) /\ Put(s, t).buf = Cat(s.buf, t)
  BY <1>2, CatType, PutCat
<1> QED
  BY <1>1, <1>2, <1>3, <1>4

ValueText(f) ==
    IF "LITERAL" \in f.bits /\ header.enum
    THEN Cat(Words(<<"equals">>), <<<<"dec", Text!Constant(f)>>>>) ELSE <<>>

(* The bytes of a constant as an unsigned number.                          *)
LEMMA ConstantPrinted ==
    ASSUME NEW f \in Fields
    PROVE  f.value % f.size = Text!Constant(f) /\ Text!Constant(f) \in Int
<1>1. PICK v, m : v = f.value /\ m = f.size
  OBVIOUS
<1>2. v \in Int /\ m \in Nat \ {0} /\ -m <= v /\ v < m
  <2>1. f \in FieldRecords /\ -f.size <= f.value /\ f.value < f.size
    BY DEF Fields
  <2>2. v \in Int /\ m \in Nat \ {0}
    BY <1>1, <2>1 DEF FieldRecords
  <2> QED
    BY <1>1, <2>1, <2>2
<1>3. PICK r, k : r = v % m /\ k = v \div m
  OBVIOUS
<1>4. r \in 0 .. m - 1 /\ k \in Int /\ v = m * k + r
  BY <1>2, <1>3, DivMod
<1>5. CASE v >= 0
  <2>1. v \in 0 .. m - 1
    BY <1>2, <1>5
  <2>2. v = r
    BY <1>2, <1>4, <2>1, SameRemainder
  <2> QED
    BY <1>1, <1>2, <1>3, <1>5, <2>2 DEF Text!Constant
<1>6. CASE v < 0
  <2>1. PICK u : u = v + m
    OBVIOUS
  <2>2. u \in 0 .. m - 1
    BY <1>2, <1>6, <2>1
  <2>3. u = m * (k + 1) + r /\ k + 1 \in Int
    <3>1. m * (k + 1) = m * k + m /\ m * k \in Int
      BY <1>2, <1>4
    <3> QED
      BY <1>2, <1>4, <2>1, <3>1
  <2>4. u = r
    BY <1>2, <1>4, <2>2, <2>3, SameRemainder
  <2>5. ~(v >= 0)
    BY <1>2, <1>6
  <2>6. Text!Constant(f) = v + m
    BY <1>1, <2>5 DEF Text!Constant
  <2> QED
    BY <1>1, <1>2, <1>3, <2>1, <2>4, <2>6
<1> QED
  BY <1>2, <1>5, <1>6

LEMMA FieldValueText ==
    ASSUME NEW s, AtEnd(s), NEW f \in Fields
    PROVE  /\ ValueText(f) \in Plains
           /\ AtEnd(FieldValue(s, f)) /\ FieldValue(s, f).buf = Cat(s.buf, ValueText(f))
<1>1. PICK n : n = Text!Constant(f)
  OBVIOUS
<1>2. n \in Int /\ f.value % f.size = n
  BY <1>1, ConstantPrinted
<1>3. PICK w : w = Words(<<"equals">>)
  OBVIOUS
<1>4. w \in Plains
  <2>1. <<"equals">> \in Seq(PlainWords)
    BY DEF PlainWords
  <2> QED
    BY <1>3, <2>1, WordsPlains
<1>5. s.buf \in Texts
  BY DEF AtEnd, Texts
<1>6. CASE "LITERAL" \in f.bits /\ header.enum
  <2>1. PICK s1 : s1 = Put(s, w)
    OBVIOUS
  <2>2. AtEnd(s1) /\ s1.buf = Cat(s.buf, w)
    BY <1>4, <2>1, CatType, PutCat
  <2>3. AtEnd(EnumBase(s1)) /\ EnumBase(s1).buf = s1.buf /\ EnumBase(s1).base = "dec"
    BY <2>2, BaseAtEnd DEF EnumBase
  <2>4. PICK s2, d : s2 = PutNumber(EnumBase(s1), n) /\ d = <<<<"dec", n>>>>
    OBVIOUS
  <2>5. AtEnd(s2) /\ s2.buf = Cat(s1.buf, d) /\ d \in Plains
    BY <1>2, <2>3, <2>4, PutNumberCat
  <2>6. FieldValue(s, f) = s2 /\ ValueText(f) = Cat(w, d)
    BY <1>1, <1>2, <1>3, <1>6, <2>1, <2>4 DEF FieldValue, ValueText
  <2>7. w \in Texts /\ d \in Texts /\ Cat(w, d) \in Plains
    BY <1>4, <2>5, CatType
  <2>8. Cat(Cat(s.buf, w), d) = Cat(s.buf, Cat(w, d))
    BY <1>5, <2>7, CatAssoc
  <2> QED
    BY <2>2, <2>5, <2>6, <2>7, <2>8
<1>7. CASE ~("LITERAL" \in f.bits /\ header.enum)
  <2>1. FieldValue(s, f) = s /\ ValueText(f) = <<>>
    BY <1>7 DEF FieldValue, ValueText
  <2> QED
    BY <1>5, <2>1, CatEmpty
<1> QED
  BY <1>6, <1>7

LEMMA FieldOffsetText ==
    ASSUME NEW s, AtEnd(s), NEW f \in Fields
    PROVE  /\ Words(<<"offset">>) \in Texts /\ <<<<"hex", f.offset>>>> \in Plains
           /\ AtEnd(FieldOffset(s, f))
           /\ FieldOffset(s, f).buf
                = Cat(Cat(Cat(s.buf, Words(<<"offset">>)), <<<<"hex", f.offset>>>>), <<NL>>)
<1>1. f.offset \in Int
  BY DEF Fields, FieldRecords
<1>2. PICK w, e, n : w = Words(<<"offset">>) /\ e = <<NL>> /\ n = <<<<"hex", f.offset>>>>
  OBVIOUS
<1>3. w \in Texts /\ e \in Plains
  <2>1. "offset" \in AllWords
    BY DEF AllWords, CommentWords
  <2>2. <<"offset">> \in Seq(AllWords)
    BY <2>1
  <2> QED
    BY <1>2, <2>2, WordsTok, FixedPlain DEF Plains, Texts
<1>4. PICK s1 : s1 = Put(s, w)
  OBVIOUS
<1>5. AtEnd(s1) /\ s1.buf = Cat(s.buf, w)
  BY <1>3, <1>4, PutCat
<1>6. AtEnd(Base(s1, "hex")) /\ Base(s1, "hex").buf = s1.buf /\ Base(s1, "hex").base = "hex"
  BY <1>5, BaseAtEnd
<1>7. PICK s2 : s2 = PutNumber(Base(s1, "hex"), f.offset)
  OBVIOUS
<1>8. AtEnd(s2) /\ s2.buf = Cat(s1.buf, n) /\ n \in Plains
  BY <1>1, <1>2, <1>6, <1>7, PutNumberCat
<1>9. FieldOffset(s, f) = Put(s2, e)
  BY <1>2, <1>4, <1>7 DEF FieldOffset
<1>10. AtEnd(Put(s2, e)) /\ Put(s2, e).buf = Cat(s2.buf, e)
  BY <1>3, <1>8, CatType, PutCat
<1> QED
  BY <1>2, <1>3, <1>5, <1>8, <1>9, <1>10

(* dump_field appends the declaration of the field.                        *)
LEMMA FieldText ==
    ASSUME NEW s, AtEnd(s), NEW f \in Fields
    PROVE  /\ Text!DeclaredField(f) \in Texts
           /\ \E u \in Texts : Text!DeclaredField(f) = Cat(u, <<NL>>)
           /\ AtEnd(FieldOffset(FieldValue(FieldHead(s, f), f), f))
           /\ FieldOffset(FieldValue(FieldHead(s, f), f), f).buf
                = Cat(s.buf, Text!DeclaredField(f))
<1>1. PICK h : h = Words(<<"tab">>) \o FieldModifier(f) \o Words(<<"Type", "name">>)
  OBVIOUS
<1>2. PICK s1 : s1 = FieldHead(s, f)
  OBVIOUS
<1>3. h \in Plains /\ AtEnd(s1) /\ s1.buf = Cat(s.buf, h)
  BY <1>1, <1>2, FieldHeadText
<1>4. PICK s2, v : s2 = FieldValue(s1, f) /\ v = ValueText(f)
  OBVIOUS
<1>5. v \in Plains /\ AtEnd(s2) /\ s2.buf = Cat(s1.buf, v)
  BY <1>3, <1>4, FieldValueText
<1>6. PICK o, n, e : o = Words(<<"offset">>) /\ n = <<<<"hex", f.offset>>>> /\ e = <<NL>>
  OBVIOUS
<1>7. PICK s3 : s3 = FieldOffset(s2, f)
  OBVIOUS
<1>8. /\ o \in Texts /\ n \in Plains /\ AtEnd(s3)
      /\ s3.buf = Cat(Cat(Cat(s2.buf, o), n), e)
  BY <1>5, <1>6, <1>7, FieldOffsetText
<1>9. Text!DeclaredField(f) = Cat(Cat(Cat(Cat(h, v), o), n), e)
  BY <1>1, <1>4, <1>6, SameWords, SameModifiers
     DEF Text!DeclaredField, Text!Number, ValueText, header, Cat
<1>10. s.buf \in Texts /\ e \in Plains
  BY <1>6, FixedPlain DEF AtEnd, Texts, Plains
<1>11. PICK b : b = s.buf
  OBVIOUS
<1>12. b \in Texts /\ h \in Texts /\ v \in Texts /\ o \in Texts /\ n \in Texts /\ e \in Texts
  BY <1>3, <1>5, <1>8, <1>10, <1>11, CatType
<1>13. Cat(Cat(b, h), v) = Cat(b, Cat(h, v)) /\ Cat(h, v) \in Texts
  BY <1>12, CatAssoc, CatType
<1>14. /\ Cat(Cat(b, Cat(h, v)), o) = Cat(b, Cat(Cat(h, v), o))
       /\ Cat(Cat(h, v), o) \in Texts
  BY <1>12, <1>13, CatAssoc, CatType
<1>15. /\ Cat(Cat(b, Cat(Cat(h, v), o)), n) = Cat(b, Cat(Cat(Cat(h, v), o), n))
       /\ Cat(Cat(Cat(h, v), o), n) \in Texts
  BY <1>12, <1>14, CatAssoc, CatType
<1>16. Cat(Cat(b, Cat(Cat(Cat(h, v), o), n)), e) = Cat(b, Cat(Cat(Cat(Cat(h, v), o), n), e))
  BY <1>12, <1>15, CatAssoc
<1>17. Cat(Cat(Cat(Cat(h, v), o), n), e) \in Texts
  BY <1>12, <1>15, CatType
<1>18. \E u \in Texts : Text!DeclaredField(f) = Cat(u, <<NL>>)
  BY <1>6, <1>9, <1>15
<1> QED
  BY <1>2, <1>3, <1>4, <1>5, <1>7, <1>8, <1>9, <1>11, <1>13, <1>14, <1>15, <1>16, <1>17, <1>18

-----------------------------------------------------------------------------
(* What a method and its parameters append.                                *)

AddressText(m) ==
    IF m.ptr = 0 THEN Words(<<"RVA", "VA", "0">>)
    ELSE Cat(Cat(Cat(Words(<<"RVA">>), <<<<"hex", Rva(m.ptr)>>>>), Words(<<"VA">>)),
             <<<<"hex", m.ptr>>>>)

LEMMA RvaWords == Words(<<"RVA">>) \in Texts /\ Words(<<"RVA", "VA", "0">>) \in Texts
<1>1. "RVA" \in AllWords /\ "VA" \in AllWords /\ "0" \in AllWords
  BY DEF AllWords, PlainWords, CommentWords
<1>2. <<"RVA">> \in Seq(AllWords) /\ <<"RVA", "VA", "0">> \in Seq(AllWords)
  BY <1>1
<1> QED
  BY <1>2, WordsTok DEF Texts

LEMMA RvaType ==
    ASSUME NEW p \in Nat, il2cpp_base \in Nat
    PROVE  Rva(p) \in Int
  BY WordAssumption DEF Rva

LEMMA AddressPrinted ==
    ASSUME NEW s, AtEnd(s), NEW m \in Methods, il2cpp_base \in Nat
    PROVE  /\ AddressText(m) \in Texts
           /\ AtEnd(Address(s, m)) /\ Address(s, m).buf = Cat(s.buf, AddressText(m))
<1>1. m.ptr \in Nat /\ Rva(m.ptr) \in Int
  BY RvaType DEF Methods
<1>2. s.buf \in Texts
  BY DEF AtEnd, Texts
<1>3. CASE m.ptr = 0
  <2>1. Address(s, m) = Put(s, Words(<<"RVA", "VA", "0">>))
        /\ AddressText(m) = Words(<<"RVA", "VA", "0">>)
    BY <1>3 DEF Address, AddressText
  <2> QED
    BY <2>1, RvaWords, PutCat
<1>4. CASE m.ptr # 0
  <2>1. PICK r, a, v, p : /\ r = Words(<<"RVA">>) /\ a = <<<<"hex", Rva(m.ptr)>>>>
                          /\ v = Words(<<"VA">>) /\ p = <<<<"hex", m.ptr>>>>
    OBVIOUS
  <2>2. v \in Plains
    <3>1. <<"VA">> \in Seq(PlainWords)
      BY DEF PlainWords
    <3> QED
      BY <2>1, <3>1, WordsPlains
  <2>3. PICK s1 : s1 = Put(s, r)
    OBVIOUS
  <2>4. AtEnd(s1) /\ s1.buf = Cat(s.buf, r) /\ r \in Texts
    BY <2>1, <2>3, RvaWords, PutCat
  <2>5. PICK s2 : s2 = Base(s1, "hex")
    OBVIOUS
  <2>6. AtEnd(s2) /\ s2.buf = s1.buf /\ s2.base = "hex"
    BY <2>4, <2>5, BaseAtEnd
  <2>7. PICK s3 : s3 = PutNumber(s2, Rva(m.ptr))
    OBVIOUS
  <2>8. AtEnd(s3) /\ s3.buf = Cat(s2.buf, a) /\ s3.base = "hex" /\ a \in Plains
    BY <1>1, <2>1, <2>6, <2>7, PutNumberCat
  <2>9. PICK s4 : s4 = Put(s3, v)
    OBVIOUS
  <2>10. AtEnd(s4) /\ s4.buf = Cat(s3.buf, v) /\ s4.base = "hex"
    BY <2>2, <2>8, <2>9, CatType, PutCat
  <2>11. PICK s5 : s5 = PutNumber(s4, m.ptr)
    OBVIOUS
  <2>12. m.ptr \in Int
    BY <1>1
  <2>13. AtEnd(s5) /\ s5.buf = Cat(s4.buf, p) /\ p \in Plains
    BY <2>1, <2>10, <2>11, <2>12, PutNumberCat
  <2>14. Address(s, m) = s5 /\ AddressText(m) = Cat(Cat(Cat(r, a), v), p)
    BY <1>4, <2>1, <2>3, <2>5, <2>7, <2>9, <2>11 DEF Address, AddressText
  <2>15. r \in Texts /\ a \in Texts /\ v \in Texts /\ p \in Texts
    BY <2>2, <2>4, <2>8, <2>13, CatType
  <2>16. PICK b : b = s.buf
    OBVIOUS
  <2>17. Cat(Cat(b, r), a) = Cat(b, Cat(r, a)) /\ Cat(r, a) \in Texts
    BY <1>2, <2>15, <2>16, CatAssoc, CatType
  <2>18. Cat(Cat(b, Cat(r, a)), v) = Cat(b, Cat(Cat(r, a), v)) /\ Cat(Cat(r, a), v) \in Texts
    BY <1>2, <2>15, <2>16, <2>17, CatAssoc, CatType
  <2>19. /\ Cat(Cat(b, Cat(Cat(r, a), v)), p) = Cat(b, Cat(Cat(Cat(r, a), v), p))
         /\ Cat(Cat(Cat(r, a), v), p) \in Texts
    BY <1>2, <2>15, <2>16, <2>18, CatAssoc, CatType
  <2> QED
    BY <2>4, <2>6, <2>8, <2>10, <2>13, <2>14, <2>16, <2>17, <2>18, <2>19
<1> QED
  BY <1>3, <1>4

LEMMA Word1Same == \A b, c, w : (b <=> c) => Word1(b, w) = Word1(c, w)
  BY DEF Word1

(* dump_method appends the declaration up to the parameters.               *)
LEMMA MethodText ==
    ASSUME NEW s, AtEnd(s), NEW m \in Methods, BitsAreRight(m), il2cpp_base \in Nat,
           byrefApi \in BOOLEAN
    PROVE  /\ Text!DeclaredMethod(m) \in Texts
           /\ AtEnd(Signature(Address(s, m), m))
           /\ Signature(Address(s, m), m).buf = Cat(s.buf, Text!DeclaredMethod(m))
<1>1. PICK s1, a : s1 = Address(s, m) /\ a = AddressText(m)
  OBVIOUS
<1>2. a \in Texts /\ AtEnd(s1) /\ s1.buf = Cat(s.buf, a)
  BY <1>1, AddressPrinted
<1>3. m.ret \in [byref : BOOLEAN, bit : BOOLEAN]
  BY DEF Methods
<1>4. ByrefOf(m.ret) <=> m.ret.byref
  BY <1>3 DEF BitsAreRight, BitIsRight, ByrefOf
<1>5. PICK n, g, r : /\ n = Words(<<"newline", "tab">>) /\ g = get_method_modifier(m)
                     /\ r = Words(Word1(m.ret.byref, "ref") \o <<"Type", "name", "lparen">>)
  OBVIOUS
<1>6. n \in Plains /\ g \in Plains /\ r \in Plains
  <2>1. /\ <<"newline", "tab">> \in Seq(PlainWords) /\ "ref" \in PlainWords
        /\ <<"Type", "name", "lparen">> \in Seq(PlainWords)
    BY DEF PlainWords
  <2>2. Word1(m.ret.byref, "ref") \o <<"Type", "name", "lparen">> \in Seq(PlainWords)
    BY <2>1, Word1Plain, ConcatPlain
  <2> QED
    BY <1>5, <2>1, <2>2, WordsPlains, ModifierPlain DEF Plains
<1>7. PICK t : t = Cat(Cat(n, g), r)
  OBVIOUS
<1>8. Signature(s1, m) = Put(s1, t)
  BY <1>4, <1>5, <1>7, Word1Same DEF Signature, Cat
<1>9. t \in Texts
  BY <1>6, <1>7, CatType
<1>10. AtEnd(Put(s1, t)) /\ Put(s1, t).buf = Cat(s1.buf, t)
  BY <1>2, <1>9, PutCat
<1>11. Text!DeclaredMethod(m) = Cat(Cat(Cat(a, n), g), r)
  BY <1>1, <1>5, SameWords, SameModifiers DEF Text!DeclaredMethod, Text!Number, AddressText, Rva, Cat
<1>12. s.buf \in Texts /\ n \in Texts /\ g \in Texts /\ r \in Texts
  BY <1>6, CatType DEF AtEnd, Texts
<1>13. Cat(Cat(a, n), g) = Cat(a, Cat(n, g)) /\ Cat(n, g) \in Texts
  BY <1>2, <1>12, CatAssoc, CatType
<1>14. Cat(Cat(a, Cat(n, g)), r) = Cat(a, t)
  BY <1>2, <1>7, <1>12, <1>13, CatAssoc
<1>15. Cat(Cat(s.buf, a), t) = Cat(s.buf, Cat(a, t)) /\ Cat(a, t) \in Texts
  BY <1>2, <1>9, <1>12, CatAssoc, CatType
<1> QED
  BY <1>1, <1>2, <1>8, <1>10, <1>11, <1>13, <1>14, <1>15

(* A parameter is printed as it is declared.                               *)
LEMMA ParamPrinted ==
    ASSUME NEW p \in Params, BitIsRight(p), byrefApi \in BOOLEAN
    PROVE  ParamText(p) = Text!DeclaredParam(p) /\ ParamText(p) \in Plains
<1>1. p.byref \in BOOLEAN /\ p.bit \in BOOLEAN
  BY DEF Params
<1>2. ByrefOf(p) <=> p.byref
  BY <1>1 DEF BitIsRight, ByrefOf
<1>3. {"IN"} # {"OUT"}
  OBVIOUS
<1>4. /\ Word1("IN" \in p.bits, "In") \in Seq(PlainWords)
      /\ Word1("OUT" \in p.bits, "Out") \in Seq(PlainWords)
      /\ <<"in">> \in Seq(PlainWords) /\ <<"out">> \in Seq(PlainWords)
      /\ <<"ref">> \in Seq(PlainWords) /\ <<"Type", "name">> \in Seq(PlainWords)
  BY Word1Plain DEF PlainWords
<1>5. PICK w : w = Word1("IN" \in p.bits, "In") \o Word1("OUT" \in p.bits, "Out")
  OBVIOUS
<1>6. w \in Seq(PlainWords)
  BY <1>4, <1>5, ConcatPlain
<1>7. ParamWords(p) = Text!PassedBy(p)
  BY <1>1, <1>2, <1>3, SameWords DEF ParamWords, Text!PassedBy
<1>8. ParamWords(p) \in Seq(PlainWords)
  BY <1>1, <1>2, <1>3, <1>4, <1>5, <1>6 DEF ParamWords
<1>9. ParamText(p) = Text!DeclaredParam(p)
  BY <1>7, SameWords DEF ParamText, Text!DeclaredParam
<1>10. ParamText(p) \in Plains
  BY <1>4, <1>8, ConcatPlain, WordsPlains DEF ParamText
<1> QED
  BY <1>9, <1>10

-----------------------------------------------------------------------------
(* The comma that stands at the end of the stream between parameters.      *)

LEMMA DropComma ==
    ASSUME NEW b \in Texts
    PROVE  /\ Cat(b, Comma) \in Texts /\ Len(Cat(b, Comma)) = Len(b) + 2 /\ Len(b) \in Nat
           /\ SubSeq(Cat(b, Comma), 1, Len(Cat(b, Comma)) - 2) = b
<1>1. b \in Seq(Tok) /\ Comma \in Seq(Tok) /\ Len(Comma) = 2 /\ Len(b) \in Nat
  BY FixedPlain, PlainIsTok DEF Texts
<1>2. /\ b \o Comma \in Seq(Tok) /\ Len(b \o Comma) = Len(b) + 2
      /\ \A k \in 1 .. Len(b) : (b \o Comma)[k] = b[k]
  <2>1. PICK e : e = Comma
    OBVIOUS
  <2>2. e \in Seq(Tok) /\ Len(e) = 2
    BY <1>1, <2>1
  <2>3. /\ b \o e \in Seq(Tok) /\ Len(b \o e) = Len(b) + Len(e)
        /\ \A k \in 1 .. Len(b) + Len(e) : (b \o e)[k] = IF k <= Len(b) THEN b[k] ELSE e[k - Len(b)]
    BY <1>1, <2>2, ConcatProperties
  <2>4. \A k \in 1 .. Len(b) : (b \o e)[k] = b[k]
    BY <1>1, <2>2, <2>3
  <2> QED
    BY <2>1, <2>2, <2>3, <2>4
<1>3. PICK c, n : c = b \o Comma /\ n = Len(b)
  OBVIOUS
<1>4. SubSeq(c, 1, n) = b
  <2>1. n \in Nat /\ (\A k \in 1 .. n : c[k] = b[k] /\ b[k] \in Tok) /\ 1 \in Int /\ n \in Int
    BY <1>1, <1>2, <1>3
  <2>2. /\ SubSeq(c, 1, n) \in Seq(Tok)
        /\ Len(SubSeq(c, 1, n)) = IF 1 <= n THEN n - 1 + 1 ELSE 0
        /\ \A k \in 1 .. n - 1 + 1 : SubSeq(c, 1, n)[k] = c[1 + k - 1]
    BY <2>1, SubSeqProperties
  <2>3. PICK d : d = SubSeq(c, 1, n)
    OBVIOUS
  <2>4. d \in Seq(Tok) /\ Len(d) = n /\ \A k \in 1 .. n : d[k] = b[k]
    BY <2>1, <2>2, <2>3
  <2>5. d = b
    BY <1>1, <1>3, <2>4, SeqEqual
  <2> QED
    BY <2>3, <2>5
<1>5. Len(b) + 2 - 2 = Len(b)
  BY <1>1
<1> QED
  BY <1>1, <1>2, <1>3, <1>4, <1>5 DEF Cat, Texts

(* seekp(-2) and the end of the method: the comma is gone.                 *)
LEMMA SeekBackPut ==
    ASSUME NEW s, AtEnd(s), NEW b \in Texts, s.buf = Cat(b, Comma)
    PROVE  /\ AtEnd(Put(SeekBack(s, 2), MethodEnd))
           /\ Put(SeekBack(s, 2), MethodEnd).buf = Cat(b, MethodEnd)
<1>1. /\ s \in [buf : Seq(Tok), put : Nat, base : {"hex", "dec"}]
      /\ s.buf \in Seq(Tok) /\ s.put = Len(s.buf) /\ Len(s.buf) = Len(b) + 2 /\ Len(b) \in Nat
  BY DropComma DEF AtEnd
<1>2. PICK q : q = SeekBack(s, 2)
  OBVIOUS
<1>3. /\ q \in [buf : Seq(Tok), put : Nat, base : {"hex", "dec"}]
      /\ q.buf = s.buf /\ q.put = Len(b) /\ q.base = s.base
  BY <1>1, <1>2 DEF SeekBack
<1>4. SubSeq(q.buf, 1, q.put) = b
  <2>1. SubSeq(s.buf, 1, Len(s.buf) - 2) = b
    BY DropComma
  <2>2. Len(s.buf) - 2 = q.put
    BY <1>1, <1>3
  <2> QED
    BY <1>3, <2>1, <2>2
<1>5. PICK e : e = MethodEnd
  OBVIOUS
<1>6. e \in Seq(Tok) /\ Len(e) = 6
  BY <1>5, FixedPlain, PlainIsTok
<1>7. SubSeq(q.buf, q.put + Len(e) + 1, Len(q.buf)) = <<>>
  <2>1. q.buf \in Seq(Tok) /\ q.put + Len(e) + 1 \in Int /\ Len(q.buf) \in Int
        /\ q.put + Len(e) + 1 > Len(q.buf)
    BY <1>1, <1>3, <1>6
  <2> QED
    BY <2>1, SubSeqEmpty
<1>8. b \in Seq(Tok) /\ b \o e \in Seq(Tok) /\ Len(b \o e) = Len(b) + Len(e)
  BY <1>6, ConcatProperties DEF Texts
<1>9. (b \o e) \o <<>> = b \o e
  BY <1>8, ConcatEmptySeq
<1>10. PICK c, n : c = b \o e /\ n = Len(b) + Len(e)
  OBVIOUS
<1>11. Put(q, e) = [q EXCEPT !.buf = c, !.put = n]
  BY <1>3, <1>4, <1>7, <1>9, <1>10 DEF Put
<1>12. c \in Seq(Tok) /\ n \in Nat /\ n = Len(c)
  BY <1>1, <1>6, <1>8, <1>10
<1>13. /\ Put(q, e) \in [buf : Seq(Tok), put : Nat, base : {"hex", "dec"}]
       /\ Put(q, e).buf = c /\ Put(q, e).put = n
  BY <1>3, <1>11, <1>12
<1> QED
  BY <1>2, <1>5, <1>10, <1>12, <1>13 DEF AtEnd, Cat

-----------------------------------------------------------------------------
(* The invariant behind the refinement.                                    *)

RunInv ==
    /\ maps \in Maps /\ class \in Classes /\ byrefApi \in BOOLEAN
    /\ il2cpp_base = (IF dladdrOk THEN LoadBase(maps) ELSE get_module_base(maps))
    /\ il2cpp_base \in Nat

MembersInv ==
    members \in [field : Seq(Fields), property : Seq(Properties), method : Seq(Methods)]

PlaceInv ==
    /\ section \in {"type", "bases", "field", "property", "method", "done"}
    /\ i \in Nat
    /\ section = "bases" => i \in 1 .. Len(Extends(header)) + 1
    /\ section \notin {"bases", "method"} => i = 0
    /\ section = "type" => outPut = <<>>

(* Parameters are printed of the method that came last.                    *)
ParamsInv ==
    section = "method" /\ i > 0 =>
        /\ members.method # <<>>
        /\ BitsAreRight(members.method[Len(members.method)])
        /\ i <= Len(params) + 1

(* The put pointer is at the end, where the comma behind a parameter is.   *)
StreamInv ==
    /\ outPut \in Texts /\ AtEnd(stream)
    /\ section \in {"type", "bases"} => stream.buf = <<>>
    /\ section = "method" /\ i > 1 => Kept \in Texts /\ stream.buf = Cat(Kept, Comma)

IInv == RunInv /\ MembersInv /\ PlaceInv /\ ParamsInv /\ StreamInv

LEMMA ClassType ==
    ASSUME RunInv
    PROVE  /\ header \in Headers /\ class.fields \subseteq Fields
           /\ class.properties \subseteq Properties /\ class.methods \subseteq Methods
  BY ClassesAssumption DEF RunInv, header

LEMMA VisibleCat ==
    /\ Visible = Cat(outPut, Kept)
    /\ ~(section = "method" /\ i > 1) => Visible = Cat(outPut, stream.buf)
  BY DEF Visible, Kept, Cat

-----------------------------------------------------------------------------
(* Every action of Render is one of ClassText and keeps the invariant.     *)

LEMMA RunKept ==
    ASSUME RunInv, UNCHANGED runVars
    PROVE  RunInv'
  BY DEF RunInv, runVars, LoadBase, get_module_base, Matches

(* Outside of the parameter loop the whole stream is visible.              *)
LEMMA VisibleNext == ~(section' = "method" /\ i' > 1) => Visible' = Cat(outPut', stream'.buf)
  BY DEF Visible, Kept, Cat

LEMMA TypeStep ==
    ASSUME IInv, dump_type
    PROVE  IInv' /\ Text!Header
<1> USE DEF IInv
<1>1. /\ section = "type" /\ section' = "bases" /\ i' = 1 /\ stream' = stream
      /\ members' = members /\ UNCHANGED runVars
  BY DEF dump_type
<1>2. PICK n : n = NameLine(header)
  OBVIOUS
<1>3. n \in Texts
  BY <1>2, ClassType, NameLineType DEF Texts
<1>4. outPut' = Cat(outPut, n)
  BY <1>2 DEF dump_type, Cat
<1>5. outPut \in Texts /\ stream.buf = <<>> /\ AtEnd(stream)
  BY <1>1 DEF StreamInv
<1>6. outPut' \in Texts
  BY <1>3, <1>4, <1>5, CatType
<1>7. Visible = outPut /\ Visible' = Cat(outPut, n)
  BY <1>1, <1>4, <1>5, <1>6, VisibleCat, VisibleNext, CatEmpty
<1>8. Text!Header
  BY <1>1, <1>2, <1>7, SameHeader
     DEF Text!Header, Text!Go, Text!Write, runVars, header, Cat
<1>9. MembersInv' /\ ParamsInv' /\ StreamInv'
  BY <1>1, <1>5, <1>6 DEF MembersInv, ParamsInv, StreamInv
<1>10. PlaceInv'
  <2>1. Extends(header)' = Extends(header)
    BY <1>1 DEF Extends, header, runVars
  <2>2. Len(Extends(header)) \in Nat
    BY ClassType, ExtendsType
  <2> QED
    BY <1>1, <2>1, <2>2 DEF PlaceInv
<1> QED
  BY <1>1, <1>8, <1>9, <1>10, RunKept

LEMMA BaseStep ==
    ASSUME IInv, PrintBase
    PROVE  IInv' /\ Text!Base
<1> USE DEF IInv
<1>1. /\ section = "bases" /\ section' = section /\ i' = i + 1 /\ stream' = stream
      /\ i <= Len(Extends(header)) /\ members' = members /\ UNCHANGED runVars
  BY DEF PrintBase
<1>2. i \in 1 .. Len(Extends(header))
  BY <1>1 DEF PlaceInv
<1>3. PICK n : n = BaseText(header, i)
  OBVIOUS
<1>4. n \in Texts
  BY <1>2, <1>3, ClassType, BaseTextPlain, CatType DEF Plains
<1>5. outPut' = Cat(outPut, n)
  BY <1>3 DEF PrintBase, Cat
<1>6. outPut \in Texts /\ stream.buf = <<>> /\ AtEnd(stream)
  BY <1>1 DEF StreamInv
<1>7. outPut' \in Texts
  BY <1>4, <1>5, <1>6, CatType
<1>8. Visible = outPut /\ Visible' = Cat(outPut, n)
  BY <1>1, <1>5, <1>6, <1>7, VisibleCat, VisibleNext, CatEmpty
<1>9. Text!Base
  BY <1>1, <1>3, <1>8, SameHeader DEF Text!Base, Text!Write, runVars, header, Cat
<1>10. MembersInv' /\ ParamsInv' /\ StreamInv'
  BY <1>1, <1>6, <1>7 DEF MembersInv, ParamsInv, StreamInv
<1>11. PlaceInv'
  <2>1. Extends(header)' = Extends(header)
    BY <1>1 DEF Extends, header, runVars
  <2>2. Len(Extends(header)) \in Nat
    BY ClassType, ExtendsType
  <2> QED
    BY <1>1, <1>2, <2>1, <2>2 DEF PlaceInv
<1> QED
  BY <1>1, <1>9, <1>10, <1>11, RunKept

(* The stream of a function that has just printed its title.               *)
LEMMA TitleStream ==
    ASSUME NEW t \in Titles
    PROVE  /\ Title(t) \in Texts /\ AtEnd(Put(EmptyStream, Title(t)))
           /\ Put(EmptyStream, Title(t)).buf = Title(t)
<1>1. Title(t) \in Texts
  BY TitleText DEF Texts
<1>2. /\ AtEnd(Put(EmptyStream, Title(t)))
      /\ Put(EmptyStream, Title(t)).buf = Cat(EmptyStream.buf, Title(t))
  BY <1>1, EmptyAtEnd, PutCat
<1> QED
  BY <1>1, <1>2, EmptyAtEnd, CatEmpty

LEMMA BodyStep ==
    ASSUME IInv, BeginBody
    PROVE  IInv' /\ Text!Body
<1> USE DEF IInv
<1>1. /\ section = "bases" /\ section' = "field" /\ i' = 0 /\ i > Len(Extends(header))
      /\ members' = members /\ UNCHANGED runVars
  BY DEF BeginBody
<1>2. PICK n, t : n = BodyBegin /\ t = Title("Fields")
  OBVIOUS
<1>3. n \in Texts /\ t \in Texts /\ AtEnd(stream') /\ stream'.buf = t
  <2>1. "Fields" \in Titles
    BY DEF Titles
  <2> QED
    BY <1>2, <2>1, FixedPlain, CatType, TitleStream DEF BeginBody, Plains
<1>4. outPut' = Cat(outPut, n)
  BY <1>2 DEF BeginBody, Cat
<1>5. outPut \in Texts /\ stream.buf = <<>>
  BY <1>1 DEF StreamInv
<1>6. outPut' \in Texts
  BY <1>3, <1>4, <1>5, CatType
<1>7. Visible = outPut /\ Visible' = Cat(Cat(outPut, n), t)
  BY <1>1, <1>3, <1>4, <1>5, VisibleCat, VisibleNext, CatEmpty
<1>8. Visible' = Cat(Visible, Cat(n, t))
  BY <1>3, <1>5, <1>7, CatAssoc
<1>9. Text!Body
  BY <1>1, <1>2, <1>8, SameHeader, SameWords
     DEF Text!Body, Text!Go, Text!Write, runVars, header, Cat
<1>10. MembersInv' /\ ParamsInv' /\ StreamInv' /\ PlaceInv'
  BY <1>1, <1>3, <1>6 DEF MembersInv, ParamsInv, StreamInv, PlaceInv
<1> QED
  BY <1>1, <1>9, <1>10, RunKept

LEMMA FieldStep ==
    ASSUME IInv, NEW f \in class.fields, dump_field(f)
    PROVE  IInv' /\ Text!Field(f)
<1> USE DEF IInv
<1>1. /\ section = "field" /\ section' = section /\ i = 0 /\ i' = 0 /\ outPut' = outPut
      /\ members' = [members EXCEPT !["field"] = Append(@, f)] /\ UNCHANGED runVars
      /\ stream' = FieldOffset(FieldValue(FieldHead(stream, f), f), f)
  BY DEF dump_field, Member
<1>2. f \in Fields
  BY ClassType
<1>3. PICK t : t = Text!DeclaredField(f)
  OBVIOUS
<1>4. outPut \in Texts /\ AtEnd(stream) /\ stream.buf \in Texts
  BY DEF StreamInv, AtEnd, Texts
<1>5. t \in Texts /\ AtEnd(stream') /\ stream'.buf = Cat(stream.buf, t)
  BY <1>1, <1>2, <1>3, <1>4, FieldText
<1>6. Visible = Cat(outPut, stream.buf) /\ Visible' = Cat(outPut, Cat(stream.buf, t))
  BY <1>1, <1>5, VisibleCat, VisibleNext
<1>7. Visible' = Cat(Visible, t)
  BY <1>4, <1>5, <1>6, CatAssoc
<1>8. Text!Field(f)
  BY <1>1, <1>3, <1>7 DEF Text!Field, Text!Member, Text!Write, runVars, Cat
<1>9. MembersInv'
  <2>1. members.field \in Seq(Fields)
    BY DEF MembersInv
  <2>2. Append(members.field, f) \in Seq(Fields)
    BY <1>2, <2>1
  <2> QED
    BY <1>1, <2>2 DEF MembersInv
<1>10. ParamsInv' /\ StreamInv' /\ PlaceInv'
  BY <1>1, <1>4, <1>5 DEF ParamsInv, StreamInv, PlaceInv
<1> QED
  BY <1>1, <1>8, <1>9, <1>10, RunKept

LEMMA PropertyStep ==
    ASSUME IInv, NEW p \in class.properties, dump_property(p)
    PROVE  IInv' /\ Text!Property(p)
<1> USE DEF IInv
<1>1. /\ section = "property" /\ section' = section /\ i = 0 /\ i' = 0 /\ outPut' = outPut
      /\ members' = [members EXCEPT !["property"] = Append(@, p)] /\ UNCHANGED runVars
      /\ stream' = Put(stream, PropertyText(p))
  BY DEF dump_property, Member
<1>2. p \in Properties
  BY ClassType
<1>3. PICK t : t = PropertyText(p)
  OBVIOUS
<1>4. outPut \in Texts /\ AtEnd(stream) /\ stream.buf \in Texts
  BY DEF StreamInv, AtEnd, Texts
<1>5. t \in Texts
  BY <1>3, PropertyType DEF Texts
<1>6. AtEnd(stream') /\ stream'.buf = Cat(stream.buf, t)
  BY <1>1, <1>3, <1>4, <1>5, PutCat
<1>7. Visible = Cat(outPut, stream.buf) /\ Visible' = Cat(outPut, Cat(stream.buf, t))
  BY <1>1, <1>6, VisibleCat, VisibleNext
<1>8. Visible' = Cat(Visible, t)
  BY <1>4, <1>5, <1>7, CatAssoc
<1>9. Text!Property(p)
  BY <1>1, <1>3, <1>8, SameModifiers DEF Text!Property, Text!Member, Text!Write, runVars, Cat
<1>10. MembersInv'
  <2>1. members.property \in Seq(Properties)
    BY DEF MembersInv
  <2>2. Append(members.property, p) \in Seq(Properties)
    BY <1>2, <2>1
  <2> QED
    BY <1>1, <2>2 DEF MembersInv
<1>11. ParamsInv' /\ StreamInv' /\ PlaceInv'
  BY <1>1, <1>4, <1>6 DEF ParamsInv, StreamInv, PlaceInv
<1> QED
  BY <1>1, <1>9, <1>10, <1>11, RunKept

LEMMA MethodStep ==
    ASSUME IInv, NEW m \in class.methods, dump_method(m)
    PROVE  IInv' /\ Text!Method(m)
<1> USE DEF IInv
<1>1. /\ section = "method" /\ section' = section /\ i = 0 /\ i' = 1 /\ outPut' = outPut
      /\ members' = [members EXCEPT !["method"] = Append(@, m)] /\ UNCHANGED runVars
      /\ stream' = Signature(Address(stream, m), m) /\ BitsAreRight(m)
  BY DEF dump_method, Member
<1>2. m \in Methods /\ il2cpp_base \in Nat /\ byrefApi \in BOOLEAN
  BY ClassType DEF RunInv
<1>3. PICK t : t = Text!DeclaredMethod(m)
  OBVIOUS
<1>4. outPut \in Texts /\ AtEnd(stream) /\ stream.buf \in Texts
  BY DEF StreamInv, AtEnd, Texts
<1>5. t \in Texts /\ AtEnd(stream') /\ stream'.buf = Cat(stream.buf, t)
  BY <1>1, <1>2, <1>3, <1>4, MethodText
<1>6. Visible = Cat(outPut, stream.buf) /\ Visible' = Cat(outPut, Cat(stream.buf, t))
  BY <1>1, <1>5, VisibleCat, VisibleNext
<1>7. Visible' = Cat(Visible, t)
  BY <1>4, <1>5, <1>6, CatAssoc
<1>8. Text!Method(m)
  BY <1>1, <1>3, <1>7 DEF Text!Method, Text!Member, Text!Write, runVars, Cat
<1>9. PICK ms : ms = Append(members.method, m)
  OBVIOUS
<1>10. ms \in Seq(Methods) /\ ms # <<>> /\ ms[Len(ms)] = m
  <2>1. members.method \in Seq(Methods)
    BY DEF MembersInv
  <2> QED
    BY <1>2, <1>9, <2>1
<1>11. MembersInv' /\ members'.method = ms
  BY <1>1, <1>9, <1>10 DEF MembersInv
<1>12. ParamsInv'
  <2>1. BitsAreRight(m)'
    BY <1>1 DEF BitsAreRight, BitIsRight, runVars
  <2>2. m.params \in Seq(Params)
    BY <1>2 DEF Methods
  <2>3. params' = m.params
    BY <1>10, <1>11 DEF params
  <2>4. i' <= Len(m.params) + 1
    BY <1>1, <2>2
  <2>5. BitsAreRight(members.method[Len(members.method)])'
    BY <1>10, <1>11, <2>1 DEF BitsAreRight, BitIsRight
  <2> QED
    BY <1>10, <1>11, <2>3, <2>4, <2>5 DEF ParamsInv
<1>13. StreamInv' /\ PlaceInv'
  BY <1>1, <1>4, <1>5 DEF StreamInv, PlaceInv
<1> QED
  BY <1>1, <1>8, <1>11, <1>12, <1>13, RunKept

(* The parameters of the method that came last.                            *)
LEMMA ParamsType ==
    ASSUME IInv, section = "method", i > 0
    PROVE  /\ params \in Seq(Params) /\ i \in Nat /\ i <= Len(params) + 1 /\ Len(params) \in Nat
           /\ \A k \in 1 .. Len(params) : params[k] \in Params /\ BitIsRight(params[k])
           /\ Text!params = params /\ byrefApi \in BOOLEAN
<1> USE DEF IInv
<1>1. PICK ms : ms = members.method
  OBVIOUS
<1>2. ms \in Seq(Methods) /\ ms # <<>> /\ BitsAreRight(ms[Len(ms)]) /\ i <= Len(params) + 1
  BY <1>1 DEF MembersInv, ParamsInv
<1>3. ms[Len(ms)] \in Methods
  BY <1>2
<1>4. PICK m : m = ms[Len(ms)]
  OBVIOUS
<1>5. m \in Methods /\ params = m.params /\ BitsAreRight(m)
  BY <1>1, <1>2, <1>3, <1>4 DEF params
<1>6. params \in Seq(Params)
  BY <1>5 DEF Methods
<1>7. \A k \in 1 .. Len(params) : params[k] \in Params /\ BitIsRight(params[k])
  BY <1>5, <1>6 DEF BitsAreRight
<1>8. Text!params = params
  BY DEF Text!params, params
<1> QED
  BY <1>2, <1>6, <1>7, <1>8 DEF PlaceInv, RunInv

LEMMA ParamStep ==
    ASSUME IInv, PrintParam
    PROVE  IInv' /\ Text!Parameter
<1> USE DEF IInv
<1>1. /\ section = "method" /\ section' = section /\ i > 0 /\ i <= Len(params) /\ i' = i + 1
      /\ stream' = Put(Put(stream, ParamText(params[i])), Comma)
      /\ outPut' = outPut /\ members' = members /\ UNCHANGED runVars
  BY DEF PrintParam
<1>2. i \in 1 .. Len(params) /\ Len(params) \in Nat
  BY <1>1, ParamsType
<1>3. params[i] \in Params /\ BitIsRight(params[i]) /\ byrefApi \in BOOLEAN
  BY <1>1, <1>2, ParamsType
<1>4. PICK p : p = ParamText(params[i])
  OBVIOUS
<1>5. p = Text!DeclaredParam(params[i]) /\ p \in Texts
  BY <1>3, <1>4, ParamPrinted, CatType
<1>6. PICK b : b = stream.buf
  OBVIOUS
<1>7. outPut \in Texts /\ AtEnd(stream) /\ b \in Texts
  BY <1>6 DEF StreamInv, AtEnd, Texts
<1>8. Comma \in Texts /\ <<>> \in Texts
  BY FixedPlain, CatType, CatEmpty DEF Plains
<1>9. PICK s : s = Put(stream, p)
  OBVIOUS
<1>10. AtEnd(s) /\ s.buf = Cat(b, p) /\ Cat(b, p) \in Texts
  BY <1>5, <1>6, <1>7, <1>9, PutCat, CatType
<1>11. AtEnd(stream') /\ stream'.buf = Cat(Cat(b, p), Comma)
  BY <1>1, <1>4, <1>8, <1>9, <1>10, PutCat
<1>12. Kept' = Cat(b, p)
  <2>1. i' > 1
    BY <1>1, <1>2
  <2>2. Kept' = SubSeq(stream'.buf, 1, Len(stream'.buf) - 2)
    BY <1>1, <2>1 DEF Kept
  <2> QED
    BY <1>10, <1>11, <2>2, DropComma
<1>13. Visible' = Cat(outPut, Cat(b, p))
  BY <1>1, <1>12 DEF Visible, Cat
<1>14. PICK t : t = Cat(IF i = 1 THEN <<>> ELSE Comma, p)
  OBVIOUS
<1>15. Visible' = Cat(Visible, t)
  <2>1. CASE i = 1
    <3>1. Visible = Cat(outPut, b) /\ t = p
      BY <1>5, <1>6, <1>14, <2>1, VisibleCat, CatEmpty
    <3> QED
      BY <1>5, <1>7, <1>13, <3>1, CatAssoc
  <2>2. CASE i # 1
    <3>1. i > 1
      BY <1>2, <2>2
    <3>2. Kept \in Texts /\ b = Cat(Kept, Comma)
      BY <1>1, <1>6, <3>1 DEF StreamInv
    <3>3. Visible = Cat(outPut, Kept) /\ t = Cat(Comma, p)
      BY <1>14, <2>2, VisibleCat
    <3>4. PICK k, o, c : k = Kept /\ o = outPut /\ c = Comma
      OBVIOUS
    <3>5. k \in Texts /\ o \in Texts /\ c \in Texts /\ Cat(c, p) \in Texts
      BY <1>5, <1>7, <1>8, <3>2, <3>4, CatType
    <3>6. Cat(Cat(k, c), p) = Cat(k, Cat(c, p))
      BY <1>5, <3>5, CatAssoc
    <3>7. Cat(Cat(o, k), Cat(c, p)) = Cat(o, Cat(k, Cat(c, p)))
      BY <3>5, CatAssoc
    <3> QED
      BY <1>13, <3>2, <3>3, <3>4, <3>6, <3>7
  <2> QED
    BY <2>1, <2>2
<1>16. Text!Parameter
  <2>1. Text!Write((IF i = 1 THEN <<>> ELSE Text!Comma) \o Text!DeclaredParam(Text!params[i]))
    BY <1>1, <1>5, <1>14, <1>15, ParamsType, SameWords DEF Text!Write, Cat
  <2>2. i <= Len(Text!params)
    BY <1>1, ParamsType
  <2> QED
    BY <1>1, <2>1, <2>2 DEF Text!Parameter, runVars
<1>17. params' = params
  BY <1>1 DEF params
<1>18. MembersInv' /\ PlaceInv'
  BY <1>1, <1>2 DEF MembersInv, PlaceInv
<1>19. ParamsInv'
  <2>1. i' <= Len(params) + 1
    BY <1>1, <1>2
  <2>2. members.method # <<>> /\ BitsAreRight(members.method[Len(members.method)])
    BY <1>1 DEF ParamsInv
  <2>3. BitsAreRight(members.method[Len(members.method)])'
    BY <1>1, <2>2 DEF BitsAreRight, BitIsRight, runVars
  <2> QED
    BY <1>1, <1>17, <2>1, <2>2, <2>3 DEF ParamsInv
<1>20. StreamInv'
  BY <1>1, <1>7, <1>10, <1>11, <1>12 DEF StreamInv
<1> QED
  BY <1>1, <1>16, <1>18, <1>19, <1>20, RunKept

LEMMA EndMethodStep ==
    ASSUME IInv, EndMethod
    PROVE  IInv' /\ Text!MethodDone
<1> USE DEF IInv
<1>1. /\ section = "method" /\ section' = section /\ i > 0 /\ i > Len(params) /\ i' = 0
      /\ stream' = Put(IF DropsComma(params) THEN SeekBack(stream, 2) ELSE stream, MethodEnd)
      /\ outPut' = outPut /\ members' = members /\ UNCHANGED runVars
  BY DEF EndMethod
<1>2. i \in Nat /\ i <= Len(params) + 1 /\ Len(params) \in Nat
  BY <1>1, ParamsType
<1>3. PICK e : e = MethodEnd
  OBVIOUS
<1>4. e \in Texts
  BY <1>3, FixedPlain, CatType DEF Plains
<1>5. outPut \in Texts /\ AtEnd(stream) /\ stream.buf \in Texts
  BY DEF StreamInv, AtEnd, Texts
<1>6. /\ Kept \in Texts /\ AtEnd(stream') /\ stream'.buf = Cat(Kept, e)
  <2>1. CASE Len(params) > 0
    <3>1. i > 1
      BY <1>1, <1>2, <2>1
    <3>2. Kept \in Texts /\ stream.buf = Cat(Kept, Comma)
      BY <1>1, <3>1 DEF StreamInv
    <3>3. stream' = Put(SeekBack(stream, 2), MethodEnd)
      BY <1>1, <2>1 DEF DropsComma
    <3> QED
      BY <1>3, <1>5, <3>2, <3>3, SeekBackPut
  <2>2. CASE ~(Len(params) > 0)
    <3>1. i = 1
      BY <1>1, <1>2, <2>2
    <3>2. Kept = stream.buf
      BY <3>1 DEF Kept
    <3>3. stream' = Put(stream, e)
      BY <1>1, <1>3, <2>2 DEF DropsComma
    <3> QED
      BY <1>4, <1>5, <3>2, <3>3, PutCat
  <2> QED
    BY <2>1, <2>2
<1>7. Visible = Cat(outPut, Kept) /\ Visible' = Cat(outPut, Cat(Kept, e))
  BY <1>1, <1>6, VisibleCat, VisibleNext
<1>8. Visible' = Cat(Visible, e)
  BY <1>4, <1>5, <1>6, <1>7, CatAssoc
<1>9. Text!MethodDone
  <2>1. Text!Write(Text!MethodEnd)
    BY <1>3, <1>8, SameWords DEF Text!Write, Cat
  <2>2. i > Len(Text!params)
    BY <1>1, ParamsType
  <2> QED
    BY <1>1, <2>1, <2>2 DEF Text!MethodDone, runVars
<1>10. MembersInv' /\ PlaceInv' /\ ParamsInv' /\ StreamInv'
  BY <1>1, <1>5, <1>6 DEF MembersInv, PlaceInv, ParamsInv, StreamInv
<1> QED
  BY <1>1, <1>9, <1>10, RunKept

LEMMA SectionStep ==
    ASSUME IInv, NEW from, NEW to, NEW t \in Texts,
           <<from, to>> \in {<<"field", "property">>, <<"property", "method">>},
           EndSection(from, to, stream.buf, Put(EmptyStream, t)),
           AtEnd(Put(EmptyStream, t)), Put(EmptyStream, t).buf = t
    PROVE  IInv' /\ Text!Section(from, to, t)
<1> USE DEF IInv
<1>1. /\ section = from /\ section' = to /\ i = 0 /\ i' = 0 /\ stream' = Put(EmptyStream, t)
      /\ outPut' = Cat(outPut, stream.buf) /\ members' = members /\ UNCHANGED runVars
  BY DEF EndSection, Cat
<1>2. from \in {"field", "property"} /\ to \in {"property", "method"}
  OBVIOUS
<1>3. outPut \in Texts /\ AtEnd(stream) /\ stream.buf \in Texts
  BY DEF StreamInv, AtEnd, Texts
<1>4. Visible = Cat(outPut, stream.buf) /\ Visible' = Cat(Cat(outPut, stream.buf), t)
  BY <1>1, VisibleCat, VisibleNext
<1>5. Text!Section(from, to, t)
  BY <1>1, <1>4 DEF Text!Section, Text!Go, Text!Write, runVars, Cat
<1>6. outPut' \in Texts
  BY <1>1, <1>3, CatType
<1>7. MembersInv' /\ PlaceInv' /\ ParamsInv' /\ StreamInv'
  BY <1>1, <1>2, <1>6 DEF MembersInv, PlaceInv, ParamsInv, StreamInv
<1> QED
  BY <1>1, <1>5, <1>7, RunKept

LEMMA DoneStep ==
    ASSUME IInv, EndMethods
    PROVE  IInv' /\ Text!Section("method", "done", Text!BodyEnd)
<1> USE DEF IInv
<1>1. PICK e : e = BodyEnd
  OBVIOUS
<1>2. /\ section = "method" /\ section' = "done" /\ i = 0 /\ i' = 0 /\ stream' = EmptyStream
      /\ outPut' = Cat(outPut, Cat(stream.buf, e)) /\ members' = members /\ UNCHANGED runVars
  BY <1>1 DEF EndMethods, EndSection, Cat
<1>3. outPut \in Texts /\ stream.buf \in Texts /\ e \in Texts
  BY <1>1, FixedPlain, CatType DEF StreamInv, AtEnd, Texts, Plains
<1>4. outPut' \in Texts
  BY <1>2, <1>3, CatType
<1>5. Visible = Cat(outPut, stream.buf) /\ Visible' = outPut'
  BY <1>2, <1>4, VisibleCat, VisibleNext, EmptyAtEnd, CatEmpty
<1>6. Visible' = Cat(Visible, e)
  BY <1>2, <1>3, <1>5, CatAssoc
<1>7. Text!Section("method", "done", Text!BodyEnd)
  BY <1>1, <1>2, <1>6, SameWords DEF Text!Section, Text!Go, Text!Write, runVars, Cat
<1>8. MembersInv' /\ PlaceInv' /\ ParamsInv' /\ StreamInv'
  BY <1>2, <1>4, EmptyAtEnd DEF MembersInv, PlaceInv, ParamsInv, StreamInv
<1> QED
  BY <1>2, <1>7, <1>8, RunKept

-----------------------------------------------------------------------------
(* Where libil2cpp.so is.                                                  *)

LEMMA Least ==
    ASSUME NEW T \in SUBSET Nat, T # {}
    PROVE  \E n \in T : \A m \in T : n <= m
<1>1. PICK R : R = OpToRel(<, Nat)
  OBVIOUS
<1>2. IsWellFoundedOn(R, Nat)
  BY <1>1, NatLessThanWellFounded
<1>3. PICK x \in T : \A y \in T : ~(<<y, x>> \in R)
  BY <1>2, WFMin
<1>4. \A y \in T : ~(y < x)
  BY <1>1, <1>3 DEF OpToRel
<1> QED
  BY <1>4

(* The first line of libil2cpp.so, its lowest.                             *)
LEMMA FirstLine ==
    ASSUME NEW m \in Maps, NEW lines, lines = m.lines
    PROVE  \E f \in 1 .. Len(lines) :
               /\ lines[f].il2cpp /\ LoadBase(m) = lines[f].start
               /\ lines[f].start \in 1 .. Word - 1
               /\ \A k \in 1 .. Len(lines) : lines[k].start = lines[f].start => k = f
<1>1. /\ lines \in Seq(Lines)
      /\ \A j, k \in 1 .. Len(lines) : j < k => lines[j].start < lines[k].start
      /\ \E k \in 1 .. Len(lines) : lines[k].il2cpp
  BY MapsAssumption DEF MapsOk
<1>2. PICK H : H = {k \in 1 .. Len(lines) : lines[k].il2cpp}
  OBVIOUS
<1>3. H \in SUBSET Nat /\ H # {}
  BY <1>1, <1>2
<1>4. PICK f \in H : \A k \in H : f <= k
  BY <1>3, Least
<1>5. \A k \in 1 .. Len(lines) : lines[k].start \in 1 .. Word - 1 /\ lines[k].start \in Nat
  <2>1. \A k \in 1 .. Len(lines) : lines[k] \in Lines
    BY <1>1
  <2> QED
    BY <2>1, WordAssumption DEF Lines
<1>6. f \in 1 .. Len(lines) /\ f \in Nat /\ lines[f].il2cpp /\ H \subseteq 1 .. Len(lines)
  BY <1>2
<1>7. \A k \in 1 .. Len(lines) : f <= k => f = k \/ lines[f].start < lines[k].start
  BY <1>1, <1>6
<1>8. \A k \in H : lines[f].start <= lines[k].start
  BY <1>4, <1>5, <1>6, <1>7
<1>9. PICK g : g = CHOOSE k \in H : \A h \in H : lines[k].start <= lines[h].start
  OBVIOUS
<1>10. g \in H /\ \A h \in H : lines[g].start <= lines[h].start
  BY <1>8, <1>9
<1>11. g = f
  BY <1>4, <1>5, <1>6, <1>7, <1>10
<1>12. LoadBase(m) = lines[f].start
  BY <1>2, <1>9, <1>11 DEF LoadBase
<1>13. \A k \in 1 .. Len(lines) : lines[k].start = lines[f].start => k = f
  <2>1. SUFFICES ASSUME NEW k \in 1 .. Len(lines), lines[k].start = lines[f].start, k # f
                 PROVE  FALSE
    OBVIOUS
  <2>2. k < f \/ f < k
    BY <1>6, <2>1
  <2>3. lines[k].start < lines[f].start \/ lines[f].start < lines[k].start
    BY <1>1, <1>6, <2>2
  <2> QED
    BY <1>5, <1>6, <2>1, <2>3
<1> QED
  BY <1>5, <1>6, <1>12, <1>13

(* get_module_base returns the start of the first line it accepts.         *)
LEMMA ModuleBase ==
    ASSUME NEW m \in Maps, NEW lines, lines = m.lines
    PROVE  /\ ~m.opens \/ Matches(lines) = {} => get_module_base(m) = 0
           /\ m.opens /\ Matches(lines) # {} =>
                  \E g \in Matches(lines) : /\ \A k \in Matches(lines) : g <= k
                                            /\ get_module_base(m) = lines[g].start
                                            /\ lines[g].start \in 1 .. Word - 1
<1>1. lines \in Seq(Lines)
  BY MapsAssumption
<1>2. PICK H : H = Matches(lines)
  OBVIOUS
<1>3. H \in SUBSET Nat /\ H \subseteq 1 .. Len(lines)
  BY <1>1, <1>2 DEF Matches
<1>4. get_module_base(m) = IF ~m.opens \/ H = {} THEN 0
                           ELSE lines[CHOOSE k \in H : \A h \in H : k <= h].start
  BY <1>2 DEF get_module_base
<1>5. ASSUME m.opens, H # {}
      PROVE  \E g \in H : /\ \A k \in H : g <= k
                          /\ get_module_base(m) = lines[g].start
                          /\ lines[g].start \in 1 .. Word - 1
  <2>1. \E g \in H : \A k \in H : g <= k
    BY <1>3, <1>5, Least
  <2>2. PICK g : g = CHOOSE k \in H : \A h \in H : k <= h
    OBVIOUS
  <2>3. g \in H /\ \A k \in H : g <= k
    BY <2>1, <2>2
  <2>4. lines[g].start \in 1 .. Word - 1
    <3>1. g \in 1 .. Len(lines)
      BY <1>3, <2>3
    <3>2. lines[g] \in Lines
      BY <1>1, <3>1
    <3> QED
      BY <3>2 DEF Lines
  <2> QED
    BY <1>4, <1>5, <2>2, <2>3, <2>4
<1> QED
  BY <1>2, <1>4, <1>5

LEMMA BaseNat ==
    ASSUME maps \in Maps
    PROVE  /\ LoadBase(maps) \in 1 .. Word - 1 /\ get_module_base(maps) \in 0 .. Word - 1
           /\ LoadBase(maps) \in Nat /\ get_module_base(maps) \in Nat
<1>1. PICK lines : lines = maps.lines
  OBVIOUS
<1>2. LoadBase(maps) \in 1 .. Word - 1
  BY <1>1, FirstLine
<1>3. CASE ~maps.opens \/ Matches(lines) = {}
  <2>1. get_module_base(maps) = 0
    BY <1>1, <1>3, ModuleBase
  <2> QED
    BY <1>2, <2>1, WordAssumption
<1>4. CASE maps.opens /\ Matches(lines) # {}
  <2>1. get_module_base(maps) \in 1 .. Word - 1
    BY <1>1, <1>4, ModuleBase
  <2> QED
    BY <1>2, <2>1, WordAssumption
<1> QED
  BY <1>3, <1>4

-----------------------------------------------------------------------------
(* The refinement.                                                         *)

LEMMA InitInv == Init => IInv /\ Text!Init
<1> SUFFICES ASSUME Init PROVE IInv /\ Text!Init
  OBVIOUS
<1>1. /\ section = "type" /\ i = 0 /\ outPut = <<>> /\ stream = EmptyStream
      /\ members = [field |-> <<>>, property |-> <<>>, method |-> <<>>]
      /\ maps \in Maps /\ class \in Classes /\ byrefApi \in BOOLEAN /\ dladdrOk \in BOOLEAN
      /\ il2cpp_base = IF dladdrOk THEN LoadBase(maps) ELSE get_module_base(maps)
  BY DEF Init
<1>2. RunInv
  BY <1>1, BaseNat DEF RunInv
<1>3. MembersInv
  BY <1>1 DEF MembersInv
<1>4. PlaceInv /\ ParamsInv
  BY <1>1 DEF PlaceInv, ParamsInv
<1>5. <<>> \in Texts
  BY CatEmpty, CatType
<1>6. StreamInv
  BY <1>1, <1>5, EmptyAtEnd DEF StreamInv
<1>7. Visible = <<>>
  BY <1>1, <1>5, VisibleCat, EmptyAtEnd, CatEmpty
<1>8. Text!Init
  BY <1>1, <1>7 DEF Text!Init, Text!NoMembers
<1> QED
  BY <1>2, <1>3, <1>4, <1>6, <1>8 DEF IInv

LEMMA EndFieldsStep ==
    ASSUME IInv, EndFields
    PROVE  IInv' /\ Text!Section("field", "property", Text!Title("Properties"))
<1>1. "Properties" \in Titles
  BY DEF Titles
<1>2. PICK t : t = Title("Properties")
  OBVIOUS
<1>3. t \in Texts /\ AtEnd(Put(EmptyStream, t)) /\ Put(EmptyStream, t).buf = t
  BY <1>1, <1>2, TitleStream
<1>4. EndSection("field", "property", stream.buf, Put(EmptyStream, t))
  BY <1>2 DEF EndFields
<1>5. IInv' /\ Text!Section("field", "property", t)
  BY <1>3, <1>4, SectionStep
<1> QED
  BY <1>2, <1>5, SameWords

LEMMA EndPropertiesStep ==
    ASSUME IInv, EndProperties
    PROVE  IInv' /\ Text!Section("property", "method", Text!Title("Methods"))
<1>1. "Methods" \in Titles
  BY DEF Titles
<1>2. PICK t : t = Title("Methods")
  OBVIOUS
<1>3. t \in Texts /\ AtEnd(Put(EmptyStream, t)) /\ Put(EmptyStream, t).buf = t
  BY <1>1, <1>2, TitleStream
<1>4. EndSection("property", "method", stream.buf, Put(EmptyStream, t))
  BY <1>2 DEF EndProperties
<1>5. IInv' /\ Text!Section("property", "method", t)
  BY <1>3, <1>4, SectionStep
<1> QED
  BY <1>2, <1>5, SameWords

LEMMA Unchanged ==
    ASSUME IInv, UNCHANGED vars
    PROVE  IInv' /\ UNCHANGED Text!vars
<1>1. UNCHANGED <<runVars, members, section, i, outPut, stream>>
  BY DEF vars, runVars
<1>2. Visible' = Visible /\ Kept' = Kept /\ params' = params /\ header' = header
  BY <1>1 DEF Visible, Kept, params, header, runVars
<1>3. UNCHANGED Text!vars
  BY <1>1, <1>2 DEF Text!vars, runVars
<1>4. RunInv'
  BY <1>1, RunKept DEF IInv
<1>5. MembersInv' /\ PlaceInv' /\ StreamInv'
  BY <1>1, <1>2 DEF IInv, MembersInv, PlaceInv, StreamInv, Extends, Word1
<1>6. ParamsInv'
  BY <1>1, <1>2 DEF IInv, ParamsInv, BitsAreRight, BitIsRight, runVars
<1> QED
  BY <1>3, <1>4, <1>5, <1>6 DEF IInv

(* A step of Render is a step of ClassText.                                *)
LEMMA TextStep == IInv /\ [Next]_vars => IInv' /\ [Text!Next]_Text!vars
<1> SUFFICES ASSUME IInv, [Next]_vars PROVE IInv' /\ [Text!Next]_Text!vars
  OBVIOUS
<1>1. CASE dump_type
  BY <1>1, TypeStep DEF Text!Next
<1>2. CASE PrintBase
  BY <1>2, BaseStep DEF Text!Next
<1>3. CASE BeginBody
  BY <1>3, BodyStep DEF Text!Next
<1>4. ASSUME NEW f \in class.fields, dump_field(f) PROVE IInv' /\ [Text!Next]_Text!vars
  BY <1>4, FieldStep DEF Text!Next
<1>5. CASE EndFields
  BY <1>5, EndFieldsStep DEF Text!Next
<1>6. ASSUME NEW p \in class.properties, dump_property(p) PROVE IInv' /\ [Text!Next]_Text!vars
  BY <1>6, PropertyStep DEF Text!Next
<1>7. CASE EndProperties
  BY <1>7, EndPropertiesStep DEF Text!Next
<1>8. ASSUME NEW m \in class.methods, dump_method(m) PROVE IInv' /\ [Text!Next]_Text!vars
  BY <1>8, MethodStep DEF Text!Next
<1>9. CASE PrintParam
  BY <1>9, ParamStep DEF Text!Next
<1>10. CASE EndMethod
  BY <1>10, EndMethodStep DEF Text!Next
<1>11. CASE EndMethods
  BY <1>11, DoneStep DEF Text!Next
<1>12. CASE UNCHANGED vars
  BY <1>12, Unchanged
<1> QED
  BY <1>1, <1>2, <1>3, <1>4, <1>5, <1>6, <1>7, <1>8, <1>9, <1>10, <1>11, <1>12 DEF Next

(* The inductive invariant: the put pointer is at the end of the stream,   *)
(* and behind a parameter there is the comma the next text replaces.       *)
THEOREM RenderInvariant == Spec => []IInv
<1>1. Init => IInv
  BY InitInv
<1>2. IInv /\ [Next]_vars => IInv'
  BY TextStep
<1> QED
  BY <1>1, <1>2, PTL DEF Spec

(* dump_type writes the text of the class as it is declared, for every     *)
(* class, member, memory layout and Unity version.                         *)
THEOREM RendersClassAlways == Spec => RendersClass
<1>1. Init => Text!Init
  BY InitInv
<1>2. IInv /\ [Next]_vars => [Text!Next]_Text!vars
  BY TextStep
<1> QED
  BY <1>1, <1>2, RenderInvariant, PTL DEF Spec, RendersClass, Text!Spec

-----------------------------------------------------------------------------
(* RVAs.                                                                   *)

LEMMA OffsetBack ==
    ASSUME NEW m \in Nat \ {0}, NEW p \in 0 .. m - 1, NEW l \in Nat
    PROVE  (((p - l) % m) + l) % m = p
<1>1. PICK a : a = p - l
  OBVIOUS
<1>2. a \in Int
  BY <1>1
<1>3. PICK r, k : r = a % m /\ k = a \div m
  OBVIOUS
<1>4. r \in 0 .. m - 1 /\ k \in Int /\ a = m * k + r
  BY <1>2, <1>3, DivMod
<1>5. PICK b : b = r + l
  OBVIOUS
<1>6. b \in Int
  BY <1>4, <1>5
<1>7. PICK s, j : s = b % m /\ j = b \div m
  OBVIOUS
<1>8. s \in 0 .. m - 1 /\ j \in Int /\ b = m * j + s
  BY <1>6, <1>7, DivMod
<1>9. p = m * (k + j) + s
  <2>1. m * k \in Int /\ m * j \in Int /\ m * (k + j) = m * k + m * j
    BY <1>4, <1>8
  <2>2. p = m * k + m * j + s
    BY <1>1, <1>4, <1>5, <1>8, <2>1
  <2> QED
    BY <2>1, <2>2
<1>10. p = s
  BY <1>4, <1>8, <1>9, SameRemainder
<1> QED
  BY <1>1, <1>3, <1>5, <1>7, <1>10

(* The offset from one address leads back from another only if they are    *)
(* the same.                                                               *)
LEMMA OffsetOnlyBack ==
    ASSUME NEW m \in Nat \ {0}, NEW p \in 0 .. m - 1, NEW b \in 0 .. m - 1, NEW l \in 0 .. m - 1,
           (((p - b) % m) + l) % m = p
    PROVE  b = l
<1>1. PICK a : a = p - b
  OBVIOUS
<1>2. a \in Int
  BY <1>1
<1>3. PICK r, k : r = a % m /\ k = a \div m
  OBVIOUS
<1>4. r \in 0 .. m - 1 /\ k \in Int /\ a = m * k + r
  BY <1>2, <1>3, DivMod
<1>5. PICK c : c = r + l
  OBVIOUS
<1>6. c \in Int /\ c % m = p
  BY <1>1, <1>3, <1>4, <1>5
<1>7. PICK j : j = c \div m
  OBVIOUS
<1>8. j \in Int /\ c = m * j + p
  BY <1>6, <1>7, DivMod
<1>9. l = m * (k + j) + b
  <2>1. m * k \in Int /\ m * j \in Int /\ m * (k + j) = m * k + m * j
    BY <1>4, <1>8
  <2>2. l = m * k + m * j + b
    BY <1>1, <1>4, <1>5, <1>8, <2>1
  <2> QED
    BY <2>1, <2>2
<1>10. k + j \in Int
  BY <1>4, <1>8
<1> QED
  BY <1>9, <1>10, SameRemainder

(* The two addresses are the same where BaseFound says so.                 *)
LEMMA FoundBase ==
    ASSUME maps \in Maps
    PROVE  get_module_base(maps) = LoadBase(maps) <=> BaseFound
<1>1. PICK lines : lines = maps.lines
  OBVIOUS
<1>2. PICK f \in 1 .. Len(lines) :
          /\ lines[f].il2cpp /\ LoadBase(maps) = lines[f].start
          /\ lines[f].start \in 1 .. Word - 1
          /\ \A k \in 1 .. Len(lines) : lines[k].start = lines[f].start => k = f
  BY <1>1, FirstLine
<1>3. Len(lines) \in Nat
  BY <1>1, MapsAssumption
<1>4. \A k \in 1 .. Len(lines) :
          k \in Matches(lines) <=> lines[k].named /\ (arch = "aarch64" => lines[k].exec)
  BY DEF Matches
<1>5. Matches(lines) \subseteq 1 .. Len(lines)
  BY DEF Matches
<1>6. ASSUME BaseFound PROVE get_module_base(maps) = LoadBase(maps)
  <2>1. PICK k \in 1 .. Len(lines) :
            /\ lines[k].start = LoadBase(maps)
            /\ lines[k].named /\ (arch = "aarch64" => lines[k].exec)
            /\ \A j \in 1 .. k - 1 : lines[j].named => arch = "aarch64" /\ ~lines[j].exec
    BY <1>1, <1>6 DEF BaseFound
  <2>2. maps.opens /\ k \in Matches(lines)
    BY <1>4, <1>6, <2>1 DEF BaseFound
  <2>3. PICK g \in Matches(lines) : /\ \A h \in Matches(lines) : g <= h
                                     /\ get_module_base(maps) = lines[g].start
    BY <1>1, <2>2, ModuleBase
  <2>4. g \in 1 .. Len(lines) /\ g <= k
    BY <1>5, <2>2, <2>3
  <2>5. g \notin 1 .. k - 1
    BY <1>4, <2>1, <2>3, <2>4
  <2>6. g = k
    BY <1>3, <2>1, <2>4, <2>5
  <2> QED
    BY <2>1, <2>3, <2>6
<1>7. ASSUME get_module_base(maps) = LoadBase(maps) PROVE BaseFound
  <2>1. maps.opens /\ Matches(lines) # {}
    <3>1. SUFFICES ASSUME ~maps.opens \/ Matches(lines) = {} PROVE FALSE
      OBVIOUS
    <3>2. get_module_base(maps) = 0
      BY <1>1, <3>1, ModuleBase
    <3> QED
      BY <1>2, <1>7, <3>2
  <2>2. PICK g \in Matches(lines) : /\ \A h \in Matches(lines) : g <= h
                                     /\ get_module_base(maps) = lines[g].start
    BY <1>1, <2>1, ModuleBase
  <2>3. g \in 1 .. Len(lines) /\ g = f
    BY <1>2, <1>5, <1>7, <2>2
  <2>4. lines[f].named /\ (arch = "aarch64" => lines[f].exec)
    BY <1>4, <2>2, <2>3
  <2>5. \A j \in 1 .. f - 1 : lines[j].named => arch = "aarch64" /\ ~lines[j].exec
    <3>1. SUFFICES ASSUME NEW j \in 1 .. f - 1, lines[j].named
                   PROVE  arch = "aarch64" /\ ~lines[j].exec
      OBVIOUS
    <3>2. j \in 1 .. Len(lines) /\ ~(f <= j)
      BY <1>2, <1>3, <3>1
    <3>3. j \notin Matches(lines)
      BY <2>2, <2>3, <3>2
    <3> QED
      BY <1>4, <3>1, <3>2, <3>3
  <2> QED
    BY <1>1, <1>2, <2>1, <2>4, <2>5 DEF BaseFound
<1> QED
  BY <1>6, <1>7

LEMMA RvaStep == RunInv => RvaIsModuleOffset
<1> SUFFICES ASSUME RunInv, NEW p \in 1 .. Word - 1
             PROVE  (Rva(p) + LoadBase(maps)) % Word = p <=> dladdrOk \/ BaseFound
  BY DEF RvaIsModuleOffset
<1>1. maps \in Maps /\ il2cpp_base = IF dladdrOk THEN LoadBase(maps) ELSE get_module_base(maps)
  BY DEF RunInv
<1>2. PICK l, b : l = LoadBase(maps) /\ b = il2cpp_base
  OBVIOUS
<1>3. l \in 1 .. Word - 1 /\ get_module_base(maps) \in 0 .. Word - 1
  BY <1>1, <1>2, BaseNat
<1>4. Word \in Nat \ {0} /\ p \in 0 .. Word - 1 /\ l \in 0 .. Word - 1 /\ l \in Nat
  BY <1>3, WordAssumption
<1>5. b \in 0 .. Word - 1
  BY <1>1, <1>2, <1>3, <1>4
<1>6. Rva(p) = (p - b) % Word
  BY <1>2 DEF Rva
<1>7. (((p - b) % Word) + l) % Word = p <=> b = l
  <2>1. ASSUME b = l PROVE (((p - b) % Word) + l) % Word = p
    BY <1>4, <2>1, OffsetBack
  <2>2. ASSUME (((p - b) % Word) + l) % Word = p PROVE b = l
    BY <1>4, <1>5, <2>2, OffsetOnlyBack
  <2> QED
    BY <2>1, <2>2
<1>8. b = l <=> dladdrOk \/ BaseFound
  <2>1. CASE dladdrOk
    BY <1>1, <1>2, <2>1
  <2>2. CASE ~dladdrOk
    BY <1>1, <1>2, <2>2, FoundBase
  <2> QED
    BY <2>1, <2>2
<1> QED
  BY <1>2, <1>6, <1>7, <1>8

(* Every RVA is the offset from where the module is loaded, for every      *)
(* content of maps and whether it can be read or not, exactly when dladdr  *)
(* succeeds or BaseFound holds.                                            *)
THEOREM RvaAlways == Spec => []RvaIsModuleOffset
<1>1. IInv => RvaIsModuleOffset
  BY RvaStep DEF IInv
<1> QED
  BY <1>1, RenderInvariant, PTL

-----------------------------------------------------------------------------
(* Words in a text.                                                        *)

Vocabulary == Seq(AllWords)
In(ws, w) == \E k \in 1 .. Len(ws) : ws[k] = w

LEMMA InWords ==
    ASSUME NEW ws \in Vocabulary, NEW w
    PROVE  HasWord(Words(ws), w) <=> In(ws, w)
<1>1. PICK t : t = Words(ws)
  OBVIOUS
<1>2. /\ t \in Seq({Lit(x) : x \in AllWords}) /\ Len(t) = Len(ws) /\ Len(ws) \in Nat
      /\ \A k \in 1 .. Len(ws) : t[k] = Lit(ws[k])
  <2>1. ws \in Seq(AllWords) /\ Len(ws) \in Nat
    BY DEF Vocabulary
  <2>2. /\ Words(ws) \in Seq({Lit(x) : x \in AllWords}) /\ Len(Words(ws)) = Len(ws)
        /\ \A k \in 1 .. Len(ws) : Words(ws)[k] = Lit(ws[k])
    BY <2>1, WordsElements
  <2> QED
    BY <1>1, <2>1, <2>2
<1>3. DOMAIN t = 1 .. Len(ws)
  BY <1>2
<1>4. \A a, b : Lit(a) = Lit(b) => a = b
  BY DEF Lit
<1> QED
  BY <1>1, <1>2, <1>3, <1>4 DEF HasWord, In

LEMMA InCat ==
    ASSUME NEW s \in Vocabulary, NEW t \in Vocabulary, NEW w
    PROVE  Cat(s, t) \in Vocabulary /\ (In(Cat(s, t), w) <=> In(s, w) \/ In(t, w))
<1>1. s \in Seq(AllWords) /\ t \in Seq(AllWords) /\ Len(s) \in Nat /\ Len(t) \in Nat
  BY DEF Vocabulary
<1>2. PICK c : c = s \o t
  OBVIOUS
<1>3. /\ c \in Seq(AllWords) /\ Len(c) = Len(s) + Len(t)
      /\ \A k \in 1 .. Len(s) + Len(t) : c[k] = IF k <= Len(s) THEN s[k] ELSE t[k - Len(s)]
  BY <1>1, <1>2, ConcatProperties
<1>4. ASSUME In(c, w) PROVE In(s, w) \/ In(t, w)
  <2>1. PICK k \in 1 .. Len(c) : c[k] = w
    BY <1>4 DEF In
  <2>2. CASE k <= Len(s)
    BY <1>1, <1>3, <2>1, <2>2 DEF In
  <2>3. CASE ~(k <= Len(s))
    <3>1. k - Len(s) \in 1 .. Len(t) /\ t[k - Len(s)] = w
      BY <1>1, <1>3, <2>1, <2>3
    <3> QED
      BY <3>1 DEF In
  <2> QED
    BY <2>2, <2>3
<1>5. ASSUME In(s, w) PROVE In(c, w)
  BY <1>1, <1>3, <1>5 DEF In
<1>6. ASSUME In(t, w) PROVE In(c, w)
  <2>1. PICK k \in 1 .. Len(t) : t[k] = w
    BY <1>6 DEF In
  <2>2. PICK j : j = k + Len(s)
    OBVIOUS
  <2>3. j \in 1 .. Len(c) /\ ~(j <= Len(s)) /\ j - Len(s) = k
    BY <1>1, <1>3, <2>1, <2>2
  <2>4. c[j] = w
    BY <1>3, <2>1, <2>3
  <2> QED
    BY <2>3, <2>4 DEF In
<1> QED
  BY <1>2, <1>3, <1>4, <1>5, <1>6 DEF Cat, Vocabulary

LEMMA InOne ==
    ASSUME NEW x, NEW w
    PROVE  In(<<x>>, w) <=> x = w
  BY DEF In

LEMMA InTwo ==
    ASSUME NEW x, NEW y, NEW w
    PROVE  In(<<x, y>>, w) <=> x = w \/ y = w
  BY DEF In

LEMMA InNone ==
    ASSUME NEW w
    PROVE  ~In(<<>>, w)
  BY DEF In

LEMMA InWord1 ==
    ASSUME NEW b, NEW x, NEW w
    PROVE  In(Word1(b, x), w) <=> b /\ x = w
<1>1. CASE b
  <2>1. Word1(b, x) = <<x>>
    BY <1>1 DEF Word1
  <2>2. In(Word1(b, x), w) <=> x = w
    BY <2>1, InOne
  <2> QED
    BY <1>1, <2>2, Zenon
<1>2. CASE ~b
  <2>1. Word1(b, x) = <<>>
    BY <1>2 DEF Word1
  <2> QED
    BY <1>2, <2>1, InNone
<1> QED
  BY <1>1, <1>2, Zenon

LEMMA InAccess ==
    ASSUME NEW a, NEW w \in {"static", "virtual", "override", "abstract", "sealed_override", "extern"}
    PROVE  ~In(MemberAccess(a), w)
<1>1. /\ ~In(<<"private">>, w) /\ ~In(<<"public">>, w) /\ ~In(<<"protected">>, w)
      /\ ~In(<<"internal">>, w) /\ ~In(<<"protected_internal">>, w) /\ ~In(<<>>, w)
  BY InOne, InNone
<1> QED
  BY <1>1 DEF MemberAccess

LEMMA InVirtual ==
    ASSUME NEW bits, NEW w
    PROVE  In(VirtualWords(bits), w) <=>
              \/ "ABSTRACT" \in bits /\ w = "abstract"
              \/ "ABSTRACT" \in bits /\ "NEW_SLOT" \notin bits /\ w = "override"
              \/ /\ "ABSTRACT" \notin bits /\ "FINAL" \in bits /\ "NEW_SLOT" \notin bits
                 /\ w = "sealed_override"
              \/ /\ "ABSTRACT" \notin bits /\ "FINAL" \notin bits /\ "VIRTUAL" \in bits
                 /\ w = IF "NEW_SLOT" \in bits THEN "virtual" ELSE "override"
<1>1. PICK o, s : /\ o = Word1("NEW_SLOT" \notin bits, "override")
                  /\ s = Word1("NEW_SLOT" \notin bits, "sealed_override")
  OBVIOUS
<1>2. /\ In(o, w) <=> "NEW_SLOT" \notin bits /\ w = "override"
      /\ In(s, w) <=> "NEW_SLOT" \notin bits /\ w = "sealed_override"
  BY <1>1, InWord1
<1>3. <<"abstract">> \in Vocabulary /\ o \in Vocabulary
  <2>1. <<"abstract">> \in Seq(PlainWords) /\ o \in Seq(PlainWords)
    BY <1>1, Word1Plain DEF PlainWords
  <2> QED
    BY <2>1, PlainInAll DEF Vocabulary
<1>4. In(Cat(<<"abstract">>, o), w) <=> w = "abstract" \/ In(o, w)
  BY <1>3, InCat, InOne
<1>5. /\ In(<<"virtual">>, w) <=> w = "virtual"
      /\ In(<<"override">>, w) <=> w = "override"
      /\ ~In(<<>>, w)
  BY InOne, InNone
<1>6. CASE "ABSTRACT" \in bits
  <2>1. VirtualWords(bits) = Cat(<<"abstract">>, o)
    BY <1>1, <1>6 DEF VirtualWords, Cat
  <2> QED
    BY <1>2, <1>4, <1>6, <2>1
<1>7. CASE "ABSTRACT" \notin bits /\ "FINAL" \in bits
  <2>1. VirtualWords(bits) = s
    BY <1>1, <1>7 DEF VirtualWords
  <2> QED
    BY <1>2, <1>7, <2>1
<1>8. CASE "ABSTRACT" \notin bits /\ "FINAL" \notin bits
  <2>1. VirtualWords(bits) = IF "VIRTUAL" \in bits
                             THEN IF "NEW_SLOT" \in bits THEN <<"virtual">> ELSE <<"override">>
                             ELSE <<>>
    BY <1>8 DEF VirtualWords
  <2> QED
    BY <1>5, <1>8, <2>1
<1> QED
  BY <1>6, <1>7, <1>8

(* A method prints the words of its virtual flags, static and extern.      *)
LEMMA InModifier ==
    ASSUME NEW m, NEW w \in {"virtual", "override", "abstract", "sealed_override"}
    PROVE  HasWord(get_method_modifier(m), w) <=> In(VirtualWords(m.bits), w)
<1>1. PICK a, s, v, e : /\ a = MemberAccess(m.access) /\ s = Word1("STATIC" \in m.bits, "static")
                        /\ v = VirtualWords(m.bits) /\ e = Word1("PINVOKE_IMPL" \in m.bits, "extern")
  OBVIOUS
<1>2. a \in Vocabulary /\ s \in Vocabulary /\ v \in Vocabulary /\ e \in Vocabulary
  <2>1. /\ a \in Seq(PlainWords) /\ s \in Seq(PlainWords)
        /\ v \in Seq(PlainWords) /\ e \in Seq(PlainWords)
    BY <1>1, AccessPlain, VirtualPlain, Word1Plain DEF PlainWords
  <2> QED
    BY <2>1, PlainInAll DEF Vocabulary
<1>3. ~In(a, w) /\ ~In(s, w) /\ ~In(e, w)
  BY <1>1, InAccess, InWord1
<1>4. Cat(a, s) \in Vocabulary /\ ~In(Cat(a, s), w)
  BY <1>2, <1>3, InCat
<1>5. Cat(Cat(a, s), v) \in Vocabulary /\ (In(Cat(Cat(a, s), v), w) <=> In(v, w))
  BY <1>2, <1>4, InCat
<1>6. PICK t : t = Cat(Cat(Cat(a, s), v), e)
  OBVIOUS
<1>7. t \in Vocabulary /\ (In(t, w) <=> In(v, w))
  BY <1>2, <1>3, <1>5, <1>6, InCat
<1>8. get_method_modifier(m) = Words(t)
  BY <1>1, <1>6 DEF get_method_modifier, Cat
<1> QED
  BY <1>1, <1>7, <1>8, InWords

LEMMA ModifiersStep == MembersInv => ModifiersFollowMetadata
<1> SUFFICES ASSUME MembersInv, NEW k \in DOMAIN members.method,
                    LegalMethod(members.method[k].bits)
             PROVE  LET bits == members.method[k].bits
                        text == get_method_modifier(members.method[k])
                    IN  /\ HasWord(text, "abstract") <=> "ABSTRACT" \in bits
                        /\ HasWord(text, "sealed_override") <=>
                               "FINAL" \in bits /\ "NEW_SLOT" \notin bits
                        /\ HasWord(text, "virtual") <=>
                               bits \cap {"VIRTUAL", "NEW_SLOT", "ABSTRACT", "FINAL"}
                                   = {"VIRTUAL", "NEW_SLOT"}
                        /\ HasWord(text, "override") <=> /\ {"VIRTUAL"} \subseteq bits
                                                         /\ bits \cap {"NEW_SLOT", "FINAL"} = {}
  BY DEF ModifiersFollowMetadata
<1>1. PICK m, bits, text : /\ m = members.method[k] /\ bits = m.bits
                           /\ text = get_method_modifier(m)
  OBVIOUS
<1>3. /\ ("FINAL" \in bits \/ "ABSTRACT" \in bits \/ "NEW_SLOT" \in bits) => "VIRTUAL" \in bits
      /\ ~("FINAL" \in bits /\ "ABSTRACT" \in bits)
  BY <1>1 DEF LegalMethod
<1>4. /\ HasWord(text, "abstract") <=> In(VirtualWords(bits), "abstract")
      /\ HasWord(text, "sealed_override") <=> In(VirtualWords(bits), "sealed_override")
      /\ HasWord(text, "virtual") <=> In(VirtualWords(bits), "virtual")
      /\ HasWord(text, "override") <=> In(VirtualWords(bits), "override")
  BY <1>1, InModifier
<1>5. HasWord(text, "abstract") <=> "ABSTRACT" \in bits
  BY <1>4, InVirtual
<1>6. HasWord(text, "sealed_override") <=> "FINAL" \in bits /\ "NEW_SLOT" \notin bits
  BY <1>3, <1>4, InVirtual
<1>7. HasWord(text, "virtual") <=>
          bits \cap {"VIRTUAL", "NEW_SLOT", "ABSTRACT", "FINAL"} = {"VIRTUAL", "NEW_SLOT"}
  <2>1. HasWord(text, "virtual") <=>
            /\ "ABSTRACT" \notin bits /\ "FINAL" \notin bits
            /\ "VIRTUAL" \in bits /\ "NEW_SLOT" \in bits
    BY <1>4, InVirtual
  <2>2. (/\ "ABSTRACT" \notin bits /\ "FINAL" \notin bits /\ "VIRTUAL" \in bits /\ "NEW_SLOT" \in bits)
        <=> bits \cap {"VIRTUAL", "NEW_SLOT", "ABSTRACT", "FINAL"} = {"VIRTUAL", "NEW_SLOT"}
    OBVIOUS
  <2> QED
    BY <2>1, <2>2
<1>8. HasWord(text, "override") <=> {"VIRTUAL"} \subseteq bits /\ bits \cap {"NEW_SLOT", "FINAL"} = {}
  <2>1. HasWord(text, "override") <=>
            "VIRTUAL" \in bits /\ "NEW_SLOT" \notin bits /\ "FINAL" \notin bits
    BY <1>3, <1>4, InVirtual
  <2>2. ("VIRTUAL" \in bits /\ "NEW_SLOT" \notin bits /\ "FINAL" \notin bits)
        <=> {"VIRTUAL"} \subseteq bits /\ bits \cap {"NEW_SLOT", "FINAL"} = {}
    OBVIOUS
  <2> QED
    BY <2>1, <2>2
<1> QED
  BY <1>1, <1>5, <1>6, <1>7, <1>8

(* For every method, legal flags are printed as what they mean in C#.      *)
THEOREM ModifiersAlways == Spec => []ModifiersFollowMetadata
<1>1. IInv => ModifiersFollowMetadata
  BY ModifiersStep DEF IInv
<1> QED
  BY <1>1, RenderInvariant, PTL

-----------------------------------------------------------------------------
(* Comments.                                                               *)

(* The text ends every line it is put on, and no comment is open at its    *)
(* end.                                                                    *)
Closes(u) ==
    \E n \in 1 .. Len(u) : u[n] = NL /\ \A k \in n + 1 .. Len(u) : u[k] \notin Comments

LEMMA CommentTokens ==
    /\ Comments = {Lit(w) : w \in CommentWords}
    /\ \A x \in Plain : x \notin Comments
    /\ NL \notin Comments
<1>1. {"Namespace", "Fields", "Properties", "Methods", "offset", "RVA", "unknown_property"}
        = CommentWords
  BY DEF CommentWords, Titles
<1>2. Comments = {Lit(w) : w \in CommentWords}
  BY <1>1 DEF Comments
<1>3. ASSUME NEW w \in PlainWords PROVE Lit(w) \notin Comments
  <2>1. \A v : Lit(w) = Lit(v) => w = v
    BY DEF Lit
  <2>2. w \notin CommentWords
    BY DEF PlainWords, CommentWords, Titles
  <2> QED
    BY <1>2, <2>1, <2>2
<1>4. ASSUME NEW x \in {"name"} \X STRING PROVE x \notin Comments
  BY <1>2 DEF Lit
<1>5. ASSUME NEW x \in {"hex", "dec"} \X Int PROVE x \notin Comments
  BY <1>2 DEF Lit
<1>6. \A x \in Plain : x \notin Comments
  BY <1>3, <1>4, <1>5 DEF Plain
<1> QED
  BY <1>2, <1>6, FixedPlain

(* The tokens of a text that is put together.                              *)
LEMMA CatElements ==
    ASSUME NEW t \in Texts, NEW u \in Texts
    PROVE  /\ Len(t) \in Nat /\ Len(u) \in Nat /\ Len(Cat(t, u)) = Len(t) + Len(u)
           /\ \A k \in 1 .. Len(t) : Cat(t, u)[k] = t[k]
           /\ \A k \in 1 .. Len(u) : Cat(t, u)[Len(t) + k] = u[k]
           /\ \A k \in 1 .. Len(t) + Len(u) :
                  k > Len(t) => k - Len(t) \in 1 .. Len(u) /\ Cat(t, u)[k] = u[k - Len(t)]
<1>1. t \in Seq(Tok) /\ u \in Seq(Tok) /\ Len(t) \in Nat /\ Len(u) \in Nat
  BY DEF Texts
<1>2. PICK c : c = Cat(t, u)
  OBVIOUS
<1>3. /\ Len(c) = Len(t) + Len(u)
      /\ \A k \in 1 .. Len(t) + Len(u) : c[k] = IF k <= Len(t) THEN t[k] ELSE u[k - Len(t)]
  BY <1>1, <1>2, ConcatProperties DEF Cat
<1>4. \A k \in 1 .. Len(t) : c[k] = t[k]
  BY <1>1, <1>3
<1>5. \A k \in 1 .. Len(t) + Len(u) :
          k > Len(t) => k - Len(t) \in 1 .. Len(u) /\ c[k] = u[k - Len(t)]
  BY <1>1, <1>3
<1>6. \A k \in 1 .. Len(u) : c[Len(t) + k] = u[k]
  <2>1. SUFFICES ASSUME NEW k \in 1 .. Len(u) PROVE c[Len(t) + k] = u[k]
    OBVIOUS
  <2>2. PICK j : j = Len(t) + k
    OBVIOUS
  <2>3. j \in 1 .. Len(t) + Len(u) /\ j > Len(t) /\ j - Len(t) = k
    BY <1>1, <2>2
  <2> QED
    BY <1>5, <2>2, <2>3
<1> QED
  BY <1>1, <1>2, <1>3, <1>4, <1>5, <1>6

LEMMA PlainQuiet ==
    ASSUME NEW v \in Plains
    PROVE  \A k \in 1 .. Len(v) : v[k] \notin Comments
<1>1. \A k \in 1 .. Len(v) : v[k] \in Plain
  BY DEF Plains
<1> QED
  BY <1>1, CommentTokens

LEMMA PlainCloses ==
    ASSUME NEW v \in Plains, NEW n \in 1 .. Len(v), v[n] = NL
    PROVE  Closes(v)
<1>1. \A k \in 1 .. Len(v) : v[k] \notin Comments
  BY PlainQuiet
<1>2. \A k \in n + 1 .. Len(v) : k \in 1 .. Len(v)
  OBVIOUS
<1> QED
  BY <1>1, <1>2 DEF Closes

(* Whatever is in front of a text that closes, it closes.                  *)
LEMMA ClosesBehind ==
    ASSUME NEW t \in Texts, NEW u \in Texts, Closes(u)
    PROVE  Closes(Cat(t, u))
<1>1. PICK c, d : c = Cat(t, u) /\ d = Len(t)
  OBVIOUS
<1>2. /\ d \in Nat /\ Len(u) \in Nat /\ Len(c) = d + Len(u)
      /\ \A k \in 1 .. Len(u) : c[d + k] = u[k]
      /\ \A k \in 1 .. d + Len(u) : k > d => k - d \in 1 .. Len(u) /\ c[k] = u[k - d]
  BY <1>1, CatElements
<1>3. PICK n \in 1 .. Len(u) : u[n] = NL /\ \A k \in n + 1 .. Len(u) : u[k] \notin Comments
  BY DEF Closes
<1>4. d + n \in 1 .. Len(c) /\ c[d + n] = NL
  BY <1>2, <1>3
<1>5. ASSUME NEW k \in d + n + 1 .. Len(c) PROVE c[k] \notin Comments
  <2>1. k \in 1 .. d + Len(u) /\ k > d /\ k - d \in n + 1 .. Len(u)
    BY <1>2, <1>3
  <2>2. c[k] = u[k - d]
    BY <1>2, <2>1
  <2> QED
    BY <1>3, <2>1, <2>2
<1> QED
  BY <1>1, <1>4, <1>5 DEF Closes

(* Nothing plain behind it opens a comment.                                *)
LEMMA ClosesMore ==
    ASSUME NEW u \in Texts, Closes(u), NEW v \in Plains
    PROVE  Closes(Cat(u, v))
<1>1. PICK c, d : c = Cat(u, v) /\ d = Len(u)
  OBVIOUS
<1>2. v \in Texts
  BY CatType
<1>3. /\ d \in Nat /\ Len(v) \in Nat /\ Len(c) = d + Len(v)
      /\ \A k \in 1 .. d : c[k] = u[k]
      /\ \A k \in 1 .. d + Len(v) : k > d => k - d \in 1 .. Len(v) /\ c[k] = v[k - d]
  BY <1>1, <1>2, CatElements
<1>4. PICK n \in 1 .. d : u[n] = NL /\ \A k \in n + 1 .. d : u[k] \notin Comments
  BY <1>1 DEF Closes
<1>5. n \in 1 .. Len(c) /\ c[n] = NL
  BY <1>3, <1>4
<1>6. ASSUME NEW k \in n + 1 .. Len(c) PROVE c[k] \notin Comments
  <2>1. CASE k <= d
    <3>1. k \in n + 1 .. d /\ k \in 1 .. d
      BY <1>3, <1>4, <1>6, <2>1
    <3> QED
      BY <1>3, <1>4, <3>1
  <2>2. CASE k > d
    <3>1. k \in 1 .. d + Len(v)
      BY <1>3, <1>4, <1>6
    <3>2. k - d \in 1 .. Len(v) /\ c[k] = v[k - d]
      BY <1>3, <2>2, <3>1
    <3> QED
      BY <3>2, PlainQuiet
  <2> QED
    BY <1>3, <1>6, <2>1, <2>2
<1> QED
  BY <1>1, <1>5, <1>6 DEF Closes

(* Such a text leaves no comment open.                                     *)
LEMMA ClosesComment ==
    ASSUME NEW t \in Texts, Closes(t)
    PROVE  ~CommentOpen(t)
<1>1. Len(t) \in Nat
  BY DEF Texts
<1>2. PICK n \in 1 .. Len(t) : t[n] = NL /\ \A k \in n + 1 .. Len(t) : t[k] \notin Comments
  BY DEF Closes
<1>3. ASSUME NEW j \in 1 .. Len(t), t[j] \in Comments PROVE \E k \in j .. Len(t) : t[k] = NL
  <2>1. ~(j > n)
    BY <1>1, <1>2, <1>3
  <2>2. n \in j .. Len(t)
    BY <1>1, <2>1
  <2> QED
    BY <1>2, <2>2
<1> QED
  BY <1>3 DEF CommentOpen

(* A plain text opens no comment.                                          *)
LEMMA StaysClosed ==
    ASSUME NEW t \in Texts, NEW v \in Plains, ~CommentOpen(t)
    PROVE  ~CommentOpen(Cat(t, v))
<1>1. PICK c, d : c = Cat(t, v) /\ d = Len(t)
  OBVIOUS
<1>2. v \in Texts
  BY CatType
<1>3. /\ d \in Nat /\ Len(v) \in Nat /\ Len(c) = d + Len(v)
      /\ \A k \in 1 .. d : c[k] = t[k]
      /\ \A k \in 1 .. d + Len(v) : k > d => k - d \in 1 .. Len(v) /\ c[k] = v[k - d]
  BY <1>1, <1>2, CatElements
<1>4. SUFFICES ASSUME NEW j \in 1 .. Len(c), c[j] \in Comments
               PROVE  \E k \in j .. Len(c) : c[k] = NL
  BY <1>1 DEF CommentOpen
<1>5. j <= d
  <2>1. SUFFICES ASSUME j > d PROVE FALSE
    BY <1>3
  <2>2. j - d \in 1 .. Len(v) /\ c[j] = v[j - d]
    BY <1>3, <2>1
  <2> QED
    BY <1>4, <2>2, PlainQuiet
<1>6. j \in 1 .. d /\ t[j] \in Comments
  BY <1>3, <1>4, <1>5
<1>7. PICK k \in j .. d : t[k] = NL
  BY <1>1, <1>6 DEF CommentOpen
<1>8. k \in 1 .. d /\ k \in j .. Len(c)
  BY <1>3, <1>6
<1> QED
  BY <1>3, <1>7, <1>8

(* A text without a line end leaves an open comment open.                  *)
LEMMA StaysOpen ==
    ASSUME NEW t \in Texts, NEW u \in Texts, CommentOpen(t), \A k \in 1 .. Len(u) : u[k] # NL
    PROVE  CommentOpen(Cat(t, u))
<1>1. PICK c, d : c = Cat(t, u) /\ d = Len(t)
  OBVIOUS
<1>2. /\ d \in Nat /\ Len(u) \in Nat /\ Len(c) = d + Len(u)
      /\ \A k \in 1 .. d : c[k] = t[k]
      /\ \A k \in 1 .. d + Len(u) : k > d => k - d \in 1 .. Len(u) /\ c[k] = u[k - d]
  BY <1>1, CatElements
<1>3. PICK j \in 1 .. d : t[j] \in Comments /\ \A k \in j .. d : t[k] # NL
  BY <1>1 DEF CommentOpen
<1>4. j \in 1 .. Len(c) /\ c[j] \in Comments
  BY <1>2, <1>3
<1>5. ASSUME NEW k \in j .. Len(c) PROVE c[k] # NL
  <2>1. CASE k <= d
    <3>1. k \in j .. d /\ k \in 1 .. d
      BY <1>2, <1>3, <1>5, <2>1
    <3> QED
      BY <1>2, <1>3, <3>1
  <2>2. CASE k > d
    <3>1. k \in 1 .. d + Len(u)
      BY <1>2, <1>3, <1>5
    <3>2. k - d \in 1 .. Len(u) /\ c[k] = u[k - d]
      BY <1>2, <2>2, <3>1
    <3> QED
      BY <3>2
  <2> QED
    BY <1>2, <1>5, <2>1, <2>2
<1> QED
  BY <1>1, <1>4, <1>5 DEF CommentOpen

(* A comment word at the end leaves its comment open.                      *)
LEMMA LastOpens ==
    ASSUME NEW t \in Texts, NEW x \in Comments, <<x>> \in Texts
    PROVE  CommentOpen(Cat(t, <<x>>))
<1>1. PICK u, c, d : u = <<x>> /\ c = Cat(t, u) /\ d = Len(t)
  OBVIOUS
<1>2. u \in Texts /\ Len(u) = 1 /\ u[1] = x
  BY <1>1
<1>3. /\ d \in Nat /\ Len(c) = d + Len(u)
      /\ \A k \in 1 .. Len(u) : c[d + k] = u[k]
  BY <1>1, <1>2, CatElements
<1>4. c[d + 1] = x /\ Len(c) = d + 1 /\ d + 1 \in 1 .. Len(c)
  BY <1>2, <1>3
<1>5. x # NL
  BY CommentTokens
<1>6. \A k \in d + 1 .. Len(c) : k = d + 1
  BY <1>3, <1>4
<1> QED
  BY <1>1, <1>4, <1>5, <1>6 DEF CommentOpen

LEMMA WordsCat ==
    ASSUME NEW a \in Vocabulary, NEW b \in Vocabulary
    PROVE  Words(Cat(a, b)) = Cat(Words(a), Words(b))
<1>1. PICK c, p, q, w, r : /\ c = Cat(a, b) /\ p = Words(a) /\ q = Words(b)
                           /\ w = Words(c) /\ r = Cat(p, q)
  OBVIOUS
<1>2. a \in Seq(AllWords) /\ b \in Seq(AllWords) /\ Len(a) \in Nat /\ Len(b) \in Nat
  BY DEF Vocabulary
<1>3. /\ c \in Seq(AllWords) /\ Len(c) = Len(a) + Len(b)
      /\ \A k \in 1 .. Len(a) + Len(b) : c[k] = IF k <= Len(a) THEN a[k] ELSE b[k - Len(a)]
  BY <1>1, <1>2, ConcatProperties DEF Cat
<1>4. /\ p \in Texts /\ Len(p) = Len(a) /\ \A k \in 1 .. Len(a) : p[k] = Lit(a[k])
      /\ q \in Texts /\ Len(q) = Len(b) /\ \A k \in 1 .. Len(b) : q[k] = Lit(b[k])
      /\ w \in Texts /\ Len(w) = Len(c) /\ \A k \in 1 .. Len(c) : w[k] = Lit(c[k])
  BY <1>1, <1>2, <1>3, WordsElements, WordsTok DEF Texts
<1>5. /\ Len(r) = Len(p) + Len(q) /\ r \in Texts
      /\ \A k \in 1 .. Len(p) : r[k] = p[k]
      /\ \A k \in 1 .. Len(p) + Len(q) :
             k > Len(p) => k - Len(p) \in 1 .. Len(q) /\ r[k] = q[k - Len(p)]
  <2>1. p \in Texts /\ q \in Texts /\ r = Cat(p, q)
    BY <1>1, <1>4
  <2> HIDE <1>1
  <2> QED
    BY <2>1, CatElements, CatType
<1>6. ASSUME NEW k \in 1 .. Len(w) PROVE w[k] = r[k]
  <2>1. k \in 1 .. Len(a) + Len(b) /\ w[k] = Lit(c[k])
    BY <1>3, <1>4
  <2>2. CASE k <= Len(a)
    <3>1. k \in 1 .. Len(a)
      BY <1>2, <2>1, <2>2
    <3>2. c[k] = a[k] /\ r[k] = p[k] /\ p[k] = Lit(a[k])
      BY <1>3, <1>4, <1>5, <2>1, <2>2, <3>1
    <3> QED
      BY <2>1, <3>2
  <2>3. CASE ~(k <= Len(a))
    <3>1. k > Len(p) /\ k \in 1 .. Len(p) + Len(q)
      BY <1>2, <1>4, <2>1, <2>3
    <3>2. k - Len(a) \in 1 .. Len(b) /\ r[k] = q[k - Len(a)]
      BY <1>4, <1>5, <3>1
    <3>3. c[k] = b[k - Len(a)]
      BY <1>3, <2>1, <2>3
    <3>4. q[k - Len(a)] = Lit(b[k - Len(a)])
      BY <1>4, <3>2
    <3> QED
      BY <2>1, <3>2, <3>3, <3>4
  <2> QED
    BY <2>2, <2>3
<1>7. w = r
  <2>1. w \in Seq(Tok) /\ r \in Seq(Tok) /\ Len(w) = Len(r)
    BY <1>3, <1>4, <1>5 DEF Texts
  <2> QED
    BY <1>6, <2>1, SeqEqual
<1> QED
  BY <1>1, <1>7

(* The texts that end their line: the header up to the name of the class,  *)
(* a title, a field, a property with accessors and a method.               *)
LEMMA NameLineCloses ==
    ASSUME NEW h \in Headers
    PROVE  Closes(NameLine(h))
<1>1. PICK a, s, v, m, k :
          /\ a = <<"newline", "Namespace", "newline">>
          /\ s = IF "SERIALIZABLE" \in h.bits THEN <<"Serializable", "newline">> ELSE <<>>
          /\ v = <<Visibility(h.vis)>> /\ m = ClassModifier(h) /\ k = <<ClassKind(h), "Name">>
  OBVIOUS
<1>2. s \in Seq(PlainWords) /\ v \in Seq(PlainWords) /\ m \in Seq(PlainWords) /\ k \in Seq(PlainWords)
  BY <1>1, HeadPlain
<1>3. /\ a \in Vocabulary /\ s \in Vocabulary /\ v \in Vocabulary
      /\ m \in Vocabulary /\ k \in Vocabulary
  BY <1>1, <1>2, NamespaceWords, PlainInAll DEF Vocabulary
<1>4. Words(a) \in Texts /\ Closes(Words(a))
  <2>1. PICK t : t = Words(a)
    OBVIOUS
  <2>2. t \in Texts
    BY <1>1, <2>1, NamespaceWords, WordsTok DEF Texts
  <2>3. \A x, y, z : Words(<<x, y, z>>) = <<Lit(x), Lit(y), Lit(z)>>
    BY DEF Words
  <2>4. t = <<NL, Lit("Namespace"), NL>>
    BY <1>1, <2>1, <2>3 DEF NL
  <2>5. Len(t) = 3 /\ t[3] = NL
    BY <2>4
  <2>6. 3 \in 1 .. Len(t) /\ \A j \in 3 + 1 .. Len(t) : t[j] \notin Comments
    BY <2>5
  <2> QED
    BY <2>1, <2>2, <2>5, <2>6 DEF Closes
<1>5. NameLine(h) = Words(Cat(Cat(Cat(Cat(a, s), v), m), k))
  BY <1>1 DEF NameLine, Cat
<1> HIDE <1>1
<1>6. Words(s) \in Plains /\ Words(v) \in Plains /\ Words(m) \in Plains /\ Words(k) \in Plains
  BY <1>2, WordsPlains
<1>7. /\ Cat(a, s) \in Vocabulary /\ Words(Cat(a, s)) \in Texts
      /\ Closes(Words(Cat(a, s)))
  <2>1. Words(Cat(a, s)) = Cat(Words(a), Words(s)) /\ Cat(a, s) \in Vocabulary
    BY <1>3, WordsCat, InCat
  <2>2. Words(s) \in Texts
    BY <1>6, CatType
  <2> QED
    BY <1>4, <1>6, <2>1, <2>2, ClosesMore, CatType
<1>8. PICK b : b = Cat(a, s)
  OBVIOUS
<1>9. /\ Cat(b, v) \in Vocabulary /\ Words(Cat(b, v)) \in Texts
      /\ Closes(Words(Cat(b, v)))
  <2>1. Words(Cat(b, v)) = Cat(Words(b), Words(v)) /\ Cat(b, v) \in Vocabulary
    BY <1>3, <1>7, <1>8, WordsCat, InCat
  <2>2. Words(v) \in Texts
    BY <1>6, CatType
  <2> QED
    BY <1>6, <1>7, <1>8, <2>1, <2>2, ClosesMore, CatType
<1>10. PICK c : c = Cat(b, v)
  OBVIOUS
<1>11. /\ Cat(c, m) \in Vocabulary /\ Words(Cat(c, m)) \in Texts
       /\ Closes(Words(Cat(c, m)))
  <2>1. Words(Cat(c, m)) = Cat(Words(c), Words(m)) /\ Cat(c, m) \in Vocabulary
    BY <1>3, <1>9, <1>10, WordsCat, InCat
  <2>2. Words(m) \in Texts
    BY <1>6, CatType
  <2> QED
    BY <1>6, <1>9, <1>10, <2>1, <2>2, ClosesMore, CatType
<1>12. PICK d : d = Cat(c, m)
  OBVIOUS
<1>13. Words(Cat(d, k)) = Cat(Words(d), Words(k))
  BY <1>3, <1>11, <1>12, WordsCat
<1>14. Closes(Words(Cat(d, k)))
  BY <1>6, <1>11, <1>12, <1>13, ClosesMore
<1> QED
  BY <1>5, <1>8, <1>10, <1>12, <1>14

LEMMA TitleCloses ==
    ASSUME NEW w \in Titles
    PROVE  Title(w) \in Texts /\ Closes(Title(w))
<1>1. PICK t : t = Title(w)
  OBVIOUS
<1>2. t \in Texts /\ Len(t) = 4 /\ t[4] = NL
  BY <1>1, TitleText DEF Texts
<1>3. 4 \in 1 .. Len(t) /\ \A j \in 4 + 1 .. Len(t) : t[j] \notin Comments
  BY <1>2
<1> QED
  BY <1>1, <1>2, <1>3 DEF Closes

LEMMA FieldCloses ==
    ASSUME NEW f \in Fields
    PROVE  Text!DeclaredField(f) \in Texts /\ Closes(Text!DeclaredField(f))
<1>1. PICK u \in Texts : Text!DeclaredField(f) = Cat(u, <<NL>>)
  BY EmptyAtEnd, FieldText
<1>2. PICK e : e = <<NL>>
  OBVIOUS
<1>3. e \in Plains /\ Len(e) = 1 /\ e[1] = NL
  BY <1>2, FixedPlain DEF Plains
<1>4. 1 \in 1 .. Len(e)
  BY <1>3
<1>5. e \in Texts /\ Closes(e)
  BY <1>3, <1>4, PlainCloses, CatType
<1> QED
  BY <1>1, <1>2, <1>5, ClosesBehind, CatType

LEMMA MethodCloses ==
    ASSUME NEW m \in Methods, il2cpp_base \in Nat
    PROVE  Text!DeclaredMethod(m) \in Texts /\ Closes(Text!DeclaredMethod(m))
<1>1. PICK n, g, q : /\ n = Words(<<"newline", "tab">>) /\ g = get_method_modifier(m)
                     /\ q = Words(Word1(m.ret.byref, "ref") \o <<"Type", "name", "lparen">>)
  OBVIOUS
<1>2. n \in Plains /\ g \in Plains /\ q \in Plains
  <2>1. /\ <<"newline", "tab">> \in Seq(PlainWords) /\ "ref" \in PlainWords
        /\ <<"Type", "name", "lparen">> \in Seq(PlainWords)
    BY DEF PlainWords
  <2>2. Word1(m.ret.byref, "ref") \o <<"Type", "name", "lparen">> \in Seq(PlainWords)
    BY <2>1, Word1Plain, ConcatPlain
  <2> QED
    BY <1>1, <2>1, <2>2, WordsPlains, ModifierPlain DEF Plains
<1>3. Closes(n)
  <2>1. \A x, y : Words(<<x, y>>) = <<Lit(x), Lit(y)>>
    BY DEF Words
  <2>2. n = <<NL, Lit("tab")>>
    BY <1>1, <2>1 DEF NL
  <2>3. Len(n) = 2 /\ n[1] = NL
    BY <2>2
  <2>4. 1 \in 1 .. Len(n)
    BY <2>3
  <2> QED
    BY <1>2, <2>3, <2>4, PlainCloses
<1>4. AddressText(m) \in Texts
  <2>1. /\ m.ptr \in Nat /\ Rva(m.ptr) \in Int
    BY RvaType DEF Methods
  <2>2. \A k \in Int : <<"hex", k>> \in Plain
    BY DEF Plain
  <2>3. PICK r, a, v, p : /\ r = Words(<<"RVA">>) /\ a = <<<<"hex", Rva(m.ptr)>>>>
                          /\ v = Words(<<"VA">>) /\ p = <<<<"hex", m.ptr>>>>
    OBVIOUS
  <2>4. a \in Plains /\ p \in Plains
    <3>1. <<"hex", Rva(m.ptr)>> \in Plain /\ <<"hex", m.ptr>> \in Plain
      BY <2>1, <2>2
    <3> QED
      BY <2>3, <3>1 DEF Plains
  <2>5. v \in Plains
    <3>1. <<"VA">> \in Seq(PlainWords)
      BY DEF PlainWords
    <3> QED
      BY <2>3, <3>1, WordsPlains
  <2>6. r \in Texts /\ Words(<<"RVA", "VA", "0">>) \in Texts
    BY <2>3, RvaWords
  <2>7. Cat(Cat(Cat(r, a), v), p) \in Texts
    BY <2>4, <2>5, <2>6, CatType
  <2> QED
    BY <2>3, <2>6, <2>7 DEF AddressText
<1>5. Text!DeclaredMethod(m) = Cat(Cat(Cat(AddressText(m), n), g), q)
  BY <1>1, SameWords, SameModifiers DEF Text!DeclaredMethod, Text!Number, AddressText, Rva, Cat
<1> HIDE <1>1
<1>6. n \in Texts /\ g \in Texts /\ q \in Texts
  BY <1>2, CatType
<1>7. PICK b : b = Cat(AddressText(m), n)
  OBVIOUS
<1>8. b \in Texts /\ Closes(b)
  BY <1>3, <1>4, <1>6, <1>7, ClosesBehind, CatType
<1>9. PICK c : c = Cat(b, g)
  OBVIOUS
<1>10. c \in Texts /\ Closes(c)
  BY <1>2, <1>6, <1>8, <1>9, ClosesMore, CatType
<1>11. Cat(c, q) \in Texts /\ Closes(Cat(c, q))
  BY <1>2, <1>6, <1>10, ClosesMore, CatType
<1> QED
  BY <1>5, <1>7, <1>9, <1>11

(* A property with accessors ends its line; of a stripped one only the     *)
(* comment is printed, and only if it has a name.                          *)
LEMMA PropertyLine ==
    ASSUME NEW p
    PROVE  /\ PropertyText(p) \in Texts
           /\ ~Stripped(p) => Closes(PropertyText(p))
           /\ Stripped(p) => PropertyText(p) = Cat(Words(<<"tab">>),
                                                   Words(Word1(p.named, "unknown_property")))
<1>1. PICK flags, w : flags = (IF p.get # <<>> THEN p.get ELSE p.set) /\ w = Words(<<"tab">>)
  OBVIOUS
<1>2. Stripped(p) <=> flags = <<>>
  BY <1>1 DEF Stripped
<1>3. w \in Plains /\ w \in Texts
  BY <1>1, FixedPlain, CatType DEF Plains
<1>4. PropertyText(p) \in Texts
  BY PropertyType DEF Texts
<1>5. ASSUME ~Stripped(p) PROVE Closes(PropertyText(p))
  <2>1. PICK g, a, z : /\ g = get_method_modifier(flags[1])
                       /\ a = <<"Type", "name", "lbrace">> \o Word1(p.get # <<>>, "get")
                              \o Word1(p.set # <<>>, "set")
                       /\ z = <<"rbrace", "newline">>
    OBVIOUS
  <2>2. a \in Seq(PlainWords) /\ z \in Seq(PlainWords)
    <3>1. /\ Word1(p.get # <<>>, "get") \in Seq(PlainWords)
          /\ Word1(p.set # <<>>, "set") \in Seq(PlainWords)
          /\ <<"Type", "name", "lbrace">> \in Seq(PlainWords)
          /\ <<"rbrace", "newline">> \in Seq(PlainWords)
      BY Word1Plain DEF PlainWords
    <3> QED
      BY <2>1, <3>1, ConcatPlain
  <2>3. a \in Vocabulary /\ z \in Vocabulary
    BY <2>2, PlainInAll DEF Vocabulary
  <2>4. g \in Plains /\ Words(a) \in Plains /\ Words(z) \in Plains
    BY <2>1, <2>2, ModifierPlain, WordsPlains DEF Plains
  <2>5. g \in Texts /\ Words(a) \in Texts /\ Words(z) \in Texts
    BY <2>4, CatType
  <2>6. Closes(Words(z))
    <3>1. \A x, y : Words(<<x, y>>) = <<Lit(x), Lit(y)>>
      BY DEF Words
    <3>2. Words(z) = <<Lit("rbrace"), NL>>
      BY <2>1, <3>1 DEF NL
    <3>3. PICK t : t = Words(z)
      OBVIOUS
    <3>4. t \in Plains /\ Len(t) = 2 /\ t[2] = NL
      BY <2>4, <3>2, <3>3
    <3>5. 2 \in 1 .. Len(t)
      BY <3>4
    <3> QED
      BY <3>3, <3>4, <3>5, PlainCloses
  <2>7. PropertyText(p) = Cat(w, Cat(g, Words(Cat(a, z))))
    BY <1>1, <1>2, <1>5, <2>1 DEF PropertyText, Cat
  <2> HIDE <1>1, <2>1
  <2>8. Words(Cat(a, z)) = Cat(Words(a), Words(z))
    BY <2>3, WordsCat
  <2>9. PICK b : b = Words(Cat(a, z))
    OBVIOUS
  <2>10. b \in Texts /\ Closes(b)
    BY <2>5, <2>6, <2>8, <2>9, ClosesBehind, CatType
  <2>11. PICK c : c = Cat(g, b)
    OBVIOUS
  <2>12. c \in Texts /\ Closes(c)
    BY <2>5, <2>10, <2>11, ClosesBehind, CatType
  <2>13. Closes(Cat(w, c))
    BY <1>3, <2>12, ClosesBehind
  <2> QED
    BY <2>7, <2>9, <2>11, <2>13
<1>6. ASSUME Stripped(p)
      PROVE  PropertyText(p) = Cat(w, Words(Word1(p.named, "unknown_property")))
  BY <1>1, <1>2, <1>6 DEF PropertyText, Cat
<1> QED
  BY <1>1, <1>4, <1>5, <1>6

(* What one more property does to the line.                                *)
LEMMA LeavesAppend ==
    ASSUME NEW S, NEW ps \in Seq(S), NEW p \in S, p.named \in BOOLEAN
    PROVE  LeavesLineOpen(Append(ps, p)) <=> Stripped(p) /\ (p.named \/ LeavesLineOpen(ps))
<1>1. PICK q, d : q = Append(ps, p) /\ d = Len(ps)
  OBVIOUS
<1>2. /\ d \in Nat /\ Len(q) = d + 1 /\ q[d + 1] = p
      /\ \A k \in 1 .. d : q[k] = ps[k]
  BY <1>1
<1>3. d + 1 \in 1 .. Len(q)
  BY <1>2
<1>4. ASSUME LeavesLineOpen(q) PROVE Stripped(p) /\ (p.named \/ LeavesLineOpen(ps))
  <2>1. PICK j \in 1 .. Len(q) : q[j].named /\ \A n \in j .. Len(q) : Stripped(q[n])
    BY <1>4 DEF LeavesLineOpen
  <2>2. Stripped(p)
    <3>1. d + 1 \in j .. Len(q)
      BY <1>2, <2>1
    <3>2. Stripped(q[d + 1])
      BY <2>1, <3>1
    <3> QED
      BY <1>2, <3>2
  <2>3. CASE j = d + 1
    BY <1>2, <2>1, <2>2, <2>3
  <2>4. CASE j # d + 1
    <3>1. j \in 1 .. d /\ \A n \in j .. d : n \in j .. Len(q) /\ n \in 1 .. d
      BY <1>2, <2>1, <2>4
    <3>2. ps[j].named
      BY <1>2, <2>1, <3>1
    <3>3. ASSUME NEW n \in j .. d PROVE Stripped(ps[n])
      <4>1. n \in j .. Len(q) /\ q[n] = ps[n]
        BY <1>2, <3>1, <3>3
      <4>2. Stripped(q[n])
        BY <2>1, <4>1
      <4> QED
        BY <4>1, <4>2
    <3> QED
      BY <1>1, <2>2, <3>1, <3>2, <3>3 DEF LeavesLineOpen
  <2> QED
    BY <2>3, <2>4
<1>5. ASSUME Stripped(p), p.named PROVE LeavesLineOpen(q)
  <2>1. \A n \in d + 1 .. Len(q) : n = d + 1
    BY <1>2
  <2>2. ASSUME NEW n \in d + 1 .. Len(q) PROVE Stripped(q[n])
    <3>1. q[n] = p
      BY <1>2, <2>1, <2>2
    <3> QED
      BY <1>5, <3>1
  <2>3. q[d + 1].named
    BY <1>2, <1>5
  <2> QED
    BY <1>3, <2>2, <2>3 DEF LeavesLineOpen
<1>6. ASSUME Stripped(p), LeavesLineOpen(ps) PROVE LeavesLineOpen(q)
  <2>1. PICK j \in 1 .. d : ps[j].named /\ \A n \in j .. d : Stripped(ps[n])
    BY <1>1, <1>6 DEF LeavesLineOpen
  <2>2. j \in 1 .. Len(q) /\ q[j].named
    BY <1>2, <2>1
  <2>3. ASSUME NEW n \in j .. Len(q) PROVE Stripped(q[n])
    <3>1. CASE n = d + 1
      BY <1>2, <1>6, <3>1
    <3>2. CASE n # d + 1
      <4>1. n \in j .. d /\ n \in 1 .. d
        BY <1>2, <2>1, <2>3, <3>2
      <4>2. q[n] = ps[n] /\ Stripped(ps[n])
        BY <1>2, <2>1, <4>1
      <4> QED
        BY <4>2
    <3> QED
      BY <3>1, <3>2
  <2> QED
    BY <2>2, <2>3 DEF LeavesLineOpen
<1> QED
  BY <1>1, <1>4, <1>5, <1>6

(* No property is printed before the fields are.                           *)
LineInv ==
    /\ Visible \in Texts /\ NoCommentLeftOpen
    /\ section \in {"type", "bases", "field"} => members.property = <<>>

(* Plain text is added outside of the properties.                          *)
LEMMA PlainStep ==
    ASSUME LineInv, NEW t \in Plains, Visible' = Cat(Visible, t),
           section # "property", section' # "property", members' = members,
           section' \in {"type", "bases", "field"} => section \in {"type", "bases", "field"}
    PROVE  LineInv'
<1>1. PICK v : v = Visible
  OBVIOUS
<1>2. v \in Texts /\ ~CommentOpen(v)
  BY <1>1 DEF LineInv, NoCommentLeftOpen
<1>3. Cat(v, t) \in Texts /\ ~CommentOpen(Cat(v, t))
  BY <1>2, StaysClosed, CatType
<1> QED
  BY <1>1, <1>3 DEF LineInv, NoCommentLeftOpen

(* A text that ends its line is added.                                     *)
LEMMA ClosingStep ==
    ASSUME LineInv, NEW t \in Texts, Closes(t), Visible' = Cat(Visible, t),
           section' = "property" => ~LeavesLineOpen(members'.property),
           section' \in {"type", "bases", "field"} => members'.property = <<>>
    PROVE  LineInv'
<1>1. PICK v, c : v = Visible /\ c = Cat(v, t)
  OBVIOUS
<1>2. v \in Texts
  BY <1>1 DEF LineInv
<1>3. c \in Texts /\ Closes(c)
  BY <1>1, <1>2, ClosesBehind, CatType
<1>4. ~CommentOpen(c)
  BY <1>3, ClosesComment
<1> QED
  BY <1>1, <1>3, <1>4 DEF LineInv, NoCommentLeftOpen

LEMMA LineBody ==
    ASSUME LineInv, Text!Body
    PROVE  LineInv'
<1>1. PICK n, t : n = BodyBegin /\ t = Title("Fields")
  OBVIOUS
<1>2. "Fields" \in Titles
  BY DEF Titles
<1>3. n \in Texts /\ t \in Texts /\ Closes(t)
  BY <1>1, <1>2, FixedPlain, CatType, TitleCloses DEF Plains
<1>4. Cat(n, t) \in Texts /\ Closes(Cat(n, t))
  BY <1>3, ClosesBehind, CatType
<1>5. Visible' = Cat(Visible, Cat(n, t))
  BY <1>1, SameWords DEF Text!Body, Text!Write, Cat
<1>6. section = "bases" /\ section' = "field" /\ members' = members
  BY DEF Text!Body, Text!Go
<1>7. members'.property = <<>>
  BY <1>6 DEF LineInv
<1> QED
  BY <1>4, <1>5, <1>6, <1>7, ClosingStep

LEMMA LineProperty ==
    ASSUME IInv, LineInv, NEW p \in class.properties, Text!Property(p)
    PROVE  LineInv'
<1>1. p \in Properties /\ members.property \in Seq(Properties)
  BY ClassType DEF IInv, MembersInv
<1>2. p.named \in BOOLEAN
  BY <1>1 DEF Properties
<1>3. /\ section = "property" /\ section' = section
      /\ members' = [members EXCEPT !["property"] = Append(@, p)]
      /\ Visible' = Cat(Visible, PropertyText(p))
  BY SameModifiers DEF Text!Property, Text!Member, Text!Write, Cat
<1>4. members'.property = Append(members.property, p)
  BY <1>3 DEF IInv, MembersInv
<1>5. PICK ps, qs : ps = members.property /\ qs = members'.property
  OBVIOUS
<1>6. LeavesLineOpen(qs) <=> Stripped(p) /\ (p.named \/ LeavesLineOpen(ps))
  BY <1>1, <1>2, <1>4, <1>5, LeavesAppend
<1>7. PICK v, t, w, x : /\ v = Visible /\ t = PropertyText(p)
                        /\ w = Words(<<"tab">>) /\ x = Lit("unknown_property")
  OBVIOUS
<1>8. v \in Texts /\ (CommentOpen(v) <=> LeavesLineOpen(ps))
  BY <1>3, <1>5, <1>7 DEF LineInv, NoCommentLeftOpen
<1>9. w \in Plains /\ w \in Texts
  BY <1>7, FixedPlain, CatType DEF Plains
<1>10. CASE ~Stripped(p)
  <2>1. t \in Texts /\ Closes(t)
    BY <1>7, <1>10, PropertyLine
  <2>2. ~LeavesLineOpen(members'.property)
    BY <1>5, <1>6, <1>10
  <2> QED
    BY <1>3, <1>7, <2>1, <2>2, ClosingStep
<1>11. ASSUME Stripped(p)
       PROVE  t = Cat(w, Words(Word1(p.named, "unknown_property")))
  BY <1>7, <1>11, PropertyLine
<1>12. ASSUME Stripped(p)
       PROVE  Cat(v, t) \in Texts /\ (CommentOpen(Cat(v, t)) <=> LeavesLineOpen(qs))
  <2>1. CASE p.named
    <3>1. t = Cat(w, <<x>>)
      <4>1. \A y : Words(<<y>>) = <<Lit(y)>>
        BY DEF Words
      <4>2. Words(Word1(p.named, "unknown_property")) = <<x>>
        BY <1>7, <2>1, <4>1 DEF Word1
      <4> QED
        BY <1>11, <1>12, <4>2
    <3>2. x \in Comments /\ <<x>> \in Texts
      <4>1. x \in {Lit(u) : u \in CommentWords}
        <5>1. "unknown_property" \in CommentWords
          BY DEF CommentWords
        <5> QED
          BY <1>7, <5>1
      <4>2. x \in Tok
        BY <4>1 DEF Tok
      <4> QED
        BY <4>1, <4>2, CommentTokens DEF Texts
    <3>3. Cat(v, t) = Cat(Cat(v, w), <<x>>) /\ Cat(v, w) \in Texts
      BY <1>8, <1>9, <3>1, <3>2, CatAssoc, CatType
    <3>4. CommentOpen(Cat(v, t)) /\ Cat(v, t) \in Texts
      BY <3>2, <3>3, LastOpens, CatType
    <3> QED
      BY <1>6, <1>12, <2>1, <3>4
  <2>2. CASE ~p.named
    <3>1. t = w
      <4>1. Words(<<>>) = <<>>
        BY DEF Words
      <4>2. Words(Word1(p.named, "unknown_property")) = <<>>
        BY <2>2, <4>1 DEF Word1
      <4> QED
        BY <1>9, <1>11, <1>12, <4>2, CatEmpty
    <3>2. \A k \in 1 .. Len(w) : w[k] # NL
      <4>1. \A y : Words(<<y>>) = <<Lit(y)>>
        BY DEF Words
      <4>2. w = <<Lit("tab")>>
        BY <1>7, <4>1
      <4>3. Lit("tab") # NL
        BY DEF Lit, NL
      <4>4. Len(w) = 1 /\ w[1] = Lit("tab")
        BY <4>2
      <4>5. \A k \in 1 .. Len(w) : k = 1
        BY <4>4
      <4> QED
        BY <4>3, <4>4, <4>5
    <3>3. CommentOpen(Cat(v, w)) <=> CommentOpen(v)
      BY <1>8, <1>9, <3>2, StaysOpen, StaysClosed
    <3>4. Cat(v, w) \in Texts
      BY <1>8, <1>9, CatType
    <3> QED
      BY <1>6, <1>8, <1>12, <2>2, <3>1, <3>3, <3>4
  <2> QED
    BY <1>2, <2>1, <2>2
<1>13. CASE Stripped(p)
  BY <1>3, <1>5, <1>7, <1>12, <1>13 DEF LineInv, NoCommentLeftOpen
<1> QED
  BY <1>10, <1>13

LEMMA LineParam ==
    ASSUME IInv, LineInv, Text!Parameter
    PROVE  LineInv'
<1>1. /\ section = "method" /\ i > 0 /\ i <= Len(Text!params) /\ section' = section
      /\ Visible' = Visible \o ((IF i = 1 THEN <<>> ELSE Text!Comma)
                                \o Text!DeclaredParam(Text!params[i]))
      /\ members' = members
  BY DEF Text!Parameter, Text!Write
<1>2. /\ Text!params = params /\ i \in Nat /\ i \in 1 .. Len(params)
      /\ params[i] \in Params /\ BitIsRight(params[i]) /\ byrefApi \in BOOLEAN
  BY <1>1, ParamsType
<1>3. PICK p, c : p = Text!DeclaredParam(params[i]) /\ c = IF i = 1 THEN <<>> ELSE Comma
  OBVIOUS
<1>4. p \in Plains
  BY <1>2, <1>3, ParamPrinted
<1>5. c \in Plains
  BY <1>3, FixedPlain, CatEmpty DEF Plains
<1>6. Cat(c, p) \in Plains
  BY <1>4, <1>5, CatType
<1>7. Visible' = Cat(Visible, Cat(c, p))
  BY <1>1, <1>2, <1>3, SameWords DEF Cat
<1> QED
  BY <1>1, <1>6, <1>7, PlainStep

(* No text ClassText adds leaves a comment open, but that of a property    *)
(* without accessors.                                                      *)
LEMMA LineStep == IInv /\ LineInv /\ [Text!Next]_Text!vars => LineInv'
<1> SUFFICES ASSUME IInv, LineInv, [Text!Next]_Text!vars PROVE LineInv'
  OBVIOUS
<1>1. CASE Text!Header
  <2>1. /\ Visible' = Cat(Visible, NameLine(header)) /\ section = "type" /\ section' = "bases"
        /\ members' = members
    BY <1>1, SameHeader DEF Text!Header, Text!Write, Text!Go, header, Cat
  <2>2. NameLine(header) \in Texts /\ Closes(NameLine(header))
    BY ClassType, NameLineType, NameLineCloses DEF IInv, Texts
  <2>3. members'.property = <<>>
    BY <2>1 DEF LineInv
  <2> QED
    BY <2>1, <2>2, <2>3, ClosingStep
<1>2. CASE Text!Base
  <2>1. /\ Visible' = Cat(Visible, BaseText(header, i)) /\ section = "bases" /\ section' = section
        /\ i <= Len(Extends(header)) /\ members' = members
    BY <1>2, SameHeader DEF Text!Base, Text!Write, header, Cat
  <2>2. i \in 1 .. Len(Extends(header))
    BY <2>1 DEF IInv, PlaceInv
  <2>3. BaseText(header, i) \in Plains
    BY <2>2, ClassType, BaseTextPlain DEF IInv, Plains
  <2> QED
    BY <2>1, <2>3, PlainStep
<1>3. CASE Text!Body
  BY <1>3, LineBody
<1>4. ASSUME NEW f \in class.fields, Text!Field(f) PROVE LineInv'
  <2>1. /\ Visible' = Cat(Visible, Text!DeclaredField(f)) /\ section = "field" /\ section' = section
        /\ members' = [members EXCEPT !["field"] = Append(@, f)]
    BY <1>4 DEF Text!Field, Text!Member, Text!Write, Cat
  <2>2. Text!DeclaredField(f) \in Texts /\ Closes(Text!DeclaredField(f))
    BY ClassType, FieldCloses DEF IInv
  <2>3. members'.property = <<>>
    <3>1. members'.property = members.property
      BY <2>1 DEF IInv, MembersInv
    <3> QED
      BY <2>1, <3>1 DEF LineInv
  <2> QED
    BY <2>1, <2>2, <2>3, ClosingStep
<1>5. ASSUME NEW p \in class.properties, Text!Property(p) PROVE LineInv'
  BY <1>5, LineProperty
<1>6. ASSUME NEW m \in class.methods, Text!Method(m) PROVE LineInv'
  <2>1. m \in Methods /\ il2cpp_base \in Nat
    BY ClassType DEF IInv, RunInv
  <2>2. /\ section = "method" /\ section' = section
        /\ Visible' = Cat(Visible, Text!DeclaredMethod(m))
    BY <1>6 DEF Text!Method, Text!Member, Text!Write, Cat
  <2>3. Text!DeclaredMethod(m) \in Texts /\ Closes(Text!DeclaredMethod(m))
    BY <2>1, MethodCloses
  <2> QED
    BY <2>2, <2>3, ClosingStep
<1>7. CASE Text!Parameter
  BY <1>7, LineParam
<1>8. CASE Text!MethodDone
  <2>1. /\ Visible' = Cat(Visible, MethodEnd) /\ section = "method" /\ section' = section
        /\ members' = members
    BY <1>8, SameWords DEF Text!MethodDone, Text!Write, Cat
  <2> QED
    BY <2>1, FixedPlain, PlainStep DEF Plains
<1>9. CASE Text!Section("field", "property", Text!Title("Properties"))
  <2>1. /\ Visible' = Cat(Visible, Title("Properties")) /\ section = "field"
        /\ section' = "property" /\ members' = members
    BY <1>9, SameWords DEF Text!Section, Text!Write, Text!Go, Cat
  <2>2. "Properties" \in Titles
    BY DEF Titles
  <2>3. Title("Properties") \in Texts /\ Closes(Title("Properties"))
    BY <2>2, TitleCloses
  <2>4. ~LeavesLineOpen(members'.property)
    <3>1. members'.property = <<>>
      BY <2>1 DEF LineInv
    <3>2. ~LeavesLineOpen(<<>>)
      BY DEF LeavesLineOpen
    <3> QED
      BY <3>1, <3>2
  <2> QED
    BY <2>1, <2>3, <2>4, ClosingStep
<1>10. CASE Text!Section("property", "method", Text!Title("Methods"))
  <2>1. Visible' = Cat(Visible, Title("Methods")) /\ section' = "method"
    BY <1>10, SameWords DEF Text!Section, Text!Write, Text!Go, Cat
  <2>2. "Methods" \in Titles
    BY DEF Titles
  <2>3. Title("Methods") \in Texts /\ Closes(Title("Methods"))
    BY <2>2, TitleCloses
  <2> QED
    BY <2>1, <2>3, ClosingStep
<1>11. CASE Text!Section("method", "done", Text!BodyEnd)
  <2>1. /\ Visible' = Cat(Visible, BodyEnd) /\ section = "method" /\ section' = "done"
        /\ members' = members
    BY <1>11, SameWords DEF Text!Section, Text!Write, Text!Go, Cat
  <2> QED
    BY <2>1, FixedPlain, PlainStep DEF Plains
<1>12. CASE UNCHANGED Text!vars
  BY <1>12 DEF LineInv, NoCommentLeftOpen, Text!vars
<1> QED
  BY <1>1, <1>2, <1>3, <1>4, <1>5, <1>6, <1>7, <1>8, <1>9, <1>10, <1>11, <1>12 DEF Text!Next

LEMMA LineInit == Init => LineInv
<1> SUFFICES ASSUME Init PROVE LineInv
  OBVIOUS
<1>1. Visible = <<>> /\ section = "type" /\ members.property = <<>>
  BY InitInv DEF Text!Init, Text!NoMembers
<1>2. <<>> \in Texts /\ ~CommentOpen(<<>>)
  BY CatEmpty, CatType DEF CommentOpen
<1> QED
  BY <1>1, <1>2 DEF LineInv, NoCommentLeftOpen

(* Whatever the members of a class are, a comment of dump_type ends on its *)
(* line, with the one exception the property names: that of a property     *)
(* without accessors, which comments out the next property with accessors. *)
THEOREM CommentsAlways == Spec => []NoCommentLeftOpen
<1>1. IInv /\ LineInv /\ [Next]_vars => LineInv'
  BY TextStep, LineStep
<1>2. LineInv => NoCommentLeftOpen
  BY DEF LineInv
<1> QED
  BY <1>1, <1>2, LineInit, RenderInvariant, PTL DEF Spec

-----------------------------------------------------------------------------
(* The header, token by token.                                             *)

HeadWords == {Lit(w) : w \in {"class", "static", "abstract", "sealed"}}

(* Behind the text s, t has the first b of the names e.                    *)
BasesPrinted(t, s, e, b) ==
    /\ Len(t) = Len(s) + (IF b = 0 THEN 0 ELSE 3 * b - 1)
    /\ \A k \in 1 .. Len(s) : t[k] = s[k]
    /\ b > 0 => t[Len(s) + 1] = Lit("colon")
    /\ \A k \in 1 .. b : t[Len(s) + 3 * k - 1] = Name(e[k])
    /\ \A k \in 2 .. b : /\ t[Len(s) + 3 * k - 3] = Lit("comma")
                         /\ t[Len(s) + 3 * k - 2] = Lit("blank")
    /\ \A k \in Len(s) + 1 .. Len(t) : t[k] \notin HeadWords

HeaderInv ==
    /\ section = "bases" => BasesPrinted(outPut, NameLine(header), Extends(header), i - 1)
    /\ section = "field" =>
           \E t \in Texts : /\ outPut = Cat(t, BodyBegin)
                            /\ BasesPrinted(t, NameLine(header), Extends(header),
                                            Len(Extends(header)))

LEMMA NoHeadWord ==
    /\ Lit("colon") \notin HeadWords /\ Lit("comma") \notin HeadWords
    /\ Lit("blank") \notin HeadWords /\ Lit("lbrace") \notin HeadWords /\ NL \notin HeadWords
    /\ \A x : Name(x) \notin HeadWords
<1>1. \A v, w : Lit(v) = Lit(w) => v = w
  BY DEF Lit
<1>2. \A x, w : Name(x) # Lit(w)
  BY DEF Name, Lit
<1> QED
  BY <1>1, <1>2 DEF HeadWords, NL

(* The first base.                                                         *)
LEMMA FirstBase ==
    ASSUME NEW t \in Texts, NEW s \in Texts, NEW e, NEW u \in Texts, NEW x,
           Len(u) = 2, u[1] = Lit("colon"), u[2] = x, x = Name(e[1]), BasesPrinted(t, s, e, 0)
    PROVE  BasesPrinted(Cat(t, u), s, e, 1)
<1>1. PICK c, n : c = Cat(t, u) /\ n = Len(s)
  OBVIOUS
<1>2. Len(u) = 2
  OBVIOUS
<1>3. n \in Nat /\ Len(t) = n
  <2>1. n \in Nat
    BY <1>1 DEF Texts
  <2> QED
    BY <1>1, <2>1 DEF BasesPrinted
<1>4. \A k \in 1 .. n : t[k] = s[k]
  BY <1>1 DEF BasesPrinted
<1>5. /\ Len(c) = n + 2 /\ \A k \in 1 .. n : c[k] = t[k]
      /\ \A k \in 1 .. 2 : c[n + k] = u[k]
  <2>1. /\ Len(c) = Len(t) + Len(u)
        /\ \A k \in 1 .. Len(t) : c[k] = t[k]
        /\ \A k \in 1 .. Len(u) : c[Len(t) + k] = u[k]
    BY <1>1, CatElements
  <2> QED
    BY <1>1, <1>2, <1>3, <2>1
<1>6. c[n + 1] = Lit("colon") /\ c[n + 2] = x
  BY <1>2, <1>5
<1>7. ASSUME NEW k \in n + 1 .. Len(c) PROVE c[k] \notin HeadWords
  <2>1. k = n + 1 \/ k = n + 2
    BY <1>3, <1>5
  <2> QED
    BY <1>6, <2>1, NoHeadWord
<1>8. ASSUME NEW k \in 1 .. 1 PROVE c[n + 3 * k - 1] = Name(e[k])
  <2>1. k = 1 /\ n + 3 * k - 1 = n + 2
    BY <1>3
  <2> QED
    BY <1>6, <2>1
<1>9. \A k \in 1 .. n : c[k] = s[k]
  BY <1>4, <1>5
<1>10. Len(c) = n + (IF 1 = 0 THEN 0 ELSE 3 * 1 - 1)
  BY <1>3, <1>5
<1>11. \A k \in 2 .. 1 : FALSE
  OBVIOUS
<1> QED
  BY <1>1, <1>6, <1>7, <1>8, <1>9, <1>10, <1>11 DEF BasesPrinted

(* Another base.                                                           *)
LEMMA NextBase ==
    ASSUME NEW t \in Texts, NEW s \in Texts, NEW e, NEW u \in Texts, NEW x,
           NEW b \in Nat \ {0}, x = Name(e[b + 1]),
           Len(u) = 3, u[1] = Lit("comma"), u[2] = Lit("blank"), u[3] = x,
           BasesPrinted(t, s, e, b)
    PROVE  BasesPrinted(Cat(t, u), s, e, b + 1)
<1>1. PICK c, n, m : c = Cat(t, u) /\ n = Len(s) /\ m = Len(t)
  OBVIOUS
<1>2. Len(u) = 3
  OBVIOUS
<1>3. n \in Nat /\ m = n + 3 * b - 1 /\ m \in Nat
  <2>1. n \in Nat
    BY <1>1 DEF Texts
  <2>2. m = n + (3 * b - 1)
    BY <1>1 DEF BasesPrinted
  <2> QED
    BY <2>1, <2>2
<1>4. /\ \A k \in 1 .. n : t[k] = s[k]
      /\ t[n + 1] = Lit("colon")
      /\ \A k \in 1 .. b : t[n + 3 * k - 1] = Name(e[k])
      /\ \A k \in 2 .. b : t[n + 3 * k - 3] = Lit("comma") /\ t[n + 3 * k - 2] = Lit("blank")
      /\ \A k \in n + 1 .. m : t[k] \notin HeadWords
  BY <1>1 DEF BasesPrinted
<1>5. /\ Len(c) = m + 3 /\ \A k \in 1 .. m : c[k] = t[k]
      /\ \A k \in 1 .. 3 : c[m + k] = u[k]
  <2>1. /\ Len(c) = Len(t) + Len(u)
        /\ \A k \in 1 .. Len(t) : c[k] = t[k]
        /\ \A k \in 1 .. Len(u) : c[Len(t) + k] = u[k]
    BY <1>1, CatElements
  <2> QED
    BY <1>1, <1>2, <1>3, <2>1
<1>6. c[m + 1] = Lit("comma") /\ c[m + 2] = Lit("blank") /\ c[m + 3] = x
  BY <1>2, <1>5
<1>7. ASSUME NEW k \in n + 1 .. Len(c) PROVE c[k] \notin HeadWords
  <2>1. k \in n + 1 .. m \/ k = m + 1 \/ k = m + 2 \/ k = m + 3
    BY <1>3, <1>5
  <2>2. CASE k \in n + 1 .. m
    <3>1. k \in 1 .. m
      BY <1>3, <2>2
    <3>2. c[k] = t[k]
      BY <1>5, <3>1
    <3> QED
      BY <1>4, <2>2, <3>2
  <2> QED
    BY <1>6, <2>1, <2>2, NoHeadWord
<1>8. ASSUME NEW k \in 1 .. b + 1 PROVE c[n + 3 * k - 1] = Name(e[k])
  <2>1. CASE k = b + 1
    <3>1. n + 3 * k - 1 = m + 3
      BY <1>3, <2>1
    <3> QED
      BY <1>6, <2>1, <3>1
  <2>2. CASE k # b + 1
    <3>1. k \in 1 .. b /\ n + 3 * k - 1 \in 1 .. m
      BY <1>3, <2>2
    <3>2. c[n + 3 * k - 1] = t[n + 3 * k - 1]
      BY <1>5, <3>1
    <3> QED
      BY <1>4, <3>1, <3>2
  <2> QED
    BY <2>1, <2>2
<1>9. ASSUME NEW k \in 2 .. b + 1
      PROVE  c[n + 3 * k - 3] = Lit("comma") /\ c[n + 3 * k - 2] = Lit("blank")
  <2>1. CASE k = b + 1
    <3>1. n + 3 * k - 3 = m + 1 /\ n + 3 * k - 2 = m + 2
      BY <1>3, <2>1
    <3> QED
      BY <1>6, <3>1
  <2>2. CASE k # b + 1
    <3>1. k \in 2 .. b /\ n + 3 * k - 3 \in 1 .. m /\ n + 3 * k - 2 \in 1 .. m
      BY <1>3, <2>2
    <3>2. c[n + 3 * k - 3] = t[n + 3 * k - 3] /\ c[n + 3 * k - 2] = t[n + 3 * k - 2]
      BY <1>5, <3>1
    <3> QED
      BY <1>4, <3>1, <3>2
  <2> QED
    BY <2>1, <2>2
<1>10. \A k \in 1 .. n : c[k] = s[k]
  <2>1. \A k \in 1 .. n : k \in 1 .. m
    BY <1>3
  <2> QED
    BY <1>4, <1>5, <2>1
<1>11. Len(c) = n + (3 * (b + 1) - 1) /\ b + 1 # 0
  BY <1>3, <1>5
<1>12. c[n + 1] = Lit("colon")
  <2>1. n + 1 \in 1 .. m
    BY <1>3
  <2> QED
    BY <1>4, <1>5, <2>1
<1> QED
  BY <1>1, <1>7, <1>8, <1>9, <1>10, <1>11, <1>12 DEF BasesPrinted

(* The line of the name: its words, and the name at its end.               *)
LEMMA NameLineWords ==
    ASSUME NEW h \in Headers
    PROVE  \E ws \in Vocabulary :
              /\ NameLine(h) = Words(ws) /\ Len(ws) > 0 /\ ws[Len(ws)] = "Name"
              /\ \A w \in {"class", "static", "abstract", "sealed"} :
                     In(ws, w) <=> In(ClassModifier(h), w) \/ ClassKind(h) = w
<1>1. PICK a, s, v, m, k :
          /\ a = <<"newline", "Namespace", "newline">>
          /\ s = IF "SERIALIZABLE" \in h.bits THEN <<"Serializable", "newline">> ELSE <<>>
          /\ v = <<Visibility(h.vis)>> /\ m = ClassModifier(h) /\ k = <<ClassKind(h), "Name">>
  OBVIOUS
<1>2. /\ a \in Vocabulary /\ s \in Vocabulary /\ v \in Vocabulary
      /\ m \in Vocabulary /\ k \in Vocabulary
  <2>1. /\ s \in Seq(PlainWords) /\ v \in Seq(PlainWords)
        /\ m \in Seq(PlainWords) /\ k \in Seq(PlainWords)
    BY <1>1, HeadPlain
  <2> QED
    BY <1>1, <2>1, NamespaceWords, PlainInAll DEF Vocabulary
<1>3. Visibility(h.vis) \in {"public", "internal", "private", "protected", "protected_internal"}
  <2>1. h.vis \in {"PUBLIC", "NESTED_PUBLIC", "NOT_PUBLIC", "NESTED_FAM_AND_ASSEM",
                   "NESTED_ASSEMBLY", "NESTED_PRIVATE", "NESTED_FAMILY", "NESTED_FAM_OR_ASSEM"}
    BY DEF Headers
  <2> QED
    BY <2>1 DEF Visibility
<1>7. PICK p, ws : p = Cat(Cat(Cat(a, s), v), m) /\ ws = Cat(p, k)
  OBVIOUS
<1>8. NameLine(h) = Words(ws)
  BY <1>1, <1>7 DEF NameLine, Cat
<1>9. Cat(a, s) \in Vocabulary /\ Cat(Cat(a, s), v) \in Vocabulary
  BY <1>2, InCat
<1>10. p \in Vocabulary /\ ws \in Vocabulary
  BY <1>2, <1>7, <1>9, InCat
<1>11. Len(k) = 2 /\ k[2] = "Name"
  BY <1>1
<1>12. Len(ws) > 0 /\ ws[Len(ws)] = "Name"
  <2>1. p \in Seq(AllWords) /\ k \in Seq(AllWords) /\ Len(p) \in Nat
    BY <1>2, <1>10 DEF Vocabulary
  <2>2. /\ Len(ws) = Len(p) + Len(k)
        /\ \A j \in 1 .. Len(p) + Len(k) : ws[j] = IF j <= Len(p) THEN p[j] ELSE k[j - Len(p)]
    BY <1>7, <2>1, ConcatProperties DEF Cat
  <2>3. PICK j : j = Len(p) + 2
    OBVIOUS
  <2>4. j \in 1 .. Len(p) + 2 /\ ~(j <= Len(p)) /\ j - Len(p) = 2 /\ j > 0
    BY <2>1, <2>3
  <2> QED
    BY <1>11, <2>2, <2>3, <2>4
<1>13. ASSUME NEW w \in {"class", "static", "abstract", "sealed"}
       PROVE  In(ws, w) <=> In(m, w) \/ ClassKind(h) = w
  <2>1. ~In(a, w)
    BY <1>1 DEF In
  <2>2. ~In(s, w)
    <3>1. ~In(<<"Serializable", "newline">>, w) /\ ~In(<<>>, w)
      BY InTwo, InNone
    <3> QED
      BY <1>1, <3>1
  <2>3. ~In(v, w)
    BY <1>1, <1>3, InOne
  <2>4. In(k, w) <=> ClassKind(h) = w
    BY <1>1, InTwo
  <2>5. ~In(Cat(a, s), w)
    BY <1>2, <2>1, <2>2, InCat
  <2>6. ~In(Cat(Cat(a, s), v), w)
    BY <1>2, <1>9, <2>3, <2>5, InCat
  <2>7. In(p, w) <=> In(m, w)
    BY <1>2, <1>7, <1>9, <2>6, InCat
  <2> QED
    BY <1>2, <1>7, <1>10, <2>4, <2>7, InCat
<1> QED
  BY <1>1, <1>8, <1>10, <1>12, <1>13

(* The words about the kind of type and who may derive from it.            *)
LEMMA HeadWordsOf ==
    ASSUME NEW h \in Headers, LegalType(h), NEW w
    PROVE  /\ In(ClassModifier(h), w) <=>
                  \/ w = "static" /\ {"ABSTRACT", "SEALED"} \subseteq h.bits
                  \/ w = "abstract" /\ IsClass(h) /\ h.bits \cap {"ABSTRACT", "SEALED"} = {"ABSTRACT"}
                  \/ w = "sealed" /\ IsClass(h) /\ h.bits \cap {"ABSTRACT", "SEALED"} = {"SEALED"}
           /\ {"ABSTRACT", "SEALED"} \subseteq h.bits => IsClass(h)
           /\ w \in {"class", "static", "abstract", "sealed"} =>
                  (ClassKind(h) = w <=> w = "class" /\ IsClass(h))
<1>1. PICK b, a, s, n : /\ b = h.bits /\ a = ("ABSTRACT" \in b) /\ s = ("SEALED" \in b)
                        /\ n = ("INTERFACE" \in b)
  OBVIOUS
<1>2. a \in BOOLEAN /\ s \in BOOLEAN /\ n \in BOOLEAN /\ h.valuetype \in BOOLEAN /\ h.enum \in BOOLEAN
  BY <1>1 DEF Headers
<1>3. /\ n => a /\ ~s /\ ~h.valuetype
      /\ h.enum => h.valuetype
      /\ h.valuetype => s /\ ~a
  BY <1>1 DEF LegalType
<1>4. /\ {"ABSTRACT", "SEALED"} \subseteq b <=> a /\ s
      /\ b \cap {"ABSTRACT", "SEALED"} = {"ABSTRACT"} <=> a /\ ~s
      /\ b \cap {"ABSTRACT", "SEALED"} = {"SEALED"} <=> s /\ ~a
  <2>1. {"ABSTRACT", "SEALED"} \subseteq b <=> "ABSTRACT" \in b /\ "SEALED" \in b
    OBVIOUS
  <2>2. b \cap {"ABSTRACT", "SEALED"} = {"ABSTRACT"} <=> "ABSTRACT" \in b /\ ~("SEALED" \in b)
    OBVIOUS
  <2>3. b \cap {"ABSTRACT", "SEALED"} = {"SEALED"} <=> "SEALED" \in b /\ ~("ABSTRACT" \in b)
    OBVIOUS
  <2> QED
    BY <1>1, <2>1, <2>2, <2>3
<1>5. IsClass(h) <=> ~n /\ ~h.valuetype
  BY <1>1 DEF IsClass
<1>6. PICK e : e = Word1(SealedClass(h), "sealed")
  OBVIOUS
<1>7. In(e, w) <=> ~h.valuetype /\ ~h.enum /\ s /\ w = "sealed"
  BY <1>1, <1>6, InWord1 DEF SealedClass
<1>8. In(<<"static">>, w) <=> w = "static"
  BY InOne
<1>9. In(<<"abstract">>, w) <=> w = "abstract"
  BY InOne
<1>10. ClassModifier(h) = IF a /\ s THEN <<"static">> ELSE IF ~n /\ a THEN <<"abstract">> ELSE e
  BY <1>1, <1>4, <1>6 DEF ClassModifier
<1>11. In(ClassModifier(h), w) <=>
           \/ w = "static" /\ a /\ s
           \/ w = "abstract" /\ ~n /\ ~h.valuetype /\ a /\ ~s
           \/ w = "sealed" /\ ~n /\ ~h.valuetype /\ s /\ ~a
  <2>1. CASE a /\ s
    BY <1>8, <1>10, <2>1
  <2>2. CASE a /\ ~s /\ ~n
    BY <1>2, <1>3, <1>9, <1>10, <2>2
  <2>3. CASE ~a \/ (~s /\ n)
    <3>1. ClassModifier(h) = e
      BY <1>2, <1>3, <1>10, <2>3
    <3> QED
      BY <1>2, <1>3, <1>7, <2>3, <3>1
  <2> QED
    BY <1>2, <2>1, <2>2, <2>3
<1>12. ClassKind(h) = IF n THEN "interface" ELSE IF h.enum THEN "enum"
                      ELSE IF h.valuetype THEN "struct" ELSE "class"
  BY <1>1 DEF ClassKind
<1>13. ASSUME w \in {"class", "static", "abstract", "sealed"}
       PROVE  ClassKind(h) = w <=> w = "class" /\ ~n /\ ~h.valuetype
  BY <1>2, <1>3, <1>12, <1>13
<1> QED
  BY <1>1, <1>2, <1>3, <1>4, <1>5, <1>11, <1>13

LEMMA LegalBases ==
    ASSUME NEW h \in Headers, LegalType(h)
    PROVE  DeclaredBases(h) = Extends(h)
<1>1. IsClass(h) /\ h.parent \notin {"none", "Object"}
      <=> ~h.valuetype /\ ~h.enum /\ h.parent \notin {"none", "Object"}
  BY DEF IsClass, LegalType, Headers
<1> QED
  BY <1>1, Word1Same DEF DeclaredBases, Extends

(* What a finished header looks like.                                      *)
LEMMA HeaderText ==
    ASSUME NEW h \in Headers, NEW t \in Texts,
           BasesPrinted(t, NameLine(h), Extends(h), Len(Extends(h)))
    PROVE  /\ EndsWithBases(Cat(t, BodyBegin), Extends(h))
           /\ \A w \in {"class", "static", "abstract", "sealed"} :
                  HasWord(Cat(t, BodyBegin), w) <=> In(ClassModifier(h), w) \/ ClassKind(h) = w
<1>1. PICK s, e, c, u : s = NameLine(h) /\ e = Extends(h) /\ u = BodyBegin /\ c = Cat(t, u)
  OBVIOUS
<1>2. PICK ws \in Vocabulary :
          /\ s = Words(ws) /\ Len(ws) > 0 /\ ws[Len(ws)] = "Name"
          /\ \A w \in {"class", "static", "abstract", "sealed"} :
                 In(ws, w) <=> In(ClassModifier(h), w) \/ ClassKind(h) = w
  BY <1>1, NameLineWords
<1>3. PICK n, b : n = Len(s) /\ b = Len(e)
  OBVIOUS
<1>4. n \in Nat /\ n > 0 /\ s[n] = Lit("Name") /\ n = Len(ws) /\ \A k \in 1 .. n : s[k] = Lit(ws[k])
  <2>1. /\ ws \in Seq(AllWords) /\ Len(s) = Len(ws)
        /\ \A k \in 1 .. Len(ws) : s[k] = Lit(ws[k])
    BY <1>2, WordsElements DEF Vocabulary
  <2>2. Len(ws) \in Nat
    BY <2>1
  <2>3. Len(ws) \in 1 .. Len(ws)
    BY <1>2, <2>2
  <2> QED
    BY <1>2, <1>3, <2>1, <2>2, <2>3
<1>5. e \in Seq(STRING) /\ b \in Nat /\ (e = <<>> <=> b = 0)
  BY <1>1, <1>3, ExtendsType
<1>6. /\ Len(t) = n + (IF b = 0 THEN 0 ELSE 3 * b - 1)
      /\ \A k \in 1 .. n : t[k] = s[k]
      /\ b > 0 => t[n + 1] = Lit("colon")
      /\ \A k \in 1 .. b : t[n + 3 * k - 1] = Name(e[k])
      /\ \A k \in 2 .. b : t[n + 3 * k - 3] = Lit("comma") /\ t[n + 3 * k - 2] = Lit("blank")
      /\ \A k \in n + 1 .. Len(t) : t[k] \notin HeadWords
  BY <1>1, <1>3 DEF BasesPrinted
<1>7. PICK m : m = Len(t)
  OBVIOUS
<1>8. m \in Nat /\ m = n + (IF b = 0 THEN 0 ELSE 3 * b - 1) /\ m >= n
  BY <1>4, <1>5, <1>6, <1>7
<1>9. u \in Texts /\ Len(u) = 2 /\ u[1] = NL /\ u[2] = Lit("lbrace")
  BY <1>1, FixedPlain, CatType DEF Plains
<1>10. /\ Len(c) = m + 2 /\ (\A k \in 1 .. m : c[k] = t[k])
       /\ c[m + 1] = NL /\ c[m + 2] = Lit("lbrace")
  <2>1. /\ Len(c) = Len(t) + Len(u)
        /\ \A k \in 1 .. Len(t) : c[k] = t[k]
        /\ \A k \in 1 .. Len(u) : c[Len(t) + k] = u[k]
    BY <1>1, <1>9, CatElements
  <2>2. 1 \in 1 .. Len(u) /\ 2 \in 1 .. Len(u)
    BY <1>9
  <2> QED
    BY <1>7, <1>9, <2>1, <2>2
<1>11. EndsWithBases(c, e)
  <2>1. n \in 1 .. Len(c) /\ c[n] = Lit("Name")
    <3>1. n \in 1 .. n /\ n \in 1 .. m /\ n \in 1 .. Len(c)
      BY <1>4, <1>8, <1>10
    <3> QED
      BY <1>4, <1>6, <1>10, <3>1
  <2>2. Len(c) = n + (IF e = <<>> THEN 0 ELSE 3 * b - 1) + 2
    BY <1>4, <1>5, <1>8, <1>10
  <2>3. e # <<>> => c[n + 1] = Lit("colon")
    <3>1. SUFFICES ASSUME b > 0 PROVE c[n + 1] = Lit("colon")
      BY <1>5
    <3>2. n + 1 \in 1 .. m
      BY <1>4, <1>5, <1>8, <3>1
    <3> QED
      BY <1>6, <1>10, <3>1, <3>2
  <2>4. ASSUME NEW k \in 1 .. b PROVE c[n + 3 * k - 1] = Name(e[k])
    <3>1. n + 3 * k - 1 \in 1 .. m
      BY <1>4, <1>5, <1>8
    <3> QED
      BY <1>6, <1>10, <3>1
  <2>5. ASSUME NEW k \in 2 .. b
        PROVE  c[n + 3 * k - 3] = Comma[1] /\ c[n + 3 * k - 2] = Comma[2]
    <3>1. n + 3 * k - 3 \in 1 .. m /\ n + 3 * k - 2 \in 1 .. m
      BY <1>4, <1>5, <1>8
    <3>2. Comma[1] = Lit("comma") /\ Comma[2] = Lit("blank")
      BY FixedPlain
    <3> QED
      BY <1>6, <1>10, <3>1, <3>2
  <2>6. c[Len(c) - 1] = NL /\ c[Len(c)] = Lit("lbrace")
    <3>1. Len(c) - 1 = m + 1
      BY <1>8, <1>10
    <3> QED
      BY <1>10, <3>1
  <2> QED
    BY <1>3, <2>1, <2>2, <2>3, <2>4, <2>5, <2>6 DEF EndsWithBases
<1>12. ASSUME NEW w \in {"class", "static", "abstract", "sealed"}
       PROVE  HasWord(c, w) <=> In(ws, w)
  <2>1. DOMAIN c = 1 .. m + 2
    <3>1. c \in Texts
      BY <1>1, <1>9, CatType
    <3> QED
      BY <1>10, <3>1 DEF Texts
  <2>2. \A x : Lit(x) = Lit(w) => x = w
    BY DEF Lit
  <2>3. Lit(w) \in HeadWords
    BY DEF HeadWords
  <2>4. ASSUME HasWord(c, w) PROVE In(ws, w)
    <3>1. PICK k \in 1 .. m + 2 : c[k] = Lit(w)
      BY <2>1, <2>4 DEF HasWord
    <3>2. k \in 1 .. n \/ k \in n + 1 .. m \/ k = m + 1 \/ k = m + 2
      BY <1>4, <1>8, <3>1
    <3>3. k \in n + 1 .. m => k \in 1 .. m
      BY <1>4
    <3>4. k \notin n + 1 .. m
      BY <1>6, <1>7, <1>10, <2>3, <3>1, <3>3
    <3>5. k # m + 1 /\ k # m + 2
      BY <1>10, <2>3, <3>1, NoHeadWord
    <3>6. k \in 1 .. n /\ k \in 1 .. m
      BY <1>4, <1>8, <3>2, <3>4, <3>5
    <3>7. c[k] = Lit(ws[k])
      BY <1>4, <1>6, <1>10, <3>6
    <3> QED
      BY <1>4, <2>2, <3>1, <3>6, <3>7 DEF In
  <2>5. ASSUME In(ws, w) PROVE HasWord(c, w)
    <3>1. PICK k \in 1 .. n : ws[k] = w
      BY <1>4, <2>5 DEF In
    <3>2. k \in 1 .. m /\ k \in 1 .. m + 2
      BY <1>4, <1>8, <3>1
    <3>3. c[k] = Lit(w)
      BY <1>4, <1>6, <1>10, <3>1, <3>2
    <3> QED
      BY <2>1, <3>2, <3>3 DEF HasWord
  <2> QED
    BY <2>4, <2>5
<1> QED
  BY <1>1, <1>2, <1>11, <1>12

LEMMA HeaderFinished ==
    ASSUME RunInv, HeaderInv
    PROVE  HeaderIsCSharp
<1> SUFFICES ASSUME section = "field", LegalType(header)
             PROVE  /\ HasWord(outPut, "class") <=> IsClass(header)
                    /\ HasWord(outPut, "static") <=>
                           IsClass(header) /\ {"ABSTRACT", "SEALED"} \subseteq header.bits
                    /\ HasWord(outPut, "abstract") <=>
                           IsClass(header) /\ header.bits \cap {"ABSTRACT", "SEALED"} = {"ABSTRACT"}
                    /\ HasWord(outPut, "sealed") <=>
                           IsClass(header) /\ header.bits \cap {"ABSTRACT", "SEALED"} = {"SEALED"}
                    /\ EndsWithBases(outPut, DeclaredBases(header))
  BY DEF HeaderIsCSharp
<1>1. PICK h : h = header
  OBVIOUS
<1>2. h \in Headers /\ LegalType(h)
  BY <1>1, ClassType
<1>3. PICK t \in Texts : /\ outPut = Cat(t, BodyBegin)
                         /\ BasesPrinted(t, NameLine(h), Extends(h), Len(Extends(h)))
  BY <1>1 DEF HeaderInv
<1>4. EndsWithBases(outPut, DeclaredBases(h))
  BY <1>2, <1>3, HeaderText, LegalBases
<1>5. \A w \in {"class", "static", "abstract", "sealed"} :
          HasWord(outPut, w) <=> In(ClassModifier(h), w) \/ ClassKind(h) = w
  BY <1>2, <1>3, HeaderText
<1>6. PICK cl, st, ab, se : /\ cl = IsClass(h) /\ st = ({"ABSTRACT", "SEALED"} \subseteq h.bits)
                            /\ ab = (h.bits \cap {"ABSTRACT", "SEALED"} = {"ABSTRACT"})
                            /\ se = (h.bits \cap {"ABSTRACT", "SEALED"} = {"SEALED"})
  OBVIOUS
<1>7. ASSUME NEW w \in {"class", "static", "abstract", "sealed"}
      PROVE  HasWord(outPut, w) <=>
                 \/ w = "static" /\ st
                 \/ w = "abstract" /\ cl /\ ab
                 \/ w = "sealed" /\ cl /\ se
                 \/ w = "class" /\ cl
  BY <1>2, <1>5, <1>6, HeadWordsOf
<1>8. st => cl
  BY <1>2, <1>6, HeadWordsOf
<1>9. HasWord(outPut, "class") <=> cl
  BY <1>7
<1>10. HasWord(outPut, "static") <=> cl /\ st
  BY <1>7, <1>8
<1>11. HasWord(outPut, "abstract") <=> cl /\ ab
  BY <1>7
<1>12. HasWord(outPut, "sealed") <=> cl /\ se
  BY <1>7
<1> QED
  BY <1>1, <1>4, <1>6, <1>9, <1>10, <1>11, <1>12

LEMMA HeaderTypeStep ==
    ASSUME IInv, dump_type
    PROVE  HeaderInv'
<1>1. /\ section = "type" /\ section' = "bases" /\ i' = 1 /\ outPut' = Cat(outPut, NameLine(header))
      /\ class' = class
  BY DEF dump_type, runVars, Cat
<1>2. PICK s, e : s = NameLine(header) /\ e = Extends(header)
  OBVIOUS
<1>3. s = NameLine(header)' /\ e = Extends(header)'
  BY <1>1, <1>2 DEF header
<1>4. outPut' = s /\ s \in Texts
  <2>1. outPut = <<>>
    BY <1>1 DEF IInv, PlaceInv
  <2>2. s \in Texts
    BY <1>2, ClassType, NameLineType DEF IInv, Texts
  <2> QED
    BY <1>1, <1>2, <2>1, <2>2, CatEmpty
<1>5. BasesPrinted(s, s, e, 0)
  <2>1. PICK n : n = Len(s)
    OBVIOUS
  <2>2. n \in Nat
    BY <1>4, <2>1 DEF Texts
  <2>3. (\A k \in n + 1 .. n : FALSE) /\ n = n + (IF 0 = 0 THEN 0 ELSE 3 * 0 - 1)
    BY <2>2
  <2>4. (\A k \in 1 .. 0 : FALSE) /\ (\A k \in 2 .. 0 : FALSE)
    OBVIOUS
  <2> QED
    BY <2>1, <2>3, <2>4 DEF BasesPrinted
<1>6. i' - 1 = 0
  BY <1>1
<1> QED
  BY <1>1, <1>3, <1>4, <1>5, <1>6 DEF HeaderInv

LEMMA HeaderBaseStep ==
    ASSUME IInv, HeaderInv, PrintBase
    PROVE  HeaderInv'
<1>1. /\ section = "bases" /\ section' = "bases" /\ i' = i + 1 /\ i <= Len(Extends(header))
      /\ outPut' = Cat(outPut, BaseText(header, i)) /\ class' = class
  BY DEF PrintBase, runVars, Cat
<1>2. PICK s, e, t, u : /\ s = NameLine(header) /\ e = Extends(header)
                        /\ t = outPut /\ u = BaseText(header, i)
  OBVIOUS
<1>3. s = NameLine(header)' /\ e = Extends(header)' /\ outPut' = Cat(t, u)
  BY <1>1, <1>2 DEF header
<1>4. i \in 1 .. Len(Extends(header)) /\ i \in Nat /\ i > 0
  BY <1>1 DEF IInv, PlaceInv
<1>5. s \in Texts /\ t \in Texts /\ BasesPrinted(t, s, e, i - 1)
  BY <1>1, <1>2, ClassType, NameLineType DEF IInv, StreamInv, HeaderInv, Texts
<1>6. PICK x : x = Name(e[i])
  OBVIOUS
<1>7. /\ u \in Texts
      /\ u = IF i = 1 THEN <<Lit("colon"), x>> ELSE <<Lit("comma"), Lit("blank"), x>>
  BY <1>2, <1>4, <1>6, ClassType, BaseTextPlain, CatType DEF IInv, Plains
<1>8. i' - 1 = i
  BY <1>1, <1>4
<1>9. BasesPrinted(Cat(t, u), s, e, i)
  <2>1. CASE i = 1
    <3>1. Len(u) = 2 /\ u[1] = Lit("colon") /\ u[2] = x
      BY <1>7, <2>1
    <3>2. BasesPrinted(t, s, e, 0) /\ x = Name(e[1])
      BY <1>5, <1>6, <2>1
    <3> QED
      BY <1>5, <1>7, <2>1, <3>1, <3>2, FirstBase
  <2>2. CASE i # 1
    <3>1. Len(u) = 3 /\ u[1] = Lit("comma") /\ u[2] = Lit("blank") /\ u[3] = x
      BY <1>7, <2>2
    <3>2. PICK b : b = i - 1
      OBVIOUS
    <3>3. b \in Nat \ {0} /\ b + 1 = i
      BY <1>4, <2>2, <3>2
    <3>4. BasesPrinted(t, s, e, b) /\ x = Name(e[b + 1])
      BY <1>5, <1>6, <3>2, <3>3
    <3>5. BasesPrinted(Cat(t, u), s, e, b + 1)
      BY <1>5, <1>7, <3>1, <3>3, <3>4, NextBase
    <3> QED
      BY <3>3, <3>5
  <2> QED
    BY <2>1, <2>2
<1> QED
  BY <1>1, <1>3, <1>8, <1>9 DEF HeaderInv

LEMMA HeaderBodyStep ==
    ASSUME IInv, HeaderInv, BeginBody
    PROVE  HeaderInv'
<1>1. /\ section = "bases" /\ section' = "field" /\ i > Len(Extends(header))
      /\ outPut' = Cat(outPut, BodyBegin) /\ class' = class
  BY DEF BeginBody, runVars, Cat
<1>2. PICK s, e, t : s = NameLine(header) /\ e = Extends(header) /\ t = outPut
  OBVIOUS
<1>3. s = NameLine(header)' /\ e = Extends(header)' /\ outPut' = Cat(t, BodyBegin)
  BY <1>1, <1>2 DEF header
<1>4. t \in Texts /\ BasesPrinted(t, s, e, i - 1)
  BY <1>1, <1>2 DEF IInv, StreamInv, HeaderInv
<1>5. i - 1 = Len(e)
  <2>1. Len(e) \in Nat
    BY <1>2, ClassType, ExtendsType DEF IInv
  <2>2. i \in 1 .. Len(e) + 1 /\ i > Len(e)
    BY <1>1, <1>2 DEF IInv, PlaceInv
  <2> QED
    BY <2>1, <2>2
<1> QED
  BY <1>1, <1>3, <1>4, <1>5 DEF HeaderInv

(* Once the body has begun the header stays as it is.                      *)
LEMMA HeaderKept ==
    ASSUME HeaderInv, UNCHANGED <<class, outPut, section, i>>
    PROVE  HeaderInv'
<1>1. NameLine(header)' = NameLine(header) /\ Extends(header)' = Extends(header)
  BY DEF header
<1> QED
  BY <1>1 DEF HeaderInv

LEMMA HeaderLeft ==
    ASSUME section' \notin {"bases", "field"}
    PROVE  HeaderInv'
  BY DEF HeaderInv

LEMMA HeaderStep == IInv /\ HeaderInv /\ [Next]_vars => HeaderInv'
<1> SUFFICES ASSUME IInv, HeaderInv, [Next]_vars PROVE HeaderInv'
  OBVIOUS
<1>1. CASE dump_type
  BY <1>1, HeaderTypeStep
<1>2. CASE PrintBase
  BY <1>2, HeaderBaseStep
<1>3. CASE BeginBody
  BY <1>3, HeaderBodyStep
<1>4. ASSUME NEW f \in class.fields, dump_field(f) PROVE HeaderInv'
  BY <1>4, HeaderKept DEF dump_field, Member, runVars
<1>5. CASE EndFields
  BY <1>5, HeaderLeft DEF EndFields, EndSection
<1>6. ASSUME NEW p \in class.properties, dump_property(p) PROVE HeaderInv'
  BY <1>6, HeaderLeft DEF dump_property, Member
<1>7. CASE EndProperties
  BY <1>7, HeaderLeft DEF EndProperties, EndSection
<1>8. ASSUME NEW m \in class.methods, dump_method(m) PROVE HeaderInv'
  BY <1>8, HeaderLeft DEF dump_method, Member
<1>9. CASE PrintParam
  BY <1>9, HeaderLeft DEF PrintParam
<1>10. CASE EndMethod
  BY <1>10, HeaderLeft DEF EndMethod
<1>11. CASE EndMethods
  BY <1>11, HeaderLeft DEF EndMethods, EndSection
<1>12. CASE UNCHANGED vars
  BY <1>12, HeaderKept DEF vars
<1> QED
  BY <1>1, <1>2, <1>3, <1>4, <1>5, <1>6, <1>7, <1>8, <1>9, <1>10, <1>11, <1>12 DEF Next

(* For every legal type, the line before the body has the words and the    *)
(* bases of its C# declaration.                                            *)
THEOREM HeaderAlways == Spec => []HeaderIsCSharp
<1>1. Init => HeaderInv
  BY DEF Init, HeaderInv
<1>2. IInv /\ HeaderInv => HeaderIsCSharp
  BY HeaderFinished DEF IInv
<1> QED
  BY <1>1, <1>2, HeaderStep, RenderInvariant, PTL DEF Spec
=============================================================================
