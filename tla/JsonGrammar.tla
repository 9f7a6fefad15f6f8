---------------------------- MODULE JsonGrammar ----------------------------
(***************************************************************************)
(* What a document and its limits are, without a parser: the grammar of     *)
(* RFC 8259 on the tokens of Json, member names unique.                     *)
(***************************************************************************)
EXTENDS Json

Digits(s) == s # << >> /\ \A k \in DOMAIN s : IsDigit(s[k])

Part(s, i, j) == SubSeq(s, i + 1, j)

(* [minus] int [frac] [exp], ending at a, b, c and the end.                 *)
IsNumber(s) ==
  \E a \in 0..1, b \in 0..Len(s), c \in 0..Len(s) :
    /\ a <= b /\ b <= c
    /\ Part(s, 0, a) \in {<< >>, <<Minus>>}
    /\ Digits(Part(s, a, b)) /\ (b > a + 1 => s[a + 1] # Zero)
    /\ b < c => s[b + 1] = Point /\ Digits(Part(s, b + 1, c))
    /\ c < Len(s) =>
         /\ s[c + 1] \in {69, 101}
         /\ \/ Digits(Part(s, c + 1, Len(s)))
            \/ c + 2 <= Len(s) /\ s[c + 2] \in {43, Minus} /\ Digits(Part(s, c + 2, Len(s)))

(* A character outside ASCII is the encoding of the scalar value it denotes. *)
Lead == <<0, 192, 224, 240>>
Scalar(u) == FoldLeft(LAMBDA n, b : 64 * n + (b % 64), u[1] - Lead[Len(u)], Tail(u))
IsEncoded(u) ==
  /\ Len(u) \in 2..4
  /\ Scalar(u) \in 128..1114111 /\ Scalar(u) \notin High \union Low
  /\ u = Encoded(Scalar(u))

(* What a string may be made of.                                           *)
IsUnit(u) ==
  \/ Len(u) = 1 /\ u[1] \in 32..127 \ {Quote, Backslash}
  \/ IsEncoded(u)
  \/ Len(u) = 2 /\ u[1] = Backslash /\ u[2] \in DOMAIN Escape
  \/ Len(u) = 6 /\ Part(u, 0, 2) = <<Backslash, 117>>
       /\ Quad(Part(u, 2, 6), 1) \notin {-1} \union High \union Low
  \/ Len(u) = 12 /\ Part(u, 0, 2) = <<Backslash, 117>> /\ Part(u, 6, 8) = <<Backslash, 117>>
       /\ Quad(Part(u, 2, 6), 1) \in High /\ Quad(Part(u, 8, 12), 1) \in Low

RECURSIVE IsContent(_)
IsContent(s) ==
  \/ s = << >>
  \/ \E k \in 1..Len(s) : IsUnit(Part(s, 0, k)) /\ IsContent(Part(s, k, Len(s)))

IsString(s) ==
  Len(s) >= 2 /\ s[1] = Quote /\ s[Len(s)] = Quote /\ IsContent(Part(s, 1, Len(s) - 1))

IsScalar(t) ==
  \/ t \in ToSet(Literals)
  \/ t[1] = Quote /\ IsString(t)
  \/ (IsDigit(t[1]) \/ t[1] = Minus) /\ IsNumber(t)

RECURSIVE IsValue(_), IsItems(_, _)
IsValue(d) ==
  \/ Len(d) = 1 /\ IsScalar(d[1])
  \/ /\ Len(d) >= 2 /\ d[1] \in {Bracket, Brace} /\ d[Len(d)] = Closing(d[1])
     /\ Len(d) = 2 \/ IsItems(Part(d, 1, Len(d) - 1), d[1])
IsItem(d, open) ==
  IF open = Bracket THEN IsValue(d)
  ELSE Len(d) >= 3 /\ d[1][1] = Quote /\ IsString(d[1]) /\ d[2] = Colon /\ IsValue(Part(d, 2, Len(d)))
IsItems(d, open) ==
  \/ IsItem(d, open)
  \/ \E k \in DOMAIN d : /\ d[k] = Comma
                         /\ IsItem(Part(d, 0, k - 1), open)
                         /\ IsItems(Part(d, k, Len(d)), open)

(* How deep the place after token k is.                                    *)
DepthAt(d, k) ==
  Cardinality({j \in 1..k : d[j] \in {Bracket, Brace}})
    - Cardinality({j \in 1..k : d[j] \in {Closing(Bracket), Closing(Brace)}})

(* The commas between the items of the container that d[k] opens.          *)
CommasOf(d, k) ==
  {j \in (k + 1)..Len(d) : /\ d[j] = Comma /\ DepthAt(d, j) = DepthAt(d, k)
                           /\ \A i \in k..j : DepthAt(d, i) >= DepthAt(d, k)}

(* The names of its members.                                               *)
NamesAt(d, k) ==
  {j \in (k + 1)..(Len(d) - 1) :
     /\ d[j + 1] = Colon /\ DepthAt(d, j) = DepthAt(d, k)
     /\ \A i \in k..j : DepthAt(d, i) >= DepthAt(d, k)}

UniqueNames(d) ==
  \A k \in DOMAIN d : d[k] = Brace =>
    \A i, j \in NamesAt(d, k) : ParseString(d[i]).text = ParseString(d[j]).text => i = j

NumberFits(s) ==
  LET marks == {k \in DOMAIN s : s[k] \in {Point, 69, 101}} IN
  /\ Len(s) <= MaxNumber
  /\ marks = {} => IF s[1] = Minus THEN Decimal(Tail(s)) <= (MaxUnsigned + 1) \div 2
                                   ELSE Decimal(s) <= MaxUnsigned
  /\ \A k \in marks : s[k] # Point =>
       Decimal(SelectSeq(Part(s, k, Len(s)), IsDigit)) <= MaxExponent

RECURSIVE ContentSize(_)
ContentSize(s) ==
  IF s = << >> THEN 0
  ELSE LET k == CHOOSE k \in 1..Len(s) : IsUnit(Part(s, 0, k))
           size == CASE s[1] # Backslash -> k
                     [] k = 2 -> 1
                     [] k = 6 -> Len(Encoded(Quad(s, 3)))
                     [] OTHER -> 4
       IN  size + ContentSize(Part(s, k, Len(s)))

WithinLimits(d) ==
  /\ \A k \in DOMAIN d :
       /\ DepthAt(d, k) <= MaxDepth
       /\ d[k] \in {Bracket, Brace} /\ d[k + 1] # Closing(d[k]) =>
            Cardinality(CommasOf(d, k)) < MaxItems
       /\ IsDigit(d[k][1]) \/ d[k][1] = Minus => NumberFits(d[k])
       /\ d[k][1] = Quote => ContentSize(Part(d[k], 1, Len(d[k]) - 1)) <= MaxString
  /\ Cardinality({k \in DOMAIN d : /\ d[k][1] \notin {44, 58, 93, 125}
                                   /\ k < Len(d) => d[k + 1] # Colon}) <= MaxValues

(* The parser takes exactly the documents of the grammar that are within   *)
(* its limits, and what is written from the value reads as the same value. *)
ReadsGrammar(d) ==
  LET r == Parse(d) IN
  /\ r.ok <=> d # << >> /\ IsValue(d) /\ UniqueNames(d) /\ WithinLimits(d)
  /\ r.ok => /\ Stringify(r.value).ok
             /\ Parse(Stringify(r.value).tokens).value = r.value
=============================================================================
