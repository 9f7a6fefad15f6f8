-------------------------------- MODULE Json --------------------------------
(***************************************************************************)
(* parse and stringify of server/json.cpp.  A document is a sequence of     *)
(* tokens: a punctuation mark, a literal, a string with its quotes, or a    *)
(* longest run of the bytes a number may have.  A token is a sequence of    *)
(* bytes.  White space between tokens and the texts of errors are left out. *)
(***************************************************************************)
EXTENDS Integers, FiniteSets, SequencesExt

CONSTANTS MaxDepth, MaxItems, MaxValues, MaxString, MaxNumber,  \* ParseLimits
          MaxOutput,    \* SerializeOptions::max_output_bytes
          MaxUnsigned,  \* 2^64 - 1
          MaxExponent   \* decimal exponents of a finite double, 308

ASSUME LimitsAssumption ==
  {MaxDepth, MaxItems, MaxValues, MaxString, MaxNumber, MaxOutput, MaxUnsigned, MaxExponent}
    \subseteq Nat

Quote     == 34
Backslash == 92
Zero      == 48
Minus     == 45
Point     == 46
Comma   == <<44>>
Colon   == <<58>>
Bracket == <<91>>
Brace   == <<123>>
Closing(open) == IF open = Bracket THEN <<93>> ELSE <<125>>

IsDigit(b) == b \in 48..57

(* Numbers of any representation: num * 10^exp, with exp = 0 for integers. *)
Value(kind)    == [kind |-> kind, text |-> << >>, num |-> 0, exp |-> 0,
                   items |-> << >>, members |-> {}]
Text(s)        == [Value("string") EXCEPT !.text = s]
Number(n, e)   == [Value("number") EXCEPT !.num = n, !.exp = e]
Container(open) == Value(IF open = Bracket THEN "array" ELSE "object")

Literals == << <<110, 117, 108, 108>>, <<116, 114, 117, 101>>, <<102, 97, 108, 115, 101>> >>
Literal(t) == Value(<<"null", "true", "false">>[CHOOSE k \in 1..3 : Literals[k] = t])

-----------------------------------------------------------------------------
(* UTF-8.                                                                  *)

(* The length of the character that starts at s[i], 0 if there is none.    *)
Utf8Length(s, i) ==
  LET length == CASE s[i] \in 194..223 -> 2 [] s[i] \in 224..239 -> 3
                  [] s[i] \in 240..244 -> 4 [] OTHER -> 0
  IN  IF /\ length # 0 /\ i + length - 1 <= Len(s)
         /\ \A k \in 1..(length - 1) : s[i + k] \in 128..191
         /\ s[i] = 224 => s[i + 1] >= 160
         /\ s[i] = 237 => s[i + 1] <= 159
         /\ s[i] = 240 => s[i + 1] >= 144
         /\ s[i] = 244 => s[i + 1] <= 143
      THEN length ELSE 0

Encoded(point) ==
  LET tail(k) == 128 + ((point \div 64 ^ k) % 64) IN
  CASE point <= 127   -> <<point>>
    [] point \in 128..2047    -> <<192 + point \div 64, tail(0)>>
    [] point \in 2048..65535  -> <<224 + point \div 4096, tail(1), tail(0)>>
    [] OTHER          -> <<240 + point \div 262144, tail(2), tail(1), tail(0)>>

-----------------------------------------------------------------------------
(* Strings.                                                                *)

Escape == [b \in {34, 92, 47, 98, 102, 110, 114, 116} |->
             CASE b = 98 -> 8 [] b = 102 -> 12 [] b = 110 -> 10 [] b = 114 -> 13
               [] b = 116 -> 9 [] OTHER -> b]

Hex(b) == CASE IsDigit(b) -> b - 48 [] b \in 97..102 -> b - 87
            [] b \in 65..70 -> b - 55 [] OTHER -> 16

(* The four digits from s[i] on; -1 if they are not four.                  *)
Quad(s, i) ==
  IF i + 3 > Len(s) \/ \E k \in i..(i + 3) : Hex(s[k]) = 16
  THEN -1
  ELSE FoldLeft(LAMBDA n, b : 16 * n + Hex(b), 0, SubSeq(s, i, i + 3))

High == 55296..56319
Low  == 56320..57343

(* What \u at s[i] stands for and how many bytes it takes; none if invalid. *)
Unicode(s, i) ==
  LET first  == Quad(s, i + 2)
      paired == i + 7 <= Len(s) /\ s[i + 6] = Backslash /\ s[i + 7] = 117
      second == IF paired THEN Quad(s, i + 8) ELSE -1
  IN  CASE first \in High /\ second \in Low ->
             [bytes |-> Encoded(65536 + (first - 55296) * 1024 + second - 56320), size |-> 12]
        [] first = -1 \/ first \in Low \/ (first \in High /\ second \notin Low) ->
             [bytes |-> << >>, size |-> 0]
        [] OTHER -> [bytes |-> Encoded(first), size |-> 6]

(* The bytes that a character or escape at s[i] adds.                      *)
Piece(s, i) ==
  LET b == s[i] IN
  CASE b = Backslash /\ i = Len(s) -> [bytes |-> << >>, size |-> 0]
    [] b = Backslash /\ i < Len(s) ->
         IF s[i + 1] \in DOMAIN Escape THEN [bytes |-> <<Escape[s[i + 1]]>>, size |-> 2]
         ELSE IF s[i + 1] = 117 THEN Unicode(s, i)
         ELSE [bytes |-> << >>, size |-> 0]
    [] b < 32 \/ b = Quote -> [bytes |-> << >>, size |-> 0]
    [] b \in 32..127 \ {Quote, Backslash} -> [bytes |-> <<b>>, size |-> 1]
    [] OTHER -> LET n == Utf8Length(s, i) IN [bytes |-> SubSeq(s, i, i + n - 1), size |-> n]

RECURSIVE StringFrom(_, _, _)
StringFrom(s, i, out) ==
  IF i > Len(s) \/ Len(out) > MaxString THEN [ok |-> FALSE, text |-> << >>]
  ELSE IF s[i] = Quote THEN [ok |-> i = Len(s), text |-> out]
  ELSE LET p == Piece(s, i) IN
       IF p.size = 0 THEN [ok |-> FALSE, text |-> << >>]
       ELSE StringFrom(s, i + p.size, out \o p.bytes)

ParseString(s) == StringFrom(s, 2, << >>)

-----------------------------------------------------------------------------
(* Numbers.                                                                *)

(* The first place from i on that is not a digit.                          *)
DigitsEnd(s, i) ==
  CHOOSE j \in i..(Len(s) + 1) :
    /\ \A k \in i..(j - 1) : IsDigit(s[k])
    /\ j <= Len(s) => ~IsDigit(s[j])

ByteAt(s, i) == IF i <= Len(s) THEN s[i] ELSE 0

Decimal(s) == FoldLeft(LAMBDA n, b : 10 * n + b - Zero, 0, s)

(* num * 10^exp without trailing zeros after the point.                    *)
RECURSIVE Scaled(_, _)
Scaled(n, e) ==
  CASE e > 0 -> Number(n * 10 ^ e, 0)
    [] e < 0 /\ n % 10 = 0 -> Scaled(n \div 10, e + 1)
    [] OTHER -> Number(n, e)

ParseNumber(s) ==
  LET start    == IF s[1] = Minus THEN 2 ELSE 1
      whole    == IF ByteAt(s, start) = Zero THEN start + 1 ELSE DigitsEnd(s, start)
      fraction == IF ByteAt(s, whole) = Point THEN DigitsEnd(s, whole + 1) ELSE whole
      power    == ByteAt(s, fraction) \in {69, 101}
      signed   == power /\ ByteAt(s, fraction + 1) \in {43, Minus}
      digits   == IF signed THEN fraction + 2 ELSE fraction + 1
      last     == IF power THEN DigitsEnd(s, digits) ELSE fraction
      floating == last > whole
      sign(n)  == IF start = 2 THEN -n ELSE n
      exponent == IF ~power THEN 0
                  ELSE IF s[fraction + 1] = Minus THEN -Decimal(SubSeq(s, digits, last - 1))
                  ELSE Decimal(SubSeq(s, digits, last - 1))
      integer  == sign(Decimal(SubSeq(s, start, whole - 1)))
      mantissa == sign(Decimal(SelectSeq(SubSeq(s, start, fraction - 1), IsDigit)))
      wellFormed ==
        /\ IsDigit(ByteAt(s, start))
        /\ ByteAt(s, whole) = Point => fraction > whole + 1
        /\ power => digits <= Len(s) /\ last > digits
        /\ last = Len(s) + 1
        /\ Len(s) <= MaxNumber
      inRange ==
        IF floating THEN exponent \in (-MaxExponent)..MaxExponent
        ELSE integer <= MaxUnsigned /\ (start = 2 => -integer <= (MaxUnsigned + 1) \div 2)
  IN  IF wellFormed /\ inRange
      THEN [ok |-> TRUE, value |-> IF floating
                                   THEN Scaled(mantissa, exponent - (IF fraction > whole
                                                         THEN fraction - whole - 1 ELSE 0))
                                   ELSE Number(integer, 0)]
      ELSE [ok |-> FALSE, value |-> Number(0, 0)]

-----------------------------------------------------------------------------
(* Documents.  The parser takes the place of the next token, the depth and  *)
(* the values counted so far.                                              *)

Fail == [ok |-> FALSE, at |-> 0, count |-> 0, value |-> Value("null")]
Parsed(at, count, v) == [ok |-> TRUE, at |-> at, count |-> count, value |-> v]

Size(v) == Len(v.items) + Cardinality(v.members)
Keys(v) == {member[1] : member \in v.members}

Added(v, key, item) ==
  IF v.kind = "array" THEN [v EXCEPT !.items = Append(@, item)]
  ELSE [v EXCEPT !.members = @ \union {<<key, item>>}]

RECURSIVE ParseValue(_, _, _, _), ParseItems(_, _, _, _, _)

(* After an item: the container ends, or a comma and the next item follow.  *)
AfterItem(d, open, depth, v, key, item) ==
  IF ~item.ok \/ key \in Keys(v) \/ item.at > Len(d) THEN Fail
  ELSE IF d[item.at] = Closing(open)
  THEN Parsed(item.at + 1, item.count, Added(v, key, item.value))
  ELSE IF d[item.at] = Comma
  THEN ParseItems(d, item.at + 1, depth, item.count, Added(v, key, item.value))
  ELSE Fail

ParseItems(d, i, depth, n, v) ==
  IF Size(v) >= MaxItems THEN Fail
  ELSE IF v.kind = "array"
  THEN AfterItem(d, Bracket, depth, v, << >>, ParseValue(d, i, depth + 1, n))
  ELSE IF /\ i + 1 <= Len(d)
          /\ d[i][1] = Quote /\ ParseString(d[i]).ok
          /\ d[i + 1] = Colon
  THEN AfterItem(d, Brace, depth, v, ParseString(d[i]).text, ParseValue(d, i + 2, depth + 1, n))
  ELSE Fail

ParseValue(d, i, depth, n) ==
  IF n >= MaxValues \/ i > Len(d) THEN Fail
  ELSE LET t == d[i] IN
  CASE t \in {Bracket, Brace} ->
         IF depth >= MaxDepth THEN Fail
         ELSE IF i < Len(d) /\ d[i + 1] = Closing(t) THEN Parsed(i + 2, n + 1, Container(t))
         ELSE ParseItems(d, i + 1, depth, n + 1, Container(t))
    [] t[1] = Quote ->
         IF ParseString(t).ok THEN Parsed(i + 1, n + 1, Text(ParseString(t).text)) ELSE Fail
    [] IsDigit(t[1]) \/ t[1] = Minus ->
         IF ParseNumber(t).ok THEN Parsed(i + 1, n + 1, ParseNumber(t).value) ELSE Fail
    [] t \in ToSet(Literals) -> Parsed(i + 1, n + 1, Literal(t))
    [] OTHER -> Fail

Complete_AnyRest(d, r) == r
Complete(d, r) == IF r.ok /\ r.at = Len(d) + 1 THEN r ELSE Fail
Parse(d) == Complete(d, ParseValue(d, 1, 0, 0))

-----------------------------------------------------------------------------
(* stringify, without indentation.                                         *)

EscapeFor(b) == CHOOSE e \in DOMAIN Escape : Escape[e] = b
HexDigit(n)  == IF n < 10 THEN n + 48 ELSE n + 87

WrittenByte(b) ==
  IF b \in {34, 92, 8, 9, 10, 12, 13} THEN <<Backslash, EscapeFor(b)>>
  ELSE IF b < 32 THEN <<Backslash, 117, 48, 48, HexDigit(b \div 16), HexDigit(b % 16)>>
  ELSE <<b>>

RECURSIVE IsUtf8From(_, _)
IsUtf8From(s, i) ==
  \/ i > Len(s)
  \/ s[i] < 128 /\ IsUtf8From(s, i + 1)
  \/ s[i] >= 128 /\ Utf8Length(s, i) > 0 /\ IsUtf8From(s, i + Utf8Length(s, i))

WrittenString(s) == <<Quote>> \o FlattenSeq([k \in DOMAIN s |-> WrittenByte(s[k])]) \o <<Quote>>

RECURSIVE DecimalOf(_)
DecimalOf(n) == (IF n < 10 THEN << >> ELSE DecimalOf(n \div 10)) \o <<Zero + (n % 10)>>

(* Of the two notations to_chars chooses from, the one without exponent.   *)
WrittenNumber(v) ==
  LET n      == IF v.num < 0 THEN -v.num ELSE v.num
      whole  == n \div 10 ^ (-v.exp)
      digits == DecimalOf(10 ^ (-v.exp) + (n % 10 ^ (-v.exp)))
  IN  (IF v.num < 0 THEN <<Minus>> ELSE << >>) \o DecimalOf(whole)
      \o (IF v.exp < 0 THEN <<Point>> \o Tail(digits) ELSE << >>)

(* Members come in the order of a map, which is always the same.           *)
Parts(v) == IF v.kind = "array" THEN [k \in DOMAIN v.items |-> << << >>, v.items[k]>>]
                                ELSE FoldSet(LAMBDA m, s : Append(s, m), << >>, v.members)

RECURSIVE Tokens(_)
Tokens(v) ==
  CASE v.kind = "number" -> <<WrittenNumber(v)>>
    [] v.kind = "string" -> <<WrittenString(v.text)>>
    [] v.kind \in {"array", "object"} ->
         LET open == IF v.kind = "array" THEN Bracket ELSE Brace
             part(k) == (IF k > 1 THEN <<Comma>> ELSE << >>)
                        \o (IF open = Brace THEN <<WrittenString(Parts(v)[k][1]), Colon>> ELSE << >>)
                        \o Tokens(Parts(v)[k][2])
         IN  <<open>> \o FlattenSeq([k \in DOMAIN Parts(v) |-> part(k)]) \o <<Closing(open)>>
    [] OTHER -> <<Literals[CHOOSE k \in 1..3 : <<"null", "true", "false">>[k] = v.kind]>>

RECURSIVE Depth(_), Strings(_)
Depth(v) ==
  IF v.kind \in {"array", "object"}
  THEN 1 + FoldLeft(LAMBDA n, p : IF Depth(p[2]) > n THEN Depth(p[2]) ELSE n, 0, Parts(v))
  ELSE 0
Strings(v) ==
  {v.text} \union Keys(v) \union UNION {Strings(Parts(v)[k][2]) : k \in DOMAIN Parts(v)}

Bytes(d) == FoldLeft(LAMBDA n, t : n + Len(t), 0, d)

(* It throws instead when a limit is exceeded or a string is not UTF-8.    *)
Stringify(v) ==
  IF /\ Depth(v) <= MaxDepth
     /\ \A s \in Strings(v) : IsUtf8From(s, 1)
     /\ Bytes(Tokens(v)) <= MaxOutput
  THEN [ok |-> TRUE, tokens |-> Tokens(v)]
  ELSE [ok |-> FALSE, tokens |-> << >>]
=============================================================================
