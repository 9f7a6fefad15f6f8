-------------------------------- MODULE Api --------------------------------
(***************************************************************************)
(* How the handlers of main.cpp read the JSON value of a request, and how   *)
(* the page builds it (analysisPayload in web/app.js).  A reader returns    *)
(* the set of what it has read: empty when it throws ApiError(422).         *)
(* Names of members are told apart only, so one byte stands for each.       *)
(***************************************************************************)
EXTENDS Json, FiniteSetsExt

CONSTANTS BoardSize,   \* 15
          WinLength,   \* 5
          MaxInt       \* of int, in the unit of MaxUnsigned

ASSUME ApiAssumption == BoardSize \in 1..9 /\ WinLength \in 1..BoardSize /\ MaxInt \in Nat

Names(s) == [k \in DOMAIN s |-> <<s[k]>>]

(* In the order of findAny's arguments.                                    *)
SizeNames      == Names(<<122>>)
SideNames      == Names(<<115, 116>>)   \* sideToMove, turn
RulesNames     == Names(<<114, 102>>)   \* rules, forbidden
BoardNames     == Names(<<98, 112>>)    \* board, position
OptionsNames   == Names(<<111, 108>>)   \* options, limits
TimeNames      == Names(<<84, 109>>)    \* timeLimitMs, timeMs
DepthNames     == Names(<<68, 100>>)    \* maxDepth, depth
MateNames      == Names(<<77>>)         \* threatDepth
CandidateNames == Names(<<67>>)         \* candidateLimit
InfiniteNames  == Names(<<105>>)
MoveNames      == Names(<<103, 104>>)   \* move, point
StoneNames     == Names(<<99, 101>>)    \* stone, color
XNames         == Names(<<120, 110>>)   \* x, column
YNames         == Names(<<121, 119>>)   \* y, row
JobNames       == Names(<<106>>)
VersionNames   == Names(<<118, 97>>)    \* version, afterVersion

IsObject(v) == v.kind = "object"

FindAny(v, names) ==
  LET present == {k \in DOMAIN names : names[k] \in Keys(v)} IN
  IF present = {} THEN {}
  ELSE {member[2] : member \in {m \in v.members : m[1] = names[Min(present)]}}

(* Every value it reads, if it reads one from each.                        *)
Reads(Read(_), values) == UNION {Read(v) : v \in values}
Or(found, other) == IF found = {} THEN other ELSE found

IntegerValue(v) ==
  IF v.kind = "number" /\ v.exp = 0 /\ v.num \in (-MaxInt - 1)..MaxInt THEN {v.num} ELSE {}
BooleanValue(v) == {b \in BOOLEAN : v.kind = IF b THEN "true" ELSE "false"}

(* as_uint64.                                                              *)
UnsignedValue(v) ==
  IF v.kind = "number" /\ v.exp = 0 /\ v.num \in 0..MaxUnsigned THEN {v.num} ELSE {}

Lower(s) == [k \in DOMAIN s |-> IF s[k] \in 65..90 THEN s[k] + 32 ELSE s[k]]

Stones == <<"none", "black", "white">>

(* Of the words for a stone the one-byte ones; "black" and "white" are as b *)
(* and w.                                                                  *)
Word(s) == CASE s \in {<< >>, <<46>>, <<95>>, <<45>>, <<48>>} -> {"none"}
             [] s \in {<<98>>, <<120>>, <<49>>} -> {"black"}
             [] s \in {<<119>>, <<111>>, <<50>>} -> {"white"}
             [] OTHER -> {}

ParseStoneCell(v) ==
  CASE v.kind = "null"   -> {"none"}
    [] v.kind = "number" -> {Stones[n + 1] : n \in IntegerValue(v) \intersect 0..2}
    [] v.kind = "string" -> Word(Lower(v.text))
    [] OTHER -> {}

SideOf(v) ==
  CASE v.kind = "number" -> {Stones[n + 1] : n \in IntegerValue(v) \intersect 1..2}
    [] v.kind = "string" ->
         IF Lower(v.text) \in {<<120>>, <<111>>} THEN {} ELSE Word(Lower(v.text)) \ {"none"}
    [] OTHER -> {}

ParseSide(o) == Reads(SideOf, FindAny(o, SideNames))

RulesOf(v) ==
  CASE v.kind = "true"   -> {"renju"}
    [] v.kind = "false"  -> {"freestyle"}
    [] v.kind = "string" -> CASE Lower(v.text) = <<114>> -> {"renju"}
                              [] Lower(v.text) = <<102>> -> {"freestyle"}
                              [] OTHER -> {}
    [] OTHER -> {}

ParseRules(o) ==
  IF FindAny(o, RulesNames) = {} THEN {"freestyle"} ELSE Reads(RulesOf, FindAny(o, RulesNames))

RowItems(row) ==
  CASE row.kind = "string" -> [k \in DOMAIN row.text |-> Text(<<row.text[k]>>)]
    [] row.kind = "array"  -> row.items
    [] OTHER -> << >>

BoardOf(v) ==
  IF /\ v.kind = "array" /\ Len(v.items) = BoardSize
     /\ \A y \in 1..BoardSize : LET row == RowItems(v.items[y]) IN
          Len(row) = BoardSize /\ \A x \in 1..BoardSize : ParseStoneCell(row[x]) # {}
  THEN {[y \in 1..BoardSize |-> [x \in 1..BoardSize |->
           CHOOSE s \in ParseStoneCell(RowItems(v.items[y])[x]) : TRUE]]}
  ELSE {}

SizeFits(o) ==
  FindAny(o, SizeNames) = {} \/ Reads(IntegerValue, FindAny(o, SizeNames)) = {BoardSize}

ParsePosition(v) ==
  IF ~IsObject(v) \/ ~SizeFits(v) THEN {}
  ELSE {[board |-> b, side |-> s, rules |-> r] :
          b \in Reads(BoardOf, FindAny(v, BoardNames)), s \in ParseSide(v), r \in ParseRules(v)}

(* Rules::winners(...).both(); in Renju Black must have exactly WinLength.   *)
Wins(p, s) ==
  \E y, x \in 1..BoardSize, d \in {<<0, 1>>, <<1, 0>>, <<1, 1>>, <<1, -1>>} :
    LET Own(k) == /\ y + k * d[1] \in 1..BoardSize /\ x + k * d[2] \in 1..BoardSize
                  /\ p.board[y + k * d[1]][x + k * d[2]] = s IN
    /\ \A k \in 0..(WinLength - 1) : Own(k)
    /\ p.rules = "renju" /\ s = "black" => ~Own(-1) /\ ~Own(WinLength)
BothWin(p) == Wins(p, "black") /\ Wins(p, "white")

(* An option is looked up in the options first, then in the request.       *)
Option(o, names) ==
  LET options == {x \in FindAny(o, OptionsNames) : IsObject(x)} IN
  Or(UNION {FindAny(x, names) : x \in options}, FindAny(o, names))

OptionInt(o, names, fallback) ==
  IF Option(o, names) = {} THEN {fallback} ELSE Reads(IntegerValue, Option(o, names))

ParseLimits(o) ==
  IF \E x \in FindAny(o, OptionsNames) : ~IsObject(x) THEN {}
  ELSE {[time |-> t, depth |-> d, mate |-> m, candidates |-> c, infinite |-> i] :
          t \in OptionInt(o, TimeNames, 1500) \intersect 50..30000,
          d \in OptionInt(o, DepthNames, 5) \intersect 1..16,
          m \in OptionInt(o, MateNames, 9) \intersect 1..17,
          c \in OptionInt(o, CandidateNames, 32) \intersect 8..96,
          i \in IF Option(o, InfiniteNames) = {} THEN {FALSE}
                ELSE Reads(BooleanValue, Option(o, InfiniteNames))}

Coordinate(v, names) == Reads(IntegerValue, FindAny(v, names)) \intersect 0..(BoardSize - 1)

ParseMove(o) ==
  {<<x, y>> : x \in UNION {Coordinate(v, XNames) : v \in {v \in FindAny(o, MoveNames) : IsObject(v)}},
              y \in UNION {Coordinate(v, YNames) : v \in {v \in FindAny(o, MoveNames) : IsObject(v)}}}

ParseJobId(o) == Reads(UnsignedValue, FindAny(o, JobNames)) \ {0}

ParseAfterVersion(o) ==
  IF FindAny(o, VersionNames) = {} THEN {0} ELSE Reads(UnsignedValue, FindAny(o, VersionNames))

-----------------------------------------------------------------------------
(* The page's requests.                                                    *)

Object(members) == [Value("object") EXCEPT !.members = members]
Array(items)    == [Value("array") EXCEPT !.items = items]

StoneByte(s) == CASE s = "black" -> 66 [] s = "white" -> 87 [] OTHER -> 46
BoardRows(b) == Array([y \in DOMAIN b |-> Text([x \in DOMAIN b[y] |-> StoneByte(b[y][x])])])

PagePosition(p) ==
  {<<SizeNames[1], Number(BoardSize, 0)>>, <<BoardNames[1], BoardRows(p.board)>>,
   <<RulesNames[1], Text(IF p.rules = "renju" THEN <<114>> ELSE <<102>>)>>,
   <<SideNames[1], Text(IF p.side = "black" THEN <<98>> ELSE <<119>>)>>}

AnalysisPayload(p, l) ==
  Object(PagePosition(p) \union
    {<<OptionsNames[1], Object({<<TimeNames[1], Number(l.time, 0)>>,
        <<DepthNames[1], Number(l.depth, 0)>>, <<MateNames[1], Number(l.mate, 0)>>,
        <<CandidateNames[1], Number(l.candidates, 0)>>,
        <<InfiniteNames[1], Value(IF l.infinite THEN "true" ELSE "false")>>})>>})
=============================================================================
