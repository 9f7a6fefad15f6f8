----------------------------- MODULE MCRequests -----------------------------
EXTENDS Requests, TLC

CONSTANTS c1, c2, OtherType

Clients == {c1, c2}

SeqsTo(n, S) == UNION {[1..k -> S] : k \in 1..n}

Header1(n, v) == [name |-> n, value |-> v]

(* A request with a head of 4 + extra bytes and a body that is one byte.   *)
Delimiter == <<"r", "n", "r", "n">>
Basic ==
  [text |-> Delimiter, method |-> "POST", version |-> "1.1", target |-> "/api/session/status",
   headers |-> <<Header1("host", 0), Header1("content-type", JsonType), Header1("content-length", 1)>>,
   body |-> 1, doc |-> <<Brace, Closing(Brace)>>, closes |-> FALSE, means |-> {}]

(* Ways the bytes may be cut or end too early.                             *)
Texts ==
  {SubSeq(t, 1, n) : n \in 0..8, t \in
    {<<"x", "r", "n", "x">> \o Delimiter, <<"x", "r", "n", "r", "x", "r", "n", "r", "n">>}}
  \union {<<"x">> \o Delimiter, <<"x", "x">> \o Delimiter, Delimiter \o Delimiter}
WithLength(m, n) == [m EXCEPT !.headers[3].value = n]
Pieces ==
  {[WithLength(Basic, n) EXCEPT !.text = t, !.body = b, !.closes = e] :
     n \in {-1, 0, 2, 4, 5}, t \in Texts, b \in 0..4, e \in BOOLEAN}

(* Faults of the head, methods and targets.                                *)
Without(m, k) == [m EXCEPT !.headers = RemoveAt(@, k)]
With(m, h)    == [m EXCEPT !.headers = Append(@, h)]
Heads ==
  LET some == {Basic} \union {[Basic EXCEPT !.version = v] : v \in {"1.0", "2.0"}}
      fewer == some \union {Without(m, k) : m \in some, k \in 1..3}
      more == fewer \union
        {With(m, Header1(n, 0)) : m \in fewer,
           n \in {"host", "transfer-encoding", "expect", "malformed", "other"}}
  IN  {[m EXCEPT !.method = w, !.target = t] : m \in more,
         w \in {"GET", "POST", "OPTIONS", "PUT", "malformed"},
         t \in {"/", "/api/health", "/api/analyze/poll", "unsafe"}}
      \union {[Basic EXCEPT !.headers[2].value = OtherType]}

(* Documents.                                                              *)
Str(s) == <<Quote>> \o s \o <<Quote>>
Sending(d) == [Basic EXCEPT !.doc = d]
Marks == {Bracket, Closing(Bracket), Brace, Closing(Brace), Comma, Colon, Str(<<97>>), <<49>>}
Edits(d, S) ==
  {[d EXCEPT ![k] = t] : k \in DOMAIN d, t \in S} \union {RemoveAt(d, k) : k \in DOMAIN d}
    \union {InsertAt(d, k, t) : k \in DOMAIN d, t \in S}
Members ==
  << Brace, Str(<<97>>), Colon, <<49>>, Comma, Str(<<98>>), Colon, Bracket, Closing(Bracket), Closing(Brace) >>
Nested ==
  << Bracket, Bracket, <<49>>, Comma, <<49>>, Closing(Bracket), Comma,
     Brace, Str(<<97>>), Colon, Bracket, Closing(Bracket), Closing(Brace), Closing(Bracket) >>
Structures == SeqsTo(4, Marks) \union Edits(Members, Marks) \union Edits(Nested, Marks)
Numbers ==
  {<<s>> : s \in SeqsTo(4, {Minus, Zero, 49, Point, 101, 43})}
    \union {<<s>> : s \in {<<54, 53, 53, 51, 53>>, <<54, 53, 53, 51, 54>>, <<Minus, 51, 50, 55, 54, 56>>,
                           <<Minus, 51, 50, 55, 54, 57>>, <<49, 101, Zero, 51>>, <<49, 101, Minus, 52>>,
                           <<49, 50, 51, 52, 53, 54>>}}
Utf8Strings ==
  {<<Str(<<a, b, c, e>>)>> : a \in {194, 224, 237, 239, 240, 244, 245}, b \in {127, 128, 143, 144, 159, 160, 191},
     c \in {127, 128, 191, 192}, e \in {97, 128, 192}}
    \union {<<Str(s)>> : s \in SeqsTo(2, {97, 128, 191, 194, 223, 224, 240})}
Quads == {<<100, 56, 48, 48>>, <<68, 98, 102, 102>>, <<100, 99, 48, 48>>, <<48, 48, 101, 57>>, <<48, 48, 49, 102>>,
          <<50, 48, 65, 67>>, <<50, 48, 65, 103>>, <<50, 48>>}
Escaped ==
  {<<Str(s)>> : s \in SeqsTo(3, {Backslash, Quote, 117, 110, 31, 97})}
    \union {<<Str(<<Backslash, 117>> \o q \o t)>> :
              q \in Quads, t \in {<< >>, <<97>>} \union {<<Backslash, 117>> \o r : r \in Quads}}
Documents ==
  {Sending(d) : d \in Structures \union Numbers \union Utf8Strings \union Escaped
                      \union {<<l>> : l \in ToSet(Literals)} \union {<< <<110>> >>}}

(* Requests to the handlers: what the page sends, and edits of that.        *)
Position(rows, s, r) == [board |-> rows, side |-> s, rules |-> r]
Positions ==
  {Position(<< <<a, "none">>, <<"none", "black">> >>, s, r) :
     a \in {"none", "white"}, s \in {"black", "white"}, r \in {"freestyle", "renju"}}
Limit(t, i) == [time |-> t, depth |-> 16, mate |-> 9, candidates |-> 8, infinite |-> i]
To(target, d) == [Basic EXCEPT !.target = target, !.doc = d]
Payload(p, l) == Stringify(AnalysisPayload(p, l)).tokens
Asking(p, l) == [To("/api/analyze", Payload(p, l)) EXCEPT !.means = {<<p, l>>}]
FromPage ==
  {Asking(p, Limit(t, FALSE)) : p \in Positions, t \in {50, 30000}}
    \union {[To("/api/analyze/start", Payload(p, Limit(100, i))) EXCEPT !.means = {<<p, Limit(100, i)>>}] :
              p \in Positions, i \in BOOLEAN}
OnePosition == Position(<< <<"white", "none">>, <<"none", "black">> >>, "black", "renju")
Lookups ==
  {Stringify(Object({<<JobNames[1], j>>, <<n, v>>})).tokens :
     j \in {Number(0, 0), Number(2, 0), Number(-1, 0), Number(5, -1), Text(<<50>>)},
     n \in ToSet(VersionNames), v \in {Number(0, 0), Number(-1, 0), Value("null")}}
Points ==
  {Stringify(Object(PagePosition(OnePosition) \union {<<MoveNames[1], m>>} \union s)).tokens :
     m \in {Object({<<XNames[1], Number(x, 0)>>, <<YNames[2], Number(1, 0)>>}) : x \in {0, 2}}
           \union {Value("null")},
     s \in {{}, {<<StoneNames[2], Text(<<98>>)>>}, {<<StoneNames[1], Text(<<120>>)>>}}}
Handled ==
  FromPage
    \union {To("/api/analyze", d) : d \in Edits(Payload(OnePosition, Limit(50, FALSE)), {<<50>>, Str(<<66, 66>>), Literals[1]})}
    \union {To("/api/analyze/poll", d) : d \in Lookups} \union {To("/api/analyze/stop", d) : d \in Lookups}
    \union {To("/api/forbidden", d) : d \in Points}
    \union {To(t, <<Brace, Closing(Brace)>>) : t \in Routes}

Alone == {[c \in {c1} |-> m] : m \in Pieces \union Heads \union Documents \union Handled}

(* Several analyses at once.                                               *)
Short(p, l) == To("/api/analyze", Payload(p, l))
BothWon == Position(<< <<"white", "white">>, <<"black", "black">> >>, "black", "renju")
Analyses ==
  LET good == Short(OnePosition, Limit(50, FALSE)) IN
  {good, Short(OnePosition, Limit(49, FALSE)), Short(OnePosition, Limit(50, TRUE)), Short(BothWon, Limit(50, FALSE)),
   [good EXCEPT !.closes = TRUE], [good EXCEPT !.body = 2]}
Together == [Clients -> Analyses]

AllWork == Alone \union Together
=============================================================================
