------------------------------ MODULE Requests ------------------------------
(***************************************************************************)
(* What the API handlers read from the body of a request and answer         *)
(* (main.cpp), on the connections of Connection.  The jobs they start, poll *)
(* and stop are those of AnalysisJobs.                                      *)
(***************************************************************************)
EXTENDS Connection, Api, JsonGrammar

CONSTANT JsonType         \* the content type application/json

Refused(v) == ParsePosition(v) = {} \/ \E p \in ParsePosition(v) : BothWin(p)

StartReplies(v) == IF Refused(v) \/ ParseLimits(v) = {} THEN {422} ELSE {202, 429, 500}

JobReplies(v) == IF ~IsObject(v) \/ ParseJobId(v) = {} THEN {422} ELSE {200, 404}

PollReplies(v) == IF IsObject(v) /\ ParseAfterVersion(v) = {} THEN {422} ELSE JobReplies(v)

ForbiddenReplies(v) ==
  IF \/ ParsePosition(v) = {} \/ ParseMove(v) = {}
     \/ FindAny(v, StoneNames) # {} /\ Reads(SideOf, FindAny(v, StoneNames)) = {}
  THEN {422} ELSE {200}

Routes == {"/api/analyze", "/api/analyze/start", "/api/analyze/poll", "/api/analyze/stop",
           "/api/forbidden", "/api/session/hold", "/api/session/status"}

HandlerReplies(target, v) ==
  CASE target = "/api/analyze/start"  -> StartReplies(v)
    [] target = "/api/analyze/poll"   -> PollReplies(v)
    [] target = "/api/analyze/stop"   -> JobReplies(v)
    [] target = "/api/forbidden"      -> ForbiddenReplies(v)
    [] target = "/api/session/hold"   -> {204}
    [] target = "/api/session/status" -> {200, 204}
    [] OTHER                          -> {422}

PostReplies(m) ==
  CASE m.target \notin Routes -> {404}
    [] m.target \in Routes /\ ~(Has(m, "content-type") /\ Header(m, "content-type") = JsonType) -> {415}
    [] OTHER -> IF Parse(m.doc).ok THEN HandlerReplies(m.target, Parse(m.doc).value) ELSE {400}

RequestReplies(m) ==
  CASE m.method = "OPTIONS" -> {204}
    [] m.method = "POST"    -> PostReplies(m)
    [] m.method = "GET"     -> CASE m.target = "/api/health" -> {200}
                                 [] m.target = "/" -> {200, 404, 500}
                                 [] OTHER -> {404}
    [] OTHER                -> {405}

(* A synchronous analysis that gets as far as its slot.                    *)
AnalysisRequest(m) ==
  /\ m.method = "POST" /\ m.target = "/api/analyze"
  /\ Has(m, "content-type") /\ Header(m, "content-type") = JsonType
  /\ Parse(m.doc).ok /\ ~Refused(Parse(m.doc).value)

RequestPosition(m) == ParsePosition(Parse(m.doc).value)

RequestLimits(m) == {l \in ParseLimits(Parse(m.doc).value) : ~l.infinite}

(***************************************************************************)
(* Properties                                                              *)
(***************************************************************************)
(* json.cpp reads every body as the grammar says, the analysis that runs is *)
(* the one the page asked for, and nothing the page sends is refused as     *)
(* invalid (app.js:840-855, main.cpp:282-345).                             *)
BodiesAreUnderstood ==
  \A c \in DOMAIN message :
    /\ at[c] = "body" /\ Missing(c) <= 0 => ReadsGrammar(message[c].doc)
    /\ at[c] = "search" /\ message[c].means # {} => asked[c] = message[c].means
    /\ reply[c] = 422 => message[c].means = {}
=============================================================================
