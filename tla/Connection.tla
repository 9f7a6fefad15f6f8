----------------------------- MODULE Connection -----------------------------
(***************************************************************************)
(* One request on each connection of the server: read_request with what     *)
(* recv happens to return, dispatch, and the slots of the synchronous       *)
(* analysis (server/http_server.cpp, main.cpp).  The threads that run this  *)
(* are those of HttpLifecycle; what the handlers read and answer is that of *)
(* Requests.                                                               *)
(*                                                                         *)
(* A message is what a client sends:                                       *)
(*   text     the bytes up to the body: "r", "n" for CR, LF, "x" for others *)
(*   method, version, target, headers    what the text says                *)
(*   body     the number of bytes that follow                              *)
(*   doc      the tokens the declared bytes of the body spell              *)
(*   closes   the client closes its sending side then, instead of waiting  *)
(*   means    the analysis the page asks for, if the page sent it          *)
(***************************************************************************)
EXTENDS Integers, Sequences, FiniteSetsExt

CONSTANTS Conn,
          Workload,       \* what the clients may send: functions from a part of Conn
          Chunk,          \* bytes one recv returns at most
          MaxHeader,      \* max_request_header_bytes
          MaxBody,        \* max_request_body_bytes
          AnalysisSlots,  \* gAnalysisSlots, 4
          DispatchReplies(_),  \* the statuses a message may be answered with
          IsAnalysis(_),       \* it gets as far as a slot of handleAnalyze,
          PositionOf(_),       \* to analyse this position
          LimitsOf(_)          \* within these limits, none if they are invalid

ASSUME RequestAssumption ==
  /\ {Chunk, MaxHeader, MaxBody, AnalysisSlots} \subseteq Nat \ {0}
  /\ IsFiniteSet(Conn)

VARIABLES
  message,  \* what each client sends
  got,      \* bytes of it received
  at,       \* where handle_client is
  reply,    \* the status sent, 0 for none
  free,     \* the count of gAnalysisSlots
  asked,    \* the analysis that runs
  gone      \* the client has left while it was waiting for the reply

vars == <<message, got, at, reply, free, asked, gone>>

Init ==
  /\ message \in Workload
  /\ got = [c \in Conn |-> 0]
  /\ at = [c \in Conn |-> IF c \in DOMAIN message THEN "head" ELSE "done"]
  /\ reply = [c \in Conn |-> 0]
  /\ free = AnalysisSlots
  /\ asked = [c \in Conn |-> {}]
  /\ gone = [c \in Conn |-> FALSE]

Wire(m)   == m.text \o [k \in 1..m.body |-> "x"]
Unread(c) == Len(Wire(message[c])) - got[c]

(* Where the head ends in what was received; 0 if it does not.             *)
HeadEnd(bytes) ==
  LET ends == {k \in 4..Len(bytes) : SubSeq(bytes, k - 3, k) = <<"r", "n", "r", "n">>}
  IN  IF ends = {} THEN 0 ELSE Min(ends)

Has(m, name)   == \E k \in DOMAIN m.headers : m.headers[k].name = name
Header(m, name) == (CHOOSE h \in Range(m.headers) : h.name = name).value

Declared(m) == IF Has(m, "content-length") THEN Header(m, "content-length") ELSE 0

ASSUME WorkloadAssumption ==
  \A w \in Workload : /\ DOMAIN w \subseteq Conn
                      /\ \A c \in DOMAIN w : /\ w[c].text \in Seq({"r", "n", "x"})
                                             /\ w[c].body \in Nat
                                             /\ Declared(w[c]) \in Int

(* What is wrong with a head, in the order it is looked for.  A line without *)
(* colon, folded, or with an invalid name or value is "malformed"; a length  *)
(* that is not a number is -1.                                             *)
HeadChecks(m) ==
  << [fails |-> m.method = "malformed" \/ m.version \notin {"1.0", "1.1"} \/ m.target = "unsafe",
      status |-> 400],
     [fails |-> \/ Has(m, "malformed")
                \/ Cardinality({h.name : h \in Range(m.headers)}) < Len(m.headers),
      status |-> 400],
     [fails |-> m.version = "1.1" /\ ~Has(m, "host"),                 status |-> 400],
     [fails |-> Has(m, "transfer-encoding"),                          status |-> 501],
     [fails |-> Has(m, "expect"),                                     status |-> 417],
     [fails |-> Declared(m) < 0,                                      status |-> 400],
     [fails |-> m.method = "POST" /\ ~Has(m, "content-length"),       status |-> 411],
     [fails |-> Declared(m) > MaxBody,                                status |-> 413] >>

(* The status of the first, 0 if nothing is wrong.                         *)
HeadError(m) ==
  LET failing == {k \in DOMAIN HeadChecks(m) : HeadChecks(m)[k].fails} IN
  IF failing = {} THEN 0 ELSE HeadChecks(m)[Min(failing)].status

(***************************************************************************)
(* Reading                                                                 *)
(***************************************************************************)
Replies(c, status) ==
  /\ at' = [at EXCEPT ![c] = "done"]
  /\ reply' = [reply EXCEPT ![c] = status]

Goes(c, place) == at' = [at EXCEPT ![c] = place] /\ UNCHANGED reply

Receives(c, n) == got' = [got EXCEPT ![c] = @ + n]

(* Mutant: the end is looked for in the new bytes only.                    *)
Received_NewOnly(c, n) == SubSeq(Wire(message[c]), got[c] + 1, got[c] + n)
Received(c, n) == SubSeq(Wire(message[c]), 1, got[c] + n)

ReadHead(c) ==
  /\ at[c] = "head"
  /\ \E n \in 1..Min({Chunk, Unread(c)}) :
       LET end == HeadEnd(Received(c, n)) IN
       /\ Receives(c, n)
       /\ IF end > MaxHeader \/ (end = 0 /\ got[c] + n > MaxHeader)
          THEN Replies(c, 431)
          ELSE IF end = 0 THEN Goes(c, "head")
          ELSE IF HeadError(message[c]) # 0 THEN Replies(c, HeadError(message[c]))
          ELSE Goes(c, "body")
  /\ UNCHANGED <<message, free, asked, gone>>

Missing(c) == Declared(message[c]) - (got[c] - HeadEnd(Wire(message[c])))

(* No more is asked of the socket than the body needs.                     *)
ReadBody(c) ==
  /\ at[c] = "body" /\ Missing(c) > 0
  /\ \E n \in 1..Min({Chunk, Unread(c), Missing(c)}) : Receives(c, n)
  /\ UNCHANGED <<message, at, reply, free, asked, gone>>

(* recv returns 0, or times out.  Nobody is told if nothing was sent.      *)
InputEnds(c) ==
  /\ at[c] = "head" \/ (at[c] = "body" /\ Missing(c) > 0)
  /\ Unread(c) = 0
  /\ Replies(c, CASE ~message[c].closes -> 408
                  [] message[c].closes /\ got[c] = 0 -> 0
                  [] OTHER -> 400)
  /\ UNCHANGED <<message, got, free, asked, gone>>

(***************************************************************************)
(* dispatch.  Where the answer depends on another component (a file, the    *)
(* jobs, the sessions) it may be any.                                      *)
(***************************************************************************)
Dispatch(c) ==
  /\ at[c] = "body" /\ Missing(c) <= 0
  /\ IF IsAnalysis(message[c])
     THEN Goes(c, "slot")
     ELSE \E status \in DispatchReplies(message[c]) : Replies(c, status)
  /\ UNCHANGED <<message, got, free, asked, gone>>

(***************************************************************************)
(* handleAnalyze.  The slot is given back on the way out.                  *)
(***************************************************************************)
TakeSlot(c) ==
  /\ at[c] = "slot"
  /\ IF free > 0 THEN free' = free - 1 /\ Goes(c, "limits")
                 ELSE Replies(c, 429) /\ UNCHANGED free
  /\ UNCHANGED <<message, got, asked, gone>>

(* Mutant: the way out by an exception forgets the slot.                   *)
LimitsFail_Leak(c) == Replies(c, 422) /\ UNCHANGED <<free, asked>>
LimitsFail(c) == Replies(c, 422) /\ free' = free + 1 /\ UNCHANGED asked

ReadLimits(c) ==
  /\ at[c] = "limits"
  /\ IF LimitsOf(message[c]) = {}
     THEN LimitsFail(c)
     ELSE /\ Goes(c, "search")
          /\ asked' = [asked EXCEPT ![c] = PositionOf(message[c]) \X LimitsOf(message[c])]
          /\ UNCHANGED free
  /\ UNCHANGED <<message, got, gone>>

(* The search returns or throws.                                           *)
SearchEnds(c) ==
  /\ at[c] = "search"
  /\ \E status \in {200, 500} : Replies(c, status)
  /\ free' = free + 1
  /\ UNCHANGED <<message, got, asked, gone>>

(* Mutant: it is asked once, when the search begins.                       *)
Disconnected_AtStart(c) == Unread(c) = 0 /\ message[c].closes
(* client_disconnected: the end is only seen behind the last byte.         *)
Disconnected(c) == Unread(c) = 0 /\ (message[c].closes \/ gone[c])

Cancelled(c) == SearchEnds(c) /\ Disconnected(c)

ClientLeaves(c) ==
  /\ at[c] \in {"slot", "limits", "search"} /\ ~gone[c] /\ ~message[c].closes
  /\ gone' = [gone EXCEPT ![c] = TRUE]
  /\ UNCHANGED <<message, got, at, reply, free, asked>>

Answered == \A c \in Conn : at[c] = "done"

Terminated == Answered /\ UNCHANGED vars

Serves(c) ==
  ReadHead(c) \/ ReadBody(c) \/ InputEnds(c) \/ Dispatch(c) \/ TakeSlot(c) \/ ReadLimits(c)

Next ==
  \/ \E c \in Conn : Serves(c) \/ SearchEnds(c) \/ ClientLeaves(c)
  \/ Terminated

Spec == Init /\ [][Next]_vars

(* A search asks for cancellation again and again.  That it ends by itself *)
(* is not assumed.                                                         *)
FairSpec == Spec /\ \A c \in Conn : WF_vars(Cancelled(c))

(***************************************************************************)
(* Properties                                                              *)
(***************************************************************************)
(* The reply to the bytes of a message, all of them seen at once.          *)
RepliesTo(m) ==
  LET end == HeadEnd(Wire(m))
      cut == IF m.closes THEN 400 ELSE 408
  IN  CASE end > MaxHeader \/ (end = 0 /\ Len(Wire(m)) > MaxHeader) -> {431}
        [] end = 0 /\ Len(Wire(m)) <= MaxHeader ->
             {IF Wire(m) = << >> /\ m.closes THEN 0 ELSE cut}
        [] OTHER ->
             IF HeadError(m) # 0 THEN {HeadError(m)}
             ELSE IF Len(Wire(m)) - end < Declared(m) THEN {cut}
             ELSE IF ~IsAnalysis(m) THEN DispatchReplies(m)
             ELSE IF LimitsOf(m) = {} THEN {422, 429}
             ELSE {200, 429, 500}

(* The reply depends on the bytes that were sent, not on how recv happens to *)
(* cut them (http_server.cpp:664-687, 797-818).                            *)
ReplyIsToRequest ==
  \A c \in DOMAIN message : at[c] = "done" => reply[c] \in RepliesTo(message[c])

(* A slot is taken while a request is being analysed and at no other time,  *)
(* whatever way it ends (main.cpp:84-97, 508-531).                          *)
SlotsAreHeld ==
  free = AnalysisSlots - Cardinality({c \in Conn : at[c] \in {"limits", "search"}})

(* The analysis of a client that has left is ended by its next node, not by *)
(* its time (README.md:227-228), if nothing it sent is left unread.        *)
LeavingEndsAnalysis ==
  \A c \in Conn :
    at[c] = "search" /\ (gone[c] \/ message[c].closes)
      /\ message[c].body <= Declared(message[c]) ~> at[c] = "done"
=============================================================================
