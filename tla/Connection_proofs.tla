-------------------------- MODULE Connection_proofs --------------------------
(***************************************************************************)
(* Proofs about Connection, for any clients, messages, pieces recv returns  *)
(* and limits: a reply depends on the bytes of the request alone, and the   *)
(* slots of the synchronous analysis are given back.                        *)
(***************************************************************************)
EXTENDS Connection, FiniteSetTheorems, SequenceTheorems, WellFoundedInduction, TLAPS

Bytes == {"r", "n", "x"}

All(c) == Wire(message[c])
End(c) == HeadEnd(All(c))

Places  == {"head", "body", "slot", "limits", "search", "done"}
Holders == {c \in Conn : at[c] \in {"limits", "search"}}

TypeOK ==
  /\ message \in Workload
  /\ got \in [Conn -> Nat]
  /\ at \in [Conn -> Places]
  /\ reply = [c \in Conn |-> reply[c]]
  /\ free \in Nat
  /\ \A c \in Conn \ DOMAIN message : at[c] = "done"

(* What is known of a request when the server has come to a place.          *)
Progress(c) ==
  /\ got[c] <= Len(All(c))
  /\ at[c] = "head" => (End(c) = 0 \/ End(c) > got[c]) /\ got[c] <= MaxHeader
  /\ at[c] \in {"body", "slot", "limits", "search"} =>
       0 < End(c) /\ End(c) <= MaxHeader /\ End(c) <= got[c] /\ HeadError(message[c]) = 0
  /\ at[c] \in {"slot", "limits", "search"} =>
       Declared(message[c]) <= Len(All(c)) - End(c) /\ IsAnalysis(message[c])
  /\ at[c] = "search" => LimitsOf(message[c]) # {}
  /\ at[c] = "done" => reply[c] \in RepliesTo(message[c])

IInv == TypeOK /\ SlotsAreHeld /\ \A c \in DOMAIN message : Progress(c)

-----------------------------------------------------------------------------
(* The least of a set of numbers.                                          *)
LEMMA MinIs ==
  ASSUME NEW S, S \subseteq Nat, S # {}
  PROVE  Min(S) \in S /\ \A y \in S : Min(S) <= y
  <1> DEFINE R == {ss \in Nat \X Nat : ss[1] < ss[2]}
  <1>1. IsWellFoundedOn(R, Nat) BY NatLessThanWellFounded DEF OpToRel
  <1> HIDE DEF R
  <1>2. PICK x \in S : \A y \in S : ~ (<<y, x>> \in R) BY <1>1, WFMin
  <1>3. ASSUME NEW y \in S PROVE x <= y
    <2>1. x \in Nat /\ y \in Nat OBVIOUS
    <2>2. y < x => <<y, x>> \in R BY <2>1 DEF R
    <2>3. ~(y < x) BY <1>2, <2>2
    <2> QED BY <2>1, <2>3
  <1>4. \E z \in S : \A y \in S : z <= y BY <1>3
  <1> QED BY <1>4 DEF Min

LEMMA MinOfTwo ==
  ASSUME NEW a \in Int, NEW b \in Int
  PROVE  Min({a, b}) <= b /\ Min({a, b}) \in Int
  <1>1. \E x \in {a, b} : \A y \in {a, b} : x <= y OBVIOUS
  <1> QED BY <1>1 DEF Min

LEMMA MinOfThree ==
  ASSUME NEW a \in Int, NEW b \in Int, NEW d \in Int
  PROVE  Min({a, b, d}) <= b /\ Min({a, b, d}) \in Int
  <1>1. \E x \in {a, b, d} : \A y \in {a, b, d} : x <= y OBVIOUS
  <1> QED BY <1>1 DEF Min

-----------------------------------------------------------------------------
(* Where the head ends.                                                    *)
Ends(bytes) == {k \in 4..Len(bytes) : SubSeq(bytes, k - 3, k) = <<"r", "n", "r", "n">>}

LEMMA HeadEndIs ==
  ASSUME NEW bytes \in Seq(Bytes)
  PROVE  /\ HeadEnd(bytes) \in Nat /\ HeadEnd(bytes) <= Len(bytes)
         /\ HeadEnd(bytes) = 0 <=> Ends(bytes) = {}
         /\ HeadEnd(bytes) # 0 => HeadEnd(bytes) \in Ends(bytes)
                                  /\ \A k \in Ends(bytes) : HeadEnd(bytes) <= k
  <1>1. HeadEnd(bytes) = IF Ends(bytes) = {} THEN 0 ELSE Min(Ends(bytes)) BY DEF HeadEnd, Ends
  <1>2. Len(bytes) \in Nat OBVIOUS
  <1>3. Ends(bytes) \subseteq 4..Len(bytes) BY DEF Ends
  <1>4. Ends(bytes) \subseteq Nat BY <1>2, <1>3
  <1>5. CASE Ends(bytes) = {} BY <1>1, <1>2, <1>5
  <1>6. CASE Ends(bytes) # {}
    <2>1. Min(Ends(bytes)) \in Ends(bytes) /\ \A k \in Ends(bytes) : Min(Ends(bytes)) <= k
      BY <1>4, <1>6, MinIs
    <2>2. Min(Ends(bytes)) \in 4..Len(bytes) BY <1>3, <2>1
    <2> QED BY <1>1, <1>2, <1>6, <2>1, <2>2
  <1> QED BY <1>5, <1>6

(* The end is the same in all that was received as in all that will be.     *)
LEMMA HeadEndOfPrefix ==
  ASSUME NEW bytes \in Seq(Bytes), NEW n \in 1..Len(bytes)
  PROVE  LET end == HeadEnd(SubSeq(bytes, 1, n)) IN
         /\ end # 0 => HeadEnd(bytes) = end /\ end <= n
         /\ end = 0 => HeadEnd(bytes) = 0 \/ HeadEnd(bytes) > n
  <1> DEFINE prefix == SubSeq(bytes, 1, n)
  <1>1. \A i \in 1..n : bytes[i] \in Bytes BY ElementOfSeq
  <1>2. prefix \in Seq(Bytes) /\ Len(prefix) = n BY <1>1, SubSeqProperties
  <1>3. ASSUME NEW k \in 4..n PROVE SubSeq(prefix, k - 3, k) = SubSeq(bytes, k - 3, k)
    <2>1. k - 3 \in 1..n /\ k \in 1..n /\ 1 \in 1..Len(bytes) /\ n - 1 + 1 = n
          /\ 1 + (k - 3) - 1 = k - 3 /\ 1 + k - 1 = k
      OBVIOUS
    <2>2. SubSeq(SubSeq(bytes, 1, n), k - 3, k) = SubSeq(bytes, 1 + (k - 3) - 1, 1 + k - 1)
      BY <2>1, SubSeqOfSubSeq
    <2> QED BY <2>1, <2>2
  <1>4. \A k \in 4..n : k \in Ends(prefix) <=> k \in Ends(bytes)
    <2>1. \A k \in 4..n : k \in 4..Len(bytes) OBVIOUS
    <2> QED BY <1>2, <1>3, <2>1 DEF Ends
  <1>5. Ends(prefix) \subseteq 4..n /\ Ends(bytes) \subseteq 4..Len(bytes) BY <1>2 DEF Ends
  <1> HIDE DEF prefix
  <1>6. ASSUME HeadEnd(prefix) # 0 PROVE HeadEnd(bytes) = HeadEnd(prefix) /\ HeadEnd(prefix) <= n
    <2>1. HeadEnd(prefix) \in 4..n /\ HeadEnd(prefix) \in Ends(bytes)
      BY <1>2, <1>4, <1>5, <1>6, HeadEndIs
    <2>2. HeadEnd(bytes) # 0 /\ HeadEnd(bytes) \in Ends(bytes) /\ HeadEnd(bytes) <= HeadEnd(prefix)
      BY <2>1, HeadEndIs
    <2>3. HeadEnd(bytes) \in 4..n BY <1>5, <2>1, <2>2
    <2>4. HeadEnd(prefix) <= HeadEnd(bytes) BY <1>2, <1>4, <1>6, <2>2, <2>3, HeadEndIs
    <2> QED BY <2>1, <2>2, <2>3, <2>4
  <1>7. ASSUME HeadEnd(prefix) = 0 PROVE HeadEnd(bytes) = 0 \/ HeadEnd(bytes) > n
    <2>1. Ends(prefix) = {} BY <1>2, <1>7, HeadEndIs
    <2>2. HeadEnd(bytes) \notin 4..n \/ HeadEnd(bytes) = 0 BY <1>4, <2>1, HeadEndIs
    <2>3. HeadEnd(bytes) # 0 => HeadEnd(bytes) \in 4..Len(bytes) BY <1>5, HeadEndIs
    <2> QED BY <2>2, <2>3
  <1> QED BY <1>6, <1>7 DEF prefix

LEMMA WireIs ==
  ASSUME TypeOK, NEW c \in DOMAIN message
  PROVE  /\ c \in Conn /\ All(c) \in Seq(Bytes) /\ Len(All(c)) \in Nat /\ End(c) \in Nat
         /\ End(c) <= Len(All(c)) /\ (End(c) # 0 => End(c) >= 4)
         /\ Declared(message[c]) \in Int
         /\ All(c) = << >> <=> Len(All(c)) = 0
  <1>1. /\ c \in Conn /\ message[c].text \in Seq(Bytes) /\ message[c].body \in Nat
        /\ Declared(message[c]) \in Int
    BY WorkloadAssumption DEF TypeOK, Bytes
  <1>2. [k \in 1..message[c].body |-> "x"] \in Seq(Bytes) BY <1>1 DEF Bytes
  <1>3. All(c) \in Seq(Bytes) BY <1>1, <1>2, ConcatProperties DEF All, Wire
  <1>4. Len(All(c)) \in Nat /\ (All(c) = << >> <=> Len(All(c)) = 0) BY <1>3, EmptySeq
  <1>5. End(c) \in Nat /\ End(c) <= Len(All(c)) /\ (End(c) # 0 => End(c) >= 4)
    <2>1. Ends(All(c)) \subseteq 4..Len(All(c)) BY DEF Ends
    <2> QED BY <1>3, <1>4, <2>1, HeadEndIs DEF End
  <1> QED BY <1>1, <1>3, <1>4, <1>5

(* What may be answered to the bytes of a message, case by case.            *)
LEMMA RepliesToIs ==
  ASSUME NEW m, Len(Wire(m)) \in Nat, HeadEnd(Wire(m)) \in Nat, Declared(m) \in Int
  PROVE  LET end  == HeadEnd(Wire(m))
             read == ~(end > MaxHeader) /\ end # 0
             cut  == Len(Wire(m)) - end < Declared(m)
         IN
         /\ end > MaxHeader \/ (end = 0 /\ Len(Wire(m)) > MaxHeader) => RepliesTo(m) = {431}
         /\ ~(end > MaxHeader) /\ end = 0 /\ Len(Wire(m)) <= MaxHeader =>
              RepliesTo(m) = {IF Wire(m) = << >> /\ m.closes THEN 0
                              ELSE IF m.closes THEN 400 ELSE 408}
         /\ read /\ HeadError(m) # 0 => RepliesTo(m) = {HeadError(m)}
         /\ read /\ HeadError(m) = 0 /\ cut => RepliesTo(m) = {IF m.closes THEN 400 ELSE 408}
         /\ read /\ HeadError(m) = 0 /\ ~cut /\ ~IsAnalysis(m) =>
              RepliesTo(m) = DispatchReplies(m)
         /\ read /\ HeadError(m) = 0 /\ ~cut /\ IsAnalysis(m) =>
              RepliesTo(m) = IF LimitsOf(m) = {} THEN {422, 429} ELSE {200, 429, 500}
  BY RequestAssumption DEF RepliesTo

-----------------------------------------------------------------------------
(* A step is one of a single connection, from a place to a place.           *)
Moves(c, place) == at' = [at EXCEPT ![c] = place]

LEMMA Occupied ==
  ASSUME TypeOK, NEW c \in Conn, at[c] # "done"
  PROVE  c \in DOMAIN message
  BY DEF TypeOK

LEMMA HoldersFinite == IsFiniteSet(Holders) /\ Cardinality(Holders) \in Nat
  BY RequestAssumption, FS_Subset, FS_CardinalityType DEF Holders

LEMMA SlotsMove ==
  ASSUME TypeOK, SlotsAreHeld, NEW c \in Conn, NEW place \in Places, Moves(c, place)
  PROVE  /\ (at[c] \in {"limits", "search"} <=> place \in {"limits", "search"}) /\ free' = free
              => SlotsAreHeld'
         /\ at[c] \notin {"limits", "search"} /\ place \in {"limits", "search"} /\ free' = free - 1
              => SlotsAreHeld'
         /\ at[c] \in {"limits", "search"} /\ place \notin {"limits", "search"} /\ free' = free + 1
              => SlotsAreHeld'
  <1>1. at'[c] = place /\ \A d \in Conn : d # c => at'[d] = at[d] BY DEF Moves, TypeOK
  <1>2. free = AnalysisSlots - Cardinality(Holders) /\ AnalysisSlots \in Nat
    BY RequestAssumption DEF SlotsAreHeld, Holders
  <1>3. SlotsAreHeld' <=> free' = AnalysisSlots - Cardinality(Holders')
    BY DEF SlotsAreHeld, Holders
  <1>4. ASSUME at[c] \in {"limits", "search"} <=> place \in {"limits", "search"}, free' = free
        PROVE  SlotsAreHeld'
    <2>1. Holders' = Holders BY <1>1, <1>4 DEF Holders
    <2> QED BY <1>2, <1>3, <1>4, <2>1
  <1>5. ASSUME at[c] \notin {"limits", "search"}, place \in {"limits", "search"}, free' = free - 1
        PROVE  SlotsAreHeld'
    <2>1. Holders' = Holders \union {c} /\ c \notin Holders BY <1>1, <1>5 DEF Holders
    <2>2. Cardinality(Holders') = Cardinality(Holders) + 1
      BY <2>1, HoldersFinite, FS_AddElement
    <2> QED BY <1>2, <1>3, <1>5, <2>2, HoldersFinite
  <1>6. ASSUME at[c] \in {"limits", "search"}, place \notin {"limits", "search"}, free' = free + 1
        PROVE  SlotsAreHeld'
    <2>1. Holders' = Holders \ {c} /\ c \in Holders BY <1>1, <1>6 DEF Holders
    <2>2. Cardinality(Holders') = Cardinality(Holders) - 1
      BY <2>1, HoldersFinite, FS_RemoveElement
    <2> QED BY <1>2, <1>3, <1>6, <2>2, HoldersFinite
  <1> QED BY <1>4, <1>5, <1>6

LEMMA MoveKeeps ==
  ASSUME IInv, NEW c \in DOMAIN message, NEW place \in Places, Moves(c, place),
         message' = message, got' \in [Conn -> Nat], reply' = [d \in Conn |-> reply'[d]],
         \A d \in Conn : d # c => got'[d] = got[d] /\ reply'[d] = reply[d],
         free' \in Nat, SlotsAreHeld', Progress(c)'
  PROVE  IInv'
  <1> USE DEF IInv
  <1>1. c \in Conn BY WireIs
  <1>2. at' \in [Conn -> Places] /\ \A d \in Conn : d # c => at'[d] = at[d]
    BY DEF Moves, TypeOK
  <1>3. TypeOK' BY <1>2 DEF TypeOK
  <1>4. ASSUME NEW d \in DOMAIN message, d # c PROVE Progress(d)'
    <2>1. d \in Conn BY WireIs
    <2>2. got'[d] = got[d] /\ reply'[d] = reply[d] /\ at'[d] = at[d] BY <1>2, <1>4, <2>1
    <2>3. All(d)' = All(d) /\ End(d)' = End(d) BY DEF All, End
    <2> QED BY <1>4, <2>2, <2>3 DEF Progress
  <1> QED BY <1>3, <1>4

(* A reply is sent and the connection closed.                               *)
LEMMA RepliesMoves ==
  ASSUME TypeOK, NEW c \in Conn, NEW status, Replies(c, status)
  PROVE  /\ Moves(c, "done") /\ at'[c] = "done" /\ reply'[c] = status
         /\ reply' = [d \in Conn |-> reply'[d]]
         /\ \A d \in Conn : d # c => reply'[d] = reply[d]
  <1>1. reply' = [reply EXCEPT ![c] = status] /\ reply = [d \in Conn |-> reply[d]]
    BY DEF Replies, TypeOK
  <1>2. reply' = [d \in Conn |-> IF d = c THEN status ELSE reply[d]] BY <1>1
  <1> QED BY <1>2 DEF Replies, Moves, TypeOK

LEMMA GoesMoves ==
  ASSUME TypeOK, NEW c \in Conn, NEW place \in Places, Goes(c, place)
  PROVE  /\ Moves(c, place) /\ at'[c] = place /\ reply' = reply
         /\ reply' = [d \in Conn |-> reply'[d]]
  BY DEF Goes, Moves, TypeOK

LEMMA StaysMoves ==
  ASSUME TypeOK, NEW c \in Conn, at' = at
  PROVE  Moves(c, at[c]) /\ at[c] \in Places
  BY DEF Moves, TypeOK

LEMMA ReceivesIs ==
  ASSUME TypeOK, NEW c \in Conn, NEW n \in Nat, Receives(c, n)
  PROVE  /\ got' \in [Conn -> Nat] /\ got'[c] = got[c] + n
         /\ \A d \in Conn : d # c => got'[d] = got[d]
  BY DEF Receives, TypeOK

-----------------------------------------------------------------------------
LEMMA InitInv == Init => IInv
  <1> SUFFICES ASSUME Init PROVE IInv OBVIOUS
  <1>1. message \in Workload /\ DOMAIN message \subseteq Conn
    BY WorkloadAssumption DEF Init
  <1>2. \A c \in Conn : /\ c \in DOMAIN message => at[c] = "head"
                        /\ c \notin DOMAIN message => at[c] = "done"
    BY DEF Init
  <1>3. TypeOK BY <1>1, <1>2, RequestAssumption DEF Init, TypeOK, Places
  <1>4. SlotsAreHeld
    <2>1. Holders = {} BY <1>2 DEF Holders
    <2>2. Cardinality(Holders) = 0 /\ AnalysisSlots \in Nat
      BY <2>1, FS_EmptySet, RequestAssumption
    <2>3. free = AnalysisSlots - Cardinality(Holders) BY <2>2 DEF Init
    <2> QED BY <2>3 DEF SlotsAreHeld, Holders
  <1>5. ASSUME NEW c \in DOMAIN message PROVE Progress(c)
    <2>1. c \in Conn /\ at[c] = "head" /\ got[c] = 0 BY <1>1, <1>2 DEF Init
    <2> QED BY <1>3, <2>1, WireIs, RequestAssumption DEF Progress
  <1> QED BY <1>3, <1>4, <1>5 DEF IInv

(* However recv cuts the head, it ends where it ends in the whole.          *)
LEMMA ReadHeadKeeps ==
  ASSUME IInv, NEW c \in Conn, ReadHead(c)
  PROVE  IInv'
  <1> USE DEF IInv
  <1>1. at[c] = "head" /\ UNCHANGED <<message, free>> BY DEF ReadHead
  <1>2. c \in DOMAIN message BY <1>1, Occupied
  <1> DEFINE m == message[c]
  <1>3. PICK n \in 1..Min({Chunk, Unread(c)}) :
          LET end == HeadEnd(Received(c, n)) IN
          /\ Receives(c, n)
          /\ IF end > MaxHeader \/ (end = 0 /\ got[c] + n > MaxHeader)
             THEN Replies(c, 431)
             ELSE IF end = 0 THEN Goes(c, "head")
             ELSE IF HeadError(m) # 0 THEN Replies(c, HeadError(m))
             ELSE Goes(c, "body")
    BY DEF ReadHead
  <1> DEFINE end == HeadEnd(Received(c, n))
             k   == got[c] + n
  <1>4. /\ n \in Nat /\ k \in 1..Len(All(c)) /\ got[c] \in Nat /\ k \in Nat
        /\ Len(All(c)) \in Nat /\ End(c) \in Nat /\ MaxHeader \in Nat
    <2>1. got[c] \in Nat /\ Len(All(c)) \in Nat /\ Chunk \in Int /\ MaxHeader \in Nat /\ End(c) \in Nat
      BY <1>2, WireIs, RequestAssumption DEF TypeOK
    <2>2. Unread(c) = Len(All(c)) - got[c] /\ Unread(c) \in Int BY <2>1 DEF Unread, All
    <2>3. Min({Chunk, Unread(c)}) <= Unread(c) /\ Min({Chunk, Unread(c)}) \in Int
      BY <2>1, <2>2, MinOfTwo
    <2>4. n \in Int /\ 1 <= n /\ n <= Unread(c) BY <2>1, <2>2, <2>3
    <2> QED BY <2>1, <2>2, <2>4
  <1>5. /\ end \in Nat
        /\ end # 0 => End(c) = end /\ end <= k
        /\ end = 0 => End(c) = 0 \/ End(c) > k
    <2>1. Received(c, n) = SubSeq(All(c), 1, k) BY DEF Received, All
    <2>2. All(c) \in Seq(Bytes) BY <1>2, WireIs
    <2>3. \A i \in 1..k : All(c)[i] \in Bytes BY <1>4, <2>2, ElementOfSeq
    <2>4. Received(c, n) \in Seq(Bytes) BY <1>4, <2>1, <2>3, SubSeqProperties
    <2>5. end \in Nat BY <2>4, HeadEndIs
    <2> QED BY <1>4, <2>1, <2>2, <2>5, HeadEndOfPrefix DEF End
  <1>6. /\ Receives(c, n)
        /\ IF end > MaxHeader \/ (end = 0 /\ k > MaxHeader)
           THEN Replies(c, 431)
           ELSE IF end = 0 THEN Goes(c, "head")
           ELSE IF HeadError(m) # 0 THEN Replies(c, HeadError(m))
           ELSE Goes(c, "body")
    BY <1>3
  <1> HIDE DEF end, k, m
  <1>7. got' \in [Conn -> Nat] /\ got'[c] = k /\ \A d \in Conn : d # c => got'[d] = got[d]
    BY <1>4, <1>6, ReceivesIs DEF k
  <1>8. free' \in Nat BY <1>1 DEF TypeOK
  <1>9. All(c)' = All(c) /\ End(c)' = End(c) /\ message'[c] = m BY <1>1 DEF All, End, m
  <1>10. "done" \in Places /\ "head" \in Places /\ "body" \in Places BY DEF Places
  <1>11. ASSUME NEW status, Replies(c, status), status \in RepliesTo(m) PROVE IInv'
    <2>1. Progress(c)' BY <1>4, <1>7, <1>9, <1>11, RepliesMoves DEF Progress
    <2>2. SlotsAreHeld' BY <1>1, <1>10, <1>11, RepliesMoves, SlotsMove
    <2> QED BY <1>1, <1>2, <1>7, <1>8, <1>10, <1>11, <2>1, <2>2, RepliesMoves, MoveKeeps
  <1>12. ASSUME NEW place \in {"head", "body"}, Goes(c, place), Progress(c)' PROVE IInv'
    <2>1. SlotsAreHeld' BY <1>1, <1>10, <1>12, GoesMoves, SlotsMove
    <2> QED BY <1>1, <1>2, <1>7, <1>8, <1>10, <1>12, <2>1, GoesMoves, MoveKeeps
  <1>13. CASE end > MaxHeader \/ (end = 0 /\ k > MaxHeader)
    <2>1. End(c) > MaxHeader \/ (End(c) = 0 /\ Len(All(c)) > MaxHeader)
      BY <1>4, <1>5, <1>13
    <2>2. 431 \in RepliesTo(m) BY <1>2, <2>1, WireIs, RepliesToIs DEF End, All, m
    <2> QED BY <1>6, <1>11, <1>13, <2>2
  <1>14. CASE end = 0 /\ k <= MaxHeader
    <2>1. Goes(c, "head") BY <1>4, <1>5, <1>6, <1>14
    <2>2. at'[c] = "head" BY <1>10, <2>1, GoesMoves
    <2>3. Progress(c)' BY <1>4, <1>5, <1>7, <1>9, <1>14, <2>2 DEF Progress
    <2> QED BY <1>12, <2>1, <2>3
  <1>15. CASE end # 0 /\ end <= MaxHeader /\ HeadError(m) # 0
    <2>1. Replies(c, HeadError(m)) BY <1>4, <1>5, <1>6, <1>15
    <2>2. End(c) # 0 /\ ~(End(c) > MaxHeader) BY <1>4, <1>5, <1>15
    <2>3. HeadError(m) \in RepliesTo(m) BY <1>2, <1>15, <2>2, WireIs, RepliesToIs DEF End, All, m
    <2> QED BY <1>11, <2>1, <2>3
  <1>16. CASE end # 0 /\ end <= MaxHeader /\ HeadError(m) = 0
    <2>1. Goes(c, "body") BY <1>4, <1>5, <1>6, <1>16
    <2>2. at'[c] = "body" BY <1>10, <2>1, GoesMoves
    <2>3. Progress(c)' BY <1>4, <1>5, <1>7, <1>9, <1>16, <2>2 DEF Progress
    <2> QED BY <1>12, <2>1, <2>3
  <1> QED BY <1>4, <1>5, <1>13, <1>14, <1>15, <1>16

LEMMA ReadBodyKeeps ==
  ASSUME IInv, NEW c \in Conn, ReadBody(c)
  PROVE  IInv'
  <1> USE DEF IInv
  <1>1. at[c] = "body" /\ UNCHANGED <<message, at, reply, free>> BY DEF ReadBody
  <1>2. c \in DOMAIN message BY <1>1, Occupied
  <1>3. PICK n \in 1..Min({Chunk, Unread(c), Missing(c)}) : Receives(c, n) BY DEF ReadBody
  <1>4. n \in Nat /\ got[c] \in Nat /\ got[c] + n <= Len(All(c)) /\ Len(All(c)) \in Nat
    <2>1. got[c] \in Nat /\ Len(All(c)) \in Nat /\ Chunk \in Int /\ End(c) \in Nat
          /\ Declared(message[c]) \in Int
      BY <1>2, WireIs, RequestAssumption DEF TypeOK
    <2>2. Unread(c) = Len(All(c)) - got[c] /\ Missing(c) = Declared(message[c]) - (got[c] - End(c))
      BY DEF Unread, Missing, All, End
    <2>3. Unread(c) \in Int /\ Missing(c) \in Int BY <2>1, <2>2
    <2>4. /\ Min({Chunk, Unread(c), Missing(c)}) <= Unread(c)
          /\ Min({Chunk, Unread(c), Missing(c)}) \in Int
      BY <2>1, <2>3, MinOfThree
    <2>5. n \in Int /\ 1 <= n /\ n <= Unread(c) BY <2>3, <2>4
    <2> QED BY <2>1, <2>2, <2>5
  <1>5. got' \in [Conn -> Nat] /\ got'[c] = got[c] + n /\ \A d \in Conn : d # c => got'[d] = got[d]
    BY <1>3, <1>4, ReceivesIs
  <1>6. All(c)' = All(c) /\ End(c)' = End(c) BY <1>1 DEF All, End
  <1>7. Progress(c)' BY <1>1, <1>2, <1>4, <1>5, <1>6, WireIs DEF Progress
  <1>8. Moves(c, "body") /\ "body" \in Places BY <1>1, StaysMoves
  <1>9. SlotsAreHeld' BY <1>1, <1>8, SlotsMove
  <1> QED BY <1>1, <1>2, <1>5, <1>7, <1>8, <1>9, MoveKeeps DEF TypeOK

(* A reply that is one to the bytes of the message ends the request.        *)
LEMMA ReplyKeeps ==
  ASSUME IInv, NEW c \in DOMAIN message, NEW status, Replies(c, status),
         status \in RepliesTo(message[c]), UNCHANGED <<message, got>>, free' \in Nat,
         IF at[c] \in {"limits", "search"} THEN free' = free + 1 ELSE free' = free
  PROVE  IInv'
  <1> USE DEF IInv
  <1>1. c \in Conn /\ "done" \in Places BY WireIs DEF Places
  <1>2. Moves(c, "done") /\ at'[c] = "done" /\ reply'[c] = status
        /\ reply' = [d \in Conn |-> reply'[d]] /\ \A d \in Conn : d # c => reply'[d] = reply[d]
    BY <1>1, RepliesMoves
  <1>3. All(c)' = All(c) /\ End(c)' = End(c) BY DEF All, End
  <1>4. Progress(c)' BY <1>2, <1>3 DEF Progress
  <1>5. SlotsAreHeld' BY <1>1, <1>2, SlotsMove
  <1>6. got' \in [Conn -> Nat] BY DEF TypeOK
  <1> QED BY <1>1, <1>2, <1>4, <1>5, <1>6, MoveKeeps

(* The input ends before the request does: the bytes were too few.          *)
LEMMA InputEndsKeeps ==
  ASSUME IInv, NEW c \in Conn, InputEnds(c)
  PROVE  IInv'
  <1> USE DEF IInv
  <1> DEFINE m == message[c]
             status == CASE ~m.closes -> 408
                         [] m.closes /\ got[c] = 0 -> 0
                         [] OTHER -> 400
  <1>1. /\ at[c] = "head" \/ (at[c] = "body" /\ Missing(c) > 0)
        /\ Unread(c) = 0 /\ Replies(c, status) /\ UNCHANGED <<message, got, free>>
    BY DEF InputEnds
  <1>2. c \in DOMAIN message BY <1>1, Occupied
  <1>3. /\ Len(All(c)) \in Nat /\ End(c) \in Nat /\ End(c) <= Len(All(c)) /\ got[c] \in Nat
        /\ (All(c) = << >> <=> Len(All(c)) = 0) /\ Declared(m) \in Int /\ MaxHeader \in Nat
    BY <1>2, WireIs, RequestAssumption DEF TypeOK
  <1>4. got[c] = Len(All(c)) BY <1>1, <1>3 DEF Unread, All
  <1>5. status = IF ~m.closes THEN 408 ELSE IF got[c] = 0 THEN 0 ELSE 400 OBVIOUS
  <1> HIDE DEF status
  <1>6. status \in RepliesTo(m)
    <2>1. CASE at[c] = "head"
      <3>1. End(c) = 0 /\ Len(All(c)) <= MaxHeader BY <1>2, <1>3, <1>4, <2>1 DEF Progress
      <3>2. RepliesTo(m) = {IF All(c) = << >> /\ m.closes THEN 0 ELSE IF m.closes THEN 400 ELSE 408}
        BY <1>3, <3>1, RepliesToIs DEF All, End
      <3> QED BY <1>3, <1>4, <1>5, <3>2
    <2>2. CASE at[c] = "body"
      <3>1. 0 < End(c) /\ End(c) <= MaxHeader /\ End(c) <= got[c] /\ HeadError(m) = 0
        BY <1>2, <2>2 DEF Progress
      <3>2. Missing(c) = Declared(m) - (got[c] - End(c)) BY DEF Missing, End, All
      <3>3. Len(All(c)) - End(c) < Declared(m) BY <1>1, <1>3, <1>4, <2>2, <3>2
      <3>4. ~(End(c) > MaxHeader) /\ End(c) # 0 BY <1>3, <3>1
      <3>5. RepliesTo(m) = {IF m.closes THEN 400 ELSE 408}
        BY <1>3, <3>1, <3>3, <3>4, RepliesToIs DEF All, End
      <3>6. got[c] # 0 BY <1>3, <3>1
      <3> QED BY <1>5, <3>5, <3>6
    <2> QED BY <1>1, <2>1, <2>2
  <1>7. at[c] \notin {"limits", "search"} /\ free' \in Nat BY <1>1 DEF TypeOK
  <1> QED BY <1>1, <1>2, <1>6, <1>7, ReplyKeeps

(* A request that was read whole.                                           *)
LEMMA ReadWhole ==
  ASSUME TypeOK, NEW c \in DOMAIN message, 0 < End(c), End(c) <= MaxHeader,
         HeadError(message[c]) = 0, Declared(message[c]) <= Len(All(c)) - End(c)
  PROVE  RepliesTo(message[c]) =
           IF ~IsAnalysis(message[c]) THEN DispatchReplies(message[c])
           ELSE IF LimitsOf(message[c]) = {} THEN {422, 429} ELSE {200, 429, 500}
  <1>1. /\ Len(All(c)) \in Nat /\ End(c) \in Nat /\ Declared(message[c]) \in Int
        /\ MaxHeader \in Nat
    BY WireIs, RequestAssumption
  <1>2. /\ ~(End(c) > MaxHeader) /\ End(c) # 0
        /\ ~(Len(All(c)) - End(c) < Declared(message[c]))
    BY <1>1
  <1> QED BY <1>1, <1>2, RepliesToIs DEF All, End

LEMMA DispatchKeeps ==
  ASSUME IInv, NEW c \in Conn, Dispatch(c)
  PROVE  IInv'
  <1> USE DEF IInv
  <1> DEFINE m == message[c]
  <1>1. at[c] = "body" /\ Missing(c) <= 0 /\ UNCHANGED <<message, got, free>> BY DEF Dispatch
  <1>2. c \in DOMAIN message BY <1>1, Occupied
  <1>3. 0 < End(c) /\ End(c) <= MaxHeader /\ End(c) <= got[c] /\ HeadError(m) = 0
        /\ got[c] <= Len(All(c))
    BY <1>1, <1>2 DEF Progress
  <1>4. Declared(m) <= Len(All(c)) - End(c)
    <2>1. Missing(c) = Declared(m) - (got[c] - End(c)) BY DEF Missing, End, All
    <2>2. Len(All(c)) \in Nat /\ End(c) \in Nat /\ got[c] \in Nat /\ Declared(m) \in Int
      BY <1>2, WireIs DEF TypeOK
    <2> QED BY <1>1, <1>3, <2>1, <2>2
  <1>5. CASE IsAnalysis(m)
    <2>1. Goes(c, "slot") /\ "slot" \in Places BY <1>5 DEF Dispatch, Places
    <2>2. Moves(c, "slot") /\ at'[c] = "slot" /\ reply' = reply /\ reply' = [d \in Conn |-> reply'[d]]
      BY <2>1, GoesMoves
    <2>3. All(c)' = All(c) /\ End(c)' = End(c) BY <1>1 DEF All, End
    <2>4. Progress(c)' BY <1>1, <1>3, <1>4, <1>5, <2>2, <2>3 DEF Progress
    <2>5. SlotsAreHeld' BY <1>1, <2>1, <2>2, SlotsMove
    <2> QED BY <1>1, <1>2, <2>1, <2>2, <2>4, <2>5, MoveKeeps DEF TypeOK
  <1>6. CASE ~IsAnalysis(m)
    <2>1. PICK status \in DispatchReplies(m) : Replies(c, status) BY <1>6 DEF Dispatch
    <2>2. status \in RepliesTo(m) BY <1>2, <1>3, <1>4, <1>6, ReadWhole
    <2>3. at[c] \notin {"limits", "search"} /\ free' \in Nat BY <1>1 DEF TypeOK
    <2> QED BY <1>1, <1>2, <2>1, <2>2, <2>3, ReplyKeeps
  <1> QED BY <1>5, <1>6

-----------------------------------------------------------------------------
LEMMA AnalysisReplies ==
  ASSUME IInv, NEW c \in DOMAIN message, at[c] \in {"slot", "limits", "search"}
  PROVE  /\ 429 \in RepliesTo(message[c])
         /\ LimitsOf(message[c]) = {} => 422 \in RepliesTo(message[c])
         /\ LimitsOf(message[c]) # {} => {200, 500} \subseteq RepliesTo(message[c])
  <1> USE DEF IInv
  <1>1. /\ 0 < End(c) /\ End(c) <= MaxHeader /\ HeadError(message[c]) = 0
        /\ Declared(message[c]) <= Len(All(c)) - End(c) /\ IsAnalysis(message[c])
    BY DEF Progress
  <1>2. RepliesTo(message[c]) = IF LimitsOf(message[c]) = {} THEN {422, 429} ELSE {200, 429, 500}
    BY <1>1, ReadWhole
  <1> QED BY <1>2

LEMMA AnalysisGoesOn ==
  ASSUME IInv, NEW c \in DOMAIN message, NEW place \in {"limits", "search"},
         at[c] \in {"slot", "limits"}, Goes(c, place), UNCHANGED <<message, got>>, free' \in Nat,
         IF at[c] = "slot" THEN free' = free - 1 ELSE free' = free,
         place = "search" => LimitsOf(message[c]) # {}
  PROVE  IInv'
  <1> USE DEF IInv
  <1>1. c \in Conn /\ place \in Places BY WireIs DEF Places
  <1>2. Moves(c, place) /\ at'[c] = place /\ reply' = reply /\ reply' = [d \in Conn |-> reply'[d]]
    BY <1>1, GoesMoves
  <1>3. All(c)' = All(c) /\ End(c)' = End(c) BY DEF All, End
  <1>4. Progress(c)' BY <1>2, <1>3 DEF Progress
  <1>5. SlotsAreHeld' BY <1>1, <1>2, SlotsMove
  <1> QED BY <1>1, <1>2, <1>4, <1>5, MoveKeeps DEF TypeOK

LEMMA TakeSlotKeeps ==
  ASSUME IInv, NEW c \in Conn, TakeSlot(c)
  PROVE  IInv'
  <1> USE DEF IInv
  <1>1. at[c] = "slot" /\ UNCHANGED <<message, got>> /\ free \in Nat BY DEF TakeSlot, TypeOK
  <1>2. c \in DOMAIN message BY <1>1, Occupied
  <1>3. CASE free > 0
    <2>1. free' = free - 1 /\ free' \in Nat /\ Goes(c, "limits") BY <1>1, <1>3 DEF TakeSlot
    <2> QED BY <1>1, <1>2, <2>1, AnalysisGoesOn
  <1>4. CASE ~(free > 0)
    <2>1. Replies(c, 429) /\ free' = free BY <1>4 DEF TakeSlot
    <2>2. 429 \in RepliesTo(message[c]) BY <1>1, <1>2, AnalysisReplies
    <2> QED BY <1>1, <1>2, <2>1, <2>2, ReplyKeeps
  <1> QED BY <1>3, <1>4

LEMMA ReadLimitsKeeps ==
  ASSUME IInv, NEW c \in Conn, ReadLimits(c)
  PROVE  IInv'
  <1> USE DEF IInv
  <1>1. at[c] = "limits" /\ UNCHANGED <<message, got>> /\ free \in Nat BY DEF ReadLimits, TypeOK
  <1>2. c \in DOMAIN message BY <1>1, Occupied
  <1>3. CASE LimitsOf(message[c]) = {}
    <2>1. Replies(c, 422) /\ free' = free + 1 /\ free' \in Nat
      BY <1>1, <1>3 DEF ReadLimits, LimitsFail
    <2>2. 422 \in RepliesTo(message[c]) BY <1>1, <1>2, <1>3, AnalysisReplies
    <2> QED BY <1>1, <1>2, <2>1, <2>2, ReplyKeeps
  <1>4. CASE LimitsOf(message[c]) # {}
    <2>1. Goes(c, "search") /\ free' = free BY <1>4 DEF ReadLimits
    <2> QED BY <1>1, <1>2, <1>4, <2>1, AnalysisGoesOn
  <1> QED BY <1>3, <1>4

LEMMA SearchEndsKeeps ==
  ASSUME IInv, NEW c \in Conn, SearchEnds(c)
  PROVE  IInv'
  <1> USE DEF IInv
  <1>1. /\ at[c] = "search" /\ UNCHANGED <<message, got>>
        /\ free \in Nat /\ free' = free + 1 /\ free' \in Nat
    BY DEF SearchEnds, TypeOK
  <1>2. c \in DOMAIN message BY <1>1, Occupied
  <1>3. PICK status \in {200, 500} : Replies(c, status) BY DEF SearchEnds
  <1>4. LimitsOf(message[c]) # {} BY <1>1, <1>2 DEF Progress
  <1>5. status \in RepliesTo(message[c]) BY <1>1, <1>2, <1>4, AnalysisReplies
  <1> QED BY <1>1, <1>2, <1>3, <1>5, ReplyKeeps

LEMMA StutterKeeps ==
  ASSUME IInv, UNCHANGED <<message, got, at, reply, free>>
  PROVE  IInv'
  <1> USE DEF IInv
  <1>1. TypeOK' BY DEF TypeOK
  <1>2. SlotsAreHeld' BY DEF SlotsAreHeld
  <1>3. \A c \in DOMAIN message : Progress(c)' BY DEF Progress, All, End
  <1> QED BY <1>1, <1>2, <1>3

LEMMA NextInv == IInv /\ [Next]_vars => IInv'
  <1> SUFFICES ASSUME IInv, [Next]_vars PROVE IInv' OBVIOUS
  <1>1. ASSUME NEW c \in Conn, ReadHead(c) PROVE IInv' BY <1>1, ReadHeadKeeps
  <1>2. ASSUME NEW c \in Conn, ReadBody(c) PROVE IInv' BY <1>2, ReadBodyKeeps
  <1>3. ASSUME NEW c \in Conn, InputEnds(c) PROVE IInv' BY <1>3, InputEndsKeeps
  <1>4. ASSUME NEW c \in Conn, Dispatch(c) PROVE IInv' BY <1>4, DispatchKeeps
  <1>5. ASSUME NEW c \in Conn, TakeSlot(c) PROVE IInv' BY <1>5, TakeSlotKeeps
  <1>6. ASSUME NEW c \in Conn, ReadLimits(c) PROVE IInv' BY <1>6, ReadLimitsKeeps
  <1>7. ASSUME NEW c \in Conn, SearchEnds(c) PROVE IInv' BY <1>7, SearchEndsKeeps
  <1>8. ASSUME NEW c \in Conn, ClientLeaves(c) PROVE IInv'
    BY <1>8, StutterKeeps DEF ClientLeaves
  <1>9. CASE Terminated \/ UNCHANGED vars BY <1>9, StutterKeeps DEF Terminated, vars
  <1> QED BY <1>1, <1>2, <1>3, <1>4, <1>5, <1>6, <1>7, <1>8, <1>9 DEF Next, Serves

-----------------------------------------------------------------------------
THEOREM Invariance == Spec => []IInv
  BY InitInv, NextInv, PTL DEF Spec

(* A slot is taken while a request is being analysed and at no other time   *)
(* (main.cpp:84-97, 508-531); so there are never more than AnalysisSlots.    *)
THEOREM SlotsHeld == Spec => []SlotsAreHeld
  BY Invariance, PTL DEF IInv

THEOREM AnalysesAreLimited == Spec => [](Cardinality(Holders) <= AnalysisSlots)
  <1>1. IInv => Cardinality(Holders) <= AnalysisSlots
    <2> SUFFICES ASSUME IInv PROVE Cardinality(Holders) <= AnalysisSlots OBVIOUS
    <2>1. free = AnalysisSlots - Cardinality(Holders) /\ free \in Nat
      BY DEF IInv, SlotsAreHeld, Holders, TypeOK
    <2>2. AnalysisSlots \in Nat BY RequestAssumption
    <2> QED BY <2>1, <2>2, HoldersFinite
  <1> QED BY <1>1, Invariance, PTL

(* The reply to a request is one to its bytes, however recv cuts them        *)
(* (http_server.cpp:664-687, 797-818).                                      *)
THEOREM RepliesAreRight == Spec => []ReplyIsToRequest
  <1>1. IInv => ReplyIsToRequest BY DEF IInv, Progress, ReplyIsToRequest
  <1> QED BY <1>1, Invariance, PTL
=============================================================================
