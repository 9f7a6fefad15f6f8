--------------------------- MODULE Session_proofs ---------------------------
(***************************************************************************)
(* Proofs about Session, for any pages, connections and times that fit     *)
(* together as PatienceAssumption says: the launcher does not stop the      *)
(* server while it overlooks an open page.                                  *)
(***************************************************************************)
EXTENDS Session, FiniteSetTheorems, TLAPS

PageState == [at : {"closed", "call", "wait", "held"}, left : Nat]
Holding   == [page : Page, left : 0..HoldFor, gone : BOOLEAN]

Gap == Retry + Latency

(* The time until the next request of a page arrives, at most.             *)
Left(p) == IF page[p].at = "wait" THEN page[p].left + Latency ELSE page[p].left

Between(p) == page[p].at \in {"call", "wait"}

TypeOK ==
  /\ page \in [Page -> PageState]
  /\ \A p \in Page : page[p].at = "wait" => page[p].left <= Retry
  /\ \A p \in Page : page[p].at = "call" => page[p].left <= Latency
  /\ handler \in [Slot -> Holding \union {Free}]
  /\ active \in Nat
  /\ alive \in BOOLEAN
  /\ launcher \in [at : {"sleep", "ask", "done"}, left : Nat]
  /\ launcher.at = "sleep" => launcher.left <= CheckEvery
  /\ launcher.at = "ask" => launcher.left <= AskFor
  /\ seen \in BOOLEAN
  /\ inactive \in Nat
  /\ startup \in Nat
  /\ opens \in 0..MaxOpens
  /\ lost \in 0..MaxLost
  /\ watched \in [Page -> Nat]

(* A connection that holds a session of a page that is still there.        *)
Serves(s, p) == handler[s] # Free /\ handler[s].page = p /\ ~handler[s].gone

(* A page is held in one connection, and only then is it held.             *)
HeldInv ==
  /\ \A p \in Page : page[p].at = "held" => \E s \in Slot : Serves(s, p)
  /\ \A p \in Page, s \in Slot : Serves(s, p) => page[p].at = "held"
  /\ \A p \in Page, s, t \in Slot : Serves(s, p) /\ Serves(t, p) => s = t

Used      == {s \in Slot : handler[s] # Free}
Abandoned == {s \in Slot : handler[s] # Free /\ handler[s].gone}
OpenPages == {p \in Page : Open(p)}

(* Sessions are counted; each comes from a page opened of its own.          *)
CountInv ==
  /\ active = Cardinality(Used)
  /\ IsFiniteSet(OpenPages)
  /\ Cardinality(OpenPages) + Cardinality(Abandoned) <= opens

(* While the server runs the launcher does, and its patience is not over.   *)
LauncherInv ==
  /\ alive => launcher.at # "done" /\ inactive < CloseAfter /\ startup < StartupChecks
  /\ \A p \in Page : ~Open(p) => watched[p] = 0

(* Checks without a session in a row, all of them since the page p was open. *)
Idle        == IF seen THEN inactive ELSE startup
Below(p, k) == watched[p] <= k \/ Idle <= k

(* What lost requests can add to them, and the time n of them take.         *)
Worth(l) == l * GapChecks
Span(n)  == n * CheckEvery

Ahead == IF launcher.at = "sleep" THEN launcher.left ELSE 0

(* Of these checks at most GapChecks belong to one gap between two sessions  *)
(* of p; every earlier gap has cost a lost request.                         *)
GapInv(p) ==
  \E n \in 0..GapChecks :
    /\ Below(p, Worth(lost) + n)
    /\ Span(n) <= Gap - Left(p) + Ahead

(* A session is seen before it ends, or its check is lost.                  *)
SeenInTime(s) ==
  IF launcher.at = "sleep" THEN launcher.left + AskFor < handler[s].left
                           ELSE launcher.left < handler[s].left

HoldInv(p, s) ==
  \/ Below(p, Worth(lost))
  \/ Below(p, Worth(lost + 1)) /\ SeenInTime(s)

PatienceInv ==
  alive => \A p \in Page : /\ Between(p) => GapInv(p)
                           /\ \A s \in Slot : Serves(s, p) => HoldInv(p, s)

IInv == TypeOK /\ HeldInv /\ CountInv /\ LauncherInv /\ PatienceInv

-----------------------------------------------------------------------------
(* Numbers.                                                                *)
LEMMA Numbers ==
  /\ HoldFor \in Nat \ {0} /\ Retry \in Nat \ {0} /\ CheckEvery \in Nat \ {0}
  /\ CloseAfter \in Nat \ {0} /\ StartupChecks \in Nat \ {0}
  /\ Latency \in Nat /\ AskFor \in Nat /\ MaxOpens \in Nat /\ MaxLost \in Nat
  /\ Gap \in Nat
  BY SessionAssumption DEF Gap

LEMMA GapFits ==
  /\ GapChecks \in Nat
  /\ Gap < Span(GapChecks)
  <1>1. \A a \in Nat, b \in Nat \ {0} : a \div b \in Nat /\ a < (a \div b + 1) * b OBVIOUS
  <1> QED BY <1>1, Numbers DEF GapChecks, Gap, Span

LEMMA SpanGrows ==
  ASSUME NEW n \in Nat
  PROVE  Span(n) \in Nat /\ Span(n + 1) = Span(n) + CheckEvery /\ Span(0) = 0
  <1>1. \A c \in Nat : n * c \in Nat /\ (n + 1) * c = n * c + c /\ 0 * c = 0 OBVIOUS
  <1> QED BY <1>1, Numbers DEF Span

LEMMA SpanOrder ==
  ASSUME NEW m \in Nat, NEW n \in Nat, Span(m) < Span(n)
  PROVE  m < n
  <1>1. \A a, b, c \in Nat : a >= b => a * c >= b * c OBVIOUS
  <1> QED BY <1>1, Numbers, SpanGrows DEF Span

(* Checks that fit into a gap, and one more.                                *)
LEMMA ChecksOfGap ==
  ASSUME NEW n \in Nat
  PROVE  /\ Span(n) <= Gap => n + 1 <= GapChecks
         /\ Span(n) <= Gap + CheckEvery => n <= GapChecks
  <1>1. /\ Span(n) \in Nat /\ Span(GapChecks) \in Nat
        /\ Span(GapChecks + 1) = Span(GapChecks) + CheckEvery
    BY GapFits, SpanGrows
  <1>2. Span(n) <= Gap => n < GapChecks BY <1>1, GapFits, SpanOrder, Numbers
  <1>3. Span(n) <= Gap + CheckEvery => n < GapChecks + 1
    BY <1>1, GapFits, SpanOrder, Numbers
  <1> QED BY <1>2, <1>3, GapFits

LEMMA WorthGrows ==
  ASSUME NEW l \in Nat
  PROVE  Worth(l) \in Nat /\ Worth(l + 1) = Worth(l) + GapChecks
  <1>1. \A c \in Nat : l * c \in Nat /\ (l + 1) * c = l * c + c OBVIOUS
  <1> QED BY <1>1, GapFits DEF Worth

(* However many requests are lost, the launcher is still patient.           *)
LEMMA WorthLimit ==
  ASSUME NEW l \in 0..MaxLost
  PROVE  Worth(l + 1) < CloseAfter
  <1>1. \A a, b, c \in Nat : a <= b => a * c <= b * c OBVIOUS
  <1>2. (l + 1) * GapChecks <= (MaxLost + 1) * GapChecks BY <1>1, GapFits, Numbers
  <1>3. (l + 1) * GapChecks \in Nat /\ (MaxLost + 1) * GapChecks \in Nat
    BY GapFits, WorthGrows, Numbers DEF Worth
  <1> QED BY <1>2, <1>3, PatienceAssumption, Numbers DEF Worth

-----------------------------------------------------------------------------
(* Counting sessions.                                                      *)
LEMMA UsedIsFinite == IsFiniteSet(Used) /\ IsFiniteSet(Abandoned)
  BY SessionAssumption, FS_Subset DEF Used, Abandoned

LEMMA NoSession ==
  ASSUME CountInv, NEW s \in Slot, handler[s] # Free
  PROVE  active # 0
  BY UsedIsFinite, FS_EmptySet DEF CountInv, Used

LEMMA RoomLeft ==
  ASSUME TypeOK, HeldInv, CountInv
  PROVE  Room
  <1> DEFINE Present == Used \ Abandoned
             f == [s \in Present |-> handler[s].page]
  <1>1. f \in Injection(Present, OpenPages)
    <2>1. ASSUME NEW s \in Present PROVE s \in Slot /\ handler[s].page \in Page /\ Serves(s, handler[s].page)
      BY DEF Used, Abandoned, Serves, TypeOK, Holding
    <2>2. ASSUME NEW s \in Present PROVE handler[s].page \in OpenPages
      BY <2>1 DEF HeldInv, OpenPages, Open
    <2>3. ASSUME NEW s \in Present, NEW t \in Present, f[s] = f[t] PROVE s = t
      BY <2>1, <2>3 DEF HeldInv
    <2>4. f \in [Present -> OpenPages] BY <2>2
    <2> HIDE DEF f
    <2> QED BY <2>3, <2>4, Zenon DEF Injection, IsInjective
  <1> HIDE DEF f
  <1>2. IsFiniteSet(Present) /\ Cardinality(Present) <= Cardinality(OpenPages)
    BY <1>1, FS_Injection DEF CountInv
  <1>3. Used = Present \union Abandoned /\ Present \intersect Abandoned = {} BY DEF Used, Abandoned
  <1> HIDE DEF Present
  <1>4. Cardinality(Used) = Cardinality(Present) + Cardinality(Abandoned) - Cardinality({})
    BY <1>2, <1>3, UsedIsFinite, FS_Union
  <1>5. /\ Cardinality(Present) \in Nat /\ Cardinality(Abandoned) \in Nat
        /\ Cardinality(OpenPages) \in Nat /\ Cardinality(Slot) \in Nat
    BY <1>2, UsedIsFinite, SessionAssumption, FS_CardinalityType DEF CountInv
  <1>6. Cardinality(Used) < Cardinality(Slot)
    BY <1>2, <1>4, <1>5, FS_EmptySet, PatienceAssumption, Numbers DEF CountInv, TypeOK
  <1>7. Used # Slot BY <1>5, <1>6
  <1> QED BY <1>7 DEF Used, Room

LEMMA CountsStay ==
  ASSUME CountInv, Used' = Used, Abandoned' = Abandoned, OpenPages' = OpenPages,
         active' = active, opens' = opens
  PROVE  CountInv'
  BY DEF CountInv

-----------------------------------------------------------------------------
(* Patience.                                                               *)
LEMMA BelowGrows ==
  ASSUME TypeOK, NEW p \in Page, NEW j \in Nat, NEW k \in Nat, j <= k, Below(p, j)
  PROVE  Below(p, k)
  BY DEF Below, Idle, TypeOK

(* Whatever state a page is in, a request lost now pays for its checks.     *)
LEMMA LossPays ==
  ASSUME TypeOK, NEW p \in Page
  PROVE  /\ Between(p) /\ GapInv(p) => Below(p, Worth(lost + 1))
         /\ \A s \in Slot : HoldInv(p, s) => Below(p, Worth(lost + 1))
  <1>1. /\ Worth(lost) \in Nat /\ Worth(lost + 1) \in Nat
        /\ Worth(lost + 1) = Worth(lost) + GapChecks /\ GapChecks \in Nat
    BY WorthGrows, GapFits DEF TypeOK
  <1>2. ASSUME GapInv(p) PROVE Below(p, Worth(lost + 1))
    <2>1. PICK n \in 0..GapChecks : Below(p, Worth(lost) + n) BY <1>2 DEF GapInv
    <2> QED BY <1>1, <2>1, BelowGrows
  <1>3. ASSUME NEW s \in Slot, HoldInv(p, s) PROVE Below(p, Worth(lost + 1))
    BY <1>1, <1>3, BelowGrows DEF HoldInv
  <1> QED BY <1>2, <1>3

LEMMA GapBegins ==
  ASSUME NEW p, Below(p, Worth(lost))', lost' \in Nat, Left(p)' <= Gap + Ahead',
         Left(p)' \in Int, Ahead' \in Int
  PROVE  GapInv(p)'
  <1>1. /\ Span(0) = 0 /\ 0 \in 0..GapChecks /\ Worth(lost') + 0 = Worth(lost')
    BY SpanGrows, GapFits, WorthGrows
  <1> QED BY <1>1, Numbers DEF GapInv, Worth

(* The time that is left to a page, and to the launcher.                    *)
LEMMA Times ==
  ASSUME TypeOK, NEW p \in Page
  PROVE  /\ Left(p) \in Nat /\ Ahead \in Nat /\ Ahead <= CheckEvery
         /\ Between(p) => Left(p) <= Gap
  BY Numbers DEF TypeOK, PageState, Left, Ahead, Between, Gap

LEMMA GapStays ==
  ASSUME NEW p \in Page, GapInv(p), page'[p] = page[p], watched'[p] = watched[p],
         Idle' = Idle, lost' = lost, Ahead' = Ahead
  PROVE  GapInv(p)'
  BY DEF GapInv, Below, Left

LEMMA HoldStays ==
  ASSUME NEW p \in Page, NEW s \in Slot, HoldInv(p, s), handler'[s] = handler[s],
         watched'[p] = watched[p], Idle' = Idle, lost' = lost, launcher' = launcher
  PROVE  HoldInv(p, s)'
  BY DEF HoldInv, Below, SeenInTime

-----------------------------------------------------------------------------
LEMMA InitInv == Init => IInv
  <1> SUFFICES ASSUME Init PROVE IInv OBVIOUS
  <1>1. TypeOK
    <2>1. [at |-> "closed", left |-> 0] \in PageState BY DEF PageState
    <2>2. page \in [Page -> PageState] /\ \A p \in Page : page[p].at = "closed"
      BY <2>1 DEF Init
    <2>3. launcher \in [at : {"sleep", "ask", "done"}, left : Nat] /\ launcher.left = 0
          /\ launcher.at = "sleep"
      BY DEF Init
    <2>4. handler \in [Slot -> Holding \union {Free}] /\ watched \in [Page -> Nat] BY DEF Init
    <2>5. 0 \in 0..MaxOpens /\ 0 \in 0..MaxLost BY Numbers
    <2>6. alive \in BOOLEAN /\ seen \in BOOLEAN BY Zenon DEF Init
    <2>7. active = 0 /\ inactive = 0 /\ startup = 0 /\ opens = 0 /\ lost = 0 BY DEF Init
    <2>8. launcher.left <= CheckEvery /\ launcher.at # "ask" BY <2>3, Numbers
    <2>9. \A p \in Page : page[p].at \notin {"wait", "call"} BY <2>2
    <2> QED BY <2>2, <2>3, <2>4, <2>5, <2>6, <2>7, <2>8, <2>9 DEF TypeOK
  <1>2. HeldInv BY DEF Init, HeldInv, Serves
  <1>3. Used = {} /\ Abandoned = {} /\ OpenPages = {}
    BY DEF Init, Used, Abandoned, OpenPages, Open
  <1>4. CountInv BY <1>3, FS_EmptySet DEF Init, CountInv
  <1>5. LauncherInv BY Numbers DEF Init, LauncherInv
  <1>6. PatienceInv BY DEF Init, PatienceInv, Between, Serves
  <1> QED BY <1>1, <1>2, <1>4, <1>5, <1>6 DEF IInv

-----------------------------------------------------------------------------
(* A page is opened, or sends its request again after the pause.            *)
LEMMA OpenPageKeeps ==
  ASSUME IInv, NEW p \in Page, OpenPage(p)
  PROVE  IInv'
  <1> USE DEF IInv
  <1>1. PICK next \in Calling : page' = [page EXCEPT ![p] = next] BY DEF OpenPage
  <1>2. next.at = "call" /\ next.left \in Nat /\ next.left <= Latency /\ next \in PageState
    BY <1>1, Numbers DEF Calling, PageState
  <1>3. page[p].at = "closed" BY DEF OpenPage, Open
  <1>4. TypeOK'
    <2>1. page' \in [Page -> PageState] BY <1>1, <1>2 DEF TypeOK
    <2>2. opens' \in 0..MaxOpens BY Numbers DEF OpenPage, TypeOK
    <2>3. UNCHANGED <<handler, active, alive, launcher, seen, inactive, startup, lost, watched>>
      BY DEF OpenPage, serverVars, launcherVars
    <2> QED BY <1>1, <1>2, <2>1, <2>2, <2>3 DEF TypeOK
  <1>5. HeldInv'
    BY <1>1, <1>2, <1>3 DEF HeldInv, Serves, OpenPage, serverVars, TypeOK
  <1>6. CountInv'
    <2>1. OpenPages' = OpenPages \union {p} /\ p \notin OpenPages
      BY <1>1, <1>2, <1>3 DEF OpenPages, Open, TypeOK
    <2>2. Cardinality(OpenPages') = Cardinality(OpenPages) + 1 /\ IsFiniteSet(OpenPages')
      BY <2>1, FS_AddElement DEF CountInv
    <2>3. Used' = Used /\ Abandoned' = Abandoned /\ active' = active /\ opens' = opens + 1
      BY DEF OpenPage, serverVars, Used, Abandoned
    <2>4. /\ Cardinality(OpenPages) \in Nat /\ Cardinality(Abandoned) \in Nat /\ opens \in Nat
      BY UsedIsFinite, FS_CardinalityType DEF CountInv, TypeOK
    <2> QED BY <2>2, <2>3, <2>4 DEF CountInv
  <1>7. LauncherInv'
    BY <1>1, <1>2 DEF LauncherInv, OpenPage, serverVars, launcherVars, Open, TypeOK
  <1>8. PatienceInv'
    <2> SUFFICES ASSUME alive', NEW q \in Page
                 PROVE  /\ Between(q)' => GapInv(q)'
                        /\ \A s \in Slot : Serves(s, q)' => HoldInv(q, s)'
      BY DEF PatienceInv
    <2> USE DEF OpenPage, serverVars, launcherVars
    <2>1. Idle' = Idle /\ Ahead' = Ahead BY DEF Idle, Ahead
    <2>2. ASSUME Between(q)', q # p PROVE GapInv(q)'
      <3>1. page'[q] = page[q] BY <1>1, <2>2 DEF TypeOK
      <3>2. GapInv(q) BY <3>1, <2>2 DEF PatienceInv, Between
      <3> QED BY <2>1, <3>1, <3>2, GapStays
    <2>3. ASSUME q = p PROVE GapInv(q)'
      <3>1. page'[q] = next BY <1>1, <2>3 DEF TypeOK
      <3>2. watched'[q] = 0 BY <1>3, <2>3 DEF LauncherInv, Open
      <3>3. Worth(lost)' \in Nat /\ lost' \in Nat BY WorthGrows DEF TypeOK
      <3>4. Left(q)' \in Nat /\ Left(q)' <= Gap BY <1>2, <3>1, Numbers DEF Left, Gap
      <3>5. Ahead' \in Nat BY <2>1, <1>4, Times
      <3>6. Below(q, Worth(lost))' BY <3>2, <3>3 DEF Below
      <3> QED BY <3>3, <3>4, <3>5, <3>6, GapBegins, Numbers
    <2>4. ASSUME NEW s \in Slot, Serves(s, q)' PROVE HoldInv(q, s)'
      <3>1. Serves(s, q) BY <2>4 DEF Serves
      <3>2. HoldInv(q, s) BY <3>1 DEF PatienceInv
      <3> QED BY <2>1, <3>2, HoldStays
    <2> QED BY <2>2, <2>3, <2>4
  <1> QED BY <1>4, <1>5, <1>6, <1>7, <1>8

(* A page is closed, and its connection with it.                            *)
LEMMA ClosePageKeeps ==
  ASSUME IInv, NEW p \in Page, ClosePage(p)
  PROVE  IInv'
  <1> USE DEF IInv
  <1>1. /\ page' = [page EXCEPT ![p] = [at |-> "closed", left |-> 0]]
        /\ watched' = [watched EXCEPT ![p] = 0]
        /\ UNCHANGED <<active, alive, launcher, seen, inactive, startup, opens, lost>>
    BY DEF ClosePage, launcherVars
  <1>2. /\ page'[p].at = "closed" /\ \A q \in Page : q # p => page'[q] = page[q]
        /\ watched'[p] = 0 /\ \A q \in Page : q # p => watched'[q] = watched[q]
    BY <1>1 DEF TypeOK
  <1>3. \A s \in Slot : handler'[s] = IF handler[s] # Free /\ handler[s].page = p
                                      THEN [handler[s] EXCEPT !.gone = TRUE]
                                      ELSE handler[s]
    BY DEF ClosePage
  <1>4. \A s \in Slot : handler[s] # Free => handler[s] \in Holding BY DEF TypeOK
  <1>5. \A s \in Slot : /\ handler[s] # Free =>
                             /\ handler'[s] \in Holding /\ handler'[s].page = handler[s].page
                             /\ handler'[s].gone <=> handler[s].gone \/ handler[s].page = p
                        /\ handler[s] = Free => handler'[s] = Free
    BY <1>3, <1>4 DEF Holding
  <1>6. \A h \in Holding : h # Free BY SessionAssumption DEF Holding
  <1>7. \A s \in Slot, q \in Page : Serves(s, q)' <=> Serves(s, q) /\ q # p
    BY <1>5, <1>6 DEF Serves
  <1>8. TypeOK'
    <2>1. page' \in [Page -> PageState] BY <1>1 DEF TypeOK, PageState
    <2>2. handler' \in [Slot -> Holding \union {Free}] BY <1>5 DEF ClosePage
    <2>3. watched' \in [Page -> Nat] BY <1>1 DEF TypeOK
    <2> QED BY <1>1, <1>2, <2>1, <2>2, <2>3 DEF TypeOK
  <1>9. HeldInv' BY <1>2, <1>7 DEF HeldInv
  <1>10. CountInv'
    <2>1. OpenPages' = OpenPages \ {p} /\ p \in OpenPages
      BY <1>2 DEF OpenPages, Open, ClosePage
    <2>2. Cardinality(OpenPages') = Cardinality(OpenPages) - 1 /\ IsFiniteSet(OpenPages')
      BY <2>1, FS_RemoveElement DEF CountInv
    <2>3. Used' = Used BY <1>5, <1>6 DEF Used
    <2>4. /\ IsFiniteSet(Abandoned) /\ Cardinality(Abandoned) \in Nat
          /\ Cardinality(OpenPages) \in Nat /\ opens \in Nat
      BY UsedIsFinite, FS_CardinalityType DEF CountInv, TypeOK
    <2>5. Cardinality(Abandoned') <= Cardinality(Abandoned) + 1
      <3>1. CASE \E s \in Slot : Serves(s, p)
        <4>1. PICK s \in Slot : Serves(s, p) BY <3>1
        <4>2. \A u \in Slot : Serves(u, p) => u = s BY <4>1 DEF HeldInv
        <4>3. Abandoned' = Abandoned \union {s}
          BY <1>5, <1>6, <4>1, <4>2 DEF Abandoned, Serves
        <4>4. Cardinality(Abandoned \union {s}) =
                IF s \in Abandoned THEN Cardinality(Abandoned) ELSE Cardinality(Abandoned) + 1
          BY <2>4, FS_AddElement
        <4>5. Cardinality(Abandoned \union {s}) <= Cardinality(Abandoned) + 1 BY <2>4, <4>4
        <4> QED BY <4>3, <4>5
      <3>2. CASE ~ \E s \in Slot : Serves(s, p)
        <4>1. Abandoned' = Abandoned BY <1>5, <1>6, <3>2 DEF Abandoned, Serves
        <4> QED BY <2>4, <4>1
      <3> QED BY <3>1, <3>2
    <2>6. Cardinality(Abandoned') \in Nat
      <3>1. IsFiniteSet(Abandoned') BY SessionAssumption, FS_Subset DEF Abandoned
      <3> QED BY <3>1, FS_CardinalityType
    <2>7. active' = Cardinality(Used') /\ opens' = opens BY <1>1, <2>3 DEF CountInv
    <2> QED BY <2>2, <2>4, <2>5, <2>6, <2>7 DEF CountInv
  <1>11. LauncherInv' BY <1>1, <1>2 DEF LauncherInv, Open
  <1>12. PatienceInv'
    <2> SUFFICES ASSUME alive', NEW q \in Page
                 PROVE  /\ Between(q)' => GapInv(q)'
                        /\ \A s \in Slot : Serves(s, q)' => HoldInv(q, s)'
      BY DEF PatienceInv
    <2>1. Idle' = Idle /\ Ahead' = Ahead BY <1>1 DEF Idle, Ahead
    <2>2. ASSUME Between(q)' PROVE GapInv(q)'
      <3>1. q # p BY <1>2, <2>2 DEF Between
      <3>2. page'[q] = page[q] /\ watched'[q] = watched[q] BY <1>2, <3>1
      <3>3. GapInv(q) BY <1>1, <3>2, <2>2 DEF PatienceInv, Between
      <3> QED BY <1>1, <2>1, <3>2, <3>3, GapStays
    <2>3. ASSUME NEW s \in Slot, Serves(s, q)' PROVE HoldInv(q, s)'
      <3>1. Serves(s, q) /\ q # p BY <1>7, <2>3
      <3>2. HoldInv(q, s) BY <1>1, <3>1 DEF PatienceInv
      <3>3. handler'[s] = handler[s] BY <1>3, <3>1 DEF Serves
      <3> QED BY <1>1, <1>2, <2>1, <3>1, <3>2, <3>3, HoldStays
    <2> QED BY <2>2, <2>3
  <1> QED BY <1>8, <1>9, <1>10, <1>11, <1>12

(* A request arrives: the gap of the page ends, and the launcher will look   *)
(* before the session is over.                                              *)
LEMMA HoldKeeps ==
  ASSUME IInv, NEW p \in Page, Hold(p)
  PROVE  IInv'
  <1> USE DEF IInv
  <1> DEFINE session == [page |-> p, left |-> HoldFor, gone |-> FALSE]
  <1>1. /\ page[p].at = "call" /\ alive /\ active' = active + 1
        /\ page' = [page EXCEPT ![p] = [at |-> "held", left |-> 0]]
        /\ UNCHANGED <<alive, launcher, seen, inactive, startup, opens, lost, watched>>
    BY DEF Hold, launcherVars
  <1>2. PICK s \in Slot : handler[s] = Free /\ handler' = [handler EXCEPT ![s] = session]
    BY DEF Hold
  <1>3. session \in Holding /\ session # Free
    <2>1. HoldFor \in 0..HoldFor BY Numbers
    <2>2. session \in Holding BY <2>1 DEF Holding
    <2> QED BY <2>2, SessionAssumption DEF Holding
  <1>4. /\ page'[p] = [at |-> "held", left |-> 0] /\ \A q \in Page : q # p => page'[q] = page[q]
        /\ handler'[s] = session /\ \A u \in Slot : u # s => handler'[u] = handler[u]
    BY <1>1, <1>2 DEF TypeOK
  <1>5. \A u \in Slot : ~Serves(u, p) BY <1>1 DEF HeldInv
  <1>6. \A u \in Slot, q \in Page : Serves(u, q)' <=> (u = s /\ q = p) \/ (u # s /\ q # p /\ Serves(u, q))
    BY <1>2, <1>3, <1>4, <1>5 DEF Serves
  <1> HIDE DEF session
  <1>7. TypeOK'
    <2>1. page' \in [Page -> PageState] BY <1>1 DEF TypeOK, PageState
    <2>2. handler' \in [Slot -> Holding \union {Free}] BY <1>2, <1>3 DEF TypeOK
    <2>3. active' \in Nat BY <1>1 DEF TypeOK
    <2> QED BY <1>1, <1>4, <2>1, <2>2, <2>3 DEF TypeOK
  <1>8. HeldInv'
    <2>1. ASSUME NEW q \in Page, page'[q].at = "held" PROVE \E u \in Slot : Serves(u, q)'
      <3>1. CASE q = p BY <3>1, <1>6
      <3>2. CASE q # p
        <4>1. PICK u \in Slot : Serves(u, q) BY <2>1, <1>4, <3>2 DEF HeldInv
        <4>2. u # s BY <1>2, <4>1 DEF Serves
        <4> QED BY <1>6, <3>2, <4>1, <4>2
      <3> QED BY <3>1, <3>2
    <2>2. ASSUME NEW q \in Page, NEW u \in Slot, Serves(u, q)' PROVE page'[q].at = "held"
      BY <1>4, <1>6, <2>2 DEF HeldInv
    <2>3. ASSUME NEW q \in Page, NEW u \in Slot, NEW v \in Slot, Serves(u, q)', Serves(v, q)'
          PROVE  u = v
      BY <1>6, <2>3 DEF HeldInv
    <2> QED BY <2>1, <2>2, <2>3 DEF HeldInv
  <1>9. CountInv'
    <2>1. OpenPages' = OpenPages BY <1>1, <1>4 DEF OpenPages, Open
    <2>2. Used' = Used \union {s} /\ s \notin Used BY <1>2, <1>3, <1>4 DEF Used
    <2>3. Abandoned' = Abandoned BY <1>2, <1>3, <1>4 DEF Abandoned, session
    <2>4. Cardinality(Used') = Cardinality(Used) + 1 BY <2>2, UsedIsFinite, FS_AddElement
    <2> QED BY <1>1, <2>1, <2>3, <2>4 DEF CountInv
  <1>10. LauncherInv' BY <1>1, <1>4 DEF LauncherInv, Open
  <1>11. PatienceInv'
    <2> SUFFICES ASSUME alive', NEW q \in Page
                 PROVE  /\ Between(q)' => GapInv(q)'
                        /\ \A u \in Slot : Serves(u, q)' => HoldInv(q, u)'
      BY DEF PatienceInv
    <2>1. Idle' = Idle /\ Ahead' = Ahead BY <1>1 DEF Idle, Ahead
    <2>2. ASSUME Between(q)' PROVE GapInv(q)'
      <3>1. q # p BY <1>4, <2>2 DEF Between
      <3>2. page'[q] = page[q] /\ watched'[q] = watched[q] BY <1>1, <1>4, <3>1
      <3>3. GapInv(q) BY <1>1, <3>2, <2>2 DEF PatienceInv, Between
      <3> QED BY <1>1, <2>1, <3>2, <3>3, GapStays
    <2>3. ASSUME NEW u \in Slot, u # s, q # p, Serves(u, q) PROVE HoldInv(q, u)'
      <3>1. HoldInv(q, u) BY <1>1, <2>3 DEF PatienceInv
      <3> QED BY <1>1, <1>4, <2>1, <2>3, <3>1, HoldStays
    <2>4. HoldInv(p, s)'
      <3>1. GapInv(p) /\ Between(p) BY <1>1 DEF PatienceInv, Between
      <3>2. Below(p, Worth(lost + 1)) BY <3>1, LossPays
      <3>3. Below(p, Worth(lost + 1))' BY <1>1, <2>1, <3>2 DEF Below
      <3>4. SeenInTime(s)'
        <4>1. launcher' = launcher /\ launcher.at \in {"sleep", "ask"} /\ handler'[s].left = HoldFor
          BY <1>1, <1>4 DEF LauncherInv, TypeOK, session
        <4> QED BY <4>1, PatienceAssumption, Numbers DEF SeenInTime, TypeOK
      <3> QED BY <3>3, <3>4 DEF HoldInv
    <2> QED BY <1>6, <2>2, <2>3, <2>4
  <1> QED BY <1>7, <1>8, <1>9, <1>10, <1>11

-----------------------------------------------------------------------------
(* A lost request pays for all checks before it, of every page.             *)
LEMMA LossSettles ==
  ASSUME IInv, alive, NEW q \in Page, page'[q] = page[q], watched'[q] = watched[q], Idle' = Idle,
         lost' = lost + 1, Ahead' \in Nat
  PROVE  /\ Between(q) => GapInv(q)'
         /\ \A s \in Slot : Serves(s, q) => HoldInv(q, s)'
  <1> USE DEF IInv
  <1>1. Worth(lost + 1) = Worth(lost)' BY DEF Worth
  <1>2. ASSUME Between(q) PROVE GapInv(q)'
    <2>1. Below(q, Worth(lost + 1)) BY <1>2, LossPays DEF PatienceInv
    <2>2. Below(q, Worth(lost))' BY <1>1, <2>1 DEF Below
    <2>3. Left(q)' = Left(q) BY DEF Left
    <2>4. Left(q) \in Nat /\ Left(q) <= Gap BY <1>2, Times
    <2>5. lost' \in Nat BY DEF TypeOK
    <2> QED BY <2>2, <2>3, <2>4, <2>5, GapBegins, Numbers
  <1>3. ASSUME NEW s \in Slot, Serves(s, q) PROVE HoldInv(q, s)'
    <2>1. Below(q, Worth(lost + 1)) BY <1>3, LossPays DEF PatienceInv
    <2> QED BY <1>1, <2>1 DEF Below, HoldInv
  <1> QED BY <1>2, <1>3

LEMMA CallFailsKeeps ==
  ASSUME IInv, NEW p \in Page, CallFails(p)
  PROVE  IInv'
  <1> USE DEF IInv
  <1>1. /\ page[p].at = "call" /\ page' = [page EXCEPT ![p] = Waiting]
        /\ UNCHANGED <<handler, active, alive, launcher, seen, inactive, startup, opens, watched>>
        /\ alive => Loses
        /\ Loses \/ lost' = lost
    BY RoomLeft DEF CallFails, serverVars, launcherVars
  <1>2. lost' \in 0..MaxLost /\ (alive => lost' = lost + 1)
    BY <1>1, Numbers DEF Loses, TypeOK
  <1>3. page'[p] = Waiting /\ \A q \in Page : q # p => page'[q] = page[q]
    BY <1>1 DEF TypeOK
  <1>4. TypeOK'
    <2>1. Waiting \in PageState BY Numbers DEF Waiting, PageState
    <2>2. page' \in [Page -> PageState] BY <1>1, <2>1 DEF TypeOK
    <2>3. Waiting.at = "wait" /\ Waiting.left <= Retry BY Numbers DEF Waiting
    <2> QED BY <1>1, <1>2, <1>3, <2>2, <2>3 DEF TypeOK
  <1>5. \A s \in Slot : ~Serves(s, p) BY <1>1 DEF HeldInv
  <1>6. \A s \in Slot, q \in Page : Serves(s, q)' <=> Serves(s, q) BY <1>1 DEF Serves
  <1>7. HeldInv' BY <1>3, <1>5, <1>6 DEF HeldInv, Waiting
  <1>8. CountInv'
    <2>1. OpenPages' = OpenPages BY <1>1, <1>3 DEF OpenPages, Open, Waiting
    <2> QED BY <1>1, <2>1, CountsStay DEF Used, Abandoned
  <1>9. LauncherInv' BY <1>1, <1>3 DEF LauncherInv, Open, Waiting
  <1>10. PatienceInv'
    <2> SUFFICES ASSUME alive', NEW q \in Page
                 PROVE  /\ Between(q)' => GapInv(q)'
                        /\ \A s \in Slot : Serves(s, q)' => HoldInv(q, s)'
      BY DEF PatienceInv
    <2>1. Idle' = Idle /\ Ahead' = Ahead /\ alive /\ Ahead \in Nat BY <1>1, Times DEF Idle, Ahead
    <2>2. CASE q # p
      <3>1. page'[q] = page[q] /\ watched'[q] = watched[q] BY <1>1, <1>3, <2>2
      <3> QED BY <1>2, <1>6, <2>1, <3>1, LossSettles DEF Between
    <2>3. CASE q = p
      <3>1. Below(p, Worth(lost + 1)) BY <1>1, <2>1, LossPays DEF PatienceInv, Between
      <3>2. Below(p, Worth(lost))' BY <1>1, <1>2, <2>1, <3>1 DEF Below, Worth
      <3>3. Left(p)' = Gap BY <1>3 DEF Left, Waiting, Gap
      <3>4. GapInv(p)' BY <1>2, <2>1, <3>2, <3>3, GapBegins, Numbers
      <3> QED BY <1>5, <1>6, <2>3, <3>4
    <2> QED BY <2>2, <2>3
  <1> QED BY <1>4, <1>7, <1>8, <1>9, <1>10

LEMMA CallAgainKeeps ==
  ASSUME IInv, NEW p \in Page, CallAgain(p)
  PROVE  IInv'
  <1> USE DEF IInv
  <1>1. /\ page[p].at = "wait" /\ page[p].left = 0
        /\ UNCHANGED <<handler, active, alive, launcher, seen, inactive, startup, opens, lost, watched>>
    BY DEF CallAgain, Due, serverVars, launcherVars
  <1>2. PICK next \in Calling : page' = [page EXCEPT ![p] = next] BY DEF CallAgain
  <1>3. next.at = "call" /\ next.left \in Nat /\ next.left <= Latency /\ next \in PageState
    BY <1>2, Numbers DEF Calling, PageState
  <1>4. page'[p] = next /\ \A q \in Page : q # p => page'[q] = page[q] BY <1>2 DEF TypeOK
  <1>5. TypeOK'
    <2>1. page' \in [Page -> PageState] BY <1>2, <1>3 DEF TypeOK
    <2> QED BY <1>1, <1>3, <1>4, <2>1 DEF TypeOK
  <1>6. \A s \in Slot, q \in Page : Serves(s, q)' <=> Serves(s, q) BY <1>1 DEF Serves
  <1>7. HeldInv' BY <1>1, <1>3, <1>4, <1>6 DEF HeldInv
  <1>8. CountInv'
    <2>1. OpenPages' = OpenPages BY <1>1, <1>3, <1>4 DEF OpenPages, Open
    <2> QED BY <1>1, <2>1, CountsStay DEF Used, Abandoned
  <1>9. LauncherInv' BY <1>1, <1>3, <1>4 DEF LauncherInv, Open
  <1>10. PatienceInv'
    <2> SUFFICES ASSUME alive', NEW q \in Page
                 PROVE  /\ Between(q)' => GapInv(q)'
                        /\ \A s \in Slot : Serves(s, q)' => HoldInv(q, s)'
      BY DEF PatienceInv
    <2>1. Idle' = Idle /\ Ahead' = Ahead BY <1>1 DEF Idle, Ahead
    <2>2. ASSUME Between(q)', q # p PROVE GapInv(q)'
      <3>1. page'[q] = page[q] /\ GapInv(q) BY <1>1, <1>4, <2>2 DEF PatienceInv, Between
      <3> QED BY <1>1, <2>1, <3>1, GapStays
    <2>3. GapInv(p)'
      <3>1. PICK n \in 0..GapChecks : Below(p, Worth(lost) + n) /\ Span(n) <= Gap - Left(p) + Ahead
        BY <1>1 DEF PatienceInv, Between, GapInv
      <3>2. Left(p)' <= Left(p) /\ Left(p)' \in Nat /\ Left(p) \in Nat
        BY <1>1, <1>3, <1>4, Numbers DEF Left
      <3>3. Span(n) \in Nat /\ Ahead \in Nat BY SpanGrows, GapFits, Times
      <3>4. Span(n) <= Gap - Left(p)' + Ahead BY <3>1, <3>2, <3>3, Numbers
      <3>5. Below(p, Worth(lost) + n)' BY <1>1, <2>1, <3>1 DEF Below
      <3> QED BY <1>1, <2>1, <3>4, <3>5 DEF GapInv
    <2>4. ASSUME NEW s \in Slot, Serves(s, q)' PROVE HoldInv(q, s)'
      <3>1. HoldInv(q, s) BY <1>1, <1>6, <2>4 DEF PatienceInv
      <3> QED BY <1>1, <2>1, <3>1, HoldStays
    <2> QED BY <2>2, <2>3, <2>4
  <1> QED BY <1>5, <1>7, <1>8, <1>9, <1>10

(* A session ends: in time the launcher has seen it, or its check was lost.  *)
LEMMA HoldEndsKeeps ==
  ASSUME IInv, NEW s \in Slot, HoldEnds(s)
  PROVE  IInv'
  <1> USE DEF IInv
  <1> DEFINE q == handler[s].page
  <1>1. /\ handler[s] # Free /\ handler[s] \in Holding /\ q \in Page
        /\ handler' = [handler EXCEPT ![s] = Free] /\ active' = active - 1
        /\ UNCHANGED <<alive, launcher, seen, inactive, startup, opens, lost, watched>>
    BY DEF HoldEnds, launcherVars, TypeOK, Holding
  <1>2. handler'[s] = Free /\ \A u \in Slot : u # s => handler'[u] = handler[u]
    BY <1>1 DEF TypeOK
  <1>3. \A u \in Slot, r \in Page : Serves(u, r)' <=> Serves(u, r) /\ u # s
    BY <1>2 DEF Serves
  <1>5. /\ page' \in [Page -> PageState]
        /\ \A r \in Page : \/ page'[r] = page[r] /\ ~Serves(s, r)
                           \/ r = q /\ Serves(s, r) /\ page'[r] = Waiting /\ handler[s].left = 0
    <2>1. CASE handler[s].gone
      <3>1. page' = page /\ \A r \in Page : ~Serves(s, r) BY <2>1 DEF HoldEnds, Serves
      <3> QED BY <3>1 DEF TypeOK
    <2>2. CASE ~handler[s].gone
      <3>1. page' = [page EXCEPT ![q] = Waiting] /\ handler[s].left = 0
        BY <2>2 DEF HoldEnds
      <3>2. Waiting \in PageState BY Numbers DEF Waiting, PageState
      <3>3. Serves(s, q) /\ \A r \in Page : Serves(s, r) => r = q BY <1>1, <2>2 DEF Serves
      <3> QED BY <1>1, <3>1, <3>2, <3>3 DEF TypeOK
    <2> QED BY <2>1, <2>2
  <1> HIDE DEF q
  <1>6. TypeOK'
    <2>1. handler' \in [Slot -> Holding \union {Free}] BY <1>1 DEF TypeOK
    <2>2. active' \in Nat
      <3>1. active # 0 BY <1>1, NoSession
      <3> QED BY <1>1, <3>1 DEF TypeOK
    <2>3. Waiting.at = "wait" /\ Waiting.left <= Retry BY Numbers DEF Waiting
    <2> QED BY <1>1, <1>5, <2>1, <2>2, <2>3 DEF TypeOK
  <1>7. HeldInv'
    <2>1. ASSUME NEW r \in Page, page'[r].at = "held" PROVE \E u \in Slot : Serves(u, r)'
      <3>1. page'[r] = page[r] /\ ~Serves(s, r) BY <1>5, <2>1 DEF Waiting
      <3> QED BY <1>3, <2>1, <3>1 DEF HeldInv
    <2>2. ASSUME NEW r \in Page, NEW u \in Slot, Serves(u, r)' PROVE page'[r].at = "held"
      <3>1. Serves(u, r) /\ u # s BY <1>3, <2>2
      <3>2. page[r].at = "held" /\ ~Serves(s, r) BY <3>1 DEF HeldInv
      <3> QED BY <1>5, <3>2
    <2>3. ASSUME NEW r \in Page, NEW u \in Slot, NEW v \in Slot, Serves(u, r)', Serves(v, r)'
          PROVE  u = v
      BY <1>3, <2>3 DEF HeldInv
    <2> QED BY <2>1, <2>2, <2>3 DEF HeldInv
  <1>8. CountInv'
    <2>1. \A r \in Page : Open(r)' <=> Open(r) BY <1>5 DEF Open, Waiting, HeldInv
    <2>2. OpenPages' = OpenPages BY <2>1 DEF OpenPages
    <2>3. Used' = Used \ {s} /\ s \in Used BY <1>1, <1>2 DEF Used
    <2>4. Cardinality(Used') = Cardinality(Used) - 1 BY <2>3, UsedIsFinite, FS_RemoveElement
    <2>5. Abandoned' \subseteq Abandoned BY <1>2 DEF Abandoned
    <2>6. /\ Cardinality(Abandoned') <= Cardinality(Abandoned)
          /\ Cardinality(Abandoned') \in Nat /\ Cardinality(Abandoned) \in Nat
      BY <2>5, UsedIsFinite, FS_Subset, FS_CardinalityType
    <2>7. Cardinality(OpenPages) \in Nat BY FS_CardinalityType DEF CountInv
    <2> QED BY <1>1, <2>2, <2>4, <2>6, <2>7 DEF CountInv, TypeOK
  <1>9. LauncherInv' BY <1>1, <1>5 DEF LauncherInv, Open, Waiting, HeldInv
  <1>10. PatienceInv'
    <2> SUFFICES ASSUME alive', NEW r \in Page
                 PROVE  /\ Between(r)' => GapInv(r)'
                        /\ \A u \in Slot : Serves(u, r)' => HoldInv(r, u)'
      BY DEF PatienceInv
    <2>1. Idle' = Idle /\ Ahead' = Ahead /\ alive /\ Ahead \in Nat BY <1>1, Times DEF Idle, Ahead
    <2>2. ASSUME Between(r)', page'[r] = page[r] PROVE GapInv(r)'
      <3>1. GapInv(r) BY <2>1, <2>2 DEF PatienceInv, Between
      <3> QED BY <1>1, <2>1, <2>2, <3>1, GapStays
    <2>3. ASSUME Serves(s, r), page'[r] = Waiting, handler[s].left = 0 PROVE GapInv(r)'
      <3>1. ~SeenInTime(s)
        <4>1. launcher.left \in Nat BY DEF TypeOK
        <4> QED BY <2>3, <4>1, Numbers DEF SeenInTime
      <3>2. Below(r, Worth(lost)) BY <2>1, <2>3, <3>1 DEF PatienceInv, HoldInv
      <3>3. Below(r, Worth(lost))' BY <1>1, <2>1, <3>2 DEF Below, Worth
      <3>4. Left(r)' = Gap BY <2>3 DEF Left, Waiting, Gap
      <3>5. lost' \in Nat BY <1>1 DEF TypeOK
      <3> QED BY <2>1, <3>3, <3>4, <3>5, GapBegins, Numbers
    <2>4. ASSUME NEW u \in Slot, Serves(u, r)' PROVE HoldInv(r, u)'
      <3>1. Serves(u, r) /\ u # s BY <1>3, <2>4
      <3>2. HoldInv(r, u) BY <2>1, <3>1 DEF PatienceInv
      <3> QED BY <1>1, <1>2, <2>1, <3>1, <3>2, HoldStays
    <2> QED BY <1>5, <2>2, <2>3, <2>4
  <1> QED BY <1>6, <1>7, <1>8, <1>9, <1>10

-----------------------------------------------------------------------------
(* The server ends: no connection is left, and nothing to be patient about.  *)
LEMMA ServerEndsKeeps ==
  ASSUME IInv, ServerEnds, UNCHANGED <<opens, lost>>,
         launcher' \in [at : {"sleep", "ask", "done"}, left : Nat],
         launcher'.at = "sleep" => launcher'.left <= CheckEvery,
         launcher'.at = "ask" => launcher'.left <= AskFor,
         seen' \in BOOLEAN, inactive' \in Nat, startup' \in Nat, watched' \in [Page -> Nat],
         \A p \in Page : ~Open(p) => watched'[p] = 0
  PROVE  IInv'
  <1> USE DEF IInv
  <1>1. ~alive' /\ alive' \in BOOLEAN BY Zenon DEF ServerEnds
  <1>2. /\ handler' = [s \in Slot |-> Free] /\ active' = 0
        /\ page' = [p \in Page |-> IF page[p].at = "held" THEN Waiting ELSE page[p]]
    BY DEF ServerEnds
  <1>3. Waiting \in PageState /\ Waiting.at = "wait" /\ Waiting.left <= Retry
    BY Numbers DEF Waiting, PageState
  <1>4. \A p \in Page : page'[p] = IF page[p].at = "held" THEN Waiting ELSE page[p] BY <1>2
  <1>5. TypeOK'
    <2>1. page' \in [Page -> PageState] BY <1>2, <1>3 DEF TypeOK
    <2>2. handler' \in [Slot -> Holding \union {Free}] BY <1>2
    <2> QED BY <1>1, <1>2, <1>3, <1>4, <2>1, <2>2 DEF TypeOK
  <1>6. HeldInv' BY <1>2, <1>3, <1>4 DEF HeldInv, Serves
  <1>7. CountInv'
    <2>1. \A p \in Page : Open(p)' <=> Open(p) BY <1>3, <1>4 DEF Open
    <2>2. OpenPages' = OpenPages BY <2>1 DEF OpenPages
    <2>3. Used' = {} /\ Abandoned' = {} BY <1>2 DEF Used, Abandoned
    <2>4. Cardinality(Abandoned) \in Nat /\ Cardinality(OpenPages) \in Nat
      BY UsedIsFinite, FS_CardinalityType DEF CountInv
    <2> QED BY <1>2, <2>2, <2>3, <2>4, FS_EmptySet DEF CountInv, TypeOK
  <1>8. LauncherInv' BY <1>1, <1>3, <1>4 DEF LauncherInv, Open
  <1>9. PatienceInv' BY <1>1 DEF PatienceInv
  <1> QED BY <1>5, <1>6, <1>7, <1>8, <1>9

LEMMA CrashKeeps == ASSUME IInv, Crash PROVE IInv'
  <1>1. ServerEnds /\ UNCHANGED <<launcher, seen, inactive, startup, opens, lost, watched>>
    BY DEF Crash, launcherVars
  <1>2. TypeOK /\ LauncherInv BY DEF IInv
  <1> QED BY <1>1, <1>2, ServerEndsKeeps DEF TypeOK, LauncherInv

-----------------------------------------------------------------------------
(* A step of the launcher leaves the sessions alone.                        *)
LEMMA SessionsStay ==
  ASSUME HeldInv, CountInv, UNCHANGED <<page, handler, active, opens>>
  PROVE  /\ HeldInv' /\ CountInv'
         /\ \A p \in Page : /\ Open(p)' <=> Open(p)
                            /\ Between(p)' <=> Between(p)
                            /\ Left(p)' = Left(p)
                            /\ \A s \in Slot : Serves(s, p)' <=> Serves(s, p)
  <1>1. \A p \in Page, s \in Slot : Serves(s, p)' <=> Serves(s, p) BY DEF Serves
  <1>2. HeldInv' BY <1>1 DEF HeldInv
  <1>3. CountInv' BY CountsStay DEF Used, Abandoned, OpenPages, Open
  <1> QED BY <1>1, <1>2, <1>3 DEF Open, Between, Left

LEMMA CheckKeeps == ASSUME IInv, Check PROVE IInv'
  <1> USE DEF IInv
  <1>1. /\ launcher.at = "sleep" /\ launcher.left = 0
        /\ UNCHANGED <<page, handler, active, alive, seen, inactive, startup, opens, lost, watched>>
    BY DEF Check, Due, serverVars
  <1>2. /\ launcher' \in [at : {"sleep", "ask", "done"}, left : Nat] /\ launcher'.at # "sleep"
        /\ alive => launcher'.at = "ask"
        /\ launcher'.at = "ask" => launcher'.left <= AskFor
    <2>1. CASE alive BY <2>1, Numbers DEF Check
    <2>2. CASE ~alive BY <2>2 DEF Check
    <2> QED BY <2>1, <2>2
  <1>3. TypeOK' BY <1>1, <1>2 DEF TypeOK
  <1>4. HeldInv' /\ CountInv' BY <1>1, SessionsStay
  <1>5. LauncherInv' BY <1>1, <1>2 DEF LauncherInv, Open
  <1>6. PatienceInv'
    <2> SUFFICES ASSUME alive', NEW p \in Page
                 PROVE  /\ Between(p)' => GapInv(p)'
                        /\ \A s \in Slot : Serves(s, p)' => HoldInv(p, s)'
      BY DEF PatienceInv
    <2>1. Idle' = Idle /\ Ahead' = Ahead /\ alive BY <1>1, <1>2 DEF Idle, Ahead
    <2>2. ASSUME Between(p)' PROVE GapInv(p)'
      <3>1. GapInv(p) BY <1>1, <2>1, <2>2, SessionsStay DEF PatienceInv
      <3> QED BY <1>1, <2>1, <3>1, GapStays
    <2>3. ASSUME NEW s \in Slot, Serves(s, p)' PROVE HoldInv(p, s)'
      <3>1. HoldInv(p, s) /\ Serves(s, p) BY <1>1, <2>1, <2>3, SessionsStay DEF PatienceInv
      <3>2. SeenInTime(s) => SeenInTime(s)'
        <4>1. handler[s].left \in Nat BY <3>1, Numbers DEF Serves, TypeOK, Holding
        <4>2. launcher'.left \in Nat /\ launcher'.left <= AskFor /\ launcher'.at = "ask" BY <1>2, <2>1
        <4> QED BY <1>1, <4>1, <4>2, Numbers DEF SeenInTime
      <3> QED BY <1>1, <2>1, <3>1, <3>2 DEF HoldInv, Below
    <2> QED BY <2>2, <2>3
  <1> QED BY <1>3, <1>4, <1>5, <1>6

(* A check is answered: what it changes whatever the answer is.             *)
LEMMA AnsweredFrame ==
  ASSUME IInv, Answered
  PROVE  /\ launcher.at = "ask" /\ alive /\ UNCHANGED <<opens, lost>>
         /\ watched' \in [Page -> Nat]
         /\ \A p \in Page : /\ ~Open(p) => watched'[p] = 0
                            /\ watched'[p] = watched[p] \/ watched'[p] = watched[p] + 1
  <1>1. watched' = [p \in Page |-> IF Open(p) /\ watched[p] < CloseAfter
                                   THEN watched[p] + 1 ELSE watched[p]]
    BY DEF Answered
  <1>2. watched \in [Page -> Nat] /\ \A p \in Page : ~Open(p) => watched[p] = 0
    BY DEF IInv, TypeOK, LauncherInv
  <1>3. launcher.at = "ask" /\ alive /\ UNCHANGED <<opens, lost>> BY DEF Answered
  <1> QED BY <1>1, <1>2, <1>3

LEMMA SleepsIs ==
  ASSUME Sleeps
  PROVE  /\ launcher' \in [at : {"sleep", "ask", "done"}, left : Nat]
         /\ launcher'.at = "sleep" /\ launcher'.left = CheckEvery /\ Ahead' = CheckEvery
  BY Numbers DEF Sleeps, Ahead

LEMMA ActiveKeeps == ASSUME IInv, Answered, Active PROVE IInv'
  <1> USE DEF IInv
  <1>1. /\ seen' = TRUE /\ inactive' = 0
        /\ UNCHANGED <<page, handler, active, alive, startup, opens, lost>>
    BY AnsweredFrame DEF Active, serverVars
  <1>2. Sleeps BY DEF Active
  <1>3. TypeOK'
    <2>1. seen' \in BOOLEAN BY <1>1, Zenon
    <2>2. inactive' \in Nat BY <1>1
    <2> QED BY <1>1, <1>2, <2>1, <2>2, SleepsIs, AnsweredFrame, Numbers DEF TypeOK
  <1>4. HeldInv' /\ CountInv' BY <1>1, SessionsStay
  <1>5. LauncherInv' BY <1>1, <1>2, AnsweredFrame, SleepsIs, Numbers DEF LauncherInv, Open
  <1>6. PatienceInv'
    <2> SUFFICES ASSUME alive', NEW p \in Page
                 PROVE  /\ Between(p)' => GapInv(p)'
                        /\ \A s \in Slot : HoldInv(p, s)'
      BY DEF PatienceInv
    <2>1. Worth(lost)' \in Nat /\ lost' \in Nat BY <1>1, WorthGrows DEF TypeOK
    <2>2. Idle' = 0 BY <1>1 DEF Idle
    <2>3. Below(p, Worth(lost))' BY <2>1, <2>2 DEF Below
    <2>4. ASSUME Between(p)' PROVE GapInv(p)'
      <3>1. Left(p)' \in Nat /\ Left(p)' <= Gap BY <1>1, <2>4, SessionsStay, Times
      <3> QED BY <1>2, <2>1, <2>3, <3>1, SleepsIs, GapBegins, Numbers
    <2> QED BY <2>3, <2>4 DEF HoldInv
  <1> QED BY <1>3, <1>4, <1>5, <1>6

(* A check without a session counts one more, for every page that is        *)
(* between two sessions; none is in one.                                    *)
LEMMA InactiveKeeps == ASSUME IInv, Answered, Inactive PROVE IInv'
  <1> USE DEF IInv
  <1>1. /\ active = 0 /\ seen' = seen /\ inactive' \in Nat /\ startup' \in Nat
        /\ Idle' = Idle + 1
    BY DEF Inactive, Idle, TypeOK
  <1>2. CASE inactive' >= CloseAfter \/ startup' >= StartupChecks
    <2>1. ServerEnds /\ launcher' = [at |-> "done", left |-> 0] BY <1>2 DEF Inactive, Stops
    <2>2. /\ launcher' \in [at : {"sleep", "ask", "done"}, left : Nat]
          /\ launcher'.at = "done"
      BY <2>1
    <2>3. seen' \in BOOLEAN BY <1>1 DEF TypeOK
    <2> QED BY <1>1, <2>1, <2>2, <2>3, AnsweredFrame, ServerEndsKeeps
  <1>3. CASE ~(inactive' >= CloseAfter \/ startup' >= StartupChecks)
    <2>1. Sleeps /\ UNCHANGED <<page, handler, active, alive, opens, lost, seen>>
      BY <1>1, <1>3, AnsweredFrame DEF Inactive, serverVars
    <2>2. TypeOK'
      BY <1>1, <2>1, SleepsIs, AnsweredFrame, Numbers DEF TypeOK
    <2>3. HeldInv' /\ CountInv' BY <2>1, SessionsStay
    <2>4. inactive' < CloseAfter /\ startup' < StartupChecks BY <1>1, <1>3, Numbers
    <2>5. LauncherInv' BY <2>1, <2>4, AnsweredFrame, SleepsIs DEF LauncherInv, Open
    <2>6. PatienceInv'
      <3> SUFFICES ASSUME alive', NEW p \in Page
                   PROVE  /\ Between(p)' => GapInv(p)'
                          /\ \A s \in Slot : ~Serves(s, p)'
        BY DEF PatienceInv
      <3>1. \A s \in Slot : ~Serves(s, p)' BY <1>1, <2>1, NoSession DEF Serves
      <3>2. ASSUME Between(p)' PROVE GapInv(p)'
        <4>1. Between(p) /\ Left(p)' = Left(p) BY <2>1, <3>2, SessionsStay
        <4>2. PICK n \in 0..GapChecks : /\ Below(p, Worth(lost) + n)
                                        /\ Span(n) <= Gap - Left(p) + Ahead
          BY <2>1, <4>1 DEF PatienceInv, GapInv
        <4>3. Ahead = 0 BY AnsweredFrame DEF Ahead
        <4>4. n \in Nat /\ Left(p) \in Nat BY Times, GapFits
        <4>5. Span(n) \in Nat /\ Span(n + 1) = Span(n) + CheckEvery BY <4>4, SpanGrows
        <4>6. Span(n) <= Gap BY <4>2, <4>3, <4>4, <4>5, Numbers
        <4>7. n + 1 \in 0..GapChecks BY <4>4, <4>6, ChecksOfGap, GapFits
        <4>8. Span(n + 1) <= Gap - Left(p)' + Ahead'
          BY <2>1, <4>1, <4>2, <4>3, <4>4, <4>5, SleepsIs, Numbers
        <4>9. Below(p, Worth(lost) + (n + 1))'
          <5>1. Worth(lost)' = Worth(lost) /\ Worth(lost) \in Nat
            BY <2>1, WorthGrows DEF Worth, TypeOK
          <5>2. Idle \in Nat /\ watched[p] \in Nat BY DEF Idle, TypeOK
          <5> QED BY <1>1, <4>2, <4>4, <5>1, <5>2, AnsweredFrame DEF Below
        <4> QED BY <4>7, <4>8, <4>9 DEF GapInv
      <3> QED BY <3>1, <3>2
    <2> QED BY <2>2, <2>3, <2>5, <2>6
  <1> QED BY <1>2, <1>3

LEMMA UnansweredKeeps == ASSUME IInv, Unanswered PROVE IInv'
  <1> USE DEF IInv
  <1>1. /\ UNCHANGED <<page, handler, active, alive, seen, inactive, startup, opens, watched>>
        /\ Sleeps
        /\ alive => Loses
        /\ Loses \/ lost' = lost
    BY RoomLeft DEF Unanswered, serverVars
  <1>2. lost' \in 0..MaxLost /\ (alive => lost' = lost + 1)
    BY <1>1, Numbers DEF Loses, TypeOK
  <1>3. TypeOK' BY <1>1, <1>2, SleepsIs, Numbers DEF TypeOK
  <1>4. HeldInv' /\ CountInv' BY <1>1, SessionsStay
  <1>5. LauncherInv' BY <1>1, SleepsIs DEF LauncherInv, Open
  <1>6. PatienceInv'
    <2> SUFFICES ASSUME alive', NEW p \in Page
                 PROVE  /\ Between(p)' => GapInv(p)'
                        /\ \A s \in Slot : Serves(s, p)' => HoldInv(p, s)'
      BY DEF PatienceInv
    <2>1. Idle' = Idle /\ alive /\ Ahead' \in Nat BY <1>1, SleepsIs, Numbers DEF Idle
    <2> QED BY <1>1, <1>2, <2>1, LossSettles, SessionsStay
  <1> QED BY <1>3, <1>4, <1>5, <1>6

-----------------------------------------------------------------------------
(* Time goes by for a page, its connection and the launcher alike.          *)
LEMMA TickKeeps == ASSUME IInv, Tick PROVE IInv'
  <1> USE DEF IInv
  <1>1. UNCHANGED <<active, alive, seen, inactive, startup, opens, lost, watched>> BY DEF Tick
  <1>2. \A p \in Page :
          /\ page'[p] \in PageState /\ page'[p].at = page[p].at
          /\ page'[p].left = IF Between(p) THEN page[p].left - 1 ELSE page[p].left
    <2> TAKE p \in Page
    <2>1. page'[p] = Later(page[p]) /\ (Between(p) => page[p].left # 0)
      BY DEF Tick, Between, Timed, Due
    <2>2. page[p] \in PageState BY DEF TypeOK
    <2> QED BY <2>1, <2>2 DEF Later, Timed, Between, PageState
  <1>3. \A s \in Slot :
          /\ handler[s] = Free => handler'[s] = Free
          /\ handler[s] # Free => /\ handler'[s] \in Holding
                                  /\ handler'[s].left = handler[s].left - 1
                                  /\ handler'[s].page = handler[s].page
                                  /\ ~handler[s].gone /\ ~handler'[s].gone
    <2> TAKE s \in Slot
    <2>1. handler'[s] = IF handler[s] = Free THEN Free ELSE [handler[s] EXCEPT !.left = @ - 1]
      BY DEF Tick
    <2>2. handler[s] # Free => handler[s] \in Holding /\ handler[s].left > 0 /\ ~handler[s].gone
      BY DEF Tick, TypeOK
    <2> QED BY <2>1, <2>2, Numbers DEF Holding
  <1>4. \A h \in Holding : h # Free BY SessionAssumption DEF Holding
  <1>5. /\ launcher' \in [at : {"sleep", "ask", "done"}, left : Nat]
        /\ launcher'.at = launcher.at
        /\ launcher'.left = IF launcher.at = "done" THEN launcher.left ELSE launcher.left - 1
    <2>1. launcher' = Later(launcher) /\ (Timed(launcher) => launcher.left # 0)
      BY DEF Tick, Due
    <2>2. launcher \in [at : {"sleep", "ask", "done"}, left : Nat] BY DEF TypeOK
    <2> QED BY <2>1, <2>2 DEF Later, Timed
  <1>6. \A s \in Slot, p \in Page : Serves(s, p)' <=> Serves(s, p) BY <1>3, <1>4 DEF Serves
  <1>7. TypeOK'
    <2>1. page' \in [Page -> PageState] BY <1>2 DEF Tick
    <2>2. handler' \in [Slot -> Holding \union {Free}] BY <1>3 DEF Tick
    <2>3. \A p \in Page : page[p].left \in Nat BY DEF TypeOK, PageState
    <2>4. \A p \in Page : /\ page'[p].at = "wait" => page'[p].left <= Retry
                          /\ page'[p].at = "call" => page'[p].left <= Latency
      BY <1>2, <2>3, Numbers DEF TypeOK
    <2>5. /\ launcher'.at = "sleep" => launcher'.left <= CheckEvery
          /\ launcher'.at = "ask" => launcher'.left <= AskFor
      BY <1>5, Numbers DEF TypeOK
    <2> QED BY <1>1, <1>5, <2>1, <2>2, <2>4, <2>5 DEF TypeOK
  <1>8. HeldInv' BY <1>2, <1>6 DEF HeldInv
  <1>9. CountInv'
    <2>1. OpenPages' = OpenPages BY <1>2 DEF OpenPages, Open
    <2>2. Used' = Used /\ Abandoned' = Abandoned BY <1>3, <1>4 DEF Used, Abandoned
    <2> QED BY <1>1, <2>1, <2>2, CountsStay
  <1>10. LauncherInv' BY <1>1, <1>2, <1>5 DEF LauncherInv, Open
  <1>11. PatienceInv'
    <2> SUFFICES ASSUME alive', NEW p \in Page
                 PROVE  /\ Between(p)' => GapInv(p)'
                        /\ \A s \in Slot : Serves(s, p)' => HoldInv(p, s)'
      BY DEF PatienceInv
    <2>1. Idle' = Idle /\ alive BY <1>1 DEF Idle
    <2>2. ASSUME Between(p)' PROVE GapInv(p)'
      <3>1. Between(p) BY <1>2, <2>2 DEF Between
      <3>2. PICK n \in 0..GapChecks : Below(p, Worth(lost) + n) /\ Span(n) <= Gap - Left(p) + Ahead
        BY <2>1, <3>1 DEF PatienceInv, GapInv
      <3>3. Left(p)' = Left(p) - 1
        <4>1. page[p].left \in Nat BY DEF TypeOK, PageState
        <4> QED BY <1>2, <3>1, <4>1, Numbers DEF Left
      <3>4. Ahead' >= Ahead - 1 /\ Ahead' \in Int BY <1>5 DEF Ahead, TypeOK
      <3>5. Left(p) \in Nat /\ Ahead \in Nat /\ Span(n) \in Nat BY Times, SpanGrows, GapFits
      <3>6. Span(n) <= Gap - Left(p)' + Ahead' BY <3>2, <3>3, <3>4, <3>5, Numbers
      <3>7. Below(p, Worth(lost) + n)' BY <1>1, <2>1, <3>2 DEF Below
      <3> QED BY <1>1, <3>6, <3>7 DEF GapInv
    <2>3. ASSUME NEW s \in Slot, Serves(s, p)' PROVE HoldInv(p, s)'
      <3>1. HoldInv(p, s) /\ handler[s] # Free BY <1>6, <2>1, <2>3 DEF PatienceInv, Serves
      <3>2. SeenInTime(s) => SeenInTime(s)'
        <4>1. handler[s].left \in Nat BY <3>1, Numbers DEF TypeOK, Holding
        <4>2. handler'[s].left = handler[s].left - 1 BY <1>3, <3>1
        <4>3. launcher.left \in Nat /\ launcher.at # "done" BY <2>1 DEF TypeOK, LauncherInv
        <4>4. launcher'.left = launcher.left - 1 BY <1>5, <4>3
        <4> QED BY <1>5, <4>1, <4>2, <4>3, <4>4, Numbers DEF SeenInTime
      <3> QED BY <1>1, <2>1, <3>1, <3>2 DEF HoldInv, Below
    <2> QED BY <2>2, <2>3
  <1> QED BY <1>7, <1>8, <1>9, <1>10, <1>11

-----------------------------------------------------------------------------
LEMMA StutterKeeps == ASSUME IInv, UNCHANGED vars PROVE IInv'
  <1> USE DEF IInv
  <1>1. UNCHANGED <<page, handler, active, alive, launcher, seen, inactive, startup, opens, lost, watched>>
    BY DEF vars, serverVars, launcherVars
  <1>2. TypeOK' BY <1>1 DEF TypeOK
  <1>3. HeldInv' /\ CountInv' BY <1>1, SessionsStay
  <1>4. LauncherInv' BY <1>1 DEF LauncherInv, Open
  <1>5. PatienceInv'
    <2>1. Idle' = Idle /\ Ahead' = Ahead BY <1>1 DEF Idle, Ahead
    <2>2. \A p \in Page : GapInv(p) => GapInv(p)' BY <1>1, <2>1, GapStays
    <2>3. \A p \in Page, s \in Slot : HoldInv(p, s) => HoldInv(p, s)' BY <1>1, <2>1, HoldStays
    <2> QED BY <1>1, <2>2, <2>3, SessionsStay DEF PatienceInv
  <1> QED BY <1>2, <1>3, <1>4, <1>5

LEMMA NextInv == IInv /\ [Next]_vars => IInv'
  <1> SUFFICES ASSUME IInv, [Next]_vars PROVE IInv' OBVIOUS
  <1>1. ASSUME NEW p \in Page, OpenPage(p) PROVE IInv' BY <1>1, OpenPageKeeps
  <1>2. ASSUME NEW p \in Page, ClosePage(p) PROVE IInv' BY <1>2, ClosePageKeeps
  <1>3. ASSUME NEW p \in Page, Hold(p) PROVE IInv' BY <1>3, HoldKeeps
  <1>4. ASSUME NEW p \in Page, CallFails(p) PROVE IInv' BY <1>4, CallFailsKeeps
  <1>5. ASSUME NEW p \in Page, CallAgain(p) PROVE IInv' BY <1>5, CallAgainKeeps
  <1>6. ASSUME NEW s \in Slot, HoldEnds(s) PROVE IInv' BY <1>6, HoldEndsKeeps
  <1>7. CASE Check BY <1>7, CheckKeeps
  <1>8. CASE Answered BY <1>8, ActiveKeeps, InactiveKeeps DEF Answered
  <1>9. CASE Unanswered BY <1>9, UnansweredKeeps
  <1>10. CASE Tick BY <1>10, TickKeeps
  <1>11. CASE Crash BY <1>11, CrashKeeps
  <1>12. CASE UNCHANGED vars BY <1>12, StutterKeeps
  <1> QED
    BY <1>1, <1>2, <1>3, <1>4, <1>5, <1>6, <1>7, <1>8, <1>9, <1>10, <1>11, <1>12 DEF Next, Runs

-----------------------------------------------------------------------------
THEOREM Invariance == Spec => []IInv
  BY InitInv, NextInv, PTL DEF Spec

(* The types of all that pages, connections and the launcher keep.          *)
THEOREM TypeCorrect == Spec => []TypeOK
  BY Invariance, PTL DEF IInv

(* A session is counted exactly while a connection holds it, and a page that *)
(* is open always finds one free (main.cpp:61-71, http_server.cpp:602-617).  *)
THEOREM SessionsAreCounted == Spec => [](active = Cardinality(Used) /\ Room)
  <1>1. IInv => active = Cardinality(Used) /\ Room BY RoomLeft DEF IInv, CountInv
  <1> QED BY <1>1, Invariance, PTL

(* When the launcher counts up to its limit and stops the server, every page *)
(* that is open has been watched for less than CloseAfter of its checks: at  *)
(* most GapChecks of them in the present gap and in the gap of each request  *)
(* that was lost.                                                           *)
LEMMA StopIsFair ==
  ASSUME IInv, Answered, launcher'.at = "done", NEW p \in Page, Open(p)
  PROVE  watched'[p] < CloseAfter
  <1> USE DEF IInv
  <1>1. Inactive BY DEF Answered, Active, Sleeps
  <1>2. /\ active = 0 /\ seen' = seen
        /\ inactive' >= CloseAfter \/ startup' >= StartupChecks
        /\ seen => inactive' = inactive + 1 /\ startup' = startup
        /\ ~seen => startup' = startup + 1 /\ inactive' = inactive
    BY <1>1 DEF Inactive, Sleeps
  <1>3. launcher.at = "ask" /\ alive /\ watched'[p] \in Nat
        /\ (watched'[p] = watched[p] \/ watched'[p] = watched[p] + 1)
    BY AnsweredFrame
  <1>4. Between(p)
    <2>1. page[p].at # "held" BY <1>2, NoSession DEF HeldInv, Serves
    <2> QED BY <2>1 DEF TypeOK, PageState, Open, Between
  <1>5. PICK n \in 0..GapChecks : Below(p, Worth(lost) + n) /\ Span(n) <= Gap - Left(p) + Ahead
    BY <1>3, <1>4 DEF PatienceInv, GapInv
  <1>6. n \in Nat /\ n + 1 <= GapChecks
    <2>1. Ahead = 0 BY <1>3 DEF Ahead
    <2>2. Left(p) \in Nat /\ n \in Nat BY Times, GapFits
    <2>3. Span(n) \in Nat BY <2>2, SpanGrows
    <2>4. Span(n) <= Gap BY <1>5, <2>1, <2>2, <2>3, Numbers
    <2> QED BY <2>2, <2>4, ChecksOfGap
  <1>7. Worth(lost) \in Nat /\ Worth(lost) + n + 1 < CloseAfter
    <2>1. Worth(lost) \in Nat /\ Worth(lost + 1) = Worth(lost) + GapChecks
      BY WorthGrows DEF TypeOK
    <2>2. Worth(lost + 1) < CloseAfter BY WorthLimit DEF TypeOK
    <2> QED BY <1>6, <2>1, <2>2, GapFits, Numbers
  <1>8. Idle \in Nat /\ Idle + 1 >= CloseAfter
    <2>1. inactive < CloseAfter /\ startup < StartupChecks BY <1>3 DEF LauncherInv
    <2> QED BY <1>2, <2>1, PatienceAssumption, Numbers DEF Idle, TypeOK
  <1>9. watched[p] <= Worth(lost) + n BY <1>5, <1>6, <1>7, <1>8, Numbers DEF Below
  <1> QED BY <1>3, <1>6, <1>7, <1>9, Numbers DEF TypeOK

(* The launcher never overlooks an open page (start.sh:57, main.cpp:650-657, *)
(* app.js:185-190), with the lengths of time they give.                      *)
THEOREM PagesAreServed == Spec => OpenPageIsServed
  <1>1. IInv /\ [Next]_vars =>
          [Answered /\ launcher'.at = "done" =>
             \A p \in Page : Open(p) => watched'[p] < CloseAfter]_vars
    BY StopIsFair
  <1> QED BY <1>1, Invariance, PTL DEF Spec, OpenPageIsServed
=============================================================================
