------------------------- MODULE EvidenceReads_proofs -------------------------
(***************************************************************************)
(* Proofs about EvidenceReads, for any events, questions, limit, window    *)
(* and bounds.  ReadsInv says what holds between two steps of a run while  *)
(* the stores grow under it: the hits were written, whatever a store did   *)
(* not have when it was read is the one event on its way, and what was     *)
(* read are the versions that stay of the most recent rows.  The three     *)
(* properties follow from it (section by section below), and every action  *)
(* keeps it.                                                               *)
(***************************************************************************)
EXTENDS EvidenceReads, TLAPS, FiniteSetTheorems, WellFoundedInduction

-----------------------------------------------------------------------------
(* The invariant *)

\* The rows an event of a kind can be stored in.
RowsOf(kind) == {Row(e, t) : e \in {x \in Events : x.kind = kind}, t \in Nat}

\* The rows of both kinds.
AllRows == RowsOf("access") \cup RowsOf("session")

\* What indexerd can have seen of a source.
Written(kind) == Range(rows[kind]) \cup ahead[kind]

\* Rows and documents are events of their kind; one event of a source at most
\* is not projected.
StoresInv ==
    /\ clock \in [Kinds -> Nat]
    /\ rows \in [Kinds -> Seq(AllRows)]
    /\ ahead \in [Kinds -> SUBSET AllRows]
    /\ \A kind \in Kinds :
          /\ Written(kind) \subseteq RowsOf(kind)
          /\ \A r, s \in ahead[kind] : r = s
    /\ docs \in Seq(Written("access") \cup Written("session"))

\* The phases of the plan are done in order, and the search of the retrieval
\* store comes first.
PlaceInv ==
    /\ DOMAIN run = {"pc", "request", "todo", "hits", "access", "sessions",
                     "claim", "finding", "answer", "readAt"}
    /\ run.request \in Requests
    /\ DOMAIN run.readAt = Kinds
    /\ \A kind \in Kinds : run.readAt[kind] \in 0..Len(rows[kind])
    /\ \/ /\ run.todo = Plan(run.request)
          /\ \A kind \in Kinds : run.readAt[kind] = 0
       \/ run.todo \in {<<"access", "sessions">>, <<"sessions">>, <<"access">>, <<>>}
    /\ run.pc = "explained" => run.todo = <<>>

\* The hits are events that were written and match the question.
HitsInv ==
    /\ run.hits \in Seq(AllRows)
    /\ \A h \in Range(run.hits) : /\ \E kind \in Kinds : h \in Written(kind)
                           /\ Matches(run.request, h)

\* Once a store has been read, of the hits it did not have then there is one.
LateInv ==
    \A kind \in Kinds :
        Phase(kind) \in Range(Plan(run.request)) \ Range(run.todo) =>
            \A g, h \in Range(run.hits) :
                /\ g.kind = kind /\ h.kind = kind
                /\ \A i \in 1..run.readAt[kind] : rows[kind][i] \notin {g, h}
                => g = h

\* What was read of a store are the versions that stay of its most recent rows.
WellRead(kind) ==
    \E T \in SUBSET Chosen(kind) :
        /\ RowsRead(kind) \in ByID({rows[kind][i] : i \in T})
        /\ \A i \in Chosen(kind) \ T :
              Cardinality(T) = Limit /\ \A j \in T : ~Newer(rows[kind][i], rows[kind][j])

ReadInv == \A kind \in Kinds : WellRead(kind)

\* The claim of an answer is made of what was read.
ClaimInv ==
    run.pc = "explained" =>
        /\ run.claim.start \in FirstStarts
        /\ run.claim.rejected \in LatestBefore("rejected", run.claim.start)
        /\ run.claim.accepted \in LatestBefore("accepted", run.claim.start)
        /\ \E stop \in LastStops, latest \in LatestSessions : run.answer = Answer(run.claim, stop, latest)

ReadsInv == StoresInv /\ PlaceInv /\ HitsInv /\ LateInv /\ ReadInv /\ ClaimInv

-----------------------------------------------------------------------------
(* Rows and queries *)

\* A row has the type of its event and the number of its ingestion.
LEMMA RowFacts ==
    ASSUME NEW kind \in Kinds, NEW r \in RowsOf(kind)
    PROVE  r.kind = kind /\ r.at \in Int /\ r.seen \in Nat /\ r.by["subscriber"] # Nil
<1>1. PICK e \in Events, t \in Nat : e.kind = kind /\ r = Row(e, t)
  BY DEF RowsOf
<1>2. EventShape(e)
  BY ReadsAssumption
<1> QED
  BY <1>1, <1>2 DEF Row, EventShape

\* Two versions of one event are of the same moment.
LEMMA SameEvent ==
    ASSUME NEW kind \in Kinds, NEW r \in RowsOf(kind), NEW s \in RowsOf(kind), r.id = s.id
    PROVE  r.at = s.at
<1>1. PICK e \in Events, t \in Nat : e.kind = kind /\ r = Row(e, t)
  BY DEF RowsOf
<1>2. PICK f \in Events, u \in Nat : f.kind = kind /\ s = Row(f, u)
  BY DEF RowsOf
<1>3. e.id = f.id
  BY <1>1, <1>2 DEF Row
<1>4. e.at = f.at
  BY <1>3, ReadsAssumption
<1> QED
  BY <1>1, <1>2, <1>4 DEF Row

\* A row of an event of the kind is one of the kind's rows.
LEMMA RowType == ASSUME NEW e \in Events, NEW t \in Nat
                 PROVE  e.kind \in Kinds /\ Row(e, t) \in RowsOf(e.kind)
BY ReadsAssumption DEF EventShape, RowsOf, Kinds

\* Every place of a store holds a row of the kind.
LEMMA StoredRow ==
    ASSUME StoresInv, NEW kind \in Kinds, NEW i \in 1..Len(rows[kind])
    PROVE  rows[kind][i] \in Written(kind) /\ rows[kind][i] \in RowsOf(kind)
BY DEF StoresInv, Written, Range

\* What an investigation chooses from, place by place.
LEMMA ChosenPlaces ==
    ASSUME NEW kind \in Kinds, StoresInv, NEW i
    PROVE  i \in Chosen(kind) <=> /\ i \in 1..Len(rows[kind]) /\ i <= run.readAt[kind]
                                  /\ Matches(QueryOf(kind), rows[kind][i])
                                  /\ Asks(QueryOf(kind))
BY DEF Chosen, Stored, Selected, StoresInv

\* The queries follow from the question and the hits.
LEMMA QueryKept ==
    ASSUME NEW kind \in Kinds, run'.request = run.request, run'.hits = run.hits
    PROVE  QueryOf(kind)' = QueryOf(kind)
<1>1. Sought' = Sought
  BY DEF Sought, FirstHit
<1>2. From' = From
  BY DEF From
<1>3. To' = To
  BY DEF To
<1>4. AccessQuery' = AccessQuery
  BY <1>1, <1>2, <1>3 DEF AccessQuery
<1>5. SessionQuery' = SessionQuery
  BY <1>4 DEF SessionQuery
<1> QED
  BY <1>4, <1>5 DEF QueryOf

\* What was chosen from stays while stores grow and the run goes on.
LEMMA ChosenKept ==
    ASSUME StoresInv, StoresInv', PlaceInv, NEW kind \in Kinds, QueryOf(kind)' = QueryOf(kind),
           Len(rows[kind]) <= Len(rows'[kind]),
           \A i \in 1..Len(rows[kind]) : rows'[kind][i] = rows[kind][i],
           run'.readAt[kind] = run.readAt[kind]
    PROVE  Chosen(kind)' = Chosen(kind) /\ \A i \in Chosen(kind) : rows'[kind][i] = rows[kind][i]
<1>1. run.readAt[kind] \in 0..Len(rows[kind])
  BY DEF PlaceInv
<1>2. Len(rows[kind]) \in Nat /\ Len(rows'[kind]) \in Nat
  BY DEF StoresInv
<1>3. ASSUME NEW i PROVE i \in Chosen(kind) <=> i \in Chosen(kind)'
  <2>1. i \in Chosen(kind)' <=> /\ i \in 1..Len(rows'[kind]) /\ i <= run'.readAt[kind]
                                /\ Matches(QueryOf(kind)', rows'[kind][i])
                                /\ Asks(QueryOf(kind)')
    BY DEF Chosen, Stored, Selected, StoresInv
  <2> QED
    BY <1>1, <1>2, <2>1, ChosenPlaces
<1> QED
  BY <1>3, ChosenPlaces

-----------------------------------------------------------------------------
(* Finite sets *)

\* A strict order on a finite set has a maximal element: one with no subset of
\* elements above it that is smaller.
LEMMA FiniteMaximal ==
    ASSUME NEW S, IsFiniteSet(S), S # {}, NEW R,
           \A a \in S : <<a, a>> \notin R,
           \A a, b, c \in S : <<a, b>> \in R /\ <<b, c>> \in R => <<a, c>> \in R
    PROVE  \E a \in S : \A b \in S : <<b, a>> \notin R
<1> DEFINE Above(a) == {b \in S : <<b, a>> \in R}
           T == {Above(a) : a \in S}
           Order == StrictSubsetOrdering(S)
<1>1. \A a \in S : Above(a) \in FiniteSubsetsOf(S)
  BY FS_Subset DEF FiniteSubsetsOf
<1>2. T \subseteq FiniteSubsetsOf(S) /\ T # {}
  <2> HIDE DEF Above
  <2> QED
    BY <1>1
<1>3. IsWellFoundedOn(Order, FiniteSubsetsOf(S))
  BY FS_StrictSubsetOrderingWellFounded
<1>4. PICK x \in T : \A y \in T : <<y, x>> \notin Order
  <2> HIDE DEF T, Order
  <2> QED
    BY <1>2, <1>3, WFMin
<1>5. PICK a \in S : x = Above(a)
  OBVIOUS
<1>6. ASSUME NEW b \in S, <<b, a>> \in R PROVE FALSE
  <2>1. Above(b) \subseteq Above(a) /\ b \in Above(a) /\ b \notin Above(b)
    BY <1>6
  <2>2. <<Above(b), Above(a)>> \in Order
    BY <2>1 DEF StrictSubsetOrdering
  <2> QED
    BY <1>4, <1>5, <2>2
<1> QED
  BY <1>6

\* Of finitely many rows one is the first and one the last.
LEMMA FirstAndLast ==
    ASSUME NEW S, IsFiniteSet(S), S # {}, \A r \in S : r.at \in Int
    PROVE  /\ \E r \in S : \A s \in S : r.at <= s.at
           /\ \E r \in S : \A s \in S : r.at >= s.at
<1> DEFINE Up == {p \in S \X S : p[1].at < p[2].at}
           Down == {p \in S \X S : p[1].at > p[2].at}
<1>1. \E r \in S : \A s \in S : <<s, r>> \notin Up
  <2>1. \A a \in S : <<a, a>> \notin Up
    OBVIOUS
  <2>2. \A a, b, c \in S : <<a, b>> \in Up /\ <<b, c>> \in Up => <<a, c>> \in Up
    OBVIOUS
  <2>3. \E r \in S : \A s \in S : <<s, r>> \notin Up
    <3> HIDE DEF Up
    <3> QED
      BY <2>1, <2>2, FiniteMaximal
  <2> QED
    BY <2>3
<1>2. \E r \in S : \A s \in S : <<s, r>> \notin Down
  <2>1. \A a \in S : <<a, a>> \notin Down
    OBVIOUS
  <2>2. \A a, b, c \in S : <<a, b>> \in Down /\ <<b, c>> \in Down => <<a, c>> \in Down
    OBVIOUS
  <2>3. \E r \in S : \A s \in S : <<s, r>> \notin Down
    <3> HIDE DEF Down
    <3> QED
      BY <2>1, <2>2, FiniteMaximal
  <2> QED
    BY <2>3
<1>3. \A r, s \in S : <<s, r>> \notin Up => r.at <= s.at
  OBVIOUS
<1>4. \A r, s \in S : <<s, r>> \notin Down => r.at >= s.at
  OBVIOUS
<1> HIDE DEF Up, Down
<1> QED
  BY <1>1, <1>2, <1>3, <1>4

\* What stands at finitely many places of a store is finite.
LEMMA PlacesFinite ==
    ASSUME NEW s, NEW n \in Nat, NEW T \in SUBSET (1..n)
    PROVE  IsFiniteSet(T) /\ IsFiniteSet({s[i] : i \in T})
<1>1. IsFiniteSet(1..n)
  BY FS_Interval
<1>2. IsFiniteSet(T)
  BY <1>1, FS_Subset
<1> DEFINE f == [i \in T |-> s[i]]
<1>3. f \in Surjection(T, {s[i] : i \in T})
  BY DEF Surjection
<1> QED
  BY <1>2, <1>3, FS_Surjection

-----------------------------------------------------------------------------
(* Sorting and cutting *)

\* What of a set is the newest, and the oldest, by the order of every store.
Latest(S) == First(S, Newer)
Earliest(S) == First(S, LAMBDA a, b : Newer(b, a))

\* The latest of a set is one of it and none is newer.
LEMMA LatestFacts ==
    ASSUME NEW S, IsFiniteSet(S), NEW T \in Latest(S)
    PROVE  /\ S = {} => T = {}
           /\ S # {} => \E t \in S : T = {t} /\ \A x \in S \ {t} : ~Newer(x, t)
<1>1. CASE S = {}
  BY <1>1 DEF Latest, First
<1>2. CASE S # {}
  <2>1. /\ T \in SUBSET S
        /\ Cardinality(T) = IF Cardinality(S) < 1 THEN Cardinality(S) ELSE 1
        /\ \A x \in S \ T, y \in T : ~Newer(x, y)
    BY <1>2 DEF Latest, First, Cuts
  <2>2. Cardinality(S) \in Nat /\ Cardinality(S) # 0
    BY <1>2, FS_CardinalityType, FS_EmptySet
  <2>3. IsFiniteSet(T) /\ Cardinality(T) = 1
    BY <2>1, <2>2, FS_Subset
  <2>4. PICK t : T = {t}
    BY <2>3, FS_Singleton
  <2> QED
    BY <1>2, <2>1, <2>4
<1> QED
  BY <1>1, <1>2

\* The earliest of a set is one of it.
LEMMA EarliestFacts ==
    ASSUME NEW S, IsFiniteSet(S), NEW T \in Earliest(S)
    PROVE  /\ S = {} => T = {}
           /\ S # {} => \E t \in S : T = {t} /\ \A x \in S \ {t} : ~Newer(t, x)
<1>1. CASE S = {}
  BY <1>1 DEF Earliest, First
<1>2. CASE S # {}
  <2>1. /\ T \in SUBSET S
        /\ Cardinality(T) = IF Cardinality(S) < 1 THEN Cardinality(S) ELSE 1
        /\ \A x \in S \ T, y \in T : ~Newer(y, x)
    BY <1>2 DEF Earliest, First, Cuts
  <2>2. Cardinality(S) \in Nat /\ Cardinality(S) # 0
    BY <1>2, FS_CardinalityType, FS_EmptySet
  <2>3. IsFiniteSet(T) /\ Cardinality(T) = 1
    BY <2>1, <2>2, FS_Subset
  <2>4. PICK t : T = {t}
    BY <2>3, FS_Singleton
  <2> QED
    BY <1>2, <2>1, <2>4
<1> QED
  BY <1>1, <1>2

\* A cut leaves out nothing, or as much as the limit allows stays, and none
\* that is left out is newer.
LEMMA RowsCut ==
    ASSUME NEW store, NEW q, NEW T \in SearchRows(store, q), IsFiniteSet(Selected(store, q))
    PROVE  /\ T \in SUBSET Selected(store, q)
           /\ \A i \in Selected(store, q) \ T :
                 Cardinality(T) = Limit /\ \A j \in T : ~Newer(store[i], store[j])
<1> DEFINE S == Selected(store, q)
<1>1. /\ T \in SUBSET S
      /\ Cardinality(T) = IF Cardinality(S) < Limit THEN Cardinality(S) ELSE Limit
      /\ \A i \in S \ T, j \in T : ~Newer(store[i], store[j])
  BY DEF SearchRows, Cuts
<1> HIDE DEF S
<1>2. Cardinality(T) = Cardinality(S) => T = S
  BY <1>1, FS_Subset DEF S
<1> QED
  BY <1>1, <1>2 DEF S

-----------------------------------------------------------------------------
(* What an investigation read *)

\* What was chosen from is finite.
LEMMA ChosenFinite ==
    ASSUME StoresInv, PlaceInv, NEW kind \in Kinds
    PROVE  Chosen(kind) \subseteq 1..Len(rows[kind]) /\ IsFiniteSet(Chosen(kind))
<1>1. Len(rows[kind]) \in Nat
  BY DEF StoresInv
<1>2. Chosen(kind) \subseteq 1..Len(rows[kind])
  BY ChosenPlaces
<1> QED
  BY <1>1, <1>2, PlacesFinite

\* Most(kind, T): T are the places that were read, and what was read is for
\* each of their events the version ingested first.
Most(kind, T) ==
    /\ \A k \in RowsRead(kind) : \E j \in T : k = rows[kind][j]
    /\ \A i \in T : \E k \in RowsRead(kind) :
          /\ k.id = rows[kind][i].id /\ k.at = rows[kind][i].at /\ k.seen <= rows[kind][i].seen
    /\ \A i \in Chosen(kind) \ T :
          /\ MayBeCut(kind, i) /\ T # {}
          /\ \A j \in T : rows[kind][i].at <= rows[kind][j].at

\* Of the rows to choose from the limit cuts off the oldest, and of those left
\* a version of every event was read.
LEMMA ReadFacts ==
    ASSUME StoresInv, PlaceInv, ReadInv, NEW kind \in Kinds
    PROVE  /\ IsFiniteSet(RowsRead(kind)) /\ RowsRead(kind) \subseteq RowsOf(kind)
           /\ \E T \in SUBSET Chosen(kind) : Most(kind, T)
<1> DEFINE K == RowsRead(kind)
           at(i) == rows[kind][i]
<1>1. PICK T \in SUBSET Chosen(kind) :
        /\ K \in ByID({at(i) : i \in T})
        /\ \A i \in Chosen(kind) \ T :
              Cardinality(T) = Limit /\ \A j \in T : ~Newer(at(i), at(j))
  BY DEF ReadInv, WellRead
<1>2. /\ T \in SUBSET (1..Len(rows[kind])) /\ Len(rows[kind]) \in Nat
      /\ \A i \in 1..Len(rows[kind]) : at(i) \in RowsOf(kind)
  BY ChosenFinite, StoredRow DEF StoresInv
<1>3. IsFiniteSet(T) /\ IsFiniteSet({at(i) : i \in T})
  BY <1>2, PlacesFinite
<1> DEFINE S == {at(i) : i \in T}
<1>4. /\ K \in SUBSET S /\ {r.id : r \in K} = {r.id : r \in S}
      /\ \A k \in K, r \in S : r.id = k.id => ~Newer(k, r)
  BY <1>1 DEF ByID
<1>5. IsFiniteSet(K) /\ K \subseteq RowsOf(kind)
  BY <1>2, <1>3, <1>4, FS_Subset
<1>6. ASSUME NEW k \in K PROVE \E j \in T : k = at(j)
  BY <1>4
<1>7. ASSUME NEW i \in T
      PROVE  \E k \in K : k.id = at(i).id /\ k.at = at(i).at /\ k.seen <= at(i).seen
  <2>1. at(i) \in S /\ at(i) \in RowsOf(kind)
    BY <1>2
  <2>2. at(i).id \in {r.id : r \in K}
    BY <1>4, <2>1
  <2>3. PICK k \in K : k.id = at(i).id
    BY <2>2
  <2>4. k \in RowsOf(kind) /\ ~Newer(k, at(i))
    BY <1>4, <1>5, <2>1, <2>3
  <2>5. k.at = at(i).at
    BY <2>1, <2>3, <2>4, SameEvent
  <2>6. k.at \in Int /\ k.seen \in Nat /\ at(i).at \in Int /\ at(i).seen \in Nat
    BY <2>1, <2>4, RowFacts
  <2> QED
    BY <2>3, <2>4, <2>5, <2>6 DEF Newer
<1>8. ASSUME NEW i \in Chosen(kind) \ T
      PROVE  MayBeCut(kind, i) /\ T # {} /\ \A j \in T : at(i).at <= at(j).at
  <2> DEFINE others == {j \in Chosen(kind) \ {i} : ~Newer(at(i), at(j))}
  <2>1. Cardinality(T) = Limit /\ \A j \in T : ~Newer(at(i), at(j))
    BY <1>1
  <2>2. T \in SUBSET others
    BY <2>1
  <2>3. IsFiniteSet(others)
    BY ChosenFinite, FS_Subset
  <2>4. Cardinality(T) <= Cardinality(others)
    <3> HIDE DEF others
    <3> QED
      BY <2>2, <2>3, FS_Subset
  <2>5. MayBeCut(kind, i)
    BY <2>1, <2>4, ReadsAssumption, FS_CardinalityType, <2>3 DEF MayBeCut
  <2>6. T # {}
    BY <2>1, ReadsAssumption, FS_EmptySet
  <2>7. ASSUME NEW j \in T PROVE at(i).at <= at(j).at
    <3>1. at(i).at \in Int /\ at(j).at \in Int
      BY <1>2, ChosenFinite, RowFacts
    <3> QED
      BY <2>1, <3>1 DEF Newer
  <2> QED
    BY <2>5, <2>6, <2>7
<1>9. Most(kind, T)
  BY <1>6, <1>7, <1>8 DEF Most
<1> QED
  BY <1>5, <1>9

-----------------------------------------------------------------------------
(* What the answers say *)

\* The newest of the session rows read is the newest there was to choose from.
LEMMA NewestRead ==
    ASSUME StoresInv, PlaceInv, ReadInv, NEW latest \in LatestSessions
    PROVE  /\ Chosen("session") = {} => latest = {}
           /\ Chosen("session") # {} => \E t \in run.sessions :
                 /\ latest = {t} /\ \E j \in Chosen("session") : t = rows["session"][j]
                 /\ \A i \in Chosen("session") : rows["session"][i].at <= t.at
<1>0. "session" \in Kinds /\ RowsRead("session") = run.sessions
  BY DEF Kinds, RowsRead
<1> DEFINE K == run.sessions
           at(i) == rows["session"][i]
<1>1. IsFiniteSet(K) /\ K \subseteq RowsOf("session")
  BY <1>0, ReadFacts
<1>2. PICK T \in SUBSET Chosen("session") : Most("session", T)
  BY <1>0, ReadFacts
<1>3. latest \in Latest(K)
  BY DEF LatestSessions, Latest, First, Cuts
<1>4. /\ K = {} => latest = {}
      /\ K # {} => \E t \in K : latest = {t} /\ \A x \in K \ {t} : ~Newer(x, t)
  BY <1>1, <1>3, LatestFacts
<1>5. CASE Chosen("session") = {}
  BY <1>0, <1>2, <1>4, <1>5 DEF Most
<1>6. CASE Chosen("session") # {}
  <2>1. T # {}
    BY <1>2, <1>6 DEF Most
  <2>2. K # {}
    BY <1>0, <1>2, <2>1 DEF Most
  <2>3. PICK t \in K : latest = {t} /\ \A x \in K \ {t} : ~Newer(x, t)
    BY <1>4, <2>2
  <2>4. PICK n \in T : t = at(n)
    BY <1>0, <1>2, <2>3 DEF Most
  <2>5. ASSUME NEW x \in K PROVE x.at <= t.at
    <3>1. x.at \in Int /\ t.at \in Int
      BY <1>0, <1>1, RowFacts
    <3> QED
      BY <2>3, <3>1 DEF Newer
  <2>6. ASSUME NEW i \in Chosen("session") PROVE at(i).at <= t.at
    <3>1. CASE i \in T
      <4>1. PICK k \in K : k.at = at(i).at
        BY <1>0, <1>2, <3>1 DEF Most
      <4> QED
        BY <2>5, <4>1
    <3>2. CASE i \notin T
      BY <1>2, <2>4, <3>2 DEF Most
    <3> QED
      BY <3>1, <3>2
  <2> QED
    BY <1>6, <2>3, <2>4, <2>6
<1> QED
  BY <1>5, <1>6

\* The properties of an explained status follow from the invariant.
LEMMA NewestFollows == ReadsInv => NewestInstantDecides
<1> SUFFICES ASSUME ReadsInv, run.pc = "explained", run.request.goal = "status"
             PROVE  NewestInstantDecides
  BY DEF NewestInstantDecides
<1> DEFINE S == {rows.session[i] : i \in Chosen("session")}
           newest == {r \in S : \A s \in S : s.at <= r.at}
<1>1. PICK stop \in LastStops, latest \in LatestSessions : run.answer = Answer(run.claim, stop, latest)
  BY DEF ReadsInv, ClaimInv
<1>2. run.answer = StatusAnswer(latest)
  BY <1>1 DEF Answer
<1>3. /\ run.answer = "connected" <=> \E s \in latest : s.what = "start"
      /\ run.answer = "not_connected" =>  \E s \in latest : s.what = "stop"
      /\ (\E s \in latest : s.what = "stop") /\ ~(\E s \in latest : s.what = "start")
            => run.answer = "not_connected"
  BY <1>2 DEF StatusAnswer
<1>4. CASE Chosen("session") = {}
  <2>1. latest = {} /\ newest = {}
    BY <1>4, NewestRead DEF ReadsInv
  <2> QED
    BY <1>3, <2>1 DEF NewestInstantDecides
<1>5. CASE Chosen("session") # {}
  <2>1. PICK t \in run.sessions :
          /\ latest = {t} /\ \E j \in Chosen("session") : t = rows["session"][j]
          /\ \A i \in Chosen("session") : rows["session"][i].at <= t.at
    BY <1>5, NewestRead DEF ReadsInv
  <2>2. t \in newest
    BY <2>1
  <2>3. /\ run.answer = "connected" <=> t.what = "start"
        /\ run.answer = "not_connected" => t.what = "stop"
        /\ t.what = "stop" => run.answer = "not_connected"
    BY <1>3, <2>1
  <2> HIDE DEF newest
  <2>4. /\ run.answer = "connected" => \E r \in newest : r.what = "start"
        /\ run.answer = "not_connected" => \E r \in newest : r.what = "stop"
        /\ (newest # {} /\ \A r \in newest : r.what = "start") => run.answer = "connected"
        /\ (newest # {} /\ \A r \in newest : r.what = "stop") => run.answer = "not_connected"
    BY <2>2, <2>3
  <2>5. newest = {r \in S : \A s \in S : s.at <= r.at}
    BY DEF newest
  <2> HIDE DEF S
  <2>6. S = {rows.session[i] : i \in Chosen("session")}
    BY DEF S
  <2> QED
    BY <2>4, <2>5, <2>6, Zenon DEF NewestInstantDecides
<1> QED
  BY <1>4, <1>5

\* Of the rows the question leaves open, the run chooses from those on the NAS
\* and of the client it narrowed the question to.
LEMMA OpenPlaces ==
    ASSUME StoresInv, NEW kind \in Kinds, NEW i \in Open(kind)
    PROVE  i \in Chosen(kind) \/ Elsewhere(rows[kind][i])
<1> DEFINE q == QueryOf(kind)
           open == [q EXCEPT !.by = [@ EXCEPT !["nas"] = run.request.by["nas"],
                                              !["client"] = run.request.by["client"]]]
           r == rows[kind][i]
<1>1. /\ i \in DOMAIN rows[kind] /\ Matches(open, r)
      /\ i <= run.readAt[kind] /\ Asks(q)
  BY DEF Open, Stored, Selected
<1>2. /\ DOMAIN q = {"by", "outcome", "status", "from", "to"} /\ DOMAIN q.by = Selectors
      /\ \A s \in {"nas", "client"} : q.by[s] = Sought[s]
  BY DEF QueryOf, AccessQuery, SessionQuery, Sought, Selectors
<1>3. \A s \in {"nas", "client"} : Sought[s] = IF run.request.by[s] = Nil THEN FirstHit(s)
                                              ELSE run.request.by[s]
  BY DEF Sought, Selectors
<1> HIDE DEF q
<1>4. /\ open.outcome = q.outcome /\ open.status = q.status /\ open.from = q.from /\ open.to = q.to
      /\ \A s \in Selectors \ {"nas", "client"} : open.by[s] = q.by[s]
      /\ \A s \in {"nas", "client"} : open.by[s] = run.request.by[s]
  BY <1>2 DEF Selectors
<1> HIDE DEF open
<1>5. ASSUME ~Elsewhere(r), NEW s \in Selectors PROVE q.by[s] \in {Nil, r.by[s]}
  <2>1. open.by[s] \in {Nil, r.by[s]}
    BY <1>1 DEF Matches
  <2>2. CASE s \in {"nas", "client"}
    BY <1>2, <1>3, <1>4, <1>5, <2>1, <2>2 DEF Elsewhere
  <2>3. CASE s \notin {"nas", "client"}
    BY <1>4, <2>1, <2>3
  <2> QED
    BY <2>2, <2>3
<1>6. ~Elsewhere(r) => Matches(q, r)
  BY <1>1, <1>4, <1>5 DEF Matches
<1> QED
  BY <1>1, <1>6 DEF Chosen, Stored, Selected, q

\* A rejection or a start that the answer leaves out is elsewhere, cut off or hidden.
LEMMA OverlookedFollows == ReadsInv => NothingOverlooked
<1> SUFFICES ASSUME ReadsInv, run.pc = "explained" PROVE NothingOverlooked
  BY DEF NothingOverlooked
<1> USE DEF ReadsInv
<1> DEFINE c == run.claim
           before(what) == {r \in run.access : r.what = what /\ \A s \in c.start : r.at <= s.at}
           excused(kind, i) == Elsewhere(rows[kind][i]) \/ MayBeCut(kind, i) \/ MayBeHidden(kind, i)
<1>0. /\ "session" \in Kinds /\ RowsRead("session") = run.sessions
      /\ "access" \in Kinds /\ RowsRead("access") = run.access
  BY DEF Kinds, RowsRead
<1>1. /\ IsFiniteSet(run.sessions) /\ run.sessions \subseteq RowsOf("session")
      /\ IsFiniteSet(run.access) /\ run.access \subseteq RowsOf("access")
  BY <1>0, ReadFacts
<1>2. /\ IsFiniteSet(WithStatus("start"))
      /\ IsFiniteSet(before("rejected")) /\ IsFiniteSet(before("accepted"))
  BY <1>1, FS_Subset DEF WithStatus
<1>3. /\ c.start \in Earliest(WithStatus("start"))
      /\ c.rejected \in Latest(before("rejected")) /\ c.accepted \in Latest(before("accepted"))
  <2>1. /\ c.start \in FirstStarts
        /\ c.rejected \in LatestBefore("rejected", c.start)
        /\ c.accepted \in LatestBefore("accepted", c.start)
    BY DEF ClaimInv
  <2>2. FirstStarts = Earliest(WithStatus("start"))
    BY DEF FirstStarts, Earliest, First, Cuts
  <2>3. ASSUME NEW what PROVE LatestBefore(what, c.start) = Latest(before(what))
    BY DEF LatestBefore, Latest, First, Cuts
  <2> HIDE DEF before
  <2> QED
    BY <2>1, <2>2, <2>3
<1>4. c.start = {} => WithStatus("start") = {}
  BY <1>2, <1>3, EarliestFacts
<1>5. ASSUME NEW what \in {"rejected", "accepted"}, NEW T \in Latest(before(what))
      PROVE  /\ before(what) # {} => \E t \in before(what) : T = {t} /\ \A x \in before(what) : x.at <= t.at
             /\ \A t \in T : t \in before(what)
  <2>1. IsFiniteSet(before(what))
    BY <1>2
  <2>2. \A x \in before(what) : x.at \in Int
    BY <1>0, <1>1, RowFacts
  <2> HIDE DEF before
  <2>3. /\ before(what) = {} => T = {}
        /\ before(what) # {} => \E t \in before(what) : T = {t} /\ \A x \in before(what) \ {t} : ~Newer(x, t)
    BY <1>5, <2>1, LatestFacts
  <2>4. ASSUME NEW t \in before(what), \A x \in before(what) \ {t} : ~Newer(x, t)
        PROVE  \A x \in before(what) : x.at <= t.at
    BY <2>2, <2>4 DEF Newer
  <2> QED
    BY <2>3, <2>4
<1>6. ASSUME NEW kind \in Kinds, NEW i \in Open(kind),
             \A k \in RowsRead(kind) : k.id = rows[kind][i].id /\ k.at = rows[kind][i].at
                                          => k.what # rows[kind][i].what
      PROVE  excused(kind, i)
  <2> SUFFICES ASSUME i \in Chosen(kind) PROVE MayBeCut(kind, i) \/ MayBeHidden(kind, i)
    BY OpenPlaces
  <2>1. PICK T \in SUBSET Chosen(kind) : Most(kind, T)
    BY ReadFacts
  <2>2. CASE i \in T
    <3>1. PICK k \in RowsRead(kind) :
            /\ k.id = rows[kind][i].id /\ k.at = rows[kind][i].at /\ k.seen <= rows[kind][i].seen
      BY <2>1, <2>2 DEF Most
    <3>2. PICK j \in T : k = rows[kind][j]
      BY <2>1 DEF Most
    <3>3. k.what # rows[kind][i].what
      BY <1>6, <3>1
    <3> QED
      BY <3>1, <3>2, <3>3 DEF MayBeHidden
  <2>3. CASE i \notin T
    BY <2>1, <2>3 DEF Most
  <2> QED
    BY <2>2, <2>3
<1>7. ASSUME c.start = {}, NEW i \in Open("session"), rows["session"][i].what = "start"
      PROVE  excused("session", i)
  <2>1. \A k \in run.sessions : k.what # "start"
    BY <1>4, <1>7 DEF WithStatus
  <2> QED
    BY <1>0, <1>6, <1>7, <2>1
<1>8. ASSUME NEW i \in Open("access"), rows["access"][i].what = "rejected",
             \A s \in c.start : rows["access"][i].at <= s.at,
             \A named \in c.rejected : rows["access"][i].at > named.at
      PROVE  excused("access", i)
  <2> DEFINE r == rows["access"][i]
  <2>1. ASSUME NEW k \in run.access, k.at = r.at, k.what = "rejected" PROVE FALSE
    <3>1. k \in before("rejected")
      BY <1>8, <2>1
    <3> HIDE DEF before
    <3>2. PICK t \in before("rejected") : c.rejected = {t} /\ \A x \in before("rejected") : x.at <= t.at
      BY <1>3, <1>5, <3>1
    <3>3. k.at <= t.at /\ r.at > t.at
      BY <1>8, <3>1, <3>2
    <3>4. k.at \in Int /\ t.at \in Int
      BY <1>0, <1>1, <3>2, RowFacts DEF before
    <3> QED
      BY <2>1, <3>3, <3>4
  <2> QED
    BY <1>0, <1>6, <1>8, <2>1
<1>9. ASSUME NEW s \in c.start, NEW r \in c.rejected \cup c.accepted PROVE r.at <= s.at
  BY <1>3, <1>5, <1>9
<1> HIDE DEF excused, ReadsInv
<1>10. /\ c.start = {} => \A i \in Open("session") :
              rows["session"][i].what = "start" => excused("session", i)
       /\ \A i \in Open("access") :
              LET r == rows["access"][i] IN
              /\ r.what = "rejected"
              /\ \A s \in c.start : r.at <= s.at
              /\ \A named \in c.rejected : r.at > named.at
              => excused("access", i)
       /\ \A s \in c.start : \A r \in c.rejected \cup c.accepted : r.at <= s.at
  BY <1>7, <1>8, <1>9
<1> QED
  BY <1>10 DEF NothingOverlooked, excused

\* The hits are finitely many, and each names a subscriber.
LEMMA HitFacts ==
    ASSUME StoresInv, HitsInv
    PROVE  /\ IsFiniteSet(Range(run.hits))
           /\ \A h \in Range(run.hits) : h.at \in Int /\ h.by["subscriber"] # Nil
<1>1. Len(run.hits) \in Nat /\ Range(run.hits) = {run.hits[i] : i \in 1..Len(run.hits)}
  BY DEF HitsInv, Range
<1> DEFINE places == 1..Len(run.hits)
<1>2. IsFiniteSet({run.hits[i] : i \in places})
  <2>1. places \in SUBSET (1..Len(run.hits))
    OBVIOUS
  <2> HIDE DEF places
  <2> QED
    BY <1>1, <2>1, PlacesFinite
<1>3. IsFiniteSet(Range(run.hits))
  BY <1>1, <1>2
<1> QED
  BY <1>3, RowFacts DEF HitsInv, StoresInv

\* A run with hits knows a subscriber: the first hit's, unless it was given one.
LEMMA SubscriberKnown ==
    ASSUME StoresInv, HitsInv, NEW h \in Range(run.hits)
    PROVE  Sought["subscriber"] # Nil
<1> DEFINE given == {i \in DOMAIN run.hits : run.hits[i].by["subscriber"] # Nil}
           Later == {p \in given \X given : p[1] < p[2]}
<1>1. given \in SUBSET (1..Len(run.hits)) /\ Len(run.hits) \in Nat
  BY DEF HitsInv
<1>2. IsFiniteSet(given)
  <2> HIDE DEF given
  <2> QED
    BY <1>1, PlacesFinite
<1>3. given # {}
  BY HitFacts DEF Range
<1>4. \E i \in given : \A j \in given : <<j, i>> \notin Later
  <2>1. \A i \in given : <<i, i>> \notin Later
    BY <1>1
  <2>2. \A i, j, k \in given : <<i, j>> \in Later /\ <<j, k>> \in Later => <<i, k>> \in Later
    BY <1>1
  <2> HIDE DEF Later, given
  <2> QED
    BY <1>2, <1>3, <2>1, <2>2, FiniteMaximal
<1>5. \E i \in given : \A j \in given : i <= j
  <2>1. \A i, j \in given : <<j, i>> \notin Later => i <= j
    BY <1>1
  <2> HIDE DEF Later, given
  <2> QED
    BY <1>4, <2>1
<1>6. FirstHit("subscriber") # Nil
  <2> DEFINE first == CHOOSE i \in given : \A j \in given : i <= j
  <2>1. first \in given
    <3> HIDE DEF given
    <3> QED
      BY <1>5
  <2>2. FirstHit("subscriber") = run.hits[first].by["subscriber"]
    BY <1>3 DEF FirstHit
  <2> HIDE DEF first
  <2> QED
    BY <2>1, <2>2
<1>7. Sought["subscriber"] = IF run.request.by["subscriber"] = Nil THEN FirstHit("subscriber")
                             ELSE run.request.by["subscriber"]
  BY DEF Sought, Selectors
<1> QED
  BY <1>6, <1>7

\* A hit of the subscriber, on the NAS and of the client the run narrowed the
\* question to, is matched by the query for its row.
LEMMA HitAskedFor ==
    ASSUME StoresInv, PlaceInv, HitsInv, NEW kind \in Kinds, NEW h \in Range(run.hits),
           h.kind = kind, h.by["subscriber"] = Sought["subscriber"], ~Elsewhere(h)
    PROVE  Matches(QueryOf(kind), h) /\ Asks(QueryOf(kind))
<1>1. IsFiniteSet(Range(run.hits)) /\ \A x \in Range(run.hits) : x.at \in Int
  BY HitFacts
<1>2. Matches(run.request, h)
  BY DEF HitsInv
<1>3. Pad \in Nat /\ run.hits # <<>>
  BY ReadsAssumption DEF Range
<1>4. From = Nil \/ h.at >= From
  <2>1. CASE run.request.from # Nil
    BY <1>2, <2>1 DEF From, Matches
  <2>2. CASE run.request.from = Nil
    <3> DEFINE least == CHOOSE d \in Range(run.hits) : \A x \in Range(run.hits) : d.at <= x.at
    <3>1. \E d \in Range(run.hits) : \A x \in Range(run.hits) : d.at <= x.at
      BY <1>1, FirstAndLast
    <3>2. least \in Range(run.hits) /\ least.at <= h.at
      BY <3>1
    <3>3. From = least.at - Pad
      BY <1>3, <2>2 DEF From
    <3> HIDE DEF least
    <3> QED
      BY <1>1, <1>3, <3>2, <3>3
  <2> QED
    BY <2>1, <2>2
<1>5. To = Nil \/ h.at <= To
  <2>1. CASE run.request.to # Nil
    BY <1>2, <2>1 DEF To, Matches
  <2>2. CASE run.request.to = Nil
    <3> DEFINE most == CHOOSE d \in Range(run.hits) : \A x \in Range(run.hits) : d.at >= x.at
    <3>1. \E d \in Range(run.hits) : \A x \in Range(run.hits) : d.at >= x.at
      BY <1>1, FirstAndLast
    <3>2. most \in Range(run.hits) /\ most.at >= h.at
      BY <3>1
    <3>3. To = most.at + Pad
      BY <1>3, <2>2 DEF To
    <3> HIDE DEF most
    <3> QED
      BY <1>1, <1>3, <3>2, <3>3
  <2> QED
    BY <2>1, <2>2
<1>6. ASSUME NEW s \in Selectors PROVE Sought[s] \in {Nil, h.by[s]}
  <2>1. run.request.by[s] \in {Nil, h.by[s]}
    BY <1>2 DEF Matches
  <2>2. Sought[s] = IF run.request.by[s] = Nil /\ s \in {"subscriber", "nas", "client"}
                    THEN FirstHit(s) ELSE run.request.by[s]
    BY DEF Sought
  <2>3. CASE s \in {"nas", "client"}
    BY <2>1, <2>2, <2>3 DEF Elsewhere
  <2>4. CASE s \notin {"nas", "client"}
    BY <2>1, <2>2, <2>4
  <2> QED
    BY <2>3, <2>4
<1>7. /\ AccessQuery.by = Sought /\ AccessQuery.outcome = run.request.outcome
      /\ AccessQuery.status = Nil /\ AccessQuery.from = From /\ AccessQuery.to = To
  BY DEF AccessQuery
<1>8. /\ SessionQuery.by = [Sought EXCEPT !["request"] = Nil] /\ SessionQuery.outcome = Nil
      /\ SessionQuery.status = Nil /\ SessionQuery.from = From /\ SessionQuery.to = To
  BY DEF AccessQuery, SessionQuery
<1>9. \A s \in Selectors : SessionQuery.by[s] = IF s = "request" THEN Nil ELSE Sought[s]
  BY <1>8 DEF Sought
<1>10. run.request.outcome \in {Nil, h.what}
  BY <1>2 DEF Matches
<1>11. Matches(AccessQuery, h)
  BY <1>4, <1>5, <1>6, <1>7, <1>10 DEF Matches
<1>12. Matches(SessionQuery, h)
  BY <1>4, <1>5, <1>6, <1>8, <1>9 DEF Matches
<1>13. AccessQuery.by["subscriber"] # Nil /\ SessionQuery.by["subscriber"] # Nil
  BY <1>7, <1>9, SubscriberKnown DEF Selectors
<1>14. Asks(AccessQuery) /\ Asks(SessionQuery)
  BY <1>13 DEF Asks, Selectors
<1> QED
  BY <1>11, <1>12, <1>14 DEF QueryOf

\* What the run missed of its hits was not projected when it read.
LEMMA ExplainedFollows == ReadsInv => HitsAreExplained
<1> SUFFICES ASSUME ReadsInv, run.pc = "explained",
                    NEW kind \in Kinds, Phase(kind) \in Range(Plan(run.request)),
                    NEW h \in Missed(kind), NEW other \in Missed(kind)
             PROVE  (\A i \in 1..run.readAt[kind] : rows[kind][i] # h) /\ other = h
  BY DEF HitsAreExplained
<1> USE DEF ReadsInv
<1>1. ASSUME NEW g \in Missed(kind), NEW i \in 1..run.readAt[kind], rows[kind][i] = g PROVE FALSE
  <2>1. /\ g \in Range(run.hits) /\ g.kind = kind
        /\ g.by["subscriber"] = Sought["subscriber"] /\ ~Elsewhere(g)
        /\ \A r \in RowsRead(kind) : r.id # g.id
        /\ ~\E j \in Chosen(kind) : rows[kind][j] = g /\ MayBeCut(kind, j)
    BY DEF Missed
  <2>2. i \in 1..Len(rows[kind]) /\ i <= run.readAt[kind]
    BY DEF PlaceInv, StoresInv
  <2>3. i \in Chosen(kind)
    BY <1>1, <2>1, <2>2, HitAskedFor, ChosenPlaces
  <2>4. PICK T \in SUBSET Chosen(kind) : Most(kind, T)
    BY ReadFacts
  <2> QED
    BY <1>1, <2>1, <2>3, <2>4 DEF Most
<1>2. Phase(kind) \in Range(Plan(run.request)) \ Range(run.todo)
  BY DEF PlaceInv, Range
<1>3. h \in Range(run.hits) /\ other \in Range(run.hits) /\ h.kind = kind /\ other.kind = kind
  BY DEF Missed
<1> QED
  BY <1>1, <1>2, <1>3 DEF LateInv

-----------------------------------------------------------------------------
(* The invariant holds initially *)

\* Nothing is written, asked or read at first.
LEMMA ReadsInit == Init => ReadsInv
<1> SUFFICES ASSUME Init PROVE ReadsInv
  OBVIOUS
<1>0. Kinds = {"access", "session"}
  BY DEF Kinds
<1>1. PICK r \in Requests : run = [Asked(r) EXCEPT !.pc = "idle"]
  BY ReadsAssumption DEF Init
<1>2. /\ run.pc = "idle" /\ run.request = r /\ run.todo = Plan(r)
      /\ run.hits = <<>> /\ run.access = {} /\ run.sessions = {}
      /\ run.readAt = [access |-> 0, session |-> 0]
      /\ DOMAIN run = {"pc", "request", "todo", "hits", "access", "sessions",
                       "claim", "finding", "answer", "readAt"}
  BY <1>1 DEF Asked
<1>3. /\ \A kind \in Kinds : rows[kind] = <<>> /\ ahead[kind] = {} /\ clock[kind] = 1
      /\ rows = [kind \in Kinds |-> <<>>] /\ ahead = [kind \in Kinds |-> {}]
      /\ clock = [kind \in Kinds |-> 1] /\ docs = <<>>
  BY DEF Init
<1>4. StoresInv
  <2>1. \A kind \in Kinds : Written(kind) = {}
    BY <1>3 DEF Written, Range
  <2>2. rows \in [Kinds -> Seq(AllRows)] /\ docs \in Seq(Written("access") \cup Written("session"))
    BY <1>3
  <2> QED
    BY <1>3, <2>1, <2>2 DEF StoresInv
<1>5. PlaceInv
  <2>1. DOMAIN run.readAt = Kinds /\ \A kind \in Kinds : run.readAt[kind] = 0
    BY <1>0, <1>2
  <2>2. \A kind \in Kinds : Len(rows[kind]) = 0
    BY <1>3
  <2> QED
    BY <1>2, <2>1, <2>2 DEF PlaceInv
<1>6. HitsInv /\ LateInv /\ ClaimInv
  BY <1>2 DEF HitsInv, LateInv, ClaimInv, Range
<1>7. ReadInv
  <2>1. ASSUME NEW kind \in Kinds PROVE RowsRead(kind) \in ByID({rows[kind][i] : i \in {}})
    <3>1. RowsRead(kind) = {}
      BY <1>2 DEF RowsRead
    <3> QED
      BY <3>1 DEF ByID
  <2>2. ASSUME NEW kind \in Kinds PROVE Chosen(kind) = {}
    BY <1>0, <1>2, <1>3, <1>4, ChosenPlaces
  <2> QED
    BY <2>1, <2>2 DEF ReadInv, WellRead
<1> QED
  BY <1>4, <1>5, <1>6, <1>7 DEF ReadsInv

-----------------------------------------------------------------------------
(* The stores *)

\* Stores only grow.
Grown ==
    \A kind \in Kinds :
        /\ Len(rows[kind]) <= Len(rows'[kind])
        /\ \A i \in 1..Len(rows[kind]) : rows'[kind][i] = rows[kind][i]
        /\ Written(kind) \subseteq Written(kind)'

\* Stores that stand still have their invariant still.
LEMMA StoresStand == StoresInv /\ UNCHANGED <<clock, rows, ahead, docs>> => StoresInv' /\ Grown
BY DEF StoresInv, Grown, Written

\* What was written is a row of some kind.
LEMMA WrittenRows == StoresInv => Written("access") \cup Written("session") \subseteq AllRows
BY DEF StoresInv, AllRows, Kinds

\* Every action keeps the stores' invariant, and lets them only grow.
LEMMA StoresStep == StoresInv /\ [Next]_vars => StoresInv' /\ Grown
<1> SUFFICES ASSUME StoresInv, [Next]_vars PROVE StoresInv' /\ Grown
  OBVIOUS
<1> DEFINE all == Written("access") \cup Written("session")
<1>0. "access" \in Kinds /\ "session" \in Kinds /\ \A kind \in Kinds : RowsOf(kind) \subseteq AllRows
  BY DEF Kinds, AllRows
<1>1. CASE WriteRow
  <2>1. PICK e \in Events, d \in Ticks :
          /\ ahead[e.kind] = {}
          /\ clock' = [clock EXCEPT ![e.kind] = @ + d]
          /\ ahead' = [ahead EXCEPT ![e.kind] = {Row(e, clock'[e.kind])}]
          /\ UNCHANGED <<rows, docs>>
    BY <1>1 DEF WriteRow
  <2>2. d \in Nat /\ e.kind \in Kinds
    BY RowType, ReadsAssumption
  <2>3. clock' \in [Kinds -> Nat]
    BY <2>1, <2>2 DEF StoresInv
  <2> DEFINE row == Row(e, clock'[e.kind])
  <2>4. row \in RowsOf(e.kind)
    BY <2>2, <2>3, RowType
  <2>5. /\ ahead'[e.kind] = {row}
        /\ \A kind \in Kinds \ {e.kind} : ahead'[kind] = ahead[kind]
    BY <2>1, <2>2 DEF StoresInv
  <2> HIDE DEF row
  <2>6. ahead' \in [Kinds -> SUBSET AllRows]
    BY <1>0, <2>1, <2>2, <2>4, <2>5 DEF StoresInv, row
  <2>7. ASSUME NEW kind \in Kinds
        PROVE  /\ Written(kind)' \subseteq RowsOf(kind) /\ Written(kind) \subseteq Written(kind)'
               /\ \A r, s \in ahead'[kind] : r = s
    BY <2>1, <2>2, <2>4, <2>5 DEF StoresInv, Written
  <2>8. docs' \in Seq(Written("access")' \cup Written("session")')
    BY <1>0, <2>1, <2>7 DEF StoresInv
  <2> QED
    BY <2>1, <2>3, <2>6, <2>7, <2>8 DEF StoresInv, Grown
<1>2. CASE StoreRow
  <2>0. PICK kind \in Kinds : \E row \in Written(kind) :
          /\ rows' = [rows EXCEPT ![kind] = Append(@, row)]
          /\ ahead' = [ahead EXCEPT ![kind] = @ \ {row}]
          /\ UNCHANGED <<clock, docs>>
    BY <1>2 DEF StoreRow, Written
  <2>1. PICK row \in Written(kind) :
          /\ rows' = [rows EXCEPT ![kind] = Append(@, row)]
          /\ ahead' = [ahead EXCEPT ![kind] = @ \ {row}]
          /\ UNCHANGED <<clock, docs>>
    BY <2>0
  <2>2. row \in RowsOf(kind) /\ row \in AllRows
    BY <1>0, <2>1 DEF StoresInv
  <2>3. /\ rows'[kind] = Append(rows[kind], row) /\ ahead'[kind] = ahead[kind] \ {row}
        /\ \A k \in Kinds \ {kind} : rows'[k] = rows[k] /\ ahead'[k] = ahead[k]
    BY <2>1 DEF StoresInv
  <2>4. rows[kind] \in Seq(AllRows)
    BY DEF StoresInv
  <2>5. /\ Append(rows[kind], row) \in Seq(AllRows)
        /\ Len(Append(rows[kind], row)) = Len(rows[kind]) + 1
        /\ \A i \in 1..Len(rows[kind]) : Append(rows[kind], row)[i] = rows[kind][i]
        /\ Append(rows[kind], row)[Len(rows[kind]) + 1] = row
    BY <2>2, <2>4
  <2>6. Range(rows'[kind]) = Range(rows[kind]) \cup {row}
    BY <2>3, <2>4, <2>5 DEF Range
  <2>7. rows' \in [Kinds -> Seq(AllRows)] /\ ahead' \in [Kinds -> SUBSET AllRows]
    BY <2>1, <2>5 DEF StoresInv
  <2>8. ASSUME NEW k \in Kinds
        PROVE  /\ Written(k)' = Written(k)
               /\ \A r, s \in ahead'[k] : r = s
    BY <2>1, <2>3, <2>6 DEF StoresInv, Written
  <2>9. docs' \in Seq(Written("access")' \cup Written("session")')
    BY <1>0, <2>1, <2>8 DEF StoresInv
  <2>10. ASSUME NEW k \in Kinds
         PROVE  /\ Len(rows[k]) <= Len(rows'[k])
                /\ \A i \in 1..Len(rows[k]) : rows'[k][i] = rows[k][i]
    <3>1. rows[k] \in Seq(AllRows)
      BY DEF StoresInv
    <3>2. CASE k = kind
      BY <2>3, <2>4, <2>5, <3>2
    <3>3. CASE k # kind
      BY <2>3, <3>1, <3>3
    <3> QED
      BY <3>2, <3>3
  <2> QED
    BY <2>1, <2>7, <2>8, <2>9, <2>10 DEF StoresInv, Grown
<1>3. CASE IndexRow
  <2>0. PICK kind \in Kinds : \E row \in Written(kind) : docs' = Append(docs, row)
    BY <1>3 DEF IndexRow, Written
  <2>1. PICK row \in Written(kind) : docs' = Append(docs, row)
    BY <2>0
  <2>2. UNCHANGED <<clock, rows, ahead>>
    BY <1>3 DEF IndexRow
  <2>3. \A k \in Kinds : Written(k)' = Written(k)
    BY <2>2 DEF Written
  <2>4. row \in all
    BY <2>1 DEF Kinds
  <2>5. docs' \in Seq(all)
    <3>1. docs \in Seq(all)
      BY DEF StoresInv
    <3> HIDE DEF all
    <3> QED
      BY <2>1, <2>4, <3>1
  <2> QED
    BY <1>0, <2>2, <2>3, <2>5 DEF StoresInv, Grown
<1>4. CASE UNCHANGED <<clock, rows, ahead, docs>>
  BY <1>4, StoresStand
<1>5. CASE Ask \/ Retrieve \/ ReadAccess \/ ReadSessions \/ Explain \/ UNCHANGED vars
  BY <1>4, <1>5 DEF Ask, Retrieve, ReadAccess, ReadSessions, Explain, vars
<1> QED
  BY <1>1, <1>2, <1>3, <1>5 DEF Next

-----------------------------------------------------------------------------
(* The investigation *)

\* What was read stays what it was while the stores grow.
LEMMA WellReadKept ==
    ASSUME StoresInv, StoresInv', Grown, PlaceInv, NEW kind \in Kinds, WellRead(kind),
           QueryOf(kind)' = QueryOf(kind), run'.readAt[kind] = run.readAt[kind],
           RowsRead(kind)' = RowsRead(kind)
    PROVE  WellRead(kind)'
<1>1. Chosen(kind)' = Chosen(kind) /\ \A i \in Chosen(kind) : rows'[kind][i] = rows[kind][i]
  BY ChosenKept DEF Grown
<1>2. PICK T \in SUBSET Chosen(kind) :
        /\ RowsRead(kind) \in ByID({rows[kind][i] : i \in T})
        /\ \A i \in Chosen(kind) \ T :
              Cardinality(T) = Limit /\ \A j \in T : ~Newer(rows[kind][i], rows[kind][j])
  BY DEF WellRead
<1>3. {rows'[kind][i] : i \in T} = {rows[kind][i] : i \in T}
  BY <1>1
<1>4. RowsRead(kind)' \in ByID({rows'[kind][i] : i \in T})
  BY <1>2, <1>3
<1>5. \A i \in Chosen(kind)' \ T :
          Cardinality(T) = Limit /\ \A j \in T : ~Newer(rows'[kind][i], rows'[kind][j])
  BY <1>1, <1>2
<1>6. T \in SUBSET (Chosen(kind)')
  BY <1>1
<1> QED
  BY <1>4, <1>5, <1>6 DEF WellRead

\* Nothing was chosen from a store that was not read.
LEMMA NothingChosen ==
    ASSUME StoresInv, NEW kind \in Kinds, run.readAt[kind] = 0
    PROVE  Chosen(kind) = {} /\ (WellRead(kind) => RowsRead(kind) = {})
<1>1. Chosen(kind) = {}
  <2>1. \A i \in 1..Len(rows[kind]) : ~(i <= run.readAt[kind])
    BY DEF StoresInv
  <2> QED
    BY <2>1, ChosenPlaces
<1>2. ASSUME WellRead(kind) PROVE RowsRead(kind) = {}
  <2>1. RowsRead(kind) \in ByID({rows[kind][i] : i \in {}})
    BY <1>1, <1>2 DEF WellRead
  <2> QED
    BY <2>1 DEF ByID
<1> QED
  BY <1>1, <1>2

\* A store that is not read yet has been read well.
LEMMA NothingRead ==
    ASSUME StoresInv', NEW kind \in Kinds, run'.readAt[kind] = 0, RowsRead(kind)' = {}
    PROVE  WellRead(kind)'
<1>1. \A i \in 1..Len(rows'[kind]) : ~(i <= run'.readAt[kind])
  BY DEF StoresInv
<1>2. Chosen(kind)' = {}
  BY <1>1 DEF Chosen, Stored, Selected, StoresInv
<1>3. RowsRead(kind)' \in ByID({rows'[kind][i] : i \in {}})
  BY DEF ByID
<1> QED
  BY <1>2, <1>3 DEF WellRead

\* What searchAccess and searchSessions return was read well.
LEMMA FetchedWell ==
    ASSUME StoresInv, NEW kind \in Kinds, UNCHANGED rows, QueryOf(kind)' = QueryOf(kind),
           run'.readAt[kind] = Len(rows[kind]),
           RowsRead(kind)' \in IF Asks(QueryOf(kind)) THEN Fetch(rows[kind], QueryOf(kind)) ELSE {{}}
    PROVE  WellRead(kind)'
<1> DEFINE q == QueryOf(kind)
           store == rows[kind]
<1>0. store \in Seq(AllRows) /\ Len(store) \in Nat
  BY DEF StoresInv
<1>1. \A i : i \in Chosen(kind)' <=> i \in Selected(store, q) /\ Asks(q)
  <2>1. \A i : i \in Chosen(kind)' <=> /\ i \in Selected(rows'[kind], QueryOf(kind)')
                                      /\ i <= run'.readAt[kind] /\ Asks(QueryOf(kind)')
    BY DEF Chosen, Stored
  <2>2. \A i \in Selected(store, q) : i <= Len(store)
    BY <1>0 DEF Selected
  <2> QED
    BY <2>1, <2>2
<1> HIDE DEF q
<1>2. CASE Asks(q)
  <2>1. Chosen(kind)' = Selected(store, q)
    BY <1>1, <1>2
  <2>2. PICK T \in SearchRows(store, q) : RowsRead(kind)' \in ByID({store[i] : i \in T})
    BY <1>2 DEF Fetch, q
  <2>3. IsFiniteSet(Selected(store, q))
    <3>1. Selected(store, q) \in SUBSET (1..Len(store))
      BY <1>0 DEF Selected
    <3> QED
      BY <1>0, <3>1, PlacesFinite
  <2>4. /\ T \in SUBSET Selected(store, q)
        /\ \A i \in Selected(store, q) \ T :
              Cardinality(T) = Limit /\ \A j \in T : ~Newer(store[i], store[j])
    BY <2>2, <2>3, RowsCut
  <2>5. T \in SUBSET (Chosen(kind)')
    BY <2>1, <2>4
  <2>6. RowsRead(kind)' \in ByID({rows'[kind][i] : i \in T})
    BY <2>2
  <2>7. \A i \in Chosen(kind)' \ T :
            Cardinality(T) = Limit /\ \A j \in T : ~Newer(rows'[kind][i], rows'[kind][j])
    BY <2>1, <2>4
  <2> QED
    BY <2>5, <2>6, <2>7 DEF WellRead
<1>3. CASE ~Asks(q)
  <2>1. Chosen(kind)' = {}
    BY <1>1, <1>3
  <2>2. RowsRead(kind)' = {}
    BY <1>3 DEF q
  <2>3. RowsRead(kind)' \in ByID({rows'[kind][i] : i \in {}})
    BY <2>2 DEF ByID
  <2> QED
    BY <2>1, <2>3 DEF WellRead
<1> QED
  BY <1>2, <1>3

\* Answers are made of what was read.
LEMMA SaysTheSame ==
    ASSUME run'.request = run.request, run'.hits = run.hits,
           run'.access = run.access, run'.sessions = run.sessions
    PROVE  /\ FirstStarts' = FirstStarts /\ LastStops' = LastStops
           /\ LatestSessions' = LatestSessions
           /\ \A what, start : LatestBefore(what, start)' = LatestBefore(what, start)
           /\ \A c, stop, latest : Answer(c, stop, latest)' = Answer(c, stop, latest)
<1>1. \A status : WithStatus(status)' = WithStatus(status)
  BY DEF WithStatus
<1>2. FirstStarts' = FirstStarts
  BY <1>1 DEF FirstStarts, First, Cuts
<1>3. LastStops' = LastStops
  BY <1>1 DEF LastStops, First, Cuts
<1>4. LatestSessions' = LatestSessions
  BY DEF LatestSessions, First, Cuts
<1>5. ASSUME NEW what, NEW start PROVE LatestBefore(what, start)' = LatestBefore(what, start)
  BY DEF LatestBefore, First, Cuts
<1>6. ASSUME NEW c, NEW stop, NEW latest PROVE Answer(c, stop, latest)' = Answer(c, stop, latest)
  BY DEF Answer, StatusAnswer, MembershipAnswer, DisconnectAnswer
<1> QED
  BY <1>2, <1>3, <1>4, <1>5, <1>6

\* While the run stands still, the stores may grow.
LEMMA RunStands == ASSUME ReadsInv, StoresInv', Grown, UNCHANGED run PROVE ReadsInv'
<1> USE DEF ReadsInv
<1>1. PlaceInv'
  <2>1. ASSUME NEW kind \in Kinds PROVE run.readAt[kind] \in 0..Len(rows'[kind])
    <3>1. /\ run.readAt[kind] \in 0..Len(rows[kind])
          /\ Len(rows[kind]) \in Nat /\ Len(rows'[kind]) \in Nat /\ Len(rows[kind]) <= Len(rows'[kind])
      BY DEF PlaceInv, StoresInv, Grown
    <3> QED
      BY <3>1
  <2> QED
    BY <2>1 DEF PlaceInv
<1>2. HitsInv'
  BY DEF HitsInv, Grown
<1>3. LateInv'
  <2>1. ASSUME NEW kind \in Kinds, NEW i \in 1..run.readAt[kind] PROVE rows'[kind][i] = rows[kind][i]
    <3>1. run.readAt[kind] \in 0..Len(rows[kind]) /\ Len(rows[kind]) \in Nat
      BY DEF PlaceInv, StoresInv
    <3>2. i \in 1..Len(rows[kind])
      BY <3>1
    <3> QED
      BY <3>2 DEF Grown
  <2> QED
    BY <2>1 DEF LateInv
<1>4. ReadInv'
  <2>1. ASSUME NEW kind \in Kinds PROVE WellRead(kind)'
    <3>1. QueryOf(kind)' = QueryOf(kind)
      BY QueryKept
    <3>2. RowsRead(kind)' = RowsRead(kind) /\ WellRead(kind)
      BY DEF RowsRead, ReadInv
    <3> QED
      BY <3>1, <3>2, WellReadKept
  <2> QED
    BY <2>1 DEF ReadInv
<1>5. ClaimInv'
  BY SaysTheSame DEF ClaimInv
<1> QED
  BY <1>1, <1>2, <1>3, <1>4, <1>5

\* Asking starts over with nothing read.
LEMMA AskStep == ReadsInv /\ Ask => ReadsInv'
<1> SUFFICES ASSUME ReadsInv, Ask PROVE ReadsInv'
  OBVIOUS
<1>1. UNCHANGED <<clock, rows, ahead, docs>> /\ StoresInv'
  BY StoresStand DEF Ask, ReadsInv
<1>2. PICK r \in Requests : run' = Asked(r)
  BY DEF Ask
<1>3. /\ run'.pc = "reading" /\ run'.request = r /\ run'.todo = Plan(r)
      /\ run'.hits = <<>> /\ run'.access = {} /\ run'.sessions = {}
      /\ run'.readAt = [access |-> 0, session |-> 0]
      /\ DOMAIN run' = {"pc", "request", "todo", "hits", "access", "sessions",
                        "claim", "finding", "answer", "readAt"}
  BY <1>2 DEF Asked
<1>4. DOMAIN run'.readAt = Kinds /\ \A kind \in Kinds : run'.readAt[kind] = 0
  BY <1>3 DEF Kinds
<1>5. PlaceInv'
  <2>1. \A kind \in Kinds : 0 \in 0..Len(rows'[kind])
    BY <1>1 DEF StoresInv
  <2> QED
    BY <1>3, <1>4, <2>1 DEF PlaceInv
<1>6. HitsInv' /\ LateInv' /\ ClaimInv'
  BY <1>3 DEF HitsInv, LateInv, ClaimInv, Range
<1>7. ReadInv'
  <2>1. \A kind \in Kinds : RowsRead(kind)' = {}
    BY <1>3 DEF RowsRead
  <2> QED
    BY <1>1, <1>4, <2>1, NothingRead DEF ReadInv
<1> QED
  BY <1>1, <1>5, <1>6, <1>7 DEF ReadsInv

\* The search of the retrieval store returns documents that match.
LEMMA HitsFound ==
    ASSUME StoresInv, NEW q, NEW hits \in SearchDocs(q)
    PROVE  /\ hits \in Seq(AllRows)
           /\ \A h \in Range(hits) : (\E kind \in Kinds : h \in Written(kind)) /\ Matches(q, h)
<1> DEFINE places == {i \in 1..Len(docs) : Matches(q, docs[i])}
<1>1. docs \in Seq(Written("access") \cup Written("session")) /\ Len(docs) \in Nat
  BY DEF StoresInv
<1>2. PICK T \in SUBSET Found(q) : hits \in SetToSeqs(T)
  BY DEF SearchDocs, Cuts
<1>3. Found(q) \subseteq {docs[i] : i \in places}
  BY <1>1 DEF Found
<1>4. IsFiniteSet({docs[i] : i \in places})
  <2>1. places \in SUBSET (1..Len(docs))
    OBVIOUS
  <2> HIDE DEF places
  <2> QED
    BY <1>1, <2>1, PlacesFinite
<1>5. IsFiniteSet(T)
  <2>1. T \in SUBSET {docs[i] : i \in places}
    BY <1>2, <1>3
  <2> HIDE DEF places
  <2> QED
    BY <1>4, <2>1, FS_Subset
<1>6. ASSUME NEW h \in T PROVE (\E kind \in Kinds : h \in Written(kind)) /\ Matches(q, h)
  <2>1. PICK i \in 1..Len(docs) : h = docs[i] /\ Matches(q, docs[i])
    BY <1>2, <1>3
  <2>2. h \in Written("access") \cup Written("session")
    BY <1>1, <2>1
  <2> QED
    BY <2>1, <2>2 DEF Kinds
<1>7. hits \in [1..Cardinality(T) -> T] /\ Cardinality(T) \in Nat
  BY <1>2, <1>5, FS_CardinalityType DEF SetToSeqs
<1>8. T \subseteq AllRows
  BY <1>6, WrittenRows DEF Kinds
<1>9. hits \in Seq(AllRows)
  BY <1>7, <1>8
<1>10. Range(hits) \subseteq T
  BY <1>7 DEF Range
<1> QED
  BY <1>6, <1>9, <1>10

\* The retrieval store is searched before the others are read.
LEMMA RetrieveStep == ReadsInv /\ Retrieve => ReadsInv'
<1> SUFFICES ASSUME ReadsInv, Retrieve PROVE ReadsInv'
  OBVIOUS
<1> USE DEF ReadsInv
<1>1. UNCHANGED <<clock, rows, ahead, docs>> /\ StoresInv'
  BY StoresStand DEF Retrieve
<1>2. /\ run.pc = "reading" /\ run.todo # <<>> /\ Head(run.todo) = "retrieve"
  BY DEF Retrieve, At
<1>3. PICK hits \in SearchDocs(run.request) : run' = [run EXCEPT !.hits = hits, !.todo = Tail(@)]
  BY DEF Retrieve
<1>5. /\ run'.pc = "reading" /\ run'.request = run.request /\ run'.todo = Tail(run.todo)
      /\ run'.hits = hits /\ run'.access = run.access /\ run'.sessions = run.sessions
      /\ run'.readAt = run.readAt /\ DOMAIN run' = DOMAIN run
  BY <1>2, <1>3 DEF PlaceInv
<1>6. run.todo = Plan(run.request) /\ \A kind \in Kinds : run.readAt[kind] = 0
  BY <1>2 DEF PlaceInv
<1>7. \/ Plan(run.request) = <<"retrieve">> /\ run'.todo = <<>>
      \/ Plan(run.request) = <<"retrieve", "access", "sessions">> /\ run'.todo = <<"access", "sessions">>
  <2>1. Plan(run.request) \in {<<"sessions", "access">>, <<"retrieve">>, <<"sessions">>,
                               <<"retrieve", "access", "sessions">>}
    BY DEF Plan
  <2>2. Head(Plan(run.request)) = "retrieve" /\ run'.todo = Tail(Plan(run.request))
    BY <1>2, <1>5, <1>6
  <2>3. CASE Plan(run.request) = <<"sessions", "access">>
    BY <2>2, <2>3
  <2>4. CASE Plan(run.request) = <<"retrieve">>
    BY <2>2, <2>4
  <2>5. CASE Plan(run.request) = <<"sessions">>
    BY <2>2, <2>5
  <2>6. CASE Plan(run.request) = <<"retrieve", "access", "sessions">>
    BY <2>2, <2>6
  <2> QED
    BY <2>1, <2>3, <2>4, <2>5, <2>6
<1>8. PlaceInv'
  <2>1. \A kind \in Kinds : run'.readAt[kind] \in 0..Len(rows'[kind])
    BY <1>1, <1>5 DEF PlaceInv
  <2>2. run'.todo \in {<<"access", "sessions">>, <<>>}
    BY <1>7
  <2> QED
    BY <1>5, <2>1, <2>2 DEF PlaceInv
<1>9. HitsInv'
  <2>1. hits \in Seq(AllRows)
        /\ \A h \in Range(hits) : (\E kind \in Kinds : h \in Written(kind)) /\ Matches(run.request, h)
    BY <1>3, HitsFound
  <2>2. \A kind \in Kinds : Written(kind)' = Written(kind)
    BY <1>1 DEF Written
  <2> QED
    BY <1>5, <2>1, <2>2 DEF HitsInv
<1>10. LateInv'
  <2>1. ASSUME NEW kind \in Kinds PROVE Phase(kind) \notin Range(Plan(run.request)) \ Range(run'.todo)
    BY <1>7 DEF Phase, Range
  <2> QED
    BY <1>5, <2>1 DEF LateInv
<1>11. ReadInv'
  <2>1. ASSUME NEW kind \in Kinds PROVE RowsRead(kind)' = {} /\ run'.readAt[kind] = 0
    <3>1. RowsRead(kind) = {}
      BY <1>6, NothingChosen DEF ReadInv
    <3> QED
      BY <1>5, <1>6, <3>1 DEF RowsRead
  <2> QED
    BY <1>1, <2>1, NothingRead DEF ReadInv
<1>12. ClaimInv'
  BY <1>5 DEF ClaimInv
<1> QED
  BY <1>1, <1>8, <1>9, <1>10, <1>11, <1>12

\* The run while it reads the store of a kind.
Reads(kind) ==
    /\ UNCHANGED <<clock, rows, ahead, docs>>
    /\ run.pc = "reading" /\ run'.pc = "reading"
    /\ run.todo # <<>> /\ Head(run.todo) = Phase(kind) /\ run'.todo = Tail(run.todo)
    /\ run'.request = run.request /\ run'.hits = run.hits
    /\ DOMAIN run' = DOMAIN run /\ DOMAIN run'.readAt = Kinds
    /\ run'.readAt[kind] = Len(rows[kind])
    /\ RowsRead(kind)' \in IF Asks(QueryOf(kind)) THEN Fetch(rows[kind], QueryOf(kind)) ELSE {{}}
    /\ \A other \in Kinds \ {kind} :
          run'.readAt[other] = run.readAt[other] /\ RowsRead(other)' = RowsRead(other)

\* Reading a store ends one phase and no other.
LEMMA PhaseEnds ==
    ASSUME PlaceInv, NEW kind \in Kinds, Reads(kind)
    PROVE  /\ run'.todo \in {<<"access", "sessions">>, <<"sessions">>, <<"access">>, <<>>}
           /\ Range(run.todo) \subseteq Range(run'.todo) \cup {Phase(kind)}
<1> DEFINE Places == {<<"access", "sessions">>, <<"sessions">>, <<"access">>, <<"sessions", "access">>}
<1>1. Phase(kind) \in {"access", "sessions"}
  BY DEF Phase
<1>2. /\ run.todo # <<>> /\ Head(run.todo) \in {"access", "sessions"}
      /\ Head(run.todo) = Phase(kind) /\ run'.todo = Tail(run.todo)
  BY <1>1 DEF Reads
<1>3. run.todo \in Places
  <2>1. Plan(run.request) \in {<<"sessions", "access">>, <<"retrieve">>, <<"sessions">>,
                               <<"retrieve", "access", "sessions">>}
    BY DEF Plan
  <2>2. Head(<<"retrieve">>) = "retrieve" /\ Head(<<"retrieve", "access", "sessions">>) = "retrieve"
    OBVIOUS
  <2>3. CASE run.todo = Plan(run.request)
    BY <1>2, <2>1, <2>2, <2>3
  <2> QED
    BY <1>2, <2>3 DEF PlaceInv
<1>4. ASSUME NEW todo \in Places
      PROVE  /\ Tail(todo) \in {<<"access", "sessions">>, <<"sessions">>, <<"access">>, <<>>}
             /\ Range(todo) = Range(Tail(todo)) \cup {Head(todo)}
  <2>1. CASE todo = <<"access", "sessions">>
    BY <2>1 DEF Range
  <2>2. CASE todo = <<"sessions", "access">>
    BY <2>2 DEF Range
  <2>3. CASE todo = <<"access">>
    BY <2>3 DEF Range
  <2>4. CASE todo = <<"sessions">>
    BY <2>4 DEF Range
  <2> QED
    BY <2>1, <2>2, <2>3, <2>4
<1> HIDE DEF Places
<1> QED
  BY <1>2, <1>3, <1>4

\* Reading a store keeps the invariant.
LEMMA StoreReadStep ==
    ASSUME ReadsInv, NEW kind \in Kinds, Reads(kind)
    PROVE  ReadsInv'
<1> USE DEF ReadsInv
<1>1. UNCHANGED <<clock, rows, ahead, docs>> /\ StoresInv' /\ Grown
  BY StoresStand DEF Reads
<1>2. PlaceInv'
  <2>1. ASSUME NEW k \in Kinds PROVE run'.readAt[k] \in 0..Len(rows'[k])
    <3>1. Len(rows'[k]) \in Nat /\ rows' = rows
      BY <1>1 DEF StoresInv
    <3>2. CASE k = kind
      BY <3>1, <3>2 DEF Reads
    <3>3. CASE k # kind
      BY <3>1, <3>3 DEF Reads, PlaceInv
    <3> QED
      BY <3>2, <3>3
  <2> QED
    BY <2>1, PhaseEnds DEF Reads, PlaceInv
<1>3. \A k \in Kinds : Written(k)' = Written(k)
  BY <1>1 DEF Written
<1>4. HitsInv'
  BY <1>3 DEF HitsInv, Reads
<1>5. LateInv'
  <2> SUFFICES ASSUME NEW k \in Kinds, Phase(k) \in Range(Plan(run.request)) \ Range(run'.todo),
                      NEW g \in Range(run.hits), NEW h \in Range(run.hits), g.kind = k, h.kind = k,
                      \A i \in 1..run'.readAt[k] : rows[k][i] \notin {g, h}
               PROVE  g = h
    BY <1>1 DEF LateInv, Reads
  <2>1. CASE k = kind
    <3>1. ASSUME NEW x \in {g, h} PROVE x \in ahead[kind]
      <4>1. x \in Written(kind)
        BY <2>1, RowFacts DEF HitsInv, StoresInv
      <4>2. x \notin Range(rows[kind])
        BY <2>1 DEF Reads, Range, StoresInv
      <4> QED
        BY <4>1, <4>2 DEF Written
    <3> QED
      BY <3>1 DEF StoresInv
  <2>2. CASE k # kind
    <3>1. Phase(k) # Phase(kind)
      BY <2>2 DEF Phase, Kinds
    <3>2. Phase(k) \in Range(Plan(run.request)) \ Range(run.todo)
      BY <3>1, PhaseEnds
    <3>3. run'.readAt[k] = run.readAt[k]
      BY <2>2 DEF Reads
    <3> QED
      BY <3>2, <3>3 DEF LateInv
  <2> QED
    BY <2>1, <2>2
<1>6. ReadInv'
  <2>1. ASSUME NEW k \in Kinds PROVE WellRead(k)'
    <3>1. QueryOf(k)' = QueryOf(k)
      BY QueryKept DEF Reads
    <3>2. CASE k = kind
      <4>1. /\ UNCHANGED rows /\ run'.readAt[k] = Len(rows[k])
            /\ RowsRead(k)' \in IF Asks(QueryOf(k)) THEN Fetch(rows[k], QueryOf(k)) ELSE {{}}
        BY <3>2 DEF Reads
      <4> QED
        BY <3>1, <4>1, FetchedWell
    <3>3. CASE k # kind
      <4>1. run'.readAt[k] = run.readAt[k] /\ RowsRead(k)' = RowsRead(k) /\ WellRead(k)
        BY <3>3 DEF Reads, ReadInv
      <4> QED
        BY <1>1, <3>1, <4>1, WellReadKept
    <3> QED
      BY <3>2, <3>3
  <2> QED
    BY <2>1 DEF ReadInv
<1>7. ClaimInv'
  BY DEF ClaimInv, Reads
<1> QED
  BY <1>1, <1>2, <1>4, <1>5, <1>6, <1>7

\* ReadAccess and ReadSessions are such steps.
LEMMA ReadsOne ==
    ASSUME StoresInv, PlaceInv
    PROVE  (ReadAccess => Reads("access")) /\ (ReadSessions => Reads("session"))
<1>1. ASSUME ReadAccess PROVE Reads("access")
  <2>1. PICK found \in IF Asks(AccessQuery) THEN Fetch(rows.access, AccessQuery) ELSE {{}} :
          run' = [run EXCEPT !.access = found, !.todo = Tail(@), !.readAt.access = Len(rows.access)]
    BY <1>1 DEF ReadAccess
  <2>2. /\ run'.pc = run.pc /\ run'.request = run.request /\ run'.todo = Tail(run.todo)
        /\ run'.hits = run.hits
        /\ run'.access = found /\ run'.sessions = run.sessions
        /\ run'.readAt = [run.readAt EXCEPT !.access = Len(rows.access)]
        /\ DOMAIN run' = DOMAIN run
    BY <2>1 DEF PlaceInv
  <2>3. /\ DOMAIN run'.readAt = Kinds /\ run'.readAt["access"] = Len(rows["access"])
        /\ run'.readAt["session"] = run.readAt["session"]
    BY <2>2 DEF PlaceInv, Kinds
  <2>4. RowsRead("access")' = found /\ RowsRead("session")' = RowsRead("session")
    BY <2>2 DEF RowsRead
  <2>5. QueryOf("access") = AccessQuery /\ Kinds \ {"access"} = {"session"} /\ Phase("access") = "access"
    BY DEF QueryOf, Kinds, Phase
  <2>6. found \in IF Asks(QueryOf("access")) THEN Fetch(rows["access"], QueryOf("access")) ELSE {{}}
    BY <2>1, <2>5
  <2>7. /\ UNCHANGED <<clock, rows, ahead, docs>>
        /\ run.pc = "reading" /\ run.todo # <<>> /\ Head(run.todo) = Phase("access")
    BY <1>1, <2>5 DEF ReadAccess, At
  <2> QED
    BY <2>2, <2>3, <2>4, <2>5, <2>6, <2>7 DEF Reads
<1>2. ASSUME ReadSessions PROVE Reads("session")
  <2>1. PICK found \in IF Asks(SessionQuery) THEN Fetch(rows.session, SessionQuery) ELSE {{}} :
          run' = [run EXCEPT !.sessions = found, !.todo = Tail(@), !.readAt.session = Len(rows.session)]
    BY <1>2 DEF ReadSessions
  <2>2. /\ run'.pc = run.pc /\ run'.request = run.request /\ run'.todo = Tail(run.todo)
        /\ run'.hits = run.hits
        /\ run'.sessions = found /\ run'.access = run.access
        /\ run'.readAt = [run.readAt EXCEPT !.session = Len(rows.session)]
        /\ DOMAIN run' = DOMAIN run
    BY <2>1 DEF PlaceInv
  <2>3. /\ DOMAIN run'.readAt = Kinds /\ run'.readAt["session"] = Len(rows["session"])
        /\ run'.readAt["access"] = run.readAt["access"]
    BY <2>2 DEF PlaceInv, Kinds
  <2>4. RowsRead("session")' = found /\ RowsRead("access")' = RowsRead("access")
    BY <2>2 DEF RowsRead
  <2>5. QueryOf("session") = SessionQuery /\ Kinds \ {"session"} = {"access"} /\ Phase("session") = "sessions"
    BY DEF QueryOf, Kinds, Phase
  <2>6. found \in IF Asks(QueryOf("session")) THEN Fetch(rows["session"], QueryOf("session")) ELSE {{}}
    BY <2>1, <2>5
  <2>7. /\ UNCHANGED <<clock, rows, ahead, docs>>
        /\ run.pc = "reading" /\ run.todo # <<>> /\ Head(run.todo) = Phase("session")
    BY <1>2, <2>5 DEF ReadSessions, At
  <2> QED
    BY <2>2, <2>3, <2>4, <2>5, <2>6, <2>7 DEF Reads
<1> QED
  BY <1>1, <1>2

\* Explaining makes the claim of what was read and changes nothing else.
LEMMA ExplainStep == ReadsInv /\ Explain => ReadsInv'
<1> SUFFICES ASSUME ReadsInv, Explain PROVE ReadsInv'
  OBVIOUS
<1> USE DEF ReadsInv
<1>1. UNCHANGED <<clock, rows, ahead, docs>> /\ StoresInv' /\ Grown
  BY StoresStand DEF Explain
<1>2. PICK start \in FirstStarts, stop \in LastStops, latest \in LatestSessions :
        \E rejected \in LatestBefore("rejected", start),
           challenged \in LatestBefore("challenged", start),
           accepted \in LatestBefore("accepted", start) :
             LET c == [start |-> start, rejected |-> rejected, challenged |-> challenged,
                       accepted |-> accepted]
             IN  run' = [run EXCEPT !.pc = "explained", !.claim = c, !.finding = Correlation(c),
                                    !.answer = Answer(c, stop, latest)]
  BY DEF Explain
<1>3. PICK rejected \in LatestBefore("rejected", start),
           challenged \in LatestBefore("challenged", start),
           accepted \in LatestBefore("accepted", start) :
             LET c == [start |-> start, rejected |-> rejected, challenged |-> challenged,
                       accepted |-> accepted]
             IN  run' = [run EXCEPT !.pc = "explained", !.claim = c, !.finding = Correlation(c),
                                    !.answer = Answer(c, stop, latest)]
  BY <1>2
<1> DEFINE c == [start |-> start, rejected |-> rejected, challenged |-> challenged,
                 accepted |-> accepted]
<1>4. /\ run'.claim = c /\ run'.answer = Answer(c, stop, latest)
      /\ run'.request = run.request /\ run'.todo = run.todo
      /\ run'.hits = run.hits
      /\ run'.access = run.access /\ run'.sessions = run.sessions
      /\ run'.readAt = run.readAt /\ DOMAIN run' = DOMAIN run
  BY <1>3 DEF PlaceInv
<1>5. run.todo = <<>>
  BY DEF Explain
<1>6. PlaceInv'
  BY <1>1, <1>4, <1>5 DEF PlaceInv
<1>7. HitsInv' /\ LateInv'
  BY <1>1, <1>4 DEF HitsInv, LateInv, Written
<1>8. ReadInv'
  <2>1. ASSUME NEW kind \in Kinds PROVE WellRead(kind)'
    <3>1. QueryOf(kind)' = QueryOf(kind)
      BY <1>4, QueryKept
    <3>2. RowsRead(kind)' = RowsRead(kind) /\ WellRead(kind) /\ run'.readAt[kind] = run.readAt[kind]
      BY <1>4 DEF RowsRead, ReadInv
    <3> QED
      BY <1>1, <3>1, <3>2, WellReadKept
  <2> QED
    BY <2>1 DEF ReadInv
<1>9. ClaimInv'
  <2>1. /\ c.start = start /\ c.rejected = rejected /\ c.accepted = accepted
    OBVIOUS
  <2> HIDE DEF c
  <2>2. /\ FirstStarts' = FirstStarts /\ LastStops' = LastStops /\ LatestSessions' = LatestSessions
        /\ \A what, s : LatestBefore(what, s)' = LatestBefore(what, s)
        /\ \A d, s, l : Answer(d, s, l)' = Answer(d, s, l)
    BY <1>4, SaysTheSame
  <2>3. (run.claim.start \in FirstStarts)'
    BY <1>4, <2>1, <2>2
  <2>4. (run.claim.rejected \in LatestBefore("rejected", run.claim.start))'
    BY <1>4, <2>1, <2>2
  <2>5. (run.claim.accepted \in LatestBefore("accepted", run.claim.start))'
    BY <1>4, <2>1, <2>2
  <2>6. stop \in LastStops' /\ latest \in LatestSessions' /\ (run.answer = Answer(run.claim, stop, latest))'
    BY <1>4, <2>1, <2>2
  <2> QED
    BY <2>3, <2>4, <2>5, <2>6 DEF ClaimInv
<1> QED
  BY <1>1, <1>6, <1>7, <1>8, <1>9

\* Every step keeps the invariant.
LEMMA ReadsStep == ReadsInv /\ [Next]_vars => ReadsInv'
<1> SUFFICES ASSUME ReadsInv, [Next]_vars PROVE ReadsInv'
  OBVIOUS
<1>1. StoresInv' /\ Grown
  BY StoresStep DEF ReadsInv
<1>2. CASE WriteRow \/ StoreRow \/ IndexRow \/ UNCHANGED vars
  <2>1. UNCHANGED run
    BY <1>2 DEF WriteRow, StoreRow, IndexRow, vars
  <2> QED
    BY <1>1, <2>1, RunStands
<1>3. CASE ReadAccess
  BY <1>3, ReadsOne, StoreReadStep DEF ReadsInv, Kinds
<1>4. CASE ReadSessions
  BY <1>4, ReadsOne, StoreReadStep DEF ReadsInv, Kinds
<1> QED
  BY <1>2, <1>3, <1>4, AskStep, RetrieveStep, ExplainStep DEF Next

-----------------------------------------------------------------------------
(* The properties *)

\* The event behind every hit on the NAS and of the client of the first hits is
\* read, whatever is ingested, replayed, indexed or cut, but for one event of each
\* source that was not projected when the run read its store.
THEOREM HitsAreExplainedCorrect == Spec => []HitsAreExplained
BY ReadsInit, ReadsStep, ExplainedFollows, PTL DEF Spec

\* A status is told of the newest moment the session store had of what the run
\* asked for.
THEOREM NewestInstantDecidesCorrect == Spec => []NewestInstantDecides
BY ReadsInit, ReadsStep, NewestFollows, PTL DEF Spec

\* Only the NAS or client of the first hits, the limit and an older version of an
\* event make an answer overlook one of the subscriber in the window.
THEOREM NothingOverlookedCorrect == Spec => []NothingOverlooked
BY ReadsInit, ReadsStep, OverlookedFollows, PTL DEF Spec
=============================================================================
