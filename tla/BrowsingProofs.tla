--------------------------- MODULE BrowsingProofs ---------------------------
(* Theorems about Browsing, for any pages, tags, rows and clocks.           *)
EXTENDS Browsing, FiniteSetTheorems, SequenceTheorems, WellFoundedInduction, TLAPS

Listed(ps, item) == \E i \in DOMAIN ps : \E a \in DOMAIN ps[i] : ps[i][a] = item

\* The rows of a page are in order; those of a later page are strictly older, for the
\* cursor is; no page but the last is empty.
InOrder(ps) ==
    /\ \A i \in DOMAIN ps : i < Len(ps) => ps[i] # <<>>
    /\ \A i \in DOMAIN ps : \A a, b \in DOMAIN ps[i] :
          a < b => ps[i][a] # ps[i][b] /\ rows[ps[i][a]].time >= rows[ps[i][b]].time
    /\ \A i, j \in DOMAIN ps : \A a \in DOMAIN ps[i] : \A b \in DOMAIN ps[j] :
          i < j => rows[ps[i][a]].time > rows[ps[j][b]].time

\* A row of the first n is listed, tied with the last of a page or still to come.
Reached(ps, n) ==
    \A r \in 1 .. n :
        rows[r].tag \in Matching =>
            \/ Listed(ps, r)
            \/ \E i \in DOMAIN ps : ps[i] # <<>> /\ rows[r].time = rows[ps[i][Len(ps[i])]].time
            \/ /\ HasNext(ps)
               /\ \A i \in DOMAIN ps : \A a \in DOMAIN ps[i] : rows[r].time < rows[ps[i][a]].time

\* Conversation c was there at first, and nothing is added to it since.
Idle(c, n) ==
    /\ \E r \in 1 .. n : rows[r].tag = c
    /\ \A s \in n + 1 .. Len(rows) : rows[s].tag # c

\* The conversations before c in the list.
Ahead(c) == {d \in Conversations : TimeOf(d) > TimeOf(c)}

\* An idle conversation is listed, or so many are ahead of it by now that no page
\* read yet could hold it: it only moves down the list.
IdleReached(ps, n) ==
    NoTies => \A c \in Tags :
        Idle(c, n) =>
            \/ Listed(ps, c)
            \/ HasNext(ps) /\ Len(ps) * PageSize[list] <= Cardinality(Ahead(c))

\* What holds of the pages shown and of those of a refresh, each with the number of
\* rows there were when its first page was read.
Good(ps, n) ==
    /\ \A i \in DOMAIN ps : Len(ps[i]) <= PageSize[list]
    /\ list = "requests" => InOrder(ps) /\ Reached(ps, n)
    /\ list = "conversations" => IdleReached(ps, n)

IInv ==
    /\ TypeOK
    /\ pages = <<>> => first = 0
    /\ Good(pages, first)
    /\ reading # None => reading # <<>> /\ HasNext(reading) /\ Good(reading, firstRead)

-----------------------------------------------------------------------------
(* A page of a list *)

\* What ORDER BY makes of a set: every element has one place.
LEMMA SortedPlaces ==
    ASSUME NEW S, IsFiniteSet(S), NEW s \in Sorted(S)
    PROVE  /\ Cardinality(S) \in Nat
           /\ s \in [1 .. Cardinality(S) -> S]
           /\ \A i, j \in 1 .. Cardinality(S) :
                 i < j => s[i] # s[j] /\ TimeOf(s[i]) >= TimeOf(s[j])
           /\ \A x \in S : \E k \in 1 .. Cardinality(S) : s[k] = x
<1> DEFINE N == Cardinality(S)
<1>1. N \in Nat
  BY FS_CardinalityType
<1>2. /\ s \in [1 .. N -> S]
      /\ \A i, j \in 1 .. N : i < j => s[i] # s[j] /\ TimeOf(s[i]) >= TimeOf(s[j])
  BY DEF Sorted
<1>3. \A i, j \in 1 .. N : s[i] = s[j] => i = j
  BY <1>1, <1>2
<1>4. s \in Injection(1 .. N, S)
  BY <1>2, <1>3 DEF Injection, IsInjective
<1>5. Cardinality(1 .. N) = N
  BY <1>1, FS_Interval
<1>6. s \in Surjection(1 .. N, S)
  BY <1>4, <1>5, FS_Injection
<1>7. \A x \in S : \E k \in 1 .. N : s[k] = x
  BY <1>6 DEF Surjection
<1> QED
  BY <1>1, <1>2, <1>7

\* What OFFSET and LIMIT leave of it: the elements in the places the page is asked for.
LEMMA PageCut ==
    ASSUME NEW S, IsFiniteSet(S), NEW s \in Sorted(S), NEW offset \in Nat,
           PageSize[list] \in Nat \ {0}
    PROVE  /\ Cardinality(S) \in Nat
           /\ Cut(s, offset) \in Seq(S)
           /\ Len(Cut(s, offset)) <= PageSize[list]
           /\ \A a \in DOMAIN Cut(s, offset) :
                 offset + a \in 1 .. Cardinality(S) /\ Cut(s, offset)[a] = s[offset + a]
           /\ \A k \in 1 .. Cardinality(S) :
                 offset < k /\ k <= offset + PageSize[list] =>
                    k - offset \in DOMAIN Cut(s, offset)
           /\ \A k \in 1 .. Cardinality(S) :
                 k > offset + PageSize[list] => Len(Cut(s, offset)) = PageSize[list]
<1> DEFINE N == Cardinality(S)
           P == PageSize[list]
           page == Cut(s, offset)
<1>1. N \in Nat
  BY FS_CardinalityType
<1>2. s \in [1 .. N -> S]
  BY SortedPlaces
<1>4. Len(s) = N
  BY <1>1, <1>2
<1> DEFINE last == IF offset + P <= N THEN offset + P ELSE N
<1>5. page = SubSeq(s, offset + 1, last)
  BY <1>4 DEF Cut
<1>6. last \in Int /\ offset + 1 \in Int
  BY <1>1
<1>7. \A i \in offset + 1 .. last : s[i] \in S
  BY <1>1, <1>2
<1>8. /\ page \in Seq(S)
      /\ Len(page) = IF offset + 1 <= last THEN last - offset ELSE 0
      /\ \A i \in 1 .. last - (offset + 1) + 1 : page[i] = s[offset + 1 + i - 1]
  <2> HIDE DEF last, page
  <2>1. /\ SubSeq(s, offset + 1, last) \in Seq(S)
        /\ Len(SubSeq(s, offset + 1, last)) =
              IF offset + 1 <= last THEN last - (offset + 1) + 1 ELSE 0
        /\ \A i \in 1 .. last - (offset + 1) + 1 :
              SubSeq(s, offset + 1, last)[i] = s[offset + 1 + i - 1]
    BY <1>6, <1>7, SubSeqProperties
  <2> QED
    BY <1>5, <1>6, <2>1
<1>9. DOMAIN page = 1 .. Len(page)
  BY <1>8
<1>10. \A a \in DOMAIN page : offset + a \in 1 .. N /\ page[a] = s[offset + a]
  <2> SUFFICES ASSUME NEW a \in DOMAIN page
               PROVE  offset + a \in 1 .. N /\ page[a] = s[offset + a]
    OBVIOUS
  <2> HIDE DEF page
  <2>1. a \in Nat /\ 1 <= a /\ a <= last - offset
    BY <1>1, <1>8, <1>9
  <2>2. a \in 1 .. last - (offset + 1) + 1
    BY <1>1, <2>1
  <2>3. page[a] = s[offset + 1 + a - 1]
    BY <1>8, <2>2
  <2> QED
    BY <1>1, <2>1, <2>3
<1> HIDE DEF page
<1>11. \A k \in 1 .. N : offset < k /\ k <= offset + P => k - offset \in DOMAIN page
  BY <1>1, <1>8, <1>9
<1>12. \A k \in 1 .. N : k > offset + P => Len(page) = P
  BY <1>1, <1>8
<1>13. Len(page) <= P
  BY <1>1, <1>8
<1> QED
  BY <1>1, <1>8, <1>10, <1>11, <1>12, <1>13 DEF page

LEMMA Constants ==
    ASSUME TypeOK
    PROVE  /\ PageSize[list] \in Nat \ {0}
           /\ rows \in Seq(Rows) /\ Len(rows) \in Nat /\ DOMAIN rows = 1 .. Len(rows)
           /\ \A i \in DOMAIN rows : rows[i].time \in Int /\ rows[i].tag \in Tags
           /\ IsFiniteSet(DOMAIN rows)
<1>1. PageSize[list] \in Nat \ {0}
  BY PageSizeAssumption DEF TypeOK
<1>2. rows \in Seq(Rows) /\ Len(rows) \in Nat /\ DOMAIN rows = 1 .. Len(rows)
  BY DEF TypeOK
<1>3. \A i \in DOMAIN rows : rows[i].time \in Int /\ rows[i].tag \in Tags
  <2>1. \A i \in DOMAIN rows : rows[i] \in Rows
    BY <1>2
  <2>2. \A t \in Times : t \in Int
    BY BoundsAssumption DEF Times
  <2> QED
    BY <2>1, <2>2 DEF Rows
<1>4. IsFiniteSet(DOMAIN rows)
  BY <1>2, FS_Interval
<1> QED
  BY <1>1, <1>2, <1>3, <1>4

\* A page of requests: matching rows older than the cursor, in order; those it leaves out
\* are no younger than its last.
LEMMA RequestPage ==
    ASSUME TypeOK, list = "requests", NEW c, NEW page \in {Cut(s, 0) : s \in Sorted(Found(c))}
    PROVE  /\ page \in Seq(DOMAIN rows)
           /\ Len(page) <= PageSize[list]
           /\ \A a \in DOMAIN page : page[a] \in Found(c)
           /\ \A a, b \in DOMAIN page :
                 a < b => page[a] # page[b] /\ rows[page[a]].time >= rows[page[b]].time
           /\ \A r \in Found(c) :
                 \/ \E a \in DOMAIN page : page[a] = r
                 \/ page # <<>> /\ rows[r].time <= rows[page[Len(page)]].time
<1> DEFINE S == Found(c)
           N == Cardinality(S)
           P == PageSize[list]
<1>1. S \subseteq DOMAIN rows /\ IsFiniteSet(S)
  BY Constants, FS_Subset DEF Found
<1>2. PICK s \in Sorted(S) : page = Cut(s, 0)
  OBVIOUS
<1>3. P \in Nat \ {0} /\ 0 \in Nat
  BY Constants
<1> HIDE DEF S
<1>4. /\ N \in Nat /\ s \in [1 .. N -> S]
      /\ \A i, j \in 1 .. N : i < j => s[i] # s[j] /\ TimeOf(s[i]) >= TimeOf(s[j])
      /\ \A x \in S : \E k \in 1 .. N : s[k] = x
      /\ page \in Seq(S) /\ Len(page) <= P
      /\ \A a \in DOMAIN page : 0 + a \in 1 .. N /\ page[a] = s[0 + a]
      /\ \A k \in 1 .. N : 0 < k /\ k <= 0 + P => k - 0 \in DOMAIN page
      /\ \A k \in 1 .. N : k > 0 + P => Len(page) = P
  <2>1. /\ N \in Nat /\ s \in [1 .. N -> S]
        /\ \A i, j \in 1 .. N : i < j => s[i] # s[j] /\ TimeOf(s[i]) >= TimeOf(s[j])
        /\ \A x \in S : \E k \in 1 .. N : s[k] = x
    BY <1>1, SortedPlaces
  <2>2. /\ page \in Seq(S) /\ Len(page) <= P
        /\ \A a \in DOMAIN page : 0 + a \in 1 .. N /\ page[a] = s[0 + a]
        /\ \A k \in 1 .. N : 0 < k /\ k <= 0 + P => k - 0 \in DOMAIN page
        /\ \A k \in 1 .. N : k > 0 + P => Len(page) = P
    BY <1>1, <1>2, <1>3, PageCut
  <2> QED
    BY <2>1, <2>2
<1> HIDE DEF N, P
<1>5. /\ \A a \in DOMAIN page : a \in 1 .. N /\ page[a] = s[a]
      /\ \A k \in 1 .. N : k <= P => k \in DOMAIN page
      /\ \A k \in 1 .. N : k > P => Len(page) = P
      /\ DOMAIN page = 1 .. Len(page) /\ Len(page) \in Nat
  BY <1>3, <1>4
<1>6. \A i, j \in 1 .. N : i < j => s[i] # s[j] /\ rows[s[i]].time >= rows[s[j]].time
  BY <1>4 DEF TimeOf
<1>7. page \in Seq(DOMAIN rows)
  BY <1>1, <1>4, SeqMonotonic
<1>8. \A r \in S : \/ \E a \in DOMAIN page : page[a] = r
                   \/ page # <<>> /\ rows[r].time <= rows[page[Len(page)]].time
  <2> SUFFICES ASSUME NEW r \in S, ~ \E a \in DOMAIN page : page[a] = r
               PROVE  page # <<>> /\ rows[r].time <= rows[page[Len(page)]].time
    OBVIOUS
  <2>1. PICK k \in 1 .. N : s[k] = r
    BY <1>4
  <2>2. k > P
    <3>1. ~ (k \in DOMAIN page)
      BY <1>5, <2>1
    <3>2. ~ (k <= P)
      BY <1>5, <3>1
    <3>3. k \in Int /\ P \in Int
      BY <1>3, <1>4
    <3> QED
      BY <3>2, <3>3
  <2>3. Len(page) = P /\ page # <<>> /\ P \in DOMAIN page
    <3>1. Len(page) = P
      BY <1>5, <2>2
    <3> QED
      BY <1>3, <1>5, <3>1
  <2>4. P \in 1 .. N /\ P < k /\ page[P] = s[P]
    BY <1>3, <1>5, <2>2, <2>3
  <2>5. rows[s[P]].time >= rows[s[k]].time
    BY <1>6, <2>4
  <2>6. rows[s[P]].time \in Int /\ rows[s[k]].time \in Int
    BY <1>1, <1>4, <2>1, <2>4, Constants
  <2> QED
    BY <2>1, <2>3, <2>4, <2>5, <2>6
<1>9. \A a \in DOMAIN page : page[a] \in S
  BY <1>4, <1>5
<1>10. \A a, b \in DOMAIN page :
          a < b => page[a] # page[b] /\ rows[page[a]].time >= rows[page[b]].time
  BY <1>5, <1>6
<1> QED
  BY <1>4, <1>7, <1>8, <1>9, <1>10 DEF S, P

\* The elements of a list of pages that gets one more.
LEMMA AppendPage ==
    ASSUME NEW I, NEW ps \in Seq(Seq(I)), NEW page \in Seq(I)
    PROVE  /\ Append(ps, page) \in Seq(Seq(I)) /\ Append(ps, page) # <<>>
           /\ Len(ps) \in Nat /\ Len(Append(ps, page)) = Len(ps) + 1
           /\ DOMAIN ps = 1 .. Len(ps) /\ DOMAIN Append(ps, page) = 1 .. Len(ps) + 1
           /\ Append(ps, page)[Len(ps) + 1] = page
           /\ \A i \in DOMAIN ps : Append(ps, page)[i] = ps[i] /\ ps[i] \in Seq(I)
<1>1. /\ Append(ps, page) \in Seq(Seq(I))
      /\ Len(Append(ps, page)) = Len(ps) + 1
      /\ \A i \in 1 .. Len(ps) : Append(ps, page)[i] = ps[i]
      /\ Append(ps, page)[Len(ps) + 1] = page
  BY AppendProperties
<1>2. /\ Len(ps) \in Nat /\ DOMAIN ps = 1 .. Len(ps)
      /\ \A i \in DOMAIN ps : ps[i] \in Seq(I)
  BY LenProperties, ElementOfSeq
<1>3. DOMAIN Append(ps, page) = 1 .. Len(ps) + 1
  BY <1>1, LenProperties
<1>4. Append(ps, page) # <<>>
  BY <1>1, <1>2, EmptySeq
<1> QED
  BY <1>1, <1>2, <1>3, <1>4

\* The next page of requests leaves the list in order, and loses no row on the way.
LEMMA NextRequests ==
    ASSUME TypeOK, list = "requests",
           NEW ps \in Seq(Seq(DOMAIN rows)), NEW n \in 0 .. Len(rows), NEW m,
           m = IF ps = <<>> THEN Len(rows) ELSE n,
           HasNext(ps), Good(ps, n), NEW page \in Answers(NextParam(ps))
    PROVE  Good(Append(ps, page), m)
<1> DEFINE c == NextParam(ps)
           qs == Append(ps, page)
<1>1. /\ page \in Seq(DOMAIN rows)
      /\ Len(page) <= PageSize[list]
      /\ \A a \in DOMAIN page : page[a] \in Found(c)
      /\ \A a, b \in DOMAIN page :
            a < b => page[a] # page[b] /\ rows[page[a]].time >= rows[page[b]].time
      /\ \A r \in Found(c) :
            \/ \E a \in DOMAIN page : page[a] = r
            \/ page # <<>> /\ rows[r].time <= rows[page[Len(page)]].time
  <2>1. page \in {Cut(s, 0) : s \in Sorted(Found(c))}
    BY DEF Answers
  <2> HIDE DEF c
  <2> QED
    BY <2>1, RequestPage
<1>2. /\ Len(ps) \in Nat /\ Len(qs) = Len(ps) + 1
      /\ DOMAIN ps = 1 .. Len(ps) /\ DOMAIN qs = 1 .. Len(ps) + 1
      /\ qs[Len(ps) + 1] = page
      /\ \A i \in DOMAIN ps : qs[i] = ps[i] /\ ps[i] \in Seq(DOMAIN rows)
  BY <1>1, AppendPage
<1>3. InOrder(ps) /\ Reached(ps, n) /\ \A i \in DOMAIN ps : Len(ps[i]) <= PageSize[list]
  BY DEF Good
<1>4. \A i \in DOMAIN rows : rows[i].time \in Int
  BY Constants
<1>5. ps # <<>> => ps[Len(ps)] # <<>> /\ Len(ps) \in DOMAIN ps
  BY <1>2 DEF HasNext
<1> DEFINE w == ps[Len(ps)][Len(ps[Len(ps)])]
<1>6. ps # <<>> => w \in DOMAIN rows /\ Len(ps[Len(ps)]) \in DOMAIN ps[Len(ps)]
  BY <1>2, <1>5
\* The cursor is as old as the last row so far, the oldest of all.
<1>7. ps # <<>> => c = rows[w].time /\ c # None /\ c \in Int
  BY <1>4, <1>6, NoneAssumption DEF NextParam
<1>8. ps = <<>> => c = None
  BY DEF NextParam, InitialParam
<1>9. ps # <<>> => \A i \in DOMAIN ps : \A a \in DOMAIN ps[i] : rows[ps[i][a]].time >= rows[w].time
  <2> SUFFICES ASSUME ps # <<>>, NEW i \in DOMAIN ps, NEW a \in DOMAIN ps[i]
               PROVE  rows[ps[i][a]].time >= rows[w].time
    OBVIOUS
  <2>1. ps[i][a] \in DOMAIN rows /\ a \in Nat /\ a <= Len(ps[i])
    BY <1>2
  <2>2. rows[ps[i][a]].time \in Int /\ rows[w].time \in Int
    BY <1>4, <1>6, <2>1
  <2>3. CASE i < Len(ps)
    BY <1>3, <1>5, <1>6, <2>2, <2>3 DEF InOrder
  <2>4. CASE i = Len(ps) /\ a < Len(ps[i])
    BY <1>3, <1>5, <1>6, <2>2, <2>4 DEF InOrder
  <2>5. CASE i = Len(ps) /\ a = Len(ps[i])
    BY <2>2, <2>5
  <2> QED
    BY <1>2, <2>1, <2>3, <2>4, <2>5
<1> HIDE DEF c, w
<1>10. \A a \in DOMAIN page : page[a] \in DOMAIN rows
  BY <1>1
<1>11. ps # <<>> => \A b \in DOMAIN page : rows[page[b]].time < rows[w].time
  BY <1>1, <1>7 DEF Found
<1>12. ps # <<>> => \A i \in DOMAIN ps : \A a \in DOMAIN ps[i] : \A b \in DOMAIN page :
                       rows[ps[i][a]].time > rows[page[b]].time
  <2> SUFFICES ASSUME ps # <<>>, NEW i \in DOMAIN ps, NEW a \in DOMAIN ps[i], NEW b \in DOMAIN page
               PROVE  rows[ps[i][a]].time > rows[page[b]].time
    OBVIOUS
  <2>1. rows[page[b]].time < rows[w].time /\ rows[ps[i][a]].time >= rows[w].time
    BY <1>9, <1>11
  <2>2. rows[page[b]].time \in Int /\ rows[w].time \in Int /\ rows[ps[i][a]].time \in Int
    BY <1>2, <1>4, <1>6, <1>10
  <2> QED
    BY <2>1, <2>2
<1> HIDE DEF qs
<1>13. \A i \in DOMAIN qs : i \in DOMAIN ps \/ i = Len(ps) + 1
  BY <1>2
<1>14. \A i \in DOMAIN qs : Len(qs[i]) <= PageSize[list]
  BY <1>1, <1>2, <1>3, <1>13
<1>15. InOrder(qs)
  <2>1. \A i \in DOMAIN qs : i < Len(qs) => qs[i] # <<>>
    <3> SUFFICES ASSUME NEW i \in DOMAIN qs, i < Len(qs) PROVE qs[i] # <<>>
      OBVIOUS
    <3>1. i \in DOMAIN ps /\ qs[i] = ps[i] /\ i \in Nat
      BY <1>2, <1>13
    <3>2. i < Len(ps) \/ i = Len(ps)
      BY <1>2, <3>1
    <3>3. ps # <<>>
      BY <3>1
    <3> QED
      BY <1>3, <1>5, <3>1, <3>2, <3>3 DEF InOrder
  <2>2. \A i \in DOMAIN qs : \A a, b \in DOMAIN qs[i] :
           a < b => qs[i][a] # qs[i][b] /\ rows[qs[i][a]].time >= rows[qs[i][b]].time
    <3> SUFFICES ASSUME NEW i \in DOMAIN qs
                 PROVE  \A a, b \in DOMAIN qs[i] :
                           a < b => qs[i][a] # qs[i][b] /\ rows[qs[i][a]].time >= rows[qs[i][b]].time
      OBVIOUS
    <3>1. CASE i \in DOMAIN ps
      BY <1>2, <1>3, <3>1 DEF InOrder
    <3>2. CASE i = Len(ps) + 1
      BY <1>1, <1>2, <3>2
    <3> QED
      BY <1>13, <3>1, <3>2
  <2>3. \A i, j \in DOMAIN qs : \A a \in DOMAIN qs[i] : \A b \in DOMAIN qs[j] :
           i < j => rows[qs[i][a]].time > rows[qs[j][b]].time
    <3> SUFFICES ASSUME NEW i \in DOMAIN qs, NEW j \in DOMAIN qs, i < j
                 PROVE  \A a \in DOMAIN qs[i] : \A b \in DOMAIN qs[j] :
                           rows[qs[i][a]].time > rows[qs[j][b]].time
      OBVIOUS
    <3>1. i \in DOMAIN ps /\ qs[i] = ps[i] /\ ps # <<>>
      BY <1>2, <1>13
    <3>2. CASE j \in DOMAIN ps
      BY <1>2, <1>3, <3>1, <3>2 DEF InOrder
    <3>3. CASE j = Len(ps) + 1
      BY <1>2, <1>12, <3>1, <3>3
    <3> QED
      BY <1>13, <3>2, <3>3
  <2> QED
    BY <2>1, <2>2, <2>3 DEF InOrder
<1>16. \A r \in Found(c) :
          (\A i \in DOMAIN ps : \A a \in DOMAIN ps[i] : rows[r].time < rows[ps[i][a]].time) =>
             \/ Listed(qs, r)
             \/ \E i \in DOMAIN qs : qs[i] # <<>> /\ rows[r].time = rows[qs[i][Len(qs[i])]].time
             \/ /\ HasNext(qs)
                /\ \A i \in DOMAIN qs : \A a \in DOMAIN qs[i] : rows[r].time < rows[qs[i][a]].time
  <2> SUFFICES ASSUME NEW r \in Found(c),
                      \A i \in DOMAIN ps : \A a \in DOMAIN ps[i] : rows[r].time < rows[ps[i][a]].time,
                      ~ Listed(qs, r),
                      ~ \E i \in DOMAIN qs :
                            qs[i] # <<>> /\ rows[r].time = rows[qs[i][Len(qs[i])]].time
               PROVE  /\ HasNext(qs)
                      /\ \A i \in DOMAIN qs : \A a \in DOMAIN qs[i] :
                            rows[r].time < rows[qs[i][a]].time
    OBVIOUS
  <2>0. Len(ps) + 1 \in DOMAIN qs /\ qs[Len(ps) + 1] = page
    BY <1>2
  <2>1. /\ page # <<>> /\ rows[r].time <= rows[page[Len(page)]].time
        /\ rows[r].time # rows[page[Len(page)]].time
    BY <1>1, <2>0 DEF Listed
  <2>2. Len(page) \in DOMAIN page /\ DOMAIN page \subseteq Nat /\ \A a \in DOMAIN page : a <= Len(page)
    BY <1>1, <2>1
  <2>3. r \in DOMAIN rows
    BY DEF Found
  <2>4. rows[r].time \in Int /\ \A a \in DOMAIN page : rows[page[a]].time \in Int
    BY <1>4, <1>10, <2>3
  <2>5. \A a \in DOMAIN page : rows[r].time < rows[page[a]].time
    <3> SUFFICES ASSUME NEW a \in DOMAIN page PROVE rows[r].time < rows[page[a]].time
      OBVIOUS
    <3>1. rows[r].time < rows[page[Len(page)]].time
      BY <2>1, <2>2, <2>4
    <3>2. a = Len(page) \/ a < Len(page)
      BY <2>2
    <3>3. rows[page[a]].time >= rows[page[Len(page)]].time
      BY <1>1, <2>2, <2>4, <3>2
    <3> QED
      BY <2>2, <2>4, <3>1, <3>3
  <2>6. HasNext(qs)
    BY <1>2, <2>1 DEF HasNext
  <2> QED
    BY <1>2, <1>13, <2>5, <2>6
<1>17. Reached(qs, m)
  <2> SUFFICES ASSUME NEW r \in 1 .. m, rows[r].tag \in Matching
               PROVE  \/ Listed(qs, r)
                      \/ \E i \in DOMAIN qs :
                            qs[i] # <<>> /\ rows[r].time = rows[qs[i][Len(qs[i])]].time
                      \/ /\ HasNext(qs)
                         /\ \A i \in DOMAIN qs : \A a \in DOMAIN qs[i] :
                               rows[r].time < rows[qs[i][a]].time
    BY DEF Reached
  <2>1. r \in DOMAIN rows
    BY Constants
  <2>2. CASE ps = <<>>
    <3>1. r \in Found(c)
      BY <1>8, <2>1, <2>2 DEF Found
    <3>2. DOMAIN ps = {}
      BY <1>2, <2>2
    <3> QED
      BY <1>16, <3>1, <3>2
  <2>3. CASE ps # <<>>
    <3>1. r \in 1 .. n
      BY <2>3
    <3>2. CASE Listed(ps, r)
      BY <1>2, <3>2 DEF Listed
    <3>3. CASE \E i \in DOMAIN ps : ps[i] # <<>> /\ rows[r].time = rows[ps[i][Len(ps[i])]].time
      BY <1>2, <3>3
    <3>4. CASE \A i \in DOMAIN ps : \A a \in DOMAIN ps[i] : rows[r].time < rows[ps[i][a]].time
      <4>1. rows[r].time < rows[w].time
        BY <1>5, <1>6, <2>3, <3>4 DEF w
      <4>2. r \in Found(c)
        BY <1>7, <2>1, <2>3, <4>1 DEF Found
      <4> QED
        BY <1>16, <3>4, <4>2
    <3> QED
      BY <1>3, <3>1, <3>2, <3>3, <3>4 DEF Reached
  <2> QED
    BY <2>2, <2>3
<1> QED
  BY <1>14, <1>15, <1>17 DEF Good, qs

-----------------------------------------------------------------------------
(* The list of conversations *)

\* A conversation is as old as the latest of its rows.
AreLatest ==
    \A c \in Conversations :
        /\ TimeOf(c) \in Int
        /\ \E r \in DOMAIN rows : rows[r].tag = c /\ rows[r].time = TimeOf(c)
        /\ \A r \in DOMAIN rows : rows[r].tag = c => rows[r].time <= TimeOf(c)

LEMMA Latest == TypeOK /\ list = "conversations" => AreLatest
<1> SUFFICES ASSUME TypeOK, list = "conversations", NEW c \in Conversations
             PROVE  /\ TimeOf(c) \in Int
                    /\ \E r \in DOMAIN rows : rows[r].tag = c /\ rows[r].time = TimeOf(c)
                    /\ \A r \in DOMAIN rows : rows[r].tag = c => rows[r].time <= TimeOf(c)
  BY DEF AreLatest
<1> DEFINE T == {rows[i].time : i \in {j \in DOMAIN rows : rows[j].tag = c}}
           D == {MaxTime - t : t \in T}
<1>1. T \subseteq 1 .. MaxTime /\ MaxTime \in Nat
  <2>1. \A i \in DOMAIN rows : rows[i] \in Rows
    BY Constants
  <2> QED
    BY <2>1, BoundsAssumption DEF Rows, Times
<1>2. T # {}
  BY DEF Conversations
<1>3. TimeOf(c) = CHOOSE t \in T : \A u \in T : u <= t
  BY DEF TimeOf
<1>4. \A t \in T : \E r \in DOMAIN rows : rows[r].tag = c /\ rows[r].time = t
  OBVIOUS
<1>5. \A r \in DOMAIN rows : rows[r].tag = c => rows[r].time \in T
  OBVIOUS
<1> HIDE DEF T
<1>6. \A d \in D : d \in Nat
  <2>1. \A t \in T : MaxTime - t \in Nat
    BY <1>1
  <2> QED
    BY <2>1
<1>7. D \subseteq Nat /\ D # {}
  <2>1. D # {}
    BY <1>2
  <2> QED
    BY <1>6, <2>1
<1>8. \A d \in D : \E t \in T : d = MaxTime - t
  OBVIOUS
<1>9. \A t \in T : MaxTime - t \in D
  OBVIOUS
<1> HIDE DEF D
<1>10. PICK d \in D : \A e \in D : ~ (<<e, d>> \in OpToRel(<, Nat))
  BY <1>7, NatLessThanWellFounded, WFMin
<1>11. \A e \in D : ~ (e < d)
  <2>1. \A e \in D : e \in Nat /\ d \in Nat
    BY <1>7, <1>10
  <2> QED
    BY <1>10, <2>1 DEF OpToRel
<1>12. PICK t \in T : d = MaxTime - t
  BY <1>8
<1>13. \A u \in T : u <= t
  <2> SUFFICES ASSUME NEW u \in T PROVE u <= t
    OBVIOUS
  <2>1. ~ (MaxTime - u < MaxTime - t)
    BY <1>9, <1>11, <1>12
  <2>2. u \in Int /\ t \in Int /\ MaxTime \in Int
    BY <1>1
  <2> QED
    BY <2>1, <2>2
<1>14. TimeOf(c) \in T /\ \A u \in T : u <= TimeOf(c)
  BY <1>3, <1>13
<1>15. TimeOf(c) \in Int
  <2>1. \A u \in T : u \in Int
    BY <1>1
  <2> QED
    BY <1>14, <2>1
<1>16. \E r \in DOMAIN rows : rows[r].tag = c /\ rows[r].time = TimeOf(c)
  BY <1>4, <1>14
<1>17. \A r \in DOMAIN rows : rows[r].tag = c => rows[r].time <= TimeOf(c)
  BY <1>5, <1>14
<1> QED
  BY <1>15, <1>16, <1>17

LEMMA ConversationsFinite ==
    TypeOK => Conversations \subseteq Tags /\ IsFiniteSet(Conversations)
<1> SUFFICES ASSUME TypeOK PROVE Conversations \subseteq Tags /\ IsFiniteSet(Conversations)
  OBVIOUS
<1> DEFINE f == [i \in DOMAIN rows |-> rows[i].tag]
<1>1. f \in Surjection(DOMAIN rows, Conversations)
  BY DEF Surjection, Conversations
<1> QED
  BY <1>1, Constants, FS_Surjection DEF Conversations

\* Without ties the place of a conversation says how many are ahead of it.
LEMMA PlaceIsRank ==
    ASSUME TypeOK, list = "conversations", NoTies,
           NEW s \in Sorted(Conversations), NEW k \in 1 .. Cardinality(Conversations)
    PROVE  Cardinality(Ahead(s[k])) = k - 1
<1> DEFINE C == Conversations
           N == Cardinality(C)
           A == Ahead(s[k])
           f == [i \in 1 .. k - 1 |-> s[i]]
<1>1. /\ N \in Nat /\ s \in [1 .. N -> C]
      /\ \A i, j \in 1 .. N : i < j => s[i] # s[j] /\ TimeOf(s[i]) >= TimeOf(s[j])
      /\ \A x \in C : \E i \in 1 .. N : s[i] = x
  BY ConversationsFinite, SortedPlaces
<1>2. /\ k \in Nat /\ k - 1 \in Nat
      /\ \A i \in 1 .. k - 1 : i \in 1 .. N /\ i < k
      /\ \A i \in 1 .. N : i < k => i \in 1 .. k - 1
  BY <1>1
<1>3. \A i \in 1 .. N : s[i] \in C /\ TimeOf(s[i]) \in Int
  BY <1>1, Latest DEF AreLatest
<1>4. \A i \in 1 .. k - 1 : TimeOf(s[i]) # TimeOf(s[k])
  <2> SUFFICES ASSUME NEW i \in 1 .. k - 1, TimeOf(s[i]) = TimeOf(s[k]) PROVE FALSE
    OBVIOUS
  <2>1. s[i] # s[k] /\ s[i] \in C /\ s[k] \in C
    BY <1>1, <1>2, <1>3
  <2>2. PICK p \in DOMAIN rows : rows[p].tag = s[i] /\ rows[p].time = TimeOf(s[i])
    BY <2>1, Latest DEF AreLatest
  <2>3. PICK q \in DOMAIN rows : rows[q].tag = s[k] /\ rows[q].time = TimeOf(s[k])
    BY <2>1, Latest DEF AreLatest
  <2> QED
    BY <2>1, <2>2, <2>3 DEF NoTies
<1>5. \A i \in 1 .. k - 1 : s[i] \in A
  <2> SUFFICES ASSUME NEW i \in 1 .. k - 1 PROVE s[i] \in A
    OBVIOUS
  <2>1. TimeOf(s[i]) >= TimeOf(s[k]) /\ TimeOf(s[i]) # TimeOf(s[k])
    BY <1>1, <1>2, <1>4
  <2>2. TimeOf(s[i]) > TimeOf(s[k]) /\ s[i] \in C
    BY <1>2, <1>3, <2>1
  <2> QED
    BY <2>2 DEF Ahead
<1>6. \A d \in A : \E i \in 1 .. k - 1 : s[i] = d
  <2> SUFFICES ASSUME NEW d \in A PROVE \E i \in 1 .. k - 1 : s[i] = d
    OBVIOUS
  <2>1. d \in C /\ TimeOf(d) > TimeOf(s[k])
    BY DEF Ahead
  <2>2. PICK i \in 1 .. N : s[i] = d
    BY <1>1, <2>1
  <2>3. ~ (i = k) /\ ~ (k < i)
    BY <1>1, <1>3, <2>1, <2>2
  <2> QED
    BY <1>1, <1>2, <2>2, <2>3
<1>7. f \in Bijection(1 .. k - 1, A)
  <2>1. f \in [1 .. k - 1 -> A]
    BY <1>5
  <2>2. \A d \in A : \E i \in 1 .. k - 1 : f[i] = d
    BY <1>6
  <2>3. \A i, j \in 1 .. k - 1 : f[i] = f[j] => i = j
    BY <1>1, <1>2
  <2> HIDE DEF f, A
  <2> QED
    BY <2>1, <2>2, <2>3 DEF Bijection, Injection, Surjection, IsInjective
<1>8. ExistsBijection(1 .. k - 1, A)
  BY <1>7 DEF ExistsBijection
<1> QED
  BY <1>2, <1>8, FS_CountingElements

LEMMA Pageful == \A l, p \in Nat : l * p \in Nat /\ (l + 1) * p = l * p + p
  OBVIOUS

\* An idle conversation is on the page, or further down than it reaches.
LEMMA NextConversations ==
    ASSUME TypeOK, list = "conversations",
           NEW ps \in Seq(Seq(Tags)), NEW n \in 0 .. Len(rows), NEW m,
           m = IF ps = <<>> THEN Len(rows) ELSE n,
           HasNext(ps), Good(ps, n), NEW page \in Answers(NextParam(ps))
    PROVE  Good(Append(ps, page), m)
<1> DEFINE C == Conversations
           N == Cardinality(C)
           P == PageSize[list]
           offset == Len(ps) * P
           qs == Append(ps, page)
<1>1. P \in Nat \ {0} /\ Len(ps) \in Nat /\ C \subseteq Tags /\ IsFiniteSet(C)
  BY Constants, ConversationsFinite
<1>2. offset \in Nat /\ (Len(ps) + 1) * P = offset + P
  BY <1>1, Pageful
<1>3. NextParam(ps) = offset
  <2>1. CASE ps = <<>>
    BY <1>1, <2>1 DEF NextParam, InitialParam
  <2>2. CASE ps # <<>>
    BY <2>2 DEF NextParam
  <2> QED
    BY <2>1, <2>2
<1>4. PICK s \in Sorted(C) : page = Cut(s, offset)
  BY <1>3 DEF Answers
<1> HIDE DEF offset, C, P
<1>5. /\ N \in Nat /\ s \in [1 .. N -> C]
      /\ \A i, j \in 1 .. N : i < j => s[i] # s[j] /\ TimeOf(s[i]) >= TimeOf(s[j])
      /\ \A x \in C : \E k \in 1 .. N : s[k] = x
  BY <1>1, SortedPlaces
<1>6. /\ page \in Seq(C) /\ Len(page) <= P
      /\ \A a \in DOMAIN page : offset + a \in 1 .. N /\ page[a] = s[offset + a]
      /\ \A k \in 1 .. N : offset < k /\ k <= offset + P => k - offset \in DOMAIN page
      /\ \A k \in 1 .. N : k > offset + P => Len(page) = P
  <2>1. PageSize[list] \in Nat \ {0} /\ IsFiniteSet(C) /\ offset \in Nat /\ s \in Sorted(C)
    BY <1>1, <1>2, <1>4 DEF P
  <2>2. /\ Cut(s, offset) \in Seq(C) /\ Len(Cut(s, offset)) <= PageSize[list]
        /\ \A a \in DOMAIN Cut(s, offset) :
              offset + a \in 1 .. Cardinality(C) /\ Cut(s, offset)[a] = s[offset + a]
        /\ \A k \in 1 .. Cardinality(C) :
              offset < k /\ k <= offset + PageSize[list] => k - offset \in DOMAIN Cut(s, offset)
        /\ \A k \in 1 .. Cardinality(C) :
              k > offset + PageSize[list] => Len(Cut(s, offset)) = PageSize[list]
    BY <2>1, PageCut, ZenonT(30)
  <2> QED
    BY <1>4, <2>2 DEF P
<1>7. page \in Seq(Tags)
  BY <1>1, <1>6, SeqMonotonic
<1>8. /\ Len(qs) = Len(ps) + 1 /\ qs # <<>>
      /\ DOMAIN ps = 1 .. Len(ps) /\ DOMAIN qs = 1 .. Len(ps) + 1
      /\ qs[Len(ps) + 1] = page
      /\ \A i \in DOMAIN ps : qs[i] = ps[i] /\ ps[i] \in Seq(Tags)
  BY <1>7, AppendPage
<1> HIDE DEF qs, N
<1>9. \A i \in DOMAIN qs : Len(qs[i]) <= P
  <2>1. \A i \in DOMAIN ps : Len(ps[i]) <= P
    BY DEF Good, P
  <2>2. \A i \in DOMAIN qs : i \in DOMAIN ps \/ i = Len(ps) + 1
    BY <1>1, <1>8
  <2> QED
    BY <1>6, <1>8, <2>1, <2>2
<1>10. ASSUME NoTies, NEW c \in Tags, Idle(c, m), ~ Listed(qs, c)
       PROVE  HasNext(qs) /\ Len(qs) * P <= Cardinality(Ahead(c))
  <2>1. c \in C
    <3>1. PICK r \in 1 .. m : rows[r].tag = c
      BY <1>10 DEF Idle
    <3>2. r \in DOMAIN rows
      BY <3>1, Constants
    <3> QED
      BY <3>1, <3>2 DEF C, Conversations
  <2>2. ~ Listed(ps, c)
    BY <1>8, <1>10 DEF Listed
  <2>3. PICK k \in 1 .. N : s[k] = c
    BY <1>5, <2>1
  <2>4. Cardinality(Ahead(c)) = k - 1
    <3>1. s \in Sorted(Conversations) /\ k \in 1 .. Cardinality(Conversations)
      BY <1>4, <2>3 DEF C, N
    <3>2. Cardinality(Ahead(s[k])) = k - 1
      BY <1>10, <3>1, PlaceIsRank
    <3> QED
      BY <2>3, <3>2
  <2>5. offset < k
    <3>1. CASE ps = <<>>
      BY <1>1, <1>5, <2>3, <3>1 DEF offset
    <3>2. CASE ps # <<>>
      <4>1. Idle(c, n)
        BY <1>10, <3>2
      <4>2. offset <= Cardinality(Ahead(c))
        BY <1>10, <2>2, <4>1 DEF Good, IdleReached, offset, P
      <4> QED
        BY <1>2, <1>5, <2>3, <2>4, <4>2
    <3> QED
      BY <3>1, <3>2
  <2>6. ~ (k - offset \in DOMAIN page)
    <3> SUFFICES ASSUME k - offset \in DOMAIN page PROVE FALSE
      OBVIOUS
    <3>1. page[k - offset] = s[offset + (k - offset)]
      BY <1>6
    <3>2. offset + (k - offset) = k
      BY <1>2, <1>5
    <3>3. page[k - offset] = c
      BY <2>3, <3>1, <3>2
    <3> QED
      BY <1>8, <1>10, <3>3 DEF Listed
  <2>7. k > offset + P
    <3>1. ~ (k <= offset + P)
      BY <1>6, <2>5, <2>6
    <3> QED
      BY <1>1, <1>2, <1>5, <3>1
  <2>8. HasNext(qs)
    <3>1. qs[Len(qs)] = page /\ Len(page) = P
      BY <1>6, <1>8, <2>7
    <3>2. list # "requests"
      OBVIOUS
    <3> QED
      BY <3>1, <3>2 DEF HasNext, P
  <2>9. Len(qs) * P = offset + P
    BY <1>2, <1>8
  <2>10. offset + P <= k - 1
    BY <1>1, <1>2, <1>5, <2>7
  <2> QED
    BY <2>4, <2>8, <2>9, <2>10
<1>11. IdleReached(qs, m)
  BY <1>10 DEF IdleReached, P
<1>12. list # "requests"
  OBVIOUS
<1> QED
  BY <1>9, <1>11, <1>12 DEF Good, qs, P

\* A page is a list of what is listed.
LEMMA AnswerType ==
    ASSUME TypeOK, NEW ps \in Seq(Seq(Items)), NEW page \in Answers(NextParam(ps))
    PROVE  page \in Seq(Items)
<1>1. CASE list = "requests"
  <2>1. page \in {Cut(s, 0) : s \in Sorted(Found(NextParam(ps)))}
    BY <1>1 DEF Answers
  <2>2. page \in Seq(DOMAIN rows)
    BY <1>1, <2>1, RequestPage
  <2> QED
    BY <1>1, <2>2 DEF Items
<1>2. CASE list = "conversations"
  <2> DEFINE C == Conversations
             offset == Len(ps) * PageSize[list]
  <2>1. PageSize[list] \in Nat \ {0} /\ Len(ps) \in Nat /\ C \subseteq Tags /\ IsFiniteSet(C)
    BY Constants, ConversationsFinite
  <2>2. offset \in Nat
    BY <2>1, Pageful
  <2>3. NextParam(ps) = offset
    <3>1. CASE ps = <<>>
      BY <1>2, <2>1, <3>1 DEF NextParam, InitialParam
    <3>2. CASE ps # <<>>
      BY <1>2, <3>2 DEF NextParam
    <3> QED
      BY <3>1, <3>2
  <2>4. PICK s \in Sorted(C) : page = Cut(s, offset)
    BY <1>2, <2>3 DEF Answers
  <2> HIDE DEF offset, C
  <2>5. Cut(s, offset) \in Seq(C)
    BY <2>1, <2>2, PageCut
  <2>6. page \in Seq(Tags)
    BY <2>1, <2>4, <2>5, SeqMonotonic
  <2> QED
    BY <1>2, <2>6 DEF Items
<1> QED
  BY <1>1, <1>2 DEF TypeOK, Lists

\* The step both actions that read a page have in common.
LEMMA NextPage ==
    ASSUME TypeOK,
           NEW ps \in Seq(Seq(Items)), NEW n \in 0 .. Len(rows), NEW m,
           m = IF ps = <<>> THEN Len(rows) ELSE n,
           HasNext(ps), Good(ps, n), NEW page \in Answers(NextParam(ps))
    PROVE  Good(Append(ps, page), m)
<1>1. CASE list = "requests"
  <2>1. Items = DOMAIN rows
    BY <1>1 DEF Items
  <2> QED
    BY <1>1, <2>1, NextRequests
<1>2. CASE list = "conversations"
  <2>1. Items = Tags
    BY <1>2 DEF Items
  <2> QED
    BY <1>2, <2>1, NextConversations
<1> QED
  BY <1>1, <1>2 DEF TypeOK, Lists

-----------------------------------------------------------------------------
(* The invariant *)

LEMMA SameRows ==
    ASSUME UNCHANGED <<list, rows>>, NEW ps, NEW n
    PROVE  Good(ps, n)' <=> Good(ps, n)
  BY DEF Good, InOrder, Reached, Listed, HasNext, IdleReached, NoTies, Idle, Ahead,
         Conversations, TimeOf

LEMMA NextTypes == TypeOK' =>
    /\ Conversations' \subseteq Tags /\ IsFiniteSet(Conversations')
    /\ list' = "conversations" => AreLatest'
<1>1. TypeOK => /\ Conversations \subseteq Tags /\ IsFiniteSet(Conversations)
                /\ list = "conversations" => AreLatest
  BY ConversationsFinite, Latest
<1>2. (TypeOK => /\ Conversations \subseteq Tags /\ IsFiniteSet(Conversations)
                 /\ list = "conversations" => AreLatest)'
  BY <1>1, PTL
<1> QED
  BY <1>2

\* A row that is committed moves nothing in what is listed, and an idle conversation
\* down at most.
LEMMA CommitGood ==
    ASSUME TypeOK, TypeOK', NEW row \in Rows, Commit(row),
           NEW ps \in Seq(Seq(Items)), NEW n \in 0 .. Len(rows), Good(ps, n)
    PROVE  Good(ps, n)'
<1>1. /\ rows' = Append(rows, row) /\ list' = list
      /\ Len(rows) \in Nat /\ DOMAIN rows = 1 .. Len(rows)
  BY Constants DEF Commit
<1>2. /\ Len(rows') = Len(rows) + 1 /\ DOMAIN rows' = 1 .. Len(rows) + 1
      /\ \A i \in DOMAIN rows : i \in DOMAIN rows' /\ rows'[i] = rows[i]
      /\ rows'[Len(rows) + 1] = row
  BY <1>1, Constants, AppendProperties, LenProperties
<1>3. HasNext(ps)' <=> HasNext(ps)
  BY <1>1 DEF HasNext
<1>4. \A i \in DOMAIN ps : Len(ps[i]) <= PageSize[list']
  BY <1>1 DEF Good
<1>5. ASSUME list = "requests" PROVE (InOrder(ps) /\ Reached(ps, n))'
  <2>1. InOrder(ps) /\ Reached(ps, n)
    BY <1>5 DEF Good
  <2>2. \A i \in DOMAIN ps : \A a \in DOMAIN ps[i] :
           ps[i][a] \in DOMAIN rows /\ rows'[ps[i][a]] = rows[ps[i][a]]
    BY <1>2, <1>5 DEF Items
  <2>3. \A r \in 1 .. n : rows'[r] = rows[r]
    BY <1>1, <1>2
  <2>4. InOrder(ps)'
    BY <2>1, <2>2 DEF InOrder
  <2>5. \A i \in DOMAIN ps : ps[i] # <<>> => Len(ps[i]) \in DOMAIN ps[i]
    BY DEF Items
  <2>6. Reached(ps, n)'
    <3> SUFFICES ASSUME NEW r \in 1 .. n, rows'[r].tag \in Matching
                 PROVE  \/ Listed(ps, r)
                        \/ \E i \in DOMAIN ps :
                              ps[i] # <<>> /\ rows'[r].time = rows'[ps[i][Len(ps[i])]].time
                        \/ /\ HasNext(ps)'
                           /\ \A i \in DOMAIN ps : \A a \in DOMAIN ps[i] :
                                 rows'[r].time < rows'[ps[i][a]].time
      BY DEF Reached, Listed
    <3>1. rows[r] = rows'[r] /\ rows[r].tag \in Matching
      BY <2>3
    <3>2. CASE Listed(ps, r)
      BY <3>2
    <3>3. CASE \E i \in DOMAIN ps : ps[i] # <<>> /\ rows[r].time = rows[ps[i][Len(ps[i])]].time
      <4>1. PICK i \in DOMAIN ps : ps[i] # <<>> /\ rows[r].time = rows[ps[i][Len(ps[i])]].time
        BY <3>3
      <4>2. rows'[ps[i][Len(ps[i])]] = rows[ps[i][Len(ps[i])]]
        BY <2>2, <2>5, <4>1
      <4> QED
        BY <3>1, <4>1, <4>2
    <3>4. CASE /\ HasNext(ps)
               /\ \A i \in DOMAIN ps : \A a \in DOMAIN ps[i] : rows[r].time < rows[ps[i][a]].time
      BY <1>3, <2>2, <3>1, <3>4
    <3> QED
      BY <2>1, <3>1, <3>2, <3>3, <3>4 DEF Reached
  <2> QED
    BY <2>4, <2>6
<1>6. ASSUME list = "conversations" PROVE IdleReached(ps, n)'
  <2> SUFFICES ASSUME NoTies', NEW c \in Tags, Idle(c, n)', ~ Listed(ps, c)
               PROVE  HasNext(ps)' /\ Len(ps) * PageSize[list'] <= Cardinality(Ahead(c)')
    BY DEF IdleReached, Listed
  <2>1. NoTies
    BY <1>2 DEF NoTies
  <2>2. Idle(c, n) /\ row.tag # c
    BY <1>1, <1>2 DEF Idle
  <2>3. HasNext(ps) /\ Len(ps) * PageSize[list] <= Cardinality(Ahead(c))
    BY <1>6, <2>1, <2>2 DEF Good, IdleReached
  <2>4. AreLatest /\ AreLatest'
    BY <1>1, <1>6, Latest, NextTypes
  <2>5. Conversations \subseteq Conversations'
    BY <1>2 DEF Conversations
  <2>6. c \in Conversations
    BY <1>1, <2>2 DEF Idle, Conversations
  <2>7. TimeOf(c)' <= TimeOf(c)
    <3>1. PICK r \in DOMAIN rows' : rows'[r].tag = c /\ rows'[r].time = TimeOf(c)'
      BY <2>4, <2>5, <2>6 DEF AreLatest
    <3>2. r \in DOMAIN rows
      BY <1>1, <1>2, <2>2, <3>1
    <3>3. rows[r].tag = c /\ rows[r].time = TimeOf(c)'
      BY <1>2, <3>1, <3>2
    <3> QED
      BY <2>4, <2>6, <3>2, <3>3 DEF AreLatest
  <2>8. \A d \in Conversations : TimeOf(d) <= TimeOf(d)'
    <3> SUFFICES ASSUME NEW d \in Conversations PROVE TimeOf(d) <= TimeOf(d)'
      OBVIOUS
    <3>1. PICK r \in DOMAIN rows : rows[r].tag = d /\ rows[r].time = TimeOf(d)
      BY <2>4 DEF AreLatest
    <3>2. r \in DOMAIN rows' /\ rows'[r].tag = d /\ rows'[r].time = TimeOf(d)
      BY <1>2, <3>1
    <3> QED
      BY <2>4, <2>5, <3>2 DEF AreLatest
  <2>9. Ahead(c) \subseteq Ahead(c)'
    <3> SUFFICES ASSUME NEW d \in Conversations, TimeOf(d) > TimeOf(c)
                 PROVE  d \in Conversations' /\ TimeOf(d)' > TimeOf(c)'
      BY DEF Ahead
    <3>1. /\ TimeOf(c) \in Int /\ TimeOf(c)' \in Int
          /\ TimeOf(d) \in Int /\ TimeOf(d)' \in Int
      BY <2>4, <2>5, <2>6 DEF AreLatest
    <3>2. TimeOf(d) <= TimeOf(d)' /\ TimeOf(c)' <= TimeOf(c)
      BY <2>7, <2>8
    <3> QED
      BY <2>5, <3>1, <3>2
  <2>10. IsFiniteSet(Ahead(c)')
    <3>1. IsFiniteSet(Conversations') /\ Ahead(c)' \subseteq Conversations'
      BY NextTypes DEF Ahead
    <3> QED
      BY <3>1, FS_Subset
  <2>11. /\ Cardinality(Ahead(c)) <= Cardinality(Ahead(c)')
         /\ Cardinality(Ahead(c)) \in Nat /\ Cardinality(Ahead(c)') \in Nat
    BY <2>9, <2>10, FS_Subset, FS_CardinalityType
  <2>12. Len(ps) * PageSize[list] \in Nat /\ list' = list
    BY <1>1, Pageful, Constants
  <2> QED
    BY <1>3, <2>3, <2>11, <2>12
<1> QED
  BY <1>1, <1>4, <1>5, <1>6 DEF Good

LEMMA EmptyGood == Good(<<>>, 0)
<1>1. DOMAIN <<>> = {} /\ 1 .. 0 = {}
  OBVIOUS
<1>2. InOrder(<<>>) /\ Reached(<<>>, 0) /\ IdleReached(<<>>, 0)
  BY <1>1 DEF InOrder, Reached, IdleReached, Idle
<1> QED
  BY <1>1, <1>2 DEF Good

LEMMA InitIInv == Init => IInv
<1> SUFFICES ASSUME Init PROVE IInv
  OBVIOUS
<1>1. TypeOK
  BY BoundsAssumption DEF Init, TypeOK
<1>2. Good(pages, first)
  BY EmptyGood DEF Init
<1> QED
  BY <1>1, <1>2 DEF Init, IInv

\* Rows are numbered for good: what was listed still is what may be listed.
LEMMA StepTypeOK == TypeOK /\ [Next]_vars => TypeOK'
<1> SUFFICES ASSUME TypeOK, [Next]_vars PROVE TypeOK'
  OBVIOUS
<1>1. Len(rows) \in Nat
  BY Constants
<1>2. ASSUME LoadMore PROVE TypeOK'
  <2>1. PICK page \in Answers(NextParam(pages)) : pages' = Append(pages, page)
    BY <1>2 DEF LoadMore
  <2>2. page \in Seq(Items) /\ pages \in Seq(Seq(Items))
    <3>1. pages \in Seq(Seq(Items))
      BY DEF TypeOK
    <3> QED
      BY <2>1, <3>1, AnswerType
  <2>3. Append(pages, page) \in Seq(Seq(Items))
    BY <2>2, AppendPage
  <2>4. Items' = Items /\ pages' \in Seq(Seq(Items'))
    BY <1>2, <2>1, <2>3 DEF LoadMore, Items
  <2> QED
    BY <1>1, <1>2, <2>4 DEF LoadMore, TypeOK
<1>3. ASSUME RefreshPage PROVE TypeOK'
  <2> DEFINE begun == IF reading = None THEN <<>> ELSE reading
             from == IF reading = None THEN Len(rows) ELSE firstRead
  <2>1. PICK page \in Answers(NextParam(begun)) :
          IF Len(Append(begun, page)) = Len(pages) \/ ~ HasNext(Append(begun, page))
          THEN /\ pages' = Append(begun, page) /\ first' = from
               /\ reading' = None /\ firstRead' = 0
          ELSE /\ reading' = Append(begun, page) /\ firstRead' = from
               /\ UNCHANGED <<pages, first>>
    BY <1>3 DEF RefreshPage
  <2>2. begun \in Seq(Seq(Items)) /\ Len(begun) \in Nat /\ Len(begun) < Len(pages)
    <3>1. CASE reading = None
      <4>1. begun = <<>> /\ begun \in Seq(Seq(Items)) /\ Len(begun) = 0
        BY <3>1
      <4>2. pages \in Seq(Seq(Items)) /\ pages # <<>>
        BY <1>3 DEF RefreshPage, TypeOK
      <4>3. Len(pages) \in Nat \ {0}
        BY <4>2, EmptySeq
      <4> QED
        BY <4>1, <4>3
    <3>2. CASE reading # None
      BY <3>2 DEF TypeOK
    <3> QED
      BY <3>1, <3>2
  <2>3. from \in 0 .. Len(rows)
    BY <1>1 DEF TypeOK
  <2> HIDE DEF begun, from
  <2>4. page \in Seq(Items)
    BY <2>2, AnswerType
  <2>5. PICK qs : qs = Append(begun, page)
    OBVIOUS
  <2>6. qs \in Seq(Seq(Items)) /\ Len(qs) = Len(begun) + 1
    BY <2>2, <2>4, <2>5, AppendPage
  <2>7. /\ pages \in Seq(Seq(Items)) /\ Len(pages) \in Nat
        /\ list' = list /\ rows' = rows /\ Items' = Items
    BY <1>3 DEF RefreshPage, TypeOK, Items
  <2>8. CASE pages' = qs /\ first' = from /\ reading' = None /\ firstRead' = 0
    BY <1>1, <2>3, <2>6, <2>7, <2>8 DEF TypeOK
  <2>9. CASE reading' = qs /\ firstRead' = from /\ UNCHANGED <<pages, first>> /\ Len(qs) # Len(pages)
    <3>1. Len(qs) < Len(pages)
      BY <2>2, <2>6, <2>7, <2>9
    <3> QED
      BY <1>1, <2>3, <2>6, <2>7, <2>9, <3>1 DEF TypeOK
  <2> QED
    BY <2>1, <2>5, <2>8, <2>9
<1>4. ASSUME RefreshFails PROVE TypeOK'
  <2>1. Items' = Items
    BY <1>4 DEF RefreshFails, Items
  <2> QED
    BY <1>1, <1>4, <2>1 DEF RefreshFails, TypeOK
<1>5. ASSUME NEW row \in Rows, Commit(row) PROVE TypeOK'
  <2>1. rows' = Append(rows, row) /\ Len(rows) < MaxRows /\ UNCHANGED <<list, pages, reading, first, firstRead>>
    BY <1>5 DEF Commit
  <2>2. rows' \in Seq(Rows) /\ Len(rows') = Len(rows) + 1 /\ DOMAIN rows' = 1 .. Len(rows) + 1
    BY <2>1, Constants, AppendProperties, LenProperties
  <2>3. Items \subseteq Items'
    BY <1>1, <2>1, <2>2, Constants DEF Items
  <2>4. \A ps \in Seq(Seq(Items)) : ps \in Seq(Seq(Items'))
    <3>1. Seq(Items) \subseteq Seq(Items')
      BY <2>3, SeqMonotonic
    <3> QED
      BY <3>1, SeqMonotonic
  <2>5. pages' \in Seq(Seq(Items')) /\ list' \in Lists
    BY <2>1, <2>4 DEF TypeOK
  <2>6. reading' = None \/ (reading' \in Seq(Seq(Items')) /\ Len(reading') < Len(pages'))
    BY <2>1, <2>4 DEF TypeOK
  <2>7. first' \in 0 .. Len(rows') /\ firstRead' \in 0 .. Len(rows') /\ Len(rows') <= MaxRows
    BY <1>1, <2>1, <2>2, BoundsAssumption DEF TypeOK
  <2> QED
    BY <2>2, <2>5, <2>6, <2>7 DEF TypeOK
<1>6. ASSUME UNCHANGED vars PROVE TypeOK'
  <2>1. Items' = Items
    BY <1>6 DEF vars, Items
  <2> QED
    BY <1>6, <2>1 DEF vars, TypeOK
<1> QED
  BY <1>2, <1>3, <1>4, <1>5, <1>6 DEF Next

LEMMA StepIInv == IInv /\ [Next]_vars => IInv'
<1> SUFFICES ASSUME IInv, [Next]_vars PROVE IInv'
  OBVIOUS
<1>1. TypeOK /\ TypeOK'
  BY StepTypeOK DEF IInv
<1>2. /\ pages \in Seq(Seq(Items)) /\ first \in 0 .. Len(rows)
      /\ reading # None => reading \in Seq(Seq(Items)) /\ firstRead \in 0 .. Len(rows)
      /\ Len(rows) \in Nat
  BY <1>1, Constants DEF TypeOK
\* The two actions that read a page.
<1>3. ASSUME UNCHANGED <<list, rows>>,
             NEW ps \in Seq(Seq(Items)), NEW n \in 0 .. Len(rows), HasNext(ps), Good(ps, n),
             NEW page \in Answers(NextParam(ps)),
             NEW m, m = IF ps = <<>> THEN Len(rows) ELSE n
      PROVE  Good(Append(ps, page), m)' /\ Append(ps, page) # <<>>
  <2>1. Good(Append(ps, page), m) /\ page \in Seq(Items)
    BY <1>1, <1>3, NextPage, AnswerType
  <2>2. Append(ps, page) # <<>>
    BY <1>3, <2>1, AppendPage
  <2> QED
    BY <1>3, <2>1, <2>2, SameRows
<1>4. ASSUME LoadMore PROVE IInv'
  <2>1. PICK page \in Answers(NextParam(pages)) : pages' = Append(pages, page)
    BY <1>4 DEF LoadMore
  <2>2. PICK ps : ps = pages
    OBVIOUS
  <2>3. PICK n : n = first
    OBVIOUS
  <2>4. PICK m : m = first'
    OBVIOUS
  <2>5. m = IF ps = <<>> THEN Len(rows) ELSE n
    BY <1>4, <2>2, <2>3, <2>4 DEF LoadMore
  <2>6. /\ ps \in Seq(Seq(Items)) /\ n \in 0 .. Len(rows) /\ HasNext(ps) /\ Good(ps, n)
        /\ page \in Answers(NextParam(ps))
    BY <1>2, <1>4, <2>1, <2>2, <2>3 DEF LoadMore, IInv
  <2>7. UNCHANGED <<list, rows>>
    BY <1>4 DEF LoadMore
  <2>8. Good(Append(ps, page), m)' /\ Append(ps, page) # <<>>
    BY <1>3, <2>5, <2>6, <2>7
  <2>9. PICK qs : qs = Append(ps, page)
    OBVIOUS
  <2>10. Good(qs, m)' /\ qs = pages' /\ pages' # <<>>
    BY <2>1, <2>2, <2>8, <2>9
  <2>11. Good(pages, first)'
    BY <2>4, <2>10
  <2>12. reading' = None
    BY <1>4 DEF LoadMore
  <2> QED
    BY <1>1, <2>10, <2>11, <2>12 DEF IInv
<1>5. ASSUME RefreshPage PROVE IInv'
  <2> DEFINE begun == IF reading = None THEN <<>> ELSE reading
             from == IF reading = None THEN Len(rows) ELSE firstRead
  <2>0. UNCHANGED <<list, rows>> /\ pages # <<>>
    BY <1>5 DEF RefreshPage
  <2>1. PICK page \in Answers(NextParam(begun)) :
          IF Len(Append(begun, page)) = Len(pages) \/ ~ HasNext(Append(begun, page))
          THEN /\ pages' = Append(begun, page) /\ first' = from
               /\ reading' = None /\ firstRead' = 0
          ELSE /\ reading' = Append(begun, page) /\ firstRead' = from
               /\ UNCHANGED <<pages, first>>
    BY <1>5 DEF RefreshPage
  <2>2. PICK ps : ps = begun
    OBVIOUS
  <2>3. PICK m : m = from
    OBVIOUS
  <2>4. PICK n : n = IF reading = None THEN 0 ELSE firstRead
    OBVIOUS
  <2>5. /\ ps \in Seq(Seq(Items)) /\ n \in 0 .. Len(rows) /\ HasNext(ps) /\ Good(ps, n)
        /\ m = IF ps = <<>> THEN Len(rows) ELSE n
    <3>1. CASE reading = None
      <4>1. ps = <<>> /\ n = 0 /\ m = Len(rows) /\ ps \in Seq(Seq(Items))
        BY <2>2, <2>3, <2>4, <3>1
      <4>2. Good(<<>>, 0)
        BY EmptyGood
      <4>3. HasNext(<<>>)
        BY DEF HasNext
      <4> QED
        BY <1>2, <4>1, <4>2, <4>3
    <3>2. CASE reading # None
      <4>1. ps = reading /\ n = firstRead /\ m = firstRead /\ ps # <<>>
        BY <2>2, <2>3, <2>4, <3>2 DEF IInv
      <4> QED
        BY <1>2, <3>2, <4>1 DEF IInv
    <3> QED
      BY <3>1, <3>2
  <2>6. page \in Answers(NextParam(ps))
    BY <2>2
  <2>7. Good(Append(ps, page), m)' /\ Append(ps, page) # <<>>
    BY <1>3, <2>0, <2>5, <2>6
  <2>8. PICK qs : qs = Append(ps, page)
    OBVIOUS
  <2>9. Good(qs, m)' /\ qs # <<>>
    BY <2>7, <2>8
  <2>10. \/ pages' = qs /\ first' = m /\ reading' = None
         \/ reading' = qs /\ firstRead' = m /\ UNCHANGED <<pages, first>> /\ HasNext(qs)
    BY <2>1, <2>2, <2>3, <2>8
  <2> HIDE DEF begun, from
  <2>11. CASE pages' = qs /\ first' = m /\ reading' = None
    <3>1. Good(pages, first)'
      BY <2>9, <2>11
    <3> QED
      BY <1>1, <2>9, <2>11, <3>1 DEF IInv
  <2>12. CASE reading' = qs /\ firstRead' = m /\ UNCHANGED <<pages, first>> /\ HasNext(qs)
    <3>1. Good(reading, firstRead)'
      BY <2>9, <2>12
    <3>2. HasNext(qs)'
      BY <2>0, <2>12 DEF HasNext
    <3>3. HasNext(reading)'
      BY <2>12, <3>2
    <3>4. Good(pages, first)'
      <4>1. PICK os : os = pages
        OBVIOUS
      <4>2. PICK o : o = first
        OBVIOUS
      <4>3. Good(os, o)
        BY <4>1, <4>2 DEF IInv
      <4>4. Good(os, o)'
        BY <2>0, <4>3, SameRows
      <4> QED
        BY <2>12, <4>1, <4>2, <4>4
    <3> QED
      BY <1>1, <2>0, <2>9, <2>12, <3>1, <3>3, <3>4 DEF IInv
  <2> QED
    BY <2>10, <2>11, <2>12
\* Rows are committed, or a refresh is given up, or nothing happens.
<1>6. ASSUME UNCHANGED pages, UNCHANGED first, UNCHANGED list,
             reading' = None \/ UNCHANGED <<reading, firstRead>>,
             ASSUME NEW ps \in Seq(Seq(Items)), NEW n \in 0 .. Len(rows), Good(ps, n)
             PROVE  Good(ps, n)'
      PROVE  IInv'
  <2>1. Good(pages, first)'
    <3>1. PICK ps : ps = pages
      OBVIOUS
    <3>2. PICK n : n = first
      OBVIOUS
    <3>3. ps \in Seq(Seq(Items)) /\ n \in 0 .. Len(rows) /\ Good(ps, n)
      BY <1>2, <3>1, <3>2 DEF IInv
    <3>4. Good(ps, n)'
      BY <1>6, <3>3
    <3> QED
      BY <1>6, <3>1, <3>2, <3>4
  <2>2. reading' # None => reading' # <<>> /\ HasNext(reading)' /\ Good(reading, firstRead)'
    <3> SUFFICES ASSUME reading' # None
                 PROVE  reading' # <<>> /\ HasNext(reading)' /\ Good(reading, firstRead)'
      OBVIOUS
    <3>1. PICK ps : ps = reading
      OBVIOUS
    <3>2. PICK n : n = firstRead
      OBVIOUS
    <3>3. /\ ps \in Seq(Seq(Items)) /\ n \in 0 .. Len(rows) /\ Good(ps, n)
          /\ HasNext(ps) /\ ps # <<>> /\ reading' = ps /\ firstRead' = n
      BY <1>2, <1>6, <3>1, <3>2 DEF IInv
    <3>4. Good(ps, n)'
      BY <1>6, <3>3
    <3>5. HasNext(ps)'
      BY <1>6, <3>3 DEF HasNext
    <3> QED
      BY <3>3, <3>4, <3>5
  <2> QED
    BY <1>1, <1>6, <2>1, <2>2 DEF IInv
<1>7. ASSUME RefreshFails PROVE IInv'
  <2>1. UNCHANGED <<list, rows>> /\ UNCHANGED pages /\ UNCHANGED first /\ reading' = None
    BY <1>7 DEF RefreshFails
  <2> QED
    BY <1>6, <2>1, SameRows
<1>8. ASSUME NEW row \in Rows, Commit(row) PROVE IInv'
  <2>1. UNCHANGED list /\ UNCHANGED pages /\ UNCHANGED first /\ UNCHANGED <<reading, firstRead>>
    BY <1>8 DEF Commit
  <2> QED
    BY <1>1, <1>6, <1>8, <2>1, CommitGood
<1>9. ASSUME UNCHANGED vars PROVE IInv'
  <2>1. /\ UNCHANGED <<list, rows>> /\ UNCHANGED pages /\ UNCHANGED first
        /\ UNCHANGED <<reading, firstRead>>
    BY <1>9 DEF vars
  <2> QED
    BY <1>6, <2>1, SameRows
<1> QED
  BY <1>4, <1>5, <1>7, <1>8, <1>9 DEF Next

-----------------------------------------------------------------------------
\* Every variable of the two lists stays in its type.
THEOREM TypeCorrect == Spec => []TypeOK
<1>1. IInv => TypeOK
  BY DEF IInv
<1> QED
  BY <1>1, InitIInv, StepIInv, PTL DEF Spec

LEMMA ListedOnce == IInv => RequestsAreListedOnce
<1> SUFFICES ASSUME IInv, list = "requests", NEW p \in Places, NEW q \in Places,
                    p[1] < q[1] \/ (p[1] = q[1] /\ p[2] < q[2])
             PROVE  ItemAt(p) # ItemAt(q) /\ TimeOf(ItemAt(p)) >= TimeOf(ItemAt(q))
  BY DEF RequestsAreListedOnce
<1>1. /\ p[1] \in DOMAIN pages /\ p[2] \in DOMAIN pages[p[1]]
      /\ q[1] \in DOMAIN pages /\ q[2] \in DOMAIN pages[q[1]]
  BY DEF Places
<1>2. InOrder(pages) /\ TypeOK
  BY DEF IInv, Good
<1>3. ItemAt(p) \in DOMAIN rows /\ ItemAt(q) \in DOMAIN rows
  <2>1. pages \in Seq(Seq(DOMAIN rows))
    BY <1>2 DEF TypeOK, Items
  <2> QED
    BY <1>1, <2>1 DEF ItemAt
<1>4. rows[ItemAt(p)].time \in Int /\ rows[ItemAt(q)].time \in Int
  BY <1>2, <1>3, Constants
<1>5. CASE p[1] < q[1]
  <2>1. rows[ItemAt(p)].time > rows[ItemAt(q)].time
    BY <1>1, <1>2, <1>5 DEF InOrder, ItemAt
  <2> QED
    BY <1>4, <2>1 DEF TimeOf
<1>6. CASE p[1] = q[1] /\ p[2] < q[2]
  BY <1>1, <1>2, <1>6 DEF InOrder, ItemAt, TimeOf
<1> QED
  BY <1>5, <1>6

\* What the pages list is what is shown.
LEMMA ListedIsShown ==
    ASSUME IInv
    PROVE  /\ \A item : Listed(pages, item) => item \in Shown
           /\ \A item \in Shown :
                 \E i \in DOMAIN pages : \E a \in DOMAIN pages[i] : pages[i][a] = item
<1>1. \A i \in DOMAIN pages : Len(pages[i]) <= PageSize[list] /\ DOMAIN pages[i] = 1 .. Len(pages[i])
  <2>1. \A i \in DOMAIN pages : pages[i] \in Seq(Items)
    BY DEF IInv, TypeOK
  <2> QED
    BY <2>1 DEF IInv, Good
<1>2. ASSUME NEW i \in DOMAIN pages, NEW a \in DOMAIN pages[i] PROVE pages[i][a] \in Shown
  <2>1. PageSize[list] \in Nat
    BY Constants DEF IInv
  <2>2. a \in 1 .. PageSize[list]
    BY <1>1, <2>1
  <2>3. <<i, a>> \in Places
    BY <2>2 DEF Places
  <2>4. ItemAt(<<i, a>>) = pages[i][a]
    BY DEF ItemAt
  <2> QED
    BY <2>3, <2>4 DEF Shown
<1>3. \A item \in Shown :
         \E i \in DOMAIN pages : \E a \in DOMAIN pages[i] : pages[i][a] = item
  BY DEF Shown, Places, ItemAt
<1> QED
  BY <1>2, <1>3 DEF Listed

LEMMA NothingSkipped == IInv => NothingIsSkipped
<1> SUFFICES ASSUME IInv, list = "requests", pages # <<>>,
                    NEW r \in 1 .. first, rows[r].tag \in Matching
             PROVE  \/ r \in Shown
                    \/ \E i \in DOMAIN pages :
                          pages[i] # <<>> /\ rows[r].time = rows[pages[i][Len(pages[i])]].time
                    \/ HasNext(pages) /\ \A s \in Shown : rows[r].time < rows[s].time
  BY DEF NothingIsSkipped
<1>1. Reached(pages, first)
  BY DEF IInv, Good
<1>2. CASE /\ HasNext(pages)
           /\ \A i \in DOMAIN pages : \A a \in DOMAIN pages[i] :
                 rows[r].time < rows[pages[i][a]].time
  BY <1>2, ListedIsShown
<1> QED
  BY <1>1, <1>2, ListedIsShown DEF Reached

LEMMA IdleListed == IInv => IdleConversationsAreListed
<1> SUFFICES ASSUME IInv, list = "conversations", pages # <<>>, ~ HasNext(pages), NoTies,
                    NEW r \in 1 .. first,
                    \A s \in first + 1 .. Len(rows) : rows[s].tag # rows[r].tag
             PROVE  rows[r].tag \in Shown
  BY DEF IdleConversationsAreListed
<1>1. r \in DOMAIN rows /\ first \in Nat
  BY Constants DEF IInv, TypeOK
<1>2. rows[r].tag \in Tags /\ Idle(rows[r].tag, first)
  BY <1>1, Constants DEF IInv, Idle
<1>3. IdleReached(pages, first)
  BY DEF IInv, Good
<1>4. Listed(pages, rows[r].tag)
  BY <1>2, <1>3 DEF IdleReached
<1> QED
  BY <1>4, ListedIsShown

\* Whatever is committed between the pages, whatever the clocks and however many
\* refreshes are begun and given up: the list of requests shows no row twice, and is in
\* order.
THEOREM ListedOnceCorrect == Spec => []RequestsAreListedOnce
  BY InitIInv, StepIInv, ListedOnce, PTL DEF Spec

\* A matching row that was there when the first page was read is shown, tied with the
\* last row of a page, or older than all that is shown and on a page still to come.
THEOREM NothingSkippedCorrect == Spec => []NothingIsSkipped
  BY InitIInv, StepIInv, NothingSkipped, PTL DEF Spec

\* With no ties, paging by offset in an order that changes does not skip a
\* conversation nothing is added to.
THEOREM IdleListedCorrect == Spec => []IdleConversationsAreListed
  BY InitIInv, StepIInv, IdleListed, PTL DEF Spec
=============================================================================
