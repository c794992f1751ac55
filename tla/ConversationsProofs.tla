------------------------ MODULE ConversationsProofs ------------------------
(***************************************************************************)
(* Theorems about Conversations, for any chats, answers and bounds.        *)
(*                                                                         *)
(* The recursive functions of the model are unfolded with two lemmas       *)
(* (Recursion, RecursionKeeps): such a function exists, and what each step *)
(* keeps holds at its end.  What the steps keep is, for a tree, Grown: the *)
(* messages met so far, each with the rows through it, the children in the *)
(* order of the rows that first had them; for the walk, Walked: the list   *)
(* so far is in order and the rest is below the messages still to come;    *)
(* for a total, the number of rows counted so far.                         *)
(*                                                                         *)
(* The invariant of the system says that chats go on from their opening,   *)
(* which makes the columns of all the requests of a chat the same.         *)
(***************************************************************************)
EXTENDS Conversations, FiniteSetTheorems, SequenceTheorems,
        WellFoundedInduction, TLAPS

----------------------------------------------------------------------------
(* Recursive functions *)

\* What holds at 0, and at every i of 1 .. n if before it, holds up to n.
LEMMA UpTo ==
    ASSUME NEW n \in Nat, NEW T, 0 \in T, \A i \in 1 .. n : i - 1 \in T => i \in T
    PROVE  \A i \in 0 .. n : i \in T
<1> DEFINE D == {i \in 0 .. n : i \notin T}
<1> SUFFICES ASSUME D # {} PROVE FALSE
  OBVIOUS
<1>1. D \subseteq Nat
  OBVIOUS
<1>2. PICK d \in D : \A e \in D : ~ (<<e, d>> \in OpToRel(<, Nat))
  BY <1>1, NatLessThanWellFounded, WFMin
<1>3. d \in 0 .. n /\ d \notin T /\ d # 0
  OBVIOUS
<1>4. d - 1 \in 0 .. n /\ d - 1 < d /\ d - 1 \in Nat /\ d \in Nat /\ d \in 1 .. n
  BY <1>3
<1>5. d - 1 \in T
  <2>1. CASE d - 1 \in D
    <3>1. ~ (<<d - 1, d>> \in OpToRel(<, Nat))
      BY <1>2, <2>1
    <3> QED
      BY <1>4, <3>1 DEF OpToRel
  <2> QED
    BY <1>4, <2>1
<1> QED
  BY <1>3, <1>4, <1>5

\* f goes through n steps from base; Good[i] holds the values it may have after i.
Steps(f, n, base, step, Good) ==
    /\ f = [i \in 0 .. n |-> f[i]]
    /\ f[0] = base
    /\ \A i \in 1 .. n : f[i] = step[i][f[i - 1]]
    /\ \A i \in 0 .. n : f[i] \in Good[i]

\* A function defined by its value at 0 and by the value before exists, if each step
\* takes good values to good ones.
LEMMA Recursion ==
    ASSUME NEW n \in Nat, NEW Good, NEW base \in Good[0], NEW step,
           \A i \in 1 .. n : \A v \in Good[i - 1] : step[i][v] \in Good[i]
    PROVE  \E f : Steps(f, n, base, step, Good)
<1> DEFINE T == {m \in 0 .. n : \E f : Steps(f, m, base, step, Good)}
<1>1. 0 \in T
  <2> DEFINE f == [i \in 0 .. 0 |-> base]
  <2>1. f = [i \in 0 .. 0 |-> f[i]] /\ f[0] = base
    OBVIOUS
  <2>2. \A i \in 0 .. 0 : f[i] \in Good[i]
    OBVIOUS
  <2>3. \A i \in 1 .. 0 : FALSE
    OBVIOUS
  <2> HIDE DEF f
  <2>4. Steps(f, 0, base, step, Good)
    BY <2>1, <2>2, <2>3 DEF Steps
  <2>5. 0 \in 0 .. n
    OBVIOUS
  <2> QED
    BY <2>4, <2>5
<1>2. ASSUME NEW m \in 1 .. n, m - 1 \in T PROVE m \in T
  <2>1. PICK f : Steps(f, m - 1, base, step, Good)
    BY <1>2
  <2>2. m \in Nat /\ m - 1 \in 0 .. m - 1
    OBVIOUS
  <2> DEFINE g == [i \in 0 .. m |-> IF i = m THEN step[m][f[m - 1]] ELSE f[i]]
  <2>3. g = [i \in 0 .. m |-> g[i]]
    OBVIOUS
  <2>4. g[0] = base
    BY <2>1, <2>2 DEF Steps
  <2>5. \A i \in 0 .. m - 1 : g[i] = f[i]
    BY <2>2
  <2>6. g[m] = step[m][f[m - 1]]
    BY <2>2
  <2> HIDE DEF g
  <2>7. ASSUME NEW i \in 1 .. m PROVE g[i] = step[i][g[i - 1]]
    <3>1. i - 1 \in 0 .. m - 1
      BY <2>2
    <3>2. CASE i = m
      BY <2>5, <2>6, <3>1, <3>2
    <3>3. CASE i # m
      <4>1. i \in 1 .. m - 1 /\ i \in 0 .. m - 1
        BY <2>2, <3>3
      <4>2. f[i] = step[i][f[i - 1]]
        BY <2>1, <4>1 DEF Steps
      <4> QED
        BY <2>5, <3>1, <4>1, <4>2
    <3> QED
      BY <3>2, <3>3
  <2>8. ASSUME NEW i \in 0 .. m PROVE g[i] \in Good[i]
    <3>1. CASE i = m
      <4>1. f[m - 1] \in Good[m - 1]
        BY <2>1, <2>2 DEF Steps
      <4> QED
        BY <2>6, <3>1, <4>1
    <3>2. CASE i # m
      <4>1. i \in 0 .. m - 1
        BY <2>2, <3>2
      <4> QED
        BY <2>1, <2>5, <4>1 DEF Steps
    <3> QED
      BY <3>1, <3>2
  <2>9. Steps(g, m, base, step, Good)
    BY <2>3, <2>4, <2>7, <2>8 DEF Steps
  <2> QED
    BY <2>2, <2>9
<1>3. \A m \in 1 .. n : m - 1 \in T => m \in T
  BY <1>2
<1> HIDE DEF T
<1>4. n \in 0 .. n /\ \A i \in 0 .. n : i \in T
  <2>1. \A i \in 0 .. n : i \in T
    BY <1>1, <1>3, UpTo
  <2> QED
    BY <2>1
<1> QED
  BY <1>4 DEF T

\* What goes through the same steps has the same good values.
LEMMA RecursionKeeps ==
    ASSUME NEW n \in Nat, NEW Good, NEW f, f[0] \in Good[0],
           \A i \in 1 .. n : f[i - 1] \in Good[i - 1] => f[i] \in Good[i]
    PROVE  f[n] \in Good[n]
<1> DEFINE T == {i \in 0 .. n : f[i] \in Good[i]}
<1>1. 0 \in T
  OBVIOUS
<1>2. ASSUME NEW i \in 1 .. n, i - 1 \in T PROVE i \in T
  BY <1>2
<1>3. \A i \in 1 .. n : i - 1 \in T => i \in T
  BY <1>2
<1> HIDE DEF T
<1>4. n \in 0 .. n /\ \A i \in 0 .. n : i \in T
  <2>1. \A i \in 0 .. n : i \in T
    BY <1>1, <1>3, UpTo
  <2> QED
    BY <2>1
<1> QED
  BY <1>4 DEF T

----------------------------------------------------------------------------
(* Least and greatest members *)

\* The least member of a set of natural numbers is one, and the least.
LEMMA Least ==
    ASSUME NEW S \in SUBSET Nat, S # {}
    PROVE  Min(S) \in S /\ \A y \in S : Min(S) <= y
<1>1. PICK d \in S : \A e \in S : ~ (<<e, d>> \in OpToRel(<, Nat))
  BY NatLessThanWellFounded, WFMin
<1>2. ASSUME NEW e \in S PROVE d <= e
  <2>1. d \in Nat /\ e \in Nat
    OBVIOUS
  <2>2. CASE e < d
    <3>1. ~ (<<e, d>> \in OpToRel(<, Nat))
      BY <1>1
    <3> QED
      BY <2>1, <2>2, <3>1 DEF OpToRel
  <2> QED
    BY <2>1, <2>2
<1> QED
  BY <1>2 DEF Min

\* A member that none is below is the least.
LEMMA LeastIs ==
    ASSUME NEW S \in SUBSET Nat, NEW m \in S, \A y \in S : m <= y
    PROVE  Min(S) = m
<1>1. Min(S) \in S /\ \A y \in S : Min(S) <= y
  BY Least
<1>2. m \in Nat /\ Min(S) \in Nat /\ m <= Min(S) /\ Min(S) <= m
  BY <1>1
<1> QED
  BY <1>2

\* The greatest member of a set of bounded numbers is one, and the greatest.
LEMMA Greatest ==
    ASSUME NEW n \in Nat, NEW S \in SUBSET (0 .. n), S # {}
    PROVE  Max(S) \in S /\ \A y \in S : Max(S) >= y
<1> DEFINE R == {k \in 0 .. n : n - k \in S}
<1>1. R \subseteq Nat /\ R # {}
  <2>1. PICK s \in S : TRUE
    OBVIOUS
  <2>2. n - s \in 0 .. n /\ n - (n - s) = s
    OBVIOUS
  <2>3. n - s \in R
    BY <2>2
  <2> QED
    BY <2>3
<1>2. PICK d \in R : \A e \in R : d <= e
  <2> HIDE DEF R
  <2> QED
    BY <1>1, Least
<1>3. n - d \in S /\ d \in 0 .. n
  OBVIOUS
<1>4. ASSUME NEW y \in S PROVE n - d >= y
  <2>1. n - y \in 0 .. n /\ n - (n - y) = y
    OBVIOUS
  <2>2. n - y \in R
    BY <2>1
  <2>3. d <= n - y
    BY <1>2, <2>2
  <2> QED
    BY <1>3, <2>1, <2>3
<1> QED
  BY <1>3, <1>4 DEF Max

\* A member that none is above is the greatest.
LEMMA GreatestIs ==
    ASSUME NEW n \in Nat, NEW S \in SUBSET (0 .. n), NEW m \in S, \A y \in S : m >= y
    PROVE  Max(S) = m
<1>1. Max(S) \in S /\ \A y \in S : Max(S) >= y
  BY Greatest
<1>2. m \in 0 .. n /\ Max(S) \in 0 .. n
  BY <1>1
<1>3. m >= Max(S) /\ Max(S) >= m
  BY <1>1
<1> QED
  BY <1>2, <1>3

----------------------------------------------------------------------------
(* Sequences and their beginnings *)

\* Sequences with the same members are the same.
LEMMA SameSequence ==
    ASSUME NEW S, NEW s \in Seq(S), NEW t \in Seq(S), Len(s) = Len(t),
           \A i \in 1 .. Len(s) : s[i] = t[i]
    PROVE  s = t
OBVIOUS

\* What SubSeq(s, 1, n) is.
LEMMA BeginningIs ==
    ASSUME NEW S, NEW s \in Seq(S), NEW n \in 0 .. Len(s)
    PROVE  /\ SubSeq(s, 1, n) \in Seq(S) /\ Len(SubSeq(s, 1, n)) = n
           /\ \A i \in 1 .. n : SubSeq(s, 1, n)[i] = s[i]
OBVIOUS

\* A prefix agrees with the whole as far as it goes.
LEMMA PrefixIs ==
    ASSUME NEW S, NEW s \in Seq(S), NEW t \in Seq(S)
    PROVE  IsPrefix(s, t) <=>
             Len(s) <= Len(t) /\ \A i \in 1 .. Len(s) : s[i] = t[i]
<1>1. ASSUME IsPrefix(s, t) PROVE Len(s) <= Len(t) /\ \A i \in 1 .. Len(s) : s[i] = t[i]
  <2>1. Len(s) <= Len(t) /\ SubSeq(s, 1, Len(s)) = SubSeq(t, 1, Len(s))
    BY <1>1 DEF IsPrefix
  <2>2. Len(s) \in 0 .. Len(s) /\ Len(s) \in 0 .. Len(t)
    BY <2>1
  <2> QED
    BY <2>1, <2>2, BeginningIs
<1>2. ASSUME Len(s) <= Len(t), \A i \in 1 .. Len(s) : s[i] = t[i] PROVE IsPrefix(s, t)
  <2>1. Len(s) \in 0 .. Len(s) /\ Len(s) \in 0 .. Len(t)
    BY <1>2
  <2>2. SubSeq(s, 1, Len(s)) = SubSeq(t, 1, Len(s))
    BY <1>2, <2>1, BeginningIs
  <2> QED
    BY <1>2, <2>2 DEF IsPrefix
<1> QED
  BY <1>1, <1>2

LEMMA PrefixOfItself ==
    ASSUME NEW S, NEW s \in Seq(S)
    PROVE  IsPrefix(s, s)
BY PrefixIs

LEMMA PrefixOfLonger ==
    ASSUME NEW S, NEW s \in Seq(S), NEW t \in Seq(S), NEW u \in Seq(S),
           IsPrefix(s, t), IsPrefix(t, u)
    PROVE  IsPrefix(s, u)
BY PrefixIs

LEMMA PrefixOfSameLength ==
    ASSUME NEW S, NEW s \in Seq(S), NEW t \in Seq(S), IsPrefix(s, t), Len(s) = Len(t)
    PROVE  s = t
BY PrefixIs, SameSequence

\* The shorter of two prefixes of a sequence is a prefix of the longer.
LEMMA PrefixOfPrefix ==
    ASSUME NEW S, NEW s \in Seq(S), NEW t \in Seq(S), NEW u \in Seq(S),
           IsPrefix(s, u), IsPrefix(t, u), Len(s) <= Len(t)
    PROVE  IsPrefix(s, t)
BY PrefixIs

\* A prefix is the beginning of its length, and the other way round.
LEMMA PrefixIsBeginning ==
    ASSUME NEW S, NEW s \in Seq(S), NEW u \in Seq(S), IsPrefix(s, u)
    PROVE  s = SubSeq(u, 1, Len(s)) /\ Len(s) \in 0 .. Len(u)
<1>1. Len(s) \in 0 .. Len(u) /\ \A i \in 1 .. Len(s) : s[i] = u[i]
  BY PrefixIs
<1> DEFINE v == SubSeq(u, 1, Len(s))
<1>2. v \in Seq(S) /\ Len(v) = Len(s) /\ \A i \in 1 .. Len(s) : v[i] = u[i]
  BY <1>1, BeginningIs
<1> HIDE DEF v
<1>3. s = v
  BY <1>1, <1>2, SameSequence
<1> QED
  BY <1>1, <1>3 DEF v

LEMMA BeginningIsPrefix ==
    ASSUME NEW S, NEW u \in Seq(S), NEW n \in 0 .. Len(u)
    PROVE  IsPrefix(SubSeq(u, 1, n), u)
<1> DEFINE v == SubSeq(u, 1, n)
<1>1. v \in Seq(S) /\ Len(v) = n /\ \A i \in 1 .. n : v[i] = u[i]
  BY BeginningIs
<1> HIDE DEF v
<1>2. IsPrefix(v, u)
  BY <1>1, PrefixIs
<1> QED
  BY <1>2 DEF v

\* All but the last: what a message answers.
LEMMA FrontIs ==
    ASSUME NEW S, NEW s \in Seq(S), s # <<>>
    PROVE  /\ Front(s) \in Seq(S) /\ Len(Front(s)) = Len(s) - 1
           /\ Front(s) = SubSeq(s, 1, Len(s) - 1) /\ IsPrefix(Front(s), s)
           /\ Len(s) \in Nat \ {0}
<1>1. Len(s) \in Nat \ {0} /\ Len(s) - 1 \in 0 .. Len(s)
  OBVIOUS
<1>2. Front(s) = SubSeq(s, 1, Len(s) - 1)
  BY DEF Front
<1>3. IsPrefix(SubSeq(s, 1, Len(s) - 1), s)
  BY <1>1, BeginningIsPrefix
<1> QED
  BY <1>1, <1>2, <1>3, BeginningIs

----------------------------------------------------------------------------
(* Selections *)

\* v holds what stands at the first i places of s, where they are among the places:
\* m tells which.
Takes(s, places, i, v, m) ==
    /\ m \in [1 .. Len(v) -> places \cap (1 .. i)]
    /\ \A a, b \in 1 .. Len(v) : a < b => m[a] < m[b]
    /\ \A j \in places \cap (1 .. i) : \E a \in 1 .. Len(v) : m[a] = j
    /\ \A a \in 1 .. Len(v) : v[a] = s[m[a]]

\* One place more.
LEMMA TakesOneMore ==
    ASSUME NEW S, NEW s \in Seq(S), NEW places, NEW i \in 1 .. Len(s), NEW v \in Seq(S),
           NEW m, Takes(s, places, i - 1, v, m)
    PROVE  /\ (IF i \in places THEN Append(v, s[i]) ELSE v) \in Seq(S)
           /\ \E l : Takes(s, places, i, IF i \in places THEN Append(v, s[i]) ELSE v, l)
<1>1. s[i] \in S /\ i \in Nat /\ i \in 1 .. i /\ Len(v) \in Nat
  OBVIOUS
<1>2. /\ m \in [1 .. Len(v) -> places \cap (1 .. i - 1)]
      /\ \A a, b \in 1 .. Len(v) : a < b => m[a] < m[b]
      /\ \A j \in places \cap (1 .. i - 1) : \E a \in 1 .. Len(v) : m[a] = j
      /\ \A a \in 1 .. Len(v) : v[a] = s[m[a]]
  BY DEF Takes
<1>3. CASE i \notin places
  <2>1. places \cap (1 .. i - 1) = places \cap (1 .. i)
    BY <1>1, <1>3
  <2>2. Takes(s, places, i, v, m)
    BY <1>2, <2>1 DEF Takes
  <2> QED
    BY <1>3, <2>2
<1>4. CASE i \in places
  <2> DEFINE w == Append(v, s[i])
             n == Len(v)
             l == [a \in 1 .. n + 1 |-> IF a = n + 1 THEN i ELSE m[a]]
  <2>1. /\ w \in Seq(S) /\ Len(w) = n + 1 /\ w[n + 1] = s[i]
        /\ \A a \in 1 .. n : w[a] = v[a]
    BY <1>1, AppendProperties
  <2>2. /\ l[n + 1] = i
        /\ \A a \in 1 .. n : l[a] = m[a] /\ m[a] \in places /\ m[a] \in 1 .. i - 1
    <3>1. \A a \in 1 .. n : m[a] \in places \cap (1 .. i - 1)
      BY <1>2
    <3>2. n + 1 \in 1 .. n + 1 /\ \A a \in 1 .. n : a \in 1 .. n + 1 /\ a # n + 1
      BY <1>1
    <3> QED
      BY <3>1, <3>2
  <2>3. l \in [1 .. n + 1 -> places \cap (1 .. i)]
    BY <1>1, <1>2, <1>4
  <2> HIDE DEF w, n, l
  <2>4. ASSUME NEW a \in 1 .. n + 1, a # n + 1 PROVE a \in 1 .. n
    BY <1>1, <2>4 DEF n
  <2>5. ASSUME NEW a \in 1 .. n + 1, NEW b \in 1 .. n + 1, a < b PROVE l[a] < l[b]
    <3>1. a \in 1 .. n
      BY <1>1, <2>5 DEF n
    <3>2. CASE b = n + 1
      BY <2>2, <3>1, <3>2
    <3>3. CASE b # n + 1
      BY <1>2, <2>2, <2>4, <2>5, <3>1, <3>3 DEF n
    <3> QED
      BY <3>2, <3>3
  <2>6. ASSUME NEW j \in places \cap (1 .. i) PROVE \E a \in 1 .. n + 1 : l[a] = j
    <3>1. CASE j = i
      <4>1. n + 1 \in 1 .. n + 1
        BY <1>1 DEF n
      <4> QED
        BY <2>2, <3>1, <4>1
    <3>2. CASE j # i
      <4>1. j \in places \cap (1 .. i - 1)
        BY <1>1, <3>2
      <4>2. PICK a \in 1 .. n : m[a] = j
        BY <1>2, <4>1 DEF n
      <4>3. a \in 1 .. n + 1
        BY <1>1 DEF n
      <4> QED
        BY <2>2, <4>2, <4>3
    <3> QED
      BY <3>1, <3>2
  <2>7. ASSUME NEW a \in 1 .. n + 1 PROVE w[a] = s[l[a]]
    <3>1. CASE a = n + 1
      BY <2>1, <2>2, <3>1
    <3>2. CASE a # n + 1
      BY <1>2, <2>1, <2>2, <2>4, <3>2 DEF n
    <3> QED
      BY <3>1, <3>2
  <2>8. Takes(s, places, i, w, l)
    BY <2>1, <2>3, <2>5, <2>6, <2>7 DEF Takes
  <2>9. Takes(s, places, i, Append(v, s[i]), l) /\ Append(v, s[i]) \in Seq(S)
    BY <2>1, <2>8 DEF w
  <2> QED
    BY <1>4, <2>9
<1> QED
  BY <1>3, <1>4

\* Selected takes what stands at the places, in their order.
LEMMA SelectedTakes ==
    ASSUME NEW S, NEW s \in Seq(S), NEW places
    PROVE  /\ Selected(s, places) \in Seq(S)
           /\ \E m : Takes(s, places, Len(s), Selected(s, places), m)
<1> DEFINE n == Len(s)
           op(i, v) == IF i \in places THEN Append(v, s[i]) ELSE v
           IsKept(f) == f = [i \in 0 .. n |-> IF i = 0 THEN <<>>
                                              ELSE IF i \in places THEN Append(f[i - 1], s[i])
                                              ELSE f[i - 1]]
           kept == CHOOSE f : IsKept(f)
           Good == [i \in 0 .. n |-> {v \in Seq(S) : \E m : Takes(s, places, i, v, m)}]
           step == [i \in 1 .. n |-> [v \in Seq(S) |-> op(i, v)]]
<1>1. Selected(s, places) = kept[n]
  BY DEF Selected
<1>2. n \in Nat /\ 0 \in 0 .. n /\ n \in 0 .. n
  OBVIOUS
<1>3. <<>> \in Good[0]
  <2> DEFINE e == <<>>
             m == [a \in 1 .. 0 |-> 0]
  <2>1. e \in Seq(S) /\ Len(e) = 0
    OBVIOUS
  <2>2. m \in [1 .. 0 -> places \cap (1 .. 0)]
    OBVIOUS
  <2> HIDE DEF e, m
  <2>3. Takes(s, places, 0, e, m)
    BY <2>1, <2>2 DEF Takes
  <2>4. e \in Good[0]
    BY <1>2, <2>1, <2>3
  <2> QED
    BY <2>4 DEF e
<1>4. ASSUME NEW i \in 1 .. n, NEW v \in Good[i - 1] PROVE op(i, v) \in Good[i] /\ v \in Seq(S)
  <2>1. i - 1 \in 0 .. n /\ i \in 0 .. n
    BY <1>2
  <2>2. v \in Seq(S) /\ \E m : Takes(s, places, i - 1, v, m)
    BY <2>1
  <2>3. PICK m : Takes(s, places, i - 1, v, m)
    BY <2>2
  <2>4. op(i, v) \in Seq(S) /\ \E l : Takes(s, places, i, op(i, v), l)
    BY <2>2, <2>3, TakesOneMore
  <2> HIDE DEF op
  <2> QED
    BY <2>1, <2>2, <2>4
<1> HIDE DEF Good
<1>5. \A i \in 1 .. n : \A v \in Good[i - 1] : step[i][v] \in Good[i] /\ step[i][v] = op(i, v)
  BY <1>4
<1> HIDE DEF step
<1>6. PICK f : Steps(f, n, <<>>, step, Good)
  <2> DEFINE e == <<>>
  <2>1. e \in Good[0]
    BY <1>3
  <2> HIDE DEF e, n, op
  <2>2. \E f : Steps(f, n, e, step, Good)
    BY <1>2, <1>5, <2>1, Recursion
  <2> QED
    BY <2>2 DEF e
<1>7. IsKept(f)
  <2>1. f = [i \in 0 .. n |-> f[i]] /\ f[0] = <<>> /\ \A i \in 1 .. n : f[i] = step[i][f[i - 1]]
    BY <1>6 DEF Steps
  <2>2. \A i \in 0 .. n : f[i] \in Good[i]
    BY <1>6 DEF Steps
  <2>3. ASSUME NEW i \in 0 .. n
        PROVE  f[i] = IF i = 0 THEN <<>>
                      ELSE IF i \in places THEN Append(f[i - 1], s[i]) ELSE f[i - 1]
    <3>1. CASE i = 0
      BY <2>1, <3>1
    <3>2. CASE i # 0
      <4>1. i \in 1 .. n /\ i - 1 \in 0 .. n
        BY <1>2, <3>2
      <4>2. f[i] = op(i, f[i - 1])
        BY <1>5, <2>1, <2>2, <4>1
      <4> QED
        BY <3>2, <4>2
    <3> QED
      BY <3>1, <3>2
  <2> QED
    BY <2>1, <2>3
<1>8. IsKept(kept)
  BY <1>7
<1> HIDE DEF kept
<1>9. kept[0] = <<>> /\ \A i \in 1 .. n : kept[i] = op(i, kept[i - 1])
  <2>1. ASSUME NEW i \in 1 .. n PROVE kept[i] = op(i, kept[i - 1])
    <3>1. i \in 0 .. n /\ i # 0
      BY <1>2
    <3> QED
      BY <1>8, <3>1
  <2> QED
    BY <1>2, <1>8, <2>1
<1> HIDE DEF op
<1>10. /\ kept[0] \in Good[0]
       /\ \A i \in 1 .. n : kept[i - 1] \in Good[i - 1] => kept[i] \in Good[i]
  BY <1>3, <1>5, <1>9
<1> HIDE DEF n
<1>11. kept[n] \in Good[n]
  BY <1>2, <1>10, RecursionKeeps
<1> QED
  BY <1>1, <1>2, <1>11 DEF Good, n

----------------------------------------------------------------------------
(* A tree that grows by one message *)

\* The rows among the first i of a group that go through p, where of the i-th row n
\* messages have been inserted.  W holds the path of each row.
Through(W, i, n, p) == {j \in 1 .. i : IsPrefix(p, W[j]) /\ (j = i => Len(p) <= n)}

\* The paths that are in the tree by then.
Met(S, W, i, n) == {p \in Seq(S) : p # <<>> /\ Through(W, i, n, p) # {}}

Below(D, x) == {q \in D : Front(q) = x}

\* K holds the paths of C, in the order in which the rows first went through them.
InOrder(W, i, n, K, C) ==
    /\ K \in Seq(C)
    /\ \A c \in C : \E a \in 1 .. Len(K) : K[a] = c
    /\ \A a, b \in 1 .. Len(K) :
          a < b => Min(Through(W, i, n, K[a])) < Min(Through(W, i, n, K[b]))

Nodes(S) ==
    [count : Nat, first : Nat, last : Nat, children : Seq(Seq(S)),
     origin : {"request", "response"}]

\* What a node says of the rows through it.
Tells(group, node, through) ==
    /\ node.count = Cardinality(through)
    /\ node.first = group[Min(through)].id
    /\ node.last = group[Max(through)].id

Grown(S, group, W, i, n, tree) ==
    /\ IsFiniteSet(Met(S, W, i, n))
    /\ tree \in [nodes : [Met(S, W, i, n) -> Nodes(S)], roots : Seq(Seq(S))]
    /\ \A p \in Met(S, W, i, n) : Tells(group, tree.nodes[p], Through(W, i, n, p))
    /\ InOrder(W, i, n, tree.roots, Below(Met(S, W, i, n), <<>>))
    /\ \A p \in Met(S, W, i, n) :
          InOrder(W, i, n, tree.nodes[p].children, Below(Met(S, W, i, n), p))

\* What one message more changes: its path is met, through the i-th row.
MessageMore(S, W, i, n, p) ==
    /\ p \in Seq(S) /\ p # <<>> /\ Len(p) = n + 1
    /\ \A q \in Seq(S) : q # p => Through(W, i, n + 1, q) = Through(W, i, n, q)
    /\ Through(W, i, n + 1, p) = Through(W, i, n, p) \cup {i}
    /\ \A q \in Seq(S) : Len(q) = n + 1 => i \notin Through(W, i, n, q)
    /\ \A q : Through(W, i, n, q) \in SUBSET (1 .. i)
    /\ Front(p) # <<>> => Front(p) \in Met(S, W, i, n)
    /\ Met(S, W, i, n + 1) = Met(S, W, i, n) \cup {p}

\* What inserting message n + 1 of row i does to the rows through each path.
LEMMA OneMessageMore ==
    ASSUME NEW S, NEW W \in Seq(Seq(S)), NEW i \in 1 .. Len(W), NEW n \in Nat,
           n < Len(W[i]), NEW p, p = SubSeq(W[i], 1, n + 1)
    PROVE  MessageMore(S, W, i, n, p)
<1> DEFINE w == W[i]
<1>1. w \in Seq(S) /\ Len(w) \in Nat /\ n < Len(w) /\ i \in Nat /\ i \in 1 .. i
  OBVIOUS
<1>2. p = SubSeq(w, 1, n + 1) /\ n + 1 \in 0 .. Len(w) /\ n \in 0 .. Len(w)
  BY <1>1
<1> HIDE DEF w
<1>3. p \in Seq(S) /\ Len(p) = n + 1 /\ IsPrefix(p, w)
  <2>1. p \in Seq(S) /\ Len(p) = n + 1
    BY <1>1, <1>2, BeginningIs
  <2>2. IsPrefix(p, w)
    BY <1>1, <1>2, BeginningIsPrefix
  <2> QED
    BY <2>1, <2>2
<1>4. p # <<>>
  <2>1. Len(<<>>) = 0 /\ n + 1 # 0
    OBVIOUS
  <2> QED
    BY <1>3, <2>1
<1>5. Front(p) \in Seq(S) /\ Len(Front(p)) = n /\ IsPrefix(Front(p), p)
  <2>1. Front(p) \in Seq(S) /\ Len(Front(p)) = Len(p) - 1 /\ IsPrefix(Front(p), p)
    BY <1>3, <1>4, FrontIs
  <2> QED
    BY <1>3, <2>1
<1>6. IsPrefix(Front(p), w)
  BY <1>1, <1>3, <1>5, PrefixOfLonger
<1>9. ASSUME NEW q \in Seq(S), q # p PROVE Through(W, i, n + 1, q) = Through(W, i, n, q)
  <2>1. Len(q) = n + 1 /\ IsPrefix(q, w) => q = p
    <3>1. IsPrefix(q, w) => q = SubSeq(w, 1, Len(q))
      BY <1>1, PrefixIsBeginning
    <3> QED
      BY <1>2, <3>1
  <2>2. ASSUME NEW j \in 1 .. i, IsPrefix(q, W[j]), j = i => Len(q) <= n + 1
        PROVE  j = i => Len(q) <= n
    <3>1. Len(q) \in Nat
      OBVIOUS
    <3> QED
      BY <1>9, <2>1, <2>2, <3>1 DEF w
  <2>3. \A j : j = i /\ Len(q) <= n => Len(q) <= n + 1
    OBVIOUS
  <2> QED
    BY <2>2, <2>3 DEF Through
<1>10. ASSUME NEW q \in Seq(S), Len(q) = n + 1 PROVE i \notin Through(W, i, n, q)
  BY <1>10 DEF Through
<1>11. Through(W, i, n + 1, p) = Through(W, i, n, p) \cup {i}
  <2>1. i \in Through(W, i, n + 1, p)
    BY <1>1, <1>3 DEF Through, w
  <2>2. Through(W, i, n, p) \subseteq Through(W, i, n + 1, p)
    BY <1>3 DEF Through
  <2>3. Through(W, i, n + 1, p) \subseteq Through(W, i, n, p) \cup {i}
    BY DEF Through
  <2> QED
    BY <2>1, <2>2, <2>3
<1>12. \A q : Through(W, i, n, q) \in SUBSET (1 .. i)
  BY DEF Through
<1>13. ASSUME Front(p) # <<>> PROVE Front(p) \in Met(S, W, i, n)
  <2>1. i \in Through(W, i, n, Front(p))
    BY <1>1, <1>5, <1>6 DEF Through, w
  <2> QED
    BY <1>5, <1>13, <2>1 DEF Met
<1>14. Met(S, W, i, n + 1) = Met(S, W, i, n) \cup {p}
  <2>1. ASSUME NEW q \in Seq(S), q # p PROVE q \in Met(S, W, i, n + 1) <=> q \in Met(S, W, i, n)
    BY <1>9, <2>1 DEF Met
  <2>2. p \in Met(S, W, i, n + 1)
    BY <1>3, <1>4, <1>11 DEF Met
  <2>3. Met(S, W, i, n + 1) \subseteq Seq(S) /\ Met(S, W, i, n) \subseteq Seq(S)
    BY DEF Met
  <2> QED
    BY <2>1, <2>2, <2>3
<1> QED
  BY <1>3, <1>4, <1>9, <1>10, <1>11, <1>12, <1>13, <1>14 DEF MessageMore

\* The order of what was met before is kept.
LEMMA OrderKept ==
    ASSUME NEW W, NEW i, NEW n, NEW j, NEW m, NEW K, NEW C, NEW E,
           InOrder(W, i, n, K, C), C = E,
           \A c \in C : Min(Through(W, j, m, c)) = Min(Through(W, i, n, c))
    PROVE  InOrder(W, j, m, K, E)
<1>1. /\ K \in Seq(C)
      /\ \A c \in C : \E a \in 1 .. Len(K) : K[a] = c
      /\ \A a, b \in 1 .. Len(K) :
            a < b => Min(Through(W, i, n, K[a])) < Min(Through(W, i, n, K[b]))
  BY DEF InOrder
<1>2. \A a \in 1 .. Len(K) : K[a] \in C
  BY <1>1
<1>3. \A a, b \in 1 .. Len(K) :
          a < b => Min(Through(W, j, m, K[a])) < Min(Through(W, j, m, K[b]))
  BY <1>1, <1>2
<1> QED
  BY <1>1, <1>3 DEF InOrder

\* What is met last comes last.
LEMMA OrderGrows ==
    ASSUME NEW W, NEW i, NEW n, NEW m, NEW K, NEW C, NEW p, NEW E,
           InOrder(W, i, n, K, C), p \notin C, E = C \cup {p},
           \A c \in C : /\ Min(Through(W, i, m, c)) = Min(Through(W, i, n, c))
                        /\ Min(Through(W, i, m, c)) < Min(Through(W, i, m, p))
    PROVE  InOrder(W, i, m, Append(K, p), E)
<1>1. /\ K \in Seq(C)
      /\ \A c \in C : \E a \in 1 .. Len(K) : K[a] = c
      /\ \A a, b \in 1 .. Len(K) :
            a < b => Min(Through(W, i, n, K[a])) < Min(Through(W, i, n, K[b]))
  BY DEF InOrder
<1>2. Len(K) \in Nat /\ \A a \in 1 .. Len(K) : K[a] \in C
  BY <1>1
<1> DEFINE L == Append(K, p)
<1>3. K \in Seq(E) /\ p \in E
  <2>1. C \subseteq E
    OBVIOUS
  <2> QED
    BY <1>1, <2>1
<1>4. /\ L \in Seq(E) /\ Len(L) = Len(K) + 1 /\ L[Len(K) + 1] = p
      /\ \A a \in 1 .. Len(K) : L[a] = K[a]
  BY <1>3, AppendProperties
<1> HIDE DEF L
<1>5. ASSUME NEW c \in E PROVE \E a \in 1 .. Len(L) : L[a] = c
  <2>1. CASE c = p
    <3>1. Len(K) + 1 \in 1 .. Len(L)
      BY <1>2, <1>4
    <3> QED
      BY <1>4, <2>1, <3>1
  <2>2. CASE c # p
    <3>1. PICK a \in 1 .. Len(K) : K[a] = c
      BY <1>1, <2>2
    <3>2. a \in 1 .. Len(L)
      BY <1>2, <1>4
    <3> QED
      BY <1>4, <3>1, <3>2
  <2> QED
    BY <2>1, <2>2
<1>6. ASSUME NEW a \in 1 .. Len(L), NEW b \in 1 .. Len(L), a < b
      PROVE  Min(Through(W, i, m, L[a])) < Min(Through(W, i, m, L[b]))
  <2>1. a \in 1 .. Len(K) /\ L[a] = K[a] /\ K[a] \in C
    <3>1. a \in 1 .. Len(K)
      BY <1>2, <1>4, <1>6
    <3> QED
      BY <1>2, <1>4, <3>1
  <2>2. CASE b = Len(K) + 1
    BY <1>4, <2>1, <2>2
  <2>3. CASE b # Len(K) + 1
    <3>1. b \in 1 .. Len(K)
      BY <1>2, <1>4, <2>3
    <3>2. L[b] = K[b] /\ K[b] \in C
      BY <1>2, <1>4, <3>1
    <3> QED
      BY <1>1, <1>6, <2>1, <3>1, <3>2
  <2> QED
    BY <2>2, <2>3
<1>7. InOrder(W, i, m, L, E)
  BY <1>4, <1>5, <1>6 DEF InOrder
<1> QED
  BY <1>7 DEF L

----------------------------------------------------------------------------
(* Insert *)

Shaped(S, D) == [nodes : [D -> Nodes(S)], roots : Seq(Seq(S))]

\* A message met again is counted.
CountsAgain(S, D, tree, r, p, new) ==
    /\ new \in Shaped(S, D) /\ new.roots = tree.roots
    /\ \A q \in D : q # p => new.nodes[q] = tree.nodes[q]
    /\ new.nodes[p].count = tree.nodes[p].count + 1
    /\ new.nodes[p].first = tree.nodes[p].first /\ new.nodes[p].last = r.id
    /\ \A q \in D : new.nodes[q].children = tree.nodes[q].children

\* Inserting a message that is in the tree counts it again.
LEMMA CountedAgain ==
    ASSUME NEW S, NEW D, NEW tree \in Shaped(S, D), NEW p \in D, NEW r, r.id \in Nat,
           NEW new, new = Insert(tree, r, p)
    PROVE  CountsAgain(S, D, tree, r, p, new)
<1> DEFINE node == [tree.nodes[p] EXCEPT !.count = @ + 1, !.last = r.id]
<1>1. /\ tree \in [nodes : [D -> Nodes(S)], roots : Seq(Seq(S))]
      /\ tree.nodes \in [D -> Nodes(S)] /\ DOMAIN tree.nodes = D /\ tree.roots \in Seq(Seq(S))
  BY DEF Shaped
<1>2. tree.nodes[p] \in Nodes(S)
  BY <1>1
<1>3. /\ node \in Nodes(S) /\ node.count = tree.nodes[p].count + 1
      /\ node.first = tree.nodes[p].first /\ node.last = r.id
      /\ node.children = tree.nodes[p].children
  <2> DEFINE old == tree.nodes[p]
             id == r.id
  <2>1. old \in Nodes(S) /\ id \in Nat /\ node = [old EXCEPT !.count = @ + 1, !.last = id]
    BY <1>2
  <2> HIDE DEF old, id, node
  <2>2. old.count \in Nat /\ old.count + 1 \in Nat
    BY <2>1 DEF Nodes
  <2>3. node.count = old.count + 1
    BY <2>1, <2>2 DEF Nodes
  <2>4. node \in Nodes(S)
    BY <2>1, <2>2 DEF Nodes
  <2>5. node.first = old.first /\ node.last = id /\ node.children = old.children
    BY <2>1 DEF Nodes
  <2> QED
    BY <2>3, <2>4, <2>5 DEF old, id
<1>4. new = [tree EXCEPT !.nodes = [tree.nodes EXCEPT ![p] = node]]
  BY <1>1 DEF Insert
<1> HIDE DEF node
<1>5. new.nodes = [tree.nodes EXCEPT ![p] = node] /\ new.roots = tree.roots
  BY <1>1, <1>4
<1>6. new.nodes \in [D -> Nodes(S)]
  BY <1>1, <1>3, <1>5
<1>7. new \in Shaped(S, D)
  BY <1>1, <1>4, <1>5, <1>6 DEF Shaped
<1>8. new.nodes[p] = node /\ \A q \in D : q # p => new.nodes[q] = tree.nodes[q]
  BY <1>1, <1>5
<1>9. \A q \in D : new.nodes[q].children = tree.nodes[q].children
  BY <1>3, <1>8
<1> QED
  BY <1>3, <1>5, <1>7, <1>8, <1>9 DEF CountsAgain

\* A new message is a root, or the last child of its parent.
Adds(S, D, tree, r, p, new) ==
    /\ new \in Shaped(S, D \cup {p})
    /\ new.nodes[p].count = 1 /\ new.nodes[p].children = <<>>
    /\ new.nodes[p].first = r.id /\ new.nodes[p].last = r.id
    /\ \A q \in D : /\ new.nodes[q].count = tree.nodes[q].count
                    /\ new.nodes[q].first = tree.nodes[q].first
                    /\ new.nodes[q].last = tree.nodes[q].last
                    /\ new.nodes[q].children =
                         IF q = Front(p) THEN Append(tree.nodes[q].children, p)
                         ELSE tree.nodes[q].children
    /\ new.roots = IF Front(p) = <<>> THEN Append(tree.roots, p) ELSE tree.roots

\* Inserting one that is not adds it, behind its siblings.
LEMMA AddedMessage ==
    ASSUME NEW S, NEW D \in SUBSET Seq(S), NEW tree \in Shaped(S, D), NEW p \in Seq(S),
           p \notin D, NEW r, r.id \in Nat, Front(p) = <<>> \/ Front(p) \in D, <<>> \notin D,
           NEW new, new = Insert(tree, r, p)
    PROVE  Adds(S, D, tree, r, p, new)
<1> DEFINE node == [count |-> 1, first |-> r.id, last |-> r.id, children |-> <<>>,
                    origin |-> IF Len(p) > Len(r.messages) THEN "response" ELSE "request"]
           added == [q \in DOMAIN tree.nodes \cup {p} |->
                        IF q = p THEN node ELSE tree.nodes[q]]
           grown == [tree EXCEPT !.nodes = added]
           x == Front(p)
<1>1. /\ tree \in [nodes : [D -> Nodes(S)], roots : Seq(Seq(S))]
      /\ tree.nodes \in [D -> Nodes(S)] /\ DOMAIN tree.nodes = D /\ tree.roots \in Seq(Seq(S))
  BY DEF Shaped
<1>2. /\ node \in Nodes(S) /\ node.count = 1 /\ node.children = <<>>
      /\ node.first = r.id /\ node.last = r.id
  <2>1. <<>> \in Seq(Seq(S))
    OBVIOUS
  <2> QED
    BY <2>1 DEF Nodes
<1>3. new = IF x = <<>> THEN [grown EXCEPT !.roots = Append(@, p)]
            ELSE [grown EXCEPT !.nodes[x].children = Append(@, p)]
  BY <1>1 DEF Insert
<1> HIDE DEF node, x
<1>4. added = [q \in D \cup {p} |-> IF q = p THEN node ELSE tree.nodes[q]]
  BY <1>1
<1> HIDE DEF added
<1>5. /\ added \in [D \cup {p} -> Nodes(S)] /\ added[p] = node
      /\ \A q \in D : added[q] = tree.nodes[q]
  BY <1>1, <1>2, <1>4
<1>6. /\ grown.nodes = added /\ grown.roots = tree.roots
      /\ grown \in [nodes : [D \cup {p} -> Nodes(S)], roots : Seq(Seq(S))]
  BY <1>1, <1>5
<1> HIDE DEF grown
<1>7. CASE x = <<>>
  <2>1. new = [grown EXCEPT !.roots = Append(tree.roots, p)]
    BY <1>3, <1>6, <1>7
  <2>2. Append(tree.roots, p) \in Seq(Seq(S))
    BY <1>1, AppendProperties
  <2>3. new.nodes = added /\ new.roots = Append(tree.roots, p)
    BY <1>6, <2>1
  <2>4. new \in Shaped(S, D \cup {p})
    BY <1>6, <2>1, <2>2 DEF Shaped
  <2>5. new.nodes[p] = node /\ \A q \in D : new.nodes[q] = tree.nodes[q] /\ q # x
    BY <1>5, <1>7, <2>3
  <2> QED
    BY <1>2, <1>7, <2>3, <2>4, <2>5 DEF Adds, x
<1>8. CASE x # <<>>
  <2> DEFINE parent == [tree.nodes[x] EXCEPT !.children = Append(@, p)]
  <2>1. x \in D /\ x # p
    BY <1>8 DEF x
  <2>2. tree.nodes[x] \in Nodes(S) /\ tree.nodes[x].children \in Seq(Seq(S))
    BY <1>1, <2>1 DEF Nodes
  <2>3. Append(tree.nodes[x].children, p) \in Seq(Seq(S))
    BY <2>2, AppendProperties
  <2>4. /\ parent \in Nodes(S) /\ parent.count = tree.nodes[x].count
        /\ parent.first = tree.nodes[x].first /\ parent.last = tree.nodes[x].last
        /\ parent.children = Append(tree.nodes[x].children, p)
    BY <2>2, <2>3 DEF Nodes
  <2>5. new = [grown EXCEPT !.nodes = [added EXCEPT ![x] = parent]]
    BY <1>3, <1>5, <1>6, <1>8, <2>1
  <2> HIDE DEF parent
  <2>6. new.nodes = [added EXCEPT ![x] = parent] /\ new.roots = tree.roots
    BY <1>6, <2>5
  <2>7. new.nodes \in [D \cup {p} -> Nodes(S)]
    BY <1>5, <2>4, <2>6
  <2>8. new \in Shaped(S, D \cup {p})
    BY <1>6, <2>5, <2>6, <2>7 DEF Shaped
  <2>9. /\ new.nodes[p] = node /\ new.nodes[x] = parent
        /\ \A q \in D : q # x => new.nodes[q] = tree.nodes[q]
    BY <1>5, <2>1, <2>6
  <2>10. ASSUME NEW q \in D
         PROVE  /\ new.nodes[q].count = tree.nodes[q].count
                /\ new.nodes[q].first = tree.nodes[q].first
                /\ new.nodes[q].last = tree.nodes[q].last
                /\ new.nodes[q].children =
                     IF q = x THEN Append(tree.nodes[q].children, p)
                     ELSE tree.nodes[q].children
    <3>1. CASE q = x
      BY <2>4, <2>9, <3>1
    <3>2. CASE q # x
      BY <2>9, <3>2
    <3> QED
      BY <3>1, <3>2
  <2> QED
    BY <1>2, <1>8, <2>6, <2>8, <2>9, <2>10 DEF Adds, x
<1> QED
  BY <1>7, <1>8

\* The tree of i - 1 rows and n messages of the i-th, and one message of it more.
LEMMA MessageInserted ==
    ASSUME NEW S, NEW W \in Seq(Seq(S)), NEW i \in 1 .. Len(W), NEW n \in Nat,
           n < Len(W[i]), NEW p, p = SubSeq(W[i], 1, n + 1),
           NEW group, group[i].id \in Nat, NEW tree, Grown(S, group, W, i, n, tree)
    PROVE  Grown(S, group, W, i, n + 1, Insert(tree, group[i], p))
<1> DEFINE D == Met(S, W, i, n)
           E == Met(S, W, i, n + 1)
           Old(q) == Through(W, i, n, q)
           New(q) == Through(W, i, n + 1, q)
           r == group[i]
           new == Insert(tree, r, p)
<1>1. /\ p \in Seq(S) /\ p # <<>> /\ Len(p) = n + 1
      /\ \A q \in Seq(S) : q # p => New(q) = Old(q)
      /\ New(p) = Old(p) \cup {i}
      /\ \A q \in Seq(S) : Len(q) = n + 1 => i \notin Old(q)
      /\ \A q : Old(q) \in SUBSET (1 .. i)
      /\ Front(p) # <<>> => Front(p) \in D
      /\ E = D \cup {p}
  <2>1. MessageMore(S, W, i, n, p)
    BY OneMessageMore
  <2> QED
    BY <2>1 DEF MessageMore
<1>2. /\ IsFiniteSet(D) /\ tree \in Shaped(S, D)
      /\ \A q \in D : Tells(group, tree.nodes[q], Old(q))
      /\ InOrder(W, i, n, tree.roots, Below(D, <<>>))
      /\ \A q \in D : InOrder(W, i, n, tree.nodes[q].children, Below(D, q))
  BY DEF Grown, Shaped
<1>3. /\ D \in SUBSET Seq(S) /\ <<>> \notin D
      /\ \A q \in D : Old(q) # {}
      /\ \A q \in Seq(S) : q # <<>> /\ Old(q) # {} => q \in D
  BY DEF Met
<1>4. i \in Nat /\ i \in 1 .. i /\ r.id \in Nat /\ new = Insert(tree, r, p)
  OBVIOUS
<1> HIDE DEF D, E, Old, New, r, new
<1>5. ASSUME NEW q \in D PROVE Min(New(q)) = Min(Old(q))
  <2>1. CASE q = p
    <3>1. Old(q) \in SUBSET Nat /\ Old(q) # {} /\ \A j \in Old(q) : j <= i
      BY <1>1, <1>3
    <3>2. Min(Old(q)) \in Old(q) /\ \A j \in Old(q) : Min(Old(q)) <= j
      BY <3>1, Least
    <3> DEFINE m == Min(Old(q))
    <3> HIDE DEF m
    <3>3. New(q) \in SUBSET Nat /\ m \in New(q) /\ \A j \in New(q) : m <= j
      BY <1>1, <1>4, <2>1, <3>1, <3>2 DEF m
    <3>4. Min(New(q)) = m
      BY <3>3, LeastIs
    <3> QED
      BY <3>4 DEF m
  <2>2. CASE q # p
    BY <1>1, <1>3, <2>2
  <2> QED
    BY <2>1, <2>2
<1>6. Tells(group, new.nodes[p], New(p)) /\ (p \in D => new \in Shaped(S, D))
  <2>1. CASE p \in D
    <3>1. /\ new \in Shaped(S, D)
          /\ new.nodes[p].count = tree.nodes[p].count + 1
          /\ new.nodes[p].first = tree.nodes[p].first /\ new.nodes[p].last = r.id
      <4>1. CountsAgain(S, D, tree, r, p, new)
        BY <1>2, <1>4, <2>1, CountedAgain
      <4> QED
        BY <4>1 DEF CountsAgain
    <3>2. Old(p) \in SUBSET (1 .. i) /\ i \notin Old(p)
      BY <1>1
    <3>3. IsFiniteSet(Old(p))
      <4>1. IsFiniteSet(1 .. i)
        BY <1>4, FS_Interval
      <4> QED
        BY <3>2, <4>1, FS_Subset
    <3>4. Cardinality(New(p)) = Cardinality(Old(p)) + 1
      BY <1>1, <3>2, <3>3, FS_AddElement
    <3>5. Max(New(p)) = i
      <4> DEFINE T == New(p)
      <4>1. T \in SUBSET (1 .. i) /\ i \in T
        BY <1>1, <1>4, <3>2
      <4> HIDE DEF T
      <4>2. T \in SUBSET (0 .. i) /\ \A j \in T : i >= j
        BY <1>4, <4>1
      <4>3. Max(T) = i
        BY <1>4, <4>1, <4>2, GreatestIs
      <4> QED
        BY <4>3 DEF T
    <3>6. Min(New(p)) = Min(Old(p))
      BY <1>5, <2>1
    <3>7. /\ tree.nodes[p].count = Cardinality(Old(p))
          /\ tree.nodes[p].first = group[Min(Old(p))].id
      BY <1>2, <2>1 DEF Tells
    <3> QED
      BY <3>1, <3>4, <3>5, <3>6, <3>7 DEF Tells, r
  <2>2. CASE p \notin D
    <3>1. /\ new.nodes[p].count = 1
          /\ new.nodes[p].first = r.id /\ new.nodes[p].last = r.id
      <4>1. Adds(S, D, tree, r, p, new)
        BY <1>1, <1>2, <1>3, <1>4, <2>2, AddedMessage
      <4> QED
        BY <4>1 DEF Adds
    <3>2. New(p) = {i}
      BY <1>1, <1>3, <2>2
    <3>3. Cardinality({i}) = 1
      BY FS_Singleton
    <3>4. Min({i}) = i /\ Max({i}) = i
      <4> DEFINE T == {i}
      <4>1. T \in SUBSET (0 .. i) /\ T \in SUBSET Nat /\ i \in T
            /\ \A j \in T : i >= j /\ i <= j
        BY <1>4
      <4> HIDE DEF T
      <4>2. Max(T) = i
        BY <1>4, <4>1, GreatestIs
      <4>3. Min(T) = i
        BY <1>4, <4>1, LeastIs
      <4> QED
        BY <4>2, <4>3 DEF T
    <3> QED
      BY <2>2, <3>1, <3>2, <3>3, <3>4 DEF Tells, r
  <2> QED
    BY <2>1, <2>2
<1>7. IsFiniteSet(E)
  BY <1>1, <1>2, FS_AddElement
<1>8. CASE p \in D
  <2>1. E = D
    BY <1>1, <1>8
  <2>2. /\ new \in Shaped(S, D) /\ new.roots = tree.roots
        /\ \A q \in D : q # p => new.nodes[q] = tree.nodes[q]
        /\ \A q \in D : new.nodes[q].children = tree.nodes[q].children
    <3>1. CountsAgain(S, D, tree, r, p, new)
      BY <1>2, <1>4, <1>8, CountedAgain
    <3> QED
      BY <3>1 DEF CountsAgain
  <2>3. ASSUME NEW q \in D PROVE Tells(group, new.nodes[q], New(q))
    <3>1. CASE q = p
      BY <1>6, <3>1
    <3>2. CASE q # p
      BY <1>1, <1>2, <1>3, <2>2, <3>2
    <3> QED
      BY <3>1, <3>2
  <2>4. ASSUME NEW x, NEW K, InOrder(W, i, n, K, Below(D, x))
        PROVE  InOrder(W, i, n + 1, K, Below(D, x))
    <3> DEFINE C == Below(D, x)
               m == n + 1
    <3>1. \A c \in C : Min(Through(W, i, m, c)) = Min(Through(W, i, n, c))
      BY <1>5 DEF Below, New, Old
    <3>2. InOrder(W, i, n, K, C)
      BY <2>4
    <3> HIDE DEF C, m
    <3>3. InOrder(W, i, m, K, C)
      BY <3>1, <3>2, OrderKept
    <3> QED
      BY <3>3 DEF C, m
  <2>5. InOrder(W, i, n + 1, new.roots, Below(D, <<>>))
    BY <1>2, <2>2, <2>4
  <2>6. \A q \in D : InOrder(W, i, n + 1, new.nodes[q].children, Below(D, q))
    BY <1>2, <2>2, <2>4
  <2>7. Grown(S, group, W, i, n + 1, new)
    BY <1>7, <2>1, <2>2, <2>3, <2>5, <2>6 DEF Grown, Shaped, E, New
  <2> QED
    BY <2>7 DEF new, r
<1>9. CASE p \notin D
  <2>1. /\ new \in Shaped(S, D \cup {p})
        /\ new.nodes[p].children = <<>>
        /\ \A q \in D : /\ new.nodes[q].count = tree.nodes[q].count
                        /\ new.nodes[q].first = tree.nodes[q].first
                        /\ new.nodes[q].last = tree.nodes[q].last
                        /\ new.nodes[q].children =
                             IF q = Front(p) THEN Append(tree.nodes[q].children, p)
                             ELSE tree.nodes[q].children
        /\ new.roots = IF Front(p) = <<>> THEN Append(tree.roots, p) ELSE tree.roots
    <3>1. Adds(S, D, tree, r, p, new)
      BY <1>1, <1>2, <1>3, <1>4, <1>9, AddedMessage
    <3> QED
      BY <3>1 DEF Adds
  <2>2. ASSUME NEW q \in E PROVE Tells(group, new.nodes[q], New(q))
    <3>1. CASE q = p
      BY <1>6, <3>1
    <3>2. CASE q # p
      <4>1. q \in D
        BY <1>1, <3>2
      <4>2. Tells(group, tree.nodes[q], Old(q)) /\ New(q) = Old(q)
        BY <1>1, <1>2, <1>3, <3>2, <4>1
      <4> QED
        BY <2>1, <4>1, <4>2 DEF Tells
    <3> QED
      BY <3>1, <3>2
  <2>3. New(p) = {i} /\ Min(New(p)) = i
    <3>1. New(p) = {i}
      BY <1>1, <1>3, <1>9
    <3> DEFINE T == {i}
    <3>2. T \in SUBSET Nat /\ i \in T /\ \A j \in T : i <= j
      BY <1>4
    <3> HIDE DEF T
    <3>3. Min(T) = i
      BY <1>4, <3>2, LeastIs
    <3> QED
      BY <3>1, <3>3 DEF T
  <2>4. ASSUME NEW q \in D, Front(q) = Front(p) PROVE Min(Old(q)) < i
    <3>1. q \in Seq(S) /\ q # <<>> /\ Old(q) # {}
      BY <1>3
    <3>2. Len(q) - 1 = Len(Front(q)) /\ Len(p) - 1 = Len(Front(p))
      BY <1>1, <3>1, FrontIs
    <3>3. Len(q) \in Nat /\ Len(q) = n + 1
      BY <1>1, <2>4, <3>1, <3>2
    <3>4. i \notin Old(q) /\ Old(q) \in SUBSET (1 .. i)
      BY <1>1, <3>1, <3>3
    <3>5. Min(Old(q)) \in Old(q)
      <4>1. Old(q) \in SUBSET Nat
        BY <3>4
      <4> QED
        BY <3>1, <4>1, Least
    <3> QED
      BY <1>4, <3>4, <3>5
  <2>5. ASSUME NEW x, NEW K, InOrder(W, i, n, K, Below(D, x)), x # Front(p)
        PROVE  InOrder(W, i, n + 1, K, Below(E, x))
    <3> DEFINE C == Below(D, x)
               F == Below(E, x)
               m == n + 1
    <3>1. \A c \in C : Min(Through(W, i, m, c)) = Min(Through(W, i, n, c))
      BY <1>5 DEF Below, New, Old
    <3>2. InOrder(W, i, n, K, C)
      BY <2>5
    <3>3. F = C
      BY <1>1, <2>5 DEF Below
    <3> HIDE DEF C, F, m
    <3>4. InOrder(W, i, m, K, F)
      BY <3>1, <3>2, <3>3, OrderKept
    <3> QED
      BY <3>4 DEF F, m
  <2>6. ASSUME NEW K, InOrder(W, i, n, K, Below(D, Front(p)))
        PROVE  InOrder(W, i, n + 1, Append(K, p), Below(E, Front(p)))
    <3> DEFINE C == Below(D, Front(p))
               F == Below(E, Front(p))
               m == n + 1
    <3>1. \A c \in C : /\ Min(Through(W, i, m, c)) = Min(Through(W, i, n, c))
                       /\ Min(Through(W, i, m, c)) < Min(Through(W, i, m, p))
      BY <1>5, <2>3, <2>4 DEF Below, New, Old
    <3>2. InOrder(W, i, n, K, C)
      BY <2>6
    <3>3. F = C \cup {p} /\ p \notin C
      BY <1>1, <1>9 DEF Below
    <3> HIDE DEF C, F, m
    <3>4. InOrder(W, i, m, Append(K, p), F)
      BY <3>1, <3>2, <3>3, OrderGrows
    <3> QED
      BY <3>4 DEF F, m
  <2>7. InOrder(W, i, n + 1, new.roots, Below(E, <<>>))
    <3>1. CASE Front(p) = <<>>
      BY <1>2, <2>1, <2>6, <3>1
    <3>2. CASE Front(p) # <<>>
      BY <1>2, <2>1, <2>5, <3>2
    <3> QED
      BY <3>1, <3>2
  <2>8. ASSUME NEW q \in E PROVE InOrder(W, i, n + 1, new.nodes[q].children, Below(E, q))
    <3>1. CASE q \in D /\ q = Front(p)
      BY <1>2, <2>1, <2>6, <3>1
    <3>2. CASE q \in D /\ q # Front(p)
      BY <1>2, <2>1, <2>5, <3>2
    <3>3. CASE q = p
      <4>1. Below(E, p) = {}
        <5> SUFFICES ASSUME NEW c \in E, Front(c) = p PROVE FALSE
          BY DEF Below
        <5>1. c \in Seq(S) /\ c # <<>>
          BY <1>1, <1>3
        <5>2. Len(p) = Len(c) - 1 /\ IsPrefix(p, c) /\ Len(c) \in Nat
          BY <5>1, FrontIs
        <5>3. CASE c = p
          BY <5>2, <5>3
        <5>4. CASE c # p
          <6>1. c \in D
            BY <1>1, <5>4
          <6>2. PICK j \in Old(c) : TRUE
            BY <1>3, <6>1
          <6>3. /\ j \in 1 .. i /\ IsPrefix(c, W[j]) /\ W[j] \in Seq(S)
                /\ (j = i => Len(c) <= n)
            <7>1. j \in 1 .. i /\ IsPrefix(c, W[j]) /\ (j = i => Len(c) <= n)
              BY <6>2 DEF Old, Through
            <7>2. j \in 1 .. Len(W)
              BY <1>4, <7>1
            <7> QED
              BY <7>1, <7>2
          <6>4. IsPrefix(p, W[j])
            BY <1>1, <5>1, <5>2, <6>3, PrefixOfLonger
          <6>5. j = i => Len(p) <= n
            BY <1>1, <5>2, <6>3
          <6>6. j \in Old(p)
            BY <6>3, <6>4, <6>5 DEF Old, Through
          <6> QED
            BY <1>1, <1>3, <1>9, <6>6
        <5> QED
          BY <5>3, <5>4
      <4> DEFINE K == <<>>
      <4>2. K \in Seq({}) /\ Len(K) = 0
        OBVIOUS
      <4> HIDE DEF K
      <4>3. InOrder(W, i, n + 1, K, {})
        BY <4>2 DEF InOrder
      <4> QED
        BY <2>1, <3>3, <4>1, <4>3 DEF K
    <3> QED
      BY <1>1, <3>1, <3>2, <3>3
  <2>9. new \in Shaped(S, E)
    BY <1>1, <2>1
  <2>10. Grown(S, group, W, i, n + 1, new)
    BY <1>7, <2>2, <2>7, <2>8, <2>9 DEF Grown, Shaped, E, New
  <2> QED
    BY <2>10 DEF new, r
<1> QED
  BY <1>8, <1>9

----------------------------------------------------------------------------
(* InsertRow and Tree *)

\* Inserting a row inserts its messages one by one.
LEMMA RowInserted ==
    ASSUME NEW S, NEW W \in Seq(Seq(S)), NEW i \in 1 .. Len(W), NEW group,
           W[i] = Path(group[i]), group[i].id \in Nat,
           NEW tree, Grown(S, group, W, i, 0, tree)
    PROVE  Grown(S, group, W, i, Len(W[i]), InsertRow(tree, group[i]))
<1> DEFINE r == group[i]
           w == Path(r)
           n == Len(w)
           op(k, t) == Insert(t, r, SubSeq(w, 1, k))
           IsAfter(f) == f = [k \in 0 .. n |-> IF k = 0 THEN tree
                                               ELSE Insert(f[k - 1], r, SubSeq(w, 1, k))]
           after == CHOOSE f : IsAfter(f)
           All(k) == Shaped(S, Met(S, W, i, k))
           Good == [k \in 0 .. n |-> {t \in All(k) : Grown(S, group, W, i, k, t)}]
           step == [k \in 1 .. n |-> [t \in All(k - 1) |-> op(k, t)]]
<1>1. InsertRow(tree, r) = after[n]
  BY DEF InsertRow
<1>2. n \in Nat /\ 0 \in 0 .. n /\ n \in 0 .. n /\ w = W[i] /\ n = Len(W[i]) /\ r.id \in Nat
  <2>1. W[i] \in Seq(S)
    OBVIOUS
  <2>2. Len(W[i]) \in Nat
    BY <2>1
  <2> QED
    BY <2>2
<1>3. ASSUME NEW k \in 0 .. n, NEW t PROVE t \in Good[k] <=> Grown(S, group, W, i, k, t)
  BY DEF Grown, Shaped
<1> HIDE DEF Good, w, n
<1>4. tree \in Good[0]
  BY <1>2, <1>3
<1>5. ASSUME NEW k \in 1 .. n, NEW t \in Good[k - 1]
      PROVE  op(k, t) \in Good[k] /\ t \in All(k - 1)
  <2>1. k - 1 \in 0 .. n /\ k \in 0 .. n /\ k - 1 \in Nat /\ k - 1 < n /\ k = (k - 1) + 1
    BY <1>2
  <2>2. Grown(S, group, W, i, k - 1, t)
    BY <1>3, <2>1
  <2> DEFINE p == SubSeq(w, 1, k)
             m == k - 1
  <2>3. m \in Nat /\ m < Len(W[i]) /\ p = SubSeq(W[i], 1, m + 1) /\ Grown(S, group, W, i, m, t)
    BY <1>2, <2>1, <2>2
  <2> HIDE DEF p, m
  <2>4. Grown(S, group, W, i, m + 1, Insert(t, group[i], p))
    BY <2>3, MessageInserted
  <2>5. Grown(S, group, W, i, k, op(k, t))
    BY <2>1, <2>4 DEF p, m
  <2>6. t \in All(k - 1)
    BY <2>2 DEF Grown, Shaped
  <2> QED
    BY <1>3, <2>1, <2>5, <2>6
<1> HIDE DEF All
<1>6. \A k \in 1 .. n : \A t \in Good[k - 1] : step[k][t] \in Good[k] /\ step[k][t] = op(k, t)
  BY <1>5
<1> HIDE DEF step
<1>7. PICK f : Steps(f, n, tree, step, Good)
  <2> HIDE DEF op
  <2> QED
    BY <1>2, <1>4, <1>6, Recursion
<1>8. IsAfter(f)
  <2>1. f = [k \in 0 .. n |-> f[k]] /\ f[0] = tree /\ \A k \in 1 .. n : f[k] = step[k][f[k - 1]]
    BY <1>7 DEF Steps
  <2>2. \A k \in 0 .. n : f[k] \in Good[k]
    BY <1>7 DEF Steps
  <2>3. ASSUME NEW k \in 0 .. n
        PROVE  f[k] = IF k = 0 THEN tree ELSE Insert(f[k - 1], r, SubSeq(w, 1, k))
    <3>1. CASE k = 0
      BY <2>1, <3>1
    <3>2. CASE k # 0
      <4>1. k \in 1 .. n /\ k - 1 \in 0 .. n
        BY <1>2, <3>2
      <4>2. f[k] = op(k, f[k - 1])
        BY <1>6, <2>1, <2>2, <4>1
      <4> QED
        BY <3>2, <4>2
    <3> QED
      BY <3>1, <3>2
  <2> QED
    BY <2>1, <2>3
<1>9. IsAfter(after)
  BY <1>8
<1> HIDE DEF after
<1>10. after[0] = tree /\ \A k \in 1 .. n : after[k] = op(k, after[k - 1])
  <2>1. ASSUME NEW k \in 1 .. n PROVE after[k] = op(k, after[k - 1])
    <3>1. k \in 0 .. n /\ k # 0
      BY <1>2
    <3> QED
      BY <1>9, <3>1
  <2> QED
    BY <1>2, <1>9, <2>1
<1> HIDE DEF op
<1>11. /\ after[0] \in Good[0]
       /\ \A k \in 1 .. n : after[k - 1] \in Good[k - 1] => after[k] \in Good[k]
  BY <1>4, <1>6, <1>10
<1>12. after[n] \in Good[n]
  BY <1>2, <1>11, RecursionKeeps
<1>13. Grown(S, group, W, i, n, after[n])
  BY <1>2, <1>3, <1>12
<1> QED
  BY <1>1, <1>2, <1>13 DEF r

\* All of a row is none of the next.
LEMMA RowEnds ==
    ASSUME NEW S, NEW W \in Seq(Seq(S)), NEW i \in 1 .. Len(W), NEW group, NEW tree,
           Grown(S, group, W, i, Len(W[i]), tree)
    PROVE  Grown(S, group, W, i + 1, 0, tree)
<1> DEFINE n == Len(W[i])
           j == i + 1
           D == Met(S, W, i, n)
           E == Met(S, W, j, 0)
<1>1. i \in Nat /\ j = i + 1 /\ W[i] \in Seq(S) /\ n \in Nat
  OBVIOUS
<1>2. ASSUME NEW q \in Seq(S), q # <<>> PROVE Through(W, j, 0, q) = Through(W, i, n, q)
  <2>1. Len(q) \in Nat /\ Len(q) # 0
    BY <1>2
  <2>2. IsPrefix(q, W[i]) => Len(q) <= n
    BY DEF IsPrefix
  <2>3. ASSUME NEW k, k \in 1 .. j, IsPrefix(q, W[k]), k = j => Len(q) <= 0
        PROVE  k \in 1 .. i /\ (k = i => Len(q) <= n)
    BY <1>1, <2>1, <2>2, <2>3
  <2>4. ASSUME NEW k, k \in 1 .. i PROVE k \in 1 .. j /\ k # j
    BY <1>1, <2>4
  <2> HIDE DEF n, j
  <2> QED
    BY <2>3, <2>4 DEF Through
<1>3. E = D
  BY <1>2 DEF Met
<1>4. \A q \in D : q \in Seq(S) /\ q # <<>> /\ Through(W, j, 0, q) = Through(W, i, n, q)
  BY <1>2 DEF Met
<1>5. /\ IsFiniteSet(D) /\ tree \in Shaped(S, D)
      /\ \A q \in D : Tells(group, tree.nodes[q], Through(W, i, n, q))
      /\ InOrder(W, i, n, tree.roots, Below(D, <<>>))
      /\ \A q \in D : InOrder(W, i, n, tree.nodes[q].children, Below(D, q))
  BY DEF Grown, Shaped
<1> HIDE DEF n, j, D, E
<1>6. ASSUME NEW x, NEW K, InOrder(W, i, n, K, Below(D, x))
      PROVE  InOrder(W, j, 0, K, Below(D, x))
  <2> DEFINE C == Below(D, x)
             m == 0
  <2>1. \A c \in C : Min(Through(W, j, m, c)) = Min(Through(W, i, n, c))
    BY <1>4 DEF Below
  <2>2. InOrder(W, i, n, K, C)
    BY <1>6
  <2> HIDE DEF C, m
  <2>3. InOrder(W, j, m, K, C)
    BY <2>1, <2>2, OrderKept
  <2> QED
    BY <2>3 DEF C, m
<1>7. InOrder(W, j, 0, tree.roots, Below(D, <<>>))
  BY <1>5, <1>6
<1>8. \A q \in D : InOrder(W, j, 0, tree.nodes[q].children, Below(D, q))
  BY <1>5, <1>6
<1>9. \A q \in D : Tells(group, tree.nodes[q], Through(W, j, 0, q))
  BY <1>4, <1>5
<1>10. Grown(S, group, W, j, 0, tree)
  BY <1>3, <1>5, <1>7, <1>8, <1>9 DEF Grown, Shaped, E
<1> QED
  BY <1>10 DEF j

\* Before the first row nothing is in the tree.
LEMMA NothingMet ==
    ASSUME NEW S, NEW W \in Seq(Seq(S)), NEW group
    PROVE  Grown(S, group, W, 1, 0, EmptyTree)
<1>1. Met(S, W, 1, 0) = {}
  <2> SUFFICES ASSUME NEW p \in Seq(S), p # <<>>, NEW j \in 1 .. 1, j = 1 => Len(p) <= 0
               PROVE  FALSE
    BY DEF Met, Through
  <2> QED
    OBVIOUS
<1> DEFINE e == <<>>
           none == {}
<1>2. e \in Seq(Seq(S)) /\ e \in Seq(none) /\ Len(e) = 0 /\ IsFiniteSet(none)
  BY FS_EmptySet
<1>3. EmptyTree.nodes \in [none -> Nodes(S)] /\ EmptyTree.roots = e
  BY DEF EmptyTree
<1>4. EmptyTree = [nodes |-> EmptyTree.nodes, roots |-> EmptyTree.roots]
  BY DEF EmptyTree
<1>5. Below(none, <<>>) = none
  BY DEF Below
<1> HIDE DEF e, none
<1>6. EmptyTree \in [nodes : [none -> Nodes(S)], roots : Seq(Seq(S))]
  BY <1>2, <1>3, <1>4
<1>7. InOrder(W, 1, 0, e, none)
  BY <1>2 DEF InOrder, none
<1> QED
  BY <1>1, <1>2, <1>3, <1>5, <1>6, <1>7 DEF Grown, none

\* The tree of a group holds every path of its rows, and says of each which rows go
\* through it.
LEMMA TreeGrown ==
    ASSUME NEW S, NEW group, NEW W \in Seq(Seq(S)), Len(group) = Len(W),
           \A i \in 1 .. Len(W) : W[i] = Path(group[i]) /\ group[i].id \in Nat
    PROVE  Grown(S, group, W, Len(W) + 1, 0, Tree(group))
<1> DEFINE n == Len(group)
           op(k, t) == InsertRow(t, group[k])
           IsAfter(f) == f = [i \in 0 .. n |-> IF i = 0 THEN EmptyTree
                                               ELSE InsertRow(f[i - 1], group[i])]
           after == CHOOSE f : IsAfter(f)
           All(k) == Shaped(S, Met(S, W, k + 1, 0))
           Good == [k \in 0 .. n |-> {t \in All(k) : Grown(S, group, W, k + 1, 0, t)}]
           step == [k \in 1 .. n |-> [t \in All(k - 1) |-> op(k, t)]]
<1>1. Tree(group) = after[n]
  BY DEF Tree
<1>2. n \in Nat /\ 0 \in 0 .. n /\ n \in 0 .. n /\ n = Len(W)
  OBVIOUS
<1>3. ASSUME NEW k \in 0 .. n, NEW t PROVE t \in Good[k] <=> Grown(S, group, W, k + 1, 0, t)
  BY DEF Grown, Shaped
<1> HIDE DEF Good, n
<1>4. EmptyTree \in Good[0]
  <2>1. Grown(S, group, W, 0 + 1, 0, EmptyTree)
    BY NothingMet
  <2> QED
    BY <1>2, <1>3, <2>1
<1>5. ASSUME NEW k \in 1 .. n, NEW t \in Good[k - 1]
      PROVE  op(k, t) \in Good[k] /\ t \in All(k - 1)
  <2>1. k - 1 \in 0 .. n /\ k \in 0 .. n /\ k \in 1 .. Len(W) /\ k = (k - 1) + 1
    BY <1>2
  <2>2. Grown(S, group, W, (k - 1) + 1, 0, t)
    BY <1>3, <2>1
  <2>3. Grown(S, group, W, k, 0, t)
    BY <2>1, <2>2
  <2>4. W[k] = Path(group[k]) /\ group[k].id \in Nat
    BY <2>1
  <2>5. Grown(S, group, W, k, Len(W[k]), InsertRow(t, group[k]))
    BY <2>1, <2>3, <2>4, RowInserted
  <2>6. Grown(S, group, W, k + 1, 0, InsertRow(t, group[k]))
    BY <2>1, <2>5, RowEnds
  <2>7. t \in All(k - 1)
    BY <2>2 DEF Grown, Shaped
  <2> QED
    BY <1>3, <2>1, <2>6, <2>7
<1> HIDE DEF All
<1>6. \A k \in 1 .. n : \A t \in Good[k - 1] : step[k][t] \in Good[k] /\ step[k][t] = op(k, t)
  BY <1>5
<1> HIDE DEF step
<1>7. PICK f : Steps(f, n, EmptyTree, step, Good)
  <2> HIDE DEF op
  <2> QED
    BY <1>2, <1>4, <1>6, Recursion
<1>8. IsAfter(f)
  <2>1. /\ f = [k \in 0 .. n |-> f[k]] /\ f[0] = EmptyTree
        /\ \A k \in 1 .. n : f[k] = step[k][f[k - 1]]
    BY <1>7 DEF Steps
  <2>2. \A k \in 0 .. n : f[k] \in Good[k]
    BY <1>7 DEF Steps
  <2>3. ASSUME NEW k \in 0 .. n
        PROVE  f[k] = IF k = 0 THEN EmptyTree ELSE InsertRow(f[k - 1], group[k])
    <3>1. CASE k = 0
      BY <2>1, <3>1
    <3>2. CASE k # 0
      <4>1. k \in 1 .. n /\ k - 1 \in 0 .. n
        BY <1>2, <3>2
      <4>2. f[k] = op(k, f[k - 1])
        BY <1>6, <2>1, <2>2, <4>1
      <4> QED
        BY <3>2, <4>2
    <3> QED
      BY <3>1, <3>2
  <2> QED
    BY <2>1, <2>3
<1>9. IsAfter(after)
  BY <1>8
<1> HIDE DEF after
<1>10. after[0] = EmptyTree /\ \A k \in 1 .. n : after[k] = op(k, after[k - 1])
  <2>1. ASSUME NEW k \in 1 .. n PROVE after[k] = op(k, after[k - 1])
    <3>1. k \in 0 .. n /\ k # 0
      BY <1>2
    <3> QED
      BY <1>9, <3>1
  <2> QED
    BY <1>2, <1>9, <2>1
<1> HIDE DEF op
<1>11. /\ after[0] \in Good[0]
       /\ \A k \in 1 .. n : after[k - 1] \in Good[k - 1] => after[k] \in Good[k]
  BY <1>4, <1>6, <1>10
<1>12. after[n] \in Good[n]
  BY <1>2, <1>11, RecursionKeeps
<1>13. Grown(S, group, W, n + 1, 0, after[n])
  BY <1>2, <1>3, <1>12
<1> QED
  BY <1>1, <1>2, <1>13

----------------------------------------------------------------------------
(* The finished tree *)

\* The rows that go through p, and the paths some row goes through.
Passing(W, p) == {j \in 1 .. Len(W) : IsPrefix(p, W[j])}
Paths(S, W) == {p \in Seq(S) : p # <<>> /\ Passing(W, p) # {}}

\* K holds the paths of C, in the order in which they were first taken.
Ordered(W, K, C) ==
    /\ K \in Seq(C)
    /\ \A c \in C : \E a \in 1 .. Len(K) : K[a] = c
    /\ \A a, b \in 1 .. Len(K) : a < b => Min(Passing(W, K[a])) < Min(Passing(W, K[b]))

\* tree is the tree of the group whose rows have the paths W.
IsTree(S, group, W, tree) ==
    /\ IsFiniteSet(Paths(S, W))
    /\ tree \in Shaped(S, Paths(S, W))
    /\ \A p \in Paths(S, W) : Tells(group, tree.nodes[p], Passing(W, p))
    /\ Ordered(W, tree.roots, Below(Paths(S, W), <<>>))
    /\ \A p \in Paths(S, W) : Ordered(W, tree.nodes[p].children, Below(Paths(S, W), p))

\* Tree makes the tree of the group.
LEMMA TreeIs ==
    ASSUME NEW S, NEW group, NEW W \in Seq(Seq(S)), Len(group) = Len(W),
           \A i \in 1 .. Len(W) : W[i] = Path(group[i]) /\ group[i].id \in Nat
    PROVE  IsTree(S, group, W, Tree(group))
<1> DEFINE i == Len(W) + 1
           tree == Tree(group)
           D == Met(S, W, i, 0)
           E == Paths(S, W)
<1>1. Grown(S, group, W, i, 0, tree)
  BY TreeGrown
<1>2. ASSUME NEW q \in Seq(S), q # <<>> PROVE Through(W, i, 0, q) = Passing(W, q)
  <2>1. Len(q) \in Nat /\ Len(q) # 0 /\ Len(W) \in Nat
    BY <1>2
  <2>2. ASSUME NEW j PROVE j \in 1 .. i /\ (j = i => Len(q) <= 0) <=> j \in 1 .. Len(W)
    BY <2>1
  <2> HIDE DEF i
  <2> QED
    BY <2>2 DEF Through, Passing
<1>3. E = D
  BY <1>2 DEF Met, Paths
<1>4. \A q \in D : q \in Seq(S) /\ q # <<>> /\ Through(W, i, 0, q) = Passing(W, q)
  BY <1>2 DEF Met
<1>5. /\ IsFiniteSet(D) /\ tree \in Shaped(S, D)
      /\ \A q \in D : Tells(group, tree.nodes[q], Through(W, i, 0, q))
      /\ InOrder(W, i, 0, tree.roots, Below(D, <<>>))
      /\ \A q \in D : InOrder(W, i, 0, tree.nodes[q].children, Below(D, q))
  BY <1>1 DEF Grown, Shaped
<1> HIDE DEF i, D, E, tree
<1>6. ASSUME NEW x, NEW K, InOrder(W, i, 0, K, Below(D, x)) PROVE Ordered(W, K, Below(D, x))
  <2> DEFINE C == Below(D, x)
             First(c) == Min(Passing(W, c))
  <2>1. /\ K \in Seq(C) /\ \A c \in C : \E a \in 1 .. Len(K) : K[a] = c
        /\ \A a, b \in 1 .. Len(K) :
              a < b => Min(Through(W, i, 0, K[a])) < Min(Through(W, i, 0, K[b]))
    BY <1>6 DEF InOrder
  <2>2. \A c \in C : Min(Through(W, i, 0, c)) = First(c)
    BY <1>4 DEF Below
  <2> HIDE DEF C, First
  <2>3. \A a \in 1 .. Len(K) : K[a] \in C
    BY <2>1
  <2>4. \A a, b \in 1 .. Len(K) : a < b => First(K[a]) < First(K[b])
    BY <2>1, <2>2, <2>3
  <2> QED
    BY <2>1, <2>4 DEF Ordered, C, First
<1>7. Ordered(W, tree.roots, Below(D, <<>>))
  BY <1>5, <1>6
<1>8. \A q \in D : Ordered(W, tree.nodes[q].children, Below(D, q))
  BY <1>5, <1>6
<1>9. \A q \in D : Tells(group, tree.nodes[q], Passing(W, q))
  BY <1>4, <1>5
<1> QED
  BY <1>3, <1>5, <1>7, <1>8, <1>9 DEF IsTree, E, tree

----------------------------------------------------------------------------
(* Before *)

\* Where what goes on from two messages after the same one parts.
Parts(p, q, p1, q1) ==
    /\ Min({i \in DOMAIN p1 : i > Len(q1) \/ p1[i] # q1[i]}) = Len(p)
    /\ SubSeq(p1, 1, Len(p)) = p /\ SubSeq(q1, 1, Len(p)) = q
    /\ ~ IsPrefix(q1, p1)

\* Where paths through two branches part.
LEMMA Fork ==
    ASSUME NEW S, NEW p \in Seq(S), NEW q \in Seq(S), NEW p1 \in Seq(S), NEW q1 \in Seq(S),
           p # <<>>, q # <<>>, p # q, Front(p) = Front(q), IsPrefix(p, p1), IsPrefix(q, q1)
    PROVE  Parts(p, q, p1, q1)
<1> DEFINE n == Len(p)
           x == Front(p)
<1>1. /\ n \in Nat \ {0} /\ x \in Seq(S) /\ Len(x) = n - 1 /\ IsPrefix(x, p)
      /\ Len(q) \in Nat \ {0} /\ Len(x) = Len(q) - 1 /\ IsPrefix(x, q)
  <2>1. n \in Nat \ {0} /\ x \in Seq(S) /\ Len(x) = n - 1 /\ IsPrefix(x, p)
    BY FrontIs
  <2>2. /\ Front(q) \in Seq(S) /\ Len(q) \in Nat \ {0} /\ Len(Front(q)) = Len(q) - 1
        /\ IsPrefix(Front(q), q)
    BY FrontIs
  <2> QED
    BY <2>1, <2>2
<1>2. Len(q) = n /\ n \in 1 .. n
  BY <1>1
<1>3. SubSeq(p1, 1, n) = p /\ n \in 0 .. Len(p1)
  BY PrefixIsBeginning
<1>4. SubSeq(q1, 1, n) = q /\ n \in 0 .. Len(q1)
  BY <1>2, PrefixIsBeginning
<1> HIDE DEF n, x
<1>5. \A i \in 1 .. n : p1[i] = p[i] /\ q1[i] = q[i]
  BY <1>2, PrefixIs DEF n
<1>6. \A i \in 1 .. n - 1 : p[i] = q[i]
  <2>1. \A i \in 1 .. n - 1 : x[i] = p[i]
    BY <1>1, PrefixIs
  <2>2. \A i \in 1 .. n - 1 : x[i] = q[i]
    BY <1>1, PrefixIs
  <2> QED
    BY <2>1, <2>2
<1>7. p[n] # q[n]
  <2> SUFFICES ASSUME p[n] = q[n] PROVE FALSE
    OBVIOUS
  <2>1. ASSUME NEW i \in 1 .. n PROVE p[i] = q[i]
    <3>1. CASE i = n
      BY <3>1
    <3>2. CASE i # n
      <4>1. i \in 1 .. n - 1
        BY <1>1, <3>2
      <4> QED
        BY <1>6, <4>1
    <3> QED
      BY <3>1, <3>2
  <2>2. p = q
    BY <1>2, <2>1, SameSequence DEF n
  <2> QED
    BY <2>2
<1>8. Min({i \in DOMAIN p1 : i > Len(q1) \/ p1[i] # q1[i]}) = n
  <2> DEFINE T == {i \in DOMAIN p1 : i > Len(q1) \/ p1[i] # q1[i]}
  <2>1. DOMAIN p1 = 1 .. Len(p1) /\ Len(p1) \in Nat /\ Len(q1) \in Nat
    OBVIOUS
  <2>2. n \in T
    BY <1>1, <1>2, <1>3, <1>5, <1>7, <2>1
  <2>3. ASSUME NEW i \in T PROVE n <= i
    <3>1. i \in 1 .. Len(p1) /\ (i > Len(q1) \/ p1[i] # q1[i])
      BY <2>1
    <3>2. CASE i < n
      <4>1. i \in 1 .. n /\ i \in 1 .. n - 1 /\ ~ (i > Len(q1))
        BY <1>1, <1>4, <2>1, <3>1, <3>2
      <4> QED
        BY <1>5, <1>6, <3>1, <4>1
    <3> QED
      BY <1>1, <3>1, <3>2
  <2>4. T \in SUBSET Nat
    BY <2>1
  <2> HIDE DEF T
  <2>5. Min(T) = n
    BY <2>2, <2>3, <2>4, LeastIs
  <2> QED
    BY <2>5 DEF T
<1>9. ~ IsPrefix(q1, p1)
  <2> SUFFICES ASSUME IsPrefix(q1, p1) PROVE FALSE
    OBVIOUS
  <2>1. \A i \in 1 .. Len(q1) : q1[i] = p1[i]
    BY PrefixIs
  <2>2. n \in 1 .. Len(q1)
    BY <1>1, <1>4
  <2> QED
    BY <1>2, <1>5, <1>7, <2>1, <2>2
<1> QED
  BY <1>3, <1>4, <1>8, <1>9 DEF Parts, n

\* Before, by the paths of the rows.
LEMMA BeforeIs ==
    ASSUME NEW group, NEW W, DOMAIN group = 1 .. Len(W),
           \A i \in 1 .. Len(W) : W[i] = Path(group[i]), NEW p, NEW q, NEW n,
           n = Min({i \in DOMAIN p : i > Len(q) \/ p[i] # q[i]})
    PROVE  Before(group, p, q) <=>
             \/ IsStrictPrefix(p, q)
             \/ /\ ~ IsPrefix(q, p)
                /\ Min(Passing(W, SubSeq(p, 1, n))) < Min(Passing(W, SubSeq(q, 1, n)))
<1>1. \A x : {i \in DOMAIN group : IsPrefix(x, Path(group[i]))} = Passing(W, x)
  BY DEF Passing
<1> QED
  BY <1>1 DEF Before

\* What goes through an earlier branch comes before what goes through a later one.
LEMMA BranchesBefore ==
    ASSUME NEW S, NEW group, NEW W, DOMAIN group = 1 .. Len(W),
           \A i \in 1 .. Len(W) : W[i] = Path(group[i]),
           NEW p \in Seq(S), NEW q \in Seq(S), NEW p1 \in Seq(S), NEW q1 \in Seq(S),
           p # <<>>, q # <<>>, Front(p) = Front(q), IsPrefix(p, p1), IsPrefix(q, q1),
           Min(Passing(W, p)) < Min(Passing(W, q)), Min(Passing(W, p)) \in Nat
    PROVE  Before(group, p1, q1)
<1> DEFINE T == {i \in DOMAIN p1 : i > Len(q1) \/ p1[i] # q1[i]}
           n == Len(p)
<1>1. p # q
  <2> SUFFICES ASSUME p = q PROVE FALSE
    OBVIOUS
  <2>1. Min(Passing(W, p)) < Min(Passing(W, p))
    OBVIOUS
  <2> QED
    BY <2>1
<1>2. /\ Min(T) = n /\ SubSeq(p1, 1, n) = p /\ SubSeq(q1, 1, n) = q
      /\ ~ IsPrefix(q1, p1)
  <2>1. Parts(p, q, p1, q1)
    BY <1>1, Fork
  <2> QED
    BY <2>1 DEF Parts
<1>3. n = Min({i \in DOMAIN p1 : i > Len(q1) \/ p1[i] # q1[i]})
  BY <1>2
<1> HIDE DEF n, T
<1>4. Before(group, p1, q1) <=>
        \/ IsStrictPrefix(p1, q1)
        \/ /\ ~ IsPrefix(q1, p1)
           /\ Min(Passing(W, SubSeq(p1, 1, n))) < Min(Passing(W, SubSeq(q1, 1, n)))
  BY <1>3, BeforeIs
<1> QED
  BY <1>2, <1>4

\* The order of two messages with one parent is that of the rows that first had them.
LEMMA BeforeOfBranches ==
    ASSUME NEW S, NEW group, NEW W, DOMAIN group = 1 .. Len(W),
           \A i \in 1 .. Len(W) : W[i] = Path(group[i]),
           NEW p \in Seq(S), NEW q \in Seq(S), p # <<>>, q # <<>>, Front(p) = Front(q),
           Before(group, p, q)
    PROVE  Min(Passing(W, p)) < Min(Passing(W, q))
<1> DEFINE T == {i \in DOMAIN p : i > Len(q) \/ p[i] # q[i]}
           n == Len(p)
           m == Min(T)
<1>1. IsPrefix(p, p) /\ IsPrefix(q, q)
  BY PrefixOfItself
<1>2. Before(group, p, q) <=>
        \/ IsStrictPrefix(p, q)
        \/ /\ ~ IsPrefix(q, p)
           /\ Min(Passing(W, SubSeq(p, 1, m))) < Min(Passing(W, SubSeq(q, 1, m)))
  <2>1. m = Min({i \in DOMAIN p : i > Len(q) \/ p[i] # q[i]})
    OBVIOUS
  <2> HIDE DEF m
  <2> QED
    BY <2>1, BeforeIs
<1>3. p # q
  <2> SUFFICES ASSUME p = q PROVE FALSE
    OBVIOUS
  <2>1. IsPrefix(q, p) /\ ~ IsStrictPrefix(p, q)
    BY <1>1 DEF IsStrictPrefix
  <2> QED
    BY <1>2, <2>1
<1>4. m = n /\ SubSeq(p, 1, n) = p /\ SubSeq(q, 1, n) = q
  <2>1. Parts(p, q, p, q)
    BY <1>1, <1>3, Fork
  <2> QED
    BY <2>1 DEF Parts
<1>5. ~ IsStrictPrefix(p, q)
  <2> SUFFICES ASSUME IsPrefix(p, q) PROVE FALSE
    BY DEF IsStrictPrefix
  <2>1. /\ Len(p) - 1 = Len(Front(p)) /\ Len(q) - 1 = Len(Front(q))
        /\ Len(p) \in Nat /\ Len(q) \in Nat
    BY FrontIs
  <2>2. Len(p) = Len(q)
    BY <2>1
  <2>3. p = q
    BY <2>2, PrefixOfSameLength
  <2> QED
    BY <1>3, <2>3
<1> QED
  BY <1>2, <1>4, <1>5

----------------------------------------------------------------------------
(* Walk *)

\* Where a walk through the messages D stands after i steps: what is listed, and what
\* is still to be walked with all that goes on from it.
Walked(D, group, i, list, next) ==
    /\ list \in Seq(D) /\ next \in Seq(D) /\ Len(list) = i
    /\ \A a, b \in 1 .. i : list[a] = list[b] => a = b
    /\ \A q \in D : (\E a \in 1 .. i : list[a] = q) <=>
                      ~ \E b \in 1 .. Len(next) : IsPrefix(next[b], q)
    /\ \A a, b \in 1 .. i : a < b => Before(group, list[a], list[b])
    /\ \A a \in 1 .. i, b \in 1 .. Len(next) : \A q \in D :
          IsPrefix(next[b], q) => Before(group, list[a], q)
    /\ \A a, b \in 1 .. Len(next) : \A q, t \in D :
          a < b /\ IsPrefix(next[a], q) /\ IsPrefix(next[b], t) => Before(group, q, t)

\* K holds what goes on from x, branches in their order.
Branches(D, group, x, K) ==
    /\ K \in Seq(D)
    /\ \A a \in 1 .. Len(K) : IsPrefix(x, K[a]) /\ Len(K[a]) = Len(x) + 1
    /\ \A q \in D : IsPrefix(x, q) /\ q # x => \E a \in 1 .. Len(K) : IsPrefix(K[a], q)
    /\ \A a, b \in 1 .. Len(K) : \A q, t \in D :
          a < b /\ IsPrefix(K[a], q) /\ IsPrefix(K[b], t) => Before(group, q, t)

\* The children of a message, or the roots, divide what is below it.
LEMMA BranchesAre ==
    ASSUME NEW S, NEW group, NEW W \in Seq(Seq(S)), DOMAIN group = 1 .. Len(W),
           \A i \in 1 .. Len(W) : W[i] = Path(group[i]),
           NEW x \in Seq(S), NEW K, Ordered(W, K, Below(Paths(S, W), x))
    PROVE  Branches(Paths(S, W), group, x, K)
<1> DEFINE D == Paths(S, W)
           C == Below(D, x)
<1>1. /\ K \in Seq(C) /\ \A c \in C : \E a \in 1 .. Len(K) : K[a] = c
      /\ \A a, b \in 1 .. Len(K) : a < b => Min(Passing(W, K[a])) < Min(Passing(W, K[b]))
  BY DEF Ordered
<1>2. \A q \in D : q \in Seq(S) /\ q # <<>> /\ Passing(W, q) # {}
  BY DEF Paths
<1>3. C \subseteq D /\ \A c \in C : Front(c) = x
  BY DEF Below
<1> HIDE DEF C
<1>4. K \in Seq(D) /\ \A a \in 1 .. Len(K) : K[a] \in C /\ K[a] \in D
  <2> HIDE DEF D
  <2> QED
    BY <1>1, <1>3
<1>5. ASSUME NEW a \in 1 .. Len(K)
      PROVE  /\ K[a] \in Seq(S) /\ K[a] # <<>> /\ Front(K[a]) = x
             /\ IsPrefix(x, K[a]) /\ Len(K[a]) = Len(x) + 1
  <2>1. K[a] \in Seq(S) /\ K[a] # <<>> /\ Front(K[a]) = x
    BY <1>2, <1>3, <1>4
  <2>2. IsPrefix(x, K[a]) /\ Len(x) = Len(K[a]) - 1 /\ Len(K[a]) \in Nat
    BY <2>1, FrontIs
  <2> QED
    BY <2>1, <2>2
<1>6. ASSUME NEW q \in D, IsPrefix(x, q), q # x
      PROVE  \E a \in 1 .. Len(K) : IsPrefix(K[a], q)
  <2> DEFINE n == Len(x) + 1
             c == SubSeq(q, 1, n)
  <2>1. q \in Seq(S) /\ Passing(W, q) # {}
    BY <1>2
  <2>2. x = SubSeq(q, 1, Len(x)) /\ Len(x) \in 0 .. Len(q)
    BY <1>6, <2>1, PrefixIsBeginning
  <2>3. Len(x) # Len(q)
    BY <1>6, <2>1, PrefixOfSameLength
  <2>4. n \in 0 .. Len(q) /\ n - 1 = Len(x) /\ n # 0 /\ Len(x) \in Nat
    BY <2>1, <2>2, <2>3
  <2> HIDE DEF n
  <2>5. c \in Seq(S) /\ Len(c) = n /\ IsPrefix(c, q)
    <3>1. c \in Seq(S) /\ Len(c) = n
      BY <2>1, <2>4, BeginningIs
    <3>2. IsPrefix(c, q)
      BY <2>1, <2>4, BeginningIsPrefix
    <3> QED
      BY <3>1, <3>2
  <2> HIDE DEF c
  <2>6. c # <<>>
    <3>1. Len(<<>>) = 0
      OBVIOUS
    <3> QED
      BY <2>4, <2>5, <3>1
  <2>7. Front(c) = x
    <3>1. Front(c) \in Seq(S) /\ IsPrefix(Front(c), c) /\ Len(Front(c)) = Len(x)
      BY <2>4, <2>5, <2>6, FrontIs
    <3>2. IsPrefix(Front(c), q)
      BY <2>1, <2>5, <3>1, PrefixOfLonger
    <3>3. Front(c) = SubSeq(q, 1, Len(Front(c)))
      BY <2>1, <3>1, <3>2, PrefixIsBeginning
    <3> QED
      BY <2>2, <3>1, <3>3
  <2>8. c \in D
    <3>1. PICK j \in 1 .. Len(W) : IsPrefix(q, W[j])
      BY <2>1 DEF Passing
    <3>2. W[j] \in Seq(S)
      OBVIOUS
    <3>3. IsPrefix(c, W[j])
      BY <2>1, <2>5, <3>1, <3>2, PrefixOfLonger
    <3> QED
      BY <2>5, <2>6, <3>3 DEF Paths, Passing
  <2>9. PICK a \in 1 .. Len(K) : K[a] = c
    BY <1>1, <2>7, <2>8 DEF C, Below
  <2> QED
    BY <2>5, <2>9
<1>7. ASSUME NEW a \in 1 .. Len(K), NEW b \in 1 .. Len(K), NEW q \in D, NEW t \in D,
             a < b, IsPrefix(K[a], q), IsPrefix(K[b], t)
      PROVE  Before(group, q, t)
  <2> DEFINE p == K[a]
             r == K[b]
  <2>1. q \in Seq(S) /\ t \in Seq(S) /\ Min(Passing(W, p)) < Min(Passing(W, r))
    BY <1>1, <1>2, <1>7
  <2>2. /\ p \in Seq(S) /\ r \in Seq(S) /\ p # <<>> /\ r # <<>> /\ Front(p) = Front(r)
        /\ IsPrefix(p, q) /\ IsPrefix(r, t)
    BY <1>5, <1>7
  <2>3. Min(Passing(W, p)) \in Nat
    <3>1. Passing(W, p) # {} /\ Passing(W, p) \in SUBSET Nat
      <4>1. Passing(W, p) # {}
        BY <1>2, <1>4
      <4>2. Passing(W, p) \in SUBSET Nat
        BY DEF Passing
      <4> QED
        BY <4>1, <4>2
    <3>2. Min(Passing(W, p)) \in Passing(W, p)
      BY <3>1, Least
    <3> QED
      BY <3>1, <3>2
  <2> HIDE DEF p, r
  <2> QED
    BY <2>1, <2>2, <2>3, BranchesBefore
<1> QED
  BY <1>4, <1>5, <1>6, <1>7 DEF Branches

\* t is K and then the tail of s.
InFrontOfTail(D, K, s, t) ==
    /\ t \in Seq(D) /\ Len(t) = Len(K) + Len(s) - 1 /\ Head(s) = s[1]
    /\ Len(s) \in Nat /\ 1 \in 1 .. Len(s) /\ Len(K) \in Nat
    /\ \A a \in 1 .. Len(K) : t[a] = K[a]
    /\ \A a \in 1 .. Len(t) : a > Len(K) =>
          a - Len(K) + 1 \in 2 .. Len(s) /\ t[a] = s[a - Len(K) + 1]
    /\ \A b \in 2 .. Len(s) :
          b + Len(K) - 1 \in 1 .. Len(t) /\ t[b + Len(K) - 1] = s[b]
    /\ \A a \in 1 .. Len(t) : a <= Len(K) => a \in 1 .. Len(K)
    /\ \A a \in 1 .. Len(K) : a \in 1 .. Len(t)

\* The messages still to be walked, after a step of the walk.
LEMMA TailBehind ==
    ASSUME NEW D, NEW K \in Seq(D), NEW s \in Seq(D), s # <<>>, NEW t, t = K \o Tail(s)
    PROVE  InFrontOfTail(D, K, s, t)
<1> DEFINE k == Len(K)
           n == Len(s)
<1>1. n \in Nat \ {0} /\ k \in Nat
  OBVIOUS
<1>2. /\ Tail(s) \in Seq(D) /\ Len(Tail(s)) = n - 1 /\ Head(s) = s[1]
      /\ \A a \in 1 .. n - 1 : Tail(s)[a] = s[a + 1]
  BY <1>1
<1> DEFINE u == Tail(s)
<1>3. u \in Seq(D) /\ Len(u) = n - 1 /\ t = K \o u
  BY <1>2
<1>4. \A a \in 1 .. n - 1 : u[a] = s[a + 1]
  BY <1>2
<1> HIDE DEF u
<1>5. /\ t \in Seq(D) /\ Len(t) = k + (n - 1)
      /\ \A a \in 1 .. k : t[a] = K[a]
      /\ \A a \in k + 1 .. k + (n - 1) : t[a] = u[a - k]
  BY <1>1, <1>3
<1> HIDE DEF k, n
<1>6. ASSUME NEW a \in 1 .. Len(t), a > k PROVE a - k + 1 \in 2 .. n /\ t[a] = s[a - k + 1]
  <2>1. a \in k + 1 .. k + (n - 1) /\ a - k \in 1 .. n - 1 /\ a - k + 1 \in 2 .. n
    BY <1>1, <1>5, <1>6
  <2> QED
    BY <1>4, <1>5, <2>1
<1>7. ASSUME NEW b \in 2 .. n PROVE b + k - 1 \in 1 .. Len(t) /\ t[b + k - 1] = s[b]
  <2>1. /\ b + k - 1 \in 1 .. Len(t) /\ b + k - 1 > k
        /\ (b + k - 1) - k + 1 = b
    BY <1>1, <1>5
  <2> QED
    BY <1>6, <2>1
<1>8. /\ Len(t) = k + n - 1 /\ 1 \in 1 .. n /\ n \in Nat
      /\ \A a \in 1 .. Len(t) : a <= k => a \in 1 .. k
      /\ \A a \in 1 .. k : a \in 1 .. Len(t)
  BY <1>1, <1>5
<1> QED
  BY <1>1, <1>2, <1>5, <1>6, <1>7, <1>8 DEF InFrontOfTail, k, n

\* A step of the walk keeps what Walked says: what is listed is in order, and what is
\* not is below one of the messages still to be walked.
LEMMA WalkStep ==
    ASSUME NEW S, NEW D \in SUBSET Seq(S), NEW group, NEW i \in Nat, NEW list, NEW next,
           Walked(D, group, i, list, next), next # <<>>, NEW x, x = Head(next),
           NEW K, Branches(D, group, x, K), NEW rest, rest = K \o Tail(next),
           NEW more, more = Append(list, x)
    PROVE  Walked(D, group, i + 1, more, rest)
<1>1. /\ list \in Seq(D) /\ next \in Seq(D) /\ Len(list) = i
      /\ \A a, b \in 1 .. i : list[a] = list[b] => a = b
      /\ \A q \in D : (\E a \in 1 .. i : list[a] = q) <=>
                        ~ \E b \in 1 .. Len(next) : IsPrefix(next[b], q)
      /\ \A a, b \in 1 .. i : a < b => Before(group, list[a], list[b])
  BY DEF Walked
<1>2. /\ \A a \in 1 .. i, b \in 1 .. Len(next) : \A q \in D :
            IsPrefix(next[b], q) => Before(group, list[a], q)
      /\ \A a, b \in 1 .. Len(next) : \A q, t \in D :
            a < b /\ IsPrefix(next[a], q) /\ IsPrefix(next[b], t) => Before(group, q, t)
  BY DEF Walked
<1>3. /\ K \in Seq(D)
      /\ \A a \in 1 .. Len(K) : IsPrefix(x, K[a]) /\ Len(K[a]) = Len(x) + 1
      /\ \A q \in D : IsPrefix(x, q) /\ q # x => \E a \in 1 .. Len(K) : IsPrefix(K[a], q)
      /\ \A a, b \in 1 .. Len(K) : \A q, t \in D :
            a < b /\ IsPrefix(K[a], q) /\ IsPrefix(K[b], t) => Before(group, q, t)
  BY DEF Branches
<1> DEFINE k == Len(K)
           n == Len(next)
           m == Len(rest)
<1>4. /\ rest \in Seq(D) /\ m = k + n - 1 /\ x = next[1]
      /\ n \in Nat /\ 1 \in 1 .. n /\ k \in Nat
      /\ \A a \in 1 .. k : rest[a] = K[a]
      /\ \A a \in 1 .. m : a > k => a - k + 1 \in 2 .. n /\ rest[a] = next[a - k + 1]
      /\ \A b \in 2 .. n : b + k - 1 \in 1 .. m /\ rest[b + k - 1] = next[b]
      /\ \A a \in 1 .. m : a <= k => a \in 1 .. k
      /\ \A a \in 1 .. k : a \in 1 .. m
  <2>1. InFrontOfTail(D, K, next, rest)
    BY <1>1, <1>3, TailBehind
  <2> QED
    BY <2>1 DEF InFrontOfTail
<1> HIDE DEF k, n, m
<1>5. x \in D /\ x \in Seq(S) /\ \A q \in D : q \in Seq(S)
  BY <1>1, <1>4 DEF n
<1>6. /\ more \in Seq(D) /\ Len(more) = i + 1 /\ more[i + 1] = x
      /\ \A a \in 1 .. i : more[a] = list[a] /\ list[a] \in D
      /\ \A a \in 1 .. i + 1 : a # i + 1 => a \in 1 .. i
      /\ i + 1 \in 1 .. i + 1 /\ \A a \in 1 .. i : a \in 1 .. i + 1
  BY <1>1, <1>5, AppendProperties
\* A branch of x goes on from x.
<1>7. ASSUME NEW a \in 1 .. k, NEW q \in D, IsPrefix(K[a], q)
      PROVE  IsPrefix(x, q) /\ q # x
  <2>1. K[a] \in Seq(S) /\ IsPrefix(x, K[a]) /\ Len(K[a]) = Len(x) + 1 /\ Len(x) \in Nat
    BY <1>3, <1>5 DEF k
  <2>2. IsPrefix(x, q)
    BY <1>5, <1>7, <2>1, PrefixOfLonger
  <2>3. Len(K[a]) <= Len(q)
    BY <1>7 DEF IsPrefix
  <2> QED
    BY <2>1, <2>2, <2>3
\* What is left to be walked after x is before what is left of the rest.
<1>8. ASSUME NEW a \in 1 .. m, NEW q \in D, IsPrefix(rest[a], q)
      PROVE  \/ a \in 1 .. k /\ IsPrefix(K[a], q) /\ IsPrefix(x, q) /\ q # x
             \/ a > k /\ a - k + 1 \in 2 .. n /\ IsPrefix(next[a - k + 1], q)
  <2>1. CASE a <= k
    <3>1. a \in 1 .. k /\ IsPrefix(K[a], q)
      BY <1>4, <1>8, <2>1
    <3> QED
      BY <1>7, <3>1
  <2>2. CASE a > k
    BY <1>4, <1>8, <2>2
  <2>3. a \in Nat
    OBVIOUS
  <2> QED
    BY <1>4, <2>1, <2>2, <2>3
<1>9. IsPrefix(x, x)
  BY <1>5, PrefixOfItself
<1>10. ASSUME NEW q \in D, NEW b \in 2 .. n, IsPrefix(next[b], q)
       PROVE  ~ IsPrefix(x, q)
  <2> SUFFICES ASSUME IsPrefix(x, q) PROVE FALSE
    OBVIOUS
  <2>1. 1 < b /\ b \in 1 .. n /\ IsPrefix(next[1], q)
    BY <1>4
  <2>2. Before(group, q, q)
    BY <1>2, <1>4, <1>10, <2>1 DEF n
  <2>3. IsPrefix(q, q)
    BY <1>5, PrefixOfItself
  <2> QED
    BY <2>2, <2>3 DEF Before, IsStrictPrefix
<1>11. \A a \in 1 .. i : list[a] # x
  <2> SUFFICES ASSUME NEW a \in 1 .. i, list[a] = x PROVE FALSE
    OBVIOUS
  <2>1. ~ \E b \in 1 .. n : IsPrefix(next[b], x)
    BY <1>1, <1>5 DEF n
  <2> QED
    BY <1>4, <1>9, <2>1
<1>12. ASSUME NEW a \in 1 .. i + 1, NEW b \in 1 .. i + 1, more[a] = more[b] PROVE a = b
  <2>1. CASE a = i + 1 /\ b = i + 1
    BY <2>1
  <2>2. CASE a # i + 1 /\ b # i + 1
    <3>1. a \in 1 .. i /\ b \in 1 .. i /\ list[a] = list[b]
      BY <1>6, <1>12, <2>2
    <3> QED
      BY <1>1, <3>1
  <2>3. CASE a = i + 1 /\ b # i + 1
    BY <1>6, <1>11, <1>12, <2>3
  <2>4. CASE a # i + 1 /\ b = i + 1
    BY <1>6, <1>11, <1>12, <2>4
  <2> QED
    BY <2>1, <2>2, <2>3, <2>4
<1>13. ASSUME NEW q \in D
       PROVE  (\E a \in 1 .. i + 1 : more[a] = q) <=>
                ~ \E b \in 1 .. m : IsPrefix(rest[b], q)
  <2>1. CASE q = x
    <3>1. \E a \in 1 .. i + 1 : more[a] = q
      BY <1>6, <2>1
    <3>2. ASSUME NEW b \in 1 .. m, IsPrefix(rest[b], q) PROVE FALSE
      <4>1. b - k + 1 \in 2 .. n /\ IsPrefix(next[b - k + 1], x)
        BY <1>8, <2>1, <3>2
      <4> QED
        BY <1>5, <1>9, <1>10, <4>1
    <3> QED
      BY <3>1, <3>2
  <2>2. ASSUME NEW a \in 1 .. i, list[a] = q, NEW b \in 1 .. m, IsPrefix(rest[b], q)
        PROVE  FALSE
    <3>1. ~ \E c \in 1 .. n : IsPrefix(next[c], q)
      BY <1>1, <2>2 DEF n
    <3>2. CASE IsPrefix(x, q)
      BY <1>4, <3>1, <3>2
    <3>3. CASE b - k + 1 \in 2 .. n /\ IsPrefix(next[b - k + 1], q)
      <4>1. b - k + 1 \in 1 .. n
        BY <1>4, <3>3
      <4> QED
        BY <3>1, <3>3, <4>1
    <3> QED
      BY <1>8, <2>2, <3>2, <3>3
  <2>3. ASSUME q # x, ~ \E a \in 1 .. i : list[a] = q
        PROVE  \E b \in 1 .. m : IsPrefix(rest[b], q)
    <3>1. PICK c \in 1 .. n : IsPrefix(next[c], q)
      BY <1>1, <2>3 DEF n
    <3>2. CASE c = 1
      <4>1. PICK a \in 1 .. k : IsPrefix(K[a], q)
        BY <1>3, <1>4, <2>3, <3>1, <3>2 DEF k
      <4> QED
        BY <1>4, <4>1
    <3>3. CASE c # 1
      <4>1. c \in 2 .. n
        BY <1>4, <3>3
      <4>2. c + k - 1 \in 1 .. m /\ IsPrefix(rest[c + k - 1], q)
        BY <1>4, <3>1, <4>1
      <4> QED
        BY <4>2
    <3> QED
      BY <3>2, <3>3
  <2>4. CASE q # x
    <3>1. (\E a \in 1 .. i + 1 : more[a] = q) <=> \E a \in 1 .. i : list[a] = q
      BY <1>6, <2>4
    <3> QED
      BY <2>2, <2>3, <2>4, <3>1
  <2> QED
    BY <2>1, <2>4
<1>14. ASSUME NEW a \in 1 .. i + 1, NEW b \in 1 .. i + 1, a < b
       PROVE  Before(group, more[a], more[b])
  <2>1. a \in 1 .. i /\ more[a] = list[a]
    <3>1. a \in 1 .. i
      BY <1>14
    <3> QED
      BY <1>6, <3>1
  <2>2. CASE b = i + 1
    BY <1>2, <1>4, <1>5, <1>6, <1>9, <2>1, <2>2 DEF n
  <2>3. CASE b # i + 1
    BY <1>1, <1>6, <1>14, <2>1, <2>3
  <2> QED
    BY <2>2, <2>3
<1>15. ASSUME NEW a \in 1 .. i + 1, NEW b \in 1 .. m, NEW q \in D, IsPrefix(rest[b], q)
       PROVE  Before(group, more[a], q)
  <2>1. PICK c \in 1 .. n : IsPrefix(next[c], q) /\ (c = 1 => IsPrefix(x, q) /\ q # x)
    <3>1. CASE IsPrefix(x, q) /\ q # x
      BY <1>4, <3>1
    <3>2. CASE b - k + 1 \in 2 .. n /\ IsPrefix(next[b - k + 1], q)
      <4>1. b - k + 1 \in 1 .. n /\ b - k + 1 # 1
        BY <1>4, <3>2
      <4> QED
        BY <3>2, <4>1
    <3> QED
      BY <1>8, <1>15, <3>1, <3>2
  <2>2. CASE a # i + 1
    <3>1. a \in 1 .. i /\ more[a] = list[a]
      BY <1>6, <2>2
    <3> QED
      BY <1>2, <2>1, <3>1 DEF n
  <2>3. CASE a = i + 1 /\ c = 1
    <3>1. more[a] = x /\ IsStrictPrefix(x, q)
      BY <1>6, <2>1, <2>3 DEF IsStrictPrefix
    <3> QED
      BY <3>1 DEF Before
  <2>4. CASE a = i + 1 /\ c # 1
    <3>1. more[a] = x /\ 1 < c /\ IsPrefix(next[1], x)
      BY <1>4, <1>6, <1>9, <2>4
    <3> QED
      BY <1>2, <1>4, <1>5, <2>1, <3>1 DEF n
  <2> QED
    BY <2>2, <2>3, <2>4
<1>16. ASSUME NEW a \in 1 .. m, NEW b \in 1 .. m, NEW q \in D, NEW t \in D, a < b,
              IsPrefix(rest[a], q), IsPrefix(rest[b], t)
       PROVE  Before(group, q, t)
  <2>1. \/ a \in 1 .. k /\ IsPrefix(K[a], q) /\ IsPrefix(x, q) /\ q # x
        \/ a > k /\ a - k + 1 \in 2 .. n /\ IsPrefix(next[a - k + 1], q)
    BY <1>8, <1>16
  <2>2. \/ b \in 1 .. k /\ IsPrefix(K[b], t) /\ IsPrefix(x, t) /\ t # x
        \/ b > k /\ b - k + 1 \in 2 .. n /\ IsPrefix(next[b - k + 1], t)
    BY <1>8, <1>16
  <2>3. CASE b \in 1 .. k /\ IsPrefix(K[b], t)
    <3>1. a \in 1 .. k
      BY <1>4, <1>16, <2>3
    <3>2. IsPrefix(K[a], q)
      BY <1>4, <1>16, <3>1
    <3> QED
      BY <1>3, <1>16, <2>3, <3>1, <3>2 DEF k
  <2>4. CASE b > k /\ b - k + 1 \in 2 .. n /\ IsPrefix(next[b - k + 1], t)
    <3>1. b - k + 1 \in 1 .. n /\ 1 < b - k + 1
      BY <1>4, <2>4
    <3>2. CASE IsPrefix(x, q)
      BY <1>2, <1>4, <2>4, <3>1, <3>2 DEF n
    <3>3. CASE a > k /\ a - k + 1 \in 2 .. n /\ IsPrefix(next[a - k + 1], q)
      <4>1. a - k + 1 \in 1 .. n /\ a - k + 1 < b - k + 1
        BY <1>4, <1>16, <3>3
      <4> QED
        BY <1>2, <2>4, <3>1, <3>3, <4>1 DEF n
    <3> QED
      BY <2>1, <3>2, <3>3
  <2> QED
    BY <2>2, <2>3, <2>4
<1> QED
  BY <1>4, <1>6, <1>12, <1>13, <1>14, <1>15, <1>16 DEF Walked, m

\* The walk goes on until all is listed.
LEMMA WalkGoesOn ==
    ASSUME NEW S, NEW D \in SUBSET Seq(S), IsFiniteSet(D), NEW group, NEW i \in Nat,
           NEW list, NEW next, Walked(D, group, i, list, next)
    PROVE  /\ i < Cardinality(D) => next # <<>>
           /\ i = Cardinality(D) => \A q \in D : \E a \in 1 .. i : list[a] = q
<1>1. /\ list \in Seq(D) /\ next \in Seq(D) /\ Len(list) = i
      /\ \A a, b \in 1 .. i : list[a] = list[b] => a = b
      /\ \A q \in D : (\E a \in 1 .. i : list[a] = q) <=>
                        ~ \E b \in 1 .. Len(next) : IsPrefix(next[b], q)
  BY DEF Walked
<1> DEFINE f == [a \in 1 .. i |-> list[a]]
<1>2. f \in [1 .. i -> D] /\ \A a \in 1 .. i : f[a] = list[a]
  BY <1>1
<1>3. IsFiniteSet(1 .. i) /\ Cardinality(1 .. i) = i
  BY FS_Interval
<1> HIDE DEF f
<1>4. ASSUME next = <<>> PROVE Cardinality(D) <= i
  <2>1. Len(next) = 0
    BY <1>4
  <2>2. \A q \in D : \E a \in 1 .. i : f[a] = q
    BY <1>1, <1>2, <2>1
  <2>3. f \in Surjection(1 .. i, D)
    BY <1>2, <2>2 DEF Surjection
  <2> QED
    BY <2>3, FS_SurjCardinalityBound DEF ExistsSurjection
<1>5. Cardinality(D) \in Nat
  BY FS_CardinalityType
<1>6. ASSUME i = Cardinality(D) PROVE \A q \in D : \E a \in 1 .. i : list[a] = q
  <2>1. f \in Injection(1 .. i, D)
    BY <1>1, <1>2 DEF Injection, IsInjective
  <2>2. f \in Surjection(1 .. i, D)
    BY <1>3, <1>6, <2>1, FS_Injection
  <2>3. \A q \in D : \E a \in 1 .. i : f[a] = q
    BY <2>2 DEF Surjection
  <2> QED
    BY <1>2, <2>3
<1> QED
  BY <1>4, <1>5, <1>6

\* The list of the tree of a group holds every message once, in the order of Before.
Lists(D, group, list) ==
    /\ \E next : Walked(D, group, Len(list), list, next)
    /\ \A q \in D : \E a \in 1 .. Len(list) : list[a] = q

\* The walk lists every message.
LEMMA ListIs ==
    ASSUME NEW S, NEW group, NEW W \in Seq(Seq(S)), DOMAIN group = 1 .. Len(W),
           \A i \in 1 .. Len(W) : W[i] = Path(group[i]),
           NEW tree, IsTree(S, group, W, tree)
    PROVE  Lists(Paths(S, W), group, ToList(tree))
<1> DEFINE D == Paths(S, W)
           n == Cardinality(D)
           start == [list |-> <<>>, next |-> tree.roots]
           All == [list : Seq(D), next : Seq(D)]
           Good == [k \in 0 .. n |-> {w \in All : Walked(D, group, k, w.list, w.next)}]
           op(w) == Walk(tree, w)
           step == [k \in 1 .. n |-> [w \in All |-> op(w)]]
           IsWalked(f) == f = [i \in 0 .. n |-> IF i = 0 THEN start ELSE Walk(tree, f[i - 1])]
           walked == CHOOSE f : IsWalked(f)
<1>1. /\ IsFiniteSet(D) /\ tree \in Shaped(S, D) /\ D \in SUBSET Seq(S) /\ <<>> \notin D
      /\ Ordered(W, tree.roots, Below(D, <<>>))
      /\ \A p \in D : Ordered(W, tree.nodes[p].children, Below(D, p))
  BY DEF IsTree, Paths
<1>2. n \in Nat /\ 0 \in 0 .. n /\ n \in 0 .. n /\ n = Cardinality(D)
  <2>1. n \in Nat
    BY <1>1, FS_CardinalityType
  <2> QED
    BY <2>1
<1>3. ToList(tree) = walked[n].list
  <2>1. DOMAIN tree.nodes = D
    BY <1>1 DEF Shaped
  <2> QED
    BY <2>1 DEF ToList
<1>4. Branches(D, group, <<>>, tree.roots)
  <2> DEFINE x == <<>>
             K == tree.roots
  <2>1. x \in Seq(S) /\ Ordered(W, K, Below(D, x))
    BY <1>1
  <2> HIDE DEF x, K
  <2>2. Branches(D, group, x, K)
    BY <2>1, BranchesAre
  <2> QED
    BY <2>2 DEF x, K
<1>5. \A p \in D : Branches(D, group, p, tree.nodes[p].children)
  BY <1>1, BranchesAre
<1> HIDE DEF D, n
<1>6. start \in Good[0]
  <2> DEFINE e == <<>>
             K == tree.roots
  <2>1. /\ K \in Seq(D)
        /\ \A q \in D : IsPrefix(e, q) /\ q # e => \E a \in 1 .. Len(K) : IsPrefix(K[a], q)
        /\ \A a, b \in 1 .. Len(K) : \A q, t \in D :
              a < b /\ IsPrefix(K[a], q) /\ IsPrefix(K[b], t) => Before(group, q, t)
    BY <1>4 DEF Branches
  <2>2. e \in Seq(D) /\ Len(e) = 0 /\ e \notin D
    BY <1>1
  <2>3. \A q \in D : IsPrefix(e, q)
    <3> SUFFICES ASSUME NEW q \in D PROVE IsPrefix(e, q)
      OBVIOUS
    <3>1. q \in Seq(S) /\ e \in Seq(S) /\ Len(q) \in Nat
      BY <1>1
    <3> HIDE DEF e
    <3>2. Len(e) <= Len(q) /\ \A i \in 1 .. Len(e) : e[i] = q[i]
      BY <2>2, <3>1
    <3> QED
      BY <3>1, <3>2, PrefixIs
  <2>4. start.list = e /\ start.next = K /\ start \in All
    BY <2>1, <2>2
  <2> HIDE DEF e, K, start
  <2>5. Walked(D, group, 0, e, K)
    BY <2>1, <2>2, <2>3 DEF Walked
  <2> QED
    BY <1>2, <2>4, <2>5
<1> HIDE DEF start
<1>7. ASSUME NEW k \in 1 .. n, NEW w \in Good[k - 1] PROVE op(w) \in Good[k] /\ w \in All
  <2>1. k - 1 \in 0 .. n /\ k \in 0 .. n /\ k - 1 \in Nat /\ k - 1 < n /\ (k - 1) + 1 = k
    BY <1>2
  <2>2. w \in All /\ Walked(D, group, k - 1, w.list, w.next)
    BY <2>1
  <2> DEFINE list == w.list
             next == w.next
             i == k - 1
             x == Head(next)
             K == tree.nodes[x].children
             more == Append(list, x)
             rest == K \o Tail(next)
  <2>3. Walked(D, group, i, list, next) /\ i \in Nat /\ i < n
    BY <2>1, <2>2
  <2>4. op(w) = [list |-> more, next |-> rest]
    BY DEF Walk
  <2>5. more = Append(list, x) /\ rest = K \o Tail(next) /\ x = Head(next) /\ i + 1 = k
    BY <2>1
  <2> HIDE DEF i, list, next, op
  <2>6. next # <<>>
    BY <1>1, <2>3, WalkGoesOn DEF n
  <2>7. next \in Seq(D)
    BY <2>3 DEF Walked
  <2>8. x \in D
    BY <2>6, <2>7
  <2> HIDE DEF x
  <2>9. Branches(D, group, x, K)
    BY <1>5, <2>8
  <2> HIDE DEF K, more, rest
  <2>10. Walked(D, group, i + 1, more, rest)
    BY <1>1, <2>3, <2>5, <2>6, <2>9, WalkStep
  <2>11. more \in Seq(D) /\ rest \in Seq(D)
    BY <2>10 DEF Walked
  <2>12. op(w) \in All /\ op(w).list = more /\ op(w).next = rest
    BY <2>4, <2>11
  <2>13. op(w) \in Good[k]
    BY <2>1, <2>5, <2>10, <2>12
  <2> QED
    BY <2>2, <2>13
<1>8. \A w \in Good[n] : Walked(D, group, n, w.list, w.next)
  BY <1>2
<1> HIDE DEF Good
<1>9. \A k \in 1 .. n : \A w \in Good[k - 1] : step[k][w] \in Good[k] /\ step[k][w] = op(w)
  BY <1>7
<1> HIDE DEF step, All
<1>10. PICK f : Steps(f, n, start, step, Good)
  <2> HIDE DEF op
  <2> QED
    BY <1>2, <1>6, <1>9, Recursion
<1>11. IsWalked(f)
  <2>1. /\ f = [k \in 0 .. n |-> f[k]] /\ f[0] = start
        /\ \A k \in 1 .. n : f[k] = step[k][f[k - 1]]
    BY <1>10 DEF Steps
  <2>2. \A k \in 0 .. n : f[k] \in Good[k]
    BY <1>10 DEF Steps
  <2>3. ASSUME NEW k \in 0 .. n
        PROVE  f[k] = IF k = 0 THEN start ELSE Walk(tree, f[k - 1])
    <3>1. CASE k = 0
      BY <2>1, <3>1
    <3>2. CASE k # 0
      <4>1. k \in 1 .. n /\ k - 1 \in 0 .. n
        BY <1>2, <3>2
      <4>2. f[k] = op(f[k - 1])
        BY <1>9, <2>1, <2>2, <4>1
      <4> QED
        BY <3>2, <4>2
    <3> QED
      BY <3>1, <3>2
  <2> QED
    BY <2>1, <2>3
<1>12. IsWalked(walked)
  BY <1>11
<1> HIDE DEF walked
<1>13. walked[0] = start /\ \A k \in 1 .. n : walked[k] = op(walked[k - 1])
  <2>1. ASSUME NEW k \in 1 .. n PROVE walked[k] = op(walked[k - 1])
    <3>1. k \in 0 .. n /\ k # 0
      BY <1>2
    <3> QED
      BY <1>12, <3>1
  <2> QED
    BY <1>2, <1>12, <2>1
<1> HIDE DEF op
<1>14. /\ walked[0] \in Good[0]
       /\ \A k \in 1 .. n : walked[k - 1] \in Good[k - 1] => walked[k] \in Good[k]
  BY <1>6, <1>9, <1>13
<1>15. walked[n] \in Good[n]
  BY <1>2, <1>14, RecursionKeeps
<1> DEFINE list == ToList(tree)
           next == walked[n].next
<1>16. Walked(D, group, n, list, next)
  BY <1>3, <1>8, <1>15
<1> HIDE DEF list, next
<1>17. Len(list) = n
  BY <1>16 DEF Walked
<1>18. \A q \in D : \E a \in 1 .. n : list[a] = q
  BY <1>1, <1>2, <1>16, WalkGoesOn
<1> QED
  BY <1>16, <1>17, <1>18 DEF Lists, list, D

----------------------------------------------------------------------------
(* What was said in a group *)

\* C holds the members of s and no others, and s is in the order of a rank.
Ranked(C, rank, s) ==
    /\ s \in Seq(C)
    /\ \A c \in C : \E a \in 1 .. Len(s) : s[a] = c
    /\ \A a, b \in 1 .. Len(s) : a < b => rank[s[a]] < rank[s[b]]

\* Where two such sequences agree before a place, they agree at it.
LEMMA SameOrderStep ==
    ASSUME NEW C, NEW rank \in [C -> Nat], NEW s, NEW t, Ranked(C, rank, s), Ranked(C, rank, t),
           NEW n \in 1 .. Len(s), \A a \in 1 .. n - 1 : a \in 1 .. Len(t) /\ s[a] = t[a]
    PROVE  n \in 1 .. Len(t) /\ s[n] = t[n]
<1>1. /\ s \in Seq(C) /\ t \in Seq(C) /\ Len(s) \in Nat /\ Len(t) \in Nat
      /\ \A c \in C : \E a \in 1 .. Len(s) : s[a] = c
      /\ \A c \in C : \E a \in 1 .. Len(t) : t[a] = c
      /\ \A a, b \in 1 .. Len(s) : a < b => rank[s[a]] < rank[s[b]]
      /\ \A a, b \in 1 .. Len(t) : a < b => rank[t[a]] < rank[t[b]]
  <2>1. s \in Seq(C) /\ t \in Seq(C)
    BY DEF Ranked
  <2>2. Len(s) \in Nat /\ Len(t) \in Nat
    BY <2>1
  <2>3. /\ \A c \in C : \E a \in 1 .. Len(s) : s[a] = c
        /\ \A a, b \in 1 .. Len(s) : a < b => rank[s[a]] < rank[s[b]]
    BY DEF Ranked
  <2>4. /\ \A c \in C : \E a \in 1 .. Len(t) : t[a] = c
        /\ \A a, b \in 1 .. Len(t) : a < b => rank[t[a]] < rank[t[b]]
    BY DEF Ranked
  <2> QED
    BY <2>1, <2>2, <2>3, <2>4
<1>2. \A a \in 1 .. Len(s) : s[a] \in C
  BY <1>1
<1>3. \A a \in 1 .. Len(t) : t[a] \in C
  BY <1>1
<1>4. n \in Nat /\ \A a \in Nat : a < n /\ a # 0 => a \in 1 .. n - 1 /\ a \in 1 .. Len(s)
  BY <1>1
<1>5. PICK a \in 1 .. Len(t) : t[a] = s[n]
  BY <1>1, <1>2
<1>6. ASSUME a < n PROVE FALSE
  <2>1. a \in 1 .. n - 1 /\ a \in 1 .. Len(s)
    BY <1>4, <1>6
  <2>2. s[a] = s[n] /\ rank[s[a]] < rank[s[n]]
    BY <1>1, <1>5, <1>6, <2>1
  <2>3. rank[s[n]] \in Nat
    BY <1>2
  <2> QED
    BY <2>2, <2>3
<1>7. n \in 1 .. Len(t) /\ n <= a
  BY <1>1, <1>4, <1>6
<1>8. PICK b \in 1 .. Len(s) : s[b] = t[n]
  BY <1>1, <1>3, <1>7
<1>9. ASSUME b < n PROVE FALSE
  <2>1. b \in 1 .. n - 1 /\ b \in 1 .. Len(t)
    BY <1>4, <1>9
  <2>2. t[b] = t[n] /\ rank[t[b]] < rank[t[n]]
    BY <1>1, <1>7, <1>8, <1>9, <2>1
  <2>3. rank[t[n]] \in Nat
    BY <1>3, <1>7
  <2> QED
    BY <2>2, <2>3
<1>10. n = a
  <2> SUFFICES ASSUME n # a PROVE FALSE
    OBVIOUS
  <2> DEFINE u == rank[s[n]]
             v == rank[t[n]]
  <2>1. u \in Nat /\ v \in Nat
    BY <1>2, <1>3, <1>7
  <2>2. v < u
    <3>1. n < a
      BY <1>4, <1>7
    <3> QED
      BY <1>1, <1>5, <1>7, <3>1
  <2>3. u < v \/ s[b] = s[n]
    <3>1. n < b \/ n = b
      BY <1>4, <1>9
    <3> QED
      BY <1>1, <1>8, <3>1
  <2>4. s[b] = s[n] => u = v
    BY <1>8
  <2> HIDE DEF u, v
  <2> QED
    BY <2>1, <2>2, <2>3, <2>4
<1> QED
  BY <1>5, <1>7, <1>10

\* So they are the same.
LEMMA SameOrder ==
    ASSUME NEW C, NEW rank \in [C -> Nat], NEW s, NEW t, Ranked(C, rank, s), Ranked(C, rank, t)
    PROVE  s = t
<1>1. s \in Seq(C) /\ t \in Seq(C) /\ Len(s) \in Nat /\ Len(t) \in Nat
  BY DEF Ranked
<1>2. ASSUME NEW x, NEW y, Ranked(C, rank, x), Ranked(C, rank, y)
      PROVE  \A a \in 1 .. Len(x) : a \in 1 .. Len(y) /\ x[a] = y[a]
  <2> DEFINE N == Len(x)
             T == {n \in 0 .. N : \A a \in 1 .. n : a \in 1 .. Len(y) /\ x[a] = y[a]}
  <2>1. N \in Nat
    BY <1>2 DEF Ranked
  <2>2. 0 \in T
    BY <2>1
  <2>3. ASSUME NEW n \in 1 .. N, n - 1 \in T PROVE n \in T
    <3>1. \A a \in 1 .. n - 1 : a \in 1 .. Len(y) /\ x[a] = y[a]
      BY <2>3
    <3>2. n \in 1 .. Len(y) /\ x[n] = y[n]
      BY <1>2, <3>1, SameOrderStep
    <3>3. n \in 0 .. N /\ \A a \in 1 .. n : a = n \/ a \in 1 .. n - 1
      BY <2>1
    <3> QED
      BY <3>1, <3>2, <3>3
  <2>4. \A n \in 1 .. N : n - 1 \in T => n \in T
    BY <2>3
  <2>5. N \in T
    <3> HIDE DEF T, N
    <3>1. \A n \in 0 .. N : n \in T
      BY <2>1, <2>2, <2>4, UpTo
    <3>2. N \in 0 .. N
      BY <2>1
    <3> QED
      BY <3>1, <3>2
  <2> QED
    BY <2>5
<1>3. \A a \in 1 .. Len(s) : a \in 1 .. Len(t) /\ s[a] = t[a]
  BY <1>2
<1>4. \A a \in 1 .. Len(t) : a \in 1 .. Len(s) /\ t[a] = s[a]
  BY <1>2
<1>5. Len(s) = Len(t)
  <2>1. Len(s) > Len(t) => Len(s) \in 1 .. Len(s)
    BY <1>1
  <2>2. Len(t) > Len(s) => Len(t) \in 1 .. Len(t)
    BY <1>1
  <2>3. Len(s) > Len(t) => Len(s) \in 1 .. Len(t)
    BY <1>3, <2>1
  <2>4. Len(t) > Len(s) => Len(t) \in 1 .. Len(s)
    BY <1>4, <2>2
  <2> QED
    BY <1>1, <2>3, <2>4
<1> QED
  BY <1>1, <1>3, <1>5, SameSequence

\* The children of a message are what follows it in the list, in the list's order.
Following(list, p) == Selected(list, {i \in DOMAIN list : Front(list[i]) = p})

\* The children of a message in the tree are those that follow it in the list.
LEMMA ChildrenAre ==
    ASSUME NEW S, NEW group, NEW W \in Seq(Seq(S)), DOMAIN group = 1 .. Len(W),
           \A i \in 1 .. Len(W) : W[i] = Path(group[i]),
           NEW p \in Paths(S, W), NEW K, Ordered(W, K, Below(Paths(S, W), p)),
           NEW n \in Nat, NEW list, NEW next, Walked(Paths(S, W), group, n, list, next),
           \A q \in Paths(S, W) : \E a \in 1 .. n : list[a] = q
    PROVE  K = Following(list, p)
<1> DEFINE D == Paths(S, W)
           C == Below(D, p)
           places == {i \in DOMAIN list : Front(list[i]) = p}
           v == Selected(list, places)
           rank == [c \in C |-> Min(Passing(W, c))]
<1>1. /\ list \in Seq(D) /\ Len(list) = n /\ DOMAIN list = 1 .. n
      /\ \A a, b \in 1 .. n : a < b => Before(group, list[a], list[b])
  <2> HIDE DEF D
  <2>1. /\ list \in Seq(D) /\ Len(list) = n
        /\ \A a, b \in 1 .. n : a < b => Before(group, list[a], list[b])
    BY DEF Walked, D
  <2> QED
    BY <2>1
<1>2. /\ K \in Seq(C) /\ \A c \in C : \E a \in 1 .. Len(K) : K[a] = c
      /\ \A a, b \in 1 .. Len(K) : a < b => Min(Passing(W, K[a])) < Min(Passing(W, K[b]))
  BY DEF Ordered
<1>3. \A c \in C : c \in D /\ c \in Seq(S) /\ c # <<>> /\ Front(c) = p /\ Passing(W, c) # {}
  BY DEF Below, Paths
<1>4. rank \in [C -> Nat]
  <2> SUFFICES ASSUME NEW c \in C PROVE Min(Passing(W, c)) \in Nat
    OBVIOUS
  <2>1. Passing(W, c) # {}
    BY <1>3
  <2>2. Passing(W, c) \in SUBSET Nat
    BY DEF Passing
  <2>3. Min(Passing(W, c)) \in Passing(W, c)
    BY <2>1, <2>2, Least
  <2> QED
    BY <2>2, <2>3
<1>5. \A c \in C : rank[c] = Min(Passing(W, c))
  OBVIOUS
<1>6. \A i \in 1 .. n : list[i] \in D
  BY <1>1
<1>7. ASSUME NEW i \in 1 .. n PROVE i \in places <=> list[i] \in C
  BY <1>1, <1>6 DEF Below
<1>8. ASSUME NEW c \in C PROVE \E i \in 1 .. n : list[i] = c
  BY <1>3
<1>9. PICK m : Takes(list, places, Len(list), v, m)
  <2> HIDE DEF D, places
  <2> QED
    BY <1>1, SelectedTakes
<1>10. v \in Seq(D)
  <2> HIDE DEF D, places
  <2> QED
    BY <1>1, SelectedTakes
<1> HIDE DEF places, C, rank, D, v
<1>11. /\ m \in [1 .. Len(v) -> places \cap (1 .. n)]
       /\ \A a, b \in 1 .. Len(v) : a < b => m[a] < m[b]
       /\ \A j \in places \cap (1 .. n) : \E a \in 1 .. Len(v) : m[a] = j
       /\ \A a \in 1 .. Len(v) : v[a] = list[m[a]]
  BY <1>1, <1>9 DEF Takes
<1>12. \A a \in 1 .. Len(v) : m[a] \in 1 .. n /\ m[a] \in places
  BY <1>11
<1>13. \A a \in 1 .. Len(v) : v[a] \in C
  BY <1>7, <1>11, <1>12
<1>14. v \in Seq(C)
  <2>1. v = [a \in 1 .. Len(v) |-> v[a]] /\ Len(v) \in Nat
    BY <1>10
  <2> QED
    BY <1>13, <2>1
<1>15. ASSUME NEW c \in C PROVE \E a \in 1 .. Len(v) : v[a] = c
  <2>1. PICK i \in 1 .. n : list[i] = c
    BY <1>8
  <2>2. i \in places
    BY <1>7, <2>1
  <2>3. PICK a \in 1 .. Len(v) : m[a] = i
    BY <1>11, <2>2
  <2> QED
    BY <1>11, <2>1, <2>3
<1>16. ASSUME NEW a \in 1 .. Len(v), NEW b \in 1 .. Len(v), a < b
       PROVE  rank[v[a]] < rank[v[b]]
  <2> DEFINE x == v[a]
             y == v[b]
  <2>1. Before(group, x, y)
    BY <1>1, <1>11, <1>12, <1>16
  <2>2. x \in C /\ y \in C
    BY <1>13
  <2> HIDE DEF x, y
  <2>3. x \in Seq(S) /\ y \in Seq(S) /\ x # <<>> /\ y # <<>> /\ Front(x) = Front(y)
    BY <1>3, <2>2
  <2>4. Min(Passing(W, x)) < Min(Passing(W, y))
    BY <2>1, <2>3, BeforeOfBranches
  <2>5. rank[x] < rank[y]
    BY <1>5, <2>2, <2>4
  <2> QED
    BY <2>5 DEF x, y
<1>17. ASSUME NEW a \in 1 .. Len(K), NEW b \in 1 .. Len(K), a < b
       PROVE  rank[K[a]] < rank[K[b]]
  <2>1. K[a] \in C /\ K[b] \in C
    <3>1. K \in Seq(C) /\ a \in 1 .. Len(K) /\ b \in 1 .. Len(K)
      BY <1>2
    <3> QED
      BY <3>1
  <2> QED
    BY <1>2, <1>5, <1>17, <2>1
<1>18. Ranked(C, rank, K) /\ Ranked(C, rank, v)
  BY <1>2, <1>14, <1>15, <1>16, <1>17 DEF Ranked
<1>19. K = v
  BY <1>4, <1>18, SameOrder
<1> QED
  BY <1>19 DEF Following, v, places

Signatures == {Signature(m) : m \in Messages}

LEMMA PathType ==
    ASSUME NEW r \in Rows
    PROVE  /\ Path(r) \in Seq(Signatures) /\ Said(r) \in Seq(Messages)
           /\ Len(Path(r)) = Len(Said(r)) /\ r.id \in Nat
<1>1. /\ r.messages \in Seq(Messages) /\ r.response \in Messages \cup {Null}
      /\ r.id \in 1 .. MaxRows
  BY DEF Rows
<1>2. Said(r) \in Seq(Messages)
  <2>1. CASE r.response = Null
    BY <1>1, <2>1 DEF Said
  <2>2. CASE r.response # Null
    <3>1. r.response \in Messages
      BY <1>1, <2>2
    <3> QED
      BY <1>1, <2>2, <3>1, AppendProperties DEF Said
  <2> QED
    BY <2>1, <2>2
<1>3. r.id \in Nat
  BY <1>1, BoundsAssumption
<1> DEFINE s == Said(r)
<1> HIDE DEF s
<1>4. s \in Seq(Messages) /\ DOMAIN s = 1 .. Len(s) /\ Len(s) \in Nat
  BY <1>2 DEF s
<1>5. \A i \in 1 .. Len(s) : Signature(s[i]) \in Signatures
  BY <1>4 DEF Signatures
<1>6. Path(r) = [i \in 1 .. Len(s) |-> Signature(s[i])]
  BY <1>4 DEF Path, s
<1>7. Path(r) \in Seq(Signatures) /\ Len(Path(r)) = Len(s)
  BY <1>4, <1>5, <1>6
<1> QED
  BY <1>2, <1>3, <1>7 DEF s

\* The paths of a group's rows.
PathsOf(group) == [i \in 1 .. Len(group) |-> Path(group[i])]

LEMMA PathsOfType ==
    ASSUME NEW group \in Seq(Rows)
    PROVE  /\ PathsOf(group) \in Seq(Seq(Signatures)) /\ Len(PathsOf(group)) = Len(group)
           /\ DOMAIN group = 1 .. Len(PathsOf(group))
           /\ \A i \in 1 .. Len(PathsOf(group)) :
                 PathsOf(group)[i] = Path(group[i]) /\ group[i].id \in Nat
<1> DEFINE W == PathsOf(group)
<1>1. /\ DOMAIN group = 1 .. Len(group) /\ Len(group) \in Nat
      /\ \A i \in 1 .. Len(group) : group[i] \in Rows
  OBVIOUS
<1>2. \A i \in 1 .. Len(group) : Path(group[i]) \in Seq(Signatures) /\ group[i].id \in Nat
  BY <1>1, PathType
<1>3. W = [i \in 1 .. Len(group) |-> Path(group[i])]
  BY DEF PathsOf
<1> HIDE DEF W
<1>4. W \in Seq(Seq(Signatures)) /\ Len(W) = Len(group)
  BY <1>1, <1>2, <1>3
<1>5. \A i \in 1 .. Len(group) : W[i] = Path(group[i])
  BY <1>3
<1> QED
  BY <1>1, <1>2, <1>4, <1>5 DEF W

\* What TreeOfWhatWasSaid says of a group.
SaysWhatWasSaid(group) ==
    LET tree == Tree(group)
        list == ToList(tree)
        through(p) == {i \in DOMAIN group : IsPrefix(p, Path(group[i]))}
    IN  /\ ToSet(list) = (UNION {Prefixes(Path(group[i])) : i \in DOMAIN group}) \ {<<>>}
        /\ \A i, j \in DOMAIN list : i < j => Before(group, list[i], list[j])
        /\ \A p \in ToSet(list) :
              /\ tree.nodes[p].count = Cardinality(through(p))
              /\ tree.nodes[p].first = group[Min(through(p))].id
              /\ tree.nodes[p].last = group[Max(through(p))].id
              /\ tree.nodes[p].children =
                    Selected(list, {i \in DOMAIN list : Front(list[i]) = p})

\* Whatever rows a group has, its tree and its list say what was said in it.
LEMMA TreeSays ==
    ASSUME NEW group \in Seq(Rows)
    PROVE  SaysWhatWasSaid(group)
<1> DEFINE S == Signatures
           W == PathsOf(group)
           D == Paths(S, W)
           tree == Tree(group)
           list == ToList(tree)
           n == Len(list)
           through(p) == {i \in DOMAIN group : IsPrefix(p, Path(group[i]))}
<1>1. /\ W \in Seq(Seq(S)) /\ Len(group) = Len(W) /\ DOMAIN group = 1 .. Len(W)
      /\ \A i \in 1 .. Len(W) : W[i] = Path(group[i]) /\ group[i].id \in Nat
  BY PathsOfType
<1> HIDE DEF W, S
<1>2. IsTree(S, group, W, tree)
  BY <1>1, TreeIs
<1> HIDE DEF tree
<1>3. /\ \E next : Walked(D, group, n, list, next)
      /\ \A q \in D : \E a \in 1 .. n : list[a] = q
  <2>1. Lists(D, group, list)
    BY <1>1, <1>2, ListIs
  <2> QED
    BY <2>1 DEF Lists
<1>4. PICK next : Walked(D, group, n, list, next)
  BY <1>3
<1> HIDE DEF D, list
<1>5. list \in Seq(D) /\ \A a, b \in 1 .. n : a < b => Before(group, list[a], list[b])
  BY <1>4 DEF Walked
<1>6. n \in Nat /\ DOMAIN list = 1 .. n /\ \A a \in 1 .. n : list[a] \in D
  BY <1>5
<1> HIDE DEF n
<1>7. ToSet(list) = D
  <2>1. \A q : q \in ToSet(list) <=> \E a \in 1 .. n : list[a] = q
    BY <1>6 DEF ToSet
  <2> QED
    BY <1>3, <1>6, <2>1
<1>8. ToSet(list) = (UNION {Prefixes(Path(group[i])) : i \in DOMAIN group}) \ {<<>>}
  <2>1. ASSUME NEW q \in D
        PROVE  q # <<>> /\ \E i \in DOMAIN group : q \in Prefixes(Path(group[i]))
    <3>1. q \in Seq(S) /\ q # <<>> /\ Passing(W, q) # {}
      BY DEF D, Paths
    <3>2. PICK i \in 1 .. Len(W) : IsPrefix(q, W[i])
      BY <3>1 DEF Passing
    <3>3. W[i] \in Seq(S)
      BY <1>1
    <3>4. q = SubSeq(W[i], 1, Len(q)) /\ Len(q) \in 0 .. Len(W[i])
      BY <3>1, <3>2, <3>3, PrefixIsBeginning
    <3>5. q \in Prefixes(W[i])
      BY <3>4 DEF Prefixes
    <3> QED
      BY <1>1, <3>1, <3>5
  <2>2. ASSUME NEW q, q # <<>>, NEW i \in DOMAIN group, q \in Prefixes(Path(group[i]))
        PROVE  q \in D
    <3>1. i \in 1 .. Len(W) /\ W[i] = Path(group[i]) /\ W[i] \in Seq(S)
      BY <1>1
    <3> DEFINE w == W[i]
    <3>2. w \in Seq(S) /\ w = Path(group[i])
      BY <3>1
    <3>3. PICK l \in 0 .. Len(w) : q = SubSeq(w, 1, l)
      BY <2>2, <3>2 DEF Prefixes
    <3> HIDE DEF w
    <3>4. q \in Seq(S) /\ IsPrefix(q, w)
      BY <3>2, <3>3, BeginningIs, BeginningIsPrefix
    <3>5. i \in Passing(W, q)
      BY <3>1, <3>4 DEF Passing, w
    <3> QED
      BY <2>2, <3>4, <3>5 DEF D, Paths
  <2> QED
    BY <1>7, <2>1, <2>2
<1>9. \A i, j \in DOMAIN list : i < j => Before(group, list[i], list[j])
  BY <1>5, <1>6
<1>10. ASSUME NEW p \in D
       PROVE  /\ tree.nodes[p].count = Cardinality(through(p))
              /\ tree.nodes[p].first = group[Min(through(p))].id
              /\ tree.nodes[p].last = group[Max(through(p))].id
  <2>1. through(p) = Passing(W, p)
    BY <1>1 DEF Passing
  <2>2. Tells(group, tree.nodes[p], Passing(W, p))
    BY <1>2 DEF IsTree, D
  <2> HIDE DEF through
  <2> QED
    BY <2>1, <2>2 DEF Tells
<1>11. ASSUME NEW p \in D
       PROVE  tree.nodes[p].children = Selected(list, {i \in DOMAIN list : Front(list[i]) = p})
  <2> DEFINE K == tree.nodes[p].children
  <2>1. Ordered(W, K, Below(D, p))
    BY <1>2 DEF IsTree, D
  <2> HIDE DEF K
  <2>2. K = Following(list, p)
    BY <1>1, <1>3, <1>4, <1>6, <2>1, ChildrenAre DEF D
  <2> QED
    BY <2>2 DEF Following, K
<1>12. \A p \in ToSet(list) :
          /\ tree.nodes[p].count = Cardinality(through(p))
          /\ tree.nodes[p].first = group[Min(through(p))].id
          /\ tree.nodes[p].last = group[Max(through(p))].id
          /\ tree.nodes[p].children =
                Selected(list, {i \in DOMAIN list : Front(list[i]) = p})
  <2> HIDE DEF through
  <2> QED
    BY <1>7, <1>10, <1>11
<1> QED
  BY <1>8, <1>9, <1>12 DEF SaysWhatWasSaid, list, tree

\* The rows of a group are rows.
LEMMA RowsOfType ==
    ASSUME rows \in Seq(Rows), NEW mode, NEW key
    PROVE  RowsOf(mode, key) \in Seq(Rows)
<1> DEFINE places == {i \in DOMAIN rows : GroupKey(mode, rows[i]) = key}
<1> HIDE DEF places
<1>1. Selected(rows, places) \in Seq(Rows)
  BY SelectedTakes
<1> QED
  BY <1>1 DEF RowsOf, places

\* So they do for the groups of the database.
LEMMA TreeOfWhatWasSaidHolds == rows \in Seq(Rows) => TreeOfWhatWasSaid
<1> SUFFICES ASSUME rows \in Seq(Rows), NEW mode \in Modes, NEW key \in Keys(mode)
             PROVE  SaysWhatWasSaid(RowsOf(mode, key))
  BY DEF TreeOfWhatWasSaid, SaysWhatWasSaid
<1> QED
  BY RowsOfType, TreeSays

----------------------------------------------------------------------------
(* Rows and histories *)

Columns == (Texts \cup {Null}) \ {Absent}

\* The first message of a role, and the column it makes.
LEMMA FirstContentIs ==
    ASSUME NEW messages \in Seq(Messages), NEW role, NEW n \in 1 .. Len(messages),
           messages[n].role = role, \A i \in 1 .. n - 1 : messages[i].role # role
    PROVE  FirstContent(messages, role) = Content(messages[n])
<1> DEFINE said == {i \in DOMAIN messages : messages[i].role = role}
<1>1. said \in SUBSET Nat /\ n \in said /\ \A i \in said : n <= i
  <2>1. DOMAIN messages = 1 .. Len(messages) /\ Len(messages) \in Nat
    OBVIOUS
  <2>2. ASSUME NEW i \in said PROVE n <= i
    <3>1. i \in 1 .. Len(messages) /\ messages[i].role = role
      BY <2>1
    <3>2. ~ (i \in 1 .. n - 1)
      BY <3>1
    <3> QED
      BY <2>1, <3>1, <3>2
  <2> QED
    BY <2>1, <2>2
<1>2. FirstContent(messages, role) =
        IF said = {} THEN Null ELSE Content(messages[Min(said)])
  BY DEF FirstContent
<1> HIDE DEF said
<1>3. Min(said) = n
  BY <1>1, LeastIs
<1> QED
  BY <1>1, <1>2, <1>3

\* A role nobody has makes no column.
LEMMA NoContent ==
    ASSUME NEW messages \in Seq(Messages), NEW role,
           \A i \in 1 .. Len(messages) : messages[i].role # role
    PROVE  FirstContent(messages, role) = Null
<1>1. {i \in DOMAIN messages : messages[i].role = role} = {}
  OBVIOUS
<1> QED
  BY <1>1 DEF FirstContent

LEMMA ContentType ==
    ASSUME NEW m \in Messages
    PROVE  Content(m) \in Columns
<1>1. m.content \in Texts \cup {Null, Absent} /\ Null # Absent
  BY NullAssumption DEF Messages
<1> QED
  BY <1>1 DEF Content, Columns

LEMMA FirstContentType ==
    ASSUME NEW messages \in Seq(Messages), NEW role
    PROVE  FirstContent(messages, role) \in Columns
<1> DEFINE said == {i \in DOMAIN messages : messages[i].role = role}
<1>1. FirstContent(messages, role) =
        IF said = {} THEN Null ELSE Content(messages[Min(said)])
  BY DEF FirstContent
<1>2. Null \in Columns
  BY NullAssumption DEF Columns
<1>3. ASSUME said # {} PROVE Content(messages[Min(said)]) \in Columns
  <2>1. said \in SUBSET Nat /\ \A i \in said : messages[i] \in Messages
    OBVIOUS
  <2> HIDE DEF said
  <2>2. Min(said) \in said
    BY <1>3, <2>1, Least
  <2> QED
    BY <2>1, <2>2, ContentType
<1> QED
  BY <1>1, <1>2, <1>3

LEMMA AnswersAreMessages ==
    \A a \in Answers : a \in Messages /\ a.role = "assistant" /\ a # Null
BY AnswersAssumption, NullAssumption

LEMMA RowType ==
    ASSUME NEW id \in 1 .. MaxRows, NEW c \in Chats, NEW messages \in Seq(Messages),
           NEW response \in Answers \cup {Null}
    PROVE  Row(id, c, messages, response) \in Rows
<1>1. response \in Messages \cup {Null}
  BY AnswersAreMessages
<1>2. \A role : FirstContent(messages, role) \in Columns
  BY FirstContentType
<1>3. FirstAssistant(messages, response) \in Columns
  <2>1. response # Null => Content(response) \in Columns
    BY <1>1, ContentType
  <2> QED
    BY <1>2, <2>1 DEF FirstAssistant
<1>4. /\ FirstContent(messages, "system") \in Columns
      /\ FirstContent(messages, "user") \in Columns
  BY <1>2
<1> QED
  BY <1>1, <1>3, <1>4 DEF Row, Rows, Columns

\* What an inserted row leaves and adds.
Inserted(S, s, e, t) ==
    /\ t \in Seq(S) /\ Len(t) = Len(s) + 1
    /\ \A j \in 1 .. Len(t) : t[j] = e \/ \E k \in 1 .. Len(s) : t[j] = s[k]
    /\ \A k \in 1 .. Len(s) : \E j \in 1 .. Len(t) : t[j] = s[k]
    /\ \E j \in 1 .. Len(t) : t[j] = e

\* InsertAt puts one row among the others.
LEMMA InsertAtInserts ==
    ASSUME NEW S, NEW s \in Seq(S), NEW i \in 1 .. Len(s) + 1, NEW e \in S
    PROVE  Inserted(S, s, e, InsertAt(s, i, e))
<1> DEFINE n == Len(s)
           u == SubSeq(s, 1, i - 1)
           v == SubSeq(s, i, n)
           w == <<e>>
           x == u \o w
           t == x \o v
<1>1. n \in Nat /\ i \in Nat /\ 1 <= i /\ i <= n + 1
  OBVIOUS
<1>2. u \in Seq(S) /\ Len(u) = i - 1 /\ \A j \in 1 .. i - 1 : u[j] = s[j]
  <2>1. i - 1 \in 0 .. Len(s)
    BY <1>1
  <2> QED
    BY <2>1, BeginningIs
<1>3. v \in Seq(S) /\ Len(v) = n - i + 1 /\ \A j \in 1 .. n - i + 1 : v[j] = s[j + i - 1]
  <2>1. v \in Seq(S) /\ Len(v) = n - i + 1
    BY <1>1
  <2>2. ASSUME NEW j \in 1 .. n - i + 1 PROVE v[j] = s[j + i - 1]
    BY <1>1, <2>1
  <2> QED
    BY <2>1, <2>2
<1>4. w \in Seq(S) /\ Len(w) = 1 /\ w[1] = e
  OBVIOUS
<1> HIDE DEF u, v, w, n
<1>5. /\ x \in Seq(S) /\ Len(x) = i /\ x[i] = e
      /\ \A j \in 1 .. i - 1 : x[j] = s[j]
  <2>1. x \in Seq(S) /\ Len(x) = Len(u) + Len(w)
    BY <1>2, <1>4, ConcatProperties
  <2>2. Len(x) = i
    BY <1>1, <1>2, <1>4, <2>1
  <2>3. x[i] = e
    <3>1. i \in 1 .. Len(u) + Len(w) /\ ~ (i <= Len(u)) /\ i - Len(u) = 1
      BY <1>1, <1>2, <1>4
    <3>2. \A j \in 1 .. Len(u) + Len(w) : x[j] = IF j <= Len(u) THEN u[j] ELSE w[j - Len(u)]
      BY <1>2, <1>4, ConcatProperties
    <3>3. x[i] = IF i <= Len(u) THEN u[i] ELSE w[i - Len(u)]
      BY <3>1, <3>2
    <3> QED
      BY <1>4, <3>1, <3>3
  <2>4. \A j \in 1 .. i - 1 : x[j] = s[j]
    BY <1>1, <1>2, <1>4
  <2> QED
    BY <2>1, <2>2, <2>3, <2>4
<1> HIDE DEF x
<1>6. /\ t \in Seq(S) /\ Len(t) = n + 1 /\ t[i] = e
      /\ \A j \in 1 .. i - 1 : t[j] = s[j]
      /\ \A j \in i + 1 .. n + 1 : t[j] = s[j - 1]
  <2>1. t \in Seq(S) /\ Len(t) = Len(x) + Len(v)
    BY <1>3, <1>5, ConcatProperties
  <2>2. Len(t) = n + 1
    BY <1>1, <1>3, <1>5, <2>1
  <2>3. \A j \in 1 .. i : t[j] = x[j]
    BY <1>1, <1>3, <1>5
  <2>4. ASSUME NEW j \in i + 1 .. n + 1 PROVE t[j] = s[j - 1]
    <3>1. j - i \in 1 .. n - i + 1 /\ (j - i) + i - 1 = j - 1
      BY <1>1
    <3>2. t[j] = v[j - i]
      BY <1>1, <1>3, <1>5
    <3>3. v[j - i] = s[(j - i) + i - 1]
      BY <1>3, <3>1
    <3> QED
      BY <3>1, <3>2, <3>3
  <2>5. i \in 1 .. i /\ \A j \in 1 .. i - 1 : j \in 1 .. i
    BY <1>1
  <2> QED
    BY <1>5, <2>1, <2>2, <2>3, <2>4, <2>5
<1> HIDE DEF t
<1>7. ASSUME NEW j \in 1 .. n + 1 PROVE t[j] = e \/ \E k \in 1 .. n : t[j] = s[k]
  <2>1. CASE j = i
    BY <1>6, <2>1
  <2>2. CASE j < i
    <3>1. j \in 1 .. i - 1 /\ j \in 1 .. n
      BY <1>1, <2>2
    <3> QED
      BY <1>6, <3>1
  <2>3. CASE j > i
    <3>1. j \in i + 1 .. n + 1 /\ j - 1 \in 1 .. n
      BY <1>1, <2>3
    <3> QED
      BY <1>6, <3>1
  <2> QED
    BY <1>1, <2>1, <2>2, <2>3
<1>8. ASSUME NEW k \in 1 .. n PROVE \E j \in 1 .. n + 1 : t[j] = s[k]
  <2>1. CASE k < i
    <3>1. k \in 1 .. i - 1 /\ k \in 1 .. n + 1
      BY <1>1, <2>1
    <3> QED
      BY <1>6, <3>1
  <2>2. CASE k >= i
    <3>1. k + 1 \in i + 1 .. n + 1 /\ k + 1 \in 1 .. n + 1 /\ (k + 1) - 1 = k
      BY <1>1, <2>2
    <3> QED
      BY <1>6, <3>1
  <2> QED
    BY <1>1, <2>1, <2>2
<1>9. i \in 1 .. n + 1
  BY <1>1
<1>10. Inserted(S, s, e, t)
  BY <1>6, <1>7, <1>8, <1>9 DEF Inserted, n
<1>11. t = InsertAt(s, i, e)
  BY DEF InsertAt, t, x, u, v, w, n
<1> QED
  BY <1>10, <1>11

----------------------------------------------------------------------------
(* The invariant *)

\* messages goes on from the opening of chat c, and has no other system message.
Begins(c, messages) ==
    /\ IsPrefix(Opening(c), messages)
    /\ \A i \in 1 .. Len(messages) : i > Len(Opening(c)) => messages[i].role # "system"

HistoriesBegin == \A c \in Chats : history[c] # <<>> => Begins(c, history[c])

\* A row's columns are what the triggers take from it.
IsRow(r) ==
    /\ r = Row(r.id, r.chat, r.messages, r.response)
    /\ r.response \in Answers \cup {Null}
    /\ Begins(r.chat, r.messages)

RowsBegin == \A i \in DOMAIN rows : IsRow(rows[i])

IInv == TypeOK /\ HistoriesBegin /\ RowsBegin

\* s opens chat c.
Opens(c, s) ==
    /\ s \in Seq(Messages) /\ Len(s) \in 1 .. 2
    /\ s[Len(s)] = Message("user", opening[c].user, Absent, FALSE)
    /\ opening[c].system = Absent => Len(s) = 1
    /\ opening[c].system # Absent =>
          Len(s) = 2 /\ s[1] = Message("system", opening[c].system, Absent, FALSE)

\* What a chat sends first: one or two messages.
LEMMA OpeningType ==
    ASSUME TypeOK, NEW c \in Chats
    PROVE  Opens(c, Opening(c))
<1> DEFINE o == opening[c]
           user == Message("user", o.user, Absent, FALSE)
           system == Message("system", o.system, Absent, FALSE)
           one == <<user>>
           two == <<system, user>>
<1>1. o \in Openings
  BY DEF TypeOK
<1>2. o.system \in Texts /\ o.user \in Texts
  BY <1>1 DEF Texts
<1>3. user \in Messages /\ system \in Messages
  BY <1>2 DEF Messages, Message
<1>4. Opening(c) = IF o.system = Absent THEN one ELSE two
  BY DEF Opening
<1> HIDE DEF user, system
<1>5. one \in Seq(Messages) /\ Len(one) = 1 /\ one[1] = user
  BY <1>3
<1>6. two \in Seq(Messages) /\ Len(two) = 2 /\ two[1] = system /\ two[2] = user
  BY <1>3
<1> HIDE DEF one, two
<1>7. CASE o.system = Absent
  <2>1. Opens(c, one)
    <3>1. Len(one) \in 1 .. 2 /\ one[Len(one)] = user
      BY <1>5
    <3> QED
      BY <1>5, <1>7, <3>1 DEF Opens, user
  <2> QED
    BY <1>4, <1>7, <2>1
<1>8. CASE o.system # Absent
  <2>1. Opens(c, two)
    <3>1. Len(two) \in 1 .. 2 /\ two[Len(two)] = user
      BY <1>6
    <3> QED
      BY <1>6, <1>8, <3>1 DEF Opens, user, system
  <2> QED
    BY <1>4, <1>8, <2>1
<1> QED
  BY <1>7, <1>8

LEMMA OpeningSequence ==
    ASSUME TypeOK, NEW c \in Chats
    PROVE  Opening(c) \in Seq(Messages) /\ Len(Opening(c)) \in Nat \ {0}
<1> DEFINE s == Opening(c)
<1>1. Opens(c, s)
  BY OpeningType
<1> HIDE DEF s
<1>2. s \in Seq(Messages) /\ Len(s) \in Nat \ {0}
  BY <1>1 DEF Opens
<1> QED
  BY <1>2 DEF s

\* The roles of an opening.
LEMMA OpeningRoles ==
    ASSUME TypeOK, NEW c \in Chats, NEW i \in 1 .. Len(Opening(c))
    PROVE  Opening(c)[i].role # "assistant"
<1> DEFINE s == Opening(c)
<1>1. Opens(c, s)
  BY OpeningType
<1>2. i \in 1 .. Len(s)
  OBVIOUS
<1> HIDE DEF s
<1>3. /\ s[Len(s)].role = "user" /\ Len(s) \in 1 .. 2
      /\ opening[c].system = Absent => Len(s) = 1
      /\ opening[c].system # Absent => Len(s) = 2 /\ s[1].role = "system"
  BY <1>1 DEF Opens, Message
<1>4. s[i].role # "assistant"
  <2>1. CASE opening[c].system = Absent
    <3>1. i = Len(s)
      BY <1>2, <1>3, <2>1
    <3> QED
      BY <1>3, <3>1
  <2>2. CASE opening[c].system # Absent
    <3>1. i = 1 \/ i = Len(s)
      BY <1>2, <1>3, <2>2
    <3>2. CASE i = 1
      BY <1>3, <2>2, <3>2
    <3>3. CASE i = Len(s)
      BY <1>3, <3>3
    <3> QED
      BY <3>1, <3>2, <3>3
  <2> QED
    BY <2>1, <2>2
<1> QED
  BY <1>4 DEF s

\* A history goes on from its opening when a message is added to it, unless a system
\* message is.
LEMMA BeginsLonger ==
    ASSUME TypeOK, NEW c \in Chats, NEW messages \in Seq(Messages), Begins(c, messages),
           NEW m \in Messages, m.role # "system"
    PROVE  Begins(c, Append(messages, m)) /\ Append(messages, m) \in Seq(Messages)
<1> DEFINE n == Len(messages)
           t == Append(messages, m)
           o == Opening(c)
<1>1. /\ t \in Seq(Messages) /\ Len(t) = n + 1 /\ t[n + 1] = m /\ n \in Nat
      /\ \A i \in 1 .. n : t[i] = messages[i]
  BY AppendProperties
<1>2. o \in Seq(Messages) /\ Len(o) \in Nat
  BY OpeningSequence
<1> HIDE DEF n, t, o
<1>3. Len(o) <= n /\ \A i \in 1 .. Len(o) : o[i] = messages[i]
  BY <1>2, PrefixIs DEF Begins, n, o
<1>4. Len(o) <= Len(t) /\ \A i \in 1 .. Len(o) : o[i] = t[i]
  BY <1>1, <1>2, <1>3
<1>5. IsPrefix(o, t)
  BY <1>1, <1>2, <1>4, PrefixIs
<1>6. ASSUME NEW i \in 1 .. Len(t), i > Len(o) PROVE t[i].role # "system"
  <2>1. CASE i = n + 1
    BY <1>1, <2>1
  <2>2. CASE i # n + 1
    <3>1. i \in 1 .. n
      BY <1>1, <2>2
    <3> QED
      BY <1>1, <1>6, <3>1 DEF Begins, n, o
  <2> QED
    BY <2>1, <2>2
<1> QED
  BY <1>1, <1>5, <1>6 DEF Begins, t, o

\* And when it is cut behind the opening.
LEMMA BeginsShorter ==
    ASSUME TypeOK, NEW c \in Chats, NEW messages \in Seq(Messages), Begins(c, messages),
           NEW n \in 1 .. Len(messages), n >= Len(Opening(c))
    PROVE  Begins(c, SubSeq(messages, 1, n)) /\ SubSeq(messages, 1, n) \in Seq(Messages)
<1> DEFINE t == SubSeq(messages, 1, n)
           o == Opening(c)
<1>1. n \in 0 .. Len(messages) /\ n \in Nat
  OBVIOUS
<1>2. /\ t \in Seq(Messages) /\ Len(t) = n
      /\ \A i \in 1 .. n : t[i] = messages[i]
  BY <1>1, BeginningIs
<1>3. o \in Seq(Messages) /\ Len(o) \in Nat
  BY OpeningSequence
<1>4. \A i \in 1 .. n : i \in 1 .. Len(messages)
  OBVIOUS
<1> HIDE DEF t, o
<1>5. \A i \in 1 .. Len(o) : o[i] = messages[i]
  BY <1>3, PrefixIs DEF Begins, o
<1>6. Len(o) <= Len(t) /\ \A i \in 1 .. Len(o) : o[i] = t[i]
  BY <1>1, <1>2, <1>3, <1>5 DEF o
<1>7. IsPrefix(o, t)
  BY <1>2, <1>3, <1>6, PrefixIs
<1>8. \A i \in 1 .. Len(t) : i > Len(o) => t[i].role # "system"
  BY <1>2, <1>4 DEF Begins, o
<1> QED
  BY <1>2, <1>7, <1>8 DEF Begins, t, o

\* What a chat sends begins as the chat does.
LEMMA RequestsBegin ==
    ASSUME IInv, NEW c \in Chats, NEW messages \in Requests(c)
    PROVE  messages \in Seq(Messages) /\ Begins(c, messages)
<1> DEFINE h == history[c]
           o == Opening(c)
           upTo(n) == SubSeq(h, 1, n)
           turn(n) == IF h[n].tools # Absent THEN {Message("tool", "result", Absent, FALSE)}
                      ELSE {Message("user", t, Absent, FALSE) : t \in FollowUps}
<1>1. TypeOK /\ h \in Seq(Messages) /\ (h # <<>> => Begins(c, h))
  BY DEF IInv, TypeOK, HistoriesBegin
<1>2. o \in Seq(Messages) /\ Len(o) \in Nat \ {0}
  BY <1>1, OpeningSequence
<1>3. CASE h = <<>>
  <2>1. messages = o
    BY <1>3 DEF Requests
  <2> HIDE DEF o
  <2>2. IsPrefix(o, o) /\ \A i \in 1 .. Len(o) : ~ (i > Len(o))
    BY <1>2, PrefixOfItself
  <2> QED
    BY <1>2, <2>1, <2>2 DEF Begins, o
<1>4. CASE h # <<>>
  <2>1. Begins(c, h) /\ DOMAIN h = 1 .. Len(h) /\ Len(h) \in Nat
    BY <1>1, <1>4
  <2>2. \/ \E n \in DOMAIN h : n >= Len(o) /\ messages = upTo(n)
        \/ \E n \in DOMAIN h : h[n].role = "assistant" /\ \E m \in turn(n) :
                messages = Append(upTo(n), m)
    BY <1>4 DEF Requests
  <2> HIDE DEF h, o, turn
  <2>3. ASSUME NEW n \in DOMAIN h, n >= Len(o)
        PROVE  upTo(n) \in Seq(Messages) /\ Begins(c, upTo(n))
    BY <1>1, <2>1, <2>3, BeginsShorter DEF o
  <2>4. ASSUME NEW n \in DOMAIN h, h[n].role = "assistant" PROVE n >= Len(o)
    <3> SUFFICES ASSUME n < Len(o) PROVE FALSE
      BY <1>2, <2>1
    <3>1. n \in 1 .. Len(o)
      BY <1>2, <2>1
    <3>2. IsPrefix(o, h)
      BY <2>1 DEF Begins, o
    <3>3. o[n] = h[n]
      BY <1>1, <1>2, <3>1, <3>2, PrefixIs
    <3>4. o[n].role # "assistant"
      BY <1>1, <3>1, OpeningRoles DEF o
    <3> QED
      BY <2>4, <3>3, <3>4
  <2>5. ASSUME NEW n, NEW m \in turn(n) PROVE m \in Messages /\ m.role # "system"
    <3>1. "result" \in Texts /\ FollowUps \subseteq Texts
      BY DEF Texts
    <3>2. \A t \in Texts : /\ Message("user", t, Absent, FALSE) \in Messages
                           /\ Message("user", t, Absent, FALSE).role = "user"
      BY DEF Messages, Message
    <3>3. /\ Message("tool", "result", Absent, FALSE) \in Messages
          /\ Message("tool", "result", Absent, FALSE).role = "tool"
      BY <3>1 DEF Messages, Message
    <3>4. \/ m = Message("tool", "result", Absent, FALSE)
          \/ \E t \in FollowUps : m = Message("user", t, Absent, FALSE)
      BY DEF turn
    <3> QED
      BY <3>1, <3>2, <3>3, <3>4
  <2>6. CASE \E n \in DOMAIN h : n >= Len(o) /\ messages = upTo(n)
    BY <2>3, <2>6
  <2>7. CASE \E n \in DOMAIN h : h[n].role = "assistant" /\ \E m \in turn(n) :
                messages = Append(upTo(n), m)
    <3>1. PICK n \in DOMAIN h : h[n].role = "assistant" /\ \E m \in turn(n) :
                messages = Append(upTo(n), m)
      BY <2>7
    <3>2. PICK m \in turn(n) : messages = Append(upTo(n), m)
      BY <3>1
    <3>3. upTo(n) \in Seq(Messages) /\ Begins(c, upTo(n))
      BY <2>3, <2>4, <3>1
    <3>4. m \in Messages /\ m.role # "system"
      BY <2>5
    <3> HIDE DEF upTo
    <3> QED
      BY <1>1, <3>2, <3>3, <3>4, BeginsLonger
  <2> QED
    BY <2>2, <2>6, <2>7
<1> QED
  BY <1>3, <1>4

\* A repeated answer is an assistant's message with the same text.
LEMMA EchoType ==
    ASSUME NEW a \in Answers, NEW echo \in Echoes(a)
    PROVE  echo \in Messages /\ echo.role = "assistant" /\ Content(echo) = Content(a)
<1>1. a \in Messages /\ a.role = "assistant" /\ Null # Absent
  BY AnswersAreMessages, NullAssumption
<1>2. /\ a.content \in Texts \cup {Null, Absent}
      /\ a = [role |-> a.role, content |-> a.content, tools |-> a.tools, extra |-> a.extra]
  BY <1>1 DEF Messages
<1>3. CASE echo = a
  BY <1>1, <1>3
<1>4. CASE echo = [a EXCEPT !.extra = FALSE]
  <2>1. echo \in Messages /\ echo.role = "assistant" /\ echo.content = a.content
    BY <1>1, <1>4 DEF Messages
  <2> QED
    BY <2>1 DEF Content
<1>5. CASE echo = [a EXCEPT !.extra = FALSE, !.tools = "calls",
                            !.content = IF @ = Null THEN Absent ELSE @]
  <2>1. echo = [role |-> a.role, content |-> IF a.content = Null THEN Absent ELSE a.content,
                tools |-> "calls", extra |-> FALSE]
    BY <1>2, <1>5
  <2>2. /\ echo.role = "assistant"
        /\ echo.content = IF a.content = Null THEN Absent ELSE a.content
    BY <1>1, <2>1
  <2>3. echo \in Messages
    BY <1>1, <1>2, <2>1 DEF Messages
  <2> QED
    BY <1>1, <2>2, <2>3 DEF Content
<1> QED
  BY <1>3, <1>4, <1>5 DEF Echoes

\* The ids stay those of the rows counted.
LEMMA IdsInserted ==
    ASSUME NEW s \in Seq(Rows), NEW e \in Rows, NEW t \in Seq(Rows), Inserted(Rows, s, e, t),
           e.id = Len(s) + 1, {s[i].id : i \in DOMAIN s} = DOMAIN s
    PROVE  {t[i].id : i \in DOMAIN t} = DOMAIN t
<1> DEFINE n == Len(s)
<1>1. /\ Len(t) = n + 1 /\ n \in Nat /\ DOMAIN s = 1 .. n /\ DOMAIN t = 1 .. n + 1
      /\ \A j \in 1 .. n + 1 : t[j] = e \/ \E k \in 1 .. n : t[j] = s[k]
      /\ \A k \in 1 .. n : \E j \in 1 .. n + 1 : t[j] = s[k]
      /\ \E j \in 1 .. n + 1 : t[j] = e
      /\ e.id = n + 1
  <2>1. /\ Len(t) = Len(s) + 1
        /\ \A j \in 1 .. Len(t) : t[j] = e \/ \E k \in 1 .. Len(s) : t[j] = s[k]
        /\ \A k \in 1 .. Len(s) : \E j \in 1 .. Len(t) : t[j] = s[k]
        /\ \E j \in 1 .. Len(t) : t[j] = e
    BY Zenon DEF Inserted
  <2>2. n \in Nat /\ DOMAIN s = 1 .. n /\ Len(t) = n + 1 /\ e.id = n + 1
    BY <2>1
  <2>3. DOMAIN t = 1 .. n + 1
    BY <2>2
  <2> HIDE DEF n
  <2> QED
    BY <2>1, <2>2, <2>3 DEF n
<1>2. /\ \A k \in 1 .. n : s[k].id \in 1 .. n
      /\ \A x \in 1 .. n : \E k \in 1 .. n : s[k].id = x
  <2>1. /\ \A k \in DOMAIN s : s[k].id \in DOMAIN s
        /\ \A x \in DOMAIN s : \E k \in DOMAIN s : s[k].id = x
    BY Zenon
  <2>2. DOMAIN s = 1 .. n
    BY <1>1
  <2> HIDE DEF n
  <2> QED
    BY <2>1, <2>2
<1> HIDE DEF n
<1>3. ASSUME NEW j \in 1 .. n + 1 PROVE t[j].id \in 1 .. n + 1
  <2>1. CASE t[j] = e
    BY <1>1, <2>1
  <2>2. CASE t[j] # e
    <3>1. PICK k \in 1 .. n : t[j] = s[k]
      BY <1>1, <2>2
    <3>2. t[j].id \in 1 .. n
      BY <1>2, <3>1
    <3> QED
      BY <1>1, <3>2
  <2> QED
    BY <2>1, <2>2
<1>4. ASSUME NEW x \in 1 .. n + 1 PROVE \E j \in 1 .. n + 1 : t[j].id = x
  <2>1. CASE x = n + 1
    BY <1>1, <2>1
  <2>2. CASE x # n + 1
    <3>1. x \in 1 .. n
      BY <1>1, <2>2
    <3>2. PICK k \in 1 .. n : s[k].id = x
      BY <1>2, <3>1
    <3>3. PICK j \in 1 .. n + 1 : t[j] = s[k]
      BY <1>1
    <3> QED
      BY <3>2, <3>3
  <2> QED
    BY <2>1, <2>2
<1> DEFINE N == DOMAIN t
<1>5. \A j \in N : t[j].id \in N
  BY <1>1, <1>3
<1>6. \A x \in N : \E j \in N : t[j].id = x
  BY <1>1, <1>4
<1> HIDE DEF N
<1>7. {t[i].id : i \in N} = N
  BY <1>5, <1>6
<1> QED
  BY <1>7 DEF N

\* What a step does: chat c sends messages, is answered with response or not at all
\* and keeps h.
Sent(c, messages, response, h) ==
    /\ messages \in Seq(Messages) /\ Begins(c, messages) /\ Len(messages) <= MaxLength
    /\ response \in Answers \cup {Null}
    /\ h = messages \/ \E m \in Messages : m.role # "system" /\ h = Append(messages, m)
    /\ Len(rows) < MaxRows
    /\ \E i \in 1 .. Len(rows) + 1 :
          rows' = InsertAt(rows, i, Row(Len(rows) + 1, c, messages, response))
    /\ history' = [history EXCEPT ![c] = h]
    /\ opening' = opening

\* Every step of the system is one of a chat that goes on from its opening.
LEMMA NextSends ==
    ASSUME IInv, Next
    PROVE  \E c \in Chats : \E messages, response, h : Sent(c, messages, response, h)
<1>0. PICK c \in Chats : \E messages \in Requests(c) :
        /\ Len(messages) <= MaxLength
        /\ \/ \E a \in Answers : Exchange(c, messages, a)
           \/ Failure(c, messages)
  BY DEF Next
<1>1. PICK messages \in Requests(c) :
        /\ Len(messages) <= MaxLength
        /\ \/ \E a \in Answers : Exchange(c, messages, a)
           \/ Failure(c, messages)
  BY <1>0
<1>2. messages \in Seq(Messages) /\ Begins(c, messages)
  BY RequestsBegin
<1>3. CASE Failure(c, messages)
  <2>1. Sent(c, messages, Null, messages)
    BY <1>1, <1>2, <1>3 DEF Failure, Commit, Sent
  <2> QED
    BY <2>1
<1>4. CASE \E a \in Answers : Exchange(c, messages, a)
  <2>1. PICK a \in Answers : Exchange(c, messages, a)
    BY <1>4
  <2>2. PICK echo \in Echoes(a) : history' = [history EXCEPT ![c] = Append(messages, echo)]
    BY <2>1 DEF Exchange
  <2>3. echo \in Messages /\ echo.role # "system"
    BY EchoType
  <2>4. Sent(c, messages, a, Append(messages, echo))
    BY <1>1, <1>2, <2>1, <2>2, <2>3 DEF Exchange, Commit, Sent
  <2> QED
    BY <2>4
<1> QED
  BY <1>1, <1>3, <1>4

LEMMA InitIInv == Init => IInv
<1> SUFFICES ASSUME Init PROVE IInv
  OBVIOUS
<1> DEFINE none == <<>>
<1>1. /\ opening \in [Chats -> Openings]
      /\ history = [c \in Chats |-> none] /\ rows = none
  BY DEF Init
<1>2. none \in Seq(Messages) /\ none \in Seq(Rows) /\ Len(none) = 0 /\ DOMAIN none = {}
  OBVIOUS
<1> HIDE DEF none
<1>3. TypeOK
  BY <1>1, <1>2, BoundsAssumption DEF TypeOK
<1>4. HistoriesBegin
  BY <1>1 DEF HistoriesBegin, none
<1>5. RowsBegin
  BY <1>1, <1>2 DEF RowsBegin
<1> QED
  BY <1>3, <1>4, <1>5 DEF IInv

\* No step breaks the invariant, wherever it puts its row.
LEMMA StepIInv == IInv /\ [Next]_vars => IInv'
<1> SUFFICES ASSUME IInv, [Next]_vars PROVE IInv'
  OBVIOUS
<1>1. CASE UNCHANGED vars
  BY <1>1 DEF IInv, TypeOK, HistoriesBegin, RowsBegin, IsRow, Begins, Opening, vars
<1>2. CASE Next
  <2>0. PICK c \in Chats : \E messages, response, h : Sent(c, messages, response, h)
    BY <1>2, NextSends
  <2>1. PICK messages, response, h : Sent(c, messages, response, h)
    BY <2>0
  <2> DEFINE n == Len(rows)
             e == Row(n + 1, c, messages, response)
  <2>2. /\ messages \in Seq(Messages) /\ Begins(c, messages) /\ Len(messages) <= MaxLength
        /\ response \in Answers \cup {Null}
        /\ n < MaxRows
        /\ history' = [history EXCEPT ![c] = h] /\ opening' = opening
    BY <2>1 DEF Sent
  <2>3. PICK i \in 1 .. n + 1 : rows' = InsertAt(rows, i, e)
    BY <2>1 DEF Sent
  <2>4. /\ rows \in Seq(Rows) /\ n \in Nat /\ n + 1 \in 1 .. MaxRows
        /\ {rows[k].id : k \in DOMAIN rows} = DOMAIN rows
        /\ history \in [Chats -> Seq(Messages)]
        /\ \A d \in Chats : Len(history[d]) <= MaxLength + 1
        /\ opening \in [Chats -> Openings] /\ TypeOK
    BY <2>2, BoundsAssumption DEF IInv, TypeOK
  <2>5. e \in Rows
    BY <2>2, <2>4, RowType
  <2>6. e.id = n + 1 /\ IsRow(e)
    BY <2>2 DEF IsRow, Row
  <2> HIDE DEF e
  <2>7. Inserted(Rows, rows, e, rows')
    BY <2>3, <2>4, <2>5, InsertAtInserts DEF n
  <2>8. /\ rows' \in Seq(Rows) /\ Len(rows') = n + 1 /\ DOMAIN rows' = 1 .. n + 1
        /\ \A j \in 1 .. n + 1 : rows'[j] = e \/ \E k \in 1 .. n : rows'[j] = rows[k]
    BY <2>7 DEF Inserted
  <2>9. {rows'[j].id : j \in DOMAIN rows'} = DOMAIN rows'
    BY <2>4, <2>5, <2>6, <2>7, <2>8, IdsInserted
  <2>10. h \in Seq(Messages) /\ Len(h) <= MaxLength + 1 /\ Begins(c, h)
    <3>1. CASE h = messages
      BY <2>2, <3>1, BoundsAssumption
    <3>2. CASE h # messages
      <4>1. PICK m \in Messages : m.role # "system" /\ h = Append(messages, m)
        BY <2>1, <3>2 DEF Sent
      <4>2. Len(h) = Len(messages) + 1
        BY <2>2, <4>1, AppendProperties
      <4>3. Begins(c, h) /\ h \in Seq(Messages)
        BY <2>2, <2>4, <4>1, BeginsLonger
      <4> QED
        BY <2>2, <4>2, <4>3, BoundsAssumption
    <3> QED
      BY <3>1, <3>2
  <2>11. ASSUME NEW d \in Chats
         PROVE  /\ history'[d] \in Seq(Messages) /\ Len(history'[d]) <= MaxLength + 1
                /\ history'[d] # <<>> => Begins(d, history'[d])
    <3>1. CASE d = c
      BY <2>2, <2>4, <2>10, <3>1
    <3>2. CASE d # c
      BY <2>2, <2>4, <3>2 DEF IInv, HistoriesBegin
    <3> QED
      BY <3>1, <3>2
  <2>12. TypeOK'
    <3>1. history' \in [Chats -> Seq(Messages)]
      BY <2>2, <2>4, <2>10
    <3>2. opening' \in [Chats -> Openings]
      BY <2>2, <2>4
    <3>3. \A d \in Chats : Len(history'[d]) <= MaxLength + 1
      BY <2>11
    <3>4. Len(rows') <= MaxRows
      BY <2>4, <2>8
    <3> QED
      BY <2>8, <2>9, <3>1, <3>2, <3>3, <3>4 DEF TypeOK
  <2>13. HistoriesBegin'
    <3>1. ASSUME NEW d \in Chats, history'[d] # <<>> PROVE Begins(d, history[d])'
      <4>1. Begins(d, history'[d])
        BY <2>11, <3>1
      <4> QED
        BY <2>2, <4>1 DEF Begins, Opening
    <3> QED
      BY <3>1 DEF HistoriesBegin
  <2>14. RowsBegin'
    <3>1. ASSUME NEW j \in 1 .. n + 1 PROVE IsRow(rows'[j])
      <4>1. \A k \in 1 .. n : IsRow(rows[k])
        BY <2>4 DEF IInv, RowsBegin
      <4> QED
        BY <2>6, <2>8, <4>1
    <3>2. ASSUME NEW j \in 1 .. n + 1 PROVE IsRow(rows[j])'
      <4>1. IsRow(rows'[j])
        BY <3>1
      <4> QED
        BY <2>2, <4>1 DEF IsRow, Begins, Opening
    <3> QED
      BY <2>8, <3>2 DEF RowsBegin
  <2> QED
    BY <2>12, <2>13, <2>14 DEF IInv
<1> QED
  BY <1>1, <1>2

\* Every chat and every row begins as its chat does, and the columns of a row are
\* those the triggers take.
THEOREM Inductive == Spec => []IInv
<1> QED
  BY InitIInv, StepIInv, PTL DEF Spec

\* Type correctness, for any chats, answers and bounds.
THEOREM TypeCorrect == Spec => []TypeOK
<1>1. IInv => TypeOK
  BY DEF IInv
<1> QED
  BY <1>1, Inductive, PTL

\* The chat view is given the tree of what was said, whatever was sent and in whatever
\* order the rows were committed (build_conversation_messages).
THEOREM TreeCorrect == Spec => []TreeOfWhatWasSaid
<1>1. TypeOK => TreeOfWhatWasSaid
  BY TreeOfWhatWasSaidHolds DEF TypeOK
<1> QED
  BY <1>1, TypeCorrect, PTL

----------------------------------------------------------------------------
(* A request is found in the conversation it goes on with *)

\* The columns that a chat's opening makes.
UserOf(c) == Content(Message("user", opening[c].user, Absent, FALSE))
SystemOf(c) == IF opening[c].system = Absent THEN Null
               ELSE Content(Message("system", opening[c].system, Absent, FALSE))

\* The two columns of the system + user mode are the opening's.
LEMMA OpeningColumns ==
    ASSUME TypeOK, NEW c \in Chats, NEW messages \in Seq(Messages), Begins(c, messages)
    PROVE  /\ FirstContent(messages, "user") = UserOf(c)
           /\ FirstContent(messages, "system") = SystemOf(c)
<1> DEFINE o == Opening(c)
           n == Len(o)
           user == Message("user", opening[c].user, Absent, FALSE)
           system == Message("system", opening[c].system, Absent, FALSE)
<1>1. Opens(c, o)
  BY OpeningType
<1>2. /\ IsPrefix(o, messages)
      /\ \A i \in 1 .. Len(messages) : i > n => messages[i].role # "system"
  BY DEF Begins
<1> HIDE DEF o
<1>3. /\ o \in Seq(Messages) /\ n \in 1 .. 2 /\ o[n] = user
      /\ opening[c].system = Absent => n = 1
      /\ opening[c].system # Absent => n = 2 /\ o[1] = system
  BY <1>1 DEF Opens
<1>4. n <= Len(messages) /\ \A i \in 1 .. n : o[i] = messages[i]
  BY <1>2, <1>3, PrefixIs
<1>5. user.role = "user" /\ system.role = "system"
  BY DEF Message
<1> HIDE DEF n, user, system
<1>6. /\ n \in 1 .. Len(messages) /\ messages[n] = user
      /\ opening[c].system # Absent => 1 \in 1 .. Len(messages) /\ messages[1] = system
  BY <1>3, <1>4
<1>7. \A i \in 1 .. n - 1 : messages[i].role # "user"
  <2>1. ASSUME NEW i \in 1 .. n - 1 PROVE messages[i].role # "user"
    <3>1. i = 1 /\ opening[c].system # Absent
      BY <1>3
    <3> QED
      BY <1>5, <1>6, <3>1
  <2> QED
    BY <2>1
<1>8. FirstContent(messages, "user") = Content(user)
  BY <1>5, <1>6, <1>7, FirstContentIs
<1>9. CASE opening[c].system = Absent
  <2>1. ASSUME NEW i \in 1 .. Len(messages) PROVE messages[i].role # "system"
    <3>1. CASE i = n
      BY <1>5, <1>6, <3>1
    <3>2. CASE i # n
      BY <1>2, <1>3, <1>9, <3>2
    <3> QED
      BY <3>1, <3>2
  <2>2. FirstContent(messages, "system") = Null
    BY <2>1, NoContent
  <2> QED
    BY <1>8, <1>9, <2>2 DEF UserOf, SystemOf, user
<1>10. CASE opening[c].system # Absent
  <2>1. 1 \in 1 .. Len(messages) /\ messages[1].role = "system" /\ 1 .. 1 - 1 = {}
    BY <1>5, <1>6, <1>10
  <2>2. FirstContent(messages, "system") = Content(messages[1])
    BY <2>1, FirstContentIs
  <2> QED
    BY <1>6, <1>8, <1>10, <2>2 DEF UserOf, SystemOf, user, system
<1> QED
  BY <1>9, <1>10

\* What it is to go on from r.
LEMMA Continued ==
    ASSUME IInv, NEW r \in Rows, NEW q \in Rows, IsRow(r), IsRow(q), Continues(q, r),
           NEW n, n = Len(r.messages)
    PROVE  /\ n \in Nat /\ n + 1 \in 1 .. Len(q.messages)
           /\ r.messages \in Seq(Messages) /\ q.messages \in Seq(Messages)
           /\ \A i \in 1 .. n : q.messages[i] = r.messages[i]
           /\ r.response \in Answers /\ r.response # Null /\ q.chat = r.chat
           /\ q.messages[n + 1] \in Echoes(r.response)
<1>1. r.messages \in Seq(Messages) /\ q.messages \in Seq(Messages)
  BY DEF Rows
<1>2. /\ r.response # Null /\ q.chat = r.chat
      /\ Len(q.messages) > n + 1 /\ SubSeq(q.messages, 1, n) = r.messages
      /\ q.messages[n + 1] \in Echoes(r.response)
  BY DEF Continues
<1>3. n \in Nat /\ n + 1 \in 1 .. Len(q.messages) /\ n \in 0 .. Len(q.messages)
  BY <1>1, <1>2
<1>4. \A i \in 1 .. n : SubSeq(q.messages, 1, n)[i] = q.messages[i]
  BY <1>1, <1>3, BeginningIs
<1>5. r.response \in Answers
  BY <1>2 DEF IsRow
<1> QED
  BY <1>1, <1>2, <1>3, <1>4, <1>5

\* A row's columns.
LEMMA RowColumns ==
    ASSUME TypeOK, NEW r \in Rows, IsRow(r)
    PROVE  /\ r.user = UserOf(r.chat) /\ r.system = SystemOf(r.chat)
           /\ r.assistant = FirstAssistant(r.messages, r.response)
<1>1. /\ r = Row(r.id, r.chat, r.messages, r.response)
      /\ Begins(r.chat, r.messages) /\ r.chat \in Chats /\ r.messages \in Seq(Messages)
  BY DEF IsRow, Rows
<1>2. /\ r.user = FirstContent(r.messages, "user")
      /\ r.system = FirstContent(r.messages, "system")
      /\ r.assistant = FirstAssistant(r.messages, r.response)
  BY <1>1 DEF Row
<1> QED
  BY <1>1, <1>2, OpeningColumns

\* The first answer with a text stays the first.
LEMMA SameFirstAnswer ==
    ASSUME IInv, NEW r \in Rows, NEW q \in Rows, IsRow(r), IsRow(q), Continues(q, r),
           FirstContent(q.messages, "assistant") # Null
    PROVE  FirstAssistant(q.messages, q.response) = FirstAssistant(r.messages, r.response)
<1> DEFINE R == r.messages
           Q == q.messages
           n == Len(R)
           role == "assistant"
           said == {i \in 1 .. n : R[i].role = role}
<1>1. /\ n \in Nat /\ n + 1 \in 1 .. Len(Q) /\ R \in Seq(Messages) /\ Q \in Seq(Messages)
      /\ \A i \in 1 .. n : Q[i] = R[i]
      /\ r.response \in Answers /\ r.response # Null
      /\ Q[n + 1] \in Echoes(r.response)
  BY Continued
<1>2. FirstAssistant(Q, q.response) = FirstContent(Q, role)
  BY DEF FirstAssistant
<1>3. FirstAssistant(R, r.response) =
        IF FirstContent(R, role) = Null THEN Content(r.response) ELSE FirstContent(R, role)
  BY <1>1 DEF FirstAssistant
<1>4. FirstContent(Q, role) # Null
  OBVIOUS
<1> HIDE DEF R, Q, n, role
<1>5. said \in SUBSET Nat
  BY <1>1
<1>6. CASE said # {}
  <2>1. Min(said) \in said /\ \A i \in said : Min(said) <= i
    BY <1>5, <1>6, Least
  <2> DEFINE k == Min(said)
  <2>2. k \in 1 .. n /\ R[k].role = role
    BY <2>1
  <2>3. ASSUME NEW i \in 1 .. k - 1 PROVE R[i].role # role
    <3>1. i \in 1 .. n /\ ~ (k <= i)
      BY <1>1, <2>2
    <3> QED
      BY <2>1, <3>1
  <2> HIDE DEF k
  <2>4. FirstContent(R, role) = Content(R[k])
    <3>1. k \in 1 .. Len(R)
      BY <2>2 DEF n
    <3> QED
      BY <1>1, <2>2, <2>3, <3>1, FirstContentIs
  <2>5. \A i \in 1 .. k - 1 : i \in 1 .. n
    BY <1>1, <2>2
  <2>6. k \in 1 .. Len(Q)
    BY <1>1, <2>2
  <2>7. FirstContent(Q, role) = Content(Q[k])
    <3>1. Q[k].role = role
      BY <1>1, <2>2
    <3>2. \A i \in 1 .. k - 1 : Q[i].role # role
      BY <1>1, <2>3, <2>5
    <3> QED
      BY <1>1, <2>6, <3>1, <3>2, FirstContentIs
  <2> QED
    BY <1>1, <1>2, <1>3, <1>4, <2>2, <2>4, <2>7 DEF R, Q
<1>7. CASE said = {}
  <2>1. \A i \in 1 .. n : R[i].role # role
    BY <1>7
  <2>2. FirstContent(R, role) = Null
    BY <1>1, <2>1, NoContent DEF n
  <2>3. Q[n + 1].role = role /\ Content(Q[n + 1]) = Content(r.response)
    BY <1>1, EchoType DEF role
  <2>4. \A i \in 1 .. (n + 1) - 1 : i \in 1 .. n
    BY <1>1
  <2>5. FirstContent(Q, role) = Content(Q[n + 1])
    BY <1>1, <2>1, <2>3, <2>4, FirstContentIs
  <2> QED
    BY <1>2, <1>3, <2>2, <2>3, <2>5 DEF R, Q
<1> QED
  BY <1>6, <1>7

\* An answer that comes back with the same semantic fields is the same message.
LEMMA AnswerOnThePath ==
    ASSUME IInv, NEW r \in Rows, NEW q \in Rows, IsRow(r), IsRow(q), Continues(q, r),
           [q.messages[Len(r.messages) + 1] EXCEPT !.extra = r.response.extra] = r.response
    PROVE  IsPrefix(Path(r), Path(q)) /\ Path(r) # <<>>
<1> DEFINE R == r.messages
           Q == q.messages
           n == Len(R)
           a == r.response
           S == Said(r)
           T == Said(q)
<1>1. /\ n \in Nat /\ n + 1 \in 1 .. Len(Q) /\ R \in Seq(Messages) /\ Q \in Seq(Messages)
      /\ \A i \in 1 .. n : Q[i] = R[i]
      /\ a \in Answers /\ a # Null /\ Q[n + 1] \in Echoes(a)
  BY Continued
<1>2. a \in Messages /\ Q[n + 1] \in Messages
  BY <1>1, AnswersAreMessages, EchoType
<1>3. Signature(Q[n + 1]) = Signature(a)
  <2> DEFINE m == Q[n + 1]
  <2>1. m \in Messages /\ [m EXCEPT !.extra = a.extra] = a
    BY <1>2
  <2> HIDE DEF m, a
  <2>2. m.role = a.role /\ m.content = a.content /\ m.tools = a.tools
    BY <2>1 DEF Messages
  <2> QED
    BY <2>2 DEF Signature, m, a
<1>4. S = Append(R, a)
  BY <1>1 DEF Said
<1>5. /\ T \in Seq(Messages) /\ Len(Q) <= Len(T)
      /\ \A i \in 1 .. Len(Q) : T[i] = Q[i]
  <2>1. q.response \in Messages \cup {Null}
    BY DEF Rows
  <2>2. T = IF q.response = Null THEN Q ELSE Append(Q, q.response)
    BY DEF Said
  <2> HIDE DEF Q, T
  <2>3. CASE q.response = Null
    BY <1>1, <2>2, <2>3
  <2>4. CASE q.response # Null
    BY <1>1, <2>1, <2>2, <2>4, AppendProperties
  <2> QED
    BY <2>3, <2>4
<1>6. /\ Path(r) \in Seq(Signatures) /\ Len(Path(r)) = Len(S)
      /\ Path(q) \in Seq(Signatures) /\ Len(Path(q)) = Len(T)
      /\ S \in Seq(Messages)
  BY PathType
<1>7. /\ Path(r) = [i \in DOMAIN S |-> Signature(S[i])]
      /\ Path(q) = [i \in DOMAIN T |-> Signature(T[i])]
  BY DEF Path
<1> HIDE DEF R, Q, n, a, S, T
<1>8. /\ Len(S) = n + 1 /\ S[n + 1] = a /\ \A i \in 1 .. n : S[i] = R[i]
      /\ DOMAIN S = 1 .. n + 1 /\ DOMAIN T = 1 .. Len(T)
  BY <1>1, <1>2, <1>4, <1>5, AppendProperties DEF n
<1>9. ASSUME NEW i \in 1 .. n + 1 PROVE Path(r)[i] = Path(q)[i]
  <2>1. i \in DOMAIN S /\ i \in DOMAIN T /\ i \in 1 .. Len(Q)
    BY <1>1, <1>5, <1>8
  <2>2. Path(r)[i] = Signature(S[i]) /\ Path(q)[i] = Signature(Q[i])
    BY <1>5, <1>7, <2>1
  <2>3. CASE i = n + 1
    BY <1>3, <1>8, <2>2, <2>3 DEF Q, n, a, R
  <2>4. CASE i # n + 1
    <3>1. i \in 1 .. n
      BY <1>1, <2>4
    <3> QED
      BY <1>1, <1>8, <2>2, <3>1
  <2> QED
    BY <2>3, <2>4
<1>10. Len(Path(r)) <= Len(Path(q)) /\ Len(Path(r)) = n + 1
  BY <1>1, <1>5, <1>6, <1>8
<1>11. IsPrefix(Path(r), Path(q))
  BY <1>6, <1>9, <1>10, PrefixIs
<1> QED
  BY <1>1, <1>10, <1>11

\* Two rows of a group go through a path that both have.
LEMMA CountedTwice ==
    ASSUME NEW group \in Seq(Rows), NEW a \in DOMAIN group, NEW b \in DOMAIN group, a # b,
           NEW p \in Seq(Signatures), p # <<>>,
           IsPrefix(p, Path(group[a])), IsPrefix(p, Path(group[b]))
    PROVE  Tree(group).nodes[p].count >= 2
<1> DEFINE S == Signatures
           W == PathsOf(group)
           tree == Tree(group)
           P == Passing(W, p)
<1>1. /\ W \in Seq(Seq(S)) /\ Len(group) = Len(W) /\ DOMAIN group = 1 .. Len(W)
      /\ \A i \in 1 .. Len(W) : W[i] = Path(group[i]) /\ group[i].id \in Nat
  BY PathsOfType
<1> HIDE DEF W, S
<1>2. IsTree(S, group, W, tree)
  BY <1>1, TreeIs
<1>3. P \subseteq 1 .. Len(W) /\ a \in P /\ b \in P
  BY <1>1 DEF Passing
<1>4. tree.nodes[p].count = Cardinality(P)
  <2>1. p \in Paths(S, W)
    BY <1>3 DEF Paths, S
  <2> QED
    BY <1>2, <2>1 DEF IsTree, Tells
<1> HIDE DEF P, tree
<1>5. IsFiniteSet(P)
  <2>1. Len(W) \in Nat /\ 1 \in Nat
    BY <1>1
  <2>2. IsFiniteSet(1 .. Len(W))
    BY <2>1, FS_Interval
  <2> QED
    BY <1>3, <2>2, FS_Subset
<1>6. Cardinality(P) >= 2
  <2> DEFINE two == {a, b}
             one == {a}
  <2>1. two = one \cup {b} /\ b \notin one
    OBVIOUS
  <2>2. IsFiniteSet(one) /\ Cardinality(one) = 1
    BY FS_Singleton
  <2> HIDE DEF one, two
  <2>3. Cardinality(one \cup {b}) = Cardinality(one) + 1
    BY <2>1, <2>2, FS_AddElement
  <2>4. Cardinality(two) = 2
    BY <2>1, <2>2, <2>3
  <2>5. two \subseteq P
    BY <1>3 DEF two
  <2>6. Cardinality(two) <= Cardinality(P)
    BY <1>5, <2>5, FS_Subset
  <2>7. Cardinality(P) \in Nat
    BY <1>5, FS_CardinalityType
  <2> QED
    BY <2>4, <2>6, <2>7
<1> QED
  BY <1>4, <1>6 DEF tree

HasBoth(group, x, y) == \E a, b \in DOMAIN group : a # b /\ group[a] = x /\ group[b] = y

\* The rows with a key are those of its group.
LEMMA RowInItsGroup ==
    ASSUME rows \in Seq(Rows), NEW mode, NEW key, NEW i \in DOMAIN rows, NEW j \in DOMAIN rows,
           GroupKey(mode, rows[i]) = key, GroupKey(mode, rows[j]) = key, rows[i] # rows[j]
    PROVE  HasBoth(RowsOf(mode, key), rows[i], rows[j])
<1> DEFINE places == {k \in DOMAIN rows : GroupKey(mode, rows[k]) = key}
           group == Selected(rows, places)
           n == Len(rows)
<1>1. i \in places /\ j \in places /\ DOMAIN rows = 1 .. n /\ n \in Nat
  OBVIOUS
<1>2. RowsOf(mode, key) = group
  BY DEF RowsOf
<1> HIDE DEF places
<1>3. group \in Seq(Rows) /\ \E m : Takes(rows, places, n, group, m)
  BY SelectedTakes
<1> HIDE DEF group
<1>4. PICK m : Takes(rows, places, n, group, m)
  BY <1>3
<1>5. i \in places \cap (1 .. n) /\ j \in places \cap (1 .. n)
  BY <1>1
<1>6. PICK a \in 1 .. Len(group) : m[a] = i
  BY <1>4, <1>5 DEF Takes
<1>7. PICK b \in 1 .. Len(group) : m[b] = j
  BY <1>4, <1>5 DEF Takes
<1>8. group[a] = rows[i] /\ group[b] = rows[j]
  BY <1>4, <1>6, <1>7 DEF Takes
<1>9. a # b
  BY <1>8
<1>10. DOMAIN group = 1 .. Len(group)
  BY <1>3
<1>11. HasBoth(group, rows[i], rows[j])
  BY <1>6, <1>7, <1>8, <1>9, <1>10 DEF HasBoth
<1> QED
  BY <1>2, <1>11

\* The key of a group is that of its label.
LEMMA KeyOfLabel ==
    ASSUME NEW mode, NEW r, NEW q, GroupLabel(mode, r) = GroupLabel(mode, q)
    PROVE  GroupKey(mode, r) = GroupKey(mode, q)
BY DEF GroupKey

\* A row and one that continues it have the same columns.
LEMMA FollowUpsJoin == IInv => FollowUpsJoinTheirConversation
<1> DEFINE pair == "system_prompt_first_user"
           triple == "system_prompt_first_user_first_assistant"
<1> SUFFICES ASSUME IInv, NEW i \in DOMAIN rows, NEW j \in DOMAIN rows,
                    Continues(rows[j], rows[i])
             PROVE  /\ GroupKey(pair, rows[j]) = GroupKey(pair, rows[i])
                    /\ FirstContent(rows[j].messages, "assistant") # Null =>
                          GroupKey(triple, rows[j]) = GroupKey(triple, rows[i])
                    /\ [rows[j].messages[Len(rows[i].messages) + 1]
                           EXCEPT !.extra = rows[i].response.extra] = rows[i].response =>
                          Tree(RowsOf(pair, GroupKey(pair, rows[j]))).nodes[Path(rows[i])].count
                             >= 2
  BY DEF FollowUpsJoinTheirConversation
<1> DEFINE r == rows[i]
           q == rows[j]
<1>1. /\ r \in Rows /\ q \in Rows /\ IsRow(r) /\ IsRow(q) /\ TypeOK /\ Continues(q, r)
      /\ rows \in Seq(Rows)
  BY DEF IInv, TypeOK, RowsBegin
<1> HIDE DEF r, q
<1>2. /\ r.user = UserOf(r.chat) /\ r.system = SystemOf(r.chat)
      /\ r.assistant = FirstAssistant(r.messages, r.response)
      /\ q.user = UserOf(q.chat) /\ q.system = SystemOf(q.chat)
      /\ q.assistant = FirstAssistant(q.messages, q.response)
  BY <1>1, RowColumns
<1>3. /\ q.chat = r.chat /\ Len(q.messages) # Len(r.messages)
  BY <1>1 DEF Continues, Rows
<1>4. GroupLabel(pair, q) = GroupLabel(pair, r)
  BY <1>2, <1>3 DEF GroupLabel
<1>5. GroupKey(pair, q) = GroupKey(pair, r)
  BY <1>4, KeyOfLabel
<1>6. ASSUME FirstContent(q.messages, "assistant") # Null
      PROVE  GroupKey(triple, q) = GroupKey(triple, r)
  <2>1. q.assistant = r.assistant
    BY <1>1, <1>2, <1>6, SameFirstAnswer
  <2>2. GroupLabel(triple, q) = GroupLabel(triple, r)
    BY <1>2, <1>3, <2>1 DEF GroupLabel
  <2> QED
    BY <2>2, KeyOfLabel
<1>7. ASSUME [q.messages[Len(r.messages) + 1] EXCEPT !.extra = r.response.extra] = r.response
      PROVE  Tree(RowsOf(pair, GroupKey(pair, q))).nodes[Path(r)].count >= 2
  <2> DEFINE key == GroupKey(pair, q)
             group == RowsOf(pair, key)
             p == Path(r)
  <2>1. p \in Seq(Signatures)
    BY <1>1, PathType
  <2>2. IsPrefix(p, Path(q)) /\ p # <<>> /\ IsPrefix(p, p)
    BY <1>1, <1>7, <2>1, AnswerOnThePath, PrefixOfItself
  <2>3. GroupKey(pair, rows[i]) = key /\ GroupKey(pair, rows[j]) = key /\ rows[i] # rows[j]
    BY <1>3, <1>5 DEF r, q
  <2> HIDE DEF key, pair
  <2>4. PICK a, b \in DOMAIN group : a # b /\ group[a] = rows[i] /\ group[b] = rows[j]
    <3>1. HasBoth(RowsOf(pair, key), rows[i], rows[j])
      BY <1>1, <2>3, RowInItsGroup
    <3> QED
      BY <3>1 DEF HasBoth
  <2>5. group \in Seq(Rows)
    BY <1>1, RowsOfType
  <2>6. IsPrefix(p, Path(group[a])) /\ IsPrefix(p, Path(group[b]))
    BY <2>2, <2>4 DEF r, q
  <2> HIDE DEF group, p
  <2>7. Tree(group).nodes[p].count >= 2
    BY <2>1, <2>2, <2>4, <2>5, <2>6, CountedTwice
  <2> QED
    BY <2>7 DEF group, p, key
<1> QED
  BY <1>5, <1>6, <1>7 DEF r, q

\* A request is found in the conversation it goes on with (_group_key_expression).
THEOREM FollowUpsCorrect == Spec => []FollowUpsJoinTheirConversation
BY FollowUpsJoin, Inductive, PTL

----------------------------------------------------------------------------
(* Every request is counted once *)

\* What is counted in those of the first i entries of a list that are in entries, where
\* M[a] is what entry a counts.
Counted(X, M, entries, i) == {x \in X : \E a \in 1 .. i : a \in entries /\ x \in M[a]}

\* Entries count what is in X, and nothing twice.
Counts(X, M, listed) ==
    /\ IsFiniteSet(X)
    /\ \A a \in 1 .. Len(listed) : M[a] \subseteq X /\ listed[a].count = Cardinality(M[a])
    /\ \A a, b \in 1 .. Len(listed) : a # b => M[a] \cap M[b] = {}

\* One entry more.
LEMMA CountedMore ==
    ASSUME NEW X, NEW M, NEW listed, Len(listed) \in Nat, Counts(X, M, listed), NEW entries,
           NEW i \in 1 .. Len(listed), NEW v, v = Cardinality(Counted(X, M, entries, i - 1))
    PROVE  /\ v \in Nat
           /\ Cardinality(Counted(X, M, entries, i)) =
                v + (IF i \in entries THEN listed[i].count ELSE 0)
<1> DEFINE C == Counted(X, M, entries, i - 1)
           D == Counted(X, M, entries, i)
<1>1. IsFiniteSet(X) /\ M[i] \subseteq X /\ listed[i].count = Cardinality(M[i])
  BY DEF Counts
<1>2. C \subseteq X /\ D \subseteq X
  BY DEF Counted
<1>3. IsFiniteSet(C) /\ IsFiniteSet(M[i]) /\ Cardinality(C) \in Nat /\ Cardinality(M[i]) \in Nat
  <2> HIDE DEF C
  <2>1. IsFiniteSet(C) /\ IsFiniteSet(M[i])
    BY <1>1, <1>2, FS_Subset
  <2> QED
    BY <2>1, FS_CardinalityType
<1>4. CASE i \in entries
  <2>1. D = C \cup M[i]
    <3>1. ASSUME NEW x \in X
          PROVE  (\E a \in 1 .. i : a \in entries /\ x \in M[a]) <=>
                   (\E a \in 1 .. i - 1 : a \in entries /\ x \in M[a]) \/ x \in M[i]
      <4>1. \A a : a \in 1 .. i <=> a \in 1 .. i - 1 \/ a = i
        OBVIOUS
      <4> QED
        BY <1>4, <4>1
    <3> QED
      BY <1>1, <3>1 DEF Counted
  <2>2. C \cap M[i] = {}
    <3> SUFFICES ASSUME NEW x \in C, x \in M[i] PROVE FALSE
      OBVIOUS
    <3>1. PICK a \in 1 .. i - 1 : x \in M[a]
      BY DEF Counted
    <3>2. a \in 1 .. Len(listed) /\ a # i
      OBVIOUS
    <3> QED
      BY <3>1, <3>2 DEF Counts
  <2> HIDE DEF C, D
  <2>3. Cardinality(C \cup M[i]) =
          Cardinality(C) + Cardinality(M[i]) - Cardinality(C \cap M[i])
    BY <1>3, FS_Union
  <2>4. Cardinality(C \cap M[i]) = 0
    BY <2>2, FS_EmptySet
  <2>5. Cardinality(D) = Cardinality(C) + Cardinality(M[i])
    BY <1>3, <2>1, <2>3, <2>4
  <2> QED
    BY <1>1, <1>3, <1>4, <2>5 DEF C, D
<1>5. CASE i \notin entries
  <2>1. D = C
    <3>1. \A a : a \in 1 .. i /\ a \in entries <=> a \in 1 .. i - 1 /\ a \in entries
      BY <1>5
    <3> QED
      BY <3>1 DEF Counted
  <2> HIDE DEF C, D
  <2> QED
    BY <1>3, <1>5, <2>1 DEF C, D
<1> QED
  BY <1>4, <1>5

\* A total is the number of what the entries count.
LEMMA TotalIs ==
    ASSUME NEW X, NEW M, NEW listed, Len(listed) \in Nat, Counts(X, M, listed), NEW entries
    PROVE  Total(listed, entries) = Cardinality(Counted(X, M, entries, Len(listed)))
<1> DEFINE n == Len(listed)
           op(i, v) == v + (IF i \in entries THEN listed[i].count ELSE 0)
           IsTotal(f) == f = [i \in 0 .. n |->
                                IF i = 0 THEN 0
                                ELSE f[i - 1] + (IF i \in entries THEN listed[i].count ELSE 0)]
           upTo == CHOOSE f : IsTotal(f)
           number(i) == Cardinality(Counted(X, M, entries, i))
           Good == [i \in 0 .. n |-> {number(i)}]
           step == [i \in 1 .. n |-> [v \in {number(i - 1)} |-> op(i, v)]]
<1>1. Total(listed, entries) = upTo[n]
  BY DEF Total
<1>2. n \in Nat /\ 0 \in 0 .. n /\ n \in 0 .. n
  OBVIOUS
<1>3. 0 \in Good[0]
  <2>1. Counted(X, M, entries, 0) = {}
    BY DEF Counted
  <2>2. number(0) = 0
    BY <2>1, FS_EmptySet
  <2> QED
    BY <1>2, <2>2
<1>4. ASSUME NEW i \in 1 .. n, NEW v \in Good[i - 1]
      PROVE  op(i, v) \in Good[i] /\ v = number(i - 1)
  <2>1. i - 1 \in 0 .. n /\ i \in 0 .. n
    BY <1>2
  <2>2. v = number(i - 1)
    BY <2>1
  <2>3. number(i) = op(i, v)
    BY <2>2, CountedMore
  <2> HIDE DEF op, number
  <2> QED
    BY <2>1, <2>2, <2>3
<1> HIDE DEF Good, number
<1>5. \A i \in 1 .. n : \A v \in Good[i - 1] : step[i][v] \in Good[i] /\ step[i][v] = op(i, v)
  BY <1>4
<1> HIDE DEF step
<1>6. PICK f : Steps(f, n, 0, step, Good)
  <2> DEFINE e == 0
  <2>1. e \in Good[0]
    BY <1>3
  <2> HIDE DEF e, n, op
  <2>2. \E f : Steps(f, n, e, step, Good)
    BY <1>2, <1>5, <2>1, Recursion
  <2> QED
    BY <2>2 DEF e
<1>7. IsTotal(f)
  <2>1. f = [i \in 0 .. n |-> f[i]] /\ f[0] = 0 /\ \A i \in 1 .. n : f[i] = step[i][f[i - 1]]
    BY <1>6 DEF Steps
  <2>2. \A i \in 0 .. n : f[i] \in Good[i]
    BY <1>6 DEF Steps
  <2>3. ASSUME NEW i \in 0 .. n
        PROVE  f[i] = IF i = 0 THEN 0
                      ELSE f[i - 1] + (IF i \in entries THEN listed[i].count ELSE 0)
    <3>1. CASE i = 0
      BY <2>1, <3>1
    <3>2. CASE i # 0
      <4>1. i \in 1 .. n /\ i - 1 \in 0 .. n
        BY <1>2, <3>2
      <4>2. f[i] = op(i, f[i - 1])
        BY <1>5, <2>1, <2>2, <4>1
      <4> QED
        BY <3>2, <4>2
    <3> QED
      BY <3>1, <3>2
  <2> QED
    BY <2>1, <2>3
<1>8. IsTotal(upTo)
  BY <1>7
<1> HIDE DEF upTo
<1>9. upTo[0] = 0 /\ \A i \in 1 .. n : upTo[i] = op(i, upTo[i - 1])
  <2>1. ASSUME NEW i \in 1 .. n PROVE upTo[i] = op(i, upTo[i - 1])
    <3>1. i \in 0 .. n /\ i # 0
      BY <1>2
    <3> QED
      BY <1>8, <3>1
  <2> QED
    BY <1>2, <1>8, <2>1
<1> HIDE DEF op
<1>10. /\ upTo[0] \in Good[0]
       /\ \A i \in 1 .. n : upTo[i - 1] \in Good[i - 1] => upTo[i] \in Good[i]
  BY <1>3, <1>5, <1>9
<1> HIDE DEF n
<1>11. upTo[n] \in Good[n]
  BY <1>2, <1>10, RecursionKeeps
<1> QED
  BY <1>1, <1>2, <1>11 DEF Good, n, number

\* As many as the places it is taken from.
LEMMA SelectedLength ==
    ASSUME NEW S, NEW s \in Seq(S), NEW places \in SUBSET (1 .. Len(s))
    PROVE  Len(Selected(s, places)) = Cardinality(places)
<1> DEFINE v == Selected(s, places)
           k == Len(v)
           n == Len(s)
<1>1. v \in Seq(S) /\ \E m : Takes(s, places, n, v, m)
  BY SelectedTakes
<1>2. PICK m : Takes(s, places, n, v, m)
  BY <1>1
<1>3. k \in Nat /\ n \in Nat
  BY <1>1
<1> HIDE DEF v
<1>4. /\ m \in [1 .. k -> places \cap (1 .. n)]
      /\ \A a, b \in 1 .. k : a < b => m[a] < m[b]
      /\ \A j \in places \cap (1 .. n) : \E a \in 1 .. k : m[a] = j
  BY <1>2 DEF Takes
<1>5. places \cap (1 .. n) = places
  OBVIOUS
<1> HIDE DEF k, n
<1>6. m \in [1 .. k -> places] /\ \A j \in places : \E a \in 1 .. k : m[a] = j
  BY <1>4, <1>5
<1>7. ASSUME NEW a \in 1 .. k, NEW b \in 1 .. k, m[a] = m[b] PROVE a = b
  <2>1. m[a] \in 1 .. n /\ m[b] \in 1 .. n
    BY <1>4
  <2>2. ~ (a < b) /\ ~ (b < a)
    BY <1>4, <1>7, <2>1
  <2> QED
    BY <1>3, <2>2
<1>8. DOMAIN m = 1 .. k
  BY <1>6
<1>9. m \in Bijection(1 .. k, places)
  BY <1>6, <1>7, <1>8 DEF Bijection, Injection, Surjection, IsInjective
<1>10. ExistsBijection(1 .. k, places)
  BY <1>9 DEF ExistsBijection
<1>11. Cardinality(places) = k
  BY <1>3, <1>10, FS_CountingElements
<1> QED
  BY <1>11 DEF k, v

Latest(mode) ==
    {i \in DOMAIN rows : \A j \in DOMAIN rows :
        GroupLabel(mode, rows[j]) = GroupLabel(mode, rows[i]) => j <= i}
Labelled(mode, i) == {j \in DOMAIN rows : GroupLabel(mode, rows[j]) = GroupLabel(mode, rows[i])}
Entry(mode, i) == Conversation(mode, GroupLabel(mode, rows[i]))

\* l holds the place of the latest row of each entry.
IsListed(mode, listed, l) ==
    /\ Len(listed) \in Nat /\ DOMAIN listed = 1 .. Len(listed)
    /\ l \in [1 .. Len(listed) -> Latest(mode)]
    /\ \A a, b \in 1 .. Len(listed) : a < b => l[a] > l[b]
    /\ \A i \in Latest(mode) : \E a \in 1 .. Len(listed) : l[a] = i
    /\ \A a \in 1 .. Len(listed) : listed[a] = Entry(mode, l[a])

\* The list has an entry for each label, in the order of the latest rows.
LEMMA ListedIs ==
    ASSUME rows \in Seq(Rows), NEW mode
    PROVE  \E l : IsListed(mode, ListedConversations(mode), l)
<1> DEFINE n == Len(rows)
           L == Latest(mode)
           S == {Entry(mode, i) : i \in 1 .. n}
           s == [i \in DOMAIN rows |-> Conversation(mode, GroupLabel(mode, rows[i]))]
           v == Selected(s, L)
           k == Len(v)
           listed == ListedConversations(mode)
<1>1. n \in Nat /\ DOMAIN rows = 1 .. n
  OBVIOUS
<1>2. s \in Seq(S) /\ Len(s) = n /\ \A i \in 1 .. n : s[i] = Entry(mode, i)
  <2>1. s = [i \in 1 .. n |-> Entry(mode, i)]
    BY <1>1 DEF Entry
  <2> QED
    BY <1>1, <2>1
<1>3. listed = Reverse(v)
  BY DEF ListedConversations, Latest
<1>4. L \subseteq 1 .. n
  BY <1>1 DEF Latest
<1> HIDE DEF s, L, S
<1>5. v \in Seq(S) /\ \E m : Takes(s, L, Len(s), v, m)
  BY <1>2, SelectedTakes
<1> HIDE DEF v
<1>6. PICK m : Takes(s, L, n, v, m)
  BY <1>2, <1>5
<1>7. k \in Nat
  BY <1>5
<1>8. listed = [a \in 1 .. k |-> v[(k - a) + 1]]
  BY <1>3 DEF Reverse
<1> HIDE DEF listed, k
<1>9. Len(listed) = k /\ DOMAIN listed = 1 .. k
  <2>1. \A a \in 1 .. k : v[(k - a) + 1] \in S
    BY <1>5, <1>7 DEF k
  <2>2. listed \in Seq(S) /\ DOMAIN listed = 1 .. k
    BY <1>7, <1>8, <2>1
  <2> QED
    BY <1>7, <2>2
<1>10. /\ m \in [1 .. k -> L]
       /\ \A a, b \in 1 .. k : a < b => m[a] < m[b]
       /\ \A i \in L : \E a \in 1 .. k : m[a] = i
       /\ \A a \in 1 .. k : v[a] = s[m[a]]
  <2>1. L \cap (1 .. n) = L
    BY <1>4
  <2> HIDE DEF n
  <2> QED
    BY <1>6, <2>1 DEF Takes, k
<1> DEFINE l == [a \in 1 .. k |-> m[(k - a) + 1]]
<1>11. \A a \in 1 .. k : (k - a) + 1 \in 1 .. k /\ l[a] = m[(k - a) + 1]
  BY <1>7
<1>12. l \in [1 .. k -> L]
  BY <1>10, <1>11
<1> HIDE DEF l
<1>13. ASSUME NEW a \in 1 .. k, NEW b \in 1 .. k, a < b PROVE l[a] > l[b]
  <2>1. (k - b) + 1 < (k - a) + 1
    BY <1>7, <1>13
  <2>2. m[(k - b) + 1] < m[(k - a) + 1]
    BY <1>10, <1>11, <2>1
  <2>3. m[(k - b) + 1] \in 1 .. n /\ m[(k - a) + 1] \in 1 .. n
    BY <1>4, <1>10, <1>11
  <2> QED
    BY <1>11, <2>2, <2>3
<1>14. ASSUME NEW i \in L PROVE \E a \in 1 .. k : l[a] = i
  <2>1. PICK a \in 1 .. k : m[a] = i
    BY <1>10
  <2>2. (k - a) + 1 \in 1 .. k /\ (k - ((k - a) + 1)) + 1 = a
    BY <1>7
  <2> QED
    BY <1>11, <2>1, <2>2
<1>15. ASSUME NEW a \in 1 .. k PROVE listed[a] = Entry(mode, l[a])
  <2>1. listed[a] = v[(k - a) + 1]
    BY <1>8
  <2>2. v[(k - a) + 1] = s[l[a]]
    BY <1>10, <1>11
  <2>3. l[a] \in 1 .. n
    BY <1>4, <1>12
  <2> QED
    BY <1>2, <2>1, <2>2, <2>3
<1>16. IsListed(mode, listed, l)
  BY <1>7, <1>9, <1>12, <1>13, <1>14, <1>15 DEF IsListed, L
<1> QED
  BY <1>16 DEF listed

\* What the entry of a label's latest row says.
LEMMA LatestEntry ==
    ASSUME rows \in Seq(Rows), NEW mode, NEW i \in Latest(mode)
    PROVE  /\ Entry(mode, i).count = Cardinality(Labelled(mode, i))
           /\ Entry(mode, i).key = GroupKey(mode, rows[i])
           /\ Entry(mode, i).last = i
<1> DEFINE S == Labelled(mode, i)
           n == Len(rows)
<1>1. n \in Nat /\ DOMAIN rows = 1 .. n
  OBVIOUS
<1>2. S \in SUBSET (0 .. n) /\ i \in S /\ \A j \in S : i >= j
  BY <1>1 DEF Labelled, Latest
<1>3. /\ Entry(mode, i).count = Cardinality(S) /\ Entry(mode, i).last = Max(S)
      /\ Entry(mode, i).key = GroupKey(mode, rows[Max(S)])
  BY DEF Entry, Conversation, Labelled
<1> HIDE DEF S, n
<1>4. Max(S) = i
  BY <1>1, <1>2, GreatestIs
<1> QED
  BY <1>3, <1>4 DEF S

\* Every row has a label, so a latest row with it.
LEMMA HasLatest ==
    ASSUME rows \in Seq(Rows), NEW mode, NEW j \in DOMAIN rows
    PROVE  \E i \in Latest(mode) : j \in Labelled(mode, i)
<1> DEFINE S == Labelled(mode, j)
           n == Len(rows)
           i == Max(S)
<1>1. n \in Nat /\ DOMAIN rows = 1 .. n
  OBVIOUS
<1>2. S \in SUBSET (0 .. n) /\ S # {}
  BY <1>1 DEF Labelled
<1>3. i \in S /\ \A k \in S : i >= k
  <2> HIDE DEF S, n
  <2> QED
    BY <1>1, <1>2, Greatest
<1>4. i \in DOMAIN rows /\ GroupLabel(mode, rows[i]) = GroupLabel(mode, rows[j])
  BY <1>3 DEF Labelled
<1>5. \A k \in DOMAIN rows : GroupLabel(mode, rows[k]) = GroupLabel(mode, rows[j]) => i >= k
  BY <1>3 DEF Labelled
<1> HIDE DEF i
<1>6. i \in Latest(mode)
  BY <1>1, <1>4, <1>5 DEF Latest
<1>7. j \in Labelled(mode, i)
  BY <1>4 DEF Labelled
<1> QED
  BY <1>6, <1>7

\* The entries divide the rows, and those with a key divide its rows.
LEMMA EveryRequestIsCounted == rows \in Seq(Rows) => EveryRequestIsCountedOnce
<1> SUFFICES ASSUME rows \in Seq(Rows), NEW mode \in Modes
    PROVE  LET listed == ListedConversations(mode)
               with(key) == {i \in DOMAIN listed : listed[i].key = key}
           IN  /\ Total(listed, DOMAIN listed) = Len(rows)
               /\ \A key \in Keys(mode) : Total(listed, with(key)) = Len(RowsOf(mode, key))
               /\ \A i, j \in DOMAIN listed : i < j => listed[i].last > listed[j].last
  BY DEF EveryRequestIsCountedOnce
<1> DEFINE listed == ListedConversations(mode)
           with(key) == {i \in DOMAIN listed : listed[i].key = key}
           k == Len(listed)
           n == Len(rows)
           X == 1 .. n
<1>1. PICK l : IsListed(mode, listed, l)
  BY ListedIs
<1> HIDE DEF listed
<1>2. /\ k \in Nat /\ DOMAIN listed = 1 .. k
      /\ l \in [1 .. k -> Latest(mode)]
      /\ \A a, b \in 1 .. k : a < b => l[a] > l[b]
      /\ \A i \in Latest(mode) : \E a \in 1 .. k : l[a] = i
      /\ \A a \in 1 .. k : listed[a] = Entry(mode, l[a])
  BY <1>1 DEF IsListed
<1>3. n \in Nat /\ DOMAIN rows = X /\ Latest(mode) \subseteq X
  BY DEF Latest
<1>4. \A a \in 1 .. k : /\ listed[a].count = Cardinality(Labelled(mode, l[a]))
                        /\ listed[a].key = GroupKey(mode, rows[l[a]])
                        /\ listed[a].last = l[a]
  <2>1. ASSUME NEW a \in 1 .. k
        PROVE  /\ listed[a].count = Cardinality(Labelled(mode, l[a]))
               /\ listed[a].key = GroupKey(mode, rows[l[a]])
               /\ listed[a].last = l[a]
    <3>1. l[a] \in Latest(mode) /\ listed[a] = Entry(mode, l[a])
      BY <1>2
    <3> QED
      BY <3>1, LatestEntry
  <2> QED
    BY <2>1
<1> DEFINE M == [a \in 1 .. k |-> Labelled(mode, l[a])]
<1>5. \A a \in 1 .. k : M[a] = Labelled(mode, l[a])
  OBVIOUS
<1> HIDE DEF M, n, k
<1>6. Counts(X, M, listed)
  <2>1. IsFiniteSet(X)
    <3>1. 1 \in Int /\ n \in Int
      BY <1>3
    <3> QED
      BY <3>1, FS_Interval
  <2>2. \A a \in 1 .. k : M[a] \subseteq X /\ listed[a].count = Cardinality(M[a])
    BY <1>3, <1>4, <1>5 DEF Labelled
  <2>3. ASSUME NEW a \in 1 .. k, NEW b \in 1 .. k, a # b PROVE M[a] \cap M[b] = {}
    <3> SUFFICES ASSUME NEW x \in M[a], x \in M[b] PROVE FALSE
      OBVIOUS
    <3>1. l[a] \in Latest(mode) /\ l[b] \in Latest(mode)
      BY <1>2
    <3>2. GroupLabel(mode, rows[l[a]]) = GroupLabel(mode, rows[l[b]])
      BY <1>5 DEF Labelled
    <3>3. l[a] <= l[b] /\ l[b] <= l[a] /\ l[a] \in X /\ l[b] \in X
      BY <1>3, <3>1, <3>2 DEF Latest
    <3>4. a < b \/ b < a
      BY <1>2, <2>3
    <3> QED
      BY <1>2, <1>3, <3>3, <3>4
  <2> QED
    BY <2>1, <2>2, <2>3 DEF Counts, k
<1>7. ASSUME NEW entries
      PROVE  Total(listed, entries) = Cardinality(Counted(X, M, entries, k))
  BY <1>2, <1>6, TotalIs DEF k
<1>8. ASSUME NEW x \in X PROVE \E a \in 1 .. k : x \in M[a]
  <2>1. PICK i \in Latest(mode) : x \in Labelled(mode, i)
    BY <1>3, HasLatest
  <2>2. PICK a \in 1 .. k : l[a] = i
    BY <1>2
  <2> QED
    BY <1>5, <2>1, <2>2
<1>9. Total(listed, DOMAIN listed) = n
  <2> DEFINE E == DOMAIN listed
  <2>1. Counted(X, M, E, k) = X
    BY <1>2, <1>8 DEF Counted
  <2> HIDE DEF E
  <2>2. Total(listed, E) = Cardinality(X)
    BY <1>7, <2>1
  <2>3. Cardinality(X) = n
    <3>1. 1 \in Int /\ n \in Int /\ n \in Nat
      BY <1>3
    <3>2. Cardinality(1 .. n) = IF 1 > n THEN 0 ELSE n - 1 + 1
      BY <3>1, FS_Interval
    <3> QED
      BY <3>1, <3>2
  <2> QED
    BY <2>2, <2>3 DEF E
<1>10. ASSUME NEW key \in Keys(mode) PROVE Total(listed, with(key)) = Len(RowsOf(mode, key))
  <2> DEFINE E == with(key)
             places == {i \in DOMAIN rows : GroupKey(mode, rows[i]) = key}
  <2>1. \A a : a \in E <=> a \in 1 .. k /\ listed[a].key = key
    BY <1>2
  <2>2. places \subseteq X
    BY <1>3
  <2>3. ASSUME NEW x \in X, NEW a \in 1 .. k, x \in M[a] PROVE a \in E <=> x \in places
    <3>1. GroupLabel(mode, rows[x]) = GroupLabel(mode, rows[l[a]]) /\ x \in DOMAIN rows
      BY <1>5, <2>3 DEF Labelled
    <3>2. GroupKey(mode, rows[x]) = GroupKey(mode, rows[l[a]])
      BY <3>1, KeyOfLabel
    <3>3. listed[a].key = GroupKey(mode, rows[l[a]])
      BY <1>4
    <3> QED
      BY <2>1, <3>1, <3>2, <3>3
  <2> HIDE DEF E, places
  <2>4. Counted(X, M, E, k) = places
    <3>1. ASSUME NEW x \in X
          PROVE  (\E a \in 1 .. k : a \in E /\ x \in M[a]) <=> x \in places
      BY <1>8, <2>3
    <3> QED
      BY <2>2, <3>1 DEF Counted
  <2>5. Total(listed, E) = Cardinality(places)
    BY <1>7, <2>4
  <2>6. Len(Selected(rows, places)) = Cardinality(places)
    BY <2>2, SelectedLength DEF n
  <2> QED
    BY <2>5, <2>6 DEF E, places, RowsOf
<1>11. ASSUME NEW i \in DOMAIN listed, NEW j \in DOMAIN listed, i < j
       PROVE  listed[i].last > listed[j].last
  BY <1>2, <1>4, <1>11
<1> QED
  BY <1>9, <1>10, <1>11 DEF listed, n

\* No request is lost from, or counted twice in, the list of conversations, and every
\* group shows what its entries count (get_conversations).
THEOREM CountsCorrect == Spec => []EveryRequestIsCountedOnce
<1>1. TypeOK => EveryRequestIsCountedOnce
  BY EveryRequestIsCounted DEF TypeOK
<1> QED
  BY <1>1, TypeCorrect, PTL

=============================================================================
