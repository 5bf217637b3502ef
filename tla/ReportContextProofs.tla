------------------------- MODULE ReportContextProofs -------------------------
(***************************************************************************)
(* Proofs about ContextArchive and ReportContext, for every number of      *)
(* parallel archive calls, of rounds and of summaries: no round is lost    *)
(* without a trace, what is archived never returns to the history, and     *)
(* what the run found stays within reach of the model and of the report.   *)
(* Then MessageShaping and DraftEditor, for every input: what they rewrite *)
(* is what they name.                                                      *)
(***************************************************************************)
EXTENDS ReportContext, FiniteSetTheorems, SequenceTheorems, WellFoundedInduction, TLAPS

-----------------------------------------------------------------------------
\* Natural numbers: the least of some of them, and induction over a set of them.
Below == {p \in Nat \X Nat : p[1] < p[2]}

LEMMA BelowWF == IsWellFoundedOn(Below, Nat)
BY NatLessThanWellFounded, Zenon DEF OpToRel, Below

LEMMA Least ==
  ASSUME NEW T \in SUBSET Nat, T # {}
  PROVE  \E x \in T : \A y \in T : x <= y
<1>1. PICK x \in T : \A y \in T : <<y, x>> \notin Below
  BY BelowWF, WFMin
<1>2. ASSUME NEW y \in T PROVE x <= y
  <2>1. y < x => <<y, x>> \in Below
    <3>1. <<y, x>>[1] = y /\ <<y, x>>[2] = x /\ <<y, x>> \in Nat \X Nat
      BY SMT
    <3> QED
      BY <3>1, Zenon DEF Below
  <2> QED
    BY <1>1, <2>1, SMT
<1> QED
  BY <1>2

LEMMA Induct ==
  ASSUME NEW n \in Nat, NEW S, 0 \in S, \A i \in 0..(n - 1) : i \in S => i + 1 \in S
  PROVE  \A i \in 0..n : i \in S
<1> SUFFICES ASSUME NEW b \in 0..n, b \notin S PROVE FALSE
  OBVIOUS
<1> DEFINE T == {i \in 0..n : i \notin S}
<1>0. T \in SUBSET Nat /\ T # {}
  OBVIOUS
<1>1. PICK x \in T : \A y \in T : x <= y
  BY <1>0, Least
<1>2. x # 0 /\ x - 1 \in 0..(n - 1) /\ x - 1 + 1 = x
  BY <1>1, SMT
<1>3. x - 1 \in S
  BY <1>1, <1>2, SMT
<1> QED
  BY <1>1, <1>2, <1>3

LEMMA MaxFacts ==
  ASSUME NEW n \in Nat, NEW S \in SUBSET (1..n), S # {}
  PROVE  Max(S) \in S /\ \A y \in S : y <= Max(S)
<1> DEFINE T == {m \in Nat : \A y \in S : y <= m}
<1>1. n \in T
  OBVIOUS
<1>2. PICK m \in T : \A k \in T : m <= k
  BY <1>1, Least
<1>3. m \in S
  <2> SUFFICES ASSUME m \notin S PROVE FALSE
    OBVIOUS
  <2>0. PICK y \in S : y \in 1..n /\ y <= m
    BY <1>2
  <2>1. m - 1 \in T
    <3>1. m - 1 \in Nat
      BY <1>2, <2>0
    <3>2. \A x \in S : x <= m - 1
      BY <1>2
    <3> QED
      BY <3>1, <3>2
  <2> QED
    BY <1>2, <2>1
<1>4. \E x \in S : \A y \in S : x >= y
  BY <1>2, <1>3
<1> QED
  BY <1>4 DEF Max

-----------------------------------------------------------------------------
\* The items of a sequence, and those at some of its places: each of them, and no other.
Items(h) == {h[i] : i \in DOMAIN h}

LEMMA OnlyFacts ==
  ASSUME NEW S, NEW s \in Seq(S), NEW P \in SUBSET DOMAIN s
  PROVE  /\ Only(s, P) \in Seq(S)
         /\ Items(Only(s, P)) = {s[p] : p \in P}
<1> DEFINE n == Cardinality(P)
           Upto(p) == {q \in P : q <= p}
           place == [p \in P |-> Cardinality(Upto(p))]
<1>1. IsFiniteSet(P) /\ n \in Nat /\ P \subseteq Nat
  <2>1. IsFiniteSet(1..Len(s)) /\ P \in SUBSET (1..Len(s))
    BY FS_Interval
  <2> QED
    BY <2>1, FS_Subset, FS_CardinalityType
<1>2. ASSUME NEW p \in P
      PROVE  IsFiniteSet(Upto(p)) /\ Cardinality(Upto(p)) \in 1..n
  <2>1. Upto(p) \in SUBSET P /\ p \in Upto(p)
    BY <1>1
  <2> HIDE DEF Upto
  <2>2. IsFiniteSet(Upto(p)) /\ Cardinality(Upto(p)) <= n
    BY <1>1, <2>1, FS_Subset
  <2>3. Cardinality(Upto(p)) \in Nat /\ Cardinality(Upto(p)) # 0
    BY <2>1, <2>2, FS_CardinalityType, FS_EmptySet
  <2> QED
    BY <1>1, <2>2, <2>3
<1>3. ASSUME NEW p \in P, NEW q \in P, p < q
      PROVE  Cardinality(Upto(p)) < Cardinality(Upto(q))
  <2>1. Upto(p) \in SUBSET Upto(q) /\ q \in Upto(q) /\ q \notin Upto(p)
    BY <1>1, <1>3
  <2> HIDE DEF Upto, n
  <2>2. /\ IsFiniteSet(Upto(q)) /\ Upto(p) # Upto(q)
        /\ Cardinality(Upto(p)) \in Nat /\ Cardinality(Upto(q)) \in Nat
    BY <1>1, <1>2, <2>1
  <2>3. Cardinality(Upto(p)) <= Cardinality(Upto(q)) /\ Cardinality(Upto(p)) # Cardinality(Upto(q))
    BY <2>1, <2>2, FS_Subset
  <2> QED
    BY <2>2, <2>3
<1>4. place \in [P -> 1..n]
  BY <1>2
<1>5. \A p, q \in P : place[p] = place[q] => p = q
  <2> HIDE DEF Upto
  <2>1. ASSUME NEW p \in P, NEW q \in P, place[p] = place[q] PROVE p = q
    <3>1. ~(p < q) /\ ~(q < p)
      BY <1>1, <1>2, <1>3, <2>1
    <3> QED
      BY <1>1, <3>1
  <2> QED
    BY <2>1
<1>6. \A k \in 1..n : \E p \in P : Cardinality(Upto(p)) = k
  <2> HIDE DEF n
  <2> DEFINE places == 1..n
  <2>1. place \in Injection(P, places)
    BY <1>4, <1>5 DEF Injection, IsInjective
  <2>2. IsFiniteSet(places) /\ Cardinality(places) = n
    <3>1. IsFiniteSet(places) /\ Cardinality(places) = IF 1 > n THEN 0 ELSE n - 1 + 1
      BY <1>1, FS_Interval
    <3> QED
      BY <1>1, <3>1
  <2>3. place \in Surjection(P, places)
    <3> HIDE DEF place, places
    <3> QED
      BY <2>1, <2>2, FS_Injection DEF n
  <2>4. \A k \in places : \E p \in P : place[p] = k
    BY <2>3 DEF Surjection
  <2> HIDE DEF Upto
  <2> QED
    BY <2>4
<1> DEFINE pick(k) == CHOOSE p \in P : Cardinality(Upto(p)) = k
           o == Only(s, P)
<1>7. \A k \in 1..n : pick(k) \in P /\ Cardinality(Upto(pick(k))) = k
  <2> HIDE DEF Upto
  <2> QED
    BY <1>6
<1>8. o = [k \in 1..n |-> s[pick(k)]]
  BY DEF Only
<1>9. \A p \in P : pick(Cardinality(Upto(p))) = p
  <2>1. ASSUME NEW p \in P PROVE pick(Cardinality(Upto(p))) = p
    <3> DEFINE q == pick(Cardinality(Upto(p)))
    <3>1. q \in P /\ Cardinality(Upto(q)) = Cardinality(Upto(p))
      BY <1>2, <1>7
    <3>2. place[q] = place[p]
      BY <3>1
    <3> HIDE DEF q, place
    <3> QED
      BY <1>5, <3>1, <3>2 DEF q
  <2> QED
    BY <2>1
<1> HIDE DEF pick, o, Upto, n
<1>10. o \in Seq(S)
  <2>1. \A k \in 1..n : s[pick(k)] \in S
    BY <1>7, ElementOfSeq
  <2> QED
    BY <1>1, <1>8, <2>1, IsASeq
<1>11. Items(o) = {s[p] : p \in P}
  <2>1. DOMAIN o = 1..n
    BY <1>8
  <2>2. \A k \in 1..n : o[k] \in {s[p] : p \in P}
    BY <1>7, <1>8
  <2>3. ASSUME NEW p \in P PROVE s[p] \in Items(o)
    <3>1. Cardinality(Upto(p)) \in 1..n /\ o[Cardinality(Upto(p))] = s[p]
      BY <1>2, <1>8, <1>9
    <3> QED
      BY <2>1, <3>1 DEF Items
  <2> QED
    BY <2>1, <2>2, <2>3 DEF Items
<1> QED
  BY <1>10, <1>11 DEF o

LEMMA ItemsConcat ==
  ASSUME NEW S, NEW s \in Seq(S), NEW t \in Seq(S)
  PROVE  s \o t \in Seq(S) /\ Items(s \o t) = Items(s) \cup Items(t)
<1> DEFINE u == s \o t
           a == Len(s)
           b == Len(t)
<1>1. /\ u \in Seq(S) /\ Len(u) = a + b
      /\ \A i \in 1..(a + b) : u[i] = IF i <= a THEN s[i] ELSE t[i - a]
  BY ConcatProperties
<1>2. /\ a \in Nat /\ b \in Nat
      /\ DOMAIN s = 1..a /\ DOMAIN t = 1..b /\ DOMAIN u = 1..(a + b)
  BY <1>1, LenProperties
<1> HIDE DEF u, a, b
<1>3. \A i \in 1..a : i \in 1..(a + b) /\ u[i] = s[i]
  BY <1>1, <1>2
<1>4. ASSUME NEW i \in 1..b PROVE a + i \in 1..(a + b) /\ u[a + i] = t[i]
  <2> PICK j : j = a + i
    OBVIOUS
  <2>1. j \in 1..(a + b) /\ ~(j <= a) /\ j - a = i
    BY <1>2
  <2>2. u[j] = t[j - a]
    BY <1>1, <2>1
  <2> QED
    BY <2>1, <2>2
<1>5. ASSUME NEW i \in 1..(a + b) PROVE i \in 1..a \/ (i - a \in 1..b /\ u[i] = t[i - a])
  <2>1. CASE i <= a
    BY <1>2, <2>1
  <2>2. CASE ~(i <= a)
    <3>1. i - a \in 1..b
      BY <1>2, <2>2
    <3> QED
      BY <1>1, <2>2, <3>1
  <2> QED
    BY <2>1, <2>2
<1>6. Items(u) \subseteq Items(s) \cup Items(t)
  BY <1>2, <1>3, <1>5 DEF Items
<1>7. Items(s) \subseteq Items(u) /\ Items(t) \subseteq Items(u)
  BY <1>2, <1>3, <1>4 DEF Items
<1> QED
  BY <1>1, <1>6, <1>7 DEF u

LEMMA ItemsOne ==
  ASSUME NEW S, NEW e \in S
  PROVE  <<e>> \in Seq(S) /\ Items(<<e>>) = {e}
BY DEF Items

LEMMA ItemsAppend ==
  ASSUME NEW S, NEW s \in Seq(S), NEW e \in S
  PROVE  Append(s, e) \in Seq(S) /\ Items(Append(s, e)) = Items(s) \cup {e}
<1> DEFINE t == <<e>>
<1>1. Append(s, e) = s \o t
  BY AppendIsConcat
<1>2. t \in Seq(S) /\ Items(t) = {e}
  BY ItemsOne
<1> HIDE DEF t
<1>3. s \o t \in Seq(S) /\ Items(s \o t) = Items(s) \cup Items(t)
  BY <1>2, ItemsConcat
<1> QED
  BY <1>1, <1>2, <1>3

LEMMA ItemsSubSeq ==
  ASSUME NEW S, NEW s \in Seq(S), NEW m \in 1..(Len(s) + 1), NEW n \in 0..Len(s)
  PROVE  SubSeq(s, m, n) \in Seq(S) /\ Items(SubSeq(s, m, n)) = {s[i] : i \in m..n}
<1> DEFINE u == SubSeq(s, m, n)
<1>0. m \in Int /\ n \in Int /\ m..n \subseteq 1..Len(s)
  BY LenProperties
<1>1. /\ u \in Seq(S) /\ Len(u) = (IF m <= n THEN n - m + 1 ELSE 0)
      /\ \A i \in 1..(n - m + 1) : u[i] = s[m + i - 1]
  BY <1>0, ElementOfSeq, SubSeqProperties
<1>2. DOMAIN u = 1..Len(u)
  BY <1>1, LenProperties
<1> HIDE DEF u
<1>3. \A i \in 1..Len(u) : m + i - 1 \in m..n /\ u[i] = s[m + i - 1]
  BY <1>0, <1>1
<1>4. ASSUME NEW i \in m..n PROVE i - m + 1 \in 1..Len(u) /\ u[i - m + 1] = s[i]
  <2>1. i - m + 1 \in 1..Len(u) /\ i - m + 1 \in 1..(n - m + 1) /\ m + (i - m + 1) - 1 = i
    BY <1>0, <1>1
  <2>2. u[i - m + 1] = s[m + (i - m + 1) - 1]
    BY <1>1, <2>1
  <2> QED
    BY <2>1, <2>2
<1>5. Items(u) \subseteq {s[i] : i \in m..n}
  BY <1>2, <1>3 DEF Items
<1>6. {s[i] : i \in m..n} \subseteq Items(u)
  BY <1>2, <1>4 DEF Items
<1> QED
  BY <1>1, <1>5, <1>6 DEF u

-----------------------------------------------------------------------------
\* One directive: what lies in its span goes, and its card comes instead.
Acc == [history : Seq(Item), removed : Nat]
InSpan(x, d) == IsRound(x) /\ x.rounds \subseteq d.span
CardOf(d) == [kind |-> "card", rounds |-> d.span, tag |-> d.handle]

LEMMA ApplyFacts ==
  ASSUME NEW acc \in Acc, NEW d \in Directive
  PROVE  LET X == Items(acc.history)
             gone == {x \in X : InSpan(x, d)}
         IN  /\ ApplyDirective(acc, d) \in Acc
             /\ Items(ApplyDirective(acc, d).history) = IF gone = {} THEN X ELSE (X \ gone) \cup {CardOf(d)}
<1> DEFINE h == acc.history
           n == Len(h)
           X == Items(h)
           gone == {i \in DOMAIN h : IsRound(h[i]) /\ h[i].rounds \subseteq d.span}
           last == Max(gone)
           card == CardOf(d)
           new == Only(h, 1..last \ gone) \o <<card>> \o SubSeq(h, last + 1, n)
<1>1. h \in Seq(Item) /\ acc.removed \in Nat /\ n \in Nat /\ DOMAIN h = 1..n
  BY LenProperties DEF Acc
<1>2. \A i \in DOMAIN h : i \in gone <=> InSpan(h[i], d)
  BY DEF InSpan
<1>3. {x \in X : InSpan(x, d)} = {} <=> gone = {}
  BY <1>2 DEF Items, InSpan
<1>4. CASE gone = {}
  <2>1. ApplyDirective(acc, d) = acc
    BY <1>4 DEF ApplyDirective
  <2> QED
    BY <1>3, <1>4, <2>1
<1>5. CASE gone # {}
  <2>1. ApplyDirective(acc, d) = [history |-> new, removed |-> acc.removed + Cardinality(d.span)]
    BY <1>5 DEF ApplyDirective, CardOf
  <2>2. Cardinality(d.span) \in Nat
    <3>1. d.span \in SUBSET (1..MaxRounds) /\ IsFiniteSet(1..MaxRounds)
      BY FS_Interval, ArchiveAssumption DEF Directive, Rounds
    <3> QED
      BY <3>1, FS_Subset, FS_CardinalityType
  <2>3. last \in gone /\ \A i \in gone : i <= last
    <3>1. gone \in SUBSET (1..n)
      BY <1>1
    <3> HIDE DEF gone
    <3> QED
      BY <1>1, <1>5, <3>1, MaxFacts
  <2>4. card \in Item
    BY DEF CardOf, Item, Directive
  <2>5. last \in 1..n
    BY <1>1, <2>3
  <2> HIDE DEF gone, last, card
  <2> DEFINE before == Only(h, 1..last \ gone)
             after  == SubSeq(h, last + 1, n)
  <2>6. before \in Seq(Item) /\ Items(before) = {h[i] : i \in 1..last \ gone}
    <3>1. 1..last \ gone \in SUBSET DOMAIN h
      BY <1>1, <2>5
    <3> QED
      BY <1>1, <3>1, OnlyFacts
  <2>7. after \in Seq(Item) /\ Items(after) = {h[i] : i \in (last + 1)..n}
    <3>1. last + 1 \in 1..(Len(h) + 1) /\ n \in 0..Len(h)
      BY <1>1, <2>5
    <3> QED
      BY <1>1, <3>1, ItemsSubSeq
  <2> DEFINE one  == <<card>>
             most == before \o one
  <2>8. one \in Seq(Item) /\ Items(one) = {card}
    BY <2>4, ItemsOne
  <2>15. new = most \o after
    OBVIOUS
  <2> HIDE DEF before, after, one, new
  <2>9. most \in Seq(Item) /\ Items(most) = Items(before) \cup {card}
    BY <2>6, <2>8, ItemsConcat
  <2> HIDE DEF most
  <2>10. new \in Seq(Item) /\ Items(new) = Items(before) \cup {card} \cup Items(after)
    BY <2>7, <2>9, <2>15, ItemsConcat
  <2>11. \A i \in DOMAIN h : i \notin gone <=> i \in (1..last \ gone) \/ i \in (last + 1)..n
    BY <1>1, <2>3, <2>5
  <2>12. Items(before) \cup Items(after) = X \ {x \in X : InSpan(x, d)}
    <3>1. (1..last \ gone) \cup (last + 1)..n \subseteq DOMAIN h
      BY <1>1, <2>5
    <3>2. X = {h[i] : i \in DOMAIN h}
      BY DEF Items
    <3> HIDE DEF X, h
    <3> QED
      BY <1>2, <2>6, <2>7, <2>11, <3>1, <3>2
  <2>13. acc.removed + Cardinality(d.span) \in Nat
    BY <1>1, <2>2
  <2>14. ApplyDirective(acc, d) \in Acc /\ ApplyDirective(acc, d).history = new
    BY <2>1, <2>10, <2>13 DEF Acc
  <2> QED
    BY <1>3, <1>5, <2>10, <2>12, <2>14 DEF card
<1> QED
  BY <1>4, <1>5

\* What directives make of the items: whatever was in a span is gone, whatever is gone was in
\* a span, every round has its item or a card, and nothing but cards is new.
Rebuilt(X, Y, D) ==
    /\ \A y \in Y : y \in X \/ \E d \in D : y = CardOf(d)
    /\ \A x \in X : x \in Y \/ \E d \in D : InSpan(x, d)
    /\ \A x \in X : \A r \in x.rounds : \E y \in Y : r \in y.rounds
    /\ \A y \in Y, d \in D : ~InSpan(y, d)

LEMMA RebuiltStep ==
  ASSUME NEW X, NEW Y, NEW D, Rebuilt(X, Y, D), NEW d, NEW Z,
         NEW gone, gone = {y \in Y : InSpan(y, d)},
         Z = IF gone = {} THEN Y ELSE (Y \ gone) \cup {CardOf(d)}
  PROVE  Rebuilt(X, Z, D \cup {d})
<1>1. \A c : ~InSpan(CardOf(d), c)
  BY DEF InSpan, CardOf, IsRound
<1>2. CardOf(d).rounds = d.span
  BY DEF CardOf
<1>3. \A y \in Y : y \in Z \/ (InSpan(y, d) /\ CardOf(d) \in Z)
  OBVIOUS
<1>4. \A z \in Z : z \in Y \/ z = CardOf(d)
  OBVIOUS
<1>5. \A z \in Z : ~InSpan(z, d)
  <2>1. \A y \in Y : y \in gone <=> InSpan(y, d)
    OBVIOUS
  <2> QED
    BY <1>1, <2>1
<1>6. ASSUME NEW x \in X, NEW r \in x.rounds PROVE \E z \in Z : r \in z.rounds
  <2>1. PICK y \in Y : r \in y.rounds
    BY DEF Rebuilt
  <2>2. CASE y \in Z
    BY <2>1, <2>2
  <2>3. CASE InSpan(y, d) /\ CardOf(d) \in Z
    BY <1>2, <2>1, <2>3 DEF InSpan
  <2> QED
    BY <1>3, <2>2, <2>3
<1>7. \A z \in Z : z \in X \/ \E c \in D \cup {d} : z = CardOf(c)
  BY <1>4 DEF Rebuilt
<1>8. \A x \in X : x \in Z \/ \E c \in D \cup {d} : InSpan(x, c)
  BY <1>3 DEF Rebuilt
<1>9. \A z \in Z, c \in D \cup {d} : ~InSpan(z, c)
  BY <1>1, <1>4, <1>5 DEF Rebuilt
<1> HIDE DEF InSpan
<1> QED
  BY <1>6, <1>7, <1>8, <1>9 DEF Rebuilt

\* before_model: all the pending directives, whatever their number.
LEMMA RebuildFacts ==
  ASSUME NEW start \in Acc, NEW ds \in Seq(Directive)
  PROVE  /\ Rebuild(start, ds) \in Acc
         /\ Rebuilt(Items(start.history), Items(Rebuild(start, ds).history), Items(ds))
<1> DEFINE n == Len(ds)
           X == Items(start.history)
           Chain(g, i) == /\ DOMAIN g = 0..i /\ g[0] = start
                          /\ \A k \in 1..i : g[k] = ApplyDirective(g[k - 1], ds[k])
           Good(acc, i) == acc \in Acc /\ Rebuilt(X, Items(acc.history), {ds[k] : k \in 1..i})
           S == {i \in 0..n : \E g : Chain(g, i) /\ Good(g[i], i)}
<1>1. n \in Nat /\ DOMAIN ds = 1..n /\ \A i \in 1..n : ds[i] \in Directive
  BY LenProperties, ElementOfSeq
<1>2. 0 \in S
  <2>1. Good(start, 0)
    <3>1. Rebuilt(X, X, {})
      BY DEF Rebuilt
    <3>2. {ds[k] : k \in 1..0} = {}
      OBVIOUS
    <3> HIDE DEF X
    <3> QED
      BY <3>1, <3>2 DEF X
  <2> DEFINE g == [i \in 0..0 |-> start]
  <2>2. Chain(g, 0) /\ g[0] = start
    OBVIOUS
  <2>3. 0 \in 0..n
    BY <1>1
  <2> HIDE DEF Good, Chain, g
  <2> QED
    BY <2>1, <2>2, <2>3
<1>3. ASSUME NEW i \in 0..(n - 1), i \in S PROVE i + 1 \in S
  <2>1. PICK g : Chain(g, i) /\ Good(g[i], i)
    BY <1>3
  <2> DEFINE acc == g[i]
             d   == ds[i + 1]
             new == ApplyDirective(acc, d)
             f   == [k \in 0..(i + 1) |-> IF k = i + 1 THEN new ELSE g[k]]
  <2>0. i \in Nat /\ i + 1 \in 0..n /\ i + 1 \in 1..n /\ d \in Directive
    BY <1>1
  <2>2. Chain(f, i + 1) /\ f[i + 1] = new
    <3>1. DOMAIN f = 0..(i + 1) /\ f[i + 1] = new /\ f[i] = acc /\ f[0] = start
      BY <2>0, <2>1
    <3>2. ASSUME NEW k \in 1..(i + 1) PROVE f[k] = ApplyDirective(f[k - 1], ds[k])
      <4>1. CASE k = i + 1
        <5>1. k - 1 = i
          BY <2>0, <4>1
        <5> HIDE DEF f, new
        <5> QED
          BY <3>1, <4>1, <5>1 DEF new
      <4>2. CASE k # i + 1
        <5>1. k \in 1..i /\ k \in 0..(i + 1) /\ k - 1 \in 0..(i + 1) /\ k - 1 # i + 1
          BY <2>0, <4>2
        <5>2. f[k] = g[k] /\ f[k - 1] = g[k - 1]
          BY <4>2, <5>1
        <5> HIDE DEF f
        <5> QED
          BY <2>1, <5>1, <5>2
      <4> QED
        BY <4>1, <4>2
    <3> HIDE DEF f
    <3> QED
      BY <3>1, <3>2
  <2>3. Good(new, i + 1)
    <3> DEFINE Y == Items(acc.history)
               Z == Items(new.history)
               D == {ds[k] : k \in 1..i}
               gone == {y \in Y : InSpan(y, d)}
    <3>1. acc \in Acc /\ Rebuilt(X, Y, D)
      BY <2>1
    <3>2. new \in Acc /\ Z = IF gone = {} THEN Y ELSE (Y \ gone) \cup {CardOf(d)}
      <4> HIDE DEF acc, d
      <4> QED
        BY <2>0, <3>1, ApplyFacts
    <3>3. D \cup {d} = {ds[k] : k \in 1..(i + 1)}
      <4>1. \A k : k \in 1..(i + 1) <=> k \in 1..i \/ k = i + 1
        BY <2>0
      <4> QED
        BY <4>1
    <3> HIDE DEF X, Y, Z, D, d
    <3>4. Rebuilt(X, Z, D \cup {d})
      BY <3>1, <3>2, RebuiltStep
    <3> QED
      BY <3>2, <3>3, <3>4 DEF Z
  <2> HIDE DEF Good, Chain, f, new
  <2> QED
    BY <2>0, <2>2, <2>3
<1>4. n \in S
  <2> HIDE DEF S
  <2>1. \A i \in 0..n : i \in S
    BY <1>1, <1>2, <1>3, Induct
  <2> QED
    BY <1>1, <2>1
<1>5. PICK g : Chain(g, n) /\ Good(g[n], n)
  BY <1>4
<1> DEFINE Is(f) == f = [i \in 0..n |-> IF i = 0 THEN start ELSE ApplyDirective(f[i - 1], ds[i])]
           h == CHOOSE f : Is(f)
           T == {i \in 0..n : h[i] = g[i]}
<1>6. \E f : Is(f)
  <2> DEFINE f == [i \in 0..n |-> g[i]]
  <2>1. \A i \in 0..n : f[i] = IF i = 0 THEN start ELSE ApplyDirective(f[i - 1], ds[i])
    <3>1. ASSUME NEW i \in 0..n PROVE f[i] = IF i = 0 THEN start ELSE ApplyDirective(f[i - 1], ds[i])
      <4>1. CASE i = 0
        BY <1>5, <4>1
      <4>2. CASE i # 0
        <5>1. i \in 1..n /\ i - 1 \in 0..n
          BY <1>1, <4>2
        <5>2. f[i] = g[i] /\ f[i - 1] = g[i - 1]
          BY <5>1
        <5> HIDE DEF f
        <5> QED
          BY <1>5, <4>2, <5>1, <5>2
      <4> QED
        BY <4>1, <4>2
    <3> QED
      BY <3>1
  <2>2. DOMAIN f = 0..n /\ f = [i \in 0..n |-> f[i]]
    OBVIOUS
  <2> HIDE DEF f
  <2>3. Is(f)
    BY <2>1, <2>2
  <2> HIDE DEF Is
  <2> QED
    BY <2>3
<1>7. Is(h)
  <2> HIDE DEF Is
  <2> QED
    BY <1>6, Zenon
<1>8. Rebuild(start, ds) = h[n]
  BY DEF Rebuild
<1> HIDE DEF h
<1>9. 0 \in T
  BY <1>1, <1>5, <1>7
<1>10. ASSUME NEW i \in 0..(n - 1), i \in T PROVE i + 1 \in T
  <2>1. i + 1 \in 0..n /\ i + 1 \in 1..n /\ i + 1 # 0 /\ i + 1 - 1 = i
    BY <1>1
  <2>2. h[i + 1] = ApplyDirective(h[i], ds[i + 1])
    BY <1>7, <2>1
  <2>3. g[i + 1] = ApplyDirective(g[i], ds[i + 1])
    BY <1>5, <2>1
  <2> QED
    BY <1>10, <2>1, <2>2, <2>3
<1>11. h[n] = g[n]
  <2>1. \A i \in 0..n : i \in T
    <3> HIDE DEF T
    <3> QED
      BY <1>1, <1>9, <1>10, Induct
  <2> QED
    BY <1>1, <2>1
<1>12. Items(ds) = {ds[k] : k \in 1..n}
  BY <1>1 DEF Items
<1> HIDE DEF n, X
<1> QED
  BY <1>5, <1>8, <1>11, <1>12 DEF X

-----------------------------------------------------------------------------
\* The invariant: the type; a live item is one round that has been; what is stored, pending
\* and archived has been too; a call holds a span only once it has begun, and where it has
\* ended the store holds it; what is archived and still live is about to go; and the three
\* places every round is looked for in.
LiveOnes == \A x \in Items(history) : IsRound(x) => \E r \in 1..round : x.rounds = {r}

Stored ==
    /\ archived \subseteq 1..round
    /\ \A k \in DOMAIN blocks : blocks[k] \subseteq 1..round
    /\ \A d \in Items(pending) : d.span \subseteq index
    /\ \A c \in Calls : call[c].span \subseteq 1..round

CallOK(c) ==
    /\ phase # "tools" => call[c] = NoCall
    /\ call[c].pc \in {"idle", "span"} => call[c].span = {}
    /\ call[c].pc = "store" => call[c].handle \in 1..(Len(blocks) + 1)
    /\ call[c].pc = "end" /\ call[c].span # {} =>
          call[c].handle \in DOMAIN blocks /\ call[c].span \subseteq index

Going ==
    /\ phase \in {"model", "tools", "over"} => pending = <<>> /\ LiveRounds \cap archived = {}
    /\ phase \in {"summary", "rewrite"} =>
          \A r \in LiveRounds \cap archived : \E d \in Items(pending) : r \in d.span

Within ==
    /\ 1..round \subseteq LiveRounds \cup Carded \cup lost
    /\ 1..round \subseteq LiveRounds \cup lost \cup index

IInv == TypeOK /\ LiveOnes /\ Stored /\ (\A c \in Calls : CallOK(c)) /\ Going /\ Within

\* The sets of the model read off the items.
LiveIn(r, h) == \E x \in Items(h) : IsRound(x) /\ r \in x.rounds
CardIn(r, h) == \E x \in Items(h) : ~IsRound(x) /\ r \in x.rounds

LEMMA Reads ==
  /\ \A r : r \in LiveRounds <=> LiveIn(r, history)
  /\ \A r : r \in Carded <=> CardIn(r, history)
BY DEF LiveRounds, Carded, LiveAt, RoundsAt, LiveIn, CardIn, Items

LEMMA ReadsNext ==
  /\ \A r : r \in LiveRounds' <=> LiveIn(r, history')
  /\ \A r : r \in Carded' <=> CardIn(r, history')
BY DEF LiveRounds, Carded, LiveAt, RoundsAt, LiveIn, CardIn, Items

HandlesOK(h, ds, k) ==
    /\ \A x \in Items(h) : ~IsRound(x) => x.tag \in k
    /\ \A d \in Items(ds) : d.handle \in k

LEMMA HandlesRead == Handles \subseteq DOMAIN blocks <=> HandlesOK(history, pending, DOMAIN blocks)
BY DEF Handles, HandlesOK, Items

LEMMA HandlesReadNext == (Handles \subseteq DOMAIN blocks)' <=> HandlesOK(history', pending', DOMAIN blocks')
BY DEF Handles, HandlesOK, Items

LEMMA InitInv == Init => IInv
<1> SUFFICES ASSUME Init PROVE IInv
  OBVIOUS
<1>1. Items(<<>>) = {}
  BY DEF Items
<1>2. \A r : r \notin LiveRounds
  BY <1>1, Reads DEF Init, LiveIn
<1>3. TypeOK
  <2>1. HandlesOK(history, pending, DOMAIN blocks)
    BY <1>1 DEF Init, HandlesOK
  <2>2. history \in Seq(Item) /\ pending \in Seq(Directive) /\ blocks \in Seq(SUBSET Rounds)
    BY EmptySeq DEF Init
  <2>3. call \in [Calls -> Call]
    BY DEF Init, Call, NoCall
  <2> QED
    BY <2>1, <2>2, <2>3, HandlesRead, ArchiveAssumption DEF Init, TypeOK
<1>4. LiveOnes /\ Stored /\ (\A c \in Calls : CallOK(c))
  BY <1>1 DEF Init, LiveOnes, Stored, CallOK, NoCall
<1>5. Going /\ Within
  BY <1>2 DEF Init, Going, Within
<1> QED
  BY <1>3, <1>4, <1>5 DEF IInv

\* A summary takes a prefix; its rounds are counted as lost.
LEMMA SummarizeInv == ASSUME IInv, Summarize PROVE IInv'
<1>1. PICK k \in 1..(Len(history) - 1) :
         /\ history' = SubSeq(history, k + 1, Len(history))
         /\ lost' = lost \cup RoundsAt(1..k)
  BY DEF Summarize
<1>2. /\ phase = "summary" /\ phase' = "rewrite" /\ summaries' = summaries + 1 /\ summaries < MaxSummaries
      /\ UNCHANGED <<round, roundsArchived, archived, pending, blocks, index, call>>
  BY DEF Summarize, store
<1>3. TypeOK
  BY DEF IInv
<1>4. /\ history \in Seq(Item) /\ Len(history) \in Nat /\ DOMAIN history = 1..Len(history)
      /\ \A i \in DOMAIN history : history[i] \in Item
  BY <1>3, LenProperties, ElementOfSeq DEF TypeOK
<1>5. history' \in Seq(Item) /\ Items(history') = {history[i] : i \in (k + 1)..Len(history)}
  <2>1. k + 1 \in 1..(Len(history) + 1) /\ Len(history) \in 0..Len(history)
    BY <1>4
  <2> QED
    BY <1>1, <1>4, <2>1, ItemsSubSeq
<1>6. /\ Items(history') \subseteq Items(history)
      /\ \A x \in Items(history) : x \in Items(history') \/ \E i \in 1..k : x = history[i]
  <2>1. \A i \in 1..Len(history) : i \in 1..k \/ i \in (k + 1)..Len(history)
    BY <1>4
  <2>2. (k + 1)..Len(history) \subseteq 1..Len(history)
    BY <1>4
  <2> QED
    BY <1>4, <1>5, <2>1, <2>2 DEF Items
<1>7. \A x \in Items(history) : \A r \in x.rounds : x \in Items(history') \/ r \in lost'
  BY <1>1, <1>6 DEF RoundsAt
<1>8. lost' \subseteq Rounds /\ lost \subseteq lost'
  <2>1. \A i \in 1..k : history[i].rounds \subseteq Rounds
    BY <1>4 DEF Item
  <2> QED
    BY <1>1, <1>3, <2>1 DEF RoundsAt, TypeOK
<1>9. /\ \A r : r \in LiveRounds' => r \in LiveRounds
      /\ \A r : r \in LiveRounds => r \in LiveRounds' \/ r \in lost'
      /\ \A r : r \in Carded => r \in Carded' \/ r \in lost'
  BY <1>6, <1>7, Reads, ReadsNext DEF LiveIn, CardIn
<1>10. TypeOK'
  <2>1. HandlesOK(history', pending', DOMAIN blocks')
    BY <1>2, <1>3, <1>6, HandlesRead DEF TypeOK, HandlesOK
  <2>2. summaries' \in 0..MaxSummaries
    BY <1>2, <1>3, ArchiveAssumption DEF TypeOK
  <2> QED
    BY <1>2, <1>3, <1>5, <1>8, <2>1, <2>2, HandlesReadNext DEF TypeOK
<1>11. LiveOnes'
  BY <1>2, <1>6 DEF IInv, LiveOnes
<1>12. Stored' /\ (\A c \in Calls : CallOK(c))'
  BY <1>2 DEF IInv, Stored, CallOK
<1>13. Going'
  BY <1>2, <1>9 DEF IInv, Going
<1>14. Within'
  BY <1>2, <1>8, <1>9 DEF IInv, Within
<1> QED
  BY <1>10, <1>11, <1>12, <1>13, <1>14 DEF IInv

\* The rewrite: what was archived goes, its card stays.
LEMMA RewriteInv == ASSUME IInv, Rewrite PROVE IInv'
<1> DEFINE start == [history |-> history, removed |-> 0]
           done  == Rebuild(start, pending)
<1>1. /\ phase = "rewrite" /\ phase' = "model" /\ pending' = <<>>
      /\ history' = done.history /\ roundsArchived' = roundsArchived + done.removed
      /\ UNCHANGED <<round, archived, blocks, index, call, lost, summaries>>
  BY DEF Rewrite, store
<1>2. TypeOK
  BY DEF IInv
<1>3. done \in Acc /\ Rebuilt(Items(history), Items(history'), Items(pending))
  <2>1. start \in Acc /\ start.history = history /\ pending \in Seq(Directive)
    BY <1>2 DEF Acc, TypeOK
  <2> HIDE DEF start
  <2> QED
    BY <1>1, <2>1, RebuildFacts
<1> HIDE DEF done
<1>4. history' \in Seq(Item) /\ roundsArchived' \in Nat
  BY <1>1, <1>2, <1>3 DEF Acc, TypeOK
<1>5. Items(<<>>) = {}
  BY DEF Items
<1>6. \A x \in Items(history') : IsRound(x) => x \in Items(history)
  BY <1>3 DEF Rebuilt, CardOf, IsRound
<1>7. \A d \in Items(pending) : d.span \subseteq index /\ d.handle \in DOMAIN blocks
  BY <1>2, HandlesRead DEF IInv, Stored, TypeOK, HandlesOK
<1>8. TypeOK'
  <2>1. HandlesOK(history', pending', DOMAIN blocks')
    <3>1. \A x \in Items(history') : ~IsRound(x) => x.tag \in DOMAIN blocks
      <4>1. \A x \in Items(history) : ~IsRound(x) => x.tag \in DOMAIN blocks
        BY <1>2, HandlesRead DEF TypeOK, HandlesOK
      <4>2. \A d \in Items(pending) : CardOf(d).tag \in DOMAIN blocks
        BY <1>7 DEF CardOf
      <4> QED
        BY <1>3, <4>1, <4>2 DEF Rebuilt
    <3> QED
      BY <1>1, <1>5, <3>1 DEF HandlesOK
  <2>2. pending' \in Seq(Directive)
    BY <1>1, EmptySeq
  <2> QED
    BY <1>1, <1>2, <1>4, <2>1, <2>2, HandlesReadNext DEF TypeOK
<1>9. \A r : r \in LiveRounds' => r \in LiveRounds
  BY <1>6, Reads, ReadsNext DEF LiveIn
<1>10. LiveOnes'
  BY <1>1, <1>6 DEF IInv, LiveOnes
<1>11. Stored' /\ (\A c \in Calls : CallOK(c))'
  BY <1>1, <1>5 DEF IInv, Stored, CallOK
<1>12. Going'
  <2>1. ASSUME NEW r \in LiveRounds', r \in archived PROVE FALSE
    <3>1. PICK x \in Items(history') : IsRound(x) /\ r \in x.rounds
      BY ReadsNext DEF LiveIn
    <3>2. PICK d \in Items(pending) : r \in d.span
      BY <1>1, <1>9, <2>1 DEF IInv, Going
    <3>3. x.rounds = {r}
      BY <1>6, <3>1 DEF IInv, LiveOnes
    <3>4. InSpan(x, d)
      BY <3>1, <3>2, <3>3 DEF InSpan
    <3> QED
      BY <1>3, <3>1, <3>2, <3>4 DEF Rebuilt
  <2> QED
    BY <1>1, <2>1 DEF Going
<1>13. Within'
  <2>1. \A r : r \in LiveRounds \/ r \in Carded => r \in LiveRounds' \/ r \in Carded'
    BY <1>3, Reads, ReadsNext DEF Rebuilt, LiveIn, CardIn
  <2>2. ASSUME NEW r \in LiveRounds PROVE r \in LiveRounds' \/ r \in index
    <3>1. PICK x \in Items(history) : IsRound(x) /\ r \in x.rounds
      BY Reads DEF LiveIn
    <3>2. CASE x \in Items(history')
      BY <3>1, <3>2, ReadsNext DEF LiveIn
    <3>3. ASSUME NEW d \in Items(pending), InSpan(x, d) PROVE r \in index
      BY <1>7, <3>1, <3>3 DEF InSpan
    <3> QED
      BY <1>3, <3>2, <3>3 DEF Rebuilt
  <2> QED
    BY <1>1, <2>1, <2>2 DEF IInv, Within
<1> QED
  BY <1>8, <1>10, <1>11, <1>12, <1>13 DEF IInv

\* Hooks that pass the state on.
LEMMA PassInv ==
  ASSUME IInv,
         UNCHANGED <<round, history, roundsArchived, archived, pending, blocks, index, call, lost, summaries>>,
         \/ phase = "summary" /\ phase' = "rewrite"
         \/ phase = "model" /\ phase' = "over"
         \/ phase' = phase
  PROVE  IInv'
<1>1. /\ \A r : r \in LiveRounds' <=> r \in LiveRounds
      /\ \A r : r \in Carded' <=> r \in Carded
  BY Reads, ReadsNext
<1>2. TypeOK'
  <2>1. HandlesOK(history', pending', DOMAIN blocks')
    BY HandlesRead DEF IInv, TypeOK
  <2> QED
    BY <2>1, HandlesReadNext DEF IInv, TypeOK
<1>3. LiveOnes' /\ Stored' /\ (\A c \in Calls : CallOK(c))'
  BY DEF IInv, LiveOnes, Stored, CallOK
<1>4. Going'
  BY <1>1 DEF IInv, Going, TypeOK
<1>5. Within'
  BY <1>1 DEF IInv, Within
<1> QED
  BY <1>2, <1>3, <1>4, <1>5 DEF IInv

\* A call that begins.
LEMMA Begun ==
  ASSUME NEW x \in Call, NEW m \in Nat
  PROVE  /\ [x EXCEPT !.pc = "span", !.from = m] \in Call
         /\ [x EXCEPT !.pc = "span", !.from = m].pc = "span"
         /\ [x EXCEPT !.pc = "span", !.from = m].span = x.span
<1>1. [x EXCEPT !.pc = "span", !.from = m] \in Call
  BY DEF Call
<1>2. /\ [x EXCEPT !.pc = "span", !.from = m].pc = "span"
      /\ [x EXCEPT !.pc = "span", !.from = m].span = x.span
  BY DEF Call
<1> QED
  BY <1>1, <1>2

\* A new round joins the history, the newest there is.
LEMMA ModelCallInv == ASSUME IInv, ModelCall PROVE IInv'
<1> DEFINE mark == roundsArchived + Cardinality(LiveAt) + 1
           item == [kind |-> "round", rounds |-> {round'}, tag |-> mark]
<1>1. /\ phase = "model" /\ phase' = "tools" /\ round < MaxRounds /\ round' = round + 1
      /\ history' = Append(history, item)
      /\ UNCHANGED <<roundsArchived, archived, pending, blocks, index, lost, summaries>>
  BY DEF ModelCall, store
<1>2. TypeOK
  BY DEF IInv
<1>3. /\ history \in Seq(Item) /\ DOMAIN history = 1..Len(history) /\ Len(history) \in Nat
      /\ \A i \in DOMAIN history : history[i] \in Item
  BY <1>2, LenProperties, ElementOfSeq DEF TypeOK
<1>4. mark \in Nat
  <2>1. IsFiniteSet(1..Len(history)) /\ LiveAt \in SUBSET (1..Len(history))
    BY <1>3, FS_Interval DEF LiveAt
  <2>2. Cardinality(LiveAt) \in Nat
    BY <2>1, FS_Subset, FS_CardinalityType
  <2> QED
    BY <1>2, <2>2 DEF TypeOK
<1>5. round \in Nat /\ round' \in Rounds /\ round' \in 0..MaxRounds /\ 1..round \subseteq 1..round'
      /\ \A r \in 1..round' : r \in 1..round \/ r = round'
  BY <1>1, <1>2, ArchiveAssumption DEF TypeOK, Rounds
<1>6. item \in Item /\ IsRound(item) /\ item.rounds = {round'}
  BY <1>4, <1>5 DEF Item, IsRound
<1> HIDE DEF item, mark
<1>7. history' \in Seq(Item) /\ Items(history') = Items(history) \cup {item}
  BY <1>1, <1>3, <1>6, ItemsAppend
<1>8. /\ \A r : r \in LiveRounds' <=> r \in LiveRounds \/ r = round'
      /\ \A r : r \in Carded' <=> r \in Carded
  BY <1>6, <1>7, Reads, ReadsNext DEF LiveIn, CardIn
<1>9. /\ call' \in [Calls -> Call]
      /\ \A c \in Calls : call'[c].pc \in {"idle", "span"} /\ call'[c].span = {}
  <2> DEFINE tags == {0} \cup {history[i].tag : i \in LiveAt}
             begun(m) == [NoCall EXCEPT !.pc = "span", !.from = m]
  <2>1. PICK C \in SUBSET Calls :
          \E from \in [C -> tags] :
             call' = [c \in Calls |->
                        IF c \in C THEN [NoCall EXCEPT !.pc = "span", !.from = from[c]] ELSE NoCall]
    BY DEF ModelCall
  <2>2. PICK from \in [C -> tags] :
             call' = [c \in Calls |->
                        IF c \in C THEN [NoCall EXCEPT !.pc = "span", !.from = from[c]] ELSE NoCall]
    BY <2>1
  <2>3. tags \subseteq Nat
    <3>1. ASSUME NEW i \in LiveAt PROVE history[i].tag \in Nat
      <4>1. i \in DOMAIN history
        BY <3>1 DEF LiveAt
      <4>2. history[i] \in Item
        BY <1>3, <4>1
      <4> QED
        BY <4>2 DEF Item
    <3> QED
      BY <3>1
  <2>4. NoCall \in Call /\ NoCall.pc = "idle" /\ NoCall.span = {}
    BY DEF NoCall, Call
  <2> HIDE DEF tags
  <2>5. \A c \in C : from[c] \in Nat
    BY <2>2, <2>3
  <2>6. ASSUME NEW m \in Nat
        PROVE  begun(m) \in Call /\ begun(m).pc = "span" /\ begun(m).span = {}
    BY <2>4, Begun, Zenon
  <2>7. \A c \in Calls : call'[c] = IF c \in C THEN [NoCall EXCEPT !.pc = "span", !.from = from[c]] ELSE NoCall
    BY <2>2
  <2> HIDE DEF begun
  <2>8. ASSUME NEW c \in Calls
        PROVE  call'[c] \in Call /\ call'[c].pc \in {"idle", "span"} /\ call'[c].span = {}
    <3>1. CASE c \in C
      <4>1. call'[c] = begun(from[c])
        BY <2>7, <3>1 DEF begun
      <4> QED
        BY <2>5, <2>6, <3>1, <4>1
    <3>2. CASE c \notin C
      <4>1. call'[c] = NoCall
        BY <2>7, <3>2
      <4> QED
        BY <2>4, <4>1
    <3> QED
      BY <3>1, <3>2
  <2>9. call' = [c \in Calls |-> call'[c]]
    BY <2>2
  <2> QED
    BY <2>8, <2>9
<1>10. TypeOK'
  <2>1. HandlesOK(history', pending', DOMAIN blocks')
    BY <1>1, <1>2, <1>6, <1>7, HandlesRead DEF TypeOK, HandlesOK
  <2> QED
    BY <1>1, <1>2, <1>5, <1>7, <1>9, <2>1, HandlesReadNext DEF TypeOK
<1>11. LiveOnes'
  <2>1. round' \in 1..round'
    BY <1>1, <1>5
  <2> QED
    BY <1>5, <1>6, <1>7, <2>1 DEF IInv, LiveOnes
<1>12. Stored'
  BY <1>1, <1>5, <1>9 DEF IInv, Stored
<1>13. (\A c \in Calls : CallOK(c))'
  BY <1>1, <1>9 DEF CallOK
<1>14. Going'
  <2>1. round' \notin archived
    BY <1>1, <1>5 DEF IInv, Stored
  <2> QED
    BY <1>1, <1>8, <2>1 DEF IInv, Going
<1>15. Within'
  BY <1>1, <1>5, <1>8 DEF IInv, Within
<1> QED
  BY <1>10, <1>11, <1>12, <1>13, <1>14, <1>15 DEF IInv

\* A span is made of live rounds.
LEMMA SpanLive == ASSUME IInv, NEW from PROVE Span(from) \subseteq LiveRounds /\ Span(from) \subseteq 1..round
<1>1. Span(from) \subseteq LiveRounds
  BY DEF Span, RoundsAt, Completed, LiveRounds
<1>2. LiveRounds \subseteq 1..round
  BY Reads DEF IInv, LiveOnes, LiveIn
<1> QED
  BY <1>1, <1>2

\* What a step of one call keeps, whatever the call does.
LEMMA CallStepInv ==
  ASSUME IInv, phase = "tools",
         UNCHANGED <<phase, round, history, roundsArchived, archived, pending, lost, summaries>>,
         NEW c \in Calls, NEW v \in Call, call' = [call EXCEPT ![c] = v],
         v.span \subseteq 1..round,
         blocks' \in Seq(SUBSET Rounds), Len(blocks) <= Len(blocks'),
         \A k \in DOMAIN blocks' : blocks'[k] \subseteq 1..round,
         index \subseteq index', index' \subseteq Rounds,
         CallOK(c)'
  PROVE  IInv'
<1>1. TypeOK /\ TypeOK
  BY DEF IInv
<1>2. DOMAIN blocks \subseteq DOMAIN blocks' /\ Len(blocks) \in Nat /\ Len(blocks') \in Nat
      /\ DOMAIN blocks = 1..Len(blocks) /\ DOMAIN blocks' = 1..Len(blocks')
  BY <1>1, LenProperties DEF TypeOK
<1>3. /\ call' \in [Calls -> Call] /\ call'[c] = v
      /\ \A d \in Calls \ {c} : call'[d] = call[d]
  BY <1>1 DEF TypeOK
<1>4. /\ \A r : r \in LiveRounds' <=> r \in LiveRounds
      /\ \A r : r \in Carded' <=> r \in Carded
  BY Reads, ReadsNext
<1>5. TypeOK'
  <2>1. HandlesOK(history', pending', DOMAIN blocks')
    BY <1>1, <1>2, HandlesRead DEF TypeOK, HandlesOK
  <2> QED
    BY <1>1, <1>3, <2>1, HandlesReadNext DEF TypeOK
<1>6. LiveOnes'
  BY DEF IInv, LiveOnes
<1>7. Stored'
  BY <1>3 DEF IInv, Stored
<1>8. ASSUME NEW d \in Calls PROVE CallOK(d)'
  <2>1. CASE d = c
    BY <2>1
  <2>2. CASE d # c
    <3>1. CallOK(d) /\ call'[d] = call[d]
      BY <1>3, <2>2 DEF IInv
    <3>2. 1..(Len(blocks) + 1) \subseteq 1..(Len(blocks') + 1)
      BY <1>2
    <3> QED
      BY <1>2, <3>1, <3>2 DEF CallOK
  <2> QED
    BY <2>1, <2>2
<1>9. Going'
  BY <1>4 DEF IInv, Going
<1>10. Within'
  BY <1>4 DEF IInv, Within
<1> QED
  BY <1>5, <1>6, <1>7, <1>8, <1>9, <1>10 DEF IInv

LEMMA ArchiveInv ==
  ASSUME IInv, NEW c \in Calls, ArchiveRefused(c) \/ ArchiveBegins(c) \/ ArchiveStores(c)
  PROVE  IInv'
<1>1. TypeOK /\ CallOK(c) /\ call[c] \in Call /\ call \in [Calls -> Call]
  BY DEF IInv, TypeOK
<1>2. /\ blocks \in Seq(SUBSET Rounds) /\ Len(blocks) \in Nat /\ DOMAIN blocks = 1..Len(blocks)
      /\ index \subseteq Rounds /\ round \in 0..MaxRounds /\ 1..round \subseteq Rounds
  BY <1>1, ArchiveAssumption, LenProperties DEF TypeOK, Rounds
<1>3. CASE ArchiveRefused(c)
  <2> DEFINE v == [NoCall EXCEPT !.pc = "end"]
  <2>1. v = [pc |-> "end", from |-> 0, handle |-> 0, span |-> {}] /\ v \in Call
    BY DEF NoCall, Call
  <2>2. /\ phase = "tools" /\ call' = [call EXCEPT ![c] = v]
        /\ UNCHANGED <<phase, round, history, roundsArchived, archived, pending, blocks, index, lost, summaries>>
    BY <1>3 DEF ArchiveRefused, context, store
  <2> HIDE DEF v
  <2>3. call'[c] = v /\ v.pc = "end" /\ v.span = {}
    BY <1>1, <2>1, <2>2
  <2>4. CallOK(c)'
    BY <2>2, <2>3 DEF CallOK
  <2>5. /\ v.span \subseteq 1..round /\ blocks' \in Seq(SUBSET Rounds) /\ Len(blocks) <= Len(blocks')
        /\ \A j \in DOMAIN blocks' : blocks'[j] \subseteq 1..round
        /\ index \subseteq index' /\ index' \subseteq Rounds
    BY <1>2, <2>2, <2>3 DEF IInv, Stored
  <2>6. v \in Call
    BY <2>1
  <2> QED
    BY <2>2, <2>4, <2>5, <2>6, CallStepInv
<1>4. CASE ArchiveBegins(c)
  <2>1. PICK x, m, s : x = call[c] /\ m = Len(blocks) + 1 /\ s = Span(call[c].from)
    OBVIOUS
  <2>2. PICK v : v = [x EXCEPT !.pc = "store", !.handle = m, !.span = s]
    OBVIOUS
  <2>3. s \subseteq 1..round /\ s \subseteq Rounds /\ x \in Call /\ m \in Nat /\ m \in 1..(Len(blocks) + 1)
    BY <1>1, <1>2, <2>1, SpanLive
  <2>4. v \in Call
    BY <2>2, <2>3 DEF Call
  <2>5. v.pc = "store" /\ v.handle = m /\ v.span = s
    BY <2>2, <2>3 DEF Call
  <2>6. /\ phase = "tools" /\ call' = [call EXCEPT ![c] = v]
        /\ UNCHANGED <<phase, round, history, roundsArchived, archived, pending, blocks, index, lost, summaries>>
    <3>1. call' = [call EXCEPT ![c].pc = "store", ![c].handle = m, ![c].span = s]
      BY <1>4, <2>1 DEF ArchiveBegins
    <3>2. call' = [call EXCEPT ![c] = v]
      BY <1>1, <2>1, <2>2, <3>1
    <3> QED
      BY <1>4, <3>2 DEF ArchiveBegins, context, store
  <2>7. call'[c] = v
    BY <1>1, <2>6
  <2>8. CallOK(c)'
    BY <2>3, <2>5, <2>6, <2>7 DEF CallOK
  <2>9. /\ v.span \subseteq 1..round /\ blocks' \in Seq(SUBSET Rounds) /\ Len(blocks) <= Len(blocks')
        /\ \A j \in DOMAIN blocks' : blocks'[j] \subseteq 1..round
        /\ index \subseteq index' /\ index' \subseteq Rounds
    BY <1>2, <2>3, <2>5, <2>6 DEF IInv, Stored
  <2> QED
    BY <2>4, <2>6, <2>8, <2>9, CallStepInv
<1>5. CASE ArchiveStores(c)
  <2> DEFINE v == [call[c] EXCEPT !.pc = "end"]
             k == call[c].handle
             b == call[c].span
  <2>1. v.pc = "end" /\ v.handle = k /\ v.span = b /\ v \in Call /\ b \subseteq Rounds
    BY <1>1 DEF Call
  <2>2. /\ phase = "tools" /\ call' = [call EXCEPT ![c] = v] /\ index' = index \cup b
        /\ blocks' = IF k > Len(blocks) THEN Append(blocks, b) ELSE [blocks EXCEPT ![k] = b]
        /\ UNCHANGED <<phase, round, history, roundsArchived, archived, pending, lost, summaries>>
    BY <1>5 DEF ArchiveStores, context
  <2>3. k \in 1..(Len(blocks) + 1) /\ b \subseteq 1..round /\ \A j \in DOMAIN blocks : blocks[j] \subseteq 1..round
    BY <1>1, <1>5 DEF ArchiveStores, CallOK, IInv, Stored
  <2> HIDE DEF v, k, b
  <2>4. /\ blocks' \in Seq(SUBSET Rounds) /\ Len(blocks) <= Len(blocks') /\ k \in 1..Len(blocks')
        /\ \A j \in 1..Len(blocks') : blocks'[j] \subseteq 1..round
    <3>1. CASE k > Len(blocks)
      <4>1. blocks' = Append(blocks, b) /\ k = Len(blocks) + 1
        BY <1>2, <2>2, <2>3, <3>1
      <4>2. /\ blocks' \in Seq(SUBSET Rounds) /\ Len(blocks') = Len(blocks) + 1
            /\ blocks'[Len(blocks) + 1] = b /\ \A j \in 1..Len(blocks) : blocks'[j] = blocks[j]
        BY <1>2, <2>1, <4>1, AppendProperties
      <4>3. \A j \in 1..Len(blocks') : j \in 1..Len(blocks) \/ j = Len(blocks) + 1
        BY <1>2, <4>2
      <4>4. Len(blocks) <= Len(blocks') /\ k \in 1..Len(blocks')
        BY <1>2, <4>1, <4>2
      <4> QED
        BY <1>2, <2>3, <4>2, <4>3, <4>4
    <3>2. CASE ~(k > Len(blocks))
      <4>1. blocks' = [blocks EXCEPT ![k] = b] /\ k \in 1..Len(blocks)
        BY <1>2, <2>2, <2>3, <3>2
      <4>2. blocks' \in Seq(SUBSET Rounds) /\ Len(blocks') = Len(blocks)
        BY <1>2, <2>1, <4>1, ExceptSeq
      <4>3. \A j \in 1..Len(blocks) : blocks'[j] = IF j = k THEN b ELSE blocks[j]
        BY <1>2, <4>1
      <4>4. ASSUME NEW j \in 1..Len(blocks') PROVE blocks'[j] \subseteq 1..round
        <5>1. CASE j = k
          BY <2>3, <4>2, <4>3, <4>4, <5>1
        <5>2. CASE j # k
          BY <1>2, <2>3, <4>2, <4>3, <4>4, <5>2
        <5> QED
          BY <5>1, <5>2
      <4> QED
        BY <1>2, <4>1, <4>2, <4>4
    <3> QED
      BY <3>1, <3>2
  <2>5. DOMAIN blocks' = 1..Len(blocks')
    BY <2>4, LenProperties
  <2>6. call'[c] = v
    BY <1>1, <2>1, <2>2
  <2>7. CallOK(c)'
    BY <2>1, <2>2, <2>4, <2>5, <2>6 DEF CallOK
  <2>8. index \subseteq index' /\ index' \subseteq Rounds
    BY <1>2, <2>1, <2>2
  <2>9. \A j \in DOMAIN blocks' : blocks'[j] \subseteq 1..round
    BY <2>4, <2>5
  <2>10. v \in Call /\ v.span \subseteq 1..round
    BY <2>1, <2>3
  <2> QED
    BY <2>2, <2>4, <2>7, <2>8, <2>9, <2>10, CallStepInv
<1> QED
  BY <1>3, <1>4, <1>5

\* The end of a step: every span it stored is now archived, and a directive will remove it.
LEMMA StepEndsInv == ASSUME IInv, StepEnds PROVE IInv'
<1> DEFINE ofCalls == [c \in Calls |-> [handle |-> call[c].handle, span |-> call[c].span]]
           stored  == {c \in Calls : call[c].span # {}}
<1>1. /\ phase = "tools" /\ phase' = "summary" /\ call' = [c \in Calls |-> NoCall]
      /\ \A c \in Calls : call[c].pc \in {"idle", "end"}
      /\ pending' = pending \o Directives /\ archived' = archived \cup UNION {call[c].span : c \in Calls}
      /\ UNCHANGED <<round, history, roundsArchived, blocks, index, lost, summaries>>
  BY DEF StepEnds, store
<1>2. TypeOK
  BY DEF IInv
<1>3. \A c \in Calls : call[c] \in Call /\ call[c].handle \in Nat /\ call[c].span \subseteq Rounds
  BY <1>2 DEF TypeOK, Call
<1>4. pending = <<>> /\ LiveRounds \cap archived = {}
  BY <1>1 DEF IInv, Going
<1>5. Directives \in Seq(Directive) /\ Items(Directives) = {ofCalls[c] : c \in stored}
  <2>1. Width \in Nat /\ Calls = 1..Width
    BY ArchiveAssumption DEF Calls
  <2>2. \A c \in Calls : ofCalls[c] \in Directive
    BY <1>3 DEF Directive
  <2>3. DOMAIN ofCalls = 1..Width /\ ofCalls = [c \in 1..Width |-> ofCalls[c]]
    BY <2>1
  <2>4. Directives = Only(ofCalls, stored)
    BY DEF Directives
  <2> HIDE DEF ofCalls
  <2>5. ofCalls \in Seq(Directive)
    BY <2>1, <2>2, <2>3, IsASeq
  <2>6. stored \in SUBSET DOMAIN ofCalls
    BY <2>1, <2>3
  <2> HIDE DEF stored
  <2> QED
    BY <2>4, <2>5, <2>6, OnlyFacts
<1>6. pending' = Directives
  BY <1>1, <1>4, <1>5, ConcatEmptySeq
<1>7. \A d \in Items(pending') : \E c \in Calls :
         d.handle = call[c].handle /\ d.span = call[c].span /\ call[c].span # {}
  BY <1>5, <1>6
<1>8. \A c \in Calls : call[c].span # {} => \E d \in Items(pending') : d.span = call[c].span
  <2>1. ASSUME NEW c \in Calls, call[c].span # {} PROVE \E d \in Items(pending') : d.span = call[c].span
    <3>1. ofCalls[c] \in Items(pending') /\ ofCalls[c].span = call[c].span
      BY <1>5, <1>6, <2>1
    <3> HIDE DEF ofCalls
    <3> QED
      BY <3>1
  <2> QED
    BY <2>1
<1> HIDE DEF ofCalls, stored
<1>9. \A c \in Calls : call[c].span # {} =>
         call[c].handle \in DOMAIN blocks /\ call[c].span \subseteq index
  <2>1. ASSUME NEW c \in Calls, call[c].span # {}
        PROVE  call[c].handle \in DOMAIN blocks /\ call[c].span \subseteq index
    <3>1. CallOK(c) /\ call[c].pc \in {"idle", "end"}
      BY <1>1 DEF IInv
    <3> QED
      BY <2>1, <3>1 DEF CallOK
  <2> QED
    BY <2>1
<1>10. /\ \A r : r \in LiveRounds' <=> r \in LiveRounds
       /\ \A r : r \in Carded' <=> r \in Carded
  BY <1>1, Reads, ReadsNext
<1>11. NoCall \in Call /\ NoCall.span = {} /\ NoCall.pc = "idle"
  BY DEF NoCall, Call
<1>12. /\ call' \in [Calls -> Call] /\ \A c \in Calls : call'[c] = NoCall
  BY <1>1, <1>11
<1>13. archived' \subseteq 1..round /\ archived' \subseteq Rounds
  <2>1. \A c \in Calls : call[c].span \subseteq 1..round
    BY DEF IInv, Stored
  <2>2. archived \subseteq 1..round
    BY DEF IInv, Stored
  <2> QED
    BY <1>1, <1>2, <1>3, <2>1, <2>2 DEF TypeOK
<1>14. TypeOK'
  <2>1. HandlesOK(history', pending', DOMAIN blocks')
    <3>1. \A d \in Items(pending') : d.handle \in DOMAIN blocks
      BY <1>7, <1>9
    <3>2. \A x \in Items(history) : ~IsRound(x) => x.tag \in DOMAIN blocks
      BY <1>2, HandlesRead DEF TypeOK, HandlesOK
    <3> QED
      BY <1>1, <3>1, <3>2 DEF HandlesOK
  <2> QED
    BY <1>1, <1>2, <1>5, <1>6, <1>12, <1>13, <2>1, HandlesReadNext DEF TypeOK
<1>15. LiveOnes'
  BY <1>1 DEF IInv, LiveOnes
<1>16. Stored'
  <2>1. \A d \in Items(pending') : d.span \subseteq index
    BY <1>7, <1>9
  <2>2. \A c \in Calls : call'[c].span \subseteq 1..round
    BY <1>11, <1>12
  <2> QED
    BY <1>1, <1>13, <2>1, <2>2 DEF IInv, Stored
<1>17. (\A c \in Calls : CallOK(c))'
  BY <1>1, <1>11, <1>12 DEF CallOK
<1>18. Going'
  <2>1. ASSUME NEW r \in LiveRounds', r \in archived' PROVE \E d \in Items(pending') : r \in d.span
    <3>1. PICK c \in Calls : r \in call[c].span
      BY <1>1, <1>4, <1>10, <2>1
    <3> QED
      BY <1>8, <3>1
  <2> QED
    BY <1>1, <2>1 DEF Going
<1>19. Within'
  BY <1>1, <1>10 DEF IInv, Within
<1> QED
  BY <1>14, <1>15, <1>16, <1>17, <1>18, <1>19 DEF IInv

LEMMA NextInv == ASSUME IInv, [Next]_vars PROVE IInv'
<1>1. CASE Summarize
  BY <1>1, SummarizeInv
<1>2. CASE Rewrite
  BY <1>2, RewriteInv
<1>3. CASE ModelCall
  BY <1>3, ModelCallInv
<1>4. CASE StepEnds
  BY <1>4, StepEndsInv
<1>5. ASSUME NEW c \in Calls, ArchiveRefused(c) \/ ArchiveBegins(c) \/ ArchiveStores(c) PROVE IInv'
  BY <1>5, ArchiveInv
<1>6. CASE NoSummary
  BY <1>6, PassInv DEF NoSummary, context, store
<1>7. CASE AgentEnds
  BY <1>7, PassInv DEF AgentEnds, context, store
<1>8. CASE Over \/ UNCHANGED vars
  BY <1>8, PassInv DEF Over, vars
<1> QED
  BY <1>1, <1>2, <1>3, <1>4, <1>5, <1>6, <1>7, <1>8 DEF Next

LEMMA Invariant == Spec => []IInv
<1>1. IInv /\ [Next]_vars => IInv'
  BY NextInv
<1> QED
  BY <1>1, InitInv, PTL DEF Spec

\* What a run reads and writes keeps its shape, and every handle the model can see or is
\* about to see names a block that exists (the cards of _apply_directive, MemoryStore.block).
THEOREM HandlesExist == Spec => []TypeOK
<1>1. IInv => TypeOK
  BY DEF IInv
<1> QED
  BY <1>1, Invariant, PTL

\* Whatever the archive calls of a step, their threads and the summaries remove, every round
\* so far is in the history, in a card of it, or in a summary (before_model, _apply_directive).
THEOREM NothingLeavesUntraced == Spec => []RemovedLeavesCard
<1>1. IInv => RemovedLeavesCard
  BY DEF IInv, Within, RemovedLeavesCard
<1> QED
  BY <1>1, Invariant, PTL

\* When the model is asked, no round archived so far is in the history, so no stretch is
\* archived a second time (_append_pending, before_model).
THEOREM ArchivedOnce == Spec => []ArchivedStaysGone
<1>1. IInv => ArchivedStaysGone
  BY DEF IInv, Going, ArchivedStaysGone
<1> QED
  BY <1>1, Invariant, PTL

\* Every result stays within reach, of the model by its address and of the report in full
\* or on a card, also after two threads drew one handle (MemoryStore, _ArchiveCoverage).
THEOREM EverythingInReach == Spec => []NothingOutOfReach
<1>1. ASSUME IInv PROVE NothingOutOfReach
  <2>1. ASSUME NEW r \in 1..round PROVE r \in LiveRounds \cup lost \/ RecallIds({r}).records = {r}
    <3>1. r \in LiveRounds \cup lost \/ r \in index
      BY <1>1, <2>1 DEF IInv, Within
    <3>2. Cardinality({r}) = 1 /\ ~(1 > MaxIds)
      BY FS_Singleton, RecallAssumption
    <3>3. RecallIds({r}).records = {r} \cap index
      BY <3>2 DEF RecallIds
    <3> QED
      BY <3>1, <3>3
  <2>2. Ledger("query") \subseteq TailQueries \cup CardQueries
    BY DEF Ledger, TailQueries, CardQueries, CoveredQueries
  <2>3. ASSUME NEW x \in CoveredActivities \cup CoveredRelations, x \notin EvidenceCatalog
        PROVE  \E r \in Ledger("entity") : x \in (Ran[r].candidate \cup Ran[r].clues) \ Ran[r].resolved
    <3>1. \A r \in ArchivedRounds : r \in 1..round /\ r \in Rounds
      BY <1>1 DEF IInv, TypeOK, Stored, ArchivedRounds, Range, Rounds
    <3>2. x \notin CoveredActivities
      <4>1. CoveredActivities \subseteq CitableActivities
        BY <3>1 DEF CoveredActivities, CitableActivities, Activities, Ledger
      <4> QED
        BY <2>3, <4>1 DEF EvidenceCatalog
    <3>3. PICK r \in ArchivedRounds : x \in Relations(r)
      BY <3>2, <2>3 DEF CoveredRelations
    <3>4. Ran[r].kind = "entity"
      BY <3>1, <3>3, ReportAssumption DEF Relations
    <3>5. r \in Ledger("entity")
      BY <3>1, <3>4 DEF Ledger
    <3>6. x \notin Ran[r].resolved
      <4>1. CitableRelations \subseteq EvidenceCatalog
        BY DEF EvidenceCatalog
      <4>2. Ran[r].resolved \subseteq CitableRelations
        BY <3>5 DEF CitableRelations
      <4> QED
        BY <2>3, <4>1, <4>2
    <3> QED
      BY <3>3, <3>5, <3>6 DEF Relations
  <2> QED
    BY <2>1, <2>2, <2>3 DEF NothingOutOfReach
<1>2. IInv => NothingOutOfReach
  BY <1>1
<1> QED
  BY <1>2, Invariant, PTL
-----------------------------------------------------------------------------
\* MessageShaping, whatever the blocks of a message and the contents of a result are.
CONSTANT Shown

Shaping == INSTANCE MessageShaping

MessageOf(Ids) == [ai : BOOLEAN, id : Ids, blocks : Seq([left : Shaping!Leftover, input : Shaping!Input])]

\* What before_model makes of one message, which it gives the identifier new if it has none.
Cleaned(m, new) ==
    [m EXCEPT !.id = IF @ = Shaping!NoId THEN new ELSE @,
              !.blocks = IF Shaping!NeedsCleaning(m)
                         THEN [n \in DOMAIN @ |-> Shaping!CleanBlock(@[n])] ELSE @]

LEMMA BlockFacts ==
  ASSUME NEW b \in [left : Shaping!Leftover, input : Shaping!Input]
  PROVE  LET c == Shaping!CleanBlock(b)
         IN  c.left = "none" /\ c.input # "null" /\ (b.input = "real" => c.input = "real")
BY DEF Shaping!CleanBlock, Shaping!Block, Shaping!Leftover, Shaping!Input

LEMMA CleanedFacts ==
  ASSUME NEW m \in MessageOf(Nat), NEW new \in Nat
  PROVE  /\ Cleaned(m, new).ai = m.ai
         /\ Cleaned(m, new).id = IF m.id = 0 THEN new ELSE m.id
         /\ DOMAIN Cleaned(m, new).blocks = DOMAIN m.blocks
         /\ ~Shaping!NeedsCleaning(Cleaned(m, new))
         /\ ~m.ai => Cleaned(m, new).blocks = m.blocks
         /\ \A n \in DOMAIN m.blocks :
               m.blocks[n].input = "real" => Cleaned(m, new).blocks[n].input = "real"
<1> DEFINE c == Cleaned(m, new)
<1>1. c.ai = m.ai /\ c.id = (IF m.id = 0 THEN new ELSE m.id)
  BY DEF Cleaned, MessageOf, Shaping!NoId
<1>2. c.blocks = IF Shaping!NeedsCleaning(m)
                 THEN [n \in DOMAIN m.blocks |-> Shaping!CleanBlock(m.blocks[n])] ELSE m.blocks
  BY DEF Cleaned, MessageOf
<1>3. \A n \in DOMAIN m.blocks : m.blocks[n] \in [left : Shaping!Leftover, input : Shaping!Input]
  <2> DEFINE B == [left : Shaping!Leftover, input : Shaping!Input]
  <2>1. m.blocks \in Seq(B)
    BY DEF MessageOf
  <2> HIDE DEF B
  <2>2. \A n \in DOMAIN m.blocks : m.blocks[n] \in B
    BY <2>1
  <2> QED
    BY <2>2 DEF B
<1> HIDE DEF c
<1>4. CASE Shaping!NeedsCleaning(m)
  <2>1. /\ DOMAIN c.blocks = DOMAIN m.blocks
        /\ \A n \in DOMAIN m.blocks : c.blocks[n] = Shaping!CleanBlock(m.blocks[n])
    BY <1>2, <1>4
  <2>2. \A n \in DOMAIN m.blocks :
           /\ c.blocks[n].left = "none" /\ c.blocks[n].input # "null"
           /\ m.blocks[n].input = "real" => c.blocks[n].input = "real"
    BY <2>1, <1>3, BlockFacts
  <2>3. ~Shaping!NeedsCleaning(c)
    BY <2>1, <2>2 DEF Shaping!NeedsCleaning
  <2>4. m.ai
    BY <1>4 DEF Shaping!NeedsCleaning
  <2> QED
    BY <1>1, <2>1, <2>2, <2>3, <2>4 DEF c
<1>5. CASE ~Shaping!NeedsCleaning(m)
  <2>1. c.blocks = m.blocks
    BY <1>2, <1>5
  <2>2. ~Shaping!NeedsCleaning(c)
    BY <2>1, <1>1, <1>5 DEF Shaping!NeedsCleaning
  <2> QED
    BY <1>1, <2>1, <2>2 DEF c
<1> QED
  BY <1>4, <1>5

LEMMA BeforeModelFacts ==
  ASSUME NEW n \in Nat, NEW old \in [1..n -> MessageOf(Nat)], NEW fresh \in [1..n -> Nat]
  PROVE  LET cleaned == Shaping!BeforeModel(old, fresh)
         IN  /\ DOMAIN cleaned = 1..n
             /\ \/ cleaned = old /\ \A i \in 1..n : ~Shaping!NeedsCleaning(old[i])
                \/ \A i \in 1..n : cleaned[i] = Cleaned(old[i], fresh[i])
<1>1. DOMAIN old = 1..n
  OBVIOUS
<1>2. CASE \E i \in DOMAIN old : Shaping!NeedsCleaning(old[i])
  <2>1. Shaping!BeforeModel(old, fresh) = [i \in DOMAIN old |-> Cleaned(old[i], fresh[i])]
    BY <1>2 DEF Shaping!BeforeModel, Cleaned
  <2> QED
    BY <1>1, <2>1
<1>3. CASE ~\E i \in DOMAIN old : Shaping!NeedsCleaning(old[i])
  <2>1. Shaping!BeforeModel(old, fresh) = old
    BY <1>3 DEF Shaping!BeforeModel
  <2> QED
    BY <1>1, <1>3, <2>1
<1> QED
  BY <1>2, <1>3

LEMMA ReduceFacts ==
  ASSUME Shown \in Nat, NEW m \in [call : Nat, content : Shaping!Content, kept : SUBSET Shaping!Content],
         NEW raises \in BOOLEAN
  PROVE  LET r == Shaping!ReduceMessage(m, raises)
         IN  /\ r.content.refs = m.content.refs
             /\ r.content = m.content \/ r.kept = {m.content}
             /\ Shaping!IsPrefix(r.content.activities, m.content.activities)
<1> DEFINE a == m.content.activities
           brief == Shaping!BriefResult(m.content)
<1>1. a \in Seq(Nat) /\ m.content \in Shaping!Content
  BY DEF Shaping!Content
<1>2. Shaping!IsPrefix(a, a)
  BY <1>1 DEF Shaping!IsPrefix
<1>3. Shaping!IsPrefix(Shaping!FirstOf(a), a)
  BY <1>1 DEF Shaping!IsPrefix, Shaping!FirstOf
<1>4. brief.refs = m.content.refs /\ brief.activities \in {a, Shaping!FirstOf(a)}
  BY <1>1 DEF Shaping!BriefResult, Shaping!Content
<1>5. LET r == Shaping!ReduceMessage(m, raises)
      IN  r = m \/ (r.content = brief /\ r.kept = {m.content})
  BY DEF Shaping!ReduceMessage
<1> QED
  BY <1>2, <1>3, <1>4, <1>5

\* Whatever history and whatever results of one call: no leftover of a stream reaches the
\* model again, no input of a call is replaced, a second cleaning changes nothing, and a
\* shortened result keeps its full content and every reference (HistoryHygieneMiddleware,
\* ReducerMiddleware).  Identifiers the messages have, and those drawn for the rest, are
\* distinct.
THEOREM MessagesStayReadable ==
  ASSUME Shown \in Nat, NEW n \in Nat,
         NEW old \in [1..n -> MessageOf(Nat)], NEW fresh \in [1..n -> Nat \ {Shaping!NoId}],
         \A i, j \in 1..n : i # j => /\ old[i].id # Shaping!NoId => old[i].id # old[j].id
                                     /\ fresh[i] # fresh[j],
         \A i, j \in 1..n : fresh[i] # old[j].id,
         NEW own \in Nat, NEW k \in Nat,
         NEW results \in [1..k -> [call : Nat, content : Shaping!Content, kept : SUBSET Shaping!Content]],
         NEW raises \in BOOLEAN
  PROVE  Shaping!HistoryStaysReadable(old, fresh, own, results, raises)
<1> DEFINE cleaned == Shaping!BeforeModel(old, fresh)
           reduced == Shaping!Reduced(own, results, raises)
<1>0. DOMAIN old = 1..n /\ DOMAIN results = 1..k /\ fresh \in [1..n -> Nat]
  OBVIOUS
<1>1. /\ DOMAIN cleaned = 1..n
      /\ \/ cleaned = old /\ \A i \in 1..n : ~Shaping!NeedsCleaning(old[i])
         \/ \A i \in 1..n : cleaned[i] = Cleaned(old[i], fresh[i])
  BY <1>0, BeforeModelFacts
<1> HIDE DEF cleaned
<1>2. \A i \in 1..n : ~Shaping!NeedsCleaning(cleaned[i])
  BY <1>0, <1>1, CleanedFacts
<1>3. \A i \in 1..n : \A b \in DOMAIN old[i].blocks :
         old[i].blocks[b].input = "real" => cleaned[i].blocks[b].input = "real"
  BY <1>0, <1>1, CleanedFacts
<1>4. \A i \in 1..n : ~old[i].ai => cleaned[i].blocks = old[i].blocks
  BY <1>0, <1>1, CleanedFacts
<1>5. Shaping!BeforeModel(cleaned, fresh) = cleaned
  BY <1>1, <1>2 DEF Shaping!BeforeModel
<1>6. ASSUME NEW i \in 1..n, NEW j \in 1..n, i # j, cleaned # old PROVE cleaned[i].id # cleaned[j].id
  <2>1. /\ cleaned[i].id = IF old[i].id = 0 THEN fresh[i] ELSE old[i].id
        /\ cleaned[j].id = IF old[j].id = 0 THEN fresh[j] ELSE old[j].id
    BY <1>0, <1>1, <1>6, CleanedFacts
  <2>2. fresh[i] # fresh[j] /\ fresh[i] # old[j].id /\ fresh[j] # old[i].id
    BY <1>6
  <2>3. old[i].id # 0 => old[i].id # old[j].id
    BY <1>6 DEF Shaping!NoId
  <2> QED
    BY <2>1, <2>2, <2>3
<1>7. ASSUME NEW i \in 1..k
      PROVE  /\ reduced[i].content.refs = results[i].content.refs
             /\ \/ reduced[i].content = results[i].content
                \/ results[i].call = own /\ reduced[i].kept = {results[i].content}
             /\ Shaping!IsPrefix(reduced[i].content.activities, results[i].content.activities)
  <2>1. reduced[i] = IF results[i].call = own THEN Shaping!ReduceMessage(results[i], raises) ELSE results[i]
    BY <1>0 DEF Shaping!Reduced
  <2>2. results[i] \in [call : Nat, content : Shaping!Content, kept : SUBSET Shaping!Content]
    OBVIOUS
  <2>3. results[i].content.activities \in Seq(Nat)
    BY <2>2 DEF Shaping!Content
  <2>4. Shaping!IsPrefix(results[i].content.activities, results[i].content.activities)
    BY <2>3 DEF Shaping!IsPrefix
  <2> HIDE DEF reduced
  <2>5. CASE results[i].call = own
    <3> DEFINE m == results[i]
               r == Shaping!ReduceMessage(m, raises)
    <3>1. reduced[i] = r
      BY <2>1, <2>5
    <3> HIDE DEF m
    <3>2. /\ r.content.refs = m.content.refs
          /\ r.content = m.content \/ r.kept = {m.content}
          /\ Shaping!IsPrefix(r.content.activities, m.content.activities)
      BY <2>2, ReduceFacts DEF m
    <3> HIDE DEF r
    <3> QED
      BY <2>5, <3>1, <3>2, Zenon DEF m
  <2>6. CASE results[i].call # own
    <3>1. reduced[i] = results[i]
      BY <2>1, <2>6
    <3> QED
      BY <2>4, <3>1
  <2> QED
    BY <2>5, <2>6
<1> HIDE DEF reduced
<1> QED
  BY <1>0, <1>1, <1>2, <1>3, <1>4, <1>5, <1>6, <1>7 DEF Shaping!HistoryStaysReadable, cleaned, reduced
-----------------------------------------------------------------------------
\* DraftEditor, whatever the draft and the edits are.
CONSTANTS Fields, Values, Inside

Editor == INSTANCE DraftEditor

Drafts == Editor!Draft(Seq(Values))
Edits  == Editor!Edit(Int)

\* Whether an accepted edit is an operation on the list, as a number.
OnList(e, op) == IF e.op = op /\ ~Editor!IsField(e) THEN 1 ELSE 0

LEMMA FieldsRead ==
  ASSUME NEW d \in Drafts
  PROVE  /\ DOMAIN d.fields \subseteq Fields
         /\ \A f \in DOMAIN d.fields : d.fields[f] \in Values
         /\ d.list \in Seq(Values)
         /\ d = [fields |-> d.fields, list |-> d.list]
<1>1. PICK D \in SUBSET Fields : d.fields \in [D -> Values]
  BY DEF Drafts, Editor!Draft
<1>2. d.list \in Seq(Values) /\ d = [fields |-> d.fields, list |-> d.list]
  BY DEF Drafts, Editor!Draft
<1> QED
  BY <1>1, <1>2

LEMMA ListEdits ==
  ASSUME NEW s \in Seq(Values), NEW v \in Values, NEW p \in Int
  PROVE  /\ p \in 1..(Len(s) + 1) => /\ Editor!InsertAt(s, p, v) \in Seq(Values)
                                     /\ Len(Editor!InsertAt(s, p, v)) = Len(s) + 1
         /\ p \in 1..Len(s) => /\ Editor!ReplaceAt(s, p, v) \in Seq(Values)
                               /\ Len(Editor!ReplaceAt(s, p, v)) = Len(s)
                               /\ Editor!RemoveAt(s, p) \in Seq(Values)
                               /\ Len(Editor!RemoveAt(s, p)) = Len(s) - 1
<1>1. ASSUME p \in 1..(Len(s) + 1)
      PROVE  /\ Editor!InsertAt(s, p, v) \in Seq(Values)
             /\ Len(Editor!InsertAt(s, p, v)) = Len(s) + 1
  <2>1. SubSeq(s, 1, p - 1) \in Seq(Values) /\ Len(SubSeq(s, 1, p - 1)) = p - 1
    BY <1>1
  <2>2. SubSeq(s, p, Len(s)) \in Seq(Values) /\ Len(SubSeq(s, p, Len(s))) = Len(s) - p + 1
    BY <1>1
  <2>3. <<v>> \in Seq(Values) /\ Len(<<v>>) = 1
    OBVIOUS
  <2> QED
    <3> DEFINE before == SubSeq(s, 1, p - 1)
               after  == SubSeq(s, p, Len(s))
    <3> HIDE DEF before, after
    <3>1. /\ before \in Seq(Values) /\ Len(before) = p - 1
          /\ after \in Seq(Values) /\ Len(after) = Len(s) - p + 1
      BY <2>1, <2>2, Zenon DEF before, after
    <3>2. before \o <<v>> \in Seq(Values) /\ Len(before \o <<v>>) = Len(before) + Len(<<v>>)
      BY <2>3, <3>1, ConcatProperties, Zenon
    <3>3. /\ before \o <<v>> \o after \in Seq(Values)
          /\ Len(before \o <<v>> \o after) = Len(before \o <<v>>) + Len(after)
      BY <3>1, <3>2, ConcatProperties, Zenon
    <3>4. Len(s) \in Nat
      OBVIOUS
    <3>5. Len(before) + Len(<<v>>) + Len(after) = Len(s) + 1
      BY <2>3, <3>1, <3>4
    <3>6. Editor!InsertAt(s, p, v) = before \o <<v>> \o after
      BY Zenon DEF Editor!InsertAt, before, after
    <3> QED
      BY <3>2, <3>3, <3>5, <3>6, Zenon
<1>2. ASSUME p \in 1..Len(s)
      PROVE  /\ Editor!ReplaceAt(s, p, v) \in Seq(Values)
             /\ Len(Editor!ReplaceAt(s, p, v)) = Len(s)
  BY <1>2 DEF Editor!ReplaceAt
<1>3. ASSUME p \in 1..Len(s)
      PROVE  /\ Editor!RemoveAt(s, p) \in Seq(Values)
             /\ Len(Editor!RemoveAt(s, p)) = Len(s) - 1
  <2>1. SubSeq(s, 1, p - 1) \in Seq(Values) /\ Len(SubSeq(s, 1, p - 1)) = p - 1
    BY <1>3
  <2>2. SubSeq(s, p + 1, Len(s)) \in Seq(Values) /\ Len(SubSeq(s, p + 1, Len(s))) = Len(s) - p
    BY <1>3
  <2> QED
    <3> DEFINE before == SubSeq(s, 1, p - 1)
               after  == SubSeq(s, p + 1, Len(s))
    <3> HIDE DEF before, after
    <3>1. /\ before \in Seq(Values) /\ Len(before) = p - 1
          /\ after \in Seq(Values) /\ Len(after) = Len(s) - p
      BY <2>1, <2>2, Zenon DEF before, after
    <3>2. before \o after \in Seq(Values) /\ Len(before \o after) = Len(before) + Len(after)
      BY <3>1, ConcatProperties, Zenon
    <3>3. Len(s) \in Nat
      OBVIOUS
    <3>4. Len(before) + Len(after) = Len(s) - 1
      BY <3>1, <3>3
    <3>5. Editor!RemoveAt(s, p) = before \o after
      BY Zenon DEF Editor!RemoveAt, before, after
    <3> QED
      BY <3>2, <3>4, <3>5, Zenon
<1> QED
  BY <1>1, <1>2, <1>3

\* One accepted edit: its target is all it touches, and a field that is there is quoted or
\* removed.
LEMMA AppliedFacts ==
  ASSUME NEW d \in Drafts, NEW e \in Edits, Editor!Accepted(d, e)
  PROVE  LET a == Editor!Applied(d, e)
         IN  /\ a \in Drafts
             /\ \A f \in Fields : f # e.target =>
                   /\ f \in DOMAIN d.fields <=> f \in DOMAIN a.fields
                   /\ f \in DOMAIN d.fields => a.fields[f] = d.fields[f]
             /\ e.target \in DOMAIN d.fields => e.op = "remove" \/ e.anchor = d.fields[e.target]
             /\ Len(a.list) = Len(d.list) + OnList(e, "insert") - OnList(e, "remove")
<1> DEFINE a == Editor!Applied(d, e)
           F == d.fields
           L == d.list
<1>1. /\ DOMAIN F \subseteq Fields /\ \A f \in DOMAIN F : F[f] \in Values
      /\ L \in Seq(Values) /\ d = [fields |-> F, list |-> L]
  BY FieldsRead
<1>2. /\ e.op \in {"set", "insert", "remove"} /\ e.value \in Values
      /\ e.target \in Fields \cup Int \cup {Inside} /\ e.target # Inside
  BY DEF Edits, Editor!Edit, Editor!Accepted
<1>3. CASE Editor!IsField(e)
  <2> DEFINE G == IF e.op = "set"
                  THEN [f \in DOMAIN F \cup {e.target} |-> IF f = e.target THEN e.value ELSE F[f]]
                  ELSE [f \in DOMAIN F \ {e.target} |-> F[f]]
  <2>1. a = [fields |-> G, list |-> L]
    BY <1>1, <1>3 DEF Editor!Applied
  <2>2. e.target \in Fields
    BY <1>3 DEF Editor!IsField
  <2>3. \E D \in SUBSET Fields : G \in [D -> Values]
    <3>1. CASE e.op = "set"
      <4>1. G \in [DOMAIN F \cup {e.target} -> Values]
        BY <1>1, <1>2, <3>1
      <4> QED
        BY <1>1, <2>2, <4>1
    <3>2. CASE e.op # "set"
      <4>1. G \in [DOMAIN F \ {e.target} -> Values]
        BY <1>1, <3>2
      <4> QED
        BY <1>1, <4>1
    <3> QED
      BY <3>1, <3>2
  <2>4. \A f : f # e.target => /\ f \in DOMAIN F <=> f \in DOMAIN G
                               /\ f \in DOMAIN F => G[f] = F[f]
    OBVIOUS
  <2>5. e.target \in DOMAIN F => e.op = "remove" \/ e.anchor = F[e.target]
    BY <1>3 DEF Editor!Accepted, Editor!FieldSettable
  <2> HIDE DEF G
  <2>6. a \in Drafts
    BY <1>1, <2>1, <2>3 DEF Drafts, Editor!Draft
  <2>7. OnList(e, "insert") = 0 /\ OnList(e, "remove") = 0 /\ Len(L) \in Nat
    BY <1>1, <1>3 DEF OnList
  <2>8. a.fields = G /\ a.list = L
    BY <2>1
  <2> QED
    BY <2>4, <2>5, <2>6, <2>7, <2>8
<1>4. CASE ~Editor!IsField(e)
  <2> DEFINE p == Editor!Position(e.target, L)
             M == IF e.op = "insert" THEN Editor!InsertAt(L, e.target + 1, e.value)
                  ELSE IF e.op = "set" THEN Editor!ReplaceAt(L, p, e.value)
                  ELSE Editor!RemoveAt(L, p)
  <2>1. a = [fields |-> F, list |-> M]
    BY <1>1, <1>4 DEF Editor!Applied
  <2>2. e.target \notin Fields /\ e.target \in Int
    BY <1>2, <1>4 DEF Editor!IsField
  <2>3. Len(L) \in Nat
    BY <1>1
  <2>4. /\ e.op = "insert" => e.target + 1 \in 1..(Len(L) + 1)
        /\ e.op # "insert" => p \in 1..Len(L)
    BY <1>4, <2>2, <2>3 DEF Editor!Accepted, Editor!InRange, Editor!Position
  <2>5. /\ M \in Seq(Values)
        /\ Len(M) = Len(L) + OnList(e, "insert") - OnList(e, "remove")
    <3>1. CASE e.op = "insert"
      <4>1. e.target + 1 \in Int
        BY <2>2
      <4>2. OnList(e, "insert") = 1 /\ OnList(e, "remove") = 0
        BY <1>4, <3>1 DEF OnList
      <4>3. M \in Seq(Values) /\ Len(M) = Len(L) + 1
        BY <1>1, <1>2, <2>4, <3>1, <4>1, ListEdits
      <4> HIDE DEF M
      <4> QED
        BY <2>3, <4>2, <4>3
    <3>2. CASE e.op = "set"
      <4>1. OnList(e, "insert") = 0 /\ OnList(e, "remove") = 0
        BY <3>2 DEF OnList
      <4>2. M \in Seq(Values) /\ Len(M) = Len(L)
        <5>1. p \in Int /\ p \in 1..Len(L)
          BY <2>3, <2>4, <3>2
        <5> HIDE DEF p
        <5> QED
          BY <1>1, <1>2, <3>2, <5>1, ListEdits
      <4> HIDE DEF M
      <4> QED
        BY <2>3, <4>1, <4>2
    <3>3. CASE e.op = "remove"
      <4>1. OnList(e, "insert") = 0 /\ OnList(e, "remove") = 1
        BY <1>4, <3>3 DEF OnList
      <4>2. M \in Seq(Values) /\ Len(M) = Len(L) - 1
        <5>1. p \in Int /\ p \in 1..Len(L)
          BY <2>3, <2>4, <3>3
        <5> HIDE DEF p
        <5> QED
          BY <1>1, <1>2, <3>3, <5>1, ListEdits
      <4> HIDE DEF M
      <4> QED
        BY <2>3, <4>1, <4>2
    <3> QED
      BY <1>2, <3>1, <3>2, <3>3
  <2> HIDE DEF M
  <2>6. a \in Drafts
    <3>1. F \in UNION {[D -> Values] : D \in SUBSET Fields}
      BY DEF Drafts, Editor!Draft
    <3> QED
      BY <2>1, <2>5, <3>1 DEF Drafts, Editor!Draft
  <2>7. a.fields = F /\ a.list = M
    BY <2>1
  <2> QED
    BY <1>1, <2>2, <2>5, <2>6, <2>7
<1> QED
  BY <1>3, <1>4
\* The accepted insertions into the list, or removals from it, among the first i edits.
Hits(edits, verdicts, op, i) ==
    {k \in 1..i : verdicts[k] /\ edits[k].op = op /\ ~Editor!IsField(edits[k])}

\* What EditsStayOnTarget says, of the result of the first i edits.
OnTarget(draft, edits, r, i) ==
    /\ r = [draft |-> r.draft, verdicts |-> r.verdicts]
    /\ r.draft \in Drafts
    /\ r.verdicts \in Seq(BOOLEAN) /\ Len(r.verdicts) = i
    /\ \A f \in Fields \ {edits[k].target : k \in 1..i} :
          /\ f \in DOMAIN draft.fields <=> f \in DOMAIN r.draft.fields
          /\ f \in DOMAIN draft.fields => r.draft.fields[f] = draft.fields[f]
    /\ \A f \in DOMAIN draft.fields :
          \/ f \in DOMAIN r.draft.fields /\ r.draft.fields[f] = draft.fields[f]
          \/ \E k \in 1..i : /\ r.verdicts[k]
                             /\ edits[k].target = f
                             /\ edits[k].op = "remove" \/ edits[k].anchor = draft.fields[f]
    /\ Len(r.draft.list) = Len(draft.list) + Cardinality(Hits(edits, r.verdicts, "insert", i))
                                           - Cardinality(Hits(edits, r.verdicts, "remove", i))

LEMMA HitsStep ==
  ASSUME NEW edits, NEW i \in Nat, NEW v, NEW w, NEW op,
         \A k \in 1..i : w[k] = v[k], w[i + 1] \in BOOLEAN
  PROVE  LET new == IF w[i + 1] THEN OnList(edits[i + 1], op) ELSE 0
         IN  /\ Cardinality(Hits(edits, v, op, i)) \in Nat
             /\ Cardinality(Hits(edits, w, op, i + 1)) = Cardinality(Hits(edits, v, op, i)) + new
<1> DEFINE H == Hits(edits, v, op, i)
           G == Hits(edits, w, op, i + 1)
<1>1. IsFiniteSet(H) /\ Cardinality(H) \in Nat
  <2>1. IsFiniteSet(1..i) /\ H \subseteq 1..i
    BY FS_Interval DEF Hits
  <2> QED
    BY <2>1, FS_Subset, FS_CardinalityType
<1>2. i + 1 \notin H
  BY DEF Hits
<1>3. \A k : k \in 1..(i + 1) <=> k \in 1..i \/ k = i + 1
  OBVIOUS
<1>4. CASE w[i + 1] /\ OnList(edits[i + 1], op) = 1
  <2>1. edits[i + 1].op = op /\ ~Editor!IsField(edits[i + 1])
    BY <1>4 DEF OnList
  <2>2. G = H \cup {i + 1}
    BY <1>3, <1>4, <2>1 DEF Hits
  <2> HIDE DEF G, H
  <2>3. Cardinality(G) = Cardinality(H) + 1
    BY <1>1, <1>2, <2>2, FS_AddElement
  <2> QED
    BY <1>1, <1>4, <2>3 DEF G, H
<1>5. CASE ~(w[i + 1] /\ OnList(edits[i + 1], op) = 1)
  <2>1. ~(w[i + 1] /\ edits[i + 1].op = op /\ ~Editor!IsField(edits[i + 1]))
    BY <1>5 DEF OnList
  <2>2. G = H
    BY <1>3, <2>1 DEF Hits
  <2>3. (IF w[i + 1] THEN OnList(edits[i + 1], op) ELSE 0) = 0
    BY <1>5 DEF OnList
  <2> HIDE DEF G, H
  <2> QED
    BY <1>1, <2>2, <2>3 DEF G, H
<1> QED
  BY <1>4, <1>5

LEMMA NextEdit ==
  ASSUME NEW draft \in Drafts, NEW edits \in Seq(Edits), NEW i \in 0..(Len(edits) - 1),
         NEW r, OnTarget(draft, edits, r, i)
  PROVE  OnTarget(draft, edits, Editor!ApplyEdit(r, edits[i + 1]), i + 1)
<1> DEFINE e == edits[i + 1]
           ok == Editor!Accepted(r.draft, e)
           n == Editor!ApplyEdit(r, e)
           d == r.draft
           a == n.draft
           v == r.verdicts
           w == n.verdicts
           D == draft.fields
<1>1. i \in Nat /\ i + 1 \in 1..Len(edits) /\ e \in Edits
  BY LenProperties, ElementOfSeq
<1>2. /\ r = [draft |-> d, verdicts |-> v] /\ d \in Drafts /\ v \in Seq(BOOLEAN) /\ Len(v) = i
  BY DEF OnTarget
<1>3. /\ n = [draft |-> a, verdicts |-> w]
      /\ w = Append(v, ok)
      /\ ok => a = Editor!Applied(d, e)
      /\ ~ok => a = d
  <2>1. CASE ok
    <3>1. n = [draft |-> Editor!Applied(d, e), verdicts |-> Append(v, TRUE)]
      BY <2>1 DEF Editor!ApplyEdit
    <3>2. ok = TRUE
      BY <2>1, Zenon DEF Editor!Accepted
    <3> HIDE DEF n, ok, e
    <3>3. a = Editor!Applied(d, e) /\ w = Append(v, TRUE)
      BY <3>1
    <3> QED
      BY <2>1, <3>1, <3>2, <3>3
  <2>2. CASE ~ok
    <3>1. n = [draft |-> d, verdicts |-> Append(v, FALSE)]
      BY <1>2, <2>2 DEF Editor!ApplyEdit
    <3>2. ok = FALSE
      BY <2>2, Zenon DEF Editor!Accepted
    <3> HIDE DEF n, ok, e
    <3>3. a = d /\ w = Append(v, FALSE)
      BY <3>1
    <3> QED
      BY <2>2, <3>1, <3>2, <3>3
  <2> QED
    BY <2>1, <2>2
<1>4. /\ w \in Seq(BOOLEAN) /\ Len(w) = i + 1
      /\ \A k \in 1..i : w[k] = v[k]
      /\ w[i + 1] = ok /\ ok \in BOOLEAN
  <2>1. ok \in BOOLEAN
    BY Zenon DEF Editor!Accepted
  <2> HIDE DEF ok, w, v
  <2> QED
    BY <1>1, <1>2, <1>3, <2>1, AppendProperties
<1> HIDE DEF ok, n
\* Whether it is accepted or not.
<1>5. /\ a \in Drafts
      /\ \A f \in Fields : f # e.target =>
            /\ f \in DOMAIN d.fields <=> f \in DOMAIN a.fields
            /\ f \in DOMAIN d.fields => a.fields[f] = d.fields[f]
      /\ ~ok => a = d
      /\ ok /\ e.target \in DOMAIN d.fields => e.op = "remove" \/ e.anchor = d.fields[e.target]
      /\ Len(a.list) = Len(d.list) + (IF ok THEN OnList(e, "insert") ELSE 0)
                                   - (IF ok THEN OnList(e, "remove") ELSE 0)
  <2>1. CASE ok
    <3> HIDE DEF d, e
    <3> QED
      BY <1>1, <1>2, <1>3, <2>1, AppliedFacts DEF ok
  <2>2. CASE ~ok
    <3>1. Len(d.list) \in Nat
      BY <1>2, FieldsRead
    <3> HIDE DEF d, e
    <3> QED
      BY <1>2, <1>3, <2>2, <3>1
  <2> QED
    BY <2>1, <2>2
<1>6. \A f \in Fields \ {edits[k].target : k \in 1..(i + 1)} :
         /\ f \in DOMAIN D <=> f \in DOMAIN a.fields
         /\ f \in DOMAIN D => a.fields[f] = D[f]
  <2>1. ASSUME NEW f \in Fields, f \notin {edits[k].target : k \in 1..(i + 1)}
        PROVE  /\ f \in DOMAIN D <=> f \in DOMAIN a.fields
               /\ f \in DOMAIN D => a.fields[f] = D[f]
    <3>1. f \notin {edits[k].target : k \in 1..i} /\ f # e.target
      <4>1. i + 1 \in 1..(i + 1) /\ \A k \in 1..i : k \in 1..(i + 1)
        BY <1>1
      <4> QED
        BY <2>1, <4>1
    <3>2. /\ f \in DOMAIN D <=> f \in DOMAIN d.fields
          /\ f \in DOMAIN D => d.fields[f] = D[f]
      BY <3>1 DEF OnTarget
    <3> HIDE DEF a, d, e, D
    <3> QED
      BY <1>5, <3>1, <3>2
  <2> QED
    BY <2>1
<1>7. ASSUME NEW f \in DOMAIN D
      PROVE  \/ f \in DOMAIN a.fields /\ a.fields[f] = D[f]
             \/ \E k \in 1..(i + 1) : /\ w[k]
                                      /\ edits[k].target = f
                                      /\ edits[k].op = "remove" \/ edits[k].anchor = D[f]
  <2>1. CASE f \in DOMAIN d.fields /\ d.fields[f] = D[f]
    <3>1. f \in Fields
      BY FieldsRead
    <3>2. CASE f # e.target
      <4> HIDE DEF a, d, e, D
      <4> QED
        BY <1>5, <2>1, <3>1, <3>2
    <3>3. CASE f = e.target /\ ok
      <4>1. e.op = "remove" \/ e.anchor = D[f]
        BY <1>5, <2>1, <3>3
      <4>2. i + 1 \in 1..(i + 1) /\ w[i + 1]
        BY <1>1, <1>4, <3>3
      <4> QED
        BY <3>3, <4>1, <4>2
    <3>4. CASE ~ok
      BY <1>5, <2>1, <3>4
    <3> QED
      BY <3>2, <3>3, <3>4
  <2>2. CASE \E k \in 1..i : /\ v[k]
                             /\ edits[k].target = f
                             /\ edits[k].op = "remove" \/ edits[k].anchor = D[f]
    <3>1. PICK k \in 1..i : /\ v[k]
                            /\ edits[k].target = f
                            /\ edits[k].op = "remove" \/ edits[k].anchor = D[f]
      BY <2>2
    <3>2. k \in 1..(i + 1) /\ w[k] = v[k]
      BY <1>1, <1>4
    <3> QED
      BY <3>1, <3>2
  <2> QED
    BY <2>1, <2>2 DEF OnTarget
<1>8. Len(a.list) = Len(draft.list) + Cardinality(Hits(edits, w, "insert", i + 1))
                                    - Cardinality(Hits(edits, w, "remove", i + 1))
  <2> DEFINE ins == IF ok THEN OnList(e, "insert") ELSE 0
             rem == IF ok THEN OnList(e, "remove") ELSE 0
             I == Cardinality(Hits(edits, v, "insert", i))
             R == Cardinality(Hits(edits, v, "remove", i))
  <2>1. I \in Nat /\ Cardinality(Hits(edits, w, "insert", i + 1)) = I + ins
    <3>1. (\A k \in 1..i : w[k] = v[k]) /\ w[i + 1] = ok /\ w[i + 1] \in BOOLEAN
      BY <1>4
    <3> HIDE DEF w, v
    <3>2. /\ I \in Nat
          /\ Cardinality(Hits(edits, w, "insert", i + 1)) =
                I + (IF w[i + 1] THEN OnList(edits[i + 1], "insert") ELSE 0)
      BY <1>1, <3>1, HitsStep
    <3> QED
      BY <3>1, <3>2
  <2>2. R \in Nat /\ Cardinality(Hits(edits, w, "remove", i + 1)) = R + rem
    <3>1. (\A k \in 1..i : w[k] = v[k]) /\ w[i + 1] = ok /\ w[i + 1] \in BOOLEAN
      BY <1>4
    <3> HIDE DEF w, v
    <3>2. /\ R \in Nat
          /\ Cardinality(Hits(edits, w, "remove", i + 1)) =
                R + (IF w[i + 1] THEN OnList(edits[i + 1], "remove") ELSE 0)
      BY <1>1, <3>1, HitsStep
    <3> QED
      BY <3>1, <3>2
  <2>3. Len(d.list) = Len(draft.list) + I - R
    BY DEF OnTarget
  <2>4. Len(draft.list) \in Nat
    BY FieldsRead
  <2>5. ins \in {0, 1} /\ rem \in {0, 1}
    BY DEF OnList
  <2>6. Len(a.list) = Len(d.list) + ins - rem
    BY <1>5
  <2> HIDE DEF ins, rem, I, R, a, d, w
  <2> QED
    BY <2>1, <2>2, <2>3, <2>4, <2>5, <2>6
<1> QED
  BY <1>3, <1>4, <1>5, <1>6, <1>7, <1>8 DEF OnTarget, n
\* Whatever draft and whatever batch of edits: a field no edit names is as before, one that
\* was there is only changed or removed by an edit that quotes its value or removes it, and
\* the list grows and shrinks by the accepted insertions and removals (apply_edits: "errors,
\* not guesses").  An induction over the batch.
THEOREM EditsAreLocal ==
  ASSUME NEW draft \in Drafts, NEW edits \in Seq(Edits)
  PROVE  Editor!EditsStayOnTarget(draft, edits)
<1> DEFINE n == Len(edits)
           start == [draft |-> draft, verdicts |-> <<>>]
           Chain(g, i) == /\ DOMAIN g = 0..i /\ g[0] = start
                          /\ \A k \in 1..i : g[k] = Editor!ApplyEdit(g[k - 1], edits[k])
           S == {i \in 0..n : \E g : Chain(g, i) /\ OnTarget(draft, edits, g[i], i)}
<1>1. n \in Nat /\ DOMAIN edits = 1..n
  BY LenProperties
<1>2. 0 \in S
  <2>1. OnTarget(draft, edits, start, 0)
    <3>1. Hits(edits, <<>>, "insert", 0) = {} /\ Hits(edits, <<>>, "remove", 0) = {}
      BY DEF Hits
    <3>2. Cardinality({}) = 0 /\ Len(draft.list) \in Nat
      BY FS_EmptySet, FieldsRead
    <3>3. {edits[k].target : k \in 1..0} = {}
      OBVIOUS
    <3>4. start.draft = draft /\ start.verdicts = <<>>
      OBVIOUS
    <3>5. <<>> \in Seq(BOOLEAN) /\ Len(<<>>) = 0
      OBVIOUS
    <3>6. start = [draft |-> start.draft, verdicts |-> start.verdicts]
      OBVIOUS
    <3> HIDE DEF start
    <3>7. Len(start.draft.list) = Len(draft.list)
                                  + Cardinality(Hits(edits, start.verdicts, "insert", 0))
                                  - Cardinality(Hits(edits, start.verdicts, "remove", 0))
      <4>1. /\ Cardinality(Hits(edits, start.verdicts, "insert", 0)) = 0
            /\ Cardinality(Hits(edits, start.verdicts, "remove", 0)) = 0
        BY <3>1, <3>2, <3>4
      <4> QED
        BY <3>2, <3>4, <4>1
    <3>8. start.draft \in Drafts /\ start.verdicts \in Seq(BOOLEAN) /\ Len(start.verdicts) = 0
      BY <3>4, <3>5
    <3> QED
      BY <3>3, <3>4, <3>6, <3>7, <3>8, Zenon DEF OnTarget
  <2> DEFINE g == [i \in 0..0 |-> start]
  <2>2. Chain(g, 0) /\ g[0] = start
    OBVIOUS
  <2>3. 0 \in 0..n
    BY <1>1
  <2> HIDE DEF Chain, g
  <2> QED
    BY <2>1, <2>2, <2>3
<1>3. ASSUME NEW i \in 0..(n - 1), i \in S PROVE i + 1 \in S
  <2>1. PICK g : Chain(g, i) /\ OnTarget(draft, edits, g[i], i)
    BY <1>3
  <2> DEFINE new == Editor!ApplyEdit(g[i], edits[i + 1])
             f   == [k \in 0..(i + 1) |-> IF k = i + 1 THEN new ELSE g[k]]
  <2>2. i \in Nat /\ i + 1 \in 0..n /\ i + 1 \in 1..n
    BY <1>1
  <2>3. Chain(f, i + 1) /\ f[i + 1] = new
    <3>1. DOMAIN f = 0..(i + 1) /\ f[i + 1] = new /\ f[i] = g[i] /\ f[0] = start
      BY <2>1, <2>2
    <3>2. ASSUME NEW k \in 1..(i + 1) PROVE f[k] = Editor!ApplyEdit(f[k - 1], edits[k])
      <4>1. CASE k = i + 1
        <5>1. k - 1 = i
          BY <2>2, <4>1
        <5> HIDE DEF f, new
        <5> QED
          BY <3>1, <4>1, <5>1 DEF new
      <4>2. CASE k # i + 1
        <5>1. k \in 1..i /\ k \in 0..(i + 1) /\ k - 1 \in 0..(i + 1) /\ k - 1 # i + 1
          BY <2>2, <4>2
        <5>2. f[k] = g[k] /\ f[k - 1] = g[k - 1]
          BY <4>2, <5>1
        <5> HIDE DEF f
        <5> QED
          BY <2>1, <5>1, <5>2
      <4> QED
        BY <4>1, <4>2
    <3> HIDE DEF f
    <3> QED
      BY <3>1, <3>2
  <2>4. OnTarget(draft, edits, new, i + 1)
    <3> HIDE DEF Chain
    <3>1. i \in 0..(Len(edits) - 1)
      OBVIOUS
    <3> QED
      BY <2>1, <3>1, NextEdit
  <2> HIDE DEF Chain, f, new
  <2> QED
    BY <2>2, <2>3, <2>4
<1>4. n \in S
  <2> HIDE DEF S
  <2>1. \A i \in 0..n : i \in S
    BY <1>1, <1>2, <1>3, Induct
  <2> QED
    BY <1>1, <2>1
<1>5. PICK g : Chain(g, n) /\ OnTarget(draft, edits, g[n], n)
  BY <1>4
<1> DEFINE Is(f) == f = [i \in 0..n |-> IF i = 0 THEN start ELSE Editor!ApplyEdit(f[i - 1], edits[i])]
           h == CHOOSE f : Is(f)
           T == {i \in 0..n : h[i] = g[i]}
<1>6. \E f : Is(f)
  <2> DEFINE f == [i \in 0..n |-> g[i]]
  <2>1. ASSUME NEW i \in 0..n
        PROVE  f[i] = IF i = 0 THEN start ELSE Editor!ApplyEdit(f[i - 1], edits[i])
    <3>1. CASE i = 0
      BY <1>5, <3>1
    <3>2. CASE i # 0
      <4>1. i \in 1..n /\ i - 1 \in 0..n
        BY <1>1, <3>2
      <4>2. f[i] = g[i] /\ f[i - 1] = g[i - 1]
        BY <4>1
      <4> HIDE DEF f
      <4> QED
        BY <1>5, <3>2, <4>1, <4>2
    <3> QED
      BY <3>1, <3>2
  <2>2. DOMAIN f = 0..n /\ f = [i \in 0..n |-> f[i]]
    OBVIOUS
  <2> HIDE DEF f
  <2>3. Is(f)
    BY <2>1, <2>2
  <2> HIDE DEF Is
  <2> QED
    BY <2>3
<1>7. Is(h)
  <2> HIDE DEF Is
  <2> QED
    BY <1>6, Zenon
<1>8. Editor!ApplyEdits(draft, edits) = h[n]
  BY DEF Editor!ApplyEdits
<1> HIDE DEF h
<1>9. 0 \in T
  BY <1>1, <1>5, <1>7
<1>10. ASSUME NEW i \in 0..(n - 1), i \in T PROVE i + 1 \in T
  <2>1. i + 1 \in 0..n /\ i + 1 \in 1..n /\ i + 1 # 0 /\ i + 1 - 1 = i
    BY <1>1
  <2>2. h[i + 1] = Editor!ApplyEdit(h[i], edits[i + 1])
    BY <1>7, <2>1
  <2>3. g[i + 1] = Editor!ApplyEdit(g[i], edits[i + 1])
    BY <1>5, <2>1
  <2> QED
    BY <1>10, <2>1, <2>2, <2>3
<1>11. h[n] = g[n]
  <2>1. \A i \in 0..n : i \in T
    <3> HIDE DEF T
    <3> QED
      BY <1>1, <1>9, <1>10, Induct
  <2> QED
    BY <1>1, <2>1
<1> DEFINE r == Editor!ApplyEdits(draft, edits)
<1>12. OnTarget(draft, edits, r, n)
  BY <1>5, <1>8, <1>11
<1> HIDE DEF r
<1>13. /\ \A f \in Fields \ {edits[k].target : k \in DOMAIN edits} :
             /\ f \in DOMAIN draft.fields <=> f \in DOMAIN r.draft.fields
             /\ f \in DOMAIN draft.fields => r.draft.fields[f] = draft.fields[f]
       /\ \A f \in DOMAIN draft.fields :
             \/ f \in DOMAIN r.draft.fields /\ r.draft.fields[f] = draft.fields[f]
             \/ \E k \in DOMAIN edits :
                   /\ r.verdicts[k]
                   /\ edits[k].target = f
                   /\ edits[k].op = "remove" \/ edits[k].anchor = draft.fields[f]
  <2> HIDE DEF n
  <2> QED
    BY <1>1, <1>12 DEF OnTarget
<1>14. \A op : {k \in DOMAIN edits : r.verdicts[k] /\ edits[k].op = op /\ ~Editor!IsField(edits[k])}
                  = Hits(edits, r.verdicts, op, n)
  BY <1>1 DEF Hits
<1>15. Len(r.draft.list) =
          Len(draft.list)
          + Cardinality({k \in DOMAIN edits : /\ r.verdicts[k]
                                              /\ edits[k].op = "insert"
                                              /\ ~Editor!IsField(edits[k])})
          - Cardinality({k \in DOMAIN edits : /\ r.verdicts[k]
                                              /\ edits[k].op = "remove"
                                              /\ ~Editor!IsField(edits[k])})
  <2> HIDE DEF n
  <2> QED
    BY <1>12, <1>14 DEF OnTarget
<1>16. \A U : Editor!Cardinality(U) = Cardinality(U)
  BY DEF Editor!Cardinality, Cardinality
<1> QED
  BY <1>13, <1>15, <1>16 DEF Editor!EditsStayOnTarget, r
=============================================================================
