---------------------------- MODULE Scraping_proofs ----------------------------
(***************************************************************************)
(* For any documents, of any size: what scrape reports is what stands in   *)
(* the page, no text lost and every value in its place (ScrapingInv), and  *)
(* the grid extract_grid reports is the first there is (Searching).        *)
(*                                                                         *)
(* What the scripts compute is a matter of sequences: the lemmas go up     *)
(* from the empty sequence, one element at a time (UpFromEmpty), for       *)
(* FlattenSeq, for the rows cut from a grid's cells (InRows), and then for *)
(* a table, a grid, a container and a document.                            *)
(*                                                                         *)
(* And of DesktopRecorder, for any number of requests, downloads and       *)
(* probes of Chrome: what the recording says adds up, and no run but one   *)
(* that Ctrl-C cut short before it reached Chrome leaves Chrome or its     *)
(* profile behind.  That needs where a run stands when Chrome is there     *)
(* (ChromeByPhase), and that the file is written after the last thing it   *)
(* tells of (Written).                                                     *)
(***************************************************************************)
EXTENDS Scraping, DesktopRecorder, SequenceTheorems, WellFoundedInduction, TLAPS

\* Sets of numbers, or of sequences, that are closed under one step more: what holds at the
\* start and from each to the next holds of all.
LEMMA LeastOf ==
  ASSUME NEW S, S \subseteq Nat, S # {}
  PROVE  \E x \in S: \A y \in S: x =< y
<1> DEFINE R == OpToRel(<, Nat)
<1>1. IsWellFoundedOn(R, Nat)
  BY NatLessThanWellFounded
<1>2. \A x, y \in Nat: y < x => <<y, x>> \in R
  BY DEF OpToRel
<1> HIDE DEF R
<1>3. PICK x \in S: \A y \in S: <<y, x>> \notin R
  BY <1>1, WFMin
<1>4. \A y \in S: ~(y < x)
  BY <1>2, <1>3
<1> QED
  BY <1>4

LEMMA UpFromZero ==
  ASSUME NEW P, 0 \in P, \A n \in Nat: n \in P => n + 1 \in P
  PROVE  Nat \subseteq P
<1> DEFINE Rest == Nat \ P
<1> SUFFICES ASSUME Rest # {} PROVE FALSE
  OBVIOUS
<1>1. PICK n \in Rest: \A m \in Rest: n =< m
  BY LeastOf
<1>2. n # 0
  OBVIOUS
<1>3. n - 1 \in Nat /\ n - 1 \notin Rest
  BY <1>1, <1>2
<1> QED
  BY <1>1, <1>3

\* A sequence that is not empty has a last element, appended to the others.
LEMMA LastAndRest ==
  ASSUME NEW T, NEW s \in Seq(T), s # <<>>
  PROVE  LET r == SubSeq(s, 1, Len(s) - 1)
         IN  r \in Seq(T) /\ Len(r) = Len(s) - 1 /\ s[Len(s)] \in T /\ s = Append(r, s[Len(s)])
<1>1. Len(s) \in Nat /\ Len(s) > 0
  OBVIOUS
<1> DEFINE r == SubSeq(s, 1, Len(s) - 1)
<1>2. r \in Seq(T) /\ Len(r) = Len(s) - 1 /\ \A i \in 1..Len(r): r[i] = s[i]
  <2>1. \A i \in 1..(Len(s) - 1): s[i] \in T
    BY <1>1
  <2>2. r \in Seq(T) /\ Len(r) = (IF 1 <= Len(s) - 1 THEN Len(s) - 1 - 1 + 1 ELSE 0)
        /\ \A i \in 1..(Len(s) - 1 - 1 + 1): r[i] = s[1 + i - 1]
    BY <1>1, <2>1, SubSeqProperties
  <2> HIDE DEF r
  <2>3. Len(r) = Len(s) - 1
    <3>1. PICK n \in Nat: n = Len(s) /\ n > 0
      BY <1>1
    <3>2. Len(r) = IF 1 <= n - 1 THEN n - 1 - 1 + 1 ELSE 0
      BY <2>2, <3>1
    <3> QED
      BY <3>1, <3>2
  <2> QED
    BY <1>1, <2>2, <2>3
<1>3. Append(r, s[Len(s)]) \in Seq(T) /\ Len(Append(r, s[Len(s)])) = Len(s)
  BY <1>1, <1>2
<1>4. \A i \in 1..Len(s): s[i] = Append(r, s[Len(s)])[i]
  BY <1>1, <1>2
<1> HIDE DEF r
<1> QED
  BY <1>1, <1>2, <1>3, <1>4, SeqEqual DEF r

LEMMA UpFromEmpty ==
  ASSUME NEW T, NEW P, <<>> \in P, \A s \in Seq(T), x \in T: s \in P => Append(s, x) \in P
  PROVE  Seq(T) \subseteq P
<1> DEFINE N == {n \in Nat: \A s \in Seq(T): Len(s) = n => s \in P}
<1>1. 0 \in N
  OBVIOUS
<1>2. ASSUME NEW n \in Nat, n \in N PROVE n + 1 \in N
  <2> SUFFICES ASSUME NEW s \in Seq(T), Len(s) = n + 1 PROVE s \in P
    OBVIOUS
  <2>1. s # <<>>
    OBVIOUS
  <2>2. PICK r \in Seq(T), x \in T: Len(r) = n /\ s = Append(r, x)
    <3>1. Len(s) - 1 = n
      OBVIOUS
    <3>2. LET r == SubSeq(s, 1, Len(s) - 1)
          IN  r \in Seq(T) /\ Len(r) = Len(s) - 1 /\ s[Len(s)] \in T /\ s = Append(r, s[Len(s)])
      BY <2>1, LastAndRest
    <3> QED
      BY <3>1, <3>2
  <2> QED
    BY <1>2, <2>2
<1> HIDE DEF N
<1>3. Nat \subseteq N
  BY <1>1, <1>2, UpFromZero
<1> QED
  BY <1>3 DEF N

-----------------------------------------------------------------------------
(* FlattenSeq *)

\* FlattenSeq's function, step by step.
Flattens(s, f) == f = [i \in 1..Len(s) |-> IF i = 1 THEN s[i] ELSE f[i - 1] \o s[i]]

\* One sequence more, one step more.
LEMMA FlattensMore ==
  ASSUME NEW T, NEW s \in Seq(Seq(T)), NEW x \in Seq(T),
         NEW f \in [1..Len(s) -> Seq(T)], Flattens(s, f)
  PROVE  \E g \in [1..Len(Append(s, x)) -> Seq(T)]:
            /\ Flattens(Append(s, x), g)
            /\ g[Len(s) + 1] = IF s = <<>> THEN x ELSE f[Len(s)] \o x
<1> DEFINE n == Len(s)
           t == Append(s, x)
           last == IF s = <<>> THEN x ELSE f[n] \o x
           g == [i \in 1..(n + 1) |-> IF i = n + 1 THEN last ELSE f[i]]
<1>1. n \in Nat /\ Len(t) = n + 1 /\ t[n + 1] = x /\ \A i \in 1..n: t[i] = s[i]
  OBVIOUS
<1>2. s = <<>> <=> n = 0
  OBVIOUS
<1>3. last \in Seq(T)
  <2>1. CASE s = <<>>
    BY <2>1
  <2>2. CASE s # <<>>
    <3>1. n \in 1..Len(s)
      BY <1>1, <1>2, <2>2
    <3>2. f[n] \in Seq(T)
      BY <3>1
    <3> QED
      BY <2>2, <3>2
  <2> QED
    BY <2>1, <2>2
<1>4. \A i \in 1..n: f[i] = IF i = 1 THEN s[i] ELSE f[i - 1] \o s[i]
  BY DEF Flattens
<1> HIDE DEF n, t, last
<1>5. g \in [1..(n + 1) -> Seq(T)]
  BY <1>1, <1>3 DEF n
<1>6. ASSUME NEW i \in 1..(n + 1) PROVE g[i] = IF i = 1 THEN t[i] ELSE g[i - 1] \o t[i]
  <2>1. CASE i = n + 1
    <3>1. CASE n = 0
      BY <1>1, <1>2, <2>1, <3>1 DEF last
    <3>2. CASE n # 0
      BY <1>1, <1>2, <2>1, <3>2 DEF last
    <3> QED
      BY <3>1, <3>2
  <2>2. CASE i # n + 1
    BY <1>1, <1>4, <2>2
  <2> QED
    BY <2>1, <2>2
<1>7. g = [i \in 1..(n + 1) |-> IF i = 1 THEN t[i] ELSE g[i - 1] \o t[i]]
  BY <1>6
<1>8. g[n + 1] = last
  BY <1>1
<1> HIDE DEF g
<1>9. Flattens(t, g)
  BY <1>1, <1>7 DEF Flattens
<1> QED
  BY <1>1, <1>5, <1>8, <1>9 DEF n, t, last

\* There is such a function,
LEMMA FlattensExists ==
  ASSUME NEW T, NEW s \in Seq(Seq(T))
  PROVE  \E f \in [1..Len(s) -> Seq(T)]: Flattens(s, f)
<1> DEFINE P == {r \in Seq(Seq(T)): \E f \in [1..Len(r) -> Seq(T)]: Flattens(r, f)}
<1>1. <<>> \in P
  <2> DEFINE f == [i \in 1..0 |-> <<>>]
  <2>1. f \in [1..0 -> Seq(T)] /\ Flattens(<<>>, f)
    BY DEF Flattens
  <2>2. Len(<<>>) = 0 /\ <<>> \in Seq(Seq(T))
    OBVIOUS
  <2> HIDE DEF f
  <2> QED
    BY <2>1, <2>2
<1>2. ASSUME NEW r \in Seq(Seq(T)), NEW x \in Seq(T), r \in P PROVE Append(r, x) \in P
  <2>1. PICK f \in [1..Len(r) -> Seq(T)]: Flattens(r, f)
    BY <1>2
  <2>2. \E g \in [1..Len(Append(r, x)) -> Seq(T)]: Flattens(Append(r, x), g)
    BY <2>1, FlattensMore
  <2>3. Append(r, x) \in Seq(Seq(T))
    OBVIOUS
  <2> QED
    BY <2>2, <2>3
<1> HIDE DEF P
<1>3. Seq(Seq(T)) \subseteq P
  BY <1>1, <1>2, UpFromEmpty
<1> QED
  BY <1>3 DEF P

\* and no other,
LEMMA FlattensOnce ==
  ASSUME NEW s, Len(s) \in Nat, NEW f, NEW g, Flattens(s, f), Flattens(s, g)
  PROVE  f = g
<1> DEFINE P == {n \in Nat: n + 1 \in 1..Len(s) => f[n + 1] = g[n + 1]}
<1>1. \A i \in 1..Len(s): /\ f[i] = IF i = 1 THEN s[i] ELSE f[i - 1] \o s[i]
                          /\ g[i] = IF i = 1 THEN s[i] ELSE g[i - 1] \o s[i]
  BY DEF Flattens
<1>2. 0 \in P
  BY <1>1
<1>3. ASSUME NEW n \in Nat, n \in P PROVE n + 1 \in P
  <2> SUFFICES ASSUME n + 2 \in 1..Len(s) PROVE f[n + 2] = g[n + 2]
    BY <1>3
  <2>1. f[n + 1] = g[n + 1] /\ n + 2 # 1 /\ n + 2 - 1 = n + 1
    BY <1>3
  <2> QED
    BY <1>1, <2>1
<1> HIDE DEF P
<1>4. Nat \subseteq P
  BY <1>2, <1>3, UpFromZero
<1>5. ASSUME NEW i \in 1..Len(s) PROVE f[i] = g[i]
  <2>1. i - 1 \in Nat /\ (i - 1) + 1 = i
    OBVIOUS
  <2>2. i - 1 \in P
    BY <1>4, <2>1
  <2> QED
    BY <2>1, <2>2 DEF P
<1>6. /\ f = [i \in 1..Len(s) |-> f[i]]
      /\ g = [i \in 1..Len(s) |-> g[i]]
  BY DEF Flattens
<1> QED
  BY <1>5, <1>6

\* so the one that FlattenSeq chooses is it.
LEMMA FlattenIs ==
  ASSUME NEW T, NEW s \in Seq(Seq(T)), NEW f, Flattens(s, f)
  PROVE  FlattenSeq(s) = IF s = <<>> THEN <<>> ELSE f[Len(s)]
<1>1. CASE s = <<>>
  BY <1>1 DEF FlattenSeq
<1>2. CASE s # <<>>
  <2> DEFINE h == CHOOSE h : h = [i \in 1..Len(s) |-> IF i = 1 THEN s[i] ELSE h[i - 1] \o s[i]]
  <2>1. Flattens(s, h)
    BY DEF Flattens
  <2>2. Len(s) \in Nat /\ Len(s) # 0
    BY <1>2
  <2>3. FlattenSeq(s) = h[Len(s)]
    BY <2>2 DEF FlattenSeq
  <2> HIDE DEF h
  <2>4. h = f
    BY <2>1, <2>2, FlattensOnce
  <2> QED
    BY <1>2, <2>3, <2>4
<1> QED
  BY <1>1, <1>2

\* FlattenSeq over a sequence's elements, from the first to the last.
LEMMA Flattening ==
  ASSUME NEW T, NEW s \in Seq(Seq(T))
  PROVE  /\ FlattenSeq(<<>>) = <<>>
         /\ FlattenSeq(s) \in Seq(T)
         /\ \A x \in Seq(T): FlattenSeq(Append(s, x)) = FlattenSeq(s) \o x
<1>1. PICK f \in [1..Len(s) -> Seq(T)]: Flattens(s, f)
  BY FlattensExists
<1>2. FlattenSeq(s) = IF s = <<>> THEN <<>> ELSE f[Len(s)]
  BY <1>1, FlattenIs
<1>3. Len(s) \in Nat /\ (s = <<>> <=> Len(s) = 0)
  OBVIOUS
<1>4. FlattenSeq(s) \in Seq(T)
  <2>1. CASE s = <<>>
    BY <1>2, <2>1
  <2>2. CASE s # <<>>
    <3>1. Len(s) \in 1..Len(s)
      BY <1>3, <2>2
    <3>2. f[Len(s)] \in Seq(T)
      BY <3>1
    <3> QED
      BY <1>2, <2>2, <3>2
  <2> QED
    BY <2>1, <2>2
<1>5. ASSUME NEW x \in Seq(T) PROVE FlattenSeq(Append(s, x)) = FlattenSeq(s) \o x
  <2>1. PICK g \in [1..Len(Append(s, x)) -> Seq(T)]:
            /\ Flattens(Append(s, x), g)
            /\ g[Len(s) + 1] = IF s = <<>> THEN x ELSE f[Len(s)] \o x
    BY <1>1, FlattensMore
  <2>2. Append(s, x) \in Seq(Seq(T)) /\ Len(Append(s, x)) = Len(s) + 1
    OBVIOUS
  <2>3. FlattenSeq(Append(s, x)) = g[Len(s) + 1]
    <3>1. Append(s, x) # <<>>
      BY <1>3, <2>2
    <3>2. FlattenSeq(Append(s, x)) = g[Len(Append(s, x))]
      BY <2>1, <2>2, <3>1, FlattenIs
    <3> QED
      BY <2>2, <3>2
  <2>4. CASE s = <<>>
    <3>1. x = <<>> \o x
      OBVIOUS
    <3> QED
      BY <1>2, <2>1, <2>3, <2>4, <3>1
  <2>5. CASE s # <<>>
    BY <1>2, <2>1, <2>3, <2>5
  <2> QED
    BY <2>4, <2>5
<1>6. FlattenSeq(<<>>) = <<>>
  BY DEF FlattenSeq
<1> QED
  BY <1>4, <1>5, <1>6

\* FlattenSeq of two sequences after one another.
LEMMA FlattenConcat ==
  ASSUME NEW T, NEW a \in Seq(Seq(T)), NEW b \in Seq(Seq(T))
  PROVE  FlattenSeq(a \o b) = FlattenSeq(a) \o FlattenSeq(b)
<1> DEFINE P == {s \in Seq(Seq(T)): FlattenSeq(a \o s) = FlattenSeq(a) \o FlattenSeq(s)}
<1>1. <<>> \in P
  <2>1. a \o <<>> = a /\ FlattenSeq(a) \in Seq(T) /\ FlattenSeq(<<>>) = <<>>
    BY Flattening
  <2>2. FlattenSeq(a) \o <<>> = FlattenSeq(a)
    BY <2>1
  <2> QED
    BY <2>1, <2>2
<1>2. ASSUME NEW s \in Seq(Seq(T)), NEW x \in Seq(T), s \in P PROVE Append(s, x) \in P
  <2>1. a \o Append(s, x) = Append(a \o s, x) /\ a \o s \in Seq(Seq(T)) /\ Append(s, x) \in Seq(Seq(T))
    OBVIOUS
  <2>2. FlattenSeq(a) \in Seq(T) /\ FlattenSeq(s) \in Seq(T)
        /\ FlattenSeq(Append(s, x)) = FlattenSeq(s) \o x
    BY Flattening
  <2>3. FlattenSeq(Append(a \o s, x)) = FlattenSeq(a \o s) \o x
    BY <2>1, Flattening
  <2>4. FlattenSeq(a \o s) = FlattenSeq(a) \o FlattenSeq(s)
    BY <1>2
  <2>5. (FlattenSeq(a) \o FlattenSeq(s)) \o x = FlattenSeq(a) \o (FlattenSeq(s) \o x)
    BY <2>2, ConcatAssociative
  <2> QED
    BY <2>1, <2>2, <2>3, <2>4, <2>5
<1> HIDE DEF P
<1>3. Seq(Seq(T)) \subseteq P
  BY <1>1, <1>2, UpFromEmpty
<1> QED
  BY <1>3 DEF P

\* What is nested twice may be flattened from the inside.
LEMMA FlattenTwice ==
  ASSUME NEW T, NEW s \in Seq(Seq(Seq(T)))
  PROVE  /\ [i \in DOMAIN s |-> FlattenSeq(s[i])] \in Seq(Seq(T))
         /\ FlattenSeq(FlattenSeq(s)) = FlattenSeq([i \in DOMAIN s |-> FlattenSeq(s[i])])
<1> DEFINE Inner(r) == [i \in DOMAIN r |-> FlattenSeq(r[i])]
           P == {r \in Seq(Seq(Seq(T))): FlattenSeq(FlattenSeq(r)) = FlattenSeq(Inner(r))}
<1>1. ASSUME NEW r \in Seq(Seq(Seq(T))) PROVE Inner(r) \in Seq(Seq(T)) /\ Len(Inner(r)) = Len(r)
  <2>1. \A i \in DOMAIN r: FlattenSeq(r[i]) \in Seq(T)
    <3> SUFFICES ASSUME NEW i \in DOMAIN r PROVE FlattenSeq(r[i]) \in Seq(T)
      OBVIOUS
    <3>1. r[i] \in Seq(Seq(T))
      OBVIOUS
    <3> QED
      BY <3>1, Flattening
  <2>2. DOMAIN r = 1..Len(r) /\ Len(r) \in Nat
    OBVIOUS
  <2> QED
    BY <2>1, <2>2
<1>2. <<>> \in P
  <2>1. Inner(<<>>) = <<>>
    OBVIOUS
  <2>2. <<>> \in Seq(Seq(Seq(T))) /\ FlattenSeq(<<>>) = <<>>
    BY DEF FlattenSeq
  <2> HIDE DEF Inner
  <2> QED
    BY <2>1, <2>2
<1>3. ASSUME NEW r \in Seq(Seq(Seq(T))), NEW x \in Seq(Seq(T)), r \in P PROVE Append(r, x) \in P
  <2>1. Append(r, x) \in Seq(Seq(Seq(T))) /\ Len(Append(r, x)) = Len(r) + 1 /\ Len(r) \in Nat
        /\ Append(r, x)[Len(r) + 1] = x /\ (\A i \in 1..Len(r): Append(r, x)[i] = r[i])
        /\ DOMAIN Append(r, x) = 1..(Len(r) + 1) /\ DOMAIN r = 1..Len(r)
    OBVIOUS
  <2>2. FlattenSeq(x) \in Seq(T) /\ FlattenSeq(r) \in Seq(Seq(T))
    BY Flattening
  <2>3. Inner(Append(r, x)) = Append(Inner(r), FlattenSeq(x))
    <3>1. Inner(r) \in Seq(Seq(T)) /\ Inner(Append(r, x)) \in Seq(Seq(T))
          /\ Len(Inner(r)) = Len(r) /\ Len(Inner(Append(r, x))) = Len(r) + 1
      BY <1>1, <2>1
    <3>2. \A i \in 1..Len(r): Inner(Append(r, x))[i] = Inner(r)[i]
      BY <2>1
    <3>3. Inner(Append(r, x))[Len(r) + 1] = FlattenSeq(x)
      BY <2>1
    <3> HIDE DEF Inner
    <3>4. Append(Inner(r), FlattenSeq(x)) \in Seq(Seq(T))
          /\ Len(Append(Inner(r), FlattenSeq(x))) = Len(r) + 1
          /\ (\A i \in 1..Len(r): Append(Inner(r), FlattenSeq(x))[i] = Inner(r)[i])
          /\ Append(Inner(r), FlattenSeq(x))[Len(r) + 1] = FlattenSeq(x)
      BY <2>1, <2>2, <3>1
    <3>5. \A i \in 1..(Len(r) + 1): Inner(Append(r, x))[i] = Append(Inner(r), FlattenSeq(x))[i]
      BY <2>1, <3>2, <3>3, <3>4
    <3> QED
      BY <3>1, <3>4, <3>5, SeqEqual
  <2>4. Inner(r) \in Seq(Seq(T)) /\ FlattenSeq(FlattenSeq(r)) = FlattenSeq(Inner(r))
    BY <1>1, <1>3
  <2> HIDE DEF Inner
  <2>5. FlattenSeq(Inner(Append(r, x))) = FlattenSeq(Inner(r)) \o FlattenSeq(x)
    BY <2>2, <2>3, <2>4, Flattening
  <2>6. FlattenSeq(Append(r, x)) = FlattenSeq(r) \o x
    BY Flattening
  <2>7. FlattenSeq(FlattenSeq(r) \o x) = FlattenSeq(FlattenSeq(r)) \o FlattenSeq(x)
    BY <2>2, FlattenConcat
  <2> QED
    BY <2>1, <2>4, <2>5, <2>6, <2>7
<1>4. Seq(Seq(Seq(T))) \subseteq P
  <2> HIDE DEF P
  <2> QED
    BY <1>2, <1>3, UpFromEmpty
<1> QED
  BY <1>1, <1>4

\* The elements of two sequences after one another.
LEMMA RangeConcat ==
  ASSUME NEW T, NEW a \in Seq(T), NEW b \in Seq(T)
  PROVE  Range(a \o b) = Range(a) \cup Range(b)
<1>1. /\ DOMAIN a = 1..Len(a) /\ Len(a) \in Nat /\ DOMAIN b = 1..Len(b) /\ Len(b) \in Nat
      /\ DOMAIN (a \o b) = 1..(Len(a) + Len(b))
  OBVIOUS
<1>2. \A i \in 1..(Len(a) + Len(b)): (a \o b)[i] = IF i <= Len(a) THEN a[i] ELSE b[i - Len(a)]
  BY ConcatProperties
<1>3. ASSUME NEW y \in Range(a \o b) PROVE y \in Range(a) \cup Range(b)
  BY <1>1, <1>2 DEF Range
<1>4. ASSUME NEW y \in Range(a) PROVE y \in Range(a \o b)
  <2>1. PICK i \in 1..Len(a): y = a[i]
    BY <1>1 DEF Range
  <2>2. i \in 1..(Len(a) + Len(b)) /\ (a \o b)[i] = y
    BY <1>1, <1>2, <2>1
  <2> QED
    BY <1>1, <2>2 DEF Range
<1>5. ASSUME NEW y \in Range(b) PROVE y \in Range(a \o b)
  <2>1. PICK i \in 1..Len(b): y = b[i]
    BY <1>1 DEF Range
  <2>2. Len(a) + i \in 1..(Len(a) + Len(b)) /\ (a \o b)[Len(a) + i] = y
    BY <1>1, <1>2, <2>1
  <2> QED
    BY <1>1, <2>2 DEF Range
<1> QED
  BY <1>3, <1>4, <1>5

\* Nothing but the elements of the sequences, and all of them.
LEMMA FlattenRange ==
  ASSUME NEW T, NEW s \in Seq(Seq(T))
  PROVE  Range(FlattenSeq(s)) = UNION {Range(s[i]): i \in DOMAIN s}
<1> DEFINE P == {r \in Seq(Seq(T)): Range(FlattenSeq(r)) = UNION {Range(r[i]): i \in DOMAIN r}}
<1>1. <<>> \in P
  <2>1. FlattenSeq(<<>>) = <<>> /\ DOMAIN <<>> = {} /\ Range(<<>>) = {}
    BY DEF FlattenSeq, Range
  <2> QED
    BY <2>1
<1>2. ASSUME NEW r \in Seq(Seq(T)), NEW x \in Seq(T), r \in P PROVE Append(r, x) \in P
  <2>1. FlattenSeq(r) \in Seq(T) /\ FlattenSeq(Append(r, x)) = FlattenSeq(r) \o x
    BY Flattening
  <2>2. Range(FlattenSeq(Append(r, x))) = Range(FlattenSeq(r)) \cup Range(x)
    BY <2>1, RangeConcat
  <2>3. UNION {Range(Append(r, x)[i]): i \in DOMAIN Append(r, x)}
        = (UNION {Range(r[i]): i \in DOMAIN r}) \cup Range(x)
    <3> DEFINE t == Append(r, x)
    <3>1. /\ DOMAIN t = DOMAIN r \cup {Len(r) + 1} /\ t[Len(r) + 1] = x
          /\ \A i \in DOMAIN r: t[i] = r[i]
      OBVIOUS
    <3> HIDE DEF t
    <3>2. {Range(t[i]): i \in DOMAIN t} = {Range(r[i]): i \in DOMAIN r} \cup {Range(x)}
      BY <3>1
    <3>3. UNION {Range(t[i]): i \in DOMAIN t} = (UNION {Range(r[i]): i \in DOMAIN r}) \cup Range(x)
      BY <3>2
    <3> QED
      BY <3>3 DEF t
  <2>4. Append(r, x) \in Seq(Seq(T))
    OBVIOUS
  <2>5. Range(FlattenSeq(Append(r, x))) = UNION {Range(Append(r, x)[i]): i \in DOMAIN Append(r, x)}
    BY <1>2, <2>2, <2>3
  <2> QED
    BY <2>4, <2>5
<1>3. Seq(Seq(T)) \subseteq P
  <2> HIDE DEF P
  <2> QED
    BY <1>1, <1>2, UpFromEmpty
<1> QED
  BY <1>3

\* FlattenSeq from the front.
LEMMA FlattenFirst ==
  ASSUME NEW T, NEW s \in Seq(Seq(T)), s # <<>>
  PROVE  /\ s[1] \in Seq(T) /\ Tail(s) \in Seq(Seq(T))
         /\ FlattenSeq(Tail(s)) \in Seq(T)
         /\ FlattenSeq(s) = s[1] \o FlattenSeq(Tail(s))
<1>1. Len(s) \in Nat /\ Len(s) > 0
  OBVIOUS
<1>2. s[1] \in Seq(T) /\ Tail(s) \in Seq(Seq(T)) /\ <<s[1]>> \in Seq(Seq(T))
  BY <1>1
<1>3. s = <<s[1]>> \o Tail(s)
  <2>1. /\ <<s[1]>> \o Tail(s) \in Seq(Seq(T)) /\ Len(<<s[1]>> \o Tail(s)) = Len(s)
        /\ \A i \in 1..Len(s): s[i] = (<<s[1]>> \o Tail(s))[i]
    BY <1>1, <1>2
  <2> QED
    BY <2>1, SeqEqual
<1>4. FlattenSeq(<<s[1]>>) = s[1]
  <2>1. <<>> \in Seq(Seq(T)) /\ Append(<<>>, s[1]) = <<s[1]>> /\ <<>> \o s[1] = s[1]
    BY <1>2
  <2>2. FlattenSeq(Append(<<>>, s[1])) = FlattenSeq(<<>>) \o s[1] /\ FlattenSeq(<<>>) = <<>>
    BY <1>2, <2>1, Flattening
  <2> QED
    BY <2>1, <2>2
<1>5. FlattenSeq(Tail(s)) \in Seq(T)
  BY <1>2, Flattening
<1>6. FlattenSeq(<<s[1]>> \o Tail(s)) = FlattenSeq(<<s[1]>>) \o FlattenSeq(Tail(s))
  BY <1>2, FlattenConcat
<1> QED
  BY <1>2, <1>3, <1>4, <1>5, <1>6

\* Sequences of one element each.
LEMMA FlattenSingles ==
  ASSUME NEW T, NEW s \in Seq(T)
  PROVE  /\ [i \in DOMAIN s |-> <<s[i]>>] \in Seq(Seq(T))
         /\ FlattenSeq([i \in DOMAIN s |-> <<s[i]>>]) = s
<1> DEFINE Single(r) == [i \in DOMAIN r |-> <<r[i]>>]
           P == {r \in Seq(T): Single(r) \in Seq(Seq(T)) /\ FlattenSeq(Single(r)) = r}
<1>1. <<>> \in P
  <2>1. <<>> \in Seq(T) /\ Single(<<>>) = <<>> /\ <<>> \in Seq(Seq(T)) /\ FlattenSeq(<<>>) = <<>>
    BY DEF FlattenSeq
  <2> HIDE DEF Single
  <2> QED
    BY <2>1
<1>2. ASSUME NEW r \in Seq(T), NEW x \in T, r \in P PROVE Append(r, x) \in P
  <2>1. Append(r, x) \in Seq(T) /\ Single(r) \in Seq(Seq(T)) /\ FlattenSeq(Single(r)) = r
        /\ <<x>> \in Seq(T)
    BY <1>2
  <2>2. Single(Append(r, x)) = Append(Single(r), <<x>>)
    OBVIOUS
  <2> HIDE DEF Single
  <2>3. FlattenSeq(Append(Single(r), <<x>>)) = FlattenSeq(Single(r)) \o <<x>>
    BY <2>1, Flattening
  <2>4. r \o <<x>> = Append(r, x) /\ Append(Single(r), <<x>>) \in Seq(Seq(T))
    BY <2>1
  <2> QED
    BY <2>1, <2>2, <2>3, <2>4
<1>3. Seq(T) \subseteq P
  <2> HIDE DEF P
  <2> QED
    BY <1>1, <1>2, UpFromEmpty
<1> QED
  BY <1>3

\* What Only and Collect keep.
LEMMA Chosen ==
  ASSUME NEW A, NEW s \in Seq(A), NEW K
  PROVE  LET each == [i \in DOMAIN s |-> IF s[i] \in K THEN <<s[i]>> ELSE <<>>]
         IN  /\ each \in Seq(Seq(A))
             /\ FlattenSeq(each) \in Seq(A)
             /\ Range(FlattenSeq(each)) = Range(s) \cap K
<1> DEFINE each == [i \in DOMAIN s |-> IF s[i] \in K THEN <<s[i]>> ELSE <<>>]
<1>1. each \in Seq(Seq(A)) /\ DOMAIN each = DOMAIN s
  <2>1. DOMAIN s = 1..Len(s) /\ Len(s) \in Nat /\ \A i \in DOMAIN s: s[i] \in A
    OBVIOUS
  <2>2. \A i \in DOMAIN s: (IF s[i] \in K THEN <<s[i]>> ELSE <<>>) \in Seq(A)
    BY <2>1
  <2> QED
    BY <2>1, <2>2
<1>2. FlattenSeq(each) \in Seq(A) /\ Range(FlattenSeq(each)) = UNION {Range(each[i]): i \in DOMAIN each}
  <2> HIDE DEF each
  <2> QED
    BY <1>1, Flattening, FlattenRange
<1>3. \A i \in DOMAIN s: Range(each[i]) = IF s[i] \in K THEN {s[i]} ELSE {}
  BY DEF Range
<1> HIDE DEF each
<1>4. UNION {Range(each[i]): i \in DOMAIN each} = Range(s) \cap K
  <2>1. ASSUME NEW x \in Range(s), x \in K PROVE x \in UNION {Range(each[i]): i \in DOMAIN each}
    <3>1. PICK i \in DOMAIN s: x = s[i]
      BY DEF Range
    <3>2. x \in Range(each[i])
      BY <1>3, <2>1, <3>1
    <3> QED
      BY <1>1, <3>2
  <2>2. ASSUME NEW i \in DOMAIN s, NEW x \in Range(each[i]) PROVE x \in Range(s) /\ x \in K
    <3>1. x = s[i] /\ s[i] \in K
      BY <1>3, <2>2
    <3> QED
      BY <3>1 DEF Range
  <2> QED
    BY <1>1, <2>1, <2>2
<1> QED
  BY <1>1, <1>2, <1>4 DEF each

-----------------------------------------------------------------------------
(* The rows of a grid: InRows *)

\* What InRows makes of some cells.
Rows(T) == [rows: Seq(Seq(T)), row: Seq(T)]

LEMMA PutType ==
  ASSUME NEW T, NEW acc \in Rows(T), NEW x \in T, NEW h
  PROVE  Put(acc, x, h) \in Rows(T)
BY DEF Rows, Put

\* InRows's function, step by step.
Fills(s, h, f) ==
    f = [i \in 0..Len(s) |-> IF i = 0 THEN [rows |-> <<>>, row |-> <<>>] ELSE Put(f[i - 1], s[i], h)]

\* One cell more, one step more.
LEMMA FillsMore ==
  ASSUME NEW T, NEW h, NEW s \in Seq(T), NEW x \in T, NEW f \in [0..Len(s) -> Rows(T)], Fills(s, h, f)
  PROVE  \E g \in [0..Len(Append(s, x)) -> Rows(T)]:
            /\ Fills(Append(s, x), h, g)
            /\ g[Len(s) + 1] = Put(f[Len(s)], x, h)
<1> DEFINE n == Len(s)
           t == Append(s, x)
           last == Put(f[n], x, h)
           g == [i \in 0..(n + 1) |-> IF i = n + 1 THEN last ELSE f[i]]
<1>1. n \in Nat /\ Len(t) = n + 1 /\ t[n + 1] = x /\ \A i \in 1..n: t[i] = s[i]
  OBVIOUS
<1>2. last \in Rows(T)
  <2>1. n \in 0..Len(s)
    BY <1>1
  <2>2. f[n] \in Rows(T)
    BY <2>1
  <2> QED
    BY <2>2, PutType
<1>3. \A i \in 0..n: f[i] = IF i = 0 THEN [rows |-> <<>>, row |-> <<>>] ELSE Put(f[i - 1], s[i], h)
  BY DEF Fills
<1> HIDE DEF n, t
<1>4. g \in [0..(n + 1) -> Rows(T)]
  <2> HIDE DEF last
  <2> QED
    BY <1>1, <1>2 DEF n
<1>5. ASSUME NEW i \in 0..(n + 1)
      PROVE  g[i] = IF i = 0 THEN [rows |-> <<>>, row |-> <<>>] ELSE Put(g[i - 1], t[i], h)
  <2>1. CASE i = n + 1
    <3>1. g[i] = last /\ g[i - 1] = f[n] /\ i # 0 /\ t[i] = x
      BY <1>1, <2>1
    <3> HIDE DEF g
    <3> QED
      BY <3>1
  <2>2. CASE i = 0
    BY <1>1, <1>3, <2>2
  <2>3. CASE i # n + 1 /\ i # 0
    <3>1. g[i] = f[i] /\ g[i - 1] = f[i - 1] /\ t[i] = s[i] /\ i \in 0..n
      BY <1>1, <2>3
    <3> HIDE DEF g
    <3> QED
      BY <1>3, <2>3, <3>1
  <2> QED
    BY <2>1, <2>2, <2>3
<1>6. g = [i \in 0..(n + 1) |-> IF i = 0 THEN [rows |-> <<>>, row |-> <<>>] ELSE Put(g[i - 1], t[i], h)]
  BY <1>5
<1>7. g[n + 1] = last
  BY <1>1
<1> HIDE DEF g
<1>8. Fills(t, h, g)
  BY <1>1, <1>6 DEF Fills
<1> QED
  BY <1>1, <1>4, <1>7, <1>8 DEF n, t, last

\* There is such a function,
LEMMA FillsExists ==
  ASSUME NEW T, NEW h, NEW s \in Seq(T)
  PROVE  \E f \in [0..Len(s) -> Rows(T)]: Fills(s, h, f)
<1> DEFINE P == {r \in Seq(T): \E f \in [0..Len(r) -> Rows(T)]: Fills(r, h, f)}
<1>1. <<>> \in P
  <2> DEFINE f == [i \in 0..0 |-> [rows |-> <<>>, row |-> <<>>]]
  <2>1. [rows |-> <<>>, row |-> <<>>] \in Rows(T)
    BY DEF Rows
  <2>2. f \in [0..0 -> Rows(T)]
    BY <2>1
  <2>3. Len(<<>>) = 0 /\ <<>> \in Seq(T)
    OBVIOUS
  <2>4. f = [i \in 0..0 |-> IF i = 0 THEN [rows |-> <<>>, row |-> <<>>] ELSE Put(f[i - 1], <<>>[i], h)]
    OBVIOUS
  <2>5. Fills(<<>>, h, f)
    BY <2>3, <2>4 DEF Fills
  <2> HIDE DEF f
  <2> QED
    BY <2>2, <2>3, <2>5
<1>2. ASSUME NEW r \in Seq(T), NEW x \in T, r \in P PROVE Append(r, x) \in P
  <2>1. PICK f \in [0..Len(r) -> Rows(T)]: Fills(r, h, f)
    BY <1>2
  <2>2. \E g \in [0..Len(Append(r, x)) -> Rows(T)]: Fills(Append(r, x), h, g)
    BY <2>1, FillsMore
  <2>3. Append(r, x) \in Seq(T)
    OBVIOUS
  <2> QED
    BY <2>2, <2>3
<1> HIDE DEF P
<1>3. Seq(T) \subseteq P
  BY <1>1, <1>2, UpFromEmpty
<1> QED
  BY <1>3 DEF P

\* and no other.
LEMMA FillsOnce ==
  ASSUME NEW s, NEW h, Len(s) \in Nat, NEW f, NEW g, Fills(s, h, f), Fills(s, h, g)
  PROVE  f = g
<1> DEFINE P == {n \in Nat: n \in 0..Len(s) => f[n] = g[n]}
<1>1. \A i \in 0..Len(s):
         /\ f[i] = IF i = 0 THEN [rows |-> <<>>, row |-> <<>>] ELSE Put(f[i - 1], s[i], h)
         /\ g[i] = IF i = 0 THEN [rows |-> <<>>, row |-> <<>>] ELSE Put(g[i - 1], s[i], h)
  BY DEF Fills
<1>2. 0 \in P
  BY <1>1
<1>3. ASSUME NEW n \in Nat, n \in P PROVE n + 1 \in P
  <2> SUFFICES ASSUME n + 1 \in 0..Len(s) PROVE f[n + 1] = g[n + 1]
    BY <1>3
  <2>1. f[n] = g[n] /\ n + 1 # 0 /\ n + 1 - 1 = n
    BY <1>3
  <2> QED
    BY <1>1, <2>1
<1> HIDE DEF P
<1>4. Nat \subseteq P
  BY <1>2, <1>3, UpFromZero
<1>5. \A i \in 0..Len(s): f[i] = g[i]
  BY <1>4 DEF P
<1>6. /\ f = [i \in 0..Len(s) |-> f[i]]
      /\ g = [i \in 0..Len(s) |-> g[i]]
  BY DEF Fills
<1> QED
  BY <1>5, <1>6

\* InRows over the cells, from the first to the last.
LEMMA Filling ==
  ASSUME NEW T, NEW h, NEW s \in Seq(T)
  PROVE  /\ InRows(<<>>, h) = [rows |-> <<>>, row |-> <<>>]
         /\ InRows(s, h) \in Rows(T)
         /\ \A x \in T: InRows(Append(s, x), h) = Put(InRows(s, h), x, h)
<1>1. ASSUME NEW r \in Seq(T), NEW f, Fills(r, h, f) PROVE InRows(r, h) = f[Len(r)]
  <2> DEFINE put == CHOOSE put: put = [i \in 0..Len(r) |->
                        IF i = 0 THEN [rows |-> <<>>, row |-> <<>>] ELSE Put(put[i - 1], r[i], h)]
  <2>1. Fills(r, h, put)
    BY <1>1 DEF Fills
  <2>2. InRows(r, h) = put[Len(r)]
    BY DEF InRows
  <2> HIDE DEF put
  <2> QED
    BY <1>1, <2>1, <2>2, FillsOnce
<1>2. InRows(<<>>, h) = [rows |-> <<>>, row |-> <<>>]
  <2>1. <<>> \in Seq(T) /\ Len(<<>>) = 0
    OBVIOUS
  <2>2. PICK f \in [0..Len(<<>>) -> Rows(T)]: Fills(<<>>, h, f)
    BY <2>1, FillsExists
  <2>3. f[0] = [rows |-> <<>>, row |-> <<>>]
    BY <2>1, <2>2 DEF Fills
  <2> QED
    BY <1>1, <2>1, <2>2, <2>3
<1>3. PICK f \in [0..Len(s) -> Rows(T)]: Fills(s, h, f)
  BY FillsExists
<1>4. InRows(s, h) = f[Len(s)] /\ f[Len(s)] \in Rows(T)
  <2>1. Len(s) \in 0..Len(s)
    OBVIOUS
  <2>2. f[Len(s)] \in Rows(T)
    BY <2>1
  <2> QED
    BY <1>1, <1>3, <2>2
<1>5. ASSUME NEW x \in T PROVE InRows(Append(s, x), h) = Put(InRows(s, h), x, h)
  <2>1. Append(s, x) \in Seq(T) /\ Len(Append(s, x)) = Len(s) + 1
    OBVIOUS
  <2>2. PICK g \in [0..Len(Append(s, x)) -> Rows(T)]:
            Fills(Append(s, x), h, g) /\ g[Len(s) + 1] = Put(f[Len(s)], x, h)
    BY <1>3, FillsMore
  <2> QED
    BY <1>1, <1>4, <2>1, <2>2
<1> QED
  BY <1>2, <1>4, <1>5

\* No cell is lost or moved.
LEMMA RowsKeepCells ==
  ASSUME NEW T, NEW h, NEW s \in Seq(T)
  PROVE  FlattenSeq(InRows(s, h).rows) \o InRows(s, h).row = s
<1> DEFINE P == {r \in Seq(T): FlattenSeq(InRows(r, h).rows) \o InRows(r, h).row = r}
<1>1. <<>> \in P
  <2>1. <<>> \in Seq(T) /\ InRows(<<>>, h) = [rows |-> <<>>, row |-> <<>>]
    <3>1. <<>> \in Seq(T)
      OBVIOUS
    <3> QED
      BY <3>1, Filling
  <2>2. FlattenSeq(<<>>) = <<>> /\ <<>> \o <<>> = <<>>
    BY DEF FlattenSeq
  <2>3. FlattenSeq(InRows(<<>>, h).rows) \o InRows(<<>>, h).row = <<>>
    BY <2>1, <2>2
  <2> QED
    BY <2>1, <2>3
<1>2. ASSUME NEW r \in Seq(T), NEW x \in T, r \in P PROVE Append(r, x) \in P
  <2>0. Append(r, x) \in Seq(T)
    OBVIOUS
  <2> SUFFICES FlattenSeq(InRows(Append(r, x), h).rows) \o InRows(Append(r, x), h).row = Append(r, x)
    BY <2>0
  <2>1. PICK acc \in Rows(T): acc = InRows(r, h) /\ InRows(Append(r, x), h) = Put(acc, x, h)
    BY Filling
  <2>2. acc.rows \in Seq(Seq(T)) /\ acc.row \in Seq(T) /\ Append(acc.row, x) \in Seq(T)
    BY DEF Rows
  <2>3. FlattenSeq(acc.rows) \o acc.row = r
    BY <1>2, <2>1
  <2>4. FlattenSeq(acc.rows) \in Seq(T)
        /\ FlattenSeq(Append(acc.rows, Append(acc.row, x))) = FlattenSeq(acc.rows) \o Append(acc.row, x)
    BY <2>2, Flattening
  <2>5. FlattenSeq(acc.rows) \o Append(acc.row, x) = Append(r, x)
    <3>1. PICK all \in Seq(T): all = FlattenSeq(acc.rows)
      BY <2>4
    <3>2. all \o Append(acc.row, x) = Append(all \o acc.row, x)
      BY <2>2
    <3> QED
      BY <2>3, <3>1, <3>2
  <2>6. CASE Full(Append(acc.row, x), h)
    <3>1. Put(acc, x, h) = [rows |-> Append(acc.rows, Append(acc.row, x)), row |-> <<>>]
      BY <2>6 DEF Put
    <3>2. Append(r, x) \o <<>> = Append(r, x) /\ Append(r, x) \in Seq(T)
      OBVIOUS
    <3> QED
      BY <2>1, <2>4, <2>5, <3>1, <3>2
  <2>7. CASE ~Full(Append(acc.row, x), h)
    <3>1. Put(acc, x, h) = [rows |-> acc.rows, row |-> Append(acc.row, x)]
      BY <2>7 DEF Put
    <3>2. InRows(Append(r, x), h).rows = acc.rows /\ InRows(Append(r, x), h).row = Append(acc.row, x)
      BY <2>1, <3>1
    <3> HIDE DEF P
    <3> QED
      BY <2>5, <3>2
  <2> QED
    BY <2>6, <2>7
<1>3. Seq(T) \subseteq P
  <2> HIDE DEF P
  <2> QED
    BY <1>1, <1>2, UpFromEmpty
<1> QED
  BY <1>3

\* A row is closed with its last cell.
LEMMA OneRow ==
  ASSUME NEW T, NEW h \in Seq(T), h # <<>>, NEW s \in Seq(T), InRows(s, h).row = <<>>,
         NEW r \in Seq(T), Len(r) <= Len(h)
  PROVE  InRows(s \o r, h) = IF Len(r) = Len(h)
                             THEN [rows |-> Append(InRows(s, h).rows, r), row |-> <<>>]
                             ELSE [rows |-> InRows(s, h).rows, row |-> r]
<1> DEFINE rows == InRows(s, h).rows
           Ends(u) == InRows(s \o u, h) = IF Len(u) = Len(h)
                                          THEN [rows |-> Append(rows, u), row |-> <<>>]
                                          ELSE [rows |-> rows, row |-> u]
           P == {u \in Seq(T): Len(u) <= Len(h) => Ends(u)}
<1>1. Len(h) \in Nat /\ Len(h) > 0
  OBVIOUS
<1>2. <<>> \in P
  <2>1. s \o <<>> = s /\ <<>> \in Seq(T) /\ Len(<<>>) = 0
    OBVIOUS
  <2>2. InRows(s, h) \in Rows(T)
    BY Filling
  <2>3. InRows(s, h) = [rows |-> InRows(s, h).rows, row |-> <<>>]
    BY <2>2 DEF Rows
  <2> QED
    BY <1>1, <2>1, <2>3
<1>3. ASSUME NEW u \in Seq(T), NEW x \in T, u \in P PROVE Append(u, x) \in P
  <2>1. /\ Append(u, x) \in Seq(T) /\ Len(Append(u, x)) = Len(u) + 1 /\ Len(u) \in Nat
        /\ s \o u \in Seq(T) /\ s \o Append(u, x) = Append(s \o u, x)
    OBVIOUS
  <2> SUFFICES ASSUME Len(Append(u, x)) <= Len(h) PROVE Ends(Append(u, x))
    BY <2>1
  <2>2. Len(u) < Len(h)
    BY <1>1, <2>1
  <2>3. InRows(s \o u, h) = [rows |-> rows, row |-> u]
    BY <1>1, <1>3, <2>1, <2>2
  <2>4. InRows(s \o Append(u, x), h) = Put([rows |-> rows, row |-> u], x, h)
    BY <2>1, <2>3, Filling
  <2>5. Full(Append(u, x), h) <=> Len(Append(u, x)) = Len(h)
    BY <1>1, <2>1 DEF Full
  <2> HIDE DEF rows
  <2> QED
    BY <2>4, <2>5 DEF Put
<1>4. Seq(T) \subseteq P
  <2> HIDE DEF P
  <2> QED
    BY <1>2, <1>3, UpFromEmpty
<1> QED
  BY <1>4

\* Where every row is as wide as the headers, the rows come out as they are.
LEMMA RowsOfOneWidth ==
  ASSUME NEW T, NEW h \in Seq(T), h # <<>>, NEW rows \in Seq(Seq(T)),
         \A i \in DOMAIN rows: Len(rows[i]) = Len(h)
  PROVE  InRows(FlattenSeq(rows), h) = [rows |-> rows, row |-> <<>>]
<1> DEFINE P == {u \in Seq(Seq(T)): (\A i \in DOMAIN u: Len(u[i]) = Len(h))
                                    => InRows(FlattenSeq(u), h) = [rows |-> u, row |-> <<>>]}
<1>1. <<>> \in P
  <2>1. <<>> \in Seq(Seq(T)) /\ <<>> \in Seq(T) /\ FlattenSeq(<<>>) = <<>>
    BY DEF FlattenSeq
  <2> QED
    BY <2>1, Filling
<1>2. ASSUME NEW u \in Seq(Seq(T)), NEW x \in Seq(T), u \in P PROVE Append(u, x) \in P
  <2>1. /\ Append(u, x) \in Seq(Seq(T)) /\ DOMAIN Append(u, x) = DOMAIN u \cup {Len(u) + 1}
        /\ Append(u, x)[Len(u) + 1] = x /\ \A i \in DOMAIN u: Append(u, x)[i] = u[i]
    OBVIOUS
  <2> SUFFICES ASSUME \A i \in DOMAIN Append(u, x): Len(Append(u, x)[i]) = Len(h)
               PROVE  InRows(FlattenSeq(Append(u, x)), h) = [rows |-> Append(u, x), row |-> <<>>]
    BY <2>1
  <2>2. Len(x) = Len(h) /\ \A i \in DOMAIN u: Len(u[i]) = Len(h)
    BY <2>1
  <2>3. InRows(FlattenSeq(u), h) = [rows |-> u, row |-> <<>>]
    BY <1>2, <2>2
  <2>4. FlattenSeq(u) \in Seq(T) /\ FlattenSeq(Append(u, x)) = FlattenSeq(u) \o x
    BY Flattening
  <2>5. Len(x) <= Len(h) /\ InRows(FlattenSeq(u), h).row = <<>>
    BY <2>2, <2>3
  <2>6. InRows(FlattenSeq(u) \o x, h) = IF Len(x) = Len(h)
                             THEN [rows |-> Append(InRows(FlattenSeq(u), h).rows, x), row |-> <<>>]
                             ELSE [rows |-> InRows(FlattenSeq(u), h).rows, row |-> x]
    BY <2>4, <2>5, OneRow
  <2> QED
    BY <2>2, <2>3, <2>4, <2>6
<1>3. Seq(Seq(T)) \subseteq P
  <2> HIDE DEF P
  <2> QED
    BY <1>1, <1>2, UpFromEmpty
<1> QED
  BY <1>3

-----------------------------------------------------------------------------
(* The texts of a report *)

\* Tables as they are reported.
Reports == [type: {"table", "jqxgrid", "div_grid"}, headers: Seq(Texts), rows: Seq(Seq(Texts))]

\* The texts of one table of a report.
KeptOf(r) == r.headers \o FlattenSeq(r.rows)

LEMMA KeptOfType ==
  ASSUME NEW r \in Reports PROVE KeptOf(r) \in Seq(Texts)
<1>1. r.headers \in Seq(Texts) /\ r.rows \in Seq(Seq(Texts))
  BY DEF Reports
<1>2. FlattenSeq(r.rows) \in Seq(Texts)
  BY <1>1, Flattening
<1> QED
  BY <1>1, <1>2 DEF KeptOf

\* Kept is KeptOf of each table, flattened,
LEMMA KeptIs ==
  ASSUME NEW s \in Seq(Reports)
  PROVE  /\ Kept(s) = FlattenSeq([i \in DOMAIN s |-> KeptOf(s[i])])
         /\ [i \in DOMAIN s |-> KeptOf(s[i])] \in Seq(Seq(Texts))
         /\ Kept(s) \in Seq(Texts)
<1>1. Kept(s) = FlattenSeq([i \in DOMAIN s |-> KeptOf(s[i])])
  BY DEF Kept, Each, KeptOf
<1>2. \A i \in DOMAIN s: KeptOf(s[i]) \in Seq(Texts)
  BY KeptOfType
<1>3. DOMAIN s = 1..Len(s) /\ Len(s) \in Nat
  OBVIOUS
<1>4. [i \in DOMAIN s |-> KeptOf(s[i])] \in Seq(Seq(Texts))
  BY <1>2, <1>3
<1> QED
  BY <1>1, <1>4, Flattening

\* of two reports one after the other,
LEMMA KeptConcat ==
  ASSUME NEW a \in Seq(Reports), NEW b \in Seq(Reports)
  PROVE  Kept(a \o b) = Kept(a) \o Kept(b)
<1> DEFINE In(s) == [i \in DOMAIN s |-> KeptOf(s[i])]
<1>1. a \o b \in Seq(Reports)
  OBVIOUS
<1>2. In(a \o b) = In(a) \o In(b)
  <2>1. /\ Len(a) \in Nat /\ Len(b) \in Nat /\ DOMAIN a = 1..Len(a) /\ DOMAIN b = 1..Len(b)
        /\ DOMAIN (a \o b) = 1..(Len(a) + Len(b))
        /\ \A i \in 1..(Len(a) + Len(b)): (a \o b)[i] = IF i <= Len(a) THEN a[i] ELSE b[i - Len(a)]
    BY ConcatProperties
  <2>2. /\ In(a \o b) \in Seq(Seq(Texts)) /\ In(a) \in Seq(Seq(Texts)) /\ In(b) \in Seq(Seq(Texts))
    BY <1>1, KeptIs
  <2>3. Len(In(a \o b)) = Len(a) + Len(b) /\ Len(In(a)) = Len(a) /\ Len(In(b)) = Len(b)
    BY <2>1
  <2>4. \A i \in 1..(Len(a) + Len(b)):
           In(a \o b)[i] = IF i <= Len(a) THEN In(a)[i] ELSE In(b)[i - Len(a)]
    BY <2>1
  <2> HIDE DEF In
  <2>5. /\ In(a) \o In(b) \in Seq(Seq(Texts)) /\ Len(In(a) \o In(b)) = Len(a) + Len(b)
        /\ \A i \in 1..(Len(a) + Len(b)):
              (In(a) \o In(b))[i] = IF i <= Len(a) THEN In(a)[i] ELSE In(b)[i - Len(a)]
    <3>1. PICK x \in Seq(Seq(Texts)), y \in Seq(Seq(Texts)): x = In(a) /\ y = In(b)
      BY <2>2
    <3>2. /\ x \o y \in Seq(Seq(Texts)) /\ Len(x \o y) = Len(x) + Len(y)
          /\ \A i \in 1..(Len(x) + Len(y)): (x \o y)[i] = IF i <= Len(x) THEN x[i] ELSE y[i - Len(x)]
      BY ConcatProperties
    <3> QED
      BY <2>3, <3>1, <3>2
  <2> QED
    BY <2>2, <2>3, <2>4, <2>5, SeqEqual
<1>3. In(a) \in Seq(Seq(Texts)) /\ In(b) \in Seq(Seq(Texts))
      /\ Kept(a) = FlattenSeq(In(a)) /\ Kept(b) = FlattenSeq(In(b))
      /\ Kept(a \o b) = FlattenSeq(In(a \o b))
  BY <1>1, KeptIs
<1> HIDE DEF In
<1>4. FlattenSeq(In(a) \o In(b)) = FlattenSeq(In(a)) \o FlattenSeq(In(b))
  BY <1>3, FlattenConcat
<1> QED
  BY <1>2, <1>3, <1>4

\* of none,
LEMMA KeptNothing == Kept(<<>>) = <<>>
<1>1. Each(<<>>, LAMBDA r: r.headers \o FlattenSeq(r.rows)) = <<>>
  BY DEF Each
<1> QED
  BY <1>1 DEF Kept, FlattenSeq

\* and of one table.
LEMMA KeptOne ==
  ASSUME NEW r \in Reports PROVE Kept(<<r>>) = KeptOf(r)
<1>1. <<r>> \in Seq(Reports) /\ <<>> \in Seq(Reports) /\ KeptOf(r) \in Seq(Texts)
  BY KeptOfType
<1>2. Kept(<<r>>) = FlattenSeq(<<KeptOf(r)>>)
  <2>1. [i \in DOMAIN <<r>> |-> KeptOf(<<r>>[i])] = <<KeptOf(r)>>
    OBVIOUS
  <2> QED
    BY <1>1, <2>1, KeptIs
<1>3. <<KeptOf(r)>> \in Seq(Seq(Texts)) /\ <<KeptOf(r)>> = Append(<<>>, KeptOf(r))
      /\ <<>> \in Seq(Seq(Texts))
  BY <1>1
<1>4. FlattenSeq(<<KeptOf(r)>>) = <<>> \o KeptOf(r)
  BY <1>1, <1>3, Flattening
<1>5. <<>> \o KeptOf(r) = KeptOf(r)
  BY <1>1
<1> QED
  BY <1>2, <1>4, <1>5

\* The tables with something in them.
Filled == {r \in Reports: r.headers # <<>> \/ r.rows # <<>>}

\* A table without headers and rows is left out, and nothing with it.
LEMMA KeptFilled ==
  ASSUME NEW s \in Seq(Reports)
  PROVE  LET found == FlattenSeq([i \in DOMAIN s |-> IF s[i] \in Filled THEN <<s[i]>> ELSE <<>>])
         IN  found \in Seq(Reports) /\ Kept(found) = Kept(s)
<1> DEFINE Picked(u) == [i \in DOMAIN u |-> IF u[i] \in Filled THEN <<u[i]>> ELSE <<>>]
           P == {u \in Seq(Reports): Kept(FlattenSeq(Picked(u))) = Kept(u)}
<1>1. \A u \in Seq(Reports): Picked(u) \in Seq(Seq(Reports)) /\ FlattenSeq(Picked(u)) \in Seq(Reports)
  BY Chosen
<1>2. <<>> \in P
  <2>1. Picked(<<>>) = <<>> /\ <<>> \in Seq(Reports) /\ FlattenSeq(<<>>) = <<>>
    BY DEF FlattenSeq
  <2> HIDE DEF Picked
  <2> QED
    BY <2>1
<1>3. ASSUME NEW u \in Seq(Reports), NEW r \in Reports, u \in P PROVE Append(u, r) \in P
  <2>1. Append(u, r) \in Seq(Reports) /\ Append(u, r) = u \o <<r>> /\ <<r>> \in Seq(Reports)
        /\ <<>> \in Seq(Reports)
    OBVIOUS
  <2>2. PICK one \in Seq(Reports): one = IF r \in Filled THEN <<r>> ELSE <<>>
    BY <2>1
  <2>3. Picked(Append(u, r)) = Append(Picked(u), one)
    <3>1. /\ DOMAIN u = 1..Len(u) /\ Len(u) \in Nat /\ DOMAIN Append(u, r) = 1..(Len(u) + 1)
          /\ Append(u, r)[Len(u) + 1] = r /\ \A i \in 1..Len(u): Append(u, r)[i] = u[i]
      OBVIOUS
    <3>2. Picked(u) \in Seq(Seq(Reports)) /\ Picked(Append(u, r)) \in Seq(Seq(Reports))
      BY <1>1, <2>1
    <3>3. Len(Picked(u)) = Len(u) /\ Len(Picked(Append(u, r))) = Len(u) + 1
      BY <3>1
    <3>4. \A i \in 1..Len(u): Picked(Append(u, r))[i] = Picked(u)[i]
      BY <3>1
    <3>5. Picked(Append(u, r))[Len(u) + 1] = one
      BY <2>2, <3>1
    <3> HIDE DEF Picked
    <3>6. /\ Append(Picked(u), one) \in Seq(Seq(Reports)) /\ Len(Append(Picked(u), one)) = Len(u) + 1
          /\ (\A i \in 1..Len(u): Append(Picked(u), one)[i] = Picked(u)[i])
          /\ Append(Picked(u), one)[Len(u) + 1] = one
      BY <3>1, <3>2, <3>3
    <3>7. \A i \in 1..(Len(u) + 1): Picked(Append(u, r))[i] = Append(Picked(u), one)[i]
      BY <3>1, <3>4, <3>5, <3>6
    <3> QED
      BY <3>2, <3>3, <3>6, <3>7, SeqEqual
  <2>4. PICK found \in Seq(Reports): found = FlattenSeq(Picked(u))
    BY <1>1
  <2>5. FlattenSeq(Picked(Append(u, r))) = found \o one
    <3>1. Picked(u) \in Seq(Seq(Reports))
      BY <1>1
    <3> HIDE DEF Picked
    <3> QED
      BY <2>3, <2>4, <3>1, Flattening
  <2>6. Kept(found) = Kept(u)
    BY <1>3, <2>4
  <2>7. Kept(found \o one) = Kept(found) \o Kept(one) /\ Kept(u \o <<r>>) = Kept(u) \o Kept(<<r>>)
    BY <2>1, KeptConcat
  <2>8. Kept(one) = Kept(<<r>>)
    <3>1. CASE r \in Filled
      BY <2>2, <3>1
    <3>2. CASE r \notin Filled
      <4>1. r.headers = <<>> /\ r.rows = <<>> /\ FlattenSeq(<<>>) = <<>>
        BY <3>2 DEF Filled, FlattenSeq
      <4>2. KeptOf(r) = <<>>
        BY <4>1 DEF KeptOf
      <4> QED
        BY <2>2, <3>2, <4>2, KeptOne, KeptNothing
    <3> QED
      BY <3>1, <3>2
  <2> HIDE DEF Picked
  <2> QED
    BY <2>1, <2>5, <2>6, <2>7, <2>8
<1>4. Seq(Reports) \subseteq P
  <2> HIDE DEF P
  <2> QED
    BY <1>2, <1>3, UpFromEmpty
<1> QED
  BY <1>1, <1>4

-----------------------------------------------------------------------------
(* One table *)

\* The cells of a table's rows.
Shown(t) == [i \in DOMAIN t |-> t[i].cells]

LEMMA ShownType ==
  ASSUME NEW t \in Seq(TableRow)
  PROVE  Shown(t) \in Seq(Seq(Texts)) /\ Len(Shown(t)) = Len(t)
<1>1. DOMAIN t = 1..Len(t) /\ Len(t) \in Nat /\ \A i \in DOMAIN t: t[i] \in TableRow
  OBVIOUS
<1>2. \A i \in DOMAIN t: t[i].cells \in Seq(Texts)
  BY <1>1 DEF TableRow
<1> QED
  BY <1>1, <1>2 DEF Shown

\* The headers are taken from a row there is, the first of a regular table.
LEMMA HeaderRowIsRow ==
  ASSUME NEW t \in Seq(TableRow), t # <<>>
  PROVE  HeaderRow(t) \in DOMAIN t /\ (Regular(t) => HeaderRow(t) = 1)
<1>1. DOMAIN t = 1..Len(t) /\ Len(t) \in Nat /\ Len(t) > 0
  OBVIOUS
<1> DEFINE H == {i \in 1..Len(t): t[i].part = "thead"}
<1>2. CASE H = {}
  BY <1>1, <1>2 DEF HeaderRow
<1>3. CASE H # {}
  <2>1. HeaderRow(t) = CHOOSE x \in H: \A y \in H: x =< y
    BY <1>1, <1>3 DEF HeaderRow, SelectInSeq, Min
  <2>2. \E x \in H: \A y \in H: x =< y
    <3>1. H \subseteq Nat
      BY <1>1
    <3> HIDE DEF H
    <3> QED
      BY <1>3, <3>1, LeastOf
  <2>3. HeaderRow(t) \in H
    BY <2>1, <2>2
  <2> QED
    BY <1>1, <2>3 DEF Regular
<1> QED
  BY <1>2, <1>3

\* The rows a table's values are taken from are rows of it,
LEMMA RowElementsAre ==
  ASSUME NEW t \in Seq(TableRow)
  PROVE  /\ Indices(t) \in Seq(DOMAIN t) /\ Len(Indices(t)) = Len(t)
         /\ RowElements(t) \in Seq(DOMAIN t)
<1>1. DOMAIN t = 1..Len(t) /\ Len(t) \in Nat
  OBVIOUS
<1>2. Indices(t) \in Seq(DOMAIN t) /\ Len(Indices(t)) = Len(t)
  BY <1>1 DEF Indices
<1> DEFINE K == {i \in DOMAIN t: t[i].part = "tbody"}
           s == Indices(t)
<1>3. Only(s, LAMBDA i: t[i].part = "tbody")
      = FlattenSeq([j \in DOMAIN s |-> IF s[j] \in K THEN <<s[j]>> ELSE <<>>])
  <2>1. Only(s, LAMBDA i: t[i].part = "tbody")
        = FlattenSeq([j \in DOMAIN s |-> IF t[s[j]].part = "tbody" THEN <<s[j]>> ELSE <<>>])
    <3> HIDE DEF s
    <3> QED
      BY DEF Only, Collect
  <2>2. \A j \in DOMAIN s: s[j] \in DOMAIN t
    BY <1>2
  <2> HIDE DEF s
  <2>3. [j \in DOMAIN s |-> IF t[s[j]].part = "tbody" THEN <<s[j]>> ELSE <<>>]
        = [j \in DOMAIN s |-> IF s[j] \in K THEN <<s[j]>> ELSE <<>>]
    BY <2>2
  <2> QED
    BY <2>1, <2>3
<1>4. FlattenSeq([j \in DOMAIN s |-> IF s[j] \in K THEN <<s[j]>> ELSE <<>>]) \in Seq(DOMAIN t)
  BY <1>2, Chosen
<1> QED
  BY <1>2, <1>3, <1>4 DEF RowElements

\* What is taken from a table, row by row.
LEMMA FromTableType ==
  ASSUME NEW t \in Seq(TableRow)
  PROVE  LET E == RowElements(t)
             each == [k \in DOMAIN E |-> IF E[k] # HeaderRow(t) /\ t[E[k]].cells # <<>>
                                         THEN <<t[E[k]].cells>> ELSE <<>>]
         IN  /\ FromTable(t) \in Reports
             /\ FromTable(t).type = "table"
             /\ each \in Seq(Seq(Seq(Texts)))
             /\ FromTable(t).rows = FlattenSeq(each)
<1> DEFINE E == RowElements(t)
           each == [k \in DOMAIN E |-> IF E[k] # HeaderRow(t) /\ t[E[k]].cells # <<>>
                                       THEN <<t[E[k]].cells>> ELSE <<>>]
           headers == IF t = <<>> THEN <<>> ELSE t[HeaderRow(t)].cells
<1>1. E \in Seq(DOMAIN t) /\ \A i \in DOMAIN t: t[i].cells \in Seq(Texts)
  <2>1. \A i \in DOMAIN t: t[i] \in TableRow
    OBVIOUS
  <2> QED
    BY <2>1, RowElementsAre DEF TableRow
<1>2. FromTable(t) = [type |-> "table", headers |-> headers, rows |-> FlattenSeq(each)]
  <2> HIDE DEF E
  <2> QED
    BY DEF FromTable, Collect, E
<1>3. headers \in Seq(Texts)
  BY <1>1, HeaderRowIsRow
<1>4. each \in Seq(Seq(Seq(Texts)))
  <2> HIDE DEF E
  <2>1. DOMAIN E = 1..Len(E) /\ Len(E) \in Nat /\ \A k \in DOMAIN E: E[k] \in DOMAIN t
    BY <1>1
  <2>2. ASSUME NEW k \in DOMAIN E
        PROVE  (IF E[k] # HeaderRow(t) /\ t[E[k]].cells # <<>> THEN <<t[E[k]].cells>> ELSE <<>>)
               \in Seq(Seq(Texts))
    BY <1>1, <2>1
  <2> QED
    BY <2>1, <2>2
<1>5. FlattenSeq(each) \in Seq(Seq(Texts))
  <2> HIDE DEF each
  <2> QED
    BY <1>4, Flattening
<1> HIDE DEF headers, each
<1> QED
  BY <1>2, <1>3, <1>4, <1>5 DEF Reports, each

\* of a regular table all of them, or all but the first.
LEMMA RegularElements ==
  ASSUME NEW t \in Seq(TableRow), t # <<>>, Regular(t)
  PROVE  RowElements(t) \in {Indices(t), Tail(Indices(t))}
<1> DEFINE s == Indices(t)
           singles == [j \in DOMAIN s |-> <<s[j]>>]
           body == [j \in DOMAIN s |-> IF t[s[j]].part = "tbody" THEN <<s[j]>> ELSE <<>>]
           D == DOMAIN t
<1>1. /\ D = 1..Len(t) /\ Len(t) \in Nat /\ Len(t) > 0 /\ s \in Seq(D) /\ Len(s) = Len(t)
      /\ DOMAIN s = 1..Len(t) /\ \A j \in 1..Len(t): s[j] = j
  BY RowElementsAre DEF Indices
<1>2. RowElements(t) = IF FlattenSeq(body) # <<>> THEN FlattenSeq(body) ELSE s
  <2> HIDE DEF s
  <2> QED
    BY DEF RowElements, Only, Collect, s
<1>3. singles \in Seq(Seq(D)) /\ FlattenSeq(singles) = s
  <2> HIDE DEF s
  <2> QED
    BY <1>1, FlattenSingles
<1>4. t[1].part \in {"thead", "tbody"} /\ \A j \in 2..Len(t): t[j].part = "tbody"
  <2>1. \A j \in 1..Len(t): t[j].part \in {"thead", "tbody", "tfoot"}
    <3>1. \A j \in 1..Len(t): t[j] \in TableRow
      BY <1>1
    <3> QED
      BY <3>1 DEF TableRow
  <2> QED
    BY <1>1, <2>1 DEF Regular
<1>5. CASE t[1].part = "tbody"
  <2>1. body = singles
    <3> HIDE DEF s
    <3>1. \A j \in DOMAIN s: t[s[j]].part = "tbody"
      BY <1>1, <1>4, <1>5
    <3> QED
      BY <3>1
  <2> HIDE DEF s, singles, body
  <2> QED
    BY <1>2, <1>3, <2>1 DEF s
<1>6. CASE t[1].part # "tbody"
  <2>1. body[1] = <<>> /\ singles[1] = <<1>>
        /\ Len(body) = Len(t) /\ Len(singles) = Len(t) /\ DOMAIN body = 1..Len(t)
        /\ \A j \in 2..Len(t): body[j] = singles[j]
    <3> HIDE DEF s
    <3> QED
      BY <1>1, <1>4, <1>6
  <2>2. body \in Seq(Seq(D))
    <3> HIDE DEF s, D
    <3>1. \A j \in DOMAIN s: s[j] \in D
      BY <1>1
    <3>2. \A j \in DOMAIN s: (IF t[s[j]].part = "tbody" THEN <<s[j]>> ELSE <<>>) \in Seq(D)
      BY <3>1
    <3> QED
      BY <1>1, <3>2
  <2> HIDE DEF s, singles, body, D
  <2>3. Tail(body) = Tail(singles)
    <3>1. /\ Tail(body) \in Seq(Seq(D)) /\ Len(Tail(body)) = Len(t) - 1
          /\ \A i \in 1..Len(Tail(body)): Tail(body)[i] = body[i + 1]
      BY <1>1, <2>1, <2>2, HeadTailProperties
    <3>2. /\ Tail(singles) \in Seq(Seq(D)) /\ Len(Tail(singles)) = Len(t) - 1
          /\ \A i \in 1..Len(Tail(singles)): Tail(singles)[i] = singles[i + 1]
      BY <1>1, <1>3, <2>1, HeadTailProperties
    <3>3. \A i \in 1..(Len(t) - 1): Tail(body)[i] = Tail(singles)[i]
      BY <1>1, <2>1, <3>1, <3>2
    <3> QED
      BY <3>1, <3>2, <3>3, SeqEqual
  <2>4. body # <<>> /\ singles # <<>>
    BY <1>1, <2>1
  <2>5. /\ FlattenSeq(Tail(body)) \in Seq(D)
        /\ FlattenSeq(body) = <<>> \o FlattenSeq(Tail(body))
    BY <2>1, <2>2, <2>4, FlattenFirst
  <2>6. s = <<1>> \o FlattenSeq(Tail(body))
    BY <1>3, <2>1, <2>3, <2>4, FlattenFirst
  <2>7. PICK rest \in Seq(D): rest = FlattenSeq(Tail(body))
    BY <2>5
  <2>8. FlattenSeq(body) = rest /\ Tail(s) = rest
    <3>1. <<>> \o rest = rest
      OBVIOUS
    <3>2. Tail(<<1>> \o rest) = rest
      OBVIOUS
    <3> QED
      BY <2>5, <2>6, <2>7, <3>1, <3>2
  <2> QED
    BY <1>2, <2>8 DEF s
<1> QED
  BY <1>5, <1>6

\* Of a regular table every text is kept, in its place.
LEMMA TableKept ==
  ASSUME NEW t \in Seq(TableRow), Regular(t)
  PROVE  KeptOf(FromTable(t)) = FlattenSeq(Shown(t))
<1> DEFINE E == RowElements(t)
           each == [k \in DOMAIN E |-> IF E[k] # HeaderRow(t) /\ t[E[k]].cells # <<>>
                                       THEN <<t[E[k]].cells>> ELSE <<>>]
           inner == [k \in DOMAIN each |-> FlattenSeq(each[k])]
           s == Indices(t)
           C == Shown(t)
           Below(i) == IF i # 1 THEN C[i] ELSE <<>>
           below == [i \in DOMAIN s |-> Below(s[i])]
<1>1. each \in Seq(Seq(Seq(Texts))) /\ FromTable(t).rows = FlattenSeq(each)
  BY FromTableType
<1>2. FlattenSeq(FromTable(t).rows) = FlattenSeq(inner)
  <2> HIDE DEF each
  <2> QED
    BY <1>1, FlattenTwice
<1>3. C \in Seq(Seq(Texts)) /\ Len(C) = Len(t) /\ DOMAIN C = DOMAIN t
      /\ \A i \in DOMAIN t: C[i] = t[i].cells
  BY ShownType DEF Shown
<1>4. CASE t = <<>>
  <2>1. FromTable(t).headers = <<>> /\ C = <<>> /\ FlattenSeq(<<>>) = <<>>
    BY <1>4 DEF FromTable, Shown, FlattenSeq
  <2>2. RowElements(t) = <<>>
    <3>1. E \in Seq({})
      <4>1. DOMAIN t = {}
        BY <1>4
      <4>2. E \in Seq(DOMAIN t)
        BY RowElementsAre
      <4> HIDE DEF E
      <4> QED
        BY <4>1, <4>2
    <3> HIDE DEF E
    <3>2. E = <<>>
      BY <3>1
    <3> QED
      BY <3>2 DEF E
  <2>3. each = <<>>
    BY <2>2
  <2> HIDE DEF each, C
  <2> QED
    BY <1>1, <2>1, <2>3 DEF KeptOf, C
<1>5. CASE t # <<>>
  <2>1. /\ HeaderRow(t) = 1 /\ DOMAIN t = 1..Len(t) /\ Len(t) \in Nat /\ Len(t) > 0
        /\ s \in Seq(DOMAIN t) /\ Len(s) = Len(t) /\ E \in Seq(DOMAIN t)
        /\ DOMAIN s = 1..Len(t) /\ \A j \in 1..Len(t): s[j] = j
    BY <1>5, HeaderRowIsRow, RowElementsAre DEF Indices
  <2>2. FromTable(t).headers = C[1]
    <3>1. C[1] = t[1].cells
      <4>1. 1 \in DOMAIN t
        BY <2>1
      <4> HIDE DEF C
      <4> QED
        BY <1>3, <4>1
    <3>2. FromTable(t).headers = t[HeaderRow(t)].cells
      BY <1>5 DEF FromTable
    <3> HIDE DEF C
    <3> QED
      BY <2>1, <3>1, <3>2
  <2>3. inner = [k \in DOMAIN E |-> Below(E[k])]
    <3>1. ASSUME NEW k \in DOMAIN E PROVE FlattenSeq(each[k]) = Below(E[k])
      <4>1. PICK i \in DOMAIN t: i = E[k]
        BY <2>1
      <4>2. each[k] = IF i # 1 /\ C[i] # <<>> THEN <<C[i]>> ELSE <<>>
        BY <1>3, <2>1, <4>1
      <4>3. C[i] \in Seq(Texts)
        BY <1>3, <2>1
      <4> HIDE DEF each, C
      <4>4. FlattenSeq(<<C[i]>>) = C[i] /\ FlattenSeq(<<>>) = <<>>
        <5>1. <<>> \in Seq(Seq(Texts)) /\ Append(<<>>, C[i]) = <<C[i]>> /\ <<>> \o C[i] = C[i]
          BY <4>3
        <5> QED
          BY <4>3, <5>1, Flattening
      <4> QED
        BY <4>1, <4>2, <4>4
    <3>2. DOMAIN each = DOMAIN E
      OBVIOUS
    <3> HIDE DEF E, each, Below
    <3> QED
      BY <3>1, <3>2
  <2>4. below \in Seq(Seq(Texts)) /\ Len(below) = Len(t) /\ below # <<>> /\ below[1] = <<>>
        /\ \A i \in 2..Len(t): below[i] = C[i]
    <3> HIDE DEF s, C
    <3>1. \A i \in 1..Len(t): C[i] \in Seq(Texts)
      BY <1>3, <2>1
    <3>2. \A i \in 1..Len(t): Below(s[i]) = IF i # 1 THEN C[i] ELSE <<>>
      BY <2>1
    <3>3. below \in Seq(Seq(Texts)) /\ Len(below) = Len(t)
      BY <2>1, <3>1, <3>2
    <3>4. below[1] = <<>> /\ \A i \in 2..Len(t): below[i] = C[i]
      BY <2>1, <3>2
    <3> QED
      BY <2>1, <3>3, <3>4
  <2>5. Tail(below) = Tail(C) /\ C # <<>>
    <3> HIDE DEF below, C
    <3>0. C # <<>>
      BY <1>3, <2>1
    <3>1. /\ Tail(below) \in Seq(Seq(Texts)) /\ Len(Tail(below)) = Len(t) - 1
          /\ \A i \in 1..Len(Tail(below)): Tail(below)[i] = below[i + 1]
      BY <2>1, <2>4, HeadTailProperties
    <3>2. /\ Tail(C) \in Seq(Seq(Texts)) /\ Len(Tail(C)) = Len(t) - 1
          /\ \A i \in 1..Len(Tail(C)): Tail(C)[i] = C[i + 1]
      BY <1>3, <2>1, <3>0, HeadTailProperties
    <3>3. \A i \in 1..(Len(t) - 1): Tail(below)[i] = Tail(C)[i]
      BY <2>1, <2>4, <3>1, <3>2
    <3> QED
      BY <3>0, <3>1, <3>2, <3>3, SeqEqual
  <2>6. PICK rest \in Seq(Texts): rest = FlattenSeq(Tail(C))
    <3> HIDE DEF C
    <3> QED
      BY <1>3, <2>5, FlattenFirst
  <2>7. FlattenSeq(C) = C[1] \o rest
    <3> HIDE DEF C
    <3> QED
      BY <1>3, <2>5, <2>6, FlattenFirst
  <2>8. FlattenSeq(below) = rest
    <3> HIDE DEF below, C
    <3>1. FlattenSeq(below) = <<>> \o rest
      BY <2>4, <2>5, <2>6, FlattenFirst
    <3> QED
      BY <3>1
  <2>9. FlattenSeq(inner) = rest
    <3>1. CASE E = s
      <4>1. inner = below
        BY <2>3, <3>1
      <4> HIDE DEF inner, below
      <4> QED
        BY <2>8, <4>1
    <3>2. CASE E = Tail(s)
      <4>1. [k \in DOMAIN E |-> Below(E[k])] = Tail(below)
        <5>1. /\ Len(Tail(below)) = Len(t) - 1 /\ Tail(below) \in Seq(Seq(Texts))
              /\ \A i \in 1..(Len(t) - 1): Tail(below)[i] = below[i + 1]
          <6> HIDE DEF below
          <6> QED
            BY <2>1, <2>4, HeadTailProperties
        <5>2. /\ Len(Tail(s)) = Len(t) - 1 /\ Tail(s) \in Seq(DOMAIN t)
              /\ \A i \in 1..(Len(t) - 1): Tail(s)[i] = s[i + 1]
          <6>1. s # <<>>
            BY <2>1
          <6> HIDE DEF s
          <6> QED
            BY <2>1, <6>1, HeadTailProperties
        <5>3. DOMAIN E = 1..(Len(t) - 1) /\ \A i \in 1..(Len(t) - 1): E[i] = s[i + 1]
          <6> HIDE DEF E, s
          <6> QED
            BY <2>1, <3>2, <5>2
        <5>4. DOMAIN Tail(below) = 1..(Len(t) - 1)
              /\ Tail(below) = [i \in DOMAIN Tail(below) |-> Tail(below)[i]]
          <6> HIDE DEF below
          <6>1. PICK u \in Seq(Seq(Texts)): u = Tail(below)
            BY <5>1
          <6>2. DOMAIN u = 1..Len(u) /\ u = [i \in DOMAIN u |-> u[i]]
            OBVIOUS
          <6> QED
            BY <5>1, <6>1, <6>2
        <5>5. \A i \in 1..(Len(t) - 1): Below(E[i]) = Tail(below)[i]
          <6>1. \A i \in 1..(Len(t) - 1): below[i + 1] = Below(s[i + 1])
            <7> HIDE DEF s, Below
            <7> QED
              BY <2>1
          <6> HIDE DEF E, below, Below, s
          <6> QED
            BY <5>1, <5>3, <6>1
        <5> HIDE DEF E, below, Below, s
        <5> QED
          BY <5>3, <5>4, <5>5
      <4> HIDE DEF E, below, Below, inner, C
      <4> QED
        BY <2>3, <2>5, <2>6, <4>1
    <3> HIDE DEF inner
    <3> QED
      BY <1>5, <3>1, <3>2, RegularElements
  <2> HIDE DEF inner, C
  <2> QED
    BY <1>2, <2>2, <2>7, <2>9 DEF KeptOf, C
<1> QED
  BY <1>4, <1>5

-----------------------------------------------------------------------------
(* One grid *)

LEMMA LabelsType ==
  ASSUME NEW g \in Grid PROVE LabelsOf(g) \in Seq(Texts)
<1>1. g.labels \in Seq(Texts)
  BY DEF Grid
<1> DEFINE K == {x \in Texts: x # ""}
           s == g.labels
<1>2. LabelsOf(g) = FlattenSeq([i \in DOMAIN s |-> IF s[i] # "" THEN <<s[i]>> ELSE <<>>])
  BY DEF LabelsOf, Only, Collect
<1>3. \A i \in DOMAIN s: s[i] \in Texts
  BY <1>1
<1> HIDE DEF s
<1>4. [i \in DOMAIN s |-> IF s[i] # "" THEN <<s[i]>> ELSE <<>>]
      = [i \in DOMAIN s |-> IF s[i] \in K THEN <<s[i]>> ELSE <<>>]
  BY <1>3
<1>5. s \in Seq(Texts)
  BY <1>1 DEF s
<1>6. FlattenSeq([i \in DOMAIN s |-> IF s[i] \in K THEN <<s[i]>> ELSE <<>>]) \in Seq(Texts)
  BY <1>5, Chosen
<1> QED
  BY <1>2, <1>4, <1>6

\* Of a grid every text is kept, in its place, and a labelled grid as it is.
LEMMA GridKept ==
  ASSUME NEW g \in Grid
  PROVE  /\ FromGrid(g) \in Reports /\ FromGrid(g).type = "jqxgrid"
         /\ KeptOf(FromGrid(g)) = LabelsOf(g) \o FlattenSeq(g.rows)
         /\ LabelsOf(g) \o FlattenSeq(g.rows) \in Seq(Texts)
         /\ Labelled(g) => FromGrid(g) = [type |-> "jqxgrid", headers |-> g.labels, rows |-> g.rows]
<1>1. PICK cells \in Seq(Texts), h \in Seq(Texts): cells = FlattenSeq(g.rows) /\ h = LabelsOf(g)
  <2>1. g.rows \in Seq(Seq(Texts))
    BY DEF Grid
  <2> QED
    BY <2>1, LabelsType, Flattening
<1>2. PICK end \in Rows(Texts): end = InRows(cells, h)
  BY Filling
<1>3. end.rows \in Seq(Seq(Texts)) /\ end.row \in Seq(Texts)
  BY DEF Rows
<1>4. PICK rows \in Seq(Seq(Texts)): rows = IF end.row = <<>> THEN end.rows ELSE Append(end.rows, end.row)
  <2>1. PICK closed \in Seq(Seq(Texts)), row \in Seq(Texts): closed = end.rows /\ row = end.row
    BY <1>3
  <2>2. Append(closed, row) \in Seq(Seq(Texts))
    OBVIOUS
  <2> QED
    BY <2>1, <2>2
<1>5. FromGrid(g) = [type |-> "jqxgrid", headers |-> h, rows |-> rows]
  BY <1>1, <1>2, <1>4 DEF FromGrid
<1>6. FlattenSeq(rows) = cells
  <2>1. FlattenSeq(end.rows) \o end.row = cells /\ FlattenSeq(end.rows) \in Seq(Texts)
    BY <1>2, <1>3, RowsKeepCells, Flattening
  <2>2. CASE end.row = <<>>
    <3>1. FlattenSeq(end.rows) \o <<>> = FlattenSeq(end.rows)
      BY <2>1
    <3> QED
      BY <1>4, <2>1, <2>2, <3>1
  <2>3. CASE end.row # <<>>
    BY <1>3, <1>4, <2>1, <2>3, Flattening
  <2> QED
    BY <2>2, <2>3
<1>7. ASSUME Labelled(g) PROVE rows = g.rows /\ h = g.labels
  <2>1. /\ h = g.labels /\ h # <<>> /\ g.rows \in Seq(Seq(Texts))
        /\ \A i \in DOMAIN g.rows: Len(g.rows[i]) = Len(h)
    BY <1>1, <1>7 DEF Labelled, Grid
  <2>2. end = [rows |-> g.rows, row |-> <<>>]
    BY <1>1, <1>2, <2>1, RowsOfOneWidth
  <2> QED
    BY <1>4, <2>1, <2>2
<1>8. FromGrid(g) \in Reports /\ h \o cells \in Seq(Texts)
  BY <1>5 DEF Reports
<1> QED
  BY <1>1, <1>5, <1>6, <1>7, <1>8 DEF KeptOf

-----------------------------------------------------------------------------
(* One container *)

\* The rows taken from a container are of one width.
LEMMA FromContainerIs ==
  ASSUME NEW c \in Container
  PROVE  /\ FromContainer(c) \in Seq(Seq(Texts))
         /\ \A i, j \in DOMAIN FromContainer(c): Len(FromContainer(c)[i]) = Len(FromContainer(c)[j])
<1> DEFINE s == c.rows
           W == {r \in Seq(Texts): Len(r) >= 2}
           wide == FlattenSeq([i \in DOMAIN s |-> IF s[i] \in W THEN <<s[i]>> ELSE <<>>])
           K == {r \in Seq(Texts): Len(r) = Len(wide[1])}
           kept == FlattenSeq([i \in DOMAIN wide |-> IF wide[i] \in K THEN <<wide[i]>> ELSE <<>>])
<1>1. s \in Seq(Seq(Texts)) /\ \A i \in DOMAIN s: s[i] \in Seq(Texts)
  BY DEF Container
<1>2. Only(s, LAMBDA r: Len(r) >= 2) = wide
  <2>1. Only(s, LAMBDA r: Len(r) >= 2)
        = FlattenSeq([i \in DOMAIN s |-> IF Len(s[i]) >= 2 THEN <<s[i]>> ELSE <<>>])
    BY DEF Only, Collect
  <2>2. [i \in DOMAIN s |-> IF Len(s[i]) >= 2 THEN <<s[i]>> ELSE <<>>]
        = [i \in DOMAIN s |-> IF s[i] \in W THEN <<s[i]>> ELSE <<>>]
    <3> HIDE DEF s
    <3> QED
      BY <1>1
  <2> QED
    BY <2>1, <2>2
<1>3. wide \in Seq(Seq(Texts))
  <2> HIDE DEF s, W
  <2> QED
    BY <1>1, Chosen
<1>4. FromContainer(c) = kept
  <2> HIDE DEF wide
  <2>1. FromContainer(c)
        = FlattenSeq([i \in DOMAIN wide |-> IF Len(wide[i]) = Len(wide[1]) THEN <<wide[i]>> ELSE <<>>])
    BY <1>2 DEF FromContainer, Only, Collect
  <2>2. [i \in DOMAIN wide |-> IF Len(wide[i]) = Len(wide[1]) THEN <<wide[i]>> ELSE <<>>]
        = [i \in DOMAIN wide |-> IF wide[i] \in K THEN <<wide[i]>> ELSE <<>>]
    <3>1. \A i \in DOMAIN wide: wide[i] \in Seq(Texts)
      BY <1>3
    <3> QED
      BY <3>1
  <2> QED
    BY <2>1, <2>2
<1>5. kept \in Seq(Seq(Texts)) /\ Range(kept) = Range(wide) \cap K
  <2> HIDE DEF wide, K
  <2>1. PICK w \in Seq(Seq(Texts)): w = wide
    BY <1>3
  <2>2. LET each == [i \in DOMAIN w |-> IF w[i] \in K THEN <<w[i]>> ELSE <<>>]
        IN  /\ each \in Seq(Seq(Seq(Texts)))
            /\ FlattenSeq(each) \in Seq(Seq(Texts))
            /\ Range(FlattenSeq(each)) = Range(w) \cap K
    BY Chosen
  <2>3. kept = FlattenSeq([i \in DOMAIN w |-> IF w[i] \in K THEN <<w[i]>> ELSE <<>>])
    BY <2>1
  <2> HIDE DEF kept
  <2> QED
    BY <2>1, <2>2, <2>3
<1>6. ASSUME NEW i \in DOMAIN kept PROVE Len(kept[i]) = Len(wide[1])
  <2>1. kept[i] \in Range(kept)
    BY DEF Range
  <2> HIDE DEF kept, wide
  <2> QED
    BY <1>5, <2>1
<1> HIDE DEF kept, wide
<1> QED
  BY <1>4, <1>5, <1>6

\* What is taken from containers has a value for each header.
LEMMA ContainersAligned ==
  ASSUME NEW d, d.containers \in Seq(Container), NEW sel
  PROVE  /\ FromContainers(d, sel) \in Seq(Reports)
         /\ \A r \in Range(FromContainers(d, sel)): \A i \in DOMAIN r.rows:
               Len(r.rows[i]) = Len(r.headers)
<1> DEFINE s == d.containers
           Fitting(c) == Matches(c, sel) /\ Len(c.rows) >= 2 /\ Len(FromContainer(c)) >= 2
           Of(c) == [type |-> "div_grid",
                      headers |-> FromContainer(c)[1], rows |-> Tail(FromContainer(c))]
           each == [k \in DOMAIN s |-> IF Fitting(s[k]) THEN <<Of(s[k])>> ELSE <<>>]
           Good == {r \in Reports: \A i \in DOMAIN r.rows: Len(r.rows[i]) = Len(r.headers)}
<1>1. FromContainers(d, sel) = FlattenSeq(each)
  BY DEF FromContainers, Collect
<1>2. ASSUME NEW c \in Container, Fitting(c) PROVE Of(c) \in Good
  <2>1. PICK rows \in Seq(Seq(Texts)):
            rows = FromContainer(c) /\ \A i, j \in DOMAIN rows: Len(rows[i]) = Len(rows[j])
    BY FromContainerIs
  <2>2. Len(rows) >= 2 /\ Len(rows) \in Nat /\ DOMAIN rows = 1..Len(rows)
    BY <1>2, <2>1
  <2>3. rows[1] \in Seq(Texts) /\ Tail(rows) \in Seq(Seq(Texts))
    BY <2>2
  <2>4. DOMAIN Tail(rows) = 1..(Len(rows) - 1) /\ \A i \in 1..(Len(rows) - 1): Tail(rows)[i] = rows[i + 1]
    BY <2>2
  <2>5. \A i \in DOMAIN Tail(rows): Len(Tail(rows)[i]) = Len(rows[1])
    <3> SUFFICES ASSUME NEW i \in 1..(Len(rows) - 1) PROVE Len(Tail(rows)[i]) = Len(rows[1])
      BY <2>4
    <3>1. Tail(rows)[i] = rows[i + 1] /\ i + 1 \in DOMAIN rows /\ 1 \in DOMAIN rows
      BY <2>2, <2>4
    <3> QED
      BY <2>1, <3>1
  <2>6. Of(c) = [type |-> "div_grid", headers |-> rows[1], rows |-> Tail(rows)]
    BY <2>1
  <2> HIDE DEF Of
  <2>7. Of(c) \in Reports
    BY <2>3, <2>6 DEF Reports
  <2>8. Of(c).headers = rows[1] /\ Of(c).rows = Tail(rows)
    BY <2>6
  <2> QED
    BY <2>5, <2>7, <2>8
<1>3. each \in Seq(Seq(Good))
  <2>1. DOMAIN s = 1..Len(s) /\ Len(s) \in Nat /\ \A k \in DOMAIN s: s[k] \in Container
    OBVIOUS
  <2> HIDE DEF s, Fitting, Of, Good
  <2>2. \A k \in DOMAIN s: (IF Fitting(s[k]) THEN <<Of(s[k])>> ELSE <<>>) \in Seq(Good)
    BY <1>2, <2>1
  <2> QED
    BY <2>1, <2>2
<1>4. FlattenSeq(each) \in Seq(Good)
  <2> HIDE DEF each, Good
  <2> QED
    BY <1>3, Flattening
<1>5. PICK u \in Seq(Good): u = FromContainers(d, sel)
  BY <1>1, <1>4
<1>6. u \in Seq(Reports)
  <2>1. Good \subseteq Reports
    OBVIOUS
  <2> HIDE DEF Good
  <2> QED
    BY <2>1, SeqMonotonic
<1>7. \A r \in Range(u): r \in Good
  <2> HIDE DEF Good
  <2> QED
    BY DEF Range
<1> QED
  BY <1>5, <1>6, <1>7

-----------------------------------------------------------------------------
(* One document *)

\* Whatever the first two strategies find in a document, the empty tables too.
AllIn(d) == Each(d.tables, FromTable) \o Each(d.grids, FromGrid)

\* What ScrapingAssumption says of a document.
Document(d) == d.tables \in Seq(Seq(TableRow)) /\ d.grids \in Seq(Grid) /\ d.containers \in Seq(Container)

\* The tables first, then the grids.
LEMMA AllInIs ==
  ASSUME NEW d, Document(d)
  PROVE  /\ AllIn(d) \in Seq(Reports)
         /\ Len(AllIn(d)) = Len(d.tables) + Len(d.grids)
         /\ \A i \in 1..Len(d.tables): AllIn(d)[i] = FromTable(d.tables[i])
         /\ \A i \in 1..Len(d.grids): AllIn(d)[Len(d.tables) + i] = FromGrid(d.grids[i])
         /\ \A r \in Range(AllIn(d)): r.type # "div_grid"
<1>1. PICK s \in Seq(Seq(TableRow)), g \in Seq(Grid): s = d.tables /\ g = d.grids
  BY DEF Document
<1>2. /\ DOMAIN s = 1..Len(s) /\ Len(s) \in Nat /\ (\A i \in DOMAIN s: s[i] \in Seq(TableRow))
      /\ DOMAIN g = 1..Len(g) /\ Len(g) \in Nat /\ (\A i \in DOMAIN g: g[i] \in Grid)
  OBVIOUS
<1> DEFINE Plain == {r \in Reports: r.type # "div_grid"}
           A == [i \in DOMAIN s |-> FromTable(s[i])]
           B == [i \in DOMAIN g |-> FromGrid(g[i])]
<1>3. A \in Seq(Plain) /\ Len(A) = Len(s)
  <2>1. ASSUME NEW i \in DOMAIN s PROVE FromTable(s[i]) \in Plain
    <3>1. PICK t \in Seq(TableRow): t = s[i]
      BY <1>2
    <3>2. FromTable(t) \in Reports /\ FromTable(t).type = "table"
      BY FromTableType
    <3> QED
      BY <3>1, <3>2
  <2> HIDE DEF Plain
  <2> QED
    BY <1>2, <2>1
<1>4. B \in Seq(Plain) /\ Len(B) = Len(g)
  <2>1. ASSUME NEW i \in DOMAIN g PROVE FromGrid(g[i]) \in Plain
    <3>1. PICK e \in Grid: e = g[i]
      BY <1>2
    <3>2. FromGrid(e) \in Reports /\ FromGrid(e).type = "jqxgrid"
      BY GridKept
    <3> QED
      BY <3>1, <3>2
  <2> HIDE DEF Plain
  <2> QED
    BY <1>2, <2>1
<1>5. AllIn(d) = A \o B
  BY <1>1 DEF AllIn, Each
<1>6. /\ \A i \in 1..Len(s): A[i] = FromTable(s[i])
      /\ \A i \in 1..Len(g): B[i] = FromGrid(g[i])
  BY <1>2
<1> HIDE DEF A, B, Plain
<1>7. PICK x \in Seq(Plain), y \in Seq(Plain): x = A /\ y = B
  BY <1>3, <1>4
<1>8. /\ x \o y \in Seq(Plain) /\ Len(x \o y) = Len(x) + Len(y)
      /\ \A i \in 1..(Len(x) + Len(y)): (x \o y)[i] = IF i <= Len(x) THEN x[i] ELSE y[i - Len(x)]
  BY ConcatProperties
<1>9. \A i \in 1..Len(g): (x \o y)[Len(s) + i] = FromGrid(g[i])
  <2> SUFFICES ASSUME NEW i \in 1..Len(g) PROVE (x \o y)[Len(s) + i] = FromGrid(g[i])
    OBVIOUS
  <2>1. Len(s) + i \in 1..(Len(s) + Len(g)) /\ ~(Len(s) + i <= Len(s)) /\ Len(s) + i - Len(s) = i
    BY <1>2
  <2> QED
    BY <1>3, <1>4, <1>6, <1>7, <1>8, <2>1
<1>10. \A i \in 1..Len(s): (x \o y)[i] = FromTable(s[i])
  BY <1>2, <1>3, <1>4, <1>6, <1>7, <1>8
<1>11. PICK u \in Seq(Plain): u = AllIn(d)
  BY <1>5, <1>7, <1>8
<1>12. u \in Seq(Reports) /\ \A r \in Range(u): r.type # "div_grid"
  <2>1. \A r \in Range(u): r \in Plain
    BY DEF Range
  <2>2. Plain \subseteq Reports
    BY DEF Plain
  <2> QED
    BY <2>1, <2>2, SeqMonotonic DEF Plain
<1> QED
  BY <1>1, <1>3, <1>4, <1>5, <1>7, <1>8, <1>9, <1>10, <1>11, <1>12

\* If its tables are regular, that holds every text of the document.
LEMMA TextsOfAll ==
  ASSUME NEW d, Document(d)
  PROVE  /\ TextsOf(d) \in Seq(Texts)
         /\ (\A t \in Range(d.tables): Regular(t)) => Kept(AllIn(d)) = TextsOf(d)
<1>1. PICK s \in Seq(Seq(TableRow)), g \in Seq(Grid): s = d.tables /\ g = d.grids
  BY DEF Document
<1>2. /\ DOMAIN s = 1..Len(s) /\ Len(s) \in Nat /\ (\A i \in DOMAIN s: s[i] \in Seq(TableRow))
      /\ DOMAIN g = 1..Len(g) /\ Len(g) \in Nat /\ (\A i \in DOMAIN g: g[i] \in Grid)
  OBVIOUS
<1> DEFINE A == [i \in DOMAIN s |-> FlattenSeq(Shown(s[i]))]
           B == [i \in DOMAIN g |-> LabelsOf(g[i]) \o FlattenSeq(g[i].rows)]
           all == AllIn(d)
           In == [i \in DOMAIN all |-> KeptOf(all[i])]
<1>3. A \in Seq(Seq(Texts)) /\ Len(A) = Len(s)
  <2>1. \A i \in DOMAIN s: FlattenSeq(Shown(s[i])) \in Seq(Texts)
    BY <1>2, ShownType, Flattening
  <2> QED
    BY <1>2, <2>1
<1>4. B \in Seq(Seq(Texts)) /\ Len(B) = Len(g)
  <2>1. \A i \in DOMAIN g: LabelsOf(g[i]) \o FlattenSeq(g[i].rows) \in Seq(Texts)
    BY <1>2, GridKept
  <2> QED
    BY <1>2, <2>1
<1>5. TextsOf(d) = FlattenSeq(A \o B)
  BY <1>1 DEF TextsOf, Each, Shown
<1>6. /\ \A i \in 1..Len(s): A[i] = FlattenSeq(Shown(s[i]))
      /\ \A i \in 1..Len(g): B[i] = LabelsOf(g[i]) \o FlattenSeq(g[i].rows)
  BY <1>2
<1>7. PICK x \in Seq(Seq(Texts)), y \in Seq(Seq(Texts)): x = A /\ y = B
  <2> HIDE DEF A, B
  <2> QED
    BY <1>3, <1>4
<1> HIDE DEF A, B
<1>8. /\ x \o y \in Seq(Seq(Texts)) /\ Len(x \o y) = Len(x) + Len(y)
      /\ \A i \in 1..(Len(x) + Len(y)): (x \o y)[i] = IF i <= Len(x) THEN x[i] ELSE y[i - Len(x)]
  BY ConcatProperties
<1>9. TextsOf(d) \in Seq(Texts)
  BY <1>5, <1>7, <1>8, Flattening
<1>10. ASSUME \A t \in Range(d.tables): Regular(t) PROVE Kept(all) = TextsOf(d)
  <2>1. /\ all \in Seq(Reports) /\ Len(all) = Len(s) + Len(g)
        /\ \A i \in 1..Len(s): all[i] = FromTable(s[i])
        /\ \A i \in 1..Len(g): all[Len(s) + i] = FromGrid(g[i])
    BY <1>1, AllInIs
  <2> HIDE DEF all
  <2>2. Kept(all) = FlattenSeq(In) /\ In \in Seq(Seq(Texts))
    BY <2>1, KeptIs
  <2>3. DOMAIN all = 1..(Len(s) + Len(g)) /\ Len(In) = Len(s) + Len(g)
        /\ \A i \in 1..(Len(s) + Len(g)): In[i] = KeptOf(all[i])
    BY <1>2, <2>1
  <2> HIDE DEF In
  <2>4. ASSUME NEW i \in 1..(Len(s) + Len(g)) PROVE In[i] = (x \o y)[i]
    <3>1. CASE i <= Len(s)
      <4>1. i \in DOMAIN s /\ i \in 1..Len(s)
        BY <1>2, <3>1
      <4>2. Regular(s[i]) /\ s[i] \in Seq(TableRow)
        BY <1>1, <1>2, <1>10, <4>1 DEF Range
      <4>3. KeptOf(FromTable(s[i])) = FlattenSeq(Shown(s[i]))
        BY <4>2, TableKept
      <4>4. In[i] = KeptOf(FromTable(s[i]))
        BY <2>1, <2>3, <4>1
      <4>5. (x \o y)[i] = x[i]
        BY <1>2, <1>3, <1>4, <1>7, <1>8, <3>1
      <4> QED
        BY <1>6, <1>7, <4>1, <4>3, <4>4, <4>5
    <3>2. CASE ~(i <= Len(s))
      <4>1. PICK j \in 1..Len(g): i = Len(s) + j
        <5>1. i - Len(s) \in 1..Len(g) /\ i = Len(s) + (i - Len(s))
          BY <1>2, <3>2
        <5> QED
          BY <5>1
      <4>2. g[j] \in Grid
        BY <1>2
      <4>3. KeptOf(FromGrid(g[j])) = LabelsOf(g[j]) \o FlattenSeq(g[j].rows)
        BY <4>2, GridKept
      <4>4. In[i] = KeptOf(FromGrid(g[j]))
        BY <2>1, <2>3, <4>1
      <4>5. (x \o y)[i] = y[j]
        <5>1. i - Len(s) = j
          BY <1>2, <4>1
        <5> QED
          BY <1>3, <1>4, <1>7, <1>8, <3>2, <5>1
      <4> QED
        BY <1>6, <1>7, <4>3, <4>4, <4>5
    <3> QED
      BY <3>1, <3>2
  <2>5. In = x \o y
    <3>1. PICK u \in Seq(Seq(Texts)), v \in Seq(Seq(Texts)): u = In /\ v = x \o y
      BY <1>8, <2>2
    <3>2. Len(u) = Len(s) + Len(g) /\ Len(v) = Len(s) + Len(g)
      BY <1>3, <1>4, <1>7, <1>8, <2>3, <3>1
    <3>3. \A i \in 1..Len(u): u[i] = v[i]
      BY <2>4, <3>1, <3>2
    <3> QED
      BY <3>1, <3>2, <3>3, SeqEqual
  <2> QED
    BY <1>5, <1>7, <2>2, <2>5
<1> QED
  BY <1>9, <1>10

\* And so does what is scraped, if there is any; its grids and containers are in place.
LEMMA ScrapedDocument ==
  ASSUME NEW d, Document(d), NEW sel
  PROVE  LET r == Scraped(d, sel)
         IN  /\ r \in Seq(Reports)
             /\ \A g \in Range(d.grids):
                   Labelled(g) => [type |-> "jqxgrid", headers |-> g.labels, rows |-> g.rows] \in Range(r)
             /\ \A t \in Range(r):
                   t.type = "div_grid" => \A i \in DOMAIN t.rows: Len(t.rows[i]) = Len(t.headers)
             /\ TextsOf(d) # <<>> /\ (\A t \in Range(d.tables): Regular(t)) => Kept(r) = TextsOf(d)
<1>1. PICK all \in Seq(Reports): all = AllIn(d)
  BY AllInIs
<1> DEFINE found == FlattenSeq([i \in DOMAIN all |-> IF all[i] \in Filled THEN <<all[i]>> ELSE <<>>])
<1>2. Scraped(d, sel) = IF found = <<>> THEN FromContainers(d, sel) ELSE found
  <2>1. Only(all, LAMBDA r: r.headers # <<>> \/ r.rows # <<>>)
        = FlattenSeq([i \in DOMAIN all |->
                        IF all[i].headers # <<>> \/ all[i].rows # <<>> THEN <<all[i]>> ELSE <<>>])
    BY DEF Only, Collect
  <2>2. \A i \in DOMAIN all: all[i] \in Reports
    OBVIOUS
  <2>3. [i \in DOMAIN all |-> IF all[i].headers # <<>> \/ all[i].rows # <<>> THEN <<all[i]>> ELSE <<>>]
        = [i \in DOMAIN all |-> IF all[i] \in Filled THEN <<all[i]>> ELSE <<>>]
    BY <2>2 DEF Filled
  <2>4. Only(all, LAMBDA r: r.headers # <<>> \/ r.rows # <<>>) = found
    BY <2>1, <2>3
  <2> HIDE DEF found
  <2> QED
    BY <1>1, <2>4 DEF Scraped, AllIn
<1>3. found \in Seq(Reports) /\ Kept(found) = Kept(all)
  BY KeptFilled
<1>4. Range(found) = Range(all) \cap Filled
  BY Chosen
<1> HIDE DEF found
<1>5. /\ FromContainers(d, sel) \in Seq(Reports)
      /\ \A t \in Range(FromContainers(d, sel)): \A i \in DOMAIN t.rows: Len(t.rows[i]) = Len(t.headers)
  BY ContainersAligned DEF Document
<1>6. \A t \in Range(found): t.type # "div_grid"
  BY <1>1, <1>4, AllInIs
<1>7. ASSUME NEW g \in Range(d.grids), Labelled(g)
      PROVE  [type |-> "jqxgrid", headers |-> g.labels, rows |-> g.rows] \in Range(found)
  <2>1. PICK e \in Seq(Grid): e = d.grids
    BY DEF Document
  <2>2. DOMAIN e = 1..Len(e)
    OBVIOUS
  <2>3. PICK i \in 1..Len(e): g = e[i]
    BY <2>1, <2>2 DEF Range
  <2>4. g \in Grid
    BY <2>2, <2>3
  <2>5. FromGrid(g) = [type |-> "jqxgrid", headers |-> g.labels, rows |-> g.rows]
        /\ FromGrid(g) \in Reports
    BY <1>7, <2>4, GridKept
  <2>6. FromGrid(g) \in Filled
    BY <1>7, <2>5 DEF Filled, Labelled
  <2>7. FromGrid(g) \in Range(all)
    <3>1. /\ Len(all) = Len(d.tables) + Len(e) /\ all[Len(d.tables) + i] = FromGrid(e[i])
          /\ Len(d.tables) \in Nat /\ DOMAIN all = 1..Len(all)
      <4>1. Len(d.tables) \in Nat
        BY DEF Document
      <4>2. Len(all) = Len(d.tables) + Len(e)
            /\ \A j \in 1..Len(e): all[Len(d.tables) + j] = FromGrid(e[j])
        BY <1>1, <2>1, AllInIs
      <4> QED
        BY <4>1, <4>2
    <3>2. Len(d.tables) + i \in DOMAIN all
      BY <3>1
    <3> QED
      BY <2>3, <3>1, <3>2 DEF Range
  <2> QED
    BY <1>4, <2>5, <2>6, <2>7
<1>8. CASE found = <<>>
  <2>1. Range(found) = {} /\ Kept(found) = <<>>
    <3>1. Range(<<>>) = {}
      BY DEF Range
    <3> QED
      BY <1>8, <3>1, KeptNothing
  <2>2. \A g \in Range(d.grids): ~Labelled(g)
    BY <1>7, <2>1
  <2>3. ~(TextsOf(d) # <<>> /\ \A t \in Range(d.tables): Regular(t))
    BY <1>1, <1>3, <2>1, TextsOfAll
  <2> QED
    BY <1>2, <1>5, <1>8, <2>2, <2>3
<1>9. CASE found # <<>>
  BY <1>1, <1>2, <1>3, <1>6, <1>7, <1>9, TextsOfAll
<1> QED
  BY <1>8, <1>9

-----------------------------------------------------------------------------
(* The steps of scrape *)

\* How far the reading is, and what it holds so far.
Reading ==
    /\ frames \in Pages /\ turns \in 0..Len(frames) /\ missed \subseteq 2..turns
    /\ job = "scrape" =>
         /\ at # "saving" /\ (at = "done" => turns = Len(frames))
         /\ tables \in Seq(Reports) /\ (turns = 0 => tables = <<>>)

\* RowsAreAligned, of the frames that had their turn.
InPlace ==
    job = "scrape" =>
        /\ \A i \in (1..turns) \ missed: \A g \in Range(frames[i].grids):
              Labelled(g) => [type |-> "jqxgrid", headers |-> g.labels, rows |-> g.rows] \in Range(tables)
        /\ \A t \in Range(tables):
              t.type = "div_grid" => \A i \in DOMAIN t.rows: Len(t.rows[i]) = Len(t.headers)

\* A document whose texts are all read by the first two strategies.
Whole(d) == TextsOf(d) # <<>> /\ \A t \in Range(d.tables): Regular(t)

\* What was read, up to a frame.
ReadOf(i) == IF i \in missed THEN <<>> ELSE TextsOf(frames[i])

\* NothingIsLost, of the frames that had their turn.
InFull ==
    job = "scrape" /\ (\A i \in (1..turns) \ missed: Whole(frames[i])) =>
        Kept(tables) = FlattenSeq([i \in 1..turns |-> ReadOf(i)])

ScrapingInv == Reading /\ InPlace /\ InFull

LEMMA FramesAreDocuments ==
  ASSUME frames \in Pages
  PROVE  Len(frames) \in Nat \ {0} /\ DOMAIN frames = 1..Len(frames)
         /\ \A i \in 1..Len(frames): Document(frames[i])
<1>1. frames \in Seq(Range(frames)) \ {<<>>} /\ \A d \in Range(frames): Document(d)
  BY ScrapingAssumption DEF ScrapingAssumption, Document
<1>2. Len(frames) \in Nat \ {0} /\ DOMAIN frames = 1..Len(frames)
  BY <1>1
<1>3. \A i \in 1..Len(frames): frames[i] \in Range(frames)
  BY <1>2 DEF Range
<1> QED
  BY <1>1, <1>2, <1>3

LEMMA ScrapingStarts == ScrInit => ScrapingInv
<1> SUFFICES ASSUME ScrInit PROVE ScrapingInv
  OBVIOUS
<1>1. Len(frames) \in Nat \ {0}
  BY FramesAreDocuments DEF ScrInit
<1>2. Reading
  BY <1>1 DEF ScrInit, Reading
<1>3. InPlace
  BY DEF ScrInit, InPlace, Range
<1>4. InFull
  <2>1. Kept(<<>>) = <<>> /\ [i \in 1..0 |-> ReadOf(i)] = <<>> /\ FlattenSeq(<<>>) = <<>>
    BY DEF Kept, Each, FlattenSeq
  <2> QED
    BY <2>1 DEF ScrInit, InFull
<1> QED
  BY <1>2, <1>3, <1>4 DEF ScrapingInv

\* One frame more: read, with what was scraped in it, or passed over.
LEMMA OneFrameMore ==
  ASSUME ScrapingInv, job = "scrape", at = "reading", turns < Len(frames),
         UNCHANGED <<job, frames, at>>, turns' = turns + 1,
         NEW sel,
         \/ missed' = missed /\ tables' = tables \o Scraped(frames[turns + 1], sel)
         \/ missed' = missed \cup {turns + 1} /\ turns > 0 /\ tables' = tables
  PROVE  ScrapingInv'
<1>1. /\ Len(frames) \in Nat \ {0} /\ turns \in Nat /\ missed \subseteq 2..turns
      /\ tables \in Seq(Reports) /\ frames \in Pages
  BY FramesAreDocuments DEF ScrapingInv, Reading
<1>2. PICK n \in Nat, d \in {frames[turns + 1]}: n = turns + 1 /\ d = frames[n]
  BY <1>1
<1>3. Document(d) /\ n \in 1..Len(frames) /\ turns' = n /\ n \notin missed
      /\ 1..n = (1..turns) \cup {n} /\ n \notin 1..turns
  <2>1. n \in 1..Len(frames) /\ n \notin missed /\ 1..n = (1..turns) \cup {n} /\ n \notin 1..turns
    BY <1>1, <1>2
  <2> QED
    BY <1>1, <1>2, <2>1, FramesAreDocuments
<1>4. PICK more \in Seq(Reports): more = IF missed' = missed THEN Scraped(d, sel) ELSE <<>>
  <2>1. Scraped(d, sel) \in Seq(Reports) /\ <<>> \in Seq(Reports)
    BY <1>3, ScrapedDocument
  <2> QED
    BY <2>1
<1>5. tables' = tables \o more /\ (missed' = missed \/ missed' = missed \cup {n})
      /\ (missed' = missed <=> n \notin missed')
  <2>1. tables \o <<>> = tables
    BY <1>1
  <2> QED
    BY <1>2, <1>3, <1>4, <2>1
<1>6. Reading'
  <2>1. missed' \subseteq 2..n /\ tables' \in Seq(Reports) /\ n # 0 /\ n \in 0..Len(frames)
    <3>1. missed' \subseteq 2..n
      <4>1. 2..turns \subseteq 2..n /\ (n \in missed' => n \in 2..n)
        BY <1>1, <1>2, <1>3
      <4> QED
        BY <1>1, <1>5, <4>1
    <3>2. tables' \in Seq(Reports)
      <4>1. PICK s \in Seq(Reports): s = tables
        BY <1>1
      <4>2. s \o more \in Seq(Reports)
        OBVIOUS
      <4> QED
        BY <1>5, <4>1, <4>2
    <3> QED
      BY <1>1, <1>2, <1>3, <3>1, <3>2
  <2> QED
    BY <1>1, <1>3, <2>1 DEF Reading
<1>7. InPlace'
  <2>1. Range(tables') = Range(tables) \cup Range(more)
    <3>1. PICK s \in Seq(Reports): s = tables
      BY <1>1
    <3>2. Range(s \o more) = Range(s) \cup Range(more)
      BY RangeConcat
    <3> QED
      BY <1>5, <3>1, <3>2
  <2>2. ASSUME NEW i \in (1..n) \ missed', NEW g \in Range(frames[i].grids), Labelled(g)
        PROVE  [type |-> "jqxgrid", headers |-> g.labels, rows |-> g.rows] \in Range(tables')
    <3>1. CASE i = n
      BY <1>2, <1>3, <1>4, <1>5, <2>1, <2>2, <3>1, ScrapedDocument
    <3>2. CASE i # n
      BY <1>3, <1>5, <2>1, <2>2, <3>2 DEF ScrapingInv, InPlace
    <3> QED
      BY <3>1, <3>2
  <2>3. ASSUME NEW t \in Range(tables'), t.type = "div_grid"
        PROVE  \A i \in DOMAIN t.rows: Len(t.rows[i]) = Len(t.headers)
    <3>1. CASE t \in Range(tables)
      BY <2>3, <3>1 DEF ScrapingInv, InPlace
    <3>2. CASE t \in Range(more)
      <4>1. more = Scraped(d, sel)
        BY <1>4, <3>2 DEF Range
      <4> QED
        BY <1>3, <2>3, <3>2, <4>1, ScrapedDocument
    <3> QED
      BY <2>1, <3>1, <3>2
  <2> QED
    BY <1>3, <2>2, <2>3 DEF InPlace
<1>8. InFull'
  <2> SUFFICES ASSUME \A i \in (1..n) \ missed': Whole(frames[i])
               PROVE  Kept(tables') = FlattenSeq([i \in 1..n |-> ReadOf(i)'])
    BY <1>3 DEF InFull, Whole
  <2> DEFINE read == [i \in 1..turns |-> ReadOf(i)]
  <2>1. Kept(tables) = FlattenSeq(read)
    BY <1>3, <1>5 DEF ScrapingInv, InFull
  <2>2. PICK last \in Seq(Texts): last = IF n \in missed' THEN <<>> ELSE TextsOf(d)
    <3>1. TextsOf(d) \in Seq(Texts)
      BY <1>3, TextsOfAll
    <3>2. <<>> \in Seq(Texts)
      OBVIOUS
    <3> QED
      BY <3>1, <3>2
  <2>3. Kept(more) = last
    <3>1. CASE n \in missed'
      BY <1>4, <1>5, <2>2, <3>1, KeptNothing
    <3>2. CASE n \notin missed'
      <4>1. Whole(d)
        BY <1>2, <1>3, <3>2
      <4>2. Kept(Scraped(d, sel)) = TextsOf(d)
        BY <1>3, <4>1, ScrapedDocument DEF Whole
      <4> QED
        BY <1>4, <1>5, <2>2, <3>2, <4>2
    <3> QED
      BY <3>1, <3>2
  <2>4. Kept(tables') = FlattenSeq(read) \o last
    <3>1. Kept(tables \o more) = Kept(tables) \o Kept(more)
      BY <1>1, KeptConcat
    <3> QED
      BY <1>5, <2>1, <2>3, <3>1
  <2>5. read \in Seq(Seq(Texts)) /\ Len(read) = turns
    <3>1. ASSUME NEW i \in 1..turns PROVE ReadOf(i) \in Seq(Texts)
      <4>1. Document(frames[i])
        BY <1>1, <3>1, FramesAreDocuments
      <4> QED
        BY <4>1, TextsOfAll DEF ReadOf
    <3> QED
      BY <1>1, <3>1
  <2>6. [i \in 1..n |-> ReadOf(i)'] = Append(read, last)
    <3>1. \A i \in 1..turns: ReadOf(i)' = read[i]
      BY <1>3, <1>5 DEF ReadOf
    <3>2. ReadOf(n)' = last
      BY <1>2, <2>2 DEF ReadOf
    <3>3. Append(read, last) \in Seq(Seq(Texts)) /\ Len(Append(read, last)) = n
          /\ (\A i \in 1..turns: Append(read, last)[i] = read[i]) /\ Append(read, last)[n] = last
      <4> HIDE DEF read
      <4> QED
        BY <1>1, <1>2, <2>5
    <3> HIDE DEF read
    <3>4. PICK u \in Seq(Seq(Texts)): u = Append(read, last)
      BY <3>3
    <3>5. DOMAIN u = 1..n /\ u = [i \in DOMAIN u |-> u[i]]
      <4>1. Len(u) = n
        BY <3>3, <3>4
      <4> QED
        BY <4>1
    <3>6. \A i \in 1..n: u[i] = ReadOf(i)'
      BY <1>3, <3>1, <3>2, <3>3, <3>4
    <3> QED
      BY <3>4, <3>5, <3>6
  <2> HIDE DEF read
  <2>7. FlattenSeq(Append(read, last)) = FlattenSeq(read) \o last
    BY <2>5, Flattening
  <2> QED
    BY <2>4, <2>6, <2>7
<1> QED
  BY <1>6, <1>7, <1>8 DEF ScrapingInv

LEMMA ScrapingSteps == ScrapingInv /\ [ScrNext]_scrVars => ScrapingInv'
<1> SUFFICES ASSUME ScrapingInv, [ScrNext]_scrVars PROVE ScrapingInv'
  OBVIOUS
<1>1. /\ Len(frames) \in Nat \ {0} /\ turns \in Nat /\ turns <= Len(frames) /\ missed \subseteq 2..turns
      /\ frames \in Pages
  <2>1. frames \in Pages /\ turns \in 0..Len(frames) /\ missed \subseteq 2..turns
    BY DEF ScrapingInv, Reading
  <2>2. Len(frames) \in Nat \ {0}
    BY <2>1, FramesAreDocuments
  <2> QED
    BY <2>1, <2>2
<1>2. UNCHANGED <<job, frames>>
  BY DEF ScrNext, ReadPage, ReadFrame, PassOver, ScrRaise, Report, scrVars
<1>3. CASE job = "scrape"
  <2>1. CASE ReadPage
    <3>1. turns' = turns + 1 /\ turns < Len(frames) /\ at = "reading" /\ at' = at /\ missed' = missed
          /\ tables' = Scraped(frames[turns + 1], selector) /\ tables = <<>>
      BY <1>1, <1>3, <2>1 DEF ReadPage, ScrapingInv, Reading
    <3>2. Scraped(frames[turns + 1], selector) \in Seq(Reports)
      <4>1. turns + 1 \in 1..Len(frames)
        BY <1>1, <3>1
      <4> QED
        BY <1>1, <4>1, FramesAreDocuments, ScrapedDocument
    <3>3. tables' = tables \o Scraped(frames[turns + 1], selector)
      BY <3>1, <3>2
    <3> QED
      BY <1>2, <1>3, <3>1, <3>3, OneFrameMore
  <2>2. CASE ReadFrame
    <3>1. turns' = turns + 1 /\ turns < Len(frames) /\ at = "reading" /\ at' = at /\ missed' = missed
          /\ tables' = tables \o Scraped(frames[turns + 1], selector)
      BY <1>1, <1>3, <2>2 DEF ReadFrame
    <3> QED
      BY <1>2, <1>3, <3>1, OneFrameMore
  <2>3. CASE PassOver
    <3>1. turns' = turns + 1 /\ turns < Len(frames) /\ turns > 0 /\ at = "reading" /\ at' = at
          /\ missed' = missed \cup {turns + 1} /\ tables' = tables
      BY <1>1, <2>3 DEF PassOver
    <3> QED
      BY <1>2, <1>3, <3>1, OneFrameMore
  <2>4. CASE ScrRaise \/ Report \/ UNCHANGED scrVars
    <3>1. UNCHANGED <<turns, missed, tables>> /\ (at' \in {"raised", at} \/ (at' = "done" /\ Report))
      BY <2>4 DEF ScrRaise, Report, scrVars
    <3>2. Reading'
      BY <1>2, <1>3, <2>4, <3>1 DEF ScrapingInv, Reading, ScrRaise, Report, scrVars
    <3>3. InPlace'
      BY <1>2, <1>3, <3>1 DEF ScrapingInv, InPlace
    <3>4. InFull'
      BY <1>2, <1>3, <3>1 DEF ScrapingInv, InFull, ReadOf, Whole
    <3> QED
      BY <3>2, <3>3, <3>4 DEF ScrapingInv
  <2> QED
    BY <2>1, <2>2, <2>3, <2>4 DEF ScrNext
<1>4. CASE job # "scrape"
  <2>1. turns' \in 0..Len(frames) /\ missed' \subseteq 2..turns'
    <3>1. CASE ReadPage
      BY <1>1, <3>1 DEF ReadPage
    <3>2. CASE ReadFrame
      BY <1>1, <3>2 DEF ReadFrame
    <3>3. CASE PassOver
      <4>1. turns' = turns + 1 /\ turns' \in 2..Len(frames) /\ missed' = missed \cup {turns'}
            /\ 2..turns \subseteq 2..turns'
        BY <1>1, <3>3 DEF PassOver
      <4> QED
        BY <1>1, <4>1
    <3>4. CASE ScrRaise \/ Report \/ UNCHANGED scrVars
      <4>1. turns' = turns /\ missed' = missed
        BY <3>4 DEF ScrRaise, Report, scrVars
      <4> QED
        BY <1>1, <4>1
    <3> QED
      BY <3>1, <3>2, <3>3, <3>4 DEF ScrNext
  <2> QED
    BY <1>1, <1>2, <1>4, <2>1 DEF ScrapingInv, Reading, InPlace, InFull
<1> QED
  BY <1>3, <1>4

LEMMA ScrapingHolds == ScrSpec => []ScrapingInv
  BY ScrapingStarts, ScrapingSteps, PTL DEF ScrSpec

\* Everything else has its type.
Kinds ==
    /\ job \in {"scrape", "extract_grid"}
    /\ selector \in {"table", "other"}
    /\ columns \in Columns \union {UNDEFINED}
    /\ at \in {"reading", "saving", "done", "raised"}
    /\ job = "extract_grid" => tables = <<>>
    /\ DOMAIN result = DOMAIN Nothing

LEMMA ExtractedShape == \A d: DOMAIN Extracted(d) = DOMAIN Nothing
BY DEF Extracted, Nothing

\* Types of the two scripts' state: a report's tables have their three fields, and no frame is
\* passed over before its turn.
THEOREM ScrapingTypes == ScrSpec => []ScrTypeOK
<1>1. ScrInit => Kinds
  BY DEF ScrInit, Kinds
<1>2. Kinds /\ [ScrNext]_scrVars => Kinds'
  <2> SUFFICES ASSUME Kinds, [ScrNext]_scrVars PROVE Kinds'
    OBVIOUS
  <2>1. CASE ReadPage
    BY <2>1, ExtractedShape DEF ReadPage, Kinds
  <2>2. CASE ReadFrame
    BY <2>2, ExtractedShape DEF ReadFrame, Kinds
  <2>3. CASE PassOver
    BY <2>3 DEF PassOver, Kinds
  <2>4. CASE ScrRaise
    BY <2>4 DEF ScrRaise, Kinds
  <2>5. CASE Report
    BY <2>5 DEF Report, Kinds
  <2>6. CASE UNCHANGED scrVars
    BY <2>6 DEF scrVars, Kinds
  <2> QED
    BY <2>1, <2>2, <2>3, <2>4, <2>5, <2>6 DEF ScrNext
<1>3. Kinds /\ ScrapingInv => ScrTypeOK
  <2> SUFFICES ASSUME Kinds, ScrapingInv PROVE ScrTypeOK
    OBVIOUS
  <2>1. frames # <<>> /\ turns \in 0..Len(frames) /\ missed \subseteq 2..turns
    <3>1. frames \in Pages /\ turns \in 0..Len(frames) /\ missed \subseteq 2..turns
      BY DEF ScrapingInv, Reading
    <3> QED
      BY <3>1, ScrapingAssumption DEF ScrapingAssumption
  <2>2. \A t \in Range(tables): DOMAIN t = {"type", "headers", "rows"}
    <3>1. CASE job = "scrape"
      <4>1. tables \in Seq(Reports)
        BY <3>1 DEF ScrapingInv, Reading
      <4>2. Range(tables) \subseteq Reports
        BY <4>1 DEF Range
      <4>3. \A r \in Reports: DOMAIN r = {"type", "headers", "rows"}
        BY DEF Reports
      <4> QED
        BY <4>2, <4>3
    <3>2. CASE job = "extract_grid"
      <4>1. Range(<<>>) = {}
        BY DEF Range
      <4> QED
        BY <3>2, <4>1 DEF Kinds
    <3> QED
      BY <3>1, <3>2 DEF Kinds
  <2> QED
    BY <2>1, <2>2 DEF Kinds, ScrTypeOK
<1> QED
  BY <1>1, <1>2, <1>3, ScrapingHolds, PTL DEF ScrSpec

\* A value is reported in the row and under the header it stands in, whatever the documents hold and
\* whichever frames cannot be read: counting cells finds the rows of a labelled grid (_scrape,
\* player.py:363-381), and containers give rows as wide as their headers (player.py:403-409).
THEOREM ValuesStayInPlace == ScrSpec => []RowsAreAligned
<1>1. ScrapingInv => RowsAreAligned
  <2> SUFFICES ASSUME ScrapingInv, at = "done", job = "scrape" PROVE RowsAreAligned
    BY DEF RowsAreAligned
  <2>1. turns = Len(frames) /\ DOMAIN frames = 1..Len(frames)
    BY FramesAreDocuments DEF ScrapingInv, Reading
  <2> QED
    BY <2>1 DEF ScrapingInv, InPlace, RowsAreAligned
<1> QED
  BY <1>1, ScrapingHolds, PTL

\* Each text of the tables and grids of every frame that was read is in the report, once and in its
\* place (_scrape, player.py:313-436).
THEOREM EveryTextIsReported == ScrSpec => []NothingIsLost
<1>1. ScrapingInv => NothingIsLost
  <2> SUFFICES ASSUME ScrapingInv, at = "done", job = "scrape" PROVE NothingIsLost
    BY DEF NothingIsLost
  <2>1. turns = Len(frames) /\ DOMAIN frames = 1..Len(frames)
    BY FramesAreDocuments DEF ScrapingInv, Reading
  <2> DEFINE read == {i \in DOMAIN frames: i \notin missed}
  <2> SUFFICES ASSUME \A i \in read: Whole(frames[i])
               PROVE  Kept(tables)
                      = FlattenSeq([i \in DOMAIN frames |->
                                      IF i \in read THEN TextsOf(frames[i]) ELSE <<>>])
    BY DEF NothingIsLost, Whole
  <2>2. Kept(tables) = FlattenSeq([i \in 1..turns |-> ReadOf(i)])
    BY <2>1 DEF ScrapingInv, InFull
  <2>3. [i \in 1..turns |-> ReadOf(i)]
        = [i \in DOMAIN frames |-> IF i \in read THEN TextsOf(frames[i]) ELSE <<>>]
    BY <2>1 DEF ReadOf
  <2> QED
    BY <2>2, <2>3
<1> QED
  BY <1>1, ScrapingHolds, PTL
-----------------------------------------------------------------------------
(* What extract_grid reports *)

\* What the script of extract_grid finds in each frame.
Got == [i \in DOMAIN frames |-> Extracted(frames[i])]

Passed(i) == i \in missed \/ Got[i].error # "none"

\* The search of extract_grid: where it got to, and why.
Unfound ==
    /\ Got[1].error \in Elsewhere
    /\ \A i \in 2..turns: Passed(i)
    /\ result.error # "none" /\ result.data = <<>>

Found ==
    \/ Got[1].error \notin Elsewhere /\ result = Got[1]
    \/ /\ Got[1].error \in Elsewhere
       /\ \E j \in (2..Len(frames)) \ missed:
             /\ Got[j].error = "none" /\ result = Got[j]
             /\ \A i \in 2..(j - 1): Passed(i)

Searching ==
    /\ frames \in Seq(Range(frames)) \ {<<>>}
    /\ turns \in 0..Len(frames) /\ missed \subseteq 2..turns
    /\ job = "extract_grid" =>
         \/ turns = 0 /\ at \in {"reading", "raised"}
         \/ turns > 0 /\ Unfound /\ at # "saving" /\ (at = "done" => turns = Len(frames))
         \/ turns > 0 /\ Found /\ at # "reading"

LEMMA NoGridNoRows ==
    ASSUME NEW i \in DOMAIN frames, Got[i].error # "none" PROVE Got[i].data = <<>>
BY DEF Got, Extracted, Nothing

LEMMA SearchInit == ScrInit => Searching
BY ScrapingAssumption DEF ScrInit, Searching

LEMMA SearchNext == Searching /\ [ScrNext]_scrVars => Searching'
<1> SUFFICES ASSUME Searching, [ScrNext]_scrVars PROVE Searching'
  OBVIOUS
<1>1. Len(frames) \in Nat \ {0} /\ DOMAIN frames = 1..Len(frames)
  BY DEF Searching
<1>2. UNCHANGED <<frames, job, columns>>
  BY DEF ScrNext, ReadPage, ReadFrame, PassOver, ScrRaise, Report, scrVars
<1>3. Got' = Got
  BY <1>2 DEF Got, Extracted
<1>4. CASE ReadPage
  <2>1. turns' = 1 /\ turns' \in 0..Len(frames) /\ missed' = missed /\ missed \subseteq 2..turns'
    BY <1>1, <1>4 DEF ReadPage, Searching
  <2>2. CASE job = "extract_grid"
    <3>1. PICK got: got = Got[1]
      OBVIOUS
    <3>2. result' = got
      BY <1>1, <1>4, <2>2, <3>1 DEF ReadPage, Got
    <3>3. CASE got.error \in Elsewhere
      <4>1. got.error # "none" /\ got.data = <<>>
        <5>1. 1 \in DOMAIN frames
          BY <1>1
        <5>2. got.error # "none"
          BY <3>3 DEF Elsewhere
        <5> QED
          BY <3>1, <5>1, <5>2, NoGridNoRows
      <4>2. \A i \in 2..turns': Passed(i)'
        BY <2>1
      <4>3. (Got[1].error \in Elsewhere)'
        BY <1>3, <3>1, <3>3 DEF Elsewhere
      <4>4. Unfound'
        BY <3>2, <4>1, <4>2, <4>3 DEF Unfound
      <4>5. at' = "reading"
        BY <1>4, <2>2, <3>2, <3>3 DEF ReadPage
      <4> QED
        BY <1>2, <2>1, <4>4, <4>5 DEF Searching
    <3>4. CASE got.error \notin Elsewhere
      <4>1. at' = "saving"
        BY <1>4, <2>2, <3>2, <3>4 DEF ReadPage
      <4>2. Found'
        BY <1>3, <3>1, <3>2, <3>4 DEF Found, Elsewhere
      <4> QED
        BY <1>2, <2>1, <4>1, <4>2 DEF Searching
    <3> QED
      BY <3>3, <3>4
  <2>3. CASE job # "extract_grid"
    BY <1>2, <2>1, <2>3 DEF Searching
  <2> QED
    BY <2>2, <2>3
<1>5. CASE ReadFrame
  <2>1. /\ turns \in Nat /\ turns > 0 /\ turns' = turns + 1 /\ turns' \in 2..Len(frames)
        /\ at = "reading" /\ missed' = missed /\ missed \subseteq 2..turns
    BY <1>1, <1>5 DEF ReadFrame, Searching
  <2>2. missed \subseteq 2..turns' /\ turns' \notin missed /\ 2..turns = 2..(turns' - 1)
        /\ 2..turns' = (2..turns) \cup {turns'}
    BY <1>1, <2>1
  <2>3. CASE job = "extract_grid"
    <3>1. PICK got: got = Got[turns + 1]
      OBVIOUS
    <3>2. result' = got
      <4>1. turns + 1 \in DOMAIN frames
        BY <1>1, <2>1
      <4> QED
        BY <1>5, <2>3, <3>1, <4>1 DEF ReadFrame, Got
    <3>3. Unfound
      BY <2>1, <2>3 DEF Searching
    <3>4. (Got[1].error \in Elsewhere)' /\ \A i \in 2..turns: Passed(i)'
      BY <1>3, <2>1, <3>3 DEF Unfound, Elsewhere, Passed
    <3>5. PICK t: t = turns'
      OBVIOUS
    <3>6. t \in (2..Len(frames)) \ missed' /\ 2..(t - 1) = 2..turns /\ (Got[t] = got)'
      BY <1>2, <1>3, <2>1, <2>2, <3>1, <3>5
    <3>7. CASE got.error = "none"
      <4>1. at' = "saving"
        BY <1>5, <2>3, <3>2, <3>7 DEF ReadFrame
      <4>2. Found'
        BY <1>2, <3>2, <3>4, <3>6, <3>7 DEF Found
      <4> QED
        BY <1>1, <1>2, <2>1, <2>2, <4>1, <4>2 DEF Searching
    <3>8. CASE got.error # "none"
      <4>1. at' = "reading" /\ got.data = <<>>
        <5>1. turns + 1 \in DOMAIN frames
          BY <1>1, <2>1
        <5> QED
          BY <1>5, <2>3, <3>1, <3>2, <3>8, <5>1, NoGridNoRows DEF ReadFrame
      <4>2. \A i \in 2..turns': Passed(i)'
        BY <2>2, <3>4, <3>5, <3>6, <3>8 DEF Passed
      <4>3. Unfound'
        BY <3>2, <3>4, <3>8, <4>1, <4>2 DEF Unfound
      <4> QED
        BY <1>1, <1>2, <2>1, <2>2, <4>1, <4>3 DEF Searching
    <3> QED
      BY <3>7, <3>8
  <2>4. CASE job # "extract_grid"
    <3>1. turns' \in 0..Len(frames) /\ missed' \subseteq 2..turns'
      BY <1>1, <2>1, <2>2
    <3> QED
      BY <1>2, <2>4, <3>1 DEF Searching
  <2> QED
    BY <2>3, <2>4
<1>6. CASE PassOver
  BY <1>1, <1>2, <1>3, <1>6 DEF PassOver, Searching, Unfound, Found, Passed
<1>7. CASE ScrRaise
  BY <1>1, <1>2, <1>3, <1>7 DEF ScrRaise, Searching, Unfound, Found, Passed
<1>8. CASE Report
  BY <1>1, <1>2, <1>3, <1>8 DEF Report, Searching, Unfound, Found, Passed
<1>9. CASE UNCHANGED scrVars
  BY <1>1, <1>2, <1>3, <1>9 DEF scrVars, Searching, Unfound, Found, Passed
<1> QED
  BY <1>4, <1>5, <1>6, <1>7, <1>8, <1>9 DEF ScrNext

\* A grid that stands in the page, or in the first frame that has one, is the one reported, and
\* without one an error is: whatever the frames hold and whichever cannot be read (_extract_grid,
\* player.py:276-303).
THEOREM TheGridIsTheOne == ScrSpec => []GridIsFound
<1>1. Searching => GridIsFound
  <2> SUFFICES ASSUME Searching, at = "done", job = "extract_grid" PROVE GridIsFound
    BY DEF GridIsFound
  <2>1. /\ Len(frames) \in Nat \ {0} /\ 1 \in DOMAIN frames
        /\ \A i \in 2..Len(frames): i \in DOMAIN frames
    BY DEF Searching
  <2>2. Extracted(frames[1]) = Got[1] /\ \A i \in 2..Len(frames): Extracted(frames[i]) = Got[i]
    BY <2>1 DEF Got
  <2>3. CASE Unfound /\ turns = Len(frames)
    BY <2>2, <2>3 DEF Unfound, Passed, GridIsFound
  <2>4. CASE Found /\ Got[1].error \notin Elsewhere
    BY <2>2, <2>4 DEF Found, GridIsFound
  <2>5. CASE Found /\ Got[1].error \in Elsewhere
    <3>1. PICK j \in (2..Len(frames)) \ missed:
             /\ Got[j].error = "none" /\ result = Got[j]
             /\ \A i \in 2..(j - 1): Passed(i)
      BY <2>5 DEF Found
    <3>2. ASSUME NEW i \in (2..Len(frames)) \ missed, Got[i].error = "none"
          PROVE  j <= i
      BY <2>1, <3>1, <3>2 DEF Passed
    <3> QED
      BY <2>2, <2>5, <3>1, <3>2 DEF GridIsFound
  <2> QED
    BY <2>3, <2>4, <2>5 DEF Searching
<1> QED
  BY SearchInit, SearchNext, <1>1, PTL DEF ScrSpec
-----------------------------------------------------------------------------
(* The desktop recorder *)

\* Chrome runs from the launch to the finally, or to a Ctrl-C before it; a profile is left only
\* where Chrome was not waited for, or never ran.
ChromeByPhase ==
    /\ phase = "starting" => probe = 0
    /\ phase = "waiting" => probe < Probes
    /\ phase \in {"starting", "complete", "exited"} => chrome # "running"
    /\ phase = "complete" => chrome \in {"gone", "killed"}
    /\ phase = "exited" => asked = "no" \/ chrome \in {"gone", "killed"}
    /\ chrome = "terminated" => probe = Probes
    /\ chrome = "gone" => ~profile
    /\ phase \notin {"complete", "exited"} => chrome \in {"none", "running"}
    /\ phase \in {"starting", "waiting", "connecting", "left"} => asked = "no"
    /\ phase = "left" => interrupted

\* The file is written last, and holds what was seen then.
Written ==
    /\ files.recording # NONE =>
        phase \in {"complete", "exited"} /\ files.recording = Recording
    /\ phase \in {"complete", "exited"} /\ files.recording = NONE => asked = "no" \/ ~writable

Counted == requests = ignored + Len(actions) + undecoded

FilesType == DOMAIN files = {"recording", "cookies"}

DesktopInv == TypeOK /\ FilesType /\ ChromeByPhase /\ Written /\ Counted

LEMMA BoundsAreNumbers == MaxRequests \in Nat /\ Probes \in Nat /\ Probes > 0
BY DesktopAssumption DEF DesktopAssumption

LEMMA DesktopStarts == Init => DesktopInv
<1> SUFFICES ASSUME Init PROVE DesktopInv
  OBVIOUS
<1>1. TypeOK
  <2>1. probe \in 0..Probes /\ requests \in 0..MaxRequests /\ ignored \in Nat /\ undecoded \in Nat
    BY BoundsAreNumbers DEF Init
  <2>2. actions \in Seq(Action) /\ downloads \in Seq(Download) /\ fetching \subseteq Files
    BY DEF Init
  <2>3. interrupted \in BOOLEAN /\ profile \in BOOLEAN /\ suffix \in BOOLEAN /\ writable \in BOOLEAN
    BY DEF Init
  <2> QED
    BY <2>1, <2>2, <2>3 DEF Init, TypeOK
<1>2. ChromeByPhase
  BY BoundsAreNumbers DEF Init, ChromeByPhase
<1>3. Written /\ Counted /\ FilesType
  BY DEF Init, Written, Counted, FilesType
<1> QED
  BY <1>1, <1>2, <1>3 DEF DesktopInv

\* What is classified is an action of its request.
LEMMA ClassifyTypes == \A q \in Request: Classify(q) \in Action
BY DEF Request, Classify, Action, ActionTypes

\* A request adds one to exactly one of what is counted.
LEMMA RequestStep == ASSUME DesktopInv, NEW q \in Request, OnRequest(q) PROVE DesktopInv'
<1>1. /\ Watching /\ requests < MaxRequests /\ requests' = requests + 1
      /\ UNCHANGED <<phase, probe, chrome, profile, asked, interrupted, suffix, writable,
                     fetching, downloads, files>>
  BY DEF OnRequest, chromeVars, fetched
<1>2. \/ undecoded' = undecoded + 1 /\ UNCHANGED <<ignored, actions>>
      \/ ignored' = ignored + 1 /\ UNCHANGED <<undecoded, actions>>
      \/ actions' = Append(actions, Classify(q)) /\ UNCHANGED <<undecoded, ignored>>
  BY DEF OnRequest, Raises, IsInteresting
<1>3. /\ ignored' \in Nat /\ undecoded' \in Nat /\ actions' \in Seq(Action)
      /\ requests' = ignored' + Len(actions') + undecoded'
  <2>1. Classify(q) \in Action
    BY ClassifyTypes
  <2>2. /\ actions \in Seq(Action) /\ Len(actions) \in Nat
        /\ requests \in Nat /\ ignored \in Nat /\ undecoded \in Nat
        /\ requests = ignored + Len(actions) + undecoded
    BY BoundsAreNumbers DEF DesktopInv, TypeOK, Counted
  <2>3. /\ Append(actions, Classify(q)) \in Seq(Action)
        /\ Len(Append(actions, Classify(q))) = Len(actions) + 1
    BY <2>1, <2>2
  <2>4. CASE actions' = Append(actions, Classify(q)) /\ UNCHANGED <<undecoded, ignored>>
    BY <1>1, <2>2, <2>3, <2>4
  <2>5. CASE undecoded' = undecoded + 1 /\ UNCHANGED <<ignored, actions>>
    BY <1>1, <2>2, <2>5
  <2>6. CASE ignored' = ignored + 1 /\ UNCHANGED <<undecoded, actions>>
    BY <1>1, <2>2, <2>6
  <2> QED
    BY <1>2, <2>4, <2>5, <2>6
<1>4. requests' \in 0..MaxRequests
  BY <1>1, BoundsAreNumbers DEF DesktopInv, TypeOK
<1>5. files.recording = NONE
  BY <1>1 DEF DesktopInv, Written, Watching
<1>6. ChromeByPhase' /\ Written' /\ FilesType'
  BY <1>1, <1>5 DEF DesktopInv, ChromeByPhase, Written, FilesType, Watching
<1>7. TypeOK'
  BY <1>1, <1>3, <1>4 DEF DesktopInv, TypeOK
<1> QED
  BY <1>3, <1>6, <1>7 DEF DesktopInv, Counted

LEMMA DownloadStep ==
  ASSUME DesktopInv, NEW f \in Files, DownloadBegins(f) \/ DownloadSaved(f) PROVE DesktopInv'
<1>1. /\ Watching
      /\ UNCHANGED <<phase, probe, chrome, profile, asked, interrupted, suffix, writable,
                     requests, ignored, actions, undecoded, files>>
  BY DEF DownloadBegins, DownloadSaved, chromeVars, counted
<1>2. files.recording = NONE
  BY <1>1 DEF DesktopInv, Written, Watching
<1>3. fetching' \subseteq Files
  BY DEF DownloadBegins, DownloadSaved, DesktopInv, TypeOK
<1>4. downloads' \in Seq(Download)
  <2>1. actions # <<>> => Last(actions) \in Action
    BY DEF DesktopInv, TypeOK, Last
  <2>2. [file |-> f, trigger |-> IF actions = <<>> THEN NONE ELSE Last(actions).action_type]
          \in Download
    BY <2>1 DEF Action, Download
  <2> QED
    BY <2>2 DEF DownloadBegins, DownloadSaved, DesktopInv, TypeOK
<1>5. TypeOK'
  BY <1>1, <1>3, <1>4 DEF DesktopInv, TypeOK
<1>6. ChromeByPhase' /\ Written' /\ Counted' /\ FilesType'
  BY <1>1, <1>2 DEF DesktopInv, ChromeByPhase, Written, Counted, FilesType, Watching
<1> QED
  BY <1>5, <1>6 DEF DesktopInv

\* run goes on: what was seen is left alone, and written once Chrome is gone.
LEMMA RunStep == ASSUME DesktopInv, Run \/ Enter \/ Interrupt PROVE DesktopInv'
<1>1. UNCHANGED <<suffix, writable, requests, ignored, actions, undecoded, fetching, downloads>>
  BY DEF Run, Launch, Probe, Connect, ExportCookies, Disconnect, Finally, Exit, Enter, Interrupt,
         Untouched, counted, fetched
<1>2. Counted' /\ Recording' = Recording
  BY <1>1 DEF DesktopInv, Counted, Recording
<1>3. Recording \in Recordings /\ Recording # NONE
  <2>1. Recording \in Recordings
    BY DesktopAssumption DEF DesktopAssumption, Recording, Recordings, DesktopInv, TypeOK
  <2> QED
    BY <2>1, DesktopAssumption DEF DesktopAssumption
<1>4. TypeOK' /\ ChromeByPhase'
  <2> USE BoundsAreNumbers DEF DesktopInv, TypeOK, ChromeByPhase, chromeVars
  <2>1. CASE Launch
    <3>1. /\ phase = "starting" /\ probe' = 0 /\ asked' = "no" /\ UNCHANGED interrupted
          /\ \/ phase' = "exited" /\ chrome' = "none"
             \/ phase' = "waiting" /\ chrome' = "running"
      BY <2>1 DEF Launch
    <3>2. profile' \in BOOLEAN
      BY <2>1 DEF Launch
    <3> QED
      BY <1>1, <3>1, <3>2
  <2>2. CASE Probe
    <3>1. /\ phase = "waiting" /\ asked' = "no" /\ UNCHANGED interrupted
          /\ probe' = probe + 1 /\ probe' \in 0..Probes
          /\ \/ phase' = "connecting"
             \/ phase' = "waiting" /\ probe' < Probes
             \/ phase' = "exited" /\ chrome' = "terminated" /\ probe' = Probes
          /\ phase' # "exited" => chrome' = chrome
      BY <2>2 DEF Probe
    <3>2. profile' \in BOOLEAN
      BY <2>2 DEF Probe
    <3> QED
      BY <1>1, <3>1, <3>2
  <2>3. CASE Connect \/ ExportCookies \/ Disconnect \/ Exit
    BY <1>1, <2>3 DEF Connect, ExportCookies, Disconnect, Exit
  <2>4. CASE Finally
    BY <1>1, <2>4 DEF Finally
  <2>5. CASE Enter
    BY <1>1, <2>5 DEF Enter
  <2>6. CASE Interrupt
    BY <1>1, <2>6 DEF Interrupt
  <2> QED
    BY <2>1, <2>2, <2>3, <2>4, <2>5, <2>6 DEF Run
<1>5. Written'
  <2>1. CASE Launch \/ Probe \/ Connect \/ Disconnect \/ Exit
    BY <1>1, <1>2, <2>1 DEF Launch, Probe, Connect, Disconnect, Exit, DesktopInv, Written, ChromeByPhase
  <2>2. CASE ExportCookies
    <3>1. files.recording = NONE /\ phase' = "closing"
      BY <2>2 DEF ExportCookies, DesktopInv, Written
    <3>2. files'.recording = NONE
      BY <2>2, <3>1 DEF ExportCookies, DesktopInv, FilesType
    <3> QED
      BY <3>1, <3>2 DEF Written
  <2>3. CASE Finally
    <3>1. CASE writable
      BY <1>1, <1>2, <1>3, <2>3, <3>1 DEF Finally, Save, Written
    <3>2. CASE ~writable
      BY <1>1, <1>2, <2>3, <3>2 DEF Finally, Save, DesktopInv, Written
    <3> QED
      BY <3>1, <3>2
  <2>4. CASE Enter
    BY <1>1, <1>2, <2>4 DEF Enter, DesktopInv, Written
  <2>5. CASE Interrupt
    BY <1>1, <1>2, <2>5 DEF Interrupt, DesktopInv, Written
  <2> QED
    BY <2>1, <2>2, <2>3, <2>4, <2>5 DEF Run
<1>6. FilesType'
  BY DEF Run, Launch, Probe, Connect, ExportCookies, Disconnect, Finally, Save, Exit, Enter,
         Interrupt, DesktopInv, FilesType
<1> QED
  BY <1>2, <1>4, <1>5, <1>6 DEF DesktopInv

LEMMA Inductive == DesktopInv /\ [Next]_vars => DesktopInv'
<1> SUFFICES ASSUME DesktopInv, [Next]_vars PROVE DesktopInv'
  OBVIOUS
<1>1. CASE UNCHANGED vars
  BY <1>1 DEF vars, chromeVars, counted, fetched, DesktopInv, TypeOK, ChromeByPhase, Written, Counted,
              FilesType, Recording
<1> QED
  BY <1>1, RunStep, RequestStep, DownloadStep DEF Next
-----------------------------------------------------------------------------
\* The invariant holds in every state of every run.
THEOREM Invariance == Spec => []DesktopInv
  BY DesktopStarts, Inductive, PTL DEF Spec

\* Types of the recorder's state.
THEOREM TypeCorrect == Spec => []TypeOK
<1>1. DesktopInv => TypeOK
  BY DEF DesktopInv
<1> QED
  BY <1>1, Invariance, PTL

\* Of any number of requests each is ignored, recorded or has a body that is no text, and the
\* file tells of the same (recorder_desktop.py:127-156, 193-198, 228-240).
THEOREM CountsAlwaysAddUp == Spec => []CountsAddUp
<1>1. DesktopInv => CountsAddUp
  BY DEF DesktopInv, Counted, Written, CountsAddUp
<1> QED
  BY <1>1, Invariance, PTL

\* However a run ends that asked for ENTER, Chrome ended or was killed and the recording is
\* written where it can be; Chrome is left running only by a Ctrl-C before it was reached, and
\* unwaited for only when its port never answered (recorder_desktop.py:250-293, 364-378).
THEOREM EndIsClean == Spec => []EndsClean
<1>1. DesktopInv => EndsClean
  BY DEF DesktopInv, ChromeByPhase, Written, EndsClean
<1> QED
  BY <1>1, Invariance, PTL
=============================================================================
