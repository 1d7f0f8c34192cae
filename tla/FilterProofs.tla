---------------------------- MODULE FilterProofs ----------------------------
(***************************************************************************)
(* What a filter of a sequence leaves, for every sequence.  The recursion   *)
(* of Retained is followed from a smallest length at which it would fail.   *)
(***************************************************************************)
EXTENDS Filter, FiniteSetTheorems, SequenceTheorems, NaturalsInduction, TLAPS

\* The order of the natural numbers, as a set of pairs.
LEMMA NaturalOrder ==
  \E less : less = {ss \in Nat \X Nat : ss[1] < ss[2]} /\ IsWellFoundedOn(less, Nat)
  BY NatLessThanWellFounded, Zenon DEF OpToRel

\* A set of numbers that is not empty has a smallest.
LEMMA Smallest ==
  ASSUME NEW T \in SUBSET Nat, T # {}
  PROVE  \E n \in T : \A k \in T : n <= k
  <1>1. PICK less : less = {ss \in Nat \X Nat : ss[1] < ss[2]} /\ IsWellFoundedOn(less, Nat)
    BY NaturalOrder
  <1>2. PICK n \in T : \A k \in T : ~(<<k, n>> \in less)
    BY <1>1, WFMin
  <1>3. ASSUME NEW k \in T PROVE n <= k
    <2>1. <<k, n>> \in Nat \X Nat /\ <<k, n>>[1] = k /\ <<k, n>>[2] = n
      OBVIOUS
    <2>2. ~(k < n)
      BY <1>1, <1>2, <2>1
    <2> QED
      BY <2>2
  <1> QED
    BY <1>3

LEMMA UpTo ==
  ASSUME NEW n \in Nat
  PROVE  IsFiniteSet(1 .. n) /\ Cardinality(1 .. n) = n
  <1>1. IsFiniteSet(1 .. n) /\ Cardinality(1 .. n) = IF 1 > n THEN 0 ELSE n - 1 + 1
    BY FS_Interval
  <1> QED
    BY <1>1

\* What the first entry's removal and an entry's addition leave.
LEMMA TailIs ==
  ASSUME NEW S, NEW s \in Seq(S), s # << >>
  PROVE  /\ Tail(s) \in Seq(S) /\ Len(Tail(s)) = Len(s) - 1 /\ DOMAIN Tail(s) = 1 .. Len(s) - 1
         /\ DOMAIN s = 1 .. Len(s) /\ Len(s) \in Nat \ {0}
         /\ Head(s) = s[1] /\ 1 \in DOMAIN s /\ s[1] \in S
         /\ \A i \in DOMAIN Tail(s) : i + 1 \in DOMAIN s /\ Tail(s)[i] = s[i + 1]
         /\ \A i \in DOMAIN s : i # 1 => i - 1 \in DOMAIN Tail(s) /\ Tail(s)[i - 1] = s[i]
  <1>1. /\ Tail(s) \in Seq(S) /\ Len(Tail(s)) = Len(s) - 1
        /\ \A i \in 1 .. Len(Tail(s)) : Tail(s)[i] = s[i + 1]
    BY HeadTailProperties
  <1>2. DOMAIN s = 1 .. Len(s) /\ Len(s) \in Nat \ {0} /\ Head(s) = s[1] /\ s[1] \in S
    OBVIOUS
  <1>3. DOMAIN Tail(s) = 1 .. Len(s) - 1
    BY <1>1
  <1>4. \A i \in 1 .. Len(s) - 1 : i + 1 \in 1 .. Len(s)
    BY <1>2
  <1>5. ASSUME NEW i \in 1 .. Len(s), i # 1
        PROVE  i - 1 \in 1 .. Len(s) - 1 /\ Tail(s)[i - 1] = s[i]
    <2>1. i - 1 \in 1 .. Len(s) - 1 /\ (i - 1) + 1 = i
      BY <1>2, <1>5
    <2> QED
      BY <1>1, <2>1
  <1>6. 1 \in DOMAIN s
    BY <1>2
  <1> QED
    BY <1>1, <1>2, <1>3, <1>4, <1>5, <1>6

LEMMA AppendIs ==
  ASSUME NEW S, NEW s \in Seq(S), NEW e \in S
  PROVE  /\ Append(s, e) \in Seq(S) /\ Len(Append(s, e)) = Len(s) + 1 /\ DOMAIN Append(s, e) = 1 .. Len(s) + 1
         /\ DOMAIN s = 1 .. Len(s) /\ Len(s) \in Nat /\ Len(s) + 1 \in DOMAIN Append(s, e)
         /\ Append(s, e)[Len(s) + 1] = e
         /\ \A i \in DOMAIN s : i \in DOMAIN Append(s, e) /\ Append(s, e)[i] = s[i] /\ i < Len(s) + 1
         /\ \A i \in DOMAIN Append(s, e) : i \in DOMAIN s \/ i = Len(s) + 1
  OBVIOUS

\* The steps of Retained up to place n.
Filters(left, entries, keep, n) ==
  left = [i \in 0 .. n |-> IF i = 0 THEN << >>
                           ELSE IF i \in keep THEN Append(left[i - 1], entries[i]) ELSE left[i - 1]]

LEMMA FilterExists ==
  ASSUME NEW entries, NEW keep, NEW n \in Nat
  PROVE  \E left : Filters(left, entries, keep, n)
  <1> DEFINE Fails == {k \in Nat : ~ \E left : Filters(left, entries, keep, k)}
  <1> SUFFICES ASSUME Fails # {} PROVE FALSE
    OBVIOUS
  <1>1. PICK k \in Fails : \A j \in Fails : k <= j
    BY Smallest
  <1>2. k # 0
    <2>1. Filters([i \in 0 .. 0 |-> << >>], entries, keep, 0)
      BY DEF Filters
    <2> QED
      BY <2>1
  <1>3. k - 1 \in Nat /\ k - 1 \notin Fails
    BY <1>1, <1>2
  <1>4. PICK f : Filters(f, entries, keep, k - 1)
    BY <1>3
  <1> DEFINE last == IF k \in keep THEN Append(f[k - 1], entries[k]) ELSE f[k - 1]
             g == [i \in 0 .. k |-> IF i = k THEN last ELSE f[i]]
  <1>5. Filters(g, entries, keep, k)
    <2>1. g[0] = << >> /\ g[k] = last /\ g[k - 1] = f[k - 1]
      BY <1>2, <1>3, <1>4 DEF Filters
    <2>2. ASSUME NEW i \in 0 .. k, i # 0, i # k
          PROVE  /\ g[i] = f[i] /\ g[i - 1] = f[i - 1]
                 /\ f[i] = IF i \in keep THEN Append(f[i - 1], entries[i]) ELSE f[i - 1]
      <3>1. i \in 0 .. k - 1 /\ i - 1 \in 0 .. k - 1 /\ i - 1 \in 0 .. k /\ i - 1 # k
        BY <1>3, <2>2
      <3>2. f[i] = IF i \in keep THEN Append(f[i - 1], entries[i]) ELSE f[i - 1]
        BY <1>4, <2>2, <3>1 DEF Filters
      <3> HIDE DEF last
      <3> QED
        BY <2>2, <3>1, <3>2
    <2> HIDE DEF last
    <2>3. g = [i \in 0 .. k |-> g[i]]
      OBVIOUS
    <2> HIDE DEF g
    <2>4. ASSUME NEW i \in 0 .. k
          PROVE  g[i] = IF i = 0 THEN << >>
                        ELSE IF i \in keep THEN Append(g[i - 1], entries[i]) ELSE g[i - 1]
      BY <1>2, <2>1, <2>2 DEF last
    <2> QED
      BY <2>3, <2>4 DEF Filters
  <1> QED
    BY <1>1, <1>5

\* Retained goes through those steps.
LEMMA RetainedFilters ==
  ASSUME NEW entries, Len(entries) \in Nat, NEW keep
  PROVE  \E left : Filters(left, entries, keep, Len(entries)) /\ Retained(entries, keep) = left[Len(entries)]
  <1> DEFINE left == CHOOSE f : Filters(f, entries, keep, Len(entries))
  <1>1. Filters(left, entries, keep, Len(entries))
    BY FilterExists
  <1>2. Retained(entries, keep) = left[Len(entries)]
    BY DEF Retained, Filters
  <1> QED
    BY <1>1, <1>2
-----------------------------------------------------------------------------
\* Where each entry that is left was among the first n, in the same order; and
\* every place that is kept is one of these.
Places(place, left, entries, keep, n) ==
  /\ place \in [DOMAIN left -> 1 .. n]
  /\ \A j \in DOMAIN left : place[j] \in keep /\ left[j] = entries[place[j]]
  /\ \A j, k \in DOMAIN left : j < k => place[j] < place[k]
  /\ \A i \in 1 .. n : i \in keep => \E j \in DOMAIN left : place[j] = i

LEMMA PlacesOneMore ==
  ASSUME NEW S, NEW entries, NEW keep, NEW n \in Nat \ {0}, NEW before \in Seq(S), NEW place,
         entries[n] \in S, Places(place, before, entries, keep, n - 1), n \in keep
  PROVE  /\ Append(before, entries[n]) \in Seq(S)
         /\ \E p : Places(p, Append(before, entries[n]), entries, keep, n)
  <1> DEFINE len == Len(before)
             after == Append(before, entries[n])
             q == [j \in 1 .. len + 1 |-> IF j = len + 1 THEN n ELSE place[j]]
  <1>1. /\ after \in Seq(S) /\ DOMAIN after = 1 .. len + 1 /\ DOMAIN before = 1 .. len /\ len \in Nat
        /\ \A j \in 1 .. len : after[j] = before[j]
        /\ after[len + 1] = entries[n]
    OBVIOUS
  <1>2. /\ place \in [1 .. len -> 1 .. n - 1]
        /\ \A j \in 1 .. len : place[j] \in keep /\ before[j] = entries[place[j]]
        /\ \A j, k \in 1 .. len : j < k => place[j] < place[k]
        /\ \A i \in 1 .. n - 1 : i \in keep => \E j \in 1 .. len : place[j] = i
    BY <1>1 DEF Places
  <1> HIDE DEF after, len
  <1>3. ASSUME NEW j \in 1 .. len PROVE q[j] = place[j] /\ q[j] \in 1 .. n - 1 /\ j \in 1 .. len + 1 /\ j # len + 1
    BY <1>1, <1>2
  <1>4. q[len + 1] = n /\ len + 1 \in 1 .. len + 1
    BY <1>1
  <1>5. \A j \in 1 .. len + 1 : j = len + 1 \/ j \in 1 .. len
    BY <1>1
  <1>6. q \in [1 .. len + 1 -> 1 .. n]
    <2>1. 1 .. n - 1 \subseteq 1 .. n /\ n \in 1 .. n
      OBVIOUS
    <2>2. \A j \in 1 .. len + 1 : q[j] \in 1 .. n
      BY <1>3, <1>4, <1>5, <2>1
    <2> QED
      BY <2>2
  <1> HIDE DEF q
  <1>7. \A j \in 1 .. len + 1 : q[j] \in keep /\ after[j] = entries[q[j]]
    BY <1>1, <1>2, <1>3, <1>4, <1>5
  <1>8. ASSUME NEW j \in 1 .. len + 1, NEW k \in 1 .. len + 1, j < k PROVE q[j] < q[k]
    <2>1. j \in 1 .. len
      BY <1>1, <1>8
    <2>2. CASE k \in 1 .. len
      BY <1>2, <1>3, <1>8, <2>1, <2>2
    <2>3. CASE k = len + 1
      <3>1. q[j] \in 1 .. n - 1
        BY <1>3, <2>1
      <3> QED
        BY <1>4, <2>3, <3>1
    <2> QED
      BY <1>5, <2>2, <2>3
  <1>9. ASSUME NEW i \in 1 .. n, i \in keep PROVE \E j \in 1 .. len + 1 : q[j] = i
    <2>1. CASE i = n
      BY <1>4, <2>1
    <2>2. CASE i \in 1 .. n - 1
      BY <1>2, <1>3, <1>9, <2>2
    <2> QED
      BY <2>1, <2>2
  <1>10. Places(q, after, entries, keep, n)
    BY <1>1, <1>6, <1>7, <1>8, <1>9 DEF Places
  <1> QED
    BY <1>1, <1>10 DEF after

LEMMA RetainedPlaces ==
  ASSUME NEW S, NEW entries \in Seq(S), NEW keep
  PROVE  /\ Retained(entries, keep) \in Seq(S)
         /\ \E place : Places(place, Retained(entries, keep), entries, keep, Len(entries))
  <1> DEFINE len == Len(entries)
  <1>1. len \in Nat /\ DOMAIN entries = 1 .. len /\ \A i \in 1 .. len : entries[i] \in S
    OBVIOUS
  <1> HIDE DEF len
  <1>2. PICK left : Filters(left, entries, keep, len) /\ Retained(entries, keep) = left[len]
    BY <1>1, RetainedFilters DEF len
  <1> DEFINE Right(n) == left[n] \in Seq(S) /\ \E place : Places(place, left[n], entries, keep, n)
             Fails == {n \in 0 .. len : ~Right(n)}
  <1>3. ASSUME Fails # {} PROVE FALSE
    <2>0. Fails \in SUBSET Nat
      BY <1>1
    <2>1. PICK n \in Fails : \A k \in Fails : n <= k
      BY <1>3, <2>0, Smallest
    <2>2. n # 0
      <3>1. left[0] = << >>
        BY <1>1, <1>2 DEF Filters
      <3>2. Places([j \in {} |-> 0], << >>, entries, keep, 0)
        BY DEF Places
      <3>3. Right(0)
        BY <3>1, <3>2
      <3> QED
        BY <3>3
    <2>3. /\ n - 1 \in 0 .. len /\ n - 1 \in Nat /\ n \in Nat \ {0} /\ n \in 1 .. len /\ n - 1 \notin Fails
      <3>1. n \in 0 .. len /\ n - 1 \in 0 .. len /\ n - 1 < n
        BY <1>1, <2>1, <2>2
      <3>2. n - 1 \notin Fails
        BY <2>1, <3>1
      <3> QED
        BY <2>2, <3>1, <3>2
    <2>4. Right(n - 1)
      BY <2>3
    <2>5. left[n] = IF n \in keep THEN Append(left[n - 1], entries[n]) ELSE left[n - 1]
      BY <1>2, <2>2, <2>3 DEF Filters
    <2>6. entries[n] \in S
      BY <1>1, <2>3
    <2>7. PICK place : Places(place, left[n - 1], entries, keep, n - 1)
      BY <2>4
    <2>8. CASE n \notin keep
      <3>1. left[n] = left[n - 1]
        BY <2>5, <2>8
      <3>2. Places(place, left[n - 1], entries, keep, n)
        <4>1. \A i \in 1 .. n : i \in 1 .. n - 1 \/ i = n
          BY <2>3
        <4>2. 1 .. n - 1 \subseteq 1 .. n
          BY <2>3
        <4> QED
          BY <2>7, <2>8, <4>1, <4>2 DEF Places
      <3> QED
        BY <2>1, <2>4, <3>1, <3>2
    <2>9. CASE n \in keep
      <3>1. left[n] = Append(left[n - 1], entries[n])
        BY <2>5, <2>9
      <3> DEFINE before == left[n - 1]
      <3>2. before \in Seq(S) /\ Places(place, before, entries, keep, n - 1)
        BY <2>4, <2>7
      <3> HIDE DEF before
      <3>3. Append(before, entries[n]) \in Seq(S) /\ \E p : Places(p, Append(before, entries[n]), entries, keep, n)
        BY <2>3, <2>6, <2>9, <3>2, PlacesOneMore
      <3> QED
        BY <2>1, <3>1, <3>3 DEF before
    <2> QED
      BY <2>8, <2>9
  <1>4. Right(len)
    BY <1>1, <1>3
  <1> QED
    BY <1>2, <1>4 DEF len

\* What is left are the entries that are kept, and as many.
LEMMA RetainedIs ==
  ASSUME NEW S, NEW entries \in Seq(S), NEW keep
  PROVE  LET left == Retained(entries, keep)
         IN  /\ left \in Seq(S)
             /\ \A j \in DOMAIN left : \E i \in DOMAIN entries : i \in keep /\ left[j] = entries[i]
             /\ \A i \in DOMAIN entries : i \in keep => \E j \in DOMAIN left : left[j] = entries[i]
  <1> DEFINE left == Retained(entries, keep)
  <1>1. left \in Seq(S) /\ DOMAIN entries = 1 .. Len(entries)
    BY RetainedPlaces
  <1>2. PICK place : Places(place, left, entries, keep, Len(entries))
    BY RetainedPlaces
  <1> HIDE DEF left
  <1>3. \A j \in DOMAIN left : \E i \in DOMAIN entries : i \in keep /\ left[j] = entries[i]
    BY <1>1, <1>2 DEF Places
  <1>4. \A i \in DOMAIN entries : i \in keep => \E j \in DOMAIN left : left[j] = entries[i]
    BY <1>1, <1>2 DEF Places
  <1> QED
    BY <1>1, <1>3, <1>4 DEF left

LEMMA RetainedLength ==
  ASSUME NEW S, NEW entries \in Seq(S), NEW keep
  PROVE  /\ IsFiniteSet(keep \cap DOMAIN entries)
         /\ Len(Retained(entries, keep)) = Cardinality(keep \cap DOMAIN entries)
         /\ Len(Retained(entries, keep)) <= Len(entries)
         /\ Retained(entries, keep) = entries => \A i \in DOMAIN entries : i \in keep
  <1> DEFINE left == Retained(entries, keep)
             kept == keep \cap DOMAIN entries
  <1>1. left \in Seq(S) /\ DOMAIN entries = 1 .. Len(entries) /\ Len(entries) \in Nat
    BY RetainedPlaces
  <1>2. PICK place : Places(place, left, entries, keep, Len(entries))
    BY RetainedPlaces
  <1> HIDE DEF left
  <1>3. DOMAIN left = 1 .. Len(left) /\ Len(left) \in Nat
    BY <1>1
  <1>4. ASSUME NEW j \in DOMAIN left, NEW k \in DOMAIN left, j # k PROVE place[j] # place[k]
    <2>1. j < k \/ k < j
      BY <1>3, <1>4
    <2>2. place[j] \in Int /\ place[k] \in Int /\ (place[j] < place[k] \/ place[k] < place[j])
      BY <1>1, <1>2, <2>1 DEF Places
    <2> QED
      BY <2>2
  <1>5. place \in Bijection(1 .. Len(left), kept)
    <2>1. place \in [1 .. Len(left) -> kept]
      BY <1>1, <1>2, <1>3 DEF Places
    <2>2. \A i \in kept : \E j \in 1 .. Len(left) : place[j] = i
      BY <1>1, <1>2, <1>3 DEF Places
    <2> HIDE DEF kept
    <2>3. \A i, j \in 1 .. Len(left) : place[i] = place[j] => i = j
      BY <1>3, <1>4
    <2> QED
      BY <2>1, <2>2, <2>3 DEF Bijection, Injection, Surjection, IsInjective
  <1>6. IsFiniteSet(1 .. Len(left)) /\ Cardinality(1 .. Len(left)) = Len(left)
    BY <1>3, UpTo
  <1>7. IsFiniteSet(kept) /\ Cardinality(kept) = Len(left)
    <2>1. ExistsBijection(1 .. Len(left), kept)
      BY <1>5, Zenon DEF ExistsBijection
    <2> QED
      BY <1>6, <2>1, FS_Bijection
  <1>8. IsFiniteSet(1 .. Len(entries)) /\ Cardinality(1 .. Len(entries)) = Len(entries)
    BY <1>1, UpTo
  <1>9. /\ Cardinality(kept) <= Cardinality(1 .. Len(entries))
        /\ Cardinality(1 .. Len(entries)) = Cardinality(kept) => 1 .. Len(entries) = kept
    BY <1>1, <1>8, FS_Subset
  <1>10. left = entries => \A i \in DOMAIN entries : i \in keep
    BY <1>1, <1>7, <1>8, <1>9
  <1> QED
    BY <1>7, <1>8, <1>9, <1>10 DEF left

\* Two entries that are left were two entries before.
LEMMA RetainedApart ==
  ASSUME NEW S, NEW entries \in Seq(S), NEW keep
  PROVE  LET left == Retained(entries, keep)
         IN  \A j, k \in DOMAIN left :
               j # k => \E h, i \in DOMAIN entries : h # i /\ left[j] = entries[h] /\ left[k] = entries[i]
  <1> DEFINE left == Retained(entries, keep)
  <1>1. left \in Seq(S) /\ DOMAIN entries = 1 .. Len(entries)
    BY RetainedPlaces
  <1>2. PICK place : Places(place, left, entries, keep, Len(entries))
    BY RetainedPlaces
  <1> HIDE DEF left
  <1>3. ASSUME NEW j \in DOMAIN left, NEW k \in DOMAIN left, j # k
        PROVE  \E h, i \in DOMAIN entries : h # i /\ left[j] = entries[h] /\ left[k] = entries[i]
    <2>1. place[j] \in 1 .. Len(entries) /\ place[k] \in 1 .. Len(entries)
      BY <1>2 DEF Places
    <2>2. left[j] = entries[place[j]] /\ left[k] = entries[place[k]]
      BY <1>2 DEF Places
    <2>3. j < k \/ k < j
      BY <1>1, <1>3
    <2>4. place[j] < place[k] \/ place[k] < place[j]
      BY <1>2, <2>3 DEF Places
    <2>5. place[j] # place[k]
      BY <2>1, <2>4
    <2> QED
      BY <1>1, <2>1, <2>2, <2>5
  <1> QED
    BY <1>3 DEF left
=============================================================================
