------------------------ MODULE UpdateSegmentProofs ------------------------
(***************************************************************************)
(* Theorems about UpdateSegment, for any number of rows, transactions and  *)
(* updates: every entry of a chain belongs to a transaction that somebody  *)
(* may still read around (ChainsAreReleased), and what a transaction reads *)
(* of a segment is not changed by anything another one does                *)
(* (ScansAreStable).                                                       *)
(***************************************************************************)
EXTENDS UpdateSegment, FiniteSetTheorems, WellFoundedInduction, TLAPS

-----------------------------------------------------------------------------
(* Unlinking entries                                                       *)

\* A set of naturals that is not empty has a least element, which is what the inductions
\* below rest on: the least number without the property.
LEMMA NatMin == ASSUME NEW T, T \subseteq Nat, T # {} PROVE \E n \in T : \A m \in T : n <= m
<1> DEFINE R == {ss \in Nat \X Nat : ss[1] < ss[2]}
<1>1. IsWellFoundedOn(R, Nat)
  BY NatLessThanWellFounded DEF OpToRel
<1>2. PICK n \in T : \A y \in T : ~(<<y, n>> \in R)
  <2> HIDE DEF R
  <2> QED BY <1>1, WFMin
<1>3. \A y \in T : ~(y < n)
  BY <1>2 
<1> QED BY <1>3

\* f is the recursive function of Unlinked up to n.
Keeps(f, chain, gone, n) ==
    f = [m \in 0..n |-> IF m = 0 THEN <<>>
                        ELSE IF chain[m].owner \in gone THEN f[m - 1] ELSE Append(f[m - 1], chain[m])]

\* The recursion of Unlinked defines a function.
LEMMA KeepsExists ==
    ASSUME NEW chain, NEW gone, NEW n \in Nat
    PROVE  \E f : Keeps(f, chain, gone, n)
<1> DEFINE T == {m \in Nat : ~\E f : Keeps(f, chain, gone, m)}
<1> SUFFICES ASSUME T # {} PROVE FALSE
  OBVIOUS
<1>1. PICK m \in T : \A k \in T : m <= k
  BY NatMin
<1>2. Keeps([k \in 0..0 |-> <<>>], chain, gone, 0)
  BY DEF Keeps
<1>3. m # 0
  BY <1>2
<1>4. m - 1 \in Nat /\ m - 1 \notin T
  BY <1>1, <1>3
<1>5. PICK f : Keeps(f, chain, gone, m - 1)
  BY <1>4
<1> DEFINE g == [k \in 0..m |-> IF k = m THEN IF chain[m].owner \in gone THEN f[m - 1] ELSE Append(f[m - 1], chain[m])
                               ELSE f[k]]
<1>6. \A k \in 0..(m - 1) : f[k] = IF k = 0 THEN <<>>
                        ELSE IF chain[k].owner \in gone THEN f[k - 1] ELSE Append(f[k - 1], chain[k])
  BY <1>5 DEF Keeps
<1>7. g[m] = IF chain[m].owner \in gone THEN g[m - 1] ELSE Append(g[m - 1], chain[m])
  BY <1>3, <1>4
<1>8. \A k \in 0..(m - 1) : g[k] = IF k = 0 THEN <<>>
                        ELSE IF chain[k].owner \in gone THEN g[k - 1] ELSE Append(g[k - 1], chain[k])
  BY <1>3, <1>4, <1>6
<1>9. \A k \in 0..m : g[k] = IF k = 0 THEN <<>>
                        ELSE IF chain[k].owner \in gone THEN g[k - 1] ELSE Append(g[k - 1], chain[k])
  <2> TAKE k \in 0..m
  <2>1. CASE k = m BY <2>1, <1>7, <1>3
  <2>2. CASE k # m 
    <3>1. k \in 0..(m - 1) BY <2>2, <1>4
    <3> QED BY <3>1, <1>8
  <2> QED BY <2>1, <2>2
<1>10. Keeps(g, chain, gone, m)
  <2>1. g = [k \in 0..m |-> g[k]]
    OBVIOUS
  <2> HIDE DEF g
  <2> QED BY <2>1, <1>9 DEF Keeps
<1> QED BY <1>10

\* Unlinked is that function at the end of the chain.
LEMMA UnlinkedIs ==
    ASSUME NEW S, NEW chain \in Seq(S), NEW gone
    PROVE  \E f : Keeps(f, chain, gone, Len(chain)) /\ Unlinked(chain, gone) = f[Len(chain)]
<1>1. Len(chain) \in Nat
  OBVIOUS
<1> DEFINE k == CHOOSE f : Keeps(f, chain, gone, Len(chain))
<1>2. Keeps(k, chain, gone, Len(chain))
  BY <1>1, KeepsExists
<1>3. Unlinked(chain, gone) = k[Len(chain)]
  BY DEF Unlinked, Keeps
<1> QED BY <1>2, <1>3

\* The chain new is the chain old without some of its entries, which e finds in it.
Thins(e, new, old) ==
    /\ e \in [1..Len(new) -> 1..Len(old)]
    /\ \A i, j \in 1..Len(new) : i < j => e[i] < e[j]

\* Unlinked keeps exactly the entries of the other transactions, in their order.
LEMMA UnlinkedThins ==
    ASSUME NEW S, NEW chain \in Seq(S), NEW gone
    PROVE  /\ Unlinked(chain, gone) \in Seq(S)
           /\ \E e :
                /\ Thins(e, Unlinked(chain, gone), chain)
                /\ \A i \in 1..Len(Unlinked(chain, gone)) :
                      /\ Unlinked(chain, gone)[i] = chain[e[i]]
                      /\ chain[e[i]].owner \notin gone
                /\ \A j \in 1..Len(chain) :
                      chain[j].owner \notin gone => \E i \in 1..Len(Unlinked(chain, gone)) : e[i] = j
<1>1. PICK f : Keeps(f, chain, gone, Len(chain)) /\ Unlinked(chain, gone) = f[Len(chain)]
  BY UnlinkedIs
<1>2. \A n \in 0..Len(chain) : f[n] = IF n = 0 THEN <<>>
                        ELSE IF chain[n].owner \in gone THEN f[n - 1] ELSE Append(f[n - 1], chain[n])
  BY <1>1 DEF Keeps
<1> DEFINE Fits(e, n) ==
             /\ f[n] \in Seq(S)
             /\ e \in [1..Len(f[n]) -> 1..n]
             /\ \A i, j \in 1..Len(f[n]) : i < j => e[i] < e[j]
             /\ \A i \in 1..Len(f[n]) : f[n][i] = chain[e[i]] /\ chain[e[i]].owner \notin gone
             /\ \A j \in 1..n : chain[j].owner \notin gone => \E i \in 1..Len(f[n]) : e[i] = j
           T == {n \in 0..Len(chain) : ~\E e : Fits(e, n)}
<1>3. T = {}
  <2> SUFFICES ASSUME T # {} PROVE FALSE
    OBVIOUS
  <2>1. PICK m : m \in T /\ \A k \in T : m <= k
    <3>1. T \subseteq Nat
      OBVIOUS
    <3> QED BY <3>1, NatMin
  <2>2. m \in 0..Len(chain) /\ ~(\E e : Fits(e, m))
    BY <2>1
  <2>3. m # 0
    <3>1. SUFFICES ASSUME m = 0 PROVE FALSE
      OBVIOUS
    <3>2. f[0] = <<>>
      BY <1>2
    <3>3. Fits([i \in {} |-> 0], 0)
      BY <3>2
    <3> QED BY <3>1, <3>3, <2>2
  <2>4. m \in 1..Len(chain) /\ m - 1 \in 0..Len(chain) /\ m - 1 \notin T
    <3> HIDE DEF T, Fits
    <3> QED BY <2>1, <2>2, <2>3
  <2>5. PICK e : Fits(e, m - 1)
    BY <2>4
  <2> HIDE DEF T
  <2>6. CASE chain[m].owner \in gone
    <3>1. f[m] = f[m - 1]
      BY <1>2, <2>4, <2>6
    <3>2. Fits(e, m)
      BY <3>1, <2>4, <2>5, <2>6
    <3> QED BY <3>2, <2>2
  <2>7. CASE chain[m].owner \notin gone
    <3>1. f[m] = Append(f[m - 1], chain[m])
      <4> HIDE DEF Fits
      <4>1. m \in 0..Len(chain) /\ m # 0
        BY <2>4
      <4> QED BY <4>1, <1>2, <2>7
    <3>2. f[m - 1] \in Seq(S) /\ chain[m] \in S
      BY <2>4, <2>5
    <3> DEFINE L == Len(f[m - 1])
               g == [i \in 1..(L + 1) |-> IF i = L + 1 THEN m ELSE e[i]]
    <3>3. L \in Nat /\ f[m] \in Seq(S) /\ Len(f[m]) = L + 1
          /\ f[m][L + 1] = chain[m] /\ \A i \in 1..L : f[m][i] = f[m - 1][i]
      BY <3>1, <3>2
    <3>4. /\ e \in [1..L -> 1..(m - 1)]
          /\ \A i, j \in 1..L : i < j => e[i] < e[j]
          /\ \A i \in 1..L : f[m - 1][i] = chain[e[i]] /\ chain[e[i]].owner \notin gone
          /\ \A j \in 1..(m - 1) : chain[j].owner \notin gone => \E i \in 1..L : e[i] = j
      BY <2>5
    <3>5. m \in Nat \ {0}
      BY <2>4
    <3> HIDE DEF L, Fits
    <3>6. \A i \in 1..(L + 1) : g[i] \in 1..m /\ (i # L + 1 => i \in 1..L /\ g[i] = e[i] /\ g[i] < m)
      BY <3>3, <3>4, <3>5
    <3>7. g \in [1..(L + 1) -> 1..m] /\ L + 1 \in 1..(L + 1) /\ g[L + 1] = m
      BY <3>6, <3>3
    <3> HIDE DEF g
    <3>8. \A i, j \in 1..(L + 1) : i < j => g[i] < g[j]
      <4> TAKE i, j \in 1..(L + 1)
      <4> HAVE i < j
      <4>1. i # L + 1
        BY <3>3
      <4>2. CASE j = L + 1
        BY <4>1, <4>2, <3>6, <3>7
      <4>3. CASE j # L + 1
        BY <4>1, <4>3, <3>6, <3>4
      <4> QED BY <4>2, <4>3
    <3>9. \A i \in 1..(L + 1) : f[m][i] = chain[g[i]] /\ chain[g[i]].owner \notin gone
      <4> TAKE i \in 1..(L + 1)
      <4>1. CASE i = L + 1
        BY <4>1, <3>3, <3>7, <2>7
      <4>2. CASE i # L + 1
        BY <4>2, <3>3, <3>4, <3>6
      <4> QED BY <4>1, <4>2
    <3>10. ASSUME NEW j \in 1..m, chain[j].owner \notin gone PROVE \E i \in 1..(L + 1) : g[i] = j
      <4>1. CASE j = m
        BY <4>1, <3>7
      <4>2. CASE j # m
        <5>1. j \in 1..(m - 1)
          BY <4>2, <3>5
        <5>2. PICK i \in 1..L : e[i] = j
          BY <5>1, <3>10, <3>4
        <5>3. i \in 1..(L + 1) /\ i # L + 1
          BY <3>3
        <5> QED BY <5>2, <5>3, <3>6
      <4> QED BY <4>1, <4>2
    <3>11. Fits(g, m)
      BY <3>3, <3>7, <3>8, <3>9, <3>10 DEF Fits
    <3> QED BY <3>11, <2>2
  <2> QED BY <2>6, <2>7
<1>4. PICK e : Fits(e, Len(chain))
  <2>1. Len(chain) \in 0..Len(chain)
    OBVIOUS
  <2> QED BY <2>1, <1>3
<1> QED BY <1>1, <1>4 DEF Thins
-----------------------------------------------------------------------------
(* What a reader finds in a chain                                          *)

\* A reader with this start and id takes the old value of row r from entry n.
Applies(n, r, start, id) == UpdatesForTransaction(n, start, id) /\ r \in DOMAIN n.old
Applied(c, r, start, id) == {i \in 1..Len(c) : Applies(c[i], r, start, id)}

Base(latest, stored, r) == IF r \in DOMAIN latest THEN latest[r] ELSE stored

\* What the reader finds of row r in a segment that stores the given value.
Shown(i, stored, r, start, id) ==
    IF Applied(i.chain, r, start, id) = {} THEN Base(i.latest, stored, r)
    ELSE i.chain[Max(Applied(i.chain, r, start, id))].old[r]

\* Entry a of chain c is the last that applies.
IsLast(a, c, r, start, id) ==
    /\ Len(c) \in Nat
    /\ a \in Applied(c, r, start, id)
    /\ \A b \in Applied(c, r, start, id) : b <= a

\* A set of numbers up to n that is not empty has a greatest element, which Max returns.
LEMMA MaxIs ==
    ASSUME NEW n \in Nat, NEW A \in SUBSET (1..n), A # {}
    PROVE  Max(A) \in A /\ \A x \in A : x <= Max(A)
<1> DEFINE B == {m \in Nat : \A x \in A : x <= m}
<1>1. n \in B
  OBVIOUS
<1>2. PICK m : m \in B /\ \A k \in B : m <= k
  <2>1. B \subseteq Nat /\ B # {}
    BY <1>1
  <2> QED BY <2>1, NatMin
<1>3. m \in Nat /\ \A x \in A : x <= m
  BY <1>2
<1>4. m \in A
  <2> SUFFICES ASSUME m \notin A PROVE FALSE
    OBVIOUS
  <2>1. \A x \in A : x \in 1..n /\ x < m
    BY <1>3
  <2>2. m - 1 \in Nat /\ \A x \in A : x <= m - 1
    <3>1. PICK x : x \in A
      OBVIOUS
    <3>2. x \in 1..n /\ x < m
      BY <3>1, <2>1
    <3>3. m - 1 \in Nat
      BY <3>2, <1>3
    <3> QED BY <3>3, <2>1, <1>3
  <2>3. m - 1 \in B
    BY <2>2
  <2> QED BY <2>3, <1>2, <1>3
<1>5. \E x \in A : \A y \in A : x >= y
  BY <1>3, <1>4
<1> HIDE DEF B
<1> QED BY <1>5 DEF Max

\* The greatest applied entry has the last word.
LEMMA LastIsMax ==
    ASSUME NEW c, NEW r, NEW start, NEW id, NEW a, IsLast(a, c, r, start, id)
    PROVE  Applied(c, r, start, id) # {} /\ Max(Applied(c, r, start, id)) = a
<1> DEFINE A == Applied(c, r, start, id)
<1>1. Len(c) \in Nat /\ A \in SUBSET (1..Len(c)) /\ A # {}
  BY DEF Applied, IsLast
<1>2. a \in A /\ \A b \in A : b <= a
  BY DEF IsLast
<1> HIDE DEF A
<1>3. Max(A) \in A /\ \A x \in A : x <= Max(A)
  BY <1>1, MaxIs
<1>4. Max(A) = a
  <2>1. a \in 1..Len(c) /\ Max(A) \in 1..Len(c) /\ Max(A) <= a /\ a <= Max(A)
    BY <1>1, <1>2, <1>3
  <2> QED BY <2>1, <1>1
<1> QED BY <1>1, <1>4 DEF A

\* The readers of a chain and of what is left of it find the same, if the entries that are
\* gone do not apply and the others apply as before.
Thinned(i, k, e, stored, r, start, id) ==
    /\ Len(i.chain) \in Nat /\ Len(k.chain) \in Nat
    /\ Thins(e, k.chain, i.chain)
    /\ \A n \in 1..Len(k.chain) :
          /\ k.chain[n].old = i.chain[e[n]].old
          /\ Applies(k.chain[n], r, start, id) <=> Applies(i.chain[e[n]], r, start, id)
    /\ \A m \in 1..Len(i.chain) :
          Applies(i.chain[m], r, start, id) => \E n \in 1..Len(k.chain) : e[n] = m
    /\ Base(k.latest, stored, r) = Base(i.latest, stored, r)

LEMMA ShownThin ==
    ASSUME NEW i, NEW k, NEW e, NEW stored, NEW r, NEW start, NEW id, Thinned(i, k, e, stored, r, start, id)
    PROVE  Shown(k, stored, r, start, id) = Shown(i, stored, r, start, id)
<1> USE DEF Thinned
<1> DEFINE A == Applied(i.chain, r, start, id)
           B == Applied(k.chain, r, start, id)
<1>1. \A n \in 1..Len(k.chain) : e[n] \in 1..Len(i.chain)
  BY DEF Thins
<1>2. \A n \in B : e[n] \in A
  BY <1>1 DEF Applied
<1>3. \A m \in A : \E n \in B : e[n] = m
  BY DEF Applied
<1>4. CASE A = {}
  <2>1. B = {}
    BY <1>2, <1>4
  <2> QED BY <1>4, <2>1 DEF Shown
<1>5. CASE A # {}
  <2>1. Len(i.chain) \in Nat /\ A \in SUBSET (1..Len(i.chain)) /\ B \in SUBSET (1..Len(k.chain)) /\ Len(k.chain) \in Nat
    BY DEF Applied
  <2>2. PICK a \in A : \A x \in A : x <= a
    <3> HIDE DEF A
    <3> QED BY <1>5, <2>1, MaxIs
  <2>3. PICK b \in B : e[b] = a
    BY <1>3
  <2>4. \A x \in B : x <= b
    <3> TAKE x \in B
    <3>1. e[x] \in A
      BY <1>2
    <3>2. x \in 1..Len(k.chain) /\ b \in 1..Len(k.chain) /\ e[x] \in 1..Len(i.chain) /\ a \in 1..Len(i.chain) /\ Len(k.chain) \in Nat /\ Len(i.chain) \in Nat
      BY <2>1, <3>1
    <3>3. e[x] <= e[b]
      BY <3>1, <2>2, <2>3
    <3>4. ~(b < x)
      <4>1. b < x => e[b] < e[x]
        BY <3>2 DEF Thins
      <4> HIDE DEF A, B
      <4> QED BY <4>1, <3>3, <3>2, <2>3
    <3> HIDE DEF A, B
    <3> QED BY <3>2, <3>4
  <2>5. IsLast(b, k.chain, r, start, id) /\ IsLast(a, i.chain, r, start, id)
    BY <2>1, <2>2, <2>4 DEF IsLast
  <2>6. /\ Shown(k, stored, r, start, id) = k.chain[b].old[r]
        /\ Shown(i, stored, r, start, id) = i.chain[a].old[r]
    BY ONLY <2>5, LastIsMax DEF Shown
  <2>7. b \in 1..Len(k.chain)
    BY <2>1
  <2> QED BY <2>3, <2>6, <2>7
<1> QED BY <1>4, <1>5

-----------------------------------------------------------------------------
(* Readers while the chain changes                                         *)

\* Of a chain that applies entries the reader has a last one, and without one the base.
LEMMA ShownCases ==
    ASSUME NEW i, Len(i.chain) \in Nat, NEW stored, NEW r, NEW start, NEW id
    PROVE  \/ /\ Applied(i.chain, r, start, id) = {}
              /\ Shown(i, stored, r, start, id) = Base(i.latest, stored, r)
           \/ \E a : IsLast(a, i.chain, r, start, id)
<1>1. CASE Applied(i.chain, r, start, id) = {}
  BY <1>1 DEF Shown
<1>2. CASE Applied(i.chain, r, start, id) # {}
  <2> DEFINE A == Applied(i.chain, r, start, id)
  <2>1. A \in SUBSET (1..Len(i.chain))
    BY DEF Applied
  <2>2. Max(A) \in A /\ \A x \in A : x <= Max(A)
    <3> HIDE DEF A
    <3>1. A # {}
      BY <1>2 DEF A
    <3> QED BY <2>1, <3>1, MaxIs
  <2> QED BY <2>2 DEF IsLast
<1> QED BY <1>1, <1>2

\* The chain of k is that of i with entry n in front.
Pushed(i, k, n) ==
    /\ Len(k.chain) = Len(i.chain) + 1
    /\ k.chain[1] = n
    /\ \A m \in 1..Len(i.chain) : k.chain[m + 1] = i.chain[m]

\* A new entry at the front of the chain, which keeps what the reader found and applies.
LEMMA ShownPush ==
    ASSUME NEW i, NEW k, Len(i.chain) \in Nat, NEW n, Pushed(i, k, n),
           NEW stored, NEW r, NEW start, NEW id,
           UpdatesForTransaction(n, start, id),
           r \in DOMAIN n.old => n.old[r] = Base(i.latest, stored, r),
           r \notin DOMAIN n.old => Base(k.latest, stored, r) = Base(i.latest, stored, r)
    PROVE  Shown(k, stored, r, start, id) = Shown(i, stored, r, start, id)
<1> USE DEF Pushed
<1> DEFINE A == Applied(i.chain, r, start, id)
           B == Applied(k.chain, r, start, id)
<1>1. \A m \in 1..Len(i.chain) : m + 1 \in B <=> m \in A
  BY DEF Applied
<1>2. 1 \in B <=> r \in DOMAIN n.old
  BY DEF Applied, Applies
<1>3. A \subseteq 1..Len(i.chain) /\ B \subseteq 1..(Len(i.chain) + 1)
  BY DEF Applied
<1>4. CASE \E a : IsLast(a, i.chain, r, start, id)
  <2>1. PICK a : IsLast(a, i.chain, r, start, id)
    BY <1>4
  <2>2. a \in A /\ \A b \in A : b <= a
    BY <2>1 DEF IsLast
  <2> HIDE DEF A, B
  <2>3. a + 1 \in B
    BY <1>1, <1>3, <2>2
  <2>4. ASSUME NEW b \in B PROVE b <= a + 1
    <3>1. CASE b = 1
      BY <3>1, <2>2, <1>3
    <3>2. CASE b # 1
      <4>1. b - 1 \in 1..Len(i.chain) /\ (b - 1) + 1 = b
        BY <3>2, <1>3
      <4>2. b - 1 \in A
        BY <4>1, <1>1
      <4> QED BY <4>1, <4>2, <2>2, <1>3
    <3> QED BY <3>1, <3>2
  <2>5. IsLast(a + 1, k.chain, r, start, id)
    BY <2>3, <2>4 DEF IsLast, B
  <2>6. /\ Shown(i, stored, r, start, id) = i.chain[a].old[r]
        /\ Shown(k, stored, r, start, id) = k.chain[a + 1].old[r]
    BY ONLY <2>1, <2>5, LastIsMax DEF Shown
  <2> QED BY <2>2, <2>6, <1>3
<1>5. CASE A = {} /\ Shown(i, stored, r, start, id) = Base(i.latest, stored, r)
  <2>1. \A b \in B : b = 1
    <3> SUFFICES ASSUME NEW b \in B, b # 1 PROVE FALSE
      OBVIOUS
    <3> HIDE DEF A, B
    <3>1. b - 1 \in 1..Len(i.chain) /\ (b - 1) + 1 = b
      BY <1>3
    <3> QED BY <3>1, <1>1, <1>5
  <2>2. CASE r \in DOMAIN n.old
    <3>1. IsLast(1, k.chain, r, start, id)
      BY <2>1, <2>2, <1>2 DEF IsLast
    <3>2. Shown(k, stored, r, start, id) = k.chain[1].old[r]
      BY ONLY <3>1, LastIsMax DEF Shown
    <3> QED BY <3>2, <2>2, <1>5
  <2>3. CASE r \notin DOMAIN n.old
    <3>1. B = {}
      BY <2>1, <2>3, <1>2
    <3> QED BY <3>1, <2>3, <1>5 DEF Shown
  <2> QED BY <2>2, <2>3
<1> QED BY <1>4, <1>5, ShownCases

\* Entry p of the chain keeps more rows than before, none of which a newer entry has.
LEMMA ShownExtend ==
    ASSUME NEW i, NEW k, Len(i.chain) \in Nat, NEW p \in 1..Len(i.chain),
           Len(k.chain) = Len(i.chain),
           \A m \in 1..Len(i.chain) : m # p => k.chain[m] = i.chain[m],
           NEW stored, NEW r, NEW start, NEW id,
           UpdatesForTransaction(i.chain[p], start, id), UpdatesForTransaction(k.chain[p], start, id),
           r \in DOMAIN i.chain[p].old =>
              r \in DOMAIN k.chain[p].old /\ k.chain[p].old[r] = i.chain[p].old[r],
           r \in DOMAIN k.chain[p].old \ DOMAIN i.chain[p].old =>
              /\ k.chain[p].old[r] = Base(i.latest, stored, r)
              /\ \A m \in 1..Len(i.chain) : m < p => r \notin DOMAIN i.chain[m].old,
           r \notin DOMAIN k.chain[p].old => Base(k.latest, stored, r) = Base(i.latest, stored, r)
    PROVE  Shown(k, stored, r, start, id) = Shown(i, stored, r, start, id)
<1> DEFINE A == Applied(i.chain, r, start, id)
           B == Applied(k.chain, r, start, id)
<1>1. \A m \in 1..Len(i.chain) : m # p => (m \in B <=> m \in A)
  BY DEF Applied
<1>2. (p \in A <=> r \in DOMAIN i.chain[p].old) /\ (p \in B <=> r \in DOMAIN k.chain[p].old)
  BY DEF Applied, Applies
<1>3. A \subseteq 1..Len(i.chain) /\ B \subseteq 1..Len(i.chain)
  BY DEF Applied
<1>4. CASE r \in DOMAIN k.chain[p].old \ DOMAIN i.chain[p].old
  <2>1. \A m \in A : p < m
    <3> TAKE m \in A
    <3>1. m \in 1..Len(i.chain) /\ r \in DOMAIN i.chain[m].old
      BY DEF Applied, Applies
    <3>2. m # p /\ ~(m < p)
      BY <3>1, <1>4
    <3> QED BY <3>1, <3>2
  <2>2. CASE \E a : IsLast(a, i.chain, r, start, id)
    <3>1. PICK a : IsLast(a, i.chain, r, start, id)
      BY <2>2
    <3>2. a \in A /\ \A b \in A : b <= a
      BY <3>1 DEF IsLast
    <3> HIDE DEF A, B
    <3>3. a \in B /\ a # p
      BY <3>2, <2>1, <1>1, <1>3
    <3>4. \A b \in B : b <= a
      BY <3>2, <2>1, <1>1, <1>3
    <3>5. IsLast(a, k.chain, r, start, id)
      BY <3>3, <3>4 DEF IsLast, B
    <3>6. /\ Shown(i, stored, r, start, id) = i.chain[a].old[r]
          /\ Shown(k, stored, r, start, id) = k.chain[a].old[r]
      BY ONLY <3>1, <3>5, LastIsMax DEF Shown
    <3> QED BY <3>2, <3>3, <3>6, <1>3
  <2>3. CASE A = {} /\ Shown(i, stored, r, start, id) = Base(i.latest, stored, r)
    <3>1. p \in B
      BY <1>2, <1>4
    <3>2. \A b \in B : b = p
      BY <1>1, <1>3, <2>3
    <3> HIDE DEF A, B
    <3>3. \A b \in B : b <= p
      BY <3>2
    <3>4. IsLast(p, k.chain, r, start, id)
      BY <3>1, <3>3 DEF IsLast, B
    <3>5. Shown(k, stored, r, start, id) = k.chain[p].old[r]
      BY ONLY <3>4, LastIsMax DEF Shown
    <3> QED BY <3>5, <2>3, <1>4
  <2> QED BY <2>2, <2>3, ShownCases
<1>5. CASE r \notin DOMAIN k.chain[p].old \ DOMAIN i.chain[p].old
  <2>1. A = B
    <3>1. p \in A <=> p \in B
      BY <1>2, <1>5
    <3> HIDE DEF A, B
    <3>2. \A m : m \in A <=> m \in B
      BY <3>1, <1>1, <1>3
    <3> QED BY <3>2
  <2>2. CASE \E a : IsLast(a, i.chain, r, start, id)
    <3>1. PICK a : IsLast(a, i.chain, r, start, id)
      BY <2>2
    <3>2. a \in A /\ \A b \in A : b <= a
      BY <3>1 DEF IsLast
    <3>3. IsLast(a, k.chain, r, start, id)
      BY <3>2, <2>1 DEF IsLast
    <3>4. /\ Shown(i, stored, r, start, id) = i.chain[a].old[r]
          /\ Shown(k, stored, r, start, id) = k.chain[a].old[r]
      BY ONLY <3>1, <3>3, LastIsMax DEF Shown
    <3>5. r \in DOMAIN i.chain[a].old /\ a \in 1..Len(i.chain)
      BY <3>2 DEF Applied, Applies
    <3>6. i.chain[a].old[r] = k.chain[a].old[r]
      BY <3>5
    <3> QED BY <3>4, <3>6
  <2>3. CASE A = {} /\ Shown(i, stored, r, start, id) = Base(i.latest, stored, r)
    <3>1. r \notin DOMAIN k.chain[p].old
      BY <2>1, <2>3, <1>2
    <3> QED BY <3>1, <2>1, <2>3 DEF Shown
  <2> QED BY <2>2, <2>3, ShownCases
<1> QED BY <1>4, <1>5

\* Entry p is taken out of the chain and its values put back: none newer has its rows.
RolledBack(i, k, p, e, stored, r) ==
    /\ Len(i.chain) \in Nat /\ Len(k.chain) \in Nat /\ p \in 1..Len(i.chain)
    /\ Thins(e, k.chain, i.chain)
    /\ \A m \in 1..Len(k.chain) : k.chain[m] = i.chain[e[m]] /\ e[m] # p
    /\ \A m \in 1..Len(i.chain) : m # p => \E n \in 1..Len(k.chain) : e[n] = m
    /\ r \in DOMAIN i.chain[p].old =>
          /\ Base(k.latest, stored, r) = i.chain[p].old[r]
          /\ \A m \in 1..Len(i.chain) : m < p => r \notin DOMAIN i.chain[m].old
    /\ r \notin DOMAIN i.chain[p].old => Base(k.latest, stored, r) = Base(i.latest, stored, r)

LEMMA ShownRollback ==
    ASSUME NEW i, NEW k, NEW p, NEW e, NEW stored, NEW r, NEW start, NEW id,
           RolledBack(i, k, p, e, stored, r), UpdatesForTransaction(i.chain[p], start, id)
    PROVE  Shown(k, stored, r, start, id) = Shown(i, stored, r, start, id)
<1> USE DEF RolledBack
<1> DEFINE A == Applied(i.chain, r, start, id)
           B == Applied(k.chain, r, start, id)
<1>1. A \subseteq 1..Len(i.chain) /\ B \subseteq 1..Len(k.chain)
  BY DEF Applied
<1>2. \A m \in 1..Len(k.chain) : e[m] \in 1..Len(i.chain)
  BY DEF Thins
<1>3. \A m \in B : e[m] \in A /\ e[m] # p
  BY <1>2 DEF Applied
<1>4. \A m \in A : m # p => \E n \in B : e[n] = m
  BY DEF Applied
<1>5. CASE r \notin DOMAIN i.chain[p].old
  <2>1. \A m \in 1..Len(i.chain) : Applies(i.chain[m], r, start, id) => \E n \in 1..Len(k.chain) : e[n] = m
    BY <1>5 DEF Applies
  <2>2. Base(k.latest, stored, r) = Base(i.latest, stored, r)
    BY <1>5
  <2>3. \A n \in 1..Len(k.chain) :
              /\ k.chain[n].old = i.chain[e[n]].old
              /\ Applies(k.chain[n], r, start, id) <=> Applies(i.chain[e[n]], r, start, id)
    OBVIOUS
  <2>4. Len(i.chain) \in Nat
    OBVIOUS
  <2>5. Len(k.chain) \in Nat
    OBVIOUS
  <2>6. Thins(e, k.chain, i.chain)
    OBVIOUS
  <2>7. Thinned(i, k, e, stored, r, start, id)
    BY ONLY <2>1, <2>2, <2>3, <2>4, <2>5, <2>6 DEF Thinned
  <2> QED BY ONLY <2>7, ShownThin
<1>6. CASE r \in DOMAIN i.chain[p].old
  <2>1. p \in A
    BY <1>6 DEF Applied, Applies
  <2>2. \A m \in A : p <= m
    <3> TAKE m \in A
    <3>1. m \in 1..Len(i.chain) /\ r \in DOMAIN i.chain[m].old
      BY DEF Applied, Applies
    <3>2. ~(m < p)
      BY <3>1, <1>6
    <3> QED BY <3>1, <3>2
  <2>3. PICK a : IsLast(a, i.chain, r, start, id)
    BY <2>1, ShownCases
  <2>4. a \in A /\ \A b \in A : b <= a
    BY <2>3 DEF IsLast
  <2>5. Shown(i, stored, r, start, id) = i.chain[a].old[r]
    BY ONLY <2>3, LastIsMax DEF Shown
  <2>6. CASE a = p
    <3>1. \A m \in A : m = p
      <4> HIDE DEF A, B
      <4> QED BY <2>2, <2>4, <2>6, <1>1
    <3>2. B = {}
      BY <3>1, <1>3
    <3> QED BY <3>2, <2>5, <2>6, <1>6 DEF Shown
  <2>7. CASE a # p
    <3>1. PICK b \in B : e[b] = a
      BY <2>4, <2>7, <1>4
    <3>2. ASSUME NEW m \in B PROVE m <= b
      <4>1. e[m] <= e[b]
        BY <3>1, <1>3, <2>4
      <4>2. m \in 1..Len(k.chain) /\ b \in 1..Len(k.chain) /\ e[m] \in 1..Len(i.chain) /\ e[b] \in 1..Len(i.chain)
        BY <1>1, <1>2
      <4>3. b < m => e[b] < e[m]
        BY <4>2 DEF Thins
      <4>4. Len(i.chain) \in Nat /\ Len(k.chain) \in Nat
        OBVIOUS
      <4> QED BY ONLY <4>1, <4>2, <4>3, <4>4
    <3>3. IsLast(b, k.chain, r, start, id)
      <4>1. Len(k.chain) \in Nat
        OBVIOUS
      <4> QED BY ONLY <4>1, <3>1, <3>2 DEF IsLast
    <3>4. Shown(k, stored, r, start, id) = k.chain[b].old[r]
      BY ONLY <3>3, LastIsMax DEF Shown
    <3> QED BY <3>1, <3>4, <2>5, <1>1
  <2> QED BY <2>6, <2>7
<1> QED BY <1>5, <1>6

-----------------------------------------------------------------------------
(* The inductive invariant                                                 *)

Node(s) == [owner : Txns, version : Nat, old : Partial(Content(s))]

RunningIn(x) == {t \in Txns : x[t].phase \notin {"none", "committed", "aborted"}}

\* Of a chain c whose rows D have a latest value, with transactions in the state x:
\* it has one entry per transaction;
OneEach(c) == \A i, j \in 1..Len(c) : c[i].owner = c[j].owner => i = j
\* every row that an entry keeps the old value of has a latest value;
Covered(c, D) == \A i \in 1..Len(c) : DOMAIN c[i].old \subseteq D
\* an entry in front of (newer than) one of a running transaction committed after its start;
Younger(c, x) ==
    \A i, j \in 1..Len(c) :
        j < i /\ c[i].owner \in RunningIn(x) /\ x[c[j].owner].phase = "committed"
            => x[c[j].owner].commit_id > x[c[i].owner].start
\* of two entries with a common row the older one does not run any more.
Apart(c, x) ==
    \A i, j \in 1..Len(c) :
        j < i /\ DOMAIN c[i].old \cap DOMAIN c[j].old # {} => c[i].owner \notin RunningIn(x)

ChainGood(c, D, x) == OneEach(c) /\ Covered(c, D) /\ Younger(c, x) /\ Apart(c, x)

ChainInv ==
    \A s \in Segments, v \in Vectors : ChainGood(info[s][v].chain, DOMAIN info[s][v].latest, txn)

\* The functions have the domains that TypeOK does not speak of.
ShapeInv ==
    /\ DOMAIN info = Segments /\ \A s \in Segments : DOMAIN info[s] = Vectors
    /\ DOMAIN column = Segments

\* The version is the commit id from the step in which the commit reaches the entry, and the
\* transaction's id before.
Marked(t, s, v) == \E k \in 1..txn[t].at : txn[t].undo[k] = <<s, v>>
VersionOf(t, s, v) ==
    IF txn[t].phase = "committed" \/ (txn[t].phase = "committing" /\ Marked(t, s, v))
    THEN txn[t].commit_id ELSE TransactionId(t)
VersionInv ==
    \A s \in Segments, v \in Vectors : \A i \in 1..Len(info[s][v].chain) :
        info[s][v].chain[i].version = VersionOf(info[s][v].chain[i].owner, s, v)

\* A running transaction has an entry in a chain exactly if an undo entry that is not yet
\* undone names the chain.
Undone(t) == IF txn[t].phase = "rolling_back" THEN txn[t].at ELSE Len(txn[t].undo)
Holds(t, s, v) == \E i \in 1..Len(info[s][v].chain) : info[s][v].chain[i].owner = t
UndoOf(t) ==
    /\ txn[t].at <= Len(txn[t].undo)
    /\ txn[t].phase \notin {"committing", "rolling_back"} => txn[t].at = 0
    /\ \A k, l \in 1..Len(txn[t].undo) : txn[t].undo[k] = txn[t].undo[l] => k = l
    /\ \A k \in 1..Undone(t) : Holds(t, txn[t].undo[k][1], txn[t].undo[k][2])
    /\ \A s \in Segments, v \in Vectors :
          Holds(t, s, v) => \E k \in 1..Undone(t) : txn[t].undo[k] = <<s, v>>
UndoInv == \A t \in Running : UndoOf(t)

\* Starts and commit ids lie in the past; that of a commit under way, which has
\* transaction_lock, is above the starts of all that run.
ClockInv ==
    /\ \A t \in Running : txn[t].start < clock
    /\ \A t \in Txns : txn[t].commit_id < clock
    /\ \A t \in Txns, u \in Running : txn[t].phase = "committing" => txn[u].start < txn[t].commit_id
    /\ \A t, u \in Txns : {txn[t].phase, txn[u].phase} \subseteq {"committing", "rolling_back"} => t = u

\* Timestamps stay below the transaction ids: each transaction takes at most two.
Begun == {t \in Txns : txn[t].phase # "none"}
Ending == {t \in Txns : txn[t].phase \in {"committing", "rolling_back", "committed", "aborted"}}
CountInv == clock <= 1 + Cardinality(Begun) + Cardinality(Ending)

\* An update between its two segments has rows of one vector; a transaction that has not
\* begun has no undo entry.
CallInv ==
    \A t \in Txns :
        /\ txn[t].phase = "updating" =>
              /\ DOMAIN txn[t].writes # {}
              /\ \A r, q \in DOMAIN txn[t].writes : VectorOf(r) = VectorOf(q)
        /\ txn[t].phase = "none" => txn[t].undo = <<>> /\ txn[t].at = 0

UInv ==
    /\ TypeOK /\ ShapeInv /\ ChainInv /\ VersionInv /\ UndoInv
    /\ ClockInv /\ CountInv /\ CallInv /\ ChainsReleased

-----------------------------------------------------------------------------
(* Chains and transactions                                                 *)

\* From x to y a transaction with an entry in c does not start, and if it ends its commit id
\* is above the starts of all that run.
Moves(c, x, y) ==
    \A i \in 1..Len(c) :
        LET u == c[i].owner IN
        /\ u \in RunningIn(y) => u \in RunningIn(x) /\ y[u].start = x[u].start
        /\ y[u].phase = "committed" =>
              \/ x[u].phase = "committed" /\ y[u].commit_id = x[u].commit_id
              \/ \A a \in RunningIn(y) : y[u].commit_id > y[a].start

\* What is left of a good chain is good.
LEMMA ThinGood ==
    ASSUME NEW c, NEW d, NEW e, Len(c) \in Nat, Len(d) \in Nat, Thins(e, d, c),
           \A k \in 1..Len(d) : d[k].owner = c[e[k]].owner /\ d[k].old = c[e[k]].old,
           NEW D, NEW x, NEW y, ChainGood(c, D, x), Moves(c, x, y)
    PROVE  ChainGood(d, D, y)
<1>1. \A k \in 1..Len(d) : e[k] \in 1..Len(c)
  BY DEF Thins
<1>2. \A i, j \in 1..Len(d) : j < i => e[j] < e[i]
  BY DEF Thins
<1>3. OneEach(d)
  <2> SUFFICES ASSUME NEW i \in 1..Len(d), NEW j \in 1..Len(d), d[i].owner = d[j].owner PROVE i = j
    BY DEF OneEach
  <2>1. e[i] = e[j]
    BY <1>1 DEF ChainGood, OneEach
  <2>2. ~(i < j) /\ ~(j < i)
    BY <1>1, <1>2, <2>1
  <2> QED BY <2>2
<1>4. Covered(d, D)
  BY <1>1 DEF ChainGood, Covered
<1>5. Younger(d, y)
  <2> SUFFICES ASSUME NEW i \in 1..Len(d), NEW j \in 1..Len(d), j < i, d[i].owner \in RunningIn(y),
                      y[d[j].owner].phase = "committed"
               PROVE  y[d[j].owner].commit_id > y[d[i].owner].start
    BY DEF Younger
  <2>1. e[i] \in 1..Len(c) /\ e[j] \in 1..Len(c) /\ e[j] < e[i]
    BY <1>1, <1>2
  <2>2. c[e[i]].owner = d[i].owner /\ c[e[j]].owner = d[j].owner
    OBVIOUS
  <2>3. d[i].owner \in RunningIn(x) /\ y[d[i].owner].start = x[d[i].owner].start
    BY <2>1, <2>2 DEF Moves
  <2>4. \/ x[d[j].owner].phase = "committed" /\ y[d[j].owner].commit_id = x[d[j].owner].commit_id
        \/ \A a \in RunningIn(y) : y[d[j].owner].commit_id > y[a].start
    BY <2>1, <2>2 DEF Moves
  <2>5. x[d[j].owner].phase = "committed" => x[d[j].owner].commit_id > x[d[i].owner].start
    BY <2>1, <2>2, <2>3 DEF ChainGood, Younger
  <2> QED BY <2>3, <2>4, <2>5
<1>6. Apart(d, y)
  <2> SUFFICES ASSUME NEW i \in 1..Len(d), NEW j \in 1..Len(d), j < i,
                      DOMAIN d[i].old \cap DOMAIN d[j].old # {}
               PROVE  d[i].owner \notin RunningIn(y)
    BY DEF Apart
  <2>1. e[i] \in 1..Len(c) /\ e[j] \in 1..Len(c) /\ e[j] < e[i]
    BY <1>1, <1>2
  <2>2. c[e[i]].owner = d[i].owner /\ c[e[i]].old = d[i].old /\ c[e[j]].old = d[j].old
    OBVIOUS
  <2>3. d[i].owner \notin RunningIn(x)
    BY <2>1, <2>2 DEF ChainGood, Apart
  <2> QED BY <2>1, <2>2, <2>3 DEF Moves
<1> QED BY <1>3, <1>4, <1>5, <1>6 DEF ChainGood

\* A chain whose owners and rows do not change stays good.
LEMMA SameGood ==
    ASSUME NEW c, NEW d, Len(c) \in Nat, Len(d) = Len(c),
           \A k \in 1..Len(d) : d[k].owner = c[k].owner /\ d[k].old = c[k].old,
           NEW D, NEW x, NEW y, ChainGood(c, D, x), Moves(c, x, y)
    PROVE  ChainGood(d, D, y)
<1> DEFINE e == [k \in 1..Len(d) |-> k]
<1>1. Thins(e, d, c)
  BY DEF Thins
<1>2. \A k \in 1..Len(d) : d[k].owner = c[e[k]].owner /\ d[k].old = c[e[k]].old
  OBVIOUS
<1> HIDE DEF e
<1> QED BY <1>1, <1>2, ThinGood

\* An entry of a transaction that has none, in front of a good chain.
LEMMA PushGood ==
    ASSUME NEW c, NEW d, Len(c) \in Nat, Len(d) = Len(c) + 1,
           \A k \in 1..Len(c) : d[k + 1] = c[k] /\ c[k].owner # d[1].owner,
           NEW D, NEW E, D \subseteq E, DOMAIN d[1].old \subseteq E,
           NEW x, x[d[1].owner].phase # "committed", ChainGood(c, D, x),
           \A k \in 1..Len(c) : DOMAIN c[k].old \cap DOMAIN d[1].old # {} => c[k].owner \notin RunningIn(x)
    PROVE  ChainGood(d, E, x)
<1>1. \A k \in 1..Len(d) : k # 1 => k - 1 \in 1..Len(c) /\ d[k] = c[k - 1]
  <2> TAKE k \in 1..Len(d)
  <2> HAVE k # 1
  <2>1. k - 1 \in 1..Len(c) /\ (k - 1) + 1 = k
    OBVIOUS
  <2> QED BY <2>1
<1>2. OneEach(d)
  <2> SUFFICES ASSUME NEW i \in 1..Len(d), NEW j \in 1..Len(d), d[i].owner = d[j].owner PROVE i = j
    BY DEF OneEach
  <2>1. i = 1 <=> j = 1
    BY <1>1
  <2>2. CASE i # 1 /\ j # 1
    <3>1. i - 1 = j - 1
      BY <1>1, <2>2 DEF ChainGood, OneEach
    <3> QED BY <3>1
  <2> QED BY <2>1, <2>2
<1>3. Covered(d, E)
  <2> SUFFICES ASSUME NEW i \in 1..Len(d) PROVE DOMAIN d[i].old \subseteq E
    BY DEF Covered
  <2>1. CASE i # 1
    BY <1>1, <2>1 DEF ChainGood, Covered
  <2> QED BY <2>1
<1>4. Younger(d, x)
  <2> SUFFICES ASSUME NEW i \in 1..Len(d), NEW j \in 1..Len(d), j < i, d[i].owner \in RunningIn(x),
                      x[d[j].owner].phase = "committed"
               PROVE  x[d[j].owner].commit_id > x[d[i].owner].start
    BY DEF Younger
  <2>1. j # 1 /\ i # 1
    OBVIOUS
  <2>2. i - 1 \in 1..Len(c) /\ j - 1 \in 1..Len(c) /\ d[i] = c[i - 1] /\ d[j] = c[j - 1] /\ j - 1 < i - 1
    BY <2>1, <1>1
  <2> QED BY <2>2 DEF ChainGood, Younger
<1>5. Apart(d, x)
  <2> SUFFICES ASSUME NEW i \in 1..Len(d), NEW j \in 1..Len(d), j < i,
                      DOMAIN d[i].old \cap DOMAIN d[j].old # {}
               PROVE  d[i].owner \notin RunningIn(x)
    BY DEF Apart
  <2>1. i - 1 \in 1..Len(c) /\ d[i] = c[i - 1]
    BY <1>1
  <2>2. CASE j = 1
    BY <2>1, <2>2
  <2>3. CASE j # 1
    <3>1. j - 1 \in 1..Len(c) /\ d[j] = c[j - 1] /\ j - 1 < i - 1
      BY <2>3, <1>1
    <3> QED BY <2>1, <3>1 DEF ChainGood, Apart
  <2> QED BY <2>2, <2>3
<1> QED BY <1>2, <1>3, <1>4, <1>5 DEF ChainGood

\* An entry p that keeps more rows, of which no newer entry has one and older ones only of
\* transactions that do not run.
LEMMA ExtendGood ==
    ASSUME NEW c, NEW d, Len(c) \in Nat, Len(d) = Len(c), NEW p \in 1..Len(c),
           d[p].owner = c[p].owner, \A k \in 1..Len(c) : k # p => d[k] = c[k],
           NEW D, NEW E, D \subseteq E, NEW R, DOMAIN d[p].old = DOMAIN c[p].old \union R, R \subseteq E,
           NEW x, ChainGood(c, D, x),
           \A k \in 1..Len(c) : k # p /\ DOMAIN c[k].old \cap R # {} => c[k].owner \notin RunningIn(x) /\ ~(k < p)
    PROVE  ChainGood(d, E, x)
<1>1. \A k \in 1..Len(d) : d[k].owner = c[k].owner
  OBVIOUS
<1>2. OneEach(d)
  BY <1>1 DEF ChainGood, OneEach
<1>3. Covered(d, E)
  <2> SUFFICES ASSUME NEW i \in 1..Len(d) PROVE DOMAIN d[i].old \subseteq E
    BY DEF Covered
  <2>1. DOMAIN c[i].old \subseteq E
    BY DEF ChainGood, Covered
  <2> QED BY <2>1
<1>4. Younger(d, x)
  BY <1>1 DEF ChainGood, Younger
<1>5. Apart(d, x)
  <2> SUFFICES ASSUME NEW i \in 1..Len(d), NEW j \in 1..Len(d), j < i,
                      DOMAIN d[i].old \cap DOMAIN d[j].old # {}
               PROVE  d[i].owner \notin RunningIn(x)
    BY DEF Apart
  <2>1. CASE DOMAIN c[i].old \cap DOMAIN c[j].old # {}
    BY <2>1, <1>1 DEF ChainGood, Apart
  <2>2. CASE DOMAIN c[i].old \cap DOMAIN c[j].old = {} /\ i = p
    <3>1. j # p /\ d[j] = c[j] /\ DOMAIN c[j].old \cap R # {}
      BY <2>2
    <3> QED BY <3>1, <2>2
  <2>3. CASE DOMAIN c[i].old \cap DOMAIN c[j].old = {} /\ i # p
    <3>1. j = p /\ d[i] = c[i] /\ DOMAIN c[i].old \cap R # {}
      BY <2>3
    <3> QED BY <3>1, <2>3
  <2> QED BY <2>1, <2>2, <2>3
<1> QED BY <1>2, <1>3, <1>4, <1>5 DEF ChainGood

-----------------------------------------------------------------------------
(* Types                                                                   *)

\* A partial function has rows as its arguments and its values in S.
LEMMA PartialFacts ==
    ASSUME NEW S, NEW f \in Partial(S)
    PROVE  DOMAIN f \subseteq Rows /\ f \in [DOMAIN f -> S] /\ \A r \in DOMAIN f : f[r] \in S
<1>1. PICK D \in SUBSET Rows : f \in [D -> S]
  BY DEF Partial
<1> QED BY <1>1

LEMMA PartialMake ==
    ASSUME NEW S, NEW D, D \subseteq Rows, NEW f \in [D -> S]
    PROVE  f \in Partial(S)
  BY DEF Partial

LEMMA PartialEmpty ==
    ASSUME NEW S
    PROVE  <<>> \in Partial(S)
<1>1. <<>> \in [{} -> S]
  OBVIOUS
<1> QED BY <1>1, PartialMake

\* What TypeOK says of an info and of its entries.
InfoFacts(s, i) ==
    /\ i = [latest |-> i.latest, chain |-> i.chain]
    /\ i.latest \in Partial(Content(s))
    /\ i.chain \in Seq(Node(s))
    /\ Len(i.chain) \in Nat /\ DOMAIN i.chain = 1..Len(i.chain)
    /\ \A k \in 1..Len(i.chain) :
          /\ i.chain[k] \in Node(s)
          /\ i.chain[k].owner \in Txns
          /\ i.chain[k].version \in Nat
          /\ i.chain[k].old \in Partial(Content(s))
          /\ DOMAIN i.chain[k].old \subseteq Rows

LEMMA InfosFacts ==
    ASSUME NEW s, NEW i \in Infos(s)
    PROVE  InfoFacts(s, i)
<1>1. i.latest \in Partial(Content(s)) /\ i.chain \in Seq(Node(s)) /\ i = [latest |-> i.latest, chain |-> i.chain]
  BY DEF Infos, Node
<1>2. Len(i.chain) \in Nat /\ DOMAIN i.chain = 1..Len(i.chain)
  BY <1>1
<1>3. ASSUME NEW k \in 1..Len(i.chain)
      PROVE  /\ i.chain[k] \in Node(s)
             /\ i.chain[k].owner \in Txns
             /\ i.chain[k].version \in Nat
             /\ i.chain[k].old \in Partial(Content(s))
  <2>1. i.chain[k] \in Node(s)
    BY <1>1
  <2> QED BY <2>1 DEF Node
<1>4. \A k \in 1..Len(i.chain) : DOMAIN i.chain[k].old \subseteq Rows
  BY <1>3, PartialFacts
<1> QED BY <1>1, <1>2, <1>3, <1>4 DEF InfoFacts

LEMMA InfosMake ==
    ASSUME NEW s, NEW l \in Partial(Content(s)), NEW c \in Seq(Node(s))
    PROVE  [latest |-> l, chain |-> c] \in Infos(s)
  BY DEF Infos, Node

LEMMA Types ==
    ASSUME TypeOK
    PROVE  /\ \A s \in Segments, v \in Vectors : InfoFacts(s, info[s][v])
           /\ \A t \in Txns :
                /\ txn[t] \in Transactions
                /\ txn[t].phase \in {"none", "active", "updating", "invalid", "committing",
                                     "rolling_back", "committed", "aborted"}
                /\ txn[t].start \in Nat /\ txn[t].commit_id \in Nat /\ txn[t].at \in Nat
                /\ txn[t].undo \in Seq(Segments \X Vectors) /\ Len(txn[t].undo) \in Nat
                /\ \A k \in 1..Len(txn[t].undo) : txn[t].undo[k] \in Segments \X Vectors
                /\ TransactionId(t) \in Nat /\ t \in Nat \ {0}
           /\ clock \in Nat
<1>1. \A s \in Segments, v \in Vectors : InfoFacts(s, info[s][v])
  BY InfosFacts DEF TypeOK
<1>2. ASSUME NEW t \in Txns
      PROVE  /\ txn[t] \in Transactions
             /\ txn[t].phase \in {"none", "active", "updating", "invalid", "committing",
                                  "rolling_back", "committed", "aborted"}
             /\ txn[t].start \in Nat /\ txn[t].commit_id \in Nat /\ txn[t].at \in Nat
             /\ txn[t].undo \in Seq(Segments \X Vectors)
  <2>1. txn[t] \in Transactions
    BY DEF TypeOK
  <2> QED BY <2>1 DEF Transactions
<1>3. ASSUME NEW t \in Txns
      PROVE  Len(txn[t].undo) \in Nat /\ \A k \in 1..Len(txn[t].undo) : txn[t].undo[k] \in Segments \X Vectors
  BY <1>2
<1>4. \A t \in Txns : TransactionId(t) \in Nat /\ t \in Nat \ {0}
  BY UpdateAssumption DEF TransactionId, Txns
<1>5. clock \in Nat
  BY UpdateAssumption DEF TypeOK
<1> QED BY <1>1, <1>2, <1>3, <1>4, <1>5

\* Running is the set of the transactions that run in txn.
LEMMA RunningIs == Running = RunningIn(txn) /\ Running \subseteq Txns
  BY DEF Running, RunningIn

\* Timestamps are below the transaction ids.
LEMMA Bounded ==
    ASSUME clock \in Nat, CountInv
    PROVE  clock <= 2 * MaxTransactions + 1 /\ \A t \in Txns : clock < TransactionId(t)
<1>1. IsFiniteSet(Txns) /\ Cardinality(Txns) = MaxTransactions
  BY UpdateAssumption, FS_Interval DEF Txns
<1>2. Begun \subseteq Txns /\ Ending \subseteq Txns
  BY DEF Begun, Ending
<1>3. Cardinality(Begun) \in Nat /\ Cardinality(Ending) \in Nat
      /\ Cardinality(Begun) <= MaxTransactions /\ Cardinality(Ending) <= MaxTransactions
  BY <1>1, <1>2, FS_Subset, FS_CardinalityType
<1>4. clock <= 2 * MaxTransactions + 1
  BY <1>3, UpdateAssumption DEF CountInv
<1> QED BY <1>4, UpdateAssumption DEF TransactionId, Txns

\* What transaction t reads of a segment, as Shown.
Reads(t, s, r) ==
    Shown(info[s][VectorOf(r)], column[s][r], r, txn[t].start, TransactionId(t))

LEMMA FetchIsShown ==
    ASSUME TypeOK, NEW t \in Txns, NEW s \in Segments, NEW r \in Rows
    PROVE  FetchUpdates(t, s, r) = Reads(t, s, r)
<1> DEFINE i == info[s][VectorOf(r)]
<1>1. VectorOf(r) \in Vectors
  BY DEF Vectors
<1>2. DOMAIN i.chain = 1..Len(i.chain)
  BY <1>1, Types DEF InfoFacts
<1>3. FetchUpdates(t, s, r) =
        IF {n \in DOMAIN i.chain : UpdatesForTransaction(i.chain[n], txn[t].start, TransactionId(t)) /\ r \in DOMAIN i.chain[n].old} = {}
        THEN FetchCommitted(s, r)
        ELSE i.chain[Max({n \in DOMAIN i.chain : UpdatesForTransaction(i.chain[n], txn[t].start, TransactionId(t)) /\ r \in DOMAIN i.chain[n].old})].old[r]
  BY DEF FetchUpdates, Fetch
<1>4. FetchCommitted(s, r) = Base(i.latest, column[s][r], r)
  BY DEF FetchCommitted, Base
<1>5. {n \in DOMAIN i.chain : UpdatesForTransaction(i.chain[n], txn[t].start, TransactionId(t)) /\ r \in DOMAIN i.chain[n].old}
        = Applied(i.chain, r, txn[t].start, TransactionId(t))
  BY <1>2 DEF Applied, Applies
<1> HIDE DEF i
<1> QED BY <1>3, <1>4, <1>5 DEF Reads, Shown, i

\* A reader finds a value of the segment.
LEMMA ReadsTyped ==
    ASSUME TypeOK, NEW t \in Txns, NEW s \in Segments, NEW r \in Rows
    PROVE  FetchCommitted(s, r) \in Content(s) /\ FetchUpdates(t, s, r) \in Content(s)
<1> DEFINE i == info[s][VectorOf(r)]
<1>1. VectorOf(r) \in Vectors
  BY DEF Vectors
<1>2. InfoFacts(s, i)
  BY <1>1, Types
<1> HIDE DEF i
<1>3. Base(i.latest, column[s][r], r) \in Content(s)
  <2>1. column[s][r] \in Content(s)
    BY DEF TypeOK
  <2>2. \A q \in DOMAIN i.latest : i.latest[q] \in Content(s)
    BY <1>2, PartialFacts DEF InfoFacts
  <2> QED BY <2>1, <2>2 DEF Base
<1>4. FetchCommitted(s, r) = Base(i.latest, column[s][r], r)
  BY DEF FetchCommitted, Base, i
<1>5. Shown(i, column[s][r], r, txn[t].start, TransactionId(t)) \in Content(s)
  <2>1. CASE \E a : IsLast(a, i.chain, r, txn[t].start, TransactionId(t))
    <3>1. PICK a : IsLast(a, i.chain, r, txn[t].start, TransactionId(t))
      BY <2>1
    <3>2. Shown(i, column[s][r], r, txn[t].start, TransactionId(t)) = i.chain[a].old[r]
      BY ONLY <3>1, LastIsMax DEF Shown
    <3>3. a \in 1..Len(i.chain) /\ r \in DOMAIN i.chain[a].old
      BY <3>1 DEF IsLast, Applied, Applies
    <3>4. i.chain[a].old \in Partial(Content(s))
      BY <3>3, <1>2 DEF InfoFacts
    <3> QED BY <3>2, <3>3, <3>4, PartialFacts
  <2>2. Len(i.chain) \in Nat
    BY <1>2 DEF InfoFacts
  <2> QED BY <2>1, <2>2, <1>3, ShownCases
<1> QED BY <1>3, <1>4, <1>5, FetchIsShown DEF Reads, i

-----------------------------------------------------------------------------
(* What a step of one transaction leaves to the others                     *)

\* Recording the ghosts changes nothing else.
LEMMA RememberFacts ==
    ASSUME TypeOK, NEW t \in Txns
    PROVE  /\ Remember(t) \in Transactions
           /\ Remember(t).phase = txn[t].phase /\ Remember(t).start = txn[t].start
           /\ Remember(t).commit_id = txn[t].commit_id /\ Remember(t).undo = txn[t].undo
           /\ Remember(t).at = txn[t].at /\ Remember(t).writes = txn[t].writes
<1>1. Scan(t) \in Partial(0..MaxTransactions \union {Null})
  <2>1. \A r \in Rows : ScanRow(t, r) \in 0..MaxTransactions \union {Null}
    BY ReadsTyped DEF ScanRow, Content, Segments
  <2>2. Scan(t) \in [Rows -> 0..MaxTransactions \union {Null}]
    BY <2>1 DEF Scan
  <2> QED BY <2>2, PartialMake
<1>2. Wrote(t) \in SUBSET Rows
  <2>1. \A s \in Segments, v \in Vectors : \A i \in Own(t, info[s][v].chain) :
           DOMAIN info[s][v].chain[i].old \subseteq Rows
    BY Types DEF InfoFacts, Own
  <2> QED BY <2>1 DEF Wrote
<1>3. txn[t] \in Transactions
  BY Types
<1> QED BY <1>1, <1>2, <1>3 DEF Remember, Transactions

\* Every entry that is not t's was there before, and no other running transaction loses one.
Spared(t, s, v) ==
    /\ \A k \in 1..Len(info'[s][v].chain) : info'[s][v].chain[k].owner # t =>
          \E j \in 1..Len(info[s][v].chain) : info'[s][v].chain[k] = info[s][v].chain[j]
    /\ \A j \in 1..Len(info[s][v].chain) : info[s][v].chain[j].owner \in Running \ {t} =>
          \E k \in 1..Len(info'[s][v].chain) : info'[s][v].chain[k].owner = info[s][v].chain[j].owner

\* Only t takes the step.
StepOf(t) ==
    /\ txn' \in [Txns -> Transactions]
    /\ \A u \in Txns \ {t} : txn'[u] = txn[u]
    /\ \A s \in Segments, v \in Vectors : Spared(t, s, v)

LEMMA OthersUndo ==
    ASSUME UInv, NEW t \in Txns, StepOf(t)
    PROVE  \A u \in Running' : u # t => UndoOf(u)'
<1> SUFFICES ASSUME NEW u \in Running', u # t PROVE UndoOf(u)'
  OBVIOUS
<1>1. u \in Txns /\ txn'[u] = txn[u] /\ u \in Running
  BY DEF StepOf, Running
<1>2. UndoOf(u) /\ TypeOK
  BY <1>1 DEF UInv, UndoInv
<1>3. \A s \in Segments, v \in Vectors : Holds(u, s, v)' <=> Holds(u, s, v)
  <2> TAKE s \in Segments, v \in Vectors
  <2>1. Spared(t, s, v)
    BY DEF StepOf
  <2>2. ASSUME Holds(u, s, v)' PROVE Holds(u, s, v)
    BY <2>1, <2>2, <1>1 DEF Spared, Holds
  <2>3. ASSUME Holds(u, s, v) PROVE Holds(u, s, v)'
    BY <2>1, <2>3, <1>1 DEF Spared, Holds
  <2> QED BY <2>2, <2>3
<1>4. \A k \in 1..Undone(u) : txn[u].undo[k][1] \in Segments /\ txn[u].undo[k][2] \in Vectors
  <2>1. Undone(u) <= Len(txn[u].undo) /\ Undone(u) \in Nat /\ Len(txn[u].undo) \in Nat
    BY <1>1, <1>2, Types DEF Undone, UndoOf
  <2>2. \A k \in 1..Len(txn[u].undo) : txn[u].undo[k] \in Segments \X Vectors
    BY <1>1, <1>2, Types
  <2> QED BY <2>1, <2>2
<1>5. Undone(u)' = Undone(u)
  BY <1>1 DEF Undone
<1>6. \A k \in 1..Undone(u) : Holds(u, txn[u].undo[k][1], txn[u].undo[k][2])'
  <2> TAKE k \in 1..Undone(u)
  <2>1. PICK s \in Segments, v \in Vectors : s = txn[u].undo[k][1] /\ v = txn[u].undo[k][2]
    BY <1>4
  <2>2. Holds(u, s, v)
    BY <2>1, <1>2 DEF UndoOf
  <2>3. Holds(u, s, v)'
    BY <2>2, <1>3
  <2> QED BY <2>1, <2>3, <1>1 DEF Holds
<1>7. \A s \in Segments, v \in Vectors :
          Holds(u, s, v)' => \E k \in 1..Undone(u) : txn[u].undo[k] = <<s, v>>
  BY <1>2, <1>3 DEF UndoOf
<1>8. /\ txn'[u].at <= Len(txn'[u].undo)
      /\ txn'[u].phase \notin {"committing", "rolling_back"} => txn'[u].at = 0
      /\ \A k, l \in 1..Len(txn'[u].undo) : txn'[u].undo[k] = txn'[u].undo[l] => k = l
  BY <1>1, <1>2 DEF UndoOf
<1>9. /\ \A k \in 1..Undone(u)' : Holds(u, txn[u].undo[k][1], txn[u].undo[k][2])'
      /\ \A s \in Segments, v \in Vectors :
          Holds(u, s, v)' => \E k \in 1..Undone(u)' : txn[u].undo[k] = <<s, v>>
  BY <1>5, <1>6, <1>7
<1> QED BY <1>1, <1>8, <1>9 DEF UndoOf

LEMMA OthersVersion ==
    ASSUME UInv, NEW t \in Txns, StepOf(t), NEW s \in Segments, NEW v \in Vectors,
           NEW k \in 1..Len(info'[s][v].chain), NEW o, o = info'[s][v].chain[k].owner, o # t
    PROVE  info'[s][v].chain[k].version = VersionOf(o, s, v)'
<1>1. PICK j \in 1..Len(info[s][v].chain) : info'[s][v].chain[k] = info[s][v].chain[j]
  BY DEF StepOf, Spared
<1>2. info[s][v].chain[j].version = VersionOf(o, s, v)
  BY <1>1 DEF UInv, VersionInv
<1>3. o \in Txns \ {t}
  BY <1>1, Types DEF UInv, InfoFacts
<1>4. txn'[o] = txn[o]
  BY <1>3 DEF StepOf
<1> QED BY <1>1, <1>2, <1>4 DEF VersionOf, Marked, TransactionId

\* Every entry belongs to a transaction that has begun and not aborted.
LEMMA OwnerPhase ==
    ASSUME UInv, NEW s \in Segments, NEW v \in Vectors, NEW i \in 1..Len(info[s][v].chain)
    PROVE  /\ info[s][v].chain[i].owner \in Txns
           /\ \/ info[s][v].chain[i].owner \in Running
              \/ txn[info[s][v].chain[i].owner].phase = "committed"
           /\ txn[info[s][v].chain[i].owner].phase \notin {"none", "aborted"}
<1>1. InfoFacts(s, info[s][v])
  BY Types DEF UInv
<1>2. i \in DOMAIN info[s][v].chain /\ info[s][v].chain[i].owner \in Txns
  BY <1>1 DEF InfoFacts
<1>3. \/ info[s][v].chain[i].owner \in Running
      \/ txn[info[s][v].chain[i].owner].phase = "committed"
  BY <1>2 DEF UInv, ChainsReleased
<1> QED BY <1>2, <1>3 DEF Running

\* What t may do to itself: begin, go on, or end with a commit id above all starts.
Moved(t) ==
    /\ t \in RunningIn(txn') => \/ t \in Running /\ txn'[t].start = txn[t].start
                                \/ txn[t].phase = "none"
    /\ txn'[t].phase = "committed" => \A a \in RunningIn(txn') : txn'[t].commit_id > txn'[a].start

LEMMA MovesChain ==
    ASSUME UInv, NEW t \in Txns, \A u \in Txns \ {t} : txn'[u] = txn[u], Moved(t),
           NEW s \in Segments, NEW v \in Vectors
    PROVE  Moves(info[s][v].chain, txn, txn')
<1> SUFFICES ASSUME NEW i \in 1..Len(info[s][v].chain), NEW u, u = info[s][v].chain[i].owner
             PROVE  /\ u \in RunningIn(txn') => u \in RunningIn(txn) /\ txn'[u].start = txn[u].start
                    /\ txn'[u].phase = "committed" =>
                          \/ txn[u].phase = "committed" /\ txn'[u].commit_id = txn[u].commit_id
                          \/ \A a \in RunningIn(txn') : txn'[u].commit_id > txn'[a].start
  BY DEF Moves
<1>1. u \in Txns /\ txn[u].phase # "none"
  BY OwnerPhase
<1>2. CASE u = t
  BY <1>1, <1>2, RunningIs DEF Moved
<1>3. CASE u # t
  <2>1. txn'[u] = txn[u]
    BY <1>1, <1>3
  <2> QED BY <1>1, <2>1 DEF RunningIn
<1> QED BY <1>2, <1>3

\* The latest values and the reads of one vector are those of another state's.
OthersRead(t) ==
    \A u \in Txns \ {t}, s \in Segments, r \in Rows :
        txn[u].phase = "active" => Reads(u, s, r)' = Reads(u, s, r)

-----------------------------------------------------------------------------
(* Timestamps                                                              *)

\* Each timestamp is taken by a transaction that begins or ends.
LEMMA CountStep ==
    ASSUME clock \in Nat, CountInv, Begun \subseteq Begun', Ending \subseteq Ending',
           \/ clock' = clock
           \/ clock' = clock + 1 /\ (Begun' # Begun \/ Ending' # Ending)
    PROVE  CountInv'
<1>1. IsFiniteSet(Txns)
  BY UpdateAssumption, FS_Interval DEF Txns
<1>2. Begun' \subseteq Txns /\ Ending' \subseteq Txns
  BY DEF Begun, Ending
<1>3. IsFiniteSet(Begun') /\ IsFiniteSet(Ending')
  BY <1>1, <1>2, FS_Subset
<1>4. /\ Cardinality(Begun) \in Nat /\ Cardinality(Ending) \in Nat
      /\ Cardinality(Begun') \in Nat /\ Cardinality(Ending') \in Nat
  BY <1>3, FS_Subset, FS_CardinalityType
<1>5. /\ Cardinality(Begun) <= Cardinality(Begun') /\ Cardinality(Ending) <= Cardinality(Ending')
      /\ Cardinality(Begun) = Cardinality(Begun') => Begun' = Begun
      /\ Cardinality(Ending) = Cardinality(Ending') => Ending' = Ending
  BY <1>3, FS_Subset
<1>6. CASE clock' = clock
  BY <1>4, <1>5, <1>6 DEF CountInv
<1>7. CASE clock' = clock + 1 /\ (Begun' # Begun \/ Ending' # Ending)
  <2>1. Cardinality(Begun) + Cardinality(Ending) + 1 <= Cardinality(Begun') + Cardinality(Ending')
    BY <1>4, <1>5, <1>7
  <2> QED BY <2>1, <1>4, <1>7 DEF CountInv
<1> QED BY <1>6, <1>7

\* The steps that take no timestamp: a transaction stays in the half of its life it is in, or
\* begins to roll back with transaction_lock, or ends.
Onward ==
    [active |-> {"active", "updating", "invalid", "rolling_back"},
     updating |-> {"active", "updating", "invalid"},
     invalid |-> {"invalid", "rolling_back"},
     committing |-> {"committing", "rolling_back", "committed"},
     rolling_back |-> {"rolling_back", "aborted"}]

LEMMA NoTimestamp ==
    ASSUME UInv, NEW t \in Txns, txn' \in [Txns -> Transactions], \A u \in Txns \ {t} : txn'[u] = txn[u],
           clock' = clock, txn[t].phase \in DOMAIN Onward, txn'[t].phase \in Onward[txn[t].phase],
           txn'[t].phase \in {"committed", "aborted"} \/ txn'[t].start = txn[t].start,
           txn'[t].commit_id \in {0, txn[t].commit_id}, txn'[t].phase = "committing" => txn'[t].commit_id = txn[t].commit_id,
           txn'[t].phase = "rolling_back" => TransactionLockFree \/ txn[t].phase \in {"committing", "rolling_back"}
    PROVE  ClockInv' /\ CountInv'
<1>1. clock \in Nat /\ ClockInv /\ CountInv
  BY Types DEF UInv
<1>2. Begun \subseteq Begun' /\ Ending \subseteq Ending'
  BY DEF Begun, Ending, Onward
<1>3. CountInv'
  BY <1>1, <1>2, CountStep
<1>4. \A u \in Running' : u \in Running /\ txn'[u].start = txn[u].start
  BY DEF Running, Onward
<1>5. \A u \in Txns : txn'[u].commit_id \in {0, txn[u].commit_id}
  OBVIOUS
<1>6. \A u \in Txns : txn'[u].phase = "committing" => txn[u].phase = "committing" /\ txn'[u].commit_id = txn[u].commit_id
  BY DEF Onward
<1>7. 0 < clock
  BY <1>1 DEF UInv, TypeOK
<1>8. \A u, w \in Txns : {txn'[u].phase, txn'[w].phase} \subseteq {"committing", "rolling_back"} => u = w
  <2> SUFFICES ASSUME NEW u \in Txns, NEW w \in Txns, u # w, txn'[u].phase \in {"committing", "rolling_back"},
                      txn'[w].phase \in {"committing", "rolling_back"}
               PROVE  FALSE
    OBVIOUS
  <2>1. txn[u].phase \in {"committing", "rolling_back"} /\ txn[w].phase \in {"committing", "rolling_back"}
    BY DEF TransactionLockFree, Onward
  <2> QED BY <2>1, <1>1 DEF ClockInv
<1>9. \A u \in Running' : txn'[u].start < clock
  BY <1>1, <1>4 DEF ClockInv
<1>10. \A u \in Txns : txn'[u].commit_id < clock
  BY <1>1, <1>5, <1>7 DEF ClockInv
<1>11. \A u \in Txns, w \in Running' : txn'[u].phase = "committing" => txn'[w].start < txn'[u].commit_id
  BY <1>1, <1>4, <1>6 DEF ClockInv
<1> QED BY <1>3, <1>8, <1>9, <1>10, <1>11 DEF ClockInv

-----------------------------------------------------------------------------
(* Steps that leave the chains alone                                       *)

\* What is proved of each step, besides types, timestamps and calls.
ChainsKept(t) == ShapeInv' /\ ChainInv' /\ VersionInv' /\ UndoInv' /\ ChainsReleased' /\ OthersRead(t)

Quiet(t) ==
    /\ txn' \in [Txns -> Transactions] /\ \A u \in Txns \ {t} : txn'[u] = txn[u]
    /\ info' = info /\ column' = column
    /\ txn'[t].undo = txn[t].undo
    /\ \/ txn[t].phase = "none" /\ txn'[t].phase = "active" /\ txn'[t].at = txn[t].at
       \/ /\ txn[t].phase \in {"active", "updating", "invalid"}
          /\ txn'[t].start = txn[t].start
          /\ \/ txn'[t].phase \in {"active", "updating", "invalid", "committing"} /\ txn'[t].at = txn[t].at
             \/ txn'[t].phase = "rolling_back" /\ txn'[t].at = Len(txn[t].undo)

LEMMA QuietKept ==
    ASSUME UInv, NEW t \in Txns, Quiet(t)
    PROVE  ChainsKept(t)
<1> USE DEF Quiet
<1>1. \A s \in Segments, v \in Vectors : InfoFacts(s, info[s][v])
  BY Types DEF UInv
<1>2. StepOf(t)
  BY DEF StepOf, Spared
<1>3. txn[t].at \in Nat /\ txn[t].undo \in Seq(Segments \X Vectors) /\ Len(txn[t].undo) \in Nat
  BY Types DEF UInv
<1>4. txn[t].phase # "none" => UndoOf(t)
  BY DEF UInv, UndoInv, Running
<1>5. txn[t].at = 0
  <2>1. CASE txn[t].phase = "none"
    BY <2>1 DEF UInv, CallInv
  <2> QED BY <2>1, <1>4 DEF UndoOf
<1>6. ShapeInv'
  BY DEF UInv, ShapeInv
<1>7. ChainInv'
  <2> SUFFICES ASSUME NEW s \in Segments, NEW v \in Vectors
               PROVE  ChainGood(info[s][v].chain, DOMAIN info[s][v].latest, txn')
    BY DEF ChainInv
  <2>1. Moved(t)
    BY DEF Moved, RunningIn, Running
  <2>2. Moves(info[s][v].chain, txn, txn')
    BY <2>1, MovesChain
  <2>3. Len(info[s][v].chain) \in Nat
    BY <1>1 DEF InfoFacts
  <2>4. ChainGood(info[s][v].chain, DOMAIN info[s][v].latest, txn)
    BY DEF UInv, ChainInv
  <2> QED BY <2>2, <2>3, <2>4, SameGood
<1>8. VersionInv'
  <2> SUFFICES ASSUME NEW s \in Segments, NEW v \in Vectors, NEW k \in 1..Len(info'[s][v].chain),
                      NEW o, o = info'[s][v].chain[k].owner
               PROVE  info'[s][v].chain[k].version = VersionOf(o, s, v)'
    BY DEF VersionInv
  <2>1. CASE o # t
    BY <2>1, <1>2, OthersVersion
  <2>2. CASE o = t
    <3>1. txn[t].phase # "none"
      BY <2>2, OwnerPhase
    <3>2. info[s][v].chain[k].version = VersionOf(t, s, v)
      BY <2>2 DEF UInv, VersionInv
    <3>3. VersionOf(t, s, v) = TransactionId(t)
      BY <3>1 DEF VersionOf
    <3>4. txn'[t].phase = "committing" => ~Marked(t, s, v)'
      BY <1>5, <3>1 DEF Marked
    <3>5. VersionOf(t, s, v)' = TransactionId(t)
      BY <3>1, <3>4 DEF VersionOf, TransactionId
    <3> QED BY <2>2, <3>2, <3>3, <3>5
  <2> QED BY <2>1, <2>2
<1>9. UndoInv'
  <2>1. UndoOf(t)'
    <3>1. \A s \in Segments, v \in Vectors : Holds(t, s, v)' <=> Holds(t, s, v)
      BY DEF Holds
    <3>2. CASE txn[t].phase = "none"
      <4>1. txn[t].undo = <<>>
        BY <3>2 DEF UInv, CallInv
      <4>2. \A s \in Segments, v \in Vectors : ~Holds(t, s, v)
        BY <3>2, OwnerPhase DEF Holds
      <4>3. Len(txn'[t].undo) = 0 /\ txn'[t].at = 0 /\ Undone(t)' = 0
        BY <4>1, <1>5, <3>2 DEF Undone
      <4> QED BY <4>2, <4>3, <3>1 DEF UndoOf
    <3>3. CASE txn[t].phase # "none"
      <4>1. Undone(t)' = Len(txn[t].undo) /\ Undone(t) = Len(txn[t].undo)
        BY <3>3 DEF Undone
      <4>2. UndoOf(t)
        BY <3>3, <1>4
      <4>3. \A k \in 1..Len(txn[t].undo) : Holds(t, txn[t].undo[k][1], txn[t].undo[k][2])'
        <5> TAKE k \in 1..Len(txn[t].undo)
        <5>1. Holds(t, txn[t].undo[k][1], txn[t].undo[k][2])
          BY <4>1, <4>2 DEF UndoOf
        <5> QED BY <5>1 DEF Holds
      <4>4. \A s \in Segments, v \in Vectors : Holds(t, s, v)' => \E k \in 1..Len(txn[t].undo) : txn[t].undo[k] = <<s, v>>
        BY <4>1, <4>2, <3>1 DEF UndoOf
      <4>5. \A k, l \in 1..Len(txn'[t].undo) : txn'[t].undo[k] = txn'[t].undo[l] => k = l
        BY <4>2 DEF UndoOf
      <4>6. /\ txn'[t].at <= Len(txn'[t].undo)
            /\ txn'[t].phase \notin {"committing", "rolling_back"} => txn'[t].at = 0
        BY <1>3, <1>5, <3>3
      <4>7. /\ \A k \in 1..Undone(t)' : Holds(t, txn[t].undo[k][1], txn[t].undo[k][2])'
            /\ \A s \in Segments, v \in Vectors :
                  Holds(t, s, v)' => \E k \in 1..Undone(t)' : txn'[t].undo[k] = <<s, v>>
        BY <4>1, <4>3, <4>4
      <4> QED BY <4>5, <4>6, <4>7 DEF UndoOf
    <3> QED BY <3>2, <3>3
  <2> QED BY <2>1, <1>2, OthersUndo DEF UndoInv
<1>10. ChainsReleased'
  <2> SUFFICES ASSUME NEW s \in Segments, NEW v \in Vectors, NEW i \in DOMAIN info[s][v].chain,
                      NEW u, u = info[s][v].chain[i].owner
               PROVE  \/ u \in Running'
                      \/ txn'[u].phase = "committed" /\ \E a \in Running' : txn'[a].start <= txn'[u].commit_id
    BY DEF ChainsReleased
  <2>1. Running \subseteq Running'
    BY DEF Running
  <2>2. u \in Running \/ (txn[u].phase = "committed" /\ \E a \in Running : txn[a].start <= txn[u].commit_id)
    BY DEF UInv, ChainsReleased
  <2>3. u \in Txns
    BY <1>1 DEF InfoFacts
  <2>4. CASE u \notin Running
    <3>1. PICK a \in Running : txn[a].start <= txn[u].commit_id
      BY <2>2, <2>4
    <3>2. txn[u].phase = "committed" /\ u # t
      BY <2>2, <2>4
    <3>3. txn'[u] = txn[u] /\ txn'[a].start = txn[a].start /\ a \in Running'
      BY <3>2, <2>1, <2>3 DEF Running
    <3> QED BY <3>1, <3>2, <3>3
  <2> QED BY <2>1, <2>4
<1>11. OthersRead(t)
  BY DEF OthersRead, Reads, TransactionId
<1> QED BY <1>6, <1>7, <1>8, <1>9, <1>10, <1>11 DEF ChainsKept

-----------------------------------------------------------------------------
(* An update                                                               *)

\* An entry of another transaction that has a row of an update without a conflict committed
\* before the update's transaction began.
LEMMA NoConflict ==
    ASSUME UInv, NEW t \in Txns, txn[t].phase \in {"active", "updating"}, NEW s \in Segments, NEW v \in Vectors,
           NEW rows, ~CheckForConflicts(t, s, v, rows),
           NEW i \in 1..Len(info[s][v].chain), NEW u, u = info[s][v].chain[i].owner, u # t,
           DOMAIN info[s][v].chain[i].old \cap rows # {}
    PROVE  txn[u].phase = "committed" /\ txn[u].commit_id <= txn[t].start
<1>1. InfoFacts(s, info[s][v]) /\ clock \in Nat /\ txn[t].start \in Nat /\ t \in Nat
  BY Types DEF UInv
<1>2. i \in DOMAIN info[s][v].chain /\ u \in Txns
  BY <1>1 DEF InfoFacts
<1>3. u \in Nat /\ txn[u].commit_id \in Nat /\ TransactionId(u) \in Nat /\ TransactionId(t) \in Nat
  BY <1>2, Types DEF UInv
<1>4. TransactionId(u) # TransactionId(t)
  BY <1>1, <1>3, UpdateAssumption DEF TransactionId
<1>5. info[s][v].chain[i].version = VersionOf(u, s, v)
  BY DEF UInv, VersionInv
<1>6. t \in Running /\ txn[t].start < clock /\ txn[u].commit_id < clock
  BY <1>2 DEF UInv, ClockInv, Running
<1>7. clock < TransactionId(t) /\ clock < TransactionId(u)
  BY <1>1, <1>2, Bounded DEF UInv
<1>8. VersionOf(u, s, v) \in {txn[u].commit_id, TransactionId(u)}
  BY DEF VersionOf
<1>9. info[s][v].chain[i].version # TransactionId(t)
  BY <1>3, <1>4, <1>5, <1>6, <1>7, <1>8, <1>1
<1>10. ~(info[s][v].chain[i].version > txn[t].start)
  BY <1>2, <1>9 DEF CheckForConflicts
<1>11. VersionOf(u, s, v) # TransactionId(u)
  BY <1>1, <1>3, <1>5, <1>6, <1>7, <1>10
<1>12. VersionOf(u, s, v) = txn[u].commit_id /\ txn[u].commit_id <= txn[t].start
  BY <1>1, <1>3, <1>5, <1>8, <1>10, <1>11
<1>13. txn[u].phase # "committing"
  <2>1. txn[u].phase = "committing" => txn[t].start < txn[u].commit_id
    BY <1>2, <1>6 DEF UInv, ClockInv
  <2> QED BY <2>1, <1>1, <1>3, <1>12
<1> QED BY <1>11, <1>12, <1>13 DEF VersionOf

\* What Merged makes of an info: a new entry of t at the front, or one that has more rows.
Extended(i, k, p) ==
    /\ Len(k.chain) = Len(i.chain)
    /\ \A m \in 1..Len(i.chain) : m # p => k.chain[m] = i.chain[m]
Keeping(t, s, n, kept, new) ==
    /\ n.owner = t /\ n.version = TransactionId(t)
    /\ DOMAIN n.old = DOMAIN kept \union DOMAIN new
    /\ \A r \in DOMAIN n.old : n.old[r] = IF r \in DOMAIN kept THEN kept[r] ELSE FetchCommitted(s, r)

LEMMA MergedFacts ==
    ASSUME UInv, NEW t \in Txns, NEW s \in Segments, NEW v \in Vectors, NEW new \in Partial(Content(s))
    PROVE  /\ Merged(t, s, v, new) \in Infos(s)
           /\ DOMAIN Merged(t, s, v, new).latest = DOMAIN info[s][v].latest \union DOMAIN new
           /\ \A r \in DOMAIN info[s][v].latest : r \notin DOMAIN new =>
                 Merged(t, s, v, new).latest[r] = info[s][v].latest[r]
           /\ \/ /\ ~Holds(t, s, v) /\ Own(t, info[s][v].chain) = {}
                 /\ \E n : Pushed(info[s][v], Merged(t, s, v, new), n) /\ Keeping(t, s, n, <<>>, new)
              \/ /\ Own(t, info[s][v].chain) # {}
                 /\ \E p \in 1..Len(info[s][v].chain) :
                       /\ info[s][v].chain[p].owner = t
                       /\ Extended(info[s][v], Merged(t, s, v, new), p)
                       /\ Keeping(t, s, Merged(t, s, v, new).chain[p], info[s][v].chain[p].old, new)
<1> DEFINE i == info[s][v]
           own == Own(t, i.chain)
           nodeOf(kept) == [owner |-> t, version |-> TransactionId(t), old |-> OldValues(kept, s, DOMAIN new)]
           l == [r \in DOMAIN i.latest \union DOMAIN new |-> IF r \in DOMAIN new THEN new[r] ELSE i.latest[r]]
           c == IF own = {} THEN <<nodeOf(<<>>)>> \o i.chain
                ELSE [m \in DOMAIN i.chain |-> IF m \in own THEN nodeOf(i.chain[m].old) ELSE i.chain[m]]
<1>1. Merged(t, s, v, new) = [latest |-> l, chain |-> c]
  BY DEF Merged
<1>2. InfoFacts(s, i) /\ TransactionId(t) \in Nat /\ TypeOK
  BY Types DEF UInv
<1>3. DOMAIN new \subseteq Rows /\ \A r \in DOMAIN new : new[r] \in Content(s)
  BY PartialFacts
<1>4. DOMAIN i.latest \subseteq Rows /\ \A r \in DOMAIN i.latest : i.latest[r] \in Content(s)
  BY <1>2, PartialFacts DEF InfoFacts
<1>5. l \in Partial(Content(s))
  <2>1. DOMAIN i.latest \union DOMAIN new \subseteq Rows
    BY <1>3, <1>4
  <2>2. l \in [DOMAIN i.latest \union DOMAIN new -> Content(s)]
    BY <1>3, <1>4
  <2> HIDE DEF l
  <2> QED BY <2>1, <2>2, PartialMake
<1>6. ASSUME NEW kept \in Partial(Content(s))
      PROVE  nodeOf(kept) \in Node(s) /\ Keeping(t, s, nodeOf(kept), kept, new)
  <2>1. DOMAIN kept \subseteq Rows /\ \A r \in DOMAIN kept : kept[r] \in Content(s)
    BY PartialFacts
  <2>2. \A r \in Rows : FetchCommitted(s, r) \in Content(s)
    BY <1>2, ReadsTyped
  <2>3. OldValues(kept, s, DOMAIN new) \in [DOMAIN kept \union DOMAIN new -> Content(s)]
    BY <2>1, <2>2, <1>3 DEF OldValues
  <2>4. DOMAIN kept \union DOMAIN new \subseteq Rows
    BY <2>1, <1>3
  <2>5. OldValues(kept, s, DOMAIN new) \in Partial(Content(s))
    BY <2>3, <2>4, PartialMake
  <2>6. nodeOf(kept) \in Node(s)
    BY <2>5, <1>2 DEF Node
  <2>7. Keeping(t, s, nodeOf(kept), kept, new)
    BY DEF Keeping, OldValues
  <2> QED BY <2>6, <2>7
<1> HIDE DEF nodeOf, l
<1>7. CASE own = {}
  <2>1. nodeOf(<<>>) \in Node(s) /\ Keeping(t, s, nodeOf(<<>>), <<>>, new)
    BY <1>6, PartialEmpty
  <2>2. c = <<nodeOf(<<>>)>> \o i.chain
    BY <1>7
  <2>3. i.chain \in Seq(Node(s))
    BY <1>2 DEF InfoFacts
  <2> HIDE DEF c, i
  <2>4. c \in Seq(Node(s)) /\ Len(c) = Len(i.chain) + 1 /\ c[1] = nodeOf(<<>>)
        /\ \A m \in 1..Len(i.chain) : c[m + 1] = i.chain[m]
    BY <2>1, <2>2, <2>3
  <2>5. [latest |-> l, chain |-> c] \in Infos(s)
    BY <2>4, <1>5, InfosMake
  <2>6. ~Holds(t, s, v) /\ Own(t, info[s][v].chain) = {}
    BY <1>7, <1>2 DEF Holds, Own, InfoFacts, i
  <2>7. Pushed(i, [latest |-> l, chain |-> c], nodeOf(<<>>))
    BY <2>4 DEF Pushed
  <2> QED BY <1>1, <2>1, <2>5, <2>6, <2>7 DEF i, l
<1>8. CASE own # {}
  <2>1. PICK p : p \in own
    BY <1>8
  <2>2. p \in 1..Len(i.chain) /\ i.chain[p].owner = t
    BY <2>1, <1>2 DEF Own, InfoFacts
  <2>3. own = {p}
    <3>1. OneEach(i.chain)
      BY DEF UInv, ChainInv, ChainGood
    <3>2. \A m \in own : m \in 1..Len(i.chain) /\ i.chain[m].owner = t
      BY <1>2 DEF Own, InfoFacts
    <3>3. \A m \in own : m = p
      BY <2>2, <3>1, <3>2 DEF OneEach
    <3> HIDE DEF own
    <3> QED BY <2>1, <3>3
  <2> HIDE DEF own
  <2>4. c = [m \in 1..Len(i.chain) |-> IF m = p THEN nodeOf(i.chain[p].old) ELSE i.chain[m]]
    BY <2>3, <1>2 DEF InfoFacts
  <2>5. i.chain[p].old \in Partial(Content(s)) /\ \A m \in 1..Len(i.chain) : i.chain[m] \in Node(s)
    BY <1>2, <2>2 DEF InfoFacts
  <2>6. nodeOf(i.chain[p].old) \in Node(s) /\ Keeping(t, s, nodeOf(i.chain[p].old), i.chain[p].old, new)
    BY <2>5, <1>6
  <2>7. Len(i.chain) \in Nat
    BY <1>2 DEF InfoFacts
  <2> HIDE DEF c, i
  <2>8. c \in [1..Len(i.chain) -> Node(s)]
    BY <2>4, <2>5, <2>6
  <2>9. c \in Seq(Node(s)) /\ Len(c) = Len(i.chain) /\ c[p] = nodeOf(i.chain[p].old)
        /\ \A m \in 1..Len(i.chain) : m # p => c[m] = i.chain[m]
    BY <2>2, <2>4, <2>7, <2>8
  <2>10. [latest |-> l, chain |-> c] \in Infos(s)
    BY <2>9, <1>5, InfosMake
  <2>11. Extended(i, [latest |-> l, chain |-> c], p)
    BY <2>9 DEF Extended
  <2>12. Own(t, info[s][v].chain) # {}
    BY <1>8 DEF own, i
  <2> QED BY <1>1, <2>2, <2>6, <2>9, <2>10, <2>11, <2>12 DEF i, l
<1> QED BY <1>7, <1>8

Merging(t, s, v, new) ==
    /\ txn' \in [Txns -> Transactions] /\ \A u \in Txns \ {t} : txn'[u] = txn[u]
    /\ info' = [info EXCEPT ![s][v] = Merged(t, s, v, new)] /\ column' = column
    /\ txn[t].phase \in {"active", "updating"} /\ txn'[t].phase \in {"active", "updating"}
    /\ txn'[t].start = txn[t].start /\ txn'[t].at = txn[t].at
    /\ txn'[t].undo = IF Own(t, info[s][v].chain) = {} THEN Append(txn[t].undo, <<s, v>>) ELSE txn[t].undo
    /\ ~CheckForConflicts(t, s, v, DOMAIN new)
    /\ \A r \in DOMAIN new : VectorOf(r) = v

LEMMA MergingKept ==
    ASSUME UInv, NEW t \in Txns, NEW s \in Segments, NEW v \in Vectors, NEW new \in Partial(Content(s)),
           Merging(t, s, v, new)
    PROVE  ChainsKept(t) /\ \A q \in Segments, w \in Vectors : info'[q][w] \in Infos(q)
<1> DEFINE i == info[s][v]
           k == Merged(t, s, v, new)
<1>1. \A q \in Segments, w \in Vectors : InfoFacts(q, info[q][w]) /\ info[q][w] \in Infos(q)
  BY Types DEF UInv, TypeOK
<1>2. info'[s][v] = k /\ \A q \in Segments, w \in Vectors : <<q, w>> # <<s, v>> => info'[q][w] = info[q][w]
  BY DEF Merging, UInv, ShapeInv
<1>3. ShapeInv'
  BY DEF Merging, UInv, ShapeInv
<1>4. k \in Infos(s) /\ InfoFacts(s, k)
  BY MergedFacts, InfosFacts
<1>5. \A q \in Segments, w \in Vectors : info'[q][w] \in Infos(q)
  BY <1>1, <1>2, <1>4
<1>6. t \in Running /\ txn[t].phase # "committed"
  BY DEF Merging, Running
<1>7. /\ Len(i.chain) \in Nat /\ Len(k.chain) \in Nat
      /\ \A m \in 1..Len(i.chain) : i.chain[m].owner \in Txns
  BY <1>1, <1>4 DEF InfoFacts
<1>8. \A m \in 1..Len(i.chain) : i.chain[m].owner # t /\ DOMAIN i.chain[m].old \cap DOMAIN new # {} =>
         txn[i.chain[m].owner].phase = "committed" /\ txn[i.chain[m].owner].commit_id <= txn[t].start
  BY NoConflict DEF Merging
<1>9. ChainGood(i.chain, DOMAIN i.latest, txn)
  BY DEF UInv, ChainInv
<1>10. DOMAIN k.latest = DOMAIN i.latest \union DOMAIN new
       /\ \A r \in DOMAIN i.latest : r \notin DOMAIN new => k.latest[r] = i.latest[r]
  BY MergedFacts
<1>11. \/ /\ ~Holds(t, s, v) /\ Own(t, i.chain) = {}
          /\ \E n : Pushed(i, k, n) /\ Keeping(t, s, n, <<>>, new)
       \/ /\ Own(t, i.chain) # {}
          /\ \E p \in 1..Len(i.chain) : i.chain[p].owner = t /\ Extended(i, k, p) /\ Keeping(t, s, k.chain[p], i.chain[p].old, new)
  BY MergedFacts
<1> HIDE DEF k
\* No entry in front of t's own has a row of the update.
<1>12. \A p, m \in 1..Len(i.chain) :
          i.chain[p].owner = t /\ m # p /\ DOMAIN i.chain[m].old \cap DOMAIN new # {} =>
             /\ i.chain[m].owner \notin RunningIn(txn) /\ ~(m < p)
  <2> SUFFICES ASSUME NEW p \in 1..Len(i.chain), NEW m \in 1..Len(i.chain), i.chain[p].owner = t, m # p,
                      DOMAIN i.chain[m].old \cap DOMAIN new # {}
               PROVE  i.chain[m].owner \notin RunningIn(txn) /\ ~(m < p)
    OBVIOUS
  <2>1. i.chain[m].owner # t
    BY <1>9 DEF ChainGood, OneEach
  <2>2. txn[i.chain[m].owner].phase = "committed" /\ txn[i.chain[m].owner].commit_id <= txn[t].start
    BY <2>1, <1>8
  <2>3. i.chain[m].owner \notin RunningIn(txn)
    BY <2>2 DEF RunningIn
  <2>4. m < p => txn[i.chain[m].owner].commit_id > txn[t].start
    BY <2>2, <1>6, <1>9, RunningIs DEF ChainGood, Younger
  <2>5. txn[i.chain[m].owner].commit_id \in Nat /\ txn[t].start \in Nat
    BY <1>7, Types DEF UInv
  <2> QED BY <2>2, <2>3, <2>4, <2>5
<1>13. ChainGood(k.chain, DOMAIN k.latest, txn)
  <2>1. CASE ~Holds(t, s, v) /\ \E n : Pushed(i, k, n) /\ Keeping(t, s, n, <<>>, new)
    <3>1. PICK n : Pushed(i, k, n) /\ Keeping(t, s, n, <<>>, new)
      BY <2>1
    <3>2. k.chain[1] = n /\ n.owner = t /\ DOMAIN n.old = DOMAIN new /\ Len(k.chain) = Len(i.chain) + 1
      BY <3>1 DEF Pushed, Keeping
    <3>3. \A m \in 1..Len(i.chain) : k.chain[m + 1] = i.chain[m] /\ i.chain[m].owner # t
      BY <2>1, <3>1 DEF Pushed, Holds
    <3>4. \A m \in 1..Len(i.chain) : DOMAIN i.chain[m].old \cap DOMAIN n.old # {} => i.chain[m].owner \notin RunningIn(txn)
      BY <3>2, <3>3, <1>8 DEF RunningIn
    <3>5. DOMAIN i.latest \subseteq DOMAIN k.latest /\ DOMAIN n.old \subseteq DOMAIN k.latest
      BY <3>2, <1>10
    <3> QED BY <3>2, <3>3, <3>4, <3>5, <1>6, <1>7, <1>9, PushGood
  <2>2. CASE \E p \in 1..Len(i.chain) : i.chain[p].owner = t /\ Extended(i, k, p) /\ Keeping(t, s, k.chain[p], i.chain[p].old, new)
    <3>1. PICK p \in 1..Len(i.chain) : i.chain[p].owner = t /\ Extended(i, k, p) /\ Keeping(t, s, k.chain[p], i.chain[p].old, new)
      BY <2>2
    <3>2. /\ Len(k.chain) = Len(i.chain) /\ k.chain[p].owner = i.chain[p].owner
          /\ \A m \in 1..Len(i.chain) : m # p => k.chain[m] = i.chain[m]
          /\ DOMAIN k.chain[p].old = DOMAIN i.chain[p].old \union DOMAIN new
      BY <3>1 DEF Extended, Keeping
    <3>3. \A m \in 1..Len(i.chain) : m # p /\ DOMAIN i.chain[m].old \cap DOMAIN new # {} =>
             i.chain[m].owner \notin RunningIn(txn) /\ ~(m < p)
      BY <3>1, <1>12
    <3>4. DOMAIN i.latest \subseteq DOMAIN k.latest /\ DOMAIN new \subseteq DOMAIN k.latest
      BY <1>10
    <3> HIDE DEF i
    <3> QED BY <3>2, <3>3, <3>4, <1>7, <1>9, ExtendGood
  <2> QED BY <1>11, <2>1, <2>2
<1>14. Moved(t)
  BY <1>6 DEF Moved, Merging
<1>15. ChainInv'
  <2> SUFFICES ASSUME NEW q \in Segments, NEW w \in Vectors
               PROVE  ChainGood(info'[q][w].chain, DOMAIN info'[q][w].latest, txn')
    BY DEF ChainInv
  <2>1. CASE <<q, w>> = <<s, v>>
    <3>1. Moves(k.chain, txn, txn')
      <4> SUFFICES ASSUME NEW m \in 1..Len(k.chain), NEW u, u = k.chain[m].owner
                   PROVE  /\ u \in RunningIn(txn') => u \in RunningIn(txn) /\ txn'[u].start = txn[u].start
                          /\ txn'[u].phase = "committed" =>
                                \/ txn[u].phase = "committed" /\ txn'[u].commit_id = txn[u].commit_id
                                \/ \A a \in RunningIn(txn') : txn'[u].commit_id > txn'[a].start
        BY DEF Moves
      <4>1. u \in Txns
        BY <1>4 DEF InfoFacts
      <4>2. CASE u = t
        BY <4>2, <1>6, RunningIs DEF Merging
      <4>3. CASE u # t
        BY <4>1, <4>3 DEF Merging, RunningIn
      <4> QED BY <4>2, <4>3
    <3>2. ChainGood(k.chain, DOMAIN k.latest, txn')
      BY <3>1, <1>7, <1>13, SameGood
    <3> QED BY <2>1, <3>2, <1>2
  <2>2. CASE <<q, w>> # <<s, v>>
    <3>1. Moves(info[q][w].chain, txn, txn')
      BY <1>14, MovesChain DEF Merging
    <3>2. ChainGood(info[q][w].chain, DOMAIN info[q][w].latest, txn) /\ Len(info[q][w].chain) \in Nat
      BY <1>1 DEF UInv, ChainInv, InfoFacts
    <3>3. ChainGood(info[q][w].chain, DOMAIN info[q][w].latest, txn')
      BY <3>1, <3>2, SameGood
    <3> QED BY <2>2, <3>3, <1>2
  <2> QED BY <2>1, <2>2
<1>16. Holds(t, s, v)' /\ \A m \in 1..Len(k.chain) : k.chain[m].owner = t => k.chain[m].version = TransactionId(t)
  <2>1. CASE ~Holds(t, s, v) /\ \E n : Pushed(i, k, n) /\ Keeping(t, s, n, <<>>, new)
    <3>1. PICK n : Pushed(i, k, n) /\ Keeping(t, s, n, <<>>, new)
      BY <2>1
    <3>2. k.chain[1] = n /\ n.owner = t /\ n.version = TransactionId(t) /\ 1 \in 1..Len(k.chain)
      BY <3>1, <1>7 DEF Pushed, Keeping
    <3>3. ChainGood(k.chain, DOMAIN k.latest, txn)
      BY <1>13
    <3> QED BY <3>2, <3>3, <1>2 DEF ChainGood, OneEach, Holds
  <2>2. CASE \E p \in 1..Len(i.chain) : i.chain[p].owner = t /\ Extended(i, k, p) /\ Keeping(t, s, k.chain[p], i.chain[p].old, new)
    <3>1. PICK p \in 1..Len(i.chain) : i.chain[p].owner = t /\ Extended(i, k, p) /\ Keeping(t, s, k.chain[p], i.chain[p].old, new)
      BY <2>2
    <3>2. k.chain[p].owner = t /\ k.chain[p].version = TransactionId(t) /\ p \in 1..Len(k.chain)
      BY <3>1 DEF Extended, Keeping
    <3> QED BY <3>2, <1>2, <1>13 DEF ChainGood, OneEach, Holds
  <2> QED BY <1>11, <2>1, <2>2
<1>17. StepOf(t)
  <2> SUFFICES ASSUME NEW q \in Segments, NEW w \in Vectors PROVE Spared(t, q, w)
    BY DEF StepOf, Merging
  <2>1. CASE <<q, w>> # <<s, v>>
    BY <2>1, <1>2 DEF Spared
  <2>2. CASE <<q, w>> = <<s, v>> /\ \E n : Pushed(i, k, n) /\ Keeping(t, s, n, <<>>, new)
    <3>1. PICK n : Pushed(i, k, n) /\ Keeping(t, s, n, <<>>, new)
      BY <2>2
    <3>2. /\ k.chain[1] = n /\ n.owner = t /\ Len(k.chain) = Len(i.chain) + 1
          /\ \A m \in 1..Len(i.chain) : k.chain[m + 1] = i.chain[m]
      BY <3>1 DEF Pushed, Keeping
    <3>3. \A m \in 1..Len(k.chain) : m # 1 => m - 1 \in 1..Len(i.chain) /\ (m - 1) + 1 = m
      BY <3>2, <1>7
    <3>4. \A m \in 1..Len(k.chain) : k.chain[m].owner # t => \E j \in 1..Len(i.chain) : k.chain[m] = i.chain[j]
      <4> SUFFICES ASSUME NEW m \in 1..Len(k.chain), k.chain[m].owner # t
                   PROVE  \E j \in 1..Len(i.chain) : k.chain[m] = i.chain[j]
        OBVIOUS
      <4>1. m # 1
        BY <3>2
      <4>2. m - 1 \in 1..Len(i.chain) /\ k.chain[m] = i.chain[m - 1]
        BY <4>1, <3>2, <3>3
      <4> QED BY <4>2
    <3>5. \A m \in 1..Len(i.chain) : m + 1 \in 1..Len(k.chain)
      BY <3>2, <1>7
    <3>6. \A j \in 1..Len(i.chain) : \E m \in 1..Len(k.chain) : k.chain[m].owner = i.chain[j].owner
      BY <3>2, <3>5
    <3>7. q = s /\ w = v
      BY <2>2
    <3> QED BY <3>4, <3>6, <3>7, <1>2 DEF Spared
  <2>3. CASE <<q, w>> = <<s, v>> /\ \E p \in 1..Len(i.chain) : i.chain[p].owner = t /\ Extended(i, k, p) /\ Keeping(t, s, k.chain[p], i.chain[p].old, new)
    <3>1. PICK p \in 1..Len(i.chain) : i.chain[p].owner = t /\ Extended(i, k, p) /\ Keeping(t, s, k.chain[p], i.chain[p].old, new)
      BY <2>3
    <3>2. /\ Len(k.chain) = Len(i.chain) /\ k.chain[p].owner = t
          /\ \A m \in 1..Len(i.chain) : m # p => k.chain[m] = i.chain[m]
      BY <3>1 DEF Extended, Keeping
    <3> QED BY <2>3, <3>1, <3>2, <1>2 DEF Spared
  <2> QED BY <1>11, <2>1, <2>2, <2>3
<1>18. VersionInv'
  <2> SUFFICES ASSUME NEW q \in Segments, NEW w \in Vectors, NEW m \in 1..Len(info'[q][w].chain),
                      NEW o, o = info'[q][w].chain[m].owner
               PROVE  info'[q][w].chain[m].version = VersionOf(o, q, w)'
    BY DEF VersionInv
  <2>1. CASE o # t
    BY <2>1, <1>17, OthersVersion
  <2>2. CASE o = t
    <3>1. VersionOf(t, q, w)' = TransactionId(t) /\ VersionOf(t, q, w) = TransactionId(t)
      BY DEF Merging, VersionOf, TransactionId
    <3>2. CASE <<q, w>> = <<s, v>>
      BY <3>1, <3>2, <2>2, <1>2, <1>16
    <3>3. CASE <<q, w>> # <<s, v>>
      <4>1. info'[q][w] = info[q][w]
        BY <3>3, <1>2
      <4> QED BY <4>1, <3>1, <2>2 DEF UInv, VersionInv
    <3> QED BY <3>2, <3>3
  <2> QED BY <2>1, <2>2
<1>19. UndoOf(t)'
  <2> DEFINE old == txn[t].undo
             undo == txn'[t].undo
  <2>1. old \in Seq(Segments \X Vectors) /\ Len(old) \in Nat
    BY Types DEF UInv
  <2>2. UndoOf(t) /\ Undone(t) = Len(old) /\ Undone(t)' = Len(undo)
    BY <1>6 DEF UInv, UndoInv, Undone, Merging
  <2>3. \A q \in Segments, w \in Vectors : <<q, w>> # <<s, v>> => (Holds(t, q, w)' <=> Holds(t, q, w))
    BY <1>2 DEF Holds
  <2>4. Holds(t, s, v) <=> Own(t, i.chain) # {}
    BY <1>1 DEF Holds, Own, InfoFacts
  <2>5. /\ \A a, b \in 1..Len(old) : old[a] = old[b] => a = b
        /\ \A a \in 1..Len(old) : \E q \in Segments, w \in Vectors : old[a] = <<q, w>> /\ Holds(t, q, w)
        /\ \A q \in Segments, w \in Vectors : Holds(t, q, w) => \E a \in 1..Len(old) : old[a] = <<q, w>>
    <3>1. \A a \in 1..Len(old) : old[a] \in Segments \X Vectors /\ Holds(t, old[a][1], old[a][2])
      BY <2>1, <2>2 DEF UndoOf
    <3>2. \A a \in 1..Len(old) : \E q \in Segments, w \in Vectors : old[a] = <<q, w>> /\ Holds(t, q, w)
      <4> TAKE a \in 1..Len(old)
      <4>1. PICK q \in Segments, w \in Vectors : old[a] = <<q, w>>
        BY <3>1
      <4>2. Holds(t, q, w)
        BY <3>1, <4>1
      <4> QED BY <4>1, <4>2
    <3> QED BY <3>2, <2>2 DEF UndoOf
  <2>6. /\ \A a, b \in 1..Len(undo) : undo[a] = undo[b] => a = b
        /\ \A a \in 1..Len(undo) : \E q \in Segments, w \in Vectors : undo[a] = <<q, w>> /\ Holds(t, q, w)'
        /\ \A q \in Segments, w \in Vectors : Holds(t, q, w)' => \E a \in 1..Len(undo) : undo[a] = <<q, w>>
    <3>1. CASE Own(t, i.chain) = {}
      <4>1. undo = Append(old, <<s, v>>)
        BY <3>1 DEF Merging
      <4> HIDE DEF undo, old
      <4>2. Len(undo) = Len(old) + 1 /\ undo[Len(old) + 1] = <<s, v>> /\ \A a \in 1..Len(old) : undo[a] = old[a]
        BY <4>1, <2>1
      <4>3. \A a \in 1..Len(old) : old[a] # <<s, v>>
        <5> SUFFICES ASSUME NEW a \in 1..Len(old), old[a] = <<s, v>> PROVE FALSE
          OBVIOUS
        <5>1. PICK q \in Segments, w \in Vectors : old[a] = <<q, w>> /\ Holds(t, q, w)
          BY <2>5
        <5>2. q = s /\ w = v
          BY <5>1
        <5> QED BY <5>1, <5>2, <2>4, <3>1
      <4>4. \A a \in 1..Len(undo) : a = Len(old) + 1 \/ a \in 1..Len(old)
        BY <4>2, <2>1
      <4>5. \A a, b \in 1..Len(undo) : undo[a] = undo[b] => a = b
        BY <4>2, <4>3, <4>4, <2>5
      <4>6. ASSUME NEW a \in 1..Len(undo)
            PROVE  \E q \in Segments, w \in Vectors : undo[a] = <<q, w>> /\ Holds(t, q, w)'
        <5>1. CASE a = Len(old) + 1
          BY <5>1, <4>2, <1>16
        <5>2. CASE a \in 1..Len(old)
          <6>1. PICK q \in Segments, w \in Vectors : old[a] = <<q, w>> /\ Holds(t, q, w)
            BY <5>2, <2>5
          <6>2. <<q, w>> # <<s, v>> /\ undo[a] = <<q, w>>
            BY <6>1, <5>2, <4>2, <4>3
          <6>3. Holds(t, q, w)'
            BY <6>1, <6>2, <2>3
          <6> QED BY <6>2, <6>3
        <5> QED BY <5>1, <5>2, <4>4
      <4>7. ASSUME NEW q \in Segments, NEW w \in Vectors, Holds(t, q, w)'
            PROVE  \E a \in 1..Len(undo) : undo[a] = <<q, w>>
        <5>1. CASE <<q, w>> = <<s, v>>
          <6>1. Len(old) + 1 \in 1..Len(undo)
            BY <4>2, <2>1
          <6> QED BY <6>1, <5>1, <4>2
        <5>2. CASE <<q, w>> # <<s, v>>
          <6>1. PICK a \in 1..Len(old) : old[a] = <<q, w>>
            BY <5>2, <4>7, <2>3, <2>5
          <6>2. a \in 1..Len(undo) /\ undo[a] = <<q, w>>
            BY <6>1, <4>2, <2>1
          <6> QED BY <6>2
        <5> QED BY <5>1, <5>2
      <4> QED BY <4>5, <4>6, <4>7
    <3>2. CASE Own(t, i.chain) # {}
      <4>1. undo = old
        BY <3>2 DEF Merging
      <4> HIDE DEF undo, old
      <4>2. \A q \in Segments, w \in Vectors : Holds(t, q, w)' <=> Holds(t, q, w)
        <5> TAKE q \in Segments, w \in Vectors
        <5>1. CASE <<q, w>> = <<s, v>>
          <6>1. q = s /\ w = v
            BY <5>1
          <6> QED BY <6>1, <2>4, <3>2, <1>16
        <5> QED BY <5>1, <2>3
      <4> QED BY <4>1, <4>2, <2>5
    <3> QED BY <3>1, <3>2
  <2>7. \A a \in 1..Len(undo) : Holds(t, txn[t].undo[a][1], txn[t].undo[a][2])'
    <3> TAKE a \in 1..Len(undo)
    <3>1. PICK q \in Segments, w \in Vectors : undo[a] = <<q, w>> /\ Holds(t, q, w)'
      BY <2>6
    <3>2. q = txn'[t].undo[a][1] /\ w = txn'[t].undo[a][2]
      BY <3>1
    <3> QED BY <3>1, <3>2 DEF Holds
  <2>8. txn'[t].at = 0 /\ txn'[t].at <= Len(txn'[t].undo)
    <3>1. txn'[t].at = 0
      BY <2>2 DEF UndoOf, Merging
    <3>2. txn'[t] \in Transactions
      BY DEF Merging
    <3>3. Len(txn'[t].undo) \in Nat
      BY <3>2 DEF Transactions
    <3> QED BY <3>1, <3>3
  <2>9. /\ \A a \in 1..Undone(t)' : Holds(t, txn[t].undo[a][1], txn[t].undo[a][2])'
        /\ \A q \in Segments, w \in Vectors : Holds(t, q, w)' => \E a \in 1..Undone(t)' : txn'[t].undo[a] = <<q, w>>
    BY <2>2, <2>6, <2>7
  <2> QED BY <2>6, <2>8, <2>9 DEF UndoOf
<1>20. UndoInv'
  BY <1>17, <1>19, OthersUndo DEF UndoInv
<1>21. ChainsReleased'
  <2> SUFFICES ASSUME NEW q \in Segments, NEW w \in Vectors, NEW m \in DOMAIN info'[q][w].chain,
                      NEW u, u = info'[q][w].chain[m].owner
               PROVE  \/ u \in Running'
                      \/ txn'[u].phase = "committed" /\ \E a \in Running' : txn'[a].start <= txn'[u].commit_id
    BY DEF ChainsReleased
  <2>1. Running = Running'
    BY DEF Running, Merging
  <2>2. CASE u = t
    BY <2>1, <2>2, <1>6
  <2>3. CASE u # t
    <3>1. m \in 1..Len(info'[q][w].chain)
      BY <1>5, InfosFacts DEF InfoFacts
    <3>2. PICK j \in 1..Len(info[q][w].chain) : info'[q][w].chain[m] = info[q][w].chain[j]
      BY <3>1, <2>3, <1>17 DEF StepOf, Spared
    <3>3. j \in DOMAIN info[q][w].chain /\ u = info[q][w].chain[j].owner /\ u \in Txns
      BY <3>2, <1>1 DEF InfoFacts
    <3>4. u \in Running \/ (txn[u].phase = "committed" /\ \E a \in Running : txn[a].start <= txn[u].commit_id)
      BY <3>3 DEF UInv, ChainsReleased
    <3>5. txn'[u] = txn[u] /\ \A a \in Running : txn'[a].start = txn[a].start
      BY <3>3, <2>3 DEF Merging, Running
    <3> QED BY <3>4, <3>5, <2>1
  <2> QED BY <2>2, <2>3
<1>22. OthersRead(t)
  <2> SUFFICES ASSUME NEW u \in Txns \ {t}, NEW q \in Segments, NEW r \in Rows, txn[u].phase = "active"
               PROVE  Reads(u, q, r)' = Reads(u, q, r)
    BY DEF OthersRead
  <2>1. txn'[u] = txn[u] /\ column'[q][r] = column[q][r] /\ TransactionId(u)' = TransactionId(u)
    BY DEF Merging, TransactionId
  <2>2. CASE <<q, VectorOf(r)>> # <<s, v>>
    <3>1. info'[q][VectorOf(r)] = info[q][VectorOf(r)]
      BY <2>2, <1>2 DEF Vectors
    <3> QED BY <2>1, <3>1 DEF Reads
  <2>3. CASE q = s /\ VectorOf(r) = v
    <3> DEFINE x == column[q][r]
               start == txn[u].start
               id == TransactionId(u)
    <3>1. start \in Nat /\ id \in Nat /\ TransactionId(t) \in Nat /\ start < clock /\ clock \in Nat
      BY Types DEF UInv, ClockInv, Running
    <3>2. clock < TransactionId(t) /\ TransactionId(t) # id
      BY <3>1, Bounded, UpdateAssumption, Types DEF UInv, TransactionId
    <3>3. \A n : n.version = TransactionId(t) => UpdatesForTransaction(n, start, id)
      BY <3>1, <3>2 DEF UpdatesForTransaction
    <3>4. FetchCommitted(s, r) = Base(i.latest, x, r)
      BY <2>3 DEF FetchCommitted, Base
    <3>5. r \notin DOMAIN new => Base(k.latest, x, r) = Base(i.latest, x, r)
      BY <1>10 DEF Base
    <3> HIDE DEF x, start, id
    <3>6. Shown(k, x, r, start, id) = Shown(i, x, r, start, id)
      <4>1. CASE \E n : Pushed(i, k, n) /\ Keeping(t, s, n, <<>>, new)
        <5>1. PICK n : Pushed(i, k, n) /\ Keeping(t, s, n, <<>>, new)
          BY <4>1
        <5>2. UpdatesForTransaction(n, start, id)
          BY <5>1, <3>3 DEF Keeping
        <5>3. r \in DOMAIN n.old => n.old[r] = Base(i.latest, x, r)
          BY <5>1, <3>4 DEF Keeping
        <5>4. r \notin DOMAIN n.old => Base(k.latest, x, r) = Base(i.latest, x, r)
          BY <5>1, <3>5 DEF Keeping
        <5> HIDE DEF i
        <5> QED BY <5>1, <5>2, <5>3, <5>4, <1>7, ShownPush
      <4>2. CASE \E p \in 1..Len(i.chain) : i.chain[p].owner = t /\ Extended(i, k, p) /\ Keeping(t, s, k.chain[p], i.chain[p].old, new)
        <5>1. PICK p \in 1..Len(i.chain) : i.chain[p].owner = t /\ Extended(i, k, p) /\ Keeping(t, s, k.chain[p], i.chain[p].old, new)
          BY <4>2
        <5>2. UpdatesForTransaction(k.chain[p], start, id)
          BY <5>1, <3>3 DEF Keeping
        <5>3. i.chain[p].version = TransactionId(t)
          BY <5>1 DEF UInv, VersionInv, VersionOf, Merging
        <5>4. UpdatesForTransaction(i.chain[p], start, id)
          BY <5>3, <3>3
        <5>5. /\ r \in DOMAIN i.chain[p].old =>
                    r \in DOMAIN k.chain[p].old /\ k.chain[p].old[r] = i.chain[p].old[r]
              /\ r \in DOMAIN k.chain[p].old \ DOMAIN i.chain[p].old =>
                    k.chain[p].old[r] = Base(i.latest, x, r) /\ r \in DOMAIN new
              /\ r \notin DOMAIN k.chain[p].old => Base(k.latest, x, r) = Base(i.latest, x, r)
          BY <5>1, <3>4, <3>5 DEF Keeping
        <5>6. r \in DOMAIN k.chain[p].old \ DOMAIN i.chain[p].old =>
                 \A m \in 1..Len(i.chain) : m < p => r \notin DOMAIN i.chain[m].old
          BY <5>1, <5>5, <1>12
        <5>7. /\ Len(k.chain) = Len(i.chain)
              /\ \A m \in 1..Len(i.chain) : m # p => k.chain[m] = i.chain[m]
          BY <5>1 DEF Extended
        <5> HIDE DEF i
        <5> QED BY <5>2, <5>4, <5>5, <5>6, <5>7, <1>7, ShownExtend
      <4> QED BY <1>11, <4>1, <4>2
    <3> QED BY <2>1, <2>3, <3>6, <1>2 DEF Reads, x, start, id
  <2> QED BY <2>2, <2>3
<1> QED BY <1>3, <1>5, <1>15, <1>18, <1>20, <1>21, <1>22 DEF ChainsKept

-----------------------------------------------------------------------------
(* Commit goes through the entries, and back                               *)

LEMMA ShownSame ==
    ASSUME NEW i, NEW k, Len(i.chain) \in Nat, Len(k.chain) = Len(i.chain), k.latest = i.latest,
           NEW stored, NEW r, NEW start, NEW id,
           \A n \in 1..Len(i.chain) :
              /\ k.chain[n].old = i.chain[n].old
              /\ Applies(k.chain[n], r, start, id) <=> Applies(i.chain[n], r, start, id)
    PROVE  Shown(k, stored, r, start, id) = Shown(i, stored, r, start, id)
<1> DEFINE A == Applied(i.chain, r, start, id)
<1>1. Applied(k.chain, r, start, id) = A
  BY DEF Applied
<1>2. A \in SUBSET (1..Len(i.chain))
  BY DEF Applied
<1>3. Base(k.latest, stored, r) = Base(i.latest, stored, r)
  BY DEF Base
<1>4. A # {} => Max(A) \in 1..Len(i.chain)
  <2> HIDE DEF A
  <2> QED BY <1>2, MaxIs
<1>5. A # {} => k.chain[Max(A)].old[r] = i.chain[Max(A)].old[r]
  <2> HIDE DEF A
  <2> QED BY <1>4
<1> HIDE DEF A
<1>6. Shown(k, stored, r, start, id) = IF A = {} THEN Base(k.latest, stored, r) ELSE k.chain[Max(A)].old[r]
  BY <1>1 DEF Shown
<1>7. Shown(i, stored, r, start, id) = IF A = {} THEN Base(i.latest, stored, r) ELSE i.chain[Max(A)].old[r]
  BY DEF Shown, A
<1> QED BY <1>3, <1>5, <1>6, <1>7

\* The chain of k is that of i, but for the versions of t's entries.
Reversioned(t, i, k) ==
    /\ k.latest = i.latest /\ Len(k.chain) = Len(i.chain)
    /\ \A m \in 1..Len(i.chain) :
          /\ k.chain[m].owner = i.chain[m].owner /\ k.chain[m].old = i.chain[m].old
          /\ i.chain[m].owner # t => k.chain[m] = i.chain[m]

LEMMA WithVersionFacts ==
    ASSUME NEW s, NEW i \in Infos(s), NEW t, NEW version \in Nat
    PROVE  /\ WithVersion(t, i, version) \in Infos(s)
           /\ Reversioned(t, i, WithVersion(t, i, version))
           /\ \A m \in 1..Len(i.chain) :
                 i.chain[m].owner = t => WithVersion(t, i, version).chain[m].version = version
<1> DEFINE c == [n \in DOMAIN i.chain |-> IF i.chain[n].owner = t THEN [i.chain[n] EXCEPT !.version = version] ELSE i.chain[n]]
<1>1. InfoFacts(s, i)
  BY InfosFacts
<1>2. WithVersion(t, i, version) = [latest |-> i.latest, chain |-> c]
  <2>1. i = [latest |-> i.latest, chain |-> i.chain]
    BY <1>1 DEF InfoFacts
  <2>2. WithVersion(t, i, version) = [i EXCEPT !.chain = c]
    BY DEF WithVersion
  <2> HIDE DEF c
  <2> QED BY <2>1, <2>2
<1>3. DOMAIN i.chain = 1..Len(i.chain) /\ Len(i.chain) \in Nat /\ \A n \in 1..Len(i.chain) : i.chain[n] \in Node(s)
  BY <1>1 DEF InfoFacts
<1>4. \A n \in 1..Len(i.chain) : [i.chain[n] EXCEPT !.version = version] \in Node(s)
  BY <1>3 DEF Node
<1>5. c \in [1..Len(i.chain) -> Node(s)]
  BY <1>3, <1>4
<1>6. ASSUME NEW m \in 1..Len(i.chain)
      PROVE  /\ c[m].owner = i.chain[m].owner /\ c[m].old = i.chain[m].old
             /\ i.chain[m].owner # t => c[m] = i.chain[m]
             /\ i.chain[m].owner = t => c[m].version = version
  <2>1. i.chain[m] \in Node(s) /\ m \in DOMAIN i.chain
    BY <1>3
  <2>2. c[m] = IF i.chain[m].owner = t THEN [i.chain[m] EXCEPT !.version = version] ELSE i.chain[m]
    BY <2>1
  <2> HIDE DEF c
  <2> QED BY <2>1, <2>2 DEF Node
<1> HIDE DEF c
<1>7. c \in Seq(Node(s)) /\ Len(c) = Len(i.chain)
  BY <1>3, <1>5
<1>8. i.latest \in Partial(Content(s))
  BY <1>1 DEF InfoFacts
<1>9. [latest |-> i.latest, chain |-> c] \in Infos(s)
  BY <1>7, <1>8, InfosMake
<1> QED BY <1>2, <1>6, <1>7, <1>9 DEF Reversioned

Remarking(t) ==
    /\ txn' \in [Txns -> Transactions] /\ \A u \in Txns \ {t} : txn'[u] = txn[u]
    /\ column' = column /\ ShapeInv'
    /\ txn[t].phase = "committing"
    /\ txn'[t].start = txn[t].start /\ txn'[t].commit_id = txn[t].commit_id /\ txn'[t].undo = txn[t].undo
    /\ \/ txn'[t].phase = "committing" /\ txn'[t].at <= Len(txn[t].undo)
       \/ txn'[t].phase = "rolling_back" /\ txn'[t].at = Len(txn[t].undo)
    /\ \A q \in Segments, w \in Vectors :
          /\ info'[q][w] \in Infos(q)
          /\ Reversioned(t, info[q][w], info'[q][w])
          /\ \A m \in 1..Len(info[q][w].chain) : info[q][w].chain[m].owner = t =>
                info'[q][w].chain[m].version = VersionOf(t, q, w)'

LEMMA RemarkingKept ==
    ASSUME UInv, NEW t \in Txns, Remarking(t)
    PROVE  ChainsKept(t)
<1>1. \A q \in Segments, w \in Vectors : InfoFacts(q, info[q][w])
  BY Types DEF UInv
<1>2. t \in Running /\ Running' = Running
  BY DEF Remarking, Running
<1>3. \A q \in Segments, w \in Vectors : Reversioned(t, info[q][w], info'[q][w])
  BY DEF Remarking
<1>4. StepOf(t)
  <2>1. ASSUME NEW q \in Segments, NEW w \in Vectors PROVE Spared(t, q, w)
    <3>1. /\ Len(info'[q][w].chain) = Len(info[q][w].chain)
          /\ \A m \in 1..Len(info[q][w].chain) :
                /\ info'[q][w].chain[m].owner = info[q][w].chain[m].owner
                /\ info[q][w].chain[m].owner # t => info'[q][w].chain[m] = info[q][w].chain[m]
      BY <1>3 DEF Reversioned
    <3> QED BY <3>1 DEF Spared
  <2> QED BY <2>1 DEF StepOf, Remarking
<1>5. Moved(t)
  BY <1>2 DEF Moved, Remarking
<1>6. ChainInv'
  <2> SUFFICES ASSUME NEW q \in Segments, NEW w \in Vectors
               PROVE  ChainGood(info'[q][w].chain, DOMAIN info'[q][w].latest, txn')
    BY DEF ChainInv
  <2>1. Moves(info[q][w].chain, txn, txn')
    BY <1>5, MovesChain DEF Remarking
  <2>2. ChainGood(info[q][w].chain, DOMAIN info[q][w].latest, txn) /\ Len(info[q][w].chain) \in Nat
    BY <1>1 DEF UInv, ChainInv, InfoFacts
  <2>3. /\ info'[q][w].latest = info[q][w].latest /\ Len(info'[q][w].chain) = Len(info[q][w].chain)
        /\ \A m \in 1..Len(info'[q][w].chain) : /\ info'[q][w].chain[m].owner = info[q][w].chain[m].owner
                                               /\ info'[q][w].chain[m].old = info[q][w].chain[m].old
    BY <1>3 DEF Reversioned
  <2>4. ChainGood(info'[q][w].chain, DOMAIN info[q][w].latest, txn')
    BY <2>1, <2>2, <2>3, SameGood
  <2> QED BY <2>3, <2>4
<1>7. VersionInv'
  <2> SUFFICES ASSUME NEW q \in Segments, NEW w \in Vectors, NEW m \in 1..Len(info'[q][w].chain),
                      NEW o, o = info'[q][w].chain[m].owner
               PROVE  info'[q][w].chain[m].version = VersionOf(o, q, w)'
    BY DEF VersionInv
  <2>1. CASE o # t
    BY <2>1, <1>4, OthersVersion
  <2>2. CASE o = t
    <3>1. m \in 1..Len(info[q][w].chain) /\ info[q][w].chain[m].owner = t
      BY <2>2, <1>3 DEF Reversioned
    <3> QED BY <2>2, <3>1 DEF Remarking
  <2> QED BY <2>1, <2>2
<1>8. UndoOf(t)'
  <2>1. \A q \in Segments, w \in Vectors : Holds(t, q, w)' <=> Holds(t, q, w)
    BY <1>3 DEF Reversioned, Holds
  <2>2. UndoOf(t) /\ Undone(t) = Len(txn[t].undo) /\ Undone(t)' = Len(txn[t].undo)
    BY <1>2 DEF UInv, UndoInv, Undone, Remarking
  <2>3. txn'[t].undo = txn[t].undo /\ Len(txn[t].undo) \in Nat
    BY Types DEF UInv, Remarking
  <2>4. \A k \in 1..Len(txn[t].undo) : Holds(t, txn[t].undo[k][1], txn[t].undo[k][2])'
    <3> TAKE k \in 1..Len(txn[t].undo)
    <3>1. txn[t].undo[k] \in Segments \X Vectors
      BY Types DEF UInv
    <3>2. PICK q \in Segments, w \in Vectors : txn[t].undo[k][1] = q /\ txn[t].undo[k][2] = w
      BY <3>1
    <3>3. Holds(t, q, w)
      BY <3>2, <2>2 DEF UndoOf
    <3>4. Holds(t, q, w)'
      BY <3>3, <2>1
    <3> QED BY <3>2, <3>4, <2>3 DEF Holds
  <2>5. \A q \in Segments, w \in Vectors : Holds(t, q, w)' => \E k \in 1..Len(txn[t].undo) : txn[t].undo[k] = <<q, w>>
    BY <2>1, <2>2 DEF UndoOf
  <2>6. \A k, l \in 1..Len(txn'[t].undo) : txn'[t].undo[k] = txn'[t].undo[l] => k = l
    BY <2>2, <2>3 DEF UndoOf
  <2>7. /\ txn'[t].at <= Len(txn'[t].undo)
        /\ txn'[t].phase \notin {"committing", "rolling_back"} => txn'[t].at = 0
    BY <2>3 DEF Remarking
  <2>8. /\ \A k \in 1..Undone(t)' : Holds(t, txn[t].undo[k][1], txn[t].undo[k][2])'
        /\ \A q \in Segments, w \in Vectors : Holds(t, q, w)' => \E k \in 1..Undone(t)' : txn'[t].undo[k] = <<q, w>>
    BY <2>2, <2>3, <2>4, <2>5
  <2> QED BY <2>6, <2>7, <2>8 DEF UndoOf
<1>9. UndoInv'
  BY <1>4, <1>8, OthersUndo DEF UndoInv
<1>10. ChainsReleased'
  <2> SUFFICES ASSUME NEW q \in Segments, NEW w \in Vectors, NEW m \in DOMAIN info'[q][w].chain,
                      NEW u, u = info'[q][w].chain[m].owner
               PROVE  \/ u \in Running'
                      \/ txn'[u].phase = "committed" /\ \E a \in Running' : txn'[a].start <= txn'[u].commit_id
    BY DEF ChainsReleased
  <2>1. m \in 1..Len(info'[q][w].chain)
    BY InfosFacts DEF InfoFacts, Remarking
  <2>2. m \in DOMAIN info[q][w].chain /\ u = info[q][w].chain[m].owner /\ u \in Txns
    <3>1. Reversioned(t, info[q][w], info'[q][w]) /\ InfoFacts(q, info[q][w])
      BY <1>1, <1>3
    <3>2. m \in 1..Len(info[q][w].chain) /\ u = info[q][w].chain[m].owner
      BY <2>1, <3>1 DEF Reversioned
    <3> QED BY <3>1, <3>2 DEF InfoFacts
  <2>3. u \in Running \/ (txn[u].phase = "committed" /\ \E a \in Running : txn[a].start <= txn[u].commit_id)
    BY <2>2 DEF UInv, ChainsReleased
  <2>4. txn'[u].commit_id = txn[u].commit_id /\ \A a \in Running : txn'[a].start = txn[a].start
    BY <2>2 DEF Remarking, Running
  <2>5. u # t => txn'[u].phase = txn[u].phase
    BY <2>2 DEF Remarking
  <2> QED BY <2>3, <2>4, <2>5, <1>2
<1>11. OthersRead(t)
  <2> SUFFICES ASSUME NEW u \in Txns \ {t}, NEW q \in Segments, NEW r \in Rows, txn[u].phase = "active"
               PROVE  Reads(u, q, r)' = Reads(u, q, r)
    BY DEF OthersRead
  <2> DEFINE w == VectorOf(r)
             i == info[q][w]
             k == info'[q][w]
             start == txn[u].start
             id == TransactionId(u)
  <2>1. txn'[u] = txn[u] /\ column'[q][r] = column[q][r] /\ TransactionId(u)' = TransactionId(u) /\ w \in Vectors
    BY DEF Remarking, TransactionId, Vectors
  <2>2. InfoFacts(q, i) /\ Reversioned(t, i, k)
    BY <2>1, <1>1, <1>3
  <2>3. /\ start \in Nat /\ id \in Nat /\ TransactionId(t) \in Nat /\ clock \in Nat /\ txn[t].commit_id \in Nat
        /\ t \in Nat /\ u \in Nat
    BY Types DEF UInv
  <2>4. start < txn[t].commit_id /\ txn[t].commit_id < clock /\ start < clock
    BY DEF UInv, ClockInv, Running, Remarking
  <2>5. clock < TransactionId(t) /\ clock < id
    BY <2>3, Bounded DEF UInv
  <2>6. TransactionId(t) # id
    BY <2>3, UpdateAssumption DEF TransactionId
  <2>7. \A x \in {txn[t].commit_id, TransactionId(t)} : x > start /\ x # id
    BY <2>3, <2>4, <2>5, <2>6
  <2>8. ASSUME NEW m \in 1..Len(i.chain)
        PROVE  /\ k.chain[m].old = i.chain[m].old
               /\ Applies(k.chain[m], r, start, id) <=> Applies(i.chain[m], r, start, id)
    <3>1. CASE i.chain[m].owner # t
      BY <3>1, <2>2 DEF Reversioned
    <3>2. CASE i.chain[m].owner = t
      <4>1. i.chain[m].version = VersionOf(t, q, w)
        BY <3>2, <2>1 DEF UInv, VersionInv
      <4>2. k.chain[m].version = VersionOf(t, q, w)'
        BY <3>2, <2>1 DEF Remarking
      <4>3. VersionOf(t, q, w) \in {txn[t].commit_id, TransactionId(t)}
        BY DEF VersionOf
      <4>4. VersionOf(t, q, w)' \in {txn[t].commit_id, TransactionId(t)}
        BY DEF VersionOf, Remarking, TransactionId
      <4>5. k.chain[m].old = i.chain[m].old
        BY <2>2 DEF Reversioned
      <4> HIDE DEF i, k, start, id
      <4> QED BY <4>1, <4>2, <4>3, <4>4, <4>5, <2>7 DEF Applies, UpdatesForTransaction
    <3> QED BY <3>1, <3>2
  <2>9. Len(i.chain) \in Nat /\ Len(k.chain) = Len(i.chain) /\ k.latest = i.latest
    BY <2>2 DEF InfoFacts, Reversioned
  <2> HIDE DEF i, k, start, id, w
  <2>10. Shown(k, column[q][r], r, start, id) = Shown(i, column[q][r], r, start, id)
    BY <2>8, <2>9, ShownSame
  <2> QED BY <2>1, <2>10 DEF Reads, i, k, start, id, w
<1> QED BY <1>6, <1>7, <1>9, <1>10, <1>11 DEF ChainsKept, Remarking

-----------------------------------------------------------------------------
(* Rollback undoes the entries, newest first                               *)

\* k is i without its entry p, which is t's, and with the old values back; e finds what is left.
Unwound(t, i, k, p, e) ==
    /\ Len(i.chain) \in Nat /\ Len(k.chain) \in Nat
    /\ p \in 1..Len(i.chain) /\ i.chain[p].owner = t
    /\ Thins(e, k.chain, i.chain)
    /\ \A m \in 1..Len(k.chain) : k.chain[m] = i.chain[e[m]] /\ e[m] # p /\ k.chain[m].owner # t
    /\ \A m \in 1..Len(i.chain) : m # p => \E n \in 1..Len(k.chain) : e[n] = m
    /\ DOMAIN k.latest = DOMAIN i.latest
    /\ \A r \in DOMAIN i.latest : k.latest[r] = IF r \in DOMAIN i.chain[p].old THEN i.chain[p].old[r] ELSE i.latest[r]

\* c is what is left of the chain without the entries of some transactions.
Remains(e, c, chain, gone) ==
    /\ Thins(e, c, chain)
    /\ \A i \in 1..Len(c) : c[i] = chain[e[i]] /\ chain[e[i]].owner \notin gone
    /\ \A j \in 1..Len(chain) : chain[j].owner \notin gone => \E i \in 1..Len(c) : e[i] = j

LEMMA UnlinkedRemains ==
    ASSUME NEW S, NEW chain \in Seq(S), NEW gone
    PROVE  \E e : Remains(e, Unlinked(chain, gone), chain, gone)
  BY UnlinkedThins DEF Remains

LEMMA RollbackFacts ==
    ASSUME UInv, NEW t \in Txns, NEW s \in Segments, NEW v \in Vectors, Holds(t, s, v)
    PROVE  /\ RollbackUpdate(t, info[s][v]) \in Infos(s)
           /\ \E p, e : Unwound(t, info[s][v], RollbackUpdate(t, info[s][v]), p, e)
<1> DEFINE i == info[s][v]
           k == RollbackUpdate(t, i)
           p == CHOOSE n \in Own(t, i.chain) : TRUE
<1>1. InfoFacts(s, i)
  BY Types DEF UInv
<1>2. OneEach(i.chain)
  BY DEF UInv, ChainInv, ChainGood
<1>3. p \in Own(t, i.chain)
  <2>1. Own(t, i.chain) # {}
    BY <1>1 DEF Holds, Own, InfoFacts
  <2> QED BY <2>1
<1>4. p \in 1..Len(i.chain) /\ i.chain[p].owner = t /\ i.chain[p].old \in Partial(Content(s))
  BY <1>1, <1>3 DEF Own, InfoFacts
<1> DEFINE old == i.chain[p].old
           l == [r \in DOMAIN i.latest |-> IF r \in DOMAIN old THEN old[r] ELSE i.latest[r]]
<1>5. k = [latest |-> l, chain |-> Unlinked(i.chain, {t})]
  BY DEF RollbackUpdate
<1> HIDE DEF p, i
<1>6. l \in Partial(Content(s))
  <2>1. \A r \in DOMAIN i.latest : i.latest[r] \in Content(s)
    BY <1>1, PartialFacts DEF InfoFacts
  <2>2. \A r \in DOMAIN old : old[r] \in Content(s)
    BY <1>4, PartialFacts
  <2>3. DOMAIN i.latest \subseteq Rows
    BY <1>1, PartialFacts DEF InfoFacts
  <2>4. l \in [DOMAIN i.latest -> Content(s)]
    BY <2>1, <2>2
  <2> HIDE DEF l
  <2> QED BY <2>3, <2>4, PartialMake
<1>7. i.chain \in Seq(Node(s)) /\ Len(i.chain) \in Nat
  BY <1>1 DEF InfoFacts
<1> DEFINE c == Unlinked(i.chain, {t})
<1>8. c \in Seq(Node(s))
  BY <1>7, UnlinkedThins
<1>9. PICK e : Remains(e, c, i.chain, {t})
  BY <1>7, UnlinkedRemains
<1> HIDE DEF c, k, l
<1>10. k.chain = c /\ k.latest = l
  BY <1>5 DEF c
<1>11. k \in Infos(s)
  BY <1>5, <1>6, <1>8, InfosMake DEF c
<1>12. Len(c) \in Nat
  BY <1>8
<1>13. \A m \in 1..Len(c) : c[m] = i.chain[e[m]] /\ e[m] # p /\ c[m].owner # t
  BY <1>9, <1>4 DEF Remains
<1>14. \A m \in 1..Len(i.chain) : m # p => \E n \in 1..Len(c) : e[n] = m
  BY <1>2, <1>4, <1>9 DEF OneEach, Remains
<1>15. DOMAIN l = DOMAIN i.latest /\ \A r \in DOMAIN i.latest : l[r] = IF r \in DOMAIN i.chain[p].old THEN i.chain[p].old[r] ELSE i.latest[r]
  BY DEF l
<1>16. Unwound(t, i, k, p, e)
  BY <1>4, <1>7, <1>9, <1>10, <1>12, <1>13, <1>14, <1>15 DEF Unwound, Remains
<1> QED BY <1>11, <1>16 DEF k, i

\* Whoever applies the entry finds the same without it.
LEMMA ShownUnwound ==
    ASSUME NEW t, NEW i, NEW k, NEW p, NEW e, Unwound(t, i, k, p, e), NEW D, NEW x, ChainGood(i.chain, D, x),
           D = DOMAIN i.latest, t \in RunningIn(x),
           NEW stored, NEW r, NEW start, NEW id, UpdatesForTransaction(i.chain[p], start, id)
    PROVE  Shown(k, stored, r, start, id) = Shown(i, stored, r, start, id)
<1>1. p \in 1..Len(i.chain) /\ Len(i.chain) \in Nat /\ Len(k.chain) \in Nat /\ Thins(e, k.chain, i.chain)
  BY DEF Unwound
<1>2. \A m \in 1..Len(k.chain) : k.chain[m] = i.chain[e[m]] /\ e[m] # p
  BY DEF Unwound
<1>3. \A m \in 1..Len(i.chain) : m # p => \E n \in 1..Len(k.chain) : e[n] = m
  BY DEF Unwound
<1>4. ASSUME r \in DOMAIN i.chain[p].old
      PROVE  /\ Base(k.latest, stored, r) = i.chain[p].old[r]
             /\ \A m \in 1..Len(i.chain) : m < p => r \notin DOMAIN i.chain[m].old
  <2>1. r \in DOMAIN i.latest
    BY <1>1, <1>4 DEF ChainGood, Covered
  <2>2. i.chain[p].owner \in RunningIn(x)
    BY DEF Unwound
  <2>3. \A m \in 1..Len(i.chain) : m < p => r \notin DOMAIN i.chain[m].old
    BY <1>1, <1>4, <2>2 DEF ChainGood, Apart
  <2> QED BY <1>4, <2>1, <2>3 DEF Base, Unwound
<1>5. r \notin DOMAIN i.chain[p].old => Base(k.latest, stored, r) = Base(i.latest, stored, r)
  BY DEF Base, Unwound
<1>6. RolledBack(i, k, p, e, stored, r)
  BY <1>1, <1>2, <1>3, <1>4, <1>5 DEF RolledBack
<1> QED BY <1>6, ShownRollback

Unwinding(t, s, v) ==
    /\ txn' \in [Txns -> Transactions] /\ \A u \in Txns \ {t} : txn'[u] = txn[u]
    /\ info' = [info EXCEPT ![s][v] = RollbackUpdate(t, info[s][v])] /\ column' = column
    /\ txn[t].phase = "rolling_back" /\ txn'[t].phase = "rolling_back"
    /\ txn'[t].start = txn[t].start /\ txn'[t].commit_id = txn[t].commit_id /\ txn'[t].undo = txn[t].undo
    /\ txn[t].at > 0 /\ txn[t].undo[txn[t].at] = <<s, v>> /\ txn'[t].at = txn[t].at - 1

LEMMA UnwindingKept ==
    ASSUME UInv, NEW t \in Txns, NEW s \in Segments, NEW v \in Vectors, Unwinding(t, s, v)
    PROVE  ChainsKept(t) /\ \A q \in Segments, w \in Vectors : info'[q][w] \in Infos(q)
<1> DEFINE i == info[s][v]
           k == RollbackUpdate(t, i)
<1>1. \A q \in Segments, w \in Vectors : InfoFacts(q, info[q][w]) /\ info[q][w] \in Infos(q)
  BY Types DEF UInv, TypeOK
<1>2. info'[s][v] = k /\ \A q \in Segments, w \in Vectors : <<q, w>> # <<s, v>> => info'[q][w] = info[q][w]
  BY DEF Unwinding, UInv, ShapeInv
<1>3. ShapeInv'
  BY DEF Unwinding, UInv, ShapeInv
<1>4. t \in Running /\ Running' = Running /\ UndoOf(t)
  BY DEF Unwinding, Running, UInv, UndoInv
<1>5. txn[t].at \in Nat /\ Len(txn[t].undo) \in Nat /\ txn[t].at \in 1..Len(txn[t].undo) /\ Undone(t) = txn[t].at
      /\ Undone(t)' = txn[t].at - 1
  <2>1. txn[t].at \in Nat /\ Len(txn[t].undo) \in Nat
    BY Types DEF UInv
  <2> QED BY <2>1, <1>4 DEF UndoOf, Undone, Unwinding
<1>6. Holds(t, s, v)
  <2>1. Holds(t, txn[t].undo[txn[t].at][1], txn[t].undo[txn[t].at][2])
    BY <1>4, <1>5 DEF UndoOf
  <2>2. txn[t].undo[txn[t].at][1] = s /\ txn[t].undo[txn[t].at][2] = v
    BY DEF Unwinding
  <2> QED BY <2>1, <2>2
<1>7. k \in Infos(s) /\ InfoFacts(s, k)
  BY <1>6, RollbackFacts, InfosFacts
<1>8. PICK p, e : Unwound(t, i, k, p, e)
  BY <1>6, RollbackFacts
<1>9. \A q \in Segments, w \in Vectors : info'[q][w] \in Infos(q)
  BY <1>1, <1>2, <1>7
<1> HIDE DEF k
<1>10. /\ Len(i.chain) \in Nat /\ Len(k.chain) \in Nat /\ p \in 1..Len(i.chain) /\ i.chain[p].owner = t
       /\ Thins(e, k.chain, i.chain) /\ DOMAIN k.latest = DOMAIN i.latest
       /\ \A m \in 1..Len(k.chain) : e[m] \in 1..Len(i.chain) /\ k.chain[m] = i.chain[e[m]] /\ e[m] # p /\ k.chain[m].owner # t
       /\ \A m \in 1..Len(i.chain) : m # p => \E n \in 1..Len(k.chain) : e[n] = m
  BY <1>8 DEF Unwound, Thins
<1>11. StepOf(t)
  <2>1. ASSUME NEW q \in Segments, NEW w \in Vectors PROVE Spared(t, q, w)
    <3>1. CASE <<q, w>> = <<s, v>>
      <4>1. q = s /\ w = v
        BY <3>1
      <4>2. \A m \in 1..Len(k.chain) : \E j \in 1..Len(i.chain) : k.chain[m] = i.chain[j]
        BY <1>10
      <4>3. \A j \in 1..Len(i.chain) : i.chain[j].owner # t => \E n \in 1..Len(k.chain) : k.chain[n] = i.chain[j]
        BY <1>10
      <4> QED BY <4>1, <4>2, <4>3, <1>2 DEF Spared
    <3>2. CASE <<q, w>> # <<s, v>>
      BY <3>2, <1>2 DEF Spared
    <3> QED BY <3>1, <3>2
  <2> QED BY <2>1 DEF StepOf, Unwinding
<1>12. Moved(t)
  BY <1>4 DEF Moved, Unwinding
<1>13. ChainInv'
  <2> SUFFICES ASSUME NEW q \in Segments, NEW w \in Vectors
               PROVE  ChainGood(info'[q][w].chain, DOMAIN info'[q][w].latest, txn')
    BY DEF ChainInv
  <2>1. Moves(info[q][w].chain, txn, txn')
    BY <1>12, MovesChain DEF Unwinding
  <2>2. ChainGood(info[q][w].chain, DOMAIN info[q][w].latest, txn) /\ Len(info[q][w].chain) \in Nat
    BY <1>1 DEF UInv, ChainInv, InfoFacts
  <2>3. CASE <<q, w>> = <<s, v>>
    <3>1. q = s /\ w = v
      BY <2>3
    <3>2. ChainGood(k.chain, DOMAIN i.latest, txn')
      <4>1. \A m \in 1..Len(k.chain) : k.chain[m].owner = i.chain[e[m]].owner /\ k.chain[m].old = i.chain[e[m]].old
        BY <1>10
      <4> QED BY <3>1, <2>1, <2>2, <1>10, <4>1, ThinGood
    <3> QED BY <3>1, <3>2, <1>2, <1>10
  <2>4. CASE <<q, w>> # <<s, v>>
    <3>1. info'[q][w] = info[q][w]
      BY <2>4, <1>2
    <3>2. ChainGood(info[q][w].chain, DOMAIN info[q][w].latest, txn')
      BY <2>1, <2>2, SameGood
    <3> QED BY <3>1, <3>2
  <2> QED BY <2>3, <2>4
<1>14. ~Holds(t, s, v)' /\ \A q \in Segments, w \in Vectors : <<q, w>> # <<s, v>> => (Holds(t, q, w)' <=> Holds(t, q, w))
  BY <1>2, <1>10 DEF Holds
<1>15. VersionInv'
  <2> SUFFICES ASSUME NEW q \in Segments, NEW w \in Vectors, NEW m \in 1..Len(info'[q][w].chain),
                      NEW o, o = info'[q][w].chain[m].owner
               PROVE  info'[q][w].chain[m].version = VersionOf(o, q, w)'
    BY DEF VersionInv
  <2>1. CASE o # t
    BY <2>1, <1>11, OthersVersion
  <2>2. CASE o = t
    <3>1. <<q, w>> # <<s, v>>
      BY <2>2, <1>2, <1>10
    <3>2. info'[q][w] = info[q][w]
      BY <3>1, <1>2
    <3>3. info[q][w].chain[m].version = VersionOf(t, q, w)
      <4>1. m \in 1..Len(info[q][w].chain) /\ info[q][w].chain[m].owner = t
        BY <2>2, <3>2
      <4> QED BY ONLY <4>1, UInv DEF UInv, VersionInv
    <3>4. VersionOf(t, q, w) = TransactionId(t) /\ VersionOf(t, q, w)' = TransactionId(t)
      BY DEF VersionOf, Unwinding, TransactionId
    <3> QED BY <2>2, <3>2, <3>3, <3>4
  <2> QED BY <2>1, <2>2
<1>16. UndoOf(t)'
  <2> DEFINE u == txn[t].undo
             n == txn[t].at
  <2>1. txn'[t].undo = u /\ txn'[t].at = n - 1 /\ txn'[t].phase = "rolling_back" /\ u[n] = <<s, v>>
    BY DEF Unwinding
  <2>2. n \in 1..Len(u) /\ Len(u) \in Nat /\ Undone(t)' = n - 1 /\ Undone(t) = n
    BY <1>5
  <2>3. \A a, b \in 1..Len(u) : u[a] = u[b] => a = b
    BY <1>4 DEF UndoOf
  <2>4. \A a \in 1..(n - 1) : Holds(t, u[a][1], u[a][2])'
    <3> TAKE a \in 1..(n - 1)
    <3>1. a \in 1..Len(u) /\ a # n /\ a \in 1..n
      BY <2>2
    <3>2. u[a] \in Segments \X Vectors
      BY <3>1, Types DEF UInv
    <3>3. PICK q \in Segments, w \in Vectors : u[a] = <<q, w>>
      BY <3>2
    <3>4. <<q, w>> # <<s, v>>
      BY <3>1, <3>3, <2>1, <2>2, <2>3
    <3>5. Holds(t, u[a][1], u[a][2])
      BY <3>1, <2>2, <1>4 DEF UndoOf
    <3>6. u[a][1] = q /\ u[a][2] = w
      BY <3>3
    <3>7. Holds(t, q, w)
      BY <3>5, <3>6
    <3>8. Holds(t, q, w)'
      BY <3>4, <3>7, <1>14
    <3> QED BY <3>6, <3>8, <2>1 DEF Holds
  <2>5. \A q \in Segments, w \in Vectors : Holds(t, q, w)' => \E a \in 1..(n - 1) : u[a] = <<q, w>>
    <3> SUFFICES ASSUME NEW q \in Segments, NEW w \in Vectors, Holds(t, q, w)' PROVE \E a \in 1..(n - 1) : u[a] = <<q, w>>
      OBVIOUS
    <3>1. <<q, w>> # <<s, v>> /\ Holds(t, q, w)
      BY <1>14
    <3>2. PICK a \in 1..n : u[a] = <<q, w>>
      BY <3>1, <2>2, <1>4 DEF UndoOf
    <3>3. a # n
      BY <3>1, <3>2, <2>1
    <3>4. a \in 1..(n - 1)
      BY <3>3, <2>2
    <3> QED BY <3>2, <3>4
  <2>6. \A a \in 1..Undone(t)' : Holds(t, u[a][1], u[a][2])'
    BY <2>2, <2>4
  <2>7. \A q \in Segments, w \in Vectors : Holds(t, q, w)' => \E a \in 1..Undone(t)' : u[a] = <<q, w>>
    BY <2>2, <2>5
  <2>8. n - 1 <= Len(u)
    BY <2>2
  <2> QED BY <2>1, <2>3, <2>6, <2>7, <2>8 DEF UndoOf
<1>17. UndoInv'
  BY <1>11, <1>16, OthersUndo DEF UndoInv
<1>18. ChainsReleased'
  <2> SUFFICES ASSUME NEW q \in Segments, NEW w \in Vectors, NEW m \in DOMAIN info'[q][w].chain,
                      NEW u, u = info'[q][w].chain[m].owner
               PROVE  \/ u \in Running'
                      \/ txn'[u].phase = "committed" /\ \E a \in Running' : txn'[a].start <= txn'[u].commit_id
    BY DEF ChainsReleased
  <2>1. m \in 1..Len(info'[q][w].chain)
    BY <1>9, InfosFacts DEF InfoFacts
  <2>2. CASE u = t
    BY <2>2, <1>4
  <2>3. CASE u # t
    <3>1. PICK j \in 1..Len(info[q][w].chain) : info'[q][w].chain[m] = info[q][w].chain[j]
      BY <2>1, <2>3, <1>11 DEF StepOf, Spared
    <3>2. j \in DOMAIN info[q][w].chain /\ u = info[q][w].chain[j].owner /\ u \in Txns
      BY <3>1, <1>1 DEF InfoFacts
    <3>3. u \in Running \/ (txn[u].phase = "committed" /\ \E a \in Running : txn[a].start <= txn[u].commit_id)
      BY <3>2 DEF UInv, ChainsReleased
    <3>4. txn'[u] = txn[u] /\ \A a \in Running : txn'[a].start = txn[a].start
      BY <3>2, <2>3 DEF Unwinding, Running
    <3> QED BY <3>3, <3>4, <1>4
  <2> QED BY <2>2, <2>3
<1>19. OthersRead(t)
  <2> SUFFICES ASSUME NEW u \in Txns \ {t}, NEW q \in Segments, NEW r \in Rows, txn[u].phase = "active"
               PROVE  Reads(u, q, r)' = Reads(u, q, r)
    BY DEF OthersRead
  <2>1. txn'[u] = txn[u] /\ column'[q][r] = column[q][r] /\ TransactionId(u)' = TransactionId(u) /\ VectorOf(r) \in Vectors
    BY DEF Unwinding, TransactionId, Vectors
  <2>2. CASE <<q, VectorOf(r)>> # <<s, v>>
    <3>1. info'[q][VectorOf(r)] = info[q][VectorOf(r)]
      BY <2>1, <2>2, <1>2
    <3> QED BY <2>1, <3>1 DEF Reads
  <2>3. CASE <<q, VectorOf(r)>> = <<s, v>>
    <3>1. q = s /\ VectorOf(r) = v
      BY <2>3
    <3>2. i.chain[p].version = TransactionId(t)
      BY <1>10 DEF UInv, VersionInv, VersionOf, Unwinding
    <3>3. UpdatesForTransaction(i.chain[p], txn[u].start, TransactionId(u))
      <4>1. /\ txn[u].start \in Nat /\ TransactionId(u) \in Nat /\ TransactionId(t) \in Nat /\ clock \in Nat
            /\ t \in Nat /\ u \in Nat
        BY Types DEF UInv
      <4>2. txn[u].start < clock
        BY DEF UInv, ClockInv, Running
      <4>3. clock < TransactionId(t)
        BY <4>1, Bounded DEF UInv
      <4>4. TransactionId(t) # TransactionId(u)
        BY <4>1, UpdateAssumption DEF TransactionId
      <4> HIDE DEF i
      <4> QED BY <4>1, <4>2, <4>3, <4>4, <3>2 DEF UpdatesForTransaction
    <3>4. ChainGood(i.chain, DOMAIN i.latest, txn) /\ t \in RunningIn(txn)
      BY <1>4, RunningIs DEF UInv, ChainInv
    <3>5. Shown(k, column[q][r], r, txn[u].start, TransactionId(u)) = Shown(i, column[q][r], r, txn[u].start, TransactionId(u))
      BY <3>3, <3>4, <1>8, ShownUnwound
    <3> QED BY <2>1, <3>1, <3>5, <1>2 DEF Reads
  <2> QED BY <2>2, <2>3
<1> QED BY <1>3, <1>9, <1>13, <1>15, <1>17, <1>18, <1>19 DEF ChainsKept

-----------------------------------------------------------------------------
(* The end of a transaction takes what nobody applies out of the chains    *)

\* The transactions that are committed then and did so before all that run began.
Past(t) == {u \in Txns : txn'[u].phase = "committed" /\ ~\E a \in Running \ {t} : txn[u].commit_id >= txn[a].start}

Sweeping(t) ==
    /\ txn' \in [Txns -> Transactions] /\ \A u \in Txns \ {t} : txn'[u] = txn[u]
    /\ column' = column
    /\ info' = [s \in Segments |-> [v \in Vectors |-> [info[s][v] EXCEPT !.chain = Unlinked(info[s][v].chain, Past(t))]]]
    /\ \/ /\ txn[t].phase = "committing" /\ txn[t].at = Len(txn[t].undo)
          /\ txn'[t].phase = "committed" /\ txn'[t].commit_id = txn[t].commit_id
       \/ txn[t].phase = "rolling_back" /\ txn[t].at = 0 /\ txn'[t].phase = "aborted"

\* k is i without the entries of some transactions.
Swept(i, k, e, gone) ==
    /\ Len(i.chain) \in Nat /\ Len(k.chain) \in Nat /\ k.latest = i.latest
    /\ Remains(e, k.chain, i.chain, gone)
    /\ \A m \in 1..Len(k.chain) : e[m] \in 1..Len(i.chain)

LEMMA SweepingFacts ==
    ASSUME UInv, NEW t \in Txns, Sweeping(t), NEW s \in Segments, NEW v \in Vectors
    PROVE  /\ info'[s][v] \in Infos(s)
           /\ \E e : Swept(info[s][v], info'[s][v], e, Past(t))
<1> DEFINE i == info[s][v]
           c == Unlinked(i.chain, Past(t))
<1>1. InfoFacts(s, i)
  BY Types DEF UInv
<1>2. info'[s][v] = [i EXCEPT !.chain = c]
  BY DEF Sweeping
<1>3. i = [latest |-> i.latest, chain |-> i.chain] /\ i.latest \in Partial(Content(s)) /\ i.chain \in Seq(Node(s)) /\ Len(i.chain) \in Nat
  BY <1>1 DEF InfoFacts
<1>4. c \in Seq(Node(s))
  BY <1>3, UnlinkedThins
<1>5. PICK e : Remains(e, c, i.chain, Past(t))
  BY <1>3, UnlinkedRemains
<1> HIDE DEF i, c
<1>6. info'[s][v] = [latest |-> i.latest, chain |-> c]
  BY <1>2, <1>3
<1>7. info'[s][v] \in Infos(s)
  BY <1>3, <1>4, <1>6, InfosMake
<1>8. Len(c) \in Nat /\ \A m \in 1..Len(c) : e[m] \in 1..Len(i.chain)
  BY <1>4, <1>5 DEF Remains, Thins
<1>9. Swept(i, info'[s][v], e, Past(t))
  BY <1>3, <1>5, <1>6, <1>8 DEF Swept
<1> QED BY <1>7, <1>9 DEF i

\* The entries of t have their commit id then; an aborted transaction has none left.
LEMMA SweepingVersion ==
    ASSUME UInv, NEW t \in Txns, Sweeping(t), NEW s \in Segments, NEW v \in Vectors,
           NEW m \in 1..Len(info[s][v].chain), NEW o, o = info[s][v].chain[m].owner, txn'[o].phase = "committed" \/ o = t
    PROVE  /\ info[s][v].chain[m].version = txn[o].commit_id
           /\ txn'[o].phase = "committed" /\ txn'[o].commit_id = txn[o].commit_id
<1>1. o \in Txns /\ info[s][v].chain[m].version = VersionOf(o, s, v)
  BY OwnerPhase DEF UInv, VersionInv
<1>2. CASE o # t
  <2>1. txn'[o] = txn[o] /\ txn[o].phase = "committed"
    BY <1>1, <1>2 DEF Sweeping
  <2> QED BY <1>1, <2>1 DEF VersionOf
<1>3. CASE o = t
  <2>1. t \in Running /\ UndoOf(t) /\ Holds(t, s, v)
    BY <1>3 DEF Sweeping, Running, UInv, UndoInv, Holds
  <2>2. PICK k \in 1..Undone(t) : txn[t].undo[k] = <<s, v>>
    BY <2>1 DEF UndoOf
  <2>3. txn[t].phase = "committing"
    <3>1. txn[t].phase = "rolling_back" => Undone(t) = 0
      BY DEF Undone, Sweeping
    <3>2. txn[t].phase # "rolling_back"
      BY <3>1, <2>2
    <3> QED BY <3>2 DEF Sweeping
  <2>4. Undone(t) = txn[t].at
    BY <2>3 DEF Undone, Sweeping
  <2>5. Marked(t, s, v)
    BY <2>2, <2>4 DEF Marked
  <2> QED BY <1>1, <1>3, <2>3, <2>5 DEF VersionOf, Sweeping
<1> QED BY <1>2, <1>3

LEMMA SweepingKept ==
    ASSUME UInv, NEW t \in Txns, Sweeping(t)
    PROVE  ChainsKept(t) /\ \A q \in Segments, w \in Vectors : info'[q][w] \in Infos(q)
<1>1. \A q \in Segments, w \in Vectors : InfoFacts(q, info[q][w])
  BY Types DEF UInv
<1>2. \A q \in Segments, w \in Vectors :
         info'[q][w] \in Infos(q) /\ InfoFacts(q, info'[q][w]) /\ \E e : Swept(info[q][w], info'[q][w], e, Past(t))
  BY SweepingFacts, InfosFacts
<1>3. ShapeInv'
  BY DEF Sweeping, UInv, ShapeInv
<1>4. t \in Running /\ Running' = Running \ {t}
  BY DEF Sweeping, Running
<1>5. StepOf(t)
  <2>1. ASSUME NEW q \in Segments, NEW w \in Vectors PROVE Spared(t, q, w)
    <3> DEFINE i == info[q][w]
               k == info'[q][w]
    <3>1. PICK e : Swept(i, k, e, Past(t))
      BY <1>2
    <3>2. \A m \in 1..Len(k.chain) : \E j \in 1..Len(i.chain) : k.chain[m] = i.chain[j]
      BY <3>1 DEF Swept, Remains
    <3>3. \A u \in Running \ {t} : u \notin Past(t)
      BY DEF Past, Running, Sweeping
    <3>4. \A j \in 1..Len(i.chain) : i.chain[j].owner \in Running \ {t} => \E n \in 1..Len(k.chain) : e[n] = j
      BY <3>1, <3>3 DEF Swept, Remains
    <3>5. \A j \in 1..Len(i.chain) : i.chain[j].owner \in Running \ {t} => \E n \in 1..Len(k.chain) : k.chain[n].owner = i.chain[j].owner
      BY <3>1, <3>4 DEF Swept, Remains
    <3> QED BY <3>2, <3>5 DEF Spared
  <2> QED BY <2>1 DEF StepOf, Sweeping
<1>6. Moved(t)
  <2>1. t \notin RunningIn(txn')
    BY DEF RunningIn, Sweeping
  <2>2. \A a \in RunningIn(txn') : a \in Running /\ a # t /\ txn'[a] = txn[a]
    BY <2>1 DEF RunningIn, Running, Sweeping
  <2>3. ASSUME txn'[t].phase = "committed", NEW a \in RunningIn(txn') PROVE txn'[t].commit_id > txn'[a].start
    <3>1. txn[t].phase = "committing" /\ txn'[t].commit_id = txn[t].commit_id /\ a \in Txns /\ a \in Running
      BY <2>2, <2>3 DEF Sweeping, Running
    <3>2. txn[a].start < txn[t].commit_id /\ txn[a].start \in Nat /\ txn[t].commit_id \in Nat
      BY <3>1, Types DEF UInv, ClockInv
    <3> QED BY <3>1, <3>2, <2>2
  <2> QED BY <2>1, <2>3 DEF Moved
<1>7. ChainInv'
  <2> SUFFICES ASSUME NEW q \in Segments, NEW w \in Vectors
               PROVE  ChainGood(info'[q][w].chain, DOMAIN info'[q][w].latest, txn')
    BY DEF ChainInv
  <2> DEFINE i == info[q][w]
             k == info'[q][w]
  <2>1. Moves(i.chain, txn, txn')
    BY <1>6, MovesChain DEF Sweeping
  <2>2. ChainGood(i.chain, DOMAIN i.latest, txn)
    BY DEF UInv, ChainInv
  <2>3. PICK e : Swept(i, k, e, Past(t))
    BY <1>2
  <2> HIDE DEF i, k
  <2>4. Len(i.chain) \in Nat /\ Len(k.chain) \in Nat /\ Thins(e, k.chain, i.chain) /\ k.latest = i.latest
    BY <2>3 DEF Swept, Remains
  <2>5. \A m \in 1..Len(k.chain) : k.chain[m].owner = i.chain[e[m]].owner /\ k.chain[m].old = i.chain[e[m]].old
    BY <2>3 DEF Swept, Remains
  <2>6. ChainGood(k.chain, DOMAIN i.latest, txn')
    BY <2>1, <2>2, <2>4, <2>5, ThinGood
  <2> QED BY <2>4, <2>6 DEF k
<1>8. ASSUME NEW q \in Segments, NEW w \in Vectors, NEW m \in 1..Len(info'[q][w].chain), info'[q][w].chain[m].owner = t
      PROVE  /\ info'[q][w].chain[m].version = txn[t].commit_id
             /\ txn'[t].phase = "committed" /\ txn'[t].commit_id = txn[t].commit_id
  <2>1. PICK e : Swept(info[q][w], info'[q][w], e, Past(t))
    BY <1>2
  <2>2. e[m] \in 1..Len(info[q][w].chain) /\ info'[q][w].chain[m] = info[q][w].chain[e[m]]
    BY <2>1 DEF Swept, Remains
  <2> QED BY <1>8, <2>2, SweepingVersion
<1>9. VersionInv'
  <2> SUFFICES ASSUME NEW q \in Segments, NEW w \in Vectors, NEW m \in 1..Len(info'[q][w].chain),
                      NEW o, o = info'[q][w].chain[m].owner
               PROVE  info'[q][w].chain[m].version = VersionOf(o, q, w)'
    BY DEF VersionInv
  <2>1. CASE o # t
    BY <2>1, <1>5, OthersVersion
  <2>2. CASE o = t
    <3>1. info'[q][w].chain[m].version = txn[t].commit_id /\ txn'[t].phase = "committed" /\ txn'[t].commit_id = txn[t].commit_id
      BY <2>2, <1>8
    <3> QED BY <2>2, <3>1 DEF VersionOf
  <2> QED BY <2>1, <2>2
<1>10. UndoInv'
  BY <1>4, <1>5, OthersUndo DEF UndoInv
<1>11. ChainsReleased'
  <2> SUFFICES ASSUME NEW q \in Segments, NEW w \in Vectors, NEW m \in DOMAIN info'[q][w].chain,
                      NEW u, u = info'[q][w].chain[m].owner
               PROVE  \/ u \in Running'
                      \/ txn'[u].phase = "committed" /\ \E a \in Running' : txn'[a].start <= txn'[u].commit_id
    BY DEF ChainsReleased
  <2>1. m \in 1..Len(info'[q][w].chain)
    BY <1>2 DEF InfoFacts
  <2>2. PICK e : Swept(info[q][w], info'[q][w], e, Past(t))
    BY <1>2
  <2>3. e[m] \in 1..Len(info[q][w].chain) /\ u = info[q][w].chain[e[m]].owner /\ u \notin Past(t)
    BY <2>1, <2>2 DEF Swept, Remains
  <2>4. u \in Txns /\ (u \in Running \/ txn[u].phase = "committed")
    BY <2>3, OwnerPhase
  <2>5. CASE u \in Running \ {t}
    BY <2>5, <1>4
  <2>6. CASE u = t \/ u \notin Running
    <3>1. txn'[u].phase = "committed" /\ txn'[u].commit_id = txn[u].commit_id
      <4>1. CASE u = t
        BY <4>1, <2>1, <1>8
      <4>2. CASE u # t
        <5>1. txn'[u] = txn[u]
          BY <4>2, <2>4 DEF Sweeping
        <5> QED BY <5>1, <4>2, <2>4, <2>6
      <4> QED BY <4>1, <4>2
    <3>2. PICK a \in Running \ {t} : txn[u].commit_id >= txn[a].start
      BY <2>3, <2>4, <3>1 DEF Past
    <3>3. a \in Running' /\ txn'[a] = txn[a] /\ a \in Txns
      BY <1>4 DEF Running, Sweeping
    <3>4. txn[u].commit_id \in Nat /\ txn[a].start \in Nat
      BY <3>3, <2>4, Types DEF UInv
    <3> QED BY <3>1, <3>2, <3>3, <3>4
  <2> QED BY <2>4, <2>5, <2>6
<1>12. OthersRead(t)
  <2> SUFFICES ASSUME NEW u \in Txns \ {t}, NEW q \in Segments, NEW r \in Rows, txn[u].phase = "active"
               PROVE  Reads(u, q, r)' = Reads(u, q, r)
    BY DEF OthersRead
  <2> DEFINE w == VectorOf(r)
             i == info[q][w]
             k == info'[q][w]
             start == txn[u].start
             id == TransactionId(u)
  <2>1. txn'[u] = txn[u] /\ column'[q][r] = column[q][r] /\ TransactionId(u)' = TransactionId(u) /\ w \in Vectors
    BY DEF Sweeping, TransactionId, Vectors
  <2>2. PICK e : Swept(i, k, e, Past(t))
    BY <2>1, <1>2
  <2>3. ASSUME NEW m \in 1..Len(i.chain), i.chain[m].owner \in Past(t)
        PROVE  ~Applies(i.chain[m], r, start, id)
    <3>1. PICK o : o = i.chain[m].owner
      OBVIOUS
    <3>2. o \in Txns /\ txn'[o].phase = "committed" /\ ~\E a \in Running \ {t} : txn[o].commit_id >= txn[a].start
      BY <2>3, <3>1 DEF Past
    <3>3. i.chain[m].version = txn[o].commit_id
      BY <3>1, <3>2, <2>1, SweepingVersion
    <3>4. u \in Running \ {t}
      BY DEF Running
    <3>5. ~(txn[o].commit_id >= txn[u].start) /\ txn[o].commit_id \in Nat /\ txn[u].start \in Nat
      BY <3>2, <3>4, Types DEF UInv
    <3> HIDE DEF i
    <3>6. ~(i.chain[m].version > txn[u].start)
      BY <3>3, <3>5
    <3> QED BY <3>6 DEF Applies, UpdatesForTransaction
  <2> HIDE DEF w, i, k, start, id
  <2>4. \A m \in 1..Len(i.chain) : Applies(i.chain[m], r, start, id) => \E n \in 1..Len(k.chain) : e[n] = m
    BY <2>2, <2>3 DEF Swept, Remains
  <2>5. \A n \in 1..Len(k.chain) : k.chain[n] = i.chain[e[n]]
    BY <2>2 DEF Swept, Remains
  <2>6. /\ Len(i.chain) \in Nat /\ Len(k.chain) \in Nat /\ Thins(e, k.chain, i.chain)
        /\ Base(k.latest, column[q][r], r) = Base(i.latest, column[q][r], r)
    BY <2>2 DEF Swept, Remains
  <2>7. Thinned(i, k, e, column[q][r], r, start, id)
    BY <2>4, <2>5, <2>6 DEF Thinned
  <2>8. Shown(k, column[q][r], r, start, id) = Shown(i, column[q][r], r, start, id)
    BY <2>7, ShownThin
  <2> QED BY <2>1, <2>8 DEF Reads, w, i, k, start, id
<1> QED BY <1>2, <1>3, <1>7, <1>9, <1>10, <1>11, <1>12 DEF ChainsKept

-----------------------------------------------------------------------------
(* One lemma per action                                                    *)

\* Transaction t alone changes, in a step that is well formed.
Alone(t) ==
    /\ txn' \in [Txns -> Transactions] /\ \A u \in Txns \ {t} : txn'[u] = txn[u]
    /\ column' = column
    /\ \A q \in Segments, w \in Vectors : info'[q][w] \in Infos(q)
    /\ updates' \in 0..MaxUpdates
    /\ txn'[t].phase # "none" /\ txn'[t] # txn[t]
    /\ txn'[t].phase = "updating" =>
          /\ DOMAIN txn'[t].writes # {}
          /\ \A r, q \in DOMAIN txn'[t].writes : VectorOf(r) = VectorOf(q)

LEMMA TxnsFinite == IsFiniteSet(Txns) /\ Cardinality(Txns) = MaxTransactions
  BY UpdateAssumption, FS_Interval DEF Txns

Kept(t) == UInv' /\ OthersRead(t) /\ txn'[t] # txn[t]

LEMMA Assemble ==
    ASSUME UInv, NEW t \in Txns, Alone(t), ChainsKept(t), ClockInv', CountInv', clock' \in Nat \ {0}
    PROVE  Kept(t)
<1>1. CallInv'
  <2> SUFFICES ASSUME NEW u \in Txns
               PROVE  /\ txn'[u].phase = "updating" =>
                            /\ DOMAIN txn'[u].writes # {}
                            /\ \A r, q \in DOMAIN txn'[u].writes : VectorOf(r) = VectorOf(q)
                      /\ txn'[u].phase = "none" => txn'[u].undo = <<>> /\ txn'[u].at = 0
    BY DEF CallInv
  <2>1. CASE u = t
    BY <2>1 DEF Alone
  <2>2. CASE u # t
    <3>1. txn'[u] = txn[u]
      BY <2>2 DEF Alone
    <3> QED BY <3>1 DEF UInv, CallInv
  <2> QED BY <2>1, <2>2
<1>2. clock' \in 1..(2 * MaxTransactions + 1)
  <2>1. clock' <= 2 * MaxTransactions + 1
    <3>1. IsFiniteSet(Txns) /\ Cardinality(Txns) = MaxTransactions
      BY TxnsFinite
    <3>2. Begun' \subseteq Txns /\ Ending' \subseteq Txns
      BY DEF Begun, Ending
    <3>3. Cardinality(Begun') \in Nat /\ Cardinality(Ending') \in Nat
          /\ Cardinality(Begun') <= MaxTransactions /\ Cardinality(Ending') <= MaxTransactions
      BY <3>1, <3>2, FS_Subset, FS_CardinalityType
    <3> QED BY <3>3, UpdateAssumption DEF CountInv
  <2> QED BY <2>1, UpdateAssumption
<1>3. \A s \in Segments : column'[s] \in [Rows -> Content(s)]
  BY DEF Alone, UInv, TypeOK
<1>4. TypeOK'
  BY <1>2, <1>3 DEF TypeOK, Alone
<1> QED BY <1>1, <1>4 DEF UInv, Kept, ChainsKept, Alone

LEMMA ClockIs == ASSUME UInv PROVE clock \in Nat \ {0}
  BY UpdateAssumption DEF UInv, TypeOK

\* The steps of t that take no timestamp.
Steady(t) ==
    /\ clock' = clock
    /\ txn[t].phase \in DOMAIN Onward /\ txn'[t].phase \in Onward[txn[t].phase]
    /\ txn'[t].phase \in {"committed", "aborted"} \/ txn'[t].start = txn[t].start
    /\ txn'[t].commit_id \in {0, txn[t].commit_id}
    /\ txn'[t].phase = "committing" => txn'[t].commit_id = txn[t].commit_id
    /\ txn'[t].phase = "rolling_back" => TransactionLockFree \/ txn[t].phase \in {"committing", "rolling_back"}

LEMMA SteadyKept ==
    ASSUME UInv, NEW t \in Txns, Alone(t), ChainsKept(t), Steady(t)
    PROVE  Kept(t)
<1>1. ClockInv' /\ CountInv'
  BY NoTimestamp DEF Steady, Alone
<1>2. clock' \in Nat \ {0}
  BY ClockIs DEF Steady
<1> QED BY <1>1, <1>2, Assemble

LEMMA InfosSame ==
    ASSUME UInv, info' = info
    PROVE  \A q \in Segments, w \in Vectors : info'[q][w] \in Infos(q)
  BY DEF UInv, TypeOK

LEMMA BeginStep ==
    ASSUME UInv, NEW t \in Txns, BeginTransaction(t)
    PROVE  Kept(t)
<1>1. txn[t].phase = "none" /\ txn[t] \in Transactions /\ clock \in Nat \ {0}
  BY ClockIs, Types DEF BeginTransaction, UInv
<1>2. txn' = [txn EXCEPT ![t] = [txn[t] EXCEPT !.phase = "active", !.start = clock]]
  BY DEF BeginTransaction
<1>3. txn \in [Txns -> Transactions]
  BY DEF UInv, TypeOK
<1>4. [txn[t] EXCEPT !.phase = "active", !.start = clock] \in Transactions
  BY <1>1 DEF Transactions
<1>5. txn' \in [Txns -> Transactions] /\ \A u \in Txns \ {t} : txn'[u] = txn[u]
  BY <1>2, <1>3, <1>4
<1>6. /\ txn'[t].phase = "active" /\ txn'[t].start = clock /\ txn'[t].commit_id = txn[t].commit_id
      /\ txn'[t].undo = txn[t].undo /\ txn'[t].at = txn[t].at
  BY <1>1, <1>2, <1>3 DEF Transactions
<1>7. info' = info /\ column' = column /\ updates' = updates /\ clock' = clock + 1
  BY DEF BeginTransaction
<1>8. Quiet(t)
  BY <1>1, <1>5, <1>6, <1>7 DEF Quiet
<1>9. Alone(t)
  BY <1>1, <1>5, <1>6, <1>7, InfosSame DEF Alone, UInv, TypeOK
<1>10. CountInv'
  <2>1. Begun \subseteq Begun' /\ Ending \subseteq Ending'
    BY <1>1, <1>5, <1>6 DEF Begun, Ending
  <2>2. t \in Begun' /\ t \notin Begun
    BY <1>1, <1>6 DEF Begun
  <2> QED BY <1>1, <1>7, <2>1, <2>2, CountStep DEF UInv
<1>11. ClockInv'
  <2>1. \A u \in Running' : u = t \/ (u \in Running /\ txn'[u] = txn[u])
    BY <1>5 DEF Running
  <2>2. \A u \in Txns : txn'[u].phase \notin {"committing", "rolling_back"}
    <3>1. \A u \in Txns : txn[u].phase \notin {"committing", "rolling_back"}
      BY DEF BeginTransaction, TransactionLockFree
    <3> QED BY <3>1, <1>5, <1>6
  <2>3. \A u \in Running' : txn'[u].start < clock'
    <3> TAKE u \in Running'
    <3>1. CASE u = t
      BY <3>1, <1>1, <1>6, <1>7
    <3>2. CASE u # t
      <4>1. u \in Running /\ txn'[u] = txn[u] /\ txn[u].start \in Nat
        BY <3>2, <2>1, Types DEF UInv, Running
      <4>2. txn[u].start < clock
        BY <4>1 DEF UInv, ClockInv
      <4> QED BY <4>1, <4>2, <1>1, <1>7
    <3> QED BY <3>1, <3>2
  <2>4. \A u \in Txns : txn'[u].commit_id < clock'
    <3> TAKE u \in Txns
    <3>1. txn'[u].commit_id = txn[u].commit_id /\ txn[u].commit_id \in Nat /\ txn[u].commit_id < clock
      BY <1>5, <1>6, Types DEF UInv, ClockInv
    <3> QED BY <3>1, <1>1, <1>7
  <2>5. \A a, u \in Txns : {txn'[a].phase, txn'[u].phase} \subseteq {"committing", "rolling_back"} => a = u
    BY <2>2
  <2> QED BY <2>2, <2>3, <2>4, <2>5 DEF ClockInv
<1> QED BY <1>1, <1>7, <1>8, <1>9, <1>10, <1>11, QuietKept, Assemble

LEMMA CommitStep ==
    ASSUME UInv, NEW t \in Txns, CommitTransaction(t)
    PROVE  Kept(t)
<1> DEFINE x == [Remember(t) EXCEPT !.phase = "committing", !.commit_id = clock]
<1>1. txn[t].phase = "active" /\ clock \in Nat \ {0} /\ TypeOK
  BY ClockIs DEF CommitTransaction, UInv
<1>2. txn' = [txn EXCEPT ![t] = x] /\ txn \in [Txns -> Transactions]
  BY DEF CommitTransaction, UInv, TypeOK
<1>3. /\ x \in Transactions /\ x.phase = "committing" /\ x.start = txn[t].start /\ x.commit_id = clock
      /\ x.undo = txn[t].undo /\ x.at = txn[t].at
  <2>1. Remember(t) \in Transactions
    BY <1>1, RememberFacts
  <2>2. x \in Transactions
    BY <1>1, <2>1 DEF Transactions
  <2> QED BY <1>1, <2>1, <2>2, RememberFacts DEF Transactions
<1> HIDE DEF x
<1>4. txn' \in [Txns -> Transactions] /\ txn'[t] = x /\ \A u \in Txns \ {t} : txn'[u] = txn[u]
  BY <1>2, <1>3
<1>5. info' = info /\ column' = column /\ updates' = updates /\ clock' = clock + 1
  BY DEF CommitTransaction
<1>6. Quiet(t)
  BY <1>1, <1>3, <1>4, <1>5 DEF Quiet
<1>7. Alone(t)
  BY <1>1, <1>3, <1>4, <1>5, InfosSame DEF Alone, UInv, TypeOK
<1>8. CountInv'
  <2>1. Begun \subseteq Begun' /\ Ending \subseteq Ending'
    BY <1>1, <1>3, <1>4 DEF Begun, Ending
  <2>2. t \in Ending' /\ t \notin Ending
    BY <1>1, <1>3, <1>4 DEF Ending
  <2> QED BY <1>1, <1>5, <2>1, <2>2, CountStep DEF UInv
<1>9. ClockInv'
  <2>1. \A u \in Running' : u \in Running /\ txn'[u].start = txn[u].start /\ txn[u].start \in Nat /\ txn[u].start < clock
    <3> TAKE u \in Running'
    <3>1. u \in Running /\ u \in Txns /\ txn'[u].start = txn[u].start
      BY <1>1, <1>3, <1>4 DEF Running
    <3> QED BY <3>1, Types DEF UInv, ClockInv
  <2>2. \A u \in Txns \ {t} : txn'[u].phase \notin {"committing", "rolling_back"}
    <3>1. \A u \in Txns : txn[u].phase \notin {"committing", "rolling_back"}
      BY DEF CommitTransaction, TransactionLockFree
    <3> QED BY <3>1, <1>4
  <2>3. \A u \in Running' : txn'[u].start < clock'
    BY <2>1, <1>1, <1>5
  <2>4. \A u \in Txns : txn'[u].commit_id < clock'
    <3> TAKE u \in Txns
    <3>1. CASE u = t
      BY <3>1, <1>1, <1>3, <1>4, <1>5
    <3>2. CASE u # t
      <4>1. txn'[u].commit_id = txn[u].commit_id /\ txn[u].commit_id \in Nat /\ txn[u].commit_id < clock
        BY <3>2, <1>4, Types DEF UInv, ClockInv
      <4> QED BY <4>1, <1>1, <1>5
    <3> QED BY <3>1, <3>2
  <2>5. \A a, u \in Txns : {txn'[a].phase, txn'[u].phase} \subseteq {"committing", "rolling_back"} => a = u
    BY <2>2
  <2>6. \A a \in Txns, u \in Running' : txn'[a].phase = "committing" => txn'[u].start < txn'[a].commit_id
    <3>1. txn'[t].commit_id = clock
      BY <1>3, <1>4
    <3> QED BY <3>1, <2>1, <2>2
  <2> QED BY <2>3, <2>4, <2>5, <2>6 DEF ClockInv
<1> QED BY <1>1, <1>5, <1>6, <1>7, <1>8, <1>9, QuietKept, Assemble

LEMMA RollbackStep ==
    ASSUME UInv, NEW t \in Txns, RollbackTransaction(t)
    PROVE  Kept(t)
<1> DEFINE x == [Remember(t) EXCEPT !.phase = "rolling_back", !.at = Len(txn[t].undo)]
<1>1. txn[t].phase \in {"active", "invalid"} /\ TransactionLockFree /\ TypeOK /\ Len(txn[t].undo) \in Nat
  BY Types DEF RollbackTransaction, UInv
<1>2. txn' = [txn EXCEPT ![t] = x] /\ txn \in [Txns -> Transactions]
  BY DEF RollbackTransaction, UInv, TypeOK
<1>3. /\ x \in Transactions /\ x.phase = "rolling_back" /\ x.start = txn[t].start /\ x.commit_id = txn[t].commit_id
      /\ x.undo = txn[t].undo /\ x.at = Len(txn[t].undo)
  <2>1. Remember(t) \in Transactions
    BY <1>1, RememberFacts
  <2>2. x \in Transactions
    BY <1>1, <2>1 DEF Transactions
  <2> QED BY <1>1, <2>1, <2>2, RememberFacts DEF Transactions
<1> HIDE DEF x
<1>4. txn' \in [Txns -> Transactions] /\ txn'[t] = x /\ \A u \in Txns \ {t} : txn'[u] = txn[u]
  BY <1>2, <1>3
<1>5. info' = info /\ column' = column /\ updates' = updates /\ clock' = clock
  BY DEF RollbackTransaction
<1>6. Quiet(t)
  BY <1>1, <1>3, <1>4, <1>5 DEF Quiet
<1>7. Alone(t)
  BY <1>1, <1>3, <1>4, <1>5, InfosSame DEF Alone, UInv, TypeOK
<1>8. Steady(t)
  BY <1>1, <1>3, <1>4, <1>5 DEF Steady, Onward
<1> QED BY <1>6, <1>7, <1>8, QuietKept, SteadyKept

LEMMA RollbackEntryStep ==
    ASSUME UInv, NEW t \in Txns, RollbackEntry(t)
    PROVE  Kept(t)
<1> DEFINE n == txn[t].at
           x == [txn[t] EXCEPT !.at = n - 1]
<1>1. /\ txn[t].phase = "rolling_back" /\ n > 0 /\ n \in Nat /\ txn[t] \in Transactions /\ Len(txn[t].undo) \in Nat
      /\ txn \in [Txns -> Transactions]
  BY Types DEF RollbackEntry, UInv, TypeOK
<1>2. n \in 1..Len(txn[t].undo)
  BY <1>1 DEF UInv, UndoInv, UndoOf, Running
<1>3. PICK s \in Segments, v \in Vectors : txn[t].undo[n] = <<s, v>>
  <2>1. txn[t].undo[n] \in Segments \X Vectors
    BY <1>2, Types DEF UInv
  <2> QED BY <2>1
<1>4. info' = [info EXCEPT ![s][v] = RollbackUpdate(t, info[s][v])]
  <2>1. info' = [info EXCEPT ![txn[t].undo[n][1]][txn[t].undo[n][2]] = RollbackUpdate(t, @)]
    BY DEF RollbackEntry
  <2>2. txn[t].undo[n][1] = s /\ txn[t].undo[n][2] = v
    BY <1>3
  <2> QED BY <2>1, <2>2
<1>5. txn' = [txn EXCEPT ![t] = x]
  BY DEF RollbackEntry
<1>6. /\ x \in Transactions /\ x.phase = "rolling_back" /\ x.start = txn[t].start /\ x.commit_id = txn[t].commit_id
      /\ x.undo = txn[t].undo /\ x.at = n - 1
  <2>1. n - 1 \in Nat
    BY <1>1
  <2> HIDE DEF n
  <2> QED BY <1>1, <2>1 DEF Transactions
<1> HIDE DEF x
<1>7. txn' \in [Txns -> Transactions] /\ txn'[t] = x /\ \A u \in Txns \ {t} : txn'[u] = txn[u]
  BY <1>1, <1>5, <1>6
<1>8. column' = column /\ updates' = updates /\ clock' = clock
  BY DEF RollbackEntry
<1>9. Unwinding(t, s, v)
  BY <1>1, <1>3, <1>4, <1>6, <1>7, <1>8 DEF Unwinding
<1>10. ChainsKept(t) /\ \A q \in Segments, w \in Vectors : info'[q][w] \in Infos(q)
  BY <1>9, UnwindingKept
<1>11. Alone(t)
  BY <1>1, <1>6, <1>7, <1>8, <1>10 DEF Alone, UInv, TypeOK
<1>12. Steady(t)
  BY <1>1, <1>6, <1>7, <1>8 DEF Steady, Onward
<1> QED BY <1>10, <1>11, <1>12, SteadyKept

LEMMA RemoveStep ==
    ASSUME UInv, NEW t \in Txns, FinishCommit(t) \/ FinishRollback(t)
    PROVE  Kept(t)
<1> DEFINE phase == IF txn[t].phase = "committing" THEN "committed" ELSE "aborted"
           x == Ended(t, phase)
<1>1. /\ txn \in [Txns -> Transactions] /\ txn[t].commit_id \in Nat
      /\ \/ txn[t].phase = "committing" /\ txn[t].at = Len(txn[t].undo)
         \/ txn[t].phase = "rolling_back" /\ txn[t].at = 0
  BY Types DEF FinishCommit, FinishRollback, UInv, TypeOK
<1>2. RemoveTransaction(t, x)
  BY DEF FinishCommit, FinishRollback
<1>3. /\ x \in Transactions /\ x.phase = phase /\ phase \in {"committed", "aborted"}
      /\ x.commit_id = IF phase = "committed" THEN txn[t].commit_id ELSE 0
  <2>1. <<>> \in Partial(Txns \union {Null}) /\ <<>> \in Partial(0..MaxTransactions \union {Null})
    BY PartialEmpty
  <2>2. <<>> \in Seq(Segments \X Vectors)
    OBVIOUS
  <2> QED BY <2>1, <2>2, <1>1 DEF Ended, NewTransaction, Transactions
<1>4. txn' = [txn EXCEPT ![t] = x] /\ column' = column /\ updates' = updates /\ clock' = clock
  BY <1>2 DEF RemoveTransaction
<1> HIDE DEF x
<1>5. txn' \in [Txns -> Transactions] /\ txn'[t] = x /\ \A u \in Txns \ {t} : txn'[u] = txn[u]
  BY <1>1, <1>3, <1>4
<1>6. info' = [s \in Segments |-> [v \in Vectors |-> [info[s][v] EXCEPT !.chain = Unlinked(info[s][v].chain, Past(t))]]]
  <2> DEFINE past == {u \in Txns : [txn EXCEPT ![t] = x][u].phase = "committed" /\ ~Relevant(u, Running \ {t})}
  <2>1. info' = [s \in Segments |-> [v \in Vectors |-> [info[s][v] EXCEPT !.chain = Unlinked(info[s][v].chain, past)]]]
    BY <1>2 DEF RemoveTransaction
  <2>2. past = Past(t)
    BY <1>4 DEF Past, Relevant
  <2> QED BY <2>1, <2>2
<1>7. Sweeping(t)
  BY <1>1, <1>3, <1>4, <1>5, <1>6 DEF Sweeping
<1>8. ChainsKept(t) /\ \A q \in Segments, w \in Vectors : info'[q][w] \in Infos(q)
  BY <1>7, SweepingKept
<1>9. Alone(t)
  BY <1>1, <1>3, <1>4, <1>5, <1>8 DEF Alone, UInv, TypeOK
<1>10. Steady(t)
  BY <1>1, <1>3, <1>4, <1>5 DEF Steady, Onward
<1> QED BY <1>8, <1>9, <1>10, SteadyKept

LEMMA CommitEntryStep ==
    ASSUME UInv, NEW t \in Txns, CommitEntry(t)
    PROVE  Kept(t)
<1> DEFINE n == txn[t].at + 1
           x == [txn[t] EXCEPT !.at = n]
<1>1. /\ txn[t].phase = "committing" /\ txn[t].at \in Nat /\ txn[t] \in Transactions /\ Len(txn[t].undo) \in Nat
      /\ txn \in [Txns -> Transactions] /\ txn[t].undo \in Seq(Segments \X Vectors) /\ txn[t].commit_id \in Nat
  BY Types DEF CommitEntry, UInv, TypeOK
<1>2. n \in 1..Len(txn[t].undo)
  BY <1>1 DEF CommitEntry
<1>3. PICK s \in Segments, v \in Vectors : txn[t].undo[n] = <<s, v>>
  <2>1. txn[t].undo[n] \in Segments \X Vectors
    BY <1>2, Types DEF UInv
  <2> QED BY <2>1
<1> DEFINE k == WithVersion(t, info[s][v], txn[t].commit_id)
<1>4. info' = [info EXCEPT ![s][v] = k]
  <2>1. info' = [info EXCEPT ![txn[t].undo[n][1]][txn[t].undo[n][2]] = WithVersion(t, @, txn[t].commit_id)]
    BY DEF CommitEntry
  <2>2. txn[t].undo[n][1] = s /\ txn[t].undo[n][2] = v
    BY <1>3
  <2> QED BY <2>1, <2>2
<1>5. txn' = [txn EXCEPT ![t] = x]
  BY DEF CommitEntry
<1>6. /\ x \in Transactions /\ x.phase = "committing" /\ x.start = txn[t].start /\ x.commit_id = txn[t].commit_id
      /\ x.undo = txn[t].undo /\ x.at = n
  <2>1. n \in Nat
    BY <1>1
  <2> HIDE DEF n
  <2> QED BY <1>1, <2>1 DEF Transactions
<1> HIDE DEF x
<1>7. txn' \in [Txns -> Transactions] /\ txn'[t] = x /\ \A u \in Txns \ {t} : txn'[u] = txn[u]
  BY <1>1, <1>5, <1>6
<1>8. column' = column /\ updates' = updates /\ clock' = clock
  BY DEF CommitEntry
<1>9. \A q \in Segments, w \in Vectors : info[q][w] \in Infos(q) /\ InfoFacts(q, info[q][w])
  BY Types DEF UInv, TypeOK
<1>10. info'[s][v] = k /\ \A q \in Segments, w \in Vectors : <<q, w>> # <<s, v>> => info'[q][w] = info[q][w]
  BY <1>4 DEF UInv, ShapeInv
<1>11. /\ k \in Infos(s) /\ Reversioned(t, info[s][v], k)
       /\ \A m \in 1..Len(info[s][v].chain) : info[s][v].chain[m].owner = t => k.chain[m].version = txn[t].commit_id
  BY <1>1, <1>9, WithVersionFacts
<1> HIDE DEF k
<1>12. ASSUME NEW q \in Segments, NEW w \in Vectors
       PROVE  Marked(t, q, w)' <=> (Marked(t, q, w) \/ <<q, w>> = <<s, v>>)
  <2>1. txn'[t].at = n /\ txn'[t].undo = txn[t].undo /\ n \in Nat /\ n = txn[t].at + 1
    BY <1>1, <1>6, <1>7
  <2>2. Marked(t, q, w)' <=> \E j \in 1..n : txn[t].undo[j] = <<q, w>>
    BY <2>1 DEF Marked
  <2>3. \A j : j \in 1..n <=> (j \in 1..txn[t].at \/ j = n)
    BY <1>1
  <2> HIDE DEF n
  <2> QED BY <2>2, <2>3, <1>3 DEF Marked
<1>13. ASSUME NEW q \in Segments, NEW w \in Vectors
       PROVE  /\ info'[q][w] \in Infos(q) /\ Reversioned(t, info[q][w], info'[q][w])
              /\ \A m \in 1..Len(info[q][w].chain) : info[q][w].chain[m].owner = t =>
                    info'[q][w].chain[m].version = VersionOf(t, q, w)'
  <2>1. CASE <<q, w>> = <<s, v>>
    <3>1. q = s /\ w = v
      BY <2>1
    <3>2. VersionOf(t, q, w)' = txn[t].commit_id
      BY <2>1, <1>6, <1>7, <1>12 DEF VersionOf
    <3> QED BY <3>1, <3>2, <1>10, <1>11
  <2>2. CASE <<q, w>> # <<s, v>>
    <3>1. info'[q][w] = info[q][w]
      BY <2>2, <1>10
    <3>2. VersionOf(t, q, w)' = VersionOf(t, q, w)
      BY <2>2, <1>1, <1>6, <1>7, <1>12 DEF VersionOf, TransactionId
    <3>3. \A m \in 1..Len(info[q][w].chain) : info[q][w].chain[m].owner = t => info[q][w].chain[m].version = VersionOf(t, q, w)
      BY DEF UInv, VersionInv
    <3>4. Reversioned(t, info[q][w], info[q][w])
      BY DEF Reversioned
    <3> QED BY <3>1, <3>2, <3>3, <3>4, <1>9
  <2> QED BY <2>1, <2>2
<1>14. ShapeInv'
  BY <1>4, <1>8 DEF UInv, ShapeInv
<1>15. Remarking(t)
  BY <1>1, <1>2, <1>6, <1>7, <1>8, <1>13, <1>14 DEF Remarking
<1>16. ChainsKept(t)
  BY <1>15, RemarkingKept
<1>17. Alone(t)
  BY <1>1, <1>6, <1>7, <1>8, <1>13 DEF Alone, UInv, TypeOK
<1>18. Steady(t)
  BY <1>1, <1>6, <1>7, <1>8 DEF Steady, Onward
<1> QED BY <1>16, <1>17, <1>18, SteadyKept

LEMMA CommitFailsStep ==
    ASSUME UInv, NEW t \in Txns, CommitFails(t)
    PROVE  Kept(t)
<1> DEFINE n == Len(txn[t].undo)
           marked == ToSet(SubSeq(txn[t].undo, 1, txn[t].at))
           x == [txn[t] EXCEPT !.phase = "rolling_back", !.at = n]
<1>1. /\ txn[t].phase = "committing" /\ txn[t].at \in Nat /\ txn[t] \in Transactions /\ n \in Nat
      /\ txn \in [Txns -> Transactions] /\ txn[t].undo \in Seq(Segments \X Vectors) /\ TransactionId(t) \in Nat
  BY Types DEF CommitFails, UInv, TypeOK
<1>2. txn[t].at <= n
  BY <1>1 DEF UInv, UndoInv, UndoOf, Running
<1>3. ASSUME NEW q \in Segments, NEW w \in Vectors PROVE <<q, w>> \in marked <=> Marked(t, q, w)
  <2> DEFINE z == SubSeq(txn[t].undo, 1, txn[t].at)
  <2>1. z = [j \in 1..txn[t].at |-> txn[t].undo[j]]
    BY <1>1, <1>2
  <2>2. DOMAIN z = 1..txn[t].at /\ \A j \in 1..txn[t].at : z[j] = txn[t].undo[j]
    BY <2>1
  <2>3. marked = {z[j] : j \in DOMAIN z}
    BY DEF ToSet
  <2> HIDE DEF z, marked
  <2> QED BY <2>2, <2>3 DEF Marked
<1>4. info' = [q \in Segments |-> [w \in Vectors |->
                    IF <<q, w>> \in marked THEN WithVersion(t, info[q][w], TransactionId(t)) ELSE info[q][w]]]
  BY DEF CommitFails
<1>5. txn' = [txn EXCEPT ![t] = x]
  BY DEF CommitFails
<1>6. /\ x \in Transactions /\ x.phase = "rolling_back" /\ x.start = txn[t].start /\ x.commit_id = txn[t].commit_id
      /\ x.undo = txn[t].undo /\ x.at = n
  <2> HIDE DEF n
  <2> QED BY <1>1 DEF Transactions
<1> HIDE DEF x, marked
<1>7. txn' \in [Txns -> Transactions] /\ txn'[t] = x /\ \A u \in Txns \ {t} : txn'[u] = txn[u]
  BY <1>1, <1>5, <1>6
<1>8. column' = column /\ updates' = updates /\ clock' = clock
  BY DEF CommitFails
<1>9. \A q \in Segments, w \in Vectors : info[q][w] \in Infos(q) /\ InfoFacts(q, info[q][w])
  BY Types DEF UInv, TypeOK
<1>10. ASSUME NEW q \in Segments, NEW w \in Vectors
       PROVE  /\ info'[q][w] \in Infos(q) /\ Reversioned(t, info[q][w], info'[q][w])
              /\ \A m \in 1..Len(info[q][w].chain) : info[q][w].chain[m].owner = t =>
                    info'[q][w].chain[m].version = VersionOf(t, q, w)'
  <2>1. VersionOf(t, q, w)' = TransactionId(t)
    BY <1>6, <1>7 DEF VersionOf, TransactionId
  <2>2. CASE Marked(t, q, w)
    <3>1. info'[q][w] = WithVersion(t, info[q][w], TransactionId(t))
      BY <2>2, <1>3, <1>4
    <3>2. /\ WithVersion(t, info[q][w], TransactionId(t)) \in Infos(q)
          /\ Reversioned(t, info[q][w], WithVersion(t, info[q][w], TransactionId(t)))
          /\ \A m \in 1..Len(info[q][w].chain) :
                info[q][w].chain[m].owner = t => WithVersion(t, info[q][w], TransactionId(t)).chain[m].version = TransactionId(t)
      BY <1>1, <1>9, WithVersionFacts
    <3> QED BY <2>1, <3>1, <3>2
  <2>3. CASE ~Marked(t, q, w)
    <3>1. info'[q][w] = info[q][w]
      BY <2>3, <1>3, <1>4
    <3>2. VersionOf(t, q, w) = TransactionId(t)
      BY <2>3, <1>1 DEF VersionOf
    <3>3. \A m \in 1..Len(info[q][w].chain) : info[q][w].chain[m].owner = t => info[q][w].chain[m].version = VersionOf(t, q, w)
      BY DEF UInv, VersionInv
    <3>4. Reversioned(t, info[q][w], info[q][w])
      BY DEF Reversioned
    <3> QED BY <2>1, <3>1, <3>2, <3>3, <3>4, <1>9
  <2> QED BY <2>2, <2>3
<1>11. ShapeInv'
  BY <1>4, <1>8 DEF UInv, ShapeInv
<1>12. Remarking(t)
  BY <1>1, <1>6, <1>7, <1>8, <1>10, <1>11 DEF Remarking
<1>13. ChainsKept(t)
  BY <1>12, RemarkingKept
<1>14. Alone(t)
  BY <1>1, <1>6, <1>7, <1>8, <1>10 DEF Alone, UInv, TypeOK
<1>15. Steady(t)
  BY <1>1, <1>6, <1>7, <1>8 DEF Steady, Onward
<1> QED BY <1>13, <1>14, <1>15, SteadyKept

\* x is the transaction t after an update that has not reached its undo buffer.
Carried(t, x) ==
    /\ x \in Transactions /\ x.phase \in {"active", "updating"} /\ x.phase # txn[t].phase
    /\ x.start = txn[t].start /\ x.commit_id = txn[t].commit_id
    /\ x.undo = txn[t].undo /\ x.at = txn[t].at
    /\ x.phase = "updating" =>
          /\ DOMAIN x.writes # {}
          /\ \A r, q \in DOMAIN x.writes : VectorOf(r) = VectorOf(q)

LEMMA CarriedStep ==
    ASSUME UInv, NEW t \in Txns, txn[t].phase \in {"active", "updating"}, NEW x, Carried(t, x),
           txn' = [txn EXCEPT ![t] = x], UNCHANGED <<info, column, clock>>, updates' \in 0..MaxUpdates
    PROVE  Kept(t)
<1>1. txn' \in [Txns -> Transactions] /\ txn'[t] = x /\ \A u \in Txns \ {t} : txn'[u] = txn[u]
  BY DEF UInv, TypeOK, Carried
<1>2. Quiet(t)
  BY <1>1 DEF Quiet, Carried
<1>3. Alone(t)
  BY <1>1, InfosSame DEF Alone, Carried
<1>4. Steady(t)
  BY <1>1 DEF Steady, Onward, Carried
<1> QED BY <1>2, <1>3, <1>4, QuietKept, SteadyKept

LEMMA UpdateStep ==
    ASSUME UInv, NEW t \in Txns, txn[t].phase \in {"active", "updating"}, NEW x, Carried(t, x),
           NEW s \in Segments, NEW v \in Vectors, NEW new \in Partial(Content(s)), \A r \in DOMAIN new : VectorOf(r) = v,
           Update(t, s, v, new, x), UNCHANGED <<column, clock>>, updates' \in 0..MaxUpdates
    PROVE  Kept(t)
<1>1. txn \in [Txns -> Transactions] /\ TypeOK
  BY DEF UInv, TypeOK
<1>2. CASE CheckForConflicts(t, s, v, DOMAIN new)
  <2> DEFINE y == [Remember(t) EXCEPT !.phase = "invalid", !.writes = <<>>]
  <2>1. info' = info /\ txn' = [txn EXCEPT ![t] = y]
    BY <1>2 DEF Update
  <2>2. /\ y \in Transactions /\ y.phase = "invalid" /\ y.start = txn[t].start /\ y.commit_id = txn[t].commit_id
        /\ y.undo = txn[t].undo /\ y.at = txn[t].at
    <3>1. Remember(t) \in Transactions
      BY <1>1, RememberFacts
    <3>2. <<>> \in Partial(Txns \union {Null})
      BY PartialEmpty
    <3> QED BY <1>1, <3>1, <3>2, RememberFacts DEF Transactions
  <2> HIDE DEF y
  <2>3. txn' \in [Txns -> Transactions] /\ txn'[t] = y /\ \A u \in Txns \ {t} : txn'[u] = txn[u]
    BY <1>1, <2>1, <2>2
  <2>4. Quiet(t)
    BY <2>1, <2>2, <2>3 DEF Quiet
  <2>5. Alone(t)
    BY <2>1, <2>2, <2>3, InfosSame DEF Alone
  <2>6. Steady(t)
    BY <2>2, <2>3 DEF Steady, Onward
  <2> QED BY <2>4, <2>5, <2>6, QuietKept, SteadyKept
<1>3. CASE ~CheckForConflicts(t, s, v, DOMAIN new)
  <2> DEFINE undo == IF Own(t, info[s][v].chain) = {} THEN Append(txn[t].undo, <<s, v>>) ELSE txn[t].undo
             y == [x EXCEPT !.undo = undo]
  <2>1. info' = [info EXCEPT ![s][v] = Merged(t, s, v, new)]
    BY <1>3 DEF Update
  <2>2. txn' = [txn EXCEPT ![t] = y]
    BY <1>3 DEF Update, Carried, Transactions
  <2>3. undo \in Seq(Segments \X Vectors)
    BY Types DEF UInv
  <2> HIDE DEF undo
  <2>4. /\ y \in Transactions /\ y.phase = x.phase /\ y.start = txn[t].start /\ y.commit_id = txn[t].commit_id
        /\ y.undo = undo /\ y.at = txn[t].at /\ y.writes = x.writes
    BY <2>3 DEF Carried, Transactions
  <2> HIDE DEF y
  <2>5. txn' \in [Txns -> Transactions] /\ txn'[t] = y /\ \A u \in Txns \ {t} : txn'[u] = txn[u]
    BY <1>1, <2>2, <2>4
  <2>6. Merging(t, s, v, new)
    BY <1>3, <2>1, <2>4, <2>5 DEF Merging, Carried, undo
  <2>7. ChainsKept(t) /\ \A q \in Segments, w \in Vectors : info'[q][w] \in Infos(q)
    BY <2>6, MergingKept
  <2>8. Alone(t)
    BY <2>4, <2>5, <2>7 DEF Alone, Carried
  <2>9. Steady(t)
    BY <2>4, <2>5 DEF Steady, Onward, Carried
  <2> QED BY <2>7, <2>8, <2>9, SteadyKept
<1> QED BY <1>2, <1>3

LEMMA UpdateDataStep ==
    ASSUME UInv, NEW t \in Txns, NEW v \in Vectors, NEW D \in SUBSET {r \in Rows : VectorOf(r) = v}, D # {},
           NEW writes \in [D -> {t, Null}], UpdateData(t, v, writes)
    PROVE  Kept(t)
<1> DEFINE new == Restrict(writes, {r \in DOMAIN writes : writes[r] # Null})
           x == [Remember(t) EXCEPT !.phase = "updating", !.writes = writes]
<1>1. txn[t].phase = "active" /\ TypeOK /\ D \subseteq Rows
  BY DEF UpdateData, UInv
<1>2. UNCHANGED <<column, clock>> /\ updates' \in 0..MaxUpdates
  BY UpdateAssumption DEF UpdateData, UInv, TypeOK
<1>3. writes \in Partial(Txns \union {Null})
  <2>1. writes \in [D -> Txns \union {Null}]
    OBVIOUS
  <2> QED BY <1>1, <2>1, PartialMake
<1>4. new \in Partial(Content("data")) /\ \A r \in DOMAIN new : VectorOf(r) = v
  <2> DEFINE E == {r \in D : writes[r] # Null}
  <2>1. new = [r \in E |-> writes[r]]
    BY DEF Restrict
  <2>2. t \in Content("data")
    BY UpdateAssumption DEF Content, Txns
  <2>3. \A r \in E : writes[r] = t
    OBVIOUS
  <2>4. new \in [E -> Content("data")]
    BY <2>1, <2>2, <2>3
  <2>5. E \subseteq Rows /\ \A r \in E : VectorOf(r) = v
    BY <1>1
  <2> HIDE DEF E, new
  <2> QED BY <2>4, <2>5, PartialMake
<1>5. Carried(t, x)
  <2>1. Remember(t) \in Transactions
    BY <1>1, RememberFacts
  <2>2. x \in Transactions
    BY <1>3, <2>1 DEF Transactions
  <2>3. /\ x.phase = "updating" /\ x.writes = writes /\ x.start = txn[t].start /\ x.commit_id = txn[t].commit_id
        /\ x.undo = txn[t].undo /\ x.at = txn[t].at
    BY <1>1, <2>1, RememberFacts DEF Transactions
  <2> HIDE DEF x
  <2> QED BY <1>1, <2>2, <2>3 DEF Carried
<1>6. CASE new = <<>>
  <2>1. txn' = [txn EXCEPT ![t] = x] /\ info' = info
    BY <1>6 DEF UpdateData
  <2> HIDE DEF x
  <2> QED BY <2>1, <1>1, <1>2, <1>5, CarriedStep
<1>7. CASE new # <<>>
  <2>1. Update(t, "data", v, new, x)
    BY <1>7 DEF UpdateData
  <2>2. "data" \in Segments
    BY DEF Segments
  <2> HIDE DEF x, new
  <2> QED BY <2>1, <2>2, <1>1, <1>2, <1>4, <1>5, UpdateStep
<1> QED BY <1>6, <1>7

LEMMA UpdateValidityStep ==
    ASSUME UInv, NEW t \in Txns, UpdateValidity(t)
    PROVE  Kept(t)
<1> DEFINE writes == txn[t].writes
           v == VectorOf(Min(DOMAIN writes))
           new == [r \in DOMAIN writes |-> writes[r] # Null]
           x == [txn[t] EXCEPT !.phase = "active", !.writes = <<>>, !.seen = <<>>, !.wrote = {}]
<1>1. txn[t].phase = "updating" /\ TypeOK /\ UNCHANGED <<column, clock>> /\ updates' \in 0..MaxUpdates
  BY DEF UpdateValidity, UInv, TypeOK
<1>2. writes \in Partial(Txns \union {Null}) /\ txn[t] \in Transactions
  BY <1>1, Types DEF Transactions
<1>3. DOMAIN writes \subseteq Rows /\ DOMAIN writes # {} /\ \A r, q \in DOMAIN writes : VectorOf(r) = VectorOf(q)
  <2>1. DOMAIN writes \subseteq Rows
    BY <1>2, PartialFacts
  <2> QED BY <2>1, <1>1 DEF UInv, CallInv
<1>4. Min(DOMAIN writes) \in DOMAIN writes
  <2> DEFINE W == DOMAIN writes
  <2>1. W \subseteq Nat /\ W # {}
    BY <1>3, UpdateAssumption DEF Rows
  <2> HIDE DEF W
  <2>2. \E n \in W : \A m \in W : n <= m
    BY <2>1, NatMin
  <2>3. Min(W) \in W
    BY <2>2 DEF Min
  <2> QED BY <2>3 DEF W
<1>5. v \in Vectors /\ \A r \in DOMAIN new : VectorOf(r) = v
  BY <1>3, <1>4 DEF Vectors
<1>6. new \in Partial(Content("validity"))
  <2>1. new \in [DOMAIN writes -> Content("validity")]
    BY DEF Content
  <2> HIDE DEF new
  <2> QED BY <2>1, <1>3, PartialMake
<1>7. Carried(t, x)
  <2>1. <<>> \in Partial(Txns \union {Null}) /\ <<>> \in Partial(0..MaxTransactions \union {Null})
    BY PartialEmpty
  <2>2. /\ x \in Transactions /\ x.phase = "active" /\ x.start = txn[t].start /\ x.commit_id = txn[t].commit_id
        /\ x.undo = txn[t].undo /\ x.at = txn[t].at
    BY <1>2, <2>1 DEF Transactions
  <2> HIDE DEF x
  <2> QED BY <1>1, <2>2 DEF Carried
<1>8. CASE SkipsValidity(v, writes)
  <2>1. txn' = [txn EXCEPT ![t] = x] /\ info' = info
    BY <1>8 DEF UpdateValidity
  <2> HIDE DEF x
  <2> QED BY <2>1, <1>1, <1>7, CarriedStep
<1>9. CASE ~SkipsValidity(v, writes)
  <2>1. Update(t, "validity", v, new, x)
    BY <1>9 DEF UpdateValidity
  <2>2. "validity" \in Segments
    BY DEF Segments
  <2> HIDE DEF x, new, v
  <2> QED BY <2>1, <2>2, <1>1, <1>5, <1>6, <1>7, UpdateStep
<1> QED BY <1>8, <1>9

LEMMA CommittedTyped ==
    ASSUME TypeOK, NEW s \in Segments, NEW r \in Rows
    PROVE  FetchCommitted(s, r) \in Content(s)
<1> DEFINE latest == info[s][VectorOf(r)].latest
<1>1. latest \in Partial(Content(s))
  BY Types DEF Vectors, InfoFacts
<1>2. column[s][r] \in Content(s)
  BY DEF TypeOK
<1>3. FetchCommitted(s, r) = IF r \in DOMAIN latest THEN latest[r] ELSE column[s][r]
  BY DEF FetchCommitted
<1> HIDE DEF latest
<1> QED BY <1>1, <1>2, <1>3, PartialFacts

LEMMA CheckpointStep ==
    ASSUME UInv, Checkpoint
    PROVE  UInv'
<1>1. /\ Running = {} /\ txn' = txn /\ clock' = clock /\ updates' = updates
      /\ info' = [s \in Segments |-> [v \in Vectors |-> NoInfo]]
      /\ column' = [s \in Segments |-> [r \in Rows |-> FetchCommitted(s, r)]]
  BY DEF Checkpoint
<1>2. \A s \in Segments, v \in Vectors :
         info'[s][v].chain = <<>> /\ Len(info'[s][v].chain) = 0 /\ info'[s][v] \in Infos(s)
  <2> TAKE s \in Segments, v \in Vectors
  <2>1. info'[s][v] = [latest |-> <<>>, chain |-> <<>>]
    BY <1>1 DEF NoInfo
  <2>2. <<>> \in Partial(Content(s)) /\ <<>> \in Seq(Node(s))
    BY PartialEmpty
  <2>3. [latest |-> <<>>, chain |-> <<>>] \in Infos(s)
    BY ONLY <2>2, InfosMake
  <2> QED BY <2>1, <2>3
<1>3. TypeOK'
  <2>1. \A s \in Segments : column'[s] \in [Rows -> Content(s)]
    BY <1>1, CommittedTyped DEF UInv
  <2> QED BY <1>1, <1>2, <2>1 DEF UInv, TypeOK
<1>4. ShapeInv' /\ Running' = {}
  BY <1>1 DEF ShapeInv, Running
<1>5. ChainInv'
  BY <1>2 DEF ChainInv, ChainGood, OneEach, Covered, Younger, Apart
<1>6. VersionInv' /\ UndoInv'
  BY <1>2, <1>4 DEF VersionInv, UndoInv
<1>7. ClockInv' /\ CountInv' /\ CallInv'
  BY <1>1 DEF UInv, ClockInv, CountInv, CallInv, Running, Begun, Ending
<1>8. ChainsReleased'
  <2>1. \A s \in Segments, v \in Vectors : DOMAIN info'[s][v].chain = {}
    BY <1>2
  <2> QED BY <2>1 DEF ChainsReleased
<1> QED BY <1>3, <1>4, <1>5, <1>6, <1>7, <1>8 DEF UInv

LEMMA InitUpdate ==
    ASSUME Init
    PROVE  UInv
<1>1. /\ clock = 1 /\ updates = 0 /\ txn = [t \in Txns |-> NewTransaction]
      /\ info = [s \in Segments |-> [v \in Vectors |-> NoInfo]]
  BY DEF Init
<1>2. \A s \in Segments, v \in Vectors :
         info[s][v].chain = <<>> /\ Len(info[s][v].chain) = 0 /\ info[s][v] \in Infos(s)
  <2> TAKE s \in Segments, v \in Vectors
  <2>1. info[s][v] = [latest |-> <<>>, chain |-> <<>>]
    BY <1>1 DEF NoInfo
  <2>2. <<>> \in Partial(Content(s)) /\ <<>> \in Seq(Node(s))
    BY PartialEmpty
  <2>3. [latest |-> <<>>, chain |-> <<>>] \in Infos(s)
    BY ONLY <2>2, InfosMake
  <2> QED BY <2>1, <2>3
<1>3. \A t \in Txns : txn[t] = NewTransaction
  BY <1>1
<1>4. NewTransaction \in Transactions
  <2>1. <<>> \in Partial(Txns \union {Null}) /\ <<>> \in Partial(0..MaxTransactions \union {Null})
    BY PartialEmpty
  <2> QED BY <2>1 DEF NewTransaction, Transactions
<1>5. TypeOK
  <2>1. ASSUME NEW s \in Segments PROVE column[s] \in [Rows -> Content(s)]
    <3>1. column[s] = [r \in Rows |-> IF s = "data" THEN 0 ELSE r \notin NullRows]
      BY DEF Init
    <3>2. 0 \in 0..MaxTransactions
      BY UpdateAssumption
    <3>3. CASE s = "data"
      BY <3>1, <3>2, <3>3 DEF Content
    <3>4. CASE s # "data"
      BY <3>1, <3>4 DEF Content
    <3> QED BY <3>3, <3>4
  <2>2. txn \in [Txns -> Transactions]
    BY <1>1, <1>4
  <2>3. clock \in 1..(2 * MaxTransactions + 1) /\ updates \in 0..MaxUpdates
    BY <1>1, UpdateAssumption
  <2> QED BY <1>2, <2>1, <2>2, <2>3 DEF TypeOK
<1>6. \A t \in Txns : txn[t].phase = "none" /\ txn[t].commit_id = 0 /\ txn[t].undo = <<>> /\ txn[t].at = 0
  BY <1>3 DEF NewTransaction
<1>7. Running = {} /\ Begun = {} /\ Ending = {}
  BY <1>6 DEF Running, Begun, Ending
<1>8. ShapeInv
  BY <1>1 DEF ShapeInv, Init
<1>9. ChainInv
  BY <1>2 DEF ChainInv, ChainGood, OneEach, Covered, Younger, Apart
<1>10. VersionInv /\ UndoInv
  BY <1>2, <1>7 DEF VersionInv, UndoInv
<1>11. ClockInv /\ CallInv
  BY <1>1, <1>6, <1>7 DEF ClockInv, CallInv
<1>12. CountInv
  BY <1>1, <1>7, FS_EmptySet DEF CountInv
<1>13. ChainsReleased
  <2>1. \A s \in Segments, v \in Vectors : DOMAIN info[s][v].chain = {}
    BY <1>2
  <2> QED BY <2>1 DEF ChainsReleased
<1> QED BY <1>5, <1>8, <1>9, <1>10, <1>11, <1>12, <1>13 DEF UInv

\* Every step is one of a transaction, or a checkpoint.
LEMMA NextKept ==
    ASSUME UInv, Next
    PROVE  Checkpoint \/ \E t \in Txns : Kept(t)
<1>1. ASSUME NEW t \in Txns,
             \E v \in Vectors : \E D \in (SUBSET {r \in Rows : VectorOf(r) = v}) \ {{}} :
                \E writes \in [D -> {t, Null}] : UpdateData(t, v, writes)
      PROVE  Kept(t)
  <2>1. PICK v \in Vectors : \E D \in (SUBSET {r \in Rows : VectorOf(r) = v}) \ {{}} :
           \E writes \in [D -> {t, Null}] : UpdateData(t, v, writes)
    BY <1>1
  <2>2. PICK D \in (SUBSET {r \in Rows : VectorOf(r) = v}) \ {{}} : \E writes \in [D -> {t, Null}] : UpdateData(t, v, writes)
    BY <2>1
  <2>3. PICK writes \in [D -> {t, Null}] : UpdateData(t, v, writes)
    BY <2>2
  <2>4. D \in SUBSET {r \in Rows : VectorOf(r) = v} /\ D # {}
    BY <2>2
  <2> QED BY <2>3, <2>4, UpdateDataStep
<1>2. ASSUME NEW t \in Txns,
             \/ BeginTransaction(t) \/ UpdateValidity(t)
             \/ CommitTransaction(t) \/ CommitEntry(t) \/ CommitFails(t) \/ FinishCommit(t)
             \/ RollbackTransaction(t) \/ RollbackEntry(t) \/ FinishRollback(t)
      PROVE  Kept(t)
  BY <1>2, BeginStep, UpdateValidityStep, CommitStep, CommitEntryStep, CommitFailsStep, RemoveStep,
     RollbackStep, RollbackEntryStep
<1> QED BY <1>1, <1>2 DEF Next

LEMMA StepUpdate ==
    ASSUME UInv, [Next]_vars
    PROVE  UInv'
<1>1. CASE UNCHANGED vars
  <2>1. column' = column /\ info' = info /\ txn' = txn /\ clock' = clock /\ updates' = updates
    BY <1>1 DEF vars
  <2>2. TypeOK' /\ ShapeInv' /\ ChainInv' /\ CallInv'
    BY <2>1 DEF UInv, TypeOK, ShapeInv, ChainInv, CallInv
  <2>3. VersionInv'
    BY <2>1 DEF UInv, VersionInv, VersionOf, Marked, TransactionId
  <2>4. UndoInv'
    <3>1. Running' = Running /\ \A t \in Running : UndoOf(t)
      BY <2>1 DEF UInv, UndoInv, Running
    <3>2. \A t \in Running : UndoOf(t)' <=> UndoOf(t)
      BY <2>1 DEF UndoOf, Undone, Holds
    <3> QED BY <3>1, <3>2 DEF UndoInv
  <2>5. ClockInv' /\ CountInv'
    BY <2>1 DEF UInv, ClockInv, CountInv, Begun, Ending, Running
  <2>6. ChainsReleased'
    BY <2>1 DEF UInv, ChainsReleased, Running
  <2> QED BY <2>2, <2>3, <2>4, <2>5, <2>6 DEF UInv
<1>2. CASE Next
  BY <1>2, NextKept, CheckpointStep DEF Kept
<1> QED BY <1>1, <1>2

-----------------------------------------------------------------------------
(* Theorems                                                                *)

\* The update chains keep their form (update_segment.cpp): one entry per transaction, covered by
\* the base info, newer entries in front, and of two entries with a common row only the newer
\* may belong to a transaction that runs; the versions say how far the commit got; the undo
\* buffer of a running transaction names exactly the chains it has an entry in.
THEOREM UpdateInvariance == Spec => []UInv
<1>1. Init => UInv
  BY InitUpdate
<1>2. UInv /\ [Next]_vars => UInv'
  BY StepUpdate
<1> QED BY <1>1, <1>2, PTL DEF Spec

\* Every update, commit, rollback, cleanup and checkpoint leaves well-formed segments and undo
\* buffers, and the timestamps below TRANSACTION_ID_START.
THEOREM UpdateTypeCorrect == Spec => []TypeOK
<1>1. UInv => TypeOK
  BY DEF UInv
<1> QED BY <1>1, UpdateInvariance, PTL

\* CleanupUpdate takes an entry out of its chain by the time its undo buffer is freed: every
\* entry belongs to a transaction that runs or that a running one may not see yet.
THEOREM ChainsAreReleased == Spec => []ChainsReleased
<1>1. UInv => ChainsReleased
  BY DEF UInv
<1> QED BY <1>1, UpdateInvariance, PTL

\* FetchUpdates of a reader between two statements returns the same value of a row before and
\* after any step of another transaction: an update pushed in front or merged into an entry, an
\* entry marked with its commit id or given the transaction's id back, one undone, and any number
\* taken out by cleanup.
THEOREM ScansAreStable == Spec => ScansStable
<1>a. TypeOK => \A t \in Txns, s \in Segments, r \in Rows : FetchUpdates(t, s, r) = Reads(t, s, r)
  BY FetchIsShown
<1>b. TypeOK' => (\A t \in Txns, s \in Segments, r \in Rows : FetchUpdates(t, s, r) = Reads(t, s, r))'
  BY <1>a, PTL
<1>1. ASSUME UInv, [Next]_vars, NEW t \in Txns, txn[t].phase = "active", txn'[t] = txn[t],
             NEW s \in Segments, NEW r \in Rows
      PROVE  FetchUpdates(t, s, r)' = FetchUpdates(t, s, r)
  <2>1. TypeOK /\ TypeOK'
    BY <1>1, StepUpdate DEF UInv
  <2>2. FetchUpdates(t, s, r) = Reads(t, s, r)
    BY <2>1, <1>1, <1>a
  <2>3. FetchUpdates(t, s, r)' = Reads(t, s, r)'
    BY <2>1, <1>1, <1>b
  <2>4. Reads(t, s, r)' = Reads(t, s, r)
    <3>1. CASE UNCHANGED vars
      BY <3>1 DEF vars, Reads, TransactionId
    <3>2. CASE Next
      <4>1. ~Checkpoint
        BY <1>1 DEF Checkpoint, Running
      <4>2. PICK u \in Txns : Kept(u)
        BY <1>1, <3>2, <4>1, NextKept
      <4>3. t \in Txns \ {u}
        BY <1>1, <4>2 DEF Kept
      <4> QED BY <1>1, <4>2, <4>3 DEF Kept, OthersRead
    <3> QED BY <1>1, <3>1, <3>2
  <2> QED BY <2>2, <2>3, <2>4
<1>2. UInv /\ [Next]_vars =>
        [\A t \in Txns : txn[t].phase = "active" /\ txn'[t] = txn[t]
            => \A s \in Segments, r \in Rows : FetchUpdates(t, s, r)' = FetchUpdates(t, s, r)]_vars
  BY <1>1
<1> QED BY <1>2, UpdateInvariance, PTL DEF Spec, ScansStable

=============================================================================
