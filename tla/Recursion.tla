----------------------------- MODULE Recursion ------------------------------
(***************************************************************************)
(* Induction for the proofs of this project.  The induction theorems of    *)
(* the library take an operator as a parameter; with a set in its place,   *)
(* the set of the numbers a fact holds for, they follow from the order of  *)
(* the naturals being well founded.                                        *)
(***************************************************************************)
EXTENDS Integers, WellFoundedInduction, TLAPS

(* The steps of every loop over an index are covered: a set of numbers     *)
(* with 0, and with n + 1 for each of its n, holds all of them.            *)
LEMMA SetInduction ==
  ASSUME NEW S, 0 \in S, \A n \in Nat : n \in S => n + 1 \in S
  PROVE  Nat \subseteq S
<1> DEFINE R == {pair \in Nat \X Nat : pair[1] < pair[2]}
<1>1. IsWellFoundedOn(R, Nat)
  BY NatLessThanWellFounded DEF OpToRel
<1>2. SUFFICES ASSUME Nat \ S # {} PROVE FALSE
  OBVIOUS
<1> HIDE DEF R
<1>3. PICK least \in Nat \ S : \A m \in Nat \ S : ~(<<m, least>> \in R)
  BY <1>1, <1>2, WFMin, Zenon
<1>4. least - 1 \in Nat /\ least - 1 \notin S
  BY SMT
<1>5. <<least - 1, least>> \in R
  BY <1>4 DEF R
<1> QED
  BY <1>3, <1>4, <1>5

(* Of the numbers at which something is found there is a first one.        *)
LEMMA LeastExists ==
  ASSUME NEW S, S \subseteq Nat, S # {}
  PROVE  \E n \in S : \A m \in S : n <= m
<1> DEFINE R == {pair \in Nat \X Nat : pair[1] < pair[2]}
<1>1. IsWellFoundedOn(R, Nat)
  BY NatLessThanWellFounded DEF OpToRel
<1> HIDE DEF R
<1>2. PICK least \in S : \A m \in S : ~(<<m, least>> \in R)
  BY <1>1, WFMin, Zenon
<1>3. \A m \in S : least <= m
  <2> SUFFICES ASSUME NEW m \in S, m < least PROVE FALSE
    OBVIOUS
  <2>1. <<m, least>> \in R
    BY DEF R
  <2> QED
    BY <1>2, <2>1
<1> QED
  BY <1>3

(* f[i] is where a reader stands that started at first and has passed the  *)
(* first i of the sizes.                                                   *)
Adds(f, n, first, size) == /\ f[0] = first
                           /\ \A i \in 1..n : f[i] = f[i - 1] + size[i]

(* Lengths that are added one after the other, as a reader's position is,  *)
(* give a position before each of them.                                    *)
LEMMA SumsExist ==
  ASSUME NEW n \in Nat, NEW first, NEW size
  PROVE  \E f : Adds(f, n, first, size)
<1> DEFINE Upto(f, m) == f = [i \in 0..m |-> IF i = 0 THEN first ELSE f[i - 1] + size[i]]
           S == {m \in Nat : \E f : Upto(f, m)}
<1>1. 0 \in S
  <2>1. Upto([i \in 0..0 |-> first], 0)
    OBVIOUS
  <2> QED
    BY <2>1
<1>2. ASSUME NEW m \in Nat, m \in S PROVE m + 1 \in S
  <2>1. PICK f : Upto(f, m)
    BY <1>2
  <2> DEFINE g == [i \in 0..(m + 1) |-> IF i <= m THEN f[i] ELSE f[m] + size[i]]
  <2>2. \A i \in 0..(m + 1) : g[i] = IF i = 0 THEN first ELSE g[i - 1] + size[i]
    BY <2>1
  <2>3. Upto(g, m + 1)
    BY <2>2
  <2> HIDE DEF g, Upto
  <2> QED
    BY <2>3
<1> HIDE DEF S
<1>3. n \in S
  <2>1. Nat \subseteq S
    BY <1>1, <1>2, SetInduction
  <2> QED
    BY <2>1
<1>4. PICK f : Upto(f, n)
  BY <1>3 DEF S
<1>5. Adds(f, n, first, size)
  BY <1>4 DEF Adds
<1> QED
  BY <1>5

(* The positions are naturals and do not fall.                             *)
LEMMA SumsRise ==
  ASSUME NEW n \in Nat, NEW first \in Nat, NEW size, \A i \in 1..n : size[i] \in Nat,
         NEW f, Adds(f, n, first, size)
  PROVE  /\ \A i \in 0..n : f[i] \in Nat
         /\ \A j \in 0..n : \A i \in 0..j : f[i] <= f[j]
<1> USE DEF Adds
<1> DEFINE S == {j \in Nat : j <= n => /\ \A i \in 0..j : f[i] \in Nat
                                       /\ \A i \in 0..j : f[i] <= f[j]}
<1>1. 0 \in S
  OBVIOUS
<1>2. ASSUME NEW m \in Nat, m \in S PROVE m + 1 \in S
  <2>1. CASE m + 1 <= n
    <3>1. f[m + 1] = f[m] + size[m + 1] /\ size[m + 1] \in Nat
      BY <2>1
    <3>2. \A i \in 0..m : f[i] \in Nat /\ f[i] <= f[m]
      BY <1>2, <2>1
    <3>3. f[m + 1] \in Nat /\ \A i \in 0..(m + 1) : f[i] \in Nat /\ f[i] <= f[m + 1]
      BY <3>1, <3>2
    <3> QED
      BY <3>3
  <2> QED
    BY <2>1
<1> HIDE DEF S
<1>3. Nat \subseteq S
  BY <1>1, <1>2, SetInduction
<1> QED
  BY <1>3 DEF S

(* And there is only one such position: two readers that start at the same *)
(* place and pass the same lengths agree before each of them.              *)
LEMMA SumsUnique ==
  ASSUME NEW n \in Nat, NEW first, NEW size,
         NEW f, Adds(f, n, first, size), NEW g, Adds(g, n, first, size)
  PROVE  \A i \in 0..n : f[i] = g[i]
<1> USE DEF Adds
<1> DEFINE S == {m \in Nat : m <= n => f[m] = g[m]}
<1>1. 0 \in S
  OBVIOUS
<1>2. ASSUME NEW m \in Nat, m \in S PROVE m + 1 \in S
  <2>1. CASE m + 1 <= n
    <3>1. f[m + 1] = f[m] + size[m + 1] /\ g[m + 1] = g[m] + size[m + 1]
      BY <2>1
    <3> QED
      BY <1>2, <2>1, <3>1
  <2> QED
    BY <2>1
<1> HIDE DEF S
<1>3. Nat \subseteq S
  BY <1>1, <1>2, SetInduction
<1> QED
  BY <1>3 DEF S

(* Loops over the indices up to n: upwards and downwards.                  *)
LEMMA UpInduction ==
  ASSUME NEW n \in Nat, NEW S, 0 \in S, \A k \in 1..n : k - 1 \in S => k \in S
  PROVE  \A k \in 0..n : k \in S
<1> DEFINE T == {m \in Nat : m <= n => m \in S}
<1>1. 0 \in T
  OBVIOUS
<1>2. ASSUME NEW m \in Nat, m \in T PROVE m + 1 \in T
  <2>1. CASE m + 1 <= n
    <3>1. m + 1 \in 1..n /\ (m + 1) - 1 = m /\ m \in S
      BY <1>2, <2>1
    <3> QED
      BY <3>1
  <2> QED
    BY <2>1
<1> HIDE DEF T
<1>3. Nat \subseteq T
  BY <1>1, <1>2, SetInduction
<1> QED
  BY <1>3 DEF T

(* A loop from n down to 0.                                                *)
LEMMA DownInduction ==
  ASSUME NEW n \in Nat, NEW S, n \in S, \A k \in 1..n : k \in S => k - 1 \in S
  PROVE  \A k \in 0..n : k \in S
<1> DEFINE T == {m \in 0..n : n - m \in S}
<1>1. 0 \in T
  OBVIOUS
<1>2. ASSUME NEW k \in 1..n, k - 1 \in T PROVE k \in T
  <2>1. /\ n - (k - 1) \in 1..n /\ n - (k - 1) \in S
        /\ (n - (k - 1)) - 1 = n - k
    BY <1>2
  <2> QED
    BY <2>1
<1> HIDE DEF T
<1>3. \A k \in 0..n : k \in T
  BY <1>1, <1>2, UpInduction
<1>4. ASSUME NEW k \in 0..n PROVE k \in S
  <2>1. n - k \in 0..n /\ n - (n - k) = k
    OBVIOUS
  <2>2. n - k \in T
    BY <1>3, <2>1
  <2> QED
    BY <2>1, <2>2 DEF T
<1> QED
  BY <1>4

(* What such a loop computes, with g[k] as its k-th step, exists.          *)
LoopsUp(f, n, S, first, g) ==
    f \in [0..n -> S] /\ f[0] = first /\ \A k \in 1..n : f[k] = g[k][f[k - 1]]

LoopsDown(f, n, S, first, g) ==
    f \in [0..n -> S] /\ f[n] = first /\ \A k \in 1..n : f[k - 1] = g[k][f[k]]

(* A loop upwards leaves a value at each index.                            *)
LEMMA LoopUp ==
  ASSUME NEW n \in Nat, NEW S, NEW first \in S, NEW g \in [1..n -> [S -> S]]
  PROVE  \E f : LoopsUp(f, n, S, first, g)
<1> DEFINE Good(f, m) == f \in [0..m -> S] /\ f[0] = first
                         /\ \A k \in 1..m : f[k] = g[k][f[k - 1]]
           T == {m \in Nat : \E f : Good(f, m)}
<1>1. 0 \in T
  <2>1. Good([k \in 0..0 |-> first], 0)
    OBVIOUS
  <2> QED
    BY <2>1
<1>2. ASSUME NEW k \in 1..n, k - 1 \in T PROVE k \in T
  <2>1. PICK f : Good(f, k - 1)
    BY <1>2
  <2>2. f \in [0..(k - 1) -> S] /\ f[k - 1] \in S /\ g[k][f[k - 1]] \in S
    BY <2>1
  <2> DEFINE h == [i \in 0..k |-> IF i = k THEN g[k][f[k - 1]] ELSE f[i]]
  <2>3. h \in [0..k -> S] /\ h[0] = first
    BY <2>1, <2>2
  <2>4. ASSUME NEW i \in 1..k PROVE h[i] = g[i][h[i - 1]]
    <3>1. h[i - 1] = f[i - 1]
      OBVIOUS
    <3>2. CASE i = k
      BY <3>1, <3>2
    <3>3. CASE i # k
      <4>1. i \in 1..(k - 1) /\ h[i] = f[i]
        BY <3>3
      <4> QED
        BY <2>1, <3>1, <4>1
    <3> QED
      BY <3>2, <3>3
  <2> HIDE DEF h
  <2>5. Good(h, k)
    BY <2>3, <2>4
  <2> QED
    BY <2>5
<1> HIDE DEF T
<1>3. \A k \in 0..n : k \in T
  BY <1>1, <1>2, UpInduction
<1>4. n \in T
  BY <1>3
<1> QED
  BY <1>4 DEF T, LoopsUp

(* So does a loop downwards.                                               *)
LEMMA LoopDown ==
  ASSUME NEW n \in Nat, NEW S, NEW first \in S, NEW g \in [1..n -> [S -> S]]
  PROVE  \E f : LoopsDown(f, n, S, first, g)
<1> DEFINE r == [k \in 1..n |-> g[n + 1 - k]]
<1>1. r \in [1..n -> [S -> S]]
  <2>1. \A k \in 1..n : n + 1 - k \in 1..n
    OBVIOUS
  <2> QED
    BY <2>1
<1>2. PICK u \in [0..n -> S] : u[0] = first /\ \A k \in 1..n : u[k] = r[k][u[k - 1]]
  <2> HIDE DEF r
  <2>1. \E u : LoopsUp(u, n, S, first, r)
    BY <1>1, LoopUp
  <2> QED
    BY <2>1 DEF LoopsUp
<1> DEFINE f == [k \in 0..n |-> u[n - k]]
<1>3. f \in [0..n -> S] /\ f[n] = first
  BY <1>2
<1>4. ASSUME NEW k \in 1..n PROVE f[k - 1] = g[k][f[k]]
  <2>1. n + 1 - k \in 1..n /\ n + 1 - (n + 1 - k) = k /\ (n + 1 - k) - 1 = n - k
        /\ n - (k - 1) = n + 1 - k /\ k - 1 \in 0..n /\ k \in 0..n
    OBVIOUS
  <2>2. u[n + 1 - k] = g[k][u[n - k]]
    BY <1>2, <2>1
  <2> QED
    BY <2>1, <2>2
<1> HIDE DEF f
<1> QED
  BY <1>3, <1>4 DEF LoopsDown

(* A number may take its fact from any of those below it.                  *)
LEMMA StrongInduction ==
  ASSUME NEW S, \A v \in Nat : (\A u \in 0..(v - 1) : u \in S) => v \in S
  PROVE  \A v \in Nat : v \in S
<1> DEFINE T == {n \in Nat : \A u \in 0..n : u \in S}
<1>1. 0 \in T
  OBVIOUS
<1>2. ASSUME NEW n \in Nat, n \in T PROVE n + 1 \in T
  <2>1. \A u \in 0..((n + 1) - 1) : u \in S
    BY <1>2
  <2>2. n + 1 \in S
    BY <2>1
  <2> QED
    BY <1>2, <2>2
<1> HIDE DEF T
<1>3. Nat \subseteq T
  BY <1>1, <1>2, SetInduction
<1> QED
  BY <1>3 DEF T
=============================================================================
