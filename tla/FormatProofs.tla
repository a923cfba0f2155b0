---------------------------- MODULE FormatProofs ----------------------------
(***************************************************************************)
(* Proofs about module Format: what vsnprintf and number of                *)
(* src/std/print.c leave in the array is what the format means, for any    *)
(* formats, printers, words and arrays.                                    *)
(*                                                                         *)
(* The invariant, FormatInv, says of a call how far it has come.  Before a *)
(* piece, the array holds the beginning of the text that is meant, as far  *)
(* as it has room (Holds).  In the middle of a number, the shared array    *)
(* numbers holds the digits of the number from the last one on, and num    *)
(* what is left of it after as many divisions; then the whole of its       *)
(* meaning backwards; and the array holds as much of that as has been      *)
(* copied.  All this is said character by character of a call that no      *)
(* other has overlapped (alone), and of two calls under way neither is.    *)
(* Of the others it says only that no character is a NUL, whatever tasks   *)
(* write to numbers in the meantime: so the text has its length anyway.    *)
(*                                                                         *)
(* Powers and the flattening of a sequence are defined by recursion.  That *)
(* the functions exist, and their equations, is proved from the least      *)
(* number for which they would fail (Descent).                             *)
(*                                                                         *)
(* The theorems assume NumbersFit: numbers has places for the digits of a  *)
(* word in base 8 and for two marks.  WordsFit shows it for 32 bits.       *)
(***************************************************************************)
EXTENDS Format, SequenceTheorems, WellFoundedInduction, TLAPS

-----------------------------------------------------------------------------
(* Powers. *)

\* A set of numbers has a least one.
LEMMA LeastNumber ==
    \A T \in SUBSET Nat : T # {} => \E x \in T : \A y \in T : x <= y
<1> SUFFICES ASSUME NEW T \in SUBSET Nat, T # {}
             PROVE  \E x \in T : \A y \in T : x <= y
  OBVIOUS
<1> DEFINE R == {ss \in Nat \X Nat : ss[1] < ss[2]}
<1>1. IsWellFoundedOn(R, Nat)
  BY NatLessThanWellFounded DEF OpToRel
<1>2. PICK x \in T : \A y \in T : ~ (<<y, x>> \in R)
  <2> HIDE DEF R
  <2> QED BY <1>1, WFMin
<1>3. \A y \in T : ~ (y < x)
  BY <1>2
<1>4. QED
  BY <1>3

\* A set of numbers that has, with each of its members but 0, the one before
\* has 0.
LEMMA Descent ==
    \A T \in SUBSET Nat :
        (\A k \in T : k # 0 => k - 1 \in T) /\ T # {} => 0 \in T
<1> SUFFICES ASSUME NEW T \in SUBSET Nat, \A k \in T : k # 0 => k - 1 \in T, T # {}
             PROVE  0 \in T
  OBVIOUS
<1>1. PICK k \in T : \A j \in T : k <= j
  BY LeastNumber
<1>2. CASE k = 0
  BY <1>2
<1>3. CASE k # 0
  <2>1. k - 1 \in T /\ ~ (k <= k - 1)
    BY <1>3
  <2>2. QED
    BY <1>1, <2>1
<1>4. QED
  BY <1>2, <1>3

\* The powers up to the n-th, as the function f.
Powers(b, n, f) == f = [k \in 0 .. n |-> IF k = 0 THEN 1 ELSE b * f[k - 1]]

\* The recursion of Power defines a function, and one only: both are shown by
\* the least n for which it would not.
LEMMA PowersExist ==
    ASSUME NEW b, NEW n \in Nat
    PROVE  \E f : Powers(b, n, f)
<1> DEFINE Bad == {k \in Nat : ~ \E f : Powers(b, k, f)}
<1>1. 0 \notin Bad
  <2>1. Powers(b, 0, [j \in 0 .. 0 |-> 1])
    BY DEF Powers
  <2>2. QED
    BY <2>1
<1>2. ASSUME NEW k \in Bad, k # 0, k - 1 \notin Bad
      PROVE  FALSE
  <2>1. PICK m \in Nat : k = m + 1
    <3>1. k - 1 \in Nat /\ k = (k - 1) + 1
      BY <1>2
    <3>2. QED
      BY <3>1
  <2>2. PICK f : Powers(b, m, f)
    BY <1>2, <2>1
  <2> DEFINE g == [j \in 0 .. k |-> IF j = k THEN b * f[m] ELSE f[j]]
  <2>3. ASSUME NEW j \in 0 .. k
        PROVE  g[j] = IF j = 0 THEN 1 ELSE b * g[j - 1]
    <3>1. CASE j = k
      <4>1. j # 0 /\ j - 1 = m /\ m \in 0 .. k /\ m # k
        BY <2>1, <3>1
      <4>2. g[m] = f[m]
        BY <4>1
      <4>3. QED
        BY <3>1, <4>1, <4>2
    <3>2. CASE j # k /\ j # 0
      <4>1. j \in 0 .. m /\ j - 1 \in 0 .. k /\ j - 1 # k
        BY <2>1, <3>2
      <4>2. g[j] = f[j] /\ g[j - 1] = f[j - 1]
        BY <3>2, <4>1
      <4>3. f[j] = b * f[j - 1]
        BY <2>2, <3>2, <4>1 DEF Powers
      <4>4. QED
        BY <3>2, <4>2, <4>3
    <3>3. CASE j # k /\ j = 0
      <4>1. g[j] = f[0] /\ 0 \in 0 .. m
        BY <2>1, <3>3
      <4>2. f[0] = 1
        BY <2>2, <4>1 DEF Powers
      <4>3. QED
        BY <3>3, <4>1, <4>2
    <3>4. QED
      BY <3>1, <3>2, <3>3
  <2>4. g = [j \in 0 .. k |-> g[j]]
    OBVIOUS
  <2>5. Powers(b, k, g)
    <3> HIDE DEF g
    <3>1. QED
      BY <2>3, <2>4 DEF Powers
  <2>6. QED
    BY <1>2, <2>5
<1>3. Bad = {}
  <2>1. Bad \in SUBSET Nat
    OBVIOUS
  <2>2. \A k \in Bad : k # 0 => k - 1 \in Bad
    BY <1>2
  <2> HIDE DEF Bad
  <2>3. QED
    BY <1>1, <2>1, <2>2, Descent
<1>4. QED
  BY <1>3

\* The recursion of Power, as an equation.
LEMMA PowerIs ==
    ASSUME NEW b
    PROVE  /\ Power(b)[0] = 1
           /\ \A k \in 1 .. NUMBERS_LEN : Power(b)[k] = b * Power(b)[k - 1]
<1>1. NUMBERS_LEN \in Nat
  BY DEF NUMBERS_LEN
<1> DEFINE f == CHOOSE f : Powers(b, NUMBERS_LEN, f)
<1>2. Powers(b, NUMBERS_LEN, f)
  BY <1>1, PowersExist
<1>3. Power(b) = f
  BY DEF Power, Powers
<1> HIDE DEF f
<1>4. 0 \in 0 .. NUMBERS_LEN /\ \A k \in 1 .. NUMBERS_LEN : k \in 0 .. NUMBERS_LEN /\ k # 0
  BY <1>1
<1>5. f = [k \in 0 .. NUMBERS_LEN |-> IF k = 0 THEN 1 ELSE b * f[k - 1]]
  BY <1>2 DEF Powers
<1>6. f[0] = 1 /\ \A k \in 1 .. NUMBERS_LEN : f[k] = b * f[k - 1]
  BY <1>4, <1>5
<1>7. QED
  BY <1>3, <1>6

\* A power of a positive number is positive.
LEMMA PowerPositive ==
    ASSUME NEW b \in Nat \ {0}, NEW k \in 0 .. NUMBERS_LEN
    PROVE  Power(b)[k] \in Nat \ {0}
<1> DEFINE Bad == {j \in 0 .. NUMBERS_LEN : Power(b)[j] \notin Nat \ {0}}
<1>1. 0 \notin Bad
  BY PowerIs
<1>2. ASSUME NEW j \in Bad, j # 0, j - 1 \notin Bad
      PROVE  FALSE
  <2>1. j \in 1 .. NUMBERS_LEN /\ j - 1 \in 0 .. NUMBERS_LEN
    BY <1>2 DEF NUMBERS_LEN
  <2>2. Power(b)[j - 1] \in Nat \ {0}
    BY <1>2, <2>1
  <2>3. Power(b)[j] = b * Power(b)[j - 1]
    BY <2>1, PowerIs
  <2>4. \A x \in Nat \ {0} : b * x \in Nat \ {0}
    OBVIOUS
  <2>5. QED
    BY <1>2, <2>2, <2>3, <2>4
<1>3. Bad = {}
  <2>1. Bad \in SUBSET Nat
    OBVIOUS
  <2>2. \A j \in Bad : j # 0 => j - 1 \in Bad
    BY <1>2
  <2> HIDE DEF Bad
  <2>3. QED
    BY <1>1, <2>1, <2>2, Descent
<1>4. QED
  BY <1>3

\* A longer power is not smaller.
LEMMA PowersGrow ==
    ASSUME NEW b \in Nat \ {0}, NEW j \in 0 .. NUMBERS_LEN, NEW k \in j .. NUMBERS_LEN
    PROVE  Power(b)[j] <= Power(b)[k]
<1> DEFINE Bad == {d \in Nat : j + d <= NUMBERS_LEN /\ ~ (Power(b)[j] <= Power(b)[j + d])}
<1>1. \A i \in 0 .. NUMBERS_LEN : Power(b)[i] \in Nat
  BY PowerPositive
<1>2. 0 \notin Bad
  <2>1. j + 0 = j /\ Power(b)[j] \in Nat
    BY <1>1
  <2>2. Power(b)[j] <= Power(b)[j]
    BY <2>1
  <2>3. QED
    BY <2>1, <2>2
<1>3. ASSUME NEW d \in Bad, d # 0, d - 1 \notin Bad
      PROVE  FALSE
  <2>1. /\ j + d \in 1 .. NUMBERS_LEN
        /\ j + (d - 1) = (j + d) - 1
        /\ j + (d - 1) \in 0 .. NUMBERS_LEN
        /\ d - 1 \in Nat
    BY <1>3 DEF NUMBERS_LEN
  <2>2. Power(b)[j] <= Power(b)[(j + d) - 1]
    BY <1>3, <2>1 DEF NUMBERS_LEN
  <2>3. Power(b)[j + d] = b * Power(b)[(j + d) - 1]
    BY <2>1, PowerIs
  <2>4. \A p, q \in Nat : p <= q => p <= b * q
    OBVIOUS
  <2>5. Power(b)[j] \in Nat /\ Power(b)[(j + d) - 1] \in Nat
    BY <1>1, <2>1
  <2>6. Power(b)[j] <= Power(b)[j + d]
    BY <2>2, <2>3, <2>4, <2>5
  <2>7. QED
    BY <1>3, <2>6
<1>4. Bad = {}
  <2>1. Bad \in SUBSET Nat
    OBVIOUS
  <2>2. \A i \in Bad : i # 0 => i - 1 \in Bad
    BY <1>3
  <2> HIDE DEF Bad
  <2>3. QED
    BY <1>2, <2>1, <2>2, Descent
<1>5. k - j \in Nat /\ j + (k - j) = k /\ k <= NUMBERS_LEN
  OBVIOUS
<1>6. k - j \notin Bad
  BY <1>4
<1>7. QED
  BY <1>5, <1>6

\* Nor is a power of a larger number.
LEMMA LargerBase ==
    ASSUME NEW b \in Nat, b >= 8, NEW k \in 0 .. NUMBERS_LEN
    PROVE  Power(8)[k] <= Power(b)[k]
<1> DEFINE Bad == {j \in 0 .. NUMBERS_LEN : ~ (Power(8)[j] <= Power(b)[j])}
<1>1. 0 \notin Bad
  BY PowerIs
<1>2. ASSUME NEW j \in Bad, j # 0, j - 1 \notin Bad
      PROVE  FALSE
  <2>1. j \in 1 .. NUMBERS_LEN /\ j - 1 \in 0 .. NUMBERS_LEN
    BY <1>2 DEF NUMBERS_LEN
  <2>2. Power(8)[j - 1] <= Power(b)[j - 1]
    BY <1>2, <2>1
  <2>3. Power(b)[j] = b * Power(b)[j - 1] /\ Power(8)[j] = 8 * Power(8)[j - 1]
    BY <2>1, PowerIs
  <2>4. Power(b)[j - 1] \in Nat /\ Power(8)[j - 1] \in Nat
    BY <2>1, PowerPositive
  <2>5. \A p, q \in Nat : p <= q => 8 * p <= b * q
    OBVIOUS
  <2>6. QED
    BY <1>2, <2>2, <2>3, <2>4, <2>5
<1>3. Bad = {}
  <2>1. Bad \in SUBSET Nat
    OBVIOUS
  <2>2. \A j \in Bad : j # 0 => j - 1 \in Bad
    BY <1>2
  <2> HIDE DEF Bad
  <2>3. QED
    BY <1>1, <2>1, <2>2, Descent
<1>4. QED
  BY <1>3

\* Numbers of 32 bits fit numbers, with two characters to spare.
LEMMA WordsFit == 2147483648 + 2147483648 <= Power(8)[NUMBERS_LEN - 2]
<1>1. \A k \in 1 .. 11 : k \in 1 .. NUMBERS_LEN
  BY DEF NUMBERS_LEN
<1>2. /\ Power(8)[0] = 1
      /\ Power(8)[1] = 8 * Power(8)[0] /\ Power(8)[2] = 8 * Power(8)[1]
      /\ Power(8)[3] = 8 * Power(8)[2] /\ Power(8)[4] = 8 * Power(8)[3]
      /\ Power(8)[5] = 8 * Power(8)[4] /\ Power(8)[6] = 8 * Power(8)[5]
      /\ Power(8)[7] = 8 * Power(8)[6] /\ Power(8)[8] = 8 * Power(8)[7]
      /\ Power(8)[9] = 8 * Power(8)[8] /\ Power(8)[10] = 8 * Power(8)[9]
      /\ Power(8)[11] = 8 * Power(8)[10]
  <2>1. \A k \in 1 .. 11 : Power(8)[k] = 8 * Power(8)[k - 1]
    BY <1>1, PowerIs
  <2>2. QED
    BY <2>1, PowerIs
<1>3. Power(8)[11] = 8589934592
  BY <1>2
<1>4. Power(8)[11] <= Power(8)[NUMBERS_LEN - 2]
  BY PowersGrow DEF NUMBERS_LEN
<1>5. QED
  <2>1. Power(8)[NUMBERS_LEN - 2] \in Nat
    BY PowerPositive DEF NUMBERS_LEN
  <2>2. QED
    BY <1>3, <1>4, <2>1

-----------------------------------------------------------------------------
(* Numerals. *)

\* Of the numbers k that could be the length of a numeral, there is one only.
LEMMA NumeralIs ==
    ASSUME NEW n \in Nat, NEW b \in Nat \ {0}, NEW k \in 1 .. NUMBERS_LEN,
           Power(b)[k] > n, k = 1 \/ Power(b)[k - 1] <= n
    PROVE  Numeral(n, b) = [j \in 1 .. k |-> (n \div Power(b)[k - j]) % b]
<1> DEFINE Is(l) == Power(b)[l] > n /\ (l = 1 \/ Power(b)[l - 1] <= n)
           len == CHOOSE l \in 1 .. NUMBERS_LEN : Is(l)
<1>1. len \in 1 .. NUMBERS_LEN /\ Is(len)
  <2>1. Is(k)
    OBVIOUS
  <2> HIDE DEF Is
  <2>2. QED
    BY <2>1
<1>2. ASSUME NEW l \in 1 .. NUMBERS_LEN, NEW m \in 1 .. NUMBERS_LEN, Is(l), Is(m), l < m
      PROVE  FALSE
  <2>1. m # 1 /\ m - 1 \in l .. NUMBERS_LEN /\ l \in 0 .. NUMBERS_LEN
    BY <1>2 DEF NUMBERS_LEN
  <2>2. Power(b)[l] <= Power(b)[m - 1]
    BY <2>1, PowersGrow
  <2>3. Power(b)[l] \in Nat /\ Power(b)[m - 1] \in Nat
    <3>1. m - 1 \in 0 .. NUMBERS_LEN
      BY <2>1 DEF NUMBERS_LEN
    <3>2. QED
      BY <2>1, <3>1, PowerPositive
  <2>4. Power(b)[l] > n /\ Power(b)[m - 1] <= n
    BY <1>2, <2>1
  <2>5. QED
    BY <2>2, <2>3, <2>4
<1>3. len = k
  <2>1. ~ (len < k) /\ ~ (k < len)
    <3>1. Is(k)
      OBVIOUS
    <3> HIDE DEF len, Is
    <3>2. QED
      BY <1>1, <1>2, <3>1
  <2>2. len \in Int /\ k \in Int
    <3> HIDE DEF len
    <3>1. QED
      BY <1>1 DEF NUMBERS_LEN
  <2> HIDE DEF len
  <2>3. QED
    BY <2>1, <2>2
<1>4. Numeral(n, b) = [j \in 1 .. len |-> (n \div Power(b)[len - j]) % b]
  BY DEF Numeral
<1>5. QED
  BY <1>3, <1>4

\* The loop of do_div: what is left of n after k rounds, and after one more.
LEMMA NextQuotient ==
    ASSUME NEW n \in Nat, NEW b \in Nat \ {0}, NEW k \in 0 .. NUMBERS_LEN - 1
    PROVE  (n \div Power(b)[k]) \div b = n \div Power(b)[k + 1]
<1>1. k + 1 \in 1 .. NUMBERS_LEN /\ (k + 1) - 1 = k /\ k \in 0 .. NUMBERS_LEN
  BY DEF NUMBERS_LEN
<1>2. Power(b)[k + 1] = b * Power(b)[k]
  BY <1>1, PowerIs
<1>3. Power(b)[k] \in Nat \ {0}
  BY <1>1, PowerPositive
<1>4. \A p \in Nat \ {0} : (n \div p) \div b = n \div (b * p)
  OBVIOUS
<1>5. QED
  BY <1>2, <1>3, <1>4
-----------------------------------------------------------------------------
(* The text that is meant, one piece after the other. *)

\* What FlattenSeq makes of the first n members of s, as the function g.
Flattening(s, n, g) ==
    g = [i \in 1 .. n |-> IF i = 1 THEN s[i] ELSE g[i - 1] \o s[i]]

\* The recursion of FlattenSeq defines a function as well.
LEMMA FlatteningExists ==
    ASSUME NEW s, NEW n \in Nat
    PROVE  \E g : Flattening(s, n, g)
<1> DEFINE Bad == {k \in Nat : ~ \E g : Flattening(s, k, g)}
<1>1. 0 \notin Bad
  <2>1. Flattening(s, 0, [j \in 1 .. 0 |-> 0])
    BY DEF Flattening
  <2>2. QED
    BY <2>1
<1>2. ASSUME NEW k \in Bad, k # 0, k - 1 \notin Bad
      PROVE  FALSE
  <2>1. PICK m \in Nat : k = m + 1
    <3>1. k - 1 \in Nat /\ k = (k - 1) + 1
      BY <1>2
    <3>2. QED
      BY <3>1
  <2>2. PICK f : Flattening(s, m, f)
    BY <1>2, <2>1
  <2> DEFINE g == [j \in 1 .. k |-> IF j = k THEN IF k = 1 THEN s[k] ELSE f[m] \o s[k]
                                    ELSE f[j]]
  <2>3. ASSUME NEW j \in 1 .. k
        PROVE  g[j] = IF j = 1 THEN s[j] ELSE g[j - 1] \o s[j]
    <3>1. CASE j = k /\ j = 1
      BY <3>1
    <3>2. CASE j = k /\ j # 1
      <4>1. j - 1 = m /\ m \in 1 .. k /\ m # k
        BY <2>1, <3>2
      <4>2. g[m] = f[m]
        BY <4>1
      <4>3. QED
        BY <3>2, <4>1, <4>2
    <3>3. CASE j # k /\ j # 1
      <4>1. j \in 1 .. m /\ j - 1 \in 1 .. k /\ j - 1 # k
        BY <2>1, <3>3
      <4>2. g[j] = f[j] /\ g[j - 1] = f[j - 1]
        BY <3>3, <4>1
      <4>3. f[j] = f[j - 1] \o s[j]
        BY <2>2, <3>3, <4>1 DEF Flattening
      <4>4. QED
        BY <3>3, <4>2, <4>3
    <3>4. CASE j # k /\ j = 1
      <4>1. g[j] = f[j] /\ j \in 1 .. m
        BY <2>1, <3>4
      <4>2. f[j] = s[j]
        BY <2>2, <3>4, <4>1 DEF Flattening
      <4>3. QED
        BY <3>4, <4>1, <4>2
    <3>5. QED
      BY <3>1, <3>2, <3>3, <3>4
  <2>4. g = [j \in 1 .. k |-> g[j]]
    OBVIOUS
  <2>5. Flattening(s, k, g)
    <3> HIDE DEF g
    <3>1. QED
      BY <2>3, <2>4 DEF Flattening
  <2>6. QED
    BY <1>2, <2>5
<1>3. Bad = {}
  <2>1. Bad \in SUBSET Nat
    OBVIOUS
  <2>2. \A k \in Bad : k # 0 => k - 1 \in Bad
    BY <1>2
  <2> HIDE DEF Bad
  <2>3. QED
    BY <1>1, <2>1, <2>2, Descent
<1>4. QED
  BY <1>3

\* Two of them agree on what their sequences have in common.
LEMMA FlatteningSame ==
    ASSUME NEW s, NEW t, NEW n \in Nat \ {0}, NEW m \in Nat, n <= m, NEW f, NEW g,
           Flattening(s, n, f), Flattening(t, m, g), \A k \in 1 .. n : s[k] = t[k]
    PROVE  f[n] = g[n]
<1> DEFINE Bad == {k \in Nat : k < n /\ f[k + 1] # g[k + 1]}
<1>1. ASSUME NEW k \in 1 .. n
      PROVE  /\ f[k] = IF k = 1 THEN s[k] ELSE f[k - 1] \o s[k]
             /\ g[k] = IF k = 1 THEN s[k] ELSE g[k - 1] \o s[k]
  <2>1. k \in 1 .. m /\ s[k] = t[k]
    OBVIOUS
  <2>2. g[k] = IF k = 1 THEN t[k] ELSE g[k - 1] \o t[k]
    BY <2>1 DEF Flattening
  <2>3. f[k] = IF k = 1 THEN s[k] ELSE f[k - 1] \o s[k]
    BY DEF Flattening
  <2>4. QED
    BY <2>1, <2>2, <2>3
<1>2. 0 \notin Bad
  <2>1. 1 \in 1 .. n /\ 0 + 1 = 1
    OBVIOUS
  <2>2. QED
    BY <1>1, <2>1
<1>3. ASSUME NEW k \in Bad, k # 0, k - 1 \notin Bad
      PROVE  FALSE
  <2>1. /\ k + 1 \in 1 .. n /\ k + 1 # 1 /\ (k + 1) - 1 = k
        /\ k - 1 \in Nat /\ k - 1 < n /\ (k - 1) + 1 = k
    BY <1>3
  <2>2. f[k] = g[k]
    BY <1>3, <2>1
  <2>3. f[k + 1] = f[k] \o s[k + 1] /\ g[k + 1] = g[k] \o s[k + 1]
    BY <1>1, <2>1
  <2>4. QED
    BY <1>3, <2>2, <2>3
<1>4. Bad = {}
  <2>1. Bad \in SUBSET Nat
    OBVIOUS
  <2>2. \A k \in Bad : k # 0 => k - 1 \in Bad
    BY <1>3
  <2> HIDE DEF Bad
  <2>3. QED
    BY <1>2, <2>1, <2>2, Descent
<1>5. n - 1 \in Nat /\ n - 1 < n /\ (n - 1) + 1 = n
  OBVIOUS
<1>6. n - 1 \notin Bad
  BY <1>4
<1>7. QED
  BY <1>5, <1>6

\* What FlattenSeq returns, by that function.
LEMMA FlattenIs ==
    ASSUME NEW s, Len(s) \in Nat \ {0}
    PROVE  \E g : Flattening(s, Len(s), g) /\ FlattenSeq(s) = g[Len(s)]
<1> DEFINE g == CHOOSE g : Flattening(s, Len(s), g)
<1>1. Flattening(s, Len(s), g)
  BY FlatteningExists
<1>2. FlattenSeq(s) = g[Len(s)]
  BY DEF FlattenSeq, Flattening
<1>3. QED
  BY <1>1, <1>2

\* The first r pieces of a format, as they are meant.
Pieces(f, r) == [i \in 1 .. r |-> Meant(f, i)]
Upto(f, r) == FlattenSeq(Pieces(f, r))

\* The pieces of Upto.
LEMMA PiecesLength == \A f : \A r \in Nat : Len(Pieces(f, r)) = r
BY DEF Pieces

\* Nothing is meant by no piece.
LEMMA UptoNone == \A f : Upto(f, 0) = << >>
<1> SUFFICES ASSUME NEW f
             PROVE  Upto(f, 0) = << >>
  OBVIOUS
<1>1. Len(Pieces(f, 0)) = 0
  BY PiecesLength
<1>2. Pieces(f, 0) = << >>
  BY DEF Pieces
<1>3. QED
  BY <1>1, <1>2 DEF Upto, FlattenSeq

\* What is meant by the first.
LEMMA UptoFirst ==
    ASSUME NEW f
    PROVE  Upto(f, 1) = Meant(f, 1)
<1> DEFINE s == Pieces(f, 1)
<1>1. Len(s) = 1 /\ s[1] = Meant(f, 1)
  <2>1. 1 \in 1 .. 1 /\ 1 \in Nat
    OBVIOUS
  <2>2. QED
    BY <2>1, PiecesLength DEF Pieces
<1> HIDE DEF s
<1>2. PICK g : Flattening(s, Len(s), g) /\ FlattenSeq(s) = g[Len(s)]
  <2>1. Len(s) \in Nat \ {0}
    BY <1>1
  <2>2. QED
    BY <2>1, FlattenIs
<1>3. g[1] = s[1]
  BY <1>1, <1>2 DEF Flattening
<1>4. QED
  BY <1>1, <1>2, <1>3 DEF Upto, s

\* What is meant by one more.
LEMMA UptoMore ==
    ASSUME NEW f, NEW r \in Nat \ {0}
    PROVE  Upto(f, r + 1) = Upto(f, r) \o Meant(f, r + 1)
<1> DEFINE s == Pieces(f, r)
           t == Pieces(f, r + 1)
<1>1. /\ r + 1 \in Nat \ {0} /\ r <= r + 1 /\ Len(s) = r /\ Len(t) = r + 1
      /\ r + 1 \in 1 .. r + 1 /\ r + 1 # 1 /\ (r + 1) - 1 = r
  BY PiecesLength
<1>2. t[r + 1] = Meant(f, r + 1) /\ \A k \in 1 .. r : s[k] = t[k]
  BY DEF Pieces
<1> HIDE DEF s, t
<1>3. PICK g : Flattening(s, r, g) /\ FlattenSeq(s) = g[r]
  BY <1>1, FlattenIs
<1>4. PICK h : Flattening(t, r + 1, h) /\ FlattenSeq(t) = h[r + 1]
  BY <1>1, FlattenIs
<1>5. g[r] = h[r]
  BY <1>1, <1>2, <1>3, <1>4, FlatteningSame
<1>6. h[r + 1] = h[r] \o t[r + 1]
  BY <1>1, <1>4 DEF Flattening
<1>7. QED
  BY <1>2, <1>3, <1>4, <1>5, <1>6 DEF Upto, s, t
-----------------------------------------------------------------------------
(* What a number means. *)

\* What can be read in a text.
Ink == Character \ {NUL, Stale}

\* The digits of a word and the marks behind them fit numbers.
NumbersFit == WORD <= Power(8)[NUMBERS_LEN - 2]

\* The numbers of Base.
LEMMA Bases ==
    /\ DOMAIN Base = {"d", "u", "x", "o"}
    /\ Base["d"] = 10 /\ Base["u"] = 10 /\ Base["x"] = 16 /\ Base["o"] = 8
BY DEF Base

\* All of them lie between 8 and 16.
LEMMA BaseIn == \A c \in DOMAIN Base : Base[c] \in 8 .. 16
BY Bases

\* The argument of a piece is a word or text, as its conversion asks; only %l
\* sets the flag.
LEMMA PieceKinds ==
    ASSUME NEW p \in Piece
    PROVE  /\ IsNumber(p) => p.conv \in {"d", "u", "x", "o"} /\ p.arg \in 0 .. WORD - 1
           /\ ~ IsNumber(p) => p.conv \in {"text", "s", "c", "l"} /\ p.arg \in Seq(Ink)
           /\ p.conv = "l" <=> p = Wide
<1>1. CASE p \in [conv : {"text", "s", "c"}, arg : Seq(Character \ {NUL, Stale})]
  BY <1>1, Bases DEF IsNumber, Ink, Wide
<1>2. CASE p \in [conv : DOMAIN Base, arg : 0 .. WORD - 1]
  BY <1>2, Bases DEF IsNumber, Wide
<1>3. CASE p = Wide
  <2>1. Percent \in Ink /\ Letter \in Ink
    BY DEF Percent, Letter, Ink, Character, NUL, Stale
  <2>2. <<Percent, Letter>> \in Seq(Ink)
    BY <2>1
  <2>3. QED
    BY <1>3, <2>2, Bases DEF IsNumber, Wide
<1>4. QED
  BY <1>1, <1>2, <1>3 DEF Piece

\* The lengths of numerals.
HasLength(n, b, k) == Power(b)[k] > n /\ (k = 1 \/ Power(b)[k - 1] <= n)

\* A word is smaller than the powers at the end of numbers.
LEMMA PlacesEnough ==
    ASSUME NumbersFit, NEW n \in 0 .. WORD - 1, NEW b \in 8 .. 16,
           NEW k \in 0 .. NUMBERS_LEN, Power(b)[k] <= n
    PROVE  k < NUMBERS_LEN - 2
<1>1. SUFFICES ASSUME k >= NUMBERS_LEN - 2
               PROVE  FALSE
  BY DEF NUMBERS_LEN
<1> DEFINE m == NUMBERS_LEN - 2
<1>2. m \in 0 .. NUMBERS_LEN /\ k \in m .. NUMBERS_LEN
  BY <1>1 DEF NUMBERS_LEN
<1>3. WORD <= Power(8)[m]
  BY DEF NumbersFit
<1> HIDE DEF m
<1>4. Power(8)[m] <= Power(b)[m]
  BY <1>2, LargerBase
<1>5. Power(b)[m] <= Power(b)[k]
  BY <1>2, PowersGrow
<1>6. Power(8)[m] \in Nat /\ Power(b)[m] \in Nat /\ Power(b)[k] \in Nat
  BY <1>2, PowerPositive
<1>7. WORD \in Nat
  BY FormatAssumption
<1>8. QED
  BY <1>3, <1>4, <1>5, <1>6, <1>7

\* A word has a numeral, which leaves room for two marks in numbers.
LEMMA NumeralLength ==
    ASSUME NumbersFit, NEW n \in 0 .. WORD - 1, NEW b \in 8 .. 16
    PROVE  \E k \in 1 .. NUMBERS_LEN - 2 : HasLength(n, b, k)
<1> DEFINE T == {k \in 1 .. NUMBERS_LEN : Power(b)[k] > n}
<1>1. NUMBERS_LEN - 2 \in T
  <2>1. NUMBERS_LEN - 2 \in 1 .. NUMBERS_LEN /\ NUMBERS_LEN - 2 \in 0 .. NUMBERS_LEN
        /\ ~ (NUMBERS_LEN - 2 < NUMBERS_LEN - 2)
    BY DEF NUMBERS_LEN
  <2>2. ~ (Power(b)[NUMBERS_LEN - 2] <= n)
    BY <2>1, PlacesEnough
  <2>3. Power(b)[NUMBERS_LEN - 2] \in Nat
    BY <2>1, PowerPositive
  <2>4. QED
    BY <2>1, <2>2, <2>3
<1>2. PICK k \in T : \A j \in T : k <= j
  <2>1. T \in SUBSET Nat
    OBVIOUS
  <2> HIDE DEF T
  <2>2. QED
    BY <1>1, <2>1, LeastNumber
<1>3. k \in 1 .. NUMBERS_LEN - 2 /\ Power(b)[k] > n
  <2>1. k <= NUMBERS_LEN - 2
    <3> HIDE DEF T
    <3>1. QED
      BY <1>1, <1>2
  <2>2. QED
    BY <1>2, <2>1 DEF NUMBERS_LEN
<1>4. k = 1 \/ Power(b)[k - 1] <= n
  <2>1. SUFFICES ASSUME k # 1
                 PROVE  Power(b)[k - 1] <= n
    OBVIOUS
  <2>2. k - 1 \in 1 .. NUMBERS_LEN /\ k - 1 \in 0 .. NUMBERS_LEN /\ ~ (k <= k - 1)
    BY <1>3, <2>1 DEF NUMBERS_LEN
  <2>3. k - 1 \notin T
    <3> HIDE DEF T
    <3>1. QED
      BY <1>2, <2>2
  <2>4. Power(b)[k - 1] \in Nat
    BY <2>2, PowerPositive
  <2>5. QED
    BY <2>2, <2>3, <2>4
<1>5. QED
  BY <1>3, <1>4 DEF HasLength

\* The absolute value of a word is a word, the smallest number's included:
\* that is WORD / 2, which its sign bit stands for.
LEMMA AbsoluteIn ==
    ASSUME NEW p \in Piece, IsNumber(p)
    PROVE  Absolute(p) \in 0 .. WORD - 1
<1>1. p.arg \in 0 .. WORD - 1
  BY PieceKinds
<1>2. WORD \in Nat \ {0} /\ WORD % 2 = 0
  BY FormatAssumption
<1>3. CASE Negative(p)
  <2>1. 2 * p.arg >= WORD
    BY <1>3 DEF Negative
  <2>2. WORD - p.arg \in 0 .. WORD - 1
    BY <1>1, <1>2, <2>1
  <2>3. QED
    BY <1>3, <2>2 DEF Absolute
<1>4. CASE ~ Negative(p)
  BY <1>1, <1>4 DEF Absolute
<1>5. QED
  BY <1>3, <1>4

\* The same sequence, in the order in which number writes it.
Behind(m, k, n, b, marks) ==
    /\ m \in Seq(Ink)
    /\ Len(m) = k + Len(marks)
    /\ \A j \in 0 .. k - 1 : m[Len(m) - j] = (n \div Power(b)[j]) % b
    /\ \A j \in k .. Len(m) - 1 : m[Len(m) - j] = marks[j - k + 1]

\* Characters of a concatenation, counted from its end.
LEMMA FromBehind ==
    ASSUME NEW S, NEW s \in Seq(S), NEW t \in Seq(S)
    PROVE  LET k == Len(t)
               l == Len(s) + k
           IN  /\ s \o t \in Seq(S)
               /\ Len(s \o t) = l
               /\ \A j \in 0 .. k - 1 : (s \o t)[l - j] = t[k - j]
               /\ \A j \in k .. l - 1 : (s \o t)[l - j] = s[Len(s) - (j - k)]
<1>1. Len(s) \in Nat /\ Len(t) \in Nat
  BY LenProperties
<1>2. s \o t \in Seq(S) /\ Len(s \o t) = Len(s) + Len(t)
  BY ConcatProperties
<1> DEFINE k == Len(t)
           l == Len(s) + k
<1>3. ASSUME NEW j \in 0 .. k - 1
      PROVE  (s \o t)[l - j] = t[k - j]
  <2>1. l - j \in 1 .. l /\ ~ (l - j <= Len(s)) /\ (l - j) - Len(s) = k - j
    BY <1>1
  <2>2. QED
    BY <1>1, <1>2, <2>1, ConcatProperties
<1>4. ASSUME NEW j \in k .. l - 1
      PROVE  (s \o t)[l - j] = s[Len(s) - (j - k)]
  <2>1. l - j \in 1 .. l /\ l - j <= Len(s) /\ l - j = Len(s) - (j - k)
    BY <1>1
  <2>2. QED
    BY <1>1, <1>2, <2>1, ConcatProperties
<1>5. QED
  BY <1>2, <1>3, <1>4

\* A numeral behind the marks is, read from its end, the digits and then the
\* marks in reverse.
LEMMA MarksBehind ==
    ASSUME NEW pre \in Seq(Ink), NEW N \in Seq(Ink), NEW marks, NEW n, NEW b,
           Len(marks) = Len(pre),
           \A j \in 0 .. Len(pre) - 1 : pre[Len(pre) - j] = marks[j + 1],
           \A j \in 0 .. Len(N) - 1 : N[Len(N) - j] = (n \div Power(b)[j]) % b
    PROVE  Behind(pre \o N, Len(N), n, b, marks)
<1> DEFINE k == Len(N)
           h == Len(pre)
           m == pre \o N
<1>1. k \in Nat /\ h \in Nat
  BY LenProperties
<1>2. /\ m \in Seq(Ink)
      /\ Len(m) = h + k
      /\ \A j \in 0 .. k - 1 : m[h + k - j] = N[k - j]
      /\ \A j \in k .. h + k - 1 : m[h + k - j] = pre[h - (j - k)]
  BY FromBehind
<1>3. \A j \in k .. h + k - 1 : j - k \in 0 .. h - 1
  BY <1>1
<1>4. Len(m) = k + Len(marks) /\ h + k = k + h
  BY <1>1, <1>2
<1> HIDE DEF k, h, m
<1>5. \A j \in 0 .. h - 1 : pre[h - j] = marks[j + 1]
  BY DEF h
<1>6. \A j \in 0 .. k - 1 : N[k - j] = (n \div Power(b)[j]) % b
  BY DEF k
<1>7. \A j \in k .. h + k - 1 : pre[h - (j - k)] = marks[j - k + 1]
  <2>1. SUFFICES ASSUME NEW j \in k .. h + k - 1
                 PROVE  pre[h - (j - k)] = marks[j - k + 1]
    OBVIOUS
  <2>2. PICK i \in 0 .. h - 1 : i = j - k
    BY <1>3
  <2>3. h - i = h - (j - k) /\ i + 1 = j - k + 1
    BY <1>1, <2>2
  <2>4. QED
    BY <1>5, <2>2, <2>3
<1>8. Behind(m, k, n, b, marks)
  <2>1. \A j \in k .. Len(m) - 1 : m[Len(m) - j] = marks[j - k + 1]
    BY <1>1, <1>2, <1>7
  <2>2. \A j \in 0 .. k - 1 : m[Len(m) - j] = (n \div Power(b)[j]) % b
    BY <1>1, <1>2, <1>6
  <2>3. QED
    BY <1>2, <1>4, <2>1, <2>2 DEF Behind
<1>9. QED
  BY <1>8 DEF m, k

\* So is what a number means: number writes its meaning backwards.
LEMMA NumberMeans ==
    ASSUME NumbersFit, NEW f, NEW i, f[i] \in Piece, IsNumber(f[i]),
           NEW k \in 1 .. NUMBERS_LEN - 2, HasLength(Absolute(f[i]), Base[f[i].conv], k)
    PROVE  Behind(Meaning(f, i), k, Absolute(f[i]), Base[f[i].conv], Marks(f[i]))
<1> DEFINE p == f[i]
           n == Absolute(p)
           b == Base[p.conv]
           N == Numeral(n, b)
           m == Meaning(f, i)
<1>1. /\ p.conv \in {"d", "u", "x", "o"} /\ p.arg \in 0 .. WORD - 1
      /\ n \in Nat /\ b \in 8 .. 16 /\ WORD \in Nat
      /\ k \in Nat \ {0} /\ k \in 1 .. NUMBERS_LEN
  <2> HIDE DEF p
  <2>1. p \in Piece /\ IsNumber(p)
    BY DEF p
  <2>2. p.conv \in {"d", "u", "x", "o"} /\ p.arg \in 0 .. WORD - 1
    BY <2>1, PieceKinds
  <2>3. WORD \in Nat /\ n \in 0 .. WORD - 1
    BY <2>1, AbsoluteIn, FormatAssumption
  <2>4. b \in 8 .. 16
    BY <2>2, Bases
  <2>5. QED
    BY <2>2, <2>3, <2>4 DEF NUMBERS_LEN
<1>2. N = [j \in 1 .. k |-> (n \div Power(b)[k - j]) % b]
  <2>1. HasLength(n, b, k) /\ b \in Nat \ {0}
    BY <1>1
  <2> HIDE DEF n, b
  <2>2. QED
    BY <1>1, <2>1, NumeralIs DEF HasLength
<1>3. /\ Len(N) = k
      /\ N \in Seq(Ink)
      /\ \A j \in 0 .. k - 1 : N[k - j] = (n \div Power(b)[j]) % b
  <2>1. \A j \in 1 .. k : (n \div Power(b)[k - j]) % b \in Ink
    <3>1. SUFFICES ASSUME NEW j \in 1 .. k
                   PROVE  (n \div Power(b)[k - j]) % b \in Ink
      OBVIOUS
    <3>2. Power(b)[k - j] \in Nat \ {0}
      <4>1. k - j \in 0 .. NUMBERS_LEN
        BY DEF NUMBERS_LEN
      <4>2. QED
        BY <1>1, <4>1, PowerPositive
    <3>3. n \div Power(b)[k - j] \in Nat
      <4>1. \A x \in Nat, q \in Nat \ {0} : x \div q \in Nat
        OBVIOUS
      <4> HIDE DEF n, b
      <4>2. QED
        BY <1>1, <3>2, <4>1
    <3>4. \A x \in Nat, c \in 8 .. 16 : x % c \in 0 .. 15
      OBVIOUS
    <3>5. (n \div Power(b)[k - j]) % b \in 0 .. 15
      <4> HIDE DEF n, b
      <4>1. QED
        BY <1>1, <3>3, <3>4
    <3>6. QED
      BY <3>5 DEF Ink, Character, NUL, Stale
  <2>2. \A j \in 0 .. k - 1 : k - j \in 1 .. k /\ k - (k - j) = j
    BY DEF NUMBERS_LEN
  <2>3. Len(N) = k /\ N \in Seq(Ink)
    <3> HIDE DEF n, b, N
    <3>1. QED
      BY <1>2, <2>1
  <2>4. QED
    <3> HIDE DEF n, b, N
    <3>1. QED
      BY <1>2, <2>2, <2>3
<1>4. \A j \in 0 .. Len(N) - 1 : N[Len(N) - j] = (n \div Power(b)[j]) % b
  <2> HIDE DEF n, b, N
  <2>1. QED
    BY <1>3
<1>5. {0, X, Minus} \subseteq Ink
  BY DEF Ink, Character, NUL, Stale, X, Minus
<1>6. ASSUME p.conv = "x"
      PROVE  Behind(m, k, n, b, Marks(p))
  <2>1. Marks(p) = <<X, 0>> /\ m = <<0, X>> \o N
    BY <1>6, Bases DEF Marks, Meaning, Absolute, Negative, IsNumber
  <2> HIDE DEF n, b, N, m, p
  <2> DEFINE pre == <<0, X>>
             marks == <<X, 0>>
  <2>2. pre \in Seq(Ink) /\ Len(pre) = 2 /\ Len(marks) = 2
    BY <1>5
  <2>3. \A j \in 0 .. 1 : pre[2 - j] = marks[j + 1]
    <3>1. pre[2] = marks[1] /\ pre[1] = marks[2]
      OBVIOUS
    <3>2. \A j \in 0 .. 1 : (2 - j = 2 /\ j + 1 = 1) \/ (2 - j = 1 /\ j + 1 = 2)
      OBVIOUS
    <3> HIDE DEF pre, marks
    <3>3. QED
      BY <3>1, <3>2
  <2> HIDE DEF pre, marks
  <2>4. \A j \in 0 .. Len(pre) - 1 : pre[Len(pre) - j] = marks[j + 1]
    BY <2>2, <2>3
  <2>5. Len(marks) = Len(pre) /\ N \in Seq(Ink)
    BY <1>3, <2>2
  <2>6. Behind(pre \o N, Len(N), n, b, marks)
    BY <1>4, <2>2, <2>4, <2>5, MarksBehind
  <2>7. QED
    BY <1>3, <2>1, <2>6 DEF pre, marks
<1>7. ASSUME p.conv = "o"
      PROVE  Behind(m, k, n, b, Marks(p))
  <2>1. Marks(p) = <<0>> /\ m = <<0>> \o N
    BY <1>7, Bases DEF Marks, Meaning, Absolute, Negative, IsNumber
  <2> HIDE DEF n, b, N, m, p
  <2> DEFINE pre == <<0>>
             marks == <<0>>
  <2>2. pre \in Seq(Ink) /\ Len(pre) = 1 /\ Len(marks) = 1
    BY <1>5
  <2>3. \A j \in 0 .. 0 : pre[1 - j] = marks[j + 1]
    OBVIOUS
  <2> HIDE DEF pre, marks
  <2>4. \A j \in 0 .. Len(pre) - 1 : pre[Len(pre) - j] = marks[j + 1]
    BY <2>2, <2>3
  <2>5. Len(marks) = Len(pre) /\ N \in Seq(Ink)
    BY <1>3, <2>2
  <2>6. Behind(pre \o N, Len(N), n, b, marks)
    BY <1>4, <2>2, <2>4, <2>5, MarksBehind
  <2>7. QED
    BY <1>3, <2>1, <2>6 DEF pre, marks
<1>8. ASSUME p.conv = "d" /\ 2 * p.arg >= WORD
      PROVE  Behind(m, k, n, b, Marks(p))
  <2>1. Marks(p) = <<Minus>> /\ m = <<Minus>> \o N
    <3>1. Negative(p) /\ IsNumber(p) /\ b = 10 /\ n = WORD - p.arg
      BY <1>8, Bases DEF Negative, Absolute
    <3>2. Marks(p) = <<Minus>>
      BY <1>8, <3>1 DEF Marks
    <3>3. N = Numeral(WORD - p.arg, 10)
      BY <3>1
    <3>4. ~ (2 * p.arg < WORD)
      BY <1>1, <1>8
    <3>5. m = <<Minus>> \o Numeral(WORD - p.arg, 10)
      BY <1>8, <3>1, <3>4 DEF Meaning
    <3>6. QED
      BY <3>2, <3>3, <3>5
  <2> HIDE DEF n, b, N, m, p
  <2> DEFINE pre == <<Minus>>
             marks == <<Minus>>
  <2>2. pre \in Seq(Ink) /\ Len(pre) = 1 /\ Len(marks) = 1
    BY <1>5
  <2>3. \A j \in 0 .. 0 : pre[1 - j] = marks[j + 1]
    OBVIOUS
  <2> HIDE DEF pre, marks
  <2>4. \A j \in 0 .. Len(pre) - 1 : pre[Len(pre) - j] = marks[j + 1]
    BY <2>2, <2>3
  <2>5. Len(marks) = Len(pre) /\ N \in Seq(Ink)
    BY <1>3, <2>2
  <2>6. Behind(pre \o N, Len(N), n, b, marks)
    BY <1>4, <2>2, <2>4, <2>5, MarksBehind
  <2>7. QED
    BY <1>3, <2>1, <2>6 DEF pre, marks
<1>9. ASSUME p.conv = "u" \/ (p.conv = "d" /\ ~ (2 * p.arg >= WORD))
      PROVE  Behind(m, k, n, b, Marks(p))
  <2>1. Marks(p) = << >> /\ m = N
    <3>1. ~ Negative(p) /\ IsNumber(p) /\ b = 10 /\ n = p.arg
      BY <1>9, Bases DEF Negative, Absolute
    <3>2. Marks(p) = << >>
      BY <1>9, <3>1 DEF Marks
    <3>3. N = Numeral(p.arg, 10)
      BY <3>1
    <3>4. p.conv = "d" => 2 * p.arg < WORD
      BY <1>1, <1>9
    <3>5. m = Numeral(p.arg, 10)
      BY <1>9, <3>1, <3>4 DEF Meaning
    <3>6. QED
      BY <3>2, <3>3, <3>5
  <2> HIDE DEF n, b, N, m, p
  <2>2. QED
    BY <1>1, <1>3, <2>1 DEF Behind
<1>10. QED
  BY <1>1, <1>6, <1>7, <1>8, <1>9

\* What is meant can be read: there is no NUL in it.
LEMMA MeantType ==
    ASSUME NumbersFit, NEW f \in Seq(Piece), NEW i \in 1 .. Len(f)
    PROVE  Meant(f, i) \in Seq(Ink)
<1>1. f[i] \in Piece
  BY ElementOfSeq
<1>2. Meaning(f, i) \in Seq(Ink)
  <2>1. CASE ~ IsNumber(f[i])
    BY <1>1, <2>1, PieceKinds DEF Meaning
  <2>2. CASE IsNumber(f[i])
    <3>1. Absolute(f[i]) \in 0 .. WORD - 1 /\ Base[f[i].conv] \in 8 .. 16
      <4>1. f[i].conv \in DOMAIN Base
        BY <2>2 DEF IsNumber
      <4>2. QED
        BY <1>1, <2>2, <4>1, AbsoluteIn, BaseIn
    <3>2. PICK k \in 1 .. NUMBERS_LEN - 2 : HasLength(Absolute(f[i]), Base[f[i].conv], k)
      BY <3>1, NumeralLength
    <3>3. QED
      BY <1>1, <2>2, <3>2, NumberMeans DEF Behind
  <2>3. QED
    BY <2>1, <2>2
<1>3. << >> \in Seq(Ink)
  OBVIOUS
<1>4. QED
  BY <1>2, <1>3 DEF Meant

\* The same of all that is meant up to a piece.
LEMMA UptoType ==
    ASSUME NumbersFit, NEW f \in Seq(Piece), NEW r \in 0 .. Len(f)
    PROVE  Upto(f, r) \in Seq(Ink)
<1> DEFINE Bad == {k \in 0 .. Len(f) : Upto(f, k) \notin Seq(Ink)}
<1>1. Len(f) \in Nat
  BY LenProperties
<1>2. 0 \notin Bad
  <2>1. Upto(f, 0) = << >> /\ << >> \in Seq(Ink)
    BY UptoNone
  <2>2. QED
    BY <2>1
<1>3. ASSUME NEW k \in Bad, k # 0, k - 1 \notin Bad
      PROVE  FALSE
  <2>1. k \in 1 .. Len(f) /\ Meant(f, k) \in Seq(Ink)
    BY <1>1, <1>3, MeantType
  <2>2. CASE k = 1
    BY <1>3, <2>1, <2>2, UptoFirst
  <2>3. CASE k # 1
    <3>1. PICK j \in Nat \ {0} : j = k - 1
      BY <1>1, <2>1, <2>3
    <3>2. j + 1 = k /\ j \in 0 .. Len(f)
      BY <1>1, <2>1, <3>1
    <3>3. Upto(f, j) \in Seq(Ink)
      BY <1>3, <3>1, <3>2
    <3>4. Upto(f, k) = Upto(f, j) \o Meant(f, k)
      BY <3>2, UptoMore
    <3>5. Upto(f, j) \o Meant(f, k) \in Seq(Ink)
      BY <2>1, <3>3, ConcatProperties
    <3>6. Upto(f, k) \in Seq(Ink)
      BY <3>4, <3>5
    <3>7. QED
      BY <3>6
  <2>4. QED
    BY <2>2, <2>3
<1>4. Bad = {}
  <2>1. Bad \in SUBSET Nat
    BY <1>1
  <2>2. \A k \in Bad : k # 0 => k - 1 \in Bad
    BY <1>3
  <2> HIDE DEF Bad
  <2>3. QED
    BY <1>2, <2>1, <2>2, Descent
<1>5. QED
  BY <1>4

\* One piece more, the first one included.
LEMMA UptoNext ==
    ASSUME NumbersFit, NEW f \in Seq(Piece), NEW r \in 0 .. Len(f) - 1
    PROVE  Upto(f, r + 1) = Upto(f, r) \o Meant(f, r + 1)
<1>1. Len(f) \in Nat /\ r \in Nat /\ r + 1 \in 1 .. Len(f)
  BY LenProperties
<1>2. CASE r = 0
  <2>1. Meant(f, 1) \in Seq(Ink)
    BY <1>1, <1>2, MeantType
  <2>2. << >> \o Meant(f, 1) = Meant(f, 1)
    BY <2>1, ConcatEmptySeq
  <2>3. Upto(f, 1) = Upto(f, 0) \o Meant(f, 1)
    BY <2>2, UptoNone, UptoFirst
  <2> DEFINE n == r + 1
  <2>4. n = 1
    BY <1>2
  <2> HIDE DEF n
  <2>5. Upto(f, n) = Upto(f, r) \o Meant(f, n)
    BY <1>2, <2>3, <2>4
  <2>6. QED
    BY <2>5 DEF n
<1>3. CASE r # 0
  BY <1>1, <1>3, UptoMore
<1>4. QED
  BY <1>2, <1>3

-----------------------------------------------------------------------------
(* Texts in an array. *)

Array == [0 .. SIZE + BEHIND - 1 -> Character]

\* Array b holds a text as far as it has room, and pos is behind it; when no
\* other call has disturbed this one, character by character.
Holds(b, pos, alone, text) ==
    /\ pos = Len(text) \/ (pos >= SIZE /\ Len(text) >= SIZE)
    /\ \A k \in 1 .. Len(text) :
          k <= SIZE => /\ b[k - 1] # NUL
                       /\ alone => b[k - 1] = text[k]

\* More text is put into an array: what fits, and the rest is counted or, of a
\* string, is not.
LEMMA HoldsMore ==
    ASSUME NEW b \in Array, NEW pos \in Nat, NEW alone \in BOOLEAN,
           NEW text \in Seq(Ink), NEW s \in Seq(Ink), Holds(b, pos, alone, text),
           NEW r \in Nat, r = IF pos < SIZE THEN SIZE - pos ELSE 0,
           NEW w, w = SubSeq(s, 1, IF Len(s) <= r THEN Len(s) ELSE r)
    PROVE  /\ Written(b, pos, w) \in Array
           /\ Holds(Written(b, pos, w), pos + Len(s), alone, text \o s)
           /\ Holds(Written(b, pos, w), pos + Len(w), alone, text \o s)
<1> DEFINE n == IF Len(s) <= r THEN Len(s) ELSE r
           d == Written(b, pos, w)
           all == text \o s
<1>1. SIZE \in Nat /\ BEHIND \in Nat /\ Len(text) \in Nat /\ Len(s) \in Nat /\ n \in Nat /\ n <= Len(s)
  BY FormatAssumption, LenProperties
<1>2. Len(w) = n /\ w \in Seq(Ink) /\ \A j \in 1 .. n : w[j] = s[j]
  <2> HIDE DEF n
  <2>1. w = SubSeq(s, 1, n)
    BY DEF n
  <2>2. \A j \in 1 .. n : 1 + j - 1 = j
    BY <1>1
  <2>3. w \in Seq(Ink) /\ Len(w) = n /\ \A j \in 1 .. n : w[j] = s[1 + j - 1]
    BY <1>1, <2>1
  <2>4. QED
    BY <2>2, <2>3
<1>3. /\ Len(all) = Len(text) + Len(s)
      /\ \A k \in 1 .. Len(text) : all[k] = text[k]
      /\ \A k \in 1 .. Len(s) : all[Len(text) + k] = s[k]
  BY <1>1, ConcatProperties
<1>4. d = [x \in 0 .. SIZE + BEHIND - 1 |->
              IF x \in pos .. pos + n - 1 THEN w[x - pos + 1] ELSE b[x]]
  BY <1>2 DEF Written, Array
<1>5. d \in Array
  <2> HIDE DEF n, d
  <2>1. ASSUME NEW x \in pos .. pos + n - 1
        PROVE  w[x - pos + 1] \in Character
    <3>1. x - pos + 1 \in 1 .. n
      BY <1>1
    <3>2. QED
      BY <1>2, <3>1 DEF Ink
  <2>2. QED
    BY <1>4, <2>1 DEF Array
<1>6. ASSUME NEW k \in 1 .. Len(all), k <= SIZE
      PROVE  d[k - 1] # NUL /\ (alone => d[k - 1] = all[k])
  <2>1. k - 1 \in 0 .. SIZE + BEHIND - 1
    BY <1>1, <1>3, <1>6
  <2>2. CASE k <= Len(text)
    <3>1. k - 1 \notin pos .. pos + n - 1
      BY <1>1, <1>6, <2>2 DEF Holds
    <3>2. d[k - 1] = b[k - 1]
      <4> HIDE DEF n, d
      <4>1. QED
        BY <1>4, <2>1, <3>1
    <3>3. k \in 1 .. Len(text)
      BY <1>1, <1>3, <2>2
    <3>4. QED
      <4> HIDE DEF d, all
      <4>1. QED
        BY <1>3, <1>6, <3>2, <3>3 DEF Holds
  <2>3. CASE k > Len(text)
    <3>1. pos = Len(text) /\ pos < SIZE
      BY <1>1, <1>3, <1>6, <2>3 DEF Holds
    <3>2. PICK j \in 1 .. Len(s) : k = pos + j
      <4>1. k - pos \in 1 .. Len(s) /\ k = pos + (k - pos)
        BY <1>1, <1>3, <2>3, <3>1
      <4>2. QED
        BY <4>1
    <3>3. j \in 1 .. n
      BY <1>1, <1>6, <3>1, <3>2
    <3>4. k - 1 \in pos .. pos + n - 1 /\ (k - 1) - pos + 1 = j
      BY <1>1, <3>2, <3>3
    <3>5. d[k - 1] = w[j]
      <4> HIDE DEF n, d
      <4>1. QED
        BY <1>4, <2>1, <3>4
    <3>6. w[j] = s[j] /\ s[j] \in Ink
      BY <1>2, <3>2, <3>3, ElementOfSeq
    <3>7. all[k] = s[j]
      <4> HIDE DEF all
      <4>1. QED
        BY <1>3, <3>1, <3>2
    <3>8. QED
      BY <3>5, <3>6, <3>7 DEF Ink
  <2>4. QED
    BY <1>1, <1>3, <2>2, <2>3
<1>7. pos = Len(text) \/ (pos >= SIZE /\ Len(text) >= SIZE)
  BY DEF Holds
<1> HIDE DEF d, all
<1>8. pos + Len(s) = Len(all) \/ (pos + Len(s) >= SIZE /\ Len(all) >= SIZE)
  <2>1. \A p, t, l, z \in Nat :
            p = t \/ (p >= z /\ t >= z) =>
            p + l = t + l \/ (p + l >= z /\ t + l >= z)
    OBVIOUS
  <2>2. Len(all) = Len(text) + Len(s)
    BY <1>3
  <2>3. QED
    BY <1>1, <1>7, <2>1, <2>2
<1>9. pos + n = Len(all) \/ (pos + n >= SIZE /\ Len(all) >= SIZE)
  <2>1. \A p, t, l, z, q \in Nat :
            /\ p = t \/ (p >= z /\ t >= z)
            /\ q = l \/ (p < z /\ q = z - p /\ l > q) \/ ~ (p < z)
            => p + q = t + l \/ (p + q >= z /\ t + l >= z)
    OBVIOUS
  <2>2. Len(all) = Len(text) + Len(s)
    BY <1>3
  <2>3. n = Len(s) \/ (pos < SIZE /\ n = SIZE - pos /\ Len(s) > n) \/ ~ (pos < SIZE)
    BY <1>1
  <2> HIDE DEF n
  <2>4. QED
    BY <1>1, <1>7, <2>1, <2>2, <2>3
<1>10. QED
  <2> HIDE DEF n
  <2>1. QED
    BY <1>2, <1>5, <1>6, <1>8, <1>9 DEF Holds, d, all

\* One character of a number, which is written in the array or behind it.
LEMMA HoldsOneMore ==
    ASSUME NEW b \in Array, NEW pos \in Nat, NEW alone \in BOOLEAN,
           NEW text \in Seq(Ink), NEW x \in Ink, Holds(b, pos, alone, text),
           NEW y, y # NUL, y \in Character, alone => y = x
    PROVE  /\ [b EXCEPT ![pos] = y] \in Array
           /\ Holds([b EXCEPT ![pos] = y], pos + 1, alone, Append(text, x))
<1> DEFINE d == [b EXCEPT ![pos] = y]
           all == Append(text, x)
<1>1. SIZE \in Nat /\ BEHIND \in Nat /\ Len(text) \in Nat
  BY FormatAssumption, LenProperties
<1>2. d \in Array /\ \A z \in 0 .. SIZE + BEHIND - 1 : d[z] = IF z = pos THEN y ELSE b[z]
  BY DEF Array
<1>3. /\ Len(all) = Len(text) + 1 /\ all[Len(text) + 1] = x
      /\ \A k \in 1 .. Len(text) : all[k] = text[k]
  BY AppendProperties
<1> HIDE DEF d, all
<1>4. ASSUME NEW k \in 1 .. Len(all), k <= SIZE
      PROVE  d[k - 1] # NUL /\ (alone => d[k - 1] = all[k])
  <2>1. k - 1 \in 0 .. SIZE + BEHIND - 1
    BY <1>1, <1>3, <1>4
  <2>2. CASE k <= Len(text)
    <3>1. k - 1 # pos /\ k \in 1 .. Len(text)
      BY <1>1, <1>3, <1>4, <2>2 DEF Holds
    <3>2. d[k - 1] = b[k - 1]
      BY <1>2, <2>1, <3>1
    <3>3. QED
      BY <1>3, <1>4, <3>1, <3>2 DEF Holds
  <2>3. CASE k > Len(text)
    <3>1. k = Len(text) + 1 /\ k - 1 = pos
      BY <1>1, <1>3, <1>4, <2>3 DEF Holds
    <3>2. d[k - 1] = y
      BY <1>2, <2>1, <3>1
    <3>3. QED
      BY <1>3, <3>1, <3>2
  <2>4. QED
    BY <1>1, <1>3, <2>2, <2>3
<1>5. pos + 1 = Len(all) \/ (pos + 1 >= SIZE /\ Len(all) >= SIZE)
  BY <1>1, <1>3 DEF Holds
<1>6. QED
  BY <1>2, <1>4, <1>5 DEF Holds, d, all
-----------------------------------------------------------------------------
(* The invariant. *)

Numbers == [0 .. NUMBERS_LEN - 1 -> (0 .. X) \cup {NUL}]

Active == [at : {"fmt", "digits", "marks", "copy", "done"},
           fmt : Seq(Piece), read : Nat, pos : Nat, wide : BOOLEAN,
           num : 0 .. WORD - 1, marks : Seq(0 .. X), i : 0 .. NUMBERS_LEN,
           alone : BOOLEAN]

\* The piece a call is at.
Current(c) == c.fmt[c.read + 1]
Amount(c) == Absolute(Current(c))
Radix(c) == Base[Current(c).conv]

\* What call c has written to its array b, in the order it is to be read.
Done(c) == Upto(c.fmt, c.read)
Copied(c) ==
    LET m == Meant(c.fmt, c.read + 1)
    IN  Done(c) \o SubSeq(m, 1, Len(m) - c.i)

InNumber(c) == c.read < Len(c.fmt) /\ IsNumber(Current(c)) /\ ~ c.wide

\* What is in the shared array below the i of call c.
DigitsIn(c, nums) ==
    \A j \in 0 .. c.i - 1 :
        /\ nums[j] # NUL
        /\ c.alone => nums[j] = (Amount(c) \div Power(Radix(c))[j]) % Radix(c)

AtDigits(c, b, nums) ==
    /\ InNumber(c)
    /\ Holds(b, c.pos, c.alone, Done(c))
    /\ DigitsIn(c, nums)
    /\ c.num = Amount(c) \div Power(Radix(c))[c.i]
    /\ c.i > 0 => c.num # 0
    /\ c.marks = Marks(Current(c))

AtMarks(c, b, nums) ==
    /\ InNumber(c)
    /\ Holds(b, c.pos, c.alone, Done(c))
    /\ DigitsIn(c, nums)
    /\ c.i \in 1 .. NUMBERS_LEN - 2
    /\ HasLength(Amount(c), Radix(c), c.i)
    /\ c.marks = Marks(Current(c))

AtCopy(c, b, nums) ==
    LET m == Meant(c.fmt, c.read + 1)
    IN  /\ InNumber(c)
        /\ c.i <= Len(m)
        /\ Holds(b, c.pos, c.alone, Copied(c))
        /\ \A j \in 0 .. c.i - 1 : /\ nums[j] # NUL
                                   /\ c.alone => nums[j] = m[Len(m) - j]

AtDone(c, b) ==
    /\ c.read = Len(c.fmt)
    /\ c.pos = Len(Done(c)) \/ (c.pos >= SIZE /\ Len(Done(c)) >= SIZE)
    /\ b[EndAt(c.pos)] = NUL
    /\ \A k \in 1 .. EndAt(c.pos) : /\ b[k - 1] # NUL
                                    /\ c.alone => b[k - 1] = Done(c)[k]

CallOK(c, b, nums) ==
    /\ c.read <= Len(c.fmt)
    /\ c.wide = (\E j \in 1 .. c.read : c.fmt[j] = Wide)
    /\ c.at = "fmt" => Holds(b, c.pos, c.alone, Done(c))
    /\ c.at = "digits" => AtDigits(c, b, nums)
    /\ c.at = "marks" => AtMarks(c, b, nums)
    /\ c.at = "copy" => AtCopy(c, b, nums)
    /\ c.at = "done" => AtDone(c, b)

FormatInv ==
    /\ numbers \in Numbers
    /\ buf \in [Printer -> Array]
    /\ call \in [Printer -> {Idle} \cup Active]
    /\ \A t \in Printer :
          call[t] # Idle => /\ call[t].fmt \in Formats[t]
                            /\ CallOK(call[t], buf[t], numbers)
    /\ \A t, u \in Printer :
          t # u /\ call[t] # Idle /\ call[u] # Idle => ~ call[t].alone
-----------------------------------------------------------------------------
(* The steps of one call, on its record c, its array and the shared one. *)

\* The piece a call is at is one.
LEMMA CurrentPiece ==
    ASSUME NEW c \in Active, c.read < Len(c.fmt)
    PROVE  /\ c.fmt \in Seq(Piece) /\ Len(c.fmt) \in Nat /\ c.read \in Nat
           /\ c.read \in 0 .. Len(c.fmt) - 1 /\ c.read \in 0 .. Len(c.fmt)
           /\ c.read + 1 \in 1 .. Len(c.fmt)
           /\ Current(c) \in Piece
<1>1. c.fmt \in Seq(Piece) /\ c.read \in Nat
  BY DEF Active
<1>2. Len(c.fmt) \in Nat
  BY <1>1, LenProperties
<1>3. c.read + 1 \in 1 .. Len(c.fmt) /\ c.read \in 0 .. Len(c.fmt) - 1 /\ c.read \in 0 .. Len(c.fmt)
  BY <1>1, <1>2
<1>4. Current(c) \in Piece
  BY <1>1, <1>3, ElementOfSeq DEF Current
<1>5. QED
  BY <1>1, <1>2, <1>3, <1>4

\* The flag, after one piece more.
LEMMA WideNext ==
    ASSUME NEW c \in Active, c.read < Len(c.fmt),
           c.wide = (\E j \in 1 .. c.read : c.fmt[j] = Wide)
    PROVE  (c.wide \/ Current(c).conv = "l")
               = (\E j \in 1 .. c.read + 1 : c.fmt[j] = Wide)
<1>1. c.read \in Nat /\ Current(c) \in Piece /\ c.wide \in BOOLEAN
  BY CurrentPiece DEF Active
<1>2. Current(c).conv = "l" <=> c.fmt[c.read + 1] = Wide
  BY <1>1, PieceKinds DEF Current
<1>3. \A j : j \in 1 .. c.read + 1 <=> j \in 1 .. c.read \/ j = c.read + 1
  BY <1>1
<1>4. (\E j \in 1 .. c.read + 1 : c.fmt[j] = Wide)
          <=> (\E j \in 1 .. c.read : c.fmt[j] = Wide) \/ c.fmt[c.read + 1] = Wide
  BY <1>3
<1>5. QED
  BY <1>1, <1>2, <1>4

\* What a piece means where it stands.
LEMMA CurrentMeans ==
    ASSUME NEW c \in Active, c.read < Len(c.fmt),
           c.wide = (\E j \in 1 .. c.read : c.fmt[j] = Wide)
    PROVE  /\ (IsNumber(Current(c)) => Skipped(c, Current(c))) =>
                  Meant(c.fmt, c.read + 1)
                      = IF Skipped(c, Current(c)) THEN << >> ELSE Current(c).arg
           /\ IsNumber(Current(c)) /\ ~ Skipped(c, Current(c)) =>
                  ~ c.wide /\ Meant(c.fmt, c.read + 1) = Meaning(c.fmt, c.read + 1)
           /\ ~ c.wide => Meant(c.fmt, c.read + 1) = Meaning(c.fmt, c.read + 1)
<1>1. c.read \in Nat /\ Current(c) \in Piece /\ c.wide \in BOOLEAN
  BY CurrentPiece DEF Active
<1>2. IsNumber(Current(c)) => Current(c).conv \notin {"text", "l"}
  BY <1>1, PieceKinds
<1>3. (c.read + 1) - 1 = c.read
  BY <1>1
<1>4. Meant(c.fmt, c.read + 1)
          = IF Skipped(c, Current(c)) THEN << >> ELSE Meaning(c.fmt, c.read + 1)
  <2>1. (\E j \in 1 .. (c.read + 1) - 1 : c.fmt[j] = Wide) <=> c.wide
    BY <1>1, <1>3
  <2>2. QED
    BY <2>1 DEF Meant, Skipped, Current
<1>5. ~ IsNumber(Current(c)) => Meaning(c.fmt, c.read + 1) = Current(c).arg
  BY DEF Meaning, Current
<1>6. QED
  BY <1>2, <1>4, <1>5 DEF Skipped

\* d is call c after the piece it is at, of which s is shown.
PutOf(c, s, d) ==
    /\ c.at = "fmt" /\ c.read < Len(c.fmt)
    /\ IsNumber(Current(c)) => Skipped(c, Current(c))
    /\ s = IF Skipped(c, Current(c)) THEN << >> ELSE Current(c).arg
    /\ d = [c EXCEPT !.read = c.read + 1,
                     !.pos = c.pos + Len(IF Current(c).conv = "s" THEN Fitting(c, s) ELSE s),
                     !.wide = c.wide \/ Current(c).conv = "l"]

\* Put: text, and conversions that write nothing.
LEMMA PutStep ==
    ASSUME NumbersFit, NEW c \in Active, NEW b \in Array, NEW nums, CallOK(c, b, nums),
           NEW s, NEW d, PutOf(c, s, d)
    PROVE  /\ d \in Active
           /\ Written(b, c.pos, Fitting(c, s)) \in Array
           /\ CallOK(d, Written(b, c.pos, Fitting(c, s)), nums)
<1> DEFINE w == Fitting(c, s)
           e == Written(b, c.pos, w)
<1>0. c.at = "fmt" /\ c.read < Len(c.fmt)
  BY DEF PutOf
<1>1. /\ c.fmt \in Seq(Piece) /\ Len(c.fmt) \in Nat /\ c.read \in Nat
      /\ c.read \in 0 .. Len(c.fmt) - 1 /\ c.read \in 0 .. Len(c.fmt)
      /\ c.read + 1 \in 1 .. Len(c.fmt) /\ Current(c) \in Piece
      /\ c.pos \in Nat /\ c.alone \in BOOLEAN /\ SIZE \in Nat
  BY <1>0, CurrentPiece, FormatAssumption DEF Active
<1>2. c.wide = (\E j \in 1 .. c.read : c.fmt[j] = Wide) /\ Holds(b, c.pos, c.alone, Done(c))
  BY <1>0 DEF CallOK
<1>3. s = Meant(c.fmt, c.read + 1) /\ s \in Seq(Ink) /\ Done(c) \in Seq(Ink)
  <2>1. s = Meant(c.fmt, c.read + 1)
    BY <1>0, <1>2, CurrentMeans DEF PutOf
  <2>2. QED
    BY <1>1, <2>1, MeantType, UptoType DEF Done
<1>4. Room(c) \in Nat /\ Room(c) = (IF c.pos < SIZE THEN SIZE - c.pos ELSE 0)
  BY <1>1 DEF Room
<1>5. w = SubSeq(s, 1, IF Len(s) <= Room(c) THEN Len(s) ELSE Room(c))
  BY DEF Fitting
<1> HIDE DEF w
<1>6. /\ e \in Array
      /\ Holds(e, c.pos + Len(s), c.alone, Done(c) \o s)
      /\ Holds(e, c.pos + Len(w), c.alone, Done(c) \o s)
  BY <1>1, <1>2, <1>3, <1>4, <1>5, HoldsMore
<1> HIDE DEF e
<1>7. Len(s) \in Nat /\ Len(w) \in Nat
  <2>1. Len(s) \in Nat
    BY <1>3, LenProperties
  <2>2. w \in Seq(Ink)
    BY <1>3, <1>4, <1>5, <2>1
  <2>3. QED
    BY <2>1, <2>2, LenProperties
<1> DEFINE q == c.pos + Len(IF Current(c).conv = "s" THEN w ELSE s)
<1>8. q \in Nat /\ Holds(e, q, c.alone, Done(c) \o s)
  BY <1>1, <1>6, <1>7
<1>9. d = [c EXCEPT !.read = c.read + 1, !.pos = q,
                    !.wide = c.wide \/ Current(c).conv = "l"]
  BY DEF w, PutOf
<1> HIDE DEF q
<1>10. /\ d \in Active
       /\ d.at = "fmt" /\ d.fmt = c.fmt /\ d.read = c.read + 1 /\ d.pos = q
       /\ d.wide = (c.wide \/ Current(c).conv = "l") /\ d.alone = c.alone
  <2>1. c.at = "fmt" /\ c.read + 1 \in Nat /\ (c.wide \/ Current(c).conv = "l") \in BOOLEAN
    BY <1>0, <1>1
  <2>2. QED
    BY <1>8, <1>9, <2>1 DEF Active
<1>11. Done(d) = Done(c) \o s
  BY <1>1, <1>3, <1>10, UptoNext DEF Done
<1>12. d.wide = (\E j \in 1 .. d.read : d.fmt[j] = Wide)
  <2>1. (c.wide \/ Current(c).conv = "l") = (\E j \in 1 .. c.read + 1 : c.fmt[j] = Wide)
    BY <1>0, <1>2, WideNext
  <2>2. QED
    BY <1>10, <2>1, Zenon
<1>13. CallOK(d, e, nums)
  <2>1. d.read <= Len(d.fmt)
    BY <1>1, <1>10
  <2>2. Holds(e, d.pos, d.alone, Done(d))
    BY <1>8, <1>10, <1>11
  <2>3. QED
    BY <1>10, <1>12, <2>1, <2>2 DEF CallOK
<1>14. QED
  BY <1>6, <1>10, <1>13 DEF e, w

\* number begins: no digit is written yet.
LEMMA NumberStep ==
    ASSUME NumbersFit, NEW c \in Active, NEW b \in Array, NEW nums, CallOK(c, b, nums),
           c.at = "fmt", c.read < Len(c.fmt),
           IsNumber(Current(c)), ~ Skipped(c, Current(c)),
           NEW d,
           d = [c EXCEPT !.at = "digits", !.num = Absolute(Current(c)),
                         !.marks = Marks(Current(c)), !.i = 0]
    PROVE  d \in Active /\ CallOK(d, b, nums)
<1>1. /\ Current(c) \in Piece /\ c.wide = (\E j \in 1 .. c.read : c.fmt[j] = Wide)
      /\ c.read <= Len(c.fmt) /\ Holds(b, c.pos, c.alone, Done(c))
  BY CurrentPiece DEF CallOK
<1>2. Amount(c) \in 0 .. WORD - 1 /\ Radix(c) \in 8 .. 16
  BY <1>1, AbsoluteIn, BaseIn DEF Amount, Radix, IsNumber
<1>3. Marks(Current(c)) \in Seq(0 .. X)
  <2>1. X \in 0 .. X /\ 0 \in 0 .. X /\ Minus \in 0 .. X
    BY DEF X, Minus
  <2>2. <<X, 0>> \in Seq(0 .. X) /\ <<0>> \in Seq(0 .. X) /\ <<Minus>> \in Seq(0 .. X)
        /\ << >> \in Seq(0 .. X)
    BY <2>1
  <2>3. QED
    BY <2>2 DEF Marks
<1>4. /\ d \in Active
      /\ d.at = "digits" /\ d.fmt = c.fmt /\ d.read = c.read /\ d.pos = c.pos
      /\ d.wide = c.wide /\ d.alone = c.alone /\ d.i = 0
      /\ d.num = Amount(c) /\ d.marks = Marks(Current(c))
  <2>1. 0 \in 0 .. NUMBERS_LEN
    BY DEF NUMBERS_LEN
  <2>2. QED
    BY <1>2, <1>3, <2>1 DEF Active, Amount
<1>5. Current(d) = Current(c) /\ Amount(d) = Amount(c) /\ Radix(d) = Radix(c) /\ Done(d) = Done(c)
  BY <1>4 DEF Current, Amount, Radix, Done
<1>6. InNumber(d)
  BY <1>1, <1>4, <1>5, CurrentMeans DEF InNumber
<1>7. DigitsIn(d, nums)
  BY <1>4 DEF DigitsIn
<1>8. d.num = Amount(d) \div Power(Radix(d))[d.i]
  <2>1. Power(Radix(d))[0] = 1
    BY PowerIs
  <2>2. \A n \in Nat : n \div 1 = n
    OBVIOUS
  <2>3. Amount(d) \in Nat
    BY <1>2, <1>5
  <2>4. QED
    BY <1>4, <1>5, <2>1, <2>2, <2>3
<1>9. ~ (d.i > 0)
  BY <1>4
<1>10. AtDigits(d, b, nums)
  BY <1>1, <1>4, <1>5, <1>6, <1>7, <1>8, <1>9 DEF AtDigits
<1>11. QED
  BY <1>1, <1>4, <1>10 DEF CallOK

\* What is known of a number inside number.
LEMMA NumberKnown ==
    ASSUME NEW c \in Active, InNumber(c)
    PROVE  /\ Current(c) \in Piece /\ IsNumber(Current(c))
           /\ Amount(c) \in 0 .. WORD - 1 /\ Amount(c) \in Nat
           /\ Radix(c) \in 8 .. 16 /\ Radix(c) \in Nat \ {0}
<1>1. Current(c) \in Piece /\ IsNumber(Current(c))
  BY CurrentPiece DEF InNumber
<1>2. Amount(c) \in 0 .. WORD - 1 /\ Radix(c) \in 8 .. 16
  BY <1>1, AbsoluteIn, BaseIn DEF Amount, Radix, IsNumber
<1>3. QED
  BY <1>1, <1>2

\* d and o are call c and the shared array after a digit.
DigitOf(c, nums, d, o) ==
    /\ o = [nums EXCEPT ![c.i] = c.num % Radix(c)]
    /\ d = [c EXCEPT !.num = c.num \div Radix(c), !.i = c.i + 1,
                     !.at = IF c.num \div Radix(c) = 0 THEN "marks" ELSE "digits"]

\* A digit: the number that is left is the quotient by one power more, and the
\* loop ends exactly at the length of the numeral.
LEMMA DigitStep ==
    ASSUME NumbersFit, NEW c \in Active, NEW b \in Array, NEW nums \in Numbers,
           CallOK(c, b, nums), c.at = "digits",
           NEW o, NEW d, DigitOf(c, nums, d, o)
    PROVE  /\ d \in Active /\ o \in Numbers
           /\ \A j \in 0 .. NUMBERS_LEN - 1 : nums[j] # NUL => o[j] # NUL
           /\ CallOK(d, b, o)
<1> DEFINE i == c.i
           n == Amount(c)
           r == Radix(c)
           q == c.num \div r
<1>1. /\ InNumber(c) /\ Holds(b, c.pos, c.alone, Done(c)) /\ DigitsIn(c, nums)
      /\ c.num = n \div Power(r)[i] /\ (i > 0 => c.num # 0) /\ c.marks = Marks(Current(c))
      /\ c.read <= Len(c.fmt) /\ c.wide = (\E j \in 1 .. c.read : c.fmt[j] = Wide)
  BY DEF CallOK, AtDigits
<1>2. /\ n \in 0 .. WORD - 1 /\ n \in Nat /\ r \in 8 .. 16 /\ r \in Nat \ {0}
      /\ i \in 0 .. NUMBERS_LEN /\ c.num \in 0 .. WORD - 1 /\ WORD \in Nat /\ c.alone \in BOOLEAN
  BY <1>1, NumberKnown, FormatAssumption DEF Active
<1> HIDE DEF i, n, r
<1>3. Power(r)[i] \in Nat \ {0}
  BY <1>2, PowerPositive
<1>4. i > 0 => Power(r)[i] <= n
  <2>1. \A x \in Nat, y \in Nat \ {0} : x \div y # 0 => y <= x
    OBVIOUS
  <2>2. QED
    BY <1>1, <1>2, <1>3, <2>1
<1>5. i < NUMBERS_LEN - 2
  <2>1. CASE i > 0
    BY <1>2, <1>4, <2>1, PlacesEnough
  <2>2. CASE ~ (i > 0)
    BY <1>2, <2>2 DEF NUMBERS_LEN
  <2>3. QED
    BY <2>1, <2>2
<1>6. /\ i \in 0 .. NUMBERS_LEN - 1 /\ i + 1 \in 1 .. NUMBERS_LEN - 2
      /\ i + 1 \in 0 .. NUMBERS_LEN /\ (i + 1) - 1 = i
  BY <1>2, <1>5 DEF NUMBERS_LEN
<1>7. q = n \div Power(r)[i + 1] /\ q \in 0 .. WORD - 1
  <2>1. q = n \div Power(r)[i + 1]
    BY <1>1, <1>2, <1>6, NextQuotient
  <2>2. \A x \in Nat, y \in Nat \ {0} : x \div y \in 0 .. x
    OBVIOUS
  <2>3. q \in 0 .. c.num /\ c.num \in Nat
    BY <1>2, <2>2
  <2> HIDE DEF q
  <2>4. QED
    BY <1>2, <2>1, <2>3
<1>8. c.num % r \in 0 .. 15 /\ c.num % r # NUL /\ c.num % r \in 0 .. X
  <2>1. \A x \in Nat, y \in 8 .. 16 : x % y \in 0 .. 15
    OBVIOUS
  <2>2. c.num % r \in 0 .. 15
    BY <1>2, <2>1
  <2>3. QED
    BY <2>2 DEF NUL, X
<1>9. /\ o \in Numbers
      /\ o[i] = c.num % r
      /\ \A j \in 0 .. NUMBERS_LEN - 1 : j # i => o[j] = nums[j]
  <2>1. o = [nums EXCEPT ![i] = c.num % r]
    BY DEF DigitOf, i, r
  <2>2. QED
    BY <1>6, <1>8, <2>1 DEF Numbers
<1>10. \A j \in 0 .. NUMBERS_LEN - 1 : nums[j] # NUL => o[j] # NUL
  BY <1>8, <1>9
<1> DEFINE l == IF q = 0 THEN "marks" ELSE "digits"
<1>11. d = [c EXCEPT !.num = q, !.i = i + 1, !.at = l]
  BY DEF DigitOf, i, r
<1>12. l \in {"marks", "digits"}
  OBVIOUS
<1> HIDE DEF q, l
<1>13. /\ d \in Active
       /\ d.at = l /\ d.fmt = c.fmt /\ d.read = c.read /\ d.pos = c.pos
       /\ d.wide = c.wide /\ d.alone = c.alone /\ d.i = i + 1
       /\ d.num = q /\ d.marks = c.marks
  BY <1>6, <1>7, <1>11, <1>12 DEF Active
<1>14. Current(d) = Current(c) /\ Amount(d) = n /\ Radix(d) = r /\ Done(d) = Done(c)
  BY <1>13 DEF Current, Amount, Radix, Done, n, r
<1>15. InNumber(d)
  BY <1>1, <1>13, <1>14 DEF InNumber
<1>16. DigitsIn(d, o)
  <2>1. ASSUME NEW j \in 0 .. (i + 1) - 1
        PROVE  o[j] # NUL /\ (c.alone => o[j] = (n \div Power(r)[j]) % r)
    <3>1. CASE j = i
      <4>1. o[j] = c.num % r
        BY <1>9, <3>1
      <4>2. c.num = n \div Power(r)[j]
        BY <1>1, <3>1
      <4>3. QED
        BY <1>8, <4>1, <4>2
    <3>2. CASE j # i
      <4>1. j \in 0 .. i - 1 /\ j \in 0 .. NUMBERS_LEN - 1
        BY <1>6, <3>2 DEF NUMBERS_LEN
      <4>2. o[j] = nums[j]
        BY <1>9, <3>2, <4>1
      <4>3. nums[j] # NUL /\ (c.alone => nums[j] = (n \div Power(r)[j]) % r)
        BY <1>1, <4>1 DEF DigitsIn, n, r, i
      <4>4. QED
        BY <4>2, <4>3
    <3>3. QED
      BY <3>1, <3>2
  <2>2. QED
    BY <1>13, <1>14, <2>1 DEF DigitsIn
<1>17. Holds(b, d.pos, d.alone, Done(d))
  BY <1>1, <1>13, <1>14
<1>18. d.read <= Len(d.fmt) /\ d.wide = (\E j \in 1 .. d.read : d.fmt[j] = Wide)
  BY <1>1, <1>13
<1>19. CASE q = 0
  <2>1. d.at = "marks"
    BY <1>13, <1>19 DEF l
  <2>2. Power(r)[i + 1] > n
    <3>1. \A x \in Nat, y \in Nat \ {0} : x \div y = 0 => y > x
      OBVIOUS
    <3>2. Power(r)[i + 1] \in Nat \ {0}
      BY <1>2, <1>6, PowerPositive
    <3>3. QED
      BY <1>2, <1>7, <1>19, <3>1, <3>2
  <2>3. i + 1 = 1 \/ Power(r)[(i + 1) - 1] <= n
    BY <1>2, <1>4, <1>6
  <2>4. HasLength(Amount(d), Radix(d), d.i)
    <3>1. HasLength(n, r, i + 1)
      BY <2>2, <2>3 DEF HasLength
    <3>2. QED
      BY <1>13, <1>14, <3>1
  <2>5. AtMarks(d, b, o)
    BY <1>1, <1>6, <1>13, <1>14, <1>15, <1>16, <1>17, <2>4 DEF AtMarks
  <2>6. CallOK(d, b, o)
    BY <1>18, <2>1, <2>5 DEF CallOK
  <2>7. QED
    BY <1>9, <1>10, <1>13, <2>6
<1>20. CASE q # 0
  <2>1. d.at = "digits"
    BY <1>13, <1>20 DEF l
  <2>2. d.num = Amount(d) \div Power(Radix(d))[d.i] /\ d.num # 0
    BY <1>7, <1>13, <1>14, <1>20
  <2>3. AtDigits(d, b, o)
    BY <1>1, <1>13, <1>14, <1>15, <1>16, <1>17, <2>2 DEF AtDigits
  <2>4. CallOK(d, b, o)
    BY <1>18, <2>1, <2>3 DEF CallOK
  <2>5. QED
    BY <1>9, <1>10, <1>13, <2>4
<1>21. QED
  BY <1>19, <1>20

\* Two marks and a numeral fit numbers.
LEMMA MarksFit ==
    \A k \in 1 .. NUMBERS_LEN - 2, h \in 0 .. 2 :
        /\ k \in Nat /\ h \in Nat /\ k + h \in 0 .. NUMBERS_LEN
        /\ \A j \in 0 .. k + h - 1 : j \in 0 .. NUMBERS_LEN - 1
BY DEF NUMBERS_LEN

\* d and o are call c and the shared array after the marks.
MarksOf(c, nums, d, o) ==
    /\ o = [k \in DOMAIN nums |-> IF k \in c.i .. c.i + Len(c.marks) - 1
                                  THEN c.marks[k - c.i + 1] ELSE nums[k]]
    /\ d = [c EXCEPT !.i = c.i + Len(c.marks), !.marks = << >>, !.at = "copy"]

\* The marks: numbers then holds the meaning of the piece backwards.
LEMMA MarksStep ==
    ASSUME NumbersFit, NEW c \in Active, NEW b \in Array, NEW nums \in Numbers,
           CallOK(c, b, nums), c.at = "marks",
           NEW o, NEW d, MarksOf(c, nums, d, o)
    PROVE  /\ d \in Active /\ o \in Numbers
           /\ \A j \in 0 .. NUMBERS_LEN - 1 : nums[j] # NUL => o[j] # NUL
           /\ CallOK(d, b, o)
<1> DEFINE k == c.i
           h == Len(c.marks)
           m == Meant(c.fmt, c.read + 1)
<1>1. /\ InNumber(c) /\ Holds(b, c.pos, c.alone, Done(c)) /\ DigitsIn(c, nums)
      /\ k \in 1 .. NUMBERS_LEN - 2 /\ HasLength(Amount(c), Radix(c), k)
      /\ c.marks = Marks(Current(c))
      /\ c.read <= Len(c.fmt) /\ c.wide = (\E j \in 1 .. c.read : c.fmt[j] = Wide)
  BY DEF CallOK, AtMarks
<1>2. c.marks \in Seq(0 .. X) /\ h \in 0 .. 2 /\ c.alone \in BOOLEAN
  <2>1. Len(<<X, 0>>) = 2 /\ Len(<<0>>) = 1 /\ Len(<<Minus>>) = 1 /\ Len(<< >>) = 0
    OBVIOUS
  <2>2. h \in 0 .. 2
    BY <1>1, <2>1 DEF Marks
  <2>3. QED
    BY <2>2 DEF Active
<1>3. Current(c) \in Piece /\ IsNumber(Current(c)) /\ c.read < Len(c.fmt) /\ ~ c.wide
  BY <1>1, NumberKnown DEF InNumber
<1>4. m = Meaning(c.fmt, c.read + 1)
  BY <1>1, <1>3, CurrentMeans
<1>5. Behind(m, k, Amount(c), Radix(c), c.marks)
  <2>1. Behind(Meaning(c.fmt, c.read + 1), k, Amount(c), Radix(c), Marks(Current(c)))
    BY <1>1, <1>3, NumberMeans DEF Current, Amount, Radix
  <2>2. QED
    BY <1>1, <1>4, <2>1
<1> HIDE DEF k, h, m
<1>6. /\ m \in Seq(Ink) /\ Len(m) = k + h
      /\ \A j \in 0 .. k - 1 : m[Len(m) - j] = (Amount(c) \div Power(Radix(c))[j]) % Radix(c)
      /\ \A j \in k .. Len(m) - 1 : m[Len(m) - j] = c.marks[j - k + 1]
  BY <1>5 DEF Behind, h
<1>7. /\ k \in Nat /\ h \in Nat /\ k + h \in 0 .. NUMBERS_LEN
      /\ \A j \in 0 .. k + h - 1 : j \in 0 .. NUMBERS_LEN - 1
  BY <1>1, <1>2, MarksFit
<1>8. o = [j \in 0 .. NUMBERS_LEN - 1 |-> IF j \in k .. k + h - 1 THEN c.marks[j - k + 1]
                                          ELSE nums[j]]
  BY DEF MarksOf, Numbers, k, h
<1>9. \A j \in k .. k + h - 1 : c.marks[j - k + 1] \in 0 .. X
  <2>1. \A j \in k .. k + h - 1 : j - k + 1 \in 1 .. h
    BY <1>7
  <2>2. QED
    BY <1>2, <2>1, ElementOfSeq DEF h
<1>10. o \in Numbers
  BY <1>8, <1>9 DEF Numbers
<1>11. \A j \in 0 .. NUMBERS_LEN - 1 : nums[j] # NUL => o[j] # NUL
  <2>1. \A x \in 0 .. X : x # NUL
    BY DEF X, NUL
  <2>2. QED
    BY <1>8, <1>9, <2>1
<1>12. d = [c EXCEPT !.i = k + h, !.marks = << >>, !.at = "copy"]
  BY DEF MarksOf, k, h
<1>13. /\ d \in Active
       /\ d.at = "copy" /\ d.fmt = c.fmt /\ d.read = c.read /\ d.pos = c.pos
       /\ d.wide = c.wide /\ d.alone = c.alone /\ d.i = k + h
  <2>1. << >> \in Seq(0 .. X)
    OBVIOUS
  <2>2. QED
    BY <1>7, <1>12, <2>1 DEF Active
<1>14. Current(d) = Current(c) /\ Done(d) = Done(c) /\ Meant(d.fmt, d.read + 1) = m
  BY <1>13 DEF Current, Done, m
<1>15. InNumber(d)
  BY <1>1, <1>13, <1>14 DEF InNumber
<1>16. ASSUME NEW j \in 0 .. (k + h) - 1
       PROVE  o[j] # NUL /\ (c.alone => o[j] = m[Len(m) - j])
  <2>1. j \in 0 .. NUMBERS_LEN - 1
    BY <1>7
  <2>2. CASE j < k
    <3>1. j \in 0 .. k - 1 /\ j \notin k .. k + h - 1
      BY <1>7, <2>2
    <3>2. o[j] = nums[j]
      BY <1>8, <2>1, <3>1
    <3>3. nums[j] # NUL /\ (c.alone => nums[j] = m[Len(m) - j])
      BY <1>1, <1>6, <3>1 DEF DigitsIn, k
    <3>4. QED
      BY <3>2, <3>3
  <2>3. CASE ~ (j < k)
    <3>1. j \in k .. k + h - 1
      BY <1>7, <2>3
    <3>2. o[j] = c.marks[j - k + 1]
      BY <1>8, <2>1, <3>1
    <3>3. m[Len(m) - j] = c.marks[j - k + 1]
      <4>1. j \in k .. Len(m) - 1
        BY <1>6, <3>1
      <4>2. QED
        BY <1>6, <4>1
    <3>4. o[j] # NUL
      <4>1. \A x \in 0 .. X : x # NUL
        BY DEF X, NUL
      <4>2. QED
        BY <1>9, <3>1, <3>2, <4>1
    <3>5. QED
      BY <3>2, <3>3, <3>4
  <2>4. QED
    BY <2>2, <2>3
<1>17. Copied(d) = Done(d)
  <2>1. Len(m) \in Nat /\ Len(m) - d.i = 0
    BY <1>6, <1>7, <1>13
  <2>2. SubSeq(m, 1, 0) = << >>
    BY <1>6, <2>1, SubSeqEmpty
  <2>3. Done(d) \in Seq(Ink)
    BY <1>3, <1>14, CurrentPiece, UptoType DEF Done
  <2>4. Done(d) \o << >> = Done(d)
    BY <2>3, ConcatEmptySeq
  <2>5. Copied(d) = Done(d) \o SubSeq(m, 1, Len(m) - d.i)
    BY <1>14 DEF Copied
  <2>6. QED
    BY <2>1, <2>2, <2>4, <2>5
<1>18. AtCopy(d, b, o)
  <2>1. d.i <= Len(m)
    BY <1>6, <1>7, <1>13
  <2>2. Holds(b, d.pos, d.alone, Copied(d))
    BY <1>1, <1>13, <1>14, <1>17
  <2>3. \A j \in 0 .. d.i - 1 : o[j] # NUL /\ (d.alone => o[j] = m[Len(m) - j])
    BY <1>13, <1>16
  <2>4. QED
    BY <1>14, <1>15, <2>1, <2>2, <2>3 DEF AtCopy
<1>19. d.read <= Len(d.fmt) /\ d.wide = (\E j \in 1 .. d.read : d.fmt[j] = Wide)
  BY <1>1, <1>13
<1>20. CallOK(d, b, o)
  BY <1>13, <1>18, <1>19 DEF CallOK
<1>21. QED
  BY <1>10, <1>11, <1>13, <1>20

\* A character of it is copied, from behind.
LEMMA CopyStep ==
    ASSUME NumbersFit, NEW c \in Active, NEW b \in Array, NEW nums \in Numbers,
           CallOK(c, b, nums), c.at = "copy", c.i > 0,
           NEW d, d = [c EXCEPT !.i = c.i - 1, !.pos = c.pos + 1]
    PROVE  /\ d \in Active
           /\ [b EXCEPT ![c.pos] = nums[c.i - 1]] \in Array
           /\ CallOK(d, [b EXCEPT ![c.pos] = nums[c.i - 1]], nums)
<1> DEFINE i == c.i
           m == Meant(c.fmt, c.read + 1)
           y == nums[i - 1]
           e == [b EXCEPT ![c.pos] = y]
<1>1. /\ InNumber(c) /\ i <= Len(m) /\ Holds(b, c.pos, c.alone, Copied(c))
      /\ \A j \in 0 .. i - 1 : nums[j] # NUL /\ (c.alone => nums[j] = m[Len(m) - j])
      /\ c.read <= Len(c.fmt) /\ c.wide = (\E j \in 1 .. c.read : c.fmt[j] = Wide)
  BY DEF CallOK, AtCopy
<1>2. /\ c.fmt \in Seq(Piece) /\ c.read \in Nat /\ c.read + 1 \in 1 .. Len(c.fmt)
      /\ c.read \in 0 .. Len(c.fmt) /\ c.alone \in BOOLEAN /\ c.pos \in Nat
      /\ i \in 0 .. NUMBERS_LEN /\ i > 0
  BY <1>1, CurrentPiece DEF InNumber, Active
<1>3. m \in Seq(Ink) /\ Done(c) \in Seq(Ink) /\ Len(m) \in Nat
  BY <1>2, MeantType, UptoType, LenProperties DEF Done
<1>4. Copied(c) = Done(c) \o SubSeq(m, 1, Len(m) - i)
  BY DEF Copied
<1> HIDE DEF m, i
<1>5. PICK q \in Nat : q = Len(m) - i
  BY <1>1, <1>2, <1>3
<1>6. /\ i - 1 \in 0 .. i - 1 /\ i - 1 \in 0 .. NUMBERS_LEN - 1 /\ i - 1 \in 0 .. NUMBERS_LEN
      /\ Len(m) - (i - 1) = q + 1 /\ q + 1 \in 1 .. Len(m) /\ i - 1 <= Len(m)
      /\ q <= Len(m)
  <2>1. i \in 1 .. 68 /\ NUMBERS_LEN = 68 /\ i <= Len(m)
    BY <1>1, <1>2 DEF NUMBERS_LEN
  <2>2. \A w \in 1 .. 68, l \in Nat, p \in Nat :
            w <= l /\ p = l - w =>
                /\ w - 1 \in 0 .. w - 1 /\ w - 1 \in 0 .. 68 - 1 /\ w - 1 \in 0 .. 68
                /\ l - (w - 1) = p + 1 /\ p + 1 \in 1 .. l /\ w - 1 <= l /\ p <= l
    OBVIOUS
  <2>3. QED
    BY <1>3, <1>5, <2>1, <2>2
<1> DEFINE x == m[q + 1]
           s == SubSeq(m, 1, q)
<1>7. x \in Ink /\ s \in Seq(Ink) /\ SubSeq(m, 1, q + 1) = Append(s, x)
  <2>1. x \in Ink
    BY <1>3, <1>6, ElementOfSeq
  <2>2. s \in Seq(Ink)
    BY <1>3, <1>5, <1>6, SubSeqProperties
  <2>3. SubSeq(m, 1, q + 1) = Append(s, x)
    <3>1. 1 <= q + 1 /\ (q + 1) - 1 = q
      BY <1>5
    <3>2. SubSeq(m, 1, q + 1) = Append(SubSeq(m, 1, (q + 1) - 1), m[q + 1])
      BY <1>3, <1>6, <3>1, SubSeqRecursiveSecond
    <3>3. QED
      BY <3>1, <3>2
  <2>4. QED
    BY <2>1, <2>2, <2>3
<1>8. y # NUL /\ y \in Character /\ (c.alone => y = x)
  <2>1. y # NUL /\ (c.alone => y = m[Len(m) - (i - 1)])
    BY <1>1, <1>6
  <2>2. y \in Character
    <3>1. y \in (0 .. X) \cup {NUL}
      BY <1>6 DEF Numbers
    <3>2. QED
      BY <3>1 DEF Character, X, NUL
  <2>3. QED
    BY <1>6, <2>1, <2>2
<1> HIDE DEF x, s, y
<1>9. Done(c) \o s \in Seq(Ink) /\ Append(Done(c) \o s, x) = Done(c) \o Append(s, x)
  <2>1. <<x>> \in Seq(Ink) /\ Done(c) \o s \in Seq(Ink)
    BY <1>3, <1>7, ConcatProperties
  <2>2. Append(Done(c) \o s, x) = (Done(c) \o s) \o <<x>> /\ Append(s, x) = s \o <<x>>
    BY <1>7, <2>1, AppendIsConcat
  <2>3. QED
    BY <1>3, <1>7, <2>1, <2>2, ConcatAssociative
<1>10. Holds(b, c.pos, c.alone, Done(c) \o s)
  BY <1>1, <1>4, <1>5 DEF s
<1>11. e \in Array /\ Holds(e, c.pos + 1, c.alone, Append(Done(c) \o s, x))
  BY <1>2, <1>7, <1>8, <1>9, <1>10, HoldsOneMore
<1>12. e = [b EXCEPT ![c.pos] = nums[c.i - 1]]
  BY DEF y, i
<1> HIDE DEF e
<1>13. d = [c EXCEPT !.i = i - 1, !.pos = c.pos + 1] /\ c.pos + 1 \in Nat
  BY <1>2 DEF i
<1>14. /\ d \in Active
       /\ d.at = "copy" /\ d.fmt = c.fmt /\ d.read = c.read /\ d.pos = c.pos + 1
       /\ d.wide = c.wide /\ d.alone = c.alone /\ d.i = i - 1
  BY <1>6, <1>13 DEF Active
<1>15. Current(d) = Current(c) /\ Done(d) = Done(c) /\ Meant(d.fmt, d.read + 1) = m
  BY <1>14 DEF Current, Done, m
<1>16. Copied(d) = Append(Done(c) \o s, x)
  <2>1. Copied(d) = Done(d) \o SubSeq(m, 1, Len(m) - d.i)
    BY <1>15 DEF Copied
  <2>2. Len(m) - d.i = q + 1
    BY <1>6, <1>14
  <2>3. QED
    BY <1>7, <1>9, <1>15, <2>1, <2>2
<1>17. AtCopy(d, e, nums)
  <2>1. InNumber(d)
    BY <1>1, <1>14, <1>15 DEF InNumber
  <2>2. d.i <= Len(m)
    BY <1>6, <1>14
  <2>3. Holds(e, d.pos, d.alone, Copied(d))
    BY <1>11, <1>14, <1>16
  <2>4. \A j \in 0 .. d.i - 1 : nums[j] # NUL /\ (d.alone => nums[j] = m[Len(m) - j])
    <3>1. \A j \in 0 .. d.i - 1 : j \in 0 .. i - 1
      BY <1>2, <1>14
    <3>2. QED
      BY <1>1, <1>14, <3>1
  <2>5. QED
    BY <1>15, <2>1, <2>2, <2>3, <2>4 DEF AtCopy
<1>18. d.read <= Len(d.fmt) /\ d.wide = (\E j \in 1 .. d.read : d.fmt[j] = Wide)
  BY <1>1, <1>14
<1>19. CallOK(d, e, nums)
  BY <1>14, <1>17, <1>18 DEF CallOK
<1>20. QED
  BY <1>11, <1>12, <1>14, <1>19

\* All of them have been copied.
LEMMA CopiedStep ==
    ASSUME NumbersFit, NEW c \in Active, NEW b \in Array, NEW nums \in Numbers,
           CallOK(c, b, nums), c.at = "copy", ~ (c.i > 0),
           NEW d, d = [c EXCEPT !.at = "fmt", !.read = c.read + 1]
    PROVE  d \in Active /\ CallOK(d, b, nums)
<1> DEFINE m == Meant(c.fmt, c.read + 1)
<1>1. /\ InNumber(c) /\ Holds(b, c.pos, c.alone, Copied(c))
      /\ c.wide = (\E j \in 1 .. c.read : c.fmt[j] = Wide)
  BY DEF CallOK, AtCopy
<1>2. /\ c.fmt \in Seq(Piece) /\ c.read \in Nat /\ Len(c.fmt) \in Nat
      /\ c.read + 1 \in 1 .. Len(c.fmt) /\ c.read \in 0 .. Len(c.fmt) - 1 /\ c.i = 0
      /\ c.read < Len(c.fmt) /\ Current(c) \in Piece /\ IsNumber(Current(c)) /\ c.wide \in BOOLEAN
  BY <1>1, CurrentPiece DEF InNumber, Active
<1>3. m \in Seq(Ink) /\ Len(m) \in Nat
  BY <1>2, MeantType, LenProperties
<1>4. Copied(c) = Done(c) \o m
  <2>1. Copied(c) = Done(c) \o SubSeq(m, 1, Len(m) - c.i) /\ Len(m) - c.i = Len(m)
    BY <1>2, <1>3 DEF Copied
  <2>2. SubSeq(m, 1, Len(m)) = m
    BY <1>3, SubSeqFull
  <2>3. QED
    BY <2>1, <2>2
<1> HIDE DEF m
<1>5. /\ d \in Active
      /\ d.at = "fmt" /\ d.fmt = c.fmt /\ d.read = c.read + 1 /\ d.pos = c.pos
      /\ d.wide = c.wide /\ d.alone = c.alone
  <2>1. c.read + 1 \in Nat
    BY <1>2
  <2>2. d = [c EXCEPT !.at = "fmt", !.read = c.read + 1]
    OBVIOUS
  <2>3. QED
    BY <2>1, <2>2 DEF Active
<1>6. Done(d) = Done(c) \o m
  BY <1>2, <1>5, UptoNext DEF Done, m
<1>7. d.wide = (\E j \in 1 .. d.read : d.fmt[j] = Wide)
  <2>1. (c.wide \/ Current(c).conv = "l") = (\E j \in 1 .. c.read + 1 : c.fmt[j] = Wide)
    BY <1>1, <1>2, WideNext
  <2>2. Current(c).conv # "l"
    BY <1>2, PieceKinds
  <2>3. c.wide = (c.wide \/ Current(c).conv = "l")
    BY <1>2, <2>2
  <2>4. QED
    BY <1>5, <2>1, <2>3, Zenon
<1>8. d.read <= Len(d.fmt)
  BY <1>2, <1>5
<1>9. Holds(b, d.pos, d.alone, Done(d))
  BY <1>1, <1>4, <1>5, <1>6
<1>10. QED
  BY <1>5, <1>7, <1>8, <1>9 DEF CallOK

\* The 0 at the end of the text, or at the end of the array.
LEMMA EndStep ==
    ASSUME NumbersFit, NEW c \in Active, NEW b \in Array, NEW nums, CallOK(c, b, nums),
           c.at = "fmt", c.read = Len(c.fmt),
           NEW d, d = [c EXCEPT !.at = "done"]
    PROVE  /\ d \in Active
           /\ [b EXCEPT ![EndAt(c.pos)] = NUL] \in Array
           /\ CallOK(d, [b EXCEPT ![EndAt(c.pos)] = NUL], nums)
<1> DEFINE e == [b EXCEPT ![EndAt(c.pos)] = NUL]
           n == Len(Done(c))
<1>1. /\ Holds(b, c.pos, c.alone, Done(c)) /\ c.read <= Len(c.fmt)
      /\ c.wide = (\E j \in 1 .. c.read : c.fmt[j] = Wide)
  BY DEF CallOK
<1>2. c.pos \in Nat /\ c.fmt \in Seq(Piece) /\ SIZE \in Nat \ {0} /\ BEHIND \in Nat
  BY FormatAssumption DEF Active
<1>3. n \in Nat
  <2>1. c.read \in 0 .. Len(c.fmt)
    BY <1>2, LenProperties
  <2>2. QED
    BY <1>2, <2>1, UptoType, LenProperties DEF Done
<1> HIDE DEF n
<1>4. /\ EndAt(c.pos) \in 0 .. SIZE - 1 /\ EndAt(c.pos) \in 0 .. SIZE + BEHIND - 1
      /\ EndAt(c.pos) <= c.pos
  BY <1>2 DEF EndAt
<1>5. c.pos = n \/ (c.pos >= SIZE /\ n >= SIZE)
  BY <1>1 DEF Holds, n
<1>6. EndAt(c.pos) <= n
  BY <1>2, <1>3, <1>4, <1>5 DEF EndAt
<1>7. NUL \in Character
  BY DEF NUL, Character
<1>8. /\ e \in Array /\ e[EndAt(c.pos)] = NUL
      /\ \A x \in 0 .. SIZE + BEHIND - 1 : x # EndAt(c.pos) => e[x] = b[x]
  BY <1>4, <1>7 DEF Array
<1>9. ASSUME NEW k \in 1 .. EndAt(c.pos)
      PROVE  e[k - 1] # NUL /\ (c.alone => e[k - 1] = Done(c)[k])
  <2>1. k \in 1 .. n /\ k <= SIZE /\ k - 1 \in 0 .. SIZE + BEHIND - 1 /\ k - 1 # EndAt(c.pos)
    BY <1>2, <1>3, <1>4, <1>6
  <2>2. e[k - 1] = b[k - 1]
    BY <1>8, <2>1
  <2>3. b[k - 1] # NUL /\ (c.alone => b[k - 1] = Done(c)[k])
    BY <1>1, <2>1 DEF Holds, n
  <2>4. QED
    BY <2>2, <2>3
<1> HIDE DEF e
<1>10. /\ d \in Active
       /\ d.at = "done" /\ d.fmt = c.fmt /\ d.read = c.read /\ d.pos = c.pos
       /\ d.wide = c.wide /\ d.alone = c.alone
  BY DEF Active
<1>11. Done(d) = Done(c)
  BY <1>10 DEF Done
<1>12. AtDone(d, e)
  BY <1>5, <1>8, <1>9, <1>10, <1>11 DEF AtDone, n
<1>13. CallOK(d, e, nums)
  BY <1>1, <1>10, <1>12 DEF CallOK
<1>14. QED
  BY <1>8, <1>10, <1>13 DEF e

\* What another task's step does to a call: it may take away that no other
\* has overlapped it, and write to the shared array if it has.
LEMMA OthersStep ==
    ASSUME NEW c \in Active, NEW b, NEW nums, CallOK(c, b, nums),
           NEW o, \A j \in 0 .. NUMBERS_LEN - 1 : nums[j] # NUL => o[j] # NUL,
           NEW d, d = c \/ d = [c EXCEPT !.alone = FALSE],
           d.alone => o = nums
    PROVE  d \in Active /\ CallOK(d, b, o)
<1>1. /\ d \in Active
      /\ d.at = c.at /\ d.fmt = c.fmt /\ d.read = c.read /\ d.pos = c.pos
      /\ d.wide = c.wide /\ d.num = c.num /\ d.marks = c.marks /\ d.i = c.i
      /\ d.alone => c.alone
  BY DEF Active
<1>2. /\ Current(d) = Current(c) /\ Amount(d) = Amount(c) /\ Radix(d) = Radix(c)
      /\ Done(d) = Done(c) /\ Copied(d) = Copied(c)
      /\ Meant(d.fmt, d.read + 1) = Meant(c.fmt, c.read + 1)
  BY <1>1 DEF Current, Amount, Radix, Done, Copied
<1>3. InNumber(c) => InNumber(d)
  BY <1>1, <1>2 DEF InNumber
<1>4. \A text : Holds(b, c.pos, c.alone, text) => Holds(b, d.pos, d.alone, text)
  BY <1>1 DEF Holds
<1>5. \A j \in 0 .. c.i - 1 : nums[j] # NUL => o[j] # NUL
  <2>1. c.i \in 0 .. NUMBERS_LEN
    BY DEF Active
  <2>2. \A j \in 0 .. c.i - 1 : j \in 0 .. NUMBERS_LEN - 1
    BY <2>1 DEF NUMBERS_LEN
  <2>3. QED
    BY <2>2
<1>6. DigitsIn(c, nums) => DigitsIn(d, o)
  BY <1>1, <1>2, <1>5 DEF DigitsIn
<1>7. AtDigits(c, b, nums) => AtDigits(d, b, o)
  BY <1>1, <1>2, <1>3, <1>4, <1>6 DEF AtDigits
<1>8. AtMarks(c, b, nums) => AtMarks(d, b, o)
  BY <1>1, <1>2, <1>3, <1>4, <1>6 DEF AtMarks
<1>9. AtCopy(c, b, nums) => AtCopy(d, b, o)
  BY <1>1, <1>2, <1>3, <1>4, <1>5 DEF AtCopy
<1>10. AtDone(c, b) => AtDone(d, b)
  BY <1>1, <1>2 DEF AtDone
<1>11. QED
  BY <1>1, <1>2, <1>4, <1>7, <1>8, <1>9, <1>10 DEF CallOK

-----------------------------------------------------------------------------
(* The invariant. *)

\* A new call.
LEMMA StartStep ==
    ASSUME NEW t \in Printer, NEW f \in Formats[t], NEW b \in Array, NEW nums,
           NEW x \in BOOLEAN,
           NEW d, d = [at |-> "fmt", fmt |-> f, read |-> 0, pos |-> 0, wide |-> FALSE,
                       num |-> 0, marks |-> << >>, i |-> 0, alone |-> x]
    PROVE  d \in Active /\ CallOK(d, b, nums)
<1>1. f \in Seq(Piece) /\ Len(f) \in Nat
  BY FormatAssumption, LenProperties
<1>2. 0 \in 0 .. WORD - 1 /\ 0 \in 0 .. NUMBERS_LEN /\ << >> \in Seq(0 .. X)
  BY FormatAssumption DEF NUMBERS_LEN
<1>3. d \in Active
  BY <1>1, <1>2 DEF Active
<1>4. Done(d) = << >>
  BY UptoNone DEF Done
<1>5. Holds(b, 0, x, << >>)
  BY DEF Holds
<1>6. d.wide = (\E j \in 1 .. d.read : d.fmt[j] = Wide)
  BY ~ (\E j \in 1 .. 0 : f[j] = Wide)
<1>7. QED
  BY <1>1, <1>3, <1>4, <1>5, <1>6 DEF CallOK

\* A step of one call leaves the others as they are.
LEMMA OneStep ==
    ASSUME FormatInv, NEW t \in Printer, call[t] # Idle,
           NEW d \in Active, NEW e \in Array, NEW o \in Numbers,
           d.fmt = call[t].fmt, d.alone = call[t].alone, CallOK(d, e, o),
           \A j \in 0 .. NUMBERS_LEN - 1 : numbers[j] # NUL => o[j] # NUL,
           numbers' = o, buf' = [buf EXCEPT ![t] = e], call' = [call EXCEPT ![t] = d]
    PROVE  FormatInv'
<1>1. /\ buf \in [Printer -> Array] /\ call \in [Printer -> {Idle} \cup Active]
      /\ \A u \in Printer :
            call[u] # Idle => call[u].fmt \in Formats[u] /\ CallOK(call[u], buf[u], numbers)
      /\ \A u, v \in Printer :
            u # v /\ call[u] # Idle /\ call[v] # Idle => ~ call[u].alone
  BY DEF FormatInv
<1>2. buf' \in [Printer -> Array] /\ call' \in [Printer -> {Idle} \cup Active]
  BY <1>1
<1>3. /\ buf'[t] = e /\ call'[t] = d
      /\ \A u \in Printer : u # t => buf'[u] = buf[u] /\ call'[u] = call[u]
  BY <1>1
<1>4. ASSUME NEW u \in Printer, call'[u] # Idle
      PROVE  call'[u].fmt \in Formats[u] /\ CallOK(call'[u], buf'[u], o)
  <2>1. CASE u = t
    BY <1>1, <1>3, <2>1
  <2>2. CASE u # t
    <3>1. call'[u] = call[u] /\ buf'[u] = buf[u] /\ call[u] # Idle /\ ~ call[u].alone
      BY <1>1, <1>3, <1>4, <2>2
    <3>2. call[u] \in Active /\ CallOK(call[u], buf[u], numbers)
      BY <1>1, <3>1
    <3>3. CallOK(call[u], buf[u], o)
      BY <3>1, <3>2, OthersStep
    <3>4. QED
      BY <1>1, <3>1, <3>3
  <2>3. QED
    BY <2>1, <2>2
<1>5. ASSUME NEW u \in Printer, NEW v \in Printer, u # v, call'[u] # Idle, call'[v] # Idle
      PROVE  ~ call'[u].alone
  <2>1. call[u] # Idle /\ call[v] # Idle
    BY <1>3, <1>5
  <2>2. ~ call[u].alone
    BY <1>1, <1>5, <2>1
  <2>3. QED
    BY <1>3, <2>2
<1>6. QED
  BY <1>2, <1>4, <1>5 DEF FormatInv

\* What is known of a call that is under way.
LEMMA ActiveCall ==
    ASSUME FormatInv, NEW t \in Printer, call[t].at # "idle"
    PROVE  /\ call[t] # Idle /\ call[t] \in Active /\ call[t].fmt \in Formats[t]
           /\ buf[t] \in Array /\ numbers \in Numbers
           /\ CallOK(call[t], buf[t], numbers)
           /\ DOMAIN call = Printer /\ DOMAIN buf = Printer
<1>1. call[t] # Idle
  BY DEF Idle
<1>2. QED
  BY <1>1 DEF FormatInv

\* No call is under way at first.
LEMMA InitOK == Init => FormatInv
<1>1. SUFFICES ASSUME Init
               PROVE  FormatInv
  OBVIOUS
<1>2. numbers \in Numbers
  BY <1>1 DEF Init, Numbers
<1>3. buf \in [Printer -> Array]
  BY <1>1 DEF Init, Array, Stale, Character
<1>4. call \in [Printer -> {Idle} \cup Active] /\ \A t \in Printer : call[t] = Idle
  BY <1>1 DEF Init
<1>5. QED
  BY <1>2, <1>3, <1>4 DEF FormatInv

\* printk keeps the invariant.
LEMMA PrintkKeeps ==
    ASSUME FormatInv, NEW t \in Printer, NEW f \in Formats[t], printk(t, f)
    PROVE  FormatInv'
<1> DEFINE x == \A v \in Printer : call[v] = Idle
           d == [at |-> "fmt", fmt |-> f, read |-> 0, pos |-> 0, wide |-> FALSE,
                 num |-> 0, marks |-> << >>, i |-> 0, alone |-> x]
<1>1. /\ numbers \in Numbers /\ buf \in [Printer -> Array]
      /\ call \in [Printer -> {Idle} \cup Active]
      /\ \A u \in Printer :
            call[u] # Idle => call[u].fmt \in Formats[u] /\ CallOK(call[u], buf[u], numbers)
      /\ \A u, v \in Printer :
            u # v /\ call[u] # Idle /\ call[v] # Idle => ~ call[u].alone
  BY DEF FormatInv
<1>2. numbers' = numbers /\ buf' = buf /\ x \in BOOLEAN
  BY DEF printk
<1>3. d \in Active /\ CallOK(d, buf[t], numbers) /\ d.fmt = f /\ d.alone = x
  <2>1. buf[t] \in Array
    BY <1>1
  <2> DEFINE y == x
  <2>2. y \in BOOLEAN
    BY <1>2
  <2>3. y = x
    OBVIOUS
  <2> HIDE DEF x
  <2>4. d \in Active /\ CallOK(d, buf[t], numbers)
    <3> HIDE DEF d
    <3>1. QED
      BY <1>2, <2>1, StartStep DEF d
  <2>5. QED
    BY <2>4
<1>4. call' = [u \in Printer |-> IF u = t THEN d
                                 ELSE IF call[u] = Idle THEN Idle
                                 ELSE [call[u] EXCEPT !.alone = FALSE]]
  BY DEF printk
<1> HIDE DEF d, x
<1>5. call'[t] = d
  BY <1>4
<1>6. ASSUME NEW u \in Printer, u # t
      PROVE  call'[u] = IF call[u] = Idle THEN Idle ELSE [call[u] EXCEPT !.alone = FALSE]
  BY <1>4, <1>6
<1>7. ASSUME NEW u \in Printer, u # t, call[u] # Idle
      PROVE  /\ call'[u] \in Active /\ call'[u].fmt = call[u].fmt /\ ~ call'[u].alone
             /\ CallOK(call'[u], buf[u], numbers)
  <2> DEFINE c == call[u]
             e == call'[u]
  <2>1. c \in Active /\ CallOK(c, buf[u], numbers)
    BY <1>1, <1>7
  <2>2. e = [c EXCEPT !.alone = FALSE]
    BY <1>6, <1>7
  <2> HIDE DEF c, e
  <2>3. e.fmt = c.fmt /\ ~ e.alone
    BY <2>1, <2>2 DEF Active
  <2>4. e \in Active /\ CallOK(e, buf[u], numbers)
    BY <2>1, <2>2, <2>3, OthersStep
  <2>5. QED
    BY <2>3, <2>4 DEF c, e
<1>8. ASSUME NEW u \in Printer, u # t, call'[u] # Idle
      PROVE  call[u] # Idle
  BY <1>6, <1>8
<1>9. call' \in [Printer -> {Idle} \cup Active]
  <2>1. \A u \in Printer : call'[u] \in {Idle} \cup Active
    BY <1>3, <1>5, <1>6, <1>7
  <2>2. call' = [u \in Printer |-> call'[u]]
    BY <1>4
  <2>3. QED
    BY <2>1, <2>2
<1>10. ASSUME NEW u \in Printer, call'[u] # Idle
       PROVE  call'[u].fmt \in Formats[u] /\ CallOK(call'[u], buf[u], numbers)
  <2>1. CASE u = t
    BY <1>3, <1>5, <2>1
  <2>2. CASE u # t
    BY <1>1, <1>7, <1>8, <1>10, <2>2
  <2>3. QED
    BY <2>1, <2>2
<1>11. ASSUME NEW u \in Printer, NEW v \in Printer, u # v, call'[u] # Idle, call'[v] # Idle
       PROVE  ~ call'[u].alone
  <2>1. CASE u = t
    <3>1. call[v] # Idle
      BY <1>8, <1>11, <2>1
    <3>2. ~ x
      BY <3>1 DEF x
    <3>3. QED
      BY <1>3, <1>5, <2>1, <3>2
  <2>2. CASE u # t
    BY <1>7, <1>8, <1>11, <2>2
  <2>3. QED
    BY <2>1, <2>2
<1>12. QED
  BY <1>1, <1>2, <1>9, <1>10, <1>11 DEF FormatInv

\* Put keeps the invariant.
LEMMA PutKeeps ==
    ASSUME NumbersFit, FormatInv, NEW t \in Printer, Put(t)
    PROVE  FormatInv'
<1> DEFINE c == call[t]
           s == IF Skipped(c, Current(c)) THEN << >> ELSE Current(c).arg
           d == [c EXCEPT !.read = c.read + 1,
                          !.pos = c.pos + Len(IF Current(c).conv = "s" THEN Fitting(c, s) ELSE s),
                          !.wide = c.wide \/ Current(c).conv = "l"]
           e == Written(buf[t], c.pos, Fitting(c, s))
<1>1. c.at = "fmt" /\ PutOf(c, s, d)
  BY DEF Put, Current, PutOf
<1>2. /\ c # Idle /\ c \in Active /\ buf[t] \in Array /\ numbers \in Numbers
      /\ CallOK(c, buf[t], numbers) /\ DOMAIN call = Printer /\ DOMAIN buf = Printer
  BY <1>1, ActiveCall
<1>3. call' = [call EXCEPT ![t] = d] /\ buf' = [buf EXCEPT ![t] = e] /\ numbers' = numbers
  BY <1>2 DEF Put, Current
<1>4. d.fmt = c.fmt /\ d.alone = c.alone
  BY <1>2 DEF Active
<1>5. d \in Active /\ e \in Array /\ CallOK(d, e, numbers)
  <2> HIDE DEF c, s, d
  <2>1. QED
    BY <1>1, <1>2, PutStep
<1> HIDE DEF d, e
<1>6. QED
  BY <1>2, <1>3, <1>4, <1>5, OneStep

\* End keeps the invariant.
LEMMA EndKeeps ==
    ASSUME NumbersFit, FormatInv, NEW t \in Printer, End(t)
    PROVE  FormatInv'
<1> DEFINE c == call[t]
           d == [c EXCEPT !.at = "done"]
           e == [buf[t] EXCEPT ![EndAt(c.pos)] = NUL]
<1>1. c.at = "fmt" /\ c.read = Len(c.fmt)
  BY DEF End
<1>2. /\ c # Idle /\ c \in Active /\ buf[t] \in Array /\ numbers \in Numbers
      /\ CallOK(c, buf[t], numbers) /\ DOMAIN call = Printer /\ DOMAIN buf = Printer
  BY <1>1, ActiveCall
<1>3. call' = [call EXCEPT ![t] = d] /\ buf' = [buf EXCEPT ![t] = e] /\ numbers' = numbers
  BY <1>2 DEF End
<1>4. d \in Active /\ e \in Array /\ CallOK(d, e, numbers)
  BY <1>1, <1>2, EndStep
<1>5. d.fmt = c.fmt /\ d.alone = c.alone
  BY <1>2 DEF Active
<1> HIDE DEF d, e
<1>6. QED
  BY <1>2, <1>3, <1>4, <1>5, OneStep

\* Return keeps the invariant.
LEMMA ReturnKeeps ==
    ASSUME FormatInv, NEW t \in Printer, Return(t)
    PROVE  FormatInv'
<1> DEFINE e == [x \in DOMAIN buf[t] |-> Stale]
<1>1. /\ numbers \in Numbers /\ buf \in [Printer -> Array]
      /\ call \in [Printer -> {Idle} \cup Active]
  BY DEF FormatInv
<1>2. call' = [call EXCEPT ![t] = Idle] /\ buf' = [buf EXCEPT ![t] = e] /\ numbers' = numbers
  BY <1>1 DEF Return
<1>3. e \in Array
  BY <1>1 DEF Array, Stale, Character
<1> HIDE DEF e
<1>4. buf' \in [Printer -> Array] /\ call' \in [Printer -> {Idle} \cup Active]
  BY <1>1, <1>2, <1>3
<1>5. /\ call'[t] = Idle
      /\ \A u \in Printer : u # t => call'[u] = call[u] /\ buf'[u] = buf[u]
  BY <1>1, <1>2
<1>6. QED
  BY <1>1, <1>2, <1>4, <1>5 DEF FormatInv

\* number keeps the invariant.
LEMMA NumberKeeps ==
    ASSUME NumbersFit, FormatInv, NEW t \in Printer, number(t)
    PROVE  FormatInv'
<1> DEFINE c == call[t]
           b == buf[t]
           d == [c EXCEPT !.at = "digits", !.num = Absolute(Current(c)),
                          !.marks = Marks(Current(c)), !.i = 0]
<1>1. /\ c.at = "fmt" /\ c.read < Len(c.fmt)
      /\ IsNumber(Current(c)) /\ ~ Skipped(c, Current(c))
  BY DEF number, Current
<1>2. /\ c # Idle /\ c \in Active /\ b \in Array /\ numbers \in Numbers
      /\ CallOK(c, b, numbers) /\ DOMAIN call = Printer /\ DOMAIN buf = Printer
  BY <1>1, ActiveCall
<1>3. call' = [call EXCEPT ![t] = d] /\ buf' = [buf EXCEPT ![t] = b] /\ numbers' = numbers
  <2>1. call' = [call EXCEPT ![t] = d]
    BY DEF number, Current
  <2>2. buf' = [buf EXCEPT ![t] = b] /\ numbers' = numbers
    BY DEF number, FormatInv
  <2>3. QED
    BY <2>1, <2>2
<1>4. d.fmt = c.fmt /\ d.alone = c.alone
  BY <1>2 DEF Active
<1>5. d \in Active /\ CallOK(d, b, numbers)
  <2>1. d = [c EXCEPT !.at = "digits", !.num = Absolute(Current(c)),
                      !.marks = Marks(Current(c)), !.i = 0]
    OBVIOUS
  <2> HIDE DEF b, c, d
  <2>2. QED
    BY <1>1, <1>2, <2>1, NumberStep
<1> HIDE DEF b, d
<1>6. QED
  BY <1>2, <1>3, <1>4, <1>5, OneStep

\* PutDigit keeps the invariant.
LEMMA PutDigitKeeps ==
    ASSUME NumbersFit, FormatInv, NEW t \in Printer, PutDigit(t)
    PROVE  FormatInv'
<1> DEFINE c == call[t]
           b == buf[t]
           o == [numbers EXCEPT ![c.i] = c.num % Radix(c)]
           d == [c EXCEPT !.num = c.num \div Radix(c), !.i = c.i + 1,
                          !.at = IF c.num \div Radix(c) = 0 THEN "marks" ELSE "digits"]
<1>1. c.at = "digits"
  BY DEF PutDigit
<1>2. /\ c # Idle /\ c \in Active /\ b \in Array /\ numbers \in Numbers
      /\ CallOK(c, b, numbers) /\ DOMAIN call = Printer /\ DOMAIN buf = Printer
  BY <1>1, ActiveCall
<1>3. call' = [call EXCEPT ![t] = d] /\ buf' = [buf EXCEPT ![t] = b] /\ numbers' = o
  <2>1. call' = [call EXCEPT ![t] = d] /\ numbers' = o
    BY <1>2 DEF PutDigit, Current, Radix
  <2>2. buf' = [buf EXCEPT ![t] = b]
    BY DEF PutDigit, FormatInv
  <2>3. QED
    BY <2>1, <2>2
<1>4. d.fmt = c.fmt /\ d.alone = c.alone
  BY <1>2 DEF Active
<1>5. /\ d \in Active /\ o \in Numbers /\ CallOK(d, b, o)
      /\ \A j \in 0 .. NUMBERS_LEN - 1 : numbers[j] # NUL => o[j] # NUL
  <2>1. DigitOf(c, numbers, d, o)
    BY DEF DigitOf
  <2> HIDE DEF b, c, d, o
  <2>2. QED
    BY <1>1, <1>2, <2>1, DigitStep
<1> HIDE DEF b, d, o
<1>6. QED
  BY <1>2, <1>3, <1>4, <1>5, OneStep

\* PutMarks keeps the invariant.
LEMMA PutMarksKeeps ==
    ASSUME NumbersFit, FormatInv, NEW t \in Printer, PutMarks(t)
    PROVE  FormatInv'
<1> DEFINE c == call[t]
           b == buf[t]
           o == [k \in DOMAIN numbers |-> IF k \in c.i .. c.i + Len(c.marks) - 1
                                          THEN c.marks[k - c.i + 1] ELSE numbers[k]]
           d == [c EXCEPT !.i = c.i + Len(c.marks), !.marks = << >>, !.at = "copy"]
<1>1. c.at = "marks"
  BY DEF PutMarks
<1>2. /\ c # Idle /\ c \in Active /\ b \in Array /\ numbers \in Numbers
      /\ CallOK(c, b, numbers) /\ DOMAIN call = Printer /\ DOMAIN buf = Printer
  BY <1>1, ActiveCall
<1>3. call' = [call EXCEPT ![t] = d] /\ buf' = [buf EXCEPT ![t] = b] /\ numbers' = o
  <2>1. call' = [call EXCEPT ![t] = d]
    BY <1>2 DEF PutMarks
  <2>2. buf' = [buf EXCEPT ![t] = b]
    BY DEF PutMarks, FormatInv
  <2>3. numbers' = o
    BY DEF PutMarks
  <2>4. QED
    BY <2>1, <2>2, <2>3
<1>4. d.fmt = c.fmt /\ d.alone = c.alone
  BY <1>2 DEF Active
<1>5. /\ d \in Active /\ o \in Numbers /\ CallOK(d, b, o)
      /\ \A j \in 0 .. NUMBERS_LEN - 1 : numbers[j] # NUL => o[j] # NUL
  <2>1. MarksOf(c, numbers, d, o)
    BY DEF MarksOf
  <2> HIDE DEF b, c, d, o
  <2>2. QED
    BY <1>1, <1>2, <2>1, MarksStep
<1> HIDE DEF b, d, o
<1>6. QED
  BY <1>2, <1>3, <1>4, <1>5, OneStep

\* Copy keeps the invariant.
LEMMA CopyKeeps ==
    ASSUME NumbersFit, FormatInv, NEW t \in Printer, Copy(t)
    PROVE  FormatInv'
<1> DEFINE c == call[t]
           b == buf[t]
<1>1. c.at = "copy" /\ numbers' = numbers
  BY DEF Copy
<1>2. /\ c # Idle /\ c \in Active /\ b \in Array /\ numbers \in Numbers
      /\ CallOK(c, b, numbers) /\ DOMAIN call = Printer /\ DOMAIN buf = Printer
  BY <1>1, ActiveCall
<1>3. CASE c.i > 0
  <2> DEFINE d == [c EXCEPT !.i = c.i - 1, !.pos = c.pos + 1]
             e == [b EXCEPT ![c.pos] = numbers[c.i - 1]]
  <2>1. call' = [call EXCEPT ![t] = d] /\ buf' = [buf EXCEPT ![t] = e]
    BY <1>2, <1>3 DEF Copy
  <2>2. d.fmt = c.fmt /\ d.alone = c.alone
    BY <1>2 DEF Active
  <2>3. d \in Active /\ e \in Array /\ CallOK(d, e, numbers)
    <3>1. d = [c EXCEPT !.i = c.i - 1, !.pos = c.pos + 1]
      OBVIOUS
    <3> HIDE DEF b, c, d
    <3>2. QED
      BY <1>1, <1>2, <1>3, <3>1, CopyStep
  <2> HIDE DEF d, e
  <2>4. QED
    BY <1>1, <1>2, <2>1, <2>2, <2>3, OneStep
<1>4. CASE ~ (c.i > 0)
  <2> DEFINE d == [c EXCEPT !.at = "fmt", !.read = c.read + 1]
  <2>1. call' = [call EXCEPT ![t] = d]
    BY <1>2, <1>4 DEF Copy
  <2>2. buf' = [buf EXCEPT ![t] = b]
    BY <1>4 DEF Copy, FormatInv
  <2>3. d.fmt = c.fmt /\ d.alone = c.alone
    BY <1>2 DEF Active
  <2>4. d \in Active /\ CallOK(d, b, numbers)
    <3>1. d = [c EXCEPT !.at = "fmt", !.read = c.read + 1]
      OBVIOUS
    <3> HIDE DEF b, c, d
    <3>2. QED
      BY <1>1, <1>2, <1>4, <3>1, CopiedStep
  <2> HIDE DEF d, b
  <2>5. QED
    BY <1>1, <1>2, <2>1, <2>2, <2>3, <2>4, OneStep
<1>5. QED
  BY <1>3, <1>4

\* So does every step.
LEMMA NextKeeps == NumbersFit /\ FormatInv /\ [Next]_vars => FormatInv'
<1> SUFFICES ASSUME NumbersFit, FormatInv, [Next]_vars
             PROVE  FormatInv'
  OBVIOUS
<1>1. CASE Next
  <2>1. PICK t \in Printer :
            \/ \E f \in Formats[t] : printk(t, f)
            \/ Put(t) \/ End(t) \/ Return(t)
            \/ number(t) \/ PutDigit(t) \/ PutMarks(t) \/ Copy(t)
    BY <1>1 DEF Next
  <2>2. CASE \E f \in Formats[t] : printk(t, f)
    BY <2>2, PrintkKeeps
  <2>3. CASE Put(t)
    BY <2>3, PutKeeps
  <2>4. CASE End(t)
    BY <2>4, EndKeeps
  <2>5. CASE Return(t)
    BY <2>5, ReturnKeeps
  <2>6. CASE number(t)
    BY <2>6, NumberKeeps
  <2>7. CASE PutDigit(t)
    BY <2>7, PutDigitKeeps
  <2>8. CASE PutMarks(t)
    BY <2>8, PutMarksKeeps
  <2>9. CASE Copy(t)
    BY <2>9, CopyKeeps
  <2>10. QED
    BY <2>1, <2>2, <2>3, <2>4, <2>5, <2>6, <2>7, <2>8, <2>9
<1>2. CASE UNCHANGED vars
  BY <1>2 DEF FormatInv, vars
<1>3. QED
  BY <1>1, <1>2

\* The invariant holds in every state.
LEMMA FormatInvariant ==
    ASSUME NumbersFit
    PROVE  Spec => []FormatInv
<1>1. Init => FormatInv
  BY InitOK
<1>2. FormatInv /\ [Next]_vars => FormatInv'
  BY NextKeeps
<1>3. QED
  BY <1>1, <1>2, PTL DEF Spec

-----------------------------------------------------------------------------
(* The results. *)

\* The invariant and the properties.
LEMMA TypeFollows == FormatInv => TypeOK
<1> SUFFICES ASSUME FormatInv
             PROVE  TypeOK
  OBVIOUS
<1>1. numbers \in Numbers /\ buf \in [Printer -> Array]
  BY DEF FormatInv
<1>2. ASSUME NEW t \in Printer, call[t] # Idle
      PROVE  /\ call[t].at \in {"fmt", "digits", "marks", "copy", "done"}
             /\ call[t].fmt \in Formats[t]
             /\ call[t].read \in 0 .. Len(call[t].fmt)
             /\ call[t].pos \in Nat
             /\ call[t].wide \in BOOLEAN
             /\ call[t].num \in 0 .. WORD - 1
             /\ call[t].marks \in Seq(0 .. X)
             /\ call[t].i \in 0 .. NUMBERS_LEN
             /\ call[t].alone \in BOOLEAN
  <2> DEFINE c == call[t]
  <2>1. c \in Active /\ c.fmt \in Formats[t] /\ CallOK(c, buf[t], numbers)
    BY <1>2 DEF FormatInv
  <2> HIDE DEF c
  <2>2. c.read \in Nat /\ c.fmt \in Seq(Piece)
    BY <2>1 DEF Active
  <2>3. c.read <= Len(c.fmt)
    BY <2>1 DEF CallOK
  <2>4. Len(c.fmt) \in Nat
    BY <2>2, LenProperties
  <2>5. c.read \in 0 .. Len(c.fmt)
    BY <2>2, <2>3, <2>4
  <2>6. QED
    BY <2>1, <2>5 DEF c, Active
<1>3. QED
  BY <1>1, <1>2 DEF TypeOK, Numbers, Array

\* Where the first NUL of an array is.
LEMMA ShownIs ==
    ASSUME NEW t \in Printer, NEW n \in 0 .. SIZE - 1,
           buf[t][n] = NUL, \A k \in 1 .. n : buf[t][k - 1] # NUL
    PROVE  Shown(t) = n
<1> DEFINE s == [k \in 1 .. SIZE + BEHIND |-> buf[t][k - 1]]
           I == {k \in 1 .. Len(s) : s[k] = NUL}
<1>1. SIZE \in Nat \ {0} /\ BEHIND \in Nat
  BY FormatAssumption
<1>2. Len(s) = SIZE + BEHIND
  BY <1>1
<1>3. Shown(t) = (IF I # {} THEN Min(I) ELSE 0) - 1
  BY DEF Shown, SelectInSeq
<1>4. n + 1 \in I
  <2>1. n + 1 \in 1 .. SIZE + BEHIND /\ (n + 1) - 1 = n
    BY <1>1
  <2>2. QED
    BY <1>2, <2>1
<1>5. \A k \in I : n + 1 <= k
  <2>1. SUFFICES ASSUME NEW k \in I, ~ (n + 1 <= k)
                 PROVE  FALSE
    BY <1>2
  <2>2. k \in 1 .. SIZE + BEHIND /\ s[k] = NUL
    BY <1>2
  <2>3. k \in 1 .. n
    BY <1>1, <2>1, <2>2
  <2>4. QED
    BY <2>2, <2>3
<1>6. \A k \in I : k \in Nat
  BY <1>1, <1>2
<1> HIDE DEF I
<1>7. Min(I) = n + 1
  <2>1. n + 1 \in I /\ \A k \in I : n + 1 <= k
    BY <1>4, <1>5
  <2>2. Min(I) \in I /\ \A k \in I : Min(I) <= k
    BY <2>1 DEF Min
  <2>3. QED
    BY <1>6, <2>1, <2>2
<1>8. QED
  BY <1>3, <1>4, <1>7

\* At the end the text is whole: all pieces have been read.
LEMMA TextFollows == NumbersFit /\ FormatInv => TextAsFormatted
<1> SUFFICES ASSUME NumbersFit, FormatInv, NEW t \in Printer, call[t].at = "done"
             PROVE  LET text == Whole(call[t].fmt)
                        len == IF Len(text) < SIZE THEN Len(text) ELSE SIZE - 1
                    IN  /\ Shown(t) = len
                        /\ call[t].pos >= len
                        /\ call[t].alone =>
                              \A k \in 1 .. len : buf[t][k - 1] = text[k]
  BY DEF TextAsFormatted
<1> DEFINE c == call[t]
           text == Whole(c.fmt)
           n == Len(text)
           len == IF n < SIZE THEN n ELSE SIZE - 1
<1>1. c \in Active /\ CallOK(c, buf[t], numbers)
  BY ActiveCall
<1>2. AtDone(c, buf[t])
  BY <1>1 DEF CallOK
<1>3. c.fmt \in Seq(Piece) /\ c.read = Len(c.fmt) /\ c.pos \in Nat
  BY <1>1, <1>2 DEF AtDone, Active
<1>4. text = Done(c)
  BY <1>3 DEF Whole, Done, Upto, Pieces
<1>5. n \in Nat
  <2>1. c.read \in 0 .. Len(c.fmt)
    BY <1>3, LenProperties
  <2>2. Done(c) \in Seq(Ink)
    BY <1>3, <2>1, UptoType DEF Done
  <2>3. QED
    BY <1>4, <2>2, LenProperties
<1>6. SIZE \in Nat \ {0}
  BY FormatAssumption
<1>7. c.pos = n \/ (c.pos >= SIZE /\ n >= SIZE)
  BY <1>2, <1>4 DEF AtDone
<1>8. /\ buf[t][EndAt(c.pos)] = NUL
      /\ \A k \in 1 .. EndAt(c.pos) : buf[t][k - 1] # NUL /\ (c.alone => buf[t][k - 1] = text[k])
  BY <1>2, <1>4 DEF AtDone
<1> HIDE DEF c, text, n
<1>9. EndAt(c.pos) = len /\ c.pos >= len /\ len \in 0 .. SIZE - 1
  BY <1>3, <1>5, <1>6, <1>7 DEF EndAt
<1> HIDE DEF len
<1>10. Shown(t) = len
  BY <1>8, <1>9, ShownIs
<1>11. /\ Shown(t) = len /\ c.pos >= len
       /\ c.alone => \A k \in 1 .. len : buf[t][k - 1] = text[k]
  BY <1>8, <1>9, <1>10
<1>12. QED
  BY <1>11 DEF c, text, n, len

(* In every state the shared array, the arrays of the callers, and what a   *)
(* call keeps of its format, its position and its number have their types:  *)
(* above all, the digits and the marks of a number fit numbers of number.   *)
THEOREM FormatTypeCorrect ==
    ASSUME NumbersFit
    PROVE  Spec => []TypeOK
<1>1. FormatInv => TypeOK
  BY TypeFollows
<1>2. QED
  BY <1>1, FormatInvariant, PTL

(* What vsnprintf leaves in the array is the text that the format means, cut *)
(* off where the array ends and closed by a 0 inside it, for any formats,    *)
(* words and arrays and however many tasks print: of a call that no other    *)
(* has overlapped, character by character, of the others its length.         *)
THEOREM TextsAsFormatted ==
    ASSUME NumbersFit
    PROVE  Spec => []TextAsFormatted
<1>1. FormatInv => TextAsFormatted
  BY TextFollows
<1>2. QED
  BY <1>1, FormatInvariant, PTL
=============================================================================
