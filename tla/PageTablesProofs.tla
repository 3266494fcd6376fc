--------------------------- MODULE PageTablesProofs ---------------------------
(***************************************************************************)
(* For every geometry of the page tables, every pool and every list of     *)
(* sizes: at each step of valloc and vfree the GPU finds each page of a    *)
(* mapping where valloc put it, and nothing else.                          *)
(***************************************************************************)
EXTENDS PageTables, TLAPS, WellFoundedInduction, SequenceTheorems

-----------------------------------------------------------------------------
(* Arithmetic, and the units of the levels.                                *)

(* A set of numbers that is not empty has a least one, and the one before  *)
(* that is not in it.                                                      *)
LEMMA Least ==
  ASSUME NEW X \in SUBSET Nat, X # {}
  PROVE  \E x \in X : x \in Nat /\ (x # 0 => x - 1 \in Nat \ X) /\ \A y \in X : x <= y
<1>1. PICK x \in X : \A y \in X : ~(<<y, x>> \in OpToRel(<, Nat))
  BY NatLessThanWellFounded, WFMin
<1>2. ASSUME NEW y \in X PROVE ~(y < x)
  <2>1. ~(<<y, x>> \in OpToRel(<, Nat)) /\ <<y, x>> \in Nat \X Nat
    BY <1>1
  <2>2. <<y, x>>[1] = y /\ <<y, x>>[2] = x
    OBVIOUS
  <2> QED
    BY <2>1, <2>2 DEF OpToRel
<1>3. x # 0 => x - 1 \in Nat /\ x - 1 < x
  OBVIOUS
<1> QED
  BY <1>2, <1>3

(* A product grows with its factor.                                        *)
LEMMA TimesGrows ==
  ASSUME NEW w \in Nat, NEW a \in Nat, NEW b \in Nat, a <= b
  PROVE  a * w \in Nat /\ b * w \in Nat /\ a * w <= b * w
<1>1. PICK d \in Nat : b = a + d
  <2>1. b - a \in Nat /\ b = a + (b - a)
    OBVIOUS
  <2> QED
    BY <2>1
<1>2. (a + d) * w = a * w + d * w /\ a * w \in Nat /\ d * w \in Nat
  OBVIOUS
<1> QED
  BY <1>1, <1>2

(* What a quotient is for the number that was divided.                     *)
LEMMA Quotient ==
  \A m \in Nat \ {0}, p \in Nat :
    p \div m \in Nat /\ (p \div m) * m \in Nat /\ (p \div m) * m <= p /\ p < (p \div m) * m + m
BY SMTT(30)

(* What a remainder is.                                                    *)
LEMMA Remainder ==
  \A m \in Nat \ {0}, p \in Nat : p % m \in 0 .. m - 1 /\ p % m = p - (p \div m) * m
BY SMTT(30)

(* The quotient is the only number whose multiple is that near.            *)
LEMMA QuotientIs ==
  ASSUME NEW m \in Nat \ {0}, NEW a \in Nat, NEW b \in Nat, NEW p \in Nat,
         a * m <= p, p < a * m + m, b * m <= p, p < b * m + m
  PROVE  a = b
<1>1. ASSUME NEW c \in Nat, NEW d \in Nat, c < d, d * m <= p, p < c * m + m PROVE FALSE
  <2>1. (c + 1) * m <= d * m /\ (c + 1) * m = c * m + m /\ c * m \in Nat /\ d * m \in Nat
    <3>1. c + 1 \in Nat /\ c + 1 <= d
      BY <1>1
    <3>2. (c + 1) * m = c * m + m
      OBVIOUS
    <3>3. (c + 1) * m <= d * m /\ d * m \in Nat
      BY <3>1, TimesGrows
    <3> QED
      BY <3>2, <3>3
  <2> QED
    BY <1>1, <2>1
<1> QED
  BY <1>1

(* A quotient is known by the multiples it lies between.                   *)
LEMMA DivIs ==
  ASSUME NEW m \in Nat \ {0}, NEW a \in Nat, NEW p \in Nat, a * m <= p, p < a * m + m
  PROVE  p \div m = a
<1>1. PICK b : b = p \div m
  OBVIOUS
<1>2. b \in Nat /\ b * m <= p /\ p < b * m + m
  BY <1>1, Quotient
<1> QED
  BY <1>1, <1>2, QuotientIs

(* Two digits make one number: equal numbers have equal digits.            *)
LEMMA PairIs ==
  ASSUME NEW n \in Nat \ {0}, NEW a \in Nat, NEW b \in Nat, NEW x \in 0 .. n - 1, NEW y \in 0 .. n - 1,
         a * n + x = b * n + y
  PROVE  a = b /\ x = y
<1>1. a * n \in Nat /\ b * n \in Nat
  OBVIOUS
<1>2. a = b
  <2>1. PICK p \in Nat : p = a * n + x
    BY <1>1
  <2>2. a * n <= p /\ p < a * n + n /\ b * n <= p /\ p < b * n + n
    BY <1>1, <2>1
  <2> QED
    BY <2>2, QuotientIs
<1> QED
  BY <1>1, <1>2

(* Dividing twice is dividing by the product.                              *)
LEMMA DivDiv ==
  ASSUME NEW m \in Nat \ {0}, NEW n \in Nat \ {0}, NEW p \in Nat
  PROVE  /\ n * m \in Nat \ {0}
         /\ (p \div m) \div n = p \div (n * m)
         /\ p \div m = (p \div (n * m)) * n + ((p \div m) % n)
<1>1. PICK a \in Nat : a = p \div m
  BY Quotient
<1>2. PICK b \in Nat : b = a \div n
  BY Quotient
<1>3. a * m \in Nat /\ a * m <= p /\ p < a * m + m
  BY <1>1, Quotient
<1>4. b * n \in Nat /\ b * n <= a /\ a < b * n + n
  BY <1>2, Quotient
<1>5. n * m \in Nat \ {0}
  OBVIOUS
<1>6. b * (n * m) = (b * n) * m
  OBVIOUS
<1>7. (b * n) * m <= a * m
  BY <1>4, TimesGrows
<1>8. (a + 1) * m <= (b * n + n) * m
  <2>1. a + 1 \in Nat /\ b * n + n \in Nat /\ a + 1 <= b * n + n
    BY <1>4
  <2> QED
    BY <2>1, TimesGrows
<1>9. (a + 1) * m = a * m + m /\ (b * n + n) * m = (b * n) * m + n * m
  BY <1>4
<1>10. b * (n * m) <= p /\ p < b * (n * m) + n * m
  <2>1. (b * n) * m \in Nat /\ n * m \in Nat
    BY <1>4
  <2> QED
    BY <1>3, <1>5, <1>6, <1>7, <1>8, <1>9, <2>1
<1>11. p \div (n * m) = b
  BY <1>5, <1>10, DivIs
<1>12. a = b * n + (a % n)
  <2>1. a % n = a - (a \div n) * n /\ a % n \in Int
    BY Remainder
  <2> QED
    BY <1>2, <1>4, <2>1
<1> QED
  BY <1>1, <1>2, <1>5, <1>11, <1>12

-----------------------------------------------------------------------------
(* Covers, from the last level up.                                         *)
LEMMA CoversIs ==
  /\ Levels \in Nat /\ Levels >= 3
  /\ \A l \in 1 .. Levels : Cnt[l] \in Nat \ {0} /\ Covers[l] \in Nat \ {0}
  /\ Covers[Levels] = 1
  /\ \A l \in 1 .. Levels - 1 : Covers[l] = Cnt[l + 1] * Covers[l + 1]
<1>1. Levels \in Nat /\ Levels >= 3 /\ \A l \in 1 .. Levels : Cnt[l] \in Nat \ {0}
  BY LevelAssumption DEF Levels
<1> DEFINE Body(w, l) == IF l = Levels THEN 1 ELSE Cnt[l + 1] * w[l + 1]
           Bad == {k \in 0 .. Levels : ~\E w : w = [l \in Levels - k + 1 .. Levels |-> Body(w, l)]}
<1>2. Bad = {}
  <2>1. SUFFICES ASSUME Bad # {} PROVE FALSE
    OBVIOUS
  <2>2. Bad \in SUBSET Nat
    OBVIOUS
  <2>3. PICK k \in Bad : k \in Nat /\ (k # 0 => k - 1 \in Nat \ Bad)
    BY <2>1, <2>2, Least
  <2>4. k \in 0 .. Levels
    OBVIOUS
  <2>5. k # 0
    <3>1. SUFFICES ASSUME k = 0 PROVE FALSE
      OBVIOUS
    <3>2. PICK w : w = [l \in {} |-> 0]
      OBVIOUS
    <3>3. Levels - k + 1 .. Levels = {}
      BY <1>1, <3>1
    <3>4. w = [l \in Levels - k + 1 .. Levels |-> Body(w, l)]
      BY <3>2, <3>3
    <3> QED
      BY <3>4
  <2>6. k - 1 \in 0 .. Levels /\ k - 1 \notin Bad
    <3> HIDE DEF Bad
    <3>1. k - 1 \in Nat \ Bad
      BY <2>3, <2>5
    <3> QED
      BY <1>1, <2>4, <3>1
  <2>7. PICK w : w = [l \in Levels - (k - 1) + 1 .. Levels |-> Body(w, l)]
    BY <2>6
  <2>8. PICK e : e = Levels - k + 1
    OBVIOUS
  <2>9. e \in Int /\ e \in 1 .. Levels /\ Levels - (k - 1) + 1 = e + 1 /\ Levels - k + 1 = e
    BY <1>1, <2>4, <2>5, <2>8
  <2>10. PICK u : u = [l \in e .. Levels |-> IF l = e THEN Body(w, e) ELSE w[l]]
    OBVIOUS
  <2>11. \A l \in e .. Levels : u[l] = Body(u, l)
    <3>1. SUFFICES ASSUME NEW l \in e .. Levels PROVE u[l] = Body(u, l)
      OBVIOUS
    <3>2. ASSUME l # Levels PROVE u[l + 1] = w[l + 1]
      <4>1. l + 1 \in e .. Levels /\ l + 1 # e
        BY <1>1, <2>9, <3>2
      <4> QED
        BY <2>10, <4>1
    <3>3. Body(u, l) = Body(w, l)
      BY <3>2
    <3>4. CASE l = e
      BY <2>10, <3>3, <3>4
    <3>5. CASE l # e
      <4>1. l \in e + 1 .. Levels
        BY <1>1, <2>9, <3>5
      <4>2. w[l] = Body(w, l)
        BY <2>7, <2>9, <4>1
      <4> QED
        BY <2>10, <3>3, <3>5, <4>2
    <3> QED
      BY <3>4, <3>5
  <2>12. u = [l \in Levels - k + 1 .. Levels |-> Body(u, l)]
    <3>1. u = [l \in e .. Levels |-> u[l]]
      BY <2>10
    <3>2. u = [l \in e .. Levels |-> Body(u, l)]
      BY <2>11, <3>1, Zenon
    <3> QED
      BY <2>9, <3>2
  <2> QED
    BY <2>12
<1>3. \E w : w = [l \in 1 .. Levels |-> Body(w, l)]
  <2>1. Levels \in 0 .. Levels /\ Levels - Levels + 1 = 1
    BY <1>1
  <2>2. Levels \notin Bad
    BY <1>2, Zenon
  <2>3. \E w : w = [l \in Levels - Levels + 1 .. Levels |-> Body(w, l)]
    BY <2>1, <2>2
  <2> QED
    BY <2>1, <2>3
<1>4. Covers = [l \in 1 .. Levels |-> IF l = Levels THEN 1 ELSE Cnt[l + 1] * Covers[l + 1]]
  BY <1>3, Zenon DEF Covers
<1>5. Covers[Levels] = 1 /\ \A l \in 1 .. Levels - 1 : Covers[l] = Cnt[l + 1] * Covers[l + 1]
  <2>1. \A l \in 1 .. Levels : Covers[l] = IF l = Levels THEN 1 ELSE Cnt[l + 1] * Covers[l + 1]
    BY <1>4, Zenon
  <2> QED
    BY <1>1, <2>1
<1> DEFINE Odd == {k \in 0 .. Levels - 1 : Covers[Levels - k] \notin Nat \ {0}}
<1>6. Odd = {}
  <2>1. SUFFICES ASSUME Odd # {} PROVE FALSE
    OBVIOUS
  <2>2. Odd \in SUBSET Nat
    OBVIOUS
  <2>3. PICK k \in Odd : k \in Nat /\ (k # 0 => k - 1 \in Nat \ Odd)
    BY <2>1, <2>2, Least
  <2>4. k \in 0 .. Levels - 1
    OBVIOUS
  <2>5. k # 0
    <3>1. Levels - 0 = Levels
      BY <1>1
    <3> QED
      BY <1>5, <3>1
  <2>6. k - 1 \in 0 .. Levels - 1 /\ k - 1 \notin Odd
    <3> HIDE DEF Odd
    <3>1. k - 1 \in Nat \ Odd
      BY <2>3, <2>5
    <3> QED
      BY <1>1, <2>4, <3>1
  <2>7. Covers[Levels - (k - 1)] \in Nat \ {0}
    BY <2>6
  <2>8. Levels - (k - 1) = (Levels - k) + 1 /\ Levels - k \in 1 .. Levels - 1 /\ Levels - k + 1 \in 1 .. Levels
    BY <1>1, <2>4, <2>5
  <2>9. Covers[Levels - k] = Cnt[Levels - k + 1] * Covers[Levels - k + 1]
    BY <1>5, <2>8
  <2>10. PICK a, b : a = Cnt[Levels - k + 1] /\ b = Covers[Levels - k + 1]
    OBVIOUS
  <2>11. a \in Nat \ {0} /\ b \in Nat \ {0}
    BY <1>1, <2>7, <2>8, <2>10
  <2>12. a * b \in Nat \ {0}
    BY <2>11
  <2>13. Covers[Levels - k] \in Nat \ {0}
    BY <2>9, <2>10, <2>12
  <2> QED
    BY <2>13
<1>7. \A l \in 1 .. Levels : Covers[l] \in Nat \ {0}
  <2>1. ASSUME NEW l \in 1 .. Levels PROVE Covers[l] \in Nat \ {0}
    <3>1. Levels - l \in 0 .. Levels - 1 /\ Levels - (Levels - l) = l
      BY <1>1
    <3>2. Levels - l \notin Odd
      BY <1>6
    <3> QED
      BY <3>1, <3>2
  <2> QED
    BY <2>1
<1> QED
  BY <1>1, <1>5, <1>7

-----------------------------------------------------------------------------
(* Where the ranges of a mapping start.                                    *)
RangesOf(rs) == rs \in Seq([at : Nat, len : Nat])

(* The fields of a list of ranges.                                         *)
LEMMA RangesTyped ==
  ASSUME NEW rs, RangesOf(rs)
  PROVE  /\ Len(rs) \in Nat /\ DOMAIN rs = 1 .. Len(rs)
         /\ \A j \in 1 .. Len(rs) : rs[j] \in [at : Nat, len : Nat] /\ rs[j].at \in Nat /\ rs[j].len \in Nat
<1> DEFINE R == [at : Nat, len : Nat]
<1>1. rs \in Seq(R)
  BY DEF RangesOf
<1> HIDE DEF R
<1>2. Len(rs) \in Nat /\ DOMAIN rs = 1 .. Len(rs) /\ \A j \in 1 .. Len(rs) : rs[j] \in R
  BY <1>1
<1>3. \A x \in R : x.at \in Nat /\ x.len \in Nat
  BY DEF R
<1> QED
  BY <1>2, <1>3 DEF R

(* Starts adds up the lengths of the ranges before each.                   *)
LEMMA StartsIs ==
  ASSUME NEW rs, RangesOf(rs)
  PROVE  /\ Len(rs) \in Nat /\ DOMAIN rs = 1 .. Len(rs)
         /\ Starts(rs)[1] = 0
         /\ \A j \in 1 .. Len(rs) : Starts(rs)[j + 1] = Starts(rs)[j] + rs[j].len
         /\ \A j \in 1 .. Len(rs) + 1 : Starts(rs)[j] \in Nat
<1>1. Len(rs) \in Nat /\ DOMAIN rs = 1 .. Len(rs) /\ \A j \in 1 .. Len(rs) : rs[j].len \in Nat
  BY RangesTyped
<1> DEFINE Body(w, j) == IF j = 1 THEN 0 ELSE w[j - 1] + rs[j - 1].len
           Bad == {k \in 0 .. Len(rs) + 1 : ~\E w : w = [j \in 1 .. k |-> Body(w, j)]}
<1>2. Bad = {}
  <2>1. SUFFICES ASSUME Bad # {} PROVE FALSE
    OBVIOUS
  <2>2. Bad \in SUBSET Nat
    BY <1>1
  <2>3. PICK k \in Bad : k \in Nat /\ (k # 0 => k - 1 \in Nat \ Bad)
    BY <2>1, <2>2, Least
  <2>4. k \in 0 .. Len(rs) + 1
    OBVIOUS
  <2>5. k # 0
    <3>1. SUFFICES ASSUME k = 0 PROVE FALSE
      OBVIOUS
    <3>2. PICK w : w = [j \in {} |-> 0]
      OBVIOUS
    <3>3. 1 .. k = {}
      BY <3>1
    <3>4. w = [j \in 1 .. k |-> Body(w, j)]
      BY <3>2, <3>3
    <3> QED
      BY <3>4
  <2>6. k - 1 \in 0 .. Len(rs) + 1 /\ k - 1 \notin Bad
    <3> HIDE DEF Bad
    <3>1. k - 1 \in Nat \ Bad
      BY <2>3, <2>5
    <3> QED
      BY <1>1, <2>4, <3>1
  <2>7. PICK w : w = [j \in 1 .. k - 1 |-> Body(w, j)]
    BY <2>6
  <2>8. PICK u : u = [j \in 1 .. k |-> IF j = k THEN Body(w, k) ELSE w[j]]
    OBVIOUS
  <2>9. \A j \in 1 .. k : u[j] = Body(u, j)
    <3>1. SUFFICES ASSUME NEW j \in 1 .. k PROVE u[j] = Body(u, j)
      OBVIOUS
    <3>2. ASSUME j # 1 PROVE u[j - 1] = w[j - 1]
      <4>1. j - 1 \in 1 .. k /\ j - 1 # k
        BY <2>4, <3>2
      <4> QED
        BY <2>8, <4>1
    <3>3. Body(u, j) = Body(w, j)
      BY <3>2
    <3>4. CASE j = k
      BY <2>8, <3>3, <3>4
    <3>5. CASE j # k
      <4>1. j \in 1 .. k - 1
        BY <2>4, <3>5
      <4>2. w[j] = Body(w, j)
        BY <2>7, <4>1
      <4> QED
        BY <2>8, <3>3, <3>5, <4>2
    <3> QED
      BY <3>4, <3>5
  <2>10. u = [j \in 1 .. k |-> Body(u, j)]
    <3>1. u = [j \in 1 .. k |-> u[j]]
      BY <2>8
    <3> QED
      BY <2>9, <3>1, Zenon
  <2> QED
    BY <2>10
<1>3. \E w : w = [j \in 1 .. Len(rs) + 1 |-> Body(w, j)]
  <2>1. Len(rs) + 1 \in 0 .. Len(rs) + 1
    BY <1>1
  <2>2. Len(rs) + 1 \notin Bad
    BY <1>2, Zenon
  <2> QED
    BY <2>1, <2>2
<1>4. PICK s : s = Starts(rs)
  OBVIOUS
<1>5. s = [j \in 1 .. Len(rs) + 1 |-> IF j = 1 THEN 0 ELSE s[j - 1] + rs[j - 1].len]
  BY <1>3, <1>4, Zenon DEF Starts
<1>6. \A j \in 1 .. Len(rs) + 1 : s[j] = IF j = 1 THEN 0 ELSE s[j - 1] + rs[j - 1].len
  BY <1>5, Zenon
<1>7. s[1] = 0
  BY <1>1, <1>6
<1>8. \A j \in 1 .. Len(rs) : s[j + 1] = s[j] + rs[j].len
  <2>1. ASSUME NEW j \in 1 .. Len(rs) PROVE s[j + 1] = s[j] + rs[j].len
    <3>1. j + 1 \in 1 .. Len(rs) + 1 /\ j + 1 # 1 /\ j + 1 - 1 = j
      BY <1>1
    <3> QED
      BY <1>6, <3>1
  <2> QED
    BY <2>1
<1> DEFINE Odd == {k \in 0 .. Len(rs) : s[k + 1] \notin Nat}
<1>9. Odd = {}
  <2>1. SUFFICES ASSUME Odd # {} PROVE FALSE
    OBVIOUS
  <2>2. Odd \in SUBSET Nat
    BY <1>1
  <2>3. PICK k \in Odd : k \in Nat /\ (k # 0 => k - 1 \in Nat \ Odd)
    BY <2>1, <2>2, Least
  <2>4. k \in 0 .. Len(rs)
    OBVIOUS
  <2>5. k # 0
    BY <1>7
  <2>6. k - 1 \in 0 .. Len(rs) /\ k - 1 \notin Odd
    <3> HIDE DEF Odd
    <3>1. k - 1 \in Nat \ Odd
      BY <2>3, <2>5
    <3> QED
      BY <1>1, <2>4, <3>1
  <2>7. k \in 1 .. Len(rs) /\ k - 1 + 1 = k
    BY <2>4, <2>5
  <2>8. s[k + 1] = s[k] + rs[k].len /\ s[k] \in Nat /\ rs[k].len \in Nat
    BY <1>1, <1>8, <2>6, <2>7
  <2> QED
    BY <2>8
<1>10. \A j \in 1 .. Len(rs) + 1 : s[j] \in Nat
  <2>1. ASSUME NEW j \in 1 .. Len(rs) + 1 PROVE s[j] \in Nat
    <3>1. j - 1 \in 0 .. Len(rs) /\ j - 1 + 1 = j
      BY <1>1
    <3>2. j - 1 \notin Odd
      BY <1>9, Zenon
    <3> QED
      BY <3>1, <3>2
  <2> QED
    BY <2>1
<1> QED
  BY <1>1, <1>4, <1>7, <1>8, <1>10

(* No range starts after one that follows it.                              *)
LEMMA StartsGrow ==
  ASSUME NEW rs, RangesOf(rs), NEW j \in 1 .. Len(rs) + 1, NEW k \in 1 .. Len(rs) + 1, j <= k
  PROVE  Starts(rs)[j] <= Starts(rs)[k]
<1> DEFINE s == Starts(rs)
           Odd == {d \in Nat : j + d <= Len(rs) + 1 /\ ~(s[j] <= s[j + d])}
<1>1. /\ Len(rs) \in Nat /\ \A x \in 1 .. Len(rs) : rs[x].len \in Nat
      /\ \A x \in 1 .. Len(rs) : s[x + 1] = s[x] + rs[x].len
      /\ \A x \in 1 .. Len(rs) + 1 : s[x] \in Nat
  BY StartsIs, RangesTyped
<1> HIDE DEF s
<1>2. Odd = {}
  <2>1. SUFFICES ASSUME Odd # {} PROVE FALSE
    OBVIOUS
  <2>2. PICK d \in Odd : d \in Nat /\ (d # 0 => d - 1 \in Nat \ Odd)
    <3>1. Odd \in SUBSET Nat
      OBVIOUS
    <3> HIDE DEF Odd
    <3> QED
      BY <2>1, <3>1, Least
  <2>3. j + d <= Len(rs) + 1 /\ ~(s[j] <= s[j + d])
    OBVIOUS
  <2>4. d # 0
    BY <1>1, <2>3
  <2>5. d - 1 \in Nat /\ d - 1 \notin Odd
    <3> HIDE DEF Odd
    <3> QED
      BY <2>2, <2>4
  <2>6. PICK e : e = j + (d - 1)
    OBVIOUS
  <2>7. e \in 1 .. Len(rs) /\ e + 1 = j + d
    BY <1>1, <2>3, <2>5, <2>6
  <2>8. s[j] <= s[e]
    BY <1>1, <2>5, <2>6, <2>7
  <2>9. s[e + 1] = s[e] + rs[e].len /\ rs[e].len \in Nat /\ s[e] \in Nat /\ s[j] \in Nat
    BY <1>1, <2>7
  <2>10. s[j] <= s[e + 1]
    BY <2>8, <2>9
  <2> QED
    BY <2>3, <2>7, <2>10
<1>3. k - j \in Nat /\ j + (k - j) = k
  BY <1>1
<1>4. k - j \notin Odd
  BY <1>2, Zenon
<1>5. s[j] <= s[k]
  BY <1>1, <1>3, <1>4
<1> QED
  BY <1>5 DEF s

(* A range that is added starts where the last one ended.                  *)
LEMMA StartsAppend ==
  ASSUME NEW rs, RangesOf(rs), NEW r \in [at : Nat, len : Nat]
  PROVE  /\ RangesOf(Append(rs, r)) /\ Len(Append(rs, r)) = Len(rs) + 1
         /\ \A j \in 1 .. Len(rs) : Append(rs, r)[j] = rs[j]
         /\ Append(rs, r)[Len(rs) + 1] = r
         /\ \A j \in 1 .. Len(rs) + 1 : Starts(Append(rs, r))[j] = Starts(rs)[j]
         /\ Starts(Append(rs, r))[Len(rs) + 2] = Starts(rs)[Len(rs) + 1] + r.len
<1>1. PICK q : q = Append(rs, r)
  OBVIOUS
<1>2. /\ RangesOf(q) /\ Len(q) = Len(rs) + 1 /\ Len(rs) \in Nat
      /\ \A j \in 1 .. Len(rs) : q[j] = rs[j]
      /\ q[Len(rs) + 1] = r
  BY <1>1 DEF RangesOf
<1>3. PICK s, u : s = Starts(rs) /\ u = Starts(q)
  OBVIOUS
<1>4. /\ s[1] = 0 /\ \A j \in 1 .. Len(rs) : s[j + 1] = s[j] + rs[j].len
      /\ u[1] = 0 /\ \A j \in 1 .. Len(rs) + 1 : u[j + 1] = u[j] + q[j].len
  BY <1>2, <1>3, StartsIs
<1> DEFINE Odd == {k \in 0 .. Len(rs) : u[k + 1] # s[k + 1]}
<1>5. Odd = {}
  <2>1. SUFFICES ASSUME Odd # {} PROVE FALSE
    OBVIOUS
  <2>2. PICK k \in Odd : k \in Nat /\ (k # 0 => k - 1 \in Nat \ Odd)
    <3>1. Odd \in SUBSET Nat
      OBVIOUS
    <3> HIDE DEF Odd
    <3> QED
      BY <2>1, <3>1, Least
  <2>3. k \in 0 .. Len(rs) /\ u[k + 1] # s[k + 1]
    OBVIOUS
  <2>4. k # 0
    BY <1>4, <2>3
  <2>5. k - 1 \in 0 .. Len(rs) /\ k - 1 \notin Odd
    <3> HIDE DEF Odd
    <3>1. k - 1 \in Nat \ Odd
      BY <2>2, <2>4
    <3> QED
      BY <1>2, <2>3, <3>1
  <2>6. k \in 1 .. Len(rs) /\ k \in 1 .. Len(rs) + 1 /\ k - 1 + 1 = k
    BY <1>2, <2>3, <2>4
  <2>7. u[k] = s[k]
    BY <2>5, <2>6
  <2> QED
    BY <1>2, <1>4, <2>3, <2>6, <2>7
<1>6. \A j \in 1 .. Len(rs) + 1 : u[j] = s[j]
  <2>1. ASSUME NEW j \in 1 .. Len(rs) + 1 PROVE u[j] = s[j]
    <3>1. j - 1 \in 0 .. Len(rs) /\ j - 1 + 1 = j
      BY <1>2
    <3>2. j - 1 \notin Odd
      BY <1>5, Zenon
    <3> QED
      BY <3>1, <3>2
  <2> QED
    BY <2>1
<1>7. u[Len(rs) + 2] = s[Len(rs) + 1] + r.len
  <2>1. Len(rs) + 1 \in 1 .. Len(rs) + 1 /\ (Len(rs) + 1) + 1 = Len(rs) + 2
    BY <1>2
  <2> QED
    BY <1>2, <1>4, <1>6, <2>1
<1> QED
  BY <1>1, <1>2, <1>3, <1>6, <1>7

-----------------------------------------------------------------------------
(* Levels number their entries through all their tables: the entry of      *)
(* level l that the virtual page v lies under.  Level 0 is the one entry   *)
(* that would name the root.                                               *)
Limit == Cnt[1] * Covers[1]
Nth(l, v) == IF l = 0 THEN 0 ELSE v \div Covers[l]

(* The tables reach beyond the virtual pool by more than an entry of the   *)
(* root: a walk never leaves the root's last entry.                        *)
LEMMA LimitIs == Limit \in Nat \ {0} /\ VaPool + Covers[1] <= Limit /\ Covers[1] \in Nat \ {0}
<1>1. PICK n, c : n = Cnt[1] /\ c = Covers[1]
  OBVIOUS
<1>2. n \in Nat \ {0} /\ c \in Nat \ {0}
  BY <1>1, CoversIs
<1>3. n * c \in Nat \ {0} /\ (n - 1) * c = n * c - c
  BY <1>2
<1> QED
  BY <1>1, <1>2, <1>3, PoolAssumption DEF Limit

(* Under each entry of a level lie the entries of one table of the next.   *)
LEMMA NthStep ==
  ASSUME NEW l \in 0 .. Levels - 1, NEW v \in 0 .. Limit - 1
  PROVE  /\ Nth(l, v) \in Nat /\ Nth(l + 1, v) \in Nat
         /\ Idx(l + 1, v) \in 0 .. Cnt[l + 1] - 1
         /\ Nth(l + 1, v) = Nth(l, v) * Cnt[l + 1] + Idx(l + 1, v)
<1>1. /\ Levels \in Nat /\ Levels >= 3 /\ Limit \in Nat
      /\ Cnt[l + 1] \in Nat \ {0} /\ Covers[l + 1] \in Nat \ {0}
      /\ l # 0 => Covers[l] \in Nat \ {0} /\ Covers[l] = Cnt[l + 1] * Covers[l + 1]
  <2>1. Levels \in Nat /\ Levels >= 3 /\ Limit \in Nat
    BY CoversIs, LimitIs
  <2>2. l + 1 \in 1 .. Levels /\ (l # 0 => l \in 1 .. Levels - 1 /\ l \in 1 .. Levels)
    BY <2>1
  <2> QED
    BY <2>1, <2>2, CoversIs
<1>2. v \in Nat /\ l + 1 # 0
  BY <1>1
<1>3. CASE l = 0
  <2>1. PICK n, c : n = Cnt[1] /\ c = Covers[1]
    OBVIOUS
  <2>2. n \in Nat \ {0} /\ c \in Nat \ {0} /\ v < n * c /\ l + 1 = 1
    BY <1>1, <1>2, <1>3, <2>1 DEF Limit
  <2>3. PICK q \in Nat : q = v \div c
    BY <1>2, <2>2, Quotient
  <2>4. q * c <= v /\ q * c \in Nat
    BY <1>2, <2>2, <2>3, Quotient
  <2>5. q < n
    <3>1. ASSUME n <= q PROVE FALSE
      <4>1. n * c <= q * c /\ n * c \in Nat
        BY <2>2, <3>1, TimesGrows
      <4> QED
        BY <1>2, <2>2, <2>4, <4>1
    <3> QED
      BY <2>2, <3>1
  <2>6. q \div n = 0
    <3>1. 0 * n <= q /\ q < 0 * n + n
      BY <2>2, <2>5
    <3>2. 0 \in Nat
      OBVIOUS
    <3> QED
      BY <2>2, <3>1, <3>2, DivIs
  <2>7. q % n = q
    <3>1. q % n = q - (q \div n) * n
      BY <2>2, Remainder
    <3> QED
      BY <2>2, <2>6, <3>1
  <2>8. Idx(l + 1, v) = q /\ Nth(l + 1, v) = q /\ Nth(l, v) = 0
    BY <1>3, <2>1, <2>2, <2>3, <2>7 DEF Idx, Nth
  <2>9. q \in 0 .. n - 1 /\ 0 * n + q = q
    BY <2>2, <2>5
  <2> QED
    BY <2>1, <2>2, <2>8, <2>9
<1>4. CASE l # 0
  <2>1. PICK n, c, k : n = Cnt[l + 1] /\ c = Covers[l + 1] /\ k = Covers[l]
    OBVIOUS
  <2>2. n \in Nat \ {0} /\ c \in Nat \ {0} /\ k = n * c /\ k \in Nat \ {0}
    BY <1>1, <1>4, <2>1
  <2>3. v \div c = (v \div (n * c)) * n + ((v \div c) % n)
    BY <1>2, <2>2, DivDiv
  <2>4. v \div c \in Nat /\ v \div k \in Nat
    BY <1>2, <2>2, Quotient
  <2>5. (v \div c) % n \in 0 .. n - 1
    BY <2>2, <2>4, Remainder
  <2>6. Nth(l, v) = v \div k /\ Nth(l + 1, v) = v \div c /\ Idx(l + 1, v) = (v \div c) % n
    BY <1>2, <1>4, <2>1 DEF Nth, Idx
  <2> QED
    BY <2>1, <2>2, <2>3, <2>4, <2>5, <2>6
<1> QED
  BY <1>3, <1>4

(* The entry of a level that holds a page, counted over all its tables, is *)
(* a number.                                                               *)
LEMMA NthNat == ASSUME NEW l \in 0 .. Levels, NEW v \in 0 .. Limit - 1 PROVE Nth(l, v) \in Nat
<1>1. Levels \in Nat
  BY CoversIs
<1>2. CASE l = 0
  BY <1>2 DEF Nth
<1>3. CASE l # 0
  <2>1. l - 1 \in 0 .. Levels - 1 /\ l - 1 + 1 = l
    BY <1>1, <1>3
  <2> QED
    BY <2>1, NthStep
<1> QED
  BY <1>2, <1>3

(* What lies under one entry lies under one entry of each level above.     *)
LEMMA NthUp ==
  ASSUME NEW k \in 0 .. Levels, NEW l \in 0 .. Levels, k <= l,
         NEW v \in 0 .. Limit - 1, NEW w \in 0 .. Limit - 1, Nth(l, v) = Nth(l, w)
  PROVE  Nth(k, v) = Nth(k, w)
<1>1. Levels \in Nat
  BY CoversIs
<1>2. ASSUME NEW i \in 0 .. Levels - 1, Nth(i + 1, v) = Nth(i + 1, w) PROVE Nth(i, v) = Nth(i, w)
  <2>1. i + 1 \in 1 .. Levels
    BY <1>1
  <2>2. PICK n, a, b, x, y : n = Cnt[i + 1] /\ a = Nth(i, v) /\ b = Nth(i, w)
                             /\ x = Idx(i + 1, v) /\ y = Idx(i + 1, w)
    OBVIOUS
  <2>3. /\ n \in Nat \ {0} /\ a \in Nat /\ b \in Nat /\ x \in 0 .. n - 1 /\ y \in 0 .. n - 1
        /\ a * n + x = b * n + y
    <3>1. Nth(i + 1, v) = a * n + x /\ a \in Nat /\ x \in 0 .. n - 1
      BY <2>2, NthStep
    <3>2. Nth(i + 1, w) = b * n + y /\ b \in Nat /\ y \in 0 .. n - 1
      BY <2>2, NthStep
    <3>3. n \in Nat \ {0}
      BY <2>1, <2>2, CoversIs
    <3> QED
      BY <1>2, <3>1, <3>2, <3>3
  <2>4. a = b
    BY ONLY <2>3, PairIs
  <2> QED
    BY <2>2, <2>4
<1> DEFINE Odd == {d \in Nat : l - d >= k /\ Nth(l - d, v) # Nth(l - d, w)}
<1>3. Odd = {}
  <2>1. SUFFICES ASSUME Odd # {} PROVE FALSE
    OBVIOUS
  <2>2. PICK d \in Odd : d \in Nat /\ (d # 0 => d - 1 \in Nat \ Odd)
    <3>1. Odd \in SUBSET Nat
      OBVIOUS
    <3> HIDE DEF Odd
    <3> QED
      BY <2>1, <3>1, Least
  <2>3. l - d >= k /\ Nth(l - d, v) # Nth(l - d, w)
    OBVIOUS
  <2>4. d # 0
    <3>1. l - 0 = l
      BY <1>1
    <3> QED
      BY <2>3, <3>1
  <2>5. d - 1 \in Nat /\ d - 1 \notin Odd
    <3> HIDE DEF Odd
    <3> QED
      BY <2>2, <2>4
  <2>6. l - (d - 1) = (l - d) + 1 /\ (l - d) + 1 >= k /\ l - d \in 0 .. Levels - 1
    BY <1>1, <2>2, <2>3, <2>4
  <2>7. Nth((l - d) + 1, v) = Nth((l - d) + 1, w)
    BY <2>5, <2>6
  <2> QED
    BY <1>2, <2>3, <2>6, <2>7
<1>4. l - k \in Nat /\ l - (l - k) = k
  BY <1>1
<1>5. l - k \notin Odd
  BY <1>3, Zenon
<1> QED
  BY <1>1, <1>4, <1>5

(* A row of n entries of level l that begins at the page a.                *)
LEMMA RowIs ==
  ASSUME NEW l \in 1 .. Levels, NEW a \in Nat, a % Covers[l] = 0, NEW n \in Nat
  PROVE  /\ Nth(l, a) \in Nat /\ a = Nth(l, a) * Covers[l] /\ n * Covers[l] \in Nat
         /\ \A v \in Nat : Nth(l, v) \in Nat /\
              (a <= v /\ v < a + n * Covers[l] <=> Nth(l, a) <= Nth(l, v) /\ Nth(l, v) < Nth(l, a) + n)
<1>1. PICK c : c = Covers[l]
  OBVIOUS
<1>2. c \in Nat \ {0} /\ l # 0
  BY <1>1, CoversIs
<1>3. PICK q \in Nat : q = a \div c
  BY <1>2, Quotient
<1>4. a = q * c
  <2>1. a % c = a - (a \div c) * c /\ a % c = 0 /\ (a \div c) * c \in Nat
    BY <1>1, <1>2, Remainder, Quotient
  <2> QED
    BY <1>3, <2>1
<1>5. Nth(l, a) = q
  BY <1>1, <1>2, <1>3 DEF Nth
<1>6. n * c \in Nat
  BY <1>2
<1>7. ASSUME NEW v \in Nat PROVE Nth(l, v) \in Nat /\ (a <= v /\ v < a + n * c <=> q <= Nth(l, v) /\ Nth(l, v) < q + n)
  <2>1. PICK p \in Nat : p = v \div c
    BY <1>2, Quotient
  <2>2. p * c \in Nat /\ p * c <= v /\ v < p * c + c
    BY <1>2, <2>1, Quotient
  <2>3. Nth(l, v) = p
    BY <1>1, <1>2, <2>1 DEF Nth
  <2>4. (p + 1) * c = p * c + c /\ (q + n) * c = q * c + n * c /\ p + 1 \in Nat /\ q + n \in Nat
    BY <1>2
  <2>5. ASSUME a <= v, v < a + n * c PROVE q <= p /\ p < q + n
    <3>1. ASSUME p + 1 <= q PROVE FALSE
      <4>1. (p + 1) * c <= q * c
        BY <1>2, <2>4, <3>1, TimesGrows
      <4> QED
        BY <1>2, <1>4, <2>2, <2>4, <2>5, <4>1
    <3>2. ASSUME q + n <= p PROVE FALSE
      <4>1. (q + n) * c <= p * c
        BY <1>2, <2>4, <3>2, TimesGrows
      <4> QED
        BY <1>2, <1>4, <1>6, <2>2, <2>4, <2>5, <4>1
    <3> QED
      BY <3>1, <3>2
  <2>6. ASSUME q <= p, p < q + n PROVE a <= v /\ v < a + n * c
    <3>1. q * c <= p * c
      BY <1>2, <2>6, TimesGrows
    <3>2. (p + 1) * c <= (q + n) * c
      <4>1. p + 1 <= q + n
        BY <2>6
      <4> QED
        BY <1>2, <2>4, <4>1, TimesGrows
    <3> QED
      BY <1>2, <1>4, <1>6, <2>2, <2>4, <3>1, <3>2
  <2> QED
    BY <2>3, <2>5, <2>6
<1> QED
  BY <1>1, <1>4, <1>5, <1>6, <1>7

(* At the last level an entry is a page.                                   *)
LEMMA NthLast == \A v \in Nat : Nth(Levels, v) = v
<1>1. Levels # 0 /\ Covers[Levels] = 1
  BY CoversIs
<1>2. ASSUME NEW v \in Nat PROVE v \div 1 = v
  <2>1. v * 1 <= v /\ v < v * 1 + 1
    OBVIOUS
  <2> QED
    BY <2>1, DivIs
<1> QED
  BY <1>1, <1>2 DEF Nth

-----------------------------------------------------------------------------
(* The tree of tables, of any tables t: T are the tables in it, and nr     *)
(* numbers the tables of each level, so that entry x of table f is entry   *)
(* Block(t, nr, f, x) of its level.                                        *)
Slots(t, f) == 0 .. Cnt[t[f].lv] - 1
Block(t, nr, f, x) == nr[f] * Cnt[t[f].lv] + x

EntryOK(l, e) ==
  \/ e = None
  \/ \E p \in 0 .. PaPool - Covers[l] : e = Page(p) /\ p % Covers[l] = 0
  \/ l < Levels /\ \E f \in Frames : e = Table(f)

TableOK(d) ==
  /\ d = [lv |-> d.lv, ent |-> d.ent] /\ d.lv \in 1 .. Levels
  /\ d.ent = [x \in 0 .. Cnt[d.lv] - 1 |-> d.ent[x]]
  /\ \A x \in 0 .. Cnt[d.lv] - 1 : EntryOK(d.lv, d.ent[x])

Typed(t) ==
  /\ t = [f \in DOMAIN t |-> t[f]] /\ DOMAIN t \subseteq Frames \cup {Root}
  /\ \A f \in DOMAIN t : TableOK(t[f])

Rooted(t, T, nr) ==
  /\ T \subseteq DOMAIN t /\ Root \in T /\ t[Root].lv = 1 /\ nr[Root] = 0
  /\ \A f \in T : nr[f] \in Nat

Children(t, T, nr) ==
  \A f \in T : \A x \in Slots(t, f) : t[f].ent[x].k = "table" =>
    /\ t[f].ent[x].at \in T /\ t[t[f].ent[x].at].lv = t[f].lv + 1
    /\ nr[t[f].ent[x].at] = Block(t, nr, f, x)

Parents(t, T) == \A c \in T \ {Root} : \E f \in T : \E x \in Slots(t, f) : t[f].ent[x] = Table(c)

Unique(t, T, nr) == \A f, g \in T : t[f].lv = t[g].lv /\ nr[f] = nr[g] => f = g

Tree(t, T, nr) == Rooted(t, T, nr) /\ Children(t, T, nr) /\ Parents(t, T) /\ Unique(t, T, nr)

(* The walk of the GPU ends at entry x of table f, and what it finds.      *)
Ends(t, nr, f, x, v) == t[f].ent[x].k # "table" /\ Nth(t[f].lv, v) = Block(t, nr, f, x)

Found(t, f, x, v) ==
  IF t[f].ent[x].k = "page" THEN Page(t[f].ent[x].at + (v % Covers[t[f].lv])) ELSE t[f].ent[x]

(* Translate, of the tables t.                                             *)
Below(t, va, e, l) ==
  LET x == t[e.at].ent[Idx(l, va)]
  IN IF e.k # "table" THEN e ELSE IF x.k = "page" THEN Page(x.at + (va % Covers[l])) ELSE x

Trans(t, va) ==
  LET walk[l \in 0 .. Levels] == IF l = 0 THEN Table(Root) ELSE Below(t, va, walk[l - 1], l)
  IN walk[Levels]

(* Trans is the walk of the GPU in tables given as a parameter.            *)
LEMMA TransIsTranslate == \A va : Translate(va) = Trans(tab, va)
  BY DEF Translate, Trans, Below

(* The walk of the GPU, level by level.                                    *)
LEMMA Walks ==
  ASSUME NEW t, NEW va
  PROVE  \E w : /\ w[0] = Table(Root) /\ Trans(t, va) = w[Levels]
                /\ \A l \in 1 .. Levels : w[l] = Below(t, va, w[l - 1], l)
<1>1. Levels \in Nat
  BY CoversIs
<1> DEFINE Body(w, l) == IF l = 0 THEN Table(Root) ELSE Below(t, va, w[l - 1], l)
           Bad == {k \in 0 .. Levels : ~\E w : w = [l \in 0 .. k |-> Body(w, l)]}
<1>2. Bad = {}
  <2>1. SUFFICES ASSUME Bad # {} PROVE FALSE
    OBVIOUS
  <2>2. PICK k \in Bad : k \in Nat /\ (k # 0 => k - 1 \in Nat \ Bad)
    <3>1. Bad \in SUBSET Nat
      OBVIOUS
    <3> HIDE DEF Bad
    <3> QED
      BY <2>1, <3>1, Least
  <2>3. k \in 0 .. Levels /\ ~\E w : w = [l \in 0 .. k |-> Body(w, l)]
    OBVIOUS
  <2>4. k # 0
    <3>1. SUFFICES ASSUME k = 0 PROVE FALSE
      OBVIOUS
    <3>2. PICK w : w = [l \in {0} |-> Table(Root)]
      OBVIOUS
    <3>3. 0 .. k = {0}
      BY <3>1
    <3>4. w = [l \in 0 .. k |-> Body(w, l)]
      BY <3>2, <3>3
    <3> QED
      BY <2>3, <3>4
  <2>5. k - 1 \in 0 .. Levels /\ k - 1 \notin Bad
    <3> HIDE DEF Bad
    <3>1. k - 1 \in Nat \ Bad
      BY <2>2, <2>4
    <3> QED
      BY <1>1, <2>3, <3>1
  <2>6. PICK w : w = [l \in 0 .. k - 1 |-> Body(w, l)]
    BY <2>5
  <2>7. PICK u : u = [l \in 0 .. k |-> IF l = k THEN Body(w, k) ELSE w[l]]
    OBVIOUS
  <2>8. \A l \in 0 .. k : u[l] = Body(u, l)
    <3>1. SUFFICES ASSUME NEW l \in 0 .. k PROVE u[l] = Body(u, l)
      OBVIOUS
    <3>2. ASSUME l # 0 PROVE u[l - 1] = w[l - 1]
      <4>1. l - 1 \in 0 .. k /\ l - 1 # k
        BY <2>3, <3>2
      <4> QED
        BY <2>7, <4>1
    <3>3. Body(u, l) = Body(w, l)
      BY <3>2
    <3>4. CASE l = k
      BY <2>7, <3>3, <3>4
    <3>5. CASE l # k
      <4>1. l \in 0 .. k - 1
        BY <2>3, <3>5
      <4>2. w[l] = Body(w, l)
        BY <2>6, <4>1
      <4> QED
        BY <2>7, <3>3, <3>5, <4>2
    <3> QED
      BY <3>4, <3>5
  <2>9. u = [l \in 0 .. k |-> Body(u, l)]
    <3>1. u = [l \in 0 .. k |-> u[l]]
      BY <2>7
    <3> QED
      BY <2>8, <3>1
  <2> QED
    BY <2>3, <2>9
<1>3. \E w : w = [l \in 0 .. Levels |-> Body(w, l)]
  <2>1. Levels \in 0 .. Levels
    BY <1>1
  <2>2. Levels \notin Bad
    BY <1>2, Zenon
  <2> QED
    BY <2>1, <2>2
<1>4. PICK w : w = CHOOSE u : u = [l \in 0 .. Levels |-> Body(u, l)]
  OBVIOUS
<1>5. w = [l \in 0 .. Levels |-> Body(w, l)]
  BY <1>3, <1>4, Zenon
<1>6. Trans(t, va) = w[Levels]
  BY <1>4, Zenon DEF Trans
<1>7. \A l \in 0 .. Levels : w[l] = Body(w, l)
  BY <1>5, Zenon
<1>8. w[0] = Table(Root) /\ \A l \in 1 .. Levels : w[l] = Below(t, va, w[l - 1], l)
  BY <1>1, <1>7
<1> QED
  BY <1>6, <1>8

(* The three kinds of entries.                                             *)
LEMMA EntryKinds ==
  ASSUME NEW l, NEW e, EntryOK(l, e)
  PROVE  /\ e.k \in {"none", "page", "table"}
         /\ e.k = "none" => e = None
         /\ e.k = "page" => e = Page(e.at) /\ e.at \in Nat
         /\ e.k = "table" => e = Table(e.at) /\ e.at \in Frames /\ l < Levels
<1>1. CASE e = None
  BY <1>1 DEF None
<1>2. CASE \E p \in 0 .. PaPool - Covers[l] : e = Page(p)
  <2>1. PICK p \in 0 .. PaPool - Covers[l] : e = Page(p)
    BY <1>2
  <2>2. e.k = "page" /\ e.at = p /\ p \in Nat
    BY <2>1 DEF Page
  <2> QED
    BY <2>1, <2>2
<1>3. CASE l < Levels /\ \E f \in Frames : e = Table(f)
  <2>1. PICK f \in Frames : e = Table(f)
    BY <1>3
  <2>2. e.k = "table" /\ e.at = f
    BY <2>1 DEF Table
  <2> QED
    BY <1>3, <2>1, <2>2
<1> QED
  BY <1>1, <1>2, <1>3 DEF EntryOK

(* The entry of a table at a page, and the page's entry of the level.      *)
LEMMA BlockIs ==
  ASSUME NEW t, NEW T, NEW nr, Typed(t), Rooted(t, T, nr), NEW f \in T, NEW v \in 0 .. Limit - 1
  PROVE  /\ t[f].lv \in 1 .. Levels /\ t[f].lv - 1 \in 0 .. Levels - 1 /\ (t[f].lv - 1) + 1 = t[f].lv
         /\ Idx(t[f].lv, v) \in Slots(t, f)
         /\ Nth(t[f].lv - 1, v) \in Nat /\ Nth(t[f].lv, v) \in Nat
         /\ \A x \in Slots(t, f) : Block(t, nr, f, x) \in Nat /\
              (Nth(t[f].lv, v) = Block(t, nr, f, x) <=> Nth(t[f].lv - 1, v) = nr[f] /\ Idx(t[f].lv, v) = x)
<1>1. t[f].lv \in 1 .. Levels /\ nr[f] \in Nat
  BY DEF Typed, TableOK, Rooted
<1>2. PICK d : d = t[f].lv - 1
  OBVIOUS
<1>3. d \in 0 .. Levels - 1 /\ d + 1 = t[f].lv
  BY <1>1, <1>2, CoversIs
<1>4. PICK n, a, b, y : n = Cnt[d + 1] /\ a = Nth(d, v) /\ b = nr[f] /\ y = Idx(d + 1, v)
  OBVIOUS
<1>5. n \in Nat \ {0} /\ b \in Nat
  BY <1>1, <1>3, <1>4, CoversIs
<1>6. a \in Nat /\ Nth(d + 1, v) \in Nat /\ y \in 0 .. n - 1 /\ Nth(d + 1, v) = a * n + y
  BY <1>3, <1>4, NthStep
<1>7. ASSUME NEW x \in 0 .. n - 1 PROVE b * n + x \in Nat /\ (a * n + y = b * n + x <=> a = b /\ y = x)
  <2>1. b * n + x \in Nat
    BY <1>5
  <2>2. a * n + y = b * n + x => a = b /\ y = x
    BY <1>5, <1>6, PairIs
  <2> QED
    BY <2>1, <2>2
<1> QED
  BY <1>1, <1>2, <1>3, <1>4, <1>6, <1>7 DEF Slots, Block

(* The walk comes to each table that its page lies under.                  *)
LEMMA WalkComes ==
  ASSUME NEW t, NEW T, NEW nr, Typed(t), Tree(t, T, nr), NEW v \in 0 .. Limit - 1, NEW w,
         w[0] = Table(Root), \A l \in 1 .. Levels : w[l] = Below(t, v, w[l - 1], l)
  PROVE  \A f \in T : Nth(t[f].lv - 1, v) = nr[f] => w[t[f].lv - 1] = Table(f)
<1> DEFINE Odd == {d \in Nat : \E f \in T : t[f].lv = d + 1 /\ Nth(d, v) = nr[f] /\ w[d] # Table(f)}
<1>1. Odd = {}
  <2>1. SUFFICES ASSUME Odd # {} PROVE FALSE
    OBVIOUS
  <2>2. PICK d \in Odd : d \in Nat /\ (d # 0 => d - 1 \in Nat \ Odd)
    <3>1. Odd \in SUBSET Nat
      OBVIOUS
    <3> HIDE DEF Odd
    <3> QED
      BY <2>1, <3>1, Least
  <2>3. PICK f \in T : t[f].lv = d + 1 /\ Nth(d, v) = nr[f] /\ w[d] # Table(f)
    OBVIOUS
  <2>4. Root \in T /\ t[Root].lv = 1 /\ nr[Root] = 0
    BY DEF Tree, Rooted
  <2>5. d # 0
    <3>1. ASSUME d = 0 PROVE FALSE
      <4>1. f = Root
        BY <2>3, <2>4, <3>1 DEF Tree, Unique, Nth
      <4> QED
        BY <2>3, <3>1, <4>1
    <3> QED
      BY <3>1
  <2>6. d - 1 \in Nat /\ d - 1 \notin Odd
    <3> HIDE DEF Odd
    <3> QED
      BY <2>2, <2>5
  <2>7. f # Root
    BY <2>2, <2>3, <2>4, <2>5
  <2>8. PICK p \in T : \E x \in Slots(t, p) : t[p].ent[x] = Table(f)
    BY <2>7 DEF Tree, Parents
  <2>9. PICK x \in Slots(t, p) : t[p].ent[x] = Table(f)
    BY <2>8
  <2>10. t[f].lv = t[p].lv + 1 /\ nr[f] = Block(t, nr, p, x)
    <3>1. t[p].ent[x].k = "table" /\ t[p].ent[x].at = f
      BY <2>9 DEF Table
    <3> QED
      BY <3>1 DEF Tree, Children
  <2>11. t[p].lv \in 1 .. Levels
    BY DEF Typed, TableOK, Tree, Rooted
  <2>12. t[p].lv = d /\ d \in 1 .. Levels
    BY <2>2, <2>3, <2>10, <2>11
  <2>13. Nth(d - 1, v) = nr[p] /\ Idx(d, v) = x
    BY <2>3, <2>10, <2>12, BlockIs DEF Tree
  <2>14. w[d - 1] = Table(p)
    <3>1. d - 1 + 1 = d
      BY <2>2
    <3> QED
      BY <2>6, <2>12, <2>13, <3>1
  <2>15. w[d] = Table(f)
    <3>1. w[d] = Below(t, v, Table(p), d)
      BY <2>12, <2>14
    <3> QED
      BY <2>9, <2>13, <3>1 DEF Below, Table
  <2> QED
    BY <2>3, <2>15
<1>2. ASSUME NEW f \in T, Nth(t[f].lv - 1, v) = nr[f] PROVE w[t[f].lv - 1] = Table(f)
  <2>1. t[f].lv \in 1 .. Levels
    BY DEF Typed, TableOK, Tree, Rooted
  <2>2. t[f].lv - 1 \in Nat /\ t[f].lv - 1 + 1 = t[f].lv
    BY <2>1, CoversIs
  <2>3. t[f].lv - 1 \notin Odd
    BY <1>1, Zenon
  <2> QED
    BY <1>2, <2>2, <2>3
<1> QED
  BY <1>2

(* What ends the walk is what it finds.                                    *)
LEMMA WalkFinds ==
  ASSUME NEW t, NEW T, NEW nr, Typed(t), Tree(t, T, nr), NEW v \in 0 .. Limit - 1,
         NEW f \in T, NEW x \in Slots(t, f), Ends(t, nr, f, x, v)
  PROVE  Trans(t, v) = Found(t, f, x, v)
<1>1. PICK w : /\ w[0] = Table(Root) /\ Trans(t, v) = w[Levels]
               /\ \A l \in 1 .. Levels : w[l] = Below(t, v, w[l - 1], l)
  BY Walks
<1>2. PICK lf : lf = t[f].lv
  OBVIOUS
<1>3. lf \in 1 .. Levels /\ Levels \in Nat
  BY <1>2, CoversIs DEF Typed, TableOK, Tree, Rooted
<1>4. Nth(lf - 1, v) = nr[f] /\ Idx(lf, v) = x
  BY <1>2, BlockIs DEF Tree, Ends
<1>5. w[lf - 1] = Table(f)
  BY <1>1, <1>2, <1>4, WalkComes
<1>6. w[lf] = Found(t, f, x, v)
  <2>1. w[lf] = Below(t, v, Table(f), lf)
    BY <1>1, <1>3, <1>5
  <2> QED
    BY <1>2, <1>4, <2>1 DEF Below, Table, Found, Ends
<1>7. w[lf].k # "table"
  BY <1>6 DEF Found, Ends, Page
<1> DEFINE Odd == {d \in Nat : lf + d <= Levels /\ w[lf + d] # w[lf]}
<1>8. Odd = {}
  <2>1. SUFFICES ASSUME Odd # {} PROVE FALSE
    OBVIOUS
  <2>2. PICK d \in Odd : d \in Nat /\ (d # 0 => d - 1 \in Nat \ Odd)
    <3>1. Odd \in SUBSET Nat
      OBVIOUS
    <3> HIDE DEF Odd
    <3> QED
      BY <2>1, <3>1, Least
  <2>3. lf + d <= Levels /\ w[lf + d] # w[lf]
    OBVIOUS
  <2>4. d # 0
    <3>1. lf + 0 = lf
      BY <1>3
    <3> QED
      BY <2>3, <3>1
  <2>5. d - 1 \in Nat /\ d - 1 \notin Odd
    <3> HIDE DEF Odd
    <3> QED
      BY <2>2, <2>4
  <2>6. lf + (d - 1) <= Levels /\ lf + (d - 1) = (lf + d) - 1 /\ lf + d \in 1 .. Levels
    BY <1>3, <2>2, <2>3
  <2>7. w[(lf + d) - 1] = w[lf]
    BY <2>5, <2>6
  <2>8. w[lf + d] = w[lf]
    BY <1>1, <1>7, <2>6, <2>7 DEF Below
  <2> QED
    BY <2>3, <2>8
<1>9. Levels - lf \in Nat /\ lf + (Levels - lf) = Levels
  BY <1>3
<1>10. Levels - lf \notin Odd
  BY <1>8, Zenon
<1> QED
  BY <1>1, <1>3, <1>6, <1>9, <1>10

(* And every walk ends.                                                    *)
LEMMA WalkEnds ==
  ASSUME NEW t, NEW T, NEW nr, Typed(t), Tree(t, T, nr), NEW v \in 0 .. Limit - 1
  PROVE  \E f \in T : \E x \in Slots(t, f) : Ends(t, nr, f, x, v)
<1>1. SUFFICES ASSUME \A f \in T : \A x \in Slots(t, f) : ~Ends(t, nr, f, x, v) PROVE FALSE
  OBVIOUS
<1>2. ASSUME NEW f \in T, Nth(t[f].lv - 1, v) = nr[f]
      PROVE  \E c \in T : t[f].lv < Levels /\ t[c].lv = t[f].lv + 1 /\ Nth(t[f].lv, v) = nr[c]
  <2>1. PICK x \in Slots(t, f) : x = Idx(t[f].lv, v) /\ Nth(t[f].lv, v) = Block(t, nr, f, x)
    BY <1>2, BlockIs DEF Tree
  <2>2. t[f].ent[x].k = "table"
    BY <1>1, <2>1 DEF Ends
  <2>3. t[f].ent[x].at \in T /\ t[t[f].ent[x].at].lv = t[f].lv + 1 /\ nr[t[f].ent[x].at] = Block(t, nr, f, x)
    BY <2>2 DEF Tree, Children
  <2>4. EntryOK(t[f].lv, t[f].ent[x])
    BY DEF Typed, TableOK, Tree, Rooted, Slots
  <2>5. t[f].lv < Levels
    BY <2>2, <2>4, EntryKinds
  <2> QED
    BY <2>1, <2>3, <2>5
<1>3. Levels \in Nat
  BY CoversIs
<1> DEFINE Odd == {d \in Nat : ~\E f \in T : t[f].lv = d + 1 /\ Nth(d, v) = nr[f]}
<1>4. Odd = {}
  <2>1. SUFFICES ASSUME Odd # {} PROVE FALSE
    OBVIOUS
  <2>2. PICK d \in Odd : d \in Nat /\ (d # 0 => d - 1 \in Nat \ Odd)
    <3>1. Odd \in SUBSET Nat
      OBVIOUS
    <3> HIDE DEF Odd
    <3> QED
      BY <2>1, <3>1, Least
  <2>3. d # 0
    <3>1. Root \in T /\ t[Root].lv = 1 /\ nr[Root] = 0
      BY DEF Tree, Rooted
    <3> QED
      BY <3>1 DEF Nth
  <2>4. d - 1 \in Nat /\ d - 1 \notin Odd
    <3> HIDE DEF Odd
    <3> QED
      BY <2>2, <2>3
  <2>5. PICK f \in T : t[f].lv = d - 1 + 1 /\ Nth(d - 1, v) = nr[f]
    BY <2>4
  <2>6. t[f].lv = d /\ t[f].lv - 1 = d - 1
    BY <2>2, <2>5
  <2>7. PICK c \in T : t[c].lv = d + 1 /\ Nth(d, v) = nr[c]
    BY <1>2, <2>5, <2>6
  <2> QED
    BY <2>7
<1>5. Levels \notin Odd
  BY <1>4, Zenon
<1>6. PICK f \in T : t[f].lv = Levels + 1
  BY <1>3, <1>5
<1>7. t[f].lv \in 1 .. Levels
  BY DEF Typed, TableOK, Tree, Rooted
<1> QED
  BY <1>3, <1>6, <1>7

(* Under a table that some page lies under, each entry has a page.         *)
LEMMA NthExists ==
  ASSUME NEW l \in 0 .. Levels - 1, NEW v \in 0 .. Limit - 1, NEW x \in 0 .. Cnt[l + 1] - 1
  PROVE  \E u \in 0 .. Limit - 1 : Nth(l + 1, u) = Nth(l, v) * Cnt[l + 1] + x
<1>1. Levels \in Nat /\ Levels >= 3 /\ Limit \in Nat \ {0} /\ l + 1 \in 1 .. Levels /\ l + 1 # 0
  BY CoversIs, LimitIs
<1>2. PICK n, c, a : n = Cnt[l + 1] /\ c = Covers[l + 1] /\ a = Nth(l, v)
  OBVIOUS
<1>3. n \in Nat \ {0} /\ c \in Nat \ {0} /\ a \in Nat /\ x \in 0 .. n - 1
  BY <1>1, <1>2, CoversIs, NthStep
<1>4. PICK u : u = (a * n + x) * c
  OBVIOUS
<1>5. a * n + x \in Nat /\ u \in Nat
  BY <1>3, <1>4
<1>6. u \div c = a * n + x
  <2>1. PICK b \in Nat : b = a * n + x
    BY <1>5
  <2>2. b * c <= u /\ u < b * c + c
    BY <1>3, <1>4, <2>1
  <2> QED
    BY <1>3, <1>5, <2>1, <2>2, DivIs
<1>7. (a + 1) * (n * c) <= Limit
  <2> DEFINE Odd == {d \in Nat : d <= Levels - 1 /\ ~\E q \in Nat : Limit = q * (Cnt[d + 1] * Covers[d + 1])}
  <2>1. Odd = {}
    <3>1. SUFFICES ASSUME Odd # {} PROVE FALSE
      OBVIOUS
    <3>2. PICK d \in Odd : d \in Nat /\ (d # 0 => d - 1 \in Nat \ Odd)
      <4>1. Odd \in SUBSET Nat
        OBVIOUS
      <4> HIDE DEF Odd
      <4> QED
        BY <3>1, <4>1, Least
    <3>3. d <= Levels - 1 /\ ~\E q \in Nat : Limit = q * (Cnt[d + 1] * Covers[d + 1])
      OBVIOUS
    <3>4. d # 0
      <4>1. ASSUME d = 0 PROVE FALSE
        <5>1. d + 1 = 1 /\ Limit = Cnt[1] * Covers[1]
          BY <4>1 DEF Limit
        <5>2. Limit = 1 * Limit /\ 1 \in Nat
          BY <1>1
        <5> QED
          BY <3>3, <5>1, <5>2
      <4> QED
        BY <4>1
    <3>5. d - 1 \in Nat /\ d - 1 \notin Odd
      <4> HIDE DEF Odd
      <4> QED
        BY <3>2, <3>4
    <3>6. PICK q \in Nat : Limit = q * (Cnt[d - 1 + 1] * Covers[d - 1 + 1])
      BY <1>1, <3>3, <3>5
    <3>7. d - 1 + 1 = d /\ d \in 1 .. Levels - 1 /\ d \in 1 .. Levels
      BY <1>1, <3>3, <3>4
    <3>8. PICK m, e : m = Cnt[d] /\ e = Covers[d]
      OBVIOUS
    <3>9. m \in Nat /\ e = Cnt[d + 1] * Covers[d + 1] /\ e \in Nat
      BY <3>7, <3>8, CoversIs
    <3>10. Limit = (q * m) * e /\ q * m \in Nat
      <4>1. Limit = q * (m * e)
        BY <3>6, <3>7, <3>8
      <4> QED
        BY <3>9, <4>1
    <3> QED
      BY <3>3, <3>9, <3>10
  <2>2. l \notin Odd /\ l \in Nat /\ l <= Levels - 1
    <3>1. l \notin Odd
      BY <2>1, Zenon
    <3> QED
      BY <1>1, <3>1
  <2>3. PICK q \in Nat : Limit = q * (n * c)
    BY <1>2, <2>2
  <2>4. PICK k : k = n * c
    OBVIOUS
  <2>5. k \in Nat \ {0}
    BY <1>3, <2>4
  <2>6. a * k <= v \/ a = 0
    <3>1. CASE l = 0
      BY <1>2, <3>1 DEF Nth
    <3>2. CASE l # 0
      <4>1. l \in 1 .. Levels - 1
        BY <1>1, <3>2
      <4>2. Covers[l] = k
        BY <1>2, <2>4, <4>1, CoversIs
      <4>3. a = v \div k
        BY <1>2, <3>2, <4>2 DEF Nth
      <4> QED
        BY <1>1, <2>5, <4>3, Quotient
    <3> QED
      BY <3>1, <3>2
  <2>7. a * k < q * k
    <3>1. v \in Nat /\ v < q * k
      BY <1>1, <2>3, <2>4
    <3>2. a * k = 0 \/ a * k <= v
      BY <2>5, <2>6
    <3>3. a * k \in Nat
      BY <1>3, <2>5
    <3>4. q * k \in Nat
      BY <2>5
    <3> QED
      BY <3>1, <3>2, <3>3, <3>4
  <2>8. a < q
    <3>1. ASSUME q <= a PROVE FALSE
      <4>1. q * k <= a * k /\ a * k \in Nat /\ q * k \in Nat
        BY <1>3, <2>5, <3>1, TimesGrows
      <4> QED
        BY <2>7, <4>1
    <3> QED
      BY <1>3, <3>1
  <2>9. (a + 1) * k <= q * k
    <3>1. a + 1 \in Nat /\ a + 1 <= q
      BY <1>3, <2>8
    <3> QED
      BY <2>5, <3>1, TimesGrows
  <2> QED
    BY <2>3, <2>4, <2>9
<1>8. u < (a + 1) * (n * c)
  <2>1. (a * n + x + 1) * c <= (a * n + n) * c
    <3>1. a * n + x + 1 \in Nat /\ a * n + n \in Nat /\ a * n + x + 1 <= a * n + n
      BY <1>3, <1>5
    <3> QED
      BY <1>3, <3>1, TimesGrows
  <2>2. (a * n + x + 1) * c = u + c
    <3>1. PICK b \in Nat : b = a * n + x
      BY <1>5
    <3>2. (b + 1) * c = b * c + c
      BY <1>3
    <3> QED
      BY <1>4, <3>1, <3>2
  <2>3. (a * n + n) * c = (a + 1) * (n * c)
    <3>1. a * n + n = (a + 1) * n
      BY <1>3
    <3>2. ((a + 1) * n) * c = (a + 1) * (n * c)
      BY <1>3
    <3> QED
      BY <3>1, <3>2
  <2>4. (a + 1) * (n * c) \in Nat
    BY <1>3
  <2> QED
    BY <1>3, <1>5, <2>1, <2>2, <2>3, <2>4
<1>9. u \in 0 .. Limit - 1
  <2>1. PICK k : k = (a + 1) * (n * c)
    OBVIOUS
  <2>2. k \in Nat /\ k <= Limit /\ u < k
    BY <1>3, <1>7, <1>8, <2>1
  <2> QED
    BY <1>1, <1>5, <2>2
<1>10. Nth(l + 1, u) = a * n + x
  BY <1>1, <1>2, <1>6 DEF Nth
<1> QED
  BY <1>2, <1>9, <1>10

-----------------------------------------------------------------------------
(* What a change of the tables does to the tree and to what is found.      *)

(* The n entries of table f from i on are written, and name no table.      *)
RowSet(t, u, f, i, n) ==
  /\ DOMAIN u = DOMAIN t
  /\ \A g \in DOMAIN t : u[g].lv = t[g].lv /\ (g # f => u[g] = t[g])
  /\ \A x \in Slots(t, f) : x \notin i .. i + n - 1 => u[f].ent[x] = t[f].ent[x]
  /\ \A x \in i .. i + n - 1 : x \in Slots(t, f) /\ u[f].ent[x].k # "table"

InRow(t, nr, f, i, n, v) ==
  Block(t, nr, f, i) <= Nth(t[f].lv, v) /\ Nth(t[f].lv, v) < Block(t, nr, f, i) + n

(* The tables under the row: they are lost.                                *)
Gone(t, nr, f, i, n, g) ==
  /\ t[g].lv > t[f].lv
  /\ \E v \in 0 .. Limit - 1 : InRow(t, nr, f, i, n, v) /\ Nth(t[g].lv - 1, v) = nr[g]

RowFound(t, u, nr, f, i, n) ==
  \A v \in 0 .. Limit - 1 :
    /\ ~InRow(t, nr, f, i, n, v) => Trans(u, v) = Trans(t, v)
    /\ \A x \in i .. i + n - 1 : Nth(t[f].lv, v) = Block(t, nr, f, x) => Trans(u, v) = Found(u, f, x, v)

(* A page in the row lies under one of its entries.                        *)
LEMMA RowEntry ==
  ASSUME NEW t, NEW T, NEW nr, Typed(t), Rooted(t, T, nr), NEW f \in T, NEW i \in Nat, NEW n \in Nat,
         \A x \in i .. i + n - 1 : x \in Slots(t, f), NEW v \in 0 .. Limit - 1
  PROVE  /\ InRow(t, nr, f, i, n, v) => \E x \in i .. i + n - 1 : Nth(t[f].lv, v) = Block(t, nr, f, x)
         /\ \A x \in i .. i + n - 1 : Nth(t[f].lv, v) = Block(t, nr, f, x) => InRow(t, nr, f, i, n, v)
<1>1. PICK k, b, c : k = Nth(t[f].lv, v) /\ b = nr[f] /\ c = Cnt[t[f].lv]
  OBVIOUS
<1>2. t[f].lv \in 1 .. Levels
  BY BlockIs
<1>3. k \in Nat /\ b \in Nat /\ c \in Nat \ {0}
  BY <1>1, <1>2, BlockIs, CoversIs DEF Rooted
<1>4. b * c \in Nat
  BY <1>3
<1>5. InRow(t, nr, f, i, n, v) <=> b * c + i <= k /\ k < b * c + i + n
  BY <1>1 DEF InRow, Block
<1>6. ASSUME b * c + i <= k, k < b * c + i + n PROVE \E x \in i .. i + n - 1 : k = b * c + x
  <2>1. k - b * c \in i .. i + n - 1 /\ k = b * c + (k - b * c)
    BY <1>3, <1>4, <1>6
  <2> QED
    BY <2>1
<1>7. ASSUME NEW x \in i .. i + n - 1, k = b * c + x PROVE b * c + i <= k /\ k < b * c + i + n
  BY <1>3, <1>4, <1>7
<1> QED
  BY <1>1, <1>5, <1>6, <1>7 DEF Block

(* set_entry() of a row: the tables named there before leave the tree, and *)
(* the GPU finds the new entries below the row and what it found before    *)
(* everywhere else.                                                        *)
LEMMA RowWritten ==
  ASSUME NEW t, NEW u, NEW T, NEW nr, Typed(t), Typed(u), Tree(t, T, nr),
         NEW f \in T, NEW i \in Nat, NEW n \in Nat, RowSet(t, u, f, i, n),
         NEW a \in 0 .. Limit - 1, Nth(t[f].lv - 1, a) = nr[f]
  PROVE  \E S \in SUBSET T : /\ Tree(u, S, nr) /\ f \in S
                             /\ \A g \in T : g \in S <=> ~Gone(t, nr, f, i, n, g)
                             /\ RowFound(t, u, nr, f, i, n)
<1>1. PICK S : S = {g \in T : ~Gone(t, nr, f, i, n, g)}
  OBVIOUS
<1>2. PICK L : L = t[f].lv
  OBVIOUS
<1>3. /\ Rooted(t, T, nr) /\ Levels \in Nat /\ Limit \in Nat /\ L \in 1 .. Levels
      /\ \A g \in T : t[g].lv \in 1 .. Levels /\ g \in DOMAIN t
  BY <1>2, CoversIs, LimitIs DEF Tree, Rooted, Typed, TableOK
<1>4. f \in S
  BY <1>1, <1>3 DEF Gone
<1>5. \A g \in T : u[g].lv = t[g].lv /\ Slots(u, g) = Slots(t, g) /\ \A x : Block(u, nr, g, x) = Block(t, nr, g, x)
  BY <1>3 DEF RowSet, Slots, Block
<1>6. \A g \in T : \A x \in Slots(t, g) : g # f \/ x \notin i .. i + n - 1 => u[g].ent[x] = t[g].ent[x]
  BY <1>3 DEF RowSet
<1>7. Rooted(u, S, nr)
  <2>1. Root \in S
    BY <1>1, <1>2, <1>3 DEF Gone, Rooted
  <2> QED
    BY <1>1, <1>3, <1>5, <2>1 DEF Rooted, RowSet
<1>8. Children(u, S, nr)
  <2>1. SUFFICES ASSUME NEW g \in S, NEW x \in Slots(t, g), u[g].ent[x].k = "table"
                 PROVE  /\ u[g].ent[x].at \in S /\ u[u[g].ent[x].at].lv = u[g].lv + 1
                        /\ nr[u[g].ent[x].at] = Block(u, nr, g, x)
    BY <1>1, <1>5 DEF Children
  <2>2. g \in T /\ u[g].ent[x] = t[g].ent[x] /\ (g # f \/ x \notin i .. i + n - 1)
    BY <1>1, <1>6, <2>1 DEF RowSet
  <2>3. PICK c : c = t[g].ent[x].at
    OBVIOUS
  <2>4. c \in T /\ t[c].lv = t[g].lv + 1 /\ nr[c] = Block(t, nr, g, x)
    BY <2>1, <2>2, <2>3 DEF Tree, Children
  <2>5. ASSUME Gone(t, nr, f, i, n, c) PROVE FALSE
    <3>1. PICK v \in 0 .. Limit - 1 : InRow(t, nr, f, i, n, v) /\ Nth(t[c].lv - 1, v) = nr[c]
      BY <2>5 DEF Gone
    <3>2. t[g].lv >= L /\ t[c].lv - 1 = t[g].lv
      BY <1>2, <1>3, <2>2, <2>4, <2>5 DEF Gone
    <3>3. Nth(t[g].lv - 1, v) = nr[g] /\ Idx(t[g].lv, v) = x
      BY <1>3, <2>2, <2>4, <3>1, <3>2, BlockIs
    <3>4. t[g].lv = L
      <4>1. ~(t[g].lv > L)
        BY <1>1, <1>2, <3>1, <3>3 DEF Gone
      <4> QED
        BY <1>3, <2>2, <3>2, <4>1
    <3>5. PICK y \in i .. i + n - 1 : Nth(L, v) = Block(t, nr, f, y) /\ y \in Slots(t, f)
      BY <1>2, <1>3, <3>1, RowEntry DEF RowSet
    <3>6. Nth(L - 1, v) = nr[f] /\ Idx(L, v) = y
      BY <1>2, <1>3, <3>5, BlockIs
    <3>7. g = f /\ x = y
      BY <1>2, <2>2, <3>3, <3>4, <3>6 DEF Tree, Unique
    <3> QED
      BY <2>2, <3>5, <3>7
  <2> QED
    BY <1>1, <1>5, <2>2, <2>3, <2>4, <2>5
<1>9. Parents(u, S)
  <2>1. SUFFICES ASSUME NEW c \in S \ {Root} PROVE \E p \in S : \E x \in Slots(u, p) : u[p].ent[x] = Table(c)
    BY DEF Parents
  <2>2. PICK p \in T : \E x \in Slots(t, p) : t[p].ent[x] = Table(c)
    BY <1>1 DEF Tree, Parents
  <2>3. PICK x \in Slots(t, p) : t[p].ent[x] = Table(c)
    BY <2>2
  <2>4. c \in T /\ t[c].lv = t[p].lv + 1 /\ nr[c] = Block(t, nr, p, x) /\ t[c].lv - 1 = t[p].lv
    <3>1. t[p].ent[x].k = "table" /\ t[p].ent[x].at = c
      BY <2>3 DEF Table
    <3>2. t[c].lv = t[p].lv + 1 /\ nr[c] = Block(t, nr, p, x) /\ c \in T
      BY <3>1 DEF Tree, Children
    <3> QED
      BY <1>3, <3>2
  <2>5. PICK lp : lp = t[p].lv
    OBVIOUS
  <2>6. lp \in 1 .. Levels /\ lp - 1 \in 0 .. Levels - 1 /\ lp - 1 + 1 = lp
    BY <1>3, <2>5
  <2>7. ASSUME NEW v \in 0 .. Limit - 1, Nth(lp - 1, v) = nr[p]
        PROVE  \E w \in 0 .. Limit - 1 : Nth(lp, w) = Block(t, nr, p, x) /\ Nth(lp - 1, w) = nr[p]
    <3>1. PICK w \in 0 .. Limit - 1 : Nth(lp, w) = nr[p] * Cnt[lp] + x
      BY <2>5, <2>6, <2>7, NthExists DEF Slots
    <3>2. Nth(lp, w) = Block(t, nr, p, x)
      BY <2>5, <3>1 DEF Block
    <3>3. Nth(lp - 1, w) = nr[p]
      BY <1>3, <2>5, <3>2, BlockIs
    <3> QED
      BY <3>2, <3>3
  <2>8. ASSUME Gone(t, nr, f, i, n, p) PROVE FALSE
    <3>1. PICK v \in 0 .. Limit - 1 : InRow(t, nr, f, i, n, v) /\ Nth(lp - 1, v) = nr[p]
      BY <2>5, <2>8 DEF Gone
    <3>2. lp > L
      BY <1>2, <2>5, <2>8 DEF Gone
    <3>3. PICK w \in 0 .. Limit - 1 : Nth(lp, w) = Block(t, nr, p, x) /\ Nth(lp - 1, w) = nr[p]
      BY <2>7, <3>1
    <3>4. Nth(L, v) = Nth(L, w)
      <4>1. L \in 0 .. Levels /\ lp - 1 \in 0 .. Levels /\ L <= lp - 1
        BY <1>3, <2>6, <3>2
      <4> QED
        BY <3>1, <3>3, <4>1, NthUp
    <3>5. InRow(t, nr, f, i, n, w)
      BY <1>2, <3>1, <3>4 DEF InRow
    <3>6. t[c].lv > t[f].lv
      BY <1>2, <1>3, <2>4, <2>5, <2>6, <3>2
    <3>7. Gone(t, nr, f, i, n, c)
      BY <2>4, <2>5, <3>3, <3>5, <3>6 DEF Gone
    <3> QED
      BY <1>1, <3>7
  <2>9. ASSUME p = f, x \in i .. i + n - 1 PROVE FALSE
    <3>1. PICK w \in 0 .. Limit - 1 : Nth(lp, w) = Block(t, nr, p, x)
      BY <2>5, <2>7, <2>9
    <3>2. InRow(t, nr, f, i, n, w)
      BY <1>3, <2>5, <2>9, <3>1, RowEntry DEF RowSet
    <3>3. t[c].lv > t[f].lv
      BY <1>2, <1>3, <2>4, <2>9
    <3>4. Gone(t, nr, f, i, n, c)
      BY <2>4, <2>5, <3>1, <3>2, <3>3 DEF Gone
    <3> QED
      BY <1>1, <3>4
  <2>10. p \in S
    BY <1>1, <2>8
  <2>11. u[p].ent[x] = Table(c) /\ x \in Slots(u, p)
    BY <1>5, <1>6, <2>3, <2>9
  <2> QED
    BY <2>10, <2>11
<1>10. Unique(u, S, nr)
  <2>1. S \subseteq T
    BY <1>1
  <2> QED
    BY <1>5, <2>1 DEF Tree, Unique
<1>11. Tree(u, S, nr)
  BY <1>7, <1>8, <1>9, <1>10 DEF Tree
<1>12. RowFound(t, u, nr, f, i, n)
  <2>1. ASSUME NEW v \in 0 .. Limit - 1, NEW x \in i .. i + n - 1, Nth(t[f].lv, v) = Block(t, nr, f, x)
        PROVE  Trans(u, v) = Found(u, f, x, v)
    <3>1. x \in Slots(u, f) /\ Ends(u, nr, f, x, v)
      BY <1>5, <2>1 DEF Ends, RowSet
    <3> QED
      BY <1>4, <1>11, <3>1, WalkFinds
  <2>2. ASSUME NEW v \in 0 .. Limit - 1, ~InRow(t, nr, f, i, n, v) PROVE Trans(u, v) = Trans(t, v)
    <3>1. PICK g \in T : \E y \in Slots(t, g) : Ends(t, nr, g, y, v)
      BY WalkEnds
    <3>2. PICK y \in Slots(t, g) : Ends(t, nr, g, y, v)
      BY <3>1
    <3>3. ASSUME Gone(t, nr, f, i, n, g) PROVE FALSE
      <4>1. PICK w \in 0 .. Limit - 1 : InRow(t, nr, f, i, n, w) /\ Nth(t[g].lv - 1, w) = nr[g]
        BY <3>3 DEF Gone
      <4>2. Nth(t[g].lv - 1, v) = nr[g]
        BY <1>3, <3>2, BlockIs DEF Ends
      <4>3. L \in 0 .. Levels /\ t[g].lv - 1 \in 0 .. Levels /\ L <= t[g].lv - 1
        <5>1. t[g].lv > L /\ t[g].lv \in 1 .. Levels
          BY <1>2, <1>3, <3>3 DEF Gone
        <5> QED
          BY <1>3, <5>1
      <4>4. Nth(L, w) = Nth(L, v)
        BY <4>1, <4>2, <4>3, NthUp
      <4> QED
        BY <1>2, <2>2, <4>1, <4>4 DEF InRow
    <3>4. g \in S
      BY <1>1, <3>3
    <3>5. ~(g = f /\ y \in i .. i + n - 1)
      BY <1>3, <2>2, <3>2, RowEntry DEF RowSet, Ends
    <3>6. u[g].ent[y] = t[g].ent[y] /\ u[g].lv = t[g].lv /\ y \in Slots(u, g)
      BY <1>5, <1>6, <3>2, <3>5
    <3>7. Ends(u, nr, g, y, v) /\ Found(u, g, y, v) = Found(t, g, y, v)
      BY <1>5, <3>2, <3>6 DEF Ends, Found
    <3>8. Trans(u, v) = Found(u, g, y, v)
      BY <1>11, <3>4, <3>6, <3>7, WalkFinds
    <3>9. Trans(t, v) = Found(t, g, y, v)
      BY <3>2, WalkFinds
    <3> QED
      BY <3>7, <3>8, <3>9
  <2> QED
    BY <2>1, <2>2 DEF RowFound
<1>13. S \in SUBSET T /\ \A g \in T : g \in S <=> ~Gone(t, nr, f, i, n, g)
  BY <1>1
<1> QED
  BY <1>4, <1>11, <1>12, <1>13

(* A new table below an entry that was empty changes nothing.              *)
TableNew(t, u, p, i, f) ==
  /\ f \notin DOMAIN t /\ f # Root /\ p \in DOMAIN t /\ DOMAIN u = DOMAIN t \cup {f}
  /\ i \in Slots(t, p) /\ t[p].ent[i] = None /\ t[p].lv < Levels
  /\ \A g \in DOMAIN t : u[g].lv = t[g].lv /\ (g # p => u[g] = t[g])
  /\ \A x \in Slots(t, p) : u[p].ent[x] = IF x = i THEN Table(f) ELSE t[p].ent[x]
  /\ u[f].lv = t[p].lv + 1 /\ \A x \in Slots(u, f) : u[f].ent[x] = None

(* A table without entries that is hung into an entry that held nothing    *)
(* changes nothing the GPU finds.                                          *)
LEMMA TableAdded ==
  ASSUME NEW t, NEW u, NEW T, NEW nr, Typed(t), Typed(u), Tree(t, T, nr),
         NEW p \in T, NEW i, NEW f, TableNew(t, u, p, i, f)
  PROVE  \E mr : /\ Tree(u, T \cup {f}, mr) /\ f \notin T
                 /\ mr[f] = Block(t, nr, p, i) /\ \A g \in T : mr[g] = nr[g]
                 /\ \A v \in 0 .. Limit - 1 : Trans(u, v) = Trans(t, v)
<1>1. PICK mr : mr = [g \in T \cup {f} |-> IF g = f THEN Block(t, nr, p, i) ELSE nr[g]]
  OBVIOUS
<1>2. PICK S : S = T \cup {f}
  OBVIOUS
<1>3. /\ Rooted(t, T, nr) /\ Levels \in Nat /\ Limit \in Nat \ {0} /\ f \notin T
      /\ \A g \in T : t[g].lv \in 1 .. Levels /\ g \in DOMAIN t
  BY CoversIs, LimitIs DEF Tree, Rooted, Typed, TableOK, TableNew
<1>4. mr[f] = Block(t, nr, p, i) /\ \A g \in T : mr[g] = nr[g]
  BY <1>1, <1>3
<1>5. \A g \in T : u[g].lv = t[g].lv /\ Slots(u, g) = Slots(t, g) /\ \A x : Block(u, mr, g, x) = Block(t, nr, g, x)
  BY <1>3, <1>4 DEF TableNew, Slots, Block
<1>6. /\ \A g \in T : \A x \in Slots(t, g) : ~(g = p /\ x = i) => u[g].ent[x] = t[g].ent[x]
      /\ u[p].ent[i] = Table(f) /\ t[p].ent[i] = None /\ i \in Slots(t, p)
      /\ u[f].lv = t[p].lv + 1 /\ \A x \in Slots(u, f) : u[f].ent[x] = None
  BY <1>3 DEF TableNew
<1>7. Rooted(u, S, mr)
  <2>1. Block(t, nr, p, i) \in Nat
    <3>1. 0 \in 0 .. Limit - 1
      BY <1>3
    <3> QED
      BY <1>3, <1>6, <3>1, BlockIs
  <2>2. \A g \in S : mr[g] \in Nat
    BY <1>2, <1>3, <1>4, <2>1 DEF Rooted
  <2>3. S \subseteq DOMAIN u
    BY <1>2, <1>3 DEF TableNew
  <2> QED
    BY <1>2, <1>3, <1>4, <1>5, <2>2, <2>3 DEF Rooted
<1>8. Children(u, S, mr)
  <2>1. SUFFICES ASSUME NEW g \in S, NEW x \in Slots(u, g), u[g].ent[x].k = "table"
                 PROVE  /\ u[g].ent[x].at \in S /\ u[u[g].ent[x].at].lv = u[g].lv + 1
                        /\ mr[u[g].ent[x].at] = Block(u, mr, g, x)
    BY DEF Children
  <2>2. g \in T
    BY <1>2, <1>6, <2>1 DEF None
  <2>3. x \in Slots(t, g)
    BY <1>5, <2>2
  <2>4. CASE g = p /\ x = i
    <3>1. u[g].ent[x].at = f
      BY <1>6, <2>4 DEF Table
    <3> QED
      BY <1>2, <1>4, <1>5, <1>6, <2>4, <3>1
  <2>5. CASE ~(g = p /\ x = i)
    <3>1. u[g].ent[x] = t[g].ent[x]
      BY <1>6, <2>2, <2>3, <2>5
    <3>2. PICK c : c = t[g].ent[x].at
      OBVIOUS
    <3>3. c \in T /\ t[c].lv = t[g].lv + 1 /\ nr[c] = Block(t, nr, g, x)
      BY <2>1, <2>2, <2>3, <3>1, <3>2 DEF Tree, Children
    <3> QED
      BY <1>2, <1>4, <1>5, <2>2, <3>1, <3>2, <3>3
  <2> QED
    BY <2>4, <2>5
<1>9. Parents(u, S)
  <2>1. SUFFICES ASSUME NEW c \in S \ {Root} PROVE \E q \in S : \E x \in Slots(u, q) : u[q].ent[x] = Table(c)
    BY DEF Parents
  <2>2. CASE c = f
    BY <1>2, <1>5, <1>6, <2>2
  <2>3. CASE c # f
    <3>1. PICK q \in T : \E x \in Slots(t, q) : t[q].ent[x] = Table(c)
      BY <1>2, <2>3 DEF Tree, Parents
    <3>2. PICK x \in Slots(t, q) : t[q].ent[x] = Table(c)
      BY <3>1
    <3>3. ~(q = p /\ x = i)
      BY <1>6, <3>2 DEF None, Table
    <3> QED
      BY <1>2, <1>5, <1>6, <3>2, <3>3
  <2> QED
    BY <2>2, <2>3
<1>10. \A g \in T : ~(t[g].lv = t[p].lv + 1 /\ nr[g] = Block(t, nr, p, i))
  <2>1. SUFFICES ASSUME NEW g \in T, t[g].lv = t[p].lv + 1, nr[g] = Block(t, nr, p, i) PROVE FALSE
    OBVIOUS
  <2>2. g # Root
    BY <1>3, <2>1 DEF Rooted
  <2>3. PICK q \in T : \E x \in Slots(t, q) : t[q].ent[x] = Table(g)
    BY <2>2 DEF Tree, Parents
  <2>4. PICK x \in Slots(t, q) : t[q].ent[x] = Table(g)
    BY <2>3
  <2>5. t[g].lv = t[q].lv + 1 /\ nr[g] = Block(t, nr, q, x)
    <3>1. t[q].ent[x].k = "table" /\ t[q].ent[x].at = g
      BY <2>4 DEF Table
    <3> QED
      BY <3>1 DEF Tree, Children
  <2>6. t[q].lv = t[p].lv
    BY <1>3, <2>1, <2>5
  <2>7. q = p /\ x = i
    <3>1. PICK n, b, d : n = Cnt[t[p].lv] /\ b = nr[p] /\ d = nr[q]
      OBVIOUS
    <3>2. n \in Nat \ {0} /\ b \in Nat /\ d \in Nat /\ i \in 0 .. n - 1 /\ x \in 0 .. n - 1
      BY <1>3, <1>6, <2>6, <3>1, CoversIs DEF Slots, Rooted
    <3>3. d * n + x = b * n + i
      BY <2>1, <2>5, <2>6, <3>1 DEF Block
    <3>4. d = b /\ x = i
      BY ONLY <3>2, <3>3, PairIs
    <3> QED
      BY <2>6, <3>1, <3>4 DEF Tree, Unique
  <2> QED
    BY <1>6, <2>4, <2>7 DEF None, Table
<1>11. Unique(u, S, mr)
  BY <1>2, <1>4, <1>5, <1>6, <1>10 DEF Tree, Unique
<1>12. Tree(u, S, mr)
  BY <1>7, <1>8, <1>9, <1>11 DEF Tree
<1>13. ASSUME NEW v \in 0 .. Limit - 1 PROVE Trans(u, v) = Trans(t, v)
  <2>1. PICK g \in T : \E y \in Slots(t, g) : Ends(t, nr, g, y, v)
    BY WalkEnds
  <2>2. PICK y \in Slots(t, g) : Ends(t, nr, g, y, v)
    BY <2>1
  <2>3. Trans(t, v) = Found(t, g, y, v)
    BY <2>2, WalkFinds
  <2>4. CASE g = p /\ y = i
    <3>1. f \in S /\ u[f].lv - 1 = t[p].lv /\ Nth(u[f].lv - 1, v) = mr[f]
      <4>1. u[f].lv - 1 = t[p].lv
        BY <1>3, <1>6
      <4>2. Nth(t[p].lv, v) = mr[f]
        BY <1>4, <2>2, <2>4 DEF Ends
      <4> QED
        BY <1>2, <4>1, <4>2
    <3>2. PICK x : x = Idx(u[f].lv, v)
      OBVIOUS
    <3>3. x \in Slots(u, f) /\ Nth(u[f].lv, v) = Block(u, mr, f, x)
      BY <1>7, <3>1, <3>2, BlockIs
    <3>4. Ends(u, mr, f, x, v)
      BY <1>6, <3>3 DEF Ends, None
    <3>5. Trans(u, v) = Found(u, f, x, v)
      BY <1>12, <3>1, <3>3, <3>4, WalkFinds
    <3> QED
      BY <1>6, <2>3, <2>4, <3>3, <3>5 DEF Found, None
  <2>5. CASE ~(g = p /\ y = i)
    <3>1. u[g].ent[y] = t[g].ent[y] /\ u[g].lv = t[g].lv /\ y \in Slots(u, g) /\ g \in S
      BY <1>2, <1>5, <1>6, <2>2, <2>5
    <3>2. Ends(u, mr, g, y, v) /\ Found(u, g, y, v) = Found(t, g, y, v)
      BY <1>5, <2>2, <3>1 DEF Ends, Found
    <3>3. Trans(u, v) = Found(u, g, y, v)
      BY <1>12, <3>1, <3>2, WalkFinds
    <3> QED
      BY <2>3, <3>2, <3>3
  <2> QED
    BY <2>4, <2>5
<1> QED
  BY <1>2, <1>3, <1>4, <1>12, <1>13

(* Nor does giving back a table that is empty.                             *)
TableOut(t, u, p, i, f) ==
  /\ f # Root /\ DOMAIN u = DOMAIN t \ {f}
  /\ i \in Slots(t, p) /\ t[p].ent[i] = Table(f) /\ \A x \in Slots(t, f) : t[f].ent[x] = None
  /\ \A g \in DOMAIN u : u[g].lv = t[g].lv /\ (g # p => u[g] = t[g])
  /\ \A x \in Slots(t, p) : u[p].ent[x] = IF x = i THEN None ELSE t[p].ent[x]

(* Nor does taking an empty one out.                                       *)
LEMMA TableDropped ==
  ASSUME NEW t, NEW u, NEW T, NEW nr, Typed(t), Typed(u), Tree(t, T, nr),
         NEW p \in T, NEW f \in T, p # f, NEW i, TableOut(t, u, p, i, f)
  PROVE  Tree(u, T \ {f}, nr) /\ \A v \in 0 .. Limit - 1 : Trans(u, v) = Trans(t, v)
<1>1. PICK S : S = T \ {f}
  OBVIOUS
<1>2. /\ Rooted(t, T, nr) /\ Levels \in Nat /\ Limit \in Nat \ {0}
      /\ \A g \in T : t[g].lv \in 1 .. Levels /\ g \in DOMAIN t
      /\ S \subseteq T /\ f # Root /\ p \in S /\ S \subseteq DOMAIN u
  BY <1>1, CoversIs, LimitIs DEF Tree, Rooted, Typed, TableOK, TableOut
<1>3. \A g \in S : u[g].lv = t[g].lv /\ Slots(u, g) = Slots(t, g) /\ \A x : Block(u, nr, g, x) = Block(t, nr, g, x)
  BY <1>2 DEF TableOut, Slots, Block
<1>4. /\ \A g \in S : \A x \in Slots(t, g) : ~(g = p /\ x = i) => u[g].ent[x] = t[g].ent[x]
      /\ u[p].ent[i] = None /\ t[p].ent[i] = Table(f) /\ i \in Slots(t, p)
      /\ \A x \in Slots(t, f) : t[f].ent[x] = None
  BY <1>2 DEF TableOut
<1>5. t[f].lv = t[p].lv + 1 /\ nr[f] = Block(t, nr, p, i)
  <2>1. t[p].ent[i].k = "table" /\ t[p].ent[i].at = f
    BY <1>4 DEF Table
  <2> QED
    BY <1>4, <2>1 DEF Tree, Children
<1>6. Rooted(u, S, nr)
  BY <1>1, <1>2, <1>3 DEF Rooted
<1>7. Children(u, S, nr)
  <2>1. SUFFICES ASSUME NEW g \in S, NEW x \in Slots(t, g), u[g].ent[x].k = "table"
                 PROVE  /\ u[g].ent[x].at \in S /\ u[u[g].ent[x].at].lv = u[g].lv + 1
                        /\ nr[u[g].ent[x].at] = Block(u, nr, g, x)
    BY <1>3 DEF Children
  <2>2. ~(g = p /\ x = i)
    BY <1>4, <2>1 DEF None
  <2>3. u[g].ent[x] = t[g].ent[x] /\ g \in T
    BY <1>2, <1>4, <2>1, <2>2
  <2>4. PICK c : c = t[g].ent[x].at
    OBVIOUS
  <2>5. c \in T /\ t[c].lv = t[g].lv + 1 /\ nr[c] = Block(t, nr, g, x)
    BY <2>1, <2>3, <2>4 DEF Tree, Children
  <2>6. c # f
    <3>1. SUFFICES ASSUME c = f PROVE FALSE
      OBVIOUS
    <3>2. t[g].lv = t[p].lv
      BY <1>2, <1>5, <2>3, <2>5, <3>1
    <3>3. PICK n, b, d : n = Cnt[t[p].lv] /\ b = nr[p] /\ d = nr[g]
      OBVIOUS
    <3>4. n \in Nat \ {0} /\ b \in Nat /\ d \in Nat /\ i \in 0 .. n - 1 /\ x \in 0 .. n - 1
      BY <1>2, <1>4, <2>3, <3>2, <3>3, CoversIs DEF Slots, Rooted
    <3>5. d * n + x = b * n + i
      BY <1>5, <2>5, <3>1, <3>2, <3>3 DEF Block
    <3>6. d = b /\ x = i
      BY ONLY <3>4, <3>5, PairIs
    <3>7. g = p
      BY <2>3, <3>2, <3>3, <3>6 DEF Tree, Unique
    <3> QED
      BY <2>2, <3>6, <3>7
  <2> QED
    BY <1>1, <1>3, <2>3, <2>4, <2>5, <2>6
<1>8. Parents(u, S)
  <2>1. SUFFICES ASSUME NEW c \in S \ {Root} PROVE \E q \in S : \E x \in Slots(u, q) : u[q].ent[x] = Table(c)
    BY DEF Parents
  <2>2. PICK q \in T : \E x \in Slots(t, q) : t[q].ent[x] = Table(c)
    BY <1>1 DEF Tree, Parents
  <2>3. PICK x \in Slots(t, q) : t[q].ent[x] = Table(c)
    BY <2>2
  <2>4. q # f
    BY <1>4, <2>3 DEF None, Table
  <2>5. ~(q = p /\ x = i)
    BY <1>1, <1>4, <2>3 DEF Table
  <2>6. q \in S /\ x \in Slots(u, q) /\ u[q].ent[x] = Table(c)
    BY <1>1, <1>3, <1>4, <2>3, <2>4, <2>5
  <2> QED
    BY <2>6
<1>9. Unique(u, S, nr)
  BY <1>2, <1>3 DEF Tree, Unique
<1>10. Tree(u, S, nr)
  BY <1>6, <1>7, <1>8, <1>9 DEF Tree
<1>11. ASSUME NEW v \in 0 .. Limit - 1 PROVE Trans(u, v) = Trans(t, v)
  <2>1. PICK g \in T : \E y \in Slots(t, g) : Ends(t, nr, g, y, v)
    BY WalkEnds
  <2>2. PICK y \in Slots(t, g) : Ends(t, nr, g, y, v)
    BY <2>1
  <2>3. Trans(t, v) = Found(t, g, y, v)
    BY <2>2, WalkFinds
  <2>4. CASE g = f
    <3>1. Nth(t[p].lv, v) = Block(u, nr, p, i) /\ i \in Slots(u, p) /\ u[p].lv = t[p].lv
      <4>1. Nth(t[f].lv - 1, v) = nr[f]
        BY <1>2, <2>2, <2>4, BlockIs DEF Ends
      <4>2. t[f].lv - 1 = t[p].lv
        BY <1>2, <1>5
      <4> QED
        BY <1>2, <1>3, <1>4, <1>5, <4>1, <4>2
    <3>2. Ends(u, nr, p, i, v)
      BY <1>4, <3>1 DEF Ends, None
    <3>3. Trans(u, v) = Found(u, p, i, v)
      BY <1>2, <1>10, <3>1, <3>2, WalkFinds
    <3> QED
      BY <1>4, <2>2, <2>3, <2>4, <3>3 DEF Found, None
  <2>5. CASE g # f
    <3>1. ~(g = p /\ y = i)
      BY <1>4, <2>2 DEF Ends, Table
    <3>2. u[g].ent[y] = t[g].ent[y] /\ u[g].lv = t[g].lv /\ y \in Slots(u, g) /\ g \in S
      BY <1>1, <1>3, <1>4, <2>2, <2>5, <3>1
    <3>3. Ends(u, nr, g, y, v) /\ Found(u, g, y, v) = Found(t, g, y, v)
      BY <1>3, <2>2, <3>2 DEF Ends, Found
    <3>4. Trans(u, v) = Found(u, g, y, v)
      BY <1>10, <3>2, <3>3, WalkFinds
    <3> QED
      BY <2>3, <3>3, <3>4
  <2> QED
    BY <2>4, <2>5
<1> QED
  BY <1>1, <1>10, <1>11

-----------------------------------------------------------------------------
(* The invariant, part by part.  Ranges of a pool are apart.               *)
InRange(r, v) == r.at <= v /\ v < r.at + r.len

PoolOK(S, pool) ==
  /\ \A r \in S : r \in [at : Nat, len : Nat \ {0}] /\ r.at + r.len <= pool
  /\ \A r, s \in S : r # s => r.at + r.len <= s.at \/ s.at + s.len <= r.at

(* Who holds a virtual range, and physical ranges for it: the mappings,    *)
(* and the call that runs.                                                 *)
Busy(o) == o.kind \in {"alloc", "check", "map", "unmap", "reserve"}
Holder(va, size, ps) == [va |-> va, size |-> size, ps |-> ps]
Held(M) == {Holder(m.va, m.size, m.paddrs) : m \in M}
Mine(o) == Holder(o.va, o.size, o.got)
Holding(M, o) == Held(M) \cup (IF Busy(o) THEN {Mine(o)} ELSE {})

Space(h) == [at |-> h.va, len |-> h.size]
InVA(h, v) == h.va <= v /\ v < h.va + h.size
InPA(h, p) == \E j \in DOMAIN h.ps : InRange(h.ps[j], p)

HeldOK(H, S, P) ==
  /\ \A h \in H : /\ h.va \in Nat /\ h.size \in Nat \ {0} /\ Space(h) \in S
                  /\ RangesOf(h.ps) /\ \A j \in DOMAIN h.ps : h.ps[j] \in P
  /\ \A g, h \in H : g.va = h.va => g = h
  /\ \A g, h \in H : \A j \in DOMAIN g.ps : \A k \in DOMAIN h.ps : g.ps[j] = h.ps[k] => g = h /\ j = k

MapsOK(M, o) ==
  /\ \A m, n \in M : m.va = n.va => m = n
  /\ Busy(o) => \A m \in M : m.va # o.va

(* What the GPU finds, at every page.                                      *)
Tr == [v \in 0 .. Limit - 1 |-> Trans(tab, v)]

Owned(P, p) == \E r \in P : InRange(r, p)

Exact(F, H, P) ==
  /\ \A v \in 0 .. VaPool - 1 : F[v].k = "page" =>
       /\ F[v].at \in Nat /\ F[v] = Page(F[v].at) /\ Owned(P, F[v].at)
       /\ \A h \in H : /\ InVA(h, v) => Behind(h.ps, v - h.va, F[v].at)
                       /\ ~InVA(h, v) => ~InPA(h, F[v].at)
  /\ \A v, w \in 0 .. VaPool - 1 : F[v].k = "page" /\ F[v] = F[w] => v = w

Complete(F, M) == \A m \in M : \A v \in m.va .. m.va + m.size - 1 : F[v].k = "page"

Blank(F, M) == M = {} /\ \A v \in 0 .. VaPool - 1 : F[v].k # "page"

(* A page entry maps no more than one range that is allocated.             *)
LeafIn(t, nr, S, f, x) ==
  \E s \in S : \A v \in Nat : Nth(t[f].lv, v) = Block(t, nr, f, x) => InRange(s, v)

Leaves(t, T, nr, S) ==
  \A f \in T : \A x \in Slots(t, f) : t[f].ent[x].k = "page" => LeafIn(t, nr, S, f, x)

(* How far the call has come.                                              *)
IsCall(o) ==
  o = [kind |-> o.kind, va |-> o.va, size |-> o.size, got |-> o.got, rng |-> o.rng, left |-> o.left,
       stack |-> o.stack, at |-> o.at, todo |-> o.todo, off |-> o.off, up |-> o.up]

Shape(o) ==
  /\ IsCall(o)
  /\ o.va \in Nat /\ o.size \in Nat \ {0} /\ RangesOf(o.got) /\ o.rng \in Nat
  /\ o.at \in Nat /\ o.va <= o.at /\ o.todo \in Int /\ o.off \in Nat /\ o.up \in BOOLEAN

Total(rs) == Starts(rs)[Len(rs) + 1]

Clean(F, o) == \A v \in o.va .. o.va + o.size - 1 : F[v].k # "page"

(* The range that is being mapped is the j-th.                             *)
MapAt(o, j) ==
  /\ j \in 0 .. Len(o.got)
  /\ Len(o.left) = Len(o.got) - j /\ o.left \in Seq([at : Nat, len : Nat])
  /\ \A k \in 1 .. Len(o.left) : o.left[k] = o.got[j + k]
  /\ o.at + o.todo = o.va + Starts(o.got)[j + 1]
  /\ j = 0 => o.todo = 0
  /\ j # 0 => o.rng = o.got[j].at /\ o.off + o.todo = o.got[j].len

OpOK(o, F, G) ==
  /\ Busy(o) \/ o = Idle
  /\ Busy(o) => Shape(o) /\ (o.kind = "reserve" <=> G = {})
  /\ o.kind = "alloc" => /\ o.rng \in 1 .. Len(Ranges) /\ o.todo >= 0
                         /\ Total(o.got) + o.todo = o.size /\ Clean(F, o) /\ o.at = o.va
  /\ o.kind = "check" => /\ Total(o.got) = o.size /\ o.at + o.todo = o.va + o.size
                         /\ o.at < VaPool + Covers[1] /\ Clean(F, o)
  /\ o.kind = "map" => /\ Total(o.got) = o.size /\ o.todo >= 0 /\ \E j \in Nat : MapAt(o, j)
                       /\ \A v \in o.va .. o.va + o.size - 1 : F[v].k = "page" <=> v < o.at
  /\ o.kind = "unmap" => /\ o.at + o.todo = o.va + o.size /\ o.todo >= 0
                         /\ \A v \in o.va .. o.va + o.size - 1 : F[v].k = "page" <=> v >= o.at
  /\ o.kind = "reserve" => o.at = o.va /\ o.todo = Reserved /\ o.size = Reserved /\ ~o.up /\ o.got = <<>>

(* The stack leads from the root to the page the walk has reached.         *)
Spots == [t : Frames \cup {Root}, i : Nat]
Stacks == Seq(Spots)

Stacked(t, T, nr, st, at) ==
  /\ st \in Stacks /\ Len(st) \in Nat \ {0} /\ st[1].t = Root
  /\ \A k \in 1 .. Len(st) : st[k].t \in T /\ t[st[k].t].lv = k /\ st[k].i \in 0 .. Cnt[k]
  /\ \A k \in 1 .. Len(st) - 1 : st[k].i < Cnt[k] /\ t[st[k].t].ent[st[k].i] = Table(st[k + 1].t)
  /\ Block(t, nr, st[Len(st)].t, st[Len(st)].i) = Nth(Len(st), at)

Walking(t, T, nr, o) ==
  Busy(o) => /\ Stacked(t, T, nr, o.stack, o.at) /\ o.at < Limit
             /\ ~o.up => o.stack[Len(o.stack)].i < Cnt[Len(o.stack)]

(* No table outlives its pages: below each, but those a walk is about to   *)
(* fill or to give back, there is a page, or one that a call has lost.     *)
Lost(S, H, v) == \E s \in S : InRange(s, v) /\ \A h \in H : h.va # s.at

Anchor(t, nr, F, S, H, f) ==
  \E v \in 0 .. VaPool - 1 : Nth(t[f].lv - 1, v) = nr[f] /\ (F[v].k = "page" \/ Lost(S, H, v))

Exempt(o, f) ==
  /\ Busy(o) /\ \E k \in 1 .. Len(o.stack) : o.stack[k].t = f
  /\ \/ o.kind = "reserve"
     \/ o.kind = "map" /\ ~o.up /\ o.todo > 0
     \/ o.kind = "unmap" /\ (o.up \/ o.todo > 0)

Anchored(t, T, nr, F, S, H, o) == \A f \in T \ {Root} : Exempt(o, f) \/ Anchor(t, nr, F, S, H, f)

Fresh(M, st) == st \subseteq Nat /\ \A m \in M : \A v \in st : ~InVA(m, v)

InvAt(T, nr) ==
  /\ Typed(tab) /\ Tree(tab, T, nr)
  /\ PoolOK(spaces, VaPool) /\ PoolOK(parts, PaPool)
  /\ HeldOK(Holding(maps, op), spaces, parts) /\ MapsOK(maps, op)
  /\ Exact(Tr, Holding(maps, op), parts) /\ Complete(Tr, maps)
  /\ given = {} => Blank(Tr, maps)
  /\ Leaves(tab, T, nr, spaces)
  /\ OpOK(op, Tr, given)
  /\ Walking(tab, T, nr, op)
  /\ Anchored(tab, T, nr, Tr, spaces, Holding(maps, op), op)
  /\ Fresh(maps, stale)

Inv == \E T, nr : InvAt(T, nr)

-----------------------------------------------------------------------------
(* What the invariant says of the run's properties.                        *)
LEMMA RangesApart ==
  ASSUME NEW S, NEW pool, PoolOK(S, pool), NEW r \in S, NEW s \in S, NEW v, InRange(r, v), InRange(s, v), v \in Nat
  PROVE  r = s
<1>1. r.at \in Nat /\ r.len \in Nat /\ s.at \in Nat /\ s.len \in Nat
  BY DEF PoolOK
<1> QED
  BY <1>1 DEF PoolOK, InRange

(* A page is found through an entry whose range lies in one allocated.     *)
LEMMA PageSpace ==
  ASSUME NEW t, NEW T, NEW nr, NEW S, Typed(t), Tree(t, T, nr), Leaves(t, T, nr, S),
         NEW v \in 0 .. Limit - 1, Trans(t, v).k = "page"
  PROVE  \E s \in S : InRange(s, v)
<1>1. PICK f \in T : \E x \in Slots(t, f) : Ends(t, nr, f, x, v)
  BY WalkEnds
<1>2. PICK x \in Slots(t, f) : Ends(t, nr, f, x, v)
  BY <1>1
<1>3. Trans(t, v) = Found(t, f, x, v)
  BY <1>2, WalkFinds
<1>4. t[f].ent[x].k = "page"
  BY <1>3 DEF Found
<1>5. LeafIn(t, nr, S, f, x)
  BY <1>4 DEF Leaves
<1>6. v \in Nat
  BY LimitIs
<1> QED
  BY <1>2, <1>5, <1>6 DEF LeafIn, Ends

(* Where an entry is a page, or nothing, the GPU finds that.               *)
LEMMA EntryFound ==
  ASSUME NEW t, NEW T, NEW nr, Typed(t), Tree(t, T, nr), NEW f \in T, NEW x \in Slots(t, f),
         NEW v \in 0 .. Limit - 1, Nth(t[f].lv, v) = Block(t, nr, f, x)
  PROVE  /\ t[f].ent[x].k = "page" => Trans(t, v) = Page(t[f].ent[x].at + (v % Covers[t[f].lv])) /\ Trans(t, v).k = "page"
         /\ t[f].ent[x].k = "none" => Trans(t, v).k = "none"
<1>1. t[f].ent[x].k = "table" \/ Trans(t, v) = Found(t, f, x, v)
  BY WalkFinds DEF Ends
<1> QED
  BY <1>1 DEF Found, Page

(* The pages of the pool are below the limit.                              *)
LEMMA PoolBelow == \A v \in 0 .. VaPool - 1 : v \in 0 .. Limit - 1 /\ v \in Nat /\ Tr[v] = Trans(tab, v) /\ Translate(v) = Tr[v]
<1>1. VaPool \in Nat /\ Limit \in Nat /\ VaPool <= Limit
  BY LimitIs, PoolAssumption
<1> QED
  BY <1>1, TransIsTranslate DEF Tr

(* The pages of a range that is held are pages of the pool.                *)
LEMMA HeldBelow ==
  ASSUME NEW H, NEW S, NEW P, HeldOK(H, S, P), PoolOK(S, VaPool), NEW h \in H
  PROVE  /\ h.va \in Nat /\ h.size \in Nat \ {0} /\ h.va + h.size <= VaPool
         /\ \A v \in h.va .. h.va + h.size - 1 : v \in 0 .. VaPool - 1 /\ InVA(h, v)
<1>1. h.va \in Nat /\ h.size \in Nat \ {0} /\ Space(h) \in S
  BY DEF HeldOK
<1>2. Space(h).at = h.va /\ Space(h).len = h.size
  BY DEF Space
<1>3. h.va + h.size <= VaPool
  BY <1>1, <1>2 DEF PoolOK
<1> QED
  BY <1>1, <1>3, PoolAssumption DEF InVA

(* Each mapping holds its ranges.                                          *)
LEMMA MapHeld ==
  ASSUME NEW M, NEW o, NEW m \in M
  PROVE  \E h \in Holding(M, o) : h = Holder(m.va, m.size, m.paddrs) /\ h.va = m.va /\ h.size = m.size /\ h.ps = m.paddrs
<1>1. Holder(m.va, m.size, m.paddrs) \in Holding(M, o)
  BY DEF Holding, Held
<1>2. PICK h : h = Holder(m.va, m.size, m.paddrs)
  OBVIOUS
<1>3. h.va = m.va /\ h.size = m.size /\ h.ps = m.paddrs
  BY <1>2 DEF Holder
<1> QED
  BY <1>1, <1>2, <1>3

(* So does the call that runs.                                             *)
LEMMA OpHeld ==
  ASSUME NEW M, NEW o, Busy(o)
  PROVE  \E h \in Holding(M, o) : h = Holder(o.va, o.size, o.got) /\ h.va = o.va /\ h.size = o.size /\ h.ps = o.got
<1>1. Holder(o.va, o.size, o.got) \in Holding(M, o)
  BY DEF Holding, Mine
<1>2. PICK h : h = Holder(o.va, o.size, o.got)
  OBVIOUS
<1>3. h.va = o.va /\ h.size = o.size /\ h.ps = o.got
  BY <1>2 DEF Holder
<1> QED
  BY <1>1, <1>2, <1>3

(* The invariant gives the types ...                                       *)
LEMMA InvGivesTypes == Inv => TypeOK
<1>1. SUFFICES ASSUME NEW T, NEW nr, InvAt(T, nr) PROVE TypeOK
  BY DEF Inv
<1>2. Typed(tab) /\ Root \in DOMAIN tab
  BY <1>1 DEF InvAt, Tree, Rooted
<1>3. ASSUME NEW f \in DOMAIN tab, NEW x \in 0 .. Cnt[tab[f].lv] - 1
      PROVE  LET e == tab[f].ent[x] IN
               \/ e = None
               \/ e.k = "page" /\ e.at \in 0 .. PaPool - Covers[tab[f].lv] /\ e.at % Covers[tab[f].lv] = 0
               \/ e.k = "table" /\ tab[f].lv < Levels
  <2>1. EntryOK(tab[f].lv, tab[f].ent[x])
    BY <1>2 DEF Typed, TableOK
  <2>2. CASE \E p \in 0 .. PaPool - Covers[tab[f].lv] : tab[f].ent[x] = Page(p) /\ p % Covers[tab[f].lv] = 0
    BY <2>2 DEF Page
  <2>3. CASE tab[f].lv < Levels /\ \E g \in Frames : tab[f].ent[x] = Table(g)
    BY <2>3 DEF Table
  <2> QED
    BY <2>1, <2>2, <2>3 DEF EntryOK
<1>4. \A f \in DOMAIN tab : tab[f].lv \in 1 .. Levels
  BY <1>2 DEF Typed, TableOK
<1>5. DOMAIN tab \subseteq Frames \cup {Root}
  BY <1>2 DEF Typed
<1> QED
  BY <1>2, <1>3, <1>4, <1>5 DEF TypeOK

(* ... that the GPU finds each page of a mapping ...                       *)
LEMMA InvGivesMaps == Inv => MapsExact
<1>1. SUFFICES ASSUME NEW T, NEW nr, InvAt(T, nr), NEW m \in maps, NEW x \in 0 .. m.size - 1
               PROVE  Translate(m.va + x).k = "page" /\ Behind(m.paddrs, x, Translate(m.va + x).at)
  BY DEF Inv, MapsExact
<1>2. PICK H : H = Holding(maps, op)
  OBVIOUS
<1>3. HeldOK(H, spaces, parts) /\ PoolOK(spaces, VaPool) /\ Exact(Tr, H, parts) /\ Complete(Tr, maps)
  BY <1>1, <1>2 DEF InvAt
<1>4. PICK h \in H : h.va = m.va /\ h.size = m.size /\ h.ps = m.paddrs
  BY <1>2, MapHeld
<1>5. PICK v : v = m.va + x
  OBVIOUS
<1>6. v \in m.va .. m.va + m.size - 1 /\ v \in 0 .. VaPool - 1 /\ InVA(h, v) /\ v - m.va = x
  <2>1. h.va \in Nat /\ h.size \in Nat
    BY <1>3, <1>4, HeldBelow
  <2>2. v \in h.va .. h.va + h.size - 1 /\ v - m.va = x
    BY <1>4, <1>5, <2>1
  <2> QED
    BY <1>3, <1>4, <2>2, HeldBelow
<1>7. Tr[v].k = "page"
  BY <1>3, <1>6 DEF Complete
<1>8. Behind(h.ps, v - h.va, Tr[v].at)
  BY <1>3, <1>4, <1>6, <1>7 DEF Exact
<1>9. Translate(v) = Tr[v]
  BY <1>6, PoolBelow
<1> QED
  BY <1>4, <1>5, <1>6, <1>7, <1>8, <1>9

(* ... in memory that is allocated, and only there ...                     *)
LEMMA InvGivesOwned == Inv => ReachesOwned
<1>1. SUFFICES ASSUME NEW T, NEW nr, InvAt(T, nr) PROVE ReachesOwned
  BY DEF Inv
<1>2. PICK H : Exact(Tr, H, parts) /\ PoolOK(parts, PaPool)
  BY <1>1 DEF InvAt
<1>3. \A v \in Mapped : v \in 0 .. VaPool - 1 /\ Tr[v].k = "page" /\ Translate(v) = Tr[v]
  BY PoolBelow DEF Mapped
<1>4. ASSUME NEW v \in Mapped PROVE Translate(v).at \in UNION {Pages(r) : r \in parts}
  <2>1. PICK r \in parts : InRange(r, Tr[v].at) /\ Tr[v].at \in Nat
    BY <1>2, <1>3 DEF Exact, Owned
  <2>2. r.at \in Nat /\ r.len \in Nat
    BY <1>2 DEF PoolOK
  <2>3. Tr[v].at \in Pages(r)
    BY <2>1, <2>2 DEF Pages, InRange
  <2> QED
    BY <1>3, <2>3
<1>5. ASSUME NEW v \in Mapped, NEW w \in Mapped, Translate(v) = Translate(w) PROVE v = w
  BY <1>2, <1>3, <1>5 DEF Exact
<1> QED
  BY <1>4, <1>5 DEF ReachesOwned

(* ... that nothing is mapped in a range that is free ...                  *)
LEMMA InvGivesFreed == Inv => FreedUnmapped
<1>1. SUFFICES ASSUME NEW T, NEW nr, InvAt(T, nr), NEW v \in Mapped PROVE v \in UNION {Pages(r) : r \in spaces}
  BY DEF Inv, FreedUnmapped
<1>2. v \in 0 .. Limit - 1 /\ v \in Nat /\ Trans(tab, v).k = "page"
  BY PoolBelow DEF Mapped
<1>3. PICK s \in spaces : InRange(s, v)
  BY <1>1, <1>2, PageSpace DEF InvAt
<1>4. s.at \in Nat /\ s.len \in Nat
  BY <1>1 DEF InvAt, PoolOK
<1>5. v \in Pages(s)
  BY <1>2, <1>3, <1>4 DEF Pages, InRange
<1> QED
  BY <1>5

(* ... that no assertion has failed, and that no mapping is stale.         *)
LEMMA InvGivesRest == Inv => NeverRaises /\ NeverStale
<1>1. SUFFICES ASSUME NEW T, NEW nr, InvAt(T, nr) PROVE NeverRaises /\ NeverStale
  BY DEF Inv
<1>2. NeverRaises
  BY <1>1 DEF InvAt, OpOK, Busy, Idle, NeverRaises
<1>3. NeverStale
  <2>1. SUFFICES ASSUME NEW m \in maps, NEW v \in stale, v \in m.va .. m.va + m.size - 1 PROVE FALSE
    BY DEF NeverStale
  <2>2. PICK H : H = Holding(maps, op) /\ HeldOK(H, spaces, parts) /\ PoolOK(spaces, VaPool)
    BY <1>1 DEF InvAt
  <2>3. PICK h \in H : h.va = m.va /\ h.size = m.size
    BY <2>2, MapHeld
  <2>4. InVA(h, v)
    BY <2>1, <2>2, <2>3, HeldBelow
  <2> QED
    BY <1>1, <2>3, <2>4 DEF InvAt, Fresh, InVA
<1> QED
  BY <1>2, <1>3

-----------------------------------------------------------------------------
(* Rows of entries, and steps over them.                                   *)

(* The walk moves on by n entries of level l.                              *)
LEMMA NthPlus ==
  ASSUME NEW l \in 1 .. Levels, NEW a \in Nat, NEW n \in Nat
  PROVE  n * Covers[l] \in Nat /\ Nth(l, a + n * Covers[l]) = Nth(l, a) + n /\ Nth(l, a) \in Nat
<1>1. PICK c, q : c = Covers[l] /\ q = a \div c
  OBVIOUS
<1>2. c \in Nat \ {0} /\ l # 0
  BY <1>1, CoversIs
<1>3. q \in Nat /\ q * c \in Nat /\ q * c <= a /\ a < q * c + c
  BY <1>1, <1>2, Quotient
<1>4. (q + n) * c = q * c + n * c /\ n * c \in Nat /\ q + n \in Nat
  BY <1>2, <1>3
<1>5. PICK p \in Nat : p = a + n * c
  BY <1>4
<1>6. (q + n) * c <= p /\ p < (q + n) * c + c
  BY <1>2, <1>3, <1>4, <1>5
<1>7. p \div c = q + n
  BY <1>2, <1>4, <1>6, DivIs
<1> QED
  BY <1>1, <1>2, <1>3, <1>4, <1>5, <1>7 DEF Nth

(* A page that lies under a later entry lies further on, and one under the *)
(* last of n entries no more than n entries on.                            *)
LEMMA NthWithin ==
  ASSUME NEW l \in 1 .. Levels, NEW a \in Nat, NEW v \in Nat, NEW n \in Nat
  PROVE  /\ Nth(l, a) \in Nat /\ Nth(l, v) \in Nat /\ n * Covers[l] \in Nat
         /\ Nth(l, a) < Nth(l, v) => a < v
         /\ Nth(l, v) < Nth(l, a) + n => v < a + n * Covers[l]
<1>1. PICK c, q, r : c = Covers[l] /\ q = a \div c /\ r = v \div c
  OBVIOUS
<1>2. c \in Nat \ {0} /\ l # 0
  BY <1>1, CoversIs
<1>3. q \in Nat /\ q * c \in Nat /\ q * c <= a /\ a < q * c + c
  BY <1>1, <1>2, Quotient
<1>4. r \in Nat /\ r * c \in Nat /\ r * c <= v /\ v < r * c + c
  BY <1>1, <1>2, Quotient
<1>5. n * c \in Nat
  BY <1>2
<1>6. q < r => a < v
  <2>1. SUFFICES ASSUME q < r PROVE a < v
    OBVIOUS
  <2>2. q + 1 \in Nat /\ q + 1 <= r
    BY <1>3, <1>4, <2>1
  <2>3. (q + 1) * c <= r * c /\ (q + 1) * c \in Nat
    BY <1>2, <1>4, <2>2, TimesGrows
  <2>4. (q + 1) * c = q * c + c
    BY <1>2, <1>3
  <2> QED
    BY <1>2, <1>3, <1>4, <2>3, <2>4
<1>7. r < q + n => v < a + n * c
  <2>1. SUFFICES ASSUME r < q + n PROVE v < a + n * c
    OBVIOUS
  <2>2. r + 1 \in Nat /\ q + n \in Nat /\ r + 1 <= q + n
    BY <1>3, <1>4, <2>1
  <2>3. (r + 1) * c <= (q + n) * c /\ (r + 1) * c \in Nat /\ (q + n) * c \in Nat
    BY <1>2, <2>2, TimesGrows
  <2>4. (r + 1) * c = r * c + c /\ (q + n) * c = q * c + n * c
    BY <1>2, <1>3, <1>4
  <2> QED
    BY <1>2, <1>3, <1>4, <1>5, <2>3, <2>4
<1> QED
  BY <1>1, <1>2, <1>3, <1>4, <1>5, <1>6, <1>7 DEF Nth

(* An entry of the root covers at least what one of a lower level does.    *)
LEMMA CoversFall == \A l \in 1 .. Levels : Covers[l] <= Covers[1]
<1>1. Levels \in Nat /\ Levels >= 3
  BY CoversIs
<1> DEFINE Odd == {d \in Nat : d + 1 <= Levels /\ ~(Covers[d + 1] <= Covers[1])}
<1>2. Odd = {}
  <2>1. SUFFICES ASSUME Odd # {} PROVE FALSE
    OBVIOUS
  <2>2. PICK d \in Odd : d \in Nat /\ (d # 0 => d - 1 \in Nat \ Odd)
    <3>1. Odd \in SUBSET Nat
      OBVIOUS
    <3> HIDE DEF Odd
    <3> QED
      BY <2>1, <3>1, Least
  <2>3. d + 1 <= Levels /\ ~(Covers[d + 1] <= Covers[1])
    OBVIOUS
  <2>4. d # 0
    <3>1. Covers[1] \in Nat
      BY <1>1, CoversIs
    <3> QED
      BY <2>3, <3>1
  <2>5. d - 1 \in Nat /\ d - 1 \notin Odd
    <3> HIDE DEF Odd
    <3> QED
      BY <2>2, <2>4
  <2>6. Covers[d] <= Covers[1]
    <3>1. (d - 1) + 1 = d /\ d <= Levels
      BY <1>1, <2>2, <2>3
    <3>2. (d - 1) + 1 <= Levels => Covers[(d - 1) + 1] <= Covers[1]
      BY <2>5
    <3> QED
      BY <3>1, <3>2
  <2>7. PICK n, c : n = Cnt[d + 1] /\ c = Covers[d + 1]
    OBVIOUS
  <2>8. n \in Nat \ {0} /\ c \in Nat /\ Covers[d] = n * c /\ Covers[1] \in Nat
    BY <1>1, <2>2, <2>3, <2>4, <2>7, CoversIs
  <2>9. 1 * c <= n * c
    BY <2>8, TimesGrows
  <2> QED
    BY <2>3, <2>6, <2>7, <2>8, <2>9
<1>3. SUFFICES ASSUME NEW l \in 1 .. Levels PROVE Covers[l] <= Covers[1]
  OBVIOUS
<1>4. l - 1 \in Nat /\ (l - 1) + 1 = l /\ l - 1 \notin Odd
  <2>1. l - 1 \notin Odd
    BY <1>2, Zenon
  <2> QED
    BY <1>1, <2>1
<1>5. Covers[(l - 1) + 1] <= Covers[1]
  BY <1>1, <1>4
<1> QED
  BY <1>4, <1>5

(* Some page lies under each table of a tree, and under each entry.        *)
LEMMA TableReached ==
  ASSUME NEW t, NEW T, NEW nr, Typed(t), Tree(t, T, nr)
  PROVE  \A f \in T : \E v \in 0 .. Limit - 1 : Nth(t[f].lv - 1, v) = nr[f]
<1>1. Levels \in Nat /\ Limit \in Nat \ {0} /\ \A f \in T : t[f].lv \in 1 .. Levels
  BY CoversIs, LimitIs DEF Typed, TableOK, Tree, Rooted
<1> DEFINE Odd == {d \in Nat : \E f \in T : t[f].lv = d + 1 /\ ~\E v \in 0 .. Limit - 1 : Nth(d, v) = nr[f]}
<1>2. Odd = {}
  <2>1. SUFFICES ASSUME Odd # {} PROVE FALSE
    OBVIOUS
  <2>2. PICK d \in Odd : d \in Nat /\ (d # 0 => d - 1 \in Nat \ Odd)
    <3>1. Odd \in SUBSET Nat
      OBVIOUS
    <3> HIDE DEF Odd
    <3> QED
      BY <2>1, <3>1, Least
  <2>3. PICK f \in T : t[f].lv = d + 1 /\ ~\E v \in 0 .. Limit - 1 : Nth(d, v) = nr[f]
    OBVIOUS
  <2>4. f # Root
    <3>1. SUFFICES ASSUME f = Root PROVE FALSE
      OBVIOUS
    <3>2. t[Root].lv = 1 /\ nr[Root] = 0 /\ 0 \in 0 .. Limit - 1
      BY <1>1 DEF Tree, Rooted
    <3>3. d = 0
      BY <2>2, <2>3, <3>1, <3>2
    <3>4. Nth(d, 0) = 0
      BY <3>3 DEF Nth
    <3> QED
      BY <2>3, <3>1, <3>2, <3>4
  <2>0. PICK p \in T : \E x \in Slots(t, p) : t[p].ent[x] = Table(f)
    BY <2>4 DEF Tree, Parents
  <2>5. PICK x \in Slots(t, p) : t[p].ent[x] = Table(f)
    BY <2>0
  <2>6. t[f].lv = t[p].lv + 1 /\ nr[f] = Block(t, nr, p, x)
    <3>1. t[p].ent[x].k = "table" /\ t[p].ent[x].at = f
      BY <2>5 DEF Table
    <3> QED
      BY <3>1 DEF Tree, Children
  <2>7. t[p].lv = d /\ d # 0 /\ t[p].lv \in 1 .. Levels
    BY <1>1, <2>2, <2>3, <2>6
  <2>8. d - 1 \in Nat /\ d - 1 \notin Odd
    <3> HIDE DEF Odd
    <3> QED
      BY <2>2, <2>7
  <2>9. PICK v \in 0 .. Limit - 1 : Nth(d - 1, v) = nr[p]
    BY <2>7, <2>8
  <2>10. \E u \in 0 .. Limit - 1 : Nth((d - 1) + 1, u) = Nth(d - 1, v) * Cnt[(d - 1) + 1] + x
    <3>1. d - 1 \in 0 .. Levels - 1 /\ (d - 1) + 1 = d
      BY <1>1, <2>2, <2>7
    <3>2. x \in 0 .. Cnt[(d - 1) + 1] - 1
      BY <2>7, <3>1 DEF Slots
    <3> QED
      BY <3>1, <3>2, NthExists
  <2>11. (d - 1) + 1 = d
    BY <2>2
  <2> QED
    BY <2>3, <2>6, <2>7, <2>9, <2>10, <2>11 DEF Block
<1>3. SUFFICES ASSUME NEW f \in T PROVE \E v \in 0 .. Limit - 1 : Nth(t[f].lv - 1, v) = nr[f]
  OBVIOUS
<1>4. PICK d : d = t[f].lv - 1
  OBVIOUS
<1>5. d \in Nat /\ t[f].lv = d + 1
  BY <1>1, <1>4
<1>6. d \notin Odd
  BY <1>2, Zenon
<1> QED
  BY <1>4, <1>5, <1>6

(* Below each entry of a table of the tree there is a page.                *)
LEMMA EntryReached ==
  ASSUME NEW t, NEW T, NEW nr, Typed(t), Tree(t, T, nr), NEW f \in T, NEW x \in Slots(t, f)
  PROVE  \E v \in 0 .. Limit - 1 : Nth(t[f].lv, v) = Block(t, nr, f, x)
<1>1. PICK v \in 0 .. Limit - 1 : Nth(t[f].lv - 1, v) = nr[f]
  BY TableReached
<1>2. t[f].lv - 1 \in 0 .. Levels - 1 /\ (t[f].lv - 1) + 1 = t[f].lv
  BY BlockIs DEF Tree
<1>3. x \in 0 .. Cnt[(t[f].lv - 1) + 1] - 1
  BY <1>2 DEF Slots
<1>4. \E u \in 0 .. Limit - 1 : Nth((t[f].lv - 1) + 1, u) = Nth(t[f].lv - 1, v) * Cnt[(t[f].lv - 1) + 1] + x
  BY <1>2, <1>3, NthExists
<1> QED
  BY <1>1, <1>2, <1>4 DEF Block

-----------------------------------------------------------------------------
(* Who holds what, as calls begin and end.                                 *)
HeldOne(h, S, P) ==
  /\ h.va \in Nat /\ h.size \in Nat \ {0} /\ Space(h) \in S
  /\ RangesOf(h.ps) /\ \A j \in DOMAIN h.ps : h.ps[j] \in P
  /\ \A j, k \in DOMAIN h.ps : h.ps[j] = h.ps[k] => j = k

Apart(G, h) == \A g \in G : g.va # h.va /\ \A j \in DOMAIN g.ps : \A k \in DOMAIN h.ps : g.ps[j] # h.ps[k]

ExactOne(F, h) ==
  \A v \in 0 .. VaPool - 1 : F[v].k = "page" =>
    /\ InVA(h, v) => Behind(h.ps, v - h.va, F[v].at)
    /\ ~InVA(h, v) => ~InPA(h, F[v].at)

(* Who holds ranges while a call runs, and while none does.                *)
LEMMA HoldingIs ==
  ASSUME NEW M, NEW o
  PROVE  /\ Busy(o) => Holding(M, o) = Held(M) \cup {Mine(o)}
         /\ ~Busy(o) => Holding(M, o) = Held(M)
         /\ Held(M) \subseteq Holding(M, o)
BY DEF Holding

(* Without a call the mappings alone hold ranges.                          *)
LEMMA IdleIs == ~Busy(Idle) /\ \A M : Holding(M, Idle) = Held(M)
<1>1. ~Busy(Idle)
  BY DEF Busy, Idle
<1> QED
  BY <1>1, HoldingIs

(* The fields of the holder a call is.                                     *)
LEMMA MineIs ==
  ASSUME NEW o
  PROVE  \E h : h = Mine(o) /\ h.va = o.va /\ h.size = o.size /\ h.ps = o.got /\ Space(h) = [at |-> o.va, len |-> o.size]
<1>1. PICK h : h = Mine(o)
  OBVIOUS
<1>2. h.va = o.va /\ h.size = o.size /\ h.ps = o.got
  BY <1>1 DEF Mine, Holder
<1> QED
  BY <1>1, <1>2 DEF Space

(* The fields of the holder a mapping is.                                  *)
LEMMA HeldIs ==
  ASSUME NEW M
  PROVE  \A h \in Held(M) : \E m \in M : h = Holder(m.va, m.size, m.paddrs) /\ h.va = m.va /\ h.size = m.size /\ h.ps = m.paddrs
BY DEF Held, Holder

(* Fewer holders hold as well.                                             *)
LEMMA HeldPart ==
  ASSUME NEW G, NEW H, NEW S, NEW P, NEW S2, NEW P2, HeldOK(H, S, P), G \subseteq H,
         \A h \in G : Space(h) \in S2, \A h \in G : \A j \in DOMAIN h.ps : h.ps[j] \in P2
  PROVE  HeldOK(G, S2, P2)
BY DEF HeldOK

(* A holder joins others from which it is apart.                           *)
LEMMA HeldJoin ==
  ASSUME NEW G, NEW h, NEW S, NEW P, HeldOK(G, S, P), HeldOne(h, S, P), Apart(G, h)
  PROVE  HeldOK(G \cup {h}, S, P)
<1>1. PICK H : H = G \cup {h}
  OBVIOUS
<1>2. \A g \in H : /\ g.va \in Nat /\ g.size \in Nat \ {0} /\ Space(g) \in S
                   /\ RangesOf(g.ps) /\ \A j \in DOMAIN g.ps : g.ps[j] \in P
  BY <1>1 DEF HeldOK, HeldOne
<1>3. \A f, g \in H : f.va = g.va => f = g
  BY <1>1 DEF HeldOK, Apart
<1>4. ASSUME NEW f \in H, NEW g \in H, NEW j \in DOMAIN f.ps, NEW k \in DOMAIN g.ps, f.ps[j] = g.ps[k]
      PROVE  f = g /\ j = k
  <2>1. CASE f \in G /\ g \in G
    BY <1>4, <2>1 DEF HeldOK
  <2>2. CASE f = h /\ g = h
    BY <1>4, <2>2 DEF HeldOne
  <2>3. CASE f \in G /\ g = h
    BY <1>4, <2>3 DEF Apart
  <2>4. CASE f = h /\ g \in G
    BY <1>4, <2>4 DEF Apart
  <2> QED
    BY <1>1, <2>1, <2>2, <2>3, <2>4
<1> QED
  BY <1>1, <1>2, <1>3, <1>4 DEF HeldOK

(* A holder is apart from those with other virtual ranges.                 *)
LEMMA HeldApart ==
  ASSUME NEW G, NEW h, NEW S, NEW P, HeldOK(G \cup {h}, S, P), \A g \in G : g.va # h.va
  PROVE  HeldOne(h, S, P) /\ Apart(G, h)
<1>1. PICK H : H = G \cup {h}
  OBVIOUS
<1>2. HeldOK(H, S, P) /\ h \in H /\ G \subseteq H
  BY <1>1
<1>3. HeldOne(h, S, P)
  BY <1>2 DEF HeldOK, HeldOne
<1>4. ASSUME NEW g \in G, NEW j \in DOMAIN g.ps, NEW k \in DOMAIN h.ps, g.ps[j] = h.ps[k] PROVE FALSE
  <2>1. g = h
    BY <1>2, <1>4 DEF HeldOK
  <2> QED
    BY <2>1
<1> QED
  BY <1>3, <1>4 DEF Apart

(* What is exact for holders is so for fewer, and with more memory         *)
(* allocated.                                                              *)
LEMMA ExactPart ==
  ASSUME NEW F, NEW G, NEW H, NEW P, NEW P2, Exact(F, H, P), G \subseteq H, P \subseteq P2
  PROVE  Exact(F, G, P2)
BY DEF Exact, Owned

(* Exactness for a holder more.                                            *)
LEMMA ExactJoin ==
  ASSUME NEW F, NEW G, NEW h, NEW P, Exact(F, G, P), ExactOne(F, h)
  PROVE  Exact(F, G \cup {h}, P)
BY DEF Exact, ExactOne

(* Exactness for one of the holders.                                       *)
LEMMA ExactHas == ASSUME NEW F, NEW H, NEW P, Exact(F, H, P), NEW h \in H PROVE ExactOne(F, h)
BY DEF Exact, ExactOne

(* A holder none of whose pages is mapped gives its ranges back.           *)
LEMMA Dropped ==
  ASSUME NEW F, NEW G, NEW h, NEW S, NEW P, NEW S2, NEW P2,
         HeldOK(G \cup {h}, S, P), \A g \in G : g.va # h.va, Exact(F, G \cup {h}, P),
         \A v \in 0 .. VaPool - 1 : InVA(h, v) => F[v].k # "page",
         S2 = S \/ S2 = S \ {Space(h)}, P2 = P \ ToSet(h.ps)
  PROVE  HeldOK(G, S2, P2) /\ Exact(F, G, P2)
<1>1. HeldOne(h, S, P) /\ Apart(G, h)
  BY HeldApart
<1>2. G \subseteq G \cup {h}
  OBVIOUS
<1>3. \A g \in G : Space(g) \in S2
  <2>1. ASSUME NEW g \in G PROVE Space(g) \in S /\ Space(g) # Space(h)
    <3>1. Space(g).at = g.va /\ Space(h).at = h.va
      BY DEF Space
    <3>2. Space(g) \in S
      BY DEF HeldOK
    <3> QED
      BY <3>1, <3>2
  <2> QED
    BY <2>1
<1>4. \A g \in G : \A j \in DOMAIN g.ps : g.ps[j] \in P2
  BY <1>1 DEF Apart, HeldOK, ToSet
<1>5. HeldOK(G, S2, P2)
  BY <1>2, <1>3, <1>4, HeldPart
<1>6. \A v \in 0 .. VaPool - 1 : F[v].k = "page" => Owned(P2, F[v].at)
  <2>1. SUFFICES ASSUME NEW v \in 0 .. VaPool - 1, F[v].k = "page" PROVE Owned(P2, F[v].at)
    OBVIOUS
  <2>2. PICK r \in P : InRange(r, F[v].at)
    BY <2>1 DEF Exact, Owned
  <2>3. ~InPA(h, F[v].at)
    BY <2>1 DEF Exact
  <2>4. r \notin ToSet(h.ps)
    BY <2>2, <2>3 DEF InPA, ToSet
  <2> QED
    BY <2>2, <2>4 DEF Owned
<1>7. Exact(F, G, P2)
  BY <1>6 DEF Exact
<1> QED
  BY <1>5, <1>7

(* Ranges in which there is no page to begin with.                         *)
LEMMA ExactClean ==
  ASSUME NEW F, NEW h, NEW Q, NEW P, PoolOK(P, PaPool), RangesOf(h.ps),
         \A v \in 0 .. VaPool - 1 : F[v].k = "page" => F[v].at \in Nat /\ Owned(Q, F[v].at),
         \A v \in 0 .. VaPool - 1 : InVA(h, v) => F[v].k # "page",
         Q \subseteq P,
         \A j \in DOMAIN h.ps : h.ps[j] \in P \ Q
           \/ \A v \in 0 .. VaPool - 1 : F[v].k = "page" => ~InRange(h.ps[j], F[v].at)
  PROVE  ExactOne(F, h)
<1>1. SUFFICES ASSUME NEW v \in 0 .. VaPool - 1, F[v].k = "page", NEW j \in DOMAIN h.ps, InRange(h.ps[j], F[v].at)
               PROVE  FALSE
  BY DEF ExactOne, InPA
<1>2. PICK r \in Q : InRange(r, F[v].at) /\ F[v].at \in Nat
  BY <1>1 DEF Owned
<1>3. h.ps[j] \in P \ Q
  BY <1>1
<1>4. r = h.ps[j]
  BY <1>1, <1>2, <1>3, RangesApart
<1> QED
  BY <1>2, <1>3, <1>4

(* What an allocator returns is free, and apart from all that is not.      *)
LEMMA PlacesFree ==
  ASSUME NEW pool \in Nat, NEW used, PoolOK(used, pool), NEW len \in Nat \ {0}, NEW align \in Nat \ {0},
         NEW at \in Places(pool, used, len, align)
  PROVE  /\ at \in Nat /\ at + len <= pool
         /\ PoolOK(used \cup {[at |-> at, len |-> len]}, pool)
         /\ [at |-> at, len |-> len] \notin used
         /\ \A r \in used : r.at # at
         /\ \A r \in used : \A v \in Nat : ~(InRange(r, v) /\ at <= v /\ v < at + len)
<1> DEFINE taken == UNION {Pages(r) : r \in used}
<1>1. PICK s \in 0 .. pool - len - align : at = ((s + align - 1) \div align) * align /\ (s .. s + len + align - 1) \cap taken = {}
  BY DEF Places
<1> HIDE DEF taken
<1>2. at \in Nat /\ s <= at /\ at <= s + align - 1
  <2>1. PICK a \in Nat : a = s + align - 1
    BY <1>1
  <2>2. PICK q : q = a \div align
    OBVIOUS
  <2>3. q * align \in Nat /\ q * align <= a /\ a < q * align + align
    BY <2>2, Quotient
  <2> QED
    BY <1>1, <2>1, <2>2, <2>3
<1>3. at + len <= pool
  BY <1>1, <1>2
<1>4. ASSUME NEW r \in used, NEW v \in Nat, InRange(r, v), at <= v, v < at + len PROVE FALSE
  <2>1. r.at \in Nat /\ r.len \in Nat
    BY DEF PoolOK
  <2>2. v \in Pages(r)
    BY <1>4, <2>1 DEF Pages, InRange
  <2>3. v \in taken
    BY <2>2 DEF taken
  <2>4. v \in s .. s + len + align - 1
    BY <1>1, <1>2, <1>4
  <2> QED
    BY <1>1, <2>3, <2>4
<1>5. ASSUME NEW r \in used PROVE r.at # at /\ (r.at + r.len <= at \/ at + len <= r.at)
  <2>1. r.at \in Nat /\ r.len \in Nat /\ r.len # 0
    BY DEF PoolOK
  <2>2. ~(r.at <= at /\ at < r.at + r.len)
    <3>1. SUFFICES ASSUME r.at <= at, at < r.at + r.len PROVE FALSE
      OBVIOUS
    <3>2. InRange(r, at) /\ at <= at /\ at < at + len
      BY <1>2, <3>1 DEF InRange
    <3> QED
      BY <1>2, <1>4, <3>2
  <2>3. ~(at <= r.at /\ r.at < at + len)
    <3>1. SUFFICES ASSUME at <= r.at, r.at < at + len PROVE FALSE
      OBVIOUS
    <3>2. InRange(r, r.at)
      BY <2>1 DEF InRange
    <3> QED
      BY <1>4, <2>1, <3>1, <3>2
  <2> QED
    BY <1>2, <2>1, <2>2, <2>3
<1>6. PICK n : n = [at |-> at, len |-> len]
  OBVIOUS
<1>7. n \in [at : Nat, len : Nat \ {0}] /\ n.at = at /\ n.len = len
  BY <1>2, <1>6
<1>8. PoolOK(used \cup {n}, pool)
  BY <1>3, <1>5, <1>7 DEF PoolOK
<1>9. n \notin used
  BY <1>5, <1>7
<1> QED
  BY <1>2, <1>3, <1>4, <1>5, <1>6, <1>8, <1>9

(* Fewer ranges of a pool are apart as well.                               *)
LEMMA PoolPart == ASSUME NEW S, NEW R, NEW pool, PoolOK(S, pool), R \subseteq S PROVE PoolOK(R, pool)
BY DEF PoolOK

-----------------------------------------------------------------------------
(* The stack of a walk.                                                    *)
LEMMA Begins ==
  ASSUME NEW t, NEW T, NEW nr, Typed(t), Tree(t, T, nr), NEW va \in 0 .. VaPool - 1
  PROVE  Stacked(t, T, nr, Context(va), va) /\ va < Limit /\ Len(Context(va)) = 1 /\ Context(va)[1].i < Cnt[1]
<1>1. PICK st : st = Context(va)
  OBVIOUS
<1>2. Len(st) = 1 /\ st[1].t = Root /\ st[1].i = Idx(1, va) /\ st = <<[t |-> Root, i |-> Idx(1, va)]>>
  BY <1>1 DEF Context
<1>3. va \in 0 .. Limit - 1 /\ va < Limit
  BY LimitIs, PoolAssumption
<1>4. Root \in T /\ t[Root].lv = 1 /\ nr[Root] = 0
  BY DEF Tree, Rooted
<1>5. Cnt[1] \in Nat \ {0}
  BY CoversIs
<1>6. Idx(1, va) \in 0 .. Cnt[1] - 1 /\ Nth(1, va) = Idx(1, va)
  <2>1. 0 \in 0 .. Levels - 1 /\ 0 + 1 = 1
    BY CoversIs
  <2>2. Idx(0 + 1, va) \in 0 .. Cnt[0 + 1] - 1 /\ Nth(0 + 1, va) = Nth(0, va) * Cnt[0 + 1] + Idx(0 + 1, va)
    BY <1>3, <2>1, NthStep
  <2>3. Nth(0, va) = 0
    BY DEF Nth
  <2> QED
    BY <1>5, <2>1, <2>2, <2>3
<1>7. Block(t, nr, Root, Idx(1, va)) = Nth(1, va)
  BY <1>4, <1>5, <1>6 DEF Block
<1>8. st \in Stacks
  BY <1>2, <1>5, <1>6 DEF Stacks, Spots
<1>9. Stacked(t, T, nr, st, va)
  BY <1>2, <1>4, <1>5, <1>6, <1>7, <1>8 DEF Stacked
<1> QED
  BY <1>1, <1>2, <1>3, <1>5, <1>6, <1>9

(* What lies under a table lies under the entry that names it.             *)
LEMMA UnderParent ==
  ASSUME NEW t, NEW T, NEW nr, Typed(t), Tree(t, T, nr), NEW p \in T, NEW x \in Slots(t, p), NEW c,
         t[p].ent[x] = Table(c), NEW v \in 0 .. Limit - 1, Nth(t[c].lv - 1, v) = nr[c]
  PROVE  c \in T /\ t[c].lv = t[p].lv + 1 /\ nr[c] = Block(t, nr, p, x) /\ Nth(t[p].lv - 1, v) = nr[p]
<1>1. t[p].ent[x].k = "table" /\ t[p].ent[x].at = c
  BY DEF Table
<1>2. c \in T /\ t[c].lv = t[p].lv + 1 /\ nr[c] = Block(t, nr, p, x)
  BY <1>1 DEF Tree, Children
<1>3. t[p].lv \in 1 .. Levels /\ Levels \in Nat
  BY BlockIs, CoversIs DEF Tree
<1>4. t[c].lv - 1 = t[p].lv
  BY <1>2, <1>3
<1>5. Nth(t[p].lv, v) = Block(t, nr, p, x)
  BY <1>2, <1>4
<1> QED
  BY <1>2, <1>5, BlockIs DEF Tree

(* What lies under the last table of the stack lies under all of it.       *)
LEMMA UnderStack ==
  ASSUME NEW t, NEW T, NEW nr, Typed(t), Tree(t, T, nr), NEW st, NEW at, Stacked(t, T, nr, st, at),
         NEW v \in 0 .. Limit - 1, Nth(Len(st) - 1, v) = nr[st[Len(st)].t]
  PROVE  \A k \in 1 .. Len(st) : Nth(k - 1, v) = nr[st[k].t]
<1>1. /\ Len(st) \in Nat \ {0}
      /\ \A k \in 1 .. Len(st) : st[k].t \in T /\ t[st[k].t].lv = k /\ st[k].i \in 0 .. Cnt[k]
      /\ \A k \in 1 .. Len(st) - 1 : st[k].i < Cnt[k] /\ t[st[k].t].ent[st[k].i] = Table(st[k + 1].t)
  BY DEF Stacked
<1> DEFINE n == Len(st)
           Odd == {d \in Nat : d < n /\ ~(Nth(n - d - 1, v) = nr[st[n - d].t])}
<1> HIDE DEF n
<1>2. n = Len(st) /\ n \in Nat \ {0}
  BY <1>1 DEF n
<1>3. Odd = {}
  <2>1. SUFFICES ASSUME Odd # {} PROVE FALSE
    OBVIOUS
  <2>2. PICK d \in Odd : d \in Nat /\ (d # 0 => d - 1 \in Nat \ Odd)
    <3>1. Odd \in SUBSET Nat
      OBVIOUS
    <3> HIDE DEF Odd
    <3> QED
      BY <2>1, <3>1, Least
  <2>3. d < n /\ ~(Nth(n - d - 1, v) = nr[st[n - d].t])
    OBVIOUS
  <2>4. d # 0
    <3>1. n - 0 - 1 = n - 1 /\ n - 0 = n
      BY <1>2
    <3> QED
      BY <1>2, <2>3, <3>1
  <2>5. d - 1 \in Nat /\ d - 1 \notin Odd
    <3> HIDE DEF Odd
    <3> QED
      BY <2>2, <2>4
  <2>6. PICK k \in Nat : k = n - d
    <3>1. n - d \in Nat
      BY <1>2, <2>2, <2>3
    <3> QED
      BY <3>1
  <2>7. k \in 1 .. n - 1 /\ k \in 1 .. n /\ k + 1 \in 1 .. n /\ n - (d - 1) - 1 = k /\ n - (d - 1) = k + 1 /\ d - 1 < n /\ (k + 1) - 1 = k
    BY <1>2, <2>2, <2>3, <2>4, <2>6
  <2>8. Nth(k, v) = nr[st[k + 1].t]
    BY <2>5, <2>7
  <2>9. st[k].t \in T /\ t[st[k].t].lv = k /\ t[st[k + 1].t].lv = k + 1
    BY <1>1, <1>2, <2>7
  <2>10. st[k].i \in Slots(t, st[k].t) /\ t[st[k].t].ent[st[k].i] = Table(st[k + 1].t)
    <3>1. Cnt[k] \in Nat
      <4>1. t[st[k].t].lv \in 1 .. Levels
        BY <2>9 DEF Typed, TableOK, Tree, Rooted
      <4> QED
        BY <2>9, <4>1, CoversIs
    <3> QED
      BY <1>1, <1>2, <2>7, <2>9, <3>1, SMTT(30) DEF Slots
  <2>11. Nth(t[st[k + 1].t].lv - 1, v) = nr[st[k + 1].t]
    <3>1. t[st[k + 1].t].lv - 1 = k
      BY <2>7, <2>9
    <3> QED
      BY <2>8, <3>1
  <2>12. Nth(t[st[k].t].lv - 1, v) = nr[st[k].t]
    <3>1. PICK p, x, c : p = st[k].t /\ x = st[k].i /\ c = st[k + 1].t
      OBVIOUS
    <3>2. p \in T /\ x \in Slots(t, p) /\ t[p].ent[x] = Table(c) /\ Nth(t[c].lv - 1, v) = nr[c]
      BY <2>9, <2>10, <2>11, <3>1
    <3>3. Nth(t[p].lv - 1, v) = nr[p]
      BY <3>2, UnderParent
    <3> QED
      BY <3>1, <3>3
  <2>13. n - d - 1 = k - 1
    BY <1>2, <2>2, <2>6
  <2> QED
    BY <2>3, <2>6, <2>9, <2>12, <2>13
<1>4. SUFFICES ASSUME NEW k \in 1 .. n PROVE Nth(k - 1, v) = nr[st[k].t]
  BY <1>2
<1>5. n - k \in Nat /\ n - k < n /\ n - (n - k) - 1 = k - 1 /\ n - (n - k) = k
  BY <1>2
<1>6. n - k \notin Odd
  BY <1>3, Zenon
<1> QED
  BY <1>5, <1>6

TopIs(t, T, nr, st, at, d, f, i) ==
  /\ d \in 1 .. Levels /\ f \in T /\ i \in Nat
  /\ d = Len(st) /\ st[d] = [t |-> f, i |-> i] /\ Last(st) = st[d] /\ Last(st).t = f /\ Last(st).i = i
  /\ t[f].lv = d /\ (d = 1 <=> f = Root) /\ f \in DOMAIN t
  /\ Cnt[d] \in Nat \ {0} /\ Covers[d] \in Nat \ {0} /\ i <= Cnt[d] /\ Nth(d, at) \in Nat
  /\ i < Cnt[d] => i \in Slots(t, f) /\ Nth(d, at) = Block(t, nr, f, i) /\ Nth(d - 1, at) = nr[f]
  /\ i = Cnt[d] => d # 1 /\ Nth(d - 1, at) = nr[f] + 1

(* The top of a walk's stack: its table, its index and its level.          *)
LEMMA StackTop ==
  ASSUME NEW t, NEW T, NEW nr, Typed(t), Tree(t, T, nr), NEW st, NEW at \in 0 .. Limit - 1, Stacked(t, T, nr, st, at)
  PROVE  \E d, f, i : TopIs(t, T, nr, st, at, d, f, i)
<1>1. PICK d, f, i : d = Len(st) /\ f = st[d].t /\ i = st[d].i
  OBVIOUS
<1>2. d \in Nat \ {0} /\ f \in T /\ t[f].lv = d /\ i \in 0 .. Cnt[d] /\ Block(t, nr, f, i) = Nth(d, at)
  BY <1>1 DEF Stacked
<1>3. d \in 1 .. Levels /\ Levels \in Nat /\ f \in DOMAIN t /\ nr[f] \in Nat
  BY <1>2, CoversIs DEF Typed, TableOK, Tree, Rooted
<1>4. Cnt[d] \in Nat \ {0} /\ Covers[d] \in Nat \ {0}
  BY <1>3, CoversIs
<1>5. st[d] = [t |-> f, i |-> i] /\ Last(st) = st[d] /\ Last(st).t = f /\ Last(st).i = i
  <2>1. PICK R : R = Spots /\ R = [t : Frames \cup {Root}, i : Nat]
    BY DEF Spots
  <2>2. st \in Seq(R)
    BY <2>1 DEF Stacked, Stacks
  <2>3. st[d] \in R
    BY <1>1, <1>2, <2>2
  <2>4. st[d] = [t |-> f, i |-> i]
    BY <1>1, <2>1, <2>3
  <2> QED
    BY <1>1, <2>4 DEF Last
<1>6. d = 1 <=> f = Root
  <2>1. Root \in T /\ t[Root].lv = 1 /\ nr[Root] = 0
    BY DEF Tree, Rooted
  <2>2. d = 1 => f = Root
    BY <1>1 DEF Stacked
  <2> QED
    BY <1>2, <2>1, <2>2
<1>7. PICK l \in 0 .. Levels - 1 : l = d - 1 /\ l + 1 = d
  <2>1. d - 1 \in 0 .. Levels - 1 /\ (d - 1) + 1 = d
    BY <1>3
  <2> QED
    BY <2>1
<1>8. PICK n, a, x : n = Cnt[d] /\ a = Nth(l, at) /\ x = Idx(d, at)
  OBVIOUS
<1>9. n \in Nat \ {0} /\ a \in Nat /\ x \in 0 .. n - 1 /\ Nth(d, at) = a * n + x /\ Nth(d, at) \in Nat
  BY <1>4, <1>7, <1>8, NthStep
<1>10. nr[f] * n + i = a * n + x
  BY <1>2, <1>8, <1>9 DEF Block
<1>11. i < n => i \in Slots(t, f) /\ Nth(d - 1, at) = nr[f]
  <2>1. SUFFICES ASSUME i < n PROVE i \in Slots(t, f) /\ Nth(d - 1, at) = nr[f]
    OBVIOUS
  <2>2. i \in 0 .. n - 1
    BY <1>2, <1>8, <1>9, <2>1
  <2>3. PICK b \in Nat : b = nr[f]
    BY <1>3
  <2>4. b * n + i = a * n + x
    BY <1>10, <2>3
  <2>5. b = a
    BY <1>9, <2>2, <2>4, PairIs
  <2> QED
    BY <1>2, <1>7, <1>8, <2>2, <2>3, <2>5 DEF Slots
<1>12. i = n => d # 1 /\ Nth(d - 1, at) = nr[f] + 1
  <2>1. SUFFICES ASSUME i = n PROVE d # 1 /\ Nth(d - 1, at) = nr[f] + 1
    OBVIOUS
  <2>2. PICK b \in Nat : b = nr[f]
    BY <1>3
  <2>3. (b + 1) * n + 0 = a * n + x /\ b + 1 \in Nat /\ 0 \in 0 .. n - 1
    <3>1. b * n + n = a * n + x
      BY <1>10, <2>1, <2>2
    <3>2. (b + 1) * n = b * n + n /\ b * n \in Nat
      BY <1>9
    <3> QED
      BY <1>9, <3>1, <3>2
  <2>4. b + 1 = a
    BY <1>9, <2>3, PairIs
  <2>5. d # 1
    <3>1. SUFFICES ASSUME d = 1 PROVE FALSE
      OBVIOUS
    <3>2. l = 0
      BY <1>7, <3>1
    <3>3. a = 0
      BY <1>8, <3>2 DEF Nth
    <3> QED
      BY <2>2, <2>4, <3>3
  <2> QED
    BY <1>7, <1>8, <2>2, <2>4, <2>5
<1>13. i \in Nat /\ i <= Cnt[d]
  BY <1>2, <1>4
<1>14. TopIs(t, T, nr, st, at, d, f, i)
  BY <1>1, <1>2, <1>3, <1>4, <1>5, <1>6, <1>8, <1>9, <1>11, <1>12, <1>13 DEF TopIs
<1> QED
  BY <1>14

(* The tables of a stack are those of its levels.                          *)
LEMMA StackLevels ==
  ASSUME NEW t, NEW T, NEW nr, Typed(t), Tree(t, T, nr), NEW st, NEW at, Stacked(t, T, nr, st, at)
  PROVE  /\ Len(st) \in 1 .. Levels
         /\ \A k \in 1 .. Len(st) : st[k].t \in T /\ t[st[k].t].lv = k
         /\ \A k, l \in 1 .. Len(st) : st[k].t = st[l].t => k = l
<1>1. Len(st) \in Nat \ {0} /\ \A k \in 1 .. Len(st) : st[k].t \in T /\ t[st[k].t].lv = k
  BY DEF Stacked
<1>2. \A f \in T : t[f].lv \in 1 .. Levels
  BY DEF Typed, TableOK, Tree, Rooted
<1>3. Len(st) \in 1 .. Len(st)
  BY <1>1
<1>4. t[st[Len(st)].t].lv = Len(st) /\ st[Len(st)].t \in T
  BY <1>1, <1>3
<1> QED
  BY <1>1, <1>2, <1>4

(* level_down(): u is the stack st with table f, which the entry reached   *)
(* names, put on it.                                                       *)
NextTable(t, st, f) == st[Len(st)].i < Cnt[Len(st)] /\ t[st[Len(st)].t].ent[st[Len(st)].i] = Table(f)
PushedOn(u, st, f, at) == u = Append(st, [t |-> f, i |-> Idx(Len(st) + 1, at)])

(* level_down(): the stack goes on to the table the entry names.           *)
LEMMA Pushed ==
  ASSUME NEW t, NEW T, NEW nr, Typed(t), Tree(t, T, nr), NEW st, NEW at \in 0 .. Limit - 1, Stacked(t, T, nr, st, at),
         NEW f, NextTable(t, st, f), NEW u, PushedOn(u, st, f, at)
  PROVE  /\ Stacked(t, T, nr, u, at) /\ Len(u) = Len(st) + 1 /\ \A k \in 1 .. Len(st) : u[k] = st[k]
         /\ u[Len(u)].t = f /\ u[Len(u)].i < Cnt[Len(u)]
<1>1. PICK d, p, i : TopIs(t, T, nr, st, at, d, p, i)
  BY StackTop
<1>2. /\ d \in 1 .. Levels /\ p \in T /\ i \in Nat
      /\ d = Len(st) /\ st[d] = [t |-> p, i |-> i] /\ t[p].lv = d
      /\ Cnt[d] \in Nat \ {0} /\ i <= Cnt[d]
      /\ i < Cnt[d] => i \in Slots(t, p) /\ Nth(d, at) = Block(t, nr, p, i)
  BY <1>1 DEF TopIs
<1>3. st[d].t = p /\ st[d].i = i /\ i < Cnt[d] /\ i \in Slots(t, p) /\ Nth(d, at) = Block(t, nr, p, i) /\ t[p].ent[i] = Table(f)
  BY <1>2 DEF NextTable
<1>4. f \in T /\ t[f].lv = d + 1 /\ nr[f] = Nth(d, at)
  <2>1. t[p].ent[i].k = "table" /\ t[p].ent[i].at = f
    BY <1>3 DEF Table
  <2> QED
    BY <1>2, <1>3, <2>1 DEF Tree, Children
<1>5. f \in DOMAIN t /\ d + 1 \in 1 .. Levels /\ Levels \in Nat /\ f \in Frames \cup {Root}
  <2>1. f \in DOMAIN t
    BY <1>4 DEF Tree, Rooted
  <2>2. f \in Frames \cup {Root} /\ t[f].lv \in 1 .. Levels
    BY <2>1 DEF Typed, TableOK
  <2> QED
    BY <1>4, <2>1, <2>2, CoversIs
<1>6. PICK x : x = Idx(d + 1, at)
  OBVIOUS
<1>7. x \in 0 .. Cnt[d + 1] - 1 /\ Nth(d + 1, at) = Nth(d, at) * Cnt[d + 1] + x
  <2>1. d \in 0 .. Levels - 1
    BY <1>2, <1>5
  <2> QED
    BY <1>6, <2>1, NthStep
<1>8. Cnt[d + 1] \in Nat \ {0} /\ x \in Nat /\ x < Cnt[d + 1] /\ x \in 0 .. Cnt[d + 1]
  BY <1>5, <1>7, CoversIs
<1>9. Block(t, nr, f, x) = Nth(d + 1, at)
  BY <1>4, <1>7 DEF Block
<1>10. u = Append(st, [t |-> f, i |-> x]) /\ st \in Stacks
  BY <1>2, <1>6 DEF Stacked, PushedOn
<1>11. /\ u \in Stacks /\ Len(u) = d + 1 /\ \A k \in 1 .. d : u[k] = st[k]
       /\ u[d + 1] = [t |-> f, i |-> x]
  BY <1>2, <1>5, <1>8, <1>10 DEF Stacks, Spots
<1>12. u[d + 1].t = f /\ u[d + 1].i = x
  BY <1>11
<1>13. u[1].t = Root /\ Len(u) \in Nat \ {0}
  BY <1>2, <1>11 DEF Stacked
<1>14. ASSUME NEW k \in 1 .. d + 1 PROVE u[k].t \in T /\ t[u[k].t].lv = k /\ u[k].i \in 0 .. Cnt[k]
  <2>1. CASE k = d + 1
    BY <1>4, <1>8, <1>12, <2>1
  <2>2. CASE k # d + 1
    <3>1. k \in 1 .. d
      BY <1>2, <2>2
    <3>2. u[k] = st[k]
      BY <1>11, <3>1
    <3> QED
      BY <1>2, <3>1, <3>2 DEF Stacked
  <2> QED
    BY <2>1, <2>2
<1>15. ASSUME NEW k \in 1 .. d PROVE u[k].i < Cnt[k] /\ t[u[k].t].ent[u[k].i] = Table(u[k + 1].t)
  <2>1. u[k] = st[k]
    BY <1>11
  <2>2. CASE k = d
    BY <1>3, <1>12, <2>1, <2>2
  <2>3. CASE k # d
    <3>1. k \in 1 .. d - 1 /\ k + 1 \in 1 .. d
      BY <1>2, <2>3
    <3>2. u[k + 1] = st[k + 1]
      BY <1>11, <3>1
    <3> QED
      BY <1>2, <2>1, <3>1, <3>2 DEF Stacked
  <2> QED
    BY <2>2, <2>3
<1>16. (d + 1) - 1 = d
  BY <1>2
<1>17. Stacked(t, T, nr, u, at)
  BY <1>9, <1>11, <1>12, <1>13, <1>14, <1>15, <1>16 DEF Stacked
<1> QED
  BY <1>2, <1>8, <1>11, <1>12, <1>17

(* A stack without its top.                                                *)
LEMMA FrontIs ==
  ASSUME NEW st \in Stacks, Len(st) \in Nat \ {0}
  PROVE  /\ Front(st) \in Stacks /\ Len(Front(st)) = Len(st) - 1
         /\ \A k \in 1 .. Len(st) - 1 : Front(st)[k] = st[k]
<1> DEFINE R == Spots
<1>1. st \in Seq(R)
  BY DEF Stacks
<1> HIDE DEF R
<1>2. PICK n : n = Len(st)
  OBVIOUS
<1>3. n \in Nat \ {0} /\ \A k \in 1 .. n - 1 : st[k] \in R
  BY <1>1, <1>2
<1>4. PICK u : u = SubSeq(st, 1, n - 1)
  OBVIOUS
<1>5. u \in Seq(R) /\ Len(u) = n - 1 /\ \A k \in 1 .. n - 1 : u[k] = st[k]
  BY <1>1, <1>2, <1>3, <1>4
<1>6. Front(st) = u
  BY <1>2, <1>4 DEF Front
<1> QED
  BY <1>2, <1>5, <1>6 DEF Stacks, R

Topped(st, x) == Append(Front(st), x)

(* A stack with another top.                                               *)
LEMMA SetLast ==
  ASSUME NEW st \in Stacks, Len(st) \in Nat \ {0}, NEW x \in Spots,
         NEW u, u = Topped(st, x)
  PROVE  /\ u \in Stacks /\ Len(u) = Len(st) /\ u[Len(st)] = x
         /\ \A k \in 1 .. Len(st) - 1 : u[k] = st[k]
<1> DEFINE R == Spots
<1>1. PICK f, n : f = Front(st) /\ n = Len(st)
  OBVIOUS
<1>2. f \in Stacks /\ Len(f) = n - 1 /\ n \in Nat \ {0} /\ \A k \in 1 .. n - 1 : f[k] = st[k]
  BY <1>1, FrontIs
<1>3. f \in Seq(R) /\ x \in R
  BY <1>2 DEF Stacks
<1> HIDE DEF R
<1>4. u = Append(f, x)
  BY <1>1 DEF Topped
<1>5. u \in Seq(R) /\ Len(u) = (n - 1) + 1 /\ u[(n - 1) + 1] = x /\ \A k \in 1 .. n - 1 : u[k] = f[k]
  BY <1>2, <1>3, <1>4
<1>6. (n - 1) + 1 = n
  BY <1>2
<1> QED
  BY <1>1, <1>2, <1>5, <1>6 DEF Stacks, R

(* A stack stays one where its tables do.                                  *)
LEMMA StackedIn ==
  ASSUME NEW t, NEW u, NEW T, NEW S, NEW nr, NEW mr, NEW st, NEW at, Stacked(t, T, nr, st, at),
         \A k \in 1 .. Len(st) : st[k].t \in S /\ u[st[k].t].lv = t[st[k].t].lv /\ mr[st[k].t] = nr[st[k].t],
         \A k \in 1 .. Len(st) - 1 : u[st[k].t].ent[st[k].i] = t[st[k].t].ent[st[k].i]
  PROVE  Stacked(u, S, mr, st, at)
<1>1. PICK d : d = Len(st)
  OBVIOUS
<1>2. d \in Nat \ {0} /\ d \in 1 .. d /\ \A k \in 1 .. d - 1 : k \in 1 .. d
  BY <1>1 DEF Stacked
<1>3. Block(u, mr, st[d].t, st[d].i) = Block(t, nr, st[d].t, st[d].i)
  BY <1>1, <1>2 DEF Block
<1> QED
  BY <1>1, <1>2, <1>3 DEF Stacked

(* The walk moves on within its table: u is the stack st then.             *)
MovedOn(u, st, n) == u = Append(Front(st), [Last(st) EXCEPT !.i = @ + n])

(* A turn of the walk: the index moves over n entries, the page over what  *)
(* they cover.                                                             *)
LEMMA Advanced ==
  ASSUME NEW t, NEW T, NEW nr, Typed(t), Tree(t, T, nr), NEW st, NEW at \in 0 .. Limit - 1, Stacked(t, T, nr, st, at),
         NEW n \in Nat, Last(st).i + n <= Cnt[Len(st)],
         NEW u, MovedOn(u, st, n)
  PROVE  /\ Stacked(t, T, nr, u, at + n * Covers[Len(st)]) /\ Len(u) = Len(st)
         /\ \A k \in 1 .. Len(st) : u[k].t = st[k].t
<1>1. PICK d, f, i : TopIs(t, T, nr, st, at, d, f, i)
  BY StackTop
<1>2. /\ d \in 1 .. Levels /\ f \in T /\ i \in Nat /\ d = Len(st) /\ st[d] = [t |-> f, i |-> i] /\ Last(st) = st[d]
      /\ t[f].lv = d /\ f \in DOMAIN t /\ Cnt[d] \in Nat \ {0}
  BY <1>1 DEF TopIs
<1>3. st[d].t = f /\ st[d].i = i /\ Last(st).i = i
  BY <1>2
<1>4. PICK x : x = [t |-> f, i |-> i + n]
  OBVIOUS
<1>5. [Last(st) EXCEPT !.i = @ + n] = x
  BY <1>2, <1>4
<1>6. f \in Frames \cup {Root} /\ x \in Spots /\ x.t = f /\ x.i = i + n
  BY <1>2, <1>4 DEF Typed, Spots
<1>7. st \in Stacks /\ d \in Nat \ {0}
  BY <1>2 DEF Stacked
<1>8. u \in Stacks /\ Len(u) = d /\ u[d] = x /\ \A k \in 1 .. d - 1 : u[k] = st[k]
  <2>1. Len(st) \in Nat \ {0} /\ u = Topped(st, x)
    BY <1>2, <1>5, <1>7 DEF Topped, MovedOn
  <2>2. u \in Stacks /\ Len(u) = Len(st) /\ u[Len(st)] = x /\ \A k \in 1 .. Len(st) - 1 : u[k] = st[k]
    BY ONLY <1>6, <1>7, <2>1, SetLast
  <2> QED
    BY <1>2, <2>2
<1>9. \A k \in 1 .. d : u[k].t = st[k].t /\ (k # d => u[k].i = st[k].i)
  <2>1. u[d].t = st[d].t
    BY <1>3, <1>6, <1>8
  <2>2. \A k \in 1 .. d : k # d => k \in 1 .. d - 1
    BY <1>7
  <2> QED
    BY <1>8, <2>1, <2>2
<1>10. i + n \in 0 .. Cnt[d]
  BY <1>2, <1>3
<1>11. \A k \in 1 .. d : u[k].t \in T /\ t[u[k].t].lv = k /\ u[k].i \in 0 .. Cnt[k]
  BY <1>2, <1>6, <1>8, <1>9, <1>10 DEF Stacked
<1>12. ASSUME NEW k \in 1 .. d - 1 PROVE u[k].i < Cnt[k] /\ t[u[k].t].ent[u[k].i] = Table(u[k + 1].t)
  <2>1. k \in 1 .. d /\ k + 1 \in 1 .. d /\ k # d
    BY <1>7
  <2> QED
    BY <1>2, <1>9, <2>1 DEF Stacked
<1>13. Block(t, nr, f, i + n) = Nth(d, at + n * Covers[d])
  <2>1. Block(t, nr, f, i) = Nth(d, at)
    BY <1>2, <1>3 DEF Stacked
  <2>2. at \in Nat
    BY LimitIs
  <2>3. Nth(d, at + n * Covers[d]) = Nth(d, at) + n
    BY <1>2, <2>2, NthPlus
  <2>4. PICK a, c : a = nr[f] /\ c = Cnt[d]
    OBVIOUS
  <2>5. a \in Nat /\ c \in Nat
    BY <1>2, <2>4 DEF Tree, Rooted
  <2>6. a * c + (i + n) = (a * c + i) + n
    <3>1. a * c \in Nat
      BY <2>5
    <3> QED
      BY <1>2, <3>1
  <2> QED
    BY <1>2, <2>1, <2>3, <2>4, <2>6 DEF Block
<1>14. u[1].t = Root
  <2>1. 1 \in 1 .. d
    BY <1>7
  <2> QED
    BY <1>2, <1>9, <2>1 DEF Stacked
<1>15. Stacked(t, T, nr, u, at + n * Covers[d])
  BY <1>6, <1>7, <1>8, <1>11, <1>12, <1>13, <1>14 DEF Stacked
<1> QED
  BY <1>2, <1>8, <1>9, <1>15

(* level_up(): u is the stack st without its last table.                   *)
PoppedTo(u, st) ==
  u = IF Last(st).i = Cnt[Len(st)] THEN Append(Front(Front(st)), [Last(Front(st)) EXCEPT !.i = @ + 1]) ELSE Front(st)

(* level_up(): the stack goes back to the next entry of the table above.   *)
LEMMA Popped ==
  ASSUME NEW t, NEW T, NEW nr, Typed(t), Tree(t, T, nr), NEW st, NEW at \in 0 .. Limit - 1, Stacked(t, T, nr, st, at),
         Len(st) # 1, NEW u, PoppedTo(u, st)
  PROVE  /\ Stacked(t, T, nr, u, at) /\ Len(u) = Len(st) - 1
         /\ \A k \in 1 .. Len(st) - 1 : u[k].t = st[k].t
<1>1. PICK d, f, i : TopIs(t, T, nr, st, at, d, f, i)
  BY StackTop
<1>2. /\ d \in 1 .. Levels /\ f \in T /\ i \in Nat /\ d = Len(st) /\ st[d] = [t |-> f, i |-> i] /\ Last(st).i = i
      /\ t[f].lv = d /\ Cnt[d] \in Nat \ {0} /\ i <= Cnt[d]
      /\ i < Cnt[d] => Nth(d - 1, at) = nr[f]
      /\ i = Cnt[d] => Nth(d - 1, at) = nr[f] + 1
  BY <1>1 DEF TopIs
<1>3. PICK b \in 1 .. Levels : b = d - 1 /\ b + 1 = d
  <2>1. d - 1 \in 1 .. Levels /\ (d - 1) + 1 = d
    BY <1>2, CoversIs
  <2> QED
    BY <2>1
<1>4. st \in Stacks /\ d \in Nat \ {0} /\ b \in Nat \ {0} /\ b \in 1 .. d /\ d \in 1 .. d
  BY <1>2, <1>3 DEF Stacked
<1>5. PICK fr : fr = Front(st)
  OBVIOUS
<1>6. fr \in Stacks /\ Len(fr) = b /\ \A k \in 1 .. b : fr[k] = st[k]
  BY <1>2, <1>3, <1>4, <1>5, FrontIs
<1>7. PICK p, j : p = st[b].t /\ j = st[b].i
  OBVIOUS
<1>8. p \in T /\ t[p].lv = b /\ j < Cnt[b] /\ t[p].ent[j] = Table(f) /\ Cnt[b] \in Nat /\ j \in Nat /\ st[d].t = f
  <2>1. b \in 1 .. d - 1
    BY <1>3, <1>4
  <2>2. Cnt[b] \in Nat
    BY CoversIs
  <2>3. st[d].t = f
    BY <1>2
  <2>4. j \in 0 .. Cnt[b] /\ p \in T /\ t[p].lv = b
    BY <1>2, <1>4, <1>7 DEF Stacked
  <2>5. j < Cnt[b] /\ t[p].ent[j] = Table(f)
    BY <1>2, <1>3, <1>7, <2>1, <2>3 DEF Stacked
  <2> QED
    BY <2>2, <2>3, <2>4, <2>5
<1>9. nr[f] = Block(t, nr, p, j) /\ nr[p] \in Nat
  <2>1. t[p].ent[j].k = "table" /\ t[p].ent[j].at = f
    BY <1>8 DEF Table
  <2>2. j \in Slots(t, p)
    BY <1>8 DEF Slots
  <2> QED
    BY <1>8, <2>1, <2>2 DEF Tree, Children, Rooted
<1>10. PICK x : x = IF i = Cnt[d] THEN [t |-> p, i |-> j + 1] ELSE [t |-> p, i |-> j]
  OBVIOUS
<1>11. st[b] = [t |-> p, i |-> j] /\ p \in Frames \cup {Root}
  <2>1. PICK R : R = Spots /\ R = [t : Frames \cup {Root}, i : Nat]
    BY DEF Spots
  <2>2. st \in Seq(R)
    BY <1>4, <2>1 DEF Stacks
  <2>3. st[b] \in R
    BY <1>2, <1>4, <2>2
  <2> QED
    BY <1>7, <2>1, <2>3
<1>12. /\ u \in Stacks /\ Len(u) = b /\ u[b] = x /\ \A k \in 1 .. b - 1 : u[k] = st[k]
  <2>1. CASE i = Cnt[d]
    <3>1. [Last(fr) EXCEPT !.i = @ + 1] = x
      <4>1. Last(fr) = [t |-> p, i |-> j]
        BY <1>4, <1>6, <1>11 DEF Last
      <4> QED
        BY <1>10, <2>1, <4>1
    <3>2. x \in Spots
      BY <1>8, <1>10, <1>11, <2>1 DEF Spots
    <3>3. u = Topped(fr, x)
      BY <1>2, <1>5, <2>1, <3>1 DEF Topped, PoppedTo
    <3>4. u \in Stacks /\ Len(u) = b /\ u[b] = x /\ \A k \in 1 .. b - 1 : u[k] = fr[k]
      <4>1. fr \in Stacks /\ Len(fr) \in Nat \ {0}
        BY <1>4, <1>6
      <4>2. u \in Stacks /\ Len(u) = Len(fr) /\ u[Len(fr)] = x /\ \A k \in 1 .. Len(fr) - 1 : u[k] = fr[k]
        BY ONLY <3>2, <3>3, <4>1, SetLast
      <4> QED
        BY <1>6, <4>2
    <3> QED
      BY <1>4, <1>6, <3>4
  <2>2. CASE i # Cnt[d]
    <3>1. u = fr
      BY <1>2, <1>5, <2>2 DEF PoppedTo
    <3>2. b \in 1 .. b /\ \A k \in 1 .. b - 1 : k \in 1 .. b
      BY <1>4
    <3>3. x = st[b]
      BY <1>10, <1>11, <2>2
    <3>4. fr[b] = st[b] /\ \A k \in 1 .. b - 1 : fr[k] = st[k]
      BY <1>6, <3>2
    <3> QED
      BY <1>6, <3>1, <3>3, <3>4
  <2> QED
    BY <2>1, <2>2
<1>13. x.t = p /\ x.i \in 0 .. Cnt[b] /\ x.i = IF i = Cnt[d] THEN j + 1 ELSE j
  BY <1>8, <1>10
<1>14. Block(t, nr, p, x.i) = Nth(b, at)
  <2>1. PICK a, c : a = nr[p] /\ c = Cnt[b]
    OBVIOUS
  <2>2. a \in Nat /\ c \in Nat /\ a * c \in Nat
    BY <1>8, <1>9, <2>1
  <2>3. nr[f] = a * c + j
    BY <1>8, <1>9, <2>1 DEF Block
  <2>4. Nth(b, at) = IF i = Cnt[d] THEN (a * c + j) + 1 ELSE a * c + j
    <3>1. CASE i = Cnt[d]
      BY <1>2, <1>3, <2>3, <3>1
    <3>2. CASE i # Cnt[d]
      BY <1>2, <1>3, <2>3, <3>2
    <3> QED
      BY <3>1, <3>2
  <2>5. a * c + x.i = IF i = Cnt[d] THEN (a * c + j) + 1 ELSE a * c + j
    BY <1>8, <1>13, <2>2
  <2>6. Block(t, nr, p, x.i) = a * c + x.i
    BY <1>8, <2>1 DEF Block
  <2> QED
    BY <2>4, <2>5, <2>6
<1>15. \A k \in 1 .. b : u[k].t = st[k].t
  <2>1. u[b].t = st[b].t
    BY <1>7, <1>12, <1>13
  <2>2. \A k \in 1 .. b : k # b => k \in 1 .. b - 1
    BY <1>4
  <2> QED
    BY <1>12, <2>1, <2>2
<1>16. ASSUME NEW k \in 1 .. b PROVE u[k].t \in T /\ t[u[k].t].lv = k /\ u[k].i \in 0 .. Cnt[k]
  <2>1. CASE k = b
    BY <1>8, <1>12, <1>13, <2>1
  <2>2. CASE k # b
    <3>1. k \in 1 .. b - 1 /\ k \in 1 .. d
      BY <1>3, <1>4, <2>2
    <3> QED
      BY <1>2, <1>12, <3>1 DEF Stacked
  <2> QED
    BY <2>1, <2>2
<1>17. ASSUME NEW k \in 1 .. b - 1 PROVE u[k].i < Cnt[k] /\ t[u[k].t].ent[u[k].i] = Table(u[k + 1].t)
  <2>1. k \in 1 .. b /\ k + 1 \in 1 .. b /\ k \in 1 .. d - 1
    BY <1>3, <1>4
  <2> QED
    BY <1>2, <1>12, <1>15, <2>1 DEF Stacked
<1>18. u[1].t = Root
  <2>1. 1 \in 1 .. b
    BY <1>4
  <2> QED
    BY <1>15, <2>1 DEF Stacked
<1>19. Stacked(t, T, nr, u, at)
  BY <1>4, <1>12, <1>13, <1>14, <1>16, <1>17, <1>18 DEF Stacked
<1> QED
  BY <1>2, <1>3, <1>12, <1>15, <1>19

-----------------------------------------------------------------------------
(* The invariant step by step.                                             *)
LEMMA TrSame == ASSUME tab' = tab PROVE Tr' = Tr
BY DEF Tr

(* Tr is Trans of the tables as they are ...                               *)
LEMMA TrIs == \A v \in 0 .. Limit - 1 : Tr[v] = Trans(tab, v)
BY DEF Tr

(* ... and, primed, of the tables as they will be.                         *)
LEMMA TrNext == \A v \in 0 .. Limit - 1 : Tr'[v] = Trans(tab', v)
BY DEF Tr

(* The parts of the invariant after a step make the invariant.             *)
LEMMA InvMade ==
  ASSUME NEW T, NEW nr,
         Typed(tab'), Tree(tab', T, nr),
         PoolOK(spaces', VaPool), PoolOK(parts', PaPool),
         HeldOK(Holding(maps', op'), spaces', parts'), MapsOK(maps', op'),
         Exact(Tr', Holding(maps', op'), parts'), Complete(Tr', maps'),
         given' = {} => Blank(Tr', maps'),
         Leaves(tab', T, nr, spaces'),
         OpOK(op', Tr', given'),
         Walking(tab', T, nr, op'),
         Anchored(tab', T, nr, Tr', spaces', Holding(maps', op'), op'),
         Fresh(maps', stale')
  PROVE  Inv'
<1>1. InvAt(T, nr)'
  BY DEF InvAt
<1> QED
  BY <1>1 DEF Inv

(* Two calls that hold the same.                                           *)
LEMMA SameHolding ==
  ASSUME NEW M, NEW o, NEW u, Busy(o), Busy(u), u.va = o.va, u.size = o.size, u.got = o.got
  PROVE  Holding(M, u) = Holding(M, o) /\ (MapsOK(M, o) => MapsOK(M, u))
<1>1. Mine(u) = Mine(o)
  BY DEF Mine
<1>2. Holding(M, u) = Holding(M, o)
  BY <1>1, HoldingIs
<1>3. MapsOK(M, o) => MapsOK(M, u)
  BY DEF MapsOK
<1> QED
  BY <1>2, <1>3

(* Tables stay anchored when those that are exempt no longer are anchored  *)
(* in another way.                                                         *)
LEMMA AnchoredAs ==
  ASSUME NEW t, NEW T, NEW nr, NEW F, NEW S, NEW H, NEW o, NEW S2, NEW H2, NEW u,
         Anchored(t, T, nr, F, S, H, o),
         \A v \in 0 .. VaPool - 1 : Lost(S, H, v) => Lost(S2, H2, v),
         \A f \in T \ {Root} : Exempt(o, f) => Exempt(u, f) \/ Anchor(t, nr, F, S2, H2, f)
  PROVE  Anchored(t, T, nr, F, S2, H2, u)
<1>1. ASSUME NEW f, Anchor(t, nr, F, S, H, f) PROVE Anchor(t, nr, F, S2, H2, f)
  BY <1>1 DEF Anchor
<1> QED
  BY <1>1 DEF Anchored

(* The call goes on, and changes nothing but itself.                       *)
LEMMA CallGoesOn ==
  ASSUME NEW T, NEW nr, InvAt(T, nr), tab' = tab, spaces' = spaces, parts' = parts, maps' = maps,
         given' = given, stale' = stale, Busy(op), Busy(op'),
         op'.va = op.va, op'.size = op.size, op'.got = op.got,
         OpOK(op', Tr, given), Walking(tab, T, nr, op'),
         \A f \in T \ {Root} : Exempt(op, f) => Exempt(op', f) \/ Anchor(tab, nr, Tr, spaces, Holding(maps, op), f)
  PROVE  Inv'
<1>1. Tr' = Tr
  BY TrSame
<1>2. Holding(maps, op') = Holding(maps, op) /\ MapsOK(maps, op')
  BY SameHolding DEF InvAt
<1>3. Anchored(tab, T, nr, Tr, spaces, Holding(maps, op), op')
  BY AnchoredAs DEF InvAt
<1>4. Typed(tab') /\ Tree(tab', T, nr) /\ Leaves(tab', T, nr, spaces') /\ Walking(tab', T, nr, op')
  BY DEF InvAt
<1>5. PoolOK(spaces', VaPool) /\ PoolOK(parts', PaPool) /\ HeldOK(Holding(maps', op'), spaces', parts')
      /\ MapsOK(maps', op') /\ Fresh(maps', stale')
  BY <1>2 DEF InvAt
<1>6. Exact(Tr', Holding(maps', op'), parts') /\ Complete(Tr', maps') /\ (given' = {} => Blank(Tr', maps'))
      /\ OpOK(op', Tr', given') /\ Anchored(tab', T, nr, Tr', spaces', Holding(maps', op'), op')
  BY <1>1, <1>2, <1>3 DEF InvAt
<1> QED
  BY <1>4, <1>5, <1>6, InvMade

(* What the invariant says of a call.                                      *)
LEMMA OpIs ==
  ASSUME NEW T, NEW nr, InvAt(T, nr), Busy(op)
  PROVE  /\ op.va \in Nat /\ op.size \in Nat \ {0} /\ op.va + op.size <= VaPool
         /\ [at |-> op.va, len |-> op.size] \in spaces
         /\ \A v \in op.va .. op.va + op.size - 1 : v \in 0 .. VaPool - 1 /\ v \in 0 .. Limit - 1
         /\ Shape(op) /\ Mine(op) \in Holding(maps, op)
         /\ Stacked(tab, T, nr, op.stack, op.at) /\ op.at < Limit /\ op.at \in 0 .. Limit - 1
         /\ ~op.up => op.stack[Len(op.stack)].i < Cnt[Len(op.stack)]
<1>1. PICK h \in Holding(maps, op) : h = Holder(op.va, op.size, op.got) /\ h.va = op.va /\ h.size = op.size /\ h.ps = op.got
  BY OpHeld
<1>2. /\ h.va \in Nat /\ h.size \in Nat \ {0} /\ h.va + h.size <= VaPool
      /\ \A v \in h.va .. h.va + h.size - 1 : v \in 0 .. VaPool - 1
  BY HeldBelow DEF InvAt
<1>3. [at |-> op.va, len |-> op.size] \in spaces
  BY <1>1 DEF InvAt, HeldOK, Space
<1>4. Shape(op)
  BY DEF InvAt, OpOK
<1>5. Stacked(tab, T, nr, op.stack, op.at) /\ op.at < Limit /\ (~op.up => op.stack[Len(op.stack)].i < Cnt[Len(op.stack)])
  BY DEF InvAt, Walking
<1>6. op.at \in 0 .. Limit - 1
  BY <1>4, <1>5, LimitIs DEF Shape
<1>7. \A v \in 0 .. VaPool - 1 : v \in 0 .. Limit - 1
  BY PoolBelow
<1> QED
  BY <1>1, <1>2, <1>3, <1>4, <1>5, <1>6, <1>7 DEF Mine

(* A call begins without physical ranges.                                  *)
LEMMA NoRanges == RangesOf(<<>>) /\ Len(<<>>) = 0 /\ Total(<<>>) = 0 /\ \A S : <<>> \in Seq(S)
<1>1. RangesOf(<<>>) /\ \A S : <<>> \in Seq(S)
  BY DEF RangesOf
<1>2. Len(<<>>) = 0
  OBVIOUS
<1>3. Starts(<<>>)[1] = 0
  BY <1>1, StartsIs
<1> QED
  BY <1>1, <1>2, <1>3 DEF Total

(* map_range() begins when all ranges are there.                           *)
LEMMA StartCheckKeeps == Inv /\ StartCheck => Inv'
<1>1. SUFFICES ASSUME NEW T, NEW nr, InvAt(T, nr), StartCheck PROVE Inv'
  BY DEF Inv
<1>2. /\ op.kind = "alloc" /\ op.todo = 0 /\ op' = [Call("check", op.va, op.size) EXCEPT !.got = op.got]
      /\ tab' = tab /\ spaces' = spaces /\ parts' = parts /\ maps' = maps /\ given' = given /\ stale' = stale
  BY <1>1 DEF StartCheck
<1>3. Busy(op)
  BY <1>2 DEF Busy
<1>4. /\ op'.kind = "check" /\ op'.va = op.va /\ op'.size = op.size /\ op'.got = op.got /\ op'.rng = 1 /\ op'.left = <<>>
      /\ op'.stack = Context(op.va) /\ op'.at = op.va /\ op'.todo = op.size /\ op'.off = 0 /\ op'.up = FALSE
      /\ IsCall(op')
  BY <1>2 DEF Call, IsCall
<1>5. /\ op.va \in Nat /\ op.size \in Nat \ {0} /\ op.va + op.size <= VaPool /\ Shape(op) /\ op.va \in 0 .. VaPool - 1
  BY <1>1, <1>3, OpIs, PoolAssumption
<1>6. Busy(op') /\ Shape(op')
  <2>1. op'.up \in BOOLEAN
    BY <1>4, Zenon
  <2>2. Busy(op')
    BY <1>4 DEF Busy
  <2>3. op'.rng \in Nat /\ op'.todo \in Int /\ op'.off \in Nat /\ op'.at \in Nat /\ op'.va <= op'.at
    BY <1>4, <1>5
  <2>4. op'.va \in Nat /\ op'.size \in Nat \ {0} /\ RangesOf(op'.got)
    BY <1>4, <1>5 DEF Shape
  <2> QED
    BY <1>4, <2>1, <2>2, <2>3, <2>4 DEF Shape
<1>7. OpOK(op, Tr, given)
  BY <1>1 DEF InvAt
<1>8. Total(op.got) = op.size /\ Clean(Tr, op) /\ given # {}
  <2>1. RangesOf(op.got)
    BY <1>5 DEF Shape
  <2>2. Total(op.got) \in Nat
    BY <2>1, StartsIs DEF Total
  <2> QED
    BY <1>2, <1>3, <1>5, <1>7, <2>2 DEF OpOK
<1>9. op.va < VaPool + Covers[1]
  BY <1>5, LimitIs, PoolAssumption
<1>10. OpOK(op', Tr, given)
  BY <1>4, <1>5, <1>6, <1>8, <1>9 DEF OpOK, Clean
<1>11. Walking(tab, T, nr, op')
  BY <1>1, <1>4, <1>5, Begins DEF InvAt, Walking
<1>12. \A f : ~Exempt(op, f)
  BY <1>2 DEF Exempt
<1> QED
  BY <1>1, <1>2, <1>3, <1>4, <1>6, <1>10, <1>11, <1>12, CallGoesOn

(* When the check is through nothing is mapped in the range.               *)
LEMMA StartMapKeeps == Inv /\ StartMap => Inv'
<1>1. SUFFICES ASSUME NEW T, NEW nr, InvAt(T, nr), StartMap PROVE Inv'
  BY DEF Inv
<1>2. /\ op.kind = "check" /\ op' = [Call("map", op.va, op.size) EXCEPT !.got = op.got, !.left = op.got, !.todo = 0]
      /\ tab' = tab /\ spaces' = spaces /\ parts' = parts /\ maps' = maps /\ given' = given /\ stale' = stale
  BY <1>1 DEF StartMap
<1>3. Busy(op)
  BY <1>2 DEF Busy
<1>4. /\ op'.kind = "map" /\ op'.va = op.va /\ op'.size = op.size /\ op'.got = op.got /\ op'.rng = 1 /\ op'.left = op.got
      /\ op'.stack = Context(op.va) /\ op'.at = op.va /\ op'.todo = 0 /\ op'.off = 0 /\ op'.up = FALSE
      /\ IsCall(op')
  BY <1>2 DEF Call, IsCall
<1>5. /\ op.va \in Nat /\ op.size \in Nat \ {0} /\ op.va + op.size <= VaPool /\ Shape(op) /\ op.va \in 0 .. VaPool - 1
  BY <1>1, <1>3, OpIs, PoolAssumption
<1>6. Busy(op') /\ Shape(op')
  <2>1. op'.up \in BOOLEAN
    BY <1>4, Zenon
  <2>2. Busy(op')
    BY <1>4 DEF Busy
  <2>3. op'.rng \in Nat /\ op'.todo \in Int /\ op'.off \in Nat /\ op'.at \in Nat /\ op'.va <= op'.at
    BY <1>4, <1>5
  <2>4. op'.va \in Nat /\ op'.size \in Nat \ {0} /\ RangesOf(op'.got)
    BY <1>4, <1>5 DEF Shape
  <2> QED
    BY <1>4, <2>1, <2>2, <2>3, <2>4 DEF Shape
<1>7. Total(op.got) = op.size /\ Clean(Tr, op) /\ given # {}
  BY <1>1, <1>2, <1>3 DEF InvAt, OpOK
<1>8. MapAt(op', 0)
  <2>1. RangesOf(op.got) /\ Starts(op.got)[1] = 0 /\ Len(op.got) \in Nat
    BY <1>5, StartsIs DEF Shape
  <2> QED
    BY <1>4, <1>5, <2>1 DEF MapAt, RangesOf
<1>9. \A v \in op.va .. op.va + op.size - 1 : Tr[v].k = "page" <=> v < op.va
  BY <1>5, <1>7 DEF Clean
<1>10. OpOK(op', Tr, given)
  BY <1>4, <1>6, <1>7, <1>8, <1>9 DEF OpOK
<1>11. Walking(tab, T, nr, op')
  BY <1>1, <1>4, <1>5, Begins DEF InvAt, Walking
<1>12. \A f : ~Exempt(op, f)
  BY <1>2 DEF Exempt
<1> QED
  BY <1>1, <1>2, <1>3, <1>4, <1>6, <1>10, <1>11, <1>12, CallGoesOn

(* Each physical range begins where the last one ended.                    *)
LEMMA NextPartKeeps == Inv /\ NextPart => Inv'
<1>1. SUFFICES ASSUME NEW T, NEW nr, InvAt(T, nr), NextPart PROVE Inv'
  BY DEF Inv
<1>2. /\ op.kind = "map" /\ op.todo = 0 /\ ~op.up /\ op.left # <<>>
      /\ op' = [op EXCEPT !.rng = Head(op.left).at, !.todo = Head(op.left).len, !.off = 0, !.left = Tail(@)]
      /\ tab' = tab /\ spaces' = spaces /\ parts' = parts /\ maps' = maps /\ given' = given /\ stale' = stale
  BY <1>1 DEF NextPart
<1>3. Busy(op)
  BY <1>2 DEF Busy
<1>4. Shape(op) /\ Walking(tab, T, nr, op) /\ OpOK(op, Tr, given)
  BY <1>1, <1>3, OpIs DEF InvAt
<1>5. PICK r : r = Head(op.left)
  OBVIOUS
<1>6. /\ op'.kind = "map" /\ op'.va = op.va /\ op'.size = op.size /\ op'.got = op.got /\ op'.rng = r.at /\ op'.left = Tail(op.left)
      /\ op'.stack = op.stack /\ op'.at = op.at /\ op'.todo = r.len /\ op'.off = 0 /\ op'.up = op.up
      /\ IsCall(op')
  BY <1>2, <1>4, <1>5 DEF Shape, IsCall
<1>7. PICK j \in Nat : MapAt(op, j)
  BY <1>2, <1>4 DEF OpOK
<1>8. RangesOf(op.got) /\ op.left \in Seq([at : Nat, len : Nat]) /\ op.va \in Nat /\ op.at \in Nat /\ op.up \in BOOLEAN
  BY <1>4, <1>7 DEF Shape, MapAt
<1>9. /\ Len(op.got) \in Nat /\ \A k \in 1 .. Len(op.got) : op.got[k].at \in Nat /\ op.got[k].len \in Nat
      /\ \A k \in 1 .. Len(op.got) : Starts(op.got)[k + 1] = Starts(op.got)[k] + op.got[k].len
      /\ \A k \in 1 .. Len(op.got) + 1 : Starts(op.got)[k] \in Nat
  BY <1>8, StartsIs, RangesTyped
<1>10. Len(op.left) \in Nat /\ Len(op.left) # 0 /\ r = op.left[1]
  BY <1>2, <1>5, <1>8
<1>11. j + 1 \in 1 .. Len(op.got) /\ r = op.got[j + 1] /\ Len(op.left) = Len(op.got) - j
  <2>1. Len(op.left) = Len(op.got) - j
    BY <1>7 DEF MapAt
  <2>2. 1 \in 1 .. Len(op.left)
    BY <1>10
  <2>3. op.left[1] = op.got[j + 1]
    BY <1>7, <2>2 DEF MapAt
  <2> QED
    BY <1>9, <1>10, <2>1, <2>3
<1>12. /\ Tail(op.left) \in Seq([at : Nat, len : Nat]) /\ Len(Tail(op.left)) = Len(op.left) - 1
       /\ \A k \in 1 .. Len(op.left) - 1 : Tail(op.left)[k] = op.left[k + 1]
  <2>1. PICK R : R = [at : Nat, len : Nat]
    OBVIOUS
  <2>2. op.left \in Seq(R) /\ op.left # <<>>
    BY <1>2, <1>8, <2>1
  <2>3. Tail(op.left) \in Seq(R) /\ Len(Tail(op.left)) = Len(op.left) - 1
        /\ \A k \in 1 .. Len(Tail(op.left)) : Tail(op.left)[k] = op.left[k + 1]
    BY <2>2, HeadTailProperties
  <2> QED
    BY <2>1, <2>3
<1>13. MapAt(op', j + 1)
  <2>0. PICK a, b, c : a = Len(op.left) /\ b = Len(op'.left) /\ c = Len(op.got)
    OBVIOUS
  <2>a. b = a - 1
    <3>1. Len(Tail(op.left)) = Len(op.left) - 1
      BY <1>12
    <3> QED
      BY <1>6, <2>0, <3>1
  <2>b. a \in Nat /\ c \in Nat /\ b = a - 1 /\ a = c - j /\ j + 1 \in 1 .. c
    BY <1>9, <1>10, <1>11, <2>0, <2>a
  <2>1. j + 1 \in 0 .. Len(op.got) /\ Len(op'.left) = Len(op.got) - (j + 1)
    BY ONLY <2>0, <2>b, j \in Nat
  <2>2. ASSUME NEW k \in 1 .. Len(op'.left) PROVE op'.left[k] = op.got[(j + 1) + k]
    <3>1. k \in 1 .. Len(op.left) - 1 /\ k + 1 \in 1 .. Len(op.left) /\ j + (k + 1) = (j + 1) + k
      BY ONLY <2>0, <2>b, j \in Nat, k \in 1 .. Len(op'.left)
    <3>2. op.left[k + 1] = op.got[j + (k + 1)]
      BY <1>7, <3>1 DEF MapAt
    <3> QED
      BY <1>6, <1>12, <3>1, <3>2
  <2>3. op'.at + op'.todo = op'.va + Starts(op'.got)[(j + 1) + 1]
    <3>1. op.at + op.todo = op.va + Starts(op.got)[j + 1]
      BY <1>7 DEF MapAt
    <3>2. Starts(op.got)[(j + 1) + 1] = Starts(op.got)[j + 1] + r.len /\ Starts(op.got)[j + 1] \in Nat /\ r.len \in Nat
      BY <1>9, <1>11
    <3> QED
      BY <1>2, <1>6, <1>8, <3>1, <3>2
  <2>4. op'.rng = op.got[j + 1].at /\ op'.off + op'.todo = op.got[j + 1].len
    BY <1>6, <1>9, <1>11
  <2> QED
    BY <1>6, <1>12, <2>1, <2>2, <2>3, <2>4 DEF MapAt
<1>14. Busy(op') /\ Shape(op')
  <2>1. op'.rng \in Nat /\ op'.todo \in Int /\ op'.off \in Nat /\ op'.at \in Nat /\ op'.va <= op'.at
    BY <1>4, <1>6, <1>9, <1>11 DEF Shape
  <2>2. Busy(op')
    BY <1>6 DEF Busy
  <2>3. op'.va \in Nat /\ op'.size \in Nat \ {0} /\ RangesOf(op'.got) /\ op'.up \in BOOLEAN
    BY <1>4, <1>6 DEF Shape
  <2> QED
    BY <1>6, <2>1, <2>2, <2>3 DEF Shape
<1>15. OpOK(op', Tr, given)
  <2>1. Total(op.got) = op.size /\ given # {} /\ \A v \in op.va .. op.va + op.size - 1 : Tr[v].k = "page" <=> v < op.at
    BY <1>2, <1>3, <1>4 DEF OpOK
  <2>2. op'.todo >= 0
    BY <1>6, <1>9, <1>11
  <2> QED
    BY <1>6, <1>13, <1>14, <2>1, <2>2 DEF OpOK
<1>16. Walking(tab, T, nr, op')
  BY <1>3, <1>4, <1>6 DEF Walking
<1>17. \A f : ~Exempt(op, f)
  BY <1>2 DEF Exempt
<1> QED
  BY <1>1, <1>2, <1>3, <1>6, <1>14, <1>15, <1>16, <1>17, CallGoesOn

(* Nothing is left to map: the whole range is.                             *)
LEMMA AllMapped ==
  ASSUME NEW T, NEW nr, InvAt(T, nr), op.kind = "map", op.todo = 0, op.left = <<>>
  PROVE  \A v \in op.va .. op.va + op.size - 1 : Tr[v].k = "page"
<1>1. Busy(op)
  BY DEF Busy
<1>2. Shape(op) /\ OpOK(op, Tr, given)
  BY <1>1, OpIs DEF InvAt
<1>3. PICK j \in Nat : MapAt(op, j)
  BY <1>2 DEF OpOK
<1>4. RangesOf(op.got) /\ op.va \in Nat /\ op.at \in Nat /\ op.size \in Nat
  BY <1>2 DEF Shape
<1>5. Len(op.got) \in Nat /\ \A k \in 1 .. Len(op.got) + 1 : Starts(op.got)[k] \in Nat
  BY <1>4, StartsIs
<1>6. j = Len(op.got)
  <2>1. Len(op.left) = 0 /\ Len(op.left) = Len(op.got) - j
    BY <1>3 DEF MapAt
  <2> QED
    BY <1>5, <2>1
<1>7. op.at = op.va + op.size
  <2>1. op.at + op.todo = op.va + Starts(op.got)[Len(op.got) + 1]
    BY <1>3, <1>6 DEF MapAt
  <2>2. Starts(op.got)[Len(op.got) + 1] = op.size
    BY <1>2 DEF OpOK, Total
  <2> QED
    BY <1>4, <2>1, <2>2
<1>8. \A v \in op.va .. op.va + op.size - 1 : Tr[v].k = "page" <=> v < op.at
  BY <1>2 DEF OpOK
<1> QED
  BY <1>4, <1>7, <1>8

(* A mapping is the client's when all of it is mapped; the TLB is          *)
(* invalidated with it.                                                    *)
LEMMA FinishMapKeeps == Inv /\ FinishMap => Inv'
<1>1. SUFFICES ASSUME NEW T, NEW nr, InvAt(T, nr), FinishMap PROVE Inv'
  BY DEF Inv
<1>2. PICK m : m = [va |-> op.va, size |-> op.size, paddrs |-> op.got, keep |-> maps = {}]
  OBVIOUS
<1>3. /\ op.kind = "map" /\ op.todo = 0 /\ ~op.up /\ op.left = <<>> /\ op' = Idle /\ maps' = maps \cup {m} /\ stale' = {}
      /\ tab' = tab /\ spaces' = spaces /\ parts' = parts /\ given' = given
  BY <1>1, <1>2 DEF FinishMap
<1>4. Busy(op) /\ given # {}
  <2>1. Busy(op)
    BY <1>3 DEF Busy
  <2> QED
    BY <1>1, <1>3, <2>1 DEF InvAt, OpOK
<1>5. m.va = op.va /\ m.size = op.size /\ m.paddrs = op.got
  BY <1>2
<1>6. Holding(maps', op') = Holding(maps, op)
  <2>1. Holder(m.va, m.size, m.paddrs) = Mine(op)
    BY <1>5 DEF Mine
  <2>2. Held(maps') = Held(maps) \cup {Mine(op)}
    BY <1>3, <2>1 DEF Held
  <2> QED
    BY <1>3, <1>4, <2>2, HoldingIs, IdleIs
<1>7. MapsOK(maps', op')
  BY <1>1, <1>3, <1>4, <1>5, IdleIs DEF InvAt, MapsOK
<1>8. Tr' = Tr
  BY <1>3, TrSame
<1>9. Complete(Tr, maps')
  <2>1. \A v \in op.va .. op.va + op.size - 1 : Tr[v].k = "page"
    BY <1>1, <1>3, AllMapped
  <2> QED
    BY <1>1, <1>3, <1>5, <2>1 DEF InvAt, Complete
<1>10. \A f : ~Exempt(op, f)
  BY <1>3 DEF Exempt
<1>11. Anchored(tab, T, nr, Tr, spaces, Holding(maps, op), op')
  BY <1>1, <1>10, AnchoredAs DEF InvAt
<1>12. OpOK(op', Tr, given) /\ Walking(tab, T, nr, op')
  BY <1>3, IdleIs DEF OpOK, Walking, Idle
<1>13. Fresh(maps', stale')
  BY <1>3 DEF Fresh
<1>14. Typed(tab') /\ Tree(tab', T, nr) /\ Leaves(tab', T, nr, spaces') /\ Walking(tab', T, nr, op')
       /\ PoolOK(spaces', VaPool) /\ PoolOK(parts', PaPool)
  BY <1>1, <1>3, <1>12 DEF InvAt
<1>15. HeldOK(Holding(maps', op'), spaces', parts') /\ Exact(Tr', Holding(maps', op'), parts') /\ Complete(Tr', maps')
       /\ OpOK(op', Tr', given') /\ Anchored(tab', T, nr, Tr', spaces', Holding(maps', op'), op') /\ given' # {}
  BY <1>1, <1>3, <1>4, <1>6, <1>8, <1>9, <1>11, <1>12 DEF InvAt
<1> QED
  BY <1>7, <1>13, <1>14, <1>15, InvMade

(* A range in which no page is allocated has none that is mapped.          *)
LEMMA FreeClean ==
  ASSUME NEW T, NEW nr, InvAt(T, nr), NEW va \in Nat, NEW size \in Nat, va + size <= VaPool,
         \A s \in spaces : \A v \in Nat : ~(InRange(s, v) /\ va <= v /\ v < va + size)
  PROVE  \A v \in 0 .. VaPool - 1 : va <= v /\ v < va + size => Tr[v].k # "page"
<1>1. SUFFICES ASSUME NEW v \in 0 .. VaPool - 1, va <= v, v < va + size, Tr[v].k = "page" PROVE FALSE
  OBVIOUS
<1>2. v \in 0 .. Limit - 1 /\ v \in Nat /\ Trans(tab, v).k = "page"
  BY <1>1, PoolBelow
<1>3. Typed(tab) /\ Tree(tab, T, nr) /\ Leaves(tab, T, nr, spaces)
  BY DEF InvAt
<1>4. \E s \in spaces : InRange(s, v)
  BY <1>2, <1>3, PageSpace
<1> QED
  BY <1>1, <1>2, <1>4

(* A page entry lies in one range still when more are allocated.           *)
LEMMA LeavesGrow ==
  ASSUME NEW t, NEW T, NEW nr, NEW S, NEW S2, Leaves(t, T, nr, S), S \subseteq S2
  PROVE  Leaves(t, T, nr, S2)
BY DEF Leaves, LeafIn

(* A call begins: what it holds is free.                                   *)
LEMMA Opened ==
  ASSUME NEW T, NEW nr, InvAt(T, nr), ~Busy(op), NEW size \in Nat \ {0}, NEW align \in Nat \ {0},
         NEW va \in Places(VaPool, spaces, size, align), NEW u, Busy(u), u.va = va, u.size = size,
         NEW S2, S2 = spaces \cup {[at |-> va, len |-> size]},
         NEW P2, PoolOK(P2, PaPool), parts \subseteq P2, RangesOf(u.got),
         \A j \in DOMAIN u.got : u.got[j] \in P2 \ parts,
         \A j, k \in DOMAIN u.got : u.got[j] = u.got[k] => j = k
  PROVE  /\ va \in Nat /\ va + size <= VaPool /\ va \in 0 .. VaPool - 1
         /\ PoolOK(S2, VaPool) /\ HeldOK(Holding(maps, u), S2, P2) /\ MapsOK(maps, u)
         /\ Exact(Tr, Holding(maps, u), P2) /\ Clean(Tr, u) /\ Leaves(tab, T, nr, S2)
         /\ \A v \in 0 .. VaPool - 1 : Lost(spaces, Holding(maps, op), v) => Lost(S2, Holding(maps, u), v)
<1>1. PICK G, h : G = Held(maps) /\ h = Mine(u)
  OBVIOUS
<1>2. /\ Holding(maps, op) = G /\ Holding(maps, u) = G \cup {h}
      /\ h.va = va /\ h.size = size /\ h.ps = u.got /\ Space(h) = [at |-> va, len |-> size]
  BY <1>1, HoldingIs, MineIs
<1>3. PoolOK(spaces, VaPool) /\ HeldOK(G, spaces, parts) /\ Exact(Tr, G, parts) /\ Leaves(tab, T, nr, spaces) /\ VaPool \in Nat
  BY <1>2, PoolAssumption DEF InvAt
<1>4. /\ va \in Nat /\ va + size <= VaPool /\ PoolOK(S2, VaPool) /\ \A r \in spaces : r.at # va
      /\ \A r \in spaces : \A v \in Nat : ~(InRange(r, v) /\ va <= v /\ v < va + size)
  BY <1>3, PlacesFree
<1>5. \A g \in G : g.va # h.va
  <2>1. SUFFICES ASSUME NEW g \in G PROVE g.va # va
    BY <1>2
  <2>2. Space(g) \in spaces /\ Space(g).at = g.va
    BY <1>3 DEF HeldOK, Space
  <2> QED
    BY <1>4, <2>2
<1>6. HeldOne(h, S2, P2)
  BY <1>2, <1>4 DEF HeldOne
<1>7. Apart(G, h)
  <2>1. ASSUME NEW g \in G, NEW j \in DOMAIN g.ps, NEW k \in DOMAIN h.ps PROVE g.ps[j] # h.ps[k]
    <3>1. g.ps[j] \in parts
      BY <1>3 DEF HeldOK
    <3>2. h.ps[k] \notin parts
      BY <1>2
    <3> QED
      BY <3>1, <3>2
  <2> QED
    BY <1>5, <2>1 DEF Apart
<1>8. HeldOK(G, S2, P2)
  <2>1. G \subseteq G /\ \A g \in G : Space(g) \in S2 /\ \A j \in DOMAIN g.ps : g.ps[j] \in P2
    BY <1>3 DEF HeldOK
  <2> QED
    BY <1>3, <2>1, HeldPart
<1>9. HeldOK(G \cup {h}, S2, P2)
  BY <1>6, <1>7, <1>8, HeldJoin
<1>10. \A v \in 0 .. VaPool - 1 : va <= v /\ v < va + size => Tr[v].k # "page"
  BY <1>4, FreeClean
<1>11. \A v \in 0 .. VaPool - 1 : InVA(h, v) => Tr[v].k # "page"
  BY <1>2, <1>10 DEF InVA
<1>12. Clean(Tr, u)
  <2>1. SUFFICES ASSUME NEW v \in u.va .. u.va + u.size - 1 PROVE Tr[v].k # "page"
    BY DEF Clean
  <2>2. v \in 0 .. VaPool - 1 /\ va <= v /\ v < va + size
    BY <1>3, <1>4
  <2> QED
    BY <1>10, <2>2
<1>13. ExactOne(Tr, h)
  <2>1. \A v \in 0 .. VaPool - 1 : Tr[v].k = "page" => Tr[v].at \in Nat /\ Owned(parts, Tr[v].at)
    BY <1>3 DEF Exact
  <2>2. RangesOf(h.ps) /\ \A j \in DOMAIN h.ps : h.ps[j] \in P2 \ parts
    BY <1>2
  <2> QED
    BY <1>11, <2>1, <2>2, ExactClean
<1>14. Exact(Tr, G \cup {h}, P2)
  <2>1. Exact(Tr, G, P2)
    BY <1>3, ExactPart
  <2> QED
    BY <1>13, <2>1, ExactJoin
<1>15. MapsOK(maps, u)
  <2>1. ASSUME NEW m \in maps PROVE m.va # va
    <3>1. \E g \in Holding(maps, op) : g.va = m.va
      BY MapHeld
    <3> QED
      BY <1>2, <1>5, <3>1
  <2> QED
    BY <2>1 DEF InvAt, MapsOK
<1>16. Leaves(tab, T, nr, S2)
  BY <1>3, LeavesGrow
<1>17. ASSUME NEW v \in 0 .. VaPool - 1, Lost(spaces, G, v) PROVE Lost(S2, G \cup {h}, v)
  BY <1>2, <1>4, <1>17 DEF Lost
<1>18. va \in 0 .. VaPool - 1
  BY <1>3, <1>4
<1> QED
  BY <1>2, <1>4, <1>9, <1>12, <1>14, <1>15, <1>16, <1>17, <1>18

(* The call that begins.                                                   *)
LEMMA OpenedKeeps ==
  ASSUME NEW T, NEW nr, InvAt(T, nr), op = Idle, NEW size \in Nat \ {0}, NEW align \in Nat \ {0},
         NEW va \in Places(VaPool, spaces, size, align), Busy(op'), op'.va = va, op'.size = size,
         spaces' = spaces \cup {[at |-> va, len |-> size]},
         PoolOK(parts', PaPool), parts \subseteq parts', RangesOf(op'.got),
         \A j \in DOMAIN op'.got : op'.got[j] \in parts' \ parts,
         \A j, k \in DOMAIN op'.got : op'.got[j] = op'.got[k] => j = k,
         tab' = tab, maps' = maps, given' = given, stale' = stale,
         op'.stack = Context(va), op'.at = va,
         Clean(Tr, op') => OpOK(op', Tr, given)
  PROVE  Inv'
<1>1. ~Busy(op)
  BY IdleIs
<1>2. /\ va \in Nat /\ va + size <= VaPool /\ va \in 0 .. VaPool - 1
      /\ PoolOK(spaces', VaPool) /\ HeldOK(Holding(maps, op'), spaces', parts') /\ MapsOK(maps, op')
      /\ Exact(Tr, Holding(maps, op'), parts') /\ Clean(Tr, op') /\ Leaves(tab, T, nr, spaces')
      /\ \A v \in 0 .. VaPool - 1 : Lost(spaces, Holding(maps, op), v) => Lost(spaces', Holding(maps, op'), v)
  BY <1>1, Opened
<1>3. Tr' = Tr
  BY TrSame
<1>4. Walking(tab, T, nr, op')
  BY <1>2, Begins DEF InvAt, Walking
<1>5. \A f : ~Exempt(op, f)
  BY <1>1 DEF Exempt
<1>6. Anchored(tab, T, nr, Tr, spaces', Holding(maps, op'), op')
  <2>1. Anchored(tab, T, nr, Tr, spaces, Holding(maps, op), op)
    BY DEF InvAt
  <2>2. \A v \in 0 .. VaPool - 1 : Lost(spaces, Holding(maps, op), v) => Lost(spaces', Holding(maps, op'), v)
    BY <1>2
  <2>3. \A f \in T \ {Root} : Exempt(op, f) => Exempt(op', f) \/ Anchor(tab, nr, Tr, spaces', Holding(maps, op'), f)
    BY <1>5
  <2> QED
    BY ONLY <2>1, <2>2, <2>3, AnchoredAs
<1>7. Typed(tab') /\ Tree(tab', T, nr) /\ Leaves(tab', T, nr, spaces') /\ Walking(tab', T, nr, op')
       /\ PoolOK(spaces', VaPool) /\ PoolOK(parts', PaPool) /\ MapsOK(maps', op') /\ Fresh(maps', stale')
  BY <1>2, <1>4 DEF InvAt
<1>8. HeldOK(Holding(maps', op'), spaces', parts') /\ Exact(Tr', Holding(maps', op'), parts') /\ Complete(Tr', maps')
       /\ OpOK(op', Tr', given') /\ Anchored(tab', T, nr, Tr', spaces', Holding(maps', op'), op')
       /\ (given' = {} => Blank(Tr', maps'))
  BY <1>2, <1>3, <1>6 DEF InvAt
<1> QED
  BY <1>7, <1>8, InvMade

(* valloc() takes a range in which nothing is mapped ...                   *)
LEMMA VallocKeeps == ASSUME NEW size \in Sizes PROVE Inv /\ Valloc(size) => Inv'
<1>1. SUFFICES ASSUME NEW T, NEW nr, InvAt(T, nr), Valloc(size) PROVE Inv'
  BY DEF Inv
<1>2. size \in Nat \ {0} /\ AlignOf(size) \in Nat \ {0}
  BY SizeAssumption, AlignAssumption
<1>3. PICK va \in Places(VaPool, spaces, size, AlignOf(size)) :
        spaces' = spaces \cup {[at |-> va, len |-> size]} /\ op' = Call("alloc", va, size)
  BY <1>1 DEF Valloc
<1>4. op = Idle /\ given # {} /\ tab' = tab /\ parts' = parts /\ maps' = maps /\ given' = given /\ stale' = stale
  BY <1>1 DEF Valloc
<1>5. /\ op'.kind = "alloc" /\ op'.va = va /\ op'.size = size /\ op'.got = <<>> /\ op'.rng = 1 /\ op'.left = <<>>
      /\ op'.stack = Context(va) /\ op'.at = va /\ op'.todo = size /\ op'.off = 0 /\ op'.up = FALSE
      /\ IsCall(op')
  BY <1>3 DEF Call, IsCall
<1>6. PoolOK(spaces, VaPool) /\ PoolOK(parts, PaPool) /\ VaPool \in Nat
  BY <1>1, PoolAssumption DEF InvAt
<1>7. va \in Nat
  BY <1>2, <1>6, PlacesFree
<1>8. Busy(op') /\ Shape(op')
  <2>1. op'.up \in BOOLEAN
    BY <1>5, Zenon
  <2>2. Busy(op')
    BY <1>5 DEF Busy
  <2>3. op'.rng \in Nat /\ op'.todo \in Int /\ op'.off \in Nat /\ op'.at \in Nat /\ op'.va <= op'.at
    BY <1>2, <1>5, <1>7
  <2>4. op'.va \in Nat /\ op'.size \in Nat \ {0} /\ RangesOf(op'.got)
    BY <1>2, <1>5, <1>7, NoRanges
  <2> QED
    BY <1>5, <2>1, <2>2, <2>3, <2>4 DEF Shape
<1>9. 1 \in 1 .. Len(Ranges)
  BY RangeAssumption
<1>10. Clean(Tr, op') => OpOK(op', Tr, given)
  BY <1>2, <1>4, <1>5, <1>8, <1>9, NoRanges DEF OpOK
<1>11. DOMAIN op'.got = {}
  BY <1>5
<1>12. RangesOf(op'.got)
  BY <1>5, NoRanges
<1> QED
  BY <1>1, <1>2, <1>3, <1>4, <1>5, <1>6, <1>8, <1>10, <1>11, <1>12, OpenedKeeps

(* ... and for a contiguous one the physical range at once.                *)
LEMMA VallocContiguousKeeps == ASSUME NEW size \in Sizes PROVE Inv /\ VallocContiguous(size) => Inv'
<1>1. SUFFICES ASSUME NEW T, NEW nr, InvAt(T, nr), VallocContiguous(size) PROVE Inv'
  BY DEF Inv
<1>2. size \in Nat \ {0} /\ AlignOf(size) \in Nat \ {0} /\ PaPool \in Nat /\ VaPool \in Nat
  BY SizeAssumption, AlignAssumption, PoolAssumption
<1>3. op = Idle /\ given # {} /\ tab' = tab /\ maps' = maps /\ given' = given /\ stale' = stale
  BY <1>1 DEF VallocContiguous
<1>4. PICK va \in Places(VaPool, spaces, size, AlignOf(size)) :
        /\ spaces' = spaces \cup {[at |-> va, len |-> size]}
        /\ \/ \E at \in Places(PaPool, parts, size, 1) :
                 /\ parts' = parts \cup {[at |-> at, len |-> size]}
                 /\ op' = [Call("alloc", va, size) EXCEPT !.got = <<[at |-> at, len |-> size]>>, !.todo = 0]
           \/ parts' = parts /\ op' = op
  BY <1>1 DEF VallocContiguous
<1>5. PoolOK(spaces, VaPool) /\ PoolOK(parts, PaPool)
  BY <1>1 DEF InvAt
<1>6. va \in Nat /\ PoolOK(spaces', VaPool) /\ va + size <= VaPool
  BY <1>2, <1>4, <1>5, PlacesFree
<1>7. CASE parts' = parts /\ op' = op
  <2>1. Tr' = Tr
    BY <1>3, TrSame
  <2>2. Holding(maps', op') = Holding(maps, op) /\ MapsOK(maps', op')
    BY <1>1, <1>3, <1>7 DEF InvAt
  <2>3. HeldOK(Holding(maps, op), spaces', parts)
    <3>1. PICK H : H = Holding(maps, op)
      OBVIOUS
    <3>2. HeldOK(H, spaces, parts)
      BY <1>1, <3>1 DEF InvAt
    <3>3. H \subseteq H /\ \A g \in H : Space(g) \in spaces' /\ \A j \in DOMAIN g.ps : g.ps[j] \in parts
      BY <1>4, <3>2 DEF HeldOK
    <3>4. HeldOK(H, spaces', parts)
      BY <3>2, <3>3, HeldPart
    <3> QED
      BY <3>1, <3>4
  <2>4. Leaves(tab, T, nr, spaces')
    BY <1>1, <1>4, LeavesGrow DEF InvAt
  <2>5. \A v \in 0 .. VaPool - 1 : Lost(spaces, Holding(maps, op), v) => Lost(spaces', Holding(maps, op), v)
    BY <1>4 DEF Lost
  <2>6. Anchored(tab, T, nr, Tr, spaces, Holding(maps, op), op)
    BY <1>1 DEF InvAt
  <2>7. \A f \in T \ {Root} : Exempt(op, f) => Exempt(op, f) \/ Anchor(tab, nr, Tr, spaces', Holding(maps, op), f)
    OBVIOUS
  <2>8. Anchored(tab, T, nr, Tr, spaces', Holding(maps, op), op)
    BY ONLY <2>5, <2>6, <2>7, AnchoredAs
  <2>9. Typed(tab') /\ Tree(tab', T, nr) /\ Leaves(tab', T, nr, spaces') /\ Walking(tab', T, nr, op')
         /\ PoolOK(spaces', VaPool) /\ PoolOK(parts', PaPool) /\ MapsOK(maps', op') /\ Fresh(maps', stale')
    BY <1>1, <1>3, <1>5, <1>6, <1>7, <2>2, <2>4 DEF InvAt
  <2>10. HeldOK(Holding(maps', op'), spaces', parts') /\ Exact(Tr', Holding(maps', op'), parts') /\ Complete(Tr', maps')
         /\ OpOK(op', Tr', given') /\ Anchored(tab', T, nr, Tr', spaces', Holding(maps', op'), op')
         /\ (given' = {} => Blank(Tr', maps'))
    BY <1>1, <1>3, <1>7, <2>1, <2>2, <2>3, <2>8 DEF InvAt
  <2> QED
    BY <2>9, <2>10, InvMade
<1>8. ASSUME NEW at \in Places(PaPool, parts, size, 1), parts' = parts \cup {[at |-> at, len |-> size]},
             op' = [Call("alloc", va, size) EXCEPT !.got = <<[at |-> at, len |-> size]>>, !.todo = 0]
      PROVE  Inv'
  <2>1. PICK r : r = [at |-> at, len |-> size]
    OBVIOUS
  <2>2. at \in Nat /\ PoolOK(parts', PaPool) /\ r \notin parts
    BY <1>2, <1>5, <1>8, <2>1, PlacesFree
  <2>3. /\ op'.kind = "alloc" /\ op'.va = va /\ op'.size = size /\ op'.got = <<r>> /\ op'.rng = 1 /\ op'.left = <<>>
        /\ op'.stack = Context(va) /\ op'.at = va /\ op'.todo = 0 /\ op'.off = 0 /\ op'.up = FALSE
        /\ IsCall(op')
    BY <1>8, <2>1 DEF Call, IsCall
  <2>4. RangesOf(<<r>>) /\ Total(<<r>>) = size /\ Len(<<r>>) = 1 /\ <<r>>[1] = r
    <3>1. r \in [at : Nat, len : Nat] /\ r.len = size
      BY <1>2, <2>1, <2>2
    <3>2. RangesOf(<<r>>)
      BY <3>1 DEF RangesOf
    <3>3. Len(<<r>>) = 1 /\ <<r>>[1] = r
      OBVIOUS
    <3>4. Starts(<<r>>)[1] = 0 /\ Starts(<<r>>)[1 + 1] = Starts(<<r>>)[1] + <<r>>[1].len
      <4>1. PICK q : q = <<r>>
        OBVIOUS
      <4>2. RangesOf(q) /\ Len(q) = 1
        BY <3>2, <3>3, <4>1
      <4>3. Starts(q)[1] = 0 /\ Starts(q)[1 + 1] = Starts(q)[1] + q[1].len
        <5>1. Starts(q)[1] = 0 /\ \A j \in 1 .. Len(q) : Starts(q)[j + 1] = Starts(q)[j] + q[j].len
          BY <4>2, StartsIs
        <5>2. 1 \in 1 .. Len(q)
          BY <4>2
        <5> QED
          BY ONLY <5>1, <5>2
      <4> QED
        BY <4>1, <4>3
    <3> QED
      BY <1>2, <3>1, <3>2, <3>3, <3>4 DEF Total
  <2>5. Busy(op') /\ Shape(op')
    <3>1. op'.up \in BOOLEAN
      BY <2>3, Zenon
    <3>2. Busy(op')
      BY <2>3 DEF Busy
    <3>3. op'.rng \in Nat /\ op'.todo \in Int /\ op'.off \in Nat /\ op'.at \in Nat /\ op'.va <= op'.at
      BY <1>2, <1>6, <2>3
    <3>4. op'.va \in Nat /\ op'.size \in Nat \ {0} /\ RangesOf(op'.got)
      BY <1>2, <1>6, <2>3, <2>4
    <3> QED
      BY <2>3, <3>1, <3>2, <3>3, <3>4 DEF Shape
  <2>6. 1 \in 1 .. Len(Ranges)
    BY RangeAssumption
  <2>7. Clean(Tr, op') => OpOK(op', Tr, given)
    BY <1>2, <1>3, <2>3, <2>4, <2>5, <2>6 DEF OpOK
  <2>8. DOMAIN op'.got = {1} /\ op'.got[1] = r
    BY <2>3
  <2>9. RangesOf(op'.got)
    BY <2>3, <2>4
  <2>10. /\ \A j \in DOMAIN op'.got : op'.got[j] \in parts' \ parts
         /\ \A j, k \in DOMAIN op'.got : op'.got[j] = op'.got[k] => j = k
    BY <1>8, <2>1, <2>2, <2>8
  <2> QED
    BY <1>1, <1>2, <1>3, <1>4, <1>8, <2>2, <2>3, <2>5, <2>7, <2>9, <2>10, OpenedKeeps
<1> QED
  BY <1>4, <1>7, <1>8

(* page_tables() before anything is mapped.                                *)
LEMMA ReserveKeeps == Inv /\ Reserve => Inv'
<1>1. SUFFICES ASSUME NEW T, NEW nr, InvAt(T, nr), Reserve PROVE Inv'
  BY DEF Inv
<1>2. Reserved \in Nat \ {0}
  BY SizeAssumption
<1>3. PICK va \in Places(VaPool, spaces, Reserved, Reserved) :
        spaces' = spaces \cup {[at |-> va, len |-> Reserved]} /\ op' = Call("reserve", va, Reserved)
  BY <1>1 DEF Reserve
<1>4. op = Idle /\ given = {} /\ tab' = tab /\ parts' = parts /\ maps' = maps /\ given' = given /\ stale' = stale
  BY <1>1 DEF Reserve
<1>5. /\ op'.kind = "reserve" /\ op'.va = va /\ op'.size = Reserved /\ op'.got = <<>> /\ op'.rng = 1 /\ op'.left = <<>>
      /\ op'.stack = Context(va) /\ op'.at = va /\ op'.todo = Reserved /\ op'.off = 0 /\ op'.up = FALSE
      /\ IsCall(op')
  BY <1>3 DEF Call, IsCall
<1>6. PoolOK(spaces, VaPool) /\ PoolOK(parts, PaPool) /\ VaPool \in Nat
  BY <1>1, PoolAssumption DEF InvAt
<1>7. va \in Nat
  BY <1>2, <1>6, PlacesFree
<1>8. Busy(op') /\ Shape(op')
  <2>1. op'.up \in BOOLEAN
    BY <1>5, Zenon
  <2>2. Busy(op')
    BY <1>5 DEF Busy
  <2>3. op'.rng \in Nat /\ op'.todo \in Int /\ op'.off \in Nat /\ op'.at \in Nat /\ op'.va <= op'.at
    BY <1>2, <1>5, <1>7
  <2>4. op'.va \in Nat /\ op'.size \in Nat \ {0} /\ RangesOf(op'.got)
    BY <1>2, <1>5, <1>7, NoRanges
  <2> QED
    BY <1>5, <2>1, <2>2, <2>3, <2>4 DEF Shape
<1>9. OpOK(op', Tr, given)
  BY <1>2, <1>4, <1>5, <1>8 DEF OpOK
<1>10. DOMAIN op'.got = {}
  BY <1>5
<1>11. RangesOf(op'.got)
  BY <1>5, NoRanges
<1> QED
  BY <1>1, <1>2, <1>3, <1>4, <1>5, <1>6, <1>8, <1>9, <1>10, <1>11, OpenedKeeps

(* The ranges tried end with one of a single page, which is never too      *)
(* large for what is left.                                                 *)
LEMMA TryingIs ==
  ASSUME op.rng \in 1 .. Len(Ranges), op.todo \in Nat \ {0}
  PROVE  /\ Trying \in op.rng .. Len(Ranges) /\ Ranges[Trying] <= op.todo /\ Ranges[Trying] \in Nat \ {0}
         /\ Len(Ranges) \in Nat
<1>1. Len(Ranges) \in Nat /\ \A x \in 1 .. Len(Ranges) : Ranges[x] \in Nat \ {0}
  BY RangeAssumption
<1> DEFINE X == {x \in Nat : x \in op.rng .. Len(Ranges) /\ Ranges[x] <= op.todo}
<1>2. Len(Ranges) \in X
  BY <1>1, RangeAssumption
<1>3. PICK x \in X : \A y \in X : x <= y
  <2>1. X \in SUBSET Nat /\ X # {}
    BY <1>2
  <2> HIDE DEF X
  <2> QED
    BY <2>1, Least
<1>4. x \in op.rng .. Len(Ranges) /\ Ranges[x] <= op.todo
  OBVIOUS
<1>5. ASSUME NEW y \in op.rng .. x - 1 PROVE Ranges[y] > op.todo
  <2>1. y \in Nat /\ y \in op.rng .. Len(Ranges) /\ ~(x <= y)
    BY <1>1, <1>4
  <2>2. y \notin X
    <3> HIDE DEF X
    <3> QED
      BY <1>3, <2>1
  <2>3. Ranges[y] \in Nat
    BY <1>1, <2>1
  <2> QED
    BY <2>1, <2>2, <2>3
<1>6. /\ Trying \in op.rng .. Len(Ranges)
      /\ Ranges[Trying] <= op.todo /\ \A y \in op.rng .. Trying - 1 : Ranges[y] > op.todo
  <2> HIDE DEF X
  <2> QED
    BY <1>4, <1>5 DEF Trying
<1> QED
  BY <1>1, <1>6

(* A physical range more, apart from those others hold.                    *)
LEMMA PallocRangeKeeps == Inv /\ PallocRange => Inv'
<1>1. SUFFICES ASSUME NEW T, NEW nr, InvAt(T, nr), PallocRange PROVE Inv'
  BY DEF Inv
<1>2. op.kind = "alloc" /\ op.todo > 0 /\ tab' = tab /\ spaces' = spaces /\ maps' = maps /\ given' = given /\ stale' = stale
  BY <1>1 DEF PallocRange
<1>3. Busy(op)
  BY <1>2 DEF Busy
<1>4. Shape(op) /\ OpOK(op, Tr, given) /\ Walking(tab, T, nr, op)
  BY <1>1, <1>3, OpIs DEF InvAt
<1>5. op.todo \in Nat \ {0} /\ op.rng \in 1 .. Len(Ranges) /\ given # {} /\ Total(op.got) + op.todo = op.size
      /\ Clean(Tr, op) /\ op.at = op.va /\ RangesOf(op.got) /\ op.size \in Nat
  BY <1>2, <1>3, <1>4 DEF OpOK, Shape
<1>6. Trying \in op.rng .. Len(Ranges) /\ Ranges[Trying] <= op.todo /\ Ranges[Trying] \in Nat \ {0} /\ Len(Ranges) \in Nat
  BY <1>5, TryingIs
<1>7. PICK at \in Places(PaPool, parts, Ranges[Trying], Ranges[Trying]) :
        /\ parts' = parts \cup {[at |-> at, len |-> Ranges[Trying]]}
        /\ op' = [op EXCEPT !.got = Append(@, [at |-> at, len |-> Ranges[Trying]]), !.rng = Trying, !.todo = @ - Ranges[Trying]]
  BY ONLY <1>1, ZenonT(40) DEF PallocRange
<1>8. PICK r : r = [at |-> at, len |-> Ranges[Trying]]
  OBVIOUS
<1>9. PoolOK(parts, PaPool) /\ PaPool \in Nat
  BY <1>1, PoolAssumption DEF InvAt
<1>10. at \in Nat /\ PoolOK(parts', PaPool) /\ r \notin parts
  BY <1>6, <1>7, <1>8, <1>9, PlacesFree
<1>11. r \in [at : Nat, len : Nat] /\ r.len = Ranges[Trying]
  BY <1>6, <1>8, <1>10
<1>12. PICK q : q = Append(op.got, r)
  OBVIOUS
<1>13. /\ op'.kind = "alloc" /\ op'.va = op.va /\ op'.size = op.size /\ op'.got = q /\ op'.rng = Trying /\ op'.left = op.left
       /\ op'.stack = op.stack /\ op'.at = op.at /\ op'.todo = op.todo - r.len /\ op'.off = op.off /\ op'.up = op.up
       /\ IsCall(op')
  BY <1>2, <1>4, <1>7, <1>8, <1>11, <1>12 DEF Shape, IsCall
<1>14. /\ RangesOf(q) /\ Len(q) = Len(op.got) + 1 /\ \A j \in 1 .. Len(op.got) : q[j] = op.got[j]
       /\ q[Len(op.got) + 1] = r
       /\ Starts(q)[Len(op.got) + 2] = Starts(op.got)[Len(op.got) + 1] + r.len
  <2>1. PICK rs : rs = op.got /\ RangesOf(rs)
    BY <1>5
  <2>2. /\ RangesOf(Append(rs, r)) /\ Len(Append(rs, r)) = Len(rs) + 1
        /\ \A j \in 1 .. Len(rs) : Append(rs, r)[j] = rs[j]
        /\ Append(rs, r)[Len(rs) + 1] = r
        /\ Starts(Append(rs, r))[Len(rs) + 2] = Starts(rs)[Len(rs) + 1] + r.len
    BY ONLY <1>11, <2>1, StartsAppend
  <2> QED
    BY ONLY <1>12, <2>1, <2>2
<1>15. Len(op.got) \in Nat /\ DOMAIN op.got = 1 .. Len(op.got) /\ DOMAIN q = 1 .. Len(op.got) + 1
       /\ Total(op.got) \in Nat /\ Total(q) = Total(op.got) + r.len
  <2>1. Len(op.got) \in Nat /\ DOMAIN op.got = 1 .. Len(op.got) /\ Starts(op.got)[Len(op.got) + 1] \in Nat
    BY <1>5, StartsIs
  <2>2. DOMAIN q = 1 .. Len(q)
    BY <1>14, StartsIs
  <2>3. (Len(op.got) + 1) + 1 = Len(op.got) + 2
    BY <2>1
  <2> QED
    BY <1>14, <2>1, <2>2, <2>3 DEF Total
<1>16. PICK G, g, h : G = Held(maps) /\ g = Mine(op) /\ h = Mine(op')
  OBVIOUS
<1>17. Busy(op')
  BY <1>13 DEF Busy
<1>18. /\ Holding(maps, op) = G \cup {g} /\ Holding(maps, op') = G \cup {h}
       /\ g.va = op.va /\ g.size = op.size /\ g.ps = op.got /\ h.va = op.va /\ h.size = op.size /\ h.ps = q
       /\ Space(g) = Space(h)
  BY <1>3, <1>13, <1>16, <1>17, HoldingIs, MineIs
<1>19. HeldOK(G \cup {g}, spaces, parts) /\ Exact(Tr, G \cup {g}, parts)
  BY <1>1, <1>18 DEF InvAt
<1>20. \A f \in G : f.va # g.va
  <2>1. \A m \in maps : m.va # op.va
    BY <1>1, <1>3 DEF InvAt, MapsOK
  <2> QED
    BY <1>16, <1>18, <2>1, HeldIs
<1>21. HeldOne(g, spaces, parts) /\ Apart(G, g)
  BY <1>19, <1>20, HeldApart
<1>22. parts \subseteq parts' /\ r \in parts' /\ r \notin parts
  BY <1>7, <1>8, <1>10
<1>23. \A j \in 1 .. Len(op.got) : q[j] \in parts
  BY <1>14, <1>15, <1>18, <1>21 DEF HeldOne
<1>24. \A j \in DOMAIN q : j \in 1 .. Len(op.got) \/ j = Len(op.got) + 1
  BY <1>15
<1>25. HeldOne(h, spaces, parts')
  <2>1. \A j \in DOMAIN q : q[j] \in parts'
    BY <1>14, <1>22, <1>23, <1>24
  <2>2. ASSUME NEW j \in DOMAIN q, NEW k \in DOMAIN q, q[j] = q[k] PROVE j = k
    <3>1. CASE j \in 1 .. Len(op.got) /\ k \in 1 .. Len(op.got)
      BY <1>14, <1>15, <1>18, <1>21, <2>2, <3>1 DEF HeldOne
    <3>2. CASE j = Len(op.got) + 1 /\ k \in 1 .. Len(op.got)
      BY <1>14, <1>22, <1>23, <2>2, <3>2
    <3>3. CASE k = Len(op.got) + 1 /\ j \in 1 .. Len(op.got)
      BY <1>14, <1>22, <1>23, <2>2, <3>3
    <3> QED
      BY <1>24, <3>1, <3>2, <3>3
  <2>3. Space(h) \in spaces /\ h.va \in Nat /\ h.size \in Nat \ {0}
    BY <1>18, <1>21 DEF HeldOne
  <2> QED
    BY <1>14, <1>18, <2>1, <2>2, <2>3 DEF HeldOne
<1>26. Apart(G, h)
  <2>1. ASSUME NEW f \in G, NEW j \in DOMAIN f.ps, NEW k \in DOMAIN q PROVE f.ps[j] # q[k]
    <3>1. f.ps[j] \in parts
      BY <1>19 DEF HeldOK
    <3>2. CASE k \in 1 .. Len(op.got)
      BY <1>14, <1>15, <1>18, <1>21, <3>2 DEF Apart
    <3>3. CASE k = Len(op.got) + 1
      BY <1>14, <1>22, <3>1, <3>3
    <3> QED
      BY <1>24, <3>2, <3>3
  <2> QED
    BY <1>18, <1>20, <2>1 DEF Apart
<1>27. HeldOK(G \cup {h}, spaces, parts')
  <2>1. HeldOK(G, spaces, parts')
    <3>1. G \subseteq G \cup {g} /\ \A f \in G : Space(f) \in spaces /\ \A j \in DOMAIN f.ps : f.ps[j] \in parts'
      BY <1>19, <1>22 DEF HeldOK
    <3> QED
      BY <1>19, <3>1, HeldPart
  <2> QED
    BY <1>25, <1>26, <2>1, HeldJoin
<1>28. \A v \in 0 .. VaPool - 1 : InVA(h, v) => Tr[v].k # "page"
  <2>1. op.va \in Nat /\ op.size \in Nat
    BY <1>4 DEF Shape
  <2> QED
    BY <1>5, <1>18, <2>1 DEF InVA, Clean
<1>29. ExactOne(Tr, h)
  <2>1. \A v \in 0 .. VaPool - 1 : Tr[v].k = "page" => Tr[v].at \in Nat /\ Owned(parts, Tr[v].at)
    BY <1>19 DEF Exact
  <2>2. ASSUME NEW j \in 1 .. Len(op.got), NEW v \in 0 .. VaPool - 1, Tr[v].k = "page" PROVE ~InRange(q[j], Tr[v].at)
    <3>1. ~InVA(g, v)
      BY <1>18, <1>28, <2>2 DEF InVA
    <3>2. ~InPA(g, Tr[v].at)
      BY <1>19, <2>2, <3>1 DEF Exact
    <3> QED
      BY <1>14, <1>15, <1>18, <3>2 DEF InPA
  <2>3. \A j \in DOMAIN h.ps : h.ps[j] \in parts' \ parts
           \/ \A v \in 0 .. VaPool - 1 : Tr[v].k = "page" => ~InRange(h.ps[j], Tr[v].at)
    BY <1>14, <1>18, <1>22, <1>24, <2>2
  <2>4. RangesOf(h.ps)
    BY <1>14, <1>18
  <2> QED
    BY <1>10, <1>22, <1>28, <2>1, <2>3, <2>4, ExactClean
<1>30. Exact(Tr, G \cup {h}, parts')
  <2>1. Exact(Tr, G, parts')
    <3>1. G \subseteq G \cup {g}
      OBVIOUS
    <3> QED
      BY <1>19, <1>22, <3>1, ExactPart
  <2> QED
    BY <1>29, <2>1, ExactJoin
<1>31. Shape(op')
  <2>1. op'.rng \in Nat /\ op'.todo \in Int /\ op'.off \in Nat /\ op'.at \in Nat /\ op'.va <= op'.at
    BY <1>4, <1>5, <1>6, <1>11, <1>13 DEF Shape
  <2>2. op'.va \in Nat /\ op'.size \in Nat \ {0} /\ RangesOf(op'.got) /\ op'.up \in BOOLEAN
    BY <1>4, <1>13, <1>14 DEF Shape
  <2> QED
    BY <1>13, <2>1, <2>2 DEF Shape
<1>32. OpOK(op', Tr, given)
  <2>1. op'.rng \in 1 .. Len(Ranges) /\ op'.todo >= 0 /\ Total(op'.got) + op'.todo = op'.size
    <3>1. PICK y, n, u : y = op.todo /\ n = r.len /\ u = Total(op.got)
      OBVIOUS
    <3>2. y \in Nat /\ n \in Nat /\ n <= y /\ u \in Nat /\ u + y = op.size
      BY ONLY <1>5, <1>6, <1>11, <1>15, <3>1
    <3>3. Total(q) = u + n
      BY ONLY <1>15, <3>1
    <3>4. op'.todo = y - n /\ Total(op'.got) = u + n /\ op'.size = u + y
      BY ONLY <1>13, <3>1, <3>2, <3>3
    <3>5. y - n >= 0 /\ (u + n) + (y - n) = u + y
      BY ONLY <3>2
    <3>6. Trying \in 1 .. Len(Ranges)
      BY ONLY <1>5, <1>6
    <3>7. op'.rng = Trying
      BY ONLY <1>13
    <3> QED
      BY ONLY <3>4, <3>5, <3>6, <3>7
  <2>2. Clean(Tr, op')
    BY <1>5, <1>13 DEF Clean
  <2> QED
    BY <1>5, <1>13, <1>17, <1>31, <2>1, <2>2 DEF OpOK
<1>33. Walking(tab, T, nr, op')
  BY <1>3, <1>4, <1>13 DEF Walking
<1>34. Tr' = Tr
  BY <1>2, TrSame
<1>35. MapsOK(maps, op')
  BY <1>1, <1>3, <1>13 DEF InvAt, MapsOK
<1>36. Anchored(tab, T, nr, Tr, spaces, G \cup {h}, op')
  <2>1. \A v \in 0 .. VaPool - 1 : Lost(spaces, G \cup {g}, v) => Lost(spaces, G \cup {h}, v)
    BY <1>18 DEF Lost
  <2>2. Anchored(tab, T, nr, Tr, spaces, G \cup {g}, op)
    BY <1>1, <1>18 DEF InvAt
  <2>3. \A f \in T \ {Root} : Exempt(op, f) => Exempt(op', f) \/ Anchor(tab, nr, Tr, spaces, G \cup {h}, f)
    BY <1>2 DEF Exempt
  <2> QED
    BY ONLY <2>1, <2>2, <2>3, AnchoredAs
<1>37. Typed(tab') /\ Tree(tab', T, nr) /\ Leaves(tab', T, nr, spaces') /\ Walking(tab', T, nr, op')
         /\ PoolOK(spaces', VaPool) /\ PoolOK(parts', PaPool) /\ MapsOK(maps', op') /\ Fresh(maps', stale')
  BY <1>1, <1>2, <1>10, <1>33, <1>35 DEF InvAt
<1>38. HeldOK(Holding(maps', op'), spaces', parts') /\ Exact(Tr', Holding(maps', op'), parts') /\ Complete(Tr', maps')
         /\ OpOK(op', Tr', given') /\ Anchored(tab', T, nr, Tr', spaces', Holding(maps', op'), op')
         /\ (given' = {} => Blank(Tr', maps'))
  BY <1>1, <1>2, <1>18, <1>27, <1>30, <1>32, <1>34, <1>36 DEF InvAt
<1> QED
  BY <1>37, <1>38, InvMade

(* A call that ends and holds nothing any more.                            *)
LEMMA MineApart ==
  ASSUME NEW T, NEW nr, InvAt(T, nr), Busy(op)
  PROVE  /\ Holding(maps, op) = Held(maps) \cup {Mine(op)}
         /\ Mine(op).va = op.va /\ Mine(op).size = op.size /\ Mine(op).ps = op.got
         /\ Space(Mine(op)) = [at |-> op.va, len |-> op.size]
         /\ \A g \in Held(maps) : g.va # op.va
<1>1. \A m \in maps : m.va # op.va
  BY DEF InvAt, MapsOK
<1>2. \A g \in Held(maps) : g.va # op.va
  BY <1>1, HeldIs
<1> QED
  BY <1>2, HoldingIs, MineIs

(* A call that ends and gives back ranges in which nothing is mapped.      *)
LEMMA ClosedKeeps ==
  ASSUME NEW T, NEW nr, InvAt(T, nr), Busy(op), op' = Idle, tab' = tab, maps' = maps, given' = given \/ given' # {},
         stale' = stale,
         spaces' \subseteq spaces, parts' \subseteq parts,
         HeldOK(Held(maps), spaces', parts'), Exact(Tr, Held(maps), parts'), Leaves(tab, T, nr, spaces'),
         \A v \in 0 .. VaPool - 1 : Lost(spaces, Holding(maps, op), v) => Lost(spaces', Held(maps), v),
         \A f \in T \ {Root} : Exempt(op, f) => Anchor(tab, nr, Tr, spaces', Held(maps), f)
  PROVE  Inv'
<1>1. Tr' = Tr
  BY TrSame
<1>2. Holding(maps', op') = Held(maps)
  BY IdleIs
<1>3. Anchored(tab, T, nr, Tr, spaces', Held(maps), op')
  <2>1. Anchored(tab, T, nr, Tr, spaces, Holding(maps, op), op)
    BY DEF InvAt
  <2>2. \A v \in 0 .. VaPool - 1 : Lost(spaces, Holding(maps, op), v) => Lost(spaces', Held(maps), v)
    OBVIOUS
  <2>3. \A f \in T \ {Root} : Exempt(op, f) => Exempt(op', f) \/ Anchor(tab, nr, Tr, spaces', Held(maps), f)
    OBVIOUS
  <2> QED
    BY ONLY <2>1, <2>2, <2>3, AnchoredAs
<1>4. OpOK(op', Tr, given') /\ Walking(tab, T, nr, op')
  BY IdleIs DEF OpOK, Walking, Idle
<1>5. MapsOK(maps', op')
  BY IdleIs DEF InvAt, MapsOK
<1>6. PoolOK(spaces', VaPool) /\ PoolOK(parts', PaPool)
  <2>1. PoolOK(spaces, VaPool) /\ PoolOK(parts, PaPool)
    BY DEF InvAt
  <2> QED
    BY <2>1, PoolPart
<1>7. Typed(tab') /\ Tree(tab', T, nr) /\ Leaves(tab', T, nr, spaces') /\ Walking(tab', T, nr, op') /\ Fresh(maps', stale')
  BY <1>4 DEF InvAt
<1>8. HeldOK(Holding(maps', op'), spaces', parts') /\ Exact(Tr', Holding(maps', op'), parts') /\ Complete(Tr', maps')
         /\ OpOK(op', Tr', given') /\ Anchored(tab', T, nr, Tr', spaces', Holding(maps', op'), op')
         /\ (given' = {} => Blank(Tr', maps'))
  BY <1>1, <1>2, <1>3, <1>4 DEF InvAt
<1> QED
  BY <1>5, <1>6, <1>7, <1>8, InvMade

(* A MemoryError gives the physical ranges back and loses the virtual one. *)
LEMMA PallocFailsKeeps == Inv /\ PallocFails => Inv'
<1>1. SUFFICES ASSUME NEW T, NEW nr, InvAt(T, nr), PallocFails PROVE Inv'
  BY DEF Inv
<1>2. op.kind = "alloc" /\ op.todo > 0 /\ tab' = tab /\ spaces' = spaces /\ maps' = maps /\ given' = given /\ stale' = stale
  BY <1>1 DEF PallocFails
<1>3. Busy(op)
  BY <1>2 DEF Busy
<1>4. Shape(op) /\ OpOK(op, Tr, given) /\ Walking(tab, T, nr, op)
  BY <1>1, <1>3, OpIs DEF InvAt
<1>5. op.todo \in Nat \ {0} /\ op.rng \in 1 .. Len(Ranges) /\ given # {} /\ Total(op.got) + op.todo = op.size
      /\ Clean(Tr, op) /\ op.at = op.va /\ op.va \in Nat /\ op.size \in Nat
  BY <1>2, <1>3, <1>4 DEF OpOK, Shape
<1>6. Trying \in op.rng .. Len(Ranges) /\ Len(Ranges) \in Nat
  BY <1>5, TryingIs
<1>7. CASE Trying = Len(Ranges)
  <2>1. parts' = parts \ ToSet(op.got) /\ op' = Idle
    BY <1>1, <1>7 DEF PallocFails
  <2>2. PICK G, h : G = Held(maps) /\ h = Mine(op)
    OBVIOUS
  <2>3. /\ Holding(maps, op) = G \cup {h} /\ h.va = op.va /\ h.size = op.size /\ h.ps = op.got /\ \A g \in G : g.va # h.va
    BY <1>1, <1>3, <2>2, MineApart
  <2>4. HeldOK(G \cup {h}, spaces, parts) /\ Exact(Tr, G \cup {h}, parts)
    BY <1>1, <2>3 DEF InvAt
  <2>5. \A v \in 0 .. VaPool - 1 : InVA(h, v) => Tr[v].k # "page"
    BY <1>5, <2>3 DEF InVA, Clean
  <2>6. HeldOK(G, spaces', parts') /\ Exact(Tr, G, parts')
    <3>1. parts' = parts \ ToSet(h.ps) /\ (spaces' = spaces \/ spaces' = spaces \ {Space(h)})
      BY <1>2, <2>1, <2>3
    <3> QED
      BY <2>3, <2>4, <2>5, <3>1, Dropped
  <2>7. \A v \in 0 .. VaPool - 1 : Lost(spaces, Holding(maps, op), v) => Lost(spaces', G, v)
    BY <1>2, <2>3 DEF Lost
  <2>8. \A f : ~Exempt(op, f)
    BY <1>2 DEF Exempt
  <2>9. Leaves(tab, T, nr, spaces') /\ spaces' \subseteq spaces /\ parts' \subseteq parts
    BY <1>1, <1>2, <2>1 DEF InvAt
  <2> QED
    BY <1>1, <1>2, <1>3, <2>1, <2>2, <2>6, <2>7, <2>8, <2>9, ClosedKeeps
<1>8. CASE Trying # Len(Ranges)
  <2>1. parts' = parts /\ op' = [op EXCEPT !.rng = Trying + 1]
    BY <1>1, <1>8 DEF PallocFails
  <2>2. /\ op'.kind = "alloc" /\ op'.va = op.va /\ op'.size = op.size /\ op'.got = op.got /\ op'.rng = Trying + 1
        /\ op'.left = op.left /\ op'.stack = op.stack /\ op'.at = op.at /\ op'.todo = op.todo /\ op'.off = op.off
        /\ op'.up = op.up /\ IsCall(op')
    BY <1>2, <1>4, <2>1 DEF Shape, IsCall
  <2>3. Busy(op')
    BY <2>2 DEF Busy
  <2>4. Trying + 1 \in 1 .. Len(Ranges)
    BY <1>5, <1>6, <1>8
  <2>5. Shape(op')
    <3>1. op'.rng \in Nat /\ op'.todo \in Int /\ op'.off \in Nat /\ op'.at \in Nat /\ op'.va <= op'.at
      BY <1>4, <2>2, <2>4 DEF Shape
    <3>2. op'.va \in Nat /\ op'.size \in Nat \ {0} /\ RangesOf(op'.got) /\ op'.up \in BOOLEAN
      BY <1>4, <2>2 DEF Shape
    <3> QED
      BY <2>2, <3>1, <3>2 DEF Shape
  <2>6. OpOK(op', Tr, given)
    <3>1. Clean(Tr, op')
      BY <1>5, <2>2 DEF Clean
    <3> QED
      BY <1>5, <2>2, <2>3, <2>4, <2>5, <3>1 DEF OpOK
  <2>7. Walking(tab, T, nr, op')
    BY <1>3, <1>4, <2>2 DEF Walking
  <2>8. \A f : ~Exempt(op, f)
    BY <1>2 DEF Exempt
  <2> QED
    BY <1>1, <1>2, <1>3, <2>1, <2>2, <2>3, <2>6, <2>7, <2>8, CallGoesOn
<1> QED
  BY <1>7, <1>8

(* vfree(): the mapping becomes the call's to unmap.                       *)
LEMMA VfreeKeeps == ASSUME NEW m \in maps PROVE Inv /\ Vfree(m) => Inv'
<1>1. SUFFICES ASSUME NEW T, NEW nr, InvAt(T, nr), Vfree(m) PROVE Inv'
  BY DEF Inv
<1>2. /\ op = Idle /\ maps' = maps \ {m} /\ op' = [Call("unmap", m.va, m.size) EXCEPT !.got = m.paddrs]
      /\ tab' = tab /\ spaces' = spaces /\ parts' = parts /\ given' = given /\ stale' = stale
  BY <1>1 DEF Vfree
<1>3. /\ op'.kind = "unmap" /\ op'.va = m.va /\ op'.size = m.size /\ op'.got = m.paddrs /\ op'.rng = 1 /\ op'.left = <<>>
      /\ op'.stack = Context(m.va) /\ op'.at = m.va /\ op'.todo = m.size /\ op'.off = 0 /\ op'.up = FALSE
      /\ IsCall(op')
  BY <1>2 DEF Call, IsCall
<1>4. Busy(op') /\ ~Busy(op)
  BY <1>2, <1>3, IdleIs DEF Busy
<1>5. given # {}
  BY <1>1 DEF InvAt, Blank
<1>6. PICK H : H = Holding(maps, op)
  OBVIOUS
<1>7. HeldOK(H, spaces, parts) /\ PoolOK(spaces, VaPool) /\ H = Held(maps) /\ MapsOK(maps, op)
  BY <1>1, <1>4, <1>6, HoldingIs DEF InvAt
<1>8. Holding(maps', op') = H
  <2>1. Mine(op') = Holder(m.va, m.size, m.paddrs)
    BY <1>3 DEF Mine
  <2>2. Held(maps) = Held(maps \ {m}) \cup {Mine(op')}
    BY <2>1 DEF Held
  <2> QED
    BY <1>2, <1>4, <1>7, <2>2, HoldingIs
<1>9. MapsOK(maps', op')
  BY <1>2, <1>3, <1>7 DEF MapsOK
<1>10. PICK h \in H : h.va = m.va /\ h.size = m.size /\ h.ps = m.paddrs
  BY <1>6, MapHeld
<1>11. /\ m.va \in Nat /\ m.size \in Nat \ {0} /\ m.va + m.size <= VaPool /\ RangesOf(m.paddrs)
  <2>1. h.va \in Nat /\ h.size \in Nat \ {0} /\ h.va + h.size <= VaPool
    BY <1>7, <1>10, HeldBelow
  <2>2. RangesOf(h.ps)
    BY <1>7, <1>10 DEF HeldOK
  <2> QED
    BY <1>10, <2>1, <2>2
<1>12. Shape(op')
  <2>1. op'.up \in BOOLEAN
    BY <1>3, Zenon
  <2>2. op'.rng \in Nat /\ op'.todo \in Int /\ op'.off \in Nat /\ op'.at \in Nat /\ op'.va <= op'.at
    BY <1>3, <1>11
  <2>3. op'.va \in Nat /\ op'.size \in Nat \ {0} /\ RangesOf(op'.got)
    BY <1>3, <1>11
  <2> QED
    BY <1>3, <2>1, <2>2, <2>3 DEF Shape
<1>13. \A v \in m.va .. m.va + m.size - 1 : Tr[v].k = "page"
  BY <1>1 DEF InvAt, Complete
<1>14. OpOK(op', Tr, given)
  BY <1>3, <1>4, <1>5, <1>11, <1>12, <1>13 DEF OpOK
<1>15. Walking(tab, T, nr, op')
  <2>1. m.va \in 0 .. VaPool - 1
    BY <1>11, PoolAssumption
  <2> QED
    BY <1>1, <1>3, <2>1, Begins DEF InvAt, Walking
<1>16. Tr' = Tr
  BY <1>2, TrSame
<1>17. Anchored(tab, T, nr, Tr, spaces, H, op')
  <2>1. Anchored(tab, T, nr, Tr, spaces, H, op)
    BY <1>1, <1>6 DEF InvAt
  <2>2. \A f \in T \ {Root} : Exempt(op, f) => Exempt(op', f) \/ Anchor(tab, nr, Tr, spaces, H, f)
    BY <1>4 DEF Exempt
  <2>3. \A v \in 0 .. VaPool - 1 : Lost(spaces, H, v) => Lost(spaces, H, v)
    OBVIOUS
  <2> QED
    BY ONLY <2>1, <2>2, <2>3, AnchoredAs
<1>18. Complete(Tr, maps') /\ Fresh(maps', stale')
  BY <1>1, <1>2 DEF InvAt, Complete, Fresh
<1>19. Typed(tab') /\ Tree(tab', T, nr) /\ Leaves(tab', T, nr, spaces') /\ Walking(tab', T, nr, op')
         /\ PoolOK(spaces', VaPool) /\ PoolOK(parts', PaPool)
  BY <1>1, <1>2, <1>15 DEF InvAt
<1>20. HeldOK(Holding(maps', op'), spaces', parts') /\ Exact(Tr', Holding(maps', op'), parts') /\ Complete(Tr', maps')
         /\ OpOK(op', Tr', given') /\ Anchored(tab', T, nr, Tr', spaces', Holding(maps', op'), op')
         /\ given' # {}
  BY <1>1, <1>2, <1>5, <1>6, <1>8, <1>14, <1>16, <1>17, <1>18 DEF InvAt
<1> QED
  BY <1>9, <1>18, <1>19, <1>20, InvMade

(* Then its ranges are free: nothing is mapped in them.                    *)
LEMMA FinishUnmapKeeps == Inv /\ FinishUnmap => Inv'
<1>1. SUFFICES ASSUME NEW T, NEW nr, InvAt(T, nr), FinishUnmap PROVE Inv'
  BY DEF Inv
<1>2. PICK s0 : s0 = [at |-> op.va, len |-> op.size]
  OBVIOUS
<1>3. /\ op.kind = "unmap" /\ op.todo = 0 /\ ~op.up /\ spaces' = spaces \ {s0} /\ parts' = parts \ ToSet(op.got) /\ op' = Idle
      /\ tab' = tab /\ maps' = maps /\ given' = given /\ stale' = stale
  BY <1>1, <1>2 DEF FinishUnmap
<1>4. Busy(op)
  BY <1>3 DEF Busy
<1>5. Shape(op) /\ OpOK(op, Tr, given)
  BY <1>1, <1>4, OpIs DEF InvAt
<1>6. op.va \in Nat /\ op.size \in Nat /\ op.at = op.va + op.size
  BY <1>3, <1>5 DEF OpOK, Shape
<1>7. \A v \in Nat : op.va <= v /\ v < op.va + op.size => Tr[v].k # "page"
  <2>1. \A v \in op.va .. op.va + op.size - 1 : Tr[v].k = "page" <=> v >= op.at
    BY <1>3, <1>5 DEF OpOK
  <2> QED
    BY <1>6, <2>1
<1>8. PICK G, h : G = Held(maps) /\ h = Mine(op)
  OBVIOUS
<1>9. /\ Holding(maps, op) = G \cup {h} /\ h.va = op.va /\ h.size = op.size /\ h.ps = op.got /\ \A g \in G : g.va # h.va
      /\ Space(h) = s0
  BY <1>1, <1>2, <1>4, <1>8, MineApart
<1>10. HeldOK(G \cup {h}, spaces, parts) /\ Exact(Tr, G \cup {h}, parts) /\ PoolOK(spaces, VaPool)
  BY <1>1, <1>9 DEF InvAt
<1>11. \A v \in 0 .. VaPool - 1 : InVA(h, v) => Tr[v].k # "page"
  BY <1>7, <1>9, PoolBelow DEF InVA
<1>12. HeldOK(G, spaces', parts') /\ Exact(Tr, G, parts')
  <2>1. parts' = parts \ ToSet(h.ps) /\ (spaces' = spaces \/ spaces' = spaces \ {Space(h)})
    BY <1>3, <1>9
  <2>2. PICK S2, P2 : S2 = spaces' /\ P2 = parts'
    OBVIOUS
  <2>3. P2 = parts \ ToSet(h.ps)
    BY <2>1, <2>2
  <2>4. S2 = spaces \/ S2 = spaces \ {Space(h)}
    BY <2>1, <2>2
  <2>5. \A g \in G : g.va # h.va
    BY <1>9
  <2>6. HeldOK(G \cup {h}, spaces, parts) /\ Exact(Tr, G \cup {h}, parts)
    BY <1>10
  <2>7. HeldOK(G, S2, P2) /\ Exact(Tr, G, P2)
    <3>1. HeldOK(G \cup {h}, spaces, parts)
      BY ONLY <2>6
    <3>2. Exact(Tr, G \cup {h}, parts)
      BY ONLY <2>6
    <3> HIDE DEF Tr
    <3> QED
      BY ONLY <1>11, <2>3, <2>4, <2>5, <3>1, <3>2, Dropped, SMTT(60)
  <2> QED
    BY <2>2, <2>7
<1>13. \A v \in 0 .. VaPool - 1 : Lost(spaces, Holding(maps, op), v) => Lost(spaces', G, v)
  <2>1. s0.at = h.va
    BY <1>2, <1>9
  <2> QED
    BY <1>3, <1>9, <2>1 DEF Lost
<1>14. Leaves(tab, T, nr, spaces')
  <2>1. SUFFICES ASSUME NEW f \in T, NEW x \in Slots(tab, f), tab[f].ent[x].k = "page" PROVE LeafIn(tab, nr, spaces', f, x)
    BY DEF Leaves
  <2>2. Typed(tab) /\ Tree(tab, T, nr) /\ Leaves(tab, T, nr, spaces)
    BY <1>1 DEF InvAt
  <2>3. PICK s \in spaces : \A v \in Nat : Nth(tab[f].lv, v) = Block(tab, nr, f, x) => InRange(s, v)
    BY <2>1, <2>2 DEF Leaves, LeafIn
  <2>4. PICK v \in 0 .. Limit - 1 : Nth(tab[f].lv, v) = Block(tab, nr, f, x)
    BY <2>2, EntryReached
  <2>5. Tr[v].k = "page" /\ v \in Nat
    <3>1. Trans(tab, v).k = "page"
      BY <2>1, <2>2, <2>4, EntryFound
    <3> QED
      BY <3>1, TrIs, LimitIs
  <2>6. InRange(s, v)
    BY <2>3, <2>4, <2>5
  <2>7. s # s0
    BY <1>2, <1>7, <2>5, <2>6 DEF InRange
  <2>8. s \in spaces'
    BY <1>3, <2>7
  <2> QED
    BY <2>3, <2>8 DEF LeafIn
<1>15. \A f : ~Exempt(op, f)
  BY <1>3 DEF Exempt
<1>16. spaces' \subseteq spaces /\ parts' \subseteq parts
  BY <1>3
<1> QED
  BY <1>1, <1>3, <1>4, <1>8, <1>12, <1>13, <1>14, <1>15, <1>16, ClosedKeeps

-----------------------------------------------------------------------------
(* Where the walk is.                                                      *)
At(T, nr, d, f, i) ==
  /\ TopIs(tab, T, nr, op.stack, op.at, d, f, i)
  /\ Top.t = f /\ Top.i = i /\ Lv = d /\ Entry = tab[f].ent[i]

(* A walk is at an entry of a table, or past its last one.                 *)
LEMMA WalkAt ==
  ASSUME NEW T, NEW nr, InvAt(T, nr), Busy(op)
  PROVE  \E d, f, i : At(T, nr, d, f, i)
<1>1. Typed(tab) /\ Tree(tab, T, nr) /\ Stacked(tab, T, nr, op.stack, op.at) /\ op.at \in 0 .. Limit - 1
  BY OpIs DEF InvAt
<1>2. PICK d, f, i : TopIs(tab, T, nr, op.stack, op.at, d, f, i)
  BY <1>1, StackTop
<1>3. Top.t = f /\ Top.i = i
  BY <1>2 DEF TopIs, Top
<1>4. Lv = d /\ Entry = tab[f].ent[i]
  BY <1>2, <1>3 DEF TopIs, Lv, Entry
<1> QED
  BY <1>2, <1>3, <1>4 DEF At

(* What the model's Top, Lv and Entry are there.                           *)
LEMMA AtIs ==
  ASSUME NEW T, NEW nr, NEW d, NEW f, NEW i, At(T, nr, d, f, i)
  PROVE  /\ d \in 1 .. Levels /\ d \in Nat /\ f \in T /\ i \in Nat /\ tab[f].lv = d /\ f \in DOMAIN tab /\ (d = 1 <=> f = Root)
         /\ d = Len(op.stack) /\ op.stack[d] = [t |-> f, i |-> i] /\ op.stack[d].t = f /\ op.stack[d].i = i
         /\ Last(op.stack) = op.stack[d] /\ Last(op.stack).i = i
         /\ Top = [t |-> f, i |-> i] /\ Top.t = f /\ Top.i = i /\ Lv = d /\ Entry = tab[f].ent[i]
         /\ Cnt[d] \in Nat \ {0} /\ Covers[d] \in Nat \ {0} /\ i <= Cnt[d] /\ Nth(d, op.at) \in Nat
         /\ i < Cnt[d] => /\ i \in Slots(tab, f) /\ Nth(d, op.at) = Block(tab, nr, f, i) /\ Nth(d - 1, op.at) = nr[f]
                          /\ Slots(tab, f) = 0 .. Cnt[d] - 1
         /\ i = Cnt[d] => d # 1 /\ Nth(d - 1, op.at) = nr[f] + 1
<1>1. Levels \in Nat
  BY CoversIs
<1>2. TopIs(tab, T, nr, op.stack, op.at, d, f, i) /\ Top.t = f /\ Top.i = i /\ Lv = d /\ Entry = tab[f].ent[i]
  BY DEF At
<1>3. op.stack[d] = [t |-> f, i |-> i] /\ Last(op.stack) = op.stack[d]
  BY <1>2 DEF TopIs
<1>4. Top = [t |-> f, i |-> i] /\ op.stack[d].t = f /\ op.stack[d].i = i
  BY <1>3 DEF Top
<1>5. Slots(tab, f) = 0 .. Cnt[d] - 1
  BY <1>2 DEF TopIs, Slots
<1> QED
  BY <1>1, <1>2, <1>3, <1>4, <1>5 DEF TopIs

(* The walk goes down: nothing of the call changes but its stack.          *)
LEMMA DownKeeps ==
  ASSUME NEW T, NEW nr, InvAt(T, nr), Busy(op), ~op.up, Entry.k = "table", op' = [op EXCEPT !.stack = Push(Entry.at)],
         tab' = tab, spaces' = spaces, parts' = parts, maps' = maps, given' = given, stale' = stale
  PROVE  Inv'
<1>1. /\ Typed(tab) /\ Tree(tab, T, nr) /\ Stacked(tab, T, nr, op.stack, op.at) /\ op.at \in 0 .. Limit - 1
      /\ op.stack[Len(op.stack)].i < Cnt[Len(op.stack)] /\ Shape(op) /\ OpOK(op, Tr, given) /\ op.at < Limit
  BY OpIs DEF InvAt
<1>2. PICK d, f, i : At(T, nr, d, f, i)
  BY WalkAt
<1>3. PICK c : c = Entry.at
  OBVIOUS
<1>4. i \in Slots(tab, f) /\ f \in T /\ Lv = d /\ d = Len(op.stack) /\ Entry = tab[f].ent[i] /\ op.stack[d].t = f /\ op.stack[d].i = i
  <2>1. f \in T /\ Lv = d /\ d = Len(op.stack) /\ Entry = tab[f].ent[i] /\ op.stack[d].t = f /\ op.stack[d].i = i
    BY <1>2 DEF At, TopIs
  <2>2. i < Cnt[d]
    BY <1>1, <2>1
  <2>3. i \in Slots(tab, f)
    BY <1>2, <2>2, AtIs
  <2> QED
    BY <2>1, <2>3
<1>5. tab[f].ent[i] = Table(c)
  <2>1. EntryOK(tab[f].lv, tab[f].ent[i])
    BY <1>1, <1>4 DEF Typed, TableOK, Tree, Rooted, Slots
  <2> QED
    BY <1>3, <1>4, <2>1, EntryKinds
<1>6. PICK st, so : so = op.stack /\ PushedOn(st, so, c, op.at)
  BY DEF PushedOn
<1>7. Push(Entry.at) = st
  BY <1>3, <1>4, <1>6 DEF Push, PushedOn
<1>8. /\ Stacked(tab, T, nr, st, op.at) /\ Len(st) = Len(op.stack) + 1 /\ \A k \in 1 .. Len(op.stack) : st[k] = op.stack[k]
      /\ st[Len(st)].t = c /\ st[Len(st)].i < Cnt[Len(st)]
  <2>1. Typed(tab) /\ Tree(tab, T, nr) /\ Stacked(tab, T, nr, so, op.at) /\ op.at \in 0 .. Limit - 1
    BY <1>1, <1>6
  <2>2. NextTable(tab, so, c)
    BY <1>1, <1>4, <1>5, <1>6 DEF NextTable
  <2>3. PushedOn(st, so, c, op.at)
    BY <1>6
  <2>4. /\ Stacked(tab, T, nr, st, op.at) /\ Len(st) = Len(so) + 1 /\ \A k \in 1 .. Len(so) : st[k] = so[k]
        /\ st[Len(st)].t = c /\ st[Len(st)].i < Cnt[Len(st)]
    BY ONLY <2>1, <2>2, <2>3, Pushed
  <2> QED
    BY <1>6, <2>4
<1>9. /\ op'.kind = op.kind /\ op'.va = op.va /\ op'.size = op.size /\ op'.got = op.got /\ op'.rng = op.rng
      /\ op'.left = op.left /\ op'.stack = st /\ op'.at = op.at /\ op'.todo = op.todo /\ op'.off = op.off
      /\ op'.up = op.up /\ IsCall(op')
  BY <1>1, <1>7 DEF Shape, IsCall
<1>10. Busy(op')
  BY <1>9 DEF Busy
<1>11. Shape(op')
  BY <1>1, <1>9 DEF Shape
<1>12. OpOK(op', Tr, given)
  BY <1>1, <1>9, <1>10, <1>11 DEF OpOK, Clean, MapAt
<1>13. Walking(tab, T, nr, op')
  BY <1>1, <1>8, <1>9 DEF Walking
<1>14. \A g : Exempt(op, g) => Exempt(op', g)
  <2>1. SUFFICES ASSUME NEW g, Exempt(op, g) PROVE Exempt(op', g)
    OBVIOUS
  <2>2. PICK k \in 1 .. Len(op.stack) : op.stack[k].t = g
    BY <2>1 DEF Exempt
  <2>3. k \in 1 .. Len(st) /\ st[k].t = g
    BY <1>1, <1>8, <2>2 DEF Stacked
  <2> QED
    BY <1>9, <1>10, <2>1, <2>3 DEF Exempt
<1> QED
  BY <1>9, <1>10, <1>12, <1>13, <1>14, CallGoesOn

(* The walk moves on by w pages: the call u comes of op.                   *)
Forward(u, st, w) ==
  /\ IsCall(u) /\ u.kind = op.kind /\ u.va = op.va /\ u.size = op.size /\ u.got = op.got /\ u.rng = op.rng
  /\ u.left = op.left /\ u.stack = st /\ u.at = op.at + w /\ u.todo = op.todo - w /\ u.off = op.off + w
  /\ u.up = TRUE

(* Advance moves the walk on by what n entries cover.                      *)
LEMMA AdvanceIs ==
  ASSUME NEW T, NEW nr, Shape(op), NEW d, NEW f, NEW i, At(T, nr, d, f, i), NEW n \in Nat, i + n <= Cnt[d],
         Typed(tab), Tree(tab, T, nr), Stacked(tab, T, nr, op.stack, op.at), op.at \in 0 .. Limit - 1
  PROVE  \E st, w : /\ w = n * Covers[d] /\ w \in Nat /\ Forward(Advance(n), st, w) /\ Stacked(tab, T, nr, st, op.at + w)
                    /\ Len(st) = Len(op.stack) /\ \A k \in 1 .. Len(op.stack) : st[k].t = op.stack[k].t
<1>1. PICK st, so : so = op.stack /\ MovedOn(st, so, n)
  BY DEF MovedOn
<1>2. Lv = d /\ d = Len(so) /\ Last(so).i = i
  BY <1>1 DEF At, TopIs
<1>3. Append(Front(op.stack), [Top EXCEPT !.i = @ + n]) = st
  BY <1>1 DEF MovedOn, Top
<1>4. PICK w : w = n * Covers[d]
  OBVIOUS
<1>6. Forward(Advance(n), st, w)
  <2>1. PICK u : u = Advance(n)
    OBVIOUS
  <2>2. u = [op EXCEPT !.at = @ + w, !.todo = @ - w, !.off = @ + w, !.stack = st, !.up = TRUE]
    BY <1>2, <1>3, <1>4, <2>1 DEF Advance
  <2>3. op = [kind |-> op.kind, va |-> op.va, size |-> op.size, got |-> op.got, rng |-> op.rng, left |-> op.left,
              stack |-> op.stack, at |-> op.at, todo |-> op.todo, off |-> op.off, up |-> op.up]
    BY DEF Shape, IsCall
  <2>4. u = [kind |-> op.kind, va |-> op.va, size |-> op.size, got |-> op.got, rng |-> op.rng, left |-> op.left, stack |-> st,
             at |-> op.at + w, todo |-> op.todo - w, off |-> op.off + w, up |-> TRUE]
    BY <2>2, <2>3
  <2> QED
    BY <2>1, <2>4 DEF Forward, IsCall
<1>7. w \in Nat
  <2>1. d \in 1 .. Levels
    BY DEF At, TopIs
  <2>2. PICK c \in Nat : c = Covers[d]
    BY <2>1, CoversIs
  <2> QED
    BY <1>4, <2>2
<1>5. Stacked(tab, T, nr, st, op.at + n * Covers[d]) /\ Len(st) = Len(so) /\ \A k \in 1 .. Len(so) : st[k].t = so[k].t
  <2>1. Typed(tab) /\ Tree(tab, T, nr) /\ Stacked(tab, T, nr, so, op.at) /\ op.at \in 0 .. Limit - 1
    BY <1>1
  <2>2. Last(so).i + n <= Cnt[Len(so)]
    BY <1>2
  <2>3. /\ Stacked(tab, T, nr, st, op.at + n * Covers[Len(so)]) /\ Len(st) = Len(so)
        /\ \A k \in 1 .. Len(so) : st[k].t = so[k].t
    BY ONLY <1>1, <2>1, <2>2, Advanced
  <2> QED
    BY <1>2, <2>3
<1> QED
  BY <1>1, <1>4, <1>5, <1>6, <1>7

(* A page of a table's row that begins where the walk is.                  *)
LEMMA RowReached ==
  ASSUME NEW t, NEW T, NEW nr, Typed(t), Tree(t, T, nr), NEW f \in T, NEW d \in 1 .. Levels, t[f].lv = d,
         NEW i \in Slots(t, f), NEW at \in Nat, Nth(d, at) = Block(t, nr, f, i), NEW n \in Nat,
         NEW x \in i .. i + n - 1, NEW v \in Nat, Nth(d, v) = Block(t, nr, f, x)
  PROVE  /\ Nth(d, v) = Nth(d, at) + (x - i) /\ Nth(d, at) \in Nat /\ i \in Nat
         /\ v < at + n * Covers[d] /\ (x # i => at < v)
<1>1. Nth(d, at) \in Nat /\ Nth(d, v) \in Nat /\ i \in Nat /\ n * Covers[d] \in Nat
  BY NthWithin DEF Slots
<1>2. PICK b, m : b = nr[f] * Cnt[d] /\ m = Covers[d]
  OBVIOUS
<1>3. b \in Nat
  BY <1>2, CoversIs DEF Tree, Rooted
<1>4. Nth(d, at) = b + i /\ Nth(d, v) = b + x
  BY <1>2 DEF Block
<1>5. Nth(d, v) = Nth(d, at) + (x - i) /\ Nth(d, v) < Nth(d, at) + n /\ (x # i => Nth(d, at) < Nth(d, v))
  BY <1>1, <1>3, <1>4
<1> QED
  BY <1>1, <1>5, NthWithin

(* Nothing is mapped in a range that is to be mapped: the entries are      *)
(* empty.                                                                  *)
LEMMA CheckEmpty ==
  ASSUME NEW T, NEW nr, InvAt(T, nr), op.kind = "check", op.todo > 0, ~op.up,
         NEW d, NEW f, NEW i, At(T, nr, d, f, i), Entry.k # "table",
         NEW n \in Nat \ {0}, i + n <= Cnt[d], n * Covers[d] <= op.todo \/ n = 1,
         NEW x \in i .. i + n - 1
  PROVE  tab[f].ent[x] = None
<1>1. Busy(op)
  BY DEF Busy
<1>2. /\ op.va \in Nat /\ op.size \in Nat \ {0} /\ op.va + op.size <= VaPool /\ [at |-> op.va, len |-> op.size] \in spaces
      /\ \A v \in op.va .. op.va + op.size - 1 : v \in 0 .. VaPool - 1 /\ v \in 0 .. Limit - 1
      /\ Shape(op) /\ Mine(op) \in Holding(maps, op) /\ op.at \in 0 .. Limit - 1
      /\ op.stack[Len(op.stack)].i < Cnt[Len(op.stack)]
  BY <1>1, OpIs
<1>3. d \in 1 .. Levels /\ f \in T /\ i \in Nat /\ tab[f].lv = d /\ d = Len(op.stack) /\ op.stack[d].i = i /\ Entry = tab[f].ent[i]
  BY DEF At, TopIs
<1>4. i \in Slots(tab, f) /\ Nth(d, op.at) = Block(tab, nr, f, i) /\ Slots(tab, f) = 0 .. Cnt[d] - 1 /\ Cnt[d] \in Nat
  <2>1. i < Cnt[d] /\ Cnt[d] \in Nat
    BY <1>2, <1>3, CoversIs
  <2> QED
    BY <1>3, <2>1 DEF At, TopIs, Slots
<1>5. Typed(tab) /\ Tree(tab, T, nr) /\ PoolOK(spaces, VaPool)
  BY DEF InvAt
<1>6. op.at + op.todo = op.va + op.size /\ Clean(Tr, op) /\ op.at \in Nat /\ op.todo \in Int /\ op.va <= op.at
  BY <1>1, <1>2 DEF InvAt, OpOK, Shape
<1>7. x \in Slots(tab, f)
  BY <1>3, <1>4
<1>8. SUFFICES ASSUME tab[f].ent[x] # None PROVE FALSE
  OBVIOUS
<1>9. EntryOK(tab[f].lv, tab[f].ent[x])
  BY <1>3, <1>5, <1>7 DEF Typed, TableOK, Tree, Rooted, Slots
<1>10. \A v \in Nat : op.va <= v /\ v < op.va + op.size => v \in 0 .. Limit - 1 /\ Trans(tab, v).k # "page"
  <2>1. \A v \in op.va .. op.va + op.size - 1 : v \in 0 .. Limit - 1 /\ Tr[v].k # "page"
    BY <1>2, <1>6 DEF Clean
  <2> QED
    BY <1>2, <2>1, TrIs
<1>13. /\ Typed(tab) /\ Tree(tab, T, nr) /\ f \in T /\ d \in 1 .. Levels /\ tab[f].lv = d /\ i \in Slots(tab, f)
       /\ op.at \in Nat /\ Nth(d, op.at) = Block(tab, nr, f, i) /\ n \in Nat /\ x \in i .. i + n - 1
  BY <1>3, <1>4, <1>5, <1>6
<1>15. n # 1 => op.at + n * Covers[d] <= op.va + op.size
  <2>1. PICK w : w = n * Covers[d]
    OBVIOUS
  <2>2. w \in Nat
    BY <1>3, <2>1, CoversIs
  <2>3. n # 1 => w <= op.todo
    BY <2>1
  <2>4. n # 1 => op.at + w <= op.va + op.size
    BY <1>2, <1>6, <2>2, <2>3
  <2> QED
    BY <2>1, <2>4
<1>16. ASSUME NEW v \in Nat, v < op.at + n * Covers[d], op.at < v, n # 1 PROVE op.va <= v /\ v < op.va + op.size
  <2>1. PICK w : w = op.at + n * Covers[d]
    OBVIOUS
  <2>2. w \in Nat
    <3>1. PICK c : c = Covers[d]
      OBVIOUS
    <3>2. c \in Nat
      BY <1>3, <3>1, CoversIs
    <3>3. n * c \in Nat
      BY <3>2
    <3> QED
      BY <1>6, <2>1, <3>1, <3>3
  <2>3. w <= op.va + op.size /\ v < w /\ op.at < v
    BY <1>15, <1>16, <2>1
  <2> QED
    BY <1>2, <1>6, <2>2, <2>3
<1>11. CASE tab[f].ent[x].k = "page"
  <2>1. CASE x = i
    <3>1. i \in Slots(tab, f) /\ tab[f].ent[i].k = "page" /\ Nth(tab[f].lv, op.at) = Block(tab, nr, f, i)
      BY <1>3, <1>4, <1>11, <2>1
    <3>2. f \in T /\ op.at \in 0 .. Limit - 1
      BY <1>2, <1>3
    <3>3. Trans(tab, op.at).k = "page"
      BY ONLY <1>5, <3>1, <3>2, EntryFound
    <3> QED
      BY <1>2, <1>6, <1>10, <3>3
  <2>2. CASE x # i
    <3>1. PICK v \in 0 .. Limit - 1 : Nth(d, v) = Block(tab, nr, f, x)
      BY <1>3, <1>5, <1>7, EntryReached
    <3>2. v \in Nat
      BY LimitIs
    <3>3. v < op.at + n * Covers[d] /\ op.at < v
      BY ONLY <1>13, <2>2, <3>1, <3>2, RowReached
    <3>4. n # 1
      BY <1>3, <2>2
    <3>6. v < op.va + op.size /\ op.va <= v
      BY <1>16, <3>2, <3>3, <3>4
    <3>7. Trans(tab, v).k = "page"
      BY <1>3, <1>5, <1>7, <1>11, <3>1, EntryFound
    <3> QED
      BY <1>10, <3>2, <3>6, <3>7
  <2> QED
    BY <2>1, <2>2
<1>12. CASE tab[f].ent[x].k = "table"
  <2>1. PICK c : c = tab[f].ent[x].at
    OBVIOUS
  <2>2. c \in T /\ tab[c].lv = d + 1 /\ nr[c] = Block(tab, nr, f, x) /\ x # i
    BY <1>3, <1>5, <1>7, <1>12, <2>1 DEF Tree, Children
  <2>3. c # Root /\ ~Exempt(op, c)
    BY <1>3, <1>5, <2>2 DEF Tree, Rooted, Exempt
  <2>4. Anchor(tab, nr, Tr, spaces, Holding(maps, op), c)
    BY <2>2, <2>3 DEF InvAt, Anchored
  <2>5. PICK v \in 0 .. VaPool - 1 : Nth(tab[c].lv - 1, v) = nr[c] /\ (Tr[v].k = "page" \/ Lost(spaces, Holding(maps, op), v))
    BY <2>4 DEF Anchor
  <2>6. v \in Nat /\ v \in 0 .. Limit - 1 /\ Tr[v] = Trans(tab, v)
    BY PoolBelow
  <2>7. Nth(d, v) = Block(tab, nr, f, x)
    BY <1>3, <2>2, <2>5
  <2>8. v < op.at + n * Covers[d] /\ op.at < v
    BY ONLY <1>13, <2>2, <2>6, <2>7, RowReached
  <2>9. n # 1
    BY <1>3, <2>2
  <2>10. v < op.va + op.size /\ op.va <= v
    BY <1>16, <2>6, <2>8, <2>9
  <2>11. Lost(spaces, Holding(maps, op), v)
    BY <1>10, <2>5, <2>6, <2>10
  <2>12. PICK s \in spaces : InRange(s, v) /\ \A h \in Holding(maps, op) : h.va # s.at
    BY <2>11 DEF Lost
  <2>13. InRange([at |-> op.va, len |-> op.size], v)
    BY <2>10 DEF InRange
  <2>14. s = [at |-> op.va, len |-> op.size]
    BY <1>2, <1>5, <2>6, <2>12, <2>13, RangesApart
  <2>15. Mine(op).va = op.va
    BY DEF Mine, Holder
  <2> QED
    BY <1>2, <2>12, <2>14, <2>15
<1> QED
  <2>1. tab[f].ent[x].k = "page" \/ tab[f].ent[x].k = "table"
    BY <1>8, <1>9, EntryKinds
  <2> QED
    BY <1>11, <1>12, <2>1

(* How many entries a turn of the walk is about.                           *)
RowOf(todo, c, m) == Smaller(todo \div c, m)
Fits(e, c, todo) == e * c \in Nat /\ e * c <= todo

(* A row covers no more than what is left, and no more than its table.     *)
LEMMA RowSize ==
  ASSUME NEW todo \in Nat, NEW c \in Nat \ {0}, NEW m \in Nat \ {0}, NEW e, e = RowOf(todo, c, m)
  PROVE  /\ e \in Nat /\ e <= m /\ Fits(e, c, todo) /\ (c <= todo => e # 0)
         /\ Larger(e, 1) \in Nat \ {0} /\ Larger(e, 1) <= m /\ (Larger(e, 1) = e \/ Larger(e, 1) = 1)
<1>1. PICK q : q = todo \div c
  OBVIOUS
<1>2. q \in Nat /\ q * c \in Nat /\ q * c <= todo /\ todo < q * c + c
  BY <1>1, Quotient
<1>3. e = Smaller(q, m)
  BY <1>1 DEF RowOf
<1>4. e \in Nat /\ e <= m /\ e <= q
  BY <1>2, <1>3 DEF Smaller
<1>5. e * c \in Nat /\ e * c <= q * c
  BY <1>2, <1>4, TimesGrows
<1>6. c <= todo => e # 0
  <2>1. SUFFICES ASSUME c <= todo, e = 0 PROVE FALSE
    OBVIOUS
  <2>2. q = 0
    BY <1>2, <1>3, <2>1 DEF Smaller
  <2>3. q * c = 0
    BY <2>2
  <2> QED
    BY <1>2, <2>1, <2>3
<1>7. e * c <= todo
  BY <1>2, <1>5
<1> QED
  BY <1>4, <1>5, <1>6, <1>7 DEF Larger, Fits

(* A call that moves on is one still.                                      *)
LEMMA ForwardIs ==
  ASSUME NEW u, NEW st, NEW w \in Nat, Forward(u, st, w), Shape(op), Busy(op)
  PROVE  Busy(u) /\ Shape(u)
<1>3. u.kind = op.kind /\ u.va = op.va /\ u.size = op.size /\ u.got = op.got /\ u.rng = op.rng /\ u.up = TRUE
  BY DEF Forward
<1>4. u.at = op.at + w /\ u.todo = op.todo - w /\ u.off = op.off + w
  BY DEF Forward
<1>5. op.at \in Nat /\ op.todo \in Int /\ op.off \in Nat /\ op.rng \in Nat /\ op.va \in Nat /\ op.va <= op.at
  BY DEF Shape
<1>6. u.at \in Nat /\ u.todo \in Int /\ u.off \in Nat /\ u.rng \in Nat /\ u.va \in Nat /\ u.va <= u.at
  BY ONLY <1>3, <1>4, <1>5
<1>7. u.up \in BOOLEAN
  BY <1>3, Zenon
<1>8. IsCall(u) /\ u.size \in Nat \ {0} /\ RangesOf(u.got)
  BY <1>3 DEF Forward, Shape
<1>9. Shape(u)
  BY <1>6, <1>7, <1>8 DEF Shape
<1>10. Busy(u)
  BY <1>3 DEF Busy
<1> QED
  BY <1>9, <1>10

(* A turn of the check changes no table, and meets no page.                *)
LEMMA CheckKeeps == Inv /\ Check => Inv'
<1>1. SUFFICES ASSUME NEW T, NEW nr, InvAt(T, nr), Check PROVE Inv'
  BY DEF Inv
<1>2. /\ op.kind = "check" /\ op.todo > 0 /\ ~op.up /\ tab' = tab /\ spaces' = spaces /\ parts' = parts
      /\ maps' = maps /\ given' = given /\ stale' = stale /\ Busy(op)
  BY <1>1 DEF Check, Turn, Busy
<1>3. CASE Entry.k = "table"
  <2>1. op' = [op EXCEPT !.stack = Push(Entry.at)]
    BY <1>1, <1>3 DEF Check
  <2> QED
    BY <1>1, <1>2, <1>3, <2>1, DownKeeps
<1>4. CASE Entry.k # "table"
  <2>1. PICK d, f, i : At(T, nr, d, f, i)
    BY <1>1, <1>2, WalkAt
  <2>2. PICK n : n = Larger(Entries, 1)
    OBVIOUS
  <2>3. /\ d \in 1 .. Levels /\ i \in Nat /\ d = Len(op.stack) /\ op.stack[d].i = i /\ Lv = d /\ Top.i = i /\ Top.t = f
        /\ Cnt[d] \in Nat \ {0} /\ Covers[d] \in Nat \ {0}
    BY <2>1 DEF At, TopIs
  <2>4. /\ op.va \in Nat /\ op.size \in Nat \ {0} /\ op.va + op.size <= VaPool /\ op.stack[Len(op.stack)].i < Cnt[Len(op.stack)]
        /\ Shape(op) /\ op.at \in 0 .. Limit - 1 /\ Stacked(tab, T, nr, op.stack, op.at)
    BY <1>1, <1>2, OpIs
  <2>5. /\ Total(op.got) = op.size /\ op.at + op.todo = op.va + op.size /\ Clean(Tr, op) /\ op.todo \in Nat /\ op.at \in Nat
        /\ given # {} /\ op.va <= op.at /\ op.off \in Nat /\ op.rng \in Nat /\ RangesOf(op.got)
    BY <1>1, <1>2, <2>4 DEF InvAt, OpOK, Shape
  <2>6. Cnt[d] - i \in Nat \ {0}
    BY <2>3, <2>4
  <2>7. Entries = Smaller(op.todo \div Covers[d], Cnt[d] - i)
    BY <2>3 DEF Entries
  <2>8. n \in Nat \ {0} /\ n <= Cnt[d] - i /\ (n * Covers[d] <= op.todo \/ n = 1)
    <3>1. PICK e, t, m, c : e = Entries /\ t = op.todo /\ m = Cnt[d] - i /\ c = Covers[d]
      OBVIOUS
    <3>2. t \in Nat /\ c \in Nat \ {0} /\ m \in Nat \ {0} /\ e = RowOf(t, c, m)
      BY <2>3, <2>5, <2>6, <2>7, <3>1 DEF RowOf
    <3>3. /\ Larger(e, 1) \in Nat \ {0} /\ Larger(e, 1) <= m /\ (Larger(e, 1) = e \/ Larger(e, 1) = 1)
          /\ Fits(e, c, t)
      BY ONLY <3>2, RowSize
    <3> QED
      BY <2>2, <3>1, <3>3 DEF Fits
  <2>9. i + n <= Cnt[d] /\ n \in Nat
    BY <2>3, <2>8
  <2>10. \A x \in i .. i + n - 1 : tab[f].ent[x] = None
    BY <1>1, <1>2, <1>4, <2>1, <2>8, <2>9, CheckEmpty
  <2>11. op' = Advance(n)
    BY <1>1, <1>4, <2>2, <2>3, <2>10 DEF Check
  <2>12. Typed(tab) /\ Tree(tab, T, nr)
    BY <1>1 DEF InvAt
  <2>13. PICK st, w : /\ w = n * Covers[d] /\ w \in Nat /\ Forward(Advance(n), st, w) /\ Stacked(tab, T, nr, st, op.at + w)
                      /\ Len(st) = Len(op.stack) /\ \A k \in 1 .. Len(op.stack) : st[k].t = op.stack[k].t
    BY <2>1, <2>4, <2>9, <2>12, AdvanceIs
  <2>14. /\ Busy(op') /\ Shape(op') /\ op'.kind = op.kind /\ op'.va = op.va
         /\ op'.size = op.size /\ op'.got = op.got /\ op'.stack = st /\ op'.up = TRUE
         /\ op'.at = op.at + w /\ op'.todo = op.todo - w
    <3>1. Forward(op', st, w) /\ w \in Nat
      BY <2>11, <2>13
    <3>2. Busy(op') /\ Shape(op')
      BY <1>2, <2>4, <3>1, ForwardIs
    <3> QED
      BY <3>1, <3>2 DEF Forward
  <2>15. (w <= op.todo \/ w <= Covers[1]) /\ Covers[1] \in Nat \ {0}
    <3>1. PICK c : c = Covers[d] /\ c \in Nat
      BY <2>3
    <3>2. n * c \in Nat /\ (n = 1 => n * c = c)
      BY <2>9, <3>1
    <3> QED
      BY <2>3, <2>8, <2>13, <3>1, <3>2, CoversFall, LimitIs
  <2>16. op.at + w < VaPool + Covers[1] /\ op.at + w < Limit
    <3>1. VaPool + Covers[1] <= Limit /\ VaPool \in Nat /\ Limit \in Nat
      BY LimitIs, PoolAssumption
    <3>2. op.at < VaPool /\ op.at + op.todo <= VaPool
      <4>1. op.todo > 0
        BY <1>2
      <4>2. op.va \in Nat /\ op.size \in Nat /\ op.va + op.size <= VaPool
        BY <2>4
      <4> QED
        BY <2>5, <3>1, <4>1, <4>2
    <3>3. w \in Nat /\ op.at \in Nat /\ op.todo \in Nat
      BY <2>5, <2>13
    <3>4. (w <= op.todo \/ w <= Covers[1]) /\ Covers[1] \in Nat \ {0}
      BY <2>15
    <3>5. op.at + w < VaPool + Covers[1]
      BY ONLY <3>1, <3>2, <3>3, <3>4
    <3> QED
      BY ONLY <3>1, <3>3, <3>4, <3>5
  <2>17. op'.at < VaPool + Covers[1] /\ op'.at < Limit /\ op.at + w = op'.at
    BY <2>14, <2>16
  <2>20. op'.at + op'.todo = op'.va + op'.size
    BY <2>4, <2>5, <2>13, <2>14
  <2>21. Clean(Tr, op')
    BY <2>5, <2>14 DEF Clean
  <2>22. OpOK(op', Tr, given)
    BY <1>2, <2>5, <2>14, <2>17, <2>20, <2>21 DEF OpOK
  <2>23. Walking(tab, T, nr, op')
    BY <2>13, <2>14, <2>17 DEF Walking
  <2>24. \A g : ~Exempt(op, g)
    BY <1>2 DEF Exempt
  <2> QED
    BY <1>1, <1>2, <2>14, <2>22, <2>23, <2>24, CallGoesOn
<1> QED
  BY <1>3, <1>4

(* Below a table with an entry there is a page, or one that is lost, and   *)
(* so there is below the tables the walk came by.                          *)
LEMMA StackUsed ==
  ASSUME NEW T, NEW nr, InvAt(T, nr), Busy(op), NEW v \in 0 .. VaPool - 1,
         Nth(Len(op.stack) - 1, v) = nr[op.stack[Len(op.stack)].t],
         Tr[v].k = "page" \/ Lost(spaces, Holding(maps, op), v)
  PROVE  \A k \in 1 .. Len(op.stack) : Anchor(tab, nr, Tr, spaces, Holding(maps, op), op.stack[k].t)
<1>1. Typed(tab) /\ Tree(tab, T, nr) /\ Stacked(tab, T, nr, op.stack, op.at)
  BY OpIs DEF InvAt
<1>2. v \in 0 .. Limit - 1
  BY PoolBelow
<1>3. PICK so : so = op.stack
  OBVIOUS
<1>4. \A k \in 1 .. Len(so) : Nth(k - 1, v) = nr[so[k].t]
  <2>1. Stacked(tab, T, nr, so, op.at) /\ Nth(Len(so) - 1, v) = nr[so[Len(so)].t]
    BY <1>1, <1>3
  <2> QED
    BY ONLY <1>1, <1>2, <2>1, UnderStack
<1>5. \A k \in 1 .. Len(so) : tab[so[k].t].lv = k
  BY <1>1, <1>3 DEF Stacked
<1>6. SUFFICES ASSUME NEW k \in 1 .. Len(so) PROVE Anchor(tab, nr, Tr, spaces, Holding(maps, op), so[k].t)
  BY <1>3
<1>7. Nth(tab[so[k].t].lv - 1, v) = nr[so[k].t]
  BY <1>4, <1>5
<1> QED
  BY <1>7 DEF Anchor

(* A table that is not empty keeps itself, and all above it, in use.       *)
LEMMA TopUsed ==
  ASSUME NEW T, NEW nr, InvAt(T, nr), Busy(op), NEW d, NEW f, NEW i, At(T, nr, d, f, i), ~Clear(f)
  PROVE  \A k \in 1 .. Len(op.stack) : Anchor(tab, nr, Tr, spaces, Holding(maps, op), op.stack[k].t)
<1>1. Typed(tab) /\ Tree(tab, T, nr) /\ Leaves(tab, T, nr, spaces) /\ Stacked(tab, T, nr, op.stack, op.at) /\ PoolOK(spaces, VaPool)
  BY OpIs DEF InvAt
<1>2. d \in 1 .. Levels /\ f \in T /\ tab[f].lv = d /\ d = Len(op.stack) /\ op.stack[d] = [t |-> f, i |-> i]
  BY DEF At, TopIs
<1>3. op.stack[d].t = f
  BY <1>2
<1>4. TableOK(tab[f]) /\ Levels \in Nat
  BY <1>1, <1>2, CoversIs DEF Typed, Tree, Rooted
<1>5. DOMAIN tab[f].ent = Slots(tab, f)
  BY <1>4 DEF TableOK, Slots
<1>6. PICK x \in Slots(tab, f) : tab[f].ent[x] # None
  BY <1>5 DEF Clear
<1>7. EntryOK(d, tab[f].ent[x])
  BY <1>2, <1>4 DEF TableOK, Slots
<1>8. \E v \in 0 .. VaPool - 1 : /\ v \in 0 .. Limit - 1 /\ Nth(d, v) = Block(tab, nr, f, x)
                                 /\ Tr[v].k = "page" \/ Lost(spaces, Holding(maps, op), v)
  <2>1. CASE tab[f].ent[x].k = "page"
    <3>1. PICK v \in 0 .. Limit - 1 : Nth(d, v) = Block(tab, nr, f, x)
      BY <1>1, <1>2, EntryReached
    <3>2. Trans(tab, v).k = "page"
      BY <1>1, <1>2, <2>1, <3>1, EntryFound
    <3>3. PICK s \in spaces : InRange(s, v)
      BY <1>1, <3>2, PageSpace
    <3>4. v \in 0 .. VaPool - 1
      <4>1. s.at \in Nat /\ s.len \in Nat /\ s.at + s.len <= VaPool /\ v \in Nat
        BY <1>1, LimitIs DEF PoolOK
      <4> QED
        BY <3>3, <4>1, PoolAssumption DEF InRange
    <3>5. Tr[v].k = "page"
      BY <3>2, TrIs
    <3> QED
      BY <3>1, <3>4, <3>5
  <2>2. CASE tab[f].ent[x].k = "table"
    <3>1. PICK c : c = tab[f].ent[x].at
      OBVIOUS
    <3>2. c \in T /\ tab[c].lv = d + 1 /\ nr[c] = Block(tab, nr, f, x)
      BY <1>1, <1>2, <2>2, <3>1 DEF Tree, Children
    <3>3. c # Root
      BY <1>1, <1>2, <3>2 DEF Tree, Rooted
    <3>4. ~Exempt(op, c)
      <4>1. \A k \in 1 .. Len(op.stack) : tab[op.stack[k].t].lv = k
        BY <1>1 DEF Stacked
      <4>2. \A k \in 1 .. Len(op.stack) : op.stack[k].t # c
        BY <1>2, <3>2, <4>1
      <4> QED
        BY <4>2 DEF Exempt
    <3>5. Anchor(tab, nr, Tr, spaces, Holding(maps, op), c)
      BY <3>2, <3>3, <3>4 DEF InvAt, Anchored
    <3>6. PICK v \in 0 .. VaPool - 1 : Nth(tab[c].lv - 1, v) = nr[c] /\ (Tr[v].k = "page" \/ Lost(spaces, Holding(maps, op), v))
      BY <3>5 DEF Anchor
    <3>7. Nth(d, v) = Block(tab, nr, f, x)
      BY <1>2, <3>2, <3>6
    <3>8. v \in 0 .. Limit - 1
      BY PoolBelow
    <3> QED
      BY <3>6, <3>7, <3>8
  <2> QED
    BY <1>6, <1>7, <2>1, <2>2, EntryKinds
<1>9. PICK v \in 0 .. VaPool - 1 : /\ v \in 0 .. Limit - 1 /\ Nth(d, v) = Block(tab, nr, f, x)
                                   /\ Tr[v].k = "page" \/ Lost(spaces, Holding(maps, op), v)
  BY <1>8
<1>10. Nth(d - 1, v) = nr[f]
  BY <1>1, <1>2, <1>9, BlockIs DEF Tree
<1>11. Nth(Len(op.stack) - 1, v) = nr[op.stack[Len(op.stack)].t]
  BY <1>2, <1>3, <1>10
<1> QED
  BY <1>9, <1>11, StackUsed

(* The call goes on, and changes the tables so that the GPU finds what it  *)
(* found.                                                                  *)
LEMMA CallGoesIn ==
  ASSUME NEW T, NEW nr, InvAt(T, nr), NEW S, NEW mr, \A v \in 0 .. Limit - 1 : Trans(tab', v) = Trans(tab, v),
         spaces' = spaces, parts' = parts, maps' = maps, given' = given, stale' = stale, Busy(op), Busy(op'),
         op'.va = op.va, op'.size = op.size, op'.got = op.got,
         Typed(tab'), Tree(tab', S, mr), Leaves(tab', S, mr, spaces),
         OpOK(op', Tr, given), Walking(tab', S, mr, op'), Anchored(tab', S, mr, Tr, spaces, Holding(maps, op), op')
  PROVE  Inv'
<1>1. Tr' = Tr
  <2>1. \A v \in 0 .. Limit - 1 : Tr'[v] = Tr[v]
    BY TrIs, TrNext
  <2>2. Tr' = [v \in 0 .. Limit - 1 |-> Tr'[v]] /\ Tr = [v \in 0 .. Limit - 1 |-> Tr[v]]
    BY DEF Tr
  <2> QED
    BY <2>1, <2>2
<1>2. Holding(maps, op') = Holding(maps, op) /\ MapsOK(maps, op')
  BY SameHolding DEF InvAt
<1>4. Typed(tab') /\ Tree(tab', S, mr) /\ Leaves(tab', S, mr, spaces') /\ Walking(tab', S, mr, op')
  OBVIOUS
<1>5. PoolOK(spaces', VaPool) /\ PoolOK(parts', PaPool) /\ HeldOK(Holding(maps', op'), spaces', parts')
      /\ MapsOK(maps', op') /\ Fresh(maps', stale')
  BY <1>2 DEF InvAt
<1>6. Exact(Tr', Holding(maps', op'), parts') /\ Complete(Tr', maps') /\ (given' = {} => Blank(Tr', maps'))
      /\ OpOK(op', Tr', given') /\ Anchored(tab', S, mr, Tr', spaces', Holding(maps', op'), op')
  BY <1>1, <1>2 DEF InvAt
<1> QED
  BY <1>4, <1>5, <1>6, InvMade

(* The tables without one that is given back.                              *)
GivenBack(u, f) ==
  \E p, j : /\ p = op.stack[Len(op.stack) - 1].t /\ j = op.stack[Len(op.stack) - 1].i
            /\ u = [g \in DOMAIN tab \ {f} |-> IF g = p THEN [tab[g] EXCEPT !.ent[j] = None] ELSE tab[g]]

(* What GiveBack changes.                                                  *)
LEMMA GiveBackIs ==
  ASSUME NEW T, NEW nr, InvAt(T, nr), Busy(op), NEW d, NEW f, NEW i, At(T, nr, d, f, i), d # 1
  PROVE  GivenBack(GiveBack, f)
<1>1. Stacked(tab, T, nr, op.stack, op.at)
  BY OpIs
<1>2. PICK so, fr : so = op.stack /\ fr = Front(so)
  OBVIOUS
<1>3. d = Len(so) /\ so \in Stacks /\ Len(so) \in Nat \ {0} /\ d # 1
  BY <1>1, <1>2 DEF At, TopIs, Stacked
<1>4. Len(fr) = Len(so) - 1 /\ \A k \in 1 .. Len(so) - 1 : fr[k] = so[k]
  BY ONLY <1>2, <1>3, FrontIs
<1>5. Last(fr) = so[Len(so) - 1]
  BY <1>3, <1>4 DEF Last
<1>6. Last(Front(op.stack)) = op.stack[Len(op.stack) - 1]
  BY <1>2, <1>5
<1> QED
  <2>1. Top.t = f
    BY DEF At
  <2> QED
    BY <1>6, <2>1 DEF GiveBack, GivenBack

ClearedIn(g, e, j) == g = [e EXCEPT !.ent[j] = None]

(* A table with one entry cleared.                                         *)
LEMMA EntryCleared ==
  ASSUME NEW e, TableOK(e), NEW j \in 0 .. Cnt[e.lv] - 1, NEW g, ClearedIn(g, e, j)
  PROVE  /\ TableOK(g) /\ g.lv = e.lv
         /\ \A x \in 0 .. Cnt[e.lv] - 1 : g.ent[x] = IF x = j THEN None ELSE e.ent[x]
<1>1. PICK l, m : l = e.lv /\ m = e.ent
  OBVIOUS
<1>2. e = [lv |-> l, ent |-> m] /\ l \in 1 .. Levels /\ m = [x \in 0 .. Cnt[l] - 1 |-> m[x]] /\ \A x \in 0 .. Cnt[l] - 1 : EntryOK(l, m[x])
  BY <1>1 DEF TableOK
<1>3. PICK n : n = [m EXCEPT ![j] = None]
  OBVIOUS
<1>4. g = [lv |-> l, ent |-> n]
  BY <1>2, <1>3 DEF ClearedIn
<1>5. n = [x \in 0 .. Cnt[l] - 1 |-> n[x]] /\ \A x \in 0 .. Cnt[l] - 1 : n[x] = IF x = j THEN None ELSE m[x]
  <2>1. PICK D : D = 0 .. Cnt[l] - 1
    OBVIOUS
  <2>2. m = [x \in D |-> m[x]] /\ n = [m EXCEPT ![j] = None] /\ j \in D
    BY <1>1, <1>2, <1>3, <2>1
  <2>3. n = [x \in D |-> n[x]] /\ \A x \in D : n[x] = IF x = j THEN None ELSE m[x]
    BY ONLY <2>2
  <2> QED
    BY <2>1, <2>3
<1>6. \A x \in 0 .. Cnt[l] - 1 : EntryOK(l, n[x])
  <2>1. EntryOK(l, None)
    BY DEF EntryOK
  <2> QED
    BY <1>2, <1>5, <2>1
<1>7. g.lv = l /\ g.ent = n
  BY <1>4
<1> QED
  BY <1>1, <1>2, <1>4, <1>5, <1>6, <1>7 DEF TableOK

PoppedCall(T, nr, d, st) ==
  /\ IsCall(op') /\ op'.kind = op.kind /\ op'.va = op.va /\ op'.size = op.size /\ op'.got = op.got /\ op'.rng = op.rng
  /\ op'.left = op.left /\ op'.stack = st /\ op'.at = op.at /\ op'.todo = op.todo /\ op'.off = op.off
  /\ op'.up = op.up /\ Busy(op') /\ Shape(op')
  /\ Stacked(tab, T, nr, st, op.at) /\ Len(st) = d - 1 /\ \A k \in 1 .. d - 1 : st[k].t = op.stack[k].t

(* A call whose stack lost its top.                                        *)
LEMMA PopIs ==
  ASSUME NEW T, NEW nr, InvAt(T, nr), Busy(op), NEW d, NEW f, NEW i, At(T, nr, d, f, i), d # 1,
         op' = [op EXCEPT !.stack = Pop]
  PROVE  \E st : PoppedCall(T, nr, d, st)
<1>1. Typed(tab) /\ Tree(tab, T, nr) /\ Shape(op) /\ Stacked(tab, T, nr, op.stack, op.at) /\ op.at \in 0 .. Limit - 1
  BY OpIs DEF InvAt
<1>2. PICK so, st : so = op.stack /\ PoppedTo(st, so)
  BY DEF PoppedTo
<1>3. d = Len(so) /\ Lv = d /\ Top = Last(so)
  BY <1>2 DEF At, TopIs, Top
<1>4. Pop = st
  BY <1>2, <1>3 DEF Pop, PoppedTo
<1>5. Stacked(tab, T, nr, st, op.at) /\ Len(st) = Len(so) - 1 /\ \A k \in 1 .. Len(so) - 1 : st[k].t = so[k].t
  <2>1. Typed(tab) /\ Tree(tab, T, nr) /\ op.at \in 0 .. Limit - 1 /\ Stacked(tab, T, nr, so, op.at) /\ Len(so) # 1
    BY <1>1, <1>2, <1>3
  <2> QED
    BY ONLY <1>2, <2>1, Popped
<1>6. /\ IsCall(op') /\ op'.kind = op.kind /\ op'.va = op.va /\ op'.size = op.size /\ op'.got = op.got /\ op'.rng = op.rng
      /\ op'.left = op.left /\ op'.stack = st /\ op'.at = op.at /\ op'.todo = op.todo /\ op'.off = op.off /\ op'.up = op.up
  BY <1>1, <1>4 DEF Shape, IsCall
<1>7. Busy(op') /\ Shape(op')
  BY <1>1, <1>6 DEF Busy, Shape
<1> QED
  BY <1>2, <1>3, <1>5, <1>6, <1>7 DEF PoppedCall

(* _try_free_pt(): the table of the walk is given back, and the entry that *)
(* named it, in the one above, is cleared.                                 *)
BackAt(T, d, f, p, j) ==
  /\ p \in T /\ tab[p].lv = d - 1 /\ p # f /\ d - 1 \in 1 .. Len(op.stack) /\ j \in Slots(tab, p)
  /\ Typed(tab') /\ TableOut(tab, tab', p, j, f)

(* _try_free_pt(): the tables without the empty one, and the entry above   *)
(* that named it.                                                          *)
LEMMA TableBack ==
  ASSUME NEW T, NEW nr, InvAt(T, nr), Busy(op), NEW d, NEW f, NEW i, At(T, nr, d, f, i), d # 1,
         tab' = GiveBack, Clear(f)
  PROVE  \E p, j : BackAt(T, d, f, p, j)
<1>0. /\ d \in 1 .. Levels /\ d \in Nat /\ d # 1 /\ f \in T /\ tab[f].lv = d /\ d = Len(op.stack) /\ op.stack[d].t = f
      /\ f # Root /\ Typed(tab) /\ Tree(tab, T, nr) /\ Stacked(tab, T, nr, op.stack, op.at)
  <2>1. d \in 1 .. Levels /\ f \in T /\ tab[f].lv = d /\ d = Len(op.stack) /\ op.stack[d] = [t |-> f, i |-> i] /\ f # Root
    BY DEF At, TopIs
  <2>2. op.stack[d].t = f
    BY ONLY <2>1
  <2> QED
    BY <2>1, <2>2, OpIs, CoversIs DEF InvAt
<1>1. tab' = GiveBack /\ Clear(f) /\ f # Root
  BY <1>0
<1>2. PICK p, j : /\ p = op.stack[Len(op.stack) - 1].t /\ j = op.stack[Len(op.stack) - 1].i
                  /\ tab' = [g \in DOMAIN tab \ {f} |-> IF g = p THEN [tab[g] EXCEPT !.ent[j] = None] ELSE tab[g]]
  <2>1. GivenBack(GiveBack, f)
    BY GiveBackIs
  <2>2. GivenBack(tab', f)
    BY <1>1, <2>1
  <2> QED
    BY ONLY <2>2 DEF GivenBack
<1>3. /\ p \in T /\ tab[p].lv = d - 1 /\ j \in Slots(tab, p) /\ tab[p].ent[j] = Table(f) /\ p # f
      /\ d - 1 \in 1 .. Len(op.stack)
  <2>1. PICK b, so : b = d - 1 /\ so = op.stack
    OBVIOUS
  <2>2. d \in Nat /\ d # 1 /\ d = Len(so) /\ Len(so) \in Nat \ {0} /\ Stacked(tab, T, nr, so, op.at)
    BY <1>0, <2>1 DEF Stacked
  <2>3. b \in 1 .. Len(so) /\ b \in 1 .. Len(so) - 1 /\ b + 1 = d /\ b # d /\ b \in Nat
    <3>1. d \in Nat /\ d # 1 /\ d # 0 /\ d = Len(so) /\ b = d - 1
      BY <2>1, <2>2
    <3> QED
      BY ONLY <3>1
  <2>4. p = so[b].t /\ j = so[b].i
    BY <1>2, <2>1, <2>2
  <2>5. p \in T /\ tab[p].lv = b /\ j \in 0 .. Cnt[b] /\ j < Cnt[b] /\ tab[p].ent[j] = Table(so[b + 1].t)
    BY ONLY <2>2, <2>3, <2>4 DEF Stacked
  <2>6. Cnt[b] \in Nat
    <3>1. b \in 1 .. Levels /\ Levels \in Nat
      BY <1>0, <2>1, <2>3, CoversIs
    <3> QED
      BY <3>1, CoversIs
  <2>7. j \in Slots(tab, p)
    BY ONLY <2>5, <2>6 DEF Slots
  <2>8. so[b + 1].t = f
    BY <1>0, <2>1, <2>3
  <2> QED
    BY <1>0, <2>1, <2>3, <2>5, <2>7, <2>8
<1>4. /\ p \in DOMAIN tab /\ f \in DOMAIN tab /\ \A g \in DOMAIN tab : TableOK(tab[g])
      /\ DOMAIN tab \subseteq Frames \cup {Root}
  BY <1>0, <1>3 DEF Tree, Rooted, Typed
<1>5. PICK e : e = [tab[p] EXCEPT !.ent[j] = None]
  OBVIOUS
<1>6. TableOK(e) /\ e.lv = tab[p].lv /\ \A x \in Slots(tab, p) : e.ent[x] = IF x = j THEN None ELSE tab[p].ent[x]
  <2>1. PICK e0 : e0 = tab[p]
    OBVIOUS
  <2>2. TableOK(e0) /\ j \in 0 .. Cnt[e0.lv] - 1 /\ ClearedIn(e, e0, j)
    BY <1>3, <1>4, <1>5, <2>1 DEF Slots, ClearedIn
  <2>3. TableOK(e) /\ e.lv = e0.lv /\ \A x \in 0 .. Cnt[e0.lv] - 1 : e.ent[x] = IF x = j THEN None ELSE e0.ent[x]
    BY ONLY <2>2, EntryCleared
  <2> QED
    BY <2>1, <2>3 DEF Slots
<1>7. /\ DOMAIN tab' = DOMAIN tab \ {f} /\ tab' = [g \in DOMAIN tab' |-> tab'[g]]
      /\ tab'[p] = e /\ \A g \in DOMAIN tab' : g # p => tab'[g] = tab[g]
  BY <1>2, <1>3, <1>4, <1>5
<1>8. Typed(tab')
  BY <1>4, <1>6, <1>7 DEF Typed
<1>9. \A x \in Slots(tab, f) : tab[f].ent[x] = None
  <2>1. DOMAIN tab[f].ent = Slots(tab, f)
    BY <1>4 DEF TableOK, Slots
  <2> QED
    BY <1>1, <2>1 DEF Clear
<1>10. TableOut(tab, tab', p, j, f)
  BY <1>1, <1>3, <1>6, <1>7, <1>9 DEF TableOut
<1> QED
  BY <1>3, <1>8, <1>10 DEF BackAt

(* level_up() gives back only tables below which nothing is mapped.        *)
LEMMA LevelUpKeeps == Inv /\ LevelUp => Inv'
<1>1. SUFFICES ASSUME NEW T, NEW nr, InvAt(T, nr), LevelUp PROVE Inv'
  BY DEF Inv
<1>2. /\ op.kind \in {"check", "map", "unmap"} /\ op.up /\ spaces' = spaces /\ parts' = parts
      /\ maps' = maps /\ given' = given /\ stale' = stale /\ Busy(op)
      /\ tab' = IF Frees THEN GiveBack ELSE tab
      /\ op' = IF Frees \/ Top.i = Cnt[Lv] THEN [op EXCEPT !.stack = Pop] ELSE [op EXCEPT !.up = FALSE]
  BY <1>1 DEF LevelUp, Busy
<1>3. PICK d, f, i : At(T, nr, d, f, i)
  BY <1>1, <1>2, WalkAt
<1>4. /\ d \in 1 .. Levels /\ d \in Nat /\ f \in T /\ i \in Nat /\ tab[f].lv = d /\ d = Len(op.stack) /\ op.stack[d] = [t |-> f, i |-> i]
      /\ Lv = d /\ Top.i = i /\ Top.t = f /\ (d = 1 <=> f = Root) /\ i <= Cnt[d] /\ Cnt[d] \in Nat /\ (i = Cnt[d] => d # 1)
  BY <1>3, CoversIs DEF At, TopIs
<1>5. op.stack[d].t = f /\ op.stack[d].i = i
  BY <1>4
<1>6. Typed(tab) /\ Tree(tab, T, nr) /\ Shape(op) /\ Stacked(tab, T, nr, op.stack, op.at) /\ OpOK(op, Tr, given) /\ op.at < Limit
  BY <1>1, <1>2, OpIs DEF InvAt
<1>7. CASE ~Frees /\ i # Cnt[d]
  <2>1. tab' = tab /\ op' = [op EXCEPT !.up = FALSE]
    BY <1>2, <1>4, <1>7
  <2>2. /\ IsCall(op') /\ op'.kind = op.kind /\ op'.va = op.va /\ op'.size = op.size /\ op'.got = op.got /\ op'.rng = op.rng
        /\ op'.left = op.left /\ op'.stack = op.stack /\ op'.at = op.at /\ op'.todo = op.todo /\ op'.off = op.off
        /\ op'.up = FALSE
    BY <1>6, <2>1 DEF Shape, IsCall
  <2>3. Busy(op') /\ Shape(op')
    <3>1. op'.up \in BOOLEAN
      BY <2>2, Zenon
    <3> QED
      BY <1>2, <1>6, <2>2, <3>1 DEF Busy, Shape
  <2>4. OpOK(op', Tr, given)
    BY <1>2, <1>6, <2>2, <2>3 DEF OpOK, Clean, MapAt
  <2>5. Walking(tab, T, nr, op')
    BY <1>4, <1>5, <1>6, <1>7, <2>2 DEF Walking
  <2>6. ASSUME NEW g \in T \ {Root}, Exempt(op, g) PROVE Exempt(op', g) \/ Anchor(tab, nr, Tr, spaces, Holding(maps, op), g)
    <3>1. PICK k \in 1 .. Len(op.stack) : op.stack[k].t = g
      BY <2>6 DEF Exempt
    <3>2. op.kind = "unmap"
      BY <1>2, <2>6 DEF Exempt
    <3>3. CASE op.todo > 0
      BY <2>2, <2>3, <3>1, <3>2, <3>3 DEF Exempt
    <3>4. CASE ~(op.todo > 0)
      <4>1. f # Root
        BY <1>4, <1>6, <2>6, <3>1 DEF Stacked
      <4>2. ~Clear(f)
        BY <1>4, <1>7, <3>2, <4>1 DEF Frees
      <4>3. \A l \in 1 .. Len(op.stack) : Anchor(tab, nr, Tr, spaces, Holding(maps, op), op.stack[l].t)
        BY <1>1, <1>2, <1>3, <4>2, TopUsed
      <4> QED
        BY <3>1, <4>3
    <3> QED
      BY <3>3, <3>4
  <2> QED
    BY <1>1, <1>2, <2>1, <2>2, <2>3, <2>4, <2>5, <2>6, CallGoesOn
<1>8. CASE Frees \/ i = Cnt[d]
  <2>1. op' = [op EXCEPT !.stack = Pop] /\ d # 1
    BY <1>2, <1>4, <1>8 DEF Frees
  <2>2. PICK st : /\ IsCall(op') /\ op'.kind = op.kind /\ op'.va = op.va /\ op'.size = op.size /\ op'.got = op.got /\ op'.rng = op.rng
                  /\ op'.left = op.left /\ op'.stack = st /\ op'.at = op.at /\ op'.todo = op.todo /\ op'.off = op.off
                  /\ op'.up = op.up /\ Busy(op') /\ Shape(op')
                  /\ Stacked(tab, T, nr, st, op.at) /\ Len(st) = d - 1 /\ \A k \in 1 .. d - 1 : st[k].t = op.stack[k].t
    <3>1. InvAt(T, nr) /\ Busy(op) /\ At(T, nr, d, f, i) /\ d # 1 /\ op' = [op EXCEPT !.stack = Pop]
      BY <1>1, <1>2, <1>3, <2>1
    <3>2. \E st : PoppedCall(T, nr, d, st)
      BY ONLY <3>1, PopIs
    <3> QED
      BY <3>2 DEF PoppedCall
  <2>3. OpOK(op', Tr, given)
    BY <1>2, <1>6, <2>2 DEF OpOK, Clean, MapAt
  <2>4. ASSUME NEW g, g # f, Exempt(op, g) PROVE Exempt(op', g)
    <3>1. PICK k \in 1 .. Len(op.stack) : op.stack[k].t = g
      BY <2>4 DEF Exempt
    <3>2. k \in 1 .. d - 1
      BY <1>4, <1>5, <2>4, <3>1
    <3>3. k \in 1 .. Len(st) /\ st[k].t = g
      BY <2>2, <3>1, <3>2
    <3> QED
      BY <2>2, <2>4, <3>3 DEF Exempt
  <2>5. CASE ~Frees
    <3>1. tab' = tab
      BY <1>2, <2>5
    <3>2. Walking(tab, T, nr, op')
      BY <1>2, <1>6, <2>2 DEF Walking
    <3>3. ASSUME NEW g \in T \ {Root}, Exempt(op, g) PROVE Exempt(op', g) \/ Anchor(tab, nr, Tr, spaces, Holding(maps, op), g)
      <4>1. CASE g # f
        BY <2>4, <3>3, <4>1
      <4>2. CASE g = f
        <5>1. op.kind = "unmap"
          BY <1>2, <3>3 DEF Exempt
        <5>2. ~Clear(f)
          BY <1>4, <2>1, <2>5, <5>1 DEF Frees
        <5>3. \A l \in 1 .. Len(op.stack) : Anchor(tab, nr, Tr, spaces, Holding(maps, op), op.stack[l].t)
          BY <1>1, <1>2, <1>3, <5>2, TopUsed
        <5>4. d \in 1 .. Len(op.stack)
          BY <1>4
        <5> QED
          BY <1>5, <4>2, <5>3, <5>4
      <4> QED
        BY <4>1, <4>2
    <3> QED
      BY <1>1, <1>2, <2>2, <2>3, <3>1, <3>2, <3>3, CallGoesOn
  <2>6. CASE Frees
    <3>1. tab' = GiveBack /\ Clear(f) /\ f # Root
      BY <1>2, <1>4, <2>6 DEF Frees
    <3>2. PICK p, j : BackAt(T, d, f, p, j)
      BY <1>1, <1>2, <1>3, <2>1, <3>1, TableBack
    <3>3. /\ p \in T /\ tab[p].lv = d - 1 /\ p # f /\ j \in Slots(tab, p) /\ Typed(tab') /\ TableOut(tab, tab', p, j, f)
      BY <3>2 DEF BackAt
    <3>11. PICK S : S = T \ {f}
      OBVIOUS
    <3>12. Tree(tab', S, nr) /\ \A v \in 0 .. Limit - 1 : Trans(tab', v) = Trans(tab, v)
      BY <1>4, <1>6, <3>3, <3>11, TableDropped
    <3>13. \A g \in S : g \in DOMAIN tab' /\ tab'[g].lv = tab[g].lv /\ (g # p => tab'[g] = tab[g])
      BY <1>6, <3>3, <3>11 DEF Tree, Rooted, TableOut
    <3>14. Leaves(tab', S, nr, spaces)
      <4>1. SUFFICES ASSUME NEW g \in S, NEW x \in Slots(tab', g), tab'[g].ent[x].k = "page" PROVE LeafIn(tab', nr, spaces, g, x)
        BY DEF Leaves
      <4>2. x \in Slots(tab, g)
        BY <3>13 DEF Slots
      <4>3. tab[g].ent[x].k = "page"
        <5>1. CASE g # p
          BY <3>13, <4>1, <5>1
        <5>2. CASE g = p
          <6>1. tab'[p].ent[x] = IF x = j THEN None ELSE tab[p].ent[x]
            BY <3>3, <4>2, <5>2 DEF TableOut
          <6> QED
            BY <4>1, <5>2, <6>1 DEF None
        <5> QED
          BY <5>1, <5>2
      <4>4. LeafIn(tab, nr, spaces, g, x)
        BY <1>1, <3>11, <4>2, <4>3 DEF InvAt, Leaves
      <4> QED
        BY <3>13, <4>4 DEF LeafIn, Block
    <3>15. Stacked(tab', S, nr, st, op.at)
      <4>1. \A k \in 1 .. Len(st) : st[k].t \in T /\ tab[st[k].t].lv = k
        BY <2>2 DEF Stacked
      <4>2. \A k \in 1 .. Len(st) : st[k].t \in S
        BY <1>4, <2>2, <3>11, <4>1
      <4>3. \A k \in 1 .. Len(st) - 1 : st[k].t # p
        BY <1>4, <2>2, <3>3, <4>1
      <4>4. \A k \in 1 .. Len(st) : st[k].t \in S /\ tab'[st[k].t].lv = tab[st[k].t].lv /\ nr[st[k].t] = nr[st[k].t]
        BY <3>13, <4>2
      <4>5. \A k \in 1 .. Len(st) - 1 : tab'[st[k].t].ent[st[k].i] = tab[st[k].t].ent[st[k].i]
        <5>1. \A k \in 1 .. Len(st) - 1 : k \in 1 .. Len(st)
          BY <1>4, <2>2
        <5> QED
          BY <3>13, <4>2, <4>3, <5>1
      <4>6. Stacked(tab, T, nr, st, op.at)
        BY <2>2
      <4> QED
        BY ONLY <4>4, <4>5, <4>6, StackedIn
    <3>16. Walking(tab', S, nr, op')
      BY <1>2, <1>6, <2>2, <3>15 DEF Walking
    <3>17. Anchored(tab', S, nr, Tr, spaces, Holding(maps, op), op')
      <4>1. SUFFICES ASSUME NEW g \in S \ {Root}, ~Exempt(op', g) PROVE Anchor(tab', nr, Tr, spaces, Holding(maps, op), g)
        BY DEF Anchored
      <4>2. ~Exempt(op, g) /\ g \in T \ {Root}
        BY <2>4, <3>11, <4>1
      <4>3. Anchor(tab, nr, Tr, spaces, Holding(maps, op), g)
        BY <1>1, <4>2 DEF InvAt, Anchored
      <4> QED
        BY <3>13, <4>3 DEF Anchor
    <3> QED
      BY <1>1, <1>2, <2>2, <2>3, <3>3, <3>12, <3>14, <3>16, <3>17, CallGoesIn
  <2> QED
    BY <2>5, <2>6
<1> QED
  BY <1>4, <1>7, <1>8

-----------------------------------------------------------------------------
(* The range that is being mapped lies within the call's.                  *)
MapPart(j) ==
  /\ MapAt(op, j) /\ j \in 1 .. Len(op.got) /\ op.rng = op.got[j].at /\ op.off + op.todo = op.got[j].len
  /\ op.at = op.va + Starts(op.got)[j] + op.off /\ Starts(op.got)[j] \in Nat /\ op.got[j].at \in Nat /\ op.got[j].len \in Nat
  /\ op.at + op.todo <= op.va + op.size /\ op.at < op.va + op.size

(* What is mapped now lies in one physical range of the call.              *)
LEMMA MapWithin ==
  ASSUME NEW T, NEW nr, InvAt(T, nr), op.kind = "map", op.todo > 0
  PROVE  \E j \in Nat : MapPart(j)
<1>1. Busy(op)
  BY DEF Busy
<1>2. Shape(op) /\ OpOK(op, Tr, given)
  BY <1>1, OpIs DEF InvAt
<1>3. PICK j \in Nat : MapAt(op, j)
  BY <1>2 DEF OpOK
<1>4. RangesOf(op.got) /\ op.va \in Nat /\ op.at \in Nat /\ op.size \in Nat /\ op.off \in Nat /\ op.todo \in Int
  BY <1>2 DEF Shape
<1>5. /\ Len(op.got) \in Nat /\ \A k \in 1 .. Len(op.got) : op.got[k].at \in Nat /\ op.got[k].len \in Nat
      /\ \A k \in 1 .. Len(op.got) : Starts(op.got)[k + 1] = Starts(op.got)[k] + op.got[k].len
      /\ \A k \in 1 .. Len(op.got) + 1 : Starts(op.got)[k] \in Nat
  BY <1>4, StartsIs, RangesTyped
<1>6. j # 0 /\ j \in 0 .. Len(op.got)
  BY <1>3 DEF MapAt
<1>7. j \in 1 .. Len(op.got) /\ j \in 1 .. Len(op.got) + 1 /\ j + 1 \in 1 .. Len(op.got) + 1 /\ j + 1 <= Len(op.got) + 1
      /\ Len(op.got) + 1 \in 1 .. Len(op.got) + 1
  BY <1>5, <1>6
<1>8. op.rng = op.got[j].at /\ op.off + op.todo = op.got[j].len /\ op.at + op.todo = op.va + Starts(op.got)[j + 1]
  BY <1>3, <1>6 DEF MapAt
<1>9. Starts(op.got)[j + 1] = Starts(op.got)[j] + op.got[j].len /\ Starts(op.got)[j] \in Nat /\ op.got[j].at \in Nat /\ op.got[j].len \in Nat
      /\ Starts(op.got)[j + 1] \in Nat
  BY <1>5, <1>7
<1>10. Starts(op.got)[j + 1] <= Starts(op.got)[Len(op.got) + 1]
  BY <1>4, <1>7, StartsGrow
<1>11. Starts(op.got)[Len(op.got) + 1] = op.size
  BY <1>2 DEF OpOK, Total
<1>12. PICK a, w, o, u, b, l, n : /\ a = op.at /\ w = op.todo /\ o = op.off /\ u = op.va
                                  /\ b = Starts(op.got)[j] /\ l = op.got[j].len /\ n = Starts(op.got)[j + 1]
  OBVIOUS
<1>14. /\ a \in Nat /\ w \in Int /\ w > 0 /\ o \in Nat /\ u \in Nat /\ b \in Nat /\ l \in Nat /\ n \in Nat
       /\ o + w = l /\ a + w = u + n /\ n = b + l /\ n <= op.size /\ op.size \in Nat
  <2>1. n <= op.size
    BY <1>10, <1>11, <1>12
  <2>2. a \in Nat /\ w \in Int /\ w > 0 /\ o \in Nat /\ u \in Nat /\ op.size \in Nat
    BY <1>4, <1>12
  <2>3. b \in Nat /\ l \in Nat /\ n \in Nat /\ n = b + l
    BY <1>9, <1>12
  <2>4. o + w = l /\ a + w = u + n
    BY <1>8, <1>12
  <2> QED
    BY <2>1, <2>2, <2>3, <2>4
<1>15. a = u + b + o /\ a + w <= u + op.size /\ a < u + op.size
  BY ONLY <1>14
<1>13. op.at = op.va + Starts(op.got)[j] + op.off /\ op.at + op.todo <= op.va + op.size /\ op.at < op.va + op.size
  BY <1>12, <1>15
<1> QED
  BY <1>3, <1>7, <1>8, <1>9, <1>13 DEF MapPart

(* The call ends, and what it has stays as it is, but nobody holds it any  *)
(* more: a MemoryError of palloc(), or page_tables(), which returns.       *)
LEMMA GivesUp ==
  ASSUME NEW T, NEW nr, InvAt(T, nr), Busy(op), ~op.up, op.kind = "reserve" \/ (op.kind = "map" /\ op.todo > 0),
         op' = Idle, tab' = tab, spaces' = spaces, parts' = parts, maps' = maps, given' = given \/ given' # {}, stale' = stale
  PROVE  Inv'
<1>1. /\ op.va \in Nat /\ op.size \in Nat \ {0} /\ op.va + op.size <= VaPool /\ [at |-> op.va, len |-> op.size] \in spaces
      /\ \A v \in op.va .. op.va + op.size - 1 : v \in 0 .. VaPool - 1
      /\ Shape(op) /\ op.at \in 0 .. Limit - 1 /\ op.stack[Len(op.stack)].i < Cnt[Len(op.stack)]
      /\ Stacked(tab, T, nr, op.stack, op.at)
  BY OpIs
<1>2. Typed(tab) /\ Tree(tab, T, nr) /\ HeldOK(Holding(maps, op), spaces, parts) /\ Exact(Tr, Holding(maps, op), parts)
      /\ Leaves(tab, T, nr, spaces) /\ OpOK(op, Tr, given)
  BY DEF InvAt
<1>3. op.va <= op.at /\ op.at < op.va + op.size /\ op.at \in Nat
  <2>1. op.at \in Nat /\ op.va <= op.at
    BY <1>1 DEF Shape
  <2>2. CASE op.kind = "reserve"
    <3>1. op.at = op.va
      BY <1>2, <2>2 DEF OpOK
    <3> QED
      BY <1>1, <2>1, <3>1
  <2>3. CASE op.kind = "map" /\ op.todo > 0
    BY <2>1, <2>3, MapWithin DEF MapPart
  <2> QED
    BY <2>2, <2>3
<1>4. op.at \in 0 .. VaPool - 1
  BY <1>1, <1>3
<1>5. Held(maps) \subseteq Holding(maps, op)
  BY HoldingIs
<1>6. HeldOK(Held(maps), spaces, parts) /\ Exact(Tr, Held(maps), parts)
  <2>1. \A h \in Held(maps) : Space(h) \in spaces /\ \A k \in DOMAIN h.ps : h.ps[k] \in parts
    BY <1>2, <1>5 DEF HeldOK
  <2>2. HeldOK(Held(maps), spaces, parts)
    BY <1>2, <1>5, <2>1, HeldPart
  <2> QED
    BY <1>2, <1>5, <2>2, ExactPart
<1>7. \A v \in 0 .. VaPool - 1 : Lost(spaces, Holding(maps, op), v) => Lost(spaces, Held(maps), v)
  BY <1>5 DEF Lost
<1>8. Lost(spaces, Held(maps), op.at)
  <2>1. PICK s \in spaces : s = [at |-> op.va, len |-> op.size]
    BY <1>1
  <2>2. s.at = op.va /\ s.len = op.size
    BY <2>1
  <2>3. InRange(s, op.at)
    BY <1>3, <2>2 DEF InRange
  <2>4. \A h \in Held(maps) : h.va # s.at
    BY <2>2, MineApart
  <2> QED
    BY <2>3, <2>4 DEF Lost
<1>9. PICK d, f, i : At(T, nr, d, f, i)
  BY WalkAt
<1>10. /\ d = Len(op.stack) /\ op.stack[d] = [t |-> f, i |-> i] /\ i <= Cnt[d]
       /\ (i < Cnt[d] => Nth(d - 1, op.at) = nr[f])
  BY <1>9 DEF At, TopIs
<1>11. op.stack[d].t = f /\ op.stack[d].i = i
  BY <1>10
<1>12. Nth(Len(op.stack) - 1, op.at) = nr[op.stack[Len(op.stack)].t]
  BY <1>1, <1>10, <1>11
<1>13. PICK so : so = op.stack
  OBVIOUS
<1>14. \A k \in 1 .. Len(so) : Nth(k - 1, op.at) = nr[so[k].t] /\ tab[so[k].t].lv = k
  <2>1. Stacked(tab, T, nr, so, op.at) /\ Nth(Len(so) - 1, op.at) = nr[so[Len(so)].t]
    BY <1>1, <1>12, <1>13
  <2>2. op.at \in 0 .. Limit - 1
    BY <1>1
  <2>3. \A k \in 1 .. Len(so) : Nth(k - 1, op.at) = nr[so[k].t]
    BY ONLY <1>2, <2>1, <2>2, UnderStack
  <2> QED
    BY <2>1, <2>3 DEF Stacked
<1>15. ASSUME NEW g, Exempt(op, g) PROVE Anchor(tab, nr, Tr, spaces, Held(maps), g)
  <2>1. PICK k \in 1 .. Len(so) : so[k].t = g
    BY <1>13, <1>15 DEF Exempt
  <2>2. Nth(tab[g].lv - 1, op.at) = nr[g]
    BY <1>14, <2>1
  <2> QED
    BY <1>4, <1>8, <2>2 DEF Anchor
<1> QED
  BY <1>2, <1>6, <1>7, <1>15, ClosedKeeps

(* The same call, with another stack.                                      *)
Restacked(st) ==
  /\ IsCall(op') /\ op'.kind = op.kind /\ op'.va = op.va /\ op'.size = op.size /\ op'.got = op.got /\ op'.rng = op.rng
  /\ op'.left = op.left /\ op'.stack = st /\ op'.at = op.at /\ op'.todo = op.todo /\ op'.off = op.off
  /\ op'.up = op.up /\ Busy(op') /\ Shape(op')

(* A call with another stack.                                              *)
LEMMA RestackIs ==
  ASSUME NEW T, NEW nr, InvAt(T, nr), Busy(op), NEW st, op' = [op EXCEPT !.stack = st]
  PROVE  Restacked(st) /\ OpOK(op', Tr, given)
<1>1. Shape(op) /\ OpOK(op, Tr, given)
  BY OpIs DEF InvAt
<1>2. /\ IsCall(op') /\ op'.kind = op.kind /\ op'.va = op.va /\ op'.size = op.size /\ op'.got = op.got /\ op'.rng = op.rng
      /\ op'.left = op.left /\ op'.stack = st /\ op'.at = op.at /\ op'.todo = op.todo /\ op'.off = op.off
      /\ op'.up = op.up
  BY <1>1 DEF Shape, IsCall
<1>3. Busy(op') /\ Shape(op')
  BY <1>1, <1>2 DEF Busy, Shape
<1>4. OpOK(op', Tr, given)
  BY <1>1, <1>2, <1>3 DEF OpOK, Clean, MapAt
<1> QED
  BY <1>2, <1>3, <1>4 DEF Restacked

NamesIn(g, e, j, c) == g = [e EXCEPT !.ent[j] = Table(c)]

(* A table with one entry that names another.                              *)
LEMMA EntryNames ==
  ASSUME NEW e, TableOK(e), e.lv < Levels, NEW c \in Frames, NEW j \in 0 .. Cnt[e.lv] - 1, NEW g, NamesIn(g, e, j, c)
  PROVE  /\ TableOK(g) /\ g.lv = e.lv
         /\ \A x \in 0 .. Cnt[e.lv] - 1 : g.ent[x] = IF x = j THEN Table(c) ELSE e.ent[x]
<1>1. PICK l, m : l = e.lv /\ m = e.ent
  OBVIOUS
<1>2. e = [lv |-> l, ent |-> m] /\ l \in 1 .. Levels /\ m = [x \in 0 .. Cnt[l] - 1 |-> m[x]] /\ \A x \in 0 .. Cnt[l] - 1 : EntryOK(l, m[x])
  BY <1>1 DEF TableOK
<1>3. PICK n : n = [m EXCEPT ![j] = Table(c)]
  OBVIOUS
<1>4. g = [lv |-> l, ent |-> n]
  BY <1>2, <1>3 DEF NamesIn
<1>5. n = [x \in 0 .. Cnt[l] - 1 |-> n[x]] /\ \A x \in 0 .. Cnt[l] - 1 : n[x] = IF x = j THEN Table(c) ELSE m[x]
  <2>1. PICK D : D = 0 .. Cnt[l] - 1
    OBVIOUS
  <2>2. m = [x \in D |-> m[x]] /\ n = [m EXCEPT ![j] = Table(c)] /\ j \in D
    BY <1>1, <1>2, <1>3, <2>1
  <2>3. n = [x \in D |-> n[x]] /\ \A x \in D : n[x] = IF x = j THEN Table(c) ELSE m[x]
    BY ONLY <2>2
  <2> QED
    BY <2>1, <2>3
<1>6. \A x \in 0 .. Cnt[l] - 1 : EntryOK(l, n[x])
  <2>1. EntryOK(l, Table(c))
    BY <1>1 DEF EntryOK
  <2> QED
    BY <1>2, <1>5, <2>1
<1>7. g.lv = l /\ g.ent = n
  BY <1>4
<1> QED
  BY <1>1, <1>2, <1>4, <1>5, <1>6, <1>7 DEF TableOK

(* A table without entries.                                                *)
LEMMA EmptyIs ==
  ASSUME NEW l \in 1 .. Levels, NEW e, e = EmptyTable(l)
  PROVE  TableOK(e) /\ e.lv = l /\ \A x \in 0 .. Cnt[l] - 1 : e.ent[x] = None
<1>1. e.lv = l /\ e.ent = [x \in 0 .. Cnt[l] - 1 |-> None] /\ e = [lv |-> e.lv, ent |-> e.ent]
  BY DEF EmptyTable
<1>2. \A x \in 0 .. Cnt[l] - 1 : e.ent[x] = None
  BY <1>1
<1>3. EntryOK(l, None)
  BY DEF EntryOK
<1>4. e.ent = [x \in 0 .. Cnt[l] - 1 |-> e.ent[x]]
  BY <1>1
<1> QED
  BY <1>1, <1>2, <1>3, <1>4 DEF TableOK

(* palloc() of a table where there was none.                               *)
NewTable(u, f, i, c) ==
  u = [x \in DOMAIN tab \cup {c} |->
         IF x = c THEN EmptyTable(tab[f].lv + 1) ELSE IF x = f THEN [tab[x] EXCEPT !.ent[i] = Table(c)] ELSE tab[x]]

(* The tables with a new one, and the entry that names it.                 *)
LEMMA NewTableIs ==
  ASSUME NEW T, NEW nr, InvAt(T, nr), NEW f \in T, NEW i \in Slots(tab, f), tab[f].lv < Levels, tab[f].ent[i] = None,
         NEW c \in Frames, c \notin DOMAIN tab, NEW u, NewTable(u, f, i, c)
  PROVE  Typed(u) /\ TableNew(tab, u, f, i, c) /\ u[f].ent[i] = Table(c)
<1>1. /\ f \in DOMAIN tab /\ \A g \in DOMAIN tab : TableOK(tab[g]) 
      /\ DOMAIN tab \subseteq Frames \cup {Root} /\ tab[f].lv \in 1 .. Levels
  BY DEF InvAt, Typed, Tree, Rooted, TableOK
<1>2. tab[f].lv + 1 \in 1 .. Levels
  BY <1>1, CoversIs
<1>3. PICK e, z, e0 : e = [tab[f] EXCEPT !.ent[i] = Table(c)] /\ z = EmptyTable(tab[f].lv + 1) /\ e0 = tab[f]
  OBVIOUS
<1>4. TableOK(z) /\ z.lv = tab[f].lv + 1 /\ \A x \in 0 .. Cnt[tab[f].lv + 1] - 1 : z.ent[x] = None
  BY <1>2, <1>3, EmptyIs
<1>5. TableOK(e) /\ e.lv = tab[f].lv /\ \A x \in Slots(tab, f) : e.ent[x] = IF x = i THEN Table(c) ELSE tab[f].ent[x]
  <2>1. TableOK(e0) /\ e0.lv < Levels /\ i \in 0 .. Cnt[e0.lv] - 1 /\ NamesIn(e, e0, i, c) /\ c \in Frames
    BY <1>1, <1>3 DEF Slots, NamesIn
  <2>2. TableOK(e) /\ e.lv = e0.lv /\ \A x \in 0 .. Cnt[e0.lv] - 1 : e.ent[x] = IF x = i THEN Table(c) ELSE e0.ent[x]
    BY ONLY <2>1, EntryNames
  <2> QED
    BY <1>3, <2>2 DEF Slots
<1>6. /\ DOMAIN u = DOMAIN tab \cup {c} /\ u = [g \in DOMAIN u |-> u[g]] /\ u[c] = z /\ u[f] = e
      /\ \A g \in DOMAIN tab : g # f => u[g] = tab[g]
  BY <1>1, <1>3 DEF NewTable
<1>7. Typed(u)
  BY <1>1, <1>4, <1>5, <1>6 DEF Typed
<1>8. TableNew(tab, u, f, i, c)
  <2>1. c # Root
    BY FrameAssumption
  <2>2. \A g \in DOMAIN tab : u[g].lv = tab[g].lv /\ (g # f => u[g] = tab[g])
    BY <1>5, <1>6
  <2>3. u[c].lv = tab[f].lv + 1 /\ \A x \in Slots(u, c) : u[c].ent[x] = None
    BY <1>4, <1>6 DEF Slots
  <2> QED
    BY <1>1, <1>5, <1>6, <2>1, <2>2, <2>3 DEF TableNew
<1> QED
  BY <1>5, <1>6, <1>7, <1>8

(* level_down() with a new table: it is empty, and what the call will map  *)
(* lies below it.                                                          *)
LEMMA TableMadeKeeps ==
  ASSUME NEW T, NEW nr, InvAt(T, nr), Busy(op), ~op.up, op.kind = "reserve" \/ (op.kind = "map" /\ op.todo > 0),
         NEW d, NEW f, NEW i, At(T, nr, d, f, i), Entry = None, d < Levels, NEW c \in Frames, c \notin DOMAIN tab,
         NewTable(tab', f, i, c), op' = [op EXCEPT !.stack = Push(c)],
         spaces' = spaces, parts' = parts, maps' = maps, given' = given, stale' = stale
  PROVE  Inv'
<1>1. /\ Typed(tab) /\ Tree(tab, T, nr) /\ Shape(op) /\ op.at \in 0 .. Limit - 1 /\ op.at < Limit
      /\ op.stack[Len(op.stack)].i < Cnt[Len(op.stack)] /\ Stacked(tab, T, nr, op.stack, op.at)
  BY OpIs DEF InvAt
<1>2. /\ d \in 1 .. Levels /\ f \in T /\ i \in Nat /\ tab[f].lv = d /\ d = Len(op.stack) /\ op.stack[d] = [t |-> f, i |-> i]
      /\ Lv = d /\ Entry = tab[f].ent[i] /\ (i < Cnt[d] => i \in Slots(tab, f)) /\ f \in DOMAIN tab
  BY DEF At, TopIs
<1>3. op.stack[d].t = f /\ op.stack[d].i = i /\ i < Cnt[d] /\ i \in Slots(tab, f) /\ tab[f].ent[i] = None
  BY <1>1, <1>2
<1>4. Typed(tab') /\ TableNew(tab, tab', f, i, c) /\ tab'[f].ent[i] = Table(c)
  <2>1. f \in T /\ i \in Slots(tab, f) /\ tab[f].lv < Levels /\ tab[f].ent[i] = None /\ c \in Frames /\ c \notin DOMAIN tab
    BY <1>2, <1>3
  <2>2. InvAt(T, nr) /\ NewTable(tab', f, i, c)
    OBVIOUS
  <2> QED
    BY ONLY <2>1, <2>2, NewTableIs
<1>5. PICK S : S = T \cup {c}
  OBVIOUS
<1>6. PICK mr : /\ Tree(tab', S, mr) /\ c \notin T /\ \A g \in T : mr[g] = nr[g]
                /\ \A v \in 0 .. Limit - 1 : Trans(tab', v) = Trans(tab, v)
  <2>1. Typed(tab) /\ Typed(tab') /\ Tree(tab, T, nr) /\ f \in T /\ TableNew(tab, tab', f, i, c)
    BY <1>1, <1>2, <1>4
  <2>2. \E mr : /\ Tree(tab', T \cup {c}, mr) /\ c \notin T
                /\ mr[c] = Block(tab, nr, f, i) /\ \A g \in T : mr[g] = nr[g]
                /\ \A v \in 0 .. Limit - 1 : Trans(tab', v) = Trans(tab, v)
    BY ONLY <2>1, TableAdded
  <2> QED
    BY <1>5, <2>2
<1>7. \A g \in T : g \in DOMAIN tab /\ tab'[g].lv = tab[g].lv /\ mr[g] = nr[g] /\ (g # f => tab'[g] = tab[g])
  BY <1>1, <1>4, <1>6 DEF Tree, Rooted, TableNew
<1>8. PICK so, st : so = op.stack /\ PushedOn(st, so, c, op.at)
  BY DEF PushedOn
<1>9. Push(c) = st
  BY <1>2, <1>8 DEF Push, PushedOn
<1>10. Stacked(tab', S, mr, so, op.at)
  <2>1. Stacked(tab, T, nr, so, op.at)
    BY <1>1, <1>8
  <2>2. \A k \in 1 .. Len(so) : so[k].t \in T /\ tab[so[k].t].lv = k
    BY <2>1 DEF Stacked
  <2>3. \A k \in 1 .. Len(so) : so[k].t \in S /\ tab'[so[k].t].lv = tab[so[k].t].lv /\ mr[so[k].t] = nr[so[k].t]
    BY <1>5, <1>7, <2>2
  <2>4. Len(so) \in Nat /\ d = Len(so)
    BY <1>2, <1>8, <2>1 DEF Stacked
  <2>5. ASSUME NEW k \in 1 .. Len(so) - 1 PROVE tab'[so[k].t].ent[so[k].i] = tab[so[k].t].ent[so[k].i]
    <3>1. k \in 1 .. Len(so) /\ k # d
      BY <2>4
    <3>2. so[k].t \in T /\ so[k].t # f
      BY <1>2, <2>2, <3>1
    <3> QED
      BY <1>7, <3>2
  <2> QED
    BY ONLY <2>1, <2>3, <2>5, StackedIn
<1>11. /\ Stacked(tab', S, mr, st, op.at) /\ Len(st) = Len(so) + 1 /\ \A k \in 1 .. Len(so) : st[k] = so[k]
       /\ st[Len(st)].t = c /\ st[Len(st)].i < Cnt[Len(st)]
  <2>1. NextTable(tab', so, c)
    BY <1>2, <1>3, <1>4, <1>8 DEF NextTable
  <2>2. Typed(tab') /\ Tree(tab', S, mr) /\ op.at \in 0 .. Limit - 1
    BY <1>1, <1>4, <1>6
  <2> QED
    BY ONLY <1>8, <1>10, <2>1, <2>2, Pushed
<1>12. Restacked(st) /\ OpOK(op', Tr, given)
  <2>1. op' = [op EXCEPT !.stack = st]
    BY <1>9
  <2> QED
    BY <2>1, RestackIs
<1>13. /\ Busy(op') /\ op'.va = op.va /\ op'.size = op.size /\ op'.got = op.got /\ op'.kind = op.kind /\ op'.stack = st
       /\ op'.at = op.at /\ op'.todo = op.todo /\ op'.up = op.up
  BY <1>12 DEF Restacked
<1>14. Walking(tab', S, mr, op')
  BY <1>1, <1>11, <1>13 DEF Walking
<1>15. Leaves(tab', S, mr, spaces)
  <2>1. SUFFICES ASSUME NEW g \in S, NEW x \in Slots(tab', g), tab'[g].ent[x].k = "page" PROVE LeafIn(tab', mr, spaces, g, x)
    BY DEF Leaves
  <2>2. g # c
    BY <1>4, <2>1 DEF TableNew, None
  <2>3. g \in T /\ x \in Slots(tab, g)
    BY <1>5, <1>7, <2>2 DEF Slots
  <2>4. tab[g].ent[x].k = "page"
    <3>1. CASE g # f
      BY <1>7, <2>1, <2>3, <3>1
    <3>2. CASE g = f
      <4>1. tab'[f].ent[x] = IF x = i THEN Table(c) ELSE tab[f].ent[x]
        BY <1>4, <2>3, <3>2 DEF TableNew
      <4>2. Table(c).k # "page"
        BY DEF Table
      <4> QED
        BY <2>1, <3>2, <4>1, <4>2
    <3> QED
      BY <3>1, <3>2
  <2>5. LeafIn(tab, nr, spaces, g, x)
    BY <2>3, <2>4 DEF InvAt, Leaves
  <2> QED
    BY <1>7, <2>3, <2>5 DEF LeafIn, Block
<1>16. \A g : (\E k \in 1 .. Len(st) : st[k].t = g) => Exempt(op', g)
  BY <1>13 DEF Exempt
<1>17. Anchored(tab', S, mr, Tr, spaces, Holding(maps, op), op')
  <2>1. SUFFICES ASSUME NEW g \in S \ {Root}, ~Exempt(op', g) PROVE Anchor(tab', mr, Tr, spaces, Holding(maps, op), g)
    BY DEF Anchored
  <2>2. Len(so) \in Nat /\ Len(st) \in 1 .. Len(st) /\ \A k \in 1 .. Len(so) : k \in 1 .. Len(st)
    BY <1>8, <1>1, <1>11 DEF Stacked
  <2>3. g # c
    BY <1>11, <1>16, <2>1, <2>2
  <2>4. ~Exempt(op, g)
    <3>1. \A k \in 1 .. Len(so) : st[k].t = so[k].t
      BY <1>11
    <3>2. \A k \in 1 .. Len(so) : so[k].t # g
      BY <1>16, <2>1, <2>2, <3>1
    <3> QED
      BY <1>8, <3>2 DEF Exempt
  <2>5. g \in T
    BY <1>5, <2>3
  <2>6. Anchor(tab, nr, Tr, spaces, Holding(maps, op), g)
    BY <2>1, <2>4, <2>5 DEF InvAt, Anchored
  <2> QED
    BY <1>7, <2>5, <2>6 DEF Anchor
<1> QED
  BY <1>4, <1>6, <1>12, <1>13, <1>14, <1>15, <1>17, CallGoesIn

(* level_down(), when the entry reached is empty: a table is put there, or *)
(* there is no page for one.                                               *)
MadeAt(d, f, i, c) ==
  /\ f \in DOMAIN tab /\ d < Levels /\ i \in Slots(tab, f) /\ tab[f].lv = d /\ tab[f].ent[i] = None /\ Entry = None
  /\ c \in Frames \ DOMAIN tab /\ op' = [op EXCEPT !.stack = Push(c)] /\ NewTable(tab', f, i, c)

(* level_down() at an entry without a table makes one, or fails for lack   *)
(* of pages.                                                               *)
LEMMA LevelDownMakes ==
  ASSUME NEW T, NEW nr, InvAt(T, nr), Busy(op), ~op.up, NEW d, NEW f, NEW i, At(T, nr, d, f, i),
         Entry.k # "table", Entry.k # "page", Lv # Levels, LevelDown
  PROVE  (op' = Idle /\ tab' = tab) \/ \E c : MadeAt(d, f, i, c)
<1>1. /\ d \in 1 .. Levels /\ f \in T /\ i \in Nat /\ tab[f].lv = d /\ d = Len(op.stack) /\ op.stack[d] = [t |-> f, i |-> i]
      /\ Lv = d /\ Entry = tab[f].ent[i] /\ (i < Cnt[d] => i \in Slots(tab, f)) /\ Top.t = f /\ Top.i = i /\ f \in DOMAIN tab
  BY DEF At, TopIs
<1>2. op.stack[d].i = i
  BY <1>1
<1>3. i \in Slots(tab, f)
  BY <1>1, <1>2, OpIs
<1>4. Entry = None
  <2>1. EntryOK(tab[f].lv, tab[f].ent[i])
    BY <1>1, <1>3 DEF InvAt, Typed, TableOK, Tree, Rooted, Slots
  <2> QED
    BY <1>1, <2>1, EntryKinds
<1>5. d < Levels
  BY <1>1, CoversIs
<1>6. \/ op' = Idle /\ tab' = tab
      \/ \E c \in Frames \ DOMAIN tab :
           /\ tab' = [x \in DOMAIN tab \cup {c} |->
                        IF x = c THEN EmptyTable(Lv + 1)
                        ELSE IF x = Top.t THEN [tab[x] EXCEPT !.ent[Top.i] = Table(c)] ELSE tab[x]]
           /\ op' = [op EXCEPT !.stack = Push(c)]
  BY DEF LevelDown
<1>7. \/ op' = Idle /\ tab' = tab
      \/ \E c \in Frames \ DOMAIN tab : op' = [op EXCEPT !.stack = Push(c)] /\ NewTable(tab', f, i, c)
  <2>1. Lv = tab[f].lv /\ Top.t = f /\ Top.i = i
    BY <1>1
  <2> QED
    BY ONLY <1>6, <2>1 DEF NewTable
<1>8. tab[f].lv = d /\ tab[f].ent[i] = None /\ f \in DOMAIN tab
  BY <1>1, <1>4
<1> QED
  BY ONLY <1>3, <1>4, <1>5, <1>7, <1>8 DEF MadeAt

(* level_down(), when the entry reached is no page.                        *)
LEMMA LevelDownKeeps ==
  ASSUME NEW T, NEW nr, InvAt(T, nr), Busy(op), ~op.up, op.kind = "reserve" \/ (op.kind = "map" /\ op.todo > 0),
         Entry.k # "page", Lv # Levels, LevelDown,
         spaces' = spaces, parts' = parts, maps' = maps, given' = given, stale' = stale
  PROVE  Inv'
<1>1. PICK d, f, i : At(T, nr, d, f, i)
  BY WalkAt
<1>2. CASE Entry.k = "table"
  <2>1. op' = [op EXCEPT !.stack = Push(Entry.at)] /\ tab' = tab
    BY <1>2 DEF LevelDown
  <2> QED
    BY <1>2, <2>1, DownKeeps
<1>3. CASE Entry.k # "table"
  <2>1. CASE op' = Idle /\ tab' = tab
    BY <2>1, GivesUp
  <2>2. ASSUME NEW c, MadeAt(d, f, i, c) PROVE Inv'
    BY <1>1, <2>2, TableMadeKeeps DEF MadeAt
  <2>3. (op' = Idle /\ tab' = tab) \/ \E c : MadeAt(d, f, i, c)
    BY <1>1, <1>3, LevelDownMakes
  <2> QED
    BY <2>1, <2>2, <2>3
<1> QED
  BY <1>2, <1>3

(* An entry of the last level covers a page: nothing is too large or       *)
(* unaligned for it.                                                       *)
LEMMA LastCovers == Covers[Levels] = 1 /\ \A p \in Nat : p % 1 = 0
<1>1. Covers[Levels] = 1
  BY CoversIs
<1>2. \A p \in Nat : p % 1 = 0
  BY Remainder
<1> QED
  BY <1>1, <1>2

(* An entry of the last level is never too large.                          *)
LEMMA LastFits ==
  ASSUME Lv = Levels, op.at \in Nat, op.todo \in Int, op.todo > 0, NEW pa \in Nat
  PROVE  ~TooLarge(pa)
<1>1. Covers[Lv] = 1 /\ pa % 1 = 0 /\ op.at % 1 = 0 /\ Levels \in Nat
  BY LastCovers, CoversIs
<1> QED
  BY <1>1 DEF TooLarge, Huge

(* page_tables() goes down without mapping anything.                       *)
LEMMA DescendKeeps == Inv /\ Descend => Inv'
<1>1. SUFFICES ASSUME NEW T, NEW nr, InvAt(T, nr), Descend PROVE Inv'
  BY DEF Inv
<1>2. /\ op.kind = "reserve" /\ spaces' = spaces /\ parts' = parts /\ maps' = maps /\ stale' = stale
      /\ IF TooLarge(0) THEN LevelDown /\ given' = given
         ELSE given' = {e.t : e \in ToSet(op.stack)} /\ op' = Idle /\ tab' = tab
  BY <1>1 DEF Descend
<1>3. Busy(op)
  BY <1>2 DEF Busy
<1>4. /\ Shape(op) /\ OpOK(op, Tr, given) /\ Typed(tab) /\ Tree(tab, T, nr) /\ Stacked(tab, T, nr, op.stack, op.at)
      /\ op.at \in 0 .. Limit - 1 /\ op.stack[Len(op.stack)].i < Cnt[Len(op.stack)]
      /\ op.va \in Nat /\ op.size \in Nat \ {0} /\ op.va + op.size <= VaPool
  <2>1. Typed(tab) /\ Tree(tab, T, nr) /\ OpOK(op, Tr, given)
    BY <1>1 DEF InvAt
  <2>2. ~op.up
    BY <1>2, <2>1 DEF OpOK
  <2>3. InvAt(T, nr) /\ Busy(op)
    BY <1>1, <1>3
  <2> QED
    BY ONLY <2>1, <2>2, <2>3, OpIs
<1>5. given = {} /\ op.at = op.va /\ op.todo = Reserved /\ op.size = Reserved /\ ~op.up
  BY <1>2, <1>3, <1>4 DEF OpOK
<1>6. Blank(Tr, maps)
  BY <1>1, <1>5 DEF InvAt
<1>7. ~op.up
  BY <1>5
<1>8. CASE TooLarge(0)
  <2>1. LevelDown /\ given' = given
    BY <1>2, <1>8
  <2>2. Lv # Levels
    <3>1. op.at \in Nat /\ op.todo \in Int /\ op.todo > 0 /\ 0 \in Nat
      BY <1>4, <1>5, SizeAssumption DEF Shape
    <3> QED
      BY <1>8, <3>1, LastFits
  <2>3. Entry.k # "page"
    <3>0. op.at = op.va /\ op.va \in Nat /\ op.size \in Nat \ {0} /\ op.va + op.size <= VaPool /\ VaPool \in Nat
      BY <1>4, <1>5, PoolAssumption
    <3>1. PICK d, f, i : At(T, nr, d, f, i)
      BY <1>1, <1>3, WalkAt
    <3>2. /\ d \in 1 .. Levels /\ f \in T /\ i \in Nat /\ tab[f].lv = d /\ d = Len(op.stack) /\ op.stack[d] = [t |-> f, i |-> i]
          /\ Entry = tab[f].ent[i] /\ (i < Cnt[d] => i \in Slots(tab, f) /\ Nth(d, op.at) = Block(tab, nr, f, i))
      BY <3>1 DEF At, TopIs
    <3>3. op.stack[d].i = i
      BY <3>2
    <3>4. i \in Slots(tab, f) /\ Nth(tab[f].lv, op.at) = Block(tab, nr, f, i) /\ f \in T
      BY <1>4, <3>2, <3>3
    <3>5. SUFFICES ASSUME Entry.k = "page" PROVE FALSE
      OBVIOUS
    <3>6. tab[f].ent[i].k = "page" /\ op.at \in 0 .. Limit - 1
      BY <1>4, <3>2, <3>5
    <3>10. Typed(tab) /\ Tree(tab, T, nr)
      BY <1>4
    <3>7. Trans(tab, op.at).k = "page"
      <4>1. f \in T /\ i \in Slots(tab, f) /\ Nth(tab[f].lv, op.at) = Block(tab, nr, f, i)
        BY <3>4
      <4> QED
        BY ONLY <3>6, <3>10, <4>1, EntryFound
    <3>8. op.at \in 0 .. VaPool - 1
      BY ONLY <3>0
    <3>9. Tr[op.at].k = "page"
      BY <1>4, <3>7, TrIs
    <3> QED
      BY <1>6, <3>8, <3>9 DEF Blank
  <2> QED
    <3>1. op.kind = "reserve" \/ (op.kind = "map" /\ op.todo > 0)
      BY <1>2
    <3>2. InvAt(T, nr) /\ Busy(op) /\ ~op.up
      BY <1>1, <1>3, <1>7
    <3>3. spaces' = spaces /\ parts' = parts /\ maps' = maps /\ given' = given /\ stale' = stale
      BY <1>2, <2>1
    <3>4. LevelDown
      BY <2>1
    <3> QED
      BY ONLY <2>2, <2>3, <3>1, <3>2, <3>3, <3>4, LevelDownKeeps
<1>9. CASE ~TooLarge(0)
  <2>1. given' = {e.t : e \in ToSet(op.stack)} /\ op' = Idle /\ tab' = tab
    BY <1>2, <1>9
  <2>2. given' # {}
    <3>1. op.stack \in Seq(Spots) /\ Len(op.stack) \in Nat \ {0}
      BY <1>4 DEF Stacked, Stacks
    <3>2. op.stack[1] \in ToSet(op.stack)
      <4> HIDE DEF Spots
      <4>1. 1 \in DOMAIN op.stack
        BY <3>1
      <4> QED
        BY <4>1 DEF ToSet
    <3>3. op.stack[1].t \in given'
      BY <2>1, <3>2
    <3> QED
      BY <3>3
  <2> QED
    <3>1. op.kind = "reserve" \/ (op.kind = "map" /\ op.todo > 0)
      BY <1>2
    <3>2. InvAt(T, nr) /\ Busy(op) /\ ~op.up
      BY <1>1, <1>3, <1>7
    <3>3. spaces' = spaces /\ parts' = parts /\ maps' = maps /\ stale' = stale /\ op' = Idle /\ tab' = tab
      BY <1>2, <2>1
    <3>4. given' = given \/ given' # {}
      BY <2>2
    <3> QED
      BY ONLY <3>1, <3>2, <3>3, <3>4, GivesUp
<1> QED
  BY <1>8, <1>9

-----------------------------------------------------------------------------
(* set_entry() of a row of entries.                                        *)
SetIn(g, e, new) == g = [e EXCEPT !.ent = [x \in DOMAIN @ |-> IF x \in DOMAIN new THEN new[x] ELSE @[x]]]

(* A table with several entries set.                                       *)
LEMMA EntriesSet ==
  ASSUME NEW e, TableOK(e), NEW new, \A x \in DOMAIN new : EntryOK(e.lv, new[x]), NEW g, SetIn(g, e, new)
  PROVE  /\ TableOK(g) /\ g.lv = e.lv
         /\ \A x \in 0 .. Cnt[e.lv] - 1 : g.ent[x] = IF x \in DOMAIN new THEN new[x] ELSE e.ent[x]
<1>1. PICK l, m, D : l = e.lv /\ m = e.ent /\ D = 0 .. Cnt[l] - 1
  OBVIOUS
<1>2. e = [lv |-> l, ent |-> m] /\ l \in 1 .. Levels /\ m = [x \in D |-> m[x]] /\ \A x \in D : EntryOK(l, m[x])
  BY <1>1 DEF TableOK
<1>3. PICK n : n = [x \in D |-> IF x \in DOMAIN new THEN new[x] ELSE m[x]]
  OBVIOUS
<1>4. DOMAIN m = D
  BY ONLY <1>2
<1>5. g = [lv |-> l, ent |-> n]
  <2>1. g = [e EXCEPT !.ent = [x \in DOMAIN e.ent |-> IF x \in DOMAIN new THEN new[x] ELSE e.ent[x]]]
    BY DEF SetIn
  <2>2. g = [e EXCEPT !.ent = n]
    BY <1>1, <1>3, <1>4, <2>1
  <2> QED
    BY ONLY <1>2, <2>2
<1>6. n = [x \in D |-> n[x]] /\ \A x \in D : n[x] = IF x \in DOMAIN new THEN new[x] ELSE m[x]
  BY ONLY <1>3
<1>7. \A x \in D : EntryOK(l, n[x])
  BY <1>1, <1>2, <1>6
<1>8. g.lv = l /\ g.ent = n
  BY ONLY <1>5
<1> QED
  BY <1>1, <1>2, <1>5, <1>6, <1>7, <1>8 DEF TableOK

WrittenTo(u, t, f, new) ==
  u = [t EXCEPT ![f].ent = [x \in DOMAIN @ |-> IF x \in DOMAIN new THEN new[x] ELSE @[x]]]

RowNew(l, i, n, new) ==
  DOMAIN new = i .. i + n - 1 /\ \A x \in i .. i + n - 1 : EntryOK(l, new[x]) /\ new[x].k # "table"

RowIn(t, f, i, n) == i \in Nat /\ n \in Nat /\ \A x \in i .. i + n - 1 : x \in Slots(t, f)
RowNow(u, f, i, n, new) == \A x \in i .. i + n - 1 : u[f].ent[x] = new[x]

(* What the row holds then, and that the tables are as they were else.     *)
LEMMA WriteIs ==
  ASSUME NEW t, Typed(t), NEW f \in DOMAIN t, NEW i, NEW n, RowIn(t, f, i, n),
         NEW new, RowNew(t[f].lv, i, n, new), NEW u, WrittenTo(u, t, f, new)
  PROVE  Typed(u) /\ RowSet(t, u, f, i, n) /\ RowNow(u, f, i, n, new)
<1> USE DEF RowIn, RowNow, RowNew
<1>1. PICK e, g : e = t[f] /\ g = u[f]
  OBVIOUS
<1>2. t = [h \in DOMAIN t |-> t[h]] /\ DOMAIN t \subseteq Frames \cup {Root} /\ \A h \in DOMAIN t : TableOK(t[h])
  BY DEF Typed
<1>3. /\ u = [h \in DOMAIN t |-> u[h]] /\ DOMAIN u = DOMAIN t /\ (\A h \in DOMAIN t : h # f => u[h] = t[h])
      /\ u[f] = [t[f] EXCEPT !.ent = [x \in DOMAIN t[f].ent |-> IF x \in DOMAIN new THEN new[x] ELSE t[f].ent[x]]]
  <2>1. u = [t EXCEPT ![f].ent = [x \in DOMAIN @ |-> IF x \in DOMAIN new THEN new[x] ELSE @[x]]]
    BY DEF WrittenTo
  <2> QED
    BY ONLY <1>2, <2>1, f \in DOMAIN t
<1>4. SetIn(g, e, new)
  BY <1>1, <1>3 DEF SetIn
<1>5. TableOK(e) /\ \A x \in DOMAIN new : EntryOK(e.lv, new[x])
  BY <1>1, <1>2
<1>6. /\ TableOK(g) /\ g.lv = e.lv
      /\ \A x \in 0 .. Cnt[e.lv] - 1 : g.ent[x] = IF x \in DOMAIN new THEN new[x] ELSE e.ent[x]
  BY <1>4, <1>5, EntriesSet
<1>7. \A h \in DOMAIN t : u[h].lv = t[h].lv /\ TableOK(u[h])
  BY <1>1, <1>2, <1>3, <1>6
<1>8. Typed(u)
  BY <1>2, <1>3, <1>7 DEF Typed
<1>9. \A x \in Slots(t, f) : u[f].ent[x] = IF x \in DOMAIN new THEN new[x] ELSE t[f].ent[x]
  BY <1>1, <1>6 DEF Slots
<1>10. \A x \in i .. i + n - 1 : u[f].ent[x] = new[x]
  BY <1>9
<1> QED
  BY <1>3, <1>7, <1>8, <1>9, <1>10 DEF RowSet

(* The pages that a row of entries stands for.                             *)
RowFrom(t, nr, f, d, i, a) ==
  /\ d \in 1 .. Levels /\ t[f].lv = d /\ i \in Nat /\ a \in Nat /\ a % Covers[d] = 0
  /\ Nth(d, a) = Block(t, nr, f, i) /\ Block(t, nr, f, 0) \in Nat

RowSpans(t, nr, f, d, i, n, a) ==
  /\ n * Covers[d] \in Nat
  /\ \A v \in Nat : InRow(t, nr, f, i, n, v) <=> a <= v /\ v < a + n * Covers[d]
  /\ \A x \in i .. i + n - 1 : \A v \in Nat : Nth(d, v) = Block(t, nr, f, x) =>
       v = a + (x - i) * Covers[d] + (v % Covers[d])
  /\ \A x \in i .. i + n - 1 : (x - i) * Covers[d] \in Nat /\ (x - i) * Covers[d] + Covers[d] <= n * Covers[d]

(* The pages below a row of entries.                                       *)
LEMMA RowPages ==
  ASSUME NEW t, NEW nr, NEW f, NEW d, NEW i, NEW a, RowFrom(t, nr, f, d, i, a), NEW n \in Nat
  PROVE  RowSpans(t, nr, f, d, i, n, a)
<1> USE DEF RowFrom, RowSpans
<1>1. PICK c, b : c = Covers[d] /\ b = nr[f] * Cnt[d]
  OBVIOUS
<1>2. c \in Nat \ {0} /\ Nth(d, a) \in Nat /\ a = Nth(d, a) * c /\ n * c \in Nat
  BY <1>1, RowIs, CoversIs
<1>3. \A x \in Nat : Block(t, nr, f, x) = b + x
  BY <1>1 DEF Block
<1>4. b \in Nat
  <2>1. b + 0 \in Nat
    BY <1>3
  <2>2. b = nr[f] * Cnt[d] /\ b + 0 = b
    BY <1>1, <2>1, <1>3, CoversIs DEF Block
  <2> QED
    BY <2>1, <2>2
<1>5. \A v \in Nat : InRow(t, nr, f, i, n, v) <=> a <= v /\ v < a + n * Covers[d]
  <2>1. \A v \in Nat : Nth(d, v) \in Nat /\ (a <= v /\ v < a + n * Covers[d] <=> Nth(d, a) <= Nth(d, v) /\ Nth(d, v) < Nth(d, a) + n)
    BY RowIs
  <2> QED
    BY <2>1 DEF InRow
<1>6. ASSUME NEW x \in i .. i + n - 1
      PROVE  (x - i) * c \in Nat /\ (x - i) * c + c <= n * c
  <2>1. x - i \in Nat /\ (x - i) + 1 \in Nat /\ (x - i) + 1 <= n
    OBVIOUS
  <2>2. PICK y : y = x - i
    OBVIOUS
  <2>3. y \in Nat /\ y + 1 \in Nat /\ y + 1 <= n
    BY <2>1, <2>2
  <2>4. (y + 1) * c <= n * c /\ y * c \in Nat
    BY <1>2, <2>3, TimesGrows
  <2>5. (y + 1) * c = y * c + c
    BY <1>2, <2>3
  <2> QED
    BY <2>2, <2>4, <2>5
<1>7. ASSUME NEW x \in i .. i + n - 1, NEW v \in Nat, Nth(d, v) = Block(t, nr, f, x)
      PROVE  v = a + (x - i) * c + (v % c)
  <2>1. PICK y, q, r, z : y = x - i /\ q = v % c /\ r = v \div c /\ z = Nth(d, a)
    OBVIOUS
  <2>2. x \in Nat /\ y \in Nat
    BY <2>1
  <2>3. r = b + x /\ z = b + i
    <3>1. r = Nth(d, v)
      BY <1>1, <2>1 DEF Nth
    <3> QED
      BY <1>3, <1>7, <2>1, <2>2, <3>1
  <2>4. r = z + y /\ r \in Nat /\ z \in Nat
    BY <1>2, <1>4, <2>1, <2>2, <2>3
  <2>5. q \in 0 .. c - 1 /\ q = v - r * c /\ r * c \in Nat
    BY <1>2, <2>1, Remainder, Quotient
  <2>6. r * c = z * c + y * c /\ y * c \in Nat
    BY ONLY <1>2, <2>2, <2>4, c \in Nat \ {0}
  <2>7. a = z * c
    BY <1>2, <2>1
  <2>8. v = z * c + y * c + q
    <3>1. z * c \in Nat
      BY <2>7
    <3> QED
      BY ONLY <2>5, <2>6, <3>1, v \in Nat
  <2> QED
    BY <2>1, <2>7, <2>8
<1> QED
  BY <1>1, <1>2, <1>5, <1>6, <1>7

(* No page lies in the ranges of two holders.                              *)
LEMMA HoldersApart ==
  ASSUME NEW H, NEW S, NEW P, HeldOK(H, S, P), PoolOK(S, VaPool), NEW g \in H, NEW h \in H,
         NEW v \in Nat, InVA(g, v), InVA(h, v)
  PROVE  g = h
<1>1. /\ Space(g) \in S /\ Space(h) \in S /\ (g.va = h.va => g = h)
      /\ Space(g).at = g.va /\ Space(h).at = h.va /\ Space(g).len = g.size /\ Space(h).len = h.size
  BY DEF HeldOK, Space
<1>2. InRange(Space(g), v) /\ InRange(Space(h), v)
  BY <1>1 DEF InVA, InRange
<1>3. Space(g) = Space(h)
  BY <1>1, <1>2, RangesApart
<1> QED
  BY <1>1, <1>3

(* A physical page is in one range of one holder.                          *)
LEMMA PartsApart ==
  ASSUME NEW H, NEW S, NEW P, HeldOK(H, S, P), PoolOK(P, PaPool), NEW g \in H, NEW h \in H,
         NEW j \in DOMAIN g.ps, NEW k \in DOMAIN h.ps, NEW p \in Nat, InRange(g.ps[j], p), InRange(h.ps[k], p)
  PROVE  g = h /\ j = k
<1>1. g.ps[j] \in P /\ h.ps[k] \in P /\ (g.ps[j] = h.ps[k] => g = h /\ j = k)
  BY DEF HeldOK
<1>2. g.ps[j] = h.ps[k]
  BY <1>1, RangesApart
<1> QED
  BY <1>1, <1>2

(* A row of entries is filled: from the page a on, w pages are found from  *)
(* the physical page p on.                                                 *)
Filling(F, G, a, w, p) ==
  \A v \in 0 .. VaPool - 1 : G[v] = IF a <= v /\ v < a + w THEN Page(p + (v - a)) ELSE F[v]

(* Pages filled in order from the physical range at hand are exact where   *)
(* they were not mapped before.                                            *)
LEMMA FilledExact ==
  ASSUME NEW F, NEW G, NEW H, NEW S, NEW P, PoolOK(P, PaPool), PoolOK(S, VaPool), HeldOK(H, S, P), Exact(F, H, P),
         NEW h \in H, NEW j \in DOMAIN h.ps, NEW a \in Nat, NEW w \in Nat, NEW o \in Nat, NEW p \in Nat,
         a = h.va + Starts(h.ps)[j] + o, o + w <= h.ps[j].len, a + w <= h.va + h.size, p = h.ps[j].at + o,
         \A v \in 0 .. VaPool - 1 : InVA(h, v) => (F[v].k = "page" <=> v < a), Filling(F, G, a, w, p)
  PROVE  Exact(G, H, P)
<1>1. PICK r, b, rs : r = h.ps[j] /\ b = Starts(h.ps)[j] /\ rs = h.ps
  OBVIOUS
<1>2. /\ h.va \in Nat /\ h.size \in Nat \ {0} /\ r \in P /\ r.at \in Nat /\ r.len \in Nat /\ b \in Nat /\ VaPool \in Nat
      /\ r = rs[j] /\ b = Starts(rs)[j] /\ j \in DOMAIN rs
  <2>1. h.va \in Nat /\ h.size \in Nat \ {0} /\ r \in P /\ RangesOf(h.ps)
    BY <1>1 DEF HeldOK
  <2>2. DOMAIN h.ps = 1 .. Len(h.ps) /\ Len(h.ps) \in Nat /\ \A k \in 1 .. Len(h.ps) + 1 : Starts(h.ps)[k] \in Nat
    BY <2>1, StartsIs
  <2>3. b \in Nat
    BY <1>1, <2>2
  <2>4. r.at \in Nat /\ r.len \in Nat
    BY <2>1 DEF PoolOK
  <2> QED
    BY <1>1, <2>1, <2>3, <2>4, PoolAssumption
<1>3. a = h.va + b + o /\ o + w <= r.len /\ a + w <= h.va + h.size /\ p = r.at + o
  BY <1>1
<1>4. ASSUME NEW v \in 0 .. VaPool - 1, a <= v, v < a + w
      PROVE  /\ v \in Nat /\ InVA(h, v) /\ G[v] = Page(p + (v - a)) /\ G[v] = Page(G[v].at) /\ G[v].at = p + (v - a)
             /\ G[v].at \in Nat /\ InRange(r, G[v].at) /\ Behind(h.ps, v - h.va, G[v].at)
  <2>1. G[v] = Page(p + (v - a))
    BY <1>4 DEF Filling
  <2>2. G[v].at = p + (v - a) /\ G[v] = Page(G[v].at)
    BY <2>1 DEF Page
  <2>3. v \in Nat
    BY <1>2
  <2>4. InVA(h, v)
    BY <1>2, <1>3, <1>4, <2>3 DEF InVA
  <2>5. p + (v - a) \in Nat /\ r.at <= p + (v - a) /\ p + (v - a) < r.at + r.len
    BY <1>2, <1>3, <1>4, <2>3
  <2>6. b <= v - h.va /\ v - h.va < b + r.len /\ p + (v - a) = r.at + (v - h.va) - b
    BY <1>2, <1>3, <1>4, <2>3
  <2>7. Behind(rs, v - h.va, p + (v - a))
    BY <1>2, <2>6 DEF Behind
  <2> QED
    BY <1>1, <2>1, <2>2, <2>3, <2>4, <2>5, <2>7 DEF InRange
<1>5. ASSUME NEW v \in 0 .. VaPool - 1, ~(a <= v /\ v < a + w)
      PROVE  G[v] = F[v]
  BY <1>5 DEF Filling
<1>6. ASSUME NEW v \in 0 .. VaPool - 1, G[v].k = "page"
      PROVE  /\ G[v].at \in Nat /\ G[v] = Page(G[v].at) /\ Owned(P, G[v].at)
             /\ \A g \in H : /\ InVA(g, v) => Behind(g.ps, v - g.va, G[v].at)
                             /\ ~InVA(g, v) => ~InPA(g, G[v].at)
  <2>1. CASE a <= v /\ v < a + w
    <3>1. /\ v \in Nat /\ InVA(h, v) /\ G[v] = Page(G[v].at) /\ G[v].at \in Nat
          /\ InRange(r, G[v].at) /\ Behind(h.ps, v - h.va, G[v].at)
      BY <1>4, <2>1
    <3>2. Owned(P, G[v].at)
      BY <1>2, <3>1 DEF Owned
    <3>3. ASSUME NEW g \in H, InVA(g, v) PROVE g = h
      BY <3>1, <3>3, HoldersApart
    <3>4. ASSUME NEW g \in H, InPA(g, G[v].at) PROVE g = h
      <4>1. PICK k \in DOMAIN g.ps : InRange(g.ps[k], G[v].at)
        BY <3>4 DEF InPA
      <4> QED
        BY <1>1, <3>1, <4>1, PartsApart
    <3> QED
      BY <3>1, <3>2, <3>3, <3>4
  <2>2. CASE ~(a <= v /\ v < a + w)
    BY <1>5, <1>6, <2>2 DEF Exact
  <2> QED
    BY <2>1, <2>2
<1>7. ASSUME NEW v \in 0 .. VaPool - 1, a <= v, v < a + w, NEW u \in 0 .. VaPool - 1, ~(a <= u /\ u < a + w), G[u].k = "page"
      PROVE  G[u] # G[v]
  <2>1. SUFFICES ASSUME G[u] = G[v] PROVE FALSE
    OBVIOUS
  <2>2. /\ v \in Nat /\ G[v].at = p + (v - a) /\ G[v].at \in Nat /\ InRange(r, G[v].at)
    BY <1>4, <1>7
  <2>3. F[u].k = "page" /\ F[u].at = G[v].at /\ u \in Nat
    BY <1>2, <1>5, <1>7, <2>1
  <2>4. InPA(h, F[u].at)
    BY <1>1, <2>2, <2>3 DEF InPA
  <2>5. InVA(h, u) /\ Behind(h.ps, u - h.va, F[u].at)
    BY <2>3, <2>4 DEF Exact
  <2>6. u < a
    BY <2>3, <2>5
  <2>7. PICK k \in DOMAIN h.ps : /\ Starts(h.ps)[k] <= u - h.va /\ u - h.va < Starts(h.ps)[k] + h.ps[k].len
                                 /\ F[u].at = h.ps[k].at + (u - h.va) - Starts(h.ps)[k]
    <3>1. \A x, z : Behind(h.ps, x, z) => \E k \in DOMAIN h.ps : Starts(h.ps)[k] <= x /\ x < Starts(h.ps)[k] + h.ps[k].len /\ z = h.ps[k].at + x - Starts(h.ps)[k]
      BY DEF Behind
    <3> QED
      BY <2>5, <3>1
  <2>8. Starts(h.ps)[k] \in Nat /\ h.ps[k].at \in Nat /\ h.ps[k].len \in Nat /\ u - h.va \in Int
    <3>1. RangesOf(h.ps)
      BY DEF HeldOK
    <3>2. k \in 1 .. Len(h.ps) /\ Len(h.ps) \in Nat
      BY <3>1, StartsIs
    <3>3. Starts(h.ps)[k] \in Nat
      <4>1. k \in 1 .. Len(h.ps) + 1
        BY <3>2
      <4> QED
        BY <3>1, <4>1, StartsIs
    <3>4. h.ps[k].at \in Nat /\ h.ps[k].len \in Nat
      BY <3>1, <3>2, RangesTyped
    <3>5. u - h.va \in Int
      BY <1>2, <2>3
    <3> QED
      BY <3>3, <3>4, <3>5
  <2>9. InRange(h.ps[k], F[u].at)
    BY <2>7, <2>8 DEF InRange
  <2>10. j = k
    BY <1>1, <2>2, <2>3, <2>9, PartsApart
  <2>11. F[u].at = r.at + (u - h.va) - b
    BY <1>1, <2>7, <2>10
  <2> QED
    BY <1>2, <1>3, <2>2, <2>3, <2>6, <2>11, <1>7
<1>8. ASSUME NEW v \in 0 .. VaPool - 1, NEW u \in 0 .. VaPool - 1, G[v].k = "page", G[v] = G[u]
      PROVE  v = u
  <2>1. CASE (a <= v /\ v < a + w) /\ (a <= u /\ u < a + w)
    <3>1. G[v].at = p + (v - a) /\ G[u].at = p + (u - a)
      BY <1>4, <2>1
    <3> QED
      BY <1>8, <3>1
  <2>2. CASE (a <= v /\ v < a + w) /\ ~(a <= u /\ u < a + w)
    BY <1>7, <1>8, <2>2
  <2>3. CASE ~(a <= v /\ v < a + w) /\ (a <= u /\ u < a + w)
    BY <1>7, <1>8, <2>3
  <2>4. CASE ~(a <= v /\ v < a + w) /\ ~(a <= u /\ u < a + w)
    BY <1>5, <1>8, <2>4 DEF Exact
  <2> QED
    BY <2>1, <2>2, <2>3, <2>4
<1> QED
  BY <1>6, <1>8 DEF Exact

(* A row is written where the walk is: S are the tables that are left in   *)
(* the tree, for those under the row are lost.                             *)
RowDone(T, S, nr, d, f, i, n, w, new) ==
  /\ Typed(tab') /\ Tree(tab', S, nr) /\ RowSet(tab, tab', f, i, n) /\ S \in SUBSET T /\ f \in S
  /\ \A g \in T : g \in S <=> ~Gone(tab, nr, f, i, n, g)
  /\ \A v \in 0 .. Limit - 1 : ~(op.at <= v /\ v < op.at + w) => Trans(tab', v) = Trans(tab, v)
  /\ \A v \in 0 .. Limit - 1 : op.at <= v /\ v < op.at + w =>
       /\ InRow(tab, nr, f, i, n, v)
       /\ \E x \in i .. i + n - 1 : /\ v = op.at + (x - i) * Covers[d] + (v % Covers[d])
                                    /\ Trans(tab', v) = Found(tab', f, x, v)
  /\ \A v \in 0 .. Limit - 1 : InRow(tab, nr, f, i, n, v) => op.at <= v /\ v < op.at + w
  /\ \A x \in i .. i + n - 1 : tab'[f].ent[x] = new[x]

(* A row of entries written at the walk's place: where the GPU finds them, *)
(* and what is left of the tree.                                           *)
LEMMA RowStep ==
  ASSUME NEW T, NEW nr, InvAt(T, nr), Busy(op), NEW d, NEW f, NEW i, At(T, nr, d, f, i), i < Cnt[d],
         NEW n \in Nat \ {0}, i + n <= Cnt[d], op.at % Covers[d] = 0,
         NEW new, RowNew(d, i, n, new), WrittenTo(tab', tab, f, new), NEW w, w = n * Covers[d]
  PROVE  \E S : RowDone(T, S, nr, d, f, i, n, w, new)
<1>1. /\ d \in 1 .. Levels /\ f \in T /\ i \in Nat /\ tab[f].lv = d /\ f \in DOMAIN tab
      /\ i \in Slots(tab, f) /\ Nth(d, op.at) = Block(tab, nr, f, i) /\ Nth(d - 1, op.at) = nr[f]
  BY DEF At, TopIs
<1>2. Typed(tab) /\ Tree(tab, T, nr) /\ op.at \in 0 .. Limit - 1
  BY OpIs DEF InvAt
<1>3. \A x \in i .. i + n - 1 : x \in Slots(tab, f)
  <2>1. Cnt[d] \in Nat
    BY <1>1, CoversIs
  <2>2. \A x \in i .. i + n - 1 : x \in 0 .. Cnt[d] - 1
    BY <1>1, <2>1
  <2> QED
    BY <1>1, <2>2 DEF Slots
<1>4. Typed(tab') /\ RowSet(tab, tab', f, i, n) /\ \A x \in i .. i + n - 1 : tab'[f].ent[x] = new[x]
  <2>1. PICK t, u : t = tab /\ u = tab'
    OBVIOUS
  <2>2. /\ Typed(t) /\ f \in DOMAIN t /\ RowIn(t, f, i, n) /\ RowNew(t[f].lv, i, n, new) /\ WrittenTo(u, t, f, new)
    BY <1>1, <1>2, <1>3, <2>1 DEF RowIn
  <2>3. Typed(u) /\ RowSet(t, u, f, i, n) /\ RowNow(u, f, i, n, new)
    BY ONLY <2>2, WriteIs
  <2> QED
    BY <2>1, <2>3 DEF RowNow
<1>5. PICK S \in SUBSET T : /\ Tree(tab', S, nr) /\ f \in S
                            /\ \A g \in T : g \in S <=> ~Gone(tab, nr, f, i, n, g)
                            /\ RowFound(tab, tab', nr, f, i, n)
  <2>1. PICK t, u, a : t = tab /\ u = tab' /\ a = op.at
    OBVIOUS
  <2>2. /\ Typed(t) /\ Typed(u) /\ Tree(t, T, nr) /\ f \in T /\ i \in Nat /\ n \in Nat /\ RowSet(t, u, f, i, n)
        /\ a \in 0 .. Limit - 1 /\ Nth(t[f].lv - 1, a) = nr[f]
    BY <1>1, <1>2, <1>4, <2>1
  <2>3. \E S \in SUBSET T : /\ Tree(u, S, nr) /\ f \in S
                            /\ \A g \in T : g \in S <=> ~Gone(t, nr, f, i, n, g)
                            /\ RowFound(t, u, nr, f, i, n)
    BY ONLY <2>2, RowWritten
  <2> QED
    BY <2>1, <2>3
<1>6. /\ \A v \in Nat : InRow(tab, nr, f, i, n, v) <=> op.at <= v /\ v < op.at + w
      /\ \A x \in i .. i + n - 1 : \A v \in Nat : Nth(d, v) = Block(tab, nr, f, x) =>
           v = op.at + (x - i) * Covers[d] + (v % Covers[d])
  <2>1. PICK t, a : t = tab /\ a = op.at
    OBVIOUS
  <2>2. RowFrom(t, nr, f, d, i, a) /\ n \in Nat
    <3>1. 0 \in Slots(tab, f)
      BY <1>1, CoversIs DEF Slots
    <3>2. Block(tab, nr, f, 0) \in Nat
      BY <1>1, <1>2, <3>1, BlockIs DEF Tree
    <3> QED
      BY <1>1, <1>2, <2>1, <3>2 DEF RowFrom
  <2>3. RowSpans(t, nr, f, d, i, n, a)
    BY ONLY <2>2, RowPages
  <2> QED
    BY <2>1, <2>3 DEF RowSpans
<1>7. \A v \in 0 .. Limit - 1 : v \in Nat
  BY LimitIs
<1>8. ASSUME NEW v \in 0 .. Limit - 1, op.at <= v, v < op.at + w
      PROVE  /\ InRow(tab, nr, f, i, n, v)
             /\ \E x \in i .. i + n - 1 : /\ v = op.at + (x - i) * Covers[d] + (v % Covers[d])
                                          /\ Trans(tab', v) = Found(tab', f, x, v)
  <2>1. InRow(tab, nr, f, i, n, v)
    BY <1>6, <1>7, <1>8
  <2>2. PICK x \in i .. i + n - 1 : Nth(tab[f].lv, v) = Block(tab, nr, f, x)
    <3>1. Rooted(tab, T, nr) /\ n \in Nat
      BY <1>2 DEF Tree
    <3> QED
      BY <1>1, <1>2, <1>3, <2>1, <3>1, RowEntry
  <2>3. Trans(tab', v) = Found(tab', f, x, v)
    BY <1>5, <2>2 DEF RowFound
  <2>4. v = op.at + (x - i) * Covers[d] + (v % Covers[d])
    BY <1>1, <1>6, <1>7, <2>2
  <2> QED
    BY <2>1, <2>3, <2>4
<1>9. \A v \in 0 .. Limit - 1 : ~(op.at <= v /\ v < op.at + w) => Trans(tab', v) = Trans(tab, v)
  BY <1>5, <1>6, <1>7 DEF RowFound
<1>10. RowDone(T, S, nr, d, f, i, n, w, new)
  <2>1. \A v \in 0 .. Limit - 1 : InRow(tab, nr, f, i, n, v) => op.at <= v /\ v < op.at + w
    BY <1>6, <1>7
  <2> QED
    BY <1>4, <1>5, <1>8, <1>9, <2>1 DEF RowDone
<1> QED
  BY <1>10

(* The stack of the walk is in the tree that is left.                      *)
LEMMA RowStacked ==
  ASSUME NEW T, NEW nr, InvAt(T, nr), NEW d, NEW f, NEW i, At(T, nr, d, f, i),
         NEW S, NEW n, NEW w, NEW new, RowDone(T, S, nr, d, f, i, n, w, new),
         NEW st, NEW a, Stacked(tab, T, nr, st, a), Len(st) = d
  PROVE  Stacked(tab', S, nr, st, a)
<1>1. f \in T /\ tab[f].lv = d /\ d \in 1 .. Levels
  BY DEF At, TopIs
<1>2. /\ RowSet(tab, tab', f, i, n) /\ T \subseteq DOMAIN tab
      /\ \A g \in T : g \in S <=> ~Gone(tab, nr, f, i, n, g)
  BY DEF RowDone, InvAt, Tree, Rooted
<1>3. Len(st) \in Nat \ {0} /\ \A k \in 1 .. Len(st) : st[k].t \in T /\ tab[st[k].t].lv = k
  BY DEF Stacked
<1>4. \A k \in 1 .. Len(st) : st[k].t \in S
  <2>1. SUFFICES ASSUME NEW k \in 1 .. Len(st) PROVE st[k].t \in S
    OBVIOUS
  <2>2. st[k].t \in T /\ tab[st[k].t].lv = k /\ k \in Nat /\ k <= d /\ d \in Nat
    BY <1>1, <1>3
  <2>3. ~(tab[st[k].t].lv > tab[f].lv)
    BY <1>1, <2>2
  <2> QED
    BY <1>2, <2>2, <2>3 DEF Gone
<1>5. \A k \in 1 .. Len(st) : tab'[st[k].t].lv = tab[st[k].t].lv
  BY <1>2, <1>3 DEF RowSet
<1>6. \A k \in 1 .. Len(st) - 1 : tab'[st[k].t].ent[st[k].i] = tab[st[k].t].ent[st[k].i]
  <2>1. SUFFICES ASSUME NEW k \in 1 .. Len(st) - 1 PROVE tab'[st[k].t] = tab[st[k].t]
    OBVIOUS
  <2>2. k \in 1 .. Len(st) /\ k # d
    BY <1>1, <1>3
  <2>3. st[k].t # f
    BY <1>1, <1>3, <2>2
  <2> QED
    BY <1>2, <1>3, <2>2, <2>3 DEF RowSet
<1>7. PICK t, u : t = tab /\ u = tab'
  OBVIOUS
<1>8. Stacked(t, T, nr, st, a)
  BY <1>7
<1>9. \A k \in 1 .. Len(st) : st[k].t \in S /\ u[st[k].t].lv = t[st[k].t].lv /\ nr[st[k].t] = nr[st[k].t]
  BY <1>4, <1>5, <1>7
<1>10. \A k \in 1 .. Len(st) - 1 : u[st[k].t].ent[st[k].i] = t[st[k].t].ent[st[k].i]
  BY <1>6, <1>7
<1>11. Stacked(u, S, nr, st, a)
  BY ONLY <1>8, <1>9, <1>10, StackedIn
<1> QED
  BY <1>7, <1>11

(* Page entries lie in one range each, the new ones too.                   *)
LEMMA RowLeaves ==
  ASSUME NEW T, NEW nr, InvAt(T, nr), NEW d, NEW f, NEW i, At(T, nr, d, f, i),
         NEW S, NEW n, NEW w, NEW new, RowDone(T, S, nr, d, f, i, n, w, new),
         \A x \in i .. i + n - 1 : new[x].k = "page" => LeafIn(tab, nr, spaces, f, x)
  PROVE  Leaves(tab', S, nr, spaces)
<1>1. SUFFICES ASSUME NEW g \in S, NEW x \in Slots(tab', g), tab'[g].ent[x].k = "page" PROVE LeafIn(tab', nr, spaces, g, x)
  BY DEF Leaves
<1>2. /\ RowSet(tab, tab', f, i, n) /\ g \in T /\ g \in DOMAIN tab
      /\ \A y \in i .. i + n - 1 : tab'[f].ent[y] = new[y]
  BY DEF RowDone, InvAt, Tree, Rooted
<1>3. tab'[g].lv = tab[g].lv /\ (g # f => tab'[g] = tab[g])
  BY <1>2 DEF RowSet
<1>4. x \in Slots(tab, g)
  BY <1>1, <1>3 DEF Slots
<1>5. LeafIn(tab, nr, spaces, g, x)
  <2>1. CASE g = f /\ x \in i .. i + n - 1
    BY <1>1, <1>2, <2>1
  <2>2. CASE ~(g = f /\ x \in i .. i + n - 1)
    <3>1. tab[g].ent[x].k = "page"
      BY <1>1, <1>2, <1>3, <1>4, <2>2 DEF RowSet
    <3> QED
      BY <1>2, <1>4, <3>1 DEF Leaves, InvAt
  <2> QED
    BY <2>1, <2>2
<1> QED
  BY <1>3, <1>5 DEF LeafIn, Block

(* A multiple plus multiples is one.                                       *)
LEMMA MultiplePlus ==
  ASSUME NEW c \in Nat \ {0}, NEW p \in Nat, p % c = 0, NEW y \in Nat
  PROVE  y * c \in Nat /\ (p + y * c) % c = 0
<1>1. PICK q : q = p \div c
  OBVIOUS
<1>2. q \in Nat /\ q * c \in Nat /\ p % c = p - q * c
  BY <1>1, Quotient, Remainder
<1>3. p = q * c
  BY <1>2
<1>4. PICK z, s : z = q + y /\ s = p + y * c
  OBVIOUS
<1>5. y * c \in Nat /\ z \in Nat /\ z * c = q * c + y * c
  BY ONLY <1>2, <1>4, y \in Nat, c \in Nat \ {0}
<1>6. s \in Nat /\ s = z * c
  BY ONLY <1>2, <1>3, <1>4, <1>5
<1>7. s \div c = z
  <2>1. z * c <= s /\ s < z * c + c /\ c \in Nat \ {0} /\ z \in Nat /\ s \in Nat
    BY ONLY <1>5, <1>6, c \in Nat \ {0}
  <2> QED
    BY ONLY <2>1, DivIs
<1>8. s % c = s - z * c
  BY <1>6, <1>7, Remainder
<1> QED
  BY <1>4, <1>5, <1>6, <1>8

(* map_range() writes a row of pages.                                      *)
FilledAt(T, S, nr, d, f, i, n, w, new) ==
  /\ At(T, nr, d, f, i) /\ i < Cnt[d] /\ n \in Nat \ {0} /\ i + n <= Cnt[d] /\ w = n * Covers[d] /\ w \in Nat \ {0} /\ w <= op.todo
  /\ op' = Advance(n) /\ RowDone(T, S, nr, d, f, i, n, w, new)
  /\ \A x \in i .. i + n - 1 : \A v \in Nat : Nth(d, v) = Block(tab, nr, f, x) => op.at <= v /\ v < op.at + w
  /\ Filling(Tr, Tr', op.at, w, op.rng + op.off)

(* A turn of map_range() that fills a row: it lies in what is left,        *)
(* aligned, with the physical pages that follow.                           *)
LEMMA FillsRow ==
  ASSUME NEW T, NEW nr, InvAt(T, nr), op.kind = "map", op.todo > 0, ~op.up, ~TooLarge(op.rng + op.off),
         tab' = Filled, op' = Advance(Entries)
  PROVE  \E S, d, f, i, n, w, new : FilledAt(T, S, nr, d, f, i, n, w, new)
<1>1. Busy(op)
  BY DEF Busy
<1>2. PICK d, f, i : At(T, nr, d, f, i)
  BY <1>1, WalkAt
<1>3. PICK j : MapPart(j)
  BY MapWithin
<1>4. /\ d \in 1 .. Levels /\ i \in Nat /\ d = Len(op.stack) /\ op.stack[d].i = i /\ Lv = d /\ Top.i = i /\ Top.t = f
      /\ Cnt[d] \in Nat \ {0} /\ Covers[d] \in Nat \ {0} /\ f \in T /\ tab[f].lv = d
  BY <1>2 DEF At, TopIs
<1>5. /\ op.stack[Len(op.stack)].i < Cnt[Len(op.stack)] /\ Shape(op) /\ op.at \in 0 .. Limit - 1
  BY <1>1, OpIs
<1>6. i < Cnt[d] /\ op.at \in Nat /\ op.todo \in Nat /\ op.rng \in Nat /\ op.off \in Nat
  BY <1>4, <1>5 DEF Shape
<1>7. PICK c, p, a, t : c = Covers[d] /\ p = op.rng + op.off /\ a = op.at /\ t = op.todo
  OBVIOUS
<1>8. c <= t /\ p % c = 0 /\ a % c = 0 /\ c \in Nat \ {0} /\ p \in Nat /\ a \in Nat /\ t \in Nat
  <2>1. ~(Covers[d] > op.todo) /\ Huge(d, p) /\ op.at % Covers[d] = 0
    BY <1>4, <1>7 DEF TooLarge
  <2> QED
    BY <1>4, <1>6, <1>7, <2>1 DEF Huge
<1>9. PICK n, w : n = Entries /\ w = n * c
  OBVIOUS
<1>10. n \in Nat \ {0} /\ i + n <= Cnt[d] /\ w \in Nat \ {0} /\ w <= t
  <2>1. PICK m : m = Cnt[d] - i
    OBVIOUS
  <2>2. m \in Nat \ {0}
    BY <1>4, <1>6, <2>1, SMTT(30)
  <2>3. n = RowOf(t, c, m)
    BY <1>4, <1>7, <1>9, <2>1 DEF Entries, RowOf
  <2>4. n \in Nat /\ n <= m /\ Fits(n, c, t) /\ (c <= t => n # 0)
    BY ONLY <1>8, <2>2, <2>3, RowSize
  <2>5. n \in Nat \ {0} /\ w \in Nat /\ w <= t
    BY <1>8, <1>9, <2>4 DEF Fits
  <2>6. w # 0
    BY ONLY <1>8, <1>9, <2>5
  <2>7. i + n <= Cnt[d]
    BY <1>4, <2>1, <2>4, <2>5
  <2> QED
    BY <2>5, <2>6, <2>7
<1>11. PICK new : new = [x \in i .. i + n - 1 |-> Page(p + (x - i) * c)]
  OBVIOUS
<1>12. WrittenTo(tab', tab, f, new)
  <2>1. Row = i .. i + n - 1
    BY <1>4, <1>9 DEF Row
  <2>2. [x \in Row |-> Page(op.rng + op.off + (x - Top.i) * Covers[Lv])] = new
    BY <1>4, <1>7, <1>11, <2>1
  <2>3. tab' = Write(new)
    BY <2>2 DEF Filled
  <2> QED
    BY <1>4, <2>3 DEF Write, WrittenTo
<1>13. p + t <= PaPool
  <2>1. op.got[j] \in parts /\ op.rng = op.got[j].at /\ op.off + op.todo = op.got[j].len
    <3>1. op.rng = op.got[j].at /\ op.off + op.todo = op.got[j].len /\ j \in 1 .. Len(op.got)
      BY <1>3 DEF MapPart
    <3>2. j \in DOMAIN op.got
      BY <1>5, <3>1, RangesTyped DEF Shape
    <3>3. Mine(op) \in Holding(maps, op) /\ Mine(op).ps = op.got
      BY <1>1, OpIs, MineApart
    <3>4. \A k \in DOMAIN Mine(op).ps : Mine(op).ps[k] \in parts
      BY <3>3 DEF InvAt, HeldOK
    <3> QED
      BY <3>1, <3>2, <3>3, <3>4
  <2>2. op.got[j].at + op.got[j].len <= PaPool
    BY <2>1 DEF InvAt, PoolOK
  <2> QED
    BY <1>6, <1>7, <2>1, <2>2
<1>14. RowFrom(tab, nr, f, d, i, a) /\ n \in Nat
  <2>1. i \in Slots(tab, f) /\ Nth(d, op.at) = Block(tab, nr, f, i)
    BY <1>2, <1>6 DEF At, TopIs
  <2>2. 0 \in Slots(tab, f)
    BY <1>4 DEF Slots
  <2>3. Block(tab, nr, f, 0) \in Nat
    BY <1>4, <1>5, <2>2, BlockIs DEF InvAt, Tree
  <2> QED
    BY <1>4, <1>7, <1>8, <1>10, <2>1, <2>3 DEF RowFrom
<1>15. RowSpans(tab, nr, f, d, i, n, a)
  <2>1. PICK u : u = tab
    OBVIOUS
  <2>2. RowFrom(u, nr, f, d, i, a) /\ n \in Nat
    BY <1>14, <2>1
  <2>3. RowSpans(u, nr, f, d, i, n, a)
    BY ONLY <2>2, RowPages
  <2> QED
    BY <2>1, <2>3
<1>16. RowNew(d, i, n, new)
  <2>1. ASSUME NEW x \in i .. i + n - 1
        PROVE  EntryOK(d, new[x]) /\ new[x].k # "table"
    <3>1. PICK y : y = x - i
      OBVIOUS
    <3>2. y \in Nat
      BY <1>4, <1>10, <3>1
    <3>3. y * c \in Nat /\ y * c + c <= w
      BY <1>7, <1>9, <1>15, <3>1 DEF RowSpans
    <3>4. (p + y * c) % c = 0
      BY <1>8, <3>2, MultiplePlus
    <3>5. p + y * c \in 0 .. PaPool - c
      <4>1. PICK z : z = y * c
        OBVIOUS
      <4>2. z \in Nat /\ z + c <= w
        BY ONLY <3>3, <4>1
      <4>3. p + z \in 0 .. PaPool - c
        BY ONLY <1>8, <1>10, <1>13, <4>2, PoolAssumption
      <4> QED
        BY ONLY <4>1, <4>3
    <3>6. new[x] = Page(p + y * c)
      BY <1>11, <3>1
    <3>7. EntryOK(d, new[x])
      BY <1>7, <3>4, <3>5, <3>6 DEF EntryOK
    <3> QED
      BY <3>6, <3>7 DEF Page
  <2> QED
    BY <1>11, <2>1 DEF RowNew
<1>17. PICK S : RowDone(T, S, nr, d, f, i, n, w, new)
  <2>1. InvAt(T, nr) /\ Busy(op) /\ At(T, nr, d, f, i) /\ i < Cnt[d]
    BY <1>1, <1>2, <1>6
  <2>2. n \in Nat \ {0} /\ i + n <= Cnt[d] /\ op.at % Covers[d] = 0
    BY <1>7, <1>8, <1>10
  <2>3. RowNew(d, i, n, new) /\ WrittenTo(tab', tab, f, new) /\ w = n * Covers[d]
    BY <1>7, <1>9, <1>12, <1>16
  <2> QED
    BY ONLY <2>1, <2>2, <2>3, RowStep
<1>18. Filling(Tr, Tr', op.at, w, op.rng + op.off)
  <2>1. SUFFICES ASSUME NEW v \in 0 .. VaPool - 1 PROVE Tr'[v] = IF a <= v /\ v < a + w THEN Page(p + (v - a)) ELSE Tr[v]
    BY <1>7 DEF Filling
  <2>2. v \in 0 .. Limit - 1 /\ v \in Nat /\ Tr[v] = Trans(tab, v) /\ Tr'[v] = Trans(tab', v)
    BY PoolBelow, TrNext
  <2>3. CASE a <= v /\ v < a + w
    <3>1. PICK x \in i .. i + n - 1 : v = op.at + (x - i) * Covers[d] + (v % Covers[d]) /\ Trans(tab', v) = Found(tab', f, x, v)
      BY <1>7, <1>17, <2>2, <2>3 DEF RowDone
    <3>2. tab'[f].ent[x] = Page(p + (x - i) * c) /\ tab'[f].lv = d
      <4>1. f \in DOMAIN tab
        BY <1>4 DEF InvAt, Tree, Rooted
      <4> QED
        BY <1>4, <1>11, <1>17, <4>1 DEF RowDone, RowSet
    <3>3. Trans(tab', v) = Page(p + (x - i) * c + (v % c))
      BY <1>7, <3>1, <3>2 DEF Found, Page
    <3>4. p + (x - i) * c + (v % c) = p + (v - a)
      <4>1. PICK y, q : y = (x - i) * c /\ q = v % c
        OBVIOUS
      <4>4. y \in Nat
        BY <1>7, <1>15, <4>1 DEF RowSpans
      <4>5. q \in 0 .. c - 1 /\ c \in Nat
        BY ONLY <1>8, <2>2, <4>1, Remainder
      <4>6. v = a + y + q
        BY ONLY <1>7, <3>1, <4>1
      <4>2. v = a + y + q /\ y \in Nat /\ q \in Nat
        BY ONLY <4>4, <4>5, <4>6
      <4>3. p + y + q = p + (v - a)
        BY ONLY <1>8, <4>2
      <4> QED
        BY <4>1, <4>3
    <3> QED
      BY <2>2, <2>3, <3>3, <3>4
  <2>4. CASE ~(a <= v /\ v < a + w)
    BY <1>7, <1>17, <2>2, <2>4 DEF RowDone
  <2> QED
    BY <2>3, <2>4
<1>19. \A x \in i .. i + n - 1 : \A v \in Nat : Nth(d, v) = Block(tab, nr, f, x) => op.at <= v /\ v < op.at + w
  <2>1. SUFFICES ASSUME NEW x \in i .. i + n - 1, NEW v \in Nat, Nth(d, v) = Block(tab, nr, f, x) PROVE a <= v /\ v < a + w
    BY <1>7
  <2>2. PICK y, q : y = (x - i) * c /\ q = v % c
    OBVIOUS
  <2>3. v = a + y + q /\ y \in Nat /\ y + c <= w
    BY <1>7, <1>9, <1>15, <2>1, <2>2 DEF RowSpans
  <2>4. q \in 0 .. c - 1
    BY <1>8, <2>2, Remainder
  <2> QED
    BY ONLY <1>8, <1>10, <2>3, <2>4
<1> QED
  <2>1. FilledAt(T, S, nr, d, f, i, n, w, new)
    BY <1>2, <1>6, <1>7, <1>9, <1>10, <1>17, <1>18, <1>19 DEF FilledAt
  <2> QED
    BY <2>1

(* Such a turn keeps the invariant.                                        *)
LEMMA FillsKeeps ==
  ASSUME NEW T, NEW nr, InvAt(T, nr), op.kind = "map", op.todo > 0, ~op.up,
         NEW S, NEW d, NEW f, NEW i, NEW n, NEW w, NEW new, FilledAt(T, S, nr, d, f, i, n, w, new),
         spaces' = spaces, parts' = parts, maps' = maps, given' = given, stale' = stale
  PROVE  Inv'
<1>1. Busy(op)
  BY DEF Busy
<1>2. PICK j \in Nat : MapPart(j)
  BY MapWithin
<1>3. /\ At(T, nr, d, f, i) /\ i < Cnt[d] /\ n \in Nat \ {0} /\ i + n <= Cnt[d] /\ w = n * Covers[d] /\ w \in Nat \ {0} /\ w <= op.todo
      /\ op' = Advance(n) /\ RowDone(T, S, nr, d, f, i, n, w, new)
      /\ \A x \in i .. i + n - 1 : \A v \in Nat : Nth(d, v) = Block(tab, nr, f, x) => op.at <= v /\ v < op.at + w
      /\ Filling(Tr, Tr', op.at, w, op.rng + op.off)
  BY DEF FilledAt
<1>4. /\ op.va \in Nat /\ op.size \in Nat \ {0} /\ op.va + op.size <= VaPool /\ Shape(op)
      /\ Stacked(tab, T, nr, op.stack, op.at) /\ op.at \in 0 .. Limit - 1 /\ Typed(tab) /\ Tree(tab, T, nr)
      /\ \A v \in op.va .. op.va + op.size - 1 : v \in 0 .. VaPool - 1
      /\ [at |-> op.va, len |-> op.size] \in spaces /\ Mine(op) \in Holding(maps, op)
  BY <1>1, OpIs DEF InvAt
<1>5. /\ Total(op.got) = op.size /\ op.todo \in Nat /\ op.off \in Nat /\ op.rng \in Nat /\ op.at \in Nat /\ op.va <= op.at
      /\ RangesOf(op.got) /\ given # {}
      /\ \A v \in op.va .. op.va + op.size - 1 : Tr[v].k = "page" <=> v < op.at
  BY <1>1, <1>4 DEF InvAt, OpOK, Shape
<1>6. op.at + op.todo <= op.va + op.size /\ op.at + w <= op.va + op.size
  <2>1. op.at + op.todo <= op.va + op.size
    BY <1>2 DEF MapPart
  <2> QED
    BY <1>3, <1>4, <1>5, <2>1
<1>7. d \in 1 .. Levels /\ d = Len(op.stack) /\ f \in T /\ tab[f].lv = d /\ Nth(d - 1, op.at) = nr[f] /\ op.stack[d].t = f
  <2>1. /\ d \in 1 .. Levels /\ d = Len(op.stack) /\ f \in T /\ tab[f].lv = d /\ op.stack[d] = [t |-> f, i |-> i]
        /\ (i < Cnt[d] => Nth(d - 1, op.at) = nr[f])
    BY <1>3 DEF At, TopIs
  <2>2. op.stack[d].t = f
    BY ONLY <2>1
  <2> QED
    BY <1>3, <2>1, <2>2
<1>8. PICK st : /\ Forward(op', st, w) /\ Stacked(tab, T, nr, st, op.at + w)
                /\ Len(st) = Len(op.stack) /\ \A k \in 1 .. Len(op.stack) : st[k].t = op.stack[k].t
  <2>1. PICK s2, w2 : /\ w2 = n * Covers[d] /\ w2 \in Nat /\ Forward(Advance(n), s2, w2) /\ Stacked(tab, T, nr, s2, op.at + w2)
                      /\ Len(s2) = Len(op.stack) /\ \A k \in 1 .. Len(op.stack) : s2[k].t = op.stack[k].t
    BY <1>3, <1>4, AdvanceIs
  <2>2. w2 = w
    BY <1>3, <2>1
  <2> QED
    BY <1>3, <2>1, <2>2
<1>9. /\ Busy(op') /\ Shape(op') /\ op'.kind = "map" /\ op'.va = op.va /\ op'.size = op.size /\ op'.got = op.got /\ op'.rng = op.rng
      /\ op'.left = op.left /\ op'.stack = st /\ op'.up = TRUE /\ op'.at = op.at + w /\ op'.todo = op.todo - w /\ op'.off = op.off + w
  <2>1. w \in Nat
    BY <1>3
  <2>2. Busy(op') /\ Shape(op')
    BY <1>1, <1>4, <1>8, <2>1, ForwardIs
  <2> QED
    BY <1>8, <2>2 DEF Forward
<1>10. Holding(maps', op') = Holding(maps, op) /\ MapsOK(maps', op')
  <2>1. MapsOK(maps, op)
    BY DEF InvAt
  <2> QED
    BY <1>1, <1>9, <2>1, SameHolding
<1>11. PICK h : h = Mine(op) /\ h \in Holding(maps, op) /\ h.va = op.va /\ h.size = op.size /\ h.ps = op.got /\ Space(h) \in spaces
  BY <1>1, <1>4, MineApart
<1>12. \A v \in 0 .. VaPool - 1 : Tr'[v] = IF op.at <= v /\ v < op.at + w THEN Page(op.rng + op.off + (v - op.at)) ELSE Tr[v]
  BY <1>3 DEF Filling
<1>13. \A v \in 0 .. VaPool - 1 : /\ op.at <= v /\ v < op.at + w => Tr'[v].k = "page"
                                  /\ ~(op.at <= v /\ v < op.at + w) => Tr'[v] = Tr[v]
                                  /\ Tr[v].k = "page" => Tr'[v].k = "page"
  <2>1. SUFFICES ASSUME NEW v \in 0 .. VaPool - 1
                 PROVE  /\ op.at <= v /\ v < op.at + w => Tr'[v].k = "page"
                        /\ ~(op.at <= v /\ v < op.at + w) => Tr'[v] = Tr[v]
                        /\ Tr[v].k = "page" => Tr'[v].k = "page"
    OBVIOUS
  <2>2. PICK z, F, G : z = Page(op.rng + op.off + (v - op.at)) /\ F = Tr[v] /\ G = Tr'[v]
    OBVIOUS
  <2>3. z.k = "page"
    BY <2>2 DEF Page
  <2>4. CASE op.at <= v /\ v < op.at + w
    <3>1. G = z
      BY <1>12, <2>2, <2>4
    <3> QED
      BY <2>2, <2>3, <2>4, <3>1
  <2>5. CASE ~(op.at <= v /\ v < op.at + w)
    <3>1. G = F
      BY <1>12, <2>2, <2>5
    <3> QED
      BY <2>2, <2>5, <3>1
  <2> QED
    BY <2>4, <2>5
<1>14. Exact(Tr', Holding(maps, op), parts)
  <2>1. PICK F, G, H, Sp, P, a, o, p, td : /\ F = Tr /\ G = Tr' /\ H = Holding(maps, op) /\ Sp = spaces /\ P = parts
                                       /\ a = op.at /\ o = op.off /\ p = op.rng + op.off /\ td = op.todo
    OBVIOUS
  <2>2. PoolOK(P, PaPool) /\ PoolOK(Sp, VaPool) /\ HeldOK(H, Sp, P) /\ Exact(F, H, P) /\ h \in H
    BY <1>11, <2>1 DEF InvAt
  <2>3. /\ j \in DOMAIN h.ps /\ a = h.va + Starts(h.ps)[j] + o /\ o + td = h.ps[j].len /\ p = h.ps[j].at + o
    <3>1. j \in 1 .. Len(op.got) /\ op.rng = op.got[j].at /\ op.off + op.todo = op.got[j].len /\ op.at = op.va + Starts(op.got)[j] + op.off
      BY <1>2 DEF MapPart
    <3>2. DOMAIN op.got = 1 .. Len(op.got)
      BY <1>5, RangesTyped
    <3> QED
      BY <1>11, <2>1, <3>1, <3>2
  <2>4. a \in Nat /\ w \in Nat /\ o \in Nat /\ p \in Nat /\ w <= td /\ td \in Nat
    BY <1>3, <1>5, <2>1
  <2>5. o + w <= h.ps[j].len
    <3>1. PICK l : l = h.ps[j].len
      OBVIOUS
    <3> QED
      BY ONLY <2>3, <2>4, <3>1
  <2>6. a + w <= h.va + h.size
    BY <1>6, <1>11, <2>1
  <2>7. \A v \in 0 .. VaPool - 1 : InVA(h, v) => (F[v].k = "page" <=> v < a)
    <3>1. SUFFICES ASSUME NEW v \in 0 .. VaPool - 1, InVA(h, v) PROVE F[v].k = "page" <=> v < a
      OBVIOUS
    <3>2. v \in op.va .. op.va + op.size - 1
      BY <1>4, <1>11, <3>1, PoolAssumption DEF InVA
    <3> QED
      BY <1>5, <2>1, <3>2
  <2>8. Filling(F, G, a, w, p)
    BY <1>3, <2>1
  <2>9. j \in DOMAIN h.ps /\ a = h.va + Starts(h.ps)[j] + o /\ p = h.ps[j].at + o
    BY <2>3
  <2>10. a \in Nat /\ w \in Nat /\ o \in Nat /\ p \in Nat
    BY <2>4
  <2>11. Exact(G, H, P)
    BY ONLY <2>2, <2>5, <2>6, <2>7, <2>8, <2>9, <2>10, FilledExact
  <2> QED
    BY <2>1, <2>11
<1>15. Complete(Tr', maps)
  <2>1. SUFFICES ASSUME NEW m \in maps, NEW v \in m.va .. m.va + m.size - 1 PROVE Tr'[v].k = "page"
    BY DEF Complete
  <2>2. Tr[v].k = "page"
    BY <2>1 DEF InvAt, Complete
  <2>3. v \in 0 .. VaPool - 1
    <3>1. PICK g \in Holding(maps, op) : g.va = m.va /\ g.size = m.size
      BY MapHeld
    <3>2. HeldOK(Holding(maps, op), spaces, parts) /\ PoolOK(spaces, VaPool)
      BY DEF InvAt
    <3>3. \A z \in g.va .. g.va + g.size - 1 : z \in 0 .. VaPool - 1
      BY <3>2, HeldBelow
    <3> QED
      BY <3>1, <3>3
  <2> QED
    BY <1>13, <2>2, <2>3
<1>16. Leaves(tab', S, nr, spaces)
  <2>1. SUFFICES ASSUME NEW x \in i .. i + n - 1 PROVE LeafIn(tab, nr, spaces, f, x)
    BY <1>3, RowLeaves
  <2>2. ASSUME NEW v \in Nat, Nth(d, v) = Block(tab, nr, f, x) PROVE InRange(Space(h), v)
    <3>1. op.at <= v /\ v < op.at + w
      BY <1>3, <2>2
    <3>2. op.va <= v /\ v < op.va + op.size
      BY <1>3, <1>4, <1>5, <1>6, <3>1
    <3> QED
      BY <1>11, <3>2 DEF InRange, Space
  <2> QED
    BY <1>7, <1>11, <2>2 DEF LeafIn
<1>17. OpOK(op', Tr', given)
  <2>1. MapAt(op', j)
    <3>1. MapAt(op, j)
      BY <1>2 DEF MapPart
    <3>2. op.at + op.todo = op'.at + op'.todo /\ op'.off + op'.todo = op.off + op.todo /\ j # 0
      <4>1. j # 0
        BY <1>2, <1>5, RangesTyped DEF MapPart
      <4> QED
        BY <1>3, <1>5, <1>9, <4>1
    <3> QED
      BY <1>9, <3>1, <3>2 DEF MapAt
  <2>2. op'.todo >= 0
    BY <1>3, <1>5, <1>9
  <2>3. \A v \in op'.va .. op'.va + op'.size - 1 : Tr'[v].k = "page" <=> v < op'.at
    <3>1. SUFFICES ASSUME NEW v \in op.va .. op.va + op.size - 1 PROVE Tr'[v].k = "page" <=> v < op.at + w
      BY <1>9
    <3>2. v \in 0 .. VaPool - 1 /\ (Tr[v].k = "page" <=> v < op.at) /\ v \in Nat
      BY <1>4, <1>5
    <3>3. CASE v < op.at
      BY <1>3, <1>5, <1>13, <3>2, <3>3
    <3>4. CASE op.at <= v /\ v < op.at + w
      BY <1>13, <3>2, <3>4
    <3>5. CASE ~(v < op.at + w)
      <4>1. ~(op.at <= v /\ v < op.at + w) /\ ~(v < op.at)
        BY <1>3, <1>5, <3>2, <3>5
      <4> QED
        BY <1>13, <3>2, <3>5, <4>1
    <3> QED
      BY <1>3, <1>5, <3>2, <3>3, <3>4, <3>5
  <2> QED
    BY <1>5, <1>9, <2>1, <2>2, <2>3 DEF OpOK
<1>18. Walking(tab', S, nr, op')
  <2>1. Stacked(tab', S, nr, st, op.at + w)
    <3>1. Stacked(tab, T, nr, st, op.at + w) /\ Len(st) = d
      BY <1>7, <1>8
    <3> QED
      BY <1>3, <3>1, RowStacked
  <2>2. op.at + w < Limit
    <3>1. VaPool \in Nat /\ VaPool < Limit /\ Limit \in Nat
      BY LimitIs, PoolAssumption
    <3> QED
      BY <1>3, <1>4, <1>5, <1>6, <3>1
  <2> QED
    BY <1>9, <2>1, <2>2 DEF Walking
<1>19. Anchored(tab', S, nr, Tr', spaces, Holding(maps, op), op')
  <2>1. SUFFICES ASSUME NEW g \in S \ {Root} PROVE Anchor(tab', nr, Tr', spaces, Holding(maps, op), g)
    BY DEF Anchored
  <2>2. g \in T \ {Root} /\ tab'[g].lv = tab[g].lv
    <3>1. RowSet(tab, tab', f, i, n) /\ g \in T /\ g \in DOMAIN tab
      BY <1>3, <1>4 DEF RowDone, Tree, Rooted
    <3> QED
      BY <3>1 DEF RowSet
  <2>3. CASE \E k \in 1 .. Len(op.stack) : op.stack[k].t = g
    <3>1. PICK k \in 1 .. Len(op.stack) : op.stack[k].t = g
      BY <2>3
    <3>2. \A l \in 1 .. Len(op.stack) : Nth(l - 1, op.at) = nr[op.stack[l].t]
      <4>1. PICK t, so, a : t = tab /\ so = op.stack /\ a = op.at
        OBVIOUS
      <4>2. Typed(t) /\ Tree(t, T, nr) /\ Stacked(t, T, nr, so, a) /\ a \in 0 .. Limit - 1
        BY <1>4, <4>1
      <4>3. Nth(Len(so) - 1, a) = nr[so[Len(so)].t]
        BY <1>7, <4>1
      <4>4. \A l \in 1 .. Len(so) : Nth(l - 1, a) = nr[so[l].t]
        BY ONLY <4>2, <4>3, UnderStack
      <4> QED
        BY <4>1, <4>4
    <3>3. tab[g].lv = k
      BY <1>4, <3>1 DEF Stacked
    <3>4. op.at \in op.va .. op.va + op.size - 1
      BY <1>3, <1>4, <1>5, <1>6
    <3>5. op.at \in 0 .. VaPool - 1 /\ Tr'[op.at].k = "page"
      <4>1. op.at \in 0 .. VaPool - 1
        BY <1>4, <3>4
      <4>2. op.at <= op.at /\ op.at < op.at + w
        BY <1>3, <1>5
      <4> QED
        BY <1>13, <4>1, <4>2
    <3> QED
      BY <2>2, <3>1, <3>2, <3>3, <3>5 DEF Anchor
  <2>4. CASE ~\E k \in 1 .. Len(op.stack) : op.stack[k].t = g
    <3>1. Anchor(tab, nr, Tr, spaces, Holding(maps, op), g)
      BY <2>2, <2>4 DEF InvAt, Anchored, Exempt
    <3>2. PICK v \in 0 .. VaPool - 1 : Nth(tab[g].lv - 1, v) = nr[g] /\ (Tr[v].k = "page" \/ Lost(spaces, Holding(maps, op), v))
      BY <3>1 DEF Anchor
    <3> QED
      BY <1>13, <2>2, <3>2 DEF Anchor
  <2> QED
    BY <2>3, <2>4
<1>20. Fresh(maps, stale) /\ PoolOK(spaces, VaPool) /\ PoolOK(parts, PaPool) /\ HeldOK(Holding(maps, op), spaces, parts)
  BY DEF InvAt
<1>21. Typed(tab') /\ Tree(tab', S, nr)
  BY <1>3 DEF RowDone
<1>22. Inv'
  <2>1. given' # {}
    BY <1>5
  <2>2. Typed(tab') /\ Tree(tab', S, nr) /\ PoolOK(spaces', VaPool) /\ PoolOK(parts', PaPool)
    BY <1>20, <1>21
  <2>3. HeldOK(Holding(maps', op'), spaces', parts') /\ MapsOK(maps', op')
    BY <1>10, <1>20
  <2>4. Exact(Tr', Holding(maps', op'), parts') /\ Complete(Tr', maps')
    BY <1>10, <1>14, <1>15
  <2>5. Leaves(tab', S, nr, spaces') /\ OpOK(op', Tr', given') /\ Walking(tab', S, nr, op')
    BY <1>16, <1>17, <1>18
  <2>6. Anchored(tab', S, nr, Tr', spaces', Holding(maps', op'), op') /\ Fresh(maps', stale')
    BY <1>10, <1>19, <1>20
  <2>7. given' = {} => Blank(Tr', maps')
    BY <2>1
  <2> QED
    BY ONLY <2>2, <2>3, <2>4, <2>5, <2>6, <2>7, InvMade
<1> QED
  BY <1>22

(* The entry that the page reached lies under maps it when it is a page.   *)
LEMMA PageReached ==
  ASSUME NEW T, NEW nr, InvAt(T, nr), Busy(op), ~op.up, op.at \in 0 .. VaPool - 1
  PROVE  /\ Entry.k = "page" => Tr[op.at].k = "page"
         /\ Entry.k = "none" => Tr[op.at].k # "page"
<1>1. PICK d, f, i : At(T, nr, d, f, i)
  BY WalkAt
<1>2. /\ d \in 1 .. Levels /\ f \in T /\ i \in Nat /\ tab[f].lv = d /\ d = Len(op.stack) /\ op.stack[d] = [t |-> f, i |-> i]
      /\ Entry = tab[f].ent[i] /\ (i < Cnt[d] => i \in Slots(tab, f) /\ Nth(d, op.at) = Block(tab, nr, f, i))
  BY <1>1 DEF At, TopIs
<1>3. op.stack[d].i = i
  BY ONLY <1>2
<1>4. i < Cnt[d] /\ op.at \in 0 .. Limit - 1
  BY <1>2, <1>3, OpIs
<1>5. f \in T /\ i \in Slots(tab, f) /\ Nth(tab[f].lv, op.at) = Block(tab, nr, f, i)
  BY <1>2, <1>4
<1>6. Typed(tab) /\ Tree(tab, T, nr)
  BY DEF InvAt
<1>7. Tr[op.at] = Trans(tab, op.at)
  BY <1>4, TrIs
<1>8. PICK t, a : t = tab /\ a = op.at
  OBVIOUS
<1>9. /\ Typed(t) /\ Tree(t, T, nr) /\ f \in T /\ i \in Slots(t, f) /\ a \in 0 .. Limit - 1
      /\ Nth(t[f].lv, a) = Block(t, nr, f, i)
  BY <1>4, <1>5, <1>6, <1>8
<1>10. /\ t[f].ent[i].k = "page" => Trans(t, a).k = "page"
       /\ t[f].ent[i].k = "none" => Trans(t, a).k = "none"
  BY ONLY <1>9, EntryFound
<1> QED
  BY <1>2, <1>7, <1>8, <1>10

(* A turn of map_range(): a row filled, or a level down.                   *)
LEMMA MapKeeps == Inv /\ Map => Inv'
<1>1. SUFFICES ASSUME NEW T, NEW nr, InvAt(T, nr), Map PROVE Inv'
  BY DEF Inv
<1>2. /\ op.kind = "map" /\ op.todo > 0 /\ ~op.up /\ Busy(op)
      /\ spaces' = spaces /\ parts' = parts /\ maps' = maps /\ given' = given /\ stale' = stale
      /\ IF TooLarge(op.rng + op.off) THEN LevelDown ELSE tab' = Filled /\ op' = Advance(Entries)
  BY <1>1 DEF Map, Turn, Busy
<1>3. CASE TooLarge(op.rng + op.off)
  <2>1. PICK j \in Nat : MapPart(j)
    BY <1>1, <1>2, MapWithin
  <2>2. /\ op.va \in Nat /\ op.size \in Nat \ {0} /\ op.va + op.size <= VaPool /\ Shape(op)
        /\ \A v \in op.va .. op.va + op.size - 1 : v \in 0 .. VaPool - 1
    BY <1>1, <1>2, OpIs
  <2>3. /\ op.at \in Nat /\ op.todo \in Int /\ op.off \in Nat /\ op.rng \in Nat /\ op.va <= op.at
        /\ \A v \in op.va .. op.va + op.size - 1 : Tr[v].k = "page" <=> v < op.at
    BY <1>1, <1>2, <2>2 DEF InvAt, OpOK, Shape
  <2>4. op.at \in op.va .. op.va + op.size - 1
    BY <2>1, <2>2, <2>3 DEF MapPart
  <2>5. Lv # Levels
    <3>1. op.rng + op.off \in Nat
      BY <2>3
    <3> QED
      BY <1>2, <1>3, <2>3, <3>1, LastFits
  <2>6. Entry.k # "page"
    <3>1. op.at \in 0 .. VaPool - 1
      BY <2>2, <2>4
    <3>2. Tr[op.at].k # "page"
      BY <2>3, <2>4
    <3> QED
      BY <1>1, <1>2, <3>1, <3>2, PageReached
  <2>7. LevelDown
    BY <1>2, <1>3
  <2>8. op.kind = "reserve" \/ (op.kind = "map" /\ op.todo > 0)
    BY <1>2
  <2>9. InvAt(T, nr) /\ Busy(op) /\ ~op.up
    BY <1>1, <1>2
  <2>10. spaces' = spaces /\ parts' = parts /\ maps' = maps /\ given' = given /\ stale' = stale
    BY <1>2
  <2> QED
    BY ONLY <2>5, <2>6, <2>7, <2>8, <2>9, <2>10, LevelDownKeeps
<1>4. CASE ~TooLarge(op.rng + op.off)
  <2>1. tab' = Filled /\ op' = Advance(Entries)
    BY <1>2, <1>4
  <2>2. PICK S, d, f, i, n, w, new : FilledAt(T, S, nr, d, f, i, n, w, new)
    BY <1>1, <1>2, <1>4, <2>1, FillsRow
  <2>3. InvAt(T, nr) /\ op.kind = "map" /\ op.todo > 0 /\ ~op.up
    BY <1>1, <1>2
  <2>4. spaces' = spaces /\ parts' = parts /\ maps' = maps /\ given' = given /\ stale' = stale
    BY <1>2
  <2> QED
    BY ONLY <2>2, <2>3, <2>4, FillsKeeps
<1> QED
  BY <1>3, <1>4

(* unmap_range() finds a row that it can clear: the page it has reached is *)
(* the first of its entry, for what comes before it is not mapped, and the *)
(* entry lies in the range as a whole.                                     *)
ClearableAt(T, nr, d, f, i, n, w) ==
  /\ At(T, nr, d, f, i) /\ i < Cnt[d] /\ n \in Nat \ {0} /\ n = Entries /\ i + n <= Cnt[d] /\ w = n * Covers[d] /\ w \in Nat \ {0}
  /\ w <= op.todo /\ op.at % Covers[d] = 0 /\ Row = i .. i + n - 1
  /\ \A x \in i .. i + n - 1 : tab[f].ent[x] # None

(* A page entry unmap_range() meets lies in the range as a whole, from its *)
(* first page on.                                                          *)
LEMMA EntryWhole ==
  ASSUME NEW T, NEW nr, InvAt(T, nr), op.kind = "unmap", op.todo > 0, ~op.up, Entry.k = "page",
         NEW d, NEW f, NEW i, At(T, nr, d, f, i)
  PROVE  op.at % Covers[d] = 0 /\ Covers[d] <= op.todo
<1>1. Busy(op)
  BY DEF Busy
<1>2. /\ op.va \in Nat /\ op.size \in Nat \ {0} /\ op.va + op.size <= VaPool /\ Shape(op)
      /\ op.at \in 0 .. Limit - 1 /\ Typed(tab) /\ Tree(tab, T, nr)
      /\ \A v \in op.va .. op.va + op.size - 1 : v \in 0 .. VaPool - 1
      /\ [at |-> op.va, len |-> op.size] \in spaces /\ op.stack[Len(op.stack)].i < Cnt[Len(op.stack)]
  BY <1>1, OpIs DEF InvAt
<1>3. /\ op.at + op.todo = op.va + op.size /\ op.todo \in Nat \ {0} /\ op.at \in Nat /\ op.va <= op.at
      /\ \A v \in op.va .. op.va + op.size - 1 : Tr[v].k = "page" <=> v >= op.at
  BY <1>1, <1>2 DEF InvAt, OpOK, Shape
<1>4. /\ d \in 1 .. Levels /\ i \in Nat /\ d = Len(op.stack) /\ op.stack[d] = [t |-> f, i |-> i] /\ f \in T /\ tab[f].lv = d
      /\ Entry = tab[f].ent[i] /\ Covers[d] \in Nat \ {0}
      /\ (i < Cnt[d] => i \in Slots(tab, f) /\ Nth(d, op.at) = Block(tab, nr, f, i))
  BY DEF At, TopIs
<1>5. i \in Slots(tab, f) /\ Nth(d, op.at) = Block(tab, nr, f, i)
  <2>1. op.stack[d].i = i
    BY ONLY <1>4
  <2> QED
    BY <1>2, <1>4, <2>1
<1>6. PICK s \in spaces : \A v \in Nat : Nth(d, v) = Block(tab, nr, f, i) => InRange(s, v)
  BY <1>4, <1>5 DEF InvAt, Leaves, LeafIn
<1>7. s = [at |-> op.va, len |-> op.size]
  <2>1. PICK r : r = [at |-> op.va, len |-> op.size]
    OBVIOUS
  <2>2. r \in spaces /\ r.at = op.va /\ r.len = op.size
    BY <1>2, <2>1
  <2>3. InRange(r, op.at)
    BY <1>2, <1>3, <2>2 DEF InRange
  <2>4. InRange(s, op.at)
    BY <1>3, <1>5, <1>6
  <2> QED
    BY <1>3, <2>1, <2>2, <2>3, <2>4, RangesApart DEF InvAt
<1>8. PICK c, a, q, b : c = Covers[d] /\ a = op.at /\ q = a \div c /\ b = q * c
  OBVIOUS
<1>9. c \in Nat \ {0} /\ a \in Nat /\ q \in Nat /\ b \in Nat /\ b <= a /\ a < b + c /\ a % c = a - b
  <2>1. c \in Nat \ {0} /\ a \in Nat
    BY <1>3, <1>4, <1>8
  <2>2. /\ a \div c \in Nat /\ (a \div c) * c \in Nat /\ (a \div c) * c <= a /\ a < (a \div c) * c + c
    BY <2>1, Quotient
  <2>3. a % c = a - (a \div c) * c
    BY <2>1, Remainder
  <2> QED
    BY <1>8, <2>1, <2>2, <2>3
<1>10. ASSUME NEW v \in Nat, b <= v, v < b + c
       PROVE  op.va <= v /\ v < op.va + op.size
  <2>1. v \div c = q
    BY ONLY <1>8, <1>9, <1>10, v \in Nat, DivIs
  <2>2. Nth(d, v) = Nth(d, op.at)
    BY <1>4, <1>8, <2>1 DEF Nth
  <2>3. InRange(s, v)
    BY <1>5, <1>6, <2>2
  <2> QED
    BY <1>7, <2>3 DEF InRange
<1>11. b = a
  <2>1. op.va <= b /\ b < op.va + op.size
    <3>1. b <= b /\ b < b + c
      BY <1>9
    <3> QED
      BY <1>9, <1>10, <3>1
  <2>2. b \in op.va .. op.va + op.size - 1 /\ b \in 0 .. VaPool - 1
    BY <1>2, <1>9, <2>1
  <2>3. Nth(d, b) = Nth(d, op.at)
    <3>1. b \div c = q
      BY ONLY <1>8, <1>9, DivIs
    <3> QED
      BY <1>4, <1>8, <3>1 DEF Nth
  <2>4. Tr[b].k = "page"
    <3>1. PICK t : t = tab
      OBVIOUS
    <3>2. b \in 0 .. Limit - 1 /\ Tr[b] = Trans(tab, b)
      BY <2>2, PoolBelow
    <3>3. /\ Typed(t) /\ Tree(t, T, nr) /\ f \in T /\ i \in Slots(t, f) /\ b \in 0 .. Limit - 1
          /\ Nth(t[f].lv, b) = Block(t, nr, f, i) /\ t[f].ent[i].k = "page"
      BY <1>2, <1>4, <1>5, <2>3, <3>1, <3>2
    <3>4. Trans(t, b).k = "page"
      BY ONLY <3>3, EntryFound
    <3> QED
      BY <3>1, <3>2, <3>4
  <2>5. b >= op.at
    BY <1>3, <2>2, <2>4
  <2> QED
    BY <1>8, <1>9, <2>5
<1>12. c <= op.todo
  <2>1. PICK z : z = b + c - 1
    OBVIOUS
  <2>2. z \in Nat /\ b <= z /\ z < b + c
    BY <1>9, <2>1
  <2>3. z < op.va + op.size
    BY <1>10, <2>2
  <2> QED
    <3>1. PICK u, r : u = op.va + op.size /\ r = op.todo
      OBVIOUS
    <3>2. a + r = u /\ r \in Nat
      BY <1>3, <1>8, <3>1
    <3>3. z < u
      BY <2>3, <3>1
    <3>4. c <= r
      BY ONLY <1>9, <1>11, <2>1, <2>2, <3>2, <3>3
    <3> QED
      BY <3>1, <3>4
<1> QED
  BY <1>8, <1>9, <1>11, <1>12

(* So a turn that clears a row stays in the range.                         *)
LEMMA ClearsRow ==
  ASSUME NEW T, NEW nr, InvAt(T, nr), op.kind = "unmap", op.todo > 0, ~op.up, Entry.k = "page"
  PROVE  \E d, f, i, n, w : ClearableAt(T, nr, d, f, i, n, w)
<1>1. Busy(op)
  BY DEF Busy
<1>2. PICK d, f, i : At(T, nr, d, f, i)
  BY <1>1, WalkAt
<1>3. op.at % Covers[d] = 0 /\ Covers[d] <= op.todo
  BY <1>2, EntryWhole
<1>4. /\ d \in 1 .. Levels /\ i \in Nat /\ d = Len(op.stack) /\ op.stack[d] = [t |-> f, i |-> i] /\ f \in T /\ tab[f].lv = d
      /\ Lv = d /\ Top.i = i /\ Top.t = f /\ Covers[d] \in Nat \ {0} /\ Cnt[d] \in Nat \ {0}
      /\ (i < Cnt[d] => i \in Slots(tab, f) /\ Nth(d, op.at) = Block(tab, nr, f, i))
  BY <1>2 DEF At, TopIs
<1>5. /\ op.va \in Nat /\ op.size \in Nat \ {0} /\ op.va + op.size <= VaPool /\ Shape(op)
      /\ op.at \in 0 .. Limit - 1 /\ Typed(tab) /\ Tree(tab, T, nr)
      /\ \A v \in op.va .. op.va + op.size - 1 : v \in 0 .. VaPool - 1
      /\ op.stack[Len(op.stack)].i < Cnt[Len(op.stack)]
  BY <1>1, OpIs DEF InvAt
<1>6. /\ op.at + op.todo = op.va + op.size /\ op.todo \in Nat \ {0} /\ op.at \in Nat /\ op.va <= op.at
      /\ \A v \in op.va .. op.va + op.size - 1 : Tr[v].k = "page" <=> v >= op.at
  BY <1>1, <1>5 DEF InvAt, OpOK, Shape
<1>7. i < Cnt[d] /\ i \in Slots(tab, f) /\ Nth(d, op.at) = Block(tab, nr, f, i)
  <2>1. op.stack[d].i = i
    BY ONLY <1>4
  <2> QED
    BY <1>4, <1>5, <2>1
<1>8. PICK c, a, t : c = Covers[d] /\ a = op.at /\ t = op.todo
  OBVIOUS
<1>9. c \in Nat \ {0} /\ a \in Nat /\ t \in Nat /\ c <= t
  BY <1>3, <1>4, <1>6, <1>8
<1>10. PICK n, w : n = Entries /\ w = n * c
  OBVIOUS
<1>11. n \in Nat \ {0} /\ i + n <= Cnt[d] /\ w \in Nat \ {0} /\ w <= t
  <2>1. PICK m : m = Cnt[d] - i
    OBVIOUS
  <2>2. m \in Nat \ {0}
    BY <1>4, <1>7, <2>1
  <2>3. n = RowOf(t, c, m)
    BY <1>4, <1>8, <1>10, <2>1 DEF Entries, RowOf
  <2>4. n \in Nat /\ n <= m /\ Fits(n, c, t) /\ (c <= t => n # 0)
    BY ONLY <1>9, <2>2, <2>3, RowSize
  <2>5. n \in Nat \ {0} /\ w \in Nat /\ w <= t
    BY <1>9, <1>10, <2>4 DEF Fits
  <2>6. w # 0
    BY ONLY <1>9, <1>10, <2>5
  <2>7. i + n <= Cnt[d]
    BY <1>4, <2>1, <2>4, <2>5
  <2> QED
    BY <2>5, <2>6, <2>7
<1>12. Row = i .. i + n - 1
  BY <1>4, <1>10 DEF Row
<1>13. ASSUME NEW x \in i .. i + n - 1, tab[f].ent[x] = None PROVE FALSE
  <2>1. PICK y : y = x - i
    OBVIOUS
  <2>11. i \in Nat /\ n \in Nat
    BY <1>4, <1>11
  <2>2. y \in Nat /\ y + 1 \in Nat /\ y + 1 <= n /\ x = i + y
    BY ONLY <2>1, <2>11, x \in i .. i + n - 1
  <2>3. y * c \in Nat /\ (y + 1) * c <= n * c /\ (y + 1) * c = y * c + c
    <3>1. (y + 1) * c <= n * c /\ y * c \in Nat
      BY <1>9, <1>11, <2>2, TimesGrows
    <3>2. (y + 1) * c = y * c + c
      BY <1>9, <2>2
    <3> QED
      BY <3>1, <3>2
  <2>4. PICK v, z : z = y * c /\ v = a + z
    OBVIOUS
  <2>5. z \in Nat /\ z + c <= w
    BY <1>10, <2>3, <2>4
  <2>6. v \in Nat /\ a <= v /\ v < a + w
    BY ONLY <1>9, <1>11, <2>4, <2>5
  <2>7. v \in op.va .. op.va + op.size - 1 /\ v >= op.at
    <3>1. PICK u, s : u = op.va /\ s = op.size
      OBVIOUS
    <3>2. u \in Nat /\ s \in Nat /\ u <= a /\ a + t = u + s /\ a \in Nat /\ t \in Nat
      BY ONLY <1>5, <1>6, <1>8, <1>9, <3>1
    <3>3. w \in Nat /\ w <= t
      BY ONLY <1>11
    <3>4. v \in u .. u + s - 1 /\ v >= a
      BY ONLY <2>6, <3>2, <3>3
    <3> QED
      BY ONLY <1>8, <3>1, <3>4
  <2>8. v \in 0 .. VaPool - 1 /\ Tr[v].k = "page"
    BY <1>5, <1>6, <2>7
  <2>9. Nth(d, v) = Block(tab, nr, f, x) /\ x \in Slots(tab, f)
    <3>1. Nth(d, a + y * Covers[d]) = Nth(d, a) + y /\ Nth(d, a) \in Nat
      BY <1>4, <1>9, <2>2, NthPlus
    <3>2. x \in Slots(tab, f)
      BY <1>4, <1>7, <1>11, <2>2, SMTT(30) DEF Slots
    <3>3. Block(tab, nr, f, x) = Block(tab, nr, f, i) + y
      <4>1. PICK e : e = nr[f] * Cnt[tab[f].lv]
        OBVIOUS
      <4>2. e \in Nat
        <5>1. nr[f] \in Nat
          BY <1>4, <1>5 DEF Tree, Rooted
        <5>2. Cnt[tab[f].lv] \in Nat
          BY <1>4
        <5>3. PICK g, h : g = nr[f] /\ h = Cnt[tab[f].lv]
          OBVIOUS
        <5>4. g \in Nat /\ h \in Nat /\ e = g * h
          BY <4>1, <5>1, <5>2, <5>3
        <5> QED
          BY ONLY <5>4
      <4>3. e + x = (e + i) + y
        BY ONLY <1>4, <2>2, <4>2
      <4> QED
        BY <4>1, <4>3 DEF Block
    <3> QED
      BY <1>7, <1>8, <2>4, <3>1, <3>2, <3>3
  <2>10. Trans(tab, v).k = "none"
    <3>1. PICK u : u = tab
      OBVIOUS
    <3>2. v \in 0 .. Limit - 1
      BY <2>8, PoolBelow
    <3>3. /\ Typed(u) /\ Tree(u, T, nr) /\ f \in T /\ x \in Slots(u, f) /\ v \in 0 .. Limit - 1
          /\ Nth(u[f].lv, v) = Block(u, nr, f, x) /\ u[f].ent[x].k = "none"
      BY <1>4, <1>5, <1>13, <2>9, <3>1, <3>2 DEF None
    <3>4. Trans(u, v).k = "none"
      BY ONLY <3>3, EntryFound
    <3> QED
      BY <3>1, <3>4
  <2> QED
    BY <2>8, <2>10, PoolBelow
<1> QED
  <2>1. \A x \in i .. i + n - 1 : tab[f].ent[x] # None
    BY <1>13
  <2>2. ClearableAt(T, nr, d, f, i, n, w)
    BY <1>2, <1>3, <1>7, <1>8, <1>10, <1>11, <1>12, <2>1 DEF ClearableAt
  <2> QED
    BY <2>2

(* Exactness when pages go and none comes.                                 *)
LEMMA FewerExact ==
  ASSUME NEW F, NEW G, NEW H, NEW P, Exact(F, H, P), \A v \in 0 .. VaPool - 1 : G[v].k = "page" => G[v] = F[v]
  PROVE  Exact(G, H, P)
<1>1. ASSUME NEW v \in 0 .. VaPool - 1, G[v].k = "page"
      PROVE  /\ G[v].at \in Nat /\ G[v] = Page(G[v].at) /\ Owned(P, G[v].at)
             /\ \A h \in H : /\ InVA(h, v) => Behind(h.ps, v - h.va, G[v].at)
                             /\ ~InVA(h, v) => ~InPA(h, G[v].at)
  <2>1. G[v] = F[v] /\ F[v].k = "page"
    BY <1>1
  <2>2. /\ F[v].at \in Nat /\ F[v] = Page(F[v].at) /\ Owned(P, F[v].at)
        /\ \A h \in H : /\ InVA(h, v) => Behind(h.ps, v - h.va, F[v].at)
                        /\ ~InVA(h, v) => ~InPA(h, F[v].at)
    BY <2>1 DEF Exact
  <2> QED
    BY ONLY <2>1, <2>2
<1>2. ASSUME NEW v \in 0 .. VaPool - 1, NEW w \in 0 .. VaPool - 1, G[v].k = "page", G[v] = G[w] PROVE v = w
  <2>1. G[v] = F[v] /\ G[w] = F[w] /\ F[v].k = "page" /\ F[v] = F[w]
    BY <1>2
  <2> QED
    BY <2>1 DEF Exact
<1> QED
  BY <1>1, <1>2 DEF Exact

(* unmap_range() clears the row.                                           *)
ClearsKeepsRow(T, S, nr, d, f, i, n, w, new) ==
  /\ RowDone(T, S, nr, d, f, i, n, w, new) /\ \A x \in i .. i + n - 1 : new[x] = None

(* What the cleared row leaves of the tables.                              *)
LEMMA ClearsWritten ==
  ASSUME NEW T, NEW nr, InvAt(T, nr), Busy(op), NEW d, NEW f, NEW i, NEW n, NEW w, ClearableAt(T, nr, d, f, i, n, w), tab' = Cleared
  PROVE  \E S, new : ClearsKeepsRow(T, S, nr, d, f, i, n, w, new)
<1>1. /\ At(T, nr, d, f, i) /\ i < Cnt[d] /\ n \in Nat \ {0} /\ i + n <= Cnt[d] /\ w = n * Covers[d]
      /\ op.at % Covers[d] = 0 /\ Row = i .. i + n - 1
  BY DEF ClearableAt
<1>2. Top.t = f
  BY <1>1 DEF At
<1>3. PICK new : new = [x \in i .. i + n - 1 |-> None]
  OBVIOUS
<1>4. WrittenTo(tab', tab, f, new)
  <2>1. tab' = Write(new)
    BY <1>1, <1>3 DEF Cleared
  <2> QED
    BY <1>2, <2>1 DEF Write, WrittenTo
<1>5. RowNew(d, i, n, new) /\ \A x \in i .. i + n - 1 : new[x] = None
  <2>1. EntryOK(d, None) /\ None.k # "table"
    BY DEF EntryOK, None
  <2> QED
    BY <1>3, <2>1 DEF RowNew
<1>6. PICK S : RowDone(T, S, nr, d, f, i, n, w, new)
  <2>1. InvAt(T, nr) /\ Busy(op) /\ At(T, nr, d, f, i) /\ i < Cnt[d]
    BY <1>1
  <2>2. n \in Nat \ {0} /\ i + n <= Cnt[d] /\ op.at % Covers[d] = 0
    BY <1>1
  <2>3. RowNew(d, i, n, new) /\ WrittenTo(tab', tab, f, new) /\ w = n * Covers[d]
    BY <1>1, <1>4, <1>5
  <2> QED
    BY ONLY <2>1, <2>2, <2>3, RowStep
<1>7. ClearsKeepsRow(T, S, nr, d, f, i, n, w, new)
  BY <1>5, <1>6 DEF ClearsKeepsRow
<1> QED
  BY <1>7

(* Such a turn keeps the invariant.                                        *)
LEMMA ClearsKeeps ==
  ASSUME NEW T, NEW nr, InvAt(T, nr), op.kind = "unmap", op.todo > 0, ~op.up,
         NEW d, NEW f, NEW i, NEW n, NEW w, ClearableAt(T, nr, d, f, i, n, w),
         tab' = Cleared, op' = Advance(Entries), stale' = stale \cup (op.at .. op.at + Entries * Covers[Lv] - 1),
         spaces' = spaces, parts' = parts, maps' = maps, given' = given
  PROVE  Inv'
<1>1. Busy(op)
  BY DEF Busy
<1>2. /\ At(T, nr, d, f, i) /\ i < Cnt[d] /\ n \in Nat \ {0} /\ n = Entries /\ i + n <= Cnt[d] /\ w = n * Covers[d] /\ w \in Nat \ {0}
      /\ w <= op.todo
  BY DEF ClearableAt
<1>3. PICK S, new : RowDone(T, S, nr, d, f, i, n, w, new) /\ \A x \in i .. i + n - 1 : new[x] = None
  BY <1>1, ClearsWritten DEF ClearsKeepsRow
<1>4. /\ op.va \in Nat /\ op.size \in Nat \ {0} /\ op.va + op.size <= VaPool /\ Shape(op)
      /\ Stacked(tab, T, nr, op.stack, op.at) /\ op.at \in 0 .. Limit - 1 /\ Typed(tab) /\ Tree(tab, T, nr)
      /\ \A v \in op.va .. op.va + op.size - 1 : v \in 0 .. VaPool - 1
      /\ [at |-> op.va, len |-> op.size] \in spaces /\ Mine(op) \in Holding(maps, op)
  BY <1>1, OpIs DEF InvAt
<1>5. /\ op.at + op.todo = op.va + op.size /\ op.todo \in Nat \ {0} /\ op.at \in Nat /\ op.va <= op.at /\ given # {}
      /\ \A v \in op.va .. op.va + op.size - 1 : Tr[v].k = "page" <=> v >= op.at
  BY <1>1, <1>4 DEF InvAt, OpOK, Shape
<1>6. op.at + w <= op.va + op.size
  BY <1>2, <1>4, <1>5
<1>7. /\ d \in 1 .. Levels /\ d = Len(op.stack) /\ f \in T /\ tab[f].lv = d /\ op.stack[d].t = f /\ Lv = d /\ f \in DOMAIN tab
  <2>1. /\ d \in 1 .. Levels /\ d = Len(op.stack) /\ f \in T /\ tab[f].lv = d /\ op.stack[d] = [t |-> f, i |-> i]
        /\ f \in DOMAIN tab /\ Lv = d
    BY <1>2 DEF At, TopIs
  <2>2. op.stack[d].t = f
    BY ONLY <2>1
  <2> QED
    BY <2>1, <2>2
<1>8. PICK st : /\ Forward(op', st, w) /\ Stacked(tab, T, nr, st, op.at + w)
                /\ Len(st) = Len(op.stack) /\ \A k \in 1 .. Len(op.stack) : st[k].t = op.stack[k].t
  <2>1. PICK s2, w2 : /\ w2 = n * Covers[d] /\ w2 \in Nat /\ Forward(Advance(n), s2, w2) /\ Stacked(tab, T, nr, s2, op.at + w2)
                      /\ Len(s2) = Len(op.stack) /\ \A k \in 1 .. Len(op.stack) : s2[k].t = op.stack[k].t
    <3>1. Shape(op) /\ At(T, nr, d, f, i) /\ n \in Nat /\ i + n <= Cnt[d]
      BY <1>2, <1>4
    <3>2. Typed(tab) /\ Tree(tab, T, nr) /\ Stacked(tab, T, nr, op.stack, op.at) /\ op.at \in 0 .. Limit - 1
      BY <1>4
    <3> QED
      BY ONLY <3>1, <3>2, AdvanceIs
  <2>2. w2 = w
    BY <1>2, <2>1
  <2> QED
    BY <1>2, <2>1, <2>2
<1>9. /\ Busy(op') /\ Shape(op') /\ op'.kind = "unmap" /\ op'.va = op.va /\ op'.size = op.size /\ op'.got = op.got /\ op'.rng = op.rng
      /\ op'.left = op.left /\ op'.stack = st /\ op'.up = TRUE /\ op'.at = op.at + w /\ op'.todo = op.todo - w /\ op'.off = op.off + w
  <2>1. w \in Nat
    BY <1>2
  <2>2. Busy(op') /\ Shape(op')
    BY <1>1, <1>4, <1>8, <2>1, ForwardIs
  <2> QED
    BY <1>8, <2>2 DEF Forward
<1>10. Holding(maps', op') = Holding(maps, op) /\ MapsOK(maps', op')
  <2>1. MapsOK(maps, op)
    BY DEF InvAt
  <2> QED
    BY <1>1, <1>9, <2>1, SameHolding
<1>11. PICK h : h = Mine(op) /\ h \in Holding(maps, op) /\ h.va = op.va /\ h.size = op.size /\ h.ps = op.got /\ Space(h) \in spaces
  BY <1>1, <1>4, MineApart
<1>12. stale' = stale \cup (op.at .. op.at + w - 1)
  BY <1>2, <1>7
<1>13. \A v \in 0 .. VaPool - 1 : /\ op.at <= v /\ v < op.at + w => Tr'[v].k # "page"
                                  /\ ~(op.at <= v /\ v < op.at + w) => Tr'[v] = Tr[v]
  <2>1. ASSUME NEW v \in 0 .. VaPool - 1, op.at <= v, v < op.at + w PROVE Tr'[v].k # "page"
    <3>1. v \in 0 .. Limit - 1 /\ Tr'[v] = Trans(tab', v)
      BY PoolBelow, TrNext
    <3>2. PICK x \in i .. i + n - 1 : Trans(tab', v) = Found(tab', f, x, v)
      BY <1>3, <2>1, <3>1 DEF RowDone
    <3>3. tab'[f].ent[x] = None
      BY <1>3 DEF RowDone
    <3>4. Found(tab', f, x, v) = None
      BY <3>3 DEF Found, None
    <3> QED
      BY <3>1, <3>2, <3>4 DEF None
  <2>2. ASSUME NEW v \in 0 .. VaPool - 1, ~(op.at <= v /\ v < op.at + w) PROVE Tr'[v] = Tr[v]
    BY <1>3, <2>2, PoolBelow, TrNext DEF RowDone
  <2> QED
    BY <2>1, <2>2
<1>14. Exact(Tr', Holding(maps, op), parts)
  <2>1. PICK F, G, H, P : F = Tr /\ G = Tr' /\ H = Holding(maps, op) /\ P = parts
    OBVIOUS
  <2>2. Exact(F, H, P)
    BY <2>1 DEF InvAt
  <2>3. \A v \in 0 .. VaPool - 1 : G[v].k = "page" => G[v] = F[v]
    BY <1>13, <2>1
  <2>4. Exact(G, H, P)
    BY ONLY <2>2, <2>3, FewerExact
  <2> QED
    BY <2>1, <2>4
<1>15. ASSUME NEW m \in maps, NEW v \in Nat, InVA(m, v)
       PROVE  ~(op.at <= v /\ v < op.at + w)
  <2>1. SUFFICES ASSUME op.at <= v, v < op.at + w PROVE FALSE
    OBVIOUS
  <2>2. PICK g \in Holding(maps, op) : g.va = m.va /\ g.size = m.size
    BY MapHeld
  <2>3. InVA(g, v)
    BY <1>15, <2>2 DEF InVA
  <2>4. InVA(h, v)
    <3>1. op.va <= v /\ v < op.va + op.size
      BY <1>2, <1>4, <1>5, <1>6, <2>1
    <3> QED
      BY <1>11, <3>1 DEF InVA
  <2>5. HeldOK(Holding(maps, op), spaces, parts) /\ PoolOK(spaces, VaPool)
    BY DEF InvAt
  <2>6. g = h
    BY <1>11, <2>3, <2>4, <2>5, HoldersApart
  <2> QED
    BY <1>1, <1>11, <2>2, <2>6 DEF InvAt, MapsOK
<1>16. ASSUME NEW m \in maps, NEW v \in m.va .. m.va + m.size - 1
       PROVE  v \in 0 .. VaPool - 1 /\ v \in Nat /\ InVA(m, v)
  <2>1. PICK g \in Holding(maps, op) : g.va = m.va /\ g.size = m.size
    BY MapHeld
  <2>2. HeldOK(Holding(maps, op), spaces, parts) /\ PoolOK(spaces, VaPool)
    BY DEF InvAt
  <2>3. \A z \in g.va .. g.va + g.size - 1 : z \in 0 .. VaPool - 1 /\ InVA(g, z)
    BY <2>2, HeldBelow
  <2>4. v \in 0 .. VaPool - 1 /\ InVA(g, v)
    BY <2>1, <2>3
  <2> QED
    BY <2>1, <2>4, PoolBelow DEF InVA
<1>17. Complete(Tr', maps)
  <2>1. SUFFICES ASSUME NEW m \in maps, NEW v \in m.va .. m.va + m.size - 1 PROVE Tr'[v].k = "page"
    BY DEF Complete
  <2>2. Tr[v].k = "page"
    BY <2>1 DEF InvAt, Complete
  <2>3. v \in 0 .. VaPool - 1 /\ ~(op.at <= v /\ v < op.at + w)
    BY <1>15, <1>16
  <2> QED
    BY <1>13, <2>2, <2>3
<1>18. Fresh(maps, stale')
  <2>1. \A z \in op.at .. op.at + w - 1 : z \in Nat /\ op.at <= z /\ z < op.at + w
    BY <1>2, <1>5
  <2>2. stale \subseteq Nat /\ \A m \in maps : \A v \in stale : ~InVA(m, v)
    BY DEF InvAt, Fresh
  <2> QED
    BY <1>12, <1>15, <2>1, <2>2 DEF Fresh
<1>19. Leaves(tab', S, nr, spaces)
  <2>1. \A x \in i .. i + n - 1 : new[x].k # "page"
    BY <1>3 DEF None
  <2> QED
    BY <1>2, <1>3, <2>1, RowLeaves
<1>20. OpOK(op', Tr', given)
  <2>1. op'.at + op'.todo = op'.va + op'.size /\ op'.todo >= 0
    BY <1>2, <1>4, <1>5, <1>9
  <2>2. \A v \in op'.va .. op'.va + op'.size - 1 : Tr'[v].k = "page" <=> v >= op'.at
    <3>1. SUFFICES ASSUME NEW v \in op.va .. op.va + op.size - 1 PROVE Tr'[v].k = "page" <=> v >= op.at + w
      BY <1>9
    <3>2. v \in 0 .. VaPool - 1 /\ (Tr[v].k = "page" <=> v >= op.at) /\ v \in Nat
      BY <1>4, <1>5
    <3>3. PICK a, b : a = op.at /\ b = op.at + w
      OBVIOUS
    <3>4. a \in Nat /\ b \in Nat /\ a < b
      BY <1>2, <1>5, <3>3
    <3>5. CASE ~(v >= a)
      <4>1. ~(v >= b) /\ ~(a <= v /\ v < b)
        BY ONLY <3>2, <3>4, <3>5
      <4> QED
        BY <1>13, <3>2, <3>3, <3>5, <4>1
    <3>6. CASE v >= a /\ v < b
      <4>1. ~(v >= b) /\ a <= v
        BY ONLY <3>2, <3>4, <3>6
      <4> QED
        BY <1>13, <3>2, <3>3, <3>6, <4>1
    <3>7. CASE v >= b
      <4>1. v >= a /\ ~(a <= v /\ v < b)
        BY ONLY <3>2, <3>4, <3>7
      <4> QED
        BY <1>13, <3>2, <3>3, <3>7, <4>1
    <3>8. ~(v >= a) \/ (v >= a /\ v < b) \/ v >= b
      BY ONLY <3>2, <3>4
    <3> QED
      BY <3>5, <3>6, <3>7, <3>8
  <2> QED
    BY <1>5, <1>9, <2>1, <2>2 DEF OpOK
<1>21. Walking(tab', S, nr, op')
  <2>1. Stacked(tab', S, nr, st, op.at + w)
    <3>1. Stacked(tab, T, nr, st, op.at + w) /\ Len(st) = d
      BY <1>7, <1>8
    <3> QED
      BY <1>2, <1>3, <3>1, RowStacked
  <2>2. op.at + w < Limit
    <3>1. VaPool \in Nat /\ VaPool < Limit /\ Limit \in Nat
      BY LimitIs, PoolAssumption
    <3> QED
      BY <1>2, <1>4, <1>5, <1>6, <3>1
  <2> QED
    BY <1>9, <2>1, <2>2 DEF Walking
<1>22. Anchored(tab', S, nr, Tr', spaces, Holding(maps, op), op')
  <2>1. SUFFICES ASSUME NEW g \in S \ {Root}, ~Exempt(op', g) PROVE Anchor(tab', nr, Tr', spaces, Holding(maps, op), g)
    BY DEF Anchored
  <2>2. /\ RowSet(tab, tab', f, i, n) /\ g \in T \ {Root} /\ g \in DOMAIN tab /\ tab'[g].lv = tab[g].lv
        /\ ~Gone(tab, nr, f, i, n, g)
    <3>1. RowSet(tab, tab', f, i, n) /\ g \in T /\ g \in DOMAIN tab /\ ~Gone(tab, nr, f, i, n, g)
      BY <1>3, <1>4 DEF RowDone, Tree, Rooted
    <3> QED
      BY <3>1 DEF RowSet
  <2>3. ~\E k \in 1 .. Len(op.stack) : op.stack[k].t = g
    BY <1>8, <1>9, <2>1 DEF Exempt
  <2>4. Anchor(tab, nr, Tr, spaces, Holding(maps, op), g)
    BY <2>2, <2>3 DEF InvAt, Anchored, Exempt
  <2>5. PICK v \in 0 .. VaPool - 1 : Nth(tab[g].lv - 1, v) = nr[g] /\ (Tr[v].k = "page" \/ Lost(spaces, Holding(maps, op), v))
    BY <2>4 DEF Anchor
  <2>6. ~(op.at <= v /\ v < op.at + w)
    <3>1. SUFFICES ASSUME op.at <= v, v < op.at + w PROVE FALSE
      OBVIOUS
    <3>2. v \in 0 .. Limit - 1 /\ InRow(tab, nr, f, i, n, v)
      BY <1>3, <3>1, PoolBelow DEF RowDone
    <3>3. ~(tab[g].lv > d)
      BY <1>7, <2>2, <2>5, <3>2 DEF Gone
    <3>4. PICK k : k = tab[g].lv
      OBVIOUS
    <3>5. k \in 1 .. d
      <4>1. k \in 1 .. Levels
        BY <1>4, <2>2, <3>4 DEF Typed, TableOK
      <4>2. ~(k > d) /\ d \in 1 .. Levels /\ Levels \in Nat
        BY <1>7, <3>3, <3>4, CoversIs
      <4> QED
        BY ONLY <4>1, <4>2
    <3>6. Nth(d - 1, v) = nr[f]
      <4>1. PICK x \in i .. i + n - 1 : Nth(tab[f].lv, v) = Block(tab, nr, f, x)
        <5>1. i \in Nat /\ n \in Nat /\ Rooted(tab, T, nr)
          BY <1>2, <1>4 DEF At, TopIs, Tree
        <5>2. \A x \in i .. i + n - 1 : x \in Slots(tab, f)
          BY <2>2 DEF RowSet
        <5> QED
          <6>1. PICK t : t = tab
            OBVIOUS
          <6>2. Typed(t) /\ Rooted(t, T, nr) /\ f \in T /\ i \in Nat /\ n \in Nat /\ v \in 0 .. Limit - 1
            BY <1>4, <1>7, <3>2, <5>1, <6>1
          <6>3. \A x \in i .. i + n - 1 : x \in Slots(t, f)
            BY <5>2, <6>1
          <6>4. InRow(t, nr, f, i, n, v)
            BY <3>2, <6>1
          <6>5. \E x \in i .. i + n - 1 : Nth(t[f].lv, v) = Block(t, nr, f, x)
            BY ONLY <6>2, <6>3, <6>4, RowEntry
          <6> QED
            BY <6>1, <6>5
      <4>2. x \in Slots(tab, f)
        BY <2>2 DEF RowSet
      <4> QED
        BY <1>4, <1>7, <3>2, <4>1, <4>2, BlockIs DEF Tree
    <3>7. \A l \in 1 .. Len(op.stack) : Nth(l - 1, v) = nr[op.stack[l].t]
      <4>1. PICK t, so, a : t = tab /\ so = op.stack /\ a = op.at
        OBVIOUS
      <4>2. Typed(t) /\ Tree(t, T, nr) /\ Stacked(t, T, nr, so, a) /\ v \in 0 .. Limit - 1
        BY <1>4, <3>2, <4>1
      <4>3. Nth(Len(so) - 1, v) = nr[so[Len(so)].t]
        BY <1>7, <3>6, <4>1
      <4>4. \A l \in 1 .. Len(so) : Nth(l - 1, v) = nr[so[l].t]
        BY ONLY <4>2, <4>3, UnderStack
      <4> QED
        BY <4>1, <4>4
    <3>8. op.stack[k].t \in T /\ tab[op.stack[k].t].lv = k /\ nr[op.stack[k].t] = nr[g]
      BY <1>4, <1>7, <2>5, <3>4, <3>5, <3>7 DEF Stacked
    <3>9. op.stack[k].t = g
      BY <1>4, <2>2, <3>4, <3>8 DEF Tree, Unique
    <3> QED
      BY <1>7, <2>3, <3>5, <3>9
  <2> QED
    BY <1>13, <2>2, <2>5, <2>6 DEF Anchor
<1>23. PoolOK(spaces, VaPool) /\ PoolOK(parts, PaPool) /\ HeldOK(Holding(maps, op), spaces, parts)
  BY DEF InvAt
<1>24. Inv'
  <2>2. Typed(tab') /\ Tree(tab', S, nr) /\ PoolOK(spaces', VaPool) /\ PoolOK(parts', PaPool)
    BY <1>3, <1>23 DEF RowDone
  <2>3. HeldOK(Holding(maps', op'), spaces', parts') /\ MapsOK(maps', op')
    BY <1>10, <1>23
  <2>4. Exact(Tr', Holding(maps', op'), parts') /\ Complete(Tr', maps')
    BY <1>10, <1>14, <1>17
  <2>5. Leaves(tab', S, nr, spaces') /\ OpOK(op', Tr', given') /\ Walking(tab', S, nr, op')
    BY <1>19, <1>20, <1>21
  <2>6. Anchored(tab', S, nr, Tr', spaces', Holding(maps', op'), op') /\ Fresh(maps', stale')
    BY <1>10, <1>18, <1>22
  <2>7. given' = {} => Blank(Tr', maps')
    BY <1>5
  <2> QED
    BY ONLY <2>2, <2>3, <2>4, <2>5, <2>6, <2>7, InvMade
<1> QED
  BY <1>24

(* A turn of unmap_range(): it goes down, or it clears a row.  None of its *)
(* assertions fails.                                                       *)
GoesDown == Entry.k = "table" /\ op' = [op EXCEPT !.stack = Push(Entry.at)] /\ tab' = tab /\ stale' = stale

ClearsAt(T, nr, d, f, i, n, w) ==
  /\ ClearableAt(T, nr, d, f, i, n, w) /\ tab' = Cleared /\ op' = Advance(Entries)
  /\ stale' = stale \cup (op.at .. op.at + Entries * Covers[Lv] - 1)

(* unmap_range() goes a level down or clears a row; it never fails.        *)
LEMMA UnmapTurns ==
  ASSUME NEW T, NEW nr, InvAt(T, nr), Unmap
  PROVE  GoesDown \/ \E d, f, i, n, w : ClearsAt(T, nr, d, f, i, n, w)
<1>1. InvAt(T, nr) /\ Unmap
  OBVIOUS
<1>2. /\ op.kind = "unmap" /\ op.todo > 0 /\ ~op.up /\ Busy(op)
      /\ spaces' = spaces /\ parts' = parts /\ maps' = maps /\ given' = given
  BY <1>1 DEF Unmap, Turn, Busy
<1>3. /\ op.va \in Nat /\ op.size \in Nat \ {0} /\ op.va + op.size <= VaPool /\ Shape(op) /\ Typed(tab) /\ T \subseteq DOMAIN tab
      /\ \A v \in op.va .. op.va + op.size - 1 : v \in 0 .. VaPool - 1
  BY <1>1, <1>2, OpIs DEF InvAt, Tree, Rooted
<1>4. /\ op.at + op.todo = op.va + op.size /\ op.todo \in Nat \ {0} /\ op.at \in Nat /\ op.va <= op.at
      /\ \A v \in op.va .. op.va + op.size - 1 : Tr[v].k = "page" <=> v >= op.at
  BY <1>1, <1>2, <1>3 DEF InvAt, OpOK, Shape
<1>5. op.at \in op.va .. op.va + op.size - 1
  BY <1>3, <1>4
<1>6. op.at \in 0 .. VaPool - 1 /\ Tr[op.at].k = "page"
  BY <1>3, <1>4, <1>5
<1>7. Entry.k # "none"
  BY <1>1, <1>2, <1>6, PageReached
<1>8. PICK d, f, i : At(T, nr, d, f, i)
  BY <1>1, <1>2, WalkAt
<1>9. EntryOK(Lv, Entry) /\ Top.t = f /\ Top.i = i /\ Lv \in 1 .. Levels
  <2>1. /\ f \in T /\ tab[f].lv = d /\ d = Len(op.stack) /\ op.stack[d] = [t |-> f, i |-> i] /\ Lv = d /\ d \in 1 .. Levels
        /\ Entry = tab[f].ent[i] /\ (i < Cnt[d] => i \in Slots(tab, f)) /\ Top.t = f /\ Top.i = i
    BY <1>8 DEF At, TopIs
  <2>2. op.stack[d].i = i
    BY ONLY <2>1
  <2>3. i \in Slots(tab, f)
    BY <1>1, <1>2, <2>1, <2>2, OpIs
  <2>4. EntryOK(tab[f].lv, tab[f].ent[i])
    BY <1>3, <2>1, <2>3 DEF Typed, TableOK, Slots
  <2> QED
    BY <2>1, <2>4
<1>10. Entry.k = "page" \/ (Entry.k = "table" /\ Lv < Levels)
  BY <1>7, <1>9, EntryKinds
<1>11. CASE Entry.k = "table"
  <2>1. op' = [op EXCEPT !.stack = Push(Entry.at)] /\ tab' = tab /\ stale' = stale
    <3>1. \/ op' = [op EXCEPT !.stack = Push(Entry.at)] /\ UNCHANGED <<tab, stale>>
          \/ Entry = None
          \/ Lv = Levels \/ Entry.k = "page"
      BY <1>1 DEF Unmap
    <3>2. Lv # Levels
      BY <1>9, <1>10, <1>11, CoversIs
    <3>3. Entry # None /\ Entry.k # "page"
      BY <1>11 DEF None
    <3> QED
      BY ONLY <3>1, <3>2, <3>3
  <2> QED
    BY <1>11, <2>1 DEF GoesDown
<1>12. CASE Entry.k = "page"
  <2>1. PICK d2, f2, i2, n, w : ClearableAt(T, nr, d2, f2, i2, n, w)
    BY <1>1, <1>2, <1>12, ClearsRow
  <2>2. Entries # 0 /\ ~\E x \in Row : tab[Top.t].ent[x] = None
    <3>1. n = Entries /\ n # 0 /\ Row = i2 .. i2 + n - 1 /\ Top.t = f2 /\ \A x \in i2 .. i2 + n - 1 : tab[f2].ent[x] # None
      BY <2>1 DEF ClearableAt, At
    <3> QED
      BY ONLY <3>1
  <2>3. Entry # None
    BY <1>12 DEF None
  <2>4. tab' = Cleared /\ op' = Advance(Entries) /\ stale' = stale \cup (op.at .. op.at + Entries * Covers[Lv] - 1)
    <3>1. \/ Entry.k = "table" \/ Entry = None
          \/ IF Entries = 0 THEN Fail("Invalid entries") /\ UNCHANGED <<tab, stale>>
             ELSE IF \E x \in Row : tab[Top.t].ent[x] = None
             THEN Fail("PTE not mapped") /\ UNCHANGED <<tab, stale>>
             ELSE /\ tab' = Cleared /\ op' = Advance(Entries)
                  /\ stale' = stale \cup (op.at .. op.at + Entries * Covers[Lv] - 1)
      BY <1>1 DEF Unmap
    <3>2. Entry.k # "table"
      BY <1>12
    <3> QED
      BY ONLY <2>2, <2>3, <3>1, <3>2
  <2> QED
    BY <2>1, <2>4 DEF ClearsAt
<1> QED
  BY <1>10, <1>11, <1>12

(* A turn of unmap_range().                                                *)
LEMMA UnmapKeeps == Inv /\ Unmap => Inv'
<1>1. SUFFICES ASSUME NEW T, NEW nr, InvAt(T, nr), Unmap PROVE Inv'
  BY DEF Inv
<1>2. /\ op.kind = "unmap" /\ op.todo > 0 /\ ~op.up /\ Busy(op) /\ InvAt(T, nr)
      /\ spaces' = spaces /\ parts' = parts /\ maps' = maps /\ given' = given
  BY <1>1 DEF Unmap, Turn, Busy
<1>3. CASE GoesDown
  BY <1>2, <1>3, DownKeeps DEF GoesDown
<1>4. ASSUME NEW d, NEW f, NEW i, NEW n, NEW w, ClearsAt(T, nr, d, f, i, n, w) PROVE Inv'
  BY <1>2, <1>4, ClearsKeeps DEF ClearsAt
<1> QED
  BY <1>1, <1>3, <1>4, UnmapTurns

-----------------------------------------------------------------------------
(* The root table is all there is to begin with.                           *)
LEMMA InitInv == Init => Inv
<1>1. SUFFICES ASSUME Init PROVE Inv
  OBVIOUS
<1>2. /\ tab = [f \in {Root} |-> EmptyTable(1)]
      /\ spaces = {} /\ parts = {} /\ maps = {} /\ given = {} /\ stale = {} /\ op = Idle
  BY <1>1 DEF Init
<1>3. PICK T, nr : T = {Root} /\ nr = [f \in {Root} |-> 0]
  OBVIOUS
<1>4. PICK e : e = EmptyTable(1)
  OBVIOUS
<1>5. TableOK(e) /\ e.lv = 1 /\ \A x \in 0 .. Cnt[1] - 1 : e.ent[x] = None
  <2>1. 1 \in 1 .. Levels
    BY CoversIs
  <2> QED
    BY <1>4, <2>1, EmptyIs
<1>6. tab = [f \in {Root} |-> e] /\ DOMAIN tab = {Root} /\ tab[Root] = e
  BY <1>2, <1>4
<1>7. Typed(tab)
  BY <1>5, <1>6 DEF Typed
<1>8. \A f \in T : \A x \in Slots(tab, f) : tab[f].ent[x] = None
  BY <1>3, <1>5, <1>6 DEF Slots
<1>9. Tree(tab, T, nr)
  <2>1. Rooted(tab, T, nr)
    BY <1>3, <1>5, <1>6 DEF Rooted
  <2>2. Children(tab, T, nr)
    BY <1>8 DEF Children, None
  <2>3. Parents(tab, T) /\ Unique(tab, T, nr)
    BY <1>3 DEF Parents, Unique
  <2> QED
    BY <2>1, <2>2, <2>3 DEF Tree
<1>10. \A v \in 0 .. VaPool - 1 : Tr[v].k # "page"
  <2>1. SUFFICES ASSUME NEW v \in 0 .. VaPool - 1, Tr[v].k = "page" PROVE FALSE
    OBVIOUS
  <2>2. v \in 0 .. Limit - 1 /\ Tr[v] = Trans(tab, v)
    BY PoolBelow
  <2>3. PICK f \in T : \E x \in Slots(tab, f) : Ends(tab, nr, f, x, v)
    BY <1>7, <1>9, <2>2, WalkEnds
  <2>4. PICK x \in Slots(tab, f) : Ends(tab, nr, f, x, v)
    BY <2>3
  <2>5. Trans(tab, v) = Found(tab, f, x, v)
    BY <1>7, <1>9, <2>2, <2>4, WalkFinds
  <2>6. tab[f].ent[x] = None
    BY <1>8
  <2> QED
    BY <2>1, <2>2, <2>5, <2>6 DEF Found, None
<1>11. ~Busy(op) /\ Holding(maps, op) = {}
  BY <1>2, IdleIs DEF Held
<1>12. PoolOK(spaces, VaPool) /\ PoolOK(parts, PaPool) /\ HeldOK(Holding(maps, op), spaces, parts) /\ MapsOK(maps, op)
  BY <1>2, <1>11 DEF PoolOK, HeldOK, MapsOK
<1>13. Exact(Tr, Holding(maps, op), parts) /\ Complete(Tr, maps) /\ Blank(Tr, maps)
  BY <1>2, <1>10, <1>11 DEF Exact, Complete, Blank
<1>14. Leaves(tab, T, nr, spaces) /\ Fresh(maps, stale)
  BY <1>2, <1>8 DEF Leaves, None, Fresh
<1>15. OpOK(op, Tr, given) /\ Walking(tab, T, nr, op)
  BY <1>2, <1>11 DEF OpOK, Walking, Idle
<1>16. Anchored(tab, T, nr, Tr, spaces, Holding(maps, op), op)
  BY <1>3 DEF Anchored
<1>17. InvAt(T, nr)
  BY <1>7, <1>9, <1>12, <1>13, <1>14, <1>15, <1>16 DEF InvAt
<1> QED
  BY <1>17 DEF Inv

(* A step that changes nothing.                                            *)
LEMMA SameInv == ASSUME Inv, UNCHANGED vars PROVE Inv'
<1>1. PICK T, nr : InvAt(T, nr)
  BY DEF Inv
<1>2. tab' = tab /\ spaces' = spaces /\ parts' = parts /\ maps' = maps /\ given' = given /\ stale' = stale /\ op' = op
  BY DEF vars
<1>3. Tr' = Tr
  BY <1>2, TrSame
<1>4. InvAt(T, nr)'
  BY <1>1, <1>2, <1>3 DEF InvAt
<1> QED
  BY <1>4 DEF Inv

(* Each step of a call keeps the invariant.                                *)
LEMMA StepInv == Inv /\ [Next]_vars => Inv'
<1>1. SUFFICES ASSUME Inv, [Next]_vars PROVE Inv'
  OBVIOUS
<1>2. ASSUME NEW size \in Sizes, Valloc(size) PROVE Inv'
  BY <1>1, <1>2, VallocKeeps
<1>3. ASSUME NEW size \in Sizes, VallocContiguous(size) PROVE Inv'
  BY <1>1, <1>3, VallocContiguousKeeps
<1>4. CASE PallocRange
  BY <1>1, <1>4, PallocRangeKeeps
<1>5. CASE PallocFails
  BY <1>1, <1>5, PallocFailsKeeps
<1>6. CASE StartCheck
  BY <1>1, <1>6, StartCheckKeeps
<1>7. CASE Check
  BY <1>1, <1>7, CheckKeeps
<1>8. CASE StartMap
  BY <1>1, <1>8, StartMapKeeps
<1>9. CASE NextPart
  BY <1>1, <1>9, NextPartKeeps
<1>10. CASE Map
  BY <1>1, <1>10, MapKeeps
<1>11. CASE FinishMap
  BY <1>1, <1>11, FinishMapKeeps
<1>12. CASE Reserve
  BY <1>1, <1>12, ReserveKeeps
<1>13. CASE Descend
  BY <1>1, <1>13, DescendKeeps
<1>14. ASSUME NEW m \in maps, Vfree(m) PROVE Inv'
  BY <1>1, <1>14, VfreeKeeps
<1>15. CASE Unmap
  BY <1>1, <1>15, UnmapKeeps
<1>16. CASE FinishUnmap
  BY <1>1, <1>16, FinishUnmapKeeps
<1>17. CASE LevelUp
  BY <1>1, <1>17, LevelUpKeeps
<1>18. CASE UNCHANGED vars
  BY <1>1, <1>18, SameInv
<1> QED
  BY <1>1, <1>2, <1>3, <1>4, <1>5, <1>6, <1>7, <1>8, <1>9, <1>10, <1>11, <1>12, <1>13, <1>14, <1>15, <1>16, <1>17, <1>18 DEF Next

(* The inductive invariant of valloc() and vfree(): at each step the page  *)
(* tables are a tree whose pages are those of the mappings, and of what    *)
(* the call that runs has mapped or has yet to unmap.                      *)
THEOREM PageTablesInvariant == Spec => []Inv
<1>1. Inv /\ [Next]_vars => Inv'
  BY StepInv
<1> QED
  BY <1>1, InitInv, PTL DEF Spec

(* The entries of the tables are pages of the pool, or name tables of the  *)
(* level below.                                                            *)
THEOREM TypesKept == Spec => []TypeOK
<1>1. Inv => TypeOK
  BY InvGivesTypes
<1> QED
  BY <1>1, PageTablesInvariant, PTL

(* map_range() and unmap_range() of other ranges never touch a mapping: at *)
(* each step the GPU finds each of its pages where valloc() put it.        *)
THEOREM MappingsExact == Spec => []MapsExact
<1>1. Inv => MapsExact
  BY InvGivesMaps
<1> QED
  BY <1>1, PageTablesInvariant, PTL

(* A page is mapped after palloc and unmapped before pfree, and by no two  *)
(* calls: the GPU reaches what is allocated, and each page by one way.     *)
THEOREM OwnedReached == Spec => []ReachesOwned
<1>1. Inv => ReachesOwned
  BY InvGivesOwned
<1> QED
  BY <1>1, PageTablesInvariant, PTL

(* vfree() gives a virtual range back when nothing is mapped in it.        *)
THEOREM FreedIsUnmapped == Spec => []FreedUnmapped
<1>1. Inv => FreedUnmapped
  BY InvGivesFreed
<1> QED
  BY <1>1, PageTablesInvariant, PTL

(* No assertion of map_range(), unmap_range() or level_down() fails.       *)
THEOREM WalkNeverRaises == Spec => []NeverRaises
<1>1. Inv => NeverRaises
  BY InvGivesRest
<1> QED
  BY <1>1, PageTablesInvariant, PTL

(* on_range_mapped() comes in time: no page of a mapping is one that the   *)
(* TLB may still translate as it was.                                      *)
THEOREM MappingsFresh == Spec => []NeverStale
<1>1. Inv => NeverStale
  BY InvGivesRest
<1> QED
  BY <1>1, PageTablesInvariant, PTL

-----------------------------------------------------------------------------
(* The tables GSP-RM was given: p[k] is the one of level k, and the walk   *)
(* to the virtual page v comes by all of them.                             *)
GivenPath(t, p, D, v) ==
  /\ D \in 1 .. Levels /\ p[1] = Root
  /\ \A k \in 1 .. D : p[k] \in DOMAIN t /\ t[p[k]].lv = k
  /\ \A k \in 1 .. D - 1 : t[p[k]].ent[Idx(k, v)] = Table(p[k + 1])

Along(G, p, D) == G = {p[k] : k \in 1 .. D}

(* The tables of the path hold v.                                          *)
LEMMA PathNumber ==
  ASSUME NEW t, NEW T, NEW nr, Typed(t), Tree(t, T, nr), NEW v \in 0 .. Limit - 1, NEW p, NEW D, GivenPath(t, p, D, v)
  PROVE  /\ \A k \in 1 .. D : p[k] \in T /\ Nth(k - 1, v) = nr[p[k]]
         /\ \A k \in 1 .. D : Idx(k, v) \in Slots(t, p[k]) /\ Nth(k, v) = Block(t, nr, p[k], Idx(k, v))
<1> DEFINE Odd == {k \in 1 .. D : ~(p[k] \in T /\ Nth(k - 1, v) = nr[p[k]])}
<1>1. D \in Nat /\ Rooted(t, T, nr) /\ Children(t, T, nr)
  BY CoversIs DEF GivenPath, Tree
<1>2. ASSUME NEW k \in 1 .. D, p[k] \in T, Nth(k - 1, v) = nr[p[k]]
      PROVE  Idx(k, v) \in Slots(t, p[k]) /\ Nth(k, v) = Block(t, nr, p[k], Idx(k, v))
  <2>1. t[p[k]].lv = k
    BY DEF GivenPath
  <2>2. PICK f : f = p[k]
    OBVIOUS
  <2>3. /\ Idx(t[f].lv, v) \in Slots(t, f)
        /\ \A x \in Slots(t, f) : (Nth(t[f].lv, v) = Block(t, nr, f, x) <=> Nth(t[f].lv - 1, v) = nr[f] /\ Idx(t[f].lv, v) = x)
    <3>1. f \in T /\ Typed(t) /\ Rooted(t, T, nr)
      BY <1>1, <1>2, <2>2
    <3> QED
      BY ONLY <3>1, BlockIs, v \in 0 .. Limit - 1
  <2> QED
    BY <1>2, <2>1, <2>2, <2>3
<1>3. Odd = {}
  <2>1. SUFFICES ASSUME Odd # {} PROVE FALSE
    OBVIOUS
  <2>2. Odd \in SUBSET Nat
    BY <1>1
  <2>3. PICK k \in Odd : k \in Nat /\ (k # 0 => k - 1 \in Nat \ Odd)
    BY <2>1, <2>2, Least
  <2>4. k \in 1 .. D
    OBVIOUS
  <2>5. k # 1
    <3>1. SUFFICES ASSUME k = 1 PROVE FALSE
      OBVIOUS
    <3>2. p[k] = Root /\ Nth(k - 1, v) = 0 /\ nr[Root] = 0 /\ Root \in T
      BY <1>1, <3>1 DEF GivenPath, Nth, Rooted
    <3> QED
      BY <3>2
  <2>6. PICK l : l = k - 1
    OBVIOUS
  <2>7. l \in 1 .. D /\ l \in 1 .. D - 1 /\ l + 1 = k /\ l \notin Odd
    <3>1. k - 1 \notin Odd
      <4> HIDE DEF Odd
      <4> QED
        BY <2>3, <2>4
    <3> QED
      BY <1>1, <2>4, <2>5, <2>6, <3>1
  <2>8. p[l] \in T /\ Nth(l - 1, v) = nr[p[l]]
    BY <2>7
  <2>9. Idx(l, v) \in Slots(t, p[l]) /\ Nth(l, v) = Block(t, nr, p[l], Idx(l, v))
    BY <1>2, <2>7, <2>8
  <2>10. t[p[l]].ent[Idx(l, v)] = Table(p[k])
    BY <2>7 DEF GivenPath
  <2>11. p[k] \in T /\ nr[p[k]] = Block(t, nr, p[l], Idx(l, v))
    <3>1. Table(p[k]).k = "table" /\ Table(p[k]).at = p[k]
      BY DEF Table
    <3> QED
      BY <1>1, <2>8, <2>9, <2>10, <3>1 DEF Children
  <2> QED
    BY <2>6, <2>9, <2>11
<1>4. \A k \in 1 .. D : p[k] \in T /\ Nth(k - 1, v) = nr[p[k]]
  BY <1>3
<1> QED
  BY <1>2, <1>4

(* Such a path stays where its entries do.                                 *)
LEMMA PathStays ==
  ASSUME NEW t, NEW u, NEW v, NEW p, NEW D, GivenPath(t, p, D, v),
         \A k \in 1 .. D : p[k] \in DOMAIN u /\ u[p[k]].lv = t[p[k]].lv,
         \A k \in 1 .. D - 1 : u[p[k]].ent[Idx(k, v)] = t[p[k]].ent[Idx(k, v)]
  PROVE  GivenPath(u, p, D, v)
BY DEF GivenPath

(* Every table of the path but the root is named by an entry.              *)
LEMMA PathGivesKept ==
  ASSUME Typed(tab), NEW v \in 0 .. Limit - 1, NEW p, NEW D, GivenPath(tab, p, D, v), Along(given, p, D)
  PROVE  GivenKept
<1>1. SUFFICES ASSUME NEW f \in given, f # Root PROVE f \in DOMAIN tab /\ \E e \in Links : Named(e) = f
  BY DEF GivenKept
<1>2. PICK k \in 1 .. D : f = p[k]
  BY DEF Along
<1>3. PICK l : l = k - 1
  OBVIOUS
<1>4. l \in 1 .. D /\ l \in 1 .. D - 1 /\ l + 1 = k /\ D \in 1 .. Levels
  <2>1. k # 1 /\ D \in Nat
    BY <1>1, <1>2, CoversIs DEF GivenPath
  <2> QED
    BY <1>2, <1>3, <2>1 DEF GivenPath
<1>5. PICK g, x : g = p[l] /\ x = Idx(l, v)
  OBVIOUS
<1>6. g \in DOMAIN tab /\ tab[g].lv = l /\ tab[g].ent[x] = Table(f)
  BY <1>2, <1>4, <1>5 DEF GivenPath
<1>7. x \in 0 .. Cnt[l] - 1
  <2>1. PICK j : j = l - 1
    OBVIOUS
  <2>2. j \in 0 .. Levels - 1 /\ j + 1 = l
    BY <1>4, <2>1, CoversIs
  <2>3. Idx(j + 1, v) \in 0 .. Cnt[j + 1] - 1
    BY <2>2, NthStep
  <2> QED
    BY <1>5, <2>2, <2>3
<1>8. DOMAIN tab[g].ent = 0 .. Cnt[l] - 1
  BY <1>6 DEF Typed, TableOK
<1>9. tab[g].ent[x].k = "table" /\ tab[g].ent[x].at = f
  BY <1>6 DEF Table
<1>10. <<g, x>> \in Links
  <2>1. x \in DOMAIN tab[g].ent
    BY <1>7, <1>8
  <2>2. <<g, x>> \in {<<g, z>> : z \in {y \in DOMAIN tab[g].ent : tab[g].ent[y].k = "table"}}
    BY <1>9, <2>1
  <2> QED
    BY <1>6, <2>2 DEF Links
<1>11. Named(<<g, x>>) = f
  BY <1>9 DEF Named
<1> QED
  BY <1>2, <1>10, <1>11 DEF GivenPath

(* The range whose tables were given is allocated, and nobody's: no        *)
(* mapping's, and not the call's.                                          *)
Unheld(v) ==
  /\ \E s \in spaces : s.at = v
  /\ \A m \in maps : m.va # v
  /\ Busy(op) => op.va # v

GivenTo(v) == given # {} => Unheld(v) /\ \E p, D : GivenPath(tab, p, D, v) /\ Along(given, p, D)

(* The first mapping is there as long as there is any, or one is unmapped. *)
RingKept == (maps # {} \/ op.kind = "unmap") => \E m \in maps : m.keep

(* A range of the pool begins below the limit.                             *)
LEMMA SpaceBelow ==
  ASSUME NEW T, NEW nr, InvAt(T, nr), NEW v, \E s \in spaces : s.at = v
  PROVE  v \in 0 .. VaPool - 1 /\ v \in 0 .. Limit - 1 /\ v \in Nat
<1>1. PICK s \in spaces : s.at = v
  OBVIOUS
<1>2. s \in [at : Nat, len : Nat \ {0}] /\ s.at + s.len <= VaPool
  BY DEF InvAt, PoolOK
<1>3. v \in Nat /\ s.len \in Nat \ {0} /\ v + s.len <= VaPool /\ VaPool \in Nat
  BY <1>1, <1>2, PoolAssumption
<1>4. v \in 0 .. VaPool - 1
  BY ONLY <1>3
<1> QED
  BY <1>3, <1>4, PoolBelow

(* A row that is written lies in the call's range, and so beside the path. *)
LEMMA RowBeside ==
  ASSUME NEW T, NEW nr, InvAt(T, nr), Busy(op), NEW d, NEW f, NEW i, At(T, nr, d, f, i),
         NEW S, NEW n \in Nat, NEW w \in Nat, NEW new, RowDone(T, S, nr, d, f, i, n, w, new),
         op.at + w <= op.va + op.size,
         NEW v, Unheld(v), NEW p, NEW D, GivenPath(tab, p, D, v)
  PROVE  GivenPath(tab', p, D, v)
<1>1. v \in 0 .. Limit - 1 /\ v \in Nat
  BY SpaceBelow DEF Unheld
<1>2. /\ Typed(tab) /\ Tree(tab, T, nr) /\ Rooted(tab, T, nr) /\ Shape(op) /\ PoolOK(spaces, VaPool)
      /\ [at |-> op.va, len |-> op.size] \in spaces /\ op.va # v
  <2>1. Typed(tab) /\ Tree(tab, T, nr) /\ PoolOK(spaces, VaPool)
    BY DEF InvAt
  <2> QED
    BY <2>1, OpIs DEF Tree, Unheld
<1>3. f \in T /\ i \in Nat
  BY DEF At, TopIs
<1>4. /\ RowSet(tab, tab', f, i, n)
      /\ InRow(tab, nr, f, i, n, v) => op.at <= v /\ v < op.at + w
  BY <1>1 DEF RowDone
<1>5. ~InRow(tab, nr, f, i, n, v)
  <2>1. SUFFICES ASSUME InRow(tab, nr, f, i, n, v) PROVE FALSE
    OBVIOUS
  <2>2. op.va \in Nat /\ op.size \in Nat /\ op.at \in Nat /\ op.va <= op.at
    BY <1>2 DEF Shape
  <2>3. op.va <= v /\ v < op.va + op.size
    BY <1>1, <1>4, <2>1, <2>2
  <2>4. PICK r, s : r = [at |-> op.va, len |-> op.size] /\ s \in spaces /\ s.at = v
    BY DEF Unheld
  <2>5. s \in [at : Nat, len : Nat \ {0}] /\ r \in spaces /\ r.at = op.va /\ r.len = op.size
    BY <1>2, <2>4 DEF PoolOK
  <2>6. InRange(r, v) /\ InRange(s, v)
    BY <1>1, <2>3, <2>4, <2>5 DEF InRange
  <2>7. r = s
    BY ONLY <1>1, <1>2, <2>4, <2>5, <2>6, RangesApart
  <2> QED
    BY <1>2, <2>4, <2>5, <2>7
<1>6. \A k \in 1 .. D : Idx(k, v) \in Slots(tab, p[k]) /\ Nth(k, v) = Block(tab, nr, p[k], Idx(k, v))
  <2>1. GivenPath(tab, p, D, v)
    OBVIOUS
  <2> QED
    BY ONLY <1>1, <1>2, <2>1, PathNumber
<1>7. \A k \in 1 .. D : p[k] \in DOMAIN tab /\ tab[p[k]].lv = k
  BY DEF GivenPath
<1>8. \A k \in 1 .. D : p[k] \in DOMAIN tab' /\ tab'[p[k]].lv = tab[p[k]].lv
  BY <1>4, <1>7 DEF RowSet
<1>9. ASSUME NEW k \in 1 .. D PROVE tab'[p[k]].ent[Idx(k, v)] = tab[p[k]].ent[Idx(k, v)]
  <2>1. CASE p[k] # f
    BY <1>4, <1>7, <2>1 DEF RowSet
  <2>2. CASE p[k] = f
    <3>1. PICK x : x = Idx(k, v)
      OBVIOUS
    <3>2. x \in Slots(tab, f) /\ Nth(tab[f].lv, v) = Block(tab, nr, f, x)
      BY <1>6, <1>7, <2>2, <3>1
    <3>3. x \notin i .. i + n - 1
      <4>1. \A y \in i .. i + n - 1 : y \in Slots(tab, f)
        BY <1>4 DEF RowSet
      <4> QED
        BY <1>1, <1>2, <1>3, <1>5, <3>2, <4>1, RowEntry
    <3> QED
      BY <1>4, <2>2, <3>1, <3>2, <3>3 DEF RowSet
  <2> QED
    BY <2>1, <2>2
<1>10. \A k \in 1 .. D - 1 : k \in 1 .. D
  BY CoversIs DEF GivenPath
<1> QED
  BY <1>8, <1>9, <1>10, PathStays

(* A new table is put where there was none, and so beside the path.        *)
LEMMA TableBeside ==
  ASSUME NEW f, NEW i, NEW c, TableNew(tab, tab', f, i, c), NEW v \in 0 .. Limit - 1,
         NEW p, NEW D, GivenPath(tab, p, D, v)
  PROVE  GivenPath(tab', p, D, v)
<1>1. \A k \in 1 .. D : p[k] \in DOMAIN tab /\ tab[p[k]].lv = k
  BY DEF GivenPath
<1>2. \A k \in 1 .. D : p[k] \in DOMAIN tab' /\ tab'[p[k]].lv = tab[p[k]].lv
  BY <1>1 DEF TableNew
<1>3. ASSUME NEW k \in 1 .. D - 1 PROVE tab'[p[k]].ent[Idx(k, v)] = tab[p[k]].ent[Idx(k, v)]
  <2>1. k \in 1 .. D /\ k \in 1 .. Levels
    BY CoversIs DEF GivenPath
  <2>2. CASE p[k] # f
    BY <1>1, <2>1, <2>2 DEF TableNew
  <2>3. CASE p[k] = f
    <3>1. PICK x : x = Idx(k, v)
      OBVIOUS
    <3>2. tab[f].ent[x] = Table(p[k + 1]) /\ tab[f].lv = k
      BY <1>1, <2>1, <2>3, <3>1 DEF GivenPath
    <3>3. x # i
      BY <3>2 DEF TableNew, Table, None
    <3>4. x \in Slots(tab, f)
      <4>1. PICK j : j = k - 1
        OBVIOUS
      <4>2. j \in 0 .. Levels - 1 /\ j + 1 = k
        BY <2>1, <4>1, CoversIs
      <4>3. Idx(j + 1, v) \in 0 .. Cnt[j + 1] - 1
        BY <4>2, NthStep
      <4> QED
        BY <3>1, <3>2, <4>2, <4>3 DEF Slots
    <3> QED
      BY <2>3, <3>1, <3>3, <3>4 DEF TableNew
  <2> QED
    BY <2>2, <2>3
<1> QED
  BY <1>2, <1>3, PathStays

(* What RingNear is for: the first mapping, the ring of the golden image's *)
(* channel, lies under each of the tables given, as the range v does.      *)
RingNear(v) ==
  \A m \in maps : m.keep => \A f \in given \ {Root} : Nth(tab[f].lv - 1, m.va) = Nth(tab[f].lv - 1, v)

(* So none of them is ever empty while a range is unmapped.                *)
LEMMA GivenUsed ==
  ASSUME NEW T, NEW nr, InvAt(T, nr), op.kind = "unmap", RingKept, NEW v, GivenTo(v), RingNear(v),
         NEW f \in DOMAIN tab, f # Root, Clear(f)
  PROVE  f \notin given
<1>1. SUFFICES ASSUME f \in given PROVE FALSE
  OBVIOUS
<1>2. PICK p, D : Unheld(v) /\ GivenPath(tab, p, D, v) /\ Along(given, p, D)
  BY <1>1 DEF GivenTo
<1>3. v \in 0 .. Limit - 1
  BY <1>2, SpaceBelow DEF Unheld
<1>4. Typed(tab) /\ Tree(tab, T, nr) /\ Rooted(tab, T, nr) /\ Complete(Tr, maps)
  BY DEF InvAt, Tree
<1>5. PICK k \in 1 .. D : f = p[k]
  BY <1>1, <1>2 DEF Along
<1>6. f \in T /\ Nth(k - 1, v) = nr[f] /\ tab[f].lv = k
  <2>1. GivenPath(tab, p, D, v)
    BY <1>2
  <2>2. \A l \in 1 .. D : p[l] \in T /\ Nth(l - 1, v) = nr[p[l]]
    BY ONLY <1>3, <1>4, <2>1, PathNumber
  <2> QED
    BY <1>5, <2>1, <2>2 DEF GivenPath
<1>7. PICK m \in maps : m.keep
  BY DEF RingKept
<1>8. m.va \in 0 .. Limit - 1 /\ Tr[m.va].k = "page"
  <2>1. PICK h \in Holding(maps, op) : h.va = m.va /\ h.size = m.size
    BY MapHeld
  <2>2. HeldOK(Holding(maps, op), spaces, parts) /\ PoolOK(spaces, VaPool)
    BY DEF InvAt
  <2>3. h.va \in Nat /\ h.size \in Nat \ {0} /\ \A w \in h.va .. h.va + h.size - 1 : w \in 0 .. VaPool - 1
    BY <2>2, HeldBelow
  <2>4. m.va \in m.va .. m.va + m.size - 1 /\ m.va \in 0 .. VaPool - 1
    BY <2>1, <2>3
  <2> QED
    BY <1>4, <2>4, PoolBelow DEF Complete
<1>9. PICK w : w = m.va
  OBVIOUS
<1>10. Nth(tab[f].lv - 1, w) = nr[f]
  BY <1>1, <1>6, <1>7, <1>9 DEF RingNear
<1>11. PICK x : x = Idx(tab[f].lv, w)
  OBVIOUS
<1>12. x \in Slots(tab, f) /\ Nth(tab[f].lv, w) = Block(tab, nr, f, x)
  <2>1. w \in 0 .. Limit - 1
    BY <1>8, <1>9
  <2>2. /\ Idx(tab[f].lv, w) \in Slots(tab, f)
        /\ \A z \in Slots(tab, f) :
             (Nth(tab[f].lv, w) = Block(tab, nr, f, z) <=> Nth(tab[f].lv - 1, w) = nr[f] /\ Idx(tab[f].lv, w) = z)
    BY ONLY <1>4, <1>6, <2>1, BlockIs
  <2> QED
    BY <1>10, <1>11, <2>2
<1>13. tab[f].ent[x] = None
  <2>1. DOMAIN tab[f].ent = Slots(tab, f)
    BY <1>4 DEF Typed, TableOK, Slots
  <2> QED
    BY <1>12, <2>1 DEF Clear
<1>14. Trans(tab, w).k = "none"
  <2>1. w \in 0 .. Limit - 1 /\ tab[f].ent[x].k = "none"
    BY <1>8, <1>9, <1>13 DEF None
  <2> QED
    BY ONLY <1>4, <1>6, <1>12, <2>1, EntryFound
<1> QED
  BY <1>8, <1>9, <1>14, TrIs

(* A table that is given back is none of those given, and so beside the    *)
(* path.                                                                   *)
LEMMA DropBeside ==
  ASSUME Typed(tab), NEW f, f \notin given, NEW q, NEW j, TableOut(tab, tab', q, j, f), NEW v \in 0 .. Limit - 1,
         NEW p, NEW D, GivenPath(tab, p, D, v), Along(given, p, D)
  PROVE  GivenPath(tab', p, D, v)
<1>1. \A k \in 1 .. D : p[k] \in DOMAIN tab /\ tab[p[k]].lv = k /\ p[k] # f
  BY DEF GivenPath, Along
<1>2. \A k \in 1 .. D : p[k] \in DOMAIN tab' /\ tab'[p[k]].lv = tab[p[k]].lv
  BY <1>1 DEF TableOut
<1>3. ASSUME NEW k \in 1 .. D - 1 PROVE tab'[p[k]].ent[Idx(k, v)] = tab[p[k]].ent[Idx(k, v)]
  <2>1. k \in 1 .. D /\ k \in 1 .. Levels /\ k + 1 \in 1 .. D
    BY CoversIs DEF GivenPath
  <2>2. CASE p[k] # q
    BY <1>2, <2>1, <2>2 DEF TableOut
  <2>3. CASE p[k] = q
    <3>1. PICK x : x = Idx(k, v)
      OBVIOUS
    <3>2. tab[q].ent[x] = Table(p[k + 1]) /\ tab[q].lv = k
      BY <1>1, <2>1, <2>3, <3>1 DEF GivenPath
    <3>3. x # j
      <4>1. tab[q].ent[j] = Table(f) /\ Table(f).at = f /\ Table(p[k + 1]).at = p[k + 1]
        BY DEF TableOut, Table
      <4>2. p[k + 1] # f
        BY <1>1, <2>1
      <4> QED
        BY <3>2, <4>1, <4>2
    <3>4. x \in Slots(tab, q)
      <4>1. PICK l : l = k - 1
        OBVIOUS
      <4>2. l \in 0 .. Levels - 1 /\ l + 1 = k
        BY <2>1, <4>1, CoversIs
      <4>3. Idx(l + 1, v) \in 0 .. Cnt[l + 1] - 1
        BY <4>2, NthStep
      <4> QED
        BY <3>1, <3>2, <4>2, <4>3 DEF Slots
    <3> QED
      BY <2>3, <3>1, <3>3, <3>4 DEF TableOut
  <2> QED
    BY <2>2, <2>3
<1> QED
  BY <1>2, <1>3, PathStays

(* What a step has to keep: the call goes on, or it ends; and the tables   *)
(* it changes lie beside the path.                                         *)
Onward == Busy(op) /\ op'.va = op.va /\ (op'.kind = "unmap" => op.kind = "unmap")
Ended == ~Busy(op')
Beside(v) == \A p, D : Unheld(v) /\ GivenPath(tab, p, D, v) /\ Along(given, p, D) => GivenPath(tab', p, D, v)

(* The range of v is nobody's as long as no mapping begins there.          *)
LEMMA StillUnheld ==
  ASSUME NEW v, Unheld(v), \A s \in spaces : s.at = v => s \in spaces',
         \A m \in maps' : m \in maps \/ (Busy(op) /\ m.va = op.va),
         \/ Ended
         \/ Busy(op) /\ op'.va = op.va
         \/ \E m \in maps : op'.va = m.va
         \/ \A s \in spaces : s.at # op'.va
  PROVE  Unheld(v)'
<1>1. \E s \in spaces' : s.at = v
  BY DEF Unheld
<1>2. \A m \in maps' : m.va # v
  BY DEF Unheld
<1>3. Busy(op)' => op'.va # v
  BY DEF Unheld, Ended, Busy
<1> QED
  BY <1>1, <1>2, <1>3 DEF Unheld

(* The tables given stay on the way to v when a step leaves that way as it *)
(* is ...                                                                  *)
LEMMA StillGiven ==
  ASSUME NEW v, GivenTo(v), given' = given, Beside(v), Unheld(v) => Unheld(v)'
  PROVE  GivenTo(v)'
<1>1. SUFFICES ASSUME given # {} PROVE Unheld(v)' /\ \E p, D : GivenPath(tab', p, D, v) /\ Along(given', p, D)
  BY DEF GivenTo
<1>2. PICK p, D : Unheld(v) /\ GivenPath(tab, p, D, v) /\ Along(given, p, D)
  BY <1>1 DEF GivenTo
<1>3. GivenPath(tab', p, D, v) /\ Along(given', p, D)
  BY <1>2 DEF Beside
<1> QED
  BY <1>2, <1>3

(* ... as a step does that changes no table.                               *)
LEMMA SameBeside == ASSUME NEW v, tab' = tab PROVE Beside(v)
BY DEF Beside

(* The ring is kept as long as the mappings are the same.                  *)
LEMMA StillKept ==
  ASSUME RingKept, maps' = maps, op'.kind = "unmap" => op.kind = "unmap" \/ maps # {}
  PROVE  RingKept'
BY DEF RingKept

(* A call that goes on, or ends, beside the way to v.                      *)
LEMMA OnwardKeeps ==
  ASSUME NEW v, GivenTo(v), RingKept, maps' = maps, given' = given, spaces' = spaces, Beside(v), Onward \/ Ended
  PROVE  GivenTo(v)' /\ RingKept'
<1>1. Unheld(v) => Unheld(v)'
  <2>1. Ended \/ (Busy(op) /\ op'.va = op.va)
    BY DEF Onward
  <2> QED
    BY <2>1, StillUnheld
<1>2. op'.kind = "unmap" => op.kind = "unmap"
  BY DEF Onward, Ended, Busy
<1> QED
  BY <1>1, <1>2, StillGiven, StillKept

(* The steps of a call that change no table.                               *)
LEMMA GoesOn ==
  ASSUME Busy(op), IsCall(op)
  PROVE  /\ \A s : op' = [op EXCEPT !.stack = s] => Onward
         /\ \A n : op' = Advance(n) => Onward
         /\ op' = [op EXCEPT !.up = FALSE] => Onward
         /\ \A w : Fail(w) => Ended
<1>1. ASSUME NEW s, op' = [op EXCEPT !.stack = s] PROVE Onward
  BY <1>1 DEF Onward, IsCall
<1>2. ASSUME NEW n, op' = Advance(n) PROVE Onward
  BY <1>2 DEF Onward, IsCall, Advance
<1>3. ASSUME op' = [op EXCEPT !.up = FALSE] PROVE Onward
  BY <1>3 DEF Onward, IsCall
<1>4. ASSUME NEW w, Fail(w) PROVE Ended
  <2>1. op'.kind = "failed"
    BY <1>4 DEF Fail, IsCall
  <2> QED
    BY <2>1 DEF Ended, Busy
<1> QED
  BY <1>1, <1>2, <1>3, <1>4

(* The steps that change no table, mapping or range.                       *)
LEMMA QuietSteps ==
  ASSUME Inv, PallocRange \/ PallocFails \/ StartCheck \/ Check \/ StartMap \/ NextPart
  PROVE  maps' = maps /\ given' = given /\ spaces' = spaces /\ tab' = tab /\ (Onward \/ Ended)
<1>1. ASSUME Busy(op) PROVE IsCall(op)
  BY <1>1, OpIs DEF Inv, Shape
<1>2. ~Busy(Idle)
  BY IdleIs
<1>3. CASE PallocRange
  <2>1. Busy(op)
    BY <1>3 DEF PallocRange, Busy
  <2>2. PICK r : op' = [op EXCEPT !.got = Append(@, r), !.rng = Trying, !.todo = @ - r.len]
    BY <1>3 DEF PallocRange
  <2>3. Onward
    BY <1>1, <2>1, <2>2 DEF Onward, IsCall
  <2> QED
    BY <1>3, <2>3 DEF PallocRange
<1>4. CASE PallocFails
  <2>1. Busy(op)
    BY <1>4 DEF PallocFails, Busy
  <2>2. op' = Idle \/ op' = [op EXCEPT !.rng = Trying + 1]
    BY <1>4 DEF PallocFails
  <2>3. Onward \/ Ended
    <3>1. CASE op' = Idle
      BY <1>2, <3>1 DEF Ended
    <3>2. CASE op' = [op EXCEPT !.rng = Trying + 1]
      BY <1>1, <2>1, <3>2 DEF Onward, IsCall
    <3> QED
      BY <2>2, <3>1, <3>2
  <2> QED
    BY <1>4, <2>3 DEF PallocFails
<1>5. CASE StartCheck
  <2>1. op'.va = op.va /\ op'.kind = "check"
    BY <1>5 DEF StartCheck, Call
  <2> QED
    BY <1>5, <2>1 DEF StartCheck, Onward, Busy
<1>6. CASE Check
  <2>1. Busy(op)
    BY <1>6 DEF Check, Busy
  <2>2. \/ \E s : op' = [op EXCEPT !.stack = s]
        \/ \E n : op' = Advance(n)
        \/ \E w : Fail(w)
    BY <1>6 DEF Check
  <2> QED
    BY <1>1, <1>6, <2>1, <2>2, GoesOn DEF Check
<1>7. CASE StartMap
  <2>1. op'.va = op.va /\ op'.kind = "map"
    BY <1>7 DEF StartMap, Call
  <2> QED
    BY <1>7, <2>1 DEF StartMap, Onward, Busy
<1>8. CASE NextPart
  <2>1. Busy(op)
    BY <1>8 DEF NextPart, Busy
  <2>2. PICK r : op' = [op EXCEPT !.rng = r.at, !.todo = r.len, !.off = 0, !.left = Tail(@)]
    BY <1>8 DEF NextPart
  <2>3. Onward
    BY <1>1, <2>1, <2>2 DEF Onward, IsCall
  <2> QED
    BY <1>8, <2>3 DEF NextPart
<1> QED
  BY <1>3, <1>4, <1>5, <1>6, <1>7, <1>8

(* A call begins with a range that was free, or with one of a mapping's.   *)
LEMMA OpensGiven ==
  ASSUME Inv, NEW v, GivenTo(v), RingKept, NEW size \in Sizes, Valloc(size) \/ VallocContiguous(size)
  PROVE  GivenTo(v)' /\ RingKept'
<1>1. PICK va \in Places(VaPool, spaces, size, AlignOf(size)) :
        /\ spaces' = spaces \cup {[at |-> va, len |-> size]}
        /\ (op'.va = va /\ op'.kind = "alloc") \/ op' = op
  <2>1. CASE Valloc(size)
    <3>1. PICK va \in Places(VaPool, spaces, size, AlignOf(size)) :
            spaces' = spaces \cup {[at |-> va, len |-> size]} /\ op' = Call("alloc", va, size)
      BY <2>1, Zenon DEF Valloc
    <3>2. op'.va = va /\ op'.kind = "alloc"
      BY ONLY <3>1 DEF Call
    <3> QED
      BY <3>1, <3>2
  <2>2. CASE VallocContiguous(size)
    <3>1. PICK va \in Places(VaPool, spaces, size, AlignOf(size)) :
            /\ spaces' = spaces \cup {[at |-> va, len |-> size]}
            /\ \/ \E rs : op' = [Call("alloc", va, size) EXCEPT !.got = rs, !.todo = 0]
               \/ op' = op
      BY <2>2 DEF VallocContiguous
    <3>2. (op'.va = va /\ op'.kind = "alloc") \/ op' = op
      BY ONLY <3>1 DEF Call
    <3> QED
      BY <3>1, <3>2
  <2> QED
    BY <2>1, <2>2
<1>2. tab' = tab /\ maps' = maps /\ given' = given /\ op = Idle
  BY DEF Valloc, VallocContiguous
<1>3. \A s \in spaces : s.at # va
  <2>1. PoolOK(spaces, VaPool)
    BY DEF Inv, InvAt
  <2>2. VaPool \in Nat /\ size \in Nat \ {0} /\ AlignOf(size) \in Nat \ {0}
    BY PoolAssumption, SizeAssumption, AlignAssumption
  <2> QED
    BY <1>1, <2>1, <2>2, PlacesFree
<1>4. Unheld(v) => Unheld(v)'
  <2>1. op' = op => Ended
    BY <1>2, IdleIs DEF Ended
  <2>2. (op'.va = va => \A s \in spaces : s.at # op'.va) /\ \A s \in spaces : s.at = v => s \in spaces'
    BY <1>1, <1>3
  <2>3. Ended \/ \A s \in spaces : s.at # op'.va
    BY <1>1, <2>1, <2>2
  <2> QED
    BY <1>2, <2>2, <2>3, StillUnheld
<1>5. op'.kind = "unmap" => op.kind = "unmap"
  BY <1>1
<1> QED
  BY <1>2, <1>4, <1>5, StillGiven, StillKept, SameBeside

(* Before GSP-RM is given anything there is nothing to keep.               *)
LEMMA ReserveGiven ==
  ASSUME NEW v, GivenTo(v), RingKept, Reserve
  PROVE  GivenTo(v)' /\ RingKept'
<1>1. given' = {} /\ maps' = maps
  BY DEF Reserve
<1>2. op'.kind = "reserve"
  BY DEF Reserve, Call
<1> QED
  BY <1>1, <1>2, StillKept DEF GivenTo

(* The first mapping is the ring.                                          *)
LEMMA FinishMapGiven ==
  ASSUME NEW v, GivenTo(v), RingKept, FinishMap
  PROVE  GivenTo(v)' /\ RingKept'
<1>1. tab' = tab /\ given' = given /\ spaces' = spaces /\ op' = Idle /\ Busy(op)
  BY DEF FinishMap, Busy
<1>0. PICK m : m = [va |-> op.va, size |-> op.size, paddrs |-> op.got, keep |-> maps = {}] /\ maps' = maps \cup {m}
  BY DEF FinishMap
<1>2. m.va = op.va /\ m.keep = (maps = {}) /\ maps' = maps \cup {m}
  BY ONLY <1>0
<1>3. Ended
  BY <1>1, IdleIs DEF Ended
<1>4. Unheld(v) => Unheld(v)'
  BY <1>1, <1>2, <1>3, StillUnheld
<1>5. RingKept'
  BY <1>2 DEF RingKept
<1> QED
  BY <1>1, <1>4, <1>5, StillGiven, SameBeside

(* vfree() of any other mapping leaves the ring.                           *)
LEMMA VfreeGiven ==
  ASSUME NEW v, GivenTo(v), RingKept, NEW m \in maps, Vfree(m)
  PROVE  GivenTo(v)' /\ RingKept'
<1>1. tab' = tab /\ given' = given /\ spaces' = spaces /\ ~m.keep /\ maps' = maps \ {m}
  BY DEF Vfree
<1>2. op'.va = m.va
  BY DEF Vfree, Call
<1>3. Unheld(v) => Unheld(v)'
  BY <1>1, <1>2, StillUnheld
<1>4. RingKept'
  BY <1>1 DEF RingKept
<1> QED
  BY <1>1, <1>3, <1>4, StillGiven, SameBeside

(* vfree() gives back a range that is not the reserved one.                *)
LEMMA FinishUnmapGiven ==
  ASSUME NEW v, GivenTo(v), RingKept, FinishUnmap
  PROVE  GivenTo(v)' /\ RingKept'
<1>1. tab' = tab /\ given' = given /\ maps' = maps /\ op' = Idle /\ Busy(op)
      /\ spaces' = spaces \ {[at |-> op.va, len |-> op.size]}
  BY DEF FinishUnmap, Busy
<1>2. Ended
  BY <1>1, IdleIs DEF Ended
<1>3. Unheld(v) => Unheld(v)'
  <2>1. SUFFICES ASSUME Unheld(v) PROVE Unheld(v)'
    OBVIOUS
  <2>2. \A s \in spaces : s.at = v => s \in spaces'
    <3>0. PICK r : r = [at |-> op.va, len |-> op.size]
      OBVIOUS
    <3>1. r = [at |-> op.va, len |-> op.size] /\ r.at = op.va
      BY ONLY <3>0
    <3>2. op.va # v /\ spaces' = spaces \ {r}
      BY <1>1, <2>1, <3>1 DEF Unheld
    <3> QED
      BY ONLY <3>1, <3>2
  <2> QED
    BY <1>1, <1>2, <2>1, <2>2, StillUnheld
<1>4. op'.kind = "unmap" => op.kind = "unmap"
  BY <1>2 DEF Ended, Busy
<1> QED
  BY <1>1, <1>3, <1>4, StillGiven, StillKept, SameBeside

(* level_down() goes on, or ends, and what it writes is beside the path.   *)
LEMMA LevelDownGiven ==
  ASSUME NEW T, NEW nr, InvAt(T, nr), Busy(op), ~op.up, Lv # Levels, LevelDown, NEW v
  PROVE  Beside(v) /\ (Onward \/ Ended)
<1>1. IsCall(op) /\ ~Busy(Idle)
  BY OpIs, IdleIs DEF Shape
<1>2. CASE Entry.k = "table"
  <2>1. op' = [op EXCEPT !.stack = Push(Entry.at)] /\ tab' = tab
    BY <1>2 DEF LevelDown
  <2> QED
    BY <1>1, <2>1, GoesOn, SameBeside
<1>3. CASE Entry.k = "page"
  <2>1. Fail("Must be table") /\ tab' = tab
    BY <1>3 DEF LevelDown
  <2> QED
    BY <1>1, <2>1, GoesOn, SameBeside
<1>4. CASE Entry.k # "table" /\ Entry.k # "page"
  <2>1. PICK d, f, i : At(T, nr, d, f, i)
    BY WalkAt
  <2>2. CASE op' = Idle /\ tab' = tab
    BY <1>1, <2>2, SameBeside DEF Ended
  <2>3. ASSUME NEW c, MadeAt(d, f, i, c) PROVE Beside(v) /\ Onward
    <3>1. op' = [op EXCEPT !.stack = Push(c)]
      BY <2>3 DEF MadeAt
    <3>2. TableNew(tab, tab', f, i, c)
      <4>1. /\ f \in T /\ i \in Slots(tab, f) /\ tab[f].lv < Levels /\ tab[f].ent[i] = None /\ c \in Frames
            /\ c \notin DOMAIN tab /\ NewTable(tab', f, i, c) /\ InvAt(T, nr)
        BY <2>1, <2>3 DEF MadeAt, At, TopIs
      <4> QED
        BY ONLY <4>1, NewTableIs
    <3>3. Beside(v)
      <4>1. SUFFICES ASSUME NEW p, NEW D, Unheld(v), GivenPath(tab, p, D, v) PROVE GivenPath(tab', p, D, v)
        BY DEF Beside
      <4>2. v \in 0 .. Limit - 1
        BY <4>1, SpaceBelow DEF Unheld
      <4> QED
        BY <3>2, <4>1, <4>2, TableBeside
    <3> QED
      BY <1>1, <3>1, <3>3, GoesOn
  <2>4. (op' = Idle /\ tab' = tab) \/ \E c : MadeAt(d, f, i, c)
    BY <1>4, <2>1, LevelDownMakes
  <2> QED
    BY <2>2, <2>3, <2>4
<1> QED
  BY <1>2, <1>3, <1>4

(* map_range() adds tables and pages beside the way to v.                  *)
LEMMA MapGiven ==
  ASSUME Inv, NEW v, GivenTo(v), RingKept, Map
  PROVE  GivenTo(v)' /\ RingKept'
<1>1. PICK T, nr : InvAt(T, nr)
  BY DEF Inv
<1>2. /\ op.kind = "map" /\ op.todo > 0 /\ ~op.up /\ Busy(op) /\ InvAt(T, nr)
      /\ spaces' = spaces /\ maps' = maps /\ given' = given
      /\ IF TooLarge(op.rng + op.off) THEN LevelDown ELSE tab' = Filled /\ op' = Advance(Entries)
  BY <1>1 DEF Map, Turn, Busy
<1>3. Shape(op) /\ IsCall(op)
  BY <1>2, OpIs DEF Shape
<1>4. CASE TooLarge(op.rng + op.off)
  <2>1. Lv # Levels
    <3>1. op.at \in Nat /\ op.todo \in Int /\ op.rng + op.off \in Nat
      BY <1>3 DEF Shape
    <3> QED
      BY <1>2, <1>4, <3>1, LastFits
  <2>2. Beside(v) /\ (Onward \/ Ended)
    BY <1>2, <1>4, <2>1, LevelDownGiven
  <2> QED
    BY <1>2, <2>2, OnwardKeeps
<1>5. CASE ~TooLarge(op.rng + op.off)
  <2>1. tab' = Filled /\ op' = Advance(Entries)
    BY <1>2, <1>5
  <2>2. PICK S, d, f, i, n, w, new : FilledAt(T, S, nr, d, f, i, n, w, new)
    BY <1>2, <1>5, <2>1, FillsRow
  <2>3. Beside(v)
    <3>1. SUFFICES ASSUME NEW p, NEW D, Unheld(v), GivenPath(tab, p, D, v) PROVE GivenPath(tab', p, D, v)
      BY DEF Beside
    <3>2. PICK j \in Nat : MapPart(j)
      BY <1>2, MapWithin
    <3>3. At(T, nr, d, f, i) /\ n \in Nat /\ w \in Nat /\ w <= op.todo /\ RowDone(T, S, nr, d, f, i, n, w, new)
      BY <2>2 DEF FilledAt
    <3>4. op.at + w <= op.va + op.size
      <4>1. op.at + op.todo <= op.va + op.size /\ op.at \in Nat /\ op.todo \in Int /\ op.va \in Nat /\ op.size \in Nat
        BY <1>3, <3>2 DEF MapPart, Shape
      <4> QED
        BY <3>3, <4>1
    <3> QED
      BY ONLY <1>2, <3>1, <3>3, <3>4, RowBeside
  <2>4. Onward
    BY <1>2, <1>3, <2>1, GoesOn
  <2> QED
    BY <1>2, <2>3, <2>4, OnwardKeeps
<1> QED
  BY <1>4, <1>5

(* unmap_range() clears page entries, which are not on that way.           *)
LEMMA UnmapGiven ==
  ASSUME Inv, NEW v, GivenTo(v), RingKept, Unmap
  PROVE  GivenTo(v)' /\ RingKept'
<1>1. PICK T, nr : InvAt(T, nr)
  BY DEF Inv
<1>2. /\ op.kind = "unmap" /\ op.todo > 0 /\ ~op.up /\ Busy(op) /\ InvAt(T, nr)
      /\ spaces' = spaces /\ maps' = maps /\ given' = given
  BY <1>1 DEF Unmap, Turn, Busy
<1>3. Shape(op) /\ IsCall(op)
  BY <1>2, OpIs DEF Shape
<1>4. CASE GoesDown
  <2>1. Beside(v) /\ Onward
    BY <1>2, <1>3, <1>4, GoesOn, SameBeside DEF GoesDown
  <2> QED
    BY <1>2, <2>1, OnwardKeeps
<1>5. ASSUME NEW d, NEW f, NEW i, NEW n, NEW w, ClearsAt(T, nr, d, f, i, n, w) PROVE GivenTo(v)' /\ RingKept'
  <2>1. ClearableAt(T, nr, d, f, i, n, w) /\ tab' = Cleared /\ op' = Advance(Entries)
    BY <1>5 DEF ClearsAt
  <2>2. PICK S, new : ClearsKeepsRow(T, S, nr, d, f, i, n, w, new)
    BY <1>2, <2>1, ClearsWritten
  <2>3. Beside(v)
    <3>1. SUFFICES ASSUME NEW p, NEW D, Unheld(v), GivenPath(tab, p, D, v) PROVE GivenPath(tab', p, D, v)
      BY DEF Beside
    <3>2. At(T, nr, d, f, i) /\ n \in Nat /\ w \in Nat /\ w <= op.todo /\ RowDone(T, S, nr, d, f, i, n, w, new)
      BY <2>1, <2>2 DEF ClearableAt, ClearsKeepsRow
    <3>3. op.at + w <= op.va + op.size
      <4>1. op.at + op.todo = op.va + op.size /\ op.at \in Nat /\ op.todo \in Int /\ op.va \in Nat /\ op.size \in Nat
        BY <1>2, <1>3 DEF InvAt, OpOK, Shape
      <4> QED
        BY <3>2, <4>1
    <3> QED
      BY ONLY <1>2, <3>1, <3>2, <3>3, RowBeside
  <2>4. Onward
    BY <1>2, <1>3, <2>1, GoesOn
  <2> QED
    BY <1>2, <2>3, <2>4, OnwardKeeps
<1> QED
  BY <1>2, <1>1, <1>4, <1>5, UnmapTurns

(* level_up() gives back only tables that are not on it.                   *)
LEMMA LevelUpGiven ==
  ASSUME Inv, NEW v, GivenTo(v), RingKept, RingNear(v), LevelUp
  PROVE  GivenTo(v)' /\ RingKept'
<1>1. PICK T, nr : InvAt(T, nr)
  BY DEF Inv
<1>2. /\ op.up /\ Busy(op) /\ InvAt(T, nr) /\ spaces' = spaces /\ maps' = maps /\ given' = given
      /\ tab' = IF Frees THEN GiveBack ELSE tab
      /\ op' = [op EXCEPT !.stack = Pop] \/ op' = [op EXCEPT !.up = FALSE]
  BY <1>1 DEF LevelUp, Busy
<1>3. Onward
  <2>1. IsCall(op)
    BY <1>2, OpIs DEF Shape
  <2> QED
    BY <1>2, <2>1, GoesOn
<1>4. CASE ~Frees
  BY <1>2, <1>3, <1>4, OnwardKeeps, SameBeside
<1>5. CASE Frees
  <2>1. PICK d, f, i : At(T, nr, d, f, i)
    BY <1>2, WalkAt
  <2>2. f \in DOMAIN tab /\ f = Top.t /\ (d = 1 <=> f = Root)
    BY <2>1 DEF At, TopIs
  <2>3. op.kind = "unmap" /\ f # Root /\ Clear(f) /\ tab' = GiveBack /\ d # 1
    BY <1>2, <1>5, <2>2 DEF Frees
  <2>4. f \notin given
    BY <1>2, <2>2, <2>3, GivenUsed
  <2>5. PICK p, j : BackAt(T, d, f, p, j)
    BY <1>2, <2>1, <2>3, TableBack
  <2>6. Beside(v)
    <3>1. SUFFICES ASSUME NEW q, NEW D, Unheld(v), GivenPath(tab, q, D, v), Along(given, q, D) PROVE GivenPath(tab', q, D, v)
      BY DEF Beside
    <3>2. v \in 0 .. Limit - 1 /\ Typed(tab)
      BY <1>2, <3>1, SpaceBelow DEF Unheld, InvAt
    <3>3. TableOut(tab, tab', p, j, f)
      BY <2>5 DEF BackAt
    <3> QED
      BY ONLY <2>4, <3>1, <3>2, <3>3, DropBeside
  <2> QED
    BY <1>2, <1>3, <2>6, OnwardKeeps
<1> QED
  BY <1>4, <1>5

(* The stack of page_tables() is the path to the range it is for.          *)
LEMMA StackPath ==
  ASSUME NEW T, NEW nr, InvAt(T, nr), Busy(op), ~op.up
  PROVE  \E p, D : GivenPath(tab, p, D, op.at) /\ {e.t : e \in ToSet(op.stack)} = {p[k] : k \in 1 .. D}
<1>1. PICK st, D, v : st = op.stack /\ D = Len(st) /\ v = op.at
  OBVIOUS
<1>2. PICK p : p = [k \in 1 .. D |-> st[k].t]
  OBVIOUS
<1>3. /\ Typed(tab) /\ Tree(tab, T, nr) /\ Rooted(tab, T, nr) /\ Children(tab, T, nr)
      /\ Stacked(tab, T, nr, st, v) /\ v \in 0 .. Limit - 1 /\ st[D].i < Cnt[D]
  BY <1>1, OpIs DEF InvAt, Tree
<1>4. /\ D \in 1 .. Levels /\ D \in Nat \ {0} /\ st[1].t = Root /\ st \in Stacks
      /\ \A k \in 1 .. D : st[k].t \in T /\ tab[st[k].t].lv = k /\ st[k].i \in 0 .. Cnt[k]
      /\ \A k \in 1 .. D - 1 : st[k].i < Cnt[k] /\ tab[st[k].t].ent[st[k].i] = Table(st[k + 1].t)
  <2>1. Len(st) \in 1 .. Levels
    BY ONLY <1>3, StackLevels
  <2> QED
    BY <1>1, <1>3, <2>1 DEF Stacked
<1>5. \A k \in 1 .. D : Nth(k - 1, v) = nr[st[k].t]
  <2>1. PICK d, f, i : TopIs(tab, T, nr, st, v, d, f, i)
    BY <1>3, StackTop
  <2>2. d = D /\ st[d] = [t |-> f, i |-> i] /\ (i < Cnt[d] => Nth(d - 1, v) = nr[f])
    BY <1>1, <2>1 DEF TopIs
  <2>3. st[D].t = f /\ st[D].i = i
    BY ONLY <2>2
  <2>4. Nth(Len(st) - 1, v) = nr[st[Len(st)].t]
    BY <1>1, <1>3, <2>2, <2>3
  <2>5. \A k \in 1 .. Len(st) : Nth(k - 1, v) = nr[st[k].t]
    BY ONLY <1>3, <2>4, UnderStack
  <2> QED
    BY <1>1, <2>5
<1>6. ASSUME NEW k \in 1 .. D - 1 PROVE tab[p[k]].ent[Idx(k, v)] = Table(p[k + 1])
  <2>1. k \in 1 .. D /\ k + 1 \in 1 .. D /\ k \in Nat /\ k + 1 - 1 = k
    BY <1>4
  <2>2. PICK f, x, c : f = st[k].t /\ x = st[k].i /\ c = st[k + 1].t
    OBVIOUS
  <2>3. /\ f \in T /\ tab[f].lv = k /\ x \in 0 .. Cnt[k] /\ x < Cnt[k] /\ tab[f].ent[x] = Table(c)
        /\ Nth(k, v) = nr[c]
    BY <1>4, <1>5, <2>1, <2>2
  <2>4. x \in Slots(tab, f)
    <3>1. Cnt[k] \in Nat
      BY <1>4, <2>1, CoversIs
    <3> QED
      BY <2>3, <3>1 DEF Slots
  <2>5. nr[c] = Block(tab, nr, f, x)
    <3>1. Table(c).k = "table" /\ Table(c).at = c
      BY DEF Table
    <3> QED
      BY <1>3, <2>3, <2>4, <3>1 DEF Children
  <2>6. \A z \in Slots(tab, f) :
          (Nth(tab[f].lv, v) = Block(tab, nr, f, z) <=> Nth(tab[f].lv - 1, v) = nr[f] /\ Idx(tab[f].lv, v) = z)
    BY ONLY <1>3, <2>3, BlockIs
  <2>7. Idx(k, v) = x
    BY <2>3, <2>4, <2>5, <2>6
  <2> QED
    BY <1>2, <2>1, <2>2, <2>3, <2>7
<1>7. GivenPath(tab, p, D, v)
  <2>1. \A k \in 1 .. D : p[k] \in DOMAIN tab /\ tab[p[k]].lv = k
    BY <1>2, <1>3, <1>4 DEF Rooted
  <2>2. p[1] = Root
    BY <1>2, <1>4
  <2> QED
    BY <1>4, <1>6, <2>1, <2>2 DEF GivenPath
<1>8. {e.t : e \in ToSet(st)} = {p[k] : k \in 1 .. D}
  <2>1. DOMAIN st = 1 .. D
    <3> HIDE DEF Spots
    <3> QED
      BY <1>1, <1>4 DEF Stacks
  <2>2. ToSet(st) = {st[k] : k \in 1 .. D}
    BY <2>1 DEF ToSet
  <2> QED
    BY <1>2, <2>2
<1> QED
  <2>1. op.stack = st /\ op.at = v
    BY ONLY <1>1
  <2>2. GivenPath(tab, p, D, op.at)
    BY ONLY <1>7, <2>1
  <2>3. {e.t : e \in ToSet(op.stack)} = {p[k] : k \in 1 .. D}
    BY ONLY <1>8, <2>1
  <2> QED
    BY ONLY <2>2, <2>3

(* page_tables() hands out the tables on its stack, which is the way to v. *)
LEMMA DescendGiven ==
  ASSUME Inv, NEW v, GivenTo(v), RingKept, Descend, given' # given => op.va = v
  PROVE  GivenTo(v)' /\ RingKept'
<1>1. PICK T, nr : InvAt(T, nr)
  BY DEF Inv
<1>2. /\ op.kind = "reserve" /\ Busy(op) /\ InvAt(T, nr) /\ spaces' = spaces /\ maps' = maps
      /\ IF TooLarge(0) THEN LevelDown /\ given' = given
         ELSE given' = {e.t : e \in ToSet(op.stack)} /\ op' = Idle /\ tab' = tab
  BY <1>1 DEF Descend, Busy
<1>3. Shape(op) /\ OpOK(op, Tr, given) /\ [at |-> op.va, len |-> op.size] \in spaces
  BY <1>2, OpIs DEF InvAt
<1>4. given = {} /\ op.at = op.va /\ op.todo = Reserved /\ ~op.up /\ maps = {}
  <2>1. given = {} /\ op.at = op.va /\ op.todo = Reserved /\ ~op.up
    BY <1>2, <1>3 DEF OpOK
  <2>2. Blank(Tr, maps)
    BY <1>2, <2>1 DEF InvAt
  <2> QED
    BY <2>1, <2>2 DEF Blank
<1>5. CASE TooLarge(0)
  <2>1. Lv # Levels
    <3>1. op.at \in Nat /\ op.todo \in Int /\ op.todo > 0 /\ 0 \in Nat
      BY <1>3, <1>4, SizeAssumption DEF Shape
    <3> QED
      BY <1>5, <3>1, LastFits
  <2>2. Beside(v) /\ (Onward \/ Ended)
    BY <1>2, <1>4, <1>5, <2>1, LevelDownGiven
  <2>3. given' = given
    BY <1>2, <1>5
  <2> QED
    BY <1>2, <2>2, <2>3, OnwardKeeps
<1>6. CASE ~TooLarge(0)
  <2>1. given' = {e.t : e \in ToSet(op.stack)} /\ op' = Idle /\ tab' = tab
    BY <1>2, <1>6
  <2>2. Ended
    BY <2>1, IdleIs DEF Ended
  <2>3. PICK p, D : GivenPath(tab, p, D, op.at) /\ {e.t : e \in ToSet(op.stack)} = {p[k] : k \in 1 .. D}
    BY <1>2, <1>4, StackPath
  <2>4. SUFFICES ASSUME given' # {} PROVE GivenTo(v)' /\ RingKept'
    <3>1. op'.kind = "unmap" => op.kind = "unmap"
      BY <2>2 DEF Ended, Busy
    <3>2. RingKept'
      BY <1>2, <3>1, StillKept
    <3> QED
      BY <3>2 DEF GivenTo
  <2>5. op.va = v
    BY <1>4, <2>4
  <2>6. GivenPath(tab', p, D, v) /\ Along(given', p, D)
    BY <1>4, <2>1, <2>3, <2>5 DEF Along
  <2>7. Unheld(v)'
    <3>1. \E s \in spaces : s.at = v
      <4>1. PICK s : s = [at |-> op.va, len |-> op.size]
        OBVIOUS
      <4>2. s.at = op.va
        BY ONLY <4>1
      <4> QED
        BY <1>3, <2>5, <4>1, <4>2
    <3> QED
      BY <1>2, <1>4, <2>2, <3>1 DEF Unheld, Ended, Busy
  <2>8. op'.kind = "unmap" => op.kind = "unmap"
    BY <2>2 DEF Ended, Busy
  <2>9. RingKept'
    BY <1>2, <2>8, StillKept
  <2> QED
    BY <2>6, <2>7, <2>9 DEF GivenTo
<1> QED
  BY <1>5, <1>6

(* GSP-RM is given the tables of the range of v.                           *)
GivesFor(v) == given' # given => op.va = v

(* Each step keeps the tables given and the ring.                          *)
LEMMA StepGiven ==
  ASSUME NEW v, Inv, GivenTo(v), RingKept, RingNear(v), [Next]_vars, [GivesFor(v)]_vars
  PROVE  GivenTo(v)' /\ RingKept'
<1>1. ASSUME NEW size \in Sizes, Valloc(size) \/ VallocContiguous(size) PROVE GivenTo(v)' /\ RingKept'
  BY <1>1, OpensGiven
<1>2. CASE PallocRange \/ PallocFails \/ StartCheck \/ Check \/ StartMap \/ NextPart
  BY <1>2, QuietSteps, SameBeside, OnwardKeeps
<1>3. CASE Map
  BY <1>3, MapGiven
<1>4. CASE FinishMap
  BY <1>4, FinishMapGiven
<1>5. CASE Reserve
  BY <1>5, ReserveGiven
<1>6. CASE Descend
  <2>1. given' # given => op.va = v
    BY DEF GivesFor, vars
  <2> QED
    BY <1>6, <2>1, DescendGiven
<1>7. ASSUME NEW m \in maps, Vfree(m) PROVE GivenTo(v)' /\ RingKept'
  BY <1>7, VfreeGiven
<1>8. CASE Unmap
  BY <1>8, UnmapGiven
<1>9. CASE FinishUnmap
  BY <1>9, FinishUnmapGiven
<1>10. CASE LevelUp
  BY <1>10, LevelUpGiven
<1>11. CASE UNCHANGED vars
  BY <1>11 DEF vars, GivenTo, Unheld, RingKept, Busy
<1> QED
  BY <1>1, <1>2, <1>3, <1>4, <1>5, <1>6, <1>7, <1>8, <1>9, <1>10, <1>11 DEF Next

(* GSP-RM's copies of the upper levels stay true: when the ring of the     *)
(* golden image's channel, which nobody frees, lies under the tables that  *)
(* page_tables() returned, _try_free_pt() never gives one of them back.    *)
THEOREM GivenTablesKept ==
  ASSUME NEW v
  PROVE  Spec /\ [][GivesFor(v)]_vars /\ []RingNear(v) => []GivenKept
<1>1. Init => GivenTo(v) /\ RingKept
  BY DEF Init, Idle, GivenTo, RingKept
<1>2. Inv /\ (GivenTo(v) /\ RingKept) /\ RingNear(v) /\ [Next]_vars /\ [GivesFor(v)]_vars => (GivenTo(v) /\ RingKept)'
  BY StepGiven
<1>3. Inv /\ GivenTo(v) => GivenKept
  <2>1. SUFFICES ASSUME Inv, GivenTo(v), given # {} PROVE GivenKept
    BY DEF GivenKept
  <2>2. PICK T, nr : InvAt(T, nr)
    BY <2>1 DEF Inv
  <2>3. PICK p, D : Unheld(v) /\ GivenPath(tab, p, D, v) /\ Along(given, p, D)
    BY <2>1 DEF GivenTo
  <2>4. v \in 0 .. Limit - 1 /\ Typed(tab)
    BY <2>2, <2>3, SpaceBelow DEF Unheld, InvAt
  <2> QED
    BY <2>3, <2>4, PathGivesKept
<1> QED
  BY <1>1, <1>2, <1>3, PageTablesInvariant, PTL DEF Spec
=============================================================================
