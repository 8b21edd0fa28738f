----------------------------- MODULE Residues ------------------------------
(* Remainders: the arithmetic of counters that wrap, and of the rings that *)
(* such counters index.                                                    *)
EXTENDS Integers, TLAPS

\* Division with remainder, and the remainder is unique.
LEMMA Division ==
  ASSUME NEW a \in Int, NEW u \in Nat \ {0}
  PROVE  a \div u \in Int /\ a % u \in 0 .. u - 1 /\ a = u * (a \div u) + (a % u)
  OBVIOUS

LEMMA MulGrows == ASSUME NEW u \in Nat \ {0}, NEW k \in Int, k >= 1 PROVE u * k >= u
  OBVIOUS

LEMMA MulShrinks == ASSUME NEW u \in Nat \ {0}, NEW k \in Int, k <= -1 PROVE u * k <= -u
  OBVIOUS

LEMMA Small == ASSUME NEW u \in Nat \ {0}, NEW k \in Int, u * k < u, u * k > -u PROVE k = 0
  BY MulGrows, MulShrinks

LEMMA Residue ==
  ASSUME NEW u \in Nat \ {0}, NEW q \in Int, NEW r \in 0 .. u - 1, NEW a \in Int, a = u * q + r
  PROVE  a % u = r
<1>1. PICK k \in Int, s \in 0 .. u - 1 : a = u * k + s /\ s = a % u
  BY Division
<1>2. u * (q - k) = u * q - u * k /\ q - k \in Int
  OBVIOUS
<1>3. u * (q - k) = s - r
  BY <1>1, <1>2
<1>4. u * (q - k) < u /\ u * (q - k) > -u
  BY <1>1, <1>3
<1>5. q - k = 0
  BY <1>2, <1>4, Small
<1>6. q = k
  BY <1>1, <1>5
<1>7. u * (q - k) = 0
  BY <1>5
<1>8. s = r
  BY <1>3, <1>7
<1>9. s = a % u
  BY <1>1
<1> QED
  BY <1>8, <1>9, Zenon

\* Adding a multiple of u, and being below u.
LEMMA ResidueShift ==
  ASSUME NEW u \in Nat \ {0}, NEW a \in Int, NEW m \in Int
  PROVE  (a + u * m) % u = a % u
<1>1. PICK k \in Int, s \in 0 .. u - 1 : a = u * k + s /\ s = a % u
  BY Division
<1>2. PICK b \in Int : b = a + u * m
  OBVIOUS
<1>a. a = u * k + s
  BY <1>1
<1>3. b = u * (k + m) + s /\ k + m \in Int
  BY <1>a, <1>2
<1>4. b % u = s
  BY <1>3, Residue
<1>5. s = a % u
  BY <1>1
<1> QED
  BY <1>2, <1>4, <1>5, Zenon

LEMMA ResidueSmall ==
  ASSUME NEW u \in Nat \ {0}, NEW a \in 0 .. u - 1 PROVE a % u = a
<1>1. a = u * 0 + a
  OBVIOUS
<1> QED
  BY <1>1, Residue

\* Numbers less than u apart have different remainders.
LEMMA ResidueDiffers ==
  ASSUME NEW u \in Nat \ {0}, NEW a \in Int, NEW d \in 1 .. u - 1
  PROVE  (a + d) % u # a % u
<1> SUFFICES ASSUME (a + d) % u = a % u PROVE FALSE
  OBVIOUS
<1>1. PICK k \in Int, s \in 0 .. u - 1 : a = u * k + s /\ s = a % u
  BY Division
<1>b. PICK b \in Int : b = a + d
  OBVIOUS
<1>2. PICK j \in Int, t \in 0 .. u - 1 : b = u * j + t /\ t = b % u
  BY Division
<1>e. t = s
  BY <1>1, <1>b, <1>2, Zenon
<1>3. u * (j - k) = u * j - u * k /\ j - k \in Int
  OBVIOUS
<1>4. u * (j - k) = d
  BY <1>1, <1>b, <1>2, <1>3, <1>e
<1>5. j - k = 0
  BY <1>3, <1>4, Small
<1>6. u * 0 = 0
  OBVIOUS
<1> QED
  BY <1>4, <1>5, <1>6

LEMMA ResidueWrap ==
  ASSUME NEW u \in Nat \ {0}, NEW a \in Int PROVE (a + u) % u = a % u
<1>1. 1 \in Int /\ u * 1 = u
  OBVIOUS
<1>2. (a + u * 1) % u = a % u
  BY <1>1, ResidueShift, Zenon
<1> QED
  BY <1>1, <1>2, Zenon

\* Addition to a counter below u wraps once at most.
LEMMA Wraps ==
  ASSUME NEW u \in Nat \ {0}, NEW n \in 0 .. u - 1, NEW d \in 0 .. u - 1
  PROVE  (n + d) % u = IF n + d < u THEN n + d ELSE n + d - u
<1>1. CASE n + d < u
  <2>1. n + d \in 0 .. u - 1
    BY <1>1
  <2>2. (n + d) % u = n + d
    BY <2>1, ResidueSmall
  <2> QED
    BY <1>1, <2>2
<1>2. CASE ~(n + d < u)
  <2>1. PICK k \in 0 .. u - 1 : k = n + d - u
    BY <1>2
  <2>2. n + d = k + u
    BY <2>1
  <2>3. (k + u) % u = k % u
    BY k \in Int, ResidueWrap, Zenon
  <2>4. k % u = k
    BY ResidueSmall
  <2>5. (n + d) % u = k
    BY <2>2, <2>3, <2>4, Zenon
  <2> QED
    BY <1>2, <2>1, <2>5
<1> QED
  BY <1>1, <1>2

\* How far a counter r is behind a counter w
LEMMA Distance ==
  ASSUME NEW u \in Nat \ {0}, NEW r \in 0 .. u - 1, NEW w \in 0 .. u - 1
  PROVE  /\ (w - r) % u \in 0 .. u - 1
         /\ (w - r) % u = IF w >= r THEN w - r ELSE w - r + u
<1>1. CASE w >= r
  <2>1. w - r \in 0 .. u - 1
    BY <1>1
  <2>2. (w - r) % u = w - r
    BY <2>1, ResidueSmall
  <2> QED
    BY <1>1, <2>1, <2>2
<1>2. CASE ~(w >= r)
  <2>1. PICK k \in 0 .. u - 1 : k = w - r + u
    BY <1>2
  <2>2. PICK a \in Int : a = w - r
    OBVIOUS
  <2>3. k = a + u
    BY <2>1, <2>2
  <2>4. k % u = k
    BY ResidueSmall
  <2>5. (a + u) % u = a % u
    BY ResidueWrap
  <2>6. (w - r) % u = k
    BY <2>2, <2>3, <2>4, <2>5, Zenon
  <2> QED
    BY <1>2, <2>1, <2>6
<1> QED
  BY <1>1, <1>2

\* If u is a multiple of the size of a ring, a counter that wraps at u does not
\* move in the ring when it wraps.
LEMMA SameSlot ==
  ASSUME NEW u \in Nat, NEW size \in Nat \ {0}, u % size = 0, NEW a \in Int
  PROVE  (a + u) % size = a % size
<1>1. PICK m \in Int : u = size * m
  <2>1. u \div size \in Int /\ u = size * (u \div size) + (u % size)
    BY Division
  <2>2. PICK q \in Int : u = size * q + 0
    BY <2>1, Zenon
  <2> QED
    BY <2>2
<1> QED
  BY <1>1, ResidueShift, Zenon

LEMMA Multiple ==
  ASSUME NEW size \in Nat \ {0}, NEW m \in Nat PROVE (size * m) % size = 0
<1>1. size * m \in Int /\ size * m = size * m + 0 /\ 0 \in 0 .. size - 1 /\ m \in Int
  OBVIOUS
<1> QED
  BY <1>1, Residue
=============================================================================
