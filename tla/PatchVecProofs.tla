--------------------------- MODULE PatchVecProofs ---------------------------
(***************************************************************************)
(* What the operators of PatchVec return, for every size of addresses, and *)
(* those of PchtxtText, for every string.  Their CHOOSEs pick a least or a *)
(* greatest number; that there is one is the well-foundedness of the       *)
(* naturals, here in the form LeastOf.                                     *)
(***************************************************************************)
EXTENDS PchtxtText, WellFoundedInduction, TLAPS

LEMMA LeastOf ==
    ASSUME NEW S \in SUBSET Nat, S # {}
    PROVE  \E m \in S : \A k \in S : m <= k
<1>1. IsWellFoundedOn(OpToRel(<, Nat), Nat)
    BY NatLessThanWellFounded
<1>2. PICK m \in S : \A k \in S : ~(<<k, m>> \in OpToRel(<, Nat))
    BY <1>1, WFMin
<1>3. \A k \in S : ~(k < m)
    BY <1>2 DEF OpToRel
<1>. QED
    BY <1>3

LEMMA GreatestOf ==
    ASSUME NEW top \in Nat, NEW S \in SUBSET (0..top), S # {}
    PROVE  \E m \in S : \A k \in S : k <= m
<1> DEFINE U == {n \in Nat : \A k \in S : k <= n}
<1>1. top \in U
    OBVIOUS
<1>2. PICK n \in U : \A k \in U : n <= k
    BY <1>1, LeastOf
<1>3. CASE n \in S
    BY <1>3
<1>4. CASE n \notin S
    <2>1. \A k \in S : k \in Nat /\ k <= n /\ k # n
        BY <1>4
    <2>2. n # 0
        <3>1. PICK k \in S : TRUE
            OBVIOUS
        <3>. QED
            BY <2>1, <3>1
    <2>3. n - 1 \in U
        BY <2>1, <2>2
    <2>. QED
        BY <1>2, <2>3
<1>. QED
    BY <1>3, <1>4

\* Induction over the naturals, for the numbers a set holds.
LEMMA Induction ==
    ASSUME NEW S \in SUBSET Nat, 0 \in S, \A n \in S : n + 1 \in S
    PROVE  S = Nat
<1> DEFINE Bad == Nat \ S
<1> SUFFICES ASSUME Bad # {} PROVE FALSE
    OBVIOUS
<1>1. PICK m \in Bad : \A n \in Bad : m <= n
    BY LeastOf
<1>2. m \in Nat /\ m \notin S /\ m # 0
    OBVIOUS
<1>3. m - 1 \in Nat /\ ~(m <= m - 1) /\ (m - 1) + 1 = m
    BY <1>2
<1>4. m - 1 \in S
    BY <1>1, <1>3
<1>. QED
    BY <1>2, <1>3, <1>4

-----------------------------------------------------------------------------
(* Addresses.                                                              *)

LEMMA SmallRemainder ==
    ASSUME NEW m \in Nat, NEW a \in Nat, a <= m
    PROVE  a % (m + 1) = a
  OBVIOUS

LEMMA WholeRemainder ==
    ASSUME NEW m \in Nat
    PROVE  (m + 1) % (m + 1) = 0
  OBVIOUS

\* Addition reaches the address after the last one as 0.
LEMMA PlusIs ==
    ASSUME NEW a \in Nat, NEW n \in Nat, a + n <= Top + 1
    PROVE  Plus(a, n) = IF a + n = Top + 1 THEN 0 ELSE a + n
<1>. USE TopIsNat
<1>1. CASE a + n = Top + 1
    BY <1>1, WholeRemainder DEF Plus
<1>2. CASE a + n # Top + 1
    <2>1. a + n \in Nat /\ a + n <= Top
        BY <1>2
    <2>. QED
        BY <1>2, <2>1, SmallRemainder DEF Plus
<1>. QED
    BY <1>1, <1>2

-----------------------------------------------------------------------------
(* The hunk iterator.                                                      *)

LEMMA NextBaseIs ==
    ASSUME NEW data, DOMAIN data \subseteq Addresses, NEW from \in Nat, Remaining(data, from) # {}
    PROVE  /\ NextBase(data, from) \in DOMAIN data
           /\ NextBase(data, from) >= from
           /\ \A a \in DOMAIN data : a >= from => NextBase(data, from) <= a
<1> DEFINE R == Remaining(data, from)
<1>1. R \in SUBSET Nat
    BY TopIsNat DEF Remaining, Addresses
<1>2. \E a \in R : \A b \in R : a <= b
    BY <1>1, LeastOf
<1>3. NextBase(data, from) \in R /\ \A b \in R : NextBase(data, from) <= b
    BY <1>2 DEF NextBase
<1>. QED
    BY <1>3 DEF Remaining

LEMMA HunkLengthIs ==
    ASSUME NEW data, NEW base \in Nat, base \in DOMAIN data, NEW max \in Nat, max > 0
    PROVE  LET n == HunkLength(data, base, max)
           IN  /\ n \in 1..max
               /\ \A a \in base..(base + n - 1) : a \in DOMAIN data
               /\ n = max \/ base + n \notin DOMAIN data
<1> DEFINE S == {n \in 1..max : n = max \/ base + n \notin DOMAIN data}
<1>1. S \in SUBSET Nat /\ max \in S
    OBVIOUS
<1>2. PICK m \in S : \A k \in S : m <= k
    BY <1>1, LeastOf
<1>3. \A a \in base..(base + m - 1) : a \in DOMAIN data
    <2>1. TAKE a \in base..(base + m - 1)
    <2>2. CASE a = base
        BY <2>2
    <2>3. CASE a # base
        <3>1. a - base \in 1..max /\ a - base < m
            BY <2>3
        <3>2. a - base \notin S
            BY <1>2, <3>1
        <3>. QED
            BY <3>1, <3>2
    <2>. QED
        BY <2>2, <2>3
<1>4. \E n \in 1..max : /\ base..(base + n - 1) \subseteq DOMAIN data
                        /\ n = max \/ base + n \notin DOMAIN data
    BY <1>2, <1>3
<1>. QED
    BY <1>4 DEF HunkLength

\* The bytes h of the patch from base on, none of them past the last address.
IsHunkOf(d, base, max, h) ==
    /\ h \in Seq(Bytes)
    /\ Len(h) \in 1..max
    /\ base + Len(h) <= Top + 1
    /\ \A i \in 1..Len(h) : base + i - 1 \in DOMAIN d /\ h[i] = d[base + i - 1]
    /\ Len(h) = max \/ base + Len(h) \notin DOMAIN d

LEMMA HunkIs ==
    ASSUME NEW d, IsPatchVec(d), NEW base \in DOMAIN d, NEW max \in Nat, max > 0
    PROVE  IsHunkOf(d, base, max, Hunk(d, base, max))
<1>. USE TopIsNat
<1> DEFINE n == HunkLength(d, base, max)
<1>1. base \in Nat
    BY DEF IsPatchVec, Addresses
<1>2. /\ n \in 1..max
      /\ \A a \in base..(base + n - 1) : a \in DOMAIN d
      /\ n = max \/ base + n \notin DOMAIN d
    BY <1>1, HunkLengthIs
<1>. HIDE DEF n
<1>3. \A i \in 1..n : base + i - 1 \in DOMAIN d /\ d[base + i - 1] \in Bytes
    BY <1>1, <1>2 DEF IsPatchVec
<1> DEFINE h == Hunk(d, base, max)
<1>4. h = [i \in 1..n |-> d[base + i - 1]]
    BY DEF Hunk, n
<1>. HIDE DEF h
<1>5. h \in Seq(Bytes) /\ Len(h) = n
    BY <1>2, <1>3, <1>4
<1>6. base + n - 1 \in Addresses
    <2>1. base + n - 1 \in DOMAIN d
        BY <1>1, <1>2
    <2>. QED
        BY <2>1 DEF IsPatchVec
<1>. QED
    BY <1>1, <1>2, <1>3, <1>4, <1>5, <1>6 DEF Addresses, IsHunkOf, h

-----------------------------------------------------------------------------
(* What put does, when no two of its bytes meet at an address.             *)

\* The first n bytes from an address on meet nowhere.
Distinct(address, n) ==
    \A i, j \in 1..n : Plus(address, i - 1) = Plus(address, j - 1) => i = j

Span(address, n) == {Plus(address, i - 1) : i \in 1..n}

\* q is p with the n bytes written over it from an address on.
PutOver(p, q, address, bytes, n) ==
    /\ q = [a \in DOMAIN q |-> q[a]]
    /\ DOMAIN q = DOMAIN p \cup Span(address, n)
    /\ \A i \in 1..n : q[Plus(address, i - 1)] = bytes[i]
    /\ \A a \in DOMAIN p : a \notin Span(address, n) => q[a] = p[a]

LEMMA PutIs ==
    ASSUME NEW p, NEW address, NEW bytes, NEW n \in Nat, DOMAIN bytes = 1..n, Distinct(address, n)
    PROVE  PutOver(p, Put(p, address, bytes), address, bytes, n)
<1> DEFINE latest(a) == CHOOSE i \in DOMAIN bytes :
                            /\ Plus(address, i - 1) = a
                            /\ \A j \in DOMAIN bytes : Plus(address, j - 1) = a => j <= i
           written == {Plus(address, i - 1) : i \in DOMAIN bytes}
           q == [a \in DOMAIN p \cup written |-> IF a \in written THEN bytes[latest(a)] ELSE p[a]]
<1>1. \A i \in 1..n : latest(Plus(address, i - 1)) = i
    <2>1. TAKE i \in 1..n
    <2>2. \A j \in DOMAIN bytes : Plus(address, j - 1) = Plus(address, i - 1) => j <= i
        BY DEF Distinct
    <2>3. LET l == latest(Plus(address, i - 1))
          IN  l \in DOMAIN bytes /\ Plus(address, l - 1) = Plus(address, i - 1)
        BY <2>2
    <2>. QED
        BY <2>3 DEF Distinct
<1>. HIDE DEF latest
<1>2. \A i \in 1..n : q[Plus(address, i - 1)] = bytes[i]
    BY <1>1
<1>3. /\ q = [a \in DOMAIN q |-> q[a]]
      /\ DOMAIN q = DOMAIN p \cup Span(address, n)
      /\ \A a \in DOMAIN p : a \notin Span(address, n) => q[a] = p[a]
    BY DEF Span
<1>4. Put(p, address, bytes) = q
    BY DEF Put, latest
<1>. HIDE DEF q
<1>. QED
    BY <1>2, <1>3, <1>4 DEF PutOver

-----------------------------------------------------------------------------
(* Values made one after the other: given what each is made of the one     *)
(* before it, there is a function of them all.                             *)

Follow(g, first, step, n) ==
    g[0] = first /\ \A m \in 1..n : g[m] = step[m][g[m - 1]]

LEMMA ThereIsARow ==
    ASSUME NEW X, NEW first \in X, NEW step \in [Nat -> [X -> X]], NEW n \in Nat
    PROVE  \E g \in [0..n -> X] : Follow(g, first, step, n)
<1> DEFINE S == {k \in Nat : \E g \in [0..k -> X] : Follow(g, first, step, k)}
<1>1. 0 \in S
    <2>1. [m \in 0..0 |-> first] \in [0..0 -> X] /\ Follow([m \in 0..0 |-> first], first, step, 0)
        BY DEF Follow
    <2>. QED
        BY <2>1
<1>2. ASSUME NEW k \in S PROVE k + 1 \in S
    <2>1. PICK g \in [0..k -> X] : Follow(g, first, step, k)
        OBVIOUS
    <2> DEFINE h == [m \in 0..(k + 1) |-> IF m = k + 1 THEN step[k + 1][g[k]] ELSE g[m]]
    <2>2. k \in Nat /\ k \in 0..k /\ 0 \in 0..k
        OBVIOUS
    <2>3. g[k] \in X /\ step[k + 1] \in [X -> X] /\ step[k + 1][g[k]] \in X
        BY <2>2
    <2>4. h \in [0..(k + 1) -> X]
        BY <2>2, <2>3
    <2>5. \A m \in 0..k : h[m] = g[m]
        BY <2>2
    <2>6. h[k + 1] = step[k + 1][h[k]]
        BY <2>2
    <2> HIDE DEF h
    <2>7. ASSUME NEW m \in 1..(k + 1) PROVE h[m] = step[m][h[m - 1]]
        <3>1. CASE m = k + 1
            <4>1. m - 1 = k
                BY <3>1, <2>2
            <4>. QED
                BY <3>1, <4>1, <2>6
        <3>2. CASE m # k + 1
            <4>1. m \in 1..k /\ m \in 0..k /\ m - 1 \in 0..k
                BY <3>2, <2>2
            <4>. QED
                BY <4>1, <2>1, <2>5 DEF Follow
        <3>. QED
            BY <3>1, <3>2
    <2>8. h[0] = first
        BY <2>1, <2>2, <2>5 DEF Follow
    <2>9. Follow(h, first, step, k + 1)
        BY <2>7, <2>8 DEF Follow
    <2>. QED
        BY <2>2, <2>4, <2>9
<1> HIDE DEF S
<1>3. S \in SUBSET Nat
    BY DEF S
<1>4. S = Nat
    BY <1>1, <1>2, <1>3, Induction
<1>. QED
    BY <1>4 DEF S

-----------------------------------------------------------------------------
(* Sequences of any elements.                                              *)

LEMMA ConcatIs ==
    ASSUME NEW T, NEW s \in Seq(T), NEW t \in Seq(T)
    PROVE  /\ s \o t \in Seq(T) /\ Len(s \o t) = Len(s) + Len(t)
           /\ \A k \in 1..Len(s) : (s \o t)[k] = s[k]
           /\ \A k \in 1..Len(t) : (s \o t)[Len(s) + k] = t[k]
  OBVIOUS

LEMMA SameSequence ==
    ASSUME NEW T, NEW s \in Seq(T), NEW t \in Seq(T), Len(s) = Len(t),
           \A k \in 1..Len(s) : s[k] = t[k]
    PROVE  s = t
  OBVIOUS

-----------------------------------------------------------------------------
(* FlattenSeq.                                                             *)

Flattens(s, f) == f = [i \in 1..Len(s) |-> IF i = 1 THEN s[i] ELSE f[i - 1] \o s[i]]

LEMMA FlattenIs ==
    ASSUME NEW T, NEW s \in Seq(Seq(T)), s # <<>>
    PROVE  \E f \in [1..Len(s) -> Seq(T)] : Flattens(s, f) /\ FlattenSeq(s) = f[Len(s)]
<1> DEFINE n == Len(s)
           step == [m \in Nat |-> [x \in Seq(T) |-> IF m \in 2..n THEN x \o s[m] ELSE s[1]]]
<1>1. n \in Nat /\ n # 0 /\ \A i \in 1..n : s[i] \in Seq(T)
    OBVIOUS
<1>2. step \in [Nat -> [Seq(T) -> Seq(T)]]
    <2>1. ASSUME NEW m \in Nat, NEW x \in Seq(T)
          PROVE  (IF m \in 2..n THEN x \o s[m] ELSE s[1]) \in Seq(T)
        <3>1. CASE m \in 2..n
            <4>1. s[m] \in Seq(T)
                BY <3>1, <1>1
            <4>2. \A y \in Seq(T) : x \o y \in Seq(T)
                OBVIOUS
            <4>. QED
                BY <3>1, <4>1, <4>2
        <3>2. CASE m \notin 2..n
            BY <3>2, <1>1
        <3>. QED
            BY <3>1, <3>2
    <2>. QED
        BY <2>1
<1>3. PICK g \in [0..n -> Seq(T)] : Follow(g, <<>>, step, n)
    <2> HIDE DEF step, n
    <2>1. <<>> \in Seq(T)
        OBVIOUS
    <2>. QED
        BY <1>1, <1>2, <2>1, ThereIsARow
<1> DEFINE f == [i \in 1..n |-> g[i]]
<1>4. Flattens(s, f)
    <2>1. ASSUME NEW i \in 1..n PROVE f[i] = IF i = 1 THEN s[i] ELSE f[i - 1] \o s[i]
        <3>1. g[i] = step[i][g[i - 1]]
            BY <1>3 DEF Follow
        <3>2. i \in Nat /\ i - 1 \in 0..n /\ g[i - 1] \in Seq(T)
            <4> HIDE DEF n, step, f
            <4>1. n \in Nat
                BY <1>1
            <4>2. i \in Nat /\ i - 1 \in 0..n
                BY <4>1
            <4>. QED
                BY <4>2
        <3>3. g[i] = IF i \in 2..n THEN g[i - 1] \o s[i] ELSE s[1]
            BY <3>1, <3>2
        <3>4. CASE i = 1
            BY <3>3, <3>4
        <3>5. CASE i # 1
            <4>1. i \in 2..n /\ i - 1 \in 1..n
                BY <3>5
            <4>. QED
                BY <3>3, <3>5, <4>1
        <3>. QED
            BY <3>4, <3>5
    <2>. QED
        BY <2>1 DEF Flattens
<1>5. f \in [1..n -> Seq(T)]
    BY <1>1
<1> DEFINE F == CHOOSE h : Flattens(s, h)
<1> HIDE DEF f
<1>6. Flattens(s, F)
    BY <1>4
<1>7. FlattenSeq(s) = F[n]
    BY <1>1 DEF FlattenSeq, Flattens
<1> HIDE DEF F
<1>8. \A i \in 1..n : F[i] = f[i]
    <2> DEFINE S == {k \in Nat : k \in 1..n => F[k] = f[k]}
    <2>1. 0 \in S
        OBVIOUS
    <2>2. ASSUME NEW k \in S PROVE k + 1 \in S
        <3>1. SUFFICES ASSUME k + 1 \in 1..n PROVE F[k + 1] = f[k + 1]
            OBVIOUS
        <3>2. /\ F[k + 1] = IF k + 1 = 1 THEN s[k + 1] ELSE F[(k + 1) - 1] \o s[k + 1]
              /\ f[k + 1] = IF k + 1 = 1 THEN s[k + 1] ELSE f[(k + 1) - 1] \o s[k + 1]
            BY <1>4, <1>6, <3>1 DEF Flattens
        <3>3. CASE k = 0
            BY <3>2, <3>3
        <3>4. CASE k # 0
            <4>1. k \in 1..n /\ (k + 1) - 1 = k /\ k + 1 # 1
                BY <3>1, <3>4
            <4>2. F[k] = f[k]
                BY <4>1
            <4>. QED
                BY <3>2, <4>1, <4>2
        <3>. QED
            BY <3>3, <3>4
    <2> HIDE DEF S
    <2>3. S \in SUBSET Nat
        BY DEF S
    <2>4. S = Nat
        BY <2>1, <2>2, <2>3, Induction
    <2>. QED
        BY <2>4, SMTT(20) DEF S
<1>9. n \in 1..n
    BY <1>1
<1>. QED
    BY <1>4, <1>5, <1>7, <1>8, <1>9

LEMMA FlattenNone == FlattenSeq(<<>>) = <<>>
    BY DEF FlattenSeq

LEMMA FlattenType ==
    ASSUME NEW T, NEW s \in Seq(Seq(T))
    PROVE  FlattenSeq(s) \in Seq(T)
<1>1. CASE s = <<>>
    <2>1. <<>> \in Seq(T)
        OBVIOUS
    <2>. QED
        BY <1>1, <2>1, FlattenNone
<1>2. CASE s # <<>>
    <2>1. PICK f \in [1..Len(s) -> Seq(T)] : FlattenSeq(s) = f[Len(s)]
        BY <1>2, FlattenIs
    <2>2. Len(s) \in 1..Len(s)
        BY <1>2
    <2>. QED
        BY <2>1, <2>2
<1>. QED
    BY <1>1, <1>2

LEMMA FlattenAppend ==
    ASSUME NEW T, NEW s \in Seq(Seq(T)), NEW x \in Seq(T)
    PROVE  FlattenSeq(Append(s, x)) = FlattenSeq(s) \o x
<1> DEFINE t == Append(s, x)
           n == Len(s)
<1>1. /\ t \in Seq(Seq(T)) /\ t # <<>> /\ Len(t) = n + 1 /\ n \in Nat
      /\ \A i \in 1..n : t[i] = s[i]
      /\ t[n + 1] = x
    <2> DEFINE Q == Seq(T)
    <2>1. s \in Seq(Q) /\ x \in Q
        OBVIOUS
    <2> HIDE DEF Q
    <2>2. t \in Seq(Q) /\ Len(t) = n + 1 /\ n \in Nat
        BY <2>1
    <2>3. t # <<>>
        BY <2>2
    <2>4. (\A i \in 1..n : t[i] = s[i]) /\ t[n + 1] = x
        BY <2>1
    <2>. QED
        BY <2>2, <2>3, <2>4 DEF Q
<1> HIDE DEF t, n
<1>2. PICK f \in [1..(n + 1) -> Seq(T)] : Flattens(t, f) /\ FlattenSeq(t) = f[n + 1]
    BY <1>1, FlattenIs
<1>3. \A i \in 1..(n + 1) : f[i] = IF i = 1 THEN t[i] ELSE f[i - 1] \o t[i]
    BY <1>1, <1>2 DEF Flattens
<1>4. CASE s = <<>>
    <2>1. n = 0 /\ FlattenSeq(t) = x
        <3>1. n = 0
            BY <1>4 DEF n
        <3>. QED
            BY <3>1, <1>1, <1>2, <1>3
    <2>2. \A y \in Seq(T) : <<>> \o y = y
        OBVIOUS
    <2>. QED
        BY <1>4, <2>1, <2>2, FlattenNone DEF t
<1>5. CASE s # <<>>
    <2>0. n # 0
        BY <1>5 DEF n
    <2>1. PICK g \in [1..n -> Seq(T)] : Flattens(s, g) /\ FlattenSeq(s) = g[n]
        BY <1>5, FlattenIs DEF n
    <2>2. \A i \in 1..n : g[i] = IF i = 1 THEN s[i] ELSE g[i - 1] \o s[i]
        BY <2>1 DEF Flattens, n
    <2> DEFINE S == {k \in Nat : k \in 1..n => f[k] = g[k]}
    <2>3. 0 \in S
        OBVIOUS
    <2>4. ASSUME NEW k \in S PROVE k + 1 \in S
        <3>1. SUFFICES ASSUME k + 1 \in 1..n PROVE f[k + 1] = g[k + 1]
            OBVIOUS
        <3>2. k + 1 \in 1..(n + 1) /\ t[k + 1] = s[k + 1]
            BY <1>1, <3>1
        <3>3. /\ f[k + 1] = IF k + 1 = 1 THEN s[k + 1] ELSE f[(k + 1) - 1] \o s[k + 1]
              /\ g[k + 1] = IF k + 1 = 1 THEN s[k + 1] ELSE g[(k + 1) - 1] \o s[k + 1]
            <4>1. f[k + 1] = IF k + 1 = 1 THEN t[k + 1] ELSE f[(k + 1) - 1] \o t[k + 1]
                BY <1>3, <3>2
            <4>. QED
                BY <4>1, <2>2, <3>1, <3>2
        <3>4. CASE k = 0
            BY <3>3, <3>4
        <3>5. CASE k # 0
            <4>1. k \in 1..n /\ (k + 1) - 1 = k /\ k + 1 # 1
                BY <1>1, <3>1, <3>5
            <4>2. f[k] = g[k]
                BY <4>1
            <4>. QED
                BY <3>3, <4>1, <4>2
        <3>. QED
            BY <3>4, <3>5
    <2> HIDE DEF S
    <2>5. S \in SUBSET Nat
        BY DEF S
    <2>6. S = Nat
        BY <2>3, <2>4, <2>5, Induction
    <2>7. n \in 1..n /\ n \in Nat /\ n + 1 \in 1..(n + 1) /\ n + 1 # 1 /\ (n + 1) - 1 = n
        BY <1>1, <2>0
    <2>8. f[n] = g[n]
        BY <2>6, <2>7 DEF S
    <2>9. f[n + 1] = f[(n + 1) - 1] \o t[n + 1]
        BY <1>3, <2>7
    <2>. QED
        BY <1>1, <1>2, <2>1, <2>7, <2>8, <2>9 DEF t
<1>. QED
    BY <1>4, <1>5

-----------------------------------------------------------------------------
(* Strings: what the writer makes of one, and the reader of that.         *)

Escapes(h, n) == [i \in 1..n |-> Escape(h[i])]

LEMMA EscapeIs ==
    ASSUME NEW c \in Bytes
    PROVE  /\ Escape(c) \in Seq(Tokens)
           /\ Escape(c) = IF IsEscaped(c) THEN <<"backslash", Letter(c)>> ELSE <<c>>
<1>1. Letter(c) \in Bytes
    BY LettersAreBytes
<1>2. c \in Tokens /\ Letter(c) \in Tokens /\ "backslash" \in Tokens
    BY <1>1 DEF Tokens
<1> HIDE DEF Tokens
<1>3. <<c>> \in Seq(Tokens) /\ <<"backslash", Letter(c)>> \in Seq(Tokens)
    BY <1>2
<1>. QED
    BY <1>3 DEF Escape

LEMMA EscapesAre ==
    ASSUME NEW h \in Seq(Bytes), NEW n \in Nat, n <= Len(h)
    PROVE  Escapes(h, n) \in Seq(Seq(Tokens)) /\ Len(Escapes(h, n)) = n
<1>1. \A i \in 1..n : h[i] \in Bytes
    OBVIOUS
<1>2. \A i \in 1..n : Escape(h[i]) \in Seq(Tokens)
    BY <1>1, EscapeIs
<1>. QED
    BY <1>2 DEF Escapes

LEMMA AppendIs ==
    ASSUME NEW T, NEW s \in Seq(T), NEW x \in T
    PROVE  /\ Append(s, x) \in Seq(T) /\ Len(Append(s, x)) = Len(s) + 1 /\ Append(s, x) # <<>>
           /\ \A k \in 1..Len(s) : Append(s, x)[k] = s[k]
           /\ Append(s, x)[Len(s) + 1] = x
<1>1. Append(s, x) \in Seq(T) /\ Len(Append(s, x)) = Len(s) + 1
    OBVIOUS
<1>2. Append(s, x) # <<>>
    <2>1. Len(s) \in Nat
        OBVIOUS
    <2>2. Len(s) + 1 # 0
        BY <2>1
    <2>3. Len(<<>>) = 0
        OBVIOUS
    <2>. QED
        BY <1>1, <2>2, <2>3
<1>. QED
    BY <1>1, <1>2

LEMMA ConsIs ==
    ASSUME NEW T, NEW x \in T, NEW e \in Seq(T)
    PROVE  /\ <<x>> \o e \in Seq(T) /\ Len(<<x>> \o e) = 1 + Len(e)
           /\ (<<x>> \o e)[1] = x
           /\ \A k \in 1..Len(e) : (<<x>> \o e)[1 + k] = e[k]
<1> DEFINE s == <<x>>
<1>1. s \in Seq(T) /\ Len(s) = 1 /\ s[1] = x
    OBVIOUS
<1> HIDE DEF s
<1>2. /\ s \o e \in Seq(T) /\ Len(s \o e) = Len(s) + Len(e)
      /\ \A k \in 1..Len(s) : (s \o e)[k] = s[k]
      /\ \A k \in 1..Len(e) : (s \o e)[Len(s) + k] = e[k]
    BY <1>1, ConcatIs, SMTT(20)
<1>3. 1 \in 1..1
    OBVIOUS
<1>. QED
    BY <1>1, <1>2, <1>3 DEF s

LEMMA WriteStringType ==
    ASSUME NEW s \in Seq(Bytes), s # <<>>
    PROVE  /\ WriteString(s) = <<"quote">> \o FlattenSeq(Escapes(s, Len(s) - 1)) \o <<"quote">>
           /\ FlattenSeq(Escapes(s, Len(s) - 1)) \in Seq(Tokens)
           /\ WriteString(s) \in Seq(Tokens)
<1> DEFINE n == Len(s) - 1
           body == FlattenSeq(Escapes(s, n))
<1>1. n \in Nat /\ n <= Len(s)
    BY DEF n
<1>2. WriteString(s) = <<"quote">> \o body \o <<"quote">>
    BY DEF WriteString, Escapes
<1> HIDE DEF n
<1>3. body \in Seq(Tokens)
    BY <1>1, EscapesAre, FlattenType
<1> HIDE DEF body
<1>4. "quote" \in Tokens
    BY DEF Tokens
<1>5. <<"quote">> \in Seq(Tokens)
    BY <1>4
<1>6. <<"quote">> \o body \o <<"quote">> \in Seq(Tokens)
    BY <1>3, <1>5
<1>. QED
    BY <1>2, <1>3, <1>6 DEF body, n

Enc(s, k) == FlattenSeq(Escapes(s, k))

\* e and f are the texts of the first k - 1 and k bytes, c is the k-th.
IsNextText(e, f, c) ==
    /\ e \in Seq(Tokens) /\ f \in Seq(Tokens) /\ Len(e) \in Nat
    /\ Len(f) = Len(e) + (IF IsEscaped(c) THEN 2 ELSE 1)
    /\ \A i \in 1..Len(e) : f[i] = e[i]
    /\ f[Len(e) + 1] = IF IsEscaped(c) THEN "backslash" ELSE c
    /\ IsEscaped(c) => f[Len(e) + 2] = Letter(c)

LEMMA EncIs ==
    ASSUME NEW s \in Seq(Bytes)
    PROVE  /\ Enc(s, 0) = <<>>
           /\ \A k \in 1..Len(s) : IsNextText(Enc(s, k - 1), Enc(s, k), s[k])
           /\ \A k \in 0..Len(s) : Enc(s, k) \in Seq(Tokens) /\ Len(Enc(s, k)) \in Nat
<1>1. Enc(s, 0) = <<>>
    <2>1. Escapes(s, 0) = <<>>
        BY DEF Escapes
    <2>. QED
        BY <2>1, FlattenNone DEF Enc
<1>2. ASSUME NEW k \in 0..Len(s)
      PROVE  Escapes(s, k) \in Seq(Seq(Tokens)) /\ Enc(s, k) \in Seq(Tokens) /\ Len(Enc(s, k)) \in Nat
    <2>1. k \in Nat /\ k <= Len(s)
        OBVIOUS
    <2>2. Escapes(s, k) \in Seq(Seq(Tokens))
        BY <2>1, EscapesAre
    <2>3. Enc(s, k) \in Seq(Tokens)
        BY <2>2, FlattenType DEF Enc
    <2>. QED
        BY <2>2, <2>3
<1>3. ASSUME NEW k \in 1..Len(s) PROVE IsNextText(Enc(s, k - 1), Enc(s, k), s[k])
    <2> DEFINE c == s[k]
               e == Enc(s, k - 1)
               f == Enc(s, k)
               m == Len(e)
    <2>1. k - 1 \in 0..Len(s) /\ k \in 0..Len(s) /\ k - 1 \in Nat /\ (k - 1) + 1 = k /\ c \in Bytes
        OBVIOUS
    <2>2. Escapes(s, k) = Append(Escapes(s, k - 1), Escape(c))
        <3> DEFINE A == Escapes(s, k - 1)
                   B == Escapes(s, k)
                   Q == Seq(Tokens)
        <3>1. A \in Seq(Q) /\ Len(A) = k - 1 /\ \A i \in 1..(k - 1) : A[i] = Escape(s[i])
            BY <1>2, <2>1 DEF Escapes
        <3>2. B \in Seq(Q) /\ Len(B) = k /\ \A i \in 1..k : B[i] = Escape(s[i])
            BY <1>2, <2>1 DEF Escapes
        <3>3. Escape(c) \in Q
            BY <2>1, EscapeIs
        <3> HIDE DEF Q, A, B
        <3> DEFINE x == Escape(c)
        <3> HIDE DEF x
        <3>4. /\ Append(A, x) \in Seq(Q) /\ Len(Append(A, x)) = Len(A) + 1
              /\ \A i \in 1..Len(A) : Append(A, x)[i] = A[i]
              /\ Append(A, x)[Len(A) + 1] = x
            BY <3>1, <3>3, AppendIs DEF x
        <3>5. ASSUME NEW i \in 1..k PROVE B[i] = Append(A, x)[i]
            <4>1. CASE i = k
                BY <2>1, <3>1, <3>2, <3>4, <4>1 DEF x
            <4>2. CASE i # k
                <5>1. i \in 1..(k - 1)
                    BY <2>1, <4>2
                <5>. QED
                    BY <3>1, <3>2, <3>4, <5>1
            <4>. QED
                BY <4>1, <4>2
        <3>6. Len(Append(A, x)) = k
            BY <2>1, <3>1, <3>4
        <3>7. B = Append(A, x)
            BY <3>2, <3>4, <3>5, <3>6, SameSequence
        <3>. QED
            BY <3>7 DEF A, B, x
    <2>3. Escape(c) \in Seq(Tokens) /\ Escape(c) = IF IsEscaped(c) THEN <<"backslash", Letter(c)>> ELSE <<c>>
        BY <2>1, EscapeIs
    <2>4. Enc(s, k) = e \o Escape(c)
        <3>1. Escapes(s, k - 1) \in Seq(Seq(Tokens))
            BY <1>2, <2>1
        <3> DEFINE A == Escapes(s, k - 1)
                   x == Escape(c)
        <3> HIDE DEF A, x
        <3>2. FlattenSeq(Append(A, x)) = FlattenSeq(A) \o x
            BY <2>3, <3>1, FlattenAppend DEF A, x
        <3>. QED
            BY <2>2, <3>2 DEF Enc, A, x
    <2>5. e \in Seq(Tokens) /\ f \in Seq(Tokens) /\ m \in Nat
        BY <1>2, <2>1
    <2> HIDE DEF e, f, c
    <2>6. ASSUME IsEscaped(c) PROVE IsNextText(e, f, c)
        <3> DEFINE x == Escape(c)
        <3>1. x \in Seq(Tokens) /\ Len(x) = 2 /\ x[1] = "backslash" /\ x[2] = Letter(c)
            BY <2>3, <2>6
        <3> HIDE DEF x
        <3>2. /\ Len(e \o x) = Len(e) + Len(x)
              /\ \A i \in 1..Len(e) : (e \o x)[i] = e[i]
              /\ \A i \in 1..Len(x) : (e \o x)[Len(e) + i] = x[i]
            <4>1. e \in Seq(Tokens) /\ x \in Seq(Tokens)
                BY <2>5, <3>1
            <4>. QED
                BY <4>1
        <3>3. f = e \o x /\ 1 \in 1..2 /\ 2 \in 1..2
            BY <2>4 DEF f, x
        <3>. QED
            BY <2>5, <2>6, <3>1, <3>2, <3>3 DEF IsNextText, m
    <2>7. ASSUME ~IsEscaped(c) PROVE IsNextText(e, f, c)
        <3> DEFINE x == Escape(c)
        <3>1. x \in Seq(Tokens) /\ Len(x) = 1 /\ x[1] = c
            BY <2>3, <2>7
        <3> HIDE DEF x
        <3>2. /\ Len(e \o x) = Len(e) + Len(x)
              /\ \A i \in 1..Len(e) : (e \o x)[i] = e[i]
              /\ \A i \in 1..Len(x) : (e \o x)[Len(e) + i] = x[i]
            <4>1. e \in Seq(Tokens) /\ x \in Seq(Tokens)
                BY <2>5, <3>1
            <4>. QED
                BY <4>1
        <3>3. f = e \o x /\ 1 \in 1..1
            BY <2>4 DEF f, x
        <3>. QED
            BY <2>5, <2>7, <3>1, <3>2, <3>3 DEF IsNextText, m
    <2>. QED
        BY <2>6, <2>7 DEF c, e, f
<1>. QED
    BY <1>1, <1>2, <1>3

\* A quote in the text has a backslash before it.
QuotesMarked(e) == \A i \in 1..Len(e) : e[i] = "quote" => i > 1 /\ e[i - 1] = "backslash"

\* e is how f begins.
Begins(e, f) == Len(e) <= Len(f) /\ \A i \in 1..Len(e) : f[i] = e[i]

LEMMA NextTextIs ==
    ASSUME NEW e, NEW f, NEW c \in Bytes, IsNextText(e, f, c)
    PROVE  /\ QuotesMarked(e) => QuotesMarked(f)
           /\ Begins(e, f)
           /\ Len(f) # 0 /\ (f[Len(f)] = "backslash" <=> c = "backslash")
<1> USE DEF IsNextText
<1>1. Begins(e, f) /\ Len(f) \in Nat /\ Len(f) # 0
    <2>1. CASE IsEscaped(c)
        BY <2>1 DEF Begins
    <2>2. CASE ~IsEscaped(c)
        BY <2>2 DEF Begins
    <2>. QED
        BY <2>1, <2>2
<1>2. f[Len(f)] = "backslash" <=> c = "backslash"
    <2>1. CASE IsEscaped(c)
        <3>1. f[Len(f)] = Letter(c)
            BY <2>1
        <3>. QED
            BY <2>1, <3>1 DEF IsEscaped, Letter
    <2>2. CASE ~IsEscaped(c)
        <3>1. f[Len(f)] = c
            BY <2>2
        <3>. QED
            BY <3>1
    <2>. QED
        BY <2>1, <2>2
<1>3. ASSUME QuotesMarked(e), NEW i \in 1..Len(f), f[i] = "quote"
      PROVE  i > 1 /\ f[i - 1] = "backslash"
    <2>1. CASE i \in 1..Len(e)
        <3>1. e[i] = "quote"
            BY <1>3, <2>1
        <3>2. i > 1 /\ e[i - 1] = "backslash"
            BY <1>3, <2>1, <3>1 DEF QuotesMarked
        <3>3. i - 1 \in 1..Len(e)
            BY <2>1, <3>2
        <3>. QED
            BY <3>2, <3>3
    <2>2. CASE i \notin 1..Len(e)
        <3>1. IsEscaped(c)
            <4>1. ASSUME ~IsEscaped(c) PROVE FALSE
                <5>1. i = Len(e) + 1
                    BY <2>2, <4>1
                <5>2. c = "quote"
                    BY <1>3, <4>1, <5>1
                <5>. QED
                    BY <4>1, <5>2 DEF IsEscaped
            <4>. QED
                BY <4>1
        <3>2. i = Len(e) + 1 \/ i = Len(e) + 2
            BY <2>2, <3>1
        <3>3. i # Len(e) + 1
            BY <1>3, <3>1
        <3>4. i > 1 /\ i - 1 = Len(e) + 1
            BY <3>2, <3>3
        <3>. QED
            BY <3>1, <3>4
    <2>. QED
        BY <2>1, <2>2
<1>. QED
    BY <1>1, <1>2, <1>3 DEF QuotesMarked

LEMMA TextIs ==
    ASSUME NEW s \in Seq(Bytes), NEW n \in 0..Len(s)
    PROVE  /\ QuotesMarked(Enc(s, n))
           /\ \A k \in 0..n : Begins(Enc(s, k), Enc(s, n))
<1> DEFINE Holds(m) == QuotesMarked(Enc(s, m)) /\ \A k \in 0..m : Begins(Enc(s, k), Enc(s, m))
           S == {m \in Nat : m <= Len(s) => Holds(m)}
<1>1. 0 \in S
    <2>1. Enc(s, 0) = <<>> /\ Len(<<>>) = 0
        BY EncIs
    <2>2. Holds(0)
        BY <2>1 DEF QuotesMarked, Begins
    <2>. QED
        BY <2>2
<1>2. ASSUME NEW m \in S PROVE m + 1 \in S
    <2> SUFFICES ASSUME m + 1 <= Len(s) PROVE Holds(m + 1)
        OBVIOUS
    <2>1. m \in Nat /\ m <= Len(s) /\ m + 1 \in 1..Len(s) /\ (m + 1) - 1 = m /\ Len(s) \in Nat
        OBVIOUS
    <2>2. Holds(m) /\ s[m + 1] \in Bytes
        BY <2>1
    <2>3. IsNextText(Enc(s, m), Enc(s, m + 1), s[m + 1])
        <3>1. IsNextText(Enc(s, (m + 1) - 1), Enc(s, m + 1), s[m + 1])
            BY <2>1, EncIs
        <3>. QED
            BY <2>1, <3>1
    <2>4. QuotesMarked(Enc(s, m + 1)) /\ Begins(Enc(s, m), Enc(s, m + 1))
        BY <2>2, <2>3, NextTextIs
    <2>5. \A k \in 0..(m + 1) : Len(Enc(s, k)) \in Nat
        <3>1. \A k \in 0..(m + 1) : k \in 0..Len(s)
            BY <2>1
        <3>. QED
            BY <3>1, EncIs
    <2>6. ASSUME NEW k \in 0..(m + 1) PROVE Begins(Enc(s, k), Enc(s, m + 1))
        <3>1. CASE k = m + 1
            BY <2>5, <3>1 DEF Begins
        <3>2. CASE k # m + 1
            <4>1. k \in 0..m /\ m \in 0..(m + 1) /\ m + 1 \in 0..(m + 1)
                BY <2>1, <3>2
            <4> DEFINE a == Enc(s, k)
                       b == Enc(s, m)
                       d == Enc(s, m + 1)
            <4>2. Begins(a, b) /\ Begins(b, d) /\ Len(a) \in Nat /\ Len(b) \in Nat /\ Len(d) \in Nat
                BY <2>2, <2>4, <2>5, <4>1
            <4> HIDE DEF a, b, d
            <4>3. Begins(a, d)
                BY <4>2 DEF Begins
            <4>. QED
                BY <4>3 DEF a, d
        <3>. QED
            BY <3>1, <3>2
    <2>. QED
        BY <2>4, <2>6
<1> HIDE DEF Holds, S
<1>3. S \in SUBSET Nat
    BY DEF S
<1>4. S = Nat
    BY <1>1, <1>2, <1>3, Induction
<1>5. Holds(n)
    <2>1. n \in Nat /\ n <= Len(s)
        OBVIOUS
    <2>. QED
        BY <1>4, <2>1 DEF S
<1>. QED
    BY <1>5 DEF Holds

\* t is v between quotes.
IsQuoted(t, v) ==
    /\ t \in Seq(Tokens) /\ Len(t) = Len(v) + 2
    /\ t[1] = "quote" /\ t[Len(v) + 2] = "quote"
    /\ \A i \in 1..Len(v) : t[i + 1] = v[i]

LEMMA QuotedIs ==
    ASSUME NEW s \in Seq(Bytes), s # <<>>
    PROVE  IsQuoted(WriteString(s), Enc(s, Len(s) - 1))
<1> DEFINE v == Enc(s, Len(s) - 1)
           w == <<"quote">>
           u == w \o v
<1>1. v \in Seq(Tokens) /\ WriteString(s) = w \o v \o w
    BY WriteStringType DEF Enc
<1>2. w \in Seq(Tokens) /\ Len(w) = 1 /\ w[1] = "quote"
    <2>1. "quote" \in Tokens
        BY DEF Tokens
    <2>. QED
        BY <2>1
<1> HIDE DEF v, w
<1>3. /\ u \in Seq(Tokens) /\ Len(u) = 1 + Len(v) /\ Len(v) \in Nat
      /\ u[1] = "quote" /\ \A i \in 1..Len(v) : u[1 + i] = v[i]
    <2>1. v \in Seq(Tokens)
        BY <1>1
    <2>0. w \in Seq(Tokens) /\ Len(v) \in Nat
        BY <1>2, <2>1
    <2>2. /\ w \o v \in Seq(Tokens) /\ Len(w \o v) = Len(w) + Len(v)
          /\ \A i \in 1..Len(w) : (w \o v)[i] = w[i]
          /\ \A i \in 1..Len(v) : (w \o v)[Len(w) + i] = v[i]
        BY <2>0, <2>1
    <2>3. 1 \in 1..1
        OBVIOUS
    <2>. QED
        BY <1>2, <2>0, <2>2, <2>3
<1> DEFINE t == u \o w
<1> HIDE DEF u
<1>4. /\ t \in Seq(Tokens) /\ Len(t) = Len(v) + 2
      /\ \A i \in 1..(1 + Len(v)) : t[i] = u[i]
      /\ t[Len(v) + 2] = "quote"
    <2>1. u \in Seq(Tokens) /\ w \in Seq(Tokens)
        BY <1>2, <1>3
    <2>2. /\ u \o w \in Seq(Tokens) /\ Len(u \o w) = Len(u) + Len(w)
          /\ \A i \in 1..Len(u) : (u \o w)[i] = u[i]
          /\ \A i \in 1..Len(w) : (u \o w)[Len(u) + i] = w[i]
        BY <2>1
    <2>3. 1 \in 1..Len(w) /\ Len(u) + 1 = Len(v) + 2 /\ Len(u) + Len(w) = Len(v) + 2
        BY <1>2, <1>3
    <2>4. (u \o w)[Len(u) + 1] = w[1]
        BY <2>2, <2>3
    <2>. QED
        BY <1>2, <1>3, <2>2, <2>3, <2>4
<1> HIDE DEF t
<1>5. t[1] = "quote" /\ \A i \in 1..Len(v) : t[i + 1] = v[i]
    <2>1. 1 \in 1..(1 + Len(v))
        BY <1>3
    <2>2. ASSUME NEW i \in 1..Len(v) PROVE t[i + 1] = v[i]
        <3>1. i + 1 \in 1..(1 + Len(v)) /\ i + 1 = 1 + i
            BY <1>3
        <3>. QED
            BY <1>3, <1>4, <3>1
    <2>. QED
        BY <1>3, <1>4, <2>1, <2>2
<1>6. WriteString(s) = t
    BY <1>1 DEF t, u
<1>7. IsQuoted(t, v)
    BY <1>4, <1>5 DEF IsQuoted
<1>. QED
    BY <1>6, <1>7 DEF v

LEMMA ClosingIs ==
    ASSUME NEW s \in Seq(Bytes), s # <<>>
    PROVE  LET n == Len(s) - 1
           IN  ClosingQuotes(WriteString(s)) =
                 IF n = 0 \/ s[n] = "backslash" THEN {} ELSE {Len(Enc(s, n)) + 2}
<1> DEFINE n == Len(s) - 1
           v == Enc(s, n)
           N == Len(v)
           t == WriteString(s)
<1>1. n \in Nat /\ n \in 0..Len(s) /\ Len(s) \in Nat
    OBVIOUS
<1>2. IsQuoted(t, v)
    BY QuotedIs
<1>3. v \in Seq(Tokens) /\ N \in Nat /\ QuotesMarked(v)
    BY <1>1, EncIs, TextIs
<1>4. n = 0 => N = 0
    <2>1. Enc(s, 0) = <<>>
        BY EncIs
    <2>2. Len(<<>>) = 0
        OBVIOUS
    <2>. QED
        BY <2>1, <2>2
<1>5. n # 0 => N # 0 /\ (v[N] = "backslash" <=> s[n] = "backslash")
    <2> SUFFICES ASSUME n # 0 PROVE N # 0 /\ (v[N] = "backslash" <=> s[n] = "backslash")
        OBVIOUS
    <2>1. n \in 1..Len(s)
        <3> HIDE DEF n
        <3>. QED
            BY <1>1
    <2>2. s[n] \in Bytes
        <3> HIDE DEF n
        <3>. QED
            BY <2>1
    <2>3. IsNextText(Enc(s, n - 1), v, s[n])
        <3> HIDE DEF n
        <3>. QED
            BY <2>1, EncIs
    <2>. QED
        BY <2>2, <2>3, NextTextIs
<1> HIDE DEF n, v, t
<1>6. Len(t) = N + 2 /\ t[N + 2] = "quote" /\ \A i \in 1..N : t[i + 1] = v[i]
    BY <1>2 DEF IsQuoted
<1>7. ASSUME NEW i \in ClosingQuotes(t) PROVE i = N + 2 /\ N # 0 /\ v[N] # "backslash"
    <2>1. i \in 3..(N + 2) /\ t[i] = "quote" /\ t[i - 1] # "backslash"
        BY <1>6 DEF ClosingQuotes
    <2>2. ASSUME i # N + 2 PROVE FALSE
        <3>1. i - 1 \in 1..N /\ (i - 1) + 1 = i /\ i - 2 \in 1..N /\ (i - 2) + 1 = i - 1 /\ (i - 1) - 1 = i - 2
            BY <1>3, <2>1, <2>2
        <3>2. v[i - 1] = "quote" /\ v[i - 2] = t[i - 1]
            <4>1. t[(i - 1) + 1] = v[i - 1] /\ t[(i - 2) + 1] = v[i - 2]
                BY <1>6, <3>1
            <4>. QED
                BY <2>1, <3>1, <4>1
        <3>3. v[(i - 1) - 1] = "backslash"
            BY <1>3, <3>1, <3>2 DEF QuotesMarked
        <3>. QED
            BY <2>1, <3>1, <3>2, <3>3
    <2>3. N # 0 /\ N \in 1..N /\ i - 1 = N + 1
        BY <1>3, <2>1, <2>2
    <2>4. t[N + 1] = v[N]
        BY <1>6, <2>3
    <2>. QED
        BY <2>1, <2>2, <2>3, <2>4
<1>8. ASSUME N # 0, v[N] # "backslash" PROVE N + 2 \in ClosingQuotes(t)
    <2>1. N \in 1..N /\ N + 2 \in 3..(N + 2) /\ (N + 2) - 1 = N + 1
        BY <1>3, <1>8
    <2>2. t[(N + 2) - 1] # "backslash"
        BY <1>6, <1>8, <2>1
    <2>. QED
        BY <1>6, <2>1, <2>2 DEF ClosingQuotes
<1>9. CASE n = 0 \/ s[n] = "backslash"
    <2>1. ~(N # 0 /\ v[N] # "backslash")
        BY <1>4, <1>5, <1>9
    <2>2. ClosingQuotes(t) = {}
        BY <1>7, <2>1
    <2>. QED
        BY <1>9, <2>2 DEF n, t
<1>10. CASE ~(n = 0 \/ s[n] = "backslash")
    <2>1. N # 0 /\ v[N] # "backslash"
        BY <1>5, <1>10
    <2>2. ClosingQuotes(t) = {N + 2}
        BY <1>7, <1>8, <2>1
    <2>. QED
        BY <1>10, <2>2 DEF n, t, v
<1>. QED
    BY <1>9, <1>10

\* The reader's function over the text between the quotes.
ReadsFrom(f, v) ==
    f = [i \in 1..(Len(v) + 1) |->
            IF i > Len(v) THEN <<"nul">>
            ELSE IF v[i] = "backslash" THEN <<Unescape(v[i + 1])>> \o f[i + 2]
            ELSE <<v[i]>> \o f[i + 1]]

\* From the end on, what is read from a place and from the one behind it.
LEMMA ThereIsAReading ==
    ASSUME NEW v \in Seq(Tokens), Len(v) # 0 => v[Len(v)] # "backslash"
    PROVE  \E f : ReadsFrom(f, v)
<1> DEFINE N == Len(v)
           U == Tokens \cup {"nul", "newline"}
           X == Seq(U) \X Seq(U)
           first == <<(<<"nul">>), <<>>>>
           Step(m, x) == LET i == N + 1 - m
                         IN  <<IF v[i] = "backslash" THEN <<Unescape(v[i + 1])>> \o x[2]
                               ELSE <<v[i]>> \o x[1], x[1]>>
           step == [m \in Nat |-> [x \in X |-> IF m \in 1..N THEN Step(m, x) ELSE x]]
<1>1. N \in Nat /\ \A i \in 1..N : v[i] \in Tokens
    OBVIOUS
<1>2. first \in X
    <2>1. <<"nul">> \in Seq(U) /\ <<>> \in Seq(U)
        OBVIOUS
    <2>. QED
        BY <2>1
<1>3. \A c \in Tokens : c \in U /\ Unescape(c) \in U
    BY DEF Unescape
<1>4. \A i \in 1..N : v[i] = "backslash" => i + 1 \in 1..N /\ i + 2 \in 1..(N + 1)
    BY <1>1
<1> HIDE DEF U, first
<1>5. ASSUME NEW m \in 1..N, NEW x \in X PROVE Step(m, x) \in X
    <2> DEFINE i == N + 1 - m
    <2>1. i \in 1..N
        BY <1>1
    <2> HIDE DEF i
    <2>2. x[1] \in Seq(U) /\ x[2] \in Seq(U)
        OBVIOUS
    <2> DEFINE a == x[1]
               b == x[2]
    <2>3. a \in Seq(U) /\ b \in Seq(U)
        BY <2>2
    <2> HIDE DEF a, b
    <2>4. <<v[i]>> \o a \in Seq(U)
        <3>1. v[i] \in U
            BY <1>1, <1>3, <2>1
        <3>. QED
            BY <2>3, <3>1
    <2>5. ASSUME v[i] = "backslash" PROVE <<Unescape(v[i + 1])>> \o b \in Seq(U)
        <3>1. Unescape(v[i + 1]) \in U
            BY <1>1, <1>3, <1>4, <2>1, <2>5
        <3>. QED
            BY <2>3, <3>1
    <2>6. <<IF v[i] = "backslash" THEN <<Unescape(v[i + 1])>> \o b ELSE <<v[i]>> \o a, a>> \in X
        BY <2>3, <2>4, <2>5
    <2>. QED
        BY <2>6 DEF i, a, b
<1> HIDE DEF Step, X
<1>6. step \in [Nat -> [X -> X]]
    BY <1>5
<1>7. PICK g \in [0..N -> X] : Follow(g, first, step, N)
    <2> HIDE DEF step
    <2>. QED
        BY <1>1, <1>2, <1>6, ThereIsARow
<1>8. g[0] = first /\ \A m \in 1..N : g[m] = Step(m, g[m - 1])
    <2>1. g[0] = first /\ \A m \in 1..N : g[m] = step[m][g[m - 1]]
        BY <1>7 DEF Follow
    <2>2. ASSUME NEW m \in 1..N PROVE g[m] = Step(m, g[m - 1])
        <3>1. m - 1 \in 0..N /\ m \in Nat
            BY <1>1
        <3>2. g[m - 1] \in X
            BY <1>7, <3>1
        <3>3. step[m][g[m - 1]] = Step(m, g[m - 1])
            BY <3>1, <3>2
        <3>. QED
            BY <2>1, <3>3
    <2>. QED
        BY <2>1, <2>2
<1> HIDE DEF step
<1> DEFINE f == [i \in 1..(N + 1) |-> g[N + 1 - i][1]]
<1>9. ASSUME NEW i \in 1..(N + 1)
      PROVE  f[i] = IF i > N THEN <<"nul">>
                    ELSE IF v[i] = "backslash" THEN <<Unescape(v[i + 1])>> \o f[i + 2]
                    ELSE <<v[i]>> \o f[i + 1]
    <2>1. f[i] = g[N + 1 - i][1]
        OBVIOUS
    <2>2. CASE i > N
        <3>1. N + 1 - i = 0
            BY <1>1, <2>2
        <3>. QED
            BY <1>8, <2>1, <2>2, <3>1 DEF first
    <2>3. CASE ~(i > N)
        <3> DEFINE m == N + 1 - i
        <3>1. m \in 1..N /\ N + 1 - m = i /\ i \in 1..N /\ i + 1 \in 1..(N + 1) /\ N + 1 - (i + 1) = m - 1
            BY <1>1, <2>3
        <3>2. f[i + 1] = g[m - 1][1]
            BY <3>1
        <3> HIDE DEF m, f
        <3> DEFINE x == g[m - 1]
        <3>3. g[m] = <<IF v[i] = "backslash" THEN <<Unescape(v[i + 1])>> \o x[2] ELSE <<v[i]>> \o x[1], x[1]>>
            BY <1>8, <3>1 DEF Step
        <3>4. f[i] = IF v[i] = "backslash" THEN <<Unescape(v[i + 1])>> \o x[2] ELSE <<v[i]>> \o x[1]
            BY <2>1, <3>3 DEF m
        <3>5. ASSUME v[i] = "backslash" PROVE x[2] = f[i + 2]
            <4>1. i + 2 \in 1..(N + 1) /\ m - 1 \in 1..N /\ N + 1 - (i + 2) = (m - 1) - 1
                BY <1>1, <1>4, <3>1, <3>5
            <4>2. f[i + 2] = g[(m - 1) - 1][1]
                BY <4>1 DEF f
            <4>3. g[m - 1] = Step(m - 1, g[(m - 1) - 1])
                BY <1>8, <4>1
            <4>4. g[m - 1][2] = g[(m - 1) - 1][1]
                BY <4>3 DEF Step
            <4>. QED
                BY <4>2, <4>4
        <3>. QED
            BY <2>3, <3>2, <3>4, <3>5
    <2>. QED
        BY <2>2, <2>3
<1> HIDE DEF Step
<1>10. ReadsFrom(f, v)
    <2>1. f = [i \in 1..(N + 1) |-> f[i]]
        OBVIOUS
    <2> HIDE DEF f
    <2>2. [i \in 1..(N + 1) |-> f[i]] =
          [i \in 1..(N + 1) |-> IF i > N THEN <<"nul">>
                    ELSE IF v[i] = "backslash" THEN <<Unescape(v[i + 1])>> \o f[i + 2]
                    ELSE <<v[i]>> \o f[i + 1]]
        BY <1>9
    <2>. QED
        BY <2>1, <2>2 DEF ReadsFrom
<1>. QED
    BY <1>10

\* What the reader makes of a byte the writer wrote.
Reread(c) == IF IsEscaped(c) THEN Unescape(Letter(c)) ELSE c

RereadAll(s) == [j \in 1..Len(s) |-> IF j = Len(s) THEN "nul" ELSE Reread(s[j])]

LEMMA RereadIs ==
    ASSUME NEW c \in Bytes
    PROVE  Reread(c) \in Bytes /\ (Reread(c) = c <=> c # "vtab")
<1>1. Letter(c) \in Bytes
    BY LettersAreBytes
<1>. QED
    BY <1>1 DEF Reread, IsEscaped, Unescape, Letter

LEMMA RestIs ==
    ASSUME NEW T, NEW b \in Seq(T), NEW k \in 0..(Len(b) - 1)
    PROVE  SubSeq(b, k + 1, Len(b)) = <<b[k + 1]>> \o SubSeq(b, k + 2, Len(b))
<1> DEFINE N == Len(b)
           r == SubSeq(b, k + 1, N)
           t == SubSeq(b, k + 2, N)
           x == b[k + 1]
<1>1. N \in Nat /\ k \in Nat /\ k + 1 <= N
    OBVIOUS
<1>2. r \in Seq(T) /\ Len(r) = N - k /\ \A i \in 1..(N - k) : r[i] = b[k + i]
    BY <1>1
<1>3. t \in Seq(T) /\ Len(t) = N - k - 1 /\ \A i \in 1..(N - k - 1) : t[i] = b[k + 1 + i]
    BY <1>1
<1>4. x \in T
    BY <1>1
<1> HIDE DEF r, t, x
<1> DEFINE a == <<x>> \o t
<1>5. a \in Seq(T) /\ Len(a) = 1 + Len(t) /\ a[1] = x /\ \A i \in 1..Len(t) : a[1 + i] = t[i]
    BY <1>3, <1>4, ConsIs
<1> HIDE DEF a
<1>6. ASSUME NEW i \in 1..(N - k) PROVE r[i] = a[i]
    <2>1. CASE i = 1
        BY <1>2, <1>5, <2>1 DEF x
    <2>2. CASE i # 1
        <3>1. i - 1 \in 1..(N - k - 1) /\ 1 + (i - 1) = i /\ k + 1 + (i - 1) = k + i
            BY <1>1, <2>2
        <3>2. a[1 + (i - 1)] = t[i - 1] /\ t[i - 1] = b[k + 1 + (i - 1)]
            BY <1>3, <1>5, <3>1
        <3>. QED
            BY <1>2, <3>1, <3>2
    <2>. QED
        BY <2>1, <2>2
<1>7. Len(a) = N - k
    BY <1>1, <1>3, <1>5
<1>8. r = a
    BY <1>2, <1>5, <1>6, <1>7, SameSequence
<1>. QED
    BY <1>8 DEF r, a, t, x

LEMMA ReadStringIs ==
    ASSUME NEW s \in Seq(Bytes), s # <<>>, s[Len(s)] = "nul",
           Len(s) # 1, s[Len(s) - 1] # "backslash"
    PROVE  ReadString(WriteString(s)) = RereadAll(s) /\ RereadAll(s) \in Seq(Bytes)
<1> DEFINE M == Len(s)
           n == M - 1
           v == Enc(s, n)
           N == Len(v)
           t == WriteString(s)
           b == RereadAll(s)
           f == CHOOSE g : ReadsFrom(g, v)
<1>1. M \in Nat /\ n \in 1..M /\ n \in 0..M /\ M = n + 1 /\ s[n] # "backslash" /\ n # 0
    <2>1. M \in Nat /\ M # 0 /\ M # 1
        OBVIOUS
    <2> HIDE DEF M
    <2>2. n \in 1..M /\ n \in 0..M /\ M = n + 1 /\ n # 0
        BY <2>1
    <2>3. s[n] # "backslash"
        BY DEF M
    <2>. QED
        BY <2>1, <2>2, <2>3
<1>2. v \in Seq(Tokens) /\ N \in Nat /\ N # 0 /\ v[N] # "backslash"
    <2> HIDE DEF n
    <2>1. s[n] \in Bytes /\ IsNextText(Enc(s, n - 1), Enc(s, n), s[n])
        BY <1>1, EncIs
    <2>2. v \in Seq(Tokens) /\ N \in Nat
        BY <1>1, EncIs
    <2>. QED
        BY <1>1, <2>1, <2>2, NextTextIs
<1>3. IsQuoted(t, v)
    BY QuotedIs
<1>4. CloseAt(t) = N + 2
    <2>1. ClosingQuotes(t) = {N + 2}
        <3>1. ~(n = 0 \/ s[n] = "backslash")
            BY <1>1
        <3>. QED
            BY <3>1, ClosingIs
    <2>2. \A i \in {N + 2} : \A j \in {N + 2} : i <= j
        BY <1>2
    <2>. QED
        BY <2>1, <2>2 DEF CloseAt
<1> HIDE DEF v, t, n
<1>5. SubSeq(t, 2, CloseAt(t) - 1) = v
    <2> DEFINE w == SubSeq(t, 2, N + 1)
    <2>1. CloseAt(t) - 1 = N + 1
        BY <1>2, <1>4
    <2>2. t \in Seq(Tokens) /\ Len(t) = N + 2 /\ \A i \in 1..N : t[i + 1] = v[i]
        BY <1>3 DEF IsQuoted
    <2>3. w \in Seq(Tokens) /\ Len(w) = N /\ \A i \in 1..N : w[i] = t[i + 1]
        BY <1>2, <2>2
    <2> HIDE DEF w
    <2>4. w = v
        BY <1>2, <2>2, <2>3, SameSequence
    <2>. QED
        BY <2>1, <2>4 DEF w
<1>6. ReadString(t) = f[1]
    <2>1. ReadString(t) = (CHOOSE g : ReadsFrom(g, v))[1]
        BY <1>5 DEF ReadString, ReadsFrom
    <2>. QED
        BY <2>1
<1>7. ReadsFrom(f, v)
    BY <1>2, ThereIsAReading
<1> HIDE DEF f
<1>8. \A i \in 1..(N + 1) :
        f[i] = IF i > N THEN <<"nul">>
               ELSE IF v[i] = "backslash" THEN <<Unescape(v[i + 1])>> \o f[i + 2]
               ELSE <<v[i]>> \o f[i + 1]
    BY <1>7 DEF ReadsFrom
<1>9. /\ b \in Seq(Bytes) /\ Len(b) = M /\ b[M] = "nul"
      /\ \A j \in 1..n : b[j] = Reread(s[j])
    <2>1. "nul" \in Bytes
        BY <1>1
    <2>2. \A j \in 1..M : s[j] \in Bytes /\ Reread(s[j]) \in Bytes
        BY RereadIs
    <2>3. b \in Seq(Bytes) /\ Len(b) = M
        BY <2>1, <2>2 DEF RereadAll
    <2>4. M \in 1..M /\ \A j \in 1..n : j \in 1..M /\ j # M
        BY <1>1
    <2>. QED
        BY <2>3, <2>4 DEF RereadAll
<1> HIDE DEF b
<1> DEFINE At(k) == Len(Enc(s, k)) + 1
           From(k) == SubSeq(b, k + 1, M)
           S == {m \in Nat : m <= n => f[At(n - m)] = From(n - m)}
<1>10. 0 \in S
    <2>1. n - 0 = n /\ N + 1 \in 1..(N + 1) /\ N + 1 > N
        BY <1>1, <1>2
    <2>2. f[At(n)] = <<"nul">>
        BY <1>8, <2>1 DEF v
    <2>3. From(n) = <<"nul">>
        <3>1. b \in Seq(Bytes) /\ M \in 1..Len(b) /\ Len(b) = M /\ n + 1 = M
            BY <1>1, <1>9
        <3> HIDE DEF M
        <3>2. SubSeq(b, M, M) = <<b[M]>>
            <4> DEFINE w == SubSeq(b, M, M)
                       x == b[M]
                       u == <<x>>
            <4>1. x \in Bytes
                BY <3>1
            <4>2. w \in Seq(Bytes) /\ Len(w) = 1 /\ w[1] = x
                BY <3>1
            <4> HIDE DEF w, x
            <4>3. u \in Seq(Bytes) /\ Len(u) = 1 /\ u[1] = x
                BY <4>1
            <4> HIDE DEF u
            <4>4. \A i \in 1..Len(w) : w[i] = u[i]
                BY <4>2, <4>3
            <4>5. w = u
                BY <4>2, <4>3, <4>4, SameSequence
            <4>. QED
                BY <4>5 DEF w, u, x
        <3>. QED
            BY <1>9, <3>1, <3>2
    <2>. QED
        BY <2>1, <2>2, <2>3
<1>11. ASSUME NEW m \in S PROVE m + 1 \in S
    <2> SUFFICES ASSUME m + 1 <= n PROVE f[At(n - (m + 1))] = From(n - (m + 1))
        OBVIOUS
    <2> DEFINE k == n - (m + 1)
               c == s[k + 1]
               e == Enc(s, k)
               g == Enc(s, k + 1)
               L == Len(e)
    <2>1. /\ m \in Nat /\ m <= n /\ k \in Nat /\ k + 1 = n - m /\ k \in 0..n /\ k + 1 \in 0..n
          /\ k + 1 \in 1..M /\ (k + 1) - 1 = k /\ k \in 0..(M - 1) /\ k + 1 \in 1..n
        BY <1>1
    <2>2. f[At(k + 1)] = From(k + 1)
        BY <2>1
    <2>3. c \in Bytes /\ IsNextText(Enc(s, (k + 1) - 1), g, c)
        <3> HIDE DEF k
        <3>1. c \in Bytes
            BY <2>1
        <3>2. IsNextText(Enc(s, (k + 1) - 1), Enc(s, k + 1), s[k + 1])
            <4> DEFINE j == k + 1
            <4>1. j \in 1..Len(s)
                BY <2>1
            <4> HIDE DEF j
            <4>2. IsNextText(Enc(s, j - 1), Enc(s, j), s[j])
                BY <4>1, EncIs
            <4>. QED
                BY <4>2 DEF j
        <3>. QED
            BY <3>1, <3>2
    <2> HIDE DEF k
    <2>4. IsNextText(e, g, c)
        BY <2>1, <2>3
    <2>5. Begins(g, v)
        BY <1>1, <2>1, TextIs DEF v
    <2>6. From(k) = <<Reread(c)>> \o From(k + 1)
        <3>1. From(k) = <<b[k + 1]>> \o SubSeq(b, k + 2, M)
            BY <1>9, <2>1, RestIs
        <3>2. (k + 1) + 1 = k + 2 /\ b[k + 1] = Reread(c)
            BY <1>9, <2>1
        <3>. QED
            BY <3>1, <3>2
    <2> HIDE DEF From, c
    <2>7. CASE IsEscaped(c)
        <3>1. /\ L \in Nat /\ Len(g) = L + 2 /\ g[L + 1] = "backslash" /\ g[L + 2] = Letter(c)
              /\ L + 2 <= N /\ \A i \in 1..(L + 2) : v[i] = g[i]
            BY <2>4, <2>5, <2>7 DEF IsNextText, Begins
        <3>2. L + 1 \in 1..(N + 1) /\ ~(L + 1 > N) /\ L + 1 \in 1..(L + 2) /\ L + 2 \in 1..(L + 2)
              /\ (L + 1) + 1 = L + 2 /\ (L + 1) + 2 = Len(g) + 1
            BY <1>2, <3>1
        <3>3. v[L + 1] = "backslash" /\ v[L + 2] = Letter(c)
            BY <3>1, <3>2
        <3>4. f[L + 1] = <<Unescape(v[(L + 1) + 1])>> \o f[(L + 1) + 2]
            BY <1>8, <3>2, <3>3
        <3>5. f[L + 1] = <<Reread(c)>> \o From(k + 1)
            BY <2>2, <2>7, <3>2, <3>3, <3>4 DEF Reread
        <3>. QED
            BY <2>6, <3>5 DEF k
    <2>8. CASE ~IsEscaped(c)
        <3>1. /\ L \in Nat /\ Len(g) = L + 1 /\ g[L + 1] = c
              /\ L + 1 <= N /\ \A i \in 1..(L + 1) : v[i] = g[i]
            BY <2>4, <2>5, <2>8 DEF IsNextText, Begins
        <3>2. L + 1 \in 1..(N + 1) /\ ~(L + 1 > N) /\ L + 1 \in 1..(L + 1) /\ (L + 1) + 1 = Len(g) + 1
            BY <1>2, <3>1
        <3>3. v[L + 1] = c /\ c # "backslash"
            BY <2>8, <3>1, <3>2 DEF IsEscaped
        <3>4. f[L + 1] = <<c>> \o f[(L + 1) + 1]
            BY <1>8, <3>2, <3>3
        <3>5. f[L + 1] = <<Reread(c)>> \o From(k + 1)
            BY <2>2, <2>8, <3>2, <3>4 DEF Reread
        <3>. QED
            BY <2>6, <3>5 DEF k
    <2>. QED
        BY <2>7, <2>8
<1> HIDE DEF S
<1>12. S \in SUBSET Nat
    BY DEF S
<1>13. f[At(0)] = From(0)
    <2>1. S = Nat
        BY <1>10, <1>11, <1>12, Induction
    <2>2. n \in Nat /\ n - n = 0
        BY <1>1
    <2>3. n \in S
        BY <2>1, <2>2
    <2>. QED
        BY <2>2, <2>3 DEF S
<1>14. At(0) = 1 /\ From(0) = b
    <2>1. Enc(s, 0) = <<>> /\ Len(<<>>) = 0
        BY EncIs
    <2>2. SubSeq(b, 1, M) = b
        BY <1>9
    <2>. QED
        BY <2>1, <2>2
<1>. QED
    BY <1>6, <1>9, <1>13, <1>14 DEF b, t
=============================================================================
